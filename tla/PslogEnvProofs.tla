---------------------------- MODULE PslogEnvProofs ----------------------------
(***************************************************************************)
(* Proofs about PslogEnv, for any seeds, environments, tokens and sizes of *)
(* the buffers a value is copied into.                                     *)
(***************************************************************************)
EXTENDS PslogEnv, SequenceTheorems, WellFoundedInduction, NaturalsInduction, TLAPS

-----------------------------------------------------------------------------
(* Values.                                                                 *)

\* A set of positions has a first one.
LEMMA LeastNat ==
  ASSUME NEW T, T \subseteq Nat, T # {}
  PROVE  Min(T) \in T /\ \A n \in T : Min(T) <= n
  <1>1. IsWellFoundedOn(OpToRel(<, Nat), Nat)
    BY NatLessThanWellFounded
  <1>2. \E p \in T : \A q \in T : ~(<<q, p>> \in OpToRel(<, Nat))
    BY <1>1, WFMin
  <1>3. \A p, q \in Nat : q < p => <<q, p>> \in OpToRel(<, Nat)
    BY Zenon DEF OpToRel
  <1>4. \E p \in T : \A q \in T : ~(q < p)
    BY <1>2, <1>3
  <1>5. \E p \in T : \A q \in T : p <= q
    BY <1>4
  <1> QED BY <1>5, Zenon DEF Min

\* A set of positions of a value has a last one.
LEMMA GreatestNat ==
  ASSUME NEW k \in Nat, NEW T, T \subseteq 0..k, T # {}
  PROVE  Max(T) \in T /\ \A n \in T : n <= Max(T)
  <1> DEFINE U == {i \in 0..k : k - i \in T}
  <1>1. PICK n \in T : TRUE
    OBVIOUS
  <1>2. k - (k - n) = n /\ k - n \in 0..k
    OBVIOUS
  <1>3. k - n \in U
    BY <1>2
  <1>4. U \subseteq Nat /\ U # {}
    BY <1>3
  <1> DEFINE u == Min(U)
  <1>5. u \in U /\ \A w \in U : u <= w
    BY <1>4, LeastNat
  <1>6. k - u \in T
    BY <1>5
  <1>7. ASSUME NEW i \in T PROVE i <= k - u
    <2>1. k - (k - i) = i /\ k - i \in 0..k
      OBVIOUS
    <2>2. k - i \in U
      BY <2>1
    <2>3. u <= k - i /\ u \in 0..k
      BY <1>5, <2>2
    <2> HIDE DEF u, U
    <2> QED BY <2>1, <2>3
  <1>8. \E p \in T : \A q \in T : q <= p
    BY <1>6, <1>7
  <1>9. \E p \in T : \A q \in T : p >= q
    BY <1>8
  <1>10. Max(T) \in T /\ \A q \in T : Max(T) >= q
    BY <1>9, Zenon DEF Max
  <1> QED BY <1>10

\* No blank at either end.
Tight(s) == s = <<>> \/ (s[1] # Blank /\ s[Len(s)] # Blank)

(***************************************************************************)
(* pslog_trim_copy leaves alone a value with no blanks around it.          *)
(***************************************************************************)
LEMMA TightStays ==
  ASSUME NEW s \in Seq(Tokens), Tight(s)
  PROVE  Stripped(s) = s
  <1> DEFINE ink == {i \in DOMAIN s : s[i] # Blank}
  <1>1. CASE s = <<>>
    <2>1. ink = {}
      BY <1>1
    <2> QED BY <1>1, <2>1 DEF Stripped
  <1>2. CASE s # <<>>
    <2>1. Len(s) \in Nat \ {0} /\ DOMAIN s = 1..Len(s) /\ ink \subseteq 1..Len(s)
      BY <1>2, EmptySeq, LenProperties
    <2>2. 1 \in ink /\ Len(s) \in ink
      BY <1>2, <2>1 DEF Tight
    <2>3. Min(ink) = 1
      <3>0. ink \subseteq Nat /\ ink # {}
        BY <2>1, <2>2
      <3>1. Min(ink) \in ink /\ Min(ink) <= 1
        BY <2>2, <3>0, LeastNat
      <3> QED BY <2>1, <3>1
    <2>4. Max(ink) = Len(s)
      <3>0. ink \subseteq 0..Len(s) /\ ink # {} /\ Len(s) \in Nat
        BY <2>1, <2>2
      <3>1. Max(ink) \in ink /\ Len(s) <= Max(ink)
        BY <2>2, <3>0, GreatestNat
      <3> QED BY <2>1, <3>1
    <2>5. Stripped(s) = SubSeq(s, 1, Len(s))
      BY <2>2, <2>3, <2>4 DEF Stripped
    <2>6. SubSeq(s, 1, Len(s)) = s
      BY <2>1
    <2> QED BY <2>5, <2>6
  <1> QED BY <1>1, <1>2

(***************************************************************************)
(* What pslog_trim_copy copies is a value with no blanks around it.        *)
(***************************************************************************)
LEMMA StrippedTight ==
  ASSUME NEW s \in Seq(Tokens)
  PROVE  /\ Stripped(s) \in Seq(Tokens) /\ Tight(Stripped(s))
         /\ Len(Stripped(s)) <= Len(s)
  <1> DEFINE ink == {i \in DOMAIN s : s[i] # Blank}
             first == Min(ink)
             last == Max(ink)
  <1>1. CASE ink = {}
    <2>1. Stripped(s) = <<>> /\ Len(s) \in Nat
      BY <1>1, LenProperties DEF Stripped
    <2> QED BY <2>1 DEF Tight
  <1>2. CASE ink # {}
    <2>1. Len(s) \in Nat /\ DOMAIN s = 1..Len(s) /\ ink \subseteq 1..Len(s)
          /\ \A i \in 1..Len(s) : s[i] \in Tokens
      BY LenProperties
    <2>2. first \in ink /\ \A j \in ink : first <= j
      <3>1. ink \subseteq Nat
        BY <2>1
      <3> QED BY <1>2, <3>1, LeastNat
    <2>3. last \in ink /\ \A j \in ink : j <= last
      <3>1. ink \subseteq 0..Len(s)
        BY <2>1
      <3> QED BY <1>2, <2>1, <3>1, GreatestNat
    <2>4. Stripped(s) = SubSeq(s, first, last)
      BY <1>2 DEF Stripped
    <2>5. s[first] # Blank /\ s[last] # Blank
      BY <2>2, <2>3
    <2> HIDE DEF first, last, ink
    <2>6. first \in 1..Len(s) /\ last \in 1..Len(s) /\ first <= last
      BY <2>1, <2>2, <2>3
    <2>7. /\ SubSeq(s, first, last) \in Seq(Tokens)
          /\ Len(SubSeq(s, first, last)) = last - first + 1
          /\ \A i \in 1..last - first + 1 : SubSeq(s, first, last)[i] = s[first + i - 1]
      BY <2>1, <2>6, SubSeqProperties
    <2>8. SubSeq(s, first, last)[1] = s[first]
      BY <2>6, <2>7
    <2>9. SubSeq(s, first, last)[last - first + 1] = s[last]
      BY <2>6, <2>7
    <2>10. Len(SubSeq(s, first, last)) <= Len(s)
      BY <2>1, <2>6, <2>7
    <2> QED BY <2>4, <2>5, <2>7, <2>8, <2>9, <2>10 DEF Tight
  <1> QED BY <1>1, <1>2

(***************************************************************************)
(* tolower: once is enough, and what has no case is neither changed nor    *)
(* produced.                                                               *)
(***************************************************************************)
Caseless == OctalDigits \cup Separators \cup {"+"}

LEMMA LowerToken ==
  ASSUME NEW t \in Tokens
  PROVE  /\ Lower(t) \in Tokens
         /\ Lower(Lower(t)) = Lower(t)
         /\ \A b \in Caseless : Lower(t) = b <=> t = b
  <1>1. CASE t \in DOMAIN Upper
    <2>1. /\ Upper[t] \in Tokens \ DOMAIN Upper
          /\ {t, Upper[t]} \cap Caseless = {}
      BY <1>1, EnvAssumption DEF Caseless
    <2> QED BY <1>1, <2>1 DEF Lower
  <1>2. CASE t \notin DOMAIN Upper
    BY <1>2 DEF Lower
  <1> QED BY <1>1, <1>2

LEMMA LowerValue ==
  ASSUME NEW s \in Seq(Tokens)
  PROVE  /\ LowerAll(s) \in Seq(Tokens)
         /\ Len(LowerAll(s)) = Len(s)
         /\ \A i \in 1..Len(s) : LowerAll(s)[i] = Lower(s[i])
  <1>1. Len(s) \in Nat /\ DOMAIN s = 1..Len(s) /\ \A i \in 1..Len(s) : s[i] \in Tokens
    BY LenProperties
  <1>2. LowerAll(s) = [i \in 1..Len(s) |-> Lower(s[i])]
    BY <1>1 DEF LowerAll
  <1>3. \A i \in 1..Len(s) : Lower(s[i]) \in Tokens
    BY <1>1, LowerToken
  <1>4. LowerAll(s) \in [1..Len(s) -> Tokens]
    BY <1>2, <1>3
  <1> HIDE DEF LowerAll
  <1> QED BY <1>1, <1>2, <1>4

LEMMA LowerTwice ==
  ASSUME NEW s \in Seq(Tokens)
  PROVE  LowerAll(LowerAll(s)) = LowerAll(s)
  <1>1. LowerAll(s) \in Seq(Tokens) /\ Len(LowerAll(s)) = Len(s)
        /\ \A i \in 1..Len(s) : LowerAll(s)[i] = Lower(s[i])
    BY LowerValue
  <1>2. LowerAll(LowerAll(s)) \in Seq(Tokens) /\ Len(LowerAll(LowerAll(s))) = Len(s)
        /\ \A i \in 1..Len(s) : LowerAll(LowerAll(s))[i] = Lower(LowerAll(s)[i])
    BY <1>1, LowerValue
  <1>3. \A i \in 1..Len(s) : s[i] \in Tokens
    BY LenProperties
  <1>4. \A i \in 1..Len(s) : LowerAll(LowerAll(s))[i] = LowerAll(s)[i]
    BY <1>1, <1>2, <1>3, LowerToken
  <1> QED BY <1>1, <1>2, <1>4, SeqEqual

\* A value in lower case has as many blanks around it.
LEMMA LowerTight ==
  ASSUME NEW s \in Seq(Tokens), Tight(s)
  PROVE  Tight(LowerAll(s))
  <1>1. LowerAll(s) \in Seq(Tokens) /\ Len(LowerAll(s)) = Len(s)
        /\ \A i \in 1..Len(s) : LowerAll(s)[i] = Lower(s[i])
    BY LowerValue
  <1>2. CASE s = <<>>
    BY <1>1, <1>2, EmptySeq DEF Tight
  <1>3. CASE s # <<>>
    <2>1. Len(s) \in Nat \ {0} /\ \A i \in 1..Len(s) : s[i] \in Tokens
      BY <1>3, EmptySeq, LenProperties
    <2>2. Blank \in Caseless
      BY DEF Caseless, Separators
    <2>3. \A i \in 1..Len(s) : Lower(s[i]) = Blank <=> s[i] = Blank
      BY <2>1, <2>2, LowerToken
    <2>4. 1 \in 1..Len(s) /\ Len(s) \in 1..Len(s)
      BY <2>1
    <2> QED BY <1>1, <1>3, <2>3, <2>4 DEF Tight
  <1> QED BY <1>2, <1>3

\* A part of a value in lower case is the lower case of that part.
LEMMA LowerSubSeq ==
  ASSUME NEW s \in Seq(Tokens), NEW m \in Nat \ {0}, NEW n \in 0..Len(s)
  PROVE  /\ SubSeq(s, m, n) \in Seq(Tokens)
         /\ SubSeq(LowerAll(s), m, n) = LowerAll(SubSeq(s, m, n))
  <1>1. Len(s) \in Nat /\ \A i \in m..n : s[i] \in Tokens
    BY LenProperties
  <1>2. LowerAll(s) \in Seq(Tokens) /\ Len(LowerAll(s)) = Len(s)
        /\ \A i \in 1..Len(s) : LowerAll(s)[i] = Lower(s[i])
    BY LowerValue
  <1>3. \A i \in m..n : LowerAll(s)[i] \in Tokens
    BY <1>2, LenProperties
  <1> DEFINE t == SubSeq(s, m, n)
             u == SubSeq(LowerAll(s), m, n)
             k == IF m <= n THEN n - m + 1 ELSE 0
  <1>4. t \in Seq(Tokens) /\ Len(t) = k /\ \A i \in 1..n - m + 1 : t[i] = s[m + i - 1]
    BY <1>1, SubSeqProperties
  <1>5. u \in Seq(Tokens) /\ Len(u) = k
        /\ \A i \in 1..n - m + 1 : u[i] = LowerAll(s)[m + i - 1]
    BY <1>1, <1>3, SubSeqProperties
  <1>6. LowerAll(t) \in Seq(Tokens) /\ Len(LowerAll(t)) = k
        /\ \A i \in 1..k : LowerAll(t)[i] = Lower(t[i])
    <2> HIDE DEF t
    <2> QED BY <1>4, LowerValue
  <1>7. ASSUME NEW i \in 1..k PROVE u[i] = LowerAll(t)[i]
    <2>1. i \in 1..n - m + 1 /\ m + i - 1 \in 1..Len(s)
      BY <1>1
    <2> HIDE DEF u, t, k
    <2> QED BY <1>2, <1>4, <1>5, <1>6, <2>1
  <1> HIDE DEF u, t, k
  <1>8. u = LowerAll(t)
    BY <1>5, <1>6, <1>7, SeqEqual
  <1> QED BY <1>4, <1>8 DEF u, t

-----------------------------------------------------------------------------
(* The copies the code makes.                                              *)

(***************************************************************************)
(* pslog_trim_copy into a buffer of any size: the stripped value, or as    *)
(* much of it as fits; a value that was stripped before gives the same.    *)
(***************************************************************************)
LEMMA TrimCopyValue ==
  ASSUME NEW s \in Seq(Tokens), NEW size \in Nat, size > 2
  PROVE  /\ TrimCopy(s, size) \in Seq(Tokens)
         /\ TrimCopy(Stripped(s), size) = TrimCopy(s, size)
         /\ Len(Stripped(s)) < size => TrimCopy(s, size) = Stripped(s)
         /\ Len(Stripped(s)) >= size => Len(TrimCopy(s, size)) = size - 1
         /\ TrimCopy(s, size) = <<>> <=> Stripped(s) = <<>>
  <1> DEFINE t == Stripped(s)
  <1>1. t \in Seq(Tokens) /\ Stripped(t) = t
    BY StrippedTight, TightStays
  <1>2. Len(t) \in Nat /\ \A i \in 1..Len(t) : t[i] \in Tokens
    BY <1>1, LenProperties
  <1> HIDE DEF t
  <1>3. TrimCopy(s, size) = (IF Len(t) >= size THEN SubSeq(t, 1, size - 1) ELSE t)
        /\ TrimCopy(t, size) = (IF Len(t) >= size THEN SubSeq(t, 1, size - 1) ELSE t)
    BY <1>1 DEF TrimCopy, t
  <1>4. CASE Len(t) >= size
    <2>1. SubSeq(t, 1, size - 1) \in Seq(Tokens) /\ Len(SubSeq(t, 1, size - 1)) = size - 1
      BY <1>2, <1>4, SubSeqProperties
    <2>2. SubSeq(t, 1, size - 1) # <<>> /\ t # <<>>
      BY <1>1, <1>2, <1>4, <2>1, EmptySeq
    <2> QED BY <1>3, <1>4, <2>1, <2>2 DEF t
  <1>5. CASE Len(t) < size
    BY <1>1, <1>2, <1>3, <1>5 DEF t
  <1> QED BY <1>2, <1>4, <1>5

\* The copy of a value in lower case is the copy in lower case.
LEMMA TrimCopyLower ==
  ASSUME NEW s \in Seq(Tokens), NEW size \in Nat, size > 2
  PROVE  /\ LowerAll(Stripped(s)) \in Seq(Tokens)
         /\ TrimCopy(LowerAll(Stripped(s)), size) = LowerAll(TrimCopy(s, size))
  <1> DEFINE t == Stripped(s)
             u == LowerAll(t)
  <1>1. t \in Seq(Tokens) /\ Tight(t)
    BY StrippedTight
  <1>2. Len(t) \in Nat
    BY <1>1, LenProperties
  <1> HIDE DEF t
  <1>3. u \in Seq(Tokens) /\ Len(u) = Len(t) /\ Tight(u)
    BY <1>1, LowerValue, LowerTight
  <1>4. Stripped(u) = u
    BY <1>3, TightStays
  <1>5. TrimCopy(s, size) = (IF Len(t) >= size THEN SubSeq(t, 1, size - 1) ELSE t)
    BY DEF TrimCopy, t
  <1>6. TrimCopy(u, size) = (IF Len(t) >= size THEN SubSeq(u, 1, size - 1) ELSE u)
    BY <1>3, <1>4 DEF TrimCopy
  <1>7. CASE Len(t) >= size
    <2>1. size - 1 \in 0..Len(t)
      BY <1>2, <1>7
    <2>2. SubSeq(u, 1, size - 1) = LowerAll(SubSeq(t, 1, size - 1))
      BY <1>1, <2>1, LowerSubSeq
    <2> QED BY <1>3, <1>5, <1>6, <1>7, <2>2 DEF t
  <1>8. CASE ~(Len(t) >= size)
    BY <1>3, <1>5, <1>6, <1>8 DEF t
  <1> QED BY <1>7, <1>8

(***************************************************************************)
(* A name that pslog_parse_level, _bool_value or _mode_value finds is the  *)
(* whole value, never what is left of a longer one.                        *)
(***************************************************************************)
LEMMA NameWhole ==
  ASSUME NEW s \in Seq(Tokens), NEW known, NameOf(s) \in known, "unnamed" \notin known
  PROVE  Len(LowerAll(Stripped(s))) = 1 /\ LowerAll(Stripped(s))[1] = NameOf(s)
  <1>0. NameSize \in Nat /\ NameSize > 2
    BY EnvAssumption
  <1> DEFINE t == TrimCopy(s, NameSize)
  <1>1. t \in Seq(Tokens)
        /\ (Len(Stripped(s)) < NameSize => t = Stripped(s))
        /\ (Len(Stripped(s)) >= NameSize => Len(t) = NameSize - 1)
    BY <1>0, TrimCopyValue
  <1>2. Stripped(s) \in Seq(Tokens)
    BY StrippedTight
  <1>3. Len(Stripped(s)) \in Nat
    BY <1>2, LenProperties
  <1>4. NameOf(s) = IF Len(LowerAll(t)) = 1 THEN LowerAll(t)[1] ELSE "unnamed"
    BY DEF NameOf
  <1> HIDE DEF t
  <1>5. Len(LowerAll(t)) = Len(t)
    BY <1>1, LowerValue
  <1>6. Len(t) = 1 /\ NameOf(s) = LowerAll(t)[1]
    BY <1>4, <1>5
  <1>7. t = Stripped(s)
    BY <1>0, <1>1, <1>3, <1>6
  <1> QED BY <1>5, <1>6, <1>7

\* A name is found whatever its case and the blanks around it.
LEMMA NameSpelling ==
  ASSUME NEW s \in Seq(Tokens)
  PROVE  NameOf(LowerAll(Stripped(s))) = NameOf(s)
  <1>1. NameSize \in Nat /\ NameSize > 2
    BY EnvAssumption
  <1>2. TrimCopy(LowerAll(Stripped(s)), NameSize) = LowerAll(TrimCopy(s, NameSize))
    BY <1>1, TrimCopyLower
  <1>3. TrimCopy(s, NameSize) \in Seq(Tokens)
    BY <1>1, TrimCopyValue
  <1>4. LowerAll(LowerAll(TrimCopy(s, NameSize))) = LowerAll(TrimCopy(s, NameSize))
    BY <1>3, LowerTwice
  <1> QED BY <1>2, <1>4 DEF NameOf

\* pslog_parse_file_mode reads octal digits, which have no case.
LEMMA FileModeSpelling ==
  ASSUME NEW s \in Seq(Tokens)
  PROVE  /\ FileModeValid(LowerAll(Stripped(s))) <=> FileModeValid(s)
         /\ FileModeValid(s) => FileModeDigits(LowerAll(Stripped(s))) = FileModeDigits(s)
  <1>0. NameSize \in Nat /\ NameSize > 2
    BY EnvAssumption
  <1> DEFINE t == TrimCopy(s, NameSize)
             u == LowerAll(Stripped(s))
             d == FileModeDigits(s)
  <1>1. t \in Seq(Tokens) /\ TrimCopy(u, NameSize) = LowerAll(t)
    BY <1>0, TrimCopyValue, TrimCopyLower
  <1>2. d = IF Len(t) >= 2 /\ t[1] = "0" /\ Lower(t[2]) = "o" THEN SubSeq(t, 3, Len(t)) ELSE t
    BY DEF FileModeDigits
  <1>3. FileModeDigits(u) =
          IF Len(LowerAll(t)) >= 2 /\ LowerAll(t)[1] = "0" /\ Lower(LowerAll(t)[2]) = "o"
          THEN SubSeq(LowerAll(t), 3, Len(LowerAll(t))) ELSE LowerAll(t)
    BY <1>1 DEF FileModeDigits
  <1> HIDE DEF t, u, d
  <1>4. Len(t) \in Nat /\ Len(LowerAll(t)) = Len(t)
        /\ \A i \in 1..Len(t) : t[i] \in Tokens /\ LowerAll(t)[i] = Lower(t[i])
    BY <1>1, LowerValue, LenProperties
  <1>5. d \in Seq(Tokens) /\ FileModeDigits(u) = LowerAll(d)
    <2>1. CASE Len(t) >= 2
      <3>1. Lower(t[1]) = "0" <=> t[1] = "0"
        BY <1>4, <2>1, LowerToken DEF Caseless, OctalDigits
      <3>2. Lower(Lower(t[2])) = Lower(t[2])
        BY <1>4, <2>1, LowerToken
      <3>3. SubSeq(t, 3, Len(t)) \in Seq(Tokens)
            /\ SubSeq(LowerAll(t), 3, Len(t)) = LowerAll(SubSeq(t, 3, Len(t)))
        <4>1. 3 \in Nat \ {0} /\ Len(t) \in 0..Len(t)
          BY <1>4
        <4> QED BY <1>1, <4>1, LowerSubSeq
      <3>4. LowerAll(t)[1] = Lower(t[1]) /\ LowerAll(t)[2] = Lower(t[2])
        BY <1>4, <2>1
      <3> QED BY <1>1, <1>2, <1>3, <1>4, <3>1, <3>2, <3>3, <3>4
    <2>2. CASE ~(Len(t) >= 2)
      BY <1>1, <1>2, <1>3, <1>4, <2>2
    <2> QED BY <2>1, <2>2
  <1>6. Len(d) \in Nat /\ DOMAIN d = 1..Len(d) /\ LowerAll(d) \in Seq(Tokens)
        /\ Len(LowerAll(d)) = Len(d) /\ DOMAIN LowerAll(d) = 1..Len(d)
        /\ \A i \in 1..Len(d) : d[i] \in Tokens /\ LowerAll(d)[i] = Lower(d[i])
    BY <1>5, LowerValue, LenProperties
  <1>7. \A i \in 1..Len(d) : \A o \in OctalDigits : Lower(d[i]) = o <=> d[i] = o
    BY <1>6, LowerToken DEF Caseless
  <1>8. (\A i \in DOMAIN LowerAll(d) : LowerAll(d)[i] \in OctalDigits)
          <=> (\A i \in DOMAIN d : d[i] \in OctalDigits)
    BY <1>6, <1>7
  <1>9. ASSUME \A i \in DOMAIN d : d[i] \in OctalDigits PROVE LowerAll(d) = d
    <2>1. \A i \in 1..Len(d) : LowerAll(d)[i] = d[i]
      BY <1>6, <1>7, <1>9
    <2> QED BY <1>5, <1>6, <2>1, SeqEqual
  <1>10. FileModeValid(s) <=> d # <<>> /\ (\A i \in DOMAIN d : d[i] \in OctalDigits) /\ Octal(d) <= 511
    BY DEF FileModeValid, d
  <1>11. FileModeValid(u) <=> LowerAll(d) # <<>>
           /\ (\A i \in DOMAIN LowerAll(d) : LowerAll(d)[i] \in OctalDigits)
           /\ Octal(LowerAll(d)) <= 511
    BY <1>5 DEF FileModeValid
  <1>12. FileModeValid(u) <=> FileModeValid(s)
    BY <1>8, <1>9, <1>10, <1>11
  <1>13. FileModeValid(s) => FileModeDigits(u) = d
    BY <1>5, <1>9, <1>10
  <1> QED BY <1>12, <1>13 DEF u, d

\* pslog_palette_by_name takes no notice of case.
LEMMA PaletteSpelling ==
  ASSUME NEW t \in Seq(Tokens)
  PROVE  PaletteByName(LowerAll(t)) = PaletteByName(t)
  <1>1. Len(t) \in Nat /\ DOMAIN t = 1..Len(t) /\ DOMAIN LowerAll(t) = DOMAIN t
        /\ \A i \in 1..Len(t) : t[i] \in Tokens /\ LowerAll(t)[i] = Lower(t[i])
    BY LowerValue, LenProperties
  <1>2. \A i \in DOMAIN t : LowerAll(t)[i] \in Separators <=> t[i] \in Separators
    BY <1>1, LowerToken DEF Caseless
  <1>3. \A i \in DOMAIN t : Lower(LowerAll(t)[i]) = Lower(t[i])
    BY <1>1, LowerToken
  <1>4. LowerDashed(LowerAll(t)) = LowerDashed(t)
    BY <1>1, <1>2, <1>3 DEF LowerDashed
  <1>5. NormalizeName(LowerAll(t)) = NormalizeName(t)
    BY <1>4 DEF NormalizeName
  <1> QED BY <1>5 DEF PaletteByName

-----------------------------------------------------------------------------
(* The variables, one after the other.                                     *)

\* The order in which pslog_new_from_env reads them.
LEMMA VariableNames ==
  /\ Len(Variables) = 11
  /\ Variables[1] = "LEVEL" /\ Variables[2] = "MODE" /\ Variables[3] = "TIME_FORMAT"
  /\ Variables[4] = "DISABLE_TIMESTAMP" /\ Variables[5] = "VERBOSE_FIELDS"
  /\ Variables[6] = "UTC" /\ Variables[7] = "NO_COLOR" /\ Variables[8] = "FORCE_COLOR"
  /\ Variables[9] = "PALETTE" /\ Variables[10] = "OUTPUT_FILE_MODE" /\ Variables[11] = "OUTPUT"
  BY DEF Variables

LEMMA VariableRange ==
  Range(Variables) =
    {"LEVEL", "MODE", "TIME_FORMAT", "DISABLE_TIMESTAMP", "VERBOSE_FIELDS", "UTC",
     "NO_COLOR", "FORCE_COLOR", "PALETTE", "OUTPUT_FILE_MODE", "OUTPUT"}
  <1>1. DOMAIN Variables = 1..11
    BY DEF Variables
  <1>2. \A i \in 1..11 : i = 1 \/ i = 2 \/ i = 3 \/ i = 4 \/ i = 5 \/ i = 6 \/ i = 7 \/ i = 8
                         \/ i = 9 \/ i = 10 \/ i = 11
    OBVIOUS
  <1> QED BY <1>1, <1>2, VariableNames DEF Range

\* The variable that is read at a position.
LEMMA VariableAt ==
  ASSUME NEW i \in 1..11
  PROVE  Variables[i] \in Range(Variables) /\ (Variables[i] = "NO_COLOR" <=> i = 7)
         /\ (Variables[i] = "OUTPUT" <=> i = 11)
  <1>1. DOMAIN Variables = 1..11
    BY DEF Variables
  <1>2. Variables[i] \in Range(Variables)
    BY <1>1 DEF Range
  <1>3. i = 1 \/ i = 2 \/ i = 3 \/ i = 4 \/ i = 5 \/ i = 6 \/ i = 7 \/ i = 8 \/ i = 9
        \/ i = 10 \/ i = 11
    OBVIOUS
  <1> QED BY <1>2, <1>3, VariableNames

\* Setting one member of a configuration, and setting it to what it was.
LEMMA ConfigExcept ==
  ASSUME NEW c, IsConfig(c), NEW f \in ConfigFields, NEW x, f = "timestamps" => x \in BOOLEAN
  PROVE  IsConfig([c EXCEPT ![f] = x]) /\ [c EXCEPT ![f] = c[f]] = c
         /\ \A g \in ConfigFields : [c EXCEPT ![f] = x][g] = IF g = f THEN x ELSE c[g]
  <1>1. c = [g \in ConfigFields |-> c[g]] /\ c["timestamps"] \in BOOLEAN
    BY DEF IsConfig
  <1>2. DOMAIN c = ConfigFields
    BY <1>1
  <1>3. \A g \in ConfigFields : [c EXCEPT ![f] = x][g] = IF g = f THEN x ELSE c[g]
    BY <1>2
  <1>4. [c EXCEPT ![f] = x] = [g \in ConfigFields |-> [c EXCEPT ![f] = x][g]]
    BY <1>2
  <1>5. "timestamps" \in ConfigFields
    BY DEF ConfigFields
  <1>6. [c EXCEPT ![f] = x]["timestamps"] \in BOOLEAN
    BY <1>1, <1>3, <1>5
  <1>7. [c EXCEPT ![f] = c[f]] = c
    BY <1>1, <1>2
  <1> QED BY <1>3, <1>4, <1>6, <1>7 DEF IsConfig

\* A configuration stays one.
LEMMA ApplyConfig ==
  ASSUME NEW c, IsConfig(c), NEW v \in Range(Variables), NEW value
  PROVE  IsConfig(Apply(c, v, value))
  <1>1. CASE value = Unset
    BY <1>1 DEF Apply
  <1>2. CASE value # Unset
    <2>0. \A f \in ConfigFields : \A x : (f = "timestamps" => x \in BOOLEAN) =>
            IsConfig([c EXCEPT ![f] = x])
      BY ConfigExcept
    <2>1. CASE v = "LEVEL"
      <3> DEFINE x == LevelOf(c.min_level, value)
      <3>1. Apply(c, v, value) = [c EXCEPT !["min_level"] = x]
        BY <1>2, <2>1 DEF Apply
      <3> HIDE DEF x
      <3> QED BY <2>0, <3>1 DEF ConfigFields
    <2>2. CASE v = "MODE"
      <3> DEFINE x == IF NameOf(value) \in DOMAIN Modes THEN Modes[NameOf(value)] ELSE c.mode
      <3>1. Apply(c, v, value) = [c EXCEPT !["mode"] = x]
        BY <1>2, <2>2 DEF Apply
      <3> HIDE DEF x
      <3> QED BY <2>0, <3>1 DEF ConfigFields
    <2>3. CASE v = "TIME_FORMAT"
      <3> DEFINE x == IF value = <<>> THEN c.time_format ELSE value
      <3>1. Apply(c, v, value) = [c EXCEPT !["time_format"] = x]
        BY <1>2, <2>3 DEF Apply
      <3> HIDE DEF x
      <3> QED BY <2>0, <3>1 DEF ConfigFields
    <2>4. CASE v = "DISABLE_TIMESTAMP"
      <3> DEFINE x == ~BoolOf(~c.timestamps, value)
      <3>1. Apply(c, v, value) = [c EXCEPT !["timestamps"] = x]
        BY <1>2, <2>4 DEF Apply
      <3>2. x \in BOOLEAN
        OBVIOUS
      <3> HIDE DEF x
      <3> QED BY <2>0, <3>1, <3>2 DEF ConfigFields
    <2>5. CASE v = "VERBOSE_FIELDS"
      <3> DEFINE x == BoolOf(c.verbose_fields, value)
      <3>1. Apply(c, v, value) = [c EXCEPT !["verbose_fields"] = x]
        BY <1>2, <2>5 DEF Apply
      <3> HIDE DEF x
      <3> QED BY <2>0, <3>1 DEF ConfigFields
    <2>6. CASE v = "UTC"
      <3> DEFINE x == BoolOf(c.utc, value)
      <3>1. Apply(c, v, value) = [c EXCEPT !["utc"] = x]
        BY <1>2, <2>6 DEF Apply
      <3> HIDE DEF x
      <3> QED BY <2>0, <3>1 DEF ConfigFields
    <2>7. CASE v = "NO_COLOR"
      <3> DEFINE x == ColorOf(c.color, v, value)
      <3>1. Apply(c, v, value) = [c EXCEPT !["color"] = x]
        BY <1>2, <2>7 DEF Apply
      <3> HIDE DEF x
      <3> QED BY <2>0, <3>1 DEF ConfigFields
    <2>8. CASE v = "FORCE_COLOR"
      <3> DEFINE x == ColorOf(c.color, v, value)
      <3>1. Apply(c, v, value) = [c EXCEPT !["color"] = x]
        BY <1>2, <2>8 DEF Apply
      <3> HIDE DEF x
      <3> QED BY <2>0, <3>1 DEF ConfigFields
    <2>9. CASE v = "PALETTE"
      <3> DEFINE x == IF value = <<>> THEN c.palette
                        ELSE PaletteByName(TrimCopy(value, OutputSize))
      <3>1. Apply(c, v, value) = [c EXCEPT !["palette"] = x]
        BY <1>2, <2>9 DEF Apply
      <3> HIDE DEF x
      <3> QED BY <2>0, <3>1 DEF ConfigFields
    <2>10. CASE v = "OUTPUT_FILE_MODE"
      <3> DEFINE x == IF TrimCopy(value, NameSize) # <<>> /\ FileModeValid(value)
                      THEN Octal(FileModeDigits(value)) ELSE DefaultFileMode
                 y == TrimCopy(value, NameSize) # <<>> /\ ~FileModeValid(value)
      <3>1. Apply(c, v, value) = [c EXCEPT !["file_mode"] = x, !["mode_err"] = y]
        BY <1>2, <2>10 DEF Apply
      <3> HIDE DEF x, y
      <3>2. IsConfig([c EXCEPT !["file_mode"] = x])
        BY <2>0 DEF ConfigFields
      <3>3. IsConfig([[c EXCEPT !["file_mode"] = x] EXCEPT !["mode_err"] = y])
        BY <3>2, ConfigExcept DEF ConfigFields
      <3> QED BY <3>1, <3>3
    <2>11. CASE v = "OUTPUT"
      <3> DEFINE x == OutputOf(TrimCopy(value, OutputSize))
      <3>1. Apply(c, v, value) = c \/ Apply(c, v, value) = [c EXCEPT !["output"] = x]
        BY <1>2, <2>11 DEF Apply
      <3> HIDE DEF x
      <3> QED BY <2>0, <3>1 DEF ConfigFields
    <2> QED BY <2>1, <2>2, <2>3, <2>4, <2>5, <2>6, <2>7, <2>8, <2>9, <2>10, <2>11, VariableRange
  <1> QED BY <1>1, <1>2

(***************************************************************************)
(* A value of LEVEL, MODE or a switch that is not recognised, cut to fit   *)
(* or not, does nothing.                                                   *)
(***************************************************************************)
LEMMA Ignored ==
  ASSUME NEW c, IsConfig(c), NEW v \in Named, NEW value \in Seq(Tokens), ~Recognised(v, value)
  PROVE  Apply(c, v, value) = c
  <1> DEFINE known == IF v = "LEVEL" THEN DOMAIN Levels
                      ELSE IF v = "MODE" THEN DOMAIN Modes ELSE True \cup False
  <1>1. NameOf(value) \notin known
    <2> SUFFICES ASSUME NameOf(value) \in known PROVE FALSE
      OBVIOUS
    <2>1. "unnamed" \notin known
      BY DEF Levels, Modes, True, False
    <2>2. Len(LowerAll(Stripped(value))) = 1 /\ LowerAll(Stripped(value))[1] = NameOf(value)
      BY <2>1, NameWhole
    <2>3. Recognised(v, value) <=> Len(LowerAll(Stripped(value))) = 1
                                     /\ LowerAll(Stripped(value))[1] \in known
      BY DEF Recognised
    <2> QED BY <2>2, <2>3
  <1>2. value # Unset
    BY EnvAssumption
  <1>3. \A f \in ConfigFields : [c EXCEPT ![f] = c[f]] = c
    <2> SUFFICES ASSUME NEW f \in ConfigFields PROVE [c EXCEPT ![f] = c[f]] = c
      OBVIOUS
    <2>1. f = "timestamps" => c[f] \in BOOLEAN
      BY DEF IsConfig
    <2> QED BY <2>1, ConfigExcept
  <1>4. CASE v = "LEVEL"
    <2>1. LevelOf(c.min_level, value) = c.min_level
      BY <1>1, <1>4 DEF LevelOf
    <2>2. Apply(c, v, value) = [c EXCEPT !["min_level"] = LevelOf(c.min_level, value)]
      BY <1>2, <1>4 DEF Apply
    <2> QED BY <1>3, <2>1, <2>2 DEF ConfigFields
  <1>5. CASE v = "MODE"
    <2>1. Apply(c, v, value) = [c EXCEPT !["mode"] = c["mode"]]
      BY <1>1, <1>2, <1>5 DEF Apply
    <2> QED BY <1>3, <2>1 DEF ConfigFields
  <1>6. CASE v = "DISABLE_TIMESTAMP"
    <2>1. BoolOf(~c.timestamps, value) = ~c.timestamps
      BY <1>1, <1>6 DEF BoolOf
    <2>2. c.timestamps \in BOOLEAN
      BY DEF IsConfig
    <2>3. (~BoolOf(~c.timestamps, value)) = c.timestamps
      BY <2>1, <2>2
    <2>4. Apply(c, v, value) = [c EXCEPT !["timestamps"] = ~BoolOf(~c.timestamps, value)]
      BY <1>2, <1>6 DEF Apply
    <2>5. Apply(c, v, value) = [c EXCEPT !["timestamps"] = c.timestamps]
      BY <2>3, <2>4
    <2> QED BY <1>3, <2>5 DEF ConfigFields
  <1>7. CASE v = "VERBOSE_FIELDS"
    <2>1. BoolOf(c.verbose_fields, value) = c.verbose_fields
      BY <1>1, <1>7 DEF BoolOf
    <2>2. Apply(c, v, value) = [c EXCEPT !["verbose_fields"] = BoolOf(c.verbose_fields, value)]
      BY <1>2, <1>7 DEF Apply
    <2> QED BY <1>3, <2>1, <2>2 DEF ConfigFields
  <1>8. CASE v = "UTC"
    <2>1. BoolOf(c.utc, value) = c.utc
      BY <1>1, <1>8 DEF BoolOf
    <2>2. Apply(c, v, value) = [c EXCEPT !["utc"] = BoolOf(c.utc, value)]
      BY <1>2, <1>8 DEF Apply
    <2> QED BY <1>3, <2>1, <2>2 DEF ConfigFields
  <1>9. CASE v \in {"NO_COLOR", "FORCE_COLOR"}
    <2>1. ColorOf(c.color, v, value) = c.color
      BY <1>1, <1>9 DEF ColorOf
    <2>2. Apply(c, v, value) = [c EXCEPT !["color"] = ColorOf(c.color, v, value)]
      BY <1>2, <1>9 DEF Apply
    <2> QED BY <1>3, <2>1, <2>2 DEF ConfigFields
  <1> QED BY <1>4, <1>5, <1>6, <1>7, <1>8, <1>9 DEF Named

(***************************************************************************)
(* Case and blanks make no difference to what a variable does.             *)
(***************************************************************************)
LEMMA Spelling ==
  ASSUME NEW c, NEW v \in Range(Variables), NEW value \in Seq(Tokens)
  PROVE  /\ v \notin {"TIME_FORMAT", "PALETTE", "OUTPUT"}
              => Apply(c, v, LowerAll(Stripped(value))) = Apply(c, v, value)
         /\ v = "PALETTE" /\ Stripped(value) # <<>>
              => Apply(c, v, LowerAll(Stripped(value))) = Apply(c, v, value)
         /\ v = "OUTPUT" => Apply(c, v, Stripped(value)) = Apply(c, v, value)
  <1> DEFINE u == LowerAll(Stripped(value))
  <1>0. /\ NameSize \in Nat /\ NameSize > 2 /\ OutputSize \in Nat /\ OutputSize > 2
        /\ Unset \notin Seq(Tokens)
    BY EnvAssumption
  <1>1. /\ u \in Seq(Tokens) /\ NameOf(u) = NameOf(value)
        /\ TrimCopy(u, NameSize) = LowerAll(TrimCopy(value, NameSize))
        /\ TrimCopy(u, OutputSize) = LowerAll(TrimCopy(value, OutputSize))
    BY <1>0, TrimCopyLower, NameSpelling
  <1>2. /\ TrimCopy(value, NameSize) \in Seq(Tokens)
        /\ TrimCopy(value, OutputSize) \in Seq(Tokens)
        /\ Stripped(value) \in Seq(Tokens)
        /\ TrimCopy(Stripped(value), OutputSize) = TrimCopy(value, OutputSize)
    BY <1>0, TrimCopyValue, StrippedTight
  <1>3. FileModeValid(u) <=> FileModeValid(value)
    BY FileModeSpelling
  <1>4. FileModeValid(value) => FileModeDigits(u) = FileModeDigits(value)
    BY FileModeSpelling
  <1>5. \A s \in Seq(Tokens) : LowerAll(s) = <<>> <=> s = <<>>
    <2> SUFFICES ASSUME NEW s \in Seq(Tokens) PROVE LowerAll(s) = <<>> <=> s = <<>>
      OBVIOUS
    <2>1. LowerAll(s) \in Seq(Tokens) /\ Len(LowerAll(s)) = Len(s)
      BY LowerValue
    <2> QED BY <2>1, EmptySeq
  <1>6. u # Unset /\ value # Unset /\ Stripped(value) # Unset
    BY <1>0, <1>1, <1>2
  <1>7. TrimCopy(u, NameSize) = <<>> <=> TrimCopy(value, NameSize) = <<>>
    BY <1>1, <1>2, <1>5
  <1>8. u # <<>> <=> Stripped(value) # <<>>
    BY <1>2, <1>5
  <1>9. PaletteByName(TrimCopy(u, OutputSize)) = PaletteByName(TrimCopy(value, OutputSize))
    BY <1>1, <1>2, PaletteSpelling
  <1>10. Stripped(<<>>) = <<>>
    BY DEF Stripped
  <1> HIDE DEF u
  <1>11. \A b : BoolOf(b, u) = BoolOf(b, value) /\ LevelOf(b, u) = LevelOf(b, value)
    BY <1>1 DEF BoolOf, LevelOf
  <1>12. \A k, w : ColorOf(k, w, u) = ColorOf(k, w, value)
    BY <1>1 DEF ColorOf
  <1>13. CASE v = "LEVEL"
    BY <1>6, <1>11, <1>13 DEF Apply, u
  <1>14. CASE v = "MODE"
    BY <1>1, <1>6, <1>14 DEF Apply, u
  <1>15. CASE v = "DISABLE_TIMESTAMP"
    BY <1>6, <1>11, <1>15 DEF Apply, u
  <1>16. CASE v = "VERBOSE_FIELDS"
    BY <1>6, <1>11, <1>16 DEF Apply, u
  <1>17. CASE v = "UTC"
    BY <1>6, <1>11, <1>17 DEF Apply, u
  <1>18. CASE v \in {"NO_COLOR", "FORCE_COLOR"}
    BY <1>6, <1>12, <1>18 DEF Apply, u
  <1>19. CASE v = "PALETTE"
    BY <1>6, <1>8, <1>9, <1>10, <1>19 DEF Apply, u
  <1>20. CASE v = "OUTPUT_FILE_MODE"
    BY <1>3, <1>4, <1>6, <1>7, <1>20 DEF Apply, u
  <1>21. CASE v = "OUTPUT"
    BY <1>2, <1>6, <1>21 DEF Apply
  <1> QED BY <1>13, <1>14, <1>15, <1>16, <1>17, <1>18, <1>19, <1>20, <1>21, VariableRange

-----------------------------------------------------------------------------
(* Another environment.                                                    *)

\* What comes of an environment, variable by variable.
LEMMA UpTo ==
  ASSUME NEW c, NEW e
  PROVE  /\ EffectiveUpTo(c, e)[0] = c
         /\ \A i \in 1..11 : EffectiveUpTo(c, e)[i] =
              Apply(EffectiveUpTo(c, e)[i - 1], Variables[i], e[Variables[i]])
  <1> DEFINE step(k, i) == Apply(k, Variables[i], e[Variables[i]])
             next(f) == [i \in 0..11 |-> IF i = 0 THEN c ELSE step(f[i - 1], i)]
             c0 == c
             c1 == step(c0, 1)
             c2 == step(c1, 2)
             c3 == step(c2, 3)
             c4 == step(c3, 4)
             c5 == step(c4, 5)
             c6 == step(c5, 6)
             c7 == step(c6, 7)
             c8 == step(c7, 8)
             c9 == step(c8, 9)
             c10 == step(c9, 10)
             c11 == step(c10, 11)
             w == [i \in 0..11 |->
            IF i = 0 THEN c ELSE IF i = 1 THEN c1 ELSE IF i = 2 THEN c2 ELSE IF i = 3 THEN c3
            ELSE IF i = 4 THEN c4 ELSE IF i = 5 THEN c5 ELSE IF i = 6 THEN c6
            ELSE IF i = 7 THEN c7 ELSE IF i = 8 THEN c8 ELSE IF i = 9 THEN c9
            ELSE IF i = 10 THEN c10 ELSE c11]
  <1>1. \A i \in 1..11 : w[i] = step(w[i - 1], i)
    <2> SUFFICES ASSUME NEW i \in 1..11 PROVE w[i] = step(w[i - 1], i)
      OBVIOUS
    <2> HIDE DEF step, w, c1, c2, c3, c4, c5, c6, c7, c8, c9, c10, c11
    <2>1. CASE i = 1
      BY <2>1 DEF w, c1
    <2>2. CASE i = 2
      BY <2>2 DEF w, c2
    <2>3. CASE i = 3
      BY <2>3 DEF w, c3
    <2>4. CASE i = 4
      BY <2>4 DEF w, c4
    <2>5. CASE i = 5
      BY <2>5 DEF w, c5
    <2>6. CASE i = 6
      BY <2>6 DEF w, c6
    <2>7. CASE i = 7
      BY <2>7 DEF w, c7
    <2>8. CASE i = 8
      BY <2>8 DEF w, c8
    <2>9. CASE i = 9
      BY <2>9 DEF w, c9
    <2>10. CASE i = 10
      BY <2>10 DEF w, c10
    <2>11. CASE i = 11
      BY <2>11 DEF w, c11
    <2> QED BY <2>1, <2>2, <2>3, <2>4, <2>5, <2>6, <2>7, <2>8, <2>9, <2>10, <2>11
  <1>2. w = next(w)
    <2>1. w[0] = c /\ DOMAIN w = 0..11
      OBVIOUS
    <2>2. \A i \in 0..11 : w[i] = next(w)[i]
      <3> HIDE DEF w, step
      <3> QED BY <1>1, <2>1
    <2>3. w = [i \in 0..11 |-> w[i]]
      OBVIOUS
    <2> HIDE DEF w, step
    <2> QED BY <2>2, <2>3
  <1> HIDE DEF w
  <1>3. \E f : f = next(f)
    BY <1>2
  <1>4. EffectiveUpTo(c, e) = CHOOSE f : f = next(f)
    BY VariableNames DEF EffectiveUpTo
  <1>5. EffectiveUpTo(c, e) = next(EffectiveUpTo(c, e))
    BY <1>3, <1>4
  <1> HIDE DEF step
  <1>6. /\ EffectiveUpTo(c, e)[0] = c
        /\ \A i \in 1..11 : EffectiveUpTo(c, e)[i] = step(EffectiveUpTo(c, e)[i - 1], i)
    BY <1>5
  <1> QED BY <1>6 DEF step

\* The value of a variable is not set, or a sequence of tokens.
LEMMA ValueType ==
  ASSUME EnvTypeOK
  PROVE  /\ DOMAIN env = Range(Variables)
         /\ \A v \in Range(Variables) : env[v] = Unset \/ env[v] \in Seq(Tokens)
  BY EnvAssumption DEF EnvTypeOK

(***************************************************************************)
(* A variable does the same in an environment that must come to the same:  *)
(* one where a value that is not recognised is not set, and the one with   *)
(* every value in lower case and without blanks around it.                 *)
(***************************************************************************)
LEMMA TwinSame ==
  ASSUME EnvTypeOK, NEW e \in Twins, NEW v \in Range(Variables), NEW c, IsConfig(c)
  PROVE  Apply(c, v, e[v]) = Apply(c, v, env[v])
  <1>1. DOMAIN env = Range(Variables) /\ (env[v] = Unset \/ env[v] \in Seq(Tokens))
    BY ValueType
  <1>2. ASSUME NEW w \in Named, env[w] # Unset, ~Recognised(w, env[w]), e = Without(w)
        PROVE  Apply(c, v, e[v]) = Apply(c, v, env[v])
    <2>1. e[v] = IF v = w THEN Unset ELSE env[v]
      BY <1>1, <1>2 DEF Without
    <2>2. CASE v = w
      <3>1. Apply(c, v, Unset) = c
        BY DEF Apply
      <3>2. Apply(c, v, env[v]) = c
        BY <1>1, <1>2, <2>2, Ignored
      <3> QED BY <2>1, <2>2, <3>1, <3>2
    <2>3. CASE v # w
      BY <2>1, <2>3
    <2> QED BY <2>2, <2>3
  <1>3. CASE e = Respelt
    <2>1. e[v] = IF env[v] = Unset \/ v = "TIME_FORMAT" THEN env[v]
                 ELSE IF v = "PALETTE" /\ Stripped(env[v]) = <<>> THEN env[v]
                 ELSE IF v = "OUTPUT" THEN Stripped(env[v])
                 ELSE LowerAll(Stripped(env[v]))
      BY <1>1, <1>3 DEF Respelt
    <2>2. CASE env[v] = Unset \/ v = "TIME_FORMAT" \/ (v = "PALETTE" /\ Stripped(env[v]) = <<>>)
      BY <2>1, <2>2
    <2>3. CASE ~(env[v] = Unset \/ v = "TIME_FORMAT" \/ (v = "PALETTE" /\ Stripped(env[v]) = <<>>))
      <3>1. env[v] \in Seq(Tokens)
        BY <1>1, <2>3
      <3> QED BY <2>1, <2>3, <3>1, Spelling
    <2> QED BY <2>2, <2>3
  <1> QED BY <1>2, <1>3 DEF Twins

\* The variables that set the colour, and the one that sets the output.
LEMMA ApplyColor ==
  ASSUME NEW c, IsConfig(c), NEW v \in Range(Variables), NEW value
  PROVE  Apply(c, v, value).color =
           IF value # Unset /\ v \in {"NO_COLOR", "FORCE_COLOR"}
           THEN ColorOf(c.color, v, value) ELSE c.color
  <1>0. DOMAIN c = ConfigFields /\ "color" \in ConfigFields
    BY DEF IsConfig, ConfigFields
  <1>1. CASE value = Unset
    BY <1>1 DEF Apply
  <1>2. CASE value # Unset /\ v \in {"NO_COLOR", "FORCE_COLOR"}
    BY <1>0, <1>2 DEF Apply
  <1>3. CASE value # Unset /\ v \in {"LEVEL", "MODE", "TIME_FORMAT"}
    BY <1>0, <1>3 DEF Apply
  <1>4. CASE value # Unset /\ v \in {"DISABLE_TIMESTAMP", "VERBOSE_FIELDS", "UTC"}
    BY <1>0, <1>4 DEF Apply
  <1>5. CASE value # Unset /\ v \in {"PALETTE", "OUTPUT_FILE_MODE", "OUTPUT"}
    BY <1>0, <1>5 DEF Apply
  <1> QED BY <1>1, <1>2, <1>3, <1>4, <1>5, VariableRange

LEMMA ApplyOutput ==
  ASSUME NEW c, IsConfig(c), NEW value, value # Unset, TrimCopy(value, OutputSize) # <<>>
  PROVE  Apply(c, "OUTPUT", value).output = OutputOf(TrimCopy(value, OutputSize))
  <1>0. DOMAIN c = ConfigFields /\ "output" \in ConfigFields
    BY DEF IsConfig, ConfigFields
  <1> QED BY <1>0 DEF Apply

(***************************************************************************)
(* The next variable is read.                                              *)
(***************************************************************************)
LEMMA ReadStep ==
  ASSUME EffectiveInv, Read
  PROVE  EffectiveInv'
  <1> DEFINE V == Variables[at]
  <1>1. EnvTypeOK /\ IsConfig(effective) /\ at \in 1..11 /\ at' = at + 1
        /\ env' = env /\ seed' = seed /\ effective' = Apply(effective, V, env[V])
    BY VariableNames DEF EffectiveInv, EnvTypeOK, Read
  <1>2. V \in Range(Variables) /\ (V = "NO_COLOR" <=> at = 7) /\ (V = "OUTPUT" <=> at = 11)
    BY <1>1, VariableAt
  <1> HIDE DEF V
  <1>3. EnvTypeOK'
    <2>1. IsConfig(Apply(effective, V, env[V]))
      BY <1>1, <1>2, ApplyConfig
    <2>2. IsConfig(effective')
      BY <1>1, <2>1
    <2>3. at' \in 1..12 /\ Len(Variables) + 1 = 12
      BY <1>1, VariableNames
    <2> QED BY <1>1, <2>2, <2>3 DEF EnvTypeOK, IsConfig
  <1>4. TwinsInv'
    <2>1. Twins' = Twins
      BY <1>1 DEF Twins, Without, Respelt
    <2> SUFFICES ASSUME NEW e \in Twins PROVE effective' = EffectiveUpTo(seed, e)[at' - 1]
      BY <1>1, <2>1 DEF TwinsInv
    <2>2. effective = EffectiveUpTo(seed, e)[at - 1]
      BY DEF EffectiveInv, TwinsInv
    <2>3. EffectiveUpTo(seed, e)[at] = Apply(EffectiveUpTo(seed, e)[at - 1], V, e[V])
      BY <1>1, UpTo DEF V
    <2>4. Apply(effective, V, e[V]) = Apply(effective, V, env[V])
      BY <1>1, <1>2, TwinSame
    <2>5. at' - 1 = at
      BY <1>1
    <2> QED BY <1>1, <2>2, <2>3, <2>4, <2>5
  <1>5. ColorInv'
    <2>1. effective'.color = IF env[V] # Unset /\ V \in {"NO_COLOR", "FORCE_COLOR"}
                             THEN ColorOf(effective.color, V, env[V]) ELSE effective.color
      BY <1>1, <1>2, ApplyColor
    <2>2. effective.color = "NEVER" => effective'.color = "NEVER"
      BY <2>1 DEF ColorOf
    <2>3. V = "NO_COLOR" /\ env[V] # Unset /\ NameOf(env[V]) \in True
            => effective'.color = "NEVER"
      BY <2>1 DEF ColorOf
    <2>4. at' > 7 => at > 7 \/ V = "NO_COLOR"
      BY <1>1, <1>2
    <2>5. ColorInv
      BY DEF EffectiveInv
    <2> QED BY <1>1, <2>2, <2>3, <2>4, <2>5 DEF ColorInv
  <1>6. OutputReadInv'
    <2>1. at' > 11 => at = 11
      BY <1>1
    <2>2. at = 11 => V = "OUTPUT"
      BY <1>2
    <2> QED BY <1>1, <2>1, <2>2, ApplyOutput DEF OutputReadInv
  <1> QED BY <1>3, <1>4, <1>5, <1>6 DEF EffectiveInv

\* Nothing has been read.
LEMMA EnvBegins == EnvInit => EffectiveInv
  <1> SUFFICES ASSUME EnvInit PROVE EffectiveInv
    OBVIOUS
  <1>1. seed \in Seeds /\ env \in Envs /\ at = 1 /\ effective = seed
    BY DEF EnvInit
  <1>2. EnvTypeOK
    BY <1>1, VariableNames, EnvAssumption DEF EnvTypeOK, IsConfig
  <1>3. TwinsInv
    <2> SUFFICES ASSUME NEW e \in Twins PROVE effective = EffectiveUpTo(seed, e)[at - 1]
      BY DEF TwinsInv
    <2>1. EffectiveUpTo(seed, e)[0] = seed /\ at - 1 = 0
      BY <1>1, UpTo
    <2> QED BY <1>1, <2>1
  <1>4. ColorInv /\ OutputReadInv
    BY <1>1 DEF ColorInv, OutputReadInv
  <1> QED BY <1>2, <1>3, <1>4 DEF EffectiveInv

(***************************************************************************)
(* pslog_output_init_env_value finds the file that OUTPUT names.           *)
(***************************************************************************)
LEMMA NamedFile ==
  ASSUME EffectiveInv
  PROVE  OpensNamedFile
  <1> DEFINE value == env["OUTPUT"]
             t == Stripped(value)
             plus == {i \in DOMAIN t : t[i] = "+"}
             streams == {"default", "stdout", "stderr"}
             rest == SubSeq(t, 3, Len(t))
  <1> SUFFICES ASSUME Finished, value # Unset, t # <<>>, Len(t) < OutputSize
               PROVE  IF plus = {} /\ Len(t) = 1 /\ Lower(t[1]) \in streams
                      THEN effective.output.path = <<>>
                      ELSE IF 2 \in plus /\ Lower(t[1]) \in streams
                      THEN effective.output.path = Stripped(rest)
                      ELSE effective.output = [stream |-> "none", path |-> t]
    BY DEF OpensNamedFile
  <1>0. OutputSize \in Nat /\ OutputSize > 2
    BY EnvAssumption
  <1>1. value \in Seq(Tokens)
    <2>1. "OUTPUT" \in Range(Variables)
      BY VariableRange
    <2> QED BY <2>1, ValueType DEF EffectiveInv
  <1>2. TrimCopy(value, OutputSize) = t /\ TrimCopy(t, OutputSize) = t
    BY <1>0, <1>1, TrimCopyValue
  <1>3. t \in Seq(Tokens) /\ Tight(t)
    BY <1>1, StrippedTight
  <1>4. effective.output = OutputOf(t)
    <2>1. at > 11
      BY VariableNames DEF Finished
    <2> QED BY <1>2, <2>1 DEF EffectiveInv, OutputReadInv
  <1> HIDE DEF t, value
  <1>5. Len(t) \in Nat \ {0} /\ DOMAIN t = 1..Len(t) /\ Len(LowerAll(t)) = Len(t)
        /\ \A i \in 1..Len(t) : t[i] \in Tokens /\ LowerAll(t)[i] = Lower(t[i])
    BY <1>3, LowerValue, LenProperties, EmptySeq
  <1>6. \A i \in 1..Len(t) : Lower(t[i]) = "+" <=> t[i] = "+"
    BY <1>5, LowerToken DEF Caseless
  <1>7. OutputOf(t) =
          IF Len(t) = 1 /\ LowerAll(t)[1] \in streams
          THEN [stream |-> IF LowerAll(t)[1] = "default" THEN "base" ELSE LowerAll(t)[1],
                path |-> <<>>]
          ELSE IF Len(t) >= 2 /\ LowerAll(t)[1] \in streams /\ LowerAll(t)[2] = "+"
          THEN [stream |-> IF LowerAll(t)[1] = "default" THEN "base" ELSE LowerAll(t)[1],
                path |-> TrimCopy(rest, OutputSize)]
          ELSE [stream |-> "none", path |-> t]
    BY <1>2, <1>5 DEF OutputOf
  <1>8. LowerAll(t)[1] = Lower(t[1])
    BY <1>5
  <1>9. CASE Len(t) = 1
    <2>1. 2 \notin plus
      BY <1>5, <1>9
    <2>2. Lower(t[1]) \in streams => plus = {}
      BY <1>5, <1>6, <1>9
    <2> QED BY <1>4, <1>7, <1>8, <1>9, <2>1, <2>2
  <1>10. CASE Len(t) # 1
    <2>1. Len(t) >= 2 /\ LowerAll(t)[2] = Lower(t[2])
      BY <1>5, <1>10
    <2>2. LowerAll(t)[2] = "+" <=> 2 \in plus
      BY <1>5, <1>6, <2>1
    <2>3. TrimCopy(rest, OutputSize) = Stripped(rest)
      <3>1. 3 \in Nat \ {0} /\ Len(t) \in 0..Len(t) /\ \A i \in 3..Len(t) : t[i] \in Tokens
        BY <1>5
      <3>2. rest \in Seq(Tokens) /\ Len(rest) <= Len(t)
        BY <1>5, <3>1, SubSeqProperties
      <3> HIDE DEF rest
      <3>3. Stripped(rest) \in Seq(Tokens) /\ Len(Stripped(rest)) <= Len(rest)
        BY <3>2, StrippedTight
      <3>4. Len(Stripped(rest)) < OutputSize
        BY <1>0, <1>5, <3>2, <3>3, LenProperties
      <3> QED BY <1>0, <3>2, <3>4, TrimCopyValue
    <2> QED BY <1>4, <1>7, <1>8, <1>10, <2>1, <2>2, <2>3
  <1> QED BY <1>9, <1>10

(***************************************************************************)
(* pslog_new_from_env, for every seed, environment and buffer size: a      *)
(* value that is not recognised, cut to fit or not, is as good as not set; *)
(* whoever asks for no colour gets none; case and blanks make no           *)
(* difference; and the file opened is the one LOG_OUTPUT names.            *)
(***************************************************************************)
THEOREM EnvironmentObeyed == EnvSpec => []EnvAsWritten
  <1>1. EffectiveInv /\ [EnvNext]_envVars => EffectiveInv'
    <2> SUFFICES ASSUME EffectiveInv, [EnvNext]_envVars PROVE EffectiveInv'
      OBVIOUS
    <2>1. CASE Read
      BY <2>1, ReadStep
    <2>2. CASE UNCHANGED envVars
      BY <2>2 DEF envVars, EffectiveInv, EnvTypeOK, IsConfig, TwinsInv, Twins, Without, Respelt,
                  ColorInv, OutputReadInv
    <2> QED BY <2>1, <2>2 DEF EnvNext, EnvDone
  <1>2. EffectiveInv => EnvAsWritten
    <2> SUFFICES ASSUME EffectiveInv PROVE EnvAsWritten
      OBVIOUS
    <2>1. Finished => at = 12 /\ at - 1 = Len(Variables)
      BY VariableNames DEF EffectiveInv, EnvTypeOK, Finished
    <2>2. ASSUME NEW e \in Twins, Finished PROVE effective = EffectiveOf(e)
      BY <2>1, <2>2 DEF EffectiveInv, TwinsInv, EffectiveOf
    <2>3. UnrecognisedIgnored
      BY <2>2 DEF UnrecognisedIgnored, Twins
    <2>4. SpellingIrrelevant
      BY <2>2 DEF SpellingIrrelevant, Twins
    <2>5. NoColorWins
      BY <2>1 DEF EffectiveInv, ColorInv, NoColorWins
    <2> QED BY <2>3, <2>4, <2>5, NamedFile DEF EnvAsWritten
  <1> QED BY <1>1, <1>2, EnvBegins, PTL DEF EnvSpec
=============================================================================
