--------------------------- MODULE PslogOutputsProofs ---------------------------
(***************************************************************************)
(* Proofs about the outputs a logger writes to: sinks (PslogSinks), files  *)
(* and descriptors (PslogFile), for any buffer length, any length of a     *)
(* single write and any number of buffers; and who closes them             *)
(* (PslogConstruct).                                                       *)
(***************************************************************************)
EXTENDS PslogSinks, PslogFile, PslogConstruct, SequenceTheorems, TLAPS

-----------------------------------------------------------------------------
(* Sinks.                                                                  *)

(***************************************************************************)
(* What is left of a buffer bounds a single write.                         *)
(***************************************************************************)
LEMMA ChunkBounds ==
  ASSUME TypeOK, PositionInv
  PROVE  /\ Chunk \in Nat /\ offset + Chunk <= len
         /\ pc # "idle" => Chunk > 0
  BY SinksAssumption DEF TypeOK, PositionInv, Chunk, Min2

\* The smaller of two lengths.
LEMMA Least ==
  ASSUME NEW a \in Nat, NEW b \in Nat
  PROVE  Min2(a, b) \in Nat /\ Min2(a, b) <= a /\ Min2(a, b) <= b
  BY DEF Min2

\* A side has taken at least what the loop counts and at most the buffer.
LEMMA TakenBounds ==
  ASSUME TypeOK, PositionInv, NEW s \in Sides
  PROVE  Taken(s) \in Nat /\ offset <= Taken(s) /\ Taken(s) <= len
  <1>1. Chunk \in Nat /\ offset + Chunk <= len
    BY ChunkBounds
  <1>2. wrote[s] \in Nat /\ wrote[s] <= Chunk /\ offset \in Nat /\ len \in Nat
    BY DEF TypeOK, PositionInv
  <1>3. Min2(result, Chunk) \in Nat /\ Min2(result, Chunk) <= Chunk
    BY <1>1, Least DEF TypeOK
  <1> HIDE DEF Chunk
  <1> QED BY <1>1, <1>2, <1>3 DEF Taken

(***************************************************************************)
(* A run of k bytes behind a sequence.                                     *)
(***************************************************************************)
LEMMA Extended ==
  ASSUME NEW g \in Seq(Nat), NEW a \in Nat, NEW k \in Nat,
         NEW h, h = g \o [j \in 1..k |-> a + j]
  PROVE  /\ h \in Seq(Nat) /\ Len(h) = Len(g) + k
         /\ \A i \in 1..Len(g) : h[i] = g[i]
         /\ \A i \in (Len(g) + 1)..(Len(g) + k) : h[i] = a + (i - Len(g))
  <1> DEFINE u == [j \in 1..k |-> a + j]
  <1>1. u \in Seq(Nat) /\ Len(u) = k
    <2>1. u \in [1..k -> Nat]
      OBVIOUS
    <2> QED BY <2>1
  <1>2. \A j \in 1..k : u[j] = a + j
    OBVIOUS
  <1>3. h = g \o u
    OBVIOUS
  <1> HIDE DEF u
  <1>4. h \in Seq(Nat) /\ Len(h) = Len(g) + k
    BY <1>1, <1>3
  <1>5. \A i \in 1..Len(g) : h[i] = g[i]
    BY <1>1, <1>3
  <1>6. \A i \in (Len(g) + 1)..(Len(g) + k) : h[i] = u[i - Len(g)]
    <2>1. \A i \in 1..(Len(g) + Len(u)) : (g \o u)[i] = IF i <= Len(g) THEN g[i] ELSE u[i - Len(g)]
      BY <1>1
    <2>2. ASSUME NEW i \in (Len(g) + 1)..(Len(g) + k) PROVE h[i] = u[i - Len(g)]
      <3>1. i \in 1..(Len(g) + Len(u)) /\ ~(i <= Len(g))
        BY <1>1
      <3>2. (g \o u)[i] = u[i - Len(g)]
        BY <2>1, <3>1
      <3> QED BY <1>3, <3>2
    <2> QED BY <2>2
  <1>7. \A i \in (Len(g) + 1)..(Len(g) + k) : i - Len(g) \in 1..k
    OBVIOUS
  <1> QED BY <1>2, <1>4, <1>5, <1>6, <1>7

--------------------------------------------------------------------------------

SeenInv == FrontInv /\ PrefixesInOrder /\ LossReported

(***************************************************************************)
(* A step that gives the sinks nothing and stays with the buffer.          *)
(***************************************************************************)
LEMMA NothingTaken ==
  ASSUME SinksInv, UNCHANGED <<sides, got, base>>, starts \subseteq starts',
         reported \subseteq reported', \A s \in sides : Taken(s)' = Taken(s)
  PROVE  SeenInv'
  <1>1. \A s, b : Has(s, b)' <=> Has(s, b)
    BY DEF Has
  <1>2. FrontInv'
    BY <1>1 DEF SinksInv, FrontInv
  <1>3. PrefixesInOrder'
    BY DEF SinksInv, PrefixesInOrder
  <1>4. LossReported'
    BY <1>1 DEF SinksInv, LossReported
  <1> QED BY <1>2, <1>3, <1>4 DEF SeenInv

(***************************************************************************)
(* A sink takes the next n bytes of the buffer.                            *)
(***************************************************************************)
LEMMA SomeTaken ==
  ASSUME SinksInv, NEW s \in sides, NEW n \in Nat, pc # "idle",
         got' = [got EXCEPT ![s] = @ \o [j \in 1..n |-> base + Taken(s) + j]],
         Taken(s)' = Taken(s) + n, \A r \in sides \ {s} : Taken(r)' = Taken(r),
         UNCHANGED <<sides, base, starts, reported>>
  PROVE  SeenInv'
  <1> DEFINE a == base + Taken(s)
             g == got[s]
             h == got'[s]
  <1>0. /\ TypeOK /\ PositionInv /\ FrontInv /\ PrefixesInOrder /\ LossReported
        /\ sides \subseteq Sides
    BY DEF SinksInv, TypeOK, Sides
  <1>1. /\ a \in Nat /\ g \in Seq(Nat) /\ Taken(s) \in Nat /\ base \in Nat
        /\ h = g \o [j \in 1..n |-> a + j]
    BY <1>0, TakenBounds, SMTT(30) DEF TypeOK
  <1>2. /\ h \in Seq(Nat) /\ Len(h) = Len(g) + n
        /\ \A i \in 1..Len(g) : h[i] = g[i]
        /\ \A i \in (Len(g) + 1)..(Len(g) + n) : h[i] = a + (i - Len(g))
    <2> HIDE DEF a, g, h
    <2> QED BY <1>1, Extended
  <1>3. \A r \in Sides \ {s} : got'[r] = got[r]
    BY <1>0 DEF TypeOK
  <1>4. /\ \A i \in 1..Len(g) : g[i] <= a
        /\ Taken(s) > 0 => Len(g) > 0 /\ g[Len(g)] = a
        /\ \A b \in (base + 1)..a : Has(s, b)
    BY <1>0 DEF FrontInv
  <1>5. Taken(s) = 0 => a + 1 \in starts
    BY <1>0, <1>1 DEF PositionInv
  <1>6. \A r \in Sides : \A b : Has(r, b) => Has(r, b)'
    <2>1. \A b : Has(s, b) => Has(s, b)'
      <3> SUFFICES ASSUME NEW b, NEW i \in 1..Len(g), g[i] = b PROVE \E j \in 1..Len(h) : h[j] = b
        BY DEF Has
      <3>1. i \in 1..Len(h) /\ h[i] = b
        BY <1>1, <1>2
      <3> QED BY <3>1
    <2> QED BY <1>3, <2>1 DEF Has
  <1> HIDE DEF a, g, h
  <1>7. FrontInv'
    <2>1. \A i \in 1..Len(h) : h[i] <= a + n
      BY <1>1, <1>2, <1>4
    <2>2. Taken(s) + n > 0 => Len(h) > 0 /\ h[Len(h)] = a + n
      <3>1. CASE n = 0
        BY <1>1, <1>2, <1>4, <3>1
      <3>2. CASE n > 0
        BY <1>1, <1>2, <3>2
      <3> QED BY <3>1, <3>2
    <2>3. ASSUME NEW b \in (base + 1)..(a + n) PROVE Has(s, b)'
      <3>1. CASE b <= a
        <4>1. b \in (base + 1)..a
          BY <1>1, <3>1
        <4> QED BY <1>0, <1>4, <1>6, <4>1
      <3>2. CASE b > a
        <4>1. Len(g) + (b - a) \in (Len(g) + 1)..(Len(g) + n) /\ a + ((Len(g) + (b - a)) - Len(g)) = b
          BY <1>1, <3>2
        <4>2. Len(g) + (b - a) \in 1..Len(h) /\ h[Len(g) + (b - a)] = b
          BY <1>1, <1>2, <4>1
        <4> QED BY <4>2 DEF Has, h
      <3> QED BY <1>1, <3>1, <3>2
    <2>4. base' + Taken(s)' = a + n
      BY <1>1 DEF a
    <2>5. /\ \A i \in 1..Len(got'[s]) : got'[s][i] <= base' + Taken(s)'
          /\ Taken(s)' > 0 => Len(got'[s]) > 0 /\ got'[s][Len(got'[s])] = base' + Taken(s)'
          /\ \A b \in (base' + 1)..(base' + Taken(s)') : Has(s, b)'
      BY <2>1, <2>2, <2>3, <2>4 DEF h
    <2>6. ASSUME NEW r \in sides \ {s}
          PROVE  /\ \A i \in 1..Len(got'[r]) : got'[r][i] <= base' + Taken(r)'
                 /\ Taken(r)' > 0 => Len(got'[r]) > 0 /\ got'[r][Len(got'[r])] = base' + Taken(r)'
                 /\ \A b \in (base' + 1)..(base' + Taken(r)') : Has(r, b)'
      BY <1>0, <1>3, <1>6 DEF FrontInv
    <2> QED BY <2>5, <2>6 DEF FrontInv
  <1>8. PrefixesInOrder'
    <2>1. ASSUME NEW i \in 1..Len(h)
          PROVE  \/ h[i] \in starts /\ (i > 1 => h[i - 1] < h[i])
                 \/ i > 1 /\ h[i] = h[i - 1] + 1
      <3>1. CASE i <= Len(g)
        <4>1. /\ i \in 1..Len(g) /\ h[i] = g[i]
              /\ i > 1 => h[i - 1] = g[i - 1]
          BY <1>1, <1>2, <3>1
        <4>2. \/ g[i] \in starts /\ (i > 1 => g[i - 1] < g[i])
              \/ i > 1 /\ g[i] = g[i - 1] + 1
          BY <1>0, <4>1 DEF PrefixesInOrder, g
        <4> QED BY <4>1, <4>2
      <3>2. CASE i = Len(g) + 1
        <4>1. h[i] = a + 1
          BY <1>1, <1>2, <3>2
        <4>2. i > 1 => h[i - 1] = g[Len(g)] /\ g[Len(g)] \in Nat /\ g[Len(g)] <= a
          BY <1>1, <1>2, <1>4, <3>2
        <4>3. CASE Taken(s) = 0
          BY <1>1, <1>5, <4>1, <4>2, <4>3
        <4>4. CASE Taken(s) > 0
          <5>1. i > 1 /\ g[Len(g)] = a
            BY <1>1, <1>4, <3>2, <4>4
          <5> QED BY <4>1, <4>2, <5>1
        <4> QED BY <1>1, <4>3, <4>4
      <3>3. CASE i > Len(g) + 1
        BY <1>1, <1>2, <3>3
      <3> QED BY <1>1, <1>2, <3>1, <3>2, <3>3, SMTT(30)
    <2>2. ASSUME NEW r \in Sides \ {s}, NEW i \in 1..Len(got'[r])
          PROVE  \/ got'[r][i] \in starts /\ (i > 1 => got'[r][i - 1] < got'[r][i])
                 \/ i > 1 /\ got'[r][i] = got'[r][i - 1] + 1
      BY <1>0, <1>3, <2>2 DEF PrefixesInOrder
    <2>3. ASSUME NEW r \in Sides, NEW i \in 1..Len(got'[r])
          PROVE  \/ got'[r][i] \in starts /\ (i > 1 => got'[r][i - 1] < got'[r][i])
                 \/ i > 1 /\ got'[r][i] = got'[r][i - 1] + 1
      <3>1. CASE r = s
        BY <2>1, <2>3, <3>1 DEF h
      <3>2. CASE r # s
        BY <2>2, <2>3, <3>2
      <3> QED BY <3>1, <3>2
    <2> QED BY <2>3 DEF PrefixesInOrder, Sides
  <1>9. LossReported'
    BY <1>0, <1>6 DEF LossReported
  <1> QED BY <1>7, <1>8, <1>9 DEF SeenInv

(***************************************************************************)
(* A buffer is given up: all sinks have the whole of it, or the failure    *)
(* has been reported for its bytes.                                        *)
(***************************************************************************)
LEMMA GivenUp ==
  ASSUME SinksInv, pc = "return", base' = base + len, offset' = 0, pc' = "idle",
         wrote' = [s \in Sides |-> 0], UNCHANGED <<sides, got, starts, reported>>,
         ~(~err /\ Min2(result, Chunk) > 0 /\ offset + Min2(result, Chunk) < len)
  PROVE  SeenInv'
  <1>0. /\ TypeOK /\ PositionInv /\ FrontInv /\ PrefixesInOrder /\ LossReported /\ ReportInv
        /\ sides \subseteq Sides
    BY DEF SinksInv, TypeOK, Sides
  <1>1. \A s, b : Has(s, b)' <=> Has(s, b)
    BY DEF Has
  <1>2. ASSUME NEW s \in sides PROVE Taken(s)' = 0
    BY <1>0 DEF Taken
  <1>3. PrefixesInOrder'
    BY <1>0 DEF PrefixesInOrder
  <1>4. FrontInv'
    <2> SUFFICES ASSUME NEW s \in sides
                 PROVE  /\ \A i \in 1..Len(got[s]) : got[s][i] <= base + len + 0
                        /\ \A b \in (base + len + 1)..(base + len + 0) : Has(s, b)
      BY <1>1, <1>2 DEF FrontInv
    <2>1. Taken(s) \in Nat /\ Taken(s) <= len /\ base \in Nat /\ len \in Nat
      BY <1>0, TakenBounds DEF TypeOK
    <2>2. got[s] \in Seq(Nat)
      BY <1>0 DEF TypeOK
    <2>3. \A i \in 1..Len(got[s]) : got[s][i] <= base + Taken(s) /\ got[s][i] \in Nat
      BY <1>0, <2>2 DEF FrontInv
    <2> QED BY <2>1, <2>3
  <1>5. LossReported'
    <2> SUFFICES ASSUME NEW b \in 1..(base + len), NEW s \in sides
                 PROVE  Has(s, b) \/ b \in reported
      BY <1>1 DEF LossReported
    <2>1. base \in Nat /\ len \in Nat /\ offset \in Nat /\ result \in Nat
      BY <1>0 DEF TypeOK
    <2>2. CASE b <= base
      BY <1>0, <2>1, <2>2 DEF LossReported
    <2>3. CASE b > base /\ (err \/ result # Chunk)
      <3>1. b \in (base + 1)..(base + len)
        BY <2>1, <2>3
      <3> QED BY <1>0, <2>3, <3>1 DEF ReportInv
    <2>4. CASE b > base /\ ~err /\ result = Chunk
      <3>1. Chunk \in Nat /\ offset + Chunk <= len /\ Chunk > 0
        BY <1>0, ChunkBounds
      <3>2. Min2(result, Chunk) = Chunk
        BY <2>4, <3>1 DEF Min2
      <3>3. offset + Chunk = len
        BY <2>1, <2>4, <3>1, <3>2
      <3>4. Taken(s) = len
        BY <1>0, <2>4, <3>2, <3>3 DEF Taken, PositionInv
      <3>5. b \in (base + 1)..(base + Taken(s))
        BY <2>1, <2>4, <3>4
      <3> QED BY <1>0, <3>5 DEF FrontInv
    <2> QED BY <2>1, <2>2, <2>3, <2>4
  <1> QED BY <1>3, <1>4, <1>5 DEF SeenInv

--------------------------------------------------------------------------------
(* The steps, one by one.                                                  *)

\* A new buffer begins where the last one ended.
LEMMA WriteOutputStep ==
  ASSUME SinksInv, NEW n \in 1..Capacity, WriteOutput(n)
  PROVE  SinksInv'
  <1>0. TypeOK /\ PositionInv /\ n \in Nat /\ n > 0
    BY SinksAssumption DEF SinksInv
  <1>1. TypeOK'
    BY <1>0 DEF WriteOutput, TypeOK
  <1>2. Chunk' \in Nat
    BY <1>0, SinksAssumption DEF WriteOutput, PositionInv, Chunk, Min2
  <1>3. PositionInv'
    BY <1>0, <1>2 DEF WriteOutput, TypeOK, PositionInv
  <1>4. \A s \in sides : Taken(s)' = Taken(s)
    BY <1>0 DEF WriteOutput, Taken
  <1>5. SeenInv'
    BY <1>4, NothingTaken DEF WriteOutput
  <1> QED BY <1>1, <1>3, <1>5 DEF SinksInv, SeenInv, ReportInv, WriteOutput

\* A chunk goes to the output, or to the tee.
LEMMA BeginWriteStep ==
  ASSUME SinksInv, BeginWrite
  PROVE  SinksInv'
  <1>0. TypeOK /\ PositionInv /\ Chunk \in Nat /\ sides \subseteq Sides
    BY ChunkBounds DEF SinksInv, TypeOK, Sides
  <1>1. Chunk' = Chunk
    BY DEF BeginWrite, Chunk
  <1>2. TypeOK'
    BY <1>0 DEF BeginWrite, TypeOK
  <1>3. PositionInv'
    BY <1>0, <1>1 DEF BeginWrite, TypeOK, PositionInv
  <1>4. \A s \in sides : Taken(s)' = Taken(s)
    BY <1>0 DEF BeginWrite, Taken, PositionInv
  <1>5. SeenInv'
    BY <1>4, NothingTaken DEF BeginWrite
  <1> QED BY <1>2, <1>3, <1>5 DEF SinksInv, SeenInv, ReportInv, BeginWrite

\* A single sink takes a part of the chunk.
LEMMA SinkWriteStep ==
  ASSUME SinksInv, NEW k \in Nat, NEW e \in BOOLEAN, SinkWrite(k, e)
  PROVE  SinksInv'
  <1> DEFINE n == Min2(k, Chunk)
  <1>0. TypeOK /\ PositionInv /\ Chunk \in Nat /\ "first" \in sides /\ sides # Sides
    BY ChunkBounds DEF SinksInv, SinkWrite, Sides
  <1>1. Chunk' = Chunk
    BY DEF SinkWrite, Chunk
  <1>2. n \in Nat
    BY <1>0, Least
  <1>3. Taken("first") = offset + wrote["first"] /\ Taken("first") = offset
    BY <1>0 DEF SinkWrite, Taken, PositionInv, TypeOK, Sides
  <1>4. got' = [got EXCEPT !["first"] = @ \o [j \in 1..n |-> base + Taken("first") + j]]
    <2>1. \A j \in 1..n : base + offset + wrote["first"] + j = base + Taken("first") + j
      BY <1>0, <1>2, <1>3 DEF TypeOK, Sides
    <2>2. [j \in 1..n |-> base + offset + wrote["first"] + j]
            = [j \in 1..n |-> base + Taken("first") + j]
      BY <2>1
    <2> QED BY <2>2 DEF SinkWrite, Accept
  <1>5. Taken("first")' = Taken("first") + n
    BY <1>0, <1>1, <1>3 DEF SinkWrite, Taken
  <1> HIDE DEF n
  <1>6. SeenInv'
    BY <1>0, <1>2, <1>4, <1>5, SomeTaken DEF SinkWrite
  <1>7. TypeOK'
    <2>1. got["first"] \in Seq(Nat) /\ base + Taken("first") \in Nat
      BY <1>0, TakenBounds DEF TypeOK, Sides
    <2>2. got["first"] \o [j \in 1..n |-> base + Taken("first") + j] \in Seq(Nat)
      BY <1>2, <2>1, Extended
    <2>3. got' \in [Sides -> Seq(Nat)]
      BY <1>0, <1>4, <2>2 DEF TypeOK
    <2> QED BY <1>0, <2>3 DEF SinkWrite, TypeOK
  <1>8. PositionInv'
    BY <1>0, <1>1 DEF SinkWrite, PositionInv
  <1> QED BY <1>6, <1>7, <1>8 DEF SinksInv, SeenInv, ReportInv, SinkWrite

\* One side of the tee takes a part of what it lacks.
LEMMA TeeWriteStep ==
  ASSUME SinksInv, NEW s \in Sides, NEW k \in Nat, NEW e \in BOOLEAN, TeeWrite(s, k, e)
  PROVE  SinksInv'
  <1> DEFINE n == Min2(k, Chunk - wrote[s])
  <1>0. /\ TypeOK /\ PositionInv /\ Chunk \in Nat /\ s \in sides /\ sides = Sides
        /\ wrote[s] \in Nat /\ wrote[s] < Chunk /\ pc # "idle"
    BY ChunkBounds DEF SinksInv, TeeWrite, Sides, TypeOK
  <1>1. Chunk' = Chunk
    BY DEF TeeWrite, Chunk
  <1>2. n \in Nat /\ wrote[s] + n <= Chunk
    <2>1. Chunk - wrote[s] \in Nat
      BY <1>0
    <2>2. n \in Nat /\ n <= Chunk - wrote[s]
      BY <2>1, Least
    <2> HIDE DEF n
    <2> QED BY <1>0, <2>2
  <1>3. Taken(s) = offset + wrote[s]
    BY <1>0 DEF Taken
  <1>4. got' = [got EXCEPT ![s] = @ \o [j \in 1..n |-> base + Taken(s) + j]]
    <2>1. \A j \in 1..n : base + offset + wrote[s] + j = base + Taken(s) + j
      BY <1>0, <1>2, <1>3 DEF TypeOK
    <2>2. [j \in 1..n |-> base + offset + wrote[s] + j] = [j \in 1..n |-> base + Taken(s) + j]
      BY <2>1
    <2> QED BY <2>2 DEF TeeWrite, Accept
  <1>5. wrote' = [wrote EXCEPT ![s] = @ + n]
    BY DEF TeeWrite
  <1>6. pc' \in {"tee_return", "first", "second"}
    BY DEF TeeWrite, Other
  <1>a. UNCHANGED <<sides, base, len, offset, result, starts, reported>>
    BY DEF TeeWrite
  <1> HIDE DEF n
  <1>7. Taken(s)' = Taken(s) + n /\ \A r \in sides \ {s} : Taken(r)' = Taken(r)
    BY <1>0, <1>2, <1>3, <1>5, <1>a DEF Taken, TypeOK
  <1>8. SeenInv'
    BY <1>0, <1>2, <1>4, <1>7, <1>a, SomeTaken
  <1>9. TypeOK'
    <2>1. got[s] \in Seq(Nat) /\ base + Taken(s) \in Nat
      BY <1>0, TakenBounds DEF TypeOK
    <2>2. got[s] \o [j \in 1..n |-> base + Taken(s) + j] \in Seq(Nat)
      BY <1>2, <2>1, Extended
    <2>3. got' \in [Sides -> Seq(Nat)]
      BY <1>0, <1>4, <2>2 DEF TypeOK
    <2>4. wrote' \in [Sides -> Nat]
      BY <1>0, <1>2, <1>5 DEF TypeOK
    <2> QED BY <1>0, <1>6, <1>a, <2>3, <2>4 DEF TypeOK
  <1>10. PositionInv'
    <2>1. \A r \in Sides : wrote'[r] <= Chunk
      BY <1>0, <1>2, <1>5 DEF PositionInv, TypeOK
    <2> QED BY <1>0, <1>1, <1>6, <1>a, <2>1 DEF PositionInv
  <1> QED BY <1>6, <1>8, <1>9, <1>10 DEF SinksInv, SeenInv, ReportInv

\* A side that has the whole chunk is passed over.
LEMMA TeeSkipStep ==
  ASSUME SinksInv, NEW s \in Sides, TeeSkip(s)
  PROVE  SinksInv'
  <1>0. TypeOK /\ PositionInv /\ sides = Sides /\ pc # "idle"
    BY DEF SinksInv, TeeSkip, Sides
  <1>1. Chunk' = Chunk /\ pc' \in {"tee_return", "first", "second"}
    BY DEF TeeSkip, Chunk, Other
  <1>2. TypeOK'
    BY <1>0, <1>1 DEF TeeSkip, TypeOK
  <1>3. PositionInv'
    BY <1>0, <1>1 DEF TeeSkip, PositionInv
  <1>4. \A r \in sides : Taken(r)' = Taken(r)
    BY <1>0 DEF TeeSkip, Taken
  <1>5. SeenInv'
    BY <1>4, NothingTaken DEF TeeSkip
  <1> QED BY <1>1, <1>2, <1>3, <1>5 DEF SinksInv, SeenInv, ReportInv

\* The tee reports what both sides have.
LEMMA TeeReturnStep ==
  ASSUME SinksInv, TeeReturn
  PROVE  SinksInv'
  <1>0. TypeOK /\ PositionInv /\ sides = Sides /\ Chunk \in Nat
    BY ChunkBounds DEF SinksInv, TeeReturn, PositionInv
  <1>1. Chunk' = Chunk /\ wrote["first"] \in Nat /\ wrote["second"] \in Nat
    BY <1>0 DEF TeeReturn, Chunk, TypeOK, Sides
  <1>2. TypeOK'
    BY <1>0, <1>1, Least DEF TeeReturn, TypeOK
  <1>3. ASSUME ~err' PROVE result' = Chunk /\ \A s \in Sides : wrote[s] = Chunk
    <2>1. \A s \in Sides : ~(wrote[s] < Chunk)
      BY <1>3 DEF TeeReturn
    <2>2. \A s \in Sides : wrote[s] = Chunk
      BY <1>0, <2>1 DEF PositionInv, TypeOK
    <2> QED BY <1>0, <2>2 DEF TeeReturn, Sides, Min2
  <1>4. PositionInv'
    BY <1>0, <1>1, <1>3 DEF TeeReturn, PositionInv
  <1>5. \A s \in sides : Taken(s)' = Taken(s)
    BY <1>0 DEF TeeReturn, Taken
  <1>6. SeenInv'
    BY <1>5, NothingTaken DEF TeeReturn
  <1> QED BY <1>2, <1>4, <1>6 DEF SinksInv, SeenInv, ReportInv, TeeReturn

\* The observer counts a failure and reports the buffer.
LEMMA ObserveStep ==
  ASSUME SinksInv, Observe
  PROVE  SinksInv'
  <1>0. TypeOK /\ PositionInv /\ Chunk' = Chunk
    BY DEF SinksInv, Observe, Chunk
  <1>1. TypeOK'
    BY <1>0 DEF Observe, TypeOK
  <1>2. PositionInv'
    BY <1>0 DEF Observe, PositionInv
  <1>3. \A s \in sides : Taken(s)' = Taken(s)
    BY <1>0 DEF Observe, Taken
  <1>4. reported \subseteq reported'
    BY DEF Observe
  <1>5. SeenInv'
    BY <1>3, <1>4, NothingTaken DEF Observe
  <1>6. ReportInv'
    BY <1>0 DEF Observe, ReportInv
  <1> QED BY <1>1, <1>2, <1>5, <1>6 DEF SinksInv, SeenInv

\* The loop goes on with the rest, or gives it up.
LEMMA WriteReturnStep ==
  ASSUME SinksInv, WriteReturn
  PROVE  SinksInv'
  <1> DEFINE n == Min2(result, Chunk)
  <1>0. /\ TypeOK /\ PositionInv /\ Chunk \in Nat /\ n \in Nat /\ n <= Chunk /\ pc = "return"
        /\ sides \subseteq Sides
    BY ChunkBounds, Least DEF SinksInv, WriteReturn, TypeOK, Sides
  <1>1. CASE ~err /\ n > 0 /\ offset + n < len
    <2>1. /\ offset' = offset + n /\ pc' = "write" /\ UNCHANGED <<base, len>>
          /\ wrote' = [s \in Sides |-> 0] /\ result' = 0
          /\ UNCHANGED <<sides, got, starts, reported>>
      BY <1>1 DEF WriteReturn
    <2>2. ASSUME NEW s \in sides PROVE Taken(s)' = Taken(s)
      <3>1. Taken(s)' = offset + n
        BY <1>0, <2>1 DEF Taken, TypeOK
      <3>2. CASE sides = Sides
        <4>1. result = Chunk /\ wrote[s] = Chunk
          BY <1>0, <1>1, <3>2 DEF PositionInv
        <4>2. n = Chunk
          BY <1>0, <4>1 DEF Min2
        <4> QED BY <3>1, <3>2, <4>1, <4>2 DEF Taken
      <3>3. CASE sides # Sides
        BY <1>0, <3>1, <3>3 DEF Taken
      <3> QED BY <3>2, <3>3
    <2> HIDE DEF n
    <2>3. SeenInv'
      BY <2>1, <2>2, NothingTaken
    <2>4. TypeOK'
      BY <1>0, <2>1 DEF TypeOK
    <2>5. Chunk' \in Nat
      BY <1>0, <1>1, <2>1, SinksAssumption DEF Chunk, Min2, TypeOK
    <2>6. PositionInv'
      BY <1>0, <1>1, <2>1, <2>5 DEF PositionInv, TypeOK
    <2> QED BY <2>1, <2>3, <2>4, <2>6 DEF SinksInv, SeenInv, ReportInv
  <1>2. CASE ~(~err /\ n > 0 /\ offset + n < len)
    <2>1. /\ offset' = 0 /\ pc' = "idle" /\ base' = base + len /\ len' = 0
          /\ wrote' = [s \in Sides |-> 0] /\ result' = 0
          /\ UNCHANGED <<sides, got, starts, reported>>
      BY <1>2 DEF WriteReturn
    <2>2. SeenInv'
      BY <1>0, <1>2, <2>1, GivenUp
    <2>3. TypeOK'
      BY <1>0, <2>1 DEF TypeOK
    <2>4. Chunk' = 0
      BY <2>1, SinksAssumption DEF Chunk, Min2
    <2>5. PositionInv'
      BY <2>1, <2>4 DEF PositionInv
    <2> QED BY <2>1, <2>2, <2>3, <2>5 DEF SinksInv, SeenInv, ReportInv
  <1> QED BY <1>1, <1>2

--------------------------------------------------------------------------------

\* The invariant holds at first.
LEMMA SinksInit ==
  ASSUME Init
  PROVE  SinksInv
  <1>1. TypeOK
    BY DEF Init, TypeOK, Sides
  <1>2. Chunk = 0
    BY SinksAssumption DEF Init, Chunk, Min2
  <1>3. PositionInv
    BY <1>2 DEF Init, PositionInv
  <1>4. \A s \in Sides : Len(got[s]) = 0
    BY DEF Init
  <1>5. \A s \in sides : Taken(s) = 0
    BY DEF Init, Taken
  <1>6. FrontInv
    <2>1. sides \subseteq Sides /\ base = 0
      BY DEF Init, Sides
    <2> QED BY <1>4, <1>5, <2>1 DEF FrontInv
  <1>7. ReportInv /\ LossReported /\ PrefixesInOrder
    BY <1>4 DEF Init, ReportInv, LossReported, PrefixesInOrder
  <1> QED BY <1>1, <1>3, <1>6, <1>7 DEF SinksInv

\* The invariant holds throughout.
LEMMA SinksInvariant == Spec => []SinksInv
  <1>1. Init => SinksInv
    BY SinksInit
  <1>2. ASSUME SinksInv, [Next]_vars PROVE SinksInv'
    <2>1. CASE UNCHANGED vars
      BY <1>2, <2>1 DEF vars, SinksInv, TypeOK, PositionInv, FrontInv, ReportInv, PrefixesInOrder,
                        LossReported, Taken, Has, Chunk
    <2>2. ASSUME NEW k \in 0..ChunkCapacity + 1, NEW e \in BOOLEAN,
                 SinkWrite(k, e) \/ \E s \in Sides : TeeWrite(s, k, e)
          PROVE  SinksInv'
      <3>1. k \in Nat
        BY SinksAssumption
      <3> QED BY <1>2, <2>2, <3>1, SinkWriteStep, TeeWriteStep
    <2> QED BY <1>2, <2>1, <2>2, WriteOutputStep, BeginWriteStep, TeeSkipStep, TeeReturnStep,
               ObserveStep, WriteReturnStep DEF Next
  <1> QED BY <1>1, <1>2, PTL DEF Spec

(***************************************************************************)
(* pslog_write_output_locked over an observed sink or tee: each sink sees  *)
(* the log in order, no byte twice and of every buffer a prefix; the loop  *)
(* goes on only behind bytes that every sink has; and a byte that a sink   *)
(* lacks belongs to a buffer whose failure was reported.                   *)
(***************************************************************************)
THEOREM SinksStayInStep == Spec => []SinksInStep
  <1>1. ASSUME SinksInv PROVE SinksInStep
    <2>1. TypeOK /\ PositionInv /\ FrontInv /\ sides \subseteq Sides
      BY <1>1 DEF SinksInv, TypeOK, Sides
    <2>2. ASSUME NEW s \in sides, NEW b \in (base + 1)..(base + offset) PROVE Has(s, b)
      <3>1. Taken(s) \in Nat /\ offset <= Taken(s) /\ base \in Nat /\ offset \in Nat
        BY <2>1, TakenBounds DEF TypeOK
      <3>2. b \in (base + 1)..(base + Taken(s))
        BY <3>1
      <3> QED BY <2>1, <3>2 DEF FrontInv
    <2> QED BY <1>1, <2>2 DEF SinksInv, SinksInStep, OffsetOnAllSides
  <1> QED BY <1>1, SinksInvariant, PTL

-----------------------------------------------------------------------------
(* Files and descriptors.                                                  *)

\* Bytes appended one after the other or together.
LEMMA Associative ==
  ASSUME NEW a \in Seq(Nat), NEW b \in Seq(Nat), NEW c \in Seq(Nat)
  PROVE  (a \o b) \o c = a \o (b \o c)
  BY ConcatAssociative, SMTT(30)

(***************************************************************************)
(* A stream that passes on j bytes of what it holds moves them from the    *)
(* one sequence to the other: together they stay what they were.           *)
(***************************************************************************)
LEMMA PassOn ==
  ASSUME NEW f \in Seq(Nat), NEW h \in Seq(Nat), NEW j \in 0..Len(h)
  PROVE  /\ f \o SubSeq(h, 1, j) \in Seq(Nat)
         /\ SubSeq(h, j + 1, Len(h)) \in Seq(Nat)
         /\ (f \o SubSeq(h, 1, j)) \o SubSeq(h, j + 1, Len(h)) = f \o h
         /\ Len(f) <= Len(f \o SubSeq(h, 1, j))
         /\ \A i \in 1..Len(f) : (f \o SubSeq(h, 1, j))[i] = f[i]
         /\ j = Len(h) => /\ SubSeq(h, j + 1, Len(h)) = <<>>
                          /\ f \o SubSeq(h, 1, j) = f \o h
  <1>0. Len(h) \in Nat /\ Len(f) \in Nat /\ j \in Int /\ Len(h) \in Int
    OBVIOUS
  <1>1. SubSeq(h, 1, j) \in Seq(Nat)
    <2>1. \A i \in 1..j : h[i] \in Nat
      OBVIOUS
    <2> QED BY <1>0, <2>1, SubSeqProperties
  <1>2. SubSeq(h, j + 1, Len(h)) \in Seq(Nat)
    <2>1. \A i \in (j + 1)..Len(h) : h[i] \in Nat
      OBVIOUS
    <2>2. j + 1 \in Int
      OBVIOUS
    <2> QED BY <1>0, <2>1, <2>2, SubSeqProperties
  <1>3. SubSeq(h, 1, j) \o SubSeq(h, j + 1, Len(h)) = h
    <2>1. 1 \in 1..Len(h) + 1 /\ j \in (1 - 1)..Len(h) /\ Len(h) \in j..Len(h)
      BY <1>0
    <2>2. SubSeq(h, 1, j) \o SubSeq(h, j + 1, Len(h)) = SubSeq(h, 1, Len(h))
      BY <2>1, ConcatAdjacentSubSeq
    <2> QED BY <2>2, SubSeqFull
  <1> DEFINE x == SubSeq(h, 1, j)
             y == SubSeq(h, j + 1, Len(h))
  <1>4. ASSUME j = Len(h) PROVE y = <<>> /\ x = h
    BY <1>0, <1>4, SubSeqEmpty, SubSeqFull
  <1>5. x \in Seq(Nat) /\ y \in Seq(Nat)
    BY <1>1, <1>2
  <1>a. x \o y = h
    BY <1>3
  <1> HIDE DEF x, y
  <1>6. (f \o x) \o y = f \o (x \o y)
    BY <1>5, Associative, Zenon
  <1>7. (f \o x) \o y = f \o h
    BY <1>6, <1>a
  <1>8. f \o x \in Seq(Nat) /\ Len(f) <= Len(f \o x) /\ \A i \in 1..Len(f) : (f \o x)[i] = f[i]
    BY <1>5
  <1>9. /\ f \o x \in Seq(Nat) /\ y \in Seq(Nat) /\ (f \o x) \o y = f \o h
        /\ Len(f) <= Len(f \o x) /\ \A i \in 1..Len(f) : (f \o x)[i] = f[i]
        /\ j = Len(h) => y = <<>> /\ f \o x = f \o h
    BY <1>4, <1>5, <1>7, <1>8
  <1> QED BY <1>9 DEF x, y

\* The k bytes behind a.
Run(a, k) == [i \in 1..k |-> a + i]

\* What a run consists of.
LEMMA RunBytes ==
  ASSUME NEW a \in Nat, NEW k \in Nat
  PROVE  Run(a, k) \in Seq(Nat) /\ Len(Run(a, k)) = k /\ \A i \in 1..k : Run(a, k)[i] = a + i
  <1>1. Run(a, k) \in [1..k -> Nat]
    BY DEF Run
  <1>2. Run(a, k) \in Seq(Nat) /\ Len(Run(a, k)) = k
    BY <1>1
  <1>3. \A i \in 1..k : Run(a, k)[i] = a + i
    BY DEF Run
  <1> QED BY <1>2, <1>3

(***************************************************************************)
(* The bytes u behind a sequence.                                          *)
(***************************************************************************)
LEMMA RunExtended ==
  ASSUME NEW g \in Seq(Nat), NEW u \in Seq(Nat)
  PROVE  /\ g \o u \in Seq(Nat) /\ Len(g \o u) = Len(g) + Len(u)
         /\ \A i \in 1..Len(g) : (g \o u)[i] = g[i]
         /\ \A i \in (Len(g) + 1)..(Len(g) + Len(u)) : (g \o u)[i] = u[i - Len(g)]
  <1>1. g \o u \in Seq(Nat) /\ Len(g \o u) = Len(g) + Len(u) /\ Len(g) \in Nat /\ Len(u) \in Nat
    OBVIOUS
  <1>2. \A i \in 1..(Len(g) + Len(u)) : (g \o u)[i] = IF i <= Len(g) THEN g[i] ELSE u[i - Len(g)]
    OBVIOUS
  <1>3. \A i \in 1..Len(g) : (g \o u)[i] = g[i]
    OBVIOUS
  <1>4. ASSUME NEW i \in (Len(g) + 1)..(Len(g) + Len(u)) PROVE (g \o u)[i] = u[i - Len(g)]
    <2>1. i \in 1..(Len(g) + Len(u)) /\ ~(i <= Len(g))
      BY <1>1
    <2> QED BY <1>2, <2>1
  <1> QED BY <1>1, <1>3, <1>4

(***************************************************************************)
(* The next k bytes behind an increasing sequence without later ones.      *)
(***************************************************************************)
LEMMA Increasing ==
  ASSUME NEW g \in Seq(Nat), NEW a \in Nat, NEW k \in Nat, NEW h \in Seq(Nat),
         Len(h) = Len(g) + k, \A i \in 1..Len(g) : h[i] = g[i],
         \A i \in (Len(g) + 1)..(Len(g) + k) : h[i] = a + (i - Len(g)),
         \A i \in 1..Len(g) : g[i] <= a,
         \A i \in 1..(Len(g) - 1) : g[i] < g[i + 1]
  PROVE  /\ \A i \in 1..Len(h) : h[i] <= a + k
         /\ \A i \in 1..(Len(h) - 1) : h[i] < h[i + 1]
         /\ \A b \in (a + 1)..(a + k) : \E p \in 1..Len(h) : h[p] = b
  <1>1. /\ h \in Seq(Nat) /\ Len(h) = Len(g) + k
        /\ \A i \in 1..Len(g) : h[i] = g[i]
        /\ \A i \in (Len(g) + 1)..(Len(g) + k) : h[i] = a + (i - Len(g))
    OBVIOUS
  <1>2. Len(g) \in Nat /\ \A i \in 1..Len(g) : g[i] \in Nat
    OBVIOUS
  <1>3. ASSUME NEW i \in 1..Len(h) PROVE h[i] <= a + k
    <2>1. CASE i <= Len(g)
      <3>1. h[i] = g[i] /\ g[i] <= a /\ g[i] \in Nat
        BY <1>1, <1>2, <2>1
      <3> QED BY <3>1
    <2>2. CASE i > Len(g)
      <3>1. i \in (Len(g) + 1)..(Len(g) + k)
        BY <1>1, <1>2, <2>2
      <3> QED BY <1>1, <1>2, <3>1
    <2> QED BY <1>2, <2>1, <2>2
  <1>4. ASSUME NEW i \in 1..(Len(h) - 1) PROVE h[i] < h[i + 1]
    <2>1. CASE i < Len(g)
      <3>1. i \in 1..Len(g) /\ i + 1 \in 1..Len(g) /\ i \in 1..(Len(g) - 1)
        BY <1>2, <2>1
      <3> QED BY <1>1, <3>1
    <2>2. CASE i = Len(g)
      <3>1. i \in 1..Len(g) /\ i + 1 \in (Len(g) + 1)..(Len(g) + k) /\ (i + 1) - Len(g) = 1
        BY <1>1, <1>2, <2>2
      <3>2. h[i] = g[i] /\ h[i + 1] = a + 1 /\ g[i] <= a /\ g[i] \in Nat
        BY <1>1, <1>2, <3>1
      <3> QED BY <3>2
    <2>3. CASE i > Len(g)
      <3>1. /\ i \in (Len(g) + 1)..(Len(g) + k) /\ i + 1 \in (Len(g) + 1)..(Len(g) + k)
        BY <1>1, <1>2, <2>3
      <3>2. h[i] = a + (i - Len(g)) /\ h[i + 1] = a + ((i + 1) - Len(g))
        BY <1>1, <3>1
      <3> QED BY <1>2, <3>1, <3>2
    <2> QED BY <1>2, <2>1, <2>2, <2>3
  <1>5. ASSUME NEW b \in (a + 1)..(a + k) PROVE \E p \in 1..Len(h) : h[p] = b
    <2>1. /\ Len(g) + (b - a) \in (Len(g) + 1)..(Len(g) + k) /\ Len(g) + (b - a) \in 1..Len(h)
          /\ a + ((Len(g) + (b - a)) - Len(g)) = b
      BY <1>1, <1>2
    <2> QED BY <1>1, <2>1
  <1> QED BY <1>3, <1>4, <1>5

-----------------------------------------------------------------------------
(* The steps.                                                              *)

\* The invariant holds before anything is opened.
LEMMA FileStarts == FileInit => FileInv
  <1> SUFFICES ASSUME FileInit PROVE FileInv
    OBVIOUS
  <1>1. FileTypeOK
    BY DEF FileInit, FileTypeOK
  <1>2. FilePositionInv
    BY DEF FileInit, FilePositionInv, Writing
  <1>3. All = <<>>
    BY DEF FileInit, All
  <1>4. BoundInv
    BY <1>3 DEF BoundInv
  <1>5. ChunkInv
    BY DEF FileInit, ChunkInv, Writing
  <1>6. InOrderOnce
    BY <1>3 DEF InOrderOnce, All
  <1>7. StatusTells /\ LossOnlyOnFailure
    BY DEF FileInit, StatusTells, LossOnlyOnFailure
  <1> QED BY <1>1, <1>2, <1>4, <1>5, <1>6, <1>7 DEF FileInv, FileInOrder

\* The length of a chunk.
LEMMA ChunkLength ==
  ASSUME FileAssumption, FileTypeOK, sent < size
  PROVE  ChunkLen \in Nat /\ ChunkLen > 0 /\ ChunkLen <= size - sent
  BY DEF FileAssumption, FileTypeOK, ChunkLen

\* Opening a stream or a descriptor writes nothing.
LEMMA StepKeepsOpening ==
  ASSUME FileInv, NEW o \in {"ok", "open", "alloc"}, FromFp \/ InitFile(o)
  PROVE  FileInv'
  <1>1. /\ UNCHANGED <<kind, start, size, sent, taken, written, pending, file, buffers, failed>>
        /\ step = "new" /\ step' \in {"idle", "done"} /\ status' \in Int
    BY DEF FileInv, FileTypeOK, FromFp, InitFile, Errnos, StatusOf
  <1>2. FileTypeOK'
    BY <1>1 DEF FileInv, FileTypeOK, Writing
  <1>3. FilePositionInv'
    BY <1>1 DEF FileInv, FilePositionInv, Writing
  <1>4. All' = All /\ Handed' = Handed
    BY <1>1 DEF All, Handed
  <1>5. BoundInv'
    BY <1>4, <1>1 DEF FileInv, BoundInv
  <1>6. ChunkInv'
    BY <1>1 DEF ChunkInv, Writing
  <1>7. InOrderOnce'
    BY <1>1 DEF FileInv, FileInOrder, InOrderOnce
  <1>8. StatusTells'
    BY <1>1 DEF StatusTells
  <1>9. LossOnlyOnFailure'
    BY <1>1 DEF FileInv, FilePositionInv, LossOnlyOnFailure
  <1> QED BY <1>2, <1>3, <1>5, <1>6, <1>7, <1>8, <1>9 DEF FileInv, FileInOrder

\* A new buffer: nothing of it has been handed over.
LEMMA StepKeepsWriteOutput ==
  ASSUME FileAssumption, FileInv, NEW n \in 1..FileCapacity, WriteFile(n)
  PROVE  FileInv'
  <1>1. /\ UNCHANGED <<kind, start, taken, status, written, pending, file>>
        /\ step = "idle" /\ step' = "write" /\ size' = n /\ sent' = 0 /\ buffers' = buffers + 1
    BY DEF WriteFile
  <1>2. FileTypeOK'
    BY <1>1 DEF FileInv, FileTypeOK, Writing, FileAssumption
  <1>3. FilePositionInv'
    BY <1>1 DEF FileInv, FilePositionInv, Writing, FileAssumption
  <1>4. All' = All /\ Handed' = Handed
    BY <1>1 DEF All, Handed
  <1>5. BoundInv'
    BY <1>4, <1>1 DEF FileInv, BoundInv
  <1>6. ChunkInv'
    BY <1>1 DEF FileInv, FileTypeOK, ChunkInv, Writing
  <1>7. InOrderOnce'
    BY <1>1 DEF FileInv, FileInOrder, InOrderOnce
  <1>8. StatusTells' /\ LossOnlyOnFailure'
    BY <1>1 DEF StatusTells, LossOnlyOnFailure
  <1> QED BY <1>2, <1>3, <1>5, <1>6, <1>7, <1>8 DEF FileInv, FileInOrder

(***************************************************************************)
(* The bytes behind the sent, handed over behind all the others.         *)
(***************************************************************************)
LEMMA HandedOver ==
  ASSUME FileInv, step = "write", NEW k \in Nat
  PROVE  LET h == All \o Run(start + sent, k)
         IN /\ \A i \in 1..Len(h) : h[i] <= start + sent + k
            /\ \A i \in 1..(Len(h) - 1) : h[i] < h[i + 1]
            /\ \A b \in (start + sent + 1)..(start + sent + k) : \E p \in 1..Len(h) : h[p] = b
  <1> DEFINE a == start + sent
             g == All
             u == Run(a, k)
             h == g \o u
  <1>1. g \in Seq(Nat) /\ a \in Nat /\ k \in Nat
    BY DEF FileInv, FileTypeOK, All
  <1>2. \A i \in 1..Len(g) : g[i] <= a
    <2>1. Handed = a
      BY DEF Handed
    <2> QED BY <2>1 DEF FileInv, BoundInv
  <1>3. \A i \in 1..(Len(g) - 1) : g[i] < g[i + 1]
    BY DEF FileInv, FileInOrder, InOrderOnce, All
  <1> HIDE DEF a, g
  <1>4. u \in Seq(Nat) /\ Len(u) = k /\ \A i \in 1..k : u[i] = a + i
    BY <1>1, RunBytes
  <1> HIDE DEF u
  <1>5. /\ h \in Seq(Nat) /\ Len(h) = Len(g) + k
        /\ \A i \in 1..Len(g) : h[i] = g[i]
        /\ \A i \in (Len(g) + 1)..(Len(g) + k) : h[i] = u[i - Len(g)]
    BY <1>1, <1>4, RunExtended
  <1> HIDE DEF h
  <1>6. \A i \in (Len(g) + 1)..(Len(g) + k) : h[i] = a + (i - Len(g))
    <2>1. \A i \in (Len(g) + 1)..(Len(g) + k) : i - Len(g) \in 1..k
      BY <1>1
    <2> QED BY <1>4, <1>5, <2>1
  <1>7. /\ \A i \in 1..Len(h) : h[i] <= a + k
        /\ \A i \in 1..(Len(h) - 1) : h[i] < h[i + 1]
        /\ \A b \in (a + 1)..(a + k) : \E p \in 1..Len(h) : h[p] = b
    BY <1>1, <1>2, <1>3, <1>5, <1>6, Increasing
  <1> QED BY <1>7 DEF a, g, h, u

\* fwrite: the stream and the file together grow by the bytes taken.
LEMMA StepKeepsFwrite ==
  ASSUME FileAssumption, FileInv, NEW k \in 0..FileChunk, NEW j \in Nat, Fwrite(k, j)
  PROVE  FileInv'
  <1> DEFINE a == start + sent
             w == Run(a, k)
             held == pending \o w
  <1>1. /\ UNCHANGED <<kind, start, size, sent, status, buffers>>
        /\ step = "write" /\ step' = "flush" /\ kind = "fp" /\ k <= ChunkLen
        /\ taken' = k /\ written' = k /\ failed' = (failed \/ k < ChunkLen)
        /\ j <= Len(held)
        /\ file' = file \o SubSeq(held, 1, j)
        /\ pending' = SubSeq(held, j + 1, Len(held))
    BY DEF Fwrite, Bytes, Run
  <1>t. /\ file \in Seq(Nat) /\ pending \in Seq(Nat) /\ a \in Nat /\ k \in Nat
        /\ start \in Nat /\ sent \in Nat
    BY DEF FileInv, FileTypeOK, FileAssumption
  <1>w. w \in Seq(Nat)
    <2>1. w \in [1..k -> Nat]
      BY <1>t DEF Run
    <2> QED BY <1>t, <2>1
  <1>h. held \in Seq(Nat) /\ All \in Seq(Nat)
    BY <1>t, <1>w DEF All
  <1>j. j \in 0..Len(held)
    BY <1>1, <1>h
  <1> HIDE DEF held
  <1>2. /\ file' \in Seq(Nat) /\ pending' \in Seq(Nat)
        /\ file' \o pending' = file \o held
        /\ Len(file) <= Len(file') /\ \A i \in 1..Len(file) : file'[i] = file[i]
    BY <1>1, <1>h, <1>j, <1>t, PassOn, ZenonT(60)
  <1>3. All' = All \o w
    <2>1. (file \o pending) \o w = file \o (pending \o w)
      BY <1>t, <1>w, Associative, Zenon
    <2> QED BY <1>2, <2>1 DEF All, held
  <1>4. FileTypeOK'
    BY <1>1, <1>2, <1>t DEF FileInv, FileTypeOK, Writing
  <1>5. FilePositionInv'
    BY <1>1 DEF FileInv, FilePositionInv, Writing, ChunkLen
  <1>6. Handed = a /\ Handed' = a + k
    BY <1>1, <1>t DEF Handed
  <1>7. All' = All \o Run(start + sent, k)
    BY <1>3
  <1>8. /\ \A i \in 1..Len(All') : All'[i] <= a + k
        /\ \A i \in 1..(Len(All') - 1) : All'[i] < All'[i + 1]
        /\ \A b \in (a + 1)..(a + k) : \E p \in 1..Len(All') : All'[p] = b
    BY <1>1, <1>t, <1>7, HandedOver
  <1>9. BoundInv'
    BY <1>6, <1>8 DEF BoundInv
  <1>10. InOrderOnce'
    BY <1>8 DEF InOrderOnce, All
  <1>11. ASSUME NEW b, InFile(b) PROVE InFile(b)'
    <2>1. PICK p \in 1..Len(file) : file[p] = b
      BY <1>11 DEF InFile
    <2>2. p \in 1..Len(file') /\ file'[p] = b
      BY <1>2, <1>t, <2>1
    <2> QED BY <2>2 DEF InFile
  <1>12. ChunkInv'
    <2>1. ASSUME ~failed' PROVE ~failed /\ k = ChunkLen
      <3>1. ~failed /\ ~(k < ChunkLen)
        BY <1>1, <2>1, Zenon
      <3>2. ChunkLen \in Nat
        BY <1>1, ChunkLength DEF FileInv, FilePositionInv, Writing
      <3> QED BY <1>1, <1>t, <3>1, <3>2
    <2>2. ~failed => \A b \in (start + 1)..(start + sent) : InFile(b)
      BY <1>1 DEF FileInv, ChunkInv, Writing
    <2>3. ChunkLen' = ChunkLen
      BY <1>1 DEF ChunkLen
    <2>4. ~failed' => \A b \in (start' + 1)..(start' + sent') : InFile(b)'
      BY <1>1, <1>11, <2>1, <2>2
    <2>5. \A b \in (start' + sent' + 1)..(start' + sent' + written') : \E p \in 1..Len(All') : All'[p] = b
      BY <1>1, <1>8
    <2> QED BY <1>1, <2>1, <2>3, <2>4, <2>5 DEF ChunkInv
  <1>13. StatusTells' /\ LossOnlyOnFailure'
    BY <1>1 DEF StatusTells, LossOnlyOnFailure
  <1> QED BY <1>4, <1>5, <1>9, <1>10, <1>12, <1>13 DEF FileInv, FileInOrder

\* fflush: bytes move from the stream to the file, all of them if the status is 0.
LEMMA StepKeepsFflush ==
  ASSUME FileAssumption, FileInv, NEW j \in Nat, NEW ok \in BOOLEAN, NEW e \in Errnos,
         Fflush(j, ok, e)
  PROVE  FileInv'
  <1>1. /\ UNCHANGED <<kind, start, size, sent, taken, written, buffers>>
        /\ step = "flush" /\ step' = "next" /\ j <= Len(pending)
        /\ file' = file \o SubSeq(pending, 1, j)
        /\ pending' = SubSeq(pending, j + 1, Len(pending))
    BY DEF Fflush
  <1>2. /\ failed' = (failed \/ ~ok) /\ (ok => j = Len(pending))
        /\ status' = IF taken = ChunkLen /\ ok THEN 0 ELSE StatusOf(e, EIO)
    BY DEF Fflush
  <1>s. StatusOf(e, EIO) # 0 /\ StatusOf(e, EIO) \in Int
    BY DEF StatusOf, EIO, Errnos
  <1>t. /\ file \in Seq(Nat) /\ pending \in Seq(Nat) /\ j \in 0..Len(pending)
        /\ start \in Nat /\ sent \in Nat /\ written \in Nat /\ size \in Nat
    BY <1>1 DEF FileInv, FileTypeOK
  <1>3. /\ file' \in Seq(Nat) /\ pending' \in Seq(Nat)
        /\ file' \o pending' = file \o pending
        /\ Len(file) <= Len(file') /\ \A i \in 1..Len(file) : file'[i] = file[i]
        /\ j = Len(pending) => pending' = <<>> /\ file' = file \o pending
    BY <1>1, <1>t, PassOn
  <1>4. All' = All /\ Handed' = Handed
    BY <1>1, <1>3 DEF All, Handed
  <1>c. /\ ChunkLen' = ChunkLen /\ ChunkLen \in Nat /\ ChunkLen > 0 /\ taken = written
        /\ kind = "fp"
    BY <1>1, ChunkLength DEF ChunkLen, FileInv, FileTypeOK, FilePositionInv, Writing
  <1>5. FileTypeOK'
    <2>1. status' \in Int
      BY <1>2, <1>s
    <2> QED BY <1>1, <1>3, <2>1 DEF FileInv, FileTypeOK, Writing
  <1>6. FilePositionInv'
    BY <1>1, <1>c DEF FileInv, FilePositionInv, Writing
  <1>7. BoundInv'
    BY <1>4 DEF FileInv, BoundInv
  <1>8. InOrderOnce'
    BY <1>3 DEF FileInv, FileInOrder, InOrderOnce
  <1>f. Len(file') \in Nat /\ Len(file) <= Len(file') /\ \A i \in 1..Len(file) : file'[i] = file[i]
    BY <1>3
  <1>9. ASSUME NEW b, InFile(b) PROVE InFile(b)'
    <2>1. PICK p \in 1..Len(file) : file[p] = b
      BY <1>9 DEF InFile
    <2>2. p \in 1..Len(file') /\ file'[p] = b
      BY <1>f, <1>t, <2>1
    <2> QED BY <2>2 DEF InFile
  <1>10. ChunkInv'
    <2>1. ASSUME ~failed' PROVE ~failed /\ ok
      BY <1>2, <2>1, Zenon
    <2>2. ~failed => /\ \A b \in (start + 1)..(start + sent) : InFile(b)
                     /\ taken = ChunkLen
      BY <1>1 DEF FileInv, ChunkInv, Writing
    <2>3. ~failed' => \A b \in (start' + 1)..(start' + sent') : InFile(b)'
      BY <1>1, <1>9, <2>1, <2>2
    <2>4. ~failed' => status' = 0 /\ written' > 0
      BY <1>1, <1>2, <1>c, <2>1, <2>2
    <2> QED BY <1>1, <2>3, <2>4 DEF ChunkInv
  <1>11. StatusTells'
    <2> SUFFICES ASSUME status' = 0
                 PROVE  /\ pending' = <<>> /\ written' = ChunkLen'
                        /\ \A i \in 1..written' : \E p \in DOMAIN file' : file'[p] = start' + sent' + i
      BY DEF StatusTells
    <2>1. taken = ChunkLen /\ ok
      BY <1>2, <1>s
    <2>2. pending' = <<>> /\ file' = All
      BY <1>2, <1>3, <2>1 DEF All
    <2>3. \A b \in (start + sent + 1)..(start + sent + written) : \E p \in 1..Len(All) : All[p] = b
      BY <1>1 DEF FileInv, ChunkInv
    <2>4. ASSUME NEW i \in 1..written PROVE \E p \in DOMAIN file' : file'[p] = start + sent + i
      <3>1. start + sent + i \in (start + sent + 1)..(start + sent + written)
        BY <1>t
      <3>2. \E p \in 1..Len(file') : file'[p] = start + sent + i
        BY <2>2, <2>3, <3>1
      <3>3. DOMAIN file' = 1..Len(file')
        BY <1>3
      <3> QED BY <3>2, <3>3
    <2> QED BY <1>1, <1>c, <2>1, <2>2, <2>4
  <1>12. LossOnlyOnFailure'
    BY <1>1 DEF LossOnlyOnFailure
  <1> QED BY <1>5, <1>6, <1>7, <1>8, <1>10, <1>11, <1>12 DEF FileInv, FileInOrder

\* write: the file grows by the bytes taken, or the call fails.
LEMMA StepKeepsFdWrite ==
  ASSUME FileAssumption, FileInv, NEW k \in 0..FileChunk, NEW ok \in BOOLEAN, NEW e \in Errnos,
         FdWrite(k, ok, e)
  PROVE  FileInv'
  <1>1. /\ UNCHANGED <<kind, start, size, sent, taken, pending, buffers>>
        /\ step = "write" /\ step' = "next" /\ kind = "fd" /\ k <= ChunkLen
    BY DEF FdWrite
  <1>t. /\ file \in Seq(Nat) /\ pending = <<>> /\ k \in Nat
        /\ start \in Nat /\ sent \in Nat /\ size \in Nat
    BY <1>1 DEF FileInv, FileTypeOK, FilePositionInv, FileAssumption
  <1>a. All = file /\ (file' \in Seq(Nat) => All' = file')
    BY <1>1, <1>t DEF All
  <1>c. ChunkLen' = ChunkLen /\ ChunkLen \in Nat
    BY <1>1, ChunkLength DEF ChunkLen, FileInv, FilePositionInv, Writing
  <1>2. LossOnlyOnFailure'
    BY <1>1 DEF LossOnlyOnFailure
  <1>3. CASE ok
    <2>1. /\ file' = file \o Run(start + sent, k) /\ written' = k /\ status' = 0
      BY <1>3 DEF FdWrite, Bytes, Run
    <2>2. failed' = (failed \/ k = 0)
      BY <1>3 DEF FdWrite
    <2>3. /\ file' \in Seq(Nat) /\ Len(file') = Len(file) + k
          /\ \A i \in 1..Len(file) : file'[i] = file[i]
      <3>1. Run(start + sent, k) \in Seq(Nat) /\ Len(Run(start + sent, k)) = k
        <4>1. start + sent \in Nat
          BY <1>t
        <4> QED BY <1>t, <4>1, RunBytes
      <3> QED BY <1>t, <2>1, <3>1, RunExtended
    <2>4. All' = file' /\ All' = All \o Run(start + sent, k)
      BY <1>a, <2>1, <2>3
    <2>5. /\ \A i \in 1..Len(All') : All'[i] <= start + sent + k
          /\ \A i \in 1..(Len(All') - 1) : All'[i] < All'[i + 1]
          /\ \A b \in (start + sent + 1)..(start + sent + k) : \E p \in 1..Len(All') : All'[p] = b
      BY <1>1, <1>t, <2>4, HandedOver
    <2>6. FileTypeOK'
      BY <1>1, <1>t, <2>1, <2>3 DEF FileInv, FileTypeOK, Writing
    <2>7. FilePositionInv'
      BY <1>1, <1>c, <2>1 DEF FileInv, FilePositionInv, Writing
    <2>8. BoundInv'
      <3>1. Handed' = start + sent + k
        BY <1>1, <1>t, <2>1 DEF Handed
      <3> QED BY <2>4, <2>5, <3>1 DEF BoundInv
    <2>9. InOrderOnce'
      BY <2>4, <2>5 DEF InOrderOnce, All
    <2>10. ASSUME NEW b, InFile(b) PROVE InFile(b)'
      <3>1. PICK p \in 1..Len(file) : file[p] = b
        BY <2>10 DEF InFile
      <3>2. p \in 1..Len(file') /\ file'[p] = b
        BY <1>t, <2>3, <3>1
      <3> QED BY <3>2 DEF InFile
    <2>11. ChunkInv'
      <3>1. ASSUME ~failed' PROVE ~failed /\ k # 0
        BY <2>2, <3>1, Zenon
      <3>2. ~failed => \A b \in (start + 1)..(start + sent) : InFile(b)
        BY <1>1 DEF FileInv, ChunkInv, Writing
      <3>3. ~failed' => \A b \in (start' + 1)..(start' + sent') : InFile(b)'
        BY <1>1, <2>10, <3>1, <3>2
      <3>4. ~failed' => status' = 0 /\ written' > 0
        BY <1>t, <2>1, <3>1
      <3> QED BY <1>1, <3>3, <3>4 DEF ChunkInv
    <2>12. StatusTells'
      <3>1. ASSUME NEW i \in 1..k PROVE \E p \in DOMAIN file' : file'[p] = start + sent + i
        <4>1. start + sent + i \in (start + sent + 1)..(start + sent + k)
          BY <1>t
        <4>2. \E p \in 1..Len(file') : file'[p] = start + sent + i
          BY <2>4, <2>5, <4>1
        <4>3. DOMAIN file' = 1..Len(file')
          BY <2>3
        <4> QED BY <4>2, <4>3
      <3> QED BY <1>1, <1>t, <2>1, <3>1 DEF StatusTells
    <2> QED BY <1>2, <2>6, <2>7, <2>8, <2>9, <2>11, <2>12 DEF FileInv, FileInOrder
  <1>4. CASE ~ok
    <2>1. written' = 0 /\ status' = StatusOf(e, -1) /\ file' = file
      BY <1>4 DEF FdWrite
    <2>2. failed'
      BY <1>4 DEF FdWrite
    <2>s. StatusOf(e, -1) # 0 /\ StatusOf(e, -1) \in Int
      BY DEF StatusOf, Errnos
    <2>3. FileTypeOK'
      BY <1>1, <2>1, <2>s DEF FileInv, FileTypeOK, Writing
    <2>4. FilePositionInv'
      BY <1>1, <1>c, <2>1 DEF FileInv, FilePositionInv, Writing
    <2>5. All' = All /\ Handed' = Handed
      BY <1>1, <1>t, <2>1 DEF All, Handed
    <2>6. BoundInv'
      BY <2>5 DEF FileInv, BoundInv
    <2>7. InOrderOnce'
      BY <1>1, <2>1 DEF FileInv, FileInOrder, InOrderOnce
    <2>8. ChunkInv'
      BY <1>1, <2>2 DEF ChunkInv
    <2>9. StatusTells'
      BY <2>1, <2>s DEF StatusTells
    <2> QED BY <1>2, <2>3, <2>4, <2>6, <2>7, <2>8, <2>9 DEF FileInv, FileInOrder
  <1> QED BY <1>3, <1>4

\* The loop goes on behind what was written, or gives the buffer up.
LEMMA StepKeepsNextChunk ==
  ASSUME FileAssumption, FileInv, NextChunk
  PROVE  FileInv'
  <1> DEFINE more == sent + written < size /\ status = 0 /\ written > 0
  <1>1. /\ UNCHANGED <<kind, size, taken, status, written, pending, file, buffers, failed>>
        /\ step = "next" /\ sent' = sent + written
        /\ step' = IF more THEN "write" ELSE "idle"
        /\ start' = IF more THEN start ELSE start + size
    BY DEF NextChunk
  <1>t. /\ start \in Nat /\ sent \in Nat /\ written \in Nat /\ size \in Nat
        /\ file \in Seq(Nat) /\ pending \in Seq(Nat)
    BY DEF FileInv, FileTypeOK
  <1>c. sent + written <= size
    <2>1. written <= ChunkLen /\ ChunkLen \in Nat /\ ChunkLen <= size - sent
      BY <1>1, ChunkLength DEF FileInv, FilePositionInv, Writing
    <2> QED BY <1>t, <2>1
  <1>2. ASSUME ~failed
        PROVE  /\ status = 0 /\ written > 0
               /\ \A b \in (start + 1)..(start + sent + written) : InFile(b)
    <2>1. /\ status = 0 /\ written > 0
          /\ \A b \in (start + 1)..(start + sent) : InFile(b)
      BY <1>1, <1>2 DEF FileInv, ChunkInv, Writing
    <2>2. \A i \in 1..written : InFile(start + sent + i)
      <3>1. \A i \in 1..written : \E p \in DOMAIN file : file[p] = start + sent + i
        BY <1>1, <2>1 DEF FileInv, FileInOrder, StatusTells
      <3>2. DOMAIN file = 1..Len(file)
        BY <1>t
      <3> QED BY <3>1, <3>2 DEF InFile
    <2>3. ASSUME NEW b \in (start + 1)..(start + sent + written) PROVE InFile(b)
      <3>1. CASE b <= start + sent
        BY <1>t, <2>1, <3>1
      <3>2. CASE b > start + sent
        <4>1. b - (start + sent) \in 1..written /\ start + sent + (b - (start + sent)) = b
          BY <1>t, <3>2
        <4> QED BY <2>2, <4>1
      <3> QED BY <1>t, <3>1, <3>2
    <2> QED BY <2>1, <2>3
  <1>3. FileTypeOK'
    BY <1>1, <1>t DEF FileInv, FileTypeOK, Writing
  <1>4. FilePositionInv'
    BY <1>1, <1>t DEF FileInv, FilePositionInv, Writing
  <1>5. BoundInv'
    <2>1. All' = All /\ All \in Seq(Nat)
      BY <1>1, <1>t DEF All
    <2>2. Handed \in Nat /\ Handed' \in Nat /\ Handed <= Handed'
      BY <1>1, <1>t, <1>c DEF Handed
    <2>3. \A i \in 1..Len(All) : All[i] \in Nat /\ All[i] <= Handed
      BY <2>1 DEF FileInv, BoundInv
    <2>4. \A i \in 1..Len(All) : All[i] <= Handed'
      BY <2>2, <2>3
    <2> QED BY <2>1, <2>4 DEF BoundInv
  <1>6. InOrderOnce'
    BY <1>1 DEF FileInv, FileInOrder, InOrderOnce
  <1>i. \A b : InFile(b)' <=> InFile(b)
    BY <1>1 DEF InFile
  <1>7. ChunkInv'
    <2>1. ASSUME more, ~failed PROVE \A b \in (start' + 1)..(start' + sent') : InFile(b)'
      <3>1. start' + sent' = start + sent + written /\ start' = start
        BY <1>1, <1>t, <2>1
      <3> QED BY <1>2, <1>i, <2>1, <3>1
    <2>2. step' \in {"write", "idle"} /\ (step' = "write" => more) /\ failed' = failed
      BY <1>1
    <2> QED BY <2>1, <2>2 DEF ChunkInv, Writing
  <1>8. StatusTells'
    BY <1>1 DEF StatusTells
  <1>9. LossOnlyOnFailure'
    <2> SUFFICES ASSUME step' = "idle", ~failed'
                 PROVE  \A b \in (start' - size' + 1)..start' : \E p \in DOMAIN file' : file'[p] = b
      BY DEF LossOnlyOnFailure
    <2>1. ~failed
      BY <1>1
    <2>2. ~more /\ start' = start + size /\ sent + written = size
      BY <1>1, <1>2, <1>c, <1>t, <2>1
    <2>3. \A b \in (start + 1)..(start + size) : InFile(b)
      BY <1>2, <1>t, <2>1, <2>2
    <2>4. start' - size' + 1 = start + 1
      BY <1>1, <1>t, <2>2
    <2>5. DOMAIN file = 1..Len(file) /\ file' = file
      BY <1>1, <1>t
    <2> QED BY <2>2, <2>3, <2>4, <2>5 DEF InFile
  <1> QED BY <1>3, <1>4, <1>5, <1>6, <1>7, <1>8, <1>9 DEF FileInv, FileInOrder

\* fclose: what the stream cannot pass on is lost at its end.
LEMMA StepKeepsCloseFp ==
  ASSUME FileAssumption, FileInv, NEW j \in Nat, NEW ok \in BOOLEAN, NEW e \in Errnos,
         CloseFp(j, ok, e)
  PROVE  FileInv'
  <1>1. /\ UNCHANGED <<kind, start, size, sent, taken, written, buffers>>
        /\ step = "idle" /\ step' = "done" /\ j <= Len(pending)
        /\ file' = file \o SubSeq(pending, 1, j) /\ pending' = <<>>
    BY DEF CloseFp
  <1>t. file \in Seq(Nat) /\ pending \in Seq(Nat) /\ j \in 0..Len(pending)
    BY <1>1 DEF FileInv, FileTypeOK
  <1> DEFINE rest == SubSeq(pending, j + 1, Len(pending))
  <1>2. file' \in Seq(Nat) /\ rest \in Seq(Nat) /\ file' \o rest = All
    BY <1>1, <1>t, PassOn DEF All
  <1> HIDE DEF rest
  <1>3. All' = file' /\ Handed' = Handed
    BY <1>1, <1>2 DEF All, Handed
  <1>4. Len(file') <= Len(All) /\ \A i \in 1..Len(file') : file'[i] = All[i]
    <2>1. /\ Len(file' \o rest) = Len(file') + Len(rest)
          /\ \A i \in 1..Len(file') : (file' \o rest)[i] = file'[i]
      BY <1>2, RunExtended
    <2>2. Len(file') \in Nat /\ Len(rest) \in Nat
      BY <1>2
    <2> QED BY <1>2, <2>1, <2>2
  <1>l. Len(file') \in Nat /\ Len(All) \in Nat
    BY <1>t, <1>2 DEF All
  <1>5. FileTypeOK'
    <2>1. status' \in Int
      BY DEF CloseFp, StatusOf, EIO, Errnos
    <2> QED BY <1>1, <1>2, <2>1 DEF FileInv, FileTypeOK
  <1>6. FilePositionInv'
    BY <1>1 DEF FilePositionInv, Writing
  <1>7. BoundInv'
    <2>1. \A i \in 1..Len(All) : All[i] <= Handed
      BY DEF FileInv, BoundInv
    <2>2. \A i \in 1..Len(file') : file'[i] <= Handed
      BY <1>4, <1>l, <2>1
    <2> QED BY <1>3, <2>2 DEF BoundInv
  <1>8. InOrderOnce'
    <2>1. \A i \in 1..(Len(All) - 1) : All[i] < All[i + 1]
      BY DEF FileInv, FileInOrder, InOrderOnce, All
    <2>2. ASSUME NEW i \in 1..(Len(file') - 1) PROVE file'[i] < file'[i + 1]
      <3>1. i \in 1..Len(file') /\ i + 1 \in 1..Len(file') /\ i \in 1..(Len(All) - 1)
        BY <1>4, <1>l
      <3> QED BY <1>4, <2>1, <3>1
    <2> QED BY <1>3, <2>2 DEF InOrderOnce, All
  <1>9. ChunkInv' /\ StatusTells' /\ LossOnlyOnFailure'
    BY <1>1 DEF ChunkInv, StatusTells, LossOnlyOnFailure, Writing
  <1> QED BY <1>5, <1>6, <1>7, <1>8, <1>9 DEF FileInv, FileInOrder

\* The close of a descriptor, and a stream left to its owner, write nothing.
LEMMA StepKeepsLeaving ==
  ASSUME FileInv, NEW ok \in BOOLEAN, NEW e \in Errnos, CloseFd(ok, e) \/ LeaveFp
  PROVE  FileInv'
  <1>1. /\ UNCHANGED <<kind, start, size, sent, taken, written, pending, file, buffers, failed>>
        /\ step = "idle" /\ step' = "done" /\ status' \in Int
    BY DEF FileInv, FileTypeOK, CloseFd, LeaveFp, Errnos, StatusOf
  <1>2. FileTypeOK'
    BY <1>1 DEF FileInv, FileTypeOK
  <1>3. FilePositionInv'
    BY <1>1 DEF FileInv, FilePositionInv, Writing
  <1>4. BoundInv'
    BY <1>1 DEF FileInv, BoundInv, All, Handed
  <1>5. InOrderOnce'
    BY <1>1 DEF FileInv, FileInOrder, InOrderOnce
  <1>6. ChunkInv' /\ StatusTells' /\ LossOnlyOnFailure'
    BY <1>1 DEF ChunkInv, StatusTells, LossOnlyOnFailure, Writing
  <1> QED BY <1>2, <1>3, <1>4, <1>5, <1>6 DEF FileInv, FileInOrder

\* The invariant is inductive.
LEMMA FileInvHolds ==
  ASSUME FileAssumption
  PROVE  FileInv /\ [FileNext]_fileVars => FileInv'
  <1> SUFFICES ASSUME FileInv, [FileNext]_fileVars PROVE FileInv'
    OBVIOUS
  <1>n. 0..(FileChunk + FileCapacity * MaxFileBuffers) \subseteq Nat /\ 0..(FileCapacity * MaxFileBuffers) \subseteq Nat
    OBVIOUS
  <1>0. CASE UNCHANGED fileVars
    BY <1>0 DEF fileVars, FileInv, FileTypeOK, FilePositionInv, BoundInv, ChunkInv, FileInOrder, InOrderOnce,
                StatusTells, LossOnlyOnFailure, All, Handed, InFile, ChunkLen
  <1>1. CASE FromFp
    BY <1>1, StepKeepsOpening
  <1>2. ASSUME NEW o \in {"ok", "open", "alloc"}, InitFile(o) PROVE FileInv'
    BY <1>2, StepKeepsOpening
  <1>3. ASSUME NEW n \in 1..FileCapacity, WriteFile(n) PROVE FileInv'
    BY <1>3, StepKeepsWriteOutput
  <1>4. ASSUME NEW k \in 0..FileChunk, NEW j \in 0..(FileChunk + FileCapacity * MaxFileBuffers), Fwrite(k, j)
        PROVE  FileInv'
    BY <1>4, <1>n, StepKeepsFwrite
  <1>5. ASSUME NEW j \in 0..(FileCapacity * MaxFileBuffers), NEW ok \in BOOLEAN, NEW e \in Errnos,
               Fflush(j, ok, e)
        PROVE  FileInv'
    BY <1>5, <1>n, StepKeepsFflush
  <1>6. ASSUME NEW k \in 0..FileChunk, NEW ok \in BOOLEAN, NEW e \in Errnos, FdWrite(k, ok, e)
        PROVE  FileInv'
    BY <1>6, StepKeepsFdWrite
  <1>7. CASE NextChunk
    BY <1>7, StepKeepsNextChunk
  <1>8. ASSUME NEW j \in 0..(FileCapacity * MaxFileBuffers), NEW ok \in BOOLEAN, NEW e \in Errnos,
               CloseFp(j, ok, e)
        PROVE  FileInv'
    BY <1>8, <1>n, StepKeepsCloseFp
  <1>9. ASSUME NEW ok \in BOOLEAN, NEW e \in Errnos, CloseFd(ok, e) PROVE FileInv'
    BY <1>9, StepKeepsLeaving
  <1>10. CASE LeaveFp
    <2>1. TRUE \in BOOLEAN /\ 0 \in Errnos
      BY DEF Errnos
    <2> QED BY <1>10, <2>1, StepKeepsLeaving
  <1> QED BY <1>0, <1>1, <1>2, <1>3, <1>4, <1>5, <1>6, <1>7, <1>8, <1>9, <1>10 DEF FileNext

-----------------------------------------------------------------------------
(* The theorems.                                                           *)

(***************************************************************************)
(* The bytes of the log reach the file in order and none twice, a write    *)
(* that returns 0 has put its bytes into the file, and a buffer loses      *)
(* bytes only when a call of the system failed or took nothing: for any    *)
(* split of the buffers into short writes, any point at which a stream     *)
(* passes bytes on, and any failure of fwrite, fflush, write or close.     *)
(***************************************************************************)
THEOREM BytesReachTheFile ==
  ASSUME FileAssumption
  PROVE  FileSpec => []FileInOrder
  <1>1. FileInv => FileInOrder
    BY DEF FileInv
  <1> QED BY <1>1, FileStarts, FileInvHolds, PTL DEF FileSpec

(***************************************************************************)
(* An owned stream or descriptor is not left open and the state of a       *)
(* descriptor not left allocated, whatever open, that allocation or close  *)
(* did.                                                                    *)
(***************************************************************************)
THEOREM DescriptorsClosed ==
  FileSpec => []NoDescriptorLeft
  <1>1. FileInit => DescriptorInv
    BY DEF FileInit, DescriptorInv, NoDescriptorLeft
  <1>2. ASSUME DescriptorInv, [FileNext]_fileVars PROVE DescriptorInv'
    <2>0. CASE UNCHANGED fileVars
      BY <1>2, <2>0 DEF fileVars, DescriptorInv, NoDescriptorLeft
    <2>1. CASE FromFp
      BY <1>2, <2>1 DEF FromFp, DescriptorInv, NoDescriptorLeft
    <2>2. ASSUME NEW o \in {"ok", "open", "alloc"}, InitFile(o) PROVE DescriptorInv'
      BY <1>2, <2>2 DEF InitFile, DescriptorInv, NoDescriptorLeft
    <2>3. ASSUME NEW n \in 1..FileCapacity, WriteFile(n) PROVE DescriptorInv'
      BY <1>2, <2>3 DEF WriteFile, DescriptorInv, NoDescriptorLeft
    <2>4. ASSUME NEW k, NEW j, Fwrite(k, j) PROVE DescriptorInv'
      BY <1>2, <2>4 DEF Fwrite, DescriptorInv, NoDescriptorLeft
    <2>5. ASSUME NEW j, NEW ok, NEW e, Fflush(j, ok, e) PROVE DescriptorInv'
      BY <1>2, <2>5 DEF Fflush, DescriptorInv, NoDescriptorLeft
    <2>6. ASSUME NEW k, NEW ok, NEW e, FdWrite(k, ok, e) PROVE DescriptorInv'
      BY <1>2, <2>6 DEF FdWrite, DescriptorInv, NoDescriptorLeft
    <2>7. CASE NextChunk
      BY <1>2, <2>7 DEF NextChunk, DescriptorInv, NoDescriptorLeft
    <2>8. ASSUME NEW j, NEW ok, NEW e, CloseFp(j, ok, e) PROVE DescriptorInv'
      BY <1>2, <2>8 DEF CloseFp, DescriptorInv, NoDescriptorLeft
    <2>9. ASSUME NEW ok, NEW e, CloseFd(ok, e) PROVE DescriptorInv'
      BY <1>2, <2>9 DEF CloseFd, DescriptorInv, NoDescriptorLeft
    <2>10. CASE LeaveFp
      <3>1. step' = "done" /\ kind' = "fp" /\ ~owned'
        BY <2>10, Zenon DEF LeaveFp
      <3>2. fd' = "open" /\ state' = "none"
        BY <1>2, <2>10 DEF LeaveFp, DescriptorInv
      <3> QED BY <3>1, <3>2, Zenon DEF DescriptorInv, NoDescriptorLeft
    <2> QED BY <1>2, <2>0, <2>1, <2>2, <2>3, <2>4, <2>5, <2>6, <2>7, <2>8, <2>9, <2>10 DEF FileNext
  <1>3. DescriptorInv => NoDescriptorLeft
    BY DEF DescriptorInv
  <1> QED BY <1>1, <1>2, <1>3, PTL DEF FileSpec
-----------------------------------------------------------------------------
(* Who closes what (PslogConstruct).                                       *)

(***************************************************************************)
(* Closing an output, by pslog_output_destroy or pslog_release_shared,     *)
(* closes each of its owned streams once more and no other stream.         *)
(***************************************************************************)
LEMMA CloseCounts ==
  ASSUME ConstructTypeOK, NEW o \in SUBSET Streams, CloseOutput(o)
  PROVE  /\ closes' \in [Streams -> Nat]
         /\ closes'["std"] = closes["std"]
         /\ closes'["base"] = closes["base"] + (IF "base" \in o /\ seedOwned THEN 1 ELSE 0)
         /\ closes'["file"] = closes["file"] + (IF "file" \in o THEN 1 ELSE 0)
  <1> USE DEF ConstructTypeOK, CloseOutput, OwnedOf, Streams
  <1>1. \A s \in Streams : closes[s] \in Nat
    OBVIOUS
  <1>2. closes' \in [Streams -> Nat]
    BY <1>1
  <1>3. closes'["std"] = closes["std"]
    BY <1>1
  <1>4. closes'["base"] = closes["base"] + (IF "base" \in o /\ seedOwned THEN 1 ELSE 0)
    BY <1>1
  <1>5. closes'["file"] = closes["file"] + (IF "file" \in o THEN 1 ELSE 0)
    BY <1>1
  <1> QED BY <1>2, <1>3, <1>4, <1>5

(***************************************************************************)
(* pslog_new_from_env takes the output LOG_OUTPUT selects: the replaced    *)
(* output of the configuration is closed if it is owned, and nothing else. *)
(***************************************************************************)
LEMMA AdoptCounts ==
  ASSUME ConstructTypeOK, closes = [s \in Streams |-> 0],
         NEW o \in {{"base"}, {"std"}, {"file"}, {"std", "file"}, {"base", "file"}}, Adopt(o)
  PROVE  /\ output' = o
         /\ closes' \in [Streams -> Nat]
         /\ closes'["base"] = IF seedOwned /\ "base" \notin o THEN 1 ELSE 0
         /\ closes'["file"] = 0 /\ closes'["std"] = 0
  <1>1. closes["base"] = 0 /\ closes["file"] = 0 /\ closes["std"] = 0
    BY DEF Streams
  <1>2. CASE "base" \in o
    BY <1>1, <1>2 DEF Adopt, ConstructTypeOK
  <1>3. CASE "base" \notin o
    <2>1. output' = o /\ CloseOutput({"base"})
      BY <1>3 DEF Adopt
    <2>2. {"base"} \in SUBSET Streams
      BY DEF Streams
    <2> QED BY <1>1, <1>3, <2>1, <2>2, CloseCounts
  <1> QED BY <1>2, <1>3

(***************************************************************************)
(* A step that ends with pslog_new still to be called keeps the invariant  *)
(* if it leaves every owned stream closed once or in the output.           *)
(***************************************************************************)
LEMMA ReadyForNew ==
  ASSUME ConstructTypeOK', OutputInv', cpc' = "new"
  PROVE  ConstructInv'
  <1>1. EnvInv' /\ AllClosedOnce' /\ FallbackReported'
    BY DEF EnvInv, AllClosedOnce, FallbackReported
  <1>2. InUseIsOpen'
    BY DEF InUseIsOpen, OutputInv, ConstructTypeOK
  <1>3. ClosedAtMostOnce'
    BY DEF OutputInv, ClosedAtMostOnce, Streams
  <1> QED BY <1>1, <1>2, <1>3 DEF ConstructInv, OwnedClosedOnce

(***************************************************************************)
(* Following LOG_OUTPUT: every value, and every failure to open its file   *)
(* or to tee it.                                                           *)
(***************************************************************************)
LEMMA FollowEnvStep ==
  ASSUME ConstructInv,
         EnvStream \/ EnvOpen \/ EnvOpenFails \/ EnvTee \/ EnvTeeFails
  PROVE  ConstructInv'
  <1> USE DEF inputs
  <1>1. ConstructTypeOK /\ EnvInv
    BY DEF ConstructInv
  <1>2. closes["base"] = 0 /\ closes["file"] = 0 /\ closes["std"] = 0
        /\ closes = [s \in Streams |-> 0] /\ output = {"base"} /\ outputErr = FALSE
        /\ told = {} /\ fromEnv /\ variable # "unset" /\ (opened <=> cpc = "tee")
        /\ (cpc = "tee" => variable \in {"std+path", "default+path"})
        /\ cpc \in {"env", "tee"}
    BY <1>1 DEF EnvInv, EnvStream, EnvOpen, EnvOpenFails, EnvTee, EnvTeeFails, Streams
  <1>3. CASE EnvStream
    <2> DEFINE o == IF variable = "default" THEN {"base"} ELSE {"std"}
    <2>1. o \in {{"base"}, {"std"}, {"file"}, {"std", "file"}, {"base", "file"}} /\ Adopt(o)
      BY <1>3 DEF EnvStream
    <2>2. /\ output' = o /\ closes' \in [Streams -> Nat]
          /\ closes'["base"] = IF seedOwned /\ "base" \notin o THEN 1 ELSE 0
          /\ closes'["file"] = 0 /\ closes'["std"] = 0
      BY <1>1, <1>2, <2>1, AdoptCounts
    <2>3. ConstructTypeOK' /\ cpc' = "new"
      BY <1>1, <1>3, <2>2 DEF ConstructTypeOK, EnvStream
    <2>4. OutputInv'
      BY <1>2, <1>3, <2>2 DEF OutputInv, EnvStream
    <2> QED BY <2>3, <2>4, ReadyForNew
  <1>4. CASE EnvOpen /\ variable = "path"
    <2>1. Adopt({"file"}) /\ cpc' = "new" /\ opened'
      BY <1>4 DEF EnvOpen
    <2>2. /\ output' = {"file"} /\ closes' \in [Streams -> Nat]
          /\ closes'["base"] = IF seedOwned THEN 1 ELSE 0
          /\ closes'["file"] = 0 /\ closes'["std"] = 0
      BY <1>1, <1>2, <2>1, AdoptCounts
    <2>3. ConstructTypeOK'
      BY <1>1, <1>4, <2>1, <2>2 DEF ConstructTypeOK, EnvOpen
    <2>4. OutputInv'
      BY <1>2, <1>4, <2>1, <2>2 DEF OutputInv, EnvOpen
    <2> QED BY <2>1, <2>3, <2>4, ReadyForNew
  <1>5. CASE EnvOpen /\ variable # "path"
    <2>1. /\ cpc' = "tee" /\ opened' = TRUE /\ variable \in {"std+path", "default+path"}
          /\ UNCHANGED <<inputs, output, closes, outputErr, told>>
      BY <1>5 DEF EnvOpen
    <2>2. ConstructTypeOK' /\ EnvInv' /\ OutputInv'
      BY <1>1, <1>2, <2>1 DEF ConstructTypeOK, EnvInv, OutputInv
    <2>3. InUseIsOpen' /\ AllClosedOnce' /\ FallbackReported'
      BY <2>1 DEF InUseIsOpen, AllClosedOnce, FallbackReported
    <2>4. ClosedAtMostOnce'
      BY <1>2, <2>1 DEF ClosedAtMostOnce, Streams
    <2> QED BY <2>2, <2>3, <2>4 DEF ConstructInv, OwnedClosedOnce
  <1>6. CASE EnvOpenFails
    <2>1. /\ cpc = "env" /\ cpc' = "new" /\ outputErr' = TRUE
          /\ variable \in {"path", "std+path", "default+path"}
          /\ UNCHANGED <<inputs, output, opened, closes, told>>
      BY <1>6 DEF EnvOpenFails
    <2>2. ConstructTypeOK' /\ OutputInv'
      BY <1>1, <1>2, <2>1 DEF ConstructTypeOK, OutputInv
    <2> QED BY <2>1, <2>2, ReadyForNew
  <1>7. CASE EnvTee
    <2> DEFINE o == IF variable = "std+path" THEN {"std", "file"} ELSE {"base", "file"}
    <2>1. o \in {{"base"}, {"std"}, {"file"}, {"std", "file"}, {"base", "file"}} /\ Adopt(o)
      BY <1>7 DEF EnvTee
    <2>2. /\ output' = o /\ closes' \in [Streams -> Nat]
          /\ closes'["base"] = IF seedOwned /\ "base" \notin o THEN 1 ELSE 0
          /\ closes'["file"] = 0 /\ closes'["std"] = 0
      BY <1>1, <1>2, <2>1, AdoptCounts
    <2>3. ConstructTypeOK' /\ cpc' = "new"
      BY <1>1, <1>7, <2>2 DEF ConstructTypeOK, EnvTee
    <2>4. OutputInv'
      BY <1>2, <1>7, <2>2 DEF OutputInv, EnvTee
    <2> QED BY <2>3, <2>4, ReadyForNew
  <1>8. CASE EnvTeeFails
    <2>1. /\ CloseOutput({"file"}) /\ cpc = "tee" /\ cpc' = "new" /\ outputErr' = TRUE
          /\ UNCHANGED <<inputs, output, opened, told>>
      BY <1>8 DEF EnvTeeFails
    <2>2. {"file"} \in SUBSET Streams
      BY DEF Streams
    <2>3. /\ closes' \in [Streams -> Nat] /\ closes'["base"] = 0
          /\ closes'["file"] = 1 /\ closes'["std"] = 0
      BY <1>1, <1>2, <2>1, <2>2, CloseCounts
    <2>4. ConstructTypeOK'
      BY <1>1, <2>1, <2>3 DEF ConstructTypeOK
    <2>5. OutputInv'
      BY <1>2, <2>1, <2>3 DEF OutputInv
    <2> QED BY <2>1, <2>4, <2>5, ReadyForNew
  <1> QED BY <1>3, <1>4, <1>5, <1>6, <1>7, <1>8

(***************************************************************************)
(* The output of a logger is closed, by LoggerDestroy or because pslog_new *)
(* failed after it took the output: every owned stream is closed once.     *)
(***************************************************************************)
LEMMA ReleaseOutput ==
  ASSUME ConstructInv, cpc \in {"new", "report", "live"}, CloseOutput(output)
  PROVE  /\ closes' \in [Streams -> Nat]
         /\ closes'["base"] = IF seedOwned THEN 1 ELSE 0
         /\ closes'["file"] = IF opened THEN 1 ELSE 0
         /\ closes'["std"] = 0
  <1>1. ConstructTypeOK /\ OutputInv
    BY DEF ConstructInv
  <1>2. output \in SUBSET Streams
    BY <1>1 DEF ConstructTypeOK, Streams
  <1>3. /\ closes' \in [Streams -> Nat]
        /\ closes'["std"] = closes["std"]
        /\ closes'["base"] = closes["base"] + (IF "base" \in output /\ seedOwned THEN 1 ELSE 0)
        /\ closes'["file"] = closes["file"] + (IF "file" \in output THEN 1 ELSE 0)
    BY <1>1, <1>2, CloseCounts
  <1> QED BY <1>1, <1>3 DEF OutputInv

\* pslog_new, the diagnostics and the destruction of the logger.
LEMMA NewStep ==
  ASSUME ConstructInv,
         NewFailsEarly \/ NewFailsLate \/ NewSucceeds \/ Report \/ LoggerDestroy
  PROVE  ConstructInv'
  <1> USE DEF inputs
  <1>1. ConstructTypeOK /\ OutputInv /\ InUseIsOpen /\ ClosedAtMostOnce
        /\ cpc \in {"new", "report", "live"}
    BY DEF ConstructInv, OwnedClosedOnce, NewFailsEarly, NewFailsLate, NewSucceeds, Report,
           LoggerDestroy
  <1>2. CASE NewFailsEarly
    <2>1. cpc' = "early" /\ UNCHANGED <<inputs, output, opened, outputErr, closes, told>>
      BY <1>2 DEF NewFailsEarly
    <2>2. ConstructTypeOK' /\ EnvInv' /\ OutputInv'
      BY <1>1, <2>1 DEF ConstructTypeOK, EnvInv, OutputInv
    <2>3. InUseIsOpen' /\ AllClosedOnce' /\ FallbackReported'
      BY <1>1, <1>2, <2>1 DEF InUseIsOpen, AllClosedOnce, FallbackReported, OutputInv, NewFailsEarly
    <2>4. ClosedAtMostOnce'
      BY <1>1, <2>1 DEF ClosedAtMostOnce
    <2> QED BY <2>2, <2>3, <2>4 DEF ConstructInv, OwnedClosedOnce
  <1>3. CASE NewFailsLate \/ LoggerDestroy
    <2>1. /\ CloseOutput(output) /\ cpc' \in {"late", "destroyed"}
          /\ UNCHANGED <<inputs, output, opened, outputErr, told>>
      BY <1>3 DEF NewFailsLate, LoggerDestroy
    <2>2. /\ closes' \in [Streams -> Nat]
          /\ closes'["base"] = IF seedOwned THEN 1 ELSE 0
          /\ closes'["file"] = IF opened THEN 1 ELSE 0
          /\ closes'["std"] = 0
      BY <1>1, <2>1, ReleaseOutput
    <2>3. ConstructTypeOK' /\ EnvInv' /\ OutputInv'
      BY <1>1, <2>1, <2>2 DEF ConstructTypeOK, EnvInv, OutputInv
    <2>4. InUseIsOpen' /\ AllClosedOnce' /\ FallbackReported'
      BY <2>1, <2>2 DEF InUseIsOpen, AllClosedOnce, FallbackReported
    <2>5. ClosedAtMostOnce'
      BY <2>2 DEF ClosedAtMostOnce, Streams
    <2> QED BY <2>3, <2>4, <2>5 DEF ConstructInv, OwnedClosedOnce
  <1>4. CASE NewSucceeds
    <2>1. /\ cpc = "new" /\ cpc' = IF fromEnv THEN "report" ELSE "live"
          /\ UNCHANGED <<inputs, output, opened, outputErr, closes, told>>
      BY <1>4 DEF NewSucceeds
    <2>2. ConstructTypeOK' /\ EnvInv'
      BY <1>1, <2>1 DEF ConstructTypeOK, EnvInv
    <2>3. OutputInv'
      BY <1>1, <2>1 DEF OutputInv
    <2>4. InUseIsOpen' /\ AllClosedOnce' /\ ClosedAtMostOnce'
      BY <1>1, <2>1 DEF InUseIsOpen, AllClosedOnce, ClosedAtMostOnce
    <2>5. FallbackReported'
      BY <1>1, <2>1 DEF FallbackReported, OutputInv
    <2> QED BY <2>2, <2>3, <2>4, <2>5 DEF ConstructInv, OwnedClosedOnce
  <1>5. CASE Report
    <2>1. /\ cpc = "report" /\ cpc' = "live"
          /\ "open.failed" \in told' <=> outputErr
          /\ UNCHANGED <<inputs, output, opened, outputErr, closes>>
      BY <1>5 DEF Report
    <2>2. ConstructTypeOK' /\ EnvInv'
      BY <1>1, <2>1 DEF ConstructTypeOK, EnvInv
    <2>3. OutputInv'
      BY <1>1, <2>1 DEF OutputInv
    <2>4. InUseIsOpen' /\ AllClosedOnce' /\ ClosedAtMostOnce'
      BY <1>1, <2>1 DEF InUseIsOpen, AllClosedOnce, ClosedAtMostOnce
    <2>5. FallbackReported'
      BY <1>1, <2>1 DEF FallbackReported, OutputInv
    <2> QED BY <2>2, <2>3, <2>4, <2>5 DEF ConstructInv, OwnedClosedOnce
  <1> QED BY <1>2, <1>3, <1>4, <1>5

\* Before LOG_OUTPUT is read nothing has been opened or closed.
LEMMA StartStep ==
  ASSUME ConstructInv, Start
  PROVE  ConstructInv'
  <1> USE DEF inputs
  <1>1. /\ cpc = "start" /\ cpc' = IF fromEnv /\ variable # "unset" THEN "env" ELSE "new"
        /\ UNCHANGED <<inputs, output, opened, outputErr, closes, told>>
    BY DEF Start
  <1>2. /\ ConstructTypeOK /\ output = {"base"} /\ outputErr = FALSE /\ told = {}
        /\ closes = [s \in Streams |-> 0] /\ opened = FALSE
    BY <1>1 DEF ConstructInv, EnvInv, ConstructTypeOK
  <1>3. closes["base"] = 0 /\ closes["file"] = 0 /\ closes["std"] = 0
    BY <1>2 DEF Streams
  <1>4. ConstructTypeOK'
    BY <1>1, <1>2 DEF ConstructTypeOK
  <1>5. CASE cpc' = "new"
    <2>1. OutputInv'
      BY <1>1, <1>2, <1>3, <1>5 DEF OutputInv
    <2> QED BY <1>4, <1>5, <2>1, ReadyForNew
  <1>6. CASE cpc' = "env"
    <2>1. EnvInv' /\ OutputInv'
      BY <1>1, <1>2, <1>6 DEF EnvInv, OutputInv
    <2>2. InUseIsOpen' /\ AllClosedOnce' /\ FallbackReported'
      BY <1>6 DEF InUseIsOpen, AllClosedOnce, FallbackReported
    <2>3. ClosedAtMostOnce'
      BY <1>1, <1>3 DEF ClosedAtMostOnce, Streams
    <2> QED BY <1>4, <2>1, <2>2, <2>3 DEF ConstructInv, OwnedClosedOnce
  <1> QED BY <1>1, <1>5, <1>6

(***************************************************************************)
(* The Lua binding destroys the output of its configuration after a failed *)
(* construction: the one step after which a stream may be closed twice,    *)
(* and no step of a caller in C.                                           *)
(***************************************************************************)
LEMMA LuaNewFailsStep ==
  ASSUME ConstructInv, LuaNewFails
  PROVE  ConstructInv'
  <1> USE DEF inputs
  <1>1. /\ CloseOutput({"base"}) /\ caller = "lua" /\ cpc' = "failed"
        /\ UNCHANGED <<inputs, output, opened, outputErr, told>>
    BY DEF LuaNewFails
  <1>2. ConstructTypeOK /\ {"base"} \in SUBSET Streams
    BY DEF ConstructInv, Streams
  <1>3. /\ closes' \in [Streams -> Nat]
        /\ closes'["std"] = closes["std"]
        /\ closes'["base"] = closes["base"] + (IF seedOwned THEN 1 ELSE 0)
        /\ closes'["file"] = closes["file"]
    <2> DEFINE o == {"base"}
    <2>1. /\ closes' \in [Streams -> Nat]
          /\ closes'["std"] = closes["std"]
          /\ closes'["base"] = closes["base"] + (IF "base" \in o /\ seedOwned THEN 1 ELSE 0)
          /\ closes'["file"] = closes["file"] + (IF "file" \in o THEN 1 ELSE 0)
      BY <1>1, <1>2, CloseCounts
    <2>2. seedOwned \in BOOLEAN /\ closes["file"] \in Nat
      BY <1>2 DEF ConstructTypeOK, Streams
    <2> QED BY <2>1, <2>2
  <1>4. ConstructTypeOK' /\ EnvInv' /\ OutputInv'
    BY <1>1, <1>2, <1>3 DEF ConstructTypeOK, EnvInv, OutputInv
  <1>5. InUseIsOpen' /\ FallbackReported'
    BY <1>1 DEF InUseIsOpen, FallbackReported
  <1>6. AllClosedOnce
    BY DEF ConstructInv, OwnedClosedOnce
  <1>7. /\ closes["std"] = 0 /\ closes["file"] \in {0, 1}
        /\ closes["base"] \in {0, 1} /\ (~seedOwned => closes["base"] = 0)
    BY <1>6 DEF LuaNewFails, AllClosedOnce
  <1>8. AllClosedOnce'
    BY <1>1, <1>3, <1>7 DEF AllClosedOnce
  <1> QED BY <1>1, <1>4, <1>5, <1>8 DEF ConstructInv, OwnedClosedOnce

\* The constructors begin with nothing opened, closed or reported.
LEMMA ConstructBegins == ConstructInit => ConstructInv
  <1> SUFFICES ASSUME ConstructInit PROVE ConstructInv
    OBVIOUS
  <1>1. closes = [s \in Streams |-> 0] /\ cpc = "start" /\ output = {"base"}
    BY DEF ConstructInit
  <1>2. ConstructTypeOK
    BY DEF ConstructInit, ConstructTypeOK
  <1>3. EnvInv /\ OutputInv
    BY DEF ConstructInit, EnvInv, OutputInv
  <1>4. InUseIsOpen /\ AllClosedOnce /\ FallbackReported
    BY <1>1 DEF InUseIsOpen, AllClosedOnce, FallbackReported
  <1>5. ClosedAtMostOnce
    BY <1>1 DEF ClosedAtMostOnce
  <1> QED BY <1>2, <1>3, <1>4, <1>5 DEF ConstructInv, OwnedClosedOnce

(***************************************************************************)
(* pslog_new and pslog_new_from_env, whatever LOG_OUTPUT says and whatever *)
(* fails: the output of a live logger is open; every owned or opened       *)
(* stream has been closed exactly once when the logger is destroyed or     *)
(* pslog_new fails with its shared state made; if it fails before, exactly *)
(* the streams no longer in the output have been closed, and a file of     *)
(* LOG_OUTPUT in it is left open; falling back to the output of the        *)
(* configuration is reported; and for a caller in C no stream is closed    *)
(* twice.                                                                  *)
(***************************************************************************)
THEOREM OutputsOwned == ConstructSpec => []OwnedClosedOnce
  <1>1. ConstructInv /\ [ConstructNext]_constructVars => ConstructInv'
    <2> SUFFICES ASSUME ConstructInv, [ConstructNext]_constructVars
                 PROVE  ConstructInv'
      OBVIOUS
    <2>1. CASE UNCHANGED constructVars
      BY <2>1 DEF constructVars, inputs, ConstructInv, ConstructTypeOK, EnvInv, OutputInv,
                  OwnedClosedOnce, InUseIsOpen, AllClosedOnce, FallbackReported,
                  ClosedAtMostOnce
    <2> QED BY <2>1, StartStep, FollowEnvStep, NewStep, LuaNewFailsStep DEF ConstructNext
  <1>2. ConstructInv => OwnedClosedOnce
    BY DEF ConstructInv
  <1> QED BY <1>1, <1>2, ConstructBegins, PTL DEF ConstructSpec
=============================================================================
