---------------------------- MODULE PslogCacheProofs ----------------------------
(***************************************************************************)
(* Proofs about the caches that the loggers of a tree share. The layouts   *)
(* of kvfmt texts (PslogKvfmtCache): for any number of threads, any texts  *)
(* at any addresses, and any size, probe count and hash function. The      *)
(* rendered timestamps and numbers (PslogRenderCache): for any number of   *)
(* threads, any clock and any assignment of numbers to entries.            *)
(***************************************************************************)
EXTENDS PslogKvfmtCache, PslogRenderCache, WellFoundedInduction, TLAPS

-----------------------------------------------------------------------------
(* The layouts of kvfmt texts.                                             *)

\* A step of thread t.
Step(t) ==
  \/ \E a \in Addresses, f \in Texts : Call(t, a, f)
  \/ LockState(t) \/ ResolvePtr(t) \/ ResolveHit(t) \/ ResolveLocal(t)
  \/ \E copied \in BOOLEAN : ResolveTake(t, copied)
  \/ Parse(t) \/ UnlockState(t) \/ Fail(t) \/ Use(t)

(***************************************************************************)
(* Every probe is a slot of the table.                                     *)
(***************************************************************************)
LEMMA AtSlot ==
  ASSUME KvfmtAssumption, NEW f \in Texts, NEW p \in 0..Probe - 1
  PROVE  At(f, p) \in Slots
  <1>1. Size \in Nat \ {0} /\ Home(f) \in Nat /\ p \in Nat
    BY DEF KvfmtAssumption
  <1>2. Home(f) + p \in Nat
    BY <1>1
  <1>3. \A n \in Nat : n % Size \in 0..Size - 1
    BY <1>1
  <1> QED BY <1>2, <1>3 DEF At, Slots

(***************************************************************************)
(* The search stops at a probe it is looking for, if there is one.         *)
(***************************************************************************)
LEMMA FirstIn ==
  ASSUME KvfmtAssumption, NEW ps, ps \subseteq 0..Probe - 1, ps # {}
  PROVE  First(ps) \in ps
  <1>1. Probe \in Nat /\ ps \subseteq Nat
    BY DEF KvfmtAssumption
  <1>2. IsWellFoundedOn(OpToRel(<, Nat), Nat)
    BY NatLessThanWellFounded
  <1>3. \E p \in ps : \A q \in ps : ~(<<q, p>> \in OpToRel(<, Nat))
    BY <1>1, <1>2, WFMin
  <1>4. \A p, q \in Nat : q < p => <<q, p>> \in OpToRel(<, Nat)
    BY Zenon DEF OpToRel
  <1>5. \E p \in ps : \A q \in ps : ~(q < p)
    BY <1>1, <1>3, <1>4
  <1>6. \E p \in ps : \A q \in ps : p <= q
    BY <1>1, <1>5
  <1> QED BY <1>6 DEF First

(***************************************************************************)
(* The slots a resolution may select.                                      *)
(***************************************************************************)
LEMMA HitSlot ==
  ASSUME KvfmtAssumption, NEW f \in Texts, Hits(f) # {}
  PROVE  /\ At(f, First(Hits(f))) \in Slots
         /\ cache[At(f, First(Hits(f)))].kvfmt = f
  <1>1. First(Hits(f)) \in Hits(f)
    BY FirstIn DEF Hits
  <1> QED BY <1>1, AtSlot DEF Hits

\* The free slot that is chosen is a slot of the window, and empty.
LEMMA FreeSlot ==
  ASSUME KvfmtAssumption, NEW f \in Texts, Free(f) # {}
  PROVE  /\ At(f, First(Free(f))) \in Slots
         /\ cache[At(f, First(Free(f)))].kvfmt = None
         /\ First(Free(f)) \in 0..Probe - 1
  <1>1. First(Free(f)) \in Free(f)
    BY FirstIn DEF Free
  <1> QED BY <1>1, AtSlot DEF Free

(***************************************************************************)
(* The pointer cache keeps its type.                                       *)
(***************************************************************************)
LEMMA RememberType ==
  ASSUME TypeOK, NEW t \in Threads, input[t] \in Addresses, NEW s \in Slots, Remember(t, s)
  PROVE  ptrs' \in [PtrSlots -> PtrEntry] \cup {None}
  <1>1. [input |-> input[t], entry |-> s] \in PtrEntry
    BY DEF PtrEntry
  <1> QED BY <1>1 DEF Remember, TypeOK

(***************************************************************************)
(* An entry of which one field is assigned.                                *)
(***************************************************************************)
LEMMA SetField ==
  ASSUME NEW e, NEW f, NEW b, e = [kvfmt |-> f, layout |-> b], NEW x
  PROVE  /\ [e EXCEPT !.kvfmt = x] = [kvfmt |-> x, layout |-> b]
         /\ [e EXCEPT !.layout = x] = [kvfmt |-> f, layout |-> x]
         /\ e.kvfmt = f /\ e.layout = b
  OBVIOUS

(***************************************************************************)
(* What the two steps that write to the table write there: the first takes *)
(* an empty entry for the text, the second completes it or gives it back.  *)
(***************************************************************************)
LEMMA TakeEffect ==
  ASSUME KvfmtAssumption, TableInv, NEW t \in Threads, ResolveTake(t, TRUE)
  PROVE  \E s \in Slots, p \in 0..Probe - 1 :
           /\ s = At(text[t], p) /\ cache[s] = Empty /\ entry'[t] = s
           /\ cache' = [cache EXCEPT ![s] = [kvfmt |-> text[t], layout |-> None]]
  <1> DEFINE p == First(Free(text[t]))
             s == At(text[t], p)
  <1>1. TypeOK /\ pc[t] = "resolve" /\ text[t] \in Texts /\ None \notin Texts
    BY DEF TableInv, ResolveTake, CallInv, KvfmtAssumption
  <1>2. s \in Slots /\ p \in 0..Probe - 1 /\ cache[s].kvfmt = None
    BY <1>1, FreeSlot DEF ResolveTake
  <1>3. cache' = [cache EXCEPT ![s].kvfmt = text[t]] /\ entry' = [entry EXCEPT ![t] = s]
    BY DEF ResolveTake
  <1> HIDE DEF p
  <1>4. s = At(text[t], p)
    OBVIOUS
  <1> HIDE DEF s
  <1>5. cache[s] = Empty
    <2>1. ASSUME NEW u \in Threads, pc[u] = "parse", entry[u] = s PROVE FALSE
      <3>1. cache[s] = [kvfmt |-> text[u], layout |-> None]
        BY <2>1 DEF TableInv, EntryInv
      <3>2. text[u] \in Texts
        BY <2>1 DEF TableInv, CallInv
      <3> QED BY <1>1, <1>2, <3>1, <3>2
    <2> QED BY <1>1, <1>2, <2>1 DEF TableInv, EntryInv
  <1>6. [cache[s] EXCEPT !.kvfmt = text[t]] = [kvfmt |-> text[t], layout |-> None]
    BY <1>5, SetField DEF Empty
  <1>7. cache' = [cache EXCEPT ![s] = [kvfmt |-> text[t], layout |-> None]]
    BY <1>1, <1>2, <1>3, <1>6 DEF TypeOK
  <1>8. entry'[t] = s
    BY <1>1, <1>3 DEF TypeOK
  <1> QED BY <1>2, <1>4, <1>5, <1>7, <1>8

\* The parser fills its entry, or empties it again if the format is malformed.
LEMMA ParseEffect ==
  ASSUME KvfmtAssumption, TableInv, NEW t \in Threads, Parse(t)
  PROVE  /\ entry[t] \in Slots
         /\ cache[entry[t]] = [kvfmt |-> text[t], layout |-> None]
         /\ text[t] \in Malformed => cache' = [cache EXCEPT ![entry[t]] = Empty]
         /\ text[t] \notin Malformed =>
              cache' = [cache EXCEPT ![entry[t]] = [kvfmt |-> text[t], layout |-> text[t]]]
  <1>1. entry[t] \in Slots /\ cache[entry[t]] = [kvfmt |-> text[t], layout |-> None]
    BY DEF Parse, TableInv, EntryInv
  <1>2. [cache[entry[t]] EXCEPT !.layout = text[t]] = [kvfmt |-> text[t], layout |-> text[t]]
    BY <1>1, SetField
  <1> QED BY <1>1, <1>2 DEF Parse, TableInv, TypeOK

\* A step keeps the types, the mutex and what is known of each call.
LEMMA TypeStep ==
  ASSUME KvfmtAssumption, TableInv, NEW t \in Threads, Step(t)
  PROVE  TypeOK' /\ MutexInv' /\ CallInv'
  <1> DEFINE P == TypeOK' /\ MutexInv' /\ CallInv'
  <1>0. /\ TypeOK /\ NoThread \notin Threads /\ Empty \in Entry
        /\ \A f, b \in Texts \cup {None} : [kvfmt |-> f, layout |-> b] \in Entry
        /\ pc[t] # "idle" => input[t] \in Addresses /\ text[t] \in Texts
    BY DEF TableInv, KvfmtAssumption, Entry, Empty, CallInv
  <1>a. pc \in [Threads -> PC] /\ MutexInv /\ CallInv
    BY DEF TableInv, TypeOK
  <1> USE DEF PC, Inside, Goto
  <1>1. ASSUME NEW a \in Addresses, NEW f \in Texts, Call(t, a, f) PROVE P
    BY <1>0, <1>a, <1>1 DEF Call, TypeOK, MutexInv, CallInv
  <1>2. CASE LockState(t)
    BY <1>0, <1>a, <1>2 DEF LockState, TypeOK, MutexInv, CallInv
  <1>3. CASE ResolvePtr(t)
    <2>1. ptrs # None /\ ptrs \in [PtrSlots -> PtrEntry]
      BY <1>0, <1>3 DEF ResolvePtr, PtrHit, TypeOK
    <2>2. ptrs[PtrSlot(input[t])].entry \in Slots \cup {None}
      BY <1>0, <1>3, <2>1 DEF ResolvePtr, KvfmtAssumption, PtrEntry
    <2> QED BY <1>0, <1>a, <1>3, <2>2 DEF ResolvePtr, TypeOK, MutexInv, CallInv
  <1>4. CASE ResolveHit(t)
    <2>1. At(text[t], First(Hits(text[t]))) \in Slots
      BY <1>0, <1>4, HitSlot DEF ResolveHit
    <2>2. ptrs' \in [PtrSlots -> PtrEntry] \cup {None}
      BY <1>0, <1>4, <2>1, RememberType DEF ResolveHit
    <2> QED BY <1>0, <1>a, <1>4, <2>1, <2>2 DEF ResolveHit, TypeOK, MutexInv, CallInv
  <1>5. CASE ResolveLocal(t)
    BY <1>0, <1>a, <1>5 DEF ResolveLocal, TypeOK, MutexInv, CallInv
  <1>6. ASSUME NEW copied \in BOOLEAN, ResolveTake(t, copied) PROVE P
    <2>1. cache' \in [Slots -> Entry] /\ entry' \in [Threads -> Slots \cup {Local, None}]
      <3>1. CASE copied
        <4>1. PICK s \in Slots :
                /\ cache' = [cache EXCEPT ![s] = [kvfmt |-> text[t], layout |-> None]]
                /\ entry'[t] = s
          BY <1>6, <3>1, TakeEffect
        <4>2. At(text[t], First(Free(text[t]))) \in Slots
          BY <1>0, <1>6, FreeSlot DEF ResolveTake
        <4> QED BY <1>0, <1>6, <4>1, <4>2 DEF ResolveTake, TypeOK
      <3>2. CASE ~copied
        BY <1>0, <1>6, <3>2 DEF ResolveTake, TypeOK
      <3> QED BY <3>1, <3>2
    <2> QED BY <1>0, <1>a, <1>6, <2>1 DEF ResolveTake, TypeOK, MutexInv, CallInv
  <1>7. CASE Parse(t)
    <2>1. entry[t] \in Slots /\ input[t] \in Addresses
      BY <1>0, <1>7 DEF Parse, TableInv, EntryInv
    <2>2. cache' \in [Slots -> Entry]
      <3>1. cache \in [Slots -> Entry] /\ text[t] \in Texts
        BY <1>0, <1>7 DEF Parse, TypeOK
      <3>2. [kvfmt |-> text[t], layout |-> text[t]] \in Entry
        BY <1>0, <3>1
      <3>3. CASE text[t] \in Malformed
        BY <1>0, <1>7, <2>1, <3>1, <3>3, ParseEffect
      <3>4. CASE text[t] \notin Malformed
        BY <1>7, <2>1, <3>1, <3>2, <3>4, ParseEffect, ZenonT(60)
      <3> QED BY <3>3, <3>4
    <2>3. ptrs' \in [PtrSlots -> PtrEntry] \cup {None}
      BY <1>0, <1>7, <2>1, RememberType DEF Parse, TypeOK
    <2> QED BY <1>0, <1>a, <1>7, <2>2, <2>3 DEF Parse, TypeOK, MutexInv, CallInv
  <1>8. CASE UnlockState(t)
    BY <1>0, <1>a, <1>8 DEF UnlockState, TypeOK, MutexInv, CallInv
  <1>9. CASE Fail(t)
    BY <1>0, <1>a, <1>9 DEF Fail, Return, TypeOK, MutexInv, CallInv
  <1>10. CASE Use(t)
    BY <1>0, <1>a, <1>10 DEF Use, Return, TypeOK, MutexInv, CallInv
  <1> QED BY <1>1, <1>2, <1>3, <1>4, <1>5, <1>6, <1>7, <1>8, <1>9, <1>10 DEF Step

(***************************************************************************)
(* The state mutex is the thread's own while it is inside.                 *)
(***************************************************************************)
LEMMA OneInside ==
  ASSUME TableInv, NEW t \in Threads, NEW u \in Threads,
         pc[t] \in Inside, pc[u] \in Inside
  PROVE  u = t
  BY DEF TableInv, MutexInv

(***************************************************************************)
(* An entry found under the mutex is complete: a thread that still parses  *)
(* one has the mutex itself.                                               *)
(***************************************************************************)
LEMMA FoundReady ==
  ASSUME KvfmtAssumption, TableInv, NEW t \in Threads, pc[t] = "resolve",
         NEW s \in Slots, cache[s].kvfmt = text[t]
  PROVE  cache[s] = [kvfmt |-> text[t], layout |-> text[t]]
  <1>1. text[t] \in Texts /\ None \notin Texts
    BY DEF TableInv, CallInv, KvfmtAssumption
  <1>2. cache[s] # Empty
    BY <1>1 DEF Empty
  <1>3. ASSUME NEW u \in Threads, pc[u] = "parse" PROVE FALSE
    BY <1>3, OneInside DEF Inside
  <1>4. cache[s].layout = text[t]
    BY <1>2, <1>3 DEF TableInv, EntryInv
  <1>5. cache[s] \in Entry
    BY DEF TableInv, TypeOK
  <1> QED BY <1>4, <1>5 DEF Entry

(***************************************************************************)
(* What a step that leaves the table alone has to keep.                    *)
(***************************************************************************)
LEMMA EntryKept ==
  ASSUME TableInv, NEW t \in Threads,
         UNCHANGED cache, pc[t] # "parse", pc'[t] # "parse",
         pc'[t] \in {"unlock", "use"} =>
           \/ entry'[t] = Local
           \/ /\ entry'[t] \in Slots
              /\ cache[entry'[t]] = [kvfmt |-> text'[t], layout |-> text'[t]],
         \A u \in Threads \ {t} :
           pc'[u] = pc[u] /\ entry'[u] = entry[u] /\ text'[u] = text[u]
  PROVE  EntryInv'
  <1>1. EntryInv
    BY DEF TableInv
  <1>2. ASSUME NEW u \in Threads, pc'[u] = "parse"
        PROVE  entry'[u] \in Slots /\ cache'[entry'[u]] = [kvfmt |-> text'[u], layout |-> None]
    <2>1. u # t /\ pc[u] = "parse" /\ entry'[u] = entry[u] /\ text'[u] = text[u]
      BY <1>2
    <2> QED BY <1>1, <2>1 DEF EntryInv
  <1>3. ASSUME NEW u \in Threads, pc'[u] \in {"unlock", "use"}
        PROVE  \/ entry'[u] = Local
               \/ /\ entry'[u] \in Slots
                  /\ cache'[entry'[u]] = [kvfmt |-> text'[u], layout |-> text'[u]]
    <2>1. CASE u = t
      BY <1>3, <2>1
    <2>2. CASE u # t
      <3>1. pc[u] = pc'[u] /\ entry'[u] = entry[u] /\ text'[u] = text[u]
        BY <2>2
      <3> QED BY <1>1, <1>3, <3>1 DEF EntryInv
    <2> QED BY <2>1, <2>2
  <1>4. ASSUME NEW s \in Slots
        PROVE  \/ cache'[s] = Empty
               \/ cache'[s].kvfmt \in Texts /\ cache'[s].layout = cache'[s].kvfmt
               \/ \E u \in Threads : pc'[u] = "parse" /\ entry'[u] = s
    <2>1. ASSUME NEW u \in Threads, pc[u] = "parse", entry[u] = s
          PROVE  pc'[u] = "parse" /\ entry'[u] = s
      BY <2>1
    <2> QED BY <1>1, <2>1 DEF EntryInv
  <1> QED BY <1>2, <1>3, <1>4 DEF EntryInv, Slots, Empty

(***************************************************************************)
(* The two steps that write to the table.                                  *)
(***************************************************************************)
LEMMA EntryTake ==
  ASSUME KvfmtAssumption, TableInv, NEW t \in Threads, ResolveTake(t, TRUE)
  PROVE  EntryInv'
  <1>1. PICK s \in Slots :
          /\ cache[s] = Empty /\ entry'[t] = s
          /\ cache' = [cache EXCEPT ![s] = [kvfmt |-> text[t], layout |-> None]]
    BY TakeEffect
  <1>2. /\ EntryInv /\ CallInv /\ cache \in [Slots -> Entry] /\ None \notin Texts
        /\ pc[t] = "resolve" /\ text' = text /\ pc'[t] = "parse" /\ text[t] \in Texts
        /\ \A u \in Threads \ {t} : pc'[u] = pc[u] /\ entry'[u] = entry[u]
    BY DEF ResolveTake, Goto, TableInv, TypeOK, CallInv, KvfmtAssumption
  <1>3. cache'[s] = [kvfmt |-> text[t], layout |-> None]
    BY <1>1, <1>2
  <1>4. \A r \in Slots \ {s} : cache'[r] = cache[r]
    BY <1>1, <1>2
  <1>5. ASSUME NEW u \in Threads, pc'[u] = "parse"
        PROVE  entry'[u] \in Slots /\ cache'[entry'[u]] = [kvfmt |-> text'[u], layout |-> None]
    <2>1. CASE u = t
      BY <1>1, <1>2, <1>3, <2>1
    <2>2. CASE u # t
      <3>1. pc[u] = "parse"
        BY <1>2, <1>5, <2>2
      <3> QED BY <1>2, <2>2, <3>1, OneInside DEF Inside
    <2> QED BY <2>1, <2>2
  <1>6. ASSUME NEW u \in Threads, pc'[u] \in {"unlock", "use"}
        PROVE  \/ entry'[u] = Local
               \/ /\ entry'[u] \in Slots
                  /\ cache'[entry'[u]] = [kvfmt |-> text'[u], layout |-> text'[u]]
    <2>1. u # t /\ pc[u] = pc'[u] /\ entry'[u] = entry[u] /\ text'[u] = text[u]
      BY <1>2, <1>6
    <2>2. text[u] \in Texts
      BY <1>2, <1>6, <2>1 DEF CallInv
    <2>3. CASE entry[u] = Local
      BY <2>1, <2>3
    <2>4. CASE entry[u] # Local
      <3>1. entry[u] \in Slots /\ cache[entry[u]] = [kvfmt |-> text[u], layout |-> text[u]]
        BY <1>2, <1>6, <2>1, <2>4 DEF EntryInv
      <3>2. entry[u] # s
        <4>1. cache[entry[u]].kvfmt # None
          BY <1>2, <2>2, <3>1
        <4>2. cache[s].kvfmt = None
          BY <1>1 DEF Empty
        <4> QED BY <4>1, <4>2
      <3> QED BY <1>4, <2>1, <3>1, <3>2
    <2> QED BY <2>3, <2>4
  <1>7. ASSUME NEW r \in Slots
        PROVE  \/ cache'[r] = Empty
               \/ cache'[r].kvfmt \in Texts /\ cache'[r].layout = cache'[r].kvfmt
               \/ \E u \in Threads : pc'[u] = "parse" /\ entry'[u] = r
    <2>1. CASE r = s
      BY <1>1, <1>2, <2>1
    <2>2. CASE r # s
      <3>1. ASSUME NEW u \in Threads, pc[u] = "parse" PROVE FALSE
        BY <1>2, <3>1, OneInside DEF Inside
      <3> QED BY <1>2, <1>4, <2>2, <3>1 DEF EntryInv
    <2> QED BY <2>1, <2>2
  <1> QED BY <1>5, <1>6, <1>7 DEF EntryInv, Slots, Empty

\* The parser keeps the entries of all calls what they were.
LEMMA EntryParse ==
  ASSUME KvfmtAssumption, TableInv, NEW t \in Threads, Parse(t)
  PROVE  EntryInv'
  <1> DEFINE s == entry[t]
  <1>1. s \in Slots /\ cache[s] = [kvfmt |-> text[t], layout |-> None]
    BY ParseEffect
  <1>2. /\ EntryInv /\ CallInv /\ cache \in [Slots -> Entry] /\ None \notin Texts
        /\ pc[t] = "parse" /\ text' = text /\ text[t] \in Texts
        /\ \A u \in Threads \ {t} : pc'[u] = pc[u] /\ entry'[u] = entry[u]
    BY DEF Parse, Goto, TableInv, TypeOK, CallInv, KvfmtAssumption
  <1>3. text[t] \in Malformed => cache'[s] = Empty /\ pc'[t] = "failed"
    BY <1>1, <1>2, ParseEffect DEF Parse, Goto, TableInv, TypeOK
  <1>4. text[t] \notin Malformed =>
          /\ cache'[s] = [kvfmt |-> text[t], layout |-> text[t]]
          /\ pc'[t] = "unlock" /\ entry'[t] = s
    BY <1>1, <1>2, ParseEffect DEF Parse, Goto, TableInv, TypeOK
  <1>5. \A r \in Slots \ {s} : cache'[r] = cache[r]
    BY <1>1, <1>2, ParseEffect
  <1> HIDE DEF s
  <1>6. ASSUME NEW u \in Threads, pc'[u] = "parse" PROVE FALSE
    <2>1. u # t /\ pc[u] = "parse"
      BY <1>2, <1>3, <1>4, <1>6
    <2> QED BY <1>2, <2>1, OneInside DEF Inside
  <1>7. ASSUME NEW u \in Threads, pc'[u] \in {"unlock", "use"}
        PROVE  \/ entry'[u] = Local
               \/ /\ entry'[u] \in Slots
                  /\ cache'[entry'[u]] = [kvfmt |-> text'[u], layout |-> text'[u]]
    <2>1. CASE u = t
      BY <1>1, <1>2, <1>3, <1>4, <1>7, <2>1
    <2>2. CASE u # t
      <3>1. pc[u] = pc'[u] /\ entry'[u] = entry[u] /\ text'[u] = text[u] /\ text[u] \in Texts
        BY <1>2, <1>7, <2>2 DEF CallInv
      <3>2. CASE entry[u] = Local
        BY <3>1, <3>2
      <3>3. CASE entry[u] # Local
        <4>1. entry[u] \in Slots /\ cache[entry[u]] = [kvfmt |-> text[u], layout |-> text[u]]
          BY <1>2, <1>7, <3>1, <3>3 DEF EntryInv
        <4>2. entry[u] # s
          <5>1. cache[entry[u]].layout # None
            BY <1>2, <3>1, <4>1
          <5>2. cache[s].layout = None
            BY <1>1
          <5> QED BY <5>1, <5>2
        <4> QED BY <1>5, <3>1, <4>1, <4>2
      <3> QED BY <3>2, <3>3
    <2> QED BY <2>1, <2>2
  <1>8. ASSUME NEW r \in Slots
        PROVE  \/ cache'[r] = Empty
               \/ cache'[r].kvfmt \in Texts /\ cache'[r].layout = cache'[r].kvfmt
    <2>1. CASE r = s
      <3>1. CASE text[t] \in Malformed
        BY <1>3, <2>1, <3>1
      <3>2. CASE text[t] \notin Malformed
        BY <1>2, <1>4, <2>1, <3>2
      <3> QED BY <3>1, <3>2
    <2>2. CASE r # s
      <3>1. ASSUME NEW u \in Threads, pc[u] = "parse" PROVE entry[u] = s
        BY <1>2, <3>1, OneInside DEF Inside, s
      <3> QED BY <1>2, <1>5, <2>2, <3>1 DEF EntryInv
    <2> QED BY <2>1, <2>2
  <1> QED BY <1>6, <1>7, <1>8 DEF EntryInv, Slots, Empty

\* A step keeps the entries of all calls what they were.
LEMMA EntryStep ==
  ASSUME KvfmtAssumption, TableInv, NEW t \in Threads, Step(t)
  PROVE  EntryInv'
  <1>0. /\ TypeOK /\ EntryInv /\ pc \in [Threads -> PC] /\ text \in [Threads -> Texts \cup {None}]
        /\ entry \in [Threads -> Slots \cup {Local, None}]
        /\ pc[t] # "idle" => input[t] \in Addresses /\ text[t] \in Texts
    BY DEF TableInv, TypeOK, CallInv
  <1> USE DEF PC, Goto
  <1>1. ASSUME NEW a \in Addresses, NEW f \in Texts, Call(t, a, f) PROVE EntryInv'
    BY <1>0, <1>1, EntryKept DEF Call
  <1>2. CASE LockState(t)
    BY <1>0, <1>2, EntryKept DEF LockState
  <1>3. CASE ResolvePtr(t)
    <2> DEFINE e == ptrs[PtrSlot(input[t])].entry
    <2>1. ptrs # None /\ ptrs \in [PtrSlots -> PtrEntry] /\ e # None /\ cache[e].kvfmt = text[t]
      BY <1>0, <1>3 DEF ResolvePtr, PtrHit, TypeOK
    <2>2. e \in Slots /\ pc[t] = "resolve"
      BY <1>0, <1>3, <2>1 DEF ResolvePtr, KvfmtAssumption, PtrEntry
    <2>3. cache[e] = [kvfmt |-> text[t], layout |-> text[t]]
      BY <2>1, <2>2, FoundReady
    <2>4. entry'[t] = e
      BY <1>0, <1>3 DEF ResolvePtr
    <2> HIDE DEF e
    <2> QED BY <1>0, <1>3, <2>2, <2>3, <2>4, EntryKept DEF ResolvePtr
  <1>4. CASE ResolveHit(t)
    <2> DEFINE e == At(text[t], First(Hits(text[t])))
    <2>1. pc[t] = "resolve" /\ text[t] \in Texts /\ Hits(text[t]) # {}
      BY <1>0, <1>4 DEF ResolveHit
    <2>2. e \in Slots /\ cache[e].kvfmt = text[t]
      BY <2>1, HitSlot
    <2>3. cache[e] = [kvfmt |-> text[t], layout |-> text[t]]
      BY <2>1, <2>2, FoundReady
    <2>4. entry'[t] = e
      BY <1>0, <1>4 DEF ResolveHit
    <2> HIDE DEF e
    <2> QED BY <1>0, <1>4, <2>2, <2>3, <2>4, EntryKept DEF ResolveHit
  <1>5. CASE ResolveLocal(t)
    BY <1>0, <1>5, EntryKept DEF ResolveLocal
  <1>6. ASSUME NEW copied \in BOOLEAN, ResolveTake(t, copied) PROVE EntryInv'
    <2>1. CASE copied
      BY <1>6, <2>1, EntryTake
    <2>2. CASE ~copied
      BY <1>0, <1>6, <2>2, EntryKept DEF ResolveTake
    <2> QED BY <2>1, <2>2
  <1>7. CASE Parse(t)
    BY <1>7, EntryParse
  <1>8. CASE UnlockState(t)
    BY <1>0, <1>8, EntryKept DEF UnlockState, EntryInv
  <1>9. CASE Fail(t)
    BY <1>0, <1>9, EntryKept DEF Fail, Return
  <1>10. CASE Use(t)
    BY <1>0, <1>10, EntryKept DEF Use, Return
  <1> QED BY <1>1, <1>2, <1>3, <1>4, <1>5, <1>6, <1>7, <1>8, <1>9, <1>10 DEF Step

(***************************************************************************)
(* What each step may do to the table: fill an empty entry with a text it  *)
(* has not, at one of the probes of the text, or complete or give back the *)
(* entry it has filled.                                                    *)
(***************************************************************************)
LEMMA TableEffect ==
  ASSUME KvfmtAssumption, TableInv, NEW t \in Threads, Step(t)
  PROVE  \/ UNCHANGED cache
         \/ \E s \in Slots, p \in 0..Probe - 1 :
              /\ s = At(text[t], p) /\ cache[s] = Empty
              /\ text[t] \in Texts /\ Hits(text[t]) = {}
              /\ cache' = [cache EXCEPT ![s] = [kvfmt |-> text[t], layout |-> None]]
         \/ \E s \in Slots :
              /\ cache[s] = [kvfmt |-> text[t], layout |-> None]
              /\ \/ cache' = [cache EXCEPT ![s] = Empty]
                 \/ cache' = [cache EXCEPT ![s] = [kvfmt |-> text[t], layout |-> text[t]]]
  <1>1. ASSUME NEW copied \in BOOLEAN, ResolveTake(t, copied)
        PROVE  \/ UNCHANGED cache
               \/ \E s \in Slots, p \in 0..Probe - 1 :
                    /\ s = At(text[t], p) /\ cache[s] = Empty
                    /\ text[t] \in Texts /\ Hits(text[t]) = {}
                    /\ cache' = [cache EXCEPT ![s] = [kvfmt |-> text[t], layout |-> None]]
    <2>1. CASE copied
      <3>1. text[t] \in Texts /\ Hits(text[t]) = {}
        BY <1>1 DEF ResolveTake, TableInv, CallInv
      <3>2. ResolveTake(t, TRUE)
        BY <1>1, <2>1
      <3> QED BY <3>1, <3>2, TakeEffect
    <2>2. CASE ~copied
      BY <1>1, <2>2 DEF ResolveTake
    <2> QED BY <2>1, <2>2
  <1>2. ASSUME Parse(t)
        PROVE  \E s \in Slots :
                 /\ cache[s] = [kvfmt |-> text[t], layout |-> None]
                 /\ \/ cache' = [cache EXCEPT ![s] = Empty]
                    \/ cache' = [cache EXCEPT ![s] = [kvfmt |-> text[t], layout |-> text[t]]]
    <2>1. entry[t] \in Slots
      BY <1>2, ParseEffect
    <2> QED BY <1>2, <2>1, ParseEffect
  <1>3. CASE \E a \in Addresses, f \in Texts : Call(t, a, f)
    BY <1>3 DEF Call
  <1>4. CASE \/ LockState(t) \/ ResolvePtr(t) \/ ResolveHit(t) \/ ResolveLocal(t)
             \/ UnlockState(t) \/ Fail(t) \/ Use(t)
    BY <1>4 DEF LockState, ResolvePtr, ResolveHit, ResolveLocal, UnlockState, Fail, Use
  <1> QED BY <1>1, <1>2, <1>3, <1>4 DEF Step

(***************************************************************************)
(* A text stays within its window, and since the window has been searched  *)
(* under the mutex before an entry is taken, it is in one entry only.      *)
(***************************************************************************)
LEMMA PlaceStep ==
  ASSUME KvfmtAssumption, TableInv, NEW t \in Threads, Step(t)
  PROVE  WindowInv' /\ NoDuplicates'
  <1>0. WindowInv /\ NoDuplicates /\ cache \in [Slots -> Entry]
    BY DEF TableInv, TypeOK
  <1>1. CASE UNCHANGED cache
    BY <1>0, <1>1 DEF WindowInv, NoDuplicates, Slots, At
  <1>2. ASSUME NEW s \in Slots, NEW p \in 0..Probe - 1,
               s = At(text[t], p), cache[s] = Empty,
               text[t] \in Texts, Hits(text[t]) = {},
               cache' = [cache EXCEPT ![s] = [kvfmt |-> text[t], layout |-> None]]
        PROVE  WindowInv' /\ NoDuplicates'
    <2>1. cache'[s].kvfmt = text[t] /\ \A r \in Slots \ {s} : cache'[r] = cache[r]
      BY <1>0, <1>2
    <2>2. \A r \in Slots : cache[r].kvfmt # text[t]
      <3>1. None \notin Texts
        BY DEF KvfmtAssumption
      <3> QED BY <1>0, <1>2, <3>1 DEF WindowInv, Hits
    <2>3. WindowInv'
      <3>1. ASSUME NEW r \in Slots, cache'[r].kvfmt # None
            PROVE  \E q \in 0..Probe - 1 : r = At(cache'[r].kvfmt, q)
        <4>1. CASE r = s
          BY <1>2, <2>1, <4>1
        <4>2. CASE r # s
          BY <1>0, <2>1, <3>1, <4>2 DEF WindowInv
        <4> QED BY <4>1, <4>2
      <3> QED BY <3>1 DEF WindowInv, Slots, At
    <2>4. NoDuplicates'
      BY <1>0, <2>1, <2>2 DEF NoDuplicates, Slots
    <2> QED BY <2>3, <2>4
  <1>3. ASSUME NEW s \in Slots, cache[s] = [kvfmt |-> text[t], layout |-> None],
               \/ cache' = [cache EXCEPT ![s] = Empty]
               \/ cache' = [cache EXCEPT ![s] = [kvfmt |-> text[t], layout |-> text[t]]]
        PROVE  WindowInv' /\ NoDuplicates'
    <2>1. \A r \in Slots \ {s} : cache'[r] = cache[r]
      BY <1>0, <1>3
    <2>2. cache[s].kvfmt = text[t]
      BY <1>3
    <2>3. cache'[s].kvfmt = cache[s].kvfmt \/ cache'[s].kvfmt = None
      <3>1. CASE cache' = [cache EXCEPT ![s] = Empty]
        BY <1>0, <3>1 DEF Empty
      <3>2. CASE cache' = [cache EXCEPT ![s] = [kvfmt |-> text[t], layout |-> text[t]]]
        BY <1>0, <2>2, <3>2
      <3> QED BY <1>3, <3>1, <3>2
    <2>4. \A r \in Slots : cache'[r].kvfmt = cache[r].kvfmt \/ cache'[r].kvfmt = None
      BY <2>1, <2>3
    <2> QED BY <1>0, <2>4 DEF WindowInv, NoDuplicates, Slots, At
  <1> QED BY <1>1, <1>2, <1>3, TableEffect

\* The invariant holds at first.
LEMMA TableInit ==
  ASSUME KvfmtAssumption, Init
  PROVE  TableInv
  <1>1. Empty \in Entry /\ [input |-> None, entry |-> None] \in PtrEntry
    BY DEF Empty, Entry, PtrEntry
  <1>2. TypeOK
    BY <1>1 DEF Init, TypeOK, PC
  <1>3. MutexInv /\ CallInv
    BY DEF Init, MutexInv, CallInv, Inside, KvfmtAssumption
  <1>4. EntryInv
    BY DEF Init, EntryInv
  <1>5. \A s \in Slots : cache[s].kvfmt = None
    BY DEF Init, Empty
  <1>6. WindowInv /\ NoDuplicates
    BY <1>5 DEF WindowInv, NoDuplicates
  <1> QED BY <1>2, <1>3, <1>4, <1>6 DEF TableInv

\* Every step keeps the invariant.
LEMMA TableNext ==
  ASSUME KvfmtAssumption, TableInv, [Next]_vars
  PROVE  TableInv'
  <1>1. ASSUME NEW t \in Threads, Step(t) PROVE TableInv'
    BY <1>1, TypeStep, EntryStep, PlaceStep DEF TableInv
  <1>2. CASE UNCHANGED vars
    BY <1>2 DEF vars, TableInv, TypeOK, MutexInv, CallInv, EntryInv, WindowInv, NoDuplicates,
                Slots, Entry, Empty, PtrEntry, At
  <1> QED BY <1>1, <1>2 DEF Next, Step

\* The invariant holds throughout.
LEMMA TableInvariant ==
  ASSUME KvfmtAssumption
  PROVE  Spec => []TableInv
  <1>1. Init => TableInv
    BY TableInit
  <1>2. TableInv /\ [Next]_vars => TableInv'
    BY TableNext
  <1> QED BY <1>1, <1>2, PTL DEF Spec

(***************************************************************************)
(* pslog_resolve_kvfmt_entry: what a call reads through its entry is the   *)
(* complete layout of its own text, also after it has released the state   *)
(* mutex, and no text is in two entries of the table, whatever the hash    *)
(* function and however many threads first use it at once; no pointer of   *)
(* the pointer cache leads to an entry on a stack.                         *)
(***************************************************************************)
THEOREM CallsReadTheirLayout ==
  ASSUME KvfmtAssumption
  PROVE  Spec => []LayoutOfCall
  <1>1. TableInv => LayoutOfCall
    BY DEF TableInv, EntryInv, EntryOfCall, LayoutOfCall
  <1> QED BY <1>1, TableInvariant, PTL

(***************************************************************************)
(* A parsed layout is never changed, moved or evicted: a call may read its *)
(* entry with no mutex held.                                               *)
(***************************************************************************)
THEOREM LayoutsStay ==
  ASSUME KvfmtAssumption
  PROVE  Spec => EntriesStable
  <1>1. ASSUME TableInv, [Next]_vars
        PROVE  [\A s \in Slots : cache[s].layout # None => cache'[s] = cache[s]]_vars
    <2>1. ASSUME NEW t \in Threads, Step(t), NEW s \in Slots, cache[s].layout # None
          PROVE  cache'[s] = cache[s]
      <3>1. cache \in [Slots -> Entry]
        BY <1>1 DEF TableInv, TypeOK
      <3>2. ASSUME NEW r \in Slots, cache[r].layout = None, NEW x,
                   cache' = [cache EXCEPT ![r] = x]
            PROVE  cache'[s] = cache[s]
        BY <2>1, <3>1, <3>2
      <3>3. \A r \in Slots : cache[r] = Empty => cache[r].layout = None
        BY DEF Empty
      <3>4. \A r \in Slots :
              cache[r] = [kvfmt |-> text[t], layout |-> None] => cache[r].layout = None
        OBVIOUS
      <3> QED BY <1>1, <2>1, <3>2, <3>3, <3>4, TableEffect
    <2> QED BY <1>1, <2>1 DEF Next, Step
  <1> QED BY <1>1, TableInvariant, PTL DEF Spec, EntriesStable

-----------------------------------------------------------------------------
(* The rendered timestamps and numbers.                                    *)

\* A step of thread t.
LineStep(t) ==
  \/ \E s \in Seconds, v \in Values : Emit(t, s, v)
  \/ LockOutput(t) \/ Lock(t)
  \/ \E fits \in BOOLEAN : LookUp(t, fits) \/ Store(t, fits)
  \/ \E ok \in BOOLEAN : Render(t, ok)
  \/ \E fits \in BOOLEAN : AppendStamp(t, fits) \/ AppendNumber(t, fits)
  \/ LookUpNumber(t) \/ Format(t) \/ StoreNumber(t)
  \/ EmitReturn(t)

(***************************************************************************)
(* A stamp found in the cache under the state mutex, for the second of the *)
(* call, is the stamp of the call.                                         *)
(***************************************************************************)
LEMMA CachedIsOwn ==
  ASSUME RenderInv, NEW t \in Threads, cached # None, second = now[t]
  PROVE  cached = now[t] /\ cached \in Seconds
  BY DEF RenderInv, RenderTypeOK, CacheInv

(***************************************************************************)
(* The same of a number.                                                   *)
(***************************************************************************)
LEMMA FoundIsOwn ==
  ASSUME RenderAssumption, RenderInv, NEW t \in Threads, value[t] \in Values,
         doubles[DoubleSlot(value[t])] # None, doubles[DoubleSlot(value[t])].bits = value[t]
  PROVE  doubles[DoubleSlot(value[t])].rendered = value[t]
  BY DEF RenderAssumption, RenderInv, CacheInv

\* A step keeps the types.
LEMMA LineTypeStep ==
  ASSUME RenderAssumption, RenderInv, NEW t \in Threads, LineStep(t)
  PROVE  RenderTypeOK'
  <1>0. /\ RenderTypeOK
        /\ at[t] # "idle" => now[t] \in Seconds /\ value[t] \in Values
        /\ at[t] \in {"relock", "store", "append_stamp"} => tmp[t] = now[t]
        /\ at[t] \in {"relock_number", "store_number", "append_number"} => tmp[t] = value[t]
    BY DEF RenderInv, EmitInv, TmpInv
  <1> USE DEF EmitPC, Proceed, caches, line
  <1>1. ASSUME NEW s \in Seconds, NEW v \in Values, Emit(t, s, v) PROVE RenderTypeOK'
    BY <1>0, <1>1 DEF Emit, RenderTypeOK
  <1>2. CASE LockOutput(t)
    BY <1>0, <1>2 DEF LockOutput, RenderTypeOK
  <1>3. CASE Lock(t)
    BY <1>0, <1>3 DEF Lock, LockStateFor, RenderTypeOK
  <1>4. ASSUME NEW fits \in BOOLEAN, LookUp(t, fits) PROVE RenderTypeOK'
    BY <1>0, <1>4 DEF LookUp, UseCached, Stamp, RenderTypeOK
  <1>5. ASSUME NEW fits \in BOOLEAN, Store(t, fits) PROVE RenderTypeOK'
    BY <1>0, <1>5 DEF Store, UseCached, Stamp, RenderTypeOK
  <1>6. ASSUME NEW ok \in BOOLEAN, Render(t, ok) PROVE RenderTypeOK'
    BY <1>0, <1>6 DEF Render, RenderTypeOK
  <1>7. ASSUME NEW fits \in BOOLEAN, AppendStamp(t, fits) PROVE RenderTypeOK'
    BY <1>0, <1>7 DEF AppendStamp, AppendFlush, Stamp, RenderTypeOK
  <1>8. ASSUME NEW fits \in BOOLEAN, AppendNumber(t, fits) PROVE RenderTypeOK'
    BY <1>0, <1>8 DEF AppendNumber, AppendFlush, RenderTypeOK
  <1>9. CASE LookUpNumber(t)
    <2>1. (doubles[DoubleSlot(value[t])] # None /\ doubles[DoubleSlot(value[t])].bits = value[t])
            => doubles[DoubleSlot(value[t])].rendered = value[t]
      BY <1>0, <1>9, FoundIsOwn DEF LookUpNumber
    <2> QED BY <1>0, <1>9, <2>1 DEF LookUpNumber, RenderTypeOK
  <1>10. CASE Format(t)
    BY <1>0, <1>10 DEF Format, RenderTypeOK
  <1>11. CASE StoreNumber(t)
    <2>1. [bits |-> value[t], rendered |-> tmp[t]] \in Double
      BY <1>0, <1>11 DEF StoreNumber, Double
    <2> QED BY <1>0, <1>11, <2>1 DEF StoreNumber, RenderTypeOK
  <1>12. CASE EmitReturn(t)
    BY <1>0, <1>12 DEF EmitReturn, RenderTypeOK
  <1> QED BY <1>1, <1>2, <1>3, <1>4, <1>5, <1>6, <1>7, <1>8, <1>9, <1>10, <1>11, <1>12 DEF LineStep

\* A step keeps the mutexes, what is known of each call and what its line shows.
LEMMA CallStep ==
  ASSUME RenderAssumption, RenderInv, NEW t \in Threads, LineStep(t)
  PROVE  StateMutexInv' /\ EmitInv' /\ TmpInv' /\ OwnSecond' /\ OwnNumber'
  <1> DEFINE P == StateMutexInv' /\ EmitInv' /\ TmpInv' /\ OwnSecond' /\ OwnNumber'
  <1>0. /\ NoThread \notin Threads /\ None \notin Seconds /\ None \notin Values
        /\ RenderTypeOK /\ StateMutexInv /\ EmitInv /\ TmpInv /\ OwnSecond /\ OwnNumber
    BY DEF RenderInv, RenderAssumption
  <1> USE DEF Proceed, caches, line, InState, StateMutexInv, EmitInv, TmpInv, OwnSecond, OwnNumber
  <1>1. ASSUME NEW s \in Seconds, NEW v \in Values, Emit(t, s, v) PROVE P
    BY <1>0, <1>1 DEF Emit, RenderTypeOK
  <1>2. CASE LockOutput(t)
    BY <1>0, <1>2 DEF LockOutput, RenderTypeOK
  <1>3. CASE Lock(t)
    BY <1>0, <1>3 DEF Lock, LockStateFor, RenderTypeOK
  <1>4. ASSUME NEW fits \in BOOLEAN, LookUp(t, fits) PROVE P
    BY <1>0, <1>4, CachedIsOwn DEF LookUp, UseCached, Stamp, RenderTypeOK
  <1>5. ASSUME NEW fits \in BOOLEAN, Store(t, fits) PROVE P
    BY <1>0, <1>5, CachedIsOwn DEF Store, UseCached, Stamp, RenderTypeOK
  <1>6. ASSUME NEW ok \in BOOLEAN, Render(t, ok) PROVE P
    BY <1>0, <1>6 DEF Render, RenderTypeOK
  <1>7. ASSUME NEW fits \in BOOLEAN, AppendStamp(t, fits) PROVE P
    BY <1>0, <1>7 DEF AppendStamp, AppendFlush, Stamp, RenderTypeOK
  <1>8. ASSUME NEW fits \in BOOLEAN, AppendNumber(t, fits) PROVE P
    BY <1>0, <1>8 DEF AppendNumber, AppendFlush, RenderTypeOK
  <1>9. CASE LookUpNumber(t)
    <2>1. (doubles[DoubleSlot(value[t])] # None /\ doubles[DoubleSlot(value[t])].bits = value[t])
            => doubles[DoubleSlot(value[t])].rendered = value[t]
      BY <1>0, <1>9, FoundIsOwn DEF LookUpNumber
    <2> QED BY <1>0, <1>9, <2>1 DEF LookUpNumber, RenderTypeOK
  <1>10. CASE Format(t)
    BY <1>0, <1>10 DEF Format, RenderTypeOK
  <1>11. CASE StoreNumber(t)
    BY <1>0, <1>11 DEF StoreNumber, RenderTypeOK
  <1>12. CASE EmitReturn(t)
    BY <1>0, <1>12 DEF EmitReturn, RenderTypeOK
  <1> QED BY <1>1, <1>2, <1>3, <1>4, <1>5, <1>6, <1>7, <1>8, <1>9, <1>10, <1>11, <1>12 DEF LineStep

\* A step keeps every cached rendering the one of its value.
LEMMA CacheStep ==
  ASSUME RenderAssumption, RenderInv, NEW t \in Threads, LineStep(t)
  PROVE  CacheInv'
  <1>0. RenderTypeOK /\ CacheInv
    BY DEF RenderInv
  <1>1. CASE UNCHANGED caches
    BY <1>0, <1>1 DEF caches, CacheInv
  <1>2. ASSUME NEW fits \in BOOLEAN, Store(t, fits) PROVE CacheInv'
    <2>1. tmp[t] = now[t]
      BY <1>2 DEF Store, RenderInv, TmpInv
    <2> QED BY <1>0, <1>2, <2>1 DEF Store, CacheInv
  <1>3. CASE StoreNumber(t)
    <2> DEFINE d == [bits |-> value[t], rendered |-> tmp[t]]
    <2>1. tmp[t] = value[t]
      BY <1>3 DEF StoreNumber, RenderInv, TmpInv
    <2>2. d.rendered = d.bits
      BY <2>1
    <2>3. doubles' = [doubles EXCEPT ![DoubleSlot(value[t])] = d] /\ UNCHANGED <<second, cached>>
      BY <1>3 DEF StoreNumber
    <2> HIDE DEF d
    <2> QED BY <1>0, <2>2, <2>3 DEF CacheInv, RenderTypeOK
  <1>4. \/ UNCHANGED caches
        \/ \E fits \in BOOLEAN : Store(t, fits)
        \/ StoreNumber(t)
    BY DEF LineStep, Emit, LockOutput, Lock, LockStateFor, LookUp, Render, AppendStamp, AppendNumber,
           LookUpNumber, Format, EmitReturn
  <1> QED BY <1>1, <1>2, <1>3, <1>4

\* The invariant holds at first.
LEMMA RenderBegins ==
  ASSUME RenderAssumption, RenderInit
  PROVE  RenderInv
  BY DEF RenderInit, RenderAssumption, RenderInv, RenderTypeOK, StateMutexInv, EmitInv, CacheInv, TmpInv,
         OwnSecond, OwnNumber, InState, EmitPC

\* The invariant holds throughout.
LEMMA RenderInvariant ==
  ASSUME RenderAssumption
  PROVE  RenderSpec => []RenderInv
  <1>1. RenderInit => RenderInv
    BY RenderBegins
  <1>2. ASSUME RenderInv, [RenderNext]_renderVars PROVE RenderInv'
    <2>1. ASSUME NEW t \in Threads, LineStep(t) PROVE RenderInv'
      BY <1>2, <2>1, LineTypeStep, CallStep, CacheStep DEF RenderInv
    <2>2. CASE UNCHANGED renderVars
      BY <1>2, <2>2 DEF renderVars, RenderInv, RenderTypeOK, StateMutexInv, EmitInv, CacheInv, TmpInv,
                        OwnSecond, OwnNumber
    <2> QED BY <1>2, <2>1, <2>2 DEF RenderNext, LineStep
  <1> QED BY <1>1, <1>2, PTL DEF RenderSpec

(***************************************************************************)
(* pslog_append_timestamp and pslog_buffer_append_double: a line shows the *)
(* second its own call has read and the number it was given, although both *)
(* are rendered with the state mutex released.                             *)
(***************************************************************************)
THEOREM LinesShowTheirValues ==
  ASSUME RenderAssumption
  PROVE  RenderSpec => []OwnValues
  <1>1. RenderInv => OwnValues
    BY DEF RenderInv, OwnValues
  <1> QED BY <1>1, RenderInvariant, PTL

(***************************************************************************)
(* A thread that has the state mutex waits for no mutex: the two mutexes   *)
(* cannot be taken in opposite orders.                                     *)
(***************************************************************************)
THEOREM OutputBeforeState ==
  ASSUME RenderAssumption
  PROVE  RenderSpec => []LockOrder
  <1>1. RenderInv => LockOrder
    BY DEF RenderInv, StateMutexInv, InState, LockOrder, WaitsForState, WaitsForOutput
  <1> QED BY <1>1, RenderInvariant, PTL
=================================================================================
