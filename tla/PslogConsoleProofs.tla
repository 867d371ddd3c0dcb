--------------------------- MODULE PslogConsoleProofs ---------------------------
(***************************************************************************)
(* Proofs about PslogConsole, for any number of threads, fields of a call  *)
(* and log calls, any keys, and any size, probe count and hash function of *)
(* the prefix cache.                                                       *)
(***************************************************************************)
EXTENDS PslogConsole, WellFoundedInduction, TLAPS

\* A step of thread t.
Step(t) ==
  \/ \E f \in Field, n \in 0..MaxFields - 1 :
       \E rest \in [1..n -> Field] : LogCall(t, f, rest)
  \/ \E f \in Field : Derive(t, f)
  \/ DeriveReturn(t)
  \/ BufferLockOutput(t) \/ Cached(t) \/ Buffered(t)
  \/ Flush(t) \/ WriteBuffer(t) \/ Close(t)

(***************************************************************************)
(* The search for a probe ends at one it is looking for, if there is one.  *)
(***************************************************************************)
LEMMA FirstIn ==
  ASSUME NEW ps, ps \subseteq 0..Probe - 1, ps # {}
  PROVE  First(ps) \in ps
  <1>1. Probe \in Nat /\ ps \subseteq Nat
    BY PrefixAssumption
  <1>2. IsWellFoundedOn(OpToRel(<, Nat), Nat)
    BY NatLessThanWellFounded
  <1>3. \E p \in ps : \A q \in ps : ~(<<q, p>> \in OpToRel(<, Nat))
    BY <1>1, <1>2, WFMin
  <1>4. \A p, q \in Nat : q < p => <<q, p>> \in OpToRel(<, Nat)
    BY Zenon DEF OpToRel
  <1>5. \E p \in ps : \A q \in ps : ~(q < p)
    BY <1>1, <1>3, <1>4
  <1>6. \E p \in ps : \A q \in ps : p <= q
    BY <1>1, <1>5
  <1> QED BY <1>6 DEF First

(***************************************************************************)
(* pslog_resolve_console_prefix selects an entry of the table.             *)
(***************************************************************************)
LEMMA SelectedSlot ==
  ASSUME NEW f \in Field
  PROVE  Selected(f) \in Slots
  <1>1. Home(f) \in Slots /\ Size \in Nat \ {0}
    BY HomeAssumption, PrefixAssumption
  <1>2. ASSUME Stops(f) # {} PROVE At(f, First(Stops(f))) \in Slots
    <2>1. First(Stops(f)) \in 0..Probe - 1
      BY <1>2, FirstIn DEF Stops
    <2>2. Home(f) + First(Stops(f)) \in Nat
      BY <1>1, <2>1 DEF Slots
    <2>3. \A n \in Nat : n % Size \in 0..Size - 1
      BY <1>1
    <2> QED BY <2>2, <2>3 DEF At, Slots
  <1> QED BY <1>1, <1>2 DEF Selected

(***************************************************************************)
(* What the steps that write to an entry make of it.                       *)
(***************************************************************************)
LEMMA MissEffect ==
  ASSUME TypeOK, NEW t \in Threads, field[t] \in Field, ResolveMiss(t)
  PROVE  /\ slot'[t] \in Slots /\ cache' \in [Slots -> Entry]
         /\ cache'[slot'[t]].prefix_len = 0
         /\ \A r \in Slots \ {slot'[t]} : cache'[r] = cache[r]
  <1> DEFINE s == Selected(field[t])
  <1>1. s \in Slots
    BY SelectedSlot
  <1>2. slot'[t] = s /\ cache' = [cache EXCEPT ![s].prefix_len = 0]
    BY DEF ResolveMiss, TypeOK
  <1> HIDE DEF s
  <1>3. cache[s] \in Entry /\ [cache[s] EXCEPT !.prefix_len = 0] \in Entry
    BY <1>1, SMTT(30) DEF TypeOK, Entry
  <1>4. cache'[s] = [cache[s] EXCEPT !.prefix_len = 0] /\ cache' \in [Slots -> Entry]
    BY <1>1, <1>2, <1>3 DEF TypeOK
  <1>5. cache'[s].prefix_len = 0
    BY <1>3, <1>4 DEF Entry
  <1> QED BY <1>1, <1>2, <1>4, <1>5 DEF TypeOK

\* FillPrefix puts the prefix of the field into the entry and leaves the others alone.
LEMMA FillPrefixEffect ==
  ASSUME TypeOK, NEW t \in Threads, field[t] \in Field, FillPrefix(t)
  PROVE  /\ cache' \in [Slots -> Entry]
         /\ cache'[slot[t]].prefix = PrefixOf(field[t])
         /\ cache'[slot[t]].prefix_len = cache[slot[t]].prefix_len + KeyLen[field[t].key]
         /\ \A r \in Slots \ {slot[t]} : cache'[r] = cache[r]
  <1> DEFINE s == slot[t]
             n == KeyLen[field[t].key]
             e == [[cache[s] EXCEPT !.prefix = PrefixOf(field[t])] EXCEPT !.prefix_len = @ + n]
  <1>1. s \in Slots /\ cache[s] \in Entry
    BY DEF TypeOK
  <1>2. n \in Nat /\ PrefixOf(field[t]) \in Prefix
    BY PrefixAssumption DEF Field, Prefix, PrefixOf
  <1>3. e \in Entry /\ e.prefix = PrefixOf(field[t]) /\ e.prefix_len = cache[s].prefix_len + n
    <2> HIDE DEF n, s
    <2>1. cache[s].prefix_len \in Nat /\ cache[s].prefix_len + n \in Nat
      BY <1>1, <1>2 DEF Entry
    <2> QED BY <1>1, <1>2, <2>1 DEF Entry
  <1>4. cache' = [cache EXCEPT ![s] = e]
    <2>1. cache' = [cache EXCEPT ![s].prefix = PrefixOf(field[t]), ![s].prefix_len = @ + n]
      BY DEF FillPrefix
    <2> HIDE DEF n, s
    <2> QED BY <1>1, <2>1 DEF TypeOK
  <1> HIDE DEF e
  <1> QED BY <1>1, <1>3, <1>4 DEF TypeOK

\* FillKey puts the type into the entry; prefix and length stay.
LEMMA FillKeyEffect ==
  ASSUME TypeOK, NEW t \in Threads, field[t] \in Field, KeyLen[field[t].key] <= Limit,
         FillKey(t)
  PROVE  /\ cache' \in [Slots -> Entry]
         /\ cache'[slot[t]].type = field[t].type
         /\ cache'[slot[t]].prefix = cache[slot[t]].prefix
         /\ cache'[slot[t]].prefix_len = cache[slot[t]].prefix_len
         /\ \A r \in Slots \ {slot[t]} : cache'[r] = cache[r]
  <1> DEFINE s == slot[t]
             n == KeyLen[field[t].key]
             a == field[t].addr
             y == field[t].type
             e == [[[cache[s] EXCEPT !.addr = a] EXCEPT !.len = n] EXCEPT !.type = y]
  <1>1. s \in Slots /\ cache[s] \in Entry
    BY DEF TypeOK
  <1>2. n \in 0..Limit /\ a \in Addresses /\ y \in Types
    BY PrefixAssumption DEF Field
  <1>3. cache' = [cache EXCEPT ![s].addr = a, ![s].len = n, ![s].type = y]
    BY DEF FillKey
  <1> HIDE DEF n, s, a, y
  <1>4. /\ e \in Entry /\ e.type = y /\ e.prefix = cache[s].prefix
        /\ e.prefix_len = cache[s].prefix_len
    BY <1>1, <1>2 DEF Entry
  <1>5. cache' = [cache EXCEPT ![s] = e]
    BY <1>1, <1>3 DEF TypeOK
  <1> HIDE DEF e
  <1> QED BY <1>1, <1>4, <1>5 DEF TypeOK, s, y

\* FillCopy puts the key into the entry; type, prefix and length stay.
LEMMA FillCopyEffect ==
  ASSUME TypeOK, NEW t \in Threads, field[t] \in Field, FillCopy(t)
  PROVE  /\ cache' \in [Slots -> Entry]
         /\ cache'[slot[t]].copy = field[t].key
         /\ cache'[slot[t]].type = cache[slot[t]].type
         /\ cache'[slot[t]].prefix = cache[slot[t]].prefix
         /\ cache'[slot[t]].prefix_len = cache[slot[t]].prefix_len
         /\ \A r \in Slots \ {slot[t]} : cache'[r] = cache[r]
  <1> DEFINE s == slot[t]
             k == field[t].key
             e == [cache[s] EXCEPT !.copy = k]
  <1>1. s \in Slots /\ cache[s] \in Entry
    BY DEF TypeOK
  <1>2. k \in Keys /\ cache' = [cache EXCEPT ![s].copy = k]
    BY DEF Field, FillCopy
  <1> HIDE DEF s, k
  <1>3. /\ e \in Entry /\ e.copy = k /\ e.type = cache[s].type
        /\ e.prefix = cache[s].prefix /\ e.prefix_len = cache[s].prefix_len
    BY <1>1, <1>2 DEF Entry
  <1>4. cache' = [cache EXCEPT ![s] = e]
    BY <1>1, <1>2 DEF TypeOK
  <1> HIDE DEF e
  <1> QED BY <1>1, <1>3, <1>4 DEF TypeOK, s, k

(***************************************************************************)
(* A call with rest to come has a sequence of fields.                      *)
(***************************************************************************)
LEMMA RestIsSeq ==
  ASSUME NEW n \in 0..MaxFields - 1, NEW rest \in [1..n -> Field]
  PROVE  rest \in Seq(Field)
  <1>1. n \in Nat
    BY ConsoleAssumption
  <1> QED BY <1>1

\* The steps of pslog_append_console_field_cached, one by one.
CachedStep(t) ==
  \/ ResolveHit(t) \/ ResolveTooLong(t) \/ ResolveMiss(t)
  \/ FillPrefix(t) \/ FillKey(t) \/ FillCopy(t) \/ AppendPrefix(t)

\* A step of the cache keeps the types and the fields of the calls.
LEMMA CachedType ==
  ASSUME ConsoleTypeOK, FieldInv, NEW t \in Threads, CachedStep(t), UNCHANGED new
  PROVE  ConsoleTypeOK' /\ FieldInv'
  <1> DEFINE P == ConsoleTypeOK' /\ FieldInv'
  <1>0. /\ TypeOK /\ \A f \in Field : PrefixOf(f) \in Prefix
    BY DEF ConsoleTypeOK, Field, Prefix, PrefixOf
  <1>a. UNCHANGED <<todo, line>> /\ ConsoleTypeOK /\ FieldInv
    BY DEF new
  <1> USE DEF ConsoleTypeOK, FieldInv, Filling, Goto
  <1>1. CASE ResolveHit(t)
    <2>1. field[t] \in Field /\ Selected(field[t]) \in Slots
      BY <1>a, <1>1, SelectedSlot DEF ResolveHit
    <2> QED BY <1>0, <1>a, <1>1, <2>1 DEF ResolveHit, TypeOK
  <1>2. CASE ResolveTooLong(t)
    BY <1>0, <1>a, <1>2 DEF ResolveTooLong, TypeOK
  <1>3. CASE ResolveMiss(t)
    <2>1. field[t] \in Field
      BY <1>a, <1>3 DEF ResolveMiss
    <2>2. slot'[t] \in Slots /\ cache' \in [Slots -> Entry]
      BY <1>0, <1>3, <2>1, MissEffect
    <2> QED BY <1>0, <1>a, <1>3, <2>1, <2>2 DEF ResolveMiss, TypeOK
  <1>4. CASE FillPrefix(t)
    <2>1. field[t] \in Field
      BY <1>a, <1>4 DEF FillPrefix
    <2>2. cache' \in [Slots -> Entry]
      BY <1>0, <1>4, <2>1, FillPrefixEffect
    <2> QED BY <1>0, <1>a, <1>4, <2>1, <2>2 DEF FillPrefix, TypeOK
  <1>5. CASE FillKey(t)
    <2>1. field[t] \in Field /\ KeyLen[field[t].key] <= Limit
      BY <1>a, <1>5 DEF FillKey
    <2>2. cache' \in [Slots -> Entry]
      BY <1>0, <1>5, <2>1, FillKeyEffect
    <2> QED BY <1>0, <1>a, <1>5, <2>1, <2>2 DEF FillKey, TypeOK
  <1>6. CASE FillCopy(t)
    <2>1. field[t] \in Field
      BY <1>a, <1>6 DEF FillCopy
    <2>2. cache' \in [Slots -> Entry]
      BY <1>0, <1>6, <2>1, FillCopyEffect
    <2> QED BY <1>0, <1>a, <1>6, <2>1, <2>2 DEF FillCopy, TypeOK
  <1>7. CASE AppendPrefix(t)
    <2>1. cache[slot[t]] \in Entry
      BY <1>0 DEF TypeOK
    <2>2. Text(cache[slot[t]]) \in Prefix \cup {None}
      BY <2>1 DEF Text, Entry
    <2> QED BY <1>0, <1>a, <1>7, <2>2 DEF AppendPrefix, TypeOK
  <1> QED BY <1>1, <1>2, <1>3, <1>4, <1>5, <1>6, <1>7 DEF CachedStep

\* A step of a thread keeps the types and the fields of the calls.
LEMMA TypeStep ==
  ASSUME ConsoleTypeOK, FieldInv, NEW t \in Threads, Step(t)
  PROVE  ConsoleTypeOK' /\ FieldInv'
  <1> DEFINE P == ConsoleTypeOK' /\ FieldInv'
  <1>0. /\ TypeOK /\ todo \in [Threads -> Seq(Field)]
        /\ line \in [Threads -> Seq(Piece)]
        /\ FieldInv /\ \A f \in Field : PrefixOf(f) \in Prefix
    BY DEF ConsoleTypeOK, Field, Prefix, PrefixOf
  <1> USE DEF ConsoleTypeOK, FieldInv, Filling, Goto
  <1>1. ASSUME NEW f \in Field, NEW n \in 0..MaxFields - 1, NEW rest \in [1..n -> Field],
               LogCall(t, f, rest)
        PROVE  P
    <2>1. rest \in Seq(Field)
      BY RestIsSeq
    <2> QED BY <1>0, <1>1, <2>1 DEF LogCall, Log, Begin, TypeOK
  <1>2. ASSUME NEW f \in Field, Derive(t, f) PROVE P
    BY <1>0, <1>2 DEF Derive, With, Begin, TypeOK
  <1>3. CASE DeriveReturn(t)
    <2>1. 0 \in Slots
      BY PrefixAssumption DEF Slots
    <2> QED BY <1>0, <1>3, <2>1 DEF DeriveReturn, Return, new, TypeOK
  <1>4. CASE BufferLockOutput(t)
    BY <1>0, <1>4 DEF BufferLockOutput, LockOutput, TypeOK
  <1>5. CASE Cached(t)
    BY <1>5, CachedType DEF Cached, CachedStep
  <1>6. CASE Buffered(t)
    <2> DEFINE w == [due |-> PrefixOf(field[t]), is |-> appended[t]]
    <2>1. w \in Piece
      BY <1>0, <1>6 DEF Buffered, TypeOK, Piece
    <2>2. line' = [line EXCEPT ![t] = Append(@, w)]
      BY <1>6 DEF Buffered
    <2> HIDE DEF w
    <2>3. line' \in [Threads -> Seq(Piece)]
      BY <1>0, <2>1, <2>2
    <2>4. CASE todo[t] = <<>>
      BY <1>0, <1>6, <2>3, <2>4 DEF Buffered, TypeOK
    <2>5. CASE todo[t] # <<>>
      <3>1. Head(todo[t]) \in Field /\ Tail(todo[t]) \in Seq(Field)
        BY <1>0, <2>5
      <3>2. todo' \in [Threads -> Seq(Field)]
        BY <1>0, <1>6, <2>5, <3>1 DEF Buffered
      <3>3. /\ field' = [field EXCEPT ![t] = Head(todo[t])] /\ pc' = [pc EXCEPT ![t] = "resolve"]
            /\ appended' = [appended EXCEPT ![t] = None] /\ UNCHANGED <<cache, mutex, op, slot>>
        BY <1>6, <2>5 DEF Buffered
      <3>4. TypeOK'
        BY <1>0, <3>1, <3>3 DEF TypeOK
      <3>5. FieldInv'
        BY <1>0, <3>1, <3>3 DEF TypeOK
      <3> QED BY <2>3, <3>2, <3>4, <3>5
    <2> QED BY <2>4, <2>5
  <1>7. CASE Flush(t)
    <2>1. line' \in [Threads -> Seq(Piece)]
      BY <1>0, <1>7 DEF Flush
    <2> QED BY <1>0, <1>7, <2>1 DEF Flush, TypeOK
  <1>8. CASE WriteBuffer(t)
    <2>1. 0 \in Slots
      BY PrefixAssumption DEF Slots
    <2>2. line' \in [Threads -> Seq(Piece)]
      BY <1>0, <1>8 DEF WriteBuffer
    <2> QED BY <1>0, <1>8, <2>1, <2>2 DEF WriteBuffer, TypeOK
  <1>9. CASE Close(t)
    BY <1>0, <1>9 DEF Close, vars, TypeOK
  <1> QED BY <1>1, <1>2, <1>3, <1>4, <1>5, <1>6, <1>7, <1>8, <1>9 DEF Step

(***************************************************************************)
(* What a step does to the state the exclusion is about.                   *)
(***************************************************************************)
LEMMA AloneStep ==
  ASSUME Exclusive, ConsoleTypeOK, FieldInv, AloneInv, ~closed, NEW t \in Threads, Step(t)
  PROVE  AloneInv'
  <1>0. /\ pc \in [Threads -> {"idle", "lock", "resolve", "fill_prefix", "fill_key",
                               "fill_copy", "append", "return", "write"}]
        /\ op \in [Threads -> {"log", "with", None}] /\ NoThread \notin Threads
    BY PrefixAssumption DEF ConsoleTypeOK, TypeOK
  <1> USE DEF AloneInv, Working, Goto
  <1>1. ASSUME NEW f \in Field, NEW n \in 0..MaxFields - 1, NEW rest \in [1..n -> Field],
               LogCall(t, f, rest)
        PROVE  AloneInv'
    BY <1>0, <1>1 DEF LogCall, Log, Begin
  <1>2. ASSUME NEW f \in Field, Derive(t, f) PROVE AloneInv'
    BY <1>0, <1>2 DEF Derive, With, Begin
  <1>3. CASE DeriveReturn(t)
    BY <1>0, <1>3 DEF DeriveReturn, Return
  <1>4. CASE BufferLockOutput(t)
    <2>1. op[t] = "log"
      BY <1>4 DEF BufferLockOutput, LockOutput, FieldInv
    <2> QED BY <1>0, <1>4, <2>1 DEF BufferLockOutput, LockOutput
  <1>5. CASE Cached(t)
    <2>1. /\ UNCHANGED <<mutex, op>> /\ pc[t] \in Working
          /\ \E l \in Working : pc' = [pc EXCEPT ![t] = l]
      BY <1>5 DEF Cached, ResolveHit, ResolveTooLong, ResolveMiss, FillPrefix, FillKey, FillCopy,
                  AppendPrefix
    <2> QED BY <1>0, <2>1
  <1>6. CASE Buffered(t)
    <2>1. /\ UNCHANGED <<mutex, op>> /\ pc[t] \in Working
          /\ \E l \in Working : pc' = [pc EXCEPT ![t] = l]
      BY <1>6 DEF Buffered
    <2> QED BY <1>0, <2>1
  <1>7. CASE Flush(t)
    <2>1. mutex' = t /\ UNCHANGED <<pc, op>> /\ pc[t] = "return" /\ op[t] = "log"
      BY <1>7 DEF Flush
    <2> QED BY <1>0, <2>1
  <1>8. CASE WriteBuffer(t)
    <2>1. op[t] = "log" /\ pc[t] = "write" /\ mutex = t
      BY <1>8 DEF WriteBuffer, FieldInv
    <2> QED BY <1>0, <1>8, <2>1 DEF WriteBuffer
  <1>9. CASE Close(t)
    BY <1>0, <1>9 DEF Close, vars
  <1> QED BY <1>1, <1>2, <1>3, <1>4, <1>5, <1>6, <1>7, <1>8, <1>9 DEF Step

(***************************************************************************)
(* While the output is open, one thread at most is past the lock.          *)
(***************************************************************************)
LEMMA OneWorking ==
  ASSUME AloneInv, NEW t \in Threads, NEW u \in Threads, pc[t] \in Working, pc[u] \in Working
  PROVE  u = t
  BY DEF AloneInv, Working

(***************************************************************************)
(* The text of an entry that has a prefix of the right length.             *)
(***************************************************************************)
LEMMA TextIs ==
  ASSUME NEW e, NEW f, e.prefix = PrefixOf(f), e.prefix_len = KeyLen[f.key]
  PROVE  Text(e) = PrefixOf(f)
  BY DEF Text, PrefixOf

(***************************************************************************)
(* An entry that is hit is whole, so that it has the prefix of the field.  *)
(***************************************************************************)
LEMMA HitText ==
  ASSUME ConsoleTypeOK, FieldInv, OpenInv, NEW t \in Threads, ResolveHit(t)
  PROVE  Text(cache[slot'[t]]) = PrefixOf(field[t])
  <1> DEFINE s == Selected(field[t])
  <1>1. pc[t] = "resolve" /\ field[t] \in Field /\ Matches(field[t], cache[s]) /\ slot'[t] = s
    BY DEF ResolveHit, FieldInv, ConsoleTypeOK, TypeOK
  <1>2. s \in Slots
    BY <1>1, SelectedSlot
  <1> HIDE DEF s
  <1>3. cache[s] # Empty
    <2>1. field[t].addr # None
      BY <1>1, PrefixAssumption DEF Field
    <2> QED BY <1>1, <2>1 DEF Matches, Empty
  <1>4. ASSUME NEW u \in Threads, pc[u] \in Filling PROVE FALSE
    BY <1>1, <1>4, OneWorking DEF OpenInv, Working, Filling
  <1>5. Text(cache[s]) = [key |-> cache[s].copy, type |-> cache[s].type]
    BY <1>2, <1>3, <1>4 DEF OpenInv, Whole
  <1> QED BY <1>1, <1>5 DEF Matches, PrefixOf

(***************************************************************************)
(* For threads other than the one that takes a step nothing changes: if    *)
(* the step writes to the table, they are not past the lock.               *)
(***************************************************************************)
LEMMA FillKept ==
  ASSUME AloneInv, FillInv, NEW t \in Threads,
         UNCHANGED cache \/ pc[t] \in Working,
         \A u \in Threads \ {t} : /\ pc'[u] = pc[u] /\ field'[u] = field[u]
                                  /\ slot'[u] = slot[u] /\ appended'[u] = appended[u],
         pc'[t] = "fill_prefix" => cache'[slot'[t]].prefix_len = 0,
         pc'[t] \in {"fill_key", "fill_copy"} =>
           /\ cache'[slot'[t]].prefix = PrefixOf(field'[t])
           /\ cache'[slot'[t]].prefix_len = KeyLen[field'[t].key],
         pc'[t] = "fill_copy" => cache'[slot'[t]].type = field'[t].type,
         pc'[t] = "append" => Text(cache'[slot'[t]]) = PrefixOf(field'[t]),
         pc'[t] = "return" => appended'[t] = PrefixOf(field'[t])
  PROVE  FillInv'
  <1>1. ASSUME NEW u \in Threads, u # t, pc'[u] \in Working \ {"resolve", "write"}
        PROVE  UNCHANGED cache
    BY <1>1, OneWorking
  <1>2. ASSUME NEW u \in Threads, u # t
        PROVE  /\ pc'[u] = "fill_prefix" => cache'[slot'[u]].prefix_len = 0
               /\ pc'[u] \in {"fill_key", "fill_copy"} =>
                    /\ cache'[slot'[u]].prefix = PrefixOf(field'[u])
                    /\ cache'[slot'[u]].prefix_len = KeyLen[field'[u].key]
               /\ pc'[u] = "fill_copy" => cache'[slot'[u]].type = field'[u].type
               /\ pc'[u] = "append" => Text(cache'[slot'[u]]) = PrefixOf(field'[u])
               /\ pc'[u] = "return" => appended'[u] = PrefixOf(field'[u])
    BY <1>1, <1>2 DEF FillInv, Working
  <1> QED BY <1>2, ZenonT(60) DEF FillInv, Text, PrefixOf

\* While the output is open, what a thread has filled in stays its own.
LEMMA FillStep ==
  ASSUME ConsoleTypeOK, FieldInv, OpenInv, NEW t \in Threads, Step(t)
  PROVE  FillInv'
  <1>0. /\ TypeOK /\ AloneInv /\ FillInv
        /\ pc[t] \notin {"idle", "write"} => field[t] \in Field
        /\ pc[t] \in Filling => KeyLen[field[t].key] <= Limit
    BY DEF ConsoleTypeOK, OpenInv, FieldInv
  <1>a. /\ pc[t] = "fill_prefix" => cache[slot[t]].prefix_len = 0
        /\ pc[t] \in {"fill_key", "fill_copy"} =>
             /\ cache[slot[t]].prefix = PrefixOf(field[t])
             /\ cache[slot[t]].prefix_len = KeyLen[field[t].key]
        /\ pc[t] = "fill_copy" => cache[slot[t]].type = field[t].type
        /\ pc[t] = "append" => Text(cache[slot[t]]) = PrefixOf(field[t])
        /\ pc[t] = "return" => appended[t] = PrefixOf(field[t])
    BY <1>0 DEF FillInv
  <1> USE DEF Goto, Working, Filling
  <1>1. ASSUME NEW f \in Field, NEW n \in 0..MaxFields - 1, NEW rest \in [1..n -> Field],
               LogCall(t, f, rest)
        PROVE  FillInv'
    BY <1>0, <1>1, FillKept DEF LogCall, Log, Begin, TypeOK
  <1>2. ASSUME NEW f \in Field, Derive(t, f) PROVE FillInv'
    BY <1>0, <1>2, FillKept DEF Derive, With, Begin, TypeOK
  <1>3. CASE DeriveReturn(t)
    BY <1>0, <1>3, FillKept DEF DeriveReturn, Return, TypeOK
  <1>4. CASE BufferLockOutput(t)
    BY <1>0, <1>4, FillKept DEF BufferLockOutput, LockOutput, TypeOK
  <1>5. CASE ResolveHit(t)
    <2>1. Text(cache[slot'[t]]) = PrefixOf(field[t])
      BY <1>5, HitText
    <2> QED BY <1>0, <1>5, <2>1, FillKept DEF ResolveHit, TypeOK
  <1>6. CASE ResolveTooLong(t)
    BY <1>0, <1>6, FillKept DEF ResolveTooLong, TypeOK
  <1>7. CASE ResolveMiss(t)
    <2>1. field[t] \in Field
      BY <1>0, <1>7 DEF ResolveMiss
    <2>2. cache'[slot'[t]].prefix_len = 0
      BY <1>0, <1>7, <2>1, MissEffect
    <2> QED BY <1>0, <1>7, <2>2, FillKept DEF ResolveMiss, TypeOK
  <1>8. CASE FillPrefix(t)
    <2>1. field[t] \in Field /\ pc[t] = "fill_prefix" /\ slot' = slot /\ field' = field
      BY <1>0, <1>8 DEF FillPrefix
    <2>2. /\ cache'[slot[t]].prefix = PrefixOf(field[t])
          /\ cache'[slot[t]].prefix_len = cache[slot[t]].prefix_len + KeyLen[field[t].key]
      BY <1>0, <1>8, <2>1, FillPrefixEffect
    <2>3. KeyLen[field[t].key] \in Nat
      BY <2>1, PrefixAssumption DEF Field
    <2>4. cache'[slot[t]].prefix_len = KeyLen[field[t].key]
      BY <1>a, <2>1, <2>2, <2>3
    <2> QED BY <1>0, <1>8, <2>1, <2>2, <2>4, FillKept DEF FillPrefix, TypeOK
  <1>9. CASE FillKey(t)
    <2>1. /\ field[t] \in Field /\ KeyLen[field[t].key] <= Limit
          /\ pc[t] = "fill_key" /\ slot' = slot /\ field' = field
      BY <1>0, <1>9 DEF FillKey
    <2>2. /\ cache'[slot[t]].type = field[t].type
          /\ cache'[slot[t]].prefix = cache[slot[t]].prefix
          /\ cache'[slot[t]].prefix_len = cache[slot[t]].prefix_len
      BY <1>0, <1>9, <2>1, FillKeyEffect
    <2>3. /\ cache'[slot[t]].prefix = PrefixOf(field[t])
          /\ cache'[slot[t]].prefix_len = KeyLen[field[t].key]
      BY <1>a, <2>1, <2>2
    <2> QED BY <1>0, <1>9, <2>1, <2>2, <2>3, FillKept, ZenonT(60) DEF FillKey, TypeOK
  <1>10. CASE FillCopy(t)
    <2>1. field[t] \in Field /\ pc[t] = "fill_copy" /\ slot' = slot /\ field' = field
      BY <1>0, <1>10 DEF FillCopy
    <2>2. /\ cache'[slot[t]].prefix = cache[slot[t]].prefix
          /\ cache'[slot[t]].prefix_len = cache[slot[t]].prefix_len
      BY <1>0, <1>10, <2>1, FillCopyEffect
    <2>3. Text(cache'[slot[t]]) = PrefixOf(field[t])
      BY <1>a, <2>1, <2>2, TextIs
    <2> QED BY <1>0, <1>10, <2>1, <2>3, FillKept DEF FillCopy, TypeOK
  <1>11. CASE AppendPrefix(t)
    BY <1>0, <1>a, <1>11, FillKept DEF AppendPrefix, TypeOK
  <1>12. CASE Buffered(t)
    <2>1. /\ UNCHANGED <<cache, slot>> /\ pc'[t] \in {"write", "resolve"}
          /\ \A u \in Threads \ {t} : /\ pc'[u] = pc[u] /\ field'[u] = field[u]
                                      /\ appended'[u] = appended[u]
      BY <1>0, <1>12 DEF Buffered, TypeOK
    <2> QED BY <1>0, <2>1, FillKept
  <1>13. CASE Flush(t)
    BY <1>0, <1>a, <1>13, FillKept DEF Flush, TypeOK
  <1>14. CASE WriteBuffer(t)
    BY <1>0, <1>14, FillKept DEF WriteBuffer, TypeOK
  <1>15. CASE Close(t)
    BY <1>0, <1>15, FillKept DEF Close, vars, TypeOK
  <1> QED BY <1>1, <1>2, <1>3, <1>4, <1>5, <1>6, <1>7, <1>8, <1>9, <1>10, <1>11, <1>12,
             <1>13, <1>14, <1>15 DEF Step, Cached

(***************************************************************************)
(* The entries of the table: whole, or being filled.                       *)
(***************************************************************************)
LEMMA WholeStep ==
  ASSUME ConsoleTypeOK, FieldInv, OpenInv, NEW t \in Threads, Step(t), NEW r \in Slots
  PROVE  Whole(r)' /\ cache'[r].prefix_len <= Limit
  <1>0. /\ TypeOK /\ FillInv /\ Whole(r) /\ cache[r].prefix_len <= Limit
        /\ pc[t] \notin {"idle", "write"} => field[t] \in Field
        /\ pc[t] \in Filling => KeyLen[field[t].key] <= Limit
    BY DEF ConsoleTypeOK, OpenInv, FieldInv
  <1>1. ASSUME cache'[r] = cache[r],
               \A u \in Threads : (slot[u] = r /\ pc[u] \in Filling)
                                  => (slot'[u] = r /\ pc'[u] \in Filling)
        PROVE  Whole(r)' /\ cache'[r].prefix_len <= Limit
    BY <1>0, <1>1 DEF Whole, Text, Empty
  <1>2. ASSUME NEW u \in Threads, slot'[u] = r, pc'[u] \in Filling
        PROVE  Whole(r)'
    BY <1>2 DEF Whole
  <1> USE DEF Goto, Filling
  <1>3. CASE ResolveMiss(t)
    <2>1. field[t] \in Field
      BY <1>0, <1>3 DEF ResolveMiss
    <2>2. /\ cache'[slot'[t]].prefix_len = 0
          /\ \A s \in Slots \ {slot'[t]} : cache'[s] = cache[s]
      BY <1>0, <1>3, <2>1, MissEffect
    <2>3. pc[t] = "resolve" /\ pc'[t] = "fill_prefix"
      BY <1>0, <1>3 DEF ResolveMiss, TypeOK
    <2>4. CASE r = slot'[t]
      BY <1>2, <2>2, <2>3, <2>4, PrefixAssumption
    <2>5. CASE r # slot'[t]
      BY <1>0, <1>1, <1>3, <2>2, <2>3, <2>5 DEF ResolveMiss, TypeOK
    <2> QED BY <2>4, <2>5
  <1>4. CASE FillPrefix(t)
    <2>1. field[t] \in Field /\ pc[t] = "fill_prefix" /\ slot' = slot
      BY <1>0, <1>4 DEF FillPrefix
    <2>2. /\ cache'[slot[t]].prefix_len = cache[slot[t]].prefix_len + KeyLen[field[t].key]
          /\ \A s \in Slots \ {slot[t]} : cache'[s] = cache[s]
      BY <1>0, <1>4, <2>1, FillPrefixEffect
    <2>3. \A u \in Threads : pc[u] \in Filling => pc'[u] \in Filling
      BY <1>0, <1>4 DEF FillPrefix, TypeOK
    <2>4. CASE r = slot[t]
      <3>1. cache[slot[t]].prefix_len = 0 /\ KeyLen[field[t].key] \in Nat
        BY <1>0, <2>1, PrefixAssumption DEF FillInv, Field
      <3>2. cache'[r].prefix_len = KeyLen[field[t].key] /\ KeyLen[field[t].key] <= Limit
        BY <1>0, <2>1, <2>2, <2>4, <3>1
      <3> QED BY <1>2, <2>1, <2>3, <2>4, <3>2
    <2>5. CASE r # slot[t]
      BY <1>1, <2>1, <2>2, <2>3, <2>5
    <2> QED BY <2>4, <2>5
  <1>5. CASE FillKey(t)
    <2>1. /\ field[t] \in Field /\ KeyLen[field[t].key] <= Limit
          /\ pc[t] = "fill_key" /\ slot' = slot
      BY <1>0, <1>5 DEF FillKey
    <2>2. /\ cache'[slot[t]].prefix_len = cache[slot[t]].prefix_len
          /\ \A s \in Slots \ {slot[t]} : cache'[s] = cache[s]
      BY <1>0, <1>5, <2>1, FillKeyEffect
    <2>3. \A u \in Threads : pc[u] \in Filling => pc'[u] \in Filling
      BY <1>0, <1>5 DEF FillKey, TypeOK
    <2>4. CASE r = slot[t]
      BY <1>0, <1>2, <2>1, <2>2, <2>3, <2>4
    <2>5. CASE r # slot[t]
      BY <1>1, <2>1, <2>2, <2>3, <2>5
    <2> QED BY <2>4, <2>5
  <1>6. CASE FillCopy(t)
    <2>1. field[t] \in Field /\ pc[t] = "fill_copy" /\ slot' = slot
      BY <1>0, <1>6 DEF FillCopy
    <2>2. /\ cache'[slot[t]].copy = field[t].key
          /\ cache'[slot[t]].type = cache[slot[t]].type
          /\ cache'[slot[t]].prefix = cache[slot[t]].prefix
          /\ cache'[slot[t]].prefix_len = cache[slot[t]].prefix_len
          /\ \A s \in Slots \ {slot[t]} : cache'[s] = cache[s]
      BY <1>0, <1>6, <2>1, FillCopyEffect
    <2>3. CASE r = slot[t]
      <3>1. /\ cache'[r].prefix = PrefixOf(field[t]) /\ cache'[r].prefix_len = KeyLen[field[t].key]
            /\ cache'[r].type = field[t].type
        BY <1>0, <2>1, <2>2, <2>3 DEF FillInv
      <3>2. Text(cache'[r]) = [key |-> cache'[r].copy, type |-> cache'[r].type]
        BY <2>2, <2>3, <3>1, TextIs DEF PrefixOf
      <3> QED BY <1>0, <2>2, <2>3, <3>2 DEF Whole, Text
    <2>4. CASE r # slot[t]
      BY <1>0, <1>1, <1>6, <2>1, <2>2, <2>4 DEF FillCopy, TypeOK
    <2> QED BY <2>3, <2>4
  <1>7. ASSUME UNCHANGED cache, pc[t] \notin Filling,
               \A u \in Threads \ {t} : slot'[u] = slot[u] /\ pc'[u] = pc[u]
        PROVE  Whole(r)' /\ cache'[r].prefix_len <= Limit
    BY <1>1, <1>7
  <1>8. CASE \E f \in Field, n \in 0..MaxFields - 1 :
               \E rest \in [1..n -> Field] : LogCall(t, f, rest)
    BY <1>0, <1>7, <1>8 DEF LogCall, Log, Begin, TypeOK
  <1>9. CASE \E f \in Field : Derive(t, f)
    BY <1>0, <1>7, <1>9 DEF Derive, With, Begin, TypeOK
  <1>10. CASE DeriveReturn(t)
    BY <1>0, <1>7, <1>10 DEF DeriveReturn, Return, TypeOK
  <1>11. CASE BufferLockOutput(t)
    BY <1>0, <1>7, <1>11 DEF BufferLockOutput, LockOutput, TypeOK
  <1>12. CASE ResolveHit(t)
    BY <1>0, <1>7, <1>12 DEF ResolveHit, TypeOK
  <1>13. CASE ResolveTooLong(t)
    BY <1>0, <1>7, <1>13 DEF ResolveTooLong, TypeOK
  <1>14. CASE AppendPrefix(t)
    BY <1>0, <1>7, <1>14 DEF AppendPrefix, TypeOK
  <1>15. CASE Buffered(t)
    BY <1>0, <1>7, <1>15 DEF Buffered, TypeOK
  <1>16. CASE Flush(t)
    BY <1>0, <1>7, <1>16 DEF Flush, TypeOK
  <1>17. CASE WriteBuffer(t)
    BY <1>0, <1>7, <1>17 DEF WriteBuffer, TypeOK
  <1>18. CASE Close(t)
    BY <1>0, <1>1, <1>18 DEF Close, vars, TypeOK
  <1> QED BY <1>3, <1>4, <1>5, <1>6, <1>8, <1>9, <1>10, <1>11, <1>12, <1>13, <1>14, <1>15,
             <1>16, <1>17, <1>18 DEF Step, Cached

(***************************************************************************)
(* The line of a call grows by the prefix of its field.                    *)
(***************************************************************************)
LEMMA LineStep ==
  ASSUME ConsoleTypeOK, FieldInv, OpenInv, NEW t \in Threads, Step(t)
  PROVE  LineInv'
  <1>0. LineInv /\ FillInv /\ line \in [Threads -> Seq(Piece)]
    BY DEF ConsoleTypeOK, OpenInv
  <1>1. CASE UNCHANGED line
    BY <1>0, <1>1 DEF LineInv
  <1>2. CASE Buffered(t)
    <2> DEFINE w == [due |-> PrefixOf(field[t]), is |-> appended[t]]
    <2>1. w.is = w.due /\ w \in Piece
      <3>1. appended[t] = PrefixOf(field[t])
        BY <1>0, <1>2 DEF Buffered, FillInv
      <3>2. field[t] \in Field
        BY <1>2 DEF Buffered, FieldInv
      <3>3. PrefixOf(field[t]) \in Prefix
        BY <3>2 DEF PrefixOf, Prefix, Field
      <3> QED BY <3>1, <3>3 DEF Piece
    <2>2. line' = [line EXCEPT ![t] = Append(@, w)]
      BY <1>2 DEF Buffered
    <2> HIDE DEF w
    <2> QED BY <1>0, <2>1, <2>2 DEF LineInv
  <1>3. CASE line' = [line EXCEPT ![t] = <<>>]
    BY <1>0, <1>3 DEF LineInv
  <1>4. UNCHANGED line \/ Buffered(t) \/ line' = [line EXCEPT ![t] = <<>>]
    BY DEF Step, LogCall, Derive, DeriveReturn, BufferLockOutput, Cached, Flush, WriteBuffer,
           Close, new
  <1> QED BY <1>1, <1>2, <1>3, <1>4

(***************************************************************************)
(* What is written is a line of before the close.                          *)
(***************************************************************************)
LEMMA WrittenStep ==
  ASSUME ConsoleInv, NEW t \in Threads, Step(t)
  PROVE  WrittenOwnKey'
  <1>0. WrittenOwnKey /\ line \in [Threads -> Seq(Piece)]
    BY DEF ConsoleInv, ConsoleTypeOK
  <1>1. CASE UNCHANGED out
    BY <1>0, <1>1 DEF WrittenOwnKey
  <1>2. CASE ~closed /\ out' = out \cup Lines(t)
    <2>1. LineInv
      BY <1>2 DEF ConsoleInv, OpenInv
    <2>2. \A w \in Lines(t) : w.is = w.due
      BY <1>0, <2>1 DEF LineInv, Lines
    <2> QED BY <1>0, <1>2, <2>2 DEF WrittenOwnKey
  <1>3. UNCHANGED out \/ (~closed /\ out' = out \cup Lines(t))
    BY DEF Step, LogCall, Derive, DeriveReturn, BufferLockOutput, Cached, Buffered, Flush,
           WriteBuffer, Close, new
  <1> QED BY <1>1, <1>2, <1>3

\* A step of a thread keeps the invariant.
LEMMA ConsoleStep ==
  ASSUME Exclusive, ConsoleInv, NEW t \in Threads, Step(t)
  PROVE  ConsoleInv'
  <1>1. ConsoleTypeOK' /\ FieldInv'
    BY TypeStep DEF ConsoleInv
  <1>2. WrittenOwnKey'
    BY WrittenStep
  <1>3. closed' \/ OpenInv'
    <2>1. CASE closed
      <3>1. UNCHANGED closed
        BY <2>1 DEF Step, LogCall, Derive, DeriveReturn, BufferLockOutput, Cached, Buffered,
                    Flush, WriteBuffer, Close, new
      <3> QED BY <2>1, <3>1
    <2>2. CASE ~closed
      <3>1. ConsoleTypeOK /\ FieldInv /\ OpenInv /\ AloneInv
        BY <2>2 DEF ConsoleInv, OpenInv
      <3>2. AloneInv' /\ FillInv' /\ LineInv'
        BY <2>2, <3>1, AloneStep, FillStep, LineStep
      <3>3. \A r \in Slots : Whole(r)' /\ cache'[r].prefix_len <= Limit
        BY <3>1, WholeStep
      <3>4. OpenInv'
        BY <3>2, <3>3 DEF OpenInv, Slots
      <3> QED BY <3>4
    <2> QED BY <2>1, <2>2
  <1> QED BY <1>1, <1>2, <1>3 DEF ConsoleInv

\* The invariant holds at first.
LEMMA ConsoleBegins ==
  ASSUME ConsoleInit
  PROVE  ConsoleInv
  <1>1. Empty \in Entry /\ 0 \in Slots /\ Empty.prefix_len = 0
    BY PrefixAssumption DEF Empty, Entry, Slots
  <1>2. TypeOK
    BY <1>1 DEF ConsoleInit, Init, TypeOK
  <1>3. todo \in [Threads -> Seq(Field)] /\ line \in [Threads -> Seq(Piece)]
    BY DEF ConsoleInit
  <1>4. FieldInv /\ AloneInv /\ FillInv /\ LineInv
    BY DEF ConsoleInit, Init, FieldInv, AloneInv, FillInv, LineInv, Working, Filling
  <1>5. \A s \in Slots : Whole(s) /\ cache[s].prefix_len <= Limit
    BY <1>1, PrefixAssumption DEF ConsoleInit, Init, Whole
  <1>6. WrittenOwnKey
    BY DEF ConsoleInit, WrittenOwnKey
  <1> QED BY <1>2, <1>3, <1>4, <1>5, <1>6 DEF ConsoleInv, ConsoleTypeOK, OpenInv

\* The invariant holds throughout when with() is kept apart from other calls.
LEMMA ConsoleInvariant ==
  ASSUME Exclusive
  PROVE  ConsoleSpec => []ConsoleInv
  <1>1. ConsoleInit => ConsoleInv
    BY ConsoleBegins
  <1>2. ASSUME ConsoleInv, [ConsoleNext]_<<vars, new>> PROVE ConsoleInv'
    <2>1. ASSUME NEW t \in Threads, Step(t) PROVE ConsoleInv'
      BY <1>2, <2>1, ConsoleStep
    <2>2. CASE UNCHANGED <<vars, new>>
      <3> USE <1>2, <2>2 DEF vars, new
      <3>1. ConsoleTypeOK'
        BY DEF ConsoleInv, ConsoleTypeOK, TypeOK
      <3>2. FieldInv'
        BY DEF ConsoleInv, FieldInv
      <3>3. closed \/ (AloneInv' /\ FillInv' /\ LineInv')
        BY DEF ConsoleInv, OpenInv, AloneInv, FillInv, LineInv, Text
      <3>4. closed \/ \A s \in Slots : Whole(s)' /\ (cache[s].prefix_len)' <= Limit
        BY DEF ConsoleInv, OpenInv, Whole, Text
      <3>5. WrittenOwnKey'
        BY DEF ConsoleInv, WrittenOwnKey
      <3> QED BY <3>1, <3>2, <3>3, <3>4, <3>5 DEF ConsoleInv, OpenInv
    <2> QED BY <1>2, <2>1, <2>2 DEF ConsoleNext, Step
  <1> QED BY <1>1, <1>2, PTL DEF ConsoleSpec

(***************************************************************************)
(* pslog_append_console_field_cached: every field that reaches the output  *)
(* stands behind its own key, although the cache has no lock, entries are  *)
(* overwritten, keys move, and calls that meet a closed output go on       *)
(* without the mutex.  The client keeps with() apart from other calls.     *)
(***************************************************************************)
THEOREM FieldsBehindTheirKeys ==
  ASSUME Exclusive
  PROVE  ConsoleSpec => []WrittenOwnKey
  <1>1. ConsoleInv => WrittenOwnKey
    BY DEF ConsoleInv
  <1> QED BY <1>1, ConsoleInvariant, PTL

(***************************************************************************)
(* pslog_resolve_console_prefix: while the output is open, an entry nobody *)
(* fills has the prefix of the key and type it is found by, and none has a *)
(* prefix longer than the entry.                                           *)
(***************************************************************************)
THEOREM CacheWhole ==
  ASSUME Exclusive
  PROVE  ConsoleSpec => []CachesWhole
  <1>1. ConsoleInv => CachesWhole
    BY DEF CachesWhole, ConsoleInv, ConsoleTypeOK, OpenInv, Whole, Filling, EntriesWhole, PrefixFits
  <1> QED BY <1>1, ConsoleInvariant, PTL

================================================================================
