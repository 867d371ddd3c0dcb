---------------------------- MODULE PslogKvfmtCache ----------------------------
(***************************************************************************)
(* The kvfmt layout cache of a logger tree.  infof(), withf() and the like *)
(* take a format string such as "user=%s n=%d".  Its parsed layout is kept *)
(* in an open addressing table of the shared state, and a second table     *)
(* remembers which entry a format pointer led to.  A call resolves its     *)
(* format under the state mutex and then reads the entry with no mutex     *)
(* held, while other calls go on filling the table.                        *)
(*                                                                         *)
(* A layout is abstracted to the text it was parsed from.  The text behind *)
(* a format pointer may differ from call to call (a client's buffer), not  *)
(* during one.                                                             *)
(***************************************************************************)
EXTENDS Integers, PslogThreads

CONSTANTS
  Addresses,    \* where format strings are stored
  Texts,        \* their contents
  Malformed,    \* the texts pslog_parse_kvfmt_layout rejects
  Size,         \* PSLOG_KVFMT_CACHE_SIZE
  Probe,        \* PSLOG_KVFMT_CACHE_PROBE
  Home(_),      \* the slot a text hashes to
  PtrSlots,     \* the slots of the pointer cache
  PtrSlot(_),   \* pslog_kvfmt_pointer_slot
  Local         \* local_entry, on the stack of the caller

\* Assumed of the constants.
KvfmtAssumption ==
  /\ NoThread \notin Threads
  /\ Malformed \subseteq Texts
  /\ None \notin Addresses \cup Texts
  /\ Local \notin 0..Size - 1 /\ Local # None
  /\ Size \in Nat \ {0} /\ Probe \in 1..Size
  /\ \A f \in Texts : Home(f) \in 0..Size - 1
  /\ \A a \in Addresses : PtrSlot(a) \in PtrSlots

VARIABLES
  cache,     \* shared->kvfmt_cache
  ptrs,      \* shared->kvfmt_ptr_cache, NULL if its allocation failed
  mutex,     \* the owner of shared->state_mutex
  pc,
  input,     \* the format pointer of the call of each thread
  text,      \* what it points to
  entry      \* out_entry: a slot, Local or None

vars == <<cache, ptrs, mutex, pc, input, text, entry>>

Slots == 0..Size - 1

\* kvfmt is set before the layout has been parsed and prepared.
Entry == [kvfmt : Texts \cup {None}, layout : Texts \cup {None}]
Empty == [kvfmt |-> None, layout |-> None]

PtrEntry == [input : Addresses \cup {None}, entry : Slots \cup {None}]

PC == {"idle", "lock", "resolve", "parse", "unlock", "use", "failed"}

Init ==
  /\ cache = [s \in Slots |-> Empty]
  /\ ptrs \in {None, [p \in PtrSlots |-> [input |-> None, entry |-> None]]}
  /\ mutex = NoThread
  /\ pc = [t \in Threads |-> "idle"]
  /\ input = [t \in Threads |-> None]
  /\ text = [t \in Threads |-> None]
  /\ entry = [t \in Threads |-> None]

Goto(t, l) == pc' = [pc EXCEPT ![t] = l]

--------------------------------------------------------------------------------

(***************************************************************************)
(* pslog_vlogf_impl or pslog_vwithf_impl with a format, past the checks    *)
(* that may return at once.                                                *)
(***************************************************************************)
Call(t, a, f) ==
  /\ pc[t] = "idle"
  /\ \A s \in Threads : input[s] = a => text[s] = f
  /\ input' = [input EXCEPT ![t] = a]
  /\ text' = [text EXCEPT ![t] = f]
  /\ Goto(t, "lock")
  /\ UNCHANGED <<cache, ptrs, mutex, entry>>

LockState(t) ==
  /\ pc[t] = "lock"
  /\ mutex = NoThread
  /\ mutex' = t
  /\ Goto(t, "resolve")
  /\ UNCHANGED <<cache, ptrs, input, text, entry>>

--------------------------------------------------------------------------------
(* pslog_resolve_kvfmt_entry.                                              *)

\* The probes of f, in order.
At(f, probe) == (Home(f) + probe) % Size

First(ps) == CHOOSE p \in ps : \A q \in ps : p <= q

Hits(f) == {p \in 0..Probe - 1 : cache[At(f, p)].kvfmt = f}
Free(f) == {p \in 0..Probe - 1 : cache[At(f, p)].kvfmt = None}

\* Mutant: what the pointer points to is not compared.
PtrHitAddress(a, f) ==
  /\ ptrs # None
  /\ ptrs[PtrSlot(a)].input = a
  /\ ptrs[PtrSlot(a)].entry # None

(***************************************************************************)
(* The pointer cache knows the pointer, and the entry it leads to is for   *)
(* the text that is there now.                                             *)
(***************************************************************************)
PtrHit(a, f) ==
  /\ ptrs # None
  /\ ptrs[PtrSlot(a)].input = a
  /\ ptrs[PtrSlot(a)].entry # None
  /\ cache[ptrs[PtrSlot(a)].entry].kvfmt = f

Remember(t, s) ==
  ptrs' = IF ptrs = None THEN None
          ELSE [ptrs EXCEPT ![PtrSlot(input[t])] = [input |-> input[t], entry |-> s]]

ResolvePtr(t) ==
  /\ pc[t] = "resolve"
  /\ PtrHit(input[t], text[t])
  /\ entry' = [entry EXCEPT ![t] = ptrs[PtrSlot(input[t])].entry]
  /\ Goto(t, "unlock")
  /\ UNCHANGED <<cache, ptrs, mutex, input, text>>

ResolveHit(t) ==
  LET s == At(text[t], First(Hits(text[t]))) IN
  /\ pc[t] = "resolve"
  /\ ~PtrHit(input[t], text[t])
  /\ Hits(text[t]) # {}
  /\ entry' = [entry EXCEPT ![t] = s]
  /\ Remember(t, s)
  /\ Goto(t, "unlock")
  /\ UNCHANGED <<cache, mutex, input, text>>

(***************************************************************************)
(* No probe hits: the first free entry is taken and kvfmt set to a copy of *)
(* the text, if that can be allocated.                                     *)
(***************************************************************************)
ResolveTake(t, copied) ==
  LET s == At(text[t], First(Free(text[t]))) IN
  /\ pc[t] = "resolve"
  /\ ~PtrHit(input[t], text[t])
  /\ Hits(text[t]) = {} /\ Free(text[t]) # {}
  /\ IF copied
     THEN /\ cache' = [cache EXCEPT ![s].kvfmt = text[t]]
          /\ entry' = [entry EXCEPT ![t] = s]
          /\ Goto(t, "parse")
     ELSE /\ Goto(t, "failed")
          /\ UNCHANGED <<cache, entry>>
  /\ UNCHANGED <<ptrs, mutex, input, text>>

\* Mutant: a full window gives up its first entry.
ResolveLocalEvicts(t) ==
  LET s == At(text[t], 0) IN
  /\ pc[t] = "resolve"
  /\ ~PtrHit(input[t], text[t])
  /\ Hits(text[t]) = {} /\ Free(text[t]) = {}
  /\ cache' = [cache EXCEPT ![s] = [kvfmt |-> text[t], layout |-> None]]
  /\ entry' = [entry EXCEPT ![t] = s]
  /\ Goto(t, "parse")
  /\ UNCHANGED <<ptrs, mutex, input, text>>

(***************************************************************************)
(* All probes are taken by other texts: the layout is parsed into an entry *)
(* on the stack of the caller.  Nothing is ever evicted.                   *)
(***************************************************************************)
ResolveLocal(t) ==
  /\ pc[t] = "resolve"
  /\ ~PtrHit(input[t], text[t])
  /\ Hits(text[t]) = {} /\ Free(text[t]) = {}
  /\ IF text[t] \in Malformed
     THEN Goto(t, "failed") /\ UNCHANGED entry
     ELSE Goto(t, "unlock") /\ entry' = [entry EXCEPT ![t] = Local]
  /\ UNCHANGED <<cache, ptrs, mutex, input, text>>

(***************************************************************************)
(* pslog_parse_kvfmt_layout and pslog_prepare_kvfmt_cache_entry on the     *)
(* entry that was taken: it is given back if the text is malformed.        *)
(***************************************************************************)
Parse(t) ==
  /\ pc[t] = "parse"
  /\ IF text[t] \in Malformed
     THEN /\ cache' = [cache EXCEPT ![entry[t]] = Empty]
          /\ entry' = [entry EXCEPT ![t] = None]
          /\ Goto(t, "failed")
          /\ UNCHANGED ptrs
     ELSE /\ cache' = [cache EXCEPT ![entry[t]].layout = text[t]]
          /\ Remember(t, entry[t])
          /\ Goto(t, "unlock")
          /\ UNCHANGED entry
  /\ UNCHANGED <<mutex, input, text>>

--------------------------------------------------------------------------------

Return(t) ==
  /\ Goto(t, "idle")
  /\ input' = [input EXCEPT ![t] = None]
  /\ text' = [text EXCEPT ![t] = None]
  /\ entry' = [entry EXCEPT ![t] = None]

UnlockState(t) ==
  /\ pc[t] = "unlock"
  /\ mutex' = NoThread
  /\ Goto(t, "use")
  /\ UNCHANGED <<cache, ptrs, input, text, entry>>

\* Failure also releases the mutex; what is logged then needs no entry.
Fail(t) ==
  /\ pc[t] = "failed"
  /\ mutex' = NoThread
  /\ Return(t)
  /\ UNCHANGED <<cache, ptrs>>

(***************************************************************************)
(* The emission of the line, or the materialisation of the fields of a     *)
(* child, has read the last of the entry.                                  *)
(***************************************************************************)
Use(t) ==
  /\ pc[t] = "use"
  /\ Return(t)
  /\ UNCHANGED <<cache, ptrs, mutex>>

Next ==
  \E t \in Threads :
    \/ \E a \in Addresses, f \in Texts : Call(t, a, f)
    \/ LockState(t)
    \/ ResolvePtr(t) \/ ResolveHit(t) \/ ResolveLocal(t)
    \/ \E copied \in BOOLEAN : ResolveTake(t, copied)
    \/ Parse(t)
    \/ UnlockState(t) \/ Fail(t)
    \/ Use(t)

Spec == Init /\ [][Next]_vars

--------------------------------------------------------------------------------
(* Properties.                                                             *)

TypeOK ==
  /\ cache \in [Slots -> Entry]
  /\ ptrs \in [PtrSlots -> PtrEntry] \cup {None}
  /\ mutex \in Threads \cup {NoThread}
  /\ pc \in [Threads -> PC]
  /\ input \in [Threads -> Addresses \cup {None}]
  /\ text \in [Threads -> Texts \cup {None}]
  /\ entry \in [Threads -> Slots \cup {Local, None}]

(***************************************************************************)
(* As long as a call reads its entry, mutex or not, the entry holds the    *)
(* complete layout of the very text the call was made with: whatever other *)
(* threads put into the table and whatever was at that address before.     *)
(***************************************************************************)
EntryOfCall ==
  \A t \in Threads : pc[t] \in {"unlock", "use"} =>
    \/ entry[t] = Local
    \/ cache[entry[t]] = [kvfmt |-> text[t], layout |-> text[t]]

(***************************************************************************)
(* A layout that has become visible is never changed or moved: calls keep  *)
(* pointers into the table after they have released the mutex.             *)
(***************************************************************************)
EntriesStable ==
  [][\A s \in Slots : cache[s].layout # None => cache'[s] = cache[s]]_vars

(***************************************************************************)
(* No text occupies two entries, also when several threads use it for the  *)
(* first time at once: the table is not eaten up by duplicates.            *)
(***************************************************************************)
NoDuplicates ==
  \A r, s \in Slots :
    r # s /\ cache[r].kvfmt # None => cache[r].kvfmt # cache[s].kvfmt

\* The layout of its text is what every call has, and there is one of it; no
\* pointer of the pointer cache leads to a layout on a stack.
LayoutOfCall == TypeOK /\ EntryOfCall /\ NoDuplicates

--------------------------------------------------------------------------------
(* The inductive invariant behind the properties.                          *)

\* Where a thread has the state mutex.
Inside == {"resolve", "parse", "unlock", "failed"}

MutexInv == \A t \in Threads : mutex = t <=> pc[t] \in Inside

CallInv ==
  \A t \in Threads : pc[t] # "idle" => input[t] \in Addresses /\ text[t] \in Texts

(***************************************************************************)
(* An entry is empty, ready, or being parsed by the one thread that has    *)
(* taken it; calls past the resolution have a ready one.                   *)
(***************************************************************************)
EntryInv ==
  /\ \A t \in Threads : pc[t] = "parse" =>
       entry[t] \in Slots /\ cache[entry[t]] = [kvfmt |-> text[t], layout |-> None]
  /\ \A t \in Threads : pc[t] \in {"unlock", "use"} =>
       \/ entry[t] = Local
       \/ /\ entry[t] \in Slots
          /\ cache[entry[t]] = [kvfmt |-> text[t], layout |-> text[t]]
  /\ \A s \in Slots :
       \/ cache[s] = Empty
       \/ cache[s].kvfmt \in Texts /\ cache[s].layout = cache[s].kvfmt
       \/ \E t \in Threads : pc[t] = "parse" /\ entry[t] = s

\* A text is nowhere but where its probes look.
WindowInv ==
  \A s \in Slots : cache[s].kvfmt # None =>
    \E p \in 0..Probe - 1 : s = At(cache[s].kvfmt, p)

TableInv == TypeOK /\ MutexInv /\ CallInv /\ EntryInv /\ WindowInv /\ NoDuplicates

================================================================================
