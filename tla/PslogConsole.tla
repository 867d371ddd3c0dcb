----------------------------- MODULE PslogConsole -----------------------------
(***************************************************************************)
(* Console log calls with several fields, over the prefix cache and the    *)
(* output path together.  The cache has no lock of its own and relies on   *)
(* the output mutex, which pslog_emit_console takes first.  The buffer of  *)
(* the line knows about that mutex too: a flush that finds the output      *)
(* closed releases it, and the call goes on to its next field.             *)
(*                                                                         *)
(* A line is the prefixes of its fields.  A write under the mutex is one   *)
(* step and complete: PslogOutput has the rest.                            *)
(***************************************************************************)
EXTENDS PslogConsolePrefix

CONSTANTS
  Capacity,   \* fields the line buffer holds
  MaxFields,  \* bound: fields of a call
  MaxCalls    \* bound: log calls and derivations

ASSUME ConsoleAssumption ==
  Capacity \in Nat \ {0} /\ MaxFields \in Nat \ {0} /\ MaxCalls \in Nat

VARIABLES
  closed,   \* shared->closed
  locked,   \* buffer->output_locked of each thread
  todo,     \* the fields of its call that are still to come
  line,     \* its buffer: for each field, the prefix due and the one appended
  out,      \* what has been written, as a set
  calls

new == <<closed, locked, todo, line, out, calls>>

ConsoleInit ==
  /\ Init
  /\ closed = FALSE
  /\ locked = [t \in Threads |-> FALSE]
  /\ todo = [t \in Threads |-> <<>>]
  /\ line = [t \in Threads |-> <<>>]
  /\ out = {} /\ calls = 0

--------------------------------------------------------------------------------

InUse ==
  {field[t] : t \in Threads} \cup UNION {{todo[t][i] : i \in DOMAIN todo[t]} : t \in Threads}

\* Fields whose keys are stored at the same time.
Together(fs) ==
  \A f, g \in fs \ {None} : f.addr = g.addr => f.key = g.key

\* pslog_should_log reads closed with no lock.
LogCall(t, f, rest) ==
  /\ ~closed /\ calls < MaxCalls
  /\ Together(InUse \cup {f} \cup {rest[i] : i \in DOMAIN rest})
  /\ Log(t, f)
  /\ todo' = [todo EXCEPT ![t] = rest]
  /\ calls' = calls + 1
  /\ UNCHANGED <<closed, locked, line, out>>

Derive(t, f) ==
  /\ calls < MaxCalls /\ calls' = calls + 1
  /\ With(t, f)
  /\ UNCHANGED <<closed, locked, todo, line, out>>

DeriveReturn(t) == Return(t) /\ UNCHANGED new

BufferLockOutput(t) ==
  /\ LockOutput(t)
  /\ locked' = [locked EXCEPT ![t] = TRUE]
  /\ UNCHANGED <<closed, todo, line, out, calls>>

\* pslog_append_console_field_cached, up to the append.
Cached(t) ==
  /\ \/ ResolveHit(t) \/ ResolveTooLong(t) \/ ResolveMiss(t)
     \/ FillPrefix(t) \/ FillKey(t) \/ FillCopy(t) \/ AppendPrefix(t)
  /\ UNCHANGED new

Full(t) == Len(line[t]) = Capacity

\* The append of a prefix to the line, and the next field or the end.
Buffered(t) ==
  /\ pc[t] = "return" /\ op[t] = "log" /\ ~Full(t)
  /\ line' = [line EXCEPT ![t] = Append(@, [due |-> PrefixOf(field[t]), is |-> appended[t]])]
  /\ appended' = [appended EXCEPT ![t] = None]
  /\ IF todo[t] = <<>>
     THEN /\ field' = [field EXCEPT ![t] = None]
          /\ Goto(t, "write")
          /\ UNCHANGED todo
     ELSE /\ field' = [field EXCEPT ![t] = Head(todo[t])]
          /\ todo' = [todo EXCEPT ![t] = Tail(@)]
          /\ Goto(t, "resolve")
  /\ UNCHANGED <<cache, mutex, op, slot, closed, locked, out, calls>>

Lines(t) == {line[t][i] : i \in DOMAIN line[t]}

\* Mutant: the mutex is given back after a flush, as pslog_write_buffer does.
FlushUnlocks(t) ==
  /\ pc[t] = "return" /\ op[t] = "log" /\ Full(t)
  /\ locked[t] \/ mutex = NoThread
  /\ out' = IF closed THEN out ELSE out \cup Lines(t)
  /\ mutex' = NoThread
  /\ locked' = [locked EXCEPT ![t] = FALSE]
  /\ line' = [line EXCEPT ![t] = <<>>]
  /\ UNCHANGED <<cache, pc, op, field, slot, appended, closed, todo, calls>>

\* An append to a full buffer flushes it first: pslog_buffer_flush.
Flush(t) ==
  /\ pc[t] = "return" /\ op[t] = "log" /\ Full(t)
  /\ locked[t] \/ mutex = NoThread
  /\ out' = IF closed THEN out ELSE out \cup Lines(t)
  /\ mutex' = IF closed THEN NoThread ELSE t
  /\ locked' = [locked EXCEPT ![t] = ~closed]
  /\ line' = [line EXCEPT ![t] = <<>>]
  /\ UNCHANGED <<cache, pc, op, field, slot, appended, closed, todo, calls>>

\* The line ends: pslog_write_buffer, which unlocks in any case.
WriteBuffer(t) ==
  /\ pc[t] = "write"
  /\ locked[t] \/ mutex = NoThread
  /\ out' = IF closed THEN out ELSE out \cup Lines(t)
  /\ mutex' = NoThread
  /\ locked' = [locked EXCEPT ![t] = FALSE]
  /\ line' = [line EXCEPT ![t] = <<>>]
  /\ op' = [op EXCEPT ![t] = None]
  /\ slot' = [slot EXCEPT ![t] = 0]
  /\ Goto(t, "idle")
  /\ UNCHANGED <<cache, field, appended, closed, todo, calls>>

\* pslog_close_shared: from the lock to the unlock.
Close(t) ==
  /\ pc[t] = "idle" /\ ~closed
  /\ mutex = NoThread
  /\ closed' = TRUE
  /\ UNCHANGED <<vars, locked, todo, line, out, calls>>

ConsoleNext ==
  \E t \in Threads :
    \/ \E f \in Field, n \in 0..MaxFields - 1 :
         \E rest \in [1..n -> Field] : LogCall(t, f, rest)
    \/ \E f \in Field : Derive(t, f)
    \/ DeriveReturn(t)
    \/ BufferLockOutput(t) \/ Cached(t) \/ Buffered(t)
    \/ Flush(t) \/ WriteBuffer(t) \/ Close(t)
    \/ closed /\ (\A s \in Threads : pc[s] = "idle") /\ UNCHANGED <<vars, new>>

ConsoleSpec == ConsoleInit /\ [][ConsoleNext]_<<vars, new>>

--------------------------------------------------------------------------------

(***************************************************************************)
(* Every field that reaches the output stands behind its own key, although *)
(* calls that meet a closed output go on to use the cache without the      *)
(* mutex, beside those that still have it.                                 *)
(***************************************************************************)
WrittenOwnKey == \A w \in out : w.is = w.due

(***************************************************************************)
(* While the output is open, the prefix in an entry is no longer than the  *)
(* entry, although prefix_len is counted up there and not in a local.      *)
(***************************************************************************)
PrefixFits == closed \/ \A s \in Slots : cache[s].prefix_len <= Limit

(***************************************************************************)
(* While the output is open, an entry that no call is filling is whole:    *)
(* the prefix it holds is that of the key and the type by which it is      *)
(* found.                                                                  *)
(***************************************************************************)
EntriesWhole ==
  \A s \in Slots :
    \/ closed
    \/ cache[s] = Empty
    \/ \E t \in Threads : slot[t] = s /\ pc[t] \in {"fill_prefix", "fill_key", "fill_copy"}
    \/ Text(cache[s]) = [key |-> cache[s].copy, type |-> cache[s].type]

(***************************************************************************)
(* While the output is open, a console prefix in the cache is whole for    *)
(* its key, and the length counted for it fits the entry.                  *)
(***************************************************************************)
CachesWhole == TypeOK /\ EntriesWhole /\ PrefixFits

--------------------------------------------------------------------------------
(* The inductive invariant behind the properties, for a client that keeps  *)
(* with() apart from other calls.                                          *)

Working == {"resolve", "fill_prefix", "fill_key", "fill_copy", "append", "return", "write"}
Filling == {"fill_prefix", "fill_key", "fill_copy"}

Piece == [due : Prefix, is : Prefix \cup {None}]

ConsoleTypeOK ==
  /\ TypeOK
  /\ todo \in [Threads -> Seq(Field)]
  /\ line \in [Threads -> Seq(Piece)]

\* What the thread has of its field.
FieldInv ==
  \A t \in Threads :
    /\ pc[t] \notin {"idle", "write"} => field[t] \in Field
    /\ pc[t] \in Filling => KeyLen[field[t].key] <= Limit
    /\ pc[t] \in {"lock", "write"} => op[t] = "log"

\* Of the threads past the lock, a log call has the mutex and a with is alone.
AloneInv ==
  \A t \in Threads :
    /\ pc[t] \in Working /\ op[t] # "with" => mutex = t
    /\ pc[t] # "idle" /\ op[t] = "with" => \A u \in Threads \ {t} : pc[u] = "idle"

\* How far a thread has come with the entry it has selected.
FillInv ==
  \A t \in Threads :
    /\ pc[t] = "fill_prefix" => cache[slot[t]].prefix_len = 0
    /\ pc[t] \in {"fill_key", "fill_copy"} =>
         /\ cache[slot[t]].prefix = PrefixOf(field[t])
         /\ cache[slot[t]].prefix_len = KeyLen[field[t].key]
    /\ pc[t] = "fill_copy" => cache[slot[t]].type = field[t].type
    /\ pc[t] = "append" => Text(cache[slot[t]]) = PrefixOf(field[t])
    /\ pc[t] = "return" => appended[t] = PrefixOf(field[t])

Whole(s) ==
  \/ cache[s] = Empty
  \/ \E t \in Threads : slot[t] = s /\ pc[t] \in Filling
  \/ Text(cache[s]) = [key |-> cache[s].copy, type |-> cache[s].type]

LineInv ==
  \A t \in Threads : \A i \in 1..Len(line[t]) : line[t][i].is = line[t][i].due

\* Until the output is closed; then calls go on without the mutex.
OpenInv ==
  /\ AloneInv /\ FillInv /\ LineInv
  /\ \A s \in Slots : Whole(s) /\ cache[s].prefix_len <= Limit

ConsoleInv == ConsoleTypeOK /\ FieldInv /\ (closed \/ OpenInv) /\ WrittenOwnKey

================================================================================
