-------------------------- MODULE PslogConsolePrefix --------------------------
(***************************************************************************)
(* The console prefix cache of a logger tree: for a field key, " key=" in  *)
(* the colours of the field's type, rendered once and kept in an open      *)
(* addressing table of the shared state.                                   *)
(*                                                                         *)
(* pslog_resolve_console_prefix takes no lock.  A console log call reaches *)
(* it with the output mutex held; with() reaches it through                *)
(* pslog_build_field_prefix with no mutex at all.  A key is identified by  *)
(* its address, and a client may put another key at the same address       *)
(* between two calls: an entry keeps a copy of the key to notice that.     *)
(*                                                                         *)
(* A prefix is abstracted to the key and type it was rendered for, and its *)
(* length to that of the key.  The fields of an entry are written one      *)
(* after the other, as in the code; prefix_len is counted up in the entry  *)
(* itself.                                                                 *)
(***************************************************************************)
EXTENDS Integers, Sequences

CONSTANTS
  Threads,
  NoThread,
  Exclusive,   \* whether the client keeps with() apart from all other calls
  Addresses,   \* where keys are stored
  Keys,        \* the texts of keys
  KeyLen,      \* length of each key
  Types,       \* field types
  Size,        \* PSLOG_CONSOLE_PREFIX_CACHE_SIZE
  Probe,       \* PSLOG_CONSOLE_PREFIX_CACHE_PROBE
  Home(_),     \* the slot a field hashes to
  Limit,       \* the longest key whose prefix fits into an entry
  None         \* an absent address, key, type or field

ASSUME PrefixAssumption ==
  /\ NoThread \notin Threads
  /\ Exclusive \in BOOLEAN
  /\ None \notin Addresses \cup Keys \cup Types
  /\ KeyLen \in [Keys -> Nat \ {0}]
  /\ Size \in Nat \ {0} /\ Probe \in 1..Size
  /\ Limit \in Nat

Field == [addr : Addresses, key : Keys, type : Types]

Slots == 0..Size - 1

ASSUME HomeAssumption == \A f \in Field : Home(f) \in Slots

VARIABLES
  cache,     \* shared->console_prefix_cache
  mutex,     \* the owner of shared->output_mutex
  pc,        \* where each thread is
  op,        \* what each thread is doing: a log call or a with
  field,     \* the field it is appending
  slot,      \* the entry pslog_resolve_console_prefix selected
  appended   \* the prefix it has appended for the field

vars == <<cache, mutex, pc, op, field, slot, appended>>

Prefix == [key : Keys, type : Types]

Empty ==
  [addr |-> None, len |-> 0, type |-> None, copy |-> None, prefix |-> None,
   prefix_len |-> 0]

Entry ==
  [addr : Addresses \cup {None}, len : 0..Limit, type : Types \cup {None},
   copy : Keys \cup {None}, prefix : Prefix \cup {None}, prefix_len : Nat]

\* What the field needs: its own key in the colour of its own type.
PrefixOf(f) == [key |-> f.key, type |-> f.type]

Init ==
  /\ cache = [i \in Slots |-> Empty]
  /\ mutex = NoThread
  /\ pc = [t \in Threads |-> "idle"]
  /\ op = [t \in Threads |-> None]
  /\ field = [t \in Threads |-> None]
  /\ slot = [t \in Threads |-> 0]
  /\ appended = [t \in Threads |-> None]

Goto(t, l) == pc' = [pc EXCEPT ![t] = l]

--------------------------------------------------------------------------------

\* Keys that threads use at the same time are at different addresses unless
\* they are the same key.
Stored(f) ==
  \A t \in Threads : field[t] # None /\ field[t].addr = f.addr => field[t].key = f.key

Begin(t, what, l, f) ==
  /\ pc[t] = "idle"
  /\ Stored(f)
  /\ op' = [op EXCEPT ![t] = what]
  /\ field' = [field EXCEPT ![t] = f]
  /\ Goto(t, l)
  /\ UNCHANGED <<cache, mutex, slot, appended>>

\* A console log call with one field.
Log(t, f) ==
  /\ Exclusive => \A s \in Threads : op[s] # "with"
  /\ Begin(t, "log", "lock", f)

(***************************************************************************)
(* The derivation of a child logger with one field, in console mode: the   *)
(* prefix is rendered from the child's own copy of the key.                *)
(***************************************************************************)
With(t, f) ==
  /\ Exclusive => \A s \in Threads : pc[s] = "idle"
  /\ \A s \in Threads : field[s] # None => field[s].addr # f.addr
  /\ Begin(t, "with", "resolve", f)

LockOutput(t) ==
  /\ pc[t] = "lock"
  /\ mutex = NoThread
  /\ mutex' = t
  /\ Goto(t, "resolve")
  /\ UNCHANGED <<cache, op, field, slot, appended>>

--------------------------------------------------------------------------------
(* pslog_resolve_console_prefix.                                           *)

At(f, probe) == (Home(f) + probe) % Size

\* Mutant: the address alone identifies the key.
MatchesAddress(f, e) == e.addr = f.addr /\ e.type = f.type

Matches(f, e) ==
  /\ e.addr = f.addr
  /\ e.type = f.type
  /\ e.len = KeyLen[f.key]
  /\ e.copy = f.key

(***************************************************************************)
(* The first probe that hits or is free ends the search.                   *)
(***************************************************************************)
Stops(f) ==
  {p \in 0..Probe - 1 :
     Matches(f, cache[At(f, p)]) \/ cache[At(f, p)].addr = None}

First(ps) == CHOOSE p \in ps : \A q \in ps : p <= q

Selected(f) == IF Stops(f) = {} THEN Home(f) ELSE At(f, First(Stops(f)))

ResolveHit(t) ==
  LET s == Selected(field[t]) IN
  /\ pc[t] = "resolve"
  /\ Matches(field[t], cache[s])
  /\ slot' = [slot EXCEPT ![t] = s]
  /\ Goto(t, "append")
  /\ UNCHANGED <<cache, mutex, op, field, appended>>

(***************************************************************************)
(* The prefix does not fit into an entry: it is rendered straight into the *)
(* line.                                                                   *)
(***************************************************************************)
ResolveTooLong(t) ==
  /\ pc[t] = "resolve"
  /\ ~Matches(field[t], cache[Selected(field[t])])
  /\ KeyLen[field[t].key] > Limit
  /\ appended' = [appended EXCEPT ![t] = PrefixOf(field[t])]
  /\ Goto(t, "return")
  /\ UNCHANGED <<cache, mutex, op, field, slot>>

\* A miss takes a free entry, or the home entry if the probes found none.
ResolveMiss(t) ==
  LET s == Selected(field[t]) IN
  /\ pc[t] = "resolve"
  /\ ~Matches(field[t], cache[s])
  /\ KeyLen[field[t].key] <= Limit
  /\ slot' = [slot EXCEPT ![t] = s]
  /\ cache' = [cache EXCEPT ![s].prefix_len = 0]
  /\ Goto(t, "fill_prefix")
  /\ UNCHANGED <<mutex, op, field, appended>>

FillPrefix(t) ==
  LET f == field[t] IN
  /\ pc[t] = "fill_prefix"
  /\ cache' = [cache EXCEPT ![slot[t]].prefix = PrefixOf(f),
                            ![slot[t]].prefix_len = @ + KeyLen[f.key]]
  /\ Goto(t, "fill_key")
  /\ UNCHANGED <<mutex, op, field, slot, appended>>

FillKey(t) ==
  LET f == field[t] IN
  /\ pc[t] = "fill_key"
  /\ cache' = [cache EXCEPT ![slot[t]].addr = f.addr,
                            ![slot[t]].len = KeyLen[f.key],
                            ![slot[t]].type = f.type]
  /\ Goto(t, "fill_copy")
  /\ UNCHANGED <<mutex, op, field, slot, appended>>

FillCopy(t) ==
  /\ pc[t] = "fill_copy"
  /\ cache' = [cache EXCEPT ![slot[t]].copy = field[t].key]
  /\ Goto(t, "append")
  /\ UNCHANGED <<mutex, op, field, slot, appended>>

--------------------------------------------------------------------------------

\* The text of an entry: nobody's prefix if its length is not that of its text.
Text(e) ==
  IF e.prefix # None /\ e.prefix_len = KeyLen[e.prefix.key] THEN e.prefix ELSE None

(***************************************************************************)
(* pslog_append_console_field_cached copies what the entry holds now.      *)
(***************************************************************************)
AppendPrefix(t) ==
  /\ pc[t] = "append"
  /\ appended' = [appended EXCEPT ![t] = Text(cache[slot[t]])]
  /\ Goto(t, "return")
  /\ UNCHANGED <<cache, mutex, op, field, slot>>

\* A derivation is over.
Return(t) ==
  /\ pc[t] = "return" /\ op[t] = "with"
  /\ op' = [op EXCEPT ![t] = None]
  /\ field' = [field EXCEPT ![t] = None]
  /\ appended' = [appended EXCEPT ![t] = None]
  /\ slot' = [slot EXCEPT ![t] = 0]
  /\ Goto(t, "idle")
  /\ UNCHANGED <<cache, mutex>>

TypeOK ==
  /\ cache \in [Slots -> Entry]
  /\ mutex \in Threads \cup {NoThread}
  /\ pc \in [Threads -> {"idle", "lock", "resolve", "fill_prefix", "fill_key",
                         "fill_copy", "append", "return", "write"}]
  /\ op \in [Threads -> {"log", "with", None}]
  /\ field \in [Threads -> Field \cup {None}]
  /\ slot \in [Threads -> Slots]
  /\ appended \in [Threads -> Prefix \cup {None}]

===============================================================================
