--------------------------- MODULE PslogRenderCache ---------------------------
(***************************************************************************)
(* The caches of rendered values in the shared state: the timestamp of the *)
(* current second and the texts of floating point numbers.  Both are       *)
(* looked up under the state mutex, the value is rendered with the mutex   *)
(* released, and the result is stored under the mutex again.               *)
(*                                                                         *)
(* A log call stamps its line and then appends one number.  In console     *)
(* mode the call has the output mutex from the start; in JSON mode it      *)
(* takes it at the first append that does not fit into the line buffer,    *)
(* and keeps it.  So a thread may hold both mutexes.                       *)
(*                                                                         *)
(* A text is abstracted to the value it renders.                           *)
(***************************************************************************)
EXTENDS Integers, PslogThreads

CONSTANTS
  Seconds,     \* what the clock may show: it may jump and go back
  Values,      \* the numbers
  Lengthy,     \* those whose text does not fit into a cache entry
  DoubleSlots,   \* the entries of the double cache
  DoubleSlot(_)  \* the entry a number hashes to

\* Assumed of the constants.
RenderAssumption ==
  /\ NoThread \notin Threads
  /\ None \notin Seconds \cup Values
  /\ Lengthy \subseteq Values
  /\ \A v \in Values : DoubleSlot(v) \in DoubleSlots

VARIABLES
  mode,        \* shared->mode
  state,       \* the owner of shared->state_mutex
  output,      \* the owner of shared->output_mutex
  second,      \* shared->cached_timestamp_second
  cached,      \* shared->cached_timestamp, None if its length is 0
  doubles,     \* shared->double_cache: None if not valid
  at,          \* where the call of each thread is
  now,         \* the second the call has read from the clock
  value,       \* the number the call logs
  tmp,         \* stamp or tmp, the text on the stack of the call
  stamped,     \* the timestamp in the line
  printed      \* the number in the line

caches == <<second, cached, doubles>>
line == <<now, value, stamped, printed>>

renderVars == <<mode, state, output, second, cached, doubles, at, now, value, tmp, stamped,
                printed>>

Double == [bits : Values, rendered : Values]

EmitPC == {"idle", "lock_output", "stamp", "look_up", "render", "relock", "store",
           "append_stamp", "number", "look_up_number", "format", "relock_number",
           "store_number", "append_number", "done"}

RenderInit ==
  /\ mode \in {"json", "console"}
  /\ state = NoThread
  /\ output = NoThread
  /\ second \in Seconds
  /\ cached = None
  /\ doubles = [s \in DoubleSlots |-> None]
  /\ at = [t \in Threads |-> "idle"]
  /\ now = [t \in Threads |-> None]
  /\ value = [t \in Threads |-> None]
  /\ tmp = [t \in Threads |-> None]
  /\ stamped = [t \in Threads |-> None]
  /\ printed = [t \in Threads |-> None]

Proceed(t, l) == at' = [at EXCEPT ![t] = l]

--------------------------------------------------------------------------------

(***************************************************************************)
(* The start of an emit function: time_now has been called, and v is what  *)
(* there is to log.                                                        *)
(***************************************************************************)
Emit(t, s, v) ==
  /\ at[t] = "idle"
  /\ now' = [now EXCEPT ![t] = s]
  /\ value' = [value EXCEPT ![t] = v]
  /\ Proceed(t, IF mode = "console" THEN "lock_output" ELSE "stamp")
  /\ UNCHANGED <<mode, state, output, caches, tmp, stamped, printed>>

LockOutput(t) ==
  /\ at[t] = "lock_output"
  /\ output = NoThread
  /\ output' = t
  /\ Proceed(t, "stamp")
  /\ UNCHANGED <<mode, state, caches, line, tmp>>

\* pslog_state_lock, from where l is the section that needs it.
LockStateFor(t, from, l) ==
  /\ at[t] = from
  /\ state = NoThread
  /\ state' = t
  /\ Proceed(t, l)
  /\ UNCHANGED <<mode, output, caches, line, tmp>>

\* An append of x to the line that needs no flush.
Stamp(t, x) == stamped' = [stamped EXCEPT ![t] = x]

--------------------------------------------------------------------------------
(* pslog_append_timestamp.                                                 *)

\* Mutant: a stamp that does not fit is appended before the unlock.
UseCachedInside(t, fits) ==
  IF fits
  THEN /\ state' = NoThread
       /\ Stamp(t, cached) /\ Proceed(t, "number") /\ UNCHANGED tmp
  ELSE /\ tmp' = [tmp EXCEPT ![t] = cached]
       /\ Proceed(t, "append_stamp") /\ UNCHANGED <<state, stamped>>

(***************************************************************************)
(* The cached stamp is copied into the line buffer if it fits, and else to *)
(* the stack, to be appended when the state mutex is released.             *)
(***************************************************************************)
UseCached(t, fits) ==
  /\ state' = NoThread
  /\ IF fits
     THEN Stamp(t, cached) /\ Proceed(t, "number") /\ UNCHANGED tmp
     ELSE /\ tmp' = [tmp EXCEPT ![t] = cached]
          /\ Proceed(t, "append_stamp") /\ UNCHANGED stamped

LookUp(t, fits) ==
  /\ at[t] = "look_up"
  /\ IF cached # None /\ second = now[t]
     THEN UseCached(t, fits)
     ELSE /\ state' = NoThread
          /\ Proceed(t, "render")
          /\ UNCHANGED <<tmp, stamped>>
  /\ UNCHANGED <<mode, output, caches, now, value, printed>>

(***************************************************************************)
(* pslog_render_timestamp_value; an empty result leaves the line without a *)
(* stamp.                                                                  *)
(***************************************************************************)
Render(t, ok) ==
  /\ at[t] = "render"
  /\ tmp' = [tmp EXCEPT ![t] = IF ok THEN now[t] ELSE None]
  /\ Proceed(t, IF ok THEN "relock" ELSE "number")
  /\ UNCHANGED <<mode, state, output, caches, line>>

\* Mutant: whatever was cached meanwhile is used.
StoreIfEmpty(t, fits) ==
  /\ at[t] = "store"
  /\ IF cached = None
     THEN /\ second' = now[t]
          /\ cached' = tmp[t]
          /\ state' = NoThread
          /\ Proceed(t, "append_stamp")
          /\ UNCHANGED <<tmp, stamped>>
     ELSE UseCached(t, fits) /\ UNCHANGED <<second, cached>>
  /\ UNCHANGED <<mode, output, doubles, now, value, printed>>

(***************************************************************************)
(* The rendered stamp is stored unless another thread has stored this very *)
(* second meanwhile.                                                       *)
(***************************************************************************)
Store(t, fits) ==
  /\ at[t] = "store"
  /\ IF second # now[t] \/ cached = None
     THEN /\ second' = now[t]
          /\ cached' = tmp[t]
          /\ state' = NoThread
          /\ Proceed(t, "append_stamp")
          /\ UNCHANGED <<tmp, stamped>>
     ELSE UseCached(t, fits) /\ UNCHANGED <<second, cached>>
  /\ UNCHANGED <<mode, output, doubles, now, value, printed>>

(***************************************************************************)
(* An append from the stack: if it does not fit, pslog_buffer_flush takes  *)
(* the output mutex unless the call has it.                                *)
(***************************************************************************)
AppendFlush(t, fits) ==
  IF fits \/ output = t
  THEN UNCHANGED output
  ELSE output = NoThread /\ output' = t

AppendStamp(t, fits) ==
  /\ at[t] = "append_stamp"
  /\ AppendFlush(t, fits)
  /\ Stamp(t, tmp[t])
  /\ Proceed(t, "number")
  /\ UNCHANGED <<mode, state, caches, now, value, tmp, printed>>

--------------------------------------------------------------------------------
(* pslog_buffer_append_double.                                             *)

LookUpNumber(t) ==
  LET d == doubles[DoubleSlot(value[t])] IN
  /\ at[t] = "look_up_number"
  /\ IF d # None /\ d.bits = value[t]
     THEN tmp' = [tmp EXCEPT ![t] = d.rendered] /\ Proceed(t, "append_number")
     ELSE Proceed(t, "format") /\ UNCHANGED tmp
  /\ state' = NoThread
  /\ UNCHANGED <<mode, output, caches, line>>

\* A long text is not cached.
Format(t) ==
  /\ at[t] = "format"
  /\ tmp' = [tmp EXCEPT ![t] = value[t]]
  /\ Proceed(t, IF value[t] \in Lengthy THEN "append_number" ELSE "relock_number")
  /\ UNCHANGED <<mode, state, output, caches, line>>

StoreNumber(t) ==
  /\ at[t] = "store_number"
  /\ doubles' = [doubles EXCEPT ![DoubleSlot(value[t])] =
                   [bits |-> value[t], rendered |-> tmp[t]]]
  /\ state' = NoThread
  /\ Proceed(t, "append_number")
  /\ UNCHANGED <<mode, output, second, cached, line, tmp>>

AppendNumber(t, fits) ==
  /\ at[t] = "append_number"
  /\ AppendFlush(t, fits)
  /\ printed' = [printed EXCEPT ![t] = tmp[t]]
  /\ Proceed(t, "done")
  /\ UNCHANGED <<mode, state, caches, now, value, stamped, tmp>>

\* pslog_write_buffer has written the line and released the output mutex.
EmitReturn(t) ==
  /\ at[t] = "done"
  /\ output \in {t, NoThread}
  /\ output' = NoThread
  /\ now' = [now EXCEPT ![t] = None]
  /\ value' = [value EXCEPT ![t] = None]
  /\ tmp' = [tmp EXCEPT ![t] = None]
  /\ stamped' = [stamped EXCEPT ![t] = None]
  /\ printed' = [printed EXCEPT ![t] = None]
  /\ Proceed(t, "idle")
  /\ UNCHANGED <<mode, state, caches>>

--------------------------------------------------------------------------------

Lock(t) ==
  \/ LockStateFor(t, "stamp", "look_up")
  \/ LockStateFor(t, "relock", "store")
  \/ LockStateFor(t, "number", "look_up_number")
  \/ LockStateFor(t, "relock_number", "store_number")

RenderNext ==
  \E t \in Threads :
    \/ \E s \in Seconds, v \in Values : Emit(t, s, v)
    \/ LockOutput(t)
    \/ Lock(t)
    \/ \E fits \in BOOLEAN : LookUp(t, fits) \/ Store(t, fits)
    \/ \E ok \in BOOLEAN : Render(t, ok)
    \/ \E fits \in BOOLEAN : AppendStamp(t, fits) \/ AppendNumber(t, fits)
    \/ LookUpNumber(t) \/ Format(t) \/ StoreNumber(t)
    \/ EmitReturn(t)

RenderSpec == RenderInit /\ [][RenderNext]_renderVars

--------------------------------------------------------------------------------
(* Properties.                                                             *)

RenderTypeOK ==
  /\ mode \in {"json", "console"}
  /\ state \in Threads \cup {NoThread}
  /\ output \in Threads \cup {NoThread}
  /\ second \in Seconds
  /\ cached \in Seconds \cup {None}
  /\ doubles \in [DoubleSlots -> Double \cup {None}]
  /\ at \in [Threads -> EmitPC]
  /\ now \in [Threads -> Seconds \cup {None}]
  /\ value \in [Threads -> Values \cup {None}]
  /\ tmp \in [Threads -> Seconds \cup Values \cup {None}]
  /\ stamped \in [Threads -> Seconds \cup {None}]
  /\ printed \in [Threads -> Values \cup {None}]

(***************************************************************************)
(* A line carries the second its own call has read from the clock (or none *)
(* if that could not be rendered), although other calls store theirs while *)
(* this one renders, and the clock may go back.                            *)
(***************************************************************************)
OwnSecond ==
  \A t \in Threads : stamped[t] # None => stamped[t] = now[t]

(***************************************************************************)
(* The number in a line is the one the call was given, whichever numbers   *)
(* share its cache entry and whoever stores one meanwhile.                 *)
(***************************************************************************)
OwnNumber ==
  \A t \in Threads : at[t] = "done" => printed[t] = value[t]

\* What a line shows of its own call.
OwnValues == RenderTypeOK /\ OwnSecond /\ OwnNumber

WaitsForState(t) == at[t] \in {"stamp", "relock", "number", "relock_number"}

WaitsForOutput(t) ==
  \/ at[t] = "lock_output"
  \/ at[t] \in {"append_stamp", "append_number", "done"} /\ output # t

(***************************************************************************)
(* The output mutex comes before the state mutex: no call that has the     *)
(* state mutex needs either of them to go on.  Console calls take them in  *)
(* the other order, and neither mutex is recursive.                        *)
(***************************************************************************)
LockOrder ==
  \A t \in Threads : state = t => ~WaitsForState(t) /\ ~WaitsForOutput(t)

--------------------------------------------------------------------------------
(* The inductive invariant behind the properties.                          *)

\* Where a thread has the state mutex.
InState == {"look_up", "store", "look_up_number", "store_number"}

StateMutexInv == \A t \in Threads : state = t <=> at[t] \in InState

EmitInv ==
  \A t \in Threads :
    IF at[t] = "idle" THEN stamped[t] = None
    ELSE now[t] \in Seconds /\ value[t] \in Values

\* What is cached is the text of what it is found by.
CacheInv ==
  /\ cached # None => cached = second
  /\ \A s \in DoubleSlots : doubles[s] # None => doubles[s].rendered = doubles[s].bits

\* What a thread has on its stack, when it uses it.
TmpInv ==
  \A t \in Threads :
    /\ at[t] \in {"relock", "store", "append_stamp"} => tmp[t] = now[t]
    /\ at[t] \in {"relock_number", "store_number", "append_number"} => tmp[t] = value[t]

RenderInv ==
  RenderTypeOK /\ StateMutexInv /\ EmitInv /\ CacheInv /\ TmpInv /\ OwnSecond /\ OwnNumber

===============================================================================
