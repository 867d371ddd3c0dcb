------------------------------ MODULE PslogOutput ------------------------------
(***************************************************************************)
(* How the threads of a process share the output of one logger tree.       *)
(*                                                                         *)
(* A log call builds its line in a buffer on the caller's stack, in JSON   *)
(* mode without any lock and in console mode under the output mutex.  When *)
(* the buffer fills up it is flushed to the sink, and from then on the     *)
(* call keeps the output mutex until pslog_write_buffer has written the    *)
(* rest, so that a line longer than the buffer reaches the sink in one     *)
(* piece.  Closing the output takes the same mutex.                        *)
(*                                                                         *)
(* A line is abstracted to the number of units it consists of, its last    *)
(* unit being the newline; the buffer of a thread holds the consecutive    *)
(* units pos - len + 1 .. pos of its line.  The sink decides how much of a *)
(* write it accepts and whether it reports an error.                       *)
(***************************************************************************)
EXTENDS PslogLevel, Sequences, FiniteSets

CONSTANTS
  Threads,         \* threads that use the logger tree
  NoThread,        \* the owner of a free mutex
  Roots,           \* threads whose handle is the root logger (the others: clones)
  Owned,           \* output.owned: the logger may close the output
  MinLevel,        \* min_level of every handle
  CallLevels,      \* the levels of the calls that are made
  Sizes,           \* the lengths of the lines, in units
  Capacity,        \* buffer->capacity, in units
  ChunkCapacity,   \* buffer->chunk_capacity: the largest single write
  MaxCalls         \* bound on the calls each thread makes

ASSUME OutputAssumption ==
  /\ NoThread \notin Threads
  /\ Roots \subseteq Threads
  /\ Owned \in BOOLEAN
  /\ CallLevels \subseteq Level
  /\ Sizes \subseteq Nat \ {0}
  /\ Capacity \in Nat \ {0}
  /\ ChunkCapacity \in Nat \ {0}
  /\ MaxCalls \in Nat

VARIABLES
  mode,      \* shared->mode
  mutex,     \* the owner of shared->output_mutex
  closed,    \* shared->closed
  closes,    \* how often the close callback of the sink has run
  out,       \* the units the sink has accepted, in order
  exited,    \* whether fatal or panic has ended the process
  pc,        \* where each thread is
  call,      \* number of calls each thread has begun
  size,      \* length of the line each thread is emitting
  pos,       \* units of that line appended to the buffer so far
  len,       \* buffer->len
  off,       \* offset in pslog_write_output_locked
  locked,    \* buffer->output_locked
  fatal,     \* whether the call ends the process
  mark,      \* history: Len(out) when the mutex was last released
  faulted,   \* history: lines the sink refused a part of
  finished   \* history: lines whose emission has returned

shared  == <<mode, mutex, closed, closes, out, exited>>
buffer  == <<size, pos, len, off, locked>>
history == <<mark, faulted, finished>>
vars    == <<mode, mutex, closed, closes, out, exited, pc, call, size, pos,
             len, off, locked, fatal, mark, faulted, finished>>

Line == [thr : Threads, seq : 1..MaxCalls, size : Sizes]
Unit == [line : Line, idx : Nat]

\* The line thread t is emitting.
LineOf(t) == [thr |-> t, seq |-> call[t], size |-> size[t]]

\* Units of the line of t that left the buffer, written or dropped.
Sent(t) == pos[t] - len[t] + off[t]

PC == {"idle", "lock_output", "append", "flush", "flushing", "flushed",
       "write_buffer", "draining", "drained", "release", "exit",
       "close", "closing", "close_cb", "closed"}

Init ==
  /\ mode \in {"json", "console"}
  /\ mutex = NoThread
  /\ closed = FALSE
  /\ closes = 0
  /\ out = <<>>
  /\ exited = FALSE
  /\ pc = [t \in Threads |-> "idle"]
  /\ call = [t \in Threads |-> 0]
  /\ size = [t \in Threads |-> 0]
  /\ pos = [t \in Threads |-> 0]
  /\ len = [t \in Threads |-> 0]
  /\ off = [t \in Threads |-> 0]
  /\ locked = [t \in Threads |-> FALSE]
  /\ fatal = [t \in Threads |-> FALSE]
  /\ mark = 0
  /\ faulted = {}
  /\ finished = {}

--------------------------------------------------------------------------------
(* The output mutex.                                                       *)

Goto(t, l) == pc' = [pc EXCEPT ![t] = l]

At(t, l) == ~exited /\ pc[t] = l

Lock(t) == mutex = NoThread /\ mutex' = t

Unlock == mutex' = NoThread /\ mark' = Len(out)

--------------------------------------------------------------------------------
(* Log calls.                                                              *)

(***************************************************************************)
(* pslog_should_log: reads shared->closed without any lock.                *)
(***************************************************************************)
ShouldLog(level) == ~closed /\ LevelEnabled(MinLevel, level)

(***************************************************************************)
(* A call that pslog_should_log refuses emits nothing; fatal and panic     *)
(* calls end the process all the same.                                     *)
(***************************************************************************)
LogSkipped(t, level) ==
  /\ At(t, "idle")
  /\ call[t] < MaxCalls
  /\ ~ShouldLog(level)
  /\ call' = [call EXCEPT ![t] = @ + 1]
  /\ Goto(t, IF Terminates(level) THEN "exit" ELSE "idle")
  /\ UNCHANGED <<shared, buffer, fatal, history>>

(***************************************************************************)
(* pslog_log_impl and pslog_vlogf_impl up to the buffer initialisation of  *)
(* the emit function of the mode.                                          *)
(***************************************************************************)
LogCall(t, level, n) ==
  /\ At(t, "idle")
  /\ call[t] < MaxCalls
  /\ ShouldLog(level)
  /\ call' = [call EXCEPT ![t] = @ + 1]
  /\ fatal' = [fatal EXCEPT ![t] = Terminates(level)]
  /\ size' = [size EXCEPT ![t] = n]
  /\ Goto(t, IF mode = "console" THEN "lock_output" ELSE "append")
  /\ UNCHANGED <<shared, pos, len, off, locked, history>>

(***************************************************************************)
(* pslog_buffer_lock_output: console lines are built under the mutex.      *)
(***************************************************************************)
BufferLockOutput(t) ==
  /\ At(t, "lock_output")
  /\ Lock(t)
  /\ locked' = [locked EXCEPT ![t] = TRUE]
  /\ Goto(t, "append")
  /\ UNCHANGED <<mode, closed, closes, out, exited, call, size, pos, len, off,
                 fatal, history>>

Min2(a, b) == IF a <= b THEN a ELSE b

\* Mutant: the room left in the buffer is not looked at.
BufferAppendUnbounded(t) ==
  /\ At(t, "append")
  /\ pos' = [pos EXCEPT ![t] = size[t]]
  /\ len' = [len EXCEPT ![t] = @ + size[t] - pos[t]]
  /\ Goto(t, "write_buffer")
  /\ UNCHANGED <<shared, call, size, off, locked, fatal, history>>

(***************************************************************************)
(* The append functions, up to the point where the line is complete or the *)
(* buffer is full and there is more to append.                             *)
(***************************************************************************)
BufferAppend(t) ==
  LET n == Min2(size[t] - pos[t], Capacity - len[t]) IN
  /\ At(t, "append")
  /\ pos' = [pos EXCEPT ![t] = @ + n]
  /\ len' = [len EXCEPT ![t] = @ + n]
  /\ Goto(t, IF pos[t] + n = size[t] THEN "write_buffer" ELSE "flush")
  /\ UNCHANGED <<shared, call, size, off, locked, fatal, history>>

(***************************************************************************)
(* pslog_buffer_flush: take the mutex unless this buffer already has it.   *)
(***************************************************************************)
FlushLock(t) ==
  /\ At(t, "flush")
  /\ ~locked[t]
  /\ Lock(t)
  /\ locked' = [locked EXCEPT ![t] = TRUE]
  /\ UNCHANGED <<mode, closed, closes, out, exited, pc, call, size, pos, len,
                 off, fatal, history>>

\* Mutant: the early return on a closed output forgets the mutex.
FlushClosedKeepsMutex(t) ==
  /\ At(t, "flush")
  /\ locked[t]
  /\ closed
  /\ locked' = [locked EXCEPT ![t] = FALSE]
  /\ len' = [len EXCEPT ![t] = 0]
  /\ Goto(t, "append")
  /\ UNCHANGED <<shared, call, size, pos, off, fatal, history>>

(***************************************************************************)
(* pslog_buffer_flush on a closed output: the buffered units are dropped   *)
(* and the mutex is released.                                              *)
(***************************************************************************)
FlushClosed(t) ==
  /\ At(t, "flush")
  /\ locked[t]
  /\ closed
  /\ Unlock
  /\ locked' = [locked EXCEPT ![t] = FALSE]
  /\ len' = [len EXCEPT ![t] = 0]
  /\ Goto(t, "append")
  /\ UNCHANGED <<mode, closed, closes, out, exited, call, size, pos, off,
                 fatal, faulted, finished>>

FlushOpen(t) ==
  /\ At(t, "flush")
  /\ locked[t]
  /\ ~closed
  /\ Goto(t, "flushing")
  /\ UNCHANGED <<shared, call, buffer, fatal, history>>

\* Mutant: after a short write the whole chunk is written again.
OutputWriteRestarts(t, n, err) ==
  LET done == off[t] + n = len[t] IN
  /\ ~exited
  /\ pc[t] \in {"flushing", "draining"}
  /\ n <= Min2(len[t] - off[t], ChunkCapacity)
  /\ out' = out \o [j \in 1..n |-> [line |-> LineOf(t), idx |-> Sent(t) + j]]
  /\ off' = [off EXCEPT ![t] = IF done THEN @ + n ELSE 0]
  /\ pc' = IF done
           THEN [pc EXCEPT ![t] = IF @ = "flushing" THEN "flushed" ELSE "drained"]
           ELSE pc
  /\ UNCHANGED <<mode, mutex, closed, closes, exited, call, size, pos, len,
                 locked, fatal, history>>

\* Mutant: a short write is taken for a complete one.
OutputWriteOnce(t, n, err) ==
  LET done == off[t] + n = len[t] IN
  /\ ~exited
  /\ pc[t] \in {"flushing", "draining"}
  /\ n <= Min2(len[t] - off[t], ChunkCapacity)
  /\ out' = out \o [j \in 1..n |-> [line |-> LineOf(t), idx |-> Sent(t) + j]]
  /\ off' = [off EXCEPT ![t] = @ + n]
  /\ faulted' = IF (err \/ n = 0) /\ ~done THEN faulted \cup {LineOf(t)} ELSE faulted
  /\ pc' = [pc EXCEPT ![t] = IF @ = "flushing" THEN "flushed" ELSE "drained"]
  /\ UNCHANGED <<mode, mutex, closed, closes, exited, call, size, pos, len,
                 locked, fatal, mark, finished>>

(***************************************************************************)
(* One turn of the loop of pslog_write_output_locked: the sink accepts n   *)
(* units of the chunk and reports success or an error.  The loop ends when *)
(* everything is written, on an error, and when nothing was accepted.      *)
(***************************************************************************)
OutputWrite(t, n, err) ==
  LET done == off[t] + n = len[t]
      stop == err \/ n = 0
  IN
  /\ ~exited
  /\ pc[t] \in {"flushing", "draining"}
  /\ n <= Min2(len[t] - off[t], ChunkCapacity)
  /\ out' = out \o [j \in 1..n |-> [line |-> LineOf(t), idx |-> Sent(t) + j]]
  /\ off' = [off EXCEPT ![t] = @ + n]
  /\ faulted' = IF stop /\ ~done THEN faulted \cup {LineOf(t)} ELSE faulted
  /\ pc' = IF done \/ stop
           THEN [pc EXCEPT ![t] = IF @ = "flushing" THEN "flushed" ELSE "drained"]
           ELSE pc
  /\ UNCHANGED <<mode, mutex, closed, closes, exited, call, size, pos, len,
                 locked, fatal, mark, finished>>

\* Mutant: the mutex is released between the chunks of a line.
FlushReturnUnlocks(t) ==
  /\ At(t, "flushed")
  /\ Unlock
  /\ locked' = [locked EXCEPT ![t] = FALSE]
  /\ len' = [len EXCEPT ![t] = 0]
  /\ off' = [off EXCEPT ![t] = 0]
  /\ Goto(t, "append")
  /\ UNCHANGED <<mode, closed, closes, out, exited, call, size, pos, fatal,
                 faulted, finished>>

(***************************************************************************)
(* The end of pslog_buffer_flush: the buffer is emptied, the mutex kept.   *)
(***************************************************************************)
FlushReturn(t) ==
  /\ At(t, "flushed")
  /\ len' = [len EXCEPT ![t] = 0]
  /\ off' = [off EXCEPT ![t] = 0]
  /\ Goto(t, "append")
  /\ UNCHANGED <<shared, call, size, pos, locked, fatal, history>>

\* Mutant: closed is not looked at again once the mutex is held.
WriteBufferTrustsShouldLog(t) ==
  /\ At(t, "write_buffer")
  /\ IF locked[t] THEN UNCHANGED mutex ELSE Lock(t)
  /\ Goto(t, "draining")
  /\ UNCHANGED <<mode, closed, closes, out, exited, call, buffer, fatal,
                 history>>

(***************************************************************************)
(* pslog_write_buffer: returns at once on an empty buffer, otherwise takes *)
(* the mutex unless the buffer has it; a closed output accepts nothing.    *)
(***************************************************************************)
WriteBuffer(t) ==
  /\ At(t, "write_buffer")
  /\ IF len[t] = 0
     THEN /\ Goto(t, "release")
          /\ UNCHANGED mutex
     ELSE /\ IF locked[t] THEN UNCHANGED mutex ELSE Lock(t)
          /\ Goto(t, IF closed THEN "drained" ELSE "draining")
  /\ UNCHANGED <<mode, closed, closes, out, exited, call, buffer, fatal,
                 history>>

\* Mutant: only a mutex taken by pslog_write_buffer itself is released.
WriteBufferReturnOwnOnly(t) ==
  /\ At(t, "drained")
  /\ IF locked[t] THEN UNCHANGED <<mutex, mark>> ELSE Unlock
  /\ locked' = [locked EXCEPT ![t] = FALSE]
  /\ len' = [len EXCEPT ![t] = 0]
  /\ off' = [off EXCEPT ![t] = 0]
  /\ Goto(t, "release")
  /\ UNCHANGED <<mode, closed, closes, out, exited, call, size, pos, fatal,
                 faulted, finished>>

(***************************************************************************)
(* The end of pslog_write_buffer: the mutex is released.                   *)
(***************************************************************************)
WriteBufferReturn(t) ==
  /\ At(t, "drained")
  /\ Unlock
  /\ locked' = [locked EXCEPT ![t] = FALSE]
  /\ len' = [len EXCEPT ![t] = 0]
  /\ off' = [off EXCEPT ![t] = 0]
  /\ Goto(t, "release")
  /\ UNCHANGED <<mode, closed, closes, out, exited, call, size, pos, fatal,
                 faulted, finished>>

(***************************************************************************)
(* The end of the emit functions: the console ones release the mutex if    *)
(* the buffer still has it, the JSON ones just destroy the buffer.         *)
(***************************************************************************)
EmitReturn(t) ==
  /\ At(t, "release")
  /\ IF mode = "console" /\ locked[t]
     THEN Unlock /\ locked' = [locked EXCEPT ![t] = FALSE]
     ELSE UNCHANGED <<mutex, mark, locked>>
  /\ finished' = finished \cup {LineOf(t)}
  /\ size' = [size EXCEPT ![t] = 0]
  /\ pos' = [pos EXCEPT ![t] = 0]
  /\ fatal' = [fatal EXCEPT ![t] = FALSE]
  /\ Goto(t, IF fatal[t] THEN "exit" ELSE "idle")
  /\ UNCHANGED <<mode, closed, closes, out, exited, call, len, off, faulted>>

(***************************************************************************)
(* The exit of pslog_logger_fatal and the abort of pslog_logger_panic.     *)
(***************************************************************************)
Exit(t) ==
  /\ At(t, "exit")
  /\ exited' = TRUE
  /\ UNCHANGED <<mode, mutex, closed, closes, out, pc, call, buffer, fatal,
                 history>>

--------------------------------------------------------------------------------
(* Closing.                                                                *)

(***************************************************************************)
(* pslog_close: only the handle of the root may close, and only an owned   *)
(* output (can_close_shared).                                              *)
(***************************************************************************)
CanClose(t) == Owned /\ t \in Roots

CloseCall(t) ==
  /\ At(t, "idle")
  /\ call[t] < MaxCalls
  /\ call' = [call EXCEPT ![t] = @ + 1]
  /\ Goto(t, "close")
  /\ UNCHANGED <<shared, buffer, fatal, history>>

\* Mutant: closing does not wait for the output mutex.
CloseLockFree(t) ==
  /\ At(t, "close")
  /\ Goto(t, "closing")
  /\ UNCHANGED <<shared, call, buffer, fatal, history>>

CloseLock(t) ==
  /\ At(t, "close")
  /\ Lock(t)
  /\ Goto(t, "closing")
  /\ UNCHANGED <<mode, closed, closes, out, exited, call, buffer, fatal,
                 history>>

(***************************************************************************)
(* pslog_close_shared_locked: sets closed before it calls the sink.        *)
(***************************************************************************)
CloseShared(t) ==
  /\ At(t, "closing")
  /\ IF closed \/ ~CanClose(t)
     THEN Goto(t, "closed") /\ UNCHANGED closed
     ELSE Goto(t, "close_cb") /\ closed' = TRUE
  /\ UNCHANGED <<mode, mutex, closes, out, exited, call, buffer, fatal,
                 history>>

CloseCallback(t) ==
  /\ At(t, "close_cb")
  /\ closes' = closes + 1
  /\ Goto(t, "closed")
  /\ UNCHANGED <<mode, mutex, closed, out, exited, call, buffer, fatal, history>>

CloseReturn(t) ==
  /\ At(t, "closed")
  /\ Unlock
  /\ Goto(t, "idle")
  /\ UNCHANGED <<mode, closed, closes, out, exited, call, buffer, fatal,
                 faulted, finished>>

--------------------------------------------------------------------------------

Emit(t) ==
  \/ BufferLockOutput(t)
  \/ BufferAppend(t)
  \/ FlushLock(t)
  \/ FlushClosed(t)
  \/ FlushOpen(t)
  \/ \E n \in 0..ChunkCapacity, err \in BOOLEAN : OutputWrite(t, n, err)
  \/ FlushReturn(t)
  \/ WriteBuffer(t)
  \/ WriteBufferReturn(t)
  \/ EmitReturn(t)

Close(t) ==
  \/ CloseLock(t)
  \/ CloseShared(t)
  \/ CloseCallback(t)
  \/ CloseReturn(t)

\* The process has ended or every call has been made and has returned.
Finished ==
  \/ exited
  \/ \A t \in Threads : pc[t] = "idle" /\ call[t] = MaxCalls

Next ==
  \/ \E t \in Threads :
       \/ \E level \in CallLevels, n \in Sizes : LogCall(t, level, n)
       \/ \E level \in CallLevels : LogSkipped(t, level)
       \/ CloseCall(t)
       \/ Emit(t)
       \/ Close(t)
       \/ Exit(t)
  \/ Finished /\ UNCHANGED vars

Spec == Init /\ [][Next]_vars

(***************************************************************************)
(* A thread that is inside a call keeps running, and the sink's callbacks  *)
(* return.  A thread waiting for the mutex gets it once the others are     *)
(* done with it: each makes finitely many calls.                           *)
(***************************************************************************)
FairSpec == Spec /\ \A t \in Threads : WF_vars(Emit(t) \/ Close(t) \/ Exit(t))

--------------------------------------------------------------------------------
(* Properties.                                                             *)

TypeOK ==
  /\ mode \in {"json", "console"}
  /\ mutex \in Threads \cup {NoThread}
  /\ closed \in BOOLEAN
  /\ closes \in Nat
  /\ out \in Seq(Unit)
  /\ exited \in BOOLEAN
  /\ pc \in [Threads -> PC]
  /\ call \in [Threads -> 0..MaxCalls]
  /\ size \in [Threads -> Sizes \cup {0}]
  /\ pos \in [Threads -> Nat]
  /\ len \in [Threads -> 0..Capacity]
  /\ off \in [Threads -> 0..Capacity]
  /\ locked \in [Threads -> BOOLEAN]
  /\ fatal \in [Threads -> BOOLEAN]
  /\ mark \in 0..Len(out)
  /\ faulted \subseteq Line
  /\ finished \subseteq Line

\* Where a thread is inside a critical section of the output mutex although
\* its buffer does not say so.
Critical == {"draining", "drained", "closing", "close_cb", "closed"}

(***************************************************************************)
(* The mutex belongs to the thread whose buffer has output_locked set or   *)
(* that is in a section of pslog_write_buffer or pslog_close_shared, and   *)
(* to no other: no call returns with the mutex, none runs without it.      *)
(***************************************************************************)
MutexDiscipline ==
  /\ \A t \in Threads : mutex = t <=> locked[t] \/ pc[t] \in Critical
  /\ \A t \in Threads : pc[t] \in {"idle", "exit"} => mutex # t

(***************************************************************************)
(* The units of a line are consecutive in the output, however many flushes *)
(* and short writes it took to write them and whoever logged meanwhile     *)
(* ("serialized internally").                                              *)
(***************************************************************************)
Contiguous ==
  \A i, k \in 1..Len(out) :
    out[i].line = out[k].line => \A j \in i..k : out[j].line = out[i].line

Precedes(u, v) ==
  \/ u.line.seq < v.line.seq
  \/ u.line = v.line /\ u.idx < v.idx

(***************************************************************************)
(* The lines of a thread reach the sink in the order of its calls, and the *)
(* units of a line in order and at most once, retries of short writes      *)
(* included.                                                               *)
(***************************************************************************)
InOrder ==
  \A i, j \in 1..Len(out) :
    i < j /\ out[i].line.thr = out[j].line.thr => Precedes(out[i], out[j])

Complete(l) ==
  \A u \in 1..l.size : \E i \in 1..Len(out) : out[i] = [line |-> l, idx |-> u]

Absent(l) == \A i \in 1..Len(out) : out[i].line # l

Settled(l) == Complete(l) \/ (closed /\ Absent(l))

(***************************************************************************)
(* A log call that has returned has either put its whole line in the       *)
(* output, or the sink refused a part of it, or the output was closed      *)
(* first and has nothing of it: closing never cuts a line in two.          *)
(***************************************************************************)
Delivered == \A l \in finished \ faulted : Settled(l)

(***************************************************************************)
(* The close callback of the sink runs at most once, and the sink sees no  *)
(* write after it.                                                         *)
(***************************************************************************)
QuietAfterClose ==
  [][closes > 0 => closes' = closes /\ out' = out]_vars

(***************************************************************************)
(* Every call comes back unless the process ends: no thread is left        *)
(* waiting for the output mutex.                                           *)
(***************************************************************************)
CallsReturn ==
  \A t \in Threads : pc[t] # "idle" ~> pc[t] = "idle" \/ exited

--------------------------------------------------------------------------------
(* The inductive invariant behind the safety properties.                   *)

\* Where a thread is emitting a line that is not written out yet.
Emitting == {"lock_output", "append", "flush", "flushing", "flushed",
             "write_buffer", "draining", "drained"}

(***************************************************************************)
(* How the buffer of a thread relates to where the thread is: the counters *)
(* of pslog_buffer and of the write loop agree with the line.              *)
(***************************************************************************)
BufferOK(t) ==
  /\ off[t] <= len[t] /\ len[t] <= pos[t] /\ pos[t] <= size[t]
  /\ pc[t] \in Emitting \cup {"release"} => size[t] > 0 /\ call[t] > 0
  /\ pc[t] \notin Emitting \cup {"release"} => size[t] = 0
  /\ pc[t] \in {"lock_output", "append"} => pos[t] < size[t] /\ len[t] = 0
  /\ pc[t] = "lock_output" => pos[t] = 0
  /\ pc[t] \in {"flush", "flushing", "flushed"} => pos[t] < size[t] /\ len[t] > 0
  /\ pc[t] \in {"write_buffer", "draining", "drained"} => pos[t] = size[t] /\ len[t] > 0
  /\ pc[t] = "release" => pos[t] = size[t] /\ len[t] = 0
  /\ pc[t] \in {"flushing", "draining"} => off[t] < len[t]
  /\ pc[t] \notin {"flushing", "draining", "flushed", "drained"} => off[t] = 0

BufferInv == \A t \in Threads : BufferOK(t)

(***************************************************************************)
(* Who has the mutex, and what having it excludes: the output cannot be    *)
(* closed under a thread that is writing.                                  *)
(***************************************************************************)
LockInv ==
  /\ \A t \in Threads : mutex = t <=> locked[t] \/ pc[t] \in Critical
  /\ \A t \in Threads :
       locked[t] => pc[t] \in Emitting \ {"lock_output"}
  /\ \A t \in Threads : pc[t] \in {"flushing", "flushed"} => locked[t]
  /\ \A t \in Threads : pc[t] \in {"flushing", "draining", "flushed"} => ~closed
  /\ \A t \in Threads : pc[t] = "close_cb" => closed /\ closes = 0
  /\ closes > 0 => closed
  /\ closes <= 1

(***************************************************************************)
(* What is behind the mark was written by the owner of the mutex and is a  *)
(* piece of the line it is emitting (OwnTail); nothing of a line that is   *)
(* being emitted is before the mark (FreshLine).                           *)
(***************************************************************************)
NoTail == mutex = NoThread \/ closed => mark = Len(out)

OwnTail ==
  \A i \in (mark + 1)..Len(out) :
    /\ mutex \in Threads
    /\ pc[mutex] \in Emitting
    /\ out[i].line = LineOf(mutex)
    /\ out[i].idx <= Sent(mutex)

CallsMade ==
  \A i \in 1..Len(out) :
    /\ out[i].line.seq <= call[out[i].line.thr]
    /\ out[i].idx \in 1..out[i].line.size

FreshLine ==
  \A t \in Threads : pc[t] \in Emitting =>
    \A i \in 1..mark : out[i].line.thr = t => out[i].line.seq < call[t]

TailInv == NoTail /\ OwnTail /\ CallsMade /\ FreshLine

(***************************************************************************)
(* While the output is open, a thread without the mutex has sent nothing   *)
(* of its line (NothingSent); the one that has the mutex has written all   *)
(* it has sent, unless the sink refused a part (SentWritten); a line that  *)
(* is about to be finished is settled.                                     *)
(***************************************************************************)
NothingSent ==
  \A t \in Threads : pc[t] \in Emitting /\ ~closed /\ mutex # t => Sent(t) = 0

SentWritten ==
  \A t \in Threads :
    pc[t] \in Emitting /\ ~closed /\ mutex = t /\ LineOf(t) \notin faulted =>
      /\ Len(out) = mark + Sent(t)
      /\ \A i \in (mark + 1)..Len(out) : out[i].idx = i - mark
      /\ pc[t] \in {"flushed", "drained"} => off[t] = len[t]

ReleaseSettled ==
  \A t \in Threads :
    pc[t] = "release" /\ LineOf(t) \notin faulted => Settled(LineOf(t))

WrittenInv == NothingSent /\ SentWritten /\ ReleaseSettled

(***************************************************************************)
(* The log a reader of the sink sees: what was written up to the last      *)
(* release of the mutex.  The tree implements PslogLineLog: every line     *)
(* enters the log in one step, between opening and closing.                *)
(***************************************************************************)
LineLog == INSTANCE PslogLineLog WITH
  Lines   <- Line,
  log     <- SubSeq(out, 1, mark),
  open    <- ~closed,
  refused <- faulted

ImplementsLineLog == LineLog!Spec

================================================================================
