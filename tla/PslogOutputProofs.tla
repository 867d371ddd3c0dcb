--------------------------- MODULE PslogOutputProofs ---------------------------
(***************************************************************************)
(* Proofs about PslogOutput, for any number of threads and calls and any   *)
(* line lengths and buffer capacities: the state and the mutex, the order  *)
(* of what is written, delivery, and the refinement of PslogLineLog.       *)
(***************************************************************************)
EXTENDS PslogOutput, SequenceTheorems, TLAPS

StateInv == TypeOK /\ BufferInv /\ LockInv

\* A step of thread t: one of its actions.
Step(t) ==
  \/ \E level \in CallLevels, n \in Sizes : LogCall(t, level, n)
  \/ \E level \in CallLevels : LogSkipped(t, level)
  \/ BufferLockOutput(t) \/ BufferAppend(t) \/ FlushLock(t)
  \/ FlushClosed(t) \/ FlushOpen(t)
  \/ \E n \in Nat, err \in BOOLEAN : OutputWrite(t, n, err)
  \/ FlushReturn(t) \/ WriteBuffer(t) \/ WriteBufferReturn(t)
  \/ EmitReturn(t) \/ Exit(t) \/ CloseCall(t) \/ CloseLock(t)
  \/ CloseShared(t) \/ CloseCallback(t) \/ CloseReturn(t)

(***************************************************************************)
(* Every step is a step of one thread, or changes nothing.                 *)
(***************************************************************************)
LEMMA NextCases ==
  ASSUME [Next]_vars
  PROVE  (\E t \in Threads : Step(t)) \/ UNCHANGED vars
  BY OutputAssumption DEF Next, Emit, Close, Step

(***************************************************************************)
(* The counters of a thread are natural numbers within their bounds.       *)
(***************************************************************************)
LEMMA Counters ==
  ASSUME TypeOK, NEW t \in Threads
  PROVE  /\ size[t] \in Nat /\ pos[t] \in Nat /\ len[t] \in Nat /\ off[t] \in Nat
         /\ call[t] \in Nat /\ call[t] <= MaxCalls
         /\ len[t] <= Capacity /\ off[t] <= Capacity
         /\ MaxCalls \in Nat /\ Capacity \in Nat
  <1>1. MaxCalls \in Nat /\ Capacity \in Nat /\ Sizes \cup {0} \subseteq Nat
    BY OutputAssumption
  <1>2. /\ size[t] \in Sizes \cup {0} /\ pos[t] \in Nat /\ len[t] \in 0..Capacity
        /\ off[t] \in 0..Capacity /\ call[t] \in 0..MaxCalls
    BY DEF TypeOK
  <1> QED BY <1>1, <1>2

(***************************************************************************)
(* The line a thread inside an emission writes is one of the lines.        *)
(***************************************************************************)
LEMMA EmittedLine ==
  ASSUME TypeOK, BufferInv, NEW t \in Threads, pc[t] \in Emitting \cup {"release"}
  PROVE  LineOf(t) \in Line
  <1>1. size[t] \in Sizes /\ call[t] \in 1..MaxCalls
    BY OutputAssumption DEF TypeOK, BufferInv, BufferOK
  <1> QED BY <1>1 DEF LineOf, Line

(***************************************************************************)
(* What the write loop appends to the output.                              *)
(***************************************************************************)
LEMMA WriteAppends ==
  ASSUME StateInv, NEW t \in Threads, NEW n \in Nat, NEW err \in BOOLEAN,
         OutputWrite(t, n, err)
  PROVE  /\ LineOf(t) \in Line
         /\ Sent(t) \in Nat
         /\ Sent(t) + n <= pos[t]
         /\ out' \in Seq(Unit)
         /\ Len(out') = Len(out) + n
         /\ \A i \in 1..Len(out) : out'[i] = out[i]
         /\ \A i \in (Len(out) + 1)..Len(out') :
              out'[i] = [line |-> LineOf(t), idx |-> Sent(t) + i - Len(out)]
  <1> DEFINE u == [j \in 1..n |-> [line |-> LineOf(t), idx |-> Sent(t) + j]]
  <1> USE OutputAssumption DEF StateInv
  <1>1. pc[t] \in Emitting /\ out' = out \o u /\ n <= len[t] - off[t]
    <2>1. pc[t] \in Emitting /\ out' = out \o u
      BY DEF OutputWrite, Emitting
    <2>2. n <= Min2(len[t] - off[t], ChunkCapacity)
      BY DEF OutputWrite
    <2>3. n <= len[t] - off[t]
      BY <2>2, Counters DEF Min2
    <2> QED BY <2>1, <2>3
  <1>2. LineOf(t) \in Line
    BY <1>1, EmittedLine
  <1>3. Sent(t) \in Nat /\ Sent(t) + n <= pos[t]
    <2>1. off[t] <= len[t] /\ len[t] <= pos[t]
      BY DEF BufferInv, BufferOK
    <2> QED BY <1>1, <2>1, Counters DEF Sent
  <1>4. \A j \in 1..n : [line |-> LineOf(t), idx |-> Sent(t) + j] \in Unit
    BY <1>2, <1>3 DEF Unit
  <1>5. u \in Seq(Unit) /\ Len(u) = n
    <2>1. u \in [1..n -> Unit]
      BY <1>4
    <2>2. u \in Seq(Unit)
      BY <2>1, SeqDef
    <2>3. DOMAIN u = 1..n /\ DOMAIN u = 1..Len(u) /\ Len(u) \in Nat
      BY <2>2, LenProperties
    <2> QED BY <2>2, <2>3
  <1>6. /\ out \o u \in Seq(Unit)
        /\ Len(out \o u) = Len(out) + Len(u)
        /\ \A i \in 1..Len(out) + Len(u) : (out \o u)[i] =
             IF i <= Len(out) THEN out[i] ELSE u[i - Len(out)]
    BY <1>5, ConcatProperties, SMTT(30) DEF TypeOK
  <1>7. Len(out) \in Nat
    BY DEF TypeOK
  <1>8. ASSUME NEW i \in (Len(out) + 1)..(Len(out) + n)
        PROVE (out \o u)[i] = [line |-> LineOf(t), idx |-> Sent(t) + i - Len(out)]
    <2>1. i - Len(out) \in 1..n /\ i \in 1..(Len(out) + n) /\ ~(i <= Len(out))
      BY <1>7
    <2>2. (out \o u)[i] = u[i - Len(out)]
      BY <2>1, <1>5, <1>6
    <2>3. Sent(t) + (i - Len(out)) = Sent(t) + i - Len(out)
      BY <1>3, <1>7
    <2> QED BY <2>1, <2>2, <2>3
  <1> QED BY <1>1, <1>2, <1>3, <1>5, <1>6, <1>7, <1>8

(***************************************************************************)
(* The state invariant holds initially.                                    *)
(***************************************************************************)
LEMMA InitState == Init => StateInv
  <1> SUFFICES ASSUME Init PROVE StateInv
    OBVIOUS
  <1> USE OutputAssumption DEF Init
  <1>1. out \in Seq(Unit) /\ Len(out) = 0
    BY EmptySeq
  <1>2. TypeOK
    <2>1. mark \in 0..Len(out)
      BY <1>1
    <2>2. /\ pc \in [Threads -> PC]
          /\ call \in [Threads -> 0..MaxCalls]
          /\ len \in [Threads -> 0..Capacity]
          /\ off \in [Threads -> 0..Capacity]
      BY DEF PC
    <2> QED BY <1>1, <2>1, <2>2 DEF TypeOK
  <1>3. BufferInv
    BY DEF BufferInv, BufferOK, Emitting
  <1>4. LockInv
    BY DEF LockInv, Critical
  <1> QED BY <1>2, <1>3, <1>4 DEF StateInv

(***************************************************************************)
(* Every step keeps the types, the buffer within its capacity included.    *)
(***************************************************************************)
LEMMA TypeStep == ASSUME StateInv, [Next]_vars PROVE TypeOK'
  <1> USE OutputAssumption DEF StateInv, PC, At, Goto, shared, history, buffer, Lock, Unlock
  <1>0. Len(out) \in Nat
    BY DEF TypeOK
  <1>1. ASSUME NEW t \in Threads, NEW level \in CallLevels, NEW n \in Sizes,
               LogCall(t, level, n)
        PROVE TypeOK'
    BY <1>1, SMTT(30) DEF LogCall, TypeOK, Terminates
  <1>2. ASSUME NEW t \in Threads, NEW level \in CallLevels, LogSkipped(t, level)
        PROVE TypeOK'
    BY <1>2, SMTT(30) DEF LogSkipped, TypeOK
  <1>3. ASSUME NEW t \in Threads, NEW n \in Nat, NEW err \in BOOLEAN,
               OutputWrite(t, n, err)
        PROVE TypeOK'
    <2>1. LineOf(t) \in Line /\ out' \in Seq(Unit) /\ Len(out') = Len(out) + n
      BY <1>3, WriteAppends
    <2>2. off' \in [Threads -> 0..Capacity]
      BY <1>3, SMTT(30) DEF OutputWrite, TypeOK, BufferInv, BufferOK, Min2
    <2>3. pc' \in [Threads -> PC]
      BY <1>3 DEF OutputWrite, TypeOK
    <2>4. faulted' \subseteq Line
      BY <1>3, <2>1 DEF OutputWrite, TypeOK
    <2>5. mark' \in 0..Len(out')
      BY <1>0, <1>3, <2>1 DEF OutputWrite, TypeOK
    <2> QED BY <1>3, <2>1, <2>2, <2>3, <2>4, <2>5 DEF OutputWrite, TypeOK
  <1>4. ASSUME NEW t \in Threads, BufferLockOutput(t) PROVE TypeOK'
    BY <1>0, <1>4 DEF BufferLockOutput, TypeOK
  <1>5. ASSUME NEW t \in Threads, BufferAppend(t) PROVE TypeOK'
    <2> DEFINE n == Min2(size[t] - pos[t], Capacity - len[t])
    <2>1. pos[t] + n \in Nat /\ len[t] + n \in 0..Capacity
      BY <1>5, Counters DEF BufferAppend, BufferInv, BufferOK, Min2
    <2> HIDE DEF n
    <2>2. pos' = [pos EXCEPT ![t] = @ + n] /\ len' = [len EXCEPT ![t] = @ + n]
      BY <1>5 DEF BufferAppend, n
    <2>3. pos' \in [Threads -> Nat] /\ len' \in [Threads -> 0..Capacity]
      BY <2>1, <2>2 DEF TypeOK
    <2>4. pc' \in [Threads -> PC]
      BY <1>5 DEF BufferAppend, TypeOK
    <2> QED BY <1>0, <1>5, <2>3, <2>4 DEF BufferAppend, TypeOK
  <1>6. ASSUME NEW t \in Threads, FlushLock(t) PROVE TypeOK'
    BY <1>0, <1>6 DEF FlushLock, TypeOK
  <1>7. ASSUME NEW t \in Threads, FlushClosed(t) PROVE TypeOK'
    BY <1>0, <1>7 DEF FlushClosed, TypeOK
  <1>8. ASSUME NEW t \in Threads, FlushOpen(t) PROVE TypeOK'
    BY <1>0, <1>8 DEF FlushOpen, TypeOK
  <1>9. ASSUME NEW t \in Threads, FlushReturn(t) PROVE TypeOK'
    BY <1>0, <1>9, SMTT(30) DEF FlushReturn, TypeOK
  <1>10. ASSUME NEW t \in Threads, WriteBuffer(t) PROVE TypeOK'
    BY <1>0, <1>10 DEF WriteBuffer, TypeOK
  <1>11. ASSUME NEW t \in Threads, WriteBufferReturn(t) PROVE TypeOK'
    BY <1>0, <1>11 DEF WriteBufferReturn, TypeOK
  <1>12. ASSUME NEW t \in Threads, EmitReturn(t) PROVE TypeOK'
    <2>1. LineOf(t) \in Line
      BY <1>12, EmittedLine DEF EmitReturn
    <2>2. finished' \subseteq Line
      BY <1>12, <2>1 DEF EmitReturn, TypeOK
    <2>3. size' \in [Threads -> Sizes \cup {0}] /\ pos' \in [Threads -> Nat]
      BY <1>12 DEF EmitReturn, TypeOK
    <2>4. mark' \in 0..Len(out') /\ mutex' \in Threads \cup {NoThread}
      BY <1>0, <1>12 DEF EmitReturn, TypeOK
    <2>5. locked' = [locked EXCEPT ![t] = FALSE] \/ locked' = locked
      BY <1>12 DEF EmitReturn
    <2>6. locked' \in [Threads -> BOOLEAN]
      BY <2>5 DEF TypeOK
    <2> QED BY <1>12, <2>2, <2>3, <2>4, <2>6 DEF EmitReturn, TypeOK
  <1>13. ASSUME NEW t \in Threads, Exit(t) PROVE TypeOK'
    BY <1>0, <1>13 DEF Exit, TypeOK
  <1>14. ASSUME NEW t \in Threads, CloseCall(t) PROVE TypeOK'
    BY <1>0, <1>14, SMTT(30) DEF CloseCall, TypeOK
  <1>15. ASSUME NEW t \in Threads, CloseLock(t) PROVE TypeOK'
    BY <1>0, <1>15 DEF CloseLock, TypeOK
  <1>16. ASSUME NEW t \in Threads, CloseShared(t) PROVE TypeOK'
    BY <1>0, <1>16 DEF CloseShared, TypeOK
  <1>17. ASSUME NEW t \in Threads, CloseCallback(t) PROVE TypeOK'
    <2>1. closes' \in Nat
      BY <1>17 DEF CloseCallback, TypeOK
    <2>2. pc' \in [Threads -> PC]
      BY <1>0, <1>17 DEF CloseCallback, Goto, PC, TypeOK
    <2> QED BY <1>17, <2>1, <2>2 DEF CloseCallback, TypeOK
  <1>18. ASSUME NEW t \in Threads, CloseReturn(t) PROVE TypeOK'
    BY <1>0, <1>18 DEF CloseReturn, TypeOK
  <1>19. ASSUME UNCHANGED vars PROVE TypeOK'
    BY <1>19 DEF vars, TypeOK
  <1> QED 
    BY NextCases, <1>1, <1>2, <1>3, <1>4, <1>5, <1>6, <1>7, <1>8, <1>9, <1>10, <1>11,
       <1>12, <1>13, <1>14, <1>15, <1>16, <1>17, <1>18, <1>19 DEF Step

(***************************************************************************)
(* A step of thread t leaves the other threads where they are.             *)
(***************************************************************************)
LEMMA Frame ==
  ASSUME TypeOK, NEW t \in Threads, Step(t), NEW s \in Threads, s # t
  PROVE  /\ pc'[s] = pc[s] /\ call'[s] = call[s] /\ size'[s] = size[s]
         /\ pos'[s] = pos[s] /\ len'[s] = len[s] /\ off'[s] = off[s]
         /\ (locked'[s] <=> locked[s])
  <1> USE DEF TypeOK, Goto, buffer
  <1>1. CASE \E level \in CallLevels, n \in Sizes : LogCall(t, level, n)
    BY <1>1 DEF LogCall
  <1>2. CASE \E level \in CallLevels : LogSkipped(t, level)
    BY <1>2 DEF LogSkipped
  <1>3. CASE \E n \in Nat, err \in BOOLEAN : OutputWrite(t, n, err)
    BY <1>3 DEF OutputWrite
  <1>4. CASE BufferLockOutput(t)
    BY <1>4 DEF BufferLockOutput
  <1>5. CASE BufferAppend(t)
    BY <1>5 DEF BufferAppend
  <1>6. CASE FlushLock(t)
    BY <1>6 DEF FlushLock
  <1>7. CASE FlushClosed(t)
    BY <1>7 DEF FlushClosed
  <1>8. CASE FlushOpen(t)
    BY <1>8 DEF FlushOpen
  <1>9. CASE FlushReturn(t)
    BY <1>9 DEF FlushReturn
  <1>10. CASE WriteBuffer(t)
    BY <1>10 DEF WriteBuffer
  <1>11. CASE WriteBufferReturn(t)
    BY <1>11 DEF WriteBufferReturn
  <1>12. CASE EmitReturn(t)
    BY <1>12 DEF EmitReturn
  <1>13. CASE Exit(t)
    BY <1>13 DEF Exit
  <1>14. CASE CloseCall(t)
    BY <1>14 DEF CloseCall
  <1>15. CASE CloseLock(t)
    BY <1>15 DEF CloseLock
  <1>16. CASE CloseShared(t)
    BY <1>16 DEF CloseShared
  <1>17. CASE CloseCallback(t)
    BY <1>17 DEF CloseCallback
  <1>18. CASE CloseReturn(t)
    BY <1>18 DEF CloseReturn
  <1> QED
    BY <1>1, <1>2, <1>3, <1>4, <1>5, <1>6, <1>7, <1>8, <1>9, <1>10, <1>11, <1>12,
       <1>13, <1>14, <1>15, <1>16, <1>17, <1>18 DEF Step

(***************************************************************************)
(* Every step keeps the counters of the buffers in line with where their   *)
(* threads are.                                                            *)
(***************************************************************************)
LEMMA BufferStep == ASSUME StateInv, [Next]_vars PROVE BufferInv'
  <1> USE OutputAssumption DEF StateInv
  <1>1. ASSUME NEW t \in Threads, Step(t) PROVE BufferOK(t)'
    <2>0. /\ BufferOK(t) /\ TypeOK
          /\ size[t] \in Nat /\ pos[t] \in Nat /\ len[t] \in Nat /\ off[t] \in Nat
          /\ call[t] \in Nat /\ len[t] <= Capacity /\ Capacity \in Nat \ {0}
      BY Counters DEF BufferInv
    <2> USE <2>0 DEF TypeOK, At, Goto, buffer, shared, Emitting
    <2>1. CASE \E level \in CallLevels, n \in Sizes : LogCall(t, level, n)
      <3>1. PICK level \in CallLevels, n \in Sizes : LogCall(t, level, n)
        BY <2>1
      <3>2. n \in Nat /\ n > 0
        OBVIOUS
      <3> QED BY <3>1, <3>2 DEF LogCall, BufferOK
    <2>2. CASE \E level \in CallLevels : LogSkipped(t, level)
      BY <2>2 DEF LogSkipped, BufferOK
    <2>3. CASE \E n \in Nat, err \in BOOLEAN : OutputWrite(t, n, err)
      <3>1. PICK n \in Nat, err \in BOOLEAN : OutputWrite(t, n, err)
        BY <2>3
      <3>2. n <= len[t] - off[t] /\ off'[t] = off[t] + n
        BY <3>1 DEF OutputWrite, Min2
      <3>3. \/ pc'[t] = pc[t] /\ off[t] + n # len[t]
            \/ pc[t] = "flushing" /\ pc'[t] = "flushed"
            \/ pc[t] = "draining" /\ pc'[t] = "drained"
        BY <3>1 DEF OutputWrite
      <3>4. /\ pc[t] \in {"flushing", "draining"}
            /\ UNCHANGED <<size, pos, len, call>>
        BY <3>1 DEF OutputWrite
      <3> HIDE DEF TypeOK
      <3>5. off'[t] \in Nat /\ off'[t] <= len[t]
        BY <3>2
      <3>6. \/ pc'[t] = pc[t] /\ off'[t] < len[t]
            \/ pc[t] = "flushing" /\ pc'[t] = "flushed"
            \/ pc[t] = "draining" /\ pc'[t] = "drained"
        BY <3>2, <3>3, <3>4, <3>5
      <3> QED BY <3>4, <3>5, <3>6 DEF BufferOK
    <2>4. CASE BufferLockOutput(t)
      BY <2>4 DEF BufferLockOutput, BufferOK
    <2>5. CASE BufferAppend(t)
      BY <2>5, SMTT(30) DEF BufferAppend, BufferOK, Min2
    <2>6. CASE FlushLock(t)
      BY <2>6 DEF FlushLock, BufferOK
    <2>7. CASE FlushClosed(t)
      BY <2>7 DEF FlushClosed, BufferOK
    <2>8. CASE FlushOpen(t)
      BY <2>8 DEF FlushOpen, BufferOK
    <2>9. CASE FlushReturn(t)
      BY <2>9 DEF FlushReturn, BufferOK
    <2>10. CASE WriteBuffer(t)
      BY <2>10 DEF WriteBuffer, BufferOK
    <2>11. CASE WriteBufferReturn(t)
      BY <2>11 DEF WriteBufferReturn, BufferOK
    <2>12. CASE EmitReturn(t)
      BY <2>12 DEF EmitReturn, BufferOK
    <2>13. CASE Exit(t)
      BY <2>13 DEF Exit, BufferOK
    <2>14. CASE CloseCall(t)
      BY <2>14 DEF CloseCall, BufferOK
    <2>15. CASE CloseLock(t)
      BY <2>15 DEF CloseLock, BufferOK
    <2>16. CASE CloseShared(t)
      BY <2>16 DEF CloseShared, BufferOK
    <2>17. CASE CloseCallback(t)
      BY <2>17 DEF CloseCallback, BufferOK
    <2>18. CASE CloseReturn(t)
      BY <2>18 DEF CloseReturn, BufferOK
    <2> QED
      BY <1>1, <2>1, <2>2, <2>3, <2>4, <2>5, <2>6, <2>7, <2>8, <2>9, <2>10, <2>11, <2>12,
         <2>13, <2>14, <2>15, <2>16, <2>17, <2>18 DEF Step
  <1>2. ASSUME NEW t \in Threads, Step(t), NEW s \in Threads, s # t PROVE BufferOK(s)'
    BY <1>2, Frame DEF BufferInv, BufferOK
  <1>3. ASSUME UNCHANGED vars PROVE BufferInv'
    BY <1>3 DEF vars, BufferInv, BufferOK
  <1> QED BY NextCases, <1>1, <1>2, <1>3 DEF BufferInv

(***************************************************************************)
(* Every step keeps the mutex with the thread that is in a critical        *)
(* section.                                                                *)
(***************************************************************************)
LEMMA LockStep == ASSUME StateInv, [Next]_vars PROVE LockInv'
  <1>0. TypeOK /\ LockInv
    BY DEF StateInv
  <1>1. ASSUME NEW t \in Threads, Step(t) PROVE LockInv'
    <2>0. /\ pc \in [Threads -> PC] /\ locked \in [Threads -> BOOLEAN]
          /\ closes \in Nat
      BY <1>0 DEF TypeOK
    <2>f. \A s \in Threads : s # t => pc'[s] = pc[s] /\ (locked'[s] <=> locked[s])
      BY <1>0, <1>1, Frame
    <2> USE OutputAssumption, <1>0, <2>0, <2>f
            DEF At, Goto, Lock, Unlock, buffer, shared, Emitting, Critical, LockInv
    <2>1. CASE \E level \in CallLevels, n \in Sizes : LogCall(t, level, n)
      BY <2>1 DEF LogCall
    <2>2. CASE \E level \in CallLevels : LogSkipped(t, level)
      BY <2>2 DEF LogSkipped
    <2>3. CASE \E n \in Nat, err \in BOOLEAN : OutputWrite(t, n, err)
      <3>1. /\ UNCHANGED <<mutex, closed, closes, locked>>
            /\ \/ pc'[t] = pc[t]
               \/ pc[t] = "flushing" /\ pc'[t] = "flushed"
               \/ pc[t] = "draining" /\ pc'[t] = "drained"
        BY <2>3 DEF OutputWrite
      <3> QED BY <3>1
    <2>4. CASE BufferLockOutput(t)
      BY <2>4 DEF BufferLockOutput
    <2>5. CASE BufferAppend(t)
      BY <2>5 DEF BufferAppend
    <2>6. CASE FlushLock(t)
      BY <2>6 DEF FlushLock
    <2>7. CASE FlushClosed(t)
      BY <2>7 DEF FlushClosed
    <2>8. CASE FlushOpen(t)
      BY <2>8 DEF FlushOpen
    <2>9. CASE FlushReturn(t)
      BY <2>9 DEF FlushReturn
    <2>10. CASE WriteBuffer(t)
      <3>1. len[t] # 0
        BY <2>10, Counters DEF WriteBuffer, StateInv, BufferInv, BufferOK
      <3>2. /\ UNCHANGED <<closed, closes, locked>>
            /\ pc[t] = "write_buffer"
            /\ pc'[t] = "drained" \/ (~closed /\ pc'[t] = "draining")
            /\ IF locked[t] THEN mutex' = mutex ELSE mutex = NoThread /\ mutex' = t
        BY <2>10, <3>1 DEF WriteBuffer
      <3> QED BY <3>2
    <2>11. CASE WriteBufferReturn(t)
      BY <2>11 DEF WriteBufferReturn
    <2>12. CASE EmitReturn(t)
      BY <2>12 DEF EmitReturn
    <2>13. CASE Exit(t)
      BY <2>13 DEF Exit
    <2>14. CASE CloseCall(t)
      BY <2>14 DEF CloseCall
    <2>15. CASE CloseLock(t)
      BY <2>15 DEF CloseLock
    <2>16. CASE CloseShared(t)
      BY <2>16 DEF CloseShared
    <2>17. CASE CloseCallback(t)
      BY <2>17 DEF CloseCallback
    <2>18. CASE CloseReturn(t)
      BY <2>18 DEF CloseReturn
    <2> QED
      BY <1>1, <2>1, <2>2, <2>3, <2>4, <2>5, <2>6, <2>7, <2>8, <2>9, <2>10, <2>11, <2>12,
         <2>13, <2>14, <2>15, <2>16, <2>17, <2>18 DEF Step
  <1>2. ASSUME UNCHANGED vars PROVE LockInv'
    BY <1>0, <1>2 DEF vars, LockInv
  <1> QED BY NextCases, <1>1, <1>2

(***************************************************************************)
(* The state invariant holds throughout.                                   *)
(***************************************************************************)
LEMMA StateInvariant == Spec => []StateInv
  <1>1. StateInv /\ [Next]_vars => StateInv'
    BY TypeStep, BufferStep, LockStep DEF StateInv
  <1> QED BY <1>1, InitState, PTL DEF Spec

(***************************************************************************)
(* The state stays well typed: in particular no append makes len exceed    *)
(* the capacity of the buffer, whatever the line lengths and capacities.   *)
(***************************************************************************)
THEOREM TypeCorrect == Spec => []TypeOK
  <1>1. StateInv => TypeOK
    BY DEF StateInv
  <1> QED BY <1>1, StateInvariant, PTL

(***************************************************************************)
(* The output mutex is held exactly by the thread whose buffer or position *)
(* says so; no call returns with it.                                       *)
(***************************************************************************)
THEOREM MutexHeld == Spec => []MutexDiscipline
  <1>1. StateInv => MutexDiscipline
    BY DEF StateInv, LockInv, MutexDiscipline, Emitting, Critical
  <1> QED BY <1>1, StateInvariant, PTL

(***************************************************************************)
(* Once the close callback of the sink has run it does not run again, and  *)
(* nothing is written.                                                     *)
(***************************************************************************)
THEOREM Quiet == Spec => QuietAfterClose
  <1>1. ASSUME StateInv, [Next]_vars, closes > 0
        PROVE  closes' = closes /\ out' = out
    <2>1. closed /\ \A t \in Threads : pc[t] \notin {"flushing", "draining", "close_cb"}
      BY <1>1 DEF StateInv, LockInv
    <2>2. ASSUME NEW t \in Threads, Step(t) PROVE closes' = closes /\ out' = out
      BY <2>1, <2>2 DEF Step, At, shared, LogCall, LogSkipped, BufferLockOutput, BufferAppend,
         FlushLock, FlushClosed, FlushOpen, OutputWrite, FlushReturn, WriteBuffer,
         WriteBufferReturn, EmitReturn, Exit, CloseCall, CloseLock, CloseShared, CloseCallback,
         CloseReturn
    <2> QED BY <1>1, <2>2, NextCases DEF vars
  <1>2. StateInv /\ [Next]_vars => [closes > 0 => closes' = closes /\ out' = out]_vars
    BY <1>1
  <1> QED BY <1>2, StateInvariant, PTL DEF Spec, QuietAfterClose

--------------------------------------------------------------------------------
(* The order of the output.                                                *)

OrderInv == TailInv /\ Contiguous /\ InOrder

(***************************************************************************)
(* What the entries of the output and its history variables are made of.   *)
(***************************************************************************)
LEMMA Units ==
  ASSUME TypeOK, NEW i \in 1..Len(out)
  PROVE  /\ out[i] \in Unit /\ out[i].line \in Line /\ out[i].idx \in Nat
         /\ out[i].line.thr \in Threads
         /\ out[i].line.seq \in Nat /\ out[i].line.size \in Nat
  <1>1. out[i] \in Unit
    BY ElementOfSeq DEF TypeOK
  <1>2. out[i].line \in Line /\ out[i].idx \in Nat
    BY <1>1 DEF Unit
  <1>3. /\ out[i].line.thr \in Threads /\ out[i].line.seq \in 1..MaxCalls
        /\ out[i].line.size \in Sizes
    BY <1>2 DEF Line
  <1>4. MaxCalls \in Nat /\ Sizes \subseteq Nat
    BY OutputAssumption
  <1>5. out[i].line.seq \in Nat
    BY <1>3, <1>4
  <1>6. out[i].line.size \in Nat
    BY <1>3, <1>4
  <1> QED BY <1>1, <1>2, <1>3, <1>5, <1>6

(***************************************************************************)
(* Steps that write nothing and after which no line is half written.       *)
(***************************************************************************)
LEMMA TailEmptied ==
  ASSUME StateInv, TailInv, NEW t \in Threads, Step(t),
         out' = out, mark' = Len(out), call' = call,
         mutex \in {t, NoThread} \/ mark = Len(out),
         pc'[t] \in Emitting => pc[t] \in Emitting /\ mark = Len(out)
  PROVE  TailInv'
  <1> USE DEF StateInv
  <1>0. Len(out) \in Nat /\ mark \in Nat
    BY DEF TypeOK
  <1>1. NoTail' /\ OwnTail' /\ CallsMade'
    BY <1>0 DEF NoTail, OwnTail, CallsMade, TailInv
  <1>2. ASSUME NEW s \in Threads, pc'[s] \in Emitting,
               NEW i \in 1..Len(out), out[i].line.thr = s
        PROVE  out[i].line.seq < call[s]
    <2>1. pc[s] \in Emitting
      BY <1>2, Frame
    <2>2. CASE i <= mark
      BY <1>0, <1>2, <2>1, <2>2 DEF TailInv, FreshLine
    <2>3. CASE i > mark
      <3>1. /\ i \in (mark + 1)..Len(out) /\ mark # Len(out)
            /\ out[i].line = LineOf(mutex) /\ mutex \in Threads
        BY <1>0, <2>3 DEF TailInv, OwnTail
      <3>2. mutex = t
        BY <3>1, OutputAssumption
      <3>3. s = t
        BY <1>2, <3>1, <3>2 DEF LineOf
      <3> QED BY <1>2, <3>1, <3>3
    <2> QED BY <1>0, <2>2, <2>3
  <1>3. FreshLine'
    BY <1>2 DEF FreshLine
  <1> QED BY <1>1, <1>3 DEF TailInv

(***************************************************************************)
(* Steps that write nothing and leave the mutex with its owner.            *)
(***************************************************************************)
LEMMA TailKept ==
  ASSUME StateInv, TailInv, TypeOK', NEW t \in Threads, Step(t),
         out' = out, mark' = mark, mutex' = mutex, closed' = closed,
         call'[t] = call[t] \/ call'[t] = call[t] + 1,
         pc'[t] \in Emitting => pc[t] \in Emitting \/ call'[t] = call[t] + 1,
         mutex = t /\ pc[t] \in Emitting =>
           /\ pc'[t] \in Emitting /\ call'[t] = call[t] /\ size'[t] = size[t]
           /\ Sent(t)' >= Sent(t)
  PROVE  TailInv'
  <1> USE DEF StateInv
  <1>0. Len(out) \in Nat /\ mark \in Nat /\ mark <= Len(out)
    BY DEF TypeOK
  <1>1. ASSUME NEW s \in Threads
        PROVE  call[s] \in Nat /\ call'[s] \in Nat /\ call'[s] >= call[s]
    <2>1. call[s] \in Nat /\ (s # t => call'[s] = call[s])
      BY Counters, Frame
    <2> QED BY <2>1
  <1>2. NoTail'
    BY DEF NoTail, TailInv
  <1>3. OwnTail'
    <2> SUFFICES ASSUME NEW i \in (mark + 1)..Len(out)
                 PROVE  /\ mutex \in Threads
                        /\ pc'[mutex] \in Emitting
                        /\ out[i].line = LineOf(mutex)'
                        /\ out[i].idx <= Sent(mutex)'
      BY DEF OwnTail
    <2>1. /\ mutex \in Threads /\ pc[mutex] \in Emitting
          /\ out[i].line = LineOf(mutex) /\ out[i].idx <= Sent(mutex)
      BY DEF TailInv, OwnTail
    <2>2. CASE mutex # t
      BY <2>1, <2>2, Frame DEF LineOf, Sent
    <2>3. CASE mutex = t
      <3>0. /\ pos[t] \in Nat /\ len[t] \in Nat /\ off[t] \in Nat
            /\ pos'[t] \in Nat /\ len'[t] \in Nat /\ off'[t] \in Nat
        <4>1. Capacity \in Nat /\ pos'[t] \in Nat /\ len'[t] \in 0..Capacity /\ off'[t] \in 0..Capacity
          BY OutputAssumption DEF TypeOK
        <4> QED BY <4>1, Counters
      <3>1. Sent(t) \in Int /\ Sent(t)' \in Int
        <4>1. Sent(t) = pos[t] - len[t] + off[t] /\ Sent(t)' = pos'[t] - len'[t] + off'[t]
          BY DEF Sent
        <4>2. pos[t] - len[t] + off[t] \in Int
          BY <3>0
        <4>3. pos'[t] - len'[t] + off'[t] \in Int
          BY <3>0
        <4> QED BY <4>1, <4>2, <4>3
      <3>2. out[i].idx \in Nat
        BY <1>0, Units
      <3> QED BY <2>1, <2>3, <3>1, <3>2 DEF LineOf
    <2> QED BY <2>2, <2>3
  <1>4. CallsMade'
    <2> SUFFICES ASSUME NEW i \in 1..Len(out)
                 PROVE  out[i].line.seq <= call'[out[i].line.thr]
      BY DEF CallsMade, TailInv
    <2> QED BY <1>1, Units DEF CallsMade, TailInv
  <1>5. FreshLine'
    <2> SUFFICES ASSUME NEW s \in Threads, pc'[s] \in Emitting,
                        NEW i \in 1..mark, out[i].line.thr = s
                 PROVE  out[i].line.seq < call'[s]
      BY DEF FreshLine
    <2>1. i \in 1..Len(out) /\ out[i].line.seq \in Nat /\ out[i].line.seq <= call[s]
      BY <1>0, Units DEF CallsMade, TailInv
    <2>2. CASE pc[s] \in Emitting
      BY <1>1, <2>1, <2>2 DEF FreshLine, TailInv
    <2>3. CASE pc[s] \notin Emitting
      <3>1. call'[s] = call[s] + 1
        BY <2>3, Frame
      <3> QED BY <1>1, <2>1, <3>1
    <2> QED BY <2>2, <2>3
  <1> QED BY <1>2, <1>3, <1>4, <1>5 DEF TailInv

(***************************************************************************)
(* What a write does to the output and to the state it is judged by: new   *)
(* units belong to the line of t and are behind everything t has sent; old *)
(* units of t belong to earlier calls or to the same line.                 *)
(***************************************************************************)
LEMMA WriteFacts ==
  ASSUME StateInv, TailInv, NEW t \in Threads, NEW n \in Nat, NEW err \in BOOLEAN,
         OutputWrite(t, n, err)
  PROVE  /\ mutex = t /\ ~closed /\ pc[t] \in Emitting /\ pc'[t] \in Emitting
         /\ UNCHANGED <<mark, mutex, closed, call, size, pos, len>>
         /\ LineOf(t)' = LineOf(t) /\ Sent(t)' = Sent(t) + n
         /\ \A i \in 1..Len(out') :
              \/ i \in 1..Len(out) /\ out'[i] = out[i]
              \/ /\ i > Len(out) /\ out'[i].line = LineOf(t)
                 /\ out'[i].idx = Sent(t) + i - Len(out)
         /\ \A i \in 1..Len(out) : out[i].line.thr = t =>
              \/ i <= mark /\ out[i].line.seq < call[t]
              \/ i > mark /\ out[i].line = LineOf(t) /\ out[i].idx <= Sent(t)
  <1> USE DEF StateInv
  <1>0. Len(out) \in Nat /\ mark \in Nat /\ mark <= Len(out)
    BY DEF TypeOK
  <1>1. pc[t] \in {"flushing", "draining"}
    BY DEF OutputWrite
  <1>2. mutex = t /\ ~closed
    BY <1>1 DEF LockInv, Critical
  <1>3. UNCHANGED <<mark, mutex, closed, call, size, pos, len>>
    BY DEF OutputWrite
  <1>4. pc[t] \in Emitting /\ pc'[t] \in Emitting
    BY <1>1 DEF OutputWrite, Emitting, TypeOK
  <1>5. LineOf(t)' = LineOf(t)
    BY <1>3 DEF LineOf
  <1>6. Sent(t)' = Sent(t) + n
    <2>1. off'[t] = off[t] + n
      BY DEF OutputWrite, TypeOK
    <2>2. pos[t] - len[t] + (off[t] + n) = (pos[t] - len[t] + off[t]) + n
      BY Counters
    <2>3. /\ Sent(t) = pos[t] - len[t] + off[t]
          /\ Sent(t)' = pos'[t] - len'[t] + off'[t]
      BY DEF Sent
    <2>4. pos'[t] = pos[t] /\ len'[t] = len[t]
      BY <1>3
    <2>5. Sent(t)' = pos[t] - len[t] + (off[t] + n)
      BY <2>1, <2>3, <2>4
    <2> QED BY <2>2, <2>3, <2>5
  <1>7. ASSUME NEW i \in 1..Len(out')
        PROVE  \/ i \in 1..Len(out) /\ out'[i] = out[i]
               \/ /\ i > Len(out) /\ out'[i].line = LineOf(t)
                  /\ out'[i].idx = Sent(t) + i - Len(out)
    <2>1. /\ Len(out') = Len(out) + n
          /\ \A k \in 1..Len(out) : out'[k] = out[k]
          /\ \A k \in (Len(out) + 1)..Len(out') :
              out'[k] = [line |-> LineOf(t), idx |-> Sent(t) + k - Len(out)]
      BY WriteAppends
    <2>2. i \in 1..Len(out) \/ (i \in (Len(out) + 1)..Len(out') /\ i > Len(out))
      BY <1>0, <2>1
    <2>3. CASE i \in 1..Len(out)
      BY <2>1, <2>3
    <2>4. CASE i \in (Len(out) + 1)..Len(out') /\ i > Len(out)
      <3>1. out'[i] = [line |-> LineOf(t), idx |-> Sent(t) + i - Len(out)]
        BY <2>1, <2>4
      <3>2. out'[i].line = LineOf(t) /\ out'[i].idx = Sent(t) + i - Len(out)
        BY <3>1
      <3> QED BY <2>4, <3>2
    <2> QED BY <2>2, <2>3, <2>4
  <1>8. ASSUME NEW i \in 1..Len(out), out[i].line.thr = t
        PROVE  \/ i <= mark /\ out[i].line.seq < call[t]
               \/ i > mark /\ out[i].line = LineOf(t) /\ out[i].idx <= Sent(t)
    <2>1. CASE i <= mark
      <3>1. i \in 1..mark
        BY <1>0, <2>1
      <3> QED BY <1>4, <1>8, <2>1, <3>1 DEF TailInv, FreshLine
    <2>2. CASE i > mark
      <3>1. i \in (mark + 1)..Len(out)
        BY <1>0, <2>2
      <3> QED BY <1>2, <2>2, <3>1 DEF TailInv, OwnTail
    <2> QED BY <1>0, <2>1, <2>2
  <1> QED BY <1>2, <1>3, <1>4, <1>5, <1>6, <1>7, <1>8

(***************************************************************************)
(* A write of the owner of the mutex extends the tail by its own line.     *)
(***************************************************************************)
LEMMA WriteTail ==
  ASSUME StateInv, TailInv, NEW t \in Threads, NEW n \in Nat, NEW err \in BOOLEAN,
         OutputWrite(t, n, err)
  PROVE  TailInv'
  <1> USE DEF StateInv
  <1>0. Len(out) \in Nat /\ mark \in Nat /\ mark <= Len(out)
    BY DEF TypeOK
  <1>1. /\ Sent(t) \in Nat /\ Sent(t) + n <= size[t] /\ size[t] \in Nat
        /\ Len(out') = Len(out) + n
        /\ \A i \in 1..Len(out) : out'[i] = out[i]
    <2>1. Sent(t) \in Nat /\ Sent(t) + n <= pos[t] /\ Len(out') = Len(out) + n
          /\ \A i \in 1..Len(out) : out'[i] = out[i]
      BY WriteAppends
    <2>2. pos[t] <= size[t]
      BY DEF BufferInv, BufferOK
    <2> QED BY <2>1, <2>2, Counters
  <1>2. NoTail'
    BY WriteFacts, OutputAssumption DEF NoTail
  <1>3. OwnTail'
    <2> SUFFICES ASSUME NEW i \in (mark + 1)..Len(out')
                 PROVE  out'[i].line = LineOf(t) /\ out'[i].idx <= Sent(t) + n
      BY WriteFacts DEF OwnTail
    <2>1. i \in 1..Len(out')
      BY <1>0, <1>1
    <2>2. CASE i \in 1..Len(out) /\ out'[i] = out[i]
      <3>1. i \in (mark + 1)..Len(out)
        BY <1>0, <1>1, <2>2
      <3>2. out[i].line = LineOf(t) /\ out[i].idx <= Sent(t)
        BY <3>1, WriteFacts DEF TailInv, OwnTail
      <3>3. out[i].idx \in Nat
        BY <2>2, Units
      <3> QED BY <1>1, <2>2, <3>2, <3>3
    <2>3. CASE out'[i].line = LineOf(t) /\ out'[i].idx = Sent(t) + i - Len(out)
      <3>1. Sent(t) + i - Len(out) <= Sent(t) + n
        BY <1>0, <1>1
      <3> QED BY <2>3, <3>1
    <2> QED BY <2>1, <2>2, <2>3, WriteFacts
  <1>4. CallsMade'
    <2> SUFFICES ASSUME NEW i \in 1..Len(out')
                 PROVE  /\ out'[i].line.seq <= call[out'[i].line.thr]
                        /\ out'[i].idx \in 1..out'[i].line.size
      BY WriteFacts DEF CallsMade
    <2>1. CASE i \in 1..Len(out) /\ out'[i] = out[i]
      BY <2>1 DEF TailInv, CallsMade
    <2>2. CASE i > Len(out) /\ out'[i].line = LineOf(t) /\ out'[i].idx = Sent(t) + i - Len(out)
      <3>1. Sent(t) + i - Len(out) \in 1..size[t]
        BY <1>0, <1>1, <2>2
      <3>2. call[t] <= call[t]
        BY Counters
      <3> QED BY <2>2, <3>1, <3>2 DEF LineOf
    <2> QED BY <2>1, <2>2, WriteFacts
  <1>5. FreshLine'
    <2> SUFFICES ASSUME NEW s \in Threads, pc'[s] \in Emitting,
                        NEW i \in 1..mark, out'[i].line.thr = s
                 PROVE  out'[i].line.seq < call[s]
      BY WriteFacts DEF FreshLine
    <2>1. Step(t)
      BY DEF Step
    <2>2. pc[s] \in Emitting
      <3>1. s # t => pc'[s] = pc[s]
        BY <2>1, Frame
      <3>2. pc[t] \in Emitting
        BY WriteFacts
      <3> QED BY <3>1, <3>2
    <2>3. i \in 1..Len(out) /\ out'[i] = out[i]
      BY <1>0, <1>1
    <2> QED BY <2>2, <2>3 DEF TailInv, FreshLine
  <1> QED BY <1>2, <1>3, <1>4, <1>5 DEF TailInv

(***************************************************************************)
(* Every step keeps the description of the tail, action by action.         *)
(***************************************************************************)
LEMMA TailStep == ASSUME StateInv, TailInv, TypeOK', NEW t \in Threads, Step(t) PROVE TailInv'
  <1> USE DEF StateInv
  <1>0. /\ Len(out) \in Nat /\ mark \in Nat /\ pc \in [Threads -> PC]
        /\ call \in [Threads -> 0..MaxCalls] /\ size \in [Threads -> Sizes \cup {0}]
        /\ locked \in [Threads -> BOOLEAN]
    <2>1. Len(out) \in Nat /\ mark \in Nat
      BY DEF TypeOK
    <2> QED BY <2>1 DEF TypeOK
  <1>1. mutex = NoThread \/ closed => mark = Len(out)
    BY DEF TailInv, NoTail
  <1>2. /\ mutex = t <=> locked[t] \/ pc[t] \in Critical
        /\ locked[t] => pc[t] \in Emitting \ {"lock_output"}
    BY DEF LockInv
  <1>3. mutex = t /\ pc[t] \notin Emitting => mark = Len(out)
    <2> SUFFICES ASSUME mutex = t, pc[t] \notin Emitting, mark # Len(out) PROVE FALSE
      OBVIOUS
    <2>1. mark + 1 \in (mark + 1)..Len(out)
      BY DEF TypeOK
    <2> QED BY <2>1 DEF TailInv, OwnTail
  <1> USE DEF At, Goto, Lock, Unlock, shared, history, buffer
  <1>4. CASE \E n \in Nat, err \in BOOLEAN : OutputWrite(t, n, err)
    BY <1>4, WriteTail
  <1>5. CASE BufferLockOutput(t) \/ FlushLock(t) \/ CloseLock(t)
    <2>1. /\ out' = out /\ mark' = mark /\ call' = call /\ mutex = NoThread
          /\ pc'[t] \in Emitting => pc[t] \in Emitting
      BY <1>0, <1>5 DEF BufferLockOutput, FlushLock, CloseLock, Emitting
    <2> QED BY <1>1, <2>1, TailEmptied
  <1>6. CASE FlushClosed(t)
    <2>1. /\ out' = out /\ mark' = Len(out) /\ call' = call /\ closed
          /\ pc[t] \in Emitting
      BY <1>6 DEF FlushClosed, Emitting
    <2> QED BY <1>1, <2>1, TailEmptied
  <1>7. CASE WriteBufferReturn(t) \/ CloseReturn(t)
    <2>1. /\ out' = out /\ mark' = Len(out) /\ call' = call
          /\ pc[t] \in Critical /\ pc'[t] \notin Emitting
      BY <1>0, <1>7 DEF WriteBufferReturn, CloseReturn, Emitting, Critical
    <2> QED BY <1>2, <2>1, TailEmptied
  <1>8. CASE CloseShared(t)
    <2>1. /\ out' = out /\ mark' = mark /\ call' = call
          /\ pc[t] = "closing" /\ pc'[t] \notin Emitting
      BY <1>0, <1>8 DEF CloseShared, Emitting
    <2>2. mutex = t /\ mark = Len(out)
      BY <1>2, <1>3, <2>1 DEF Critical, Emitting
    <2> QED BY <2>1, <2>2, TailEmptied
  <1>9. CASE WriteBuffer(t)
    <2>1. /\ UNCHANGED <<out, mark, call, size, pos, len, off, closed>>
          /\ pc[t] = "write_buffer" /\ pc[t] \in Emitting
      BY <1>9 DEF WriteBuffer, Emitting
    <2>2. len[t] # 0
      BY <2>1, Counters DEF BufferInv, BufferOK
    <2>3. pc'[t] \in Emitting
      BY <1>0, <1>9, <2>2 DEF WriteBuffer, Emitting
    <2>4. CASE locked[t]
      <3>1. mutex' = mutex
        BY <1>9, <2>2, <2>4 DEF WriteBuffer
      <3>2. Sent(t)' = Sent(t) /\ Sent(t) >= Sent(t)
        BY <2>1, Counters DEF Sent
      <3> QED BY <2>1, <2>3, <3>1, <3>2, TailKept
    <2>5. CASE ~locked[t]
      <3>1. mutex = NoThread
        BY <1>9, <2>2, <2>5 DEF WriteBuffer
      <3> QED BY <1>1, <2>1, <2>3, <3>1, TailEmptied
    <2> QED BY <2>4, <2>5
  <1>10. CASE BufferAppend(t) \/ FlushOpen(t) \/ FlushReturn(t)
    <2>1. /\ UNCHANGED <<out, mark, mutex, call, size, closed>>
          /\ pc[t] \in Emitting /\ pc'[t] \in Emitting
      BY <1>0, <1>10 DEF BufferAppend, FlushOpen, FlushReturn, Emitting
    <2>2. Sent(t)' >= Sent(t)
      <3>1. /\ pos[t] \in Nat /\ len[t] \in Nat /\ off[t] \in Nat
            /\ Sent(t) = pos[t] - len[t] + off[t]
            /\ Sent(t)' = pos'[t] - len'[t] + off'[t]
        BY Counters DEF Sent
      <3>2. CASE BufferAppend(t)
        <4> DEFINE n == Min2(size[t] - pos[t], Capacity - len[t])
        <4>1. n \in Int
          BY Counters DEF Min2
        <4> HIDE DEF n
        <4>2. pos'[t] = pos[t] + n /\ len'[t] = len[t] + n /\ off'[t] = off[t]
          BY <3>2 DEF BufferAppend, TypeOK, n
        <4>3. (pos[t] + n) - (len[t] + n) + off[t] >= pos[t] - len[t] + off[t]
          BY <3>1, <4>1
        <4> QED BY <3>1, <4>2, <4>3
      <3>3. CASE FlushOpen(t)
        BY <3>1, <3>3 DEF FlushOpen
      <3>4. CASE FlushReturn(t)
        <4>1. pos'[t] = pos[t] /\ len'[t] = 0 /\ off'[t] = 0
          BY <3>4 DEF FlushReturn, TypeOK
        <4>2. off[t] <= len[t]
          BY DEF BufferInv, BufferOK
        <4>3. pos[t] - 0 + 0 >= pos[t] - len[t] + off[t]
          BY <3>1, <4>2
        <4> QED BY <3>1, <4>1, <4>3
      <3> QED BY <1>10, <3>2, <3>3, <3>4
    <2> QED BY <2>1, <2>2, TailKept
  <1>11. CASE \/ \E level \in CallLevels, n \in Sizes : LogCall(t, level, n)
              \/ \E level \in CallLevels : LogSkipped(t, level)
              \/ CloseCall(t)
    <2>1. /\ UNCHANGED <<out, mark, mutex, closed>> /\ call'[t] = call[t] + 1
          /\ pc[t] \notin Emitting
      BY <1>0, <1>11 DEF LogCall, LogSkipped, CloseCall, Emitting
    <2> QED BY <2>1, TailKept
  <1>12. CASE EmitReturn(t) \/ Exit(t) \/ CloseCallback(t)
    <2>1. pc[t] \notin Emitting /\ pc'[t] \notin Emitting
      BY <1>0, <1>12 DEF EmitReturn, Exit, CloseCallback, Emitting
    <2>2. ~locked[t]
      BY <1>2, <2>1
    <2>3. UNCHANGED <<out, mark, mutex, closed, call>>
      BY <1>12, <2>2 DEF EmitReturn, Exit, CloseCallback
    <2> QED BY <2>1, <2>3, TailKept
  <1> QED BY <1>4, <1>5, <1>6, <1>7, <1>8, <1>9, <1>10, <1>11, <1>12 DEF Step

(***************************************************************************)
(* A write keeps the units of every line consecutive.                      *)
(***************************************************************************)
LEMMA ContiguousWrite ==
  ASSUME StateInv, OrderInv, NEW t \in Threads, NEW n \in Nat, NEW err \in BOOLEAN,
         OutputWrite(t, n, err)
  PROVE  Contiguous'
  <1>0. Len(out) \in Nat /\ Len(out') = Len(out) + n /\ mark \in Nat /\ mark <= Len(out)
    <2>1. Len(out') = Len(out) + n
      BY WriteAppends
    <2>2. Len(out) \in Nat /\ mark \in Nat /\ mark <= Len(out)
      BY DEF StateInv, TypeOK
    <2> QED BY <2>1, <2>2
  <1> USE DEF StateInv, OrderInv
  <1> SUFFICES ASSUME NEW i \in 1..Len(out'), NEW k \in 1..Len(out'),
                      out'[i].line = out'[k].line, NEW j \in i..k
               PROVE  out'[j].line = out'[i].line
    BY DEF Contiguous
  <1>1. j \in 1..Len(out') /\ i <= j /\ j <= k
    BY <1>0
  <1>2. \A x \in 1..Len(out') :
          \/ x \in 1..Len(out) /\ out'[x] = out[x]
          \/ x > Len(out) /\ out'[x].line = LineOf(t)
    BY WriteFacts
  <1>3. CASE k \in 1..Len(out)
    <2>1. /\ i \in 1..Len(out) /\ j \in 1..Len(out)
          /\ out'[i] = out[i] /\ out'[j] = out[j] /\ out'[k] = out[k]
      BY <1>0, <1>1, <1>2, <1>3
    <2> QED BY <1>3, <2>1 DEF Contiguous
  <1>4. CASE k > Len(out) /\ out'[k].line = LineOf(t)
    <2>1. out'[i].line = LineOf(t)
      BY <1>4
    <2>2. CASE j > Len(out)
      BY <1>0, <1>1, <1>2, <2>1, <2>2
    <2>3. CASE j <= Len(out)
      <3>1. /\ i \in 1..Len(out) /\ out'[i] = out[i]
            /\ j \in 1..Len(out) /\ out'[j] = out[j]
        BY <1>0, <1>1, <1>2, <2>3
      <3>2. LineOf(t).thr = t /\ LineOf(t).seq = call[t] /\ call[t] \in Nat
        BY Counters DEF LineOf
      <3>3. i > mark
        <4>1. out[i].line.thr = t /\ out[i].line.seq = call[t]
          BY <2>1, <3>1, <3>2
        <4> QED BY <3>1, <3>2, <4>1, WriteFacts
      <3>4. j \in (mark + 1)..Len(out)
        BY <1>0, <1>1, <3>1, <3>3
      <3>5. out[j].line = LineOf(t)
        BY <3>4, WriteFacts DEF TailInv, OwnTail
      <3> QED BY <2>1, <3>1, <3>5
    <2> QED BY <1>0, <1>1, <2>2, <2>3
  <1> QED BY <1>2, <1>3, <1>4

(***************************************************************************)
(* A write keeps the order of the units of every thread.                   *)
(***************************************************************************)
LEMMA InOrderWrite ==
  ASSUME StateInv, OrderInv, NEW t \in Threads, NEW n \in Nat, NEW err \in BOOLEAN,
         OutputWrite(t, n, err)
  PROVE  InOrder'
  <1>0. Len(out) \in Nat /\ Len(out') = Len(out) + n /\ Sent(t) \in Nat
    <2>1. Len(out') = Len(out) + n /\ Sent(t) \in Nat
      BY WriteAppends
    <2>2. Len(out) \in Nat
      BY DEF StateInv, TypeOK
    <2> QED BY <2>1, <2>2
  <1> USE DEF StateInv, OrderInv
  <1> SUFFICES ASSUME NEW i \in 1..Len(out'), NEW j \in 1..Len(out'),
                      i < j, out'[i].line.thr = out'[j].line.thr
               PROVE  Precedes(out'[i], out'[j])
    BY DEF InOrder, Precedes
  <1>1. \A x \in 1..Len(out') :
          \/ x \in 1..Len(out) /\ out'[x] = out[x]
          \/ /\ x > Len(out) /\ out'[x].line = LineOf(t)
             /\ out'[x].idx = Sent(t) + x - Len(out)
    BY WriteFacts
  <1>2. CASE j \in 1..Len(out)
    <2>1. i \in 1..Len(out) /\ out'[i] = out[i] /\ out'[j] = out[j]
      BY <1>0, <1>1, <1>2
    <2> QED BY <1>2, <2>1 DEF InOrder
  <1>3. CASE /\ j > Len(out) /\ out'[j].line = LineOf(t)
             /\ out'[j].idx = Sent(t) + j - Len(out)
    <2>0. LineOf(t).thr = t /\ LineOf(t).seq = call[t] /\ call[t] \in Nat
      BY Counters DEF LineOf
    <2>1. CASE i \in 1..Len(out) /\ out'[i] = out[i]
      <3>1. out[i].line.thr = t
        BY <1>3, <2>0, <2>1
      <3>2. CASE out[i].line.seq < call[t]
        BY <1>3, <2>0, <2>1, <3>2 DEF Precedes
      <3>3. CASE out[i].line = LineOf(t) /\ out[i].idx <= Sent(t)
        <4>1. out[i].idx \in Nat
          BY <2>1, Units
        <4>2. out[i].idx < Sent(t) + j - Len(out)
          BY <1>0, <1>3, <3>3, <4>1
        <4> QED BY <1>3, <2>1, <3>3, <4>2 DEF Precedes
      <3> QED BY <2>1, <3>1, <3>2, <3>3, WriteFacts
    <2>2. CASE /\ i > Len(out) /\ out'[i].line = LineOf(t)
               /\ out'[i].idx = Sent(t) + i - Len(out)
      <3>1. Sent(t) + i - Len(out) < Sent(t) + j - Len(out)
        BY <1>0
      <3> QED BY <1>3, <2>2, <3>1 DEF Precedes
    <2> QED BY <1>1, <2>1, <2>2
  <1> QED BY <1>1, <1>2, <1>3

(***************************************************************************)
(* The order of the output changes only by writes.                         *)
(***************************************************************************)
LEMMA OutKept ==
  ASSUME NEW t \in Threads, Step(t)
  PROVE  out' = out \/ \E n \in Nat, err \in BOOLEAN : OutputWrite(t, n, err)
  BY DEF Step, shared, LogCall, LogSkipped, BufferLockOutput, BufferAppend, FlushLock,
     FlushClosed, FlushOpen, FlushReturn, WriteBuffer, WriteBufferReturn, EmitReturn, Exit,
     CloseCall, CloseLock, CloseShared, CloseCallback, CloseReturn

(***************************************************************************)
(* Every step keeps the tail, contiguity and the order of lines.           *)
(***************************************************************************)
LEMMA OrderStep == ASSUME StateInv, OrderInv, [Next]_vars PROVE OrderInv'
  <1>0. TypeOK'
    BY TypeStep
  <1>1. ASSUME NEW t \in Threads, Step(t) PROVE OrderInv'
    <2>1. TailInv'
      BY <1>0, <1>1, TailStep DEF OrderInv
    <2>2. CASE out' = out
      BY <2>1, <2>2 DEF OrderInv, Contiguous, InOrder, Precedes
    <2>3. CASE \E n \in Nat, err \in BOOLEAN : OutputWrite(t, n, err)
      BY <2>1, <2>3, ContiguousWrite, InOrderWrite DEF OrderInv
    <2> QED BY <1>1, <2>2, <2>3, OutKept
  <1>2. ASSUME UNCHANGED vars PROVE OrderInv'
    BY <1>2 DEF vars, OrderInv, TailInv, NoTail, OwnTail, CallsMade, FreshLine, LineOf, Sent,
       Contiguous, InOrder, Precedes
  <1> QED BY <1>1, <1>2, NextCases

(***************************************************************************)
(* Tail, contiguity and order hold throughout.                             *)
(***************************************************************************)
LEMMA OrderInvariant == Spec => []OrderInv
  <1>1. Init => OrderInv
    BY DEF Init, OrderInv, TailInv, NoTail, OwnTail, CallsMade, FreshLine, Contiguous, InOrder
  <1>2. StateInv /\ OrderInv /\ [Next]_vars => OrderInv'
    BY OrderStep
  <1> QED BY <1>1, <1>2, StateInvariant, PTL DEF Spec

(***************************************************************************)
(* However many flushes and short writes a line takes and whoever logs     *)
(* meanwhile, its units are consecutive in the output.                     *)
(***************************************************************************)
THEOREM LinesContiguous == Spec => []Contiguous
  <1>1. OrderInv => Contiguous
    BY DEF OrderInv
  <1> QED BY <1>1, OrderInvariant, PTL

(***************************************************************************)
(* The lines of a thread reach the sink in the order of its calls, and the *)
(* units of a line in order and at most once.                              *)
(***************************************************************************)
THEOREM LinesInOrder == Spec => []InOrder
  <1>1. OrderInv => InOrder
    BY DEF OrderInv
  <1> QED BY <1>1, OrderInvariant, PTL

-----------------------------------------------------------------------------
(* Every line that is accepted is delivered, and PslogOutput implements    *)
(* the line log of PslogLineLog.                                           *)

(***************************************************************************)
(* What a thread has sent, as a number.                                    *)
(***************************************************************************)
LEMMA SentNat ==
  ASSUME StateInv, NEW t \in Threads
  PROVE  Sent(t) \in Nat /\ Sent(t) <= pos[t] /\ (off[t] = len[t] => Sent(t) = pos[t])
  <1>1. off[t] <= len[t] /\ len[t] <= pos[t]
    BY DEF StateInv, BufferInv, BufferOK
  <1>2. pos[t] \in Nat /\ len[t] \in Nat /\ off[t] \in Nat
    BY Counters DEF StateInv
  <1> QED BY <1>1, <1>2 DEF Sent

(***************************************************************************)
(* How a step changes what its thread has sent: only a write sends more;   *)
(* the end of a flush and of an emission drop the count with the buffer.   *)
(***************************************************************************)
LEMMA SentStep ==
  ASSUME StateInv, NEW t \in Threads, Step(t), pc'[t] \in Emitting,
         ~(\E n \in Nat, err \in BOOLEAN : OutputWrite(t, n, err)), ~closed
  PROVE  \/ Sent(t)' = Sent(t) /\ pc[t] \in Emitting
         \/ Sent(t)' = 0 /\ pc[t] = "idle" /\ mutex' = mutex
         \/ FlushReturn(t) /\ Sent(t)' = pos[t]
  <1> USE DEF StateInv
  <1>0. /\ pc \in [Threads -> PC] /\ pos \in [Threads -> Nat]
        /\ len \in [Threads -> 0..Capacity] /\ off \in [Threads -> 0..Capacity]
        /\ pos[t] \in Nat /\ len[t] \in Nat /\ off[t] \in Nat /\ size[t] \in Nat
    BY Counters DEF TypeOK
  <1>1. CASE \E level \in CallLevels, n \in Sizes : LogCall(t, level, n)
    <2>1. pc[t] = "idle" /\ UNCHANGED <<pos, len, off, mutex>>
      BY <1>1 DEF LogCall, At, shared
    <2>2. pos[t] = 0 /\ len[t] = 0 /\ off[t] = 0
      BY <1>0, <2>1 DEF BufferInv, BufferOK, Emitting
    <2> QED BY <2>1, <2>2 DEF Sent
  <1>2. CASE BufferAppend(t)
    <2> DEFINE n == Min2(size[t] - pos[t], Capacity - len[t])
    <2>1. n \in Int
      BY <1>0, OutputAssumption DEF Min2
    <2> HIDE DEF n
    <2>2. /\ pos'[t] = pos[t] + n /\ len'[t] = len[t] + n /\ off'[t] = off[t]
          /\ pc[t] = "append"
      BY <1>0, <1>2 DEF BufferAppend, At, n
    <2>3. (pos[t] + n) - (len[t] + n) + off[t] = pos[t] - len[t] + off[t]
      BY <1>0, <2>1
    <2> QED BY <2>2, <2>3 DEF Sent, Emitting
  <1>3. CASE FlushReturn(t)
    <2>1. pos'[t] = pos[t] /\ len'[t] = 0 /\ off'[t] = 0
      BY <1>0, <1>3 DEF FlushReturn
    <2> QED BY <1>0, <1>3, <2>1 DEF Sent
  <1>4. CASE BufferLockOutput(t) \/ FlushLock(t) \/ FlushOpen(t) \/ WriteBuffer(t)
    BY <1>4 DEF BufferLockOutput, FlushLock, FlushOpen, WriteBuffer, At, buffer, Sent,
                Emitting
  <1>5. ~FlushClosed(t)
    BY DEF FlushClosed
  <1>6. CASE \/ \E level \in CallLevels : LogSkipped(t, level)
             \/ WriteBufferReturn(t) \/ EmitReturn(t) \/ CloseCall(t) \/ CloseLock(t)
             \/ CloseShared(t) \/ CloseCallback(t) \/ CloseReturn(t) \/ Exit(t)
    BY <1>0, <1>6 DEF LogSkipped, WriteBufferReturn, EmitReturn, CloseCall, CloseLock,
                      CloseShared, CloseCallback, CloseReturn, Exit, At, Goto, Emitting
  <1> QED BY <1>1, <1>2, <1>3, <1>4, <1>5, <1>6 DEF Step

(***************************************************************************)
(* What a step leaves alone: closed is never reset, refused lines stay     *)
(* refused, and only the owner of the mutex writes or releases it.         *)
(***************************************************************************)
LEMMA ClosedStays ==
  ASSUME TypeOK, NEW t \in Threads, Step(t)
  PROVE  (closed => closed') /\ faulted \subseteq faulted'
  BY DEF Step, At, Goto, shared, history, LogCall, LogSkipped, BufferLockOutput,
     BufferAppend, FlushLock, FlushClosed, FlushOpen, OutputWrite, FlushReturn, WriteBuffer,
     WriteBufferReturn, EmitReturn, Exit, CloseCall, CloseLock, CloseShared, CloseCallback,
     CloseReturn

\* Only the owner of the mutex writes, moves the mark or meets a fault.
LEMMA OwnerOnly ==
  ASSUME StateInv, NEW t \in Threads, Step(t), mutex # t
  PROVE  UNCHANGED <<out, mark, faulted>>
  <1> USE DEF StateInv, LockInv, Critical, At, shared, history
  <1>1. CASE \E n \in Nat, err \in BOOLEAN : OutputWrite(t, n, err)
    BY <1>1 DEF OutputWrite
  <1>2. CASE FlushClosed(t)
    BY <1>2 DEF FlushClosed
  <1>3. CASE WriteBufferReturn(t) \/ CloseReturn(t)
    BY <1>3 DEF WriteBufferReturn, CloseReturn
  <1>4. CASE EmitReturn(t)
    BY <1>4 DEF EmitReturn
  <1>5. CASE \/ \E level \in CallLevels, n \in Sizes : LogCall(t, level, n)
             \/ \E level \in CallLevels : LogSkipped(t, level)
             \/ BufferLockOutput(t) \/ BufferAppend(t) \/ FlushLock(t) \/ FlushOpen(t)
             \/ FlushReturn(t) \/ WriteBuffer(t) \/ Exit(t) \/ CloseCall(t)
             \/ CloseLock(t) \/ CloseShared(t) \/ CloseCallback(t)
    BY <1>5 DEF LogCall, LogSkipped, BufferLockOutput, BufferAppend, FlushLock, FlushOpen,
       FlushReturn, WriteBuffer, Exit, CloseCall, CloseLock, CloseShared, CloseCallback
  <1> QED BY <1>1, <1>2, <1>3, <1>4, <1>5 DEF Step

(***************************************************************************)
(* The owner of the mutex keeps it, and the mark stays, as long as it is   *)
(* emitting to an open output.                                             *)
(***************************************************************************)
LEMMA OwnerKeeps ==
  ASSUME StateInv, NEW t \in Threads, Step(t), ~closed, pc'[t] \in Emitting
  PROVE  mark' = mark /\ (mutex = t => mutex' = t)
  <1> USE DEF StateInv, At, Goto, shared, history, TypeOK, Emitting
  <1>1. CASE FlushClosed(t) \/ WriteBufferReturn(t) \/ EmitReturn(t) \/ CloseReturn(t)
    BY <1>1 DEF FlushClosed, WriteBufferReturn, EmitReturn, CloseReturn
  <1>2. CASE BufferLockOutput(t) \/ FlushLock(t) \/ CloseLock(t) \/ WriteBuffer(t)
    BY <1>2 DEF BufferLockOutput, FlushLock, CloseLock, WriteBuffer, Lock
  <1>3. CASE \/ \E level \in CallLevels, n \in Sizes : LogCall(t, level, n)
             \/ \E level \in CallLevels : LogSkipped(t, level)
             \/ \E n \in Nat, err \in BOOLEAN : OutputWrite(t, n, err)
             \/ BufferAppend(t) \/ FlushOpen(t) \/ FlushReturn(t) \/ Exit(t)
             \/ CloseCall(t) \/ CloseShared(t) \/ CloseCallback(t)
    BY <1>3 DEF LogCall, LogSkipped, OutputWrite, BufferAppend, FlushOpen, FlushReturn,
       Exit, CloseCall, CloseShared, CloseCallback
  <1> QED BY <1>1, <1>2, <1>3 DEF Step

(***************************************************************************)
(* A step of t does not give the mutex to another thread or take it away.  *)
(***************************************************************************)
LEMMA OthersMutex ==
  ASSUME StateInv, StateInv', NEW t \in Threads, Step(t), NEW s \in Threads, s # t
  PROVE  mutex' = s <=> mutex = s
  BY Frame DEF StateInv, LockInv

\* A step of one thread leaves the line of another alone.
LEMMA OthersLine ==
  ASSUME TypeOK, NEW t \in Threads, Step(t), NEW s \in Threads, s # t
  PROVE  LineOf(s)' = LineOf(s) /\ Sent(s)' = Sent(s)
  BY Frame DEF LineOf, Sent

\* A thread without the mutex has sent nothing of its line.
LEMMA NothingSentStep ==
  ASSUME StateInv, StateInv', NothingSent, NEW t \in Threads, Step(t)
  PROVE  NothingSent'
  <1> SUFFICES ASSUME NEW s \in Threads, pc'[s] \in Emitting, ~closed', mutex' # s
               PROVE  Sent(s)' = 0
    BY DEF NothingSent
  <1>0. ~closed
    BY ClosedStays DEF StateInv
  <1>1. CASE s # t
    BY <1>0, <1>1, OthersMutex, OthersLine, Frame DEF NothingSent, StateInv
  <1>2. CASE s = t
    <2>1. mutex # t
      BY <1>0, <1>2, OwnerKeeps
    <2>2. ~(\E n \in Nat, err \in BOOLEAN : OutputWrite(t, n, err))
      BY <2>1 DEF OutputWrite, StateInv, LockInv, Critical
    <2>3. ~FlushReturn(t)
      BY <2>1 DEF FlushReturn, At, StateInv, LockInv
    <2> QED BY <1>0, <1>2, <2>1, <2>2, <2>3, SentStep DEF NothingSent
  <1> QED BY <1>1, <1>2

(***************************************************************************)
(* A write by the owner appends exactly what it counts as sent.            *)
(***************************************************************************)
LEMMA SentWrittenWrite ==
  ASSUME StateInv, TailInv, SentWritten, NEW t \in Threads, NEW n \in Nat,
         NEW err \in BOOLEAN, OutputWrite(t, n, err), LineOf(t)' \notin faulted'
  PROVE  /\ Len(out') = mark' + Sent(t)'
         /\ \A i \in (mark' + 1)..Len(out') : out'[i].idx = i - mark'
         /\ pc'[t] \in {"flushed", "drained"} => off'[t] = len'[t]
  <1>1. /\ mutex = t /\ ~closed /\ pc[t] \in Emitting /\ mark' = mark /\ len' = len
        /\ LineOf(t)' = LineOf(t) /\ Sent(t)' = Sent(t) + n
    BY WriteFacts
  <1>2. LineOf(t) \notin faulted /\ (off[t] + n = len[t] \/ ~(err \/ n = 0))
    BY <1>1 DEF OutputWrite
  <1>3. Len(out) = mark + Sent(t) /\ \A i \in (mark + 1)..Len(out) : out[i].idx = i - mark
    BY <1>1, <1>2 DEF SentWritten
  <1>4. Len(out) \in Nat /\ mark \in Nat /\ Sent(t) \in Nat
    BY SentNat DEF StateInv, TypeOK
  <1>5. Len(out') = Len(out) + n
    BY WriteAppends
  <1>6. ASSUME NEW i \in (mark + 1)..Len(out') PROVE out'[i].idx = i - mark
    <2>1. CASE i <= Len(out)
      <3>1. i \in 1..Len(out) /\ i \in (mark + 1)..Len(out)
        BY <1>4, <2>1
      <3>2. out'[i] = out[i]
        BY <3>1, WriteAppends
      <3> QED BY <1>3, <3>1, <3>2
    <2>2. CASE i > Len(out)
      <3>1. i \in (Len(out) + 1)..Len(out')
        BY <1>4, <1>5, <2>2
      <3>2. out'[i] = [line |-> LineOf(t), idx |-> Sent(t) + i - Len(out)]
        BY <3>1, WriteAppends
      <3>3. Sent(t) + i - Len(out) = i - mark
        BY <1>3, <1>4
      <3> QED BY <3>2, <3>3
    <2> QED BY <1>4, <1>5, <2>1, <2>2
  <1>7. off'[t] = off[t] + n
    BY DEF OutputWrite, StateInv, TypeOK
  <1>8. pc'[t] \in {"flushed", "drained"} => off'[t] = len'[t]
    BY <1>1, <1>2, <1>7 DEF OutputWrite, StateInv, TypeOK
  <1>9. Len(out') = mark' + Sent(t)'
    BY <1>1, <1>3, <1>4, <1>5
  <1>10. \A i \in (mark' + 1)..Len(out') : out'[i].idx = i - mark'
    BY <1>1, <1>6
  <1> QED BY <1>8, <1>9, <1>10

\* A step keeps the sent part of a line in the output, unless a write failed.
LEMMA SentWrittenStep ==
  ASSUME StateInv, StateInv', TailInv, NothingSent, SentWritten, NEW t \in Threads, Step(t)
  PROVE  SentWritten'
  <1> SUFFICES ASSUME NEW s \in Threads, pc'[s] \in Emitting, ~closed', mutex' = s,
                      LineOf(s)' \notin faulted'
               PROVE  /\ Len(out') = mark' + Sent(s)'
                      /\ \A i \in (mark' + 1)..Len(out') : out'[i].idx = i - mark'
                      /\ pc'[s] \in {"flushed", "drained"} => off'[s] = len'[s]
    BY DEF SentWritten
  <1>0. ~closed /\ faulted \subseteq faulted'
    BY ClosedStays DEF StateInv
  <1>1. CASE s # t
    <2>1. mutex = s /\ pc[s] \in Emitting /\ LineOf(s) \notin faulted
      BY <1>0, <1>1, OthersMutex, OthersLine, Frame DEF StateInv
    <2>2. UNCHANGED <<out, mark>>
      BY <1>1, <2>1, OwnerOnly
    <2>3. /\ pc'[s] = pc[s] /\ off'[s] = off[s] /\ len'[s] = len[s]
          /\ Sent(s)' = Sent(s)
      BY <1>1, Frame, OthersLine DEF StateInv
    <2> QED BY <1>0, <2>1, <2>2, <2>3 DEF SentWritten
  <1>2. CASE s = t /\ \E n \in Nat, err \in BOOLEAN : OutputWrite(t, n, err)
    BY <1>2, SentWrittenWrite
  <1>3. CASE s = t /\ ~(\E n \in Nat, err \in BOOLEAN : OutputWrite(t, n, err))
    <2>0. pc'[t] \in Emitting /\ mutex' = t /\ LineOf(t)' \notin faulted'
      BY <1>3
    <2>1. out' = out /\ mark' = mark
      BY <1>0, <1>3, <2>0, OwnerKeeps, OutKept
    <2>2. pc'[t] \notin {"flushed", "drained"}
      BY <1>0, <1>3, <2>0, ZenonT(60) DEF Step, At, Goto, LogCall, LogSkipped, BufferLockOutput,
         BufferAppend, FlushLock, FlushClosed, FlushOpen, FlushReturn, WriteBuffer,
         WriteBufferReturn, EmitReturn, Exit, CloseCall, CloseLock, CloseShared,
         CloseCallback, CloseReturn, StateInv, TypeOK
    <2>3. pc[t] \in Emitting /\ (Sent(t)' = Sent(t) \/ (FlushReturn(t) /\ Sent(t)' = pos[t]))
      <3>1. pc[t] = "idle" => mutex # t
        BY DEF StateInv, LockInv, Critical, Emitting
      <3>2. FlushReturn(t) => pc[t] \in Emitting
        BY DEF FlushReturn, At, Emitting
      <3>3. ~(\E n \in Nat, err \in BOOLEAN : OutputWrite(t, n, err))
        BY <1>3
      <3>4. \/ Sent(t)' = Sent(t) /\ pc[t] \in Emitting
            \/ Sent(t)' = 0 /\ pc[t] = "idle" /\ mutex' = mutex
            \/ FlushReturn(t) /\ Sent(t)' = pos[t]
        BY <1>0, <2>0, <3>3, SentStep
      <3> QED BY <2>0, <3>1, <3>2, <3>4
    <2>4. LineOf(t)' = LineOf(t) /\ LineOf(t) \notin faulted
      <3>1. call'[t] = call[t] /\ size'[t] = size[t]
        BY <1>3, <2>0, <2>3 DEF Step, At, Goto, buffer, LogCall, LogSkipped,
           BufferLockOutput, BufferAppend, FlushLock, FlushClosed, FlushOpen, FlushReturn,
           WriteBuffer, WriteBufferReturn, EmitReturn, Exit, CloseCall, CloseLock,
           CloseShared, CloseCallback, CloseReturn, StateInv, TypeOK, Emitting
      <3> QED BY <1>0, <2>0, <3>1 DEF LineOf
    <2>5. CASE mutex = t
      <3>1. /\ Len(out) = mark + Sent(t)
            /\ \A i \in (mark + 1)..Len(out) : out[i].idx = i - mark
            /\ FlushReturn(t) => Sent(t) = pos[t]
        BY <1>0, <2>3, <2>4, <2>5, SentNat DEF SentWritten, FlushReturn, At
      <3> QED BY <1>3, <2>1, <2>2, <2>3, <3>1
    <2>6. CASE mutex # t
      <3>1. mutex = NoThread
        BY <2>0, <2>6, OutputAssumption DEF Step, Lock, Unlock, shared, LogCall, LogSkipped,
           BufferLockOutput, BufferAppend, FlushLock, FlushClosed, FlushOpen, OutputWrite,
           FlushReturn, WriteBuffer, WriteBufferReturn, EmitReturn, Exit, CloseCall,
           CloseLock, CloseShared, CloseCallback, CloseReturn
      <3>2. mark = Len(out) /\ Len(out) \in Nat /\ Sent(t) = 0
        BY <1>0, <2>3, <2>6, <3>1 DEF TailInv, NoTail, NothingSent, StateInv, TypeOK
      <3>3. ~FlushReturn(t)
        BY <2>6 DEF FlushReturn, At, StateInv, LockInv
      <3>4. Len(out) = mark + Sent(t) /\ (mark + 1)..Len(out) = {}
        BY <3>2
      <3> QED BY <1>3, <2>1, <2>2, <2>3, <3>3, <3>4
    <2> QED BY <2>5, <2>6
  <1> QED BY <1>1, <1>2, <1>3

(***************************************************************************)
(* A line that is settled stays settled: the output only grows, and not at *)
(* all once it is closed.                                                  *)
(***************************************************************************)
LEMMA SettledStays ==
  ASSUME StateInv, NEW t \in Threads, Step(t), NEW l, Settled(l)
  PROVE  Settled(l)'
  <1>1. CASE out' = out
    <2>1. closed => closed'
      BY ClosedStays DEF StateInv
    <2> QED BY <1>1, <2>1 DEF Settled, Complete, Absent
  <1>2. ASSUME NEW n \in Nat, NEW err \in BOOLEAN, OutputWrite(t, n, err)
        PROVE  Settled(l)'
    <2>1. ~closed
      BY <1>2 DEF OutputWrite, StateInv, LockInv
    <2>2. Len(out') = Len(out) + n /\ \A i \in 1..Len(out) : out'[i] = out[i]
      BY <1>2, WriteAppends
    <2>3. \A i \in 1..Len(out) : i \in 1..Len(out')
      BY <2>2 DEF StateInv, TypeOK
    <2>4. Complete(l)
      BY <2>1 DEF Settled
    <2> QED BY <2>2, <2>3, <2>4 DEF Settled, Complete
  <1> QED BY <1>1, <1>2, OutKept

(***************************************************************************)
(* At the end of pslog_write_buffer the line is all in the output, or the  *)
(* output was closed before any of it was written.                         *)
(***************************************************************************)
LEMMA DrainedSettled ==
  ASSUME StateInv, TailInv, SentWritten, NEW t \in Threads, pc[t] = "drained",
         LineOf(t) \notin faulted
  PROVE  /\ Settled(LineOf(t))
         /\ ~closed => Len(out) = mark + size[t]
  <1>0. Len(out) \in Nat /\ mark \in Nat /\ mark <= Len(out)
    BY DEF StateInv, TypeOK
  <1>1. mutex = t /\ pc[t] \in Emitting
    BY DEF StateInv, LockInv, Critical, Emitting
  <1>2. CASE closed
    <2>1. mark = Len(out)
      BY <1>2 DEF TailInv, NoTail
    <2>2. ASSUME NEW i \in 1..Len(out), out[i].line = LineOf(t) PROVE FALSE
      <3>1. out[i].line.thr = t /\ out[i].line.seq = call[t] /\ call[t] \in Nat
        BY <2>2, Counters DEF LineOf, StateInv
      <3> QED BY <1>1, <2>1, <3>1 DEF TailInv, FreshLine
    <2> QED BY <1>2, <2>2 DEF Settled, Absent
  <1>3. CASE ~closed
    <2>1. /\ Len(out) = mark + Sent(t) /\ off[t] = len[t]
          /\ \A i \in (mark + 1)..Len(out) : out[i].idx = i - mark
      BY <1>1, <1>3 DEF SentWritten
    <2>2. Sent(t) = size[t] /\ size[t] \in Nat
      BY <2>1, SentNat, Counters DEF StateInv, BufferInv, BufferOK
    <2>3. ASSUME NEW u \in 1..size[t]
          PROVE  \E i \in 1..Len(out) : out[i] = [line |-> LineOf(t), idx |-> u]
      <3>1. mark + u \in 1..Len(out) /\ mark + u \in (mark + 1)..Len(out)
        BY <1>0, <2>1, <2>2
      <3>2. out[mark + u].line = LineOf(t)
        BY <1>1, <3>1 DEF TailInv, OwnTail
      <3>3. out[mark + u].idx = u
        BY <1>0, <2>1, <3>1
      <3>4. out[mark + u] \in Unit
        BY <3>1, Units DEF StateInv
      <3>5. out[mark + u] = [line |-> out[mark + u].line, idx |-> out[mark + u].idx]
        BY <3>4 DEF Unit
      <3> QED BY <3>1, <3>2, <3>3, <3>5
    <2>4. Complete(LineOf(t))
      <3>1. LineOf(t).size = size[t]
        BY DEF LineOf
      <3> QED BY <2>3, <3>1 DEF Complete
    <2> QED BY <2>1, <2>2, <2>4 DEF Settled
  <1> QED BY <1>2, <1>3

\* A step keeps a finished line settled when the mutex is released.
LEMMA ReleaseSettledStep ==
  ASSUME StateInv, TailInv, SentWritten, ReleaseSettled, NEW t \in Threads, Step(t)
  PROVE  ReleaseSettled'
  <1> SUFFICES ASSUME NEW s \in Threads, pc'[s] = "release", NEW l, l = LineOf(s)',
                      l \notin faulted'
               PROVE  Settled(l)'
    BY DEF ReleaseSettled, Settled, Complete, Absent
  <1>0. l \notin faulted
    BY ClosedStays DEF StateInv
  <1>1. CASE s # t
    <2>1. pc[s] = "release" /\ l = LineOf(s)
      BY <1>1, Frame, OthersLine DEF StateInv
    <2>2. Settled(l)
      BY <1>0, <2>1 DEF ReleaseSettled
    <2> QED BY <2>2, SettledStays
  <1>2. CASE s = t
    <2>1. WriteBufferReturn(t)
      <3>1. pc[t] = "write_buffer" => len[t] # 0
        BY Counters DEF StateInv, BufferInv, BufferOK
      <3> QED BY <1>2, <3>1 DEF Step, At, Goto, LogCall, LogSkipped, BufferLockOutput,
         BufferAppend, FlushLock, FlushClosed, FlushOpen, OutputWrite, FlushReturn,
         WriteBuffer, EmitReturn, Exit, CloseCall, CloseLock, CloseShared, CloseCallback,
         CloseReturn, StateInv, TypeOK
    <2>2. pc[t] = "drained" /\ l = LineOf(t)
      BY <1>2, <2>1 DEF WriteBufferReturn, At, LineOf
    <2>3. Settled(l)
      BY <1>0, <2>2, DrainedSettled
    <2> QED BY <2>3, SettledStays
  <1> QED BY <1>1, <1>2

\* A step keeps the finished lines delivered.
LEMMA DeliveredStep ==
  ASSUME StateInv, ReleaseSettled, Delivered, NEW t \in Threads, Step(t)
  PROVE  Delivered'
  <1> SUFFICES ASSUME NEW l \in finished' \ faulted' PROVE Settled(l)'
    BY DEF Delivered
  <1>1. l \notin faulted
    BY ClosedStays DEF StateInv
  <1>2. finished' = finished \/ (EmitReturn(t) /\ finished' = finished \cup {LineOf(t)})
    BY DEF Step, history, LogCall, LogSkipped, BufferLockOutput, BufferAppend, FlushLock,
       FlushClosed, FlushOpen, OutputWrite, FlushReturn, WriteBuffer, WriteBufferReturn,
       EmitReturn, Exit, CloseCall, CloseLock, CloseShared, CloseCallback, CloseReturn
  <1>3. CASE l \in finished
    BY <1>1, <1>3, SettledStays DEF Delivered
  <1>4. CASE EmitReturn(t) /\ l = LineOf(t)
    BY <1>1, <1>4, SettledStays DEF EmitReturn, At, ReleaseSettled
  <1> QED BY <1>2, <1>3, <1>4

--------------------------------------------------------------------------------

DeliveryInv == WrittenInv /\ Delivered

\* The invariant holds throughout.
LEMMA DeliveryInvariant == Spec => []DeliveryInv
  <1>1. Init => DeliveryInv
    BY DEF Init, DeliveryInv, WrittenInv, NothingSent, SentWritten, ReleaseSettled,
           Delivered, Emitting
  <1>2. ASSUME StateInv, StateInv', OrderInv, DeliveryInv, [Next]_vars PROVE DeliveryInv'
    <2>1. ASSUME NEW t \in Threads, Step(t) PROVE DeliveryInv'
      BY <1>2, <2>1, NothingSentStep, SentWrittenStep, ReleaseSettledStep, DeliveredStep
         DEF DeliveryInv, WrittenInv, OrderInv
    <2>2. CASE UNCHANGED vars
      BY <1>2, <2>2 DEF vars, DeliveryInv, WrittenInv, NothingSent, SentWritten,
         ReleaseSettled, Delivered, Settled, Complete, Absent, LineOf, Sent
    <2> QED BY <1>2, <2>1, <2>2, NextCases
  <1> QED BY <1>1, <1>2, StateInvariant, OrderInvariant, PTL DEF Spec

(***************************************************************************)
(* A log call that has returned has its whole line in the output, unless   *)
(* the sink refused a part of it or the output was closed before: then it  *)
(* has nothing of it there.                                                *)
(***************************************************************************)
THEOREM LinesDelivered == Spec => []Delivered
  <1>1. DeliveryInv => Delivered
    BY DEF DeliveryInv
  <1> QED BY <1>1, DeliveryInvariant, PTL

--------------------------------------------------------------------------------
(* The refinement of PslogLineLog.                                         *)

(***************************************************************************)
(* What the reader of the sink sees of the first m units of the output.    *)
(***************************************************************************)
LEMMA LogPrefix ==
  ASSUME NEW S, NEW q \in Seq(S), NEW m \in 0..Len(q)
  PROVE  /\ SubSeq(q, 1, m) \in Seq(S) /\ Len(SubSeq(q, 1, m)) = m
         /\ \A i \in 1..m : SubSeq(q, 1, m)[i] = q[i]
  BY SubSeqProperties

(***************************************************************************)
(* The log does not change while the mark does not: writes go behind it.   *)
(***************************************************************************)
LEMMA LogKept ==
  ASSUME StateInv, TypeOK', NEW t \in Threads, Step(t), mark' = mark
  PROVE  SubSeq(out', 1, mark') = SubSeq(out, 1, mark)
  <1>1. CASE out' = out
    BY <1>1
  <1>2. ASSUME NEW n \in Nat, NEW err \in BOOLEAN, OutputWrite(t, n, err)
        PROVE  SubSeq(out', 1, mark) = SubSeq(out, 1, mark)
    <2>1. /\ out \in Seq(Unit) /\ mark \in 0..Len(out)
          /\ out' \in Seq(Unit) /\ mark \in 0..Len(out')
      BY DEF StateInv, TypeOK
    <2>2. /\ SubSeq(out, 1, mark) \in Seq(Unit) /\ Len(SubSeq(out, 1, mark)) = mark
          /\ \A i \in 1..mark : SubSeq(out, 1, mark)[i] = out[i]
      BY <2>1, LogPrefix
    <2>3. /\ SubSeq(out', 1, mark) \in Seq(Unit) /\ Len(SubSeq(out', 1, mark)) = mark
          /\ \A i \in 1..mark : SubSeq(out', 1, mark)[i] = out'[i]
      BY <2>1, LogPrefix
    <2>4. \A i \in 1..Len(out) : out'[i] = out[i]
      BY <1>2, WriteAppends
    <2>5. \A i \in 1..mark : i \in 1..Len(out)
      BY <2>1
    <2>6. \A i \in 1..mark : SubSeq(out', 1, mark)[i] = SubSeq(out, 1, mark)[i]
      BY <2>2, <2>3, <2>4, <2>5
    <2> QED BY <2>2, <2>3, <2>6, SeqEqual
  <1> QED BY <1>1, <1>2, OutKept

(***************************************************************************)
(* The release of the mutex at the end of pslog_write_buffer adds the line *)
(* of the thread to the log, all of it unless the sink refused a part.     *)
(***************************************************************************)
LEMMA LogAppend ==
  ASSUME StateInv, OrderInv, WrittenInv, NEW t \in Threads, WriteBufferReturn(t),
         ~closed, mark # Len(out)
  PROVE  LineLog!Appends(SubSeq(out, 1, mark), SubSeq(out, 1, Len(out)), LineOf(t),
                         LineOf(t) \in faulted)
  <1> DEFINE old == SubSeq(out, 1, mark)
             new == SubSeq(out, 1, Len(out))
  <1>0. /\ out \in Seq(Unit) /\ mark \in 0..Len(out) /\ Len(out) \in Nat /\ mark \in Nat
        /\ Len(out) \in 0..Len(out) /\ mark < Len(out)
    BY DEF StateInv, TypeOK
  <1>1. Len(old) = mark /\ \A i \in 1..mark : old[i] = out[i]
    BY <1>0, LogPrefix
  <1>2. Len(new) = Len(out) /\ \A i \in 1..Len(out) : new[i] = out[i]
    BY <1>0, LogPrefix
  <1>3. pc[t] = "drained" /\ pc[t] \in Emitting /\ mutex = t
    BY DEF WriteBufferReturn, At, Emitting, StateInv, LockInv, Critical
  <1>4. /\ LineOf(t).size = size[t] /\ LineOf(t).thr = t /\ LineOf(t).seq = call[t]
        /\ call[t] \in Nat
    BY Counters DEF LineOf, StateInv
  <1>5. ASSUME NEW i \in 1..mark PROVE new[i] = old[i] /\ old[i].line # LineOf(t)
    <2>1. i \in 1..Len(out)
      BY <1>0
    <2>2. out[i].line.thr = t => out[i].line.seq < call[t]
      BY <1>3 DEF OrderInv, TailInv, FreshLine
    <2>3. out[i].line # LineOf(t)
      BY <1>4, <2>2
    <2> QED BY <1>1, <1>2, <2>1, <2>3
  <1>6. ASSUME NEW i \in (mark + 1)..Len(out)
        PROVE  /\ i \in 1..Len(out) /\ out[i].line = LineOf(t)
               /\ out[i].idx \in 1..LineOf(t).size
    <2>1. i \in 1..Len(out)
      BY <1>0
    <2>2. out[i].line = LineOf(t)
      BY <1>3 DEF OrderInv, TailInv, OwnTail
    <2> QED BY <2>1, <2>2 DEF OrderInv, TailInv, CallsMade
  <1>7. ASSUME NEW i \in (mark + 1)..Len(out), NEW j \in (mark + 1)..Len(out), i < j
        PROVE  out[i].idx < out[j].idx
    <2>1. Precedes(out[i], out[j])
      BY <1>6, <1>7 DEF OrderInv, InOrder
    <2> QED BY <1>4, <1>6, <2>1 DEF Precedes
  <1>8. LineOf(t) \notin faulted => Len(out) = mark + LineOf(t).size
    BY <1>3, <1>4, DrainedSettled DEF WrittenInv, OrderInv
  <1> HIDE DEF old, new
  <1>9. LineLog!Added(old, new) = (mark + 1)..Len(out)
    BY <1>1, <1>2 DEF LineLog!Added
  <1>10. LineLog!Appends(old, new, LineOf(t), LineOf(t) \in faulted)
    <2>1. Len(new) > Len(old)
      BY <1>0, <1>1, <1>2
    <2>2. \A i \in 1..Len(old) : new[i] = old[i] /\ old[i].line # LineOf(t)
      BY <1>1, <1>5
    <2>3. \A i \in LineLog!Added(old, new) :
            new[i].line = LineOf(t) /\ new[i].idx \in 1..LineOf(t).size
      BY <1>2, <1>6, <1>9
    <2>4. \A i, j \in LineLog!Added(old, new) : i < j => new[i].idx < new[j].idx
      BY <1>2, <1>6, <1>7, <1>9
    <2>5. LineOf(t) \notin faulted => Len(new) = Len(old) + LineOf(t).size
      BY <1>1, <1>2, <1>8
    <2> QED BY <2>1, <2>2, <2>3, <2>4, <2>5 DEF LineLog!Appends
  <1> QED BY <1>10 DEF old, new

(***************************************************************************)
(* Every step of a thread is a step of the line log: it adds the line of   *)
(* the thread, refuses a part of it, closes, or is not seen by the reader. *)
(***************************************************************************)
LEMMA LineLogStep ==
  ASSUME StateInv, StateInv', OrderInv, WrittenInv, NEW t \in Threads, Step(t)
  PROVE  [LineLog!Next]_(LineLog!vars)
  <1> USE DEF StateInv
  <1>0. TypeOK' /\ (mutex = t <=> locked[t] \/ pc[t] \in Critical)
    BY DEF LockInv
  <1>1. CASE \E n \in Nat, err \in BOOLEAN : OutputWrite(t, n, err)
    <2>1. PICK n \in Nat, err \in BOOLEAN : OutputWrite(t, n, err)
      BY <1>1
    <2>2. ~closed /\ closed' = closed /\ mark' = mark
          /\ (faulted' = faulted \/ faulted' = faulted \cup {LineOf(t)})
      BY <2>1 DEF OutputWrite, LockInv
    <2>3. SubSeq(out', 1, mark') = SubSeq(out, 1, mark)
      BY <1>0, <2>2, LogKept
    <2>4. LineOf(t) \in Line
      BY <2>1, WriteAppends
    <2>5. CASE faulted' = faulted
      BY <2>2, <2>3, <2>5 DEF LineLog!vars
    <2>6. CASE faulted' = faulted \cup {LineOf(t)}
      <3>1. LineLog!Refuse(LineOf(t))
        BY <2>2, <2>3, <2>6 DEF LineLog!Refuse
      <3> QED BY <2>4, <3>1 DEF LineLog!Next
    <2> QED BY <2>2, <2>5, <2>6
  <1>2. CASE WriteBufferReturn(t)
    <2>1. /\ pc[t] = "drained" /\ out' = out /\ mark' = Len(out)
          /\ closed' = closed /\ faulted' = faulted
      BY <1>2 DEF WriteBufferReturn, At, Unlock
    <2>2. CASE mark = Len(out)
      BY <2>1, <2>2 DEF LineLog!vars
    <2>3. CASE mark # Len(out)
      <3>1. ~closed
        BY <2>3 DEF OrderInv, TailInv, NoTail
      <3>2. LineOf(t) \in Line
        BY <2>1, EmittedLine DEF Emitting
      <3>3. LineLog!Appends(SubSeq(out, 1, mark), SubSeq(out', 1, mark'), LineOf(t),
                            LineOf(t) \in faulted)
        BY <1>2, <2>1, <2>3, <3>1, LogAppend
      <3>4. LineLog!AppendLine(LineOf(t))
        BY <2>1, <3>1, <3>3 DEF LineLog!AppendLine
      <3> QED BY <3>2, <3>4 DEF LineLog!Next
    <2> QED BY <2>2, <2>3
  <1>3. CASE FlushClosed(t) \/ CloseReturn(t)
    <2>1. /\ out' = out /\ mark' = Len(out) /\ closed' = closed /\ faulted' = faulted
          /\ closed \/ pc[t] = "closed"
      BY <1>3 DEF FlushClosed, CloseReturn, At, Unlock
    <2>2. mark = Len(out)
      <3>1. CASE closed
        BY <3>1 DEF OrderInv, TailInv, NoTail
      <3>2. CASE pc[t] = "closed"
        <4>1. mutex = t /\ pc[t] \notin Emitting
          BY <1>0, <3>2 DEF Critical, Emitting
        <4>2. mark # Len(out) => mark + 1 \in (mark + 1)..Len(out)
          BY DEF TypeOK
        <4> QED BY <4>1, <4>2 DEF OrderInv, TailInv, OwnTail
      <3> QED BY <2>1, <3>1, <3>2
    <2> QED BY <2>1, <2>2 DEF LineLog!vars
  <1>4. CASE CloseShared(t)
    <2>1. out' = out /\ mark' = mark /\ faulted' = faulted
          /\ (closed' = closed \/ (~closed /\ closed' = TRUE))
      BY <1>4 DEF CloseShared, history
    <2>2. CASE closed' = closed
      BY <2>1, <2>2 DEF LineLog!vars
    <2>3. CASE ~closed /\ closed' = TRUE
      <3>1. LineLog!Close
        BY <2>1, <2>3 DEF LineLog!Close
      <3> QED BY <3>1 DEF LineLog!Next
    <2> QED BY <2>1, <2>2, <2>3
  <1>5. CASE EmitReturn(t)
    <2>1. ~locked[t]
      BY <1>5 DEF EmitReturn, At, LockInv, Emitting
    <2>2. UNCHANGED <<out, mark, closed, faulted>>
      BY <1>5, <2>1 DEF EmitReturn
    <2> QED BY <2>2 DEF LineLog!vars
  <1>6. CASE \/ \E level \in CallLevels, n \in Sizes : LogCall(t, level, n)
             \/ \E level \in CallLevels : LogSkipped(t, level)
             \/ BufferLockOutput(t) \/ BufferAppend(t) \/ FlushLock(t) \/ FlushOpen(t)
             \/ FlushReturn(t) \/ WriteBuffer(t) \/ Exit(t) \/ CloseCall(t)
             \/ CloseLock(t) \/ CloseCallback(t)
    <2>1. UNCHANGED <<out, mark, closed, faulted>>
      BY <1>6 DEF shared, history, LogCall, LogSkipped, BufferLockOutput, BufferAppend,
         FlushLock, FlushOpen, FlushReturn, WriteBuffer, Exit, CloseCall, CloseLock,
         CloseCallback
    <2> QED BY <2>1 DEF LineLog!vars
  <1> QED BY <1>1, <1>2, <1>3, <1>4, <1>5, <1>6 DEF Step

(***************************************************************************)
(* The threads that share a logger tree write to its output what a log of  *)
(* whole lines would hold: each line enters it in one step, once, between  *)
(* the opening and the closing of the output.                              *)
(***************************************************************************)
THEOREM Refinement == Spec => ImplementsLineLog
  <1>1. Init => LineLog!Init
    <2> SUFFICES ASSUME Init PROVE LineLog!Init
      OBVIOUS
    <2>1. SubSeq(<<>>, 1, 0) = <<>>
      BY EmptySeq, SubSeqProperties
    <2> QED BY <2>1 DEF Init, LineLog!Init
  <1>2. ASSUME StateInv, StateInv', OrderInv, DeliveryInv, [Next]_vars
        PROVE  [LineLog!Next]_(LineLog!vars)
    <2>1. ASSUME NEW t \in Threads, Step(t) PROVE [LineLog!Next]_(LineLog!vars)
      BY <1>2, <2>1, LineLogStep DEF DeliveryInv
    <2>2. CASE UNCHANGED vars
      BY <2>2 DEF vars, LineLog!vars
    <2> QED BY <1>2, <2>1, <2>2, NextCases
  <1> QED BY <1>1, <1>2, StateInvariant, OrderInvariant, DeliveryInvariant, PTL
          DEF Spec, ImplementsLineLog, LineLog!Spec
=============================================================================
