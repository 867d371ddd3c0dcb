-------------------------- MODULE PslogLifecycleProofs --------------------------
(***************************************************************************)
(* Proofs about PslogLifecycle, for any finite sets of threads and         *)
(* handles and for owned and borrowed outputs.                             *)
(***************************************************************************)
EXTENDS PslogLifecycle, FiniteSetTheorems, TLAPS

\* A step of thread t.
Step(t) ==
  \/ New(t)
  \/ \E h \in Handles, l \in {"retain", "log", "close"} : Call(t, h, l)
  \/ \E h \in Handles : Destroy(t, h)
  \/ \E ok \in BOOLEAN : NewTimeFormat(t, ok)
  \/ \E ok \in BOOLEAN : NewAllocate(t, ok)
  \/ Retain(t)
  \/ \E h \in Handles : CloneAllocate(t, h)
  \/ CloneAllocateFails(t) \/ CloneFails(t)
  \/ CloneCopy(t) \/ ClonePrefix(t) \/ CloneReturn(t)
  \/ LogEmit(t) \/ CloseHandle(t)
  \/ Release(t) \/ LastCloses(t) \/ Free(t)

(***************************************************************************)
(* Every step is a step of one thread, or changes nothing.                 *)
(***************************************************************************)
LEMMA NextCases ==
  ASSUME [Next]_vars
  PROVE  (\E t \in Threads : Step(t)) \/ UNCHANGED vars
  BY DEF Next, Start, Operate, With, Log, Close, Step

(***************************************************************************)
(* What closing may do to the shared state.                                *)
(***************************************************************************)
LEMMA CloseEffect ==
  ASSUME NEW allow, CloseShared(allow)
  PROVE  \/ closed' = closed /\ closes' = closes
         \/ ~closed /\ allow /\ Owned /\ closed' = TRUE /\ closes' = closes + 1
  BY Zenon DEF CloseShared

\* Types after pslog_close_shared.
LEMMA CloseTypes ==
  ASSUME TypeOK, NEW allow, CloseShared(allow)
  PROVE  closed' \in BOOLEAN /\ closes' \in Nat
  <1>1. closes + 1 \in Nat
    BY DEF TypeOK
  <1> QED BY <1>1, CloseEffect, Zenon DEF TypeOK

\* A step keeps the types.
LEMMA TypeStep ==
  ASSUME TypeOK, HandlesInv, NEW t \in Threads, Step(t)
  PROVE  TypeOK'
  <1> USE LifecycleAssumption DEF TypeOK, PC, Status, Goto, Return, sharedVars
  <1>1. CASE New(t)
    BY <1>1 DEF New
  <1>2. ASSUME NEW h \in Handles, NEW l \in {"retain", "log", "close"}, Call(t, h, l)
        PROVE  TypeOK'
    BY <1>2 DEF Call
  <1>3. ASSUME NEW h \in Handles, Destroy(t, h) PROVE TypeOK'
    BY <1>3 DEF Destroy
  <1>4. ASSUME NEW ok \in BOOLEAN, NewTimeFormat(t, ok) PROVE TypeOK'
    BY <1>4 DEF NewTimeFormat
  <1>5. ASSUME NEW ok \in BOOLEAN, NewAllocate(t, ok) PROVE TypeOK'
    BY <1>5 DEF NewAllocate
  <1>6. CASE Retain(t)
    BY <1>6 DEF Retain
  <1>7. ASSUME NEW h \in Handles, CloneAllocate(t, h) PROVE TypeOK'
    BY <1>7 DEF CloneAllocate
  <1>8. CASE CloneAllocateFails(t) \/ CloneCopy(t) \/ ClonePrefix(t)
    BY <1>8 DEF CloneAllocateFails, CloneCopy, ClonePrefix
  <1>9. CASE CloneFails(t)
    BY <1>9 DEF CloneFails
  <1>10. CASE CloneReturn(t)
    BY <1>10 DEF CloneReturn
  <1>11. CASE LogEmit(t)
    BY <1>11 DEF LogEmit
  <1>12. CASE CloseHandle(t)
    <2>1. closed' \in BOOLEAN /\ closes' \in Nat
      BY <1>12, CloseTypes, Zenon DEF CloseHandle
    <2> QED BY <1>12, <2>1 DEF CloseHandle
  <1>13. CASE Release(t)
    BY <1>13 DEF Release
  <1>14. CASE LastCloses(t)
    <2>1. closed' \in BOOLEAN /\ closes' \in Nat
      BY <1>14, CloseTypes, Zenon DEF LastCloses
    <2> QED BY <1>14, <2>1 DEF LastCloses
  <1>15. CASE Free(t)
    BY <1>15 DEF Free
  <1> QED BY <1>1, <1>2, <1>3, <1>4, <1>5, <1>6, <1>7, <1>8, <1>9, <1>10, <1>11,
             <1>12, <1>13, <1>14, <1>15 DEF Step

(***************************************************************************)
(* The handle a client is working with stays live, clones have one maker,  *)
(* and only the root keeps the permission to close.                        *)
(***************************************************************************)
LEMMA HandlesStep ==
  ASSUME TypeOK, TypeOK', HandlesInv, AloneInv, NEW t \in Threads, Step(t)
  PROVE  HandlesInv'
  <1> USE LifecycleAssumption DEF TypeOK, HandlesInv, Live, Using, Making, Goto,
                                  Return, sharedVars
  <1>1. CASE New(t)
    BY <1>1 DEF New
  <1>2. ASSUME NEW h \in Handles, NEW l \in {"retain", "log", "close"}, Call(t, h, l)
        PROVE  HandlesInv'
    BY <1>2 DEF Call, Usable
  <1>3. ASSUME NEW h \in Handles, Destroy(t, h) PROVE HandlesInv'
    BY <1>3 DEF Destroy, Usable, Unused
  <1>4. ASSUME NEW ok \in BOOLEAN, NewTimeFormat(t, ok) PROVE HandlesInv'
    BY <1>4 DEF NewTimeFormat
  <1>5. ASSUME NEW ok \in BOOLEAN, NewAllocate(t, ok) PROVE HandlesInv'
    BY <1>5 DEF NewAllocate
  <1>6. CASE Retain(t)
    BY <1>6 DEF Retain
  <1>7. ASSUME NEW h \in Handles, CloneAllocate(t, h) PROVE HandlesInv'
    BY <1>7 DEF CloneAllocate
  <1>8. CASE CloneAllocateFails(t) \/ CloneCopy(t) \/ ClonePrefix(t)
    BY <1>8 DEF CloneAllocateFails, CloneCopy, ClonePrefix
  <1>9. CASE CloneFails(t)
    BY <1>9 DEF CloneFails
  <1>10. CASE CloneReturn(t)
    BY <1>10 DEF CloneReturn
  <1>11. CASE LogEmit(t)
    BY <1>11 DEF LogEmit
  <1>12. CASE CloseHandle(t)
    BY <1>12 DEF CloseHandle
  <1>13. CASE Release(t)
    BY <1>13 DEF Release
  <1>14. CASE LastCloses(t)
    BY <1>14 DEF LastCloses
  <1>15. CASE Free(t)
    BY <1>15 DEF Free
  <1> QED BY <1>1, <1>2, <1>3, <1>4, <1>5, <1>6, <1>7, <1>8, <1>9, <1>10, <1>11,
             <1>12, <1>13, <1>14, <1>15 DEF Step

(***************************************************************************)
(* The live handles and the references under way can be counted.           *)
(***************************************************************************)
LEMMA Finite ==
  /\ IsFiniteSet(Live) /\ Cardinality(Live) \in Nat
  /\ IsFiniteSet(Holding) /\ Cardinality(Holding) \in Nat
  <1>1. Live \in SUBSET Handles /\ Holding \in SUBSET Threads
    BY DEF Live, Holding
  <1>2. IsFiniteSet(Live) /\ IsFiniteSet(Holding)
    BY <1>1, FS_Subset, LifecycleAssumption
  <1> QED BY <1>2, FS_CardinalityType

(***************************************************************************)
(* While an operation on a handle is under way, neither construction nor   *)
(* the end of the tree is, and the count is in force.                      *)
(***************************************************************************)
LEMMA InForce ==
  ASSUME TypeOK, HandlesInv, AloneInv, SharedInv, NEW t \in Threads, pc[t] \in Using
  PROVE  Ending = {} /\ refcount > 0 /\ shared = "live"
  <1>1. Live # {}
    BY DEF HandlesInv
  <1>2. Ending = {}
    BY <1>1 DEF AloneInv, Alone, Ending
  <1>3. refcount > 0 /\ shared = "live"
    BY <1>1 DEF AloneInv, SharedInv, TypeOK
  <1> QED BY <1>2, <1>3

(***************************************************************************)
(* A release that finds the count at 1 or less is the last one.            *)
(***************************************************************************)
LEMMA LastAlone ==
  ASSUME LifeInv, NEW t \in Threads, pc[t] = "release", ~(refcount > 1)
  PROVE  Alone(t)
  <1> USE DEF LifeInv
  <1>1. CASE refcount = 0
    BY <1>1 DEF AloneInv
  <1>2. CASE refcount # 0
    <2>1. refcount = 1 /\ shared = "live"
      BY <1>2 DEF TypeOK, SharedInv
    <2>2. Ending = {}
      BY <2>1 DEF AloneInv, Alone, Ending
    <2>3. Cardinality(Live) + Cardinality(Holding) = 1
      BY <2>1, <2>2 DEF CountsReferences
    <2>4. t \in Holding
      BY DEF Holding
    <2>5. Cardinality(Holding) # 0
      BY <2>4, Finite, FS_EmptySet
    <2>6. Cardinality(Live) = 0 /\ Cardinality(Holding) = 1
      BY <2>3, <2>5, Finite
    <2>7. Live = {} /\ Holding = {t}
      BY <2>4, <2>6, Finite, FS_EmptySet, FS_Singleton
    <2>8. ASSUME NEW s \in Threads \ {t} PROVE pc[s] = "idle"
      <3>1. pc[s] \notin Using /\ s \notin Holding /\ s \notin Ending
        BY <2>2, <2>7 DEF HandlesInv
      <3> QED BY <3>1 DEF TypeOK, PC, Using, Holding, Ending
    <2> QED BY <2>7, <2>8 DEF Alone
  <1> QED BY <1>1, <1>2

(***************************************************************************)
(* A release that finds more than one reference leaves somebody behind.    *)
(***************************************************************************)
LEMMA OthersLeft ==
  ASSUME LifeInv, NEW t \in Threads, pc[t] = "release", refcount > 1
  PROVE  Live # {} \/ \E s \in Threads \ {t} : pc[s] # "idle"
  <1>1. Ending = {} /\ shared = "live"
    BY DEF LifeInv, SharedInv, AloneInv, Alone, Ending
  <1>2. refcount = Cardinality(Live) + Cardinality(Holding)
    BY <1>1 DEF LifeInv, TypeOK, CountsReferences
  <1>3. Cardinality({}) = 0 /\ Cardinality({t}) = 1
    BY FS_EmptySet, FS_Singleton
  <1>4. Live # {} \/ Holding # {t}
    BY <1>2, <1>3
  <1> QED BY <1>4 DEF Holding

(***************************************************************************)
(* The count follows the references: whatever a step does to the handles   *)
(* and to the operations under way, it does to refcount.                   *)
(***************************************************************************)
LEMMA CountStep ==
  ASSUME LifeInv, TypeOK', NEW t \in Threads, Step(t)
  PROVE  CountsReferences'
  <1> USE LifecycleAssumption DEF LifeInv
  <1> SUFFICES ASSUME shared' = "live", refcount' > 0, Ending' = {}
               PROVE  refcount' = Cardinality(Live') + Cardinality(Holding')
    BY DEF CountsReferences
  <1>0. ASSUME Live' = Live, Holding' = Holding, refcount' = refcount, Ending = {},
               shared = "live"
        PROVE  refcount' = Cardinality(Live') + Cardinality(Holding')
    BY <1>0 DEF CountsReferences
  <1>1. CASE New(t)
    BY <1>1 DEF New, Goto, Ending, TypeOK
  <1>2. ASSUME NEW h \in Handles, NEW l \in {"retain", "log", "close"}, Call(t, h, l)
        PROVE  refcount' = Cardinality(Live') + Cardinality(Holding')
    <2>1. Live' = Live /\ Holding' = Holding /\ refcount' = refcount
          /\ Ending = Ending' /\ shared = shared'
      BY <1>2 DEF Call, Goto, Live, Holding, Ending, TypeOK, sharedVars
    <2> QED BY <2>1, <1>0
  <1>3. ASSUME NEW h \in Handles, Destroy(t, h)
        PROVE  refcount' = Cardinality(Live') + Cardinality(Holding')
    <2>1. /\ h \in Live /\ Live' = Live \ {h}
          /\ t \notin Holding /\ Holding' = Holding \cup {t}
          /\ refcount' = refcount /\ Ending = Ending' /\ shared = shared'
      BY <1>3 DEF Destroy, Usable, Goto, Live, Holding, Ending, TypeOK, sharedVars
    <2>2. refcount = Cardinality(Live) + Cardinality(Holding)
      BY <2>1 DEF CountsReferences
    <2>3. /\ Cardinality(Live') = Cardinality(Live) - 1
          /\ Cardinality(Holding') = Cardinality(Holding) + 1
      BY <2>1, Finite, FS_AddElement, FS_RemoveElement
    <2> QED BY <2>1, <2>2, <2>3, Finite
  <1>4. ASSUME NEW ok \in BOOLEAN, NewTimeFormat(t, ok)
        PROVE  refcount' = Cardinality(Live') + Cardinality(Holding')
    <2>1. ok /\ refcount' = 1
      BY <1>4 DEF NewTimeFormat, AloneInv, TypeOK
    <2>2. Live' = {} /\ Holding' = {t}
      BY <1>4 DEF NewTimeFormat, Goto, AloneInv, Alone, Live, Holding, TypeOK
    <2> QED BY <2>1, <2>2, FS_EmptySet, FS_Singleton
  <1>5. ASSUME NEW ok \in BOOLEAN, NewAllocate(t, ok)
        PROVE  refcount' = Cardinality(Live') + Cardinality(Holding')
    <2>1. Live = {} /\ Holding = {t} /\ refcount' = refcount /\ Ending = {}
          /\ shared = "live"
      BY <1>5 DEF NewAllocate, AloneInv, Alone, Holding, Ending, TypeOK, sharedVars
    <2>2. refcount = 1
      BY <2>1, FS_EmptySet, FS_Singleton DEF CountsReferences
    <2>3. CASE ok
      <3>1. Live' = {Root} /\ Holding' = {}
        BY <1>5, <2>1, <2>3 DEF NewAllocate, Return, Goto, Live, Holding, TypeOK
      <3>2. Cardinality(Live') = 1 /\ Cardinality(Holding') = 0
        BY <3>1, FS_EmptySet, FS_Singleton
      <3> QED BY <2>1, <2>2, <3>2
    <2>4. CASE ~ok
      <3>1. Live' = {} /\ Holding' = {t}
        BY <1>5, <2>1, <2>4 DEF NewAllocate, Goto, Live, Holding, TypeOK
      <3>2. Cardinality(Live') = 0 /\ Cardinality(Holding') = 1
        BY <3>1, FS_EmptySet, FS_Singleton
      <3> QED BY <2>1, <2>2, <3>2
    <2> QED BY <2>3, <2>4
  <1>6. CASE Retain(t)
    <2>1. Ending = {} /\ refcount > 0 /\ shared = "live"
      BY <1>6, InForce DEF Retain, Using
    <2>2. /\ Live' = Live /\ t \notin Holding /\ Holding' = Holding \cup {t}
          /\ refcount' = refcount + 1
      BY <1>6 DEF Retain, Goto, Live, Holding, TypeOK
    <2>3. Cardinality(Holding') = Cardinality(Holding) + 1
      BY <2>2, Finite, FS_AddElement
    <2> QED BY <2>1, <2>2, <2>3, Finite DEF CountsReferences
  <1>7. ASSUME NEW h \in Handles, CloneAllocate(t, h)
        PROVE  refcount' = Cardinality(Live') + Cardinality(Holding')
    <2>1. Live' = Live /\ Holding' = Holding /\ refcount' = refcount
          /\ Ending = Ending' /\ shared = shared'
      BY <1>7 DEF CloneAllocate, Goto, Live, Holding, Ending, TypeOK, sharedVars
    <2> QED BY <2>1, <1>0
  <1>8. CASE CloneAllocateFails(t) \/ CloneCopy(t) \/ ClonePrefix(t)
    <2>1. Live' = Live /\ Holding' = Holding /\ refcount' = refcount
          /\ Ending = Ending' /\ shared = shared'
      BY <1>8 DEF CloneAllocateFails, CloneCopy, ClonePrefix, Goto, Live, Holding,
                  Ending, TypeOK, sharedVars
    <2> QED BY <2>1, <1>0
  <1>9. CASE CloneFails(t)
    <2>1. clone[t] \in Handles /\ status[clone[t]] = "making"
      BY <1>9 DEF CloneFails, HandlesInv, Making
    <2>2. Live' = Live /\ Holding' = Holding /\ refcount' = refcount
          /\ Ending = Ending' /\ shared = shared'
      BY <1>9, <2>1 DEF CloneFails, Goto, Live, Holding, Ending, TypeOK, sharedVars
    <2> QED BY <2>2, <1>0
  <1>10. CASE CloneReturn(t)
    <2>1. clone[t] \in Handles /\ status[clone[t]] = "making"
      BY <1>10 DEF CloneReturn, HandlesInv, Making
    <2>2. /\ clone[t] \notin Live /\ Live' = Live \cup {clone[t]}
          /\ t \in Holding /\ Holding' = Holding \ {t}
          /\ refcount' = refcount /\ Ending = Ending' /\ shared = shared'
      BY <1>10, <2>1 DEF CloneReturn, Return, Goto, Live, Holding, Ending, TypeOK,
                         sharedVars
    <2>3. /\ Cardinality(Live') = Cardinality(Live) + 1
          /\ Cardinality(Holding') = Cardinality(Holding) - 1
      BY <2>2, Finite, FS_AddElement, FS_RemoveElement
    <2> QED BY <2>2, <2>3, Finite DEF CountsReferences
  <1>11. CASE LogEmit(t) \/ CloseHandle(t)
    <2>1. Live' = Live /\ Holding' = Holding /\ refcount' = refcount
          /\ Ending = Ending' /\ shared = shared'
      BY <1>11 DEF LogEmit, CloseHandle, Return, Goto, Live, Holding, Ending, TypeOK,
                   sharedVars
    <2> QED BY <2>1, <1>0
  <1>12. CASE Release(t)
    <2>1. refcount > 1
      BY <1>12 DEF Release, Goto, Ending, TypeOK
    <2>2. /\ Live' = Live /\ t \in Holding /\ Holding' = Holding \ {t}
          /\ refcount' = refcount - 1 /\ Ending = Ending' /\ shared = shared'
      BY <1>12, <2>1 DEF Release, Return, Goto, Live, Holding, Ending, TypeOK
    <2>3. Cardinality(Holding') = Cardinality(Holding) - 1
      BY <2>2, Finite, FS_RemoveElement
    <2>4. refcount = Cardinality(Live) + Cardinality(Holding)
      BY <2>1, <2>2 DEF CountsReferences, TypeOK
    <2> QED BY <2>2, <2>3, <2>4, Finite
  <1>13. CASE LastCloses(t)
    BY <1>13 DEF LastCloses, Goto, Ending, TypeOK
  <1>14. CASE Free(t)
    BY <1>14 DEF Free
  <1> QED BY <1>1, <1>2, <1>3, <1>4, <1>5, <1>6, <1>7, <1>8, <1>9, <1>10, <1>11,
             <1>12, <1>13, <1>14 DEF Step

(***************************************************************************)
(* Construction and the end of the tree stay the business of one thread.   *)
(***************************************************************************)
LEMMA AloneStep ==
  ASSUME LifeInv, TypeOK', NEW t \in Threads, Step(t)
  PROVE  AloneInv'
  <1> USE LifecycleAssumption DEF LifeInv, TypeOK, AloneInv, Alone, Live, Goto, Return,
                                  sharedVars
  <1>1. CASE New(t)
    BY <1>1 DEF New, SharedInv
  <1>2. ASSUME NEW h \in Handles, NEW l \in {"retain", "log", "close"}, Call(t, h, l)
        PROVE  AloneInv'
    BY <1>2 DEF Call, Usable
  <1>3. ASSUME NEW h \in Handles, Destroy(t, h) PROVE AloneInv'
    BY <1>3 DEF Destroy, Usable
  <1>4. ASSUME NEW ok \in BOOLEAN, NewTimeFormat(t, ok) PROVE AloneInv'
    BY <1>4 DEF NewTimeFormat
  <1>5. ASSUME NEW ok \in BOOLEAN, NewAllocate(t, ok) PROVE AloneInv'
    BY <1>5 DEF NewAllocate
  <1>6. CASE Retain(t)
    BY <1>6 DEF Retain
  <1>7. ASSUME NEW h \in Handles, CloneAllocate(t, h) PROVE AloneInv'
    BY <1>7 DEF CloneAllocate
  <1>8. CASE CloneAllocateFails(t) \/ CloneCopy(t) \/ ClonePrefix(t)
    BY <1>8 DEF CloneAllocateFails, CloneCopy, ClonePrefix
  <1>9. CASE CloneFails(t)
    BY <1>9 DEF CloneFails, HandlesInv, Making
  <1>10. CASE CloneReturn(t)
    BY <1>10 DEF CloneReturn
  <1>11. CASE LogEmit(t) \/ CloseHandle(t)
    BY <1>11 DEF LogEmit, CloseHandle
  <1>12. CASE Release(t)
    <2>1. CASE refcount > 1
      BY <1>12, <2>1 DEF Release
    <2>2. CASE ~(refcount > 1)
      <3>1. Alone(t)
        BY <1>12, <2>2, LastAlone DEF Release
      <3> QED BY <1>12, <2>2, <3>1 DEF Release
    <2> QED BY <2>1, <2>2
  <1>13. CASE LastCloses(t)
    BY <1>13 DEF LastCloses
  <1>14. CASE Free(t)
    BY <1>14 DEF Free
  <1> QED BY <1>1, <1>2, <1>3, <1>4, <1>5, <1>6, <1>7, <1>8, <1>9, <1>10, <1>11,
             <1>12, <1>13, <1>14 DEF Step

(***************************************************************************)
(* The shared state is there while it is needed, and no longer.            *)
(***************************************************************************)
LEMMA SharedStep ==
  ASSUME LifeInv, TypeOK', HandlesInv', NEW t \in Threads, Step(t)
  PROVE  SharedInv'
  <1> USE LifecycleAssumption DEF LifeInv, TypeOK, SharedInv, Live, Goto, Return,
                                  sharedVars
  <1>1. CASE New(t)
    BY <1>1 DEF New
  <1>2. ASSUME NEW h \in Handles, NEW l \in {"retain", "log", "close"}, Call(t, h, l)
        PROVE  SharedInv'
    BY <1>2 DEF Call, Usable
  <1>3. ASSUME NEW h \in Handles, Destroy(t, h) PROVE SharedInv'
    BY <1>3 DEF Destroy, Usable
  <1>4. ASSUME NEW ok \in BOOLEAN, NewTimeFormat(t, ok) PROVE SharedInv'
    BY <1>4 DEF NewTimeFormat
  <1>5. ASSUME NEW ok \in BOOLEAN, NewAllocate(t, ok) PROVE SharedInv'
    BY <1>5 DEF NewAllocate
  <1>6. CASE Retain(t)
    BY <1>6 DEF Retain
  <1>7. ASSUME NEW h \in Handles, CloneAllocate(t, h) PROVE SharedInv'
    BY <1>7 DEF CloneAllocate
  <1>8. CASE CloneAllocateFails(t) \/ CloneCopy(t) \/ ClonePrefix(t)
    BY <1>8 DEF CloneAllocateFails, CloneCopy, ClonePrefix
  <1>9. CASE CloneFails(t)
    BY <1>9 DEF CloneFails, HandlesInv, Making
  <1>10. CASE CloneReturn(t)
    BY <1>10 DEF CloneReturn, HandlesInv, Making
  <1>11. CASE LogEmit(t) \/ CloseHandle(t)
    BY <1>11 DEF LogEmit, CloseHandle, HandlesInv, Using
  <1>12. CASE Release(t)
    <2>1. CASE refcount > 1
      <3>1. Live # {} \/ \E s \in Threads \ {t} : pc[s] # "idle"
        BY <1>12, <2>1, OthersLeft DEF Release
      <3> QED BY <1>12, <2>1, <3>1 DEF Release
    <2>2. CASE ~(refcount > 1)
      BY <1>12, <2>2 DEF Release
    <2> QED BY <2>1, <2>2
  <1>13. CASE LastCloses(t)
    BY <1>13 DEF LastCloses
  <1>14. CASE Free(t)
    BY <1>14 DEF Free, AloneInv, Alone
  <1> QED BY <1>1, <1>2, <1>3, <1>4, <1>5, <1>6, <1>7, <1>8, <1>9, <1>10, <1>11,
             <1>12, <1>13, <1>14 DEF Step

(***************************************************************************)
(* The output is closed once, and before the shared state goes.            *)
(***************************************************************************)
LEMMA CloseStep ==
  ASSUME LifeInv, TypeOK', NEW t \in Threads, Step(t)
  PROVE  CloseInv'
  <1> USE DEF LifeInv
  <1>1. ASSUME UNCHANGED <<closed, closes>>, shared' = shared \/ shared' # "freed",
               ~LastCloses(t), ~Free(t)
        PROVE  CloseInv'
    <2>1. \A s \in Threads : pc'[s] = "free" => pc[s] = "free"
      BY <1>1 DEF Step, New, Call, Destroy, NewTimeFormat, NewAllocate, Retain,
                  CloneAllocate, CloneAllocateFails, CloneFails, CloneCopy, ClonePrefix,
                  CloneReturn, LogEmit, CloseHandle, Release, Goto, Return, TypeOK
    <2> QED BY <1>1, <2>1 DEF CloseInv
  <1>2. CASE CloseHandle(t)
    <2>1. /\ pc[t] = "close" /\ shared' = shared
          /\ \A s \in Threads : pc'[s] = "free" => s # t /\ pc[s] = "free"
      BY <1>2 DEF CloseHandle, Goto, Return, TypeOK
    <2>2. shared' # "freed" /\ \A s \in Threads : pc'[s] # "free"
      BY <2>1, Zenon DEF SharedInv, AloneInv, Alone
    <2>3. \/ closed' = closed /\ closes' = closes
          \/ ~closed /\ Owned /\ closed' = TRUE /\ closes' = closes + 1
      BY <1>2, CloseEffect, Zenon DEF CloseHandle
    <2>4. closes' = (IF closed' THEN 1 ELSE 0) /\ (closed' => Owned)
      BY <2>3 DEF CloseInv, TypeOK
    <2> QED BY <2>2, <2>4 DEF CloseInv
  <1>3. CASE LastCloses(t)
    <2>1. \/ /\ closed \/ ~Owned
             /\ closed' = closed /\ closes' = closes
          \/ ~closed /\ Owned /\ closed' = TRUE /\ closes' = closes + 1
      BY <1>3, Zenon DEF LastCloses, CloseShared
    <2> QED BY <2>1, LifecycleAssumption DEF CloseInv, TypeOK
  <1>4. CASE Free(t)
    BY <1>4 DEF Free, Goto, Return, CloseInv, TypeOK
  <1>5. \/ UNCHANGED <<closed, closes>> /\ (shared' = shared \/ shared' # "freed")
        \/ CloseHandle(t) \/ LastCloses(t) \/ Free(t)
    BY DEF Step, New, Call, Destroy, NewTimeFormat, NewAllocate, Retain, CloneAllocate,
           CloneAllocateFails, CloneFails, CloneCopy, ClonePrefix, CloneReturn, LogEmit,
           Release, sharedVars
  <1> QED BY <1>1, <1>2, <1>3, <1>4, <1>5

--------------------------------------------------------------------------------

\* The invariant holds at first.
LEMMA InitLife == Init => LifeInv
  <1> SUFFICES ASSUME Init PROVE LifeInv
    OBVIOUS
  <1>1. TypeOK
    BY LifecycleAssumption DEF Init, TypeOK, Status, PC
  <1>2. Live = {} /\ \A t \in Threads : pc[t] = "idle"
    BY DEF Init, Live
  <1>3. HandlesInv
    BY <1>2 DEF Init, HandlesInv, Using, Making
  <1>4. AloneInv /\ CountsReferences /\ SharedInv /\ CloseInv
    BY <1>2 DEF Init, AloneInv, CountsReferences, SharedInv, CloseInv
  <1> QED BY <1>1, <1>3, <1>4 DEF LifeInv

\* Every step keeps the invariant.
LEMMA LifeStep == ASSUME LifeInv, [Next]_vars PROVE LifeInv'
  <1>1. CASE UNCHANGED vars
    BY <1>1 DEF vars, LifeInv, TypeOK, HandlesInv, AloneInv, Alone, CountsReferences,
                SharedInv, CloseInv, Live, Holding, Ending
  <1>2. ASSUME NEW t \in Threads, Step(t) PROVE LifeInv'
    <2>1. TypeOK'
      BY <1>2, TypeStep DEF LifeInv
    <2>2. HandlesInv'
      BY <1>2, <2>1, HandlesStep DEF LifeInv
    <2> QED BY <1>2, <2>1, <2>2, AloneStep, CountStep, SharedStep, CloseStep DEF LifeInv
  <1> QED BY <1>1, <1>2, NextCases

\* The invariant holds throughout.
LEMMA LifeInvariant == Spec => []LifeInv
  BY InitLife, LifeStep, PTL DEF Spec

(***************************************************************************)
(* The variables of the tree keep their types: the reference count never   *)
(* becomes negative, every thread is at a known point.                     *)
(***************************************************************************)
THEOREM TypeCorrect == Spec => []TypeOK
  <1>1. LifeInv => TypeOK
    BY DEF LifeInv
  <1> QED BY <1>1, LifeInvariant, PTL

(***************************************************************************)
(* shared->refcount is the number of live handles and of references under  *)
(* way, whichever threads derive, fail, log, close and destroy at the same *)
(* time.                                                                   *)
(***************************************************************************)
THEOREM ReferencesCounted == Spec => []CountsReferences
  <1>1. LifeInv => CountsReferences
    BY DEF LifeInv
  <1> QED BY <1>1, LifeInvariant, PTL

(***************************************************************************)
(* pslog_release_shared frees the shared state only when no handle and no  *)
(* operation of another thread is left to touch it.                        *)
(***************************************************************************)
THEOREM SharedOutlivesUses == Spec => []NoUseAfterFree
  <1>1. LifeInv => NoUseAfterFree
    BY DEF LifeInv, NoUseAfterFree, SharedInv, AloneInv, Alone
  <1> QED BY <1>1, LifeInvariant, PTL

(***************************************************************************)
(* A tree nobody uses any more has been freed and its owned output closed  *)
(* exactly once: no failed construction, failed clone or order of          *)
(* destruction leaks it.                                                   *)
(***************************************************************************)
THEOREM NothingLeaks == Spec => []NothingLeft
  <1>1. LifeInv => NothingLeft
    <2> SUFFICES ASSUME LifeInv, shared # "none", Live = {},
                        \A t \in Threads : pc[t] = "idle"
                 PROVE  shared = "freed" /\ closes = IF Owned THEN 1 ELSE 0
      BY DEF NothingLeft
    <2>1. shared = "freed"
      BY DEF LifeInv, SharedInv, TypeOK
    <2> QED BY <2>1 DEF LifeInv, CloseInv
  <1> QED BY <1>1, LifeInvariant, PTL

(***************************************************************************)
(* While a handle of the tree is left, only a close of the root handle     *)
(* closes the output: can_close_shared is cleared in every clone before it *)
(* is handed out.                                                          *)
(***************************************************************************)
THEOREM RootCloses == Spec => OnlyRootCloses
  <1> DEFINE A == closes' # closes /\ Live # {} =>
                    \E t \in Threads : pc[t] = "close" /\ handle[t] = Root
  <1>1. ASSUME LifeInv, [Next]_vars PROVE [A]_vars
    <2>1. ASSUME NEW t \in Threads, Step(t) PROVE A
      <3> SUFFICES ASSUME closes' # closes, Live # {}
                   PROVE  pc[t] = "close" /\ handle[t] = Root
        OBVIOUS
      <3>1. CloseHandle(t) \/ LastCloses(t)
        BY <2>1 DEF Step, New, Call, Destroy, NewTimeFormat, NewAllocate, Retain,
                    CloneAllocate, CloneAllocateFails, CloneFails, CloneCopy,
                    ClonePrefix, CloneReturn, LogEmit, Release, Free, sharedVars
      <3>2. ~LastCloses(t)
        BY <1>1 DEF LastCloses, LifeInv, AloneInv, Alone
      <3>3. pc[t] = "close" /\ CloseShared(canClose[handle[t]])
        BY <3>1, <3>2 DEF CloseHandle
      <3>4. canClose[handle[t]]
        BY <3>3, Zenon DEF CloseShared
      <3>5. handle[t] \in Live
        BY <1>1, <3>3 DEF LifeInv, HandlesInv, Using
      <3> QED BY <1>1, <3>3, <3>4, <3>5, Zenon DEF LifeInv, HandlesInv
    <2> QED BY <1>1, <2>1, NextCases
  <1>2. Spec => [][A]_vars
    BY <1>1, LifeInvariant, PTL DEF Spec
  <1> QED BY <1>2 DEF OnlyRootCloses

================================================================================
