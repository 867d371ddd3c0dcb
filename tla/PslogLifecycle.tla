----------------------------- MODULE PslogLifecycle -----------------------------
(***************************************************************************)
(* The life of a logger tree: pslog_new, the derivation of child loggers,  *)
(* close and destroy, by threads that share the handles of the tree.  All  *)
(* handles point to one shared state that counts them; the last one to go  *)
(* closes an owned output and frees the shared state.                      *)
(*                                                                         *)
(* Any allocation may fail, and each operation then undoes what it did.    *)
(* A section under one of the mutexes of the shared state is one step; the *)
(* sections of the output mutex are the subject of PslogOutput.  A client  *)
(* destroys a handle only when no thread uses it (pslog.h: destruction of  *)
(* the exact same handle "remains caller-synchronized"); every other       *)
(* interleaving is possible.                                               *)
(***************************************************************************)
EXTENDS Integers, FiniteSets

CONSTANTS
  Threads,
  Handles,      \* the loggers that can be allocated
  Root,         \* the one pslog_new allocates
  NoHandle,
  Owned         \* output.owned

ASSUME LifecycleAssumption ==
  /\ IsFiniteSet(Threads) /\ IsFiniteSet(Handles)
  /\ Root \in Handles /\ NoHandle \notin Handles
  /\ Owned \in BOOLEAN

VARIABLES
  shared,     \* the shared state: not allocated yet, in use, or freed
  refcount,   \* shared->refcount
  closed,     \* shared->closed
  closes,     \* how often the close callback has run
  status,     \* what has become of each handle
  canClose,   \* impl->can_close_shared of each handle
  pc,         \* where each thread is
  handle,     \* the handle the operation of the thread was called on
  clone       \* the handle the operation of the thread is making

sharedVars == <<shared, refcount, closed, closes>>
vars == <<shared, refcount, closed, closes, status, canClose, pc, handle, clone>>

Status == {"unused", "making", "live", "gone"}

PC == {"idle", "new", "new_alloc", "retain", "alloc", "copy", "prefix", "set_up",
       "log", "close", "release", "last", "free"}

Init ==
  /\ shared = "none"
  /\ refcount = 0
  /\ closed = FALSE
  /\ closes = 0
  /\ status = [h \in Handles |-> "unused"]
  /\ canClose = [h \in Handles |-> FALSE]
  /\ pc = [t \in Threads |-> "idle"]
  /\ handle = [t \in Threads |-> NoHandle]
  /\ clone = [t \in Threads |-> NoHandle]

Goto(t, l) == pc' = [pc EXCEPT ![t] = l]

\* The operation of t is over.
Return(t) ==
  /\ Goto(t, "idle")
  /\ handle' = [handle EXCEPT ![t] = NoHandle]
  /\ clone' = [clone EXCEPT ![t] = NoHandle]

--------------------------------------------------------------------------------
(* Construction.                                                           *)

(***************************************************************************)
(* pslog_new allocates the shared state; before that it fails without a    *)
(* trace.                                                                  *)
(***************************************************************************)
New(t) ==
  /\ pc[t] = "idle"
  /\ shared = "none"
  /\ shared' = "live"
  /\ Goto(t, "new")
  /\ UNCHANGED <<refcount, closed, closes, status, canClose, handle, clone>>

(***************************************************************************)
(* The copy of time_format fails while refcount is still 0; otherwise the  *)
(* caches are set up and refcount becomes 1.                               *)
(***************************************************************************)
NewTimeFormat(t, ok) ==
  /\ pc[t] = "new"
  /\ refcount' = IF ok THEN 1 ELSE refcount
  /\ Goto(t, IF ok THEN "new_alloc" ELSE "release")
  /\ UNCHANGED <<shared, closed, closes, status, canClose, handle, clone>>

NewAllocate(t, ok) ==
  /\ pc[t] = "new_alloc"
  /\ IF ok
     THEN /\ status' = [status EXCEPT ![Root] = "live"]
          /\ canClose' = [canClose EXCEPT ![Root] = Owned]
          /\ Return(t)
     ELSE /\ Goto(t, "release")
          /\ UNCHANGED <<status, canClose, handle, clone>>
  /\ UNCHANGED sharedVars

--------------------------------------------------------------------------------
(* Operations on a handle.                                                 *)

\* A handle of the tree on which a client may start an operation.
Usable(h) == status[h] = "live"

\* No thread is using h.
Unused(h) == \A t \in Threads : handle[t] # h

Call(t, h, l) ==
  /\ pc[t] = "idle"
  /\ Usable(h)
  /\ handle' = [handle EXCEPT ![t] = h]
  /\ Goto(t, l)
  /\ UNCHANGED <<sharedVars, status, canClose, clone>>

With(t, h)  == Call(t, h, "retain")
Log(t, h)   == Call(t, h, "log")
Close(t, h) == Call(t, h, "close")

Retain(t) ==
  /\ pc[t] = "retain"
  /\ refcount' = refcount + 1
  /\ Goto(t, "alloc")
  /\ UNCHANGED <<shared, closed, closes, status, canClose, handle, clone>>

(***************************************************************************)
(* pslog_allocate_logger: the new handle may close the output, like a root,*)
(* until pslog_clone_with_fields says otherwise.                           *)
(***************************************************************************)
CloneAllocate(t, h) ==
  /\ pc[t] = "alloc"
  /\ status[h] = "unused" /\ h # Root
  /\ status' = [status EXCEPT ![h] = "making"]
  /\ canClose' = [canClose EXCEPT ![h] = Owned]
  /\ clone' = [clone EXCEPT ![t] = h]
  /\ Goto(t, "copy")
  /\ UNCHANGED <<sharedVars, handle>>

CloneAllocateFails(t) ==
  /\ pc[t] = "alloc"
  /\ Goto(t, "release")
  /\ UNCHANGED <<sharedVars, status, canClose, handle, clone>>

\* Mutant: the failed clone is freed but its reference is not released.
CloneFailsLeaking(t) ==
  /\ pc[t] \in {"copy", "prefix"}
  /\ status' = [status EXCEPT ![clone[t]] = "gone"]
  /\ Return(t)
  /\ UNCHANGED <<sharedVars, canClose>>

(***************************************************************************)
(* pslog_copy_fields or pslog_build_field_prefix fails: the clone is       *)
(* destroyed, which releases the reference taken for it.                   *)
(***************************************************************************)
CloneFails(t) ==
  /\ pc[t] \in {"copy", "prefix"}
  /\ status' = [status EXCEPT ![clone[t]] = "gone"]
  /\ Goto(t, "release")
  /\ UNCHANGED <<sharedVars, canClose, handle, clone>>

CloneCopy(t) ==
  /\ pc[t] = "copy"
  /\ Goto(t, "prefix")
  /\ UNCHANGED <<sharedVars, status, canClose, handle, clone>>

ClonePrefix(t) ==
  /\ pc[t] = "prefix"
  /\ Goto(t, "set_up")
  /\ UNCHANGED <<sharedVars, status, canClose, handle, clone>>

(***************************************************************************)
(* The end of pslog_clone_with_fields: the child is handed to the client.  *)
(***************************************************************************)
CloneReturn(t) ==
  /\ pc[t] = "set_up"
  /\ canClose' = [canClose EXCEPT ![clone[t]] = FALSE]
  /\ status' = [status EXCEPT ![clone[t]] = "live"]
  /\ Return(t)
  /\ UNCHANGED sharedVars

\* Emission touches the shared state; what it writes is in PslogOutput.
LogEmit(t) ==
  /\ pc[t] = "log"
  /\ Return(t)
  /\ UNCHANGED <<sharedVars, status, canClose>>

(***************************************************************************)
(* pslog_close_shared_locked, with the permission to close.                *)
(***************************************************************************)
CloseShared(allow) ==
  IF closed \/ ~allow \/ ~Owned
  THEN UNCHANGED <<closed, closes>>
  ELSE closed' = TRUE /\ closes' = closes + 1

\* Mutant: any handle of the tree may close.
CloseHandleAny(t) ==
  /\ pc[t] = "close"
  /\ CloseShared(TRUE)
  /\ Return(t)
  /\ UNCHANGED <<shared, refcount, status, canClose>>

CloseHandle(t) ==
  /\ pc[t] = "close"
  /\ CloseShared(canClose[handle[t]])
  /\ Return(t)
  /\ UNCHANGED <<shared, refcount, status, canClose>>

--------------------------------------------------------------------------------
(* Destruction.                                                            *)

Destroy(t, h) ==
  /\ pc[t] = "idle"
  /\ Usable(h) /\ Unused(h)
  /\ status' = [status EXCEPT ![h] = "gone"]
  /\ Goto(t, "release")
  /\ UNCHANGED <<sharedVars, canClose, handle, clone>>

\* Mutant: the count is tested after it went down.
ReleaseEarly(t) ==
  /\ pc[t] = "release"
  /\ refcount' = refcount - 1
  /\ IF refcount' > 1
     THEN Return(t)
     ELSE Goto(t, "last") /\ UNCHANGED <<handle, clone>>
  /\ UNCHANGED <<shared, closed, closes, status, canClose>>

(***************************************************************************)
(* pslog_release_shared under the state mutex: all but the last reference  *)
(* just go; the last one is found at 1, or at 0 if pslog_new has failed    *)
(* before it set the count.                                                *)
(***************************************************************************)
Release(t) ==
  /\ pc[t] = "release"
  /\ IF refcount > 1
     THEN refcount' = refcount - 1 /\ Return(t)
     ELSE Goto(t, "last") /\ UNCHANGED <<refcount, handle, clone>>
  /\ UNCHANGED <<shared, closed, closes, status, canClose>>

\* Mutant: the last handle closes the output only if it is the root.
LastClosesIfRoot(t) ==
  /\ pc[t] = "last"
  /\ CloseShared(\E h \in Handles : canClose[h] /\ status[h] = "live")
  /\ Goto(t, "free")
  /\ UNCHANGED <<shared, refcount, status, canClose, handle, clone>>

LastCloses(t) ==
  /\ pc[t] = "last"
  /\ CloseShared(TRUE)
  /\ Goto(t, "free")
  /\ UNCHANGED <<shared, refcount, status, canClose, handle, clone>>

Free(t) ==
  /\ pc[t] = "free"
  /\ shared' = "freed"
  /\ Return(t)
  /\ UNCHANGED <<refcount, closed, closes, status, canClose>>

--------------------------------------------------------------------------------

Operate(t) ==
  \/ \E ok \in BOOLEAN : NewTimeFormat(t, ok) \/ NewAllocate(t, ok)
  \/ Retain(t)
  \/ \E h \in Handles : CloneAllocate(t, h)
  \/ CloneAllocateFails(t)
  \/ CloneFails(t)
  \/ CloneCopy(t)
  \/ ClonePrefix(t)
  \/ CloneReturn(t)
  \/ LogEmit(t)
  \/ CloseHandle(t)
  \/ Release(t)
  \/ LastCloses(t)
  \/ Free(t)

Start(t) ==
  \/ New(t)
  \/ \E h \in Handles : With(t, h) \/ Log(t, h) \/ Close(t, h)

Next ==
  \/ \E t \in Threads : Start(t) \/ Operate(t)
  \/ \E t \in Threads, h \in Handles : Destroy(t, h)
  \/ shared = "freed" /\ UNCHANGED vars

Spec == Init /\ [][Next]_vars

--------------------------------------------------------------------------------
(* Properties.                                                             *)

TypeOK ==
  /\ shared \in {"none", "live", "freed"}
  /\ refcount \in Nat
  /\ closed \in BOOLEAN
  /\ closes \in Nat
  /\ status \in [Handles -> Status]
  /\ canClose \in [Handles -> BOOLEAN]
  /\ pc \in [Threads -> PC]
  /\ handle \in [Threads -> Handles \cup {NoHandle}]
  /\ clone \in [Threads -> Handles \cup {NoHandle}]

Live == {h \in Handles : status[h] = "live"}

\* Threads that hold a reference on behalf of no live handle.
Holding ==
  {t \in Threads : pc[t] \in {"new_alloc", "alloc", "copy", "prefix", "set_up", "release"}}

Ending == {t \in Threads : pc[t] \in {"new", "last", "free"}}

(***************************************************************************)
(* The reference count is the number of live handles plus the references   *)
(* of operations under way, whichever of them fail, until the last         *)
(* reference is being given up.                                            *)
(***************************************************************************)
CountsReferences ==
  shared = "live" /\ refcount > 0 /\ Ending = {} =>
    refcount = Cardinality(Live) + Cardinality(Holding)

(***************************************************************************)
(* No handle and no operation ever sees a shared state that another        *)
(* thread's destroy has freed, and it is freed only once.                  *)
(***************************************************************************)
NoUseAfterFree ==
  /\ Live # {} \/ (\E t \in Threads : pc[t] # "idle") => shared = "live"
  /\ \A t \in Threads : pc[t] \in {"last", "free"} =>
       Live = {} /\ \A s \in Threads \ {t} : pc[s] = "idle"

(***************************************************************************)
(* When the last operation has returned and no handle is left, the shared  *)
(* state is freed and an owned output closed, exactly once: whatever       *)
(* failed, whoever was last and whether or not it was closed before.       *)
(***************************************************************************)
NothingLeft ==
  shared # "none" /\ Live = {} /\ (\A t \in Threads : pc[t] = "idle") =>
    shared = "freed" /\ closes = IF Owned THEN 1 ELSE 0

(***************************************************************************)
(* The output of a tree that still has handles is closed by a close of the *)
(* root handle and by nothing else: not by close of a child, nor by the    *)
(* destruction of the root before its children.                            *)
(***************************************************************************)
OnlyRootCloses ==
  [][closes' # closes /\ Live # {} =>
       \E t \in Threads : pc[t] = "close" /\ handle[t] = Root]_vars

--------------------------------------------------------------------------------
(* The inductive invariant behind the properties.                          *)

\* Where an operation relies on the handle it was called on, and where a
\* clone is under construction.
Using  == {"retain", "alloc", "copy", "prefix", "set_up", "log", "close"}
Making == {"copy", "prefix", "set_up"}

(***************************************************************************)
(* The handle of an operation stays live until the operation returns, and  *)
(* a clone under construction belongs to one thread; no live handle but    *)
(* the root has can_close_shared set.                                      *)
(***************************************************************************)
HandlesInv ==
  /\ \A t \in Threads : handle[t] \in Live \cup {NoHandle}
  /\ \A t \in Threads : pc[t] \in Using => handle[t] \in Live
  /\ \A t \in Threads : pc[t] \in Making =>
       /\ clone[t] \in Handles \ {Root}
       /\ status[clone[t]] = "making"
  /\ \A s, t \in Threads :
       pc[s] \in Making /\ pc[t] \in Making /\ clone[s] = clone[t] => s = t
  /\ \A h \in Live : canClose[h] => h = Root

\* Thread t is the only one that still has to do with the tree.
Alone(t) == Live = {} /\ \A s \in Threads \ {t} : pc[s] = "idle"

(***************************************************************************)
(* Construction and the end of the tree are the business of one thread,    *)
(* and so is a release that finds the count at 0.                          *)
(***************************************************************************)
AloneInv ==
  /\ \A t \in Threads : pc[t] \in {"new", "new_alloc", "last", "free"} => Alone(t)
  /\ \A t \in Threads : pc[t] = "new" => refcount = 0
  /\ refcount = 0 =>
       /\ Live = {}
       /\ \A t \in Threads : pc[t] \in {"idle", "new", "release", "last", "free"}
       /\ \A t \in Threads : pc[t] = "release" => Alone(t)

(***************************************************************************)
(* The shared state exists exactly as long as a handle or an operation     *)
(* needs it.                                                               *)
(***************************************************************************)
SharedInv ==
  /\ shared = "live" <=> Live # {} \/ \E t \in Threads : pc[t] # "idle"
  /\ shared = "none" => refcount = 0

(***************************************************************************)
(* An owned output is closed at most once, and before the memory is freed. *)
(***************************************************************************)
CloseInv ==
  /\ closes = IF closed THEN 1 ELSE 0
  /\ closed => Owned
  /\ shared = "freed" \/ (\E t \in Threads : pc[t] = "free") => closed = Owned

LifeInv ==
  TypeOK /\ HandlesInv /\ AloneInv /\ CountsReferences /\ SharedInv /\ CloseInv

================================================================================
