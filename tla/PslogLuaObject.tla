---------------------------- MODULE PslogLuaObject ----------------------------
(***************************************************************************)
(* The logger objects of the Lua binding: how they are made, closed and    *)
(* collected, the references C embedders take on them, and output callbacks*)
(* written in Lua, during which other Lua code, finalizers included, runs  *)
(* while libpslog holds the output mutex of the tree. All of it happens on *)
(* one thread.                                                             *)
(*                                                                         *)
(* Lua is external: an object is collected only when no variable, no       *)
(* registry reference and no running function has it; an allocation by Lua *)
(* may raise an error that unwinds the C functions up to the nearest       *)
(* protected call.                                                         *)
(***************************************************************************)
EXTENDS Integers, Sequences, FiniteSets, SequencesExt

CONSTANTS
  Objects,      \* logger objects (userdata)
  Trees,        \* logger trees, each with a Lua function for its output
  Refs,         \* references of C embedders (pslog_lua_logger_ref)
  NoObject,
  NoTree,
  MaxDepth,     \* bound: nesting of output callbacks
  MaxLeaks      \* bound: loggers Lua had no memory to make an object for

ASSUME LuaObjectAssumption ==
  /\ IsFiniteSet(Objects) /\ IsFiniteSet(Trees) /\ IsFiniteSet(Refs)
  /\ NoObject \notin Objects /\ NoTree \notin Trees
  /\ MaxDepth \in Nat /\ MaxLeaks \in Nat

VARIABLES
  object,    \* per object: its native logger, closed, and whether Lua has it
  tree,      \* per tree: the shared state and its output
  ref,       \* per reference: the object, and what the reference owns
  frames,    \* the writes in progress, the innermost last
  leaked,    \* native loggers of each tree that nothing refers to any more
  stuck,     \* trees whose output mutex an error has left locked
  coroutine, \* alive or collected
  blocked,   \* the operation that waits for a mutex forever
  over       \* lua_close has begun

vars == <<object, tree, ref, frames, leaked, stuck, coroutine, blocked, over>>

NotBlocked == [tree |-> NoTree, op |-> "none"]
NoRef == [obj |-> NoObject, registry |-> FALSE, derived |-> FALSE]

Init ==
  /\ object = [o \in Objects |->
       [log |-> "none", closed |-> FALSE, tree |-> NoTree, root |-> FALSE, held |-> FALSE]]
  /\ tree = [t \in Trees |->
       [state |-> "none", count |-> 0, closed |-> FALSE, fn |-> FALSE, L |-> "main"]]
  /\ ref = [r \in Refs |-> NoRef]
  /\ frames = <<>>
  /\ leaked = [t \in Trees |-> 0]
  /\ stuck = {}
  /\ coroutine = "alive"
  /\ blocked = NotBlocked
  /\ over = FALSE

\* Lua code can run: at the top level or in a callback.
Running == blocked = NotBlocked /\ ~over

\* The output mutex of t is held.
Locked(t) == t \in stuck \/ \E i \in DOMAIN frames : frames[i].tree = t

\* pslua_require_logger.
Open(o) == object[o].log = "live" /\ ~object[o].closed

-----------------------------------------------------------------------------
(* Making loggers.                                                         *)

\* pslua_push_logger: the object of a new native logger. When Lua has no memory
\* for it, an error is raised and nothing refers to the logger any more.
Push(o, t, isRoot, memory) ==
  IF memory
  THEN /\ object' = [object EXCEPT ![o] =
            [log |-> "live", closed |-> FALSE, tree |-> t, root |-> isRoot, held |-> TRUE]]
       /\ UNCHANGED leaked
  ELSE /\ leaked[t] < MaxLeaks
       /\ leaked' = [leaked EXCEPT ![t] = @ + 1]
       /\ UNCHANGED object

(***************************************************************************)
(* pslua_new_logger with a function for its output: the function goes to   *)
(* the registry, last of all the options, and libpslog owns the output. If *)
(* pslog_new fails the output is destroyed, which leaves nothing behind.   *)
(***************************************************************************)
NewLogger(o, t, L, memory) ==
  /\ Running
  /\ object[o].log = "none" /\ tree[t].state = "none"
  /\ L = "main" \/ coroutine = "alive"
  /\ tree' = [tree EXCEPT ![t] =
       [state |-> "live", count |-> 1, closed |-> FALSE, fn |-> TRUE, L |-> L]]
  /\ Push(o, t, TRUE, memory)
  /\ UNCHANGED <<ref, frames, stuck, coroutine, blocked, over>>

\* with, with_level, with_level_field.
With(o, child, memory) ==
  /\ Running /\ Open(o)
  /\ object[child].log = "none"
  /\ tree' = [tree EXCEPT ![object[o].tree].count = @ + 1]
  /\ Push(child, object[o].tree, FALSE, memory)
  /\ UNCHANGED <<ref, frames, stuck, coroutine, blocked, over>>

-----------------------------------------------------------------------------
(* Writing.                                                                *)

Block(t, op) ==
  /\ blocked' = [tree |-> t, op |-> op]
  /\ UNCHANGED <<object, tree, ref, frames, leaked, stuck, coroutine, over>>

(***************************************************************************)
(* A line for tree t, by a method of object o: the output mutex, and under *)
(* it pslua_callback_output_write up to the call of the Lua function.      *)
(* lua_pushlstring is outside the protected call: if Lua has no memory for *)
(* the string, its error skips the unlock.                                 *)
(***************************************************************************)
Write(t, o, memory) ==
  IF Locked(t) THEN Block(t, "log")
  ELSE /\ Len(frames) < MaxDepth
       /\ IF memory
          THEN frames' = Append(frames, [tree |-> t, obj |-> o]) /\ UNCHANGED stuck
          ELSE stuck' = stuck \cup {t} /\ UNCHANGED frames
       /\ UNCHANGED <<object, tree, ref, leaked, coroutine, blocked, over>>

\* log, trace ... panic; a closed tree is silent.
Log(o, memory) ==
  /\ Running /\ Open(o)
  /\ ~tree[object[o].tree].closed
  /\ Write(object[o].tree, o, memory)

\* C code logs with what a reference gave it.
RefLog(r, memory) ==
  /\ Running /\ ref[r] # NoRef
  /\ ~tree[object[ref[r].obj].tree].closed
  /\ Write(object[ref[r].obj].tree, ref[r].obj, memory)

\* The Lua function returns or raises an error, which lua_pcall catches; the
\* write loop ends and the mutex is unlocked.
CallbackReturns ==
  /\ Running /\ frames # <<>>
  /\ frames' = Front(frames)
  /\ UNCHANGED <<object, tree, ref, leaked, stuck, coroutine, blocked, over>>

-----------------------------------------------------------------------------
(* Closing and collecting.                                                 *)

\* pslua_callback_output_close: the function leaves the registry.
Shut(s) == [s EXCEPT !.closed = TRUE, !.fn = FALSE]

\* pslua_logger_close: only the first call reaches pslog_close, which takes the
\* output mutex; only the root may close the output.
Close(o) ==
  /\ Running /\ Open(o)
  /\ LET t == object[o].tree
     IN IF Locked(t) THEN Block(t, "close")
        ELSE /\ object' = [object EXCEPT ![o].closed = TRUE]
             /\ tree' = IF object[o].root /\ ~tree[t].closed
                        THEN [tree EXCEPT ![t] = Shut(@)] ELSE tree
             /\ UNCHANGED <<ref, frames, leaked, stuck, coroutine, blocked, over>>

\* pslog_release_shared: the last logger closes the output and frees the tree.
Release(s) ==
  IF s.count > 1 THEN [s EXCEPT !.count = @ - 1]
  ELSE [Shut(s) EXCEPT !.count = 0, !.state = "freed"]

\* A Lua variable is gone.
Drop(o) ==
  /\ Running /\ object[o].held
  /\ object' = [object EXCEPT ![o].held = FALSE]
  /\ UNCHANGED <<tree, ref, frames, leaked, stuck, coroutine, blocked, over>>

Collectable(o) ==
  /\ object[o].log = "live" /\ ~object[o].held
  /\ \A r \in Refs : ref[r].registry => ref[r].obj # o
  /\ \A i \in DOMAIN frames : frames[i].obj # o

\* Mutant: the finalizer closes the output, under its mutex, before it destroys
\* the logger.
CollectCloses(o) ==
  /\ blocked = NotBlocked /\ Collectable(o)
  /\ LET t == object[o].tree
     IN IF Locked(t) THEN Block(t, "collect")
        ELSE /\ object' = [object EXCEPT ![o].log = "gone", ![o].closed = TRUE]
             /\ tree' = [tree EXCEPT ![t] = Release(Shut(@))]
             /\ UNCHANGED <<ref, frames, leaked, stuck, coroutine, blocked, over>>

\* pslua_logger_gc, at any time: destroys the logger. The mutex of the output is
\* taken by the last logger only.
Collect(o) ==
  /\ blocked = NotBlocked /\ Collectable(o)
  /\ LET t == object[o].tree
     IN IF tree[t].count = 1 /\ Locked(t) THEN Block(t, "collect")
        ELSE /\ object' = [object EXCEPT ![o].log = "gone", ![o].closed = TRUE]
             /\ tree' = [tree EXCEPT ![t] = Release(@)]
             /\ UNCHANGED <<ref, frames, leaked, stuck, coroutine, blocked, over>>

CollectCoroutine ==
  /\ Running /\ coroutine = "alive"
  /\ \E t \in Trees : tree[t].L = "co"
  /\ coroutine' = "collected"
  /\ UNCHANGED <<object, tree, ref, frames, leaked, stuck, blocked, over>>

-----------------------------------------------------------------------------
(* References of C embedders (pslog_lua.h).                                *)

\* Mutant: the object is not put in the registry.
RefLoggerUnanchored(r, o, fields) ==
  /\ Running /\ ref[r] = NoRef /\ Open(o)
  /\ ref' = [ref EXCEPT ![r] = [obj |-> o, registry |-> FALSE, derived |-> fields]]
  /\ tree' = IF fields THEN [tree EXCEPT ![object[o].tree].count = @ + 1] ELSE tree
  /\ UNCHANGED <<object, frames, leaked, stuck, coroutine, blocked, over>>

\* pslog_lua_ref_logger: a closed logger is refused; with fields the reference
\* owns a logger of its own. If that cannot be made all is undone.
RefLogger(r, o, fields) ==
  /\ Running /\ ref[r] = NoRef /\ Open(o)
  /\ ref' = [ref EXCEPT ![r] = [obj |-> o, registry |-> TRUE, derived |-> fields]]
  /\ tree' = IF fields THEN [tree EXCEPT ![object[o].tree].count = @ + 1] ELSE tree
  /\ UNCHANGED <<object, frames, leaked, stuck, coroutine, blocked, over>>

\* pslog_lua_unref_logger, which the embedder calls when no line is being
\* written with the reference.
UnrefLogger(r) ==
  /\ Running /\ ref[r] # NoRef
  /\ \A i \in DOMAIN frames : frames[i].obj # ref[r].obj
  /\ LET t == object[ref[r].obj].tree
     IN tree' = IF ref[r].derived THEN [tree EXCEPT ![t] = Release(@)] ELSE tree
  /\ ref' = [ref EXCEPT ![r] = NoRef]
  /\ UNCHANGED <<object, frames, leaked, stuck, coroutine, blocked, over>>

\* lua_close, once the embedder has given up its references: every object is
\* finalized.
CloseState ==
  /\ Running /\ frames = <<>>
  /\ \A r \in Refs : ref[r] = NoRef
  /\ over' = TRUE
  /\ object' = [o \in Objects |-> [object[o] EXCEPT !.held = FALSE]]
  /\ UNCHANGED <<tree, ref, frames, leaked, stuck, coroutine, blocked>>

Next ==
  \/ \E o \in Objects, t \in Trees, L \in {"main", "co"}, memory \in BOOLEAN :
       NewLogger(o, t, L, memory)
  \/ \E o, child \in Objects, memory \in BOOLEAN : With(o, child, memory)
  \/ \E o \in Objects, memory \in BOOLEAN : Log(o, memory)
  \/ \E r \in Refs, memory \in BOOLEAN : RefLog(r, memory)
  \/ CallbackReturns
  \/ \E o \in Objects : Close(o) \/ Drop(o) \/ Collect(o)
  \/ CollectCoroutine
  \/ \E r \in Refs, o \in Objects, fields \in BOOLEAN : RefLogger(r, o, fields)
  \/ \E r \in Refs : UnrefLogger(r)
  \/ CloseState

Spec == Init /\ [][Next]_vars

-----------------------------------------------------------------------------
(* Properties.                                                             *)

(***************************************************************************)
(* What a reference borrows stays allocated as long as the reference, even *)
(* when Lua closes and forgets the object (pslog_lua.h: "keeps the Lua     *)
(* userdata and borrowed logger allocation alive even if Lua code later    *)
(* calls log:close()").                                                    *)
(***************************************************************************)
BorrowedAllocated ==
  \A r \in Refs : ref[r] # NoRef =>
    /\ object[ref[r].obj].log = "live"
    /\ tree[object[ref[r].obj].tree].state = "live"

(***************************************************************************)
(* A callback that is running, and every one that may still be called, is  *)
(* in the registry, and its output has not been freed: no close and no     *)
(* finalizer that runs inside a callback takes it away.                    *)
(***************************************************************************)
CallbackLife ==
  /\ \A i \in DOMAIN frames :
       tree[frames[i].tree].fn /\ tree[frames[i].tree].state = "live"
  /\ \A t \in Trees :
       tree[t].state = "live" /\ ~tree[t].closed => tree[t].fn

(***************************************************************************)
(* A finalizer never waits for the output mutex, although it may run in a  *)
(* callback under that mutex; only a callback that itself logs to its own  *)
(* tree or closes it does. The exception is a tree whose mutex an error of *)
(* Lua's allocator has left locked.                                        *)
(***************************************************************************)
FinalizerNeverBlocks ==
  blocked.op = "collect" => blocked.tree \in stuck

(***************************************************************************)
(* When Lua is gone every tree is freed and no callback is left in the     *)
(* registry, unless Lua had no memory for the object of a new logger, or a *)
(* mutex was left locked.                                                  *)
(***************************************************************************)
NothingLeft ==
  over /\ blocked = NotBlocked /\ (\A o \in Objects : object[o].log # "live") =>
    \A t \in Trees :
      leaked[t] = 0 => tree[t].state \in {"none", "freed"} /\ ~tree[t].fn

(***************************************************************************)
(* Logger objects: what C code has borrowed is allocated, a callback that  *)
(* runs or may still be called is registered, and after lua_close nothing  *)
(* is left but what an error of Lua's allocator cut off.                   *)
(***************************************************************************)
ObjectsLive == BorrowedAllocated /\ CallbackLife /\ NothingLeft

-----------------------------------------------------------------------------
(* The inductive invariant behind them.                                    *)

TreeState == [state : {"none", "live", "freed"}, count : Nat, closed : BOOLEAN,
              fn : BOOLEAN, L : {"main", "co"}]

ObjectState == [log : {"none", "live", "gone"}, closed : BOOLEAN,
                tree : Trees \cup {NoTree}, root : BOOLEAN, held : BOOLEAN]

Frame == [tree : Trees, obj : Objects]

TypeOK ==
  /\ object \in [Objects -> ObjectState]
  /\ tree \in [Trees -> TreeState]
  /\ ref \in [Refs -> [obj : Objects \cup {NoObject}, registry : BOOLEAN,
                       derived : BOOLEAN]]
  /\ frames \in Seq(Frame)
  /\ leaked \in [Trees -> Nat]
  /\ stuck \subseteq Trees
  /\ coroutine \in {"alive", "collected"}
  /\ blocked \in [tree : Trees \cup {NoTree}, op : {"none", "log", "close", "collect"}]
  /\ over \in BOOLEAN

\* The native loggers of t that an object and that a reference owns.
LiveOf(t) == {o \in Objects : object[o].log = "live" /\ object[o].tree = t}
DerivedOf(t) ==
  {r \in Refs : ref[r] # NoRef /\ ref[r].derived /\ object[ref[r].obj].tree = t}

\* The native loggers of t.
Loggers(t) == Cardinality(LiveOf(t)) + Cardinality(DerivedOf(t)) + leaked[t]

\* The count of a tree is the number of its native loggers, whoever has them, and
\* the tree is there as long as one is.
CountInv ==
  \A t \in Trees :
    /\ tree[t].count = Loggers(t)
    /\ tree[t].state = "live" <=> tree[t].count > 0
    /\ tree[t].state # "live" => ~tree[t].fn
    /\ tree[t].state = "live" /\ ~tree[t].closed => tree[t].fn

\* A live object has a tree; what a reference anchors and what a running method
\* was called on is live, and no callback runs for a closed tree.
HolderInv ==
  /\ \A o \in Objects : object[o].log = "live" => object[o].tree \in Trees
  /\ \A r \in Refs : ref[r] # NoRef =>
       ref[r].registry /\ ref[r].obj \in Objects /\ object[ref[r].obj].log = "live"
  /\ \A i \in DOMAIN frames :
       /\ object[frames[i].obj].log = "live"
       /\ object[frames[i].obj].tree = frames[i].tree
       /\ ~tree[frames[i].tree].closed

LuaObjectInv == TypeOK /\ CountInv /\ HolderInv /\ FinalizerNeverBlocks
=============================================================================
