---------------------------- MODULE PslogLuaProofs ----------------------------
(***************************************************************************)
(* Proofs about the Lua binding.  PslogLuaObject: for any number of        *)
(* objects, trees and references, any nesting of callbacks and any number  *)
(* of loggers lost to a failing allocation.  PslogLuaCall: for any calls   *)
(* and entries, any nesting of metamethods and any first capacity, as long *)
(* as no metamethod logs through an object in use.  PslogLuaConfig: for    *)
(* any option tables, outputs and number of constructor calls.             *)
(***************************************************************************)
EXTENDS PslogLuaObject, PslogLuaCall, PslogLuaConfig, FiniteSetTheorems, SequenceTheorems,
        TLAPS

-----------------------------------------------------------------------------
(* Counting native loggers.                                                *)

(***************************************************************************)
(* The loggers of a tree can be counted, and one that has an owner counts. *)
(***************************************************************************)
LEMMA Countable ==
  ASSUME TypeOK, NEW t \in Trees
  PROVE  /\ IsFiniteSet(LiveOf(t)) /\ IsFiniteSet(DerivedOf(t))
         /\ Cardinality(LiveOf(t)) \in Nat /\ Cardinality(DerivedOf(t)) \in Nat
         /\ leaked[t] \in Nat /\ Loggers(t) \in Nat
  <1>1. LiveOf(t) \in SUBSET Objects /\ DerivedOf(t) \in SUBSET Refs
    BY DEF LiveOf, DerivedOf
  <1>2. IsFiniteSet(LiveOf(t)) /\ IsFiniteSet(DerivedOf(t))
    BY <1>1, FS_Subset, LuaObjectAssumption
  <1>3. Cardinality(LiveOf(t)) \in Nat /\ Cardinality(DerivedOf(t)) \in Nat
    BY <1>2, FS_CardinalityType
  <1>4. leaked[t] \in Nat
    BY DEF TypeOK
  <1> QED BY <1>2, <1>3, <1>4 DEF Loggers

\* Arithmetic of three counts.
LEMMA Sums ==
  ASSUME NEW a \in Nat, NEW b \in Nat, NEW c \in Nat, a >= 1
  PROVE  a + b + c >= 1 /\ (a # 1 \/ b # 0 => a + b + c >= 2)
  OBVIOUS

(***************************************************************************)
(* A live object counts in its tree, and two of them count twice; so does  *)
(* an object with a logger derived for a reference.                        *)
(***************************************************************************)
LEMMA Counted ==
  ASSUME TypeOK, NEW t \in Trees, NEW o \in LiveOf(t)
  PROVE  /\ Loggers(t) >= 1
         /\ \A p \in LiveOf(t) : p # o => Loggers(t) >= 2
         /\ DerivedOf(t) # {} => Loggers(t) >= 2
  <1>1. Cardinality(LiveOf(t) \ {o}) = Cardinality(LiveOf(t)) - 1 /\ IsFiniteSet(LiveOf(t) \ {o})
    BY Countable, FS_RemoveElement
  <1>2. Cardinality(LiveOf(t) \ {o}) \in Nat
    BY <1>1, FS_CardinalityType
  <1>3. ASSUME NEW p \in LiveOf(t), p # o
        PROVE  Cardinality(LiveOf(t) \ {o}) # 0
    <2>1. p \in LiveOf(t) \ {o}
      BY <1>3
    <2> QED BY <1>1, <2>1, FS_EmptySet
  <1>4. DerivedOf(t) # {} => Cardinality(DerivedOf(t)) # 0
    BY Countable, FS_EmptySet
  <1>5. Cardinality(LiveOf(t)) \in Nat /\ Cardinality(DerivedOf(t)) \in Nat /\ leaked[t] \in Nat
    BY Countable
  <1>6. Cardinality(LiveOf(t)) >= 1
    BY <1>1, <1>2, <1>5
  <1>7. ASSUME NEW p \in LiveOf(t), p # o
        PROVE  Cardinality(LiveOf(t)) # 1
    BY <1>1, <1>3, <1>5, <1>7
  <1>8. Loggers(t) >= 1
    BY <1>5, <1>6, Sums DEF Loggers
  <1>9. ASSUME NEW p \in LiveOf(t), p # o
        PROVE  Loggers(t) >= 2
    BY <1>5, <1>6, <1>7, <1>9, Sums DEF Loggers
  <1>10. ASSUME DerivedOf(t) # {}
         PROVE  Loggers(t) >= 2
    BY <1>4, <1>5, <1>6, <1>10, Sums DEF Loggers
  <1> QED BY <1>8, <1>9, <1>10

(***************************************************************************)
(* A step that leaves every object in its tree and every reference where   *)
(* it is changes no set of owners.                                         *)
(***************************************************************************)
LEMMA SameOwners ==
  ASSUME TypeOK, HolderInv, ref' = ref, NEW t \in Trees,
         \A o \in Objects : object[o].log = "live" =>
           object'[o].log = "live" /\ object'[o].tree = object[o].tree,
         \A o \in Objects : object[o].log # "live" => object'[o].log # "live"
  PROVE  LiveOf(t)' = LiveOf(t) /\ DerivedOf(t)' = DerivedOf(t)
  <1>1. LiveOf(t)' = LiveOf(t)
    BY DEF LiveOf
  <1>2. ASSUME NEW r \in Refs, ref[r] # NoRef
        PROVE  object'[ref[r].obj].tree = object[ref[r].obj].tree
    BY <1>2 DEF HolderInv
  <1>3. DerivedOf(t)' = DerivedOf(t)
    BY <1>2 DEF DerivedOf
  <1> QED BY <1>1, <1>3

(***************************************************************************)
(* pslua_push_logger: a new native logger has an object or is lost, and    *)
(* counts either way.                                                      *)
(***************************************************************************)
LEMMA PushCounts ==
  ASSUME TypeOK, HolderInv, ref' = ref,
         NEW o \in Objects, NEW t \in Trees, NEW isRoot \in BOOLEAN, NEW memory \in BOOLEAN,
         object[o].log = "none", Push(o, t, isRoot, memory), NEW u \in Trees
  PROVE  Loggers(u)' = IF u = t THEN Loggers(u) + 1 ELSE Loggers(u)
  <1>1. CASE memory
    <2>1. /\ object' = [object EXCEPT ![o] =
               [log |-> "live", closed |-> FALSE, tree |-> t, root |-> isRoot, held |-> TRUE]]
          /\ leaked' = leaked
      BY <1>1 DEF Push
    <2>2. DOMAIN object = Objects
      BY DEF TypeOK
    <2>3. LiveOf(u)' = IF u = t THEN LiveOf(u) \cup {o} ELSE LiveOf(u)
      <3>1. object'[o].log = "live" /\ object'[o].tree = t
        BY <2>1, <2>2
      <3>2. \A p \in Objects : p # o => object'[p] = object[p]
        BY <2>1, <2>2
      <3> QED BY <3>1, <3>2 DEF LiveOf
    <2>4. DerivedOf(u)' = DerivedOf(u)
      <3>1. ASSUME NEW r \in Refs, ref[r] # NoRef
            PROVE  object'[ref[r].obj].tree = object[ref[r].obj].tree
        BY <3>1, <2>1, <2>2 DEF HolderInv
      <3> QED BY <3>1 DEF DerivedOf
    <2>5. o \notin LiveOf(u)
      BY DEF LiveOf
    <2>6. Cardinality(LiveOf(u) \cup {o}) = Cardinality(LiveOf(u)) + 1
      BY <2>5, Countable, FS_AddElement
    <2> QED BY <2>1, <2>3, <2>4, <2>6, Countable DEF Loggers
  <1>2. CASE ~memory
    <2>1. leaked' = [leaked EXCEPT ![t] = @ + 1] /\ object' = object
      BY <1>2 DEF Push
    <2>2. LiveOf(u)' = LiveOf(u) /\ DerivedOf(u)' = DerivedOf(u)
      BY <2>1, SameOwners
    <2>3. leaked'[u] = IF u = t THEN leaked[u] + 1 ELSE leaked[u]
      BY <2>1 DEF TypeOK
    <2> QED BY <2>2, <2>3, Countable DEF Loggers
  <1> QED BY <1>1, <1>2

(***************************************************************************)
(* pslua_logger_gc: the tree of the object has one logger less.            *)
(***************************************************************************)
LEMMA CollectCounts ==
  ASSUME TypeOK, HolderInv, ref' = ref, leaked' = leaked,
         NEW o \in Objects, Collectable(o),
         object' = [object EXCEPT ![o].log = "gone", ![o].closed = TRUE], NEW u \in Trees
  PROVE  Loggers(u)' = IF u = object[o].tree THEN Loggers(u) - 1 ELSE Loggers(u)
  <1>1. /\ object'[o].log = "gone" /\ object'[o].tree = object[o].tree
        /\ \A p \in Objects : p # o => object'[p] = object[p]
    BY DEF TypeOK
  <1>2. LiveOf(u)' = IF u = object[o].tree THEN LiveOf(u) \ {o} ELSE LiveOf(u)
    BY <1>1 DEF LiveOf
  <1>3. DerivedOf(u)' = DerivedOf(u)
    <2>1. ASSUME NEW r \in Refs, ref[r] # NoRef
          PROVE  object'[ref[r].obj].tree = object[ref[r].obj].tree
      BY <1>1, <2>1 DEF HolderInv
    <2> QED BY <2>1 DEF DerivedOf
  <1>4. u = object[o].tree => o \in LiveOf(u)
    BY DEF LiveOf, Collectable
  <1>5. u = object[o].tree => Cardinality(LiveOf(u) \ {o}) = Cardinality(LiveOf(u)) - 1
    BY <1>4, Countable, FS_RemoveElement
  <1> QED BY <1>2, <1>3, <1>5, Countable DEF Loggers

(***************************************************************************)
(* pslog_lua_ref_logger: a reference with fields has a logger of its own.  *)
(***************************************************************************)
LEMMA RefCounts ==
  ASSUME TypeOK, HolderInv, object' = object, leaked' = leaked,
         NEW r \in Refs, NEW o \in Objects, NEW fields \in BOOLEAN, ref[r] = NoRef,
         ref' = [ref EXCEPT ![r] = [obj |-> o, registry |-> TRUE, derived |-> fields]],
         NEW u \in Trees
  PROVE  Loggers(u)' = IF fields /\ u = object[o].tree THEN Loggers(u) + 1 ELSE Loggers(u)
  <1>1. /\ ref'[r].derived = fields /\ ref'[r].obj = o
        /\ \A s \in Refs : s # r => ref'[s] = ref[s]
    BY DEF TypeOK
  <1>2. ref'[r] # NoRef
    BY <1>1, LuaObjectAssumption DEF NoRef
  <1>3. LiveOf(u)' = LiveOf(u)
    BY DEF LiveOf
  <1>4. r \notin DerivedOf(u)
    BY DEF DerivedOf
  <1>5. CASE fields /\ u = object[o].tree
    <2>1. DerivedOf(u)' = DerivedOf(u) \cup {r}
      BY <1>1, <1>2, <1>5 DEF DerivedOf
    <2>2. Cardinality(DerivedOf(u) \cup {r}) = Cardinality(DerivedOf(u)) + 1
      BY <1>4, Countable, FS_AddElement
    <2> QED BY <1>3, <1>5, <2>1, <2>2, Countable DEF Loggers
  <1>6. CASE ~(fields /\ u = object[o].tree)
    <2>1. DerivedOf(u)' = DerivedOf(u)
      BY <1>1, <1>2, <1>6 DEF DerivedOf
    <2> QED BY <1>3, <1>6, <2>1 DEF Loggers
  <1> QED BY <1>5, <1>6

(***************************************************************************)
(* pslog_lua_unref_logger gives up the logger of the reference.            *)
(***************************************************************************)
LEMMA UnrefCounts ==
  ASSUME TypeOK, HolderInv, object' = object, leaked' = leaked,
         NEW r \in Refs, ref[r] # NoRef, ref' = [ref EXCEPT ![r] = NoRef], NEW u \in Trees
  PROVE  Loggers(u)' = IF ref[r].derived /\ u = object[ref[r].obj].tree
                       THEN Loggers(u) - 1 ELSE Loggers(u)
  <1>1. ref'[r] = NoRef /\ \A s \in Refs : s # r => ref'[s] = ref[s]
    BY DEF TypeOK
  <1>2. LiveOf(u)' = LiveOf(u)
    BY DEF LiveOf
  <1>3. CASE ref[r].derived /\ u = object[ref[r].obj].tree
    <2>1. DerivedOf(u)' = DerivedOf(u) \ {r} /\ r \in DerivedOf(u)
      BY <1>1, <1>3 DEF DerivedOf
    <2>2. Cardinality(DerivedOf(u) \ {r}) = Cardinality(DerivedOf(u)) - 1
      BY <2>1, Countable, FS_RemoveElement
    <2> QED BY <1>2, <1>3, <2>1, <2>2, Countable DEF Loggers
  <1>4. CASE ~(ref[r].derived /\ u = object[ref[r].obj].tree)
    <2>1. DerivedOf(u)' = DerivedOf(u)
      BY <1>1, <1>4 DEF DerivedOf
    <2> QED BY <1>2, <1>4, <2>1 DEF Loggers
  <1> QED BY <1>3, <1>4

-----------------------------------------------------------------------------
(* The count of a tree follows its loggers.                                *)

\* What closing an output changes of its tree.
LEMMA ShutTree ==
  ASSUME NEW s \in TreeState
  PROVE  /\ Shut(s) \in TreeState
         /\ Shut(s).count = s.count /\ Shut(s).state = s.state
         /\ Shut(s).closed = TRUE /\ ~Shut(s).fn
  BY DEF TreeState, Shut

\* What freeing a tree changes of it.
LEMMA FreedTree ==
  ASSUME NEW s \in TreeState
  PROVE  /\ [s EXCEPT !.count = 0, !.state = "freed"] \in TreeState
         /\ [s EXCEPT !.count = 0, !.state = "freed"].count = 0
         /\ [s EXCEPT !.count = 0, !.state = "freed"].state = "freed"
         /\ ~s.fn => ~[s EXCEPT !.count = 0, !.state = "freed"].fn
  BY DEF TreeState

\* What pslog_release_shared changes of a tree.
LEMMA ReleaseTree ==
  ASSUME NEW s \in TreeState, s.count > 0
  PROVE  /\ Release(s) \in TreeState
         /\ Release(s).count = s.count - 1
         /\ s.count > 1 => Release(s).state = s.state /\ Release(s).fn = s.fn
                           /\ Release(s).closed = s.closed
         /\ ~(s.count > 1) => Release(s).state = "freed" /\ ~Release(s).fn
  <1>1. CASE s.count > 1
    BY <1>1 DEF Release, TreeState
  <1>2. CASE ~(s.count > 1)
    <2>1. Release(s) = [Shut(s) EXCEPT !.count = 0, !.state = "freed"]
      BY <1>2 DEF Release
    <2>0. Shut(s) \in TreeState /\ ~Shut(s).fn
      BY ShutTree
    <2>2. /\ [Shut(s) EXCEPT !.count = 0, !.state = "freed"] \in TreeState
          /\ [Shut(s) EXCEPT !.count = 0, !.state = "freed"].count = 0
          /\ [Shut(s) EXCEPT !.count = 0, !.state = "freed"].state = "freed"
          /\ ~[Shut(s) EXCEPT !.count = 0, !.state = "freed"].fn
      BY <2>0, FreedTree, Zenon
    <2>3. s.count = 1
      BY <1>2 DEF TreeState
    <2>4. /\ Release(s) \in TreeState /\ Release(s).count = 0
          /\ Release(s).state = "freed" /\ ~Release(s).fn
      BY <2>1, <2>2, Zenon
    <2> QED BY <1>2, <2>3, <2>4
  <1> QED BY <1>1, <1>2

(***************************************************************************)
(* One logger more in a tree that is there (pslog_retain_shared).          *)
(***************************************************************************)
LEMMA CountUp ==
  ASSUME TypeOK, CountInv, NEW t \in Trees, tree[t].state = "live",
         tree' = [tree EXCEPT ![t].count = @ + 1],
         \A u \in Trees : Loggers(u)' = IF u = t THEN Loggers(u) + 1 ELSE Loggers(u)
  PROVE  CountInv'
  <1>1. \A u \in Trees : u # t => tree'[u] = tree[u]
    BY DEF TypeOK
  <1>2. /\ tree'[t].count = tree[t].count + 1 /\ tree'[t].state = tree[t].state
        /\ tree'[t].closed = tree[t].closed /\ tree'[t].fn = tree[t].fn
        /\ tree[t].count \in Nat
    BY DEF TypeOK, TreeState
  <1>3. SUFFICES ASSUME NEW u \in Trees
                 PROVE  /\ tree'[u].count = Loggers(u)'
                        /\ tree'[u].state = "live" <=> tree'[u].count > 0
                        /\ tree'[u].state # "live" => ~tree'[u].fn
                        /\ tree'[u].state = "live" /\ ~tree'[u].closed => tree'[u].fn
    BY DEF CountInv
  <1>4. CASE u = t
    BY <1>2, <1>4 DEF CountInv
  <1>5. CASE u # t
    BY <1>1, <1>5 DEF CountInv
  <1> QED BY <1>4, <1>5

(***************************************************************************)
(* One logger less (pslog_release_shared): the last one frees the tree.    *)
(***************************************************************************)
LEMMA CountDown ==
  ASSUME TypeOK, CountInv, NEW t \in Trees, Loggers(t) >= 1,
         tree' = [tree EXCEPT ![t] = Release(@)],
         \A u \in Trees : Loggers(u)' = IF u = t THEN Loggers(u) - 1 ELSE Loggers(u)
  PROVE  CountInv'
  <1>1. \A u \in Trees : u # t => tree'[u] = tree[u]
    BY DEF TypeOK
  <1>2. tree[t].count = Loggers(t) /\ tree[t].count \in Nat /\ tree[t].state = "live"
    BY DEF CountInv, TypeOK, TreeState
  <1>3. tree'[t] = Release(tree[t])
    BY DEF TypeOK
  <1>4. tree[t] \in TreeState /\ tree[t].count > 0
    BY <1>2 DEF TypeOK
  <1>5. tree'[t].count = tree[t].count - 1
    BY <1>3, <1>4, ReleaseTree
  <1>6. CASE tree[t].count > 1
    <2>1. tree'[t].state = "live" /\ tree'[t].fn = tree[t].fn /\ tree'[t].closed = tree[t].closed
      BY <1>2, <1>3, <1>4, <1>6, ReleaseTree
    <2>2. tree'[t].count > 0
      BY <1>2, <1>5, <1>6
    <2> QED BY <1>1, <1>2, <1>5, <2>1, <2>2 DEF CountInv
  <1>7. CASE ~(tree[t].count > 1)
    <2>1. tree'[t].state = "freed" /\ ~tree'[t].fn
      BY <1>3, <1>4, <1>7, ReleaseTree
    <2>2. ~(tree'[t].count > 0)
      BY <1>2, <1>5, <1>7
    <2> QED BY <1>1, <1>2, <1>5, <2>1, <2>2 DEF CountInv
  <1> QED BY <1>6, <1>7

(***************************************************************************)
(* No step that leaves the trees and their loggers alone, and no close of  *)
(* an output, disturbs the count.                                          *)
(***************************************************************************)
LEMMA CountSame ==
  ASSUME TypeOK, CountInv, \A u \in Trees : Loggers(u)' = Loggers(u),
         tree' = tree \/ \E t \in Trees : tree' = [tree EXCEPT ![t] = Shut(@)]
  PROVE  CountInv'
  <1>1. CASE tree' = tree
    BY <1>1 DEF CountInv
  <1>2. ASSUME NEW t \in Trees, tree' = [tree EXCEPT ![t] = Shut(@)]
        PROVE  CountInv'
    <2>1. \A u \in Trees : u # t => tree'[u] = tree[u]
      BY <1>2 DEF TypeOK
    <2>2. /\ tree'[t].count = tree[t].count /\ tree'[t].state = tree[t].state
          /\ tree'[t].closed = TRUE /\ ~tree'[t].fn
      <3>1. tree'[t] = Shut(tree[t]) /\ tree[t] \in TreeState
        BY <1>2 DEF TypeOK
      <3> QED BY <3>1, ShutTree
    <2> QED BY <2>1, <2>2 DEF CountInv
  <1> QED BY <1>1, <1>2

-----------------------------------------------------------------------------
(* One lemma per operation.                                                *)

(***************************************************************************)
(* A step that does not wait leaves no finalizer waiting.                  *)
(***************************************************************************)
LEMMA Unblocked ==
  ASSUME blocked = NotBlocked, blocked' = blocked
  PROVE  FinalizerNeverBlocks'
  BY DEF FinalizerNeverBlocks, NotBlocked

\* Every frame has a tree and an object.
LEMMA FrameType ==
  ASSUME TypeOK, NEW i \in DOMAIN frames
  PROVE  frames[i].obj \in Objects /\ frames[i].tree \in Trees
  <1>1. frames \in Seq(Frame)
    BY DEF TypeOK
  <1>2. i \in 1..Len(frames)
    BY <1>1
  <1>3. frames[i] \in Frame
    BY <1>1, <1>2, ElementOfSeq
  <1> QED BY <1>3 DEF Frame

\* One logger more leaves a tree what it was.
LEMMA RetainType ==
  ASSUME TypeOK, NEW t \in Trees, tree' = [tree EXCEPT ![t].count = @ + 1]
  PROVE  tree' \in [Trees -> TreeState] /\ \A u \in Trees : tree'[u].closed = tree[u].closed
  <1>1. tree \in [Trees -> TreeState] /\ tree[t] \in TreeState
    BY DEF TypeOK
  <1>2. [tree[t] EXCEPT !.count = @ + 1] \in TreeState
    BY <1>1 DEF TreeState
  <1>3. tree' = [tree EXCEPT ![t] = [tree[t] EXCEPT !.count = @ + 1]]
    BY <1>1
  <1>4. tree' \in [Trees -> TreeState]
    BY <1>1, <1>2, <1>3
  <1>5. \A u \in Trees : tree'[u].closed = tree[u].closed
    BY <1>1, <1>3 DEF TreeState
  <1> QED BY <1>4, <1>5

(***************************************************************************)
(* An operation that waits for a mutex changes nothing else.               *)
(***************************************************************************)
LEMMA BlockStep ==
  ASSUME LuaObjectInv, NEW t \in Trees, NEW op \in {"log", "close", "collect"}, Block(t, op),
         op = "collect" => t \in stuck
  PROVE  LuaObjectInv'
  <1> USE DEF LuaObjectInv
  <1>1. /\ blocked' = [tree |-> t, op |-> op]
        /\ UNCHANGED <<object, tree, ref, frames, leaked, stuck, coroutine, over>>
    BY DEF Block
  <1>2. TypeOK'
    BY <1>1 DEF TypeOK
  <1>3. \A u \in Trees : Loggers(u)' = Loggers(u)
    BY <1>1 DEF Loggers, LiveOf, DerivedOf
  <1>4. CountInv' /\ HolderInv'
    BY <1>1, <1>3 DEF CountInv, HolderInv
  <1>5. FinalizerNeverBlocks'
    BY <1>1 DEF FinalizerNeverBlocks
  <1> QED BY <1>2, <1>4, <1>5

(***************************************************************************)
(* The object of a new logger takes no other object's place.               *)
(***************************************************************************)
LEMMA PushHolds ==
  ASSUME TypeOK, HolderInv, NEW o \in Objects, NEW t \in Trees, NEW isRoot \in BOOLEAN,
         NEW memory \in BOOLEAN, object[o].log = "none", Push(o, t, isRoot, memory)
  PROVE  /\ object' \in [Objects -> ObjectState]
         /\ leaked' \in [Trees -> Nat]
         /\ \A p \in Objects : object[p].log = "live" => object'[p] = object[p]
         /\ \A p \in Objects : object'[p].log = "live" => object'[p].tree \in Trees
  <1>1. CASE memory
    <2>1. /\ object' = [object EXCEPT ![o] =
               [log |-> "live", closed |-> FALSE, tree |-> t, root |-> isRoot, held |-> TRUE]]
          /\ leaked' = leaked
      BY <1>1 DEF Push
    <2>2. object'[o].tree = t /\ \A p \in Objects : p # o => object'[p] = object[p]
      BY <2>1 DEF TypeOK
    <2>3. object' \in [Objects -> ObjectState]
      BY <2>1 DEF TypeOK, ObjectState
    <2> QED BY <2>1, <2>2, <2>3 DEF TypeOK, HolderInv
  <1>2. CASE ~memory
    <2>1. leaked' = [leaked EXCEPT ![t] = @ + 1] /\ object' = object
      BY <1>2 DEF Push
    <2>2. leaked' \in [Trees -> Nat]
      BY <2>1 DEF TypeOK
    <2> QED BY <2>1, <2>2 DEF TypeOK, HolderInv
  <1> QED BY <1>1, <1>2

(***************************************************************************)
(* pslua_new_logger.                                                       *)
(***************************************************************************)
LEMMA NewLoggerStep ==
  ASSUME LuaObjectInv, NEW o \in Objects, NEW t \in Trees, NEW L \in {"main", "co"},
         NEW memory \in BOOLEAN, NewLogger(o, t, L, memory)
  PROVE  LuaObjectInv'
  <1> USE DEF LuaObjectInv
  <1>1. /\ blocked = NotBlocked /\ object[o].log = "none" /\ tree[t].state = "none"
        /\ tree' = [tree EXCEPT ![t] =
             [state |-> "live", count |-> 1, closed |-> FALSE, fn |-> TRUE, L |-> L]]
        /\ Push(o, t, TRUE, memory)
        /\ UNCHANGED <<ref, frames, stuck, coroutine, blocked, over>>
    BY DEF NewLogger, Running
  <1>2. /\ tree'[t] = [state |-> "live", count |-> 1, closed |-> FALSE, fn |-> TRUE, L |-> L]
        /\ \A u \in Trees : u # t => tree'[u] = tree[u]
    BY <1>1 DEF TypeOK
  <1>3. TypeOK'
    <2>1. tree' \in [Trees -> TreeState]
      BY <1>1 DEF TypeOK, TreeState
    <2>2. /\ object' \in [Objects -> ObjectState]
          /\ leaked' \in [Trees -> Nat]
      BY <1>1, PushHolds
    <2> QED BY <1>1, <2>1, <2>2 DEF TypeOK
  <1>4. Loggers(t) = 0
    <2>1. tree[t].count = Loggers(t) /\ ~(tree[t].count > 0) /\ tree[t].count \in Nat
      BY <1>1 DEF CountInv, TypeOK, TreeState
    <2> QED BY <2>1
  <1>5. \A u \in Trees : Loggers(u)' = IF u = t THEN Loggers(u) + 1 ELSE Loggers(u)
    BY <1>1, PushCounts
  <1>6. CountInv'
    <2>1. SUFFICES ASSUME NEW u \in Trees
                   PROVE  /\ tree'[u].count = Loggers(u)'
                          /\ tree'[u].state = "live" <=> tree'[u].count > 0
                          /\ tree'[u].state # "live" => ~tree'[u].fn
                          /\ tree'[u].state = "live" /\ ~tree'[u].closed => tree'[u].fn
      BY DEF CountInv
    <2>2. CASE u = t
      BY <1>2, <1>4, <1>5, <2>2
    <2>3. CASE u # t
      BY <1>2, <1>5, <2>3 DEF CountInv
    <2> QED BY <2>2, <2>3
  <1>7. HolderInv'
    <2>1. \A p \in Objects : object[p].log = "live" => object'[p] = object[p]
      BY <1>1, PushHolds
    <2>2. ASSUME NEW i \in DOMAIN frames
          PROVE  /\ object'[frames[i].obj].log = "live"
                 /\ object'[frames[i].obj].tree = frames[i].tree
                 /\ ~tree'[frames[i].tree].closed
      <3>1. frames[i].obj \in Objects /\ frames[i].tree \in Trees
        BY FrameType
      <3>2. object'[frames[i].obj] = object[frames[i].obj]
        BY <2>1, <3>1 DEF HolderInv
      <3> QED BY <1>2, <3>1, <3>2 DEF HolderInv
    <2>3. \A p \in Objects : object'[p].log = "live" => object'[p].tree \in Trees
      BY <1>1, PushHolds
    <2> QED BY <1>1, <2>1, <2>2, <2>3 DEF HolderInv
  <1> QED BY <1>1, <1>3, <1>6, <1>7, Unblocked

(***************************************************************************)
(* with, with_level, with_level_field.                                     *)
(***************************************************************************)
LEMMA WithStep ==
  ASSUME LuaObjectInv, NEW o \in Objects, NEW child \in Objects, NEW memory \in BOOLEAN,
         With(o, child, memory)
  PROVE  LuaObjectInv'
  <1> USE DEF LuaObjectInv
  <1> DEFINE t == object[o].tree
  <1>1. /\ blocked = NotBlocked /\ object[o].log = "live" /\ object[child].log = "none"
        /\ tree' = [tree EXCEPT ![t].count = @ + 1]
        /\ Push(child, t, FALSE, memory)
        /\ UNCHANGED <<ref, frames, stuck, coroutine, blocked, over>>
    BY DEF With, Running, Open
  <1>2. t \in Trees /\ o \in LiveOf(t)
    BY <1>1 DEF HolderInv, LiveOf
  <1> HIDE DEF t
  <1>3. tree[t].state = "live"
    <2>1. Loggers(t) >= 1
      BY <1>2, Counted
    <2> QED BY <1>2, <2>1, Countable DEF CountInv
  <1>4. TypeOK'
    <2>1. tree' \in [Trees -> TreeState]
      BY <1>1, <1>2, RetainType
    <2>2. /\ object' \in [Objects -> ObjectState]
          /\ leaked' \in [Trees -> Nat]
      BY <1>1, <1>2, PushHolds
    <2> QED BY <1>1, <2>1, <2>2 DEF TypeOK
  <1>5. \A u \in Trees : Loggers(u)' = IF u = t THEN Loggers(u) + 1 ELSE Loggers(u)
    BY <1>1, <1>2, PushCounts
  <1>6. CountInv'
    BY <1>1, <1>2, <1>3, <1>5, CountUp
  <1>7. HolderInv'
    <2>1. \A p \in Objects : object[p].log = "live" => object'[p] = object[p]
      BY <1>1, <1>2, PushHolds
    <2>2. ASSUME NEW i \in DOMAIN frames
          PROVE  /\ object'[frames[i].obj].log = "live"
                 /\ object'[frames[i].obj].tree = frames[i].tree
                 /\ ~tree'[frames[i].tree].closed
      <3>1. frames[i].obj \in Objects /\ frames[i].tree \in Trees
        BY FrameType
      <3>2. object'[frames[i].obj] = object[frames[i].obj]
        BY <2>1, <3>1 DEF HolderInv
      <3>3. tree'[frames[i].tree].closed = tree[frames[i].tree].closed
        BY <1>1, <1>2, <3>1, RetainType
      <3> QED BY <3>1, <3>2, <3>3 DEF HolderInv
    <2>3. \A p \in Objects : object'[p].log = "live" => object'[p].tree \in Trees
      BY <1>1, <1>2, PushHolds
    <2> QED BY <1>1, <2>1, <2>2, <2>3 DEF HolderInv
  <1> QED BY <1>1, <1>4, <1>6, <1>7, Unblocked

(***************************************************************************)
(* A step that changes no object's owner and no tree keeps the counts.     *)
(***************************************************************************)
LEMMA NothingCounts ==
  ASSUME LuaObjectInv, UNCHANGED <<tree, ref, leaked>>,
         \A o \in Objects : object'[o].log = object[o].log /\ object'[o].tree = object[o].tree
  PROVE  CountInv'
  <1> USE DEF LuaObjectInv
  <1>1. ASSUME NEW u \in Trees
        PROVE  Loggers(u)' = Loggers(u)
    <2>1. LiveOf(u)' = LiveOf(u) /\ DerivedOf(u)' = DerivedOf(u)
      BY SameOwners
    <2> QED BY <2>1 DEF Loggers
  <1> QED BY <1>1, CountSame

(***************************************************************************)
(* A line: by an object that is alive, for a tree that is open.            *)
(***************************************************************************)
LEMMA WriteStep ==
  ASSUME LuaObjectInv, NEW o \in Objects, NEW t \in Trees, NEW memory \in BOOLEAN,
         blocked = NotBlocked, object[o].log = "live", object[o].tree = t, ~tree[t].closed,
         Write(t, o, memory)
  PROVE  LuaObjectInv'
  <1> USE DEF LuaObjectInv
  <1>1. CASE Locked(t)
    <2>1. Block(t, "log")
      BY <1>1 DEF Write
    <2> QED BY <2>1, BlockStep
  <1>2. CASE ~Locked(t)
    <2>1. /\ \/ frames' = Append(frames, [tree |-> t, obj |-> o]) /\ stuck' = stuck
             \/ frames' = frames /\ stuck' = stuck \cup {t}
          /\ UNCHANGED <<object, tree, ref, leaked, coroutine, blocked, over>>
      BY <1>2 DEF Write
    <2>2. TypeOK'
      <3>1. frames' \in Seq(Frame)
        <4>1. frames \in Seq(Frame)
          BY DEF TypeOK
        <4>2. [tree |-> t, obj |-> o] \in Frame
          BY DEF Frame
        <4> QED BY <2>1, <4>1, <4>2, AppendProperties
      <3>2. stuck' \subseteq Trees
        BY <2>1 DEF TypeOK
      <3> QED BY <2>1, <3>1, <3>2 DEF TypeOK
    <2>3. CountInv'
      BY <2>1, NothingCounts
    <2>4. HolderInv'
      <3>1. ASSUME NEW i \in DOMAIN frames'
            PROVE  \/ i \in DOMAIN frames /\ frames'[i] = frames[i]
                   \/ frames'[i] = [tree |-> t, obj |-> o]
        <4>1. frames \in Seq(Frame)
          BY DEF TypeOK
        <4>2. CASE frames' = frames
          BY <3>1, <4>2
        <4>3. CASE frames' = Append(frames, [tree |-> t, obj |-> o])
          BY <3>1, <4>1, <4>3
        <4> QED BY <2>1, <4>2, <4>3
      <3>2. ASSUME NEW i \in DOMAIN frames'
            PROVE  /\ object[frames'[i].obj].log = "live"
                   /\ object[frames'[i].obj].tree = frames'[i].tree
                   /\ ~tree[frames'[i].tree].closed
        BY <3>1, <3>2 DEF HolderInv
      <3> QED BY <2>1, <3>2 DEF HolderInv
    <2> QED BY <2>1, <2>2, <2>3, <2>4, Unblocked
  <1> QED BY <1>1, <1>2

(***************************************************************************)
(* log, trace ... panic.                                                   *)
(***************************************************************************)
LEMMA LogStep ==
  ASSUME LuaObjectInv, NEW o \in Objects, NEW memory \in BOOLEAN, Log(o, memory)
  PROVE  LuaObjectInv'
  <1>1. /\ blocked = NotBlocked /\ object[o].log = "live"
        /\ ~tree[object[o].tree].closed /\ Write(object[o].tree, o, memory)
    BY DEF Log, Running, Open
  <1>2. object[o].tree \in Trees
    BY <1>1 DEF LuaObjectInv, HolderInv
  <1> QED BY <1>1, <1>2, WriteStep

(***************************************************************************)
(* A line of C code, with a reference.                                     *)
(***************************************************************************)
LEMMA RefLogStep ==
  ASSUME LuaObjectInv, NEW r \in Refs, NEW memory \in BOOLEAN, RefLog(r, memory)
  PROVE  LuaObjectInv'
  <1> DEFINE o == ref[r].obj
  <1>1. /\ blocked = NotBlocked /\ ref[r] # NoRef
        /\ ~tree[object[o].tree].closed /\ Write(object[o].tree, o, memory)
    BY DEF RefLog, Running
  <1>2. o \in Objects /\ object[o].log = "live" /\ object[o].tree \in Trees
    BY <1>1 DEF LuaObjectInv, HolderInv
  <1> HIDE DEF o
  <1> QED BY <1>1, <1>2, WriteStep

(***************************************************************************)
(* The end of a callback.                                                  *)
(***************************************************************************)
LEMMA CallbackReturnsStep ==
  ASSUME LuaObjectInv, CallbackReturns
  PROVE  LuaObjectInv'
  <1> USE DEF LuaObjectInv
  <1>1. /\ blocked = NotBlocked /\ frames # <<>> /\ frames' = Front(frames)
        /\ UNCHANGED <<object, tree, ref, leaked, stuck, coroutine, blocked, over>>
    BY DEF CallbackReturns, Running
  <1>2. frames \in Seq(Frame)
    BY DEF TypeOK
  <1>3. /\ frames' \in Seq(Frame)
        /\ \A i \in DOMAIN frames' : i \in DOMAIN frames /\ frames'[i] = frames[i]
    <2>1. frames' = SubSeq(frames, 1, Len(frames) - 1) /\ Len(frames) \in Nat \ {0}
      BY <1>1, <1>2 DEF Front
    <2>2. \A i \in 1..(Len(frames) - 1) : frames[i] \in Frame
      BY <1>2, <2>1, ElementOfSeq
    <2>4. /\ frames' \in Seq(Frame)
          /\ Len(frames') = IF 1 <= Len(frames) - 1 THEN (Len(frames) - 1) - 1 + 1 ELSE 0
          /\ \A i \in 1..((Len(frames) - 1) - 1 + 1) : frames'[i] = frames[1 + i - 1]
      BY <2>1, <2>2, SubSeqProperties
    <2>5. DOMAIN frames' = 1..(Len(frames) - 1)
      BY <2>1, <2>4
    <2>3. DOMAIN frames = 1..Len(frames)
      BY <1>2
    <2> QED BY <2>1, <2>3, <2>4, <2>5
  <1>4. TypeOK'
    BY <1>1, <1>3 DEF TypeOK
  <1>5. CountInv'
    BY <1>1, NothingCounts
  <1>6. HolderInv'
    BY <1>1, <1>3 DEF HolderInv
  <1> QED BY <1>1, <1>4, <1>5, <1>6, Unblocked

\* What closing and collecting an object change of it.
LEMMA ClosedObject ==
  ASSUME NEW s \in ObjectState
  PROVE  /\ [s EXCEPT !.closed = TRUE] \in ObjectState
         /\ [s EXCEPT !.log = "gone", !.closed = TRUE] \in ObjectState
  BY DEF ObjectState

(***************************************************************************)
(* pslua_logger_close: never under the mutex, so that no running callback  *)
(* loses its output.                                                       *)
(***************************************************************************)
LEMMA CloseStep ==
  ASSUME LuaObjectInv, NEW o \in Objects, Close(o)
  PROVE  LuaObjectInv'
  <1> USE DEF LuaObjectInv
  <1> DEFINE t == object[o].tree
  <1>1. /\ blocked = NotBlocked /\ object[o].log = "live"
        /\ IF Locked(t) THEN Block(t, "close")
           ELSE /\ object' = [object EXCEPT ![o].closed = TRUE]
                /\ tree' = IF object[o].root /\ ~tree[t].closed
                           THEN [tree EXCEPT ![t] = Shut(@)] ELSE tree
                /\ UNCHANGED <<ref, frames, leaked, stuck, coroutine, blocked, over>>
    BY DEF Close, Running, Open
  <1>2. t \in Trees
    BY <1>1 DEF HolderInv
  <1> HIDE DEF t
  <1>3. CASE Locked(t)
    BY <1>1, <1>2, <1>3, BlockStep
  <1>4. CASE ~Locked(t)
    <2>1. /\ object' = [object EXCEPT ![o].closed = TRUE]
          /\ tree' = tree \/ tree' = [tree EXCEPT ![t] = Shut(@)]
          /\ UNCHANGED <<ref, frames, leaked, stuck, coroutine, blocked, over>>
      BY <1>1, <1>4
    <2>2. \A p \in Objects : object'[p].log = object[p].log /\ object'[p].tree = object[p].tree
      BY <2>1 DEF TypeOK, ObjectState
    <2>3. TypeOK'
      <3>1. object' \in [Objects -> ObjectState]
        <4>1. object \in [Objects -> ObjectState]
          BY DEF TypeOK
        <4>2. [object[o] EXCEPT !.closed = TRUE] \in ObjectState
          BY <4>1, ClosedObject
        <4> QED BY <2>1, <4>1, <4>2
      <3>2. tree' \in [Trees -> TreeState]
        <4>1. tree \in [Trees -> TreeState]
          BY DEF TypeOK
        <4>2. Shut(tree[t]) \in TreeState
          BY <1>2, <4>1, ShutTree
        <4> QED BY <2>1, <4>1, <4>2
      <3> QED BY <2>1, <3>1, <3>2 DEF TypeOK
    <2>4. CountInv'
      <3>1. ASSUME NEW u \in Trees
            PROVE  Loggers(u)' = Loggers(u)
        <4>1. LiveOf(u)' = LiveOf(u) /\ DerivedOf(u)' = DerivedOf(u)
          BY <2>1, <2>2, SameOwners
        <4> QED BY <2>1, <4>1 DEF Loggers
      <3> QED BY <1>2, <2>1, <3>1, CountSame
    <2>5. HolderInv'
      <3>1. ASSUME NEW i \in DOMAIN frames
            PROVE  /\ object'[frames[i].obj].log = "live"
                   /\ object'[frames[i].obj].tree = frames[i].tree
                   /\ ~tree'[frames[i].tree].closed
        <4>1. frames[i].obj \in Objects /\ frames[i].tree \in Trees
          BY FrameType
        <4>2. frames[i].tree # t
          BY <1>4 DEF Locked
        <4>3. tree'[frames[i].tree] = tree[frames[i].tree]
          BY <2>1, <4>1, <4>2 DEF TypeOK
        <4> QED BY <2>2, <4>1, <4>3 DEF HolderInv
      <3> QED BY <2>1, <2>2, <3>1 DEF HolderInv
    <2> QED BY <1>1, <2>1, <2>3, <2>4, <2>5, Unblocked
  <1> QED BY <1>3, <1>4

(***************************************************************************)
(* A variable or all variables of Lua are gone.                            *)
(***************************************************************************)
LEMMA HeldStep ==
  ASSUME LuaObjectInv, blocked = NotBlocked, over' \in BOOLEAN,
         object' \in [Objects -> ObjectState],
         \A o \in Objects : object'[o].log = object[o].log /\ object'[o].tree = object[o].tree,
         UNCHANGED <<tree, ref, frames, leaked, stuck, blocked>>,
         coroutine' \in {"alive", "collected"}
  PROVE  LuaObjectInv'
  <1> USE DEF LuaObjectInv
  <1>1. TypeOK'
    BY DEF TypeOK
  <1>2. CountInv'
    BY NothingCounts
  <1>3. HolderInv'
    <2>1. \A i \in DOMAIN frames : frames[i].obj \in Objects
      BY FrameType
    <2> QED BY <2>1 DEF HolderInv
  <1> QED BY <1>1, <1>2, <1>3, Unblocked

(***************************************************************************)
(* A Lua variable is gone; the coroutine is; lua_close begins.             *)
(***************************************************************************)
LEMMA LuaSteps ==
  ASSUME LuaObjectInv, (\E o \in Objects : Drop(o)) \/ CollectCoroutine \/ CloseState
  PROVE  LuaObjectInv'
  <1> USE DEF LuaObjectInv
  <1>0. /\ object \in [Objects -> ObjectState] /\ coroutine \in {"alive", "collected"}
        /\ over \in BOOLEAN
    BY DEF TypeOK
  <1>1. ASSUME NEW o \in Objects, Drop(o)
        PROVE  LuaObjectInv'
    <2>1. /\ blocked = NotBlocked /\ object' = [object EXCEPT ![o].held = FALSE]
          /\ UNCHANGED <<tree, ref, frames, leaked, stuck, coroutine, blocked, over>>
      BY <1>1 DEF Drop, Running
    <2>2. object' \in [Objects -> ObjectState]
      BY <1>0, <2>1 DEF ObjectState
    <2>3. \A p \in Objects : object'[p].log = object[p].log /\ object'[p].tree = object[p].tree
      BY <1>0, <2>1 DEF ObjectState
    <2> QED BY <1>0, <2>1, <2>2, <2>3, HeldStep
  <1>2. CASE CollectCoroutine
    <2>1. /\ blocked = NotBlocked /\ coroutine' = "collected"
          /\ UNCHANGED <<object, tree, ref, frames, leaked, stuck, blocked, over>>
      BY <1>2 DEF CollectCoroutine, Running
    <2> QED BY <1>0, <2>1, HeldStep
  <1>3. CASE CloseState
    <2>1. /\ blocked = NotBlocked /\ over' = TRUE
          /\ object' = [o \in Objects |-> [object[o] EXCEPT !.held = FALSE]]
          /\ UNCHANGED <<tree, ref, frames, leaked, stuck, coroutine, blocked>>
      BY <1>3 DEF CloseState, Running
    <2>2. object' \in [Objects -> ObjectState]
      BY <1>0, <2>1 DEF ObjectState
    <2>3. \A p \in Objects : object'[p].log = object[p].log /\ object'[p].tree = object[p].tree
      BY <1>0, <2>1 DEF ObjectState
    <2> QED BY <1>0, <2>1, <2>2, <2>3, HeldStep
  <1> QED BY <1>1, <1>2, <1>3

(***************************************************************************)
(* pslua_logger_gc: the last logger of a tree is never collected while a   *)
(* callback of the tree runs, since the object whose line is written has a *)
(* logger too; so the finalizer waits only for a mutex that an error has   *)
(* left locked.                                                            *)
(***************************************************************************)
LEMMA CollectStep ==
  ASSUME LuaObjectInv, NEW o \in Objects, Collect(o)
  PROVE  LuaObjectInv'
  <1> USE DEF LuaObjectInv
  <1> DEFINE t == object[o].tree
  <1>1. /\ blocked = NotBlocked /\ Collectable(o)
        /\ IF tree[t].count = 1 /\ Locked(t) THEN Block(t, "collect")
           ELSE /\ object' = [object EXCEPT ![o].log = "gone", ![o].closed = TRUE]
                /\ tree' = [tree EXCEPT ![t] = Release(@)]
                /\ UNCHANGED <<ref, frames, leaked, stuck, coroutine, blocked, over>>
    BY DEF Collect
  <1>2. t \in Trees /\ o \in LiveOf(t)
    BY <1>1 DEF HolderInv, Collectable, LiveOf
  <1>a. \A u \in Trees : u # t <=> u # object[o].tree
    OBVIOUS
  <1> HIDE DEF t
  <1>3. Loggers(t) >= 1 /\ tree[t].count = Loggers(t) /\ Loggers(t) \in Nat
    BY <1>2, Counted, Countable DEF CountInv
  <1>4. ASSUME NEW i \in DOMAIN frames
        PROVE  frames[i].obj # o /\ (frames[i].tree = t => Loggers(t) >= 2)
    <2>1. frames[i].obj # o
      BY <1>1 DEF Collectable
    <2>2. frames[i].tree = t => frames[i].obj \in LiveOf(t)
      BY FrameType DEF HolderInv, LiveOf
    <2> QED BY <1>2, <2>1, <2>2, Counted
  <1>5. CASE tree[t].count = 1 /\ Locked(t)
    <2>1. Block(t, "collect")
      BY <1>1, <1>5
    <2>2. t \in stuck
      BY <1>3, <1>4, <1>5 DEF Locked
    <2> QED BY <1>2, <2>1, <2>2, BlockStep
  <1>6. CASE ~(tree[t].count = 1 /\ Locked(t))
    <2>1. /\ object' = [object EXCEPT ![o].log = "gone", ![o].closed = TRUE]
          /\ tree' = [tree EXCEPT ![t] = Release(@)]
          /\ UNCHANGED <<ref, frames, leaked, stuck, coroutine, blocked, over>>
      BY <1>1, <1>6
    <2>2. /\ object'[o].log = "gone"
          /\ \A p \in Objects : p # o => object'[p] = object[p]
      BY <2>1 DEF TypeOK, ObjectState
    <2>3. TypeOK'
      <3>1. object' \in [Objects -> ObjectState]
        <4>1. object \in [Objects -> ObjectState]
          BY DEF TypeOK
        <4>2. [object[o] EXCEPT !.log = "gone", !.closed = TRUE] \in ObjectState
          BY <4>1, ClosedObject
        <4> QED BY <2>1, <4>1, <4>2
      <3>2. tree[t] \in TreeState /\ tree[t].count > 0
        BY <1>2, <1>3 DEF TypeOK
      <3>3. Release(tree[t]) \in TreeState
        BY <3>2, ReleaseTree
      <3>4. tree' \in [Trees -> TreeState]
        BY <1>2, <2>1, <3>3 DEF TypeOK
      <3> QED BY <2>1, <3>1, <3>4 DEF TypeOK
    <2>4. CountInv'
      <3>1. \A u \in Trees : Loggers(u)' = IF u = t THEN Loggers(u) - 1 ELSE Loggers(u)
        BY <1>1, <1>a, <2>1, CollectCounts
      <3> QED BY <1>2, <1>3, <2>1, <3>1, CountDown
    <2>5. HolderInv'
      <3>1. ASSUME NEW i \in DOMAIN frames
            PROVE  /\ object'[frames[i].obj].log = "live"
                   /\ object'[frames[i].obj].tree = frames[i].tree
                   /\ ~tree'[frames[i].tree].closed
        <4>1. frames[i].obj \in Objects /\ frames[i].tree \in Trees
          BY FrameType
        <4>2. object'[frames[i].obj] = object[frames[i].obj]
          BY <1>4, <2>2, <4>1
        <4>3. tree'[frames[i].tree].closed = tree[frames[i].tree].closed
          <5>1. CASE frames[i].tree = t
            <6>1. tree[t] \in TreeState /\ tree[t].count > 1
              BY <1>2, <1>3, <1>4, <5>1 DEF TypeOK
            <6>2. tree'[t] = Release(tree[t])
              BY <1>2, <2>1 DEF TypeOK
            <6>3. tree[t].count > 0
              BY <1>3
            <6>4. Release(tree[t]).closed = tree[t].closed
              BY <6>1, <6>3, ReleaseTree
            <6> QED BY <5>1, <6>2, <6>4
          <5>2. CASE frames[i].tree # t
            BY <2>1, <4>1, <5>2 DEF TypeOK
          <5> QED BY <5>1, <5>2
        <4> QED BY <4>1, <4>2, <4>3 DEF HolderInv
      <3>2. ASSUME NEW r \in Refs, ref[r] # NoRef
            PROVE  ref[r].obj \in Objects /\ object'[ref[r].obj] = object[ref[r].obj]
        BY <1>1, <2>2, <3>2 DEF HolderInv, Collectable
      <3>3. ASSUME NEW p \in Objects, object'[p].log = "live"
            PROVE  object'[p].tree \in Trees
        <4>1. p # o
          BY <2>2, <3>3
        <4> QED BY <2>2, <3>3, <4>1 DEF HolderInv
      <3>4. ASSUME NEW r \in Refs, ref[r] # NoRef
            PROVE  /\ ref[r].registry /\ ref[r].obj \in Objects
                   /\ object'[ref[r].obj].log = "live"
        BY <3>2, <3>4 DEF HolderInv
      <3>5. frames' = frames /\ ref' = ref
        BY <2>1
      <3>6. \A r \in Refs : ref'[r] # NoRef =>
              ref'[r].registry /\ ref'[r].obj \in Objects /\ object'[ref'[r].obj].log = "live"
        BY <3>4, <3>5, Zenon
      <3>7. \A i \in DOMAIN frames' :
              /\ object'[frames'[i].obj].log = "live"
              /\ object'[frames'[i].obj].tree = frames'[i].tree
              /\ ~tree'[frames'[i].tree].closed
        BY <3>1, <3>5, Zenon
      <3>8. \A p \in Objects : object'[p].log = "live" => object'[p].tree \in Trees
        BY <3>3, Zenon
      <3> QED BY <3>6, <3>7, <3>8, Zenon DEF HolderInv
    <2> QED BY <1>1, <2>1, <2>3, <2>4, <2>5, Unblocked
  <1> QED BY <1>5, <1>6

(***************************************************************************)
(* pslog_lua_ref_logger.                                                   *)
(***************************************************************************)
LEMMA RefLoggerStep ==
  ASSUME LuaObjectInv, NEW r \in Refs, NEW o \in Objects, NEW fields \in BOOLEAN,
         RefLogger(r, o, fields)
  PROVE  LuaObjectInv'
  <1> USE DEF LuaObjectInv
  <1> DEFINE t == object[o].tree
             new == [obj |-> o, registry |-> TRUE, derived |-> fields]
  <1>1. /\ blocked = NotBlocked /\ ref[r] = NoRef /\ object[o].log = "live"
        /\ ref' = [ref EXCEPT ![r] = new]
        /\ tree' = IF fields THEN [tree EXCEPT ![t].count = @ + 1] ELSE tree
        /\ UNCHANGED <<object, frames, leaked, stuck, coroutine, blocked, over>>
    BY DEF RefLogger, Running, Open
  <1>2. t \in Trees /\ o \in LiveOf(t)
    BY <1>1 DEF HolderInv, LiveOf
  <1>3. \A u \in Trees : Loggers(u)' = IF fields /\ u = t THEN Loggers(u) + 1 ELSE Loggers(u)
    BY <1>1, RefCounts
  <1>4. new.obj = o /\ new.registry = TRUE
    OBVIOUS
  <1>5. new \in [obj : Objects \cup {NoObject}, registry : BOOLEAN, derived : BOOLEAN]
    OBVIOUS
  <1> HIDE DEF t, new
  <1>6. TypeOK'
    <2>1. tree' \in [Trees -> TreeState]
      BY <1>1, <1>2, RetainType DEF TypeOK
    <2>2. ref' \in [Refs -> [obj : Objects \cup {NoObject}, registry : BOOLEAN,
                             derived : BOOLEAN]]
      BY <1>1, <1>5 DEF TypeOK
    <2> QED BY <1>1, <2>1, <2>2 DEF TypeOK
  <1>7. CountInv'
    <2>1. CASE fields
      <3>1. tree[t].state = "live"
        <4>1. Loggers(t) >= 1
          BY <1>2, Counted
        <4> QED BY <1>2, <4>1, Countable DEF CountInv
      <3> QED BY <1>1, <1>2, <1>3, <2>1, <3>1, CountUp
    <2>2. CASE ~fields
      BY <1>1, <1>3, <2>2, CountSame
    <2> QED BY <2>1, <2>2
  <1>8. HolderInv'
    <2>1. \A u \in Trees : tree'[u].closed = tree[u].closed
      BY <1>1, <1>2, RetainType
    <2>2. ASSUME NEW i \in DOMAIN frames
          PROVE  ~tree'[frames[i].tree].closed
      BY <2>1, FrameType DEF HolderInv
    <2>3. ASSUME NEW s \in Refs, ref'[s] # NoRef
          PROVE  ref'[s].registry /\ ref'[s].obj \in Objects /\ object[ref'[s].obj].log = "live"
      <3>1. CASE s = r
        <4>1. ref'[r] = new
          BY <1>1 DEF TypeOK
        <4> QED BY <1>1, <1>4, <3>1, <4>1
      <3>2. CASE s # r
        <4>1. ref'[s] = ref[s]
          BY <1>1, <3>2 DEF TypeOK
        <4> QED BY <2>3, <4>1 DEF HolderInv
      <3> QED BY <3>1, <3>2
    <2> QED BY <1>1, <2>2, <2>3 DEF HolderInv
  <1> QED BY <1>1, <1>6, <1>7, <1>8, Unblocked

(***************************************************************************)
(* pslog_lua_unref_logger: the object still has its own logger, so that    *)
(* the one of the reference is not the last of the tree.                   *)
(***************************************************************************)
LEMMA UnrefLoggerStep ==
  ASSUME LuaObjectInv, NEW r \in Refs, UnrefLogger(r)
  PROVE  LuaObjectInv'
  <1> USE DEF LuaObjectInv
  <1> DEFINE t == object[ref[r].obj].tree
  <1>1. /\ blocked = NotBlocked /\ ref[r] # NoRef
        /\ tree' = IF ref[r].derived THEN [tree EXCEPT ![t] = Release(@)] ELSE tree
        /\ ref' = [ref EXCEPT ![r] = NoRef]
        /\ UNCHANGED <<object, frames, leaked, stuck, coroutine, blocked, over>>
    BY DEF UnrefLogger, Running
  <1>2. t \in Trees /\ ref[r].obj \in LiveOf(t)
    BY <1>1 DEF HolderInv, LiveOf
  <1>3. \A u \in Trees :
          Loggers(u)' = IF ref[r].derived /\ u = t THEN Loggers(u) - 1 ELSE Loggers(u)
    BY <1>1, UnrefCounts
  <1>4. ref[r].derived => r \in DerivedOf(t)
    BY <1>1 DEF DerivedOf
  <1>5. NoRef \in [obj : Objects \cup {NoObject}, registry : BOOLEAN, derived : BOOLEAN]
    BY DEF NoRef
  <1> HIDE DEF t
  <1>6. Loggers(t) >= 1 /\ tree[t].count = Loggers(t) /\ tree[t] \in TreeState
        /\ Loggers(t) \in Nat
    BY <1>2, Counted, Countable DEF CountInv, TypeOK
  <1>7. ref[r].derived => tree[t].count > 1
    <2>1. ref[r].derived => Loggers(t) >= 2
      BY <1>2, <1>4, Counted
    <2> QED BY <1>6, <2>1
  <1>8. tree[t].count > 0
    BY <1>6
  <1>9. Release(tree[t]) \in TreeState
        /\ (ref[r].derived => Release(tree[t]).closed = tree[t].closed)
    BY <1>6, <1>7, <1>8, ReleaseTree
  <1>10. TypeOK'
    <2>1. tree' \in [Trees -> TreeState]
      BY <1>1, <1>2, <1>9 DEF TypeOK
    <2>2. ref' \in [Refs -> [obj : Objects \cup {NoObject}, registry : BOOLEAN,
                             derived : BOOLEAN]]
      BY <1>1, <1>5 DEF TypeOK
    <2> QED BY <1>1, <2>1, <2>2 DEF TypeOK
  <1>11. CountInv'
    <2>1. CASE ref[r].derived
      BY <1>1, <1>2, <1>3, <1>6, <2>1, CountDown
    <2>2. CASE ~ref[r].derived
      BY <1>1, <1>3, <2>2, CountSame
    <2> QED BY <2>1, <2>2
  <1>12. HolderInv'
    <2>1. \A u \in Trees : tree'[u].closed = tree[u].closed
      <3>1. CASE ref[r].derived
        <4>1. tree'[t] = Release(tree[t]) /\ \A u \in Trees : u # t => tree'[u] = tree[u]
          BY <1>1, <1>2, <3>1 DEF TypeOK
        <4> QED BY <1>9, <3>1, <4>1
      <3>2. CASE ~ref[r].derived
        BY <1>1, <3>2
      <3> QED BY <3>1, <3>2
    <2>2. ASSUME NEW i \in DOMAIN frames
          PROVE  ~tree'[frames[i].tree].closed
      BY <2>1, FrameType DEF HolderInv
    <2>3. ASSUME NEW s \in Refs, ref'[s] # NoRef
          PROVE  ref'[s].registry /\ ref'[s].obj \in Objects /\ object[ref'[s].obj].log = "live"
      <3>1. s # r /\ ref'[s] = ref[s]
        BY <1>1, <2>3 DEF TypeOK
      <3> QED BY <2>3, <3>1 DEF HolderInv
    <2> QED BY <1>1, <2>2, <2>3 DEF HolderInv
  <1> QED BY <1>1, <1>10, <1>11, <1>12, Unblocked

-----------------------------------------------------------------------------
(* The invariant and the theorems.                                         *)

(***************************************************************************)
(* Before the first logger nothing is counted and nothing is held.         *)
(***************************************************************************)
LEMMA LuaObjectInit ==
  ASSUME Init
  PROVE  LuaObjectInv
  <1> USE DEF Init
  <1>1. TypeOK
    <2>1. object \in [Objects -> ObjectState] /\ tree \in [Trees -> TreeState]
      BY DEF ObjectState, TreeState
    <2>2. ref \in [Refs -> [obj : Objects \cup {NoObject}, registry : BOOLEAN,
                            derived : BOOLEAN]]
      BY DEF NoRef
    <2>3. blocked \in [tree : Trees \cup {NoTree}, op : {"none", "log", "close", "collect"}]
      BY DEF NotBlocked
    <2>4. frames \in Seq(Frame)
      OBVIOUS
    <2>5. /\ leaked \in [Trees -> Nat] /\ stuck \subseteq Trees
          /\ coroutine \in {"alive", "collected"} /\ over \in BOOLEAN
      OBVIOUS
    <2> QED BY ONLY <2>1, <2>2, <2>3, <2>4, <2>5 DEF TypeOK
  <1>2. ASSUME NEW t \in Trees
        PROVE  Loggers(t) = 0
    <2>1. LiveOf(t) = {} /\ DerivedOf(t) = {}
      BY DEF LiveOf, DerivedOf
    <2>2. leaked[t] = 0
      OBVIOUS
    <2>3. Cardinality({}) = 0
      BY FS_EmptySet
    <2> QED BY <2>1, <2>2, <2>3 DEF Loggers
  <1>3. CountInv
    BY <1>2 DEF CountInv
  <1>4. HolderInv
    BY DEF HolderInv
  <1>5. FinalizerNeverBlocks
    BY DEF FinalizerNeverBlocks, NotBlocked
  <1> QED BY <1>1, <1>3, <1>4, <1>5 DEF LuaObjectInv

(***************************************************************************)
(* Types, counts, holders and waiting finalizers, throughout.              *)
(***************************************************************************)
LEMMA LuaObjectInvariant == Spec => []LuaObjectInv
  <1>1. Init => LuaObjectInv
    BY LuaObjectInit
  <1>2. LuaObjectInv /\ [Next]_vars => LuaObjectInv'
    <2>1. SUFFICES ASSUME LuaObjectInv, [Next]_vars
                   PROVE  LuaObjectInv'
      OBVIOUS
    <2>2. CASE UNCHANGED vars
      <3>1. UNCHANGED <<object, tree, ref, frames, leaked, stuck, coroutine, blocked, over>>
        BY <2>2 DEF vars
      <3>2. TypeOK'
        BY <2>1, <3>1 DEF LuaObjectInv, TypeOK
      <3>3. CountInv'
        BY <2>1, <3>1, NothingCounts
      <3>4. HolderInv' /\ FinalizerNeverBlocks'
        BY <2>1, <3>1 DEF LuaObjectInv, HolderInv, FinalizerNeverBlocks
      <3> QED BY <3>2, <3>3, <3>4 DEF LuaObjectInv
    <2>3. ASSUME NEW o \in Objects, NEW t \in Trees, NEW L \in {"main", "co"},
                 NEW memory \in BOOLEAN, NewLogger(o, t, L, memory)
          PROVE  LuaObjectInv'
      BY <2>1, <2>3, NewLoggerStep
    <2>4. ASSUME NEW o \in Objects, NEW child \in Objects, NEW memory \in BOOLEAN,
                 With(o, child, memory)
          PROVE  LuaObjectInv'
      BY <2>1, <2>4, WithStep
    <2>5. ASSUME NEW o \in Objects, NEW memory \in BOOLEAN, Log(o, memory)
          PROVE  LuaObjectInv'
      BY <2>1, <2>5, LogStep
    <2>6. ASSUME NEW r \in Refs, NEW memory \in BOOLEAN, RefLog(r, memory)
          PROVE  LuaObjectInv'
      BY <2>1, <2>6, RefLogStep
    <2>7. CASE CallbackReturns
      BY <2>1, <2>7, CallbackReturnsStep
    <2>8. ASSUME NEW o \in Objects, Close(o) \/ Drop(o) \/ Collect(o)
          PROVE  LuaObjectInv'
      BY <2>1, <2>8, CloseStep, LuaSteps, CollectStep
    <2>9. CASE CollectCoroutine \/ CloseState
      BY <2>1, <2>9, LuaSteps
    <2>10. ASSUME NEW r \in Refs, NEW o \in Objects, NEW fields \in BOOLEAN,
                  RefLogger(r, o, fields)
           PROVE  LuaObjectInv'
      BY <2>1, <2>10, RefLoggerStep
    <2>11. ASSUME NEW r \in Refs, UnrefLogger(r)
           PROVE  LuaObjectInv'
      BY <2>1, <2>11, UnrefLoggerStep
    <2> QED BY <2>1, <2>2, <2>3, <2>4, <2>5, <2>6, <2>7, <2>8, <2>9, <2>10, <2>11 DEF Next
  <1> QED BY <1>1, <1>2, PTL DEF Spec

(***************************************************************************)
(* What C code has borrowed with a reference is allocated, a callback that *)
(* runs or may still be called is in the registry and its output not       *)
(* freed, and after lua_close nothing is left of a tree all of whose       *)
(* loggers had an object, whatever Lua code and finalizers do inside       *)
(* callbacks.                                                              *)
(***************************************************************************)
THEOREM LuaObjectsLive == Spec => []ObjectsLive
  <1>1. ASSUME LuaObjectInv
        PROVE  ObjectsLive
    <2> USE <1>1 DEF LuaObjectInv
    <2>1. ASSUME NEW t \in Trees, NEW o \in LiveOf(t)
          PROVE  tree[t].state = "live"
      BY <2>1, Counted, Countable DEF CountInv
    <2>2. BorrowedAllocated
      <3>1. SUFFICES ASSUME NEW r \in Refs, ref[r] # NoRef
                     PROVE  /\ object[ref[r].obj].log = "live"
                            /\ tree[object[ref[r].obj].tree].state = "live"
        BY DEF BorrowedAllocated
      <3>2. /\ ref[r].obj \in Objects /\ object[ref[r].obj].log = "live"
            /\ object[ref[r].obj].tree \in Trees
        BY <3>1 DEF HolderInv
      <3>3. ref[r].obj \in LiveOf(object[ref[r].obj].tree)
        BY <3>2 DEF LiveOf
      <3> QED BY <2>1, <3>2, <3>3
    <2>3. CallbackLife
      <3>1. ASSUME NEW i \in DOMAIN frames
            PROVE  tree[frames[i].tree].fn /\ tree[frames[i].tree].state = "live"
        <4>1. frames[i].obj \in Objects /\ frames[i].tree \in Trees
          BY FrameType
        <4>2. frames[i].obj \in LiveOf(frames[i].tree)
          BY <4>1 DEF HolderInv, LiveOf
        <4>3. tree[frames[i].tree].state = "live"
          BY <2>1, <4>1, <4>2
        <4> QED BY <4>1, <4>3 DEF HolderInv, CountInv
      <3> QED BY <3>1 DEF CallbackLife, CountInv
    <2>4. NothingLeft
      <3>1. SUFFICES ASSUME \A o \in Objects : object[o].log # "live",
                            NEW t \in Trees, leaked[t] = 0
                     PROVE  tree[t].state \in {"none", "freed"} /\ ~tree[t].fn
        BY DEF NothingLeft
      <3>2. LiveOf(t) = {}
        BY <3>1 DEF LiveOf
      <3>3. DerivedOf(t) = {}
        BY <3>1 DEF DerivedOf, HolderInv
      <3>4. Loggers(t) = 0
        BY <3>1, <3>2, <3>3, FS_EmptySet DEF Loggers
      <3>5. tree[t].state # "live" /\ ~tree[t].fn
        BY <3>4 DEF CountInv
      <3> QED BY <3>5 DEF TypeOK, TreeState
    <2> QED BY <2>2, <2>3, <2>4 DEF ObjectsLive
  <1> QED BY <1>1, LuaObjectInvariant, PTL

(***************************************************************************)
(* A finalizer never waits for an output mutex, although it runs at any    *)
(* moment of a callback under that mutex, unless an error of Lua's         *)
(* allocator has left the mutex locked.                                    *)
(***************************************************************************)
THEOREM FinalizersDoNotWait == Spec => []FinalizerNeverBlocks
  <1>1. LuaObjectInv => FinalizerNeverBlocks
    BY DEF LuaObjectInv
  <1> QED BY <1>1, LuaObjectInvariant, PTL

-----------------------------------------------------------------------------
(* The fields of a call.                                                   *)

(***************************************************************************)
(* A call has a form and a sequence of entries.                            *)
(***************************************************************************)
LEMMA CallOf ==
  ASSUME NEW f \in Frames
  PROVE  /\ f.call.form \in Forms /\ f.call.entries \in Seq(EntryKinds)
         /\ Len(f.call.entries) \in Nat /\ DOMAIN f.call.entries = 1..Len(f.call.entries)
         /\ \A i \in 1..Len(f.call.entries) : f.call.entries[i] \in EntryKinds
  <1>1. f.call \in Calls \cup InnerCalls
    BY DEF Frames
  <1>2. f.call \in [form : Forms, entries : Seq(EntryKinds)]
    BY <1>1, LuaCallAssumption
  <1>3. f.call.form \in Forms /\ f.call.entries \in Seq(EntryKinds)
    BY <1>2
  <1> QED BY <1>3

(***************************************************************************)
(* How many entries before the next one are in a set.                      *)
(***************************************************************************)
LEMMA CountBefore ==
  ASSUME NEW n \in Nat, NEW S \in SUBSET (1..n)
  PROVE  /\ Cardinality({i \in S : i < 1}) = 0
         /\ \A k \in Nat : Cardinality({i \in S : i < k}) \in Nat
         /\ \A k \in Nat : Cardinality({i \in S : i < k}) <= Cardinality(S)
         /\ \A k \in Nat : Cardinality({i \in S : i < k + 1}) =
              Cardinality({i \in S : i < k}) + (IF k \in S THEN 1 ELSE 0)
         /\ Cardinality(S) \in Nat
  <1>0. \A i \in S : i \in Nat /\ i >= 1
    OBVIOUS
  <1>1. IsFiniteSet(S)
    <2>1. IsFiniteSet(1..n)
      BY FS_Interval
    <2> QED BY <2>1, FS_Subset
  <1>2. \A k \in Nat : IsFiniteSet({i \in S : i < k}) /\ Cardinality({i \in S : i < k}) \in Nat
                       /\ Cardinality({i \in S : i < k}) <= Cardinality(S)
    <2> SUFFICES ASSUME NEW k \in Nat
                 PROVE  IsFiniteSet({i \in S : i < k}) /\ Cardinality({i \in S : i < k}) \in Nat
                        /\ Cardinality({i \in S : i < k}) <= Cardinality(S)
      OBVIOUS
    <2> DEFINE B == {i \in S : i < k}
    <2>1. B \subseteq S
      OBVIOUS
    <2> HIDE DEF B
    <2>2. IsFiniteSet(B) /\ Cardinality(B) <= Cardinality(S)
      BY <1>1, <2>1, FS_Subset
    <2>3. Cardinality(B) \in Nat
      BY <2>2, FS_CardinalityType
    <2> QED BY <2>2, <2>3 DEF B
  <1>3. Cardinality(S) \in Nat
    BY <1>1, FS_CardinalityType
  <1>4. Cardinality({i \in S : i < 1}) = 0
    <2>1. \A i \in S : ~(i < 1)
      BY <1>0
    <2>2. {i \in S : i < 1} = {}
      BY <2>1, Zenon
    <2> QED BY <2>2, FS_EmptySet
  <1>5. ASSUME NEW k \in Nat
        PROVE  Cardinality({i \in S : i < k + 1}) =
                 Cardinality({i \in S : i < k}) + (IF k \in S THEN 1 ELSE 0)
    <2> DEFINE B == {i \in S : i < k}
               C == {i \in S : i < k + 1}
    <2>1. CASE k \in S
      <3>a. \A i \in S : i < k + 1 <=> (i < k \/ i = k)
        BY <1>0
      <3>b. k \notin B
        OBVIOUS
      <3>c. \A i : i \in C <=> (i \in B \/ i = k)
        BY <2>1, <3>a
      <3> HIDE DEF B, C
      <3>1. C = B \cup {k} /\ k \notin B
        BY <3>b, <3>c
      <3>2. IsFiniteSet(B)
        BY <1>2 DEF B
      <3>3. Cardinality(C) = Cardinality(B) + 1
        BY <3>1, <3>2, FS_AddElement
      <3> QED BY <3>3, <2>1 DEF B, C
    <2>2. CASE k \notin S
      <3>a. \A i \in S : i < k + 1 <=> (i < k)
        BY <1>0, <2>2
      <3>1. C = B
        BY <3>a
      <3>2. Cardinality(B) \in Nat
        BY <1>2
      <3> HIDE DEF B, C
      <3>3. Cardinality(C) = Cardinality(B) + 0
        BY <3>1, <3>2
      <3> QED BY <3>3, <2>2 DEF B, C
    <2> QED BY <2>1, <2>2
  <1> QED BY <1>2, <1>3, <1>4, <1>5

(***************************************************************************)
(* What a call keeps on its stack grows with each entry by the strings of  *)
(* that entry, and never exceeds the strings of all entries.               *)
(***************************************************************************)
LEMMA KeptGrows ==
  ASSUME NEW f \in Frames
  PROVE  /\ Kept(f) \in Nat
         /\ f.next = 1 => Kept(f) = 0
         /\ Cardinality(Texts(f)) \in Nat /\ Cardinality(Copies(f)) \in Nat
         /\ Kept(f) <= Cardinality(Texts(f)) + Cardinality(Copies(f))
         /\ f.next \in Texts(f) /\ f.next \notin Copies(f) =>
              Kept(f) + 1 <= Cardinality(Texts(f)) + Cardinality(Copies(f))
         /\ f.next \in Texts(f) /\ f.next \in Copies(f) =>
              Kept(f) + 2 <= Cardinality(Texts(f)) + Cardinality(Copies(f))
         /\ \A g \in Frames : g.call = f.call /\ g.next = f.next =>
              Kept(g) = Kept(f) /\ Texts(g) = Texts(f) /\ Copies(g) = Copies(f)
         /\ \A g \in Frames : g.call = f.call /\ g.next = f.next + 1 =>
              /\ Texts(g) = Texts(f) /\ Copies(g) = Copies(f)
              /\ Kept(g) = Kept(f) + (IF f.next \in Texts(f) THEN 1 ELSE 0)
                                   + (IF f.next \in Copies(f) THEN 1 ELSE 0)
  <1> DEFINE n == Len(f.call.entries)
             T == Texts(f)
             C == Copies(f)
             k == f.next
  <1>1. n \in Nat /\ T \in SUBSET (1..n) /\ C \in SUBSET (1..n)
    BY CallOf DEF Texts, Copies
  <1>2. k \in Nat
    BY DEF Frames
  <1>3. Kept(f) = Cardinality({i \in T : i < k}) + Cardinality({i \in C : i < k})
    BY DEF Kept
  <1>4. \A g \in Frames : g.call = f.call => Texts(g) = T /\ Copies(g) = C
    BY DEF Texts, Copies
  <1>5. \A g : Texts(g) = T /\ Copies(g) = C =>
          Kept(g) = Cardinality({i \in T : i < g.next}) + Cardinality({i \in C : i < g.next})
    BY DEF Kept
  <1> HIDE DEF n, T, C, k
  <1>6. /\ Cardinality({i \in T : i < 1}) = 0 /\ Cardinality({i \in C : i < 1}) = 0
        /\ Cardinality({i \in T : i < k}) \in Nat /\ Cardinality({i \in C : i < k}) \in Nat
        /\ Cardinality({i \in T : i < k}) <= Cardinality(T)
        /\ Cardinality({i \in C : i < k}) <= Cardinality(C)
        /\ Cardinality({i \in T : i < k + 1}) <= Cardinality(T)
        /\ Cardinality({i \in C : i < k + 1}) <= Cardinality(C)
        /\ Cardinality({i \in T : i < k + 1}) =
             Cardinality({i \in T : i < k}) + (IF k \in T THEN 1 ELSE 0)
        /\ Cardinality({i \in C : i < k + 1}) =
             Cardinality({i \in C : i < k}) + (IF k \in C THEN 1 ELSE 0)
        /\ Cardinality(T) \in Nat /\ Cardinality(C) \in Nat
    <2>1. k + 1 \in Nat
      BY <1>2
    <2>2. ASSUME NEW S, S \in SUBSET (1..n)
          PROVE  /\ Cardinality({i \in S : i < 1}) = 0
                 /\ Cardinality({i \in S : i < k}) \in Nat
                 /\ Cardinality({i \in S : i < k}) <= Cardinality(S)
                 /\ Cardinality({i \in S : i < k + 1}) <= Cardinality(S)
                 /\ Cardinality({i \in S : i < k + 1}) =
                      Cardinality({i \in S : i < k}) + (IF k \in S THEN 1 ELSE 0)
                 /\ Cardinality(S) \in Nat
      <3>1. n \in Nat /\ S \in SUBSET (1..n)
        BY <1>1, <2>2
      <3>2. /\ Cardinality({i \in S : i < 1}) = 0
            /\ \A j \in Nat : Cardinality({i \in S : i < j}) \in Nat
            /\ \A j \in Nat : Cardinality({i \in S : i < j}) <= Cardinality(S)
            /\ \A j \in Nat : Cardinality({i \in S : i < j + 1}) =
                 Cardinality({i \in S : i < j}) + (IF j \in S THEN 1 ELSE 0)
            /\ Cardinality(S) \in Nat
        BY <3>1, CountBefore, Zenon
      <3> QED BY <3>2, <1>2, <2>1
    <2> QED BY <1>1, <2>2
  <1> DEFINE t == Cardinality({i \in T : i < k})
             c == Cardinality({i \in C : i < k})
             tn == Cardinality({i \in T : i < k + 1})
             cn == Cardinality({i \in C : i < k + 1})
             tt == Cardinality(T)
             cc == Cardinality(C)
  <1>7. /\ t \in Nat /\ c \in Nat /\ tt \in Nat /\ cc \in Nat
        /\ t <= tt /\ c <= cc /\ tn <= tt /\ cn <= cc
        /\ tn = t + (IF k \in T THEN 1 ELSE 0) /\ cn = c + (IF k \in C THEN 1 ELSE 0)
    BY <1>6
  <1>8. Kept(f) = t + c
    BY <1>3
  <1>9. k = 1 => Kept(f) = 0
    BY <1>3, <1>6
  <1>10. \A g \in Frames : g.call = f.call /\ g.next = k =>
           Kept(g) = t + c /\ Texts(g) = T /\ Copies(g) = C
    BY <1>4, <1>5
  <1>11. \A g \in Frames : g.call = f.call /\ g.next = k + 1 =>
           Kept(g) = tn + cn /\ Texts(g) = T /\ Copies(g) = C
    BY <1>4, <1>5
  <1> HIDE DEF t, c, tn, cn, tt, cc
  <1>12. k \in T /\ k \notin C => t + c + 1 <= tt + cc
    BY <1>7
  <1>13. k \in T /\ k \in C => t + c + 2 <= tt + cc
    BY <1>7
  <1>14. t + c \in Nat /\ t + c <= tt + cc
    BY <1>7
  <1>15. tn + cn = t + c + (IF k \in T THEN 1 ELSE 0) + (IF k \in C THEN 1 ELSE 0)
    BY <1>7
  <1> QED
    BY <1>7, <1>8, <1>9, <1>10, <1>11, <1>12, <1>13, <1>14, <1>15 DEF T, C, k, tt, cc

-----------------------------------------------------------------------------

(***************************************************************************)
(* lua_insert moves the top below the m - 1 slots under it.                *)
(***************************************************************************)
LEMMA Inserted ==
  ASSUME NEW s \in Seq(Strings), NEW k \in Nat, NEW m \in Nat \ {0}, Len(s) = k + m
  PROVE  /\ Insert(s, m) \in Seq(Strings) /\ Len(Insert(s, m)) = k + m
         /\ \A j \in 1..k : Insert(s, m)[j] = s[j]
         /\ Insert(s, m)[k + 1] = s[k + m]
         /\ \A j \in k + 2..k + m : Insert(s, m)[j] = s[j - 1]
  <1> DEFINE n == k + m
             r == [j \in 1..n |-> IF j <= n - m THEN s[j]
                                  ELSE IF j = n - m + 1 THEN s[n] ELSE s[j - 1]]
  <1>1. Insert(s, m) = r
    BY DEF Insert
  <1>2. n \in Nat /\ n = k + m /\ n - m = k /\ \A j \in 1..n : s[j] \in Strings
    OBVIOUS
  <1>3. n \in 1..n
    OBVIOUS
  <1> HIDE DEF n
  <1>4. ASSUME NEW j \in 1..n
        PROVE  r[j] \in Strings
    <2>1. j > k + 1 => j - 1 \in 1..n
      BY <1>2
    <2>2. r[j] = IF j <= k THEN s[j] ELSE IF j = k + 1 THEN s[n] ELSE s[j - 1]
      BY <1>2
    <2>3. j <= k \/ j = k + 1 \/ j > k + 1
      BY <1>2
    <2> HIDE DEF r
    <2>4. CASE j <= k
      BY <1>2, <2>2, <2>4
    <2>5. CASE j = k + 1
      BY <1>2, <1>3, <2>2, <2>5
    <2>6. CASE j > k + 1
      BY <1>2, <2>1, <2>2, <2>6
    <2> QED BY <2>3, <2>4, <2>5, <2>6
  <1>5. r \in Seq(Strings) /\ Len(r) = n
    <2>1. r \in [1..n -> Strings]
      BY <1>4
    <2> HIDE DEF r
    <2> QED BY <1>2, <2>1
  <1>6. \A j \in 1..n : r[j] = IF j <= k THEN s[j] ELSE IF j = k + 1 THEN s[n] ELSE s[j - 1]
    BY <1>2
  <1> HIDE DEF r
  <1>7. \A j \in 1..k : r[j] = s[j]
    BY <1>2, <1>6
  <1>8. r[k + 1] = s[n]
    <2>1. k + 1 \in 1..n /\ ~(k + 1 <= k)
      BY <1>2
    <2> QED BY <1>6, <2>1
  <1>9. \A j \in k + 2..n : r[j] = s[j - 1]
    <2> TAKE j \in k + 2..n
    <2>1. j \in 1..n /\ ~(j <= k) /\ j # k + 1
      BY <1>2
    <2> QED BY <1>6, <2>1
  <1> QED BY <1>1, <1>2, <1>5, <1>7, <1>8, <1>9

(***************************************************************************)
(* lua_pop drops the top.                                                  *)
(***************************************************************************)
LEMMA Popped ==
  ASSUME NEW s \in Seq(Strings), Len(s) > 0
  PROVE  /\ Pop(s) \in Seq(Strings) /\ Len(Pop(s)) = Len(s) - 1
         /\ \A j \in 1..Len(s) - 1 : Pop(s)[j] = s[j]
  <1> DEFINE n == Len(s) - 1
  <1>1. n \in Nat /\ n <= Len(s) /\ Pop(s) = SubSeq(s, 1, n)
    BY DEF Pop
  <1>2. \A j \in 1..n : s[j] \in Strings
    OBVIOUS
  <1> HIDE DEF n
  <1>3. SubSeq(s, 1, n) = [j \in 1..n |-> s[j]]
    BY <1>1
  <1>4. Pop(s) \in [1..n -> Strings]
    BY <1>1, <1>2, <1>3
  <1>5. Pop(s) \in Seq(Strings) /\ Len(Pop(s)) = n
    BY <1>1, <1>4
  <1>6. \A j \in 1..n : Pop(s)[j] = s[j]
    BY <1>1, <1>3
  <1> QED BY <1>5, <1>6 DEF n

(***************************************************************************)
(* The same for a stack whose height is known.                             *)
(***************************************************************************)
LEMMA PoppedTo ==
  ASSUME NEW s \in Seq(Strings), NEW k \in Nat, Len(s) = k + 1
  PROVE  Pop(s) \in Seq(Strings) /\ Len(Pop(s)) = k /\ \A j \in 1..k : Pop(s)[j] = s[j]
  <1>1. Len(s) > 0 /\ Len(s) - 1 = k
    OBVIOUS
  <1> QED BY <1>1, Popped

(***************************************************************************)
(* An entry of a table puts its key and value above what is kept, and the  *)
(* copy of a key that is no string.                                        *)
(***************************************************************************)
LEMMA EntryGiven ==
  ASSUME NEW f \in Frames, NEW d \in Nat, NEW k \in Nat, Len(f.stack) = k + 1,
         f.next <= Len(f.call.entries)
  PROVE  /\ WithEntry(d, f) \in Seq(Strings)
         /\ \A j \in 1..k : WithEntry(d, f)[j] = f.stack[j]
         /\ WithEntry(d, f)[k + 1] = Key(d, f.next)
         /\ WithEntry(d, f)[k + 2] = Val(d, f.next)
         /\ f.call.entries[f.next].key = "str" => Len(WithEntry(d, f)) = k + 2
         /\ f.call.entries[f.next].key # "str" =>
              /\ Len(WithEntry(d, f)) = k + 3
              /\ WithEntry(d, f)[k + 3] = KeyCopy(d, f.next)
  <1> DEFINE p == Pop(f.stack)
             a == Key(d, f.next)
             b == Val(d, f.next)
             c == KeyCopy(d, f.next)
             str == f.call.entries[f.next].key = "str"
  <1>1. f.stack \in Seq(Strings) /\ f.next \in Nat
    BY DEF Frames
  <1>2. a \in Strings /\ b \in Strings /\ c \in Strings
    BY <1>1 DEF Strings, Key, Val, KeyCopy
  <1>3. p \in Seq(Strings) /\ Len(p) = k /\ \A j \in 1..k : p[j] = f.stack[j]
    BY <1>1, PoppedTo
  <1>4. WithEntry(d, f) = IF str THEN p \o <<a, b>> ELSE Append(p \o <<a, b>>, c)
    BY DEF WithEntry
  <1> HIDE DEF p, a, b, c, str
  <1> DEFINE q == p \o <<a, b>>
  <1>5. /\ q \in Seq(Strings) /\ Len(q) = k + 2 /\ q[k + 1] = a /\ q[k + 2] = b
        /\ \A j \in 1..k : q[j] = p[j]
    BY <1>2, <1>3
  <1> HIDE DEF q
  <1>6. /\ Append(q, c) \in Seq(Strings) /\ Len(Append(q, c)) = k + 3
        /\ Append(q, c)[k + 1] = a /\ Append(q, c)[k + 2] = b /\ Append(q, c)[k + 3] = c
        /\ \A j \in 1..k : Append(q, c)[j] = p[j]
    BY <1>2, <1>5
  <1>7. WithEntry(d, f) = IF str THEN q ELSE Append(q, c)
    BY <1>4 DEF q
  <1>8. CASE str
    BY <1>3, <1>5, <1>7, <1>8 DEF a, b, c, str
  <1>9. CASE ~str
    BY <1>3, <1>6, <1>7, <1>9 DEF a, b, c, str
  <1> QED BY <1>8, <1>9

(***************************************************************************)
(* After an entry without tostring, lua_insert and lua_pop leave its key   *)
(* on top, and below it the copy of a key that is a number.                *)
(***************************************************************************)
LEMMA EntryPlain ==
  ASSUME NEW f, NEW s \in Seq(Strings), NEW k \in Nat, NEW r,
         r = AfterEntry(f, s, 0),
         f.call.entries[f.next].key = "str" => Len(s) = k + 2,
         f.call.entries[f.next].key # "str" => Len(s) = k + 3
  PROVE  /\ r \in Seq(Strings)
         /\ \A j \in 1..k : r[j] = s[j]
         /\ f.call.entries[f.next].key = "str" => Len(r) = k + 1 /\ r[k + 1] = s[k + 1]
         /\ f.call.entries[f.next].key # "str" =>
              Len(r) = k + 2 /\ r[k + 1] = s[k + 3] /\ r[k + 2] = s[k + 1]
  <1> DEFINE str == f.call.entries[f.next].key = "str"
  <1>1. CASE str
    <2>1. r = Pop(s)
      BY <1>1 DEF AfterEntry
    <2>2. Len(s) = k + 2
      BY <1>1
    <2>3. r \in Seq(Strings) /\ Len(r) = k + 1 /\ \A j \in 1..k + 1 : r[j] = s[j]
      <3> DEFINE l == k + 1
      <3>1. l \in Nat /\ Len(s) = l + 1
        BY <2>2
      <3> HIDE DEF l
      <3>2. r \in Seq(Strings) /\ Len(r) = l /\ \A j \in 1..l : r[j] = s[j]
        BY <2>1, <3>1, PoppedTo
      <3> QED BY <3>2 DEF l
    <2>4. r[k + 1] = s[k + 1] /\ \A j \in 1..k : r[j] = s[j]
      BY <2>3
    <2> QED BY <2>3, <2>4, <1>1
  <1>2. CASE ~str
    <2> DEFINE t == Insert(s, 3)
    <2>1. r = Pop(t)
      BY <1>2 DEF AfterEntry
    <2>2. Len(s) = k + 3
      BY <1>2
    <2>3. /\ t \in Seq(Strings) /\ Len(t) = k + 3 /\ \A j \in 1..k : t[j] = s[j]
          /\ t[k + 1] = s[k + 3] /\ \A j \in k + 2..k + 3 : t[j] = s[j - 1]
      BY <2>2, Inserted
    <2> HIDE DEF t
    <2>4. /\ t \in Seq(Strings) /\ Len(t) = k + 3 /\ \A j \in 1..k : t[j] = s[j]
          /\ t[k + 1] = s[k + 3] /\ t[k + 2] = s[k + 1]
      BY <2>3
    <2>a. r \in Seq(Strings) /\ Len(r) = k + 2 /\ \A j \in 1..k + 2 : r[j] = t[j]
      <3> DEFINE l == k + 2
      <3>1. l \in Nat /\ t \in Seq(Strings) /\ Len(t) = l + 1
        BY <2>4
      <3> HIDE DEF l
      <3>2. r \in Seq(Strings) /\ Len(r) = l /\ \A j \in 1..l : r[j] = t[j]
        BY <2>1, <3>1, PoppedTo
      <3> QED BY <3>2 DEF l
    <2>5. /\ r \in Seq(Strings) /\ Len(r) = k + 2 /\ \A j \in 1..k : r[j] = s[j]
          /\ r[k + 1] = s[k + 3] /\ r[k + 2] = s[k + 1]
      BY <2>4, <2>a
    <2> QED BY <2>5, <1>2
  <1> QED BY <1>1, <1>2

\* The stack after an entry with tostring: r, of s, above the first k values.
EntryLeft(f, s, k, r) ==
  /\ r \in Seq(Strings)
  /\ \A j \in 1..k : r[j] = s[j]
  /\ f.call.entries[f.next].key = "str" =>
       Len(r) = k + 2 /\ r[k + 1] = s[k + 3] /\ r[k + 2] = s[k + 1]
  /\ f.call.entries[f.next].key # "str" =>
       /\ Len(r) = k + 3 /\ r[k + 1] = s[k + 4] /\ r[k + 2] = s[k + 3]
       /\ r[k + 3] = s[k + 1]

(***************************************************************************)
(* After an entry with tostring they leave its key on top, and below it    *)
(* the copy of a key that is a number, and the result of tostring.         *)
(***************************************************************************)
LEMMA EntryConverted ==
  ASSUME NEW f, NEW s \in Seq(Strings), NEW k \in Nat, NEW r,
         r = AfterEntry(f, s, 1),
         f.call.entries[f.next].key = "str" => Len(s) = k + 3,
         f.call.entries[f.next].key # "str" => Len(s) = k + 4
  PROVE  EntryLeft(f, s, k, r)
  <1> USE DEF EntryLeft
  <1> DEFINE str == f.call.entries[f.next].key = "str"
  <1>1. CASE str
    <2> DEFINE t == Insert(s, 3)
    <2>1. r = Pop(t)
      BY <1>1 DEF AfterEntry
    <2>2. Len(s) = k + 3
      BY <1>1
    <2>3. /\ t \in Seq(Strings) /\ Len(t) = k + 3 /\ \A j \in 1..k : t[j] = s[j]
          /\ t[k + 1] = s[k + 3] /\ \A j \in k + 2..k + 3 : t[j] = s[j - 1]
      BY <2>2, Inserted
    <2> HIDE DEF t
    <2>4. /\ t \in Seq(Strings) /\ Len(t) = k + 3 /\ \A j \in 1..k : t[j] = s[j]
          /\ t[k + 1] = s[k + 3] /\ t[k + 2] = s[k + 1]
      BY <2>3
    <2>a. r \in Seq(Strings) /\ Len(r) = k + 2 /\ \A j \in 1..k + 2 : r[j] = t[j]
      <3> DEFINE l == k + 2
      <3>1. l \in Nat /\ t \in Seq(Strings) /\ Len(t) = l + 1
        BY <2>4
      <3> HIDE DEF l
      <3>2. r \in Seq(Strings) /\ Len(r) = l /\ \A j \in 1..l : r[j] = t[j]
        BY <2>1, <3>1, PoppedTo
      <3> QED BY <3>2 DEF l
    <2>5. /\ r \in Seq(Strings) /\ Len(r) = k + 2 /\ \A j \in 1..k : r[j] = s[j]
          /\ r[k + 1] = s[k + 3] /\ r[k + 2] = s[k + 1]
      BY <2>4, <2>a
    <2> QED BY <2>5, <1>1
  <1>2. CASE ~str
    <2> DEFINE t == Insert(s, 4)
               u == Insert(t, 3)
    <2>1. r = Pop(u)
      BY <1>2 DEF AfterEntry
    <2>2. Len(s) = k + 4
      BY <1>2
    <2> HIDE DEF u
    <2>b. 4 \in Nat \ {0}
      OBVIOUS
    <2>3. /\ t \in Seq(Strings) /\ Len(t) = k + 4 /\ \A j \in 1..k : t[j] = s[j]
          /\ t[k + 1] = s[k + 4] /\ \A j \in k + 2..k + 4 : t[j] = s[j - 1]
      BY <2>2, <2>b, Inserted
    <2> HIDE DEF t
    <2>4. /\ t \in Seq(Strings) /\ Len(t) = k + 4 /\ \A j \in 1..k : t[j] = s[j]
          /\ t[k + 1] = s[k + 4] /\ t[k + 2] = s[k + 1] /\ t[k + 3] = s[k + 2]
          /\ t[k + 4] = s[k + 3]
      BY <2>3
    <2>5. /\ u \in Seq(Strings) /\ Len(u) = k + 4 /\ \A j \in 1..k + 1 : u[j] = t[j]
          /\ u[k + 2] = t[k + 4] /\ \A j \in k + 3..k + 4 : u[j] = t[j - 1]
      <3> DEFINE l == k + 1
      <3>1. t \in Seq(Strings) /\ l \in Nat /\ Len(t) = l + 3 /\ 3 \in Nat \ {0}
        BY <2>4
      <3>2. /\ u \in Seq(Strings) /\ Len(u) = l + 3 /\ \A j \in 1..l : u[j] = t[j]
            /\ u[l + 1] = t[l + 3] /\ \A j \in l + 2..l + 3 : u[j] = t[j - 1]
        <4> HIDE DEF l
        <4> QED BY <3>1, Inserted DEF u
      <3>3. l + 1 = k + 2 /\ l + 2 = k + 3 /\ l + 3 = k + 4
        OBVIOUS
      <3> HIDE DEF u
      <3> QED BY <3>2, <3>3
    <2> HIDE DEF u
    <2>6. /\ u \in Seq(Strings) /\ Len(u) = k + 4 /\ \A j \in 1..k : u[j] = s[j]
          /\ u[k + 1] = s[k + 4] /\ u[k + 2] = s[k + 3] /\ u[k + 3] = s[k + 1]
      <3>0. /\ k + 3 \in k + 3..k + 4 /\ (k + 3) - 1 = k + 2 /\ k + 1 \in 1..k + 1
            /\ \A j \in 1..k : j \in 1..k + 1
        OBVIOUS
      <3>1. u[k + 3] = t[k + 2] /\ u[k + 1] = t[k + 1] /\ \A j \in 1..k : u[j] = t[j]
        BY <2>5, <3>0, SMTT(30)
      <3>2. u[k + 3] = s[k + 1] /\ u[k + 1] = s[k + 4] /\ u[k + 2] = s[k + 3]
        BY <2>4, <2>5, <3>1
      <3> QED BY <2>4, <2>5, <3>1, <3>2
    <2>a. r \in Seq(Strings) /\ Len(r) = k + 3 /\ \A j \in 1..k + 3 : r[j] = u[j]
      <3> DEFINE l == k + 3
      <3>1. l \in Nat /\ u \in Seq(Strings) /\ Len(u) = l + 1
        BY <2>6
      <3> HIDE DEF l
      <3>2. r \in Seq(Strings) /\ Len(r) = l /\ \A j \in 1..l : r[j] = u[j]
        BY <2>1, <3>1, PoppedTo
      <3> QED BY <3>2 DEF l
    <2>7. /\ r \in Seq(Strings) /\ Len(r) = k + 3 /\ \A j \in 1..k : r[j] = s[j]
          /\ r[k + 1] = s[k + 4] /\ r[k + 2] = s[k + 3] /\ r[k + 3] = s[k + 1]
      <3>0. k + 1 \in 1..k + 3 /\ k + 2 \in 1..k + 3 /\ k + 3 \in 1..k + 3
        OBVIOUS
      <3>1. r[k + 1] = u[k + 1] /\ r[k + 2] = u[k + 2] /\ r[k + 3] = u[k + 3]
        BY <2>a, <3>0, Zenon
      <3>2. \A j \in 1..k : j \in 1..k + 3
        OBVIOUS
      <3>3. \A j \in 1..k : r[j] = u[j]
        BY <2>a, <3>2, Zenon
      <3>4. \A j \in 1..k : r[j] = s[j]
        BY <2>6, <3>3, Zenon
      <3>5. r[k + 1] = s[k + 4] /\ r[k + 2] = s[k + 3] /\ r[k + 3] = s[k + 1]
        BY <2>6, <3>1, Zenon
      <3> QED BY <2>a, <3>4, <3>5, Zenon
    <2> QED BY <2>7, <1>2
  <1> QED BY <1>1, <1>2

-----------------------------------------------------------------------------

(***************************************************************************)
(* pslua_reserve_fields gives an array with room for count fields in which *)
(* the fields collected so far are where they were.                        *)
(***************************************************************************)
LEMMA ReserveGives ==
  ASSUME NEW s \in Arrays, NEW count \in Nat \ {0}
  PROVE  LET r == Reserve(s, count)
         IN /\ r \in Arrays /\ r.moves > 0 /\ Len(r.fields) >= count
            /\ Len(r.fields) >= Len(s.fields)
            /\ \A i \in 1..Len(s.fields) : r.fields[i] = s.fields[i]
  <1> DEFINE n == Len(s.fields)
             P == Strings \X Strings
  <1>1. /\ s \in [fields : Seq(P), moves : Nat] /\ n \in Nat
        /\ \A i \in 1..n : s.fields[i] \in P
        /\ n > 0 => s.moves > 0
    BY DEF Arrays
  <1>2. Unset \in P
    BY DEF Unset, NIL, Strings
  <1>3. CASE n >= count
    BY <1>1, <1>3 DEF Reserve
  <1>4. CASE ~(n >= count)
    <2> DEFINE a == [i \in 1..count |-> IF i <= n THEN s.fields[i] ELSE Unset]
    <2>1. Reserve(s, count) = [fields |-> a, moves |-> s.moves + 1]
      BY <1>4 DEF Reserve
    <2> HIDE DEF P
    <2>2. a \in [1..count -> P]
      BY <1>1, <1>2
    <2>3. \A i \in 1..n : a[i] = s.fields[i]
      BY <1>1, <1>4
    <2> HIDE DEF a, n
    <2>4. a \in Seq(P) /\ Len(a) = count
      BY <2>2
    <2>5. [fields |-> a, moves |-> s.moves + 1] \in Arrays
      BY <2>4, <1>1 DEF Arrays, P
    <2>6. /\ Reserve(s, count).fields = a /\ Reserve(s, count).moves = s.moves + 1
          /\ Reserve(s, count) \in Arrays
      BY <2>1, <2>5
    <2>7. s.moves \in Nat /\ count >= n
      BY <1>1, <1>4
    <2> QED BY <2>3, <2>4, <2>6, <2>7 DEF n
  <1> QED BY <1>3, <1>4

(***************************************************************************)
(* The array for the next entry: the one the call has, or one with room    *)
(* for the entry, with the fields collected so far where they were.        *)
(***************************************************************************)
LEMMA NextArrayGives ==
  ASSUME NEW f \in Frames, NEW s \in Arrays, NEW d \in Nat, PlaceInv(f), ArrayInv(d, f, s),
         f.at = "entry", f.next <= Len(f.call.entries), f.call.form # "odd"
  PROVE  LET r == NextArray(f, s)
             g == WithNext(d, f, r)
         IN /\ r \in Arrays
            /\ Len(r.fields) >= Len(s.fields)
            /\ \A i \in 1..Len(s.fields) : r.fields[i] = s.fields[i]
            /\ g.array = r.moves /\ g.array \in Nat \ {0}
            /\ Len(r.fields) >= f.next
            /\ f.call.form # "table" => Len(r.fields) >= Len(f.call.entries)
            /\ f.call.form = "table" =>
                 g.capacity >= f.next /\ g.capacity <= Len(r.fields)
            /\ g.capacity \in Nat
  <1> DEFINE r == NextArray(f, s)
             g == WithNext(d, f, r)
  <1>1. /\ f.next \in Nat /\ f.next >= 1 /\ f.capacity \in Nat /\ f.array \in Nat
        /\ Len(f.call.entries) \in Nat
    BY CallOf DEF Frames
  <1>2. /\ Len(s.fields) \in Nat /\ s.moves \in Nat /\ (Len(s.fields) > 0 => s.moves > 0)
    BY DEF Arrays
  <1>3. /\ g.array = IF f.call.form = "table" \/ f.array = 0 THEN r.moves ELSE f.array
        /\ g.capacity = IF f.call.form = "table" /\ f.next > f.capacity THEN CapacityFor(f)
                        ELSE f.capacity
    BY DEF WithNext, Frames
  <1> HIDE DEF g
  <1>4. CASE f.call.form = "table" /\ f.next <= f.capacity
    <2>1. r = s
      BY <1>4 DEF NextArray
    <2>2. f.array # 0
      BY <1>1, <1>4 DEF ArrayInv
    <2>3. f.array = s.moves /\ f.capacity <= Len(s.fields)
      BY <1>4, <2>2 DEF ArrayInv
    <2> QED BY <1>1, <1>2, <1>3, <1>4, <2>1, <2>2, <2>3 DEF g
  <1>5. CASE f.call.form = "table" /\ ~(f.next <= f.capacity)
    <2>1. r = Reserve(s, CapacityFor(f))
      BY <1>5 DEF NextArray
    <2>2. f.capacity >= f.next - 1
      BY <1>5 DEF ArrayInv
    <2>a. FirstCapacity \in Nat /\ FirstCapacity >= 1
      BY LuaCallAssumption
    <2>b. CapacityFor(f) = IF f.capacity = 0
                           THEN IF FirstCapacity < f.next THEN 2 * FirstCapacity ELSE FirstCapacity
                           ELSE IF f.capacity < f.next THEN 2 * f.capacity ELSE f.capacity
      BY DEF CapacityFor
    <2>3. CapacityFor(f) \in Nat \ {0} /\ CapacityFor(f) >= f.next
      BY <1>1, <1>5, <2>2, <2>a, <2>b
    <2>4. /\ r \in Arrays /\ r.moves > 0 /\ Len(r.fields) >= CapacityFor(f)
          /\ Len(r.fields) >= Len(s.fields)
          /\ \A i \in 1..Len(s.fields) : r.fields[i] = s.fields[i]
      BY <2>1, <2>3, ReserveGives
    <2> HIDE DEF r
    <2>5. r.moves \in Nat /\ Len(r.fields) \in Nat
      BY <2>4 DEF Arrays
    <2>6. g.array = r.moves /\ g.capacity = CapacityFor(f)
      BY <1>1, <1>3, <1>5
    <2>7. Len(r.fields) >= f.next
      BY <1>1, <2>3, <2>4, <2>5
    <2> QED BY <1>1, <1>5, <2>3, <2>4, <2>5, <2>6, <2>7 DEF r, g
  <1>6. CASE f.call.form # "table" /\ f.array # 0
    <2>1. r = s
      BY <1>6 DEF NextArray
    <2>2. f.array = s.moves /\ Len(s.fields) >= Len(f.call.entries)
      BY <1>6 DEF ArrayInv
    <2> QED BY <1>1, <1>2, <1>3, <1>6, <2>1, <2>2 DEF g
  <1>7. CASE f.call.form # "table" /\ f.array = 0
    <2>1. r = Reserve(s, Len(f.call.entries))
      BY <1>7 DEF NextArray
    <2>2. Len(f.call.entries) \in Nat \ {0}
      BY <1>1
    <2>4. /\ r \in Arrays /\ r.moves > 0 /\ Len(r.fields) >= Len(f.call.entries)
          /\ Len(r.fields) >= Len(s.fields)
          /\ \A i \in 1..Len(s.fields) : r.fields[i] = s.fields[i]
      BY <2>1, <2>2, ReserveGives
    <2> HIDE DEF r
    <2>5. r.moves \in Nat /\ Len(r.fields) \in Nat
      BY <2>4 DEF Arrays
    <2>6. g.array = r.moves /\ g.capacity = f.capacity
      BY <1>1, <1>3, <1>7
    <2>7. Len(r.fields) >= f.next
      BY <1>1, <2>4, <2>5
    <2> QED BY <1>1, <1>7, <2>4, <2>5, <2>6, <2>7 DEF r, g
  <1> QED BY <1>4, <1>5, <1>6, <1>7

(***************************************************************************)
(* The strings of an entry, and a field made of them.                      *)
(***************************************************************************)
LEMMA EntryStrings ==
  ASSUME NEW f, NEW d \in Nat, NEW i \in Nat
  PROVE  /\ Key(d, i) \in Strings /\ Val(d, i) \in Strings /\ KeyCopy(d, i) \in Strings
         /\ Text(d, i) \in Strings /\ NIL \in Strings
         /\ Field(d, f, i) \in Strings \X Strings
  <1>1. /\ Key(d, i) \in Strings /\ Val(d, i) \in Strings /\ KeyCopy(d, i) \in Strings
        /\ Text(d, i) \in Strings /\ NIL \in Strings /\ <<"none", d, i>> \in Strings
    BY DEF Key, Val, KeyCopy, Text, NIL, Strings
  <1>2. KeyString(d, f, i) \in Strings
    BY <1>1, Zenon DEF KeyString
  <1>3. ValueString(d, i, f.call.entries[i].value) \in Strings
    BY <1>1, Zenon DEF ValueString
  <1> QED BY <1>1, <1>2, <1>3, Zenon DEF Field

(***************************************************************************)
(* A field is stored in its place, and the others stay.                    *)
(***************************************************************************)
LEMMA StoreGives ==
  ASSUME NEW s \in Arrays, NEW i \in 1..Len(s.fields), NEW field \in Strings \X Strings
  PROVE  LET r == Store(s, s.moves, i, field)
         IN /\ r \in Arrays /\ r.moves = s.moves /\ Len(r.fields) = Len(s.fields)
            /\ r.fields[i] = field
            /\ \A j \in 1..Len(s.fields) : j # i => r.fields[j] = s.fields[j]
  <1> DEFINE P == Strings \X Strings
             a == [s.fields EXCEPT ![i] = field]
             r == Store(s, s.moves, i, field)
  <1>1. s \in [fields : Seq(P), moves : Nat] /\ (Len(s.fields) > 0 => s.moves > 0)
    BY DEF Arrays
  <1>2. r = [s EXCEPT !.fields = a]
    BY DEF Store
  <1> HIDE DEF P
  <1>3. /\ a \in Seq(P) /\ Len(a) = Len(s.fields) /\ a[i] = field
        /\ \A j \in 1..Len(s.fields) : j # i => a[j] = s.fields[j]
    BY <1>1 DEF P
  <1> HIDE DEF a, r
  <1>4. r \in [fields : Seq(P), moves : Nat] /\ r.fields = a /\ r.moves = s.moves
    BY <1>1, <1>2, <1>3
  <1>5. r \in Arrays
    BY <1>1, <1>3, <1>4 DEF Arrays, P
  <1> QED BY <1>3, <1>4, <1>5 DEF r

-----------------------------------------------------------------------------

(***************************************************************************)
(* Once an entry is done: the strings kept stay, and those of the entry    *)
(* are above them.                                                         *)
(***************************************************************************)
LEMMA StackGrows ==
  ASSUME NEW f \in Frames, NEW g \in Frames, NEW d \in Nat, StackInv(d, f),
         g.call = f.call, g.next = f.next + 1, g.at = "entry",
         \A j \in 1..Kept(f) : g.stack[j] = f.stack[j],
         Len(g.stack) = Kept(g) + (IF f.call.form = "table" THEN 1 ELSE 0),
         f.call.form = "table" => g.stack[Kept(g) + 1] = Key(d, f.next),
         f.next \in Texts(f) => Among(g.stack, Kept(g), Text(d, f.next)),
         f.next \in Copies(f) => Among(g.stack, Kept(g), KeyCopy(d, f.next))
  PROVE  StackInv(d, g)
  <1>1. /\ Kept(f) \in Nat /\ Kept(g) \in Nat /\ Kept(f) <= Kept(g)
        /\ Texts(g) = Texts(f) /\ Copies(g) = Copies(f)
    <2>1. /\ Kept(f) \in Nat /\ Texts(g) = Texts(f) /\ Copies(g) = Copies(f)
          /\ Kept(g) = Kept(f) + (IF f.next \in Texts(f) THEN 1 ELSE 0)
                               + (IF f.next \in Copies(f) THEN 1 ELSE 0)
      BY KeptGrows
    <2> QED BY <2>1
  <1>2. f.next \in Nat /\ f.next >= 1
    BY DEF Frames
  <1>3. \A v : Among(f.stack, Kept(f), v) => Among(g.stack, Kept(g), v)
    <2> SUFFICES ASSUME NEW v, Among(f.stack, Kept(f), v)
                 PROVE  Among(g.stack, Kept(g), v)
      OBVIOUS
    <2>1. PICK j \in 1..Kept(f) : f.stack[j] = v
      BY DEF Among
    <2>2. j \in 1..Kept(g) /\ g.stack[j] = v
      BY <1>1, <2>1
    <2> QED BY <2>2 DEF Among
  <1>4. ASSUME NEW i \in 1..(g.next - 1)
        PROVE  /\ i \in Texts(g) => Among(g.stack, Kept(g), Text(d, i))
               /\ i \in Copies(g) => Among(g.stack, Kept(g), KeyCopy(d, i))
    <2>1. i = f.next \/ i \in 1..(f.next - 1)
      BY <1>2
    <2>2. CASE i = f.next
      BY <1>1, <2>2
    <2>3. CASE i \in 1..(f.next - 1)
      <3>1. /\ i \in Texts(f) => Among(f.stack, Kept(f), Text(d, i))
            /\ i \in Copies(f) => Among(f.stack, Kept(f), KeyCopy(d, i))
        BY <2>3 DEF StackInv
      <3> QED BY <1>1, <1>3, <3>1
    <2> QED BY <2>1, <2>2, <2>3
  <1>5. g.next # 1 /\ g.next - 1 = f.next
    BY <1>2
  <1>6. f.call.form # "table" => Len(g.stack) = Kept(g)
    BY <1>1
  <1>7. f.call.form = "table" => Len(g.stack) = Kept(g) + 1
    OBVIOUS
  <1> QED BY <1>4, <1>5, <1>6, <1>7 DEF StackInv

(***************************************************************************)
(* The next entry leaves the stack in order, up to tostring or beyond.     *)
(***************************************************************************)
LEMMA NextStack ==
  ASSUME NEW f \in Frames, NEW r, NEW d \in Nat, PlaceInv(f), StackInv(d, f),
         f.at = "entry", f.next <= Len(f.call.entries), f.call.form # "odd",
         f.call.entries[f.next].key # "bad"
  PROVE  /\ WithNext(d, f, r).stack \in Seq(Strings)
         /\ WithNext(d, f, r) \in Frames => StackInv(d, WithNext(d, f, r))
  <1> DEFINE g == WithNext(d, f, r)
             convert == f.call.entries[f.next].value = "object"
             ofTable == f.call.form = "table"
             k == Kept(f)
             given == WithEntry(d, f)
  <1>1. /\ g.call = f.call /\ g.at = (IF convert THEN "tostring" ELSE "entry")
        /\ g.next = (IF convert THEN f.next ELSE f.next + 1)
        /\ ofTable /\ convert => g.stack = given
        /\ ofTable /\ ~convert => g.stack = AfterEntry(f, given, 0)
        /\ ~ofTable => g.stack = f.stack
    BY DEF WithNext, Frames
  <1>2. /\ f.next \in Nat /\ f.next >= 1 /\ f.stack \in Seq(Strings) /\ k \in Nat
        /\ f.next \in DOMAIN f.call.entries
        /\ f.call.entries[f.next] \in EntryKinds
    <2>1. f.next \in Nat /\ f.next >= 1 /\ f.stack \in Seq(Strings)
      BY DEF Frames
    <2>2. k \in Nat
      BY KeptGrows
    <2>3. f.next \in DOMAIN f.call.entries /\ f.call.entries[f.next] \in EntryKinds
      BY <2>1, CallOf
    <2> QED BY <2>1, <2>2, <2>3
  <1>3. /\ f.next \in Texts(f) <=> convert
        /\ f.next \in Copies(f) <=> ofTable /\ f.call.entries[f.next].key = "num"
    BY <1>2 DEF Texts, Copies
  <1>4. f.call.entries[f.next].key \in {"str", "num"}
    BY <1>2 DEF EntryKinds
  <1>5. ASSUME g \in Frames, convert
        PROVE  Kept(g) = k /\ Texts(g) = Texts(f) /\ Copies(g) = Copies(f)
    BY <1>1, <1>5, KeptGrows
  <1>6. ASSUME g \in Frames, ~convert
        PROVE  Kept(g) = k + (IF f.next \in Copies(f) THEN 1 ELSE 0)
    <2>1. Kept(g) = k + (IF f.next \in Texts(f) THEN 1 ELSE 0)
                      + (IF f.next \in Copies(f) THEN 1 ELSE 0)
      BY <1>1, <1>6, KeptGrows
    <2> QED BY <1>2, <1>3, <1>6, <2>1
  <1> HIDE DEF g, convert, k
  <1>7. CASE ~ofTable
    <2>1. g.stack = f.stack /\ g.stack \in Seq(Strings) /\ Len(f.stack) = k
      BY <1>1, <1>2, <1>7 DEF StackInv, k
    <2>2. CASE convert /\ g \in Frames
      <3>1. g.next = f.next /\ Kept(g) = k /\ Texts(g) = Texts(f) /\ Copies(g) = Copies(f)
        BY <1>1, <1>5, <2>2
      <3>2. \A i \in 1..(f.next - 1) :
              /\ i \in Texts(f) => Among(f.stack, k, Text(d, i))
              /\ i \in Copies(f) => Among(f.stack, k, KeyCopy(d, i))
        BY DEF StackInv, k
      <3>3. StackInv(d, g)
        BY <1>1, <1>7, <2>1, <3>1, <3>2 DEF StackInv
      <3> QED BY <2>1, <3>3 DEF g
    <2>3. CASE ~convert /\ g \in Frames
      <3>1. g.next = f.next + 1 /\ g.at = "entry" /\ Kept(g) = k
        BY <1>1, <1>2, <1>3, <1>6, <1>7, <2>3
      <3>2. Len(g.stack) = Kept(g) + (IF f.call.form = "table" THEN 1 ELSE 0)
        BY <1>2, <1>7, <2>1, <3>1
      <3>3. f.next \notin Texts(f) /\ f.next \notin Copies(f)
        BY <1>3, <1>7, <2>3
      <3>4. StackInv(d, g)
        BY <1>1, <1>7, <2>1, <2>3, <3>1, <3>2, <3>3, StackGrows
      <3> QED BY <2>1, <3>4 DEF g
    <2> QED BY <2>1, <2>2, <2>3 DEF g
  <1>8. CASE ofTable
    <2>1. Len(f.stack) = k + 1
      BY <1>8 DEF StackInv, k
    <2>2. /\ given \in Seq(Strings)
          /\ \A j \in 1..k : given[j] = f.stack[j]
          /\ given[k + 1] = Key(d, f.next)
          /\ given[k + 2] = Val(d, f.next)
          /\ f.call.entries[f.next].key = "str" => Len(given) = k + 2
          /\ f.call.entries[f.next].key # "str" =>
               Len(given) = k + 3 /\ given[k + 3] = KeyCopy(d, f.next)
      BY <1>2, <2>1, EntryGiven
    <2> HIDE DEF given
    <2>3. CASE convert
      <3>1. g.stack = given /\ g.at = "tostring" /\ g.next = f.next /\ g.call = f.call
        BY <1>1, <1>8, <2>3
      <3>2. ASSUME g \in Frames
            PROVE  StackInv(d, g)
        <4>1. Kept(g) = k /\ Texts(g) = Texts(f) /\ Copies(g) = Copies(f)
          BY <1>5, <2>3, <3>2
        <4>2. \A i \in 1..(f.next - 1) :
                /\ i \in Texts(f) => Among(f.stack, k, Text(d, i))
                /\ i \in Copies(f) => Among(f.stack, k, KeyCopy(d, i))
          BY DEF StackInv, k
        <4>3. \A v : Among(f.stack, k, v) => Among(given, k, v)
          BY <2>2 DEF Among
        <4>4. \A i \in 1..(g.next - 1) :
                /\ i \in Texts(g) => Among(g.stack, Kept(g), Text(d, i))
                /\ i \in Copies(g) => Among(g.stack, Kept(g), KeyCopy(d, i))
          BY <3>1, <4>1, <4>2, <4>3
        <4>5. g.stack[Kept(g) + 1] = Key(d, g.next) /\ g.stack[Kept(g) + 2] = Val(d, g.next)
          BY <2>2, <3>1, <4>1
        <4>6. IF g.next \in Copies(g)
              THEN Len(g.stack) = Kept(g) + 3 /\ g.stack[Kept(g) + 3] = KeyCopy(d, g.next)
              ELSE Len(g.stack) = Kept(g) + 2
          BY <1>3, <1>4, <1>8, <2>2, <3>1, <4>1
        <4> QED BY <1>8, <3>1, <4>4, <4>5, <4>6 DEF StackInv
      <3> QED BY <2>2, <3>1, <3>2 DEF g
    <2>4. CASE ~convert
      <3> DEFINE t == AfterEntry(f, given, 0)
      <3>1. g.stack = t /\ g.at = "entry" /\ g.next = f.next + 1 /\ g.call = f.call
        BY <1>1, <1>8, <2>4
      <3>3. /\ t \in Seq(Strings)
            /\ \A j \in 1..k : t[j] = given[j]
            /\ f.call.entries[f.next].key = "str" =>
                 Len(t) = k + 1 /\ t[k + 1] = given[k + 1]
            /\ f.call.entries[f.next].key # "str" =>
                 Len(t) = k + 2 /\ t[k + 1] = given[k + 3] /\ t[k + 2] = given[k + 1]
        <4>1. /\ k \in Nat /\ given \in Seq(Strings)
              /\ f.call.entries[f.next].key = "str" => Len(given) = k + 2
              /\ f.call.entries[f.next].key # "str" => Len(given) = k + 3
          BY <1>2, <2>2
        <4>2. t = AfterEntry(f, given, 0)
          OBVIOUS
        <4> HIDE DEF t
        <4> QED BY <4>1, <4>2, EntryPlain, SMTT(30)
      <3> HIDE DEF t
      <3>4. ASSUME g \in Frames
            PROVE  StackInv(d, g)
        <4>1. \A j \in 1..Kept(f) : g.stack[j] = f.stack[j]
          BY <2>2, <3>1, <3>3 DEF k
        <4>2. f.next \notin Texts(f)
          BY <1>3, <2>4
        <4>3. CASE f.call.entries[f.next].key = "str"
          <5>1. f.next \notin Copies(f)
            BY <1>3, <4>3
          <5>2. Kept(g) = k
            BY <1>2, <1>6, <2>4, <3>4, <5>1
          <5>3. Len(g.stack) = Kept(g) + (IF f.call.form = "table" THEN 1 ELSE 0)
            BY <1>8, <3>1, <3>3, <4>3, <5>2
          <5>4. g.stack[Kept(g) + 1] = Key(d, f.next)
            BY <2>2, <3>1, <3>3, <4>3, <5>2
          <5> QED BY <3>1, <3>4, <4>1, <4>2, <5>1, <5>3, <5>4, StackGrows
        <4>4. CASE f.call.entries[f.next].key = "num"
          <5>1. f.next \in Copies(f)
            BY <1>3, <1>8, <4>4
          <5>2. Kept(g) = k + 1
            BY <1>2, <1>6, <2>4, <3>4, <5>1
          <5>a. Len(t) = k + 2 /\ t[k + 1] = KeyCopy(d, f.next) /\ t[k + 2] = Key(d, f.next)
            BY <2>2, <3>3, <4>4
          <5>b. k + 1 + 1 = k + 2 /\ k + 1 \in 1..k + 1
            BY <1>2
          <5>3. Len(g.stack) = Kept(g) + (IF f.call.form = "table" THEN 1 ELSE 0)
            BY <1>8, <3>1, <5>2, <5>a, <5>b
          <5>4. g.stack[Kept(g) + 1] = Key(d, f.next)
            BY <3>1, <5>2, <5>a, <5>b
          <5>5. Among(g.stack, Kept(g), KeyCopy(d, f.next))
            BY <3>1, <5>2, <5>a, <5>b DEF Among
          <5> QED BY <3>1, <3>4, <4>1, <4>2, <5>3, <5>4, <5>5, StackGrows
        <4> QED BY <1>4, <4>3, <4>4
      <3> QED BY <3>1, <3>3, <3>4 DEF g
    <2> QED BY <2>3, <2>4
  <1> QED BY <1>7, <1>8

(***************************************************************************)
(* The result of tostring goes below the key, if the fields are a table.   *)
(***************************************************************************)
LEMMA TextStack ==
  ASSUME NEW f \in Frames, NEW d \in Nat, PlaceInv(f), StackInv(d, f), f.at = "tostring"
  PROVE  WithText(d, f).stack \in Seq(Strings) /\ WithText(d, f) \in Frames
         /\ StackInv(d, WithText(d, f))
  <1> DEFINE g == WithText(d, f)
             ofTable == f.call.form = "table"
             k == Kept(f)
             v == Text(d, f.next)
             s == Append(f.stack, v)
  <1>1. /\ g = [f EXCEPT !.stack = g.stack, !.at = "entry", !.next = f.next + 1]
        /\ g.call = f.call /\ g.at = "entry" /\ g.next = f.next + 1
        /\ g.stack = (IF ofTable THEN AfterEntry(f, s, 1) ELSE s)
    BY DEF WithText, Frames
  <1>2. /\ f.next \in Nat /\ f.next >= 1 /\ f.stack \in Seq(Strings) /\ k \in Nat
        /\ f.next \in DOMAIN f.call.entries
        /\ f.call.entries[f.next] \in EntryKinds
    <2>1. f.next \in Nat /\ f.next >= 1 /\ f.stack \in Seq(Strings)
      BY DEF Frames
    <2>2. k \in Nat
      BY KeptGrows
    <2>3. f.next \in DOMAIN f.call.entries /\ f.call.entries[f.next] \in EntryKinds
      BY <2>1, CallOf DEF PlaceInv
    <2> QED BY <2>1, <2>2, <2>3
  <1>3. f.next \in Copies(f) <=> ofTable /\ f.call.entries[f.next].key = "num"
    BY <1>2 DEF Copies
  <1>4. f.call.entries[f.next].key \in {"str", "num"}
    BY <1>2 DEF EntryKinds, PlaceInv
  <1>6. ASSUME g \in Frames
        PROVE  Kept(g) = k + 1 + (IF f.next \in Copies(f) THEN 1 ELSE 0)
    <2>1. f.next \in Texts(f)
      BY <1>2 DEF PlaceInv, Texts
    <2> QED BY <1>1, <1>6, <2>1, KeptGrows
  <1>7. v \in Strings
    BY <1>2, EntryStrings
  <1> HIDE DEF g, k, v
  <1>5. ASSUME g.stack \in Seq(Strings)
        PROVE  g \in Frames
    <2> DEFINE t == g.stack
               h == [f EXCEPT !.stack = t, !.at = "entry", !.next = f.next + 1]
    <2>1. g = h
      BY <1>1
    <2>2. t \in Seq(Strings) /\ f.next + 1 \in Nat \ {0}
      BY <1>2, <1>5
    <2> HIDE DEF t
    <2>3. h \in Frames
      BY <2>2 DEF Frames
    <2> QED BY <2>1, <2>3
  <1>8. CASE ~ofTable
    <2>1. Len(f.stack) = k
      BY <1>8 DEF StackInv, k
    <2>2. /\ g.stack \in Seq(Strings) /\ Len(g.stack) = k + 1 /\ g.stack[k + 1] = v
          /\ \A j \in 1..k : g.stack[j] = f.stack[j]
      BY <1>1, <1>2, <1>7, <1>8, <2>1
    <2>3. g \in Frames /\ f.next \notin Copies(f)
      BY <1>3, <1>5, <1>8, <2>2
    <2>4. Kept(g) = k + 1
      BY <1>2, <1>6, <2>3
    <2>5. Among(g.stack, Kept(g), Text(d, f.next))
      <3>1. k + 1 \in 1..k + 1
        BY <1>2
      <3> QED BY <2>2, <2>4, <3>1 DEF Among, v
    <2>6. Len(g.stack) = Kept(g) + (IF f.call.form = "table" THEN 1 ELSE 0)
      BY <1>2, <1>8, <2>2, <2>4
    <2>7. \A j \in 1..Kept(f) : g.stack[j] = f.stack[j]
      BY <2>2 DEF k
    <2>8. StackInv(d, g)
      BY <1>1, <1>8, <2>3, <2>5, <2>6, <2>7, StackGrows
    <2> QED BY <2>2, <2>3, <2>8 DEF g
  <1>9. CASE ofTable
    <2>1. /\ f.stack[k + 1] = Key(d, f.next)
          /\ f.call.entries[f.next].key = "str" => Len(f.stack) = k + 2
          /\ f.call.entries[f.next].key = "num" =>
               Len(f.stack) = k + 3 /\ f.stack[k + 3] = KeyCopy(d, f.next)
      BY <1>3, <1>9 DEF StackInv, k
    <2>2. /\ s \in Seq(Strings) /\ Len(s) = Len(f.stack) + 1 /\ s[Len(f.stack) + 1] = v
          /\ \A j \in 1..Len(f.stack) : s[j] = f.stack[j]
      BY <1>2, <1>7
    <2> HIDE DEF s
    <2>3. /\ f.call.entries[f.next].key = "str" => Len(s) = k + 3
          /\ f.call.entries[f.next].key # "str" => Len(s) = k + 4
      <3>1. Len(f.stack) = k + 2 => Len(s) = k + 3
        BY <1>2, <2>2
      <3>2. Len(f.stack) = k + 3 => Len(s) = k + 4
        BY <1>2, <2>2
      <3> QED BY <1>4, <2>1, <3>1, <3>2
    <2> DEFINE t == AfterEntry(f, s, 1)
    <2>4. /\ t \in Seq(Strings)
          /\ \A j \in 1..k : t[j] = s[j]
          /\ f.call.entries[f.next].key = "str" =>
               Len(t) = k + 2 /\ t[k + 1] = s[k + 3] /\ t[k + 2] = s[k + 1]
          /\ f.call.entries[f.next].key # "str" =>
               /\ Len(t) = k + 3 /\ t[k + 1] = s[k + 4] /\ t[k + 2] = s[k + 3]
               /\ t[k + 3] = s[k + 1]
      <3>1. k \in Nat /\ s \in Seq(Strings)
        BY <1>2, <2>2
      <3>2. t = AfterEntry(f, s, 1)
        OBVIOUS
      <3> HIDE DEF t
      <3>3. EntryLeft(f, s, k, t)
        BY <2>3, <3>1, <3>2, EntryConverted
      <3> QED BY <3>3 DEF EntryLeft
    <2> HIDE DEF t
    <2>5. g.stack = t /\ g \in Frames
      BY <1>1, <1>5, <1>9, <2>4 DEF t
    <2>6. \A j \in 1..Kept(f) : g.stack[j] = f.stack[j]
      <3>1. \A j \in 1..k : j \in 1..Len(f.stack)
        BY <1>2, <1>4, <2>1
      <3> QED BY <2>2, <2>4, <2>5, <3>1 DEF k
    <2>7. CASE f.call.entries[f.next].key = "str"
      <3>1. f.next \notin Copies(f)
        BY <1>3, <2>7
      <3>2. Kept(g) = k + 1
        BY <1>2, <1>6, <2>5, <3>1
      <3>3. k + 1 \in 1..Len(f.stack) /\ Len(f.stack) + 1 = k + 3 /\ k + 1 + 1 = k + 2
            /\ k + 1 \in 1..k + 1
        BY <1>2, <2>1, <2>7
      <3>4. Len(t) = k + 2 /\ t[k + 1] = v /\ t[k + 2] = Key(d, f.next)
        BY <2>1, <2>2, <2>4, <2>7, <3>3
      <3>5. Len(g.stack) = Kept(g) + (IF f.call.form = "table" THEN 1 ELSE 0)
        BY <1>9, <2>5, <3>2, <3>3, <3>4
      <3>6. g.stack[Kept(g) + 1] = Key(d, f.next)
        BY <2>5, <3>2, <3>3, <3>4
      <3>7. Among(g.stack, Kept(g), Text(d, f.next))
        BY <2>5, <3>2, <3>3, <3>4 DEF Among, v
      <3>8. StackInv(d, g)
        BY <1>1, <2>5, <2>6, <3>1, <3>5, <3>6, <3>7, StackGrows
      <3> QED BY <2>4, <2>5, <3>8 DEF g
    <2>8. CASE f.call.entries[f.next].key = "num"
      <3>1. f.next \in Copies(f)
        BY <1>3, <1>9, <2>8
      <3>2. Kept(g) = k + 2
        BY <1>2, <1>6, <2>5, <3>1
      <3>3. /\ k + 1 \in 1..Len(f.stack) /\ k + 3 \in 1..Len(f.stack)
            /\ Len(f.stack) + 1 = k + 4 /\ k + 2 + 1 = k + 3
            /\ k + 1 \in 1..k + 2 /\ k + 2 \in 1..k + 2
        BY <1>2, <2>1, <2>8
      <3>4. /\ Len(t) = k + 3 /\ t[k + 1] = v /\ t[k + 2] = KeyCopy(d, f.next)
            /\ t[k + 3] = Key(d, f.next)
        BY <2>1, <2>2, <2>4, <2>8, <3>3
      <3>5. Len(g.stack) = Kept(g) + (IF f.call.form = "table" THEN 1 ELSE 0)
        BY <1>9, <2>5, <3>2, <3>3, <3>4
      <3>6. g.stack[Kept(g) + 1] = Key(d, f.next)
        BY <2>5, <3>2, <3>3, <3>4
      <3>7. Among(g.stack, Kept(g), Text(d, f.next)) /\ Among(g.stack, Kept(g), KeyCopy(d, f.next))
        BY <2>5, <3>2, <3>3, <3>4 DEF Among, v
      <3>8. StackInv(d, g)
        BY <1>1, <2>5, <2>6, <3>1, <3>5, <3>6, <3>7, StackGrows
      <3> QED BY <2>4, <2>5, <3>8 DEF g
    <2> QED BY <1>4, <2>7, <2>8
  <1> QED BY <1>8, <1>9

-----------------------------------------------------------------------------

(***************************************************************************)
(* A field depends on the call only.                                       *)
(***************************************************************************)
LEMMA SameFields ==
  ASSUME NEW f, NEW g, NEW d, g.call = f.call
  PROVE  /\ \A i : Field(d, g, i) = Field(d, f, i)
         /\ [i \in DOMAIN g.call.entries |-> Field(d, g, i)] =
              [i \in DOMAIN f.call.entries |-> Field(d, f, i)]
  <1>1. \A i : Field(d, g, i) = Field(d, f, i)
    BY DEF Field, KeyString
  <1> HIDE DEF Field
  <1> QED BY <1>1

(***************************************************************************)
(* The fields collected so far are within the array.                       *)
(***************************************************************************)
LEMMA Collected ==
  ASSUME NEW f \in Frames, NEW s \in Arrays, NEW d \in Nat, PlaceInv(f), ArrayInv(d, f, s)
  PROVE  /\ f.next - 1 <= Len(s.fields)
         /\ f.at = "tostring" => f.next <= Len(s.fields)
  <1>1. /\ f.next \in Nat /\ f.next >= 1 /\ f.capacity \in Nat /\ f.array \in Nat
        /\ Len(f.call.entries) \in Nat
    BY CallOf DEF Frames
  <1>2. Len(s.fields) \in Nat
    BY DEF Arrays
  <1>3. CASE f.array = 0
    BY <1>1, <1>2, <1>3 DEF ArrayInv
  <1>4. CASE f.array # 0 /\ f.call.form = "table"
    BY <1>1, <1>2, <1>4 DEF ArrayInv
  <1>5. CASE f.array # 0 /\ f.call.form # "table"
    BY <1>1, <1>2, <1>5 DEF ArrayInv, PlaceInv
  <1> QED BY <1>3, <1>4, <1>5

(***************************************************************************)
(* A call begins without an array and with nothing to keep.                *)
(***************************************************************************)
LEMMA NewFrame ==
  ASSUME NEW o \in Callers, NEW c \in Calls \cup InnerCalls, NEW s \in Arrays, NEW d \in Nat
  PROVE  /\ NewCall(o, c) \in Frames /\ NewCall(o, c).obj = o
         /\ NewCall(o, c).at = "entry"
         /\ FrameInv(d, NewCall(o, c), s)
  <1> DEFINE f == NewCall(o, c)
  <1>1. /\ f.obj = o /\ f.call = c /\ f.next = 1 /\ f.at = "entry" /\ f.capacity = 0
        /\ f.array = 0 /\ f.line = <<>>
        /\ f.stack = (IF c.form = "table" THEN <<NIL>> ELSE <<>>)
    BY DEF NewCall
  <1>2. f \in Frames
    <2>1. NIL \in Strings
      BY DEF NIL, Strings
    <2>2. <<NIL>> \in Seq(Strings) /\ <<>> \in Seq(Strings)
      BY <2>1
    <2>3. <<>> \in Seq(Strings \X Strings)
      OBVIOUS
    <2> HIDE DEF NIL
    <2> QED BY <2>2, <2>3 DEF NewCall, Frames
  <1> HIDE DEF f
  <1>3. Len(f.call.entries) \in Nat
    BY <1>2, CallOf
  <1>4. PlaceInv(f)
    BY <1>1, <1>3 DEF PlaceInv
  <1>5. ArrayInv(d, f, s)
    BY <1>1 DEF ArrayInv
  <1>6. StackInv(d, f)
    <2>1. Kept(f) = 0
      BY <1>1, <1>2, KeptGrows
    <2>2. CASE c.form = "table"
      <3>1. f.stack = <<NIL>>
        BY <1>1, <2>2
      <3>2. Len(f.stack) = 1 /\ f.stack[1] = NIL
        BY <3>1
      <3> QED BY <1>1, <2>1, <2>2, <3>2 DEF StackInv
    <2>3. CASE c.form # "table"
      <3>1. f.stack = <<>>
        BY <1>1, <2>3
      <3>2. Len(f.stack) = 0
        BY <3>1
      <3> QED BY <1>1, <2>1, <2>3, <3>2 DEF StackInv
    <2> QED BY <2>2, <2>3
  <1> QED BY <1>1, <1>2, <1>4, <1>5, <1>6 DEF f, FrameInv

(***************************************************************************)
(* The next entry of a call.                                               *)
(***************************************************************************)
LEMMA NextFrame ==
  ASSUME NEW f \in Frames, NEW s \in Arrays, NEW d \in Nat, FrameInv(d, f, s),
         f.at = "entry", f.next <= Len(f.call.entries), f.call.form # "odd",
         f.call.entries[f.next].key # "bad"
  PROVE  LET r == NextArray(f, s)
             g == WithNext(d, f, r)
             u == IF f.call.entries[f.next].value = "object" THEN r
                  ELSE Store(r, g.array, f.next, Field(d, f, f.next))
         IN g \in Frames /\ g.obj = f.obj /\ u \in Arrays /\ FrameInv(d, g, u)
  <1> DEFINE r == NextArray(f, s)
             g == WithNext(d, f, r)
             convert == f.call.entries[f.next].value = "object"
             n == f.next
             field == Field(d, f, n)
             u == IF convert THEN r ELSE Store(r, g.array, n, field)
  <1>1. PlaceInv(f) /\ ArrayInv(d, f, s) /\ StackInv(d, f)
    BY DEF FrameInv
  <1>2. /\ n \in Nat /\ n >= 1 /\ Len(f.call.entries) \in Nat /\ f.line \in Seq(Strings \X Strings)
    BY CallOf DEF Frames
  <1>3. /\ r \in Arrays /\ Len(r.fields) >= Len(s.fields)
        /\ \A i \in 1..Len(s.fields) : r.fields[i] = s.fields[i]
        /\ g.array = r.moves /\ g.array \in Nat \ {0} /\ Len(r.fields) >= n
        /\ f.call.form # "table" => Len(r.fields) >= Len(f.call.entries)
        /\ f.call.form = "table" => g.capacity >= n /\ g.capacity <= Len(r.fields)
        /\ g.capacity \in Nat
    BY <1>1, NextArrayGives
  <1>4. g.stack \in Seq(Strings) /\ (g \in Frames => StackInv(d, g))
    BY <1>1, NextStack
  <1>5. /\ g.obj = f.obj /\ g.call = f.call
        /\ g.at = (IF convert THEN "tostring" ELSE "entry")
        /\ g.next = (IF convert THEN n ELSE n + 1)
        /\ g = [f EXCEPT !.array = g.array, !.capacity = g.capacity, !.stack = g.stack,
                         !.at = g.at, !.next = g.next]
    BY DEF WithNext, Frames
  <1> HIDE DEF r, g, convert
  <1>6. g \in Frames
    <2> DEFINE a == g.array
               b == g.capacity
               c == g.stack
               e == g.at
               m == g.next
               h == [f EXCEPT !.array = a, !.capacity = b, !.stack = c, !.at = e, !.next = m]
    <2>1. g = h
      BY <1>5
    <2>2. a \in Nat /\ b \in Nat /\ c \in Seq(Strings) /\ e \in {"entry", "tostring", "emitted"}
          /\ m \in Nat \ {0}
      BY <1>2, <1>3, <1>4, <1>5
    <2> HIDE DEF a, b, c, e, m
    <2>3. h \in Frames
      BY <2>2 DEF Frames
    <2> QED BY <2>1, <2>3
  <1>7. Len(s.fields) \in Nat /\ Len(r.fields) \in Nat /\ r.moves \in Nat
    BY <1>3 DEF Arrays
  <1>8. /\ u \in Arrays /\ u.moves = r.moves /\ Len(u.fields) = Len(r.fields)
        /\ ~convert => u.fields[n] = field
        /\ \A j \in 1..Len(r.fields) : j # n => u.fields[j] = r.fields[j]
    <2>1. CASE convert
      BY <1>3, <2>1
    <2>2. CASE ~convert
      <3>1. u = Store(r, r.moves, n, field)
        BY <1>3, <2>2
      <3>2. n \in 1..Len(r.fields)
        BY <1>2, <1>3, <1>7
      <3>3. field \in Strings \X Strings
        BY <1>2, EntryStrings
      <3>4. r \in Arrays
        BY <1>3
      <3> HIDE DEF u, field
      <3>5. /\ u \in Arrays /\ u.moves = r.moves /\ Len(u.fields) = Len(r.fields)
            /\ u.fields[n] = field
            /\ \A j \in 1..Len(r.fields) : j # n => u.fields[j] = r.fields[j]
        BY <3>1, <3>2, <3>3, <3>4, StoreGives, SMTT(30)
      <3> QED BY <2>2, <3>5
    <2> QED BY <2>1, <2>2
  <1>9. \A i \in 1..(n - 1) : u.fields[i] = Field(d, f, i)
    <2> TAKE i \in 1..(n - 1)
    <2>1. n - 1 <= Len(s.fields)
      BY <1>1, Collected
    <2>2. i \in 1..Len(s.fields) /\ i \in 1..Len(r.fields) /\ i # n
      BY <1>2, <1>3, <1>7, <2>1
    <2>3. s.fields[i] = Field(d, f, i)
      BY <1>1 DEF ArrayInv
    <2> QED BY <1>3, <1>8, <2>2, <2>3
  <1>10. \A i : Field(d, g, i) = Field(d, f, i)
    BY <1>5, SameFields
  <1> HIDE DEF u, field
  <1>11. PlaceInv(g)
    <2>1. CASE convert
      BY <1>1, <1>2, <1>5, <2>1, SMTT(30) DEF PlaceInv, convert
    <2>2. CASE ~convert
      BY <1>1, <1>2, <1>5, <2>2, SMTT(30) DEF PlaceInv, convert
    <2> QED BY <2>1, <2>2
  <1>12. ArrayInv(d, g, u)
    <2>1. \A i \in 1..(g.next - 1) : u.fields[i] = Field(d, g, i)
      <3> TAKE i \in 1..(g.next - 1)
      <3>1. i \in 1..(n - 1) \/ (i = n /\ ~convert)
        BY <1>2, <1>5
      <3> QED BY <1>8, <1>9, <1>10, <3>1 DEF field
    <2>2. g.array # 0 /\ g.array = u.moves
      BY <1>3, <1>8
    <2>3. f.call.form # "table" => Len(u.fields) >= Len(g.call.entries)
      BY <1>3, <1>5, <1>8
    <2>4. f.call.form = "table" =>
            /\ 0 < g.capacity /\ g.capacity <= Len(u.fields)
            /\ g.capacity >= g.next - 1
            /\ g.at = "tostring" => g.capacity >= g.next
      BY <1>2, <1>3, <1>5, <1>8
    <2> QED BY <1>5, <2>1, <2>2, <2>3, <2>4 DEF ArrayInv
  <1>13. FrameInv(d, g, u)
    BY <1>4, <1>6, <1>11, <1>12 DEF FrameInv
  <1> QED BY <1>5, <1>6, <1>8, <1>13 DEF g, r, u, convert, field

(***************************************************************************)
(* tostring returns.                                                       *)
(***************************************************************************)
LEMMA TextFrame ==
  ASSUME NEW f \in Frames, NEW s \in Arrays, NEW d \in Nat, FrameInv(d, f, s),
         f.at = "tostring"
  PROVE  LET g == WithText(d, f)
             u == Store(s, f.array, f.next, Field(d, f, f.next))
         IN g \in Frames /\ g.obj = f.obj /\ u \in Arrays /\ FrameInv(d, g, u)
  <1> DEFINE g == WithText(d, f)
             n == f.next
             field == Field(d, f, n)
             u == Store(s, f.array, n, field)
  <1>1. PlaceInv(f) /\ ArrayInv(d, f, s) /\ StackInv(d, f)
    BY DEF FrameInv
  <1>2. /\ n \in Nat /\ n >= 1 /\ Len(f.call.entries) \in Nat /\ n <= Len(f.call.entries)
        /\ f.capacity \in Nat
    BY <1>1, CallOf DEF Frames, PlaceInv
  <1>3. g \in Frames /\ StackInv(d, g)
    BY <1>1, TextStack
  <1>4. /\ g.obj = f.obj /\ g.call = f.call /\ g.at = "entry" /\ g.next = n + 1
        /\ g.array = f.array /\ g.capacity = f.capacity
    BY DEF WithText, Frames
  <1> HIDE DEF g
  <1>5. Len(s.fields) \in Nat /\ n <= Len(s.fields)
    BY <1>1, Collected DEF Arrays
  <1>6. f.array # 0 /\ f.array = s.moves
    BY <1>1 DEF ArrayInv
  <1>7. /\ u \in Arrays /\ u.moves = s.moves /\ Len(u.fields) = Len(s.fields)
        /\ u.fields[n] = field
        /\ \A j \in 1..Len(s.fields) : j # n => u.fields[j] = s.fields[j]
    <2>1. u = Store(s, s.moves, n, field)
      BY <1>6
    <2>2. n \in 1..Len(s.fields)
      BY <1>2, <1>5
    <2>3. field \in Strings \X Strings
      BY <1>2, EntryStrings
    <2> HIDE DEF u, field
    <2> QED BY <2>1, <2>2, <2>3, StoreGives
  <1>8. \A i : Field(d, g, i) = Field(d, f, i)
    BY <1>4, SameFields
  <1> HIDE DEF u, field
  <1>9. PlaceInv(g)
    BY <1>1, <1>2, <1>4 DEF PlaceInv
  <1>10. ArrayInv(d, g, u)
    <2>1. \A i \in 1..(g.next - 1) : u.fields[i] = Field(d, g, i)
      <3> TAKE i \in 1..(g.next - 1)
      <3>1. i = n \/ i \in 1..(n - 1)
        BY <1>2, <1>4
      <3>2. CASE i = n
        BY <1>7, <1>8, <3>2 DEF field
      <3>3. CASE i \in 1..(n - 1)
        <4>1. i \in 1..Len(s.fields) /\ i # n
          BY <1>2, <1>5, <3>3
        <4>2. s.fields[i] = Field(d, f, i)
          BY <1>1, <3>3 DEF ArrayInv
        <4> QED BY <1>7, <1>8, <4>1, <4>2
      <3> QED BY <3>1, <3>2, <3>3
    <2>2. f.call.form # "table" => Len(u.fields) >= Len(g.call.entries)
      BY <1>1, <1>4, <1>6, <1>7 DEF ArrayInv
    <2>3. f.call.form = "table" =>
            0 < g.capacity /\ g.capacity <= Len(u.fields) /\ g.capacity >= g.next - 1
      BY <1>1, <1>2, <1>4, <1>6, <1>7 DEF ArrayInv
    <2> QED BY <1>4, <1>6, <1>7, <2>1, <2>2, <2>3 DEF ArrayInv
  <1>11. FrameInv(d, g, u)
    BY <1>3, <1>9, <1>10 DEF FrameInv
  <1> QED BY <1>3, <1>4, <1>7, <1>11 DEF g, u, field

(***************************************************************************)
(* The array is read.                                                      *)
(***************************************************************************)
LEMMA LineFrame ==
  ASSUME NEW f \in Frames, NEW s \in Arrays, NEW d \in Nat, FrameInv(d, f, s),
         f.at = "entry", f.next > Len(f.call.entries), f.call.form # "odd"
  PROVE  LET g == WithLine(f, s)
         IN g \in Frames /\ g.obj = f.obj /\ FrameInv(d, g, s)
  <1> DEFINE g == WithLine(f, s)
             n == Len(f.call.entries)
             line == [i \in 1..n |-> Field(d, f, i)]
  <1>1. PlaceInv(f) /\ ArrayInv(d, f, s) /\ StackInv(d, f)
    BY DEF FrameInv
  <1>2. /\ f.next \in Nat /\ f.next >= 1 /\ n \in Nat /\ DOMAIN f.call.entries = 1..n
        /\ f.stack \in Seq(Strings) /\ f.array \in Nat
    BY CallOf DEF Frames
  <1>3. f.next = n + 1
    BY <1>1, <1>2 DEF PlaceInv
  <1>4. Kept(f) \in Nat
    BY KeptGrows
  <1>5. /\ g.obj = f.obj /\ g.call = f.call /\ g.at = "emitted" /\ g.next = f.next
        /\ g.array = f.array /\ g.capacity = f.capacity
        /\ g.stack = (IF f.call.form = "table" THEN Pop(f.stack) ELSE f.stack)
        /\ g.line = LineOf(f, s)
        /\ g = [f EXCEPT !.stack = g.stack, !.at = "emitted", !.line = g.line]
    BY DEF WithLine, Frames
  <1> HIDE DEF g
  <1>6. /\ g.stack \in Seq(Strings) /\ Len(g.stack) = Kept(f)
        /\ \A j \in 1..Kept(f) : g.stack[j] = f.stack[j]
    <2>1. CASE f.call.form = "table"
      <3>1. Len(f.stack) = Kept(f) + 1
        BY <1>1, <2>1 DEF StackInv
      <3> HIDE DEF Kept
      <3> QED BY <1>2, <1>4, <1>5, <2>1, <3>1, PoppedTo
    <2>2. CASE f.call.form # "table"
      BY <1>1, <1>2, <1>5, <2>2 DEF StackInv
    <2> QED BY <2>1, <2>2
  <1>7. LineOf(f, s) = line /\ line \in Seq(Strings \X Strings)
    <2>1. \A i \in 1..n : Field(d, f, i) \in Strings \X Strings
      BY <1>2, EntryStrings
    <2>2. line \in Seq(Strings \X Strings)
      BY <1>2, <2>1
    <2>3. CASE f.array = 0
      <3>1. n = 0
        BY <1>1, <1>2, <1>3, <2>3 DEF ArrayInv
      <3>2. line = <<>>
        BY <3>1
      <3> QED BY <2>2, <2>3, <3>2 DEF LineOf
    <2>4. CASE f.array # 0
      <3>1. f.array = s.moves
        BY <1>1, <2>4 DEF ArrayInv
      <3>2. LineOf(f, s) = SubSeq(s.fields, 1, n)
        BY <2>4, <3>1 DEF LineOf
      <3>3. \A i \in 1..n : s.fields[i] = Field(d, f, i)
        BY <1>1, <1>2, <1>3 DEF ArrayInv
      <3>4. SubSeq(s.fields, 1, n) = [i \in 1..n |-> s.fields[i]]
        BY <1>2
      <3> QED BY <2>2, <3>2, <3>3, <3>4
    <2> QED BY <2>3, <2>4
  <1>8. g \in Frames
    <2> DEFINE a == g.stack
               b == g.line
               h == [f EXCEPT !.stack = a, !.at = "emitted", !.line = b]
    <2>1. g = h
      BY <1>5
    <2>2. a \in Seq(Strings) /\ b \in Seq(Strings \X Strings)
      BY <1>5, <1>6, <1>7
    <2> HIDE DEF a, b
    <2>3. h \in Frames
      BY <2>2 DEF Frames
    <2> QED BY <2>1, <2>3
  <1>9. PlaceInv(g)
    BY <1>1, <1>3, <1>5 DEF PlaceInv
  <1>10. ArrayInv(d, g, s)
    <2>0. g.call = f.call
      BY <1>5
    <2>1. \A i : Field(d, g, i) = Field(d, f, i)
      BY <2>0, SameFields
    <2>2. g.line = [i \in DOMAIN g.call.entries |-> Field(d, g, i)]
      <3>1. g.line = line
        BY <1>5, <1>7
      <3> QED BY <1>2, <1>5, <2>1, <3>1
    <2>3. \A i \in 1..(g.next - 1) : s.fields[i] = Field(d, g, i)
      BY <1>1, <1>5, <2>1 DEF ArrayInv
    <2> HIDE DEF line
    <2> QED BY <1>1, <1>5, <2>2, <2>3 DEF ArrayInv
  <1>11. StackInv(d, g)
    <2>1. Kept(g) = Kept(f) /\ Texts(g) = Texts(f) /\ Copies(g) = Copies(f)
      BY <1>5, <1>8, KeptGrows
    <2>2. \A v : Among(f.stack, Kept(f), v) => Among(g.stack, Kept(f), v)
      BY <1>6 DEF Among
    <2>3. \A i \in 1..(f.next - 1) :
            /\ i \in Texts(f) => Among(f.stack, Kept(f), Text(d, i))
            /\ i \in Copies(f) => Among(f.stack, Kept(f), KeyCopy(d, i))
      BY <1>1 DEF StackInv
    <2>4. \A i \in 1..(g.next - 1) :
            /\ i \in Texts(g) => Among(g.stack, Kept(g), Text(d, i))
            /\ i \in Copies(g) => Among(g.stack, Kept(g), KeyCopy(d, i))
      BY <1>5, <2>1, <2>2, <2>3
    <2> QED BY <1>5, <1>6, <2>1, <2>4 DEF StackInv
  <1> QED BY <1>5, <1>8, <1>9, <1>10, <1>11 DEF g, FrameInv

-----------------------------------------------------------------------------

(***************************************************************************)
(* The innermost call.                                                     *)
(***************************************************************************)
LEMMA TopCall ==
  ASSUME LuaCallInv, calling # <<>>
  PROVE  /\ Depth \in Nat /\ Depth >= 1 /\ DOMAIN calling = 1..Depth
         /\ Depth \in DOMAIN calling /\ Top \in Frames /\ Top.obj \in Callers
         /\ scratch[Top.obj] \in Arrays
         /\ FrameInv(Depth, Top, scratch[Top.obj])
  <1>1. calling \in Seq(Frames) /\ scratch \in [Callers -> Arrays]
    BY DEF LuaCallInv, CallTypeOK
  <1>2. Depth \in Nat /\ Depth >= 1 /\ DOMAIN calling = 1..Depth /\ Depth \in DOMAIN calling
    BY <1>1 DEF Depth
  <1>3. Top \in Frames
    BY <1>1, <1>2 DEF Top
  <1>4. Top.obj \in Callers
    BY <1>3 DEF Frames
  <1> QED BY <1>1, <1>2, <1>3, <1>4 DEF LuaCallInv, Top

(***************************************************************************)
(* A step of the innermost call changes its frame and the array of its     *)
(* object, which no other call in progress uses.                           *)
(***************************************************************************)
LEMMA TopStep ==
  ASSUME LuaCallInv, calling # <<>>, NEW g \in Frames, NEW u \in Arrays,
         g.obj = Top.obj, FrameInv(Depth, g, u),
         calling' = [calling EXCEPT ![Depth] = g],
         scratch' = [scratch EXCEPT ![Top.obj] = u]
  PROVE  LuaCallInv'
  <1>1. /\ Depth \in Nat /\ Depth >= 1 /\ DOMAIN calling = 1..Depth
        /\ Depth \in DOMAIN calling /\ Top.obj \in Callers
    BY TopCall
  <1>2. calling \in Seq(Frames) /\ scratch \in [Callers -> Arrays]
    BY DEF LuaCallInv, CallTypeOK
  <1>3. /\ calling' \in Seq(Frames) /\ Depth' = Depth /\ DOMAIN calling' = DOMAIN calling
        /\ calling'[Depth] = g
        /\ \A d \in DOMAIN calling : d # Depth => calling'[d] = calling[d]
    BY <1>1, <1>2 DEF Depth
  <1>4. /\ scratch' \in [Callers -> Arrays] /\ scratch'[Top.obj] = u
        /\ \A o \in Callers : o # Top.obj => scratch'[o] = scratch[o]
    BY <1>1, <1>2
  <1>5. \A d \in DOMAIN calling : calling'[d].obj = calling[d].obj /\ calling[d].obj \in Callers
    <2> TAKE d \in DOMAIN calling
    <2>0. calling[d] \in Frames
      BY <1>2
    <2>1. calling[d].obj \in Callers
      BY <2>0 DEF Frames
    <2> QED BY <1>3, <2>1 DEF Top
  <1>6. CallTypeOK'
    BY <1>3, <1>4 DEF CallTypeOK
  <1>7. NestingInv'
    <2>1. \A d \in DOMAIN calling : d < Depth => calling[d].at = "tostring"
      BY DEF LuaCallInv, NestingInv
    <2>2. \A d, e \in DOMAIN calling : d # e => calling[d].obj # calling[e].obj
      BY DEF LuaCallInv, NestingInv
    <2>3. \A d \in DOMAIN calling' : d < Depth' => calling'[d].at = "tostring"
      BY <1>1, <1>3, <2>1
    <2>4. \A d, e \in DOMAIN calling' : d # e => calling'[d].obj # calling'[e].obj
      BY <1>3, <1>5, <2>2
    <2> QED BY <2>3, <2>4 DEF NestingInv
  <1>8. \A d \in DOMAIN calling' : FrameInv(d, calling'[d], scratch'[calling'[d].obj])
    <2> TAKE d \in DOMAIN calling'
    <2>1. CASE d = Depth
      BY <1>3, <1>4, <2>1
    <2>2. CASE d # Depth
      <3>1. calling'[d] = calling[d] /\ calling[d].obj # Top.obj /\ d \in DOMAIN calling
        BY <1>1, <1>3, <2>2 DEF LuaCallInv, NestingInv, Top
      <3>2. scratch'[calling[d].obj] = scratch[calling[d].obj]
        BY <1>4, <1>5, <3>1
      <3>3. FrameInv(d, calling[d], scratch[calling[d].obj])
        BY <3>1 DEF LuaCallInv
      <3> QED BY <3>1, <3>2, <3>3
    <2> QED BY <2>1, <2>2
  <1> QED BY <1>6, <1>7, <1>8 DEF LuaCallInv

(***************************************************************************)
(* A call begins, with an object that no call in progress uses.            *)
(***************************************************************************)
LEMMA StartStep ==
  ASSUME LuaCallInv, NEW o \in Callers, NEW c \in Calls \cup InnerCalls,
         \A d \in DOMAIN calling : calling[d].obj # o,
         calling = <<>> \/ Top.at = "tostring",
         calling' = Append(calling, NewCall(o, c)), UNCHANGED scratch
  PROVE  LuaCallInv'
  <1> DEFINE g == NewCall(o, c)
             n == Len(calling)
  <1>1. calling \in Seq(Frames) /\ scratch \in [Callers -> Arrays]
    BY DEF LuaCallInv, CallTypeOK
  <1>2. n \in Nat /\ DOMAIN calling = 1..n /\ Depth = n
    BY <1>1 DEF Depth
  <1>3. scratch[o] \in Arrays
    BY <1>1
  <1>4. g \in Frames /\ g.obj = o /\ g.at = "entry" /\ FrameInv(n + 1, g, scratch[o])
    <2>1. n + 1 \in Nat
      BY <1>2
    <2> QED BY <1>3, <2>1, NewFrame
  <1> HIDE DEF g
  <1>5. /\ calling' \in Seq(Frames) /\ Len(calling') = n + 1 /\ DOMAIN calling' = 1..(n + 1)
        /\ calling'[n + 1] = g
        /\ \A d \in 1..n : calling'[d] = calling[d]
    BY <1>1, <1>4 DEF g
  <1> HIDE DEF n
  <1>6. \A d \in 1..(n + 1) : d = n + 1 \/ (d \in 1..n /\ d # n + 1)
    BY <1>2
  <1>7. CallTypeOK'
    BY <1>1, <1>5 DEF CallTypeOK
  <1>8. NestingInv'
    <2>1. \A d \in DOMAIN calling' : d < Depth' => calling'[d].at = "tostring"
      <3> SUFFICES ASSUME NEW d \in 1..(n + 1), d < n + 1
                   PROVE  calling'[d].at = "tostring"
        BY <1>5 DEF Depth
      <3>1. d \in 1..n
        BY <1>2
      <3>2. CASE d = n
        <4>1. calling # <<>>
          BY <1>2, <3>1
        <4> QED BY <1>2, <1>5, <3>1, <3>2, <4>1 DEF Top
      <3>3. CASE d # n
        <4>1. d < Depth
          BY <1>2, <3>1, <3>3
        <4> QED BY <1>2, <1>5, <3>1, <4>1 DEF LuaCallInv, NestingInv
      <3> QED BY <3>2, <3>3
    <2>2. \A d, e \in DOMAIN calling' : d # e => calling'[d].obj # calling'[e].obj
      <3>1. \A d, e \in 1..n : d # e => calling[d].obj # calling[e].obj
        BY <1>2 DEF LuaCallInv, NestingInv
      <3>2. \A d \in 1..n : calling'[d].obj = calling[d].obj /\ calling[d].obj # o
        BY <1>2, <1>5
      <3> QED BY <1>4, <1>5, <1>6, <3>1, <3>2
    <2> QED BY <2>1, <2>2 DEF NestingInv
  <1>9. \A d \in DOMAIN calling' : FrameInv(d, calling'[d], scratch'[calling'[d].obj])
    <2>1. \A d \in 1..n : FrameInv(d, calling[d], scratch[calling[d].obj])
      BY <1>2 DEF LuaCallInv
    <2> QED BY <1>4, <1>5, <1>6, <2>1
  <1> QED BY <1>7, <1>8, <1>9 DEF LuaCallInv

(***************************************************************************)
(* Calls end, by an error or a return. The arrays of the calls that go on  *)
(* are as they were.                                                       *)
(***************************************************************************)
LEMMA UnwindStep ==
  ASSUME LuaCallInv, calling # <<>>, NEW d \in 0..Depth - 1, NEW u \in Arrays, NEW arrays,
         arrays = scratch \/ arrays = [scratch EXCEPT ![Top.obj] = u],
         Unwind(d, arrays)
  PROVE  LuaCallInv'
  <1>1. /\ Depth \in Nat /\ Depth >= 1 /\ DOMAIN calling = 1..Depth
        /\ Depth \in DOMAIN calling /\ Top.obj \in Callers
    BY TopCall
  <1>2. calling \in Seq(Frames) /\ scratch \in [Callers -> Arrays]
    BY DEF LuaCallInv, CallTypeOK
  <1>3. /\ arrays \in [Callers -> Arrays]
        /\ \A o \in Callers : o # Top.obj => arrays[o] = scratch[o]
    BY <1>1, <1>2
  <1>4. d \in Nat /\ d < Depth
    BY <1>1
  <1>5. /\ calling' \in Seq(Frames) /\ Len(calling') = d /\ DOMAIN calling' = 1..d
        /\ \A e \in 1..d : calling'[e] = calling[e]
    <2>1. calling' = SubSeq(calling, 1, d)
      BY DEF Unwind
    <2>2. \A e \in 1..d : e \in 1..Depth /\ calling[e] \in Frames
      BY <1>1, <1>2, <1>4
    <2>3. SubSeq(calling, 1, d) = [e \in 1..d |-> calling[e]]
      BY <1>4
    <2>4. calling' \in [1..d -> Frames]
      BY <2>1, <2>2, <2>3
    <2>5. \A e \in 1..d : calling'[e] = calling[e]
      BY <2>1, <2>3
    <2> QED BY <1>4, <2>4, <2>5
  <1>6. scratch' \in [Callers -> Arrays]
    <2>1. CASE d > 0
      BY <1>3, <2>1 DEF Unwind
    <2>2. CASE ~(d > 0)
      <3> DEFINE new(o) == [fields |-> [i \in DOMAIN arrays[o].fields |-> Unset],
                            moves |-> IF arrays[o].moves = 0 THEN 0 ELSE 1]
      <3>1. scratch' = [o \in Callers |-> new(o)]
        BY <2>2 DEF Unwind
      <3>2. ASSUME NEW o \in Callers
            PROVE  new(o) \in Arrays
        <4> DEFINE a == arrays[o].fields
                   m == arrays[o].moves
                   b == [i \in DOMAIN a |-> Unset]
                   P == Strings \X Strings
        <4>1. a \in Seq(P) /\ m \in Nat /\ (Len(a) > 0 => m > 0)
          BY <1>3 DEF Arrays
        <4>2. Unset \in P
          BY DEF Unset, NIL, Strings
        <4> HIDE DEF a, m, P
        <4>3. b \in Seq(P) /\ Len(b) = Len(a)
          BY <4>1, <4>2
        <4> HIDE DEF b
        <4>4. [fields |-> b, moves |-> IF m = 0 THEN 0 ELSE 1] \in Arrays
          BY <4>1, <4>3 DEF Arrays, P
        <4> QED BY <4>4 DEF a, m, b
      <3> HIDE DEF new
      <3> QED BY <3>1, <3>2
    <2> QED BY <2>1, <2>2
  <1>7. CallTypeOK'
    BY <1>5, <1>6 DEF CallTypeOK
  <1>8. NestingInv'
    <2>1. \A e \in 1..d : e \in DOMAIN calling /\ e < Depth
      BY <1>1, <1>4
    <2> QED BY <1>5, <2>1 DEF LuaCallInv, NestingInv, Depth
  <1>9. \A e \in DOMAIN calling' : FrameInv(e, calling'[e], scratch'[calling'[e].obj])
    <2> TAKE e \in DOMAIN calling'
    <2>1. e \in DOMAIN calling /\ e # Depth /\ d > 0 /\ calling'[e] = calling[e]
      BY <1>1, <1>4, <1>5
    <2>2. calling[e].obj # Top.obj
      BY <1>1, <2>1 DEF LuaCallInv, NestingInv, Top
    <2>a. calling[e] \in Frames
      BY <1>2, <2>1
    <2>3. calling[e].obj \in Callers
      BY <2>a DEF Frames
    <2>4. scratch'[calling[e].obj] = scratch[calling[e].obj]
      BY <1>3, <2>1, <2>2, <2>3 DEF Unwind
    <2>5. FrameInv(e, calling[e], scratch[calling[e].obj])
      BY <2>1 DEF LuaCallInv
    <2> QED BY <2>1, <2>4, <2>5
  <1> QED BY <1>7, <1>8, <1>9 DEF LuaCallInv

(***************************************************************************)
(* The next entry of the innermost call.                                   *)
(***************************************************************************)
LEMMA NextEntryStep ==
  ASSUME LuaCallInv, NextEntry
  PROVE  LuaCallInv'
  <1> DEFINE f == Top
             s == scratch[f.obj]
             r == NextArray(f, s)
             g == WithNext(Depth, f, r)
             u == IF f.call.entries[f.next].value = "object" THEN r
                  ELSE Store(r, g.array, f.next, Field(Depth, f, f.next))
  <1>1. calling # <<>>
    BY DEF NextEntry
  <1>2. f \in Frames /\ s \in Arrays /\ Depth \in Nat /\ FrameInv(Depth, f, s)
    BY <1>1, TopCall
  <1>3. /\ f.at = "entry" /\ f.next <= Len(f.call.entries) /\ f.call.form # "odd"
        /\ f.call.entries[f.next].key # "bad"
        /\ calling' = [calling EXCEPT ![Depth] = g]
        /\ scratch' = [scratch EXCEPT ![f.obj] = u]
    BY DEF NextEntry, More, Entry
  <1>4. g \in Frames /\ g.obj = f.obj /\ u \in Arrays /\ FrameInv(Depth, g, u)
    <2> HIDE DEF f, s
    <2> QED BY <1>2, <1>3, NextFrame
  <1> HIDE DEF g, u
  <1> QED BY <1>1, <1>3, <1>4, TopStep

(***************************************************************************)
(* tostring returns to the innermost call.                                 *)
(***************************************************************************)
LEMMA ConvertedStep ==
  ASSUME LuaCallInv, Converted
  PROVE  LuaCallInv'
  <1> DEFINE f == Top
             s == scratch[f.obj]
             g == WithText(Depth, f)
             u == Store(s, f.array, f.next, Field(Depth, f, f.next))
  <1>1. calling # <<>>
    BY DEF Converted
  <1>2. f \in Frames /\ s \in Arrays /\ Depth \in Nat /\ FrameInv(Depth, f, s)
        /\ f.obj \in Callers
    BY <1>1, TopCall
  <1>3. /\ f.at = "tostring"
        /\ calling' = [calling EXCEPT ![Depth] = g]
        /\ scratch' = [scratch EXCEPT ![f.obj] = u]
    BY <1>2 DEF Converted, LuaCallInv, CallTypeOK
  <1>4. g \in Frames /\ g.obj = f.obj /\ u \in Arrays /\ FrameInv(Depth, g, u)
    <2> HIDE DEF f, s
    <2> QED BY <1>2, <1>3, TextFrame
  <1> HIDE DEF g, u
  <1> QED BY <1>1, <1>3, <1>4, TopStep

(***************************************************************************)
(* The fields of the innermost call are read.                              *)
(***************************************************************************)
LEMMA EmitStep ==
  ASSUME LuaCallInv, Emit
  PROVE  LuaCallInv'
  <1> DEFINE f == Top
             s == scratch[f.obj]
             g == WithLine(f, s)
  <1>1. calling # <<>>
    BY DEF Emit
  <1>2. f \in Frames /\ s \in Arrays /\ Depth \in Nat /\ FrameInv(Depth, f, s)
        /\ f.obj \in Callers
    BY <1>1, TopCall
  <1>3. /\ f.at = "entry" /\ f.next > Len(f.call.entries) /\ f.call.form # "odd"
        /\ calling' = [calling EXCEPT ![Depth] = g] /\ scratch' = scratch
    BY DEF Emit
  <1>4. g \in Frames /\ g.obj = f.obj /\ FrameInv(Depth, g, s)
    <2> HIDE DEF f, s
    <2> QED BY <1>2, <1>3, LineFrame
  <1>5. scratch' = [scratch EXCEPT ![f.obj] = s]
    BY <1>2, <1>3 DEF LuaCallInv, CallTypeOK
  <1> HIDE DEF g, s
  <1> QED BY <1>1, <1>2, <1>3, <1>4, <1>5, TopStep

(***************************************************************************)
(* Calls are left.                                                         *)
(***************************************************************************)
LEMMA LeaveStep ==
  ASSUME LuaCallInv, RaiseError \/ Return
  PROVE  LuaCallInv'
  <1>1. calling # <<>>
    BY DEF RaiseError, Return
  <1>2. /\ Top \in Frames /\ scratch[Top.obj] \in Arrays /\ Depth \in Nat /\ Depth >= 1
        /\ FrameInv(Depth, Top, scratch[Top.obj])
    BY <1>1, TopCall
  <1>3. CASE Return
    <2>1. Depth - 1 \in 0..Depth - 1 /\ Unwind(Depth - 1, scratch)
      BY <1>2, <1>3 DEF Return
    <2> QED BY <1>1, <1>2, <2>1, UnwindStep
  <1>4. CASE RaiseError
    <2>1. PICK d \in 0..Depth - 1 :
            \/ Unwind(d, scratch)
            \/ More /\ Top.call.form # "odd" /\ Unwind(d, Reserved)
      BY <1>4 DEF RaiseError
    <2>2. CASE Unwind(d, scratch)
      BY <1>1, <1>2, <2>2, UnwindStep
    <2>3. CASE More /\ Top.call.form # "odd" /\ Unwind(d, Reserved)
      <3> DEFINE u == NextArray(Top, scratch[Top.obj])
      <3>1. PlaceInv(Top) /\ ArrayInv(Depth, Top, scratch[Top.obj])
        BY <1>2 DEF FrameInv
      <3>2. u \in Arrays
        BY <1>2, <2>3, <3>1, NextArrayGives DEF More
      <3>3. Reserved = scratch \/ Reserved = [scratch EXCEPT ![Top.obj] = u]
        BY DEF Reserved
      <3> HIDE DEF u
      <3> QED BY <1>1, <2>3, <3>2, <3>3, UnwindStep
    <2> QED BY <2>1, <2>2, <2>3
  <1> QED BY <1>3, <1>4

(***************************************************************************)
(* The invariant of the calls, for metamethods that do not log through the *)
(* object whose fields are being collected.                                *)
(***************************************************************************)
LEMMA LuaCallInvariant ==
  ASSUME ~Reentrant
  PROVE  CallSpec => []LuaCallInv
  <1>1. CallInit => LuaCallInv
    <2> SUFFICES ASSUME CallInit PROVE LuaCallInv
      OBVIOUS
    <2>1. calling = <<>> /\ DOMAIN calling = {} /\ calling \in Seq(Frames)
      BY DEF CallInit
    <2>2. [fields |-> <<>>, moves |-> 0] \in Arrays
      BY DEF Arrays
    <2>3. scratch \in [Callers -> Arrays]
      BY <2>2 DEF CallInit
    <2> QED BY <2>1, <2>3 DEF LuaCallInv, CallTypeOK, NestingInv
  <1>2. LuaCallInv /\ [CallNext]_callVars => LuaCallInv'
    <2> SUFFICES ASSUME LuaCallInv, [CallNext]_callVars PROVE LuaCallInv'
      OBVIOUS
    <2>1. ASSUME NEW o \in Callers, NEW c \in Calls, Start(o, c)
          PROVE  LuaCallInv'
      <3>1. /\ calling = <<>> /\ c \in Calls \cup InnerCalls /\ UNCHANGED scratch
            /\ calling' = Append(calling, NewCall(o, c))
        BY <2>1 DEF Start
      <3>2. \A d \in DOMAIN calling : calling[d].obj # o
        BY <3>1
      <3> QED BY <3>1, <3>2, StartStep
    <2>2. ASSUME NEW o \in Callers, NEW c \in InnerCalls, StartInner(o, c)
          PROVE  LuaCallInv'
      <3>1. /\ Top.at = "tostring" /\ c \in Calls \cup InnerCalls /\ UNCHANGED scratch
            /\ calling' = Append(calling, NewCall(o, c))
            /\ \A d \in DOMAIN calling : calling[d].obj # o
        BY <2>2 DEF StartInner
      <3> QED BY <3>1, StartStep
    <2>3. CASE RaiseError \/ Return
      BY <2>3, LeaveStep
    <2>4. CASE NextEntry
      BY <2>4, NextEntryStep
    <2>5. CASE Converted
      BY <2>5, ConvertedStep
    <2>6. CASE Emit
      BY <2>6, EmitStep
    <2>7. CASE UNCHANGED callVars
      BY <2>7 DEF callVars, LuaCallInv, CallTypeOK, NestingInv, Depth
    <2> QED BY <2>1, <2>2, <2>3, <2>4, <2>5, <2>6, <2>7 DEF CallNext
  <1> QED BY <1>1, <1>2, PTL DEF CallSpec

(***************************************************************************)
(* What the invariant says of a call in progress.                          *)
(***************************************************************************)
LEMMA FrameKeeps ==
  ASSUME NEW f \in Frames, NEW s \in Arrays, NEW d \in Nat, FrameInv(d, f, s)
  PROVE  /\ \A i \in 1..(f.next - 1) :
              /\ i \in Texts(f) => Among(f.stack, Len(f.stack), Text(d, i))
              /\ i \in Copies(f) => Among(f.stack, Len(f.stack), KeyCopy(d, i))
         /\ f.call.form = "table" /\ f.at = "entry" =>
              /\ f.stack # <<>>
              /\ f.stack[Len(f.stack)] = IF f.next = 1 THEN NIL ELSE Key(d, f.next - 1)
         /\ Len(f.stack) + (IF f.at = "tostring" THEN 1 ELSE 0)
              <= Cardinality(Texts(f)) + Cardinality(Copies(f)) + 2
  <1> DEFINE k == Kept(f)
             tt == Cardinality(Texts(f))
             cc == Cardinality(Copies(f))
  <1>1. PlaceInv(f) /\ StackInv(d, f)
    BY DEF FrameInv
  <1>2. /\ k \in Nat /\ tt \in Nat /\ cc \in Nat /\ k <= tt + cc
        /\ f.next \in Texts(f) /\ f.next \notin Copies(f) => k + 1 <= tt + cc
        /\ f.next \in Texts(f) /\ f.next \in Copies(f) => k + 2 <= tt + cc
    BY KeptGrows
  <1>3. f.at \in {"entry", "tostring", "emitted"} /\ f.stack \in Seq(Strings)
        /\ f.next \in Nat /\ f.next >= 1
    BY DEF Frames
  <1>4. f.at = "tostring" => f.next \in Texts(f)
    BY <1>1, <1>3, CallOf DEF PlaceInv, Texts
  <1>5. /\ f.call.form # "table" \/ f.at = "emitted" => Len(f.stack) = k
        /\ f.call.form = "table" /\ f.at = "entry" =>
             /\ Len(f.stack) = k + 1
             /\ f.stack[k + 1] = IF f.next = 1 THEN NIL ELSE Key(d, f.next - 1)
        /\ f.call.form = "table" /\ f.at = "tostring" =>
             Len(f.stack) = (IF f.next \in Copies(f) THEN k + 3 ELSE k + 2)
        /\ \A i \in 1..(f.next - 1) :
             /\ i \in Texts(f) => Among(f.stack, k, Text(d, i))
             /\ i \in Copies(f) => Among(f.stack, k, KeyCopy(d, i))
    BY <1>1 DEF StackInv
  <1> HIDE DEF k, tt, cc
  <1>6. Len(f.stack) >= k
    BY <1>2, <1>3, <1>5
  <1>7. \A v : Among(f.stack, k, v) => Among(f.stack, Len(f.stack), v)
    <2>1. \A j \in 1..k : j \in 1..Len(f.stack)
      BY <1>2, <1>3, <1>6
    <2> QED BY <2>1, Zenon DEF Among
  <1>8. ASSUME NEW i \in 1..(f.next - 1)
        PROVE  /\ i \in Texts(f) => Among(f.stack, Len(f.stack), Text(d, i))
               /\ i \in Copies(f) => Among(f.stack, Len(f.stack), KeyCopy(d, i))
    <2>1. /\ i \in Texts(f) => Among(f.stack, k, Text(d, i))
          /\ i \in Copies(f) => Among(f.stack, k, KeyCopy(d, i))
      BY <1>5
    <2> QED BY <1>7, <2>1, Zenon
  <1>9. f.call.form = "table" /\ f.at = "entry" =>
          /\ f.stack # <<>>
          /\ f.stack[Len(f.stack)] = IF f.next = 1 THEN NIL ELSE Key(d, f.next - 1)
    BY <1>2, <1>3, <1>5
  <1>10. Len(f.stack) + (IF f.at = "tostring" THEN 1 ELSE 0) <= tt + cc + 2
    <2>1. CASE f.at # "tostring"
      <3>1. Len(f.stack) = k \/ Len(f.stack) = k + 1
        BY <1>3, <1>5, <2>1
      <3> QED BY <1>2, <2>1, <3>1
    <2>2. CASE f.at = "tostring" /\ f.call.form # "table"
      <3>1. Len(f.stack) = k
        BY <1>5, <2>2
      <3> QED BY <1>2, <2>2, <3>1
    <2>3. CASE f.at = "tostring" /\ f.call.form = "table" /\ f.next \in Copies(f)
      <3>1. Len(f.stack) = k + 3 /\ k + 2 <= tt + cc
        BY <1>2, <1>4, <1>5, <2>3
      <3> QED BY <1>2, <2>3, <3>1
    <2>4. CASE f.at = "tostring" /\ f.call.form = "table" /\ f.next \notin Copies(f)
      <3>1. Len(f.stack) = k + 2 /\ k + 1 <= tt + cc
        BY <1>2, <1>4, <1>5, <2>4
      <3> QED BY <1>2, <2>4, <3>1
    <2> QED BY <2>1, <2>2, <2>3, <2>4
  <1> QED BY <1>8, <1>9, <1>10 DEF tt, cc

(***************************************************************************)
(* Calls from Lua keep their fields: the strings on the stack, the array   *)
(* in bounds and its own, the line with the fields of the call. Assumed    *)
(* that a tostring metamethod does not log through the object whose fields *)
(* are being collected.                                                    *)
(***************************************************************************)
THEOREM CallsKeepTheirFields ==
  ASSUME ~Reentrant
  PROVE  CallSpec => []CallsKeepFields
  <1>1. LuaCallInv => CallsKeepFields
    <2> SUFFICES ASSUME LuaCallInv PROVE CallsKeepFields
      OBVIOUS
    <2>1. \A d \in DOMAIN calling :
            /\ d \in Nat /\ calling[d] \in Frames /\ scratch[calling[d].obj] \in Arrays
            /\ FrameInv(d, calling[d], scratch[calling[d].obj])
      <3> TAKE d \in DOMAIN calling
      <3>1. calling \in Seq(Frames) /\ scratch \in [Callers -> Arrays]
        BY DEF LuaCallInv, CallTypeOK
      <3>2. d \in Nat /\ calling[d] \in Frames
        BY <3>1
      <3>3. calling[d].obj \in Callers
        BY <3>2 DEF Frames
      <3> QED BY <3>1, <3>2, <3>3 DEF LuaCallInv
    <2>2. Anchored /\ StackNeed
      BY <2>1, FrameKeeps DEF Anchored, StackNeed
    <2>3. ScratchInBounds
      <3> SUFFICES ASSUME NEW d \in DOMAIN calling, calling[d].array # 0
                   PROVE  LET f == calling[d]
                              s == scratch[f.obj]
                          IN /\ f.array = s.moves
                             /\ Len(s.fields) >= (IF f.at = "tostring" THEN f.next ELSE f.next - 1)
        BY DEF ScratchInBounds
      <3> DEFINE f == calling[d]
                 s == scratch[f.obj]
      <3>1. /\ f \in Frames /\ s \in Arrays /\ d \in Nat /\ PlaceInv(f) /\ ArrayInv(d, f, s)
        BY <2>1 DEF FrameInv
      <3>2. f.array = s.moves
        BY <3>1 DEF ArrayInv
      <3> HIDE DEF f, s
      <3>3. f.next - 1 <= Len(s.fields) /\ (f.at = "tostring" => f.next <= Len(s.fields))
        BY <3>1, Collected
      <3>4. f.next \in Nat /\ Len(s.fields) \in Nat
        BY <3>1 DEF Frames, Arrays
      <3>5. Len(s.fields) >= (IF f.at = "tostring" THEN f.next ELSE f.next - 1)
        BY <3>3, <3>4
      <3> QED BY <3>2, <3>5 DEF f, s
    <2>4. FieldsOfOwnCall
      BY <2>1 DEF FieldsOfOwnCall, FrameInv, ArrayInv
    <2> QED BY <2>2, <2>3, <2>4 DEF CallsKeepFields
  <1>2. CallSpec => []LuaCallInv
    BY LuaCallInvariant
  <1> QED BY <1>1, <1>2, PTL

-----------------------------------------------------------------------------
(* The options of a logger.                                                *)

Kinds == {"none", "new", "new_json", "from_env", "raised"}

ConfigFields == {"mode", "color", "timestamps", "utc", "with_level_field", "verbose_fields",
                 "time_format", "line_buffer_capacity", "min_level", "palette", "policy",
                 "output"}

\* The table is the caller's but for what the constructor and its argument set; a
\* constructor in progress and a logger in use have not been lost.
TableInv ==
  /\ written \in Tables /\ opts = written
  /\ config = [f \in ConfigFields |-> config[f]]
  /\ at \in 0..15 /\ kind \in Kinds /\ logger \in {"none", "open", "closed"}
  /\ calls \in Nat /\ \A n \in lost : n \in Nat /\ n <= calls
  /\ at # 0 \/ logger # "none" => calls \notin lost
  /\ at # 0 =>
       /\ logger = "none" /\ kind \in {"new", "new_json", "from_env"}
       /\ table["mode"] = IF kind = "new_json" THEN "json" ELSE written["mode"]
       /\ table["output"] = IF arg # "nil" THEN arg ELSE written["output"]
       /\ \A o \in Names \ {"mode", "output"} : table[o] = written[o]

\* The colour after the options before k have been read.
ColorBefore(k) ==
  IF k > 4 /\ Given("force_color") THEN "ALWAYS"
  ELSE IF k > 3 /\ Given("no_color") THEN "NEVER"
  ELSE IF k <= 2 \/ written["color"] = "nil" THEN "AUTO"
  ELSE ColorMode(written["color"])

\* The options behind the colours have a field each, here that of option i.
FieldOf(i) ==
  CASE i = 5 -> "timestamps" [] i = 6 -> "utc" [] i = 7 -> "with_level_field"
    [] i = 8 -> "verbose_fields" [] i = 9 -> "time_format" [] i = 10 -> "line_buffer_capacity"
    [] i = 11 -> "min_level" [] i = 12 -> "palette" [] i = 13 -> "policy"

\* What the field takes from a value.
Taken(i, v) ==
  CASE i = 5 -> ~Truthy(v)
    [] i \in 6..8 -> Truthy(v)
    [] i \in 9..10 -> IF v = "bad" THEN "error" ELSE v
    [] i = 11 -> LevelArg(v)
    [] i = 12 -> Palette(v)
    [] i = 13 -> Policy(v)

\* The field of option i after the options before k have been read.
FieldBefore(k, i) ==
  IF k > i /\ written[Options[i]] # "nil" THEN Taken(i, written[Options[i]])
  ELSE DefaultConfig[FieldOf(i)]

\* The configuration is the default but for the options read so far.
ReadInv ==
  at # 0 =>
    /\ ~Refused(config)
    /\ config.mode = IF at = 1 \/ table["mode"] = "nil" THEN "CONSOLE" ELSE Mode(table["mode"])
    /\ config.color = ColorBefore(at)
    /\ \A i \in 5..13 : config[FieldOf(i)] = FieldBefore(at, i)
    /\ config.output = IF at = 15 /\ table["output"] \notin {"nil", "default"}
                       THEN table["output"] ELSE "stdout"
    /\ Known = IF at = 15 THEN {h \in {Own} : config.output \in {"path", "function"}} ELSE {}

LuaConfigInv == TableInv /\ ReadInv /\ TableObeyed /\ NothingHeld

(***************************************************************************)
(* The options in their order.                                             *)
(***************************************************************************)
LEMMA OptionAt ==
  /\ DOMAIN Options = 1..14 /\ Len(Options) = 14
  /\ Options[1] = "mode" /\ Options[2] = "color" /\ Options[3] = "no_color"
  /\ Options[4] = "force_color" /\ Options[5] = "disable_timestamp" /\ Options[6] = "utc"
  /\ Options[7] = "with_level_field" /\ Options[8] = "verbose_fields"
  /\ Options[9] = "time_format" /\ Options[10] = "line_buffer_capacity"
  /\ Options[11] = "min_level" /\ Options[12] = "palette"
  /\ Options[13] = "non_finite_float_policy" /\ Options[14] = "output"
  BY DEF Options

(***************************************************************************)
(* The options behind the colours, one after the other.                    *)
(***************************************************************************)
LEMMA SingleIndex ==
  ASSUME NEW i \in 5..13
  PROVE  i = 5 \/ i = 6 \/ i = 7 \/ i = 8 \/ i = 9 \/ i = 10 \/ i = 11 \/ i = 12 \/ i = 13
  OBVIOUS

(***************************************************************************)
(* The names of the options.                                               *)
(***************************************************************************)
LEMMA OptionNames ==
  /\ {"mode", "color", "no_color", "force_color", "output"} \subseteq Names
  /\ \A i \in 5..13 : Options[i] \in Names \ {"mode", "output"} /\ Options[i] # "output"
  <1>1. \A i \in 1..14 : Options[i] \in Names
    BY OptionAt DEF Names
  <1>2. ASSUME NEW i \in 5..13 PROVE Options[i] \notin {"mode", "output"}
    BY OptionAt, SingleIndex
  <1> QED BY <1>1, <1>2, OptionAt

(***************************************************************************)
(* Each field behind the colours is that of one option, and none of them   *)
(* is the mode, the colour or the output.                                  *)
(***************************************************************************)
LEMMA FieldsApart ==
  ASSUME NEW i \in 5..13
  PROVE  /\ FieldOf(i) \in ConfigFields \ {"mode", "color", "output"}
         /\ \A j \in 5..13 : FieldOf(j) = FieldOf(i) => j = i
  <1>1. /\ FieldOf(5) = "timestamps" /\ FieldOf(6) = "utc" /\ FieldOf(7) = "with_level_field"
        /\ FieldOf(8) = "verbose_fields" /\ FieldOf(9) = "time_format"
        /\ FieldOf(10) = "line_buffer_capacity" /\ FieldOf(11) = "min_level"
        /\ FieldOf(12) = "palette" /\ FieldOf(13) = "policy"
    BY DEF FieldOf
  <1>2. FieldOf(i) \in ConfigFields \ {"mode", "color", "output"}
    BY <1>1, SingleIndex DEF ConfigFields
  <1>3. ASSUME NEW j \in 5..13, FieldOf(j) = FieldOf(i) PROVE j = i
    BY <1>1, <1>3, SingleIndex
  <1> QED BY <1>2, <1>3

(***************************************************************************)
(* Setting a field leaves the others as they are.                          *)
(***************************************************************************)
LEMMA SetField ==
  ASSUME config = [f \in ConfigFields |-> config[f]], NEW n \in ConfigFields, NEW w
  PROVE  /\ Set(n, w) = [f \in ConfigFields |-> Set(n, w)[f]]
         /\ Set(n, w)[n] = w
         /\ \A f \in ConfigFields \ {n} : Set(n, w)[f] = config[f]
  BY DEF Set

(***************************************************************************)
(* What each of the options makes of the configuration.                    *)
(***************************************************************************)
LEMMA OptionParsed ==
  ASSUME NEW v
  PROVE  /\ Parsed("mode", v) = Set("mode", Mode(v))
         /\ Parsed("color", v) = Set("color", ColorMode(v))
         /\ Parsed("no_color", v) = IF Truthy(v) THEN Set("color", "NEVER") ELSE config
         /\ Parsed("force_color", v) = IF Truthy(v) THEN Set("color", "ALWAYS") ELSE config
         /\ \A i \in 5..13 : Parsed(Options[i], v) = Set(FieldOf(i), Taken(i, v))
  <1>1. /\ Parsed("mode", v) = Set("mode", Mode(v))
        /\ Parsed("color", v) = Set("color", ColorMode(v))
        /\ Parsed("no_color", v) = IF Truthy(v) THEN Set("color", "NEVER") ELSE config
        /\ Parsed("force_color", v) = IF Truthy(v) THEN Set("color", "ALWAYS") ELSE config
    BY DEF Parsed
  <1>2. ASSUME NEW i \in 5..13 PROVE Parsed(Options[i], v) = Set(FieldOf(i), Taken(i, v))
    <2>1. CASE i = 5
      <3>1. Taken(5, v) = ~Truthy(v) /\ FieldOf(5) = "timestamps"
        BY DEF Taken, FieldOf
      <3>2. Parsed("disable_timestamp", v) = Set("timestamps", ~Truthy(v))
        BY DEF Parsed
      <3> QED BY <2>1, <3>1, <3>2, OptionAt
    <2>2. CASE i \in 6..8
      <3>1. Taken(i, v) = Truthy(v)
        BY <2>2 DEF Taken
      <3>2. FieldOf(i) = Options[i] /\ Options[i] \in {"utc", "with_level_field", "verbose_fields"}
        BY <2>2, OptionAt, SingleIndex DEF FieldOf
      <3>3. Parsed(Options[i], v) = Set(Options[i], Truthy(v))
        BY <3>2 DEF Parsed
      <3> QED BY <3>1, <3>2, <3>3
    <2>3. CASE i \in 9..10
      <3>1. Taken(i, v) = IF v = "bad" THEN "error" ELSE v
        BY <2>3 DEF Taken
      <3>2. FieldOf(i) = Options[i] /\ Options[i] \in {"time_format", "line_buffer_capacity"}
        BY <2>3, OptionAt, SingleIndex DEF FieldOf
      <3>3. Parsed(Options[i], v) = Set(Options[i], IF v = "bad" THEN "error" ELSE v)
        BY <3>2 DEF Parsed
      <3> QED BY <3>1, <3>2, <3>3
    <2>4. CASE i = 11
      BY <2>4, OptionAt DEF Parsed, Taken, FieldOf
    <2>5. CASE i = 12
      BY <2>5, OptionAt DEF Parsed, Taken, FieldOf
    <2>6. CASE i = 13
      BY <2>6, OptionAt DEF Parsed, Taken, FieldOf
    <2> QED BY <2>1, <2>2, <2>3, <2>4, <2>5, <2>6
  <1> QED BY <1>1, <1>2

(***************************************************************************)
(* A constructor begins with a copy of the caller's table and a number     *)
(* nothing has been lost under.                                            *)
(***************************************************************************)
LEMMA ConstructStep ==
  ASSUME LuaConfigInv, NEW k \in {"new", "new_json", "from_env"}, NEW o \in Outputs,
         Construct(k, o)
  PROVE  LuaConfigInv'
  <1>1. /\ at = 0 /\ logger = "none" /\ kind' = k /\ arg' = o /\ at' = 1 /\ opts' = opts
        /\ calls' = calls + 1
        /\ table' = [opts EXCEPT !["output"] = IF o = "nil" THEN opts["output"] ELSE o,
                                 !["mode"] = IF k = "new_json" THEN "json" ELSE opts["mode"]]
        /\ config' = DefaultConfig
        /\ UNCHANGED <<written, held, handle, logger, lost>>
    BY DEF Construct, NormalizeOptions
  <1>2. written \in Tables /\ opts = written /\ opts = [n \in Names |-> opts[n]]
    BY LuaConfigAssumption DEF LuaConfigInv, TableInv
  <1>3. /\ table'["mode"] = IF k = "new_json" THEN "json" ELSE written["mode"]
        /\ table'["output"] = IF o # "nil" THEN o ELSE written["output"]
        /\ \A n \in Names \ {"mode", "output"} : table'[n] = written[n]
    BY <1>1, <1>2, OptionNames
  <1>4. /\ config' = [f \in ConfigFields |-> config'[f]] /\ config'.mode = "CONSOLE"
        /\ config'.color = "AUTO" /\ config'.output = "stdout" /\ ~Refused(config')
    BY <1>1 DEF DefaultConfig, ConfigFields, Refused
  <1>5. calls' \in Nat /\ calls' \notin lost' /\ \A n \in lost' : n \in Nat /\ n <= calls'
    BY <1>1 DEF LuaConfigInv, TableInv
  <1>6. TableInv'
    BY <1>1, <1>2, <1>3, <1>4, <1>5 DEF TableInv, Kinds
  <1>7. Known' = {}
    BY <1>1 DEF LuaConfigInv, NothingHeld, Known
  <1>8. ColorBefore(at)' = "AUTO"
    BY <1>1 DEF ColorBefore
  <1>9. \A i \in 5..13 : FieldBefore(at, i)' = config'[FieldOf(i)]
    BY <1>1 DEF FieldBefore
  <1>10. ReadInv'
    BY <1>1, <1>4, <1>7, <1>8, <1>9 DEF ReadInv
  <1> QED BY <1>1, <1>6, <1>10 DEF LuaConfigInv, TableObeyed, NothingHeld

(***************************************************************************)
(* An error within a constructor, with nothing open that is not lost.      *)
(***************************************************************************)
LEMMA RaiseStep ==
  ASSUME LuaConfigInv, at # 0, Raise, Known' = {}, lost' \subseteq lost \cup {calls},
         UNCHANGED <<written, opts, table, config, logger, calls>>
  PROVE  LuaConfigInv'
  <1>1. at' = 0 /\ kind' = "raised" /\ logger' = "none"
    BY DEF Raise, LuaConfigInv, TableInv
  <1>2. \A n \in lost' : n \in Nat /\ n <= calls'
    BY DEF LuaConfigInv, TableInv
  <1>3. TableInv'
    BY <1>1, <1>2 DEF LuaConfigInv, TableInv, Kinds
  <1> QED BY <1>1, <1>3 DEF LuaConfigInv, ReadInv, TableObeyed, NothingHeld

(***************************************************************************)
(* The colours come of three options.                                      *)
(***************************************************************************)
LEMMA ColorRead ==
  ASSUME LuaConfigInv, at \in 1..13, NEW d,
         config.color = ColorBefore(at) =>
           d = CASE at = 2 -> (IF table["color"] = "nil" THEN config.color
                               ELSE ColorMode(table["color"]))
                 [] at = 3 -> (IF table["no_color"] # "nil" /\ Truthy(table["no_color"])
                               THEN "NEVER" ELSE config.color)
                 [] at = 4 -> (IF table["force_color"] # "nil" /\ Truthy(table["force_color"])
                               THEN "ALWAYS" ELSE config.color)
                 [] OTHER -> config.color
  PROVE  d = ColorBefore(at + 1)
  <1>1. config.color = ColorBefore(at)
    BY DEF LuaConfigInv, ReadInv
  <1>2. /\ table["color"] = written["color"] /\ table["no_color"] = written["no_color"]
        /\ table["force_color"] = written["force_color"]
    BY OptionNames DEF LuaConfigInv, TableInv
  <1>3. CASE at = 1
    BY <1>1, <1>3 DEF ColorBefore
  <1>4. CASE at = 2
    BY <1>1, <1>2, <1>4 DEF ColorBefore
  <1>5. CASE at = 3
    BY <1>1, <1>2, <1>5 DEF ColorBefore, Given
  <1>6. CASE at = 4
    BY <1>1, <1>2, <1>6 DEF ColorBefore, Given
  <1>7. CASE at \in 5..13
    BY <1>1, <1>7 DEF ColorBefore
  <1> QED BY <1>3, <1>4, <1>5, <1>6, <1>7

(***************************************************************************)
(* The configuration behind the option that is read now.                   *)
(***************************************************************************)
LEMMA OptionRead ==
  ASSUME LuaConfigInv, at \in 1..13, NEW c,
         c = IF table[Options[at]] = "nil" THEN config
             ELSE Parsed(Options[at], table[Options[at]])
  PROVE  /\ c = [f \in ConfigFields |-> c[f]] /\ c.output = "stdout"
         /\ c.mode = IF table["mode"] = "nil" THEN "CONSOLE" ELSE Mode(table["mode"])
         /\ c.color = ColorBefore(at + 1)
         /\ \A i \in 5..13 : c[FieldOf(i)] = FieldBefore(at + 1, i)
  <1> DEFINE v == table[Options[at]]
  <1>1. /\ config = [f \in ConfigFields |-> config[f]] /\ config.output = "stdout"
        /\ config.mode = (IF at = 1 \/ table["mode"] = "nil" THEN "CONSOLE"
                          ELSE Mode(table["mode"]))
        /\ \A i \in 5..13 : config[FieldOf(i)] = FieldBefore(at, i)
        /\ \A n \in Names \ {"mode", "output"} : table[n] = written[n]
    BY DEF LuaConfigInv, TableInv, ReadInv
  <1>2. ASSUME NEW i \in 5..13, i # at PROVE FieldBefore(at + 1, i) = FieldBefore(at, i)
    <2>1. at + 1 > i <=> at > i
      BY <1>2
    <2> QED BY <2>1 DEF FieldBefore
  <1>3. /\ {"mode", "color", "output"} \subseteq ConfigFields
        /\ \A i \in 5..13 : FieldOf(i) \in ConfigFields \ {"mode", "color", "output"}
    BY FieldsApart DEF ConfigFields
  <1>4. CASE at = 1
    <2>1. c = IF table["mode"] = "nil" THEN config ELSE Set("mode", Mode(table["mode"]))
      BY <1>4, OptionAt, OptionParsed
    <2>2. /\ c = [f \in ConfigFields |-> c[f]]
          /\ c.mode = IF table["mode"] = "nil" THEN "CONSOLE" ELSE Mode(table["mode"])
          /\ \A f \in ConfigFields \ {"mode"} : c[f] = config[f]
      <3>1. CASE table["mode"] = "nil"
        BY <1>1, <1>4, <2>1, <3>1
      <3>2. CASE table["mode"] # "nil"
        BY <1>1, <1>3, <2>1, <3>2, SetField
      <3> QED BY <3>1, <3>2
    <2>3. c.color = ColorBefore(at + 1)
      BY <1>3, <1>4, <2>2, ColorRead
    <2> QED BY <1>1, <1>2, <1>3, <1>4, <2>2, <2>3
  <1>5. CASE at \in 2..4
    <2>1. \E w : c = config \/ c = Set("color", w)
      <3>1. CASE at = 2
        BY <3>1, OptionAt, OptionParsed
      <3>2. CASE at = 3
        BY <3>2, OptionAt, OptionParsed
      <3>3. CASE at = 4
        BY <3>3, OptionAt, OptionParsed
      <3> QED BY <1>5, <3>1, <3>2, <3>3
    <2>2. /\ c = [f \in ConfigFields |-> c[f]]
          /\ \A f \in ConfigFields \ {"color"} : c[f] = config[f]
      BY <1>1, <1>3, <2>1, SetField
    <2>3. c.color = CASE at = 2 -> (IF table["color"] = "nil" THEN config.color
                               ELSE ColorMode(table["color"]))
                 [] at = 3 -> (IF table["no_color"] # "nil" /\ Truthy(table["no_color"])
                               THEN "NEVER" ELSE config.color)
                 [] at = 4 -> (IF table["force_color"] # "nil" /\ Truthy(table["force_color"])
                               THEN "ALWAYS" ELSE config.color)
                 [] OTHER -> config.color
      <3>1. CASE at = 2
        <4>1. c = IF table["color"] = "nil" THEN config
                  ELSE Set("color", ColorMode(table["color"]))
          BY <3>1, OptionAt, OptionParsed
        <4> QED BY <1>1, <1>3, <3>1, <4>1, SetField
      <3>2. CASE at = 3
        <4>1. c = IF table["no_color"] # "nil" /\ Truthy(table["no_color"])
                  THEN Set("color", "NEVER") ELSE config
          BY <3>2, OptionAt, OptionParsed
        <4> QED BY <1>1, <1>3, <3>2, <4>1, SetField
      <3>3. CASE at = 4
        <4>1. c = IF table["force_color"] # "nil" /\ Truthy(table["force_color"])
                  THEN Set("color", "ALWAYS") ELSE config
          BY <3>3, OptionAt, OptionParsed
        <4> QED BY <1>1, <1>3, <3>3, <4>1, SetField
      <3> QED BY <1>5, <3>1, <3>2, <3>3
    <2>4. c.color = ColorBefore(at + 1)
      BY <2>3, ColorRead
    <2>5. \A i \in 5..13 : c[FieldOf(i)] = FieldBefore(at + 1, i)
      BY <1>1, <1>2, <1>3, <1>5, <2>2
    <2> QED BY <1>1, <1>3, <1>5, <2>2, <2>4, <2>5
  <1>6. CASE at \in 5..13
    <2>1. c = IF v = "nil" THEN config ELSE Set(FieldOf(at), Taken(at, v))
      BY <1>6, OptionParsed
    <2>2. v = written[Options[at]]
      BY <1>1, <1>6, OptionNames
    <2> HIDE DEF v
    <2>3. /\ c = [f \in ConfigFields |-> c[f]]
          /\ c[FieldOf(at)] = IF v = "nil" THEN config[FieldOf(at)] ELSE Taken(at, v)
          /\ \A f \in ConfigFields \ {FieldOf(at)} : c[f] = config[f]
      <3>1. CASE v = "nil"
        BY <1>1, <2>1, <3>1
      <3>2. CASE v # "nil"
        BY <1>1, <1>3, <1>6, <2>1, <3>2, SetField
      <3> QED BY <3>1, <3>2
    <2>4. c.mode = config.mode /\ c.output = config.output /\ c.color = config.color
      BY <1>3, <1>6, <2>3
    <2>5. c.color = ColorBefore(at + 1)
      BY <1>6, <2>4, ColorRead
    <2>6. ASSUME NEW i \in 5..13 PROVE c[FieldOf(i)] = FieldBefore(at + 1, i)
      <3>1. CASE i = at
        <4>1. config[FieldOf(at)] = DefaultConfig[FieldOf(at)]
          BY <1>1, <1>6 DEF FieldBefore
        <4>2. at + 1 > at
          BY <1>6
        <4> QED BY <2>2, <2>3, <3>1, <4>1, <4>2 DEF FieldBefore
      <3>2. CASE i # at
        <4>1. FieldOf(i) # FieldOf(at) /\ FieldOf(i) \in ConfigFields
          BY <1>6, <3>2, FieldsApart
        <4> QED BY <1>1, <1>2, <2>3, <3>2, <4>1
      <3> QED BY <3>1, <3>2
    <2> QED BY <1>1, <1>6, <2>3, <2>4, <2>5, <2>6
  <1> QED BY <1>4, <1>5, <1>6

(***************************************************************************)
(* One option. Whoever reads the table later finds the same one.           *)
(***************************************************************************)
LEMMA OptionStep ==
  ASSUME LuaConfigInv, Option
  PROVE  LuaConfigInv'
  <1> DEFINE c == IF table[Options[at]] = "nil" THEN config
                  ELSE Parsed(Options[at], table[Options[at]])
  <1>1. /\ at \in 1..13
        /\ UNCHANGED <<written, opts, arg, table, held, handle, logger, calls, lost>>
    <2>1. at \in 1..14 /\ Options[at] # "output"
      BY OptionAt DEF Option
    <2> QED BY <2>1, OptionAt DEF Option
  <1>2. Known' = {}
    BY <1>1 DEF LuaConfigInv, ReadInv, Known
  <1>3. CASE Raise /\ UNCHANGED config
    BY <1>1, <1>2, <1>3, RaiseStep
  <1>4. CASE ~Refused(c) /\ config' = c /\ at' = at + 1 /\ UNCHANGED kind
    <2>1. /\ c = [f \in ConfigFields |-> c[f]] /\ c.output = "stdout"
          /\ c.mode = IF table["mode"] = "nil" THEN "CONSOLE" ELSE Mode(table["mode"])
          /\ c.color = ColorBefore(at + 1)
          /\ \A i \in 5..13 : c[FieldOf(i)] = FieldBefore(at + 1, i)
      BY <1>1, OptionRead
    <2> HIDE DEF c
    <2>2. at' \in 2..14 /\ logger' = "none"
      BY <1>1, <1>4 DEF LuaConfigInv, TableInv
    <2>3. TableInv'
      BY <1>1, <1>4, <2>1, <2>2 DEF LuaConfigInv, TableInv, Kinds
    <2>4. ColorBefore(at)' = ColorBefore(at + 1)
      BY <1>1, <1>4 DEF ColorBefore, Given
    <2>5. \A i \in 5..13 : FieldBefore(at, i)' = FieldBefore(at + 1, i)
      BY <1>1, <1>4 DEF FieldBefore
    <2>6. ReadInv'
      BY <1>1, <1>2, <1>4, <2>1, <2>2, <2>4, <2>5 DEF ReadInv
    <2> QED BY <2>2, <2>3, <2>6 DEF LuaConfigInv, TableObeyed, NothingHeld
  <1> QED BY <1>3, <1>4 DEF Option

(***************************************************************************)
(* The output, the last option: what is opened for it is held, and lost if *)
(* it cannot be registered.                                                *)
(***************************************************************************)
LEMMA ParseOutputStep ==
  ASSUME LuaConfigInv, ParseOutput
  PROVE  LuaConfigInv'
  <1> DEFINE v == table["output"]
             out == IF v \in {"nil", "default"} THEN "stdout" ELSE v
  <1>1. /\ at = 14 /\ UNCHANGED <<written, opts, arg, table, handle, logger, calls>>
    <2>1. at \in 1..14 /\ Options[at] = "output"
      BY OptionAt DEF ParseOutput
    <2> QED BY <2>1, OptionAt, OptionNames DEF ParseOutput
  <1>2. /\ config = [f \in ConfigFields |-> config[f]] /\ ~Refused(config)
        /\ logger = "none" /\ kind \in {"new", "new_json", "from_env"} /\ written \in Tables
        /\ config.mode = (IF table["mode"] = "nil" THEN "CONSOLE" ELSE Mode(table["mode"]))
        /\ config.color = ColorBefore(14)
        /\ \A i \in 5..13 : config[FieldOf(i)] = FieldBefore(14, i)
        /\ Known = {} /\ calls \notin lost
    BY <1>1 DEF LuaConfigInv, TableInv, ReadInv
  <1>3. CASE Raise /\ UNCHANGED <<config, held, lost>>
    <2>1. Known' = {}
      BY <1>2, <1>3 DEF Known
    <2> QED BY <1>1, <1>3, <2>1, RaiseStep
  <1>4. CASE held' = held \cup {<<calls, v>>} /\ lost' = lost \cup {calls} /\ Raise
             /\ UNCHANGED config
    <2>1. Known' = {}
      BY <1>2, <1>4 DEF Known
    <2> QED BY <1>1, <1>4, <2>1, RaiseStep
  <1>5. CASE /\ config' = Set("output", out) /\ at' = at + 1
             /\ held' = held \cup {h \in {<<calls, out>>} : out \in {"path", "function"}}
             /\ UNCHANGED <<kind, lost>>
    <2> HIDE DEF out
    <2>1. /\ config' = [f \in ConfigFields |-> config'[f]] /\ config'["output"] = out
          /\ \A f \in ConfigFields \ {"output"} : config'[f] = config[f]
      <3>1. "output" \in ConfigFields
        BY DEF ConfigFields
      <3> QED BY <1>2, <1>5, <3>1, SetField
    <2>2. /\ config'.mode = config.mode /\ config'.color = config.color
          /\ \A i \in 5..13 : config'[FieldOf(i)] = config[FieldOf(i)]
      BY <2>1, FieldsApart DEF ConfigFields
    <2>3. ~Refused(config')
      <3>1. /\ config'.time_format = config.time_format
            /\ config'.line_buffer_capacity = config.line_buffer_capacity
            /\ config'.min_level = config.min_level /\ config'.palette = config.palette
            /\ config'.policy = config.policy
        BY <2>1 DEF ConfigFields
      <3> QED BY <1>2, <2>2, <3>1 DEF Refused
    <2>4. at' = 15
      BY <1>1, <1>5
    <2>5. TableInv'
      BY <1>1, <1>5, <2>1, <2>4 DEF LuaConfigInv, TableInv, Kinds
    <2>6. ColorBefore(at)' = ColorBefore(14)
      BY <1>1, <2>4 DEF ColorBefore, Given
    <2>7. \A i \in 5..13 : FieldBefore(at, i)' = FieldBefore(14, i)
      BY <1>1, <2>4 DEF FieldBefore
    <2>8. Known' = {h \in {Own'} : config'.output \in {"path", "function"}}
      <3>1. Own' = <<calls, out>>
        BY <1>1, <2>1 DEF Own
      <3>2. Known' = Known \cup {h \in {<<calls, out>>} : out \in {"path", "function"}}
        BY <1>2, <1>5 DEF Known
      <3> QED BY <1>2, <2>1, <3>1, <3>2
    <2>9. config'.output = IF v \notin {"nil", "default"} THEN v ELSE "stdout"
      BY <2>1 DEF out
    <2>10. ReadInv'
      BY <1>1, <1>2, <2>2, <2>3, <2>4, <2>6, <2>7, <2>8, <2>9 DEF ReadInv
    <2> QED BY <1>1, <1>2, <2>4, <2>5, <2>10 DEF LuaConfigInv, TableObeyed, NothingHeld
  <1>6. CASE /\ v \in {"nil", "stdout", "default", "stderr"} \/ (v = "file" /\ handle.state = "open")
             /\ config' = Set("output", IF v \in {"nil", "default"} THEN "stdout" ELSE v)
             /\ at' = at + 1
             /\ UNCHANGED <<kind, held, lost>>
    <2>1. out \notin {"path", "function"}
      BY <1>6
    <2> QED BY <1>5, <1>6, <2>1
  <1>7. CASE /\ v \in {"path", "function"}
             /\ config' = Set("output", v) /\ held' = held \cup {<<calls, v>>}
             /\ at' = at + 1
             /\ UNCHANGED <<kind, lost>>
    <2>1. out = v
      BY <1>7
    <2> QED BY <1>5, <1>7, <2>1
  <1> QED BY <1>3, <1>4, <1>6, <1>7 DEF ParseOutput

(***************************************************************************)
(* A switch is on if the caller has set it.                                *)
(***************************************************************************)
LEMMA SwitchRead ==
  ASSUME NEW i \in 5..8
  PROVE  /\ i = 5 => FieldBefore(15, i) = ~Given(Options[i])
         /\ i # 5 => FieldBefore(15, i) = Given(Options[i])
  <1> DEFINE v == written[Options[i]]
  <1>1. DefaultConfig[FieldOf(i)] = IF i = 5 THEN TRUE ELSE FALSE
    <2>1. /\ DefaultConfig["timestamps"] = TRUE /\ DefaultConfig["utc"] = FALSE
          /\ DefaultConfig["with_level_field"] = FALSE
          /\ DefaultConfig["verbose_fields"] = FALSE
      BY DEF DefaultConfig
    <2>2. i = 5 => FieldOf(i) = "timestamps"
      BY DEF FieldOf
    <2>3. i = 6 => FieldOf(i) = "utc"
      BY DEF FieldOf
    <2>4. i = 7 => FieldOf(i) = "with_level_field"
      BY DEF FieldOf
    <2>5. i = 8 => FieldOf(i) = "verbose_fields"
      BY DEF FieldOf
    <2>6. i = 5 \/ i = 6 \/ i = 7 \/ i = 8
      OBVIOUS
    <2>7. CASE i = 5
      BY <2>1, <2>2, <2>7, Zenon
    <2>8. CASE i # 5
      BY <2>1, <2>3, <2>4, <2>5, <2>6, <2>8, Zenon
    <2> QED BY <2>7, <2>8
  <1>2. CASE v = "nil"
    <2>1. Given(Options[i]) = FALSE
      BY <1>2 DEF Given
    <2>2. FieldBefore(15, i) = DefaultConfig[FieldOf(i)]
      BY <1>2 DEF FieldBefore
    <2> QED BY <1>1, <2>1, <2>2
  <1>3. CASE v # "nil"
    <2>1. FieldBefore(15, i) = Taken(i, v)
      BY <1>3 DEF FieldBefore
    <2>2. Given(Options[i]) = Truthy(v)
      BY <1>3 DEF Given, Truthy
    <2>3. Taken(5, v) = ~Truthy(v)
      BY DEF Taken
    <2>4. i \in 6..8 => Taken(i, v) = Truthy(v)
      BY DEF Taken
    <2>5. i = 5 \/ i \in 6..8
      OBVIOUS
    <2> QED BY <2>1, <2>2, <2>3, <2>4, <2>5
  <1> QED BY <1>2, <1>3

(***************************************************************************)
(* All options read, the configuration is what the caller has asked for.   *)
(***************************************************************************)
LEMMA AllRead ==
  ASSUME LuaConfigInv, at = 15
  PROVE  config = Asked
  <1>1. /\ config = [f \in ConfigFields |-> config[f]] /\ ~Refused(config)
        /\ config.mode = (IF table["mode"] = "nil" THEN "CONSOLE" ELSE Mode(table["mode"]))
        /\ config.color = ColorBefore(15)
        /\ \A i \in 5..13 : config[FieldOf(i)] = FieldBefore(15, i)
        /\ config.output = (IF table["output"] \notin {"nil", "default"}
                            THEN table["output"] ELSE "stdout")
        /\ table["mode"] = IF kind = "new_json" THEN "json" ELSE written["mode"]
        /\ table["output"] = IF arg # "nil" THEN arg ELSE written["output"]
    BY DEF LuaConfigInv, TableInv, ReadInv
  <1>2. /\ config.mode # "error" /\ config.time_format # "error"
        /\ config.line_buffer_capacity # "error" /\ config.min_level # "error"
        /\ config.palette # "error" /\ config.policy # "error"
    BY <1>1 DEF Refused
  <1>3. config.mode = Asked.mode
    BY <1>1, <1>2 DEF Asked, Mode
  <1>4. config.color = Asked.color
    BY <1>1 DEF Asked, ColorBefore
  <1>5. config.output = Asked.output
    BY <1>1 DEF Asked
  <1>6. ASSUME NEW i \in 5..13
        PROVE  config[FieldOf(i)] = IF written[Options[i]] # "nil"
                                    THEN Taken(i, written[Options[i]])
                                    ELSE DefaultConfig[FieldOf(i)]
    BY <1>1 DEF FieldBefore
  <1>7. config.timestamps = Asked.timestamps
    <2>1. config.timestamps = ~Given("disable_timestamp")
      BY <1>1, OptionAt, SwitchRead DEF FieldOf
    <2> QED BY <2>1 DEF Asked
  <1>8. config.utc = Asked.utc
    <2>1. config.utc = Given("utc")
      BY <1>1, OptionAt, SwitchRead DEF FieldOf
    <2> QED BY <2>1 DEF Asked
  <1>9. config.with_level_field = Asked.with_level_field
    <2>1. config.with_level_field = Given("with_level_field")
      BY <1>1, OptionAt, SwitchRead DEF FieldOf
    <2> QED BY <2>1 DEF Asked
  <1>10. config.verbose_fields = Asked.verbose_fields
    <2>1. config.verbose_fields = Given("verbose_fields")
      BY <1>1, OptionAt, SwitchRead DEF FieldOf
    <2> QED BY <2>1 DEF Asked
  <1>11. config.time_format = Asked.time_format
    <2>1. config.time_format = IF written["time_format"] # "nil" THEN Taken(9, written["time_format"])
                               ELSE "nil"
      BY <1>6, OptionAt DEF FieldOf, DefaultConfig
    <2> QED BY <1>2, <2>1 DEF Asked, Taken
  <1>12. config.line_buffer_capacity = Asked.line_buffer_capacity
    <2>1. config.line_buffer_capacity = IF written["line_buffer_capacity"] # "nil"
                                        THEN Taken(10, written["line_buffer_capacity"])
                                        ELSE "default"
      BY <1>6, OptionAt DEF FieldOf, DefaultConfig
    <2> QED BY <1>2, <2>1 DEF Asked, Taken, Otherwise
  <1>13. config.min_level = Asked.min_level
    <2>1. config.min_level = IF written["min_level"] # "nil" THEN Taken(11, written["min_level"])
                             ELSE "debug"
      BY <1>6, OptionAt DEF FieldOf, DefaultConfig
    <2> QED BY <1>2, <2>1 DEF Asked, Taken, Otherwise, LevelArg
  <1>14. config.palette = Asked.palette
    <2>1. config.palette = IF written["palette"] # "nil" THEN Taken(12, written["palette"])
                           ELSE "default"
      BY <1>6, OptionAt DEF FieldOf, DefaultConfig
    <2> QED BY <1>2, <2>1 DEF Asked, Taken, Palette
  <1>15. config.policy = Asked.policy
    <2>1. config.policy = IF written["non_finite_float_policy"] # "nil"
                          THEN Taken(13, written["non_finite_float_policy"]) ELSE "STRING"
      BY <1>6, OptionAt DEF FieldOf, DefaultConfig
    <2> QED BY <1>2, <2>1 DEF Asked, Taken, Policy
  <1>16. \A f \in ConfigFields : config[f] = Asked[f]
    BY <1>3, <1>4, <1>5, <1>7, <1>8, <1>9, <1>10, <1>11, <1>12, <1>13, <1>14, <1>15
       DEF ConfigFields
  <1>17. Asked = [f \in ConfigFields |-> Asked[f]]
    BY DEF Asked, ConfigFields
  <1> QED BY <1>1, <1>16, <1>17

(***************************************************************************)
(* The logger, or the end of its output, or the loss of both.              *)
(***************************************************************************)
LEMMA MakeLoggerStep ==
  ASSUME LuaConfigInv, MakeLogger
  PROVE  LuaConfigInv'
  <1>1. /\ at = 15
        /\ UNCHANGED <<written, opts, arg, table, config, handle, calls>>
    BY OptionAt DEF MakeLogger, LuaConfigInv, TableInv
  <1>2. /\ calls \notin lost
        /\ Known = {h \in {Own} : config.output \in {"path", "function"}}
    BY <1>1 DEF LuaConfigInv, TableInv, ReadInv
  <1>3. CASE logger' = "open" /\ at' = 0 /\ UNCHANGED <<kind, held, lost>>
    <2>1. TableInv'
      BY <1>1, <1>3 DEF LuaConfigInv, TableInv, Kinds
    <2>2. Asked' = Asked
      BY <1>1, <1>3 DEF Asked, Given, Otherwise
    <2>3. config' = Asked'
      BY <1>1, <2>2, AllRead
    <2>4. Known' = {h \in {Own'} : config'.output \in {"path", "function"}}
      BY <1>1, <1>2, <1>3 DEF Known, Own
    <2> QED BY <1>3, <2>1, <2>3, <2>4 DEF LuaConfigInv, ReadInv, TableObeyed, NothingHeld
  <1>4. CASE held' = held \ {Own} /\ Raise /\ UNCHANGED <<logger, lost>>
    <2>1. Known' = {}
      BY <1>2, <1>4 DEF Known
    <2> QED BY <1>1, <1>4, <2>1, RaiseStep
  <1>5. CASE lost' = lost \cup {calls} /\ Raise /\ UNCHANGED <<logger, held>>
    <2>1. Known' = {}
      BY <1>2, <1>5 DEF Known, Own
    <2> QED BY <1>1, <1>5, <2>1, RaiseStep
  <1> QED BY <1>3, <1>4, <1>5 DEF MakeLogger

(***************************************************************************)
(* What was held for a logger ends with it.                                *)
(***************************************************************************)
LEMMA EndStep ==
  ASSUME LuaConfigInv, CloseLogger \/ CollectLogger
  PROVE  LuaConfigInv'
  <1>1. /\ logger # "none" /\ logger' \in {"closed", "none"} /\ held' = held \ {Own}
        /\ UNCHANGED <<written, opts, kind, arg, at, table, config, handle, calls, lost>>
    BY DEF CloseLogger, CollectLogger
  <1>2. at = 0 /\ logger \in {"open", "closed"}
    BY <1>1 DEF LuaConfigInv, TableInv
  <1>3. Known' = {}
    BY <1>1, <1>2 DEF LuaConfigInv, NothingHeld, Known
  <1>4. TableInv'
    BY <1>1, <1>2 DEF LuaConfigInv, TableInv
  <1>5. Asked' = Asked
    BY <1>1 DEF Asked, Given, Otherwise
  <1>6. TableObeyed'
    BY <1>1, <1>5 DEF LuaConfigInv, TableObeyed
  <1> QED BY <1>1, <1>2, <1>3, <1>4, <1>6 DEF LuaConfigInv, ReadInv, NothingHeld

(***************************************************************************)
(* What every state of the constructors satisfies.                         *)
(***************************************************************************)
LEMMA LuaConfigInvariant == ConfigSpec => []LuaConfigInv
  <1>1. ConfigInit => LuaConfigInv
    <2> SUFFICES ASSUME ConfigInit PROVE LuaConfigInv
      OBVIOUS
    <2>1. config = [f \in ConfigFields |-> config[f]]
      BY DEF ConfigInit, DefaultConfig, ConfigFields
    <2>2. TableInv
      BY <2>1 DEF ConfigInit, TableInv, Kinds
    <2> QED BY <2>2 DEF ConfigInit, LuaConfigInv, ReadInv, TableObeyed, NothingHeld, Known
  <1>2. LuaConfigInv /\ [ConfigNext]_configVars => LuaConfigInv'
    <2> SUFFICES ASSUME LuaConfigInv, [ConfigNext]_configVars PROVE LuaConfigInv'
      OBVIOUS
    <2>1. CASE \E k \in {"new", "new_json"}, o \in Outputs : Construct(k, o)
      BY <2>1, ConstructStep
    <2>2. CASE Construct("from_env", "nil")
      BY <2>2, ConstructStep, LuaConfigAssumption
    <2>3. CASE DropFile \/ CollectFile \/ UNCHANGED configVars
      <3>1. UNCHANGED <<written, opts, kind, arg, at, table, config, held, logger, calls, lost>>
        BY <2>3 DEF DropFile, CollectFile, configVars
      <3>2. TableInv'
        BY <3>1 DEF LuaConfigInv, TableInv
      <3>3. /\ Known' = Known /\ Own' = Own /\ ColorBefore(at)' = ColorBefore(at)
            /\ \A i \in 5..13 : FieldBefore(at, i)' = FieldBefore(at, i)
            /\ Asked' = Asked
        BY <3>1 DEF Known, Own, ColorBefore, FieldBefore, Asked, Given, Otherwise
      <3>4. ReadInv'
        BY <3>1, <3>3 DEF LuaConfigInv, ReadInv
      <3> QED BY <3>1, <3>2, <3>3, <3>4 DEF LuaConfigInv, TableObeyed, NothingHeld
    <2> QED BY <2>1, <2>2, <2>3, OptionStep, ParseOutputStep, MakeLoggerStep, EndStep
            DEF ConfigNext
  <1> QED BY <1>1, <1>2, PTL DEF ConfigSpec

(***************************************************************************)
(* pslog.new, new_json and from_env, for any tables and any number of      *)
(* constructors: each logger has the twelve settings its table and its     *)
(* constructor say, a palette of an unknown name being the default one and *)
(* any integer a level; and nothing opened or registered for a logger      *)
(* outlives it or its failed construction, unless the constructor failed   *)
(* because Lua had no memory left once the output was there.               *)
(***************************************************************************)
THEOREM LoggersAsWritten == ConfigSpec => []ConfigAsWritten
  <1>1. LuaConfigInv => ConfigAsWritten
    BY DEF LuaConfigInv, ConfigAsWritten
  <1> QED BY <1>1, LuaConfigInvariant, PTL
=============================================================================
