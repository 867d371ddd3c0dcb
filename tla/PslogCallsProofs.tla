--------------------------- MODULE PslogCallsProofs ---------------------------
(***************************************************************************)
(* Proofs about one derivation (PslogDerive), for a size_t of any width,   *)
(* buffers of any capacity, any texts, any fields and any allocation that  *)
(* fails, and about one logf or withf call (PslogKvfmt), for any kvfmt     *)
(* string, any levels, any values of errno and any number of fields.       *)
(***************************************************************************)
EXTENDS PslogDerive, PslogKvfmt, SequenceTheorems, FiniteSetTheorems, WellFoundedInduction,
        NaturalsInduction, TLAPS

-----------------------------------------------------------------------------
(* One derivation.                                                         *)

DPC == {"idle", "allocate", "fields", "copy", "init", "append", "reserve", "kept", "destroy"}

FieldTypes == {"STRING", "BYTES", "SIGNED"}

Buffer == [capacity : Nat, block : Nat, heap : BOOLEAN, len : Nat]

\* The types of the buffer and of the rest.
BufferTypeOK ==
  /\ buffer \in Buffer /\ data \in Seq(Nat \ {0}) /\ pieces \in Seq(1..SizeMax)
  /\ todo \in Nat /\ pos \in Nat /\ candidate \in Nat

ChildTypeOK ==
  /\ dpc \in DPC /\ fields \in Seq(FieldTypes) /\ copied \in 0..Len(fields)
  /\ outcome \in {"none", "child", "null", "literal"} /\ failed \in BOOLEAN
  /\ kept = NotKept \/ kept = data

\* The first n bytes of the text.
Text(n) == [i \in 1..n |-> i]

\* Nothing has been rendered before the buffer is there.
Unrendered == dpc \in {"allocate", "fields", "copy", "init"} \/ (dpc = "idle" /\ outcome = "none")

\* The buffer is in bounds, neither its block nor the capacity the loop of
\* pslog_buffer_reserve arrives at wraps, and a byte is lost only where an
\* allocation failed or the capacity cannot be doubled.
BufferInv ==
  /\ InBounds /\ buffer.capacity > 0 /\ buffer.block <= SizeMax
  /\ Unrendered => data = <<>> /\ todo = 0 /\ pos = 0
  /\ dpc = "reserve" =>
       Wanted > buffer.capacity /\ Wanted < SizeMax /\ candidate <= SizeMax
  /\ failed \/ 2 * buffer.capacity > SizeMax \/ data = Text(pos)

Base == {Sole("logger"), Sole("impl")}

\* The blocks of a child apart from its prefix, and the block of the buffer.
ChildBlocks ==
  FieldBlocks(copied) \cup Base \cup (IF fields # <<>> THEN {Sole("fields")} ELSE {})
BufferBlock == IF buffer.heap THEN {Sole("buffer")} ELSE {}
PrefixBlock == IF kept # NotKept THEN {Sole("prefix")} ELSE {}

\* The blocks and references of a derivation, from one step to the next.
MemoryInv ==
  /\ NothingLost
  /\ dpc = "allocate" => references = 2 /\ blocks = {}
  /\ dpc = "fields" => references = 2 /\ blocks = Base
  /\ dpc = "copy" => references = 2 /\ copied < Len(fields) /\ blocks = ChildBlocks
  /\ dpc = "init" => references = 2 /\ blocks = ChildBlocks
  /\ dpc \in {"append", "reserve"} =>
       \/ references = 1 /\ blocks = BufferBlock
       \/ references = 2 /\ blocks = ChildBlocks \cup BufferBlock
  /\ dpc = "kept" => references = 2 /\ blocks = ChildBlocks \cup PrefixBlock
  /\ dpc = "destroy" => references = 2 /\ blocks \subseteq ChildBlocks

\* Only a finished call has an outcome, and only one that is about to end keeps
\* a text, a literal one that fits.
OutcomeInv ==
  /\ dpc # "idle" => outcome = "none"
  /\ dpc \in {"allocate", "fields"} \/ (dpc = "idle" /\ outcome = "none") => copied = 0
  /\ kept # NotKept =>
       dpc = "kept" \/ (dpc = "idle" /\ outcome \in {"child", "literal"})
  /\ kept # NotKept /\ outcome = "literal" => Len(data) < LiteralCapacity

DeriveInv == BufferTypeOK /\ ChildTypeOK /\ BufferInv /\ MemoryInv /\ OutcomeInv

-----------------------------------------------------------------------------
(* Numbers, texts and blocks.                                              *)

(***************************************************************************)
(* A capacity whose double is a size_t asks for its double, which is not   *)
(* the largest size_t.                                                     *)
(***************************************************************************)
LEMMA Doubling ==
  ASSUME NEW c \in Nat, c > 0, 2 * c <= SizeMax
  PROVE  (2 * c) % (SizeMax + 1) = 2 * c /\ 2 * c < SizeMax /\ 2 * c > c
  <1>1. SizeMax \in Nat /\ SizeMax % 2 = 1
    BY DeriveAssumption
  <1>2. 2 * c # SizeMax
    BY <1>1
  <1>3. \A a, b \in Nat : a < b => a % b = a
    OBVIOUS
  <1>4. (2 * c) % (SizeMax + 1) = 2 * c
    <2>1. 2 * c \in Nat /\ SizeMax + 1 \in Nat /\ 2 * c < SizeMax + 1
      BY <1>1
    <2> QED BY <1>3, <2>1
  <1> QED BY <1>1, <1>2, <1>4

(***************************************************************************)
(* What pslog_buffer_flush wants is a size_t.                              *)
(***************************************************************************)
LEMMA WantedNat ==
  ASSUME NEW c \in Nat
  PROVE  (2 * c) % (SizeMax + 1) \in 0..SizeMax
  <1>1. \A a, b \in Nat : b > 0 => a % b \in 0..(b - 1)
    OBVIOUS
  <1>2. 2 * c \in Nat /\ SizeMax + 1 \in Nat /\ SizeMax + 1 > 0 /\ SizeMax \in Nat
    BY DeriveAssumption
  <1>3. (2 * c) % (SizeMax + 1) \in 0..((SizeMax + 1) - 1)
    BY <1>1, <1>2
  <1> QED BY <1>2, <1>3

(***************************************************************************)
(* A text appended to the one before it.                                   *)
(***************************************************************************)
LEMMA TextAppended ==
  ASSUME NEW p \in Nat, NEW n \in Nat
  PROVE  Text(p) \o [i \in 1..n |-> p + i] = Text(p + n)
  BY DEF Text

(***************************************************************************)
(* A text has as many bytes as it says, none of them 0.                    *)
(***************************************************************************)
LEMMA TextLength ==
  ASSUME NEW p \in Nat
  PROVE  Text(p) \in Seq(Nat \ {0}) /\ Len(Text(p)) = p
  BY DEF Text

(***************************************************************************)
(* The chunk that is appended.                                             *)
(***************************************************************************)
LEMMA ChunkLength ==
  ASSUME NEW p \in Nat, NEW n \in Nat, NEW d \in Seq(Nat \ {0})
  PROVE  /\ d \o [i \in 1..n |-> p + i] \in Seq(Nat \ {0})
         /\ Len(d \o [i \in 1..n |-> p + i]) = Len(d) + n
  <1> DEFINE chunk == [i \in 1..n |-> p + i]
  <1>1. chunk \in Seq(Nat \ {0}) /\ Len(chunk) = n
    OBVIOUS
  <1> HIDE DEF chunk
  <1>2. d \o chunk \in Seq(Nat \ {0}) /\ Len(d \o chunk) = Len(d) + n
    BY <1>1, ConcatProperties
  <1> QED BY <1>2 DEF chunk

(***************************************************************************)
(* No text is the mark of one that is not kept.                            *)
(***************************************************************************)
LEMMA DataIsNoMark ==
  ASSUME NEW d \in Seq(Nat \ {0})
  PROVE  d # NotKept
  <1> SUFFICES ASSUME d = NotKept PROVE FALSE
    OBVIOUS
  <1>1. Len(d) = 1 /\ d[1] = 0
    BY DEF NotKept
  <1> QED BY <1>1, ElementOfSeq

(***************************************************************************)
(* A block that there is one of is none of a field, and no two of them are *)
(* one.                                                                    *)
(***************************************************************************)
LEMMA SoleApart ==
  /\ \A a : \A n \in Nat : Sole(a) \notin FieldBlocks(n)
  /\ \A a, b : Sole(a) = Sole(b) => a = b
  <1>1. ASSUME NEW a, NEW n \in Nat, Sole(a) \in FieldBlocks(n) PROVE FALSE
    <2>1. PICK i \in 1..n : Sole(a) = <<"key", i>> \/ Sole(a) = <<"value", i>>
      BY <1>1 DEF FieldBlocks
    <2>2. Sole(a)[2] = 0
      BY DEF Sole
    <2>3. Sole(a)[2] = i
      BY <2>1
    <2> QED BY <2>2, <2>3
  <1>2. ASSUME NEW a, NEW b, Sole(a) = Sole(b) PROVE a = b
    BY <1>2 DEF Sole
  <1> QED BY <1>1, <1>2

(***************************************************************************)
(* The blocks of no fields, and of one field more.                         *)
(***************************************************************************)
LEMMA FieldBlocksGrow ==
  /\ FieldBlocks(0) = {}
  /\ \A n \in Nat : FieldBlocks(n) \subseteq FieldBlocks(n + 1)
  BY DEF FieldBlocks

(***************************************************************************)
(* The blocks of a child whose fields stay.                                *)
(***************************************************************************)
LEMMA ChildBlocksStay ==
  ASSUME UNCHANGED <<fields, copied>>
  PROVE  ChildBlocks' = ChildBlocks
  BY DEF ChildBlocks, FieldBlocks, Base

(***************************************************************************)
(* Neither the block of the buffer nor that of the prefix is one of them,  *)
(* and a literal has none.                                                 *)
(***************************************************************************)
LEMMA ChildBlocksApart ==
  ASSUME ChildTypeOK
  PROVE  /\ Sole("buffer") \notin ChildBlocks /\ Sole("prefix") \notin ChildBlocks
         /\ Sole("impl") \in ChildBlocks /\ Sole("impl") \notin BufferBlock
         /\ Sole("prefix") # Sole("buffer")
  <1>1. copied \in Nat
    BY DEF ChildTypeOK
  <1> HIDE DEF Sole
  <1>2. \A a : Sole(a) \in ChildBlocks => a \in {"logger", "impl", "fields"}
    BY <1>1, SoleApart DEF ChildBlocks, Base
  <1>3. Sole("impl") \in ChildBlocks
    BY DEF ChildBlocks, Base
  <1>4. Sole("impl") \notin BufferBlock /\ Sole("prefix") # Sole("buffer")
    BY SoleApart DEF BufferBlock
  <1> QED BY <1>2, <1>3, <1>4

-----------------------------------------------------------------------------
(* The steps.                                                              *)

(***************************************************************************)
(* What a step that does not touch the buffer leaves as it was.            *)
(***************************************************************************)
LEMMA BufferStays ==
  ASSUME BufferTypeOK, BufferInv, UNCHANGED <<buffer, data, pos>>,
         pieces' \in Seq(1..SizeMax), todo' \in Nat, candidate' \in Nat,
         failed => failed', dpc' # "reserve", Unrendered' => Unrendered /\ todo' = todo
  PROVE  BufferTypeOK' /\ BufferInv'
  <1>1. BufferTypeOK'
    BY DEF BufferTypeOK
  <1>2. InBounds' /\ buffer'.capacity > 0 /\ buffer'.block <= SizeMax
    BY DEF BufferInv, InBounds
  <1>3. Unrendered' => data' = <<>> /\ todo' = 0 /\ pos' = 0
    BY DEF BufferInv
  <1>4. failed' \/ 2 * buffer'.capacity > SizeMax \/ data' = Text(pos')
    BY DEF BufferInv
  <1> QED BY <1>1, <1>2, <1>3, <1>4 DEF BufferInv

(***************************************************************************)
(* with() begins.                                                          *)
(***************************************************************************)
LEMMA CloneStep ==
  ASSUME DeriveInv, NEW fs \in FieldLists, NEW t \in PieceLists, CloneWithFields(fs, t)
  PROVE  DeriveInv'
  <1> USE DEF DeriveInv
  <1>1. /\ dpc = "idle" /\ outcome = "none" /\ dpc' = "allocate"
        /\ references' = references + 1 /\ fields' = fs /\ pieces' = t
        /\ UNCHANGED <<copied, buffer, data, todo, pos, candidate, kept, blocks, outcome, failed>>
    BY DEF CloneWithFields
  <1>2. fs \in Seq(FieldTypes) /\ t \in Seq(1..SizeMax)
    BY DeriveAssumption DEF FieldTypes
  <1>3. copied = 0 /\ kept = NotKept
    BY <1>1 DEF OutcomeInv
  <1>4. BufferTypeOK' /\ BufferInv'
    <2>1. Unrendered
      BY <1>1 DEF Unrendered
    <2>2. todo \in Nat /\ candidate \in Nat
      BY DEF BufferTypeOK
    <2> QED BY <1>1, <1>2, <2>1, <2>2, BufferStays
  <1>5. ChildTypeOK'
    <2>1. 0 \in 0..Len(fs)
      BY <1>2
    <2> QED BY <1>1, <1>2, <1>3, <2>1 DEF ChildTypeOK, DPC
  <1>6. MemoryInv'
    BY <1>1 DEF MemoryInv, NothingLost
  <1>7. OutcomeInv'
    BY <1>1, <1>3 DEF OutcomeInv
  <1> QED BY <1>4, <1>5, <1>6, <1>7

(***************************************************************************)
(* The logger and its private part, or neither.                            *)
(***************************************************************************)
LEMMA AllocateStep ==
  ASSUME DeriveInv, Allocate
  PROVE  DeriveInv'
  <1> USE DEF DeriveInv
  <1>1. /\ dpc = "allocate"
        /\ UNCHANGED <<fields, copied, buffer, data, pieces, todo, pos, candidate, kept>>
    BY DEF Allocate, bufferVars
  <1>2. references = 2 /\ blocks = {} /\ outcome = "none" /\ copied = 0 /\ kept = NotKept
    BY <1>1 DEF MemoryInv, OutcomeInv
  <1>3. \/ /\ blocks' = Base /\ dpc' = "fields" /\ references' = 2
           /\ outcome' = "none" /\ failed' = failed
        \/ /\ blocks' = {} /\ dpc' = "idle" /\ references' = 1
           /\ outcome' = "null" /\ failed' = TRUE
    BY <1>2 DEF Allocate, Base
  <1>4. BufferTypeOK' /\ BufferInv'
    <2>1. Unrendered /\ dpc' # "reserve" /\ (failed => failed')
      BY <1>1, <1>3 DEF Unrendered
    <2>2. todo \in Nat /\ candidate \in Nat /\ pieces \in Seq(1..SizeMax)
      BY DEF BufferTypeOK
    <2> QED BY <1>1, <2>1, <2>2, BufferStays
  <1>5. ChildTypeOK'
    BY <1>1, <1>3 DEF ChildTypeOK, DPC
  <1>6. MemoryInv'
    <2>1. Base' = Base
      BY DEF Base
    <2> QED BY <1>3, <2>1 DEF MemoryInv, NothingLost
  <1>7. OutcomeInv'
    BY <1>1, <1>2, <1>3 DEF OutcomeInv
  <1> QED BY <1>4, <1>5, <1>6, <1>7

(***************************************************************************)
(* The array of the fields.                                                *)
(***************************************************************************)
LEMMA CopyArrayStep ==
  ASSUME DeriveInv, CopyArray
  PROVE  DeriveInv'
  <1> USE DEF DeriveInv
  <1>1. /\ dpc = "fields"
        /\ UNCHANGED <<fields, copied, buffer, data, pieces, todo, pos, candidate, kept,
                       references, outcome>>
    BY DEF CopyArray, bufferVars
  <1>2. references = 2 /\ blocks = Base /\ outcome = "none" /\ copied = 0 /\ kept = NotKept
    BY <1>1 DEF MemoryInv, OutcomeInv
  <1>3. \/ fields = <<>> /\ dpc' = "kept" /\ blocks' = Base /\ failed' = failed
        \/ /\ fields # <<>> /\ dpc' = "copy" /\ blocks' = Base \cup {Sole("fields")}
           /\ (failed => failed') /\ failed' \in BOOLEAN
        \/ /\ fields # <<>> /\ dpc' = "destroy" /\ blocks' = Base
           /\ (failed => failed') /\ failed' \in BOOLEAN
    BY <1>2 DEF CopyArray, Allocates
  <1>4. BufferTypeOK' /\ BufferInv'
    <2>1. Unrendered /\ dpc' # "reserve" /\ (failed => failed')
      BY <1>1, <1>3 DEF Unrendered
    <2>2. todo \in Nat /\ candidate \in Nat /\ pieces \in Seq(1..SizeMax)
      BY DEF BufferTypeOK
    <2> QED BY <1>1, <2>1, <2>2, BufferStays
  <1>5. ChildTypeOK'
    BY <1>1, <1>3 DEF ChildTypeOK, DPC
  <1>6. MemoryInv'
    <2>1. ChildBlocks' = ChildBlocks
      BY <1>1, ChildBlocksStay
    <2>2. ChildBlocks = Base \cup (IF fields # <<>> THEN {Sole("fields")} ELSE {})
      BY <1>2, FieldBlocksGrow DEF ChildBlocks
    <2>3. fields # <<>> => copied < Len(fields)
      BY <1>2 DEF ChildTypeOK
    <2>4. PrefixBlock' = {}
      BY <1>1, <1>2 DEF PrefixBlock
    <2> QED BY <1>1, <1>2, <1>3, <2>1, <2>2, <2>3, <2>4 DEF MemoryInv, NothingLost
  <1>7. OutcomeInv'
    BY <1>1, <1>2, <1>3 DEF OutcomeInv
  <1> QED BY <1>4, <1>5, <1>6, <1>7

(***************************************************************************)
(* One field, or the undoing of all of them.                               *)
(***************************************************************************)
LEMMA CopyFieldStep ==
  ASSUME DeriveInv, CopyField
  PROVE  DeriveInv'
  <1> USE DEF DeriveInv
  <1>1. /\ dpc = "copy"
        /\ UNCHANGED <<fields, buffer, data, pieces, todo, pos, candidate, kept, references,
                       outcome>>
    BY DEF CopyField, bufferVars
  <1>2. references = 2 /\ copied < Len(fields) /\ blocks = ChildBlocks /\ outcome = "none"
        /\ kept = NotKept
    BY <1>1 DEF MemoryInv, OutcomeInv
  <1>3. \/ /\ blocks' = blocks \cup (FieldBlocks(copied + 1) \ FieldBlocks(copied))
           /\ copied' = copied + 1 /\ failed' = failed
           /\ dpc' = IF copied + 1 = Len(fields) THEN "init" ELSE "copy"
        \/ /\ blocks' = blocks \ (FieldBlocks(copied) \cup {Sole("fields")})
           /\ copied' = 0 /\ failed' = TRUE /\ dpc' = "destroy"
    BY DEF CopyField
  <1>4. dpc' \in {"init", "copy", "destroy"}
    BY <1>3
  <1>5. BufferTypeOK' /\ BufferInv'
    <2>1. Unrendered /\ dpc' # "reserve" /\ (failed => failed')
      BY <1>1, <1>3, <1>4 DEF Unrendered
    <2>2. todo \in Nat /\ candidate \in Nat /\ pieces \in Seq(1..SizeMax)
      BY DEF BufferTypeOK
    <2> QED BY <1>1, <2>1, <2>2, BufferStays
  <1>6. copied \in Nat /\ Len(fields) \in Nat
    BY DEF ChildTypeOK
  <1>7. ChildTypeOK'
    <2>1. copied' \in 0..Len(fields)
      BY <1>2, <1>3, <1>6
    <2>2. failed' \in BOOLEAN
      BY <1>3 DEF ChildTypeOK
    <2> QED BY <1>1, <1>4, <2>1, <2>2 DEF ChildTypeOK, DPC
  <1>8. MemoryInv'
    <2>1. CASE copied' = copied + 1 /\ dpc' # "destroy"
      <3>1. FieldBlocks(copied)' = FieldBlocks(copied + 1)
        BY <1>1, <2>1 DEF FieldBlocks
      <3>2. FieldBlocks(copied) \subseteq FieldBlocks(copied + 1)
        BY <1>6, FieldBlocksGrow
      <3>3. blocks' = blocks \cup (FieldBlocks(copied + 1) \ FieldBlocks(copied))
        BY <1>3, <2>1
      <3>4. blocks' = ChildBlocks'
        BY <1>1, <1>2, <3>1, <3>2, <3>3 DEF ChildBlocks, Base
      <3>5. dpc' = "copy" => copied' < Len(fields)
        BY <1>2, <1>3, <1>6
      <3> QED BY <1>1, <1>2, <1>4, <2>1, <3>4, <3>5 DEF MemoryInv, NothingLost
    <2>2. CASE dpc' = "destroy"
      <3>1. blocks' = blocks \ (FieldBlocks(copied) \cup {Sole("fields")})
        BY <1>3, <2>2
      <3>2. blocks' \subseteq Base
        BY <1>2, <3>1 DEF ChildBlocks
      <3>3. Base \subseteq ChildBlocks'
        BY DEF ChildBlocks, Base
      <3> QED BY <1>1, <1>2, <2>2, <3>2, <3>3 DEF MemoryInv, NothingLost
    <2> QED BY <1>3, <2>1, <2>2
  <1>9. OutcomeInv'
    BY <1>1, <1>2, <1>4 DEF OutcomeInv
  <1> QED BY <1>5, <1>7, <1>8, <1>9

(***************************************************************************)
(* pslog_buffer_init: whichever capacity is asked for and whether or not   *)
(* there is memory, an empty buffer with a block for it and its NUL.       *)
(***************************************************************************)
LEMMA InitBufferMakes ==
  ASSUME NEW capacity \in 0..SizeMax, failed \in BOOLEAN, InitBuffer(capacity)
  PROVE  /\ data' = <<>> /\ buffer' \in Buffer /\ buffer'.len = 0
         /\ buffer'.capacity > 0 /\ buffer'.capacity + 1 <= buffer'.block
         /\ buffer'.block <= SizeMax
         /\ blocks' = blocks \cup BufferBlock'
         /\ failed' \in BOOLEAN
  <1> DEFINE c == NormalizedCapacity(capacity)
  <1>1. SizeMax \in Nat /\ DefaultCapacity \in Nat /\ DefaultCapacity > 0
        /\ DefaultCapacity + 2 <= SizeMax
    BY DeriveAssumption
  <1>2. c \in Nat /\ c > 0 /\ c < SizeMax
    BY <1>1 DEF NormalizedCapacity
  <1> HIDE DEF c
  <1>3. CASE /\ buffer' = [NoBuffer EXCEPT !.capacity = c] /\ c <= DefaultCapacity
             /\ UNCHANGED <<blocks, failed>> /\ data' = <<>>
    <2>1. buffer' = [capacity |-> c, block |-> DefaultCapacity + 1, heap |-> FALSE, len |-> 0]
      BY <1>3 DEF NoBuffer
    <2>2. buffer' \in Buffer
      BY <1>1, <1>2, <2>1 DEF Buffer
    <2>3. BufferBlock' = {}
      BY <2>1 DEF BufferBlock
    <2> QED BY <1>1, <1>2, <1>3, <2>1, <2>2, <2>3
  <1>4. CASE \E ok \in BOOLEAN :
               /\ Allocates(Sole("buffer"), ok)
               /\ buffer' = IF ok THEN HeapBuffer(c) ELSE NoBuffer
               /\ data' = <<>>
    <2>1. PICK ok \in BOOLEAN : /\ Allocates(Sole("buffer"), ok)
                                /\ buffer' = (IF ok THEN HeapBuffer(c) ELSE NoBuffer)
                                /\ data' = <<>>
      BY <1>4
    <2>2. CASE ok
      <3>1. buffer' = [capacity |-> c, block |-> c + 1, heap |-> TRUE, len |-> 0]
        BY <2>1, <2>2 DEF HeapBuffer
      <3>2. buffer' \in Buffer
        BY <1>2, <3>1 DEF Buffer
      <3>3. BufferBlock' = {Sole("buffer")}
        BY <3>1 DEF BufferBlock
      <3>4. blocks' = blocks \cup {Sole("buffer")} /\ failed' \in BOOLEAN
        BY <2>1, <2>2 DEF Allocates
      <3> QED BY <1>1, <1>2, <2>1, <3>1, <3>2, <3>3, <3>4
    <2>3. CASE ~ok
      <3>1. buffer' = [capacity |-> DefaultCapacity, block |-> DefaultCapacity + 1,
                       heap |-> FALSE, len |-> 0]
        BY <2>1, <2>3 DEF NoBuffer
      <3>2. buffer' \in Buffer
        BY <1>1, <3>1 DEF Buffer
      <3>3. BufferBlock' = {}
        BY <3>1 DEF BufferBlock
      <3>4. blocks' = blocks /\ failed' \in BOOLEAN
        BY <2>1, <2>3 DEF Allocates
      <3> QED BY <1>1, <2>1, <3>1, <3>2, <3>3, <3>4
    <2> QED BY <2>2, <2>3
  <1> QED BY <1>3, <1>4 DEF InitBuffer, c

(***************************************************************************)
(* An empty buffer in place of whatever there was, with nothing rendered.  *)
(***************************************************************************)
LEMMA BufferBegins ==
  ASSUME BufferTypeOK, BufferInv, Unrendered, dpc' = "append",
         NEW capacity \in 0..SizeMax, failed \in BOOLEAN, InitBuffer(capacity),
         pieces' \in Seq(1..SizeMax), UNCHANGED <<todo, pos, candidate>>
  PROVE  BufferTypeOK' /\ BufferInv'
  <1>1. /\ data' = <<>> /\ buffer' \in Buffer /\ buffer'.len = 0
        /\ buffer'.capacity > 0 /\ buffer'.capacity + 1 <= buffer'.block
        /\ buffer'.block <= SizeMax
    BY InitBufferMakes
  <1>2. BufferTypeOK'
    BY <1>1 DEF BufferTypeOK
  <1>3. pos' = 0 /\ data' = Text(pos')
    <2>1. pos' = 0
      BY DEF BufferInv
    <2>2. Text(0) = <<>>
      BY DEF Text
    <2> QED BY <1>1, <2>1, <2>2
  <1>4. InBounds'
    BY <1>1 DEF InBounds, Buffer
  <1> QED BY <1>1, <1>2, <1>3, <1>4 DEF BufferInv, Unrendered

(***************************************************************************)
(* The buffer of a prefix, whatever the estimate.                          *)
(***************************************************************************)
LEMMA InitPrefixStep ==
  ASSUME DeriveInv, InitPrefix
  PROVE  DeriveInv'
  <1> USE DEF DeriveInv
  <1>1. /\ dpc = "init" /\ dpc' = "append"
        /\ UNCHANGED <<fields, copied, pieces, todo, pos, candidate, kept, references, outcome>>
    BY DEF InitPrefix
  <1>2. PICK estimate \in 0..SizeMax : InitBuffer(estimate)
    BY DeriveAssumption DEF InitPrefix
  <1>3. references = 2 /\ blocks = ChildBlocks /\ outcome = "none" /\ kept = NotKept
    BY <1>1 DEF MemoryInv, OutcomeInv
  <1>4. Unrendered /\ failed \in BOOLEAN /\ pieces \in Seq(1..SizeMax)
    BY <1>1 DEF Unrendered, ChildTypeOK, BufferTypeOK
  <1>5. BufferTypeOK' /\ BufferInv'
    BY <1>1, <1>2, <1>4, BufferBegins
  <1>6. blocks' = blocks \cup BufferBlock' /\ failed' \in BOOLEAN
    BY <1>2, <1>4, InitBufferMakes
  <1>7. ChildTypeOK'
    BY <1>1, <1>3, <1>6 DEF ChildTypeOK, DPC
  <1>8. MemoryInv'
    <2>1. ChildBlocks' = ChildBlocks
      BY <1>1, ChildBlocksStay
    <2> QED BY <1>1, <1>3, <1>6, <2>1 DEF MemoryInv, NothingLost
  <1>9. OutcomeInv'
    BY <1>1, <1>3 DEF OutcomeInv
  <1> QED BY <1>5, <1>7, <1>8, <1>9

(***************************************************************************)
(* The buffer of a literal.                                                *)
(***************************************************************************)
LEMMA InitLiteralStep ==
  ASSUME DeriveInv, NEW t \in PieceLists, InitLiteral(t)
  PROVE  DeriveInv'
  <1> USE DEF DeriveInv
  <1>1. /\ dpc = "idle" /\ outcome = "none" /\ dpc' = "append" /\ pieces' = t
        /\ UNCHANGED <<fields, copied, todo, pos, candidate, kept, references, outcome>>
    BY DEF InitLiteral
  <1>2. LiteralCapacity - 1 \in 0..SizeMax /\ InitBuffer(LiteralCapacity - 1)
    BY DeriveAssumption DEF InitLiteral
  <1>3. references = 1 /\ blocks = {} /\ kept = NotKept
    BY <1>1 DEF MemoryInv, NothingLost, OutcomeInv
  <1>4. Unrendered /\ failed \in BOOLEAN /\ pieces' \in Seq(1..SizeMax)
    BY <1>1, DeriveAssumption DEF Unrendered, ChildTypeOK
  <1>5. BufferTypeOK' /\ BufferInv'
    BY <1>1, <1>2, <1>4, BufferBegins
  <1>6. blocks' = blocks \cup BufferBlock' /\ failed' \in BOOLEAN
    BY <1>2, <1>4, InitBufferMakes
  <1>7. ChildTypeOK'
    BY <1>1, <1>3, <1>6 DEF ChildTypeOK, DPC
  <1>8. MemoryInv'
    BY <1>1, <1>3, <1>6 DEF MemoryInv, NothingLost
  <1>9. OutcomeInv'
    BY <1>1, <1>3 DEF OutcomeInv
  <1> QED BY <1>5, <1>7, <1>8, <1>9

(***************************************************************************)
(* What a step within the rendering leaves as it was, apart from the       *)
(* buffer.                                                                 *)
(***************************************************************************)
LEMMA RenderingStays ==
  ASSUME DeriveInv, dpc \in {"append", "reserve"}, dpc' \in {"append", "reserve"},
         UNCHANGED <<fields, copied, kept, references, outcome>>, failed' \in BOOLEAN,
         \/ blocks' = blocks /\ BufferBlock' = BufferBlock
         \/ blocks' = blocks \cup {Sole("buffer")} /\ BufferBlock' = {Sole("buffer")}
  PROVE  ChildTypeOK' /\ MemoryInv' /\ OutcomeInv'
  <1> USE DEF DeriveInv
  <1>1. outcome = "none" /\ kept = NotKept
    BY DEF OutcomeInv
  <1>2. ChildTypeOK'
    BY <1>1 DEF ChildTypeOK, DPC
  <1>3. MemoryInv'
    <2>1. ChildBlocks' = ChildBlocks
      BY ChildBlocksStay
    <2>2. \/ references = 1 /\ blocks = BufferBlock
          \/ references = 2 /\ blocks = ChildBlocks \cup BufferBlock
      BY DEF MemoryInv
    <2>3. BufferBlock \subseteq {Sole("buffer")}
      BY DEF BufferBlock
    <2>4. \/ references' = 1 /\ blocks' = BufferBlock'
          \/ references' = 2 /\ blocks' = ChildBlocks' \cup BufferBlock'
      <3> HIDE DEF DeriveInv
      <3> QED BY <2>1, <2>2, <2>3
    <2> QED BY <2>4 DEF MemoryInv, NothingLost
  <1>4. OutcomeInv'
    BY <1>1 DEF OutcomeInv
  <1> QED BY <1>2, <1>3, <1>4

(***************************************************************************)
(* The next piece.                                                         *)
(***************************************************************************)
LEMMA AppendNextStep ==
  ASSUME DeriveInv, AppendNext
  PROVE  DeriveInv'
  <1> USE DEF DeriveInv
  <1>1. /\ dpc = "append" /\ pieces # <<>> /\ todo' = Head(pieces) /\ pieces' = Tail(pieces)
        /\ UNCHANGED <<dpc, fields, copied, buffer, data, pos, candidate, kept, blocks,
                       references, outcome, failed>>
    BY DEF AppendNext
  <1>2. todo' \in Nat /\ pieces' \in Seq(1..SizeMax) /\ candidate \in Nat
    <2>1. pieces \in Seq(1..SizeMax) /\ candidate \in Nat /\ SizeMax \in Nat
      BY DeriveAssumption DEF BufferTypeOK
    <2>2. Head(pieces) \in 1..SizeMax /\ Tail(pieces) \in Seq(1..SizeMax)
      BY <1>1, <2>1, HeadTailProperties
    <2> QED BY <1>1, <2>1, <2>2
  <1>3. BufferTypeOK' /\ BufferInv'
    BY <1>1, <1>2, BufferStays DEF Unrendered
  <1>4. ChildTypeOK' /\ MemoryInv' /\ OutcomeInv'
    BY <1>1, RenderingStays DEF ChildTypeOK, BufferBlock
  <1> QED BY <1>3, <1>4

(***************************************************************************)
(* As much of the piece as fits.                                           *)
(***************************************************************************)
LEMMA AppendCopyStep ==
  ASSUME DeriveInv, AppendCopy
  PROVE  DeriveInv'
  <1> USE DEF DeriveInv
  <1> DEFINE room == buffer.capacity - buffer.len
             chunk == IF todo > room THEN room ELSE todo
  <1>1. /\ dpc = "append" /\ todo > 0 /\ buffer.len < buffer.capacity
        /\ data' = data \o [i \in 1..chunk |-> pos + i]
        /\ buffer' = [buffer EXCEPT !.len = @ + chunk]
        /\ todo' = todo - chunk /\ pos' = pos + chunk
        /\ UNCHANGED <<dpc, fields, copied, pieces, candidate, kept, blocks, references,
                       outcome, failed>>
    BY DEF AppendCopy
  <1>2. /\ buffer \in Buffer /\ data \in Seq(Nat \ {0}) /\ todo \in Nat /\ pos \in Nat
        /\ buffer.capacity \in Nat /\ buffer.len \in Nat /\ buffer.block \in Nat
        /\ buffer.heap \in BOOLEAN
    <2>1. BufferTypeOK
      OBVIOUS
    <2> HIDE DEF DeriveInv
    <2>2. buffer \in Buffer /\ data \in Seq(Nat \ {0}) /\ todo \in Nat /\ pos \in Nat
      BY <2>1 DEF BufferTypeOK
    <2> QED BY <2>2 DEF Buffer
  <1>3. chunk \in Nat /\ chunk <= todo /\ chunk <= room
    <2> HIDE DEF DeriveInv
    <2>1. todo > 0 /\ buffer.len < buffer.capacity
      BY <1>1
    <2>2. room \in Nat /\ todo \in Nat
      BY <1>2, <2>1
    <2> HIDE DEF room
    <2> QED BY <2>2
  <1> HIDE DEF chunk
  <1>4. data' \in Seq(Nat \ {0}) /\ Len(data') = Len(data) + chunk
    BY <1>1, <1>2, <1>3, ChunkLength
  <1>5. /\ buffer' \in Buffer /\ buffer'.len = buffer.len + chunk
        /\ buffer'.capacity = buffer.capacity /\ buffer'.block = buffer.block
        /\ buffer'.heap = buffer.heap
    <2>1. buffer' = [buffer EXCEPT !.len = buffer.len + chunk]
      BY <1>1
    <2> HIDE DEF DeriveInv
    <2>2. buffer.len + chunk \in Nat
      BY <1>2, <1>3
    <2> DEFINE n == buffer.len + chunk
    <2> HIDE DEF n
    <2>3. buffer' = [buffer EXCEPT !.len = n] /\ n \in Nat
      BY <2>1, <2>2 DEF n
    <2>4. buffer' \in Buffer
      BY <1>2, <2>3 DEF Buffer
    <2>5. /\ buffer'.len = n /\ buffer'.capacity = buffer.capacity
          /\ buffer'.block = buffer.block /\ buffer'.heap = buffer.heap
      BY <1>2, <2>3 DEF Buffer
    <2> QED BY <2>4, <2>5 DEF n
  <1>6. BufferTypeOK'
    <2>1. todo' \in Nat /\ pos' \in Nat
      <3> HIDE DEF DeriveInv
      <3> QED BY <1>1, <1>2, <1>3
    <2> QED BY <1>1, <1>4, <1>5, <2>1 DEF BufferTypeOK
  <1>7. BufferInv'
    <2>1. InBounds'
      <3>1. buffer.len = Len(data) /\ buffer.capacity + 1 <= buffer.block
        BY DEF BufferInv, InBounds
      <3>2. buffer.len + chunk <= buffer.capacity
        BY <1>2, <1>3
      <3> QED BY <1>4, <1>5, <3>1, <3>2 DEF InBounds
    <2>2. failed' \/ 2 * buffer'.capacity > SizeMax \/ data' = Text(pos')
      <3>1. CASE data = Text(pos)
        BY <1>1, <1>2, <1>3, <3>1, TextAppended
      <3> QED BY <1>1, <1>5, <3>1 DEF BufferInv
    <2>3. buffer'.capacity > 0 /\ buffer'.block <= SizeMax
      BY <1>5 DEF BufferInv
    <2> QED BY <1>1, <2>1, <2>2, <2>3 DEF BufferInv, Unrendered
  <1>8. ChildTypeOK' /\ MemoryInv' /\ OutcomeInv'
    <2>1. BufferBlock' = BufferBlock
      BY <1>5 DEF BufferBlock
    <2>2. failed' \in BOOLEAN
      BY <1>1 DEF ChildTypeOK
    <2> QED BY <1>1, <2>1, <2>2, RenderingStays
  <1> QED BY <1>6, <1>7, <1>8

(***************************************************************************)
(* A full buffer: the rest of a piece is dropped only if the capacity      *)
(* cannot be doubled.                                                      *)
(***************************************************************************)
LEMMA AppendFullStep ==
  ASSUME DeriveInv, AppendFull
  PROVE  DeriveInv'
  <1> USE DEF DeriveInv
  <1>1. /\ dpc = "append" /\ buffer.len = buffer.capacity
        /\ UNCHANGED <<fields, copied, buffer, data, pieces, kept, blocks, references, outcome,
                       failed>>
    BY DEF AppendFull
  <1>2. /\ todo \in Nat /\ pos \in Nat /\ candidate \in Nat /\ pieces \in Seq(1..SizeMax)
        /\ buffer.capacity \in Nat /\ buffer.block \in Nat /\ SizeMax \in Nat
    BY DeriveAssumption DEF BufferTypeOK, Buffer
  <1>3. buffer.capacity > 0 /\ buffer.capacity + 1 <= SizeMax
    BY <1>2 DEF BufferInv, InBounds
  <1>4. ASSUME Refused \/ Wanted <= buffer.capacity PROVE 2 * buffer.capacity > SizeMax
    <2> SUFFICES ASSUME 2 * buffer.capacity <= SizeMax PROVE FALSE
      BY <1>2
    <2>1. Wanted = 2 * buffer.capacity /\ Wanted < SizeMax /\ Wanted > buffer.capacity
      BY <1>2, <1>3, Doubling DEF Wanted
    <2> HIDE DEF DeriveInv
    <2> QED BY <1>2, <1>3, <1>4, <2>1 DEF Refused
  <1>5. CASE Drop /\ UNCHANGED <<dpc, candidate>> /\ (Refused \/ Wanted <= buffer.capacity)
    <2>1. todo' = 0 /\ pos' = pos + todo
      BY <1>5 DEF Drop
    <2>2. BufferTypeOK'
      <3>1. todo' \in Nat /\ pos' \in Nat
        BY <1>2, <2>1
      <3> QED BY <1>1, <1>5, <3>1 DEF BufferTypeOK
    <2>3. InBounds' /\ buffer'.capacity > 0 /\ buffer'.block <= SizeMax
      BY <1>1 DEF BufferInv, InBounds
    <2>4. 2 * buffer'.capacity > SizeMax
      BY <1>1, <1>4, <1>5
    <2> QED BY <1>1, <1>5, <2>2, <2>3, <2>4, RenderingStays
            DEF BufferInv, Unrendered, BufferBlock, ChildTypeOK
  <1>6. CASE /\ dpc' = "reserve" /\ candidate' = buffer.capacity /\ UNCHANGED <<todo, pos>>
             /\ ~(Refused \/ Wanted <= buffer.capacity)
    <2>1. BufferTypeOK'
      BY <1>1, <1>2, <1>6 DEF BufferTypeOK
    <2>2. InBounds' /\ buffer'.capacity > 0 /\ buffer'.block <= SizeMax
      BY <1>1 DEF BufferInv, InBounds
    <2>3. Wanted' > buffer'.capacity /\ Wanted' < SizeMax /\ candidate' <= SizeMax
      <3>1. Wanted' = Wanted
        BY <1>1 DEF Wanted
      <3>2. Wanted \in 0..SizeMax
        BY <1>2, WantedNat DEF Wanted
      <3>3. ~(Wanted > SizeMax - 1) /\ ~(Wanted <= buffer.capacity)
        BY <1>6 DEF Refused
      <3> HIDE DEF DeriveInv
      <3> QED BY <1>1, <1>2, <1>3, <1>6, <3>1, <3>2, <3>3
    <2>4. failed' \/ 2 * buffer'.capacity > SizeMax \/ data' = Text(pos')
      BY <1>1, <1>6 DEF BufferInv
    <2>5. BufferInv'
      BY <1>6, <2>2, <2>3, <2>4 DEF BufferInv, Unrendered
    <2> QED BY <1>1, <1>6, <2>1, <2>5, RenderingStays DEF BufferBlock, ChildTypeOK
  <1> QED BY <1>5, <1>6 DEF AppendFull

(***************************************************************************)
(* The loop of pslog_buffer_reserve never wraps.                           *)
(***************************************************************************)
LEMMA ReserveStep ==
  ASSUME DeriveInv, Reserve
  PROVE  DeriveInv'
  <1> USE DEF DeriveInv
  <1>1. /\ dpc = "reserve"
        /\ candidate' = (IF candidate > SizeMax \div 2 THEN Wanted ELSE 2 * candidate)
        /\ UNCHANGED <<dpc, fields, copied, buffer, data, pieces, todo, pos, kept, blocks,
                       references, outcome, failed>>
    BY DEF Reserve
  <1>2. candidate \in Nat /\ buffer.capacity \in Nat /\ SizeMax \in Nat
    BY DeriveAssumption DEF BufferTypeOK, Buffer
  <1>3. Wanted \in 0..SizeMax /\ Wanted' = Wanted
    BY <1>1, <1>2, WantedNat DEF Wanted
  <1>4. candidate' \in Nat /\ candidate' <= SizeMax
    <2> HIDE DEF DeriveInv
    <2> QED BY <1>1, <1>2, <1>3
  <1>5. BufferTypeOK'
    BY <1>1, <1>4 DEF BufferTypeOK
  <1>6. BufferInv'
    <2>1. InBounds' /\ buffer'.capacity > 0 /\ buffer'.block <= SizeMax
      BY <1>1 DEF BufferInv, InBounds
    <2>2. Wanted' > buffer'.capacity /\ Wanted' < SizeMax
      BY <1>1, <1>3 DEF BufferInv
    <2>3. failed' \/ 2 * buffer'.capacity > SizeMax \/ data' = Text(pos')
      BY <1>1 DEF BufferInv
    <2> QED BY <1>1, <1>4, <2>1, <2>2, <2>3 DEF BufferInv, Unrendered
  <1> QED BY <1>1, <1>5, <1>6, RenderingStays DEF BufferBlock, ChildTypeOK

(***************************************************************************)
(* A block of the new capacity, or the rest of the piece is dropped for    *)
(* want of memory.                                                         *)
(***************************************************************************)
LEMMA GrowStep ==
  ASSUME DeriveInv, Grow
  PROVE  DeriveInv'
  <1> USE DEF DeriveInv
  <1>1. /\ dpc = "reserve" /\ candidate >= Wanted /\ dpc' = "append" /\ candidate' = 0
        /\ UNCHANGED <<fields, copied, data, pieces, kept, references, outcome>>
    BY DEF Grow
  <1>2. PICK ok \in BOOLEAN :
          /\ ok => candidate < SizeMax
          /\ Allocates(Sole("buffer"), ok)
          /\ IF ok THEN /\ buffer' = [HeapBuffer(candidate) EXCEPT !.len = buffer.len]
                        /\ UNCHANGED <<todo, pos>>
                   ELSE Drop /\ UNCHANGED buffer
    BY DEF Grow
  <1>3. /\ todo \in Nat /\ pos \in Nat /\ candidate \in Nat /\ SizeMax \in Nat
        /\ buffer.capacity \in Nat /\ buffer.len \in Nat
    BY DeriveAssumption DEF BufferTypeOK, Buffer
  <1>4. Wanted \in 0..SizeMax /\ Wanted > buffer.capacity /\ buffer.capacity > 0
        /\ buffer.len = Len(data) /\ buffer.len <= buffer.capacity
    BY <1>1, <1>3, WantedNat DEF Wanted, BufferInv, InBounds
  <1>5. failed' \in BOOLEAN
    BY <1>2 DEF Allocates
  <1>6. CASE ok
    <2>1. buffer' = [capacity |-> candidate, block |-> candidate + 1, heap |-> TRUE,
                     len |-> buffer.len]
      BY <1>2, <1>6 DEF HeapBuffer
    <2>2. blocks' = blocks \cup {Sole("buffer")} /\ BufferBlock' = {Sole("buffer")}
      BY <1>2, <1>6, <2>1 DEF Allocates, BufferBlock
    <2>3. BufferTypeOK'
      <3>1. buffer' \in Buffer
        BY <1>3, <2>1 DEF Buffer
      <3> QED BY <1>1, <1>2, <1>6, <3>1 DEF BufferTypeOK
    <2>4. candidate > buffer.capacity /\ candidate < SizeMax
      BY <1>1, <1>2, <1>3, <1>4, <1>6
    <2>5. InBounds' /\ buffer'.capacity > 0 /\ buffer'.block <= SizeMax
      <3>1. /\ buffer'.capacity = candidate /\ buffer'.block = candidate + 1
            /\ buffer'.len = buffer.len
        BY <2>1
      <3> HIDE DEF DeriveInv
      <3> QED BY <1>1, <1>3, <1>4, <2>4, <3>1 DEF InBounds
    <2>6. failed' \/ 2 * buffer'.capacity > SizeMax \/ data' = Text(pos')
      <3>1. CASE failed
        BY <1>2, <3>1 DEF Allocates
      <3>2. CASE 2 * buffer.capacity > SizeMax
        <4>1. 2 * candidate > SizeMax
          BY <1>3, <2>4, <3>2
        <4> QED BY <2>1, <4>1
      <3>3. CASE data = Text(pos)
        BY <1>1, <1>2, <1>6, <3>3
      <3> QED BY <3>1, <3>2, <3>3 DEF BufferInv
    <2>7. BufferInv'
      BY <1>1, <2>5, <2>6 DEF BufferInv, Unrendered
    <2> QED BY <1>1, <1>5, <2>2, <2>3, <2>7, RenderingStays
  <1>7. CASE ~ok
    <2>1. failed' /\ blocks' = blocks /\ buffer' = buffer /\ todo' = 0 /\ pos' = pos + todo
      BY <1>2, <1>7 DEF Allocates, Drop
    <2>2. BufferTypeOK'
      <3>1. pos' \in Nat
        BY <1>3, <2>1
      <3> QED BY <1>1, <2>1, <3>1 DEF BufferTypeOK
    <2>3. InBounds' /\ buffer'.capacity > 0 /\ buffer'.block <= SizeMax
      BY <1>1, <2>1 DEF BufferInv, InBounds
    <2>4. BufferInv'
      BY <1>1, <2>1, <2>3 DEF BufferInv, Unrendered
    <2>5. BufferBlock' = BufferBlock
      BY <2>1 DEF BufferBlock
    <2> QED BY <1>1, <1>5, <2>1, <2>2, <2>4, <2>5, RenderingStays
  <1> QED BY <1>6, <1>7

(***************************************************************************)
(* The text is kept and the block of the buffer freed.                     *)
(***************************************************************************)
LEMMA KeepStep ==
  ASSUME DeriveInv, Keep
  PROVE  DeriveInv'
  <1> USE DEF DeriveInv
  <1>1. /\ dpc = "append"
        /\ UNCHANGED <<fields, copied, buffer, data, pieces, todo, pos, candidate, references>>
    BY DEF Keep, bufferVars
  <1>2. outcome = "none" /\ kept = NotKept /\ failed \in BOOLEAN
    BY <1>1 DEF OutcomeInv, ChildTypeOK
  <1>3. /\ data \in Seq(Nat \ {0}) /\ pieces \in Seq(1..SizeMax) /\ todo \in Nat
        /\ candidate \in Nat
    BY DEF BufferTypeOK
  <1>4. \/ references = 1 /\ blocks = BufferBlock
        \/ references = 2 /\ blocks = ChildBlocks \cup BufferBlock
    BY <1>1 DEF MemoryInv
  <1>5. BufferBlock \subseteq {Sole("buffer")}
    BY DEF BufferBlock
  <1>6. CASE Sole("impl") \notin blocks
    <2>1. /\ kept' = (IF FitsLiteral THEN data ELSE NotKept)
          /\ blocks' = (blocks \cup {}) \ {Sole("buffer")}
          /\ outcome' = "literal" /\ dpc' = "idle" /\ failed' = failed
      BY <1>6 DEF Keep, DestroyBuffer
    <2>2. references = 1 /\ blocks = BufferBlock
      BY <1>4, <1>6, ChildBlocksApart
    <2>3. blocks' = {}
      BY <1>5, <2>1, <2>2
    <2>4. BufferTypeOK' /\ BufferInv'
      BY <1>1, <1>3, <2>1, BufferStays DEF Unrendered
    <2>5. ChildTypeOK'
      BY <1>1, <2>1 DEF ChildTypeOK, DPC
    <2>6. MemoryInv'
      BY <1>1, <2>1, <2>2, <2>3 DEF MemoryInv, NothingLost
    <2>7. kept' # NotKept => Len(data') < LiteralCapacity
      <3>1. buffer.len = Len(data)
        BY DEF BufferInv, InBounds
      <3>2. Len(data) \in Nat /\ LiteralCapacity \in Int
        BY <1>3, DeriveAssumption
      <3> QED BY <1>1, <2>1, <3>1, <3>2 DEF FitsLiteral
    <2>8. OutcomeInv'
      BY <2>1, <2>7 DEF OutcomeInv
    <2> QED BY <2>4, <2>5, <2>6, <2>8
  <1>7. CASE Sole("impl") \in blocks
    <2>1. references = 2 /\ blocks = ChildBlocks \cup BufferBlock
      BY <1>4, <1>7, ChildBlocksApart
    <2>2. ChildBlocks' = ChildBlocks
      BY <1>1, ChildBlocksStay
    <2>3. /\ Sole("buffer") \notin ChildBlocks /\ Sole("prefix") # Sole("buffer")
      BY ChildBlocksApart
    <2>4. outcome' = "none"
      BY <1>2, <1>7 DEF Keep
    <2>5. CASE /\ blocks' = (blocks \cup {}) \ {Sole("buffer")} /\ dpc' = "kept"
               /\ kept' = kept /\ failed' = failed
      <3>1. blocks' = ChildBlocks' \cup PrefixBlock'
        BY <1>2, <1>5, <2>1, <2>2, <2>3, <2>5 DEF PrefixBlock
      <3>2. BufferTypeOK' /\ BufferInv'
        BY <1>1, <1>3, <2>5, BufferStays DEF Unrendered
      <3>3. ChildTypeOK'
        BY <1>1, <1>2, <2>4, <2>5 DEF ChildTypeOK, DPC
      <3>4. MemoryInv'
        BY <1>1, <2>1, <2>5, <3>1 DEF MemoryInv, NothingLost
      <3>5. OutcomeInv'
        BY <1>2, <2>4, <2>5 DEF OutcomeInv
      <3> QED BY <3>2, <3>3, <3>4, <3>5
    <2>6. CASE /\ blocks' = (blocks \cup {Sole("prefix")}) \ {Sole("buffer")} /\ dpc' = "kept"
               /\ kept' = data /\ failed' = failed
      <3>1. kept' # NotKept
        BY <1>3, <2>6, DataIsNoMark
      <3>2. blocks' = ChildBlocks' \cup PrefixBlock'
        BY <1>5, <2>1, <2>2, <2>3, <2>6, <3>1 DEF PrefixBlock
      <3>3. BufferTypeOK' /\ BufferInv'
        BY <1>1, <1>3, <2>6, BufferStays DEF Unrendered
      <3>4. ChildTypeOK'
        BY <1>1, <1>2, <2>4, <2>6 DEF ChildTypeOK, DPC
      <3>5. MemoryInv'
        BY <1>1, <2>1, <2>6, <3>2 DEF MemoryInv, NothingLost
      <3>6. OutcomeInv'
        BY <2>4, <2>6 DEF OutcomeInv
      <3> QED BY <3>3, <3>4, <3>5, <3>6
    <2>7. CASE /\ blocks' = (blocks \cup {}) \ {Sole("buffer")} /\ dpc' = "destroy"
               /\ kept' = kept /\ failed' = TRUE
      <3>1. blocks' \subseteq ChildBlocks'
        BY <1>5, <2>1, <2>2, <2>7
      <3>2. BufferTypeOK' /\ BufferInv'
        BY <1>1, <1>3, <2>7, BufferStays DEF Unrendered
      <3>3. ChildTypeOK'
        BY <1>1, <1>2, <2>4, <2>7 DEF ChildTypeOK, DPC
      <3>4. MemoryInv'
        BY <1>1, <2>1, <2>7, <3>1 DEF MemoryInv, NothingLost
      <3>5. OutcomeInv'
        BY <1>2, <2>4, <2>7 DEF OutcomeInv
      <3> QED BY <3>2, <3>3, <3>4, <3>5
    <2> QED BY <1>7, <2>5, <2>6, <2>7 DEF Keep, DestroyBuffer
  <1> QED BY <1>6, <1>7

(***************************************************************************)
(* with() returns the child.                                               *)
(***************************************************************************)
LEMMA WithReturnStep ==
  ASSUME DeriveInv, WithReturn
  PROVE  DeriveInv'
  <1> USE DEF DeriveInv
  <1>1. /\ dpc = "kept" /\ dpc' = "idle" /\ outcome' = "child"
        /\ UNCHANGED <<fields, copied, buffer, data, pieces, todo, pos, candidate, kept, blocks,
                       references, failed>>
    BY DEF WithReturn, bufferVars
  <1>2. BufferTypeOK' /\ BufferInv'
    <2>1. pieces \in Seq(1..SizeMax) /\ todo \in Nat /\ candidate \in Nat
      BY DEF BufferTypeOK
    <2> QED BY <1>1, <2>1, BufferStays DEF Unrendered
  <1>3. ChildTypeOK'
    BY <1>1 DEF ChildTypeOK, DPC
  <1>4. MemoryInv'
    <2>1. references = 2 /\ blocks = ChildBlocks \cup PrefixBlock
      BY <1>1 DEF MemoryInv
    <2>2. ChildBlocks' = ChildBlocks /\ PrefixBlock' = PrefixBlock
      BY <1>1, ChildBlocksStay DEF PrefixBlock
    <2>3. blocks' = ChildBlocks' \cup PrefixBlock'
      BY <1>1, <2>1, <2>2
    <2> QED BY <1>1, <2>1, <2>3 DEF MemoryInv, NothingLost, ChildBlocks, PrefixBlock, Base
  <1>5. OutcomeInv'
    BY <1>1 DEF OutcomeInv
  <1> QED BY <1>2, <1>3, <1>4, <1>5

(***************************************************************************)
(* destroy() frees all there is, of a child or of an unfinished one.       *)
(***************************************************************************)
LEMMA DestroyStep ==
  ASSUME DeriveInv, DestroyChild
  PROVE  DeriveInv'
  <1> USE DEF DeriveInv
  <1>1. /\ dpc = "destroy" \/ (dpc = "idle" /\ outcome = "child")
        /\ blocks' = blocks \ (FieldBlocks(copied)
                               \cup {Sole("fields"), Sole("prefix"), Sole("impl"), Sole("logger")})
        /\ copied' = 0 /\ references' = references - 1 /\ kept' = NotKept
        /\ dpc' = "idle" /\ outcome' = "null"
        /\ UNCHANGED <<fields, buffer, data, pieces, todo, pos, candidate, failed>>
    BY DEF DestroyChild, bufferVars
  <1>2. BufferTypeOK' /\ BufferInv'
    <2>1. pieces \in Seq(1..SizeMax) /\ todo \in Nat /\ candidate \in Nat
      BY DEF BufferTypeOK
    <2> QED BY <1>1, <2>1, BufferStays DEF Unrendered
  <1>3. ChildTypeOK'
    <2>1. 0 \in 0..Len(fields)
      BY DEF ChildTypeOK
    <2> QED BY <1>1, <2>1 DEF ChildTypeOK, DPC
  <1>4. references = 2 /\ blocks \subseteq ChildBlocks \cup {Sole("prefix")}
    <2>1. CASE dpc = "destroy"
      BY <2>1 DEF MemoryInv
    <2>2. CASE dpc = "idle" /\ outcome = "child"
      BY <2>2 DEF MemoryInv, NothingLost, ChildBlocks, Base
    <2> QED BY <1>1, <2>1, <2>2
  <1>5. blocks' = {}
    BY <1>1, <1>4 DEF ChildBlocks, Base
  <1>6. MemoryInv'
    BY <1>1, <1>4, <1>5 DEF MemoryInv, NothingLost
  <1>7. OutcomeInv'
    BY <1>1 DEF OutcomeInv
  <1> QED BY <1>2, <1>3, <1>6, <1>7

-----------------------------------------------------------------------------
(* The theorem.                                                            *)

(***************************************************************************)
(* What every state of a derivation satisfies.                             *)
(***************************************************************************)
LEMMA DeriveInvariant == DeriveSpec => []DeriveInv
  <1>1. DeriveInit => DeriveInv
    <2> SUFFICES ASSUME DeriveInit PROVE DeriveInv
      OBVIOUS
    <2> USE DEF DeriveInit
    <2>1. SizeMax \in Nat /\ DefaultCapacity \in Nat /\ DefaultCapacity > 0
          /\ DefaultCapacity + 2 <= SizeMax
      BY DeriveAssumption
    <2>2. buffer \in Buffer /\ buffer.capacity = DefaultCapacity /\ buffer.len = 0
          /\ buffer.block = DefaultCapacity + 1
      BY <2>1 DEF NoBuffer, Buffer
    <2>3. <<>> \in Seq(Nat \ {0}) /\ <<>> \in Seq(1..SizeMax) /\ <<>> \in Seq(FieldTypes)
          /\ Len(<<>>) = 0
      OBVIOUS
    <2>4. BufferTypeOK
      BY <2>2, <2>3 DEF BufferTypeOK
    <2>5. ChildTypeOK
      <3>1. fields \in Seq(FieldTypes) /\ copied \in 0..Len(fields)
        BY <2>3
      <3>2. failed \in BOOLEAN
        OBVIOUS
      <3> QED BY <3>1, <3>2 DEF ChildTypeOK, DPC
    <2>6. BufferInv
      <3>1. data = Text(pos)
        BY DEF Text
      <3>2. InBounds
        BY <2>1, <2>2 DEF InBounds
      <3> QED BY <2>1, <2>2, <3>1, <3>2 DEF BufferInv
    <2>7. MemoryInv
      BY DEF MemoryInv, NothingLost
    <2>8. OutcomeInv
      BY DEF OutcomeInv
    <2> QED BY <2>4, <2>5, <2>6, <2>7, <2>8 DEF DeriveInv
  <1>2. DeriveInv /\ [DeriveNext]_deriveVars => DeriveInv'
    <2> SUFFICES ASSUME DeriveInv, [DeriveNext]_deriveVars PROVE DeriveInv'
      OBVIOUS
    <2>1. CASE \E fs \in FieldLists, t \in PieceLists : CloneWithFields(fs, t)
      BY <2>1, CloneStep
    <2>2. CASE \E t \in PieceLists : InitLiteral(t)
      BY <2>2, InitLiteralStep
    <2>3. CASE DeriveStep
      BY <2>3, AllocateStep, CopyArrayStep, CopyFieldStep, InitPrefixStep, AppendNextStep,
         AppendCopyStep, AppendFullStep, ReserveStep, GrowStep, KeepStep, WithReturnStep
      DEF DeriveStep
    <2>4. CASE DestroyChild
      BY <2>4, DestroyStep
    <2>5. CASE UNCHANGED deriveVars
      <3>1. UNCHANGED <<dpc, fields, copied, buffer, data, pieces, todo, pos, candidate, kept,
                        blocks, references, outcome, failed>>
        BY <2>5 DEF deriveVars, bufferVars
      <3>2. BufferTypeOK' /\ ChildTypeOK'
        BY <3>1 DEF DeriveInv, BufferTypeOK, ChildTypeOK
      <3>3. BufferInv'
        BY <3>1 DEF DeriveInv, BufferInv, InBounds, Unrendered, Wanted
      <3>4. OutcomeInv'
        BY <3>1 DEF DeriveInv, OutcomeInv
      <3>5. MemoryInv'
        <4>1. /\ ChildBlocks' = ChildBlocks /\ BufferBlock' = BufferBlock
              /\ PrefixBlock' = PrefixBlock /\ Base' = Base /\ NothingLost'
          BY <3>1, ChildBlocksStay
          DEF BufferBlock, PrefixBlock, Base, NothingLost, FieldBlocks, DeriveInv, MemoryInv
        <4> QED BY <3>1, <4>1 DEF DeriveInv, MemoryInv
      <3> QED BY <3>2, <3>3, <3>4, <3>5 DEF DeriveInv
    <2> QED BY <2>1, <2>2, <2>3, <2>4, <2>5 DEF DeriveNext
  <1> QED BY <1>1, <1>2, PTL DEF DeriveSpec

(***************************************************************************)
(* with() and the literals of pslog_new, for any width of size_t, any      *)
(* estimate, text and fields and whichever allocations fail: every byte    *)
(* and its NUL lie in their block, a derivation that fails leaves no block *)
(* and no reference, a child has exactly the blocks destroy() frees, and   *)
(* what is kept is the whole text unless an allocation failed or the       *)
(* capacity could no longer be doubled.                                    *)
(***************************************************************************)
THEOREM DerivationsWhole == DeriveSpec => []DerivedWhole
  <1>1. DeriveInv => DerivedWhole
    <2> SUFFICES ASSUME DeriveInv PROVE DerivedWhole
      OBVIOUS
    <2> USE DEF DeriveInv
    <2>1. InBounds /\ NothingLost
      BY DEF BufferInv, MemoryInv
    <2>2. KeptUnlessFailed
      <3> SUFFICES ASSUME kept # NotKept, ~failed, 2 * buffer.capacity <= SizeMax
                   PROVE  kept = Text(pos) /\ (outcome = "literal" => pos < LiteralCapacity)
        BY DEF KeptUnlessFailed, Text
      <3>1. SizeMax \in Nat /\ buffer.capacity \in Nat /\ pos \in Nat
        BY DeriveAssumption DEF BufferTypeOK, Buffer
      <3>2. ~(2 * buffer.capacity > SizeMax)
        BY <3>1
      <3>3. data = Text(pos) /\ kept = data
        BY <3>2 DEF BufferInv, ChildTypeOK
      <3>4. Len(data) = pos
        BY <3>1, <3>3, TextLength
      <3> QED BY <3>3, <3>4 DEF OutcomeInv
    <2> QED BY <2>1, <2>2 DEF DerivedWhole
  <1> QED BY <1>1, DeriveInvariant, PTL

-----------------------------------------------------------------------------
(* One call of logf or withf.                                              *)

KPC == {"idle", "resolve", "fields", "key", "verb", "parsed", "malformed", "nomemory", "done"}

ArgTypes == {"none", "STRING", "DOUBLE", "POINTER", "BOOL", "SIGNED_INT", "UNSIGNED_INT",
             "SIGNED_LONG", "UNSIGNED_LONG", "ERRNO"}

KvfmtEntry == [key : Seq(STRING), arg : ArgTypes]

\* The types of what a call keeps.
CallTypeOK ==
  /\ op \in {"none", "logf", "withf"} /\ level \in Level /\ min \in Level
  /\ text \in Seq(STRING) /\ (\A i \in DOMAIN text : text[i] # NUL)
  /\ kpc \in KPC /\ cursor \in Nat /\ keyLen \in Nat /\ long \in BOOLEAN
  /\ entry \in Seq(KvfmtEntry)

\* The parser is within its bounds, a key lies behind the start of the string, and
\* there is a spec to spare for a key and one in hand for a verb.
ParserInv ==
  /\ ParserInBounds
  /\ keyLen < cursor
  /\ kpc = "idle" => cursor = 1
  /\ kpc = "key" => Len(entry) < MaxFields
  /\ kpc = "verb" => Len(entry) > 0

\* A call in progress has not done anything yet, and has the errno of its moment.
CallInv ==
  /\ saved = atCall
  /\ kpc # "done" => result = NoResult

KvfmtInv == CallTypeOK /\ ParserInv /\ CallInv /\ CallAsMade

(***************************************************************************)
(* A character that is not the NUL lies within the string.                 *)
(***************************************************************************)
LEMMA CharWithin ==
  ASSUME CallTypeOK, NEW k \in Nat, Char(k) # NUL
  PROVE  cursor + k <= Len(text)
  BY DEF CallTypeOK, Char

(***************************************************************************)
(* The entry of a key whose verb is still to come.                         *)
(***************************************************************************)
LEMMA FreshEntry ==
  ASSUME NEW k \in Seq(STRING)
  PROVE  [key |-> k, arg |-> "none"] \in KvfmtEntry
  <1>1. "none" \in ArgTypes
    BY DEF ArgTypes
  <1> QED BY <1>1, Zenon DEF KvfmtEntry

(***************************************************************************)
(* A part of the kvfmt is a key.                                           *)
(***************************************************************************)
LEMMA KeyCopied ==
  ASSUME NEW t \in Seq(STRING), NEW m \in Int, NEW n \in Int, 1 <= m, n <= Len(t)
  PROVE  [key |-> SubSeq(t, m, n), arg |-> "none"] \in KvfmtEntry
  <1>1. \A i \in m..n : i \in 1..Len(t)
    OBVIOUS
  <1>2. \A i \in m..n : t[i] \in STRING
    BY <1>1, ElementOfSeq
  <1>3. SubSeq(t, m, n) \in Seq(STRING)
    BY <1>2, SubSeqProperties
  <1> QED BY <1>3, FreshEntry

(***************************************************************************)
(* A space is not one of the other characters the grammar tells apart, and *)
(* no verb is a space, the NUL or an l.                                    *)
(***************************************************************************)
LEMMA Characters ==
  /\ Space \in Banned /\ Space # NUL /\ Space # "=" /\ Space # "%" /\ Space # "l"
  /\ \A v \in Verbs : v # Space /\ v # NUL /\ v # "l"
  <1>1. Space \in Banned
    BY Zenon DEF Banned
  <1>2. Space # NUL /\ Space # "=" /\ Space # "%" /\ Space # "l"
    BY Zenon DEF Space, NUL
  <1>3. Verbs = {"s", "f", "p", "b", "d", "u", "m"}
    BY DEF Verbs, VerbType
  <1>4. /\ Space # "s" /\ Space # "f" /\ Space # "p" /\ Space # "b" /\ Space # "d"
        /\ Space # "u" /\ Space # "m"
    BY Zenon DEF Space
  <1>5. \A v \in Verbs : v # Space
    BY <1>3, <1>4
  <1>6. \A v \in Verbs : v # NUL /\ v # "l"
    BY <1>3 DEF NUL
  <1> QED BY <1>1, <1>2, <1>5, <1>6

(***************************************************************************)
(* Every verb, long or not, has a type of argument.                        *)
(***************************************************************************)
LEMMA ArgTypeKnown ==
  ASSUME NEW v \in Verbs, NEW l
  PROVE  ArgType(v, l) \in ArgTypes
  <1>1. v \in {"s", "f", "p", "b", "d", "u", "m"}
    BY DEF Verbs, VerbType
  <1>2. VerbType[v] \in ArgTypes
    <2>1. /\ VerbType["s"] = "STRING" /\ VerbType["f"] = "DOUBLE" /\ VerbType["p"] = "POINTER"
          /\ VerbType["b"] = "BOOL" /\ VerbType["d"] = "SIGNED_INT"
          /\ VerbType["u"] = "UNSIGNED_INT" /\ VerbType["m"] = "ERRNO"
      BY DEF VerbType
    <2> QED BY <1>1, <2>1 DEF ArgTypes
  <1>3. "SIGNED_LONG" \in ArgTypes /\ "UNSIGNED_LONG" \in ArgTypes
    BY DEF ArgTypes
  <1>4. CASE v = "d" /\ l
    BY <1>3, <1>4 DEF ArgType
  <1>5. CASE v = "u" /\ l
    BY <1>3, <1>5 DEF ArgType
  <1>6. CASE ~(v = "d" /\ l) /\ ~(v = "u" /\ l)
    BY <1>2, <1>6 DEF ArgType
  <1> QED BY <1>4, <1>5, <1>6

(***************************************************************************)
(* A call that has done nothing and is not over is as made.                *)
(***************************************************************************)
LEMMA NothingDone ==
  ASSUME result' = NoResult, kpc' # "done"
  PROVE  CallAsMade'
  BY DEF CallAsMade, ErrnoOfCall, MalformedIsReported, NoResult

(***************************************************************************)
(* A call of logf that the gate lets pass, but not its diagnostic, is a    *)
(* NOLEVEL call on a logger above ERROR.                                   *)
(***************************************************************************)
LEMMA DiagnosticPasses ==
  ASSUME level \in Level, min \in Level, LevelEnabled(min, level),
         ~LevelEnabled(min, DiagnosticLevel(level))
  PROVE  level = NOLEVEL /\ min > ERROR
  BY DEF Level, LevelEnabled, DiagnosticLevel, Threshold, TRACE, DEBUG, INFO, WARN, ERROR,
         FATAL, PANIC, NOLEVEL, DISABLED

(***************************************************************************)
(* The gate, and errno saved before anything else.                         *)
(***************************************************************************)
LEMMA LogfStep ==
  ASSUME KvfmtInv, NEW l \in Levels, NEW m \in MinLevels, NEW t \in Texts, Logf(l, m, t)
  PROVE  KvfmtInv'
  <1> USE DEF KvfmtInv
  <1>1. /\ kpc = "idle" /\ op' = "logf" /\ level' = l /\ min' = m /\ text' = t
        /\ saved' = errno /\ atCall' = errno
        /\ kpc' = (IF LevelEnabled(m, l) THEN "resolve" ELSE "done")
        /\ UNCHANGED <<cursor, keyLen, long, entry, errno, result>>
    BY DEF Logf
  <1>2. t \in Seq(STRING) /\ (\A i \in DOMAIN t : t[i] # NUL) /\ l \in Level /\ m \in Level
    BY KvfmtAssumption
  <1>3. CallTypeOK'
    BY <1>1, <1>2 DEF CallTypeOK, KPC
  <1>4. ParserInv'
    <2>1. cursor = 1 /\ Len(t) \in Nat
      BY <1>1, <1>2 DEF ParserInv
    <2> QED BY <1>1, <2>1 DEF ParserInv, ParserInBounds
  <1>5. result = NoResult
    BY <1>1 DEF CallInv
  <1>6. CallInv'
    BY <1>1, <1>5 DEF CallInv
  <1>7. CallAsMade'
    <2>1. CASE LevelEnabled(m, l)
      BY <1>1, <1>5, <2>1, NothingDone
    <2>2. CASE ~LevelEnabled(m, l)
      BY <1>1, <1>5, <2>2 DEF CallAsMade, ErrnoOfCall, MalformedIsReported, NoResult
    <2> QED BY <2>1, <2>2
  <1> QED BY <1>3, <1>4, <1>6, <1>7

(***************************************************************************)
(* withf has no gate.                                                      *)
(***************************************************************************)
LEMMA WithfStep ==
  ASSUME KvfmtInv, NEW m \in MinLevels, NEW t \in Texts, Withf(m, t)
  PROVE  KvfmtInv'
  <1> USE DEF KvfmtInv
  <1>1. /\ kpc = "idle" /\ op' = "withf" /\ min' = m /\ text' = t
        /\ saved' = errno /\ atCall' = errno /\ kpc' = "resolve"
        /\ UNCHANGED <<level, cursor, keyLen, long, entry, errno, result>>
    BY DEF Withf
  <1>2. t \in Seq(STRING) /\ (\A i \in DOMAIN t : t[i] # NUL) /\ m \in Level
    BY KvfmtAssumption
  <1>3. CallTypeOK'
    BY <1>1, <1>2 DEF CallTypeOK, KPC
  <1>4. ParserInv'
    <2>1. cursor = 1 /\ Len(t) \in Nat
      BY <1>1, <1>2 DEF ParserInv
    <2> QED BY <1>1, <2>1 DEF ParserInv, ParserInBounds
  <1>5. result = NoResult
    BY <1>1 DEF CallInv
  <1>6. CallInv'
    BY <1>1, <1>5 DEF CallInv
  <1> QED BY <1>1, <1>3, <1>4, <1>5, <1>6, NothingDone

(***************************************************************************)
(* The lock and the copy of the kvfmt.                                     *)
(***************************************************************************)
LEMMA ResolveStep ==
  ASSUME KvfmtInv, Resolve
  PROVE  KvfmtInv'
  <1> USE DEF KvfmtInv
  <1>1. /\ kpc = "resolve" /\ kpc' \in {"fields", "nomemory"}
        /\ UNCHANGED <<op, level, min, text, atCall, cursor, keyLen, long, entry, saved, result>>
    BY DEF Resolve, callVars
  <1>2. CallTypeOK'
    BY <1>1 DEF CallTypeOK, KPC
  <1>3. ParserInv'
    BY <1>1 DEF ParserInv, ParserInBounds
  <1>4. CallInv' /\ result' = NoResult /\ kpc' # "done"
    BY <1>1 DEF CallInv
  <1> QED BY <1>2, <1>3, <1>4, NothingDone

(***************************************************************************)
(* Between two fields: a key is begun only if there is a spec for it.      *)
(***************************************************************************)
LEMMA FieldStep ==
  ASSUME KvfmtInv, Field
  PROVE  KvfmtInv'
  <1> USE DEF KvfmtInv
  <1>1. /\ kpc = "fields"
        /\ UNCHANGED <<op, level, min, text, atCall, long, entry, errno, saved, result>>
    BY DEF Field, callVars
  <1>2. cursor \in Nat /\ Len(text) \in Nat /\ Len(entry) \in Nat /\ MaxFields \in Nat
        /\ keyLen \in Nat
    BY KvfmtAssumption DEF CallTypeOK
  <1>3. CASE Char(0) = Space /\ cursor' = cursor + 1 /\ UNCHANGED <<kpc, keyLen>>
    <2>1. cursor + 0 <= Len(text)
      <3> Char(0) # NUL
        BY <1>3, Characters
      <3> QED BY CharWithin
    <2>2. cursor' = cursor + 1 /\ kpc' = "fields" /\ keyLen' = keyLen
      BY <1>1, <1>3
    <2>3. CallTypeOK'
      BY <1>1, <1>2, <2>2 DEF CallTypeOK, KPC
    <2>4. ParserInv'
      BY <1>1, <1>2, <2>1, <2>2 DEF ParserInv, ParserInBounds
    <2>5. CallInv' /\ result' = NoResult /\ kpc' # "done"
      BY <1>1, <2>2 DEF CallInv
    <2> QED BY <2>3, <2>4, <2>5, NothingDone
  <1>4. CASE kpc' = "parsed" /\ UNCHANGED <<cursor, keyLen>>
    <2>1. CallTypeOK'
      BY <1>1, <1>4 DEF CallTypeOK, KPC
    <2>2. ParserInv'
      BY <1>1, <1>4 DEF ParserInv, ParserInBounds
    <2>3. CallInv' /\ result' = NoResult /\ kpc' # "done"
      BY <1>1, <1>4 DEF CallInv
    <2> QED BY <2>1, <2>2, <2>3, NothingDone
  <1>5. CASE /\ keyLen' = 0 /\ UNCHANGED cursor
             /\ kpc' = IF Len(entry) >= MaxFields THEN "malformed" ELSE "key"
    <2>1. kpc' \in {"malformed", "key"} /\ (kpc' = "key" => Len(entry) < MaxFields)
      BY <1>2, <1>5
    <2>2. CallTypeOK'
      BY <1>1, <1>5, <2>1 DEF CallTypeOK, KPC
    <2>3. ParserInv'
      BY <1>1, <1>2, <1>5, <2>1 DEF ParserInv, ParserInBounds
    <2>4. CallInv' /\ result' = NoResult /\ kpc' # "done"
      BY <1>1, <2>1 DEF CallInv
    <2> QED BY <2>2, <2>3, <2>4, NothingDone
  <1> QED
    <2> USE DEF Field
    <2> QED BY <1>3, <1>4, <1>5

(***************************************************************************)
(* A key: the cursor passes the "=%" and the l only where they are.        *)
(***************************************************************************)
LEMMA KeyStep ==
  ASSUME KvfmtInv, Key
  PROVE  KvfmtInv'
  <1> USE DEF KvfmtInv
  <1> DEFINE spec == [key |-> SubSeq(text, cursor - keyLen, cursor - 1), arg |-> "none"]
  <1>1. /\ kpc = "key"
        /\ UNCHANGED <<op, level, min, text, atCall, errno, saved, result>>
    BY DEF Key, callVars
  <1>2. cursor \in Nat /\ Len(text) \in Nat /\ Len(entry) \in Nat /\ MaxFields \in Nat
        /\ keyLen \in Nat /\ entry \in Seq(KvfmtEntry) /\ keyLen < cursor
        /\ text \in Seq(STRING)
    BY KvfmtAssumption DEF CallTypeOK, ParserInv
  <1>3. \/ /\ Char(1) # NUL /\ cursor' = cursor + 1 /\ keyLen' = keyLen + 1
           /\ kpc' = "key" /\ UNCHANGED <<long, entry>>
        \/ /\ kpc' = "malformed" /\ UNCHANGED <<cursor, keyLen, long, entry>>
        \/ /\ AtVerb /\ kpc' = "verb" /\ keyLen' = keyLen
           /\ long' = (Char(2) = "l")
           /\ cursor' = IF Char(2) = "l" THEN cursor + 3 ELSE cursor + 2
           /\ entry' = Append(entry, spec)
    BY <1>1 DEF Key
  <1>4. /\ Char(1) # NUL => cursor + 1 <= Len(text)
        /\ AtVerb => cursor + 1 <= Len(text)
        /\ Char(2) = "l" => cursor + 2 <= Len(text)
    BY CharWithin DEF AtVerb, NUL
  <1>5. spec \in KvfmtEntry
    <2>1. /\ cursor - keyLen \in Int /\ cursor - 1 \in Int /\ 1 <= cursor - keyLen
          /\ cursor - 1 <= Len(text)
      BY <1>2 DEF ParserInv, ParserInBounds
    <2> QED BY <1>2, <2>1, KeyCopied
  <1> HIDE DEF spec
  <1>6. Append(entry, spec) \in Seq(KvfmtEntry) /\ Len(Append(entry, spec)) = Len(entry) + 1
    BY <1>2, <1>5, AppendProperties
  <1>7. CallTypeOK'
    <2>1. entry' \in Seq(KvfmtEntry)
      BY <1>2, <1>3, <1>6
    <2>2. /\ cursor' \in Nat /\ keyLen' \in Nat /\ kpc' \in KPC
      BY <1>2, <1>3 DEF KPC
    <2>3. long' \in BOOLEAN
      BY <1>3 DEF CallTypeOK
    <2> QED BY <1>1, <2>1, <2>2, <2>3 DEF CallTypeOK
  <1>8. ParserInv'
    <2>1. CASE kpc' = "key" \/ kpc' = "malformed"
      BY <1>1, <1>2, <1>3, <1>4, <2>1 DEF ParserInv, ParserInBounds
    <2>2. CASE kpc' = "verb"
      <3>1. /\ AtVerb /\ keyLen' = keyLen /\ Len(entry') = Len(entry) + 1
            /\ cursor' = IF Char(2) = "l" THEN cursor + 3 ELSE cursor + 2
        BY <1>3, <1>6, <2>2
      <3>2. cursor' <= Len(text) + 1 /\ keyLen' < cursor'
        BY <1>2, <1>4, <3>1
      <3>3. Len(entry) < MaxFields
        BY <1>1 DEF ParserInv
      <3> QED BY <1>1, <1>2, <2>2, <3>1, <3>2, <3>3 DEF ParserInv, ParserInBounds
    <2> QED BY <1>3, <2>1, <2>2
  <1>9. CallInv' /\ result' = NoResult /\ kpc' # "done"
    BY <1>1, <1>3 DEF CallInv
  <1> QED BY <1>7, <1>8, <1>9, NothingDone

(***************************************************************************)
(* A verb completes the last entry, whose number stays.                    *)
(***************************************************************************)
LEMMA EntryCompleted ==
  ASSUME NEW e \in Seq(KvfmtEntry), Len(e) > 0, NEW a \in ArgTypes
  PROVE  LET f == [e EXCEPT ![Len(e)].arg = a]
         IN f \in Seq(KvfmtEntry) /\ Len(f) = Len(e)
  <1> DEFINE last == [e[Len(e)] EXCEPT !.arg = a]
  <1>1. Len(e) \in 1..Len(e) /\ e[Len(e)] \in KvfmtEntry
    <2>1. Len(e) \in 1..Len(e)
      OBVIOUS
    <2> QED BY <2>1, ElementOfSeq
  <1>2. last \in KvfmtEntry
    BY <1>1 DEF KvfmtEntry
  <1> HIDE DEF last
  <1>3. [e EXCEPT ![Len(e)] = last] \in Seq(KvfmtEntry)
        /\ Len([e EXCEPT ![Len(e)] = last]) = Len(e)
    BY <1>1, <1>2, ExceptSeq
  <1> QED BY <1>3 DEF last

(***************************************************************************)
(* A verb that the parser knows lies within the string.                    *)
(***************************************************************************)
LEMMA VerbStep ==
  ASSUME KvfmtInv, Verb
  PROVE  KvfmtInv'
  <1> USE DEF KvfmtInv
  <1>1. /\ kpc = "verb"
        /\ UNCHANGED <<op, level, min, text, atCall, keyLen, long, errno, saved, result>>
    BY DEF Verb, callVars
  <1>2. cursor \in Nat /\ Len(text) \in Nat /\ Len(entry) \in Nat /\ Len(entry) > 0
        /\ keyLen \in Nat /\ entry \in Seq(KvfmtEntry)
    BY <1>1 DEF CallTypeOK, ParserInv
  <1>3. CASE kpc' = "malformed" /\ UNCHANGED <<cursor, entry>>
    <2>1. CallTypeOK'
      BY <1>1, <1>3 DEF CallTypeOK, KPC
    <2>2. ParserInv'
      BY <1>1, <1>3 DEF ParserInv, ParserInBounds
    <2>3. CallInv' /\ result' = NoResult /\ kpc' # "done"
      BY <1>1, <1>3 DEF CallInv
    <2> QED BY <2>1, <2>2, <2>3, NothingDone
  <1>4. CASE /\ Char(0) \in Verbs
             /\ entry' = [entry EXCEPT ![Len(entry)].arg = ArgType(Char(0), long)]
             /\ cursor' = cursor + 1
             /\ kpc' = IF Char(1) \in {NUL, Space} THEN "fields" ELSE "malformed"
    <2>1. cursor + 0 <= Len(text)
      <3> Char(0) # NUL
        BY <1>4 DEF Verbs, VerbType, NUL
      <3> QED BY CharWithin
    <2>2. ArgType(Char(0), long) \in ArgTypes
      <3>1. Char(0) \in Verbs
        BY <1>4
      <3> QED BY <3>1, ArgTypeKnown
    <2>3. entry' \in Seq(KvfmtEntry) /\ Len(entry') = Len(entry)
      BY <1>2, <1>4, <2>2, EntryCompleted
    <2>4. kpc' \in {"fields", "malformed"}
      BY <1>4
    <2>5. CallTypeOK'
      <3>1. cursor' \in Nat /\ kpc' \in KPC
        <4>1. cursor' = cursor + 1
          BY <1>4
        <4> HIDE DEF KvfmtInv
        <4> QED BY <1>2, <2>4, <4>1 DEF KPC
      <3> QED BY <1>1, <2>3, <3>1 DEF CallTypeOK
    <2>6. ParserInv'
      <3>1. cursor' = cursor + 1
        BY <1>4
      <3>2. Len(entry) <= MaxFields /\ keyLen < cursor
        BY DEF ParserInv, ParserInBounds
      <3> QED BY <1>1, <1>2, <2>1, <2>3, <2>4, <3>1, <3>2 DEF ParserInv, ParserInBounds
    <2>7. CallInv' /\ result' = NoResult /\ kpc' # "done"
      BY <1>1, <2>4 DEF CallInv
    <2> QED BY <2>5, <2>6, <2>7, NothingDone
  <1> QED BY <1>3, <1>4 DEF Verb

(***************************************************************************)
(* The fields are rendered at the level of the call; %m takes the errno    *)
(* saved when it was made.                                                 *)
(***************************************************************************)
LEMMA ParsedStep ==
  ASSUME KvfmtInv, Parsed
  PROVE  KvfmtInv'
  <1> USE DEF KvfmtInv
  <1> DEFINE fs == [i \in DOMAIN entry |-> <<entry[i].key, entry[i].arg, Value(entry[i])>>]
  <1>1. /\ kpc = "parsed" /\ kpc' = "done"
        /\ UNCHANGED <<op, level, min, text, atCall, cursor, keyLen, long, entry, errno, saved>>
    BY DEF Parsed, callVars
  <1>2. result' = [did |-> IF op = "logf" THEN "line" ELSE "child", level |-> level,
                   fields |-> fs]
    BY DEF Parsed
  <1>3. CallTypeOK'
    BY <1>1 DEF CallTypeOK, KPC
  <1>4. ParserInv'
    BY <1>1 DEF ParserInv, ParserInBounds
  <1>5. CallInv'
    BY <1>1 DEF CallInv
  <1>6. ErrnoOfCall'
    <2>1. saved = atCall
      BY DEF CallInv
    <2>2. \A i \in DOMAIN fs : fs[i][2] = "ERRNO" => fs[i][3] = atCall
      BY <2>1 DEF Value
    <2>3. result'.fields = fs
      BY <1>2
    <2> HIDE DEF fs
    <2> QED BY <1>1, <2>2, <2>3 DEF ErrnoOfCall
  <1> HIDE DEF fs
  <1>7. MalformedIsReported'
    <2>1. op = "logf" => result'.did = "line"
      BY <1>2
    <2>2. result'.level = level
      BY <1>2
    <2> QED BY <1>1, <2>1, <2>2 DEF MalformedIsReported
  <1> QED BY <1>3, <1>4, <1>5, <1>6, <1>7 DEF CallAsMade

(***************************************************************************)
(* A malformed kvfmt: the diagnostic passes the gate if the call did,      *)
(* unless the call has no level; a fatal call's is at its own level.       *)
(***************************************************************************)
LEMMA RejectedStep ==
  ASSUME KvfmtInv, Rejected
  PROVE  KvfmtInv'
  <1> USE DEF KvfmtInv
  <1>1. /\ kpc' = "done" /\ entry' = <<>>
        /\ UNCHANGED <<op, level, min, text, atCall, cursor, keyLen, long, errno, saved>>
    BY DEF Rejected, callVars
  <1>2. result' = IF op = "withf" THEN [did |-> "null"]
                  ELSE IF LevelEnabled(min, DiagnosticLevel(level))
                  THEN [did |-> "diagnostic", level |-> DiagnosticLevel(level)]
                  ELSE NoResult
    BY DEF Rejected
  <1>3. CallTypeOK'
    BY <1>1 DEF CallTypeOK, KPC
  <1>4. ParserInv'
    <2>1. Len(entry') = 0
      BY <1>1
    <2> QED BY <1>1, <2>1, KvfmtAssumption DEF ParserInv, ParserInBounds
  <1>5. CallInv'
    BY <1>1 DEF CallInv
  <1>6. ErrnoOfCall'
    <2>1. result'.did \notin {"line", "child"}
      BY <1>2 DEF NoResult
    <2> QED BY <2>1 DEF ErrnoOfCall
  <1>7. MalformedIsReported'
    <2> SUFFICES ASSUME op = "logf", LevelEnabled(min, level)
                 PROVE  \/ /\ result'.did \in {"line", "diagnostic"}
                           /\ Terminates(level) => result'.level = level
                        \/ level = NOLEVEL /\ min > ERROR
      BY <1>1 DEF MalformedIsReported
    <2>1. CASE LevelEnabled(min, DiagnosticLevel(level))
      <3>1. result' = [did |-> "diagnostic", level |-> DiagnosticLevel(level)]
        BY <1>2, <2>1
      <3>2. Terminates(level) => DiagnosticLevel(level) = level
        BY DEF Terminates, DiagnosticLevel
      <3> QED BY <3>1, <3>2
    <2>2. CASE ~LevelEnabled(min, DiagnosticLevel(level))
      BY <2>2, DiagnosticPasses DEF CallTypeOK
    <2> QED BY <2>1, <2>2
  <1> QED BY <1>3, <1>4, <1>5, <1>6, <1>7 DEF CallAsMade

(***************************************************************************)
(* What every state of a call satisfies.                                   *)
(***************************************************************************)
LEMMA KvfmtInvariant == KvfmtSpec => []KvfmtInv
  <1>1. KvfmtInit => KvfmtInv
    <2> SUFFICES ASSUME KvfmtInit PROVE KvfmtInv
      OBVIOUS
    <2> USE DEF KvfmtInit
    <2>1. CallTypeOK
      <3>1. <<>> \in Seq(STRING) /\ <<>> \in Seq(KvfmtEntry) /\ DOMAIN <<>> = {}
        OBVIOUS
      <3> QED BY <3>1 DEF CallTypeOK, KPC, Level, INFO, TRACE, DEBUG, WARN, ERROR, FATAL, PANIC, NOLEVEL,
             DISABLED
    <2>2. ParserInv
      BY KvfmtAssumption DEF ParserInv, ParserInBounds
    <2>3. CallInv
      BY DEF CallInv
    <2>4. CallAsMade
      BY DEF CallAsMade, ErrnoOfCall, MalformedIsReported, NoResult
    <2> QED BY <2>1, <2>2, <2>3, <2>4 DEF KvfmtInv
  <1>2. KvfmtInv /\ [KvfmtNext]_kvfmtVars => KvfmtInv'
    <2> SUFFICES ASSUME KvfmtInv, [KvfmtNext]_kvfmtVars PROVE KvfmtInv'
      OBVIOUS
    <2>1. CASE KvfmtCall
      <3>1. PICK m \in MinLevels, t \in Texts : (\E l \in Levels : Logf(l, m, t)) \/ Withf(m, t)
        BY <2>1 DEF KvfmtCall
      <3>2. CASE \E l \in Levels : Logf(l, m, t)
        BY <3>2, LogfStep
      <3>3. CASE Withf(m, t)
        BY <3>3, WithfStep
      <3> QED BY <3>1, <3>2, <3>3
    <2>2. CASE KvfmtStep
      BY <2>2, ResolveStep, FieldStep, KeyStep, VerbStep, ParsedStep, RejectedStep DEF KvfmtStep
    <2>3. CASE UNCHANGED kvfmtVars
      BY <2>3 DEF kvfmtVars, KvfmtInv, CallTypeOK, ParserInv, ParserInBounds, CallInv,
                  CallAsMade, ErrnoOfCall, MalformedIsReported
    <2> QED BY <2>1, <2>2, <2>3 DEF KvfmtNext
  <1> QED BY <1>1, <1>2, PTL DEF KvfmtSpec

(***************************************************************************)
(* pslog_parse_kvfmt_layout never reads behind the NUL of any kvfmt and    *)
(* never writes a spec behind the last one.                                *)
(***************************************************************************)
THEOREM ParserStaysInBounds == KvfmtSpec => []ParserInBounds
  <1>1. KvfmtInv => ParserInBounds
    BY DEF KvfmtInv, ParserInv
  <1> QED BY <1>1, KvfmtInvariant, PTL

(***************************************************************************)
(* logf() and withf(): %m shows the errno of the moment of the call,       *)
(* whatever the lock and the allocations did to errno, and a logf() that   *)
(* passes the gate leaves its line or the diagnostic.                      *)
(***************************************************************************)
THEOREM CallsAsMade == KvfmtSpec => []CallAsMade
  <1>1. KvfmtInv => CallAsMade
    BY DEF KvfmtInv
  <1> QED BY <1>1, KvfmtInvariant, PTL
-----------------------------------------------------------------------------
(* The grammar of kvfmt strings.                                           *)

(***************************************************************************)
(* Among some positions there is a first.                                  *)
(***************************************************************************)
LEMMA FirstPosition ==
  ASSUME NEW T, T \subseteq Nat, T # {}
  PROVE  \E p \in T : \A q \in T : p <= q
  <1>1. IsWellFoundedOn(OpToRel(<, Nat), Nat)
    BY NatLessThanWellFounded
  <1>2. \E p \in T : \A q \in T : ~(<<q, p>> \in OpToRel(<, Nat))
    BY <1>1, WFMin
  <1>3. \A p, q \in Nat : q < p => <<q, p>> \in OpToRel(<, Nat)
    BY Zenon DEF OpToRel
  <1>4. \E p \in T : \A q \in T : ~(q < p)
    BY <1>2, <1>3
  <1> QED BY <1>4

(***************************************************************************)
(* What it is to be a word.                                                *)
(***************************************************************************)
LEMMA WordParts ==
  ASSUME NEW t \in Seq(STRING), NEW w \in Words(t)
  PROVE  /\ w = <<w[1], w[2]>> /\ w[1] \in 1..Len(t) /\ w[2] \in 1..Len(t) /\ w[1] <= w[2]
         /\ \A i \in w[1]..w[2] : t[i] # Space
         /\ w[1] = 1 \/ t[w[1] - 1] = Space
         /\ w[2] = Len(t) \/ t[w[2] + 1] = Space
  BY DEF Words

(***************************************************************************)
(* Two positions that bound a word.                                        *)
(***************************************************************************)
LEMMA WordMade ==
  ASSUME NEW t \in Seq(STRING), NEW a \in 1..Len(t), NEW b \in 1..Len(t), a <= b,
         \A i \in a..b : t[i] # Space, a = 1 \/ t[a - 1] = Space,
         b = Len(t) \/ t[b + 1] = Space
  PROVE  <<a, b>> \in Words(t)
  BY DEF Words

(***************************************************************************)
(* Where a word begins, there is a word: it ends before the first space or *)
(* at the end of the string.                                               *)
(***************************************************************************)
LEMMA WordFrom ==
  ASSUME NEW t \in Seq(STRING), NEW a, WordBegins(t, a)
  PROVE  \E b \in a..Len(t) : <<a, b>> \in Words(t)
  <1> DEFINE T == {j \in a..Len(t) : j = Len(t) \/ t[j + 1] = Space}
  <1>1. a \in 1..Len(t) /\ Len(t) \in Nat /\ t[a] # Space /\ (a = 1 \/ t[a - 1] = Space)
    BY DEF WordBegins
  <1>2. T \subseteq Nat /\ T # {}
    <2>1. Len(t) \in T
      BY <1>1
    <2> QED BY <1>1, <2>1
  <1>3. PICK b \in T : \A q \in T : b <= q
    BY <1>2, FirstPosition
  <1>4. ASSUME NEW i \in a..b, t[i] = Space PROVE FALSE
    <2>1. i # a
      BY <1>1, <1>4
    <2>2. i - 1 \in a..Len(t) /\ (i - 1) + 1 = i /\ b \in Nat /\ i \in Nat
      BY <1>1, <1>3, <2>1
    <2>3. i - 1 \in T
      BY <1>4, <2>2
    <2>4. b <= i - 1
      BY <1>3, <2>3
    <2> QED BY <2>2, <2>4
  <1>5. <<a, b>> \in Words(t)
    BY <1>1, <1>3, <1>4, WordMade
  <1> QED BY <1>3, <1>5

(***************************************************************************)
(* A word does not begin within another.                                   *)
(***************************************************************************)
LEMMA WordsApart ==
  ASSUME NEW t \in Seq(STRING), NEW v \in Words(t), NEW w \in Words(t), v[1] <= w[1], w[1] <= v[2]
  PROVE  v = w
  <1>1. /\ v = <<v[1], v[2]>> /\ v[1] \in 1..Len(t) /\ v[2] \in 1..Len(t) /\ v[1] <= v[2]
        /\ \A i \in v[1]..v[2] : t[i] # Space
        /\ v[2] = Len(t) \/ t[v[2] + 1] = Space
    BY WordParts
  <1>2. /\ w = <<w[1], w[2]>> /\ w[1] \in 1..Len(t) /\ w[2] \in 1..Len(t) /\ w[1] <= w[2]
        /\ \A i \in w[1]..w[2] : t[i] # Space
        /\ w[1] = 1 \/ t[w[1] - 1] = Space
        /\ w[2] = Len(t) \/ t[w[2] + 1] = Space
    BY WordParts
  <1>3. Len(t) \in Nat
    OBVIOUS
  <1>4. v[1] = w[1]
    <2> SUFFICES ASSUME v[1] # w[1] PROVE FALSE
      OBVIOUS
    <2>1. w[1] - 1 \in v[1]..v[2] /\ w[1] # 1
      BY <1>1, <1>2
    <2> QED BY <1>1, <1>2, <2>1
  <1>5. ~(v[2] < w[2])
    <2> SUFFICES ASSUME v[2] < w[2] PROVE FALSE
      OBVIOUS
    <2>1. v[2] + 1 \in w[1]..w[2] /\ v[2] # Len(t)
      BY <1>1, <1>2, <1>3
    <2> QED BY <1>1, <1>2, <2>1
  <1>6. ~(w[2] < v[2])
    <2> SUFFICES ASSUME w[2] < v[2] PROVE FALSE
      OBVIOUS
    <2>1. w[2] + 1 \in v[1]..v[2] /\ w[2] # Len(t)
      BY <1>1, <1>2, <1>3
    <2> QED BY <1>1, <1>2, <2>1
  <1>7. v[2] = w[2]
    BY <1>1, <1>2, <1>5, <1>6
  <1> QED BY <1>1, <1>2, <1>4, <1>7

(***************************************************************************)
(* A string has finitely many words, and no more of them before a          *)
(* position.                                                               *)
(***************************************************************************)
LEMMA WordsFinite ==
  ASSUME NEW t \in Seq(STRING)
  PROVE  /\ IsFiniteSet(Words(t))
         /\ \A p : IsFiniteSet(Before(t, p)) /\ Cardinality(Before(t, p)) \in Nat
                   /\ Cardinality(Before(t, p)) <= Cardinality(Words(t))
         /\ Cardinality(Words(t)) \in Nat
  <1>1. IsFiniteSet(1..Len(t)) /\ DOMAIN t = 1..Len(t)
    BY FS_Interval
  <1>2. IsFiniteSet((1..Len(t)) \X (1..Len(t)))
    BY <1>1, FS_Product
  <1>3. Words(t) \subseteq (1..Len(t)) \X (1..Len(t))
    BY <1>1 DEF Words
  <1>4. IsFiniteSet(Words(t))
    BY <1>2, <1>3, FS_Subset
  <1>5. ASSUME NEW p
        PROVE  IsFiniteSet(Before(t, p)) /\ Cardinality(Before(t, p)) <= Cardinality(Words(t))
    <2>1. Before(t, p) \subseteq Words(t)
      BY DEF Before
    <2> QED BY <1>4, <2>1, FS_Subset
  <1> QED BY <1>4, <1>5, FS_CardinalityType

(***************************************************************************)
(* Before the end of a word and before its start there is the same but for *)
(* the word itself.                                                        *)
(***************************************************************************)
LEMMA BeforeWord ==
  ASSUME NEW t \in Seq(STRING), NEW a, NEW b, <<a, b>> \in Words(t), NEW p \in Int, a < p,
         p <= b + 1
  PROVE  /\ Before(t, p) = Before(t, a) \cup {<<a, b>>}
         /\ <<a, b>> \notin Before(t, a)
         /\ Cardinality(Before(t, p)) = Cardinality(Before(t, a)) + 1
  <1> DEFINE v == <<a, b>>
  <1>1. v \in Words(t) /\ v[1] = a /\ v[2] = b
    OBVIOUS
  <1> HIDE DEF v
  <1>2. a \in 1..Len(t) /\ b \in 1..Len(t) /\ Len(t) \in Nat
    BY <1>1, WordParts
  <1>3. ASSUME NEW w \in Words(t) PROVE w[1] < p <=> w[1] < a \/ w = v
    <2>1. w[1] \in 1..Len(t)
      BY WordParts
    <2>2. CASE w[1] < a
      BY <1>2, <2>1, <2>2
    <2>3. CASE a <= w[1] /\ w[1] <= b
      <3>1. v = w
        BY <1>1, <2>3, WordsApart
      <3> QED BY <1>1, <3>1
    <2>4. CASE b < w[1]
      <3>1. a <= b
        BY <1>1, WordParts
      <3>2. w # v
        BY <1>1, <1>2, <2>1, <2>4, <3>1
      <3> QED BY <1>2, <2>1, <2>4, <3>1, <3>2
    <2> QED BY <1>2, <2>1, <2>2, <2>3, <2>4
  <1>4. v \notin Before(t, a)
    BY <1>1, <1>2 DEF Before
  <1>5. Before(t, p) = Before(t, a) \cup {v}
    BY <1>1, <1>3 DEF Before
  <1>6. Cardinality(Before(t, a) \cup {v}) = Cardinality(Before(t, a)) + 1
    BY <1>4, WordsFinite, FS_AddElement
  <1> QED BY <1>4, <1>5, <1>6 DEF v

(***************************************************************************)
(* No word begins at a space.                                              *)
(***************************************************************************)
LEMMA BeforeSpace ==
  ASSUME NEW t \in Seq(STRING), NEW p \in 1..Len(t), t[p] = Space
  PROVE  Before(t, p + 1) = Before(t, p)
  <1>1. ASSUME NEW w \in Words(t) PROVE w[1] \in Nat /\ w[1] # p
    BY WordParts
  <1> QED BY <1>1 DEF Before

(***************************************************************************)
(* No word begins before the string, all of them before its NUL.           *)
(***************************************************************************)
LEMMA BeforeEnds ==
  ASSUME NEW t \in Seq(STRING)
  PROVE  Before(t, 1) = {} /\ Before(t, Len(t) + 1) = Words(t)
  <1>1. ASSUME NEW w \in Words(t) PROVE w[1] \in 1..Len(t) /\ Len(t) \in Nat
    BY WordParts
  <1> QED BY <1>1 DEF Before

(***************************************************************************)
(* A key ends at one place only: the first "=%" of its word.               *)
(***************************************************************************)
LEMMA OneKeyEnd ==
  ASSUME NEW t \in Seq(STRING), NEW a \in Int, NEW k \in Int, NEW j \in Int,
         KeyEnds(t, a, k), KeyEnds(t, a, j), a <= k, a <= j
  PROVE  k = j
  <1>1. ~(k < j)
    <2> SUFFICES ASSUME k < j PROVE FALSE
      OBVIOUS
    <2>1. k # j - 1
      BY DEF KeyEnds
    <2>2. k \in a..(j - 2)
      BY <2>1
    <2> QED BY <2>2 DEF KeyEnds
  <1>2. ~(j < k)
    <2> SUFFICES ASSUME j < k PROVE FALSE
      OBVIOUS
    <2>1. j # k - 1
      BY DEF KeyEnds
    <2>2. j \in a..(k - 2)
      BY <2>1
    <2> QED BY <2>2 DEF KeyEnds
  <1> QED BY <1>1, <1>2

(***************************************************************************)
(* A word with a spec has an end of its key and a verb behind that.        *)
(***************************************************************************)
LEMMA SpecsOfWord ==
  ASSUME NEW t, NEW a, NEW b, Specs(t, <<a, b>>) # {}
  PROVE  \E k \in (a + 1)..(b - 1) : KeyEnds(t, a, k) /\ VerbTypes(t, k + 2, b) # {}
  <1> DEFINE w == <<a, b>>
             Ends == {j \in (w[1] + 1)..(w[2] - 1) : KeyEnds(t, w[1], j)}
             With(k) == {[key |-> SubSeq(t, w[1], k - 1), arg |-> x] :
                           x \in VerbTypes(t, k + 2, w[2])}
  <1>1. UNION {With(k) : k \in Ends} # {}
    BY Zenon DEF Specs
  <1>2. w[1] = a /\ w[2] = b
    OBVIOUS
  <1> HIDE DEF w
  <1>3. PICK k \in Ends : With(k) # {}
    BY <1>1, Zenon
  <1>4. VerbTypes(t, k + 2, b) # {}
    BY <1>2, <1>3
  <1> QED BY <1>2, <1>3, <1>4

(***************************************************************************)
(* A word whose verb has one type stands for one spec.                     *)
(***************************************************************************)
LEMMA SpecOfWord ==
  ASSUME NEW t \in Seq(STRING), NEW a \in Int, NEW b \in Int, NEW k \in (a + 1)..(b - 1), NEW x,
         KeyEnds(t, a, k), x \in VerbTypes(t, k + 2, b), \A y \in VerbTypes(t, k + 2, b) : y = x
  PROVE  Specs(t, <<a, b>>) = {[key |-> SubSeq(t, a, k - 1), arg |-> x]}
  <1> DEFINE w == <<a, b>>
             Ends == {j \in (w[1] + 1)..(w[2] - 1) : KeyEnds(t, w[1], j)}
             With(n) == {[key |-> SubSeq(t, w[1], n - 1), arg |-> y] :
                           y \in VerbTypes(t, n + 2, w[2])}
  <1>1. Specs(t, w) = UNION {With(n) : n \in Ends}
    BY Zenon DEF Specs
  <1>2. w[1] = a /\ w[2] = b
    OBVIOUS
  <1> HIDE DEF w
  <1>3. \A j \in Ends : j = k
    BY <1>2, OneKeyEnd
  <1>4. k \in Ends
    BY <1>2
  <1>5. Ends = {k}
    BY <1>3, <1>4
  <1> HIDE DEF Ends
  <1>6. With(k) = {[key |-> SubSeq(t, a, k - 1), arg |-> x]}
    BY <1>2
  <1> HIDE DEF With
  <1>7. UNION {With(n) : n \in Ends} = With(k)
    BY <1>5
  <1> QED BY <1>1, <1>6, <1>7 DEF w

\* The verb of a word: its last character, with an l before it or not.
VerbAt(t, i, b, l) ==
  /\ b = IF l THEN i + 1 ELSE i
  /\ t[b] \in Verbs /\ ~(l /\ t[b] = "m")

(***************************************************************************)
(* The verbs of the grammar: the last character, or the last behind an l,  *)
(* of which %lm is none.                                                   *)
(***************************************************************************)
LEMMA VerbsOfGrammar ==
  ASSUME NEW t \in Seq(STRING), NEW i \in Int, NEW b \in Int, VerbTypes(t, i, b) # {}
  PROVE  IF t[i] = "l" /\ i + 1 = b THEN t[b] \in Verbs \ {"m"} ELSE i = b /\ t[b] \in Verbs
  <1>1. {"s", "f", "p", "b", "d", "u"} = Verbs \ {"m"}
    BY DEF Verbs, VerbType
  <1> QED BY <1>1 DEF VerbTypes

(***************************************************************************)
(* The parser and the grammar give a verb the same type.                   *)
(***************************************************************************)
LEMMA TypeOfVerb ==
  ASSUME NEW t \in Seq(STRING), NEW i \in Int, NEW b \in Int, NEW l, VerbAt(t, i, b, l),
         l => t[i] = "l"
  PROVE  VerbTypes(t, i, b) = {ArgType(t[b], l)}
  <1>1. Verbs = {"s", "f", "p", "b", "d", "u", "m"}
    BY DEF Verbs, VerbType
  <1>2. CASE ~l
    <2>1. i = b /\ t[b] \in Verbs
      BY <1>2 DEF VerbAt
    <2>2. VerbTypes(t, i, b) = {VerbType[t[b]]}
      BY <2>1 DEF VerbTypes
    <2>3. ArgType(t[b], l) = VerbType[t[b]]
      BY <1>2 DEF ArgType
    <2> QED BY <2>2, <2>3
  <1>3. CASE l
    <2>1. b = i + 1 /\ i # b /\ t[b] \in {"s", "f", "p", "b", "d", "u"} /\ t[i] = "l"
      BY <1>1, <1>3 DEF VerbAt
    <2>2. CASE t[b] = "d"
      BY <1>3, <2>1, <2>2 DEF VerbTypes, ArgType
    <2>3. CASE t[b] = "u"
      BY <1>3, <2>1, <2>3 DEF VerbTypes, ArgType
    <2>4. CASE t[b] \in {"s", "f", "p", "b"}
      <3>1. VerbTypes(t, i, b) = {VerbType[t[b]]}
        BY <2>1, <2>4 DEF VerbTypes
      <3>2. ArgType(t[b], l) = VerbType[t[b]]
        BY <2>4 DEF ArgType
      <3> QED BY <3>1, <3>2
    <2> QED BY <2>1, <2>2, <2>3, <2>4
  <1> QED BY <1>2, <1>3

(***************************************************************************)
(* The parser leaves the loop over a key where the key ends.               *)
(***************************************************************************)
LEMMA KeyEnded ==
  ASSUME NEW t \in Seq(STRING), NEW a \in Int, NEW k \in Int, a < k, KeyBefore(t, a, k),
         t[k] = "=", t[k + 1] = "%"
  PROVE  KeyEnds(t, a, k)
  BY DEF KeyEnds, KeyBefore

(***************************************************************************)
(* As long as the parser is in the loop over a key, the key has not ended. *)
(***************************************************************************)
LEMMA KeyGoesOn ==
  ASSUME NEW t \in Seq(STRING), NEW a \in Int, NEW c \in Int, NEW k \in Int, KeyBefore(t, a, c),
         a < k, KeyEnds(t, a, k)
  PROVE  c <= k
  BY DEF KeyEnds, KeyBefore

(***************************************************************************)
(* A word that stands for nothing makes the string malformed.              *)
(***************************************************************************)
LEMMA NotValid ==
  ASSUME NEW t \in Seq(STRING), NEW a, WordBegins(t, a),
         \A b \in a..Len(t) : <<a, b>> \in Words(t) => Specs(t, <<a, b>>) = {}
  PROVE  ~Valid(t)
  BY WordFrom DEF Valid

(***************************************************************************)
(* One word more than there are specs for makes the string malformed.      *)
(***************************************************************************)
LEMMA TooMany ==
  ASSUME NEW t \in Seq(STRING), NEW a, WordBegins(t, a), Cardinality(Before(t, a)) >= MaxFields
  PROVE  ~Valid(t)
  <1>1. PICK b \in a..Len(t) : <<a, b>> \in Words(t)
    BY WordFrom
  <1>2. a \in Int /\ b \in Int /\ a < a + 1 /\ a + 1 <= b + 1
    BY DEF WordBegins
  <1>3. Cardinality(Before(t, a + 1)) = Cardinality(Before(t, a)) + 1
    BY <1>1, <1>2, BeforeWord
  <1>4. Cardinality(Words(t)) > MaxFields
    BY <1>3, WordsFinite, KvfmtAssumption
  <1> QED BY <1>4, WordsFinite, KvfmtAssumption DEF Valid

(***************************************************************************)
(* The spec of one more word, appended, settles the string up to the end   *)
(* of the word.                                                            *)
(***************************************************************************)
LEMMA SettledMore ==
  ASSUME NEW t \in Seq(STRING), NEW S, NEW e \in Seq(S), NEW a, NEW b, <<a, b>> \in Words(t),
         Settled(t, e, a), NEW s \in S, Specs(t, <<a, b>>) = {s}
  PROVE  Settled(t, Append(e, s), b + 1)
  <1> DEFINE v == <<a, b>>
             f == Append(e, s)
  <1>1. v \in Words(t) /\ v[1] = a /\ v[2] = b
    OBVIOUS
  <1>2. a \in 1..Len(t) /\ b \in 1..Len(t) /\ a <= b /\ Len(t) \in Nat
    <2> HIDE DEF v
    <2> QED BY <1>1, WordParts
  <1>3. /\ Before(t, b + 1) = Before(t, a) \cup {v}
        /\ Cardinality(Before(t, b + 1)) = Cardinality(Before(t, a)) + 1
    <2>1. b + 1 \in Int /\ a < b + 1 /\ b + 1 <= b + 1
      BY <1>2
    <2>2. Cardinality(Before(t, b + 1)) = Cardinality(Before(t, a)) + 1
      BY <2>1, BeforeWord
    <2>3. Before(t, b + 1) = Before(t, a) \cup {<<a, b>>}
      BY <2>1, BeforeWord
    <2> QED BY <2>2, <2>3
  <1>4. Cardinality(Before(t, a + 1)) = Cardinality(Before(t, a)) + 1
    <2>1. a + 1 \in Int /\ a < a + 1 /\ a + 1 <= b + 1
      BY <1>2
    <2> QED BY <2>1, BeforeWord
  <1> HIDE DEF v
  <1>5. /\ Len(e) \in Nat /\ Len(f) = Len(e) + 1 /\ f[Len(e) + 1] = s
        /\ \A i \in 1..Len(e) : f[i] = e[i]
    BY AppendProperties
  <1>6. Len(e) = Cardinality(Before(t, a))
    BY DEF Settled
  <1> HIDE DEF f
  <1>7. ASSUME NEW w \in Before(t, a) PROVE Specs(t, w) = {f[Index(t, w)]}
    <2>1. w \in Words(t) /\ w[1] < a /\ w[1] \in Nat
      BY WordParts DEF Before
    <2>2. Before(t, w[1] + 1) \subseteq Before(t, a)
      <3>1. ASSUME NEW u \in Words(t), u[1] < w[1] + 1 PROVE u[1] < a
        <4>1. u[1] \in Nat
          BY WordParts
        <4> QED BY <1>2, <2>1, <3>1, <4>1
      <3> QED BY <3>1 DEF Before
    <2>3. w \in Before(t, w[1] + 1)
      BY <2>1 DEF Before
    <2>4. Index(t, w) \in Nat /\ Index(t, w) <= Len(e) /\ Index(t, w) # 0
      BY <1>6, <2>2, <2>3, WordsFinite, FS_Subset, FS_EmptySet DEF Index
    <2>5. f[Index(t, w)] = e[Index(t, w)]
      BY <1>5, <2>4
    <2> QED BY <2>5 DEF Settled
  <1>8. Specs(t, v) = {f[Index(t, v)]}
    BY <1>1, <1>4, <1>5, <1>6 DEF Index, v
  <1> QED BY <1>3, <1>5, <1>6, <1>7, <1>8 DEF Settled, f

(***************************************************************************)
(* A character no key may contain, before the key has ended, leaves the    *)
(* word without a spec.                                                    *)
(***************************************************************************)
LEMMA BannedInKey ==
  ASSUME NEW t \in Seq(STRING), NEW a, WordBegins(t, a), NEW c \in a..Len(t), KeyBefore(t, a, c),
         t[c] \in Banned, ~(c < Len(t) /\ t[c] = "=" /\ t[c + 1] = "%")
  PROVE  ~Valid(t)
  <1>1. a \in 1..Len(t) /\ Len(t) \in Nat
    BY DEF WordBegins
  <1>2. ASSUME NEW b \in a..Len(t), <<a, b>> \in Words(t), Specs(t, <<a, b>>) # {} PROVE FALSE
    <2>1. PICK k \in (a + 1)..(b - 1) : KeyEnds(t, a, k)
      BY <1>2, SpecsOfWord
    <2>2. a \in Int /\ k \in Int /\ a < k /\ c \in Int /\ k < Len(t)
      BY <1>1, <2>1
    <2>3. c <= k
      BY <2>1, <2>2, KeyGoesOn
    <2>4. c # k
      BY <2>1, <2>2 DEF KeyEnds
    <2>5. c \in a..(k - 1)
      BY <1>1, <2>2, <2>3, <2>4
    <2> QED BY <2>1, <2>5 DEF KeyEnds
  <1> QED BY <1>2, NotValid

(***************************************************************************)
(* A string that ends within a key is malformed.                           *)
(***************************************************************************)
LEMMA KeyCut ==
  ASSUME NEW t \in Seq(STRING), NEW a, WordBegins(t, a), KeyBefore(t, a, Len(t))
  PROVE  ~Valid(t)
  <1>1. a \in 1..Len(t) /\ Len(t) \in Nat
    BY DEF WordBegins
  <1>2. ASSUME NEW b \in a..Len(t), <<a, b>> \in Words(t), Specs(t, <<a, b>>) # {} PROVE FALSE
    <2>1. PICK k \in (a + 1)..(b - 1) : KeyEnds(t, a, k)
      BY <1>2, SpecsOfWord
    <2>2. a \in Int /\ k \in Int /\ a < k /\ k < Len(t)
      BY <1>1, <2>1
    <2>3. Len(t) <= k
      BY <1>1, <2>1, <2>2, KeyGoesOn
    <2> QED BY <1>1, <2>2, <2>3
  <1> QED BY <1>2, NotValid

(***************************************************************************)
(* A word that begins with "=%" has no key and no spec.                    *)
(***************************************************************************)
LEMMA KeyEmpty ==
  ASSUME NEW t \in Seq(STRING), NEW a, WordBegins(t, a), t[a] = "=", t[a + 1] = "%"
  PROVE  ~Valid(t)
  <1>1. a \in 1..Len(t) /\ Len(t) \in Nat
    BY DEF WordBegins
  <1>2. ASSUME NEW b \in a..Len(t), <<a, b>> \in Words(t), Specs(t, <<a, b>>) # {} PROVE FALSE
    <2>1. PICK k \in (a + 1)..(b - 1) : KeyEnds(t, a, k)
      BY <1>2, SpecsOfWord
    <2>2. k # a + 1
      BY <2>1 DEF KeyEnds
    <2>3. a \in a..(k - 2)
      BY <1>1, <2>1, <2>2
    <2> QED BY <2>1, <2>3 DEF KeyEnds
  <1> QED BY <1>2, NotValid

\* The verb at c ends a word, l saying whether there is an l before it.
Ended(t, c, l) ==
  /\ c <= Len(t) /\ t[c] \in Verbs /\ ~(t[c] = "m" /\ l)
  /\ c = Len(t) \/ t[c + 1] = Space

(***************************************************************************)
(* What the parser refuses as a verb, or as the character behind one, the  *)
(* grammar refuses.                                                        *)
(***************************************************************************)
LEMMA VerbWrong ==
  ASSUME NEW t \in Seq(STRING), NEW a, WordBegins(t, a), NEW k \in (a + 1)..(Len(t) - 1),
         KeyEnds(t, a, k), NEW l \in BOOLEAN, l <=> (k + 2 <= Len(t) /\ t[k + 2] = "l"),
         NEW c, c = IF l THEN k + 3 ELSE k + 2, ~Ended(t, c, l)
  PROVE  ~Valid(t)
  <1>1. a \in 1..Len(t) /\ Len(t) \in Nat /\ k \in Nat
    BY DEF WordBegins
  <1>2. ASSUME NEW b \in a..Len(t), <<a, b>> \in Words(t), Specs(t, <<a, b>>) # {} PROVE FALSE
    <2>1. PICK j \in (a + 1)..(b - 1) : KeyEnds(t, a, j) /\ VerbTypes(t, j + 2, b) # {}
      BY <1>2, SpecsOfWord
    <2>2. j = k
      BY <1>1, <2>1, OneKeyEnd
    <2>3. b \in Nat /\ b <= Len(t) /\ (b = Len(t) \/ t[b + 1] = Space)
      <3> DEFINE w == <<a, b>>
      <3>1. w \in Words(t) /\ w[2] = b
        BY <1>2
      <3> HIDE DEF w
      <3> QED BY <1>1, <3>1, WordParts
    <2>4. IF t[k + 2] = "l" /\ (k + 2) + 1 = b THEN t[b] \in Verbs \ {"m"}
                                             ELSE k + 2 = b /\ t[b] \in Verbs
      BY <1>1, <2>1, <2>2, <2>3, VerbsOfGrammar
    <2>5. CASE t[k + 2] = "l" /\ (k + 2) + 1 = b
      <3>1. l
        BY <1>1, <2>3, <2>5
      <3>2. c = b
        BY <1>1, <2>5, <3>1
      <3> QED BY <2>3, <2>4, <2>5, <3>1, <3>2 DEF Ended
    <2>6. CASE ~(t[k + 2] = "l" /\ (k + 2) + 1 = b)
      <3>1. k + 2 = b /\ t[b] \in Verbs
        BY <2>4, <2>6
      <3>2. ~l /\ c = b
        BY <1>1, <3>1, Characters
      <3> QED BY <2>3, <3>1, <3>2 DEF Ended
    <2> QED BY <2>5, <2>6
  <1> QED BY <1>2, NotValid

(***************************************************************************)
(* What the parser accepts as a verb ends a word, and the word stands for  *)
(* just the spec the parser makes.                                         *)
(***************************************************************************)
LEMMA VerbRight ==
  ASSUME NEW t \in Seq(STRING), NEW a, WordBegins(t, a), NEW k \in (a + 1)..(Len(t) - 1),
         KeyBefore(t, a, k), t[k] = "=", t[k + 1] = "%",
         NEW l \in BOOLEAN, l <=> (k + 2 <= Len(t) /\ t[k + 2] = "l"),
         NEW c, l => c = k + 3, ~l => c = k + 2, Ended(t, c, l)
  PROVE  /\ <<a, c>> \in Words(t)
         /\ Specs(t, <<a, c>>) = {[key |-> SubSeq(t, a, k - 1), arg |-> ArgType(t[c], l)]}
  <1>1. a \in 1..Len(t) /\ Len(t) \in Nat /\ k \in Nat /\ (a = 1 \/ t[a - 1] = Space)
    BY DEF WordBegins
  <1>2. c \in 1..Len(t) /\ (c = Len(t) \/ t[c + 1] = Space) /\ k <= c - 2 /\ t[c] \in Verbs
    BY <1>1 DEF Ended
  <1>3. ASSUME NEW i \in a..c PROVE t[i] # Space
    <2>1. CASE i \in a..(k - 1)
      BY <2>1, Characters DEF KeyBefore
    <2>2. CASE i = k \/ i = k + 1
      BY <2>2, Characters
    <2>3. CASE i = c
      BY <1>2, <2>3, Characters
    <2>4. CASE l /\ i = k + 2
      BY <2>4, Characters
    <2> QED BY <1>1, <1>2, <2>1, <2>2, <2>3, <2>4
  <1>4. <<a, c>> \in Words(t)
    BY <1>1, <1>2, <1>3, WordMade
  <1>5. KeyEnds(t, a, k)
    BY <1>1, KeyEnded
  <1>6. VerbAt(t, k + 2, c, l) /\ (l => t[k + 2] = "l")
    <2>1. c = IF l THEN (k + 2) + 1 ELSE k + 2
      BY <1>1
    <2>2. t[c] \in Verbs /\ ~(t[c] = "m" /\ l)
      BY DEF Ended
    <2> QED BY <2>1, <2>2 DEF VerbAt
  <1>7. VerbTypes(t, k + 2, c) = {ArgType(t[c], l)}
    <2>1. k + 2 \in Int /\ c \in Int
      BY <1>1, <1>2
    <2> QED BY <1>6, <2>1, TypeOfVerb
  <1>8. k \in (a + 1)..(c - 1) /\ a \in Int /\ c \in Int
    BY <1>1, <1>2
  <1>9. ASSUME NEW x, x = ArgType(t[c], l)
        PROVE  Specs(t, <<a, c>>) = {[key |-> SubSeq(t, a, k - 1), arg |-> x]}
    <2>1. x \in VerbTypes(t, k + 2, c) /\ \A y \in VerbTypes(t, k + 2, c) : y = x
      BY <1>7, <1>9
    <2> QED BY <1>5, <1>8, <2>1, SpecOfWord
  <1> QED BY <1>4, <1>9

(***************************************************************************)
(* The characters at and behind the cursor; the NUL is at the end and only *)
(* there.                                                                  *)
(***************************************************************************)
LEMMA CharAt ==
  ASSUME CallTypeOK, cursor > 0, NEW k \in Nat
  PROVE  /\ cursor + k <= Len(text) => Char(k) = text[cursor + k] /\ Char(k) # NUL
         /\ cursor + k > Len(text) => Char(k) = NUL
         /\ Char(k) = NUL => cursor + k > Len(text)
  <1>1. cursor \in Nat /\ Len(text) \in Nat
    BY DEF CallTypeOK
  <1>2. CASE cursor + k <= Len(text)
    <2>1. cursor + k \in DOMAIN text
      BY <1>1, <1>2 DEF CallTypeOK
    <2>2. text[cursor + k] # NUL
      BY <2>1 DEF CallTypeOK
    <2>3. Char(k) = text[cursor + k]
      BY <1>2 DEF Char
    <2> QED BY <1>1, <1>2, <2>2, <2>3
  <1>3. CASE cursor + k > Len(text)
    BY <1>1, <1>3 DEF Char
  <1> QED BY <1>1, <1>2, <1>3

(***************************************************************************)
(* At the start of the string nothing is parsed and nothing is to be.      *)
(***************************************************************************)
LEMMA NothingYet ==
  ASSUME NEW t \in Seq(STRING)
  PROVE  Settled(t, <<>>, 1)
  BY BeforeEnds, FS_EmptySet DEF Settled

(***************************************************************************)
(* All but the last of a sequence that something was appended to.          *)
(***************************************************************************)
LEMMA AppendFront ==
  ASSUME NEW S, NEW e \in Seq(S), NEW s \in S
  PROVE  SubSeq(Append(e, s), 1, Len(Append(e, s)) - 1) = e
  <1> DEFINE f == Append(e, s)
  <1>1. f \in Seq(S) /\ Len(f) = Len(e) + 1 /\ Len(e) \in Nat /\ \A i \in 1..Len(e) : f[i] = e[i]
    BY AppendProperties
  <1> HIDE DEF f
  <1> DEFINE g == SubSeq(f, 1, Len(e))
  <1>2. \A i \in 1..Len(e) : f[i] \in S
    BY <1>1, ElementOfSeq
  <1>3. /\ g \in Seq(S) /\ Len(g) = (IF 1 <= Len(e) THEN Len(e) - 1 + 1 ELSE 0)
        /\ \A i \in 1..(Len(e) - 1 + 1) : g[i] = f[1 + i - 1]
    BY <1>1, <1>2, SubSeqProperties
  <1> HIDE DEF g
  <1>4. Len(g) = Len(e) /\ \A i \in 1..Len(e) : g[i] = e[i]
    BY <1>1, <1>3
  <1>5. g = e
    BY <1>3, <1>4, SeqEqual
  <1>6. Len(f) - 1 = Len(e)
    BY <1>1
  <1> QED BY <1>5, <1>6 DEF f, g

(***************************************************************************)
(* A call begins at the first character with no entry.                     *)
(***************************************************************************)
LEMMA CallGrammar ==
  ASSUME KvfmtInv, GrammarInv, KvfmtCall
  PROVE  GrammarInv'
  <1>1. kpc = "idle" /\ kpc' \in {"resolve", "done"} /\ cursor' = cursor /\ entry' = entry
    BY DEF KvfmtCall, Logf, Withf
  <1> QED BY <1>1 DEF GrammarInv, FieldsInv, KeyInv, VerbInv, EndInv

(***************************************************************************)
(* So does the parser.                                                     *)
(***************************************************************************)
LEMMA ResolveGrammar ==
  ASSUME KvfmtInv, GrammarInv, Resolve
  PROVE  GrammarInv'
  <1>1. /\ kpc = "resolve" /\ kpc' \in {"fields", "nomemory"} /\ cursor' = cursor
        /\ entry' = entry /\ text' = text
    BY DEF Resolve, callVars
  <1>2. cursor = 1 /\ entry = <<>>
    BY <1>1 DEF GrammarInv, EndInv
  <1>3. Settled(text, entry, cursor)
    BY <1>2, NothingYet DEF KvfmtInv, CallTypeOK
  <1> QED BY <1>1, <1>2, <1>3 DEF GrammarInv, FieldsInv, KeyInv, VerbInv, EndInv

(***************************************************************************)
(* Between two fields: a space changes nothing, the NUL ends the parse,    *)
(* anything else begins a word, which may be one too many.                 *)
(***************************************************************************)
LEMMA FieldGrammar ==
  ASSUME KvfmtInv, GrammarInv, Field
  PROVE  GrammarInv'
  <1>1. kpc = "fields" /\ text' = text /\ entry' = entry
    BY DEF Field, callVars
  <1>2. /\ cursor \in Nat \ {0} /\ Len(text) \in Nat /\ cursor <= Len(text) + 1
        /\ text \in Seq(STRING) /\ CallTypeOK
    BY DEF KvfmtInv, CallTypeOK, ParserInv, ParserInBounds
  <1>3. /\ cursor = 1 \/ text[cursor - 1] = Space \/ Char(0) \in {NUL, Space}
        /\ Settled(text, entry, cursor)
    BY <1>1 DEF GrammarInv, FieldsInv
  <1>4. /\ Char(0) # NUL => cursor <= Len(text) /\ Char(0) = text[cursor]
        /\ Char(0) = NUL => cursor = Len(text) + 1
    BY <1>2, CharAt
  <1>5. CASE Char(0) = Space /\ cursor' = cursor + 1 /\ UNCHANGED <<kpc, keyLen>>
    <2>1. cursor \in 1..Len(text) /\ text[cursor] = Space
      BY <1>2, <1>4, <1>5, Characters
    <2>2. Settled(text, entry, cursor + 1)
      BY <1>2, <1>3, <2>1, BeforeSpace DEF Settled
    <2>3. text[(cursor + 1) - 1] = Space
      BY <1>2, <2>1
    <2>4. FieldsInv'
      BY <1>1, <1>5, <2>2, <2>3 DEF FieldsInv
    <2> QED BY <1>1, <1>5, <2>4 DEF GrammarInv, KeyInv, VerbInv, EndInv
  <1>6. CASE Char(0) = NUL /\ kpc' = "parsed" /\ UNCHANGED <<cursor, keyLen>>
    BY <1>1, <1>3, <1>4, <1>6 DEF GrammarInv, FieldsInv, KeyInv, VerbInv, EndInv
  <1>7. CASE /\ Char(0) \notin {Space, NUL} /\ keyLen' = 0 /\ UNCHANGED cursor
             /\ kpc' = IF Len(entry) >= MaxFields THEN "malformed" ELSE "key"
    <2>1. WordBegins(text, cursor) /\ cursor <= Len(text)
      BY <1>2, <1>3, <1>4, <1>7 DEF WordBegins
    <2>2. CASE Len(entry) >= MaxFields
      <3>1. ~Valid(text)
        BY <1>2, <1>3, <2>1, <2>2, TooMany DEF Settled
      <3> QED BY <1>1, <1>7, <2>2, <3>1 DEF GrammarInv, FieldsInv, KeyInv, VerbInv, EndInv
    <2>3. CASE ~(Len(entry) >= MaxFields)
      <3>1. kpc' = "key" /\ cursor' - keyLen' = cursor
        BY <1>2, <1>7, <2>3
      <3>2. KeyBefore(text, cursor, cursor)
        BY <1>2 DEF KeyBefore
      <3>3. KeyInv'
        BY <1>1, <1>3, <1>7, <2>1, <3>1, <3>2 DEF KeyInv
      <3> QED BY <3>1, <3>3 DEF GrammarInv, FieldsInv, VerbInv, EndInv
    <2> QED BY <2>2, <2>3
  <1> QED
    <2> USE DEF Field
    <2> QED BY <1>5, <1>6, <1>7

(***************************************************************************)
(* One turn of the loop over a key, and its end in any way.                *)
(***************************************************************************)
LEMMA KeyGrammar ==
  ASSUME KvfmtInv, GrammarInv, Key
  PROVE  GrammarInv'
  <1> DEFINE a == cursor - keyLen
             spec == [key |-> SubSeq(text, a, cursor - 1), arg |-> "none"]
  <1>1. kpc = "key" /\ text' = text
    BY DEF Key, callVars
  <1>2. /\ cursor \in Nat /\ keyLen \in Nat /\ Len(text) \in Nat /\ text \in Seq(STRING)
        /\ CallTypeOK /\ cursor > 0 /\ a \in Int /\ entry \in Seq(KvfmtEntry)
    BY DEF KvfmtInv, CallTypeOK, ParserInv
  <1>3. /\ cursor <= Len(text) /\ WordBegins(text, a) /\ KeyBefore(text, a, cursor)
        /\ Settled(text, entry, a)
    BY <1>1 DEF GrammarInv, KeyInv
  <1>4. /\ Char(0) = text[cursor] /\ Char(0) # NUL
        /\ Char(1) = NUL <=> cursor = Len(text)
        /\ Char(1) # NUL => cursor < Len(text) /\ Char(1) = text[cursor + 1]
    BY <1>2, <1>3, CharAt
  <1>5. AtVerb <=> cursor < Len(text) /\ text[cursor] = "=" /\ text[cursor + 1] = "%"
    BY <1>2, <1>3, <1>4 DEF AtVerb, NUL
  <1>6. a \in 1..Len(text) /\ a <= cursor
    BY <1>2, <1>3 DEF WordBegins
  <1>7. CASE ~AtVerb /\ Char(1) # NUL /\ Char(0) \notin Banned
    <2>1. /\ kpc' = "key" /\ cursor' = cursor + 1 /\ keyLen' = keyLen + 1 /\ entry' = entry
      BY <1>1, <1>4, <1>7 DEF Key
    <2>2. cursor' - keyLen' = a
      BY <1>2, <2>1
    <2>3. KeyBefore(text, a, cursor + 1)
      BY <1>2, <1>3, <1>4, <1>5, <1>7 DEF KeyBefore
    <2>4. cursor' <= Len(text)
      BY <1>2, <1>4, <1>7, <2>1
    <2> HIDE DEF a
    <2>5. KeyInv'
      BY <1>1, <1>3, <2>1, <2>2, <2>3, <2>4 DEF KeyInv
    <2> QED BY <2>1, <2>5 DEF GrammarInv, FieldsInv, VerbInv, EndInv
  <1>8. CASE ~AtVerb /\ Char(1) # NUL /\ Char(0) \in Banned
    <2>1. kpc' = "malformed"
      BY <1>1, <1>4, <1>8 DEF Key
    <2>2. ~Valid(text)
      <3> HIDE DEF a
      <3>1. cursor \in a..Len(text)
        BY <1>2, <1>3, <1>6
      <3> QED BY <1>2, <1>3, <1>4, <1>5, <1>8, <3>1, BannedInKey
    <2> QED BY <1>1, <2>1, <2>2 DEF GrammarInv, FieldsInv, KeyInv, VerbInv, EndInv
  <1>9. CASE ~AtVerb /\ Char(1) = NUL
    <2>1. kpc' = "malformed"
      BY <1>1, <1>9 DEF Key
    <2>2. ~Valid(text)
      <3> HIDE DEF a
      <3> QED BY <1>2, <1>3, <1>4, <1>9, KeyCut
    <2> QED BY <1>1, <2>1, <2>2 DEF GrammarInv, FieldsInv, KeyInv, VerbInv, EndInv
  <1>10. CASE AtVerb /\ keyLen = 0
    <2>1. kpc' = "malformed"
      BY <1>1, <1>10 DEF Key
    <2>2. a = cursor
      BY <1>2, <1>10
    <2>3. ~Valid(text)
      BY <1>2, <1>3, <1>5, <1>10, <2>2, KeyEmpty
    <2> QED BY <1>1, <2>1, <2>3 DEF GrammarInv, FieldsInv, KeyInv, VerbInv, EndInv
  <1>11. CASE AtVerb /\ keyLen # 0
    <2>1. /\ kpc' = "verb" /\ entry' = Append(entry, spec) /\ keyLen' = keyLen
          /\ long' <=> Char(2) = "l"
          /\ cursor' = IF Char(2) = "l" THEN cursor + 3 ELSE cursor + 2
      BY <1>1, <1>11 DEF Key
    <2>2. (Char(2) = "l") <=> (cursor + 2 <= Len(text) /\ text[cursor + 2] = "l")
      BY <1>2, CharAt DEF NUL
    <2>3. (IF long' THEN cursor' - 3 ELSE cursor' - 2) = cursor
      <3>1. CASE Char(2) = "l"
        BY <1>2, <2>1, <3>1
      <3>2. CASE Char(2) # "l"
        BY <1>2, <2>1, <3>2
      <3> QED BY <3>1, <3>2
    <2>4. SubSeq(entry', 1, Len(entry') - 1) = entry
      <3> HIDE DEF spec
      <3>1. a \in Int /\ cursor - 1 \in Int /\ 1 <= a /\ cursor - 1 <= Len(text)
        BY <1>2, <1>3, <1>6
      <3>2. spec \in KvfmtEntry
        <4> HIDE DEF a
        <4> QED BY <1>2, <3>1, KeyCopied DEF spec
      <3> QED BY <1>2, <2>1, <3>2, AppendFront
    <2>5. keyLen' > 0 /\ (long' <=> (cursor + 2 <= Len(text) /\ text[cursor + 2] = "l"))
      BY <1>2, <1>11, <2>1, <2>2
    <2>6. KeyBefore(text, a, cursor) /\ WordBegins(text, a) /\ cursor + 1 <= Len(text)
          /\ text[cursor] = "=" /\ text[cursor + 1] = "%"
      BY <1>2, <1>3, <1>5, <1>11
    <2>7. cursor - keyLen' = a /\ entry' = Append(entry, spec)
      BY <2>1
    <2>8. VerbInv'
      <3> HIDE DEF a
      <3> QED BY <1>1, <1>3, <2>3, <2>4, <2>5, <2>6, <2>7 DEF VerbInv
    <2> QED BY <2>1, <2>8 DEF GrammarInv, FieldsInv, KeyInv, EndInv
  <1> QED BY <1>7, <1>8, <1>9, <1>10, <1>11

(***************************************************************************)
(* Setting the type of the last entry is the same as appending the whole   *)
(* entry.                                                                  *)
(***************************************************************************)
LEMMA LastCompleted ==
  ASSUME NEW e \in Seq(KvfmtEntry), NEW q \in Seq(STRING), NEW x \in ArgTypes,
         NEW f, f = Append(e, [key |-> q, arg |-> "none"])
  PROVE  [f EXCEPT ![Len(f)].arg = x] = Append(e, [key |-> q, arg |-> x])
  <1> DEFINE r == [key |-> q, arg |-> "none"]
             s == [key |-> q, arg |-> x]
  <1>1. r \in KvfmtEntry /\ s \in KvfmtEntry
    BY FreshEntry DEF KvfmtEntry
  <1>2. [r EXCEPT !.arg = x] = s
    OBVIOUS
  <1> HIDE DEF r, s
  <1>3. /\ f \in Seq(KvfmtEntry) /\ Len(f) = Len(e) + 1 /\ Len(e) \in Nat /\ f[Len(e) + 1] = r
        /\ \A i \in 1..Len(e) : f[i] = e[i]
    BY <1>1, AppendProperties DEF r
  <1> DEFINE g == Append(e, s)
             h == [f EXCEPT ![Len(f)] = s]
  <1>4. /\ g \in Seq(KvfmtEntry) /\ Len(g) = Len(e) + 1 /\ g[Len(e) + 1] = s
        /\ \A i \in 1..Len(e) : g[i] = e[i]
    BY <1>1, AppendProperties
  <1>5. Len(f) \in 1..Len(f)
    BY <1>3
  <1>6. /\ h \in Seq(KvfmtEntry) /\ Len(h) = Len(f)
        /\ \A i \in 1..Len(f) : h[i] = IF i = Len(f) THEN s ELSE f[i]
    <2>1. h \in Seq(KvfmtEntry) /\ Len(h) = Len(f)
      BY <1>1, <1>3, <1>5, ExceptSeq
    <2>2. DOMAIN f = 1..Len(f)
      BY <1>3
    <2>3. \A i \in DOMAIN f : h[i] = IF i = Len(f) THEN s ELSE f[i]
      OBVIOUS
    <2> QED BY <2>1, <2>2, <2>3
  <1>7. [f EXCEPT ![Len(f)].arg = x] = h
    BY <1>2, <1>3
  <1> HIDE DEF g, h
  <1>8. Len(h) = Len(g) /\ \A i \in 1..Len(h) : h[i] = g[i]
    <2>1. Len(h) = Len(e) + 1 /\ Len(f) = Len(e) + 1 /\ Len(g) = Len(e) + 1 /\ Len(e) \in Nat
      BY <1>3, <1>4, <1>6
    <2>2. ASSUME NEW i \in 1..Len(e) PROVE h[i] = g[i]
      <3>1. i \in 1..Len(f) /\ i # Len(f)
        BY <2>1
      <3>2. h[i] = f[i] /\ f[i] = e[i] /\ g[i] = e[i]
        BY <1>3, <1>4, <1>6, <3>1
      <3> QED BY <3>2
    <2>3. h[Len(e) + 1] = g[Len(e) + 1]
      BY <1>4, <1>6, <2>1
    <2> QED BY <2>1, <2>2, <2>3
  <1>9. h = g
    BY <1>4, <1>6, <1>8, SeqEqual
  <1> QED BY <1>7, <1>9 DEF g, s

(***************************************************************************)
(* The verb, and what follows it.                                          *)
(***************************************************************************)
LEMMA VerbGrammar ==
  ASSUME KvfmtInv, GrammarInv, Verb
  PROVE  GrammarInv'
  <1> DEFINE k == IF long THEN cursor - 3 ELSE cursor - 2
             a == k - keyLen
             done == SubSeq(entry, 1, Len(entry) - 1)
             q == SubSeq(text, a, k - 1)
  <1>1. kpc = "verb" /\ text' = text
    BY DEF Verb, callVars
  <1>2. /\ cursor \in Nat /\ cursor > 0 /\ cursor <= Len(text) + 1 /\ keyLen \in Nat
        /\ Len(text) \in Nat /\ text \in Seq(STRING) /\ CallTypeOK /\ long \in BOOLEAN
        /\ entry \in Seq(KvfmtEntry) /\ Len(entry) \in Nat /\ Len(entry) > 0
    BY <1>1 DEF KvfmtInv, CallTypeOK, ParserInv, ParserInBounds
  <1>3. /\ keyLen > 0 /\ WordBegins(text, a) /\ KeyBefore(text, a, k)
        /\ k + 1 <= Len(text) /\ text[k] = "=" /\ text[k + 1] = "%"
        /\ long <=> (k + 2 <= Len(text) /\ text[k + 2] = "l")
        /\ Settled(text, done, a)
        /\ entry = Append(done, [key |-> q, arg |-> "none"])
    BY <1>1 DEF GrammarInv, VerbInv
  <1>4. k \in Int /\ (long => cursor = k + 3) /\ (~long => cursor = k + 2)
    BY <1>2
  <1> HIDE DEF k
  <1>5. a \in 1..Len(text) /\ k \in (a + 1)..(Len(text) - 1)
    BY <1>2, <1>3, <1>4 DEF WordBegins
  <1>6. q \in Seq(STRING)
    <2>1. \A i \in a..(k - 1) : i \in 1..Len(text)
      BY <1>2, <1>5
    <2>2. \A i \in a..(k - 1) : text[i] \in STRING
      BY <1>2, <2>1, ElementOfSeq
    <2>3. a \in Int /\ k - 1 \in Int
      BY <1>4, <1>5
    <2> HIDE DEF a
    <2> QED BY <2>2, <2>3, SubSeqProperties
  <1>7. done \in Seq(KvfmtEntry)
    <2>1. \A i \in 1..(Len(entry) - 1) : entry[i] \in KvfmtEntry
      BY <1>2, ElementOfSeq
    <2> QED BY <1>2, <2>1, SubSeqProperties
  <1> HIDE DEF a, done, q
  <1>8. /\ cursor <= Len(text) => Char(0) = text[cursor]
        /\ cursor > Len(text) => Char(0) = NUL
        /\ cursor + 1 <= Len(text) => Char(1) = text[cursor + 1] /\ Char(1) # NUL
        /\ cursor + 1 > Len(text) => Char(1) = NUL
    BY <1>2, CharAt
  <1> DEFINE fine == Char(0) \in Verbs /\ ~(Char(0) = "m" /\ long)
             ended == Char(1) \in {NUL, Space}
  <1>9. Ended(text, cursor, long) <=> fine /\ ended
    <2>1. NUL \notin Verbs
      BY Characters
    <2>2. CASE cursor > Len(text)
      BY <1>2, <1>8, <2>1, <2>2 DEF Ended
    <2>3. CASE cursor <= Len(text)
      <3>1. ended <=> (cursor = Len(text) \/ text[cursor + 1] = Space)
        BY <1>2, <1>8, <2>3
      <3> HIDE DEF ended
      <3> QED BY <1>8, <2>3, <3>1 DEF Ended
    <2> QED BY <1>2, <2>2, <2>3
  <1>10. CASE ~(fine /\ ended)
    <2>1. kpc' = "malformed"
      BY <1>1, <1>10 DEF Verb
    <2>2. KeyEnds(text, a, k)
      BY <1>2, <1>3, <1>4, <1>5, KeyEnded
    <2>3. ~Valid(text)
      <3>1. ~Ended(text, cursor, long)
        BY <1>9, <1>10
      <3> HIDE DEF fine, ended
      <3> QED BY <1>2, <1>3, <1>4, <1>5, <2>2, <3>1, VerbWrong
    <2> QED BY <1>1, <2>1, <2>3 DEF GrammarInv, FieldsInv, KeyInv, VerbInv, EndInv
  <1>11. CASE fine /\ ended
    <2> DEFINE x == ArgType(Char(0), long)
    <2>1. /\ kpc' = "fields" /\ cursor' = cursor + 1
          /\ entry' = [entry EXCEPT ![Len(entry)].arg = x]
      BY <1>1, <1>11 DEF Verb
    <2>2. x \in ArgTypes /\ Ended(text, cursor, long)
      BY <1>9, <1>11, ArgTypeKnown
    <2>3. cursor <= Len(text) /\ Char(0) = text[cursor]
      BY <1>2, <1>8, <2>2 DEF Ended
    <2> DEFINE s == [key |-> q, arg |-> x]
    <2>4. s = [key |-> SubSeq(text, a, k - 1), arg |-> ArgType(text[cursor], long)]
      BY <2>3 DEF q
    <2> HIDE DEF x, fine, ended, s
    <2>5. <<a, cursor>> \in Words(text) /\ Specs(text, <<a, cursor>>) = {s}
      <3>1. /\ text \in Seq(STRING) /\ WordBegins(text, a) /\ k \in (a + 1)..(Len(text) - 1)
            /\ KeyBefore(text, a, k) /\ text[k] = "=" /\ text[k + 1] = "%"
            /\ long \in BOOLEAN /\ (long <=> (k + 2 <= Len(text) /\ text[k + 2] = "l"))
            /\ (long => cursor = k + 3) /\ (~long => cursor = k + 2)
            /\ Ended(text, cursor, long)
        BY <1>2, <1>3, <1>4, <1>5, <2>2
      <3> QED BY <2>4, <3>1, VerbRight
    <2>6. entry' = Append(done, s)
      BY <1>3, <1>6, <1>7, <2>1, <2>2, LastCompleted DEF s
    <2>7. s \in KvfmtEntry
      BY <1>6, <2>2 DEF KvfmtEntry, s
    <2>8. Settled(text, entry', cursor + 1)
      BY <1>2, <1>3, <1>7, <2>5, <2>6, <2>7, SettledMore
    <2>9. Char(0)' \in {NUL, Space}
      BY <1>1, <1>2, <2>1, <2>2 DEF Char, Ended
    <2>10. FieldsInv'
      BY <1>1, <2>1, <2>8, <2>9 DEF FieldsInv
    <2> QED BY <2>1, <2>10 DEF GrammarInv, KeyInv, VerbInv, EndInv
  <1> QED BY <1>10, <1>11

(***************************************************************************)
(* At the end of the call nothing is left to be parsed.                    *)
(***************************************************************************)
LEMMA EndGrammar ==
  ASSUME GrammarInv, Parsed \/ Rejected
  PROVE  GrammarInv'
  <1>1. kpc' = "done"
    BY DEF Parsed, Rejected
  <1> QED BY <1>1 DEF GrammarInv, FieldsInv, KeyInv, VerbInv, EndInv

(***************************************************************************)
(* At every step the entries are the fields of the words passed so far.    *)
(***************************************************************************)
LEMMA GrammarInvariant == KvfmtSpec => []GrammarInv
  <1>1. KvfmtInit => GrammarInv
    BY DEF KvfmtInit, GrammarInv, FieldsInv, KeyInv, VerbInv, EndInv
  <1>2. KvfmtInv /\ GrammarInv /\ [KvfmtNext]_kvfmtVars => GrammarInv'
    <2> SUFFICES ASSUME KvfmtInv, GrammarInv, [KvfmtNext]_kvfmtVars PROVE GrammarInv'
      OBVIOUS
    <2>1. CASE KvfmtCall
      BY <2>1, CallGrammar
    <2>2. CASE KvfmtStep
      BY <2>2, ResolveGrammar, FieldGrammar, KeyGrammar, VerbGrammar, EndGrammar DEF KvfmtStep
    <2>3. CASE UNCHANGED kvfmtVars
      BY <2>3 DEF kvfmtVars, GrammarInv, FieldsInv, KeyInv, VerbInv, EndInv, Char
    <2> QED BY <2>1, <2>2, <2>3 DEF KvfmtNext
  <1> QED BY <1>1, <1>2, KvfmtInvariant, PTL DEF KvfmtSpec

(***************************************************************************)
(* pslog_parse_kvfmt_layout accepts exactly the strings of the grammar,    *)
(* whatever the string and the limit of fields, and gives every field the  *)
(* key and the type of argument the grammar gives it: va_arg is never read *)
(* with another type.                                                      *)
(***************************************************************************)
THEOREM ParserMeetsGrammar == KvfmtSpec => []GrammarAgrees
  <1>1. KvfmtInv /\ GrammarInv => GrammarAgrees
    <2> SUFFICES ASSUME KvfmtInv, GrammarInv PROVE GrammarAgrees
      OBVIOUS
    <2>1. kpc = "malformed" => ~Valid(text)
      BY DEF GrammarInv, EndInv
    <2>2. ASSUME kpc = "parsed"
          PROVE  /\ Valid(text) /\ Len(entry) = Cardinality(Words(text))
                 /\ \A w \in Words(text) : Specs(text, w) = {entry[Index(text, w)]}
      <3>1. Settled(text, entry, Len(text) + 1) /\ text \in Seq(STRING)
        BY <2>2 DEF GrammarInv, EndInv, KvfmtInv, CallTypeOK
      <3>2. /\ Len(entry) = Cardinality(Words(text))
            /\ \A w \in Words(text) : Specs(text, w) = {entry[Index(text, w)]}
        BY <3>1, BeforeEnds DEF Settled
      <3>3. Len(entry) <= MaxFields
        BY DEF KvfmtInv, ParserInv, ParserInBounds
      <3> QED BY <3>2, <3>3 DEF Valid
    <2> QED BY <2>1, <2>2 DEF GrammarAgrees
  <1> QED BY <1>1, KvfmtInvariant, GrammarInvariant, PTL
=============================================================================
