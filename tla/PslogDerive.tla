----------------------------- MODULE PslogDerive -----------------------------
(***************************************************************************)
(* The memory of one derivation: with() copies the fields of the child,    *)
(* renders them into a buffer that grows, and keeps the text as the prefix *)
(* of the child's lines. Every allocation may fail. pslog_new renders its  *)
(* literals into the same kind of buffer and keeps those that fit.         *)
(*                                                                         *)
(* size_t counts to SizeMax. A byte of the text is its position in it, so  *)
(* data shows which bytes the buffer holds; the text is appended in pieces *)
(* and longer than the estimate in general (an errno text, two resets).    *)
(***************************************************************************)
EXTENDS Integers, Sequences, FiniteSets

CONSTANTS
  SizeMax,           \* (size_t)-1
  DefaultCapacity,   \* PSLOG_DEFAULT_LINE_BUFFER_CAPACITY; the inline buffer
                     \* has one byte more
  LiteralCapacity,   \* PSLOG_JSON_COLOR_LITERAL_CAPACITY
  Estimates,         \* results of pslog_estimate_field_prefix_capacity
  PieceLists,        \* texts to render: the lengths of their pieces
  FieldLists         \* types of the child's fields

ASSUME DeriveAssumption ==
  /\ SizeMax \in Nat /\ SizeMax % 2 = 1   \* all bits are set
  /\ DefaultCapacity \in 1..(SizeMax - 2)
  /\ LiteralCapacity \in 2..DefaultCapacity
  /\ Estimates \subseteq 0..SizeMax
  /\ \A t \in PieceLists : t \in Seq(1..SizeMax)
  /\ \A fs \in FieldLists : fs \in Seq({"STRING", "BYTES", "SIGNED"})

VARIABLES
  dpc,       \* where the derivation is
  fields,    \* the types of the fields to copy
  copied,    \* how many of them have been copied
  buffer,    \* the buffer: capacity, block size, heap_owned, len
  data,      \* the bytes in it
  pieces,    \* the pieces of the text not yet appended
  todo,      \* bytes of the piece in hand still to append
  pos,       \* bytes of the text handed to append so far
  candidate, \* new_capacity in pslog_buffer_reserve
  kept,      \* the prefix or literal kept, or NotKept
  blocks,    \* heap blocks in use
  references, \* shared->refcount
  outcome,   \* "none", "child", "null" or "literal"
  failed     \* an allocation has failed

bufferVars == <<buffer, data, pieces, todo, pos, candidate>>
deriveVars == <<dpc, fields, copied, bufferVars, kept, blocks, references, outcome, failed>>

NotKept == <<0>>
NoBuffer == [capacity |-> DefaultCapacity, block |-> DefaultCapacity + 1,
             heap |-> FALSE, len |-> 0]

\* A block that there is one of.
Sole(name) == <<name, 0>>

DeriveInit ==
  /\ dpc = "idle" /\ fields = <<>> /\ copied = 0
  /\ buffer = NoBuffer /\ data = <<>> /\ pieces = <<>> /\ todo = 0 /\ pos = 0 /\ candidate = 0
  /\ kept = NotKept /\ blocks = {} /\ references = 1
  /\ outcome = "none" /\ failed = FALSE

\* malloc, calloc or realloc of block b: it is there afterwards, or it fails.
Allocates(b, ok) ==
  /\ blocks' = IF ok THEN blocks \cup {b} ELSE blocks
  /\ failed' = (failed \/ ~ok)

-----------------------------------------------------------------------------
(* The logger and its fields.                                              *)

\* pslog_clone_with_fields retains the shared state, then allocates.
CloneWithFields(fs, text) ==
  /\ dpc = "idle" /\ outcome = "none"
  /\ dpc' = "allocate" /\ references' = references + 1
  /\ fields' = fs /\ pieces' = text
  /\ UNCHANGED <<copied, buffer, data, todo, pos, candidate, kept, blocks, outcome, failed>>

\* pslog_allocate_logger: two blocks, both freed if either is missing.
Allocate ==
  /\ dpc = "allocate"
  /\ \/ /\ blocks' = blocks \cup {Sole("logger"), Sole("impl")}
        /\ dpc' = "fields"
        /\ UNCHANGED <<references, outcome, failed>>
     \/ /\ failed' = TRUE /\ outcome' = "null"
        /\ references' = references - 1
        /\ dpc' = "idle"
        /\ UNCHANGED blocks
  /\ UNCHANGED <<fields, copied, bufferVars, kept>>

\* pslog_copy_fields: the array.
CopyArray ==
  /\ dpc = "fields"
  /\ IF fields = <<>> THEN dpc' = "kept" /\ UNCHANGED <<blocks, failed>>
     ELSE \E ok \in BOOLEAN :
            /\ Allocates(Sole("fields"), ok)
            /\ dpc' = IF ok THEN "copy" ELSE "destroy"
  /\ UNCHANGED <<fields, copied, bufferVars, kept, references, outcome>>

\* The blocks of the first n fields; bytes are taken to be at least one, none
\* are copied like a number.
FieldBlocks(n) ==
  {<<"key", i>> : i \in 1..n}
  \cup {<<"value", i>> : i \in {j \in 1..n : fields[j] \in {"STRING", "BYTES"}}}

\* Mutant: the key of the field whose value could not be copied stays.
CopyFieldLeaksKey ==
  /\ dpc = "copy"
  /\ LET i == copied + 1
         freed == blocks \ (FieldBlocks(copied) \cup {Sole("fields")})
     IN \/ /\ blocks' = blocks \cup (FieldBlocks(i) \ FieldBlocks(copied))
           /\ copied' = i
           /\ dpc' = IF i = Len(fields) THEN "init" ELSE "copy"
           /\ UNCHANGED failed
        \/ /\ blocks' = IF fields[i] = "STRING" THEN freed \cup {<<"key", i>>}
                                                ELSE freed
           /\ copied' = 0 /\ failed' = TRUE
           /\ dpc' = "destroy"
  /\ UNCHANGED <<fields, bufferVars, kept, references, outcome>>

\* pslog_copy_field, and the undoing in pslog_copy_fields: a failure frees what
\* the field already has, the fields before it and the array.
CopyField ==
  /\ dpc = "copy"
  /\ LET i == copied + 1
     IN \/ /\ blocks' = blocks \cup (FieldBlocks(i) \ FieldBlocks(copied))
           /\ copied' = i
           /\ dpc' = IF i = Len(fields) THEN "init" ELSE "copy"
           /\ UNCHANGED failed
        \/ /\ blocks' = blocks \ (FieldBlocks(copied) \cup {Sole("fields")})
           /\ copied' = 0 /\ failed' = TRUE
           /\ dpc' = "destroy"
  /\ UNCHANGED <<fields, bufferVars, kept, references, outcome>>

-----------------------------------------------------------------------------
(* The buffer.                                                             *)

NormalizedCapacity(capacity) ==
  CASE capacity = 0 -> DefaultCapacity
    [] capacity = SizeMax -> DefaultCapacity   \* refused, then replaced
    [] OTHER -> capacity

\* A buffer in a block of its own.
HeapBuffer(capacity) ==
  [capacity |-> capacity, block |-> capacity + 1, heap |-> TRUE, len |-> 0]

\* pslog_buffer_init: a capacity beyond the inline buffer needs a block, and
\* without one the inline buffer has to do.
InitBuffer(capacity) ==
  LET c == NormalizedCapacity(capacity)
  IN /\ data' = <<>>
     /\ IF c <= DefaultCapacity
        THEN /\ buffer' = [NoBuffer EXCEPT !.capacity = c]
             /\ UNCHANGED <<blocks, failed>>
        ELSE \E ok \in BOOLEAN :
               /\ Allocates(Sole("buffer"), ok)
               /\ buffer' = IF ok THEN HeapBuffer(c) ELSE NoBuffer

\* pslog_build_field_prefix
InitPrefix ==
  /\ dpc = "init"
  /\ \E estimate \in Estimates : InitBuffer(estimate)
  /\ dpc' = "append"
  /\ UNCHANGED <<fields, copied, pieces, todo, pos, candidate, kept, references, outcome>>

\* One literal of pslog_build_json_color_literals.
InitLiteral(text) ==
  /\ dpc = "idle" /\ outcome = "none"
  /\ InitBuffer(LiteralCapacity - 1)
  /\ pieces' = text /\ dpc' = "append"
  /\ UNCHANGED <<fields, copied, todo, pos, candidate, kept, references, outcome>>

AppendNext ==
  /\ dpc = "append" /\ todo = 0 /\ pieces # <<>>
  /\ todo' = Head(pieces) /\ pieces' = Tail(pieces)
  /\ UNCHANGED <<dpc, fields, copied, buffer, data, pos, candidate, kept, blocks, references,
                 outcome, failed>>

\* pslog_buffer_append_n while there is room: as much as fits.
AppendCopy ==
  /\ dpc = "append" /\ todo > 0 /\ buffer.len < buffer.capacity
  /\ LET room == buffer.capacity - buffer.len
         chunk == IF todo > room THEN room ELSE todo
     IN /\ data' = data \o [i \in 1..chunk |-> pos + i]
        /\ buffer' = [buffer EXCEPT !.len = @ + chunk]
        /\ todo' = todo - chunk
        /\ pos' = pos + chunk
  /\ UNCHANGED <<dpc, fields, copied, pieces, candidate, kept, blocks, references, outcome,
                 failed>>

\* What pslog_buffer_flush asks of pslog_buffer_reserve; the product wraps.
Wanted == (2 * buffer.capacity) % (SizeMax + 1)

Refused == Wanted > SizeMax - 1 \/ buffer.capacity > SizeMax - 1

\* The rest of a piece is dropped if the buffer is full after the flush.
Drop == todo' = 0 /\ pos' = pos + todo

\* pslog_buffer_append_n when the buffer is full: pslog_buffer_flush, with no
\* output to flush to, and pslog_buffer_reserve up to its loop.
AppendFull ==
  /\ dpc = "append" /\ todo > 0 /\ buffer.len = buffer.capacity
  /\ IF Refused \/ Wanted <= buffer.capacity
     THEN Drop /\ UNCHANGED <<dpc, candidate>>
     ELSE /\ dpc' = "reserve" /\ candidate' = buffer.capacity
          /\ UNCHANGED <<todo, pos>>
  /\ UNCHANGED <<fields, copied, buffer, data, pieces, kept, blocks, references, outcome,
                 failed>>

\* One turn of the loop: doubling, or what is wanted where doubling would wrap.
Reserve ==
  /\ dpc = "reserve" /\ candidate < Wanted
  /\ candidate' = IF candidate > SizeMax \div 2 THEN Wanted ELSE 2 * candidate
  /\ UNCHANGED <<dpc, fields, copied, buffer, data, pieces, todo, pos, kept, blocks,
                 references, outcome, failed>>

\* The new block, which takes the bytes over. A size that wraps is refused like
\* one there is no memory for.
Grow ==
  /\ dpc = "reserve" /\ candidate >= Wanted
  /\ \E ok \in BOOLEAN :
       /\ ok => candidate < SizeMax
       /\ Allocates(Sole("buffer"), ok)
       /\ IF ok THEN /\ buffer' = [HeapBuffer(candidate) EXCEPT !.len = buffer.len]
                     /\ UNCHANGED <<todo, pos>>
                ELSE Drop /\ UNCHANGED buffer
  /\ dpc' = "append" /\ candidate' = 0
  /\ UNCHANGED <<fields, copied, data, pieces, kept, references, outcome>>

\* pslog_buffer_destroy
DestroyBuffer(kind) == blocks' = (blocks \cup kind) \ {Sole("buffer")}

\* pslog_store_json_color_literal
FitsLiteral == buffer.len + 1 <= LiteralCapacity

\* The text is rendered: the prefix is duplicated, a literal copied if it fits.
Keep ==
  /\ dpc = "append" /\ todo = 0 /\ pieces = <<>>
  /\ IF Sole("impl") \notin blocks
     THEN /\ kept' = IF FitsLiteral THEN data ELSE NotKept
          /\ DestroyBuffer({}) /\ outcome' = "literal" /\ dpc' = "idle"
          /\ UNCHANGED failed
     ELSE /\ UNCHANGED outcome
          /\ \/ /\ data = <<>>
                /\ DestroyBuffer({}) /\ dpc' = "kept"
                /\ UNCHANGED <<kept, failed>>
             \/ /\ data # <<>>
                /\ DestroyBuffer({Sole("prefix")}) /\ kept' = data /\ dpc' = "kept"
                /\ UNCHANGED failed
             \/ /\ data # <<>>
                /\ DestroyBuffer({}) /\ dpc' = "destroy" /\ failed' = TRUE
                /\ UNCHANGED kept
  /\ UNCHANGED <<fields, copied, bufferVars, references>>

WithReturn ==
  /\ dpc = "kept" /\ outcome = "none"
  /\ dpc' = "idle" /\ outcome' = "child"
  /\ UNCHANGED <<fields, copied, bufferVars, kept, blocks, references, failed>>

\* pslog_logger_destroy, of an unfinished child by with() itself and of a child
\* by its owner.
DestroyChild ==
  /\ \/ dpc = "destroy"
     \/ dpc = "idle" /\ outcome = "child"
  /\ blocks' = blocks \ (FieldBlocks(copied)
                         \cup {Sole("fields"), Sole("prefix"), Sole("impl"),
                               Sole("logger")})
  /\ copied' = 0 /\ references' = references - 1
  /\ kept' = NotKept
  /\ dpc' = "idle" /\ outcome' = "null"
  /\ UNCHANGED <<fields, bufferVars, failed>>

DeriveStep ==
  \/ Allocate \/ CopyArray \/ CopyField \/ InitPrefix
  \/ AppendNext \/ AppendCopy \/ AppendFull \/ Reserve \/ Grow \/ Keep \/ WithReturn

DeriveNext ==
  \/ \E fs \in FieldLists, text \in PieceLists : CloneWithFields(fs, text)
  \/ \E text \in PieceLists : InitLiteral(text)
  \/ DeriveStep
  \/ DestroyChild

\* A call runs to its end; clients may do without calls.
DeriveSpec ==
  /\ DeriveInit /\ [][DeriveNext]_deriveVars
  /\ WF_deriveVars(DeriveStep) /\ WF_deriveVars(dpc = "destroy" /\ DestroyChild)

-----------------------------------------------------------------------------
(* Properties.                                                             *)

(***************************************************************************)
(* Every byte and the NUL after the last one lie in the block they are     *)
(* written to, for capacities up to the largest size_t and whichever       *)
(* allocation fails.                                                       *)
(***************************************************************************)
InBounds ==
  /\ buffer.len = Len(data) /\ buffer.len <= buffer.capacity
  /\ buffer.capacity + 1 <= buffer.block

(***************************************************************************)
(* A derivation that fails leaves nothing behind, neither a block nor a    *)
(* reference, and a child holds exactly the blocks destroy() frees.        *)
(***************************************************************************)
NothingLost ==
  dpc = "idle" =>
    IF outcome = "child"
    THEN /\ references = 2
         /\ blocks = FieldBlocks(copied) \cup {Sole("logger"), Sole("impl")}
                     \cup (IF fields # <<>> THEN {Sole("fields")} ELSE {})
                     \cup (IF kept # NotKept THEN {Sole("prefix")} ELSE {})
    ELSE references = 1 /\ blocks = {}

(***************************************************************************)
(* What is kept is the whole text, as long as no allocation failed and the *)
(* capacity could still be doubled; a literal that does not fit is not     *)
(* kept at all.                                                            *)
(***************************************************************************)
KeptUnlessFailed ==
  dpc = "idle" /\ kept # NotKept /\ ~failed /\ 2 * buffer.capacity <= SizeMax =>
    /\ kept = [i \in 1..pos |-> i]
    /\ outcome = "literal" => pos < LiteralCapacity

(***************************************************************************)
(* with(): every byte and its NUL lie in their block, a derivation that    *)
(* fails leaves no block and no reference, a child has exactly the blocks  *)
(* destroy() frees, and what it keeps is the whole text unless an          *)
(* allocation failed.                                                      *)
(***************************************************************************)
DerivedWhole == InBounds /\ NothingLost /\ KeptUnlessFailed

(***************************************************************************)
(* with() returns: no sequence of failures, and no capacity that can no    *)
(* longer be doubled, keeps the append loop going.                         *)
(***************************************************************************)
Returns == (dpc # "idle") ~> (dpc = "idle")
=============================================================================
