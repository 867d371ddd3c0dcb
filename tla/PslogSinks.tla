------------------------------ MODULE PslogSinks ------------------------------
(***************************************************************************)
(* What happens below the output mutex: pslog_write_output_locked hands a  *)
(* full buffer to the output, which is an observed output around one sink  *)
(* or around a tee of two sinks (what LOG_OUTPUT=default+path makes).      *)
(* Every sink may accept a part of what it is given, report an error, or   *)
(* claim to have accepted more than it was given.                          *)
(*                                                                         *)
(* The bytes of the log are numbered 1, 2, ...; a buffer is the bytes      *)
(* base + 1 .. base + len.                                                 *)
(***************************************************************************)
EXTENDS Integers, Sequences, FiniteSets

CONSTANTS
  Capacity,        \* the longest buffer
  ChunkCapacity,   \* the longest single write
  MaxBuffers       \* bound on the buffers that are written

ASSUME SinksAssumption ==
  Capacity \in Nat \ {0} /\ ChunkCapacity \in Nat \ {0} /\ MaxBuffers \in Nat

Sides == {"first", "second"}

VARIABLES
  sides,       \* the sinks there are: "second" only in a tee
  pc,
  base,        \* bytes of the buffers before this one
  len,         \* length of the buffer
  offset,      \* offset in pslog_write_output_locked
  wrote,       \* first_written and second_written of pslog_tee_write
  err,         \* the error of the write that is under way
  result,      \* *written as reported upwards
  failures,    \* observed->failures
  shorts,      \* observed->short_writes
  got,         \* the bytes each sink has accepted, in order
  starts,      \* history: the first byte of each buffer
  reported     \* history: the bytes of buffers for which on_failure was called

vars == <<sides, pc, base, len, offset, wrote, err, result, failures, shorts,
          got, starts, reported>>

Init ==
  /\ sides \in {{"first"}, Sides}
  /\ pc = "idle"
  /\ base = 0 /\ len = 0 /\ offset = 0
  /\ wrote = [s \in Sides |-> 0]
  /\ err = FALSE
  /\ result = 0
  /\ failures = 0 /\ shorts = 0
  /\ got = [s \in Sides |-> <<>>]
  /\ starts = {}
  /\ reported = {}

Min2(a, b) == IF a <= b THEN a ELSE b

\* chunk_len
Chunk == Min2(len - offset, ChunkCapacity)

--------------------------------------------------------------------------------

\* pslog_write_output_locked is called with n bytes.
WriteOutput(n) ==
  /\ pc = "idle"
  /\ Cardinality(starts) < MaxBuffers
  /\ len' = n
  /\ starts' = starts \cup {base + 1}
  /\ pc' = "write"
  /\ UNCHANGED <<sides, base, offset, wrote, err, result, failures, shorts, got,
                 reported>>

\* output.write is called for the next chunk.
BeginWrite ==
  /\ pc = "write"
  /\ wrote' = [s \in Sides |-> 0]
  /\ err' = FALSE
  /\ pc' = "first"
  /\ UNCHANGED <<sides, base, len, offset, result, failures, shorts, got, starts,
                 reported>>

\* Sink s accepts the next k bytes of what is left of the chunk for it.
Accept(s, k) ==
  got' = [got EXCEPT ![s] =
            @ \o [j \in 1..k |-> base + offset + wrote[s] + j]]

(***************************************************************************)
(* A single sink: what it reports is passed on as it is, also more than    *)
(* the chunk.                                                              *)
(***************************************************************************)
SinkWrite(k, e) ==
  /\ pc = "first"
  /\ sides = {"first"}
  /\ k <= Chunk + 1
  /\ Accept("first", Min2(k, Chunk))
  /\ err' = e
  /\ result' = k
  /\ pc' = "observe"
  /\ UNCHANGED <<sides, base, len, offset, wrote, failures, shorts, starts,
                 reported>>

Other(s) == IF s = "first" THEN "second" ELSE "first"

(***************************************************************************)
(* One call of a side of a tee in the loop of pslog_tee_write: an error,   *)
(* or nothing accepted, ends the loop; otherwise the sides that are not    *)
(* done take turns.                                                        *)
(***************************************************************************)
TeeWrite(s, k, e) ==
  LET n == Min2(k, Chunk - wrote[s]) IN
  /\ pc = s
  /\ sides = Sides
  /\ wrote[s] < Chunk
  /\ k <= Chunk - wrote[s] + 1
  /\ Accept(s, n)
  /\ wrote' = [wrote EXCEPT ![s] = @ + n]
  /\ err' = (e \/ n = 0)
  /\ pc' = IF err' THEN "tee_return" ELSE Other(s)
  /\ UNCHANGED <<sides, base, len, offset, result, failures, shorts, starts,
                 reported>>

\* A side that has the whole chunk is passed over.
TeeSkip(s) ==
  /\ pc = s
  /\ sides = Sides
  /\ wrote[s] = Chunk
  /\ pc' = IF wrote[Other(s)] = Chunk THEN "tee_return" ELSE Other(s)
  /\ UNCHANGED <<sides, base, len, offset, wrote, err, result, failures, shorts,
                 got, starts, reported>>

\* Mutant: an error of one side is forgotten when the other made progress.
TeeReturnProgress ==
  /\ pc = "tee_return"
  /\ result' = Min2(wrote["first"], wrote["second"])
  /\ err' = (err /\ \A s \in Sides : wrote[s] = 0)
  /\ pc' = "observe"
  /\ UNCHANGED <<sides, base, len, offset, wrote, failures, shorts, got, starts,
                 reported>>

(***************************************************************************)
(* The end of pslog_tee_write: what both sides have is reported, with an   *)
(* error unless they have everything.                                      *)
(***************************************************************************)
TeeReturn ==
  /\ pc = "tee_return"
  /\ result' = Min2(wrote["first"], wrote["second"])
  /\ err' = (\E s \in Sides : wrote[s] < Chunk)
  /\ pc' = "observe"
  /\ UNCHANGED <<sides, base, len, offset, wrote, failures, shorts, got, starts,
                 reported>>

(***************************************************************************)
(* pslog_observed_write: anything but a complete write without an error is *)
(* counted and the callback is called.                                     *)
(***************************************************************************)
Observe ==
  LET failed == err \/ result # Chunk IN
  /\ pc = "observe"
  /\ failures' = failures + IF failed THEN 1 ELSE 0
  /\ shorts' = shorts + IF result # Chunk THEN 1 ELSE 0
  /\ reported' = IF failed THEN reported \cup (base + 1)..(base + len) ELSE reported
  /\ pc' = "return"
  /\ UNCHANGED <<sides, base, len, offset, wrote, err, result, got, starts>>

(***************************************************************************)
(* The rest of the loop of pslog_write_output_locked.  When it ends, the   *)
(* buffer is given up, written or not.                                     *)
(***************************************************************************)
WriteReturn ==
  LET n == Min2(result, Chunk)
      more == ~err /\ n > 0 /\ offset + n < len
  IN
  /\ pc = "return"
  /\ IF more
     THEN offset' = offset + n /\ pc' = "write" /\ UNCHANGED <<base, len>>
     ELSE offset' = 0 /\ pc' = "idle" /\ base' = base + len /\ len' = 0
  /\ wrote' = [s \in Sides |-> 0]
  /\ err' = FALSE
  /\ result' = 0
  /\ UNCHANGED <<sides, failures, shorts, got, starts, reported>>

Next ==
  \/ \E n \in 1..Capacity : WriteOutput(n)
  \/ BeginWrite
  \/ \E k \in 0..ChunkCapacity + 1, e \in BOOLEAN :
       SinkWrite(k, e) \/ \E s \in Sides : TeeWrite(s, k, e)
  \/ \E s \in Sides : TeeSkip(s)
  \/ TeeReturn
  \/ Observe
  \/ WriteReturn
  \/ pc = "idle" /\ Cardinality(starts) = MaxBuffers /\ UNCHANGED vars

Spec == Init /\ [][Next]_vars

--------------------------------------------------------------------------------
(* Properties.                                                             *)

(***************************************************************************)
(* Each sink sees the log in order, no byte twice, and of every buffer a   *)
(* prefix: a failing or slow side of a tee never makes the other one see   *)
(* bytes again or lose some from the middle.                               *)
(***************************************************************************)
PrefixesInOrder ==
  \A s \in Sides : \A i \in 1..Len(got[s]) :
    \/ got[s][i] \in starts /\ (i > 1 => got[s][i - 1] < got[s][i])
    \/ i > 1 /\ got[s][i] = got[s][i - 1] + 1

Has(s, b) == \E i \in 1..Len(got[s]) : got[s][i] = b

(***************************************************************************)
(* pslog_write_output_locked goes on only behind bytes that every sink     *)
(* has.                                                                    *)
(***************************************************************************)
OffsetOnAllSides ==
  \A b \in (base + 1)..(base + offset), s \in sides : Has(s, b)

(***************************************************************************)
(* No byte is lost in silence: if a sink lacks a byte of a buffer that was *)
(* given up, the failure callback has been called for that buffer.         *)
(***************************************************************************)
LossReported ==
  \A b \in 1..base, s \in sides : Has(s, b) \/ b \in reported

(***************************************************************************)
(* The write loop over one sink or a tee: each side has a part of what was *)
(* sent, from its beginning and in order, the offset is what every side    *)
(* has, and bytes that did not arrive are counted and reported.            *)
(***************************************************************************)
SinksInStep == PrefixesInOrder /\ OffsetOnAllSides /\ LossReported

--------------------------------------------------------------------------------
(* The inductive invariant behind the properties.                          *)

TypeOK ==
  /\ sides \in {{"first"}, Sides}
  /\ pc \in {"idle", "write", "first", "second", "tee_return", "observe", "return"}
  /\ base \in Nat /\ len \in Nat /\ offset \in Nat /\ result \in Nat
  /\ wrote \in [Sides -> Nat]
  /\ got \in [Sides -> Seq(Nat)]
  /\ starts \subseteq Nat

\* Where a write is, and what a tee that reports no error has achieved.
PositionInv ==
  /\ pc = "idle" => len = 0 /\ offset = 0
  /\ pc # "idle" => offset < len /\ base + 1 \in starts
  /\ pc \in {"idle", "write"} => \A s \in Sides : wrote[s] = 0
  /\ \A s \in Sides : wrote[s] <= Chunk
  /\ sides # Sides =>
       pc \notin {"second", "tee_return"} /\ \A s \in Sides : wrote[s] = 0
  /\ sides = Sides /\ pc \in {"observe", "return"} /\ ~err =>
       result = Chunk /\ \A s \in Sides : wrote[s] = Chunk

\* The bytes of the buffer that sink s has taken.
Taken(s) ==
  offset + IF sides = Sides THEN wrote[s]
           ELSE IF pc \in {"observe", "return"} THEN Min2(result, Chunk) ELSE 0

\* What a sink has of the buffer is a prefix of it, and the last it got.
FrontInv ==
  \A s \in sides :
    /\ \A i \in 1..Len(got[s]) : got[s][i] <= base + Taken(s)
    /\ Taken(s) > 0 => Len(got[s]) > 0 /\ got[s][Len(got[s])] = base + Taken(s)
    /\ \A b \in (base + 1)..(base + Taken(s)) : Has(s, b)

ReportInv ==
  pc = "return" /\ (err \/ result # Chunk) => (base + 1)..(base + len) \subseteq reported

SinksInv ==
  TypeOK /\ PositionInv /\ FrontInv /\ ReportInv /\ PrefixesInOrder /\ LossReported

================================================================================
