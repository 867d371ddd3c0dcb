------------------------------- MODULE PslogFile -------------------------------
(***************************************************************************)
(* The outputs at the bottom: a stdio stream (pslog_output_from_fp) or a   *)
(* file descriptor (pslog_output_init_file), and the loop that writes a    *)
(* buffer to one. The C library and the system are external: fwrite takes  *)
(* a part into the buffer of the stream and may pass some of it on, fflush *)
(* passes on a part and, if it fails, keeps the rest, write takes a part   *)
(* or fails, with EINTR when a signal arrives first. A failure may leave   *)
(* errno as it was.                                                        *)
(*                                                                         *)
(* The bytes of the log are numbered 1, 2, ...; a buffer is the bytes      *)
(* start + 1 .. start + size.                                              *)
(***************************************************************************)
EXTENDS Integers, Sequences

CONSTANTS
  FileCapacity,    \* the longest buffer
  FileChunk,       \* the longest single write
  MaxFileBuffers   \* bound on the buffers written

\* Assumed of the constants.
FileAssumption ==
  FileCapacity \in Nat \ {0} /\ FileChunk \in Nat \ {0} /\ MaxFileBuffers \in Nat

\* Values of errno after a failure; 0 when the call did not set it.
Errnos == {0, 4, 5}
EINTR == 4
EIO == 5

VARIABLES
  kind,      \* "fp" or "fd"
  owned,     \* output.owned: descriptors always, streams if asked for
  step,
  start,     \* bytes of the buffers before this one
  size,      \* length of the buffer
  sent,      \* offset in pslog_write_output_locked
  taken,     \* result of fwrite
  status,    \* what the write or close callback returned
  written,   \* *written
  pending,   \* bytes in the buffer of the stream
  file,      \* bytes the system has taken
  fd,        \* the descriptor or stream: none, open, closed
  state,     \* pslog_fd_output: none, allocated, freed
  buffers,   \* buffers written so far
  failed     \* history: a call of the system for this buffer failed

fileVars == <<kind, owned, step, start, size, sent, taken, status, written, pending,
              file, fd, state, buffers, failed>>

FileInit ==
  /\ kind \in {"fp", "fd"} /\ owned \in BOOLEAN
  /\ step = "new" /\ start = 0 /\ size = 0 /\ sent = 0 /\ taken = 0
  /\ status = 0 /\ written = 0
  /\ pending = <<>> /\ file = <<>>
  /\ fd = "none" /\ state = "none" /\ buffers = 0 /\ failed = FALSE

ChunkLen == IF size - sent > FileChunk THEN FileChunk ELSE size - sent

\* The k bytes behind those sent.
Bytes(k) == [i \in 1..k |-> start + sent + i]

\* A status from errno: another one stands in when errno is 0.
StatusOf(e, otherwise) == IF e # 0 THEN e ELSE otherwise

-----------------------------------------------------------------------------
(* Opening.                                                                *)

\* pslog_output_from_fp: the caller has opened the stream.
FromFp ==
  /\ step = "new" /\ kind = "fp"
  /\ fd' = "open" /\ step' = "idle"
  /\ UNCHANGED <<kind, owned, start, size, sent, taken, status, written, pending,
                 file, state, buffers, failed>>

\* pslog_output_init_file_perms: open may fail, and the allocation behind it.
InitFile(outcome) ==
  /\ step = "new" /\ kind = "fd"
  /\ \/ outcome = "ok" /\ fd' = "open" /\ state' = "allocated" /\ step' = "idle"
        /\ owned' = TRUE /\ status' = 0
     \/ outcome = "open" /\ step' = "done" /\ UNCHANGED <<fd, state, owned>>
        /\ \E e \in Errnos : status' = StatusOf(e, -1)
     \/ outcome = "alloc" /\ fd' = "closed" /\ step' = "done"
        /\ UNCHANGED <<state, owned>> /\ status' = -1
  /\ UNCHANGED <<kind, start, size, sent, taken, written, pending, file,
                 buffers, failed>>

-----------------------------------------------------------------------------
(* Writing.                                                                *)

\* pslog_write_output_locked gets a buffer.
WriteFile(n) ==
  /\ step = "idle" /\ buffers < MaxFileBuffers
  /\ size' = n /\ sent' = 0 /\ buffers' = buffers + 1 /\ failed' = FALSE
  /\ step' = "write"
  /\ UNCHANGED <<kind, owned, start, taken, status, written, pending, file, fd, state>>

(***************************************************************************)
(* pslog_file_write: fwrite takes k bytes of the chunk, and the stream may *)
(* pass on j bytes of what it holds.                                       *)
(***************************************************************************)
Fwrite(k, j) ==
  LET held == pending \o Bytes(k)
  IN /\ step = "write" /\ kind = "fp"
     /\ k <= ChunkLen /\ j <= Len(held)
     /\ taken' = k /\ written' = k
     /\ file' = file \o SubSeq(held, 1, j)
     /\ pending' = SubSeq(held, j + 1, Len(held))
     /\ failed' = (failed \/ k < ChunkLen)
     /\ step' = "flush"
     /\ UNCHANGED <<kind, owned, start, size, sent, status, fd, state, buffers>>

\* fflush passes on j bytes, all of them unless it fails. The status is 0 only
\* when both calls succeeded.
Fflush(j, ok, e) ==
  /\ step = "flush" /\ j <= Len(pending) /\ (ok => j = Len(pending))
  /\ file' = file \o SubSeq(pending, 1, j)
  /\ pending' = SubSeq(pending, j + 1, Len(pending))
  /\ failed' = (failed \/ ~ok)
  /\ status' = IF taken = ChunkLen /\ ok THEN 0 ELSE StatusOf(e, EIO)
  /\ step' = "next"
  /\ UNCHANGED <<kind, owned, start, size, sent, taken, written, fd, state, buffers>>

\* pslog_fd_write: a failure, an interrupted call included, reports no bytes.
FdWrite(k, ok, e) ==
  /\ step = "write" /\ kind = "fd" /\ k <= ChunkLen
  /\ IF ok
     THEN /\ file' = file \o Bytes(k) /\ written' = k /\ status' = 0
          /\ failed' = (failed \/ k = 0)
     ELSE /\ written' = 0 /\ status' = StatusOf(e, -1) /\ failed' = TRUE
          /\ UNCHANGED file
  /\ step' = "next"
  /\ UNCHANGED <<kind, owned, start, size, sent, taken, pending, fd, state, buffers>>

\* Mutant: a failed chunk is written again.
NextChunkRetries ==
  /\ step = "next"
  /\ sent' = IF status # 0 THEN sent ELSE sent + written
  /\ LET more == sent' < size /\ (status # 0 \/ written > 0)
     IN /\ step' = IF more THEN "write" ELSE "idle"
        /\ start' = IF more THEN start ELSE start + size
  /\ UNCHANGED <<kind, owned, size, taken, status, written, pending, file, fd,
                 state, buffers, failed>>

\* The rest of the loop: an error, or nothing written, gives the buffer up.
NextChunk ==
  /\ step = "next"
  /\ sent' = sent + written
  /\ LET more == sent' < size /\ status = 0 /\ written > 0
     IN /\ step' = IF more THEN "write" ELSE "idle"
        /\ start' = IF more THEN start ELSE start + size
  /\ UNCHANGED <<kind, owned, size, taken, status, written, pending, file, fd,
                 state, buffers, failed>>

-----------------------------------------------------------------------------
(* Closing, by pslog_output_destroy or by the last logger.                 *)

\* pslog_file_close: fclose passes on what is pending and gives up the rest.
CloseFp(j, ok, e) ==
  /\ step = "idle" /\ kind = "fp" /\ owned
  /\ j <= Len(pending) /\ (ok => j = Len(pending))
  /\ file' = file \o SubSeq(pending, 1, j) /\ pending' = <<>>
  /\ status' = IF ok THEN 0 ELSE StatusOf(e, EIO)
  /\ fd' = "closed" /\ step' = "done"
  /\ UNCHANGED <<kind, owned, start, size, sent, taken, written, state, buffers,
                 failed>>

\* Mutant: the state of a descriptor is freed only if close succeeded.
CloseFdKeepsState(ok, e) ==
  /\ step = "idle" /\ kind = "fd"
  /\ status' = IF ok THEN 0 ELSE StatusOf(e, -1)
  /\ fd' = "closed" /\ state' = (IF ok THEN "freed" ELSE state) /\ step' = "done"
  /\ UNCHANGED <<kind, owned, start, size, sent, taken, written, pending, file,
                 buffers, failed>>

\* pslog_fd_close: the state is freed whether close fails or not.
CloseFd(ok, e) ==
  /\ step = "idle" /\ kind = "fd"
  /\ status' = IF ok THEN 0 ELSE StatusOf(e, -1)
  /\ fd' = "closed" /\ state' = "freed" /\ step' = "done"
  /\ UNCHANGED <<kind, owned, start, size, sent, taken, written, pending, file,
                 buffers, failed>>

\* A stream that is not owned is left to its owner.
LeaveFp ==
  /\ step = "idle" /\ kind = "fp" /\ ~owned
  /\ step' = "done"
  /\ UNCHANGED <<kind, owned, start, size, sent, taken, status, written, pending,
                 file, fd, state, buffers, failed>>

FileNext ==
  \/ FromFp
  \/ \E o \in {"ok", "open", "alloc"} : InitFile(o)
  \/ \E n \in 1..FileCapacity : WriteFile(n)
  \/ \E k \in 0..FileChunk, j \in 0..(FileChunk + FileCapacity * MaxFileBuffers) : Fwrite(k, j)
  \/ \E j \in 0..(FileCapacity * MaxFileBuffers), ok \in BOOLEAN, e \in Errnos : Fflush(j, ok, e)
  \/ \E k \in 0..FileChunk, ok \in BOOLEAN, e \in Errnos : FdWrite(k, ok, e)
  \/ NextChunk
  \/ \E j \in 0..(FileCapacity * MaxFileBuffers), ok \in BOOLEAN, e \in Errnos : CloseFp(j, ok, e)
  \/ \E ok \in BOOLEAN, e \in Errnos : CloseFd(ok, e)
  \/ LeaveFp
  \/ step = "done" /\ UNCHANGED fileVars

FileSpec == FileInit /\ [][FileNext]_fileVars

-----------------------------------------------------------------------------
(* Properties.                                                             *)

(***************************************************************************)
(* The file has the bytes of the log in order and none twice, also when    *)
(* the rest of a line that was given up leaves the stream with a later     *)
(* one: nothing a stream still holds is handed to it again.                *)
(***************************************************************************)
InOrderOnce ==
  LET all == file \o pending
  IN \A i \in 1..(Len(all) - 1) : all[i] < all[i + 1]

(***************************************************************************)
(* A write that returns 0 has put what it reports into the file: a stream  *)
(* is flushed, and its status is not 0 when fwrite or fflush failed without*)
(* setting errno.                                                          *)
(***************************************************************************)
StatusTells ==
  step = "next" /\ status = 0 =>
    /\ pending = <<>>
    /\ kind = "fp" => written = ChunkLen
    /\ \A i \in 1..written : \E p \in DOMAIN file : file[p] = start + sent + i

(***************************************************************************)
(* A buffer is left without all of its bytes in the file only if a call of *)
(* the system failed or took nothing; a short write alone loses nothing. A *)
(* signal counts as such a failure: the rest of the line is given up.      *)
(***************************************************************************)
LossOnlyOnFailure ==
  step = "idle" /\ buffers > 0 /\ ~failed =>
    \A b \in (start - size + 1)..start : \E p \in DOMAIN file : file[p] = b

(***************************************************************************)
(* An owned output is closed in the end, and the pslog_fd_output behind a  *)
(* descriptor is freed, whatever open, the allocation or close did; a      *)
(* descriptor that the caller never got is not left open. A stream that    *)
(* is not owned stays as it is.                                            *)
(***************************************************************************)
NoDescriptorLeft ==
  step = "done" =>
    /\ state # "allocated"
    /\ fd = "open" <=> kind = "fp" /\ ~owned

(***************************************************************************)
(* Streams and descriptors: bytes reach the file in order and at most      *)
(* once, also those a failed fflush left behind; a status of 0 means that  *)
(* they arrived, and none is lost unless a call of the system failed.      *)
(***************************************************************************)
FileInOrder == InOrderOnce /\ StatusTells /\ LossOnlyOnFailure

-----------------------------------------------------------------------------
(* The inductive invariant behind the properties.                          *)

Writing == {"write", "flush", "next"}

FileTypeOK ==
  /\ kind \in {"fp", "fd"}
  /\ step \in Writing \cup {"new", "idle", "done"}
  /\ start \in Nat /\ size \in Nat /\ sent \in Nat /\ buffers \in Nat
  /\ taken \in Nat /\ written \in Nat /\ status \in Int
  /\ file \in Seq(Nat) /\ pending \in Seq(Nat)

FilePositionInv ==
  /\ step = "new" => buffers = 0
  /\ kind = "fd" => pending = <<>> /\ step # "flush"
  /\ step \in Writing => sent < size
  /\ step = "flush" => taken = written
  /\ step \in {"flush", "next"} => written <= ChunkLen

All == file \o pending

\* The last byte that was handed to the stream or the descriptor.
Handed ==
  start + IF step = "write" THEN sent
          ELSE IF step \in {"flush", "next"} THEN sent + written ELSE 0

BoundInv == \A i \in 1..Len(All) : All[i] <= Handed

InFile(b) == \E p \in 1..Len(file) : file[p] = b

ChunkInv ==
  /\ step = "flush" =>
       \A b \in (start + sent + 1)..(start + sent + written) :
         \E p \in 1..Len(All) : All[p] = b
  /\ step \in Writing /\ ~failed => \A b \in (start + 1)..(start + sent) : InFile(b)
  /\ step = "flush" /\ ~failed => taken = ChunkLen
  /\ step = "next" /\ ~failed => status = 0 /\ written > 0

FileInv == FileTypeOK /\ FilePositionInv /\ BoundInv /\ ChunkInv /\ FileInOrder

\* A descriptor has a state as long as it is open, a stream has none.
DescriptorInv ==
  /\ step = "new" => fd = "none" /\ state = "none"
  /\ step \notin {"new", "done"} => fd = "open"
  /\ kind = "fp" => state = "none"
  /\ kind \in {"fp", "fd"}
  /\ NoDescriptorLeft

================================================================================
