----------------------------- MODULE SFTPWriter -----------------------------
(***************************************************************************)
(* SFTPClient.upload and the SFTPWriter it drives: a local file sent in    *)
(* chunks with up to QueueSize write requests in flight.  A refused write  *)
(* is noticed only when its request is waited for; by then later chunks    *)
(* are already on their way.  Each hop to the actor is an action.          *)
(*                                                                         *)
(* A byte of the local file is named by its position there.                *)
(***************************************************************************)
EXTENDS Naturals, Sequences

CONSTANTS
  Total,            \* length of the local file
  BufferSize,       \* what the caller asked for
  MaxWriteLength,   \* the server's limit
  QueueSize         \* SFTPWriter.QueueSize

ASSUME WriterAssumption ==
  /\ Total \in Nat
  /\ BufferSize \in Nat \ {0} /\ MaxWriteLength \in Nat \ {0}
  /\ QueueSize \in Nat \ {0}

VARIABLES
  pc,          \* "openRemote", "openLocal", "read", "write", "flush", "returned", "threw"
  count,       \* bytes of the local file handed to the writer
  queue,       \* the write requests in flight, with the server's verdict
  fileOffset,  \* libssh's offset of the remote file
  remote,      \* remote[p]: the local byte now at position p, Hole, or what was there Before
  refused      \* the server has refused a write

vars == <<pc, count, queue, fileOffset, remote, refused>>

Hole == Total
Before == Total + 1
Verdict == {"none", "ok", "error"}
Request == [off : Nat, src : Nat, len : Nat, verdict : Verdict]

Lesser(m, n) == IF m < n THEN m ELSE n

(* SFTPLimits.writeLength(for:) *)
WriteLengthUnclamped == BufferSize
WriteLength == Lesser(BufferSize, MaxWriteLength)

Init ==
  /\ pc = "openRemote" /\ count = 0 /\ queue = <<>> /\ fileOffset = 0
  /\ remote = [p \in 0 .. Total |-> Before]
  /\ refused = FALSE

-----------------------------------------------------------------------------
(* Waiting for the oldest request: aio.flush() *)

FlushOldest ==
  /\ queue # <<>>
  /\ queue' = Tail(queue)
  /\ \/ Head(queue).verdict = "ok" /\ UNCHANGED pc
     \/ Head(queue).verdict = "error" /\ pc' = "threw"
  /\ UNCHANGED <<count, fileOffset>>

-----------------------------------------------------------------------------
(* The files are opened, the remote one first.                              *)

(* AccessType.raw: a file opened to be written is created or truncated *)
OpenRemote ==
  /\ pc = "openRemote"
  /\ pc' = "openLocal" /\ remote' = [p \in 0 .. Total |-> Hole]
  /\ UNCHANGED <<count, queue, fileOffset, refused>>

OpenLocal ==
  /\ pc = "openLocal"
  /\ pc' = "read"
  /\ UNCHANGED <<count, queue, fileOffset, remote, refused>>

-----------------------------------------------------------------------------
(* upload: read a chunk, writer.write(data:), at the end writer.flush() *)

ReadLocal ==
  /\ pc = "read"
  /\ pc' = IF count < Total THEN "write" ELSE "flush"
  /\ UNCHANGED <<count, queue, fileOffset, remote, refused>>

MakeRoom ==
  /\ pc = "write" /\ Len(queue) >= QueueSize
  /\ FlushOldest
  /\ UNCHANGED <<remote, refused>>

(* Variant: no room is made. *)
BeginWriteUnbounded ==
  /\ pc = "write"
  /\ LET len == Lesser(WriteLength, Total - count) IN
       /\ queue' = Append(queue, [off |-> fileOffset, src |-> count, len |-> len, verdict |-> "none"])
       /\ fileOffset' = fileOffset + len
       /\ count' = count + len
       /\ pc' = "read"
  /\ UNCHANGED <<remote, refused>>

(* sftp_aio_begin_write sends at most MaxWriteLength bytes of the chunk *)
BeginWrite ==
  /\ pc = "write" /\ Len(queue) < QueueSize
  /\ LET len  == Lesser(WriteLength, Total - count)
         sent == Lesser(len, MaxWriteLength) IN
       /\ queue' = Append(queue, [off |-> fileOffset, src |-> count, len |-> sent, verdict |-> "none"])
       /\ fileOffset' = fileOffset + sent
       /\ count' = count + len
       /\ pc' = "read"
  /\ UNCHANGED <<remote, refused>>

(* Variant: one request is waited for, not all. *)
FlushOnce ==
  /\ pc = "flush"
  /\ \/ FlushOldest
     \/ /\ Len(queue) <= 1 /\ pc' = "returned"
        /\ UNCHANGED <<count, queue, fileOffset>>
  /\ UNCHANGED <<remote, refused>>

(* Variant: an empty queue is waited on. *)
FlushForever ==
  /\ pc = "flush"
  /\ FlushOldest
  /\ UNCHANGED <<remote, refused>>

Flush ==
  /\ pc = "flush"
  /\ \/ FlushOldest
     \/ /\ queue = <<>> /\ pc' = "returned"
        /\ UNCHANGED <<count, queue, fileOffset>>
  /\ UNCHANGED <<remote, refused>>

(* Opening and reading the files, beginning a write and waiting for one may *)
(* throw.  The server may still carry out what was sent; a remote file that *)
(* was opened is no longer what it was, sent or not.                        *)
Throw ==
  /\ pc \in {"openRemote", "openLocal", "read", "write", "flush"}
  /\ pc = "flush" => queue # <<>>
  /\ pc' = "threw"
  /\ UNCHANGED <<count, queue, fileOffset, remote, refused>>

-----------------------------------------------------------------------------
(* The server carries out or refuses the requests in the order sent. *)

Store(r) == [p \in 0 .. Total |-> IF p \in r.off .. r.off + r.len - 1
                                  THEN r.src + (p - r.off) ELSE remote[p]]

Answer ==
  \E k \in 1 .. Len(queue) :
    /\ queue[k].verdict = "none"
    /\ \A j \in 1 .. k - 1 : queue[j].verdict # "none"
    /\ \/ /\ queue' = [queue EXCEPT ![k].verdict = "ok"]
          /\ remote' = Store(queue[k])
          /\ UNCHANGED refused
       \/ /\ queue' = [queue EXCEPT ![k].verdict = "error"]
          /\ refused' = TRUE
          /\ UNCHANGED remote
    /\ UNCHANGED <<pc, count, fileOffset>>

Upload == OpenRemote \/ OpenLocal \/ ReadLocal \/ MakeRoom \/ BeginWrite \/ Flush

Next == Upload \/ Throw \/ Answer

(* The uploading task gets its turns on the actor and the server answers;  *)
(* nothing has to throw.                                                   *)
Spec == Init /\ [][Next]_vars /\ WF_vars(Upload) /\ WF_vars(Answer)

-----------------------------------------------------------------------------

(* No more than QueueSize writes are in flight and none is sent past the     *)
(* length of the local file.                                                 *)
TypeOK ==
  /\ pc \in {"openRemote", "openLocal", "read", "write", "flush", "returned", "threw"}
  /\ count \in 0 .. Total
  /\ queue \in Seq(Request) /\ Len(queue) <= QueueSize
  /\ fileOffset \in 0 .. Total
  /\ remote \in [0 .. Total -> 0 .. Before]
  /\ refused \in BOOLEAN

(* upload() returns only when the remote file is the local file.           *)
UploadIsComplete == pc = "returned" => \A p \in 0 .. Total - 1 : remote[p] = p

(* Once opened and until the server refuses a write the remote file is, at  *)
(* every moment, a beginning of the local one, whatever is in flight.       *)
RemoteIsAPrefix ==
  ~refused /\ remote[0] # Before =>
              \E k \in 0 .. Total : \A p \in 0 .. Total :
                remote[p] = IF p < k THEN p ELSE Hole

(* What upload() has counted as progress is ahead of what the server has   *)
(* decided on by no more than a queue of requests.                         *)
ProgressIsNearlyTrue ==
  ~refused => \A p \in 0 .. Total - 1 :
                p + QueueSize * WriteLength < count => remote[p] = p

(* upload() ends, with the whole file sent or with an error.               *)
Terminates == <>(pc \in {"returned", "threw"})
=============================================================================
