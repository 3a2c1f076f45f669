----------------------------- MODULE SFTPReader -----------------------------
(***************************************************************************)
(* SFTPReader.Iterator: a range of a remote file read with up to QueueSize *)
(* requests in flight.  A call of next() is several hops to the actor      *)
(* (seek, beginRead, ..., waitRead); between two hops the server answers,  *)
(* the file shrinks, the task is cancelled.                                *)
(*                                                                         *)
(* The handle may have been used before: its offset starts anywhere.  No   *)
(* other task moves it during the iteration.  The server answers a request *)
(* in full unless the end of the file cuts it short.                       *)
(***************************************************************************)
EXTENDS Integers, Sequences

CONSTANTS
  Offset, Length, BufferSize,   \* of the stream; BufferSize is already clamped
  QueueSize,                    \* Iterator.QueueSize
  MaxSize                       \* bound: the largest file, and offset, considered

ASSUME ReaderAssumption ==
  /\ Offset \in Nat /\ Length \in Nat /\ MaxSize \in Nat
  /\ BufferSize \in Nat \ {0}
  /\ QueueSize \in Nat \ {0}

VARIABLES
  pc,          \* "idle" between two calls of next(); the next hop; how it ended
  cancelled,   \* Task.isCancelled
  count,       \* bytes asked for
  queue,       \* the requests in flight, with the server's answer when it came
  out,         \* the positions of the bytes next() returned
  fileOffset,  \* libssh's offset of the open file
  size         \* size of the file on the server

vars == <<pc, cancelled, count, queue, out, fileOffset, size>>

Unanswered == -1

Lesser(m, n) == IF m < n THEN m ELSE n

Positions(off, n) == [j \in 1 .. n |-> off + j - 1]

Init ==
  /\ pc = "idle" /\ cancelled = FALSE
  /\ count = 0 /\ queue = <<>> /\ out = <<>>
  /\ fileOffset \in 0 .. MaxSize
  /\ size \in 0 .. MaxSize

-----------------------------------------------------------------------------
(* Iterator.next, hop by hop *)

(* Variant: the handle's offset is trusted to be where the stream starts.   *)
CallNextWithoutSeek ==
  /\ pc = "idle"
  /\ pc' = IF cancelled THEN "ended" ELSE "fill"
  /\ UNCHANGED <<cancelled, count, queue, out, fileOffset, size>>

CallNext ==
  /\ pc = "idle"
  /\ pc' = IF cancelled THEN "ended" ELSE IF count = 0 THEN "seek" ELSE "fill"
  /\ UNCHANGED <<cancelled, count, queue, out, fileOffset, size>>

(* file.seek(offset:) *)
Seek ==
  /\ pc = "seek"
  /\ pc' = "fill" /\ fileOffset' = Offset
  /\ UNCHANGED <<cancelled, count, queue, out, size>>

(* Variant: nothing bounds the queue. *)
FillingUnbounded == count < Length

Filling == Len(queue) < QueueSize /\ count < Length

(* sftp_aio_begin_read asks for len bytes at the file's offset and moves it *)
BeginRead ==
  /\ pc = "fill" /\ Filling
  /\ LET len == Lesser(BufferSize, Length - count) IN
       /\ queue' = Append(queue, [off |-> fileOffset, len |-> len, got |-> Unanswered])
       /\ fileOffset' = fileOffset + len
       /\ count' = count + len
  /\ UNCHANGED <<pc, cancelled, out, size>>

Filled ==
  /\ pc = "fill" /\ ~Filling
  /\ pc' = IF queue = <<>> THEN "ended" ELSE "wait"
  /\ UNCHANGED <<cancelled, count, queue, out, fileOffset, size>>

(* Variant: an answer cut short by the end of the file ends the stream at   *)
(* once, before what it brought is returned.                                *)
WaitReadDroppingTail ==
  /\ pc = "wait" /\ Head(queue).got # Unanswered
  /\ queue' = Tail(queue)
  /\ LET r == Head(queue) IN
       /\ fileOffset' = fileOffset + r.got - r.len
       /\ out' = IF r.got < r.len THEN out ELSE out \o Positions(r.off, r.got)
       /\ pc' = IF r.got < r.len THEN "ended" ELSE "idle"
  /\ UNCHANGED <<cancelled, count, size>>

(* Variant: the request sent last is waited for first. *)
WaitReadLast ==
  /\ pc = "wait" /\ queue[Len(queue)].got # Unanswered
  /\ queue' = SubSeq(queue, 1, Len(queue) - 1)
  /\ LET r == queue[Len(queue)] IN
       /\ fileOffset' = fileOffset + r.got - r.len
       /\ out' = out \o Positions(r.off, r.got)
       /\ pc' = IF r.got = 0 THEN "ended" ELSE "idle"
  /\ UNCHANGED <<cancelled, count, size>>

(* Variant: a request that brought nothing is put back. *)
WaitReadOnAndOn ==
  /\ pc = "wait" /\ Head(queue).got # Unanswered
  /\ LET r == Head(queue) IN
       /\ queue' = IF r.got = 0 THEN queue ELSE Tail(queue)
       /\ fileOffset' = IF r.got = 0 THEN fileOffset ELSE fileOffset + r.got - r.len
       /\ out' = out \o Positions(r.off, r.got)
  /\ pc' = "idle"
  /\ UNCHANGED <<cancelled, count, size>>

(* sftp_aio_wait_read gives back the part of the request that was not met *)
WaitRead ==
  /\ pc = "wait" /\ Head(queue).got # Unanswered
  /\ queue' = Tail(queue)
  /\ LET r == Head(queue) IN
       /\ fileOffset' = fileOffset + r.got - r.len
       /\ out' = out \o Positions(r.off, r.got)
       /\ pc' = IF r.got = 0 THEN "ended" ELSE "idle"
  /\ UNCHANGED <<cancelled, count, size>>

(* Any hop may throw; the iterator and its queue are not used again. *)
Fail ==
  /\ pc \in {"seek", "fill", "wait"}
  /\ (pc = "fill") => Filling
  /\ pc' = "failed"
  /\ UNCHANGED <<cancelled, count, queue, out, fileOffset, size>>

-----------------------------------------------------------------------------
(* The server and the task *)

Available(off, len) == IF off < size THEN Lesser(len, size - off) ELSE 0

(* Requests are answered in the order they were sent. *)
Answer ==
  \E k \in 1 .. Len(queue) :
    /\ queue[k].got = Unanswered
    /\ \A j \in 1 .. k - 1 : queue[j].got # Unanswered
    /\ queue' = [queue EXCEPT ![k].got = Available(queue[k].off, queue[k].len)]
    /\ UNCHANGED <<pc, cancelled, count, out, fileOffset, size>>

Truncate ==
  /\ size' \in 0 .. size - 1
  /\ UNCHANGED <<pc, cancelled, count, queue, out, fileOffset>>

(* A cancellation after the last next() changes nothing any more. *)
Cancel ==
  /\ pc \notin {"ended", "failed"}
  /\ ~cancelled /\ cancelled' = TRUE
  /\ UNCHANGED <<pc, count, queue, out, fileOffset, size>>

Iterate == CallNext \/ Seek \/ BeginRead \/ Filled \/ WaitRead

Next == Iterate \/ Fail \/ Answer \/ Truncate \/ Cancel

Spec == Init /\ [][Next]_vars

(* The task that iterates keeps calling next() and its hops get their turn  *)
(* on the actor; the server answers what it was asked.  No hop has to fail. *)
FairSpec == Spec /\ WF_vars(Iterate) /\ WF_vars(Answer)

-----------------------------------------------------------------------------

Request == [off : Nat, len : Nat \ {0}, got : Nat \cup {Unanswered}]

(* No more than QueueSize requests are in flight, no more than the range is  *)
(* asked for, and the offset given back is never negative.                   *)
TypeOK ==
  /\ pc \in {"idle", "seek", "fill", "wait", "ended", "failed"}
  /\ cancelled \in BOOLEAN
  /\ count \in 0 .. Length
  /\ queue \in Seq(Request) /\ Len(queue) <= QueueSize
  /\ pc = "wait" => queue # <<>>
  /\ out \in Seq(Nat)
  /\ fileOffset \in Nat /\ size \in Nat

(* The bytes arrive in order, each once, from the start of the range, with  *)
(* many requests in flight and the offset given back by short answers.      *)
InOrder == \A j \in 1 .. Len(out) : out[j] = Offset + j - 1

(* A stream that ends without an error or a cancellation has returned all   *)
(* the file still holds of the range.                                       *)
Complete ==
  pc = "ended" /\ ~cancelled => Len(out) >= Length \/ Offset + Len(out) >= size

(* An iteration that goes on comes to an end. *)
Terminates == <>(pc \in {"ended", "failed"})

StreamState ==
  CASE pc = "failed" \/ (pc = "ended" /\ cancelled) -> "stopped"
    [] pc = "ended" /\ ~cancelled -> "finished"
    [] OTHER -> "open"

Stream == INSTANCE ByteStream WITH state <- StreamState

(* The pipelined reader delivers what an ordinary reader would. *)
ReadsLikeAStream == Stream!Spec
=============================================================================
