---------------------------- MODULE SFTPDownload ----------------------------
(***************************************************************************)
(* SFTPClient.download: the remote file is opened, the local file created, *)
(* what the pipelined reader returns written to it, one call of next() at  *)
(* a time.  The whole file is asked for: Offset is zero, and Length more   *)
(* than any file has.                                                      *)
(***************************************************************************)
EXTENDS SFTPReader

VARIABLES
  step,      \* "open", "create", "iterate", "returned", "threw"
  local,     \* the local file: what was there before, or the positions written
  progress   \* the count last given to the progress callback

downloadVars == <<vars, step, local, progress>>

ASSUME DownloadAssumption == Offset = 0 /\ Length > MaxSize

Before == [bytes |-> <<>>, old |-> TRUE]
Written(q) == [bytes |-> q, old |-> FALSE]

DownloadInit == Init /\ fileOffset = 0 /\ step = "open" /\ local = Before /\ progress = 0

(* withSftpFile: opened, or refused *)
OpenRemote ==
  /\ step = "open"
  /\ step' \in {"create", "threw"}
  /\ UNCHANGED <<vars, local, progress>>

(* createFile and FileHandle(forWritingTo:): either may fail *)
CreateLocal ==
  /\ step = "create"
  /\ \/ step' = "iterate" /\ local' = Written(<<>>)
     \/ step' = "threw" /\ local' \in {local, Written(<<>>)}
  /\ UNCHANGED <<vars, progress>>

Unwritten == Len(out) > Len(local.bytes)

(* fp.write(contentsOf:), which takes the disk any number of parts, then the *)
(* count and the progress                                                    *)
WriteLocal ==
  /\ step = "iterate" /\ pc = "idle" /\ Unwritten
  /\ \E k \in Len(local.bytes) + 1 .. Len(out) :
       /\ local' = Written(SubSeq(out, 1, k))
       /\ progress' = IF k = Len(out) THEN k ELSE progress
  /\ UNCHANGED <<vars, step>>

(* The disk is full; some of the buffer may be there. *)
WriteLocalFails ==
  /\ step = "iterate" /\ pc = "idle" /\ Unwritten
  /\ step' = "threw"
  /\ UNCHANGED <<vars, local, progress>>

(* Variant: the next buffer is asked for while the last is being written. *)
NextBufferUnwritten ==
  /\ step = "iterate"
  /\ Iterate \/ Fail
  /\ UNCHANGED <<step, local, progress>>

(* The loop asks for the next buffer when it has written the last. *)
NextBuffer ==
  /\ step = "iterate"
  /\ pc = "idle" => ~Unwritten
  /\ Iterate \/ Fail
  /\ UNCHANGED <<step, local, progress>>

(* Variant: the end of the iteration is the end of the file or an error. *)
LeaveLoopUnended ==
  /\ step = "iterate" /\ pc \in {"ended", "failed"}
  /\ step' = "returned"
  /\ UNCHANGED <<vars, local, progress>>

(* next() returned nil or threw *)
LeaveLoop ==
  /\ step = "iterate"
  /\ \/ pc = "ended" /\ step' = "returned"
     \/ pc = "failed" /\ step' = "threw"
  /\ UNCHANGED <<vars, local, progress>>

Others == (Answer \/ Truncate \/ Cancel) /\ UNCHANGED <<step, local, progress>>

Work ==
  \/ OpenRemote \/ CreateLocal \/ WriteLocal \/ LeaveLoop
  \/ NextBuffer /\ ~(pc' = "failed")

DownloadNext ==
  \/ OpenRemote \/ CreateLocal \/ WriteLocal \/ WriteLocalFails \/ NextBuffer \/ LeaveLoop
  \/ step \notin {"returned", "threw"} /\ Others

(* The downloading task goes on and the server answers; nothing has to fail. *)
DownloadSpec ==
  /\ DownloadInit /\ [][DownloadNext]_downloadVars
  /\ WF_downloadVars(Work) /\ WF_downloadVars(Answer /\ UNCHANGED <<step, local, progress>>)

-----------------------------------------------------------------------------

(* A download nobody cancelled returns only with all that the file held to   *)
(* the end, in order; nothing was left in the reader's hands.                *)
DownloadIsComplete ==
  step = "returned" /\ ~cancelled =>
    /\ local = Written(Positions(0, Len(local.bytes)))
    /\ Len(local.bytes) >= size
    /\ progress = Len(local.bytes)

(* Whatever fails, what has been written is a beginning of the remote file,  *)
(* and the progress never ahead of it.                                       *)
LocalIsAPrefix ==
  /\ local.bytes = Positions(0, Len(local.bytes))
  /\ progress <= Len(local.bytes)

DownloadState ==
  CASE step = "returned" /\ ~cancelled -> "finished"
    [] step = "threw" \/ (step = "returned" /\ cancelled) -> "stopped"
    [] OTHER -> "open"

Local == INSTANCE ByteStream WITH state <- DownloadState, out <- local.bytes

(* The local file grows as the abstract stream does.                         *)
DownloadsLikeAStream == Local!Spec

(* A download ends, with the file or with an error.                          *)
DownloadTerminates == <>(step \in {"returned", "threw"})
=============================================================================
