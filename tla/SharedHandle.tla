---------------------------- MODULE SharedHandle ----------------------------
(***************************************************************************)
(* Several tasks on the open handles of one remote file, some reading a    *)
(* range of it with SFTPFile.read, some writing data with SFTPFile.write.  *)
(* Every request is a hop to the actor.  A handle has one offset: tasks    *)
(* that share a handle move it for each other.  A read takes any answer    *)
(* the protocol allows: shorter than asked for, on a file that another     *)
(* program makes shorter or longer meanwhile.                              *)
(*                                                                         *)
(* The byte j of what task t writes is the pair <<t, j>>.                  *)
(***************************************************************************)
EXTENDS Naturals, Sequences, FiniteSets

CONSTANTS
  Readers, Writers,
  Handles,
  Assignments,      \* which task may use which handle
  Offset, Length,   \* the range the readers ask for
  DataLength,       \* what each writer has to write
  BufferSize,       \* already clamped to the limits
  MaxSize,          \* bound: the size of the file at first, or made by another program
  MaxResizes        \* bound: how often that happens

Tasks == Readers \cup Writers

ASSUME HandleAssumption ==
  /\ Readers \cap Writers = {}
  /\ Assignments \subseteq [Tasks -> Handles]
  /\ Offset \in Nat /\ Length \in Nat /\ DataLength \in Nat
  /\ MaxSize \in Nat /\ MaxResizes \in Nat
  /\ BufferSize \in Nat \ {0}

VARIABLES
  handle,      \* handle[t]: the handle of t
  fileOffset,  \* fileOffset[h]: libssh's offset of h
  file,        \* the bytes of the remote file
  pc,          \* pc[t]: "seek", "read", "write", "returned", "threw"
  out,         \* out[t]: the positions of the bytes a reader got
  written,     \* written[t]: the bytes a writer has written
  resizes      \* changes of the file's size by another program

vars == <<handle, fileOffset, file, pc, out, written, resizes>>

Old == <<"old", 0>>
Gap == <<"gap", 0>>

Lesser(m, n) == IF m < n THEN m ELSE n

Init ==
  /\ handle \in Assignments
  /\ fileOffset = [h \in Handles |-> 0]
  /\ \E n \in 0 .. MaxSize : file = [j \in 1 .. n |-> Old]
  /\ pc = [t \in Tasks |-> IF t \in Readers THEN "seek" ELSE "write"]
  /\ out = [t \in Readers |-> <<>>] /\ written = [t \in Writers |-> 0]
  /\ resizes = 0

Alone(t) == \A u \in Tasks \ {t} : handle[u] # handle[t]

-----------------------------------------------------------------------------
(* SFTPFile.read: seek once, then request after request *)

Seek(t) ==
  /\ pc[t] = "seek"
  /\ fileOffset' = [fileOffset EXCEPT ![handle[t]] = Offset]
  /\ pc' = [pc EXCEPT ![t] = "read"]
  /\ UNCHANGED <<handle, file, out, written, resizes>>

(* What sftp_read may return: at least a byte while the file has one there. *)
Answers(off, len) ==
  IF off < Len(file) /\ len > 0 THEN 1 .. Lesser(len, Len(file) - off) ELSE {0}

(* Variant: a short answer is taken for the end of the file. *)
ReadUntilShort(t) ==
  /\ pc[t] = "read" /\ Len(out[t]) < Length
  /\ LET off  == fileOffset[handle[t]]
         size == Lesser(BufferSize, Length - Len(out[t])) IN
     \E n \in Answers(off, size) :
       /\ out' = [out EXCEPT ![t] = @ \o [j \in 1 .. n |-> off + j - 1]]
       /\ fileOffset' = [fileOffset EXCEPT ![handle[t]] = @ + n]
       /\ pc' = [pc EXCEPT ![t] = IF n < size THEN "returned" ELSE "read"]
  /\ UNCHANGED <<handle, file, written, resizes>>

(* Variant: the end of the file does not end the loop. *)
ReadOnAndOn(t) ==
  /\ pc[t] = "read" /\ Len(out[t]) < Length
  /\ LET off == fileOffset[handle[t]] IN
     \E n \in Answers(off, Lesser(BufferSize, Length - Len(out[t]))) :
       /\ out' = [out EXCEPT ![t] = @ \o [j \in 1 .. n |-> off + j - 1]]
       /\ fileOffset' = [fileOffset EXCEPT ![handle[t]] = @ + n]
  /\ UNCHANGED <<handle, file, pc, written, resizes>>

Read(t) ==
  /\ pc[t] = "read" /\ Len(out[t]) < Length
  /\ LET off == fileOffset[handle[t]] IN
     \E n \in Answers(off, Lesser(BufferSize, Length - Len(out[t]))) :
       /\ out' = [out EXCEPT ![t] = @ \o [j \in 1 .. n |-> off + j - 1]]
       /\ fileOffset' = [fileOffset EXCEPT ![handle[t]] = @ + n]
       /\ pc' = [pc EXCEPT ![t] = IF n = 0 THEN "returned" ELSE "read"]
  /\ UNCHANGED <<handle, file, written, resizes>>

-----------------------------------------------------------------------------
(* SFTPFile.write: chunk after chunk from where the handle is *)

Chunk(t) == Lesser(BufferSize, DataLength - written[t])

(* n bytes of a writer stored at an offset; what lies before it is filled.  *)
Stored(t, off, n) ==
  [j \in 1 .. IF off + n > Len(file) THEN off + n ELSE Len(file) |->
     IF j \in off + 1 .. off + n THEN <<t, written[t] + j - off>>
     ELSE IF j <= Len(file) THEN file[j] ELSE Gap]

(* Variant: a chunk that was written in part is passed over. *)
WriteGoingOn(t) ==
  /\ pc[t] = "write" /\ written[t] < DataLength
  /\ \E n \in 0 .. Chunk(t) :
       /\ file' = IF n = 0 THEN file ELSE Stored(t, fileOffset[handle[t]], n)
       /\ fileOffset' = [fileOffset EXCEPT ![handle[t]] = @ + n]
       /\ written' = [written EXCEPT ![t] = @ + Chunk(t)]
  /\ UNCHANGED <<handle, pc, out, resizes>>

(* sftp_write stores the chunk, or less of it: then write throws *)
Write(t) ==
  /\ pc[t] = "write" /\ written[t] < DataLength
  /\ \E n \in 0 .. Chunk(t) :
       /\ file' = IF n = 0 THEN file ELSE Stored(t, fileOffset[handle[t]], n)
       /\ fileOffset' = [fileOffset EXCEPT ![handle[t]] = @ + n]
       /\ written' = [written EXCEPT ![t] = @ + n]
       /\ pc' = [pc EXCEPT ![t] = IF n = Chunk(t) THEN "write" ELSE "threw"]
  /\ UNCHANGED <<handle, out, resizes>>

Return(t) ==
  /\ \/ pc[t] = "read" /\ Len(out[t]) >= Length
     \/ pc[t] = "write" /\ written[t] = DataLength
  /\ pc' = [pc EXCEPT ![t] = "returned"]
  /\ UNCHANGED <<handle, fileOffset, file, out, written, resizes>>

Throw(t) ==
  /\ \/ pc[t] = "seek"
     \/ pc[t] = "read" /\ Len(out[t]) < Length
     \/ pc[t] = "write" /\ written[t] < DataLength
  /\ pc' = [pc EXCEPT ![t] = "threw"]
  /\ UNCHANGED <<handle, fileOffset, file, out, written, resizes>>

(* Another program cuts the file, or lets it grow. *)
Resize ==
  /\ resizes < MaxResizes /\ resizes' = resizes + 1
  /\ \E n \in 0 .. MaxSize :
       file' = [j \in 1 .. n |-> IF j <= Len(file) THEN file[j] ELSE Gap]
  /\ UNCHANGED <<handle, fileOffset, pc, out, written>>

Hop(t) == (t \in Readers /\ (Seek(t) \/ Read(t))) \/ (t \in Writers /\ Write(t)) \/ Return(t)

Next == Resize \/ \E t \in Tasks : Hop(t) \/ Throw(t)

(* The requests of each task get their turn on the actor. *)
Spec == Init /\ [][Next]_vars /\ \A t \in Tasks : WF_vars(Hop(t))

-----------------------------------------------------------------------------

Places(t, j) == {p \in 1 .. Len(file) : file[p] = <<t, j>>}

Comrades == \A t \in Writers : \A u \in Tasks \ {t} : (handle[t] = handle[u]) <=> (u \in Writers)

(* Writers that share one handle never overwrite each other: what each has   *)
(* written to a file that nobody else cuts is there once, in its order,      *)
(* every chunk in one piece.                                                 *)
WritersInterleave ==
  Comrades /\ resizes = 0 =>
    \A t \in Writers, j \in 1 .. DataLength :
      IF j <= written[t]
      THEN /\ Cardinality(Places(t, j)) = 1
           /\ \A p \in Places(t, j), q \in Places(t, j + 1) :
                IF j % BufferSize = 0 THEN p < q ELSE q = p + 1
      ELSE Places(t, j) = {}

ReadBytes(t) == IF Alone(t) THEN out[t] ELSE <<>>

ReadState(t) ==
  CASE pc[t] = "returned" /\ Alone(t) -> "finished"
    [] pc[t] = "threw" /\ Alone(t) -> "stopped"
    [] OTHER -> "open"

Reading(t) == INSTANCE ByteStream WITH
  out <- ReadBytes(t), size <- Len(file), state <- ReadState(t)

(* A reader alone on its handle reads the range in order and whole, whatever *)
(* other readers and writers of the file do on theirs: for each of them the  *)
(* file is a stream of bytes.                                                *)
ReadersDoNotDisturb ==
  /\ \A t \in Readers : Reading(t)!Init
  /\ [][\A t \in Readers :
         Reading(t)!Next \/ UNCHANGED <<ReadBytes(t), Len(file), ReadState(t)>>]_vars

(* Every task comes to its end.                                              *)
Terminates == <>(\A t \in Tasks : pc[t] \in {"returned", "threw"})
=============================================================================
