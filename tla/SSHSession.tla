----------------------------- MODULE SSHSession -----------------------------
(***************************************************************************)
(* The actor SSHSession (LibSSH.swift): the tables that map handle ids to  *)
(* libssh objects, and the objects themselves.  A method without an await  *)
(* runs to its end on the actor, so each method is one action; tasks       *)
(* interleave between methods.                                             *)
(*                                                                         *)
(* An id is minted once (a UUID), so the library object made for an id is  *)
(* named by that id.  The five dictionaries and the aios nested in a       *)
(* tracked file are one set, tracked: the kind of an id says which         *)
(* dictionary holds it, fileId[a] which file's aios.                       *)
(*                                                                         *)
(* This module restricts nobody: any task that holds a handle may call any *)
(* method at any time.  SSHClient.tla adds what the client does with it.   *)
(***************************************************************************)
CONSTANTS
  SSHKeyID, SSHChannelID, SFTPClientID, SFTPFileID, SFTPDirectoryID, SFTPAioID,
  sftpId,      \* the SFTP session a file id or a directory handle carries
  fileId       \* the file id an aio id carries

ASSUME IdAssumption ==
  /\ sftpId \in [SFTPFileID \cup SFTPDirectoryID -> SFTPClientID]
  /\ fileId \in [SFTPAioID -> SFTPFileID]
  /\ SSHKeyID \cap (SSHChannelID \cup SFTPClientID \cup SFTPFileID
                       \cup SFTPDirectoryID \cup SFTPAioID) = {}
  /\ SSHChannelID \cap (SFTPClientID \cup SFTPFileID \cup SFTPDirectoryID \cup SFTPAioID) = {}
  /\ SFTPClientID \cap (SFTPFileID \cup SFTPDirectoryID \cup SFTPAioID) = {}
  /\ SFTPFileID \cap (SFTPDirectoryID \cup SFTPAioID) = {}
  /\ SFTPDirectoryID \cap SFTPAioID = {}

ID == SSHKeyID \cup SSHChannelID \cup SFTPClientID \cup SFTPFileID
         \cup SFTPDirectoryID \cup SFTPAioID

VARIABLES
  session,     \* the pointer to the ssh_session is not nil
  connected,   \* ssh_is_connected
  tracked,     \* the ids in the actor's tables
  issued,      \* the ids that have been minted
  handed,      \* the ids whose handle was returned to a caller
  heap,        \* ids whose library object (for an aio: its slot) is allocated
  links,       \* ids whose ssh_channel is allocated: a channel's, an SFTP session's
  reached,     \* the ids through which a call was given a released object, or
               \* one that rests on a released object
  faults       \* the other rules of the library the calls made so far broke

conn  == <<session, connected>>
ids   == <<tracked, issued, handed>>
store == <<heap, links>>
broken == <<reached, faults>>
vars  == <<session, connected, tracked, issued, handed, heap, links, reached, faults>>

(* "outstanding": a file was closed before a request on it was waited for.  *)
(* "unset": sftp_aio_free got a slot that no sftp_aio_begin_* ever wrote.   *)
Fault == {"outstanding", "unset"}

(* A call through the handle of id, sound only if ok. *)
Requires(id, ok) ==
  /\ reached' = reached \cup (IF ok THEN {} ELSE {id})
  /\ UNCHANGED faults

(* What a call through a handle dereferences. *)
SftpAlive(s) == s \in heap /\ s \in links
FileAlive(f) == f \in heap /\ SftpAlive(sftpId[f])
AioAlive(a)  == a \in heap /\ FileAlive(fileId[a])

Aios(f) == {a \in SFTPAioID : a \in tracked /\ fileId[a] = f}

(* Variants of Allocate that a run must catch: an id that was used before, *)
(* an id that is never recorded as used.                                   *)
AllocateReused(id) ==
  /\ issued' = issued \cup {id}
  /\ heap' = heap \cup {id}

AllocateUnminted(id) ==
  /\ id \notin issued
  /\ issued' = issued
  /\ heap' = heap \cup {id}

(* An id is minted and its object allocated, nothing more. *)
Allocate(id) ==
  /\ id \notin issued
  /\ issued' = issued \cup {id}
  /\ heap' = heap \cup {id}

Track(id)  == tracked' = tracked \cup {id}
Hand(id)   == handed' = handed \cup {id}

(* The objects S leave the tables and the library releases them. *)
Release(S) ==
  /\ tracked' = tracked \ S
  /\ heap' = heap \ S
  /\ UNCHANGED <<issued, handed>>

Init ==
  /\ session = TRUE
  /\ connected = FALSE
  /\ tracked = {} /\ issued = {} /\ handed = {}
  /\ heap = {} /\ links = {}
  /\ reached = {} /\ faults = {}

-----------------------------------------------------------------------------
(* The session *)

Connect ==
  /\ session /\ ~connected
  /\ connected' = TRUE
  /\ UNCHANGED <<session, ids, store, broken>>

ConnectionLost ==
  /\ connected
  /\ connected' = FALSE
  /\ UNCHANGED <<session, ids, store, broken>>

(* ssh_disconnect frees every channel of the session, an SFTP session's too *)
Disconnect ==
  /\ connected' = FALSE
  /\ links' = {}
  /\ UNCHANGED <<session, ids, heap, broken>>

Free ==
  /\ session' = FALSE
  /\ connected' = FALSE
  /\ links' = {}
  /\ UNCHANGED <<ids, heap, broken>>

-----------------------------------------------------------------------------
(* Keys *)

ImportPrivateKey(k) ==
  /\ Allocate(k) /\ Track(k) /\ Hand(k)
  /\ UNCHANGED <<conn, links, broken>>

AuthenticateWithPublicKey(k) ==
  /\ k \in tracked
  /\ Requires(k, session /\ k \in heap)
  /\ UNCHANGED <<conn, ids, store>>

FreeKey(k) ==
  /\ k \in tracked
  /\ Requires(k, k \in heap)
  /\ Release({k})
  /\ UNCHANGED <<conn, links>>

-----------------------------------------------------------------------------
(* Channels *)

(* ssh_channel_new, then ssh_channel_open_session: a refused open throws    *)
(* before the table knows the channel, which stays linked to the session.   *)
OpenChannelSession(c) ==
  /\ session
  /\ c \notin issued
  /\ issued' = issued \cup {c}
  /\ links' = links \cup {c}
  /\ \/ connected /\ Track(c) /\ Hand(c)
     \/ UNCHANGED <<tracked, handed>>
  /\ UNCHANGED <<conn, heap, broken>>

(* execute, exitState, readChannel *)
UseChannel(c) ==
  /\ c \in tracked \cap handed
  /\ Requires(c, c \in links)
  /\ UNCHANGED <<conn, ids, store>>

CloseChannel(c) ==
  /\ c \in tracked \cap handed
  /\ Requires(c, c \in links)
  /\ Release({c})
  /\ links' = links \ {c}
  /\ UNCHANGED conn

-----------------------------------------------------------------------------
(* SFTP sessions *)

(* sftp_new gives an object; when sftp_init fails it is in no table, when   *)
(* the limits cannot be read it is in a table and nobody has its id.        *)
CreateSftp(s) ==
  /\ session /\ connected
  /\ Allocate(s)
  /\ links' = links \cup {s}
  /\ \/ UNCHANGED <<tracked, handed>>
     \/ Track(s) /\ UNCHANGED handed
     \/ Track(s) /\ Hand(s)
  /\ UNCHANGED <<conn, broken>>

(* mkdir, rmdir, stat, lstat, setStat, readlink, symlink, limits, rename, unlink *)
UseSftp(s) ==
  /\ s \in tracked \cap handed
  /\ Requires(s, SftpAlive(s))
  /\ UNCHANGED <<conn, ids, store>>

(* Variant: the entry is looked up, not removed. *)
FreeSftpKeepingEntry(s) ==
  /\ s \in tracked \cap handed
  /\ Requires(s, SftpAlive(s))
  /\ heap' = heap \ {s}
  /\ links' = links \ {s}
  /\ UNCHANGED <<conn, ids>>

FreeSftp(s) ==
  /\ s \in tracked \cap handed
  /\ Requires(s, SftpAlive(s))
  /\ Release({s})
  /\ links' = links \ {s}
  /\ UNCHANGED conn

-----------------------------------------------------------------------------
(* Files and directories *)

OpenFile(f) ==
  /\ sftpId[f] \in tracked \cap handed
  /\ connected
  /\ Allocate(f) /\ Track(f) /\ Hand(f)
  /\ Requires(sftpId[f], SftpAlive(sftpId[f]))
  /\ UNCHANGED <<conn, links>>

(* statFile, seekFile, readFile, writeFile *)
UseFile(f) ==
  /\ f \in tracked \cap handed
  /\ sftpId[f] \in tracked
  /\ Requires(f, FileAlive(f))
  /\ UNCHANGED <<conn, ids, store>>

(* Variant: the slots nested in the entry are dropped with it, not freed. *)
CloseFileForgettingSlots(f) ==
  /\ f \in tracked \cap handed
  /\ Requires(f, FileAlive(f))
  /\ tracked' = tracked \ ({f} \cup Aios(f))
  /\ heap' = heap \ {f}
  /\ UNCHANGED <<conn, issued, handed, links>>

(* sftp_close, then sftp_aio_free on every slot still nested in the entry *)
CloseFile(f) ==
  /\ f \in tracked \cap handed
  /\ reached' = reached \cup (IF FileAlive(f) THEN {} ELSE {f})
  /\ faults' = faults
       \cup (IF Aios(f) \cap handed = {} THEN {} ELSE {"outstanding"})
       \cup (IF Aios(f) \subseteq handed THEN {} ELSE {"unset"})
  /\ Release({f} \cup Aios(f))
  /\ UNCHANGED <<conn, links>>

OpenDirectory(d) ==
  /\ sftpId[d] \in tracked \cap handed
  /\ connected
  /\ Allocate(d) /\ Track(d) /\ Hand(d)
  /\ Requires(sftpId[d], SftpAlive(sftpId[d]))
  /\ UNCHANGED <<conn, links>>

ReadDirectory(d) ==
  /\ d \in tracked \cap handed
  /\ sftpId[d] \in tracked
  /\ Requires(d, FileAlive(d))
  /\ UNCHANGED <<conn, ids, store>>

(* Variant: the entry is removed, sftp_closedir is not called. *)
CloseDirectoryLeaking(d) ==
  /\ d \in tracked \cap handed
  /\ tracked' = tracked \ {d}
  /\ UNCHANGED <<conn, issued, handed, store, broken>>

CloseDirectory(d) ==
  /\ d \in tracked \cap handed
  /\ Requires(d, FileAlive(d))
  /\ Release({d})
  /\ UNCHANGED <<conn, links>>

-----------------------------------------------------------------------------
(* Asynchronous requests *)

(* The slot is allocated and tracked before the library call.  When the     *)
(* call fails the slot stays, unwritten, and the caller gets no context.    *)
Begin(a) ==
  /\ Allocate(a) /\ Track(a)
  /\ Requires(fileId[a], FileAlive(fileId[a]))
  /\ \/ connected /\ Hand(a)
     \/ UNCHANGED handed
  /\ UNCHANGED <<conn, links>>

BeginRead(a) ==
  /\ fileId[a] \in tracked \cap handed
  /\ Begin(a)

BeginWrite(a) ==
  /\ fileId[a] \in tracked \cap handed
  /\ sftpId[fileId[a]] \in tracked
  /\ Begin(a)

(* Variant: the slot is looked up, not removed, and then freed. *)
WaitAioKeepingEntry(a) ==
  /\ a \in tracked \cap handed
  /\ Requires(a, AioAlive(a))
  /\ heap' = heap \ {a}
  /\ UNCHANGED <<conn, ids, links>>

(* waitRead, waitWrite: the slot leaves the table first (withFreeingAio) and *)
(* is freed whatever the answer                                              *)
WaitAio(a) ==
  /\ a \in tracked \cap handed
  /\ Requires(a, AioAlive(a))
  /\ Release({a})
  /\ UNCHANGED <<conn, links>>

-----------------------------------------------------------------------------

Method ==
  \/ Connect \/ ConnectionLost \/ Disconnect \/ Free
  \/ \E k \in SSHKeyID :
       ImportPrivateKey(k) \/ AuthenticateWithPublicKey(k) \/ FreeKey(k)
  \/ \E c \in SSHChannelID : OpenChannelSession(c) \/ UseChannel(c) \/ CloseChannel(c)
  \/ \E s \in SFTPClientID : CreateSftp(s) \/ UseSftp(s) \/ FreeSftp(s)
  \/ \E f \in SFTPFileID : OpenFile(f) \/ UseFile(f) \/ CloseFile(f)
  \/ \E d \in SFTPDirectoryID :
       OpenDirectory(d) \/ ReadDirectory(d) \/ CloseDirectory(d)
  \/ \E a \in SFTPAioID : BeginRead(a) \/ BeginWrite(a) \/ WaitAio(a)

(* What follows a call on a released object is undefined: nothing is said of it. *)
Next == reached = {} /\ Method

Spec == Init /\ [][Next]_vars

-----------------------------------------------------------------------------

(* Everything the tables, the callers and the library know is a minted id of *)
(* a kind that can be there.                                                 *)
TypeOK ==
  /\ session \in BOOLEAN /\ connected \in BOOLEAN
  /\ issued \subseteq ID
  /\ tracked \subseteq issued /\ handed \subseteq issued
  /\ heap \subseteq issued \ SSHChannelID
  /\ links \subseteq issued \cap (SSHChannelID \cup SFTPClientID)
  /\ reached \subseteq issued
  /\ faults \subseteq Fault

(* Whatever the order of the calls, a table entry and its library object   *)
(* come and go together: no entry names a released object, so nothing is   *)
(* released twice, and no object is forgotten, except an SFTP session that *)
(* could not be set up.  (Channels are released behind the tables by       *)
(* ssh_disconnect and are the subject of SSHClient.tla.)                   *)
TrackedIsAllocated ==
  /\ tracked \ SSHChannelID \subseteq heap
  /\ heap \ tracked \subseteq SFTPClientID \ handed

(* A request never outlives its file: once closeFile has closed the file no *)
(* slot of it is left allocated, whoever was still going to wait for it.    *)
RequestsBelongToOpenFiles ==
  \A a \in SFTPAioID : a \in heap => fileId[a] \in heap

(* A handle that ended, through its own close, its scope or its file's     *)
(* close, never works again: every later call gets "not found".            *)
EndedForGood ==
  [][\A id \in ID : id \in issued /\ id \notin tracked => id \notin tracked']_vars
=============================================================================
