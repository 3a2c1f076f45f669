----------------------------- MODULE SSHClient ------------------------------
(***************************************************************************)
(* SSHClient over the actor: connecting and authenticating, execute,       *)
(* close, and the scopes withAuthenticatedClient, withSftp, withSftpFile,  *)
(* withDirectory and withSessionChannel.                                   *)
(*                                                                         *)
(* Nothing orders the closes.  A scope closes its handle when its body has *)
(* returned, but handles escape from their scopes, close() of the client   *)
(* and of an SFTP session are public, and the session keeps no account of  *)
(* what is open on it: any task closes anything at any time.  The history  *)
(* variable orphans records what was still open on a client or an SFTP     *)
(* session when that was closed, so that the properties can say what such  *)
(* a close costs, and that nothing else is ever at risk.                   *)
(*                                                                         *)
(* The connection is lost at any time, and close() is called any number of *)
(* times, its two hops interleaving with everything else.                  *)
(***************************************************************************)
EXTENDS SSHSession

VARIABLES
  phase,    \* where SSHClient.connect, and later close, has got to
  call,     \* call[c]: where the execute() that uses channel id c has got to
  orphans   \* the ids that were open on what was closed under them

clientVars == <<vars, phase, call, orphans>>

Phase == {"new", "connected", "keyed", "accepted", "refused",
          "ready", "closing", "closed", "abandoned"}

Call == {"idle", "checked", "open", "returned", "threw", "connectionFailed"}

ClientInit ==
  /\ Init
  /\ phase = "new"
  /\ call = [c \in SSHChannelID |-> "idle"]
  /\ orphans = {}

Goes(from, to) == phase = from /\ phase' = to

-----------------------------------------------------------------------------
(* SSHClient.connect: a step that throws leaves a session nobody holds *)

ConnectClient ==
  /\ \/ Connect /\ Goes("new", "connected")
     \/ UNCHANGED vars /\ Goes("new", "abandoned")
  /\ UNCHANGED <<call, orphans>>

AuthenticateWithoutKey ==
  /\ \/ connected /\ Goes("connected", "ready")
     \/ Goes("connected", "abandoned")
  /\ UNCHANGED <<vars, call, orphans>>

(* withImportedPrivateKey: import, authenticate, and free on either outcome *)
EnterKeyScope(k) ==
  /\ \/ ImportPrivateKey(k) /\ Goes("connected", "keyed")
     \/ UNCHANGED vars /\ Goes("connected", "abandoned")
  /\ UNCHANGED <<call, orphans>>

AuthenticateWithKey(k) ==
  /\ AuthenticateWithPublicKey(k)
  /\ \/ connected /\ Goes("keyed", "accepted")
     \/ Goes("keyed", "refused")
  /\ UNCHANGED <<call, orphans>>

(* Variant: the key is freed when authentication succeeded only. *)
LeaveKeyScopeOnSuccess(k) ==
  /\ \/ FreeKey(k) /\ Goes("accepted", "ready")
     \/ UNCHANGED vars /\ Goes("refused", "abandoned")
  /\ UNCHANGED <<call, orphans>>

LeaveKeyScope(k) ==
  /\ FreeKey(k)
  /\ \/ Goes("accepted", "ready")
     \/ Goes("refused", "abandoned")
  /\ UNCHANGED <<call, orphans>>

-----------------------------------------------------------------------------
(* SSHClient.execute: isConnectedOrThrow, withSessionChannel, body, defer *)

HasClient == phase \in {"ready", "closing", "closed"}

Moves(c, to) == call' = [call EXCEPT ![c] = to] /\ UNCHANGED <<phase, orphans>>

(* Variant: the connection is not looked at. *)
IsConnectedOrThrowUnchecked(c) ==
  /\ HasClient /\ call[c] = "idle"
  /\ Moves(c, "checked")
  /\ UNCHANGED vars

IsConnectedOrThrow(c) ==
  /\ HasClient /\ call[c] = "idle"
  /\ Moves(c, IF connected THEN "checked" ELSE "connectionFailed")
  /\ UNCHANGED vars

EnterChannelScope(c) ==
  /\ call[c] = "checked"
  /\ \/ /\ OpenChannelSession(c)
        /\ Moves(c, IF c \in tracked' THEN "open" ELSE "threw")
     \/ ~session /\ Moves(c, "threw") /\ UNCHANGED vars

LeaveChannelScope(c) ==
  /\ call[c] = "open"
  /\ \/ CloseChannel(c)
     \/ c \notin tracked /\ UNCHANGED vars
  /\ \E to \in {"returned", "threw"} : Moves(c, to)

-----------------------------------------------------------------------------
(* SSHClient.close: disconnect, then free, two hops to the actor *)

(* What is open on the session: the handles in use, and every tracked slot. *)
OpenOnClient == tracked \cap (handed \cup SFTPAioID)

DisconnectClient ==
  /\ HasClient
  /\ Disconnect
  /\ orphans' = orphans \cup OpenOnClient
  /\ phase' = IF phase = "ready" THEN "closing" ELSE phase
  /\ UNCHANGED call

FreeClient ==
  /\ Free
  /\ phase \in {"closing", "closed"} /\ phase' = "closed"
  /\ UNCHANGED <<call, orphans>>

-----------------------------------------------------------------------------
(* SFTPClient.close and the end of withSftp, and the calls through handles  *)
(* wherever they got to                                                     *)

OpenOnSftp(s) ==
  {x \in tracked : \/ x \in SFTPFileID \cup SFTPDirectoryID /\ sftpId[x] = s
                   \/ x \in SFTPAioID /\ sftpId[fileId[x]] = s}

CloseSftp(s) ==
  /\ FreeSftp(s)
  /\ orphans' = orphans \cup OpenOnSftp(s)

SessionStep ==
  /\ HasClient
  /\ \/ \E s \in SFTPClientID : CloseSftp(s)
     \/ /\ \/ \E s \in SFTPClientID : CreateSftp(s) \/ UseSftp(s)
           \/ \E f \in SFTPFileID : OpenFile(f) \/ UseFile(f) \/ CloseFile(f)
           \/ \E d \in SFTPDirectoryID :
                OpenDirectory(d) \/ ReadDirectory(d) \/ CloseDirectory(d)
           \/ \E a \in SFTPAioID : BeginRead(a) \/ BeginWrite(a) \/ WaitAio(a)
           \/ \E c \in SSHChannelID : UseChannel(c) \/ CloseChannel(c)
        /\ UNCHANGED orphans
  /\ UNCHANGED <<phase, call>>

LoseConnection == ConnectionLost /\ UNCHANGED <<phase, call, orphans>>

ClientMethod ==
  \/ ConnectClient \/ AuthenticateWithoutKey
  \/ \E k \in SSHKeyID : EnterKeyScope(k) \/ AuthenticateWithKey(k) \/ LeaveKeyScope(k)
  \/ \E c \in SSHChannelID :
       IsConnectedOrThrow(c) \/ EnterChannelScope(c) \/ LeaveChannelScope(c)
  \/ DisconnectClient \/ FreeClient
  \/ SessionStep \/ LoseConnection

ClientNext == reached = {} /\ ClientMethod

ClientSpec == ClientInit /\ [][ClientNext]_clientVars

-----------------------------------------------------------------------------

(* The actor has its types; phase and call are among the stages of connect,  *)
(* close and execute.                                                        *)
ClientTypeOK ==
  /\ TypeOK
  /\ phase \in Phase
  /\ call \in [SSHChannelID -> Call]
  /\ orphans \subseteq issued

(* A released object is reached only through an orphan, a handle whose     *)
(* client or SFTP session was closed while it was open.  However closes,   *)
(* failed opens, lost connections and escaped handles interleave, every    *)
(* other handle is safe to use and to close: an early close of one SFTP    *)
(* session never costs the handles of another, nor a channel, and with no  *)
(* early close nothing is reached.  The guards look only at the tables;    *)
(* ssh_disconnect, ssh_free and sftp_free release objects the tables still *)
(* reach, and for the orphans the code has no check.                       *)
NoUseAfterFree == reached \subseteq orphans

(* Once close() has freed the session, all that is left of what it created *)
(* is orphans nobody closed in time and SFTP sessions whose setup failed   *)
(* half way.  (A call on an orphan ends what can be said.)                 *)
CloseReleasesEverything ==
  ~session /\ reached = {} => links = {} /\ heap \subseteq orphans \cup (SFTPClientID \ handed)

(* An imported private key is gone, from the table and from memory, when   *)
(* connect returns or throws.                                              *)
NoKeyOutlivesAuthentication ==
  phase \notin {"keyed", "accepted", "refused"} => (heap \cup tracked) \cap SSHKeyID = {}

(* An execute() started after close() has begun throws connectionFailed,   *)
(* one that was under way by then throws: none of them gets a channel      *)
(* (SSHClientTests.executeAfterCloseThrowsConnectionFailed).               *)
ExecuteAfterClose ==
  [][(phase \in {"closing", "closed"}) =>
       \A c \in SSHChannelID : call'[c] # call[c] =>
         (call[c] = "idle" /\ call'[c] = "connectionFailed")
           \/ (call[c] = "checked" /\ call'[c] = "threw")
           \/ call[c] = "open"]_clientVars

(* sftp.h:675-677: a file "must not be closed before the corresponding     *)
(* call to sftp_aio_wait_read()".  closeFile closes it all the same.       *)
FileClosedAfterItsReads == "outstanding" \notin faults

(* sftp.h:637-638: sftp_aio_free takes "the aio handle returned by the     *)
(* sftp_aio_begin_*() functions".  closeFile also passes what is in a slot *)
(* whose sftp_aio_begin_* failed and which was therefore never written.    *)
OnlyReturnedRequestsFreed == "unset" \notin faults
=============================================================================
