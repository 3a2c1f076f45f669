--------------------------- MODULE SSHClientProofs --------------------------
(* The actor alone: what holds of it whatever the order of the calls.  Then *)
(* the client: only what was open on something when that was closed can     *)
(* lead to a released object.  Both for every set of ids and every          *)
(* interleaving.                                                            *)
EXTENDS SSHClient, TLAPS

(***************************************************************************)
(* The actor: SSHSession                                                   *)
(***************************************************************************)

(* One method keeps the types, from any state. *)
LEMMA MethodTypeOK == TypeOK /\ [Method]_vars => TypeOK'
<1> SUFFICES ASSUME TypeOK, [Method]_vars PROVE TypeOK'
  OBVIOUS
<1> USE IdAssumption DEF TypeOK, ID, conn, ids, store, broken, Requires, Fault
<1>1. CASE Connect \/ ConnectionLost \/ Disconnect \/ Free
  BY <1>1 DEF Connect, ConnectionLost, Disconnect, Free
<1>2. ASSUME NEW k \in SSHKeyID,
             ImportPrivateKey(k) \/ AuthenticateWithPublicKey(k) \/ FreeKey(k)
      PROVE  TypeOK'
  <2>1. CASE ImportPrivateKey(k)
    BY <2>1 DEF ImportPrivateKey, Allocate, Track, Hand
  <2>2. CASE AuthenticateWithPublicKey(k)
    BY <2>2 DEF AuthenticateWithPublicKey
  <2>3. CASE FreeKey(k)
    BY <2>3 DEF FreeKey, Release
  <2> QED
    BY <1>2, <2>1, <2>2, <2>3
<1>3. ASSUME NEW c \in SSHChannelID,
             OpenChannelSession(c) \/ UseChannel(c) \/ CloseChannel(c)
      PROVE  TypeOK'
  <2>1. CASE OpenChannelSession(c)
    BY <2>1 DEF OpenChannelSession, Track, Hand
  <2>2. CASE UseChannel(c)
    BY <2>2 DEF UseChannel
  <2>3. CASE CloseChannel(c)
    BY <2>3 DEF CloseChannel, Release
  <2> QED
    BY <1>3, <2>1, <2>2, <2>3
<1>4. ASSUME NEW s \in SFTPClientID,
             CreateSftp(s) \/ UseSftp(s) \/ FreeSftp(s)
      PROVE  TypeOK'
  <2>1. CASE CreateSftp(s)
    BY <2>1 DEF CreateSftp, Allocate, Track, Hand
  <2>2. CASE UseSftp(s)
    BY <2>2 DEF UseSftp
  <2>3. CASE FreeSftp(s)
    BY <2>3 DEF FreeSftp, Release
  <2> QED
    BY <1>4, <2>1, <2>2, <2>3
<1>5. ASSUME NEW f \in SFTPFileID,
             OpenFile(f) \/ UseFile(f) \/ CloseFile(f)
      PROVE  TypeOK'
  <2>1. CASE OpenFile(f)
    BY <2>1 DEF OpenFile, Allocate, Track, Hand
  <2>2. CASE UseFile(f)
    BY <2>2 DEF UseFile
  <2>3. CASE CloseFile(f)
    BY <2>3 DEF CloseFile, Release
  <2> QED
    BY <1>5, <2>1, <2>2, <2>3
<1>6. ASSUME NEW d \in SFTPDirectoryID,
             OpenDirectory(d) \/ ReadDirectory(d) \/ CloseDirectory(d)
      PROVE  TypeOK'
  <2>1. CASE OpenDirectory(d)
    BY <2>1 DEF OpenDirectory, Allocate, Track, Hand
  <2>2. CASE ReadDirectory(d)
    BY <2>2 DEF ReadDirectory
  <2>3. CASE CloseDirectory(d)
    BY <2>3 DEF CloseDirectory, Release
  <2> QED
    BY <1>6, <2>1, <2>2, <2>3
<1>7. ASSUME NEW a \in SFTPAioID,
             BeginRead(a) \/ BeginWrite(a) \/ WaitAio(a)
      PROVE  TypeOK'
  <2>1. CASE BeginRead(a)
    BY <2>1 DEF BeginRead, Begin, Allocate, Track, Hand
  <2>2. CASE BeginWrite(a)
    BY <2>2 DEF BeginWrite, Begin, Allocate, Track, Hand
  <2>3. CASE WaitAio(a)
    BY <2>3 DEF WaitAio, Release
  <2> QED
    BY <1>7, <2>1, <2>2, <2>3
<1>8. CASE UNCHANGED vars
  BY <1>8 DEF vars
<1> QED
  BY <1>1, <1>2, <1>3, <1>4, <1>5, <1>6, <1>7, <1>8 DEF Method

(* The actor's state always has its type. *)
THEOREM TypeCorrect == Spec => []TypeOK
<1>1. Init => TypeOK
  BY DEF Init, TypeOK
<1>2. TypeOK /\ [Next]_vars => TypeOK'
  BY MethodTypeOK DEF Next
<1> QED
  BY <1>1, <1>2, PTL DEF Spec

-----------------------------------------------------------------------------
(* The tables and the library's objects, together: a table entry stands    *)
(* for an allocated object and the other way round, and only of an open    *)
(* file are requests tracked.                                              *)
Bookkeeping == TypeOK /\ TrackedIsAllocated /\ RequestsBelongToOpenFiles

(* One method keeps the tables and the library's objects together.           *)
LEMMA MethodBookkeeping == Bookkeeping /\ [Method]_vars => Bookkeeping'
<1> SUFFICES ASSUME Bookkeeping, [Method]_vars
             PROVE  TrackedIsAllocated' /\ RequestsBelongToOpenFiles'
  BY MethodTypeOK DEF Bookkeeping
<1> USE IdAssumption DEF Bookkeeping, TypeOK, TrackedIsAllocated, RequestsBelongToOpenFiles,
                         ID, conn, ids, store
<1>1. CASE Connect \/ ConnectionLost \/ Disconnect \/ Free
  BY <1>1 DEF Connect, ConnectionLost, Disconnect, Free
<1>2. ASSUME NEW k \in SSHKeyID,
             ImportPrivateKey(k) \/ AuthenticateWithPublicKey(k) \/ FreeKey(k)
      PROVE  TrackedIsAllocated' /\ RequestsBelongToOpenFiles'
  BY <1>2 DEF ImportPrivateKey, AuthenticateWithPublicKey, FreeKey,
              Allocate, Track, Hand, Release
<1>3. ASSUME NEW c \in SSHChannelID,
             OpenChannelSession(c) \/ UseChannel(c) \/ CloseChannel(c)
      PROVE  TrackedIsAllocated' /\ RequestsBelongToOpenFiles'
  BY <1>3 DEF OpenChannelSession, UseChannel, CloseChannel, Track, Hand, Release
<1>4. ASSUME NEW s \in SFTPClientID, CreateSftp(s) \/ UseSftp(s) \/ FreeSftp(s)
      PROVE  TrackedIsAllocated' /\ RequestsBelongToOpenFiles'
  BY <1>4 DEF CreateSftp, UseSftp, FreeSftp, Allocate, Track, Hand, Release
<1>5. ASSUME NEW f \in SFTPFileID, OpenFile(f) \/ UseFile(f) \/ CloseFile(f)
      PROVE  TrackedIsAllocated' /\ RequestsBelongToOpenFiles'
  <2>1. CASE OpenFile(f) \/ UseFile(f)
    BY <2>1 DEF OpenFile, UseFile, Allocate, Track, Hand
  <2>2. CASE CloseFile(f)
    \* every request of f goes with it
    BY <2>2 DEF CloseFile, Aios, Release
  <2> QED
    BY <1>5, <2>1, <2>2
<1>6. ASSUME NEW d \in SFTPDirectoryID,
             OpenDirectory(d) \/ ReadDirectory(d) \/ CloseDirectory(d)
      PROVE  TrackedIsAllocated' /\ RequestsBelongToOpenFiles'
  BY <1>6 DEF OpenDirectory, ReadDirectory, CloseDirectory, Allocate, Track, Hand, Release
<1>7. ASSUME NEW a \in SFTPAioID, BeginRead(a) \/ BeginWrite(a) \/ WaitAio(a)
      PROVE  TrackedIsAllocated' /\ RequestsBelongToOpenFiles'
  BY <1>7 DEF BeginRead, BeginWrite, WaitAio, Begin, Allocate, Track, Hand, Release
<1>8. CASE UNCHANGED vars
  BY <1>8 DEF vars
<1> QED
  BY <1>1, <1>2, <1>3, <1>4, <1>5, <1>6, <1>7, <1>8 DEF Method

(* In every order of the calls, what is tracked is allocated and nothing   *)
(* allocated is forgotten but an SFTP session whose setup failed.          *)
THEOREM AllocationMatchesTables == Spec => []TrackedIsAllocated
<1>1. Init => Bookkeeping
  BY DEF Init, Bookkeeping, TypeOK, TrackedIsAllocated, RequestsBelongToOpenFiles
<1>2. Bookkeeping /\ [Next]_vars => Bookkeeping'
  BY MethodBookkeeping DEF Next
<1>3. Bookkeeping => TrackedIsAllocated
  BY DEF Bookkeeping
<1> QED
  BY <1>1, <1>2, <1>3, PTL DEF Spec

(* No request is left in the tables once its file is closed.               *)
THEOREM RequestsEndWithTheirFile == Spec => []RequestsBelongToOpenFiles
<1>1. Init => Bookkeeping
  BY DEF Init, Bookkeeping, TypeOK, TrackedIsAllocated, RequestsBelongToOpenFiles
<1>2. Bookkeeping /\ [Next]_vars => Bookkeeping'
  BY MethodBookkeeping DEF Next
<1>3. Bookkeeping => RequestsBelongToOpenFiles
  BY DEF Bookkeeping
<1> QED
  BY <1>1, <1>2, <1>3, PTL DEF Spec

-----------------------------------------------------------------------------
(* An id that was minted and is in no table any more is minted for good,   *)
(* and every method that adds an id to a table mints it.                   *)
LEMMA MethodEnds ==
  [Method]_vars => \A id \in ID : id \in issued /\ id \notin tracked => id \notin tracked'
<1> SUFFICES ASSUME [Method]_vars, NEW id \in ID, id \in issued, id \notin tracked
             PROVE  id \notin tracked'
  OBVIOUS
<1> USE DEF conn, ids, store
<1>1. CASE Connect \/ ConnectionLost \/ Disconnect \/ Free
  BY <1>1 DEF Connect, ConnectionLost, Disconnect, Free
<1>2. ASSUME NEW k \in SSHKeyID,
             ImportPrivateKey(k) \/ AuthenticateWithPublicKey(k) \/ FreeKey(k)
      PROVE  id \notin tracked'
  BY <1>2 DEF ImportPrivateKey, AuthenticateWithPublicKey, FreeKey, Allocate, Track, Release
<1>3. ASSUME NEW c \in SSHChannelID,
             OpenChannelSession(c) \/ UseChannel(c) \/ CloseChannel(c)
      PROVE  id \notin tracked'
  BY <1>3 DEF OpenChannelSession, UseChannel, CloseChannel, Track, Release
<1>4. ASSUME NEW s \in SFTPClientID, CreateSftp(s) \/ UseSftp(s) \/ FreeSftp(s)
      PROVE  id \notin tracked'
  BY <1>4 DEF CreateSftp, UseSftp, FreeSftp, Allocate, Track, Release
<1>5. ASSUME NEW f \in SFTPFileID, OpenFile(f) \/ UseFile(f) \/ CloseFile(f)
      PROVE  id \notin tracked'
  BY <1>5 DEF OpenFile, UseFile, CloseFile, Allocate, Track, Release
<1>6. ASSUME NEW d \in SFTPDirectoryID,
             OpenDirectory(d) \/ ReadDirectory(d) \/ CloseDirectory(d)
      PROVE  id \notin tracked'
  BY <1>6 DEF OpenDirectory, ReadDirectory, CloseDirectory, Allocate, Track, Release
<1>7. ASSUME NEW a \in SFTPAioID, BeginRead(a) \/ BeginWrite(a) \/ WaitAio(a)
      PROVE  id \notin tracked'
  BY <1>7 DEF BeginRead, BeginWrite, WaitAio, Begin, Allocate, Track, Release
<1>8. CASE UNCHANGED vars
  BY <1>8 DEF vars
<1> QED
  BY <1>1, <1>2, <1>3, <1>4, <1>5, <1>6, <1>7, <1>8 DEF Method

(* A handle that has ended never works again.                              *)
THEOREM HandlesEndForGood == Spec => EndedForGood
<1>1. [Next]_vars =>
        [\A id \in ID : id \in issued /\ id \notin tracked => id \notin tracked']_vars
  BY MethodEnds DEF Next
<1> QED
  BY <1>1, PTL DEF Spec, EndedForGood

-----------------------------------------------------------------------------
(***************************************************************************)
(* The client: SSHClient                                                   *)
(***************************************************************************)

(* Whatever the client does, the actor sees one of its methods or nothing. *)
LEMMA ClientCallsMethods == [ClientNext]_clientVars => [Method]_vars
<1> SUFFICES ASSUME [ClientNext]_clientVars PROVE [Method]_vars
  OBVIOUS
<1>1. CASE ConnectClient \/ AuthenticateWithoutKey
  BY <1>1 DEF ConnectClient, AuthenticateWithoutKey, Method
<1>2. CASE \E k \in SSHKeyID : EnterKeyScope(k) \/ AuthenticateWithKey(k) \/ LeaveKeyScope(k)
  BY <1>2 DEF EnterKeyScope, AuthenticateWithKey, LeaveKeyScope, Method
<1>3. CASE \E c \in SSHChannelID :
             IsConnectedOrThrow(c) \/ EnterChannelScope(c) \/ LeaveChannelScope(c)
  BY <1>3 DEF IsConnectedOrThrow, EnterChannelScope, LeaveChannelScope, Method
<1>4. CASE DisconnectClient \/ FreeClient \/ LoseConnection
  BY <1>4 DEF DisconnectClient, FreeClient, LoseConnection, Method
<1>5. CASE SessionStep
  BY <1>5 DEF SessionStep, CloseSftp, Method
<1>6. CASE UNCHANGED clientVars
  BY <1>6 DEF clientVars, vars
<1> QED
  BY <1>1, <1>2, <1>3, <1>4, <1>5, <1>6 DEF ClientNext, ClientMethod

(* No id is ever unminted.                                                  *)
LEMMA MethodMints == [Method]_vars => issued \subseteq issued'
  BY DEF Method, vars, conn, ids, store, Release, Allocate,
     Connect, ConnectionLost, Disconnect, Free, ImportPrivateKey, AuthenticateWithPublicKey,
     FreeKey, OpenChannelSession, UseChannel, CloseChannel, CreateSftp, UseSftp, FreeSftp,
     OpenFile, UseFile, CloseFile, OpenDirectory, ReadDirectory, CloseDirectory,
     Begin, BeginRead, BeginWrite, WaitAio

(* The client's types. *)
LEMMA ClientStepTypeOK == ClientTypeOK /\ [ClientNext]_clientVars => ClientTypeOK'
<1> SUFFICES ASSUME ClientTypeOK, [ClientNext]_clientVars
             PROVE  /\ phase' \in Phase /\ call' \in [SSHChannelID -> Call]
                    /\ orphans' \subseteq issued'
  BY ClientCallsMethods, MethodTypeOK DEF ClientTypeOK
<1>0. issued \subseteq issued' /\ tracked \subseteq issued
  BY ClientCallsMethods, MethodMints DEF ClientTypeOK, TypeOK
<1> USE <1>0 DEF ClientTypeOK, Phase, Call, Goes
<1>1. CASE ConnectClient \/ AuthenticateWithoutKey
  BY <1>1 DEF ConnectClient, AuthenticateWithoutKey
<1>2. CASE \E k \in SSHKeyID : EnterKeyScope(k) \/ AuthenticateWithKey(k) \/ LeaveKeyScope(k)
  BY <1>2 DEF EnterKeyScope, AuthenticateWithKey, LeaveKeyScope
<1>3. CASE \E c \in SSHChannelID :
             IsConnectedOrThrow(c) \/ EnterChannelScope(c) \/ LeaveChannelScope(c)
  BY <1>3 DEF IsConnectedOrThrow, EnterChannelScope, LeaveChannelScope, Moves
<1>4. CASE DisconnectClient \/ FreeClient \/ LoseConnection
  BY <1>4 DEF DisconnectClient, OpenOnClient, FreeClient, LoseConnection
<1>5. CASE SessionStep
  BY <1>5 DEF SessionStep, CloseSftp, OpenOnSftp
<1>6. CASE UNCHANGED clientVars
  BY <1>6 DEF clientVars
<1> QED
  BY <1>1, <1>2, <1>3, <1>4, <1>5, <1>6 DEF ClientNext, ClientMethod

-----------------------------------------------------------------------------
(* The inductive invariant.  A file or a directory was opened on an SFTP    *)
(* session somebody had; an orphan's SFTP session is gone for good.  As     *)
(* long as no released object was reached, what is tracked and no orphan    *)
(* rests on live objects, and close() leaves only orphans open: a session   *)
(* without SFTP channels, disconnected for good.                            *)
Parented == SFTPFileID \cup SFTPDirectoryID

ParentsWereHeld == \A x \in Parented : x \in issued => sftpId[x] \in handed

NobodyHolds == tracked \ handed \subseteq SFTPClientID \cup SFTPAioID

OrphansAreDead == \A x \in Parented : x \in orphans => ~SftpAlive(sftpId[x])

OthersAreAlive ==
  /\ \A x \in Parented : x \in tracked \ orphans => SftpAlive(sftpId[x])
  /\ \A x \in SSHChannelID \cup SFTPClientID :
       x \in (tracked \cap handed) \ orphans => x \in links
  /\ \A a \in SFTPAioID : a \in tracked \ orphans => fileId[a] \notin orphans

ClosingLeavesOrphans ==
  /\ phase \in {"closing", "closed"} =>
       /\ ~connected
       /\ links \cap SFTPClientID = {}
       /\ reached = {} => OpenOnClient \subseteq orphans
  /\ ~session => phase = "closed" /\ links = {}

OneKeyInItsScope ==
  /\ NoKeyOutlivesAuthentication
  /\ \A k, l \in SSHKeyID \cap tracked : k = l

ScopesInv ==
  /\ orphans \subseteq issued
  /\ ParentsWereHeld
  /\ NobodyHolds
  /\ OrphansAreDead
  /\ reached = {} => OthersAreAlive
  /\ ClosingLeavesOrphans
  /\ OneKeyInItsScope
  /\ NoUseAfterFree

ClientInv == Bookkeeping /\ ScopesInv

(* A new client has opened nothing.                                         *)
LEMMA ClientStart == ClientInit => ClientInv /\ ClientTypeOK
  BY DEF ClientInit, Init, ClientInv, ScopesInv, ClientTypeOK, Bookkeeping, TypeOK,
         TrackedIsAllocated, RequestsBelongToOpenFiles, ParentsWereHeld, NobodyHolds,
         OrphansAreDead, OthersAreAlive, ClosingLeavesOrphans, OpenOnClient,
         OneKeyInItsScope, NoKeyOutlivesAuthentication, NoUseAfterFree, Phase, Call

(* Every step of the client keeps the invariant.                            *)
LEMMA ClientStep == ClientInv /\ [ClientNext]_clientVars => ClientInv'
<1> SUFFICES ASSUME ClientInv, [ClientNext]_clientVars PROVE ScopesInv'
  BY ClientCallsMethods, MethodBookkeeping DEF ClientInv, ScopesInv
<1> USE IdAssumption
    DEF ClientInv, ScopesInv, Bookkeeping, TypeOK, ID, TrackedIsAllocated,
        RequestsBelongToOpenFiles, Parented, ParentsWereHeld, NobodyHolds, OrphansAreDead,
        OthersAreAlive, ClosingLeavesOrphans, OpenOnClient, OneKeyInItsScope,
        NoKeyOutlivesAuthentication, NoUseAfterFree, SftpAlive, FileAlive,
        Goes, conn, ids, store, broken, vars
<1>1. CASE UNCHANGED clientVars
  BY <1>1 DEF clientVars
<1> SUFFICES ASSUME reached = {}, ClientMethod PROVE ScopesInv'
  BY <1>1 DEF ClientNext
<1>2. CASE ConnectClient \/ AuthenticateWithoutKey
  BY <1>2 DEF ConnectClient, AuthenticateWithoutKey, Connect
<1>3. ASSUME NEW k \in SSHKeyID, EnterKeyScope(k) PROVE ScopesInv'
  BY <1>3 DEF EnterKeyScope, ImportPrivateKey, Allocate, Track, Hand
<1>4. ASSUME NEW k \in SSHKeyID, AuthenticateWithKey(k) PROVE ScopesInv'
  BY <1>4 DEF AuthenticateWithKey, AuthenticateWithPublicKey, Requires
<1>5. ASSUME NEW k \in SSHKeyID, LeaveKeyScope(k) PROVE ScopesInv'
  BY <1>5 DEF LeaveKeyScope, FreeKey, Release, Requires
<1>6. ASSUME NEW c \in SSHChannelID, IsConnectedOrThrow(c) PROVE ScopesInv'
  BY <1>6 DEF IsConnectedOrThrow, Moves
<1>7. ASSUME NEW c \in SSHChannelID, EnterChannelScope(c) PROVE ScopesInv'
  BY <1>7 DEF EnterChannelScope, OpenChannelSession, Moves, Track, Hand
<1>8. ASSUME NEW c \in SSHChannelID, LeaveChannelScope(c) PROVE ScopesInv'
  BY <1>8 DEF LeaveChannelScope, CloseChannel, Moves, Release, Requires
<1>9. CASE DisconnectClient \/ FreeClient \/ LoseConnection
  BY <1>9 DEF DisconnectClient, FreeClient, LoseConnection, Disconnect, Free, ConnectionLost,
     HasClient
<1>10. CASE SessionStep
  <2> USE DEF HasClient
  <2>1. ASSUME NEW s \in SFTPClientID, CloseSftp(s) PROVE ScopesInv'
    \* what was open on s becomes an orphan, what was open elsewhere is not touched
    BY <1>10, <2>1 DEF SessionStep, CloseSftp, FreeSftp, OpenOnSftp, Release, Requires
  <2> SUFFICES ASSUME HasClient, UNCHANGED <<phase, call, orphans>> PROVE ScopesInv'
    BY <1>10, <2>1 DEF SessionStep
  <2>2. ASSUME NEW s \in SFTPClientID, CreateSftp(s) \/ UseSftp(s) PROVE ScopesInv'
    BY <2>2 DEF CreateSftp, UseSftp, Allocate, Track, Hand, Requires
  <2>3. ASSUME NEW f \in SFTPFileID, OpenFile(f) \/ UseFile(f) PROVE ScopesInv'
    BY <2>3 DEF OpenFile, UseFile, Allocate, Track, Hand, Requires
  <2>4. ASSUME NEW f \in SFTPFileID, CloseFile(f) PROVE ScopesInv'
    BY <2>4 DEF CloseFile, Aios, Release
  <2>5. ASSUME NEW d \in SFTPDirectoryID,
               OpenDirectory(d) \/ ReadDirectory(d) \/ CloseDirectory(d)
        PROVE  ScopesInv'
    BY <2>5 DEF OpenDirectory, ReadDirectory, CloseDirectory, Allocate, Track, Hand,
                Release, Requires
  <2>6. ASSUME NEW a \in SFTPAioID, BeginRead(a) \/ BeginWrite(a) PROVE ScopesInv'
    \* begun on an orphan, a request reaches the released session
    BY <2>6 DEF BeginRead, BeginWrite, Begin, Allocate, Track, Hand, Requires
  <2>7. ASSUME NEW a \in SFTPAioID, WaitAio(a) PROVE ScopesInv'
    BY <2>7 DEF WaitAio, AioAlive, Release, Requires
  <2>8. ASSUME NEW c \in SSHChannelID, UseChannel(c) \/ CloseChannel(c) PROVE ScopesInv'
    BY <2>8 DEF UseChannel, CloseChannel, Release, Requires
  <2> QED
    BY <1>10, <2>2, <2>3, <2>4, <2>5, <2>6, <2>7, <2>8, <2>1 DEF SessionStep
<1> QED
  BY <1>2, <1>3, <1>4, <1>5, <1>6, <1>7, <1>8, <1>9, <1>10 DEF ClientMethod

(* The invariant holds throughout.                                          *)
LEMMA ClientInvariant == ClientSpec => []ClientInv
  BY ClientStart, ClientStep, PTL DEF ClientSpec

-----------------------------------------------------------------------------
(* The client's state always has its type. *)
THEOREM ClientTypeCorrect == ClientSpec => []ClientTypeOK
  BY ClientStart, ClientStepTypeOK, PTL DEF ClientSpec

(* A call of the library is given a released object only through an orphan, *)
(* a handle whose client or SFTP session was closed while it was open.      *)
THEOREM OnlyOrphansReachFreed == ClientSpec => []NoUseAfterFree
<1>1. ClientInv => NoUseAfterFree
  BY DEF ClientInv, ScopesInv
<1> QED
  BY <1>1, ClientInvariant, PTL

(* A private key imported to authenticate does not survive connect. *)
THEOREM KeysAreReleased == ClientSpec => []NoKeyOutlivesAuthentication
<1>1. ClientInv => NoKeyOutlivesAuthentication
  BY DEF ClientInv, ScopesInv, OneKeyInItsScope
<1> QED
  BY <1>1, ClientInvariant, PTL

(* After close() only orphans nobody closed in time and SFTP sessions whose *)
(* setup failed are still allocated.                                        *)
THEOREM CloseReleases == ClientSpec => []CloseReleasesEverything
<1>1. ClientInv => CloseReleasesEverything
  <2> SUFFICES ASSUME ClientInv, ~session, reached = {}
               PROVE  links = {} /\ heap \subseteq orphans \cup (SFTPClientID \ handed)
    BY DEF CloseReleasesEverything
  <2>1. OpenOnClient \subseteq orphans /\ links = {}
    BY DEF ClientInv, ScopesInv, ClosingLeavesOrphans
  <2>2. tracked \subseteq orphans \cup (SFTPClientID \ handed)
    \* what is tracked and not open on the client is an SFTP session nobody has
    BY <2>1, IdAssumption DEF ClientInv, ScopesInv, NobodyHolds, OpenOnClient
  <2> QED
    BY <2>1, <2>2 DEF ClientInv, Bookkeeping, TrackedIsAllocated
<1> QED
  BY <1>1, ClientInvariant, PTL

(* Once close() has begun no execute() gets a channel. *)
THEOREM NoExecuteAfterClose == ClientSpec => ExecuteAfterClose
<1> DEFINE Refused ==
      (phase \in {"closing", "closed"}) =>
        \A c \in SSHChannelID : call'[c] # call[c] =>
          (call[c] = "idle" /\ call'[c] = "connectionFailed")
            \/ (call[c] = "checked" /\ call'[c] = "threw")
            \/ call[c] = "open"
<1>1. ClientInv /\ ClientTypeOK /\ [ClientNext]_clientVars => [Refused]_clientVars
  <2> SUFFICES ASSUME ClientInv, ClientTypeOK, ClientNext,
                      phase \in {"closing", "closed"},
                      NEW c \in SSHChannelID, call'[c] # call[c]
               PROVE  \/ call[c] = "idle" /\ call'[c] = "connectionFailed"
                      \/ call[c] = "checked" /\ call'[c] = "threw"
                      \/ call[c] = "open"
    OBVIOUS
  <2>1. ~connected
    BY DEF ClientInv, ScopesInv, ClosingLeavesOrphans
  <2>2. PICK e \in SSHChannelID :
          IsConnectedOrThrow(e) \/ EnterChannelScope(e) \/ LeaveChannelScope(e)
    BY DEF ClientNext, ClientMethod, ConnectClient, AuthenticateWithoutKey, EnterKeyScope,
           AuthenticateWithKey, LeaveKeyScope, DisconnectClient, FreeClient,
           SessionStep, LoseConnection
  <2>3. e = c
    BY <2>2 DEF IsConnectedOrThrow, EnterChannelScope, LeaveChannelScope, Moves, ClientTypeOK
  <2>4. CASE IsConnectedOrThrow(c)
    BY <2>1, <2>4 DEF IsConnectedOrThrow, Moves, ClientTypeOK
  <2>5. CASE EnterChannelScope(c)
    \* disconnected, the channel is not opened: its id stays untracked
    <3>1. call[c] = "checked"
      BY <2>5 DEF EnterChannelScope
    <3>2. call'[c] = "threw"
      BY <2>1, <2>5 DEF EnterChannelScope, OpenChannelSession, Moves, ClientTypeOK,
         ClientInv, Bookkeeping, TypeOK
    <3> QED
      BY <3>1, <3>2
  <2>6. CASE LeaveChannelScope(c)
    BY <2>6 DEF LeaveChannelScope
  <2> QED
    BY <2>2, <2>3, <2>4, <2>5, <2>6
<1> QED
  BY <1>1, ClientInvariant, ClientTypeCorrect, PTL DEF ClientSpec, ExecuteAfterClose
=============================================================================
