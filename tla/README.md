# A TLA+ verification of swift-lib-ssh

swift-lib-ssh wraps the C library libssh in a Swift actor.  The modules here
model what the Swift code under `Sources/SwiftLibSSH` adds to libssh: who owns
which library object and until when, what the scopes of the public interface
guarantee, how reads, writes and transfers of remote files are pipelined, how a
command's output and exit status are waited for, and the operations that take
several requests to the server.  Each module is checked by TLC on a small
instance; what matters most is proved by TLAPS for every value of the constants.

`PROJECT.json` maps each definition to the lines it models, and lists the runs,
the variants each run must reject, the hazards and the theorems.

## The system

| Component | Source | State | Operations |
|---|---|---|---|
| Session actor | `LibSSH.swift` | the `ssh_session` pointer; five dictionaries from handle ids to library objects; in the entry of a file, the slots of its asynchronous requests | connect, authenticate, import and free keys, open and close channels, SFTP sessions, files and directories, begin and wait for requests, `setStat`; the error mapping |
| Client | `SSHClient.swift` | none of its own, it holds the actor | connect (with authentication), execute, sftp, close, the `with...` scopes |
| Key, channel, SFTP, directory and request handles | `SSHKey.swift`, `SSHSessionChannel.swift`, `SFTPClient.swift`, `SFTPDirectory.swift`, `SFTPAioContext.swift` | an id and the actor | forward to the actor; `SFTPClient` adds the recursive creation and removal of directories |
| Session channel | `SSHSessionChannel.swift`, `execute` in `SSHClient.swift` | an id; libssh holds the window and what is unread | execute, exit status, two streams |
| Files | `SFTPFile.swift` | an id, the limits, the actor | read, write, stream, download, upload |
| Pipelined reader | `SFTPFile.swift`, `SFTPReader.Iterator` | bytes asked for, queue of requests | `next` |
| Pipelined writer | `SFTPFile.swift`, `SFTPWriter` | queue of requests | `write`, `flush` |
| Limits, attributes, exit status | `SFTPLimits.swift`, `SFTPAttributes.swift`, `SSHExitStatus.swift` | values | conversions |
| Command line tool | `Sources/SwiftSSH` | speedometer counters | argument parsing, progress |
| libssh | `Sources/CLibSSH` | headers and a prebuilt binary | external |

**How they interact.**  Every handle holds the actor and an id.  A call through a
handle is one hop to the actor (two for `SSHClient.close`, several for
`Iterator.next`, `read`, `upload`, `execute`).  No method of the actor awaits
while it works on library objects, so a method runs to its end; the scopes
(`withSftpFile` and the like) await between the opening and the closing method.
Between two hops of a task any other task's hop may run.  Library objects are
reachable only through the dictionaries, but libssh itself links them:
`ssh_disconnect` and `ssh_free` release all channels of the session, those of the
SFTP sessions included, and leave the dictionaries naming released memory.

**What is hard.**  Two tasks on one handle (one closes a file while the other
waits for a request on it; both read or write); handles that escape their scopes;
`close()` between the check and the use inside `execute`; steps that fail half way
(a channel refused after it was allocated, SFTP limits that cannot be read, a slot
tracked before the request that should fill it is sent, a disk that fills up in the
middle of a buffer); answers cut short by the end of the file while later requests
are in flight, with the shared file offset given back; refused writes noticed a
queue of requests later; cancellation; calls that block in libssh and hold the
whole actor, over two streams that share one channel window; operations of several
requests between which other clients change the tree or the attributes.  The full
list, line by line, is under `hazards` in `PROJECT.json`.

**What makes each part correct.**

- Session actor: a table entry and its library object come and go together;
  nothing is released twice or forgotten; a handle that ended stays ended.
- Client: a call of libssh gets a released object only through a handle whose
  session was closed while it was open; after `close()` nothing else is left; a key
  never outlives authentication; a command never starts after `close()`.
- Readers: the range arrives in order, each byte once, whole, or with an error.
- Download: the local file is at every moment a beginning of the remote file, and
  all of it when the download returns.
- Writer: `upload` returns only if the remote file is the local file; writers that
  share a handle do not overwrite each other.
- Channel: a stream read to its end was read whole; the status tells the end; calls
  end as long as the output leaves them a way to.
- Directories: what was to be created is there and what was to be removed is gone
  when the call returns; nothing else is removed, unless somebody puts a link in the
  way.
- `setStat`: a call changes what it was given and the fields the protocol ties to
  it; calls of one client do not undo each other.

## The modules

`SSHSession.tla` is the actor.  `session` and `connected` are the pointer and
`ssh_is_connected`; `tracked` is the five dictionaries (the kind of an id tells
which) together with the `aios` nested in `files`; `issued` the UUIDs minted so
far; `handed` the ids that were returned to a caller; `heap` and `links` the
library objects that are allocated, an `ssh_channel` being in `links` because the
session frees it; `reached` the ids through which a call was given a released
object, and `faults` the other rules of libssh's headers that a call so far has
broken.  Each method that touches a table or a library object is an action
(`ImportPrivateKey`, `OpenChannelSession`, `CloseFile`, `WaitAio`, ...); the
methods that only call the library with a looked-up object (`mkdir`, `stat`, ...)
are one action per kind of object, `UseSftp`, `UseFile`, `UseChannel`.  The module
lets anybody call anything at any time.  A call on a released object is undefined
behaviour, so nothing follows it: `Next` asks for `reached = {}`.

`SSHClient.tla` EXTENDS it with `SSHClient.connect`, `execute` and `close`
(`phase`, `call`) and with the close of an SFTP session, `CloseSftp`, which is
`SFTPClient.close` and the end of `withSftp` alike.  Nothing restricts when these
are called: `close()` of the client and of an SFTP session are public, and neither
asks what is open.  Escaped handles are used and closed by other tasks at any time,
`close()` may be called again and by two tasks at once, a connection may drop at any
moment.  The guards of the actions look at the tables only, as the code does, never
at `heap` or `links`.  The one variable that is not in the code is a history of
it: `orphans` collects what was open on a client or an SFTP session when that was
closed (`OpenOnClient`, `OpenOnSftp`), and the properties say that only orphans are
ever at risk.

`ByteStream.tla` is what reading a range promises: bytes delivered in order and
none left out, `finished` only if nothing of the range is left.  A byte is named by
its position in the file; the content plays no part.

`SFTPReader.tla` is `SFTPReader.Iterator.next`, hop by hop: `CallNext` (the
cancellation check), `Seek`, `BeginRead` while the queue has room, `WaitRead`.
`fileOffset` is libssh's own offset of the handle, which `sftp_aio_begin_read`
moves on and `sftp_aio_wait_read` gives back by what was not delivered.  The
server answers (`Answer`), the file shrinks (`Truncate`), the task is cancelled
(`Cancel`) at any moment, and a hop may throw (`Fail`).

`SFTPDownload.tla` EXTENDS the reader with the loop of `SFTPClient.download`:
`OpenRemote`, `CreateLocal`, then a call of `next()` (`NextBuffer`) and the write
of what it returned (`WriteLocal`) in turn.  The disk takes a buffer in any number
of parts and may fail in between (`WriteLocalFails`).  `local` is the local file:
what was there before, or the positions written.

`SharedHandle.tla` is `SFTPFile.read` and `SFTPFile.write`, by several tasks on the
handles of one file.  `handle` says who shares a handle and with it its offset.  The
server answers a read as short as it likes and stores a write in part; another
program cuts the file or lets it grow (`Resize`).

`SFTPWriter.tla` is `SFTPClient.upload` with the `SFTPWriter` it drives.  `remote`
says for each position of the remote file which byte of the local file is there.
The remote file is opened, and emptied, first.  The server stores or refuses each
request, in the order sent, at any moment.

`SSHExecute.tla` is a command on a channel.  The server sends a byte of either
stream while less than a window lies unread in libssh, and reports the exit with at
most a pipe of output still unsent.  A task's call (`Begin`) holds the actor until
it can be answered: `GetStatus` at the exit, `Read` when something is there,
`ReadEnd` at the end of the output.  `Bodies` are the calls the tasks make:
`execute(_:)` asks for the status first, other bodies are the caller's.

`RemoteTree.tla` is the server's tree with what `mkdir`, `rmdir`, `unlink` and
`opendir` report of it and leave of it.  `CreateRecursively.tla` is
`createDirectoryRecursively` by several tasks, `RemoveRecursively.tla` is
`removeDirectoryRecursively` with a stack of open directories, each call of the
server an action, and other clients at work in between: they make and remove files,
directories and links, and `linked` remembers where they made links.  A listing shows
what was there at the opening, with or without what changed since.

`SetStat.tla` is the read-modify-write of `setStat`.  A value is the name of
whoever wrote it, so that an undone change shows; `overtaken` records which fields
changed between a task's two requests.

The definitions called "Variant" in these modules are wrong versions of the
definition after them; no specification uses one.  They are the plausible bugs
that show that a property can fail.

## What the runs check

| Run | Instance | What it shows |
|---|---|---|
| `actor` | 2 SFTP sessions, 2 files, 1 directory, 2 requests on one file, 1 key, 1 channel | under any order of calls: `TrackedIsAllocated`, `RequestsBelongToOpenFiles`, `EndedForGood` |
| `client` | 2 SFTP sessions, 1 file with 2 requests on the first and 1 directory on the second, 2 `execute` calls, 1 key | with closes at any time: `NoUseAfterFree`, `CloseReleasesEverything`, `NoKeyOutlivesAuthentication`, `ExecuteAfterClose` |
| `stream` | range [1, 8) of a file of 0 to 9 bytes, buffers of 2, 3 requests in flight, handle at any offset | `InOrder`, `Complete`, that the reader implements `ByteStream` (`ReadsLikeAStream`), `Terminates` |
| `download` | file of 0 to 8 bytes, buffers of 2, 3 requests in flight | that the local file grows as a `ByteStream` (`DownloadsLikeAStream`), `DownloadIsComplete`, `DownloadTerminates` |
| `upload` | 13 bytes, caller asks for chunks of 3, server's limit 2, queue of 3 | `UploadIsComplete`, `RemoteIsAPrefix`, `ProgressIsNearlyTrue`, `Terminates` |
| `shared_handle` | 2 writers of 3 bytes in chunks of 2 on one handle or two, 2 readers of [1, 3), one of them sharing or not; one change of the size by another program | `WritersInterleave`; each reader alone on its handle implements `ByteStream` (`ReadersDoNotDisturb`); `Terminates` |
| `execute` | 0 to 4 bytes on each stream, window 2, pipe 1, reads of 2; `execute(_:)` beside another user of the actor, a body that reads first, a body that reads from two tasks; five endings | `OutputIsComplete`, `StatusTellsTheEnd`, and what ends: `EndsIfItFits`, `ExecuteEnds`, `StreamsAnyAmount` |
| `mkdirs` | 2 tasks with overlapping paths of up to 3 names over 6 trees, other clients at work | `ReturnedMeansThere`, `CreatorsAgree` |
| `removal` | 3 trees with files, directories, a link and a name that is no UTF-8; 3 changes by other clients, enough to empty a listed directory, remove it and put a link in its place, or to replace the link asked for | `TypeOK`, `OnlyNewLinksLeadAway`, `ReturnedMeansGone`, `RemovesAll`, `Terminates` |
| `set_stat` | 2 tasks of one client or two, overlapping and separate fields, another program changes 2 fields, a server that leaves the times out | `OneClientLosesNothing`, `ChangesOnlyWhatItMust` |
| `close_with_requests` | as `client` | violated: see Findings |
| `free_unset_slot` | as `client` | violated: see Findings |

**What the runs taught.**  These are behaviours of the code that hold no promise
anybody made, or that decide what can be promised:

- A close before its time leaves orphans, and the code has no check for them.  After
  `SFTPClient.close()`, `statFile`, `seekFile`, `readFile`, `writeFile`, `beginWrite`
  and `readDirectory` refuse, because they look up the session; `beginRead`,
  `waitRead`, `waitWrite`, `closeFile` and `closeDirectory` look up their own entry
  only and reach the released session, the last two also at the end of the scopes
  `withSftpFile` and `withDirectory`.  After `SSHClient.close()` every handle that
  was open reaches released channels, and a scope that ends later is such a call.
  No doc or test says who must close first, so this is no finding;
  `NoUseAfterFree` says how far it goes.
- `execute(_:)` waits for the exit status before it reads.  A command that ends may
  leave a window and a pipe of output behind, no more; beyond that it waits for a
  reader and the caller for its exit, and the call blocks the whole actor.  Even
  within that bound, standard error alone must leave room in the window, for
  standard output is read to its end first: `ExecuteEnds` has both conditions.
  A body that reads first has only the second (`StreamsAnyAmount`), until it is
  cancelled: its streams then end at once, and the exit status it asks for next may
  never come.
- A cancelled task makes `next()` return `nil`, which a loop cannot tell from the
  end of the file: `download` then returns normally with a truncated file.
  `Complete`, `DownloadIsComplete` and `ByteStream` count this as a stop.
- `upload` creates or empties the remote file before it opens the local one.
- `createDirectoryRecursively` returns normally over a regular file in the place of
  the last component, since libssh reports both as "already exists".
  `ReturnedMeansThere` promises that something is there, and directories above it.
- `removeDirectoryRecursively` over a link to a directory empties what the link
  points to and fails at the `rmdir`; over a directory with an entry whose name is
  no UTF-8 it fails; an error in a listing, which looks like its end, is caught by
  the `rmdir` that follows.  A link below it is removed as a link, but a link that
  takes the place of a directory between its listing and its `opendir` is followed,
  and what it points to is emptied: `OnlyNewLinksLeadAway` allows that and nothing
  else.  It ends only if the changes of others do.
- `setStat` undoes a change another program makes to the other time, or to the
  owner, between its two requests, and writes zero for what a server does not
  report; a time before 1970 or after 2106 traps.

**Why the bounds are enough.**  Two ids of a kind are needed only where one must
not disturb the other: two requests on a file (one waited for while the other is
freed with the file), two SFTP sessions (one half set up, one in use; one closed
early, with what is open on the other), two
`execute` calls (one before and one after `close`).  Ids are minted once, as UUIDs
are, so a run ends when they are used up; the theorems have no bound.  The
requests are interchangeable, and so are the calls of `execute`: symmetry over
them in the two safety runs (`EndedForGood` and `ExecuteAfterClose` quantify over
the permuted ids and have no liveness part).  In
`stream` three requests of two bytes and a range of seven make the queue fill,
refill and end with a request of one byte; a file of at most nine bytes puts its
end inside every request in turn, at the end of the range and behind it.
`download` always asks for more than there is, as the code does, and has room for
one buffer more.  In
`upload` thirteen bytes make the queue fill, make room more than once and end with
a short chunk.  In `shared_handle` a writer's three bytes are a whole chunk and a
part of one, so that two writers can interleave between and a failure can cut each.
In `execute` the output may stay below the window, fill it exactly, or pass it by
more than the pipe, on either stream.  The paths of `mkdirs` and `removal` are as
deep as the difference between first, middle and last component needs.
`MaxSize`, `MaxOutput`, `MaxResizes`, `MaxChanges`, `Paths` and `Changing` are the
bounds that are no parameter of the code: the file at first, the output of a
command, and what other programs do.

**Deadlock** is not checked: every one of these systems ends, when the handles are
used up, the range is read, the file sent or the command over.  Instead the loops
and the blocking calls have liveness properties.

**Fairness.**  The task's next hop is taken when it stays possible: the actor's
executor serves its queue and the caller keeps iterating.  In `SSHExecute`,
`SharedHandle` and `CreateRecursively` this is stated per task.  The server answers
what it was asked, and sends output while there is room: a server that stops
answering makes the call of libssh return an error after its timeout, which is the
`Fail` or `Throw` action.  No fairness is asked of those, of cancellation or of
what other programs do.

## What is proved

Assumptions: `IdAssumption` (the kinds of ids are disjoint and a file id carries
the id of its SFTP session, an aio id that of its file), `ReaderAssumption` and `WriterAssumption` (buffers,
limits and queue hold at least one element), `DownloadAssumption` (the whole file
is asked for: from zero, and more than there is), `HandleAssumption` (readers and
writers differ, every task has a handle, and offsets, lengths, limits and bounds are
in range), `ExecuteAssumption` (the window and a read hold at least one byte),
`CreateAssumption` and `RemoveAssumption` (the trees are trees: with a place they
have the directories above it; a path is a sequence of names; in a tree to be
removed from, no entry is called `.` or `..`) and `SetStatAssumption` (the names of
those who write attributes differ).  TLC evaluates them all in the runs.

Every safety invariant and every action property that a passing run checks is a
theorem.  What is proved about a component stands in one module with what is proved
about the component it extends.

- `SSHClientProofs.tla`, the actor: `TypeCorrect`, `AllocationMatchesTables`,
  `RequestsEndWithTheirFile`, `HandlesEndForGood`.  The types, `TrackedIsAllocated`
  and `RequestsBelongToOpenFiles` are inductive together (`Bookkeeping`): closing a
  file releases its requests, and only a tracked file gets new ones.
- `SSHClientProofs.tla`, the client: `ClientTypeCorrect`, `OnlyOrphansReachFreed`,
  `CloseReleases`, `KeysAreReleased`, `NoExecuteAfterClose`.  `NoUseAfterFree` is not
  inductive.  `ClientInv` adds to `Bookkeeping` what separates the orphans from the
  rest: the session of an orphan is dead for good (`OrphansAreDead`), because its
  parent was once handed out (`ParentsWereHeld`) and ids are minted once; a tracked
  file or directory that is no orphan rests on a live session, a channel or SFTP
  session in a caller's hands has its `ssh_channel`, and a request that is no orphan
  belongs to a file that is none (`OthersAreAlive`); and once `close` has begun all
  that is in anyone's hands is an orphan and the session is disconnected, so that
  nothing else can come to be (`ClosingLeavesOrphans`).  None of these is a guard of
  the model.  A client's step is a method of the actor or leaves it alone
  (`ClientCallsMethods`), which carries the actor's invariant over.
- `SFTPDownloadProofs.tla`, the reader: `ReaderTypeCorrect`, `ReadsInOrder`, `ReadsCompletely`,
  `ReaderImplementsStream`.  The invariant is a disjunction of two modes.
  `Streaming`: the requests in flight tile the file from the next byte to return up
  to libssh's offset, they were answered in order, and what was answered after a
  short answer is empty.  `PastTheEnd`: a short answer has been taken with others
  in flight; the offset was given back, so that the queue no longer tiles the file,
  but the oldest request starts behind the end and can only end the stream.
  `OffsetCounts` ties the offset to `count`, which is what makes the end of the
  range an end of the file or of the request.
- `SFTPDownloadProofs.tla`, the download: `DownloadsAPrefix`, `DownloadsCompletely`,
  `DownloadImplementsStream`.  A step of the download is a step of the reader or
  leaves it alone (`StepsOfReader`), which carries the reader's invariant over;
  `DownloadInv` adds that the local file is behind what was returned only while no
  call of `next()` is under way (`LocalFollows`).  That is what makes the end of the
  loop the end of the file on the disk.
- `SFTPWriterProofs.tla`: `WriterTypeCorrect`, `UploadsCompletely`,
  `RemoteStaysAPrefix`, `ProgressStaysNearlyTrue`.  The requests in flight tile the
  file from `Start` to what was counted (`Tiles`).  Below `Start` everything is
  stored unless a refusal was met (`Stored`), and the server's decisions have a
  front between the two (`Front`): behind it all is decided, ahead of it nothing,
  and without a refusal it is where the remote file ends.  `Lags` bounds how far
  the count can run ahead.  `UploadIsComplete` needs the clamp of `WriteLength`
  (`ChunkIsSent`): libssh sends no more than the server's limit, and the writer does
  not look at how much was sent.
- `SSHExecuteProofs.tla`: `ExecuteTypeCorrect`, `ReadsWholeOutput`,
  `ReportsTheEnding`.  The invariant says that no byte is lost on the way
  (`Conserved`: unsent, buffered and read make up the output) and that a stream that
  has returned uncancelled has nothing left of either.
  `FittingOutputBlocksNobody`, `ExecuteBlocksNobody` and `StreamsBlockNobody` are
  the safe parts of `EndsIfItFits`, `ExecuteEnds` and `StreamsAnyAmount`: under the
  condition of each, the call that holds the actor can be answered or the server can
  send or report the exit (`Unblocked`).  A full window (`FullWindow`) holds up
  only a call that another call would have to make room for.  `StatusFirstInv` and
  `ReadsFirstInv` say how far a task has come: nothing is read before the exit in
  the one, and standard error only after the end of the output in both.
- `SetStatProofs.tla`: `SetStatTypeCorrect`, `OneClientIsSafe`,
  `SetStatChangesLittle`.  Between its two requests a task has read what is there,
  but for what was `overtaken` (`ReadIsCurrent`), and no other task of the client is
  between its own (`Exclusive`); so what one has set the next one has seen
  (`SetIsSeen`).

- `SharedHandleProofs.tla`: `HandleTypeCorrect`, `ReadersAreIndependent`,
  `WritersDoNotOverwrite`.  A reader that is alone on its handle finds the offset
  where its last answer ended, whoever else is at work on the file (`OffsetsStay`);
  that makes each of its steps one of its `ByteStream`.  For the writers on one
  handle the invariant is the promise itself, said of the tasks in the middle of a
  write as well (`WritersInv`): what lies below the offset is made up of every
  byte that was stored, each once and each task's in order, and behind it the file
  is what it was.  `OneMoreChunk` carries it over a step: a chunk is stored at the
  offset and the offset moves by what was stored.
- `CreateRecursivelyProofs.tla`: `CreatedPathsAreThere`, `CreatorsDoNotDisturb`.
  While nothing is removed, every directory a task has gone through is there
  (`GoneThrough`).  `CreatorsDoNotDisturb` is the safe part of `CreatorsAgree`: a
  task fails only if a call failed for its own reasons, something was removed, or
  something that is no directory is in the way, never because another task created
  the same directory first.
- `RemoveRecursivelyProofs.tla`: `RemoveTypeCorrect`, `RemovesBelowOrOverNewLinks`,
  `ReturnedIsGone`.  The open directories are a way down from the path asked for
  (`FrameFits`), on which every link is a new one (`Beneath`): the entry was listed
  as a directory, so that a link in its place now was made meanwhile
  (`ListsNoLinks`).  The path asked for means what it meant at first, unless the
  link it led over is gone or it leads over a new one (`TargetMeans`).  So a path
  on the way either leads over a new link, or means what lies below one of the two.
  `LeftAloneNeverThrows` is the safe part of `RemovesAll`: while no other client
  changes anything and no call fails for its own reasons, the removal does not
  throw.  Every open directory has still to return exactly what is left in it, but
  for the entry under way (`Awaits`), so that every call finds what it was listed
  as and every `rmdir` an empty directory.  It needs that no entry of the trees is
  named by dots, which is part of `RemoveAssumption`.

`OnlyNewLinksLeadAway` names two places besides the new links, what the path asked
for meant at the beginning and the path itself.  The second came out of the proof:
if the path is a link and another client puts a directory in its place between two
calls, the rest of the removal goes on in that directory.

Model-checked only is liveness, which is out of the prover's reach: `Terminates` of
four modules, `DownloadTerminates`, `EndsIfItFits`, `ExecuteEnds`,
`StreamsAnyAmount`, `RemovesAll`, and that the tasks of `CreatorsAgree` end.  The
safe parts of the last five are theorems of their own, as said above.

## Findings

- `close_with_requests`: `closeFile` calls `sftp_close` on a file whose requests
  nobody has waited for (a stream that was left early, a second task about to
  wait), and frees the requests only afterwards.  libssh's `sftp.h` asks the caller
  to close a file only after the corresponding waits.
- `free_unset_slot`: `beginRead` and `beginWrite` put a freshly allocated slot into
  the table before the library call that fills it.  When that call fails the slot
  remains, unwritten, and `closeFile` hands its content to `sftp_aio_free`, which
  the header defines for the handles that `sftp_aio_begin_*` returned.

## What is assumed

- The pipelined reader is modelled for a server that answers in full up to the end
  of the file, and a file that does not grow while requests are in flight; with
  either, the answer after a gap would be returned as if it followed.  No other task
  moves the offset of the handle during a stream or an upload.  The plain `read` of
  `SharedHandle.tla` needs neither of the first two, and shows what sharing a handle
  costs.
- The limits of the server are positive.  With a limit of zero `write` would stride
  by zero, which traps, and `read` return nothing.
- A server that has many requests on one file in hand decides on them in the order
  sent.
- All symbolic links of `RemoteTree` point to one place, and the links made during a
  removal lie outside of it: a path leads over one link at most, and chains and
  loops of links, which the server resolves, are left out.
- A session abandoned because connecting or authenticating failed is never freed
  (`phase = "abandoned"`); nothing promises otherwise, so nothing is claimed.

## Not modelled

- **The mapping of errors.**  An error is an outcome, not a value.  `throwError`
  reads what libssh left in the error fields of the session or SFTP session; whether
  that is the error of this call or of an earlier one is decided in the binary, and
  the headers promise it for some calls only.  A model of it would be an assumption
  about libssh, not a statement about this code.  Only what
  `createDirectoryRecursively` tells apart is there.
- **Single requests without state**: `move`, `symlinkTarget`, `createSymlink`,
  `attributes`.  The actor's part in them is a lookup (`UseSftp`); the rest is a
  call of libssh.
- **Options set before connecting**, which are stored in libssh, and the **copies of
  attributes** field by field.
- **The command line tool**, argument parsing and progress over the library; its
  speedometer is arithmetic on one task's counters.
- **libssh itself** beyond what the calls this code makes promise their caller.  The
  headers declare a great deal that nothing under `Sources/SwiftLibSSH` calls
  (servers, callbacks, forwarding, the legacy interface): there is no behaviour of
  this program behind those lines.

With these the modules reach what this code decides by itself.  A next step would be
a composition of the client's scopes with `SSHExecute`, to ask which of its blocking
calls `close()` can be waiting behind, and theorems for the safe parts of the
`Terminates` properties: that no task is left without a step, as there are for the
liveness of `SSHExecute`, of the removal and of `CreatorsAgree`.
