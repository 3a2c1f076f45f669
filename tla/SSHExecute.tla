----------------------------- MODULE SSHExecute -----------------------------
(***************************************************************************)
(* SSHClient.execute: a command on a channel, and the calls that ask for   *)
(* its exit status and read its two output streams.  Each call is one hop  *)
(* to the actor and blocks in libssh until it can be answered; the actor   *)
(* serves nobody meanwhile.  The server sends output only while what lies  *)
(* unread in libssh is less than the channel's window, whichever of the    *)
(* two streams the unread bytes belong to.                                 *)
(*                                                                         *)
(* execute(_:) makes its calls in one task, the status first.  The body    *)
(* given to execute(_:perform:) is the caller's: it may make them in any   *)
(* order and from several tasks.  A task that uses the actor for something *)
(* else makes a call "other".                                              *)
(***************************************************************************)
EXTENDS Integers, Sequences

CONSTANTS
  Tasks,
  Bodies,       \* what the tasks may have to do: a set of functions from Tasks
  Endings,      \* how a command may end, as libssh reports it: [code, signal]
  NoSignal,
  MaxOutput,    \* bound: the bytes a command writes to a stream
  Window,       \* bytes the server may send ahead of the reader
  PipeSize,     \* bytes of a stream that wait at the server when a command ends
  ReadLength,   \* what stream(from:length:) asks for at a time
  Nobody

Streams == {"stdout", "stderr"}
Calls == Streams \cup {"status", "other"}

ASSUME ExecuteAssumption ==
  /\ Bodies \subseteq [Tasks -> Seq(Calls)]
  /\ \A e \in Endings : e.code \in Int
  /\ MaxOutput \in Nat /\ PipeSize \in Nat
  /\ Window \in Nat \ {0} /\ ReadLength \in Nat \ {0}
  /\ Nobody \notin Tasks

VARIABLES
  output,     \* output[s]: the bytes the command writes to s in all
  ending,     \* how the command ends
  body,       \* what the tasks set out to do
  unsent,     \* unsent[s]: bytes of s that have not left the server
  buffered,   \* buffered[s]: bytes of s that libssh has and nobody has read
  ended,      \* the exit status has arrived
  todo,       \* todo[t]: the calls of t that have not returned
  holder,     \* the task whose call occupies the actor
  cancelled,  \* Task.isCancelled, of all tasks of the body
  got,        \* got[s]: bytes of s the readers were given
  returned,   \* the calls that returned normally
  failed,     \* tasks whose call threw
  status,     \* the SSHExitStatus returned
  trapped     \* the process is gone: a conversion did not fit

remote == <<output, ending, body, unsent, ended>>
vars == <<remote, buffered, todo, holder, cancelled, got, returned, failed, status, trapped>>

Nil == -2      \* Swift's nil
Lesser(m, n) == IF m < n THEN m ELSE n
Total(f) == f["stdout"] + f["stderr"]

Init ==
  /\ output \in [Streams -> 0 .. MaxOutput] /\ ending \in Endings /\ body \in Bodies
  /\ unsent = output /\ buffered = [s \in Streams |-> 0] /\ ended = FALSE
  /\ todo = body /\ holder = Nobody /\ cancelled = FALSE
  /\ got = [s \in Streams |-> 0] /\ returned = {} /\ failed = {}
  /\ status = [code |-> Nil, signal |-> NoSignal] /\ trapped = FALSE

-----------------------------------------------------------------------------
(* The server: sends while there is room in the window; reports the exit    *)
(* when the command has ended, with at most a pipe of output behind.  The   *)
(* end of the output follows its last byte.                                 *)

Send(s) ==
  /\ unsent[s] > 0 /\ Total(buffered) < Window
  /\ unsent' = [unsent EXCEPT ![s] = @ - 1]
  /\ buffered' = [buffered EXCEPT ![s] = @ + 1]
  /\ UNCHANGED <<output, ending, body, ended>>
  /\ UNCHANGED <<todo, holder, cancelled, got, returned, failed, status, trapped>>

Exit ==
  /\ ~ended /\ \A s \in Streams : unsent[s] <= PipeSize
  /\ ended' = TRUE
  /\ UNCHANGED <<output, ending, body, unsent>>
  /\ UNCHANGED <<buffered, todo, holder, cancelled, got, returned, failed, status, trapped>>

Eof == ended /\ Total(unsent) = 0

-----------------------------------------------------------------------------
(* Hops of the tasks *)

(* Call c of task t returns. *)
Return(t, c) ==
  /\ todo' = [todo EXCEPT ![t] = Tail(@)]
  /\ returned' = returned \cup {c}

(* A task's next call gets the actor.  A cancelled task's stream ends without it. *)
Begin(t) ==
  /\ holder = Nobody /\ todo[t] # <<>>
  /\ ~(cancelled /\ Head(todo[t]) \in Streams)
  /\ holder' = t
  /\ UNCHANGED <<remote, buffered, todo, cancelled, got, returned, failed, status, trapped>>

EndCancelled(t) ==
  /\ holder # t /\ todo[t] # <<>> /\ cancelled /\ Head(todo[t]) \in Streams
  /\ Return(t, Head(todo[t]))
  /\ UNCHANGED <<remote, buffered, holder, cancelled, got, failed, status, trapped>>

(* SSHExitStatus.from: -1 is no code, any other must fit eight bits *)

(* Variant: a killed command's status is converted like any other. *)
FitsConverted(code) == code \in 0 .. 255

Fits(code) == code \in {-1} \cup 0 .. 255

From(e) == [code |-> IF e.code = -1 THEN Nil ELSE e.code, signal |-> e.signal]

(* Variant: the status is waited for until the output has ended as well. *)
GetStatusAfterEof(t) ==
  /\ holder = t /\ Head(todo[t]) = "status" /\ Eof
  /\ IF Fits(ending.code)
     THEN Return(t, "status") /\ status' = From(ending) /\ UNCHANGED trapped
     ELSE trapped' = TRUE /\ UNCHANGED <<todo, returned, status>>
  /\ holder' = Nobody
  /\ UNCHANGED <<remote, buffered, cancelled, got, failed>>

(* Variant: only a command that exits by itself has a status. *)
GetStatusOfExit(t) ==
  /\ holder = t /\ Head(todo[t]) = "status" /\ ended
  /\ ending.signal = NoSignal /\ Fits(ending.code)
  /\ Return(t, "status") /\ status' = From(ending)
  /\ holder' = Nobody
  /\ UNCHANGED <<remote, buffered, cancelled, got, failed, trapped>>

(* Variant: the actor is not given back. *)
GetStatusHolding(t) ==
  /\ holder = t /\ Head(todo[t]) = "status" /\ ended
  /\ Return(t, "status") /\ status' = From(ending)
  /\ UNCHANGED <<remote, buffered, holder, cancelled, got, failed, trapped>>

(* session.exitState *)
GetStatus(t) ==
  /\ holder = t /\ Head(todo[t]) = "status" /\ ended
  /\ IF Fits(ending.code)
     THEN Return(t, "status") /\ status' = From(ending) /\ UNCHANGED trapped
     ELSE trapped' = TRUE /\ UNCHANGED <<todo, returned, status>>
  /\ holder' = Nobody
  /\ UNCHANGED <<remote, buffered, cancelled, got, failed>>

(* Variant: an empty buffer is taken for the end. *)
ReadEndEarly(t) ==
  /\ holder = t /\ Head(todo[t]) \in Streams
  /\ buffered[Head(todo[t])] = 0 /\ ended
  /\ Return(t, Head(todo[t])) /\ holder' = Nobody
  /\ UNCHANGED <<remote, buffered, cancelled, got, failed, status, trapped>>

(* session.readChannel, ssh_channel_read returning nothing: the stream ends *)
ReadEnd(t) ==
  /\ holder = t /\ Head(todo[t]) \in Streams
  /\ buffered[Head(todo[t])] = 0 /\ Eof
  /\ Return(t, Head(todo[t])) /\ holder' = Nobody
  /\ UNCHANGED <<remote, buffered, cancelled, got, failed, status, trapped>>

(* Variant: what is read does not make room in the window. *)
ReadKeepingWindow(t) ==
  /\ holder = t /\ Head(todo[t]) \in Streams
  /\ LET s == Head(todo[t])
         n == Lesser(ReadLength, buffered[s] - got[s]) IN
       /\ n > 0
       /\ got' = [got EXCEPT ![s] = @ + n]
  /\ holder' = Nobody
  /\ UNCHANGED <<remote, buffered, todo, cancelled, returned, failed, status, trapped>>

(* session.readChannel: what is there of the stream, up to the length asked *)
Read(t) ==
  /\ holder = t /\ Head(todo[t]) \in Streams
  /\ LET s == Head(todo[t])
         n == Lesser(ReadLength, buffered[s]) IN
       /\ n > 0
       /\ buffered' = [buffered EXCEPT ![s] = @ - n]
       /\ got' = [got EXCEPT ![s] = @ + n]
  /\ holder' = Nobody
  /\ UNCHANGED <<remote, todo, cancelled, returned, failed, status, trapped>>

(* Another method of the actor, which does not depend on the command *)
Other(t) ==
  /\ holder = t /\ Head(todo[t]) = "other"
  /\ Return(t, "other") /\ holder' = Nobody
  /\ UNCHANGED <<remote, buffered, cancelled, got, failed, status, trapped>>

(* A call may throw, and a request to execute be refused; the task ends. *)
Fail(t) ==
  /\ holder = t
  /\ failed' = failed \cup {t} /\ todo' = [todo EXCEPT ![t] = <<>>]
  /\ holder' = Nobody
  /\ UNCHANGED <<remote, buffered, cancelled, got, returned, status, trapped>>

Cancel ==
  /\ ~cancelled /\ cancelled' = TRUE
  /\ UNCHANGED <<remote, buffered, todo, holder, got, returned, failed, status, trapped>>

Hop(t) == Begin(t) \/ EndCancelled(t) \/ GetStatus(t) \/ Read(t) \/ ReadEnd(t) \/ Other(t)

Serve == Exit \/ \E s \in Streams : Send(s)

Next ==
  /\ ~trapped
  /\ \/ Serve \/ Cancel
     \/ \E t \in Tasks : Hop(t) \/ Fail(t)

(* The command ends and the server sends what there is room for; a task's   *)
(* next call gets the actor when the actor stays free.  Nothing has to fail *)
(* or to be cancelled.                                                      *)
Spec ==
  /\ Init /\ [][Next]_vars
  /\ WF_vars(~trapped /\ Serve)
  /\ \A t \in Tasks : WF_vars(~trapped /\ Hop(t))

-----------------------------------------------------------------------------

(* The window is never overrun.                                              *)
TypeOK ==
  /\ output \in [Streams -> Nat] /\ ending \in Endings /\ body \in Bodies
  /\ unsent \in [Streams -> Nat]
  /\ buffered \in [Streams -> Nat] /\ Total(buffered) <= Window
  /\ got \in [Streams -> Nat]
  /\ ended \in BOOLEAN /\ cancelled \in BOOLEAN /\ trapped \in BOOLEAN
  /\ todo \in [Tasks -> Seq(Calls)] /\ holder \in Tasks \cup {Nobody}
  /\ holder # Nobody => todo[holder] # <<>>
  /\ returned \subseteq Calls /\ failed \subseteq Tasks

(* A stream that was read to its end without a cancellation was read whole,  *)
(* however many tasks share it and whatever the exit status came before.     *)
OutputIsComplete ==
  ~cancelled => \A s \in returned \cap Streams : got[s] = output[s]

(* How a command can end: with eight bits, or killed, which libssh reports   *)
(* as the code -1 beside the signal.                                         *)
Legal(e) == IF e.signal = NoSignal THEN e.code \in 0 .. 255 ELSE e.code = -1

(* The status a caller gets is the end of the command, whatever else the     *)
(* tasks did meanwhile: the eight bits it exited with, 255 included, or no   *)
(* code and the signal that killed it; and neither makes the conversion to   *)
(* UInt8 trap.                                                               *)
StatusTellsTheEnd ==
  Legal(ending) =>
    /\ ~trapped
    /\ "status" \in returned =>
         status = IF ending.signal = NoSignal
                  THEN [code |-> ending.code, signal |-> NoSignal]
                  ELSE [code |-> Nil, signal |-> ending.signal]

Finished == trapped \/ \A t \in Tasks : todo[t] = <<>>

(* Output that fits the window blocks nobody: whatever the order of the      *)
(* calls, and however many tasks make them, all return, those of tasks that  *)
(* have nothing to do with the command included.                             *)
EndsIfItFits == Total(output) <= Window => <>Finished

(* execute(_:) itself gets a pipe further, but only while the stream it      *)
(* reads last leaves room in the window for the one it reads first.          *)
StatusFirst == <<"status", "stdout", "stderr">>

ExecuteEnds ==
  ((\A t \in Tasks : body[t] \in {<<"other">>, StatusFirst})
   /\ Total(output) <= Window + PipeSize /\ output["stderr"] < Window) => <>Finished

(* Reading first puts no limit on the stream that is read first, unless the  *)
(* task is cancelled: then the streams end at once, and the status of a      *)
(* command whose output nobody reads may never come.                         *)
StreamsAnyAmount ==
  ((\A t \in Tasks : body[t] \in {<<"other">>, <<"stdout", "stderr", "status">>})
   /\ output["stderr"] < Window) => <>(Finished \/ cancelled)
=============================================================================
