--------------------------- MODULE SSHExecuteProofs --------------------------
(* What a command wrote is delivered whole and its end reported as it was,  *)
(* for every output, window and set of bodies, and no call that holds the   *)
(* actor waits for one that waits for the actor.                            *)
EXTENDS SSHExecute, TLAPS

-----------------------------------------------------------------------------
(* The inductive invariant: a byte the command writes is at the server, in  *)
(* libssh, or delivered; a stream was read to its end only when nothing was *)
(* left at the server, for either stream.                                   *)
Conserved == \A s \in Streams : unsent[s] + buffered[s] + got[s] = output[s]

EndIsTheEnd ==
  ~cancelled => \A s \in returned \cap Streams : Eof /\ buffered[s] = 0

StatusIsTheEnding ==
  /\ trapped => ~Fits(ending.code)
  /\ "status" \in returned => Fits(ending.code) /\ status = From(ending)

ExecuteInv == TypeOK /\ Conserved /\ EndIsTheEnd /\ StatusIsTheEnding

(* The next call a task makes is one of the calls, and what it has left to  *)
(* do when that returns is a sequence of calls.                             *)
LEMMA CallsShape ==
  ASSUME NEW q \in Seq(Calls), q # <<>>
  PROVE  Head(q) \in Calls /\ Tail(q) \in Seq(Calls)
  OBVIOUS

(* A call that returns leaves the tasks well formed.                        *)
LEMMA ReturnTyped ==
  ASSUME TypeOK, NEW t \in Tasks, todo[t] # <<>>, Return(t, Head(todo[t]))
  PROVE  todo' \in [Tasks -> Seq(Calls)] /\ returned' \subseteq Calls
<1>1. Head(todo[t]) \in Calls /\ Tail(todo[t]) \in Seq(Calls)
  BY CallsShape DEF TypeOK
<1> QED
  BY <1>1 DEF TypeOK, Return

LEMMA Bounds == Window \in Nat \ {0} /\ PipeSize \in Nat /\ Nobody \notin Tasks
  BY ExecuteAssumption

(* The amounts are numbers.                                                 *)
LEMMA Amounts ==
  ASSUME TypeOK
  PROVE  \A s \in Streams : /\ unsent[s] \in Nat /\ buffered[s] \in Nat
                            /\ got[s] \in Nat /\ output[s] \in Nat
  BY DEF TypeOK

(* A byte sent takes its place in the window.                               *)
LEMMA SendKeeps ==
  ASSUME ExecuteInv, NEW s \in Streams, Send(s)
  PROVE  ExecuteInv'
<1>1. /\ \A r \in Streams : /\ unsent[r] \in Nat /\ buffered[r] \in Nat
                            /\ got[r] \in Nat /\ output[r] \in Nat
      /\ unsent[s] > 0 /\ Total(buffered) < Window
  BY Amounts DEF ExecuteInv, Send
<1>2. /\ unsent' \in [Streams -> Nat] /\ buffered' \in [Streams -> Nat]
      /\ unsent'[s] = unsent[s] - 1 /\ buffered'[s] = buffered[s] + 1
      /\ \A r \in Streams \ {s} : unsent'[r] = unsent[r] /\ buffered'[r] = buffered[r]
  BY <1>1 DEF Send, ExecuteInv, TypeOK
<1>3. Total(buffered') <= Window
  <2>1. Total(buffered') = Total(buffered) + 1
    BY <1>1, <1>2 DEF Total, Streams
  <2> QED
    BY <1>1, <2>1, ExecuteAssumption DEF Total, Streams
<1>0. <<output, ending, body, ended, todo, holder, cancelled, got, returned, failed, status, trapped>>'
      = <<output, ending, body, ended, todo, holder, cancelled, got, returned, failed, status, trapped>>
  BY DEF Send
<1>4. TypeOK'
  BY <1>0, <1>2, <1>3 DEF ExecuteInv, TypeOK
<1>5. Conserved'
  <2> SUFFICES ASSUME NEW r \in Streams
               PROVE  unsent'[r] + buffered'[r] + got'[r] = output'[r]
    BY DEF Conserved
  <2>1. unsent[r] + buffered[r] + got[r] = output[r] /\ got' = got /\ output' = output
    BY <1>0 DEF ExecuteInv, Conserved
  <2>2. CASE r = s
    BY <1>1, <1>2, <2>1, <2>2
  <2>3. CASE r # s
    BY <1>2, <2>1, <2>3
  <2> QED
    BY <2>2, <2>3
<1>6. ~cancelled => returned \cap Streams = {}
  BY <1>1 DEF ExecuteInv, EndIsTheEnd, Eof, Total, Streams
<1>7. EndIsTheEnd' /\ StatusIsTheEnding'
  BY <1>0, <1>6 DEF ExecuteInv, EndIsTheEnd, StatusIsTheEnding, Fits, From
<1> QED
  BY <1>4, <1>5, <1>7 DEF ExecuteInv

(* The steps that move no byte and return no call.                          *)
LEMMA QuietKeeps ==
  ASSUME ExecuteInv,
         Exit \/ Cancel \/ (\E t \in Tasks : Begin(t) \/ Fail(t))
  PROVE  ExecuteInv'
<1>1. <<output, ending, body, unsent, buffered, got, returned, status, trapped>>'
      = <<output, ending, body, unsent, buffered, got, returned, status, trapped>>
  BY DEF Exit, Cancel, Begin, Fail, remote
<1>2. Conserved' /\ StatusIsTheEnding'
  BY <1>1 DEF ExecuteInv, Conserved, StatusIsTheEnding, Fits, From
<1>3. EndIsTheEnd'
  BY <1>1 DEF ExecuteInv, EndIsTheEnd, Eof, Total, Exit, Cancel, Begin, Fail, remote
<1>4. TypeOK'
  <2>1. CASE Exit \/ Cancel
    BY <1>1, <2>1 DEF ExecuteInv, TypeOK, Exit, Cancel, remote
  <2>2. ASSUME NEW t \in Tasks, Begin(t) PROVE TypeOK'
    BY <2>2 DEF ExecuteInv, TypeOK, Begin, remote
  <2>3. ASSUME NEW t \in Tasks, Fail(t) PROVE TypeOK'
    <3>1. todo' \in [Tasks -> Seq(Calls)] /\ failed' \subseteq Tasks
      BY <2>3 DEF ExecuteInv, TypeOK, Fail
    <3> QED
      BY <1>1, <2>3, <3>1, ExecuteAssumption DEF ExecuteInv, TypeOK, Fail, remote
  <2> QED
    BY <2>1, <2>2, <2>3
<1> QED
  BY <1>2, <1>3, <1>4 DEF ExecuteInv

(* A read takes bytes out of the window and hands them on.                  *)
LEMMA ReadKeeps ==
  ASSUME ExecuteInv, NEW t \in Tasks, Read(t)
  PROVE  ExecuteInv'
<1> DEFINE s == Head(todo[t])
           n == Lesser(ReadLength, buffered[s])
<1>1. /\ s \in Streams
      /\ \A r \in Streams : /\ unsent[r] \in Nat /\ buffered[r] \in Nat
                            /\ got[r] \in Nat /\ output[r] \in Nat
  BY Amounts DEF ExecuteInv, Read
<1>2. n \in Nat /\ n > 0 /\ n <= buffered[s]
  BY <1>1, ExecuteAssumption DEF Read, Lesser
<1>3. /\ buffered' = [buffered EXCEPT ![s] = @ - n] /\ got' = [got EXCEPT ![s] = @ + n]
      /\ holder' = Nobody
      /\ <<output, ending, body, unsent, ended, todo, cancelled, returned, failed, status, trapped>>'
         = <<output, ending, body, unsent, ended, todo, cancelled, returned, failed, status, trapped>>
  BY DEF Read, remote
<1> HIDE DEF s, n
<1>4. /\ buffered' \in [Streams -> Nat] /\ got' \in [Streams -> Nat]
      /\ buffered'[s] = buffered[s] - n /\ got'[s] = got[s] + n
      /\ \A r \in Streams \ {s} : buffered'[r] = buffered[r] /\ got'[r] = got[r]
  BY <1>1, <1>2, <1>3 DEF ExecuteInv, TypeOK
<1>5. Total(buffered') <= Window
  <2>1. Total(buffered') <= Total(buffered)
    BY <1>1, <1>2, <1>4 DEF Total, Streams
  <2>2. Total(buffered) \in Nat /\ Total(buffered') \in Nat /\ Window \in Nat
    <3>1. /\ buffered["stdout"] \in Nat /\ buffered["stderr"] \in Nat
          /\ buffered'["stdout"] \in Nat /\ buffered'["stderr"] \in Nat
      BY <1>1, <1>4 DEF Streams
    <3>2. /\ buffered["stdout"] + buffered["stderr"] \in Nat
          /\ buffered'["stdout"] + buffered'["stderr"] \in Nat
      BY <3>1
    <3> QED
      BY <3>2, Bounds DEF Total
  <2>3. Total(buffered) <= Window
    BY DEF ExecuteInv, TypeOK
  <2> QED
    BY <2>1, <2>2, <2>3
<1>6. TypeOK'
  BY <1>3, <1>4, <1>5, ExecuteAssumption DEF ExecuteInv, TypeOK
<1>7. Conserved'
  BY <1>1, <1>2, <1>3, <1>4 DEF ExecuteInv, Conserved
<1>8. EndIsTheEnd'
  <2>1. ~cancelled => s \notin returned
    BY <1>1, <1>2 DEF ExecuteInv, EndIsTheEnd
  <2>2. Eof' <=> Eof
    BY <1>3 DEF Eof, Total
  <2> QED
    BY <1>3, <1>4, <2>1, <2>2 DEF ExecuteInv, EndIsTheEnd
<1> QED
  BY <1>3, <1>6, <1>7, <1>8 DEF ExecuteInv, StatusIsTheEnding, Fits, From

(* A call that returns for the end of its stream, a cancellation, or        *)
(* another method of the actor.                                             *)
LEMMA ReturnsKeep ==
  ASSUME ExecuteInv, NEW t \in Tasks, EndCancelled(t) \/ ReadEnd(t) \/ Other(t)
  PROVE  ExecuteInv'
<1> DEFINE c == Head(todo[t])
<1>1. todo[t] # <<>> /\ Return(t, c) /\ c \in Streams \cup {"other"} /\ holder' \in {holder, Nobody}
  BY ExecuteAssumption DEF ExecuteInv, TypeOK, EndCancelled, ReadEnd, Other
<1>2. <<output, ending, body, unsent, ended, buffered, cancelled, got, failed, status, trapped>>'
      = <<output, ending, body, unsent, ended, buffered, cancelled, got, failed, status, trapped>>
  BY DEF EndCancelled, ReadEnd, Other, remote
<1>3. todo' \in [Tasks -> Seq(Calls)] /\ returned' \subseteq Calls
  BY <1>1, ReturnTyped DEF ExecuteInv
<1>4. TypeOK'
  <2>1. holder' # Nobody => todo'[holder'] # <<>>
    <3>1. CASE EndCancelled(t)
      BY <3>1 DEF EndCancelled, Return, ExecuteInv, TypeOK
    <3>2. CASE ReadEnd(t) \/ Other(t)
      BY <3>2 DEF ReadEnd, Other
    <3> QED
      BY <3>1, <3>2
  <2> QED
    BY <1>1, <1>2, <1>3, <2>1 DEF ExecuteInv, TypeOK
<1>5. returned' = returned \cup {c} /\ "status" \notin {c}
  BY <1>1 DEF Return, Streams
<1>6. EndIsTheEnd'
  <2>1. Eof' <=> Eof
    BY <1>2 DEF Eof, Total
  <2>2. ~cancelled /\ c \in Streams => Eof /\ buffered[c] = 0
    BY DEF EndCancelled, ReadEnd, Other, Streams
  <2> QED
    BY <1>2, <1>5, <2>1, <2>2 DEF ExecuteInv, EndIsTheEnd
<1> QED
  BY <1>2, <1>4, <1>5, <1>6
     DEF ExecuteInv, Conserved, StatusIsTheEnding, Fits, From

(* The exit status is converted, or the conversion traps.                   *)
LEMMA GetStatusKeeps ==
  ASSUME ExecuteInv, NEW t \in Tasks, GetStatus(t)
  PROVE  ExecuteInv'
<1>1. <<output, ending, body, unsent, ended, buffered, cancelled, got, failed>>'
      = <<output, ending, body, unsent, ended, buffered, cancelled, got, failed>>
  BY DEF GetStatus, remote
<1>2. todo[t] # <<>> /\ Head(todo[t]) = "status" /\ holder' = Nobody
  BY ExecuteAssumption DEF GetStatus, ExecuteInv, TypeOK
<1>3. Eof' <=> Eof
  BY <1>1 DEF Eof, Total
<1>4. CASE Fits(ending.code)
  <2>1. Return(t, "status") /\ status' = From(ending) /\ trapped' = trapped
    BY <1>4 DEF GetStatus
  <2>2. todo' \in [Tasks -> Seq(Calls)] /\ returned' \subseteq Calls
    BY <1>2, <2>1, ReturnTyped DEF ExecuteInv
  <2>3. returned' = returned \cup {"status"} /\ "status" \notin Streams
    BY <2>1 DEF Return, Streams
  <2> QED
    BY <1>1, <1>2, <1>3, <1>4, <2>1, <2>2, <2>3
       DEF ExecuteInv, TypeOK, Conserved, EndIsTheEnd, StatusIsTheEnding, Fits, From
<1>5. CASE ~Fits(ending.code)
  <2>1. trapped' = TRUE /\ todo' = todo /\ returned' = returned /\ status' = status
    BY <1>5 DEF GetStatus
  <2>2. TypeOK' /\ Conserved' /\ EndIsTheEnd'
    BY <1>1, <1>2, <1>3, <2>1 DEF ExecuteInv, TypeOK, Conserved, EndIsTheEnd, Total
  <2>3. StatusIsTheEnding'
    <3>1. Fits(ending'.code) <=> Fits(ending.code)
      BY <1>1
    <3>2. "status" \notin returned'
      BY <1>5, <2>1 DEF ExecuteInv, StatusIsTheEnding
    <3> QED
      BY <1>5, <2>1, <3>1, <3>2 DEF StatusIsTheEnding
  <2> QED
    BY <2>2, <2>3 DEF ExecuteInv
<1> QED
  BY <1>4, <1>5

(* Every behaviour keeps the invariant.                                     *)
LEMMA Invariance == Spec => []ExecuteInv
<1>1. Init => ExecuteInv
  <2> SUFFICES ASSUME Init PROVE ExecuteInv
    OBVIOUS
  <2>1. /\ output \in [Streams -> Nat] /\ unsent \in [Streams -> Nat]
        /\ buffered \in [Streams -> Nat] /\ got \in [Streams -> Nat]
    BY DEF Init
  <2>2. Total(buffered) <= Window
    BY ExecuteAssumption DEF Init, Total, Streams
  <2>3. TypeOK
    BY <2>1, <2>2, ExecuteAssumption DEF Init, TypeOK
  <2> QED
    BY <2>1, <2>3 DEF Init, ExecuteInv, Conserved, EndIsTheEnd, StatusIsTheEnding
<1>2. ExecuteInv /\ [Next]_vars => ExecuteInv'
  <2> SUFFICES ASSUME ExecuteInv, [Next]_vars PROVE ExecuteInv'
    OBVIOUS
  <2>1. CASE Next
    BY <2>1, SendKeeps, QuietKeeps, ReadKeeps, ReturnsKeep, GetStatusKeeps DEF Next, Serve, Hop
  <2>2. CASE UNCHANGED vars
    <3>1. /\ output' = output /\ ending' = ending /\ body' = body /\ unsent' = unsent
          /\ buffered' = buffered /\ ended' = ended /\ todo' = todo /\ holder' = holder
          /\ cancelled' = cancelled /\ got' = got /\ returned' = returned
          /\ failed' = failed /\ status' = status /\ trapped' = trapped
      BY <2>2 DEF vars, remote
    <3>2. TypeOK' /\ Conserved'
      BY <3>1 DEF ExecuteInv, TypeOK, Conserved, Total
    <3>3. EndIsTheEnd' /\ StatusIsTheEnding'
      BY <3>1 DEF ExecuteInv, EndIsTheEnd, Eof, Total, StatusIsTheEnding, Fits, From
    <3> QED
      BY <3>2, <3>3 DEF ExecuteInv
  <2> QED
    BY <2>1, <2>2
<1> QED
  BY <1>1, <1>2, PTL DEF Spec

-----------------------------------------------------------------------------

(* The state is well typed and the window never overrun.                    *)
THEOREM ExecuteTypeCorrect == Spec => []TypeOK
<1>1. ExecuteInv => TypeOK
  BY DEF ExecuteInv
<1> QED
  BY <1>1, Invariance, PTL

(* A stream read to its end without a cancellation was read whole.          *)
THEOREM ReadsWholeOutput == Spec => []OutputIsComplete
<1>1. ExecuteInv => OutputIsComplete
  <2> SUFFICES ASSUME ExecuteInv, ~cancelled, NEW s \in returned \cap Streams
               PROVE  got[s] = output[s]
    BY DEF OutputIsComplete
  <2>1. \A r \in Streams : unsent[r] \in Nat /\ got[r] \in Nat /\ output[r] \in Nat
    BY Amounts DEF ExecuteInv
  <2>2. Total(unsent) = 0 /\ buffered[s] = 0
    BY DEF ExecuteInv, EndIsTheEnd, Eof
  <2>3. unsent[s] = 0
    BY <2>1, <2>2 DEF Total, Streams
  <2>4. unsent[s] + buffered[s] + got[s] = output[s]
    BY DEF ExecuteInv, Conserved
  <2> QED
    BY <2>1, <2>2, <2>3, <2>4
<1> QED
  BY <1>1, Invariance, PTL

(* The status a caller gets has the code the command exited with, or no     *)
(* code and the signal that killed it; and neither eight bits nor a signal  *)
(* make the conversion trap.                                                *)
THEOREM ReportsTheEnding == Spec => []StatusTellsTheEnd
<1>1. ExecuteInv => StatusTellsTheEnd
  <2> DEFINE told == IF ending.signal = NoSignal
                     THEN [code |-> ending.code, signal |-> NoSignal]
                     ELSE [code |-> Nil, signal |-> ending.signal]
  <2> SUFFICES ASSUME ExecuteInv, Legal(ending)
               PROVE  ~trapped /\ ("status" \in returned => status = told)
    BY DEF StatusTellsTheEnd
  <2>1. Fits(ending.code)
    BY DEF Legal, Fits
  <2>2. "status" \in returned => status = From(ending)
    BY DEF ExecuteInv, StatusIsTheEnding
  <2>3. From(ending) = told
    \* a code of eight bits is never the -1 that stands for none
    BY DEF From, Legal
  <2> QED
    BY <2>1, <2>2, <2>3 DEF ExecuteInv, StatusIsTheEnding
<1> QED
  BY <1>1, Invariance, PTL

-----------------------------------------------------------------------------
(* Who holds the actor is not stuck: its call can be answered, or else the  *)
(* server can send or report the exit.  What cannot wait for ever in the    *)
(* properties about ending rests on this.                                   *)

Answerable(c) ==
  \/ c = "other"
  \/ c = "status" /\ ended
  \/ c \in Streams /\ (buffered[c] > 0 \/ Eof)

ServerCanMove ==
  \/ \E s \in Streams : unsent[s] > 0 /\ Total(buffered) < Window
  \/ ~ended /\ \A s \in Streams : unsent[s] <= PipeSize

Unblocked == holder # Nobody => Answerable(Head(todo[holder])) \/ ServerCanMove

(* What a full window says of the bytes that are not in it.                 *)
LEMMA FullWindow ==
  ASSUME ExecuteInv, ~(Total(buffered) < Window)
  PROVE  /\ Total(output) <= Window => unsent["stdout"] = 0 /\ unsent["stderr"] = 0
         /\ Total(output) <= Window + PipeSize /\ got["stdout"] = 0 /\ got["stderr"] = 0
              => unsent["stdout"] <= PipeSize /\ unsent["stderr"] <= PipeSize
         /\ output["stderr"] < Window => buffered["stdout"] > 0
<1>1. "stdout" \in Streams /\ "stderr" \in Streams
  BY DEF Streams
<1>2. \A s \in Streams : /\ unsent[s] \in Nat /\ buffered[s] \in Nat
                         /\ got[s] \in Nat /\ output[s] \in Nat
                         /\ unsent[s] + buffered[s] + got[s] = output[s]
  BY Amounts DEF ExecuteInv, Conserved
<1>3. Total(buffered) <= Window
  BY DEF ExecuteInv, TypeOK
<1>4. PICK u1 \in Nat, u2 \in Nat, b1 \in Nat, b2 \in Nat, g1 \in Nat, g2 \in Nat :
        /\ u1 = unsent["stdout"] /\ u2 = unsent["stderr"]
        /\ b1 = buffered["stdout"] /\ b2 = buffered["stderr"]
        /\ g1 = got["stdout"] /\ g2 = got["stderr"]
  BY <1>1, <1>2
<1>5. output["stdout"] = u1 + b1 + g1 /\ output["stderr"] = u2 + b2 + g2
  BY <1>1, <1>2, <1>4
<1>6. b1 + b2 = Window
  BY <1>3, <1>4, Bounds DEF Total
<1>7. PICK w \in Nat, p \in Nat : w = Window /\ p = PipeSize
  BY Bounds
<1>8. Total(output) = u1 + u2 + g1 + g2 + w
  BY <1>5, <1>6, <1>7 DEF Total
<1>9. Total(output) <= w => u1 = 0 /\ u2 = 0
  BY <1>8
<1>10. Total(output) <= w + p /\ g1 = 0 /\ g2 = 0 => u1 <= p /\ u2 <= p
  BY <1>8
<1>11. output["stderr"] < w => b1 > 0
  BY <1>5, <1>6, <1>7
<1> QED
  BY <1>4, <1>7, <1>9, <1>10, <1>11

(* With room in the window, the server can move until the output has ended. *)
LEMMA RoomToMove ==
  ASSUME ExecuteInv, Total(buffered) < Window, NEW c \in Calls
  PROVE  Answerable(c) \/ ServerCanMove
<1>1. /\ unsent["stdout"] \in Nat /\ unsent["stderr"] \in Nat
      /\ \A s \in Streams : unsent[s] \in Nat
  BY Amounts DEF ExecuteInv, Streams
<1>2. CASE \E s \in Streams : unsent[s] > 0
  BY <1>2 DEF ServerCanMove
<1>3. CASE \A s \in Streams : ~(unsent[s] > 0)
  <2>1. \A s \in Streams : unsent[s] = 0
    BY <1>1, <1>3
  <2>2. CASE ended
    <3>1. Total(unsent) = 0
      BY <2>1 DEF Total, Streams
    <3> QED
      BY <2>2, <3>1 DEF Answerable, Eof, Calls
  <2>3. CASE ~ended
    BY <2>1, <2>3, ExecuteAssumption DEF ServerCanMove
  <2> QED
    BY <2>2, <2>3
<1> QED
  BY <1>2, <1>3

(* The holder's call.                                                       *)
LEMMA HolderCalls ==
  ASSUME ExecuteInv, holder # Nobody
  PROVE  holder \in Tasks /\ todo[holder] # <<>> /\ Head(todo[holder]) \in Calls
<1>1. holder \in Tasks /\ todo[holder] \in Seq(Calls) /\ todo[holder] # <<>>
  BY DEF ExecuteInv, TypeOK
<1> QED
  BY <1>1, CallsShape

(* Output that fits the window never makes the holder of the actor wait for *)
(* somebody who waits for the actor, whatever the tasks call.               *)
THEOREM FittingOutputBlocksNobody == Spec => [](Total(output) <= Window => Unblocked)
<1>1. ExecuteInv => (Total(output) <= Window => Unblocked)
  <2> SUFFICES ASSUME ExecuteInv, Total(output) <= Window, holder # Nobody
               PROVE  Answerable(Head(todo[holder])) \/ ServerCanMove
    BY DEF Unblocked
  <2>1. PICK c \in Calls : c = Head(todo[holder])
    BY HolderCalls
  <2>2. CASE Total(buffered) < Window
    BY <2>1, <2>2, RoomToMove
  <2>3. CASE ~(Total(buffered) < Window)
    <3>1. \A s \in Streams : unsent[s] = 0
      <4>1. unsent["stdout"] = 0 /\ unsent["stderr"] = 0
        BY <2>3, FullWindow, Bounds
      <4> QED
        BY <4>1 DEF Streams
    <3>2. Total(unsent) = 0
      BY <3>1 DEF Total, Streams
    <3>3. CASE ended
      BY <2>1, <3>2, <3>3 DEF Answerable, Eof, Calls
    <3>4. CASE ~ended
      BY <3>1, <3>4, ExecuteAssumption DEF ServerCanMove
    <3> QED
      BY <3>3, <3>4
  <2> QED
    BY <2>2, <2>3
<1> QED
  BY <1>1, Invariance, PTL

-----------------------------------------------------------------------------
(* execute(_:): what the tasks have left to do, and what that says          *)

OtherOnly == <<"other">>
BothStreams == <<"stdout", "stderr">>
StderrOnly == <<"stderr">>

StatusFirstTasks == \A t \in Tasks : body[t] \in {OtherOnly, StatusFirst}

StatusFirstInv ==
  /\ \A t \in Tasks :
       /\ todo[t] \in {<<>>, OtherOnly, StatusFirst, BothStreams, StderrOnly}
       /\ ~ended => todo[t] \notin {BothStreams, StderrOnly}
       /\ todo[t] = StderrOnly /\ (~cancelled \/ holder = t) => Eof
  /\ ~ended => \A s \in Streams : got[s] = 0

LEMMA Sequences3 ==
  /\ Head(OtherOnly) = "other" /\ Tail(OtherOnly) = <<>>
  /\ Head(StatusFirst) = "status" /\ Tail(StatusFirst) = BothStreams
  /\ Head(BothStreams) = "stdout" /\ Tail(BothStreams) = StderrOnly
  /\ Head(StderrOnly) = "stderr" /\ Tail(StderrOnly) = <<>>
  /\ OtherOnly # <<>> /\ StatusFirst # <<>> /\ BothStreams # <<>> /\ StderrOnly # <<>>
  /\ StatusFirst # BothStreams /\ StatusFirst # StderrOnly /\ BothStreams # StderrOnly
  /\ OtherOnly # StderrOnly /\ OtherOnly # BothStreams /\ OtherOnly # StatusFirst
  BY DEF OtherOnly, StatusFirst, BothStreams, StderrOnly

LEMMA StatusFirstInitially == Init /\ StatusFirstTasks => StatusFirstInv
  BY Sequences3 DEF Init, StatusFirstTasks, StatusFirstInv

LEMMA StatusFirstStep ==
  ASSUME ExecuteInv, StatusFirstInv, [Next]_vars
  PROVE  StatusFirstInv'
<1>1. \A t \in Tasks : todo[t] \in {<<>>, OtherOnly, StatusFirst, BothStreams, StderrOnly}
  BY DEF StatusFirstInv
<1>2. CASE UNCHANGED vars
  BY <1>2 DEF vars, remote, StatusFirstInv, Eof
<1>3. ASSUME NEW s \in Streams, Send(s) PROVE StatusFirstInv'
  <2>1. ~Eof
    BY <1>3, Amounts DEF Send, Eof, Total, Streams, ExecuteInv
  <2> QED
    BY <1>3, <2>1 DEF Send, StatusFirstInv
<1>4. CASE Exit \/ Cancel
  <2>1. Eof => Eof'
    BY <1>4 DEF Exit, Cancel, remote, Eof, Total
  <2> QED
    BY <1>4, <2>1 DEF Exit, Cancel, remote, StatusFirstInv
<1>5. ASSUME NEW t \in Tasks, Hop(t) \/ Fail(t) PROVE StatusFirstInv'
  <2>1. /\ Eof' = Eof /\ ended' = ended /\ cancelled' = cancelled
    BY <1>5 DEF Hop, Fail, Begin, EndCancelled, GetStatus, Read, ReadEnd, Other, remote, Eof
  <2>2. \A u \in Tasks : todo[u] \in {<<>>, OtherOnly, StatusFirst, BothStreams, StderrOnly}
    BY <1>1
  <2>3. ASSUME NEW c, todo[t] # <<>>, c = Head(todo[t]), Return(t, c), holder' \in {holder, Nobody},
               holder' # t, got' = got,
               c = "status" => ended,
               c = "stdout" => cancelled \/ Eof
        PROVE  StatusFirstInv'
    <3>1. todo' = [todo EXCEPT ![t] = Tail(@)] /\ todo'[t] = Tail(todo[t])
      BY <2>3 DEF Return, ExecuteInv, TypeOK
    <3>2. /\ todo'[t] \in {<<>>, BothStreams, StderrOnly}
          /\ ~ended => todo'[t] = <<>>
          /\ todo'[t] = StderrOnly /\ ~cancelled => Eof
      BY <2>2, <2>3, <3>1, Sequences3 DEF StatusFirstInv, Streams
    <3>3. \A u \in Tasks \ {t} : todo'[u] = todo[u]
      BY <3>1 DEF ExecuteInv, TypeOK
    <3> QED
      BY <2>1, <2>3, <3>2, <3>3, ExecuteAssumption, Sequences3 DEF StatusFirstInv
  <2>4. CASE Begin(t)
    <3>1. todo' = todo /\ got' = got /\ holder' = t
      BY <2>4 DEF Begin
    <3>2. todo[t] = StderrOnly => ~cancelled
      BY <2>4, Sequences3 DEF Begin, Streams
    <3> QED
      BY <2>1, <3>1, <3>2 DEF StatusFirstInv
  <2>5. CASE EndCancelled(t)
    <3>1. /\ todo[t] # <<>> /\ Return(t, Head(todo[t])) /\ holder' = holder /\ holder # t
          /\ got' = got /\ cancelled /\ Head(todo[t]) # "status"
      BY <2>5 DEF EndCancelled, Streams
    <3> QED
      BY <2>3, <3>1
  <2>6. CASE GetStatus(t)
    <3>1. holder = t /\ holder' = Nobody /\ got' = got /\ ended /\ Head(todo[t]) = "status"
      BY <2>6 DEF GetStatus
    <3>2. todo[t] # <<>> /\ Nobody # t
      BY <3>1, ExecuteAssumption DEF ExecuteInv, TypeOK
    <3>3. CASE Return(t, "status")
      BY <2>3, <3>1, <3>2, <3>3
    <3>4. CASE ~Return(t, "status")
      <4>1. todo' = todo
        BY <2>6, <3>4 DEF GetStatus
      <4> QED
        BY <2>1, <3>1, <4>1, ExecuteAssumption DEF StatusFirstInv
    <3> QED
      BY <3>3, <3>4
  <2>7. CASE Read(t)
    <3>1. /\ todo' = todo /\ holder' = Nobody /\ holder = t /\ Head(todo[t]) \in Streams
      BY <2>7 DEF Read
    <3>2. todo[t] # <<>>
      BY <3>1, ExecuteAssumption DEF ExecuteInv, TypeOK
    <3>3. ended
      BY <2>2, <3>1, <3>2, Sequences3 DEF StatusFirstInv, Streams
    <3> QED
      BY <2>1, <3>1, <3>3, ExecuteAssumption DEF StatusFirstInv
  <2>8. CASE ReadEnd(t) \/ Other(t)
    <3>1. /\ holder = t /\ holder' = Nobody /\ got' = got /\ Return(t, Head(todo[t]))
          /\ Head(todo[t]) # "status" /\ Head(todo[t]) = "stdout" => Eof
      BY <2>8 DEF ReadEnd, Other, Streams
    <3>2. todo[t] # <<>> /\ Nobody # t /\ Head(todo[t]) # "status"
      BY <2>8, <3>1, ExecuteAssumption DEF ExecuteInv, TypeOK, ReadEnd, Other, Streams
    <3> QED
      BY <2>3, <3>1, <3>2
  <2>9. CASE Fail(t)
    <3>1. holder' = Nobody /\ got' = got /\ todo' = [todo EXCEPT ![t] = <<>>]
      BY <2>9 DEF Fail
    <3>2. todo'[t] = <<>> /\ \A u \in Tasks \ {t} : todo'[u] = todo[u]
      BY <3>1 DEF ExecuteInv, TypeOK
    <3> QED
      BY <2>1, <3>1, <3>2, ExecuteAssumption, Sequences3 DEF StatusFirstInv
  <2> QED
    BY <1>5, <2>4, <2>5, <2>6, <2>7, <2>8, <2>9 DEF Hop
<1> QED
  BY <1>2, <1>3, <1>4, <1>5 DEF Next, Serve

(* execute(_:) gets a pipe further than the window: while nobody reads, the *)
(* command can end before all is sent, and once it has ended somebody does. *)
(* So a caller of execute(_:) never waits for an exit that waits for the    *)
(* caller, if standard error leaves room in the window for standard output. *)
THEOREM ExecuteBlocksNobody ==
  Spec /\ StatusFirstTasks /\ Total(output) <= Window + PipeSize /\ output["stderr"] < Window
    => []Unblocked
<1> DEFINE Bounded == Total(output) <= Window + PipeSize /\ output["stderr"] < Window
<1>1. ExecuteInv /\ StatusFirstInv /\ Bounded => Unblocked
  <2> SUFFICES ASSUME ExecuteInv, StatusFirstInv, Bounded, holder # Nobody
               PROVE  Answerable(Head(todo[holder])) \/ ServerCanMove
    BY DEF Unblocked
  <2>1. PICK t \in Tasks : t = holder /\ todo[t] # <<>> /\ Head(todo[t]) \in Calls
    BY HolderCalls
  <2>2. "stdout" \in Streams /\ "stderr" \in Streams
    BY DEF Streams
  <2>3. CASE Total(buffered) < Window
    BY <2>1, <2>3, RoomToMove
  <2>4. CASE ~(Total(buffered) < Window)
    <3>1. CASE todo[t] = OtherOnly
      BY <2>1, <3>1, Sequences3 DEF Answerable
    <3>2. CASE todo[t] = StatusFirst
      <4>1. CASE ended
        BY <2>1, <3>2, <4>1, Sequences3 DEF Answerable
      <4>2. CASE ~ended
        <5>1. got["stdout"] = 0 /\ got["stderr"] = 0
          BY <2>2, <4>2 DEF StatusFirstInv
        <5>2. unsent["stdout"] <= PipeSize /\ unsent["stderr"] <= PipeSize
          BY <2>4, <5>1, FullWindow, Bounds
        <5> QED
          BY <4>2, <5>2 DEF ServerCanMove, Streams
      <4> QED
        BY <4>1, <4>2
    <3>3. CASE todo[t] = BothStreams
      <4>1. buffered["stdout"] > 0
        BY <2>4, FullWindow, Bounds
      <4> QED
        BY <2>1, <2>2, <3>3, <4>1, Sequences3 DEF Answerable
    <3>4. CASE todo[t] = StderrOnly
      BY <2>1, <2>2, <3>4, Sequences3 DEF Answerable, StatusFirstInv
    <3> QED
      BY <2>1, <3>1, <3>2, <3>3, <3>4 DEF StatusFirstInv
  <2> QED
    BY <2>3, <2>4
<1>2. ExecuteInv /\ StatusFirstInv /\ [Next]_vars => StatusFirstInv'
  BY StatusFirstStep
<1>3. [Next]_vars => output' = output
  BY DEF Next, Serve, Send, Exit, Cancel, Hop, Fail, Begin, EndCancelled, GetStatus, Read, ReadEnd,
     Other, remote, vars
<1>4. Bounded /\ [Next]_vars => Bounded'
  BY <1>3 DEF Total
<1> HIDE DEF Bounded
<1>5. Spec /\ StatusFirstTasks /\ Bounded => []Unblocked
  BY <1>1, <1>2, <1>4, StatusFirstInitially, Invariance, PTL DEF Spec
<1> QED
  BY <1>5 DEF Bounded

-----------------------------------------------------------------------------
(* A body that reads both streams first                                     *)

ReadsFirst == <<"stdout", "stderr", "status">>
StderrNext == <<"stderr", "status">>
StatusOnly == <<"status">>

ReadsFirstTasks == \A t \in Tasks : body[t] \in {OtherOnly, ReadsFirst}

ReadsFirstInv ==
  \A t \in Tasks :
    /\ todo[t] \in {<<>>, OtherOnly, ReadsFirst, StderrNext, StatusOnly}
    /\ ~cancelled /\ todo[t] \in {StderrNext, StatusOnly} => Eof

LEMMA MoreSequences ==
  /\ Head(OtherOnly) = "other" /\ Tail(OtherOnly) = <<>>
  /\ Head(ReadsFirst) = "stdout" /\ Tail(ReadsFirst) = StderrNext
  /\ Head(StderrNext) = "stderr" /\ Tail(StderrNext) = StatusOnly
  /\ Head(StatusOnly) = "status" /\ Tail(StatusOnly) = <<>>
  /\ StderrNext # <<>> /\ StatusOnly # <<>>
  /\ OtherOnly \notin {StderrNext, StatusOnly} /\ ReadsFirst \notin {StderrNext, StatusOnly}
  BY DEF OtherOnly, ReadsFirst, StderrNext, StatusOnly

LEMMA ReadsFirstInitially == Init /\ ReadsFirstTasks => ReadsFirstInv
  BY MoreSequences DEF Init, ReadsFirstTasks, ReadsFirstInv

LEMMA ReadsFirstStep ==
  ASSUME ExecuteInv, ReadsFirstInv, [Next]_vars
  PROVE  ReadsFirstInv'
<1>1. CASE UNCHANGED vars
  BY <1>1 DEF vars, remote, ReadsFirstInv, Eof
<1>2. ASSUME NEW s \in Streams, Send(s) PROVE ReadsFirstInv'
  <2>1. ~Eof
    BY <1>2, Amounts DEF Send, Eof, Total, Streams, ExecuteInv
  <2> QED
    BY <1>2, <2>1 DEF Send, ReadsFirstInv
<1>3. CASE Exit \/ Cancel
  <2>1. Eof => Eof'
    BY <1>3 DEF Exit, Cancel, remote, Eof, Total
  <2> QED
    BY <1>3, <2>1 DEF Exit, Cancel, remote, ReadsFirstInv
<1>4. ASSUME NEW t \in Tasks, Hop(t) \/ Fail(t) PROVE ReadsFirstInv'
  <2>1. Eof' = Eof /\ cancelled' = cancelled
    BY <1>4 DEF Hop, Fail, Begin, EndCancelled, GetStatus, Read, ReadEnd, Other, remote, Eof
  <2>2. CASE todo' = todo
    BY <2>1, <2>2 DEF ReadsFirstInv
  <2>3. ASSUME NEW c, todo[t] # <<>>, c = Head(todo[t]), Return(t, c),
               c = "stdout" => cancelled \/ Eof
        PROVE  ReadsFirstInv'
    <3>1. todo'[t] = Tail(todo[t]) /\ \A u \in Tasks \ {t} : todo'[u] = todo[u]
      BY <2>3 DEF Return, ExecuteInv, TypeOK
    <3>2. /\ todo'[t] \in {<<>>, StderrNext, StatusOnly}
          /\ ~cancelled /\ todo'[t] \in {StderrNext, StatusOnly} => Eof
      BY <2>3, <3>1, MoreSequences DEF ReadsFirstInv
    <3> QED
      BY <2>1, <3>1, <3>2 DEF ReadsFirstInv
  <2>4. ASSUME EndCancelled(t) \/ ReadEnd(t) \/ Other(t) \/ (GetStatus(t) /\ todo' # todo)
        PROVE  ReadsFirstInv'
    <3>1. todo[t] # <<>> /\ Return(t, Head(todo[t]))
      BY <2>4, ExecuteAssumption
         DEF EndCancelled, ReadEnd, Other, GetStatus, ExecuteInv, TypeOK
    <3>2. Head(todo[t]) = "stdout" => cancelled \/ Eof
      BY <2>4 DEF EndCancelled, ReadEnd, Other, GetStatus
    <3> QED
      BY <2>3, <3>1, <3>2
  <2>5. CASE Fail(t)
    <3>1. todo'[t] = <<>> /\ \A u \in Tasks \ {t} : todo'[u] = todo[u]
      BY <2>5 DEF Fail, ExecuteInv, TypeOK
    <3> QED
      BY <2>1, <3>1, MoreSequences DEF ReadsFirstInv
  <2>6. Begin(t) \/ Read(t) => todo' = todo
    BY DEF Begin, Read
  <2> QED
    BY <1>4, <2>2, <2>4, <2>5, <2>6 DEF Hop
<1> QED
  BY <1>1, <1>2, <1>3, <1>4 DEF Next, Serve

(* A body that reads first may read any amount of standard output, for it   *)
(* makes the room that the rest needs, until it is cancelled.               *)
THEOREM StreamsBlockNobody ==
  Spec /\ ReadsFirstTasks /\ output["stderr"] < Window => [](~cancelled => Unblocked)
<1> DEFINE Bounded == output["stderr"] < Window
<1>1. ExecuteInv /\ ReadsFirstInv /\ Bounded => (~cancelled => Unblocked)
  <2> SUFFICES ASSUME ExecuteInv, ReadsFirstInv, Bounded, ~cancelled, holder # Nobody
               PROVE  Answerable(Head(todo[holder])) \/ ServerCanMove
    BY DEF Unblocked
  <2>1. PICK t \in Tasks : t = holder /\ todo[t] # <<>> /\ Head(todo[t]) \in Calls
    BY HolderCalls
  <2>2. CASE Total(buffered) < Window
    BY <2>1, <2>2, RoomToMove
  <2>3. CASE ~(Total(buffered) < Window)
    <3>1. CASE todo[t] = OtherOnly
      BY <2>1, <3>1, MoreSequences DEF Answerable
    <3>2. CASE todo[t] = ReadsFirst
      <4>1. buffered["stdout"] > 0
        BY <2>3, FullWindow
      <4> QED
        BY <2>1, <3>2, <4>1, MoreSequences DEF Answerable, Streams
    <3>3. CASE todo[t] \in {StderrNext, StatusOnly}
      <4>1. Eof /\ ended
        BY <3>3 DEF ReadsFirstInv, Eof
      <4> QED
        BY <2>1, <3>3, <4>1, MoreSequences DEF Answerable, Streams
    <3> QED
      BY <2>1, <3>1, <3>2, <3>3 DEF ReadsFirstInv
  <2> QED
    BY <2>2, <2>3
<1>2. ExecuteInv /\ ReadsFirstInv /\ [Next]_vars => ReadsFirstInv'
  BY ReadsFirstStep
<1>3. Bounded /\ [Next]_vars => Bounded'
  BY DEF Next, Serve, Send, Exit, Cancel, Hop, Fail, Begin, EndCancelled, GetStatus, Read, ReadEnd,
     Other, remote, vars
<1> HIDE DEF Bounded
<1>4. Spec /\ ReadsFirstTasks /\ Bounded => [](~cancelled => Unblocked)
  BY <1>1, <1>2, <1>3, ReadsFirstInitially, Invariance, PTL DEF Spec
<1> QED
  BY <1>4 DEF Bounded
=============================================================================
