-------------------------- MODULE SFTPDownloadProofs --------------------------
(* The reader alone: the range arrives in order and whole.  Then the        *)
(* download that drives it: the local file grows as a stream of the remote  *)
(* file's bytes.  Both for every buffer, queue and file, whatever fails on  *)
(* either side.                                                             *)
EXTENDS SFTPDownload, TLAPS

(***************************************************************************)
(* The reader: SFTPReader                                                  *)
(***************************************************************************)

Expected == Offset + Len(out)

Answered(k) == queue[k].got # Unanswered

Short(k) == queue[k].got < queue[k].len

-----------------------------------------------------------------------------
(* The inductive invariant.  An iteration that has begun is in one of two   *)
(* modes.  As long as nothing short was taken off the queue the requests in *)
(* flight tile the file from the next byte to return up to libssh's offset, *)
(* and what comes after a short answer is empty.  Once a short answer was   *)
(* taken with others in flight the oldest of them starts behind the end of  *)
(* the file: it can only bring the end of the stream.                       *)
Tiled ==
  /\ queue = <<>> => fileOffset = Expected
  /\ queue # <<>> =>
       /\ queue[1].off = Expected
       /\ queue[Len(queue)].off + queue[Len(queue)].len = fileOffset
  /\ \A j, k \in 1 .. Len(queue) :
       /\ k = j + 1 => queue[k].off = queue[j].off + queue[j].len
       /\ j < k => queue[j].off + queue[j].len <= queue[k].off

OffsetCounts ==
  /\ \A k \in 1 .. Len(queue) : queue[k].off + queue[k].len <= fileOffset
  /\ fileOffset <= Offset + count
  /\ fileOffset = Offset + count \/ Expected >= size

AnswersStand ==
  /\ \A k \in 1 .. Len(queue) : Answered(k) =>
       /\ queue[k].got <= queue[k].len
       /\ Short(k) => queue[k].off + queue[k].got >= size
  /\ \A j, k \in 1 .. Len(queue) :
       (j < k /\ Answered(k)) => Answered(j) /\ (Short(j) => queue[k].got = 0)

Streaming == Tiled /\ OffsetCounts /\ AnswersStand

PastTheEnd ==
  /\ queue # <<>>
  /\ Expected >= size /\ queue[1].off >= size
  /\ queue[1].got \in {Unanswered, 0}
  /\ fileOffset >= Expected + queue[1].len

Begun == pc \in {"fill", "wait"} \/ (pc = "idle" /\ count > 0)

Fresh == pc = "seek" \/ (pc = "idle" /\ count = 0)

ReaderInv ==
  /\ TypeOK
  /\ Fresh => count = 0 /\ queue = <<>> /\ out = <<>>
  /\ queue # <<>> => count > 0
  /\ Begun => Streaming \/ PastTheEnd
  /\ Complete
  /\ InOrder

-----------------------------------------------------------------------------
(* Facts about the operators *)

(* The lesser of two numbers is below both.                                 *)
LEMMA LesserBound ==
  ASSUME NEW m \in Nat, NEW n \in Nat
  PROVE  Lesser(m, n) \in Nat /\ Lesser(m, n) <= m /\ Lesser(m, n) <= n
  BY DEF Lesser

(* What an answer appends to the output.                                    *)
LEMMA ConcatPositions ==
  ASSUME NEW s \in Seq(Nat), NEW off \in Nat, NEW n \in Nat
  PROVE  /\ s \o Positions(off, n) \in Seq(Nat)
         /\ Len(s \o Positions(off, n)) = Len(s) + n
         /\ \A j \in 1 .. Len(s) : (s \o Positions(off, n))[j] = s[j]
         /\ \A j \in Len(s) + 1 .. Len(s) + n :
              (s \o Positions(off, n))[j] = off + (j - Len(s)) - 1
<1>1. Positions(off, n) \in Seq(Nat) /\ Len(Positions(off, n)) = n
  <2>1. \A j \in 1 .. n : off + j - 1 \in Nat
    OBVIOUS
  <2> QED
    BY <2>1 DEF Positions
<1>2. \A j \in 1 .. n : Positions(off, n)[j] = off + j - 1
  BY DEF Positions
<1>3. \A p \in Seq(Nat) :
        /\ s \o p \in Seq(Nat) /\ Len(s \o p) = Len(s) + Len(p)
        /\ \A j \in 1 .. Len(s) : (s \o p)[j] = s[j]
        /\ \A j \in Len(s) + 1 .. Len(s) + Len(p) : (s \o p)[j] = p[j - Len(s)]
  OBVIOUS
<1>4. \A j \in Len(s) + 1 .. Len(s) + n : j - Len(s) \in 1 .. n
  OBVIOUS
<1> QED
  BY <1>1, <1>2, <1>3, <1>4

(* An answer updates one request and leaves the shape of the queue.         *)
LEMMA AnswerShape ==
  ASSUME NEW q \in Seq(Request), NEW k \in 1 .. Len(q), NEW g \in Nat
  PROVE  LET r == [q EXCEPT ![k].got = g] IN
         /\ r \in Seq(Request) /\ Len(r) = Len(q)
         /\ r[k].got = g
         /\ \A j \in 1 .. Len(q) : /\ r[j].off = q[j].off /\ r[j].len = q[j].len
                                   /\ j # k => r[j].got = q[j].got
<1> DEFINE r == [q EXCEPT ![k].got = g]
<1>1. q \in [1 .. Len(q) -> Request] /\ Len(q) \in Nat
  OBVIOUS
<1>2. [q[k] EXCEPT !.got = g] \in Request
  BY <1>1 DEF Request
<1>3. r \in [1 .. Len(q) -> Request]
  BY <1>1, <1>2
<1>4. r \in Seq(Request) /\ Len(r) = Len(q)
  BY <1>1, <1>3
<1>5. \A j \in 1 .. Len(q) : j # k => r[j] = q[j]
  BY <1>1
<1>6. r[k] = [q[k] EXCEPT !.got = g]
  BY <1>1
<1>7. r[k].off = q[k].off /\ r[k].len = q[k].len /\ r[k].got = g
  BY <1>1, <1>6 DEF Request
<1> QED
  BY <1>4, <1>5, <1>7

(* The fields of the requests in flight have their types.                   *)
LEMMA QueueTyped ==
  ASSUME TypeOK
  PROVE  /\ queue \in Seq(Request) /\ Len(queue) \in Nat
         /\ size \in Nat /\ fileOffset \in Nat /\ count \in Nat
         /\ Len(out) \in Nat /\ Offset + Len(out) \in Nat
         /\ \A j \in 1 .. Len(queue) :
              /\ queue[j].off \in Nat /\ queue[j].len \in Nat \ {0}
              /\ queue[j].got \in Nat \cup {Unanswered}
<1>1. \A j \in 1 .. Len(queue) : queue[j] \in Request
  BY DEF TypeOK
<1>2. \A r \in Request : r.off \in Nat /\ r.len \in Nat \ {0} /\ r.got \in Nat \cup {Unanswered}
  BY DEF Request
<1>3. Len(out) \in Nat /\ Len(queue) \in Nat
  BY DEF TypeOK
<1> QED
  BY <1>1, <1>2, <1>3, ReaderAssumption DEF TypeOK

-----------------------------------------------------------------------------
(* The steps that leave queue, output and offset alone *)

(* Entering next() keeps the invariant.                                     *)
LEMMA CallNextKeeps == ReaderInv /\ CallNext => ReaderInv'
<1> SUFFICES ASSUME ReaderInv, CallNext PROVE ReaderInv'
  OBVIOUS
<1>1. Streaming' <=> Streaming
  BY DEF CallNext, Streaming, Tiled, OffsetCounts, AnswersStand, Expected, Answered, Short
<1>2. PastTheEnd' <=> PastTheEnd
  BY DEF CallNext, PastTheEnd, Expected
<1> QED
  BY <1>1, <1>2 DEF ReaderInv, CallNext, TypeOK, Fresh, Begun, Complete, InOrder

(* The seek makes the stream start where the range does.                    *)
LEMMA SeekKeeps == ReaderInv /\ Seek => ReaderInv'
<1> SUFFICES ASSUME ReaderInv, Seek PROVE ReaderInv'
  OBVIOUS
<1>1. count = 0 /\ queue = <<>> /\ out = <<>> /\ Len(queue) = 0 /\ Len(out) = 0
  BY DEF ReaderInv, Fresh, Seek
<1>2. Streaming'
  BY <1>1, ReaderAssumption
     DEF ReaderInv, Seek, Streaming, Tiled, OffsetCounts, AnswersStand, Expected, TypeOK
<1> QED
  BY <1>1, <1>2, ReaderAssumption DEF ReaderInv, Seek, TypeOK, Fresh, Begun, Complete, InOrder

(* With nothing in flight and nothing left to ask for the range is read.    *)
LEMMA FilledKeeps == ReaderInv /\ Filled => ReaderInv'
<1> SUFFICES ASSUME ReaderInv, Filled PROVE ReaderInv'
  OBVIOUS
<1>1. (Streaming' <=> Streaming) /\ (PastTheEnd' <=> PastTheEnd)
  BY DEF Filled, Streaming, Tiled, OffsetCounts, AnswersStand, PastTheEnd, Expected, Answered, Short
<1>2. TypeOK'
  BY DEF Filled, ReaderInv, TypeOK
<1>3. ASSUME queue = <<>> PROVE Complete'
  <2>1. Streaming
    BY <1>3 DEF ReaderInv, Begun, Filled, PastTheEnd
  <2>2. count = Length
    BY <1>3, ReaderAssumption DEF Filled, Filling, ReaderInv, TypeOK
  <2>3. fileOffset = Offset + Len(out)
    BY <1>3, <2>1 DEF Streaming, Tiled, Expected
  <2>4. fileOffset = Offset + count \/ Offset + Len(out) >= size
    BY <2>1 DEF Streaming, OffsetCounts, Expected
  <2> QED
    BY <2>2, <2>3, <2>4, ReaderAssumption DEF Filled, Complete, ReaderInv, TypeOK
<1>4. ASSUME queue # <<>> PROVE Complete'
  BY <1>4 DEF Filled, Complete
<1> QED
  BY <1>1, <1>2, <1>3, <1>4 DEF ReaderInv, Filled, Fresh, Begun, InOrder

(* An error or a cancellation claims nothing about what was read.           *)
LEMMA EndingKeeps == ReaderInv /\ (Fail \/ Cancel) => ReaderInv'
<1> SUFFICES ASSUME ReaderInv, Fail \/ Cancel PROVE ReaderInv'
  OBVIOUS
<1>1. (Streaming' <=> Streaming) /\ (PastTheEnd' <=> PastTheEnd)
  BY DEF Fail, Cancel, Streaming, Tiled, OffsetCounts, AnswersStand, PastTheEnd, Expected, Answered, Short
<1>2. TypeOK'
  BY DEF Fail, Cancel, ReaderInv, TypeOK
<1> QED
  BY <1>1, <1>2 DEF ReaderInv, Fail, Cancel, Fresh, Begun, Complete, InOrder

(* A file that shrinks keeps every end of file where it was met.            *)
LEMMA TruncateKeeps == ReaderInv /\ Truncate => ReaderInv'
<1> SUFFICES ASSUME ReaderInv, Truncate PROVE ReaderInv'
  OBVIOUS
<1>1. size \in Nat /\ size' \in Nat /\ size' <= size
  BY DEF ReaderInv, TypeOK, Truncate
<1>2. TypeOK'
  BY <1>1 DEF ReaderInv, TypeOK, Truncate
<1>3. /\ Len(out) \in Nat /\ Offset + Len(out) \in Nat
      /\ \A k \in 1 .. Len(queue) : queue[k] \in Request
  BY ReaderAssumption DEF ReaderInv, TypeOK
<1>4. Streaming => Streaming'
  <2> SUFFICES ASSUME Streaming PROVE Streaming'
    OBVIOUS
  <2>1. Tiled' /\ OffsetCounts'
    BY <1>1, <1>3 DEF Streaming, Tiled, OffsetCounts, Expected, Truncate
  <2>2. AnswersStand'
    <3> SUFFICES ASSUME NEW k \in 1 .. Len(queue), Answered(k), Short(k)
                 PROVE  queue[k].off + queue[k].got >= size'
      BY DEF Streaming, AnswersStand, Truncate, Answered, Short
    <3>1. queue[k].off + queue[k].got >= size
      BY DEF Streaming, AnswersStand
    <3>2. queue[k].off \in Nat /\ queue[k].got \in Nat
      BY <1>3 DEF Request, Answered
    <3> QED
      BY <1>1, <3>1, <3>2
  <2> QED
    BY <2>1, <2>2 DEF Streaming
<1>5. PastTheEnd => PastTheEnd'
  <2> SUFFICES ASSUME PastTheEnd PROVE PastTheEnd'
    OBVIOUS
  <2>1. 1 \in 1 .. Len(queue)
    BY DEF PastTheEnd, ReaderInv, TypeOK
  <2>2. queue[1].off \in Nat
    BY <1>3, <2>1 DEF Request
  <2> QED
    BY <1>1, <1>3, <2>2 DEF PastTheEnd, Truncate, Expected
<1>6. Complete'
  BY <1>1, <1>3 DEF ReaderInv, Complete, Truncate
<1> QED
  BY <1>2, <1>4, <1>5, <1>6 DEF ReaderInv, Truncate, Fresh, Begun, InOrder

-----------------------------------------------------------------------------
(* The server answers a request *)

(* A short answer reaches the end of the file; behind the end it is empty.  *)
LEMMA AvailableBound ==
  ASSUME NEW off \in Nat, NEW len \in Nat, size \in Nat
  PROVE  /\ Available(off, len) \in Nat /\ Available(off, len) <= len
         /\ Available(off, len) < len => off + Available(off, len) >= size
         /\ off >= size => Available(off, len) = 0
  BY DEF Available, Lesser

(* An answer after a short one is empty: its request starts behind the end. *)
LEMMA AnswerKeeps == ReaderInv /\ Answer => ReaderInv'
<1> SUFFICES ASSUME ReaderInv, Answer PROVE ReaderInv'
  OBVIOUS
<1>1. PICK k \in 1 .. Len(queue) :
        /\ queue[k].got = Unanswered
        /\ \A j \in 1 .. k - 1 : queue[j].got # Unanswered
        /\ queue' = [queue EXCEPT ![k].got = Available(queue[k].off, queue[k].len)]
        /\ UNCHANGED <<pc, cancelled, count, out, fileOffset, size>>
  BY DEF Answer
<1> DEFINE g == Available(queue[k].off, queue[k].len)
<1>2. /\ queue \in Seq(Request) /\ Len(queue) \in Nat
      /\ size \in Nat /\ fileOffset \in Nat /\ Offset + Len(out) \in Nat
      /\ \A j \in 1 .. Len(queue) : /\ queue[j].off \in Nat /\ queue[j].len \in Nat
                                    /\ queue[j].got \in Nat \cup {Unanswered}
  BY QueueTyped DEF ReaderInv
<1>3. /\ g \in Nat /\ g <= queue[k].len
      /\ g < queue[k].len => queue[k].off + g >= size
      /\ queue[k].off >= size => g = 0
  BY <1>2, AvailableBound
<1>4. /\ queue' \in Seq(Request) /\ Len(queue') = Len(queue)
      /\ queue'[k].got = g
      /\ \A j \in 1 .. Len(queue) :
           /\ queue'[j].off = queue[j].off /\ queue'[j].len = queue[j].len
           /\ j # k => queue'[j].got = queue[j].got
  <2> HIDE DEF g
  <2> QED
    BY <1>1, <1>2, <1>3, AnswerShape DEF g
<1>5. queue' = <<>> <=> queue = <<>>
  BY <1>2, <1>4
<1> HIDE DEF g
<1>6. Streaming => Streaming'
  <2> SUFFICES ASSUME Streaming PROVE Streaming'
    OBVIOUS
  <2>1. Tiled'
    <3>1. queue # <<>> => 1 \in 1 .. Len(queue) /\ Len(queue) \in 1 .. Len(queue)
      BY <1>2
    <3> QED
      BY <1>1, <1>4, <1>5, <3>1 DEF Streaming, Tiled, Expected
  <2>2. OffsetCounts'
    BY <1>1, <1>4 DEF Streaming, OffsetCounts, Expected
  <2>3. ASSUME NEW j \in 1 .. Len(queue), Answered(j)'
        PROVE  /\ queue'[j].got <= queue'[j].len
               /\ Short(j)' => queue'[j].off + queue'[j].got >= size
    <3>1. CASE j = k
      BY <1>3, <1>4, <3>1 DEF Short
    <3>2. CASE j # k
      BY <1>4, <2>3, <3>2 DEF Streaming, AnswersStand, Answered, Short
    <3> QED
      BY <3>1, <3>2
  <2>4. ASSUME NEW i \in 1 .. Len(queue), NEW j \in 1 .. Len(queue), i < j, Answered(j)'
        PROVE  Answered(i)' /\ (Short(i)' => queue'[j].got = 0)
    <3>1. CASE i # k /\ j # k
      BY <1>4, <2>4, <3>1 DEF Streaming, AnswersStand, Answered, Short
    <3>2. CASE j = k
      <4>1. Answered(i) /\ i # k
        BY <1>1, <1>2, <2>4, <3>2 DEF Answered
      <4>2. queue[i].off + queue[i].len <= queue[k].off /\ queue[i].got \in Nat
        BY <1>2, <2>4, <3>2, <4>1 DEF Streaming, Tiled, Answered
      <4>3. Short(i) => queue[k].off >= size
        <5>1. Short(i) => queue[i].off + queue[i].got >= size
          BY <4>1 DEF Streaming, AnswersStand
        <5>2. /\ queue[i].off \in Nat /\ queue[i].len \in Nat /\ queue[k].off \in Nat
              /\ size \in Nat
          BY <1>2
        <5>3. \A o, l, h, b, z \in Nat : h < l /\ o + h >= z /\ o + l <= b => b >= z
          OBVIOUS
        <5> QED
          BY <4>2, <5>1, <5>2, <5>3 DEF Short
      <4>4. Answered(i)' /\ (Short(i)' <=> Short(i))
        BY <1>4, <4>1 DEF Answered, Short
      <4>5. queue[k].off >= size => queue'[j].got = 0
        BY <1>3, <1>4, <3>2
      <4> QED
        BY <4>3, <4>4, <4>5
    <3>3. CASE i = k  \* no later request is answered yet
      BY <1>1, <1>4, <2>4, <3>3 DEF Streaming, AnswersStand, Answered
    <3> QED
      BY <3>1, <3>2, <3>3
  <2> QED
    BY <1>1, <1>4, <2>1, <2>2, <2>3, <2>4 DEF Streaming, AnswersStand
<1>7. PastTheEnd => PastTheEnd'
  <2> SUFFICES ASSUME PastTheEnd PROVE PastTheEnd'
    OBVIOUS
  <2>1. 1 \in 1 .. Len(queue)
    BY <1>2 DEF PastTheEnd
  <2>2. queue'[1].got \in {Unanswered, 0}
    BY <1>3, <1>4, <2>1 DEF PastTheEnd
  <2> QED
    BY <1>1, <1>4, <1>5, <2>1, <2>2 DEF PastTheEnd, Expected
<1>8. TypeOK'
  BY <1>1, <1>4, <1>5 DEF ReaderInv, TypeOK
<1> QED
  BY <1>1, <1>5, <1>6, <1>7, <1>8 DEF ReaderInv, Fresh, Begun, Complete, InOrder

-----------------------------------------------------------------------------
(* A request is sent *)

(* A request sent last leaves the others where they are.                    *)
LEMMA AppendShape ==
  ASSUME NEW q \in Seq(Request), NEW r \in Request
  PROVE  /\ Append(q, r) \in Seq(Request) /\ Len(Append(q, r)) = Len(q) + 1
         /\ Append(q, r) # <<>>
         /\ Append(q, r)[Len(q) + 1] = r
         /\ \A j \in 1 .. Len(q) : Append(q, r)[j] = q[j]
  OBVIOUS

(* A new request continues the tiling at the offset of the handle.          *)
LEMMA BeginReadKeeps == ReaderInv /\ BeginRead => ReaderInv'
<1> SUFFICES ASSUME ReaderInv, BeginRead PROVE ReaderInv'
  OBVIOUS
<1> DEFINE len == Lesser(BufferSize, Length - count)
           new == [off |-> fileOffset, len |-> len, got |-> Unanswered]
           n   == Len(queue)
<1>1. /\ pc = "fill" /\ n < QueueSize /\ count < Length
      /\ queue' = Append(queue, new)
      /\ fileOffset' = fileOffset + len /\ count' = count + len
      /\ UNCHANGED <<pc, cancelled, out, size>>
  BY DEF BeginRead, Filling
<1>2. /\ queue \in Seq(Request) /\ n \in Nat /\ count \in Nat
      /\ size \in Nat /\ fileOffset \in Nat /\ Offset + Len(out) \in Nat
      /\ \A j \in 1 .. n : /\ queue[j].off \in Nat /\ queue[j].len \in Nat \ {0}
                            /\ queue[j].got \in Nat \cup {Unanswered}
  BY QueueTyped DEF ReaderInv
<1>3. len \in Nat \ {0} /\ count + len <= Length
  BY <1>1, <1>2, ReaderAssumption DEF Lesser
<1> HIDE DEF len
<1>4. new \in Request
  BY <1>2, <1>3 DEF Request
<1>5. /\ queue' \in Seq(Request) /\ Len(queue') = n + 1
      /\ queue' # <<>>
      /\ queue'[n + 1] = new
      /\ \A j \in 1 .. n : queue'[j] = queue[j]
  <2> HIDE DEF new
  <2> QED
    BY <1>1, <1>2, <1>4, AppendShape
<1>6. \A j \in 1 .. n + 1 : j \in 1 .. n \/ j = n + 1
  BY <1>2
<1>7. TypeOK'
  BY <1>1, <1>2, <1>3, <1>5, ReaderAssumption DEF ReaderInv, TypeOK
<1>8. Streaming => Streaming' \/ PastTheEnd'
  <2> SUFFICES ASSUME Streaming PROVE Streaming'
    OBVIOUS
  <2>1. Tiled'
    <3>1. queue' # <<>> => /\ queue'[1].off = Expected'
                           /\ queue'[Len(queue')].off + queue'[Len(queue')].len = fileOffset'
      <4>1. CASE queue = <<>>
        BY <1>1, <1>5, <4>1 DEF Streaming, Tiled, Expected
      <4>2. CASE queue # <<>>
        <5>1. 1 \in 1 .. n
          BY <1>2, <4>2
        <5> QED
          BY <1>1, <1>5, <4>2, <5>1 DEF Streaming, Tiled, Expected
      <4> QED
        BY <4>1, <4>2
    <3>2. ASSUME NEW j \in 1 .. n + 1, NEW k \in 1 .. n + 1
          PROVE  /\ k = j + 1 => queue'[k].off = queue'[j].off + queue'[j].len
                 /\ j < k => queue'[j].off + queue'[j].len <= queue'[k].off
      <4>1. CASE k \in 1 .. n
        <5>1. CASE j \in 1 .. n
          BY <1>5, <4>1, <5>1 DEF Streaming, Tiled
        <5>2. CASE j = n + 1
          BY <1>2, <4>1, <5>2
        <5> QED
          BY <1>6, <5>1, <5>2
      <4>2. CASE k = n + 1 /\ j \in 1 .. n
        <5>1. queue'[k].off = fileOffset /\ queue'[j] = queue[j]
          BY <1>5, <4>2
        <5>2. queue[j].off + queue[j].len <= fileOffset
          BY <4>2 DEF Streaming, OffsetCounts
        <5>3. k = j + 1 => queue[j].off + queue[j].len = fileOffset
          BY <1>2, <4>2 DEF Streaming, Tiled
        <5> QED
          BY <5>1, <5>2, <5>3
      <4>3. CASE k = n + 1 /\ j = n + 1
        BY <1>2, <4>3
      <4> QED
        BY <1>6, <4>1, <4>2, <4>3
    <3> QED
      BY <1>5, <3>1, <3>2 DEF Tiled
  <2>2. OffsetCounts'
    <3>1. ASSUME NEW k \in 1 .. n + 1 PROVE queue'[k].off + queue'[k].len <= fileOffset'
      <4>1. CASE k = n + 1
        BY <1>1, <1>2, <1>3, <1>5, <4>1
      <4>2. CASE k \in 1 .. n
        <5>1. queue[k].off + queue[k].len <= fileOffset
          BY <4>2 DEF Streaming, OffsetCounts
        <5>2. /\ queue[k].off + queue[k].len \in Nat /\ queue'[k] = queue[k]
              /\ fileOffset' = fileOffset + len
          BY <1>1, <1>2, <1>5, <4>2
        <5> QED
          BY <1>2, <1>3, <5>1, <5>2
      <4> QED
        BY <1>6, <4>1, <4>2
    <3> QED
      BY <1>1, <1>2, <1>3, <1>5, <3>1, ReaderAssumption DEF Streaming, OffsetCounts, Expected
  <2>3. AnswersStand'
    BY <1>1, <1>5, <1>6 DEF Streaming, AnswersStand, Answered, Short
  <2> QED
    BY <2>1, <2>2, <2>3 DEF Streaming
<1>9. PastTheEnd => PastTheEnd'
  <2> SUFFICES ASSUME PastTheEnd PROVE PastTheEnd'
    OBVIOUS
  <2>1. 1 \in 1 .. n
    BY <1>2 DEF PastTheEnd
  <2> QED
    BY <1>1, <1>2, <1>3, <1>5, <2>1 DEF PastTheEnd, Expected
<1>10. count' > 0
  BY <1>1, <1>2, <1>3
<1> QED
  BY <1>1, <1>7, <1>8, <1>9, <1>10 DEF ReaderInv, Fresh, Begun, Complete, InOrder

-----------------------------------------------------------------------------
(* The oldest request is waited for *)

(* The queue without its oldest request.                                    *)
LEMMA TailShape ==
  ASSUME NEW q \in Seq(Request), q # <<>>
  PROVE  /\ Head(q) = q[1] /\ 1 \in 1 .. Len(q)
         /\ Tail(q) \in Seq(Request) /\ Len(Tail(q)) = Len(q) - 1
         /\ \A j \in 1 .. Len(q) - 1 : Tail(q)[j] = q[j + 1]
         /\ Tail(q) = <<>> <=> Len(q) = 1
<1>1. /\ Head(q) = q[1] /\ 1 \in 1 .. Len(q)
      /\ Tail(q) \in Seq(Request) /\ Len(Tail(q)) = Len(q) - 1
  OBVIOUS
<1>2. \A j \in 1 .. Len(q) - 1 : Tail(q)[j] = q[j + 1]
  OBVIOUS
<1>3. \A t \in Seq(Request) : t = <<>> <=> Len(t) = 0
  OBVIOUS
<1> QED
  BY <1>1, <1>2, <1>3

(* What the oldest request brings follows what was returned before, or it   *)
(* brings nothing because nothing is left.                                  *)
LEMMA AnswerFollows ==
  ASSUME ReaderInv, pc = "wait", queue[1].got # Unanswered
  PROVE  /\ queue # <<>> /\ queue[1].got \in Nat
         /\ queue[1].got # 0 => /\ queue[1].off = Expected
                                /\ Expected + queue[1].got <= Offset + Length
         /\ queue[1].got = 0 => Expected >= size
<1>1. queue # <<>> /\ 1 \in 1 .. Len(queue) /\ count <= Length
  BY TailShape, ReaderAssumption DEF ReaderInv, TypeOK
<1>2. /\ queue[1].off \in Nat /\ queue[1].len \in Nat \ {0} /\ queue[1].got \in Nat
      /\ size \in Nat /\ fileOffset \in Nat /\ count \in Nat /\ Len(out) \in Nat
  BY <1>1, QueueTyped DEF ReaderInv
<1>3. Streaming \/ PastTheEnd
  BY DEF ReaderInv, Begun
<1>4. CASE PastTheEnd
  BY <1>1, <1>2, <1>4, ReaderAssumption DEF PastTheEnd
<1>5. CASE Streaming
  <2>1. queue[1].off = Expected
    BY <1>1, <1>5 DEF Streaming, Tiled
  <2>2. queue[1].off + queue[1].len <= fileOffset /\ fileOffset <= Offset + count
    BY <1>1, <1>5 DEF Streaming, OffsetCounts
  <2>3. /\ queue[1].got <= queue[1].len
        /\ queue[1].got < queue[1].len => queue[1].off + queue[1].got >= size
    BY <1>1, <1>5 DEF Streaming, AnswersStand, Answered, Short
  <2> QED
    BY <1>1, <1>2, <2>1, <2>2, <2>3, ReaderAssumption
<1> QED
  BY <1>3, <1>4, <1>5

(* Taking the oldest request keeps the tiling, or leaves it past the end.   *)
LEMMA WaitReadKeeps == ReaderInv /\ WaitRead => ReaderInv'
<1> SUFFICES ASSUME ReaderInv, WaitRead PROVE ReaderInv'
  OBVIOUS
<1> DEFINE r == queue[1]
           n == Len(queue)
<1>1. queue \in Seq(Request) /\ queue # <<>> /\ pc = "wait"
  BY DEF ReaderInv, TypeOK, WaitRead
<1>2. /\ Head(queue) = r /\ 1 \in 1 .. n
      /\ queue' \in Seq(Request) /\ Len(queue') = n - 1
      /\ \A j \in 1 .. n - 1 : queue'[j] = queue[j + 1]
      /\ queue' = <<>> <=> n = 1
  BY <1>1, TailShape DEF WaitRead
<1>3. /\ r.got # Unanswered
      /\ fileOffset' = fileOffset + r.got - r.len
      /\ out' = out \o Positions(r.off, r.got)
      /\ pc' = IF r.got = 0 THEN "ended" ELSE "idle"
      /\ UNCHANGED <<cancelled, count, size>>
  BY <1>2 DEF WaitRead
<1>4. /\ n \in Nat /\ size \in Nat /\ fileOffset \in Nat /\ count \in Nat
      /\ Len(out) \in Nat /\ Expected \in Nat
  BY QueueTyped DEF ReaderInv, Expected
<1>q. \A j \in 1 .. n : /\ queue[j].off \in Nat /\ queue[j].len \in Nat \ {0}
                        /\ queue[j].got \in Nat \cup {Unanswered}
  BY QueueTyped DEF ReaderInv
<1>5. /\ r.got \in Nat /\ r.off \in Nat /\ r.len \in Nat
      /\ r.got # 0 => r.off = Expected /\ Expected + r.got <= Offset + Length
      /\ r.got = 0 => Expected >= size
  BY <1>1, <1>2, <1>3, <1>q, AnswerFollows
<1>6. /\ out' \in Seq(Nat) /\ Len(out') = Len(out) + r.got
      /\ \A j \in 1 .. Len(out) : out'[j] = out[j]
      /\ \A j \in Len(out) + 1 .. Len(out) + r.got : out'[j] = r.off + (j - Len(out)) - 1
  <2>1. out \in Seq(Nat)
    BY DEF ReaderInv, TypeOK
  <2>2. r.off \in Nat /\ r.got \in Nat /\ out' = out \o Positions(r.off, r.got)
    BY <1>3, <1>5
  <2> HIDE DEF r
  <2> DEFINE o == out \o Positions(r.off, r.got)
  <2>3. /\ o \in Seq(Nat) /\ Len(o) = Len(out) + r.got
        /\ \A j \in 1 .. Len(out) : o[j] = out[j]
        /\ \A j \in Len(out) + 1 .. Len(out) + r.got : o[j] = r.off + (j - Len(out)) - 1
    BY <2>1, <2>2, ConcatPositions
  <2>4. out' = o
    BY <2>2
  <2> HIDE DEF o
  <2> QED
    BY <2>3, <2>4
<1>7. Expected' = Expected + r.got
  <2>1. Len(out') = Len(out) + r.got /\ r.got \in Nat /\ Len(out) \in Nat /\ Offset \in Nat
    BY <1>4, <1>5, <1>6, ReaderAssumption
  <2> HIDE DEF r
  <2> QED
    BY <2>1 DEF Expected
<1>8. InOrder'
  <2>1. ASSUME NEW j \in 1 .. Len(out) PROVE out'[j] = Offset + j - 1
    BY <1>6 DEF ReaderInv, InOrder
  <2>2. ASSUME NEW j \in Len(out) + 1 .. Len(out) + r.got PROVE out'[j] = Offset + j - 1
    <3>1. out'[j] = r.off + (j - Len(out)) - 1 /\ r.got # 0
      BY <1>4, <1>6, <2>2
    <3>2. r.off = Offset + Len(out) /\ Offset \in Nat
      BY <1>5, <3>1, ReaderAssumption DEF Expected
    <3> HIDE DEF r
    <3> QED
      BY <1>4, <3>1, <3>2
  <2>3. \A j \in 1 .. Len(out) + r.got :
          j \in 1 .. Len(out) \/ j \in Len(out) + 1 .. Len(out) + r.got
    BY <1>4, <1>5
  <2> QED
    BY <1>6, <2>1, <2>2, <2>3 DEF InOrder
<1>9. Complete'
  BY <1>3, <1>4, <1>5, <1>7 DEF Complete, Expected
<1>10. Streaming \/ PastTheEnd
  BY <1>1 DEF ReaderInv, Begun
<1>11. fileOffset' \in Nat
  <2>1. PastTheEnd => Expected + r.len <= fileOffset
    BY <1>4, <1>5 DEF PastTheEnd
  <2>2. Streaming => r.off + r.len <= fileOffset
    BY <1>2 DEF Streaming, OffsetCounts
  <2>3. /\ r.got \in Nat /\ r.len \in Nat /\ r.off \in Nat
        /\ fileOffset' = fileOffset + r.got - r.len
    BY <1>3, <1>5
  <2>4. \A f, g, l, e \in Nat : e + l <= f => f + g - l \in Nat
    OBVIOUS
  <2> HIDE DEF r
  <2> QED
    BY <1>4, <1>10, <2>1, <2>2, <2>3, <2>4
<1>12. TypeOK'
  BY <1>2, <1>3, <1>4, <1>6, <1>11, ReaderAssumption DEF ReaderInv, TypeOK
<1>13. ASSUME r.got # 0 PROVE Streaming' \/ PastTheEnd'
  <2>1. Streaming
    BY <1>3, <1>10, <1>13 DEF PastTheEnd
  <2>2. /\ r.off = Expected /\ r.got <= r.len /\ r.off + r.len <= fileOffset
        /\ r.got < r.len => r.off + r.got >= size
    <3>1. r.off = Expected
      BY <1>5, <1>13
    <3>2. r.off + r.len <= fileOffset
      BY <1>2, <2>1 DEF Streaming, OffsetCounts
    <3>3. r.got <= r.len /\ (r.got < r.len => r.off + r.got >= size)
      BY <1>2, <1>3, <2>1 DEF Streaming, AnswersStand, Answered, Short
    <3> QED
      BY <3>1, <3>2, <3>3
  <2>3. CASE n = 1
    <3>1. queue' = <<>> /\ Len(queue') = 0
      BY <1>2, <2>3
    <3>2. r.off + r.len = fileOffset
      BY <1>1, <2>1, <2>3 DEF Streaming, Tiled
    <3>3. fileOffset' = Expected'
      <4>1. \A f, o, l, g \in Nat : o + l = f => f + g - l = o + g
        OBVIOUS
      <4>2. r.off = Expected /\ fileOffset' = fileOffset + r.got - r.len
        BY <1>3, <2>2
      <4>3. r.off \in Nat /\ r.got \in Nat /\ r.len \in Nat
        BY <1>5
      <4> HIDE DEF r
      <4> QED
        BY <1>4, <1>7, <3>2, <4>1, <4>2, <4>3
    <3>4. OffsetCounts'
      <4>1. fileOffset <= Offset + count /\ (fileOffset = Offset + count \/ Expected >= size)
        BY <2>1 DEF Streaming, OffsetCounts
      <4> QED
        <5>1. fileOffset' <= Offset + count
          <6>1. \A f, g, l, b \in Nat : g <= l /\ f <= b => f + g - l <= b
            OBVIOUS
          <6>2. r.got \in Nat /\ r.len \in Nat /\ Offset + count \in Nat
            BY <1>4, <1>5, ReaderAssumption
          <6>3. r.got <= r.len /\ fileOffset' = fileOffset + r.got - r.len
            BY <1>3, <2>2
          <6> HIDE DEF r
          <6> QED
            BY <1>4, <4>1, <6>1, <6>2, <6>3
        <5>2. fileOffset' = Offset + count \/ Expected' >= size
          <6>1. CASE r.got = r.len
            BY <1>3, <1>4, <1>5, <1>7, <4>1, <6>1
          <6>2. CASE r.got < r.len
            BY <1>5, <1>7, <2>2, <6>2
          <6> QED
            BY <1>5, <2>2, <6>1, <6>2
        <5> QED
          BY <1>3, <3>1, <5>1, <5>2 DEF OffsetCounts
    <3> QED
      BY <3>1, <3>3, <3>4 DEF Streaming, Tiled, AnswersStand
  <2>4. CASE n # 1
    <3>1. 2 \in 1 .. n /\ queue' # <<>> /\ queue'[1] = queue[2]
      BY <1>2, <1>4, <2>4
    <3>2. queue[2].off = r.off + r.len
      BY <1>2, <2>1, <3>1 DEF Streaming, Tiled
    <3>3. CASE r.got = r.len
      <4>1. fileOffset' = fileOffset /\ Expected' = queue'[1].off
        BY <1>3, <1>4, <1>5, <1>7, <2>2, <3>1, <3>2, <3>3
      <4>2. \A j \in 1 .. n - 1 : j + 1 \in 1 .. n /\ queue'[j] = queue[j + 1]
        BY <1>2, <1>4
      <4>3. queue'[n - 1] = queue[n] /\ queue[n].off + queue[n].len = fileOffset
        BY <1>1, <1>4, <2>1, <2>4, <3>1, <4>2 DEF Streaming, Tiled
      <4>4. Tiled'
        <5>1. \A j, k \in 1 .. n - 1 :
                /\ k = j + 1 => queue'[k].off = queue'[j].off + queue'[j].len
                /\ j < k => queue'[j].off + queue'[j].len <= queue'[k].off
          <6> SUFFICES ASSUME NEW j \in 1 .. n - 1, NEW k \in 1 .. n - 1
                       PROVE  /\ k = j + 1 => queue'[k].off = queue'[j].off + queue'[j].len
                              /\ j < k => queue'[j].off + queue'[j].len <= queue'[k].off
            OBVIOUS
          <6>1. j + 1 \in 1 .. n /\ k + 1 \in 1 .. n
            BY <4>2
          <6>2. /\ k + 1 = (j + 1) + 1 => queue[k + 1].off = queue[j + 1].off + queue[j + 1].len
                /\ j + 1 < k + 1 => queue[j + 1].off + queue[j + 1].len <= queue[k + 1].off
            BY <2>1, <6>1 DEF Streaming, Tiled
          <6> QED
            BY <1>4, <4>2, <6>2
        <5> QED
          BY <1>2, <3>1, <4>1, <4>3, <5>1 DEF Tiled
      <4>5. OffsetCounts'
        <5>1. \A j \in 1 .. n - 1 : queue'[j].off + queue'[j].len <= fileOffset
          BY <2>1, <4>2 DEF Streaming, OffsetCounts
        <5>2. fileOffset <= Offset + count /\ (fileOffset = Offset + count \/ Expected >= size)
          BY <2>1 DEF Streaming, OffsetCounts
        <5>3. Expected >= size => Expected' >= size
          BY <1>4, <1>5, <1>7
        <5> QED
          BY <1>2, <1>3, <4>1, <5>1, <5>2, <5>3 DEF OffsetCounts
      <4>6. AnswersStand'
        <5>1. ASSUME NEW k \in 1 .. n - 1, Answered(k)'
              PROVE  /\ queue'[k].got <= queue'[k].len
                     /\ Short(k)' => queue'[k].off + queue'[k].got >= size
          BY <2>1, <4>2, <5>1 DEF Streaming, AnswersStand, Answered, Short
        <5>2. ASSUME NEW j \in 1 .. n - 1, NEW k \in 1 .. n - 1, j < k, Answered(k)'
              PROVE  Answered(j)' /\ (Short(j)' => queue'[k].got = 0)
          <6>1. j + 1 \in 1 .. n /\ k + 1 \in 1 .. n /\ j + 1 < k + 1
            BY <1>4, <4>2, <5>2
          <6> QED
            BY <2>1, <4>2, <5>2, <6>1 DEF Streaming, AnswersStand, Answered, Short
        <5> QED
          BY <1>2, <1>3, <5>1, <5>2 DEF AnswersStand
      <4> QED
        BY <4>4, <4>5, <4>6 DEF Streaming
    <3>4. CASE r.got < r.len  \* the others in flight start behind the end
      <4>1. queue[2].off >= size /\ Expected' >= size
        BY <1>4, <1>5, <1>7, <2>2, <3>2, <3>4
      <4>2. queue[2].got \in {Unanswered, 0}
        BY <1>2, <2>1, <3>1, <3>4 DEF Streaming, AnswersStand, Answered, Short
      <4>3. queue[2].off + queue[2].len <= fileOffset
        BY <2>1, <3>1 DEF Streaming, OffsetCounts
      <4>4. fileOffset' >= Expected' + queue[2].len
        <5>1. queue[2].off \in Nat /\ queue[2].len \in Nat
          BY <1>q, <3>1
        <5>2. fileOffset' = fileOffset + r.got - r.len /\ Expected' = r.off + r.got
          BY <1>3, <1>7, <2>2
        <5>3. fileOffset + r.got - r.len >= r.off + r.got + queue[2].len
          <6>1. \A f, o, l, g, m \in Nat : o + l + m <= f => f + g - l >= o + g + m
            OBVIOUS
          <6>2. r.off + r.len + queue[2].len <= fileOffset
            BY <3>2, <4>3
          <6> HIDE DEF r
          <6> QED
            BY <1>4, <1>5, <5>1, <6>1, <6>2
        <5> QED
          BY <5>2, <5>3
      <4> QED
        BY <1>3, <3>1, <4>1, <4>2, <4>4 DEF PastTheEnd
    <3> QED
      BY <1>4, <1>5, <2>2, <3>3, <3>4
  <2> QED
    BY <2>3, <2>4
<1>14. count > 0
  BY <1>1 DEF ReaderInv
<1> QED
  BY <1>3, <1>8, <1>9, <1>12, <1>13, <1>14 DEF ReaderInv, Fresh, Begun

-----------------------------------------------------------------------------

(* Every step keeps the invariant.                                          *)
LEMMA ReaderInvInductive == ReaderInv /\ [Next]_vars => ReaderInv'
<1>1. ReaderInv /\ UNCHANGED vars => ReaderInv'
  BY DEF vars, ReaderInv, TypeOK, Fresh, Begun, Streaming, Tiled, OffsetCounts, AnswersStand,
         PastTheEnd, Complete, InOrder, Expected, Answered, Short
<1> QED
  BY <1>1, CallNextKeeps, SeekKeeps, BeginReadKeeps, FilledKeeps, WaitReadKeeps, EndingKeeps,
     AnswerKeeps, TruncateKeeps DEF Next, Iterate

(* Before the first next() nothing was asked for, wherever the handle is.   *)
LEMMA ReaderInvInitially == Init => ReaderInv
<1> SUFFICES ASSUME Init PROVE ReaderInv
  OBVIOUS
<1>1. TypeOK
  <2>1. 0 \in 0 .. Length /\ 0 .. MaxSize \subseteq Nat
    BY ReaderAssumption
  <2>2. <<>> \in Seq(Request) /\ Len(<<>>) = 0 /\ <<>> \in Seq(Nat)
    OBVIOUS
  <2> QED
    <3>1. queue \in Seq(Request) /\ Len(queue) <= QueueSize /\ out \in Seq(Nat)
      BY <2>2, ReaderAssumption DEF Init
    <3>2. count \in 0 .. Length /\ fileOffset \in Nat /\ size \in Nat
      BY <2>1 DEF Init
    <3> QED
      BY <3>1, <3>2 DEF Init, TypeOK
<1>2. Fresh /\ ~Begun /\ count = 0 /\ queue = <<>> /\ out = <<>>
  BY DEF Init, Fresh, Begun
<1>3. Complete /\ InOrder
  BY <1>2 DEF Init, Complete, InOrder
<1> QED
  BY <1>1, <1>2, <1>3 DEF ReaderInv

(* The invariant holds throughout.                                          *)
LEMMA ReaderInvAlways == Spec => []ReaderInv
  BY ReaderInvInitially, ReaderInvInductive, PTL DEF Spec

(* The reader's state has its type; in particular at most QueueSize         *)
(* requests are in flight and the offset given back is never negative.      *)
THEOREM ReaderTypeCorrect == Spec => []TypeOK
  BY ReaderInvAlways, PTL DEF ReaderInv

(* next() returns the bytes of the range in order, each once.               *)
THEOREM ReadsInOrder == Spec => []InOrder
  BY ReaderInvAlways, PTL DEF ReaderInv

(* When next() has returned nil and nobody cancelled, nothing of the range  *)
(* is left in the file.                                                     *)
THEOREM ReadsCompletely == Spec => []Complete
  BY ReaderInvAlways, PTL DEF ReaderInv

-----------------------------------------------------------------------------
(* The reader implements the stream *)

(* What the stream sees of the control.                                     *)
LEMMA StreamStates ==
  ASSUME TypeOK
  PROVE  /\ pc \notin {"ended", "failed"} => StreamState = "open"
         /\ pc = "failed" => StreamState = "stopped"
         /\ pc = "ended" /\ cancelled => StreamState = "stopped"
         /\ pc = "ended" /\ ~cancelled => StreamState = "finished"
  BY DEF TypeOK, StreamState

(* The same after a step.                                                   *)
LEMMA StreamStatesAfter ==
  ASSUME TypeOK'
  PROVE  /\ pc' \notin {"ended", "failed"} => StreamState' = "open"
         /\ pc' = "failed" => StreamState' = "stopped"
         /\ pc' = "ended" /\ cancelled' => StreamState' = "stopped"
         /\ pc' = "ended" /\ ~cancelled' => StreamState' = "finished"
  BY DEF TypeOK, StreamState

(* The oldest answer delivers the next bytes, or finishes or stops.         *)
LEMMA WaitReadDelivers ==
  ASSUME ReaderInv, ReaderInv', WaitRead
  PROVE  Stream!Deliver \/ Stream!Finish \/ Stream!Stop
<1> DEFINE r == queue[1]
<1>1. /\ r.got # Unanswered /\ pc = "wait" /\ size' = size /\ cancelled' = cancelled
      /\ out' = out \o Positions(r.off, r.got)
      /\ pc' = IF r.got = 0 THEN "ended" ELSE "idle"
  BY TailShape DEF ReaderInv, TypeOK, WaitRead
<1>2. /\ r.got \in Nat
      /\ r.got # 0 => r.off = Expected /\ Expected + r.got <= Offset + Length
      /\ r.got = 0 => Expected >= size
  BY <1>1, AnswerFollows
<1>3. StreamState = "open"
  BY <1>1, StreamStates DEF ReaderInv
<1>4. out \in Seq(Nat) /\ Len(out) \in Nat /\ Offset \in Nat /\ Length \in Nat
  BY ReaderAssumption DEF ReaderInv, TypeOK
<1> HIDE DEF r
<1>5. CASE r.got # 0
  <2>1. StreamState' = "open"
    BY <1>1, <1>5, StreamStatesAfter DEF ReaderInv
  <2>2. r.got \in 0 .. Length - Len(out)
    BY <1>2, <1>4, <1>5 DEF Expected
  <2>3. out' = out \o [j \in 1 .. r.got |-> Offset + Len(out) + j - 1]
    BY <1>1, <1>2, <1>5 DEF Positions, Expected
  <2> QED
    BY <1>1, <1>3, <2>1, <2>2, <2>3 DEF Stream!Deliver
<1>6. CASE r.got = 0
  <2>1. pc' = "ended"
    BY <1>1, <1>6
  <2>2. out' = out
    <3>1. Positions(r.off, r.got) = <<>>
      BY <1>6 DEF Positions
    <3> QED
      BY <1>1, <1>4, <3>1
  <2>3. CASE cancelled
    BY <1>1, <1>3, <2>1, <2>2, <2>3, StreamStatesAfter DEF ReaderInv, Stream!Stop
  <2>4. CASE ~cancelled
    BY <1>1, <1>2, <1>3, <1>6, <2>1, <2>2, <2>4, StreamStatesAfter
       DEF ReaderInv, Stream!Finish, Expected
  <2> QED
    BY <2>3, <2>4
<1> QED
  BY <1>5, <1>6

(* The pipelined reader delivers the range in order, whole and without a    *)
(* gap, as an ordinary reader would, whatever is in flight.                 *)
THEOREM ReaderImplementsStream == Spec => ReadsLikeAStream
<1>1. Init => Stream!Init
  <2> SUFFICES ASSUME Init PROVE Stream!Init
    OBVIOUS
  <2>1. StreamState = "open"
    BY ReaderInvInitially, StreamStates DEF Init, ReaderInv
  <2>2. size \in Nat
    BY ReaderAssumption DEF Init
  <2> QED
    BY <2>1, <2>2 DEF Init, Stream!Init
<1>2. ReaderInv /\ ReaderInv' /\ [Next]_vars => [Stream!Next]_<<out, size, StreamState>>
  <2> SUFFICES ASSUME ReaderInv, ReaderInv', [Next]_vars
               PROVE  Stream!Next \/ UNCHANGED <<out, size, StreamState>>
    BY DEF Stream!Next
  <2> USE StreamStates, StreamStatesAfter DEF ReaderInv
  <2>1. CASE CallNext
    BY <2>1 DEF CallNext, Stream!Next, Stream!Stop
  <2>2. CASE Seek \/ BeginRead
    BY <2>2 DEF Seek, BeginRead
  <2>3. CASE Filled
    BY <2>3 DEF Filled, Complete, Stream!Next, Stream!Stop, Stream!Finish
  <2>4. CASE WaitRead
    BY <2>4, WaitReadDelivers DEF Stream!Next
  <2>5. CASE Fail
    BY <2>5 DEF Fail, Stream!Next, Stream!Stop
  <2>6. CASE Answer \/ Cancel
    BY <2>6 DEF Answer, Cancel
  <2>7. CASE Truncate
    BY <2>7 DEF Truncate, TypeOK, Stream!Next, Stream!Resize
  <2>8. CASE UNCHANGED vars
    BY <2>8 DEF vars
  <2> QED
    BY <2>1, <2>2, <2>3, <2>4, <2>5, <2>6, <2>7, <2>8 DEF Next, Iterate
<1> QED
  BY <1>1, <1>2, ReaderInvAlways, PTL DEF Spec, ReadsLikeAStream, Stream!Spec

-----------------------------------------------------------------------------
(***************************************************************************)
(* The download: SFTPDownload                                              *)
(***************************************************************************)

Steps == {"open", "create", "iterate", "returned", "threw"}

DownloadTyped ==
  /\ step \in Steps
  /\ local \in [bytes : Seq(Nat), old : BOOLEAN]
  /\ progress \in Nat

(* The local file holds the beginning of what was returned, and all of it   *)
(* while a call of next() is under way.                                     *)
LocalFollows ==
  /\ Len(out) <= Length
  /\ Len(local.bytes) <= Len(out)
  /\ pc # "idle" => Len(local.bytes) = Len(out)
  /\ \A j \in 1 .. Len(local.bytes) : local.bytes[j] = j - 1

(* Progress lags behind the local file only while a buffer is written.      *)
ProgressFollows ==
  /\ progress <= Len(local.bytes)
  /\ Len(local.bytes) = Len(out) => progress = Len(out)

StepsFollow ==
  /\ step \in {"open", "create"} => pc = "idle" /\ out = <<>>
  /\ step \in {"iterate", "returned"} => ~local.old
  /\ step = "returned" => pc = "ended"

DownloadInv ==
  ReaderInv /\ DownloadTyped /\ LocalFollows /\ ProgressFollows /\ StepsFollow

-----------------------------------------------------------------------------
(* Facts about sequences and about the reader *)

(* A sequence of bytes has a length.                                        *)
LEMMA LocalLength ==
  ASSUME DownloadTyped
  PROVE  local.bytes \in Seq(Nat) /\ Len(local.bytes) \in Nat /\ local.old \in BOOLEAN
  BY DEF DownloadTyped

(* A beginning of a sequence.                                               *)
LEMMA Beginning ==
  ASSUME NEW s \in Seq(Nat), NEW k \in 0 .. Len(s)
  PROVE  /\ SubSeq(s, 1, k) \in Seq(Nat) /\ Len(SubSeq(s, 1, k)) = k
         /\ \A j \in 1 .. k : SubSeq(s, 1, k)[j] = s[j]
  OBVIOUS

(* Two sequences of one length and the same elements are one.               *)
LEMMA SameBytes ==
  ASSUME NEW s \in Seq(Nat), NEW t \in Seq(Nat), Len(s) = Len(t),
         \A j \in 1 .. Len(s) : s[j] = t[j]
  PROVE  s = t
  OBVIOUS

(* What is counted off from a position on.                                  *)
LEMMA PositionsFrom ==
  ASSUME NEW off \in Nat, NEW n \in Nat
  PROVE  /\ Positions(off, n) \in Seq(Nat) /\ Len(Positions(off, n)) = n
         /\ \A j \in 1 .. n : Positions(off, n)[j] = off + j - 1
<1>1. \A j \in 1 .. n : off + j - 1 \in Nat
  OBVIOUS
<1> QED
  BY <1>1 DEF Positions

(* An answer that is taken adds to what was returned, within the range; one *)
(* that brought nothing ends the iteration.                                 *)
LEMMA WaitReadGrows ==
  ASSUME ReaderInv, Len(out) <= Length, WaitRead
  PROVE  /\ Len(out') \in Nat /\ Len(out) <= Len(out') /\ Len(out') <= Length
         /\ pc' # "idle" => Len(out') = Len(out)
<1>1. /\ queue[1].got # Unanswered /\ pc = "wait"
      /\ out' = out \o Positions(queue[1].off, queue[1].got)
      /\ pc' = IF queue[1].got = 0 THEN "ended" ELSE "idle"
  BY TailShape DEF ReaderInv, TypeOK, WaitRead
<1>2. /\ queue # <<>> /\ queue[1].got \in Nat
      /\ queue[1].got # 0 => Expected + queue[1].got <= Offset + Length
  BY <1>1, AnswerFollows
<1>3. out \in Seq(Nat) /\ Len(out) \in Nat /\ Offset \in Nat /\ Length \in Nat
  BY ReaderAssumption DEF ReaderInv, TypeOK
<1>4. queue[1].off \in Nat
  BY <1>2, QueueTyped, TailShape DEF ReaderInv, TypeOK
<1>5. Len(out') = Len(out) + queue[1].got
  BY <1>1, <1>2, <1>3, <1>4, ConcatPositions
<1> QED
  BY <1>1, <1>2, <1>3, <1>5 DEF Expected

(* A hop of the iteration adds to what was returned or leaves it.           *)
LEMMA HopGrows ==
  ASSUME ReaderInv, Len(out) <= Length, Iterate \/ Fail
  PROVE  /\ Len(out') \in Nat /\ Len(out) <= Len(out') /\ Len(out') <= Length
         /\ pc' # "idle" => Len(out') = Len(out)
<1>1. CASE WaitRead
  BY <1>1, WaitReadGrows
<1>2. CASE CallNext \/ Seek \/ BeginRead \/ Filled \/ Fail
  <2>1. out' = out
    BY <1>2 DEF CallNext, Seek, BeginRead, Filled, Fail
  <2>2. Len(out) \in Nat
    BY DEF ReaderInv, TypeOK
  <2> QED
    BY <2>1, <2>2
<1> QED
  BY <1>1, <1>2 DEF Iterate

-----------------------------------------------------------------------------
(* The inductive invariant, step by step                                    *)

(* A step of the download is a step of the reader, or leaves the reader be. *)
LEMMA StepsOfReader == [DownloadNext]_downloadVars => [Next]_vars
  BY DEF DownloadNext, OpenRemote, CreateLocal, WriteLocal, WriteLocalFails, NextBuffer,
         LeaveLoop, Others, downloadVars, Next

(* At first nothing was returned and nothing written.                       *)
LEMMA DownloadInitially == DownloadInit => DownloadInv
<1> SUFFICES ASSUME DownloadInit PROVE DownloadInv
  OBVIOUS
<1>1. ReaderInv
  BY ReaderInvInitially DEF DownloadInit
<1>2. pc = "idle" /\ out = <<>> /\ step = "open" /\ local = Before /\ progress = 0
  BY DEF DownloadInit, Init
<1>3. local.bytes = <<>> /\ local.old = TRUE /\ local \in [bytes : Seq(Nat), old : BOOLEAN]
  BY <1>2 DEF Before
<1>4. DownloadTyped /\ StepsFollow
  BY <1>2, <1>3 DEF DownloadTyped, Steps, StepsFollow
<1>5. LocalFollows /\ ProgressFollows
  BY <1>2, <1>3, ReaderAssumption DEF LocalFollows, ProgressFollows
<1> QED
  BY <1>1, <1>4, <1>5 DEF DownloadInv

(* Opening the remote file and making the local one.                        *)
LEMMA OpeningKeeps ==
  ASSUME DownloadInv, ReaderInv', OpenRemote \/ CreateLocal
  PROVE  DownloadInv'
<1>1. UNCHANGED pc /\ UNCHANGED out /\ UNCHANGED progress
  BY DEF OpenRemote, CreateLocal, vars
<1>2. step \in {"open", "create"} /\ step' \in {"create", "iterate", "threw"}
  BY DEF OpenRemote, CreateLocal
<1>3. pc = "idle" /\ out = <<>> /\ Len(out) = 0
  BY <1>2 DEF DownloadInv, StepsFollow
<1>4. Len(local.bytes) = 0
  BY <1>3, LocalLength DEF DownloadInv, LocalFollows
<1>5. local' = local \/ local' = Written(<<>>)
  BY DEF OpenRemote, CreateLocal
<1>6. Len(local'.bytes) = 0 /\ local' \in [bytes : Seq(Nat), old : BOOLEAN]
  <2>1. CASE local' = local
    BY <1>4, <2>1 DEF DownloadInv, DownloadTyped
  <2>2. CASE local' = Written(<<>>)
    <3>1. local'.bytes = <<>> /\ Len(<<>>) = 0 /\ <<>> \in Seq(Nat)
      BY <2>2 DEF Written
    <3> QED
      BY <2>2, <3>1 DEF Written
  <2> QED
    BY <1>5, <2>1, <2>2
<1>7. DownloadTyped' /\ StepsFollow'
  <2>1. step' = "iterate" => local'.old = FALSE
    BY DEF OpenRemote, CreateLocal, Written
  <2> QED
    BY <1>1, <1>2, <1>3, <1>6, <2>1 DEF DownloadInv, DownloadTyped, Steps, StepsFollow
<1>8. LocalFollows' /\ ProgressFollows'
  BY <1>1, <1>3, <1>4, <1>6 DEF DownloadInv, LocalFollows, ProgressFollows
<1> QED
  BY <1>7, <1>8 DEF DownloadInv

(* What WriteLocal writes.                                                  *)
LEMMA WriteLocalWrites ==
  ASSUME DownloadInv, NEW k \in Len(local.bytes) + 1 .. Len(out), local' = Written(SubSeq(out, 1, k))
  PROVE  /\ k \in Nat /\ k > Len(local.bytes) /\ k <= Len(out)
         /\ local' \in [bytes : Seq(Nat), old : BOOLEAN] /\ local'.old = FALSE
         /\ Len(local'.bytes) = k
         /\ \A j \in 1 .. k : local'.bytes[j] = j - 1
<1>1. out \in Seq(Nat) /\ Len(out) \in Nat /\ Len(local.bytes) \in Nat
  BY LocalLength DEF DownloadInv, ReaderInv, TypeOK
<1>2. k \in 0 .. Len(out) /\ k > Len(local.bytes)
  BY <1>1
<1>3. \A j \in 1 .. Len(out) : out[j] = j - 1
  BY <1>1, DownloadAssumption DEF DownloadInv, ReaderInv, InOrder
<1>4. /\ SubSeq(out, 1, k) \in Seq(Nat) /\ Len(SubSeq(out, 1, k)) = k
      /\ \A j \in 1 .. k : SubSeq(out, 1, k)[j] = out[j]
  BY <1>1, <1>2, Beginning
<1>5. local'.bytes = SubSeq(out, 1, k) /\ local'.old = FALSE
      /\ local' \in [bytes : Seq(Nat), old : BOOLEAN]
  BY <1>4 DEF Written
<1> QED
  BY <1>1, <1>2, <1>3, <1>4, <1>5

(* Writing the buffer in hand, or failing to.                               *)
LEMMA WritingKeeps ==
  ASSUME DownloadInv, ReaderInv', WriteLocal \/ WriteLocalFails
  PROVE  DownloadInv'
<1>1. UNCHANGED pc /\ UNCHANGED out /\ pc = "idle" /\ step = "iterate"
  BY DEF WriteLocal, WriteLocalFails, vars
<1>2. CASE WriteLocalFails
  <2>1. UNCHANGED local /\ UNCHANGED progress /\ step' = "threw"
    BY <1>2 DEF WriteLocalFails
  <2> QED
    BY <1>1, <2>1 DEF DownloadInv, DownloadTyped, Steps, LocalFollows, ProgressFollows, StepsFollow
<1>3. CASE WriteLocal
  <2>1. PICK k \in Len(local.bytes) + 1 .. Len(out) :
          /\ local' = Written(SubSeq(out, 1, k))
          /\ progress' = IF k = Len(out) THEN k ELSE progress
    BY <1>3 DEF WriteLocal
  <2>2. UNCHANGED step
    BY <1>3 DEF WriteLocal
  <2>3. /\ k \in Nat /\ k > Len(local.bytes) /\ k <= Len(out)
        /\ local' \in [bytes : Seq(Nat), old : BOOLEAN] /\ local'.old = FALSE
        /\ Len(local'.bytes) = k
        /\ \A j \in 1 .. k : local'.bytes[j] = j - 1
    BY <2>1, WriteLocalWrites
  <2>4. progress \in Nat /\ progress <= Len(local.bytes) /\ Len(local.bytes) \in Nat /\ Len(out) \in Nat
    BY LocalLength DEF DownloadInv, DownloadTyped, ProgressFollows, ReaderInv, TypeOK
  <2>5. DownloadTyped' /\ StepsFollow'
    BY <1>1, <2>1, <2>2, <2>3, <2>4 DEF DownloadInv, DownloadTyped, StepsFollow
  <2>6. LocalFollows'
    BY <1>1, <2>3 DEF DownloadInv, LocalFollows
  <2>7. ProgressFollows'
    BY <1>1, <2>1, <2>3, <2>4 DEF ProgressFollows
  <2> QED
    BY <2>5, <2>6, <2>7 DEF DownloadInv
<1> QED
  BY <1>2, <1>3

(* A hop of the iteration, which starts when the last buffer is written.    *)
LEMMA NextBufferKeeps ==
  ASSUME DownloadInv, ReaderInv', NextBuffer
  PROVE  DownloadInv'
<1>1. UNCHANGED step /\ UNCHANGED local /\ UNCHANGED progress /\ step = "iterate" /\ (Iterate \/ Fail)
  BY DEF NextBuffer
<1>2. Len(out) \in Nat /\ Len(local.bytes) \in Nat /\ progress \in Nat /\ Len(out) <= Length
  BY LocalLength DEF DownloadInv, DownloadTyped, LocalFollows, ReaderInv, TypeOK
<1>3. /\ Len(out') \in Nat /\ Len(out) <= Len(out') /\ Len(out') <= Length
      /\ pc' # "idle" => Len(out') = Len(out)
  BY <1>1, <1>2, HopGrows DEF DownloadInv
<1>4. Len(local.bytes) = Len(out)
  <2>1. pc = "idle" => ~(Len(out) > Len(local.bytes))
    BY DEF NextBuffer, Unwritten
  <2> QED
    BY <1>2, <2>1 DEF DownloadInv, LocalFollows
<1>5. progress = Len(out)
  BY <1>4 DEF DownloadInv, ProgressFollows
<1>6. DownloadTyped' /\ StepsFollow'
  BY <1>1 DEF DownloadInv, DownloadTyped, StepsFollow
<1>7. LocalFollows' /\ ProgressFollows'
  BY <1>1, <1>2, <1>3, <1>4, <1>5, ReaderAssumption DEF DownloadInv, LocalFollows, ProgressFollows
<1> QED
  BY <1>6, <1>7 DEF DownloadInv

(* The end of the loop, and what the server and the task do meanwhile.      *)
LEMMA RestKeeps ==
  ASSUME DownloadInv, ReaderInv',
         LeaveLoop \/ (step \notin {"returned", "threw"} /\ Others) \/ UNCHANGED downloadVars
  PROVE  DownloadInv'
<1>1. UNCHANGED pc /\ UNCHANGED out /\ UNCHANGED local /\ UNCHANGED progress
  BY DEF LeaveLoop, Others, Answer, Truncate, Cancel, downloadVars, vars
<1>2. step' = step \/ (step = "iterate" /\ pc = "ended" /\ step' = "returned") \/ step' = "threw"
  BY DEF LeaveLoop, Others, downloadVars
<1>3. DownloadTyped' /\ StepsFollow'
  BY <1>1, <1>2 DEF DownloadInv, DownloadTyped, Steps, StepsFollow
<1>4. LocalFollows' /\ ProgressFollows'
  BY <1>1 DEF DownloadInv, LocalFollows, ProgressFollows
<1> QED
  BY <1>3, <1>4 DEF DownloadInv

(* Every step keeps the invariant.                                          *)
LEMMA DownloadInvInductive == DownloadInv /\ [DownloadNext]_downloadVars => DownloadInv'
<1> SUFFICES ASSUME DownloadInv, [DownloadNext]_downloadVars PROVE DownloadInv'
  OBVIOUS
<1>1. ReaderInv'
  BY StepsOfReader, ReaderInvInductive DEF DownloadInv
<1> QED
  BY <1>1, OpeningKeeps, WritingKeeps, NextBufferKeeps, RestKeeps DEF DownloadNext

(* The invariant holds throughout.                                          *)
LEMMA DownloadInvAlways == DownloadSpec => []DownloadInv
  BY DownloadInitially, DownloadInvInductive, PTL DEF DownloadSpec

-----------------------------------------------------------------------------
(* The theorems *)

(* What is on the local disk is the beginning of the remote file.           *)
LEMMA LocalIsPositions ==
  ASSUME DownloadInv
  PROVE  local.bytes = Positions(0, Len(local.bytes)) /\ progress <= Len(local.bytes)
<1>1. local.bytes \in Seq(Nat) /\ Len(local.bytes) \in Nat
  BY LocalLength DEF DownloadInv
<1>2. /\ Positions(0, Len(local.bytes)) \in Seq(Nat)
      /\ Len(Positions(0, Len(local.bytes))) = Len(local.bytes)
      /\ \A j \in 1 .. Len(local.bytes) : Positions(0, Len(local.bytes))[j] = 0 + j - 1
  BY <1>1, PositionsFrom
<1>3. \A j \in 1 .. Len(local.bytes) : local.bytes[j] = Positions(0, Len(local.bytes))[j]
  BY <1>1, <1>2 DEF DownloadInv, LocalFollows
<1> QED
  BY <1>1, <1>2, <1>3, SameBytes DEF DownloadInv, ProgressFollows

(* Whatever fails, what was written is a beginning of the remote file, and  *)
(* the progress never ahead of it.                                          *)
THEOREM DownloadsAPrefix == DownloadSpec => []LocalIsAPrefix
<1>1. DownloadInv => LocalIsAPrefix
  BY LocalIsPositions DEF LocalIsAPrefix
<1> QED
  BY <1>1, DownloadInvAlways, PTL

(* The file never gets larger than MaxSize; what is asked for is more.      *)
LEMMA SizeIsBounded == DownloadSpec => [](size <= MaxSize)
<1>1. DownloadInit => size <= MaxSize
  BY ReaderAssumption DEF DownloadInit, Init
<1>2. DownloadInv /\ size <= MaxSize /\ [DownloadNext]_downloadVars => (size <= MaxSize)'
  <2> SUFFICES ASSUME DownloadInv, size <= MaxSize, [Next]_vars PROVE size' <= MaxSize
    BY StepsOfReader
  <2>1. size' = size \/ size' \in 0 .. size - 1
    BY DEF Next, Iterate, CallNext, Seek, BeginRead, Filled, WaitRead, Fail, Answer, Truncate,
           Cancel, vars
  <2> QED
    BY <2>1, ReaderAssumption DEF DownloadInv, ReaderInv, TypeOK
<1> QED
  BY <1>1, <1>2, DownloadInvAlways, PTL DEF DownloadSpec

(* A download that returned and was not cancelled has the whole file.       *)
THEOREM DownloadsCompletely == DownloadSpec => []DownloadIsComplete
<1>1. DownloadInv /\ size <= MaxSize => DownloadIsComplete
  <2> SUFFICES ASSUME DownloadInv, size <= MaxSize, step = "returned", ~cancelled
               PROVE  /\ local = Written(Positions(0, Len(local.bytes)))
                      /\ Len(local.bytes) >= size
                      /\ progress = Len(local.bytes)
    BY DEF DownloadIsComplete
  <2>1. pc = "ended" /\ local.old = FALSE
    BY LocalLength DEF DownloadInv, StepsFollow
  <2>2. Len(local.bytes) = Len(out) /\ progress = Len(out)
    BY <2>1 DEF DownloadInv, LocalFollows, ProgressFollows
  <2>3. local = Written(Positions(0, Len(local.bytes)))
    <3>1. local = [bytes |-> local.bytes, old |-> local.old]
      BY DEF DownloadInv, DownloadTyped
    <3> QED
      BY <2>1, <3>1, LocalIsPositions DEF Written
  <2>4. Len(out) >= Length \/ Offset + Len(out) >= size
    BY <2>1 DEF DownloadInv, ReaderInv, Complete
  <2>5. Len(out) \in Nat /\ size \in Nat
    BY DEF DownloadInv, ReaderInv, TypeOK
  <2> QED
    BY <2>2, <2>3, <2>4, <2>5, ReaderAssumption, DownloadAssumption
<1> QED
  BY <1>1, SizeIsBounded, DownloadInvAlways, PTL

-----------------------------------------------------------------------------
(* The download implements the stream *)

(* What the stream sees of the control.                                     *)
LEMMA DownloadStates ==
  /\ step \in {"open", "create", "iterate"} => DownloadState = "open"
  /\ step = "threw" => DownloadState = "stopped"
  /\ step = "returned" /\ cancelled => DownloadState = "stopped"
  /\ step = "returned" /\ ~cancelled => DownloadState = "finished"
  BY DEF DownloadState

(* The same after a step.                                                   *)
LEMMA DownloadStatesAfter ==
  /\ step' \in {"open", "create", "iterate"} => DownloadState' = "open"
  /\ step' = "threw" => DownloadState' = "stopped"
  /\ step' = "returned" /\ cancelled' => DownloadState' = "stopped"
  /\ step' = "returned" /\ ~cancelled' => DownloadState' = "finished"
  BY DEF DownloadState

(* What the disk takes of a buffer are the next bytes of the file.          *)
LEMMA WriteLocalDelivers ==
  ASSUME DownloadInv, WriteLocal
  PROVE  Local!Deliver
<1>1. PICK k \in Len(local.bytes) + 1 .. Len(out) : local' = Written(SubSeq(out, 1, k))
  BY DEF WriteLocal
<1>2. step = "iterate" /\ UNCHANGED step /\ UNCHANGED size
  BY DEF WriteLocal, vars
<1>3. /\ k \in Nat /\ k > Len(local.bytes) /\ k <= Len(out) /\ Len(out) <= Length
      /\ local'.bytes \in Seq(Nat) /\ Len(local'.bytes) = k
      /\ \A j \in 1 .. k : local'.bytes[j] = j - 1
  BY <1>1, WriteLocalWrites DEF DownloadInv, LocalFollows
<1>4. /\ local.bytes \in Seq(Nat) /\ Len(local.bytes) \in Nat
      /\ \A j \in 1 .. Len(local.bytes) : local.bytes[j] = j - 1
  BY LocalLength DEF DownloadInv, LocalFollows
<1> DEFINE m == Len(local.bytes)
           n == k - m
           next == local.bytes \o Positions(m, n)
<1>5. n \in Nat /\ n \in 0 .. Length - m /\ m + n = k
  BY <1>3, <1>4, LocalLength, ReaderAssumption DEF DownloadInv, ReaderInv, TypeOK
<1>6. local'.bytes = next
  <2>1. /\ next \in Seq(Nat) /\ Len(next) = m + n
        /\ \A j \in 1 .. m : next[j] = local.bytes[j]
        /\ \A j \in m + 1 .. m + n : next[j] = m + (j - m) - 1
    BY <1>4, <1>5, ConcatPositions
  <2>2. \A j \in 1 .. k : local'.bytes[j] = next[j]
    <3> SUFFICES ASSUME NEW j \in 1 .. k PROVE local'.bytes[j] = next[j]
      OBVIOUS
    <3>1. local'.bytes[j] = j - 1
      BY <1>3
    <3>2. CASE j \in 1 .. m
      BY <1>4, <2>1, <3>1, <3>2
    <3>3. CASE j \in m + 1 .. m + n
      <4>1. next[j] = m + (j - m) - 1
        BY <2>1, <3>3
      <4>2. m + (j - m) - 1 = j - 1
        BY <1>4
      <4> QED
        BY <3>1, <4>1, <4>2
    <3>4. j \in 1 .. m \/ j \in m + 1 .. m + n
      BY <1>4, <1>5
    <3> QED
      BY <3>2, <3>3, <3>4
  <2> HIDE DEF next
  <2> QED
    BY <1>3, <1>5, <2>1, <2>2, SameBytes
<1>7. next = local.bytes \o [j \in 1 .. n |-> Offset + Len(local.bytes) + j - 1]
  BY <1>4, DownloadAssumption DEF Positions
<1>8. DownloadState = "open" /\ DownloadState' = "open"
  BY <1>2, DownloadStates, DownloadStatesAfter
<1> QED
  BY <1>2, <1>5, <1>6, <1>7, <1>8 DEF Local!Deliver

(* The end of the loop finishes the stream with the whole file, or stops it. *)
LEMMA LeaveLoopCloses ==
  ASSUME DownloadInv, LeaveLoop
  PROVE  Local!Finish \/ Local!Stop
<1>1. step = "iterate" /\ UNCHANGED local /\ UNCHANGED size /\ UNCHANGED cancelled
  BY DEF LeaveLoop, vars
<1>2. DownloadState = "open"
  BY <1>1, DownloadStates
<1>3. CASE step' = "threw" \/ cancelled
  <2>1. DownloadState' = "stopped"
    BY <1>1, <1>3, DownloadStatesAfter DEF LeaveLoop
  <2> QED
    BY <1>1, <1>2, <2>1 DEF Local!Stop
<1>4. CASE step' = "returned" /\ ~cancelled
  <2>1. pc = "ended"
    BY <1>4 DEF LeaveLoop
  <2>2. Len(local.bytes) = Len(out)
    BY <2>1 DEF DownloadInv, LocalFollows
  <2>3. Len(out) >= Length \/ Offset + Len(out) >= size
    BY <1>4, <2>1 DEF DownloadInv, ReaderInv, Complete
  <2>4. DownloadState' = "finished"
    BY <1>1, <1>4, DownloadStatesAfter
  <2> QED
    BY <1>1, <1>2, <2>2, <2>3, <2>4 DEF Local!Finish
<1> QED
  BY <1>3, <1>4 DEF LeaveLoop

(* Opening and creating may fail; the local file is empty either way.       *)
LEMMA OpeningStutters ==
  ASSUME DownloadInv, OpenRemote \/ CreateLocal
  PROVE  Local!Stop \/ UNCHANGED <<local.bytes, size, DownloadState>>
<1>1. /\ step \in {"open", "create"} /\ step' \in {"create", "iterate", "threw"}
      /\ UNCHANGED size /\ local' \in {local, Written(<<>>)}
  BY DEF OpenRemote, CreateLocal, vars
<1>2. local.bytes \in Seq(Nat) /\ Len(local.bytes) = 0
  BY <1>1, LocalLength DEF DownloadInv, StepsFollow, LocalFollows
<1>3. local'.bytes = local.bytes
  BY <1>1, <1>2 DEF Written
<1> QED
  BY <1>1, <1>3, DownloadStates, DownloadStatesAfter DEF Local!Stop

(* The local file grows by the remote file's bytes in order, and the        *)
(* download is finished only when it holds all of them: what is on the disk *)
(* is what an ordinary copy would have put there.                           *)
THEOREM DownloadImplementsStream == DownloadSpec => DownloadsLikeAStream
<1>1. DownloadInit => Local!Init
  <2> SUFFICES ASSUME DownloadInit PROVE Local!Init
    OBVIOUS
  <2>1. DownloadState = "open"
    BY DownloadStates DEF DownloadInit
  <2>2. size \in Nat
    BY ReaderAssumption DEF DownloadInit, Init
  <2>3. local.bytes = <<>>
    BY DEF DownloadInit, Before
  <2> QED
    BY <2>1, <2>2, <2>3 DEF Local!Init
<1>2. DownloadInv /\ DownloadInv' /\ [DownloadNext]_downloadVars
        => [Local!Next]_<<local.bytes, size, DownloadState>>
  <2> SUFFICES ASSUME DownloadInv, DownloadInv', [DownloadNext]_downloadVars
               PROVE  Local!Next \/ UNCHANGED <<local.bytes, size, DownloadState>>
    OBVIOUS
  <2>1. CASE OpenRemote \/ CreateLocal
    BY <2>1, OpeningStutters DEF Local!Next
  <2>2. CASE WriteLocal
    BY <2>2, WriteLocalDelivers DEF Local!Next
  <2>3. CASE WriteLocalFails
    BY <2>3, DownloadStates, DownloadStatesAfter DEF WriteLocalFails, vars, Local!Next, Local!Stop
  <2>4. CASE NextBuffer
    <3>1. UNCHANGED local /\ UNCHANGED size /\ step = "iterate" /\ UNCHANGED step
      BY <2>4 DEF NextBuffer, Iterate, CallNext, Seek, BeginRead, Filled, WaitRead, Fail
    <3> QED
      BY <3>1, DownloadStates, DownloadStatesAfter
  <2>5. CASE LeaveLoop
    BY <2>5, LeaveLoopCloses DEF Local!Next
  <2>6. CASE step \notin {"returned", "threw"} /\ Others
    <3>1. UNCHANGED local /\ UNCHANGED step /\ step \in {"open", "create", "iterate"}
      BY <2>6 DEF Others, DownloadInv, DownloadTyped, Steps
    <3>2. UNCHANGED DownloadState
      BY <3>1, DownloadStates, DownloadStatesAfter
    <3>3. size' \in Nat
      BY DEF DownloadInv, ReaderInv, TypeOK
    <3> QED
      BY <3>1, <3>2, <3>3 DEF Local!Next, Local!Resize
  <2>7. CASE UNCHANGED downloadVars
    BY <2>7 DEF downloadVars, vars, DownloadState
  <2> QED
    BY <2>1, <2>2, <2>3, <2>4, <2>5, <2>6, <2>7 DEF DownloadNext
<1> QED
  BY <1>1, <1>2, DownloadInvAlways, PTL DEF DownloadSpec, DownloadsLikeAStream, Local!Spec
=============================================================================
