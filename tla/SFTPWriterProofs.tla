-------------------------- MODULE SFTPWriterProofs --------------------------
(* An upload that returns has sent the whole file, for every file, chunk,  *)
(* limit and queue, whichever writes the server refuses.                   *)
EXTENDS SFTPWriter, TLAPS

Ends(k) == queue[k].off + queue[k].len

(* Where the oldest request in flight starts. *)
Start == IF queue = <<>> THEN count ELSE queue[1].off

-----------------------------------------------------------------------------
(* The inductive invariant.  The requests in flight tile the file from     *)
(* Start to what was counted.  Below Start everything is stored, as long   *)
(* as no refusal was met.  The server's front lies between the two: behind *)
(* it everything is decided, ahead of it nothing.                          *)
Tiles ==
  /\ fileOffset = count
  /\ \A k \in 1 .. Len(queue) : queue[k].src = queue[k].off /\ Ends(k) <= count
  /\ queue # <<>> => Ends(Len(queue)) = count
  /\ \A j, k \in 1 .. Len(queue) : /\ k = j + 1 => queue[k].off = Ends(j)
                                   /\ j < k => Ends(j) <= queue[k].off

Lags == \A k \in 1 .. Len(queue) :
          count <= queue[k].off + (Len(queue) - k + 1) * WriteLength

Stored ==
  /\ pc # "threw" \/ ~refused => \A p \in 0 .. Total : p < Start => remote[p] = p
  /\ \A k \in 1 .. Len(queue) :
       queue[k].verdict = "ok" => \A p \in queue[k].off .. Ends(k) - 1 : remote[p] = p

Front(m) ==
  /\ Start <= m
  /\ \A k \in 1 .. Len(queue) : /\ queue[k].verdict = "none" => m <= queue[k].off
                                /\ queue[k].verdict # "none" => Ends(k) <= m
  /\ ~refused /\ remote[0] # Before =>
       \A p \in 0 .. Total : remote[p] = IF p < m THEN p ELSE Hole

Opened ==
  /\ remote[0] = Before => pc \in {"openRemote", "threw"}
  /\ pc = "openRemote" \/ remote[0] = Before => queue = <<>> /\ count = 0

PcFollows ==
  /\ pc = "write" => count < Total
  /\ pc \in {"flush", "returned"} => count = Total
  /\ pc = "returned" => queue = <<>>

Refusals == ~refused => \A k \in 1 .. Len(queue) : queue[k].verdict # "error"

WriterInv ==
  /\ TypeOK
  /\ Tiles /\ Lags /\ Stored
  /\ \E m \in 0 .. count : Front(m)
  /\ Opened /\ PcFollows /\ Refusals

-----------------------------------------------------------------------------
(* Facts about the operators *)

(* A chunk is never longer than what the server takes at once.              *)
LEMMA ChunkIsSent ==
  ASSUME NEW rest \in Nat
  PROVE  LET len == Lesser(WriteLength, rest) IN
         /\ len \in Nat /\ len <= rest /\ len <= WriteLength
         /\ Lesser(len, MaxWriteLength) = len
         /\ WriteLength \in Nat
  BY WriterAssumption DEF Lesser, WriteLength

(* A verdict changes one request and leaves the shape of the queue.         *)
LEMMA VerdictShape ==
  ASSUME NEW q \in Seq(Request), NEW k \in 1 .. Len(q), NEW v \in Verdict
  PROVE  LET r == [q EXCEPT ![k].verdict = v] IN
         /\ r \in Seq(Request) /\ Len(r) = Len(q)
         /\ r[k].verdict = v
         /\ \A j \in 1 .. Len(q) :
              /\ r[j].off = q[j].off /\ r[j].src = q[j].src /\ r[j].len = q[j].len
              /\ j # k => r[j].verdict = q[j].verdict
<1> DEFINE r == [q EXCEPT ![k].verdict = v]
<1>1. q \in [1 .. Len(q) -> Request] /\ Len(q) \in Nat
  OBVIOUS
<1>2. [q[k] EXCEPT !.verdict = v] \in Request
  BY <1>1 DEF Request
<1>3. r \in [1 .. Len(q) -> Request]
  BY <1>1, <1>2
<1>4. r \in Seq(Request) /\ Len(r) = Len(q)
  BY <1>1, <1>3
<1>5. \A j \in 1 .. Len(q) : j # k => r[j] = q[j]
  BY <1>1
<1>6. r[k] = [q[k] EXCEPT !.verdict = v]
  BY <1>1
<1>7. /\ r[k].off = q[k].off /\ r[k].src = q[k].src /\ r[k].len = q[k].len
      /\ r[k].verdict = v
  BY <1>1, <1>6 DEF Request
<1> QED
  BY <1>4, <1>5, <1>7

(* A request sent last leaves the others where they are.                    *)
LEMMA SentLast ==
  ASSUME NEW q \in Seq(Request), NEW r \in Request
  PROVE  /\ Append(q, r) \in Seq(Request) /\ Len(Append(q, r)) = Len(q) + 1
         /\ Append(q, r) # <<>>
         /\ Append(q, r)[Len(q) + 1] = r
         /\ \A j \in 1 .. Len(q) : Append(q, r)[j] = q[j]
  OBVIOUS

(* Taking the oldest request moves the others up.                           *)
LEMMA OldestTaken ==
  ASSUME NEW q \in Seq(Request), q # <<>>
  PROVE  /\ Tail(q) \in Seq(Request) /\ Len(q) \in Nat \ {0} /\ Len(Tail(q)) = Len(q) - 1
         /\ Head(q) = q[1]
         /\ \A j \in 1 .. Len(q) - 1 : Tail(q)[j] = q[j + 1]
         /\ Tail(q) = <<>> <=> Len(q) = 1
<1>1. /\ Tail(q) \in Seq(Request) /\ Len(Tail(q)) = Len(q) - 1
      /\ Head(q) = q[1] /\ Len(q) \in Nat \ {0}
  OBVIOUS
<1>2. \A j \in 1 .. Len(q) - 1 : Tail(q)[j] = q[j + 1]
  OBVIOUS
<1>3. \A t \in Seq(Request) : t = <<>> <=> Len(t) = 0
  OBVIOUS
<1>4. Tail(q) = <<>> <=> Len(q) = 1
  BY <1>1, <1>3
<1> QED
  BY <1>1, <1>2, <1>4

(* The fields of the requests in flight have their types.                   *)
LEMMA RequestsTyped ==
  ASSUME TypeOK
  PROVE  /\ queue \in Seq(Request) /\ Len(queue) \in Nat
         /\ count \in Nat /\ count <= Total /\ Total \in Nat /\ fileOffset \in Nat
         /\ QueueSize \in Nat /\ WriteLength \in Nat
         /\ \A j \in 1 .. Len(queue) :
              /\ queue[j].off \in Nat /\ queue[j].len \in Nat /\ Ends(j) \in Nat
              /\ queue[j].verdict \in Verdict
<1>1. \A j \in 1 .. Len(queue) : queue[j] \in Request
  BY DEF TypeOK
<1>2. \A r \in Request : r.off \in Nat /\ r.len \in Nat /\ r.verdict \in Verdict
  BY DEF Request
<1>3. Len(queue) \in Nat /\ count \in Nat /\ count <= Total /\ fileOffset \in Nat
  BY WriterAssumption DEF TypeOK
<1>4. WriteLength \in Nat /\ QueueSize \in Nat /\ Total \in Nat
  BY WriterAssumption DEF WriteLength, Lesser
<1> QED
  BY <1>1, <1>2, <1>3, <1>4 DEF TypeOK, Ends

(* Start is a position in the file.                                         *)
LEMMA StartTyped ==
  ASSUME TypeOK, Tiles
  PROVE  Start \in Nat /\ Start <= count
<1>1. CASE queue = <<>>
  BY <1>1, RequestsTyped DEF Start
<1>2. CASE queue # <<>>
  <2>1. 1 \in 1 .. Len(queue)
    BY <1>2, OldestTaken, RequestsTyped
  <2>2. queue[1].off \in Nat /\ queue[1].len \in Nat /\ queue[1].off + queue[1].len <= count
    BY <2>1, RequestsTyped DEF Tiles, Ends
  <2> QED
    BY <1>2, <2>2, RequestsTyped DEF Start
<1> QED
  BY <1>1, <1>2

-----------------------------------------------------------------------------
(* The inductive invariant, step by step *)

(* Before the upload nothing is in flight and the remote file is as it was. *)
LEMMA WriterInitially == Init => WriterInv
<1> SUFFICES ASSUME Init PROVE WriterInv
  OBVIOUS
<1>1. /\ pc = "openRemote" /\ count = 0 /\ queue = <<>> /\ fileOffset = 0
      /\ remote = [p \in 0 .. Total |-> Before] /\ refused = FALSE
  BY DEF Init
<1>2. queue \in Seq(Request) /\ Len(queue) = 0
  BY <1>1
<1>3. Before \in 0 .. Before /\ remote[0] = Before
  BY <1>1, WriterAssumption DEF Before
<1>4. TypeOK
  BY <1>1, <1>2, <1>3, WriterAssumption DEF TypeOK
<1>5. Start = 0 /\ Tiles /\ Lags /\ Stored
  BY <1>1, <1>2 DEF Start, Tiles, Lags, Stored
<1>6. Front(0) /\ 0 \in 0 .. count
  BY <1>1, <1>2, <1>3, <1>5 DEF Front
<1>7. Opened /\ PcFollows /\ Refusals
  BY <1>1, <1>2 DEF Opened, PcFollows, Refusals
<1> QED
  BY <1>4, <1>5, <1>6, <1>7 DEF WriterInv

(* The remote file is emptied before anything is sent.                      *)
LEMMA OpenRemoteKeeps == WriterInv /\ OpenRemote => WriterInv'
<1> SUFFICES ASSUME WriterInv, OpenRemote PROVE WriterInv'
  OBVIOUS
<1>1. /\ pc' = "openLocal" /\ remote' = [p \in 0 .. Total |-> Hole]
      /\ count' = 0 /\ queue' = <<>> /\ fileOffset' = 0 /\ refused' = refused
  BY DEF OpenRemote, WriterInv, Opened, Tiles
<1>2. Hole \in 0 .. Before /\ Hole # Before /\ 0 \in 0 .. Total
  BY WriterAssumption DEF Hole, Before
<1>3. /\ remote' \in [0 .. Total -> 0 .. Before] /\ remote'[0] # Before
      /\ \A p \in 0 .. Total : remote'[p] = Hole
  BY <1>1, <1>2
<1>4. queue' \in Seq(Request) /\ Len(queue') = 0
  BY <1>1
<1>5. TypeOK'
  <2>1. 0 \in 0 .. Total /\ Len(queue') <= QueueSize /\ refused' \in BOOLEAN
    BY <1>1, <1>4, WriterAssumption DEF WriterInv, TypeOK
  <2> QED
    BY <1>1, <1>3, <1>4, <2>1 DEF TypeOK
<1>6. Start' = 0 /\ Tiles' /\ Lags' /\ Stored'
  BY <1>1, <1>4 DEF Start, Tiles, Lags, Stored
<1>7. Front(0)' /\ 0 \in 0 .. count'
  BY <1>1, <1>3, <1>4, <1>6 DEF Front
<1>8. Opened' /\ PcFollows' /\ Refusals'
  BY <1>1, <1>3, <1>4 DEF Opened, PcFollows, Refusals
<1> QED
  BY <1>5, <1>6, <1>7, <1>8 DEF WriterInv

(* Steps that send nothing and wait for nothing.                            *)
LEMMA ControlKeeps ==
  ASSUME WriterInv,
         OpenLocal \/ ReadLocal \/ Throw \/ (Flush /\ queue = <<>>) \/ UNCHANGED vars
  PROVE  WriterInv'
<1>1. /\ count' = count /\ queue' = queue /\ fileOffset' = fileOffset /\ remote' = remote
      /\ refused' = refused
  BY DEF OpenLocal, ReadLocal, Throw, Flush, FlushOldest, vars
<1>2. /\ pc' \in {"read", "write", "flush", "returned", "threw"} \/ pc' = pc
      /\ pc' = "write" => count < Total \/ pc' = pc
      /\ pc' = "flush" => count = Total \/ pc' = pc
      /\ pc' = "returned" => (pc = "flush" /\ queue = <<>>) \/ pc' = pc
  BY RequestsTyped DEF WriterInv, OpenLocal, ReadLocal, Throw, Flush, FlushOldest, vars
<1>3. pc' # "threw" /\ pc' # pc => pc \in {"openLocal", "read", "flush"}
  BY DEF OpenLocal, ReadLocal, Throw, Flush, FlushOldest, vars
<1>4. TypeOK'
  BY <1>1, <1>2 DEF WriterInv, TypeOK
<1>5. Tiles' /\ Lags' /\ Refusals' /\ Start' = Start
  BY <1>1 DEF WriterInv, Tiles, Lags, Refusals, Ends, Start
<1>6. Stored'
  BY <1>1, <1>3, <1>5 DEF WriterInv, Stored, Ends
<1>7. \E m \in 0 .. count' : Front(m)'
  BY <1>1, <1>5 DEF WriterInv, Front, Ends
<1>8. Opened'
  BY <1>1, <1>2, <1>3 DEF WriterInv, Opened
<1>9. PcFollows'
  BY <1>1, <1>2 DEF WriterInv, PcFollows
<1> QED
  BY <1>4, <1>5, <1>6, <1>7, <1>8, <1>9 DEF WriterInv

-----------------------------------------------------------------------------
(* A write is sent *)

(* The new request continues the tiling where the last one ended.           *)
LEMMA BeginWriteKeeps == WriterInv /\ BeginWrite => WriterInv'
<1> SUFFICES ASSUME WriterInv, BeginWrite PROVE WriterInv'
  OBVIOUS
<1> DEFINE len == Lesser(WriteLength, Total - count)
           new == [off |-> fileOffset, src |-> count, len |-> len, verdict |-> "none"]
<1>n. PICK n \in Nat : n = Len(queue)
  BY RequestsTyped DEF WriterInv
<1>1. /\ queue \in Seq(Request) /\ n \in Nat /\ count \in Nat /\ Total \in Nat /\ count < Total
      /\ WriteLength \in Nat /\ fileOffset = count
      /\ \A j \in 1 .. n : queue[j].off \in Nat /\ queue[j].len \in Nat /\ Ends(j) \in Nat
  BY <1>n, RequestsTyped DEF WriterInv, BeginWrite, PcFollows, Tiles
<1>2. Total - count \in Nat
  BY <1>1
<1>3. /\ len \in Nat /\ len <= Total - count /\ len <= WriteLength
      /\ Lesser(len, MaxWriteLength) = len
  BY <1>2, ChunkIsSent
<1>4. /\ pc = "write" /\ pc' = "read" /\ n < QueueSize
      /\ queue' = Append(queue, new) /\ fileOffset' = count + len /\ count' = count + len
      /\ remote' = remote /\ refused' = refused
  BY <1>n, <1>1, <1>3 DEF BeginWrite
<1> HIDE DEF len
<1>5. new \in Request
  BY <1>1, <1>3 DEF Request, Verdict
<1>6. /\ queue' \in Seq(Request) /\ Len(queue') = n + 1 /\ queue' # <<>>
      /\ queue'[n + 1] = new
      /\ \A j \in 1 .. n : queue'[j] = queue[j]
  <2> HIDE DEF new
  <2> QED
    BY <1>n, <1>1, <1>4, <1>5, SentLast
<1>7. /\ queue'[n + 1].off = count /\ queue'[n + 1].src = count /\ queue'[n + 1].len = len
      /\ queue'[n + 1].verdict = "none" /\ Ends(n + 1)' = count + len
  BY <1>1, <1>6 DEF Ends
<1>8. \A j \in 1 .. n : Ends(j)' = Ends(j)
  BY <1>6 DEF Ends
<1>9. \A j \in 1 .. n + 1 : j \in 1 .. n \/ j = n + 1
  BY <1>1
<1> HIDE DEF new
<1>10. queue = <<>> <=> n = 0
  BY <1>1, <1>n
<1>11. Start' = Start
  <2>1. CASE n = 0
    BY <1>6, <1>7, <1>10, <2>1 DEF Start
  <2>2. CASE n # 0
    <3>1. 1 \in 1 .. n
      BY <1>1, <2>2
    <3> QED
      BY <1>6, <1>10, <2>2, <3>1 DEF Start
  <2> QED
    BY <2>1, <2>2
<1>12. TypeOK'
  <2>1. count + len \in 0 .. Total /\ n + 1 <= QueueSize
    BY <1>1, <1>3, <1>4, WriterAssumption
  <2> QED
    BY <1>4, <1>6, <2>1 DEF WriterInv, TypeOK
<1>13. Tiles'
  <2>1. \A k \in 1 .. n + 1 : queue'[k].src = queue'[k].off /\ Ends(k)' <= count'
    <3>1. \A k \in 1 .. n : queue'[k].src = queue'[k].off /\ Ends(k) <= count
      BY <1>n, <1>6 DEF WriterInv, Tiles
    <3>2. \A k \in 1 .. n : Ends(k)' <= count'
      BY <1>1, <1>3, <1>4, <1>8, <3>1
    <3>3. queue'[n + 1].src = queue'[n + 1].off /\ Ends(n + 1)' <= count'
      BY <1>1, <1>3, <1>4, <1>7
    <3> QED
      BY <1>9, <3>1, <3>2, <3>3
  <2>2. ASSUME NEW j \in 1 .. n + 1, NEW k \in 1 .. n + 1
        PROVE  /\ k = j + 1 => queue'[k].off = Ends(j)'
               /\ j < k => Ends(j)' <= queue'[k].off
    <3>1. CASE k \in 1 .. n /\ j \in 1 .. n
      BY <1>n, <1>6, <1>8, <3>1 DEF WriterInv, Tiles
    <3>2. CASE k = n + 1 /\ j \in 1 .. n
      <4>1. Ends(j) <= count
        BY <1>n, <3>2 DEF WriterInv, Tiles
      <4>2. k = j + 1 => Ends(j) = count
        <5>1. k = j + 1 => j = Len(queue) /\ queue # <<>>
          BY <1>n, <1>1, <1>10, <3>2
        <5> QED
          BY <5>1 DEF WriterInv, Tiles
      <4> QED
        BY <1>7, <1>8, <3>2, <4>1, <4>2
    <3>3. CASE j = n + 1
      BY <1>1, <3>3
    <3> QED
      BY <1>9, <3>1, <3>2, <3>3
  <2> QED
    <3>1. \A k \in 1 .. Len(queue') : queue'[k].src = queue'[k].off /\ Ends(k)' <= count'
      BY <1>6, <2>1
    <3>2. Ends(Len(queue))' = count' /\ fileOffset' = count'
      BY <1>4, <1>6, <1>7 DEF Ends
    <3>3. \A j, k \in 1 .. Len(queue') : /\ k = j + 1 => queue'[k].off = Ends(j)'
                                         /\ j < k => Ends(j)' <= queue'[k].off
      BY <1>6, <2>2
    <3> QED
      BY <3>1, <3>2, <3>3 DEF Tiles
<1>14. Lags'
  <2> SUFFICES ASSUME NEW k \in 1 .. n + 1
               PROVE  count + len <= queue'[k].off + ((n + 1) - k + 1) * WriteLength
    BY <1>4, <1>6 DEF Lags
  <2>1. CASE k = n + 1
    BY <1>1, <1>3, <1>7, <2>1
  <2>2. CASE k \in 1 .. n
    <3>1. count <= queue[k].off + (n - k + 1) * WriteLength
      BY <1>n, <2>2 DEF WriterInv, Lags
    <3>2. (n - k + 1) \in Nat /\ (n + 1) - k + 1 = (n - k + 1) + 1
      BY <1>1, <2>2
    <3>3. \A c, l, w, o, i \in Nat : c <= o + i * w /\ l <= w => c + l <= o + (i + 1) * w
      <4>1. \A w, i \in Nat : (i + 1) * w = i * w + w /\ i * w \in Nat
        OBVIOUS
      <4>2. \A c, l, w, o, x \in Nat : c <= o + x /\ l <= w => c + l <= o + (x + w)
        OBVIOUS
      <4> QED
        BY <4>1, <4>2
    <3>4. queue[k].off \in Nat /\ queue'[k].off = queue[k].off
      BY <1>n, <1>1, <1>6, <2>2
    <3> QED
      BY <1>1, <1>3, <3>1, <3>2, <3>3, <3>4
  <2> QED
    BY <1>9, <2>1, <2>2
<1>15. Stored'
  <2>1. \A p \in 0 .. Total : p < Start => remote[p] = p
    BY <1>4 DEF WriterInv, Stored
  <2>2. \A k \in 1 .. n : queue[k].verdict = "ok" => \A p \in queue[k].off .. Ends(k) - 1 : remote[p] = p
    BY <1>n DEF WriterInv, Stored
  <2>3. \A k \in 1 .. n + 1 : queue'[k].verdict = "ok" =>
           \A p \in queue'[k].off .. Ends(k)' - 1 : remote[p] = p
    BY <1>6, <1>7, <1>8, <1>9, <2>2
  <2> QED
    BY <1>4, <1>6, <1>11, <2>1, <2>3 DEF Stored
<1>16. \E m \in 0 .. count' : Front(m)'
  <2>1. PICK m \in 0 .. count : Front(m)
    BY DEF WriterInv
  <2>2. m \in 0 .. count' /\ m <= count
    BY <1>1, <1>3, <1>4
  <2>3. \A k \in 1 .. n + 1 : /\ queue'[k].verdict = "none" => m <= queue'[k].off
                              /\ queue'[k].verdict # "none" => Ends(k)' <= m
    BY <1>n, <1>6, <1>7, <1>8, <1>9, <2>1, <2>2 DEF Front
  <2> QED
    BY <1>4, <1>6, <1>11, <2>1, <2>2, <2>3 DEF Front
<1>17. Opened'
  BY <1>4 DEF WriterInv, Opened
<1>18. PcFollows' /\ Refusals'
  BY <1>n, <1>4, <1>6, <1>7, <1>9 DEF WriterInv, PcFollows, Refusals
<1> QED
  BY <1>12, <1>13, <1>14, <1>15, <1>16, <1>17, <1>18 DEF WriterInv

-----------------------------------------------------------------------------
(* The oldest write is waited for *)

(* What was stored grows by a write that succeeded; a refused one throws.   *)
LEMMA FlushOldestKeeps ==
  ASSUME WriterInv, MakeRoom \/ Flush, queue # <<>>
  PROVE  WriterInv'
<1>1. /\ pc \in {"write", "flush"} /\ queue' = Tail(queue)
      /\ count' = count /\ fileOffset' = fileOffset /\ remote' = remote /\ refused' = refused
      /\ \/ Head(queue).verdict = "ok" /\ pc' = pc
         \/ Head(queue).verdict = "error" /\ pc' = "threw"
  BY DEF MakeRoom, Flush, FlushOldest
<1>n. PICK n \in Nat : n = Len(queue)
  BY RequestsTyped DEF WriterInv
<1>2. /\ queue \in Seq(Request) /\ count \in Nat /\ WriteLength \in Nat
      /\ \A j \in 1 .. n : queue[j].off \in Nat /\ queue[j].len \in Nat /\ Ends(j) \in Nat
  BY <1>n, RequestsTyped DEF WriterInv
<1>3. /\ n # 0 /\ 1 \in 1 .. n /\ queue' \in Seq(Request) /\ Len(queue') = n - 1
      /\ Head(queue) = queue[1]
      /\ queue' = <<>> <=> n = 1
      /\ \A j \in 1 .. n - 1 : queue'[j] = queue[j + 1]
  <2>1. /\ Tail(queue) \in Seq(Request) /\ n \in Nat \ {0} /\ Len(Tail(queue)) = n - 1
        /\ Head(queue) = queue[1]
        /\ \A j \in 1 .. n - 1 : Tail(queue)[j] = queue[j + 1]
        /\ Tail(queue) = <<>> <=> n = 1
    BY <1>n, <1>2, OldestTaken
  <2> QED
    BY <1>1, <2>1
<1>4. \A j \in 1 .. n - 1 : j + 1 \in 1 .. n /\ Ends(j)' = Ends(j + 1)
  <2>1. \A j \in 1 .. n - 1 : j + 1 \in 1 .. n
    BY <1>n
  <2> QED
    BY <1>3, <2>1 DEF Ends
<1>5. Start = queue[1].off /\ Start' = Ends(1)
  <2>1. n = 1 => Ends(1) = count
    BY <1>n DEF WriterInv, Tiles
  <2>2. n # 1 => 2 \in 1 .. n /\ 1 \in 1 .. n - 1 /\ queue'[1] = queue[2]
    BY <1>3
  <2>3. n # 1 => queue[2].off = Ends(1)
    BY <1>n, <1>3, <2>2 DEF WriterInv, Tiles
  <2> QED
    BY <1>1, <1>3, <2>1, <2>2, <2>3 DEF Start
<1>6. TypeOK'
  <2>1. pc' \in {"openRemote", "openLocal", "read", "write", "flush", "returned", "threw"}
    BY <1>1
  <2>2. n - 1 <= QueueSize
    BY <1>n, WriterAssumption DEF WriterInv, TypeOK
  <2> QED
    BY <1>1, <1>3, <2>1, <2>2 DEF WriterInv, TypeOK
<1>7. Tiles'
  <2>1. \A k \in 1 .. n - 1 : queue'[k].src = queue'[k].off /\ Ends(k)' <= count'
    BY <1>n, <1>1, <1>3, <1>4 DEF WriterInv, Tiles
  <2>2. n # 1 => Ends(n - 1)' = count'
    <3>1. n # 1 => n - 1 \in 1 .. n - 1 /\ (n - 1) + 1 = n
      BY <1>3
    <3> QED
      BY <1>n, <1>1, <1>3, <1>4, <3>1 DEF WriterInv, Tiles
  <2>3. ASSUME NEW j \in 1 .. n - 1, NEW k \in 1 .. n - 1
        PROVE  /\ k = j + 1 => queue'[k].off = Ends(j)'
               /\ j < k => Ends(j)' <= queue'[k].off
    <3>1. /\ k + 1 = (j + 1) + 1 => queue[k + 1].off = Ends(j + 1)
          /\ j + 1 < k + 1 => Ends(j + 1) <= queue[k + 1].off
      BY <1>n, <1>4 DEF WriterInv, Tiles
    <3> QED
      BY <1>3, <1>4, <3>1
  <2>4. queue' # <<>> => Ends(Len(queue))' = count'
    <3>1. Ends(Len(queue))' = queue'[n - 1].off + queue'[n - 1].len
      BY <1>3 DEF Ends
    <3> QED
      BY <1>3, <2>2, <3>1 DEF Ends
  <2>5. \A k \in 1 .. Len(queue') : queue'[k].src = queue'[k].off /\ Ends(k)' <= count'
    BY <1>3, <2>1
  <2>6. \A j, k \in 1 .. Len(queue') : /\ k = j + 1 => queue'[k].off = Ends(j)'
                                       /\ j < k => Ends(j)' <= queue'[k].off
    BY <1>3, <2>3
  <2>7. fileOffset' = count'
    BY <1>1 DEF WriterInv, Tiles
  <2> QED
    BY <2>4, <2>5, <2>6, <2>7 DEF Tiles
<1>8. Lags'
  <2> SUFFICES ASSUME NEW k \in 1 .. n - 1
               PROVE  count <= queue'[k].off + ((n - 1) - k + 1) * WriteLength
    BY <1>1, <1>3 DEF Lags
  <2>1. count <= queue[k + 1].off + (n - (k + 1) + 1) * WriteLength
    BY <1>n, <1>4 DEF WriterInv, Lags
  <2>2. (n - 1) - k + 1 = n - (k + 1) + 1
    OBVIOUS
  <2> QED
    BY <1>3, <2>1, <2>2
<1>9. Stored'
  <2>1. pc' # "threw" \/ ~refused' => queue[1].verdict = "ok" /\ (pc # "threw" \/ ~refused)
    BY <1>n, <1>1, <1>3 DEF WriterInv, Refusals
  <2>2. pc' # "threw" \/ ~refused' => \A p \in 0 .. Total : p < Start' => remote'[p] = p
    <3> SUFFICES ASSUME pc' # "threw" \/ ~refused', NEW p \in 0 .. Total, p < Ends(1)
                 PROVE  remote[p] = p
      BY <1>1, <1>5
    <3>1. CASE p < queue[1].off
      BY <1>5, <2>1, <3>1 DEF WriterInv, Stored
    <3>2. CASE p >= queue[1].off
      <4>1. p \in queue[1].off .. Ends(1) - 1
        BY <1>2, <1>3, <3>2, WriterAssumption
      <4> QED
        BY <1>n, <1>3, <2>1, <4>1 DEF WriterInv, Stored
    <3> QED
      BY <1>2, <1>3, <3>1, <3>2, WriterAssumption
  <2>3. \A k \in 1 .. n - 1 : queue'[k].verdict = "ok" =>
           \A p \in queue'[k].off .. Ends(k)' - 1 : remote'[p] = p
    BY <1>n, <1>1, <1>3, <1>4 DEF WriterInv, Stored
  <2> QED
    BY <1>3, <2>2, <2>3 DEF Stored
<1>10. \E m \in 0 .. count' : Front(m)'
  <2>1. PICK m \in 0 .. count : Front(m)
    BY DEF WriterInv
  <2>2. Ends(1) <= m
    BY <1>n, <1>1, <1>3, <2>1 DEF Front
  <2>3. \A k \in 1 .. n - 1 : /\ queue'[k].verdict = "none" => m <= queue'[k].off
                              /\ queue'[k].verdict # "none" => Ends(k)' <= m
    BY <1>n, <1>3, <1>4, <2>1 DEF Front
  <2> QED
    BY <1>1, <1>3, <1>5, <2>1, <2>2, <2>3 DEF Front
<1>11. Opened'
  BY <1>1 DEF WriterInv, Opened
<1>12. PcFollows'
  BY <1>1 DEF WriterInv, PcFollows
<1>13. Refusals'
  BY <1>n, <1>1, <1>3, <1>4 DEF WriterInv, Refusals
<1> QED
  BY <1>6, <1>7, <1>8, <1>9, <1>10, <1>11, <1>12, <1>13 DEF WriterInv

-----------------------------------------------------------------------------
(* The server decides on a write *)

(* Everything sent before the first undecided request is behind the front,  *)
(* and the front is where that request starts.                              *)
LEMMA FrontIsAtUndecided ==
  ASSUME TypeOK, Tiles, NEW m \in 0 .. count, Front(m), NEW k \in 1 .. Len(queue),
         queue[k].verdict = "none", \A j \in 1 .. k - 1 : queue[j].verdict # "none"
  PROVE  m = queue[k].off
<1>1. /\ queue[k].off \in Nat /\ m \in Nat /\ k \in Nat /\ k <= Len(queue) /\ Len(queue) \in Nat
      /\ m <= queue[k].off
  BY RequestsTyped DEF Front
<1>2. CASE k = 1
  <2>1. queue # <<>>
    BY <1>1
  <2>2. queue[1].off <= m
    BY <2>1 DEF Front, Start
  <2> QED
    BY <1>1, <1>2, <2>2
<1>3. CASE k # 1
  <2>1. k - 1 \in 1 .. Len(queue) /\ k - 1 \in 1 .. k - 1 /\ k = (k - 1) + 1
    BY <1>1, <1>3
  <2>2. queue[k].off = Ends(k - 1) /\ Ends(k - 1) <= m
    BY <2>1 DEF Tiles, Front
  <2> QED
    BY <1>1, <2>2
<1> QED
  BY <1>2, <1>3

(* A write carried out puts the bytes of the chunk where they belong.       *)
LEMMA StorePutsInPlace ==
  ASSUME TypeOK, Tiles, NEW k \in 1 .. Len(queue), remote' = Store(queue[k])
  PROVE  /\ remote' \in [0 .. Total -> 0 .. Before]
         /\ \A p \in 0 .. Total :
              remote'[p] = IF p \in queue[k].off .. Ends(k) - 1 THEN p ELSE remote[p]
<1>1. /\ queue[k].off \in Nat /\ queue[k].len \in Nat /\ queue[k].src = queue[k].off
      /\ Total \in Nat
  BY RequestsTyped DEF Tiles
<1>2. \A p \in 0 .. Total : queue[k].src + (p - queue[k].off) = p
  BY <1>1
<1>3. \A p \in 0 .. Total :
        remote'[p] = IF p \in queue[k].off .. Ends(k) - 1 THEN p ELSE remote[p]
  <2> SUFFICES ASSUME NEW p \in 0 .. Total
               PROVE  remote'[p] = IF p \in queue[k].off .. Ends(k) - 1 THEN p ELSE remote[p]
    OBVIOUS
  <2>1. remote'[p] = IF p \in queue[k].off .. queue[k].off + queue[k].len - 1
                     THEN queue[k].src + (p - queue[k].off) ELSE remote[p]
    BY DEF Store
  <2>2. Ends(k) - 1 = queue[k].off + queue[k].len - 1
    BY <1>1 DEF Ends
  <2>3. queue[k].src + (p - queue[k].off) = p
    BY <1>2
  <2> QED
    BY <2>1, <2>2, <2>3
<1>4. \A p \in 0 .. Total : p \in 0 .. Before /\ remote[p] \in 0 .. Before
  BY <1>1 DEF TypeOK, Before
<1>5. remote' = [p \in 0 .. Total |-> remote'[p]]
  BY DEF Store
<1>6. \A p \in 0 .. Total : remote'[p] \in 0 .. Before
  BY <1>3, <1>4
<1> QED
  BY <1>3, <1>5, <1>6

(* The front moves over the request decided on.                             *)
LEMMA AnswerKeeps == WriterInv /\ Answer => WriterInv'
<1> SUFFICES ASSUME WriterInv, Answer PROVE WriterInv'
  OBVIOUS
<1>n. PICK n \in Nat : n = Len(queue)
  BY RequestsTyped DEF WriterInv
<1>1. PICK k \in 1 .. n :
        /\ queue[k].verdict = "none"
        /\ \A j \in 1 .. k - 1 : queue[j].verdict # "none"
        /\ \/ /\ queue' = [queue EXCEPT ![k].verdict = "ok"]
              /\ remote' = Store(queue[k]) /\ refused' = refused
           \/ /\ queue' = [queue EXCEPT ![k].verdict = "error"]
              /\ remote' = remote /\ refused' = TRUE
        /\ pc' = pc /\ count' = count /\ fileOffset' = fileOffset
  BY <1>n DEF Answer
<1>2. /\ queue \in Seq(Request) /\ count \in Nat /\ count <= Total /\ Total \in Nat
      /\ \A j \in 1 .. n : /\ queue[j].off \in Nat /\ queue[j].len \in Nat /\ Ends(j) \in Nat
                           /\ Ends(j) <= count
  BY <1>n, RequestsTyped DEF WriterInv, Tiles
<1>3. PICK v \in {"ok", "error"} :
        /\ queue' = [queue EXCEPT ![k].verdict = v]
        /\ v = "ok" => remote' = Store(queue[k]) /\ refused' = refused
        /\ v = "error" => remote' = remote /\ refused' = TRUE
  BY <1>1
<1>4. /\ queue' \in Seq(Request) /\ Len(queue') = n
      /\ queue'[k].verdict = v
      /\ \A j \in 1 .. n : /\ queue'[j].off = queue[j].off /\ queue'[j].src = queue[j].src
                           /\ queue'[j].len = queue[j].len
                           /\ j # k => queue'[j].verdict = queue[j].verdict
  <2>1. v \in Verdict
    BY DEF Verdict
  <2>2. k \in 1 .. Len(queue) /\ queue \in Seq(Request)
    BY <1>n, <1>2
  <2> QED
    BY <1>n, <1>3, <2>1, <2>2, VerdictShape
<1>5. queue # <<>> /\ queue' # <<>> /\ 1 \in 1 .. n
  BY <1>n, <1>2, <1>4
<1>6. \A j \in 1 .. n : Ends(j)' = Ends(j)
  BY <1>4 DEF Ends
<1>7. Start' = Start
  BY <1>4, <1>5 DEF Start
<1>8. /\ remote' \in [0 .. Total -> 0 .. Before] /\ refused' \in BOOLEAN
      /\ v = "ok" => \A p \in 0 .. Total :
           remote'[p] = IF p \in queue[k].off .. Ends(k) - 1 THEN p ELSE remote[p]
  BY <1>n, <1>3, StorePutsInPlace DEF WriterInv, TypeOK
<1>9. TypeOK'
  BY <1>n, <1>1, <1>4, <1>8 DEF WriterInv, TypeOK
<1>10. Tiles'
  <2>1. \A j \in 1 .. n : queue'[j].src = queue'[j].off /\ Ends(j)' <= count'
    BY <1>n, <1>1, <1>4, <1>6 DEF WriterInv, Tiles
  <2>2. Ends(n) = count /\ n \in 1 .. n
    BY <1>n, <1>5 DEF WriterInv, Tiles
  <2>3. Ends(Len(queue))' = Ends(n)'
    BY <1>4 DEF Ends
  <2>4. \A i, j \in 1 .. n : /\ j = i + 1 => queue'[j].off = Ends(i)'
                             /\ i < j => Ends(i)' <= queue'[j].off
    BY <1>n, <1>4, <1>6 DEF WriterInv, Tiles
  <2>5. fileOffset' = count' /\ count' = count
    BY <1>1 DEF WriterInv, Tiles
  <2> QED
    BY <1>4, <1>6, <2>1, <2>2, <2>3, <2>4, <2>5 DEF Tiles
<1>11. Lags'
  <2>1. \A j \in 1 .. n : count' <= queue'[j].off + (n - j + 1) * WriteLength
    BY <1>n, <1>1, <1>4 DEF WriterInv, Lags
  <2> QED
    BY <1>4, <2>1 DEF Lags
<1>12. Stored'
  <2>1. pc' # "threw" \/ ~refused' => pc # "threw" \/ ~refused
    BY <1>1, <1>3
  <2>2. \A p \in 0 .. Total : remote[p] = p => remote'[p] = p
    BY <1>3, <1>8
  <2>3. \A j \in 1 .. n : queue[j].verdict = "ok" =>
          \A p \in queue[j].off .. Ends(j) - 1 : p \in 0 .. Total /\ remote[p] = p
    BY <1>n, <1>2 DEF WriterInv, Stored
  <2>4. v = "ok" => \A p \in queue[k].off .. Ends(k) - 1 : p \in 0 .. Total /\ remote'[p] = p
    <3>1. queue[k].off \in Nat /\ Ends(k) \in Nat /\ Ends(k) <= Total
      BY <1>2
    <3>2. \A p \in queue[k].off .. Ends(k) - 1 : p \in 0 .. Total
      BY <1>2, <3>1
    <3> QED
      BY <1>8, <3>2
  <2>5. \A j \in 1 .. n : queue'[j].verdict = "ok" =>
          \A p \in queue'[j].off .. Ends(j)' - 1 : remote'[p] = p
    <3> SUFFICES ASSUME NEW j \in 1 .. n, queue'[j].verdict = "ok",
                        NEW p \in queue[j].off .. Ends(j) - 1
                 PROVE  remote'[p] = p
      BY <1>4, <1>6
    <3>1. CASE j = k
      BY <1>3, <1>4, <2>4, <3>1
    <3>2. CASE j # k
      BY <1>4, <2>2, <2>3, <3>2
    <3> QED
      BY <3>1, <3>2
  <2>6. pc' # "threw" \/ ~refused' => \A p \in 0 .. Total : p < Start' => remote'[p] = p
    BY <1>7, <2>1, <2>2 DEF WriterInv, Stored
  <2> QED
    BY <1>4, <2>5, <2>6 DEF Stored
<1>13. \E m \in 0 .. count' : Front(m)'
  <2>1. PICK m \in 0 .. count : Front(m)
    BY DEF WriterInv
  <2>2. m = queue[k].off
    BY <1>n, <1>1, <2>1, FrontIsAtUndecided DEF WriterInv
  <2>3. Ends(k) \in 0 .. count' /\ m <= Ends(k) /\ Start' <= Ends(k)
    <3>1. m <= Ends(k) /\ Ends(k) \in 0 .. count
      BY <1>2, <2>2 DEF Ends
    <3>2. Start \in Nat /\ Start <= m
      BY <2>1, StartTyped DEF WriterInv, Front
    <3> QED
      BY <1>1, <1>2, <1>7, <3>1, <3>2
  <2>4. ASSUME NEW j \in 1 .. n
        PROVE  /\ queue'[j].verdict = "none" => Ends(k) <= queue'[j].off
               /\ queue'[j].verdict # "none" => Ends(j)' <= Ends(k)
    <3>1. CASE j = k
      BY <1>2, <1>4, <1>6, <3>1
    <3>2. CASE j # k /\ queue[j].verdict = "none"
      <4>1. k < j
        BY <1>1, <3>2
      <4>2. Ends(k) <= queue[j].off
        BY <1>n, <4>1 DEF WriterInv, Tiles
      <4> QED
        BY <1>4, <3>2, <4>2
    <3>3. CASE j # k /\ queue[j].verdict # "none"
      <4>1. Ends(j) <= m
        BY <1>n, <2>1, <3>3 DEF Front
      <4>2. Ends(j) \in Nat /\ m \in Nat /\ Ends(k) \in Nat /\ m <= Ends(k)
        BY <1>2, <2>2, <2>3
      <4>3. Ends(j)' = Ends(j) /\ queue'[j].verdict = queue[j].verdict
        BY <1>4, <1>6, <3>3
      <4> QED
        BY <3>3, <4>1, <4>2, <4>3
    <3> QED
      BY <3>1, <3>2, <3>3
  <2>5. ~refused' =>
          \A p \in 0 .. Total : remote'[p] = IF p < Ends(k) THEN p ELSE Hole
    <3> SUFFICES ASSUME ~refused', NEW p \in 0 .. Total
                 PROVE  remote'[p] = IF p < Ends(k) THEN p ELSE Hole
      OBVIOUS
    <3>1. v = "ok" /\ ~refused
      BY <1>3
    <3>2. remote[0] # Before
      BY <1>5 DEF WriterInv, Opened
    <3>3. remote[p] = IF p < m THEN p ELSE Hole
      BY <2>1, <3>1, <3>2 DEF Front
    <3>4. remote'[p] = IF p \in queue[k].off .. Ends(k) - 1 THEN p ELSE remote[p]
      BY <1>8, <3>1
    <3>5. queue[k].off \in Nat /\ Ends(k) \in Nat /\ m = queue[k].off /\ m <= Ends(k)
      BY <1>2, <2>2, <2>3
    <3>6. CASE p < m
      BY <3>3, <3>4, <3>5, <3>6
    <3>7. CASE m <= p /\ p < Ends(k)
      <4>1. p \in queue[k].off .. Ends(k) - 1
        BY <3>5, <3>7
      <4> QED
        BY <3>4, <3>7, <4>1
    <3>8. CASE Ends(k) <= p
      <4>1. ~(p < m) /\ ~(p < Ends(k)) /\ p \notin queue[k].off .. Ends(k) - 1
        BY <3>5, <3>8
      <4> QED
        BY <3>3, <3>4, <4>1
    <3> QED
      BY <3>5, <3>6, <3>7, <3>8
  <2> QED
    BY <1>4, <2>3, <2>4, <2>5 DEF Front
<1>14. Opened'
  <2>1. pc # "openRemote" /\ remote[0] # Before
    BY <1>5 DEF WriterInv, Opened
  <2>2. remote'[0] # Before
    <3>1. 0 \in 0 .. Total /\ 0 # Before
      BY <1>2 DEF Before
    <3>2. remote'[0] \in {0, remote[0]}
      <4>1. CASE v = "ok"
        BY <1>8, <3>1, <4>1
      <4>2. CASE v = "error"
        BY <1>3, <4>2
      <4> QED
        BY <4>1, <4>2
    <3> QED
      BY <2>1, <3>1, <3>2
  <2> QED
    BY <1>1, <2>1, <2>2 DEF Opened
<1>15. PcFollows'
  BY <1>1, <1>5 DEF WriterInv, PcFollows
<1>16. Refusals'
  <2>1. ~refused' => ~refused /\ v = "ok"
    BY <1>3
  <2> QED
    BY <1>n, <1>4, <2>1 DEF WriterInv, Refusals
<1> QED
  BY <1>9, <1>10, <1>11, <1>12, <1>13, <1>14, <1>15, <1>16 DEF WriterInv

-----------------------------------------------------------------------------

(* Every step keeps the invariant.                                          *)
LEMMA WriterInvInductive == WriterInv /\ [Next]_vars => WriterInv'
<1> SUFFICES ASSUME WriterInv, [Next]_vars PROVE WriterInv'
  OBVIOUS
<1>1. CASE MakeRoom \/ Flush
  <2>1. MakeRoom => queue # <<>>
    BY DEF MakeRoom, FlushOldest
  <2> QED
    BY <1>1, <2>1, FlushOldestKeeps, ControlKeeps
<1> QED
  BY <1>1, OpenRemoteKeeps, ControlKeeps, BeginWriteKeeps, AnswerKeeps DEF Next, Upload

(* The invariant holds throughout.                                          *)
LEMMA WriterInvAlways == Spec => []WriterInv
  BY WriterInitially, WriterInvInductive, PTL DEF Spec

(* No more than QueueSize writes are in flight and libssh's offset stays    *)
(* within the length of the local file.                                     *)
THEOREM WriterTypeCorrect == Spec => []TypeOK
  BY WriterInvAlways, PTL DEF WriterInv

(* upload() returns only when the server has the whole local file.          *)
THEOREM UploadsCompletely == Spec => []UploadIsComplete
<1>1. WriterInv => UploadIsComplete
  <2> SUFFICES ASSUME WriterInv, pc = "returned", NEW p \in 0 .. Total - 1
               PROVE  remote[p] = p
    BY DEF UploadIsComplete
  <2>1. Start = Total /\ p \in 0 .. Total /\ p < Total
    BY WriterAssumption DEF WriterInv, PcFollows, Start
  <2> QED
    BY <2>1 DEF WriterInv, Stored
<1> QED
  BY <1>1, WriterInvAlways, PTL

(* As long as nothing is refused the remote file is a beginning of the      *)
(* local one, whatever is in flight.                                        *)
THEOREM RemoteStaysAPrefix == Spec => []RemoteIsAPrefix
<1>1. WriterInv => RemoteIsAPrefix
  <2> SUFFICES ASSUME WriterInv, ~refused, remote[0] # Before
               PROVE  \E k \in 0 .. Total : \A p \in 0 .. Total :
                        remote[p] = IF p < k THEN p ELSE Hole
    BY DEF RemoteIsAPrefix
  <2>1. PICK m \in 0 .. count : Front(m)
    BY DEF WriterInv
  <2>2. m \in 0 .. Total
    BY RequestsTyped DEF WriterInv
  <2> QED
    BY <2>1, <2>2 DEF Front
<1> QED
  BY <1>1, WriterInvAlways, PTL

(* What is counted as sent is ahead of what is stored by no more than a     *)
(* queue of chunks, the server's limit taken into account.                  *)
THEOREM ProgressStaysNearlyTrue == Spec => []ProgressIsNearlyTrue
<1>1. WriterInv => ProgressIsNearlyTrue
  <2> SUFFICES ASSUME WriterInv, ~refused, NEW p \in 0 .. Total - 1,
                      p + QueueSize * WriteLength < count
               PROVE  remote[p] = p
    BY DEF ProgressIsNearlyTrue
  <2>1. /\ count \in Nat /\ QueueSize \in Nat /\ WriteLength \in Nat /\ Total \in Nat
        /\ Start \in Nat /\ QueueSize * WriteLength \in Nat
    BY RequestsTyped, StartTyped DEF WriterInv
  <2>2. count <= Start + QueueSize * WriteLength
    <3>1. CASE queue = <<>>
      BY <2>1, <3>1 DEF Start
    <3>2. CASE queue # <<>>
      <4>1. PICK n \in Nat : n = Len(queue) /\ n <= QueueSize /\ 1 \in 1 .. n
        BY <3>2, RequestsTyped, OldestTaken DEF WriterInv, TypeOK
      <4>2. count <= Start + (n - 1 + 1) * WriteLength
        BY <3>2, <4>1 DEF WriterInv, Lags, Start
      <4>3. n - 1 + 1 = n
        BY <4>1
      <4>4. n * WriteLength <= QueueSize * WriteLength /\ n * WriteLength \in Nat
        <5>1. PICK d \in Nat : QueueSize = n + d
          <6>1. QueueSize - n \in Nat /\ QueueSize = n + (QueueSize - n)
            BY <2>1, <4>1
          <6> QED
            BY <6>1
        <5>2. (n + d) * WriteLength = n * WriteLength + d * WriteLength
          BY <2>1, <4>1
        <5>3. d * WriteLength \in Nat /\ n * WriteLength \in Nat
          BY <2>1, <4>1
        <5> QED
          BY <5>1, <5>2, <5>3
      <4> QED
        BY <2>1, <4>2, <4>3, <4>4
    <3> QED
      BY <3>1, <3>2
  <2>3. p < Start /\ p \in 0 .. Total
    BY <2>1, <2>2
  <2> QED
    BY <2>3 DEF WriterInv, Stored
<1> QED
  BY <1>1, WriterInvAlways, PTL
=============================================================================
