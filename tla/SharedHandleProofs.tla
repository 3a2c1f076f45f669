-------------------------- MODULE SharedHandleProofs --------------------------
(* What tasks on the handles of one file do to each other and what they do  *)
(* not, for any number of tasks and any way they share handles.             *)
EXTENDS SharedHandle, SequenceTheorems, FiniteSetTheorems, TLAPS

Byte == {Old, Gap} \cup (Writers \X Nat)

(***************************************************************************)
(* Types                                                                   *)
(***************************************************************************)

HandleTyped ==
  /\ handle \in [Tasks -> Handles]
  /\ fileOffset \in [Handles -> Nat]
  /\ file \in Seq(Byte)
  /\ pc \in [Tasks -> {"seek", "read", "write", "returned", "threw"}]
  /\ \A t \in Readers : pc[t] # "write"
  /\ \A t \in Writers : pc[t] \notin {"seek", "read"}
  /\ out \in [Readers -> Seq(Nat)]
  /\ \A t \in Readers : Len(out[t]) <= Length
  /\ written \in [Writers -> 0 .. DataLength]
  /\ resizes \in 0 .. MaxResizes

(* A sequence given place by place.                                         *)
LEMMA ByPlace ==
  ASSUME NEW S, NEW m \in Nat, NEW f \in [1 .. m -> S]
  PROVE  f \in Seq(S) /\ Len(f) = m
<1>1. f \in Seq(S)
  BY SeqDef
<1>2. DOMAIN f = 1 .. m /\ DOMAIN f = 1 .. Len(f) /\ Len(f) \in Nat
  BY <1>1, LenProperties
<1>3. Len(f) = m
  <2>1. CASE Len(f) < m
    <3>1. m \in 1 .. m /\ m \notin 1 .. Len(f)
      BY <1>2, <2>1
    <3> QED
      BY <1>2, <3>1
  <2>2. CASE m < Len(f)
    <3>1. Len(f) \in 1 .. Len(f) /\ Len(f) \notin 1 .. m
      BY <1>2, <2>2
    <3> QED
      BY <1>2, <3>1
  <2> QED
    BY <1>2, <2>1, <2>2
<1> QED
  BY <1>1, <1>3

(* The file after n bytes of a writer were stored at an offset.             *)
LEMMA StoredFacts ==
  ASSUME file \in Seq(Byte), written \in [Writers -> 0 .. DataLength],
         NEW t \in Writers, NEW off \in Nat, NEW n \in Nat
  PROVE  LET f == Stored(t, off, n)
             m == IF off + n > Len(file) THEN off + n ELSE Len(file) IN
         /\ f \in Seq(Byte) /\ Len(f) = m /\ m \in Nat /\ Len(file) \in Nat
         /\ \A j \in 1 .. m : f[j] =
              IF j \in off + 1 .. off + n THEN <<t, written[t] + j - off>>
              ELSE IF j <= Len(file) THEN file[j] ELSE Gap
<1> DEFINE f == Stored(t, off, n)
           m == IF off + n > Len(file) THEN off + n ELSE Len(file)
<1>1. Len(file) \in Nat /\ m \in Nat /\ written[t] \in Nat
  BY LenProperties, HandleAssumption
<1>2. f = [j \in 1 .. m |-> IF j \in off + 1 .. off + n THEN <<t, written[t] + j - off>>
                            ELSE IF j <= Len(file) THEN file[j] ELSE Gap]
  BY DEF Stored
<1>3. ASSUME NEW j \in 1 .. m
      PROVE  (IF j \in off + 1 .. off + n THEN <<t, written[t] + j - off>>
              ELSE IF j <= Len(file) THEN file[j] ELSE Gap) \in Byte
  <2>1. CASE j \in off + 1 .. off + n
    <3>1. written[t] + j - off \in Nat
      BY <1>1, <2>1
    <3> QED
      BY <2>1, <3>1 DEF Byte
  <2>2. CASE j \notin off + 1 .. off + n /\ j <= Len(file)
    <3>1. j \in 1 .. Len(file)
      BY <1>1, <2>2
    <3>2. file[j] \in Byte
      BY <3>1, ElementOfSeq
    <3> QED
      BY <2>2, <3>2
  <2>3. CASE j \notin off + 1 .. off + n /\ ~(j <= Len(file))
    BY <2>3 DEF Byte
  <2> QED
    BY <2>1, <2>2, <2>3
<1> HIDE DEF f, m
<1>4. f \in [1 .. m -> Byte]
  BY <1>2, <1>3
<1>5. f \in Seq(Byte) /\ Len(f) = m
  BY <1>1, <1>4, ByPlace
<1> QED
  BY <1>1, <1>2, <1>5 DEF f, m

(* What an answer of n bytes adds to what a reader has.                     *)
LEMMA Delivered ==
  ASSUME NEW s \in Seq(Nat), NEW off \in Nat, NEW n \in Nat
  PROVE  LET r == s \o [j \in 1 .. n |-> off + j - 1] IN
         r \in Seq(Nat) /\ Len(r) = Len(s) + n /\ Len(s) \in Nat
<1> DEFINE a == [j \in 1 .. n |-> off + j - 1]
<1>1. a \in [1 .. n -> Nat]
  OBVIOUS
<1> HIDE DEF a
<1>2. a \in Seq(Nat) /\ Len(a) = n
  BY <1>1, ByPlace
<1> QED
  BY <1>2, ConcatProperties, LenProperties DEF a

LEMMA LesserOfTwo ==
  ASSUME NEW m \in Nat, NEW n \in Nat
  PROVE  /\ Lesser(m, n) \in Nat /\ Lesser(m, n) <= m /\ Lesser(m, n) <= n
         /\ Lesser(m, n) = m \/ Lesser(m, n) = n
BY DEF Lesser

LEMMA AnswersTyped ==
  ASSUME HandleTyped, NEW t \in Readers, Len(out[t]) < Length,
         NEW n \in Answers(fileOffset[handle[t]], Lesser(BufferSize, Length - Len(out[t])))
  PROVE  /\ n \in Nat /\ n <= Length - Len(out[t]) /\ fileOffset[handle[t]] \in Nat
         /\ Len(out[t]) \in Nat
         /\ n = 0 => fileOffset[handle[t]] >= Len(file)
<1>1. /\ Len(out[t]) \in Nat /\ Len(file) \in Nat /\ fileOffset[handle[t]] \in Nat
      /\ Length \in Nat /\ BufferSize \in Nat \ {0} /\ out[t] \in Seq(Nat)
  BY LenProperties, HandleAssumption DEF HandleTyped, Tasks
<1> DEFINE off == fileOffset[handle[t]]
           len == Lesser(BufferSize, Length - Len(out[t]))
<1>2. len \in Nat \ {0} /\ len <= Length - Len(out[t])
  <2>1. Length - Len(out[t]) \in Nat \ {0}
    BY <1>1
  <2> QED
    BY <1>1, <2>1, LesserOfTwo
<1> HIDE DEF len
<1>3. \/ off < Len(file) /\ n \in 1 .. Lesser(len, Len(file) - off)
      \/ ~(off < Len(file)) /\ n = 0
  BY <1>2 DEF Answers, len
<1> HIDE DEF off
<1>4. off \in Nat
  BY <1>1 DEF off
<1>5. n \in Nat /\ n <= len /\ (n = 0 => off >= Len(file))
  BY <1>1, <1>2, <1>3, <1>4 DEF Lesser
<1> QED
  BY <1>1, <1>2, <1>5 DEF off

LEMMA HandleTypedInitially == Init => HandleTyped
<1> SUFFICES ASSUME Init PROVE HandleTyped
  OBVIOUS
<1>1. PICK n \in 0 .. MaxSize : file = [j \in 1 .. n |-> Old]
  BY DEF Init
<1>2. n \in Nat /\ [j \in 1 .. n |-> Old] \in [1 .. n -> Byte]
  BY HandleAssumption DEF Byte
<1>3. file \in Seq(Byte)
  BY <1>1, <1>2, ByPlace
<1>4. <<>> \in Seq(Nat) /\ Len(<<>>) = 0
  BY EmptySeq
<1>5. /\ out \in [Readers -> Seq(Nat)] /\ written \in [Writers -> 0 .. DataLength]
      /\ \A t \in Readers : Len(out[t]) <= Length
      /\ resizes \in 0 .. MaxResizes /\ fileOffset \in [Handles -> Nat]
  BY <1>4, HandleAssumption DEF Init
<1>6. /\ handle \in [Tasks -> Handles]
      /\ pc \in [Tasks -> {"seek", "read", "write", "returned", "threw"}]
      /\ \A t \in Readers : pc[t] # "write"
      /\ \A t \in Writers : pc[t] \notin {"seek", "read"}
  BY HandleAssumption DEF Init, Tasks
<1> QED
  BY <1>3, <1>5, <1>6 DEF HandleTyped

LEMMA HandleTypedStep == HandleTyped /\ [Next]_vars => HandleTyped'
<1> SUFFICES ASSUME HandleTyped, [Next]_vars PROVE HandleTyped'
  OBVIOUS
<1> USE HandleAssumption
<1>0. Readers \subseteq Tasks /\ Writers \subseteq Tasks
  BY DEF Tasks
<1>1. ASSUME NEW t \in Readers, Seek(t) PROVE HandleTyped'
  BY <1>0, <1>1 DEF HandleTyped, Seek
<1>2. ASSUME NEW t \in Readers, Read(t) PROVE HandleTyped'
  <2> DEFINE off == fileOffset[handle[t]]
  <2>1. PICK n \in Answers(off, Lesser(BufferSize, Length - Len(out[t]))) :
          /\ out' = [out EXCEPT ![t] = @ \o [j \in 1 .. n |-> off + j - 1]]
          /\ fileOffset' = [fileOffset EXCEPT ![handle[t]] = @ + n]
          /\ pc' = [pc EXCEPT ![t] = IF n = 0 THEN "returned" ELSE "read"]
    BY <1>2 DEF Read
  <2>2. n \in Nat /\ n <= Length - Len(out[t]) /\ off \in Nat /\ Len(out[t]) \in Nat
    BY <1>2, AnswersTyped DEF Read
  <2> DEFINE r == out[t] \o [j \in 1 .. n |-> off + j - 1]
  <2>3. out[t] \in Seq(Nat)
    BY DEF HandleTyped
  <2>4. r \in Seq(Nat) /\ Len(r) = Len(out[t]) + n
    BY <2>2, <2>3, Delivered
  <2> HIDE DEF r
  <2>5. out' = [out EXCEPT ![t] = r]
    BY <2>1 DEF r
  <2>6. out' \in [Readers -> Seq(Nat)] /\ \A u \in Readers : Len(out'[u]) <= Length
    BY <2>2, <2>4, <2>5 DEF HandleTyped
  <2>7. fileOffset' \in [Handles -> Nat]
    <3>1. handle[t] \in Handles /\ off + n \in Nat
      BY <1>0, <2>2 DEF HandleTyped
    <3> QED
      BY <2>1, <3>1 DEF HandleTyped
  <2>8. /\ pc' \in [Tasks -> {"seek", "read", "write", "returned", "threw"}]
        /\ \A u \in Readers : pc'[u] # "write"
        /\ \A u \in Writers : pc'[u] \notin {"seek", "read"}
    BY <1>0, <2>1 DEF HandleTyped
  <2> QED
    BY <1>2, <2>6, <2>7, <2>8 DEF HandleTyped, Read
<1>3. ASSUME NEW t \in Writers, Write(t) PROVE HandleTyped'
  <2> DEFINE off == fileOffset[handle[t]]
  <2>1. PICK n \in 0 .. Chunk(t) :
          /\ file' = IF n = 0 THEN file ELSE Stored(t, off, n)
          /\ fileOffset' = [fileOffset EXCEPT ![handle[t]] = @ + n]
          /\ written' = [written EXCEPT ![t] = @ + n]
          /\ pc' = [pc EXCEPT ![t] = IF n = Chunk(t) THEN "write" ELSE "threw"]
    BY <1>3 DEF Write
  <2>2. Chunk(t) \in Nat /\ Chunk(t) <= DataLength - written[t] /\ written[t] \in Nat
    BY DEF Chunk, Lesser, HandleTyped
  <2>3. n \in Nat /\ off \in Nat /\ n <= DataLength - written[t]
    BY <1>0, <2>2 DEF HandleTyped
  <2>4. file' \in Seq(Byte)
    BY <2>1, <2>3, StoredFacts DEF HandleTyped
  <2>5. fileOffset' \in [Handles -> Nat] /\ written' \in [Writers -> 0 .. DataLength]
    BY <1>0, <2>1, <2>2, <2>3 DEF HandleTyped
  <2>6. /\ pc' \in [Tasks -> {"seek", "read", "write", "returned", "threw"}]
        /\ \A u \in Readers : pc'[u] # "write"
        /\ \A u \in Writers : pc'[u] \notin {"seek", "read"}
    BY <1>0, <2>1 DEF HandleTyped
  <2> QED
    BY <1>3, <2>4, <2>5, <2>6 DEF HandleTyped, Write
<1>4. ASSUME NEW t \in Tasks, Return(t) \/ Throw(t) PROVE HandleTyped'
  BY <1>0, <1>4 DEF HandleTyped, Return, Throw
<1>5. CASE Resize
  <2>1. PICK n \in 0 .. MaxSize :
          file' = [j \in 1 .. n |-> IF j <= Len(file) THEN file[j] ELSE Gap]
    BY <1>5 DEF Resize
  <2>2. Len(file) \in Nat /\ n \in Nat
    BY LenProperties DEF HandleTyped
  <2>3. ASSUME NEW j \in 1 .. n PROVE (IF j <= Len(file) THEN file[j] ELSE Gap) \in Byte
    <3>1. j <= Len(file) => file[j] \in Byte
      BY <2>2, ElementOfSeq DEF HandleTyped
    <3> QED
      BY <3>1 DEF Byte
  <2>4. file' \in [1 .. n -> Byte]
    BY <2>1, <2>3
  <2>5. file' \in Seq(Byte)
    BY <2>2, <2>4, ByPlace
  <2> QED
    BY <1>5, <2>5 DEF HandleTyped, Resize
<1>6. CASE UNCHANGED vars
  BY <1>6 DEF HandleTyped, vars
<1> QED
  BY <1>1, <1>2, <1>3, <1>4, <1>5, <1>6 DEF Next, Hop

(* The state of the handles, the file and the tasks is what it should be.   *)
THEOREM HandleTypeCorrect == Spec => []HandleTyped
  BY HandleTypedInitially, HandleTypedStep, PTL DEF Spec

(***************************************************************************)
(* Readers                                                                 *)
(***************************************************************************)

(* A reader alone on its handle finds the offset where it left it.          *)
OffsetsStay ==
  \A t \in Readers :
    /\ pc[t] = "seek" => out[t] = <<>>
    /\ pc[t] = "read" /\ Alone(t) => fileOffset[handle[t]] = Offset + Len(out[t])

LEMMA OffsetsStayStep == HandleTyped /\ OffsetsStay /\ [Next]_vars => OffsetsStay'
<1> SUFFICES ASSUME HandleTyped, OffsetsStay, [Next]_vars, NEW t \in Readers
             PROVE  /\ pc'[t] = "seek" => out'[t] = <<>>
                    /\ pc'[t] = "read" /\ Alone(t)' =>
                         fileOffset'[handle'[t]] = Offset + Len(out'[t])
  BY DEF OffsetsStay
<1> USE HandleAssumption
<1>0. /\ t \in Tasks /\ handle[t] \in Handles
      /\ pc[t] = "seek" => out[t] = <<>>
      /\ pc[t] = "read" /\ Alone(t) => fileOffset[handle[t]] = Offset + Len(out[t])
  BY DEF OffsetsStay, HandleTyped, Tasks
<1>1. handle' = handle /\ Alone(t)' = Alone(t)
  BY DEF Alone, Next, Hop, Seek, Read, Write, Return, Throw, Resize, vars
<1>2. ASSUME NEW u \in Readers, Seek(u)
      PROVE  /\ pc'[t] = "seek" => out'[t] = <<>>
             /\ pc'[t] = "read" /\ Alone(t)' =>
                  fileOffset'[handle'[t]] = Offset + Len(out'[t])
  <2>1. CASE u = t
    <3>1. pc'[t] = "read" /\ fileOffset'[handle[t]] = Offset /\ out'[t] = <<>>
      BY <1>0, <1>2, <2>1 DEF Seek, HandleTyped
    <3> QED
      BY <1>1, <3>1, EmptySeq
  <2>2. CASE u # t
    <3>1. pc'[t] = pc[t] /\ out' = out
      BY <1>2, <2>2 DEF Seek, HandleTyped
    <3>2. Alone(t) => fileOffset'[handle[t]] = fileOffset[handle[t]]
      BY <1>0, <1>2, <2>2 DEF Seek, HandleTyped, Alone, Tasks
    <3> QED
      BY <1>0, <1>1, <3>1, <3>2
  <2> QED
    BY <2>1, <2>2
<1>3. ASSUME NEW u \in Readers, Read(u)
      PROVE  /\ pc'[t] = "seek" => out'[t] = <<>>
             /\ pc'[t] = "read" /\ Alone(t)' =>
                  fileOffset'[handle'[t]] = Offset + Len(out'[t])
  <2> DEFINE off == fileOffset[handle[u]]
  <2>1. PICK n \in Answers(off, Lesser(BufferSize, Length - Len(out[u]))) :
          /\ out' = [out EXCEPT ![u] = @ \o [j \in 1 .. n |-> off + j - 1]]
          /\ fileOffset' = [fileOffset EXCEPT ![handle[u]] = @ + n]
          /\ pc' = [pc EXCEPT ![u] = IF n = 0 THEN "returned" ELSE "read"]
    BY <1>3 DEF Read
  <2>2. n \in Nat /\ off \in Nat /\ Len(out[u]) \in Nat /\ out[u] \in Seq(Nat)
    BY <1>3, AnswersTyped DEF Read, HandleTyped
  <2> DEFINE r == out[u] \o [j \in 1 .. n |-> off + j - 1]
  <2>3. Len(r) = Len(out[u]) + n
    BY <2>2, Delivered
  <2> HIDE DEF r
  <2>4. out' = [out EXCEPT ![u] = r]
    BY <2>1 DEF r
  <2>5. CASE u = t
    <3>1. pc[t] = "read"
      BY <1>3, <2>5 DEF Read
    <3>2. pc'[t] # "seek"
      BY <1>0, <2>1, <2>5 DEF HandleTyped
    <3>3. Len(out'[t]) = Len(out[t]) + n
      BY <2>3, <2>4, <2>5 DEF HandleTyped
    <3>4. fileOffset'[handle[t]] = fileOffset[handle[t]] + n
      BY <1>0, <2>1, <2>5 DEF HandleTyped
    <3>5. Alone(t) => fileOffset'[handle[t]] = Offset + Len(out'[t])
      BY <1>0, <2>2, <2>5, <3>1, <3>3, <3>4
    <3> QED
      BY <1>1, <3>2, <3>5
  <2>6. CASE u # t
    <3>1. pc'[t] = pc[t] /\ out'[t] = out[t]
      BY <1>0, <2>1, <2>4, <2>6 DEF HandleTyped
    <3>2. Alone(t) => fileOffset'[handle[t]] = fileOffset[handle[t]]
      BY <1>0, <2>1, <2>6 DEF HandleTyped, Alone, Tasks
    <3> QED
      BY <1>0, <1>1, <3>1, <3>2
  <2> QED
    BY <2>5, <2>6
<1>4. ASSUME NEW u \in Writers, Write(u)
      PROVE  /\ pc'[t] = "seek" => out'[t] = <<>>
             /\ pc'[t] = "read" /\ Alone(t)' =>
                  fileOffset'[handle'[t]] = Offset + Len(out'[t])
  <2>1. u # t /\ out' = out /\ u \in Tasks
    BY <1>4 DEF Write, Tasks
  <2>2. pc'[t] = pc[t]
    BY <1>0, <1>4, <2>1 DEF Write, HandleTyped
  <2>3. Alone(t) => fileOffset'[handle[t]] = fileOffset[handle[t]]
    BY <1>0, <1>4, <2>1 DEF Write, HandleTyped, Alone
  <2> QED
    BY <1>0, <1>1, <2>1, <2>2, <2>3
<1>5. ASSUME NEW u \in Tasks, Return(u) \/ Throw(u)
      PROVE  /\ pc'[t] = "seek" => out'[t] = <<>>
             /\ pc'[t] = "read" /\ Alone(t)' =>
                  fileOffset'[handle'[t]] = Offset + Len(out'[t])
  BY <1>0, <1>1, <1>5 DEF Return, Throw, HandleTyped
<1>6. CASE Resize \/ UNCHANGED vars
  BY <1>0, <1>1, <1>6 DEF Resize, vars
<1> QED
  BY <1>2, <1>3, <1>4, <1>5, <1>6 DEF Next, Hop

LEMMA OffsetsStayInitially == Init => OffsetsStay
<1> SUFFICES ASSUME Init, NEW t \in Readers
             PROVE  pc[t] = "seek" /\ out[t] = <<>>
  BY DEF OffsetsStay
<1> QED
  BY DEF Init, Tasks

LEMMA ReadersInvariant == Spec => [](HandleTyped /\ OffsetsStay)
  BY HandleTypedInitially, HandleTypedStep, OffsetsStayInitially, OffsetsStayStep, PTL DEF Spec

(* A step as one reader sees it: what it has, how long the file is, and     *)
(* whether it is still reading.                                             *)
Seen(t) == Reading(t)!Next \/ UNCHANGED <<ReadBytes(t), Len(file), ReadState(t)>>

(* A step that leaves the reader alone changes the length of the file at    *)
(* most.                                                                    *)
LEMMA OthersResize ==
  ASSUME HandleTyped, HandleTyped', NEW t \in Readers,
         ReadBytes(t)' = ReadBytes(t), ReadState(t)' = ReadState(t)
  PROVE  Seen(t)
<1>1. Len(file)' \in Nat
  BY LenProperties DEF HandleTyped
<1> QED
  BY <1>1 DEF Seen, Reading!Next, Reading!Resize

LEMMA AnswerIsSeen ==
  ASSUME HandleTyped, OffsetsStay, NEW t \in Readers, Alone(t), Alone(t)', Read(t)
  PROVE  Seen(t)
<1> DEFINE off == fileOffset[handle[t]]
<1>1. PICK n \in Answers(off, Lesser(BufferSize, Length - Len(out[t]))) :
        /\ out' = [out EXCEPT ![t] = @ \o [j \in 1 .. n |-> off + j - 1]]
        /\ pc' = [pc EXCEPT ![t] = IF n = 0 THEN "returned" ELSE "read"]
  BY DEF Read
<1>2. /\ n \in Nat /\ n <= Length - Len(out[t]) /\ Len(out[t]) \in Nat
      /\ n = 0 => off >= Len(file)
  BY AnswersTyped DEF Read
<1>3. pc[t] = "read" /\ off = Offset + Len(out[t]) /\ t \in Tasks /\ file' = file
  BY DEF Read, OffsetsStay, Tasks
<1>4. ReadBytes(t) = out[t] /\ ReadBytes(t)' = out'[t] /\ ReadState(t) = "open"
  BY <1>3 DEF ReadBytes, ReadState
<1>5. out'[t] = out[t] \o [j \in 1 .. n |-> Offset + Len(out[t]) + j - 1]
  BY <1>1, <1>3 DEF HandleTyped
<1>6. pc'[t] = IF n = 0 THEN "returned" ELSE "read"
  BY <1>1, <1>3 DEF HandleTyped
<1>7. CASE n = 0
  <2>1. ReadState(t)' = "finished"
    BY <1>6, <1>7 DEF ReadState
  <2>2. out'[t] = out[t]
    <3>1. out[t] \in Seq(Nat) /\ \A j \in 1 .. 0 : FALSE
      BY DEF HandleTyped
    <3>2. [j \in 1 .. 0 |-> Offset + Len(out[t]) + j - 1] = <<>>
      BY <3>1
    <3>3. out[t] \o <<>> = out[t]
      BY <3>1, ConcatEmptySeq
    <3> QED
      BY <1>5, <1>7, <3>2, <3>3
  <2>3. Offset + Len(out[t]) >= Len(file)
    BY <1>2, <1>3, <1>7
  <2> QED
    BY <1>3, <1>4, <2>1, <2>2, <2>3 DEF Seen, Reading!Next, Reading!Finish
<1>8. CASE n # 0
  <2>1. ReadState(t)' = "open"
    BY <1>6, <1>8 DEF ReadState
  <2>2. n \in 0 .. Length - Len(out[t])
    BY <1>2, HandleAssumption
  <2> QED
    BY <1>3, <1>4, <1>5, <2>1, <2>2 DEF Seen, Reading!Next, Reading!Deliver
<1> QED
  BY <1>7, <1>8

LEMMA EndIsSeen ==
  ASSUME HandleTyped, NEW t \in Readers, Alone(t), Alone(t)', Return(t) \/ Throw(t)
  PROVE  Seen(t)
<1>1. pc[t] \in {"seek", "read"} /\ t \in Tasks /\ file' = file /\ out' = out
  BY DEF Return, Throw, HandleTyped, Tasks
<1>2. ReadBytes(t) = out[t] /\ ReadBytes(t)' = out[t] /\ ReadState(t) = "open"
  BY <1>1 DEF ReadBytes, ReadState
<1>3. CASE Return(t)
  <2>1. pc'[t] = "returned" /\ Len(out[t]) >= Length
    BY <1>1, <1>3 DEF Return, HandleTyped
  <2>2. ReadState(t)' = "finished"
    BY <2>1 DEF ReadState
  <2> QED
    BY <1>1, <1>2, <2>1, <2>2 DEF Seen, Reading!Next, Reading!Finish
<1>4. CASE Throw(t)
  <2>1. pc'[t] = "threw"
    BY <1>1, <1>4 DEF Throw, HandleTyped
  <2>2. ReadState(t)' = "stopped"
    BY <2>1 DEF ReadState
  <2> QED
    BY <1>1, <1>2, <2>2 DEF Seen, Reading!Next, Reading!Stop
<1> QED
  BY <1>3, <1>4

LEMMA EveryStepIsSeen ==
  ASSUME HandleTyped, HandleTyped', OffsetsStay, [Next]_vars, NEW t \in Readers
  PROVE  Seen(t)
<1>0. t \in Tasks
  BY DEF Tasks
<1>1. handle' = handle /\ Alone(t)' = Alone(t)
  BY DEF Alone, Next, Hop, Seek, Read, Write, Return, Throw, Resize, vars
<1>2. CASE ~Alone(t)
  <2>1. ReadBytes(t)' = ReadBytes(t) /\ ReadState(t)' = ReadState(t)
    BY <1>1, <1>2 DEF ReadBytes, ReadState
  <2> QED
    BY <2>1, OthersResize
<1>3. ASSUME Alone(t), pc'[t] = pc[t], out'[t] = out[t] PROVE Seen(t)
  <2>1. ReadBytes(t)' = ReadBytes(t) /\ ReadState(t)' = ReadState(t)
    BY <1>1, <1>3 DEF ReadBytes, ReadState
  <2> QED
    BY <2>1, OthersResize
<1>4. ASSUME Alone(t), NEW u \in Readers, Seek(u) PROVE Seen(t)
  <2>1. CASE u = t
    <3>1. pc[t] = "seek" /\ pc'[t] = "read" /\ out' = out
      BY <1>0, <1>4, <2>1 DEF Seek, HandleTyped
    <3>2. ReadBytes(t)' = ReadBytes(t) /\ ReadState(t)' = ReadState(t)
      BY <1>1, <1>4, <3>1 DEF ReadBytes, ReadState
    <3> QED
      BY <3>2, OthersResize
  <2>2. CASE u # t
    BY <1>0, <1>3, <1>4, <2>2 DEF Seek, HandleTyped
  <2> QED
    BY <2>1, <2>2
<1>5. ASSUME Alone(t), NEW u \in Readers, Read(u) PROVE Seen(t)
  <2>1. CASE u = t
    BY <1>1, <1>5, <2>1, AnswerIsSeen
  <2>2. CASE u # t
    <3>1. pc'[t] = pc[t] /\ out'[t] = out[t]
      BY <1>0, <1>5, <2>2 DEF Read, HandleTyped
    <3> QED
      BY <1>3, <1>5, <3>1
  <2> QED
    BY <2>1, <2>2
<1>6. ASSUME Alone(t), NEW u \in Writers, Write(u) PROVE Seen(t)
  <2>1. u # t
    BY HandleAssumption
  <2>2. pc'[t] = pc[t] /\ out' = out
    BY <1>0, <1>6, <2>1 DEF Write, HandleTyped
  <2> QED
    BY <1>3, <1>6, <2>2
<1>7. ASSUME Alone(t), NEW u \in Tasks, Return(u) \/ Throw(u) PROVE Seen(t)
  <2>1. CASE u = t
    BY <1>1, <1>7, <2>1, EndIsSeen
  <2>2. CASE u # t
    BY <1>0, <1>3, <1>7, <2>2 DEF Return, Throw, HandleTyped
  <2> QED
    BY <2>1, <2>2
<1>8. CASE Alone(t) /\ (Resize \/ UNCHANGED vars)
  BY <1>3, <1>8 DEF Resize, vars
<1> QED
  BY <1>2, <1>4, <1>5, <1>6, <1>7, <1>8 DEF Next, Hop

(* For a task that reads alone on its handle the remote file is a stream of *)
(* bytes, whatever others do to the file and to their handles meanwhile.    *)
THEOREM ReadersAreIndependent == Spec => ReadersDoNotDisturb
<1>1. Init => \A t \in Readers : Reading(t)!Init
  <2> SUFFICES ASSUME Init, NEW t \in Readers PROVE Reading(t)!Init
    OBVIOUS
  <2>1. pc[t] = "seek" /\ out[t] = <<>>
    BY DEF Init, Tasks
  <2>2. ReadBytes(t) = <<>> /\ ReadState(t) = "open"
    BY <2>1 DEF ReadBytes, ReadState
  <2>3. Len(file) \in Nat
    BY HandleTypedInitially, LenProperties DEF HandleTyped
  <2> QED
    BY <2>2, <2>3 DEF Reading!Init
<1>2. HandleTyped /\ OffsetsStay /\ (HandleTyped /\ OffsetsStay)' /\ [Next]_vars
        => [\A t \in Readers :
              Reading(t)!Next \/ UNCHANGED <<ReadBytes(t), Len(file), ReadState(t)>>]_vars
  BY EveryStepIsSeen DEF Seen
<1> QED
  BY <1>1, <1>2, ReadersInvariant, PTL DEF Spec, ReadersDoNotDisturb

(***************************************************************************)
(* Writers                                                                 *)
(***************************************************************************)

(* Chunks have BufferSize bytes.                                            *)
LEMMA NextChunk ==
  ASSUME NEW w \in Nat, w % BufferSize = 0
  PROVE  (w + BufferSize) % BufferSize = 0
<1> DEFINE k == w \div BufferSize
<1> USE HandleAssumption
<1>1. /\ w = BufferSize * k + (w % BufferSize)
      /\ k \in Nat /\ (w + BufferSize) \div BufferSize = k + 1
  OBVIOUS
<1>2. w + BufferSize = BufferSize * (k + 1) + ((w + BufferSize) % BufferSize)
  BY <1>1
<1> HIDE DEF k
<1>3. BufferSize * (k + 1) = BufferSize * k + BufferSize
  BY <1>1
<1>4. (w + BufferSize) % BufferSize \in Nat
  OBVIOUS
<1> QED
  BY <1>1, <1>2, <1>3, <1>4

(* Where the handle is that the writers share.                              *)
At(t) == fileOffset[handle[t]]

(* A file f whose first a bytes are what the writers wrote, m[u] bytes each. *)
RestIsOld(f, a) == \A p \in 1 .. Len(f) : p > a => f[p] = Old

OnlyWritten(f, a, m) == \A p \in 1 .. a : \E u \in Writers : \E j \in 1 .. m[u] : f[p] = <<u, j>>

AllWritten(f, a, m) == \A u \in Writers : \A j \in 1 .. m[u] : \E p \in 1 .. a : f[p] = <<u, j>>

EachOnce(f, a) == \A p, q \in 1 .. a : f[p] = f[q] => p = q

Follows(j, p, q) == IF j % BufferSize = 0 THEN p < q ELSE q = p + 1

InOrder(f, a) ==
  \A u \in Writers : \A j \in 1 .. DataLength : \A p \in 1 .. a : \A q \in 1 .. a :
    f[p] = <<u, j>> /\ f[q] = <<u, j + 1>> => Follows(j, p, q)

Interleaved(f, a, m) ==
  /\ a <= Len(f)
  /\ RestIsOld(f, a) /\ OnlyWritten(f, a, m) /\ AllWritten(f, a, m)
  /\ EachOnce(f, a) /\ InOrder(f, a)

(* What the handle has passed is what the writers wrote, each byte once and *)
(* in its order; the rest of the file is old.                               *)
Written(t) == Interleaved(file, At(t), written)

(* A writer that goes on is at the start of a chunk, or at the end.         *)
AtAChunk(t) == pc[t] = "write" => written[t] % BufferSize = 0 \/ written[t] = DataLength

WritersInv ==
  Comrades /\ resizes = 0 => \A t \in Writers : Written(t) /\ AtAChunk(t)

LEMMA WritersInitially == Init => WritersInv
<1> SUFFICES ASSUME Init, NEW t \in Writers PROVE Written(t) /\ AtAChunk(t)
  BY DEF WritersInv
<1>1. HandleTyped
  BY HandleTypedInitially
<1>2. At(t) = 0 /\ Len(file) \in Nat /\ written = [u \in Writers |-> 0]
  BY <1>1, LenProperties DEF Init, At, HandleTyped, Tasks
<1>3. PICK n \in 0 .. MaxSize : file = [j \in 1 .. n |-> Old]
  BY DEF Init
<1>4. DOMAIN file = 1 .. Len(file)
  BY <1>1, LenProperties DEF HandleTyped
<1>5. \A p \in 1 .. Len(file) : file[p] = Old
  BY <1>3, <1>4
<1>6. Written(t)
  BY <1>2, <1>5 DEF Written, Interleaved, RestIsOld, OnlyWritten, AllWritten, EachOnce, InOrder
<1>7. 0 % BufferSize = 0
  BY HandleAssumption
<1> QED
  BY <1>2, <1>6, <1>7 DEF AtAChunk

(* The step of a writer, in terms of the bytes it stores.                   *)
LEMMA WriteFacts ==
  ASSUME HandleTyped, Comrades, NEW w \in Writers, Written(w), Write(w)
  PROVE  \E n \in Nat :
           /\ n <= DataLength - written[w] /\ At(w) \in Nat
           /\ Len(file') = IF At(w) + n > Len(file) THEN At(w) + n ELSE Len(file)
           /\ \A p \in 1 .. Len(file') : file'[p] =
                IF p \in At(w) + 1 .. At(w) + n THEN <<w, written[w] + p - At(w)>> ELSE file[p]
           /\ written' = [written EXCEPT ![w] = @ + n]
           /\ \A t \in Writers : At(t) = At(w) /\ At(t)' = At(w) + n
           /\ pc' = [pc EXCEPT ![w] = IF n = Chunk(w) THEN "write" ELSE "threw"]
           /\ pc[w] = "write" /\ written[w] < DataLength
<1>1. PICK n \in 0 .. Chunk(w) :
        /\ file' = IF n = 0 THEN file ELSE Stored(w, At(w), n)
        /\ fileOffset' = [fileOffset EXCEPT ![handle[w]] = @ + n]
        /\ written' = [written EXCEPT ![w] = @ + n]
        /\ pc' = [pc EXCEPT ![w] = IF n = Chunk(w) THEN "write" ELSE "threw"]
  BY DEF Write, At
<1>2. /\ pc[w] = "write" /\ written[w] < DataLength /\ written[w] \in Nat /\ w \in Tasks
      /\ handle[w] \in Handles /\ At(w) \in Nat /\ handle' = handle
  BY HandleAssumption DEF Write, HandleTyped, Tasks, At
<1>3. n \in Nat /\ n <= DataLength - written[w]
  <2>1. DataLength - written[w] \in Nat
    BY <1>2, HandleAssumption
  <2>2. Chunk(w) \in Nat /\ Chunk(w) <= DataLength - written[w]
    BY <2>1, LesserOfTwo, HandleAssumption DEF Chunk
  <2> QED
    BY <2>1, <2>2
<1>4. \A t \in Writers : handle[t] = handle[w]
  BY DEF Comrades, Tasks
<1>5. \A t \in Writers : At(t) = At(w) /\ At(t)' = At(w) + n
  BY <1>1, <1>2, <1>4 DEF At, HandleTyped
<1>6. Len(file) \in Nat /\ At(w) <= Len(file)
  BY LenProperties DEF HandleTyped, Written, Interleaved
<1> DEFINE m == IF At(w) + n > Len(file) THEN At(w) + n ELSE Len(file)
<1>7. /\ Len(file') = m
      /\ \A p \in 1 .. m : file'[p] =
           IF p \in At(w) + 1 .. At(w) + n THEN <<w, written[w] + p - At(w)>> ELSE file[p]
  <2>1. CASE n = 0
    <3>1. file' = file /\ m = Len(file) /\ \A p : p \notin At(w) + 1 .. At(w) + n
      BY <1>1, <1>2, <1>6, <2>1
    <3> QED
      BY <3>1
  <2>2. CASE n # 0
    <3>0. PICK a \in Nat, f \in Seq(Byte) : a = At(w) /\ f = Stored(w, a, n) /\ f = file'
      BY <1>1, <1>2, <1>3, <2>2, StoredFacts DEF HandleTyped
    <3>1. /\ Len(file') = m
          /\ \A p \in 1 .. m : file'[p] =
               IF p \in At(w) + 1 .. At(w) + n THEN <<w, written[w] + p - At(w)>>
               ELSE IF p <= Len(file) THEN file[p] ELSE Gap
      <4>1. /\ Len(f) = IF a + n > Len(file) THEN a + n ELSE Len(file)
            /\ \A p \in 1 .. (IF a + n > Len(file) THEN a + n ELSE Len(file)) : f[p] =
                 IF p \in a + 1 .. a + n THEN <<w, written[w] + p - a>>
                 ELSE IF p <= Len(file) THEN file[p] ELSE Gap
        <5>1. file \in Seq(Byte) /\ written \in [Writers -> 0 .. DataLength]
          BY DEF HandleTyped
        <5> DEFINE s == Stored(w, a, n)
        <5>2. /\ Len(s) = IF a + n > Len(file) THEN a + n ELSE Len(file)
              /\ \A p \in 1 .. (IF a + n > Len(file) THEN a + n ELSE Len(file)) : s[p] =
                   IF p \in a + 1 .. a + n THEN <<w, written[w] + p - a>>
                   ELSE IF p <= Len(file) THEN file[p] ELSE Gap
          BY <1>3, <5>1, StoredFacts, Zenon
        <5>3. s = f
          BY <3>0
        <5> HIDE DEF s
        <5> QED
          BY <5>2, <5>3
      <4> QED
        BY <3>0, <4>1
    <3>2. \A p \in 1 .. m : p \in At(w) + 1 .. At(w) + n \/ p <= Len(file)
      BY <1>2, <1>3, <1>6
    <3> QED
      BY <3>1, <3>2
  <2> QED
    BY <2>1, <2>2
<1> QED
  BY <1>1, <1>2, <1>3, <1>5, <1>7

LEMMA NumbersOfBytes == \A j \in 1 .. DataLength : j \in Nat /\ j + 1 \in Nat
  BY HandleAssumption

(* n more bytes of the writer w, behind those that are there.               *)
LEMMA OneMoreChunk ==
  ASSUME NEW f \in Seq(Byte), NEW a \in Nat, NEW m \in [Writers -> Nat], Interleaved(f, a, m),
         NEW w \in Writers, m[w] % BufferSize = 0, NEW n \in Nat, NEW g \in Seq(Byte),
         Len(g) = IF a + n > Len(f) THEN a + n ELSE Len(f),
         \A p \in 1 .. Len(g) : g[p] = IF p \in a + 1 .. a + n THEN <<w, m[w] + p - a>> ELSE f[p]
  PROVE  Interleaved(g, a + n, [m EXCEPT ![w] = @ + n])
<1> DEFINE b == a + n
           d == m[w]
           l == [m EXCEPT ![w] = @ + n]
<1>0. RestIsOld(f, a) /\ OnlyWritten(f, a, m) /\ AllWritten(f, a, m) /\ EachOnce(f, a) /\ InOrder(f, a)
  BY DEF Interleaved
<1>1. /\ b \in Nat /\ d \in Nat /\ a <= b /\ Len(f) \in Nat /\ Len(g) \in Nat
      /\ a <= Len(f) /\ b <= Len(g) /\ Len(f) <= Len(g)
      /\ \A p \in 1 .. Len(g) : p > b => p \in 1 .. Len(f)
  BY LenProperties DEF Interleaved
<1>2. /\ l \in [Writers -> Nat] /\ l[w] = d + n
      /\ \A u \in Writers : (u # w => l[u] = m[u]) /\ m[u] <= l[u]
  OBVIOUS
<1>3. ASSUME NEW p \in 1 .. a PROVE g[p] = f[p]
  <2>1. p \in 1 .. Len(g) /\ p \notin a + 1 .. a + n
    BY <1>1
  <2> QED
    BY <2>1
<1>4. ASSUME NEW p \in a + 1 .. b PROVE g[p] = <<w, d + p - a>>
  <2>1. p \in 1 .. Len(g)
    BY <1>1
  <2> QED
    BY <2>1
<1>5. ASSUME NEW p \in 1 .. Len(g), p > b PROVE g[p] = Old
  <2>1. p \in 1 .. Len(f) /\ p > a /\ p \notin a + 1 .. a + n
    BY <1>1, <1>5
  <2> QED
    BY <1>0, <2>1 DEF RestIsOld
<1>6. \A p \in 1 .. b : p \in 1 .. a \/ p \in a + 1 .. b
  BY <1>1
<1>7. ASSUME NEW p \in 1 .. a, NEW j \in Nat, f[p] = <<w, j>> PROVE j \in 1 .. d
  <2>1. PICK u \in Writers : \E i \in 1 .. m[u] : f[p] = <<u, i>>
    BY <1>0 DEF OnlyWritten
  <2> QED
    BY <1>7, <2>1
<1>8. b = a + n
  OBVIOUS
<1> HIDE DEF b, d, l
<1>9. RestIsOld(g, b)
  BY <1>5 DEF RestIsOld
<1>10. ASSUME NEW p \in 1 .. b
       PROVE  \E u \in Writers : \E j \in 1 .. l[u] : g[p] = <<u, j>>
  <2>1. CASE p \in 1 .. a
    <3>1. PICK u \in Writers : \E j \in 1 .. m[u] : f[p] = <<u, j>>
      BY <1>0, <2>1 DEF OnlyWritten
    <3>2. PICK j \in 1 .. m[u] : f[p] = <<u, j>>
      BY <3>1
    <3>3. j \in 1 .. l[u]
      BY <1>2, <3>2
    <3> QED
      BY <1>3, <2>1, <3>2, <3>3
  <2>2. CASE p \in a + 1 .. b
    <3>1. d + p - a \in 1 .. l[w]
      BY <1>1, <1>2, <1>8, <2>2
    <3> QED
      BY <1>4, <2>2, <3>1
  <2> QED
    BY <1>6, <2>1, <2>2
<1>11. ASSUME NEW u \in Writers, NEW j \in 1 .. l[u]
       PROVE  \E p \in 1 .. b : g[p] = <<u, j>>
  <2>1. CASE j \in 1 .. m[u]
    <3>1. PICK p \in 1 .. a : f[p] = <<u, j>>
      BY <1>0, <2>1 DEF AllWritten
    <3>2. p \in 1 .. b
      BY <1>1, <3>1
    <3> QED
      BY <1>3, <3>1, <3>2
  <2>2. CASE j \notin 1 .. m[u]
    <3>1. u = w /\ j \in d + 1 .. d + n
      BY <1>1, <1>2, <2>2 DEF d
    <3> DEFINE p == a + (j - d)
    <3>2. p \in a + 1 .. b /\ p \in 1 .. b /\ d + p - a = j
      BY <1>1, <1>8, <3>1
    <3> HIDE DEF p
    <3> QED
      BY <1>4, <3>1, <3>2
  <2> QED
    BY <2>1, <2>2
<1>12. ASSUME NEW p \in 1 .. b, NEW q \in 1 .. b, g[p] = g[q] PROVE p = q
  <2>1. CASE p \in 1 .. a /\ q \in 1 .. a
    BY <1>0, <1>3, <1>12, <2>1 DEF EachOnce
  <2>2. CASE p \in a + 1 .. b /\ q \in a + 1 .. b
    <3>1. d + p - a = d + q - a
      BY <1>4, <1>12, <2>2
    <3> QED
      BY <1>1, <2>2, <3>1
  <2>3. ASSUME NEW x \in 1 .. a, NEW y \in a + 1 .. b, g[x] = g[y] PROVE FALSE
    <3>1. f[x] = <<w, d + y - a>> /\ d + y - a \in Nat
      BY <1>1, <1>3, <1>4, <2>3
    <3>2. d + y - a \in 1 .. d
      BY <1>7, <3>1
    <3> QED
      BY <1>1, <3>2
  <2> QED
    BY <1>6, <1>12, <2>1, <2>2, <2>3
<1>13. ASSUME NEW u \in Writers, NEW j \in 1 .. DataLength, NEW p \in 1 .. b, NEW q \in 1 .. b,
              g[p] = <<u, j>>, g[q] = <<u, j + 1>>
       PROVE  Follows(j, p, q)
  <2>0. j \in Nat /\ j + 1 \in Nat
    BY NumbersOfBytes
  <2>1. CASE p \in 1 .. a /\ q \in 1 .. a
    <3>1. f[p] = <<u, j>> /\ f[q] = <<u, j + 1>>
      BY <1>3, <1>13, <2>1
    <3> QED
      BY <1>0, <2>1, <3>1 DEF InOrder
  <2>2. CASE p \in a + 1 .. b /\ q \in a + 1 .. b
    <3>1. j = d + p - a /\ j + 1 = d + q - a
      BY <1>4, <1>13, <2>2
    <3>2. q = p + 1 /\ p < q
      BY <1>1, <2>2, <3>1
    <3> QED
      BY <3>2 DEF Follows
  <2>3. CASE p \in a + 1 .. b /\ q \in 1 .. a
    <3>0. <<u, j>> = <<w, d + p - a>> /\ f[q] = <<u, j + 1>>
      BY <1>3, <1>4, <1>13, <2>3, Zenon
    <3>1. u = w /\ j = d + p - a /\ f[q] = <<w, j + 1>>
      BY <3>0
    <3>2. j + 1 \in 1 .. d
      BY <1>7, <2>0, <2>3, <3>1
    <3> QED
      BY <1>1, <2>3, <3>1, <3>2
  <2>4. CASE p \in 1 .. a /\ q \in a + 1 .. b
    <3>1. u = w /\ j + 1 = d + q - a /\ f[p] = <<w, j>>
      BY <1>3, <1>4, <1>13, <2>4
    <3>2. j \in 1 .. d
      BY <1>7, <2>0, <2>4, <3>1
    <3>3. j = d /\ q = a + 1 /\ p < q
      BY <1>1, <2>4, <3>1, <3>2
    <3> QED
      BY <3>3 DEF d, Follows
  <2> QED
    BY <1>6, <2>1, <2>2, <2>3, <2>4
<1>14. OnlyWritten(g, b, l)
  BY <1>10 DEF OnlyWritten
<1>15. AllWritten(g, b, l)
  BY <1>11 DEF AllWritten
<1>16. EachOnce(g, b)
  BY <1>12 DEF EachOnce
<1>17. InOrder(g, b)
  BY <1>13 DEF InOrder
<1>18. Interleaved(g, b, l)
  BY <1>1, <1>9, <1>14, <1>15, <1>16, <1>17 DEF Interleaved
<1> QED
  BY <1>18 DEF b, l

LEMMA WriteKeepsWritten ==
  ASSUME HandleTyped, HandleTyped', Comrades, NEW w \in Writers, Written(w), AtAChunk(w),
         Write(w), NEW t \in Writers
  PROVE  Written(t)'
<1>1. PICK n \in Nat :
        /\ At(w) \in Nat
        /\ Len(file') = IF At(w) + n > Len(file) THEN At(w) + n ELSE Len(file)
        /\ \A p \in 1 .. Len(file') : file'[p] =
             IF p \in At(w) + 1 .. At(w) + n THEN <<w, written[w] + p - At(w)>> ELSE file[p]
        /\ written' = [written EXCEPT ![w] = @ + n]
        /\ At(t)' = At(w) + n
        /\ pc[w] = "write" /\ written[w] < DataLength
  BY WriteFacts
<1>2. file \in Seq(Byte) /\ file' \in Seq(Byte) /\ written \in [Writers -> Nat]
  BY HandleAssumption DEF HandleTyped
<1>3. written[w] % BufferSize = 0
  <2>1. written[w] # DataLength
    BY <1>1, <1>2, HandleAssumption
  <2> QED
    BY <1>1, <2>1 DEF AtAChunk
<1>4. PICK f \in Seq(Byte), g \in Seq(Byte), a \in Nat, m \in [Writers -> Nat] :
        f = file /\ g = file' /\ a = At(w) /\ m = written
  BY <1>1, <1>2
<1>5. Interleaved(f, a, m) /\ m[w] % BufferSize = 0
  BY <1>3, <1>4 DEF Written
<1>6. /\ Len(g) = IF a + n > Len(f) THEN a + n ELSE Len(f)
      /\ \A p \in 1 .. Len(g) : g[p] = IF p \in a + 1 .. a + n THEN <<w, m[w] + p - a>> ELSE f[p]
  BY <1>1, <1>4
<1>7. Interleaved(g, a + n, [m EXCEPT ![w] = @ + n])
  BY <1>5, <1>6, OneMoreChunk
<1>8. g = file' /\ At(t)' = a + n /\ written' = [m EXCEPT ![w] = @ + n]
  BY <1>1, <1>4
<1> QED
  BY <1>7, <1>8 DEF Written

LEMMA WriteKeepsChunks ==
  ASSUME HandleTyped, Comrades, NEW w \in Writers, Written(w), AtAChunk(w), Write(w),
         NEW t \in Writers, AtAChunk(t)
  PROVE  AtAChunk(t)'
<1>1. PICK n \in Nat :
        /\ written' = [written EXCEPT ![w] = @ + n]
        /\ pc' = [pc EXCEPT ![w] = IF n = Chunk(w) THEN "write" ELSE "threw"]
        /\ pc[w] = "write" /\ written[w] < DataLength
  BY WriteFacts
<1>2. w \in Tasks /\ t \in Tasks /\ written[w] \in Nat
  BY HandleAssumption DEF HandleTyped, Tasks
<1>3. CASE t # w
  BY <1>1, <1>2, <1>3 DEF AtAChunk, HandleTyped
<1>4. CASE t = w /\ pc'[w] = "write"
  <2>1. n = Chunk(w) /\ written'[w] = written[w] + n
    BY <1>1, <1>2, <1>4 DEF HandleTyped
  <2>2. CASE n = BufferSize
    <3>1. written[w] % BufferSize = 0
      BY <1>1, <1>2, HandleAssumption DEF AtAChunk
    <3>2. written'[w] % BufferSize = 0
      BY <1>2, <2>1, <2>2, <3>1, NextChunk
    <3> QED
      BY <1>4, <3>2 DEF AtAChunk
  <2>3. CASE n = DataLength - written[w]
    <3>1. written'[w] = DataLength
      BY <1>2, <2>1, <2>3, HandleAssumption
    <3> QED
      BY <1>4, <3>1 DEF AtAChunk
  <2> QED
    BY <2>1, <2>2, <2>3 DEF Chunk, Lesser
<1>5. CASE t = w /\ pc'[w] # "write"
  BY <1>5 DEF AtAChunk
<1> QED
  BY <1>3, <1>4, <1>5

LEMMA WritersStep == HandleTyped /\ HandleTyped' /\ WritersInv /\ [Next]_vars => WritersInv'
<1> SUFFICES ASSUME HandleTyped, HandleTyped', WritersInv, [Next]_vars,
                    Comrades', resizes' = 0, NEW t \in Writers
             PROVE  Written(t)' /\ AtAChunk(t)'
  BY DEF WritersInv
<1>0. t \in Tasks
  BY DEF Tasks
<1>1. handle' = handle /\ Comrades
  BY DEF Comrades, Next, Hop, Seek, Read, Write, Return, Throw, Resize, vars
<1>2. CASE Resize
  BY <1>2 DEF Resize, HandleTyped
<1>3. ASSUME resizes = 0, file' = file, written' = written, At(t)' = At(t),
             pc'[t] = pc[t] \/ pc'[t] # "write"
      PROVE  Written(t)' /\ AtAChunk(t)'
  <2>1. Written(t) /\ AtAChunk(t)
    BY <1>1, <1>3 DEF WritersInv
  <2> QED
    BY <1>3, <2>1 DEF Written, AtAChunk
<1>4. ASSUME NEW u \in Readers, Seek(u) \/ Read(u) PROVE Written(t)' /\ AtAChunk(t)'
  <2>1. u # t /\ u \in Tasks \ {t} /\ u \notin Writers
    BY HandleAssumption DEF Tasks
  <2>2. handle[u] # handle[t]
    BY <1>1, <2>1 DEF Comrades
  <2>3. /\ file' = file /\ written' = written /\ resizes' = resizes
        /\ fileOffset'[handle[t]] = fileOffset[handle[t]]
    BY <1>0, <1>4, <2>2 DEF Seek, Read, HandleTyped
  <2>4. pc'[t] = pc[t]
    BY <1>0, <1>4, <2>1 DEF Seek, Read, HandleTyped
  <2> QED
    BY <1>1, <1>3, <2>3, <2>4 DEF At
<1>5. ASSUME NEW w \in Writers, Write(w) PROVE Written(t)' /\ AtAChunk(t)'
  <2>1. Comrades /\ resizes = 0
    BY <1>1, <1>5 DEF Write
  <2> QED
    BY <1>5, <2>1, WriteKeepsWritten, WriteKeepsChunks DEF WritersInv
<1>6. ASSUME NEW u \in Tasks, Return(u) \/ Throw(u) PROVE Written(t)' /\ AtAChunk(t)'
  <2>1. /\ file' = file /\ written' = written /\ resizes' = resizes /\ fileOffset' = fileOffset
        /\ pc'[t] = pc[t] \/ pc'[t] # "write"
    BY <1>0, <1>6 DEF Return, Throw, HandleTyped
  <2> QED
    BY <1>1, <1>3, <2>1 DEF At
<1>7. CASE UNCHANGED vars
  BY <1>3, <1>7 DEF vars, At
<1> QED
  BY <1>2, <1>4, <1>5, <1>6, <1>7 DEF Next, Hop

LEMMA WritersInvariant == Spec => [](HandleTyped /\ WritersInv)
  BY HandleTypedInitially, HandleTypedStep, WritersInitially, WritersStep, PTL DEF Spec

(* Writers that share one handle of a file nobody else resizes never        *)
(* overwrite each other: every byte written is in the file once, in order,  *)
(* every chunk in one piece.                                                *)
THEOREM WritersDoNotOverwrite == Spec => []WritersInterleave
<1>1. HandleTyped /\ WritersInv => WritersInterleave
  <2> SUFFICES ASSUME HandleTyped, WritersInv, Comrades, resizes = 0,
                      NEW t \in Writers, NEW j \in 1 .. DataLength
               PROVE  IF j <= written[t]
                      THEN /\ Cardinality(Places(t, j)) = 1
                           /\ \A p \in Places(t, j), q \in Places(t, j + 1) :
                                IF j % BufferSize = 0 THEN p < q ELSE q = p + 1
                      ELSE Places(t, j) = {}
    BY DEF WritersInterleave
  <2>1. /\ At(t) <= Len(file)
        /\ RestIsOld(file, At(t)) /\ OnlyWritten(file, At(t), written)
        /\ AllWritten(file, At(t), written) /\ EachOnce(file, At(t)) /\ InOrder(file, At(t))
    BY DEF WritersInv, Written, Interleaved
  <2>2. Len(file) \in Nat /\ At(t) \in Nat /\ At(t) <= Len(file) /\ written[t] \in Nat /\ j \in Nat
    BY <2>1, LenProperties, HandleAssumption DEF HandleTyped, At, Tasks
  <2>3. ASSUME NEW i \in Nat \ {0}, NEW p \in Places(t, i)
        PROVE  p \in 1 .. At(t) /\ file[p] = <<t, i>> /\ i <= written[t]
    <3>1. p \in 1 .. Len(file) /\ file[p] = <<t, i>>
      BY <2>3 DEF Places
    <3>2. file[p] # Old
      BY <3>1 DEF Old
    <3>3. p \in 1 .. At(t)
      <4>1. ~(p > At(t))
        BY <2>1, <3>1, <3>2 DEF RestIsOld
      <4> QED
        BY <2>2, <3>1, <4>1
    <3>4. PICK u \in Writers : \E k \in 1 .. written[u] : file[p] = <<u, k>>
      BY <2>1, <3>3 DEF OnlyWritten
    <3>5. PICK k \in 1 .. written[u] : file[p] = <<u, k>>
      BY <3>4
    <3>6. u = t /\ k = i
      BY <3>1, <3>5
    <3> QED
      BY <2>2, <3>1, <3>3, <3>5, <3>6
  <2>4. CASE j <= written[t]
    <3>0. j \in 1 .. written[t]
      BY <2>2, <2>4
    <3>1. PICK p \in 1 .. At(t) : file[p] = <<t, j>>
      BY <2>1, <3>0 DEF AllWritten
    <3>2. p \in Places(t, j)
      BY <2>2, <3>1 DEF Places
    <3>3. ASSUME NEW q \in Places(t, j) PROVE q = p
      <4>1. q \in 1 .. At(t) /\ file[q] = <<t, j>>
        BY <2>2, <2>3, <3>3
      <4> QED
        BY <2>1, <3>1, <4>1 DEF EachOnce
    <3>4. Places(t, j) = {p}
      BY <3>2, <3>3
    <3>5. Cardinality(Places(t, j)) = 1
      BY <3>4, FS_Singleton
    <3>6. ASSUME NEW x \in Places(t, j), NEW y \in Places(t, j + 1)
          PROVE  Follows(j, x, y)
      <4>1. x \in 1 .. At(t) /\ file[x] = <<t, j>>
        BY <2>3, <3>6
      <4>2. j + 1 \in Nat \ {0}
        BY <2>2
      <4>3. y \in 1 .. At(t) /\ file[y] = <<t, j + 1>>
        BY <2>3, <3>6, <4>2
      <4> QED
        BY <2>1, <4>1, <4>3 DEF InOrder
    <3> QED
      BY <2>4, <3>5, <3>6 DEF Follows
  <2>5. CASE ~(j <= written[t])
    <3>1. Places(t, j) = {}
      BY <2>3, <2>5
    <3> QED
      BY <2>5, <3>1
  <2> QED
    BY <2>4, <2>5
<1> QED
  BY <1>1, WritersInvariant, PTL
=============================================================================
