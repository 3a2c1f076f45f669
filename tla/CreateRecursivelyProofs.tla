----------------------- MODULE CreateRecursivelyProofs -----------------------
(* What the recursive creation of directories leaves behind, for every set  *)
(* of tasks, paths and trees.                                               *)
EXTENDS CreateRecursively, SequenceTheorems, TLAPS

(* A path whose last component exists, below a directory.                   *)
There(p) == Exists(Place(p)) /\ IsDirectory(Front(p))

(* A new directory or file where nothing was.                               *)
Grows ==
  \E q : \E kind \in {"directory", "regular"} : ~Exists(q) /\ tree' = With(q, kind)

(* Something new that is no link changes the meaning of no path.            *)
LEMMA GrowingKeepsMeaning ==
  ASSUME Grows, NEW p
  PROVE  Resolve(p)' = Resolve(p) /\ Place(p)' = Place(p)
<1>1. ASSUME NEW q PROVE IsLink(q)' <=> IsLink(q)
  BY DEF Grows, With, IsLink, Exists
<1>2. ASSUME NEW q PROVE Links(q)' = Links(q)
  BY <1>1 DEF Links
<1>3. ASSUME NEW q PROVE Resolve(q)' = Resolve(q)
  BY <1>2 DEF Resolve
<1> QED
  BY <1>3 DEF Place

(* The tree alone gives a path its meaning.                                 *)
LEMMA SameTreeSameMeaning ==
  ASSUME tree' = tree, NEW p
  PROVE  Resolve(p)' = Resolve(p) /\ Place(p)' = Place(p)
<1>1. ASSUME NEW q PROVE Links(q)' = Links(q)
  BY DEF Links, IsLink, Exists
<1>2. ASSUME NEW q PROVE Resolve(q)' = Resolve(q)
  BY <1>1 DEF Resolve
<1> QED
  BY <1>2 DEF Place

(* Nor does it take away anything, or a path that is there.                 *)
LEMMA GrowingKeepsPaths ==
  ASSUME Grows, NEW p
  PROVE  There(p) => There(p)'
<1>1. ASSUME NEW q, Exists(q) PROVE Exists(q)' /\ tree'[q] = tree[q]
  BY <1>1 DEF Grows, With, Exists
<1>2. IsDirectory(Front(p)) => IsDirectory(Front(p))'
  BY <1>1, GrowingKeepsMeaning DEF IsDirectory
<1>3. Exists(Place(p)) => Exists(Place(p))'
  BY <1>1, GrowingKeepsMeaning
<1> QED
  BY <1>2, <1>3 DEF There

-----------------------------------------------------------------------------
(* Every beginning of the path that was gone through is there, unless       *)
(* another client removed something.                                        *)
CreateTyped ==
  /\ done \in [Tasks -> Nat]
  /\ DOMAIN result = Tasks
  /\ \A t \in Tasks : IsPath(target[t])
  /\ <<>> \in DOMAIN tree /\ tree[<<>>] = "directory"

GoneThrough(t) ==
  /\ result[t] = "returned" => done[t] = Len(target[t])
  /\ ~removed => \A k \in 1 .. done[t] : There(SubSeq(target[t], 1, k))

CreateInv == CreateTyped /\ \A t \in Tasks : GoneThrough(t)

(* The part of a path that mkdir is given next is not empty.                *)
LEMMA PartialNonEmpty ==
  ASSUME CreateTyped, NEW t \in Tasks
  PROVE  partial(t) # <<>>
<1> DEFINE n == done[t] + 1
           S == {target[t][i] : i \in 1 .. n}
<1>1. n \in Int /\ n >= 1
  BY DEF CreateTyped
<1>2. \A i \in 1 .. n : target[t][i] \in S
  OBVIOUS
<1> HIDE DEF n, S
<1>3. Len(SubSeq(target[t], 1, n)) = n
  BY <1>1, <1>2, SubSeqProperties
<1>4. Len(<<>>) = 0
  OBVIOUS
<1>5. ASSUME NEW s, Len(s) = n PROVE s # <<>>
  BY <1>1, <1>4, <1>5
<1>6. SubSeq(target[t], 1, n) # <<>>
  BY <1>3, <1>5, Zenon
<1> QED
  BY <1>6 DEF partial, n

(* What mkdir leaves: the path is there if the loop goes on, and the tree   *)
(* has at most grown.                                                       *)
LEMMA MkdirMakesThere ==
  ASSUME NEW p, p # <<>>, tree' = Mkdir(p)
  PROVE  /\ Grows \/ tree' = tree
         /\ PassesOver(MkdirOutcome(p)) => There(p)'
<1>1. CASE MkdirOutcome(p) = "done"
  <2>1. IsDirectory(Front(p)) /\ ~Exists(Place(p)) /\ tree' = With(Place(p), "directory")
    BY <1>1 DEF MkdirOutcome, Mkdir
  <2>2. Grows
    BY <2>1 DEF Grows
  <2>3. Place(p)' = Place(p) /\ Resolve(Front(p))' = Resolve(Front(p))
    BY <2>2, GrowingKeepsMeaning
  <2>4. Exists(Place(p))'
    BY <2>1, <2>3 DEF With, Exists
  <2>5. IsDirectory(Front(p))'
    BY <2>1, <2>3 DEF With, Exists, IsDirectory
  <2> QED
    BY <2>2, <2>4, <2>5 DEF There
<1>2. CASE MkdirOutcome(p) # "done"
  <2>1. tree' = tree
    BY <1>2 DEF Mkdir
  <2>2. PassesOver(MkdirOutcome(p)) => There(p)
    BY <1>2 DEF PassesOver, MkdirOutcome, There
  <2>3. There(p)' <=> There(p)
    BY <2>1, SameTreeSameMeaning DEF There, Exists, IsDirectory
  <2> QED
    BY <2>1, <2>2, <2>3
<1> QED
  BY <1>1, <1>2

-----------------------------------------------------------------------------
(* A step after which nothing has been removed lets the tree grow, at most. *)
LEMMA StepsGrow ==
  ASSUME CreateTyped, Next, ~removed'
  PROVE  Grows \/ tree' = tree
<1>1. CASE OthersMake
  BY <1>1 DEF OthersMake, Grows
<1>2. CASE OthersRemove
  BY <1>2 DEF OthersRemove
<1>3. ASSUME NEW t \in Tasks, CreateDirectory(t) PROVE Grows \/ tree' = tree
  BY <1>3, PartialNonEmpty, MkdirMakesThere DEF CreateDirectory
<1>4. ASSUME NEW t \in Tasks, Return(t) \/ Fail(t) PROVE Grows \/ tree' = tree
  BY <1>4 DEF Return, Fail
<1> QED
  BY <1>1, <1>2, <1>3, <1>4 DEF Next, Hop

(* There is always a root: rmdir and unlink do not take it away.            *)
LEMMA RootStays ==
  ASSUME CreateTyped, Next
  PROVE  <<>> \in DOMAIN tree' /\ tree'[<<>>] = "directory"
<1> SUFFICES ASSUME ~(tree' = tree) PROVE <<>> \in DOMAIN tree' /\ tree'[<<>>] = "directory"
  BY DEF CreateTyped
<1>1. CASE Grows
  BY <1>1 DEF Grows, With, Exists, CreateTyped
<1>2. CASE OthersRemove
  <2>1. PICK p \in Paths : \/ UnlinkOutcome(p) = "done" /\ tree' = Unlink(p)
                           \/ RmdirOutcome(p) = "done" /\ tree' = Rmdir(p)
    BY <1>2 DEF OthersRemove
  <2>2. PICK q : q # <<>> /\ tree' = Without(q)
    BY <2>1 DEF UnlinkOutcome, Unlink, RmdirOutcome, Rmdir, CreateTyped
  <2> QED
    BY <2>2 DEF Without, CreateTyped
<1> QED
  <2>1. ASSUME NEW t \in Tasks, CreateDirectory(t) PROVE Grows \/ tree' = tree
    BY <2>1, PartialNonEmpty, MkdirMakesThere DEF CreateDirectory
  <2>2. OthersMake => Grows
    BY DEF OthersMake, Grows
  <2> QED
    BY <1>1, <1>2, <2>1, <2>2 DEF Next, Hop, Return, Fail

(* Every step keeps what was gone through.                                  *)
LEMMA CreateStep == CreateInv /\ [Next]_vars => CreateInv'
<1> SUFFICES ASSUME CreateInv, [Next]_vars PROVE CreateInv'
  OBVIOUS
<1> USE DEF CreateInv
<1>1. CASE UNCHANGED vars
  <2>1. ASSUME NEW p PROVE There(p)' <=> There(p)
    BY <1>1, SameTreeSameMeaning DEF vars, There, Exists, IsDirectory
  <2>2. UNCHANGED <<done, result, target, removed, tree>>
    BY <1>1 DEF vars
  <2>3. ASSUME NEW t \in Tasks PROVE GoneThrough(t)'
    BY <2>1, <2>2 DEF GoneThrough
  <2> QED
    BY <2>2, <2>3 DEF CreateTyped
<1>2. CASE Next
  <2>1. CreateTyped'
    <3>1. done' \in [Tasks -> Nat] /\ DOMAIN result' = Tasks /\ UNCHANGED target
      BY <1>2 DEF CreateTyped, Next, Hop, CreateDirectory, Return, Fail, OthersMake, OthersRemove
    <3> QED
      BY <1>2, <3>1, RootStays DEF CreateTyped
  <2> SUFFICES ASSUME NEW t \in Tasks PROVE GoneThrough(t)'
    BY <2>1
  <2>2. UNCHANGED target /\ (removed => removed')
    BY <1>2 DEF Next, Hop, CreateDirectory, Return, Fail, OthersMake, OthersRemove
  <2>3. \/ done'[t] = done[t]
        \/ /\ CreateDirectory(t) /\ PassesOver(MkdirOutcome(partial(t)))
           /\ result'[t] = "none" /\ done'[t] = done[t] + 1
    BY <1>2 DEF CreateTyped, Next, Hop, CreateDirectory, Return, Fail, OthersMake, OthersRemove,
       PassesOver
  <2>4. result'[t] = "returned" => done'[t] = Len(target'[t])
    BY <1>2, <2>2 DEF GoneThrough, CreateTyped, Next, Hop, CreateDirectory, Return, Fail,
       OthersMake, OthersRemove
  <2> SUFFICES ASSUME ~removed', NEW k \in 1 .. done'[t]
               PROVE  There(SubSeq(target[t], 1, k))'
    BY <2>2, <2>4 DEF GoneThrough
  <2>5. PICK p : p = SubSeq(target[t], 1, k)
    OBVIOUS
  <2>6. Grows \/ tree' = tree
    BY <1>2, StepsGrow
  <2>7. CASE k <= done[t]
    <3>1. There(p)
      BY <2>2, <2>5, <2>7 DEF GoneThrough, CreateTyped
    <3>2. There(p)'
      BY <2>6, <3>1, GrowingKeepsPaths, SameTreeSameMeaning DEF There, Exists, IsDirectory
    <3> QED
      BY <2>2, <2>5, <3>2
  <2>8. CASE ~(k <= done[t])
    <3>1. CreateDirectory(t) /\ PassesOver(MkdirOutcome(partial(t))) /\ k = done[t] + 1
      BY <2>3, <2>8 DEF CreateTyped
    <3>2. p = partial(t) /\ p # <<>>
      BY <2>5, <3>1, PartialNonEmpty DEF partial
    <3>3. There(p)'
      BY <3>1, <3>2, MkdirMakesThere DEF CreateDirectory
    <3> QED
      BY <2>2, <2>5, <3>3
  <2> QED
    BY <2>7, <2>8
<1> QED
  BY <1>1, <1>2

(* When createDirectoryRecursively returns, the path is there and all on    *)
(* the way to it are directories, whoever else made them, unless another    *)
(* client removed something.                                                *)
THEOREM CreatedPathsAreThere == Spec => []ReturnedMeansThere
<1>1. Init => CreateInv
  BY CreateAssumption DEF Init, CreateInv, CreateTyped, GoneThrough, IsTree
<1>2. CreateInv => ReturnedMeansThere
  BY DEF CreateInv, CreateTyped, GoneThrough, ReturnedMeansThere, Partials, There
<1> QED
  BY <1>1, <1>2, CreateStep, PTL DEF Spec

-----------------------------------------------------------------------------
(* The beginning of a path that ends one component earlier.                 *)
LEMMA FrontOfBeginning ==
  ASSUME NEW p, IsPath(p), NEW n \in Nat, n < Len(p)
  PROVE  Front(SubSeq(p, 1, n + 1)) = SubSeq(p, 1, n)
<1> DEFINE a == SubSeq(p, 1, n + 1)
           b == SubSeq(a, 1, n)
           c == SubSeq(p, 1, n)
<1>1. p \in Seq(STRING) /\ Len(p) \in Nat
  BY DEF IsPath
<1>2. \A i \in 1 .. n + 1 : p[i] \in STRING
  BY <1>1, ElementOfSeq
<1>3. a \in Seq(STRING) /\ Len(a) = n + 1 /\ \A i \in 1 .. n + 1 : a[i] = p[i]
  BY <1>2, SubSeqProperties
<1>4. c \in Seq(STRING) /\ Len(c) = n /\ \A i \in 1 .. n : c[i] = p[i]
  BY <1>2, SubSeqProperties
<1>5. b \in Seq(STRING) /\ Len(b) = n /\ \A i \in 1 .. n : b[i] = a[i]
  <2> HIDE DEF a
  <2> QED
    BY <1>2, <1>3, SubSeqProperties
<1>6. b = c
  <2> HIDE DEF a, b, c
  <2> QED
    BY <1>3, <1>4, <1>5, SeqEqual
<1> QED
  BY <1>3, <1>6 DEF Front

(* What CreatorsAgree owes to safety: a task fails only if a call of the    *)
(* server failed, another client removed something, or something that is no *)
(* directory is in the way; never because of the other tasks.               *)
FailsForAReason ==
  [][\A t \in Tasks : result[t] = "none" /\ result'[t] = "threw" =>
        removed \/ broken' \/ \E p \in Partials(target[t]) : InTheWay(p)]_vars

(* Creating overlapping paths at once makes no task fail.                   *)
THEOREM CreatorsDoNotDisturb == Spec => FailsForAReason
<1> DEFINE Reason(t) == removed \/ broken' \/ \E p \in Partials(target[t]) : InTheWay(p)
<1>1. ASSUME CreateInv, Next, NEW t \in Tasks, result[t] = "none", result'[t] = "threw",
             ~removed, ~broken'
      PROVE  \E p \in Partials(target[t]) : InTheWay(p)
  <2> USE DEF CreateInv
  <2>1. CreateDirectory(t) /\ ~PassesOver(MkdirOutcome(partial(t)))
    BY <1>1 DEF CreateTyped, Next, Hop, CreateDirectory, Return, Fail, OthersMake, OthersRemove
  <2> DEFINE p == partial(t)
             f == Front(p)
             n == done[t]
  <2>2. p # <<>> /\ ~IsDirectory(f)
    BY <1>1, <2>1, PartialNonEmpty DEF PassesOver, MkdirOutcome
  <2>3. f = SubSeq(target[t], 1, n)
    BY <1>1, <2>1, FrontOfBeginning DEF CreateTyped, CreateDirectory, partial
  <2>4. n # 0
    <3>1. SUFFICES ASSUME n = 0 PROVE IsDirectory(f)
      BY <2>2
    <3>2. f = <<>>
      BY <2>3, <3>1
    <3>3. Links(<<>>) = {}
      BY DEF Links
    <3> QED
      BY <1>1, <3>2, <3>3 DEF IsDirectory, Exists, Resolve, CreateTyped
  <2>5. n \in 1 .. n /\ n \in 1 .. Len(target[t])
    BY <1>1, <2>1, <2>4 DEF CreateTyped, CreateDirectory
  <2>6. There(f)
    BY <1>1, <2>3, <2>5 DEF GoneThrough
  <2> QED
    BY <2>2, <2>3, <2>5, <2>6 DEF InTheWay, There, Partials
<1>2. CreateInv /\ [Next]_vars =>
        [\A t \in Tasks : result[t] = "none" /\ result'[t] = "threw" => Reason(t)]_vars
  BY <1>1
<1>3. Init => CreateInv
  BY CreateAssumption DEF Init, CreateInv, CreateTyped, GoneThrough, IsTree
<1> QED
  BY <1>2, <1>3, CreateStep, PTL DEF Spec, FailsForAReason
=============================================================================
