----------------------- MODULE RemoveRecursivelyProofs -----------------------
(* What a recursive removal takes away and what it leaves, for every tree   *)
(* and every number of changes that other clients make meanwhile.           *)
EXTENDS RemoveRecursively, SequenceTheorems, TLAPS

Path == Seq(STRING)

(***************************************************************************)
(* Paths                                                                   *)
(***************************************************************************)

(* A beginning of a path.                                                   *)
LEMMA Beginning ==
  ASSUME NEW p \in Path, NEW k \in 0 .. Len(p)
  PROVE  /\ SubSeq(p, 1, k) \in Path
         /\ Len(SubSeq(p, 1, k)) = k
         /\ \A i \in 1 .. k : SubSeq(p, 1, k)[i] = p[i]
<1>1. Len(p) \in Nat /\ k \in Int
  BY DEF Path
<1>2. \A i \in 1 .. k : p[i] \in STRING
  BY <1>1, ElementOfSeq DEF Path
<1> QED
  BY <1>1, <1>2, SubSeqProperties DEF Path

(* Paths with the same components are the same.                             *)
LEMMA SamePath ==
  ASSUME NEW p \in Path, NEW q \in Path, Len(p) = Len(q), \A i \in 1 .. Len(p) : p[i] = q[i]
  PROVE  p = q
  BY SeqEqual DEF Path

LEMMA WholePath ==
  ASSUME NEW p \in Path PROVE SubSeq(p, 1, Len(p)) = p
  BY SubSeqFull DEF Path

LEMMA BeginningOfBeginning ==
  ASSUME NEW p \in Path, NEW n \in 0 .. Len(p), NEW k \in 0 .. n
  PROVE  SubSeq(SubSeq(p, 1, n), 1, k) = SubSeq(p, 1, k)
<1>0. Len(p) \in Nat /\ k \in 0 .. Len(p)
  BY DEF Path
<1> DEFINE a == SubSeq(p, 1, n)
           b == SubSeq(a, 1, k)
           c == SubSeq(p, 1, k)
<1>1. a \in Path /\ Len(a) = n /\ \A i \in 1 .. n : a[i] = p[i]
  BY Beginning
<1>2. c \in Path /\ Len(c) = k /\ \A i \in 1 .. k : c[i] = p[i]
  BY <1>0, Beginning
<1> HIDE DEF a
<1>3. b \in Path /\ Len(b) = k /\ \A i \in 1 .. k : b[i] = a[i]
  BY <1>1, Beginning
<1> HIDE DEF b, c
<1>4. b = c
  BY <1>0, <1>1, <1>2, <1>3, SamePath
<1> QED
  BY <1>4 DEF a, b, c

LEMMA AppendFacts ==
  ASSUME NEW S, NEW p \in Seq(S), NEW e \in S
  PROVE  /\ Append(p, e) \in Seq(S) /\ Append(p, e) # <<>> /\ Len(Append(p, e)) = Len(p) + 1
         /\ \A i \in 1 .. Len(p) : Append(p, e)[i] = p[i]
         /\ Append(p, e)[Len(p) + 1] = e
  BY AppendProperties

(* Lengthening a path by a name.                                            *)
LEMMA Lengthened ==
  ASSUME NEW p \in Path, NEW name \in STRING
  PROVE  /\ Append(p, name) \in Path
         /\ Append(p, name) # <<>>
         /\ Len(Append(p, name)) = Len(p) + 1
         /\ \A i \in 1 .. Len(p) : Append(p, name)[i] = p[i]
         /\ Append(p, name)[Len(p) + 1] = name
         /\ Last(Append(p, name)) = name
         /\ \A k \in 0 .. Len(p) : SubSeq(Append(p, name), 1, k) = SubSeq(p, 1, k)
         /\ Front(Append(p, name)) = p
<1> DEFINE q == Append(p, name)
<1>0. Len(p) \in Nat /\ p \in Seq(STRING)
  BY DEF Path
<1>1. /\ q \in Path /\ q # <<>> /\ Len(q) = Len(p) + 1 /\ Len(p) \in Nat
      /\ \A i \in 1 .. Len(p) : q[i] = p[i]
      /\ q[Len(p) + 1] = name
  <2>1. /\ q \in Seq(STRING) /\ q # <<>> /\ Len(q) = Len(p) + 1
        /\ \A i \in 1 .. Len(p) : q[i] = p[i]
        /\ q[Len(p) + 1] = name
    BY <1>0, AppendFacts, Zenon
  <2> QED
    BY <1>0, <2>1 DEF Path
<1> HIDE DEF q
<1>2. ASSUME NEW k \in 0 .. Len(p) PROVE SubSeq(q, 1, k) = SubSeq(p, 1, k)
  <2>1. k \in 0 .. Len(q)
    BY <1>1
  <2> DEFINE a == SubSeq(q, 1, k)
             b == SubSeq(p, 1, k)
  <2>2. a \in Path /\ Len(a) = k /\ \A i \in 1 .. k : a[i] = q[i]
    BY <1>1, <2>1, Beginning
  <2>3. b \in Path /\ Len(b) = k /\ \A i \in 1 .. k : b[i] = p[i]
    BY Beginning
  <2> HIDE DEF a, b
  <2>4. a = b
    BY <1>1, <2>2, <2>3, SamePath
  <2> QED
    BY <2>4 DEF a, b
<1>3. Front(q) = p
  BY <1>1, <1>2, WholePath DEF Front
<1>4. Last(q) = name
  BY <1>1 DEF Last
<1> QED
  BY <1>1, <1>2, <1>3, <1>4 DEF q

(* Every path but the root is a shorter one lengthened by a name.           *)
LEMMA FrontAndLast ==
  ASSUME NEW p \in Path, p # <<>>
  PROVE  /\ Front(p) \in Path /\ Len(Front(p)) = Len(p) - 1 /\ Len(p) \in Nat \ {0}
         /\ Last(p) \in STRING
         /\ p = Append(Front(p), Last(p))
<1>1. PICK q \in Path, name \in STRING : p = Append(q, name)
  BY SequenceEmptyOrAppend DEF Path
<1>2. Front(p) = q /\ Last(p) = name /\ Len(p) = Len(q) + 1
  BY <1>1, Lengthened, Zenon
<1>3. Len(q) \in Nat
  BY DEF Path
<1>4. Len(Front(p)) = Len(p) - 1 /\ Len(p) \in Nat \ {0}
  BY <1>2, <1>3
<1> QED
  BY <1>1, <1>2, <1>4, Zenon

(* The beginning of a path that ends one name earlier.                      *)
LEMMA FrontOfBeginning ==
  ASSUME NEW p \in Path, NEW k \in 1 .. Len(p)
  PROVE  /\ Front(SubSeq(p, 1, k)) = SubSeq(p, 1, k - 1)
         /\ SubSeq(p, 1, k) # <<>>
<1>1. Len(p) \in Nat /\ k \in 0 .. Len(p) /\ k - 1 \in 0 .. k
  BY DEF Path
<1>2. Len(SubSeq(p, 1, k)) = k
  BY <1>1, Beginning
<1>3. Len(<<>>) = 0
  OBVIOUS
<1>4. ASSUME NEW s, Len(s) = k PROVE s # <<>>
  BY <1>3, <1>4
<1>5. SubSeq(p, 1, k) # <<>>
  BY <1>2, <1>4, Zenon
<1> QED
  BY <1>1, <1>2, <1>5, BeginningOfBeginning DEF Front

(* A path below another has the components of the other first.              *)
LEMMA BelowPointwise ==
  ASSUME NEW p \in Path, NEW q \in Path
  PROVE  Below(p, q) <=> Len(p) <= Len(q) /\ \A i \in 1 .. Len(p) : p[i] = q[i]
<1>1. Len(p) \in Nat /\ Len(q) \in Nat
  BY DEF Path
<1>2. CASE Len(p) <= Len(q)
  <2> DEFINE b == SubSeq(q, 1, Len(p))
  <2>1. Len(p) \in 0 .. Len(q)
    BY <1>1, <1>2
  <2>2. b \in Path /\ Len(b) = Len(p) /\ \A i \in 1 .. Len(p) : b[i] = q[i]
    BY <2>1, Beginning
  <2>3. SubSeq(p, 1, Len(p)) = p
    BY WholePath
  <2> HIDE DEF b
  <2>4. p = b <=> \A i \in 1 .. Len(p) : p[i] = q[i]
    BY <2>2, SamePath
  <2> QED
    BY <1>2, <2>3, <2>4 DEF Below, IsPrefix, b
<1>3. CASE ~(Len(p) <= Len(q))
  BY <1>3 DEF Below, IsPrefix
<1> QED
  BY <1>2, <1>3

LEMMA BelowIsBeginning ==
  ASSUME NEW p \in Path, NEW q \in Path, Below(p, q)
  PROVE  Len(p) \in 0 .. Len(q) /\ SubSeq(q, 1, Len(p)) = p
<1>1. Len(p) \in Nat /\ Len(q) \in Nat
  BY DEF Path
<1> QED
  BY <1>1, WholePath DEF Below, IsPrefix

(***************************************************************************)
(* What a path means                                                       *)
(***************************************************************************)

(* The place below the end of the link that is the first k names of p.      *)
Over(k, p) == LinkTarget \o SubSeq(p, k + 1, Len(p))

LEMMA OverComponents ==
  ASSUME NEW p \in Path, NEW k \in 0 .. Len(p)
  PROVE  /\ Over(k, p) \in Path
         /\ Len(Over(k, p)) = Len(LinkTarget) + Len(p) - k
         /\ \A i \in 1 .. Len(Over(k, p)) : Over(k, p)[i] =
              IF i <= Len(LinkTarget) THEN LinkTarget[i] ELSE p[k + i - Len(LinkTarget)]
<1> DEFINE r == SubSeq(p, k + 1, Len(p))
           o == LinkTarget \o r
<1>1. LinkTarget \in Path /\ Len(LinkTarget) \in Nat /\ Len(p) \in Nat /\ k \in Nat
  BY RemoveAssumption DEF IsPath, Path
<1>2. /\ r \in Path
      /\ Len(r) = Len(p) - k
      /\ \A i \in 1 .. Len(p) - k : r[i] = p[k + i]
  <2>1. \A i \in k + 1 .. Len(p) : p[i] \in STRING
    BY <1>1, ElementOfSeq DEF Path
  <2> DEFINE m == k + 1
             n == Len(p)
  <2>2. m \in Int /\ n \in Int /\ \A i \in m .. n : p[i] \in STRING
    BY <1>1, <2>1
  <2> HIDE DEF m, n
  <2>3. /\ SubSeq(p, m, n) \in Seq(STRING)
        /\ Len(SubSeq(p, m, n)) = IF m <= n THEN n - m + 1 ELSE 0
        /\ \A i \in 1 .. n - m + 1 : SubSeq(p, m, n)[i] = p[m + i - 1]
    BY <2>2, SubSeqProperties
  <2> DEFINE t == SubSeq(p, m, n)
  <2>4. /\ Len(t) = IF m <= n THEN n - m + 1 ELSE 0
        /\ \A i \in 1 .. n - m + 1 : t[i] = p[m + i - 1]
    BY <2>3
  <2> HIDE DEF t
  <2>5. Len(t) = Len(p) - k /\ \A i \in 1 .. Len(p) - k : t[i] = p[k + i]
    BY <1>1, <2>4 DEF m, n
  <2> QED
    BY <2>3, <2>5, Zenon DEF m, n, t, Path
<1> HIDE DEF r
<1>3. /\ o \in Path /\ Len(o) = Len(LinkTarget) + Len(r)
      /\ \A i \in 1 .. Len(LinkTarget) + Len(r) : o[i] =
           IF i <= Len(LinkTarget) THEN LinkTarget[i] ELSE r[i - Len(LinkTarget)]
  BY <1>1, <1>2, ConcatProperties, Zenon DEF Path
<1> HIDE DEF o
<1>4. ASSUME NEW i \in 1 .. Len(o)
      PROVE  o[i] = IF i <= Len(LinkTarget) THEN LinkTarget[i] ELSE p[k + i - Len(LinkTarget)]
  <2>1. i \in 1 .. Len(LinkTarget) + Len(r)
    BY <1>3
  <2>2. CASE i <= Len(LinkTarget)
    BY <1>3, <2>1, <2>2
  <2>3. CASE ~(i <= Len(LinkTarget))
    <3>1. o[i] = r[i - Len(LinkTarget)]
      BY <1>3, <2>1, <2>3
    <3>2. i - Len(LinkTarget) \in 1 .. Len(p) - k
      BY <1>1, <1>2, <2>1, <2>3
    <3>3. r[i - Len(LinkTarget)] = p[k + (i - Len(LinkTarget))]
      BY <1>2, <3>2
    <3>4. k + (i - Len(LinkTarget)) = k + i - Len(LinkTarget)
      BY <1>1, <2>1
    <3> QED
      BY <2>3, <3>1, <3>3, <3>4
  <2> QED
    BY <2>2, <2>3
<1>5. Len(o) = Len(LinkTarget) + Len(p) - k
  BY <1>1, <1>2, <1>3
<1> QED
  BY <1>3, <1>4, <1>5, Zenon DEF Over, o, r

(* Nothing exists below a link, so a path leads over one at most.           *)
LEMMA OneLink ==
  ASSUME IsTree(tree), NEW p \in Path, NEW k \in Links(p)
  PROVE  /\ Links(p) = {k} /\ Min(Links(p)) = k
         /\ k \in 1 .. Len(p) /\ Resolve(p) = Over(k, p)
<1>1. Len(p) \in Nat
  BY DEF Path
<1>2. ASSUME NEW i \in Links(p), NEW j \in Links(p), i < j PROVE FALSE
  <2>1. i \in 1 .. Len(p) /\ j \in 0 .. Len(p) /\ i \in 0 .. j
        /\ IsLink(SubSeq(p, 1, i)) /\ IsLink(SubSeq(p, 1, j))
    BY <1>1, <1>2 DEF Links
  <2>2. SubSeq(SubSeq(p, 1, j), 1, i) = SubSeq(p, 1, i) /\ Len(SubSeq(p, 1, j)) = j
    BY <2>1, BeginningOfBeginning, Beginning
  <2>3. i \in 0 .. Len(SubSeq(p, 1, j)) - 1
    BY <1>1, <1>2, <2>1, <2>2
  <2>4. tree[SubSeq(p, 1, i)] = "directory"
    BY <2>1, <2>2, <2>3 DEF IsTree, IsLink, Exists
  <2> QED
    BY <2>1, <2>4 DEF IsLink
<1>3. \A i \in Links(p) : i \in 1 .. Len(p)
  BY DEF Links
<1>4. \A i \in Links(p) : i = k
  BY <1>1, <1>2, <1>3
<1>5. Links(p) = {k}
  BY <1>4
<1>6. Min({k}) = k
  BY <1>1, <1>3 DEF Min
<1> QED
  BY <1>3, <1>5, <1>6 DEF Resolve, Over

(* The meaning of a path is a path.                                         *)
LEMMA MeaningIsPath ==
  ASSUME IsTree(tree), NEW p \in Path
  PROVE  Resolve(p) \in Path
<1>1. CASE Links(p) = {}
  BY <1>1 DEF Resolve
<1>2. ASSUME NEW k \in Links(p) PROVE Resolve(p) \in Path
  <2>1. k \in 0 .. Len(p) /\ Resolve(p) = Over(k, p)
    BY <1>2, OneLink
  <2> QED
    BY <2>1, OverComponents
<1> QED
  BY <1>1, <1>2

(* A path without links between it and one above it leads over the same     *)
(* link, or none.                                                           *)
LEMMA SameLinks ==
  ASSUME NEW t \in Path, NEW p \in Path, Below(t, p),
         \A k \in Len(t) + 1 .. Len(p) : ~IsLink(SubSeq(p, 1, k))
  PROVE  Links(p) = Links(t)
<1>1. Len(t) \in Nat /\ Len(p) \in Nat /\ Len(t) \in 0 .. Len(p) /\ SubSeq(p, 1, Len(t)) = t
  BY BelowIsBeginning DEF Path
<1>2. ASSUME NEW k \in 1 .. Len(t) PROVE SubSeq(p, 1, k) = SubSeq(t, 1, k)
  <2>1. k \in 0 .. Len(t)
    BY <1>1
  <2>2. SubSeq(SubSeq(p, 1, Len(t)), 1, k) = SubSeq(p, 1, k)
    BY <1>1, <2>1, BeginningOfBeginning
  <2> QED
    BY <1>1, <2>2
<1>3. ASSUME NEW k \in Links(p) PROVE k \in Links(t)
  <2>1. k \in 1 .. Len(p) /\ IsLink(SubSeq(p, 1, k))
    BY <1>3 DEF Links
  <2>2. k \in 1 .. Len(t)
    BY <1>1, <2>1
  <2> QED
    BY <1>2, <2>1, <2>2 DEF Links
<1>4. ASSUME NEW k \in Links(t) PROVE k \in Links(p)
  <2>1. k \in 1 .. Len(t) /\ k \in 1 .. Len(p) /\ IsLink(SubSeq(t, 1, k))
    BY <1>1, <1>4 DEF Links
  <2> QED
    BY <1>2, <2>1 DEF Links
<1> QED
  BY <1>3, <1>4

LEMMA MeaningBelow ==
  ASSUME IsTree(tree), NEW t \in Path, NEW p \in Path, Below(t, p), Links(p) = Links(t)
  PROVE  /\ Links(t) = {} => Resolve(p) = p
         /\ Links(t) # {} => Below(Resolve(t), Resolve(p))
<1>1. CASE Links(t) = {}
  BY <1>1 DEF Resolve
<1>2. ASSUME NEW k \in Links(t) PROVE Below(Resolve(t), Resolve(p))
  <2> DEFINE a == Over(k, t)
             b == Over(k, p)
  <2>1. Resolve(t) = a /\ Resolve(p) = b /\ k \in 0 .. Len(t) /\ k \in 0 .. Len(p)
    BY <1>2, OneLink
  <2>2. /\ Len(t) \in Nat /\ Len(p) \in Nat /\ Len(LinkTarget) \in Nat
        /\ Len(t) <= Len(p) /\ \A i \in 1 .. Len(t) : t[i] = p[i]
    BY BelowPointwise, RemoveAssumption DEF Path, IsPath
  <2>3. /\ a \in Path /\ Len(a) = Len(LinkTarget) + Len(t) - k
        /\ \A i \in 1 .. Len(a) : a[i] =
             IF i <= Len(LinkTarget) THEN LinkTarget[i] ELSE t[k + i - Len(LinkTarget)]
    BY <2>1, OverComponents
  <2>4. /\ b \in Path /\ Len(b) = Len(LinkTarget) + Len(p) - k
        /\ \A i \in 1 .. Len(b) : b[i] =
             IF i <= Len(LinkTarget) THEN LinkTarget[i] ELSE p[k + i - Len(LinkTarget)]
    BY <2>1, OverComponents
  <2> HIDE DEF a, b
  <2>5. Len(a) <= Len(b)
    BY <2>1, <2>2, <2>3, <2>4
  <2>6. ASSUME NEW i \in 1 .. Len(a) PROVE a[i] = b[i]
    <3>1. i \in 1 .. Len(b) /\ i \in Nat /\ k \in Nat
      BY <2>1, <2>2, <2>3, <2>4, <2>5
    <3>2. CASE i <= Len(LinkTarget)
      BY <2>3, <2>4, <3>1, <3>2
    <3>3. CASE ~(i <= Len(LinkTarget))
      <4> DEFINE j == k + i - Len(LinkTarget)
      <4>1. j \in 1 .. Len(t)
        BY <2>1, <2>2, <2>3, <3>1, <3>3
      <4>2. a[i] = t[j] /\ b[i] = p[j]
        BY <2>3, <2>4, <3>1, <3>3
      <4> QED
        BY <2>2, <4>1, <4>2
    <3> QED
      BY <3>2, <3>3
  <2>7. Below(a, b)
    BY <2>3, <2>4, <2>5, <2>6, BelowPointwise
  <2> QED
    BY <2>1, <2>7
<1> QED
  BY <1>1, <1>2

(* Where an entry lies: what exists lies where it is, the rest where its    *)
(* directory is.                                                            *)
LEMMA PlaceOfPath ==
  ASSUME IsTree(tree), NEW p \in Path, p # <<>>
  PROVE  /\ Place(p) \in Path /\ Place(p) # <<>>
         /\ Exists(p) => Links(Front(p)) = {} /\ Place(p) = p
         /\ ~IsLink(p) => Place(p) = Resolve(p)
<1> DEFINE f == Front(p)
           n == Last(p)
<1>1. f \in Path /\ n \in STRING /\ p = Append(f, n) /\ Len(p) = Len(f) + 1 /\ Len(f) \in Nat
  BY FrontAndLast DEF Path
<1>2. Place(p) = Append(Resolve(f), n)
  BY DEF Place
<1> HIDE DEF f, n
<1>3. \A k \in 0 .. Len(f) : SubSeq(p, 1, k) = SubSeq(f, 1, k)
  BY <1>1, Lengthened
<1>4. Place(p) \in Path /\ Place(p) # <<>>
  <2>1. Resolve(f) \in Path
    BY <1>1, MeaningIsPath
  <2> DEFINE r == Resolve(f)
  <2> HIDE DEF r
  <2>2. Append(r, n) \in Path /\ Append(r, n) # <<>>
    BY <1>1, <2>1, Lengthened, ZenonT(30) DEF r
  <2> QED
    BY <1>2, <2>2 DEF r
<1>5. ASSUME Exists(p) PROVE Links(f) = {} /\ Place(p) = p
  <2>1. ASSUME NEW k \in 1 .. Len(f) PROVE ~IsLink(SubSeq(f, 1, k))
    <3>1. k \in 0 .. Len(p) - 1 /\ k \in 0 .. Len(f)
      BY <1>1
    <3>2. tree[SubSeq(p, 1, k)] = "directory"
      BY <1>5, <3>1 DEF IsTree, Exists
    <3> QED
      BY <1>3, <3>1, <3>2 DEF IsLink
  <2>2. Links(f) = {}
    BY <2>1 DEF Links
  <2>3. Resolve(f) = f
    BY <2>2 DEF Resolve
  <2> QED
    BY <1>1, <1>2, <2>2, <2>3
<1>6. ASSUME ~IsLink(p) PROVE Place(p) = Resolve(p)
  <2>1. Below(f, p)
    <3>1. SubSeq(f, 1, Len(f)) = f /\ SubSeq(p, 1, Len(f)) = f
      BY <1>1, <1>3, WholePath
    <3> QED
      BY <1>1, <3>1 DEF Below, IsPrefix
  <2>2. ASSUME NEW k \in Len(f) + 1 .. Len(p) PROVE ~IsLink(SubSeq(p, 1, k))
    <3>1. k = Len(p)
      BY <1>1
    <3> QED
      BY <1>6, <3>1, WholePath
  <2>3. Links(p) = Links(f)
    BY <1>1, <2>1, <2>2, SameLinks
  <2>4. CASE Links(f) = {}
    BY <1>1, <1>2, <2>3, <2>4 DEF Resolve
  <2>5. ASSUME NEW k \in Links(f) PROVE Place(p) = Resolve(p)
    <3>1. Resolve(f) = Over(k, f) /\ Resolve(p) = Over(k, p) /\ k \in 1 .. Len(f)
      BY <1>1, <2>3, <2>5, OneLink
    <3> DEFINE a == Over(k, f)
               b == Over(k, p)
               c == Append(a, n)
    <3>2. k \in 0 .. Len(f) /\ k \in 0 .. Len(p) /\ Len(LinkTarget) \in Nat
      BY <1>1, <3>1, RemoveAssumption DEF IsPath
    <3>3. /\ a \in Path /\ Len(a) = Len(LinkTarget) + Len(f) - k
          /\ \A i \in 1 .. Len(a) : a[i] =
               IF i <= Len(LinkTarget) THEN LinkTarget[i] ELSE f[k + i - Len(LinkTarget)]
      BY <1>1, <3>2, OverComponents
    <3>4. /\ b \in Path /\ Len(b) = Len(LinkTarget) + Len(p) - k
          /\ \A i \in 1 .. Len(b) : b[i] =
               IF i <= Len(LinkTarget) THEN LinkTarget[i] ELSE p[k + i - Len(LinkTarget)]
      BY <1>1, <3>2, OverComponents
    <3>5. /\ \A i \in 1 .. Len(f) : p[i] = f[i]
          /\ p[Len(f) + 1] = n
      BY <1>1, Lengthened
    <3> HIDE DEF a, b
    <3>6. /\ c \in Path /\ Len(c) = Len(a) + 1
          /\ \A i \in 1 .. Len(a) : c[i] = a[i]
          /\ c[Len(a) + 1] = n
      BY <1>1, <3>3, Lengthened
    <3> HIDE DEF c
    <3>7. Len(b) = Len(c)
      BY <1>1, <3>2, <3>3, <3>4, <3>6
    <3>8. ASSUME NEW i \in 1 .. Len(b) PROVE b[i] = c[i]
      <4> DEFINE j == k + i - Len(LinkTarget)
      <4>1. i \in Nat /\ k \in Nat /\ Len(b) = Len(a) + 1 /\ Len(a) \in Nat
        BY <1>1, <3>2, <3>3, <3>4
      <4>2. CASE i <= Len(LinkTarget)
        <5>1. i \in 1 .. Len(a)
          BY <1>1, <3>2, <3>3, <4>1, <4>2
        <5> QED
          BY <3>3, <3>4, <3>6, <4>2, <5>1
      <4>3. CASE ~(i <= Len(LinkTarget)) /\ i <= Len(a)
        <5>1. i \in 1 .. Len(a) /\ j \in 1 .. Len(f)
          BY <1>1, <3>1, <3>2, <3>3, <4>1, <4>3
        <5>2. b[i] = p[j] /\ a[i] = f[j]
          BY <3>3, <3>4, <4>3, <5>1
        <5> QED
          BY <3>5, <3>6, <5>1, <5>2
      <4>4. CASE i = Len(a) + 1
        <5>1. ~(i <= Len(LinkTarget)) /\ j = Len(f) + 1
          BY <1>1, <3>1, <3>2, <3>3, <4>1, <4>4
        <5>2. b[i] = p[j]
          BY <3>4, <5>1
        <5> QED
          BY <3>5, <3>6, <4>4, <5>1, <5>2
      <4> QED
        BY <4>1, <4>2, <4>3, <4>4
    <3>9. b = c
      BY <3>4, <3>6, <3>7, <3>8, SamePath
    <3> QED
      BY <1>2, <3>1, <3>9 DEF a, b, c
  <2> QED
    BY <2>4, <2>5
<1> QED
  BY <1>4, <1>5, <1>6 DEF f

(***************************************************************************)
(* How the tree changes                                                    *)
(***************************************************************************)

Leaf(q) == Exists(q) /\ q # <<>> /\ (tree[q] # "directory" \/ Entries(q) = {})

Appears(q, kind) ==
  /\ q \in Path /\ q # <<>> /\ ~Exists(q)
  /\ Exists(Front(q)) /\ tree[Front(q)] = "directory"
  /\ kind \in Kinds /\ tree' = With(q, kind)

(* A link that appears is remembered.                                       *)
TreeStep ==
  \/ tree' = tree
  \/ \E q : Leaf(q) /\ tree' = Without(q)
  \/ \E q, kind : Appears(q, kind) /\ (kind = "symlink" => q \in linked')

LinksAreRemembered == \A p : IsLink(p)' => IsLink(p) \/ p \in linked'

(* Nothing is below what is no directory, or below an empty one.            *)
LEMMA NothingBelowALeaf ==
  ASSUME IsTree(tree), NEW q, Leaf(q), NEW p, Exists(p), NEW k \in 0 .. Len(p),
         SubSeq(p, 1, k) = q
  PROVE  p = q
<1>1. p \in Path /\ q \in Path /\ Len(p) \in Nat
  BY DEF IsTree, IsPath, Path, Leaf, Exists
<1>2. CASE k = Len(p)
  BY <1>1, <1>2, WholePath
<1>3. CASE k # Len(p)
  <2>1. k \in 0 .. Len(p) - 1 /\ k + 1 \in 1 .. Len(p)
    BY <1>1, <1>3
  <2>2. tree[q] = "directory" /\ Entries(q) = {}
    BY <2>1 DEF IsTree, Exists, Leaf
  <2> DEFINE r == SubSeq(p, 1, k + 1)
  <2>3. Front(r) = q /\ r # <<>>
    <3>1. PICK n \in 1 .. Len(p) : n = k + 1
      BY <2>1
    <3>2. Front(SubSeq(p, 1, n)) = SubSeq(p, 1, n - 1) /\ SubSeq(p, 1, n) # <<>>
      BY <1>1, FrontOfBeginning
    <3>3. n - 1 = k
      BY <3>1
    <3> QED
      BY <3>1, <3>2, <3>3
  <2>4. r \in DOMAIN tree
    <3>1. CASE k + 1 = Len(p)
      BY <1>1, <3>1, WholePath DEF Exists
    <3>2. CASE k + 1 # Len(p)
      <4>1. k + 1 \in 0 .. Len(p) - 1
        BY <1>1, <2>1, <3>2
      <4> QED
        BY <4>1 DEF IsTree, Exists
    <3> QED
      BY <3>1, <3>2
  <2>5. r \in Entries(q)
    BY <2>3, <2>4 DEF Entries
  <2> QED
    BY <2>2, <2>5
<1> QED
  BY <1>2, <1>3

(* A tree stays a tree, and what links appear is remembered.                *)
LEMMA TreeStays ==
  ASSUME IsTree(tree), TreeStep
  PROVE  IsTree(tree') /\ LinksAreRemembered
<1>1. CASE tree' = tree
  BY <1>1 DEF LinksAreRemembered, IsLink, Exists
<1>2. ASSUME NEW q, Leaf(q), tree' = Without(q)
      PROVE  IsTree(tree') /\ LinksAreRemembered
  <2>1. DOMAIN tree' = DOMAIN tree \ {q} /\ \A p \in DOMAIN tree' : tree'[p] = tree[p]
    BY <1>2 DEF Without
  <2>2. q # <<>>
    BY <1>2 DEF Leaf
  <2>3. ASSUME NEW p \in DOMAIN tree', NEW k \in 0 .. Len(p) - 1
        PROVE  SubSeq(p, 1, k) \in DOMAIN tree' /\ tree'[SubSeq(p, 1, k)] = "directory"
    <3>1. p \in DOMAIN tree /\ p # q /\ Exists(p)
      BY <2>1 DEF Exists
    <3>2. Len(p) \in Nat
      BY <3>1 DEF IsTree, IsPath
    <3>3. k \in 0 .. Len(p)
      BY <3>2
    <3>4. SubSeq(p, 1, k) # q
      BY <1>2, <3>1, <3>3, NothingBelowALeaf
    <3>5. SubSeq(p, 1, k) \in DOMAIN tree /\ tree[SubSeq(p, 1, k)] = "directory"
      BY <3>1 DEF IsTree
    <3> QED
      BY <2>1, <3>4, <3>5
  <2>4. IsTree(tree')
    BY <2>1, <2>2, <2>3 DEF IsTree
  <2> QED
    BY <2>1, <2>4 DEF LinksAreRemembered, IsLink, Exists
<1>3. ASSUME NEW q, NEW kind, Appears(q, kind), kind = "symlink" => q \in linked'
      PROVE  IsTree(tree') /\ LinksAreRemembered
  <2>1. /\ q \in Path /\ q # <<>> /\ q \notin DOMAIN tree
        /\ Front(q) \in DOMAIN tree /\ tree[Front(q)] = "directory"
        /\ kind \in Kinds
        /\ DOMAIN tree' = DOMAIN tree \cup {q} /\ tree'[q] = kind
        /\ \A p \in DOMAIN tree : tree'[p] = tree[p]
    BY <1>3 DEF Appears, With, Exists
  <2>2. Len(Front(q)) = Len(q) - 1 /\ Len(q) \in Nat \ {0} /\ Front(q) \in Path
    BY <2>1, FrontAndLast
  <2>3. ASSUME NEW k \in 0 .. Len(q) - 1
        PROVE  SubSeq(q, 1, k) \in DOMAIN tree /\ tree[SubSeq(q, 1, k)] = "directory"
    <3>1. CASE k = Len(q) - 1
      BY <2>1, <3>1 DEF Front
    <3>2. CASE k # Len(q) - 1
      <4>1. /\ k \in 0 .. Len(Front(q)) - 1 /\ k \in 0 .. Len(q) - 1
            /\ Len(q) - 1 \in 0 .. Len(q)
        BY <2>2, <3>2
      <4>2. SubSeq(Front(q), 1, k) = SubSeq(q, 1, k)
        BY <2>1, <4>1, BeginningOfBeginning DEF Front
      <4> QED
        BY <2>1, <4>1, <4>2 DEF IsTree
    <3> QED
      BY <3>1, <3>2
  <2>4. IsTree(tree')
    BY <2>1, <2>3 DEF IsTree, IsPath, Path
  <2> QED
    BY <1>3, <2>1, <2>4 DEF LinksAreRemembered, IsLink, Exists
<1> QED
  BY <1>1, <1>2, <1>3 DEF TreeStep

(* unlink and rmdir take away a leaf, or nothing.                           *)
LEMMA CallsTakeLeaves ==
  ASSUME IsTree(tree), NEW p \in Path
  PROVE  /\ tree' = Unlink(p) => TreeStep
         /\ tree' = Rmdir(p) => TreeStep
<1>1. tree[<<>>] = "directory" /\ Place(<<>>) = <<>>
  BY DEF IsTree, Place
<1>2. ASSUME tree' = Unlink(p), UnlinkOutcome(p) = "done" PROVE TreeStep
  <2>1. Leaf(Place(p)) /\ tree' = Without(Place(p))
    BY <1>1, <1>2 DEF Unlink, UnlinkOutcome, Leaf
  <2> QED
    BY <2>1 DEF TreeStep
<1>3. ASSUME tree' = Rmdir(p), RmdirOutcome(p) = "done" PROVE TreeStep
  <2>1. Leaf(Place(p)) /\ tree' = Without(Place(p))
    BY <1>3 DEF Rmdir, RmdirOutcome, Leaf
  <2> QED
    BY <2>1 DEF TreeStep
<1> QED
  BY <1>2, <1>3 DEF Unlink, Rmdir, TreeStep

(* What other clients make, they make in a directory.                       *)
LEMMA MakingAppears ==
  ASSUME IsTree(tree), NEW p \in Path, NEW kind \in Kinds,
         p = Place(p), IsDirectory(Front(p)), ~Exists(p), tree' = With(p, kind)
  PROVE  Appears(p, kind)
<1>1. p # <<>>
  BY DEF IsTree, Exists
<1>2. Front(p) \in Path /\ Last(p) \in STRING
  BY <1>1, FrontAndLast
<1>3. Resolve(Front(p)) \in Path
  BY <1>2, MeaningIsPath
<1>4. p = Append(Resolve(Front(p)), Last(p))
  BY <1>1 DEF Place
<1>5. Front(p) = Resolve(Front(p))
  <2>1. PICK f \in Path, n \in STRING : f = Resolve(Front(p)) /\ n = Last(p)
    BY <1>2, <1>3
  <2>2. p = Append(f, n) /\ Front(Append(f, n)) = f
    BY <1>4, <2>1, Lengthened
  <2> QED
    BY <2>1, <2>2
<1> QED
  BY <1>1, <1>5 DEF Appears, IsDirectory

(***************************************************************************)
(* The invariant: how far down the removal is                              *)
(***************************************************************************)

Names == STRING \cup Dots

EntryType == [name : Names, type : Kinds]

Frame == [dir : Path, rest : SUBSET EntryType, seen : SUBSET Names]

(* A link that was there before the removal.                                *)
OldLink(p) == IsLink(p) /\ p \notin linked

(* A path below the one asked for, and no old link on the way from there.   *)
Beneath(p) ==
  /\ Below(target.path, p)
  /\ \A k \in Len(target.path) + 1 .. Len(p) : ~OldLink(SubSeq(p, 1, k))

(* An entry listed as a directory is no link now, or a new one.             *)
ListsNoLinks(f) ==
  \A e \in f.rest : e.type = "directory" /\ e.name \notin Dots => ~OldLink(Append(f.dir, e.name))

RemoveTyped ==
  /\ IsTree(tree)
  /\ target \in [path : Path, place : Path]
  /\ frames \in Seq(Frame)
  /\ pc \in {"opendir", "readdir", "unlink", "rmdir", "returned", "threw"}
  /\ path \in Path /\ removed \subseteq Path
  /\ changes \in 0 .. MaxChanges /\ broken \in BOOLEAN

(* p is the path asked for, or an entry of the directory above it.          *)
Entered(p, dirs) ==
  IF dirs = <<>> THEN p = target.path
  ELSE p # <<>> /\ Front(p) = Last(dirs).dir /\ Last(p) \notin Dots

FrameFits(k) ==
  /\ IF k = 1 THEN frames[k].dir = target.path
     ELSE /\ frames[k].dir # <<>> /\ Front(frames[k].dir) = frames[k - 1].dir
          /\ Last(frames[k].dir) \notin Dots
  /\ Beneath(frames[k].dir)
  /\ ListsNoLinks(frames[k])

PathFits ==
  /\ pc \in {"opendir", "rmdir"} => Beneath(path) /\ Entered(path, frames)
  /\ pc = "unlink" => frames # <<>> /\ path # <<>> /\ Front(path) = Top.dir
  /\ pc = "readdir" => frames # <<>>
  /\ Ended => frames = <<>>

(* The path asked for means what it meant, unless the link it led over is   *)
(* gone or it leads over a new one.                                         *)
TargetMeans ==
  \/ Links(target.path) = {}
  \/ Resolve(target.path) = target.place
  \/ \E k \in Links(target.path) : SubSeq(target.path, 1, k) \in linked

RemoveInv ==
  /\ RemoveTyped
  /\ \A k \in 1 .. Len(frames) : FrameFits(k)
  /\ PathFits
  /\ TargetMeans
  /\ OnlyNewLinksLeadAway

(* The path asked for is beneath itself.                                    *)
LEMMA TargetBeneath ==
  ASSUME target.path \in Path
  PROVE  Beneath(target.path)
<1>1. Len(target.path) \in Nat
  BY DEF Path
<1>2. Below(target.path, target.path)
  BY <1>1 DEF Below, IsPrefix
<1> QED
  BY <1>1, <1>2 DEF Beneath

(* An entry that is no old link is beneath if its directory is.             *)
LEMMA BeneathEntry ==
  ASSUME target.path \in Path, NEW p \in Path, Beneath(p), NEW name \in STRING,
         ~OldLink(Append(p, name))
  PROVE  Beneath(Append(p, name))
<1> DEFINE q == Append(p, name)
           t == target.path
<1>1. /\ Len(t) \in Nat /\ Len(p) \in Nat /\ q \in Path /\ Len(q) = Len(p) + 1
      /\ \A k \in 0 .. Len(p) : SubSeq(q, 1, k) = SubSeq(p, 1, k)
  BY Lengthened DEF Path
<1>2. Len(t) <= Len(p) /\ SubSeq(p, 1, Len(t)) = SubSeq(t, 1, Len(t))
  BY DEF Beneath, Below, IsPrefix
<1> HIDE DEF q
<1>3. Below(t, q)
  BY <1>1, <1>2 DEF Below, IsPrefix
<1>4. ASSUME NEW k \in Len(t) + 1 .. Len(q) PROVE ~OldLink(SubSeq(q, 1, k))
  <2>1. CASE k = Len(q)
    BY <1>1, <2>1, WholePath DEF q
  <2>2. CASE k # Len(q)
    <3>1. k \in Len(t) + 1 .. Len(p) /\ k \in 0 .. Len(p)
      BY <1>1, <2>2
    <3> QED
      BY <1>1, <3>1 DEF Beneath
  <2> QED
    BY <2>1, <2>2
<1> QED
  BY <1>3, <1>4 DEF Beneath, q

(* What a directory lists, and that a listed directory is no link.          *)
LEMMA Listed ==
  ASSUME IsTree(tree), NEW p \in Path, NEW e \in Listing(p)
  PROVE  /\ e \in EntryType
         /\ e.type = "directory" /\ e.name \notin Dots => ~IsLink(Append(p, e.name))
<1>1. CASE e \in [name : Dots, type : {"directory"}]
  <2>1. PICK n \in Dots : e = [name |-> n, type |-> "directory"]
    BY <1>1
  <2>2. e \in EntryType
    BY <2>1 DEF EntryType, Names, Kinds
  <2> QED
    BY <2>1, <2>2
<1>2. ASSUME NEW q \in Entries(Resolve(p)), e = Entry(q)
      PROVE  /\ e \in EntryType
             /\ e.type = "directory" => ~IsLink(Append(p, e.name))
  <2>1. q \in DOMAIN tree /\ q \in Path /\ q # <<>> /\ Front(q) = Resolve(p) /\ tree[q] \in Kinds
    BY <1>2 DEF Entries, IsTree, IsPath, Path
  <2>2. Last(q) \in STRING /\ q = Append(Front(q), Last(q))
    BY <2>1, FrontAndLast
  <2>3. e.name = Last(q) /\ e.type = tree[q] /\ e \in EntryType
    BY <1>2, <2>1, <2>2 DEF Entry, EntryType, Names
  <2>4. ASSUME IsLink(Append(p, Last(q))) PROVE tree[q] = "symlink"
    <3> DEFINE c == Append(p, Last(q))
    <3>1. c \in Path /\ c # <<>> /\ Front(c) = p
      BY <2>2, Lengthened, Zenon
    <3>2. Links(p) = {}
      BY <2>4, <3>1, PlaceOfPath DEF IsLink
    <3>3. Front(q) = p
      BY <2>1, <3>2 DEF Resolve
    <3> QED
      BY <2>2, <2>4, <3>3 DEF IsLink
  <2> QED
    BY <2>3, <2>4
<1> QED
  BY <1>1, <1>2 DEF Listing

(* What a step may rely on: old links only disappear.                       *)
NoMoreOldLinks == target' = target /\ \A q : OldLink(q)' => OldLink(q)

(* What is beneath stays beneath, and the path asked for keeps its meaning, *)
(* or leads over a new link, or over none.                                  *)
LEMMA BeneathStays ==
  ASSUME NoMoreOldLinks, NEW p, Beneath(p)
  PROVE  Beneath(p)'
BY DEF NoMoreOldLinks, Beneath

LEMMA TargetMeansStays ==
  ASSUME IsTree(tree), target.path \in Path, TargetMeans, NoMoreOldLinks
  PROVE  TargetMeans'
<1>1. PICK t \in Path : t = target.path /\ t = target'.path
  BY DEF NoMoreOldLinks
<1>2. CASE \E k \in Links(t)' : SubSeq(t, 1, k) \in linked'
  BY <1>1, <1>2 DEF TargetMeans
<1>3. CASE \A k \in Links(t)' : SubSeq(t, 1, k) \notin linked'
  <2>1. \A k \in Links(t)' : k \in Links(t) /\ SubSeq(t, 1, k) \notin linked
    BY <1>3 DEF NoMoreOldLinks, OldLink, Links
  <2>2. CASE Links(t)' = {}
    BY <1>1, <2>2 DEF TargetMeans
  <2>3. ASSUME NEW k \in Links(t)' PROVE TargetMeans'
    <3>1. /\ k \in Links(t) /\ Links(t) = {k} /\ Min(Links(t)) = k
          /\ Resolve(t) = Over(k, t)
      BY <2>1, <2>3, OneLink
    <3>2. Resolve(t) = target.place
      BY <1>1, <2>1, <2>3, <3>1 DEF TargetMeans
    <3>3. Links(t)' = {k} /\ Links(t)' = Links(t)
      BY <2>1, <2>3, <3>1
    <3>4. Resolve(t)' = Over(k, t)
      BY <3>1, <3>3 DEF Resolve, Over
    <3> QED
      BY <1>1, <3>1, <3>2, <3>4 DEF TargetMeans, NoMoreOldLinks
  <2> QED
    BY <2>2, <2>3
<1> QED
  BY <1>2, <1>3

(* What lies over a link lies below what links point to.                    *)
LEMMA OverIsBelow ==
  ASSUME NEW p \in Path, NEW k \in 0 .. Len(p)
  PROVE  Below(LinkTarget, Over(k, p))
<1>1. PICK m \in Nat, n \in Nat : m = Len(LinkTarget) /\ n = Len(p) /\ LinkTarget \in Path
  BY RemoveAssumption DEF IsPath, Path
<1>2. /\ Over(k, p) \in Path /\ Len(Over(k, p)) = m + n - k
      /\ \A i \in 1 .. Len(Over(k, p)) : i <= m => Over(k, p)[i] = LinkTarget[i]
  BY <1>1, OverComponents
<1>3. k \in 0 .. n
  BY <1>1
<1>4. m <= Len(Over(k, p)) /\ \A i \in 1 .. m : LinkTarget[i] = Over(k, p)[i]
  BY <1>1, <1>2, <1>3
<1> QED
  BY <1>1, <1>2, <1>4, BelowPointwise

(* Two beginnings of one path: one is a beginning of the other.             *)
LEMMA BeginningsNest ==
  ASSUME NEW t \in Path, NEW p \in Path, Below(t, p), NEW k \in 1 .. Len(p)
  PROVE  Below(t, SubSeq(p, 1, k)) \/ Below(SubSeq(p, 1, k), t)
<1>1. PICK m \in Nat, n \in Nat : m = Len(t) /\ n = Len(p)
  BY DEF Path
<1>2. PICK l \in Path : l = SubSeq(p, 1, k) /\ Len(l) = k /\ \A i \in 1 .. k : l[i] = p[i]
  <2>1. k \in 0 .. Len(p)
    BY <1>1
  <2> QED
    BY <2>1, Beginning
<1>3. m <= n /\ \A i \in 1 .. m : t[i] = p[i]
  BY <1>1, BelowPointwise
<1>4. CASE m <= k
  <2>1. \A i \in 1 .. m : t[i] = l[i]
    BY <1>1, <1>2, <1>3, <1>4
  <2> QED
    BY <1>1, <1>2, <1>4, <2>1, BelowPointwise
<1>5. CASE k <= m
  <2>1. \A i \in 1 .. k : t[i] = l[i]
    BY <1>1, <1>2, <1>3, <1>5
  <2> QED
    BY <1>1, <1>2, <1>5, <2>1, BelowPointwise
<1> QED
  BY <1>1, <1>4, <1>5

(* Where what is removed may lie.                                           *)
Allowed(q) == Below(target.place, q) \/ Below(target.path, q) \/ OverNewLink(q)

(* What is called for removal lies below the path asked for, or below what  *)
(* that means, or over a new link.                                          *)
LEMMA PlaceIsBelow ==
  ASSUME IsTree(tree), target.path \in Path, TargetMeans, NEW p \in Path, p # <<>>,
         Below(target.path, p),
         \A k \in Len(target.path) + 1 .. Len(p) - 1 : ~OldLink(SubSeq(p, 1, k))
  PROVE  Place(p) \in Path /\ Allowed(Place(p))
<1>1. PICK t \in Path : t = target.path
  OBVIOUS
<1>2. Place(p) \in Path
  BY PlaceOfPath
<1>3. CASE Exists(p)
  BY <1>2, <1>3, PlaceOfPath DEF Allowed
<1>4. CASE ~Exists(p)
  <2>1. ~IsLink(p) /\ Place(p) = Resolve(p)
    BY <1>4, PlaceOfPath DEF IsLink
  <2>2. CASE Links(p) = {}
    BY <2>1, <2>2 DEF Resolve, Allowed
  <2>3. ASSUME NEW k \in Links(p) PROVE Allowed(Place(p))
    <3>1. /\ Links(p) = {k} /\ k \in 1 .. Len(p) /\ k \in 0 .. Len(p)
          /\ Resolve(p) = Over(k, p) /\ IsLink(SubSeq(p, 1, k))
      <4>1. Links(p) = {k} /\ k \in 1 .. Len(p) /\ Resolve(p) = Over(k, p)
        BY <2>3, OneLink
      <4>2. IsLink(SubSeq(p, 1, k))
        BY <2>3 DEF Links
      <4>3. k \in 0 .. Len(p)
        BY <4>1
      <4> QED
        BY <4>1, <4>2, <4>3
    <3>2. Below(LinkTarget, Place(p))
      BY <2>1, <3>1, OverIsBelow
    <3>3. CASE SubSeq(p, 1, k) \in linked
      BY <1>1, <3>1, <3>2, <3>3, BeginningsNest DEF Allowed, OverNewLink
    <3>4. CASE SubSeq(p, 1, k) \notin linked
      <4>1. Len(p) \in Nat /\ Len(t) \in Nat
        BY DEF Path
      <4>2. k # Len(p)
        BY <2>1, <3>1, WholePath
      <4>3. ~(k \in Len(t) + 1 .. Len(p) - 1)
        BY <1>1, <3>1, <3>4 DEF OldLink
      <4>4. k \in 1 .. Len(t)
        BY <3>1, <4>1, <4>2, <4>3
      <4>5. ASSUME NEW j \in Len(t) + 1 .. Len(p) PROVE ~IsLink(SubSeq(p, 1, j))
        <5>1. j # k /\ j \in 1 .. Len(p)
          BY <4>1, <4>4
        <5> QED
          BY <3>1, <5>1 DEF Links
      <4>6. Links(t) = {k}
        BY <1>1, <3>1, <4>5, SameLinks
      <4>7. Below(Resolve(t), Resolve(p))
        BY <1>1, <3>1, <4>6, MeaningBelow
      <4>8. SubSeq(t, 1, k) = SubSeq(p, 1, k)
        <5>1. /\ Len(t) \in 0 .. Len(p) /\ SubSeq(p, 1, Len(t)) = t
              /\ k \in 0 .. Len(t)
          BY <1>1, <4>1, <4>4, BelowIsBeginning
        <5> QED
          BY <5>1, BeginningOfBeginning
      <4>9. Resolve(t) = target.place
        BY <1>1, <3>4, <4>6, <4>8 DEF TargetMeans
      <4> QED
        BY <2>1, <4>7, <4>9 DEF Allowed
    <3> QED
      BY <3>3, <3>4
  <2> QED
    BY <1>2, <2>2, <2>3
<1> QED
  BY <1>2, <1>3, <1>4

(* The entry of a directory beneath the path asked for.                     *)
LEMMA EntryIsBelow ==
  ASSUME target.path \in Path, NEW p \in Path, p # <<>>, Beneath(Front(p))
  PROVE  /\ Below(target.path, p)
         /\ \A k \in Len(target.path) + 1 .. Len(p) - 1 : ~OldLink(SubSeq(p, 1, k))
<1> DEFINE f == Front(p)
           n == Last(p)
           t == target.path
<1>1. /\ f \in Path /\ n \in STRING /\ p = Append(f, n)
      /\ Len(t) \in Nat /\ Len(p) = Len(f) + 1 /\ Len(f) \in Nat
  BY FrontAndLast DEF Path
<1> HIDE DEF f, n
<1>2. \A k \in 0 .. Len(f) : SubSeq(p, 1, k) = SubSeq(f, 1, k)
  BY <1>1, Lengthened
<1>3. Len(t) <= Len(f) /\ SubSeq(f, 1, Len(t)) = SubSeq(t, 1, Len(t))
  BY DEF f, Beneath, Below, IsPrefix
<1>4. Below(t, p)
  BY <1>1, <1>2, <1>3 DEF Below, IsPrefix
<1>5. ASSUME NEW k \in Len(t) + 1 .. Len(p) - 1 PROVE ~OldLink(SubSeq(p, 1, k))
  <2>1. k \in Len(t) + 1 .. Len(f) /\ k \in 0 .. Len(f)
    BY <1>1
  <2> QED
    BY <1>2, <2>1 DEF f, Beneath
<1> QED
  BY <1>4, <1>5

(* Every step leaves the path asked for and changes the tree by one place   *)
(* at most.                                                                 *)
LEMMA StepOfTheTree ==
  ASSUME RemoveTyped, [Next]_vars
  PROVE  target' = target /\ TreeStep /\ linked \subseteq linked'
<1>1. target' = target /\ linked \subseteq linked'
  BY DEF Next, RemoveHop, vars, OpenDirectory, ReadDirectory, EndOfDirectory, RemoveFile,
     RemoveDirectory, ReadDirectoryFails, Fail, OthersMake, OthersRemove
<1> SUFFICES TreeStep
  BY <1>1
<1>2. CASE tree' = tree
  BY <1>2 DEF TreeStep
<1>3. CASE RemoveFile \/ RemoveDirectory
  <2>1. tree' = Unlink(path) \/ tree' = Rmdir(path)
    BY <1>3 DEF RemoveFile, RemoveDirectory
  <2>2. PICK p \in Path : p = path
    BY DEF RemoveTyped
  <2> QED
    BY <2>1, <2>2, CallsTakeLeaves DEF RemoveTyped
<1>4. CASE OthersMake
  <2>1. PICK p \in Paths, kind \in Kinds :
          /\ p = Place(p) /\ IsDirectory(Front(p)) /\ ~Exists(p) /\ tree' = With(p, kind)
          /\ kind = "symlink" => p \in linked'
    BY <1>4 DEF OthersMake
  <2>2. p \in Path
    BY RemoveAssumption DEF IsPath, Path
  <2>3. Appears(p, kind)
    BY <2>1, <2>2, MakingAppears DEF RemoveTyped
  <2> QED
    BY <2>1, <2>3 DEF TreeStep
<1>5. CASE OthersRemove
  <2>1. PICK p \in Paths : tree' = Unlink(p) \/ tree' = Rmdir(p)
    BY <1>5 DEF OthersRemove
  <2>2. p \in Path
    BY RemoveAssumption DEF IsPath, Path
  <2> QED
    BY <2>1, <2>2, CallsTakeLeaves DEF RemoveTyped
<1>6. CASE OpenDirectory \/ ReadDirectory \/ EndOfDirectory \/ ReadDirectoryFails \/ Fail
  BY <1>2, <1>6 DEF OpenDirectory, ReadDirectory, EndOfDirectory, ReadDirectoryFails, Fail
<1>7. CASE UNCHANGED vars
  BY <1>2, <1>7 DEF vars
<1> QED
  BY <1>1, <1>3, <1>4, <1>5, <1>6, <1>7 DEF Next, RemoveHop

(* What an entry returned leaves of the directories open.                   *)
LEMMA ReturnedFrames ==
  ASSUME frames \in Seq(Frame), frames # <<>>, NEW e, e.name \in Names
  PROVE  LET n == Len(frames) IN
         /\ n \in Nat \ {0}
         /\ Returned(e) \in Seq(Frame) /\ Len(Returned(e)) = n
         /\ \A k \in 1 .. n : k # n => Returned(e)[k] = frames[k]
         /\ Returned(e)[n].dir = frames[n].dir
         /\ Returned(e)[n].rest \subseteq frames[n].rest
<1> DEFINE n == Len(frames)
           f == [dir |-> frames[n].dir, rest |-> {d \in frames[n].rest : d.name # e.name},
                 seen |-> frames[n].seen \cup {e.name}]
<1>1. n \in Nat \ {0} /\ frames[n] \in Frame
  <2>1. n \in Nat /\ n # 0
    BY EmptySeq
  <2> QED
    BY <2>1, ElementOfSeq
<1>2. f \in Frame
  BY <1>1 DEF Frame
<1>3. Returned(e) = [frames EXCEPT ![n] = f]
  BY DEF Returned, Top, Last
<1> HIDE DEF f
<1>4. /\ [frames EXCEPT ![n] = f] \in Seq(Frame)
      /\ Len([frames EXCEPT ![n] = f]) = n
      /\ \A k \in 1 .. n : [frames EXCEPT ![n] = f][k] = IF k = n THEN f ELSE frames[k]
  BY <1>1, <1>2, ExceptSeq
<1> QED
  BY <1>1, <1>3, <1>4 DEF f

(* A directory open stays in its place in the way down.                     *)
LEMMA FrameStays ==
  ASSUME NoMoreOldLinks, NEW k, FrameFits(k),
         frames'[k].dir = frames[k].dir, frames'[k].rest \subseteq frames[k].rest,
         k # 1 => frames'[k - 1].dir = frames[k - 1].dir
  PROVE  FrameFits(k)'
<1>1. PICK d : d = frames[k].dir
  OBVIOUS
<1>2. Beneath(d)'
  BY <1>1, BeneathStays DEF FrameFits
<1>3. ASSUME NEW e \in frames'[k].rest, e.type = "directory", e.name \notin Dots
      PROVE  ~OldLink(Append(d, e.name))'
  <2>1. ~OldLink(Append(d, e.name))
    BY <1>1, <1>3 DEF FrameFits, ListsNoLinks
  <2> QED
    BY <2>1 DEF NoMoreOldLinks
<1> QED
  BY <1>1, <1>2, <1>3 DEF FrameFits, ListsNoLinks, NoMoreOldLinks

(* The state of the walk: what RemoveInv says of it, in the next state.     *)
WalkOn ==
  /\ frames' \in Seq(Frame)
  /\ pc' \in {"opendir", "readdir", "unlink", "rmdir", "returned", "threw"}
  /\ path' \in Path
  /\ \A k \in 1 .. Len(frames') : FrameFits(k)'
  /\ PathFits'

(* The directories open, or the first of them, stay in place.               *)
LEMMA FramesStay ==
  ASSUME NoMoreOldLinks, NEW n \in 0 .. Len(frames), Len(frames') = n,
         \A k \in 1 .. n : frames'[k] = frames[k],
         \A k \in 1 .. Len(frames) : FrameFits(k)
  PROVE  \A k \in 1 .. Len(frames') : FrameFits(k)'
<1>1. ASSUME NEW k \in 1 .. n PROVE FrameFits(k)'
  <2>1. k \in 1 .. Len(frames) /\ (k # 1 => k - 1 \in 1 .. n)
    OBVIOUS
  <2>2. k # 1 => frames'[k - 1].dir = frames[k - 1].dir
    BY <2>1
  <2>3. FrameFits(k) /\ frames'[k] = frames[k]
    BY <2>1
  <2> QED
    BY <2>2, <2>3, FrameStays DEF NoMoreOldLinks
<1> QED
  BY <1>1

LEMMA WaitingWalksOn ==
  ASSUME RemoveInv, NoMoreOldLinks, UNCHANGED <<frames, pc, path>>
  PROVE  WalkOn
<1>1. Len(frames) \in 0 .. Len(frames)
  BY LenProperties DEF RemoveInv, RemoveTyped
<1>2. \A k \in 1 .. Len(frames') : FrameFits(k)'
  BY <1>1, FramesStay DEF RemoveInv
<1>3. PICK p : p = path
  OBVIOUS
<1>4. Beneath(p) => Beneath(p)'
  BY BeneathStays DEF NoMoreOldLinks
<1>5. PathFits'
  BY <1>3, <1>4 DEF RemoveInv, PathFits, Entered, Top, Ended, NoMoreOldLinks
<1> QED
  BY <1>2, <1>5 DEF WalkOn, RemoveInv, RemoveTyped

LEMMA ThrowingWalksOn ==
  ASSUME RemoveInv, Throw
  PROVE  WalkOn
<1>1. frames' = <<>> /\ pc' = "threw" /\ path' = path
  BY DEF Throw
<1>2. frames' \in Seq(Frame) /\ Len(frames') = 0
  BY <1>1, EmptySeq
<1>3. PathFits'
  BY <1>1 DEF PathFits, Ended
<1> QED
  BY <1>1, <1>2, <1>3 DEF WalkOn, RemoveInv, RemoveTyped

(* A call that is done: the directories open go on being read, or the whole *)
(* removal is over.                                                         *)
LEMMA ReturningWalksOn ==
  ASSUME RemoveInv, NoMoreOldLinks, UNCHANGED <<frames, path>>,
         pc' = IF frames = <<>> THEN "returned" ELSE "readdir"
  PROVE  WalkOn
<1>1. Len(frames) \in 0 .. Len(frames)
  BY LenProperties DEF RemoveInv, RemoveTyped
<1>2. \A k \in 1 .. Len(frames') : FrameFits(k)'
  BY <1>1, FramesStay DEF RemoveInv
<1>3. PathFits'
  BY DEF PathFits, Ended
<1> QED
  BY <1>2, <1>3 DEF WalkOn, RemoveInv, RemoveTyped

LEMMA OpeningWalksOn ==
  ASSUME RemoveInv, NoMoreOldLinks, OpenDirectory
  PROVE  WalkOn
<1>1. CASE Throw
  BY <1>1, ThrowingWalksOn
<1>2. CASE ~Throw
  <2>1. /\ pc = "opendir" /\ pc' = "readdir" /\ path' = path /\ tree' = tree
        /\ frames' = Append(frames, [dir |-> path, rest |-> Listing(path), seen |-> {}])
    BY <1>2 DEF OpenDirectory
  <2>2. PICK p \in Path : p = path
    BY DEF RemoveInv, RemoveTyped
  <2>3. \A e \in Listing(p) :
          /\ e \in EntryType
          /\ e.type = "directory" /\ e.name \notin Dots => ~IsLink(Append(p, e.name))
    BY Listed DEF RemoveInv, RemoveTyped
  <2>4. PICK f \in Frame : f = [dir |-> p, rest |-> Listing(p), seen |-> {}]
    BY <2>3 DEF Frame
  <2>5. /\ f.dir = p /\ f.rest = Listing(p)
        /\ ListsNoLinks(f)
    BY <2>3, <2>4 DEF ListsNoLinks, OldLink
  <2>6. PICK n \in Nat : n = Len(frames)
    BY LenProperties DEF RemoveInv, RemoveTyped
  <2>7. /\ frames' \in Seq(Frame) /\ Len(frames') = n + 1 /\ frames' # <<>>
        /\ \A k \in 1 .. n : frames'[k] = frames[k]
        /\ frames'[n + 1] = f
    BY <2>1, <2>2, <2>4, <2>6, AppendFacts DEF RemoveInv, RemoveTyped
  <2>8. ASSUME NEW k \in 1 .. n PROVE FrameFits(k)'
    <3>1. k # 1 => k - 1 \in 1 .. n
      OBVIOUS
    <3> QED
      BY <2>6, <2>7, <3>1, FrameStays DEF RemoveInv, NoMoreOldLinks
  <2>9. FrameFits(n + 1)'
    <3>1. Beneath(p) /\ Entered(p, frames)
      BY <2>1, <2>2 DEF RemoveInv, PathFits
    <3>2. Beneath(p)'
      BY <3>1, BeneathStays DEF NoMoreOldLinks
    <3>3. ListsNoLinks(f)'
      <4>1. ASSUME NEW e \in f.rest, e.type = "directory", e.name \notin Dots
            PROVE  ~OldLink(Append(f.dir, e.name))'
        <5>1. ~OldLink(Append(f.dir, e.name))
          BY <2>5, <4>1 DEF ListsNoLinks
        <5> QED
          BY <5>1 DEF NoMoreOldLinks
      <4> QED
        BY <4>1 DEF ListsNoLinks
    <3>4. CASE n = 0
      <4>1. frames = <<>>
        BY <2>6, <3>4, EmptySeq DEF RemoveInv, RemoveTyped
      <4>2. p = target'.path
        BY <3>1, <4>1 DEF Entered, NoMoreOldLinks
      <4> QED
        BY <2>5, <2>7, <3>2, <3>3, <3>4, <4>2 DEF FrameFits
    <3>5. CASE n # 0
      <4>1. frames # <<>>
        BY <2>6, <3>5, EmptySeq DEF RemoveInv, RemoveTyped
      <4>2. p # <<>> /\ Front(p) = frames[n].dir /\ Last(p) \notin Dots
        BY <2>6, <3>1, <4>1 DEF Entered, Last
      <4>3. n + 1 # 1 /\ n + 1 - 1 = n /\ n \in 1 .. n
        BY <3>5
      <4> QED
        BY <2>5, <2>7, <3>2, <3>3, <4>2, <4>3 DEF FrameFits
    <3> QED
      BY <3>4, <3>5
  <2>10. \A k \in 1 .. Len(frames') : FrameFits(k)'
    <3>1. \A k \in 1 .. Len(frames') : k \in 1 .. n \/ k = n + 1
      BY <2>7
    <3> QED
      BY <2>8, <2>9, <3>1
  <2>11. PathFits'
    BY <2>1, <2>7 DEF PathFits, Ended
  <2> QED
    BY <2>1, <2>7, <2>10, <2>11 DEF WalkOn, RemoveInv, RemoveTyped
<1> QED
  BY <1>1, <1>2

(* The directory that is read: the innermost one open.                      *)
LEMMA TopFacts ==
  ASSUME RemoveInv, frames # <<>>
  PROVE  /\ Len(frames) \in Nat \ {0} /\ Top = frames[Len(frames)]
         /\ Top \in Frame /\ Top.dir \in Path /\ Beneath(Top.dir) /\ FrameFits(Len(frames))
<1>1. Len(frames) \in Nat \ {0}
  BY EmptySeq DEF RemoveInv, RemoveTyped
<1>2. Len(frames) \in 1 .. Len(frames) /\ Top = frames[Len(frames)]
  BY <1>1 DEF Top, Last
<1>3. Top \in Frame
  BY <1>2, ElementOfSeq DEF RemoveInv, RemoveTyped
<1> QED
  BY <1>1, <1>2, <1>3 DEF RemoveInv, FrameFits, Frame

LEMMA ReadingWalksOn ==
  ASSUME RemoveInv, NoMoreOldLinks, ReadDirectory
  PROVE  WalkOn
<1> DEFINE n == Len(frames)
<1>1. pc = "readdir" /\ frames # <<>> /\ tree' = tree
  BY DEF ReadDirectory, RemoveInv, PathFits
<1>2. /\ n \in Nat \ {0} /\ Top = frames[n] /\ Top \in Frame
      /\ FrameFits(n)
  BY <1>1, TopFacts
<1>3. PICK p \in Path : p = Top.dir
  BY <1>1, TopFacts
<1>4. Beneath(p)
  BY <1>1, <1>3, TopFacts
<1>5. PICK e \in Top.rest \cup Listing(p) :
        /\ frames' = Returned(e)
        /\ IF Skipped(e) THEN UNCHANGED <<pc, path>>
           ELSE /\ pc' = IF Type(e) = "directory" THEN "opendir" ELSE "unlink"
                /\ path' = Append(p, e.name)
  BY <1>3 DEF ReadDirectory
<1>6. /\ e \in EntryType
      /\ e.type = "directory" /\ e.name \notin Dots => ~OldLink(Append(p, e.name))
  <2>1. CASE e \in Top.rest
    BY <1>2, <1>3, <2>1 DEF FrameFits, ListsNoLinks, Frame
  <2>2. CASE e \in Listing(p)
    BY <2>2, Listed DEF RemoveInv, RemoveTyped, OldLink
  <2> QED
    BY <1>5, <2>1, <2>2
<1>7. e.name \in Names
  BY <1>6 DEF EntryType
<1>8. /\ frames' \in Seq(Frame) /\ Len(frames') = n
      /\ \A k \in 1 .. n : k # n => frames'[k] = frames[k]
      /\ frames'[n].dir = frames[n].dir /\ frames'[n].rest \subseteq frames[n].rest
  BY <1>1, <1>5, <1>7, ReturnedFrames DEF RemoveInv, RemoveTyped
<1>9. ASSUME NEW k \in 1 .. n PROVE FrameFits(k)'
  <2>1. k # 1 => k - 1 \in 1 .. n /\ k - 1 # n
    BY <1>2
  <2>2. frames'[k].dir = frames[k].dir /\ frames'[k].rest \subseteq frames[k].rest
    BY <1>8
  <2>3. k # 1 => frames'[k - 1].dir = frames[k - 1].dir
    BY <1>8, <2>1
  <2> QED
    BY <2>2, <2>3, FrameStays DEF RemoveInv, NoMoreOldLinks
<1>10. frames' # <<>> /\ Last(frames').dir = p
  BY <1>2, <1>3, <1>8, EmptySeq DEF Last
<1>11. CASE Skipped(e)
  <2>1. PathFits'
    BY <1>1, <1>5, <1>10, <1>11 DEF PathFits, Ended
  <2> QED
    BY <1>1, <1>5, <1>8, <1>9, <1>11, <2>1 DEF WalkOn, RemoveInv, RemoveTyped
<1>12. CASE ~Skipped(e)
  <2>1. e.name \in STRING /\ e.name \notin Dots
    BY <1>7, <1>12 DEF Skipped, Names
  <2>2. PICK c \in Path :
          c = Append(p, e.name) /\ c # <<>> /\ Front(c) = p /\ Last(c) = e.name
    BY <2>1, Lengthened, Zenon
  <2>3. ASSUME Type(e) = "directory" PROVE Beneath(c)
    BY <1>4, <1>6, <2>1, <2>2, <2>3, BeneathEntry DEF Type, RemoveInv, RemoveTyped
  <2>4. /\ path' = c
        /\ pc' = IF Type(e) = "directory" THEN "opendir" ELSE "unlink"
    BY <1>5, <1>12, <2>2
  <2>5. Beneath(c) => Beneath(c)'
    BY BeneathStays DEF NoMoreOldLinks
  <2>6. Entered(c, frames)'
    BY <1>10, <2>1, <2>2 DEF Entered
  <2>7. PathFits'
    BY <1>10, <2>2, <2>3, <2>4, <2>5, <2>6 DEF PathFits, Ended, Entered, Top
  <2> QED
    BY <1>8, <1>9, <2>2, <2>4, <2>7 DEF WalkOn
<1> QED
  BY <1>11, <1>12

LEMMA EndingWalksOn ==
  ASSUME RemoveInv, NoMoreOldLinks, pc = "readdir", EndDirectory
  PROVE  WalkOn
<1> DEFINE n == Len(frames)
<1>1. frames # <<>>
  BY DEF RemoveInv, PathFits
<1>2. n \in Nat \ {0} /\ Top = frames[n] /\ FrameFits(n)
  BY <1>1, TopFacts
<1>3. PICK p \in Path : p = Top.dir
  BY <1>1, TopFacts
<1>4. Beneath(p)
  BY <1>1, <1>3, TopFacts
<1>5. /\ frames' \in Seq(Frame) /\ Len(frames') = n - 1
      /\ \A k \in 1 .. n - 1 : frames'[k] = frames[k]
  <2>1. frames' = SubSeq(frames, 1, n - 1)
    BY DEF EndDirectory, Front
  <2>2. \A k \in 1 .. n - 1 : frames[k] \in Frame
    BY <1>2, ElementOfSeq DEF RemoveInv, RemoveTyped
  <2> DEFINE m == n - 1
             r == SubSeq(frames, 1, m)
  <2>3. m \in Nat
    BY <1>2
  <2> HIDE DEF m
  <2>4. /\ r \in Seq(Frame) /\ Len(r) = (IF 1 <= m THEN m - 1 + 1 ELSE 0)
        /\ \A k \in 1 .. m - 1 + 1 : r[k] = frames[1 + k - 1]
    BY <2>2, <2>3, SubSeqProperties DEF m
  <2> HIDE DEF r
  <2>5. m - 1 + 1 = m /\ (\A k \in 1 .. m : 1 + k - 1 = k) /\ (1 <= m \/ m = 0)
    BY <2>3
  <2>6. r \in Seq(Frame) /\ Len(r) = m /\ \A k \in 1 .. m : r[k] = frames[k]
    BY <2>3, <2>4, <2>5
  <2> QED
    BY <2>1, <2>6 DEF m, r
<1>6. \A k \in 1 .. Len(frames') : FrameFits(k)'
  <2>1. n - 1 \in 0 .. Len(frames)
    BY <1>2
  <2> QED
    BY <1>5, <2>1, FramesStay DEF RemoveInv
<1>7. pc' = "rmdir" /\ path' = p
  BY <1>3 DEF EndDirectory
<1>8. Entered(p, frames)'
  <2>1. CASE n = 1
    <3>1. frames' = <<>>
      BY <1>5, <2>1, EmptySeq
    <3>2. p = target'.path
      BY <1>2, <1>3, <2>1 DEF FrameFits, NoMoreOldLinks
    <3> QED
      BY <3>1, <3>2 DEF Entered
  <2>2. CASE n # 1
    <3>1. n - 1 \in 1 .. n - 1 /\ Len(frames') # 0
      BY <1>2, <1>5, <2>2
    <3>2. frames' # <<>> /\ Last(frames') = frames[n - 1]
      BY <1>5, <3>1, EmptySeq DEF Last
    <3>3. p # <<>> /\ Front(p) = frames[n - 1].dir /\ Last(p) \notin Dots
      BY <1>2, <1>3, <2>2 DEF FrameFits
    <3> QED
      BY <3>2, <3>3 DEF Entered
  <2> QED
    BY <2>1, <2>2
<1>9. Beneath(p)'
  BY <1>4, BeneathStays DEF NoMoreOldLinks
<1>10. PathFits'
  BY <1>7, <1>8, <1>9 DEF PathFits, Entered, Ended
<1> QED
  BY <1>5, <1>6, <1>7, <1>10 DEF WalkOn

LEMMA EveryStepWalksOn ==
  ASSUME RemoveInv, NoMoreOldLinks, [Next]_vars
  PROVE  WalkOn
<1>1. CASE OpenDirectory
  BY <1>1, OpeningWalksOn
<1>2. CASE ReadDirectory
  BY <1>2, ReadingWalksOn
<1>3. CASE EndOfDirectory
  BY <1>3, EndingWalksOn DEF EndOfDirectory, EndDirectory
<1>4. CASE RemoveFile
  <2>1. CASE UnlinkOutcome(path) = "done"
    BY <1>4, <2>1, ReturningWalksOn DEF RemoveFile, RemoveInv, PathFits
  <2>2. CASE UnlinkOutcome(path) # "done"
    BY <1>4, <2>2, ThrowingWalksOn DEF RemoveFile
  <2> QED
    BY <2>1, <2>2
<1>5. CASE RemoveDirectory
  <2>1. CASE RmdirOutcome(path) = "done"
    BY <1>5, <2>1, ReturningWalksOn DEF RemoveDirectory
  <2>2. CASE RmdirOutcome(path) # "done"
    BY <1>5, <2>2, ThrowingWalksOn DEF RemoveDirectory
  <2> QED
    BY <2>1, <2>2
<1>6. CASE ReadDirectoryFails
  BY <1>6, EndingWalksOn DEF ReadDirectoryFails, EndDirectory
<1>7. CASE Fail
  BY <1>7, ThrowingWalksOn DEF Fail
<1>8. CASE OthersMake \/ OthersRemove \/ UNCHANGED vars
  BY <1>8, WaitingWalksOn DEF OthersMake, OthersRemove, vars
<1> QED
  BY <1>1, <1>2, <1>3, <1>4, <1>5, <1>6, <1>7, <1>8 DEF Next, RemoveHop

(* What a call of the removal takes away.                                   *)
LEMMA TakenIsBelow ==
  ASSUME RemoveInv, \/ pc = "unlink" /\ UnlinkOutcome(path) = "done"
                    \/ pc = "rmdir" /\ RmdirOutcome(path) = "done"
  PROVE  Place(path) \in Path /\ Allowed(Place(path))
<1>1. PICK p \in Path : p = path
  BY DEF RemoveInv, RemoveTyped
<1>2. target.path \in Path
  BY DEF RemoveInv, RemoveTyped
<1>3. p # <<>> /\ Below(target.path, p)
      /\ \A k \in Len(target.path) + 1 .. Len(p) - 1 : ~OldLink(SubSeq(p, 1, k))
  <2>1. CASE pc = "unlink"
    <3>1. frames # <<>> /\ p # <<>> /\ Front(p) = Top.dir
      BY <1>1, <2>1 DEF RemoveInv, PathFits
    <3>2. Beneath(Front(p))
      BY <3>1, TopFacts
    <3> QED
      BY <1>2, <3>1, <3>2, EntryIsBelow
  <2>2. CASE pc = "rmdir"
    <3>1. Beneath(p)
      BY <1>1, <2>2 DEF RemoveInv, PathFits
    <3>2. p # <<>>
      BY <1>1, <2>2 DEF RmdirOutcome, Place
    <3>3. \A k \in Len(target.path) + 1 .. Len(p) - 1 : k \in Len(target.path) + 1 .. Len(p)
      BY <1>2 DEF Path
    <3> QED
      BY <3>1, <3>2, <3>3 DEF Beneath
  <2> QED
    BY <2>1, <2>2
<1> QED
  BY <1>1, <1>2, <1>3, PlaceIsBelow DEF RemoveInv, RemoveTyped

LEMMA RemovedStaysBelow ==
  ASSUME RemoveInv, target' = target, linked \subseteq linked', [Next]_vars
  PROVE  removed' \subseteq Path /\ OnlyNewLinksLeadAway'
<1>1. removed \subseteq Path /\ \A q \in removed : Allowed(q)
  BY DEF RemoveInv, RemoveTyped, OnlyNewLinksLeadAway, Allowed
<1>2. removed' \subseteq Path /\ \A q \in removed' : Allowed(q)
  <2>1. CASE removed' = removed
    BY <1>1, <2>1
  <2>2. CASE removed' # removed
    <3>1. /\ removed' = removed \cup {Place(path)}
          /\ \/ pc = "unlink" /\ UnlinkOutcome(path) = "done"
             \/ pc = "rmdir" /\ RmdirOutcome(path) = "done"
      BY <2>2 DEF Next, RemoveHop, vars, OpenDirectory, ReadDirectory, EndOfDirectory, RemoveFile,
         RemoveDirectory, ReadDirectoryFails, Fail, OthersMake, OthersRemove
    <3> QED
      BY <1>1, <3>1, TakenIsBelow
  <2> QED
    BY <2>1, <2>2
<1>3. ASSUME NEW q, Allowed(q)
      PROVE  (Below(target.place, q) \/ Below(target.path, q) \/ OverNewLink(q))'
  BY <1>3 DEF Allowed, OverNewLink
<1> QED
  BY <1>2, <1>3 DEF OnlyNewLinksLeadAway

LEMMA RemoveInitially == Init => RemoveInv
<1> SUFFICES ASSUME Init PROVE RemoveInv
  OBVIOUS
<1>1. IsTree(tree) /\ frames = <<>> /\ pc = "opendir" /\ path = target.path
      /\ removed = {} /\ changes = 0 /\ broken = FALSE
  BY RemoveAssumption DEF Init
<1>2. PICK p \in Targets : target = [path |-> p, place |-> Resolve(p)]
  BY DEF Init
<1>3. p \in Path
  BY RemoveAssumption DEF IsPath, Path
<1>4. Resolve(p) \in Path
  BY <1>1, <1>3, MeaningIsPath
<1>5. RemoveTyped
  <2>1. target \in [path : Path, place : Path] /\ path \in Path
    BY <1>1, <1>2, <1>3, <1>4
  <2>2. frames \in Seq(Frame)
    BY <1>1, EmptySeq
  <2>3. changes \in 0 .. MaxChanges
    BY <1>1, RemoveAssumption
  <2> QED
    BY <1>1, <2>1, <2>2, <2>3 DEF RemoveTyped
<1>6. Beneath(path)
  BY <1>1, <1>2, <1>3, TargetBeneath
<1>7. PathFits
  BY <1>1, <1>6 DEF PathFits, Entered, Ended
<1>8. Len(frames) = 0
  BY <1>1
<1>9. TargetMeans
  BY <1>2 DEF TargetMeans
<1> QED
  BY <1>1, <1>5, <1>7, <1>8, <1>9 DEF RemoveInv, OnlyNewLinksLeadAway

LEMMA RemoveStep == RemoveInv /\ [Next]_vars => RemoveInv'
<1> SUFFICES ASSUME RemoveInv, [Next]_vars PROVE RemoveInv'
  OBVIOUS
<1>1. target' = target /\ TreeStep /\ linked \subseteq linked'
  BY StepOfTheTree DEF RemoveInv
<1>2. IsTree(tree') /\ NoMoreOldLinks
  <2>1. IsTree(tree') /\ LinksAreRemembered
    BY <1>1, TreeStays DEF RemoveInv, RemoveTyped
  <2> QED
    BY <1>1, <2>1 DEF LinksAreRemembered, NoMoreOldLinks, OldLink
<1>3. TargetMeans'
  BY <1>2, TargetMeansStays DEF RemoveInv, RemoveTyped
<1>4. WalkOn
  BY <1>2, EveryStepWalksOn
<1>5. removed' \subseteq Path /\ OnlyNewLinksLeadAway'
  BY <1>1, RemovedStaysBelow
<1>6. changes' \in 0 .. MaxChanges /\ broken' \in BOOLEAN
  <2>1. \/ changes' = changes
        \/ changes < MaxChanges /\ changes' = changes + 1
    BY DEF Next, RemoveHop, vars, OpenDirectory, ReadDirectory, EndOfDirectory, RemoveFile,
       RemoveDirectory, ReadDirectoryFails, Fail, OthersMake, OthersRemove
  <2>2. broken' = broken \/ broken' = TRUE
    BY Zenon DEF Next, RemoveHop, vars, OpenDirectory, ReadDirectory, EndOfDirectory, RemoveFile,
       RemoveDirectory, ReadDirectoryFails, Fail, OthersMake, OthersRemove
  <2>3. changes' \in 0 .. MaxChanges
    BY <2>1, RemoveAssumption DEF RemoveInv, RemoveTyped
  <2> QED
    BY <2>2, <2>3 DEF RemoveInv, RemoveTyped
<1>7. RemoveTyped'
  BY <1>1, <1>2, <1>4, <1>5, <1>6 DEF RemoveInv, RemoveTyped, WalkOn
<1> QED
  BY <1>3, <1>4, <1>5, <1>7 DEF RemoveInv, WalkOn

LEMMA RemoveInvariant == Spec => []RemoveInv
  BY RemoveInitially, RemoveStep, PTL DEF Spec

(***************************************************************************)
(* What the removal promises                                               *)
(***************************************************************************)

(* The directories that removeDirectoryRecursively has open are always a    *)
(* way down from the path asked for, and none is open once it has ended.    *)
THEOREM RemoveTypeCorrect == Spec => []TypeOK
<1>1. RemoveInv => TypeOK
  BY DEF RemoveInv, RemoveTyped, FrameFits, PathFits, TypeOK
<1> QED
  BY <1>1, RemoveInvariant, PTL

(* Nothing is removed but what lies below the path asked for or below what  *)
(* it meant, whatever other clients make and remove, except over a link one *)
(* of them made meanwhile there or on the way: removeDirectoryRecursively   *)
(* opens by name what a listing called a directory.                         *)
THEOREM RemovesBelowOrOverNewLinks == Spec => []OnlyNewLinksLeadAway
<1>1. RemoveInv => OnlyNewLinksLeadAway
  BY DEF RemoveInv
<1> QED
  BY <1>1, RemoveInvariant, PTL

(* The step that returns leaves nothing below the path asked for.           *)
LEMMA LastCallEmpties ==
  ASSUME RemoveInv, RemoveDirectory, pc' = "returned"
  PROVE  \A q \in DOMAIN tree' : ~Below(target.path, q)
<1>1. /\ frames = <<>> /\ RmdirOutcome(path) = "done" /\ pc = "rmdir"
      /\ tree' = Without(Place(path))
  BY DEF RemoveDirectory, Throw, Rmdir
<1>2. PICK p \in Path : p = path /\ p = target.path
  BY <1>1 DEF RemoveInv, RemoveTyped, PathFits, Entered
<1>3. Leaf(Place(p)) /\ p # <<>>
  BY <1>1, <1>2 DEF RmdirOutcome, Leaf, Place
<1>4. ASSUME NEW q \in DOMAIN tree', Below(p, q) PROVE FALSE
  <2>1. q \in DOMAIN tree /\ q # Place(p) /\ Exists(q)
    BY <1>1, <1>2, <1>4 DEF Without, Exists
  <2>2. q \in Path /\ IsTree(tree)
    BY <2>1 DEF RemoveInv, RemoveTyped, IsTree, IsPath, Path
  <2>3. Len(p) \in 0 .. Len(q) /\ SubSeq(q, 1, Len(p)) = p /\ Len(q) \in Nat
    BY <1>4, <2>2, BelowIsBeginning DEF Path
  <2>4. Exists(p)
    <3>1. CASE Len(p) = Len(q)
      BY <2>1, <2>2, <2>3, <3>1, WholePath
    <3>2. CASE Len(p) # Len(q)
      <4>1. Len(p) \in 0 .. Len(q) - 1
        BY <2>3, <3>2
      <4> QED
        BY <2>1, <2>2, <2>3, <4>1 DEF IsTree, Exists
    <3> QED
      BY <3>1, <3>2
  <2>5. Place(p) = p
    BY <1>3, <2>2, <2>4, PlaceOfPath
  <2>6. q = p
    BY <1>3, <2>1, <2>2, <2>3, <2>5, NothingBelowALeaf
  <2> QED
    BY <2>1, <2>5, <2>6
<1> QED
  BY <1>2, <1>4

(* When the call returns, nothing is left of the directory: not even an     *)
(* error in a listing, which the code takes for the end, can hide an entry. *)
THEOREM ReturnedIsGone == Spec => ReturnedMeansGone
<1>1. ASSUME RemoveInv, [Next]_vars, vars' # vars, pc' = "returned"
      PROVE  \A q \in DOMAIN tree' : ~Below(target.path, q)
  <2>1. RemoveDirectory
    BY <1>1 DEF Next, RemoveHop, vars, OpenDirectory, ReadDirectory, EndOfDirectory, RemoveFile,
       ReadDirectoryFails, EndDirectory, Fail, OthersMake, OthersRemove, Throw, Ended
  <2> QED
    BY <1>1, <2>1, LastCallEmpties
<1>2. RemoveInv /\ [Next]_vars
        => [pc' = "returned" => \A q \in DOMAIN tree' : ~Below(target.path, q)]_vars
  BY <1>1 DEF vars
<1> QED
  BY <1>2, RemoveInvariant, PTL DEF Spec, ReturnedMeansGone

(***************************************************************************)
(* A removal that is left alone                                            *)
(***************************************************************************)

LeftAlone == changes = 0 /\ ~broken

(* p itself is a directory, not a link to one.                              *)
Standing(p) == Exists(p) /\ tree[p] = "directory"

(* What is to be removed has names that readdir returns.                    *)
Named == \A q \in DOMAIN tree : Below(target.path, q) => Last(q) \notin Dots \cup Unreadable

(* The entry of the k-th open directory that is gone through.               *)
UnderWay(k) == IF k = Len(frames) THEN path ELSE frames[k + 1].dir

(* A directory that is open has still to return what is in it, but for the  *)
(* entry under way.                                                         *)
Awaits(k) ==
  /\ Len(frames[k].dir) = Len(target.path) + k - 1
  /\ Standing(frames[k].dir)
  /\ {e \in frames[k].rest : e.name \notin Dots} =
       {Entry(q) : q \in Entries(frames[k].dir) \ {UnderWay(k)}}

PathStands ==
  /\ pc # "threw"
  /\ pc = "opendir" => Standing(path)
  /\ pc = "readdir" => path = Top.dir \/ ~Exists(path)
  /\ pc = "unlink" => Exists(path) /\ tree[path] # "directory"
  /\ pc = "rmdir" => Standing(path) /\ Entries(path) = {}

Undisturbed ==
  /\ target.path # <<>>
  /\ Named
  /\ \A k \in 1 .. Len(frames) : Awaits(k)
  /\ PathStands

LEMMA StandsWhereItIs ==
  ASSUME IsTree(tree), NEW p \in Path, p # <<>>, Exists(p), tree[p] # "symlink"
  PROVE  Resolve(p) = p /\ Place(p) = p
<1>1. ~IsLink(p)
  BY DEF IsLink
<1> QED
  BY <1>1, PlaceOfPath

(* An entry of a directory below the path asked for.                        *)
LEMMA EntryFacts ==
  ASSUME IsTree(tree), target.path \in Path, Named, NEW d \in Path, Below(target.path, d),
         NEW q \in Entries(d)
  PROVE  /\ q \in Path /\ q # <<>> /\ Exists(q) /\ Len(q) = Len(d) + 1
         /\ q = Append(d, Last(q)) /\ Last(q) \notin Dots \cup Unreadable
         /\ Entry(q).name = Last(q) /\ Entry(q).type = tree[q]
<1>1. q \in Path /\ q # <<>> /\ Exists(q) /\ Front(q) = d
  BY DEF Entries, IsTree, IsPath, Path, Exists
<1>2. q = Append(d, Last(q)) /\ Last(q) \in STRING /\ Len(q) = Len(d) + 1
  <2>1. Len(d) = Len(q) - 1 /\ Len(q) \in Nat \ {0}
    BY <1>1, FrontAndLast
  <2> QED
    BY <1>1, <2>1, FrontAndLast
<1>3. Below(target.path, q)
  <2>1. PICK n \in STRING : n = Last(q)
    BY <1>2
  <2>2. q = Append(d, n) /\ Len(q) = Len(d) + 1 /\ \A i \in 1 .. Len(d) : q[i] = d[i]
    BY <1>2, <2>1, Lengthened
  <2>3. /\ Len(target.path) <= Len(d)
        /\ \A i \in 1 .. Len(target.path) : target.path[i] = d[i]
    BY BelowPointwise
  <2>4. Len(target.path) \in Nat /\ Len(d) \in Nat
    BY DEF Path
  <2>5. Len(target.path) <= Len(q) /\ \A i \in 1 .. Len(target.path) : target.path[i] = q[i]
    BY <2>2, <2>3, <2>4
  <2> QED
    BY <1>1, <2>5, BelowPointwise
<1> QED
  BY <1>1, <1>2, <1>3 DEF Named, Exists, Entry

(* What is known of a directory that is open.                               *)
LEMMA FrameFacts ==
  ASSUME RemoveInv, NEW k \in 1 .. Len(frames)
  PROVE  /\ frames[k] \in Frame /\ frames[k].dir \in Path
         /\ Below(target.path, frames[k].dir)
<1>1. frames[k] \in Frame
  BY ElementOfSeq DEF RemoveInv, RemoveTyped
<1> QED
  BY <1>1 DEF RemoveInv, FrameFits, Beneath, Frame

LEMMA OpeningUndisturbed ==
  ASSUME RemoveInv, Undisturbed, OpenDirectory, target' = target
  PROVE  Undisturbed'
<1>1. PICK p \in Path : p = path
  BY DEF RemoveInv, RemoveTyped
<1>2. pc = "opendir" /\ Standing(p) /\ Below(target.path, p) /\ Entered(p, frames)
  BY <1>1 DEF OpenDirectory, Undisturbed, PathStands, RemoveInv, PathFits, Beneath
<1>3. p # <<>>
  BY <1>2 DEF Entered, Undisturbed
<1>4. IsTree(tree) /\ target.path \in Path /\ Named
  BY DEF RemoveInv, RemoveTyped, Undisturbed
<1>5. Resolve(p) = p
  BY <1>2, <1>3, <1>4, StandsWhereItIs DEF Standing
<1> DEFINE f == [dir |-> p, rest |-> Listing(p), seen |-> {}]
<1>6. /\ frames' = Append(frames, f) /\ pc' = "readdir" /\ path' = p /\ tree' = tree
  BY <1>1, <1>2, <1>5 DEF OpenDirectory, OpendirOutcome, IsDirectory, Standing
<1>7. PICK n \in Nat : n = Len(frames)
  BY LenProperties DEF RemoveInv, RemoveTyped
<1>8. /\ Len(frames') = n + 1
      /\ \A k \in 1 .. n : frames'[k] = frames[k]
      /\ frames'[n + 1] = f
  <2>1. \A e \in Listing(p) : e \in EntryType
    BY <1>4, Listed
  <2>2. f \in Frame
    BY <2>1 DEF Frame
  <2> HIDE DEF f
  <2> QED
    BY <1>6, <1>7, <2>2, AppendFacts DEF RemoveInv, RemoveTyped
<1>9. ASSUME NEW k \in 1 .. n PROVE Awaits(k)'
  <2>1. Awaits(k) /\ frames'[k] = frames[k] /\ k # n + 1
    BY <1>7, <1>8 DEF Undisturbed
  <2>2. UnderWay(k)' = UnderWay(k)
    <3>1. CASE k = n
      BY <1>1, <1>7, <1>8, <2>1, <3>1 DEF UnderWay
    <3>2. CASE k # n
      <4>1. k + 1 \in 1 .. n
        BY <3>2
      <4> QED
        BY <1>7, <1>8, <2>1, <3>2, <4>1 DEF UnderWay
    <3> QED
      BY <3>1, <3>2
  <2> QED
    BY <1>6, <2>1, <2>2 DEF Awaits, Standing, Exists, Entry, Entries
<1>10. Awaits(n + 1)'
  <2>1. Len(p) = Len(target.path) + n
    <3>1. CASE n = 0
      <4>1. frames = <<>>
        BY <1>7, <3>1, EmptySeq DEF RemoveInv, RemoveTyped
      <4>2. Len(p) \in Nat
        BY DEF Path
      <4> QED
        BY <1>2, <3>1, <4>1, <4>2 DEF Entered
    <3>2. CASE n # 0
      <4>1. frames # <<>> /\ n \in 1 .. Len(frames)
        BY <1>7, <3>2, EmptySeq DEF RemoveInv, RemoveTyped
      <4>2. Front(p) = frames[n].dir
        BY <1>2, <1>7, <4>1 DEF Entered, Last
      <4>3. Len(Front(p)) = Len(target.path) + n - 1
        BY <4>1, <4>2 DEF Undisturbed, Awaits
      <4>4. Len(target.path) \in Nat
        BY <1>4 DEF Path
      <4> QED
        BY <1>3, <4>3, <4>4, FrontAndLast
    <3> QED
      BY <3>1, <3>2
  <2>2. UnderWay(n + 1)' = p
    BY <1>6, <1>8 DEF UnderWay
  <2>3. p \notin Entries(p)
    <3>1. Len(p) \in Nat
      BY DEF Path
    <3> QED
      BY <1>2, <1>4, <3>1, EntryFacts
  <2>4. {e \in Listing(p) : e.name \notin Dots} = {Entry(q) : q \in Entries(p) \ {p}}
    <3>1. Listing(p) = {Entry(q) : q \in Entries(p)} \cup [name : Dots, type : {"directory"}]
      BY <1>5 DEF Listing
    <3>2. \A q \in Entries(p) : Entry(q).name \notin Dots
      BY <1>2, <1>4, EntryFacts
    <3> QED
      BY <2>3, <3>1, <3>2
  <2>5. Len(target.path) \in Nat
    BY <1>4 DEF Path
  <2>6. frames'[n + 1].dir = p /\ frames'[n + 1].rest = Listing(p)
    BY <1>8
  <2>7. target'.path = target.path /\ Len(p) = Len(target.path) + (n + 1) - 1
    BY <2>1, <2>5
  <2>8. Standing(p)' /\ {Entry(q) : q \in Entries(p) \ {p}}' = {Entry(q) : q \in Entries(p) \ {p}}
    BY <1>2, <1>6 DEF Standing, Exists, Entry, Entries
  <2> QED
    BY <2>2, <2>4, <2>6, <2>7, <2>8 DEF Awaits
<1>11. \A k \in 1 .. Len(frames') : Awaits(k)'
  <2>1. \A k \in 1 .. Len(frames') : k \in 1 .. n \/ k = n + 1
    BY <1>8
  <2> QED
    BY <1>9, <1>10, <2>1
<1>12. Top' = f
  BY <1>8 DEF Top, Last
<1>13. PathStands'
  <2>1. path' = Top'.dir
    BY <1>6, <1>12
  <2> QED
    BY <1>6, <2>1 DEF PathStands
<1>14. Named'
  BY <1>4, <1>6 DEF Named
<1> QED
  BY <1>11, <1>13, <1>14 DEF Undisturbed

(* The directory that is read has still to return all that is in it.        *)
LEMMA ReadingKnows ==
  ASSUME RemoveInv, Undisturbed, pc = "readdir", NEW d \in Path, d = Top.dir
  PROVE  /\ {e \in Top.rest : e.name \notin Dots} = {Entry(q) : q \in Entries(d)}
         /\ Resolve(d) = d /\ path \notin Entries(d)
         /\ IsTree(tree) /\ target.path \in Path /\ Named /\ Below(target.path, d)
         /\ Awaits(Len(frames)) /\ Standing(d)
<1> DEFINE n == Len(frames)
<1>1. frames # <<>>
  BY DEF RemoveInv, PathFits
<1>2. n \in Nat \ {0} /\ n \in 1 .. Len(frames) /\ Top = frames[n] /\ Top.dir \in Path
  BY <1>1, TopFacts
<1>3. /\ IsTree(tree) /\ target.path \in Path /\ Named /\ Below(target.path, d)
      /\ Awaits(n) /\ Standing(d) /\ Len(d) \in Nat
  <2>1. IsTree(tree) /\ target.path \in Path /\ Named
    BY DEF RemoveInv, RemoveTyped, Undisturbed
  <2>2. Below(target.path, d) /\ Len(d) \in Nat
    BY <1>2, FrameFacts DEF Path
  <2>3. Awaits(n)
    BY <1>2 DEF Undisturbed
  <2>4. Standing(d)
    BY <1>2, <2>3 DEF Awaits
  <2> QED
    BY <2>1, <2>2, <2>3, <2>4
<1>4. Resolve(d) = d
  <2>1. Len(target.path) \in Nat /\ (target.path = <<>> <=> Len(target.path) = 0)
    BY <1>3, EmptySeq DEF Path
  <2>2. d # <<>>
    BY <1>2, <1>3, <2>1 DEF Awaits, Undisturbed
  <2> QED
    BY <1>3, <2>2, StandsWhereItIs DEF Standing
<1>5. path \notin Entries(d)
  <2>1. CASE path = d
    BY <1>3, <2>1, EntryFacts
  <2>2. CASE path # d
    <3>1. ~Exists(path)
      BY <2>2 DEF Undisturbed, PathStands
    <3> QED
      BY <3>1 DEF Entries, Exists
  <2> QED
    BY <2>1, <2>2
<1>6. {e \in Top.rest : e.name \notin Dots} = {Entry(q) : q \in Entries(d)}
  BY <1>2, <1>3, <1>5 DEF Awaits, UnderWay
<1> QED
  BY <1>3, <1>4, <1>5, <1>6

LEMMA ReadingUndisturbed ==
  ASSUME RemoveInv, Undisturbed, ReadDirectory, target' = target
  PROVE  Undisturbed'
<1> DEFINE n == Len(frames)
<1>1. pc = "readdir" /\ frames # <<>> /\ tree' = tree
  BY DEF ReadDirectory, RemoveInv, PathFits
<1>2. n \in Nat \ {0} /\ n \in 1 .. Len(frames) /\ Top = frames[n] /\ Top.dir \in Path
  BY <1>1, TopFacts
<1>3. PICK d \in Path : d = Top.dir
  BY <1>2
<1>4. /\ IsTree(tree) /\ target.path \in Path /\ Named /\ Below(target.path, d)
      /\ Awaits(n) /\ Standing(d)
  BY <1>1, <1>3, ReadingKnows
<1>5. Resolve(d) = d
  BY <1>1, <1>3, ReadingKnows
<1>6. path \notin Entries(d)
  BY <1>1, <1>3, ReadingKnows
<1>7. {e \in Top.rest : e.name \notin Dots} = {Entry(q) : q \in Entries(d)}
  BY <1>1, <1>3, ReadingKnows
<1>8. PICK e \in Top.rest \cup Listing(d) :
        /\ frames' = Returned(e)
        /\ IF Skipped(e) THEN UNCHANGED <<pc, path>>
           ELSE /\ pc' = IF Type(e) = "directory" THEN "opendir" ELSE "unlink"
                /\ path' = Append(d, e.name)
  BY <1>3 DEF ReadDirectory
<1>9. e.name \notin Dots => \E q \in Entries(d) : e = Entry(q)
  <2>1. CASE e \in Top.rest
    BY <1>7, <2>1
  <2>2. CASE e \in Listing(d)
    BY <1>5, <2>2 DEF Listing
  <2> QED
    BY <1>8, <2>1, <2>2
<1>10. /\ Len(frames') = n
       /\ \A k \in 1 .. n : k # n => frames'[k] = frames[k]
       /\ frames'[n].dir = d
       /\ frames'[n].rest = {r \in Top.rest : r.name # e.name}
  <2>1. Top.rest \subseteq EntryType
    BY <1>1, TopFacts DEF Frame
  <2>2. \A r \in Listing(d) : r \in EntryType
    BY <1>4, Listed
  <2>3. e.name \in Names
    BY <1>8, <2>1, <2>2 DEF EntryType
  <2>4. /\ Len(frames') = n
        /\ \A k \in 1 .. n : k # n => frames'[k] = frames[k]
        /\ frames'[n].dir = frames[n].dir
    BY <1>1, <1>8, <2>3, ReturnedFrames DEF RemoveInv, RemoveTyped
  <2>5. frames'[n].rest = {r \in Top.rest : r.name # e.name}
    BY <1>2, <1>8 DEF Returned
  <2> QED
    BY <1>2, <1>3, <2>4, <2>5
<1>11. ASSUME NEW k \in 1 .. n, k # n PROVE Awaits(k)'
  <2>1. k + 1 \in 1 .. n /\ frames'[k] = frames[k] /\ frames'[k + 1].dir = frames[k + 1].dir
    BY <1>2, <1>3, <1>10, <1>11
  <2>2. UnderWay(k)' = UnderWay(k)
    BY <1>10, <1>11, <2>1 DEF UnderWay
  <2> QED
    BY <1>1, <2>1, <2>2 DEF Awaits, Undisturbed, Standing, Exists, Entry, Entries
<1>12. UnderWay(n)' = path'
  BY <1>10 DEF UnderWay
<1>13. ASSUME {r \in frames'[n].rest : r.name \notin Dots} = {Entry(q) : q \in Entries(d) \ {path'}},
              PathStands'
       PROVE  Undisturbed'
  <2>1. Awaits(n)'
    BY <1>1, <1>2, <1>3, <1>4, <1>10, <1>12, <1>13
       DEF Awaits, Standing, Exists, Entry, Entries
  <2>2. \A k \in 1 .. Len(frames') : Awaits(k)'
    BY <1>10, <1>11, <2>1
  <2>3. Named'
    BY <1>1, <1>4 DEF Named
  <2> QED
    BY <1>13, <2>2, <2>3 DEF Undisturbed
<1>14. CASE e.name \in Dots
  <2>1. pc' = pc /\ path' = path
    BY <1>8, <1>14 DEF Skipped
  <2>2. {r \in frames'[n].rest : r.name \notin Dots} = {r \in Top.rest : r.name \notin Dots}
    BY <1>10, <1>14
  <2>3. Top' = frames'[n]
    BY <1>10 DEF Top, Last
  <2>4. path = d \/ ~Exists(path)
    BY <1>1, <1>3 DEF Undisturbed, PathStands
  <2>5. path' = Top'.dir \/ ~Exists(path)'
    BY <1>1, <1>10, <2>1, <2>3, <2>4 DEF Exists
  <2>6. PathStands'
    BY <1>1, <2>1, <2>5 DEF PathStands
  <2> QED
    BY <1>6, <1>7, <1>13, <2>1, <2>2, <2>6
<1>15. ASSUME NEW q \in Entries(d), e = Entry(q) PROVE Undisturbed'
  <2>1. /\ q = Append(d, Last(q)) /\ Last(q) \notin Dots \cup Unreadable /\ Exists(q)
        /\ Entry(q).name = Last(q) /\ Entry(q).type = tree[q]
    BY <1>4, EntryFacts
  <2>2. /\ path' = q
        /\ pc' = IF tree[q] = "directory" THEN "opendir" ELSE "unlink"
    BY <1>8, <1>15, <2>1 DEF Skipped, Type
  <2>3. ASSUME NEW p \in Entries(d), p # q PROVE Entry(p).name # e.name
    <3>1. p = Append(d, Last(p)) /\ Entry(p).name = Last(p)
      BY <1>4, EntryFacts
    <3> QED
      BY <1>15, <2>1, <2>3, <3>1
  <2>4. {r \in frames'[n].rest : r.name \notin Dots} = {Entry(p) : p \in Entries(d) \ {path'}}
    <3>1. {r \in frames'[n].rest : r.name \notin Dots}
            = {r \in {Entry(p) : p \in Entries(d)} : r.name # e.name}
      BY <1>7, <1>10
    <3> QED
      BY <1>15, <2>2, <2>3, <3>1
  <2>5. PathStands'
    BY <1>1, <2>1, <2>2 DEF PathStands, Standing, Exists
  <2> QED
    BY <1>13, <2>4, <2>5
<1> QED
  BY <1>9, <1>14, <1>15

LEMMA EndingUndisturbed ==
  ASSUME RemoveInv, Undisturbed, EndOfDirectory, target' = target
  PROVE  Undisturbed'
<1> DEFINE n == Len(frames)
<1>1. pc = "readdir" /\ frames # <<>> /\ tree' = tree
  BY DEF EndOfDirectory, EndDirectory, RemoveInv, PathFits
<1>2. n \in Nat \ {0} /\ n \in 1 .. Len(frames) /\ Top = frames[n] /\ Top.dir \in Path
  BY <1>1, TopFacts
<1>3. PICK d \in Path : d = Top.dir
  BY <1>2
<1>4. /\ pc' = "rmdir" /\ path' = d /\ Top.rest \cap Listing(d) = {}
      /\ frames' = SubSeq(frames, 1, n - 1)
  BY <1>3 DEF EndOfDirectory, EndDirectory, Front
<1>5. Len(frames') = n - 1 /\ \A k \in 1 .. n - 1 : frames'[k] = frames[k]
  <2> DEFINE m == n - 1
             r == SubSeq(frames, 1, m)
  <2>1. m \in 0 .. Len(frames) /\ 1 \in 1 .. m + 1
    BY <1>2
  <2>2. frames \in Seq(Frame)
    BY DEF RemoveInv, RemoveTyped
  <2> HIDE DEF m
  <2>3. \A k \in 1 .. m : frames[k] \in Frame
    <3>1. \A k \in 1 .. m : k \in 1 .. Len(frames)
      BY <1>2, <2>1
    <3> QED
      BY <2>2, <3>1, ElementOfSeq
  <2>4. /\ Len(r) = (IF 1 <= m THEN m - 1 + 1 ELSE 0)
        /\ \A k \in 1 .. m - 1 + 1 : r[k] = frames[1 + k - 1]
    BY <2>1, <2>3, SubSeqProperties
  <2> HIDE DEF r
  <2>5. m - 1 + 1 = m /\ (\A k \in 1 .. m : 1 + k - 1 = k) /\ (1 <= m \/ m = 0)
    BY <2>1
  <2>6. Len(r) = m /\ \A k \in 1 .. m : r[k] = frames[k]
    BY <2>4, <2>5
  <2> QED
    BY <1>4, <2>6 DEF m, r
<1>6. Named /\ Standing(d)
  BY <1>1, <1>3, ReadingKnows
<1>7. {e \in Top.rest : e.name \notin Dots} = {Entry(q) : q \in Entries(d)} /\ Resolve(d) = d
  BY <1>1, <1>3, ReadingKnows
<1>8. Entries(d) = {}
  <2>1. \A q \in Entries(d) : Entry(q) \in Top.rest /\ Entry(q) \in Listing(d)
    BY <1>7 DEF Listing
  <2> QED
    BY <1>4, <2>1
<1>9. ASSUME NEW k \in 1 .. n - 1 PROVE Awaits(k)'
  <2>1. k \in 1 .. n /\ k # n /\ frames'[k] = frames[k] /\ Awaits(k)
    BY <1>2, <1>5 DEF Undisturbed
  <2>2. UnderWay(k)' = UnderWay(k)
    <3>1. CASE k = n - 1
      <4>1. k # n /\ k + 1 = n /\ k = Len(frames')
        BY <1>2, <1>5, <3>1
      <4>2. UnderWay(k) = d
        BY <1>2, <1>3, <4>1 DEF UnderWay
      <4>3. UnderWay(k)' = d
        BY <1>4, <4>1 DEF UnderWay
      <4> QED
        BY <4>2, <4>3
    <3>2. CASE k # n - 1
      <4>1. k + 1 \in 1 .. n - 1 /\ k # Len(frames')
        BY <1>2, <1>5, <3>2
      <4> QED
        BY <1>5, <2>1, <4>1 DEF UnderWay
    <3> QED
      BY <3>1, <3>2
  <2> QED
    BY <1>1, <2>1, <2>2 DEF Awaits, Standing, Exists, Entry, Entries
<1>10. PathStands'
  BY <1>1, <1>4, <1>6, <1>8 DEF PathStands, Standing, Exists, Entries
<1>11. Named'
  BY <1>1, <1>6 DEF Named
<1> QED
  BY <1>5, <1>9, <1>10, <1>11 DEF Undisturbed

(* A call that takes the entry under way takes nothing any directory still  *)
(* has to return.                                                           *)
LEMMA TakingUndisturbed ==
  ASSUME RemoveInv, Undisturbed, target' = target,
         pc \in {"unlink", "rmdir"}, tree' = Without(path), UNCHANGED <<frames, path>>,
         pc' = IF frames = <<>> THEN "returned" ELSE "readdir"
  PROVE  Undisturbed'
<1> DEFINE n == Len(frames)
<1>1. PICK p \in Path : p = path
  BY DEF RemoveInv, RemoveTyped
<1>2. /\ n \in Nat /\ Len(target.path) \in Nat /\ Named
      /\ DOMAIN tree' = DOMAIN tree \ {p} /\ \A q \in DOMAIN tree' : tree'[q] = tree[q]
  BY <1>1, LenProperties DEF RemoveInv, RemoveTyped, Undisturbed, Path, Without
<1>3. frames # <<>> => p # <<>> /\ Front(p) = frames[n].dir
  BY <1>1 DEF RemoveInv, PathFits, Entered, Top, Last
<1>4. ASSUME NEW k \in 1 .. n PROVE Awaits(k)'
  <2>1. PICK d \in Path : d = frames[k].dir
    BY FrameFacts
  <2>2. Awaits(k)
    BY DEF Undisturbed
  <2>3. Len(d) = Len(target.path) + k - 1 /\ Standing(d)
    BY <2>1, <2>2 DEF Awaits
  <2>4. n \in 1 .. n /\ frames # <<>>
    BY <1>2
  <2>5. Len(frames[n].dir) = Len(target.path) + n - 1
    BY <2>4 DEF Undisturbed, Awaits
  <2>6. p # <<>> /\ Front(p) = frames[n].dir /\ Len(p) = Len(target.path) + n
    BY <1>2, <1>3, <2>4, <2>5, FrontAndLast
  <2>7. d # p /\ Standing(d)'
    BY <1>2, <2>3, <2>6 DEF Standing, Exists
  <2>8. UnderWay(k)' = UnderWay(k)
    BY DEF UnderWay
  <2>9. {Entry(q) : q \in Entries(d) \ {UnderWay(k)}}'
          = {Entry(q) : q \in Entries(d) \ {UnderWay(k)}}
    <3>1. (Entries(d) \ {UnderWay(k)})' = Entries(d) \ {UnderWay(k)}
      <4>1. Entries(d)' = Entries(d) \ {p}
        BY <1>2 DEF Entries
      <4>2. CASE k = n
        BY <1>1, <2>8, <4>1, <4>2 DEF UnderWay
      <4>3. CASE k # n
        <5>1. p \notin Entries(d)
          BY <1>2, <2>1, <2>3, <2>5, <2>6, <4>3 DEF Entries
        <5> QED
          BY <2>8, <4>1, <5>1
      <4> QED
        BY <4>2, <4>3
    <3>2. \A q \in Entries(d)' : Entry(q)' = Entry(q)
      BY <1>2 DEF Entries, Entry
    <3> QED
      BY <3>1, <3>2
  <2> QED
    BY <2>1, <2>2, <2>7, <2>8, <2>9 DEF Awaits
<1>5. PathStands'
  BY <1>1, <1>2 DEF PathStands, Exists
<1>6. Named'
  BY <1>2 DEF Named
<1> QED
  BY <1>4, <1>5, <1>6 DEF Undisturbed

LEMMA StepUndisturbed ==
  ASSUME RemoveInv, Undisturbed, [Next]_vars, LeftAlone'
  PROVE  Undisturbed'
<1>1. target' = target
  BY StepOfTheTree DEF RemoveInv
<1>2. PICK p \in Path : p = path
  BY DEF RemoveInv, RemoveTyped
<1>3. changes \in Nat /\ IsTree(tree)
  BY DEF RemoveInv, RemoveTyped
<1>4. CASE OpenDirectory
  BY <1>1, <1>4, OpeningUndisturbed
<1>5. CASE ReadDirectory
  BY <1>1, <1>5, ReadingUndisturbed
<1>6. CASE EndOfDirectory
  BY <1>1, <1>6, EndingUndisturbed
<1>7. CASE RemoveFile
  <2>1. pc = "unlink" /\ frames # <<>> /\ p # <<>> /\ Exists(p) /\ tree[p] # "directory"
    BY <1>2, <1>7 DEF RemoveFile, RemoveInv, PathFits, Undisturbed, PathStands
  <2>2. Place(p) = p
    BY <1>3, <2>1, PlaceOfPath
  <2>3. UnlinkOutcome(p) = "done"
    BY <2>1, <2>2 DEF UnlinkOutcome
  <2>4. tree' = Without(p) /\ pc' = "readdir" /\ UNCHANGED <<frames, path>>
    BY <1>2, <1>7, <2>2, <2>3 DEF RemoveFile, Unlink
  <2> QED
    BY <1>1, <1>2, <2>1, <2>4, TakingUndisturbed
<1>8. CASE RemoveDirectory
  <2>1. pc = "rmdir" /\ Standing(p) /\ Entries(p) = {}
    BY <1>2, <1>8 DEF RemoveDirectory, Undisturbed, PathStands
  <2>2. p # <<>>
    BY <1>2, <2>1 DEF RemoveInv, PathFits, Entered, Undisturbed
  <2>3. Place(p) = p
    BY <1>3, <2>1, <2>2, PlaceOfPath DEF Standing
  <2>4. RmdirOutcome(p) = "done"
    BY <2>1, <2>2, <2>3 DEF RmdirOutcome, Standing
  <2>5. /\ tree' = Without(p) /\ UNCHANGED <<frames, path>>
        /\ pc' = IF frames = <<>> THEN "returned" ELSE "readdir"
    BY <1>2, <1>8, <2>3, <2>4 DEF RemoveDirectory, Rmdir
  <2> QED
    BY <1>1, <1>2, <2>1, <2>5, TakingUndisturbed
<1>9. CASE ReadDirectoryFails \/ Fail
  BY <1>9 DEF ReadDirectoryFails, Fail, LeftAlone
<1>10. CASE OthersMake \/ OthersRemove
  BY <1>3, <1>10 DEF OthersMake, OthersRemove, LeftAlone
<1>11. CASE UNCHANGED vars
  <2>1. UNCHANGED <<tree, target, frames, pc, path>>
    BY <1>11 DEF vars
  <2>2. Named' /\ PathStands'
    BY <2>1 DEF Undisturbed, Named, PathStands, Standing, Exists, Entries, Top
  <2>3. ASSUME NEW k \in 1 .. Len(frames) PROVE Awaits(k)'
    <3>1. Awaits(k) /\ UnderWay(k)' = UnderWay(k)
      BY <2>1 DEF Undisturbed, UnderWay
    <3> QED
      BY <2>1, <3>1 DEF Awaits, Standing, Exists, Entry, Entries
  <2> QED
    BY <2>1, <2>2, <2>3 DEF Undisturbed
<1> QED
  BY <1>4, <1>5, <1>6, <1>7, <1>8, <1>9, <1>10, <1>11 DEF Next, RemoveHop

LEMMA UndisturbedInitially == Init /\ Removable => Undisturbed
<1> SUFFICES ASSUME Init, Removable PROVE Undisturbed
  OBVIOUS
<1>1. IsTree(tree) /\ tree \in Trees /\ frames = <<>> /\ pc = "opendir" /\ path = target.path
  BY RemoveAssumption DEF Init
<1>2. PICK p \in Targets : target = [path |-> p, place |-> Resolve(p)]
  BY DEF Init
<1>3. p \in Path /\ p # <<>> /\ Resolve(p) = p /\ Standing(p)
  BY <1>2, RemoveAssumption DEF Removable, IsDirectory, Standing, IsPath, Path
<1>4. ASSUME NEW q \in DOMAIN tree, Below(p, q) PROVE Last(q) \notin Dots \cup Unreadable
  <2>1. q \in Path
    BY <1>1 DEF IsTree, IsPath, Path
  <2>2. Len(p) <= Len(q) /\ Len(p) \in Nat \ {0} /\ Len(q) \in Nat
    BY <1>3, <1>4, <2>1, BelowPointwise, EmptySeq DEF Path
  <2>3. Len(q) \in 1 .. Len(q) /\ Last(q) = q[Len(q)]
    BY <2>2 DEF Last
  <2>4. q[Len(q)] \notin Dots
    BY <1>1, <2>3, RemoveAssumption
  <2>5. q[Len(q)] \notin Unreadable
    BY <1>2, <1>4, <2>3 DEF Removable
  <2> QED
    BY <2>3, <2>4, <2>5
<1>5. Named
  BY <1>2, <1>4 DEF Named
<1>6. PathStands
  BY <1>1, <1>2, <1>3 DEF PathStands
<1>7. Len(frames) = 0
  BY <1>1
<1> QED
  BY <1>2, <1>3, <1>5, <1>6, <1>7 DEF Undisturbed

(* What RemovesAll rests on: as long as no other client changes anything    *)
(* and no call fails for its own reasons, removeDirectoryRecursively never  *)
(* throws, whatever the directory holds, if its entries have names.  No     *)
(* listing has an entry that is gone, and no rmdir meets an entry.          *)
THEOREM LeftAloneNeverThrows == Spec /\ Removable => [](LeftAlone => pc # "threw")
<1>1. Init /\ Removable => RemoveInv /\ (LeftAlone => Undisturbed)
  BY RemoveInitially, UndisturbedInitially
<1>2. RemoveInv /\ [Next]_vars /\ LeftAlone' => LeftAlone
  BY DEF LeftAlone, RemoveInv, RemoveTyped, Next, RemoveHop, vars, OpenDirectory, ReadDirectory,
     EndOfDirectory, RemoveFile, RemoveDirectory, ReadDirectoryFails, Fail, OthersMake,
     OthersRemove
<1>3. RemoveInv /\ (LeftAlone => Undisturbed) /\ [Next]_vars
        => RemoveInv' /\ (LeftAlone => Undisturbed)'
  BY <1>2, RemoveStep, StepUndisturbed
<1>4. Undisturbed => pc # "threw"
  BY DEF Undisturbed, PathStands
<1> QED
  BY <1>1, <1>3, <1>4, PTL DEF Spec
=============================================================================
