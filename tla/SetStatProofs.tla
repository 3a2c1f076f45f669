---------------------------- MODULE SetStatProofs ----------------------------
(* What setStat may undo, for any tasks, clients and requests.              *)
EXTENDS SetStat, TLAPS

Value == Tasks \cup {Original, Absent, Other}

(* What a task between its two requests holds is what the server has, but   *)
(* for the fields changed meanwhile and those the server does not tell.     *)
ReadIsCurrent ==
  \A t \in Tasks : pc[t] = "setstat" =>
    \A f \in Fields : f \notin overtaken[t] \cup omitted => read[t][f] = attributes[f]

Escapes(t, f) == f \in omitted \/ \E u \in Tasks \ {t} : f \in given[u]

(* With one client, whoever is between its two requests has seen what those *)
(* that have returned have set.                                             *)
SetIsSeen ==
  (\A t, u \in Tasks : client[t] = client[u]) =>
    \A t \in Tasks : pc[t] = "returned" =>
      \A f \in given[t] :
        \/ Escapes(t, f)
        \/ /\ attributes[f] \in {t, Other}
           /\ \A u \in Tasks : pc[u] = "setstat" => read[u][f] \in {t, Other}

Inv == TypeOK /\ ReadIsCurrent /\ SetIsSeen

-----------------------------------------------------------------------------

(* What is sent is a value.                                                 *)
LEMMA SentIsValue ==
  ASSUME TypeOK, NEW t \in Tasks, NEW f \in Fields
  PROVE  Sent(t, f) \in Value
  BY DEF TypeOK, Sent, Value

(* A request stores nothing but the fields it flags.                        *)
LEMMA FlaggedAreFields ==
  ASSUME NEW fields \in SUBSET Fields
  PROVE  fields \subseteq Flagged(fields) /\ Flagged(fields) \subseteq Fields
  BY DEF Flagged, Owner, Times, Fields

(* A task is given fields.                                                  *)
LEMMA GivenAreFields ==
  ASSUME TypeOK, NEW t \in Tasks
  PROVE  given[t] \in SUBSET Fields
  BY SetStatAssumption DEF TypeOK

(* The types hold at first.                                                 *)
LEMMA InitInv == Init => Inv
<1> SUFFICES ASSUME Init PROVE Inv
  OBVIOUS
<1>1. attributes \in [Fields -> Value] /\ read \in [Tasks -> [Fields -> Value]]
  BY DEF Init, Value
<1>2. TypeOK
  BY <1>1 DEF Init, TypeOK, Value, Exclusive
<1>3. ReadIsCurrent /\ SetIsSeen
  BY DEF Init, ReadIsCurrent, SetIsSeen
<1> QED
  BY <1>2, <1>3 DEF Inv

-----------------------------------------------------------------------------
(* The write of a task, whole or in part                                    *)

(* Storing some of the flagged fields and leaving the method keeps the      *)
(* invariant, whether the call returns or throws.                           *)
LEMMA StoreInv ==
  ASSUME Inv, NEW t \in Tasks, pc[t] = "setstat",
         NEW fields \in SUBSET Flagged(given[t]), Store(t, fields),
         NEW end \in {"returned", "threw"},
         pc' = [pc EXCEPT ![t] = end],
         end = "returned" => fields = Flagged(given[t]),
         UNCHANGED <<client, given, unfit, omitted, read>>
  PROVE  Inv'
<1> USE DEF Inv
<1>1. given[t] \in SUBSET Fields /\ fields \in SUBSET Fields
  BY GivenAreFields, FlaggedAreFields
<1>2. UNCHANGED client /\ UNCHANGED given /\ UNCHANGED unfit /\ UNCHANGED omitted /\ UNCHANGED read
  OBVIOUS
<1>3. /\ attributes' = [f \in Fields |-> IF f \in fields THEN Sent(t, f) ELSE attributes[f]]
      /\ overtaken' = [u \in Tasks |-> IF u = t THEN overtaken[u] ELSE overtaken[u] \cup fields]
  BY DEF Store
<1>4. pc \in [Tasks -> {"stat", "setstat", "returned", "threw", "trapped"}]
  BY DEF TypeOK
<1>5. /\ pc'[t] = end
      /\ \A u \in Tasks \ {t} : pc'[u] = pc[u]
      /\ \A u \in Tasks : pc'[u] = "setstat" => u # t /\ pc[u] = "setstat"
  BY <1>4
<1>6. TypeOK'
  <2>1. attributes' \in [Fields -> Value]
    BY <1>3, SentIsValue DEF TypeOK, Value
  <2>2. overtaken' \in [Tasks -> SUBSET Fields]
    BY <1>1, <1>3 DEF TypeOK
  <2>3. pc' \in [Tasks -> {"stat", "setstat", "returned", "threw", "trapped"}]
    BY <1>4
  <2>4. Exclusive'
    BY <1>2, <1>5 DEF TypeOK, Exclusive
  <2> QED
    BY <1>2, <2>1, <2>2, <2>3, <2>4 DEF TypeOK, Value
<1>7. ReadIsCurrent'
  <2> SUFFICES ASSUME NEW u \in Tasks, pc'[u] = "setstat", NEW f \in Fields,
                      f \notin overtaken'[u] \cup omitted
               PROVE  read[u][f] = attributes'[f]
    BY <1>2 DEF ReadIsCurrent
  <2>1. u # t /\ pc[u] = "setstat"
    BY <1>5
  <2>2. f \notin fields /\ f \notin overtaken[u]
    BY <1>3, <2>1
  <2> QED
    BY <1>3, <2>1, <2>2 DEF ReadIsCurrent
<1>8. SetIsSeen'
  <2> SUFFICES ASSUME \A v, w \in Tasks : client[v] = client[w],
                      NEW v \in Tasks, pc'[v] = "returned", NEW f \in given[v],
                      ~Escapes(v, f)
               PROVE  /\ attributes'[f] \in {v, Other}
                      /\ \A u \in Tasks : pc'[u] = "setstat" => read[u][f] \in {v, Other}
    BY <1>2 DEF SetIsSeen, Escapes
  <2>1. \A u \in Tasks : pc'[u] # "setstat"
    BY <1>5 DEF TypeOK, Exclusive
  <2>2. f \in Fields
    BY GivenAreFields
  <2>3. CASE v = t
    <3>1. f \in fields
      BY <1>1, <1>5, <2>3, FlaggedAreFields
    <3> QED
      BY <1>3, <2>1, <2>2, <2>3, <3>1 DEF Sent
  <2>4. CASE v # t
    <3>1. pc[v] = "returned"
      BY <1>5, <2>4
    <3>2. attributes[f] \in {v, Other} /\ read[t][f] \in {v, Other}
      BY <3>1 DEF SetIsSeen
    <3>3. f \notin given[t]
      BY <2>4 DEF Escapes
    <3> QED
      BY <1>3, <2>1, <2>2, <3>2, <3>3 DEF Sent
  <2> QED
    BY <2>3, <2>4
<1> QED
  BY <1>6, <1>7, <1>8

(* A task that leaves the method without a write keeps the invariant.       *)
LEMMA LeaveInv ==
  ASSUME Inv, NEW t \in Tasks, NEW end \in {"threw", "trapped"},
         pc' = [pc EXCEPT ![t] = end],
         UNCHANGED <<client, given, unfit, omitted, attributes, read, overtaken>>
  PROVE  Inv'
<1> USE DEF Inv
<1>1. /\ UNCHANGED client /\ UNCHANGED given /\ UNCHANGED unfit /\ UNCHANGED omitted
      /\ UNCHANGED attributes /\ UNCHANGED read /\ UNCHANGED overtaken
  OBVIOUS
<1>2. /\ pc' \in [Tasks -> {"stat", "setstat", "returned", "threw", "trapped"}]
      /\ \A u \in Tasks : pc'[u] \in {"setstat", "returned"} => pc[u] = pc'[u]
  BY DEF TypeOK
<1>3. TypeOK'
  BY <1>1, <1>2 DEF TypeOK, Exclusive
<1>4. ReadIsCurrent'
  BY <1>1, <1>2 DEF ReadIsCurrent
<1>5. SetIsSeen'
  BY <1>1, <1>2 DEF SetIsSeen, Escapes
<1> QED
  BY <1>3, <1>4, <1>5

(* The first request: what it brings is what the server has.                *)
LEMMA StatInv ==
  ASSUME Inv, NEW t \in Tasks, Stat(t)
  PROVE  Inv'
<1> USE DEF Inv
<1>1. UNCHANGED client /\ UNCHANGED given /\ UNCHANGED unfit /\ UNCHANGED omitted /\ UNCHANGED attributes
  BY DEF Stat
<1>2. /\ read' = [read EXCEPT ![t] = [f \in Fields |-> IF f \in omitted THEN Absent ELSE attributes[f]]]
      /\ pc' = [pc EXCEPT ![t] = "setstat"]
      /\ overtaken' = [overtaken EXCEPT ![t] = {}]
  BY DEF Stat
<1>3. /\ pc'[t] = "setstat"
      /\ \A u \in Tasks \ {t} : pc'[u] = pc[u] /\ read'[u] = read[u] /\ overtaken'[u] = overtaken[u]
      /\ overtaken'[t] = {}
      /\ \A f \in Fields : read'[t][f] = IF f \in omitted THEN Absent ELSE attributes[f]
  BY <1>2 DEF TypeOK
<1>4. TypeOK'
  <2>1. [f \in Fields |-> IF f \in omitted THEN Absent ELSE attributes[f]] \in [Fields -> Value]
    BY DEF TypeOK, Value
  <2>2. read' \in [Tasks -> [Fields -> Value]]
    BY <1>2, <2>1 DEF TypeOK, Value
  <2>3. /\ pc' \in [Tasks -> {"stat", "setstat", "returned", "threw", "trapped"}]
        /\ overtaken' \in [Tasks -> SUBSET Fields]
    BY <1>2 DEF TypeOK
  <2>4. Exclusive'
    BY <1>1, <1>3 DEF TypeOK, Exclusive, Stat, HasActor
  <2> QED
    BY <1>1, <2>2, <2>3, <2>4 DEF TypeOK, Value
<1>5. ReadIsCurrent'
  <2> SUFFICES ASSUME NEW u \in Tasks, pc'[u] = "setstat", NEW f \in Fields,
                      f \notin overtaken'[u] \cup omitted
               PROVE  read'[u][f] = attributes[f]
    BY <1>1 DEF ReadIsCurrent
  <2> QED
    BY <1>3 DEF ReadIsCurrent
<1>6. SetIsSeen'
  <2> SUFFICES ASSUME \A v, w \in Tasks : client[v] = client[w],
                      NEW v \in Tasks, pc'[v] = "returned", NEW f \in given[v],
                      ~Escapes(v, f)
               PROVE  /\ attributes[f] \in {v, Other}
                      /\ \A u \in Tasks : pc'[u] = "setstat" => read'[u][f] \in {v, Other}
    BY <1>1 DEF SetIsSeen, Escapes
  <2>1. v # t /\ pc[v] = "returned"
    BY <1>3
  <2>2. /\ attributes[f] \in {v, Other}
        /\ \A u \in Tasks : pc[u] = "setstat" => read[u][f] \in {v, Other}
    BY <2>1 DEF SetIsSeen
  <2>3. f \in Fields /\ f \notin omitted
    BY GivenAreFields DEF Escapes
  <2> QED
    BY <1>3, <2>2, <2>3
<1> QED
  BY <1>4, <1>5, <1>6

(* Another program's change overtakes everybody.                            *)
LEMMA OtherInv ==
  ASSUME Inv, OtherChanges
  PROVE  Inv'
<1> USE DEF Inv
<1>1. /\ UNCHANGED client /\ UNCHANGED given /\ UNCHANGED unfit /\ UNCHANGED omitted
      /\ UNCHANGED read /\ UNCHANGED pc
  BY DEF OtherChanges
<1>2. PICK g \in Changing :
        /\ attributes' = [attributes EXCEPT ![g] = Other]
        /\ overtaken' = [t \in Tasks |-> overtaken[t] \cup {g}]
  BY DEF OtherChanges
<1>3. g \in Fields
  BY SetStatAssumption
<1>4. TypeOK'
  <2>1. attributes' \in [Fields -> Value] /\ overtaken' \in [Tasks -> SUBSET Fields]
    BY <1>2, <1>3 DEF TypeOK, Value
  <2> QED
    BY <1>1, <2>1 DEF TypeOK, Exclusive, Value
<1>5. \A f \in Fields : attributes'[f] = IF f = g THEN Other ELSE attributes[f]
  BY <1>2 DEF TypeOK
<1>6. ReadIsCurrent'
  BY <1>1, <1>2, <1>5 DEF ReadIsCurrent
<1>7. SetIsSeen'
  <2> SUFFICES ASSUME \A v, w \in Tasks : client[v] = client[w],
                      NEW v \in Tasks, pc[v] = "returned", NEW f \in given[v],
                      ~Escapes(v, f)
               PROVE  /\ attributes'[f] \in {v, Other}
                      /\ \A u \in Tasks : pc[u] = "setstat" => read[u][f] \in {v, Other}
    BY <1>1 DEF SetIsSeen, Escapes
  <2>1. f \in Fields
    BY GivenAreFields
  <2>2. /\ attributes[f] \in {v, Other}
        /\ \A u \in Tasks : pc[u] = "setstat" => read[u][f] \in {v, Other}
    BY DEF SetIsSeen
  <2> QED
    BY <1>5, <2>1, <2>2
<1> QED
  BY <1>4, <1>6, <1>7

-----------------------------------------------------------------------------

(* Every step keeps the invariant.                                          *)
LEMMA NextInv == Inv /\ [Next]_vars => Inv'
<1> SUFFICES ASSUME Inv, [Next]_vars PROVE Inv'
  OBVIOUS
<1>1. CASE OtherChanges
  BY <1>1, OtherInv
<1>2. ASSUME NEW t \in Tasks, Stat(t) PROVE Inv'
  BY <1>2, StatInv
<1>3. ASSUME NEW t \in Tasks, StatFails(t) PROVE Inv'
  <2>1. /\ pc' = [pc EXCEPT ![t] = "threw"]
        /\ UNCHANGED <<client, given, unfit, omitted, attributes, read, overtaken>>
    BY <1>3 DEF StatFails
  <2> QED
    BY <2>1, LeaveInv
<1>4. ASSUME NEW t \in Tasks, SetAttributes(t) PROVE Inv'
  <2>1. /\ pc[t] = "setstat" /\ Store(t, Flagged(given[t]))
        /\ pc' = [pc EXCEPT ![t] = "returned"]
        /\ UNCHANGED <<client, given, unfit, omitted, read>>
    BY <1>4 DEF SetAttributes
  <2> QED
    BY <2>1, StoreInv
<1>5. ASSUME NEW t \in Tasks, SetAttributesFails(t) PROVE Inv'
  <2>1. PICK fields \in SUBSET Flagged(given[t]) : Store(t, fields)
    BY <1>5 DEF SetAttributesFails
  <2>2. /\ pc[t] = "setstat"
        /\ pc' = [pc EXCEPT ![t] = "threw"]
        /\ UNCHANGED <<client, given, unfit, omitted, read>>
    BY <1>5 DEF SetAttributesFails
  <2> QED
    BY <2>1, <2>2, StoreInv
<1>6. ASSUME NEW t \in Tasks, Trap(t) PROVE Inv'
  <2>1. /\ pc' = [pc EXCEPT ![t] = "trapped"]
        /\ UNCHANGED <<client, given, unfit, omitted, attributes, read, overtaken>>
    BY <1>6 DEF Trap
  <2> QED
    BY <2>1, LeaveInv
<1>7. CASE UNCHANGED vars
  <2>1. /\ UNCHANGED client /\ UNCHANGED given /\ UNCHANGED unfit /\ UNCHANGED omitted
        /\ UNCHANGED attributes /\ UNCHANGED read /\ UNCHANGED pc /\ UNCHANGED overtaken
    BY <1>7 DEF vars
  <2> QED
    BY <2>1 DEF Inv, TypeOK, Exclusive, ReadIsCurrent, SetIsSeen, Escapes
<1> QED
  BY <1>1, <1>2, <1>3, <1>4, <1>5, <1>6, <1>7 DEF Next

(* The invariant holds throughout.                                          *)
LEMMA InvHolds == Spec => []Inv
  BY InitInv, NextInv, PTL DEF Spec

(* The state of setStat has its type, and no two tasks of one client are    *)
(* ever between their two requests.                                         *)
THEOREM SetStatTypeCorrect == Spec => []TypeOK
<1>1. Inv => TypeOK
  BY DEF Inv
<1> QED
  BY <1>1, InvHolds, PTL

(* Tasks of one client never undo each other's changes.                     *)
THEOREM OneClientIsSafe == Spec => []OneClientLosesNothing
<1>1. Inv => OneClientLosesNothing
  BY DEF Inv, SetIsSeen, OneClientLosesNothing, Escapes
<1> QED
  BY <1>1, InvHolds, PTL

(* A write of some of the flagged fields changes, besides the fields given, *)
(* only what was overtaken or not told.                                     *)
LEMMA StoreChangesLittle ==
  ASSUME Inv, NEW t \in Tasks, pc[t] = "setstat",
         NEW fields \in SUBSET Flagged(given[t]), Store(t, fields),
         NEW f \in Fields, attributes'[f] # attributes[f]
  PROVE  \/ f \in given[t]
         \/ f \in Flagged(given[t]) /\ f \in overtaken[t] \cup omitted
<1>1. f \in fields /\ Sent(t, f) # attributes[f]
  BY DEF Store
<1>2. f \notin given[t] => read[t][f] # attributes[f]
  BY <1>1 DEF Sent
<1> QED
  BY <1>1, <1>2 DEF Inv, ReadIsCurrent

(* A step of a call changes only what it must, whatever others do.          *)
LEMMA StepChangesLittle ==
  ASSUME Inv, [Next]_vars, NEW t \in Tasks, pc'[t] # pc[t],
         NEW f \in Fields, attributes'[f] # attributes[f]
  PROVE  \/ f \in given[t]
         \/ f \in Flagged(given[t]) /\ f \in overtaken[t] \cup omitted
<1>1. ~OtherChanges /\ ~UNCHANGED vars
  BY DEF OtherChanges, vars
<1>2. PICK u \in Tasks : Stat(u) \/ StatFails(u) \/ SetAttributes(u) \/ SetAttributesFails(u) \/ Trap(u)
  BY <1>1 DEF Next
<1>3. SetAttributes(u) \/ SetAttributesFails(u)
  BY <1>2 DEF Stat, StatFails, Trap
<1>4. u = t
  BY <1>3 DEF Inv, TypeOK, SetAttributes, SetAttributesFails
<1>5. pc[t] = "setstat" /\ \E fields \in SUBSET Flagged(given[t]) : Store(t, fields)
  BY <1>3, <1>4 DEF SetAttributes, SetAttributesFails
<1> QED
  BY <1>5, StoreChangesLittle

(* What was not given stays, but for the field the protocol ties to one that *)
(* was, and that only when it changed under the call or is not told.        *)
THEOREM SetStatChangesLittle == Spec => ChangesOnlyWhatItMust
<1>1. Inv /\ [Next]_vars =>
        [\A t \in Tasks : pc'[t] # pc[t] =>
           \A f \in Fields : attributes'[f] # attributes[f] =>
             \/ f \in given[t]
             \/ f \in Flagged(given[t]) /\ f \in overtaken[t] \cup omitted]_vars
  BY StepChangesLittle
<1> QED
  BY <1>1, InvHolds, PTL DEF Spec, ChangesOnlyWhatItMust
=============================================================================
