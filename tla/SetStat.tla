------------------------------- MODULE SetStat -------------------------------
(***************************************************************************)
(* SSHSession.setStat: the attributes of a remote file are read, those     *)
(* given are replaced, and written back.  The protocol writes the owner    *)
(* and the group, and the two times, only together.  Both requests belong  *)
(* to one method of the actor, so tasks of one client take turns; another  *)
(* client, of this library or not, may come between them.                  *)
(*                                                                         *)
(* A value of an attribute is the name of whoever wrote it.                *)
(***************************************************************************)
EXTENDS Naturals

CONSTANTS
  Tasks,
  Clients,    \* clients[t]: which actor serves t; the possible assignments
  Requests,   \* what may be given: functions from Tasks to sets of fields
  NotSent,    \* sets of fields a server may leave out of what it reports
  Other,      \* another program that changes the file
  Changing    \* bound: the fields it changes

Owner == {"uid", "gid"}
Times == {"accessTime", "modifyTime"}
Fields == {"size", "permissions"} \cup Owner \cup Times

Absent == "0"      \* what libssh has for a field the server left out
Original == "original"

ASSUME SetStatAssumption ==
  /\ Requests \subseteq [Tasks -> SUBSET Fields]
  /\ \A s \in NotSent : s \subseteq Fields
  /\ Changing \subseteq Fields
  /\ Absent \notin Tasks /\ Original \notin Tasks /\ Other \notin Tasks
  /\ Other \notin {Absent, Original}

VARIABLES
  client,      \* client[t]
  given,       \* given[t]: the fields task t sets
  unfit,       \* tasks that give a time before 1970, or after 2106
  omitted,     \* the fields the server leaves out
  attributes,  \* the file's attributes, at the server
  read,        \* read[t]: what stat brought
  pc,          \* pc[t]: "stat", "setstat", "returned", "threw", "trapped"
  overtaken    \* overtaken[t]: fields changed by others since t's stat

vars == <<client, given, unfit, omitted, attributes, read, pc, overtaken>>

Init ==
  /\ client \in Clients /\ given \in Requests /\ omitted \in NotSent
  /\ unfit \in SUBSET {t \in Tasks : given[t] \cap Times # {}}
  /\ attributes = [f \in Fields |-> Original]
  /\ read = [t \in Tasks |-> attributes]
  /\ pc = [t \in Tasks |-> "stat"]
  /\ overtaken = [t \in Tasks |-> {}]

Running == \A t \in Tasks : pc[t] # "trapped"

(* Variant: the method awaits between its two requests. *)
HasActorAwaiting(t) == TRUE

(* No other task is inside the method, on the same actor. *)
HasActor(t) ==
  \A u \in Tasks \ {t} : pc[u] = "setstat" => client[u] # client[t]

Stat(t) ==
  /\ pc[t] = "stat" /\ HasActor(t)
  /\ read' = [read EXCEPT ![t] = [f \in Fields |-> IF f \in omitted THEN Absent ELSE attributes[f]]]
  /\ pc' = [pc EXCEPT ![t] = "setstat"]
  /\ overtaken' = [overtaken EXCEPT ![t] = {}]
  /\ UNCHANGED <<client, given, unfit, omitted, attributes>>

StatFails(t) ==
  /\ pc[t] = "stat" /\ HasActor(t)
  /\ pc' = [pc EXCEPT ![t] = "threw"]
  /\ UNCHANGED <<client, given, unfit, omitted, attributes, read, overtaken>>

(* The flags: what is given, and what the protocol ties to it *)
Flagged(fields) ==
  fields \cup UNION {pair \in {Owner, Times} : pair \cap fields # {}}

(* Variant: what was not given is not filled in. *)
SentWithoutPartner(t, f) == IF f \in given[t] THEN t ELSE Absent

(* The value sent for a field *)
Sent(t, f) == IF f \in given[t] THEN t ELSE read[t][f]

(* The server stores the fields of some set; the other tasks are overtaken. *)
Store(t, fields) ==
  /\ attributes' = [f \in Fields |-> IF f \in fields THEN Sent(t, f) ELSE attributes[f]]
  /\ overtaken' = [u \in Tasks |-> IF u = t THEN overtaken[u] ELSE overtaken[u] \cup fields]

SetAttributes(t) ==
  /\ pc[t] = "setstat" /\ t \notin unfit
  /\ Store(t, Flagged(given[t]))
  /\ pc' = [pc EXCEPT ![t] = "returned"]
  /\ UNCHANGED <<client, given, unfit, omitted, read>>

(* A server that refuses may have stored some of it. *)
SetAttributesFails(t) ==
  /\ pc[t] = "setstat" /\ t \notin unfit
  /\ \E fields \in SUBSET Flagged(given[t]) : Store(t, fields)
  /\ pc' = [pc EXCEPT ![t] = "threw"]
  /\ UNCHANGED <<client, given, unfit, omitted, read>>

(* UInt32 of a time that does not fit 32 bits *)
Trap(t) ==
  /\ pc[t] = "setstat" /\ t \in unfit
  /\ pc' = [pc EXCEPT ![t] = "trapped"]
  /\ UNCHANGED <<client, given, unfit, omitted, attributes, read, overtaken>>

OtherChanges ==
  /\ \E f \in Changing :
       /\ attributes[f] # Other
       /\ attributes' = [attributes EXCEPT ![f] = Other]
       /\ overtaken' = [t \in Tasks |-> overtaken[t] \cup {f}]
  /\ UNCHANGED <<client, given, unfit, omitted, read, pc>>

Next ==
  /\ Running
  /\ \/ OtherChanges
     \/ \E t \in Tasks : \/ Stat(t) \/ StatFails(t)
                         \/ SetAttributes(t) \/ SetAttributesFails(t) \/ Trap(t)

Spec == Init /\ [][Next]_vars

-----------------------------------------------------------------------------

Exclusive ==
  \A t, u \in Tasks : pc[t] = "setstat" /\ pc[u] = "setstat" /\ t # u => client[t] # client[u]

(* No two tasks of one client are between their two requests.                *)
TypeOK ==
  /\ client \in Clients /\ given \in Requests /\ omitted \in NotSent /\ unfit \subseteq Tasks
  /\ attributes \in [Fields -> Tasks \cup {Original, Absent, Other}]
  /\ read \in [Tasks -> [Fields -> Tasks \cup {Original, Absent, Other}]]
  /\ pc \in [Tasks -> {"stat", "setstat", "returned", "threw", "trapped"}]
  /\ overtaken \in [Tasks -> SUBSET Fields]
  /\ Exclusive

(* A call changes, besides what it was given, only the field tied to one of  *)
(* these, and that only if it was changed between the two requests or the    *)
(* server does not report it: everything else stays, also when it fails.     *)
ChangesOnlyWhatItMust ==
  [][\A t \in Tasks : pc'[t] # pc[t] =>
       \A f \in Fields : attributes'[f] # attributes[f] =>
         \/ f \in given[t]
         \/ f \in Flagged(given[t]) /\ f \in overtaken[t] \cup omitted]_vars

(* Tasks of one client never undo each other's changes: what one has set     *)
(* stays set, unless the other was given the same field, another program     *)
(* changes it, or the server leaves it out of its reports.                   *)
OneClientLosesNothing ==
  (\A t, u \in Tasks : client[t] = client[u]) =>
    \A t \in Tasks : pc[t] = "returned" =>
      \A f \in given[t] : \/ attributes[f] \in {t, Other}
                          \/ f \in omitted
                          \/ \E u \in Tasks \ {t} : f \in given[u]
=============================================================================
