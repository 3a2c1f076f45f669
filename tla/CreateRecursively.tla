-------------------------- MODULE CreateRecursively --------------------------
(***************************************************************************)
(* SFTPClient.createDirectoryRecursively, by several tasks at once over    *)
(* one server: a call of mkdir for each beginning of the path, each call a *)
(* hop to the actor.  Other clients change the tree between two calls.     *)
(***************************************************************************)
EXTENDS RemoteTree

CONSTANTS
  Tasks,
  Trees,     \* the trees that may be there at first
  Targets,   \* Targets: the assignments of a path to each task
  Paths      \* bound: where other clients make and remove things

ASSUME CreateAssumption ==
  /\ \A t \in Trees : IsTree(t)
  /\ \A f \in Targets : DOMAIN f = Tasks /\ \A t \in Tasks : IsPath(f[t])

VARIABLES
  target,    \* target[t]: the components of the path
  done,      \* done[t]: the components gone through
  result,    \* result[t]: "none", "returned", "threw"
  removed,   \* another client has removed something
  broken     \* a call failed for no reason in the tree

vars == <<tree, target, done, result, removed, broken>>

Init ==
  /\ tree \in Trees /\ target \in Targets
  /\ done = [t \in Tasks |-> 0] /\ result = [t \in Tasks |-> "none"]
  /\ removed = FALSE /\ broken = FALSE

partial(t) == SubSeq(target[t], 1, done[t] + 1)

(* Variant: whatever mkdir reports, the loop goes on. *)
PassesOverAny(outcome) == TRUE

(* Variant: mkdir must have made the directory. *)
PassesOverNone(outcome) == outcome = "done"

(* guard error.sftpError == .fileAlreadyExists else { throw error } *)
PassesOver(outcome) == outcome \in {"done", "fileAlreadyExists"}

CreateDirectory(t) ==
  /\ result[t] = "none" /\ done[t] < Len(target[t])
  /\ tree' = Mkdir(partial(t))
  /\ IF PassesOver(MkdirOutcome(partial(t)))
     THEN done' = [done EXCEPT ![t] = @ + 1] /\ UNCHANGED result
     ELSE result' = [result EXCEPT ![t] = "threw"] /\ UNCHANGED done
  /\ UNCHANGED <<target, removed, broken>>

Return(t) ==
  /\ result[t] = "none" /\ done[t] = Len(target[t])
  /\ result' = [result EXCEPT ![t] = "returned"]
  /\ UNCHANGED <<tree, target, done, removed, broken>>

(* Permissions, the connection: the call fails and the tree stays. *)
Fail(t) ==
  /\ result[t] = "none" /\ done[t] < Len(target[t])
  /\ IF PassesOver("failure")
     THEN done' = [done EXCEPT ![t] = @ + 1] /\ UNCHANGED result
     ELSE result' = [result EXCEPT ![t] = "threw"] /\ UNCHANGED done
  /\ broken' = TRUE
  /\ UNCHANGED <<tree, target, removed>>

Working == \E t \in Tasks : result[t] = "none"

OthersMake ==
  /\ Working
  /\ \E p \in Paths, kind \in {"directory", "regular"} :
       /\ IsDirectory(Front(p)) /\ ~Exists(Place(p))
       /\ tree' = With(Place(p), kind)
  /\ UNCHANGED <<target, done, result, removed, broken>>

OthersRemove ==
  /\ Working
  /\ \E p \in Paths : \/ UnlinkOutcome(p) = "done" /\ tree' = Unlink(p)
                      \/ RmdirOutcome(p) = "done" /\ tree' = Rmdir(p)
  /\ removed' = TRUE
  /\ UNCHANGED <<target, done, result, broken>>

Hop(t) == CreateDirectory(t) \/ Return(t)

Next == OthersMake \/ OthersRemove \/ \E t \in Tasks : Hop(t) \/ Fail(t)

(* The calls of each task get their turn on the actor. *)
Spec == Init /\ [][Next]_vars /\ \A t \in Tasks : WF_vars(Hop(t))

-----------------------------------------------------------------------------

Partials(p) == {SubSeq(p, 1, k) : k \in 1 .. Len(p)}

(* When the call returns the path is there, and everything on the way to it  *)
(* is a directory, however many tasks made overlapping paths at once.        *)
ReturnedMeansThere ==
  \A t \in Tasks : result[t] = "returned" /\ ~removed =>
    \A p \in Partials(target[t]) : Exists(Place(p)) /\ IsDirectory(Front(p))

InTheWay(p) == Exists(Place(p)) /\ ~IsDirectory(p)

(* Tasks that create overlapping paths do not make each other fail: each     *)
(* returns unless something that is no directory gets in the way of it, a    *)
(* call fails, or another client removes what was made.                      *)
CreatorsAgree ==
  \A t \in Tasks :
    <>(\/ result[t] = "returned" \/ removed \/ broken
       \/ \E p \in Partials(target[t]) : InTheWay(p))
=============================================================================
