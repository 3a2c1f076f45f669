---------------------------- MODULE MCSSHExecute ----------------------------
EXTENDS SSHExecute

MCTasks == {"body", "second"}

(* execute(_:) beside another user of the actor; bodies of a caller that     *)
(* read first, or read the streams from two tasks.                           *)
MCBodies ==
  {[t \in MCTasks |-> IF t = "body" THEN StatusFirst ELSE <<"other">>],
   [t \in MCTasks |-> IF t = "body" THEN <<"stdout", "stderr", "status">> ELSE <<"other">>],
   [t \in MCTasks |-> IF t = "body" THEN <<"stdout", "status">> ELSE <<"stderr">>]}

MCEndings ==
  {[code |-> c, signal |-> "none"] : c \in {-1, 0, 255, 256}}
  \cup {[code |-> -1, signal |-> "KILL"]}
=============================================================================
