----------------------------- MODULE MCSetStat -----------------------------
(* Two tasks, of one client or of two, that set overlapping and separate    *)
(* fields; another program changes a time and the group.                    *)
EXTENDS SetStat

MCTasks == {"one", "two"}

MCClients == {[t \in MCTasks |-> 1], [t \in MCTasks |-> IF t = "one" THEN 1 ELSE 2]}

MCRequests ==
  {[t \in MCTasks |-> IF t = "one" THEN f ELSE g] :
     f \in {{"accessTime"}, {"size", "uid"}, {}},
     g \in {{"modifyTime"}, {"permissions", "gid"}, {"size"}, {"accessTime", "modifyTime"}}}

MCNotSent == {{}, {"accessTime", "modifyTime"}}

MCChanging == {"modifyTime", "gid"}
=============================================================================
