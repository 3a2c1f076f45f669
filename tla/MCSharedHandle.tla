--------------------------- MODULE MCSharedHandle ---------------------------
(* Two writers and two readers: the writers on one handle or on two, a      *)
(* reader on its own handle or on another task's.  Three bytes in chunks of *)
(* two; another program changes the size once.                              *)
EXTENDS SharedHandle

MCReaders == {"r", "s"}
MCWriters == {"w", "x"}
MCHandles == {1, 2, 3}

MCAssignments ==
  {[t \in Tasks |-> CASE t = "w" -> 1 [] t = "x" -> i [] t = "r" -> j [] t = "s" -> 3] :
     i \in {1, 2}, j \in {1, 2, 3}}
=============================================================================
