------------------------- MODULE MCCreateRecursively -------------------------
(* Two tasks whose paths overlap, over trees where nothing, part of the     *)
(* path, a file or a link is there at first.                                *)
EXTENDS CreateRecursively

MCTasks == {"one", "other"}

MCLinkTarget == <<"d">>

MCPaths == {<<"a">>, <<"a", "b">>, <<"d">>, <<"d", "b">>}

MCTrees ==
  LET t(f) == (<<>> :> "directory") @@ f IN
  {t(<<"d">> :> "directory"),
   t(<<"a">> :> "directory"),
   t(<<"a">> :> "regular"),
   t((<<"a">> :> "directory") @@ (<<"a", "b">> :> "regular")),
   t((<<"a">> :> "symlink") @@ (<<"d">> :> "directory")),
   t(<<"a">> :> "symlink")}

MCTargets ==
  {[t \in MCTasks |-> IF t = "one" THEN p ELSE q] :
     p \in {<<"a", "b", "c">>, <<>>}, q \in {<<"a", "b">>, <<"a", "b", "c">>, <<"d">>}}
=============================================================================
