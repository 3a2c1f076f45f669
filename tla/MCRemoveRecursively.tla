------------------------- MODULE MCRemoveRecursively -------------------------
(* A directory with a file, a link to a directory beside it, and another    *)
(* directory with a file in it; a directory with a name that is no UTF-8; a *)
(* link asked for as if it were a directory.                                *)
EXTENDS RemoveRecursively

MCLinkTarget == <<"d">>

MCTrees ==
  LET base == (<<>> :> "directory") @@ (<<"d">> :> "directory") @@ (<<"d", "f">> :> "regular")
              @@ (<<"a">> :> "directory")
  IN {base @@ (<<"a", "f">> :> "regular") @@ (<<"a", "l">> :> "symlink")
           @@ (<<"a", "b">> :> "directory") @@ (<<"a", "b", "f">> :> "regular"),
      base @@ (<<"a", "b">> :> "directory") @@ (<<"a", "b", "?">> :> "regular"),
      base @@ (<<"l">> :> "symlink")}

MCTargets == {<<"a">>, <<"l">>}

MCPaths == {<<"l">>, <<"a">>, <<"a", "f">>, <<"a", "b">>, <<"a", "b", "f">>}
=============================================================================
