-------------------------- MODULE RemoveRecursively --------------------------
(***************************************************************************)
(* SFTPClient.removeDirectoryRecursively: open the directory, go through   *)
(* its entries, remove each, recursively if it is a directory, close it    *)
(* and remove it.  Every call is a hop to the actor and a request to the   *)
(* server; other clients change the tree between two, and make links too,  *)
(* outside of what links point to.                                         *)
(*                                                                         *)
(* A directory is listed as it was when it was opened, with what has been  *)
(* added since or without it.                                              *)
(***************************************************************************)
EXTENDS RemoteTree

CONSTANTS
  Trees, Targets,
  Paths,         \* bound: where other clients make and remove things
  MaxChanges,    \* bound: how many changes they make
  Unreadable     \* names that are not valid UTF-8

Dots == {".", ".."}

ASSUME RemoveAssumption ==
  /\ \A t \in Trees : IsTree(t)
  /\ \A t \in Trees : \A p \in DOMAIN t : \A k \in 1 .. Len(p) : p[k] \notin Dots
  /\ \A p \in Targets \cup Paths \cup {LinkTarget} : IsPath(p)
  /\ MaxChanges \in Nat

VARIABLES
  target,    \* the path asked for, and the place it meant then
  frames,    \* the directories open: the path, entries listed and not yet returned, names returned
  pc,        \* the next call: "opendir", "readdir", "unlink", "rmdir"; "returned", "threw"
  path,      \* its argument
  removed,   \* the places this removal has removed
  changes,   \* changes of other clients
  linked,    \* where they made links, whether these are still there or not
  broken     \* a call failed for no reason in the tree

vars == <<tree, target, frames, pc, path, removed, changes, linked, broken>>

Init ==
  /\ tree \in Trees
  /\ \E p \in Targets : target = [path |-> p, place |-> Resolve(p)]
  /\ frames = <<>> /\ pc = "opendir" /\ path = target.path
  /\ removed = {} /\ changes = 0 /\ linked = {} /\ broken = FALSE

Ended == pc \in {"returned", "threw"}

Top == Last(frames)

(* What sftp_readdir tells of a place: its name and the type of the entry itself *)
Entry(q) == [name |-> Last(q), type |-> tree[q]]

Listing(p) ==
  {Entry(q) : q \in Entries(Resolve(p))} \cup [name : Dots, type : {"directory"}]

(* Variant: a scope left by an error leaves its directory open. *)
ThrowLeavingOpen ==
  /\ pc' = "threw"
  /\ UNCHANGED <<frames, path>>

(* The error leaves every scope; each closes its directory. *)
Throw ==
  /\ pc' = "threw" /\ frames' = <<>>
  /\ UNCHANGED path

-----------------------------------------------------------------------------
(* The removal, call by call *)

OpenDirectory ==
  /\ pc = "opendir"
  /\ IF OpendirOutcome(path) = "done"
     THEN /\ frames' = Append(frames, [dir |-> path, rest |-> Listing(path), seen |-> {}])
          /\ pc' = "readdir" /\ UNCHANGED path
     ELSE Throw
  /\ UNCHANGED <<tree, target, removed, changes, linked, broken>>

(* Variant: the type is that of what a link points to. *)
TypeFollowed(e) ==
  IF e.type = "symlink" /\ IsDirectory(LinkTarget) THEN "directory" ELSE e.type

Type(e) == e.type

(* SFTPDirectory.read passes over the dots, the loop over what has no name. *)
Skipped(e) == e.name \in Dots \cup Unreadable

Returned(e) ==
  [frames EXCEPT ![Len(frames)] =
     [dir |-> Top.dir, rest |-> {d \in Top.rest : d.name # e.name},
      seen |-> Top.seen \cup {e.name}]]

(* Variant: a directory is removed like a file. *)
ReadDirectoryFlat ==
  /\ pc = "readdir"
  /\ \E e \in Top.rest \cup {d \in Listing(Top.dir) : d.name \notin Top.seen} :
       /\ frames' = Returned(e)
       /\ IF Skipped(e) THEN UNCHANGED <<pc, path>>
          ELSE pc' = "unlink" /\ path' = Append(Top.dir, e.name)
  /\ UNCHANGED <<tree, target, removed, changes, linked, broken>>

ReadDirectory ==
  /\ pc = "readdir"
  /\ \E e \in Top.rest \cup {d \in Listing(Top.dir) : d.name \notin Top.seen} :
       /\ frames' = Returned(e)
       /\ IF Skipped(e) THEN UNCHANGED <<pc, path>>
          ELSE /\ pc' = IF Type(e) = "directory" THEN "opendir" ELSE "unlink"
               /\ path' = Append(Top.dir, e.name)
  /\ UNCHANGED <<tree, target, removed, changes, linked, broken>>

(* sftp_readdir returns NULL at the end; the scope closes the directory. *)
EndDirectory ==
  /\ pc = "readdir"
  /\ frames' = Front(frames)
  /\ pc' = "rmdir" /\ path' = Top.dir

EndOfDirectory ==
  /\ EndDirectory
  /\ Top.rest \cap Listing(Top.dir) = {}
  /\ UNCHANGED <<tree, target, removed, changes, linked, broken>>

(* It returns NULL for an error as well, and nobody asks which. *)
ReadDirectoryFails ==
  /\ EndDirectory /\ broken' = TRUE
  /\ UNCHANGED <<tree, target, removed, changes, linked>>

RemoveFile ==
  /\ pc = "unlink"
  /\ IF UnlinkOutcome(path) = "done"
     THEN /\ pc' = "readdir" /\ removed' = removed \cup {Place(path)}
          /\ UNCHANGED <<frames, path>>
     ELSE Throw /\ UNCHANGED removed
  /\ tree' = Unlink(path)
  /\ UNCHANGED <<target, changes, linked, broken>>

(* Variant: what rmdir reports is not looked at. *)
RemoveDirectoryBlindly ==
  /\ pc = "rmdir"
  /\ pc' = IF frames = <<>> THEN "returned" ELSE "readdir"
  /\ tree' = Rmdir(path)
  /\ UNCHANGED <<target, frames, path, removed, changes, linked, broken>>

(* Variant: a directory that is not empty is gone through again. *)
RemoveDirectoryRetrying ==
  /\ pc = "rmdir"
  /\ IF RmdirOutcome(path) = "done"
     THEN /\ pc' = IF frames = <<>> THEN "returned" ELSE "readdir"
          /\ removed' = removed \cup {Place(path)}
     ELSE pc' = "opendir" /\ UNCHANGED removed
  /\ tree' = Rmdir(path)
  /\ UNCHANGED <<target, frames, path, changes, linked, broken>>

RemoveDirectory ==
  /\ pc = "rmdir"
  /\ IF RmdirOutcome(path) = "done"
     THEN /\ pc' = IF frames = <<>> THEN "returned" ELSE "readdir"
          /\ removed' = removed \cup {Place(path)}
          /\ UNCHANGED <<frames, path>>
     ELSE Throw /\ UNCHANGED removed
  /\ tree' = Rmdir(path)
  /\ UNCHANGED <<target, changes, linked, broken>>

(* Permissions, the connection: a call fails and the tree stays. *)
Fail ==
  /\ pc \in {"opendir", "unlink", "rmdir"}
  /\ Throw /\ broken' = TRUE
  /\ UNCHANGED <<tree, target, removed, changes, linked>>

-----------------------------------------------------------------------------
(* Other clients *)

(* A link may take the place of what a listing called a directory.           *)
OthersMake ==
  /\ ~Ended /\ changes < MaxChanges /\ changes' = changes + 1
  /\ \E p \in Paths, kind \in Kinds :
       /\ p = Place(p) /\ IsDirectory(Front(p)) /\ ~Exists(p)
       /\ kind = "symlink" => ~Below(LinkTarget, p)
       /\ tree' = With(p, kind)
       /\ linked' = IF kind = "symlink" THEN linked \cup {p} ELSE linked
  /\ UNCHANGED <<target, frames, pc, path, removed, broken>>

OthersRemove ==
  /\ ~Ended /\ changes < MaxChanges /\ changes' = changes + 1
  /\ \E p \in Paths : \/ UnlinkOutcome(p) = "done" /\ tree' = Unlink(p)
                      \/ RmdirOutcome(p) = "done" /\ tree' = Rmdir(p)
  /\ UNCHANGED <<target, frames, pc, path, removed, linked, broken>>

RemoveHop == OpenDirectory \/ ReadDirectory \/ EndOfDirectory \/ RemoveFile \/ RemoveDirectory

Next == RemoveHop \/ ReadDirectoryFails \/ Fail \/ OthersMake \/ OthersRemove

(* The calls of the removal get their turn on the actor. *)
Spec == Init /\ [][Next]_vars /\ WF_vars(RemoveHop)

-----------------------------------------------------------------------------

(* The directories open are a way down from the target, one handle a level,  *)
(* never deeper than the tree is, and none stays open after the end.         *)
TypeOK ==
  /\ IsTree(tree)
  /\ pc \in {"opendir", "readdir", "unlink", "rmdir", "returned", "threw"}
  /\ \A k \in 1 .. Len(frames) :
       IF k = 1 THEN frames[k].dir = target.path
       ELSE Front(frames[k].dir) = frames[k - 1].dir /\ Last(frames[k].dir) \notin Dots
  /\ pc = "readdir" => frames # <<>>
  /\ Ended => frames = <<>>
  /\ changes \in 0 .. MaxChanges /\ broken \in BOOLEAN

(* Over a link that somebody made while the removal ran: in the directory    *)
(* asked for, or on the way to it.                                           *)
OverNewLink(q) ==
  /\ Below(LinkTarget, q)
  /\ \E l \in linked : Below(target.path, l) \/ Below(l, target.path)

(* What lies outside of the directory asked for is removed over new links    *)
(* only.  A link that is listed is removed and what it points to stays; but  *)
(* the code opens by name what the listing called a directory, and follows   *)
(* the link that has taken its place.  The directory asked for is the path,  *)
(* or what it meant: they differ if the path leads over a link, and both may *)
(* lose entries if somebody puts a directory in the place of that link.      *)
OnlyNewLinksLeadAway ==
  \A q \in removed : Below(target.place, q) \/ Below(target.path, q) \/ OverNewLink(q)

(* The call returns only when nothing is left of the directory, although an  *)
(* error in a listing ends it like its last entry.                           *)
ReturnedMeansGone ==
  [][pc' = "returned" => \A q \in DOMAIN tree' : ~Below(target.path, q)]_vars

Removable ==
  /\ target.place = target.path /\ IsDirectory(target.path) /\ target.path # <<>>
  /\ \A q \in DOMAIN tree : Below(target.path, q) => \A k \in 1 .. Len(q) : q[k] \notin Unreadable

(* Left alone, a directory whose entries have names is removed whole.        *)
RemovesAll == Removable => <>(pc = "returned" \/ changes > 0 \/ broken)

(* However the tree is changed meanwhile, as long as the changes end, the    *)
(* removal ends.                                                             *)
Terminates == <>Ended
=============================================================================
