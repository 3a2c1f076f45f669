----------------------------- MODULE RemoteTree -----------------------------
(***************************************************************************)
(* The server's tree of files as the SFTP calls of libssh see it, and what *)
(* they report.  A path is a sequence of names below a directory that is   *)
(* always there, the empty path; tree maps each path that exists to what   *)
(* lies there.  All symbolic links point to LinkTarget.                    *)
(***************************************************************************)
EXTENDS Naturals, Sequences, SequencesExt

CONSTANT LinkTarget

VARIABLE tree

Kinds == {"directory", "regular", "symlink"}

(* What ends a call: done, an error a path explains, or any other failure.  *)
Outcomes == {"done", "noSuchFile", "fileAlreadyExists", "failure"}

IsPath(p) == p \in Seq(STRING)

IsTree(t) ==
  /\ \A p \in DOMAIN t : IsPath(p) /\ t[p] \in Kinds
  /\ <<>> \in DOMAIN t /\ t[<<>>] = "directory"
  /\ \A p \in DOMAIN t : \A k \in 0 .. Len(p) - 1 :
       SubSeq(p, 1, k) \in DOMAIN t /\ t[SubSeq(p, 1, k)] = "directory"

Exists(p) == p \in DOMAIN tree

IsLink(p) == Exists(p) /\ tree[p] = "symlink"

(* The lengths of the beginnings of p that are links: one at most, for      *)
(* nothing lies below a link.                                               *)
Links(p) == {k \in 1 .. Len(p) : IsLink(SubSeq(p, 1, k))}

(* The path meant by p: a link on the way is followed.                      *)
Resolve(p) ==
  IF Links(p) = {} THEN p ELSE LinkTarget \o SubSeq(p, Min(Links(p)) + 1, Len(p))

(* The path meant by p when p itself is not followed.                       *)
Place(p) == IF p = <<>> THEN p ELSE Append(Resolve(Front(p)), Last(p))

IsDirectory(p) == Exists(Resolve(p)) /\ tree[Resolve(p)] = "directory"

Entries(p) == {q \in DOMAIN tree : q # <<>> /\ Front(q) = p}

Below(p, q) == IsPrefix(p, q)

Without(p) == [q \in DOMAIN tree \ {p} |-> tree[q]]

With(p, kind) == [q \in DOMAIN tree \cup {p} |-> IF q = p THEN kind ELSE tree[q]]

-----------------------------------------------------------------------------
(* The calls: what each reports, and what it leaves of the tree             *)

(* sftp_mkdir: when the server refuses and the path exists, "already exists" *)
MkdirOutcome(p) ==
  IF p = <<>> \/ (IsDirectory(Front(p)) /\ Exists(Place(p))) THEN "fileAlreadyExists"
  ELSE IF IsDirectory(Front(p)) THEN "done" ELSE "noSuchFile"

Mkdir(p) == IF MkdirOutcome(p) = "done" THEN With(Place(p), "directory") ELSE tree

RmdirOutcome(p) ==
  LET q == Place(p) IN
  IF ~Exists(q) THEN "noSuchFile"
  ELSE IF q # <<>> /\ tree[q] = "directory" /\ Entries(q) = {} THEN "done" ELSE "failure"

Rmdir(p) == IF RmdirOutcome(p) = "done" THEN Without(Place(p)) ELSE tree

UnlinkOutcome(p) ==
  LET q == Place(p) IN
  IF ~Exists(q) THEN "noSuchFile" ELSE IF tree[q] # "directory" THEN "done" ELSE "failure"

Unlink(p) == IF UnlinkOutcome(p) = "done" THEN Without(Place(p)) ELSE tree

OpendirOutcome(p) ==
  IF IsDirectory(p) THEN "done" ELSE IF Exists(Resolve(p)) THEN "failure" ELSE "noSuchFile"
=============================================================================
