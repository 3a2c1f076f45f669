---------------------------- MODULE MCSSHClient -----------------------------
(* SSHClient for TLC: one key, two execute() calls, two SFTP sessions, a    *)
(* file with two requests on one and a directory on the other.              *)
EXTENDS SSHClient, TLC

CONSTANTS k1, c1, c2, s1, s2, f1, d1, a1, a2

MCsftpId == (f1 :> s1) @@ (d1 :> s2)
MCfileId == (a1 :> f1) @@ (a2 :> f1)

(* The calls, and the requests, differ in nothing. *)
Symmetry == Permutations({a1, a2}) \cup Permutations({c1, c2})
=============================================================================
