---------------------------- MODULE MCSSHSession ----------------------------
(* SSHSession for TLC: two SFTP sessions, two files on the first and a      *)
(* directory on the second, requests on the first file.                     *)
EXTENDS SSHSession, TLC

CONSTANTS k1, c1, s1, s2, f1, f2, d1, a1, a2

MCsftpId == (f1 :> s1) @@ (f2 :> s2) @@ (d1 :> s2)
MCfileId == (a1 :> f1) @@ (a2 :> f1)

(* The two requests on f1 differ in nothing. *)
Symmetry == Permutations({a1, a2})
=============================================================================
