---------------------------- MODULE MCSFTPReader ----------------------------
(* Four requests, three of them in flight at most, for the bytes [1, 8) of  *)
(* a file of at most nine bytes, in buffers of two: the file ends before,   *)
(* inside or behind the range, and the last request is a short one.         *)
EXTENDS SFTPReader
=============================================================================
