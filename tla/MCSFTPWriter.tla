---------------------------- MODULE MCSFTPWriter ----------------------------
(* Thirteen bytes in chunks of two, so that the queue of three fills, makes  *)
(* room and ends with a short chunk.  The caller asks for more than the      *)
(* server's limit allows.                                                    *)
EXTENDS SFTPWriter
=============================================================================
