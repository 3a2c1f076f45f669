--------------------------- MODULE MCSFTPDownload ---------------------------
(* Three requests in flight over a file of at most eight bytes, buffers of  *)
(* two bytes; the whole file is asked for.                                  *)
EXTENDS SFTPDownload
=============================================================================
