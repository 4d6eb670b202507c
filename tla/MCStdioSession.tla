--------------------------- MODULE MCStdioSession ---------------------------
(* Sessions of at most MaxRequests requests against one child process. *)
EXTENDS StdioSession
=============================================================================
