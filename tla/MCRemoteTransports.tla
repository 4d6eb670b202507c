------------------------- MODULE MCRemoteTransports -------------------------
(* SSE: two requests, one frame in the channel, one in the stash, a budget one
   frame can exceed.  Streams: four bytes, which hold an event after a byte
   order mark, or two data lines with a CRLF between them, cut anywhere.  HTTP:
   three requests, so that a tool is listed twice before it is called.  The control
   channel: frames both ends take, one that send refuses, one only the reader
   refuses. *)
EXTENDS RemoteTransports

MCSize == <<2, 4, 1, 3>>
=============================================================================
