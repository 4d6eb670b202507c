------------------------------ MODULE MCAccess ------------------------------
(* Two sessions that may challenge the run's scopes at the same time, two
   step-ups between them, two reauthorizations of a request, and refresh
   tokens that are replaced once. *)
EXTENDS Access
=============================================================================
