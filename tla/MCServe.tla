----------------------------------- MODULE MCServe ------------------------------------
(* Serve on a small instance: a process and the one that replaces it.        *)
EXTENDS Serve
=============================================================================
