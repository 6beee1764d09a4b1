----------------------------- MODULE MCServer -----------------------------
(***************************************************************************)
(* Small instances of Server for TLC.  Connection c1 may read two commands *)
(* after its greeting, so a pipelined reply is queued and then flushed by  *)
(* a breaking command; c2 only greets, enough to race the registry.          *)
(***************************************************************************)
EXTENDS Server

CONSTANTS l1, c1, c2

MCMaxReplies == [c \in Conns |-> IF c = c1 THEN 3 ELSE 1]

=============================================================================
