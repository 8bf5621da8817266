--------------------------- MODULE MC_Supervisor ---------------------------
(* main's supervision with the code's timeouts: wait(timeout=5) for the    *)
(* telemetry child, whose recv timeout is 3 s.                             *)
EXTENDS Supervisor

MC_Grace == 5
MC_RecvTimeout == 3

=============================================================================
