---------------------------- MODULE MCRspServer ----------------------------
(* Small instances of the GDB server for TLC. *)
EXTENDS RspServer

MCAddrs == 0 .. 1
MCFaults == [a \in MCAddrs |-> IF a = 1 THEN {"BUSEE", "other"} ELSE {}]
MCRequests == {"?", "c", "s", "D", "P", "G", "M", "Z", "z", "R"}
=============================================================================
