----------------------------- MODULE MCNetBoot ------------------------------
(* Small instances of the boot over the network for TLC. *)
EXTENDS NetBoot

MCPorts == 1 .. 3
=============================================================================
