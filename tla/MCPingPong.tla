----------------------------- MODULE MCPingPong -----------------------------
(* A short rally.                                                          *)
EXTENDS PingPong, TLC

Balls == 0..Last
=============================================================================
