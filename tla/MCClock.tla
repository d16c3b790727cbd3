------------------------------ MODULE MCClock ------------------------------
(* Clock for TLC: words of two bits, so that both halves of the counter    *)
(* change, and a product of three milliseconds overflows.                  *)
EXTENDS Clock
=============================================================================
