---------------------------- MODULE MCAccessPoint ----------------------------
(* Two karts compete for two leasable addresses of a six-address space: 0  *)
(* is outside the subnet 1..5 (its network address is 1, the gateway 2, the *)
(* broadcast address 5), so 3 and 4 are handed out and 1 can only be asked  *)
(* for.  Two Starts may leave something behind.                            *)
EXTENDS AccessPoint

Addresses == 0..5
Leasable  == 1..5

=============================================================================
