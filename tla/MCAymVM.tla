------------------------------- MODULE MCAymVM -------------------------------
(***************************************************************************)
(* What the checked machines have in common: the table of the powers of    *)
(* two, and the constructors of instructions.                              *)
(***************************************************************************)
EXTENDS AymVMProps, MCCode

MCPow2 == [i \in 0 .. WordBits |-> 2 ^ i]
=============================================================================
