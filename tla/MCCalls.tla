------------------------------ MODULE MCCalls --------------------------------
(***************************************************************************)
(* A value pushed by the caller, and a call of a subroutine that has one   *)
(* local variable: does the caller still have its value?                   *)
(***************************************************************************)
EXTENDS AymCalls, MCCode

MCPow2 == [i \in 0 .. WordBits |-> 2 ^ i]
MCPrograms ==
  {<<Op1("PUSH", Imm(0)), Op1("CALL", Imm(3)), Op0("HALT"), Op1("PUSH", Imm(0)), Op0("RET")>>}
=============================================================================
