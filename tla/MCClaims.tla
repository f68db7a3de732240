------------------------------ MODULE MCClaims -------------------------------
(***************************************************************************)
(* The shortest programs that show what AymClaims is about.                *)
(***************************************************************************)
EXTENDS AymClaims, MCCode

MCPow2 == [i \in 0 .. WordBits |-> 2 ^ i]

MCPush == {<<Op1("PUSH", Imm(7)), Op0("HALT")>>}
MCPop ==
  {<<Op1("PUSH", Imm(0)), Op1("PUSH", Imm(7)), Op1("POP", Reg(REG_1)), Op0("HALT")>>}
MCMemory == {<<Op2("MOV", Reg(REG_1), Mem(1)), Op0("HALT")>>}
MCLogic == {<<Op2("XOR", Reg(REG_1), Reg(REG_1)), Op0("HALT")>>}
=============================================================================
