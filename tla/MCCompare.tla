------------------------------ MODULE MCCompare ------------------------------
(***************************************************************************)
(* A comparison of every pair of words, and every conditional jump after   *)
(* it.                                                                     *)
(***************************************************************************)
EXTENDS MCAymVM

MCPrograms ==
  {<<Op2("MOV", Reg(3), Imm(a)), Op2("CMP", Reg(3), Imm(b)), Op1(op, Imm(9))>> :
     a \in Word, b \in Word, op \in CondJumps}
=============================================================================
