----------------------------- MODULE MCBytecode ------------------------------
(***************************************************************************)
(* Programs of up to three instructions, each with operands of every type  *)
(* present or absent, values at and above the size of a byte, labels       *)
(* bound once, twice and never; the decoder has room for one instruction   *)
(* at first.                                                               *)
(***************************************************************************)
EXTENDS AymBytecode

MOV == 15
Alpha == 100
Beta == 101
MCLabelNames == {Alpha, Beta}

Op(t, v) == [type |-> t, val |-> v]
Dsts ==
  {Op(OPERAND_NONE, 0), Op(OPERAND_IMMEDIATE, 0), Op(OPERAND_REGISTER, 4), Op(OPERAND_MEMORY, 70),
   Op(OPERAND_LABEL, 0), Op(OPERAND_LABEL, Alpha), Op(OPERAND_LABEL, Beta)}
Srcs == {Op(OPERAND_NONE, 0), Op(OPERAND_IMMEDIATE, 63), Op(OPERAND_IMMEDIATE, 64),
         Op(OPERAND_LABEL, Alpha)}
Insts ==
  [type : {MOV}, dst : Dsts, src : Srcs]
    \cup {[type |-> INST_LABEL, dst |-> Op(OPERAND_LABEL, n), src |-> Op(OPERAND_NONE, 0)] :
            n \in {Alpha, Beta}}
    \cup {[type |-> INST_LABEL, dst |-> Op(OPERAND_NONE, 0), src |-> Op(OPERAND_NONE, 0)]}

MCPrograms == UNION {[1 .. n -> Insts] : n \in 0 .. 3}
=============================================================================
