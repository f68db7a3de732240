------------------------------ MODULE MCForward ------------------------------
(***************************************************************************)
(* Programs of up to five instructions: two of a short prelude and every   *)
(* triple of the instructions below, stack and register code mixed with    *)
(* forward jumps, system calls and instructions that never end.  Machines  *)
(* that have run one of eight further programs are used again; a ninth     *)
(* is too long to be loaded.                                               *)
(***************************************************************************)
EXTENDS AymSession, MCCode

MCPow2 == [i \in 0 .. WordBits |-> 2 ^ i]
MCHeapAddrs == {40}

Preludes ==
  {<<Op1("PUSH", Imm(0)), Op1("PUSH", Imm(32))>>,
   <<Op2("MOV", Reg(REG_0), Imm(3)), Op2("MOV", Reg(REG_1), Imm(40))>>}

Cases ==
  {Op0(op) : op \in {"NOP", "SWAP", "PLUS", "SUB", "DIV", "MOD", "ROL", "SYSCALL", "HALT"}}
  \cup {Op1("PUSH", Imm(0)), Op1("PUSH", Imm(7)), Op1("POP", Nothing), Op1("POP", Reg(2)),
        Op1("DUP", Imm(0)), Op1("DUP", Reg(REG_ESP)), Op1("INC", Reg(REG_0)),
        Op2("MOV", Reg(REG_0), Imm(4)), Op2("ADD", Reg(3), Reg(REG_IP)),
        Op2("CMP", Reg(3), Reg(2)), Op2("MOD", Reg(2), Reg(3)), Op1("JMP", Imm(4)),
        Op1("JE", Imm(5)), Op1("JNE", Imm(9)), Op2("XOR", Reg(2), Reg(2)),
        Op2("STORE", Imm(0), Imm(5))}

\* The programs of machines that are used again.
Loop == 50
MCLabelNames == {Loop}
MCReused ==
  {<<Op0("HALT")>>, <<Op1("PUSH", Imm(0)), Op1("PUSH", Imm(0)), Op0("HALT")>>,
   <<Op1("LABEL", Label(Loop)), Op1("PUSH", Imm(0)), Op1("JMP", Label(Loop))>>,
   <<Op0("NOP"), Op1("LABEL", Label(Loop)), Op1("LABEL", Label(Loop)), Op1("POP", Reg(3)),
     Op1("JMP", Label(Loop))>>,
   <<Op2("MOV", Reg(REG_0), Imm(0)), Op0("SYSCALL"), Op2("MOV", Reg(REG_ESP), Imm(6)),
     Op0("HALT")>>,
   <<Op1("PUSH", Imm(0)), Op1("POP", Reg(REG_IP)), Op0("HALT")>>,
   <<Op1("LABEL", Nothing)>>, <<Op2("STORE", Imm(0), Imm(1))>>,
   [k \in 1 .. 6 |-> Op0("NOP")]}

MCPrograms ==
  MCReused \cup {p \o <<a, b, c>> : p \in Preludes, a \in Cases, b \in Cases, c \in Cases}
=============================================================================
