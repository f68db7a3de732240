------------------------------- MODULE MCPairs -------------------------------
(***************************************************************************)
(* Every pair of the instructions below, after each of a few preludes that *)
(* put the stack and the registers in an interesting state.                *)
(***************************************************************************)
EXTENDS MCAymVM

Loop == 50   \* the name of a label, and of one that is nowhere defined
Lost == 60
MCLabelNames == {Loop, Lost}
MCHeapAddrs == {40}

PushImm(w) == Op1("PUSH", Imm(w))
MovImm(k, w) == Op2("MOV", Reg(k), Imm(w))

Preludes ==
  {<<>>,
   <<PushImm(0), PushImm(33), PushImm(2)>>,
   <<PushImm(0), PushImm(0), PushImm(63), PushImm(32)>>,
   <<MovImm(2, 3), MovImm(3, 32), PushImm(0)>>,
   <<Op1("LABEL", Label(Loop)), MovImm(REG_FLAGS, 9)>>}

\* One or more instructions of each opcode, with operands of every type: those
\* that succeed, those that fail and those the code does not survive.
Cases ==
  {Op0(op) : op \in {"NOP", "SWAP", "PLUS", "BSWAP", "RET", "SYSCALL", "HALT", "ILLEGAL"}}
  \cup {Op1("PUSH", o) : o \in {Imm(0), Imm(5), Imm(32), Reg(0), Reg(12), Reg(15), Mem(1)}}
  \cup {Op1("POP", o) : o \in {Nothing, Reg(1), Reg(12), Reg(13), Imm(31)}}
  \cup {Op1("DUP", o) : o \in {Nothing, Imm(0), Imm(1), Imm(62), Reg(12), Label(Lost)}}
  \cup {Op2(op, Reg(2), s) : op \in ArithOps \cup RotateOps, s \in {Imm(0), Reg(3)}}
  \cup {Op0(op) : op \in ArithOps \cup RotateOps}
  \cup {Op2("DIV", Reg(3), Imm(63)), Op2("DIV", Imm(1), Imm(1)), Op2("SUB", Reg(20), Imm(1)),
        Op2("MOD", Reg(2), Nothing), Op2("ROL", Imm(1), Imm(1)), Op2("ROR", Reg(20), Imm(1))}
  \cup {Op2("MOV", d, s) : d \in {Reg(1), Reg(12), Reg(13)}, s \in {Imm(3), Imm(62), Reg(14)}}
  \cup {Op2("ADD", Reg(2), Imm(63)), Op2("ADD", Mem(1), Imm(1)), Op2("MOV", Reg(1), Mem(0))}
  \cup {Op1("INC", o) : o \in {Reg(2), Reg(14), Reg(15), Nothing}}
  \cup {Op2(op, Reg(2), Imm(6)) : op \in LogicOps \cup {"LEA", "CMP", "TEST"}}
  \cup {Op2("XOR", Reg(13), Imm(1)), Op2("AND", Imm(15), Imm(1)), Op2("NOT", Nothing, Imm(0)),
        Op2("NOT", Reg(1), Mem(0)), Op2("LEA", Reg(1), Mem(0)), Op2("CMP", Reg(3), Imm(1)),
        Op2("CMP", Nothing, Imm(1)), Op2("TEST", Reg(1), Nothing)}
  \cup {Op2("LOAD", Reg(1), s) : s \in {Imm(1), Imm(2), Mem(0)}}
  \cup {Op2("STORE", d, Imm(5)) : d \in {Imm(1), Imm(2), Mem(0)}}
  \cup {Op1("JMP", o) : o \in {Imm(0), Label(Loop), Label(Lost)}}
  \cup {Op1(op, Label(Loop)) : op \in CondJumps}
  \cup {Op1("JE", Nothing), Op1("JL", Nothing)}
  \cup {Op1("CALL", o) : o \in {Imm(3), Label(Loop), Reg(11), Mem(0)}}
  \cup {Op1("LABEL", Label(Loop))}

MCPrograms == {p \o <<a, b>> : p \in Preludes, a \in Cases, b \in Cases}
=============================================================================
