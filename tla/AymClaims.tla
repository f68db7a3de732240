------------------------------ MODULE AymClaims ------------------------------
(***************************************************************************)
(* What the README says of the machine and aym.c does not do.              *)
(***************************************************************************)
EXTENDS AymVMProps

\* README, "Stack operations: PUSH": an operand that can be read is pushed as
\* long as the stack has room for it.
PushFindsRoom ==
  [][At("PUSH") /\ Resolves(dst) /\ Esp < StackSize => status' = "RUNNING"]_vars

\* README, "Stack operations: POP": a word is taken off a stack that has one.
PopTakesOne ==
  [][At("POP") /\ Esp >= 1 /\ Field(dst) \in GeneralRegs => Esp' = Esp - 1]_vars

\* README, "Operand types: Register, Immediate, Memory": a memory operand reads
\* the word of memory at its address.
MemoryOperandReads ==
  [][/\ At("MOV") /\ dst.type = "REG" /\ IntoGeneral(Inst)
     /\ src.type = "MEM" /\ src.val < MemorySize
     => status' = "RUNNING" /\ regs'[Field(dst)] = memory[src.val]]_vars

\* README, "Custom instruction set with math, logic, memory": a program that has
\* no jump, call or return in it, and writes no IP, comes to its end.
StraightLine(i) ==
  /\ i.type \notin CondJumps \cup {"JMP", "CALL", "RET"}
  /\ Field(i.dst) # REG_IP
StraightLineEnds ==
  (\A i \in DOMAIN program : StraightLine(program[i])) => <>(status # "RUNNING")
=============================================================================
