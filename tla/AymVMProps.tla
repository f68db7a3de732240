----------------------------- MODULE AymVMProps -----------------------------
(***************************************************************************)
(* What can and cannot be relied on of the machine of AymVM.  The classes  *)
(* of programs below are syntactic: they look at the instructions only.    *)
(***************************************************************************)
EXTENDS AymVM

\* The registers no instruction gives a meaning to: slot 0 and REG_0 .. REG_9.
GeneralRegs == 0 .. 10
IntoGeneral(i) == Field(i.dst) \in GeneralRegs

Position == 0 .. Len(program) - 1

-----------------------------------------------------------------------------
(* Containment                                                               *)

\* The conditions under which an instruction's own checks keep it inside the
\* machine's arrays, whatever the state it is executed in: it writes neither
\* ESP nor BP nor IP, takes no address from the state, and of the two forms of
\* PUSH it is the one that is checked.  CALL and RET are never contained.
Contained(i) ==
  /\ i.type \notin {"CALL", "RET"}
  /\ i.type \in {"POP", "INC", "MOV", "ADD", "LEA", "LOAD"} \cup ArithOps \cup LogicOps =>
       IntoGeneral(i)
  /\ i.type = "PUSH" => Field(i.dst) = 0
  /\ i.type = "DUP" => i.dst.type = "IMM" /\ i.dst.val = 0
  /\ i.type = "LOAD" => i.src.type = "IMM" /\ i.src.val < MemorySize
  /\ i.type = "STORE" => i.dst.type = "IMM" /\ i.dst.val < MemorySize
  /\ i.type \in {"PUSH", "CMP", "TEST", "XOR", "AND", "OR", "JMP"} \cup CondJumps =>
       Resolves(i.dst)
  /\ i.type \in {"CMP", "TEST", "LEA", "STORE"} \cup LogicOps => Resolves(i.src)
  /\ i.type \in {"MOV", "ADD"} \cup ArithOps /\ i.dst.type = "REG" => Resolves(i.src)
  /\ i.type \in RotateOps /\ i.dst.type = "REG" => Resolves(i.dst) /\ Resolves(i.src)

AllContained == \A i \in DOMAIN program : Contained(program[i])

\* What may still bring the process down: SYSCALL_FREE, and a division whose
\* divisor is not seen to be safe.  DIV checks it against 0, MOD does not, and
\* neither against -1, by which the least number cannot be divided.
SafeDivisor(i) ==
  /\ Field(i.dst) # 0 /\ i.src.type = "IMM" /\ i.src.val # WordSize - 1
  /\ i.type = "MOD" => i.src.val # 0
Deadly(i) == i.type = "SYSCALL" \/ (i.type \in {"DIV", "MOD"} /\ ~SafeDivisor(i))
MayDie == \E i \in DOMAIN program : Deadly(program[i])

\* A program of contained instructions, however it jumps among them and however
\* long it runs, never indexes stack, registers or memory out of bounds: the
\* checks of aym.c that exist are enough for it.  It can only bring the process
\* down by freeing what is not allocated, or by a division that traps, and by none
\* whose divisor is an immediate other than -1 and, for MOD, 0.
Containment ==
  AllContained =>
    /\ status # "WILD"
    /\ status = "CRASH" => MayDie

\* The inductive form: such a program keeps ESP within the stack.
ContainmentInv ==
  AllContained =>
    /\ Esp <= StackSize
    /\ status # "WILD"
    /\ status = "CRASH" => MayDie

-----------------------------------------------------------------------------
(* Instructions that never end                                               *)

\* The instruction at IP will be executed again: its case in the switch breaks
\* without advancing IP (or is a jump that is not taken) and what it writes
\* cannot make the next turn of the loop a different one.
Stuck ==
  /\ Fetches
  /\ \/ Inst.type \in LogicOps \cup {"BSWAP", "LEA", "TEST", "LOAD", "STORE"}
          /\ Contained(Inst)
     \/ Inst.type \in StickyJumps /\ ~Taken(Inst.type)

\* Once the machine has come to XOR, AND, OR, NOT, LEA, TEST, LOAD or STORE, of
\* general registers and addresses in bounds, to BSWAP, or to one of the jumps
\* JG .. JBE with its condition false, it executes that one instruction for ever:
\* no later step halts it, fails or moves on.
StuckForever == [][Stuck => Stuck']_vars

-----------------------------------------------------------------------------
(* Programs that end                                                         *)

\* Instruction p (counted from 0) advances IP, or jumps forward.
MovesForward(p) ==
  LET i == program[p + 1] IN
  \/ i.type \in {"NOP", "LABEL", "PUSH", "SWAP", "PLUS", "DUP", "CMP", "SYSCALL", "HALT"}
                 \cup RotateOps
  \/ i.type \in {"POP", "MOV", "ADD", "INC"} \cup ArithOps /\ IntoGeneral(i)
  \/ i.type \in {"JMP", "JE", "JNE"} /\ i.dst.type = "IMM" /\ i.dst.val > p

AllForward == \A p \in Position : MovesForward(p)

\* A program built of the instructions that do advance, jumping forward only,
\* ends: it halts, fails, or runs off its end into ERR_ILLEGAL_INST_ACCESS.
ForwardTerminates == status = "RUNNING" /\ AllForward ~> status # "RUNNING"

\* The turns of the loop such a program has left: one for each instruction from
\* IP on, and one to find that the program has halted or run off its end.
TurnsLeft ==
  IF status # "RUNNING" THEN 0
  ELSE IF halt \/ Ip >= Len(program) THEN 1 ELSE Len(program) - Ip + 1

\* Every turn uses up one of them at least, so that Len(program) + 1 turns are
\* all it can take: no case of the switch that MovesForward allows leaves IP
\* where it was, or lets an operand's value into it.
ForwardAdvances ==
  [][status = "RUNNING" /\ AllForward => TurnsLeft' \in 0 .. TurnsLeft - 1]_vars

-----------------------------------------------------------------------------
(* Labels                                                                    *)

LabelJump ==
  /\ Fetches /\ dst.type = "LABEL" /\ dst.val \in LabelNames
  /\ \/ Inst.type \in {"JMP", "CALL"}
     \/ Inst.type \in CondJumps /\ Taken(Inst.type)

\* A jump or call that names a label either lands on an INST_LABEL of that name,
\* the last one unless the labels are many, or, if the labels were not bound or
\* there is none, on an address the next fetch refuses.
LabelJumpsLand ==
  [][(LabelJump /\ regs' # regs) =>
       LET to == regs'[REG_IP] + 1 IN
       \/ /\ to \in DOMAIN program /\ Binds(program, to, dst.val)
          /\ Few(program) => \A i \in DOMAIN program : Binds(program, i, dst.val) => i <= to
       \/ to > Len(program) /\ dst.val \notin DOMAIN label_table]_vars

-----------------------------------------------------------------------------
(* Comparisons                                                               *)

Compares == At("CMP") /\ BothResolve
Left == Signed(Value(src))
Right == Signed(Value(dst))
Representable(i) == -WordSize <= 2 * i /\ 2 * i < WordSize

\* The flags CMP leaves: ZERO is equality, OVERFLOW is set exactly when the
\* difference src - dst is not a 64-bit number, and otherwise SIGN is src < dst.
CompareFlagsExact ==
  [][Compares =>
       /\ Flag(FLAG_ZERO)' <=> Left = Right
       /\ Flag(FLAG_OVERFLOW)' <=> ~Representable(Left - Right)
       /\ Representable(Left - Right) => (Flag(FLAG_SIGN)' <=> Left < Right)]_vars

\* Where the difference does not overflow, the signed jumps that follow a CMP
\* test src against dst (not dst against src): JG is src > dst, and so on.
SignedJumpsExact ==
  [][Compares /\ Representable(Left - Right) =>
       /\ Taken("JG")' <=> Left > Right
       /\ Taken("JL")' <=> Left < Right
       /\ Taken("JGE")' <=> Left >= Right
       /\ Taken("JLE")' <=> Left <= Right]_vars

\* Where it does overflow they all say "less", whichever operand is the larger:
\* SIGN and OVERFLOW are compared as the numbers 2 and 8.
OverflowReadsAsLess ==
  [][Compares /\ ~Representable(Left - Right) =>
       (Taken("JL") /\ Taken("JLE") /\ ~Taken("JG") /\ ~Taken("JGE"))']_vars

\* CMP never sets CARRY, so that no unsigned comparison is made by the unsigned
\* jumps: JA is JNE, JAE always jumps, JB and JBE never do.
UnsignedJumpsBlind ==
  [][Compares =>
       /\ Taken("JA")' <=> Taken("JNE")'
       /\ (Taken("JAE") /\ ~Taken("JB") /\ ~Taken("JBE"))']_vars
=============================================================================
