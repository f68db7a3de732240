-------------------------------- MODULE AymVM --------------------------------
(***************************************************************************)
(* The machine of aym.c: the fetch-decode-execute loop of                  *)
(* aym_execute_program, one action per opcode or family of opcodes.        *)
(*                                                                         *)
(* A step of Next is one turn of the loop.  status is what the loop has    *)
(* returned so far: RUNNING, one of the Err codes, or one of two outcomes  *)
(* the C code does not return at all:                                      *)
(*   CRASH  the process dies (SIGSEGV in strlen, SIGFPE, abort in free)    *)
(*   WILD   an array of the machine was indexed out of its bounds; what    *)
(*          the process does from there on is not modelled                 *)
(***************************************************************************)
EXTENDS AymWord, Sequences, FiniteSets

CONSTANTS
  StackSize,   \* AYM_MAX_STACK_SIZE
  MemorySize,  \* AYM_MAX_MEMORY_SIZE
  LabelNames,  \* addresses of the label strings: the non-null char* operands
  HeapAddrs,   \* addresses malloc may return
  BucketRoom,  \* HASH_BKT_CAPACITY_THRESH, 10: the table is as bound with fewer labels
  Programs     \* the programs that may be loaded, sequences of Instructions

(* Slots of the register file (slot 0 has no name) and bits of REG_FLAGS.    *)
REG_0 == 1
REG_1 == 2
REG_2 == 3
REG_BP == 11
REG_ESP == 12
REG_IP == 13
REG_FLAGS == 14
RegIds == 0 .. 14

FLAG_ZERO == 1
FLAG_SIGN == 2
FLAG_CARRY_Mutant == 2   \* the bit of another flag
FLAG_CARRY == 4
FLAG_OVERFLOW == 8

ArithOps == {"SUB", "DIV", "MUL", "MOD", "SHL", "SHR"}
RotateOps == {"ROL", "ROR"}
LogicOps == {"XOR", "AND", "OR", "NOT"}
\* The jumps that step over themselves when not taken, and those that do not.
FallThroughJumps == {"JE", "JNE"}
StickyJumps == {"JG", "JL", "JGE", "JLE", "JA", "JB", "JAE", "JBE"}
CondJumps == FallThroughJumps \cup StickyJumps
OpCodes ==
  {"NOP", "LABEL", "PUSH", "POP", "SWAP", "PLUS", "DUP", "BSWAP", "MOV", "ADD", "LEA",
   "CMP", "TEST", "LOAD", "STORE", "JMP", "INC", "CALL", "RET", "SYSCALL", "HALT"}
    \cup ArithOps \cup RotateOps \cup LogicOps \cup CondJumps

\* val is the whole operand union: a register number, an immediate, an address
\* or a label_name pointer according to type, but readable as any of them.
Operands == [type : {"NONE", "IMM", "REG", "MEM", "LABEL"}, val : Word]
Instructions == [type : OpCodes \cup {"ILLEGAL"}, dst : Operands, src : Operands]

Errors ==
  {"ERR_STACK_OVERFLOW", "ERR_STACK_UNDERFLOW", "ERR_ILLEGAL_INST",
   "ERR_ILLEGAL_INST_ACCESS", "ERR_DIV_BY_ZERO", "ERR_ILLEGAL_OPERAND_TYPE",
   "ERR_UNKOWN_SYSCALL"}

ASSUME MachineAssumption ==
  /\ StackSize \in Nat /\ StackSize < WordSize
  /\ MemorySize \in Nat /\ MemorySize <= WordSize
  /\ LabelNames \subseteq Word \ {0}
  /\ HeapAddrs \subseteq Word \ {0}
  /\ BucketRoom \in Nat
  /\ \A p \in Programs : p \in Seq(Instructions) /\ Len(p) < WordSize

VARIABLES
  program,      \* program and program_size
  label_table,  \* label name |-> position of the INST_LABEL it resolves to
  stack, regs, memory, halt,
  heap,         \* the blocks SYSCALL_ALLOC returned and SYSCALL_FREE did not free
  status

vars == <<program, label_table, stack, regs, memory, halt, heap, status>>

-----------------------------------------------------------------------------
(* Labels                                                                    *)

Binds(p, i, name) == p[i].type = "LABEL" /\ p[i].dst.val = name
BoundNames(p) == {n \in LabelNames : \E i \in DOMAIN p : Binds(p, i, n)}
AllNamed(p) == \A i \in DOMAIN p : p[i].type = "LABEL" => p[i].dst.val \in LabelNames

\* aym_bind_label.  The last label of a name is the one found (LabelMap) as long
\* as there are too few of them for the table to expand.
\* Mutant: it is the first one.
FoundBefore_Mutant(i, j) == i <= j
FoundBefore(i, j) == i >= j
Few(p) == Cardinality({i \in DOMAIN p : p[i].type = "LABEL"}) < BucketRoom
Bindings(p) ==
  {t \in [BoundNames(p) -> DOMAIN p] :
     \A n \in BoundNames(p) :
       /\ Binds(p, t[n], n)
       /\ Few(p) => \A i \in DOMAIN p : Binds(p, i, n) => FoundBefore(t[n], i)}

-----------------------------------------------------------------------------
(* Operands                                                                  *)

Esp == regs[REG_ESP]
Ip == regs[REG_IP]
Inst == program[Ip + 1]
dst == Inst.dst
src == Inst.src

\* inst.dst.reg, whatever the operand's type.
Field(o) == LowInt(o.val)
InRegs(o) == Field(o) \in RegIds

\* aym_reslove_operand.  Its test for a label is an assignment, so that absent
\* and memory operands are looked up as labels too, by a pointer that is none.
\* A label that is not bound has index -1.
Faulty(o) == o.type \notin {"IMM", "REG"} /\ ~(o.type = "LABEL" /\ o.val \in LabelNames)
OutOfRegs(o) == o.type = "REG" /\ ~InRegs(o)
Resolves(o) == ~Faulty(o) /\ ~OutOfRegs(o)
ValueIn(r, o) ==
  CASE o.type = "IMM" -> o.val
    [] o.type = "REG" -> r[Field(o)]
    [] OTHER -> IF o.val \in DOMAIN label_table THEN label_table[o.val] - 1
                                                ELSE WordSize - 1
Value(o) == ValueIn(regs, o)

-----------------------------------------------------------------------------
(* The shapes of a step                                                      *)

Loaded == UNCHANGED <<program, label_table>>

\* The loop returns s, and the instruction has changed nothing.
Return(s) ==
  /\ status' = s
  /\ Loaded /\ UNCHANGED <<stack, regs, memory, halt, heap>>

\* The instruction reads the operand o and does not survive it.
FaultAt(o) == ~Resolves(o) /\ Return(IF Faulty(o) THEN "CRASH" ELSE "WILD")

\* The instruction ends in registers r and stack s, and the loop goes on.
Continue(r, s) ==
  /\ regs' = r /\ stack' = s
  /\ Loaded /\ UNCHANGED <<memory, halt, heap, status>>

Step(r) == [r EXCEPT ![REG_IP] = ToWord(@ + 1)]
Put(r, k, w) == [r EXCEPT ![k] = w]

\* The result of a register instruction goes to inst.dst.reg.
Write(w) == IF InRegs(dst) THEN Continue(Put(regs, Field(dst), w), stack) ELSE Return("WILD")

\* The instruction at IP is op, and the loop's dump of stack[0 .. ESP-1] that
\* comes before it stayed within the stack.
Running == status = "RUNNING" /\ ~halt
Fetches == Running /\ Esp <= StackSize /\ Ip < Len(program)
At(op) == Fetches /\ Inst.type = op

-----------------------------------------------------------------------------
(* Stack instructions                                                        *)

\* The check against overflow of PUSH, DUP and CALL.  Mutant: off by one.
Full_Mutant == Esp > StackSize
Full == Esp >= StackSize

Nop == (At("NOP") \/ At("LABEL")) /\ Continue(Step(regs), stack)
\* stack[ESP++] = operand: C leaves open which side is evaluated first, so that
\* an operand that is ESP itself may be read before or after the increment.
\* Only a PUSH whose operand field is 0 is checked for room.
Push ==
  LET pushed == Put(regs, REG_ESP, Esp + 1) IN
  /\ At("PUSH")
  /\ \/ Field(dst) # 0 /\ Esp < 1 /\ Return("ERR_STACK_UNDERFLOW")
     \/ Field(dst) = 0 /\ Full /\ Return("ERR_STACK_OVERFLOW")
     \/ /\ IF Field(dst) # 0 THEN Esp >= 1 ELSE ~Full
        /\ \/ FaultAt(dst)
           \/ Resolves(dst) /\ Esp = StackSize /\ Return("WILD")
           \/ /\ Resolves(dst) /\ Esp < StackSize
              /\ \E r \in {regs, pushed} :
                   Continue(Step(pushed), [stack EXCEPT ![Esp] = ValueIn(r, dst)])

\* Where an else is missing: with a non-zero field the top goes to the register
\* and then a second word is dropped, and if there is none the error is
\* returned after the register has changed.
PopTop(r) ==
  IF Field(dst) = 0 THEN r
  ELSE Put(Put(r, REG_ESP, r[REG_ESP] - 1), Field(dst), stack[r[REG_ESP] - 1])
\* Mutant: not checked.
NoneLeft_Mutant(r) == FALSE
NoneLeft(r) == r[REG_ESP] <= 0

Pop ==
  /\ At("POP")
  /\ \/ Field(dst) # 0 /\ Esp < 1 /\ Return("ERR_STACK_UNDERFLOW")
     \/ Field(dst) # 0 /\ Esp >= 1 /\ ~InRegs(dst) /\ Return("WILD")
     \/ /\ Field(dst) # 0 => Esp >= 1 /\ InRegs(dst)
        /\ LET r == PopTop(regs) IN
           IF NoneLeft(r)
           THEN /\ regs' = r /\ status' = "ERR_STACK_UNDERFLOW"
                /\ Loaded /\ UNCHANGED <<stack, memory, halt, heap>>
           ELSE Continue(Step(Put(r, REG_ESP, r[REG_ESP] - 1)), stack)

Top == stack[Esp - 1]
Second == stack[Esp - 2]
TooFew == Esp < 2 /\ Return("ERR_STACK_UNDERFLOW")

Swap ==
  /\ At("SWAP")
  /\ \/ TooFew
     \/ /\ Esp >= 2
        /\ Continue(Step(regs), [stack EXCEPT ![Esp - 1] = Second, ![Esp - 2] = Top])

\* The two topmost words are replaced by w.  Mutant: IP is not advanced.
Reduce_Mutant(w) ==
  Continue(Put(regs, REG_ESP, Esp - 1), [stack EXCEPT ![Esp - 2] = w])
Reduce(w) ==
  Continue(Step(Put(regs, REG_ESP, Esp - 1)), [stack EXCEPT ![Esp - 2] = w])

Plus ==
  /\ At("PLUS")
  /\ \/ TooFew
     \/ Esp >= 2 /\ Reduce(ToWord(Second + Top))
\* ESP - addr is unsigned: only addr = ESP is found to be too deep.  A deeper one
\* indexes past the stack, or, when it is so large that the index wraps, above the
\* top: an unbound label's -1 names the free cell, which is copied onto itself.
DupFrom == ToWord(Esp - 1 - Value(dst))
Dup ==
  /\ At("DUP")
  /\ \/ Full /\ Return("ERR_STACK_OVERFLOW")
     \/ /\ ~Full
        /\ \/ FaultAt(dst)
           \/ Resolves(dst) /\ Value(dst) = Esp /\ Return("ERR_STACK_UNDERFLOW")
           \/ Resolves(dst) /\ Value(dst) # Esp /\ DupFrom >= StackSize /\ Return("WILD")
           \/ /\ Resolves(dst) /\ Value(dst) # Esp /\ DupFrom < StackSize
              /\ Continue(Step(Put(regs, REG_ESP, Esp + 1)),
                          [stack EXCEPT ![Esp] = stack[DupFrom]])

-----------------------------------------------------------------------------
(* Arithmetic.  SUB, DIV, MUL, MOD, SHL and SHR have a register form and,    *)
(* when inst.dst.reg is 0, a stack form; MOV and ADD have a register form    *)
(* only.  DIV alone looks for a zero divisor.                                *)

Result(op, a, b) ==
  CASE op = "MOV" -> b
    [] op = "ADD" -> ToWord(a + b)
    [] op = "SUB" -> ToWord(a - b)
    [] op = "MUL" -> ToWord(a * b)
    [] op = "DIV" -> ToWord(TruncDiv(Signed(a), Signed(b)))
    [] op = "MOD" -> ToWord(TruncMod(Signed(a), Signed(b)))
    [] op = "SHL" -> ShiftLeft(a, b)
    [] op = "SHR" -> ShiftRight(a, b)

DivByZero(op, b) == op = "DIV" /\ b = 0
Traps(op, a, b) == op \in {"DIV", "MOD"} /\ DivTraps(a, b)

ArithReg(op) ==
  /\ At(op) /\ (op \in ArithOps => Field(dst) # 0)
  /\ \/ dst.type # "REG" /\ Return("ERR_ILLEGAL_OPERAND_TYPE")
     \/ dst.type = "REG" /\ FaultAt(src)
     \/ /\ dst.type = "REG" /\ Resolves(src)
        /\ \/ DivByZero(op, Value(src)) /\ Return("ERR_DIV_BY_ZERO")
           \/ ~DivByZero(op, Value(src)) /\ ~InRegs(dst) /\ Return("WILD")
           \/ /\ ~DivByZero(op, Value(src)) /\ InRegs(dst)
              /\ IF Traps(op, Value(dst), Value(src)) THEN Return("CRASH")
                 ELSE Continue(Step(Put(regs, Field(dst), Result(op, Value(dst), Value(src)))),
                               stack)

ArithStack(op) ==
  /\ At(op) /\ Field(dst) = 0
  /\ \/ TooFew
     \/ Esp >= 2 /\ DivByZero(op, Top) /\ Return("ERR_DIV_BY_ZERO")
     \/ /\ Esp >= 2 /\ ~DivByZero(op, Top)
        /\ IF Traps(op, Second, Top) THEN Return("CRASH")
           ELSE Reduce(Result(op, Second, Top))

MovAdd == \E op \in {"MOV", "ADD"} : ArithReg(op)
Arith == MovAdd \/ \E op \in ArithOps : ArithReg(op) \/ ArithStack(op)

\* ROL and ROR leave the result in REG_0, or on the stack at the position
\* REG_FLAGS, which has just been given the bit taken for the carry.
Rotated(op, w, c) == IF op = "ROL" THEN RotateLeft(w, c) ELSE RotateRight(w, c)
RotateCarry(w, c) == ShiftDown(w, WordBits - Count(c)) % 2
WithCarry(f) == IF Bit(f, 2) = 1 THEN f ELSE ToWord(f + FLAG_CARRY)

RotateReg(op) ==
  /\ At(op) /\ Field(dst) # 0
  /\ \/ dst.type # "REG" /\ Return("ERR_ILLEGAL_OPERAND_TYPE")
     \/ dst.type = "REG" /\ FaultAt(src)
     \/ dst.type = "REG" /\ Resolves(src) /\ FaultAt(dst)
     \/ /\ dst.type = "REG" /\ Resolves(src) /\ Resolves(dst)
        /\ Continue(Step([regs EXCEPT ![REG_FLAGS] = WithCarry(@),
                                      ![REG_0] = Rotated(op, Value(dst), Value(src))]),
                    stack)

RotateStack(op) ==
  /\ At(op) /\ Field(dst) = 0
  /\ \/ TooFew
     \/ /\ Esp >= 2
        /\ LET carry == RotateCarry(Second, Top) IN
           Continue(Step([regs EXCEPT ![REG_ESP] = @ - 2, ![REG_FLAGS] = carry + 1]),
                    [stack EXCEPT ![carry] = Rotated(op, Second, Top)])

Rotate == \E op \in RotateOps : RotateReg(op) \/ RotateStack(op)

-----------------------------------------------------------------------------
(* The other register instructions.  Only INC looks at dst's type, and only  *)
(* INC and CMP advance IP.                                                   *)

\* The operands of an instruction that reads two, the first one first.
FaultIn(first, second) == FaultAt(first) \/ (Resolves(first) /\ FaultAt(second))
BothResolve == Resolves(dst) /\ Resolves(src)

Bswap == At("BSWAP") /\ Continue(regs, stack)

Truth(b) == IF b THEN 1 ELSE 0

\* REG_FLAGS becomes 1 when the register just written is 0, and loses its
\* other bits.
SetZero(r, k) == Put(r, REG_FLAGS, Truth(r[k] = 0))

Inc ==
  /\ At("INC")
  /\ \/ dst.type # "REG" /\ Return("ERR_ILLEGAL_OPERAND_TYPE")
     \/ dst.type = "REG" /\ ~InRegs(dst) /\ Return("WILD")
     \/ /\ dst.type = "REG" /\ InRegs(dst)
        /\ LET r == Put(regs, Field(dst), ToWord(Value(dst) + 1))
           IN  Continue(Step(SetZero(r, Field(dst))), stack)

\* AND and OR are the logical && and ||; NOT reads src alone.
IsLogic(op, w, a, b) ==
  CASE op = "XOR" -> IsXor(w, a, b)
    [] op = "AND" -> w = Truth(a # 0 /\ b # 0)
    [] op = "OR"  -> w = Truth(a # 0 \/ b # 0)
    [] op = "NOT" -> w = Complement(b)

LogicOp(op) ==
  /\ At(op)
  /\ \/ op # "NOT" /\ FaultIn(dst, src)
     \/ op = "NOT" /\ FaultAt(src)
     \/ /\ IF op = "NOT" THEN Resolves(src) ELSE BothResolve
        /\ IF ~InRegs(dst) THEN Return("WILD")
           ELSE \E w \in Word :
                  /\ IsLogic(op, w, IF op = "NOT" THEN 0 ELSE Value(dst), Value(src))
                  /\ Continue(SetZero(Put(regs, Field(dst), w), Field(dst)), stack)

Logic == \E op \in LogicOps : LogicOp(op)

Lea ==
  /\ At("LEA")
  /\ \/ FaultAt(src)
     \/ Resolves(src) /\ Write(Value(src))
\* The flags of src - dst: CARRY is never among them.
\* Mutant: the overflow test looks at the sign of the wrong operand.
Overflows_Mutant(a, b, r) == Negative(a) # Negative(b) /\ Negative(b) # Negative(r)
Overflows(a, b, r) == Negative(a) # Negative(b) /\ Negative(a) # Negative(r)
CmpFlags(a, b) ==
  LET r == ToWord(a - b) IN
  (IF r = 0 THEN FLAG_ZERO ELSE 0)
    + (IF Negative(r) THEN FLAG_SIGN ELSE 0)
    + (IF Overflows(a, b, r) THEN FLAG_OVERFLOW ELSE 0)
Cmp ==
  /\ At("CMP")
  /\ \/ FaultIn(src, dst)
     \/ /\ BothResolve
        /\ Continue(Step(Put(regs, REG_FLAGS, CmpFlags(Value(src), Value(dst)))), stack)

Test ==
  /\ At("TEST")
  /\ \/ FaultIn(dst, src)
     \/ /\ BothResolve
        /\ Continue(Put(regs, REG_FLAGS, Truth(Disjoint(Value(dst), Value(src)))), stack)

\* Neither looks at the address.
Load ==
  /\ At("LOAD")
  /\ \/ FaultAt(src)
     \/ Resolves(src) /\ Value(src) >= MemorySize /\ Return("WILD")
     \/ Resolves(src) /\ Value(src) < MemorySize /\ Write(memory[Value(src)])

\* Mutant: STORE steps on.
AfterStore_Mutant == Step(regs)
AfterStore == regs

Store ==
  /\ At("STORE")
  /\ \/ FaultIn(dst, src)
     \/ BothResolve /\ Value(dst) >= MemorySize /\ Return("WILD")
     \/ /\ BothResolve /\ Value(dst) < MemorySize
        /\ memory' = [memory EXCEPT ![Value(dst)] = Value(src)]
        /\ regs' = AfterStore
        /\ Loaded /\ UNCHANGED <<stack, halt, heap, status>>

-----------------------------------------------------------------------------
(* Control flow                                                              *)

\* flags & f, as a number: SIGN is compared with OVERFLOW by these numbers,
\* which are equal only when both flags are clear.
Flag(f) == (regs[REG_FLAGS] \div f) % 2 = 1
Masked(f) == IF Flag(f) THEN f ELSE 0
\* Mutants: as truth values; the other way round.
SignIsOverflow_Mutant1 == Flag(FLAG_SIGN) <=> Flag(FLAG_OVERFLOW)
SignIsOverflow_Mutant2 == Masked(FLAG_SIGN) # Masked(FLAG_OVERFLOW)
SignIsOverflow == Masked(FLAG_SIGN) = Masked(FLAG_OVERFLOW)

Taken(op) ==
  CASE op = "JE"  -> Flag(FLAG_ZERO)
    [] op = "JNE" -> ~Flag(FLAG_ZERO)
    [] op = "JG"  -> ~Flag(FLAG_ZERO) /\ SignIsOverflow
    [] op = "JL"  -> ~SignIsOverflow
    [] op = "JGE" -> SignIsOverflow
    [] op = "JLE" -> Flag(FLAG_ZERO) \/ ~SignIsOverflow
    [] op = "JA"  -> ~Flag(FLAG_ZERO) /\ ~Flag(FLAG_CARRY)
    [] op = "JB"  -> Flag(FLAG_CARRY)
    [] op = "JAE" -> ~Flag(FLAG_CARRY)
    [] op = "JBE" -> Flag(FLAG_ZERO) /\ Flag(FLAG_CARRY)

Goto ==
  \/ FaultAt(dst)
  \/ Resolves(dst) /\ Continue(Put(regs, REG_IP, Value(dst)), stack)

Jmp == At("JMP") /\ Goto
\* Mutants: none of them steps over itself, or all of them do.
NotTaken_Mutant1(op) == regs
NotTaken_Mutant2(op) == Step(regs)
NotTaken(op) == IF op \in FallThroughJumps THEN Step(regs) ELSE regs

CondJump ==
  \E op \in CondJumps :
    /\ At(op)
    /\ \/ Taken(op) /\ Goto
       \/ ~Taken(op) /\ Continue(NotTaken(op), stack)

\* Two words are pushed where room was checked for one; the operand is read
\* after BP and ESP have changed.
\* Mutant: BP is the cell after the saved BP.
CallRegs_Mutant == Put(Put(regs, REG_BP, Esp + 1), REG_ESP, Esp + 2)
CallRegs == Put(Put(regs, REG_BP, Esp), REG_ESP, Esp + 2)

Call ==
  /\ At("CALL")
  /\ \/ Full /\ Return("ERR_STACK_OVERFLOW")
     \/ ~Full /\ Esp + 1 >= StackSize /\ Return("WILD")
     \/ /\ Esp + 1 < StackSize
        /\ \/ FaultAt(dst)
           \/ /\ Resolves(dst)
              /\ Continue(Put(CallRegs, REG_IP, ValueIn(CallRegs, dst)),
                          [stack EXCEPT ![Esp] = regs[REG_BP], ![Esp + 1] = Ip])
\* Mutant: the return resumes the CALL itself.
ReturnAddress_Mutant(bp) == stack[bp + 1]
ReturnAddress(bp) == ToWord(stack[bp + 1] + 1)

\* The frame's saved BP becomes both BP and ESP.
Ret ==
  LET bp == regs[REG_BP] IN
  /\ At("RET")
  /\ \/ Esp < 1 /\ Return("ERR_STACK_UNDERFLOW")
     \/ Esp >= 1 /\ bp + 1 >= StackSize /\ Return("WILD")
     \/ /\ Esp >= 1 /\ bp + 1 < StackSize
        /\ Continue([regs EXCEPT ![REG_IP] = ReturnAddress(bp),
                                 ![REG_BP] = stack[bp],
                                 ![REG_ESP] = stack[bp]],
                    stack)

-----------------------------------------------------------------------------
(* System calls (syscall.c), the end of the program, and illegal fetches     *)

\* The call is chosen by the low half of REG_0.  Writing and reading leave the
\* machine as it is; EXIT still advances IP.
Syscall ==
  LET code == LowUnsigned(regs[REG_0])
      arg == regs[REG_1]
  IN
  /\ At("SYSCALL")
  /\ \/ /\ code = 0
        /\ regs' = Step(regs) /\ halt' = TRUE
        /\ Loaded /\ UNCHANGED <<stack, memory, heap, status>>
     \/ code \in {1, 2} /\ Continue(Step(regs), stack)
     \/ /\ code = 3
        /\ \E p \in {0} \cup (HeapAddrs \ heap) :
             regs' = Step(Put(regs, REG_2, p)) /\ heap' = heap \cup ({p} \ {0})
        /\ Loaded /\ UNCHANGED <<stack, memory, halt, status>>
     \/ /\ code = 4 /\ arg \in heap \cup {0}
        /\ regs' = Step(regs) /\ heap' = heap \ {arg}
        /\ Loaded /\ UNCHANGED <<stack, memory, halt, status>>
     \/ code = 4 /\ arg \notin heap \cup {0} /\ Return("CRASH")
     \/ code > 4 /\ Return("ERR_UNKOWN_SYSCALL")

Halt ==
  /\ At("HALT")
  /\ halt' = TRUE
  /\ Loaded /\ UNCHANGED <<stack, regs, memory, heap, status>>

IllegalInst == At("ILLEGAL") /\ Return("ERR_ILLEGAL_INST")

BadFetch ==
  Running /\ Esp <= StackSize /\ Ip >= Len(program) /\ Return("ERR_ILLEGAL_INST_ACCESS")

\* aym_dump_stack prints the ESP lowest words of the stack.
WildDump == Running /\ Esp > StackSize /\ Return("WILD")

\* The loop ends because halt is set.
Finish == status = "RUNNING" /\ halt /\ Return("ERR_OK")

Returned == status # "RUNNING" /\ UNCHANGED vars

-----------------------------------------------------------------------------

\* A machine that has never run: registers and arrays are those of a static
\* AYM.  Labels have been bound (aym_bind_label) or, as in main, have not.
Init ==
  /\ program \in Programs
  /\ \/ label_table = <<>>
     \/ AllNamed(program) /\ label_table \in Bindings(program)
  /\ stack = [i \in 0 .. StackSize - 1 |-> 0]
  /\ regs = [k \in RegIds |-> 0]
  /\ memory = [a \in 0 .. MemorySize - 1 |-> 0]
  /\ halt = FALSE
  /\ heap = {}
  /\ status = "RUNNING"

Next ==
  \/ Nop \/ Push \/ Pop \/ Swap \/ Plus \/ Dup \/ Arith \/ Rotate
  \/ Bswap \/ Inc \/ Logic \/ Lea \/ Cmp \/ Test \/ Load \/ Store
  \/ Jmp \/ CondJump \/ Call \/ Ret
  \/ Syscall \/ Halt \/ IllegalInst \/ BadFetch \/ WildDump \/ Finish \/ Returned

Spec == Init /\ [][Next]_vars

\* The loop never stops between two instructions.
FairSpec == Spec /\ WF_vars(Next)

-----------------------------------------------------------------------------

Outcomes == {"RUNNING", "ERR_OK", "CRASH", "WILD"} \cup Errors

\* Types of the state.  Nothing ties ESP, BP or IP to the arrays they index:
\* any instruction may write any register; nor the labels to the program.
TypeOK ==
  /\ program \in Seq(Instructions) /\ Len(program) < WordSize
  /\ DOMAIN label_table \subseteq LabelNames
  /\ label_table \in [DOMAIN label_table -> 1 .. WordSize - 1]
  /\ stack \in [0 .. StackSize - 1 -> Word]
  /\ regs \in [RegIds -> Word]
  /\ memory \in [0 .. MemorySize - 1 -> Word]
  /\ halt \in BOOLEAN
  /\ heap \subseteq HeapAddrs
  /\ status \in Outcomes
=============================================================================
