------------------------- MODULE AymContainmentProofs -------------------------
(***************************************************************************)
(* A program of contained instructions stays within the machine's arrays,  *)
(* however long the arrays and the program are.  ESP <= StackSize is what  *)
(* makes the argument inductive: SWAP, PLUS and the stack forms of the     *)
(* arithmetic index below ESP, PUSH and DUP at ESP after having compared   *)
(* it with the size, and no contained instruction writes ESP otherwise.    *)
(* After it, the instructions that never end, whatever the program, and    *)
(* the programs that do: those whose every turn moves forward.             *)
(***************************************************************************)
EXTENDS AymVMProofs

Within ==
  /\ Esp <= StackSize
  /\ status # "WILD"
  /\ status = "CRASH" => MayDie

-----------------------------------------------------------------------------
(* Parts of a step                                                           *)

\* A step that does not touch the program keeps what is said of it.
LEMMA ProgramKept ==
  ASSUME Loaded
  PROVE  (AllContained' <=> AllContained) /\ (MayDie' <=> MayDie)
BY DEF Loaded, AllContained, MayDie

\* The instruction at IP, if there is one, is contained.
Safe == Fetches => Contained(Inst)

\* The instruction that is executed is one of the program's.
LEMMA FetchedContained ==
  ASSUME TypeOK, Safe, Fetches
  PROVE  Contained(Inst) /\ Inst = program[Ip + 1] /\ Ip + 1 \in DOMAIN program
<1>1. Ip + 1 \in DOMAIN program
  BY RegsType DEF Fetches, TypeOK
<1> QED
  BY <1>1 DEF Safe, Inst

\* A return other than by a fault stays within.
LEMMA ReturnWithin ==
  ASSUME Within, NEW s, s \notin {"WILD", "CRASH"}, Return(s)
  PROVE  Within'
BY ProgramKept DEF Within, Return, Loaded, Esp

\* A crash is allowed when the instruction is one that may crash.
LEMMA CrashWithin ==
  ASSUME TypeOK, Safe, Within, Fetches, Deadly(Inst), Return("CRASH")
  PROVE  Within'
<1>1. MayDie
  BY FetchedContained DEF MayDie
<1>2. MayDie'
  BY <1>1, ProgramKept DEF Return
<1> QED
  BY <1>2 DEF Within, Return, Esp

\* A step that goes on stays within when ESP does.
LEMMA ContinueWithin ==
  ASSUME Within, NEW r, NEW s, Continue(r, s), r[REG_ESP] <= StackSize
  PROVE  Within'
<1>1. MayDie' <=> MayDie
  BY ProgramKept DEF Continue
<1> QED
  BY <1>1 DEF Within, Continue, Esp

\* Where ESP stands after registers have been written and IP has advanced.
LEMMA EspAfter ==
  ASSUME NEW r \in RegFile, NEW k, NEW w, NEW j, NEW v
  PROVE  /\ Put(r, k, w)[REG_ESP] = IF k = REG_ESP THEN w ELSE r[REG_ESP]
         /\ Put(Put(r, k, w), j, v)[REG_ESP] =
              IF j = REG_ESP THEN v ELSE IF k = REG_ESP THEN w ELSE r[REG_ESP]
         /\ Step(r)[REG_ESP] = r[REG_ESP]
         /\ Step(Put(r, k, w))[REG_ESP] = Put(r, k, w)[REG_ESP]
         /\ Step(Put(Put(r, k, w), j, v))[REG_ESP] = Put(Put(r, k, w), j, v)[REG_ESP]
BY DEF Put, Step, RegFile, RegIds, REG_ESP, REG_IP

\* A general register is neither ESP nor outside the register file.
LEMMA GeneralIsNotEsp ==
  ASSUME NEW i, IntoGeneral(i)
  PROVE  /\ Field(i.dst) # REG_ESP /\ Field(i.dst) # REG_IP
         /\ Field(i.dst) \in RegIds /\ InRegs(i.dst)
BY DEF IntoGeneral, GeneralRegs, InRegs, RegIds, REG_ESP, REG_IP

\* An operand that resolves is no fault.
LEMMA NoFault == ASSUME NEW o, Resolves(o) PROVE ~FaultAt(o)
BY DEF FaultAt

-----------------------------------------------------------------------------
(* One lemma for each action, or family of actions of the same shape         *)

\* PUSH of its checked form: room has been found for the word.
LEMMA PushWithin == TypeOK /\ Safe /\ Within /\ Push => Within'
<1> SUFFICES ASSUME TypeOK, Safe, Within, Push PROVE Within'
  OBVIOUS
<1>1. Fetches /\ Inst.type = "PUSH"
  BY DEF Push, At
<1>2. Field(dst) = 0 /\ Resolves(dst)
  BY <1>1, FetchedContained DEF Contained, dst
<1>3. Esp + 1 <= StackSize \/ Full
  BY RegsType, MachineAssumption DEF Full
<1>4. Step(Put(regs, REG_ESP, Esp + 1))[REG_ESP] = Esp + 1
  BY RegsType, EspAfter
<1>5. CASE Full
  BY <1>2, <1>5, ReturnWithin, NoFault, RegsType, MachineAssumption DEF Push, Full
<1>6. CASE ~Full
  <2>1. Esp < StackSize
    BY <1>6, RegsType, MachineAssumption DEF Full
  <2>2. PICK s : Continue(Step(Put(regs, REG_ESP, Esp + 1)), s)
    BY <1>2, <1>6, <2>1, NoFault, RegsType, MachineAssumption DEF Push
  <2> QED
    BY <1>3, <1>4, <1>6, <2>2, ContinueWithin
<1> QED
  BY <1>5, <1>6

\* POP into a general register: ESP decreases, twice or once.
LEMMA PopWithin == TypeOK /\ Safe /\ Within /\ Pop => Within'
<1> SUFFICES ASSUME TypeOK, Safe, Within, Pop PROVE Within'
  OBVIOUS
<1> DEFINE r == PopTop(regs)
<1>1. Fetches /\ Inst.type = "POP"
  BY DEF Pop, At
<1>2. IntoGeneral(Inst)
  BY <1>1, FetchedContained DEF Contained
<1>3. Field(dst) # REG_ESP /\ InRegs(dst)
  BY <1>2, GeneralIsNotEsp DEF dst
<1>4. r[REG_ESP] = IF Field(dst) = 0 THEN Esp ELSE Esp - 1
  BY <1>3, RegsType, EspAfter DEF PopTop, Esp
<1>5. r[REG_ESP] <= StackSize /\ r[REG_ESP] - 1 <= StackSize
  BY <1>4, RegsType, MachineAssumption DEF Within
<1>6. CASE Return("ERR_STACK_UNDERFLOW")
  BY <1>6, ReturnWithin
<1>7. ASSUME regs' = r, status' = "ERR_STACK_UNDERFLOW", Loaded
      PROVE  Within'
  BY <1>5, <1>7 DEF Within, Esp
<1>8. ASSUME Continue(Step(Put(r, REG_ESP, r[REG_ESP] - 1)), stack)
      PROVE  Within'
  <2>1. Step(Put(r, REG_ESP, r[REG_ESP] - 1))[REG_ESP] = r[REG_ESP] - 1
    BY RegsType DEF PopTop, Put, Step, RegFile, RegIds, REG_ESP, REG_IP
  <2> QED
    BY <1>5, <1>8, <2>1, ContinueWithin
<1> QED
  BY <1>3, <1>6, <1>7, <1>8 DEF Pop

\* SWAP, PLUS and the stack forms: either there are fewer than two words, or one
\* of the two topmost words is dropped.
LEMMA ReduceWithin ==
  ASSUME TypeOK, Within, Fetches, Esp >= 2, NEW w, Reduce(w)
  PROVE  Within'
<1>1. Step(Put(regs, REG_ESP, Esp - 1))[REG_ESP] = Esp - 1
  BY RegsType, EspAfter
<1>2. Esp - 1 <= StackSize
  BY RegsType, MachineAssumption DEF Within
<1> QED
  BY <1>1, <1>2, ContinueWithin DEF Reduce

\* SWAP and PLUS index the two topmost words, which are there.
LEMMA SwapPlusWithin == TypeOK /\ Safe /\ Within /\ (Swap \/ Plus) => Within'
<1> SUFFICES ASSUME TypeOK, Safe, Within, Swap \/ Plus PROVE Within'
  OBVIOUS
<1>1. Fetches
  BY DEF Swap, Plus, At
<1>2. CASE TooFew
  BY <1>2, ReturnWithin DEF TooFew
<1>3. Step(regs)[REG_ESP] <= StackSize
  BY RegsType, EspAfter DEF Within, Esp
<1>4. ASSUME NEW s, Continue(Step(regs), s)
      PROVE  Within'
  BY <1>3, <1>4, ContinueWithin
<1> QED
  BY <1>1, <1>2, <1>4, ReduceWithin DEF Swap, Plus

\* DUP 0: room has been found for a copy of the top.
LEMMA DupWithin == TypeOK /\ Safe /\ Within /\ Dup => Within'
<1> SUFFICES ASSUME TypeOK, Safe, Within, Dup PROVE Within'
  OBVIOUS
<1>1. Fetches /\ Inst.type = "DUP"
  BY DEF Dup, At
<1>2. dst.type = "IMM" /\ dst.val = 0
  BY <1>1, FetchedContained DEF Contained, dst
<1>3. Resolves(dst) /\ Value(dst) = 0
  BY <1>2 DEF Resolves, Faulty, OutOfRegs, Value, ValueIn
<1>4. Step(Put(regs, REG_ESP, Esp + 1))[REG_ESP] = Esp + 1
  BY RegsType, EspAfter
<1>5. ASSUME ~Full, Esp # 0 PROVE DupFrom < StackSize
  <2>1. Esp - 1 \in Nat /\ Esp - 1 < StackSize
    BY <1>5, RegsType, MachineAssumption DEF Full
  <2> QED
    BY <1>3, <2>1, WordSizeNat, MachineAssumption DEF DupFrom, ToWord
<1>6. \/ Return("ERR_STACK_OVERFLOW") \/ Return("ERR_STACK_UNDERFLOW")
      \/ ~Full /\ \E s : Continue(Step(Put(regs, REG_ESP, Esp + 1)), s)
  <2>1. DupFrom \in Int
    BY <1>3, RegsType, WordSizeNat DEF DupFrom, ToWord
  <2> QED
    BY <1>3, <1>5, <2>1, NoFault, MachineAssumption DEF Dup
<1>7. ~Full => Esp + 1 <= StackSize
  BY RegsType, MachineAssumption DEF Full
<1> QED
  BY <1>4, <1>6, <1>7, ReturnWithin, ContinueWithin

\* Arithmetic does not write ESP; only a division traps.
LEMMA ArithWithin == TypeOK /\ Safe /\ Within /\ Arith => Within'
<1> SUFFICES ASSUME TypeOK, Safe, Within, Arith PROVE Within'
  OBVIOUS
<1>1. ASSUME NEW op \in ArithOps \cup {"MOV", "ADD"}, ArithReg(op)
      PROVE  Within'
  <2>1. Fetches /\ Inst.type = op
    BY <1>1 DEF ArithReg, At
  <2>2. IntoGeneral(Inst) /\ (dst.type = "REG" => Resolves(src))
    BY <2>1, FetchedContained DEF Contained, dst, src
  <2>3. Field(dst) # REG_ESP /\ InRegs(dst)
    BY <2>2, GeneralIsNotEsp DEF dst
  <2>4. \/ Return("ERR_ILLEGAL_OPERAND_TYPE") \/ Return("ERR_DIV_BY_ZERO")
        \/ /\ Traps(op, Value(dst), Value(src)) /\ ~DivByZero(op, Value(src))
           /\ Return("CRASH")
        \/ \E w : Continue(Step(Put(regs, Field(dst), w)), stack)
    BY <1>1, <2>2, <2>3, NoFault DEF ArithReg
  <2>5. \A w : Step(Put(regs, Field(dst), w))[REG_ESP] <= StackSize
    BY <2>3, RegsType, EspAfter DEF Within, Esp
  <2>6. ASSUME Traps(op, Value(dst), Value(src)), ~DivByZero(op, Value(src))
        PROVE  Deadly(Inst)
    <3>1. Inst.type \in {"DIV", "MOD"} /\ DivTraps(Value(dst), Value(src))
      BY <2>1, <2>6 DEF Traps
    <3>2. Value(src) = 0 \/ Value(src) = WordSize - 1
      BY <3>1 DEF DivTraps
    <3>3. src.type = "IMM" => Value(src) = src.val
      BY DEF Value, ValueIn
    <3>4. ~SafeDivisor(Inst)
      BY <2>1, <2>6, <3>1, <3>2, <3>3 DEF SafeDivisor, DivByZero, src
    <3> QED
      BY <3>1, <3>4 DEF Deadly
  <2> QED
    BY <2>1, <2>4, <2>5, <2>6, ReturnWithin, CrashWithin, ContinueWithin
<1>2. ASSUME NEW op \in ArithOps, ArithStack(op)
      PROVE  Within'
  <2>1. Fetches /\ Inst.type = op
    BY <1>2 DEF ArithStack, At
  <2>2. \/ Return("ERR_STACK_UNDERFLOW") \/ Return("ERR_DIV_BY_ZERO")
        \/ Traps(op, Second, Top) /\ Return("CRASH")
        \/ Esp >= 2 /\ \E w : Reduce(w)
    BY <1>2 DEF ArithStack, TooFew
  <2>3. Traps(op, Second, Top) => Deadly(Inst)
    BY <1>2, <2>1 DEF Traps, Deadly, SafeDivisor, ArithStack, dst
  <2> QED
    BY <2>1, <2>2, <2>3, ReturnWithin, CrashWithin, ReduceWithin
<1> QED
  BY <1>1, <1>2 DEF Arith, MovAdd

\* ROL and ROR write REG_0 and REG_FLAGS, or drop two words.
LEMMA RotateWithin == TypeOK /\ Safe /\ Within /\ Rotate => Within'
<1> SUFFICES ASSUME TypeOK, Safe, Within, NEW op \in RotateOps,
                    RotateReg(op) \/ RotateStack(op)
             PROVE  Within'
  BY DEF Rotate
<1>1. Fetches /\ Inst.type = op
  BY DEF RotateReg, RotateStack, At
<1>2. dst.type = "REG" => Resolves(dst) /\ Resolves(src)
  BY <1>1, FetchedContained DEF Contained, dst, src
<1>3. CASE RotateReg(op)
  <2>1. \/ Return("ERR_ILLEGAL_OPERAND_TYPE")
        \/ \E v, w : Continue(Step([regs EXCEPT ![REG_FLAGS] = v, ![REG_0] = w]), stack)
    BY <1>2, <1>3, NoFault DEF RotateReg
  <2>2. \A v, w : Step([regs EXCEPT ![REG_FLAGS] = v, ![REG_0] = w])[REG_ESP] = Esp
    BY RegsType DEF RegFile, Step, Esp, RegIds, REG_ESP, REG_IP, REG_FLAGS, REG_0
  <2> QED
    BY <2>1, <2>2, ReturnWithin, ContinueWithin DEF Within
<1>4. CASE RotateStack(op)
  <2>1. \/ Return("ERR_STACK_UNDERFLOW")
        \/ /\ Esp >= 2
           /\ \E v, s : Continue(Step([regs EXCEPT ![REG_ESP] = @ - 2, ![REG_FLAGS] = v]), s)
    BY <1>4 DEF RotateStack, TooFew
  <2>2. \A v : Step([regs EXCEPT ![REG_ESP] = @ - 2, ![REG_FLAGS] = v])[REG_ESP] = Esp - 2
    BY RegsType DEF RegFile, Step, Esp, RegIds, REG_ESP, REG_IP, REG_FLAGS
  <2>3. Esp - 2 <= StackSize
    BY RegsType, MachineAssumption DEF Within
  <2> QED
    BY <2>1, <2>2, <2>3, ReturnWithin, ContinueWithin
<1> QED
  BY <1>3, <1>4

\* INC and the logic instructions write a general register and the flags.
LEMMA SetZeroKeepsEsp ==
  ASSUME TypeOK, NEW k, NEW w, k # REG_ESP
  PROVE  /\ SetZero(Put(regs, k, w), k)[REG_ESP] = Esp
         /\ Step(SetZero(Put(regs, k, w), k))[REG_ESP] = Esp
<1>1. \A v : /\ Put(Put(regs, k, w), REG_FLAGS, v)[REG_ESP] = Esp
             /\ Step(Put(Put(regs, k, w), REG_FLAGS, v))[REG_ESP] = Esp
  BY RegsType, EspAfter DEF Esp, REG_ESP, REG_FLAGS
<1> QED
  BY <1>1 DEF SetZero

\* INC and the logic instructions leave ESP alone.
LEMMA IncLogicWithin == TypeOK /\ Safe /\ Within /\ (Inc \/ Logic) => Within'
<1> SUFFICES ASSUME TypeOK, Safe, Within, Inc \/ Logic PROVE Within'
  OBVIOUS
<1>1. Fetches /\ Inst.type \in {"INC"} \cup LogicOps
  BY DEF Inc, Logic, LogicOp, At
<1>2. Field(dst) # REG_ESP /\ InRegs(dst)
  BY <1>1, FetchedContained, GeneralIsNotEsp DEF Contained, dst
<1>3. ASSUME NEW w, \/ Continue(SetZero(Put(regs, Field(dst), w), Field(dst)), stack)
                    \/ Continue(Step(SetZero(Put(regs, Field(dst), w), Field(dst))), stack)
      PROVE  Within'
  BY <1>2, <1>3, SetZeroKeepsEsp, ContinueWithin DEF Within
<1>4. CASE Inc
  BY <1>2, <1>3, <1>4, ReturnWithin DEF Inc
<1>5. ASSUME NEW op \in LogicOps, LogicOp(op)
      PROVE  Within'
  <2>1. Inst.type = op
    BY <1>5 DEF LogicOp, At
  <2>2. Resolves(src) /\ (op # "NOT" => Resolves(dst))
    BY <1>1, <1>5, <2>1, FetchedContained DEF Contained, dst, src, LogicOps
  <2> QED
    BY <1>2, <1>3, <1>5, <2>2, NoFault DEF LogicOp, FaultIn
<1> QED
  BY <1>4, <1>5 DEF Logic

\* Memory is addressed by immediates below its size; comparisons write the flags.
LEMMA MemoryWithin ==
  TypeOK /\ Safe /\ Within /\ (Lea \/ Load \/ Store \/ Cmp \/ Test) => Within'
<1> SUFFICES ASSUME TypeOK, Safe, Within, Lea \/ Load \/ Store \/ Cmp \/ Test
             PROVE  Within'
  OBVIOUS
<1>1. Fetches /\ Inst.type \in {"LEA", "LOAD", "STORE", "CMP", "TEST"}
  BY DEF Lea, Load, Store, Cmp, Test, At
<1>2. Contained(Inst)
  BY <1>1, FetchedContained
<1>3. ASSUME NEW k, NEW w, k # REG_ESP,
             Continue(Put(regs, k, w), stack) \/ Continue(Step(Put(regs, k, w)), stack)
      PROVE  Within'
  BY <1>3, RegsType, EspAfter, ContinueWithin DEF Within, Esp
<1>4. CASE Lea
  <2>1. Resolves(src) /\ Field(dst) # REG_ESP /\ InRegs(dst)
    BY <1>2, <1>4, GeneralIsNotEsp DEF Contained, dst, src, Lea, At
  <2> QED
    BY <1>3, <1>4, <2>1, NoFault DEF Lea, Write
<1>5. CASE Load
  <2>1. /\ src.type = "IMM" /\ src.val < MemorySize
        /\ Field(dst) # REG_ESP /\ InRegs(dst)
    BY <1>2, <1>5, GeneralIsNotEsp DEF Contained, dst, src, Load, At
  <2>2. Resolves(src) /\ Value(src) < MemorySize
    BY <2>1 DEF Resolves, Faulty, OutOfRegs, Value, ValueIn
  <2>3. Value(src) \in Int
    BY <1>1, <2>2, InstType, RegsType, ValueType, WordSizeNat DEF Value, Word
  <2> QED
    BY <1>3, <1>5, <2>1, <2>2, <2>3, NoFault, MachineAssumption DEF Load, Write
<1>6. CASE Store
  <2>1. dst.type = "IMM" /\ dst.val < MemorySize /\ Resolves(src)
    BY <1>2, <1>6 DEF Contained, dst, src, Store, At
  <2>2. Resolves(dst) /\ Value(dst) < MemorySize
    BY <2>1 DEF Resolves, Faulty, OutOfRegs, Value, ValueIn
  <2>3. Value(dst) \in Int
    BY <1>1, <2>2, InstType, RegsType, ValueType, WordSizeNat DEF Value, Word
  <2>4. Loaded /\ UNCHANGED <<regs, status>>
    BY <1>6, <2>1, <2>2, <2>3, NoFault, MachineAssumption DEF Store, FaultIn, AfterStore
  <2> QED
    BY <2>4, ProgramKept DEF Within, Esp
<1>7. CASE Cmp \/ Test
  <2>1. Resolves(dst) /\ Resolves(src)
    BY <1>2, <1>7 DEF Contained, dst, src, Cmp, Test, At
  <2>2. \E w : \/ Continue(Put(regs, REG_FLAGS, w), stack)
               \/ Continue(Step(Put(regs, REG_FLAGS, w)), stack)
    BY <1>7, <2>1, NoFault DEF Cmp, Test, FaultIn
  <2> QED
    BY <1>3, <2>2 DEF REG_ESP, REG_FLAGS
<1> QED
  BY <1>4, <1>5, <1>6, <1>7

\* A jump writes IP alone: an address past the program is refused by the fetch.
LEMMA JumpWithin == TypeOK /\ Safe /\ Within /\ (Jmp \/ CondJump) => Within'
<1> SUFFICES ASSUME TypeOK, Safe, Within, Jmp \/ CondJump PROVE Within'
  OBVIOUS
<1>1. Fetches /\ Inst.type \in {"JMP"} \cup CondJumps
  BY DEF Jmp, CondJump, At
<1>2. Resolves(dst)
  BY <1>1, FetchedContained DEF Contained, dst
<1>3. \/ \E w : Continue(Put(regs, REG_IP, w), stack)
      \/ Continue(Step(regs), stack)
      \/ Continue(regs, stack)
  BY <1>2, NoFault DEF Jmp, CondJump, Goto, NotTaken
<1>4. \A w : Put(regs, REG_IP, w)[REG_ESP] = Esp
  BY RegsType, EspAfter DEF Esp, REG_IP, REG_ESP
<1>5. Step(regs)[REG_ESP] = Esp
  BY RegsType, EspAfter DEF Esp
<1> QED
  BY <1>3, <1>4, <1>5, ContinueWithin DEF Within, Esp

\* CALL and RET are not contained, hence not executed.
LEMMA CallRetWithin == TypeOK /\ Safe /\ Within /\ (Call \/ Ret) => Within'
BY FetchedContained DEF Call, Ret, At, Contained

\* A system call leaves ESP alone, and may bring the process down.
LEMMA SyscallWithin == TypeOK /\ Safe /\ Within /\ Syscall => Within'
<1> SUFFICES ASSUME TypeOK, Safe, Within, Syscall PROVE Within'
  OBVIOUS
<1>1. Fetches /\ Deadly(Inst)
  BY DEF Syscall, At, Deadly
<1>2. \/ Return("CRASH") \/ Return("ERR_UNKOWN_SYSCALL")
      \/ /\ Loaded /\ status' = status
         /\ regs' = Step(regs) \/ \E p : regs' = Step(Put(regs, REG_2, p))
  BY DEF Syscall, Continue
<1>3. Step(regs)[REG_ESP] = Esp /\ \A p : Step(Put(regs, REG_2, p))[REG_ESP] = Esp
  BY RegsType, EspAfter DEF Esp, REG_2, REG_ESP
<1>4. ASSUME Loaded, status' = status, regs'[REG_ESP] = Esp
      PROVE  Within'
  BY <1>4, ProgramKept DEF Within, Esp
<1> QED
  BY <1>1, <1>2, <1>3, <1>4, ReturnWithin, CrashWithin

\* The other actions; the dump before each fetch prints ESP words.
LEMMA SimpleWithin ==
  TypeOK /\ Safe /\ Within
    /\ (Nop \/ Bswap \/ Halt \/ IllegalInst \/ BadFetch \/ WildDump \/ Finish) => Within'
<1> SUFFICES ASSUME TypeOK, Safe, Within,
                    Nop \/ Bswap \/ Halt \/ IllegalInst \/ BadFetch \/ WildDump \/ Finish
             PROVE  Within'
  OBVIOUS
<1>1. Step(regs)[REG_ESP] <= StackSize /\ regs[REG_ESP] <= StackSize
  BY RegsType, EspAfter DEF Within, Esp
<1>2. CASE Nop \/ Bswap
  BY <1>1, <1>2, ContinueWithin DEF Nop, Bswap
<1>3. CASE Halt
  BY <1>3, ProgramKept DEF Halt, Within, Esp
<1>4. CASE IllegalInst \/ BadFetch \/ Finish
  BY <1>4, ReturnWithin DEF IllegalInst, BadFetch, Finish
<1>5. ~WildDump
  BY RegsType, MachineAssumption DEF WildDump, Within
<1> QED
  BY <1>2, <1>3, <1>4, <1>5

-----------------------------------------------------------------------------

\* No instruction writes the program or the label table.
LEMMA LoadedKept == [Next]_vars => Loaded
<1>1. \A s : Return(s) => Loaded
  BY DEF Return
<1>2. \A r, s : Continue(r, s) => Loaded
  BY DEF Continue
<1>3. \A o : FaultAt(o) => Loaded
  BY <1>1 DEF FaultAt
<1>4. Nop \/ Push \/ Pop \/ Swap \/ Plus \/ Dup => Loaded
  BY <1>1, <1>2, <1>3 DEF Nop, Push, Pop, Swap, Plus, Dup, TooFew, Reduce
<1>5. Arith => Loaded
  BY <1>1, <1>2, <1>3 DEF Arith, MovAdd, ArithReg, ArithStack, TooFew, Reduce
<1>6. Rotate => Loaded
  BY <1>1, <1>2, <1>3 DEF Rotate, RotateReg, RotateStack, TooFew
<1>7. Bswap \/ Inc \/ Logic \/ Lea \/ Cmp \/ Test \/ Load \/ Store => Loaded
  BY <1>1, <1>2, <1>3 DEF Bswap, Inc, Logic, LogicOp, Lea, Cmp, Test, Load, Store, FaultIn, Write
<1>8. Jmp \/ CondJump \/ Call \/ Ret => Loaded
  BY <1>1, <1>2, <1>3 DEF Jmp, CondJump, Goto, Call, Ret
<1>9. Syscall \/ Halt \/ IllegalInst \/ BadFetch \/ WildDump \/ Finish => Loaded
  BY <1>1, <1>2, <1>3 DEF Syscall, Halt, IllegalInst, BadFetch, WildDump, Finish
<1>10. Returned \/ UNCHANGED vars => Loaded
  BY DEF Returned, vars, Loaded
<1> QED
  BY <1>4, <1>5, <1>6, <1>7, <1>8, <1>9, <1>10 DEF Next

\* A turn that executes a contained instruction, or none, stays within.
LEMMA TurnWithin == TypeOK /\ Safe /\ Within /\ [Next]_vars => Within'
<1> SUFFICES ASSUME TypeOK, Safe, Within, [Next]_vars PROVE Within'
  OBVIOUS
<1>1. CASE Returned \/ UNCHANGED vars
  BY <1>1, LoadedKept, ProgramKept DEF Returned, vars, Within, Esp
<1> QED
  BY <1>1, PushWithin, PopWithin, SwapPlusWithin, DupWithin, ArithWithin, RotateWithin,
     IncLogicWithin, MemoryWithin, JumpWithin, CallRetWithin, SyscallWithin, SimpleWithin
     DEF Next

\* Every step of a program of contained instructions stays within.
LEMMA NextWithin == TypeOK /\ ContainmentInv /\ [Next]_vars => ContainmentInv'
<1> SUFFICES ASSUME TypeOK, ContainmentInv, [Next]_vars, AllContained' PROVE Within'
  BY DEF ContainmentInv, Within
<1>1. AllContained /\ Within
  BY LoadedKept, ProgramKept DEF ContainmentInv, Within
<1>2. ASSUME Fetches PROVE Contained(Inst)
  <2>1. Ip + 1 \in DOMAIN program
    BY <1>2, RegsType DEF Fetches, TypeOK
  <2> QED
    BY <1>1, <2>1 DEF AllContained, Inst
<1> QED
  BY <1>1, <1>2, TurnWithin DEF Safe

\* A program of contained instructions keeps ESP within the stack, and stays
\* within every array of the machine, whatever it computes and wherever it jumps.
THEOREM StaysContained == Spec => []ContainmentInv
<1>1. Init => ContainmentInv
  BY MachineAssumption DEF Init, ContainmentInv, Esp, RegIds, REG_ESP
<1>2. TypeOK /\ ContainmentInv /\ [Next]_vars => ContainmentInv'
  BY NextWithin
<1> QED
  BY <1>1, <1>2, TypeCorrect, PTL DEF Spec

\* What a reader needs of it: no array is indexed out of its bounds, and only a
\* division or a system call can bring the process down.
THEOREM Contains == Spec => []Containment
<1>1. ContainmentInv => Containment
  BY DEF ContainmentInv, Containment
<1> QED
  BY <1>1, StaysContained, PTL

-----------------------------------------------------------------------------
(* The instructions that never end                                           *)

\* A step that leaves IP, ESP, the program and the state of the loop alone
\* fetches the same instruction again.
LEMMA FetchesAgain ==
  ASSUME Fetches, Loaded, UNCHANGED <<halt, status>>,
         regs'[REG_IP] = Ip, regs'[REG_ESP] = Esp
  PROVE  Fetches' /\ Inst' = Inst
BY DEF Fetches, Running, Inst, Ip, Esp, Loaded

\* Where IP and ESP stand after another register has been written.
LEMMA PutKeepsPlace ==
  ASSUME TypeOK, NEW k, k \notin {REG_ESP, REG_IP}, NEW w
  PROVE  /\ Put(regs, k, w)[REG_IP] = Ip
         /\ Put(regs, k, w)[REG_ESP] = Esp
         /\ SetZero(Put(regs, k, w), k)[REG_IP] = Ip
         /\ SetZero(Put(regs, k, w), k)[REG_ESP] = Esp
<1>1. \A v : /\ Put(Put(regs, k, w), REG_FLAGS, v)[REG_IP] = Ip
             /\ Put(Put(regs, k, w), REG_FLAGS, v)[REG_ESP] = Esp
             /\ Put(regs, k, w)[REG_IP] = Ip
             /\ Put(regs, k, w)[REG_ESP] = Esp
  BY RegsType DEF Put, RegFile, RegIds, Esp, Ip, REG_ESP, REG_IP, REG_FLAGS
<1> QED
  BY <1>1 DEF SetZero

\* A contained instruction that does not advance IP.
LEMMA EndlessAgain ==
  ASSUME TypeOK, Next, Fetches, Contained(Inst),
         Inst.type \in LogicOps \cup {"BSWAP", "LEA", "TEST", "LOAD", "STORE"}
  PROVE  Fetches' /\ Inst' = Inst
<1>1. Logic \/ Bswap \/ Lea \/ Test \/ Load \/ Store
  <2>1. ~(BadFetch \/ WildDump \/ Finish \/ Returned)
    BY RegsType, MachineAssumption
       DEF BadFetch, WildDump, Finish, Returned, Fetches, Running, TypeOK
  <2>2. ~(Nop \/ Push \/ Pop \/ Swap \/ Plus \/ Dup \/ Inc \/ Cmp \/ Jmp \/ Call \/ Ret
          \/ Syscall \/ Halt \/ IllegalInst)
    BY DEF At, LogicOps, Nop, Push, Pop, Swap, Plus, Dup, Inc, Cmp, Jmp, Call, Ret, Syscall,
           Halt, IllegalInst
  <2>3. ~(Arith \/ Rotate \/ CondJump)
    BY DEF At, LogicOps, Arith, MovAdd, ArithReg, ArithStack, Rotate, RotateReg, RotateStack,
           CondJump, ArithOps, RotateOps, CondJumps, FallThroughJumps, StickyJumps
  <2> QED
    BY <2>1, <2>2, <2>3 DEF Next
<1>2. ASSUME NEW r, NEW s, Continue(r, s), r[REG_IP] = Ip, r[REG_ESP] = Esp
      PROVE  Fetches' /\ Inst' = Inst
  BY <1>2, FetchesAgain DEF Continue
<1>3. CASE Logic
  <2>1. PICK op \in LogicOps : LogicOp(op)
    BY <1>3 DEF Logic
  <2>2. Inst.type = op
    BY <2>1 DEF LogicOp, At
  <2>3. /\ Field(dst) \notin {REG_ESP, REG_IP} /\ InRegs(dst)
        /\ Resolves(src) /\ (op # "NOT" => Resolves(dst))
    BY <2>1, <2>2, GeneralIsNotEsp DEF Contained, dst, src, LogicOps
  <2>4. PICK w : Continue(SetZero(Put(regs, Field(dst), w), Field(dst)), stack)
    BY <2>1, <2>3, NoFault DEF LogicOp, FaultIn
  <2> QED
    BY <1>2, <2>3, <2>4, PutKeepsPlace
<1>4. CASE Bswap
  BY <1>2, <1>4 DEF Bswap, Ip, Esp
<1>5. CASE Lea
  <2>1. Resolves(src) /\ Field(dst) \notin {REG_ESP, REG_IP} /\ InRegs(dst)
    BY <1>5, GeneralIsNotEsp DEF Contained, dst, src, Lea, At
  <2> QED
    BY <1>2, <1>5, <2>1, NoFault, PutKeepsPlace DEF Lea, Write
<1>6. CASE Test
  <2>1. Resolves(src) /\ Resolves(dst)
    BY <1>6 DEF Contained, dst, src, Test, At
  <2>2. REG_FLAGS \notin {REG_ESP, REG_IP}
    BY DEF REG_FLAGS, REG_ESP, REG_IP
  <2> QED
    BY <1>2, <1>6, <2>1, <2>2, NoFault, PutKeepsPlace DEF Test, FaultIn
<1>7. CASE Load
  <2>1. /\ src.type = "IMM" /\ src.val < MemorySize
        /\ Field(dst) \notin {REG_ESP, REG_IP} /\ InRegs(dst)
    BY <1>7, GeneralIsNotEsp DEF Contained, dst, src, Load, At
  <2>2. Resolves(src) /\ Value(src) < MemorySize
    BY <2>1 DEF Resolves, Faulty, OutOfRegs, Value, ValueIn
  <2>3. Value(src) \in Int
    BY <2>2, InstType, RegsType, ValueType, WordSizeNat DEF Value, Word
  <2> QED
    BY <1>2, <1>7, <2>1, <2>2, <2>3, NoFault, PutKeepsPlace, MachineAssumption DEF Load, Write
<1>8. CASE Store
  <2>1. dst.type = "IMM" /\ dst.val < MemorySize /\ Resolves(src)
    BY <1>8 DEF Contained, dst, src, Store, At
  <2>2. Resolves(dst) /\ Value(dst) < MemorySize
    BY <2>1 DEF Resolves, Faulty, OutOfRegs, Value, ValueIn
  <2>3. Value(dst) \in Int
    BY <2>2, InstType, RegsType, ValueType, WordSizeNat DEF Value, Word
  <2>4. Loaded /\ UNCHANGED <<regs, halt, status>>
    BY <1>8, <2>1, <2>2, <2>3, NoFault, MachineAssumption DEF Store, FaultIn, AfterStore
  <2> QED
    BY <2>4, FetchesAgain DEF Ip, Esp
<1> QED
  BY <1>1, <1>3, <1>4, <1>5, <1>6, <1>7, <1>8

\* A jump that does not step over itself, its condition false.
LEMMA StickyAgain ==
  ASSUME TypeOK, Next, Fetches, Inst.type \in StickyJumps, ~Taken(Inst.type)
  PROVE  UNCHANGED vars
<1>1. CondJump
  <2>1. ~(BadFetch \/ WildDump \/ Finish \/ Returned)
    BY RegsType, MachineAssumption
       DEF BadFetch, WildDump, Finish, Returned, Fetches, Running, TypeOK
  <2>2. ~(Nop \/ Push \/ Pop \/ Swap \/ Plus \/ Dup \/ Bswap \/ Inc \/ Lea \/ Cmp \/ Test
          \/ Load \/ Store \/ Jmp \/ Call \/ Ret \/ Syscall \/ Halt \/ IllegalInst)
    BY DEF At, StickyJumps, Nop, Push, Pop, Swap, Plus, Dup, Bswap, Inc, Lea, Cmp, Test, Load,
           Store, Jmp, Call, Ret, Syscall, Halt, IllegalInst
  <2>3. ~(Arith \/ Rotate \/ Logic)
    BY DEF At, StickyJumps, Arith, MovAdd, ArithReg, ArithStack, Rotate, RotateReg, RotateStack,
           Logic, LogicOp, ArithOps, RotateOps, LogicOps
  <2> QED
    BY <2>1, <2>2, <2>3 DEF Next
<1>2. Continue(NotTaken(Inst.type), stack)
  BY <1>1 DEF CondJump, At
<1>3. NotTaken(Inst.type) = regs
  BY DEF NotTaken, StickyJumps, FallThroughJumps
<1> QED
  BY <1>2, <1>3 DEF Continue, Loaded, vars

\* What is stuck stays stuck.
LEMMA StuckAgain == TypeOK /\ Next /\ Stuck => Stuck'
<1> SUFFICES ASSUME TypeOK, Next, Stuck PROVE Stuck'
  OBVIOUS
<1>1. CASE Inst.type \in StickyJumps /\ ~Taken(Inst.type)
  <2>1. UNCHANGED vars
    BY <1>1, StickyAgain DEF Stuck
  <2>2. Fetches' = Fetches /\ Inst' = Inst /\ Taken(Inst.type)' = Taken(Inst.type)
    BY <2>1 DEF vars, Fetches, Running, Inst, Ip, Esp, Taken, Flag, SignIsOverflow, Masked
  <2> QED
    BY <1>1, <2>2 DEF Stuck
<1>2. CASE /\ Inst.type \in LogicOps \cup {"BSWAP", "LEA", "TEST", "LOAD", "STORE"}
           /\ Contained(Inst)
  <2>1. Fetches' /\ Inst' = Inst
    BY <1>2, EndlessAgain DEF Stuck
  <2>2. Contained(Inst)'
    BY <1>2, <2>1 DEF Contained, IntoGeneral
  <2> QED
    BY <1>2, <2>1, <2>2 DEF Stuck
<1> QED
  BY <1>1, <1>2 DEF Stuck

\* The nine instructions whose case ends without advancing IP, and the eight
\* jumps that do not step over themselves, are executed for ever once they are
\* reached: the code gives them no way out.
THEOREM StuckIsForever == Spec => StuckForever
<1>1. TypeOK /\ [Next]_vars => [Stuck => Stuck']_vars
  BY StuckAgain
<1> QED
  BY <1>1, TypeCorrect, PTL DEF Spec, StuckForever

-----------------------------------------------------------------------------
(* Programs that move forward                                                *)

\* The turn ends the run, sets halt, or leaves IP further on.
Onward ==
  \/ status' # "RUNNING" \/ halt'
  \/ regs'[REG_IP] \in Nat /\ Ip < regs'[REG_IP]

\* The instruction that is executed is one that moves forward.
LEMMA FetchedForward ==
  ASSUME TypeOK, AllForward, Fetches
  PROVE  /\ Ip \in Nat /\ MovesForward(Ip)
         /\ Inst = program[Ip + 1] /\ dst = Inst.dst
BY RegsType DEF Fetches, TypeOK, AllForward, Position, Inst, dst

LEMMA ReturnOnward == ASSUME NEW s, s # "RUNNING", Return(s) PROVE Onward
BY DEF Onward, Return

LEMMA FaultOnward == ASSUME NEW o, FaultAt(o) PROVE Onward
BY ReturnOnward DEF FaultAt

\* Registers in which IP is what it was, but for the step.
Stays(r) == REG_IP \in DOMAIN r /\ r[REG_IP] = Ip

\* Advancing does not wrap around while IP is in a program.
LEMMA StepOnward ==
  ASSUME TypeOK, Fetches, NEW r, Stays(r), regs' = Step(r)
  PROVE  Onward
<1>1. Ip \in Nat /\ Ip + 1 < WordSize
  BY RegsType, WordSizeNat DEF Fetches, TypeOK
<1>2. ToWord(Ip + 1) = Ip + 1
  BY <1>1, WordSizeNat DEF ToWord
<1>3. Step(r)[REG_IP] = Ip + 1
  BY <1>2 DEF Step, Stays
<1> QED
  BY <1>1, <1>3 DEF Onward

LEMMA ContinueOnward ==
  ASSUME TypeOK, Fetches, NEW r, Stays(r), NEW s, Continue(Step(r), s)
  PROVE  Onward
BY StepOnward DEF Continue

\* Writing to another register leaves IP alone.
LEMMA PutStays ==
  ASSUME NEW r, Stays(r), NEW k, k # REG_IP, NEW w
  PROVE  Stays(Put(r, k, w))
BY DEF Stays, Put

LEMMA RegsStay == ASSUME TypeOK PROVE Stays(regs)
BY RegsType DEF Stays, RegFile, RegIds, REG_IP, Ip

LEMMA OthersAreNotIp ==
  REG_IP \notin {REG_0, REG_1, REG_2, REG_ESP, REG_FLAGS}
BY DEF REG_IP, REG_0, REG_1, REG_2, REG_ESP, REG_FLAGS

\* The stack instructions, whichever registers but IP they write.
LEMMA StackOnward ==
  TypeOK /\ AllForward /\ (Nop \/ Push \/ Pop \/ Swap \/ Plus \/ Dup) => Onward
<1> SUFFICES ASSUME TypeOK, AllForward, Nop \/ Push \/ Pop \/ Swap \/ Plus \/ Dup
             PROVE  Onward
  OBVIOUS
<1>1. Fetches
  BY DEF Nop, Push, Pop, Swap, Plus, Dup, At
<1>2. Stays(regs) /\ \A w : Stays(Put(regs, REG_ESP, w))
  BY RegsStay, PutStays, OthersAreNotIp
<1>3. CASE Nop \/ Swap
  BY <1>1, <1>2, <1>3, ReturnOnward, ContinueOnward DEF Nop, Swap, TooFew
<1>4. CASE Push
  BY <1>1, <1>2, <1>4, ReturnOnward, FaultOnward, ContinueOnward DEF Push
<1>5. CASE Plus \/ Dup
  BY <1>1, <1>2, <1>5, ReturnOnward, FaultOnward, ContinueOnward DEF Plus, Dup, TooFew, Reduce
<1>6. CASE Pop
  <2>1. IntoGeneral(Inst)
    BY <1>1, <1>6, FetchedForward DEF MovesForward, Pop, At, ArithOps, RotateOps
  <2>2. Field(dst) # REG_IP
    BY <2>1, GeneralIsNotEsp DEF dst
  <2>3. Stays(PopTop(regs))
    BY <1>2, <2>2, PutStays, OthersAreNotIp DEF PopTop
  <2>4. \A w : Stays(Put(PopTop(regs), REG_ESP, w))
    BY <2>3, PutStays, OthersAreNotIp
  <2>5. status' = "ERR_STACK_UNDERFLOW" => Onward
    BY DEF Onward
  <2> QED
    BY <1>1, <1>6, <2>4, <2>5, ReturnOnward, ContinueOnward DEF Pop
<1> QED
  BY <1>3, <1>4, <1>5, <1>6

\* The arithmetic, which writes general registers.
LEMMA ArithOnward == TypeOK /\ AllForward /\ Arith => Onward
<1> SUFFICES ASSUME TypeOK, AllForward, Arith PROVE Onward
  OBVIOUS
<1>1. ASSUME NEW op \in ArithOps \cup {"MOV", "ADD"}, ArithReg(op)
      PROVE  Onward
  <2>1. Fetches /\ Inst.type = op
    BY <1>1 DEF ArithReg, At
  <2>2. IntoGeneral(Inst)
    BY <2>1, FetchedForward DEF MovesForward, ArithOps, RotateOps
  <2>3. \A w : Stays(Put(regs, Field(dst), w))
    BY <2>2, GeneralIsNotEsp, RegsStay, PutStays DEF dst
  <2> QED
    BY <1>1, <2>1, <2>3, ReturnOnward, FaultOnward, ContinueOnward DEF ArithReg
<1>2. ASSUME NEW op \in ArithOps, ArithStack(op)
      PROVE  Onward
  <2>1. Fetches /\ Stays(Put(regs, REG_ESP, Esp - 1))
    BY <1>2, RegsStay, PutStays, OthersAreNotIp DEF ArithStack, At
  <2> QED
    BY <1>2, <2>1, ReturnOnward, ContinueOnward DEF ArithStack, TooFew, Reduce
<1> QED
  BY <1>1, <1>2 DEF Arith, MovAdd

\* The rotations, INC and CMP.
LEMMA RegisterOnward == TypeOK /\ AllForward /\ (Rotate \/ Inc \/ Cmp) => Onward
<1> SUFFICES ASSUME TypeOK, AllForward, Rotate \/ Inc \/ Cmp PROVE Onward
  OBVIOUS
<1>1. Fetches
  BY DEF Rotate, RotateReg, RotateStack, Inc, Cmp, At
<1>2. ASSUME NEW op \in RotateOps, RotateReg(op) \/ RotateStack(op)
      PROVE  Onward
  <2>1. \A v, w : Stays([regs EXCEPT ![REG_FLAGS] = v, ![REG_0] = w])
    BY RegsStay, OthersAreNotIp DEF Stays
  <2>2. \A v, w : Stays([regs EXCEPT ![REG_ESP] = v, ![REG_FLAGS] = w])
    BY RegsStay, OthersAreNotIp DEF Stays
  <2>3. RotateReg(op) => Onward
    BY <1>1, <2>1, ReturnOnward, FaultOnward, ContinueOnward DEF RotateReg
  <2>4. RotateStack(op) => Onward
    BY <1>1, <2>2, ReturnOnward, ContinueOnward DEF RotateStack, TooFew
  <2> QED
    BY <1>2, <2>3, <2>4
<1>3. CASE Inc
  <2>1. IntoGeneral(Inst)
    BY <1>1, <1>3, FetchedForward DEF MovesForward, Inc, At, ArithOps, RotateOps
  <2>2. \A w : Stays(Put(regs, Field(dst), w))
    BY <2>1, GeneralIsNotEsp, RegsStay, PutStays DEF dst
  <2>3. \A w : Stays(SetZero(Put(regs, Field(dst), w), Field(dst)))
    BY <2>2, PutStays, OthersAreNotIp DEF SetZero
  <2> QED
    BY <1>1, <1>3, <2>3, ReturnOnward, ContinueOnward DEF Inc
<1>4. CASE Cmp
  <2>1. \A w : Stays(Put(regs, REG_FLAGS, w))
    BY RegsStay, PutStays, OthersAreNotIp
  <2> QED
    BY <1>1, <1>4, <2>1, FaultOnward, ContinueOnward DEF Cmp, FaultIn
<1> QED
  BY <1>2, <1>3, <1>4 DEF Rotate

\* The jumps go forward, or step over themselves.
LEMMA JumpOnward == TypeOK /\ AllForward /\ (Jmp \/ CondJump) => Onward
<1> SUFFICES ASSUME TypeOK, AllForward, NEW op, At(op), op \in {"JMP"} \cup CondJumps,
                    Goto \/ (op \in CondJumps /\ Continue(NotTaken(op), stack))
             PROVE  Onward
  BY DEF Jmp, CondJump
<1>1. Fetches /\ Inst.type = op
  BY DEF At
<1>2. op \in {"JMP", "JE", "JNE"} /\ dst.type = "IMM" /\ dst.val > Ip
  BY <1>1, FetchedForward
     DEF MovesForward, CondJumps, FallThroughJumps, StickyJumps, ArithOps, RotateOps
<1>3. CASE Goto
  <2>1. Value(dst) = dst.val /\ dst.val \in Nat
    BY <1>1, <1>2, InstType, WordSizeNat DEF Value, ValueIn, Operands, Word
  <2>2. Put(regs, REG_IP, Value(dst))[REG_IP] = Value(dst)
    BY RegsStay DEF Stays, Put
  <2> QED
    BY <1>2, <1>3, <2>1, <2>2, RegsType, FaultOnward DEF Goto, Continue, Onward
<1>4. CASE op \in CondJumps /\ Continue(NotTaken(op), stack)
  <2>1. NotTaken(op) = Step(regs)
    BY <1>2, <1>4 DEF NotTaken, FallThroughJumps, CondJumps, StickyJumps
  <2> QED
    BY <1>1, <1>4, <2>1, RegsStay, ContinueOnward
<1> QED
  BY <1>3, <1>4

\* A system call, the ends of a run, and the instructions that never end, which
\* no such program has.
LEMMA OtherOnward ==
  TypeOK /\ AllForward
    /\ (Syscall \/ Halt \/ IllegalInst \/ BadFetch \/ WildDump \/ Finish
        \/ Bswap \/ Logic \/ Lea \/ Test \/ Load \/ Store \/ Call \/ Ret) => Onward
<1> SUFFICES ASSUME TypeOK, AllForward,
                    Syscall \/ Halt \/ IllegalInst \/ BadFetch \/ WildDump \/ Finish
                    \/ Bswap \/ Logic \/ Lea \/ Test \/ Load \/ Store \/ Call \/ Ret
             PROVE  Onward
  OBVIOUS
<1>1. CASE Syscall
  <2>1. Fetches /\ Stays(regs) /\ \A w : Stays(Put(regs, REG_2, w))
    BY <1>1, RegsStay, PutStays, OthersAreNotIp DEF Syscall, At
  <2> QED
    BY <1>1, <2>1, ReturnOnward, StepOnward, ContinueOnward DEF Syscall
<1>2. CASE Halt
  BY <1>2 DEF Halt, Onward
<1>3. CASE IllegalInst \/ BadFetch \/ WildDump \/ Finish
  BY <1>3, ReturnOnward DEF IllegalInst, BadFetch, WildDump, Finish
<1>4. ASSUME Fetches,
             Inst.type \in LogicOps \cup {"BSWAP", "LEA", "TEST", "LOAD", "STORE", "CALL", "RET"}
      PROVE  FALSE
  BY <1>4, FetchedForward DEF MovesForward, LogicOps, ArithOps, RotateOps
<1>5. ~(Bswap \/ Lea \/ Test \/ Load \/ Store \/ Call \/ Ret)
  BY <1>4 DEF Bswap, Lea, Test, Load, Store, Call, Ret, At
<1>6. ~Logic
  BY <1>4 DEF Logic, LogicOp, At
<1> QED
  BY <1>1, <1>2, <1>3, <1>5, <1>6

\* A turn without an instruction is one of the three that end the run.
LEMMA EndsIdle ==
  ASSUME Next, status = "RUNNING", ~Fetches
  PROVE  BadFetch \/ WildDump \/ Finish
<1>1. \A op : ~At(op)
  BY DEF At
<1>2. ~Returned
  BY DEF Returned
<1> QED
  BY <1>1, <1>2 DEF Next, Nop, Push, Pop, Swap, Plus, Dup, Arith, MovAdd, ArithReg, ArithStack,
                    Rotate, RotateReg, RotateStack, Bswap, Inc, Logic, LogicOp, Lea, Cmp, Test,
                    Load, Store, Jmp, CondJump, Call, Ret, Syscall, Halt, IllegalInst

\* A turn of such a program has fewer after it.
LEMMA ForwardTurn ==
  ASSUME TypeOK, AllForward, status = "RUNNING", Next
  PROVE  TurnsLeft' \in 0 .. TurnsLeft - 1
<1>1. Onward
  <2>1. ~Returned
    BY DEF Returned
  <2> QED
    BY <2>1, StackOnward, ArithOnward, RegisterOnward, JumpOnward, OtherOnward DEF Next
<1>2. /\ TurnsLeft = IF halt \/ Ip >= Len(program) THEN 1 ELSE Len(program) - Ip + 1
      /\ TurnsLeft' = IF status' # "RUNNING" THEN 0
                      ELSE IF halt' \/ Ip' >= Len(program) THEN 1 ELSE Len(program) - Ip' + 1
  <2>1. program' = program
    BY LoadedKept DEF Loaded
  <2> QED
    BY <2>1 DEF TurnsLeft
<1>3. Ip \in Nat /\ Len(program) \in Nat /\ Ip' = regs'[REG_IP]
  BY RegsType DEF Ip, TypeOK
<1>4. CASE status' # "RUNNING"
  BY <1>2, <1>3, <1>4
<1>5. CASE status' = "RUNNING"
  <2>1. Fetches
    <3> SUFFICES ASSUME ~Fetches PROVE FALSE
      OBVIOUS
    <3>1. BadFetch \/ WildDump \/ Finish
      BY <1>1, EndsIdle
    <3> QED
      BY <1>5, <3>1 DEF BadFetch, WildDump, Finish, Return
  <2>2. ~halt /\ Ip < Len(program)
    BY <2>1 DEF Fetches, Running
  <2> QED
    BY <1>1, <1>2, <1>3, <1>5, <2>2 DEF Onward
<1> QED
  BY <1>4, <1>5

\* A program that moves forward ends within Len(program) + 1 turns of the loop:
\* with fairness of Next alone this is ForwardTerminates.
THEOREM ForwardRunsOut == Spec => ForwardAdvances
<1>1. TypeOK /\ [Next]_vars
        => [status = "RUNNING" /\ AllForward => TurnsLeft' \in 0 .. TurnsLeft - 1]_vars
  BY ForwardTurn
<1> QED
  BY <1>1, TypeCorrect, PTL DEF Spec, ForwardAdvances
=============================================================================
