--------------------------- MODULE AymSessionProofs ---------------------------
(***************************************************************************)
(* A machine that is used again and again, for every word width, size,     *)
(* program, bound on the calls and order of the calls.  A step is a call,  *)
(* made while no program runs, or a step of AymVM, of which the lemmas of  *)
(* AymVMProofs and AymContainmentProofs tell what it keeps.  Then where a  *)
(* jump by label lands, in a first run and in a machine used again, that   *)
(* the label tables it lands by are those LabelMap allows, and last why a  *)
(* program that is run again returns what it returned.                     *)
(***************************************************************************)
EXTENDS AymSession, AymContainmentProofs, FiniteSetTheorems, FunctionTheorems

-----------------------------------------------------------------------------
(* Types                                                                     *)

\* What aym_init leaves of a program is a program of the same length.
LEMMA ClearedType ==
  ASSUME NEW p \in Seq(Instructions)
  PROVE  Cleared(p) \in Seq(Instructions) /\ Len(Cleared(p)) = Len(p)
<1> DEFINE whole == MaxProgramSize \div InstBytes
           none == [type |-> "NONE", val |-> 0]
           nop == [type |-> "NOP", dst |-> none, src |-> none]
           cut(k) == [type |-> "NOP", dst |-> p[k].dst, src |-> [p[k].src EXCEPT !.type = "NONE"]]
<1>1. none \in Operands /\ nop \in Instructions
  BY WordSizeNat DEF Operands, Instructions, OpCodes, Word
<1>2. ASSUME NEW k \in DOMAIN p
      PROVE  p[k] \in Instructions /\ cut(k) \in Instructions
  <2>1. p[k] \in Instructions
    OBVIOUS
  <2>2. p[k].dst \in Operands /\ [p[k].src EXCEPT !.type = "NONE"] \in Operands
    BY <2>1 DEF Instructions, Operands
  <2> QED
    BY <2>1, <2>2 DEF Instructions, OpCodes
<1>3. Cleared(p) = [k \in 1 .. Len(p) |->
                      CASE k <= whole -> nop [] k = whole + 1 -> cut(k) [] OTHER -> p[k]]
  BY DEF Cleared
<1> HIDE DEF none, nop, cut, whole
<1>4. Cleared(p) \in [1 .. Len(p) -> Instructions]
  BY <1>1, <1>2, <1>3
<1> QED
  BY <1>4

\* aym_init clears no more than the array.
LEMMA ZeroedType ==
  ASSUME NEW n, NEW a \in [0 .. n - 1 -> Word]
  PROVE  Zeroed(a, n) \in [0 .. n - 1 -> Word]
BY WordSizeNat DEF Zeroed, Word

\* The programs that can be loaded while a machine is used.
LEMMA ReusedType == \A p \in Reused : p \in Seq(Instructions) /\ Len(p) < WordSize
BY SessionAssumption, MachineAssumption

\* What aym_bind_label leaves in the table are positions of the names it met.
LEMMA ResolvedType ==
  ASSUME NEW ps, NEW t \in Resolved(ps)
  PROVE  /\ DOMAIN t = AllNames(ps) /\ DOMAIN t \subseteq LabelNames
         /\ t \in [DOMAIN t -> 1 .. WordSize - 1]
<1>1. AllNames(ps) \subseteq LabelNames
  BY DEF AllNames, BoundNames
<1> QED
  BY <1>1 DEF Resolved

\* Each call leaves the state well typed.
LEMMA CallTyped == SessionTypeOK /\ ApiCall => SessionTypeOK'
<1> SUFFICES ASSUME SessionTypeOK, ApiCall PROVE SessionTypeOK'
  OBVIOUS
<1>1. TypeOK /\ program \in Seq(Instructions) /\ Len(program) < WordSize
  BY DEF SessionTypeOK, TypeOK
<1>2. calls' \in 0 .. MaxCalls
  BY SessionAssumption DEF ApiCall, SessionTypeOK
<1>3. CASE aym_init
  <2>1. Cleared(program) \in Seq(Instructions) /\ Len(Cleared(program)) < WordSize
    BY <1>1, ClearedType
  <2>2. /\ Zeroed(stack, StackSize) \in [0 .. StackSize - 1 -> Word]
        /\ Zeroed(memory, MemorySize) \in [0 .. MemorySize - 1 -> Word]
    BY <1>1, ZeroedType DEF TypeOK
  <2>3. DOMAIN << >> = {} /\ << >> \in [{} -> 1 .. WordSize - 1]
    OBVIOUS
  <2>4. TypeOK'
    BY <1>1, <1>3, <2>1, <2>2, <2>3 DEF aym_init, InitRegs, TypeOK
  <2> QED
    BY <1>2, <1>3, <2>4 DEF aym_init, SessionTypeOK
<1>4. CASE \E p \in Reused : aym_load_inst_from_mem(p)
  <2>1. program' \in Seq(Instructions) /\ Len(program') < WordSize
    BY <1>1, <1>4, ReusedType DEF aym_load_inst_from_mem
  <2>2. TypeOK'
    BY <1>1, <1>4, <2>1 DEF aym_load_inst_from_mem, TypeOK
  <2> QED
    BY <1>2, <1>4, <2>2 DEF aym_load_inst_from_mem, SessionTypeOK
<1>5. CASE aym_bind_label
  <2>1. CASE AllNamed(program)
    <3>1. bound' = Append(bound, program) /\ label_table' \in Resolved(bound')
      BY <1>5, <2>1 DEF aym_bind_label
    <3>2. /\ bound' \in Seq(Seq(Instructions))
          /\ \A j \in DOMAIN bound' : bound'[j] \in Seq(Instructions) /\ Len(bound'[j]) < WordSize
      BY <1>1, <3>1 DEF SessionTypeOK
    <3>3. TypeOK'
      BY <1>1, <1>5, <2>1, <3>1, ResolvedType DEF aym_bind_label, TypeOK
    <3> QED
      BY <1>2, <1>5, <3>2, <3>3 DEF aym_bind_label, SessionTypeOK
  <2>2. CASE ~AllNamed(program)
    <3>1. TypeOK'
      BY <1>1, <1>5, <2>2 DEF aym_bind_label, TypeOK, Outcomes
    <3> QED
      BY <1>2, <1>5, <2>2, <3>1 DEF aym_bind_label, SessionTypeOK
  <2> QED
    BY <2>1, <2>2
<1>6. CASE aym_execute_program
  <2>1. TypeOK'
    BY <1>1, <1>6 DEF aym_execute_program, TypeOK, Outcomes
  <2> QED
    BY <1>1, <1>2, <1>6, <2>1 DEF aym_execute_program, SessionTypeOK
<1> QED
  BY <1>3, <1>4, <1>5, <1>6 DEF ApiCall

\* Types of the state of a machine, whatever calls are made and whatever runs.
THEOREM SessionTyped == SessionSpec => []SessionTypeOK
<1>1. SessionInit => SessionTypeOK
  <2> SUFFICES ASSUME SessionInit PROVE SessionTypeOK
    OBVIOUS
  <2>1. TypeOK
    BY InitTypeOK DEF SessionInit
  <2>2. program \in Seq(Instructions) /\ Len(program) < WordSize
    BY <2>1 DEF TypeOK
  <2>3. /\ bound \in Seq(Seq(Instructions))
        /\ \A j \in DOMAIN bound : bound[j] \in Seq(Instructions) /\ Len(bound[j]) < WordSize
    BY <2>2 DEF SessionInit
  <2>4. calls \in 0 .. MaxCalls /\ ran \subseteq Seq(Instructions)
    BY <2>2, SessionAssumption DEF SessionInit
  <2>5. again \in BOOLEAN
    BY DEF SessionInit
  <2> QED
    BY <2>1, <2>3, <2>4, <2>5 DEF SessionTypeOK
<1>2. SessionTypeOK /\ [SessionNext]_sessionVars => SessionTypeOK'
  <2> SUFFICES ASSUME SessionTypeOK, [SessionNext]_sessionVars PROVE SessionTypeOK'
    OBVIOUS
  <2>1. CASE ApiCall
    BY <2>1, CallTyped
  <2>2. CASE Machine
    <3>1. TypeOK'
      BY <2>2, NextTypeOK DEF Machine, SessionTypeOK
    <3> QED
      BY <2>2, <3>1 DEF Machine, SessionTypeOK
  <2>3. CASE UNCHANGED sessionVars
    BY <2>3 DEF sessionVars, vars, SessionTypeOK, TypeOK
  <2> QED
    BY <2>1, <2>2, <2>3 DEF SessionNext
<1> QED
  BY <1>1, <1>2, PTL DEF SessionSpec

-----------------------------------------------------------------------------
(* Programs that move forward                                                *)

\* Also in a machine that is used again, from wherever its run begins: a call
\* is not made while a program runs, and does not add to the turns it has left.
THEOREM SessionForwardRunsOut == SessionSpec => ForwardAdvances
<1>1. ASSUME SessionTypeOK, [SessionNext]_sessionVars, status = "RUNNING", AllForward,
             vars' # vars
      PROVE  TurnsLeft' \in 0 .. TurnsLeft - 1
  <2>1. Machine
    BY <1>1 DEF SessionNext, ApiCall, Idle, Errors, sessionVars
  <2> QED
    BY <1>1, <2>1, ForwardTurn DEF Machine, SessionTypeOK
<1>2. SessionTypeOK /\ [SessionNext]_sessionVars
        => [status = "RUNNING" /\ AllForward => TurnsLeft' \in 0 .. TurnsLeft - 1]_vars
  BY <1>1
<1> QED
  BY <1>2, SessionTyped, PTL DEF SessionSpec, ForwardAdvances

-----------------------------------------------------------------------------
(* Containment                                                               *)

\* The inductive form: what runs is among what has been executed.
SessionContainmentInv ==
  /\ status = "RUNNING" => program \in ran
  /\ SessionContainment

\* A call moves neither ESP nor, but for a label without a name, the status out
\* of what a run may return.
LEMMA CallContained == SessionContainmentInv /\ ApiCall => SessionContainmentInv'
<1> SUFFICES ASSUME SessionContainmentInv, ApiCall PROVE SessionContainmentInv'
  OBVIOUS
<1>1. Idle /\ status \notin {"RUNNING", "WILD", "CRASH"}
  BY DEF ApiCall, Idle, Errors
<1>2. ran \subseteq ran' /\ regs' = regs
  BY DEF ApiCall, aym_init, InitRegs, aym_bind_label, aym_execute_program, aym_load_inst_from_mem
<1>3. RanContained' => RanContained
  BY <1>2 DEF RanContained
<1>4. CASE status' = status
  BY <1>1, <1>2, <1>3, <1>4 DEF SessionContainmentInv, SessionContainment, Esp
<1>5. CASE aym_bind_label
  <2>1. CASE AllNamed(program)
    BY <1>4, <1>5, <2>1 DEF aym_bind_label
  <2>2. CASE ~AllNamed(program)
    <3>1. status' = "CRASH" /\ ~AllNamed(program')
      BY <1>5, <2>2 DEF aym_bind_label
    <3> QED
      BY <1>2, <1>3, <3>1 DEF SessionContainmentInv, SessionContainment, Esp
  <2> QED
    BY <2>1, <2>2
<1>6. CASE aym_execute_program
  <2>1. status' = "RUNNING" /\ program' \in ran'
    BY <1>6 DEF aym_execute_program
  <2> QED
    BY <1>2, <1>3, <2>1 DEF SessionContainmentInv, SessionContainment, Esp
<1>7. aym_init \/ aym_bind_label \/ aym_execute_program \/ status' = status
  BY DEF ApiCall, aym_load_inst_from_mem
<1>8. aym_init => status' = status
  BY DEF aym_init
<1> QED
  BY <1>4, <1>5, <1>6, <1>7, <1>8

\* A step of a run of a contained program stays within.
LEMMA RunContained ==
  TypeOK /\ SessionContainmentInv /\ Machine => SessionContainmentInv'
<1> SUFFICES ASSUME TypeOK, SessionContainmentInv, Machine PROVE SessionContainmentInv'
  OBVIOUS
<1>1. Next /\ ran' = ran /\ program' = program
  BY LoadedKept DEF Machine, Loaded
<1>2. CASE status = "RUNNING"
  <2>1. program \in ran
    BY <1>2 DEF SessionContainmentInv
  <2>2. ASSUME RanContained'
        PROVE  /\ Esp' <= StackSize /\ status' # "WILD"
               /\ status' = "CRASH" => MayDie'
    <3>1. RanContained
      BY <1>1, <2>2 DEF RanContained
    <3>2. AllContained /\ AllContained'
      BY <1>1, <2>1, <3>1 DEF RanContained, AllContained
    <3>3. ContainmentInv
      BY <1>2, <3>1 DEF SessionContainmentInv, SessionContainment, ContainmentInv
    <3>4. ContainmentInv'
      BY <1>1, <3>3, NextWithin
    <3> QED
      BY <3>2, <3>4 DEF ContainmentInv
  <2> QED
    BY <1>1, <2>1, <2>2 DEF SessionContainmentInv, SessionContainment
<1>3. CASE status # "RUNNING"
  <2>1. UNCHANGED vars
    <3>1. ~Running /\ ~Finish
      BY <1>3 DEF Running, Finish
    <3>2. \A op : ~At(op)
      BY <3>1 DEF At, Fetches
    <3>3. Returned
      BY <1>1, <3>1, <3>2
         DEF Next, Nop, Push, Pop, Swap, Plus, Dup, Arith, MovAdd, ArithReg, ArithStack, Rotate,
             RotateReg, RotateStack, Bswap, Inc, Logic, LogicOp, Lea, Cmp, Test, Load, Store,
             Jmp, CondJump, Call, Ret, Syscall, Halt, IllegalInst, BadFetch, WildDump
    <3> QED
      BY <3>3 DEF Returned
  <2>2. status' = status /\ Esp' = Esp /\ program' = program
    BY <2>1 DEF vars, Esp
  <2> QED
    BY <1>1, <1>3, <2>2
       DEF SessionContainmentInv, SessionContainment, RanContained, MayDie, AllNamed
<1> QED
  BY <1>2, <1>3

\* Contained programs keep a machine within its arrays however often it is used,
\* although no call gives it fresh registers.
THEOREM SessionStaysContained == SessionSpec => []SessionContainment
<1>1. SessionInit => SessionContainmentInv
  <2> SUFFICES ASSUME SessionInit PROVE SessionContainmentInv
    OBVIOUS
  <2>1. Esp = 0 /\ status = "RUNNING" /\ ran = {program}
    BY DEF SessionInit, Init, Esp, RegIds, REG_ESP
  <2> QED
    BY <2>1, MachineAssumption DEF SessionContainmentInv, SessionContainment
<1>2. SessionTypeOK /\ SessionContainmentInv /\ [SessionNext]_sessionVars
        => SessionContainmentInv'
  <2> SUFFICES ASSUME SessionTypeOK, SessionContainmentInv, [SessionNext]_sessionVars
               PROVE  SessionContainmentInv'
    OBVIOUS
  <2>1. CASE ApiCall
    BY <2>1, CallContained
  <2>2. CASE Machine
    BY <2>2, RunContained DEF SessionTypeOK
  <2>3. CASE UNCHANGED sessionVars
    BY <2>3 DEF sessionVars, vars, SessionContainmentInv, SessionContainment, RanContained,
                Esp, MayDie, AllNamed
  <2> QED
    BY <2>1, <2>2, <2>3 DEF SessionNext
<1>3. SessionContainmentInv => SessionContainment
  BY DEF SessionContainmentInv
<1> QED
  BY <1>1, <1>2, <1>3, SessionTyped, PTL DEF SessionSpec

-----------------------------------------------------------------------------
(* Memory                                                                    *)

AllZero == \A a \in DOMAIN memory : memory[a] = 0

\* The inductive form: the STORE that has written executes again, and writes
\* the same.
StoreAgain == At("STORE") /\ BothResolve /\ Value(dst) < MemorySize
MemoryInv == AllZero \/ StoreAgain

\* Only STORE writes memory.
LEMMA MemoryKept == [Next]_vars => memory' = memory \/ Store
<1>1. \A s : Return(s) => memory' = memory
  BY DEF Return
<1>2. \A r, s : Continue(r, s) => memory' = memory
  BY DEF Continue
<1>3. \A o : FaultAt(o) => memory' = memory
  BY <1>1 DEF FaultAt
<1>4. Nop \/ Push \/ Pop \/ Swap \/ Plus \/ Dup => memory' = memory
  BY <1>1, <1>2, <1>3 DEF Nop, Push, Pop, Swap, Plus, Dup, TooFew, Reduce
<1>5. Arith => memory' = memory
  BY <1>1, <1>2, <1>3 DEF Arith, MovAdd, ArithReg, ArithStack, TooFew, Reduce
<1>6. Rotate => memory' = memory
  BY <1>1, <1>2, <1>3 DEF Rotate, RotateReg, RotateStack, TooFew
<1>7. Bswap \/ Inc \/ Logic \/ Lea \/ Cmp \/ Test \/ Load => memory' = memory
  BY <1>1, <1>2, <1>3 DEF Bswap, Inc, Logic, LogicOp, Lea, Cmp, Test, Load, FaultIn, Write
<1>8. Jmp \/ CondJump \/ Call \/ Ret => memory' = memory
  BY <1>1, <1>2, <1>3 DEF Jmp, CondJump, Goto, Call, Ret
<1>9. Syscall \/ Halt \/ IllegalInst \/ BadFetch \/ WildDump \/ Finish => memory' = memory
  BY <1>1, <1>2, <1>3 DEF Syscall, Halt, IllegalInst, BadFetch, WildDump, Finish
<1>10. Returned \/ UNCHANGED vars => memory' = memory
  BY DEF Returned, vars
<1> QED
  BY <1>4, <1>5, <1>6, <1>7, <1>8, <1>9, <1>10 DEF Next

\* At a STORE the machine executes it.
LEMMA StoreExecutes == TypeOK /\ At("STORE") /\ Next => Store
<1> SUFFICES ASSUME TypeOK, At("STORE"), Next PROVE Store
  OBVIOUS
<1>1. ~(BadFetch \/ WildDump \/ Finish \/ Returned)
  BY RegsType, MachineAssumption
     DEF BadFetch, WildDump, Finish, Returned, At, Fetches, Running, TypeOK
<1>2. \A op : At(op) => op = "STORE"
  BY DEF At
<1> QED
  BY <1>1, <1>2
     DEF Next, Nop, Push, Pop, Swap, Plus, Dup, Arith, MovAdd, ArithReg, ArithStack, ArithOps,
         Rotate, RotateReg, RotateStack, RotateOps, Bswap, Inc, Logic, LogicOp, LogicOps, Lea,
         Cmp, Test, Load, Jmp, CondJump, CondJumps, FallThroughJumps, StickyJumps, Call, Ret,
         Syscall, Halt, IllegalInst

\* Having written, STORE is where it was.
LEMMA StoreRepeats == TypeOK /\ StoreAgain /\ Store => StoreAgain'
<1> SUFFICES ASSUME TypeOK, StoreAgain, Store PROVE StoreAgain'
  OBVIOUS
<1>1. Fetches /\ BothResolve /\ Value(dst) < MemorySize
  BY DEF StoreAgain, At
<1>2. Value(dst) \in Int
  BY <1>1, InstType, RegsType, ValueType, WordSizeNat DEF Value, BothResolve, Word
<1>3. Loaded /\ UNCHANGED <<regs, halt, status>>
  BY <1>1, <1>2, NoFault, MachineAssumption DEF Store, FaultIn, BothResolve, AfterStore
<1> QED
  BY <1>3 DEF StoreAgain, At, Fetches, Running, Esp, Ip, Inst, dst, src, Loaded, BothResolve,
              Resolves, Faulty, OutOfRegs, InRegs, Field, Value, ValueIn

\* A step of a run.
LEMMA RunKeepsMemory == TypeOK /\ MemoryInv /\ [Next]_vars => MemoryInv'
<1> SUFFICES ASSUME TypeOK, MemoryInv, [Next]_vars PROVE MemoryInv'
  OBVIOUS
<1>1. CASE Store /\ StoreAgain
  BY <1>1, StoreRepeats DEF MemoryInv
<1>2. CASE Store /\ ~StoreAgain
  <2>1. memory' = memory
    BY <1>2 DEF Store, FaultIn, FaultAt, Return, StoreAgain
  <2> QED
    BY <1>2, <2>1 DEF MemoryInv, AllZero
<1>3. CASE ~Store
  <2>1. memory' = memory
    BY <1>3, MemoryKept
  <2>2. CASE AllZero
    BY <2>1, <2>2 DEF MemoryInv, AllZero
  <2>3. CASE StoreAgain
    <3>1. UNCHANGED vars
      BY <1>3, <2>3, StoreExecutes DEF StoreAgain
    <3> QED
      BY <2>3, <3>1 DEF vars, MemoryInv, StoreAgain, At, Fetches, Running, Esp, Ip, Inst, dst, src,
                        BothResolve, Value, ValueIn
  <2> QED
    BY <2>2, <2>3 DEF MemoryInv
<1> QED
  BY <1>1, <1>2, <1>3

\* No run of any number of runs leaves anything in memory.
THEOREM MemoryIsNeverUsed == SessionSpec => []MemoryStaysZero
<1>1. SessionInit => MemoryInv
  BY DEF SessionInit, Init, MemoryInv, AllZero
<1>2. SessionTypeOK /\ MemoryInv /\ [SessionNext]_sessionVars => MemoryInv'
  <2> SUFFICES ASSUME SessionTypeOK, MemoryInv, [SessionNext]_sessionVars
               PROVE  MemoryInv'
    OBVIOUS
  <2>1. CASE ApiCall
    <3>1. AllZero
      BY <2>1 DEF ApiCall, Idle, Errors, MemoryInv, StoreAgain, At, Fetches, Running
    <3>2. memory' = memory \/ memory' = Zeroed(memory, MemorySize)
      BY <2>1 DEF ApiCall, aym_init, aym_bind_label, aym_execute_program, aym_load_inst_from_mem
    <3> QED
      BY <3>1, <3>2 DEF MemoryInv, AllZero, Zeroed
  <2>2. CASE Machine
    BY <2>2, RunKeepsMemory DEF Machine, SessionTypeOK
  <2>3. CASE UNCHANGED sessionVars
    BY <2>3, RunKeepsMemory DEF sessionVars, SessionTypeOK
  <2> QED
    BY <2>1, <2>2, <2>3 DEF SessionNext
<1>3. MemoryInv => MemoryStaysZero
  BY DEF MemoryInv, AllZero, StoreAgain, MemoryStaysZero
<1> QED
  BY <1>1, <1>2, <1>3, SessionTyped, PTL DEF SessionSpec

-----------------------------------------------------------------------------
(* Labels: the table is one that aym_bind_label may have left (Bindings for   *)
(* one call, Resolved for several), and no instruction writes it.            *)

\* Where a name resolves to.
Target(n) == IF n \in DOMAIN label_table THEN label_table[n] - 1 ELSE WordSize - 1

\* A label that is named can always be resolved, to a word.
LEMMA TargetType ==
  ASSUME TypeOK, LabelJump
  PROVE  /\ Resolves(dst) /\ Target(dst.val) \in Word
         /\ \A r : ValueIn(r, dst) = Target(dst.val)
<1>1. Resolves(dst)
  BY DEF LabelJump, Resolves, Faulty, OutOfRegs
<1>2. Target(dst.val) \in Word
  BY WordSizeNat DEF Target, TypeOK, Word
<1> QED
  BY <1>1, <1>2 DEF LabelJump, ValueIn, Target

\* Of the actions only the three that jump are enabled at a jump.
LEMMA JumpExecutes ==
  TypeOK /\ LabelJump /\ Next
    => \/ Jmp \/ Call
       \/ \E op \in CondJumps : At(op) /\ Taken(op) /\ Goto
<1> SUFFICES ASSUME TypeOK, LabelJump, Next
             PROVE  Jmp \/ Call \/ \E op \in CondJumps : At(op) /\ Taken(op) /\ Goto
  OBVIOUS
<1>1. ~(BadFetch \/ WildDump \/ Finish \/ Returned)
  BY RegsType, MachineAssumption
     DEF BadFetch, WildDump, Finish, Returned, LabelJump, Fetches, Running, TypeOK
<1>2. Inst.type \in {"JMP", "CALL"} \cup CondJumps
  BY DEF LabelJump
<1>3. \A op : At(op) => op \in {"JMP", "CALL"} \cup CondJumps
  BY <1>2 DEF At
<1>4. Jmp \/ Call \/ CondJump
  BY <1>1, <1>3
     DEF Next, Nop, Push, Pop, Swap, Plus, Dup, Arith, MovAdd, ArithReg, ArithStack, ArithOps,
         Rotate, RotateReg, RotateStack, RotateOps, Bswap, Inc, Logic, LogicOp, LogicOps, Lea,
         Cmp, Test, Load, Store, CondJumps, FallThroughJumps, StickyJumps, Ret, Syscall, Halt,
         IllegalInst
<1>5. ASSUME NEW op \in CondJumps, At(op)
      PROVE  Taken(op)
  BY <1>5 DEF LabelJump, At, CondJumps, FallThroughJumps, StickyJumps
<1> QED
  BY <1>4, <1>5 DEF CondJump

\* A jump by label that changes a register sets IP to where the label resolves to.
LEMMA LabelJumpTarget ==
  TypeOK /\ LabelJump /\ [Next]_vars /\ regs' # regs => regs'[REG_IP] = Target(dst.val)
<1> SUFFICES ASSUME TypeOK, LabelJump, Next, regs' # regs
             PROVE  regs'[REG_IP] = Target(dst.val)
  BY DEF vars
<1>1. \A r \in RegFile : \A w : Put(r, REG_IP, w)[REG_IP] = w
  BY DEF Put, RegFile, RegIds, REG_IP
<1>2. regs \in RegFile /\ CallRegs \in [RegIds -> Word \cup {Esp, Esp + 2}]
  BY RegsType DEF CallRegs, Put, RegFile
<1>3. \A w : Put(CallRegs, REG_IP, w)[REG_IP] = w
  BY <1>2 DEF Put, RegIds, REG_IP
<1>4. CASE Goto
  <2>1. Continue(Put(regs, REG_IP, Target(dst.val)), stack)
    BY <1>4, TargetType DEF Goto, FaultAt, Value
  <2> QED
    BY <1>1, <1>2, <2>1 DEF Continue
<1>5. CASE Call
  <2>1. regs' = Put(CallRegs, REG_IP, Target(dst.val))
    BY <1>5, TargetType DEF Call, FaultAt, Continue, Return
  <2> QED
    BY <1>3, <2>1
<1> QED
  BY <1>4, <1>5, JumpExecutes DEF Jmp

-----------------------------------------------------------------------------
(* A first run                                                               *)

\* The table is empty, or as aym_bind_label leaves it.
BoundInv == label_table = <<>> \/ label_table \in Bindings(program)

\* A jump or call by label lands on a label of that name, the last one unless
\* labels are many, or where the next fetch is refused.
THEOREM JumpsLand == Spec => LabelJumpsLand
<1>1. Init => BoundInv
  BY DEF Init, BoundInv
<1>2. BoundInv /\ [Next]_vars => BoundInv'
  BY LoadedKept DEF Loaded, BoundInv
<1>3. ASSUME TypeOK, BoundInv, [Next]_vars, LabelJump, regs' # regs
      PROVE  LET to == regs'[REG_IP] + 1 IN
             \/ /\ to \in DOMAIN program /\ Binds(program, to, dst.val)
                /\ Few(program) => \A i \in DOMAIN program : Binds(program, i, dst.val) => i <= to
             \/ to > Len(program) /\ dst.val \notin DOMAIN label_table
  <2> DEFINE to == regs'[REG_IP] + 1
  <2>1. to = Target(dst.val) + 1
    BY <1>3, LabelJumpTarget
  <2> HIDE DEF to
  <2>2. CASE dst.val \in DOMAIN label_table
    <3>1. label_table \in Bindings(program) /\ dst.val \in BoundNames(program)
      BY <1>3, <2>2 DEF BoundInv, Bindings
    <3>2. to = label_table[dst.val]
      BY <1>3, <2>1, <2>2, WordSizeNat DEF Target, TypeOK
    <3>3. to \in DOMAIN program /\ Binds(program, to, dst.val)
      BY <3>1, <3>2 DEF Bindings
    <3>4. Few(program) => \A i \in DOMAIN program : Binds(program, i, dst.val) => i <= to
      BY <1>3, <3>1, <3>2 DEF Bindings, FoundBefore, TypeOK
    <3> QED
      BY <3>3, <3>4 DEF to
  <2>3. CASE dst.val \notin DOMAIN label_table
    <3>1. to > Len(program)
      BY <1>3, <2>1, <2>3, WordSizeNat DEF Target, TypeOK
    <3> QED
      BY <2>3, <3>1 DEF to
  <2> QED
    BY <2>2, <2>3
<1>4. TypeOK /\ BoundInv /\ [Next]_vars
        => [(LabelJump /\ regs' # regs) =>
              LET to == regs'[REG_IP] + 1 IN
              \/ /\ to \in DOMAIN program /\ Binds(program, to, dst.val)
                 /\ Few(program) => \A i \in DOMAIN program : Binds(program, i, dst.val) => i <= to
              \/ to > Len(program) /\ dst.val \notin DOMAIN label_table]_vars
  BY <1>3
<1> QED
  BY <1>1, <1>2, <1>4, TypeCorrect, PTL DEF Spec, LabelJumpsLand

-----------------------------------------------------------------------------
(* A machine that is used again                                              *)

\* One program bound alone has as many labels as it has.
LEMMA FewAlone ==
  ASSUME NEW p \in Seq(Instructions), FewIn(<<p>>)
  PROVE  Few(p)
<1> DEFINE S == {i \in DOMAIN p : p[i].type = "LABEL"}
           T == {1} \X S
           f == [i \in S |-> <<1, i>>]
<1>1. IsFiniteSet(S)
  <2>1. IsFiniteSet(1 .. Len(p))
    BY FS_Interval
  <2>2. S \in SUBSET (1 .. Len(p))
    OBVIOUS
  <2> QED
    BY <2>1, <2>2, FS_Subset
<1>2. UNION {{j} \X {i \in DOMAIN <<p>>[j] : <<p>>[j][i].type = "LABEL"} : j \in DOMAIN <<p>>} = T
  <2>1. DOMAIN <<p>> = {1} /\ <<p>>[1] = p
    OBVIOUS
  <2> QED
    BY <2>1
<1>3. Cardinality(T) = Cardinality(S)
  <2> HIDE DEF S
  <2>1. f \in [S -> T] /\ \A a, b \in S : f[a] = f[b] => a = b
    OBVIOUS
  <2>2. ASSUME NEW t \in T
        PROVE  \E s \in S : f[s] = t
    <3>1. t[2] \in S /\ t = <<1, t[2]>>
      OBVIOUS
    <3> QED
      BY <3>1
  <2>3. f \in Bijection(S, T)
    BY <2>1, <2>2, Fun_IsBij
  <2> QED
    BY <1>1, <2>3, FS_Bijection DEF ExistsBijection
<1> QED
  BY <1>2, <1>3 DEF FewIn, Few

\* What one call leaves in an empty table, in the terms of several.
LEMMA BoundOnce ==
  ASSUME NEW p \in Seq(Instructions), Len(p) < WordSize, NEW t \in Bindings(p)
  PROVE  t \in Resolved(<<p>>)
<1>1. DOMAIN <<p>> = {1} /\ <<p>>[1] = p
  OBVIOUS
<1>2. AllNames(<<p>>) = BoundNames(p)
  BY <1>1 DEF AllNames
<1>3. t \in [BoundNames(p) -> 1 .. WordSize - 1]
  BY WordSizeNat DEF Bindings
<1>4. ASSUME NEW n \in BoundNames(p)
      PROVE  /\ t[n] \in DOMAIN p /\ Binds(p, t[n], n)
             /\ FewIn(<<p>>) => \A i \in DOMAIN p : Binds(p, i, n) => i <= t[n]
  BY <1>4, FewAlone DEF Bindings, FoundBefore
<1> QED
  BY <1>1, <1>2, <1>3, <1>4 DEF Resolved, Newer

\* The table holds what the calls since aym_init have bound.
SessionBoundInv == label_table \in Resolved(bound)

\* Nothing is bound, and the table is empty.
LEMMA NothingBound == << >> \in Resolved(<< >>)
<1>1. AllNames(<< >>) = {}
  BY DEF AllNames
<1> QED
  BY <1>1 DEF Resolved

\* Only aym_init and aym_bind_label write the table.
LEMMA SessionBoundKept == SessionBoundInv /\ [SessionNext]_sessionVars => SessionBoundInv'
<1> SUFFICES ASSUME SessionBoundInv, [SessionNext]_sessionVars PROVE SessionBoundInv'
  OBVIOUS
<1>1. CASE ApiCall /\ aym_init
  BY <1>1, NothingBound DEF aym_init, SessionBoundInv
<1>2. CASE ApiCall /\ aym_bind_label
  BY <1>2 DEF aym_bind_label, SessionBoundInv
<1>3. CASE UNCHANGED <<label_table, bound>>
  BY <1>3 DEF SessionBoundInv
<1>4. Machine => UNCHANGED <<label_table, bound>>
  BY LoadedKept DEF Machine, Loaded
<1>5. ApiCall => aym_init \/ aym_bind_label \/ UNCHANGED <<label_table, bound>>
  BY DEF ApiCall, aym_execute_program, aym_load_inst_from_mem
<1> QED
  BY <1>1, <1>2, <1>3, <1>4, <1>5 DEF SessionNext, sessionVars, vars

\* The machine starts with its program bound, or nothing.
LEMMA SessionBoundInit == SessionInit => SessionBoundInv
<1> SUFFICES ASSUME SessionInit PROVE SessionBoundInv
  OBVIOUS
<1>1. CASE label_table = << >>
  BY <1>1, NothingBound DEF SessionInit, SessionBoundInv
<1>2. CASE label_table # << >>
  <2>1. label_table \in Bindings(program) /\ bound = <<program>>
    BY <1>2 DEF SessionInit, Init
  <2>2. program \in Seq(Instructions) /\ Len(program) < WordSize
    BY InitTypeOK DEF SessionInit, TypeOK
  <2> QED
    BY <2>1, <2>2, BoundOnce DEF SessionBoundInv
<1> QED
  BY <1>1, <1>2

\* A jump by a label that is bound lands on a label of that name of some program
\* bound since aym_init, and on the last one of the program bound last if that
\* is the one that runs and labels are few.
THEOREM SessionJumpsLand == SessionSpec => SessionLabels
<1> DEFINE Lands ==
      LET to == regs'[REG_IP] + 1 IN
      /\ \E j \in DOMAIN bound : to \in DOMAIN bound[j] /\ Binds(bound[j], to, dst.val)
      /\ (bound[Len(bound)] = program /\ dst.val \in BoundNames(program) /\ FewIn(bound)) =>
           /\ to \in DOMAIN program /\ Binds(program, to, dst.val)
           /\ \A i \in DOMAIN program : Binds(program, i, dst.val) => i <= to
<1>1. ASSUME SessionTypeOK, SessionBoundInv, [SessionNext]_sessionVars,
             LabelJump, regs' # regs, dst.val \in AllNames(bound)
      PROVE  Lands
  <2>1. Machine
    BY <1>1 DEF SessionNext, ApiCall, Idle, Errors, LabelJump, Fetches, Running, sessionVars, vars
  <2>2. regs'[REG_IP] = Target(dst.val)
    BY <1>1, <2>1, LabelJumpTarget DEF Machine, SessionTypeOK
  <2>3. dst.val \in DOMAIN label_table /\ label_table[dst.val] \in Nat
    BY <1>1, WordSizeNat DEF SessionBoundInv, Resolved
  <2> DEFINE to == label_table[dst.val]
  <2>4. to = regs'[REG_IP] + 1
    BY <2>2, <2>3 DEF Target
  <2>5. PICK j \in DOMAIN bound :
          /\ to \in DOMAIN bound[j] /\ Binds(bound[j], to, dst.val)
          /\ FewIn(bound) =>
               /\ \A i \in DOMAIN bound[j] : Binds(bound[j], i, dst.val) => i <= to
               /\ \A i \in DOMAIN bound : dst.val \in BoundNames(bound[i]) => Newer(j, i)
    BY <1>1 DEF SessionBoundInv, Resolved
  <2>6. ASSUME bound[Len(bound)] = program, dst.val \in BoundNames(program), FewIn(bound)
        PROVE  bound[j] = program
    <3>1. bound \in Seq(Seq(Instructions)) /\ j \in 1 .. Len(bound) /\ Len(bound) \in DOMAIN bound
      BY <1>1 DEF SessionTypeOK
    <3>2. Newer(j, Len(bound))
      BY <2>5, <2>6, <3>1
    <3>3. j = Len(bound)
      BY <3>1, <3>2 DEF Newer
    <3> QED
      BY <2>6, <3>3
  <2> HIDE DEF to
  <2> QED
    BY <2>4, <2>5, <2>6
<1> HIDE DEF Lands
<1>2. SessionTypeOK /\ SessionBoundInv /\ [SessionNext]_sessionVars
        => [(LabelJump /\ regs' # regs /\ dst.val \in AllNames(bound)) => Lands]_sessionVars
  BY <1>1
<1> QED
  BY <1>2, SessionBoundInit, SessionBoundKept, SessionTyped, PTL
     DEF SessionSpec, SessionLabels, Lands

-----------------------------------------------------------------------------
(* The tables are those of LabelMap                                          *)

Table == INSTANCE LabelMap
         WITH Names <- LabelNames, Exact <- BucketRoom, bindings <- <<>>, answer <- <<>>

\* The labels that binding the programs ps binds, and which of two comes first.
LabelsOf(ps) == UNION {{j} \X {i \in DOMAIN ps[j] : ps[j][i].type = "LABEL"} : j \in DOMAIN ps}
Earlier(x, y) == x[1] < y[1] \/ (x[1] = y[1] /\ x[2] < y[2])
LabelAt(ps, x, n) == x[1] \in DOMAIN ps /\ x[2] \in DOMAIN ps[x[1]] /\ Binds(ps[x[1]], x[2], n)

\* hs is what bind_label is given for them, call by call; f says for which label.
BoundFrom(hs, f, ps) ==
  /\ f \in Bijection(DOMAIN hs, LabelsOf(ps))
  /\ \A j, k \in DOMAIN hs : j < k => Earlier(f[j], f[k])
  /\ \A k \in DOMAIN hs : /\ hs[k].name = ps[f[k][1]][f[k][2]].dst.val
                          /\ hs[k].index = f[k][2] - 1

\* The label x of that name is the last of those of ps.
IsLast(ps, x, n) ==
  /\ \A i \in DOMAIN ps[x[1]] : Binds(ps[x[1]], i, n) => i <= x[2]
  /\ \A j \in DOMAIN ps : n \in BoundNames(ps[j]) => Newer(x[1], j)

LEMMA LabelIs ==
  ASSUME NEW ps, NEW x \in LabelsOf(ps)
  PROVE  /\ x[1] \in DOMAIN ps /\ x[2] \in DOMAIN ps[x[1]] /\ ps[x[1]][x[2]].type = "LABEL"
         /\ x = <<x[1], x[2]>>
<1>1. PICK j \in DOMAIN ps : x \in {j} \X {i \in DOMAIN ps[j] : ps[j][i].type = "LABEL"}
  BY DEF LabelsOf
<1>2. PICK i \in DOMAIN ps[j] : x = <<j, i>> /\ ps[j][i].type = "LABEL"
  BY <1>1
<1> QED
  BY <1>2

\* What is known of the calls: each binds a label, and each label is bound.
LEMMA CallsBind ==
  ASSUME NEW ps, NEW hs, NEW f, BoundFrom(hs, f, ps), NEW n \in LabelNames
  PROVE  \A k \in DOMAIN hs : k \in Table!Of(hs, n) <=> LabelAt(ps, f[k], n)
<1> SUFFICES ASSUME NEW k \in DOMAIN hs PROVE k \in Table!Of(hs, n) <=> LabelAt(ps, f[k], n)
  OBVIOUS
<1>1. f[k] \in LabelsOf(ps)
  BY DEF BoundFrom, Bijection, Injection
<1>2. /\ f[k][1] \in DOMAIN ps /\ f[k][2] \in DOMAIN ps[f[k][1]]
      /\ ps[f[k][1]][f[k][2]].type = "LABEL"
  BY <1>1, LabelIs
<1>3. hs[k].name = ps[f[k][1]][f[k][2]].dst.val
  BY DEF BoundFrom
<1> QED
  BY <1>2, <1>3 DEF Table!Of, LabelAt, Binds

Called(hs, f, j, i, n) == \E k \in Table!Of(hs, n) : f[k] = <<j, i>>

LEMMA LabelCalled ==
  ASSUME NEW ps, NEW hs, NEW f, BoundFrom(hs, f, ps), NEW n \in LabelNames,
         NEW j \in DOMAIN ps, NEW i \in DOMAIN ps[j], Binds(ps[j], i, n)
  PROVE  Called(hs, f, j, i, n)
<1>1. <<j, i>> \in LabelsOf(ps)
  BY DEF LabelsOf, Binds
<1>2. PICK k \in DOMAIN hs : f[k] = <<j, i>>
  BY <1>1 DEF BoundFrom, Bijection, Surjection
<1>3. LabelAt(ps, f[k], n)
  BY <1>2 DEF LabelAt
<1> QED
  BY <1>2, <1>3, CallsBind DEF Called

\* The last call for a name is the one for its last label.
LEMMA LastCall ==
  ASSUME NEW ps \in Seq(Seq(Instructions)), NEW hs, NEW len \in Nat, DOMAIN hs = 1 .. len,
         NEW f, BoundFrom(hs, f, ps), NEW n \in LabelNames, NEW k \in Table!Of(hs, n)
  PROVE  (\A j \in Table!Of(hs, n) : j <= k) <=> IsLast(ps, f[k], n)
<1>1. Table!Of(hs, n) \subseteq DOMAIN hs
  BY DEF Table!Of
<1>2. \A j \in DOMAIN hs : j \in Table!Of(hs, n) <=> LabelAt(ps, f[j], n)
  BY CallsBind
<1>3. \A a, b \in DOMAIN hs : a < b => Earlier(f[a], f[b])
  BY DEF BoundFrom
<1>4. ASSUME NEW x, LabelAt(ps, x, n) PROVE x[1] \in Nat /\ x[2] \in Nat /\ n \in BoundNames(ps[x[1]])
  <2>1. x[1] \in Nat /\ ps[x[1]] \in Seq(Instructions)
    BY <1>4 DEF LabelAt
  <2>2. x[2] \in Nat
    BY <1>4, <2>1 DEF LabelAt
  <2> QED
    BY <1>4, <2>1, <2>2 DEF LabelAt, BoundNames
<1>5. LabelAt(ps, f[k], n)
  BY <1>1, <1>2
<1>6. ASSUME \A j \in Table!Of(hs, n) : j <= k,
             NEW j \in DOMAIN ps, NEW i \in DOMAIN ps[j], Binds(ps[j], i, n)
      PROVE  j <= f[k][1] /\ (j = f[k][1] => i <= f[k][2])
  <2>0. Called(hs, f, j, i, n)
    BY ONLY BoundFrom(hs, f, ps), n \in LabelNames, j \in DOMAIN ps, i \in DOMAIN ps[j],
            <1>6, LabelCalled, Zenon
  <2>1. PICK m \in Table!Of(hs, n) : f[m] = <<j, i>>
    BY <2>0 DEF Called
  <2>2. m = k \/ Earlier(f[m], f[k])
    <3>1. m \in DOMAIN hs /\ k \in DOMAIN hs /\ m <= k
      BY <1>1, <1>6
    <3>2. m = k \/ m < k
      BY <3>1
    <3> QED
      BY <1>3, <3>1, <3>2
  <2>3. f[m][1] = j /\ f[m][2] = i /\ j \in Nat /\ i \in Nat
    BY <1>1, <1>2, <1>4, <2>1
  <2>4. f[k][1] \in Nat /\ f[k][2] \in Nat
    BY <1>4, <1>5
  <2> QED
    BY <2>2, <2>3, <2>4 DEF Earlier
<1>7. ASSUME \A j \in Table!Of(hs, n) : j <= k PROVE IsLast(ps, f[k], n)
  <2>1. f[k][1] \in DOMAIN ps /\ f[k][1] \in Nat
    BY <1>4, <1>5 DEF LabelAt
  <2>2. \A i \in DOMAIN ps[f[k][1]] : Binds(ps[f[k][1]], i, n) => i <= f[k][2]
    BY <1>6, <1>7, <2>1
  <2>3. ASSUME NEW j \in DOMAIN ps, n \in BoundNames(ps[j]) PROVE Newer(f[k][1], j)
    <3>1. PICK i \in DOMAIN ps[j] : Binds(ps[j], i, n)
      BY <2>3 DEF BoundNames
    <3>2. j <= f[k][1] /\ j \in Nat
      BY <1>6, <1>7, <3>1
    <3> QED
      BY <2>1, <3>2 DEF Newer
  <2> QED
    BY <2>2, <2>3 DEF IsLast
<1>8. ASSUME IsLast(ps, f[k], n), NEW j \in Table!Of(hs, n) PROVE j <= k
  <2>1. j \in Nat /\ k \in Nat /\ j \in DOMAIN hs /\ k \in DOMAIN hs
    BY <1>1
  <2>2. LabelAt(ps, f[j], n)
    BY <1>2, <2>1
  <2>3. /\ f[j][1] \in Nat /\ f[j][2] \in Nat /\ f[k][1] \in Nat /\ f[k][2] \in Nat
        /\ n \in BoundNames(ps[f[j][1]])
    BY <1>4, <1>5, <2>2
  <2>4. f[k][1] >= f[j][1] /\ (f[j][1] = f[k][1] => f[j][2] <= f[k][2])
    BY <1>8, <2>2, <2>3 DEF IsLast, Newer, LabelAt
  <2>5. ~Earlier(f[k], f[j])
    BY <2>3, <2>4 DEF Earlier
  <2> QED
    BY <1>3, <2>1, <2>5
<1> QED
  BY <1>7, <1>8

\* A finite number of calls: as many as there are labels.
LEMMA CallsCounted ==
  ASSUME NEW ps, NEW hs, NEW len \in Nat, DOMAIN hs = 1 .. len, len = Len(hs),
         NEW f, BoundFrom(hs, f, ps)
  PROVE  FewIn(ps) <=> Len(hs) < BucketRoom
<1>1. PICK S, T : S = 1 .. len /\ T = LabelsOf(ps) /\ f \in Bijection(S, T)
  BY DEF BoundFrom
<1>2. 1 \in Int /\ len \in Int
  OBVIOUS
<1>3. IsFiniteSet(1 .. len) /\ Cardinality(1 .. len) = IF 1 > len THEN 0 ELSE len - 1 + 1
  BY ONLY <1>2, FS_Interval
<1>4. IsFiniteSet(S) /\ Cardinality(S) = len
  BY <1>1, <1>3
<1>5. Cardinality(T) = Cardinality(S)
  BY <1>1, <1>4, FS_Bijection DEF ExistsBijection
<1> QED
  BY <1>1, <1>4, <1>5 DEF FewIn, LabelsOf

\* The tables that aym_bind_label may leave, after any number of calls for any
\* programs, are those that answer each name bound as LabelMap lets the label
\* table answer once it has been given these labels, one bind_label after the
\* other; and a name that was not bound is not found.
THEOREM TablesAreLookups ==
  ASSUME NEW ps \in Seq(Seq(Instructions)), NEW hs \in Seq([name : Word, index : Nat]), NEW f,
         BoundFrom(hs, f, ps), NEW t \in [AllNames(ps) -> 1 .. WordSize - 1]
  PROVE  /\ t \in Resolved(ps) <=> \A n \in AllNames(ps) : t[n] - 1 \in Table!Answers(hs, n)
         /\ \A n \in LabelNames \ AllNames(ps) : Table!Answers(hs, n) = {Table!NotFound}
<1>1. PICK len \in Nat : len = Len(hs) /\ DOMAIN hs = 1 .. len
  OBVIOUS
<1>2. FewIn(ps) <=> Len(hs) < BucketRoom
  BY <1>1, CallsCounted
<1>3. AllNames(ps) \subseteq LabelNames
  BY DEF AllNames, BoundNames
<1>4. ASSUME NEW n \in LabelNames
      PROVE  n \in AllNames(ps) <=> Table!Of(hs, n) # {}
  <2>1. n \in AllNames(ps) <=> \E j \in DOMAIN ps : \E i \in DOMAIN ps[j] : Binds(ps[j], i, n)
    BY DEF AllNames, BoundNames
  <2>2. ASSUME NEW k \in Table!Of(hs, n)
        PROVE  \E j \in DOMAIN ps : \E i \in DOMAIN ps[j] : Binds(ps[j], i, n)
    <3>1. LabelAt(ps, f[k], n)
      BY CallsBind DEF Table!Of
    <3> QED
      BY <3>1 DEF LabelAt
  <2>3. ASSUME NEW j \in DOMAIN ps, NEW i \in DOMAIN ps[j], Binds(ps[j], i, n)
        PROVE  Table!Of(hs, n) # {}
    BY <2>3, LabelCalled DEF Called
  <2> QED
    BY <2>1, <2>2, <2>3
<1>5. ASSUME NEW n \in AllNames(ps)
      PROVE  t[n] - 1 \in Table!Answers(hs, n)
               <=> \E j \in DOMAIN ps :
                     /\ t[n] \in DOMAIN ps[j] /\ Binds(ps[j], t[n], n)
                     /\ FewIn(ps) => IsLast(ps, <<j, t[n]>>, n)
  <2>1. n \in LabelNames /\ Table!Of(hs, n) # {} /\ t[n] \in Nat
    BY <1>3, <1>4
  <2>2. t[n] - 1 \in Table!Answers(hs, n)
          <=> \E k \in DOMAIN hs : Table!MayFind(hs, n, k) /\ hs[k].index = t[n] - 1
    BY <2>1 DEF Table!Answers
  <2>3. ASSUME NEW k \in DOMAIN hs, Table!MayFind(hs, n, k), hs[k].index = t[n] - 1
        PROVE  \E j \in DOMAIN ps :
                 /\ t[n] \in DOMAIN ps[j] /\ Binds(ps[j], t[n], n)
                 /\ FewIn(ps) => IsLast(ps, <<j, t[n]>>, n)
    <3>1. k \in Table!Of(hs, n) /\ LabelAt(ps, f[k], n)
      BY <2>1, <2>3, CallsBind DEF Table!MayFind
    <3>2. f[k][2] = t[n] /\ f[k] = <<f[k][1], t[n]>>
      <4>1. f[k] \in LabelsOf(ps)
        BY DEF BoundFrom, Bijection, Injection
      <4>2. f[k] = <<f[k][1], f[k][2]>> /\ f[k][1] \in DOMAIN ps /\ f[k][2] \in DOMAIN ps[f[k][1]]
        BY <4>1, LabelIs
      <4>3. ps[f[k][1]] \in Seq(Instructions)
        BY <4>2
      <4>4. f[k][2] \in Nat
        BY <4>2, <4>3
      <4>5. f[k][2] - 1 = t[n] - 1
        BY <2>3 DEF BoundFrom
      <4>6. f[k][2] = t[n]
        BY <2>1, <4>4, <4>5
      <4> QED
        BY <4>2, <4>6
    <3>3. FewIn(ps) => IsLast(ps, f[k], n)
      <4>1. (\A j \in Table!Of(hs, n) : j <= k) <=> IsLast(ps, f[k], n)
        BY <1>1, <2>1, <3>1, LastCall
      <4> QED
        BY <1>2, <2>3, <4>1 DEF Table!MayFind
    <3> QED
      BY <3>1, <3>2, <3>3 DEF LabelAt
  <2>4. ASSUME NEW j \in DOMAIN ps, t[n] \in DOMAIN ps[j], Binds(ps[j], t[n], n),
               FewIn(ps) => IsLast(ps, <<j, t[n]>>, n)
        PROVE  \E k \in DOMAIN hs : Table!MayFind(hs, n, k) /\ hs[k].index = t[n] - 1
    <3>1. PICK k \in Table!Of(hs, n) : f[k] = <<j, t[n]>>
      <4>1. PICK i \in DOMAIN ps[j] : i = t[n] /\ Binds(ps[j], i, n)
        BY <2>4
      <4>2. i \in DOMAIN ps[j] /\ Binds(ps[j], i, n)
        BY <2>4, <4>1
      <4>3. Called(hs, f, j, i, n)
        BY ONLY BoundFrom(hs, f, ps), <2>1, j \in DOMAIN ps, <4>2,
                LabelCalled, Zenon
      <4> QED
        BY <4>1, <4>3 DEF Called
    <3>2. k \in DOMAIN hs
      BY DEF Table!Of
    <3>3. hs[k].index = t[n] - 1
      BY <3>1, <3>2 DEF BoundFrom
    <3>4. Table!MayFind(hs, n, k)
      <4>1. (\A m \in Table!Of(hs, n) : m <= k) <=> IsLast(ps, f[k], n)
        BY <1>1, <2>1, <3>1, LastCall
      <4> QED
        BY <1>2, <2>4, <3>1, <4>1 DEF Table!MayFind
    <3> QED
      BY <3>2, <3>3, <3>4
  <2> QED
    BY <2>2, <2>3, <2>4
<1>6. t \in Resolved(ps)
        <=> \A n \in AllNames(ps) : \E j \in DOMAIN ps :
              /\ t[n] \in DOMAIN ps[j] /\ Binds(ps[j], t[n], n)
              /\ FewIn(ps) => IsLast(ps, <<j, t[n]>>, n)
  BY DEF Resolved, IsLast
<1>7. \A n \in LabelNames \ AllNames(ps) : Table!Answers(hs, n) = {Table!NotFound}
  BY <1>4 DEF Table!Answers
<1> QED
  BY <1>5, <1>6, <1>7

-----------------------------------------------------------------------------
(* A program that is run again                                               *)

\* The value of an operand when t is the label table.
ValueBy(t, o) ==
  CASE o.type = "IMM" -> o.val
    [] o.type = "REG" -> regs[Field(o)]
    [] OTHER -> IF o.val \in DOMAIN t THEN t[o.val] - 1 ELSE WordSize - 1

\* The instruction i returns the error s and does nothing else.
Fails(i, t, s) ==
  \/ i.type = "ILLEGAL" /\ s = "ERR_ILLEGAL_INST"
  \/ i.type = "PUSH" /\ Field(i.dst) # 0 /\ Esp < 1 /\ s = "ERR_STACK_UNDERFLOW"
  \/ i.type = "PUSH" /\ Field(i.dst) = 0 /\ Full /\ s = "ERR_STACK_OVERFLOW"
  \/ i.type \in {"POP", "RET"} /\ Esp < 1 /\ s = "ERR_STACK_UNDERFLOW"
  \/ i.type \in {"SWAP", "PLUS"} /\ Esp < 2 /\ s = "ERR_STACK_UNDERFLOW"
  \/ /\ i.type \in ArithOps \cup RotateOps /\ Field(i.dst) = 0
     /\ Esp < 2 /\ s = "ERR_STACK_UNDERFLOW"
  \/ i.type \in {"DUP", "CALL"} /\ Full /\ s = "ERR_STACK_OVERFLOW"
  \/ /\ i.type = "DUP" /\ ~Full /\ Resolves(i.dst) /\ ValueBy(t, i.dst) = Esp
     /\ s = "ERR_STACK_UNDERFLOW"
  \/ /\ i.type \in {"MOV", "ADD", "INC"} \cup ArithOps \cup RotateOps
     /\ i.type \in ArithOps \cup RotateOps => Field(i.dst) # 0
     /\ i.dst.type # "REG" /\ s = "ERR_ILLEGAL_OPERAND_TYPE"
  \/ /\ i.type = "DIV" /\ Field(i.dst) # 0 /\ i.dst.type = "REG" /\ Resolves(i.src)
     /\ ValueBy(t, i.src) = 0 /\ s = "ERR_DIV_BY_ZERO"
  \/ i.type = "DIV" /\ Field(i.dst) = 0 /\ Esp >= 2 /\ Top = 0 /\ s = "ERR_DIV_BY_ZERO"
  \/ i.type = "SYSCALL" /\ LowUnsigned(regs[REG_0]) > 4 /\ s = "ERR_UNKOWN_SYSCALL"

\* The program p, executed from here with the label table t, returns s at once.
Repeats(p, t, s) ==
  /\ Esp <= StackSize
  /\ \/ s = "ERR_OK" /\ Ip < Len(p) /\ p[Ip + 1].type = "HALT"
     \/ ~halt /\ s = "ERR_ILLEGAL_INST_ACCESS" /\ Ip >= Len(p)
     \/ ~halt /\ Ip < Len(p) /\ Fails(p[Ip + 1], t, s)

LEMMA ValueByIs == \A o : ValueBy(label_table, o) = Value(o)
BY DEF ValueBy, Value, ValueIn

\* An error is none of the other outcomes.
LEMMA ErrorsAre == Errors \cap {"RUNNING", "ERR_OK", "CRASH", "WILD"} = {}
BY DEF Errors

\* What fails in a run fails again in the next: the instruction does what it did.
LEMMA FailsAgain ==
  ASSUME TypeOK, Fetches, Next, NEW s, Fails(Inst, label_table, s)
  PROVE  Return(s)
<1>1. Esp \in Nat /\ StackSize \in Nat
  BY RegsType, MachineAssumption
<1>2. ~Nop /\ ~Bswap /\ ~Lea /\ ~Cmp /\ ~Test /\ ~Load /\ ~Store /\ ~Jmp /\ ~Halt
  BY DEF Fails, Nop, Bswap, Lea, Cmp, Test, Load, Store, Jmp, Halt, At, ArithOps, RotateOps
<1>3. ~Logic /\ ~CondJump
  BY DEF Fails, Logic, LogicOp, CondJump, At, ArithOps, RotateOps, LogicOps, CondJumps,
         FallThroughJumps, StickyJumps
<1>4. ~BadFetch /\ ~WildDump /\ ~Finish /\ ~Returned
  BY RegsType, MachineAssumption
     DEF BadFetch, WildDump, Finish, Returned, Fetches, Running, TypeOK
<1>5. Push => Return(s)
  <2>1. Push => Inst.type = "PUSH"
    BY DEF Push, At
  <2> QED
    BY <1>1, <2>1 DEF Fails, Push, Full, dst, ArithOps, RotateOps
<1>6. Pop => Return(s)
  <2>1. Pop => Inst.type = "POP"
    BY DEF Pop, At
  <2> SUFFICES ASSUME Pop PROVE Return(s)
    OBVIOUS
  <2>2. Esp < 1 /\ s = "ERR_STACK_UNDERFLOW"
    BY <2>1 DEF Fails, ArithOps, RotateOps
  <2>3. CASE Field(dst) # 0
    BY <1>1, <2>2, <2>3 DEF Pop
  <2>4. CASE Field(dst) = 0
    <3>1. PopTop(regs) = regs /\ NoneLeft(regs)
      BY <1>1, <2>2, <2>4 DEF PopTop, NoneLeft, Esp
    <3> QED
      BY <2>2, <2>4, <3>1 DEF Pop, Return
  <2> QED
    BY <2>3, <2>4
<1>7. Swap \/ Plus => Return(s)
  <2>1. Swap \/ Plus => Inst.type \in {"SWAP", "PLUS"}
    BY DEF Swap, Plus, At
  <2> QED
    BY <1>1, <2>1 DEF Fails, Swap, Plus, TooFew, ArithOps, RotateOps
<1>8. Dup => Return(s)
  <2>1. Dup => Inst.type = "DUP"
    BY DEF Dup, At
  <2>2. Dup => \/ Full /\ s = "ERR_STACK_OVERFLOW"
               \/ /\ ~Full /\ Resolves(dst) /\ Value(dst) = Esp
                  /\ s = "ERR_STACK_UNDERFLOW"
    BY <2>1, ValueByIs DEF Fails, dst, ArithOps, RotateOps
  <2> QED
    BY <1>1, <2>2, NoFault DEF Dup
<1>9. ASSUME NEW op \in ArithOps \cup {"MOV", "ADD"}, ArithReg(op) PROVE Return(s)
  <2>1. Inst.type = op /\ (op \in ArithOps => Field(dst) # 0)
    BY <1>9 DEF ArithReg, At
  <2>2. \/ dst.type # "REG" /\ s = "ERR_ILLEGAL_OPERAND_TYPE"
        \/ /\ op = "DIV" /\ dst.type = "REG" /\ Resolves(src) /\ Value(src) = 0
           /\ s = "ERR_DIV_BY_ZERO"
    BY <2>1, ValueByIs DEF Fails, dst, src, ArithOps, RotateOps
  <2> QED
    BY <1>9, <2>2, NoFault DEF ArithReg, DivByZero
<1>10. ASSUME NEW op \in ArithOps, ArithStack(op) PROVE Return(s)
  <2>1. Inst.type = op /\ Field(dst) = 0
    BY <1>10 DEF ArithStack, At
  <2>2. \/ Esp < 2 /\ s = "ERR_STACK_UNDERFLOW"
        \/ op = "DIV" /\ Esp >= 2 /\ Top = 0 /\ s = "ERR_DIV_BY_ZERO"
    BY <2>1 DEF Fails, dst, ArithOps, RotateOps
  <2> QED
    BY <1>1, <1>10, <2>2 DEF ArithStack, DivByZero, TooFew
<1>11. ASSUME NEW op \in RotateOps, RotateReg(op) \/ RotateStack(op) PROVE Return(s)
  <2>1. Inst.type = op
    BY <1>11 DEF RotateReg, RotateStack, At
  <2>2. \/ Field(dst) = 0 /\ Esp < 2 /\ s = "ERR_STACK_UNDERFLOW"
        \/ Field(dst) # 0 /\ dst.type # "REG" /\ s = "ERR_ILLEGAL_OPERAND_TYPE"
    BY <2>1 DEF Fails, dst, ArithOps, RotateOps
  <2> QED
    BY <1>1, <1>11, <2>2 DEF RotateReg, RotateStack, TooFew
<1>12. Inc => Return(s)
  <2>1. Inc => Inst.type = "INC"
    BY DEF Inc, At
  <2> QED
    BY <2>1 DEF Fails, Inc, dst, ArithOps, RotateOps
<1>13. Call \/ Ret => Return(s)
  <2>1. /\ Call => Inst.type = "CALL"
        /\ Ret => Inst.type = "RET"
    BY DEF Call, Ret, At
  <2>2. /\ Call => Full /\ s = "ERR_STACK_OVERFLOW"
        /\ Ret => Esp < 1 /\ s = "ERR_STACK_UNDERFLOW"
    BY <2>1 DEF Fails, ArithOps, RotateOps
  <2> QED
    BY <1>1, <2>2 DEF Call, Ret, Full
<1>14. Syscall => Return(s)
  <2>1. Syscall => Inst.type = "SYSCALL"
    BY DEF Syscall, At
  <2>2. Syscall => LowUnsigned(regs[REG_0]) > 4 /\ s = "ERR_UNKOWN_SYSCALL"
    BY <2>1 DEF Fails, ArithOps, RotateOps
  <2> QED
    BY <2>2 DEF Syscall
<1>15. IllegalInst => Return(s)
  <2>1. IllegalInst => Inst.type = "ILLEGAL"
    BY DEF IllegalInst, At
  <2> QED
    BY <2>1 DEF Fails, IllegalInst, ArithOps, RotateOps
<1> QED
  BY <1>2, <1>3, <1>4, <1>5, <1>6, <1>7, <1>8, <1>9, <1>10, <1>11, <1>12, <1>13, <1>14, <1>15
     DEF Next, Arith, MovAdd, Rotate

\* The last turn of a run that returns an error and leaves IP where it was.
LEMMA FailsBecause ==
  ASSUME TypeOK, Fetches, Next, status' \in Errors, regs'[REG_IP] = Ip,
         NEW i, i = Inst, NEW t, t = label_table, NEW s, s = status'
  PROVE  Fails(i, t, s)'
<1>1. /\ s \notin {"RUNNING", "ERR_OK", "CRASH", "WILD"} /\ status = "RUNNING"
      /\ Esp \in Nat /\ StackSize \in Nat
  BY ErrorsAre, RegsType, MachineAssumption DEF Fetches, Running
<1>2. \A o : ~FaultAt(o)
  BY <1>1 DEF FaultAt, Return
<1>3. \A r, st : ~Continue(r, st)
  BY <1>1 DEF Continue
<1>4. \A w : ~Return(w) \/ w = s
  BY DEF Return
<1>5. ASSUME Fails(i, t, s), UNCHANGED <<regs, stack>> PROVE Fails(i, t, s)'
  BY <1>5 DEF Fails, ValueBy, Esp, Full, Top
<1>6. ASSUME Fails(i, t, s), Return(s) PROVE Fails(i, t, s)'
  BY <1>5, <1>6 DEF Return
<1>7. ~Nop /\ ~Bswap /\ ~Jmp /\ ~Halt /\ ~CondJump
  BY <1>1, <1>2, <1>3 DEF Nop, Bswap, Jmp, Halt, CondJump, Goto
<1>8. ~Lea /\ ~Cmp /\ ~Test /\ ~Load /\ ~Store /\ ~Logic
  <2>1. \A w : ~Write(w)
    BY <1>1, <1>3 DEF Write, Return
  <2> QED
    BY <1>1, <1>2, <1>3, <2>1
       DEF Lea, Cmp, Test, Load, Store, Logic, LogicOp, FaultIn, Return
<1>9. ~BadFetch /\ ~WildDump /\ ~Finish /\ ~Returned
  BY RegsType, MachineAssumption
     DEF BadFetch, WildDump, Finish, Returned, Fetches, Running, TypeOK
<1>10. ASSUME Push PROVE Fails(i, t, s)'
  <2>1. Inst.type = "PUSH"
    BY <1>10 DEF Push, At
  <2>2. \/ Field(dst) # 0 /\ Esp < 1 /\ Return("ERR_STACK_UNDERFLOW")
        \/ Field(dst) = 0 /\ Full /\ Return("ERR_STACK_OVERFLOW")
    BY <1>1, <1>2, <1>3, <1>4, <1>10 DEF Push
  <2>3. Fails(i, t, s) /\ Return(s)
    BY <1>4, <2>1, <2>2 DEF Fails, dst
  <2> QED
    BY <1>6, <2>3
<1>11. ASSUME Pop PROVE Fails(i, t, s)'
  <2>1. Inst.type = "POP"
    BY <1>11 DEF Pop, At
  <2>2. \/ Esp < 1 /\ Return("ERR_STACK_UNDERFLOW")
        \/ /\ NoneLeft(PopTop(regs)) /\ regs' = PopTop(regs)
           /\ s = "ERR_STACK_UNDERFLOW"
    BY <1>1, <1>3, <1>4, <1>11 DEF Pop
  <2>3. ASSUME Esp < 1, Return("ERR_STACK_UNDERFLOW") PROVE Fails(i, t, s)'
    BY <1>4, <1>6, <2>1, <2>3 DEF Fails
  <2>4. ASSUME NoneLeft(PopTop(regs)), regs' = PopTop(regs), s = "ERR_STACK_UNDERFLOW"
        PROVE  Fails(i, t, s)'
    <3>2. Esp' <= 0 /\ Esp' \in Nat
      <4>1. regs' \in [RegIds -> Word]
        BY NextTypeOK DEF TypeOK
      <4> QED
        BY <2>4, <4>1, WordSizeNat DEF NoneLeft, Esp, RegIds, REG_ESP, Word
    <3> QED
      BY <2>1, <2>4, <3>2 DEF Fails
  <2> QED
    BY <2>2, <2>3, <2>4
<1>12. ASSUME Swap \/ Plus PROVE Fails(i, t, s)'
  <2>1. Inst.type \in {"SWAP", "PLUS"}
    BY <1>12 DEF Swap, Plus, At
  <2>2. TooFew
    BY <1>3, <1>12 DEF Swap, Plus, Reduce
  <2>3. Fails(i, t, s) /\ Return(s)
    BY <1>4, <2>1, <2>2 DEF Fails, TooFew
  <2> QED
    BY <1>6, <2>3
<1>13. ASSUME Dup PROVE Fails(i, t, s)'
  <2>1. Inst.type = "DUP"
    BY <1>13 DEF Dup, At
  <2>2. \/ Full /\ Return("ERR_STACK_OVERFLOW")
        \/ ~Full /\ Resolves(dst) /\ Value(dst) = Esp /\ Return("ERR_STACK_UNDERFLOW")
    BY <1>1, <1>2, <1>3, <1>4, <1>13 DEF Dup
  <2>3. Fails(i, t, s) /\ Return(s)
    BY <1>4, <2>1, <2>2, ValueByIs DEF Fails, dst
  <2> QED
    BY <1>6, <2>3
<1>14. ASSUME NEW op \in ArithOps \cup {"MOV", "ADD"}, ArithReg(op) PROVE Fails(i, t, s)'
  <2>1. Inst.type = op /\ (op \in ArithOps => Field(dst) # 0)
    BY <1>14 DEF ArithReg, At
  <2>2. \/ dst.type # "REG" /\ Return("ERR_ILLEGAL_OPERAND_TYPE")
        \/ /\ dst.type = "REG" /\ Resolves(src) /\ DivByZero(op, Value(src))
           /\ Return("ERR_DIV_BY_ZERO")
    BY <1>1, <1>2, <1>3, <1>4, <1>14 DEF ArithReg
  <2>3. op \notin RotateOps
    BY DEF ArithOps, RotateOps
  <2>4. Fails(i, t, s) /\ Return(s)
    BY <1>4, <2>1, <2>2, <2>3, ValueByIs DEF Fails, dst, src, DivByZero, ArithOps
  <2> QED
    BY <1>6, <2>4
<1>15. ASSUME NEW op \in ArithOps, ArithStack(op) PROVE Fails(i, t, s)'
  <2>1. Inst.type = op /\ Field(dst) = 0
    BY <1>15 DEF ArithStack, At
  <2>2. \/ TooFew
        \/ Esp >= 2 /\ DivByZero(op, Top) /\ Return("ERR_DIV_BY_ZERO")
    BY <1>1, <1>3, <1>4, <1>15 DEF ArithStack, Reduce
  <2>3. Fails(i, t, s) /\ Return(s)
    BY <1>4, <2>1, <2>2 DEF Fails, dst, DivByZero, TooFew
  <2> QED
    BY <1>6, <2>3
<1>16. ASSUME NEW op \in RotateOps, RotateReg(op) \/ RotateStack(op) PROVE Fails(i, t, s)'
  <2>1. Inst.type = op
    BY <1>16 DEF RotateReg, RotateStack, At
  <2>2. \/ Field(dst) # 0 /\ dst.type # "REG" /\ Return("ERR_ILLEGAL_OPERAND_TYPE")
        \/ Field(dst) = 0 /\ TooFew
    BY <1>2, <1>3, <1>16 DEF RotateReg, RotateStack
  <2>3. Fails(i, t, s) /\ Return(s)
    BY <1>4, <2>1, <2>2 DEF Fails, dst, TooFew
  <2> QED
    BY <1>6, <2>3
<1>17. ASSUME Inc PROVE Fails(i, t, s)'
  <2>1. Inst.type = "INC" /\ dst.type # "REG" /\ Return("ERR_ILLEGAL_OPERAND_TYPE")
    BY <1>1, <1>3, <1>4, <1>17 DEF Inc, At
  <2>2. Fails(i, t, s) /\ Return(s)
    BY <1>4, <2>1 DEF Fails, dst, ArithOps, RotateOps
  <2> QED
    BY <1>6, <2>2
<1>18. ASSUME Call \/ Ret PROVE Fails(i, t, s)'
  <2>1. \/ Inst.type = "CALL" /\ Full /\ Return("ERR_STACK_OVERFLOW")
        \/ Inst.type = "RET" /\ Esp < 1 /\ Return("ERR_STACK_UNDERFLOW")
    BY <1>1, <1>2, <1>3, <1>4, <1>18 DEF Call, Ret, At
  <2>2. Fails(i, t, s) /\ Return(s)
    BY <1>4, <2>1 DEF Fails
  <2> QED
    BY <1>6, <2>2
<1>19. ASSUME Syscall PROVE Fails(i, t, s)'
  <2>1. /\ Inst.type = "SYSCALL" /\ LowUnsigned(regs[REG_0]) > 4
        /\ Return("ERR_UNKOWN_SYSCALL")
    BY <1>1, <1>3, <1>4, <1>19 DEF Syscall, At
  <2>2. Fails(i, t, s) /\ Return(s)
    BY <1>4, <2>1 DEF Fails
  <2> QED
    BY <1>6, <2>2
<1>20. ASSUME IllegalInst PROVE Fails(i, t, s)'
  <2>1. Inst.type = "ILLEGAL" /\ Return("ERR_ILLEGAL_INST")
    BY <1>20 DEF IllegalInst, At
  <2>2. Fails(i, t, s) /\ Return(s)
    BY <1>4, <2>1 DEF Fails
  <2> QED
    BY <1>6, <2>2
<1> QED
  BY <1>7, <1>8, <1>9, <1>10, <1>11, <1>12, <1>13, <1>14, <1>15, <1>16, <1>17, <1>18, <1>19, <1>20
     DEF Next, Arith, MovAdd, Rotate

\* HALT is executed by its own action.
LEMMA HaltExecutes == TypeOK /\ At("HALT") /\ Next => Halt
<1> SUFFICES ASSUME TypeOK, At("HALT"), Next PROVE Halt
  OBVIOUS
<1>1. Fetches /\ Inst.type = "HALT"
  BY DEF At
<1>2. ~BadFetch /\ ~WildDump /\ ~Finish /\ ~Returned
  BY <1>1, RegsType, MachineAssumption
     DEF BadFetch, WildDump, Finish, Returned, Fetches, Running, TypeOK
<1> QED
  BY <1>1, <1>2 DEF Next, At, Nop, Push, Pop, Swap, Plus, Dup, Arith, MovAdd, ArithReg,
                    ArithStack, Rotate, RotateReg, RotateStack, Bswap, Inc, Logic, LogicOp, Lea,
                    Cmp, Test, Load, Store, Jmp, CondJump, Call, Ret, Syscall, IllegalInst,
                    ArithOps, RotateOps, LogicOps, CondJumps, FallThroughJumps, StickyJumps

\* A turn that executes an instruction does not end the run with ERR_OK, sets
\* halt only where it goes on, and leaves no more than it found where it ends.
Executed ==
  /\ status' # "ERR_OK"
  /\ halt' = halt \/ (status' = "RUNNING" /\ Esp' = Esp)
  /\ status' = "RUNNING" \/ Esp' <= Esp

LEMMA ReturnTurns ==
  ASSUME TypeOK, Fetches, NEW s, s # "ERR_OK", Return(s)
  PROVE  Executed
BY RegsType DEF Executed, Return, Esp

LEMMA ContinueTurns ==
  ASSUME Fetches, NEW r, NEW st, Continue(r, st)
  PROVE  Executed
BY DEF Executed, Continue, Fetches, Running

LEMMA FaultTurns ==
  ASSUME TypeOK, Fetches, NEW o, FaultAt(o)
  PROVE  Executed
BY ReturnTurns DEF FaultAt

\* Every turn that executes an instruction is one of these.
LEMMA FetchedTurns == TypeOK /\ Fetches /\ Next => Executed
<1> SUFFICES ASSUME TypeOK, Fetches, Next PROVE Executed
  OBVIOUS
<1>1. /\ \A s : s # "ERR_OK" /\ Return(s) => Executed
      /\ \A r, st : Continue(r, st) => Executed
      /\ \A o : FaultAt(o) => Executed
  BY ReturnTurns, ContinueTurns, FaultTurns
<1>2. Running /\ status = "RUNNING" /\ ~halt
  BY DEF Fetches, Running
<1>3. ~BadFetch /\ ~WildDump /\ ~Finish /\ ~Returned
  BY <1>2, RegsType, MachineAssumption
     DEF BadFetch, WildDump, Finish, Returned, Fetches, TypeOK
<1>4. Nop \/ Push \/ Swap \/ Plus \/ Dup => Executed
  BY <1>1 DEF Nop, Push, Swap, Plus, Dup, TooFew, Reduce
<1>5. Pop => Executed
  <2> SUFFICES ASSUME Pop, NoneLeft(PopTop(regs)), regs' = PopTop(regs),
                      status' = "ERR_STACK_UNDERFLOW", halt' = halt
               PROVE  Executed
    BY <1>1 DEF Pop
  <2>1. Esp' \in Nat /\ Esp' <= 0
    <3>1. regs' \in [RegIds -> Word]
      BY NextTypeOK DEF TypeOK
    <3> QED
      BY <3>1, WordSizeNat DEF NoneLeft, Esp, RegIds, REG_ESP, Word
  <2> QED
    BY <2>1, RegsType DEF Executed
<1>6. Arith \/ Rotate => Executed
  BY <1>1 DEF Arith, MovAdd, ArithReg, ArithStack, Rotate, RotateReg, RotateStack, TooFew,
              Reduce
<1>7. Bswap \/ Inc \/ Logic \/ Lea \/ Cmp \/ Test \/ Load => Executed
  BY <1>1 DEF Bswap, Inc, Logic, LogicOp, Lea, Cmp, Test, Load, FaultIn, Write
<1>8. Store => Executed
  <2> SUFFICES ASSUME Store, halt' = halt, status' = status PROVE Executed
    BY <1>1 DEF Store, FaultIn
  <2> QED
    BY <1>2 DEF Executed
<1>9. Jmp \/ CondJump \/ Call \/ Ret \/ IllegalInst => Executed
  BY <1>1 DEF Jmp, CondJump, Goto, Call, Ret, IllegalInst
<1>10. Syscall => Executed
  <2> SUFFICES ASSUME Syscall, status' = status,
                      halt' = halt \/ regs' = Step(regs)
               PROVE  Executed
    BY <1>1 DEF Syscall
  <2>1. Step(regs)[REG_ESP] = Esp
    BY RegsType, EspAfter DEF Esp
  <2> QED
    BY <1>2, <2>1 DEF Executed, Esp
<1>11. Halt => Executed
  BY <1>2 DEF Halt, Executed, Esp
<1> QED
  BY <1>3, <1>4, <1>5, <1>6, <1>7, <1>8, <1>9, <1>10, <1>11 DEF Next

\* A run that has ended stays as it is.
LEMMA EndedStill ==
  ASSUME Next, status # "RUNNING"
  PROVE  UNCHANGED vars
<1>1. ~Running /\ \A op : ~At(op)
  BY DEF Running, At, Fetches
<1>2. Returned
  BY <1>1 DEF Next, Nop, Push, Pop, Swap, Plus, Dup, Arith, MovAdd, ArithReg, ArithStack,
              Rotate, RotateReg, RotateStack, Bswap, Inc, Logic, LogicOp, Lea, Cmp, Test, Load,
              Store, Jmp, CondJump, Call, Ret, Syscall, Halt, IllegalInst, BadFetch, WildDump,
              Finish
<1> QED
  BY <1>2 DEF Returned

\* Whatever sets halt, the stack has been dumped before: ESP is within it.
Dumped == halt => Esp <= StackSize

LEMMA HaltKept == TypeOK /\ Next /\ Dumped => Dumped'
<1> SUFFICES ASSUME TypeOK, Next, Dumped PROVE Dumped'
  OBVIOUS
<1>1. CASE status # "RUNNING"
  BY <1>1, EndedStill DEF vars, Dumped, Esp
<1>2. CASE status = "RUNNING" /\ ~Fetches
  BY <1>2, EndsIdle DEF BadFetch, WildDump, Finish, Return, Dumped, Esp
<1>3. CASE Fetches
  BY <1>3, FetchedTurns DEF Executed, Dumped, Fetches, Running
<1> QED
  BY <1>1, <1>2, <1>3 DEF Fetches, Running

\* Where a run ends and its instruction would end it again.
LEMMA EndRepeats ==
  ASSUME TypeOK, Next, Dumped, status = "RUNNING", status' # "RUNNING", EndsHere,
         NEW p, p = program, NEW t, t = label_table, NEW s, s = status'
  PROVE  Repeats(p, t, s)'
<1>1. regs'[REG_IP] = Ip /\ (s \in Errors \/ (s = "ERR_OK" /\ Ip < Len(p) /\ Inst.type = "HALT"))
  <2>1. \/ status' \in Errors
        \/ status' = "ERR_OK" /\ Ip < Len(program) /\ Inst.type = "HALT"
    BY DEF EndsHere
  <2>2. regs'[REG_IP] = Ip
    BY DEF EndsHere
  <2> QED
    BY <2>1, <2>2
<1>2. CASE ~Fetches
  <2>1. BadFetch \/ WildDump \/ Finish
    BY <1>2, EndsIdle
  <2>2. CASE BadFetch
    BY <2>2 DEF BadFetch, Return, Running, Repeats, Esp, Ip
  <2>3. ~WildDump
    BY <1>1, ErrorsAre DEF WildDump, Return
  <2>4. CASE Finish
    <3>1. s = "ERR_OK" /\ regs' = regs /\ halt
      BY <2>4 DEF Finish, Return
    <3>2. Ip < Len(p) /\ p[Ip + 1].type = "HALT"
      BY <1>1, <3>1, ErrorsAre DEF Inst
    <3> QED
      BY <3>1, <3>2 DEF Repeats, Dumped, Esp, Ip
  <2> QED
    BY <2>1, <2>2, <2>3, <2>4
<1>3. CASE Fetches
  <2>1. Executed /\ ~halt /\ Esp <= StackSize /\ Ip < Len(p)
    BY <1>3, FetchedTurns DEF Fetches, Running
  <2>2. s \in Errors /\ ~halt'
    BY <1>1, <2>1 DEF Executed
  <2>3. Esp' <= StackSize
    <3>1. Esp' <= Esp
      BY <2>1 DEF Executed
    <3>2. Esp' \in Nat /\ Esp \in Nat
      <4>1. regs' \in [RegIds -> Word] /\ regs \in [RegIds -> Word]
        BY NextTypeOK DEF TypeOK
      <4> QED
        BY <4>1, WordSizeNat DEF Esp, RegIds, REG_ESP, Word
    <3> QED
      BY <2>1, <3>1, <3>2, MachineAssumption
  <2>4. PICK i : i = Inst
    OBVIOUS
  <2>5. Fails(i, t, s)'
    BY <1>1, <1>3, <2>2, <2>4, FailsBecause
  <2>6. i = p[Ip' + 1] /\ Ip' = Ip
    BY <1>1, <2>4 DEF Inst, Ip
  <2> QED
    BY <2>1, <2>2, <2>3, <2>5, <2>6 DEF Repeats
<1> QED
  BY <1>2, <1>3

\* A turn of a program that ends where it begins changes nothing, and ends so.
LEMMA RepeatsAgain ==
  ASSUME TypeOK, Next, status = "RUNNING",
         NEW p, p = program, NEW t, t = label_table, NEW s, Repeats(p, t, s)
  PROVE  /\ UNCHANGED <<regs, stack, memory, heap>> /\ status' \in {"RUNNING", s}
         /\ Repeats(p, t, s)'
<1>1. ASSUME UNCHANGED <<regs, stack, memory, heap>>,
             halt' = halt \/ s = "ERR_OK", status' \in {"RUNNING", s}
      PROVE  Repeats(p, t, s)'
  <2>1. Esp' = Esp /\ Ip' = Ip
    BY <1>1 DEF Esp, Ip
  <2>2. CASE s = "ERR_OK" /\ Ip < Len(p) /\ p[Ip + 1].type = "HALT"
    BY <2>1, <2>2 DEF Repeats
  <2>3. CASE ~halt /\ s = "ERR_ILLEGAL_INST_ACCESS" /\ Ip >= Len(p)
    BY <1>1, <2>1, <2>3 DEF Repeats
  <2>4. CASE ~halt /\ Ip < Len(p) /\ Fails(p[Ip + 1], t, s)
    <3>1. PICK i : i = p[Ip + 1]
      OBVIOUS
    <3>2. Fails(i, t, s)'
      BY <1>1, <2>4, <3>1 DEF Fails, ValueBy, Esp, Full, Top
    <3>3. s # "ERR_OK"
      BY <2>4 DEF Fails
    <3> QED
      BY <1>1, <2>1, <2>4, <3>1, <3>2, <3>3 DEF Repeats
  <2> QED
    BY <2>2, <2>3, <2>4 DEF Repeats
<1>2. Esp \in Nat /\ StackSize \in Nat /\ Ip \in Nat /\ Len(p) \in Nat /\ Esp <= StackSize
  BY RegsType, MachineAssumption DEF TypeOK, Repeats
<1>3. CASE s = "ERR_OK" /\ Ip < Len(p) /\ p[Ip + 1].type = "HALT"
  <2>1. CASE halt
    <3>1. Finish
      BY <1>2, <2>1, EndsIdle DEF Fetches, Running, BadFetch, WildDump
    <3> QED
      BY <1>1, <1>3, <3>1 DEF Finish, Return
  <2>2. CASE ~halt
    <3>1. Fetches /\ Inst.type = "HALT"
      BY <1>2, <1>3, <2>2 DEF Fetches, Running, Inst
    <3>2. Halt
      BY <3>1, HaltExecutes DEF At
    <3> QED
      BY <1>1, <1>3, <3>2 DEF Halt
  <2> QED
    BY <2>1, <2>2
<1>4. CASE ~halt /\ s = "ERR_ILLEGAL_INST_ACCESS" /\ Ip >= Len(p)
  <2>1. BadFetch
    BY <1>2, <1>4, EndsIdle DEF Fetches, WildDump, Finish
  <2> QED
    BY <1>1, <1>4, <2>1 DEF BadFetch, Return
<1>5. CASE ~halt /\ Ip < Len(p) /\ Fails(p[Ip + 1], t, s)
  <2>1. Fetches /\ Fails(Inst, label_table, s)
    BY <1>2, <1>5 DEF Fetches, Running, Inst
  <2>2. Return(s)
    BY <2>1, FailsAgain
  <2> QED
    BY <1>1, <2>2 DEF Return
<1> QED
  BY <1>3, <1>4, <1>5 DEF Repeats

\* What a call does to the machine does not change what the program did.
LEMMA CallRepeats ==
  ASSUME SessionTypeOK, ApiCall, NEW p, NEW t, NEW s, Repeats(p, t, s)
  PROVE  Repeats(p, t, s)'
<1>1. regs' = regs /\ Esp' = Esp /\ Ip' = Ip
  BY DEF ApiCall, aym_init, InitRegs, aym_load_inst_from_mem, aym_bind_label,
         aym_execute_program, Esp, Ip
<1>2. ~halt => ~halt'
  BY DEF ApiCall, aym_init, aym_load_inst_from_mem, aym_bind_label, aym_execute_program
<1>3. stack' = stack \/ stack' = Zeroed(stack, StackSize)
  BY DEF ApiCall, aym_init, aym_load_inst_from_mem, aym_bind_label, aym_execute_program
<1>4. Esp >= 2 /\ Top = 0 => Top' = 0
  <2> SUFFICES ASSUME Esp >= 2, Top = 0 PROVE Top' = 0
    OBVIOUS
  <2>1. Esp <= StackSize /\ Esp \in Nat /\ DOMAIN stack = 0 .. StackSize - 1
    BY RegsType DEF SessionTypeOK, TypeOK, Repeats
  <2>2. Esp - 1 \in DOMAIN stack
    BY <2>1, MachineAssumption
  <2> QED
    BY <1>1, <1>3, <2>2 DEF Top, Zeroed
<1>5. ASSUME NEW i, Fails(i, t, s) PROVE Fails(i, t, s)'
  BY <1>1, <1>4, <1>5 DEF Fails, ValueBy, Full
<1>6. CASE ~halt /\ Ip < Len(p) /\ Fails(p[Ip + 1], t, s)
  <2>1. PICK i : i = p[Ip + 1]
    OBVIOUS
  <2>2. Fails(i, t, s)'
    BY <1>5, <1>6, <2>1
  <2> QED
    BY <1>1, <1>2, <1>6, <2>1, <2>2 DEF Repeats
<1> QED
  BY <1>1, <1>2, <1>6 DEF Repeats

\* What is remembered of the last run: it would end where it did, at once, and
\* does so as long as it is run again.
Remembered == Repeats(last.program, last.label_table, last.status)

RerunInv ==
  /\ Dumped
  /\ last # None /\ (status = "RUNNING" => again) => Remembered
  /\ status = "RUNNING" /\ again =>
       last # None /\ last.program = program /\ last.label_table = label_table

\* The same program returns the same.
RunsAgain ==
  again /\ status = "RUNNING" =>
    UNCHANGED <<regs, stack, memory, heap>> /\ status' \in {"RUNNING", last.status}

LEMMA CallRerun == SessionTypeOK /\ RerunInv /\ ApiCall => RerunInv' /\ RunsAgain
<1> SUFFICES ASSUME SessionTypeOK, RerunInv, ApiCall PROVE RerunInv' /\ RunsAgain
  OBVIOUS
<1>1. status # "RUNNING" /\ last' = last
  BY ErrorsAre DEF ApiCall, Idle
<1>2. regs' = regs /\ (halt' => halt)
  BY DEF ApiCall, aym_init, InitRegs, aym_load_inst_from_mem, aym_bind_label,
         aym_execute_program
<1>3. Dumped'
  BY <1>2 DEF RerunInv, Dumped, Esp
<1>4. last # None => Remembered'
  <2> SUFFICES ASSUME last # None PROVE Remembered'
    OBVIOUS
  <2>1. PICK p, t, s : p = last.program /\ t = last.label_table /\ s = last.status
    OBVIOUS
  <2>2. Repeats(p, t, s)
    BY <1>1, <2>1 DEF RerunInv, Remembered
  <2>3. Repeats(p, t, s)'
    BY <2>2, CallRepeats
  <2> QED
    BY <1>1, <2>1, <2>3 DEF Remembered
<1>5. CASE aym_execute_program
  BY <1>1, <1>3, <1>4, <1>5 DEF aym_execute_program, RerunInv, RunsAgain
<1>6. CASE aym_init \/ aym_bind_label \/ \E p \in Reused : aym_load_inst_from_mem(p)
  <2>1. status' # "RUNNING"
    BY <1>1, <1>6 DEF aym_init, aym_bind_label, aym_load_inst_from_mem
  <2> QED
    BY <1>1, <1>3, <1>4, <2>1 DEF RerunInv, RunsAgain
<1> QED
  BY <1>5, <1>6 DEF ApiCall

LEMMA MachineRerun == SessionTypeOK /\ RerunInv /\ Machine => RerunInv' /\ RunsAgain
<1> SUFFICES ASSUME SessionTypeOK, RerunInv, Machine PROVE RerunInv' /\ RunsAgain
  OBVIOUS
<1>1. TypeOK /\ Next /\ (again' <=> again)
  BY DEF SessionTypeOK, Machine
<1>2. Dumped'
  BY <1>1, HaltKept DEF RerunInv
<1>3. CASE status # "RUNNING"
  <2>1. UNCHANGED vars /\ last' = last
    BY <1>1, <1>3, EndedStill DEF Machine
  <2>2. Remembered' = Remembered
    BY <2>1 DEF Remembered, Repeats, Fails, ValueBy, Full, Top, Esp, Ip, vars
  <2> QED
    BY <1>1, <1>2, <1>3, <2>1, <2>2 DEF RerunInv, RunsAgain, vars
<1>4. program' = program /\ label_table' = label_table
  BY <1>1, LoadedKept DEF Loaded
<1>5. CASE status = "RUNNING"
  <2>1. ASSUME again PROVE RunsAgain /\ (status' = "RUNNING" => RerunInv')
    <3>1. PICK p, t, s : p = last.program /\ t = last.label_table /\ s = last.status
      OBVIOUS
    <3>2. last # None /\ p = program /\ t = label_table /\ Repeats(p, t, s)
      BY <1>5, <2>1, <3>1 DEF RerunInv, Remembered
    <3>3. /\ UNCHANGED <<regs, stack, memory, heap>> /\ status' \in {"RUNNING", s}
          /\ Repeats(p, t, s)'
      BY <1>1, <1>5, <3>2, RepeatsAgain
    <3>4. RunsAgain
      BY <3>1, <3>3 DEF RunsAgain
    <3>5. CASE status' = "RUNNING"
      <4>1. last' = last
        BY <1>5, <3>5 DEF Machine
      <4>2. Remembered'
        BY <3>1, <3>3, <4>1 DEF Remembered
      <4> QED
        BY <1>1, <1>2, <1>4, <3>1, <3>2, <3>4, <4>1, <4>2 DEF RerunInv
    <3> QED
      BY <3>4, <3>5
  <2>2. ASSUME ~again PROVE RunsAgain /\ (status' = "RUNNING" => RerunInv')
    BY <1>1, <1>2, <2>2 DEF RerunInv, RunsAgain
  <2>3. ASSUME status' # "RUNNING" PROVE RerunInv'
    <3>1. CASE ~EndsHere
      <4>1. last' = None
        BY <1>5, <2>3, <3>1 DEF Machine
      <4> QED
        BY <1>2, <2>3, <4>1 DEF RerunInv
    <3>2. CASE EndsHere
      <4>1. PICK p, t, s : p = program /\ t = label_table /\ s = status'
        OBVIOUS
      <4>2. Repeats(p, t, s)'
        BY <1>1, <1>5, <2>3, <3>2, <4>1, EndRepeats DEF RerunInv
      <4>3. last' = [program |-> p, label_table |-> t, status |-> s]
        BY <1>5, <2>3, <3>2, <4>1 DEF Machine
      <4>4. Remembered'
        BY <4>2, <4>3 DEF Remembered
      <4> QED
        BY <1>2, <2>3, <4>4 DEF RerunInv
    <3> QED
      BY <3>1, <3>2
  <2> QED
    BY <2>1, <2>2, <2>3
<1> QED
  BY <1>3, <1>5

\* A program that has returned, by HALT or with an error of the instruction at
\* IP, and is run again with the same labels changes nothing and returns the
\* same, whatever calls were made in between.
THEOREM RerunsRepeat == SessionSpec => RerunRepeats
<1>1. SessionInit => RerunInv
  <2> SUFFICES ASSUME SessionInit PROVE RerunInv
    OBVIOUS
  <2> QED
    BY DEF SessionInit, Init, RerunInv, Dumped
<1>2. SessionTypeOK /\ RerunInv /\ [SessionNext]_sessionVars => RerunInv' /\ RunsAgain
  <2> SUFFICES ASSUME SessionTypeOK, RerunInv, [SessionNext]_sessionVars
               PROVE  RerunInv' /\ RunsAgain
    OBVIOUS
  <2>1. CASE UNCHANGED sessionVars
    <3>1. Remembered' = Remembered
      BY <2>1 DEF sessionVars, vars, Remembered, Repeats, Fails, ValueBy, Full, Top, Esp, Ip
    <3> QED
      BY <2>1, <3>1 DEF sessionVars, vars, RerunInv, Dumped, RunsAgain, Esp
  <2> QED
    BY <2>1, CallRerun, MachineRerun DEF SessionNext
<1>3. RerunInv /\ SessionTypeOK /\ [SessionNext]_sessionVars
        => [again /\ status = "RUNNING" =>
              /\ UNCHANGED <<regs, stack, memory, heap>>
              /\ status' \in {"RUNNING", last.status}]_sessionVars
  BY <1>2 DEF RunsAgain
<1> QED
  BY <1>1, <1>2, <1>3, SessionTyped, PTL DEF SessionSpec, RerunRepeats
=============================================================================
