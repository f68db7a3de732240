---------------------------- MODULE AymCallsProofs ----------------------------
(***************************************************************************)
(* Calls and returns of programs of leaf subroutines, for every width,     *)
(* size and program: that a RET always ends a call and resumes after it,   *)
(* that such a machine implements CallReturn, and that nothing but a CALL  *)
(* takes it out of its arrays.                                             *)
(***************************************************************************)
EXTENDS AymLeafCalls, AymContainmentProofs

-----------------------------------------------------------------------------
(* What a contained instruction does to IP, BP and the stack                 *)

\* It takes nothing off the stack.
Keeper(i) ==
  /\ i.type \notin {"POP", "SWAP", "PLUS"}
  /\ i.type \in ArithOps \cup RotateOps => Field(i.dst) # 0

Grows ==
  /\ Esp <= regs'[REG_ESP]
  /\ \A k \in 0 .. StackSize - 1 : k < Esp => stack'[k] = stack[k]

\* The run ends where it is; or BP stays, IP stays, advances or jumps, and an
\* instruction that takes nothing off the stack leaves what is on it.
Goes ==
  \/ status' # "RUNNING" /\ regs'[REG_IP] = Ip
  \/ /\ status' = "RUNNING" /\ regs'[REG_BP] = regs[REG_BP]
     /\ \/ regs'[REG_IP] = Ip
        \/ regs'[REG_IP] = Ip + 1 /\ Inst.type \notin {"HALT", "JMP"}
        \/ regs'[REG_IP] = Value(dst) /\ IsJump(Inst)
     /\ Keeper(Inst) => Grows

\* Advancing does not wrap around while IP is in a program.
LEMMA StepAfter ==
  ASSUME TypeOK, Fetches, NEW r \in RegFile, r[REG_IP] = Ip
  PROVE  /\ Step(r)[REG_IP] = Ip + 1
         /\ Step(r)[REG_BP] = r[REG_BP] /\ Step(r)[REG_ESP] = r[REG_ESP]
<1>1. Ip \in Nat /\ Ip + 1 < WordSize
  BY RegsType, WordSizeNat DEF Fetches, TypeOK
<1>2. ToWord(Ip + 1) = Ip + 1
  BY <1>1, WordSizeNat DEF ToWord
<1> QED
  BY <1>2 DEF Step, RegFile, RegIds, REG_IP, REG_BP, REG_ESP

\* Writing to another register leaves the three alone.
LEMMA PutAfter ==
  ASSUME NEW r \in RegFile, NEW k, NEW w, k \notin {REG_BP, REG_ESP, REG_IP}
  PROVE  /\ Put(r, k, w)[REG_IP] = r[REG_IP] /\ Put(r, k, w)[REG_BP] = r[REG_BP]
         /\ Put(r, k, w)[REG_ESP] = r[REG_ESP]
BY DEF Put, RegFile, RegIds, REG_IP, REG_BP, REG_ESP

\* ESP alone, or IP alone.
LEMMA PutEsp ==
  ASSUME NEW r \in RegFile, NEW w
  PROVE  /\ Put(r, REG_ESP, w)[REG_IP] = r[REG_IP] /\ Put(r, REG_ESP, w)[REG_BP] = r[REG_BP]
         /\ Put(r, REG_ESP, w)[REG_ESP] = w
         /\ Put(r, REG_IP, w)[REG_IP] = w /\ Put(r, REG_IP, w)[REG_BP] = r[REG_BP]
         /\ Put(r, REG_IP, w)[REG_ESP] = r[REG_ESP]
BY DEF Put, RegFile, RegIds, REG_IP, REG_BP, REG_ESP

\* A general register is none of the three.
LEMMA GeneralIsNone ==
  ASSUME NEW i, IntoGeneral(i)
  PROVE  Field(i.dst) \notin {REG_BP, REG_ESP, REG_IP} /\ InRegs(i.dst)
BY DEF IntoGeneral, GeneralRegs, InRegs, RegIds, REG_ESP, REG_IP, REG_BP

\* A run that ends without a change to IP.
LEMMA ReturnGoes ==
  ASSUME NEW s, s # "RUNNING", Return(s)
  PROVE  Goes
BY DEF Goes, Return, Ip

\* The instruction has changed other registers only, and advances or stays.
LEMMA ContinueGoes ==
  ASSUME TypeOK, Fetches, NEW r, Continue(r, stack),
         r[REG_BP] = regs[REG_BP], r[REG_ESP] = Esp,
         \/ r[REG_IP] = Ip
         \/ r[REG_IP] = Ip + 1 /\ Inst.type \notin {"HALT", "JMP"}
  PROVE  Goes
<1>1. status' = "RUNNING" /\ regs' = r /\ stack' = stack
  BY DEF Continue, Fetches, Running
<1>2. Grows
  BY <1>1, RegsType DEF Grows
<1> QED
  BY <1>1, <1>2 DEF Goes

\* It changes the stack, which only one that is no Keeper may do below ESP.
LEMMA StackGoes ==
  ASSUME TypeOK, Fetches, NEW r, NEW s, Continue(r, s),
         r[REG_BP] = regs[REG_BP], r[REG_IP] = Ip + 1, Inst.type \notin {"HALT", "JMP"},
         ~Keeper(Inst)
  PROVE  Goes
<1>1. status' = "RUNNING" /\ regs' = r
  BY DEF Continue, Fetches, Running
<1> QED
  BY <1>1 DEF Goes

-----------------------------------------------------------------------------
(* One lemma for each action, or family of actions of the same shape         *)

\* PUSH of its checked form and DUP 0 put a word at ESP.
LEMMA GrowGoes ==
  ASSUME TypeOK, Fetches, Inst.type \notin {"HALT", "JMP"}, NEW w,
         Continue(Step(Put(regs, REG_ESP, Esp + 1)), [stack EXCEPT ![Esp] = w])
  PROVE  Goes
<1> DEFINE p == Put(regs, REG_ESP, Esp + 1)
<1>1. regs \in RegFile /\ Esp \in Nat
  BY RegsType
<1>2. p[REG_IP] = Ip /\ p[REG_BP] = regs[REG_BP] /\ p[REG_ESP] = Esp + 1
  BY <1>1, PutEsp DEF Ip
<1>3. Step(p)[REG_IP] = Ip + 1 /\ Step(p)[REG_BP] = regs[REG_BP] /\ Step(p)[REG_ESP] = Esp + 1
  <2>1. ToWord(Ip + 1) = Ip + 1
    BY <1>1, RegsType, StepAfter DEF Step, RegFile, RegIds, REG_IP, Ip
  <2>2. DOMAIN p = RegIds
    BY <1>1 DEF Put, RegFile
  <2> QED
    BY <1>2, <2>1, <2>2 DEF Step, RegIds, REG_IP, REG_BP, REG_ESP
<1>4. status' = "RUNNING" /\ regs' = Step(p) /\ stack' = [stack EXCEPT ![Esp] = w]
  BY DEF Continue, Fetches, Running
<1>5. Grows
  BY <1>1, <1>3, <1>4 DEF Grows, TypeOK
<1> QED
  BY <1>3, <1>4, <1>5 DEF Goes

LEMMA PushGoes == TypeOK /\ Fetches /\ Contained(Inst) /\ Push => Goes
<1> SUFFICES ASSUME TypeOK, Fetches, Contained(Inst), Push PROVE Goes
  OBVIOUS
<1>1. Inst.type = "PUSH" /\ Field(dst) = 0 /\ Resolves(dst)
  BY DEF Push, At, Contained, dst
<1>2. \/ \E s : s # "RUNNING" /\ Return(s)
      \/ \E w : Continue(Step(Put(regs, REG_ESP, Esp + 1)), [stack EXCEPT ![Esp] = w])
  BY <1>1, NoFault DEF Push
<1> QED
  BY <1>1, <1>2, ReturnGoes, GrowGoes

LEMMA DupGoes == TypeOK /\ Fetches /\ Contained(Inst) /\ Dup => Goes
<1> SUFFICES ASSUME TypeOK, Fetches, Contained(Inst), Dup PROVE Goes
  OBVIOUS
<1>1. Inst.type = "DUP" /\ dst.type = "IMM"
  BY DEF Dup, At, Contained, dst
<1>2. Resolves(dst)
  BY <1>1 DEF Resolves, Faulty, OutOfRegs
<1>3. \/ \E s : s # "RUNNING" /\ Return(s)
      \/ \E w : Continue(Step(Put(regs, REG_ESP, Esp + 1)), [stack EXCEPT ![Esp] = w])
  BY <1>2, NoFault DEF Dup
<1> QED
  BY <1>1, <1>3, ReturnGoes, GrowGoes

\* An instruction of the main program takes a word off the stack and advances.
LEMMA ReduceGoes ==
  ASSUME TypeOK, Fetches, Inst.type \notin {"HALT", "JMP"}, ~Keeper(Inst), NEW w, Reduce(w)
  PROVE  Goes
<1> DEFINE p == Put(regs, REG_ESP, Esp - 1)
<1>1. regs \in RegFile
  BY RegsType
<1>2. p[REG_IP] = Ip /\ p[REG_BP] = regs[REG_BP] /\ DOMAIN p = RegIds
  BY <1>1, PutEsp DEF Ip, Put, RegFile
<1>3. ToWord(Ip + 1) = Ip + 1
  BY <1>1, RegsType, StepAfter DEF Step, RegFile, RegIds, REG_IP, Ip
<1>4. Step(p)[REG_IP] = Ip + 1 /\ Step(p)[REG_BP] = regs[REG_BP]
  BY <1>2, <1>3 DEF Step, RegIds, REG_IP, REG_BP
<1> QED
  BY <1>4, StackGoes DEF Reduce

LEMMA SwapPlusGoes == TypeOK /\ Fetches /\ (Swap \/ Plus) => Goes
<1> SUFFICES ASSUME TypeOK, Fetches, Swap \/ Plus PROVE Goes
  OBVIOUS
<1>1. Inst.type \in {"SWAP", "PLUS"} /\ ~Keeper(Inst)
  BY DEF Swap, Plus, At, Keeper
<1>2. CASE TooFew
  BY <1>2, ReturnGoes DEF TooFew
<1>3. Step(regs)[REG_IP] = Ip + 1 /\ Step(regs)[REG_BP] = regs[REG_BP]
  BY RegsType, StepAfter DEF Ip
<1> QED
  BY <1>1, <1>2, <1>3, StackGoes, ReduceGoes DEF Swap, Plus

LEMMA PopGoes == TypeOK /\ Fetches /\ Contained(Inst) /\ Pop => Goes
<1> SUFFICES ASSUME TypeOK, Fetches, Contained(Inst), Pop PROVE Goes
  OBVIOUS
<1> DEFINE r == PopTop(regs)
           q == Put(r, REG_ESP, r[REG_ESP] - 1)
<1>1. Inst.type = "POP" /\ ~Keeper(Inst)
  BY DEF Pop, At, Keeper
<1>2. Field(dst) \notin {REG_BP, REG_ESP, REG_IP} /\ InRegs(dst)
  BY <1>1, GeneralIsNone DEF Contained, dst
<1>3. regs \in RegFile
  BY RegsType
<1>4. r[REG_IP] = Ip /\ r[REG_BP] = regs[REG_BP] /\ DOMAIN r = RegIds
  BY <1>2, <1>3 DEF PopTop, Put, RegFile, RegIds, Ip, REG_IP, REG_BP, REG_ESP
<1>5. ToWord(Ip + 1) = Ip + 1
  BY <1>3, RegsType, StepAfter DEF Step, RegFile, RegIds, REG_IP, Ip
<1>6. q[REG_IP] = Ip /\ q[REG_BP] = regs[REG_BP] /\ DOMAIN q = RegIds
  BY <1>4 DEF Put, REG_IP, REG_BP, REG_ESP
<1>7. Step(q)[REG_IP] = Ip + 1 /\ Step(q)[REG_BP] = regs[REG_BP]
  BY <1>5, <1>6 DEF Step, RegIds, REG_IP, REG_BP
<1>8. \/ Return("ERR_STACK_UNDERFLOW")
      \/ regs' = r /\ status' = "ERR_STACK_UNDERFLOW"
      \/ Continue(Step(q), stack)
  BY <1>2 DEF Pop
<1>9. ASSUME regs' = r, status' = "ERR_STACK_UNDERFLOW" PROVE Goes
  BY <1>4, <1>9 DEF Goes
<1> QED
  BY <1>1, <1>7, <1>8, <1>9, ReturnGoes, StackGoes

LEMMA ArithGoes == TypeOK /\ Fetches /\ Contained(Inst) /\ Arith => Goes
<1> SUFFICES ASSUME TypeOK, Fetches, Contained(Inst), Arith PROVE Goes
  OBVIOUS
<1>1. regs \in RegFile /\ regs[REG_IP] = Ip /\ regs[REG_ESP] = Esp
  BY RegsType DEF Ip, Esp
<1>2. ASSUME NEW op \in ArithOps \cup {"MOV", "ADD"}, ArithReg(op)
      PROVE  Goes
  <2>1. Inst.type = op
    BY <1>2 DEF ArithReg, At
  <2>2. IntoGeneral(Inst) /\ (dst.type = "REG" => Resolves(src))
    BY <2>1 DEF Contained, dst, src
  <2>3. Field(dst) \notin {REG_BP, REG_ESP, REG_IP} /\ InRegs(dst)
    BY <2>2, GeneralIsNone DEF dst
  <2>4. \/ \E s : s # "RUNNING" /\ Return(s)
        \/ \E w : /\ Continue(Step(Put(regs, Field(dst), w)), stack)
                  /\ w \in Word
    <3>1. dst.type = "REG" => dst \in Operands /\ Resolves(dst)
      BY <2>3, InstType DEF Resolves, Faulty, OutOfRegs
    <3>2. dst.type = "REG" => Value(dst) \in Word /\ Value(src) \in Word
      BY <1>1, <2>2, <3>1, InstType, ValueType DEF Value
    <3> QED
      BY <1>2, <2>2, <2>3, <3>2, NoFault, ResultType DEF ArithReg
  <2>5. ASSUME NEW w \in Word
        PROVE  LET r == Step(Put(regs, Field(dst), w)) IN
               r[REG_BP] = regs[REG_BP] /\ r[REG_ESP] = Esp /\ r[REG_IP] = Ip + 1
    <3>1. Put(regs, Field(dst), w) \in RegFile
      BY <1>1, PutType
    <3> QED
      BY <1>1, <2>3, <3>1, PutAfter, StepAfter
  <2> QED
    BY <2>1, <2>4, <2>5, ReturnGoes, ContinueGoes DEF ArithOps
<1>3. ASSUME NEW op \in ArithOps, ArithStack(op)
      PROVE  Goes
  <2>1. Inst.type = op /\ ~Keeper(Inst) /\ op \notin {"HALT", "JMP"}
    BY <1>3 DEF ArithStack, At, Keeper, dst, ArithOps
  <2>2. (\E s : s # "RUNNING" /\ Return(s)) \/ (\E w : Reduce(w))
    BY <1>3 DEF ArithStack, TooFew
  <2> QED
    BY <2>1, <2>2, ReturnGoes, ReduceGoes
<1> QED
  BY <1>2, <1>3 DEF Arith, MovAdd

\* Only the form that writes REG_0 and the flags is a Keeper.
LEMMA RotateGoes == TypeOK /\ Fetches /\ Contained(Inst) /\ Rotate => Goes
<1> SUFFICES ASSUME TypeOK, Fetches, Contained(Inst), NEW op \in RotateOps,
                    RotateReg(op) \/ RotateStack(op)
             PROVE  Goes
  BY DEF Rotate
<1>1. Inst.type = op /\ Inst.type \notin {"HALT", "JMP"}
  BY DEF RotateReg, RotateStack, At, RotateOps
<1>2. dst.type = "REG" => Resolves(dst) /\ Resolves(src)
  BY <1>1 DEF Contained, dst, src
<1>3. regs \in RegFile /\ ToWord(Ip + 1) = Ip + 1
  BY RegsType, StepAfter DEF Step, RegFile, RegIds, REG_IP, Ip
<1>4. CASE RotateReg(op)
  <2>1. \/ Return("ERR_ILLEGAL_OPERAND_TYPE")
        \/ \E v, w : Continue(Step([regs EXCEPT ![REG_FLAGS] = v, ![REG_0] = w]), stack)
    BY <1>2, <1>4, NoFault DEF RotateReg
  <2>2. \A v, w : LET r == Step([regs EXCEPT ![REG_FLAGS] = v, ![REG_0] = w]) IN
                  r[REG_ESP] = Esp /\ r[REG_BP] = regs[REG_BP] /\ r[REG_IP] = Ip + 1
    BY <1>3 DEF RegFile, Step, Esp, Ip, RegIds, REG_ESP, REG_BP, REG_IP, REG_FLAGS, REG_0
  <2> QED
    BY <1>1, <2>1, <2>2, ReturnGoes, ContinueGoes
<1>5. CASE RotateStack(op)
  <2>1. ~Keeper(Inst)
    BY <1>1, <1>5 DEF Keeper, RotateStack, dst
  <2>2. \/ Return("ERR_STACK_UNDERFLOW")
        \/ \E v, s : Continue(Step([regs EXCEPT ![REG_ESP] = @ - 2, ![REG_FLAGS] = v]), s)
    BY <1>5 DEF RotateStack, TooFew
  <2>3. \A v : LET r == Step([regs EXCEPT ![REG_ESP] = @ - 2, ![REG_FLAGS] = v]) IN
               r[REG_BP] = regs[REG_BP] /\ r[REG_IP] = Ip + 1
    BY <1>3 DEF RegFile, Step, Ip, RegIds, REG_ESP, REG_BP, REG_IP, REG_FLAGS
  <2> QED
    BY <1>1, <2>1, <2>2, <2>3, ReturnGoes, StackGoes
<1> QED
  BY <1>4, <1>5

\* INC and the logic instructions write a general register and the flags.
LEMMA IncLogicGoes == TypeOK /\ Fetches /\ Contained(Inst) /\ (Inc \/ Logic) => Goes
<1> SUFFICES ASSUME TypeOK, Fetches, Contained(Inst), Inc \/ Logic PROVE Goes
  OBVIOUS
<1>1. Inst.type \in {"INC"} \cup LogicOps /\ Inst.type \notin {"HALT", "JMP"}
  BY DEF Inc, Logic, LogicOp, At, LogicOps
<1>2. Field(dst) \notin {REG_BP, REG_ESP, REG_IP} /\ InRegs(dst)
  BY <1>1, GeneralIsNone DEF Contained, dst
<1>3. regs \in RegFile /\ ToWord(Ip + 1) = Ip + 1
  BY RegsType, StepAfter DEF Step, RegFile, RegIds, REG_IP, Ip
<1>4. ASSUME NEW w
      PROVE  LET r == SetZero(Put(regs, Field(dst), w), Field(dst)) IN
             /\ r[REG_BP] = regs[REG_BP] /\ r[REG_ESP] = Esp /\ r[REG_IP] = Ip
             /\ Step(r)[REG_BP] = regs[REG_BP] /\ Step(r)[REG_ESP] = Esp
             /\ Step(r)[REG_IP] = Ip + 1
  <2> DEFINE p == Put(regs, Field(dst), w)
             r == SetZero(p, Field(dst))
  <2>1. /\ p[REG_BP] = regs[REG_BP] /\ p[REG_ESP] = Esp /\ p[REG_IP] = Ip /\ DOMAIN p = RegIds
    BY <1>2, <1>3 DEF Put, RegFile, RegIds, Esp, Ip, REG_BP, REG_ESP, REG_IP
  <2>2. /\ r[REG_BP] = regs[REG_BP] /\ r[REG_ESP] = Esp /\ r[REG_IP] = Ip /\ DOMAIN r = RegIds
    <3> HIDE DEF p
    <3>1. \A v : LET q == Put(p, REG_FLAGS, v) IN
                    /\ q[REG_BP] = p[REG_BP] /\ q[REG_ESP] = p[REG_ESP]
                    /\ q[REG_IP] = p[REG_IP] /\ DOMAIN q = DOMAIN p
      BY <2>1 DEF Put, RegIds, REG_BP, REG_ESP, REG_IP, REG_FLAGS
    <3> QED
      BY <2>1, <3>1 DEF SetZero
  <2> QED
    BY <1>3, <2>2 DEF Step, RegIds, REG_BP, REG_ESP, REG_IP
<1>5. ASSUME NEW w, \/ Continue(SetZero(Put(regs, Field(dst), w), Field(dst)), stack)
                    \/ Continue(Step(SetZero(Put(regs, Field(dst), w), Field(dst))), stack)
      PROVE  Goes
  BY <1>1, <1>4, <1>5, ContinueGoes
<1>6. CASE Inc
  BY <1>2, <1>5, <1>6, ReturnGoes DEF Inc
<1>7. ASSUME NEW op \in LogicOps, LogicOp(op)
      PROVE  Goes
  <2>1. Inst.type = op
    BY <1>7 DEF LogicOp, At
  <2>2. Resolves(src) /\ (op # "NOT" => Resolves(dst))
    BY <1>7, <2>1 DEF Contained, dst, src, LogicOps
  <2> QED
    BY <1>2, <1>5, <1>7, <2>2, NoFault DEF LogicOp, FaultIn
<1> QED
  BY <1>6, <1>7 DEF Logic

\* One register at most is written, and it is none of the three.
LEMMA MemoryGoes ==
  TypeOK /\ Fetches /\ Contained(Inst) /\ (Lea \/ Load \/ Store \/ Cmp \/ Test) => Goes
<1> SUFFICES ASSUME TypeOK, Fetches, Contained(Inst), Lea \/ Load \/ Store \/ Cmp \/ Test
             PROVE  Goes
  OBVIOUS
<1>1. Inst.type \in {"LEA", "LOAD", "STORE", "CMP", "TEST"}
  BY DEF Lea, Load, Store, Cmp, Test, At
<1>2. regs \in RegFile /\ ToWord(Ip + 1) = Ip + 1
  BY RegsType, StepAfter DEF Step, RegFile, RegIds, REG_IP, Ip
<1>3. ASSUME NEW k, NEW w, k \notin {REG_BP, REG_ESP, REG_IP},
             Continue(Put(regs, k, w), stack) \/ Continue(Step(Put(regs, k, w)), stack)
      PROVE  Goes
  <2> DEFINE p == Put(regs, k, w)
  <2>1. p[REG_BP] = regs[REG_BP] /\ p[REG_ESP] = Esp /\ p[REG_IP] = Ip /\ DOMAIN p = RegIds
    BY <1>2, <1>3 DEF Put, RegFile, RegIds, Esp, Ip, REG_BP, REG_ESP, REG_IP
  <2>2. /\ Step(p)[REG_BP] = regs[REG_BP] /\ Step(p)[REG_ESP] = Esp
        /\ Step(p)[REG_IP] = Ip + 1
    BY <1>2, <2>1 DEF Step, RegIds, REG_BP, REG_ESP, REG_IP
  <2> QED
    BY <1>1, <1>3, <2>1, <2>2, ContinueGoes
<1>4. CASE Lea
  <2>1. Resolves(src) /\ Field(dst) \notin {REG_BP, REG_ESP, REG_IP} /\ InRegs(dst)
    BY <1>4, GeneralIsNone DEF Contained, dst, src, Lea, At
  <2> QED
    BY <1>3, <1>4, <2>1, NoFault DEF Lea, Write
<1>5. CASE Load
  <2>1. src.type = "IMM" /\ Field(dst) \notin {REG_BP, REG_ESP, REG_IP} /\ InRegs(dst)
    BY <1>5, GeneralIsNone DEF Contained, dst, src, Load, At
  <2>2. Resolves(src)
    BY <2>1 DEF Resolves, Faulty, OutOfRegs
  <2> QED
    BY <1>3, <1>5, <2>1, <2>2, NoFault, ReturnGoes DEF Load, Write
<1>6. CASE Store
  <2>1. dst.type = "IMM" /\ Resolves(src)
    BY <1>6 DEF Contained, dst, src, Store, At
  <2>2. Resolves(dst)
    BY <2>1 DEF Resolves, Faulty, OutOfRegs
  <2>3. \/ Return("WILD")
        \/ status' = status /\ regs' = regs /\ stack' = stack
    BY <1>6, <2>1, <2>2, NoFault DEF Store, FaultIn, AfterStore
  <2>4. ASSUME status' = status, regs' = regs, stack' = stack PROVE Goes
    <3>1. Grows
      BY <2>4, RegsType DEF Grows, Esp
    <3> QED
      BY <2>4, <3>1 DEF Goes, Fetches, Running, Ip
  <2> QED
    BY <2>3, <2>4, ReturnGoes
<1>7. CASE Cmp \/ Test
  <2>1. Resolves(dst) /\ Resolves(src)
    BY <1>7 DEF Contained, dst, src, Cmp, Test, At
  <2>2. \E w : \/ Continue(Put(regs, REG_FLAGS, w), stack)
               \/ Continue(Step(Put(regs, REG_FLAGS, w)), stack)
    BY <1>7, <2>1, NoFault DEF Cmp, Test, FaultIn
  <2>3. REG_FLAGS \notin {REG_BP, REG_ESP, REG_IP}
    BY DEF REG_FLAGS, REG_BP, REG_ESP, REG_IP
  <2> QED
    BY <1>3, <2>2, <2>3
<1> QED
  BY <1>4, <1>5, <1>6, <1>7

\* A jump goes where its operand says, or advances, or stays.
LEMMA JumpGoes == TypeOK /\ Fetches /\ Contained(Inst) /\ (Jmp \/ CondJump) => Goes
<1> SUFFICES ASSUME TypeOK, Fetches, Contained(Inst), Jmp \/ CondJump PROVE Goes
  OBVIOUS
<1>1. Inst.type \in {"JMP"} \cup CondJumps /\ IsJump(Inst)
  BY DEF Jmp, CondJump, At, IsJump
<1>2. Resolves(dst)
  BY <1>1 DEF Contained, dst
<1>3. \/ Continue(Put(regs, REG_IP, Value(dst)), stack)
      \/ Inst.type # "JMP" /\ Continue(Step(regs), stack)
      \/ Continue(regs, stack)
  BY <1>2, NoFault DEF Jmp, CondJump, Goto, NotTaken, At, CondJumps, FallThroughJumps, StickyJumps
<1>4. regs \in RegFile /\ regs[REG_IP] = Ip /\ regs[REG_ESP] = Esp
  BY RegsType DEF Ip, Esp
<1>5. CASE Continue(Put(regs, REG_IP, Value(dst)), stack)
  <2>1. /\ status' = "RUNNING" /\ stack' = stack /\ regs'[REG_IP] = Value(dst)
        /\ regs'[REG_BP] = regs[REG_BP] /\ regs'[REG_ESP] = Esp
    BY <1>4, <1>5, PutEsp DEF Continue, Fetches, Running
  <2>2. Grows
    BY <2>1, RegsType DEF Grows
  <2> QED
    BY <1>1, <2>1, <2>2 DEF Goes
<1>6. Inst.type # "HALT"
  BY <1>1 DEF CondJumps, FallThroughJumps, StickyJumps
<1>7. Step(regs)[REG_IP] = Ip + 1 /\ Step(regs)[REG_BP] = regs[REG_BP] /\ Step(regs)[REG_ESP] = Esp
  BY <1>4, StepAfter
<1> QED
  BY <1>3, <1>4, <1>5, <1>6, <1>7, ContinueGoes

\* A system call writes REG_1 at most.
LEMMA SyscallGoes == TypeOK /\ Fetches /\ Syscall => Goes
<1> SUFFICES ASSUME TypeOK, Fetches, Syscall PROVE Goes
  OBVIOUS
<1>1. Inst.type = "SYSCALL"
  BY DEF Syscall, At
<1>2. \/ Return("CRASH") \/ Return("ERR_UNKOWN_SYSCALL")
      \/ /\ status' = status /\ stack' = stack
         /\ regs' = Step(regs) \/ \E p : regs' = Step(Put(regs, REG_2, p))
  BY DEF Syscall, Continue
<1>3. regs \in RegFile /\ ToWord(Ip + 1) = Ip + 1
  BY RegsType, StepAfter DEF Step, RegFile, RegIds, REG_IP, Ip
<1>4. ASSUME NEW p
      PROVE  LET r == Step(Put(regs, REG_2, p)) IN
             r[REG_BP] = regs[REG_BP] /\ r[REG_ESP] = Esp /\ r[REG_IP] = Ip + 1
  BY <1>3 DEF Put, RegFile, Step, Esp, Ip, RegIds, REG_ESP, REG_BP, REG_IP, REG_2
<1>5. /\ Step(regs)[REG_BP] = regs[REG_BP] /\ Step(regs)[REG_ESP] = Esp
      /\ Step(regs)[REG_IP] = Ip + 1
  BY <1>3 DEF RegFile, Step, Esp, Ip, RegIds, REG_ESP, REG_BP, REG_IP
<1>6. ASSUME status' = status, stack' = stack, regs'[REG_BP] = regs[REG_BP],
             regs'[REG_ESP] = Esp, regs'[REG_IP] = Ip + 1
      PROVE  Goes
  <2>1. Grows
    BY <1>6, RegsType DEF Grows
  <2> QED
    BY <1>1, <1>6, <2>1 DEF Goes, Fetches, Running
<1> QED
  BY <1>2, <1>4, <1>5, <1>6, ReturnGoes

\* Nothing to do, the end of the run, and the end of the program.
LEMMA SimpleGoes == TypeOK /\ Fetches /\ (Nop \/ Bswap \/ Halt \/ IllegalInst) => Goes
<1> SUFFICES ASSUME TypeOK, Fetches, Nop \/ Bswap \/ Halt \/ IllegalInst PROVE Goes
  OBVIOUS
<1>1. /\ Step(regs)[REG_BP] = regs[REG_BP] /\ Step(regs)[REG_ESP] = Esp
      /\ Step(regs)[REG_IP] = Ip + 1
  BY RegsType, StepAfter DEF Ip, Esp
<1>2. CASE Nop
  BY <1>1, <1>2, ContinueGoes DEF Nop, At
<1>3. CASE Bswap
  BY <1>3, ContinueGoes DEF Bswap, Ip, Esp
<1>4. CASE Halt
  <2>1. status' = "RUNNING" /\ regs' = regs /\ stack' = stack
    BY <1>4 DEF Halt, Fetches, Running
  <2>2. Grows
    BY <2>1, RegsType DEF Grows, Esp
  <2> QED
    BY <2>1, <2>2 DEF Goes, Ip
<1>5. CASE IllegalInst
  BY <1>5, ReturnGoes DEF IllegalInst
<1> QED
  BY <1>2, <1>3, <1>4, <1>5

\* Every turn that fetches a contained instruction.
LEMMA ContainedGoes ==
  ASSUME TypeOK, Fetches, Contained(Inst), Next
  PROVE  Goes
<1>1. ~Call /\ ~Ret
  BY DEF Call, Ret, At, Contained
<1>2. ~BadFetch /\ ~WildDump /\ ~Finish /\ ~Returned
  BY RegsType, MachineAssumption DEF BadFetch, WildDump, Finish, Returned, Fetches, Running, TypeOK
<1> QED
  BY <1>1, <1>2, PushGoes, PopGoes, SwapPlusGoes, DupGoes, ArithGoes, RotateGoes,
     IncLogicGoes, MemoryGoes, JumpGoes, SyscallGoes, SimpleGoes DEF Next

-----------------------------------------------------------------------------
(* The inductive invariant                                                   *)

\* The main program is the first m instructions.
Splits(m) ==
  /\ m \in 1 .. Len(program)
  /\ program[m].type \in {"HALT", "JMP"}
  /\ \A k \in 0 .. m - 1 : MainInst(program, k, m)
  /\ \A k \in m .. Len(program) - 1 : SubInst(program, k, m)

\* In the main program no call is pending, and BP is what it was at first.
InMain(m) == frames = <<>> /\ Ip < m /\ regs[REG_BP] = 0

\* In a subroutine one call is pending, whose frame lies at BP and below ESP: the
\* main program's BP, and the position of a CALL that is not its last instruction.
InSub(m) ==
  LET bp == regs[REG_BP] IN
  /\ m <= Ip
  /\ bp + 1 < Esp /\ bp + 1 < StackSize /\ stack[bp] = 0
  /\ \E f : frames = <<f>> /\ f.ret \in 1 .. m - 1 /\ stack[bp + 1] + 1 = f.ret

CallInv == \E m \in Nat : Splits(m) /\ (status = "RUNNING" => InMain(m) \/ InSub(m))

\* What is fetched, in either part.
LEMMA FetchedPart ==
  ASSUME TypeOK, Fetches, NEW m \in Nat, Splits(m)
  PROVE  /\ Ip < m => MainInst(program, Ip, m)
         /\ m <= Ip => SubInst(program, Ip, m)
         /\ Inst = program[Ip + 1]
<1>1. Ip \in Nat /\ Ip < Len(program)
  BY RegsType DEF Fetches
<1> QED
  BY <1>1 DEF Splits, Inst, TypeOK

\* A turn that does not fetch ends the run.
LEMMA NoFetchEnds ==
  ASSUME Next, status = "RUNNING", ~Fetches
  PROVE  status' # "RUNNING" /\ regs' = regs
<1>1. \A op : ~At(op)
  BY DEF At
<1>2. BadFetch \/ WildDump \/ Finish \/ Returned
  BY <1>1 DEF Next, Nop, Push, Pop, Swap, Plus, Dup, Arith, MovAdd, ArithReg, ArithStack,
              Rotate, RotateReg, RotateStack, Bswap, Inc, Logic, LogicOp, Lea, Cmp, Test, Load,
              Store, Jmp, CondJump, Call, Ret, Syscall, Halt, IllegalInst
<1> QED
  BY <1>2 DEF BadFetch, WildDump, Finish, Returned, Return

\* A run that has ended stays as it is.
LEMMA EndedStays ==
  ASSUME Next, status # "RUNNING"
  PROVE  UNCHANGED vars
<1>1. ~Running /\ \A op : ~At(op)
  BY DEF Running, At, Fetches
<1>2. Returned
  BY <1>1 DEF Next, Nop, Push, Pop, Swap, Plus, Dup, Arith, MovAdd, ArithReg, ArithStack,
              Rotate, RotateReg, RotateStack, Bswap, Inc, Logic, LogicOp, Lea, Cmp, Test, Load,
              Store, Jmp, CondJump, Call, Ret, Syscall, Halt, IllegalInst, BadFetch, WildDump,
              Finish
<1> QED
  BY <1>2 DEF Returned

\* Calls are remembered by CALL and forgotten by RET alone.
LEMMA FramesKept ==
  ASSUME CallsNext, ~(Fetches /\ status' = "RUNNING" /\ Inst.type \in {"CALL", "RET"})
  PROVE  frames' = frames
BY DEF CallsNext, Enters, Leaves, At

\* A CALL or a RET is executed by its own action.
LEMMA CallOrRet ==
  ASSUME TypeOK, Next, Fetches
  PROVE  /\ Inst.type = "CALL" => Call
         /\ Inst.type = "RET" => Ret
<1>1. ASSUME Inst.type \in {"CALL", "RET"} PROVE Call \/ Ret
  <2>1. /\ ~(Nop \/ Push \/ Pop \/ Swap \/ Plus \/ Dup)
        /\ ~(Inc \/ Bswap \/ Lea \/ Cmp \/ Test \/ Load \/ Store)
        /\ ~(Jmp \/ Syscall \/ Halt \/ IllegalInst)
    BY <1>1 DEF At, Nop, Push, Pop, Swap, Plus, Dup, Inc, Bswap, Lea, Cmp, Test, Load, Store,
                Jmp, Syscall, Halt, IllegalInst
  <2>2. ~Arith /\ ~Rotate /\ ~Logic /\ ~CondJump
    BY <1>1 DEF At, Arith, MovAdd, ArithReg, ArithStack, Rotate, RotateReg, RotateStack, Logic,
                LogicOp, CondJump, ArithOps, RotateOps, LogicOps, CondJumps, FallThroughJumps,
                StickyJumps
  <2>3. ~BadFetch /\ ~WildDump /\ ~Finish /\ ~Returned
    BY RegsType, MachineAssumption
    DEF BadFetch, WildDump, Finish, Returned, Fetches, Running, TypeOK
  <2> QED
    BY <2>1, <2>2, <2>3 DEF Next
<1> QED
  BY <1>1 DEF Call, Ret, At

\* The turns of the main program.  A CALL that does not fail leaves its frame at BP.
LEMMA MainTurn ==
  ASSUME TypeOK, CallsNext, NEW m \in Nat, Splits(m), status = "RUNNING", InMain(m)
  PROVE  /\ ~At("RET")
         /\ \/ status' # "RUNNING" /\ regs'[REG_IP] = Ip /\ frames' = frames
            \/ status' = "RUNNING" /\ frames' = frames /\ InMain(m)'
            \/ /\ status' = "RUNNING" /\ InSub(m)'
               /\ \E f : frames' = <<f>> /\ f.ret = Ip + 1
<1>1. Next
  BY DEF CallsNext
<1>2. CASE ~Fetches
  BY <1>1, <1>2, NoFetchEnds, FramesKept DEF At, Ip
<1>3. CASE Fetches /\ Inst.type # "CALL"
  <2>1. Contained(Inst) /\ (IsJump(Inst) => dst.type = "IMM" /\ dst.val < m)
    BY <1>3, FetchedPart DEF MainInst, InMain, Target, dst
  <2>2. Goes
    BY <1>1, <1>3, <2>1, ContainedGoes
  <2>3. Inst.type # "RET"
    BY <2>1 DEF Contained
  <2>4. frames' = frames
    BY <1>3, <2>3, FramesKept
  <2>5. Ip + 1 < m \/ Inst.type \in {"HALT", "JMP"}
    BY <1>3, RegsType, FetchedPart DEF InMain, Splits
  <2>6. IsJump(Inst) => Value(dst) < m
    BY <2>1 DEF Value, ValueIn
  <2>7. status' = "RUNNING" => regs'[REG_IP] < m /\ regs'[REG_BP] = 0
    BY <2>2, <2>5, <2>6 DEF Goes, InMain
  <2>8. status' = "RUNNING" => InMain(m)'
    BY <2>4, <2>7 DEF InMain, Ip
  <2>9. status' # "RUNNING" => regs'[REG_IP] = Ip
    BY <2>2 DEF Goes
  <2> QED
    BY <2>3, <2>4, <2>8, <2>9 DEF At
<1>4. CASE Fetches /\ Inst.type = "CALL"
  <2>1. dst.type = "IMM" /\ m <= dst.val /\ Resolves(dst)
    <3>1. ~Contained(Inst)
      BY <1>4 DEF Contained
    <3>2. Inst.dst.type = "IMM" /\ Target(Inst) >= m
      BY <1>4, <3>1, FetchedPart DEF MainInst, InMain
    <3>3. Inst.dst.val \in Nat
      BY <1>4, InstType, WordSizeNat DEF Operands, Word, dst
    <3> QED
      BY <3>2, <3>3 DEF Target, dst, Resolves, Faulty, OutOfRegs
  <2>2. Call
    BY <1>1, <1>4, CallOrRet
  <2>3. \/ \E s : s # "RUNNING" /\ Return(s)
        \/ /\ Esp + 1 < StackSize
           /\ Continue(Put(CallRegs, REG_IP, dst.val),
                       [stack EXCEPT ![Esp] = regs[REG_BP], ![Esp + 1] = Ip])
    BY <2>1, <2>2, NoFault DEF Call, ValueIn
  <2>4. CASE \E s : s # "RUNNING" /\ Return(s)
    BY <2>4, <1>4, FramesKept DEF Return, Ip, At
  <2>5. ASSUME Esp + 1 < StackSize,
               Continue(Put(CallRegs, REG_IP, dst.val),
                        [stack EXCEPT ![Esp] = regs[REG_BP], ![Esp + 1] = Ip])
        PROVE  /\ status' = "RUNNING" /\ InSub(m)'
               /\ \E f : frames' = <<f>> /\ f.ret = Ip + 1
    <3>1. /\ status' = "RUNNING" /\ regs' = Put(CallRegs, REG_IP, dst.val)
          /\ stack' = [stack EXCEPT ![Esp] = regs[REG_BP], ![Esp + 1] = Ip]
      BY <2>5 DEF Continue
    <3>2. regs'[REG_IP] = dst.val /\ regs'[REG_BP] = Esp /\ regs'[REG_ESP] = Esp + 2
      BY <3>1, RegsType DEF CallRegs, Put, RegFile, RegIds, REG_IP, REG_BP, REG_ESP
    <3>3. Esp \in Nat /\ Ip \in Nat /\ StackSize \in Nat
      BY RegsType, MachineAssumption
    <3>4. stack'[Esp] = 0 /\ stack'[Esp + 1] = Ip
      BY <2>5, <3>1, <3>3 DEF InMain, TypeOK
    <3>5. PICK f : f = [ret |-> Ip + 1, esp |-> Esp, bp |-> regs[REG_BP]]
      OBVIOUS
    <3>6. frames' = <<f>>
      BY <1>4, <3>1, <3>5 DEF CallsNext, Enters, At, InMain
    <3>7. f.ret = Ip + 1 /\ f.ret \in 1 .. m - 1
      <4>1. Ip + 1 < m
        BY <1>4, <3>3, FetchedPart DEF InMain, Splits
      <4> QED
        BY <3>3, <3>5, <4>1
    <3>8. InSub(m)'
      BY <2>1, <2>5, <3>2, <3>3, <3>4, <3>6, <3>7 DEF InSub, Ip, Esp
    <3> QED
      BY <3>1, <3>6, <3>7, <3>8
  <2> QED
    BY <1>4, <2>3, <2>4, <2>5 DEF At
<1> QED
  BY <1>2, <1>3, <1>4

\* The turns of a subroutine.  Its frame stays where BP and ESP have it, until
\* a RET, which never fails, takes the main program up after the call.
LEMMA SubTurn ==
  ASSUME TypeOK, CallsNext, NEW m \in Nat, Splits(m), status = "RUNNING", InSub(m)
  PROVE  /\ At("RET") => Leaves
         /\ \/ status' # "RUNNING" /\ regs'[REG_IP] = Ip /\ frames' = frames
            \/ status' = "RUNNING" /\ frames' = frames /\ InSub(m)'
            \/ /\ status' = "RUNNING" /\ InMain(m)'
               /\ \E f : frames = <<f>> /\ regs'[REG_IP] = f.ret
<1> DEFINE bp == regs[REG_BP]
<1>1. PICK f : frames = <<f>> /\ f.ret \in 1 .. m - 1 /\ stack[bp + 1] + 1 = f.ret
  BY DEF InSub
<1>2. /\ m <= Ip /\ bp + 1 < Esp /\ bp + 1 < StackSize /\ stack[bp] = 0
      /\ bp \in Nat /\ Esp \in Nat /\ Ip \in Nat /\ StackSize \in Nat
  <2>1. \A w \in Word : w \in Nat
    BY WordSizeNat DEF Word
  <2>2. bp \in Word
    BY RegsType DEF RegIds, REG_BP
  <2>3. Esp \in Nat /\ Ip \in Nat /\ StackSize \in Nat
    BY RegsType, MachineAssumption
  <2>4. m <= Ip /\ bp + 1 < Esp /\ bp + 1 < StackSize /\ stack[bp] = 0
    BY DEF InSub
  <2> QED
    BY <2>1, <2>2, <2>3, <2>4
<1>3. Next
  BY DEF CallsNext
<1>4. CASE ~Fetches
  BY <1>3, <1>4, NoFetchEnds, FramesKept DEF At, Ip
<1>5. CASE Fetches /\ Inst.type # "RET"
  <2>1. /\ Contained(Inst) /\ Keeper(Inst)
        /\ IsJump(Inst) => dst.type = "IMM" /\ m <= dst.val
    <3>1. /\ Contained(Inst) /\ Keeper(Inst)
          /\ IsJump(Inst) => dst.type = "IMM" /\ dst.val >= m
      BY <1>2, <1>5, FetchedPart DEF SubInst, Keeper, Target, dst
    <3>2. dst.val \in Nat
      BY <1>5, InstType, WordSizeNat DEF Operands, Word
    <3> QED
      BY <3>1, <3>2
  <2>2. Goes
    BY <1>3, <1>5, <2>1, ContainedGoes
  <2>3. frames' = frames
    BY <1>5, <2>1, FramesKept DEF Contained
  <2>4. ASSUME status' = "RUNNING" PROVE InSub(m)'
    <3>1. regs'[REG_BP] = bp /\ Grows
      BY <2>1, <2>2, <2>4 DEF Goes
    <3>2. m <= regs'[REG_IP]
      <4>1. IsJump(Inst) => m <= Value(dst)
        BY <2>1 DEF Value, ValueIn
      <4> QED
        BY <1>2, <2>2, <2>4, <4>1 DEF Goes
    <3>3. stack'[bp] = stack[bp] /\ stack'[bp + 1] = stack[bp + 1]
      BY <1>2, <3>1 DEF Grows
    <3>4. bp + 1 < regs'[REG_ESP]
      <4>1. Esp <= regs'[REG_ESP]
        BY <3>1 DEF Grows
      <4>2. regs'[REG_ESP] \in Nat
        <5>1. regs' \in [RegIds -> Word]
          BY <1>3, NextTypeOK DEF TypeOK
        <5> QED
          BY <5>1, WordSizeNat DEF RegIds, REG_ESP, Word
      <4> QED
        BY <1>2, <4>1, <4>2
    <3> QED
      BY <1>1, <1>2, <2>3, <3>1, <3>2, <3>3, <3>4 DEF InSub, Ip, Esp
  <2> QED
    BY <1>5, <2>2, <2>3, <2>4 DEF Goes, At
<1>6. CASE Fetches /\ Inst.type = "RET"
  <2>1. Ret
    BY <1>3, <1>6, CallOrRet
  <2>2. Continue([regs EXCEPT ![REG_IP] = ReturnAddress(bp),
                              ![REG_BP] = stack[bp],
                              ![REG_ESP] = stack[bp]],
                 stack)
    <3>1. ~(Esp < 1) /\ ~(bp + 1 >= StackSize)
      BY <1>2
    <3> QED
      BY <2>1, <3>1 DEF Ret
  <2>3. ReturnAddress(bp) = f.ret
    <3>1. m \in 1 .. Len(program) /\ Len(program) \in Nat /\ Len(program) < WordSize
      BY DEF Splits, TypeOK
    <3>2. f.ret \in Nat /\ f.ret < WordSize
      BY <1>1, <3>1, WordSizeNat
    <3> QED
      BY <1>1, <3>2, WordSizeNat DEF ReturnAddress, ToWord
  <2>4. /\ status' = "RUNNING" /\ regs'[REG_IP] = f.ret /\ regs'[REG_BP] = 0
    BY <1>2, <2>2, <2>3, RegsType DEF Continue, RegFile, RegIds, REG_IP, REG_BP, REG_ESP
  <2>5. Leaves
    BY <1>1, <1>6, <2>4 DEF Leaves, At
  <2>6. frames' = <<>>
    <3>1. frames' = SubSeq(frames, 1, Len(frames) - 1)
      BY <2>5 DEF CallsNext
    <3> QED
      BY <1>1, <3>1
  <2>7. InMain(m)'
    <3>1. f.ret < m
      BY <1>1
    <3> QED
      BY <2>4, <2>6, <3>1 DEF InMain, Ip
  <2> QED
    BY <1>1, <2>4, <2>5, <2>7
<1> QED
  BY <1>4, <1>5, <1>6

-----------------------------------------------------------------------------
(* The theorems                                                              *)

LEMMA IsMachine == CallsSpec => Spec
<1>1. CallsInit => Init
  BY DEF CallsInit
<1>2. [CallsNext]_<<vars, frames>> => [Next]_vars
  BY DEF CallsNext
<1> QED
  BY <1>1, <1>2, PTL DEF CallsSpec, Spec

LEMMA CallInvHolds == CallsSpec => []CallInv
<1>1. CallsInit => CallInv
  <2> SUFFICES ASSUME CallsInit PROVE CallInv
    OBVIOUS
  <2>1. program \in Seq(Instructions) /\ LeafProgram(program)
    BY LeafAssumption, MachineAssumption DEF CallsInit, Init
  <2>2. PICK m \in 1 .. Len(program) : Splits(m)
    BY <2>1 DEF LeafProgram, Splits
  <2>3. m \in Nat /\ InMain(m)
    BY <2>1 DEF CallsInit, Init, InMain, Ip, RegIds, REG_IP, REG_BP
  <2> QED
    BY <2>2, <2>3 DEF CallInv
<1>2. TypeOK /\ CallInv /\ [CallsNext]_<<vars, frames>> => CallInv'
  <2> SUFFICES ASSUME TypeOK, CallInv, [CallsNext]_<<vars, frames>> PROVE CallInv'
    OBVIOUS
  <2>1. PICK m \in Nat : Splits(m) /\ (status = "RUNNING" => InMain(m) \/ InSub(m))
    BY DEF CallInv
  <2>2. Splits(m)'
    <3>1. program' = program
      BY LoadedKept DEF CallsNext, Loaded, vars
    <3> QED
      BY <2>1, <3>1 DEF Splits
  <2>3. CASE UNCHANGED <<vars, frames>>
    <3>1. status' = "RUNNING" => InMain(m)' \/ InSub(m)'
      BY <2>1, <2>3 DEF vars, InMain, InSub, Ip, Esp
    <3> QED
      BY <2>2, <3>1 DEF CallInv
  <2>4. CASE CallsNext
    <3>1. status # "RUNNING" => status' # "RUNNING"
      BY <2>4, EndedStays DEF CallsNext, vars
    <3>2. status' = "RUNNING" => InMain(m)' \/ InSub(m)'
      BY <2>1, <2>4, <3>1, MainTurn, SubTurn
    <3> QED
      BY <2>2, <3>2 DEF CallInv
  <2> QED
    BY <2>3, <2>4
<1> QED
  BY <1>1, <1>2, IsMachine, TypeCorrect, PTL DEF CallsSpec

\* A RET always ends a call: it is never executed when none is pending, and
\* neither of its two checks ever fails it.
THEOREM RetsEndCalls == CallsSpec => RetEndsCall
<1>1. TypeOK /\ CallInv /\ [CallsNext]_<<vars, frames>> =>
        [At("RET") => Leaves]_<<vars, frames>>
  <2> SUFFICES ASSUME TypeOK, CallInv, CallsNext, At("RET") PROVE Leaves
    OBVIOUS
  <2>1. status = "RUNNING"
    BY DEF At, Fetches, Running
  <2>2. PICK m \in Nat : Splits(m) /\ (InMain(m) \/ InSub(m))
    BY <2>1 DEF CallInv
  <2> QED
    BY <2>1, <2>2, MainTurn, SubTurn
<1> QED
  BY <1>1, CallInvHolds, IsMachine, TypeCorrect, PTL DEF CallsSpec, RetEndsCall

\* What a turn of such a program may do to ESP, and how it may leave the arrays.
LEMMA CallsWithin ==
  ASSUME TypeOK, CallInv, CallsNext, status = "RUNNING", Esp <= StackSize
  PROVE  /\ status' = "RUNNING" => Esp' <= StackSize
         /\ status' = "WILD" => At("CALL") /\ Esp + 1 = StackSize
<1>1. PICK m \in Nat : Splits(m) /\ (InMain(m) \/ InSub(m))
  BY DEF CallInv
<1>2. Next /\ Esp \in Nat /\ Ip \in Nat /\ StackSize \in Nat
  BY RegsType, MachineAssumption DEF CallsNext
<1>3. Fetches => (Ip < m /\ MainInst(program, Ip, m)) \/ (m <= Ip /\ SubInst(program, Ip, m))
  BY <1>1, FetchedPart DEF InMain, InSub
<1>4. Fetches => Inst = program[Ip + 1]
  BY <1>1, FetchedPart
<1>5. CASE ~Fetches \/ Inst.type \notin {"CALL", "RET"}
  <2>1. Safe
    BY <1>3, <1>4, <1>5 DEF Safe, MainInst, SubInst
  <2>2. Within'
    BY <1>2, <2>1, TurnWithin DEF Within
  <2> QED
    BY <2>2 DEF Within
<1>6. CASE Fetches /\ Inst.type = "CALL"
  <2>1. ~Contained(Inst)
    BY <1>6 DEF Contained
  <2>2. Resolves(dst)
    BY <1>3, <1>4, <1>6, <2>1 DEF MainInst, SubInst, dst, Resolves, Faulty, OutOfRegs
  <2>3. Call
    BY <1>2, <1>6, CallOrRet
  <2>4. \/ Return("ERR_STACK_OVERFLOW")
        \/ ~Full /\ Esp + 1 >= StackSize /\ Return("WILD")
        \/ /\ Esp + 1 < StackSize /\ status' = "RUNNING"
           /\ \E w : regs' = Put(CallRegs, REG_IP, w)
    BY <2>2, <2>3, NoFault DEF Call, Continue
  <2>5. \A w : Put(CallRegs, REG_IP, w)[REG_ESP] = Esp + 2
    BY RegsType DEF CallRegs, Put, RegFile, RegIds, REG_IP, REG_BP, REG_ESP
  <2>6. ASSUME Return("ERR_STACK_OVERFLOW")
        PROVE  status' \notin {"RUNNING", "WILD"}
    BY <2>6 DEF Return
  <2>7. ASSUME ~Full, Esp + 1 >= StackSize, Return("WILD")
        PROVE  status' # "RUNNING" /\ At("CALL") /\ Esp + 1 = StackSize
    BY <1>2, <1>6, <2>7 DEF Return, Full, At
  <2>8. ASSUME Esp + 1 < StackSize, status' = "RUNNING", NEW w, regs' = Put(CallRegs, REG_IP, w)
        PROVE  status' # "WILD" /\ Esp' <= StackSize
    <3>1. Esp' = Esp + 2
      BY <2>5, <2>8 DEF Esp
    <3> QED
      BY <1>2, <2>8, <3>1
  <2> QED
    BY <2>4, <2>6, <2>7, <2>8
<1>7. CASE Fetches /\ Inst.type = "RET"
  <2>1. InSub(m)
    BY <1>1, <1>7, MainTurn DEF At
  <2>2. Leaves /\ Ret
    BY <1>1, <1>2, <1>7, <2>1, SubTurn, CallOrRet DEF At
  <2>3. status' = "RUNNING" /\ stack[regs[REG_BP]] = 0
    BY <2>1, <2>2 DEF Leaves, InSub
  <2>4. regs' = [regs EXCEPT ![REG_IP] = ReturnAddress(regs[REG_BP]),
                             ![REG_BP] = stack[regs[REG_BP]],
                             ![REG_ESP] = stack[regs[REG_BP]]]
    BY <2>2, <2>3 DEF Ret, Return, Continue
  <2>5. Esp' = 0
    BY <2>3, <2>4, RegsType DEF Esp, RegFile, RegIds, REG_IP, REG_BP, REG_ESP
  <2> QED
    BY <1>2, <2>3, <2>5
<1> QED
  BY <1>5, <1>6, <1>7

RoomInv == status = "RUNNING" => Esp <= StackSize

\* Of the checks against overflow, which compare ESP with the size before one word
\* is pushed, CALL's is the only one such a program can get past: a program of
\* leaf subroutines runs out of the machine's arrays nowhere else.
THEOREM OnlyCallsOverrun == CallsSpec => OnlyCallOverruns
<1>1. CallsInit => RoomInv
  BY MachineAssumption DEF CallsInit, Init, RoomInv, Esp, RegIds, REG_ESP
<1>2. TypeOK /\ CallInv /\ RoomInv /\ [CallsNext]_<<vars, frames>> => RoomInv'
  <2> SUFFICES ASSUME TypeOK, CallInv, RoomInv, [CallsNext]_<<vars, frames>>,
                      status' = "RUNNING"
               PROVE  Esp' <= StackSize
    BY DEF RoomInv
  <2>1. CASE UNCHANGED <<vars, frames>>
    BY <2>1 DEF vars, RoomInv, Esp
  <2>2. CASE CallsNext
    <3>1. status = "RUNNING"
      BY <2>2, EndedStays DEF CallsNext, vars
    <3> QED
      BY <2>2, <3>1, CallsWithin DEF RoomInv
  <2> QED
    BY <2>1, <2>2
<1>3. TypeOK /\ CallInv /\ RoomInv /\ [CallsNext]_<<vars, frames>> =>
        [status' = "WILD" /\ status # "WILD" => At("CALL") /\ Esp + 1 = StackSize]_<<vars, frames>>
  <2> SUFFICES ASSUME TypeOK, CallInv, RoomInv, CallsNext, status' = "WILD", status # "WILD"
               PROVE  At("CALL") /\ Esp + 1 = StackSize
    OBVIOUS
  <2>1. status = "RUNNING"
    BY EndedStays DEF CallsNext, vars
  <2> QED
    BY <2>1, CallsWithin DEF RoomInv
<1> QED
  BY <1>1, <1>2, <1>3, CallInvHolds, IsMachine, TypeCorrect, PTL DEF CallsSpec, OnlyCallOverruns

\* What is remembered of one pending call, and of none.
LEMMA ReturnsOf ==
  /\ frames = <<>> => Returns = <<>>
  /\ \A f : frames = <<f>> => Returns = <<f.ret>>
<1>1. ASSUME frames = <<>> PROVE Returns = <<>>
  BY <1>1 DEF Returns
<1>2. ASSUME NEW f, frames = <<f>> PROVE Returns = <<f.ret>>
  BY <1>2 DEF Returns
<1> QED
  BY <1>1, <1>2

\* In a program whose subroutines call nothing and take nothing off the stack,
\* CALL and RET are a call and a return: each step of the machine is one of
\* CallReturn, or nothing that CallReturn sees.
THEOREM CallsAreCalls == CallsSpec => ImplementsCallReturn
<1>1. CallsInit => Abstract!Init
  BY ReturnsOf DEF CallsInit, Init, Abstract!Init, Ip, Runs, RegIds, REG_IP
<1>2. TypeOK /\ TypeOK' /\ CallInv /\ [CallsNext]_<<vars, frames>> =>
        [Abstract!Next]_Abstract!vars
  <2> SUFFICES ASSUME TypeOK, TypeOK', CallInv, [CallsNext]_<<vars, frames>>
               PROVE  [Abstract!Next]_Abstract!vars
    OBVIOUS
  <2>1. Ip' \in Nat /\ Ip \in Nat
    BY WordSizeNat DEF TypeOK, Ip, RegIds, REG_IP, Word
  <2>2. CASE UNCHANGED <<vars, frames>>
    BY <2>2 DEF vars, Ip, Returns, Runs, Abstract!vars
  <2>3. CASE CallsNext /\ status # "RUNNING"
    <3>1. UNCHANGED vars
      BY <2>3, EndedStays DEF CallsNext
    <3>2. UNCHANGED frames
      BY <2>3, <3>1, FramesKept DEF vars
    <3> QED
      BY <3>1, <3>2 DEF vars, Ip, Returns, Runs, Abstract!vars
  <2>4. CASE CallsNext /\ status = "RUNNING"
    <3>1. PICK m \in Nat : Splits(m) /\ (InMain(m) \/ InSub(m))
      BY <2>4 DEF CallInv
    <3>2. Runs = TRUE
      BY <2>4 DEF Runs
    <3>3. ASSUME status' # "RUNNING", regs'[REG_IP] = Ip, frames' = frames
          PROVE  Abstract!Stop
      BY <3>2, <3>3 DEF Abstract!Stop, Runs, Returns, Ip
    <3>4. ASSUME status' = "RUNNING", frames' = frames
          PROVE  Abstract!Local
      BY <2>1, <3>2, <3>4 DEF Abstract!Local, Runs, Returns
    <3>5. ASSUME status' = "RUNNING", InMain(m), NEW f, frames' = <<f>>, f.ret = Ip + 1
          PROVE  Abstract!Call
      <4>1. Returns = <<>>
        BY <3>5, ReturnsOf DEF InMain
      <4>2. Returns' = <<Ip + 1>>
        BY <3>5 DEF Returns
      <4> QED
        BY <2>1, <3>2, <3>5, <4>1, <4>2 DEF Abstract!Call, Runs
    <3>6. ASSUME status' = "RUNNING", InMain(m)', NEW f, frames = <<f>>, regs'[REG_IP] = f.ret
          PROVE  Abstract!Return
      <4>1. Returns = <<f.ret>>
        BY <3>6, ReturnsOf
      <4>2. Returns' = <<>>
        BY <3>6 DEF Returns, InMain
      <4> QED
        BY <3>2, <3>6, <4>1, <4>2 DEF Abstract!Return, Runs, Ip
    <3>7. CASE InMain(m)
      BY <2>4, <3>1, <3>3, <3>4, <3>5, <3>7, MainTurn DEF Abstract!Next
    <3>8. CASE InSub(m)
      BY <2>4, <3>1, <3>3, <3>4, <3>6, <3>8, SubTurn DEF Abstract!Next
    <3> QED
      BY <3>1, <3>7, <3>8
  <2> QED
    BY <2>2, <2>3, <2>4
<1> QED
  BY <1>1, <1>2, CallInvHolds, IsMachine, TypeCorrect, PTL
     DEF CallsSpec, ImplementsCallReturn, Abstract!Spec
=============================================================================
