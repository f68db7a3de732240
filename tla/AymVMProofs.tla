----------------------------- MODULE AymVMProofs -----------------------------
(***************************************************************************)
(* Theorems about the machine for every word width, stack and memory size, *)
(* set of labels and set of programs.                                      *)
(***************************************************************************)
EXTENDS AymVMProps, TLAPS

RegFile == [RegIds -> Word]
StackArray == [0 .. StackSize - 1 -> Word]

-----------------------------------------------------------------------------
(* Words                                                                     *)

\* The size of a word is a number, large enough for every flag.
LEMMA WordSizeNat == WordSize \in Nat /\ WordSize > 15
BY WordAssumption DEF WordSize

\* Wrapping around gives a word.
LEMMA ToWordType == \A i \in Int : ToWord(i) \in Word
BY WordSizeNat DEF ToWord, Word

\* The signed view of a word is an integer, and so is its low half.
LEMMA SignedType == \A w \in Word : Signed(w) \in Int
BY WordSizeNat DEF Signed, Word

\* The int at the low end of a word is an integer.
LEMMA LowIntType == \A w \in Word : LowInt(w) \in Int
<1>1. Pow2[IntBits] \in Nat \ {0}
  BY WordAssumption
<1> QED
  BY <1>1, WordSizeNat DEF LowInt, Word

\* A shift count is below the width, so that its power of two is in the table.
LEMMA CountType == \A c \in Nat : Count(c) \in 0 .. WordBits - 1 /\ Pow2[Count(c)] \in Nat \ {0}
<1> SUFFICES ASSUME NEW c \in Nat
             PROVE  Count(c) \in 0 .. WordBits - 1 /\ Pow2[Count(c)] \in Nat \ {0}
  OBVIOUS
<1>1. Count(c) \in 0 .. WordBits - 1
  BY WordAssumption DEF Count
<1> QED
  BY <1>1, WordAssumption

\* Division by a positive number stays within the integers, and within the naturals.
LEMMA DivType == \A i \in Int, p \in Nat \ {0} : i \div p \in Int /\ (i \in Nat => i \div p \in Nat)
OBVIOUS

\* SHL and SHR give words; the logical shift gives a natural number.
LEMMA ShiftType ==
  ASSUME NEW w \in Word, NEW c \in Nat
  PROVE  /\ ShiftLeft(w, c) \in Word
         /\ ShiftRight(w, c) \in Word
         /\ ShiftDown(w, c) \in Nat
<1>1. Pow2[Count(c)] \in Nat \ {0}
  BY CountType
<1>2. w \in Nat /\ w * Pow2[Count(c)] \in Int
  BY <1>1, WordSizeNat DEF Word
<1>3. Signed(w) \div Pow2[Count(c)] \in Int /\ w \div Pow2[Count(c)] \in Nat
  BY <1>1, <1>2, SignedType, DivType
<1> QED
  BY <1>2, <1>3, ToWordType DEF ShiftLeft, ShiftRight, ShiftDown

\* ROL and ROR give words, and the carry taken from them is one bit.
LEMMA RotateType ==
  ASSUME NEW w \in Word, NEW c \in Word
  PROVE  RotateLeft(w, c) \in Word /\ RotateRight(w, c) \in Word /\ RotateCarry(w, c) \in {0, 1}
<1>0. w \in Word /\ c \in Nat
  BY WordSizeNat DEF Word
<1>1. WordBits - Count(c) \in Nat
  <2>1. PICK k : k = Count(c)
    OBVIOUS
  <2>2. k \in 0 .. WordBits - 1
    BY <1>0, <2>1, CountType
  <2>3. WordBits \in Nat
    BY WordAssumption
  <2>4. WordBits - k \in Nat
    BY ONLY <2>2, <2>3
  <2> QED
    BY <2>1, <2>4
<1>2. /\ ShiftLeft(w, c) \in Int /\ ShiftLeft(w, WordBits - Count(c)) \in Int
      /\ ShiftDown(w, c) \in Nat /\ ShiftDown(w, WordBits - Count(c)) \in Nat
  <2>1. \A d \in Nat : ShiftLeft(w, d) \in Word /\ ShiftDown(w, d) \in Nat
    BY ShiftType
  <2>2. Word \subseteq Int
    BY WordSizeNat DEF Word
  <2> QED
    BY <1>0, <1>1, <2>1, <2>2
<1>3. RotateLeft(w, c) \in Word /\ RotateRight(w, c) \in Word
  BY <1>2, ToWordType DEF RotateLeft, RotateRight
<1>4. RotateCarry(w, c) \in {0, 1}
  BY <1>2 DEF RotateCarry
<1> QED
  BY <1>3, <1>4

\* C's division and remainder are defined for every non-zero divisor.
LEMMA TruncType ==
  ASSUME NEW a \in Int, NEW b \in Int, b # 0
  PROVE  TruncDiv(a, b) \in Int /\ TruncMod(a, b) \in Int
<1>1. Magnitude(a) \in Nat /\ Magnitude(b) \in Nat \ {0}
  BY DEF Magnitude
<1>2. Magnitude(a) \div Magnitude(b) \in Int
  BY <1>1, DivType
<1>3. TruncDiv(a, b) \in Int
  BY <1>2 DEF TruncDiv
<1> QED
  BY <1>3 DEF TruncMod

\* An arithmetic instruction that does not trap leaves a word.
LEMMA ResultType ==
  ASSUME NEW op \in ArithOps \cup {"MOV", "ADD"}, NEW a \in Word, NEW b \in Word,
         ~Traps(op, a, b)
  PROVE  Result(op, a, b) \in Word
<1>1. a \in Int /\ b \in Nat /\ Signed(a) \in Int /\ Signed(b) \in Int
  BY SignedType, WordSizeNat DEF Word
<1>2. a - b \in Int /\ a + b \in Int /\ a * b \in Int
  BY <1>1
<1>3. op \in {"DIV", "MOD"} => Signed(b) # 0
  BY <1>1, WordSizeNat DEF Traps, DivTraps, Signed, Word
<1>4. op \in {"DIV", "MOD"} =>
        TruncDiv(Signed(a), Signed(b)) \in Int /\ TruncMod(Signed(a), Signed(b)) \in Int
  BY <1>1, <1>3, TruncType
<1>5. ShiftLeft(a, b) \in Word /\ ShiftRight(a, b) \in Word
  BY <1>1, ShiftType
<1> QED
  BY <1>2, <1>4, <1>5, ToWordType DEF Result, ArithOps

-----------------------------------------------------------------------------
(* The parts of a step                                                       *)

\* Writing a word to a register keeps a register file one.
LEMMA PutType ==
  ASSUME NEW r \in RegFile, NEW k, NEW w \in Word
  PROVE  Put(r, k, w) \in RegFile
BY DEF Put, RegFile

\* Advancing IP wraps around, and leaves the other registers.
LEMMA StepType ==
  ASSUME NEW r \in RegFile
  PROVE  Step(r) \in RegFile /\ \A k \in RegIds \ {REG_IP} : Step(r)[k] = r[k]
<1>1. r[REG_IP] \in Word
  BY DEF RegFile, RegIds, REG_IP
<1>2. ToWord(r[REG_IP] + 1) \in Word
  BY <1>1, ToWordType, WordSizeNat DEF Word
<1> QED
  BY <1>2 DEF Step, RegFile

\* The registers of a machine, each a word.
LEMMA RegsType ==
  ASSUME TypeOK
  PROVE  /\ regs \in RegFile /\ Esp \in Word /\ Ip \in Word
         /\ \A k \in RegIds : regs[k] \in Word
         /\ Esp \in Nat /\ Ip \in Nat
BY WordSizeNat DEF TypeOK, RegFile, Esp, Ip, RegIds, REG_ESP, REG_IP, Word

\* What is fetched is an instruction.
LEMMA InstType ==
  ASSUME TypeOK, Fetches
  PROVE  Inst \in Instructions /\ dst \in Operands /\ src \in Operands
<1>1. Ip + 1 \in 1 .. Len(program)
  BY RegsType DEF Fetches, TypeOK
<1>2. Inst \in Instructions
  BY <1>1 DEF TypeOK, Inst
<1> QED
  BY <1>2 DEF Instructions, dst, src

\* The value of an operand that resolves is a word.
LEMMA ValueType ==
  ASSUME TypeOK, NEW r \in RegFile, NEW o \in Operands, Resolves(o)
  PROVE  ValueIn(r, o) \in Word
<1>1. CASE o.type = "IMM"
  BY <1>1 DEF ValueIn, Operands
<1>2. CASE o.type = "REG"
  BY <1>2 DEF ValueIn, Resolves, OutOfRegs, InRegs, RegFile
<1>3. CASE o.type \notin {"IMM", "REG"}
  <2>1. \A n \in DOMAIN label_table : label_table[n] \in 1 .. WordSize - 1
    BY DEF TypeOK
  <2>2. \A n \in DOMAIN label_table : label_table[n] - 1 \in Word
    BY <2>1, WordSizeNat DEF TypeOK, Word
  <2>3. WordSize - 1 \in Word
    BY WordSizeNat DEF Word
  <2> QED
    BY <1>3, <2>2, <2>3 DEF ValueIn
<1> QED
  BY <1>1, <1>2, <1>3

\* A return changes the status alone.
LEMMA ReturnType ==
  ASSUME TypeOK, NEW s \in Outcomes, Return(s)
  PROVE  TypeOK'
BY DEF TypeOK, Return, Loaded

\* An operand that faults ends the run and changes nothing else.
LEMMA FaultType ==
  ASSUME TypeOK, NEW o, FaultAt(o)
  PROVE  TypeOK'
BY ReturnType DEF FaultAt, Outcomes

\* A step that writes registers and stack is type correct when they are.
LEMMA ContinueType ==
  ASSUME TypeOK, NEW r \in RegFile, NEW s \in StackArray, Continue(r, s)
  PROVE  TypeOK'
BY DEF TypeOK, Continue, Loaded, RegFile, StackArray

\* A word written to the stack, or to the registers of an advancing instruction.
LEMMA StackPutType ==
  ASSUME TypeOK, NEW k, NEW w \in Word
  PROVE  [stack EXCEPT ![k] = w] \in StackArray
BY DEF TypeOK, StackArray

\* The stack of a machine is an array of words.
LEMMA StackType == TypeOK => stack \in StackArray
BY DEF TypeOK, StackArray

\* An instruction that writes its result to inst.dst.reg.
LEMMA WriteType ==
  ASSUME TypeOK, NEW w \in Word, Write(w)
  PROVE  TypeOK'
<1>1. CASE InRegs(dst)
  BY <1>1, RegsType, PutType, StackType, ContinueType DEF Write
<1>2. CASE ~InRegs(dst)
  BY <1>2, ReturnType DEF Write, Outcomes
<1> QED
  BY <1>1, <1>2

\* The two topmost words, when there are two.
LEMMA TopType ==
  ASSUME TypeOK, Fetches, Esp >= 2
  PROVE  Top \in Word /\ Second \in Word /\ Esp - 1 \in Word /\ Esp - 2 \in Word
<1>1. Esp - 1 \in 0 .. StackSize - 1 /\ Esp - 2 \in 0 .. StackSize - 1
  BY RegsType, MachineAssumption, WordSizeNat DEF Fetches, Word
<1> QED
  BY <1>1, MachineAssumption, WordSizeNat DEF Top, Second, TypeOK, Word

\* An instruction that replaces the two topmost words by one.
LEMMA ReduceType ==
  ASSUME TypeOK, Fetches, Esp >= 2, NEW w \in Word, Reduce(w)
  PROVE  TypeOK'
<1>1. Step(Put(regs, REG_ESP, Esp - 1)) \in RegFile
  BY RegsType, TopType, PutType, StepType
<1> QED
  BY <1>1, StackPutType, ContinueType DEF Reduce

-----------------------------------------------------------------------------
(* One lemma for each action that is more than a register written            *)

\* PUSH: ESP + 1 does not wrap, since the stack is smaller than a word.
LEMMA PushTypeOK == TypeOK /\ Push => TypeOK'
<1> SUFFICES ASSUME TypeOK, Push PROVE TypeOK'
  OBVIOUS
<1> DEFINE pushed == Put(regs, REG_ESP, Esp + 1)
<1>0. Fetches
  BY DEF Push, At
<1>1. ASSUME NEW s \in {"ERR_STACK_UNDERFLOW", "ERR_STACK_OVERFLOW", "WILD"}, Return(s)
      PROVE  TypeOK'
  BY <1>1, ReturnType DEF Outcomes, Errors
<1>2. ASSUME FaultAt(dst)
      PROVE  TypeOK'
  BY <1>2, FaultType
<1>3. ASSUME Resolves(dst), Esp < StackSize, NEW r \in {regs, pushed},
             Continue(Step(pushed), [stack EXCEPT ![Esp] = ValueIn(r, dst)])
      PROVE  TypeOK'
  <2>1. Esp + 1 \in Word
    BY <1>3, RegsType, MachineAssumption, WordSizeNat DEF Word
  <2>2. pushed \in RegFile /\ Step(pushed) \in RegFile /\ r \in RegFile
    BY <1>3, <2>1, RegsType, PutType, StepType
  <2>3. ValueIn(r, dst) \in Word
    BY <1>0, <1>3, <2>2, InstType, ValueType
  <2> QED
    BY <1>3, <2>2, <2>3, StackPutType, ContinueType
<1> QED
  BY <1>1, <1>2, <1>3 DEF Push

\* POP: both decrements are guarded, so that ESP never goes below 0.
LEMMA PopTypeOK == TypeOK /\ Pop => TypeOK'
<1> SUFFICES ASSUME TypeOK, Pop PROVE TypeOK'
  OBVIOUS
<1> DEFINE r == PopTop(regs)
<1>0. Fetches
  BY DEF Pop, At
<1>1. ASSUME NEW s \in {"ERR_STACK_UNDERFLOW", "WILD"}, Return(s)
      PROVE  TypeOK'
  BY <1>1, ReturnType DEF Outcomes, Errors
<1>2. ASSUME Field(dst) # 0 => Esp >= 1 /\ InRegs(dst)
      PROVE  r \in RegFile /\ r[REG_ESP] \in Word
  <2>1. CASE Field(dst) = 0
    BY <2>1, RegsType DEF PopTop, RegIds, REG_ESP
  <2>2. CASE Field(dst) # 0
    <3>1. Esp - 1 \in 0 .. StackSize - 1 /\ Esp - 1 \in Word
      BY <1>0, <1>2, <2>2, RegsType, MachineAssumption, WordSizeNat DEF Fetches, Word
    <3>2. stack[Esp - 1] \in Word
      BY <3>1 DEF TypeOK
    <3>3. r = Put(Put(regs, REG_ESP, Esp - 1), Field(dst), stack[Esp - 1])
      BY <2>2 DEF PopTop, Esp
    <3>4. r \in RegFile
      BY <3>1, <3>2, <3>3, RegsType, PutType
    <3> QED
      BY <3>4 DEF RegFile, RegIds, REG_ESP
  <2> QED
    BY <2>1, <2>2
<1>3. ASSUME Field(dst) # 0 => Esp >= 1 /\ InRegs(dst), NoneLeft(r),
             regs' = r, status' = "ERR_STACK_UNDERFLOW", Loaded,
             UNCHANGED <<stack, memory, halt, heap>>
      PROVE  TypeOK'
  BY <1>2, <1>3 DEF TypeOK, Loaded, RegFile, Outcomes, Errors
<1>4. ASSUME Field(dst) # 0 => Esp >= 1 /\ InRegs(dst), ~NoneLeft(r),
             Continue(Step(Put(r, REG_ESP, r[REG_ESP] - 1)), stack)
      PROVE  TypeOK'
  <2>1. r[REG_ESP] - 1 \in Word
    BY <1>2, <1>4, WordSizeNat DEF NoneLeft, Word
  <2>2. Step(Put(r, REG_ESP, r[REG_ESP] - 1)) \in RegFile
    BY <1>2, <1>4, <2>1, PutType, StepType
  <2> QED
    BY <1>4, <2>2, StackType, ContinueType
<1> QED
  BY <1>1, <1>3, <1>4 DEF Pop

\* SWAP exchanges words.
LEMMA SwapTypeOK == TypeOK /\ Swap => TypeOK'
<1> SUFFICES ASSUME TypeOK, Swap PROVE TypeOK'
  OBVIOUS
<1>0. Fetches
  BY DEF Swap, At
<1>1. CASE TooFew
  BY <1>1, ReturnType DEF TooFew, Outcomes, Errors
<1>2. ASSUME Esp >= 2,
             Continue(Step(regs), [stack EXCEPT ![Esp - 1] = Second, ![Esp - 2] = Top])
      PROVE  TypeOK'
  <2>1. [stack EXCEPT ![Esp - 1] = Second, ![Esp - 2] = Top] \in StackArray
    BY <1>0, <1>2, TopType, StackType DEF StackArray
  <2> QED
    BY <1>2, <2>1, RegsType, StepType, ContinueType
<1> QED
  BY <1>1, <1>2 DEF Swap

\* PLUS: the sum of two words wraps around.
LEMMA PlusTypeOK == TypeOK /\ Plus => TypeOK'
<1> SUFFICES ASSUME TypeOK, Plus PROVE TypeOK'
  OBVIOUS
<1>0. Fetches
  BY DEF Plus, At
<1>1. CASE TooFew
  BY <1>1, ReturnType DEF TooFew, Outcomes, Errors
<1>2. ASSUME Esp >= 2, Reduce(ToWord(Second + Top))
      PROVE  TypeOK'
  <2>1. ToWord(Second + Top) \in Word
    BY <1>0, <1>2, TopType, ToWordType, WordSizeNat DEF Word
  <2> QED
    BY <1>0, <1>2, <2>1, ReduceType
<1> QED
  BY <1>1, <1>2 DEF Plus

\* DUP: the word copied lies within the stack, at or above its top if the index
\* has wrapped.
LEMMA DupTypeOK == TypeOK /\ Dup => TypeOK'
<1> SUFFICES ASSUME TypeOK, Dup PROVE TypeOK'
  OBVIOUS
<1>0. Fetches
  BY DEF Dup, At
<1>1. ASSUME NEW s \in {"ERR_STACK_UNDERFLOW", "ERR_STACK_OVERFLOW", "WILD"}, Return(s)
      PROVE  TypeOK'
  BY <1>1, ReturnType DEF Outcomes, Errors
<1>2. ASSUME FaultAt(dst)
      PROVE  TypeOK'
  BY <1>2, FaultType
<1>3. ASSUME ~Full, Resolves(dst), DupFrom < StackSize,
             Continue(Step(Put(regs, REG_ESP, Esp + 1)), [stack EXCEPT ![Esp] = stack[DupFrom]])
      PROVE  TypeOK'
  <2>1. Esp + 1 \in Word /\ Esp < StackSize
    BY <1>3, RegsType, MachineAssumption, WordSizeNat DEF Full, Word
  <2>2. Value(dst) \in Word
    BY <1>0, <1>3, InstType, RegsType, ValueType DEF Value
  <2>3. DupFrom \in 0 .. StackSize - 1
    <3>1. Esp - 1 - Value(dst) \in Int
      BY <2>2, RegsType, WordSizeNat DEF Word
    <3>2. DupFrom \in Nat
      BY <3>1, ToWordType, WordSizeNat DEF DupFrom, Word
    <3> QED
      BY <1>3, <3>2, MachineAssumption
  <2>4. stack[DupFrom] \in Word
    BY <2>3 DEF TypeOK
  <2>5. Step(Put(regs, REG_ESP, Esp + 1)) \in RegFile
    BY <2>1, RegsType, PutType, StepType
  <2> QED
    BY <1>3, <2>4, <2>5, StackPutType, ContinueType
<1> QED
  BY <1>1, <1>2, <1>3 DEF Dup

\* The register and the stack forms of the arithmetic instructions.
LEMMA ArithTypeOK == TypeOK /\ Arith => TypeOK'
<1> SUFFICES ASSUME TypeOK, Arith PROVE TypeOK'
  OBVIOUS
<1>1. ASSUME NEW op \in ArithOps \cup {"MOV", "ADD"}, ArithReg(op)
      PROVE  TypeOK'
  <2>0. Fetches
    BY <1>1 DEF ArithReg, At
  <2>1. ASSUME NEW s \in {"ERR_ILLEGAL_OPERAND_TYPE", "ERR_DIV_BY_ZERO", "WILD", "CRASH"},
               Return(s)
        PROVE  TypeOK'
    BY <2>1, ReturnType DEF Outcomes, Errors
  <2>2. ASSUME FaultAt(src)
        PROVE  TypeOK'
    BY <2>2, FaultType
  <2>3. ASSUME dst.type = "REG", Resolves(src), InRegs(dst),
               ~Traps(op, Value(dst), Value(src)),
               Continue(Step(Put(regs, Field(dst), Result(op, Value(dst), Value(src)))), stack)
        PROVE  TypeOK'
    <3>1. Value(dst) \in Word /\ Value(src) \in Word
      <4>1. Resolves(dst)
        BY <2>3 DEF Resolves, Faulty, OutOfRegs
      <4> QED
        BY <2>0, <2>3, <4>1, InstType, RegsType, ValueType DEF Value
    <3>2. Result(op, Value(dst), Value(src)) \in Word
      BY <2>3, <3>1, ResultType
    <3> QED
      BY <2>3, <3>2, RegsType, PutType, StepType, StackType, ContinueType
  <2> QED
    BY <1>1, <2>1, <2>2, <2>3 DEF ArithReg
<1>2. ASSUME NEW op \in ArithOps, ArithStack(op)
      PROVE  TypeOK'
  <2>0. Fetches
    BY <1>2 DEF ArithStack, At
  <2>1. ASSUME NEW s \in {"ERR_STACK_UNDERFLOW", "ERR_DIV_BY_ZERO", "CRASH"}, Return(s)
        PROVE  TypeOK'
    BY <2>1, ReturnType DEF Outcomes, Errors
  <2>2. ASSUME Esp >= 2, ~Traps(op, Second, Top), Reduce(Result(op, Second, Top))
        PROVE  TypeOK'
    <3>1. Result(op, Second, Top) \in Word
      BY <2>0, <2>2, TopType, ResultType
    <3> QED
      BY <2>0, <2>2, <3>1, ReduceType
  <2> QED
    BY <1>2, <2>1, <2>2 DEF ArithStack, TooFew
<1> QED
  BY <1>1, <1>2 DEF Arith, MovAdd

\* ROL and ROR, with the flags they write.
LEMMA RotateTypeOK == TypeOK /\ Rotate => TypeOK'
<1> SUFFICES ASSUME TypeOK, NEW op \in RotateOps, RotateReg(op) \/ RotateStack(op)
             PROVE  TypeOK'
  BY DEF Rotate
<1>0. Fetches
  BY DEF RotateReg, RotateStack, At
<1>1. ASSUME NEW s \in {"ERR_ILLEGAL_OPERAND_TYPE", "ERR_STACK_UNDERFLOW"}, Return(s)
      PROVE  TypeOK'
  BY <1>1, ReturnType DEF Outcomes, Errors
<1>2. ASSUME NEW o, FaultAt(o)
      PROVE  TypeOK'
  BY <1>2, FaultType
<1>3. ASSUME Resolves(src), Resolves(dst),
             Continue(Step([regs EXCEPT ![REG_FLAGS] = WithCarry(@),
                                        ![REG_0] = Rotated(op, Value(dst), Value(src))]),
                      stack)
      PROVE  TypeOK'
  <2>1. Rotated(op, Value(dst), Value(src)) \in Word
    BY <1>0, <1>3, InstType, RegsType, ValueType, RotateType DEF Value, Rotated
  <2>2. \A f \in Word : WithCarry(f) \in Word
    BY ToWordType, WordSizeNat DEF WithCarry, FLAG_CARRY, Word
  <2> QED
    BY <1>3, <2>1, <2>2, RegsType, StepType, StackType, ContinueType DEF RegFile
<1>4. ASSUME Esp >= 2,
             Continue(Step([regs EXCEPT ![REG_ESP] = @ - 2,
                                        ![REG_FLAGS] = RotateCarry(Second, Top) + 1]),
                      [stack EXCEPT ![RotateCarry(Second, Top)] = Rotated(op, Second, Top)])
      PROVE  TypeOK'
  <2>1. Rotated(op, Second, Top) \in Word /\ RotateCarry(Second, Top) \in {0, 1}
    BY <1>0, <1>4, TopType, RotateType DEF Rotated
  <2>2. regs[REG_ESP] - 2 \in Word /\ RotateCarry(Second, Top) + 1 \in Word
    BY <1>0, <1>4, <2>1, TopType, WordSizeNat DEF Esp, Word
  <2>3. Step([regs EXCEPT ![REG_ESP] = @ - 2, ![REG_FLAGS] = RotateCarry(Second, Top) + 1])
          \in RegFile
    BY <2>2, RegsType, StepType DEF RegFile
  <2> QED
    BY <1>4, <2>1, <2>3, StackPutType, ContinueType
<1> QED
  BY <1>1, <1>2, <1>3, <1>4 DEF RotateReg, RotateStack, TooFew

\* INC wraps around.
LEMMA IncTypeOK == TypeOK /\ Inc => TypeOK'
<1> SUFFICES ASSUME TypeOK, Inc PROVE TypeOK'
  OBVIOUS
<1>1. ASSUME NEW s \in {"ERR_ILLEGAL_OPERAND_TYPE", "WILD"}, Return(s)
      PROVE  TypeOK'
  BY <1>1, ReturnType DEF Outcomes, Errors
<1> DEFINE r == Put(regs, Field(dst), ToWord(Value(dst) + 1))
<1>2. ASSUME dst.type = "REG", InRegs(dst), Continue(Step(SetZero(r, Field(dst))), stack)
      PROVE  TypeOK'
  <2>1. Value(dst) \in Word
    BY <1>2, RegsType DEF Value, ValueIn, InRegs
  <2>2. ToWord(Value(dst) + 1) \in Word
    BY <2>1, ToWordType, WordSizeNat DEF Word
  <2>3. r \in RegFile
    BY <2>2, RegsType, PutType
  <2>4. \A b \in BOOLEAN : Truth(b) \in Word
    BY WordSizeNat DEF Truth, Word
  <2>5. SetZero(r, Field(dst)) \in RegFile
    BY <2>3, <2>4, PutType DEF SetZero
  <2> QED
    BY <1>2, <2>5, StepType, StackType, ContinueType
<1> QED
  BY <1>1, <1>2 DEF Inc

\* The logic instructions write a word of their choice and the flags.
LEMMA LogicTypeOK == TypeOK /\ Logic => TypeOK'
<1> SUFFICES ASSUME TypeOK, NEW op \in LogicOps, LogicOp(op)
             PROVE  TypeOK'
  BY DEF Logic
<1>1. CASE Return("WILD")
  BY <1>1, ReturnType DEF Outcomes
<1>2. ASSUME NEW o, FaultAt(o)
      PROVE  TypeOK'
  BY <1>2, FaultType
<1>3. ASSUME NEW w \in Word,
             Continue(SetZero(Put(regs, Field(dst), w), Field(dst)), stack)
      PROVE  TypeOK'
  <2>1. \A b \in BOOLEAN : Truth(b) \in Word
    BY WordSizeNat DEF Truth, Word
  <2>2. SetZero(Put(regs, Field(dst), w), Field(dst)) \in RegFile
    BY <2>1, RegsType, PutType DEF SetZero
  <2> QED
    BY <1>3, <2>2, StackType, ContinueType
<1> QED
  BY <1>1, <1>2, <1>3 DEF LogicOp, FaultIn

\* CMP and TEST write the flags: at most 11, which fits in a word.
LEMMA CompareTypeOK == TypeOK /\ (Cmp \/ Test) => TypeOK'
<1> SUFFICES ASSUME TypeOK, Cmp \/ Test PROVE TypeOK'
  OBVIOUS
<1>1. ASSUME NEW o, FaultAt(o)
      PROVE  TypeOK'
  BY <1>1, FaultType
<1>2. \A a, b : CmpFlags(a, b) \in 0 .. 11
  BY DEF CmpFlags, FLAG_ZERO, FLAG_SIGN, FLAG_OVERFLOW
<1>3. \A b : Truth(b) \in 0 .. 11
  BY DEF Truth
<1>4. ASSUME NEW w \in 0 .. 11
      PROVE  Put(regs, REG_FLAGS, w) \in RegFile /\ Step(Put(regs, REG_FLAGS, w)) \in RegFile
  <2>1. w \in Word
    BY WordSizeNat DEF Word
  <2> QED
    BY <2>1, RegsType, PutType, StepType
<1> QED
  BY <1>1, <1>2, <1>3, <1>4, StackType, ContinueType DEF Cmp, Test, FaultIn

\* LEA, LOAD and STORE move words.
LEMMA MemoryTypeOK == TypeOK /\ (Lea \/ Load \/ Store) => TypeOK'
<1> SUFFICES ASSUME TypeOK, Lea \/ Load \/ Store PROVE TypeOK'
  OBVIOUS
<1>0. Fetches
  BY DEF Lea, Load, Store, At
<1>1. ASSUME NEW o, FaultAt(o)
      PROVE  TypeOK'
  BY <1>1, FaultType
<1>2. CASE Return("WILD")
  BY <1>2, ReturnType DEF Outcomes
<1>3. ASSUME NEW o \in {dst, src}, Resolves(o)
      PROVE  Value(o) \in Word
  BY <1>0, <1>3, InstType, RegsType, ValueType DEF Value
<1>4. CASE Lea
  BY <1>1, <1>3, <1>4, WriteType DEF Lea
<1>5. CASE Load
  <2>1. ASSUME Resolves(src), Value(src) < MemorySize, Write(memory[Value(src)])
        PROVE  TypeOK'
    <3>1. Value(src) \in 0 .. MemorySize - 1
      BY <1>3, <2>1, MachineAssumption, WordSizeNat DEF Word
    <3>2. memory[Value(src)] \in Word
      BY <3>1 DEF TypeOK
    <3> QED
      BY <2>1, <3>2, WriteType
  <2> QED
    BY <1>1, <1>2, <1>5, <2>1 DEF Load
<1>6. CASE Store
  <2>1. ASSUME BothResolve, memory' = [memory EXCEPT ![Value(dst)] = Value(src)],
               Loaded, UNCHANGED <<stack, regs, halt, heap, status>>
        PROVE  TypeOK'
    <3>1. Value(src) \in Word
      BY <1>3, <2>1 DEF BothResolve
    <3> QED
      BY <2>1, <3>1 DEF TypeOK, Loaded
  <2> QED
    BY <1>1, <1>2, <1>6, <2>1 DEF Store, FaultIn, AfterStore
<1> QED
  BY <1>4, <1>5, <1>6

\* A jump sets IP to the value of its operand.
LEMMA GotoTypeOK == ASSUME TypeOK, Fetches, Goto PROVE TypeOK'
<1>1. CASE FaultAt(dst)
  BY <1>1, FaultType
<1>2. ASSUME Resolves(dst), Continue(Put(regs, REG_IP, Value(dst)), stack)
      PROVE  TypeOK'
  <2>1. Value(dst) \in Word
    BY <1>2, InstType, RegsType, ValueType DEF Value
  <2> QED
    BY <1>2, <2>1, RegsType, PutType, StackType, ContinueType
<1> QED
  BY <1>1, <1>2 DEF Goto

\* A conditional jump jumps, advances IP or does nothing.
LEMMA CondJumpTypeOK == TypeOK /\ CondJump => TypeOK'
<1> SUFFICES ASSUME TypeOK, NEW op \in CondJumps, At(op),
                    (Taken(op) /\ Goto) \/ Continue(NotTaken(op), stack)
             PROVE  TypeOK'
  BY DEF CondJump
<1>1. NotTaken(op) \in RegFile
  BY RegsType, StepType DEF NotTaken
<1> QED
  BY <1>1, GotoTypeOK, StackType, ContinueType DEF At

\* CALL: the saved BP and IP are words, and so is ESP + 2.
LEMMA CallTypeOK == TypeOK /\ Call => TypeOK'
<1> SUFFICES ASSUME TypeOK, Call PROVE TypeOK'
  OBVIOUS
<1>0. Fetches
  BY DEF Call, At
<1>1. ASSUME NEW s \in {"ERR_STACK_OVERFLOW", "WILD"}, Return(s)
      PROVE  TypeOK'
  BY <1>1, ReturnType DEF Outcomes, Errors
<1>2. CASE FaultAt(dst)
  BY <1>2, FaultType
<1>3. ASSUME Esp + 1 < StackSize, Resolves(dst),
             Continue(Put(CallRegs, REG_IP, ValueIn(CallRegs, dst)),
                      [stack EXCEPT ![Esp] = regs[REG_BP], ![Esp + 1] = Ip])
      PROVE  TypeOK'
  <2>1. Esp + 2 \in Word
    BY <1>3, RegsType, MachineAssumption, WordSizeNat DEF Word
  <2>2. CallRegs \in RegFile
    BY <2>1, RegsType, PutType DEF CallRegs
  <2>3. ValueIn(CallRegs, dst) \in Word
    BY <1>0, <1>3, <2>2, InstType, ValueType
  <2>4. Put(CallRegs, REG_IP, ValueIn(CallRegs, dst)) \in RegFile
    BY <2>2, <2>3, PutType
  <2>5. regs[REG_BP] \in Word /\ Ip \in Word
    BY RegsType DEF RegIds, REG_BP
  <2>6. [stack EXCEPT ![Esp] = regs[REG_BP], ![Esp + 1] = Ip] \in StackArray
    BY <2>5, StackType DEF StackArray
  <2> QED
    BY <1>3, <2>4, <2>6, ContinueType
<1> QED
  BY <1>1, <1>2, <1>3 DEF Call

\* RET: the words of the frame become registers.
LEMMA RetTypeOK == TypeOK /\ Ret => TypeOK'
<1> SUFFICES ASSUME TypeOK, Ret PROVE TypeOK'
  OBVIOUS
<1> DEFINE bp == regs[REG_BP]
<1>1. ASSUME NEW s \in {"ERR_STACK_UNDERFLOW", "WILD"}, Return(s)
      PROVE  TypeOK'
  BY <1>1, ReturnType DEF Outcomes, Errors
<1>2. ASSUME bp + 1 < StackSize,
             Continue([regs EXCEPT ![REG_IP] = ReturnAddress(bp),
                                   ![REG_BP] = stack[bp],
                                   ![REG_ESP] = stack[bp]],
                      stack)
      PROVE  TypeOK'
  <2>0. bp \in Nat
    <3>1. REG_BP \in RegIds
      BY DEF RegIds, REG_BP
    <3> QED
      BY <3>1, RegsType, WordSizeNat DEF Word
  <2>1. bp \in 0 .. StackSize - 1 /\ bp + 1 \in 0 .. StackSize - 1
    BY <1>2, <2>0, MachineAssumption
  <2>2. stack[bp] \in Word /\ stack[bp + 1] \in Word
    BY <2>1 DEF TypeOK
  <2>3. ReturnAddress(bp) \in Word
    BY <2>2, ToWordType, WordSizeNat DEF ReturnAddress, Word
  <2>4. [regs EXCEPT ![REG_IP] = ReturnAddress(bp), ![REG_BP] = stack[bp],
                     ![REG_ESP] = stack[bp]] \in RegFile
    BY <2>2, <2>3, RegsType DEF RegFile
  <2> QED
    BY <1>2, <2>4, StackType, ContinueType
<1> QED
  BY <1>1, <1>2 DEF Ret

\* SYSCALL: an address malloc returns is a word.
LEMMA SyscallTypeOK == TypeOK /\ Syscall => TypeOK'
<1> SUFFICES ASSUME TypeOK, Syscall PROVE TypeOK'
  OBVIOUS
<1>1. ASSUME NEW s \in {"CRASH", "ERR_UNKOWN_SYSCALL"}, Return(s)
      PROVE  TypeOK'
  BY <1>1, ReturnType DEF Outcomes, Errors
<1>2. Step(regs) \in RegFile
  BY RegsType, StepType
<1>3. CASE Continue(Step(regs), stack)
  BY <1>2, <1>3, StackType, ContinueType
<1>4. ASSUME regs' = Step(regs), halt' \in BOOLEAN, heap' \subseteq HeapAddrs,
             Loaded, UNCHANGED <<stack, memory, status>>
      PROVE  TypeOK'
  BY <1>2, <1>4 DEF TypeOK, Loaded, RegFile
<1>5. ASSUME NEW p \in {0} \cup (HeapAddrs \ heap),
             regs' = Step(Put(regs, REG_2, p)), heap' = heap \cup ({p} \ {0}),
             Loaded, UNCHANGED <<stack, memory, halt, status>>
      PROVE  TypeOK'
  <2>1. p \in Word
    BY MachineAssumption, WordSizeNat DEF Word
  <2>2. Step(Put(regs, REG_2, p)) \in RegFile
    BY <2>1, RegsType, PutType, StepType
  <2> QED
    BY <1>5, <2>2 DEF TypeOK, Loaded, RegFile
<1> DEFINE code == LowUnsigned(regs[REG_0])
           arg == regs[REG_1]
           AllUntouched == Loaded /\ UNCHANGED <<stack, memory, status>>
<1>6. \/ Return("CRASH") \/ Return("ERR_UNKOWN_SYSCALL") \/ Continue(Step(regs), stack)
      \/ regs' = Step(regs) /\ halt' = TRUE /\ AllUntouched /\ heap' = heap
      \/ /\ \E p \in {0} \cup (HeapAddrs \ heap) :
              regs' = Step(Put(regs, REG_2, p)) /\ heap' = heap \cup ({p} \ {0})
         /\ AllUntouched /\ halt' = halt
      \/ regs' = Step(regs) /\ heap' = heap \ {arg} /\ AllUntouched /\ halt' = halt
  BY DEF Syscall
<1>7. halt \in BOOLEAN /\ heap \subseteq HeapAddrs /\ heap \ {arg} \subseteq HeapAddrs
  BY DEF TypeOK
<1>8. ASSUME regs' = Step(regs), halt' = TRUE, AllUntouched, heap' = heap
      PROVE  TypeOK'
  BY <1>4, <1>7, <1>8
<1>9. ASSUME regs' = Step(regs), heap' = heap \ {arg}, AllUntouched, halt' = halt
      PROVE  TypeOK'
  BY <1>4, <1>7, <1>9
<1>10. ASSUME NEW p \in {0} \cup (HeapAddrs \ heap), regs' = Step(Put(regs, REG_2, p)),
              heap' = heap \cup ({p} \ {0}), AllUntouched, halt' = halt
       PROVE  TypeOK'
  BY <1>5, <1>10
<1> QED
  BY <1>1, <1>3, <1>6, <1>8, <1>9, <1>10

\* The actions that change at most IP, halt or the status.
LEMMA SimpleTypeOK ==
  TypeOK /\ (Nop \/ Bswap \/ Halt \/ IllegalInst \/ BadFetch \/ WildDump \/ Finish) => TypeOK'
<1>1. ASSUME TypeOK, Nop \/ Bswap
      PROVE  TypeOK'
  BY <1>1, RegsType, StepType, StackType, ContinueType DEF Nop, Bswap
<1>2. ASSUME TypeOK, Halt
      PROVE  TypeOK'
  BY <1>2 DEF Halt, TypeOK, Loaded
<1>3. ASSUME TypeOK, IllegalInst \/ BadFetch \/ WildDump \/ Finish
      PROVE  TypeOK'
  BY <1>3, ReturnType DEF IllegalInst, BadFetch, WildDump, Finish, Outcomes, Errors
<1> QED
  BY <1>1, <1>2, <1>3

-----------------------------------------------------------------------------

\* The machine starts well typed, its labels bound or not.
LEMMA InitTypeOK == Init => TypeOK
<1> SUFFICES ASSUME Init PROVE TypeOK
  OBVIOUS
<1>1. program \in Seq(Instructions) /\ Len(program) < WordSize
  BY MachineAssumption DEF Init
<1>2. DOMAIN label_table \subseteq LabelNames
      /\ label_table \in [DOMAIN label_table -> DOMAIN program]
  <2>1. CASE label_table = <<>>
    BY <2>1
  <2>2. CASE label_table \in Bindings(program)
    BY <2>2 DEF Bindings, BoundNames
  <2> QED
    BY <2>1, <2>2 DEF Init
<1>3. DOMAIN program \subseteq 1 .. WordSize - 1
  BY <1>1, WordSizeNat
<1>4. 0 \in Word
  BY WordSizeNat DEF Word
<1> QED
  BY <1>1, <1>2, <1>3, <1>4 DEF Init, TypeOK, Outcomes

\* Every step of the machine keeps it well typed.
LEMMA NextTypeOK == TypeOK /\ [Next]_vars => TypeOK'
<1> SUFFICES ASSUME TypeOK, [Next]_vars PROVE TypeOK'
  OBVIOUS
<1>1. CASE Jmp
  BY <1>1, GotoTypeOK DEF Jmp, At
<1>2. CASE Returned \/ UNCHANGED vars
  BY <1>2 DEF Returned, vars, TypeOK
<1> QED
  BY <1>1, <1>2, PushTypeOK, PopTypeOK, SwapTypeOK, PlusTypeOK, DupTypeOK, ArithTypeOK,
     RotateTypeOK, IncTypeOK, LogicTypeOK, CompareTypeOK, MemoryTypeOK, CondJumpTypeOK,
     CallTypeOK, RetTypeOK, SyscallTypeOK, SimpleTypeOK DEF Next

\* Every reachable state of every machine has the types of the C struct: no
\* instruction leaves a word outside its width, whatever it computes.
THEOREM TypeCorrect == Spec => []TypeOK
<1>1. Init => TypeOK
  BY InitTypeOK
<1>2. TypeOK /\ [Next]_vars => TypeOK'
  BY NextTypeOK
<1> QED
  BY <1>1, <1>2, PTL DEF Spec
=============================================================================
