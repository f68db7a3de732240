--------------------------- MODULE AymCompareProofs ---------------------------
(***************************************************************************)
(* What CMP and the conditional jumps after it decide, for words of every  *)
(* width: the arithmetic of the flags, and the step that sets them.        *)
(***************************************************************************)
EXTENDS AymVMProofs

\* The size of a word is even: its upper half are the negative numbers.
LEMMA WordSizeEven == \E h \in Nat : WordSize = 2 * h
<1>1. WordBits - 1 \in 0 .. WordBits - 1 /\ WordBits - 1 \in 0 .. WordBits
  BY WordAssumption
<1>2. Pow2[WordBits - 1] \in Nat /\ Pow2[WordBits] = 2 * Pow2[WordBits - 1]
  BY <1>1, WordAssumption
<1> QED
  BY <1>2 DEF WordSize

\* The difference of two words, as CMP computes it, against that of the numbers
\* they stand for.
LEMMA DifferenceFacts ==
  ASSUME NEW a \in Word, NEW b \in Word,
         NEW r, r = ToWord(a - b),
         NEW d, d = Signed(a) - Signed(b)
  PROVE  /\ r = 0 <=> d = 0
         /\ Overflows(a, b, r) <=> ~Representable(d)
         /\ Representable(d) => (Negative(r) <=> d < 0)
<1>0. PICK h \in Nat : WordSize = 2 * h
  BY WordSizeEven
<1>1. a \in Nat /\ b \in Nat /\ a < 2 * h /\ b < 2 * h /\ h > 7
  BY <1>0, WordSizeNat DEF Word
<1>2. r = IF a >= b THEN a - b ELSE a - b + 2 * h
  <2>1. CASE a >= b
    <3>1. a - b \in 0 .. 2 * h - 1
      BY <1>1, <2>1
    <3> QED
      BY <1>0, <1>1, <2>1, <3>1 DEF ToWord
  <2>2. CASE a < b
    <3>1. a - b + 2 * h \in 0 .. 2 * h - 1 /\ a - b \in Int
      BY <1>1, <2>2
    <3> QED
      BY <1>0, <1>1, <2>2, <3>1 DEF ToWord
  <2> QED
    BY <1>1, <2>1, <2>2
<1>3. /\ Signed(a) = IF a < h THEN a ELSE a - 2 * h
      /\ Signed(b) = IF b < h THEN b ELSE b - 2 * h
  BY <1>0, <1>1 DEF Signed
<1>4. \A w \in Int : Negative(w) <=> w >= h
  BY <1>0, <1>1 DEF Negative
<1>5. \A i \in Int : Representable(i) <=> -h <= i /\ i < h
  BY <1>0, <1>1 DEF Representable
<1>6. r \in Int /\ d \in Int
  BY <1>1, <1>2, <1>3
<1>7. (Negative(a) <=> a >= h) /\ (Negative(b) <=> b >= h) /\ (Negative(r) <=> r >= h)
  BY <1>1, <1>4, <1>6
<1>8. Representable(d) <=> (-h <= d /\ d < h)
  BY <1>5, <1>6
<1>9. Overflows(a, b, r) <=> (Negative(a) /\ ~Negative(b) /\ ~Negative(r))
                                \/ (~Negative(a) /\ Negative(b) /\ Negative(r))
  <2>1. \A w : Negative(w) \in BOOLEAN
    BY DEF Negative
  <2> QED
    BY <2>1 DEF Overflows
<1>10. /\ r = 0 <=> d = 0
       /\ Overflows(a, b, r) <=> ~Representable(d)
       /\ Representable(d) => (Negative(r) <=> d < 0)
  <2>1. d = Signed(a) - Signed(b)
    OBVIOUS
  <2>2. CASE a < h /\ b < h
    <3>1. d = a - b /\ -h <= d /\ d < h
      BY <1>1, <1>3, <2>1, <2>2
    <3> QED
      BY <1>1, <1>2, <1>7, <1>8, <1>9, <2>2, <3>1
  <2>3. CASE a >= h /\ b >= h
    <3>1. d = a - b /\ -h <= d /\ d < h
      BY <1>1, <1>3, <2>1, <2>3
    <3> QED
      BY <1>1, <1>2, <1>7, <1>8, <1>9, <2>3, <3>1
  <2>4. CASE a < h /\ b >= h
    <3>1. d = a - b + 2 * h /\ r = a - b + 2 * h
      BY <1>1, <1>2, <1>3, <2>1, <2>4
    <3> QED
      BY <1>1, <1>6, <1>7, <1>8, <1>9, <2>4, <3>1
  <2>5. CASE a >= h /\ b < h
    <3>1. d = a - b - 2 * h /\ r = a - b
      BY <1>1, <1>2, <1>3, <2>1, <2>5
    <3> QED
      BY <1>1, <1>6, <1>7, <1>8, <1>9, <2>5, <3>1
  <2> QED
    BY <1>1, <2>2, <2>3, <2>4, <2>5
<1> QED
  BY <1>10

\* The flags, read back one by one.
LEMMA FlagsReadBack ==
  ASSUME NEW z \in {0, 1}, NEW s \in {0, 2}, NEW o \in {0, 8},
         regs'[REG_FLAGS] = z + s + o
  PROVE  /\ Flag(FLAG_ZERO)' <=> z = 1
         /\ Flag(FLAG_SIGN)' <=> s = 2
         /\ Flag(FLAG_OVERFLOW)' <=> o = 8
         /\ ~Flag(FLAG_CARRY)'
BY DEF Flag, FLAG_ZERO, FLAG_SIGN, FLAG_OVERFLOW, FLAG_CARRY

\* A comparison whose operands can be read is a step of Cmp, and leaves its
\* flags in REG_FLAGS.
LEMMA CompareStep ==
  ASSUME TypeOK, Compares, Next
  PROVE  regs'[REG_FLAGS] = CmpFlags(Value(src), Value(dst))
<1>1. Running /\ Esp <= StackSize /\ Ip < Len(program) /\ Fetches /\ Inst.type = "CMP"
      /\ Resolves(src) /\ Resolves(dst)
  BY DEF Compares, At, Fetches, BothResolve
<1>2. ~(BadFetch \/ WildDump \/ Finish \/ Returned)
  BY <1>1, RegsType, MachineAssumption
     DEF BadFetch, WildDump, Finish, Returned, Running, TypeOK
<1>3. ~(Nop \/ Push \/ Pop \/ Swap \/ Plus \/ Dup \/ Bswap \/ Inc \/ Lea \/ Test \/ Load
        \/ Store \/ Jmp \/ Call \/ Ret \/ Syscall \/ Halt \/ IllegalInst)
  BY <1>1 DEF At, Nop, Push, Pop, Swap, Plus, Dup, Bswap, Inc, Lea, Test, Load, Store, Jmp,
              Call, Ret, Syscall, Halt, IllegalInst
<1>4. ~(Arith \/ Rotate \/ Logic \/ CondJump)
  BY <1>1 DEF At, Arith, MovAdd, ArithReg, ArithStack, Rotate, RotateReg, RotateStack, Logic,
              LogicOp, CondJump, ArithOps, RotateOps, LogicOps, CondJumps, FallThroughJumps,
              StickyJumps
<1>5. Cmp
  BY <1>2, <1>3, <1>4 DEF Next
<1>6. regs' = Step(Put(regs, REG_FLAGS, CmpFlags(Value(src), Value(dst))))
  BY <1>1, <1>5 DEF Cmp, FaultIn, FaultAt, Continue
<1> QED
  BY <1>6, RegsType DEF Step, Put, RegFile, RegIds, REG_FLAGS, REG_IP

\* The flags after a comparison, in terms of the numbers compared.
LEMMA CompareFlags ==
  ASSUME TypeOK, Compares, Next
  PROVE  /\ Left \in Int /\ Right \in Int
         /\ Flag(FLAG_ZERO)' <=> Left = Right
         /\ Flag(FLAG_OVERFLOW)' <=> ~Representable(Left - Right)
         /\ Representable(Left - Right) => (Flag(FLAG_SIGN)' <=> Left < Right)
         /\ ~Flag(FLAG_CARRY)'
<1> DEFINE a == Value(src)
           b == Value(dst)
           r == ToWord(a - b)
           z == IF r = 0 THEN FLAG_ZERO ELSE 0
           s == IF Negative(r) THEN FLAG_SIGN ELSE 0
           o == IF Overflows(a, b, r) THEN FLAG_OVERFLOW ELSE 0
<1>1. a \in Word /\ b \in Word
  BY InstType, RegsType, ValueType DEF Compares, At, BothResolve, Value
<1>2. regs'[REG_FLAGS] = z + s + o
  BY CompareStep DEF CmpFlags
<1>3. z \in {0, 1} /\ s \in {0, 2} /\ o \in {0, 8}
  BY DEF FLAG_ZERO, FLAG_SIGN, FLAG_OVERFLOW
<1>4. /\ z = 1 <=> r = 0
      /\ s = 2 <=> Negative(r)
      /\ o = 8 <=> Overflows(a, b, r)
  BY DEF FLAG_ZERO, FLAG_SIGN, FLAG_OVERFLOW
<1>5. /\ Flag(FLAG_ZERO)' <=> z = 1
      /\ Flag(FLAG_SIGN)' <=> s = 2
      /\ Flag(FLAG_OVERFLOW)' <=> o = 8
      /\ ~Flag(FLAG_CARRY)'
  <2> HIDE DEF z, s, o
  <2> QED
    BY <1>2, <1>3, FlagsReadBack
<1>6. Left = Signed(a) /\ Right = Signed(b) /\ Left \in Int /\ Right \in Int
  BY <1>1, SignedType DEF Left, Right
<1>7. /\ r = 0 <=> Left - Right = 0
      /\ Overflows(a, b, r) <=> ~Representable(Left - Right)
      /\ Representable(Left - Right) => (Negative(r) <=> Left - Right < 0)
  BY <1>1, <1>6, DifferenceFacts
<1> HIDE DEF a, b, r, z, s, o
<1> QED
  BY <1>4, <1>5, <1>6, <1>7

\* How the jumps combine the flags, whatever these are.
LEMMA TakenByFlags ==
  /\ SignIsOverflow' <=> ~Flag(FLAG_SIGN)' /\ ~Flag(FLAG_OVERFLOW)'
  /\ Taken("JE")' <=> Flag(FLAG_ZERO)'
  /\ Taken("JNE")' <=> ~Flag(FLAG_ZERO)'
  /\ Taken("JG")' <=> ~Flag(FLAG_ZERO)' /\ SignIsOverflow'
  /\ Taken("JL")' <=> ~SignIsOverflow'
  /\ Taken("JGE")' <=> SignIsOverflow'
  /\ Taken("JLE")' <=> Flag(FLAG_ZERO)' \/ ~SignIsOverflow'
  /\ Taken("JA")' <=> ~Flag(FLAG_ZERO)' /\ ~Flag(FLAG_CARRY)'
  /\ Taken("JB")' <=> Flag(FLAG_CARRY)'
  /\ Taken("JAE")' <=> ~Flag(FLAG_CARRY)'
  /\ Taken("JBE")' <=> Flag(FLAG_ZERO)' /\ Flag(FLAG_CARRY)'
<1>1. SignIsOverflow' <=> ~Flag(FLAG_SIGN)' /\ ~Flag(FLAG_OVERFLOW)'
  BY DEF SignIsOverflow, Masked, FLAG_SIGN, FLAG_OVERFLOW
<1> QED
  BY <1>1 DEF Taken

-----------------------------------------------------------------------------

\* After a CMP, ZERO is equality, OVERFLOW says that the difference is not a word
\* and SIGN, where it is one, that src is the lesser.
THEOREM CompareFlagsCorrect == Spec => CompareFlagsExact
<1>1. TypeOK /\ [Next]_vars =>
        [Compares => /\ Flag(FLAG_ZERO)' <=> Left = Right
                     /\ Flag(FLAG_OVERFLOW)' <=> ~Representable(Left - Right)
                     /\ Representable(Left - Right) => (Flag(FLAG_SIGN)' <=> Left < Right)]_vars
  BY CompareFlags
<1> QED
  BY <1>1, TypeCorrect, PTL DEF Spec, CompareFlagsExact

\* Where the difference is a word, the four signed jumps decide as their names say.
THEOREM SignedJumpsCorrect == Spec => SignedJumpsExact
<1>1. ASSUME TypeOK, Next, Compares, Representable(Left - Right)
      PROVE  /\ Taken("JG")' <=> Left > Right
             /\ Taken("JL")' <=> Left < Right
             /\ Taken("JGE")' <=> Left >= Right
             /\ Taken("JLE")' <=> Left <= Right
  <2>1. /\ Left \in Int /\ Right \in Int
        /\ Flag(FLAG_ZERO)' <=> Left = Right
        /\ Flag(FLAG_SIGN)' <=> Left < Right
        /\ ~Flag(FLAG_OVERFLOW)'
    BY <1>1, CompareFlags
  <2>2. SignIsOverflow' <=> ~(Left < Right)
    BY <2>1, TakenByFlags
  <2>3. /\ Taken("JG")' <=> ~(Left = Right) /\ ~(Left < Right)
        /\ Taken("JL")' <=> Left < Right
        /\ Taken("JGE")' <=> ~(Left < Right)
        /\ Taken("JLE")' <=> Left = Right \/ Left < Right
    BY <2>1, <2>2, TakenByFlags
  <2> QED
    BY <2>1, <2>3
<1>2. TypeOK /\ [Next]_vars =>
        [Compares /\ Representable(Left - Right) =>
           /\ Taken("JG")' <=> Left > Right
           /\ Taken("JL")' <=> Left < Right
           /\ Taken("JGE")' <=> Left >= Right
           /\ Taken("JLE")' <=> Left <= Right]_vars
  BY <1>1
<1> QED
  BY <1>2, TypeCorrect, PTL DEF Spec, SignedJumpsExact

\* Where it is none, they all answer "less", for every width of word.
THEOREM OverflowMisread == Spec => OverflowReadsAsLess
<1>1. ASSUME TypeOK, Next, Compares, ~Representable(Left - Right)
      PROVE  (Taken("JL") /\ Taken("JLE") /\ ~Taken("JG") /\ ~Taken("JGE"))'
  <2>1. Flag(FLAG_OVERFLOW)'
    BY <1>1, CompareFlags
  <2> QED
    BY <2>1, TakenByFlags
<1>2. TypeOK /\ [Next]_vars =>
        [Compares /\ ~Representable(Left - Right) =>
           (Taken("JL") /\ Taken("JLE") /\ ~Taken("JG") /\ ~Taken("JGE"))']_vars
  BY <1>1
<1> QED
  BY <1>2, TypeCorrect, PTL DEF Spec, OverflowReadsAsLess

\* No comparison whatever makes JB or JBE jump, or JAE not, and JA is JNE.
THEOREM UnsignedBlind == Spec => UnsignedJumpsBlind
<1>1. ASSUME TypeOK, Next, Compares
      PROVE  /\ Taken("JA")' <=> Taken("JNE")'
             /\ (Taken("JAE") /\ ~Taken("JB") /\ ~Taken("JBE"))'
  <2>1. ~Flag(FLAG_CARRY)'
    BY <1>1, CompareFlags
  <2> QED
    BY <2>1, TakenByFlags
<1>2. TypeOK /\ [Next]_vars =>
        [Compares => /\ Taken("JA")' <=> Taken("JNE")'
                     /\ (Taken("JAE") /\ ~Taken("JB") /\ ~Taken("JBE"))']_vars
  BY <1>1
<1> QED
  BY <1>2, TypeCorrect, PTL DEF Spec, UnsignedJumpsBlind
=============================================================================
