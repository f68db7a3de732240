-------------------------- MODULE AymBytecodeProofs --------------------------
(***************************************************************************)
(* The encoder and the decoder, for every size of a byte, initial capacity *)
(* and program.  The bytes are described by where each instruction begins  *)
(* in them: a function that exists (Laid) and that every turn of the       *)
(* encoder extends, so that no property of a byte sequence has to be       *)
(* computed from its length.                                               *)
(***************************************************************************)
EXTENDS AymBytecode, SequenceTheorems, TLAPS

-----------------------------------------------------------------------------
(* The bytes of one instruction                                              *)

\* The bytes of an operand that is there or not.
LEMMA OperandBytesFacts ==
  ASSUME NEW o \in Operands
  PROVE  /\ AsByte(o) \in Byte
         /\ OperandBytes(o) \in Seq(Byte)
         /\ Present(o) => /\ Len(OperandBytes(o)) = 2
                          /\ OperandBytes(o)[1] = o.type /\ OperandBytes(o)[2] = AsByte(o)
         /\ ~Present(o) => Len(OperandBytes(o)) = 0
<1>1. AsByte(o) \in Byte
  <2>1. o.val \in Nat
    BY DEF Operands
  <2>2. ByteSize \in Nat /\ ByteSize > 0
    BY BytecodeAssumption DEF INST_LABEL
  <2>3. o.val % ByteSize \in 0 .. ByteSize - 1
    BY <2>1, <2>2
  <2> QED
    BY <2>2, <2>3 DEF AsByte, Byte
<1>2. o.type \in Byte
  BY BytecodeAssumption DEF Operands, Byte, INST_LABEL
<1> QED
  BY <1>1, <1>2 DEF OperandBytes

\* Three sequences joined.
LEMMA Joined ==
  ASSUME NEW S, NEW h \in Seq(S), NEW d \in Seq(S), NEW s \in Seq(S)
  PROVE  /\ (h \o d) \o s \in Seq(S)
         /\ Len((h \o d) \o s) = Len(h) + Len(d) + Len(s)
         /\ \A k \in 1 .. Len(h) : ((h \o d) \o s)[k] = h[k]
         /\ \A k \in 1 .. Len(d) : ((h \o d) \o s)[Len(h) + k] = d[k]
         /\ \A k \in 1 .. Len(s) : ((h \o d) \o s)[Len(h) + Len(d) + k] = s[k]
<1> DEFINE hd == h \o d
<1>1. /\ hd \in Seq(S) /\ Len(hd) = Len(h) + Len(d)
      /\ \A k \in 1 .. Len(h) + Len(d) : hd[k] = IF k <= Len(h) THEN h[k] ELSE d[k - Len(h)]
  BY ConcatProperties, Zenon
<1> HIDE DEF hd
<1> DEFINE b == hd \o s
<1>2. hd \in Seq(S)
  BY <1>1
<1>3. /\ b \in Seq(S) /\ Len(b) = Len(hd) + Len(s)
      /\ \A k \in 1 .. Len(hd) + Len(s) : b[k] = IF k <= Len(hd) THEN hd[k] ELSE s[k - Len(hd)]
  BY ONLY <1>2, s \in Seq(S), ConcatProperties, Zenon
<1> HIDE DEF b
<1>4. Len(h) \in Nat /\ Len(d) \in Nat /\ Len(s) \in Nat
  OBVIOUS
<1>5. ASSUME NEW k \in 1 .. Len(h) PROVE b[k] = h[k]
  BY <1>1, <1>3, <1>4
<1>6. ASSUME NEW k \in 1 .. Len(d) PROVE b[Len(h) + k] = d[k]
  BY <1>1, <1>3, <1>4
<1>7. ASSUME NEW k \in 1 .. Len(s) PROVE b[Len(h) + Len(d) + k] = s[k]
  <2>1. /\ Len(hd) + k \in 1 .. Len(hd) + Len(s) /\ ~(Len(hd) + k <= Len(hd))
        /\ (Len(hd) + k) - Len(hd) = k
    BY <1>1, <1>4
  <2>2. b[Len(hd) + k] = s[(Len(hd) + k) - Len(hd)]
    BY <1>3, <2>1, Zenon
  <2> QED
    BY <1>1, <2>1, <2>2
<1>8. Len(b) = Len(h) + Len(d) + Len(s)
  BY <1>1, <1>3
<1> QED
  BY <1>3, <1>5, <1>6, <1>7, <1>8 DEF b, hd

\* What announces the operands: their number.
OpCount(inst) == (IF Present(inst.dst) THEN 1 ELSE 0) + (IF Present(inst.src) THEN 1 ELSE 0)

Size(inst) == 2 + 2 * OpCount(inst)

\* Where the bytes of the operands are.
LEMMA InstBytesFacts ==
  ASSUME NEW inst \in Instructions
  PROVE  /\ InstBytes(inst) \in Seq(Byte)
         /\ OpCount(inst) \in 0 .. 2
         /\ Len(InstBytes(inst)) = Size(inst)
         /\ InstBytes(inst)[1] = inst.type /\ InstBytes(inst)[2] = OpCount(inst)
         /\ Present(inst.dst) =>
              InstBytes(inst)[3] = inst.dst.type /\ InstBytes(inst)[4] = AsByte(inst.dst)
         /\ Present(inst.src) /\ ~Present(inst.dst) =>
              InstBytes(inst)[3] = inst.src.type /\ InstBytes(inst)[4] = AsByte(inst.src)
         /\ Present(inst.src) /\ Present(inst.dst) =>
              InstBytes(inst)[5] = inst.src.type /\ InstBytes(inst)[6] = AsByte(inst.src)
<1> DEFINE d == OperandBytes(inst.dst)
           s == OperandBytes(inst.src)
           h == <<inst.type, OpCount(inst)>>
           b == InstBytes(inst)
<1>1. inst.dst \in Operands /\ inst.src \in Operands /\ inst.type \in Byte
  BY DEF Instructions
<1>2. /\ d \in Seq(Byte)
      /\ Present(inst.dst) => Len(d) = 2 /\ d[1] = inst.dst.type /\ d[2] = AsByte(inst.dst)
      /\ ~Present(inst.dst) => Len(d) = 0
  BY <1>1, OperandBytesFacts, Zenon
<1>3. /\ s \in Seq(Byte)
      /\ Present(inst.src) => Len(s) = 2 /\ s[1] = inst.src.type /\ s[2] = AsByte(inst.src)
      /\ ~Present(inst.src) => Len(s) = 0
  BY <1>1, OperandBytesFacts, Zenon
<1>4. /\ OpCount(inst) \in 0 .. 2
      /\ Len(d) + Len(s) = 2 * OpCount(inst)
  <2> HIDE DEF d, s
  <2>1. CASE Present(inst.dst) /\ Present(inst.src)
    <3>1. OpCount(inst) = 2 /\ Len(d) = 2 /\ Len(s) = 2
      BY <1>2, <1>3, <2>1 DEF OpCount
    <3> QED
      BY <3>1
  <2>2. CASE Present(inst.dst) /\ ~Present(inst.src)
    BY <1>2, <1>3, <2>2 DEF OpCount
  <2>3. CASE ~Present(inst.dst) /\ Present(inst.src)
    BY <1>2, <1>3, <2>3 DEF OpCount
  <2>4. CASE ~Present(inst.dst) /\ ~Present(inst.src)
    BY <1>2, <1>3, <2>4 DEF OpCount
  <2> QED
    BY <2>1, <2>2, <2>3, <2>4
<1>5. h \in Seq(Byte) /\ Len(h) = 2 /\ h[1] = inst.type /\ h[2] = OpCount(inst)
  BY <1>1, <1>4, BytecodeAssumption DEF Byte, INST_LABEL
<1> HIDE DEF d, s, h
<1>6. /\ b \in Seq(Byte)
      /\ Len(b) = Len(h) + Len(d) + Len(s)
      /\ \A k \in 1 .. Len(h) : b[k] = h[k]
      /\ \A k \in 1 .. Len(d) : b[Len(h) + k] = d[k]
      /\ \A k \in 1 .. Len(s) : b[Len(h) + Len(d) + k] = s[k]
  <2>1. d \in Seq(Byte) /\ s \in Seq(Byte) /\ h \in Seq(Byte)
    BY <1>2, <1>3, <1>5
  <2>2. /\ (h \o d) \o s \in Seq(Byte)
        /\ Len((h \o d) \o s) = Len(h) + Len(d) + Len(s)
        /\ \A k \in 1 .. Len(h) : ((h \o d) \o s)[k] = h[k]
        /\ \A k \in 1 .. Len(d) : ((h \o d) \o s)[Len(h) + k] = d[k]
        /\ \A k \in 1 .. Len(s) : ((h \o d) \o s)[Len(h) + Len(d) + k] = s[k]
    BY <2>1, Joined
  <2> QED
    BY <2>2, Zenon DEF b, d, s, h, InstBytes, OpCount, Truth
<1> HIDE DEF b
<1>8. Len(b) = Size(inst)
  <2>1. Len(h) = 2 /\ Len(b) = Len(h) + Len(d) + Len(s)
    BY <1>5, <1>6
  <2>2. Len(d) \in Nat /\ Len(s) \in Nat
    BY <1>2, <1>3
  <2> QED
    BY ONLY <1>4, <2>1, <2>2 DEF Size
<1>9. b[1] = h[1] /\ b[2] = h[2]
  BY <1>5, <1>6
<1>10. ASSUME Present(inst.dst) PROVE b[2 + 1] = d[1] /\ b[2 + 2] = d[2]
  <2>1. Len(d) = 2
    BY <1>2, <1>10, Zenon
  <2>2. Len(h) = 2 /\ 1 \in 1 .. Len(d) /\ 2 \in 1 .. Len(d)
    BY <1>5, <2>1
  <2>3. b[Len(h) + 1] = d[1] /\ b[Len(h) + 2] = d[2]
    BY <1>6, <2>2, Zenon
  <2> QED
    BY <2>2, <2>3, Zenon
<1>11. ASSUME Present(inst.src)
       PROVE  b[2 + Len(d) + 1] = s[1] /\ b[2 + Len(d) + 2] = s[2]
  <2>1. Len(s) = 2
    BY <1>3, <1>11, Zenon
  <2>2. Len(h) = 2 /\ 1 \in 1 .. Len(s) /\ 2 \in 1 .. Len(s)
    BY <1>5, <2>1
  <2>3. b[Len(h) + Len(d) + 1] = s[1] /\ b[Len(h) + Len(d) + 2] = s[2]
    BY <1>6, <2>2, Zenon
  <2> QED
    BY <2>2, <2>3, Zenon
<1>12. ASSUME Present(inst.src), ~Present(inst.dst) PROVE b[3] = s[1] /\ b[4] = s[2]
  <2>1. Len(d) = 0
    BY <1>2, <1>12
  <2>2. 2 + Len(d) + 1 = 3 /\ 2 + Len(d) + 2 = 4
    BY <2>1
  <2> QED
    BY <1>11, <1>12, <2>2, Zenon
<1>13. ASSUME Present(inst.src), Present(inst.dst) PROVE b[5] = s[1] /\ b[6] = s[2]
  <2>1. Len(d) = 2
    BY <1>2, <1>13
  <2>2. 2 + Len(d) + 1 = 5 /\ 2 + Len(d) + 2 = 6
    BY <2>1
  <2> QED
    BY <1>11, <1>13, <2>2, Zenon
<1> QED
  BY <1>2, <1>3, <1>4, <1>5, <1>6, <1>8, <1>9, <1>10, <1>12, <1>13 DEF b

-----------------------------------------------------------------------------
(* The inductive invariant                                                   *)

\* The first i instructions have been encoded: number k begins at start[k - 1].
Laid(start) ==
  /\ start \in [0 .. i -> Nat]
  /\ start[0] = 0 /\ start[i] = Len(bytecode)
  /\ \A k \in 1 .. i : start[k] = start[k - 1] + Size(program[k])
  /\ \A j, k \in 0 .. i : j < k => start[j] < start[k]
  /\ \A k \in 1 .. i : \A m \in 1 .. Size(program[k]) :
       bytecode[start[k - 1] + m] = InstBytes(program[k])[m]

\* What the decoder makes of an instruction's bytes.
Parsed(inst) ==
  [type |-> inst.type,
   dst |-> IF Present(inst.dst) THEN Decode(inst.dst.type, AsByte(inst.dst))
           ELSE IF Present(inst.src) THEN Decode(inst.src.type, AsByte(inst.src))
           ELSE NoOperand,
   src |-> IF Present(inst.dst) /\ Present(inst.src)
           THEN Decode(inst.src.type, AsByte(inst.src)) ELSE NoOperand]

\* The first instructions have been decoded, and the next one begins at ip.
Read(start) ==
  /\ Len(decoded) <= i /\ ip = start[Len(decoded)]
  /\ \A k \in DOMAIN decoded : decoded[k] = Parsed(program[k])

CodeInv ==
  /\ phase \in {"encode", "decode", "done"} =>
       \E start : Laid(start) /\ (phase # "encode" => Read(start))
  /\ phase \in {"bind", "resolve", "encode", "CRASH", "EXIT"} => decoded = <<>> /\ ip = 0
  /\ phase \in {"bind", "resolve", "CRASH"} => bytecode = <<>>
  /\ phase = "done" => ip >= Len(bytecode)

\* What has become of an instruction of the caller's.
Turned(k) ==
  IF NamesLabel(given[k].dst) /\ (resolved \/ k <= i)
  THEN /\ program[k].type = given[k].type /\ program[k].src = given[k].src
       /\ program[k].dst.type = OPERAND_IMMEDIATE
       /\ \E n \in 0 .. Len(given) - 1 :
            /\ LabelIndex(given[k].dst.val, n)
            /\ program[k].dst.val \in {0, n}
            /\ round < 2 => program[k].dst.val = IF resolved \/ round = 0 THEN 0 ELSE n
  ELSE program[k] = given[k]

ProgramInv ==
  /\ given \in Programs /\ Len(program) = Len(given)
  /\ \A k \in DOMAIN given : Turned(k)
  /\ \A n \in DOMAIN bound : bound[n] \in 0 .. Len(given) - 1 /\ LabelIndex(n, bound[n])

PhaseInv ==
  /\ round \in IF resolved THEN {1, 2} ELSE {0, 1}
  /\ phase = "resolve" => round = 0
  /\ phase \in {"encode", "decode", "done"} => round # 0
  /\ phase \in {"bind", "CRASH"} => i = 0
  /\ phase \in {"decode", "done"} => i = Len(program)

IInv ==
  /\ TypeOK /\ BuffersHold /\ capacity > 0
  /\ PhaseInv /\ ProgramInv /\ CodeInv
  /\ LabelsEncodeOnce

-----------------------------------------------------------------------------
(* The invariant holds at first, and every step keeps it                     *)

LEMMA InitInv == Init => IInv
<1> SUFFICES ASSUME Init PROVE IInv
  OBVIOUS
<1>1. given \in Programs /\ program = given /\ given \in Seq(Instructions)
  BY BytecodeAssumption DEF Init
<1>2. TypeOK /\ BuffersHold /\ capacity > 0
  <2>1. capacity \in Nat /\ capacity > 0
    BY BytecodeAssumption DEF Init
  <2>2. DOMAIN bound = {} /\ Len(bytecode) = 0 /\ Len(decoded) = 0 /\ i = 0 /\ ip = 0
    BY DEF Init
  <2>3. bytecode \in Seq(Byte) /\ decoded \in Seq(Instructions)
    BY EmptySeq DEF Init
  <2>7. resolved \in BOOLEAN /\ phase = "bind"
    BY Zenon DEF Init
  <2>8. round \in 0 .. 2
    BY DEF Init
  <2>4. Len(program) \in Nat
    BY <1>1
  <2>5. BuffersHold
    BY <2>1, <2>2 DEF BuffersHold
  <2>6. i \in 0 .. Len(program) /\ ip \in Nat /\ \A n \in DOMAIN bound : n \in LabelNames
    BY <2>2, <2>4
  <2> QED
    BY <1>1, <2>1, <2>2, <2>3, <2>5, <2>6, <2>7, <2>8 DEF TypeOK
<1>3. PhaseInv /\ CodeInv /\ LabelsEncodeOnce
  BY DEF Init, PhaseInv, CodeInv, LabelsEncodeOnce
<1>4. ProgramInv
  BY <1>1 DEF Init, ProgramInv, Turned
<1> QED
  BY <1>2, <1>3, <1>4 DEF IInv

\* The arrays of the caller, now and as first built.
LEMMA Arrays ==
  ASSUME IInv
  PROVE  /\ given \in Seq(Instructions) /\ program \in Seq(Instructions)
         /\ Len(program) = Len(given) /\ Len(given) \in Nat
         /\ DOMAIN program = 1 .. Len(given) /\ DOMAIN given = 1 .. Len(given)
         /\ LabelNames \cap 0 .. Len(given) = {} /\ LabelNames \subseteq Nat \ {0}
         /\ \A k \in DOMAIN given :
              /\ IsLabel(given, k) /\ given[k].dst.val \in LabelNames => NamesLabel(given[k].dst)
              /\ given[k] \in Instructions /\ program[k] \in Instructions
<1>1. given \in Programs /\ Len(program) = Len(given) /\ program \in Seq(Instructions)
  BY DEF IInv, ProgramInv, TypeOK
<1>2. /\ given \in Seq(Instructions) /\ LabelNames \cap 0 .. Len(given) = {}
      /\ LabelNames \subseteq Nat \ {0}
      /\ \A k \in DOMAIN given :
           given[k].type = INST_LABEL /\ given[k].dst.val \in LabelNames =>
             given[k].dst.type = OPERAND_LABEL
  BY <1>1, BytecodeAssumption
<1>3. Len(given) \in Nat /\ DOMAIN program = 1 .. Len(given) /\ DOMAIN given = 1 .. Len(given)
  BY <1>1, <1>2
<1>4. \A k \in DOMAIN given : given[k] \in Instructions /\ program[k] \in Instructions
  BY <1>1, <1>2, <1>3
<1>5. \A k \in DOMAIN given :
        IsLabel(given, k) /\ given[k].dst.val \in LabelNames => NamesLabel(given[k].dst)
  BY <1>2 DEF IsLabel, NamesLabel
<1> QED
  BY <1>1, <1>2, <1>3, <1>4, <1>5

\* Before anything is rewritten, and when no label was left to rewrite.
LEMMA Unchanged ==
  ASSUME IInv, \A k \in DOMAIN given : ~(NamesLabel(given[k].dst) /\ (resolved \/ k <= i))
  PROVE  program = given
<1>1. \A k \in DOMAIN given : program[k] = given[k]
  BY DEF IInv, ProgramInv, Turned
<1> QED
  BY <1>1, Arrays, SeqEqual

\* A program whose labels have been rewritten and that is still encoded again
\* had none.
LEMMA NoneNamed ==
  ASSUME IInv, resolved, \A k \in DOMAIN given : ~IsLabel(given, k)
  PROVE  program = given /\ \A k \in DOMAIN given : ~NamesLabel(given[k].dst)
<1>1. ASSUME NEW k \in DOMAIN given, NamesLabel(given[k].dst) PROVE FALSE
  <2>1. Turned(k)
    BY DEF IInv, ProgramInv
  <2>2. PICK n \in 0 .. Len(given) - 1 : LabelIndex(given[k].dst.val, n)
    BY <1>1, <2>1 DEF Turned
  <2>3. n + 1 \in DOMAIN given /\ IsLabel(given, n + 1)
    BY <2>2, Arrays DEF LabelIndex
  <2> QED
    BY <2>3
<1>2. program = given
  BY <1>1, Unchanged
<1> QED
  BY <1>1, <1>2

LEMMA BindKeeps == ASSUME IInv, BindLabels PROVE IInv'
<1>1. /\ phase = "bind" /\ i = 0
      /\ UNCHANGED <<program, given, i, bytecode, ip, capacity, decoded, resolved, round>>
      /\ bytecode = <<>> /\ decoded = <<>> /\ ip = 0
  BY DEF BindLabels, IInv, PhaseInv, CodeInv
<1>2. \/ phase' = "CRASH" /\ bound' = bound
      \/ /\ \A k \in DOMAIN program : IsLabel(program, k) => Named(program, k)
         /\ phase' = IF round = 0 THEN "resolve" ELSE "encode"
         /\ bound' \in Bindings(program)
  BY DEF BindLabels
<1>3. \A k \in DOMAIN given : Turned(k)'
  BY <1>1 DEF IInv, ProgramInv, Turned, LabelIndex, Few, Labels, IsLabel
<1>4. CASE phase' = "CRASH" /\ bound' = bound
  <2>1. TypeOK' /\ BuffersHold' /\ capacity' > 0 /\ PhaseInv' /\ LabelsEncodeOnce'
    BY <1>1, <1>4 DEF IInv, TypeOK, BuffersHold, PhaseInv, LabelsEncodeOnce
  <2>2. ProgramInv' /\ CodeInv'
    BY <1>1, <1>3, <1>4 DEF IInv, ProgramInv, CodeInv, LabelIndex, Few, Labels, IsLabel
  <2> QED
    BY <2>1, <2>2 DEF IInv
<1>5. CASE phase' # "CRASH"
  <2>1. /\ \A k \in DOMAIN program : IsLabel(program, k) => Named(program, k)
        /\ phase' = IF round = 0 THEN "resolve" ELSE "encode"
        /\ bound' \in Bindings(program)
    BY <1>2, <1>5
  <2>2. resolved => \A k \in DOMAIN given : ~IsLabel(given, k)
    <3> SUFFICES ASSUME resolved, NEW k \in DOMAIN given, IsLabel(given, k) PROVE FALSE
      OBVIOUS
    <3>1. Turned(k)
      BY DEF IInv, ProgramInv
    <3>2. k \in DOMAIN program /\ program[k].type = given[k].type
      BY <3>1, Arrays DEF Turned
    <3>3. program[k].dst.val \in LabelNames
      BY <2>1, <3>2 DEF IsLabel, Named
    <3>4. CASE NamesLabel(given[k].dst)
      <4>1. program[k].dst.val \in 0 .. Len(given)
        BY <3>1, <3>4, Arrays DEF Turned
      <4> QED
        BY <3>3, <4>1, Arrays
    <3>5. CASE ~NamesLabel(given[k].dst)
      BY <3>1, <3>3, <3>5, Arrays DEF Turned
    <3> QED
      BY <3>4, <3>5
  <2>3. program = given
    <3>1. CASE resolved
      BY <2>2, <3>1, NoneNamed
    <3>2. CASE ~resolved
      BY <1>1, <3>2, Unchanged, Arrays
    <3> QED
      BY <3>1, <3>2
  <2>4. ASSUME NEW n \in DOMAIN bound'
        PROVE  /\ n \in LabelNames /\ bound'[n] \in 0 .. Len(given) - 1
               /\ LabelIndex(n, bound'[n])
    <3> DEFINE names == {given[k].dst.val : k \in Labels(given)}
    <3>1. /\ bound' \in [names -> 0 .. Len(given) - 1]
          /\ \A m \in names : bound'[m] + 1 \in Positions(given, m)
      BY <2>1, <2>3 DEF Bindings
    <3>2. n \in names /\ bound'[n] \in 0 .. Len(given) - 1
      BY <3>1
    <3>3. PICK k \in Labels(given) : n = given[k].dst.val
      BY <3>2
    <3>4. n \in LabelNames
      BY <2>1, <2>3, <3>3 DEF Labels, Named
    <3>5. bound'[n] + 1 \in Positions(given, n)
      BY <3>1, <3>2
    <3>6. LabelIndex(n, bound'[n])
      BY <3>5 DEF Positions, LabelIndex, Labels, Prevails
    <3> QED
      BY <3>2, <3>4, <3>6
  <2>5. BuffersHold' /\ capacity' > 0 /\ PhaseInv' /\ LabelsEncodeOnce'
    BY <1>1, <2>1, <2>2 DEF IInv, BuffersHold, PhaseInv, LabelsEncodeOnce, IsLabel
  <2>6. TypeOK'
    BY <1>1, <2>1, <2>3, <2>4 DEF IInv, TypeOK
  <2>7. ProgramInv'
    <3>1. ASSUME NEW n \in DOMAIN bound'
          PROVE  bound'[n] \in 0 .. Len(given') - 1 /\ LabelIndex(n, bound[n])'
      BY <1>1, <2>4 DEF LabelIndex, Few, Labels, IsLabel
    <3> QED
      BY <1>1, <1>3, <3>1 DEF IInv, ProgramInv
  <2>8. CodeInv'
    <3>1. CASE phase' = "resolve"
      BY <1>1, <3>1 DEF CodeInv
    <3>2. CASE phase' = "encode"
      <4> DEFINE start == [k \in 0 .. 0 |-> 0]
      <4>1. Laid(start)'
        BY <1>1 DEF Laid
      <4> QED
        BY <1>1, <3>2, <4>1 DEF CodeInv
    <3> QED
      BY <2>1, <3>1, <3>2
  <2> QED
    BY <2>5, <2>6, <2>7, <2>8 DEF IInv
<1> QED
  BY <1>2, <1>4, <1>5

\* The label an operand names has its index in the table.
LEMMA BoundTarget ==
  ASSUME IInv, phase \in {"resolve", "encode"}, i < Len(program), ~resolved,
         NamesLabel(program[i + 1].dst), program[i + 1].dst.val \in DOMAIN bound
  PROVE  /\ bound[program[i + 1].dst.val] \in 0 .. Len(given) - 1
         /\ LabelIndex(program[i + 1].dst.val, bound[program[i + 1].dst.val])
BY DEF IInv, ProgramInv

\* The next instruction is still the caller's.
LEMMA NextOne ==
  ASSUME IInv, phase \in {"resolve", "encode"}, i < Len(program)
  PROVE  /\ i \in Nat /\ i + 1 \in DOMAIN given /\ i + 1 \in DOMAIN program
         /\ ~(i + 1 <= i) /\ program[i + 1] = given[i + 1]
         /\ resolved => ~NamesLabel(program[i + 1].dst)
<1>1. i \in Nat /\ i + 1 \in DOMAIN given /\ i + 1 \in DOMAIN program /\ ~(i + 1 <= i)
  BY Arrays DEF IInv, TypeOK
<1>2. CASE resolved
  <2>1. \A k \in DOMAIN given : ~IsLabel(given, k)
    BY <1>2 DEF IInv, LabelsEncodeOnce
  <2> QED
    BY <1>1, <1>2, <2>1, NoneNamed
<1>3. CASE ~resolved
  BY <1>1, <1>3 DEF IInv, ProgramInv, Turned
<1> QED
  BY <1>1, <1>2, <1>3

\* A turn of either loop rewrites at most the dst of the next instruction.
LEMMA TurnKeeps ==
  ASSUME IInv, phase \in {"resolve", "encode"}, i < Len(program),
         NEW v,
         NamesLabel(program[i + 1].dst) =>
           /\ program[i + 1].dst.val \in DOMAIN bound
           /\ v = IF round = 0 THEN 0 ELSE bound[program[i + 1].dst.val],
         program' = IF NamesLabel(program[i + 1].dst)
                    THEN [program EXCEPT ![i + 1].dst = [type |-> OPERAND_IMMEDIATE, val |-> v]]
                    ELSE program,
         i' = i + 1, UNCHANGED <<given, bound, resolved, round>>
  PROVE  /\ program' \in Seq(Instructions) /\ Len(program') = Len(program)
         /\ i' \in 0 .. Len(program') /\ ProgramInv'
         /\ \A k \in 1 .. i : program'[k] = program[k]
<1> DEFINE o == program[i + 1].dst
<1>1. /\ i \in Nat /\ i + 1 \in DOMAIN given /\ i + 1 \in DOMAIN program
      /\ ~(i + 1 <= i) /\ program[i + 1] = given[i + 1]
      /\ resolved => ~NamesLabel(o)
  BY NextOne
<1>2. CASE ~NamesLabel(o)
  <2>1. program' = program
    BY <1>2
  <2>2. ASSUME NEW k \in DOMAIN given PROVE Turned(k)'
    <3>1. Turned(k) /\ k \in Nat
      BY Arrays DEF IInv, ProgramInv
    <3>2. CASE k = i + 1
      BY <1>1, <1>2, <2>1, <3>2 DEF Turned
    <3>3. CASE k # i + 1
      <4>1. k <= i' <=> k <= i
        BY <1>1, <3>1, <3>3
      <4> QED
        BY <2>1, <3>1, <4>1 DEF Turned, LabelIndex, Few, Labels, IsLabel
    <3> QED
      BY <3>2, <3>3
  <2>3. ProgramInv'
    BY <2>1, <2>2 DEF IInv, ProgramInv, LabelIndex, Few, Labels, IsLabel
  <2> QED
    BY <1>1, <2>1, <2>3, Arrays
<1>3. CASE NamesLabel(o)
  <2> DEFINE new == [type |-> OPERAND_IMMEDIATE, val |-> v]
  <2>1. PICK n \in 0 .. Len(given) - 1 :
          n = bound[o.val] /\ ~resolved /\ LabelIndex(o.val, n)
    BY <1>1, <1>3, BoundTarget
  <2>2. v \in {0, n} /\ v \in Nat /\ v = IF round = 0 THEN 0 ELSE n
    BY <1>3, <2>1, Arrays
  <2>3. /\ program' = [program EXCEPT ![i + 1].dst = new]
        /\ new \in Operands
    BY <1>3, <2>2 DEF Operands, OPERAND_IMMEDIATE
  <2>4. /\ Len(program') = Len(program) /\ DOMAIN program' = DOMAIN program
        /\ program'[i + 1] = [given[i + 1] EXCEPT !.dst = new]
        /\ \A k \in DOMAIN program : k # i + 1 => program'[k] = program[k]
    BY <1>1, <2>3, Arrays
  <2>5. program' \in Seq(Instructions)
    <3> DEFINE inst == [program[i + 1] EXCEPT !.dst = new]
    <3>2. /\ program' = [program EXCEPT ![i + 1] = inst]
          /\ inst \in Instructions /\ i + 1 \in 1 .. Len(program)
      BY <1>1, <2>3, Arrays DEF Instructions
    <3> HIDE DEF inst
    <3> QED
      BY <3>2, Arrays, ExceptSeq
  <2>6. ASSUME NEW k \in DOMAIN given PROVE Turned(k)'
    <3>1. Turned(k) /\ k \in Nat /\ k \in DOMAIN program
      BY Arrays DEF IInv, ProgramInv
    <3>2. CASE k = i + 1
      <4>1. /\ NamesLabel(given[k].dst) /\ k <= i' /\ given[k] \in Instructions
            /\ program'[k] = [given[k] EXCEPT !.dst = new]
        BY <1>1, <1>3, <2>4, <3>2, Arrays
      <4>2. program'[k].type = given[k].type /\ program'[k].src = given[k].src
            /\ program'[k].dst.type = OPERAND_IMMEDIATE /\ program'[k].dst.val = v
        BY <4>1 DEF Instructions
      <4>3. LabelIndex(given[k].dst.val, n)'
        BY <1>1, <2>1, <3>2 DEF LabelIndex, Few, Labels, IsLabel
      <4> HIDE DEF new
      <4> QED
        BY <2>1, <2>2, <4>1, <4>2, <4>3 DEF Turned
    <3>3. CASE k # i + 1
      <4>1. (k <= i' <=> k <= i) /\ program'[k] = program[k]
        BY <1>1, <2>4, <3>1, <3>3
      <4> QED
        BY <3>1, <4>1 DEF Turned, LabelIndex, Few, Labels, IsLabel
    <3> QED
      BY <3>2, <3>3
  <2>7. ProgramInv'
    BY <2>4, <2>6 DEF IInv, ProgramInv, LabelIndex, Few, Labels, IsLabel
  <2>8. \A k \in 1 .. i : program'[k] = program[k]
    BY <1>1, <2>4, Arrays
  <2> QED
    BY <1>1, <2>4, <2>5, <2>7, <2>8, Arrays
<1> QED
  BY <1>2, <1>3

LEMMA ResolveKeeps == ASSUME IInv, ResolveInst PROVE IInv'
<1> DEFINE o == program[i + 1].dst
<1>1. /\ phase = "resolve" /\ i < Len(program) /\ round = 0
      /\ UNCHANGED <<given, bound, bytecode, ip, capacity, decoded, resolved, round>>
      /\ bytecode = <<>> /\ decoded = <<>> /\ ip = 0 /\ ~resolved
  BY DEF ResolveInst, IInv, PhaseInv, CodeInv
<1>2. CASE phase' = "EXIT" /\ program' = program /\ i' = i
  <2>1. TypeOK' /\ BuffersHold' /\ capacity' > 0 /\ PhaseInv' /\ CodeInv' /\ LabelsEncodeOnce'
    BY <1>1, <1>2 DEF IInv, TypeOK, BuffersHold, PhaseInv, CodeInv, LabelsEncodeOnce, IsLabel
  <2>2. ProgramInv'
    BY <1>1, <1>2 DEF IInv, ProgramInv, Turned, LabelIndex, Few, Labels, IsLabel
  <2> QED
    BY <2>1, <2>2 DEF IInv
<1>3. CASE /\ ~(NamesLabel(o) /\ o.val \notin DOMAIN bound)
           /\ program' = IF NamesLabel(o)
                         THEN [program EXCEPT ![i + 1].dst = [type |-> OPERAND_IMMEDIATE,
                                                              val |-> 0]]
                         ELSE program
           /\ i' = i + 1 /\ phase' = phase
  <2>1. /\ program' \in Seq(Instructions) /\ Len(program') = Len(program)
        /\ i' \in 0 .. Len(program') /\ ProgramInv'
    BY <1>1, <1>3, TurnKeeps
  <2>2. TypeOK'
    BY <1>1, <1>3, <2>1 DEF IInv, TypeOK
  <2>3. BuffersHold' /\ capacity' > 0
    BY <1>1, <1>3 DEF IInv, TypeOK, BuffersHold
  <2>4. PhaseInv' /\ CodeInv' /\ LabelsEncodeOnce'
    BY <1>1, <1>3 DEF IInv, PhaseInv, CodeInv, LabelsEncodeOnce, IsLabel
  <2> QED
    BY <2>1, <2>2, <2>3, <2>4 DEF IInv
<1> QED
  BY <1>2, <1>3 DEF ResolveInst, LeftIn

\* What the bytes become when those of the next instruction are joined to them.
LEMMA LaidGrows ==
  ASSUME TypeOK, NEW start, Laid(start), NEW new \in Instructions,
         i \in Nat, i' = i + 1, program'[i + 1] = new,
         \A k \in 1 .. i : program'[k] = program[k] /\ program[k] \in Instructions,
         bytecode' = bytecode \o InstBytes(new)
  PROVE  /\ bytecode' \in Seq(Byte) /\ Len(bytecode') = Len(bytecode) + Size(new)
         /\ \E longer : Laid(longer)'
<1> DEFINE more == InstBytes(new)
<1>0. PICK longer :
        longer = [k \in 0 .. i + 1 |-> IF k <= i THEN start[k] ELSE start[i] + Size(new)]
  OBVIOUS
<1>1. more \in Seq(Byte) /\ Len(more) = Size(new) /\ Size(new) \in 2 .. 6
  <2>1. more \in Seq(Byte) /\ Len(more) = Size(new) /\ OpCount(new) \in 0 .. 2
    BY InstBytesFacts, Zenon
  <2> QED
    BY ONLY <2>1 DEF Size
<1>2. ASSUME NEW k \in 1 .. i PROVE Size(program[k]) \in 2 .. 6
  <2>1. OpCount(program[k]) \in 0 .. 2
    BY InstBytesFacts
  <2> QED
    BY <2>1 DEF Size
<1> HIDE DEF more
<1>3. bytecode \in Seq(Byte) /\ Len(bytecode) \in Nat
  BY DEF TypeOK
<1>4. /\ bytecode' \in Seq(Byte) /\ Len(bytecode') = Len(bytecode) + Len(more)
      /\ \A k \in 1 .. Len(bytecode) + Len(more) :
           bytecode'[k] = IF k <= Len(bytecode) THEN bytecode[k] ELSE more[k - Len(bytecode)]
  <2>1. bytecode' = bytecode \o more
    BY DEF more
  <2> QED
    BY ONLY <1>1, <1>3, <2>1, ConcatProperties, Zenon
<1>5. /\ start \in [0 .. i -> Nat] /\ start[0] = 0 /\ start[i] = Len(bytecode)
      /\ \A k \in 1 .. i : start[k] = start[k - 1] + Size(program[k])
      /\ \A j, k \in 0 .. i : j < k => start[j] < start[k]
      /\ \A k \in 1 .. i : \A m \in 1 .. Size(program[k]) :
           bytecode[start[k - 1] + m] = InstBytes(program[k])[m]
  BY DEF Laid
<1>6. /\ \A k \in 0 .. i : longer[k] = start[k] /\ start[k] \in Nat /\ start[k] <= start[i]
      /\ longer[i + 1] = start[i] + Size(new)
      /\ longer \in [0 .. i + 1 -> Nat]
  <2>0. start \in [0 .. i -> Nat]
    BY <1>5
  <2>1. ASSUME NEW k \in 0 .. i PROVE longer[k] = start[k] /\ start[k] \in Nat
    <3>1. k \in 0 .. i + 1 /\ k <= i
      OBVIOUS
    <3> QED
      BY <1>0, <2>0, <3>1
  <2>2. longer[i + 1] = start[i] + Size(new)
    BY <1>0
  <2>3. ASSUME NEW k \in 0 .. i PROVE start[k] <= start[i]
    <3>1. CASE k = i
      <4>1. start[k] \in Nat
        BY <2>1
      <4> QED
        BY <3>1, <4>1
    <3>2. CASE k # i
      <4>1. k < i /\ i \in 0 .. i
        BY <3>2
      <4> QED
        BY <1>5, <2>1, <4>1
    <3> QED
      BY <3>1, <3>2
  <2>4. longer \in [0 .. i + 1 -> Nat]
    <3>1. i \in 0 .. i
      OBVIOUS
    <3>2. start[i] + Size(new) \in Nat
      BY <1>1, <2>1, <3>1
    <3>3. \A k \in 0 .. i + 1 : k <= i => start[k] \in Nat
      BY <2>1
    <3> QED
      BY <1>0, <3>2, <3>3
  <2> QED
    BY <2>1, <2>2, <2>3, <2>4
<1>7. ASSUME NEW k \in 1 .. i + 1 PROVE longer[k] = longer[k - 1] + Size(program'[k])
  <2>1. CASE k = i + 1
    <3>1. k - 1 = i /\ i \in 0 .. i
      BY <2>1
    <3> QED
      BY <1>6, <2>1, <3>1
  <2>2. CASE k # i + 1
    <3>1. k \in 1 .. i /\ k \in 0 .. i /\ k - 1 \in 0 .. i
      BY <2>2
    <3> QED
      BY <1>5, <1>6, <3>1
  <2> QED
    BY <2>1, <2>2
<1>8. ASSUME NEW j \in 0 .. i + 1, NEW k \in 0 .. i + 1, j < k PROVE longer[j] < longer[k]
  <2>1. CASE k = i + 1
    <3>1. j \in 0 .. i
      BY <1>8, <2>1
    <3>2. i \in 0 .. i
      OBVIOUS
    <3>3. start[j] <= start[i] /\ start[j] \in Nat /\ start[i] \in Nat
      BY <1>6, <3>1, <3>2
    <3>4. longer[j] = start[j] /\ longer[k] = start[i] + Size(new)
      BY <1>6, <2>1, <3>1
    <3>5. start[j] < start[i] + Size(new)
      BY <1>1, <3>3
    <3> QED
      BY <3>4, <3>5
  <2>2. CASE k # i + 1
    <3>1. k \in 0 .. i /\ j \in 0 .. i
      BY <1>8, <2>2
    <3> QED
      BY <1>5, <1>6, <1>8, <3>1
  <2> QED
    BY <2>1, <2>2
<1>9. ASSUME NEW k \in 1 .. i + 1, NEW m \in 1 .. Size(program'[k])
      PROVE  bytecode'[longer[k - 1] + m] = InstBytes(program'[k])[m]
  <2>1. CASE k = i + 1
    <3>1. k - 1 = i /\ i \in 0 .. i /\ m \in 1 .. Len(more)
      BY <1>1, <2>1
    <3>2. longer[k - 1] = Len(bytecode)
      BY <1>5, <1>6, <3>1
    <3>3. /\ Len(bytecode) + m \in 1 .. Len(bytecode) + Len(more)
          /\ ~(Len(bytecode) + m <= Len(bytecode)) /\ (Len(bytecode) + m) - Len(bytecode) = m
      BY <1>1, <1>3, <3>1
    <3>4. bytecode'[Len(bytecode) + m] = more[(Len(bytecode) + m) - Len(bytecode)]
      BY <1>4, <3>3, Zenon
    <3> QED
      BY <2>1, <3>2, <3>3, <3>4 DEF more
  <2>2. CASE k # i + 1
    <3>1. k \in 1 .. i /\ k \in 0 .. i /\ k - 1 \in 0 .. i
      BY <2>2
    <3>2. /\ longer[k - 1] = start[k - 1] /\ program'[k] = program[k]
          /\ m \in 1 .. Size(program[k])
      BY <1>6, <3>1
    <3>3. /\ start[k] \in Nat /\ start[k - 1] \in Nat /\ start[k] <= Len(bytecode)
          /\ start[k] = start[k - 1] + Size(program[k]) /\ Size(program[k]) \in Int
      <4>1. Size(program[k]) \in Int
        BY <1>2, <3>1
      <4>2. start[k] \in Nat /\ start[k - 1] \in Nat /\ start[k] <= start[i]
        BY <1>6, <3>1
      <4>3. start[k] = start[k - 1] + Size(program[k]) /\ start[i] = Len(bytecode)
        BY <1>5, <3>1
      <4> QED
        BY <4>1, <4>2, <4>3
    <3>4. start[k - 1] + m \in 1 .. Len(bytecode)
      BY <1>3, <3>2, <3>3
    <3>5. bytecode'[start[k - 1] + m] = bytecode[start[k - 1] + m]
      BY <1>1, <1>3, <1>4, <3>4
    <3> QED
      BY <1>5, <3>1, <3>2, <3>5
  <2> QED
    BY <2>1, <2>2
<1>10. Laid(longer)'
  <2>1. longer[0] = 0 /\ longer[i'] = Len(bytecode')
    BY <1>1, <1>4, <1>5, <1>6
  <2>2. /\ longer \in [0 .. i' -> Nat]
        /\ \A k \in 1 .. i' : longer[k] = longer[k - 1] + Size(program'[k])
        /\ \A j, k \in 0 .. i' : j < k => longer[j] < longer[k]
        /\ \A k \in 1 .. i' : \A m \in 1 .. Size(program'[k]) :
             bytecode'[longer[k - 1] + m] = InstBytes(program'[k])[m]
    BY <1>6, <1>7, <1>8, <1>9
  <2> QED
    BY <2>1, <2>2, Zenon DEF Laid
<1> QED
  BY <1>1, <1>4, <1>10

\* What a step of no concern to the bytes keeps of them.
LEMMA LaidStays ==
  ASSUME NEW start, Laid(start), UNCHANGED <<program, i, bytecode>>
  PROVE  Laid(start)'
BY DEF Laid

LEMMA EncodeKeeps == ASSUME IInv, EncodeInst PROVE IInv'
<1> DEFINE inst == program[i + 1]
           o == inst.dst
<1>1. /\ phase = "encode" /\ i < Len(program) /\ round # 0
      /\ UNCHANGED <<given, bound, ip, capacity, decoded, resolved, round>>
      /\ decoded = <<>> /\ ip = 0
  BY DEF EncodeInst, IInv, PhaseInv, CodeInv
<1>2. CASE phase' = "EXIT" /\ program' = program /\ i' = i /\ bytecode' = bytecode
  <2>1. TypeOK' /\ BuffersHold' /\ capacity' > 0 /\ PhaseInv' /\ CodeInv' /\ LabelsEncodeOnce'
    BY <1>1, <1>2 DEF IInv, TypeOK, BuffersHold, PhaseInv, CodeInv, LabelsEncodeOnce, IsLabel
  <2>2. ProgramInv'
    BY <1>1, <1>2 DEF IInv, ProgramInv, Turned, LabelIndex, Few, Labels, IsLabel
  <2> QED
    BY <2>1, <2>2 DEF IInv
<1>3. ASSUME NEW dst, dst = (IF NamesLabel(o) THEN Resolved(o) ELSE o),
             NamesLabel(o) => o.val \in DOMAIN bound,
             program' = [program EXCEPT ![i + 1].dst = dst],
             bytecode' = bytecode \o InstBytes([inst EXCEPT !.dst = dst]),
             i' = i + 1, phase' = phase
      PROVE  IInv'
  <2>1. /\ i \in Nat /\ i + 1 \in DOMAIN program /\ inst \in Instructions
        /\ program \in Seq(Instructions)
    BY <1>1, NextOne, Arrays
  <2>2. program' = IF NamesLabel(o)
                   THEN [program EXCEPT ![i + 1].dst = [type |-> OPERAND_IMMEDIATE,
                                                        val |-> bound[o.val]]]
                   ELSE program
    <3>1. CASE NamesLabel(o)
      BY <1>3, <3>1 DEF Resolved
    <3>2. CASE ~NamesLabel(o)
      <4>1. program' = [program EXCEPT ![i + 1] = [inst EXCEPT !.dst = o]]
        BY <1>3, <3>2
      <4>2. [inst EXCEPT !.dst = o] = inst
        BY <2>1 DEF Instructions
      <4> QED
        BY <2>1, <3>2, <4>1, <4>2
    <3> QED
      BY <3>1, <3>2
  <2>3. /\ program' \in Seq(Instructions) /\ Len(program') = Len(program)
        /\ i' \in 0 .. Len(program') /\ ProgramInv'
        /\ \A k \in 1 .. i : program'[k] = program[k]
    <3> DEFINE v == bound[o.val]
    <3>1. NamesLabel(o) => o.val \in DOMAIN bound /\ v = IF round = 0 THEN 0 ELSE bound[o.val]
      BY <1>1, <1>3
    <3> QED
      BY <1>1, <1>3, <2>2, <3>1, TurnKeeps
  <2>4. /\ program'[i + 1] = [inst EXCEPT !.dst = dst]
        /\ program'[i + 1] \in Instructions
        /\ \A k \in 1 .. i : program[k] \in Instructions
    <3>1. i + 1 \in 1 .. Len(program') /\ \A k \in 1 .. i : k \in 1 .. Len(program)
      BY <1>1, <2>1, <2>3
    <3> QED
      BY <1>3, <2>1, <2>3, <3>1
  <2>5. PICK start : Laid(start)
    BY <1>1 DEF IInv, CodeInv
  <2>6. /\ bytecode' \in Seq(Byte) /\ Len(bytecode') = Len(bytecode) + Size(program'[i + 1])
        /\ \E longer : Laid(longer)'
    <3>1. PICK new \in Instructions : new = program'[i + 1]
      BY <2>4
    <3>2. TypeOK /\ bytecode' = bytecode \o InstBytes(new)
      BY <1>3, <2>4, <3>1 DEF IInv
    <3> HIDE DEF inst
    <3> QED
      BY <1>3, <2>1, <2>3, <2>4, <2>5, <3>1, <3>2, LaidGrows
  <2>7. BuffersHold' /\ capacity' > 0
    <3>1. Size(program'[i + 1]) \in 2 .. 6
      <4>1. OpCount(program'[i + 1]) \in 0 .. 2
        BY <2>4, InstBytesFacts
      <4> QED
        BY <4>1 DEF Size
    <3>2. Len(bytecode) \in Nat /\ Len(bytecode) <= 6 * i
      BY DEF IInv, TypeOK, BuffersHold
    <3>3. Len(bytecode') <= 6 * (i + 1)
      BY <2>1, <2>6, <3>1, <3>2
    <3> QED
      BY <1>1, <1>3, <3>3 DEF IInv, BuffersHold
  <2>8. TypeOK'
    BY <1>1, <1>3, <2>3, <2>6 DEF IInv, TypeOK
  <2>9. PhaseInv' /\ LabelsEncodeOnce' /\ CodeInv'
    BY <1>1, <1>3, <2>6 DEF IInv, PhaseInv, CodeInv, LabelsEncodeOnce, IsLabel
  <2> QED
    BY <2>3, <2>7, <2>8, <2>9 DEF IInv
<1> QED
  BY <1>2, <1>3 DEF EncodeInst, Rewritten

LEMMA EncodedKeeps == ASSUME IInv, Encoded PROVE IInv'
<1>1. /\ phase = "encode" /\ i = Len(program) /\ phase' = "decode" /\ decoded = <<>> /\ ip = 0
      /\ UNCHANGED <<program, given, bound, i, bytecode, ip, capacity, decoded, resolved, round>>
  BY DEF Encoded, IInv, CodeInv
<1>2. TypeOK' /\ BuffersHold' /\ capacity' > 0 /\ PhaseInv' /\ LabelsEncodeOnce'
  BY <1>1 DEF IInv, TypeOK, BuffersHold, PhaseInv, LabelsEncodeOnce, IsLabel
<1>3. ProgramInv'
  BY <1>1 DEF IInv, ProgramInv, Turned, LabelIndex, Few, Labels, IsLabel
<1>4. CodeInv'
  <2>1. PICK start : Laid(start)
    BY <1>1 DEF IInv, CodeInv
  <2>2. Laid(start)'
    BY <1>1, <2>1, LaidStays
  <2>3. Len(decoded') = 0 /\ DOMAIN decoded' = {} /\ start[0] = 0
    BY <1>1, <2>1 DEF Laid
  <2>4. i' \in Nat
    BY <1>1, Arrays
  <2>5. Read(start)'
    BY <1>1, <2>3, <2>4 DEF Read
  <2> QED
    BY <1>1, <2>2, <2>5 DEF CodeInv
<1> QED
  BY <1>2, <1>3, <1>4 DEF IInv

\* The decoder, at the first byte of an instruction, reads that one and goes on
\* to the byte after it.
LEMMA ReadsOne ==
  ASSUME NEW inst \in Instructions, ip \in Nat, Len(bytecode) \in Nat,
         ip + Size(inst) <= Len(bytecode),
         \A m \in 1 .. Size(inst) : bytecode[ip + m] = InstBytes(inst)[m],
         NEW second, second = Skip(ip + 2, ByteAt(ip + 1) >= 1)
  PROVE  /\ Skip(second, ByteAt(ip + 1) = 2) = ip + Size(inst)
         /\ [type |-> ByteAt(ip), dst |-> OperandAt(ip + 2, ByteAt(ip + 1) >= 1),
             src |-> OperandAt(second, ByteAt(ip + 1) = 2)] = Parsed(inst)
<1> DEFINE more == InstBytes(inst)
<1>1. /\ OpCount(inst) \in 0 .. 2
      /\ more[1] = inst.type /\ more[2] = OpCount(inst)
      /\ Present(inst.dst) => more[3] = inst.dst.type /\ more[4] = AsByte(inst.dst)
      /\ Present(inst.src) /\ ~Present(inst.dst) =>
           more[3] = inst.src.type /\ more[4] = AsByte(inst.src)
      /\ Present(inst.src) /\ Present(inst.dst) =>
           more[5] = inst.src.type /\ more[6] = AsByte(inst.src)
  BY InstBytesFacts
<1> HIDE DEF more
<1>2. ASSUME NEW m \in 0 .. Size(inst) - 1, Size(inst) \in Nat PROVE ByteAt(ip + m) = more[m + 1]
  <2>1. m + 1 \in 1 .. Size(inst) /\ ip + m < Len(bytecode) /\ ip + (m + 1) = (ip + m) + 1
    BY <1>2
  <2>2. bytecode[ip + (m + 1)] = more[m + 1]
    BY <2>1 DEF more
  <2> QED
    BY <2>1, <2>2 DEF ByteAt
<1>3. CASE Present(inst.dst) /\ Present(inst.src)
  <2>1. OpCount(inst) = 2 /\ Size(inst) = 6
    BY <1>3 DEF OpCount, Size
  <2>2. /\ ByteAt(ip + 0) = more[0 + 1] /\ ByteAt(ip + 1) = more[1 + 1]
        /\ ByteAt(ip + 2) = more[2 + 1] /\ ByteAt(ip + 3) = more[3 + 1]
        /\ ByteAt(ip + 4) = more[4 + 1] /\ ByteAt(ip + 5) = more[5 + 1]
    BY ONLY <1>2, <2>1
  <2>3. /\ ByteAt(ip) = more[1] /\ ByteAt(ip + 1) = more[2] /\ ByteAt(ip + 2) = more[3]
        /\ ByteAt(ip + 3) = more[4] /\ ByteAt(ip + 4) = more[5] /\ ByteAt(ip + 5) = more[6]
    <3>1. ip + 0 = ip /\ 0 + 1 = 1 /\ 1 + 1 = 2 /\ 2 + 1 = 3 /\ 3 + 1 = 4 /\ 4 + 1 = 5 /\ 5 + 1 = 6
      BY <1>1
    <3> QED
      BY ONLY <2>2, <3>1
  <2>4. second = ip + 4 /\ Skip(second, ByteAt(ip + 1) = 2) = ip + 6
    BY <1>1, <2>1, <2>3 DEF Skip
  <2>5. OperandAt(ip + 2, ByteAt(ip + 1) >= 1) = Decode(inst.dst.type, AsByte(inst.dst))
    <3>1. ip + 2 + 1 = ip + 3 /\ ip + 3 < Len(bytecode) /\ ByteAt(ip + 1) >= 1
      BY <1>1, <2>1, <2>3
    <3> QED
      BY <1>1, <1>3, <2>3, <3>1 DEF OperandAt
  <2>6. OperandAt(second, ByteAt(ip + 1) = 2) = Decode(inst.src.type, AsByte(inst.src))
    <3>1. ip + 4 + 1 = ip + 5 /\ ip + 5 < Len(bytecode) /\ ByteAt(ip + 1) = 2
      BY <1>1, <2>1, <2>3
    <3> QED
      BY <1>1, <1>3, <2>3, <2>4, <3>1 DEF OperandAt
  <2> QED
    BY <1>1, <1>3, <2>1, <2>3, <2>4, <2>5, <2>6 DEF Parsed
<1>4. ASSUME NEW o, OpCount(inst) = 1, more[3] = o.type, more[4] = AsByte(o)
      PROVE  /\ ByteAt(ip) = more[1] /\ ByteAt(ip + 1) = more[2]
             /\ second = ip + 4 /\ Skip(second, ByteAt(ip + 1) = 2) = ip + 4
             /\ OperandAt(ip + 2, ByteAt(ip + 1) >= 1) = Decode(o.type, AsByte(o))
             /\ OperandAt(second, ByteAt(ip + 1) = 2) = NoOperand
  <2>1. Size(inst) = 4
    BY <1>4 DEF Size
  <2>2. /\ ByteAt(ip + 0) = more[0 + 1] /\ ByteAt(ip + 1) = more[1 + 1]
        /\ ByteAt(ip + 2) = more[2 + 1] /\ ByteAt(ip + 3) = more[3 + 1]
    BY ONLY <1>2, <2>1
  <2>3. /\ ByteAt(ip) = more[1] /\ ByteAt(ip + 1) = more[2] /\ ByteAt(ip + 2) = more[3]
        /\ ByteAt(ip + 3) = more[4]
    BY <2>2
  <2>4. second = ip + 4 /\ Skip(second, ByteAt(ip + 1) = 2) = ip + 4
    BY <1>1, <1>4, <2>1, <2>3 DEF Skip
  <2>5. OperandAt(ip + 2, ByteAt(ip + 1) >= 1) = Decode(o.type, AsByte(o))
    <3>1. ip + 2 + 1 = ip + 3 /\ ip + 3 < Len(bytecode) /\ ByteAt(ip + 1) >= 1
      BY <1>1, <1>4, <2>1, <2>3
    <3> QED
      BY <1>4, <2>3, <3>1 DEF OperandAt
  <2>6. OperandAt(second, ByteAt(ip + 1) = 2) = NoOperand
    BY <1>1, <1>4, <2>3 DEF OperandAt
  <2> QED
    BY <2>3, <2>4, <2>5, <2>6
<1>5. CASE Present(inst.dst) /\ ~Present(inst.src)
  <2>1. OpCount(inst) = 1 /\ Size(inst) = 4
    BY <1>5 DEF OpCount, Size
  <2> QED
    BY <1>1, <1>4, <1>5, <2>1 DEF Parsed
<1>6. CASE ~Present(inst.dst) /\ Present(inst.src)
  <2>1. OpCount(inst) = 1 /\ Size(inst) = 4
    BY <1>6 DEF OpCount, Size
  <2> QED
    BY <1>1, <1>4, <1>6, <2>1 DEF Parsed
<1>7. CASE ~Present(inst.dst) /\ ~Present(inst.src)
  <2>1. OpCount(inst) = 0 /\ Size(inst) = 2
    BY <1>7 DEF OpCount, Size
  <2>2. ByteAt(ip + 0) = more[0 + 1] /\ ByteAt(ip + 1) = more[1 + 1]
    BY ONLY <1>2, <2>1
  <2>3. ByteAt(ip) = more[1] /\ ByteAt(ip + 1) = 0
    BY <1>1, <2>1, <2>2
  <2>4. /\ second = ip + 2 /\ Skip(second, ByteAt(ip + 1) = 2) = ip + 2
        /\ OperandAt(ip + 2, ByteAt(ip + 1) >= 1) = NoOperand
        /\ OperandAt(second, ByteAt(ip + 1) = 2) = NoOperand
    BY <2>3 DEF Skip, OperandAt
  <2> QED
    BY <1>1, <1>7, <2>1, <2>3, <2>4 DEF Parsed
<1> QED
  BY <1>3, <1>5, <1>6, <1>7

LEMMA ParsedIsOne == ASSUME NEW inst \in Instructions PROVE Parsed(inst) \in Instructions
<1>1. inst.type \in Byte /\ inst.dst \in Operands /\ inst.src \in Operands
  BY DEF Instructions
<1>2. ASSUME NEW o \in Operands PROVE Decode(o.type, AsByte(o)) \in Operands
  <2>1. AsByte(o) \in Nat
    BY OperandBytesFacts, BytecodeAssumption DEF Byte
  <2> QED
    BY <2>1 DEF Decode, Operands
<1>3. NoOperand \in Operands
  BY DEF NoOperand, Operands, OPERAND_NONE
<1>4. /\ Decode(inst.dst.type, AsByte(inst.dst)) \in Operands
      /\ Decode(inst.src.type, AsByte(inst.src)) \in Operands
  BY <1>1, <1>2
<1> QED
  BY <1>1, <1>3, <1>4 DEF Parsed, Instructions

LEMMA DecodeKeeps == ASSUME IInv, DecodeInst PROVE IInv'
<1> DEFINE d == Len(decoded)
           inst == program[d + 1]
<1>1. /\ phase = "decode" /\ ip < Len(bytecode) /\ i = Len(program) /\ capacity' = Grown
      /\ UNCHANGED <<program, given, bound, i, bytecode, resolved, round, phase>>
  BY DEF DecodeInst, IInv, PhaseInv
<1>2. /\ d \in Nat /\ i \in Nat /\ ip \in Nat /\ Len(bytecode) \in Nat
      /\ decoded \in Seq(Instructions) /\ capacity \in Nat /\ capacity > 0 /\ d <= capacity
      /\ Len(bytecode) <= 6 * i
  BY DEF IInv, TypeOK, BuffersHold
<1>3. PICK start : Laid(start) /\ Read(start)
  BY <1>1 DEF IInv, CodeInv
<1>4. d < i /\ d \in 0 .. i /\ d + 1 \in 1 .. i /\ d + 1 \in 0 .. i /\ i \in 0 .. i
  <2>1. d <= i /\ ip = start[d] /\ start[i] = Len(bytecode)
    BY <1>3 DEF Read, Laid
  <2>2. d # i
    BY <1>1, <1>2, <2>1
  <2> QED
    BY <1>2, <2>1, <2>2
<1>5. inst \in Instructions
  BY <1>1, <1>4, Arrays
<1>6. start[d + 1] = ip + Size(inst) /\ start[d + 1] <= Len(bytecode) /\ start[d + 1] \in Nat
  <2>1. start[d + 1] = start[(d + 1) - 1] + Size(inst) /\ ip = start[d] /\ (d + 1) - 1 = d
    BY <1>2, <1>3, <1>4 DEF Read, Laid
  <2>2. /\ start \in [0 .. i -> Nat] /\ start[i] = Len(bytecode)
        /\ \A j, k \in 0 .. i : j < k => start[j] < start[k]
    BY <1>3 DEF Laid
  <2>3. CASE d + 1 = i
    BY <1>4, <2>1, <2>2, <2>3
  <2>4. CASE d + 1 # i
    <3>1. d + 1 < i
      BY <1>2, <1>4, <2>4
    <3>2. start[d + 1] < start[i] /\ start[d + 1] \in Nat
      BY <1>4, <2>2, <3>1
    <3> QED
      BY <1>2, <2>1, <2>2, <3>2
  <2> QED
    BY <2>3, <2>4
<1>7. \A m \in 1 .. Size(inst) : bytecode[ip + m] = InstBytes(inst)[m]
  <2>1. \A m \in 1 .. Size(inst) : bytecode[start[(d + 1) - 1] + m] = InstBytes(inst)[m]
    BY <1>3, <1>4 DEF Laid
  <2>2. (d + 1) - 1 = d /\ start[d] = ip
    BY <1>2, <1>3 DEF Read
  <2> QED
    BY <2>1, <2>2
<1>8. decoded' = Append(decoded, Parsed(inst)) /\ ip' = start[d + 1]
  <2> DEFINE second == Skip(ip + 2, ByteAt(ip + 1) >= 1)
  <2>1. /\ decoded' = Append(decoded, [type |-> ByteAt(ip),
                                       dst |-> OperandAt(ip + 2, ByteAt(ip + 1) >= 1),
                                       src |-> OperandAt(second, ByteAt(ip + 1) = 2)])
        /\ ip' = Skip(second, ByteAt(ip + 1) = 2)
    BY DEF DecodeInst
  <2>2. PICK two : two = second
    OBVIOUS
  <2>3. PICK one \in Instructions : one = inst
    BY <1>5
  <2> HIDE DEF second, inst
  <2>4. /\ ip + Size(one) <= Len(bytecode)
        /\ \A m \in 1 .. Size(one) : bytecode[ip + m] = InstBytes(one)[m]
    BY <1>6, <1>7, <2>3
  <2>5. two = Skip(ip + 2, ByteAt(ip + 1) >= 1)
    BY <2>2 DEF second
  <2>6. /\ Skip(two, ByteAt(ip + 1) = 2) = ip + Size(one)
        /\ [type |-> ByteAt(ip), dst |-> OperandAt(ip + 2, ByteAt(ip + 1) >= 1),
            src |-> OperandAt(two, ByteAt(ip + 1) = 2)] = Parsed(one)
    BY <1>2, <2>4, <2>5, ReadsOne
  <2> QED
    BY <1>6, <2>1, <2>2, <2>3, <2>6, Zenon
<1>9. Parsed(inst) \in Instructions
  BY <1>5, ParsedIsOne
<1>10. /\ decoded' \in Seq(Instructions) /\ Len(decoded') = d + 1
       /\ \A k \in 1 .. d : decoded'[k] = decoded[k]
       /\ decoded'[d + 1] = Parsed(inst)
  <2> HIDE DEF inst
  <2> QED
    BY <1>2, <1>8, <1>9
<1>11. TypeOK' /\ BuffersHold' /\ capacity' > 0
  <2>1. capacity' \in Nat /\ capacity' > 0 /\ d + 1 <= capacity'
    BY <1>1, <1>2 DEF Grown
  <2> QED
    BY <1>1, <1>2, <1>6, <1>8, <1>10, <2>1 DEF IInv, TypeOK, BuffersHold
<1>12. PhaseInv' /\ LabelsEncodeOnce'
  BY <1>1 DEF IInv, PhaseInv, LabelsEncodeOnce, IsLabel
<1>13. ProgramInv'
  BY <1>1 DEF IInv, ProgramInv, Turned, LabelIndex, Few, Labels, IsLabel
<1>14. CodeInv'
  <2>1. Laid(start)'
    BY <1>1, <1>3, LaidStays
  <2>2. Len(decoded') <= i' /\ ip' = start[Len(decoded')]
    BY <1>1, <1>2, <1>4, <1>8, <1>10
  <2>3. ASSUME NEW k \in DOMAIN decoded' PROVE decoded'[k] = Parsed(program'[k])
    <3>1. DOMAIN decoded' = 1 .. d + 1 /\ DOMAIN decoded = 1 .. d
      BY <1>2, <1>10
    <3>2. CASE k = d + 1
      BY <1>1, <1>10, <3>2
    <3>3. CASE k # d + 1
      <4>1. k \in 1 .. d /\ k \in DOMAIN decoded
        BY <1>2, <3>1, <3>3
      <4> QED
        BY <1>1, <1>3, <1>10, <4>1 DEF Read
    <3> QED
      BY <3>2, <3>3
  <2>4. Read(start)'
    BY <2>2, <2>3 DEF Read
  <2> QED
    BY <1>1, <2>1, <2>4 DEF CodeInv
<1> QED
  BY <1>11, <1>12, <1>13, <1>14 DEF IInv

LEMMA DecodedKeeps == ASSUME IInv, Decoded PROVE IInv'
<1>1. /\ phase = "decode" /\ ip >= Len(bytecode) /\ phase' = "done"
      /\ UNCHANGED <<program, given, bound, i, bytecode, ip, capacity, decoded, resolved, round>>
  BY DEF Decoded
<1>2. TypeOK' /\ BuffersHold' /\ capacity' > 0 /\ PhaseInv' /\ LabelsEncodeOnce'
  BY <1>1 DEF IInv, TypeOK, BuffersHold, PhaseInv, LabelsEncodeOnce, IsLabel
<1>3. ProgramInv'
  BY <1>1 DEF IInv, ProgramInv, Turned, LabelIndex, Few, Labels, IsLabel
<1>4. CodeInv'
  <2>1. PICK start : Laid(start) /\ Read(start)
    BY <1>1 DEF IInv, CodeInv
  <2>2. Laid(start)' /\ Read(start)'
    BY <1>1, <2>1, LaidStays DEF Read
  <2> QED
    BY <1>1, <2>2 DEF CodeInv
<1> QED
  BY <1>2, <1>3, <1>4 DEF IInv

LEMMA AgainKeeps == ASSUME IInv, Again PROVE IInv'
<1>1. /\ (phase = "resolve" /\ round = 0) \/ (phase = "done" /\ round = 1)
      /\ i = Len(program) /\ resolved' = TRUE /\ round' = round + 1 /\ phase' = "bind"
      /\ bound' = <<>> /\ i' = 0 /\ bytecode' = <<>>
      /\ ip' = 0 /\ capacity' = InitialCapacity /\ decoded' = <<>>
      /\ program' = program /\ given' = given
  BY DEF Again, IInv, PhaseInv
<1>2. /\ DOMAIN bound' = {} /\ Len(bytecode') = 0 /\ Len(decoded') = 0
      /\ bytecode' \in Seq(Byte) /\ decoded' \in Seq(Instructions)
  BY <1>1, EmptySeq
<1>3. /\ capacity' \in Nat /\ capacity' > 0 /\ i' \in 0 .. Len(program')
      /\ program' \in Seq(Instructions) /\ given' \in Seq(Instructions)
  BY <1>1, BytecodeAssumption, Arrays
<1>4. TypeOK' /\ BuffersHold'
  BY <1>1, <1>2, <1>3 DEF TypeOK, BuffersHold
<1>5. PhaseInv' /\ LabelsEncodeOnce' /\ CodeInv'
  BY <1>1 DEF PhaseInv, LabelsEncodeOnce, CodeInv
<1>6. ProgramInv'
  <2>1. ASSUME NEW k \in DOMAIN given PROVE Turned(k)'
    <3>1. Turned(k) /\ k <= i /\ (round = 0 => ~resolved)
      BY <1>1, Arrays DEF IInv, ProgramInv, PhaseInv
    <3>2. CASE ~NamesLabel(given[k].dst)
      BY <1>1, <3>1, <3>2 DEF Turned
    <3>3. CASE NamesLabel(given[k].dst)
      <4>1. /\ program[k].type = given[k].type /\ program[k].src = given[k].src
            /\ program[k].dst.type = OPERAND_IMMEDIATE
        BY <3>1, <3>3 DEF Turned
      <4>2. PICK n \in 0 .. Len(given) - 1 :
              /\ LabelIndex(given[k].dst.val, n)
              /\ program[k].dst.val \in {0, n}
              /\ round < 2 => program[k].dst.val = IF resolved \/ round = 0 THEN 0 ELSE n
        BY <3>1, <3>3 DEF Turned
      <4>3. LabelIndex(given[k].dst.val, n)'
        BY <1>1, <4>2 DEF LabelIndex, Few, Labels, IsLabel
      <4>4. round' < 2 => program[k].dst.val = 0
        BY <1>1, <4>2
      <4> QED
        BY <1>1, <3>3, <4>1, <4>2, <4>3, <4>4 DEF Turned
    <3> QED
      BY <3>2, <3>3
  <2> QED
    BY <1>1, <1>2, <2>1 DEF IInv, ProgramInv
<1> QED
  BY <1>3, <1>4, <1>5, <1>6 DEF IInv

LEMMA StutterKeeps == ASSUME IInv, UNCHANGED vars PROVE IInv'
<1>1. TypeOK' /\ BuffersHold' /\ capacity' > 0 /\ PhaseInv' /\ LabelsEncodeOnce'
  BY DEF vars, IInv, TypeOK, BuffersHold, PhaseInv, LabelsEncodeOnce, IsLabel
<1>2. ProgramInv'
  BY DEF vars, IInv, ProgramInv, Turned, LabelIndex, Few, Labels, IsLabel
<1>3. CodeInv'
  BY DEF vars, IInv, CodeInv, Laid, Read
<1> QED
  BY <1>1, <1>2, <1>3 DEF IInv

LEMMA Inductive == IInv /\ [Next]_vars => IInv'
BY BindKeeps, ResolveKeeps, EncodeKeeps, EncodedKeeps, DecodeKeeps, DecodedKeeps, AgainKeeps,
   StutterKeeps DEF Next, Ended

LEMMA Invariant == Spec => []IInv
BY InitInv, Inductive, PTL DEF Spec

-----------------------------------------------------------------------------
(* What follows from the invariant                                           *)

\* Every variable of the encoder and the decoder keeps its type.
THEOREM BytecodeTyped == Spec => []TypeOK
BY Invariant, PTL DEF IInv

\* Neither buffer is ever written past its end: the encoder's, of six bytes an
\* instruction, which aym_inst_to_bytecode never compares with what it writes,
\* and the array that aym_bytecode_to_inst doubles.
THEOREM BuffersAlwaysHold == Spec => []BuffersHold
BY Invariant, PTL DEF IInv

\* Once the decoder has stopped it has read every instruction.
LEMMA AllRead ==
  ASSUME IInv, phase = "done"
  PROVE  Len(decoded) = Len(given) /\ i = Len(given)
<1>1. PICK start : Laid(start) /\ Read(start)
  BY DEF IInv, CodeInv
<1>2. /\ i = Len(given) /\ i \in Nat /\ Len(decoded) \in Nat /\ Len(decoded) <= i
      /\ ip = start[Len(decoded)] /\ ip \in Nat /\ Len(bytecode) \in Nat /\ ip >= Len(bytecode)
  BY <1>1, Arrays DEF IInv, PhaseInv, CodeInv, TypeOK, Read
<1>3. start[i] = Len(bytecode) /\ \A j, k \in 0 .. i : j < k => start[j] < start[k]
  BY <1>1 DEF Laid
<1>4. CASE Len(decoded) # i
  <2>1. Len(decoded) < i /\ Len(decoded) \in 0 .. i /\ i \in 0 .. i
    BY <1>2, <1>4
  <2>2. ip < Len(bytecode)
    BY <1>2, <1>3, <2>1
  <2> QED
    BY <1>2, <2>2
<1> QED
  BY <1>2, <1>4

\* An instruction that has been decoded, and the caller's that it comes from.
LEMMA DecodedIs ==
  ASSUME IInv, phase \in {"decode", "done"}, NEW k \in DOMAIN decoded
  PROVE  /\ k \in DOMAIN given /\ decoded[k] = Parsed(program[k])
         /\ program[k] \in Instructions /\ given[k] \in Instructions /\ Turned(k)
<1>1. PICK start : Read(start)
  BY DEF IInv, CodeInv
<1>2. decoded[k] = Parsed(program[k])
  BY <1>1 DEF Read
<1>3. Len(decoded) <= i /\ i <= Len(given) /\ i \in Nat /\ DOMAIN decoded = 1 .. Len(decoded)
  BY <1>1, Arrays DEF Read, IInv, TypeOK
<1>4. k \in DOMAIN given
  <2>1. k \in 1 .. Len(decoded) /\ Len(decoded) \in Nat
    BY <1>3 DEF IInv, TypeOK
  <2> QED
    BY <1>3, <2>1, Arrays
<1> QED
  BY <1>2, <1>4, Arrays DEF IInv, ProgramInv

\* aym_bytecode_to_inst cuts the bytes where aym_inst_to_bytecode joined them,
\* whatever the operands, and main may load as many instructions as it gave.
THEOREM DecoderAligned == Spec => []DecodeAligned
<1>1. IInv => DecodeAligned
  <2> SUFFICES ASSUME IInv, phase \in {"decode", "done"}
               PROVE  /\ Len(decoded) <= Len(given)
                      /\ \A k \in DOMAIN decoded : decoded[k].type = given[k].type
                      /\ phase = "done" => Len(decoded) = Len(given)
    BY DEF DecodeAligned
  <2>1. PICK start : Read(start)
    BY DEF IInv, CodeInv
  <2>2. Len(decoded) <= Len(given)
    BY <2>1, Arrays DEF Read, IInv, PhaseInv
  <2>3. ASSUME NEW k \in DOMAIN decoded PROVE decoded[k].type = given[k].type
    <3>1. decoded[k] = Parsed(program[k]) /\ Turned(k)
      BY <2>3, DecodedIs
    <3>2. program[k].type = given[k].type
      BY <3>1 DEF Turned
    <3> QED
      BY <3>1, <3>2 DEF Parsed
  <2> QED
    BY <2>2, <2>3, AllRead
<1> QED
  BY <1>1, Invariant, PTL

\* What the decoder makes of the two bytes of an operand.
LEMMA CarriedBack ==
  ASSUME NEW o \in Operands
  PROVE  /\ Present(o) => Decode(o.type, AsByte(o)) = Narrowed(o)
         /\ ~Present(o) => NoOperand = Narrowed(o)
<1>1. o.type \in 0 .. 4
  BY DEF Operands
<1>2. CASE Present(o)
  <2>1. \/ o.type \in {OPERAND_IMMEDIATE, OPERAND_REGISTER, OPERAND_MEMORY}
        \/ o.type = OPERAND_LABEL
    BY <1>1, <1>2 DEF Present, OPERAND_NONE, OPERAND_IMMEDIATE, OPERAND_REGISTER, OPERAND_MEMORY,
                      OPERAND_LABEL
  <2> QED
    BY <1>2, <2>1 DEF Present, Decode, AsByte, Narrowed, OPERAND_NONE, OPERAND_IMMEDIATE,
                      OPERAND_REGISTER, OPERAND_MEMORY, OPERAND_LABEL
<1>3. CASE ~Present(o)
  BY <1>3 DEF Present, Narrowed, NoOperand
<1> QED
  BY <1>2, <1>3

LEMMA Kept ==
  ASSUME NEW inst \in Instructions
  PROVE  /\ Parsed(inst).src = IF Present(inst.dst) THEN Narrowed(inst.src) ELSE NoOperand
         /\ Parsed(inst).dst = Narrowed(IF Present(inst.dst) THEN inst.dst ELSE inst.src)
<1>1. inst.dst \in Operands /\ inst.src \in Operands
  BY DEF Instructions
<1>2. /\ Present(inst.dst) => Decode(inst.dst.type, AsByte(inst.dst)) = Narrowed(inst.dst)
      /\ Present(inst.src) => Decode(inst.src.type, AsByte(inst.src)) = Narrowed(inst.src)
      /\ ~Present(inst.src) => NoOperand = Narrowed(inst.src)
  BY <1>1, CarriedBack, Zenon
<1>3. /\ Parsed(inst).dst = IF Present(inst.dst) THEN Decode(inst.dst.type, AsByte(inst.dst))
                            ELSE IF Present(inst.src)
                            THEN Decode(inst.src.type, AsByte(inst.src))
                            ELSE NoOperand
      /\ Parsed(inst).src = IF Present(inst.dst) /\ Present(inst.src)
                            THEN Decode(inst.src.type, AsByte(inst.src)) ELSE NoOperand
  BY Zenon DEF Parsed
<1>4. CASE Present(inst.dst) /\ Present(inst.src)
  BY <1>2, <1>3, <1>4
<1>5. CASE Present(inst.dst) /\ ~Present(inst.src)
  BY <1>2, <1>3, <1>5
<1>6. CASE ~Present(inst.dst) /\ Present(inst.src)
  BY <1>2, <1>3, <1>6
<1>7. CASE ~Present(inst.dst) /\ ~Present(inst.src)
  BY <1>2, <1>3, <1>7
<1> QED
  BY <1>4, <1>5, <1>6, <1>7

\* Every instruction comes back from the bytes with what a byte can hold of its
\* operands, the label it names with the index of that label, and a src that is its
\* only operand as dst.
THEOREM RoundTrips == Spec => []RoundTrip
<1>1. IInv => RoundTrip
  <2> SUFFICES ASSUME IInv, phase = "done", NEW k \in DOMAIN given
               PROVE  /\ decoded[k].src = IF Present(given[k].dst) THEN Narrowed(given[k].src)
                                          ELSE NoOperand
                      /\ IF NamesLabel(given[k].dst)
                         THEN \E n \in 0 .. Len(given) - 1 :
                                /\ LabelIndex(given[k].dst.val, n)
                                /\ decoded[k].dst = [type |-> OPERAND_IMMEDIATE,
                                                     val |-> n % ByteSize]
                         ELSE decoded[k].dst =
                                Narrowed(IF Present(given[k].dst) THEN given[k].dst
                                         ELSE given[k].src)
    BY DEF RoundTrip
  <2>1. k \in DOMAIN decoded
    <3>1. DOMAIN decoded = 1 .. Len(decoded)
      BY DEF IInv, TypeOK
    <3> QED
      BY <3>1, AllRead, Arrays
  <2>2. /\ decoded[k] = Parsed(program[k]) /\ Turned(k)
        /\ program[k] \in Instructions /\ given[k] \in Instructions
    BY <2>1, DecodedIs
  <2>3. /\ decoded[k].src = IF Present(program[k].dst) THEN Narrowed(program[k].src)
                            ELSE NoOperand
        /\ decoded[k].dst = Narrowed(IF Present(program[k].dst) THEN program[k].dst
                                     ELSE program[k].src)
    BY <2>2, Kept, Zenon
  <2>4. CASE NamesLabel(given[k].dst)
    <3>1. ~resolved
      <4> SUFFICES ASSUME resolved PROVE FALSE
        OBVIOUS
      <4>1. \A j \in DOMAIN given : ~IsLabel(given, j)
        BY DEF IInv, LabelsEncodeOnce
      <4> QED
        BY <2>4, <4>1, NoneNamed
    <3>2. k <= i /\ round = 1
      BY <3>1, AllRead, Arrays DEF IInv, PhaseInv
    <3>3. PICK n \in 0 .. Len(given) - 1 :
            /\ program[k].src = given[k].src
            /\ program[k].dst.type = OPERAND_IMMEDIATE /\ program[k].dst.val = n
            /\ LabelIndex(given[k].dst.val, n)
      BY <2>2, <2>4, <3>1, <3>2 DEF Turned
    <3>4. /\ Present(program[k].dst) /\ Present(given[k].dst)
          /\ Narrowed(program[k].dst) = [type |-> OPERAND_IMMEDIATE, val |-> n % ByteSize]
      BY <2>4, <3>3 DEF Present, Narrowed, NamesLabel, OPERAND_NONE, OPERAND_IMMEDIATE,
                        OPERAND_LABEL
    <3> QED
      BY <2>3, <2>4, <3>3, <3>4
  <2>5. CASE ~NamesLabel(given[k].dst)
    <3>1. program[k] = given[k]
      BY <2>2, <2>5 DEF Turned
    <3> QED
      BY <2>3, <2>5, <3>1
  <2> QED
    BY <2>4, <2>5
<1> QED
  BY <1>1, Invariant, PTL

\* A program that has a label is encoded, or resolved and then encoded, once:
\* after that bind_label is given an index for a name.
THEOREM EncodesOnce == Spec => []LabelsEncodeOnce
BY Invariant, PTL DEF IInv

\* aym_resolve_labels leaves 0 where each label was, whatever its index, and such an
\* array is never encoded.
THEOREM ResolveLoses == Spec => []ResolveLosesTargets
<1>1. IInv => ResolveLosesTargets
  <2> SUFFICES ASSUME IInv, NEW k \in DOMAIN given, NamesLabel(given[k].dst),
                      IF resolved THEN round = 1 ELSE round = 0 /\ k <= i
               PROVE  /\ program[k].dst = [type |-> OPERAND_IMMEDIATE, val |-> 0]
                      /\ \E n \in 0 .. Len(given) - 1 : LabelIndex(given[k].dst.val, n)
                      /\ resolved => phase \in {"bind", "CRASH"}
    BY DEF ResolveLosesTargets
  <2>1. (resolved \/ k <= i) /\ round < 2 /\ (resolved \/ round = 0)
    OBVIOUS
  <2>2. Turned(k) /\ program[k] \in Instructions
    BY Arrays DEF IInv, ProgramInv
  <2>3. /\ program[k].dst.type = OPERAND_IMMEDIATE /\ program[k].dst.val = 0
        /\ \E n \in 0 .. Len(given) - 1 : LabelIndex(given[k].dst.val, n)
    BY <2>1, <2>2 DEF Turned
  <2>4. program[k].dst \in Operands
    BY <2>2 DEF Instructions
  <2>5. ASSUME resolved, phase \notin {"bind", "CRASH"} PROVE FALSE
    <3>1. \A j \in DOMAIN given : ~IsLabel(given, j)
      BY <2>5 DEF IInv, LabelsEncodeOnce
    <3> QED
      BY <2>5, <3>1, NoneNamed
  <2> QED
    BY <2>3, <2>4, <2>5 DEF Operands
<1> QED
  BY <1>1, Invariant, PTL
=============================================================================
