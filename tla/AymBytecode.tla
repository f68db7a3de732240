----------------------------- MODULE AymBytecode -----------------------------
(***************************************************************************)
(* aym_inst_to_bytecode and aym_bytecode_to_inst (serialize.c): a program  *)
(* is encoded, in place of a buffer of six bytes an instruction, and the   *)
(* bytes are decoded again.  One step is one turn of either loop.  The     *)
(* caller may then encode the same program a second time: the encoder has  *)
(* changed it.  Or it may first have called aym_bind_labels and            *)
(* aym_resolve_labels itself, on a table of its own.                       *)
(***************************************************************************)
EXTENDS Integers, Sequences, FiniteSets

CONSTANTS
  ByteSize,         \* 256
  InitialCapacity,  \* 64, the instructions the decoder first makes room for
  BucketRoom,       \* HASH_BKT_CAPACITY_THRESH, 10
  LabelNames,       \* the label strings, as the values of char* operands
  Programs          \* the programs that are encoded

OPERAND_NONE == 0
OPERAND_IMMEDIATE == 1
OPERAND_REGISTER == 2
OPERAND_MEMORY == 3
OPERAND_LABEL == 4
INST_LABEL == 40

Byte == 0 .. ByteSize - 1
Operands == [type : 0 .. 4, val : Nat]
Instructions == [type : Byte, dst : Operands, src : Operands]

ASSUME BytecodeAssumption ==
  /\ ByteSize \in Nat /\ ByteSize > INST_LABEL
  /\ InitialCapacity \in Nat \ {0}
  /\ BucketRoom \in Nat
  /\ LabelNames \subseteq Nat \ {0}
  /\ \A p \in Programs :
       /\ p \in Seq(Instructions) /\ LabelNames \cap 0 .. Len(p) = {}
       \* MAKE_LABEL, by which INST_LABELs are built, gives the name as a label.
       /\ \A k \in DOMAIN p :
            p[k].type = INST_LABEL /\ p[k].dst.val \in LabelNames =>
              p[k].dst.type = OPERAND_LABEL

VARIABLES
  program,   \* the caller's array, of which the encoder rewrites the labels
  given,     \* the same array as the caller first built it
  bound,     \* names in the label table |-> index
  i,         \* instructions encoded so far
  bytecode,  \* bytes written so far: offset is its length
  ip,        \* bytes decoded so far
  capacity, decoded,
  resolved,  \* history: whether the labels have been resolved before
  round,     \* 0 for aym_resolve_labels, then which encoding, of at most two
  phase      \* "bind", "resolve", "encode", "decode", "done", or how the process ended

vars == <<program, given, bound, i, bytecode, ip, capacity, decoded, resolved, round, phase>>

Init ==
  /\ program \in Programs
  /\ given = program
  /\ bound = <<>>
  /\ i = 0 /\ bytecode = <<>>
  /\ ip = 0 /\ capacity = InitialCapacity /\ decoded = <<>>
  /\ resolved = FALSE
  /\ round \in {0, 1}
  /\ phase = "bind"

-----------------------------------------------------------------------------
(* Encoding                                                                  *)

IsLabel(p, k) == p[k].type = INST_LABEL
Named(p, k) == p[k].dst.val \in LabelNames
\* aym_bind_labels.  Every label is bound to its position, the last one of a name
\* prevailing (LabelMap) unless they are many.  bind_label copies whatever string
\* the instruction's operand points to, and only a label's name is a string.
\* Mutant: the first one prevails.
Prevails_Mutant(k, j) == k <= j
Prevails(k, j) == j <= k
Labels(p) == {k \in DOMAIN p : IsLabel(p, k)}
Few(p) == Cardinality(Labels(p)) < BucketRoom
Positions(p, n) ==
  {k \in Labels(p) :
     /\ p[k].dst.val = n
     /\ Few(p) => \A j \in Labels(p) : p[j].dst.val = n => Prevails(k, j)}
Bindings(p) ==
  LET names == {p[k].dst.val : k \in Labels(p)} IN
  {t \in [names -> 0 .. Len(p) - 1] : \A n \in names : t[n] + 1 \in Positions(p, n)}

BindLabels ==
  /\ phase = "bind"
  /\ IF \A k \in DOMAIN program : IsLabel(program, k) => Named(program, k)
     THEN phase' = (IF round = 0 THEN "resolve" ELSE "encode") /\ bound' \in Bindings(program)
     ELSE phase' = "CRASH" /\ UNCHANGED bound
  /\ UNCHANGED <<program, given, i, bytecode, ip, capacity, decoded, resolved, round>>
\* operand_as_u8: the low byte of the value, and none of a label's.
\* Mutant: the whole value.
AsByte_Mutant(o) ==
  IF o.type \in {OPERAND_IMMEDIATE, OPERAND_REGISTER, OPERAND_MEMORY} THEN o.val ELSE 0
AsByte(o) ==
  IF o.type \in {OPERAND_IMMEDIATE, OPERAND_REGISTER, OPERAND_MEMORY} THEN o.val % ByteSize ELSE 0

Present(o) == o.type # OPERAND_NONE
Truth(b) == IF b THEN 1 ELSE 0
OperandBytes(o) == IF Present(o) THEN <<o.type, AsByte(o)>> ELSE <<>>

\* The bytes of an instruction whose dst has been resolved.
InstBytes(inst) ==
  <<inst.type, Truth(Present(inst.dst)) + Truth(Present(inst.src))>>
    \o OperandBytes(inst.dst) \o OperandBytes(inst.src)

\* Only dst is looked at for a label, and it is overwritten by its index.
NamesLabel(o) == o.type = OPERAND_LABEL /\ o.val # 0
Resolved(o) == [type |-> OPERAND_IMMEDIATE, val |-> bound[o.val]]
\* Mutant: the program stays as it was.
Rewritten_Mutant(k, o) == program
Rewritten(k, o) == [program EXCEPT ![k].dst = o]

\* aym_resolve_labels writes the index and then NULL to label_name, which shares
\* the union with it.
\* Mutant: the index stays.
LeftIn_Mutant(o) == bound[o.val]
LeftIn(o) == 0

ResolveInst ==
  LET o == program[i + 1].dst IN
  /\ phase = "resolve" /\ i < Len(program)
  /\ IF NamesLabel(o) /\ o.val \notin DOMAIN bound
     THEN phase' = "EXIT" /\ UNCHANGED <<program, i>>
     ELSE /\ program' = IF NamesLabel(o)
                        THEN [program EXCEPT ![i + 1].dst = [type |-> OPERAND_IMMEDIATE,
                                                             val |-> LeftIn(o)]]
                        ELSE program
          /\ i' = i + 1
          /\ UNCHANGED phase
  /\ UNCHANGED <<given, bound, bytecode, ip, capacity, decoded, resolved, round>>

EncodeInst ==
  LET inst == program[i + 1] IN
  /\ phase = "encode" /\ i < Len(program)
  /\ \/ /\ NamesLabel(inst.dst) /\ inst.dst.val \notin DOMAIN bound
        /\ phase' = "EXIT"
        /\ UNCHANGED <<program, i, bytecode>>
     \/ /\ NamesLabel(inst.dst) => inst.dst.val \in DOMAIN bound
        /\ LET dst == IF NamesLabel(inst.dst) THEN Resolved(inst.dst) ELSE inst.dst IN
           /\ program' = Rewritten(i + 1, dst)
           /\ bytecode' = bytecode \o InstBytes([inst EXCEPT !.dst = dst])
        /\ i' = i + 1
        /\ UNCHANGED phase
  /\ UNCHANGED <<given, bound, ip, capacity, decoded, resolved, round>>

Encoded ==
  /\ phase = "encode" /\ i = Len(program)
  /\ phase' = "decode"
  /\ UNCHANGED <<program, given, bound, i, bytecode, ip, capacity, decoded, resolved, round>>

-----------------------------------------------------------------------------
(* Decoding                                                                  *)

\* bytecode[k], counted from 0.  Past the end of an odd blob the count byte read
\* does not matter: there are no operands left for it to announce.
ByteAt(k) == IF k < Len(bytecode) THEN bytecode[k + 1] ELSE 0

\* u8_as_operand keeps the value of the three types it knows.
Decode(type, val) ==
  [type |-> type,
   val |-> IF type \in {OPERAND_IMMEDIATE, OPERAND_REGISTER, OPERAND_MEMORY} THEN val ELSE 0]
NoOperand == [type |-> OPERAND_NONE, val |-> 0]

\* An operand is read where it is announced and two more bytes are there.  The
\* first one read is always dst, and only a count of exactly 2 announces src.
OperandAt(k, announced) ==
  IF announced /\ k + 1 < Len(bytecode) THEN Decode(ByteAt(k), ByteAt(k + 1)) ELSE NoOperand
\* Mutant: not at the very end of the bytes.
Skip_Mutant(k, announced) == IF announced /\ k + 2 < Len(bytecode) THEN k + 2 ELSE k
Skip(k, announced) == IF announced /\ k + 1 < Len(bytecode) THEN k + 2 ELSE k
\* Mutant: one instruction too late.
Grown_Mutant == IF Len(decoded) > capacity THEN 2 * capacity ELSE capacity
Grown == IF Len(decoded) >= capacity THEN 2 * capacity ELSE capacity

DecodeInst ==
  LET op_count == ByteAt(ip + 1)
      second == Skip(ip + 2, op_count >= 1)
  IN
  /\ phase = "decode" /\ ip < Len(bytecode)
  /\ capacity' = Grown
  /\ decoded' = Append(decoded, [type |-> ByteAt(ip),
                                 dst |-> OperandAt(ip + 2, op_count >= 1),
                                 src |-> OperandAt(second, op_count = 2)])
  /\ ip' = Skip(second, op_count = 2)
  /\ UNCHANGED <<program, given, bound, i, bytecode, resolved, round, phase>>

Decoded ==
  /\ phase = "decode" /\ ip >= Len(bytecode)
  /\ phase' = "done"
  /\ UNCHANGED <<program, given, bound, i, bytecode, ip, capacity, decoded, resolved, round>>

\* The caller encodes the array again; each call has tables of its own.
Again ==
  /\ \/ phase = "resolve" /\ i = Len(program)
     \/ phase = "done" /\ round = 1
  /\ resolved' = TRUE
  /\ round' = round + 1 /\ phase' = "bind"
  /\ bound' = <<>> /\ i' = 0 /\ bytecode' = <<>>
  /\ ip' = 0 /\ capacity' = InitialCapacity /\ decoded' = <<>>
  /\ UNCHANGED <<program, given>>

Ended ==
  /\ phase \in {"CRASH", "EXIT"} \/ (phase = "done" /\ round = 2)
  /\ UNCHANGED vars

Next ==
  \/ BindLabels \/ ResolveInst \/ EncodeInst \/ Encoded
  \/ DecodeInst \/ Decoded \/ Again \/ Ended

Spec == Init /\ [][Next]_vars

-----------------------------------------------------------------------------
(* Properties                                                                *)

\* Types of the state; the buffers' bounds are stated apart.
TypeOK ==
  /\ program \in Seq(Instructions) /\ given \in Seq(Instructions)
  /\ DOMAIN bound \subseteq LabelNames
  /\ \A n \in DOMAIN bound : bound[n] \in 0 .. Len(program) - 1
  /\ i \in 0 .. Len(program)
  /\ bytecode \in Seq(Byte)
  /\ ip \in Nat /\ capacity \in Nat
  /\ decoded \in Seq(Instructions)
  /\ round \in 0 .. 2 /\ resolved \in BOOLEAN
  /\ phase \in {"bind", "resolve", "encode", "decode", "done", "CRASH", "EXIT"}

\* The encoder, which allocates six bytes an instruction and checks nothing as
\* it writes, stays within them, and so does the decoder, which doubles its
\* array when it is full, within that array.
BuffersHold ==
  /\ Len(bytecode) <= 6 * i
  /\ Len(decoded) <= capacity

\* The decoder never loses its place: it cuts the bytes where the encoder joined
\* them, and returns as many instructions, of the same opcodes, as were given.
\* main relies on it when it loads prog_size instructions of the result.
DecodeAligned ==
  phase \in {"decode", "done"} =>
    /\ Len(decoded) <= Len(given)
    /\ \A k \in DOMAIN decoded : decoded[k].type = given[k].type
    /\ phase = "done" => Len(decoded) = Len(given)

\* What is left of an operand that has been through its two bytes: its type, and
\* the low byte of its value, of which a label keeps nothing.
Narrowed(o) ==
  [type |-> o.type,
   val |-> IF o.type \in {OPERAND_NONE, OPERAND_LABEL} THEN 0 ELSE o.val % ByteSize]

\* The index a name stands for: that of its last label, or of one of many.
LabelIndex(name, k) ==
  /\ IsLabel(given, k + 1) /\ given[k + 1].dst.val = name
  /\ Few(given) =>
       \A j \in DOMAIN given : IsLabel(given, j) /\ given[j].dst.val = name => j <= k + 1

\* What comes back of every instruction that was given.  A label named by dst has
\* become its index (of which the low byte is kept), and a src that had no dst
\* before it comes back as dst: the bytes do not say which of the two it was.
RoundTrip ==
  phase = "done" =>
    \A k \in DOMAIN given :
      LET inst == given[k] IN
      /\ decoded[k].src = IF Present(inst.dst) THEN Narrowed(inst.src) ELSE NoOperand
      /\ IF NamesLabel(inst.dst)
         THEN \E n \in 0 .. Len(given) - 1 :
                /\ LabelIndex(inst.dst.val, n)
                /\ decoded[k].dst = [type |-> OPERAND_IMMEDIATE, val |-> n % ByteSize]
         ELSE decoded[k].dst = Narrowed(IF Present(inst.dst) THEN inst.dst ELSE inst.src)

\* Encoding and resolving both consume a program that has labels: when it is
\* encoded after that the process dies in bind_label, on an operand that is an
\* index, or 0, where the name was.
LabelsEncodeOnce ==
  resolved /\ phase \notin {"bind", "CRASH"} => \A k \in DOMAIN given : ~IsLabel(given, k)

\* aym_resolve_labels leaves 0 in the caller's array for every label it finds, so
\* that the only one it resolves as the encoder would is one at the very start.
\* The array stays so until it is given to the encoder, and no byte is made of it:
\* the process dies binding the labels again.
ResolveLosesTargets ==
  \A k \in DOMAIN given :
    NamesLabel(given[k].dst) /\ (IF resolved THEN round = 1 ELSE round = 0 /\ k <= i) =>
      /\ program[k].dst = [type |-> OPERAND_IMMEDIATE, val |-> 0]
      /\ \E n \in 0 .. Len(given) - 1 : LabelIndex(given[k].dst.val, n)
      /\ resolved => phase \in {"bind", "CRASH"}
=============================================================================
