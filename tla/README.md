# TLA+ specifications of aym

aym is a small virtual machine in C: a program is an array of instructions,
encoded to bytes, written to a file, read back, decoded, installed in a machine
and executed by a fetch-decode-execute loop over a register file, a stack and a
memory. These modules specify that program, check it with TLC on small machines
and prove with TLAPS what matters most for machines of every size. Paths below
are relative to the repository.

## 1. Inventory of the system

| Component | Source | State | Operations | Modelled |
|---|---|---|---|---|
| Fetch-decode-execute loop | `src/aym.c` 29-627, 650-667 | program, stack, registers (ESP, BP, IP, FLAGS among them), memory, halt | 43 opcodes, end of loop | yes: `AymVM` |
| Words and arithmetic | `src/defs.h` 17-22, C's operators in `aym.c` | none | add, subtract, multiply, divide, shift, rotate, bitwise | yes: `AymWord` |
| Operands and labels | `src/aym.c` 16-27, 629-648, `src/label.c` | hash table of label names | resolve an operand; bind, find, free | yes: `AymVM`, `AymLabels`, `LabelMap` |
| System calls | `src/syscall.c` | the process's heap and files | exit, write, read, alloc, free | yes: `Syscall` in `AymVM` |
| Calls and returns | `src/aym.c` 573-596 | frames on the machine's own stack | CALL, RET | yes: `AymCalls`, `AymLeafCalls`, `CallReturn` |
| Encoder and decoder | `src/serialize.c` 22-56, 184-311, `src/operand.c` | buffer and offset, label table, growing array | bind, resolve, encode, decode | yes: `AymBytecode` |
| Bytecode files | `src/serialize.c` 12-20, 87-182 | header and blob, on disk | write, load | yes: `AymFiles` |
| Loading | `src/aym.c` 6-27, 608-627, `src/serialize.c` 58-85 | the machine, between runs | init, load, bind, execute | yes: `AymSession` |
| main | `src/main.c` | the buffer, its size | the pipeline of all of the above | yes: pipeline in `AymFiles`, its program in `AymLeafCalls` |
| Names of errors, opcodes, types | `src/util.c`, `src/inst.c` | - | constant strings | no: messages only |
| uthash | `src/uthash.h` | - | vendored | in part: the macros that `label.c` expands, in `AymLabels` |

A process has one thread, but every run of main writes and reads one file,
"loop.aym" in the current directory. The components call each other directly:
`main` calls the encoder (which binds labels in a table of its own and rewrites
the caller's label operands to indexes), the file writer, the file loader, the
decoder and `aym_load_inst_from_mem`, then `aym_execute_program`. The loop calls
the operand resolver, which calls the machine's own label table, and
`invoke_syscall`, which calls the C library. What the components share is the
caller's instruction array, the byte buffer and its size, and the `AYM` struct.

What makes this code hard to get right is not concurrency but the absence of
checks. Any instruction may write ESP, BP, IP and FLAGS; the arrays they index
have no other protection than what each opcode does for itself. An instruction
advances IP by itself or not at all. Frames of calls live on the stack that
everything else uses. Operands are a C union read as the wrong member. Values
are narrowed to a byte and the flags of one instruction are the condition of a
later one. A mistake in any of these shows only for particular sequences of
instructions and particular operands. What makes each component correct:

- loop: a step is well typed; checked instructions stay within the arrays; a
  program that should end ends; jumps land where they say;
- arithmetic and flags: the flags are those of the numbers compared, and each
  conditional jump decides what its name says;
- calls: a return resumes after its call and leaves the caller's stack alone;
- encoder and decoder: buffers hold, the decoder stays aligned with the encoder,
  and what can be carried comes back;
- label table: each bucket counts what it links, through expansion and
  deletion; a lookup finds the latest binding of its name; nothing freed is used;
- files: what is loaded is what was written, or the load fails and nothing of it
  is used, whoever else writes the file and wherever a write stops;
- sessions: a machine that is used again stays within its arrays, and its jumps
  land on labels of what it was bound to.

`PROJECT.json` lists the hazards at their lines, with the properties that cover
each of them, or why none does: no document, comment or test promises anything of
a DUP below the stack, of an address outside memory, of PUSH ESP or of a second
free, so that the modules say what happens (`WILD`, `CRASH`, either value) and no
property that it does not.

## 2. Modules

| Module | What it holds |
|---|---|
| `AymWord` | a word as its unsigned value; C's operators on it |
| `AymVM` | the machine: one action per opcode or family of opcodes; `Spec`, `FairSpec`, `TypeOK` |
| `AymVMProps` | classes of programs, and what holds of the machine |
| `AymClaims` | what the repository says of the machine and does not hold |
| `CallReturn` | abstract specification: a program counter and a stack of return addresses |
| `AymCalls` | `AymVM` with a history of the pending calls; programs of leaf subroutines |
| `AymLeafCalls` | the refinement of `CallReturn` for those programs |
| `AymSession` | a machine used more than once: `AymVM` and the calls between its runs |
| `AymBytecode` | encoder, resolver, decoder, second encoding; its properties |
| `LabelMap` | abstract specification: what the users of a label table may expect of it |
| `AymLabels` | the label table with its chains, counts and expansions |
| `AymFiles` | runs of main that write and load one file |
| `AymVMProofs` | `TypeCorrect` |
| `AymContainmentProofs` | `StaysContained`, `Contains`, `StuckIsForever`, `ForwardRunsOut` |
| `AymCompareProofs` | the flags and the jumps after a comparison |
| `AymSessionProofs` | `SessionTyped`, `SessionStaysContained`, `MemoryIsNeverUsed`, `SessionForwardRunsOut`, `JumpsLand`, `SessionJumpsLand`, `TablesAreLookups`, `RerunsRepeat` |
| `AymCallsProofs` | `RetsEndCalls`, `CallsAreCalls`, `OnlyCallsOverrun` |
| `AymBytecodeProofs` | `BytecodeTyped`, `BuffersAlwaysHold`, `DecoderAligned`, `RoundTrips`, `EncodesOnce`, `ResolveLoses` |
| `AymFilesProofs` | `FilesTyped`, `RunsOwn`, `LoadsWhole`, `NoticesOneError` |
| `AymLabelsProofs` | `LabelsTyped`, `TableSound`, `ChainsSorted`, `FindsDuplicates`, `NothingIsDangling`, `TakesEachOnce`, `TableIsMap` |
| `MCCode`, `MCAymVM`, `MC*` | instruction constructors, and the instances for TLC |

`AymVM` extends `AymWord`; `AymVMProps` extends `AymVM`, and the machines with more
state extend that; the proof modules extend the module they are about, and
`AymSessionProofs` and `AymCallsProofs` the lemmas of the machine they cite. `AymBytecode`, `AymLabels`
and `AymFiles` stand alone. What joins them:
`AymLabels` is shown to implement `LabelMap`, and `LabelMap` is what `AymVM` and
`AymSession` take a label table for, with `BucketRoom` for its `Exact`
(`TablesAreLookups`), and `AymBytecode` too; `AymFiles` takes from `AymBytecode` that a program has become some bytes.
Operators named `..._Mutant` are plausible mistakes, kept beside the
definition they are a variant of and used by nothing: each property is violated
when one of them takes the definition's place.

### How `AymVM` corresponds to the code

A step is one turn of the loop of `aym_execute_program`: the dump of registers
and stack, the fetch, and the whole case of the opcode. The variables are the
fields of `AYM`; positions are counted from 0 as in C, the sequence `program`
from 1. `status` is what the loop has returned: `RUNNING`, a code of `Err`, or
one of two outcomes the C code does not return:

- `CRASH`: the process dies. A division traps (`DivTraps`), `free` aborts on a
  pointer `malloc` did not return, or `strlen` of the label lookup is given
  something that is not a string.
- `WILD`: one of the machine's arrays has been indexed outside its bounds. What
  C does then depends on the layout of memory; the model stops there. That a
  program never gets there is `Containment`.

An operand is a type and the word its union holds. `Field` is the word read as
`int reg`, whatever the type says, as `inst.dst.reg` reads it. Label names are
words too, the addresses of their strings (`LabelNames`), which is how `if
( operand.type = OPERAND_LABEL )` sends an absent or memory operand to the
label table: its word is then no address of a string, and the lookup is a
`CRASH`. In the real process an address may by chance be readable, so that the
lookup returns -1 instead; the model takes the outcome of a small number, which
is what addresses of the machine's memory are.

Shifts take their count modulo the width, and a rotation by 0 ends up shifting
by the whole width, which the hardware takes for 0: this is what the Makefile's
`-O0` build on x86-64 does. `stack[ ESP++ ] = operand` has both orders of
evaluation. Indexes are computed in unsigned words: `ESP - 1 - addr` of DUP wraps, so
that a large offset, such as the -1 of an unbound label, may name a cell above the
top, and only one that lies outside the stack is `WILD` (`DupFrom`). `XOR` is specified by the bits of its result (`IsXor`), the other
logic instructions by their value: the logical `&&` and `||` in the case of AND
and OR.

The label table is empty (main's way: labels are resolved by the encoder) or
what `aym_bind_label` and the lookups compute: of the labels of a name the last,
if the program has fewer than `BucketRoom` labels, and any of them otherwise,
because the table may then have expanded. A program with an INST_LABEL that has no name is never bound, because
`bind_label` would not survive it. `heap` is the set of blocks allocated and not
freed; write and read leave the machine as it is, since the addresses they are
given are not those of the machine's arrays.

`Init` is a static `AYM` that has been initialised and loaded, its registers and
memory zero. A machine that is used again starts from other states: `AymSession`.

### How `AymSession` corresponds to the code

The first run is `AymVM`'s. main makes each call once and in one order; `ApiCall` and
`SessionNext` are another program that uses `aym.h`. When a run has returned, it may call
`aym_init`, `aym_load_inst_from_mem`, `aym_bind_label` and
`aym_execute_program`, in any order, at most `MaxCalls` times. `aym_init` clears
as many BYTES as the arrays have elements: `Zeroed` is what that does to an array
of words, `Cleared` to the program, whose first instructions become NOPs and of
which one may be cut through. The cut leaves all of the instruction but its type
and the type of its `src` (16 of 40 bytes), and `SessionAssumption` says that
there is such an instruction: 2^20 bytes are 26214 instructions and 16 bytes. Nothing resets the
registers, so that after a HALT the next run begins at the HALT. A load without
`aym_init` leaves the labels of the program before, and a bind adds to them:
`bound` is the programs bound, `Resolved` the tables lookups may then show. `ran`,
`last` and `again` are history.

### How `AymBytecode` corresponds to the code

`BindLabels` is `aym_bind_labels`, `EncodeInst` one turn of the encoder's loop,
`DecodeInst` one turn of the decoder's, `Again` a caller that encodes the same
array once more. `ResolveInst` is one turn of `aym_resolve_labels`, which a caller
may have run before (round 0). `program` is the caller's array, which both
rewrite; `given` remembers it. `CRASH` is `strdup` of an operand that is no string, `EXIT`
the `_exit(1)` of an unresolved label. Allocations do not fail. An INST_LABEL that
carries a name carries it as a label, as `MAKE_LABEL` of `src/make_inst.h` builds
it (`BytecodeAssumption`).

### How `AymLabels` corresponds to the code

A `LabelEntry` is the block of memory it is in, a number; `entry` is the blocks
allocated. `order` is the list the head links (`hh.next`), a bucket's `chain` the
list it links (`hh.hh_next`), and `count`, `expand_mult`, `log2_num_buckets`, `num_items`,
`ideal_chain_maxlen`, `nonideal_items`, `ineff_expands` and `noexpand` are the
fields of that name. A table that is NULL is an empty `order`; the table made
with its first entry is then already there (`EmptyTable`), which no operation
can tell. `bind_label` and a lookup are one step each, but for the two loops that
rebuild or destroy the table: one step for each entry (`ExpandMove`,
`FreeEntry`), so that the properties hold in the middle of them. `NoMemory` is an
allocation that fails: of an entry, which is written to unchecked, or within
uthash, whose `uthash_fatal` ends the process. `Abandon` is a table whose pointer
is overwritten or goes out of scope. `era` is history: an entry remembers the
`log2_num_buckets` of the table it was bound in, and the difference to the
table's own is how often the table has expanded since. The hash function is a
constant, so that names can be made to collide; key pointers, signatures and the
Bloom filter are left out.

### How `AymFiles` corresponds to the code

Several processes run main, `MaxStarts` times in all. A stream reaches the file in
pieces of any length at the process's own offset (`Flush`), a read takes pieces
of any length (`ReadBytes`), and every call may fail. The magic number, version
and header size are one field, `kind`; the header is flushed at once. A process
may die anywhere (`Die`), and what it had not flushed is lost. `Damage` changes a
byte of the file or a field of its header, `MaxErrors` times. main looks at no
status: `loaded` is the load's for the properties' sake, the write's is not kept.
The loaded bytes go to the parameter of the loader and are lost; the size reaches
the caller. `writers` and `seen` are history: the runs that made the file what it
is, and those that made what was read. A program is one that a machine can be loaded with,
2^20 instructions at most, whose checksum therefore does not wrap (`SumsFit`).

## 3. Runs

Words are of 6 bits (an `int` of 5) or of 5, so that every overflow, sign and
boundary value of the width is a few instructions away; a stack of 4 words and a
memory of 2 are filled, emptied and overrun by every prelude. Nothing in the
code depends on the sizes except through these comparisons, and the theorems of
section 4 hold for all of them.

| Run | Instance | Properties | What it shows |
|---|---|---|---|
| `pairs` | 5 preludes, then every pair of about 110 instructions; labels bound or not | `TypeOK`, `ContainmentInv`, `StuckForever`, `LabelJumpsLand` | every opcode, with operands of every type, succeeding, failing and fatal; 396,000 states |
| `forward` | 2 preludes, then every triple of 26 instructions; 8 programs whose machines are used again, 5 calls; `FairSessionSpec` | `SessionTypeOK`, `SessionContainment`, `MemoryStaysZero`, `ForwardTerminates`, `ForwardAdvances`, `RerunRepeats`, `SessionLabels` | longer programs with loops over the stack's limits, those that only move forward end; what a machine keeps from run to run; 227,000 states |
| `compare` | MOV a; CMP b; jump, for every pair of 5-bit words and every jump | `CompareFlagsExact`, `SignedJumpsExact`, `OverflowReadsAsLess`, `UnsignedJumpsBlind` | every comparison and every decision after it |
| `leaf_calls` | main's program, every program of 4 instructions with a subroutine of 3, and longer ones that fill the stack first | `ImplementsCallReturn`, `RetEndsCall`, `OnlyCallOverruns` | CALL and RET are a call and a return for leaf subroutines, as long as two words of the stack are free; 740,000 states |
| `bytecode` | programs of up to 3 instructions, all operand shapes, bytes of 0..63, room for 1 instruction at first | `TypeOK`, `BuffersHold`, `DecodeAligned`, `RoundTrip`, `LabelsEncodeOnce`, `ResolveLosesTargets` | encoding, decoding, truncation, duplicate, missing and many labels, growth of the array, labels resolved beforehand |
| `labels` | 2 names that share a bucket until there are 4, 2 buckets at first, expansion at 3 entries, 9 entries | `TypeOK`, `Fsck`, `DuplicateLookup`, `NothingDangles`, `ImplementsLabelMap`, `EachEntryOnce`, `CallsReturn` | binding, lookup, freeing and abandoning in any order, through several expansions and into `noexpand`; 466,000 states |
| `files` | 2 processes (symmetric), 3 runs of main, 4 blobs, 1 damage | `TypeOK`, `LoadedIsWhole`, `OneErrorNoticed`, `RunsItsOwn` | runs that overlap, die or fail between any two pieces, and a damaged file; 3.2 million states |
| `ret_stack` | caller with one word on its stack | `ReturnDropsLocalsOnly` violated | RET drops the caller's word: `aym.c` 594 against the comment of 593 |
| `push` | PUSH 7 on an empty stack | `PushFindsRoom` violated | underflow is checked where overflow should be: `aym.c` 45 |
| `pop` | two words, POP into a register | `PopTakesOne` violated | two words go: an `else` is missing at `aym.c` 71 |
| `memory` | MOV REG, memory operand | `MemoryOperandReads` violated | `=` for `==` at `aym.c` 639 |
| `logic` | XOR; HALT under fairness | `StraightLineEnds` violated | no `IP++` at `aym.c` 387 |

The properties, in words:

- `ContainmentInv`: a program all of whose instructions are `Contained` (a
  syntactic condition: it writes neither ESP, BP nor IP through an operand,
  addresses memory by immediates below its size, uses the checked form of PUSH,
  no CALL or RET) never leaves the arrays, and only a SYSCALL or a division can
  kill the process, and no division by an immediate that is not -1 or, for MOD, 0
  (`MayDie`); `ESP <= StackSize` is part of it and makes it inductive.
  `SessionContainment` says the same of a machine on which only such programs ran,
  however often: the registers it inherits are still good.
- `StuckForever`: XOR, AND, OR, NOT, LEA, TEST, LOAD and STORE (into general
  registers, of addresses in bounds) and BSWAP, and the
  jumps JG, JL, JGE, JLE, JA, JB, JAE, JBE when not taken, are executed for ever.
- `ForwardTerminates`: a program of instructions that do advance, jumping only
  forward, ends. `ForwardAdvances` says how soon: each turn of the loop uses up one
  at least of the turns that are left (`TurnsLeft`), of which there are never more
  than the program has instructions and one.
- `LabelJumpsLand`: a jump to a label lands on a label of that name, the last one
  while labels are few, or at an address that the next fetch refuses.
  `SessionLabels`: in a machine that is used again the label may be one of another
  program; it is its own last one if its own were the last to be bound and are few.
- `MemoryStaysZero`: STORE never ends, so that memory is all zeros whenever a run
  has returned.
- `RerunRepeats`: a program that has returned by HALT, or with an error of the
  instruction at IP, and is run again with the same labels, `aym_init` and load or
  not, does nothing and returns the same. A POP into IP is the exception, which the
  attempt to prove the property showed: it has jumped when it finds that there is
  no second word to drop, so that the next run begins where it jumped to.
- `CompareFlagsExact` and the three after it: what CMP's flags mean, that the
  signed jumps are right where `src - dst` is a word and all say "less" where it
  is not (SIGN is compared with OVERFLOW as 2 with 8), and that the unsigned jumps
  cannot see an order, CARRY never being set.
- `ImplementsCallReturn`, `RetEndsCall`: in a program whose subroutines call
  nothing and take nothing off the stack, every RET ends a call and resumes after
  it. It is stated for those programs because it is not true of others: RET
  gives ESP the saved BP, so that nested calls lose their outer frame.
  `OnlyCallOverruns`: the one thing that takes such a program out of its arrays is
  a CALL with one word of the stack free, which has checked that one and pushes two.
- `BuffersHold`, `DecodeAligned`: six bytes an instruction are enough, and the
  decoder's array is grown in time; the decoder is always at the start of an
  instruction. `RoundTrip`: exactly what comes back of every instruction: the
  low byte of each operand, the index's for a label, nothing of a label left
  unresolved in `src`, and a `src` that had no `dst` as the `dst`. `LabelsEncodeOnce`: a program with
  labels can be encoded once; the second time `bind_label` is given an index for a
  name, and dies. `ResolveLosesTargets`: after
  `aym_resolve_labels` every target is 0 in the caller's array, whatever its index,
  because `label_name = NULL` shares its union with the index just written. No such
  0 is ever encoded: the process dies when the encoder binds the labels again.
- `Fsck`: uthash's own consistency check, extended to the middle of an expansion.
  `DuplicateLookup`: exactly which of several labels of one name is found: an
  expansion rebuilds the chains in reverse, so that it is the latest of those bound
  an even number of expansions ago, and the oldest of all if there is none. `ImplementsLabelMap`: while fewer than `Threshold` labels
  are bound it is the latest. `NothingDangles`: no freed entry is linked or walked
  to, none is lost but with the pointer to its table. `EachEntryOnce`: the loop that rebuilds the
  chains while it walks them, and the one that frees what it stands on, take each
  entry once. `CallsReturn`: the loops end.
- `LoadedIsWhole`: a load that succeeds has read exactly what was encoded, if only
  runs of one program wrote the file and nothing damaged it. `OneErrorNoticed`: a
  single damage to what one run wrote is noticed, unless it shortens the header's
  size by zeros alone (a program that ends in HALT or RET ends in one). With two
  runs of different programs at once, or two damages, a sum notices neither.
  `RunsItsOwn`: what main decodes is what it encoded, come what may of the file;
  of a file it loaded it takes the size alone.

### Fairness

`FairSpec` is weak fairness of `Next`: `aym_execute_program` is a `while` loop
of a sequential program, and nothing but the end of the process keeps it from
its next turn. A blocking `read` is taken to return. `FairSessionSpec` is weak
fairness of the machine's own steps: a run goes on, but no call need be made.
In `AymLabels` it is weak fairness of the two loops: a call that was made goes on.
`AymFiles` assumes none: its processes may stop anywhere.

### Deadlock

`files` alone turns the check off: its runs of main are bounded, and the system
stops after the last. Elsewhere a machine that has returned and a coder that has
finished stutter explicitly (`Returned`, `Ended`), so that a deadlock would be an
instruction without an outcome. A label table is always ready for a call.

### Bounds

A stack of 4 words, a memory of 1 or 2, five instructions: see above. Five calls
are init, load, bind, run and one more run in any order. Nine labels expand a
table of two buckets with three entries each once when they are spread and again
and again, until `noexpand`, when they are all of one name. Three runs of main
are two that overlap and one that finds what they left; blobs of two bytes can be
torn between header, first and second byte, and the four include a pair with one
sum, one that ends in a zero, and the empty one.

## 4. Proofs

From `WordAssumption` (the table of powers of two is one, and a word can hold
the four flags) and `MachineAssumption` (the sizes fit in a word, label names and
heap addresses are non-null words, programs are sequences of instructions
shorter than a word), for every width, size, set of labels and set of programs:

- `TypeCorrect`: `Spec => []TypeOK`. `TypeOK` is inductive. The work is in the
  arithmetic (every operator of `AymWord` returns a word, and division is only
  evaluated where it does not trap) and in the indexes: an array is read only at
  positions the guards, or the dump of the stack before the fetch, have bounded.
- `StaysContained` and `Contains`: `Spec => []ContainmentInv` and its consequence.
  `Containment` alone is not inductive: SWAP at ESP = StackSize + 5 would leave
  the stack. With `ESP <= StackSize` each instruction keeps the bound by its own
  check. One lemma per family of actions.
- `StuckIsForever`: `Spec => StuckForever`. Each stuck instruction leaves IP, ESP,
  program and halt as they were, so that the next turn fetches it again.
- `ForwardRunsOut`: `Spec => ForwardAdvances`, one lemma per family of the
  instructions that `MovesForward` admits: a turn adds one to IP, or jumps ahead,
  or returns, and no operand of theirs reaches IP. With fairness of `Next` alone,
  that a number cannot fall for ever gives `ForwardTerminates`.
- `CompareFlagsCorrect`, `SignedJumpsCorrect`, `OverflowMisread`, `UnsignedBlind`:
  the four properties of comparisons. The lemma `DifferenceFacts` relates the
  wrapped difference of two words to the difference of the numbers, by the signs
  of the operands; the rest is reading the flags back.
- `SessionTyped`, `SessionStaysContained`, `MemoryIsNeverUsed`: the same for a
  machine with calls between its runs, from `SessionAssumption` too. A step is a
  call or a step of `AymVM`, whose lemmas are cited; containment needs in addition
  that a program which runs is one of `ran`. `MemoryIsNeverUsed` is proved with
  `MemoryInv`: memory is all zeros, or a STORE that can be executed is at IP, and
  then it is there for ever.
- `SessionForwardRunsOut`: `ForwardAdvances` in a machine that is used again, for
  which its registers need not be fresh: a call is made only while no turns are left,
  and the turns of a run are counted from where it begins.
- `JumpsLand`, `SessionJumpsLand`: `LabelJumpsLand` and `SessionLabels`. The
  invariant is that the table is one that the lookups may show (`BoundInv`,
  `SessionBoundInv`): no instruction writes it. `FewAlone` is the step from one
  program's labels being few to those of all programs bound, by a bijection.
- `TablesAreLookups`: the tables of `Resolved` are exactly those whose every answer
  is one that `LabelMap` allows after the calls of `bind_label` that the programs
  bound make (`BoundFrom`: one call for each label, in the order of the programs and
  of the instructions), and a name that no call was made for is not found. That
  the last label is the last call (`LastCall`) is the order; that labels are few when
  calls are is a count over the bijection between them.
- `RerunsRepeat`: `RerunRepeats`. `Fails(i, t, s)` lists, for every opcode, the state
  in which the instruction `i` returns `s` and does nothing else; `FailsBecause`
  shows that a run that returned an error and left IP alone is in such a state
  afterwards, POP included, and `FailsAgain` that a turn in such a state does
  just that. `RerunInv` says that what is remembered in `last` is still such a
  state (`Remembered`), which the calls keep, since they change neither the
  registers nor the zero that a DIV found on the stack; and that a machine which
  has halted is one whose stack can be dumped (`Dumped`), since its HALT may be
  fetched once more after an `aym_init`.

From `LeafAssumption` too (each program is a main part and leaf subroutines):

- `RetsEndCalls`, `CallsAreCalls`, `OnlyCallsOverrun`: `RetEndsCall`, the refinement
  of `CallReturn` step by step, and `OnlyCallOverruns`, for which ESP stays within the
  stack while the machine runs (`RoomInv`). The invariant `CallInv` says which of two
  things the machine is doing. In the main part (`InMain`) there is no pending call and BP is 0; in a
  subroutine (`InSub`) there is one, and its frame, a saved BP of 0 and the address of
  the CALL, is at BP, below ESP and within the stack. It rests on what a contained
  instruction can do to IP, BP and the stack (`Goes`), and, for a subroutine, on
  that one which takes nothing off the stack leaves what is on it (`Grows`).

From `BytecodeAssumption` (a byte holds an opcode, the decoder's first array is not
empty, a name is a pointer that no index equals), for every program, byte and
capacity: the six properties of `AymBytecode`. `DecodeAligned` alone is not inductive: it
says where the decoder is in the bytes written so far, and nothing of what they
are. The invariant `IInv` says where every instruction begins (`Laid`: there is a
function `start`, each instruction's start being the one before and its size, and
its bytes lie there), that what was decoded is what those bytes say (`Read`), and
what has become of each of the caller's instructions (`Turned`: a label operand
is an immediate once its turn of the resolver or the encoder has come, else
nothing has changed). That a function `start` exists is kept by extending it at
each turn, so that nothing has to be computed from the length of the buffer.
`LabelsEncodeOnce` is a conjunct of `IInv`; it needs that a named INST_LABEL has an
operand for `Turned` to speak of.

From `FilesAssumption` and `SumsFit`, for all numbers of processes, runs and damages
and blobs of every length:

- `FilesTyped`, `RunsOwn`, `LoadsWhole`, with one inductive invariant: every run
  still holds its own bytecode, a run that has checked what it read has verified
  its sum, and while nothing is damaged the file and what was read of it are
  mixtures of their writers (`FromWriters`: the header is one writer's, each byte
  is a byte of a writer or a zero nobody has written yet). For `LoadsWhole` the
  writers have one blob; what was read is then nowhere greater than it and of the
  same sum, and `SameSum` makes it equal.
- `NoticesOneError`: in addition (`NInv`) the file is, but for one place at most,
  what its only writer has written so far (`Near`, `Off`), and what a reader has
  is near the same blob at the same place.
- Sums are computed by a recursive function. What is proved of them is induction
  over the length, in a form that takes no operator: a set of natural
  numbers that are counterexamples, if not empty, has a least element (`LeastOne`,
  from `WFMin`), and that one is refuted.

From `LabelsAssumption` (the hash is any function to numbers, the sizes are
positive), for all names, hashes and numbers of bindings:

- `LabelsTyped`, `TableSound`, `NothingIsDangling`: `LInv` is inductive. `Fsck` alone
  is not, for three reasons. It does not say where in an expansion the entries of the old
  buckets are (`Moving`: each still in the bucket of its old hash, so that moving
  the head of a chain moves it to where its new hash says); it does not relate
  the pointers of the loop in `free_label_table` to the list (`Iterating`: they are
  its first two entries); and it does not tell the entries allocated from those
  freed (`EntriesOK`).
- `ChainsSorted`, `FindsDuplicates`: `DuplicateLookup`. The rank of an entry is its
  place in `order`, with a minus sign if the table has expanded an odd number of
  times since it was bound. `DInv` says that in each chain the entries of one name
  are in falling order of their ranks, and it is inductive: a binding is put in front
  and has the highest rank; an expansion turns the signs and, moving from the head
  of an old chain to the head of a new one, the order. In the middle of an expansion
  the new chains are sorted by the ranks to come, and what is still in an old chain
  ranks below what has left it (`Ahead`). A lookup finds the highest rank of
  its name (`LookupIs`), which is what `DuplicateLookup` says in other words.
- `TakesEachOnce`: `EachEntryOnce`. Each turn of an expansion takes one entry out of
  the old chains, as `Moving` has it there in one place only, and each turn of
  `free_label_table` takes the first entry off a list that links none twice.
- `TableIsMap`: every step of the table is one of `LabelMap` or leaves it as it is.
  The map is the list `order` with the names and indices of its entries
  (`Bindings`), and empty while the table is being freed. Most of the work is
  the answer of a lookup: that there is one if the name was bound, since the
  chain of its hash links it (`LInv`), and that it is the latest while
  `Threshold` is not reached. That is `ChainsSorted` where no entry has seen an
  expansion, and `SInv` says that none has while the table is small: a chain cannot
  be longer than the list, which is a pigeonhole argument (`ShorterIs`).

Only model-checked: `ForwardTerminates` and `CallsReturn`, since liveness under
fairness is beyond the prover. What they rest on is proved: that each turn uses up
one of a bounded number, by `ForwardRunsOut` and `TakesEachOnce`. What is left to TLC
is that a turn can be taken and so is. That the properties of the five runs
that expect a violation do not hold is shown by those runs.

## 5. Not modelled, and the plan

Not modelled: the tables of strings in `src/util.c` and `src/inst.c` and all
formatting of dumps and messages; floating point (`as_f64`), which is only
printed; arguments that are NULL; files of 2^32 bytes and more;
`AYM_ERR_INVALID_SIZE`, which the check before it excludes; the 32- and 64-bit
conversions of `src/operand.c`, which have no caller; the hash function, and all of
`src/uthash.h` that `label.c` does not expand.

## 6. Running

In this directory, with the TLA+ tools:

    tlc -config MCPairs.cfg MCPairs        # and the other MC*.cfg
    tlc -config MCPush.cfg MCClaims        # violated, as described above
    tlapm AymVMProofs.tla                  # and the other *Proofs modules
