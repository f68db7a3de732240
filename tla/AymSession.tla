----------------------------- MODULE AymSession -----------------------------
(***************************************************************************)
(* A machine that is used more than once: between two runs of AymVM the    *)
(* program that holds it may call aym_init, aym_load_inst_from_mem and     *)
(* aym_bind_label in any order.  The first run is that of AymVM.  None of  *)
(* these calls, nor aym_execute_program, resets the registers; only        *)
(* aym_init resets halt and the labels.                                    *)
(***************************************************************************)
EXTENDS AymVMProps

CONSTANTS
  WordBytes,       \* sizeof(Word), 8
  InstBytes,       \* sizeof(Inst), 40
  MaxProgramSize,  \* AYM_MAX_PROGRAM_SIZE
  Reused,          \* the programs whose machines are used again, and that they load
  MaxCalls         \* bound on the calls after the first run

ASSUME SessionAssumption ==
  /\ WordBytes \in Nat \ {0} /\ InstBytes \in Nat \ {0}
  /\ MaxProgramSize \in Nat /\ MaxProgramSize % InstBytes > 0
  /\ Reused \subseteq Programs
  /\ MaxCalls \in Nat

VARIABLES
  calls,  \* made since the first run
  bound,  \* the programs aym_bind_label was called on since aym_init
  ran,    \* history: the programs executed
  last,   \* history: the last run that returned, if its last instruction would
          \* return once more
  again   \* history: this run is of that same program with the same labels

sessionVars == <<vars, calls, bound, ran, last, again>>

None == [program |-> <<>>, label_table |-> <<>>, status |-> "CRASH"]

-----------------------------------------------------------------------------
(* The calls                                                                 *)

\* Each memset is given the number of elements, and clears as many bytes.
\* Mutant: all the elements, and one more.
Zeroed_Mutant(a, size) == [i \in 0 .. size |-> 0]
Zeroed(a, size) == [i \in DOMAIN a |-> IF i < size \div WordBytes THEN 0 ELSE a[i]]

\* Here too the number of elements is taken for bytes; of the instruction cut
\* through, the 16 bytes cleared are type and src.type.
Cleared(p) ==
  LET whole == MaxProgramSize \div InstBytes
      none == [type |-> "NONE", val |-> 0]
  IN [k \in DOMAIN p |->
        CASE k <= whole -> [type |-> "NOP", dst |-> none, src |-> none]
          [] k = whole + 1 -> [type |-> "NOP", dst |-> p[k].dst,
                               src |-> [p[k].src EXCEPT !.type = "NONE"]]
          [] OTHER -> p[k]]

\* Mutant: the registers are reset.
InitRegs_Mutant == [k \in RegIds |-> 0]
InitRegs == regs

aym_init ==
  /\ halt' = FALSE
  /\ label_table' = <<>> /\ bound' = <<>>
  /\ stack' = Zeroed(stack, StackSize) /\ memory' = Zeroed(memory, MemorySize)
  /\ program' = Cleared(program)
  /\ regs' = InitRegs
  /\ UNCHANGED <<heap, status, ran, again>>

\* AYM_ERR_PROGRAM_TOO_LARGE leaves the machine as it is.
aym_load_inst_from_mem(p) ==
  /\ program' = IF Len(p) = 0 \/ Len(p) > MaxProgramSize THEN program ELSE p
  /\ UNCHANGED <<label_table, bound, stack, regs, memory, halt, heap, status, ran, again>>

\* aym_bind_label adds to the table whatever is in it.
\* Mutant: what is in it already prevails.
Newer_Mutant(j, i) == j <= i
Newer(j, i) == j >= i
AllNames(ps) == UNION {BoundNames(ps[j]) : j \in DOMAIN ps}
FewIn(ps) ==
  Cardinality(UNION {{j} \X {i \in DOMAIN ps[j] : ps[j][i].type = "LABEL"} : j \in DOMAIN ps})
    < BucketRoom
Resolved(ps) ==
  {t \in [AllNames(ps) -> 1 .. WordSize - 1] :
     \A n \in AllNames(ps) :
       \E j \in DOMAIN ps :
         /\ t[n] \in DOMAIN ps[j] /\ Binds(ps[j], t[n], n)
         /\ FewIn(ps) =>
              /\ \A i \in DOMAIN ps[j] : Binds(ps[j], i, n) => i <= t[n]
              /\ \A i \in DOMAIN ps : n \in BoundNames(ps[i]) => Newer(j, i)}

aym_bind_label ==
  /\ IF AllNamed(program)
     THEN /\ bound' = Append(bound, program)
          /\ label_table' \in Resolved(bound')
          /\ UNCHANGED status
     ELSE status' = "CRASH" /\ UNCHANGED <<bound, label_table>>
  /\ UNCHANGED <<program, stack, regs, memory, halt, heap, ran, again>>

aym_execute_program ==
  /\ status' = "RUNNING"
  /\ ran' = ran \cup {program}
  /\ again' = (last # None /\ last.program = program /\ last.label_table = label_table)
  /\ UNCHANGED <<program, label_table, bound, stack, regs, memory, halt, heap>>

Idle == status \in {"ERR_OK"} \cup Errors

ApiCall ==
  /\ Idle /\ calls < MaxCalls /\ (calls > 0 \/ program \in Reused)
  /\ calls' = calls + 1
  /\ \/ aym_init \/ aym_bind_label \/ aym_execute_program
     \/ \E p \in Reused : aym_load_inst_from_mem(p)
  /\ UNCHANGED last

-----------------------------------------------------------------------------

\* A run that returned an error, or ERR_OK because of the HALT at IP (EXIT steps
\* over its SYSCALL), and left IP there: a POP into IP has jumped when it fails.
EndsHere ==
  /\ status' \in Errors \/ (status' = "ERR_OK" /\ Ip < Len(program) /\ Inst.type = "HALT")
  /\ regs'[REG_IP] = Ip

Machine ==
  /\ Next
  /\ last' = IF status = "RUNNING" /\ status' # "RUNNING"
             THEN IF EndsHere
                  THEN [program |-> program, label_table |-> label_table, status |-> status']
                  ELSE None
             ELSE last
  /\ UNCHANGED <<calls, bound, ran, again>>

SessionInit ==
  /\ Init /\ Len(program) <= MaxProgramSize
  /\ calls = 0 /\ bound = IF label_table = <<>> THEN <<>> ELSE <<program>>
  /\ ran = {program} /\ last = None /\ again = FALSE

SessionNext == ApiCall \/ Machine

SessionSpec == SessionInit /\ [][SessionNext]_sessionVars

\* A run goes on; no call need be made.
FairSessionSpec == SessionSpec /\ WF_sessionVars(Machine)

-----------------------------------------------------------------------------

\* Types of the state: those of the machine, whatever calls were made.
SessionTypeOK ==
  /\ TypeOK
  /\ calls \in 0 .. MaxCalls
  /\ \A j \in DOMAIN bound : bound[j] \in Seq(Instructions) /\ Len(bound[j]) < WordSize
  /\ bound \in Seq(Seq(Instructions)) /\ ran \subseteq Seq(Instructions)
  /\ again \in BOOLEAN

RanContained == \A p \in ran : \A k \in DOMAIN p : Contained(p[k])

\* A machine on which only contained programs have run, however often it was
\* used and although aym_init leaves it the registers of the last run, indexes
\* nothing out of bounds, and dies of a division, of a SYSCALL_FREE, or of
\* binding a label that has no name.
SessionContainment ==
  RanContained =>
    /\ Esp <= StackSize
    /\ status # "WILD"
    /\ status = "CRASH" => MayDie \/ ~AllNamed(program)

\* aym_init does not make a machine new: a program that has returned, by HALT or
\* with an error of the instruction at IP, and is run again with the same labels
\* does nothing and returns the same, whether or not it was initialised and
\* loaded again.
RerunRepeats ==
  [][again /\ status = "RUNNING" =>
       /\ UNCHANGED <<regs, stack, memory, heap>>
       /\ status' \in {"RUNNING", last.status}]_sessionVars

\* STORE never ends, so that memory is all zeros but while one executes: no run
\* that returns, of however many, has written to it.
MemoryStaysZero == (\E a \in DOMAIN memory : memory[a] # 0) => At("STORE")

\* A jump to a label that is bound lands on a label of that name in some program
\* bound since aym_init, not necessarily the one that runs.  If that is the one
\* bound last, and labels are few, it lands on its last label of that name.
SessionLabels ==
  [][(LabelJump /\ regs' # regs /\ dst.val \in AllNames(bound)) =>
       LET to == regs'[REG_IP] + 1 IN
       /\ \E j \in DOMAIN bound : to \in DOMAIN bound[j] /\ Binds(bound[j], to, dst.val)
       /\ (bound[Len(bound)] = program /\ dst.val \in BoundNames(program) /\ FewIn(bound)) =>
            /\ to \in DOMAIN program /\ Binds(program, to, dst.val)
            /\ \A i \in DOMAIN program : Binds(program, i, dst.val) => i <= to]_sessionVars
=============================================================================
