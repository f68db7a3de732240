---------------------------- MODULE AymLeafCalls ----------------------------
(***************************************************************************)
(* Programs whose subroutines call nothing and take nothing off the stack, *)
(* such as the one in main.c: for them, CALL and RET do what CallReturn    *)
(* promises, provided the stack does not run out.                          *)
(***************************************************************************)
EXTENDS AymCalls

ASSUME LeafAssumption == \A p \in Programs : LeafProgram(p)

\* What an abstract machine of calls would remember of them, and whether it runs.
Returns == [k \in DOMAIN frames |-> frames[k].ret]
Runs == status = "RUNNING"

Abstract == INSTANCE CallReturn WITH pc <- Ip, frames <- Returns, running <- Runs

\* In such a program every RET that ends a call resumes the instruction after
\* that call.
ImplementsCallReturn == Abstract!Spec

\* And a RET always ends a call: it is never executed without one, and it never
\* fails or reads its frame outside the stack.
RetEndsCall == [][At("RET") => Leaves]_<<vars, frames>>

\* The one thing that takes such a program out of the machine's arrays is a CALL
\* with one word of the stack free: it has made sure of that word, and pushes two.
OnlyCallOverruns ==
  [][status' = "WILD" /\ status # "WILD" => At("CALL") /\ Esp + 1 = StackSize]_<<vars, frames>>
=============================================================================
