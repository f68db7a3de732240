----------------------------- MODULE CallReturn -----------------------------
(***************************************************************************)
(* What CALL and RET are for: a program counter and a stack of return      *)
(* addresses.  A call remembers the instruction after it, a return goes    *)
(* back to the one remembered last, and nothing else touches the memory of *)
(* calls.  The program may stop at any time, but not because of a return.  *)
(***************************************************************************)
EXTENDS Integers, Sequences

VARIABLES pc, frames, running

vars == <<pc, frames, running>>

Init == pc = 0 /\ frames = <<>> /\ running = TRUE

\* An instruction that is neither: it goes anywhere.
Local == running /\ running' = TRUE /\ pc' \in Nat /\ UNCHANGED frames

Call ==
  /\ running /\ running' = TRUE
  /\ pc' \in Nat
  /\ frames' = Append(frames, pc + 1)

Return ==
  /\ running /\ running' = TRUE
  /\ frames # <<>>
  /\ pc' = frames[Len(frames)]
  /\ frames' = SubSeq(frames, 1, Len(frames) - 1)

Stop == running /\ running' = FALSE /\ UNCHANGED <<pc, frames>>

Next == Local \/ Call \/ Return \/ Stop

Spec == Init /\ [][Next]_vars
=============================================================================
