------------------------------ MODULE AymCalls ------------------------------
(***************************************************************************)
(* The machine of AymVM with its calls remembered beside it: frames is the *)
(* sequence of the calls that no RET has ended yet, each with the address  *)
(* to return to and the ESP and BP it found.  frames is a history variable *)
(* and constrains nothing; the machine itself keeps its frames on a stack  *)
(* that every other instruction writes too.                                *)
(***************************************************************************)
EXTENDS AymVMProps

VARIABLE frames

Pending == [ret : Nat, esp : Word, bp : Word]
Last(s) == s[Len(s)]

Enters == At("CALL") /\ status' = "RUNNING"
Leaves == At("RET") /\ status' = "RUNNING" /\ frames # <<>>

CallsInit == Init /\ frames = <<>>

CallsNext ==
  /\ Next
  /\ Enters => frames' = Append(frames, [ret |-> Ip + 1, esp |-> Esp, bp |-> regs[REG_BP]])
  /\ Leaves => frames' = SubSeq(frames, 1, Len(frames) - 1)
  /\ ~Enters /\ ~Leaves => UNCHANGED frames

CallsSpec == CallsInit /\ [][CallsNext]_<<vars, frames>>

-----------------------------------------------------------------------------

\* "Deallocating local variables" (aym.c, RET): a return leaves the caller the
\* stack it had at the call.
ReturnDropsLocalsOnly ==
  [][Leaves => regs'[REG_ESP] = Last(frames).esp]_<<vars, frames>>

-----------------------------------------------------------------------------
(* Programs with leaf subroutines.  m separates the main program, at         *)
(* 0 .. m-1, from the subroutines after it.                                  *)

Target(i) == i.dst.val
IsJump(i) == i.type \in CondJumps \cup {"JMP"}

\* An instruction of the main program: contained, jumping within the main
\* program, or calling a subroutine.
MainInst(p, k, m) ==
  LET i == p[k + 1] IN
  \/ Contained(i) /\ (IsJump(i) => i.dst.type = "IMM" /\ Target(i) < m)
  \/ i.type = "CALL" /\ i.dst.type = "IMM" /\ Target(i) >= m

\* An instruction of a subroutine: contained, taking nothing off the stack, not
\* calling, and jumping within the subroutines.
SubInst(p, k, m) ==
  LET i == p[k + 1] IN
  \/ i.type = "RET"
  \/ /\ Contained(i)
     /\ i.type \notin {"POP", "SWAP", "PLUS"}
     /\ i.type \in ArithOps \cup RotateOps => Field(i.dst) # 0
     /\ IsJump(i) => i.dst.type = "IMM" /\ Target(i) >= m

\* The main program cannot run into the subroutines other than by a CALL.
LeafProgram(p) ==
  \E m \in 1 .. Len(p) :
    /\ p[m].type \in {"HALT", "JMP"}
    /\ \A k \in 0 .. m - 1 : MainInst(p, k, m)
    /\ \A k \in m .. Len(p) - 1 : SubInst(p, k, m)
=============================================================================
