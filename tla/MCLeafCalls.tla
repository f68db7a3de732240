----------------------------- MODULE MCLeafCalls -----------------------------
(***************************************************************************)
(* The program of main.c, and every program of a main part of four         *)
(* instructions and a subroutine of three out of the sets below: calls     *)
(* from an empty and from a used stack, loops over calls, locals pushed by *)
(* the subroutine, and a stack of four words that such calls run out of.   *)
(* The last programs call with one word of it left.                        *)
(***************************************************************************)
EXTENDS AymLeafCalls, MCCode

MCPow2 == [i \in 0 .. WordBits |-> 2 ^ i]
MCHeapAddrs == {40}

Main == {Op1("PUSH", Imm(0)), Op1("POP", Nothing), Op1("INC", Reg(2)),
         Op2("MOV", Reg(REG_0), Imm(3)), Op1("JNE", Imm(0)), Op1("CALL", Imm(4)),
         Op1("CALL", Imm(5))}
MainEnd == {Op0("HALT"), Op1("JMP", Imm(1))}
Sub == {Op1("PUSH", Imm(0)), Op1("DUP", Imm(0)), Op0("SYSCALL"), Op2("MOD", Reg(2), Imm(3)),
        Op1("JE", Imm(6)), Op2("CMP", Reg(2), Imm(2)), Op0("RET")}

MCPrograms ==
  {Demo} \cup {<<a, b, c, d, e, f, Op0("RET")>> :
                 a \in Main, b \in Main, c \in Main, d \in MainEnd, e \in Sub, f \in Sub}
  \cup {<<Op1("PUSH", Imm(0)), Op1("PUSH", Imm(0)), Op1("PUSH", Imm(0)), a, Op0("HALT"),
          e, Op0("RET")>> : a \in {Op1("CALL", Imm(5)), Op1("POP", Nothing)}, e \in Sub}
=============================================================================
