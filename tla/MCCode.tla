------------------------------- MODULE MCCode -------------------------------
(***************************************************************************)
(* Constructors for the instructions of the checked programs, as the       *)
(* macros of make_inst.h build them.                                       *)
(***************************************************************************)
EXTENDS Integers

Nothing == [type |-> "NONE", val |-> 0]
Imm(w) == [type |-> "IMM", val |-> w]
Reg(k) == [type |-> "REG", val |-> k]
Mem(a) == [type |-> "MEM", val |-> a]
Label(n) == [type |-> "LABEL", val |-> n]

Op0(op) == [type |-> op, dst |-> Nothing, src |-> Nothing]
Op1(op, d) == [type |-> op, dst |-> d, src |-> Nothing]
Op2(op, d, s) == [type |-> op, dst |-> d, src |-> s]

\* The program of main.c, its labels resolved to the positions 0 and 6.
Demo ==
  <<Op1("LABEL", Imm(0)), Op1("CALL", Imm(6)), Op2("ADD", Reg(5), Imm(1)),
    Op2("CMP", Reg(5), Imm(5)), Op1("JNE", Imm(0)), Op0("HALT"),
    Op1("LABEL", Imm(6)), Op2("MOV", Reg(1), Imm(1)), Op2("MOV", Reg(2), Imm(1)),
    Op2("MOV", Reg(3), Imm(44)), Op2("MOV", Reg(4), Imm(11)), Op0("SYSCALL"), Op0("RET")>>
=============================================================================
