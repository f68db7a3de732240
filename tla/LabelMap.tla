------------------------------ MODULE LabelMap ------------------------------
(***************************************************************************)
(* What the assembler and the machine may expect of a label table: names   *)
(* are bound to indices, a lookup answers with an index the name was bound *)
(* to, and clearing forgets everything.  While fewer than Exact bindings   *)
(* are held the answer is the latest one; beyond that nothing is promised  *)
(* of which of a name's bindings is found.                                 *)
(***************************************************************************)
EXTENDS Integers, Sequences

CONSTANTS Names, Exact

VARIABLES
  bindings,  \* the bindings held, oldest first
  answer     \* what the last call answered, <<>> for nothing

vars == <<bindings, answer>>

NotFound == -1

Init == bindings = <<>> /\ answer = <<>>

Bind ==
  /\ Len(bindings') = Len(bindings) + 1
  /\ bindings' = Append(bindings, bindings'[Len(bindings')])
  /\ bindings'[Len(bindings')] \in [name : Names, index : Nat]
  /\ answer' = <<>>

\* The indices that a lookup of n may answer with when bs is bound.
Of(bs, n) == {k \in DOMAIN bs : bs[k].name = n}
MayFind(bs, n, k) == k \in Of(bs, n) /\ (Len(bs) < Exact => \A j \in Of(bs, n) : j <= k)
Answers(bs, n) ==
  IF Of(bs, n) = {} THEN {NotFound}
  ELSE {bs[k].index : k \in {k \in DOMAIN bs : MayFind(bs, n, k)}}

Lookup(n) == (\E i \in Answers(bindings, n) : answer' = <<i>>) /\ UNCHANGED bindings

Clear == bindings' = <<>> /\ answer' = <<>>

Next == Bind \/ (\E n \in Names : Lookup(n)) \/ Clear

Spec == Init /\ [][Next]_vars
=============================================================================
