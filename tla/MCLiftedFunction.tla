-------------------------- MODULE MCLiftedFunction --------------------------
(* The flows of all instructions that Codegen_lift shows to be lifted      *)
(* right, and of those that only fail to clear something, from the plans   *)
(* of their handlers.                                                      *)
EXTENDS LiftedFunction, MCForms

(* All forms keep to what the encodings guarantee.                         *)
FlowInsns == AvxInsns \union Admitted(Uncleared)
ASSUME DecodedForms == \A i \in FlowInsns : Decoded(i)

(* Which registers an instruction names is free, up to coincidences. Two   *)
(* are watched: registers do not influence each other's views.             *)
Watched == 1..2

(* Forms that differ in nothing that the flow shows are one. (LET keeps    *)
(* TLC's coverage statistics out of the handlers.)                         *)
FlowsOf(insns) == {FlowOf(i, apply(i)) : i \in {j \in insns : Lifts(apply(j))}}
RenamedFlows ==
  {Renamed(fl, to, Watched) : fl \in FlowsOf(FlowInsns), to \in Permutations(VecRegs)}
MCFlows == LET flows == RenamedFlows IN flows
=============================================================================
