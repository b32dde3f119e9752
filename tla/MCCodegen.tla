----------------------------- MODULE MCCodegen -----------------------------
(* Instances of Codegen for TLC.                                           *)
EXTENDS Codegen, MCForms

(* Each instruction is offered to both filters, and the one that matches   *)
(* it lifts it. (@@ has TLC evaluate every plan once, not at every use;    *)
(* LET keeps TLC's coverage statistics out of the handlers.)               *)
Plans == [i \in Insns |-> IF i.it \in VmxInsns THEN vmx_apply(i) ELSE apply(i)] @@ <<>>
MCPlan == LET plans == Plans IN plans

(* The forms of the runs are ones that can be encoded.                     *)
ASSUME FormsEncodable == \A i \in Insns : Encodable(i)

(* And those of 64-bit binaries have operands as the encodings guarantee.  *)
ASSUME FormsSized == \A i \in Insns : i.b64 => Decoded(i) /\ Sized(i)

SlotSymmetry == Permutations(Slots)
=============================================================================
