----------------------------- MODULE AtomicLift -----------------------------
(***************************************************************************)
(* What Hex-Rays relies on when it gives an instruction to a microcode     *)
(* filter: lifting is one step. Either the filter declines, and nothing at *)
(* all has happened, or it has replaced the instruction by microcode that  *)
(* does what the instruction promises.                                     *)
(***************************************************************************)
CONSTANTS
  Insns,
  NoInsn,
  Start,          (* the architectural state an instruction starts from    *)
  Promise(_, _)   (* Promise(i, s): s is a right outcome of i from Start   *)

VARIABLES
  insn,     (* the instruction given to the filter, or NoInsn              *)
  outcome,  (* "idle", "none" while the filter works, "OK" or "INSN"       *)
  visible   (* the effect of the microcode that Hex-Rays keeps             *)

Init ==
  /\ insn = NoInsn
  /\ outcome = "idle"
  /\ visible = Start

Offer ==
  /\ outcome = "idle"
  /\ insn' \in Insns
  /\ outcome' = "none"
  /\ UNCHANGED visible

Decline ==
  /\ outcome = "none"
  /\ outcome' = "INSN"
  /\ UNCHANGED <<insn, visible>>

Commit ==
  /\ outcome = "none"
  /\ outcome' = "OK"
  /\ Promise(insn, visible')
  /\ UNCHANGED insn

Leave ==
  /\ outcome \in {"OK", "INSN"}
  /\ insn' = NoInsn
  /\ outcome' = "idle"
  /\ visible' = Start

Next ==
  \/ Offer
  \/ Decline
  \/ Commit
  \/ Leave

Spec == Init /\ [][Next]_<<insn, outcome, visible>>
=============================================================================
