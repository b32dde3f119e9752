--------------------------- MODULE LiftedFunction ---------------------------
(***************************************************************************)
(* One lifted instruction after another. Each is lifted for itself, and    *)
(* what connects it to the next is the vector registers: a register is     *)
(* native microcode up to 32 bytes and lies behind __readzmm and           *)
(* __writezmm at 64, and nothing carries a value from one view to the      *)
(* other. A direct call of a function that uses ZMM registers is emitted   *)
(* as a helper call without arguments or result, so what lies behind the   *)
(* helpers is all that caller and callee share.                            *)
(*                                                                         *)
(* An instruction is reduced to its flow: the parts of vector registers    *)
(* that its microcode reads and writes, which is the work of its handler,  *)
(* next to the parts that the instruction consumes and defines. Lifting is *)
(* atomic (Codegen!LiftsAtomically), so a flow is one step. Flows is meant *)
(* to hold every flow with its registers renamed in every way.             *)
(***************************************************************************)
EXTENDS Microcode

CONSTANTS
  Flows,     (* the flows of the instructions that functions may contain   *)
  MaxCalls   (* bound: direct calls of functions that use ZMM registers    *)

(* Parts of registers: a view, a register, a lane.                         *)
Native  == {"v"} \X VecRegs \X {"e", "x", "y"}
Helpers == {"z"} \X VecRegs \X Lanes
Parts   == Native \union Helpers

ASSUME LiftedFunctionAssumption ==
  /\ MaxCalls \in Nat
  /\ Flows \subseteq [reads : SUBSET Parts, writes : SUBSET Parts, consumes : SUBSET Parts,
                      defines : SUBSET Parts, clears : SUBSET (VecRegs \X Lanes), ret : BOOLEAN]

VARIABLES
  holds,    (* the parts with what the processor has in that register      *)
  origin,   (* per register and lane: the view of the destination that     *)
            (* defined it last ("both" at the entry, "none" if it was      *)
            (* cleared), and the run it was defined in                     *)
  run,      (* the running function: 0 the caller, otherwise a callee      *)
  calls,    (* the calls so far                                            *)
  kept,     (* the caller's native parts while a callee runs               *)
  returned  (* the last instruction was the call                           *)

vars == <<holds, origin, run, calls, kept, returned>>

----------------------------------------------------------------------------
(* The flow of instruction i, lifted by plan.                              *)
PartsAt(loc, lanes) == ({loc[1]} \X {loc[2]} \X lanes) \intersect Parts

ReadsOf(i, st) ==
  UNION {PartsAt(RegLoc(i, s.n, s.w), RegLanes(i, s.n, s.w)) :
           s \in {st.src[j] : j \in {k \in DOMAIN st.src : st.src[k].at = "reg"}}}
WritesOf(i, st) ==
  IF st.do = "emit" /\ st.dst.at = "reg"
  THEN PartsAt(DstLoc(i, st.dst), LanesTo(i, st.dst)) ELSE {}

(* The operands that the instruction consumes; the lanes of its            *)
(* destination that it leaves alone.                                       *)
SourceOps(i) ==
  {n \in DOMAIN i.ops :
     /\ IsVec(Op(i, n))
     /\ \/ ~Ordered(i) /\ \E in \in Inputs(i) : in[1] = n
        \/ \E order \in Orders(i) : \E j \in DOMAIN order : order[j] = n
        \/ Ordered(i) /\ Merges(i) /\ n = 1
        \/ ScalarDst(i) /\ n = RestFrom(i) /\ Op(i, n).r # Op(i, 1).r}
Consumes(i, n) == Consumed(i, n) \union (IF ScalarDst(i) /\ n = RestFrom(i) THEN {"x"} ELSE {})
LeftAlone(i) == IF ScalarDst(i) /\ Op(i, RestFrom(i)).r = Op(i, 1).r THEN {"x"} ELSE {}

(* What a handler reads beyond what the instruction consumes is left out,  *)
(* and so are writes of what is there already. A gather clears its mask.   *)
FlowOf(i, plan) ==
  LET before(j) == UNION {WritesOf(i, plan[k]) : k \in 1..(j - 1)}
      consumed  == UNION {PartsAt(Source(i, n), Consumes(i, n)) : n \in SourceOps(i)}
      lanes     == IF IsVec(Op(i, 1)) /\ i.it \notin FlagTests THEN Covers(Width(i), i.es) ELSE {}
  IN  [reads    |-> {x \in UNION {ReadsOf(i, plan[j]) \ before(j) : j \in DOMAIN plan} :
                       \E y \in consumed : x[2] = y[2] /\ x[3] = y[3]},
       writes   |-> {x \in before(Len(plan) + 1) : x[3] \notin LeftAlone(i)},
       consumes |-> consumed,
       defines  |-> PartsAt(Loc(Op(i, 1)), lanes \ LeftAlone(i)),
       clears   |-> (IF lanes = {} THEN {} ELSE {Op(i, 1).r} \X (Lanes \ lanes))
                    \union ({n \in VecRegs : <<"v", n>> \in ClearedMasks(i)} \X Lanes),
       ret      |-> i.ret]

(* A plan that runs to its end, whatever may fail on the way; its flow     *)
(* with other registers, as far as a function is watched in them.          *)
Lifts(plan) == \A j \in 1..Len(plan) : plan[j].do \notin {"INSN", "INTERR"}

Renamed(fl, to, watched) ==
  LET parts(ps) == {<<x[1], to[x[2]], x[3]>> : x \in {y \in ps : to[y[2]] \in watched}}
  IN  [fl EXCEPT !.reads = parts(@), !.writes = parts(@), !.consumes = parts(@),
                 !.defines = parts(@),
                 !.clears = {<<to[c[1]], c[2]>> : c \in {d \in @ : to[d[1]] \in watched}}]

----------------------------------------------------------------------------
(* An instruction leaves right what its microcode wrote; clear_upper emits *)
(* nothing, and the other view learns nothing.                             *)
Changes(fl) == {<<x[2], x[3]>> : x \in fl.defines} \union fl.clears

DefinedAs(fl, c) ==
  IF c \in fl.clears THEN [view |-> "none", by |-> 0]
  ELSE [view |-> (CHOOSE x \in fl.defines : c = <<x[2], x[3]>>)[1], by |-> run]

Execute(fl) ==
  /\ fl.ret => returned
  /\ LET changes == Changes(fl)
     IN  /\ holds' = {h \in holds : <<h[2], h[3]>> \notin changes} \union fl.writes
         /\ origin' = [c \in DOMAIN origin |->
                         IF c \in changes THEN DefinedAs(fl, c) ELSE origin[c]]
  /\ returned' = FALSE
  /\ UNCHANGED <<run, calls, kept>>

CallZmmFunction_BugKeepsHelpers ==
  /\ run = 0 /\ calls < MaxCalls
  /\ calls' = calls + 1
  /\ run' = calls'
  /\ kept' = holds
  /\ holds' = {}
  /\ returned' = FALSE
  /\ UNCHANGED origin

(* handle_zmm_direct_call: the callee is given the type void(void), so no  *)
(* native register is passed. force_voidarg_type stores this type in the   *)
(* database, where it also counts for the callee itself and other callers; *)
(* that is left out, and what follows is about one caller and its calls.   *)
CallZmmFunction ==
  /\ run = 0 /\ calls < MaxCalls
  /\ calls' = calls + 1
  /\ run' = calls'
  /\ kept' = holds \intersect Native
  /\ holds' = holds \intersect Helpers
  /\ returned' = FALSE
  /\ UNCHANGED origin

(* The caller's native registers are what they were, for its microcode:    *)
(* the helper call defines none. What the callee defined is out of date.   *)
ReturnToCaller ==
  /\ run # 0
  /\ run' = 0
  /\ holds' = (holds \intersect Helpers) \union {h \in kept : origin[<<h[2], h[3]>>].by # run}
  /\ kept' = {}
  /\ returned' = TRUE
  /\ UNCHANGED <<origin, calls>>

(* At the entry of the caller both views are right.                        *)
Init ==
  /\ holds = Parts
  /\ origin = [c \in VecRegs \X Lanes |-> [view |-> "both", by |-> 0]]
  /\ run = 0
  /\ calls = 0
  /\ kept = {}
  /\ returned = FALSE

Next ==
  \/ \E fl \in Flows : Execute(fl)
  \/ CallZmmFunction
  \/ ReturnToCaller

Spec == Init /\ [][Next]_vars

----------------------------------------------------------------------------
TypeOK ==
  /\ holds \subseteq Parts
  /\ origin \in [VecRegs \X Lanes -> [view : {"v", "z", "both", "none"}, by : 0..MaxCalls]]
  /\ run \in 0..calls
  /\ calls \in 0..MaxCalls
  /\ kept \subseteq Native
  /\ returned \in BOOLEAN

(* A part crosses when it was last defined through the other view, was     *)
(* cleared by an instruction with a narrower destination or as the mask of *)
(* a gather, or was defined natively on the other side of a call.          *)
Crossed(x) ==
  LET o == origin[<<x[2], x[3]>>]
  IN  o.view \notin {x[1], "both"} \/ (x[1] = "v" /\ o.by # run)

(* Microcode keeps to the views of its instruction's operands: it reads no *)
(* part of a register that the instruction does not consume, and writes    *)
(* every part that it defines, through one view.                           *)
Honours(fl) ==
  /\ fl.reads \subseteq fl.consumes
  /\ fl.defines \subseteq fl.writes
  /\ \A x, y \in fl.defines : x[2] = y[2] /\ x[3] = y[3] => x = y
  /\ \A x \in fl.defines : <<x[2], x[3]>> \notin fl.clears

(* Whichever instruction comes next, its handler keeps to the views: what  *)
(* emit_zmm_write_call and the native writes promise to what comes later.  *)
NextHonoursViews == \A fl \in Flows : (fl.ret => returned) => Honours(fl)

(* "ZMM register modeling: direct ZMM register operands ... and            *)
(* cross-function ZMM state": whatever a function and its callees have     *)
(* executed, in whatever registers, the microcode of the next instruction  *)
(* reads what the last instruction that defined an operand has put there,  *)
(* except for what has crossed. A handler that reads or writes through the *)
(* wrong view, or leaves a part of its destination unwritten, breaks this  *)
(* for some instruction after it, and every handler of the lifter is among *)
(* those that may come after it.                                           *)
CurrentUnlessCrossed ==
  \A fl \in Flows : (fl.ret => returned) =>
    \A x \in fl.reads :
      x \in holds \/ \E y \in fl.consumes : y[2] = x[2] /\ y[3] = x[3] /\ Crossed(y)
=============================================================================
