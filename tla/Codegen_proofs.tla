--------------------------- MODULE Codegen_proofs ---------------------------
(* Proofs about Codegen, for every set of instructions, every plan that    *)
(* ends in a return, and every number of kregs.                            *)
EXTENDS Codegen, FiniteSetTheorems, WellFoundedInduction, TLAPS

(* A step that is not a return has a successor in its plan, whether the    *)
(* next step runs or the ones that a failed helper leaves out are skipped. *)
GoesOn == Advance \/ Skip(Plan[insn][pc].skip)

(* A step that is not an end has a successor in its plan.                  *)
LEMMA SuccessorExists ==
  ASSUME TypeOK, result = "none", Plan[insn][pc].do \notin Final, GoesOn
  PROVE  result' = "none" /\ pc' \in 1..Len(Plan[insn]) /\ pc < pc'
<1>1. insn \in Insns /\ pc \in 1..Len(Plan[insn])
  BY DEF TypeOK
<1>2. Len(Plan[insn]) \in Nat
  BY <1>1, CodegenAssumption
<1>3. Plan[insn][pc].skip \in Nat /\ pc + Plan[insn][pc].skip < Len(Plan[insn])
  BY <1>1, CodegenAssumption
<1>4. result' = "none" /\ (pc' = pc + 1 \/ pc' = pc + 1 + Plan[insn][pc].skip)
  BY <1>1, SMT DEF GoesOn, Advance, Skip
<1> QED BY <1>1, <1>2, <1>3, <1>4, SMT

(* What is malformed of a step is one of the known malformations.          *)
LEMMA MalformedBounded ==
  /\ \A st : Malformed(st) \subseteq Malformations
  /\ \A s : Unsupported(s) \subseteq Malformations
BY DEF Malformed, Unsupported, Malformations

(* TypeOK is inductive by itself.                                          *)
THEOREM TypeCorrect == Spec => []TypeOK
<1>1. Init => TypeOK
  <2> SUFFICES ASSUME Init PROVE TypeOK
    OBVIOUS
  <2>1. DOMAIN arch = Locs /\ \A loc \in Locs : DOMAIN arch[loc] = Lanes
    BY DEF Init, OldArch, OldVal
  <2>2. DOMAIN slots = Slots /\ \A s \in Slots : slots[s].used \in BOOLEAN
    BY DEF Init, Stale, Kreg
  <2>3. env \in [Vars -> Slots \union {NoSlot}]
    BY DEF Init
  <2> QED BY <2>1, <2>2, <2>3 DEF Init, TypeOK
<1>2. TypeOK /\ [Next]_vars => TypeOK'
  <2> SUFFICES ASSUME TypeOK, [Next]_vars PROVE TypeOK'
    OBVIOUS
  <2> USE DEF TypeOK
  <2>1. ASSUME NEW v \in Vars, NEW s \in Slots, NEW def, NEW val, Bind(v, s, def, val)
        PROVE  /\ DOMAIN slots' = Slots /\ \A t \in Slots : slots'[t].used \in BOOLEAN
               /\ env' \in [Vars -> Slots \union {NoSlot}]
    BY <2>1 DEF Bind, Kreg
  <2>2. ASSUME NEW st, GiveUp(st)
        PROVE  /\ result' = "INSN" /\ pc' = pc /\ env' = env
               /\ DOMAIN slots' = Slots /\ \A t \in Slots : slots'[t].used \in BOOLEAN
    BY <2>2 DEF GiveUp, Freed, Kreg
  <2>3. ASSUME Running("load") \/ Running("addr") \/ Running("alloc") \/ Running("widen")
        PROVE  Plan[insn][pc].v \in Vars
    BY <2>3, CodegenAssumption DEF Running, HasOperands
  <2>4. ASSUME Running("load") \/ Running("addr") \/ Running("alloc")
               \/ Running("widen") \/ Running("free") \/ Running("store") \/ Running("emit"),
               insn' = insn, GoesOn
        PROVE  /\ result' \in Final \union {"none", "idle"}
               /\ IF result' = "idle" THEN insn' = NoInsn /\ pc' = 1
                  ELSE insn' \in Insns /\ pc' \in 1..Len(Plan[insn'])
    <3>1. result = "none" /\ Plan[insn][pc].do \notin Final
      BY <2>4 DEF Running, Final
    <3> QED BY <2>4, <3>1, SuccessorExists
  <2>5. /\ \A st : Malformed(st) \subseteq Malformations
        /\ \A s : Unsupported(s) \subseteq Malformations
    BY MalformedBounded
  <2>6. CASE Load
    <3>1. Plan[insn][pc].v \in Vars
      BY <2>6, <2>3 DEF Load
    <3> QED BY <2>6, <2>1, <2>2, <2>4, <2>5, <3>1 DEF Load, Final, Running, FreeSlots, GoesOn
  <2>7. CASE LoadAddress
    <3>1. Plan[insn][pc].v \in Vars
      BY <2>7, <2>3 DEF LoadAddress
    <3> QED BY <2>7, <2>1, <2>2, <2>4, <3>1 DEF LoadAddress, Final, Running, FreeSlots, GoesOn
  <2>8. CASE AllocKreg
    <3>1. Plan[insn][pc].v \in Vars
      BY <2>8, <2>3 DEF AllocKreg
    <3> QED BY <2>8, <2>1, <2>2, <2>4, <3>1 DEF AllocKreg, Final, Running, FreeSlots, GoesOn
  <2>9. CASE FreeKreg
    BY <2>9, <2>4 DEF FreeKreg, Freed, Kreg, GoesOn
  <2>10. CASE StoreOperand
    <3>1. DOMAIN arch' = Locs /\ \A loc \in Locs : DOMAIN arch'[loc] = Lanes
      BY <2>10 DEF StoreOperand, Overlay
    <3>2. bad' \subseteq Malformations
      BY <2>10, <2>5 DEF StoreOperand
    <3> QED BY <2>10, <2>2, <2>4, <3>1, <3>2 DEF StoreOperand, Final, Running, GoesOn
  <2>11. CASE EmitToKreg
    <3>1. bad' \subseteq Malformations
      BY <2>11, <2>5 DEF EmitToKreg, Malformations
    <3>2. DOMAIN slots' = Slots /\ \A t \in Slots : slots'[t].used \in BOOLEAN
      BY <2>11 DEF EmitToKreg, Kreg
    <3> QED BY <2>11, <2>4, <3>1, <3>2 DEF EmitToKreg, GoesOn
  <2>12. CASE EmitToArch
    <3>1. bad' \subseteq Malformations
      BY <2>12, <2>5 DEF EmitToArch
    <3>2. DOMAIN arch' = Locs /\ \A loc \in Locs : DOMAIN arch'[loc] = Lanes
      BY <2>12 DEF EmitToArch, Overlay
    <3> QED BY <2>12, <2>4, <3>1, <3>2 DEF EmitToArch, GoesOn
  <2>13. CASE Return
    BY <2>13 DEF Return, Final
  <2>14. CASE Leave \/ NextFunction
    <3>1. Idle
      BY <2>14 DEF Leave, NextFunction
    <3>2. DOMAIN arch' = Locs /\ \A loc \in Locs : DOMAIN arch'[loc] = Lanes
      BY <3>1 DEF Idle, OldArch, OldVal
    <3>3. DOMAIN slots' = Slots /\ \A s \in Slots : slots'[s].used \in BOOLEAN
      <4>1. CASE Leave
        BY <4>1 DEF Leave, Stale, Kreg
      <4>2. CASE NextFunction
        BY <4>2 DEF NextFunction, Stale, Kreg
      <4> QED BY <2>14, <4>1, <4>2
    <3>4. env' \in [Vars -> Slots \union {NoSlot}]
      BY <3>1 DEF Idle
    <3> QED BY <3>1, <3>2, <3>3, <3>4 DEF Idle
  <2>15. CASE Begin
    BY <2>15, CodegenAssumption DEF Begin
  <2>16. CASE UNCHANGED vars
    BY <2>16 DEF vars
  <2>17. CASE Widen
    <3>1. Plan[insn][pc].v \in Vars
      BY <2>17, <2>3 DEF Widen
    <3>2. bad' \subseteq Malformations
      BY <2>17, <2>5 DEF Widen
    <3>3. PICK u \in Vars : Plan[insn][pc].v = u
      BY <3>1
    <3>4. CASE \E s \in FreeSlots : Bind(Plan[insn][pc].v, s, Plan[insn][pc].w, Computes(Plan[insn][pc]))
      BY <2>17, <2>1, <2>4, <3>1, <3>2, <3>4 DEF Widen, FreeSlots, GoesOn
    <3>5. CASE slots' = slots /\ env' = [env EXCEPT ![u] = env[Plan[insn][pc].src[1].v]]
      <4>1. Plan[insn][pc].src[1].v \in Vars
        BY <2>17, CodegenAssumption DEF Widen, Running, HasOperands
      <4> QED BY <2>17, <2>4, <3>2, <3>5, <4>1 DEF Widen, GoesOn
    <3> QED BY <2>17, <3>3, <3>4, <3>5 DEF Widen
  <2> QED BY <2>6, <2>7, <2>8, <2>9, <2>10, <2>11, <2>12, <2>13, <2>14, <2>15, <2>16, <2>17 DEF Next
<1> QED BY <1>1, <1>2, PTL DEF Spec

----------------------------------------------------------------------------
(* All or nothing.                                                         *)
(*                                                                         *)
(* AllOrNothing is not inductive: that arch is untouched when a handler    *)
(* gives up depends on what it did before. The strengthening relates arch  *)
(* to the steps already taken; the discipline of the plans then rules out  *)
(* a write before any step that may still decline.                         *)
Touched ==
  /\ result \in {"idle", "INSN"} => arch = OldArch
  /\ result = "none" /\ arch # OldArch =>
       \E j \in 1..Len(Plan[insn]) : j < pc /\ WritesArch(Plan[insn][j])

(* Under the discipline, a step that may decline still finds arch as it    *)
(* was.                                                                    *)
LEMMA DeclinesUntouched ==
  ASSUME TypeOK, Touched, Discipline(Plan[insn]),
         result = "none", MayDecline(Plan[insn][pc])
  PROVE  arch = OldArch
BY SMT DEF TypeOK, Touched, Discipline

(* No step spoils Touched.                                                 *)
LEMMA TouchedInductive ==
  ASSUME \A i \in Insns : Discipline(Plan[i]), TypeOK, Touched, [Next]_vars
  PROVE  Touched'
<1> USE DEF Touched
<1>1. result = "none" => insn \in Insns /\ pc \in 1..Len(Plan[insn]) /\ Discipline(Plan[insn])
  BY DEF TypeOK
<1>2. ASSUME result = "none", insn' = insn, GoesOn, Plan[insn][pc].do \notin Final,
             arch' = arch \/ WritesArch(Plan[insn][pc])
      PROVE  Touched'
  <2>1. result' = "none" /\ pc' \in 1..Len(Plan[insn]) /\ pc < pc'
    BY <1>2, SuccessorExists
  <2> QED BY <1>1, <1>2, <2>1, SMT
<1>3. ASSUME NEW st, result = "none", st = Plan[insn][pc], GiveUp(st), arch' = arch,
             st.do \in {"load", "addr", "alloc", "store"}
      PROVE  Touched'
  <2>1. MayDecline(Plan[insn][pc])
    BY <1>3 DEF GiveUp, MayDecline
  <2>2. arch = OldArch
    BY <1>1, <1>3, <2>1, DeclinesUntouched
  <2> QED BY <1>3, <2>2 DEF GiveUp
<1>4. CASE Load
  BY <1>4, <1>2, <1>3 DEF Load, Running, Final, GoesOn
<1>5. CASE LoadAddress
  BY <1>5, <1>2, <1>3 DEF LoadAddress, Running, Final, GoesOn
<1>6. CASE AllocKreg
  BY <1>6, <1>2, <1>3 DEF AllocKreg, Running, Final, GoesOn
<1>7. CASE FreeKreg
  BY <1>7, <1>2 DEF FreeKreg, Running, Final, GoesOn
<1>8. CASE StoreOperand
  BY <1>8, <1>2, <1>3 DEF StoreOperand, Running, WritesArch, Final, GoesOn
<1>9. CASE EmitToKreg
  BY <1>9, <1>2 DEF EmitToKreg, Running, Final, GoesOn
<1>10. CASE EmitToArch
  BY <1>10, <1>2 DEF EmitToArch, Running, WritesArch, Final, GoesOn
<1>11. CASE Return
  <2>1. CASE Plan[insn][pc].do = "INSN"
    <3>1. arch = OldArch
      BY <1>1, <1>11, <2>1, DeclinesUntouched DEF Return, MayDecline
    <3> QED BY <1>11, <3>1 DEF Return
  <2>2. CASE Plan[insn][pc].do # "INSN"
    BY <1>11, <2>2 DEF Return, Final
  <2> QED BY <2>1, <2>2
<1>12. CASE Leave \/ NextFunction
  BY <1>12 DEF Leave, NextFunction, Idle
<1>13. CASE Begin
  BY <1>13 DEF Begin
<1>14. CASE UNCHANGED vars
  BY <1>14 DEF vars
<1>15. CASE Widen
  BY <1>15, <1>2 DEF Widen, Running, Final, GoesOn
<1> QED BY <1>15, <1>4, <1>5, <1>6, <1>7, <1>8, <1>9, <1>10, <1>11, <1>12, <1>13, <1>14 DEF Next

(* Nothing is touched before a step of the plan that writes.               *)
THEOREM TouchedHolds ==
  ASSUME \A i \in Insns : Discipline(Plan[i])
  PROVE  Spec => []Touched
<1>1. Init => Touched
  BY DEF Init, Touched
<1>2. TypeOK /\ Touched /\ [Next]_vars => Touched'
  BY TouchedInductive
<1> QED BY <1>1, <1>2, TypeCorrect, PTL DEF Spec

(* However many kregs there are and whatever fails, a handler that gives   *)
(* up has changed nothing, provided that its plan never writes before a    *)
(* step that may decline.                                                  *)
THEOREM AllOrNothingHolds ==
  ASSUME \A i \in Insns : Discipline(Plan[i])
  PROVE  Spec => []AllOrNothing
<1>1. Touched => AllOrNothing
  BY DEF Touched, AllOrNothing
<1> QED BY <1>1, TouchedHolds, PTL

----------------------------------------------------------------------------
(* With plans that keep the discipline and hold no failing assertion, code *)
(* generation implements the atomic lift, wherever what it emits computes  *)
(* the promise. All steps of a handler but its return are stutters.        *)
LEMMA StepRefines ==
  ASSUME \A i \in Insns : Discipline(Plan[i]),
         \A i \in Insns : \A j \in 1..Len(Plan[i]) : Plan[i][j].do # "INTERR",
         TypeOK, Touched, Touched', NoInterr, ComputesPromise', [Next]_vars
  PROVE  [Atomic!Next]_<<insn, result, IF result = "none" THEN OldArch ELSE arch>>
<1> DEFINE visible == IF result = "none" THEN OldArch ELSE arch
<1>1. ASSUME result = "none", result' = "none", insn' = insn
      PROVE  UNCHANGED <<insn, result, visible>>
  BY <1>1
<1>2. ASSUME result = "none", result' = "INSN", insn' = insn
      PROVE  Atomic!Decline
  BY <1>2 DEF Atomic!Decline, Touched
<1>3. CASE Load \/ LoadAddress \/ AllocKreg \/ Widen \/ FreeKreg \/ StoreOperand \/ EmitToKreg \/ EmitToArch
  <2>1. result = "none" /\ insn' = insn /\ result' \in {"none", "INSN"}
    BY <1>3 DEF Load, LoadAddress, AllocKreg, Widen, FreeKreg, StoreOperand, EmitToKreg, EmitToArch,
                Running, Advance, Skip, GiveUp
  <2> QED BY <2>1, <1>1, <1>2 DEF Atomic!Next
<1>4. CASE Return
  <2>1. result = "none" /\ insn' = insn /\ result' \in {"OK", "INSN"}
    BY <1>4 DEF Return, Final, TypeOK
  <2>2. CASE result' = "OK"
    BY <2>1, <2>2 DEF Atomic!Next, Atomic!Commit, ComputesPromise
  <2> QED BY <2>1, <2>2, <1>2 DEF Atomic!Next
<1>5. CASE Leave
  BY <1>5 DEF Leave, Idle, Final, NoInterr, Atomic!Next, Atomic!Leave
<1>6. CASE NextFunction
  BY <1>6 DEF NextFunction, Idle, TypeOK, Touched
<1>7. CASE Begin
  BY <1>7 DEF Begin, Atomic!Offer, Atomic!Next, Touched
<1>8. CASE UNCHANGED vars
  BY <1>8 DEF vars
<1> QED BY <1>3, <1>4, <1>5, <1>6, <1>7, <1>8 DEF Next, Atomic!Next

(* A result of INTERR comes from a step of the plan that returns it; so    *)
(* without such a step there is none. That the handlers' plans have none   *)
(* is for TLC to find.                                                     *)
LEMMA NoInterrHolds ==
  ASSUME \A i \in Insns : \A j \in 1..Len(Plan[i]) : Plan[i][j].do # "INTERR"
  PROVE  Spec => []NoInterr
<1>1. Init => NoInterr
  BY DEF Init, NoInterr
<1>2. TypeOK /\ NoInterr /\ [Next]_vars => NoInterr'
  <2> SUFFICES ASSUME TypeOK, NoInterr, [Next]_vars PROVE NoInterr'
    OBVIOUS
  <2>1. CASE Return
    BY <2>1 DEF Return, TypeOK, NoInterr
  <2>2. CASE Leave \/ NextFunction \/ Begin
    BY <2>2 DEF Leave, NextFunction, Begin, Idle, NoInterr
  <2>3. CASE Load \/ LoadAddress \/ AllocKreg \/ Widen \/ FreeKreg \/ StoreOperand \/ EmitToKreg \/ EmitToArch
    BY <2>3 DEF Load, LoadAddress, AllocKreg, Widen, FreeKreg, StoreOperand, EmitToKreg, EmitToArch,
                Running, Advance, Skip, GiveUp, NoInterr
  <2>4. CASE UNCHANGED vars
    BY <2>4 DEF vars, NoInterr
  <2> QED BY <2>1, <2>2, <2>3, <2>4 DEF Next
<1> QED BY <1>1, <1>2, TypeCorrect, PTL DEF Spec

(* Code generation implements the atomic lift.                             *)
THEOREM LiftsAtomicallyHolds ==
  ASSUME \A i \in Insns : Discipline(Plan[i]),
         \A i \in Insns : \A j \in 1..Len(Plan[i]) : Plan[i][j].do # "INTERR"
  PROVE  Spec /\ []ComputesPromise => LiftsAtomically
<1>1. Init => Atomic!Init
  BY DEF Init, Atomic!Init
<1>2. TypeOK /\ Touched /\ Touched' /\ NoInterr /\ ComputesPromise' /\ [Next]_vars
      => [Atomic!Next]_<<insn, result, IF result = "none" THEN OldArch ELSE arch>>
  BY StepRefines
<1> QED BY <1>1, <1>2, TypeCorrect, TouchedHolds, NoInterrHolds, PTL
        DEF Spec, LiftsAtomically, Atomic!Spec

----------------------------------------------------------------------------
(* Opmasks.                                                                *)
(*                                                                         *)
(* MaskFits speaks of what an instruction has left in its destination. The *)
(* strengthening follows every value through registers, memory and kregs:  *)
(* wherever the result of a call is, its opmasks have the right size, and  *)
(* no result survives the instruction that computed it.                    *)
Fits(i, t) ==
  t[1] = "res" => \A j \in DOMAIN t[2] : t[2][j].mask > 0 => t[2][j].mask = MaskSize(Elements(i))
AllFit(i, val) == \A l \in Lanes : Fits(i, val[l])
MasksFit ==
  IF result = "idle" THEN arch = OldArch /\ \A s \in Slots : slots[s].val = JunkVal
  ELSE /\ \A loc \in Locs : AllFit(insn, arch[loc])
       /\ \A s \in Slots : AllFit(insn, slots[s].val)

(* A plan that passes every opmask with the size of the elements.          *)
MasksSized(i, plan) ==
  \A j \in 1..Len(plan) : \A k \in DOMAIN plan[j].src :
    plan[j].src[k].at = "mask" => plan[j].src[k].w = MaskSize(Elements(i))

(* Contents that name no opmask fit,                                       *)
LEMMA SimpleTermsFit ==
  /\ \A i : Fits(i, Junk) /\ Fits(i, Zero)
  /\ \A i, n : Fits(i, <<"imm", n>>) /\ Fits(i, <<"addr", n>>)
  /\ \A i, loc, l : Fits(i, <<"old", loc, l>>)
BY DEF Fits, Junk, Zero

(* and so do values made of them,                                          *)
LEMMA SimpleValuesFit ==
  /\ \A i : AllFit(i, JunkVal)
  /\ \A i, n : AllFit(i, AddrVal(n))
  /\ \A i : \A loc \in Locs : AllFit(i, OldArch[loc])
<1>1. \A i : AllFit(i, JunkVal)
  BY SimpleTermsFit DEF AllFit, JunkVal
<1>2. \A n : \A l \in Lanes : AddrVal(n)[l] \in {Junk, <<"addr", n>>}
  BY DEF AddrVal, JunkVal
<1>3. \A i, n : AllFit(i, AddrVal(n))
  BY <1>2, SimpleTermsFit DEF AllFit
<1>4. \A loc \in Locs : \A l \in Lanes : OldArch[loc][l] = <<"old", loc, l>>
  BY DEF OldArch, OldVal
<1>5. \A i : \A loc \in Locs : AllFit(i, OldArch[loc])
  BY <1>4, SimpleTermsFit DEF AllFit
<1> QED BY <1>1, <1>3, <1>5

(* parts of them,                                                          *)
LEMMA CutFits ==
  ASSUME NEW i, NEW val, AllFit(i, val) PROVE \A lanes : AllFit(i, Cut(val, lanes))
<1>1. \A lanes : \A l \in Lanes : Cut(val, lanes)[l] \in {val[l], Junk}
  BY DEF Cut
<1> QED BY <1>1, SimpleTermsFit DEF AllFit

(* and parts put over others.                                              *)
LEMMA OverlayFits ==
  ASSUME NEW i, NEW old, NEW new, AllFit(i, old), AllFit(i, new)
  PROVE  \A lanes : AllFit(i, Overlay(old, new, lanes))
<1>1. \A lanes : \A l \in Lanes : Overlay(old, new, lanes)[l] \in {old[l], new[l]}
  BY DEF Overlay
<1> QED BY <1>1 DEF AllFit

(* A scalar intrinsic copies from one of its sources.                      *)
LEMMA FirstSourceGiven ==
  ASSUME NEW i, NEW st, HasOperands(i, st), st.how = "sfn"
  PROVE  \E j \in DOMAIN st.src : FirstSource(st) = st.src[j]
<1>1. /\ 1 \in DOMAIN st.src
      /\ \A j \in DOMAIN st.src : st.src[j].at = "mask" => 1 + j \in DOMAIN st.src
  BY DEF HasOperands
<1>2. CASE \E j \in DOMAIN st.src : st.src[j].at = "mask"
  <2> DEFINE k == CHOOSE j \in DOMAIN st.src : st.src[j].at = "mask"
  <2>1. k \in DOMAIN st.src /\ st.src[k].at = "mask"
    BY <1>2
  <2>2. FirstSource(st) = st.src[1 + k]
    BY <1>2 DEF FirstSource
  <2> QED BY <1>1, <2>1, <2>2
<1>3. CASE ~\E j \in DOMAIN st.src : st.src[j].at = "mask"
  BY <1>1, <1>3, Zenon DEF FirstSource
<1> QED BY <1>2, <1>3

(* What a step of the running instruction reads and computes.              *)
Lifting == TypeOK /\ MasksFit /\ result = "none"

(* What the registers, memory and kregs hold fits,                         *)
LEMMA LiftingFits ==
  ASSUME Lifting
  PROVE  /\ insn \in Insns /\ pc \in 1..Len(Plan[insn]) /\ HasOperands(insn, Plan[insn][pc])
         /\ \A loc \in Locs : AllFit(insn, arch[loc])
         /\ \A s \in Slots : AllFit(insn, slots[s].val)
         /\ \A v \in Vars : AllFit(insn, Held(v))
<1>1. insn \in Insns /\ pc \in 1..Len(Plan[insn]) /\ env \in [Vars -> Slots \union {NoSlot}]
  BY DEF Lifting, TypeOK
<1>2. /\ \A loc \in Locs : AllFit(insn, arch[loc])
      /\ \A s \in Slots : AllFit(insn, slots[s].val)
  BY DEF Lifting, MasksFit
<1>3. ASSUME NEW v \in Vars PROVE AllFit(insn, Held(v))
  <2>1. env[v] = NoSlot \/ env[v] \in Slots
    BY <1>1
  <2> QED BY <1>2, <2>1, SimpleValuesFit DEF Held
<1> QED BY <1>1, <1>2, <1>3, CodegenAssumption

(* and so does each operand of a step,                                     *)
LEMMA ValueFits ==
  ASSUME Lifting, NEW s,
         s.at \in {"tmp", "deref"} => s.v \in Vars,
         s.at = "reg" => RegLoc(insn, s.n, s.w) \in Locs
  PROVE  AllFit(insn, Value(insn, Contents, s)) /\ DOMAIN Value(insn, Contents, s) = Lanes
<1> DEFINE register == arch[RegLoc(insn, s.n, s.w)]
           covered  == RegLanes(insn, s.n, s.w)
           memory   == arch[<<"m", 0>>]
<1>1. \A val, lanes : DOMAIN Cut(val, lanes) = Lanes
  BY DEF Cut
<1>2. DOMAIN JunkVal = Lanes
  BY DEF JunkVal
<1>3. <<"m", 0>> \in Locs
  BY DEF Locs
<1>4. CASE s.at = "tmp"
  <2>1. Value(insn, Contents, s) = Cut(Held(s.v), Covers(s.w, 0))
    BY <1>4 DEF Value, Contents
  <2> QED BY <1>1, <1>4, <2>1, LiftingFits, CutFits
<1>5. CASE s.at = "reg"
  <2>1. Value(insn, Contents, s) = Cut(register, covered)
    BY <1>5 DEF Value, Contents
  <2>2. AllFit(insn, register)
    BY <1>5, LiftingFits
  <2> QED BY <1>1, <2>1, <2>2, CutFits
<1>6. CASE s.at = "deref"
  <2>1. Value(insn, Contents, s) \in {Cut(memory, Covers(s.w, insn.es)), JunkVal}
    BY <1>6 DEF Value, Contents
  <2>2. AllFit(insn, memory)
    BY <1>3, LiftingFits
  <2> QED BY <1>1, <1>2, <2>1, <2>2, CutFits, SimpleValuesFit
<1>7. CASE s.at = "imm"
  <2>1. Value(insn, Contents, s) = [JunkVal EXCEPT !["e"] = <<"imm", s.n>>]
    BY <1>7 DEF Value
  <2>2. /\ DOMAIN Value(insn, Contents, s) = Lanes
        /\ \A l \in Lanes : Value(insn, Contents, s)[l] \in {Junk, <<"imm", s.n>>}
    BY <2>1 DEF JunkVal
  <2> QED BY <2>2, SimpleTermsFit DEF AllFit
<1>8. CASE s.at = "zero"
  <2>1. Value(insn, Contents, s) = [l \in Lanes |-> Zero]
    BY <1>8 DEF Value
  <2> QED BY <2>1, SimpleTermsFit DEF AllFit
<1>9. CASE s.at \notin {"tmp", "reg", "deref", "imm", "zero"}
  <2>1. Value(insn, Contents, s) = JunkVal
    BY <1>9 DEF Value
  <2> QED BY <1>2, <2>1, SimpleValuesFit
<1> QED BY <1>4, <1>5, <1>6, <1>7, <1>8, <1>9

(* the result of a call whose opmasks have the right size,                 *)
LEMMA ResultFits ==
  ASSUME NEW i, NEW c, NEW plan, MasksSized(i, plan), NEW k \in 1..Len(plan)
  PROVE  AllFit(i, Result(i, c, plan[k])) /\ DOMAIN Result(i, c, plan[k]) = Lanes
<1> DEFINE src  == plan[k].src
           args == [j \in DOMAIN src |->
                      [val |-> Value(i, c, src[j]), mask |-> IF src[j].at = "mask" THEN src[j].w ELSE 0]]
<1>1. Result(i, c, plan[k]) = [l \in Lanes |-> <<"res", args, l>>]
  BY DEF Result, ResVal
<1>2. ASSUME NEW j \in DOMAIN args, args[j].mask > 0
      PROVE  args[j].mask = MaskSize(Elements(i))
  <2>1. j \in DOMAIN src /\ args[j].mask = IF src[j].at = "mask" THEN src[j].w ELSE 0
    OBVIOUS
  <2>2. src[j].at = "mask"
    BY <1>2, <2>1
  <2> QED BY <2>1, <2>2 DEF MasksSized
<1> HIDE DEF args
<1>3. \A l : Fits(i, <<"res", args, l>>)
  BY <1>2 DEF Fits
<1> QED BY <1>1, <1>3 DEF AllFit

(* and whatever a microinstruction computes.                               *)
LEMMA OutcomeFits ==
  ASSUME Lifting, MasksSized(insn, Plan[insn]), Plan[insn][pc].do \in {"emit", "widen"}
  PROVE  AllFit(insn, Computes(Plan[insn][pc]))
<1> DEFINE st == Plan[insn][pc]
           of(s) == Value(insn, Contents, s)
           first == of(st.src[1])
<1>1. insn \in Insns /\ pc \in 1..Len(Plan[insn]) /\ HasOperands(insn, st)
  BY LiftingFits
<1>2. AllFit(insn, Result(insn, Contents, st)) /\ DOMAIN Result(insn, Contents, st) = Lanes
  BY <1>1, ResultFits
<1>3. \A j \in DOMAIN st.src : AllFit(insn, of(st.src[j])) /\ DOMAIN of(st.src[j]) = Lanes
  BY <1>1, ValueFits DEF HasOperands
<1>4. st.how \in {"mov", "xdu", "f2f", "sfn"} => AllFit(insn, first) /\ DOMAIN first = Lanes
  BY <1>1, <1>3 DEF HasOperands
<1>5. "e" \in Lanes
  BY DEF Lanes
<1>6. CASE st.how = "mov"
  BY <1>4, <1>6 DEF Computes, Outcome
<1>7. CASE st.how = "xdu"
  <2>1. \A l \in Lanes : Computes(st)[l] \in {first[l], Zero}
    BY <1>7 DEF Computes, Outcome
  <2> QED BY <1>4, <1>7, <2>1, SimpleTermsFit DEF AllFit
<1>8. CASE st.how = "imm"
  BY <1>8, SimpleValuesFit DEF Computes, Outcome
<1>9. CASE st.how = "f2f"
  <2>1. \A l \in Lanes : Computes(st)[l] \in {Junk, Result(insn, Contents, st)["e"], first["e"]}
    BY <1>9 DEF Computes, Outcome, Converted, JunkVal
  <2> QED BY <1>2, <1>4, <1>5, <1>9, <2>1, SimpleTermsFit DEF AllFit
<1>10. CASE st.how = "sfn"
  <2>1. PICK j \in DOMAIN st.src : FirstSource(st) = st.src[j]
    BY <1>1, <1>10, FirstSourceGiven
  <2>2. AllFit(insn, of(FirstSource(st))) /\ DOMAIN of(FirstSource(st)) = Lanes
    BY <1>3, <2>1
  <2>3. \A l \in Lanes : Computes(st)[l] \in {of(FirstSource(st))[l], Result(insn, Contents, st)["e"]}
    BY <1>10, <2>2 DEF Computes, Outcome
  <2> QED BY <1>2, <1>5, <2>2, <2>3 DEF AllFit
<1>11. CASE st.how \notin {"mov", "xdu", "imm", "f2f", "sfn"}
  BY <1>2, <1>11 DEF Computes, Outcome
<1> QED BY <1>6, <1>7, <1>8, <1>9, <1>10, <1>11

(* Opmasks fit after every step.                                           *)
LEMMA MasksFitStep ==
  ASSUME TypeOK, MasksFit, [Next]_vars, \A i \in Insns : MasksSized(i, Plan[i])
  PROVE  MasksFit'
<1> DEFINE st == Plan[insn][pc]
           ArchFits  == \A loc \in Locs : AllFit(insn, arch'[loc])
           SlotsFit  == \A s \in Slots : AllFit(insn, slots'[s].val)
           Lifted    == insn' = insn /\ result' # "idle" /\ ArchFits /\ SlotsFit
<1>1. ASSUME Lifted PROVE MasksFit'
  BY <1>1 DEF MasksFit
<1>2. result = "none" => Lifting
  BY DEF Lifting
<1>3. result # "idle" => /\ \A loc \in Locs : AllFit(insn, arch[loc])
                         /\ \A s \in Slots : AllFit(insn, slots[s].val)
  BY DEF MasksFit
<1>4. ASSUME result = "none"
      PROVE  /\ HasOperands(insn, st)
             /\ st.do \in {"emit", "widen"} => AllFit(insn, Computes(st))
  BY <1>2, <1>4, LiftingFits, OutcomeFits
<1>5. ASSUME NEW v, NEW s \in FreeSlots, NEW def, NEW val, AllFit(insn, val),
             result = "none", Bind(v, s, def, val)
      PROVE  SlotsFit
  BY <1>3, <1>5 DEF Bind, Kreg, FreeSlots, TypeOK
<1>6. ASSUME result = "none", GiveUp(st) PROVE SlotsFit /\ result' # "idle"
  BY <1>3, <1>6 DEF GiveUp, Freed, Kreg
<1>7. ASSUME result = "none", arch' = arch PROVE ArchFits
  BY <1>3, <1>7
<1>8. ASSUME result = "none", slots' = slots PROVE SlotsFit
  BY <1>3, <1>8
<1>9. ASSUME result = "none" PROVE \A lanes : AllFit(insn, Cut(arch[<<"m", 0>>], lanes))
  BY <1>3, <1>9, CutFits DEF Locs
<1> HIDE DEF ArchFits, SlotsFit
<1>10. CASE Load
  <2>1. result = "none" /\ insn' = insn /\ arch' = arch
    BY <1>10 DEF Load, Running
  <2>2. SlotsFit /\ result' # "idle"
    <3>1. CASE GiveUp(st)
      BY <1>6, <2>1, <3>1
    <3>2. CASE slots' = slots /\ Advance
      BY <1>8, <2>1, <3>2 DEF Advance, Skip
    <3>3. CASE /\ \E s \in FreeSlots : Bind(st.v, s, st.w, Cut(arch[<<"m", 0>>], Covers(st.w, insn.es)))
               /\ Advance
      <4>1. PICK s \in FreeSlots : Bind(st.v, s, st.w, Cut(arch[<<"m", 0>>], Covers(st.w, insn.es)))
        BY <3>3
      <4> QED BY <1>5, <1>9, <2>1, <3>3, <4>1 DEF Advance, Skip
    <3> QED BY <1>10, <3>1, <3>2, <3>3 DEF Load
  <2> QED BY <1>1, <1>7, <2>1, <2>2
<1>11. CASE LoadAddress
  <2>1. result = "none" /\ insn' = insn /\ arch' = arch
    BY <1>11 DEF LoadAddress, Running
  <2>2. SlotsFit /\ result' # "idle"
    <3>1. CASE GiveUp(st)
      BY <1>6, <2>1, <3>1
    <3>2. CASE slots' = slots /\ Skip(st.skip)
      BY <1>8, <2>1, <3>2 DEF Skip
    <3>3. CASE \E s \in FreeSlots : Bind(st.v, s, PtrSize(insn), AddrVal(st.n)) /\ Advance
      <4>1. PICK s \in FreeSlots : Bind(st.v, s, PtrSize(insn), AddrVal(st.n)) /\ Advance
        BY <3>3
      <4> QED BY <1>5, <2>1, <4>1, SimpleValuesFit DEF Advance, Skip
    <3> QED BY <1>11, <3>1, <3>2, <3>3 DEF LoadAddress
  <2> QED BY <1>1, <1>7, <2>1, <2>2
<1>12. CASE AllocKreg
  <2>1. result = "none" /\ insn' = insn /\ arch' = arch
    BY <1>12 DEF AllocKreg, Running
  <2>2. SlotsFit /\ result' # "idle"
    <3>1. CASE GiveUp(st)
      BY <1>6, <2>1, <3>1
    <3>2. CASE slots' = slots /\ Advance
      BY <1>8, <2>1, <3>2 DEF Advance, Skip
    <3>3. CASE \E s \in FreeSlots : Bind(st.v, s, 0, JunkVal) /\ Advance
      <4>1. PICK s \in FreeSlots : Bind(st.v, s, 0, JunkVal) /\ Advance
        BY <3>3
      <4> QED BY <1>5, <2>1, <4>1, SimpleValuesFit DEF Advance, Skip
    <3> QED BY <1>12, <3>1, <3>2, <3>3 DEF AllocKreg
  <2> QED BY <1>1, <1>7, <2>1, <2>2
<1>13. CASE Widen
  <2>1. result = "none" /\ insn' = insn /\ arch' = arch /\ result' # "idle" /\ st.do = "widen"
    BY <1>13 DEF Widen, Running, Advance, Skip
  <2>2. SlotsFit
    <3>1. CASE slots' = slots
      BY <1>8, <2>1, <3>1
    <3>2. CASE \E s \in FreeSlots : Bind(st.v, s, st.w, Computes(st))
      BY <1>4, <1>5, <2>1, <3>2
    <3> QED BY <1>13, <3>1, <3>2 DEF Widen
  <2> QED BY <1>1, <1>7, <2>1, <2>2
<1>14. CASE FreeKreg
  <2>1. result = "none" /\ insn' = insn /\ arch' = arch /\ result' # "idle"
    BY <1>14 DEF FreeKreg, Running, Advance, Skip
  <2>2. \A s \in Slots : slots'[s].val = slots[s].val
    BY <1>14 DEF FreeKreg, Freed, Kreg
  <2>3. SlotsFit
    BY <1>3, <2>1, <2>2 DEF SlotsFit
  <2> QED BY <1>1, <1>7, <2>1, <2>3
<1>15. CASE StoreOperand
  <2>1. result = "none" /\ insn' = insn
    BY <1>15 DEF StoreOperand, Running
  <2>2. CASE GiveUp(st) /\ arch' = arch
    BY <1>1, <1>6, <1>7, <2>1, <2>2
  <2>3. CASE Advance /\ slots' = slots /\ arch' = arch
    BY <1>1, <1>7, <1>8, <2>1, <2>3 DEF Advance, Skip
  <2>4. CASE /\ arch' = [arch EXCEPT ![<<"m", 0>>] =
                           Overlay(@, Stores(st), Covers(st.src[1].w, insn.es))]
             /\ Advance /\ slots' = slots
    <3>1. st.do = "store"
      BY <1>15 DEF StoreOperand, Running
    <3>2. AllFit(insn, Stores(st))
      BY <1>2, <1>4, <2>1, <3>1, ValueFits DEF HasOperands, Stores
    <3>3. AllFit(insn, Overlay(arch[<<"m", 0>>], Stores(st), Covers(st.src[1].w, insn.es)))
      BY <1>3, <2>1, <3>2, OverlayFits DEF Locs
    <3>4. ArchFits
      BY <1>3, <2>1, <2>4, <3>3 DEF ArchFits, TypeOK
    <3> QED BY <1>1, <1>8, <2>1, <2>4, <3>4 DEF Advance, Skip
  <2> QED BY <1>15, <2>2, <2>3, <2>4, Zenon DEF StoreOperand
<1>16. CASE EmitToKreg
  <2> DEFINE k == env[st.dst.v]
  <2>1. result = "none" /\ insn' = insn /\ arch' = arch /\ result' # "idle" /\ st.do = "emit"
    BY <1>16 DEF EmitToKreg, Running, Advance, Skip
  <2>2. CASE k = NoSlot
    <3>1. slots' = slots
      BY <1>16, <2>2 DEF EmitToKreg
    <3> QED BY <1>1, <1>7, <1>8, <2>1, <3>1
  <2>3. CASE k # NoSlot
    <3> DEFINE new == Overlay(slots[k].val, Computes(st), Covers(st.dst.w, 0))
    <3>1. PICK def : slots' = [slots EXCEPT ![k] = Kreg(@.used, @.own, def, new)]
      BY <1>16, <2>3 DEF EmitToKreg
    <3>2. k \in Slots => AllFit(insn, new)
      BY <1>3, <1>4, <2>1, OverlayFits
    <3> HIDE DEF k, new
    <3>3. \A s \in Slots : slots'[s] = slots[s] \/ (s = k /\ slots'[s].val = new)
      BY <3>1 DEF Kreg, TypeOK
    <3>4. SlotsFit
      BY <1>3, <2>1, <3>2, <3>3 DEF SlotsFit
    <3> QED BY <1>1, <1>7, <2>1, <3>4
  <2> QED BY <2>2, <2>3
<1>17. CASE EmitToArch
  <2> DEFINE dst == DstLoc(insn, st.dst)
             new == Overlay(arch[dst], Computes(st), LanesTo(insn, st.dst))
  <2>1. result = "none" /\ insn' = insn /\ slots' = slots /\ result' # "idle" /\ st.do = "emit"
    BY <1>17 DEF EmitToArch, Running, Advance, Skip
  <2>2. arch' = [arch EXCEPT ![dst] = new]
    BY <1>17 DEF EmitToArch
  <2>3. dst \in Locs => AllFit(insn, new)
    BY <1>3, <1>4, <2>1, OverlayFits
  <2> HIDE DEF dst, new
  <2>4. ArchFits
    BY <1>3, <2>1, <2>2, <2>3 DEF ArchFits, TypeOK
  <2> QED BY <1>1, <1>8, <2>1, <2>4
<1>18. CASE Return
  <2>1. result = "none" /\ insn' = insn /\ slots' = slots /\ arch' = arch /\ result' # "idle"
    BY <1>18 DEF Return, Final
  <2> QED BY <1>1, <1>7, <1>8, <2>1
<1>19. CASE Leave \/ NextFunction
  <2>1. result' = "idle" /\ arch' = OldArch
    BY <1>19 DEF Leave, NextFunction, Idle
  <2>2. \A used : Stale(used).val = JunkVal
    BY DEF Stale, Kreg
  <2>3. \A s \in Slots : slots'[s].val = JunkVal
    <3>1. CASE Leave
      BY <2>2, <3>1 DEF Leave
    <3>2. CASE NextFunction
      BY <2>2, <3>2 DEF NextFunction
    <3> QED BY <1>19, <3>1, <3>2
  <2> QED BY <2>1, <2>3 DEF MasksFit
<1>20. CASE Begin
  <2>1. result' = "none" /\ arch' = OldArch /\ \A s \in Slots : slots'[s].val = JunkVal
    BY <1>20 DEF Begin, MasksFit
  <2> QED BY <2>1, SimpleValuesFit DEF MasksFit
<1>21. CASE UNCHANGED vars
  BY <1>21 DEF vars, MasksFit
<1> HIDE DEF st
<1> QED BY <1>10, <1>11, <1>12, <1>13, <1>14, <1>15, <1>16, <1>17, <1>18, <1>19, <1>20, <1>21 DEF Next

(* Where every plan passes opmasks with the size of the elements, every    *)
(* result that MERR_OK leaves has been given such opmasks only.            *)
THEOREM MaskFitsHolds ==
  ASSUME \A i \in Insns : MasksSized(i, Plan[i])
  PROVE  Spec => []MaskFits
<1>1. Init => MasksFit
  <2>1. Stale(FALSE).val = JunkVal
    BY DEF Stale, Kreg
  <2>2. Init => \A s \in Slots : slots[s].val = JunkVal
    <3>1. Init => \A s \in Slots : slots[s] = Stale(FALSE)
      BY DEF Init
    <3> QED BY <2>1, <3>1, Zenon
  <2>3. Init => result = "idle" /\ arch = OldArch
    BY DEF Init
  <2> QED BY <2>2, <2>3 DEF MasksFit
<1>2. TypeOK /\ MasksFit /\ [Next]_vars => MasksFit'
  BY MasksFitStep
<1>3. TypeOK /\ MasksFit => MaskFits
  <2> SUFFICES ASSUME TypeOK, MasksFit, result = "OK" PROVE MaskFits
    BY DEF MaskFits
  <2>1. insn \in Insns /\ \A loc \in Locs : AllFit(insn, arch[loc])
    BY DEF TypeOK, MasksFit
  <2>2. <<"fx", 0>> \in Locs /\ Loc(Op(insn, 1)) \in Locs /\ "e" \in Lanes
    BY <2>1, CodegenAssumption DEF Locs, Lanes
  <2>3. Fits(insn, arch[<<"fx", 0>>]["e"]) /\ Fits(insn, arch[Loc(Op(insn, 1))]["e"])
    BY <2>1, <2>2 DEF AllFit
  <2> QED BY <2>3 DEF MaskFits, Fits
<1> QED BY <1>1, <1>2, <1>3, TypeCorrect, PTL DEF Spec

----------------------------------------------------------------------------
(* Temporaries.                                                            *)
(*                                                                         *)
(* What a plan says on paper of them (WellScoped) is what Hex-Rays finds   *)
(* in its microcode (bad), for every number of kregs, whatever fails and   *)
(* however often one is reused.                                            *)

(* The kregs of a handler while it runs: a temporary that is live on paper *)
(* names an allocated kreg of its own, in which at least those bytes are   *)
(* defined that are defined on paper; and nothing malformed has been       *)
(* emitted.                                                                *)
Backed(v) ==
  /\ Live(Plan[insn], pc, v) =>
       env[v] \in Slots /\ slots[env[v]].used /\ slots[env[v]].own = v
  /\ \A n \in Nat :
       Live(Plan[insn], pc, v) /\ Defined(insn, Plan[insn], pc, v, n) => n <= slots[env[v]].def
Sound == bad = {} /\ (result = "none" => \A v \in Vars : Backed(v))

(* The number of bytes defined of a kreg is a number.                      *)
Sizes == \A s \in Slots : slots[s].def \in Nat

(* How a step moves the paper scopes.                                      *)
LEMMA LiveNext ==
  ASSUME NEW plan, NEW k \in Nat \ {0}, NEW v
  PROVE  Live(plan, k + 1, v) <=> Binds(plan[k], v) \/ (Live(plan, k, v) /\ ~Frees(plan[k], v))
<1>1. Binds(plan[k], v) => ~Frees(plan[k], v)
  BY DEF Binds, Frees
<1>2. ASSUME Binds(plan[k], v) PROVE Live(plan, k + 1, v)
  BY <1>2 DEF Live
<1>3. ASSUME Live(plan, k, v), ~Frees(plan[k], v) PROVE Live(plan, k + 1, v)
  BY <1>3 DEF Live
<1>4. ASSUME Live(plan, k + 1, v), ~Binds(plan[k], v)
      PROVE  Live(plan, k, v) /\ ~Frees(plan[k], v)
  BY <1>4 DEF Live
<1> QED BY <1>1, <1>2, <1>3, <1>4

(* How a step moves the bytes that are defined.                            *)
LEMMA DefinedNext ==
  ASSUME NEW i, NEW plan, NEW k \in Nat \ {0}, NEW v, NEW n \in Nat
  PROVE  Defined(i, plan, k + 1, v, n) <=>
           \/ (Binds(plan[k], v) \/ Fills(plan[k], v)) /\ n <= Bytes(i, plan[k])
           \/ Defined(i, plan, k, v, n) /\ ~Binds(plan[k], v)
<1>1. ASSUME Binds(plan[k], v) \/ Fills(plan[k], v), n <= Bytes(i, plan[k])
      PROVE  Defined(i, plan, k + 1, v, n)
  BY <1>1 DEF Defined
<1>2. ASSUME Defined(i, plan, k, v, n), ~Binds(plan[k], v)
      PROVE  Defined(i, plan, k + 1, v, n)
  BY <1>2 DEF Defined
<1>3. ASSUME Defined(i, plan, k + 1, v, n),
             ~((Binds(plan[k], v) \/ Fills(plan[k], v)) /\ n <= Bytes(i, plan[k]))
      PROVE  Defined(i, plan, k, v, n) /\ ~Binds(plan[k], v)
  BY <1>3 DEF Defined
<1> QED BY <1>1, <1>2, <1>3

(* A live temporary is one of the names that handlers use.                 *)
LEMMA LiveInVars ==
  ASSUME NEW i \in Insns, NEW k \in 1..Len(Plan[i]), NEW v, Live(Plan[i], k, v)
  PROVE  v \in Vars
<1>1. PICK b \in 1..k - 1 : Binds(Plan[i][b], v)
  BY DEF Live
<1>2. b \in 1..Len(Plan[i])
  BY <1>1, CodegenAssumption
<1> QED BY <1>1, <1>2, CodegenAssumption DEF HasOperands, Binds

(* What an instruction finds when the next step of its plan is due.        *)
Due ==
  /\ TypeOK /\ Sizes /\ result = "none"
  /\ WellScoped(insn, Plan[insn])
  /\ bad = {} /\ \A v \in Vars : Backed(v)

(* What is readable on paper is read without complaint, and so a step that *)
(* is well scoped emits nothing malformed.                                 *)
LEMMA ReadableIsRead ==
  ASSUME Due, NEW s, s.w \in Nat, Readable(insn, Plan[insn], pc, s)
  PROVE  Misread(s) = {}
<1>1. insn \in Insns /\ pc \in 1..Len(Plan[insn])
  BY DEF Due, TypeOK
<1>2. PtrSize(insn) \in Nat
  BY DEF PtrSize
<1>3. CASE s.at \in {"tmp", "deref"}
  <2> DEFINE n == IF s.at = "tmp" THEN s.w ELSE PtrSize(insn)
  <2>1. Live(Plan[insn], pc, s.v) /\ Defined(insn, Plan[insn], pc, s.v, n) /\ n \in Nat
    BY <1>2, <1>3 DEF Readable
  <2>2. s.v \in Vars
    BY <1>1, <2>1, LiveInVars
  <2>3. /\ env[s.v] \in Slots /\ slots[env[s.v]].used /\ slots[env[s.v]].own = s.v
        /\ n <= slots[env[s.v]].def /\ slots[env[s.v]].def \in Nat
    BY <2>1, <2>2 DEF Due, Backed, Sizes
  <2>4. env[s.v] # NoSlot
    BY <2>3, CodegenAssumption
  <2>5. ~(slots[env[s.v]].def < n)
    BY <2>1, <2>3, SMT
  <2> QED BY <1>3, <2>3, <2>4, <2>5 DEF Misread
<1>4. CASE s.at \notin {"tmp", "deref"}
  <2>1. ~(s.at = "reg" /\ RegLoc(insn, s.n, s.w)[1] = "g" /\ s.w > PtrSize(insn))
    BY <1>2 DEF Readable
  <2> QED BY <1>4, <2>1 DEF Misread
<1> QED BY <1>3, <1>4

(* An operand of a supported size gets no complaint.                       *)
LEMMA SupportedIsTaken ==
  ASSUME NEW s, Supported(insn, s) PROVE Unsupported(s) = {}
BY DEF Supported, Unsupported

(* So a well-scoped step emits nothing malformed.                          *)
LEMMA ScopedIsWellFormed ==
  ASSUME Due, Plan[insn][pc].do \in {"widen", "store", "emit"}
  PROVE  Malformed(Plan[insn][pc]) = {}
<1> DEFINE st == Plan[insn][pc]
<1>1. insn \in Insns /\ pc \in 1..Len(Plan[insn])
  BY DEF Due, TypeOK
<1>2. /\ Supported(insn, st.dst)
      /\ \A j \in DOMAIN st.src : Readable(insn, Plan[insn], pc, st.src[j]) /\ Supported(insn, st.src[j])
  BY <1>1 DEF Due, WellScoped
<1>3. \A j \in DOMAIN st.src : st.src[j].w \in Nat
  BY <1>1, CodegenAssumption DEF HasOperands
<1>4. Unsupported(st.dst) = {}
  BY <1>2, SupportedIsTaken
<1>5. ASSUME NEW j \in DOMAIN st.src
      PROVE  Misread(st.src[j]) = {} /\ Unsupported(st.src[j]) = {}
  BY <1>2, <1>3, <1>5, ReadableIsRead, SupportedIsTaken
<1> HIDE DEF st
<1> QED BY <1>4, <1>5 DEF Malformed, st

(* A kreg that is bound to a variable of its own backs it, and disturbs no *)
(* other, as it was free.                                                  *)
LEMMA BoundIsBacked ==
  ASSUME Due, NEW s \in FreeSlots, NEW def \in Nat, NEW val,
         Binds(Plan[insn][pc], Plan[insn][pc].v), Bytes(insn, Plan[insn][pc]) <= def,
         Bind(Plan[insn][pc].v, s, def, val), insn' = insn, Advance
  PROVE  \A v \in Vars : Backed(v)'
<1> DEFINE st == Plan[insn][pc]
<1>1. insn \in Insns /\ pc \in 1..Len(Plan[insn]) /\ pc' = pc + 1
  BY DEF Due, TypeOK, Advance, Skip
<1>2. st.v \in Vars /\ s \in Slots /\ ~slots[s].used
  BY <1>1, CodegenAssumption DEF HasOperands, Binds, FreeSlots
<1>3. /\ slots' = [slots EXCEPT ![s] = Kreg(TRUE, st.v, def, val)]
      /\ env' = [env EXCEPT ![st.v] = s]
      /\ DOMAIN slots = Slots /\ env \in [Vars -> Slots \union {NoSlot}]
  BY DEF Bind, Due, TypeOK
<1>4. Bytes(insn, st) \in Nat
  BY <1>1, CodegenAssumption DEF HasOperands, Bytes, PtrSize
<1>5. ASSUME NEW v \in Vars PROVE Backed(v)'
  <2>1. Live(Plan[insn], pc + 1, v) => Binds(st, v) \/ Live(Plan[insn], pc, v)
    BY <1>1, LiveNext
  <2>2. \A n \in Nat : Defined(insn, Plan[insn], pc + 1, v, n) =>
          \/ (Binds(st, v) \/ Fills(st, v)) /\ n <= Bytes(insn, st)
          \/ Defined(insn, Plan[insn], pc, v, n) /\ ~Binds(st, v)
    BY <1>1, DefinedNext
  <2>3. ~Fills(st, v) /\ (Binds(st, v) <=> v = st.v)
    BY DEF Binds, Fills
  <2>4. CASE v = st.v
    <3>1. env'[v] = s /\ slots'[s] = Kreg(TRUE, v, def, val)
      BY <1>2, <1>3, <2>4
    <3>2. env'[v] \in Slots /\ slots'[env'[v]].used /\ slots'[env'[v]].own = v /\ slots'[env'[v]].def = def
      BY <1>2, <3>1 DEF Kreg
    <3>3. \A n \in Nat : Defined(insn, Plan[insn], pc + 1, v, n) => n <= def
      BY <1>4, <2>2, <2>3, <2>4, SMT
    <3> QED BY <1>1, <3>2, <3>3 DEF Backed
  <2>5. CASE v # st.v
    <3>1. Backed(v) /\ env'[v] = env[v]
      BY <1>3, <2>5 DEF Due
    <3>2. ASSUME Live(Plan[insn], pc + 1, v)
          PROVE  /\ Live(Plan[insn], pc, v) /\ env[v] \in Slots /\ slots[env[v]].used
                 /\ slots[env[v]].own = v /\ slots'[env[v]] = slots[env[v]]
      BY <1>2, <1>3, <2>1, <2>3, <2>5, <3>1, <3>2 DEF Backed
    <3>3. \A n \in Nat : Defined(insn, Plan[insn], pc + 1, v, n) => Defined(insn, Plan[insn], pc, v, n)
      BY <2>2, <2>3, <2>5
    <3> QED BY <1>1, <3>1, <3>2, <3>3 DEF Backed
  <2> QED BY <2>4, <2>5
<1> QED BY <1>5

(* A kreg freed or written, and a step that touches none.                  *)
LEMMA OthersStayBacked ==
  ASSUME Due, ~Binds(Plan[insn][pc], Plan[insn][pc].v), insn' = insn, Advance, env' = env,
         \A v \in Vars :
           env[v] \in Slots /\ slots[env[v]].used /\ slots[env[v]].own = v
             /\ slots[env[v]].def \in Nat /\ ~Frees(Plan[insn][pc], v) =>
           /\ slots'[env[v]].used /\ slots'[env[v]].own = v
           /\ slots'[env[v]].def \in Nat /\ slots[env[v]].def <= slots'[env[v]].def
           /\ Fills(Plan[insn][pc], v) => Plan[insn][pc].dst.w <= slots'[env[v]].def
  PROVE  \A v \in Vars : Backed(v)'
<1> DEFINE st == Plan[insn][pc]
<1>1. insn \in Insns /\ pc \in 1..Len(Plan[insn]) /\ pc \in Nat \ {0} /\ pc' = pc + 1
  BY DEF Due, TypeOK, Advance, Skip
<1>2. st.dst.w \in Nat
  BY <1>1, CodegenAssumption DEF HasOperands
<1>3. SUFFICES ASSUME NEW v \in Vars PROVE Backed(v)'
  OBVIOUS
<1>4. ~Binds(st, v)
  BY DEF Binds
<1>5. Live(Plan[insn], pc + 1, v) => Live(Plan[insn], pc, v) /\ ~Frees(st, v)
  <2> HIDE DEF st
  <2>1. Live(Plan[insn], pc + 1, v) => Binds(st, v) \/ (Live(Plan[insn], pc, v) /\ ~Frees(st, v))
    BY <1>1, LiveNext DEF st
  <2> QED BY <1>4, <2>1
<1>6. \A n \in Nat : Defined(insn, Plan[insn], pc + 1, v, n) =>
        \/ Fills(st, v) /\ n <= st.dst.w
        \/ Defined(insn, Plan[insn], pc, v, n)
  <2>1. Fills(st, v) => Bytes(insn, st) = st.dst.w
    BY DEF Bytes, Fills
  <2> HIDE DEF st
  <2>2. \A n \in Nat : Defined(insn, Plan[insn], pc + 1, v, n) =>
          \/ (Binds(st, v) \/ Fills(st, v)) /\ n <= Bytes(insn, st)
          \/ Defined(insn, Plan[insn], pc, v, n)
    BY <1>1, DefinedNext DEF st
  <2> QED BY <1>4, <2>1, <2>2
<1>7. ASSUME Live(Plan[insn], pc + 1, v)
      PROVE  /\ env[v] \in Slots /\ slots'[env[v]].used /\ slots'[env[v]].own = v
             /\ \A n \in Nat : Defined(insn, Plan[insn], pc + 1, v, n) => n <= slots'[env[v]].def
  <2>1. /\ env[v] \in Slots /\ slots[env[v]].used /\ slots[env[v]].own = v
        /\ slots[env[v]].def \in Nat
        /\ \A n \in Nat : Defined(insn, Plan[insn], pc, v, n) => n <= slots[env[v]].def
    <3>1. Backed(v) /\ Sizes /\ Live(Plan[insn], pc, v)
      BY <1>5, <1>7 DEF Due
    <3> QED BY <3>1 DEF Backed, Sizes
  <2>2. /\ slots'[env[v]].used /\ slots'[env[v]].own = v
        /\ slots'[env[v]].def \in Nat /\ slots[env[v]].def <= slots'[env[v]].def
        /\ Fills(st, v) => st.dst.w <= slots'[env[v]].def
    BY <1>5, <1>7, <2>1
  <2> QED BY <1>2, <1>6, <2>1, <2>2, SMT
<1> QED BY <1>1, <1>7 DEF Backed

(* No step leaves a kreg with an ill number of defined bytes.              *)
LEMMA SizesInductive ==
  ASSUME TypeOK, Sizes, [Next]_vars PROVE Sizes'
<1> USE DEF Sizes
<1>1. ASSUME NEW s \in Slots, NEW v, NEW def \in Nat, NEW val, Bind(v, s, def, val) PROVE Sizes'
  BY <1>1 DEF Bind, Kreg, TypeOK
<1>2. ASSUME NEW st, GiveUp(st) PROVE Sizes'
  BY <1>2 DEF GiveUp, Freed, Kreg
<1>3. result = "none" => Plan[insn][pc].w \in Nat /\ Plan[insn][pc].dst.w \in Nat
  BY CodegenAssumption DEF TypeOK, HasOperands
<1>4. PtrSize(insn) \in Nat
  BY DEF PtrSize
<1>5. CASE Load
  BY <1>5, <1>1, <1>2, <1>3 DEF Load, Running, FreeSlots
<1>6. CASE LoadAddress
  BY <1>6, <1>1, <1>2, <1>4 DEF LoadAddress, Running, FreeSlots
<1>7. CASE AllocKreg
  BY <1>7, <1>1, <1>2 DEF AllocKreg, Running, FreeSlots
<1>8. CASE Widen
  BY <1>8, <1>1, <1>3 DEF Widen, Running, FreeSlots
<1>9. CASE FreeKreg
  BY <1>9 DEF FreeKreg, Freed, Kreg
<1>10. CASE StoreOperand
  BY <1>10, <1>2 DEF StoreOperand
<1>11. CASE EmitToKreg
  <2>1. CASE env[Plan[insn][pc].dst.v] = NoSlot
    BY <1>11, <2>1 DEF EmitToKreg
  <2>2. CASE env[Plan[insn][pc].dst.v] # NoSlot
    <3> DEFINE s   == env[Plan[insn][pc].dst.v]
               def == IF slots[s].def > Plan[insn][pc].dst.w THEN slots[s].def ELSE Plan[insn][pc].dst.w
    <3>1. ASSUME NEW t \in Slots PROVE slots'[t] = slots[t] \/ (t = s /\ slots'[t].def = def)
      <4>1. PICK val : slots' = [slots EXCEPT ![s] = Kreg(@.used, @.own, def, val)]
        BY <1>11, <2>2 DEF EmitToKreg
      <4> HIDE DEF def
      <4> QED BY <4>1 DEF Kreg, TypeOK
    <3>2. Plan[insn][pc].dst.w \in Nat
      BY <1>3, <1>11 DEF EmitToKreg, Running
    <3> QED BY <3>1, <3>2
  <2> QED BY <2>1, <2>2
<1>12. CASE EmitToArch \/ Return \/ Begin
  BY <1>12 DEF EmitToArch, Return, Begin
<1>13. CASE Leave \/ NextFunction
  <2>1. \A used : Stale(used).def = 0
    BY DEF Stale, Kreg
  <2>2. \A s \in Slots : slots'[s].def = 0
    <3>1. CASE Leave
      BY <3>1, <2>1 DEF Leave
    <3>2. CASE NextFunction
      BY <3>2, <2>1 DEF NextFunction
    <3> QED BY <1>13, <3>1, <3>2
  <2> QED BY <2>2
<1>14. CASE UNCHANGED vars
  BY <1>14 DEF vars
<1> HIDE DEF Sizes
<1> QED BY <1>14, <1>5, <1>6, <1>7, <1>8, <1>9, <1>10, <1>11, <1>12, <1>13 DEF Next

(* What makes the next step of a plan one that cannot go wrong unseen.     *)
Guarded(st) ==
  /\ st.do \in {"load", "addr"} => st.checked
  /\ st.do = "widen" \/ (st.do = "alloc" /\ ~st.checked) => FreeSlots # {}

(* Soundness is kept by every step of a well-scoped plan that is guarded.  *)
LEMMA SoundStep ==
  ASSUME TypeOK, Sizes, Sound, [Next]_vars,
         result = "none" => WellScoped(insn, Plan[insn]) /\ Guarded(Plan[insn][pc])
  PROVE  Sound'
<1> DEFINE st == Plan[insn][pc]
<1>1. result = "none" => Due
  BY DEF Due, Sound
<1>2. ASSUME result' # "none", bad' = bad PROVE Sound'
  BY <1>2 DEF Sound
<1>3. ASSUME GiveUp(st), bad' = bad PROVE Sound'
  BY <1>2, <1>3 DEF GiveUp
<1>4. ASSUME NEW s \in FreeSlots, NEW def \in Nat, NEW val, Bind(st.v, s, def, val), result = "none",
             Binds(st, st.v), Bytes(insn, st) <= def, insn' = insn, Advance, bad' = {}
      PROVE  Sound'
  BY <1>1, <1>4, BoundIsBacked DEF Sound
<1>5. result = "none" => insn \in Insns /\ pc \in 1..Len(Plan[insn]) /\ st.w \in Nat /\ st.dst.w \in Nat
  BY CodegenAssumption DEF TypeOK, HasOperands
<1>6. ASSUME result = "none", st.do \in {"widen", "store", "emit"} PROVE Malformed(st) = {}
  BY <1>1, <1>6, ScopedIsWellFormed
<1>7. ASSUME result = "none", st.do \in {"store", "emit"}, insn' = insn, Advance,
             env' = env, slots' = slots, bad' = {}, ~(st.do = "emit" /\ st.dst.at = "tmp")
      PROVE  Sound'
  <2>1. ~Binds(st, st.v) /\ \A v \in Vars : ~Fills(st, v)
    BY <1>7 DEF Binds, Fills
  <2>2. \A n \in Nat : n <= n
    OBVIOUS
  <2>3. \A v \in Vars : Backed(v)'
    BY <1>1, <1>7, <2>1, <2>2, OthersStayBacked
  <2> QED BY <1>7, <2>3 DEF Sound
<1>8. CASE Load
  <2>1. result = "none" /\ st.do = "load" /\ st.checked /\ insn' = insn
    BY <1>8 DEF Load, Running, Guarded
  <2>2. Unsupported(Deref(st.v, st.w)) = {}
    BY <1>1, <1>5, <2>1, SupportedIsTaken DEF WellScoped
  <2>3. Binds(st, st.v) /\ Bytes(insn, st) = st.w
    BY <2>1 DEF Binds, Bytes
  <2>4. CASE GiveUp(st) /\ UNCHANGED bad
    BY <1>3, <2>4
  <2>5. CASE /\ \E s \in FreeSlots : Bind(st.v, s, st.w, Cut(arch[<<"m", 0>>], Covers(st.w, insn.es)))
             /\ bad' = bad \union Unsupported(Deref(st.v, st.w))
             /\ Advance
    <3>1. PICK s \in FreeSlots : Bind(st.v, s, st.w, Cut(arch[<<"m", 0>>], Covers(st.w, insn.es)))
      BY <2>5
    <3>2. bad' = {} /\ Bytes(insn, st) <= st.w
      BY <1>5, <2>1, <2>2, <2>3, <2>5 DEF Sound
    <3> QED BY <1>4, <1>5, <2>1, <2>3, <2>5, <3>1, <3>2
  <2> QED BY <1>8, <2>1, <2>4, <2>5 DEF Load
<1>9. CASE LoadAddress
  <2>1. result = "none" /\ st.do = "addr" /\ st.checked /\ insn' = insn /\ bad' = bad
    BY <1>9 DEF LoadAddress, Running, Guarded
  <2>2. Binds(st, st.v) /\ Bytes(insn, st) = PtrSize(insn) /\ PtrSize(insn) \in Nat
    BY <2>1 DEF Binds, Bytes, PtrSize
  <2>3. CASE GiveUp(st)
    BY <1>3, <2>1, <2>3
  <2>4. CASE \E s \in FreeSlots : Bind(st.v, s, PtrSize(insn), AddrVal(st.n)) /\ Advance
    <3>1. PICK s \in FreeSlots : Bind(st.v, s, PtrSize(insn), AddrVal(st.n)) /\ Advance
      BY <2>4
    <3>2. Bytes(insn, st) <= PtrSize(insn) /\ bad' = {}
      BY <2>1, <2>2 DEF Sound
    <3> QED BY <1>4, <2>1, <2>2, <3>1, <3>2
  <2> QED BY <1>9, <2>1, <2>3, <2>4 DEF LoadAddress
<1>10. CASE AllocKreg
  <2>1. /\ result = "none" /\ st.do = "alloc" /\ insn' = insn /\ bad' = bad
        /\ FreeSlots = {} => st.checked
    BY <1>10 DEF AllocKreg, Running, Guarded
  <2>2. Binds(st, st.v) /\ Bytes(insn, st) = 0
    BY <2>1 DEF Binds, Bytes
  <2>3. CASE GiveUp(st)
    BY <1>3, <2>1, <2>3
  <2>4. CASE \E s \in FreeSlots : Bind(st.v, s, 0, JunkVal) /\ Advance
    <3>1. PICK s \in FreeSlots : Bind(st.v, s, 0, JunkVal) /\ Advance
      BY <2>4
    <3>2. Bytes(insn, st) <= 0 /\ bad' = {}
      BY <2>1, <2>2 DEF Sound
    <3> QED BY <1>4, <2>1, <2>2, <3>1, <3>2
  <2> QED BY <1>10, <2>1, <2>3, <2>4 DEF AllocKreg
<1>11. CASE Widen
  <2>1. result = "none" /\ st.do = "widen" /\ insn' = insn /\ Advance /\ FreeSlots # {}
    BY <1>11 DEF Widen, Running, Guarded
  <2>2. Binds(st, st.v) /\ Bytes(insn, st) = st.w
    BY <2>1 DEF Binds, Bytes
  <2>3. PICK s \in FreeSlots : Bind(st.v, s, st.w, Computes(st))
    BY <1>11, <2>1 DEF Widen
  <2>4. bad' = {} /\ Bytes(insn, st) <= st.w
    BY <1>5, <1>6, <1>11, <2>1, <2>2 DEF Sound, Widen
  <2> QED BY <1>4, <1>5, <2>1, <2>2, <2>3, <2>4
<1>12. CASE StoreOperand
  <2>1. result = "none" /\ st.do = "store" /\ insn' = insn
    BY <1>12 DEF StoreOperand, Running
  <2>2. \/ GiveUp(st) /\ bad' = bad
        \/ Advance /\ slots' = slots /\ env' = env /\ bad' = {}
    <3>1. Malformed(st) = {} /\ bad = {}
      BY <1>6, <2>1 DEF Sound
    <3>2. \/ bad' = bad \union Malformed(st) /\ Advance /\ UNCHANGED <<slots, env>>
          \/ GiveUp(st) /\ UNCHANGED <<arch, bad>>
          \/ Advance /\ UNCHANGED <<arch, slots, env, bad>>
      BY <1>12, Zenon DEF StoreOperand
    <3> QED BY <3>1, <3>2
  <2> QED BY <1>3, <1>7, <2>1, <2>2
<1>13. CASE EmitToArch
  <2>1. result = "none" /\ st.do = "emit" /\ st.dst.at # "tmp" /\ insn' = insn /\ Advance
        /\ slots' = slots /\ env' = env
    BY <1>13 DEF EmitToArch, Running
  <2>2. bad' = {}
    BY <1>6, <1>13, <2>1 DEF EmitToArch, Sound
  <2> QED BY <1>7, <2>1, <2>2
<1>14. CASE EmitToKreg
  <2> DEFINE u == st.dst.v
  <2>1. result = "none" /\ st.do = "emit" /\ st.dst.at = "tmp" /\ insn' = insn /\ Advance /\ env' = env
    BY <1>14 DEF EmitToKreg, Running
  <2>2. Live(Plan[insn], pc, u)
    BY <1>5, <2>1 DEF WellScoped
  <2>3. u \in Vars
    BY <1>5, <2>1, <2>2, LiveInVars
  <2>4. env[u] \in Slots /\ slots[env[u]].used /\ slots[env[u]].own = u /\ slots[env[u]].def \in Nat
    BY <1>1, <2>1, <2>2, <2>3 DEF Due, Backed, Sizes
  <2>5. env[u] # NoSlot
    BY <2>4, CodegenAssumption
  <2>6. bad' = {}
    BY <1>6, <1>14, <2>1, <2>5 DEF EmitToKreg, Sound
  <2>7. PICK val : slots' = [slots EXCEPT ![env[u]] =
                               Kreg(@.used, @.own, IF @.def > st.dst.w THEN @.def ELSE st.dst.w, val)]
    BY <1>14, <2>5 DEF EmitToKreg
  <2>8. ~Binds(st, st.v) /\ \A v : Fills(st, v) => v = u
    BY <2>1 DEF Binds, Fills
  <2>9. ASSUME NEW v \in Vars, env[v] \in Slots, slots[env[v]].used, slots[env[v]].own = v,
               slots[env[v]].def \in Nat
        PROVE  /\ slots'[env[v]].used /\ slots'[env[v]].own = v
               /\ slots'[env[v]].def \in Nat /\ slots[env[v]].def <= slots'[env[v]].def
               /\ Fills(st, v) => st.dst.w <= slots'[env[v]].def
    <3>1. CASE v = u
      <4> DEFINE k   == slots[env[u]]
                 def == IF k.def > st.dst.w THEN k.def ELSE st.dst.w
      <4>1. slots'[env[v]] = Kreg(k.used, k.own, def, val)
        BY <2>4, <2>7, <3>1 DEF TypeOK
      <4>2. k.def \in Nat /\ st.dst.w \in Nat
        BY <1>5, <2>1, <2>4
      <4>3. def \in Nat /\ k.def <= def /\ st.dst.w <= def
        <5> HIDE DEF k, st
        <5> QED BY <4>2
      <4> HIDE DEF def
      <4>4. slots'[env[v]].used = k.used /\ slots'[env[v]].own = k.own /\ slots'[env[v]].def = def
        BY <4>1 DEF Kreg
      <4> QED BY <2>9, <3>1, <4>3, <4>4
    <3>2. CASE v # u
      <4>1. slots'[env[v]] = slots[env[v]]
        BY <2>4, <2>7, <2>9, <3>2 DEF TypeOK
      <4> QED BY <2>8, <2>9, <3>2, <4>1
    <3> QED BY <3>1, <3>2
  <2>10. \A v \in Vars : Backed(v)'
    BY <1>1, <2>1, <2>8, <2>9, OthersStayBacked
  <2> QED BY <2>6, <2>10 DEF Sound
<1>15. CASE FreeKreg
  <2> DEFINE u == st.v
  <2>1. result = "none" /\ st.do = "free" /\ insn' = insn /\ Advance /\ env' = env /\ bad' = {}
    BY <1>15 DEF FreeKreg, Running, Sound
  <2>2. Live(Plan[insn], pc, u)
    BY <1>5, <2>1 DEF WellScoped
  <2>3. u \in Vars
    BY <1>5, <2>1, <2>2, LiveInVars
  <2>4. env[u] \in Slots /\ slots[env[u]].own = u
    BY <1>1, <2>1, <2>2, <2>3 DEF Due, Backed
  <2>5. ~Binds(st, st.v) /\ \A v : ~Fills(st, v) /\ (Frees(st, v) <=> v = u)
    BY <2>1 DEF Binds, Fills, Frees
  <2>6. ASSUME NEW v \in Vars, env[v] \in Slots, slots[env[v]].used, slots[env[v]].own = v, v # u
        PROVE  slots'[env[v]] = slots[env[v]]
    BY <1>15, <2>4, <2>6 DEF FreeKreg
  <2>7. \A n \in Nat : n <= n
    OBVIOUS
  <2>8. \A v \in Vars : Backed(v)'
    BY <1>1, <2>1, <2>5, <2>6, <2>7, OthersStayBacked
  <2> QED BY <2>1, <2>8 DEF Sound
<1>16. CASE Return
  BY <1>2, <1>16 DEF Return, Final
<1>17. CASE Leave \/ NextFunction
  BY <1>17 DEF Leave, NextFunction, Idle, Sound
<1>18. CASE Begin
  <2>1. pc' = 1 /\ bad' = {}
    BY <1>18 DEF Begin, Sound, TypeOK
  <2>2. \A plan, v : ~Live(plan, 1, v)
    BY DEF Live
  <2> QED BY <2>1, <2>2 DEF Sound, Backed
<1>19. CASE UNCHANGED vars
  BY <1>19 DEF vars, Sound, Backed
<1> HIDE DEF st
<1> QED BY <1>8, <1>9, <1>10, <1>11, <1>12, <1>13, <1>14, <1>15, <1>16, <1>17, <1>18, <1>19 DEF Next

----------------------------------------------------------------------------
(* The bytes defined of a kreg are always counted by a natural number.     *)
THEOREM SizesHold == Spec => []Sizes
<1>1. Init => Sizes
  <2>1. Stale(FALSE).def = 0
    BY DEF Stale, Kreg
  <2>2. Init => \A s \in Slots : slots[s].def = 0
    <3>1. Init => \A s \in Slots : slots[s] = Stale(FALSE)
      BY DEF Init
    <3> QED BY <2>1, <3>1, Zenon
  <2> QED BY <2>2 DEF Sizes
<1>2. TypeOK /\ Sizes /\ [Next]_vars => Sizes'
  BY SizesInductive
<1> QED BY <1>1, <1>2, TypeCorrect, PTL DEF Spec

(* Whatever fails, a plan on which nothing goes on after a failure never   *)
(* shows a failure in its microcode, if every other plan is well scoped.   *)
SoundUnlessFallsBack ==
  result = "idle" \/ ~FallsBack(Plan[insn]) => Sound

(* Malformed microcode comes from unchecked failures only, with any number *)
(* of kregs.                                                               *)
THEOREM OnlyFallbacksMisreadHolds ==
  ASSUME \A i \in Insns : FallsBack(Plan[i]) \/ WellScoped(i, Plan[i])
  PROVE  Spec => []OnlyFallbacksMisread
<1>1. Init => SoundUnlessFallsBack
  BY DEF Init, SoundUnlessFallsBack, Sound
<1>2. TypeOK /\ Sizes /\ SoundUnlessFallsBack /\ [Next]_vars => SoundUnlessFallsBack'
  <2> SUFFICES ASSUME TypeOK, Sizes, SoundUnlessFallsBack, [Next]_vars PROVE SoundUnlessFallsBack'
    OBVIOUS
  <2>1. ASSUME result = "none", ~FallsBack(Plan[insn])
        PROVE  WellScoped(insn, Plan[insn]) /\ Guarded(Plan[insn][pc])
    BY <2>1 DEF TypeOK, FallsBack, Guarded
  <2>2. ASSUME result = "idle" \/ ~FallsBack(Plan[insn]) PROVE Sound'
    <3>1. result = "none" => WellScoped(insn, Plan[insn]) /\ Guarded(Plan[insn][pc])
      BY <2>1, <2>2
    <3> QED BY <2>2, <3>1, SoundStep DEF SoundUnlessFallsBack
  <2>3. CASE Leave \/ NextFunction
    BY <2>3 DEF Leave, NextFunction, Idle, SoundUnlessFallsBack, Sound
  <2>4. CASE Begin \/ UNCHANGED vars
    BY <2>2, <2>4 DEF Begin, vars, SoundUnlessFallsBack
  <2>5. CASE Load \/ LoadAddress \/ AllocKreg \/ Widen \/ FreeKreg \/ StoreOperand \/ EmitToKreg \/ EmitToArch \/ Return
    <3>1. insn' = insn /\ result' # "idle"
      BY <2>5 DEF Load, LoadAddress, AllocKreg, Widen, FreeKreg, StoreOperand, EmitToKreg, EmitToArch,
                  Return, Running, Advance, Skip, GiveUp, Final
    <3> QED BY <2>2, <3>1 DEF SoundUnlessFallsBack
  <2> QED BY <2>3, <2>4, <2>5 DEF Next
<1>3. TypeOK /\ SoundUnlessFallsBack => OnlyFallbacksMisread
  BY DEF SoundUnlessFallsBack, OnlyFallbacksMisread, Sound
<1> QED BY <1>1, <1>2, <1>3, TypeCorrect, SizesHold, PTL DEF Spec

----------------------------------------------------------------------------
(* Kregs: a step takes at most one, so that those free at the start last   *)
(* for as many steps.                                                      *)
Spare == result = "none" => Cardinality(FreeSlots) + pc > Headroom

(* No step allocates two kregs,                                            *)
LEMMA OneAtMost ==
  ASSUME TypeOK, [Next]_vars, result = "none", result' = "none"
  PROVE  \E s : FreeSlots \ {s} \subseteq FreeSlots'
<1>1. ASSUME NEW v, NEW s \in FreeSlots, NEW def, NEW val, Bind(v, s, def, val)
      PROVE  \E t : FreeSlots \ {t} \subseteq FreeSlots'
  <2>1. FreeSlots \ {s} \subseteq FreeSlots'
    BY <1>1 DEF Bind, FreeSlots, TypeOK
  <2> QED BY <2>1
<1>2. ASSUME \A s \in Slots : slots'[s].used => slots[s].used
      PROVE  \E t : FreeSlots \ {t} \subseteq FreeSlots'
  BY <1>2 DEF FreeSlots
<1>3. \A st : ~GiveUp(st)
  BY DEF GiveUp
<1>4. CASE Load
  BY <1>4, <1>1, <1>2, <1>3 DEF Load
<1>5. CASE LoadAddress
  BY <1>5, <1>1, <1>2, <1>3 DEF LoadAddress
<1>6. CASE AllocKreg
  BY <1>6, <1>1, <1>2, <1>3 DEF AllocKreg
<1>7. CASE Widen
  BY <1>7, <1>1, <1>2 DEF Widen
<1>8. CASE FreeKreg
  BY <1>8, <1>2 DEF FreeKreg, Freed, Kreg
<1>9. CASE StoreOperand
  BY <1>9, <1>2, <1>3 DEF StoreOperand
<1>10. CASE EmitToKreg
  <2>1. \A s \in Slots : slots'[s].used => slots[s].used
    BY <1>10 DEF EmitToKreg, Kreg, TypeOK
  <2> QED BY <1>2, <2>1
<1>11. CASE EmitToArch \/ Return \/ Leave \/ NextFunction \/ Begin
  BY <1>11, <1>2 DEF EmitToArch, Return, Leave, NextFunction, Begin, Idle, Final
<1>12. CASE UNCHANGED vars
  BY <1>12, <1>2 DEF vars
<1> QED BY <1>4, <1>5, <1>6, <1>7, <1>8, <1>9, <1>10, <1>11, <1>12 DEF Next

(* and every one moves on in its plan.                                     *)
LEMMA MovesOn ==
  ASSUME TypeOK, [Next]_vars, result = "none", result' = "none"
  PROVE  UNCHANGED vars \/ (pc' \in Nat /\ pc' > pc)
<1>1. CASE Load \/ LoadAddress \/ AllocKreg \/ Widen \/ FreeKreg \/ StoreOperand \/ EmitToKreg \/ EmitToArch
  <2>1. Plan[insn][pc].do \notin Final /\ GoesOn
    BY <1>1 DEF Load, LoadAddress, AllocKreg, Widen, FreeKreg, StoreOperand, EmitToKreg, EmitToArch,
                Running, GiveUp, GoesOn, Final
  <2>2. Len(Plan[insn]) \in Nat
    BY CodegenAssumption DEF TypeOK
  <2> QED BY <2>1, <2>2, SuccessorExists
<1>2. CASE Return \/ Leave \/ NextFunction \/ Begin
  BY <1>2 DEF Return, Leave, NextFunction, Begin, Idle, Final
<1> QED BY <1>1, <1>2 DEF Next

(* With Headroom kregs at its start, a handler has not run out of them     *)
(* before that many steps.                                                 *)
THEOREM SpareHolds ==
  ASSUME IsFiniteSet(Slots)
  PROVE  Spec => []Spare
<1>1. Init => Spare
  BY DEF Init, Spare
<1>2. TypeOK /\ Spare /\ [Next]_vars => Spare'
  <2> SUFFICES ASSUME TypeOK, Spare, [Next]_vars PROVE Spare'
    OBVIOUS
  <2>1. /\ IsFiniteSet(FreeSlots) /\ Cardinality(FreeSlots) \in Nat
        /\ IsFiniteSet(FreeSlots') /\ Cardinality(FreeSlots') \in Nat
    <3>1. FreeSlots \subseteq Slots /\ FreeSlots' \subseteq Slots
      BY DEF FreeSlots
    <3> QED BY <3>1, FS_Subset, FS_CardinalityType
  <2>2. CASE result = "none" /\ result' = "none"
    <3>1. PICK s : FreeSlots \ {s} \subseteq FreeSlots'
      BY <2>2, OneAtMost
    <3>2. Cardinality(FreeSlots') >= Cardinality(FreeSlots) - 1
      <4>1. /\ IsFiniteSet(FreeSlots \ {s})
            /\ Cardinality(FreeSlots \ {s}) \in {Cardinality(FreeSlots), Cardinality(FreeSlots) - 1}
        BY <2>1, FS_RemoveElement
      <4>2. Cardinality(FreeSlots \ {s}) <= Cardinality(FreeSlots')
        BY <2>1, <3>1, FS_Subset
      <4> QED BY <2>1, <4>1, <4>2
    <3>3. pc \in Nat /\ Headroom \in Nat
      BY <2>2, CodegenAssumption DEF TypeOK
    <3>4. CASE UNCHANGED vars
      BY <2>2, <3>4 DEF vars, Spare, FreeSlots
    <3>5. CASE pc' \in Nat /\ pc' > pc
      BY <2>1, <2>2, <3>2, <3>3, <3>5 DEF Spare
    <3> QED BY <2>2, <3>4, <3>5, MovesOn
  <2>3. CASE Begin
    <3>1. FreeSlots' = FreeSlots /\ pc' = 1 /\ Cardinality(FreeSlots) >= Headroom /\ Headroom \in Nat
      BY <2>3, CodegenAssumption DEF Begin, FreeSlots, TypeOK
    <3> QED BY <2>1, <3>1 DEF Spare
  <2>4. CASE result # "none" /\ ~Begin /\ result' = "none"
    BY <2>4 DEF Next, vars, Load, LoadAddress, AllocKreg, Widen, FreeKreg, StoreOperand, EmitToKreg,
                EmitToArch, Running, Return, Leave, NextFunction, Idle
  <2> QED BY <2>2, <2>3, <2>4 DEF Spare
<1> QED BY <1>1, <1>2, TypeCorrect, PTL DEF Spec

(* With well-scoped plans that check their loads and widen only while      *)
(* kregs are sure to be left, Hex-Rays' verifier has nothing to say.       *)
THEOREM WellFormedHolds ==
  ASSUME IsFiniteSet(Slots), \A i \in Insns : Dependable(Plan[i]) /\ WellScoped(i, Plan[i])
  PROVE  Spec => []WellFormed
<1>1. Init => Sound
  BY DEF Init, Sound
<1>2. TypeOK /\ Sizes /\ Spare /\ Sound /\ [Next]_vars => Sound'
  <2> SUFFICES ASSUME TypeOK, Sizes, Spare, Sound, [Next]_vars PROVE Sound'
    OBVIOUS
  <2>1. ASSUME result = "none"
        PROVE  WellScoped(insn, Plan[insn]) /\ Guarded(Plan[insn][pc])
    <3>1. insn \in Insns /\ pc \in 1..Len(Plan[insn]) /\ Headroom \in Nat
      BY <2>1, CodegenAssumption DEF TypeOK
    <3>2. FreeSlots = {} => pc > Headroom
      BY <2>1, <3>1, FS_EmptySet DEF Spare
    <3> QED BY <3>1, <3>2 DEF Dependable, Guarded
  <2> QED BY <2>1, SoundStep
<1>3. Sound => WellFormed
  BY DEF Sound, WellFormed
<1> QED BY <1>1, <1>2, <1>3, TypeCorrect, SizesHold, SpareHolds, PTL DEF Spec

----------------------------------------------------------------------------
(* Paper. The meaning of a plan is defined by recursion on its steps; that *)
(* there is such a meaning takes induction, which rests on the natural     *)
(* numbers being well founded.                                             *)
LEMMA LeastElement ==
  ASSUME NEW T \in SUBSET Nat, T # {}
  PROVE  \E m \in T : \A n \in T : m <= n
<1> DEFINE R == OpToRel(<, Nat)
<1>1. IsWellFoundedOn(R, Nat)
  BY NatLessThanWellFounded
<1>2. \A m, n \in Nat : m < n => <<m, n>> \in R
  BY DEF OpToRel
<1> HIDE DEF R
<1>3. PICK m \in T : \A n \in T : ~(<<n, m>> \in R)
  BY <1>1, WFMin
<1>4. ASSUME NEW n \in T PROVE m <= n
  <2>1. ~(n < m)
    BY <1>2, <1>3
  <2> QED BY <2>1
<1> QED BY <1>4

(* A set of numbers that holds 0 and with every number the next holds all. *)
LEMMA Induction ==
  ASSUME NEW T \in SUBSET Nat, 0 \in T, \A n \in T : n + 1 \in T
  PROVE  Nat \subseteq T
<1> SUFFICES ASSUME Nat \ T # {} PROVE FALSE
  OBVIOUS
<1>1. PICK m \in Nat \ T : \A n \in Nat \ T : m <= n
  BY LeastElement
<1>2. m - 1 \in Nat /\ m - 1 \in T
  BY <1>1
<1> QED BY <1>1, <1>2

(* The first n steps of a plan have a meaning, for every n.                *)
Unrolled(i, n, f) ==
  f = [k \in 1..n |-> IF k = 1 THEN Fresh ELSE Ran(i, f[k - 1], Plan[i][k - 1])]

LEMMA UnrollingsExist ==
  ASSUME NEW i PROVE \A n \in Nat : \E f : Unrolled(i, n, f)
<1> DEFINE T == {n \in Nat : \E f : Unrolled(i, n, f)}
<1>1. 0 \in T
  <2> DEFINE f == [k \in 1..0 |-> Fresh]
  <2>1. Unrolled(i, 0, f)
    BY DEF Unrolled
  <2> QED BY <2>1
<1>2. ASSUME NEW n \in T PROVE n + 1 \in T
  <2>1. PICK f : Unrolled(i, n, f)
    OBVIOUS
  <2> DEFINE next == IF n = 0 THEN Fresh ELSE Ran(i, f[n], Plan[i][n])
             g == [k \in 1..n + 1 |-> IF k = n + 1 THEN next ELSE f[k]]
  <2>2. ASSUME NEW k \in 1..n + 1
        PROVE  g[k] = IF k = 1 THEN Fresh ELSE Ran(i, g[k - 1], Plan[i][k - 1])
    <3>1. CASE k = n + 1
      <4>1. k # 1 => k - 1 = n /\ n \in 1..n + 1 /\ n # n + 1 /\ n # 0
        BY <3>1
      <4> HIDE DEF next
      <4>2. g[k] = next /\ (k # 1 => g[k - 1] = f[n])
        BY <3>1, <4>1
      <4> QED BY <3>1, <4>1, <4>2 DEF next
    <3>2. CASE k # n + 1
      <4>1. k \in 1..n /\ (k # 1 => k - 1 \in 1..n)
        BY <3>2
      <4>2. f[k] = IF k = 1 THEN Fresh ELSE Ran(i, f[k - 1], Plan[i][k - 1])
        BY <2>1, <4>1 DEF Unrolled
      <4> HIDE DEF next
      <4>3. g[k] = f[k] /\ (k # 1 => g[k - 1] = f[k - 1])
        BY <3>2, <4>1
      <4> QED BY <4>2, <4>3
    <3> QED BY <3>1, <3>2
  <2>3. Unrolled(i, n + 1, g)
    <3> HIDE DEF next
    <3>1. DOMAIN g = 1..n + 1 /\ g = [k \in 1..n + 1 |-> g[k]]
      OBVIOUS
    <3> HIDE DEF g
    <3> QED BY <2>2, <3>1 DEF Unrolled
  <2> QED BY <2>3
<1> HIDE DEF T
<1>3. T \in SUBSET Nat
  BY DEF T
<1>4. Nat \subseteq T
  BY <1>1, <1>2, <1>3, Induction
<1> QED BY <1>4 DEF T

(* So Meaning is what its definition says: the first step finds nothing    *)
(* done, and each one what the step before it has made of what that found. *)
LEMMA MeaningFound ==
  ASSUME NEW i \in Insns
  PROVE  /\ Meaning(i)[1] = Fresh
         /\ \A k \in 1..Len(Plan[i]) - 1 : Meaning(i)[k + 1] = Ran(i, Meaning(i)[k], Plan[i][k])
<1> DEFINE n == Len(Plan[i])
<1>1. n \in Nat \ {0}
  BY CodegenAssumption
<1>2. \E f : Unrolled(i, n, f)
  BY <1>1, UnrollingsExist
<1>3. Meaning(i) = CHOOSE f : Unrolled(i, n, f)
  BY DEF Meaning, Unrolled
<1>4. Unrolled(i, n, Meaning(i))
  BY <1>2, <1>3
<1> HIDE DEF n
<1>5. \A k \in 1..n : Meaning(i)[k] = IF k = 1 THEN Fresh ELSE Ran(i, Meaning(i)[k - 1], Plan[i][k - 1])
  BY <1>4 DEF Unrolled
<1>6. 1 \in 1..n /\ \A k \in 1..n - 1 : k + 1 \in 1..n /\ k + 1 # 1 /\ (k + 1) - 1 = k
  BY <1>1
<1> QED BY <1>5, <1>6 DEF n

(* While a handler runs on, registers and memory are what they are on      *)
(* paper, and so is what each live temporary holds, in a kreg of its own;  *)
(* and so what MERR_OK leaves is what paper says.                          *)
Paper == Meaning(insn)[pc]
Holds(v, val) ==
  env[v] \in Slots /\ slots[env[v]].used /\ slots[env[v]].own = v /\ slots[env[v]].val = val
Follows ==
  /\ arch = [loc \in Locs |-> arch[loc]]
  /\ result = "idle" => arch = OldArch
  /\ result \in {"none", "OK"} => arch = Paper.arch
  /\ result = "none" =>
       \A v \in Vars : Live(Plan[insn], pc, v) => Holds(v, Paper.held[v])

(* A handler whose next step is due.                                       *)
Following == TypeOK /\ Follows /\ result = "none" /\ OnlyLive(Plan[insn])

(* Equal contents give equal operands and results.                         *)
LEMMA SameOutcome ==
  ASSUME NEW i, NEW c, NEW d, NEW st, HasOperands(i, st), c.arch = d.arch,
         \A j \in DOMAIN st.src :
           st.src[j].at \in {"tmp", "deref"} => c.held[st.src[j].v] = d.held[st.src[j].v]
  PROVE  /\ \A j \in DOMAIN st.src : Value(i, c, st.src[j]) = Value(i, d, st.src[j])
         /\ st.do \in {"emit", "widen"} => Outcome(i, c, st) = Outcome(i, d, st)
<1>1. ASSUME NEW j \in DOMAIN st.src PROVE Value(i, c, st.src[j]) = Value(i, d, st.src[j])
  BY DEF Value
<1>2. Result(i, c, st) = Result(i, d, st)
  <2> DEFINE args(x) == [j \in DOMAIN st.src |->
                           [val  |-> Value(i, x, st.src[j]),
                            mask |-> IF st.src[j].at = "mask" THEN st.src[j].w ELSE 0]]
  <2>1. args(c) = args(d)
    BY <1>1
  <2>2. Result(i, c, st) = ResVal(args(c)) /\ Result(i, d, st) = ResVal(args(d))
    BY DEF Result
  <2> HIDE DEF args
  <2> QED BY <2>1, <2>2
<1>3. st.how \in {"mov", "xdu", "f2f"} => Value(i, c, st.src[1]) = Value(i, d, st.src[1])
  BY <1>1 DEF HasOperands
<1>4. st.how = "sfn" => Value(i, c, FirstSource(st)) = Value(i, d, FirstSource(st))
  BY <1>1, FirstSourceGiven
<1>5. Outcome(i, c, st) = Outcome(i, d, st)
  BY <1>2, <1>3, <1>4 DEF Outcome, Converted
<1> QED BY <1>1, <1>5

(* The next step on paper,                                                 *)
LEMMA PaperNext ==
  ASSUME Following, Plan[insn][pc].do \notin Final, insn' = insn, Advance
  PROVE  Paper' = Ran(insn, Paper, Plan[insn][pc])
<1>1. insn \in Insns /\ pc \in 1..Len(Plan[insn]) /\ Len(Plan[insn]) \in Nat /\ pc' = pc + 1
  BY CodegenAssumption DEF Following, TypeOK, Advance, Skip
<1>2. pc # Len(Plan[insn])
  BY <1>1, CodegenAssumption
<1>3. pc \in 1..Len(Plan[insn]) - 1
  BY <1>1, <1>2
<1>4. Meaning(insn)[pc + 1] = Ran(insn, Meaning(insn)[pc], Plan[insn][pc])
  BY <1>1, <1>3, MeaningFound
<1> QED BY <1>1, <1>4 DEF Paper

(* and what it finds is what the machine finds.                            *)
LEMMA FoundOnPaper ==
  ASSUME Following, Plan[insn][pc].do \in {"widen", "store", "emit"}
  PROVE  /\ \A j \in DOMAIN Plan[insn][pc].src :
              Value(insn, Contents, Plan[insn][pc].src[j]) = Value(insn, Paper, Plan[insn][pc].src[j])
         /\ Plan[insn][pc].do \in {"emit", "widen"} =>
              Computes(Plan[insn][pc]) = Outcome(insn, Paper, Plan[insn][pc])
<1> DEFINE st == Plan[insn][pc]
<1>1. insn \in Insns /\ pc \in 1..Len(Plan[insn]) /\ HasOperands(insn, st)
  BY CodegenAssumption DEF Following, TypeOK
<1>2. Contents.arch = Paper.arch
  BY DEF Contents, Following, Follows
<1>3. ASSUME NEW j \in DOMAIN st.src, st.src[j].at \in {"tmp", "deref"}
      PROVE  Contents.held[st.src[j].v] = Paper.held[st.src[j].v]
  <2> DEFINE v == st.src[j].v
  <2>1. v \in Vars /\ Live(Plan[insn], pc, v)
    BY <1>1, <1>3 DEF HasOperands, Following, OnlyLive
  <2>2. Holds(v, Paper.held[v])
    BY <2>1 DEF Following, Follows
  <2> HIDE DEF v
  <2>3. Held(v) = Paper.held[v]
    BY <2>2, CodegenAssumption DEF Holds, Held
  <2> QED BY <2>1, <2>3 DEF Contents, v
<1> HIDE DEF st
<1>4. /\ \A j \in DOMAIN st.src : Value(insn, Contents, st.src[j]) = Value(insn, Paper, st.src[j])
      /\ st.do \in {"emit", "widen"} => Outcome(insn, Contents, st) = Outcome(insn, Paper, st)
  BY <1>1, <1>2, <1>3, SameOutcome
<1> QED BY <1>4 DEF Computes, st

(* A step that leaves registers and memory alone does so on paper.         *)
LEMMA SameArch ==
  ASSUME NEW i, NEW c, NEW st, c.arch = [loc \in Locs |-> c.arch[loc]], ~WritesArch(st)
  PROVE  Ran(i, c, st).arch = c.arch
<1>1. Ran(i, c, st).arch = [loc \in Locs |-> c.arch[loc]]
  BY DEF Ran, WritesArch
<1> QED BY <1>1

(* A temporary bound to a free kreg,                                       *)
LEMMA BoundFollows ==
  ASSUME Following, NEW s \in FreeSlots, NEW def, NEW val,
         Binds(Plan[insn][pc], Plan[insn][pc].v),
         val = Filling(insn, Paper, Plan[insn][pc]),
         Bind(Plan[insn][pc].v, s, def, val), insn' = insn, arch' = arch, Advance
  PROVE  Follows'
<1> DEFINE st == Plan[insn][pc]
<1>1. /\ insn \in Insns /\ pc \in 1..Len(Plan[insn]) /\ pc \in Nat \ {0} /\ pc' = pc + 1
      /\ result' = "none"
  BY CodegenAssumption DEF Following, TypeOK, Advance, Skip
<1>2. st.v \in Vars /\ s \in Slots /\ ~slots[s].used
  BY <1>1, CodegenAssumption DEF HasOperands, Binds, FreeSlots
<1>3. /\ slots' = [slots EXCEPT ![s] = Kreg(TRUE, st.v, def, val)]
      /\ env' = [env EXCEPT ![st.v] = s]
      /\ DOMAIN slots = Slots /\ env \in [Vars -> Slots \union {NoSlot}]
  BY DEF Bind, Following, TypeOK
<1>4. st.do \notin Final /\ ~WritesArch(st) /\ \A v : ~Fills(st, v) /\ (Binds(st, v) <=> v = st.v)
  BY DEF Binds, Final, WritesArch, Fills
<1>5. Paper' = Ran(insn, Paper, st)
  BY <1>4, PaperNext
<1>6. arch' = Paper'.arch /\ arch' = [loc \in Locs |-> arch'[loc]]
  <2>1. arch = Paper.arch /\ arch = [loc \in Locs |-> arch[loc]]
    BY DEF Following, Follows
  <2>2. Paper.arch = [loc \in Locs |-> Paper.arch[loc]]
    BY <2>1
  <2> HIDE DEF st
  <2>3. Ran(insn, Paper, st).arch = Paper.arch
    BY <1>4, <2>2, SameArch
  <2> QED BY <1>5, <2>1, <2>3
<1>7. ASSUME NEW v \in Vars
      PROVE  Paper'.held[v] = IF v = st.v THEN val ELSE Paper.held[v]
  <2>1. Ran(insn, Paper, st).held[v] = IF v = st.v THEN val ELSE Paper.held[v]
    BY <1>4 DEF Ran
  <2> QED BY <1>5, <2>1
<1>8. ASSUME NEW v \in Vars, Live(Plan[insn], pc + 1, v) PROVE Holds(v, Paper.held[v])'
  <2>1. Binds(st, v) \/ Live(Plan[insn], pc, v)
    BY <1>1, <1>8, LiveNext
  <2>2. CASE v = st.v
    <3>1. env'[v] = s /\ slots'[s] = Kreg(TRUE, v, def, val)
      BY <1>2, <1>3, <2>2
    <3> QED BY <1>2, <1>7, <2>2, <3>1 DEF Kreg, Holds
  <2>3. CASE v # st.v
    <3>1. Holds(v, Paper.held[v]) /\ env'[v] = env[v]
      BY <1>3, <1>4, <2>1, <2>3 DEF Following, Follows
    <3>2. env[v] # s /\ slots'[env[v]] = slots[env[v]]
      BY <1>2, <1>3, <3>1 DEF Holds
    <3> QED BY <1>7, <2>3, <3>1, <3>2 DEF Holds
  <2> QED BY <2>2, <2>3
<1> HIDE DEF st
<1> QED BY <1>1, <1>6, <1>8 DEF Follows

(* and a step that binds none.                                             *)
LEMMA OthersFollow ==
  ASSUME Following, insn' = insn, env' = env, Advance, Plan[insn][pc].do \notin Final,
         \A v : ~Binds(Plan[insn][pc], v),
         arch' = Ran(insn, Paper, Plan[insn][pc]).arch,
         \A v \in Vars :
           Holds(v, Paper.held[v]) /\ ~Frees(Plan[insn][pc], v) =>
             /\ slots'[env[v]].used /\ slots'[env[v]].own = v
             /\ slots'[env[v]].val = Ran(insn, Paper, Plan[insn][pc]).held[v]
  PROVE  Follows'
<1> DEFINE st == Plan[insn][pc]
<1>1. pc \in Nat \ {0} /\ pc' = pc + 1 /\ result' = "none"
  BY CodegenAssumption DEF Following, TypeOK, Advance, Skip
<1>2. Paper' = Ran(insn, Paper, st)
  BY PaperNext
<1>3. arch' = Paper'.arch /\ arch' = [loc \in Locs |-> arch'[loc]]
  BY <1>2 DEF Ran
<1>4. ASSUME NEW v \in Vars, Live(Plan[insn], pc + 1, v) PROVE Holds(v, Paper.held[v])'
  <2>1. Live(Plan[insn], pc, v) /\ ~Frees(st, v)
    BY <1>1, <1>4, LiveNext
  <2>2. Holds(v, Paper.held[v])
    BY <2>1 DEF Following, Follows
  <2>3. /\ slots'[env[v]].used /\ slots'[env[v]].own = v
        /\ slots'[env[v]].val = Ran(insn, Paper, st).held[v]
    BY <2>1, <2>2
  <2> QED BY <1>2, <2>2, <2>3 DEF Holds
<1> HIDE DEF st
<1> QED BY <1>1, <1>3, <1>4 DEF Follows

(* Every step follows the paper that does not go on after a failure.       *)
LEMMA FollowsStep ==
  ASSUME TypeOK, Follows, [Next]_vars,
         result = "none" => /\ OnlyLive(Plan[insn]) /\ Guarded(Plan[insn][pc])
                            /\ Plan[insn][pc].do = "store" => Plan[insn][pc].checked
  PROVE  Follows'
<1> DEFINE st == Plan[insn][pc]
           after == Ran(insn, Paper, st)
<1>1. result = "none" => Following
  BY DEF Following
<1>2. arch = [loc \in Locs |-> arch[loc]] /\ (result = "none" => arch = Paper.arch)
  BY DEF Follows
<1>3. ASSUME GiveUp(st), arch' = arch PROVE Follows'
  BY <1>2, <1>3 DEF GiveUp, Follows
<1>4. ASSUME NEW s \in FreeSlots, NEW def, NEW val, Bind(st.v, s, def, val), result = "none",
             st.do \in {"load", "addr", "alloc", "widen"}, val = Filling(insn, Paper, st),
             insn' = insn, arch' = arch, Advance
      PROVE  Follows'
  <2>1. Binds(st, st.v)
    BY <1>4 DEF Binds
  <2> QED BY <1>1, <1>4, <2>1, BoundFollows
<1>5. ASSUME result = "none", ~WritesArch(st) PROVE after.arch = arch
  <2>1. Paper.arch = [loc \in Locs |-> Paper.arch[loc]]
    BY <1>2, <1>5
  <2> HIDE DEF st
  <2>2. Ran(insn, Paper, st).arch = Paper.arch
    BY <1>5, <2>1, SameArch
  <2> QED BY <1>2, <1>5, <2>2
<1>6. \A v \in Vars : ~Binds(st, v) /\ ~Fills(st, v) => after.held[v] = Paper.held[v]
  BY DEF Ran
<1>7. CASE Load
  <2>1. result = "none" /\ st.do = "load" /\ st.checked /\ insn' = insn /\ arch' = arch
    BY <1>7 DEF Load, Running, Guarded
  <2>2. Filling(insn, Paper, st) = Cut(arch[<<"m", 0>>], Covers(st.w, insn.es))
    BY <1>2, <2>1 DEF Filling
  <2>3. CASE \E s \in FreeSlots :
               Bind(st.v, s, st.w, Cut(arch[<<"m", 0>>], Covers(st.w, insn.es))) /\ Advance
    BY <1>4, <2>1, <2>2, <2>3
  <2> QED BY <1>3, <1>7, <2>1, <2>3 DEF Load
<1>8. CASE LoadAddress
  <2>1. result = "none" /\ st.do = "addr" /\ st.checked /\ insn' = insn /\ arch' = arch
    BY <1>8 DEF LoadAddress, Running, Guarded
  <2>2. Filling(insn, Paper, st) = AddrVal(st.n)
    BY <2>1 DEF Filling
  <2> QED BY <1>3, <1>4, <1>8, <2>1, <2>2 DEF LoadAddress
<1>9. CASE AllocKreg
  <2>1. result = "none" /\ st.do = "alloc" /\ insn' = insn /\ arch' = arch
        /\ (FreeSlots = {} => st.checked)
    BY <1>9 DEF AllocKreg, Running, Guarded
  <2>2. Filling(insn, Paper, st) = JunkVal
    BY <2>1 DEF Filling
  <2> QED BY <1>3, <1>4, <1>9, <2>1, <2>2 DEF AllocKreg
<1>10. CASE Widen
  <2>1. result = "none" /\ st.do = "widen" /\ insn' = insn /\ arch' = arch /\ FreeSlots # {}
        /\ Advance
    BY <1>10 DEF Widen, Running, Guarded
  <2>2. PICK s \in FreeSlots : Bind(st.v, s, st.w, Computes(st))
    BY <1>10, <2>1 DEF Widen
  <2>3. Computes(st) = Filling(insn, Paper, st)
    BY <1>1, <2>1, FoundOnPaper DEF Filling
  <2> QED BY <1>4, <2>1, <2>2, <2>3
<1>11. CASE FreeKreg
  <2> DEFINE u == st.v
  <2>1. /\ result = "none" /\ st.do = "free" /\ insn' = insn /\ Advance /\ env' = env
        /\ arch' = arch
    BY <1>11 DEF FreeKreg, Running
  <2>2. st.do \notin Final /\ ~WritesArch(st)
        /\ \A v : ~Binds(st, v) /\ ~Fills(st, v) /\ (Frees(st, v) <=> v = u)
    BY <2>1 DEF Binds, Fills, Frees, WritesArch, Final
  <2>3. insn \in Insns /\ pc \in 1..Len(Plan[insn])
    BY <2>1 DEF TypeOK
  <2>4. Live(Plan[insn], pc, u)
    BY <1>1, <2>1, <2>3 DEF Following, OnlyLive
  <2>5. u \in Vars
    BY <2>3, <2>4, LiveInVars
  <2>6. slots[env[u]].own = u
    BY <1>1, <2>1, <2>4, <2>5 DEF Following, Follows, Holds
  <2>7. ASSUME NEW v \in Vars, Holds(v, Paper.held[v]), ~Frees(st, v)
        PROVE  /\ slots'[env[v]].used /\ slots'[env[v]].own = v
               /\ slots'[env[v]].val = after.held[v]
    <3>1. env[u] # env[v]
      BY <2>2, <2>6, <2>7 DEF Holds
    <3>2. slots'[env[v]] = slots[env[v]]
      BY <1>11, <2>7, <3>1 DEF FreeKreg, Holds
    <3> QED BY <1>6, <2>2, <2>7, <3>2 DEF Holds
  <2>8. arch' = after.arch
    BY <1>5, <2>1, <2>2
  <2> HIDE DEF u
  <2> QED BY <1>1, <2>1, <2>2, <2>7, <2>8, OthersFollow
<1>12. ASSUME result = "none", st.do \in {"store", "emit"}, WritesArch(st), insn' = insn, Advance,
              env' = env, slots' = slots, arch' = after.arch
       PROVE  Follows'
  <2>1. st.do \notin Final /\ \A v : ~Binds(st, v) /\ ~Fills(st, v) /\ ~Frees(st, v)
    BY <1>12 DEF Binds, Fills, Frees, WritesArch, Final
  <2>2. ASSUME NEW v \in Vars, Holds(v, Paper.held[v])
        PROVE  /\ slots'[env[v]].used /\ slots'[env[v]].own = v
               /\ slots'[env[v]].val = after.held[v]
    BY <1>6, <1>12, <2>1, <2>2 DEF Holds
  <2> QED BY <1>1, <1>12, <2>1, <2>2, OthersFollow
<1>13. CASE StoreOperand
  <2>1. result = "none" /\ st.do = "store" /\ st.checked /\ insn' = insn
    BY <1>13 DEF StoreOperand, Running
  <2>2. CASE GiveUp(st) /\ arch' = arch
    BY <1>3, <2>2
  <2>3. CASE /\ arch' = [arch EXCEPT ![<<"m", 0>>] =
                           Overlay(@, Stores(st), Covers(st.src[1].w, insn.es))]
             /\ Advance /\ UNCHANGED <<slots, env>>
    <3>1. 1 \in DOMAIN st.src
      BY <2>1, CodegenAssumption DEF TypeOK, HasOperands
    <3>2. Stores(st) = Value(insn, Paper, st.src[1])
      BY <1>1, <2>1, <3>1, FoundOnPaper DEF Stores
    <3>3. WritesArch(st) /\ Paper.arch = arch
      BY <1>2, <2>1 DEF WritesArch
    <3>4. after.arch = [loc \in Locs |->
                          IF loc = <<"m", 0>>
                          THEN Overlay(arch[loc], Stores(st), Covers(st.src[1].w, insn.es))
                          ELSE arch[loc]]
      BY <2>1, <3>2, <3>3 DEF Ran
    <3>5. arch' = after.arch
      <4> HIDE DEF after
      <4> QED BY <1>2, <2>3, <3>4 DEF TypeOK
    <3> QED BY <1>12, <2>1, <2>3, <3>3, <3>5
  <2> QED BY <1>13, <2>1, <2>2, <2>3 DEF StoreOperand
<1>14. CASE EmitToArch
  <2> DEFINE dst == DstLoc(insn, st.dst)
  <2>1. /\ result = "none" /\ st.do = "emit" /\ st.dst.at # "tmp" /\ insn' = insn /\ Advance
        /\ env' = env /\ slots' = slots
        /\ arch' = [arch EXCEPT ![dst] = Overlay(@, Computes(st), LanesTo(insn, st.dst))]
    BY <1>14 DEF EmitToArch, Running
  <2>2. Computes(st) = Outcome(insn, Paper, st)
    BY <1>1, <2>1, FoundOnPaper
  <2>3. WritesArch(st) /\ Paper.arch = arch
    BY <1>2, <2>1 DEF WritesArch
  <2>4. after.arch = [loc \in Locs |->
                        IF loc = dst THEN Overlay(arch[loc], Computes(st), LanesTo(insn, st.dst))
                        ELSE arch[loc]]
    BY <2>1, <2>2, <2>3 DEF Ran
  <2>5. arch' = after.arch
    <3> HIDE DEF after, dst
    <3> QED BY <1>2, <2>1, <2>4 DEF TypeOK
  <2> QED BY <1>12, <2>1, <2>3, <2>5
<1>15. CASE EmitToKreg
  <2> DEFINE u   == st.dst.v
             new == Overlay(slots[env[u]].val, Computes(st), Covers(st.dst.w, 0))
  <2>1. /\ result = "none" /\ st.do = "emit" /\ st.dst.at = "tmp" /\ insn' = insn /\ Advance
        /\ env' = env /\ arch' = arch
    BY <1>15 DEF EmitToKreg, Running
  <2>2. st.do \notin Final /\ ~WritesArch(st)
        /\ \A v : ~Binds(st, v) /\ ~Frees(st, v) /\ (Fills(st, v) <=> v = u)
    BY <2>1 DEF Binds, Fills, Frees, WritesArch, Final
  <2>3. insn \in Insns /\ pc \in 1..Len(Plan[insn])
    BY <2>1 DEF TypeOK
  <2>4. Live(Plan[insn], pc, u)
    BY <1>1, <2>1, <2>3 DEF Following, OnlyLive
  <2>5. u \in Vars
    BY <2>3, <2>4, LiveInVars
  <2>6. Holds(u, Paper.held[u]) /\ env[u] # NoSlot
    BY <1>1, <2>1, <2>4, <2>5, CodegenAssumption DEF Following, Follows, Holds
  <2>7. PICK def : slots' = [slots EXCEPT ![env[u]] = Kreg(@.used, @.own, def, new)]
    BY <1>15, <2>6 DEF EmitToKreg
  <2>8. after.held[u] = new
    <3>1. Computes(st) = Outcome(insn, Paper, st)
      BY <1>1, <2>1, FoundOnPaper
    <3>2. after.held[u] = Overlay(Paper.held[u], Outcome(insn, Paper, st), Covers(st.dst.w, 0))
      BY <2>2, <2>5 DEF Ran
    <3> QED BY <2>6, <3>1, <3>2 DEF Holds
  <2>9. ASSUME NEW v \in Vars, Holds(v, Paper.held[v])
        PROVE  /\ slots'[env[v]].used /\ slots'[env[v]].own = v
               /\ slots'[env[v]].val = after.held[v]
    <3> HIDE DEF new, after
    <3>1. CASE v = u
      <4>1. slots'[env[v]] = Kreg(slots[env[u]].used, slots[env[u]].own, def, new)
        BY <2>6, <2>7, <3>1 DEF Holds, TypeOK
      <4>2. slots[env[u]].used /\ slots[env[u]].own = u
        BY <2>9, <3>1 DEF Holds
      <4>3. /\ slots'[env[v]].used = slots[env[u]].used /\ slots'[env[v]].own = slots[env[u]].own
            /\ slots'[env[v]].val = new
        BY <4>1, SMT DEF Kreg
      <4> QED BY <2>8, <3>1, <4>2, <4>3, Zenon
    <3>2. CASE v # u
      <4>1. slots'[env[v]] = slots[env[v]]
        BY <2>6, <2>7, <2>9, <3>2 DEF Holds, TypeOK
      <4>2. after.held[v] = Paper.held[v]
        BY <1>6, <2>2, <3>2
      <4> QED BY <2>9, <4>1, <4>2 DEF Holds
    <3> QED BY <3>1, <3>2
  <2>10. arch' = after.arch
    BY <1>5, <2>1, <2>2
  <2> HIDE DEF u
  <2> QED BY <1>1, <2>1, <2>2, <2>9, <2>10, OthersFollow
<1>16. CASE Return
  <2>1. /\ result = "none" /\ insn' = insn /\ pc' = pc /\ arch' = arch
        /\ result' # "none" /\ result' # "idle"
    BY <1>16 DEF Return, Final
  <2>2. Paper' = Paper
    BY <2>1 DEF Paper
  <2> QED BY <1>2, <2>1, <2>2 DEF Follows
<1>17. CASE Leave \/ NextFunction
  <2>1. arch' = OldArch /\ result' = "idle"
    BY <1>17 DEF Leave, NextFunction, Idle
  <2> QED BY <2>1 DEF Follows, OldArch
<1>18. CASE Begin
  <2>1. result' = "none" /\ pc' = 1 /\ insn' \in Insns /\ arch' = arch /\ arch = OldArch
    BY <1>18 DEF Begin, TypeOK, Follows
  <2>2. Paper'.arch = arch'
    <3>1. Paper' = Meaning(insn')[1]
      BY <2>1 DEF Paper
    <3>2. Meaning(insn')[1] = Fresh
      BY <2>1, MeaningFound
    <3> QED BY <2>1, <3>1, <3>2 DEF Fresh
  <2>3. \A plan, v : ~Live(plan, 1, v)
    BY DEF Live
  <2> QED BY <1>2, <2>1, <2>2, <2>3 DEF Follows
<1>19. CASE UNCHANGED vars
  BY <1>19 DEF vars, Follows, Holds, Paper
<1> HIDE DEF st
<1> QED BY <1>7, <1>8, <1>9, <1>10, <1>11, <1>13, <1>14, <1>15, <1>16, <1>17, <1>18, <1>19 DEF Next

(* An apply() that has returned MERR_OK stands at that step of its plan.   *)
ReturnsAsPlanned == result = "OK" => Plan[insn][pc].do = "OK"

LEMMA ReturnsAsPlannedHolds == Spec => []ReturnsAsPlanned
<1>1. Init => ReturnsAsPlanned
  BY DEF Init, ReturnsAsPlanned
<1>2. ReturnsAsPlanned /\ [Next]_vars => ReturnsAsPlanned'
  BY DEF ReturnsAsPlanned, Next, vars, Load, LoadAddress, AllocKreg, Widen, FreeKreg, StoreOperand,
         EmitToKreg, EmitToArch, Return, Leave, Begin, NextFunction, Running, Advance, Skip, GiveUp,
         Idle, Final
<1> QED BY <1>1, <1>2, PTL DEF Spec

(* What MERR_OK leaves is the meaning of the plan, whatever kregs it was   *)
(* given and whatever they held: for any number of kregs, of plans that    *)
(* use live temporaries only and go on after no failure.                   *)
THEOREM AsOnPaperHolds ==
  ASSUME IsFiniteSet(Slots),
         \A i \in Insns : OnlyLive(Plan[i]) /\ Dependable(Plan[i]) /\ StoresChecked(Plan[i])
  PROVE  Spec => []AsOnPaper
<1>1. Init => Follows
  BY DEF Init, Follows, OldArch
<1>2. TypeOK /\ Spare /\ Follows /\ [Next]_vars => Follows'
  <2> SUFFICES ASSUME TypeOK, Spare, Follows, [Next]_vars PROVE Follows'
    OBVIOUS
  <2>1. ASSUME result = "none"
        PROVE  /\ OnlyLive(Plan[insn]) /\ Guarded(Plan[insn][pc])
               /\ Plan[insn][pc].do = "store" => Plan[insn][pc].checked
    <3>1. insn \in Insns /\ pc \in 1..Len(Plan[insn]) /\ Headroom \in Nat
      BY <2>1, CodegenAssumption DEF TypeOK
    <3>2. FreeSlots = {} => pc > Headroom
      BY <2>1, <3>1, FS_EmptySet DEF Spare
    <3> QED BY <3>1, <3>2 DEF Dependable, Guarded, StoresChecked
  <2> QED BY <2>1, FollowsStep
<1>3. Follows => AsOnPaper
  BY DEF Follows, Paper, AsOnPaper
<1> QED BY <1>1, <1>2, <1>3, TypeCorrect, SpareHolds, PTL DEF Spec

(* MERR_OK means what the processor promises, with any number of kregs, if *)
(* the plans keep that promise on paper.                                   *)
THEOREM ComputesPromiseHolds ==
  ASSUME IsFiniteSet(Slots),
         \A i \in Insns : OnlyLive(Plan[i]) /\ Dependable(Plan[i]) /\ StoresChecked(Plan[i]),
         \A i \in Insns : KeepsPromise(i)
  PROVE  Spec => []ComputesPromise
<1>1. Spec => []AsOnPaper
  BY AsOnPaperHolds
<1>2. TypeOK /\ ReturnsAsPlanned /\ AsOnPaper => ComputesPromise
  BY DEF TypeOK, ReturnsAsPlanned, AsOnPaper, ComputesPromise, KeepsPromise
<1> QED BY <1>1, <1>2, TypeCorrect, ReturnsAsPlannedHolds, PTL
=============================================================================
