------------------------ MODULE LiftedFunction_proofs ------------------------
(***************************************************************************)
(* Theorems about LiftedFunction, with any number of calls: of any flows   *)
(* that honour the views of their operands nothing is read out of date     *)
(* that has not crossed, and the handlers of all regular instructions are  *)
(* such flows.                                                             *)
(*                                                                         *)
(* InPlace is the invariant: what has not crossed is where its definition  *)
(* put it. It needs to know of a callee what the caller will find again    *)
(* (KeptForCaller), and that no run defines anything before it begins      *)
(* (DefinedBySomeRun), or a new callee could not be told from an old one.  *)
(***************************************************************************)
EXTENDS LiftedFunction, AvxLifter, SequenceTheorems, TLAPS

Cells == VecRegs \X Lanes

InPlace == \A x \in Parts : ~Crossed(x) => x \in holds
KeptForCaller ==
  run # 0 => \A x \in Native :
    origin[<<x[2], x[3]>>].view \in {"v", "both"} /\ origin[<<x[2], x[3]>>].by = 0 => x \in kept
DefinedBySomeRun == \A c \in Cells : origin[c].by \in 0..calls

FlowInv == TypeOK /\ InPlace /\ KeptForCaller /\ DefinedBySomeRun

----------------------------------------------------------------------------
(* The types of what a flow reads and writes,                              *)
LEMMA FlowTypes ==
  ASSUME NEW fl \in Flows
  PROVE  /\ fl.reads \subseteq Parts /\ fl.writes \subseteq Parts
         /\ fl.consumes \subseteq Parts /\ fl.defines \subseteq Parts
         /\ fl.clears \subseteq Cells /\ fl.ret \in BOOLEAN
BY LiftedFunctionAssumption DEF Cells

(* and of what its parts are.                                              *)
LEMMA PartTypes ==
  ASSUME NEW x \in Parts
  PROVE  /\ x = <<x[1], x[2], x[3]>> /\ <<x[2], x[3]>> \in Cells
         /\ x[1] \in {"v", "z"} /\ (x \in Native <=> x[1] = "v") /\ (x \in Helpers <=> x[1] = "z")
BY DEF Parts, Native, Helpers, Cells, Lanes

(* The types hold at the start,                                            *)
LEMMA TypesInit == Init => TypeOK
<1> SUFFICES ASSUME Init PROVE TypeOK
  OBVIOUS
<1>1. origin \in [VecRegs \X Lanes -> [view : {"v", "z", "both", "none"}, by : 0..MaxCalls]]
  BY LiftedFunctionAssumption DEF Init
<1>2. run \in 0..calls /\ calls \in 0..MaxCalls
  BY LiftedFunctionAssumption DEF Init
<1>3. holds \subseteq Parts /\ kept \subseteq Native /\ returned \in BOOLEAN
  BY DEF Init
<1> QED BY <1>1, <1>2, <1>3 DEF TypeOK

(* and instructions keep them: what one changes it has either cleared or   *)
(* defined through some view, even if it defined it through both or in     *)
(* parts that it also clears;                                              *)
LEMMA ExecuteTypes ==
  ASSUME TypeOK, NEW fl \in Flows, Execute(fl)
  PROVE  /\ TypeOK'
         /\ \A c \in Changes(fl) : DefinedAs(fl, c).by \in {0, run}
<1> DEFINE changes == Changes(fl)
<1>1. /\ holds' = {h \in holds : <<h[2], h[3]>> \notin changes} \union fl.writes
      /\ origin' = [c \in Cells |-> IF c \in changes THEN DefinedAs(fl, c) ELSE origin[c]]
      /\ returned' = FALSE /\ run' = run /\ calls' = calls /\ kept' = kept
  BY DEF Execute, TypeOK, Cells
<1>2. run \in 0..MaxCalls /\ 0 \in 0..MaxCalls
  BY LiftedFunctionAssumption DEF TypeOK
<1>3. ASSUME NEW c \in changes
      PROVE  /\ DefinedAs(fl, c) \in [view : {"v", "z", "both", "none"}, by : 0..MaxCalls]
             /\ DefinedAs(fl, c).by \in {0, run}
  <2>1. CASE c \in fl.clears
    BY <1>2, <2>1 DEF DefinedAs
  <2>2. CASE c \notin fl.clears
    <3>1. \E x \in fl.defines : c = <<x[2], x[3]>>
      BY <2>2 DEF Changes
    <3>2. (CHOOSE x \in fl.defines : c = <<x[2], x[3]>>)[1] \in {"v", "z"}
      BY <3>1, FlowTypes, PartTypes
    <3> QED BY <1>2, <2>2, <3>2 DEF DefinedAs
  <2> QED BY <2>1, <2>2
<1> HIDE DEF changes
<1>4. TypeOK'
  BY <1>1, <1>3, FlowTypes DEF TypeOK, Cells
<1> QED BY <1>3, <1>4 DEF changes

(* so do calls and returns.                                                *)
LEMMA TypesKept == TypeOK /\ [Next]_vars => TypeOK'
<1> SUFFICES ASSUME TypeOK, [Next]_vars PROVE TypeOK'
  OBVIOUS
<1>1. CASE \E fl \in Flows : Execute(fl)
  BY <1>1, ExecuteTypes
<1>2. CASE CallZmmFunction
  <2>1. /\ calls \in Nat /\ calls < MaxCalls /\ MaxCalls \in Nat
        /\ calls' = calls + 1 /\ run' = calls + 1 /\ returned' = FALSE
        /\ kept' = holds \intersect Native /\ holds' = holds \intersect Helpers /\ origin' = origin
    BY <1>2, LiftedFunctionAssumption DEF CallZmmFunction, TypeOK
  <2>2. run' \in 0..calls' /\ calls' \in 0..MaxCalls
    BY <2>1
  <2> QED BY <2>1, <2>2 DEF TypeOK
<1>3. CASE ReturnToCaller
  <2>1. /\ run' = 0 /\ calls' = calls /\ calls \in Nat
        /\ kept' = {} /\ returned' = TRUE /\ origin' = origin
        /\ holds' = (holds \intersect Helpers) \union {h \in kept : origin[<<h[2], h[3]>>].by # run}
    BY <1>3, LiftedFunctionAssumption DEF ReturnToCaller, TypeOK
  <2> QED BY <2>1 DEF TypeOK, Parts
<1>4. CASE UNCHANGED vars
  BY <1>4 DEF vars, TypeOK
<1> QED BY <1>1, <1>2, <1>3, <1>4 DEF Next

(* Of any flows whatever, every variable keeps its type: that a part is    *)
(* known to be defined in at most one run, and in one view, needs nothing  *)
(* of the handlers.                                                        *)
THEOREM FunctionTypeCorrect == Spec => []TypeOK
BY TypesInit, TypesKept, PTL DEF Spec

(* The invariant holds at the start,                                       *)
LEMMA FlowInvInit == Init => FlowInv
<1> SUFFICES ASSUME Init PROVE FlowInv
  OBVIOUS
<1>1. TypeOK
  BY TypesInit
<1>2. DefinedBySomeRun
  BY DEF Init, DefinedBySomeRun, Cells
<1> QED BY <1>1, <1>2 DEF Init, FlowInv, InPlace, KeptForCaller

(* What an instruction defines is where its microcode wrote it; what it    *)
(* does not change stays.                                                  *)
LEMMA ExecuteInv ==
  ASSUME FlowInv, NEW fl \in Flows, Honours(fl), Execute(fl)
  PROVE  FlowInv'
<1> DEFINE changes == Changes(fl)
<1>1. /\ holds' = {h \in holds : <<h[2], h[3]>> \notin changes} \union fl.writes
      /\ origin' = [c \in Cells |-> IF c \in changes THEN DefinedAs(fl, c) ELSE origin[c]]
      /\ returned' = FALSE /\ run' = run /\ calls' = calls /\ kept' = kept
  BY DEF Execute, FlowInv, TypeOK, Cells
<1>2. run \in 0..MaxCalls /\ run \in 0..calls /\ calls \in Nat /\ 0 \in 0..calls /\ 0 \in 0..MaxCalls
  BY LiftedFunctionAssumption DEF FlowInv, TypeOK
<1>3. ASSUME NEW c \in changes
      PROVE  \/ DefinedAs(fl, c) = [view |-> "none", by |-> 0]
             \/ \E x \in fl.defines : /\ c = <<x[2], x[3]>>
                                      /\ DefinedAs(fl, c) = [view |-> x[1], by |-> run]
  <2>1. CASE c \in fl.clears
    BY <2>1 DEF DefinedAs
  <2>2. CASE c \notin fl.clears
    <3>1. \E x \in fl.defines : c = <<x[2], x[3]>>
      BY <2>2 DEF Changes
    <3> QED BY <2>2, <3>1 DEF DefinedAs
  <2> QED BY <2>1, <2>2
<1>4. \A c \in changes : /\ DefinedAs(fl, c).by \in 0..calls
                         /\ DefinedAs(fl, c).view \in {"v", "z"} => DefinedAs(fl, c).by = run
                         /\ DefinedAs(fl, c).view # "both"
  BY <1>2, <1>3, FlowTypes, PartTypes
<1> HIDE DEF changes
<1>5. TypeOK'
  BY ExecuteTypes DEF FlowInv
<1>6. DefinedBySomeRun'
  BY <1>1, <1>4 DEF FlowInv, DefinedBySomeRun
<1>7. KeptForCaller'
  <2> SUFFICES ASSUME run # 0, NEW x \in Native,
                      origin'[<<x[2], x[3]>>].view \in {"v", "both"}, origin'[<<x[2], x[3]>>].by = 0
               PROVE  x \in kept
    BY <1>1 DEF KeptForCaller
  <2>1. <<x[2], x[3]>> \in Cells
    BY PartTypes DEF Parts
  <2>2. <<x[2], x[3]>> \notin changes
    BY <1>1, <1>4, <2>1
  <2> QED BY <1>1, <2>1, <2>2 DEF FlowInv, KeptForCaller
<1>8. InPlace'
  <2> SUFFICES ASSUME NEW x \in Parts, ~Crossed(x)' PROVE x \in holds'
    BY DEF InPlace
  <2> DEFINE c == <<x[2], x[3]>>
  <2>1. c \in Cells /\ x = <<x[1], x[2], x[3]>> /\ x[1] \in {"v", "z"}
    BY PartTypes
  <2>2. CASE c \notin changes
    <3>1. origin'[c] = origin[c]
      BY <1>1, <2>1, <2>2
    <3>2. ~Crossed(x)
      BY <1>1, <3>1 DEF Crossed
    <3> QED BY <1>1, <2>2, <3>2 DEF FlowInv, InPlace
  <2>3. CASE c \in changes
    <3>1. origin'[c] = DefinedAs(fl, c)
      BY <1>1, <2>1, <2>3
    <3>2. DefinedAs(fl, c).view = x[1]
      BY <1>4, <2>1, <2>3, <3>1 DEF Crossed
    <3>3. PICK y \in fl.defines : c = <<y[2], y[3]>> /\ y[1] = x[1]
      BY <1>3, <2>1, <2>3, <3>2
    <3>4. y = x
      BY <2>1, <3>3, PartTypes, FlowTypes
    <3> QED BY <1>1, <3>4 DEF Honours
  <2> QED BY <2>2, <2>3
<1> QED BY <1>5, <1>6, <1>7, <1>8 DEF FlowInv

(* A call takes the helpers' parts along, and the caller's native ones     *)
(* wait for it.                                                            *)
LEMMA CallInv ==
  ASSUME FlowInv, CallZmmFunction
  PROVE  FlowInv'
<1>1. /\ run = 0 /\ calls \in Nat /\ calls < MaxCalls /\ MaxCalls \in Nat
      /\ calls' = calls + 1 /\ run' = calls + 1 /\ returned' = FALSE
      /\ kept' = holds \intersect Native /\ holds' = holds \intersect Helpers /\ origin' = origin
  BY LiftedFunctionAssumption DEF CallZmmFunction, FlowInv, TypeOK
<1>2. TypeOK' /\ DefinedBySomeRun'
  <2>1. run' \in 0..calls' /\ calls' \in 0..MaxCalls
    BY <1>1
  <2>2. holds' \subseteq Parts /\ kept' \subseteq Native
    BY <1>1 DEF FlowInv, TypeOK
  <2>3. TypeOK'
    BY <1>1, <2>1, <2>2 DEF FlowInv, TypeOK
  <2>4. DefinedBySomeRun'
    BY <1>1 DEF FlowInv, DefinedBySomeRun
  <2> QED BY <2>3, <2>4
<1>3. KeptForCaller'
  <2> SUFFICES ASSUME NEW x \in Native,
                      origin[<<x[2], x[3]>>].view \in {"v", "both"}, origin[<<x[2], x[3]>>].by = 0
               PROVE  x \in holds
    BY <1>1 DEF KeptForCaller
  <2>1. x \in Parts /\ x[1] = "v"
    BY PartTypes DEF Parts
  <2> QED BY <1>1, <2>1 DEF FlowInv, InPlace, Crossed
<1>4. InPlace'
  <2> SUFFICES ASSUME NEW x \in Parts, ~Crossed(x)' PROVE x \in holds'
    BY DEF InPlace
  <2>1. <<x[2], x[3]>> \in Cells /\ x[1] \in {"v", "z"} /\ (x \in Helpers <=> x[1] = "z")
    BY PartTypes
  <2>2. x[1] = "z"
    BY <1>1, <2>1 DEF Crossed, FlowInv, DefinedBySomeRun
  <2>3. ~Crossed(x)
    BY <1>1, <2>2 DEF Crossed
  <2> QED BY <1>1, <2>1, <2>2, <2>3 DEF FlowInv, InPlace
<1> QED BY <1>2, <1>3, <1>4 DEF FlowInv

(* The caller finds the native parts that the callee did not define.       *)
LEMMA ReturnInv ==
  ASSUME FlowInv, ReturnToCaller
  PROVE  FlowInv'
<1>1. /\ run # 0 /\ run' = 0 /\ calls' = calls /\ calls \in Nat
      /\ kept' = {} /\ returned' = TRUE /\ origin' = origin
      /\ holds' = (holds \intersect Helpers) \union {h \in kept : origin[<<h[2], h[3]>>].by # run}
  BY LiftedFunctionAssumption DEF ReturnToCaller, FlowInv, TypeOK
<1>2. TypeOK' /\ DefinedBySomeRun' /\ KeptForCaller'
  BY <1>1 DEF FlowInv, TypeOK, DefinedBySomeRun, KeptForCaller, Parts
<1>3. InPlace'
  <2> SUFFICES ASSUME NEW x \in Parts, ~Crossed(x)' PROVE x \in holds'
    BY DEF InPlace
  <2>1. /\ x[1] \in {"v", "z"} /\ (x \in Native <=> x[1] = "v") /\ (x \in Helpers <=> x[1] = "z")
    BY PartTypes
  <2>2. CASE x[1] = "z"
    <3>1. ~Crossed(x)
      BY <1>1, <2>2 DEF Crossed
    <3> QED BY <1>1, <2>1, <2>2, <3>1 DEF FlowInv, InPlace
  <2>3. CASE x[1] = "v"
    BY <1>1, <2>1, <2>3 DEF Crossed, FlowInv, KeptForCaller
  <2> QED BY <2>1, <2>2, <2>3
<1> QED BY <1>2, <1>3 DEF FlowInv

(* and throughout.                                                         *)
LEMMA FlowInvHolds ==
  ASSUME \A fl \in Flows : Honours(fl)
  PROVE  Spec => []FlowInv
<1>1. FlowInv /\ [Next]_vars => FlowInv'
  <2> SUFFICES ASSUME FlowInv, [Next]_vars PROVE FlowInv'
    OBVIOUS
  <2>1. CASE UNCHANGED vars
    BY <2>1 DEF vars, FlowInv, TypeOK, InPlace, Crossed, KeptForCaller, DefinedBySomeRun
  <2> QED BY <2>1, ExecuteInv, CallInv, ReturnInv DEF Next
<1> QED BY <1>1, FlowInvInit, PTL DEF Spec

----------------------------------------------------------------------------
(* Microcode that keeps to the views of its operands never reads a value   *)
(* that is out of date, in functions of any length with any number of      *)
(* calls, but for operands that cross.                                     *)
THEOREM CurrentUnlessCrossedHolds ==
  ASSUME \A fl \in Flows : Honours(fl)
  PROVE  Spec => []CurrentUnlessCrossed
<1>1. FlowInv => CurrentUnlessCrossed
  <2> SUFFICES ASSUME FlowInv, NEW fl \in Flows, NEW x \in fl.reads
               PROVE  x \in holds \/ (Crossed(x) /\ x \in fl.consumes)
    BY DEF CurrentUnlessCrossed
  <2> QED BY FlowTypes DEF FlowInv, InPlace, Honours
<1> QED BY <1>1, FlowInvHolds, PTL

----------------------------------------------------------------------------
(* The views of the handlers' plans.                                       *)
Regular(i) == OneView(i) /\ Decoded(i)

(* A register is read at the width of its view, by every step of a plan;   *)
OwnView(i, s) ==
  s.at = "reg" /\ Op(i, s.n).k \notin {"gpr", "mem", "k"} => (s.w = 64 <=> Wide(i))
Listed(p)     == \E S : p \in Seq(S)
Args(i, args) == Listed(args) /\ \A k \in 1..Len(args) : OwnView(i, args[k])
Reads(i, p)   == Listed(p) /\ \A j \in 1..Len(p) : Args(i, p[j].src)

(* and some step of it gives a vector register in operand 1 all that the   *)
(* instruction defines, or gives up.                                       *)
Defines(i, st) ==
  \/ st.do \in {"INSN", "INTERR"}
  \/ /\ st.do = "emit" /\ st.dst.at = "reg" /\ st.dst.n = 1
     /\ st.dst.w = 64 <=> Wide(i)
     /\ Covers(Width(i), i.es) \ LeftAlone(i) \subseteq Covers(st.dst.w, i.es)
OwnViews(i, p) ==
  Reads(i, p) /\ (IsVec(Op(i, 1)) /\ i.it \notin FlagTests => \E j \in 1..Len(p) : Defines(i, p[j]))

(* The operands of a regular instruction, and what is no operand of it.    *)
LEMMA RegularOperands ==
  ASSUME NEW i, Regular(i)
  PROVE  /\ \A n : IsVec(Op(i, n)) => (Op(i, n).k = "zmm" <=> Wide(i)) /\ Op(i, n).r \in VecRegs
         /\ \A n : /\ IsXmm(Op(i, n)) => Op(i, n).w = 16
                   /\ Op(i, n).k = "ymm" => Op(i, n).w = 32
                   /\ Op(i, n).k = "zmm" => Op(i, n).w = 64
         /\ i.it \in NarrowMaskInsns => \A n : ~IsVec(Op(i, n))
<1>1. \A n : IsVec(Op(i, n)) => n \in DOMAIN i.ops
  BY DEF Op, IsVec
<1>2. \A n : Op(i, n).k \in {"xmm", "ymm", "zmm"} => n \in DOMAIN i.ops /\ IsVec(Op(i, n))
  BY <1>1 DEF IsVec
<1>3. \A n : IsVec(Op(i, n)) =>
        /\ Op(i, n).k = "zmm" <=> Wide(i)
        /\ Op(i, n).r \in VecRegs
        /\ Op(i, n).w = IF Op(i, n).k = "zmm" THEN 64 ELSE IF Op(i, n).k = "ymm" THEN 32 ELSE 16
  BY <1>1 DEF Regular, OneView, Decoded
<1>4. i.it \in NarrowMaskInsns => \A n : ~IsVec(Op(i, n))
  BY <1>1 DEF Regular, Decoded
<1> QED BY <1>2, <1>3, <1>4 DEF IsXmm

LEMMA Concatenated ==
  ASSUME NEW p, NEW q, Listed(p), Listed(q)
  PROVE  /\ Listed(p \o q)
         /\ Len(p) \in Nat /\ Len(q) \in Nat /\ Len(p \o q) = Len(p) + Len(q)
         /\ \A j \in 1..Len(p) + Len(q) :
              (p \o q)[j] = IF j <= Len(p) THEN p[j] ELSE q[j - Len(p)]
<1>1. PICK A, B : p \in Seq(A) /\ q \in Seq(B)
  BY Zenon DEF Listed
<1>2. p \in Seq(A \union B) /\ q \in Seq(A \union B)
  BY <1>1, SeqMonotonic
<1>3. Len(p) \in Nat /\ Len(q) \in Nat
  BY <1>2, LenProperties
<1>4. Listed(p \o q)
  BY <1>2, ConcatProperties, Zenon DEF Listed
<1> QED BY <1>2, <1>3, <1>4, ConcatProperties

(* Two in a row.                                                           *)
LEMMA ReadsCompose ==
  /\ \A i, p, q : Args(i, p) /\ Args(i, q) => Args(i, p \o q)
  /\ \A i, p, q : Reads(i, p) /\ Reads(i, q) => Reads(i, p \o q)
  /\ \A i, p, q : Reads(i, p) /\ OwnViews(i, q) => OwnViews(i, p \o q)
  /\ \A i, p, q : OwnViews(i, p) /\ Reads(i, q) => OwnViews(i, p \o q)
<1>1. ASSUME NEW i, NEW p, NEW q, Args(i, p), Args(i, q) PROVE Args(i, p \o q)
  BY <1>1, Concatenated, SMT DEF Args
<1>2. ASSUME NEW i, NEW p, NEW q, Reads(i, p), Reads(i, q) PROVE Reads(i, p \o q)
  BY <1>2, Concatenated, SMT DEF Reads
<1>3. ASSUME NEW i, NEW p, NEW q, Reads(i, p), Reads(i, q)
      PROVE  /\ \A j \in 1..Len(p) : j \in 1..Len(p \o q) /\ (p \o q)[j] = p[j]
             /\ \A j \in 1..Len(q) : Len(p) + j \in 1..Len(p \o q) /\ (p \o q)[Len(p) + j] = q[j]
  BY <1>3, Concatenated, SMT DEF Reads
<1>4. ASSUME NEW i, NEW p, NEW q, Reads(i, p), OwnViews(i, q) PROVE OwnViews(i, p \o q)
  <2>1. Reads(i, p \o q)
    BY <1>2, <1>4 DEF OwnViews
  <2>2. ASSUME IsVec(Op(i, 1)), i.it \notin FlagTests
        PROVE  \E j \in 1..Len(p \o q) : Defines(i, (p \o q)[j])
    <3>1. PICK j \in 1..Len(q) : Defines(i, q[j])
      BY <1>4, <2>2 DEF OwnViews
    <3>2. Len(p) + j \in 1..Len(p \o q) /\ (p \o q)[Len(p) + j] = q[j]
      BY <1>3, <1>4 DEF OwnViews
    <3> QED BY <3>1, <3>2
  <2> QED BY <2>1, <2>2 DEF OwnViews
<1>5. ASSUME NEW i, NEW p, NEW q, OwnViews(i, p), Reads(i, q) PROVE OwnViews(i, p \o q)
  <2>1. Reads(i, p \o q)
    BY <1>2, <1>5 DEF OwnViews
  <2>2. ASSUME IsVec(Op(i, 1)), i.it \notin FlagTests
        PROVE  \E j \in 1..Len(p \o q) : Defines(i, (p \o q)[j])
    <3>1. PICK j \in 1..Len(p) : Defines(i, p[j])
      BY <1>5, <2>2 DEF OwnViews
    <3>2. j \in 1..Len(p \o q) /\ (p \o q)[j] = p[j]
      BY <1>3, <1>5 DEF OwnViews
    <3> QED BY <3>1, <3>2
  <2> QED BY <2>1, <2>2 DEF OwnViews
<1> QED BY <1>1, <1>2, <1>4, <1>5

LEMMA ReadsOfTuples ==
  ASSUME NEW i
  PROVE  /\ Args(i, <<>>)
         /\ \A a : OwnView(i, a) => Args(i, <<a>>)
         /\ \A a, b : OwnView(i, a) /\ OwnView(i, b) => Args(i, <<a, b>>)
         /\ \A a, b, c : OwnView(i, a) /\ OwnView(i, b) /\ OwnView(i, c) => Args(i, <<a, b, c>>)
         /\ Reads(i, <<>>)
         /\ \A a : Args(i, a.src) => Reads(i, <<a>>)
         /\ \A a : Args(i, a.src) /\ Defines(i, a) => OwnViews(i, <<a>>)
         /\ \A a, b : Args(i, a.src) /\ Args(i, b.src) => Reads(i, <<a, b>>)
         /\ \A a, b, c : Args(i, a.src) /\ Args(i, b.src) /\ Args(i, c.src) => Reads(i, <<a, b, c>>)
         /\ \A a, b : Args(i, a.src) /\ Args(i, b.src) /\ Defines(i, b) => OwnViews(i, <<a, b>>)
         /\ \A a, b, c, d :
              Args(i, a.src) /\ Args(i, b.src) /\ Args(i, c.src) /\ Args(i, d.src)
              /\ Defines(i, c) => OwnViews(i, <<a, b, c, d>>)
         /\ \A a, b, c, d, e :
              Args(i, a.src) /\ Args(i, b.src) /\ Args(i, c.src) /\ Args(i, d.src) /\ Args(i, e.src)
              /\ Defines(i, d) => OwnViews(i, <<a, b, c, d, e>>)
<1>1. <<>> \in Seq({}) /\ Len(<<>>) = 0
  OBVIOUS
<1>2. \A a : <<a>> \in Seq({a}) /\ Len(<<a>>) = 1
  OBVIOUS
<1>3. \A a, b : <<a, b>> \in Seq({a, b}) /\ Len(<<a, b>>) = 2
  OBVIOUS
<1>4. \A a, b, c : <<a, b, c>> \in Seq({a, b, c}) /\ Len(<<a, b, c>>) = 3
  OBVIOUS
<1>5. /\ \A a, b, c, d : <<a, b, c, d>> \in Seq({a, b, c, d}) /\ Len(<<a, b, c, d>>) = 4
      /\ \A a, b, c, d, e : /\ <<a, b, c, d, e>> \in Seq({a, b, c, d, e})
                           /\ Len(<<a, b, c, d, e>>) = 5
  OBVIOUS
<1>6. /\ Listed(<<>>) /\ (\A a : Listed(<<a>>)) /\ (\A a, b : Listed(<<a, b>>))
      /\ (\A a, b, c : Listed(<<a, b, c>>)) /\ (\A a, b, c, d : Listed(<<a, b, c, d>>))
      /\ \A a, b, c, d, e : Listed(<<a, b, c, d, e>>)
  BY <1>1, <1>2, <1>3, <1>4, <1>5, Zenon DEF Listed
<1>7. ASSUME NEW a, NEW b, NEW c, NEW d, NEW e, Args(i, a.src), Args(i, b.src), Args(i, c.src),
             Args(i, d.src), Args(i, e.src), Defines(i, d)
      PROVE  OwnViews(i, <<a, b, c, d, e>>)
  BY <1>5, <1>6, <1>7 DEF Reads, OwnViews
<1>8. ASSUME NEW a, NEW b, NEW c, NEW d, Args(i, a.src), Args(i, b.src), Args(i, c.src),
             Args(i, d.src), Defines(i, c)
      PROVE  OwnViews(i, <<a, b, c, d>>)
  BY <1>5, <1>6, <1>8 DEF Reads, OwnViews
<1>9. ASSUME NEW a, NEW b, Args(i, a.src), Args(i, b.src), Defines(i, b)
      PROVE  OwnViews(i, <<a, b>>)
  BY <1>3, <1>6, <1>9 DEF Reads, OwnViews
<1> QED BY <1>1, <1>2, <1>3, <1>4, <1>6, <1>7, <1>8, <1>9 DEF Args, Reads, OwnViews

(* The steps and their operands.                                           *)
LEMMA ReadsOfSteps ==
  ASSUME NEW i
  PROVE  /\ \A v, w : OwnView(i, Tmp(v, w)) /\ OwnView(i, Deref(v, w))
         /\ \A w : OwnView(i, MaskImm(w)) /\ OwnView(i, add_argument_mask(w))
         /\ \A n : OwnView(i, Imm(n))
         /\ \A n, v, w : Args(i, LoadOp(n, v, w).src)
         /\ \A n, v : Args(i, Address(n, v).src)
         /\ \A v, w : Args(i, Alloc(v, w).src)
         /\ \A v, w, u : Args(i, AllocElseFree(v, w, u).src)
         /\ \A v : Args(i, Free(v).src)
         /\ \A m : Args(i, Finish(m).src)
         /\ \A v, w, s : OwnView(i, s) => Args(i, WidenTmp(v, w, s).src)
         /\ \A dst, s : OwnView(i, s) => Args(i, Mov(dst, s).src) /\ Args(i, Xdu(dst, s).src)
         /\ \A dst, args : Args(i, args) => Args(i, Call(dst, args).src)
                                            /\ Args(i, ScalarCall(dst, args).src)
         /\ \A n, dst : Args(i, AddressImm(n, dst).src)
         /\ \A merr : merr \in {"INSN", "INTERR"} => Defines(i, Finish(merr))
BY ReadsOfTuples
   DEF OwnView, Tmp, Deref, MaskImm, add_argument_mask, Imm, LoadOp, Address, Alloc, AllocElseFree,
       Free, Finish, WidenTmp, Mov, Xdu, Call, ScalarCall, AddressImm, Emit, Step, Defines

(* A vector register is read through the view of the width.                *)
LEMMA ViewOfRegister ==
  ASSUME NEW i, NEW n, NEW w
  PROVE  /\ Op(i, n).k \in {"gpr", "mem", "k"} => RegLoc(i, n, w)[1] \in {"g", "k"}
         /\ Op(i, n).k \notin {"gpr", "mem", "k"} =>
              RegLoc(i, n, w)[1] = IF w = 64 THEN "z" ELSE "v"
<1>1. CASE Op(i, n).k \in {"gpr", "mem"}
  <2>1. RegLoc(i, n, w) = <<"g", Op(i, n).r>>
    BY <1>1, Zenon DEF RegLoc
  <2> QED BY <1>1, <2>1
<1>2. CASE Op(i, n).k = "k"
  <2>1. RegLoc(i, n, w) = <<"k", Op(i, n).r>>
    BY <1>2 DEF RegLoc
  <2> QED BY <1>2, <2>1
<1>3. CASE Op(i, n).k \notin {"gpr", "mem", "k"}
  BY <1>3 DEF RegLoc
<1> QED BY <1>1, <1>2, <1>3

LEMMA OwnViewsHonoured ==
  ASSUME NEW i, Regular(i), i.it # "vcvtss2sd", i.it \notin Gathers, i.it \notin Scatters,
         NEW p, OwnViews(i, p), Lifts(p)
  PROVE  Honours(FlowOf(i, p))
<1> DEFINE V == IF Wide(i) THEN "z" ELSE "v"
           fl == FlowOf(i, p)
           before(j) == UNION {WritesOf(i, p[k]) : k \in 1..(j - 1)}
           consumed  == UNION {PartsAt(Source(i, n), Consumes(i, n)) : n \in SourceOps(i)}
           lanes     == IF IsVec(Op(i, 1)) /\ i.it \notin FlagTests
                        THEN Covers(Width(i), i.es) ELSE {}
<1>1. /\ fl.reads = {x \in UNION {ReadsOf(i, p[j]) \ before(j) : j \in DOMAIN p} :
                       \E y \in consumed : x[2] = y[2] /\ x[3] = y[3]}
      /\ fl.writes = {x \in before(Len(p) + 1) : x[3] \notin LeftAlone(i)}
      /\ fl.consumes = consumed
      /\ fl.defines = PartsAt(Loc(Op(i, 1)), lanes \ LeftAlone(i))
      /\ fl.clears = IF lanes = {} THEN {} ELSE {Op(i, 1).r} \X (Lanes \ lanes)
  BY DEF FlowOf, ClearedMasks
<1>2. \A loc, ls : \A x \in PartsAt(loc, ls) :
        x \in Parts /\ x = <<loc[1], loc[2], x[3]>> /\ x[1] = loc[1] /\ x[2] = loc[2] /\ x[3] \in ls
  BY DEF PartsAt
<1>3. \A n : IsVec(Op(i, n)) => Loc(Op(i, n)) = <<V, Op(i, n).r>>
  BY RegularOperands DEF IsVec, Loc
<1> HIDE DEF V, fl, before, consumed, lanes
<1>4. \A x \in consumed : x \in Parts /\ x[1] = V
  <2> SUFFICES ASSUME NEW n \in SourceOps(i), NEW x \in PartsAt(Source(i, n), Consumes(i, n))
               PROVE  x \in Parts /\ x[1] = V
    BY DEF consumed
  <2>1. IsVec(Op(i, n))
    BY DEF SourceOps
  <2>2. Source(i, n) = <<V, Op(i, n).r>>
    BY <1>3, <2>1 DEF Source
  <2> QED BY <1>2, <2>2
<1>5. ASSUME NEW j \in DOMAIN p, NEW x \in ReadsOf(i, p[j]) PROVE x \in Parts /\ x[1] = V
  <2>1. PICK k \in DOMAIN p[j].src : /\ p[j].src[k].at = "reg"
          /\ x \in PartsAt(RegLoc(i, p[j].src[k].n, p[j].src[k].w),
                          RegLanes(i, p[j].src[k].n, p[j].src[k].w))
    BY <1>5 DEF ReadsOf
  <2>2. DOMAIN p = 1..Len(p) /\ Args(i, p[j].src)
    BY LenProperties DEF OwnViews, Reads, Listed
  <2>3. DOMAIN p[j].src = 1..Len(p[j].src)
    BY <2>2, LenProperties DEF Args, Listed
  <2> DEFINE src == p[j].src[k]
  <2>4. x \in Parts /\ x[1] = RegLoc(i, src.n, src.w)[1]
    BY <1>2, <2>1
  <2>5. x[1] \in {"v", "z"}
    BY <2>4, PartTypes
  <2>6. Op(i, src.n).k \notin {"gpr", "mem", "k"}
    BY <2>4, <2>5, ViewOfRegister
  <2>7. OwnView(i, src)
    BY <2>2, <2>3 DEF Args
  <2> HIDE DEF src
  <2>8. src.w = 64 <=> Wide(i)
    BY <2>1, <2>6, <2>7 DEF OwnView, src
  <2> QED BY <2>4, <2>6, <2>8, ViewOfRegister DEF V
<1>6. fl.reads \subseteq fl.consumes
  <2> SUFFICES ASSUME NEW x \in fl.reads PROVE x \in consumed
    BY <1>1
  <2>1. PICK y \in consumed : x[2] = y[2] /\ x[3] = y[3]
    BY <1>1
  <2>2. x \in Parts /\ x[1] = V
    BY <1>1, <1>5
  <2>3. y \in Parts /\ y[1] = V
    BY <1>4, <2>1
  <2>4. x = <<x[1], x[2], x[3]>> /\ y = <<y[1], y[2], y[3]>>
    BY <2>2, <2>3, PartTypes, Zenon
  <2>5. x = y
    BY <2>1, <2>2, <2>3, <2>4
  <2> QED BY <2>1, <2>5
<1>7. ASSUME NEW x \in fl.defines
      PROVE  /\ x \in Parts /\ x[1] = V /\ x[2] = Op(i, 1).r /\ x[3] \in lanes \ LeftAlone(i)
             /\ IsVec(Op(i, 1)) /\ i.it \notin FlagTests /\ lanes = Covers(Width(i), i.es)
  <2>1. x \in Parts /\ x = <<Loc(Op(i, 1))[1], Loc(Op(i, 1))[2], x[3]>> /\ x[3] \in lanes \ LeftAlone(i)
    BY <1>1, <1>2
  <2>2. IsVec(Op(i, 1)) /\ i.it \notin FlagTests /\ lanes = Covers(Width(i), i.es)
    BY <2>1 DEF lanes
  <2> QED BY <1>3, <2>1, <2>2
<1>8. ASSUME NEW x \in fl.defines PROVE x \in fl.writes
  <2>0. IsVec(Op(i, 1)) /\ i.it \notin FlagTests /\ lanes = Covers(Width(i), i.es)
    BY <1>7
  <2>1. PICK j \in 1..Len(p) : Defines(i, p[j])
    BY <2>0 DEF OwnViews
  <2>2. /\ p[j].do = "emit" /\ p[j].dst.at = "reg" /\ p[j].dst.n = 1
        /\ p[j].dst.w = 64 <=> Wide(i)
        /\ lanes \ LeftAlone(i) \subseteq Covers(p[j].dst.w, i.es)
    BY <2>0, <2>1 DEF Lifts, Defines
  <2>3. WritesOf(i, p[j]) = PartsAt(<<V, Op(i, 1).r>>, Covers(p[j].dst.w, i.es))
    BY <2>0, <2>2 DEF WritesOf, DstLoc, LanesTo, RegLoc, RegLanes, IsVec, V
  <2>4. WritesOf(i, p[j]) \subseteq before(Len(p) + 1)
    <3>1. Len(p) \in Nat
      BY LenProperties DEF OwnViews, Reads, Listed
    <3> QED BY <3>1 DEF before
  <2>5. x = <<x[1], x[2], x[3]>>
    BY <1>7, PartTypes, Zenon
  <2>6. x[1] = V /\ x[2] = Op(i, 1).r /\ x[3] \in Covers(p[j].dst.w, i.es) /\ x \in Parts
    BY <1>7, <2>2, Zenon
  <2>7. x \in WritesOf(i, p[j])
    BY <2>3, <2>5, <2>6 DEF PartsAt
  <2> QED BY <1>1, <1>7, <2>4, <2>7
<1>9. \A x, y \in fl.defines : x[2] = y[2] /\ x[3] = y[3] => x = y
  <2> SUFFICES ASSUME NEW x \in fl.defines, NEW y \in fl.defines, x[2] = y[2], x[3] = y[3]
               PROVE  x = y
    OBVIOUS
  <2>1. x = <<x[1], x[2], x[3]>> /\ y = <<y[1], y[2], y[3]>>
    BY <1>7, PartTypes, Zenon
  <2>2. x[1] = V /\ y[1] = V
    BY <1>7, Zenon
  <2>3. <<x[1], x[2], x[3]>> = <<y[1], y[2], y[3]>>
    BY <2>2
  <2> QED BY <2>1, <2>3, Zenon
<1>10. \A x \in fl.defines : <<x[2], x[3]>> \notin fl.clears
  <2> SUFFICES ASSUME NEW x \in fl.defines PROVE <<x[2], x[3]>> \notin fl.clears
    OBVIOUS
  <2>1. x[3] \in lanes
    BY <1>7, Zenon
  <2>2. fl.clears \subseteq {Op(i, 1).r} \X (Lanes \ lanes)
    BY <1>1
  <2> QED BY <2>1, <2>2
<1> QED BY <1>6, <1>8, <1>9, <1>10 DEF Honours, fl

(* What the helpers read.                                                  *)
LEMMA ReadsOfHelpers ==
  ASSUME NEW i
  PROVE  /\ \A n, v, size : Reads(i, load_operand_udt(i, n, v, size))
         /\ \A n : Reads(i, make_vector_load_mop(i, n)) /\ Reads(i, load_memory_address(i, n))
         /\ \A n, v : Reads(i, AvxOpLoader(i, n, v))
         /\ \A n, w : Reads(i, add_vec_source(i, n, w))
         /\ \A n, w : Reads(i, ScalarSource(i, n, w))
         /\ \A n, v : Reads(i, FreeIfMem(i, n, v))
         /\ \A n, v, w : Reads(i, emit_write_call(n, v, w))
         /\ Reads(i, MERR_OK) /\ OwnViews(i, MERR_INSN) /\ OwnViews(i, INTERR)
<1>1. \A n, v, size : Reads(i, load_operand_udt(i, n, v, size))
  BY ReadsOfSteps, ReadsOfTuples DEF load_operand_udt, emit_zmm_load
<1>2. \A n : Reads(i, make_vector_load_mop(i, n)) /\ Reads(i, load_memory_address(i, n))
  BY ReadsOfSteps, ReadsOfTuples DEF make_vector_load_mop, load_memory_address
<1>3. \A n, v : Reads(i, AvxOpLoader(i, n, v))
  BY <1>1, ReadsOfTuples DEF AvxOpLoader
<1>4. \A n, w : Reads(i, add_vec_source(i, n, w))
  BY <1>3, ReadsOfSteps, ReadsOfTuples, ReadsCompose DEF add_vec_source
<1>5. \A n, w : Reads(i, ScalarSource(i, n, w))
  BY <1>3, ReadsOfSteps, ReadsOfTuples, ReadsCompose DEF ScalarSource
<1>6. \A n, v : Reads(i, FreeIfMem(i, n, v))
  BY ReadsOfSteps, ReadsOfTuples DEF FreeIfMem
<1>7. \A n, v, w : Reads(i, emit_write_call(n, v, w))
  BY ReadsOfSteps, ReadsOfTuples DEF emit_write_call
<1>8. Reads(i, MERR_OK) /\ OwnViews(i, MERR_INSN) /\ OwnViews(i, INTERR)
  BY ReadsOfSteps, ReadsOfTuples DEF MERR_OK, MERR_INSN, INTERR
<1> QED BY <1>1, <1>2, <1>3, <1>4, <1>5, <1>6, <1>7, <1>8

(* Operands that have the width of the view;                               *)
OwnWidth(i, w) == w = 64 <=> Wide(i)

LEMMA OwnOperands ==
  ASSUME NEW i, NEW w, OwnWidth(i, w)
  PROVE  /\ \A n : OwnView(i, Reg(n, w))
         /\ \A n, v : OwnView(i, Loaded(i, n, v, w))
         /\ \A n : OwnView(i, VecSource(i, n, w))
         /\ Args(i, MergeArg(i, w))
         /\ \A args : Args(i, args) => Args(i, MaskedArgs(i, w, args))
<1>1. \A n : OwnView(i, Reg(n, w))
  BY DEF OwnView, Reg, OwnWidth
<1>2. (\A n, v : OwnView(i, Loaded(i, n, v, w))) /\ \A n : OwnView(i, VecSource(i, n, w))
  BY <1>1, ReadsOfSteps DEF Loaded, VecSource
<1>3. Args(i, MergeArg(i, w))
  BY <1>1, ReadsOfTuples DEF MergeArg
<1>4. ASSUME NEW args, Args(i, args) PROVE Args(i, MaskedArgs(i, w, args))
  BY <1>3, <1>4, ReadsOfSteps, ReadsOfTuples, ReadsCompose DEF MaskedArgs
<1> QED BY <1>1, <1>2, <1>3, <1>4

(* of vector and scalar instructions;                                      *)
LEMMA OwnWidths ==
  ASSUME NEW i, Regular(i)
  PROVE  /\ \A n : IsVec(Op(i, n)) => OwnWidth(i, Op(i, n).w)
         /\ \A n : IsXmm(Op(i, n)) => OwnWidth(i, 16) /\ OwnWidth(i, i.es) /\ ~Wide(i) /\ Op(i, n).w = 16
         /\ \A n : IsXmm(Op(i, n)) => OwnWidth(i, 8) /\ OwnWidth(i, 4)
<1>1. \A n : IsVec(Op(i, n)) => Op(i, n).k \in {"xmm", "ymm", "zmm"}
  BY DEF IsVec
<1>2. \A n : IsVec(Op(i, n)) => (Op(i, n).w = 64 <=> Op(i, n).k = "zmm")
  BY <1>1, RegularOperands DEF IsXmm
<1>3. \A n : IsXmm(Op(i, n)) => ~Wide(i) /\ Op(i, n).w = 16
  BY RegularOperands DEF IsVec, IsXmm
<1>4. i.es \in 1..8
  BY DEF Regular, Decoded
<1> QED BY <1>2, <1>3, <1>4, RegularOperands DEF OwnWidth

(* and the result of a call in operand 1.                                  *)
Whole1(i, w) == OwnWidth(i, w) /\ Covers(Width(i), i.es) \ LeftAlone(i) \subseteq Covers(w, i.es)

LEMMA OwnResults ==
  ASSUME NEW i, NEW w, Whole1(i, w)
  PROVE  /\ \A args : Args(i, args) => /\ OwnViews(i, <<Call(Reg(1, w), args)>>)
                                      /\ OwnViews(i, <<ScalarCall(Reg(1, w), args)>>)
                                      /\ OwnViews(i, CallIntoVec(i, w, args))
         /\ \A s : OwnView(i, s) => OwnViews(i, <<Mov(Reg(1, w), s)>>)
<1>1. /\ \A args : Defines(i, Call(Reg(1, w), args)) /\ Defines(i, ScalarCall(Reg(1, w), args))
      /\ \A s : Defines(i, Mov(Reg(1, w), s))
  BY DEF Defines, Call, ScalarCall, Mov, Emit, Step, Reg, Whole1, OwnWidth
<1>2. \A args : Args(i, args) => /\ OwnViews(i, <<Call(Reg(1, w), args)>>)
                                 /\ OwnViews(i, <<ScalarCall(Reg(1, w), args)>>)
  BY <1>1, ReadsOfSteps, ReadsOfTuples
<1>3. \A s : OwnView(i, s) => OwnViews(i, <<Mov(Reg(1, w), s)>>)
  BY <1>1, ReadsOfSteps, ReadsOfTuples
<1>4. ASSUME NEW args, Args(i, args) PROVE OwnViews(i, CallIntoVec(i, w, args))
  <2>1. Reads(i, <<Alloc("tmp", w), Call(Tmp("tmp", w), args)>>)
    BY <1>4, ReadsOfSteps, ReadsOfTuples
  <2>2. OwnViews(i, emit_write_call(1, "tmp", w))
    <3>1. emit_write_call(1, "tmp", w) = <<Mov(Reg(1, w), Tmp("tmp", w))>> \o <<Free("tmp")>>
      BY DEF emit_write_call
    <3> QED BY <1>3, <3>1, ReadsOfSteps, ReadsOfTuples, ReadsCompose
  <2> QED BY <1>2, <1>4, <2>1, <2>2, ReadsCompose DEF CallIntoVec
<1> QED BY <1>2, <1>3, <1>4

LEMMA OwnIntrinsics ==
  ASSUME NEW i, Whole1(i, Op(i, 1).w), IsXmm(Op(i, 1)) => Op(i, 1).w = 16
  PROVE  /\ \A n : OwnView(i, Vec(i, n)) /\ OwnView(i, Src(i, n)) /\ OwnView(i, Imm(n))
         /\ \A args : Args(i, args) => OwnViews(i, Intrinsic(i, args))
         /\ \A imm : Args(i, imm) => OwnViews(i, Unary(i, imm)) /\ OwnViews(i, Binary(i, imm))
         /\ IsXmm(Op(i, 1)) => \A imm : Args(i, imm) => OwnViews(i, ScalarBinaryOp(i, imm))
                                        /\ OwnViews(i, ScalarIntrinsic(i, imm))
         /\ OwnViews(i, accumulate(i))
<1> DEFINE w == Op(i, 1).w
<1>1. OwnWidth(i, w)
  BY DEF Whole1
<1>2. \A n : OwnView(i, Vec(i, n)) /\ OwnView(i, Src(i, n)) /\ OwnView(i, Imm(n))
  BY <1>1, OwnOperands, ReadsOfSteps DEF Vec, Src
<1>3. ASSUME NEW args, Args(i, args) PROVE OwnViews(i, Intrinsic(i, args))
  <2>1. Args(i, MaskedArgs(i, w, args))
    BY <1>1, <1>3, OwnOperands
  <2>2. OwnViews(i, <<Call(Reg(1, w), MaskedArgs(i, w, args))>>)
    BY <2>1, OwnResults
  <2> QED BY <2>2, ReadsOfHelpers, ReadsCompose DEF Intrinsic
<1>4. ASSUME NEW imm, Args(i, imm) PROVE OwnViews(i, Unary(i, imm)) /\ OwnViews(i, Binary(i, imm))
  <2>1. Args(i, <<Src(i, 2)>> \o imm) /\ Args(i, <<Vec(i, 2), Src(i, 3)>> \o imm)
    BY <1>2, <1>4, ReadsOfTuples, ReadsCompose
  <2> QED BY <1>3, <2>1, ReadsOfHelpers, ReadsCompose DEF Unary, Binary
<1>5. ASSUME IsXmm(Op(i, 1)), NEW imm, Args(i, imm)
      PROVE  OwnViews(i, ScalarBinaryOp(i, imm)) /\ OwnViews(i, ScalarIntrinsic(i, imm))
  <2>1. w = 16 /\ OwnWidth(i, 16) /\ Whole1(i, 16)
    BY <1>1, <1>5
  <2>2. Args(i, <<Reg(2, 16), Loaded(i, 3, "t", 16)>> \o imm)
    BY <1>5, <2>1, OwnOperands, ReadsOfTuples, ReadsCompose
  <2>3. Args(i, MaskedArgs(i, 16, <<Reg(2, 16), Loaded(i, 3, "t", 16)>> \o imm))
    BY <2>1, <2>2, OwnOperands
  <2>4. OwnViews(i, ScalarIntrinsic(i, imm))
    BY <2>1, <2>3, OwnResults, ReadsOfHelpers, ReadsCompose DEF ScalarIntrinsic
  <2> QED BY <2>4, ReadsOfHelpers, ReadsCompose DEF ScalarBinaryOp
<1>6. OwnViews(i, accumulate(i))
  <2> DEFINE mask == add_argument_mask(NumElements(i))
             args == (CASE i.mask = "zero"  -> <<mask, Reg(1, w)>>
                        [] i.mask = "merge" -> <<Reg(1, w), mask>>
                        [] OTHER            -> <<Reg(1, w)>>)
                     \o <<Vec(i, 2), Src(i, 3)>>
  <2>1. /\ Args(i, <<mask, Reg(1, w)>>) /\ Args(i, <<Reg(1, w), mask>>) /\ Args(i, <<Reg(1, w)>>)
        /\ Args(i, <<Vec(i, 2), Src(i, 3)>>)
    BY <1>1, <1>2, OwnOperands, ReadsOfSteps, ReadsOfTuples
  <2>2. Args(i, args)
    BY <2>1, ReadsCompose
  <2> HIDE DEF args
  <2>3. OwnViews(i, <<Call(Reg(1, w), args)>>)
    BY <1>1, <2>2, OwnResults
  <2>4. OwnViews(i, AvxOpLoader(i, 3, "s") \o <<Call(Reg(1, w), args)>> \o MERR_OK)
    BY <2>3, ReadsOfHelpers, ReadsCompose
  <2> QED BY <2>4 DEF accumulate, args
<1> QED BY <1>2, <1>3, <1>4, <1>5, <1>6

LEMMA OwnAsserted ==
  ASSUME NEW i, NEW p, OwnViews(i, p)
  PROVE  \A c : OwnViews(i, QASSERT(c, p))
BY ReadsOfHelpers DEF QASSERT

(* Without its opmask an instruction has the same views.                   *)
LEMMA OwnUnmasked ==
  ASSUME NEW i, Regular(i)
  PROVE  /\ \A n : Op(IgnoresMask(i), n) = Op(i, n)
         /\ Regular(IgnoresMask(i))
         /\ IgnoresMask(i).it = i.it /\ IgnoresMask(i).es = i.es
         /\ \A w : Whole1(i, w) => Whole1(IgnoresMask(i), w)
         /\ \A p : OwnViews(IgnoresMask(i), p) => OwnViews(i, p)
         /\ Whole1(i, Op(i, 1).w) =>
              LET j == IgnoresMask(i)
              IN  /\ \A args : Args(i, args) => OwnViews(i, Intrinsic(j, args))
                  /\ \A imm : Args(i, imm) => OwnViews(i, Unary(j, imm)) /\ OwnViews(i, Binary(j, imm))
<1> DEFINE j == IgnoresMask(i)
<1>1. j.it = i.it /\ j.es = i.es /\ j.ops = i.ops /\ DOMAIN j = DOMAIN i
  BY DEF Regular, Decoded, IgnoresMask
<1> HIDE DEF j
<1>2. \A n : Op(j, n) = Op(i, n)
  BY <1>1 DEF Op
<1>3. Wide(j) <=> Wide(i)
  BY <1>1, <1>2 DEF Wide
<1>4. Regular(j)
  <2>1. OneView(j)
    BY <1>1, <1>2, <1>3 DEF Regular, OneView
  <2>2. Decoded(j)
    BY <1>1, <1>2, <1>3 DEF Regular, Decoded
  <2> QED BY <2>1, <2>2 DEF Regular
<1>5. Width(j) = Width(i) /\ LeftAlone(j) = LeftAlone(i)
  BY <1>1, <1>2 DEF Width, LeftAlone, ScalarDst, RestFrom
<1>6. \A s : OwnView(j, s) <=> OwnView(i, s)
  BY <1>2, <1>3 DEF OwnView
<1>7. \A st : Defines(j, st) <=> Defines(i, st)
  BY <1>1, <1>3, <1>5 DEF Defines
<1>8. ASSUME NEW p, OwnViews(j, p) PROVE OwnViews(i, p)
  BY <1>1, <1>2, <1>6, <1>7, <1>8 DEF OwnViews, Reads, Args
<1>9. \A w : Whole1(i, w) => Whole1(j, w)
  BY <1>1, <1>3, <1>5 DEF Whole1, OwnWidth
<1>10. \A a : Args(i, a) => Args(j, a)
  BY <1>6 DEF Args
<1>11. ASSUME Whole1(i, Op(i, 1).w)
       PROVE  /\ \A args : Args(i, args) => OwnViews(i, Intrinsic(j, args))
              /\ \A imm : Args(i, imm) => OwnViews(i, Unary(j, imm)) /\ OwnViews(i, Binary(j, imm))
  <2>1. Whole1(j, Op(j, 1).w) /\ (IsXmm(Op(j, 1)) => Op(j, 1).w = 16)
    BY <1>2, <1>4, <1>9, <1>11, RegularOperands
  <2> QED BY <1>8, <1>10, <2>1, OwnIntrinsics
<1> QED BY <1>1, <1>2, <1>4, <1>8, <1>9, <1>11 DEF j

(* What the instruction defines of a vector register.                      *)
LEMMA MathResults ==
  ASSUME NEW i, Regular(i), i.it \in MathInsns
  PROVE  /\ IsVec(Op(i, 1)) /\ Width(i) = Op(i, 1).w /\ Whole1(i, Op(i, 1).w)
         /\ IsScalar(i) => IsXmm(Op(i, 1))
         /\ IsXmm(Op(i, 1)) => Op(i, 1).w = 16
         /\ IsXmm(Op(i, 1)) => Whole1(i, 16) /\ OwnWidth(i, 16) /\ OwnWidth(i, 4) /\ OwnWidth(i, 8)
                                /\ OwnWidth(i, i.es)
<1>1. IsVec(Op(i, 1))
  BY DEF Regular, Decoded
<1>2. i.it \notin ScalarMoves \union Transfers \union VmxInsns
  BY DEF MathInsns, PackedUnary, PackedUnaryImm, PackedBinary, PackedBinaryImm, Accumulating, Fixups,
         MulAdds, ComplexMulAdd, ScalarMath, ScalarUnary, ScalarBinary, ScalarBinaryImm, MulAdd132,
         MulAdd213, MulAdd231, ScalarMulAdds, WideProducts, ScalarMoves, Transfers, VmxInsns
<1>3. i.it \notin ScalarToMask \union NarrowMaskInsns
  BY DEF MathInsns, PackedUnary, PackedUnaryImm, PackedBinary, PackedBinaryImm, Accumulating, Fixups,
         MulAdds, ComplexMulAdd, ScalarMath, ScalarUnary, ScalarBinary, ScalarBinaryImm, MulAdd132,
         MulAdd213, MulAdd231, ScalarMulAdds, WideProducts, ScalarToMask, NarrowMaskInsns, Kmovs,
         UnaryMaskOps, BinaryMaskOps, MaskTests
<1>4. Width(i) = Op(i, 1).w
  BY <1>1, <1>2, <1>3, Zenon DEF Width
<1>5. Whole1(i, Op(i, 1).w)
  BY <1>1, <1>4, OwnWidths DEF Whole1
<1>6. IsScalar(i) => IsXmm(Op(i, 1))
  BY <1>1 DEF IsScalar, Scalars, Regular, Decoded, IsVec, IsMem
<1> QED BY <1>1, <1>4, <1>5, <1>6, OwnWidths DEF Whole1

(* The arithmetic handlers.                                                *)
LEMMA MathViews ==
  ASSUME NEW i, Regular(i), i.it \in MathInsns
  PROVE  /\ OwnViews(i, handle_v_math_ph(i)) /\ OwnViews(i, handle_vaddsubps_pd(i))
         /\ OwnViews(i, handle_v_math_p(i)) /\ OwnViews(i, handle_v_abs(i))
         /\ OwnViews(i, handle_v_sign(i)) /\ OwnViews(i, handle_v_hmath(i))
         /\ OwnViews(i, handle_v_dot(i)) /\ OwnViews(i, handle_vsad(i))
         /\ OwnViews(i, handle_v_fma(i)) /\ OwnViews(i, handle_v_fma_ph(i))
         /\ OwnViews(i, handle_v_complex_ph(i)) /\ OwnViews(i, handle_v_ifma(i))
         /\ OwnViews(i, handle_v_vnni(i))
         /\ OwnViews(i, handle_vsqrt_ps_pd(i)) /\ OwnViews(i, handle_v_sqrt_ph(i))
         /\ OwnViews(i, handle_vrcp_rsqrt(i)) /\ OwnViews(i, handle_vround(i))
         /\ OwnViews(i, handle_v_getexp(i)) /\ OwnViews(i, handle_v_scalef(i))
         /\ OwnViews(i, handle_v_getmant(i)) /\ OwnViews(i, handle_v_reduce(i))
         /\ OwnViews(i, handle_v_fixupimm(i)) /\ OwnViews(i, handle_v_range(i))
<1> DEFINE w == Op(i, 1).w
           j == IgnoresMask(i)
<1>1. /\ IsVec(Op(i, 1)) /\ Whole1(i, w) /\ OwnWidth(i, w)
      /\ IsScalar(i) => IsXmm(Op(i, 1))
      /\ IsXmm(Op(i, 1)) => Op(i, 1).w = 16
  BY MathResults DEF Whole1
<1>2. /\ \A n : OwnView(i, Vec(i, n)) /\ OwnView(i, Src(i, n)) /\ OwnView(i, Imm(n))
      /\ \A args : Args(i, args) => OwnViews(i, Intrinsic(i, args))
      /\ \A imm : Args(i, imm) => OwnViews(i, Unary(i, imm)) /\ OwnViews(i, Binary(i, imm))
      /\ IsScalar(i) => \A imm : Args(i, imm) => OwnViews(i, ScalarBinaryOp(i, imm))
      /\ OwnViews(i, accumulate(i))
  BY <1>1, OwnIntrinsics
<1>3. Args(i, <<>>) /\ \A n : Args(i, <<Imm(n)>>)
  BY <1>2, ReadsOfTuples
<1>5. /\ \A args : Args(i, args) => OwnViews(i, Intrinsic(j, args))
      /\ \A imm : Args(i, imm) => OwnViews(i, Unary(j, imm)) /\ OwnViews(i, Binary(j, imm))
  BY <1>1, OwnUnmasked
<1> HIDE DEF j
<1>6. OwnViews(i, handle_v_math_ph(i)) /\ OwnViews(i, handle_vaddsubps_pd(i))
  BY <1>2, <1>3, OwnAsserted DEF handle_v_math_ph, handle_vaddsubps_pd
<1>7. /\ OwnViews(i, handle_v_abs(i)) /\ OwnViews(i, handle_v_sign(i))
      /\ OwnViews(i, handle_v_hmath(i)) /\ OwnViews(i, handle_vsad(i))
      /\ OwnViews(i, handle_vsqrt_ps_pd(i))
  BY <1>3, <1>5, OwnAsserted
     DEF handle_v_abs, handle_v_sign, handle_v_hmath, handle_vsad, handle_vsqrt_ps_pd, j
<1>8. OwnViews(i, handle_v_dot(i))
  <2>1. OwnViews(i, Intrinsic(j, <<Vec(i, 2), Src(i, 3), Imm(4)>>))
    BY <1>2, <1>5, ReadsOfTuples
  <2> QED BY <2>1, OwnAsserted, ReadsOfHelpers, ReadsCompose DEF handle_v_dot, j
<1>9. OwnViews(i, handle_v_math_p(i))
  <2> DEFINE mask == add_argument_mask(from_insn(i, math_p_elem_size(i)))
             args == (IF Masked(i) THEN MergeArg(i, w) \o <<mask>> ELSE <<>>) \o <<Vec(i, 2), Src(i, 3)>>
  <2>1. Args(i, args)
    BY <1>1, <1>2, OwnOperands, ReadsOfSteps, ReadsOfTuples, ReadsCompose
  <2>2. OwnViews(i, CallIntoVec(i, w, args))
    BY <1>1, <2>1, OwnResults
  <2> HIDE DEF args
  <2>3. OwnViews(i, AvxOpLoader(i, 3, "s") \o CallIntoVec(i, w, args) \o MERR_OK)
    BY <2>2, ReadsOfHelpers, ReadsCompose
  <2> QED BY <2>3, OwnAsserted DEF handle_v_math_p, args
<1>10. OwnViews(i, handle_v_fma(i)) /\ OwnViews(i, handle_v_fma_ph(i))
  <2> DEFINE op3  == IF IsScalar(i) THEN Loaded(i, 3, "t", 16) ELSE Src(i, 3)
             ord  == [k \in 1..3 |-> IF fma_order(i)[k] = 3 THEN op3 ELSE Vec(i, fma_order(i)[k])]
             args == MaskedArgs(i, w, ord)
  <2>1. OwnView(i, op3)
    BY <1>1, <1>2, OwnOperands
  <2>2. Args(i, ord)
    <3>1. ord \in Seq({ord[1], ord[2], ord[3]}) /\ Len(ord) = 3
      OBVIOUS
    <3>2. Listed(ord)
      BY <3>1, Zenon DEF Listed
    <3>3. \A k \in 1..3 : OwnView(i, ord[k])
      BY <1>2, <2>1
    <3> QED BY <3>1, <3>2, <3>3 DEF Args
  <2> HIDE DEF op3, ord
  <2>3. Args(i, args)
    BY <1>1, <2>2, OwnOperands
  <2> HIDE DEF args
  <2>4. /\ OwnViews(i, <<Call(Reg(1, w), args)>>)
        /\ IsScalar(i) => OwnViews(i, <<ScalarCall(Reg(1, 16), args)>>)
    BY <1>1, <2>3, OwnResults
  <2>5. /\ OwnViews(i, AvxOpLoader(i, 3, "s") \o <<Call(Reg(1, w), args)>> \o MERR_OK)
        /\ IsScalar(i) => OwnViews(i, ScalarSource(i, 3, i.es) \o <<ScalarCall(Reg(1, 16), args)>>
                                      \o FreeIfMem(i, 3, "t") \o MERR_OK)
    BY <2>4, ReadsOfHelpers, ReadsCompose
  <2> QED BY <2>5 DEF handle_v_fma, handle_v_fma_ph, args, ord, op3
<1>11. OwnViews(i, handle_v_complex_ph(i))
  <2> DEFINE a == (IF i.it \in ComplexMulAdd THEN <<Reg(1, w), Reg(2, w)>> ELSE <<Reg(2, w)>>)
                  \o <<VecSource(i, 3, w)>>
             args == MaskedArgs(i, w, a)
  <2>1. Args(i, a)
    BY <1>1, OwnOperands, ReadsOfTuples, ReadsCompose
  <2>2. Args(i, args)
    BY <1>1, <2>1, OwnOperands
  <2> HIDE DEF args
  <2>3. OwnViews(i, <<Call(Reg(1, w), args)>>) /\ OwnViews(i, <<ScalarCall(Reg(1, w), args)>>)
    BY <1>1, <2>2, OwnResults
  <2>4. /\ OwnViews(i, add_vec_source(i, 3, w) \o <<Call(Reg(1, w), args)>> \o MERR_OK)
        /\ OwnViews(i, add_vec_source(i, 3, w) \o <<ScalarCall(Reg(1, w), args)>> \o MERR_OK)
    BY <2>3, ReadsOfHelpers, ReadsCompose
  <2> QED BY <2>4 DEF handle_v_complex_ph, args
<1>13. OwnViews(i, handle_v_ifma(i)) /\ OwnViews(i, handle_v_vnni(i))
  BY <1>2 DEF handle_v_ifma, handle_v_vnni
<1>14. OwnViews(i, handle_v_sqrt_ph(i)) /\ OwnViews(i, handle_vrcp_rsqrt(i))
  BY <1>2, <1>3 DEF handle_v_sqrt_ph, handle_vrcp_rsqrt
<1>15. OwnViews(i, handle_vround(i))
  <2>1. OwnViews(i, Intrinsic(i, <<Src(i, 2), Imm(3)>>))
    BY <1>2, ReadsOfTuples
  <2> QED BY <2>1, OwnAsserted, ReadsOfHelpers, ReadsCompose DEF handle_vround
<1>16. OwnViews(i, handle_v_getexp(i)) /\ OwnViews(i, handle_v_scalef(i))
  BY <1>2, <1>3 DEF handle_v_getexp, handle_v_scalef
<1>17. OwnViews(i, unary_with_imm(i)) /\ OwnViews(i, binary_with_imm(i))
  BY <1>2, <1>3, OwnAsserted DEF unary_with_imm, binary_with_imm
<1>18. /\ OwnViews(i, handle_v_getmant(i)) /\ OwnViews(i, handle_v_reduce(i))
       /\ OwnViews(i, handle_v_fixupimm(i)) /\ OwnViews(i, handle_v_range(i))
  BY <1>17 DEF handle_v_getmant, handle_v_reduce, handle_v_fixupimm, handle_v_range
<1> QED BY <1>6, <1>7, <1>8, <1>9, <1>10, <1>11, <1>13, <1>14, <1>15, <1>16, <1>18

(* Those of scalars, and of brain floats.                                  *)
LEMMA ScalarViews ==
  ASSUME NEW i, Regular(i), i.it \in MathInsns
  PROVE  /\ IsScalar(i) => OwnViews(i, handle_v_math_ss_sd(i))
         /\ OwnViews(i, handle_v_minmax_ss_sd(i)) /\ OwnViews(i, handle_v_math_sh(i))
         /\ OwnViews(i, handle_v_bf16(i))
         /\ OwnViews(i, handle_vsqrtss(i)) /\ OwnViews(i, handle_vsqrtsd(i))
         /\ OwnViews(i, handle_vsqrt_sh(i)) /\ OwnViews(i, handle_vrcp_rsqrt_ss(i))
         /\ OwnViews(i, handle_vround_ss_sd(i))
         /\ IsScalar(i) => OwnViews(i, handle_v_fp16_scalar_misc(i))
<1>1. /\ IsVec(Op(i, 1)) /\ Whole1(i, Op(i, 1).w) /\ OwnWidth(i, Op(i, 1).w)
      /\ IsScalar(i) => IsXmm(Op(i, 1))
      /\ IsXmm(Op(i, 1)) => /\ Op(i, 1).w = 16 /\ Whole1(i, 16) /\ OwnWidth(i, 16)
                            /\ OwnWidth(i, 4) /\ OwnWidth(i, 8) /\ OwnWidth(i, i.es)
  BY MathResults DEF Whole1
<1>2. /\ \A n : OwnView(i, Vec(i, n)) /\ OwnView(i, Src(i, n)) /\ OwnView(i, Imm(n))
      /\ \A args : Args(i, args) => OwnViews(i, Intrinsic(i, args))
      /\ \A imm : Args(i, imm) => OwnViews(i, Unary(i, imm)) /\ OwnViews(i, Binary(i, imm))
      /\ IsXmm(Op(i, 1)) => \A imm : Args(i, imm) => OwnViews(i, ScalarBinaryOp(i, imm))
                                                     /\ OwnViews(i, ScalarIntrinsic(i, imm))
  BY <1>1, OwnIntrinsics
<1>3. Args(i, <<>>) /\ \A n : Args(i, <<Imm(n)>>)
  BY <1>2, ReadsOfTuples
<1>4. Xmms12(i) => IsXmm(Op(i, 1))
  BY DEF Xmms12
<1>5. /\ OwnViews(i, handle_v_minmax_ss_sd(i)) /\ OwnViews(i, handle_v_math_sh(i))
      /\ OwnViews(i, handle_vsqrt_sh(i)) /\ OwnViews(i, handle_vrcp_rsqrt_ss(i))
  BY <1>2, <1>3, <1>4, ReadsOfHelpers
     DEF QASSERT, handle_v_minmax_ss_sd, handle_v_math_sh, handle_vsqrt_sh, handle_vrcp_rsqrt_ss
<1>6. OwnViews(i, handle_vround_ss_sd(i))
  <2>1. IsXmm(Op(i, 1)) => OwnViews(i, QASSERT(Op(i, 4).k = "imm", ScalarIntrinsic(i, <<Imm(4)>>)))
    BY <1>2, <1>3, OwnAsserted
  <2>2. IsXmm(Op(i, 1)) =>
          OwnViews(i, ScalarSource(i, 3, i.es)
                      \o QASSERT(Op(i, 4).k = "imm", ScalarIntrinsic(i, <<Imm(4)>>)))
    BY <2>1, ReadsOfHelpers, ReadsCompose
  <2>3. OwnViews(i, INTERR)
    BY ReadsOfHelpers
  <2> QED BY <1>4, <2>2, <2>3, Zenon DEF QASSERT, handle_vround_ss_sd
<1>7. OwnViews(i, handle_v_bf16(i))
  <2>1. OwnView(i, Loaded(i, 2, "s", Op(i, 2).w))
    <3>1. CASE IsVec(Op(i, 2))
      BY <3>1, OwnWidths, OwnOperands
    <3>2. CASE IsMem(Op(i, 2))
      BY <3>2, ReadsOfSteps DEF Loaded
    <3> QED BY <3>1, <3>2 DEF Regular, Decoded
  <2>2. OwnViews(i, Intrinsic(i, <<Loaded(i, 2, "s", Op(i, 2).w)>>))
    BY <1>2, <2>1, ReadsOfTuples
  <2>3. OwnViews(i, accumulate(i))
    BY <1>1, OwnIntrinsics
  <2> QED BY <1>2, <1>3, <2>2, <2>3, ReadsOfHelpers, ReadsCompose, Zenon DEF handle_v_bf16
<1>8. IsScalar(i) => OwnViews(i, handle_v_fp16_scalar_misc(i))
  <2> SUFFICES ASSUME IsScalar(i) PROVE OwnViews(i, handle_v_fp16_scalar_misc(i))
    OBVIOUS
  <2> DEFINE a == <<Reg(2, 16), VecSource(i, 3, 16)>>
                  \o (IF i.it \in FP16Imm /\ Op(i, 4).k = "imm" THEN <<Imm(4)>> ELSE <<>>)
             args == MaskedArgs(i, 16, a)
  <2>1. OwnWidth(i, 16) /\ Whole1(i, 16)
    BY <1>1
  <2>2. Args(i, a)
    BY <1>3, <2>1, OwnOperands, ReadsOfTuples, ReadsCompose
  <2>3. Args(i, args)
    BY <2>1, <2>2, OwnOperands
  <2> HIDE DEF args
  <2>4. OwnViews(i, <<ScalarCall(Reg(1, 16), args)>>)
    BY <2>1, <2>3, OwnResults
  <2>5. OwnViews(i, add_vec_source(i, 3, 16) \o <<ScalarCall(Reg(1, 16), args)>> \o MERR_OK)
    BY <2>4, ReadsOfHelpers, ReadsCompose
  <2> QED BY <2>5 DEF handle_v_fp16_scalar_misc, args
<1>9. ASSUME NEW a, NEW w, NEW v, Args(i, a.src), w \in {4, 8}, IsXmm(Op(i, 1))
      PROVE  OwnViews(i, <<a, Mov(Tmp("tmp", 16), Reg(2, 16)),
                           Call(Tmp("tmp", w), <<Loaded(i, 3, v, w)>>),
                           Mov(Reg(1, 16), Tmp("tmp", 16)), Free("tmp")>>)
  <2>1. OwnWidth(i, w) /\ OwnWidth(i, 16) /\ Whole1(i, 16)
    BY <1>1, <1>9
  <2> DEFINE b == Mov(Tmp("tmp", 16), Reg(2, 16))
             c == Call(Tmp("tmp", w), <<Loaded(i, 3, v, w)>>)
             d == Mov(Reg(1, 16), Tmp("tmp", 16))
             e == Free("tmp")
  <2>2. Args(i, b.src) /\ Args(i, d.src) /\ Args(i, e.src)
    BY <2>1, ReadsOfSteps, OwnOperands
  <2>3. Args(i, c.src)
    BY <2>1, ReadsOfSteps, ReadsOfTuples, OwnOperands
  <2>4. Defines(i, d)
    BY <2>1 DEF Defines, Mov, Emit, Step, Reg, Whole1, OwnWidth
  <2> HIDE DEF b, c, d, e
  <2>5. OwnViews(i, <<a, b, c, d, e>>)
    BY <1>9, <2>2, <2>3, <2>4, ReadsOfTuples
  <2> QED BY <2>5 DEF b, c, d, e
<1>10. OwnViews(i, handle_vsqrtss(i))
  <2> DEFINE a == Alloc("tmp", 16)
             p == <<a, Mov(Tmp("tmp", 16), Reg(2, 16)),
                    Call(Tmp("tmp", 4), <<Loaded(i, 3, "s", 4)>>), Mov(Reg(1, 16), Tmp("tmp", 16)),
                    Free("tmp")>>
  <2>0. Args(i, a.src) /\ 4 \in {4, 8}
    BY ReadsOfSteps
  <2> HIDE DEF a
  <2>1. IsXmm(Op(i, 1)) => OwnViews(i, p)
    BY <1>9, <2>0, Zenon
  <2> HIDE DEF p
  <2>2. IsXmm(Op(i, 1)) => OwnViews(i, AvxOpLoader(i, 3, "s") \o p \o MERR_OK)
    BY <2>1, ReadsOfHelpers, ReadsCompose
  <2>3. OwnViews(i, INTERR)
    BY ReadsOfHelpers
  <2> QED BY <1>4, <2>2, <2>3, Zenon DEF QASSERT, handle_vsqrtss, a, p
<1>11. OwnViews(i, handle_vsqrtsd(i))
  <2> DEFINE a == AllocElseFree("tmp", 16, IF IsMem(Op(i, 3)) THEN "t" ELSE "")
             p == <<a, Mov(Tmp("tmp", 16), Reg(2, 16)),
                    Call(Tmp("tmp", 8), <<Loaded(i, 3, "t", 8)>>),
                    Mov(Reg(1, 16), Tmp("tmp", 16)), Free("tmp")>>
  <2>0. Args(i, a.src) /\ 8 \in {4, 8}
    BY ReadsOfSteps
  <2> HIDE DEF a
  <2>1. IsXmm(Op(i, 1)) => OwnViews(i, p)
    BY <1>9, <2>0, Zenon
  <2> HIDE DEF p
  <2>2. IsXmm(Op(i, 1)) =>
          OwnViews(i, ScalarSource(i, 3, 8) \o p \o FreeIfMem(i, 3, "t") \o MERR_OK)
    BY <2>1, ReadsOfHelpers, ReadsCompose
  <2>3. OwnViews(i, INTERR)
    BY ReadsOfHelpers
  <2> QED BY <1>4, <2>2, <2>3, Zenon DEF QASSERT, handle_vsqrtsd, a, p
<1>12. IsScalar(i) => OwnViews(i, handle_v_math_ss_sd(i))
  <2> SUFFICES ASSUME IsScalar(i) PROVE OwnViews(i, handle_v_math_ss_sd(i))
    OBVIOUS
  <2> DEFINE r == IF Op(i, 3).k = "void" THEN Reg(1, i.es) ELSE Loaded(i, 3, "s", i.es)
             copied  == Op(i, 2).r # Op(i, 1).r
             aliased == copied /\ (Op(i, 3).k = "void" \/ (IsXmm(Op(i, 3)) /\ Op(i, 3).r = Op(i, 1).r))
             save == IF aliased THEN <<Alloc("t", i.es), Mov(Tmp("t", i.es), r)>> ELSE <<>>
             copy == IF copied THEN <<Mov(Reg(1, 16), Reg(2, 16))>> ELSE <<>>
             args == <<Reg(2, i.es), IF aliased THEN Tmp("t", i.es) ELSE r>>
             call == <<Call(Reg(1, i.es), args)>>
  <2>1. OwnWidth(i, 16) /\ OwnWidth(i, i.es) /\ Whole1(i, 16) /\ IsXmm(Op(i, 1))
    BY <1>1
  <2>2. OwnView(i, r)
    BY <2>1, OwnOperands
  <2> HIDE DEF r
  <2>3. Reads(i, save)
    BY <2>2, ReadsOfSteps, ReadsOfTuples
  <2>4. copied => OwnViews(i, copy)
    BY <2>1, OwnOperands, OwnResults
  <2>5. ~copied => Reads(i, copy)
    BY ReadsOfTuples
  <2>6. Args(i, args)
    BY <2>1, <2>2, OwnOperands, ReadsOfSteps, ReadsOfTuples
  <2>7. Reads(i, call)
    BY <2>6, ReadsOfSteps, ReadsOfTuples
  <2>8. ~copied => OwnViews(i, call)
    <3> SUFFICES ASSUME ~copied PROVE OwnViews(i, call)
      OBVIOUS
    <3>1. LeftAlone(i) = {"x"}
      <4>1. ScalarDst(i)
        BY DEF ScalarDst, Scalars, IsScalar
      <4>2. CASE RestFrom(i) = 1
        BY <4>1, <4>2 DEF LeftAlone
      <4>3. CASE RestFrom(i) = 2
        BY <4>1, <4>3 DEF LeftAlone
      <4> QED BY <4>2, <4>3 DEF RestFrom
    <3>2. Covers(Width(i), i.es) \ LeftAlone(i) \subseteq {"e"}
      BY <1>1, <2>1, <3>1, MathResults DEF Covers
    <3>3. "e" \in Covers(i.es, i.es)
      BY DEF Covers, Regular, Decoded
    <3>4. Whole1(i, i.es)
      BY <2>1, <3>2, <3>3 DEF Whole1
    <3> QED BY <2>6, <3>4, OwnResults
  <2> HIDE DEF save, copy, args, call, copied
  <2>9. OwnViews(i, AvxOpLoader(i, 3, "s") \o save \o copy \o call \o MERR_OK)
    BY <2>3, <2>4, <2>5, <2>7, <2>8, ReadsOfHelpers, ReadsCompose
  <2>10. OwnViews(i, QASSERT(VecRegs12(i), AvxOpLoader(i, 3, "s") \o save \o copy \o call \o MERR_OK))
    BY <2>9, OwnAsserted
  <2> QED BY <2>10 DEF handle_v_math_ss_sd, save, copy, args, call, copied, r
<1> QED BY <1>5, <1>6, <1>7, <1>8, <1>10, <1>11, <1>12

LEMMA ArithmeticViews ==
  ASSUME NEW i, Regular(i), i.it \in MathInsns
  PROVE  OwnViews(i, apply_math(i))
<1>1. /\ i.it \in {"vsubss", "vsubsd"} => IsScalar(i)
      /\ i.it \in {"vrcpsh", "vreducesh"} => IsScalar(i)
  BY DEF IsScalar, ScalarMath, ScalarBinary, ScalarBinaryImm
<1> QED BY <1>1, MathViews, ScalarViews, ReadsOfHelpers, Zenon DEF apply_math

(* The same of logic and shuffles.                                         *)
LEMMA LogicResults ==
  ASSUME NEW i, Regular(i), i.it \in RegularLogic
  PROVE  /\ IsVec(Op(i, 1)) /\ Width(i) = Op(i, 1).w /\ Whole1(i, Op(i, 1).w)
         /\ IsXmm(Op(i, 1)) => Op(i, 1).w = 16 /\ Whole1(i, 16) /\ OwnWidth(i, 16)
         /\ i.it \in ScalarLogic => IsXmm(Op(i, 1))
<1>1. IsVec(Op(i, 1))
  BY DEF Regular, Decoded
<1>2. i.it \notin ScalarMoves \union Transfers \union VmxInsns
  BY DEF RegularLogic, Hashes, MaskBlends, AddSub132, AddSub213, AddSub231,
         ScalarMoves, Transfers, VmxInsns
<1>3. i.it \notin ScalarToMask \union NarrowMaskInsns
  BY DEF RegularLogic, Hashes, MaskBlends, AddSub132, AddSub213, AddSub231,
         ScalarToMask, NarrowMaskInsns, Kmovs, UnaryMaskOps, BinaryMaskOps, MaskTests
<1>4. Width(i) = Op(i, 1).w
  BY <1>1, <1>2, <1>3, Zenon DEF Width
<1>5. Whole1(i, Op(i, 1).w)
  BY <1>1, <1>4, OwnWidths DEF Whole1
<1>6. i.it \in ScalarLogic => IsXmm(Op(i, 1))
  BY <1>1 DEF Scalars, Regular, Decoded, IsVec, IsMem
<1> QED BY <1>1, <1>4, <1>5, <1>6, OwnWidths DEF Whole1

LEMMA LogicParts ==
  ASSUME NEW i, Regular(i), i.it \in RegularLogic
  PROVE  /\ \A n : OwnView(i, Vec(i, n)) /\ OwnView(i, Src(i, n)) /\ OwnView(i, Imm(n))
         /\ \A args : Args(i, args) => OwnViews(i, Intrinsic(i, args))
         /\ \A imm : Args(i, imm) => OwnViews(i, Unary(i, imm)) /\ OwnViews(i, Binary(i, imm))
         /\ LET j == IgnoresMask(i)
            IN  /\ \A args : Args(i, args) => OwnViews(i, Intrinsic(j, args))
                /\ \A imm : Args(i, imm) => OwnViews(i, Unary(j, imm)) /\ OwnViews(i, Binary(j, imm))
         /\ IsXmm(Op(i, 1)) => \A imm : Args(i, imm) => OwnViews(i, ScalarBinaryOp(i, imm))
         /\ OwnViews(i, accumulate(i))
         /\ Args(i, <<>>) /\ \A n : Args(i, <<Imm(n)>>) /\ Args(i, <<Vec(i, n)>>)
         /\ \A n, m : Args(i, <<Src(i, n), Imm(m)>>) /\ Args(i, <<Src(i, n), Vec(i, m)>>)
         /\ Args(i, <<Vec(i, 2), Src(i, 3), Imm(4)>>)
         /\ \A a : OwnView(i, a) => Args(i, <<a>>)
         /\ OwnViews(i, MERR_INSN)
<1>1. Whole1(i, Op(i, 1).w) /\ (IsXmm(Op(i, 1)) => Op(i, 1).w = 16)
  BY LogicResults
<1>2. /\ \A n : OwnView(i, Vec(i, n)) /\ OwnView(i, Src(i, n)) /\ OwnView(i, Imm(n))
      /\ \A args : Args(i, args) => OwnViews(i, Intrinsic(i, args))
      /\ \A imm : Args(i, imm) => OwnViews(i, Unary(i, imm)) /\ OwnViews(i, Binary(i, imm))
      /\ IsXmm(Op(i, 1)) => \A imm : Args(i, imm) => OwnViews(i, ScalarBinaryOp(i, imm))
      /\ OwnViews(i, accumulate(i))
  BY <1>1, OwnIntrinsics
<1> QED BY <1>1, <1>2, OwnUnmasked, ReadsOfTuples, ReadsOfHelpers

(* Their handlers.                                                         *)
LEMMA LogicViews ==
  ASSUME NEW i, Regular(i), i.it \in RegularLogic
  PROVE  /\ OwnViews(i, handle_v_bitwise(i)) /\ OwnViews(i, handle_v_var_shift(i))
         /\ OwnViews(i, handle_v_var_rotate(i)) /\ OwnViews(i, handle_v_rotate(i))
         /\ OwnViews(i, handle_vpslldq_vpsrldq(i)) /\ OwnViews(i, handle_v_shift_double(i))
         /\ OwnViews(i, handle_v_multishift(i)) /\ OwnViews(i, handle_v_ternary_logic(i))
         /\ OwnViews(i, handle_v_conflict(i)) /\ OwnViews(i, handle_v_popcnt(i))
         /\ OwnViews(i, handle_v_lzcnt(i)) /\ OwnViews(i, handle_v_gfni(i))
         /\ OwnViews(i, handle_v_pclmul(i)) /\ OwnViews(i, handle_v_aes(i))
         /\ OwnViews(i, handle_v_sha(i))
         /\ OwnViews(i, handle_vpcmp_int(i)) /\ OwnViews(i, handle_vblendv_ps_pd(i))
         /\ OwnViews(i, handle_vblend_imm_ps_pd(i)) /\ OwnViews(i, handle_vblend_int(i))
         /\ OwnViews(i, handle_v_blendm(i)) /\ OwnViews(i, handle_vfmaddsub(i))
         /\ OwnViews(i, handle_vcmp_ps_pd(i)) /\ OwnViews(i, handle_v_er(i))
         /\ OwnViews(i, handle_vphsub_sw(i)) /\ OwnViews(i, handle_vpack(i))
         /\ OwnViews(i, handle_vphminposuw(i))
<1> DEFINE w == Op(i, 1).w
           j == IgnoresMask(i)
<1>1. /\ Whole1(i, w) /\ OwnWidth(i, w)
      /\ IsXmm(Op(i, 1)) => w = 16 /\ Whole1(i, 16) /\ OwnWidth(i, 16)
  BY LogicResults DEF Whole1
<1>2. /\ OwnViews(i, handle_v_bitwise(i)) /\ OwnViews(i, handle_v_var_shift(i))
      /\ OwnViews(i, handle_v_var_rotate(i)) /\ OwnViews(i, handle_v_conflict(i))
      /\ OwnViews(i, handle_v_popcnt(i)) /\ OwnViews(i, handle_v_lzcnt(i))
      /\ OwnViews(i, handle_vpcmp_int(i)) /\ OwnViews(i, handle_vblend_imm_ps_pd(i))
  BY LogicParts, OwnAsserted
     DEF handle_v_bitwise, handle_v_var_shift, handle_v_var_rotate, handle_v_conflict,
         handle_v_popcnt, handle_v_lzcnt, handle_vpcmp_int, handle_vblend_imm_ps_pd
<1>3. /\ OwnViews(i, handle_v_aes(i)) /\ OwnViews(i, handle_vphsub_sw(i))
      /\ OwnViews(i, handle_vpack(i)) /\ OwnViews(i, handle_vphminposuw(i))
  BY LogicParts DEF handle_v_aes, handle_vphsub_sw, handle_vpack, handle_vphminposuw
<1>4. OwnViews(i, handle_v_rotate(i))
  <2>1. OwnViews(i, QASSERT(IsImm(i, 3), Intrinsic(i, <<Src(i, 2), Imm(3)>>)))
    BY LogicParts, OwnAsserted
  <2> QED BY <2>1, ReadsOfHelpers, ReadsCompose DEF handle_v_rotate
<1>5. OwnViews(i, handle_vpslldq_vpsrldq(i))
  <2>1. \A n : Op(j, n) = Op(i, n)
    BY OwnUnmasked
  <2>2. Src(j, 2) = Src(i, 2) /\ AvxOpLoader(j, 2, "s") = AvxOpLoader(i, 2, "s")
        /\ (IsImm(j, 3) <=> IsImm(i, 3))
    BY <2>1 DEF Src, Loaded, AvxOpLoader, IsImm, load_operand_udt, emit_zmm_load
  <2>3. OwnViews(i, QASSERT(IsImm(i, 3), Intrinsic(j, <<Src(i, 2), Imm(3)>>)))
    BY LogicParts, OwnAsserted
  <2> HIDE DEF j
  <2>4. handle_v_rotate(j) =
          AvxOpLoader(i, 2, "s") \o QASSERT(IsImm(i, 3), Intrinsic(j, <<Src(i, 2), Imm(3)>>))
    BY <2>2 DEF handle_v_rotate, QASSERT
  <2>5. OwnViews(i, handle_v_rotate(j))
    BY <2>3, <2>4, ReadsOfHelpers, ReadsCompose
  <2> QED BY <2>5 DEF handle_vpslldq_vpsrldq, j
<1>6. OwnViews(i, handle_v_shift_double(i)) /\ OwnViews(i, handle_v_multishift(i))
      /\ OwnViews(i, handle_vblendv_ps_pd(i))
  BY LogicParts, ReadsOfHelpers, ReadsCompose
     DEF handle_v_shift_double, handle_v_multishift, handle_vblendv_ps_pd
<1>7. OwnViews(i, handle_v_ternary_logic(i))
  <2>1. ASSUME NEW a, NEW b, NEW c, NEW d, Args(i, <<a, b>>), Args(i, <<c, d>>)
        PROVE  Args(i, <<a, b, c, d>>)
    <3>1. <<a, b, c, d>> = <<a, b>> \o <<c, d>>
      OBVIOUS
    <3>2. Args(i, <<a, b>> \o <<c, d>>)
      BY <2>1, ReadsCompose
    <3> QED BY <3>1, <3>2
  <2>2. Args(i, <<Vec(i, 1), Vec(i, 2)>>) /\ Args(i, <<Src(i, 3), Imm(4)>>)
    BY LogicParts, ReadsOfTuples
  <2>4. Args(i, <<Vec(i, 1), Vec(i, 2), Src(i, 3), Imm(4)>>)
    BY <2>1, <2>2, Zenon
  <2>5. OwnViews(i, QASSERT(IsImm(i, 4), Intrinsic(i, <<Vec(i, 1), Vec(i, 2), Src(i, 3), Imm(4)>>)))
    BY <2>4, LogicParts, OwnAsserted
  <2> QED BY <2>5, ReadsOfHelpers, ReadsCompose DEF handle_v_ternary_logic
<1>8. OwnViews(i, AvxOpLoader(i, 3, "s")
                  \o QASSERT(IsImm(i, 4), Intrinsic(i, <<Vec(i, 2), Src(i, 3), Imm(4)>>)))
  <2>1. OwnViews(i, QASSERT(IsImm(i, 4), Intrinsic(i, <<Vec(i, 2), Src(i, 3), Imm(4)>>)))
    BY LogicParts, OwnAsserted
  <2> QED BY <2>1, ReadsOfHelpers, ReadsCompose
<1>9. OwnViews(i, handle_v_gfni(i)) /\ OwnViews(i, handle_vblend_int(i))
  BY <1>8, LogicParts DEF handle_v_gfni, handle_vblend_int
<1>10. OwnViews(i, handle_v_pclmul(i))
  <2> DEFINE b == IF IsMem(Op(i, 3)) THEN Deref("addr", w) ELSE Reg(3, w)
             l == IF IsMem(Op(i, 3)) THEN make_vector_load_mop(i, 3) ELSE <<>>
  <2>1. Args(i, <<Reg(2, w), b, Imm(4)>>)
    BY <1>1, OwnOperands, ReadsOfSteps, ReadsOfTuples
  <2>2. Reads(i, l)
    BY ReadsOfHelpers, ReadsOfTuples
  <2> HIDE DEF b, l
  <2>3. OwnViews(i, <<Call(Reg(1, w), <<Reg(2, w), b, Imm(4)>>)>>)
    BY <1>1, <2>1, OwnResults
  <2>4. OwnViews(i, l \o <<Call(Reg(1, w), <<Reg(2, w), b, Imm(4)>>)>> \o MERR_OK)
    BY <2>2, <2>3, ReadsOfHelpers, ReadsCompose
  <2> QED BY <2>4, OwnAsserted DEF handle_v_pclmul, b, l
<1>11. OwnViews(i, handle_v_sha(i))
  <2> DEFINE third == CASE i.it = "sha256rnds2" -> <<Loaded(i, 3, "s", 16)>>
                        [] i.it = "sha1rnds4" -> <<Imm(3)>>
                        [] OTHER -> <<>>
             call == <<Call(Reg(1, 16), <<Reg(1, 16), Loaded(i, 2, "s", 16)>> \o third)>>
  <2>1. IsXmm(Op(i, 1)) =>
          /\ Args(i, <<Loaded(i, 3, "s", 16)>>) /\ Args(i, <<Imm(3)>>) /\ Args(i, <<>>)
          /\ Args(i, <<Reg(1, 16), Loaded(i, 2, "s", 16)>>)
    BY <1>1, OwnOperands, ReadsOfSteps, ReadsOfTuples
  <2>2. IsXmm(Op(i, 1)) => Args(i, third)
    BY <2>1, Zenon
  <2> HIDE DEF third
  <2>3. IsXmm(Op(i, 1)) => OwnViews(i, call)
    BY <1>1, <2>1, <2>2, ReadsCompose, OwnResults
  <2> HIDE DEF call
  <2>4. IsXmm(Op(i, 1)) => OwnViews(i, QASSERT(i.it = "sha1rnds4" => IsImm(i, 3), call \o MERR_OK))
    BY <2>3, ReadsOfHelpers, ReadsCompose, OwnAsserted
  <2>5. IsXmm(Op(i, 1)) =>
          OwnViews(i, AvxOpLoader(i, 2, "s")
                      \o QASSERT(i.it = "sha1rnds4" => IsImm(i, 3), call \o MERR_OK))
    BY <2>4, ReadsOfHelpers, ReadsCompose
  <2>6. OwnViews(i, INTERR)
    BY ReadsOfHelpers
  <2> DEFINE p == AvxOpLoader(i, 2, "s")
                  \o QASSERT(i.it = "sha1rnds4" => IsImm(i, 3), call \o MERR_OK)
  <2>7. handle_v_sha(i) = QASSERT(IsXmm(Op(i, 1)), p)
    BY DEF handle_v_sha, call, third
  <2> HIDE DEF p
  <2>8. OwnViews(i, QASSERT(IsXmm(Op(i, 1)), p))
    BY <2>5, <2>6 DEF QASSERT, p
  <2> QED BY <2>7, <2>8
<1>12. OwnViews(i, handle_v_blendm(i))
  <2> DEFINE args == <<add_argument_mask(NumElements(i)), Vec(i, 2), Src(i, 3)>>
  <2>1. Args(i, args)
    BY LogicParts, ReadsOfSteps, ReadsOfTuples
  <2> HIDE DEF args
  <2>2. OwnViews(i, AvxOpLoader(i, 3, "s") \o CallIntoVec(i, w, args) \o MERR_OK)
    BY <1>1, <2>1, OwnResults, ReadsOfHelpers, ReadsCompose
  <2> QED BY <2>2, LogicParts DEF handle_v_blendm, args
<1>13. OwnViews(i, handle_vfmaddsub(i))
  <2> DEFINE ord == [k \in 1..3 |-> IF addsub_order(i)[k] = 3 THEN Src(i, 3) ELSE Vec(i, addsub_order(i)[k])]
  <2>1. ord \in Seq({ord[1], ord[2], ord[3]}) /\ Len(ord) = 3
    OBVIOUS
  <2>2. Listed(ord)
    BY <2>1, Zenon DEF Listed
  <2>3. \A k \in 1..3 : OwnView(i, ord[k])
    BY LogicParts
  <2>4. Args(i, ord)
    BY <2>1, <2>2, <2>3 DEF Args
  <2> HIDE DEF ord
  <2>5. OwnViews(i, AvxOpLoader(i, 3, "s") \o Intrinsic(i, ord))
    BY <2>4, LogicParts, ReadsOfHelpers, ReadsCompose
  <2> QED BY <2>5 DEF handle_vfmaddsub, ord
<1>14. OwnViews(i, handle_vcmp_ps_pd(i))
  <2>1. i.it = "vcmpeqss" => IsXmm(Op(i, 1))
    BY LogicResults DEF ScalarLogic
  <2> QED BY <2>1, LogicParts, ReadsOfHelpers, ReadsCompose DEF handle_vcmp_ps_pd
<1>15. OwnViews(i, handle_v_er(i))
  <2> DEFINE scalar == i.it \in ScalarLogic
             n    == IF scalar THEN 3 ELSE 2
             a    == (IF scalar THEN <<Vec(i, 2)>> ELSE <<>>) \o <<VecSource(i, n, w)>>
             args == MaskedArgs(i, w, a)
             call == IF scalar THEN <<ScalarCall(Reg(1, w), args)>> ELSE CallIntoVec(i, w, args)
  <2> HIDE DEF n
  <2>1. Args(i, a)
    BY <1>1, LogicParts, OwnOperands, ReadsOfTuples, ReadsCompose
  <2> HIDE DEF a
  <2>2. Args(i, args)
    BY <1>1, <2>1, OwnOperands
  <2> HIDE DEF args
  <2>3. OwnViews(i, call)
    BY <1>1, <2>2, OwnResults
  <2> HIDE DEF call
  <2>4. OwnViews(i, add_vec_source(i, n, w) \o call \o MERR_OK)
    BY <2>3, ReadsOfHelpers, ReadsCompose
  <2> QED BY <2>4 DEF handle_v_er, call, args, a, n
<1> QED BY <1>2, <1>3, <1>4, <1>5, <1>6, <1>7, <1>9, <1>10, <1>11, <1>12, <1>13, <1>14, <1>15

LEMMA ShuffleViews ==
  ASSUME NEW i, Regular(i), i.it \in RegularLogic
  PROVE  /\ OwnViews(i, handle_vshufps(i)) /\ OwnViews(i, handle_vshufpd(i))
         /\ OwnViews(i, handle_v_shuffle_int(i)) /\ OwnViews(i, handle_v_shuf_lane(i))
         /\ OwnViews(i, handle_vpermpd(i)) /\ OwnViews(i, handle_v_perm_int(i))
         /\ OwnViews(i, handle_v_permutex(i)) /\ OwnViews(i, handle_v_permutex2(i))
         /\ OwnViews(i, handle_v_align(i)) /\ OwnViews(i, handle_vperm2f128_i128(i))
         /\ OwnViews(i, handle_vmovlhps(i)) /\ OwnViews(i, handle_vmovhlps(i))
         /\ OwnViews(i, handle_vmovshdup(i)) /\ OwnViews(i, handle_vmovsldup(i))
         /\ OwnViews(i, handle_vmovddup(i)) /\ OwnViews(i, handle_vunpck(i))
         /\ OwnViews(i, handle_vpunpck(i))
<1> DEFINE w == Op(i, 1).w
           j == IgnoresMask(i)
<1>1. /\ Whole1(i, w) /\ OwnWidth(i, w)
      /\ IsXmm(Op(i, 1)) => w = 16 /\ Whole1(i, 16) /\ OwnWidth(i, 16)
  BY LogicResults DEF Whole1
<1>2. OwnViews(i, handle_vshufps(i)) /\ OwnViews(i, handle_vshufpd(i))
      /\ OwnViews(i, handle_v_permutex(i))
  BY LogicParts, OwnAsserted DEF handle_vshufps, handle_vshufpd, handle_v_permutex
<1>3. /\ OwnViews(i, handle_vmovshdup(i)) /\ OwnViews(i, handle_vmovsldup(i))
      /\ OwnViews(i, handle_vunpck(i)) /\ OwnViews(i, handle_vpunpck(i))
  BY LogicParts DEF handle_vmovshdup, handle_vmovsldup, handle_vunpck, handle_vpunpck
<1>4. OwnViews(i, handle_v_shuffle_int(i))
  <2>1. OwnViews(i, QASSERT(IsImm(i, 3), Intrinsic(i, <<Src(i, 2), Imm(3)>>)))
        /\ OwnViews(i, Binary(i, <<>>))
    BY LogicParts, OwnAsserted
  <2> QED BY <2>1, ReadsOfHelpers, ReadsCompose DEF handle_v_shuffle_int
<1>5. ASSUME NEW n, NEW args, Args(i, args)
      PROVE  OwnViews(i, AvxOpLoader(i, n, "s") \o CallIntoVec(i, w, MaskedArgs(i, w, args)) \o MERR_OK)
  <2> DEFINE a == MaskedArgs(i, w, args)
  <2>1. Args(i, a)
    BY <1>1, <1>5, OwnOperands
  <2> HIDE DEF a
  <2>2. OwnViews(i, CallIntoVec(i, w, a))
    BY <1>1, <2>1, OwnResults
  <2> QED BY <2>2, ReadsOfHelpers, ReadsCompose DEF a
<1>6. Args(i, <<Vec(i, 2), Src(i, 3)>>)
  BY LogicParts, ReadsOfTuples
<1>7. OwnViews(i, handle_v_shuf_lane(i))
  <2>1. OwnViews(i, AvxOpLoader(i, 3, "s")
                    \o CallIntoVec(i, w, MaskedArgs(i, w, <<Vec(i, 2), Src(i, 3), Imm(4)>>)) \o MERR_OK)
    BY <1>5, LogicParts
  <2> QED BY <2>1, LogicParts, OwnAsserted DEF handle_v_shuf_lane
<1>8. OwnViews(i, handle_vpermpd(i))
  <2> DEFINE n == IF IsImm(i, 3) THEN 2 ELSE 3
             args == IF IsImm(i, 3) THEN <<Src(i, 2), Imm(3)>> ELSE <<Vec(i, 2), Src(i, 3)>>
  <2>1. Args(i, args)
    BY <1>6, LogicParts
  <2> HIDE DEF args, n
  <2>2. OwnViews(i, AvxOpLoader(i, n, "s") \o CallIntoVec(i, w, MaskedArgs(i, w, args)) \o MERR_OK)
    BY <1>5, <2>1
  <2> QED BY <2>2, LogicParts DEF handle_vpermpd, args, n
<1>9. OwnViews(i, handle_v_perm_int(i))
  <2> DEFINE swapped == Intrinsic(i, <<Src(i, 3), Vec(i, 2)>>)
             chosen  == Intrinsic(i, <<Src(i, 2), Imm(3)>>)
             both    == AvxOpLoader(i, 3, "s") \o swapped
  <2>1. OwnViews(i, swapped) /\ OwnViews(i, chosen)
    BY LogicParts
  <2> HIDE DEF swapped, chosen
  <2>2. OwnViews(i, both)
    BY <2>1, ReadsOfHelpers, ReadsCompose
  <2> HIDE DEF both
  <2>3. OwnViews(i, AvxOpLoader(i, 2, "s") \o (IF ~YmmOrZmm(i) THEN MERR_INSN
                      ELSE IF IsImm(i, 3) THEN chosen ELSE both))
    BY <2>1, <2>2, LogicParts, ReadsOfHelpers, ReadsCompose
  <2>4. OwnViews(i, AvxOpLoader(i, 3, "s") \o (IF YmmOrZmm(i) THEN swapped ELSE MERR_INSN))
    BY <2>1, LogicParts, ReadsOfHelpers, ReadsCompose
  <2>5. OwnViews(i, IF Op(i, 1).k # "ymm" \/ Masked(i) \/ Op(i, 2).k # "ymm" THEN MERR_INSN ELSE both)
    BY <2>2, LogicParts
  <2>6. OwnViews(i, AvxOpLoader(i, 2, "s") \o (IF IsImm(i, 3) THEN chosen ELSE Binary(i, <<>>)))
    BY <2>1, LogicParts, ReadsOfHelpers, ReadsCompose
  <2> QED BY <2>3, <2>4, <2>5, <2>6, Zenon DEF handle_v_perm_int, both, swapped, chosen
<1>10. OwnViews(i, handle_v_permutex2(i))
  <2> DEFINE mask  == <<add_argument_mask(NumElements(i))>>
             table == <<Reg(IF i.it = "vpermi2w" THEN 2 ELSE 1, w)>>
             rest  == <<Reg(IF i.it = "vpermi2w" THEN 1 ELSE 2, w), Src(i, 3)>>
             args  == CASE i.mask = "zero"  -> mask \o table \o rest
                        [] i.mask = "merge" -> table \o mask \o rest
                        [] OTHER            -> table \o rest
  <2>1. Args(i, mask) /\ Args(i, table) /\ Args(i, rest)
    BY <1>1, LogicParts, OwnOperands, ReadsOfSteps, ReadsOfTuples
  <2> HIDE DEF mask, table, rest
  <2>2. /\ Args(i, mask \o table \o rest) /\ Args(i, table \o mask \o rest)
        /\ Args(i, table \o rest)
    BY <2>1, ReadsCompose
  <2>3. Args(i, args)
    BY <2>2, Zenon
  <2> HIDE DEF args
  <2>4. OwnViews(i, AvxOpLoader(i, 3, "s") \o <<Call(Reg(1, w), args)>> \o MERR_OK)
    BY <1>1, <2>3, OwnResults, ReadsOfHelpers, ReadsCompose
  <2> QED BY <2>4 DEF handle_v_permutex2, args, mask, table, rest
<1>11. OwnViews(i, handle_v_align(i))
  <2>1. OwnViews(i, QASSERT(IsImm(i, 4), Intrinsic(i, <<Vec(i, 2), Src(i, 3), Imm(4)>>)))
    BY LogicParts, OwnAsserted
  <2> QED BY <2>1, ReadsOfHelpers, ReadsCompose DEF handle_v_align
<1>12. OwnViews(i, handle_vperm2f128_i128(i))
  <2>1. \A n : Op(j, n) = Op(i, n)
    BY OwnUnmasked
  <2>2. Src(j, 3) = Src(i, 3) /\ Vec(j, 2) = Vec(i, 2)
        /\ AvxOpLoader(j, 3, "s") = AvxOpLoader(i, 3, "s") /\ (IsImm(j, 4) <=> IsImm(i, 4))
    BY <2>1 DEF Src, Vec, Loaded, AvxOpLoader, IsImm, load_operand_udt, emit_zmm_load
  <2>3. OwnViews(i, QASSERT(IsImm(i, 4), Intrinsic(j, <<Vec(i, 2), Src(i, 3), Imm(4)>>)))
    BY LogicParts, OwnAsserted
  <2> HIDE DEF j
  <2>4. handle_v_align(j) = AvxOpLoader(i, 3, "s")
          \o QASSERT(IsImm(i, 4), Intrinsic(j, <<Vec(i, 2), Src(i, 3), Imm(4)>>))
    BY <2>2 DEF handle_v_align, QASSERT
  <2>5. OwnViews(i, handle_v_align(j))
    BY <2>3, <2>4, ReadsOfHelpers, ReadsCompose
  <2> QED BY <2>5, OwnAsserted DEF handle_vperm2f128_i128, j
<1>13. OwnViews(i, handle_vmovlhps(i)) /\ OwnViews(i, handle_vmovhlps(i))
  <2>1. Xmms12(i) => Args(i, <<Reg(2, 16), Reg(3, 16)>>)
    BY <1>1, OwnOperands, ReadsOfTuples DEF Xmms12
  <2>2. Xmms12(i) => OwnViews(i, Intrinsic(j, <<Reg(2, 16), Reg(3, 16)>>))
    BY <2>1, LogicParts
  <2> QED BY <2>2, LogicParts DEF handle_vmovlhps, handle_vmovhlps, j
<1>14. OwnViews(i, handle_vmovddup(i))
  <2>1. IsXmm(Op(i, 1)) => OwnViews(i, broadcast_low(i))
    <3>1. IsXmm(Op(i, 1)) => Args(i, <<Loaded(i, 2, "t", 16)>>)
      BY <1>1, OwnOperands, ReadsOfTuples
    <3>2. IsXmm(Op(i, 1)) => OwnViews(i, <<Call(Vec(i, 1), <<Loaded(i, 2, "t", 16)>>)>>)
      BY <1>1, <3>1, OwnResults DEF Vec
    <3> QED BY <3>2, ReadsOfHelpers, ReadsCompose DEF broadcast_low
  <2> QED BY <2>1, LogicParts DEF handle_vmovddup, j
<1> QED BY <1>2, <1>3, <1>4, <1>7, <1>8, <1>9, <1>10, <1>11, <1>12, <1>13, <1>14

LEMMA LogicAndShuffleViews ==
  ASSUME NEW i, Regular(i), i.it \in RegularLogic
  PROVE  OwnViews(i, apply_shuffle(i))
<1>1. /\ i.it \notin CacheControl /\ i.it # "vpsllw" /\ i.it \notin {"v4fmaddps", "v4fmaddss"}
      /\ i.it # "vcomish" /\ i.it # "vmaskmovps" /\ i.it # "vpmaskmovd" /\ i.it # "vzeroupper"
      /\ i.it # "vzeroall" /\ i.it # "vtestps" /\ i.it \notin {"vmovmskps", "vpmovmskb"}
      /\ i.it \notin NonTemporal /\ i.it # "vptest"
  BY DEF RegularLogic, Hashes, MaskBlends, AddSub132, AddSub213, AddSub231,
         CacheControl, NonTemporal
<1>2. /\ i.it # "vbroadcastf32x2" /\ i.it \notin {"vbroadcastss", "vbroadcastsd"}
      /\ i.it # "vbroadcastf128" /\ i.it # "vbroadcasti128"
      /\ i.it \notin {"vbroadcastf32x4", "vbroadcasti64x4"} /\ i.it \notin HalfMoves
      /\ i.it \notin {"vextractf128", "vextracti64x4"} /\ i.it \notin {"vinsertf128", "vinserti64x4"}
      /\ i.it # "vpbroadcastd" /\ i.it # "vpbroadcastw" /\ i.it \notin {"vpinsrb", "vpinsrd"}
      /\ i.it # "vpmovsxbw" /\ i.it # "vpmovzxwd" /\ i.it # "vpmovwb"
      /\ i.it \notin {"vpmovdb", "vpmovqd"} /\ i.it # "vextractps" /\ i.it # "vinsertps"
  BY DEF RegularLogic, Hashes, MaskBlends, AddSub132, AddSub213, AddSub231, HalfMoves
<1>3. OwnViews(i, apply_logic(i))
  BY <1>1, LogicViews, ReadsOfHelpers, Zenon DEF apply_logic
<1> QED BY <1>2, <1>3, ShuffleViews, Zenon DEF apply_shuffle

(* Moves.                                                                  *)
LEMMA ReadsOfStores ==
  ASSUME NEW i, NEW n, NEW src, OwnView(i, src)
  PROVE  Reads(i, store_operand_hack(i, n, src))
<1>1. /\ \A v, w : Args(i, AllocUnchecked(v, w).src)
      /\ Args(i, StoreOp(n, src).src)
  BY ReadsOfSteps, ReadsOfTuples DEF AllocUnchecked, Alloc, StoreOp, Step
<1>2. Args(i, <<Tmp("addr", PtrSize(i)), src>>)
  BY ReadsOfSteps, ReadsOfTuples
<1>3. Reads(i, emit_vector_store(i, n, src))
  <2> DEFINE a == IF Op(i, n).glob
                  THEN <<AllocUnchecked("addr", PtrSize(i)), AddressImm(n, Tmp("addr", PtrSize(i)))>>
                  ELSE <<Address(n, "addr")>>
             b == <<Call(Effect, <<Tmp("addr", PtrSize(i)), src>>)>>
  <2>1. Reads(i, a)
    BY <1>1, ReadsOfSteps, ReadsOfTuples
  <2>2. Reads(i, b)
    BY <1>2, ReadsOfSteps, ReadsOfTuples
  <2> HIDE DEF a, b
  <2>3. Reads(i, a \o b)
    BY <2>1, <2>2, ReadsCompose
  <2> QED BY <2>3 DEF emit_vector_store, a, b
<1> QED BY <1>1, <1>3, ReadsOfTuples DEF store_operand_hack

(* A plan that only reads is enough where operand 1 is not a vector.       *)
LEMMA ReadsSuffice ==
  ASSUME NEW i, ~IsVec(Op(i, 1)), NEW p, Reads(i, p)
  PROVE  OwnViews(i, p)
BY DEF OwnViews

LEMMA ScalarMoveViews ==
  ASSUME NEW i, Regular(i), i.it \in ScalarMoves
  PROVE  OwnViews(i, handle_vmov_ss_sd(i)) /\ OwnViews(i, handle_vmov_sh(i))
<1>1. /\ IsXmm(Op(i, 1)) => IsVec(Op(i, 1)) /\ OwnWidth(i, 16) /\ OwnWidth(i, i.es) /\ OwnWidth(i, 2)
      /\ IsXmm(Op(i, 2)) => OwnWidth(i, 16) /\ OwnWidth(i, i.es) /\ OwnWidth(i, 2)
      /\ IsMem(Op(i, 1)) => ~IsVec(Op(i, 1))
  BY OwnWidths DEF IsVec, IsXmm, IsMem, OwnWidth
<1>2. /\ IsXmm(Op(i, 1)) /\ Op(i, 3).k # "void" => Whole1(i, 16)
      /\ IsXmm(Op(i, 1)) /\ Op(i, 3).k = "void" => Whole1(i, i.es)
  <2>1. Op(i, 3).k # "void" => Width(i) = 16
    BY DEF Regular, Decoded, Width
  <2>2. Op(i, 3).k = "void" => Width(i) = i.es
    BY DEF Regular, Decoded, Width
  <2> QED BY <1>1, <2>1, <2>2 DEF Whole1
<1>3. OwnViews(i, INTERR) /\ OwnViews(i, MERR_INSN)
  BY ReadsOfHelpers
<1>4. OwnViews(i, masked_scalar_move(i))
  <2> DEFINE args == MergeArg(i, 16)
                       \o <<add_argument_mask(NumElements(i)), Reg(2, 16), Loaded(i, 3, "t", 16)>>
             call == <<ScalarCall(Reg(1, 16), args)>>
  <2>1. IsXmm(Op(i, 1)) => Args(i, args)
    BY <1>1, OwnOperands, ReadsOfSteps, ReadsOfTuples, ReadsCompose
  <2> HIDE DEF args
  <2>2. IsXmm(Op(i, 1)) /\ Op(i, 3).k # "void" => OwnViews(i, call)
    BY <1>2, <2>1, OwnResults
  <2> HIDE DEF call
  <2>3. IsXmm(Op(i, 1)) /\ Op(i, 3).k # "void" =>
          OwnViews(i, ScalarSource(i, 3, i.es) \o call \o FreeIfMem(i, 3, "t") \o MERR_OK)
    BY <2>2, ReadsOfHelpers, ReadsCompose
  <2> QED BY <1>3, <2>3 DEF masked_scalar_move, call, args
<1>5. ASSUME NEW w, w \in {i.es, 2}, IsMem(Op(i, 1)), IsXmm(Op(i, 2))
      PROVE  OwnViews(i, store_operand_hack(i, 1, Reg(2, w)) \o MERR_OK)
  <2>1. OwnView(i, Reg(2, w))
    BY <1>1, <1>5, OwnOperands
  <2> QED BY <1>1, <1>5, <2>1, ReadsOfStores, ReadsOfHelpers, ReadsCompose, ReadsSuffice
<1>6. OwnViews(i, handle_vmov_ss_sd(i))
  <2>1. IsXmm(Op(i, 1)) /\ Op(i, 3).k = "void" =>
          OwnViews(i, AvxOpLoader(i, 2, "s") \o <<Mov(Reg(1, i.es), Tmp("s", i.es))>> \o MERR_OK)
    <3>1. OwnView(i, Tmp("s", i.es))
      BY ReadsOfSteps
    <3>2. IsXmm(Op(i, 1)) /\ Op(i, 3).k = "void" => OwnViews(i, <<Mov(Reg(1, i.es), Tmp("s", i.es))>>)
      BY <1>2, <3>1, OwnResults
    <3> QED BY <3>2, ReadsOfHelpers, ReadsCompose
  <2> DEFINE a == Alloc("t", 16)
             b == Mov(Tmp("t", 16), Reg(2, 16))
             c == Mov(Tmp("t", i.es), Reg(3, i.es))
             d == Mov(Reg(1, 16), Tmp("t", 16))
             e == Free("t")
  <2>2. /\ Args(i, a.src) /\ Args(i, d.src) /\ Args(i, e.src)
        /\ IsXmm(Op(i, 1)) => Args(i, b.src) /\ Args(i, c.src)
    BY <1>1, OwnOperands, ReadsOfSteps
  <2>3. IsXmm(Op(i, 1)) /\ Op(i, 3).k # "void" => Defines(i, d)
    BY <1>2 DEF Defines, Mov, Emit, Step, Reg, Whole1, OwnWidth
  <2> HIDE DEF a, b, c, d, e
  <2>4. IsXmm(Op(i, 1)) /\ Op(i, 3).k # "void" => OwnViews(i, <<a, b, c, d, e>> \o MERR_OK)
    <3>1. IsXmm(Op(i, 1)) /\ Op(i, 3).k # "void" => OwnViews(i, <<a, b, c, d, e>>)
      BY <2>2, <2>3, ReadsOfTuples
    <3> QED BY <3>1, ReadsOfHelpers, ReadsCompose
  <2> DEFINE p == <<a, b, c, d, e>> \o MERR_OK
             q == AvxOpLoader(i, 2, "s") \o <<Mov(Reg(1, i.es), Tmp("s", i.es))>> \o MERR_OK
             r == store_operand_hack(i, 1, Reg(2, i.es)) \o MERR_OK
  <2>5. handle_vmov_ss_sd(i) =
          IF Masked(i) THEN masked_scalar_move(i)
          ELSE IF Op(i, 3).k = "void"
          THEN IF IsXmm(Op(i, 1)) THEN QASSERT(IsMem(Op(i, 2)), q)
               ELSE QASSERT(IsMem(Op(i, 1)) /\ IsXmm(Op(i, 2)), r)
          ELSE QASSERT(\A n \in 1..3 : IsXmm(Op(i, n)), p)
    BY DEF handle_vmov_ss_sd, a, b, c, d, e
  <2>6. /\ IsMem(Op(i, 1)) /\ IsXmm(Op(i, 2)) => OwnViews(i, r)
        /\ IsXmm(Op(i, 1)) /\ Op(i, 3).k = "void" => OwnViews(i, q)
        /\ IsXmm(Op(i, 1)) /\ Op(i, 3).k # "void" => OwnViews(i, p)
    BY <1>5, <2>1, <2>4
  <2>7. (\A n \in 1..3 : IsXmm(Op(i, n))) => IsXmm(Op(i, 1))
    OBVIOUS
  <2> HIDE DEF p, q, r
  <2> QED BY <1>3, <1>4, <2>5, <2>6, <2>7 DEF QASSERT
<1>7. OwnViews(i, handle_vmov_sh(i))
  <2> DEFINE call == <<ScalarCall(Reg(1, 16), <<Reg(2, 16), Loaded(i, 3, "t", 16)>>)>>
             p == ScalarSource(i, 3, 2) \o call \o FreeIfMem(i, 3, "t") \o MERR_OK
             r == store_operand_hack(i, 1, Reg(2, 2)) \o MERR_OK
  <2>1. IsXmm(Op(i, 1)) => Args(i, <<Reg(2, 16), Loaded(i, 3, "t", 16)>>)
    BY <1>1, OwnOperands, ReadsOfTuples
  <2>2. IsXmm(Op(i, 1)) /\ Op(i, 3).k # "void" => OwnViews(i, call)
    BY <1>2, <2>1, OwnResults
  <2> HIDE DEF call
  <2>3. IsXmm(Op(i, 1)) /\ Op(i, 3).k # "void" => OwnViews(i, p)
    BY <2>2, ReadsOfHelpers, ReadsCompose
  <2>4. IsMem(Op(i, 1)) /\ IsXmm(Op(i, 2)) => OwnViews(i, r)
    BY <1>5
  <2>5. handle_vmov_sh(i) =
          IF Op(i, 3).k = "void" THEN MERR_INSN
          ELSE IF IsMem(Op(i, 1)) THEN IF Masked(i) \/ ~IsXmm(Op(i, 2)) THEN MERR_INSN ELSE r
          ELSE IF Masked(i) THEN masked_scalar_move(i)
          ELSE QASSERT(IsXmm(Op(i, 1)) /\ IsXmm(Op(i, 2)), p)
    BY DEF handle_vmov_sh, call
  <2> HIDE DEF p, r
  <2> QED BY <1>3, <1>4, <2>3, <2>4, <2>5 DEF QASSERT
<1> QED BY <1>6, <1>7

LEMMA TransferViews ==
  ASSUME NEW i, Regular(i), i.it \in Transfers
  PROVE  OwnViews(i, handle_vmov(i)) /\ OwnViews(i, handle_vmovw(i))
<1>1. /\ IsXmm(Op(i, 1)) \/ IsXmm(Op(i, 2)) =>
           /\ OwnWidth(i, 16) /\ OwnWidth(i, 32) /\ OwnWidth(i, i.es) /\ OwnWidth(i, 2)
      /\ ~IsXmm(Op(i, 1)) => ~IsVec(Op(i, 1))
  BY OwnWidths DEF Regular, Decoded, OwnWidth
<1>2. IsXmm(Op(i, 1)) => Whole1(i, 16) /\ Whole1(i, 32)
  <2>1. i.es \in 1..8
    BY DEF Regular, Decoded
  <2>2. i.it \notin ScalarMoves
    BY DEF Transfers, ScalarMoves
  <2>3. Width(i) = i.es
    BY <2>2 DEF Width
  <2>4. Covers(i.es, i.es) = {"e"} /\ "e" \in Covers(16, i.es) /\ "e" \in Covers(32, i.es)
    BY <2>1 DEF Covers
  <2> QED BY <1>1, <2>3, <2>4 DEF Whole1
<1>3. OwnViews(i, INTERR) /\ OwnViews(i, MERR_INSN)
  BY ReadsOfHelpers
<1>4. OwnViews(i, handle_vmov(i))
  <2> DEFINE a == Alloc("t", i.es)
             b == Mov(Tmp("t", i.es), Loaded(i, 2, "s", i.es))
             c == Xdu(Reg(1, IF i.b64 THEN 32 ELSE 16), Tmp("t", i.es))
             d == Free("t")
             p == AvxOpLoader(i, 2, "s") \o <<a, b, c, d>> \o MERR_OK
             store == IF IsMem(Op(i, 1)) THEN <<StoreUnchecked(1, Reg(2, i.es))>>
                      ELSE <<Mov(Reg(1, i.es), Reg(2, i.es))>>
  <2>1. Args(i, a.src) /\ Args(i, c.src) /\ Args(i, d.src)
    BY ReadsOfSteps
  <2>2. IsXmm(Op(i, 1)) => Args(i, b.src)
    BY <1>1, OwnOperands, ReadsOfSteps
  <2>3. IsXmm(Op(i, 1)) => Defines(i, c)
    BY <1>2 DEF Defines, Xdu, Emit, Step, Reg, Whole1, OwnWidth
  <2> HIDE DEF a, b, c, d
  <2>6. IsXmm(Op(i, 1)) => OwnViews(i, <<a, b, c, d>>)
    BY <2>1, <2>2, <2>3, ReadsOfTuples
  <2>7. IsXmm(Op(i, 1)) => OwnViews(i, p)
    BY <2>6, ReadsOfHelpers, ReadsCompose
  <2>8. IsXmm(Op(i, 2)) => Reads(i, store)
    <3>1. IsXmm(Op(i, 2)) => OwnView(i, Reg(2, i.es))
      BY <1>1, OwnOperands
    <3>2. IsXmm(Op(i, 2)) => Args(i, StoreUnchecked(1, Reg(2, i.es)).src)
      BY <3>1, ReadsOfTuples DEF StoreUnchecked, StoreOp, Step
    <3> QED BY <3>1, <3>2, ReadsOfSteps, ReadsOfTuples
  <2> HIDE DEF store
  <2>9. IsXmm(Op(i, 2)) /\ ~IsXmm(Op(i, 1)) => OwnViews(i, store \o MERR_OK)
    BY <1>1, <2>8, ReadsOfHelpers, ReadsCompose, ReadsSuffice
  <2>10. handle_vmov(i) = IF IsXmm(Op(i, 1)) THEN p ELSE QASSERT(IsXmm(Op(i, 2)), store \o MERR_OK)
    BY DEF handle_vmov, a, b, c, d, store
  <2> HIDE DEF p
  <2> QED BY <1>3, <2>7, <2>9, <2>10 DEF QASSERT
<1>5. OwnViews(i, handle_vmovw(i))
  <2> DEFINE args == (IF Masked(i) THEN MergeArg(i, 16) \o <<add_argument_mask(NumElements(i))>>
                      ELSE <<>>) \o <<Loaded(i, 2, "s", 2)>>
             p == AvxOpLoader(i, 2, "s") \o <<Call(Reg(1, 16), args)>> \o MERR_OK
             q == store_operand_hack(i, 1, Reg(2, 2)) \o MERR_OK
             r == <<Mov(Reg(1, 2), Reg(2, 2))>> \o MERR_OK
  <2>1. IsXmm(Op(i, 1)) => Args(i, args)
    BY <1>1, OwnOperands, ReadsOfSteps, ReadsOfTuples, ReadsCompose
  <2> HIDE DEF args
  <2>2. IsXmm(Op(i, 1)) => OwnViews(i, <<Call(Reg(1, 16), args)>>)
    BY <1>2, <2>1, OwnResults
  <2>3. IsXmm(Op(i, 1)) => OwnViews(i, p)
    BY <2>2, ReadsOfHelpers, ReadsCompose
  <2>4. IsXmm(Op(i, 2)) => OwnView(i, Reg(2, 2))
    BY <1>1, OwnOperands
  <2>5. IsXmm(Op(i, 2)) => Reads(i, q) /\ Reads(i, r)
    BY <2>4, ReadsOfStores, ReadsOfSteps, ReadsOfTuples, ReadsOfHelpers, ReadsCompose
  <2>6. handle_vmovw(i) = IF IsXmm(Op(i, 1)) THEN p ELSE IF ~IsXmm(Op(i, 2)) THEN MERR_INSN
                          ELSE IF IsMem(Op(i, 1)) THEN q ELSE r
    BY DEF handle_vmovw, args
  <2> HIDE DEF p, q, r
  <2> QED BY <1>1, <1>3, <2>3, <2>5, <2>6, ReadsSuffice
<1> QED BY <1>4, <1>5

(* Whole registers: the width is operand 1's, or that of what is stored.   *)
LEMMA WholeMoveViews ==
  ASSUME NEW i, Regular(i), i.it \in WholeMoveInsns \union PackInsns
  PROVE  OwnViews(i, handle_v_mov_ps_dq(i)) /\ OwnViews(i, handle_v_compress(i))
<1> DEFINE w == IF IsVec(Op(i, 1)) THEN Op(i, 1).w ELSE Op(i, 2).w
<1>1. IsVec(Op(i, 1)) \/ IsVec(Op(i, 2)) => OwnWidth(i, w)
  BY OwnWidths
<1>2. IsVec(Op(i, 1)) => w = Op(i, 1).w /\ Whole1(i, w)
  <2>1. i.it \notin ScalarMoves \union Transfers \union VmxInsns
    BY DEF WholeMoveInsns, PackInsns, ScalarMoves, Transfers, VmxInsns
  <2>2. i.it \notin ScalarToMask \union NarrowMaskInsns
    BY DEF WholeMoveInsns, PackInsns, ScalarToMask, NarrowMaskInsns, Kmovs, UnaryMaskOps,
           BinaryMaskOps, MaskTests
  <2>3. IsVec(Op(i, 1)) => Width(i) = Op(i, 1).w
    BY <2>1, <2>2, Zenon DEF Width
  <2> QED BY <1>1, <2>3 DEF Whole1
<1>3. OwnViews(i, INTERR) /\ OwnViews(i, MERR_INSN) /\ (IsMem(Op(i, 1)) => ~IsVec(Op(i, 1)))
  BY ReadsOfHelpers DEF IsMem, IsVec
<1> HIDE DEF w
<1>4. \A m, a : IsVec(Op(i, 1)) /\ OwnView(i, a) =>
        OwnViews(i, <<Call(Reg(1, w), MergeArg(i, w) \o <<add_argument_mask(m), a>>)>> \o MERR_OK)
  <2> SUFFICES ASSUME NEW m, NEW a, IsVec(Op(i, 1)), OwnView(i, a)
               PROVE  OwnViews(i, <<Call(Reg(1, w), MergeArg(i, w) \o <<add_argument_mask(m), a>>)>>
                                  \o MERR_OK)
    OBVIOUS
  <2>1. Args(i, MergeArg(i, w) \o <<add_argument_mask(m), a>>)
    BY <1>1, OwnOperands, ReadsOfSteps, ReadsOfTuples, ReadsCompose
  <2> QED BY <1>2, <2>1, OwnResults, ReadsOfHelpers, ReadsCompose
<1>5. \A m : IsVec(Op(i, 2)) /\ ~IsVec(Op(i, 1)) =>
        OwnViews(i, <<Address(1, "addr"),
                      Call(Effect, <<Tmp("addr", PtrSize(i)), add_argument_mask(m), Reg(2, w)>>)>> \o MERR_OK)
  <2> SUFFICES ASSUME NEW m, IsVec(Op(i, 2)), ~IsVec(Op(i, 1))
               PROVE  OwnViews(i, <<Address(1, "addr"),
                                    Call(Effect, <<Tmp("addr", PtrSize(i)), add_argument_mask(m), Reg(2, w)>>)>>
                                  \o MERR_OK)
    OBVIOUS
  <2>1. Args(i, <<Tmp("addr", PtrSize(i)), add_argument_mask(m), Reg(2, w)>>)
    BY <1>1, OwnOperands, ReadsOfSteps, ReadsOfTuples
  <2>2. Reads(i, <<Address(1, "addr"),
                   Call(Effect, <<Tmp("addr", PtrSize(i)), add_argument_mask(m), Reg(2, w)>>)>>)
    BY <2>1, ReadsOfSteps, ReadsOfTuples
  <2> QED BY <2>2, ReadsOfHelpers, ReadsCompose, ReadsSuffice
<1>6. IsVec(Op(i, 1)) => OwnView(i, Reg(2, w)) /\ OwnView(i, Loaded(i, 2, "s", w))
  BY <1>1, OwnOperands
<1>7. OwnViews(i, masked_v_mov(i))
  <2> DEFINE mask == add_argument_mask(NumElements(i))
             p == <<Call(Reg(1, w), MergeArg(i, w) \o <<mask, Reg(2, w)>>)>> \o MERR_OK
             q == <<Address(2, "addr"),
                    Call(Reg(1, w), MergeArg(i, w) \o <<mask, Tmp("addr", PtrSize(i))>>)>> \o MERR_OK
             r == <<Address(1, "addr"), Call(Effect, <<Tmp("addr", PtrSize(i)), mask, Reg(2, w)>>)>> \o MERR_OK
  <2>1. IsVec(Op(i, 1)) => OwnViews(i, p)
    BY <1>4, <1>6
  <2>2. IsVec(Op(i, 1)) => OwnViews(i, q)
    <3> DEFINE a == Address(2, "addr")
               b == Call(Reg(1, w), MergeArg(i, w) \o <<mask, Tmp("addr", PtrSize(i))>>)
    <3>1. IsVec(Op(i, 1)) => Args(i, MergeArg(i, w) \o <<mask, Tmp("addr", PtrSize(i))>>)
      BY <1>1, OwnOperands, ReadsOfSteps, ReadsOfTuples, ReadsCompose
    <3>2. Args(i, a.src) /\ (IsVec(Op(i, 1)) => Args(i, b.src))
      BY <3>1, ReadsOfSteps
    <3>3. IsVec(Op(i, 1)) => Defines(i, b)
      BY <1>2 DEF Defines, Call, Emit, Step, Reg, Whole1, OwnWidth
    <3> HIDE DEF a, b
    <3>4. IsVec(Op(i, 1)) => OwnViews(i, <<a, b>> \o MERR_OK)
      BY <3>2, <3>3, ReadsOfTuples, ReadsOfHelpers, ReadsCompose
    <3> QED BY <3>4 DEF a, b
  <2>3. IsVec(Op(i, 2)) /\ ~IsVec(Op(i, 1)) => OwnViews(i, r)
    BY <1>5
  <2>4. masked_v_mov(i) =
          IF IsVec(Op(i, 1)) /\ IsVec(Op(i, 2)) THEN p
          ELSE IF IsVec(Op(i, 1)) THEN QASSERT(IsMem(Op(i, 2)), q)
          ELSE IF IsMem(Op(i, 1)) /\ IsVec(Op(i, 2)) THEN r ELSE MERR_INSN
    BY DEF masked_v_mov, w
  <2> HIDE DEF p, q, r
  <2> QED BY <1>3, <2>1, <2>2, <2>3, <2>4 DEF QASSERT
<1>8. OwnViews(i, handle_v_compress(i))
  <2> DEFINE mask == add_argument_mask(w \div i.es)
             c == <<Call(Reg(1, w), MergeArg(i, w) \o <<mask, Loaded(i, 2, "s", w)>>)>>
             p == AvxOpLoader(i, 2, "s") \o c \o MERR_OK
             r == <<Address(1, "addr"), Call(Effect, <<Tmp("addr", PtrSize(i)), mask, Reg(2, w)>>)>> \o MERR_OK
  <2>1. IsVec(Op(i, 1)) => OwnViews(i, c)
    <3>1. IsVec(Op(i, 1)) => Args(i, MergeArg(i, w) \o <<mask, Loaded(i, 2, "s", w)>>)
      BY <1>1, <1>6, OwnOperands, ReadsOfSteps, ReadsOfTuples, ReadsCompose
    <3> QED BY <1>2, <3>1, OwnResults
  <2> HIDE DEF c
  <2>2. IsVec(Op(i, 1)) => OwnViews(i, p)
    BY <2>1, ReadsOfHelpers, ReadsCompose
  <2>3. IsVec(Op(i, 2)) /\ ~IsVec(Op(i, 1)) => OwnViews(i, r)
    BY <1>5
  <2>4. handle_v_compress(i) =
          IF ~Masked(i) THEN MERR_INSN ELSE IF IsVec(Op(i, 1)) THEN p
          ELSE IF IsMem(Op(i, 1)) /\ IsVec(Op(i, 2)) THEN r ELSE MERR_INSN
    BY DEF handle_v_compress, w, c
  <2> HIDE DEF p, r
  <2> QED BY <1>3, <2>2, <2>3, <2>4
<1>9. OwnViews(i, handle_v_mov_ps_dq(i))
  <2> DEFINE zmm   == <<Mov(Reg(1, 64), Reg(2, 64))>>
             zload == make_vector_load_mop(i, 2) \o <<Mov(Reg(1, 64), Deref("addr", 64))>>
             reg   == <<Mov(Reg(1, w), Reg(2, w))>>
             load  == load_operand_udt(i, 2, "s", w) \o <<Mov(Reg(1, w), Tmp("s", w))>>
             store == store_operand_hack(i, 1, Reg(2, w))
  <2>1. IsVec(Op(i, 1)) => OwnViews(i, reg)
    BY <1>2, <1>6, OwnResults
  <2>2. IsVec(Op(i, 1)) /\ w = 64 => OwnViews(i, zmm)
    BY <2>1
  <2>3. IsVec(Op(i, 1)) => OwnViews(i, load)
    <3>1. IsVec(Op(i, 1)) => OwnViews(i, <<Mov(Reg(1, w), Tmp("s", w))>>)
      BY <1>2, ReadsOfSteps, OwnResults
    <3> QED BY <3>1, ReadsOfHelpers, ReadsCompose
  <2>4. IsVec(Op(i, 1)) /\ w = 64 => OwnViews(i, zload)
    <3>1. IsVec(Op(i, 1)) => OwnViews(i, <<Mov(Reg(1, w), Deref("addr", 64))>>)
      BY <1>2, ReadsOfSteps, OwnResults
    <3> QED BY <3>1, ReadsOfHelpers, ReadsCompose
  <2>5. IsVec(Op(i, 2)) /\ ~IsVec(Op(i, 1)) => Reads(i, store)
    BY <1>1, OwnOperands, ReadsOfStores
  <2> HIDE DEF zmm, zload, reg, load, store
  <2>6. IsVec(Op(i, 2)) /\ ~IsVec(Op(i, 1)) => OwnViews(i, store \o MERR_OK)
    BY <2>5, ReadsOfHelpers, ReadsCompose, ReadsSuffice
  <2>7. IsVec(Op(i, 1)) /\ w = 64 =>
          OwnViews(i, (IF IsVec(Op(i, 2)) THEN zmm ELSE QASSERT(IsMem(Op(i, 2)), zload)) \o MERR_OK)
    BY <1>3, <2>2, <2>4, ReadsOfHelpers, ReadsCompose DEF QASSERT
  <2>8. IsVec(Op(i, 1)) =>
          OwnViews(i, (IF IsVec(Op(i, 2)) THEN reg ELSE QASSERT(IsMem(Op(i, 2)), load)) \o MERR_OK)
    BY <1>3, <2>1, <2>3, ReadsOfHelpers, ReadsCompose DEF QASSERT
  <2>9. handle_v_mov_ps_dq(i) =
          IF Masked(i) THEN masked_v_mov(i)
          ELSE IF IsVec(Op(i, 1)) /\ w = 64
          THEN (IF IsVec(Op(i, 2)) THEN zmm ELSE QASSERT(IsMem(Op(i, 2)), zload)) \o MERR_OK
          ELSE IF IsVec(Op(i, 1))
          THEN (IF IsVec(Op(i, 2)) THEN reg ELSE QASSERT(IsMem(Op(i, 2)), load)) \o MERR_OK
          ELSE IF IsMem(Op(i, 1)) /\ IsVec(Op(i, 2)) THEN store \o MERR_OK ELSE MERR_INSN
    BY DEF handle_v_mov_ps_dq, w, zmm, zload, reg, load, store
  <2> QED BY <1>3, <1>7, <2>6, <2>7, <2>8, <2>9
<1> QED BY <1>8, <1>9

LEMMA ExpandViews ==
  ASSUME NEW i, Regular(i), i.it \in {"vexpandps", "vpexpandw"}
  PROVE  OwnViews(i, handle_v_expand(i))
<1> DEFINE w == Op(i, 1).w
           mask == add_argument_mask(w \div i.es)
           addr == Tmp("addr", PtrSize(i))
<1>1. IsVec(Op(i, 1)) /\ OwnWidth(i, w)
  BY OwnWidths DEF Regular, Decoded
<1>2. i.it \notin ScalarMoves \union Transfers \union VmxInsns
  BY DEF ScalarMoves, Transfers, VmxInsns
<1>3. i.it \notin ScalarToMask \union NarrowMaskInsns
  BY DEF ScalarToMask, NarrowMaskInsns, Kmovs, UnaryMaskOps, BinaryMaskOps, MaskTests
<1>4. Width(i) = w
  BY <1>1, <1>2, <1>3, Zenon DEF Width
<1>5. Whole1(i, w)
  BY <1>1, <1>4 DEF Whole1
<1> HIDE DEF w
<1>6. Args(i, MergeArg(i, w) \o <<mask, addr>>) /\ Args(i, MergeArg(i, w) \o <<mask, Reg(2, w)>>)
  BY <1>1, OwnOperands, ReadsOfSteps, ReadsOfTuples, ReadsCompose
<1>7. OwnViews(i, <<Call(Reg(1, w), MergeArg(i, w) \o <<mask, Reg(2, w)>>)>> \o MERR_OK)
  BY <1>5, <1>6, OwnResults, ReadsOfHelpers, ReadsCompose
<1> DEFINE a == Address(2, "addr")
           b == Call(Reg(1, w), MergeArg(i, w) \o <<mask, addr>>)
<1>8. Args(i, a.src) /\ Args(i, b.src)
  BY <1>6, ReadsOfSteps
<1>9. Defines(i, b)
  BY <1>5 DEF Defines, Call, Emit, Step, Reg, Whole1, OwnWidth
<1> HIDE DEF a, b
<1>10. OwnViews(i, <<a, b>> \o MERR_OK)
  BY <1>8, <1>9, ReadsOfTuples, ReadsOfHelpers, ReadsCompose
<1> DEFINE p == <<a, b>> \o MERR_OK
           q == <<Call(Reg(1, w), MergeArg(i, w) \o <<mask, Reg(2, w)>>)>> \o MERR_OK
<1>11. handle_v_expand(i) = IF ~Masked(i) THEN MERR_INSN ELSE IF IsMem(Op(i, 2)) THEN p
                            ELSE IF IsVec(Op(i, 2)) THEN q ELSE MERR_INSN
  BY DEF handle_v_expand, w, a, b
<1> HIDE DEF p, q, mask, addr
<1>12. OwnViews(i, p) /\ OwnViews(i, q) /\ OwnViews(i, MERR_INSN)
  BY <1>7, <1>10, ReadsOfHelpers DEF p, q, mask, addr
<1> QED BY <1>11, <1>12

(* Opmasks are read and written by number or through a kreg.               *)
LEMMA IntoMaskViews ==
  ASSUME NEW i, Regular(i), i.it \in IntoMask
  PROVE  /\ i.it \in CompareToMask => OwnViews(i, handle_v_cmp_to_mask(i))
         /\ i.it \in TestToMask => OwnViews(i, handle_v_2src_to_mask(i))
         /\ i.it \in ClassToMask => OwnViews(i, handle_v_fpclass_to_mask(i))
         /\ i.it \in SignsToMask => OwnViews(i, handle_v_movx2m(i))
         /\ i.it \in Intersects => OwnViews(i, handle_v_p2intersect(i))
<1> DEFINE vs   == get_vector_size(Op(i, 2))
           size == IF i.it \in ScalarToMask THEN 16 ELSE vs
<1>1. ~IsVec(Op(i, 1))
  BY DEF Regular, Decoded
<1>2. IsVec(Op(i, 2)) => OwnWidth(i, vs)
  BY OwnWidths DEF get_vector_size, IsVec, IsXmm
<1>3. IsVec(Op(i, 2)) => OwnWidth(i, size)
  BY <1>2 DEF Regular, Decoded, OwnWidth
<1>4. ClassToMask \intersect (CompareToMask \union TestToMask \union SignsToMask \union Intersects) = {}
  BY DEF ClassToMask, CompareToMask, TestToMask, SignsToMask, Intersects
<1>5. i.it \in CompareToMask \union TestToMask \union SignsToMask \union Intersects => IsVec(Op(i, 2))
  BY <1>4 DEF Regular, Decoded, IntoMask
<1> HIDE DEF vs, size
<1>6. IsVec(Op(i, 2)) =>
        \A n : OwnView(i, VecSource(i, n, vs)) /\ OwnView(i, VecSource(i, n, size))
  BY <1>2, <1>3, OwnOperands
<1>7. \A w : IsMem(Op(i, 2)) => OwnView(i, VecSource(i, 2, w))
  BY ReadsOfSteps DEF VecSource
<1>8. Args(i, MaskArg(i))
  BY ReadsOfSteps, ReadsOfTuples DEF MaskArg
<1>9. ASSUME NEW args, Args(i, args), NEW n PROVE Reads(i, finish_mask_result(args, n))
  <2>1. Reads(i, <<Alloc("tmp", kmask_type_for(n)), Call(Tmp("tmp", kmask_type_for(n)), args)>>)
    BY <1>9, ReadsOfSteps, ReadsOfTuples
  <2> QED BY <2>1, ReadsOfHelpers, ReadsCompose DEF finish_mask_result
<1>10. ASSUME IsVec(Op(i, 2)), NEW w, w \in {vs, size}, NEW n
       PROVE  Reads(i, add_vec_source(i, 2, w) \o add_vec_source(i, 3, w)
                       \o finish_mask_result(
                            MaskArg(i) \o <<VecSource(i, 2, w), VecSource(i, 3, w)>>, n))
  <2>1. Args(i, MaskArg(i) \o <<VecSource(i, 2, w), VecSource(i, 3, w)>>)
    BY <1>6, <1>8, <1>10, ReadsOfTuples, ReadsCompose
  <2> QED BY <1>9, <2>1, ReadsOfHelpers, ReadsCompose
<1>11. i.it \in CompareToMask => OwnViews(i, handle_v_cmp_to_mask(i))
  BY <1>1, <1>5, <1>10, ReadsSuffice DEF handle_v_cmp_to_mask, size, vs
<1>12. i.it \in TestToMask => OwnViews(i, handle_v_2src_to_mask(i))
  BY <1>1, <1>5, <1>10, ReadsSuffice DEF handle_v_2src_to_mask, vs
<1>13. ASSUME i.it \in ClassToMask PROVE OwnViews(i, handle_v_fpclass_to_mask(i))
  <2>1. OwnView(i, VecSource(i, 2, size))
    BY <1>6, <1>7 DEF Regular, Decoded, IntoMask
  <2>2. Args(i, MaskArg(i) \o <<VecSource(i, 2, size)>>)
    BY <1>8, <2>1, ReadsOfTuples, ReadsCompose
  <2>3. \A n : Reads(i, add_vec_source(i, 2, size)
                       \o finish_mask_result(MaskArg(i) \o <<VecSource(i, 2, size)>>, n))
    BY <1>9, <2>2, ReadsOfHelpers, ReadsCompose
  <2> QED BY <1>1, <2>3, ReadsSuffice DEF handle_v_fpclass_to_mask, size, vs
<1>14. ASSUME i.it \in SignsToMask PROVE OwnViews(i, handle_v_movx2m(i))
  <2>1. Args(i, <<VecSource(i, 2, vs)>>)
    BY <1>5, <1>6, <1>14, ReadsOfTuples
  <2>2. \A n : Reads(i, add_vec_source(i, 2, vs) \o finish_mask_result(<<VecSource(i, 2, vs)>>, n))
    BY <1>9, <2>1, ReadsOfHelpers, ReadsCompose
  <2> QED BY <1>1, <2>2, ReadsSuffice DEF handle_v_movx2m, vs
<1>15. ASSUME i.it \in Intersects PROVE OwnViews(i, handle_v_p2intersect(i))
  <2>1. Args(i, <<VecSource(i, 2, vs), VecSource(i, 3, vs)>>)
    BY <1>5, <1>6, <1>15, ReadsOfTuples
  <2>2. Reads(i, <<Call(Effect, <<VecSource(i, 2, vs), VecSource(i, 3, vs)>>)>>)
    BY <2>1, ReadsOfSteps, ReadsOfTuples
  <2>3. Reads(i, add_vec_source(i, 2, vs) \o add_vec_source(i, 3, vs)
                 \o <<Call(Effect, <<VecSource(i, 2, vs), VecSource(i, 3, vs)>>)>> \o MERR_OK)
    BY <2>2, ReadsOfHelpers, ReadsCompose
  <2> QED BY <1>1, <2>3, ReadsSuffice DEF handle_v_p2intersect, vs
<1> QED BY <1>11, <1>12, <1>13, <1>14, <1>15

LEMMA MaskMoveViews ==
  ASSUME NEW i, Regular(i)
  PROVE  /\ i.it \in NarrowMaskInsns =>
              OwnViews(i, handle_kmov(i)) /\ OwnViews(i, handle_k_alu(i)) /\ OwnViews(i, MERR_OK)
         /\ i.it \in MaskToVec =>
              OwnViews(i, handle_v_mask_to_vec(i)) /\ OwnViews(i, handle_v_broadcastm(i))
<1>1. ASSUME i.it \in NarrowMaskInsns
      PROVE  OwnViews(i, handle_kmov(i)) /\ OwnViews(i, handle_k_alu(i)) /\ OwnViews(i, MERR_OK)
  <2>1. ~Wide(i) /\ ~IsVec(Op(i, 1))
    BY <1>1, RegularOperands DEF Wide, IsVec
  <2>2. OwnWidth(i, i.es)
    BY <2>1 DEF Regular, Decoded, OwnWidth
  <2>3. \A n : OwnView(i, Reg(n, i.es)) /\ \A v : OwnView(i, Loaded(i, n, v, i.es))
    BY <2>2, OwnOperands
  <2>4. \A v : OwnView(i, Tmp(v, i.es))
    BY ReadsOfSteps
  <2>5. Reads(i, handle_k_alu(i))
    <3> DEFINE args == IF i.it \in UnaryMaskOps THEN <<Reg(2, i.es)>> ELSE <<Reg(2, i.es), Reg(3, i.es)>>
    <3>1. Args(i, args)
      BY <2>3, ReadsOfTuples
    <3> HIDE DEF args
    <3>2. Reads(i, <<Alloc("tmp", i.es), Call(Tmp("tmp", i.es), args)>>)
      BY <3>1, ReadsOfSteps, ReadsOfTuples
    <3>3. Reads(i, <<Alloc("tmp", i.es), Call(Tmp("tmp", i.es), args)>>
                   \o emit_write_call(1, "tmp", i.es) \o MERR_OK)
      BY <3>2, ReadsOfHelpers, ReadsCompose
    <3> QED BY <3>3 DEF handle_k_alu, args
  <2>6. Reads(i, handle_kmov(i))
    <3> DEFINE val == IF Op(i, 2).k = "k" THEN Tmp("tmp", i.es) ELSE Loaded(i, 2, "s", i.es)
               get == IF Op(i, 2).k = "k"
                      THEN <<Alloc("tmp", i.es), Mov(Tmp("tmp", i.es), Reg(2, i.es))>>
                      ELSE AvxOpLoader(i, 2, "s")
               put == IF IsMem(Op(i, 1)) THEN store_operand_hack(i, 1, val)
                      ELSE IF Op(i, 1).k = "k" /\ val.at = "tmp" THEN emit_write_call(1, val.v, i.es)
                      ELSE <<Mov(Reg(1, i.es), val)>>
    <3>1. OwnView(i, val)
      BY <2>3, <2>4
    <3> HIDE DEF val
    <3>2. Reads(i, get)
      BY <2>3, ReadsOfSteps, ReadsOfTuples, ReadsOfHelpers
    <3>3. Reads(i, put)
      BY <3>1, ReadsOfStores, ReadsOfHelpers, ReadsOfSteps, ReadsOfTuples
    <3> HIDE DEF get, put
    <3>4. Reads(i, get \o put \o MERR_OK)
      BY <3>2, <3>3, ReadsOfHelpers, ReadsCompose
    <3> QED BY <3>4 DEF handle_kmov, get, put, val
  <2> QED BY <2>1, <2>5, <2>6, ReadsOfHelpers, ReadsSuffice
<1>2. ASSUME i.it \in MaskToVec
      PROVE  OwnViews(i, handle_v_mask_to_vec(i)) /\ OwnViews(i, handle_v_broadcastm(i))
  <2> DEFINE w == Op(i, 1).w
  <2>1. IsVec(Op(i, 1)) /\ OwnWidth(i, w)
    BY <1>2, OwnWidths DEF Regular, Decoded
  <2>2. i.it \notin ScalarMoves \union Transfers \union VmxInsns
    BY <1>2 DEF MaskToVec, ScalarMoves, Transfers, VmxInsns
  <2>3. i.it \notin ScalarToMask \union NarrowMaskInsns
    BY <1>2 DEF MaskToVec, ScalarToMask, NarrowMaskInsns, Kmovs, UnaryMaskOps, BinaryMaskOps, MaskTests
  <2>4. Width(i) = w
    BY <2>1, <2>2, <2>3, Zenon DEF Width
  <2>5. Whole1(i, w)
    BY <2>1, <2>4 DEF Whole1
  <2>6. \A n : Args(i, <<add_argument_mask(n)>>)
    BY ReadsOfSteps, ReadsOfTuples
  <2>7. \A n : /\ OwnViews(i, <<Call(Reg(1, w), <<add_argument_mask(n)>>)>> \o MERR_OK)
               /\ OwnViews(i, CallIntoVec(i, w, <<add_argument_mask(n)>>) \o MERR_OK)
    BY <2>5, <2>6, OwnResults, ReadsOfHelpers, ReadsCompose
  <2> QED BY <2>7 DEF handle_v_mask_to_vec, handle_v_broadcastm
<1> QED BY <1>1, <1>2

(* The classes of regular instructions and the others that handlers with   *)
(* plans of their own are given.                                           *)
LEMMA RegularClasses ==
  ASSUME NEW i, i.it \in RegularInsns
  PROVE  /\ ~is_zmm_direct_call(i)
         /\ i.it \notin ConversionInsns /\ i.it \notin Gathers /\ i.it \notin Scatters
         /\ i.it \in LogicInsns => i.it \in RegularLogic
         /\ i.it \in IntoMask \union MaskToVec \union NarrowMaskInsns =>
              /\ i.it \notin MathInsns /\ i.it \notin LogicInsns
              /\ i.it \notin ScalarMoves \union Transfers \union WholeMoveInsns \union PackInsns
<1> DEFINE Moves  == ScalarMoves \union Transfers \union WholeMoveInsns \union PackInsns
           Masks  == IntoMask \union MaskToVec \union NarrowMaskInsns
           Others == {"call"} \union ConversionInsns \union Gathers \union Scatters
<1>1. MathInsns \intersect LogicInsns = {}
  BY DEF MathInsns, PackedUnary, PackedUnaryImm, PackedBinary, PackedBinaryImm, Accumulating, Fixups,
           MulAdds, ComplexMulAdd, ScalarMath, ScalarUnary, ScalarBinary, ScalarBinaryImm, MulAdd132,
           MulAdd213, MulAdd231, ScalarMulAdds, WideProducts,
           LogicInsns, LogicUnary, LogicBinary, LogicTernary, LogicAccumulating, HalfMoves, Hashes,
           Broadcasts, MaskBlends, AddSubMuls, AddSub132, AddSub213, AddSub231, Selective, NonTemporal,
           CacheControl, Clears, VectorTests, ScalarLogic, pmov
<1>2. Moves \intersect LogicInsns = {}
  BY DEF ScalarMoves, Transfers, WholeMoveInsns, PackInsns,
           LogicInsns, LogicUnary, LogicBinary, LogicTernary, LogicAccumulating, HalfMoves, Hashes,
           Broadcasts, MaskBlends, AddSubMuls, AddSub132, AddSub213, AddSub231, Selective, NonTemporal,
           CacheControl, Clears, VectorTests, ScalarLogic, pmov
<1>3. Masks \intersect LogicInsns = {}
  BY DEF IntoMask, CompareToMask, TestToMask, ClassToMask, SignsToMask, Intersects, MaskToVec,
           NarrowMaskInsns, Kmovs, UnaryMaskOps, BinaryMaskOps, MaskTests,
           LogicInsns, LogicUnary, LogicBinary, LogicTernary, LogicAccumulating, HalfMoves, Hashes,
           Broadcasts, MaskBlends, AddSubMuls, AddSub132, AddSub213, AddSub231, Selective, NonTemporal,
           CacheControl, Clears, VectorTests, ScalarLogic, pmov
<1>4. MathInsns \intersect Others = {}
  BY DEF MathInsns, PackedUnary, PackedUnaryImm, PackedBinary, PackedBinaryImm, Accumulating, Fixups,
           MulAdds, ComplexMulAdd, ScalarMath, ScalarUnary, ScalarBinary, ScalarBinaryImm, MulAdd132,
           MulAdd213, MulAdd231, ScalarMulAdds, WideProducts,
           Others, Gathers, Scatters, ConversionInsns, Extends, Narrows, Converts, pmov, ScalarToGpr,
           ScalarConvert, IntToScalar, CsrMoves
<1>5. RegularLogic \intersect Others = {}
  BY DEF RegularLogic, Hashes, MaskBlends, AddSub132, AddSub213, AddSub231,
           Others, Gathers, Scatters, ConversionInsns, Extends, Narrows, Converts, pmov, ScalarToGpr,
           ScalarConvert, IntToScalar, CsrMoves
<1>6. Moves \intersect Others = {}
  BY DEF ScalarMoves, Transfers, WholeMoveInsns, PackInsns,
           Others, Gathers, Scatters, ConversionInsns, Extends, Narrows, Converts, pmov, ScalarToGpr,
           ScalarConvert, IntToScalar, CsrMoves
<1>7. Masks \intersect Others = {}
  BY DEF IntoMask, CompareToMask, TestToMask, ClassToMask, SignsToMask, Intersects, MaskToVec,
           NarrowMaskInsns, Kmovs, UnaryMaskOps, BinaryMaskOps, MaskTests,
           Others, Gathers, Scatters, ConversionInsns, Extends, Narrows, Converts, pmov, ScalarToGpr,
           ScalarConvert, IntToScalar, CsrMoves
<1>8. i.it \in MathInsns \union RegularLogic \union Moves \union Masks
  BY DEF RegularInsns
<1>9. Masks \intersect MathInsns = {}
  BY DEF MathInsns, PackedUnary, PackedUnaryImm, PackedBinary, PackedBinaryImm, Accumulating, Fixups,
           MulAdds, ComplexMulAdd, ScalarMath, ScalarUnary, ScalarBinary, ScalarBinaryImm, MulAdd132,
           MulAdd213, MulAdd231, ScalarMulAdds, WideProducts,
           IntoMask, CompareToMask, TestToMask, ClassToMask, SignsToMask, Intersects, MaskToVec,
           NarrowMaskInsns, Kmovs, UnaryMaskOps, BinaryMaskOps, MaskTests
<1>10. Masks \intersect Moves = {}
  BY DEF ScalarMoves, Transfers, WholeMoveInsns, PackInsns, IntoMask, CompareToMask, TestToMask, ClassToMask, SignsToMask, Intersects, MaskToVec,
           NarrowMaskInsns, Kmovs, UnaryMaskOps, BinaryMaskOps, MaskTests
<1> HIDE DEF Moves, Masks
<1>11. i.it \notin Others
  BY <1>4, <1>5, <1>6, <1>7, <1>8, Zenon
<1>12. i.it \in LogicInsns => i.it \in RegularLogic
  BY <1>1, <1>2, <1>3, <1>8, Zenon
<1>13. i.it \in Masks => i.it \notin MathInsns /\ i.it \notin LogicInsns /\ i.it \notin Moves
  BY <1>3, <1>9, <1>10, Zenon
<1>14. ~is_zmm_direct_call(i) /\ i.it \notin ConversionInsns /\ i.it \notin Gathers /\ i.it \notin Scatters
  BY <1>11 DEF is_zmm_direct_call
<1> QED BY <1>12, <1>13, <1>14 DEF Moves, Masks

(* The dispatch: whichever handler a regular instruction is given to.      *)
LEMMA RegularViews ==
  ASSUME NEW i, Regular(i), i.it \in RegularInsns
  PROVE  OwnViews(i, apply(i))
<1>1. /\ ~is_zmm_direct_call(i)
      /\ i.it \notin ConversionInsns /\ i.it \notin Gathers /\ i.it \notin Scatters
      /\ OwnViews(i, MERR_INSN)
  BY RegularClasses, ReadsOfHelpers
<1> DEFINE OnMasks == i.it \in IntoMask \union MaskToVec \union NarrowMaskInsns
<1>2. CASE OnMasks
  <2>1. /\ i.it \notin MathInsns /\ i.it \notin LogicInsns
        /\ i.it \notin {"vmovss", "vmovsd"} /\ i.it # "vmovsh"
        /\ i.it \notin {"vmovd", "vmovq"} /\ i.it # "vmovw" /\ i.it \notin WholeMoveInsns
        /\ i.it \notin {"vcompressps", "vpcompressw"} /\ i.it \notin {"vexpandps", "vpexpandw"}
    BY <1>2, RegularClasses DEF ScalarMoves, Transfers, PackInsns
  <2>2. /\ i.it \in CompareToMask => OwnViews(i, handle_v_cmp_to_mask(i))
        /\ i.it \in TestToMask => OwnViews(i, handle_v_2src_to_mask(i))
        /\ i.it \in ClassToMask => OwnViews(i, handle_v_fpclass_to_mask(i))
        /\ i.it \in SignsToMask => OwnViews(i, handle_v_movx2m(i))
        /\ i.it \in Intersects => OwnViews(i, handle_v_p2intersect(i))
    BY IntoMaskViews DEF IntoMask
  <2>3. /\ i.it \in Kmovs => OwnViews(i, handle_kmov(i))
        /\ i.it \in UnaryMaskOps \union BinaryMaskOps => OwnViews(i, handle_k_alu(i))
        /\ i.it \in MaskTests => OwnViews(i, MERR_OK)
    BY MaskMoveViews DEF NarrowMaskInsns
  <2>4. /\ i.it \in Broadcastm => OwnViews(i, handle_v_broadcastm(i))
        /\ i.it \in MaskToVec \ Broadcastm => OwnViews(i, handle_v_mask_to_vec(i))
    BY MaskMoveViews DEF MaskToVec, Broadcastm
  <2> QED BY <1>1, <2>1, <2>2, <2>3, <2>4, ZenonT(60) DEF apply
<1>3. CASE ~OnMasks
  <2>1. /\ i.it \notin CompareToMask /\ i.it \notin TestToMask /\ i.it \notin ClassToMask
        /\ i.it \notin SignsToMask /\ i.it \notin Intersects /\ i.it \notin Kmovs
        /\ i.it \notin UnaryMaskOps \union BinaryMaskOps /\ i.it \notin MaskTests
        /\ i.it \notin Broadcastm /\ i.it \notin MaskToVec \ Broadcastm
    BY <1>3 DEF IntoMask, NarrowMaskInsns, MaskToVec, Broadcastm
  <2>2. Op(i, 1).k = "k" => OwnViews(i, MERR_OK)
    BY ReadsOfHelpers, ReadsSuffice DEF IsVec
  <2>3. /\ i.it \in {"vmovss", "vmovsd"} => OwnViews(i, handle_vmov_ss_sd(i))
        /\ i.it = "vmovsh" => OwnViews(i, handle_vmov_sh(i))
    BY ScalarMoveViews DEF ScalarMoves
  <2>4. /\ i.it \in {"vmovd", "vmovq"} => OwnViews(i, handle_vmov(i))
        /\ i.it = "vmovw" => OwnViews(i, handle_vmovw(i))
    BY TransferViews DEF Transfers
  <2>5. /\ i.it \in WholeMoveInsns => OwnViews(i, handle_v_mov_ps_dq(i))
        /\ i.it \in {"vcompressps", "vpcompressw"} => OwnViews(i, handle_v_compress(i))
        /\ i.it \in {"vexpandps", "vpexpandw"} => OwnViews(i, handle_v_expand(i))
    BY WholeMoveViews, ExpandViews DEF PackInsns
  <2>6. i.it \in MathInsns => OwnViews(i, apply_math(i))
    BY ArithmeticViews
  <2>7. i.it \in LogicInsns => OwnViews(i, apply_shuffle(i))
    BY RegularClasses, LogicAndShuffleViews
  <2> QED BY <1>1, <2>1, <2>2, <2>3, <2>4, <2>5, <2>6, <2>7, ZenonT(60) DEF apply
<1> QED BY <1>2, <1>3

(* Other registers, different for different registers, change nothing in   *)
(* what a flow honours.                                                    *)
Injective(to) == \A r, q \in VecRegs : to[r] = to[q] => r = q

LEMMA RenamedHonours ==
  ASSUME NEW fl, NEW to, NEW watched, Honours(fl), Injective(to),
         fl.defines \subseteq Parts, fl.clears \subseteq Cells,
         {"reads", "writes", "consumes", "defines", "clears"} \subseteq DOMAIN fl
  PROVE  Honours(Renamed(fl, to, watched))
<1> DEFINE parts(ps) == {<<x[1], to[x[2]], x[3]>> : x \in {y \in ps : to[y[2]] \in watched}}
           cells(cs) == {<<to[c[1]], c[2]>> : c \in {d \in cs : to[d[1]] \in watched}}
           new == Renamed(fl, to, watched)
<1>1. /\ new.reads = parts(fl.reads) /\ new.writes = parts(fl.writes)
      /\ new.consumes = parts(fl.consumes) /\ new.defines = parts(fl.defines)
      /\ new.clears = cells(fl.clears)
  BY DEF Renamed
<1>2. new.reads \subseteq new.consumes /\ new.defines \subseteq new.writes
  BY <1>1 DEF Honours
<1>3. ASSUME NEW x \in new.defines
      PROVE  \E y \in fl.defines : /\ x = <<y[1], to[y[2]], y[3]>> /\ to[y[2]] \in watched
                                   /\ y[2] \in VecRegs /\ y[3] \in Lanes
  <2>1. PICK y \in fl.defines : x = <<y[1], to[y[2]], y[3]>> /\ to[y[2]] \in watched
    BY <1>1
  <2>2. <<y[2], y[3]>> \in Cells
    BY PartTypes
  <2> QED BY <2>1, <2>2 DEF Cells
<1> HIDE DEF new
<1>4. ASSUME NEW x \in new.defines, NEW y \in new.defines, x[2] = y[2], x[3] = y[3]
      PROVE  x = y
  <2>1. PICK v \in fl.defines : x = <<v[1], to[v[2]], v[3]>> /\ v[2] \in VecRegs
    BY <1>3
  <2>2. PICK w \in fl.defines : y = <<w[1], to[w[2]], w[3]>> /\ w[2] \in VecRegs
    BY <1>3
  <2>3. v[2] = w[2] /\ v[3] = w[3]
    BY <1>4, <2>1, <2>2 DEF Injective
  <2>4. v = w
    BY <2>3 DEF Honours
  <2> QED BY <2>1, <2>2, <2>4
<1>5. ASSUME NEW x \in new.defines PROVE <<x[2], x[3]>> \notin new.clears
  <2> SUFFICES ASSUME <<x[2], x[3]>> \in new.clears PROVE FALSE
    OBVIOUS
  <2>1. PICK v \in fl.defines : x = <<v[1], to[v[2]], v[3]>> /\ v[2] \in VecRegs
    BY <1>3
  <2>2. PICK c \in fl.clears : <<x[2], x[3]>> = <<to[c[1]], c[2]>>
    BY <1>1
  <2>3. c = <<c[1], c[2]>> /\ c[1] \in VecRegs
    BY DEF Cells
  <2>4. c[1] = v[2] /\ c[2] = v[3]
    BY <2>1, <2>2, <2>3 DEF Injective
  <2>5. <<v[2], v[3]>> \notin fl.clears
    BY DEF Honours
  <2> QED BY <2>3, <2>4, <2>5
<1> QED BY <1>2, <1>4, <1>5 DEF Honours, new

(* Flows of regular instructions, in any registers.                        *)
RegularFlow(fl) ==
  \E i, to, watched :
    /\ OneView(i) /\ Decoded(i) /\ i.it \in RegularInsns
    /\ Lifts(apply(i)) /\ Injective(to)
    /\ fl = Renamed(FlowOf(i, apply(i)), to, watched)

LEMMA RegularFlowsHonour ==
  ASSUME NEW fl, RegularFlow(fl)
  PROVE  Honours(fl)
<1>1. PICK i, to, watched :
        /\ Regular(i) /\ i.it \in RegularInsns
        /\ Lifts(apply(i)) /\ Injective(to)
        /\ fl = Renamed(FlowOf(i, apply(i)), to, watched)
  BY DEF RegularFlow, Regular
<1> DEFINE old == FlowOf(i, apply(i))
<1>2. Honours(old)
  BY <1>1, RegularViews, RegularClasses, OwnViewsHonoured DEF ConversionInsns, ScalarConvert
<1>3. old.defines \subseteq Parts
  BY DEF FlowOf, PartsAt
<1>4. old.clears \subseteq Cells
  <2>1. old.clears = {} \/ (IsVec(Op(i, 1)) /\ old.clears \subseteq {Op(i, 1).r} \X Lanes)
    BY <1>1, RegularClasses DEF FlowOf, ClearedMasks
  <2>2. IsVec(Op(i, 1)) => Op(i, 1).r \in VecRegs
    BY <1>1, RegularOperands
  <2> QED BY <2>1, <2>2 DEF Cells
<1>5. {"reads", "writes", "consumes", "defines", "clears"} \subseteq DOMAIN old
  BY DEF FlowOf
<1> HIDE DEF old
<1> QED BY <1>1, <1>2, <1>3, <1>4, <1>5, RenamedHonours DEF old

(* Functions of regular instructions, whatever their operands, registers   *)
(* and order and however many functions that use ZMM registers they call:  *)
(* every handler keeps to the views of its instruction's operands, and so  *)
(* the microcode of the next instruction reads what was last put there.    *)
THEOREM RegularFunctionsHonourViews ==
  ASSUME \A fl \in Flows : RegularFlow(fl)
  PROVE  Spec => [](NextHonoursViews /\ CurrentUnlessCrossed)
<1>1. \A fl \in Flows : Honours(fl)
  BY RegularFlowsHonour
<1>2. NextHonoursViews
  BY <1>1 DEF NextHonoursViews
<1>3. Spec => []CurrentUnlessCrossed
  BY <1>1, CurrentUnlessCrossedHolds
<1> QED BY <1>2, <1>3, PTL
=============================================================================
