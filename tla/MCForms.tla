------------------------------ MODULE MCForms ------------------------------
(* The forms of the AVX, opmask and VMX instructions that TLC lifts.       *)
EXTENDS MCLogic, HandlersVmx, TLC

(* Registers 1 to 3 in every pattern of coincidence that an instruction    *)
(* with its destination in register 1 can have.                            *)
ScalarForms ==
  LET size == [vmovss |-> 4, vmovsd |-> 8, vmovsh |-> 2]
  IN  UNION {
        {form(it, size[it], <<xmm(1), mem(size[it])>>, m, TRUE) : m \in AnyMask}
        \union {form(it, size[it], <<mem(size[it]), xmm(2)>>, "none", TRUE)}
        \union {form(it, size[it], <<xmm(1), xmm(a), xmm(b)>>, m, TRUE) :
                  a \in 1..2, b \in 1..3, m \in AnyMask} : it \in DOMAIN size}

TransferLoads ==
  {form("vmovd", 4, <<xmm(1), src>>, "none", b) : src \in {gpr(12, 4), mem(4)}, b \in BOOLEAN}
  \union {form("vmovq", 8, <<xmm(1), src>>, "none", TRUE) : src \in {gpr(12, 8), mem(8), xmm(1), xmm(2)}}
  \union {form("vmovw", 2, <<xmm(1), src>>, "none", TRUE) : src \in {gpr(12, 4), mem(2)}}
TransferStores ==
  {form("vmovd", 4, <<gpr(12, 4), xmm(2)>>, "none", b) : b \in BOOLEAN}
  \union {form("vmovq", 8, <<gpr(12, 8), xmm(2)>>, "none", TRUE),
          form("vmovw", 2, <<gpr(12, 4), xmm(2)>>, "none", TRUE),
          form("vmovw", 2, <<mem(2), xmm(2)>>, "none", TRUE)}
(* Their handler does not look at the result of the store.                 *)
UncheckedStores ==
  {form("vmovd", 4, <<mem(4), xmm(2)>>, "none", TRUE),
   form("vmovq", 8, <<mem(8), xmm(2)>>, "none", TRUE)}

MoveOf == (1 :> "vmovdqu8") @@ (4 :> "vmovups") @@ (8 :> "vmovdqu64")
LoadMoves(w, es) ==
  {form(MoveOf[es], es, <<vec(w, 1), src>>, m, TRUE) :
     src \in {vec(w, 1), vec(w, 2), mem(w), global(w)}, m \in AnyMask}
StoreMoves(w, es, masks) ==
  {form(MoveOf[es], es, <<dst, vec(w, 2)>>, m, TRUE) : dst \in {mem(w), global(w)}, m \in masks}
Moves32 ==
  {form("vmovdqu", 4, <<xmm(1), src>>, "none", FALSE) : src \in {xmm(2), mem(16), global(16)}}
  \union {form("vmovdqu", 4, <<dst, xmm(2)>>, "none", FALSE) : dst \in {mem(16), global(16)}}
WholeMoves ==
  UNION {LoadMoves(w, es) : w \in {16, 32, 64}, es \in {1, 8}}
  \union UNION {StoreMoves(w, 4, {"none"}) : w \in {16, 32, 64}}
  \union StoreMoves(64, 1, {"merge"}) \union StoreMoves(64, 4, {"merge"}) \union Moves32

CompressOf == (2 :> "vpcompressw") @@ (4 :> "vcompressps")
ExpandOf == (2 :> "vpexpandw") @@ (4 :> "vexpandps")
Packs ==
  UNION {{form(CompressOf[es], es, <<vec(w, 1), vec(w, r)>>, m, TRUE) : r \in 1..2, m \in AnyMask}
         \union {form(CompressOf[es], es, <<mem(w), vec(w, 2)>>, m, TRUE) : m \in {"none", "merge"}}
         \union {form(ExpandOf[es], es, <<vec(w, 1), src>>, m, TRUE) :
                   src \in {vec(w, 1), vec(w, 2), mem(w)}, m \in AnyMask}
         : w \in {16, 64}, es \in {2, 4}}

gather2(it, es, d, x, disp, b64) ==
  form(it, es, <<vec(d, 1), vsib(es, disp), vec(d, 3), vec(x, 2)>>, "none", b64)
gather512(it, es, d, x, disp) ==
  form(it, es, <<vec(d, 1), vsib(es, disp), void, vec(x, 2), void, kreg(22)>>, "merge", TRUE)
scatter512(it, es, d, x, disp, r) ==
  form(it, es, <<vsib(es, disp), vec(d, r), void, vec(x, 2), void, kreg(22)>>, "merge", TRUE)

(* The destination and index of a gather differ; the source and index of a *)
(* scatter may coincide.                                                   *)
Gathered ==
  UNION {{gather2("vpgatherdd", 4, w, w, d, TRUE), gather2("vgatherqpd", 8, w, w, d, TRUE),
          gather2("vgatherdpd", 8, w, 16, d, TRUE)} : w \in {16, 32}, d \in BOOLEAN}
  \union {gather2("vgatherqps", 4, 16, 32, d, TRUE) : d \in BOOLEAN}
  \union {gather2("vpgatherdd", 4, 16, 16, FALSE, FALSE)}
  \union UNION {{gather512("vpgatherdd", 4, 64, 64, d), gather512("vpgatherqd", 4, 32, 64, d),
                 gather512("vpgatherqq", 8, 64, 64, d), gather512("vgatherdpd", 8, 32, 16, d)}
                : d \in BOOLEAN}
Scattered ==
  UNION {{scatter512("vpscatterdd", 4, 64, 64, d, r), scatter512("vscatterqps", 4, 32, 64, d, 1),
          scatter512("vscatterqpd", 8, 64, 64, d, r)} : d \in BOOLEAN, r \in 1..2}
  \union {[scatter512("vpscatterdd", 4, 16, 16, FALSE, 1) EXCEPT !.mask = "none"]}

(* Opmasks 21 and 22. *)
ToMaskOf(it, es, w, m) ==
  {form(it, es, <<kreg(21), vec(w, 2), src>>, m, TRUE) : src \in {vec(w, 1), vec(w, 2), mem(w)}}
Compares ==
  UNION {ToMaskOf("vcmpps", 4, w, "none") \union ToMaskOf("vpcmpub", 1, w, "none") : w \in Widths}
  \union UNION {ToMaskOf("vptestmd", 4, w, "none") \union ToMaskOf("vpshufbitqmb", 8, w, "none") :
                  w \in {16, 64}}
  \union ToMaskOf("vcmpps", 4, 64, "merge") \union ToMaskOf("vptestnmb", 1, 64, "merge")
  \union {form("vcmpss", 4, <<kreg(21), xmm(2), src>>, "none", TRUE) : src \in {xmm(1), mem(4)}}
  \union {form("vcmpsd", 8, <<kreg(21), xmm(2), src>>, "none", TRUE) : src \in {xmm(1), mem(8)}}
Classes ==
  {form("vfpclassps", 4, <<kreg(21), vec(w, 2)>>, "none", TRUE) : w \in Widths}
  \union {form("vfpclasspd", 8, <<kreg(21), zmm(2)>>, "merge", TRUE),
          form("vfpclassps", 4, <<kreg(21), mem(16)>>, "none", TRUE)}
  \union {form("vfpclassss", 4, <<kreg(21), src>>, "none", TRUE) : src \in {xmm(2), mem(4)}}
  \union {form(it, IF it = "vpmovb2m" THEN 1 ELSE 4, <<kreg(21), vec(w, 2)>>, "none", TRUE) :
            it \in SignsToMask, w \in Widths}
MaskMoves ==
  LET size == [kmovb |-> 1, kmovw |-> 2, kmovd |-> 4, kmovq |-> 8]
  IN  UNION {{form(it, size[it], <<kreg(21), src>>, "none", TRUE) :
               src \in {kreg(21), kreg(22), gpr(12, IF it = "kmovq" THEN 8 ELSE 4), mem(size[it])}}
             \union {form(it, size[it], <<dst, kreg(22)>>, "none", TRUE) :
                       dst \in {gpr(12, IF it = "kmovq" THEN 8 ELSE 4), mem(size[it])}}
             : it \in DOMAIN size}
MaskOps ==
  LET size == [kandb |-> 1, kandnw |-> 2, kxorq |-> 8, kunpckbw |-> 2,
               knotw |-> 2, kshiftlw |-> 2, kshiftrd |-> 4]
  IN  {form(it, size[it], <<kreg(21), kreg(a), kreg(b)>>, "none", TRUE) :
        it \in BinaryMaskOps, a \in 21..22, b \in 21..22}
      \union {form(it, size[it], <<kreg(21), kreg(a)>>, "none", TRUE) :
                it \in UnaryMaskOps, a \in 21..22}
MaskInsns == Compares \union Classes \union MaskMoves \union MaskOps
Others ==
  {form("call", 8, <<>>, "none", b) : b \in BOOLEAN}
  \union {form(it, 4, <<xmm(1), xmm(2)>>, "none", TRUE) : it \in sse_twin}

(* What an opmask is passed to by number.                                  *)
MaskConsumers ==
  {form("vpmovm2d", 4, <<vec(w, 1), kreg(22)>>, "none", TRUE) : w \in Widths}
  \union {form("vpbroadcastmb2q", 8, <<vec(w, 1), kreg(22)>>, "none", TRUE) : w \in Widths}
MaskPairs ==
  {form(it, IF it = "vp2intersectd" THEN 4 ELSE 8, <<kreg(21), zmm(2), src>>, "none", TRUE) :
     it \in Intersects, src \in {zmm(3), mem(64)}}
WideClasses == {form("vfpclassps", 4, <<kreg(21), mem(w)>>, "none", TRUE) : w \in {32, 64}}
YmmToMask32 == {form("vpcmpd", 4, <<kreg(21), ymm(2), src>>, "none", FALSE) : src \in {ymm(3), mem(32)}}
NarrowMaskCompares ==
  {form("vcmpss", 4, <<kreg(21), xmm(2), mem(4)>>, "merge", TRUE)}
  \union ToMaskOf("vcmpps", 4, 32, "merge") \union ToMaskOf("vpshufbitqmb", 8, 64, "merge")

(* Arithmetic. Some instructions exist without EVEX only.                  *)
VexOnly == {"vpsignw", "vhaddps", "vaddsubps", "vdpps", "vmpsadbw", "vroundps", "vroundsd", "vrcpss"}
SizeOf(it) ==
  CASE it \in {"vpsubb"} -> 1
    [] it \in {"vpsubw", "vsubph", "vpsignw", "vcvtne2ps2bf16", "vcvtneps2bf16", "vpmaddubsw",
               "vmpsadbw", "vsqrtph", "vrndscaleph", "vsubsh", "vsqrtsh", "vrcpsh", "vreducesh"}
             \union fp16_fma -> 2
    [] it \in {"vsubpd", "vpsadbw", "vpmuldq", "vrangepd", "vpmadd52luq", "vgetexppd", "vreducepd",
               "vsqrtsd", "vsubsd", "vminsd", "vrsqrt14sd", "vscalefsd", "vroundsd", "vgetmantsd",
               "vrangesd", "vfmadd132sd", "vfmadd231sd", "vfmsub213pd"} -> 8
    [] OTHER -> 4
WidthsOf(it) == IF it \in VexOnly THEN {16, 32} ELSE Widths
MasksOf(it)  == IF it \in VexOnly THEN {"none"} ELSE AnyMask

ScalarMathForms(its) ==
  UNION {LET es == SizeOf(it)
         IN  {form(it, es, <<xmm(1), xmm(a), src>>
                           \o (IF it \in ScalarBinaryImm \union Fixups THEN <<imm>> ELSE <<>>), m, TRUE) :
                a \in 1..2, src \in {xmm(1), xmm(2), xmm(3), mem(es)}, m \in MasksOf(it)}
         : it \in its}
(* vsubss and the like may come without operand 3.                         *)
ShortForms == {form(it, SizeOf(it), <<xmm(1), xmm(a)>>, "none", TRUE) :
                 it \in {"vsubss", "vsubsd"}, a \in 1..2}
UnaryForms ==
  UNION {UNION {{form(it, SizeOf(it), <<vec(w, 1), src>>
                        \o (IF it \in PackedUnaryImm THEN <<imm>> ELSE <<>>), m, TRUE) :
                   src \in {vec(w, 1), vec(w, 2), mem(w)}, m \in MasksOf(it)}
                : w \in WidthsOf(it)} : it \in (PackedUnary \union PackedUnaryImm) \ {"vcvtneps2bf16"}}
  \union UNION {{form("vcvtneps2bf16", 2, <<vec(IF w = 64 THEN 32 ELSE 16, 1), src>>, m, TRUE) :
                    src \in {vec(w, 2), mem(w)}, m \in AnyMask} : w \in Widths}
BinaryForms(its) ==
  UNION {UNION {{form(it, SizeOf(it), <<vec(w, 1), vec(w, a), src>>
                        \o (IF it \in PackedBinaryImm \union Fixups THEN <<imm>> ELSE <<>>), m, TRUE) :
                   a \in 1..2, src \in {vec(w, 1), vec(w, 3), mem(w)}, m \in MasksOf(it)}
                : w \in WidthsOf(it)} : it \in its}

Packed3 == PackedBinary \union PackedBinaryImm \union Accumulating \union {"vfixupimmps", "vfmaddcph"}
           \union (MulAdds \ ScalarMath)
MathForms == ScalarMathForms(ScalarMath) \union ShortForms \union UnaryForms \union BinaryForms(Packed3)

(* What of them handlers do not lift right: see the README.                *)
ComplexForms == {i \in MathForms : i.it \in ComplexMulAdd}
FixupForms   == {i \in MathForms : i.it \in Fixups /\ i.mask # "merge"}
ScalarMulAddRest ==
  {i \in MathForms : i.it \in ScalarMulAdds \ (MulAdd132 \union ComplexMulAdd) /\ Op(i, 2).r # 1}
MaskedProducts   == {i \in MathForms : i.it \in WideProducts /\ Masked(i)}
MisliftedMath == ComplexForms \union FixupForms \union ScalarMulAddRest \union MaskedProducts

Vmx ==
  UNION {LET p == IF b THEN 8 ELSE 4
             vmx(it, ops) == form(it, p, ops, "none", b)
         IN  {vmx(it, <<>>) : it \in NoOperand}
             \union {vmx(it, <<mem(8)>>) : it \in MemOperand \union {"vmptrst"}}
             \union {vmx("vmread", <<dst, gpr(12, p)>>) : dst \in {gpr(12, p), gpr(11, p), mem(p)}}
             \union {vmx("vmwrite", <<gpr(12, p), src>>) : src \in {gpr(12, p), gpr(11, p), mem(p)}}
             \union {vmx(it, <<gpr(r, p), mem(16)>>) : it \in {"invept", "invvpid"}, r \in 11..12}
         : b \in BOOLEAN}

(* The AVX instructions, in 64-bit and 32-bit binaries and with segment   *)
(* overrides where there is memory: what of them match admits.             *)
Narrow(i) == [i EXCEPT !.b64 = FALSE]
Encodable32(i) ==
  /\ i.es < 8 /\ ~Masked(i) /\ i.it \notin Gathers \union Scatters
  /\ \A n \in 1..3 : Op(i, n).k = "gpr" \/ (i.it \in IntToScalar /\ n = 3) => Op(i, n).w <= 4
Offered(forms) ==
  forms \union {Narrow(i) : i \in {j \in forms : Encodable32(j)}}
        \union {[i EXCEPT !.seg = TRUE] : i \in {j \in forms : \E n \in 1..2 : IsMem(Op(j, n))}}

(* 256 bits in a 32-bit binary that the YMM gate of match lets through.    *)
PassesYmmGate(i) ==
  /\ ~i.b64
  /\ \/ Op(i, 1).k = "k" /\ Op(i, 2).k = "ymm"
     \/ \E n \in 1..3 : IsMem(Op(i, n)) /\ Op(i, n).w = 32

(* Forms that are lifted right but for something they should clear: see    *)
(* the README.                                                             *)
KeptMasks  == {i \in Gathered \union Scattered : i.it \in Gathers \/ Masked(i)}
KeptRests  == {i \in ScalarForms : i.it # "vmovsh" /\ IsMem(Op(i, 2)) /\ ~Masked(i)}
NarrowResults ==
  {i \in TransferStores \union MaskMoves : Op(i, 1).k = "gpr" /\ i.it \in {"vmovw", "kmovb", "kmovw"}}
Uncleared == KeptMasks \union KeptRests \union NarrowResults

Admitted(forms) == {i \in Offered(forms) : match(i) /\ ~PassesYmmGate(i)}
AvxForms ==
  ScalarForms \union TransferLoads \union TransferStores \union WholeMoves
  \union (MathForms \ MisliftedMath) \union Packs \union Gathered \union Scattered
  \union MaskInsns \union Others
  \union ((LogicLike \union ShuffleLike \union ConvertLike) \ MisliftedLogic)
AvxInsns  == Admitted(AvxForms \ Uncleared)
LiftInsns == AvxInsns \union Vmx

(* Zeroing changes arguments only, not what may fail.                      *)
NotZeroing ==
  {i \in LiftInsns \union Admitted(Uncleared) \union MisliftedMath \union MisliftedLogic : i.mask # "zero"}
ExhaustedInsns ==
  NotZeroing \union UncheckedStores \union UncheckedSources \union UncheckedResults
  \union MaskConsumers \union MaskPairs

NarrowMaskStores == StoreMoves(16, 8, {"merge"}) \union StoreMoves(32, 4, {"merge"})
NarrowlyMasked   == NarrowMaskStores \union NarrowMaskCompares \union MaskedProducts

(* Forms that match admits and that a run with any of these sets as its    *)
(* Insns shows to be mislifted: see the README.                            *)
XmmIndexed ==
  {gather2("vgatherqps", 4, 16, 16, d, TRUE) : d \in BOOLEAN}
  \union {gather2("vpgatherqd", 4, 16, 16, FALSE, TRUE), scatter512("vscatterqps", 4, 16, 16, FALSE, 1)}
HalfIndexed       == {gather512("vgatherdpd", 8, 64, 32, FALSE), gather512("vpgatherdq", 8, 64, 32, TRUE)}
DisplacedGather32 == {gather2("vpgatherdd", 4, 16, 16, TRUE, FALSE)}
GlobalStores      == StoreMoves(32, 4, {"none"})
=============================================================================
