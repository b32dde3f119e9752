------------------------------- MODULE AvxIsa -------------------------------
(***************************************************************************)
(* What the decoder hands to the lifter and what the processor promises:   *)
(* the instruction forms, the architectural state they act on, and the     *)
(* result an instruction must leave there. The lifter's code is not here;  *)
(* this is the specification that the code it emits is compared with.      *)
(*                                                                         *)
(* An instruction i is [it: mnemonic, ops: its operands, mask: the EVEX    *)
(* opmask ("none", "merge" or "zero"), es: element size in bytes, b64: the *)
(* binary is 64-bit, seg: there is an fs or gs override, ret: the previous *)
(* instruction is a call of a function that uses ZMM registers, evexb:     *)
(* EVEX.b, an embedded broadcast or rounding]. An operand is [k: its kind, *)
(* r: the register, w: its size in bytes, glob: a direct memory reference  *)
(* (o_mem), disp: there is a displacement]. A memory operand's r is its    *)
(* base register; an immediate has kind "imm".                             *)
(*                                                                         *)
(* Contents are symbolic. A value is cut into four lanes: e is the first   *)
(* element, x the rest of the low 16 bytes, y bytes 16 to 31 and z the     *)
(* rest; a lane holds a term that says where its contents came from. In a  *)
(* general register x is what lies above the element.                      *)
(***************************************************************************)
EXTENDS Naturals, Sequences, FiniteSets

Lanes == {"e", "x", "y", "z"}

(* The lanes a read or write of w bytes covers, for elements of es bytes.  *)
Covers(w, es) ==
  (IF w >= es  THEN {"e"} ELSE {}) \union (IF w >= 16 THEN {"x"} ELSE {}) \union
  (IF w >= 32  THEN {"y"} ELSE {}) \union (IF w >= 64 THEN {"z"} ELSE {})

Junk == <<"junk">>
Zero == <<"zero">>
JunkVal      == [l \in Lanes |-> Junk]
AddrVal(n)   == [JunkVal EXCEPT !["e"] = <<"addr", n>>]
ResVal(args) == [l \in Lanes |-> <<"res", args, l>>]
NoArgs       == <<"res", <<>>, "e">>

(* Locations. A vector register has two views: v, the low 32 bytes that    *)
(* Hex-Rays knows, and z, all 64 of them, which only the helper calls      *)
(* __readzmm and __writezmm reach. g are general registers, k opmasks, f   *)
(* the flags (ZF in lane e, CF in x, the others in y), m the memory        *)
(* operand, fx the side effect of a call that returns nothing.             *)
VecRegs  == 1..3
GprRegs  == 11..12
MaskRegs == 21..22
Locs == ({"v", "z"} \X VecRegs) \union ({"g"} \X GprRegs)
        \union ({"k"} \X MaskRegs) \union {<<"f", 0>>, <<"m", 0>>, <<"fx", 0>>}

OldVal(loc) == [l \in Lanes |-> <<"old", loc, l>>]
OldArch     == [loc \in Locs |-> OldVal(loc)]

----------------------------------------------------------------------------
Op(i, n)     == IF n \in DOMAIN i.ops THEN i.ops[n]
                ELSE [k |-> "void", r |-> 0, w |-> 0, glob |-> FALSE, disp |-> FALSE]
IsMem(op)    == op.k = "mem"
IsXmm(op)    == op.k = "xmm"
IsVec(op)    == op.k \in {"xmm", "ymm", "zmm"}
Masked(i)    == i.mask # "none"
PtrSize(i)   == IF i.b64 THEN 8 ELSE 4

(* The view that holds what the program last put into an operand.          *)
Loc(op) ==
  CASE op.k = "zmm"            -> <<"z", op.r>>
    [] op.k \in {"xmm", "ymm"} -> <<"v", op.r>>
    [] op.k = "gpr"            -> <<"g", op.r>>
    [] op.k = "k"              -> <<"k", op.r>>
    [] OTHER                   -> <<"m", 0>>

(* Opmask instructions: results in an opmask, moves from an opmask to a    *)
(* vector, and the operations on opmasks only.                             *)
CompareToMask == {"vcmpps", "vcmpss", "vcmpsd", "vpcmpub", "vpcmpd"}
TestToMask    == {"vptestmd", "vptestnmb", "vpshufbitqmb"}
ClassToMask   == {"vfpclassps", "vfpclasspd", "vfpclassss"}
SignsToMask   == {"vpmovb2m", "vpmovd2m"}
Intersects    == {"vp2intersectd", "vp2intersectq"}
MaskToVec     == {"vpmovm2b", "vpmovm2d", "vpbroadcastmb2q", "vpbroadcastmw2d"}
Kmovs         == {"kmovb", "kmovw", "kmovd", "kmovq"}
UnaryMaskOps  == {"knotw", "kshiftlw", "kshiftrd"}
BinaryMaskOps == {"kandb", "kandnw", "kxorq", "kunpckbw"}
MaskTests     == {"kortestw", "ktestb"}
ScalarToMask  == {"vcmpss", "vcmpsd", "vfpclassss"}
NarrowMaskInsns == Kmovs \union UnaryMaskOps \union BinaryMaskOps \union MaskTests

ScalarMoves == {"vmovss", "vmovsd", "vmovsh"}
Transfers   == {"vmovd", "vmovq", "vmovw"}
WholeMoveInsns == {"vmovups", "vmovupd", "vmovdqu", "vmovdqu8", "vmovdqu64"}
PackInsns      == {"vcompressps", "vpcompressw", "vexpandps", "vpexpandw"}

(* Logic, shuffles, permutations and conversions, by operands: one, two,   *)
(* three of which the last is a selector or an immediate; the old          *)
(* destination is an operand of the accumulating ones and of table lookups.*)
LogicUnary   == {"vpconflictd", "vpopcntb", "vplzcntq", "vmovshdup", "vmovsldup", "vmovddup",
                 "vphminposuw", "vexp2ps", "vmovmskps", "vpmovmskb", "vbroadcastf32x4", "vbroadcasti64x4",
                 "vbroadcasti128"}
LogicBinary  == {"vpand", "vpsllw", "vpsllvd", "vprold", "vprolvq", "vpmultishiftqb", "vpshufd", "vpshufb",
                 "vpermq", "vpermd", "vpermilps", "vpermpd", "vpermw", "vgf2p8mulb", "vaesenc", "vcmpeqps",
                 "vpcmpeqd", "vunpckhps", "vphsubw", "vpackssdw", "vpunpcklbw", "vpslldq", "vmovlhps",
                 "vmovhlps", "vextractf128", "vextracti64x4", "vextractps"}
LogicTernary == {"vshufps", "vshufpd", "vshuff32x4", "vpalignr", "valignd", "vblendps", "vblendvps",
                 "vpblendw", "vpblendvb", "vperm2f128", "vpclmulqdq", "vgf2p8affineqb", "vpshldw",
                 "vinsertf128", "vinserti64x4", "vpinsrb", "vpinsrd", "vinsertps"}
LogicAccumulating == {"vpshrdvd", "vpermt2d", "v4fmaddps", "v4fmaddss"}
HalfMoves    == {"vmovlps", "vmovhpd"}
Hashes       == {"sha1msg1", "sha256rnds2", "sha1rnds4"}
Broadcasts   == {"vbroadcastss", "vbroadcastsd", "vpbroadcastd", "vpbroadcastw", "vbroadcastf32x2"}
MaskBlends   == {"vblendmps", "vpblendmb"}
AddSub132    == {"vfmaddsub132ps"}
AddSub213    == {"vfmaddsub213pd"}
AddSub231    == {"vfmsubadd231ph"}
Extends      == {"vpmovsxbw", "vpmovzxwd", "vcvtps2pd", "vcvtdq2pd", "vcvtudq2pd", "vcvtps2qq", "vcvtph2dq"}
Narrows      == {"vpmovwb", "vpmovdb", "vpmovqd", "vcvtpd2ps", "vcvtpd2dq", "vcvtpd2udq", "vcvtqq2ps", "vcvtdq2ph",
                 "vcvtps2ph"}
Converts     == {"vcvtdq2ps", "vcvtps2dq", "vcvttps2udq", "vcvtudq2ps", "vcvtpd2qq", "vcvtqq2pd", "vcvtw2ph"}
Selective    == {"vmaskmovps", "vpmaskmovd"}
NonTemporal  == {"vmovntps", "vmovntdqa"}
CacheControl == {"clflushopt", "clwb"}
Clears       == {"vzeroupper", "vzeroall"}
VectorTests  == {"vptest", "vtestps", "vcomish"}
FlagTests    == VectorTests \union MaskTests
CsrMoves     == {"vldmxcsr", "vstmxcsr"}

(* Conversions of a scalar: to a general register, and to the first        *)
(* element of an XMM destination whose rest is from operand 2.             *)
ScalarToGpr   == {"vcvtsh2si", "vcvttsd2usi"}
IntToScalar   == {"vcvtsi2ss", "vcvtsi2sd", "vcvtusi2sd", "vcvtsi2sh"}
ScalarConvert == IntToScalar \union {"vcvtss2sd", "vcvtsd2ss", "vcvtsd2sh", "vcvtsh2ss"}
ScalarLogic   == {"vcmpeqss", "vrcp28ss"}

(* Arithmetic, by operands. A scalar instruction computes the first        *)
(* element; the rest of its XMM destination comes from operand 2, of a     *)
(* multiply-add from the destination itself.                               *)
PackedUnary   == {"vpabsd", "vsqrtps", "vsqrtph", "vrcp14ps", "vgetexppd", "vcvtneps2bf16"}
PackedUnaryImm == {"vroundps", "vrndscaleph", "vgetmantps", "vreducepd"}
WideProducts  == {"vpmuldq", "vpmaddwd", "vpmaddubsw"}
PackedBinary  == {"vpsubb", "vpsubw", "vsubps", "vsubpd", "vsubph", "vpsignw", "vhaddps", "vaddsubps",
                  "vpsadbw", "vscalefps", "vcvtne2ps2bf16", "vfmulcph"} \union WideProducts
PackedBinaryImm == {"vdpps", "vmpsadbw", "vrangepd"}
Accumulating  == {"vpmadd52luq", "vpdpbusd", "vdpbf16ps"}
Fixups        == {"vfixupimmps", "vfixupimmss"}
ScalarUnary   == {"vsqrtss", "vsqrtsd"}
ScalarBinary  == {"vsubss", "vsubsd", "vsubsh", "vminsd", "vsqrtsh", "vrcpss", "vrsqrt14sd",
                  "vgetexpss", "vscalefsd", "vrcpsh", "vfmulcsh"}
ScalarBinaryImm == {"vroundsd", "vrndscaless", "vgetmantsd", "vreducess", "vrangesd", "vreducesh"}
MulAdd132     == {"vfmadd132ps", "vfmadd132sd", "vfmadd132ph", "vfmadd132sh"}
MulAdd213     == {"vfmsub213pd", "vfmadd213ss", "vfmadd213ph", "vfmadd213sh"}
MulAdd231     == {"vfnmadd231ps", "vfmadd231sd", "vfmsub231ph", "vfmadd231sh"}
ComplexMulAdd == {"vfmaddcph", "vfmaddcsh"}

MulAdds       == MulAdd132 \union MulAdd213 \union MulAdd231
ScalarMulAdds == {"vfmadd132sd", "vfmadd132sh", "vfmadd213ss", "vfmadd213sh", "vfmadd231sd",
                  "vfmadd231sh", "vfmaddcsh"}
ScalarMath    == ScalarUnary \union ScalarBinary \union ScalarBinaryImm \union ScalarMulAdds
                 \union {"vfixupimmss"}
MathInsns     == PackedUnary \union PackedUnaryImm \union PackedBinary \union PackedBinaryImm
                 \union Accumulating \union Fixups \union MulAdds \union ComplexMulAdd \union ScalarMath

(* VMX instructions: all but vmread to a register act only outside. A call *)
(* is one of a function that uses ZMM registers.                           *)
VmxInsns == {"vmxoff", "vmcall", "vmlaunch", "vmresume", "vmfunc", "vmxon", "vmptrld",
             "vmclear", "vmptrst", "vmread", "vmwrite", "invept", "invvpid"}
OnlyEffect(i) ==
  /\ i.it \in VmxInsns \union CacheControl \union {"call", "vldmxcsr"}
  /\ ~(i.it = "vmread" /\ Op(i, 1).k = "gpr")

(* The bytes of the destination that the instruction defines by moving or  *)
(* computing; a register's bytes above these are cleared. A result in      *)
(* memory may be narrower than the register it is from.                    *)
Stored == Narrows \union CsrMoves \union {"vextractf128", "vextracti64x4", "vextractps"}

Width(i) ==
  IF i.it \in ScalarMoves /\ Len(i.ops) = 3 THEN 16
  ELSE IF i.it \in ScalarMoves \union Transfers \union VmxInsns
                     \union ScalarToMask \union NarrowMaskInsns THEN i.es
  ELSE IF IsVec(Op(i, 1)) \/ i.it \in Stored THEN Op(i, 1).w ELSE Op(i, 2).w

Gathers  == {"vpgatherdd", "vgatherdps", "vpgatherqd", "vgatherqps",
             "vpgatherdq", "vgatherdpd", "vpgatherqq", "vgatherqpd"}
Scatters == {"vpscatterdd", "vscatterdps", "vpscatterqd", "vscatterqps",
             "vpscatterdq", "vscatterdpd", "vpscatterqq", "vscatterqpd"}

(* What the encodings of three mnemonics guarantee: a gather cannot be     *)
(* zero-masked, vldmxcsr reads memory, and the third operand of            *)
(* sha256rnds2 is a register.                                              *)
Encodable(i) ==
  /\ i.it \in Gathers => i.mask # "zero"
  /\ i.it = "vldmxcsr" => IsMem(Op(i, 1))
  /\ i.it = "sha256rnds2" => ~IsMem(Op(i, 3))

(* The orders in which an intrinsic may be given the operands it computes  *)
(* from; none is stated for moves, and 0 stands for zeros. An operand 3    *)
(* left out is the destination; a selective load or store blends; vpermi2  *)
(* has its index in the destination and vpermps takes it last. 132 stands  *)
(* for Op1 * Op3 + Op2, 213 for Op2 * Op1 + Op3, 231 and the complex       *)
(* multiply-adds for Op2 * Op3 + Op1; a product commutes.                  *)
Orders(i) ==
  CASE i.it \in PackedUnary \union LogicUnary \union Broadcasts \union Extends \union Narrows
               \union Converts \union ScalarToGpr -> {IF Op(i, 3).k = "imm" THEN <<2, 3>> ELSE <<2>>}
    [] i.it \in PackedBinaryImm \union ScalarBinaryImm \union LogicTernary -> {<<2, 3, 4>>}
    [] i.it \in Accumulating \union LogicAccumulating -> {<<1, 2, 3>>}
    [] i.it \in Fixups \union {"vpternlogd"} -> {<<1, 2, 3, 4>>}
    [] i.it = "vpermi2w" -> {<<2, 1, 3>>}
    [] i.it = "vpermps" -> {<<3, 2>>}
    [] i.it = "vbroadcastf128" -> {<<2, 2>>}
    [] i.it \in VectorTests \union MaskTests -> {<<1, 2>>}
    [] i.it \in Hashes \union HalfMoves ->
         {IF IsMem(Op(i, 1)) THEN <<1, 2>>
          ELSE IF i.it \in HalfMoves THEN <<2, 3>> ELSE [n \in 1..Len(i.ops) |-> n]}
    [] i.it \in MaskBlends -> {IF i.mask = "zero" THEN <<3>> ELSE <<2, 3>>}
    [] i.it = "vmaskmovps" -> {IF IsMem(Op(i, 1)) THEN <<1, 3, 2>> ELSE <<0, 3, 2>>}
    [] i.it = "vpmaskmovd" -> {IF IsMem(Op(i, 1)) THEN <<1, 2, 3>> ELSE <<3, 2>>}
    [] i.it = "vstmxcsr" -> {<<>>}
    [] i.it \in ScalarUnary -> {<<3>>}
    [] i.it \in MulAdd132 \union AddSub132 -> {<<1, 3, 2>>, <<3, 1, 2>>}
    [] i.it \in MulAdd213 \union AddSub213 -> {<<2, 1, 3>>, <<1, 2, 3>>}
    [] i.it \in MulAdd231 \union AddSub231 \union ComplexMulAdd -> {<<2, 3, 1>>, <<3, 2, 1>>}
    [] i.it \in ScalarBinary -> {IF Len(i.ops) = 2 THEN <<2, 1>> ELSE <<2, 3>>}
    [] i.it \in ScalarConvert -> {<<3>>, <<2, 3>>}
    [] i.it \in PackedBinary \union PackedUnaryImm \union LogicBinary
                \union ScalarLogic \union CompareToMask \union TestToMask \union BinaryMaskOps -> {<<2, 3>>}
    [] OTHER -> {}
Ordered(i) == Orders(i) # {}

(* Operand n as an instruction with an order consumes it: its first        *)
(* element, or all of it. An extension to an XMM register has no more than *)
(* the low half of its source.                                             *)
Scalars == ScalarMath \union ScalarConvert \union ScalarLogic \union {"v4fmaddss"}
Consumed(i, n) ==
  IF \/ i.it \in Scalars \union ScalarToMask \union ScalarToGpr \union BinaryMaskOps \union MaskTests
                 \union Broadcasts \union {"vcomish"}
     \/ i.it \in Extends /\ IsXmm(Op(i, 1))
  THEN {"e"} ELSE Covers(Op(i, n).w, i.es)

(* Regular instructions: arithmetic, most of logic, results in opmasks,    *)
(* and moves that change neither the size nor the number of elements.      *)
RegularLogic ==
  {"vpand", "vpopcntb", "vplzcntq", "vpconflictd", "vgf2p8affineqb", "vgf2p8mulb", "vpclmulqdq",
   "vaesenc", "vpsllvd", "vprold", "vprolvq", "vpshldw", "vpshrdvd", "vpmultishiftqb", "vexp2ps",
   "vrcp28ss", "vcmpeqps", "vcmpeqss", "vpcmpeqd", "vblendvps", "vblendps", "vpblendw", "vpblendvb",
   "vphminposuw", "vpternlogd", "vphsubw", "vpackssdw", "vpslldq", "vpshufd", "vpshufb",
   "vshuff32x4", "vpermq", "vpermd", "vpermps", "vpermilps", "vpalignr", "valignd", "vshufps",
   "vshufpd", "vpermpd", "vmovlhps", "vmovhlps", "vmovshdup", "vmovsldup", "vmovddup", "vunpckhps",
   "vpunpcklbw", "vperm2f128", "vpermw", "vpermi2w", "vpermt2d"}
  \union Hashes \union MaskBlends \union AddSub132 \union AddSub213 \union AddSub231
IntoMask == CompareToMask \union TestToMask \union ClassToMask \union SignsToMask \union Intersects
RegularInsns ==
  MathInsns \union RegularLogic \union ScalarMoves \union Transfers \union WholeMoveInsns
  \union PackInsns \union IntoMask \union MaskToVec \union NarrowMaskInsns

(* Their vector operands are all ZMM registers or none of them is.         *)
Wide(i)    == \E n \in DOMAIN i.ops : Op(i, n).k = "zmm"
OneView(i) == \A n \in DOMAIN i.ops : IsVec(Op(i, n)) => (Op(i, n).k = "zmm" <=> Wide(i))

(* What the encodings guarantee of their operands. A register has the size *)
(* of its kind, scalar instructions have XMM registers, opmask moves and   *)
(* operations no vector registers.                                         *)
Decoded(i) ==
  /\ {"it", "ops", "mask", "es", "ret"} \subseteq DOMAIN i
  /\ i.es \in 1..8
  /\ \A n \in DOMAIN i.ops : IsVec(Op(i, n)) =>
       /\ Op(i, n).r \in VecRegs
       /\ Op(i, n).w = IF Op(i, n).k = "zmm" THEN 64 ELSE IF Op(i, n).k = "ymm" THEN 32 ELSE 16
  /\ i.it \in MathInsns \union RegularLogic =>
       IsVec(Op(i, 1)) /\ (IsVec(Op(i, 2)) \/ IsMem(Op(i, 2)))
  /\ i.it \in Scalars \union ScalarMoves =>
       IsXmm(Op(i, 1)) \/ (IsMem(Op(i, 1)) /\ IsXmm(Op(i, 2)) /\ Op(i, 3).k = "void")
  /\ i.it \in ScalarMoves => (Len(i.ops) = 3 <=> Op(i, 3).k # "void")
  /\ i.it \in Transfers => IsXmm(Op(i, 1)) \/ ~IsVec(Op(i, 1))
  /\ i.it \in {"vexpandps", "vpexpandw"} => IsVec(Op(i, 1))
  /\ i.it \in IntoMask => ~IsVec(Op(i, 1)) /\ (IsVec(Op(i, 2)) \/ IsMem(Op(i, 2)))
  /\ i.it \in IntoMask \ ClassToMask => IsVec(Op(i, 2))
  /\ i.it \in ScalarToMask => ~Wide(i)
  /\ i.it \in MaskToVec => IsVec(Op(i, 1))
  /\ i.it \in NarrowMaskInsns => \A n \in DOMAIN i.ops : ~IsVec(Op(i, n))

(* What they guarantee of memory and general registers. One operand at     *)
(* most is in memory, and as wide as what is read of it; a general         *)
(* register is a source of few; the instructions of two sources have the   *)
(* first in a vector register, if the second is no immediate.              *)
FromGpr == Kmovs \union Transfers \union VmxInsns \union IntToScalar
           \union {"vpinsrb", "vpinsrd", "vpbroadcastd"}
VecFirst == LogicAccumulating \union ScalarConvert \union Extends \union Broadcasts \union Gathers
            \union VectorTests \union {"vpsllw"}
WithImm  == {"vpsllw", "vprold", "vpslldq", "vpshufd", "vpermq", "vpermilps", "vpermpd"}
VecSecond ==
  (MathInsns \ (PackedUnary \union PackedUnaryImm)) \union (LogicBinary \ WithImm)
  \union LogicTernary \union LogicAccumulating \union MaskBlends \union ScalarLogic
  \union AddSub132 \union AddSub213 \union AddSub231 \union ScalarConvert
  \union {"vpternlogd", "vpermi2w", "vpermps", "vmovmskps", "vpmovmskb", "vpmovwb", "vpmovdb", "vpmovqd"}

BytesRead(i) ==
  IF i.it \in {"vsqrtss", "vcvtss2sd", "vinsertps", "vldmxcsr"} THEN 4
  ELSE IF i.it \in {"vsqrtsd", "vcvtsd2ss", "vmwrite"} \union HalfMoves THEN 8
  ELSE IF \/ i.it \in Hashes \union {"v4fmaddps", "v4fmaddss", "vbroadcastf32x4", "vbroadcastf128",
                       "vbroadcasti128", "vinsertf128", "vcvtpd2ps", "vcvtpd2dq", "vpclmulqdq"}
          \/ i.it = "vpsllw" /\ Op(i, 3).k # "imm"
  THEN 16
  ELSE IF i.it \in {"vbroadcasti64x4", "vinserti64x4"} THEN 32
  ELSE IF \/ i.it \in Scalars \union ScalarMoves \union Transfers \union Kmovs \union ScalarToMask
                 \union ScalarToGpr \union Broadcasts \union Gathers
                 \union {"vcomish", "vpinsrb", "vpinsrd"}
          \/ i.it = "vmovddup" /\ IsXmm(Op(i, 1))
  THEN i.es
  ELSE IF i.it \in Extends THEN Op(i, 1).w \div 2 ELSE Op(i, 1).w

Sized(i) ==
  /\ "b64" \in DOMAIN i
  /\ \A n \in DOMAIN i.ops :
       /\ Op(i, n).w \in 0..64
       /\ Op(i, n).k = "gpr" => Op(i, n).w <= 8 /\ (n = 1 \/ i.it \in FromGpr)
       /\ IsMem(Op(i, n)) =>
            /\ n <= 3 /\ \A m \in DOMAIN i.ops : IsMem(Op(i, m)) => m = n
            /\ n # 1 \/ i.it = "vldmxcsr" => BytesRead(i) <= Op(i, n).w
  /\ i.it \in VecFirst => IsVec(Op(i, 1))
  /\ i.it \in VecSecond => IsVec(Op(i, 2))
  /\ i.it \in WithImm => IsVec(Op(i, 2)) \/ (IsMem(Op(i, 2)) /\ Op(i, 3).k = "imm")
  /\ i.it \in Gathers => IsMem(Op(i, 2))
  /\ i.it \in {"vmovw", "vmovsh"} => i.es = 2

(* What any other instruction consumes: pairs of an operand and its lanes; *)
(* of a memory operand, its contents or its address. The old destination   *)
(* is an input of every merge-masked instruction and of a gather without   *)
(* opmask, which leaves masked-off elements alone; so is the address       *)
(* stored to. Operand 4 of a gather or scatter is the index vector of its  *)
(* address, read as far as there are elements to move; operand 3 of a      *)
(* gather without opmask is its mask.                                      *)
DwordIndexed == {"vpgatherdd", "vgatherdps", "vpgatherdq", "vgatherdpd",
                 "vpscatterdd", "vscatterdps", "vpscatterdq", "vscatterdpd"}
IndexLanes(i) ==
  Covers(IF i.it \in DwordIndexed THEN (4 * Width(i)) \div i.es ELSE Op(i, 4).w, i.es)

Inputs(i) ==
  LET w == Covers(Width(i), i.es)
      data == CASE i.it \in ScalarMoves /\ Len(i.ops) = 3 ->
                     {<<2, {"x"}>>, <<3, {"e"}>>}
                [] i.it \in Gathers ->
                     {<<2, {}>>, <<4, IndexLanes(i)>>}
                     \union (IF Masked(i) THEN {} ELSE {<<1, w>>, <<3, w>>})
                [] i.it \in Scatters -> {<<2, w>>, <<4, IndexLanes(i)>>}
                [] i.it \in {"vmwrite", "invept", "invvpid"} ->
                     {<<1, w>>, <<2, IF i.it = "vmwrite" THEN w ELSE {}>>}
                [] i.it \in (VmxInsns \ {"vmread", "vmwrite", "invept", "invvpid"})
                            \union CacheControl \union {"call"} -> {}
                [] i.it = "vldmxcsr" -> {<<1, {"e"}>>}
                [] i.it \in Intersects -> {<<2, w>>, <<3, w>>}
                [] i.it \in UnaryMaskOps \union Kmovs \union MaskToVec -> {<<2, {"e"}>>}
                [] OTHER -> {<<2, w>>}
  IN  data \union (IF i.mask = "merge" /\ IsVec(Op(i, 1)) THEN {<<1, w>>} ELSE {})
           \union (IF IsMem(Op(i, 1)) /\ i.it # "vldmxcsr" THEN {<<1, {}>>} ELSE {})

(* The elements an opmask selects from, and the bytes of an opmask type.   *)
Elements(i) ==
  IF i.it \in ScalarMoves \union ScalarToMask \union Scalars \union {"vmovw"} THEN 1
  ELSE IF i.it = "vpshufbitqmb" THEN Width(i)
  ELSE IF i.it \in {"vpbroadcastmb2q", "vpbroadcastmw2d"} THEN IF i.es = 8 THEN 8 ELSE 16
  ELSE Width(i) \div i.es
MaskSize(n)    == IF n <= 8 THEN 1 ELSE IF n <= 16 THEN 2 ELSE IF n <= 32 THEN 4 ELSE 8

----------------------------------------------------------------------------
(* The address of operand n: the term of load_effective_address, or the    *)
(* base register, plus the displacement when there is one.                 *)
IsAddress(i, n, t) ==
  LET base == <<"old", <<"g", Op(i, n).r>>, "e">>
  IN  \/ t = <<"addr", n>>
      \/ ~Op(i, n).disp /\ t = base
      \/ Op(i, n).disp /\ t[1] = "res" /\ Len(t[2]) = 1 /\ t[2][1].val["e"] = base

(* A function that uses ZMM registers returns a float in the state behind  *)
(* __readzmm.                                                              *)
Source(i, n) ==
  IF i.ret /\ n = 3 /\ i.it = "vcvtss2sd" /\ IsXmm(Op(i, 3)) THEN <<"z", Op(i, 3).r>> ELSE Loc(Op(i, n))

(* arg carries lanes of operand n as they were when the instruction        *)
(* started; an immediate has no lanes. Given more quadword indices, a      *)
(* gather or scatter moves more elements.                                  *)
Carries(i, n, lanes, arg) ==
  CASE IsMem(Op(i, n)) ->
         \/ IsAddress(i, n, arg.val["e"])
         \/ lanes # {} /\ \A l \in lanes : arg.val[l] = OldArch[<<"m", 0>>][l]
    [] Op(i, n).k = "imm" -> arg.val["e"] = <<"imm", n>>
    [] OTHER -> \A l \in lanes : arg.val[l] = OldArch[Source(i, n)][l]
IsInput(i, in, arg) ==
  /\ Carries(i, in[1], in[2], arg)
  /\ i.it \in (Gathers \union Scatters) \ DwordIndexed /\ in[1] = 4 =>
       \A l \in Lanes \ in[2] : arg.val[l] = Junk

(* A call was given everything the instruction consumes and nothing else   *)
(* but zeros.                                                              *)
GivenAll(i, args) ==
  /\ \A in \in Inputs(i) : \E j \in DOMAIN args : IsInput(i, in, args[j])
  /\ \A j \in DOMAIN args :
       \/ args[j].mask > 0
       \/ \E in \in Inputs(i) : IsInput(i, in, args[j])
       \/ args[j].val["e"] = NoArgs

(* In order: the old destination for what a merging opmask leaves out,     *)
(* then the operands. An accumulating instruction has it among them, and a *)
(* blend takes the opmask as a selector. A narrowing intrinsic defines     *)
(* more than the instruction when it is given more.                        *)
Merges(i)     == i.mask = "merge" /\ IsVec(Op(i, 1)) /\ i.it \notin MaskBlends
HasOldAlready == Accumulating \union LogicAccumulating \union Fixups \union {"vpermi2w"}

CarriesInOrder(i, n, arg) ==
  IF n = 0 THEN arg.val["e"] = NoArgs
  ELSE /\ Carries(i, n, Consumed(i, n), arg)
       /\ i.it \in Narrows /\ IsVec(Op(i, n)) =>
            \A l \in Lanes \ Consumed(i, n) : arg.val[l] = Junk

(* What an opmask leaves out comes from the argument before it.            *)
KeepsOld(i, args) ==
  \E j \in 1..Len(args) - 1 :
    args[j + 1].mask > 0 /\ args[j].mask = 0 /\ Carries(i, 1, Consumed(i, 1), args[j])

GivenInOrder(i, args) ==
  \E order \in Orders(i) :
    LET want == IF Merges(i) /\ i.it \notin HasOldAlready THEN <<1>> \o order ELSE order
        got  == SelectSeq(args, LAMBDA arg : arg.mask = 0)
    IN  /\ Len(got) = Len(want)
        /\ \A j \in DOMAIN want : CarriesInOrder(i, want[j], got[j])
        /\ Merges(i) => KeepsOld(i, args)

ArgsRight(i, args) ==
  /\ Masked(i) <=> \E j \in DOMAIN args : args[j].mask > 0
  /\ IF Ordered(i) THEN GivenInOrder(i, args) ELSE GivenAll(i, args)

(* A scalar load or transfer clears the rest of its XMM register, and an   *)
(* instruction with less than 32 bits for a general register those above.  *)
ScalarLoad(i) == i.it \in ScalarMoves \union Transfers /\ IsXmm(Op(i, 1)) /\ Len(i.ops) = 2
RestCleared(i) ==
  IF ScalarLoad(i) \/ (Op(i, 1).k = "gpr" /\ i.es < 4) THEN {"x"} ELSE {}

(* The lanes of its destination that an instruction defines.               *)
DstLanes(i) ==
  IF i.it \in FlagTests THEN {"e", "x"}
  ELSE IF Op(i, 1).k \in {"gpr", "k"} THEN {"e"} \union RestCleared(i)
  ELSE Covers(Width(i), i.es) \union RestCleared(i)

(* The operand that lane x of a scalar instruction's destination is from.  *)
ScalarDst(i) == (i.it \in ScalarMoves /\ Len(i.ops) = 3) \/ i.it \in Scalars
RestFrom(i)  == IF i.it \in (ScalarMulAdds \ ComplexMulAdd) \union {"v4fmaddss"} THEN 1 ELSE 2

(* Lane l of the destination ends as the instruction promises.             *)
LaneRight(i, l, t) ==
  IF ScalarDst(i) /\ l = "x" THEN t = OldArch[Loc(Op(i, RestFrom(i)))][l]
  ELSE \/ l \in RestCleared(i) /\ t = Zero
       \/ /\ ~Masked(i) /\ ~Ordered(i)
          /\ \E in \in Inputs(i) : l \in in[2] /\ t = OldArch[Loc(Op(i, in[1]))][l]
       \/ t[1] = "res" /\ t[3] = l /\ ArgsRight(i, t[2])

(* A computed value, stored to the memory operand by a call.               *)
StoresResult(i, args) ==
  /\ Len(args) = 2 /\ IsAddress(i, 1, args[1].val["e"])
  /\ \A l \in DstLanes(i) : LaneRight(i, l, args[2].val[l])

(* Where the result goes: the pair of opmasks of vp2intersect, the flags.  *)
Dsts(i) ==
  IF i.it \in FlagTests THEN {<<"f", 0>>}
  ELSE {Loc(Op(i, 1))} \union (IF i.it \in Intersects THEN {<<"k", Op(i, 1).r + 1>>} ELSE {})

(* vzeroupper and vzeroall clear registers, as far as the views go.        *)
Cleared(i, arch) ==
  \A r \in VecRegs : \A l \in IF i.it = "vzeroall" THEN Lanes ELSE {"y", "z"} :
    arch[<<"z", r>>][l] = Zero /\ (l # "z" => arch[<<"v", r>>][l] = Zero)

(* Some instructions act through a call only: outside, or on the memory    *)
(* operand when the microcode stores to it by one.                         *)
ByCall(i, arch) == OnlyEffect(i) \/ (IsMem(Op(i, 1)) /\ arch[<<"fx", 0>>]["e"][1] = "res")

ResultRight(i, arch) ==
  LET fx == arch[<<"fx", 0>>]["e"]
  IN  IF i.it \in Clears THEN Cleared(i, arch)
      ELSE IF ByCall(i, arch) THEN fx[1] = "res" /\ (ArgsRight(i, fx[2]) \/ StoresResult(i, fx[2]))
      ELSE /\ \A dst \in Dsts(i) : \A l \in DstLanes(i) : LaneRight(i, l, arch[dst][l])
           /\ i.it \in FlagTests => arch[<<"f", 0>>]["y"] = Zero

(* What it changes. The processor clears the mask of a gather or scatter   *)
(* element by element: operand 3, or the opmask, which is operand 6.       *)
Results(i, arch) ==
  IF i.it \in Clears THEN {"v", "z"} \X VecRegs
  ELSE IF ByCall(i, arch) THEN {<<"fx", 0>>} ELSE Dsts(i)
MaskOp(i)  == Op(i, IF Masked(i) THEN 6 ELSE 3)
ClearedMasks(i) == IF i.it \in Gathers \union Scatters THEN {Loc(MaskOp(i))} ELSE {}
MaskCleared(i, arch) ==
  \A loc \in ClearedMasks(i) : \A l \in Covers(MaskOp(i).w, i.es) : arch[loc][l] = Zero

(* The lanes that the instruction computes are right, in the destination   *)
(* or in the call, and no other location has changed but the mask of a     *)
(* gather or scatter; which is cleared. Nothing is said of the bytes above *)
(* a vector destination and above 32 bits of a general register.           *)
PromisedButMask(i, arch) ==
  /\ ResultRight(i, arch)
  /\ \A loc \in Locs \ (Results(i, arch) \union ClearedMasks(i)) : arch[loc] = OldVal(loc)
Promised(i, arch) == PromisedButMask(i, arch) /\ MaskCleared(i, arch)
=============================================================================
