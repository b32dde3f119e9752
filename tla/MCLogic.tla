------------------------------- MODULE MCLogic -------------------------------
(* Operands for TLC, and the forms of the logic, shuffle and conversion    *)
(* instructions that MCCodegen offers to the lifter.                       *)
EXTENDS AvxLifter

(* Operands.                                                               *)
xmm(r) == [k |-> "xmm", r |-> r, w |-> 16, glob |-> FALSE, disp |-> FALSE]
ymm(r) == [k |-> "ymm", r |-> r, w |-> 32, glob |-> FALSE, disp |-> FALSE]
zmm(r) == [k |-> "zmm", r |-> r, w |-> 64, glob |-> FALSE, disp |-> FALSE]
gpr(r, w) == [k |-> "gpr", r |-> r, w |-> w, glob |-> FALSE, disp |-> FALSE]
void == [k |-> "void", r |-> 0, w |-> 0, glob |-> FALSE, disp |-> FALSE]
kreg(r) == [k |-> "k", r |-> r, w |-> 8, glob |-> FALSE, disp |-> FALSE]
mem(w) == [k |-> "mem", r |-> 11, w |-> w, glob |-> FALSE, disp |-> FALSE]
imm == [k |-> "imm", r |-> 0, w |-> 1, glob |-> FALSE, disp |-> FALSE]
global(w) == [mem(w) EXCEPT !.glob = TRUE]
vsib(w, d) == [mem(w) EXCEPT !.disp = d]

form(it, es, ops, m, b64) ==
  [it |-> it, es |-> es, ops |-> ops, mask |-> m, b64 |-> b64, seg |-> FALSE, ret |-> FALSE,
   evexb |-> FALSE]
vec(w, r) == CASE w = 16 -> xmm(r) [] w = 32 -> ymm(r) [] OTHER -> zmm(r)

AnyMask == {"none", "merge", "zero"}
Widths  == {16, 32, 64}
Ymms    == {16, 32}

(* One, two and three sources of the width of the destination; source 3    *)
(* may be the destination.                                                 *)
unary(it, es, ws, tail) ==
  UNION {{form(it, es, <<vec(w, 1), src>> \o tail, m, TRUE) :
            src \in {vec(w, 1), vec(w, 2), mem(w)}, m \in AnyMask} : w \in ws}
binary(it, es, ws, tail) ==
  UNION {{form(it, es, <<vec(w, 1), vec(w, 2), src>> \o tail, m, TRUE) :
            src \in {vec(w, 1), vec(w, 3), mem(w)}, m \in AnyMask} : w \in ws}
plain(forms) == {i \in forms : i.mask = "none"}

(* A source of another width: dst <- src, in memory or a register.         *)
resize(it, es, dst, src, memsize, tail) ==
  {form(it, es, <<dst, s>> \o tail, "none", TRUE) : s \in {src, mem(memsize)}}
extend(it, es) ==
  resize(it, es, xmm(1), xmm(2), 8, <<>>) \union resize(it, es, ymm(1), xmm(2), 16, <<>>)
  \union resize(it, es, zmm(1), ymm(2), 32, <<>>)
narrow(it, es) ==
  resize(it, es, xmm(1), xmm(2), 16, <<>>) \union resize(it, es, xmm(1), ymm(2), 32, <<>>)
  \union resize(it, es, ymm(1), zmm(2), 64, <<>>)
toMem(it, es, tail) == {form(it, es, <<mem(w \div 2), vec(w, 2)>> \o tail, "none", TRUE) : w \in Widths}

LogicForms ==
  binary("vpand", 4, Widths, <<>>) \union binary("vpsllvd", 4, Widths, <<>>)
  \union binary("vprolvq", 8, Widths, <<>>) \union binary("vpmultishiftqb", 1, Widths, <<>>)
  \union unary("vpsllw", 2, Widths, <<imm>>) \union unary("vprold", 4, Widths, <<imm>>)
  \union {form("vpsllw", 2, <<vec(w, 1), vec(w, 2), src>>, m, TRUE) :
             w \in Widths, src \in {xmm(1), xmm(3), mem(16)}, m \in AnyMask}
  \union plain(unary("vpslldq", 1, Widths, <<imm>>))
  \union binary("vpshldw", 2, Widths, <<imm>>) \union binary("vpshrdvd", 4, Widths, <<>>)
  \union binary("vpternlogd", 4, Widths, <<imm>>)
  \union unary("vpconflictd", 4, Widths, <<>>) \union unary("vpopcntb", 1, Widths, <<>>)
  \union unary("vplzcntq", 8, Widths, <<>>)
CompareForms ==
  plain(binary("vcmpeqps", 4, Ymms, <<>>)) \union plain(binary("vpcmpeqd", 4, Ymms, <<>>))
  \union {form("vcmpeqss", 4, <<xmm(1), xmm(2), src>>, "none", TRUE) : src \in {xmm(1), xmm(3), mem(4)}}
  \union plain(binary("vblendps", 4, Ymms, <<imm>>)) \union plain(binary("vpblendw", 2, Ymms, <<imm>>))
  \union UNION {{form(it, IF it = "vblendvps" THEN 4 ELSE 1, <<vec(w, 1), vec(w, 2), src, vec(w, r)>>, "none", TRUE) :
                    it \in {"vblendvps", "vpblendvb"}, src \in {vec(w, 3), mem(w)}, r \in {1, 3}} : w \in Ymms}
  \union binary("vblendmps", 4, Widths, <<>>) \union binary("vpblendmb", 1, Widths, <<>>)
TestForms ==
  UNION {{form(it, 4, <<vec(w, 1), src>>, "none", TRUE) : src \in {vec(w, 2), mem(w)}} :
           it \in {"vptest", "vtestps"}, w \in Ymms}
  \union {form("vmovmskps", 4, <<gpr(12, s), vec(w, 2)>>, "none", TRUE) : s \in {4, 8}, w \in Ymms}
  \union {form("vpmovmskb", 1, <<gpr(12, 4), vec(w, 2)>>, "none", TRUE) : w \in Ymms}
CryptoForms ==
  binary("vgf2p8mulb", 1, Widths, <<>>) \union binary("vgf2p8affineqb", 1, Widths, <<imm>>)
  \union plain(binary("vpclmulqdq", 8, Widths, <<imm>>))
  \union {form("vpclmulqdq", 8, <<vec(w, 1), vec(w, 2), mem(16), imm>>, "none", TRUE) : w \in {32, 64}}
  \union plain(binary("vaesenc", 1, Widths, <<>>))
  \union {form("sha1msg1", 4, <<xmm(1), src>>, "none", TRUE) : src \in {xmm(1), xmm(2), mem(16)}}
  \union {form("sha1rnds4", 4, <<xmm(1), src, imm>>, "none", TRUE) : src \in {xmm(1), xmm(2), mem(16)}}
  \union {form("sha256rnds2", 4, <<xmm(1), src, xmm(3)>>, "none", TRUE) : src \in {xmm(2), mem(16)}}
  \union {form(it, 1, <<src>>, "none", TRUE) : it \in CacheControl, src \in {mem(1), global(1)}}
RestForms ==
  binary("vfmaddsub132ps", 4, Widths, <<>>) \union binary("vfmaddsub213pd", 8, Widths, <<>>)
  \union binary("vfmsubadd231ph", 2, Widths, <<>>)
  \union {form("v4fmaddps", 4, <<zmm(1), zmm(2), mem(16)>>, "none", TRUE)}
  \union plain(unary("vexp2ps", 4, {64}, <<>>))
  \union {form("vrcp28ss", 4, <<xmm(1), xmm(2), src>>, "none", TRUE) : src \in {xmm(1), xmm(3), mem(4)}}
  \union plain(binary("vphsubw", 2, Ymms, <<>>)) \union plain(binary("vpackssdw", 2, Widths, <<>>))
  \union plain(unary("vphminposuw", 2, {16}, <<>>))
  \union {form("vmovntps", 4, <<global(w), vec(w, 2)>>, "none", TRUE) : w \in Widths}
  \union {form("vmovntdqa", 8, <<vec(w, 1), mem(w)>>, "none", TRUE) : w \in Ymms}
  \union UNION {{form("vpmaskmovd", 4, <<vec(w, 1), vec(w, 2), mem(w)>>, "none", TRUE),
                  form("vpmaskmovd", 4, <<mem(w), vec(w, 2), vec(w, 3)>>, "none", TRUE)} : w \in Ymms}

ShuffleForms ==
  plain(binary("vshufps", 4, Widths, <<imm>>)) \union plain(binary("vshufpd", 8, Widths, <<imm>>))
  \union unary("vpshufd", 4, Widths, <<imm>>) \union binary("vpshufb", 1, Widths, <<>>)
  \union binary("vshuff32x4", 4, {32, 64}, <<imm>>)
  \union plain(unary("vpermpd", 8, {32, 64}, <<imm>>)) \union plain(binary("vpermpd", 8, {32, 64}, <<>>))
  \union unary("vpermq", 8, {32, 64}, <<imm>>)
  \union plain(binary("vpermps", 4, {32}, <<>>)) \union binary("vpermps", 4, {64}, <<>>)
  \union unary("vpermilps", 4, Widths, <<imm>>) \union binary("vpermilps", 4, Widths, <<>>)
  \union binary("vpermw", 2, Widths, <<>>) \union binary("vpermt2d", 4, Widths, <<>>)
  \union {i \in binary("vpermi2w", 2, Widths, <<>>) : i.mask # "merge"}
  \union binary("vpalignr", 1, Widths, <<imm>>) \union binary("valignd", 4, Widths, <<imm>>)
  \union plain(binary("vperm2f128", 4, {32}, <<imm>>))
  \union plain(unary("vmovshdup", 4, Widths, <<>>)) \union plain(unary("vmovsldup", 4, Widths, <<>>))
  \union plain(unary("vmovddup", 8, {32, 64}, <<>>))
  \union {form("vmovddup", 8, <<xmm(1), src>>, "none", TRUE) : src \in {xmm(1), xmm(2), mem(8)}}
  \union plain(binary("vunpckhps", 4, Widths, <<>>)) \union plain(binary("vpunpcklbw", 1, Widths, <<>>))
PartForms ==
  {form(it, 4, <<xmm(1), xmm(2), xmm(r)>>, "none", TRUE) : it \in {"vmovlhps", "vmovhlps"}, r \in {1, 3}}
  \union {form(it, 8, <<xmm(1), xmm(2), mem(8)>>, "none", TRUE) : it \in HalfMoves}
  \union {form(it, 8, <<dst, xmm(2)>>, "none", TRUE) : it \in HalfMoves, dst \in {mem(8), global(8)}}
  \union UNION {{form("vbroadcastss", 4, <<vec(w, 1), src>>, m, TRUE) : src \in {xmm(1), xmm(2), mem(4)}} :
                   w \in Widths, m \in AnyMask}
  \union {form("vbroadcastsd", 8, <<vec(w, 1), src>>, "none", TRUE) : w \in {32, 64}, src \in {xmm(2), mem(8)}}
  \union {form("vpbroadcastd", 4, <<vec(w, 1), src>>, "none", TRUE) :
             w \in Widths, src \in {xmm(2), mem(4), gpr(12, 4)}}
  \union {form("vpbroadcastw", 2, <<vec(w, 1), src>>, "none", TRUE) : w \in Widths, src \in {xmm(2), mem(2)}}
  \union {form("vbroadcastf32x2", 4, <<vec(w, 1), src>>, "none", TRUE) : w \in {32, 64}, src \in {xmm(2), mem(8)}}
  \union {form("vbroadcastf32x4", 4, <<vec(w, 1), mem(16)>>, "none", TRUE) : w \in {32, 64}}
  \union {form("vbroadcasti64x4", 8, <<zmm(1), mem(32)>>, "none", TRUE)}
  \union {form("vextractf128", 4, <<xmm(1), ymm(2), imm>>, "none", TRUE),
          form("vextracti64x4", 8, <<ymm(1), zmm(2), imm>>, "none", TRUE)}
  \union {form("vinsertf128", 4, <<ymm(1), ymm(2), src, imm>>, "none", TRUE) : src \in {xmm(1), xmm(3), mem(16)}}
  \union {form("vinserti64x4", 8, <<zmm(1), zmm(2), src, imm>>, "none", TRUE) : src \in {ymm(3), mem(32)}}
  \union {form("vpinsrb", 1, <<xmm(1), xmm(2), src, imm>>, "none", TRUE) : src \in {gpr(12, 4), mem(1)}}
  \union {form("vpinsrd", 4, <<xmm(1), xmm(2), src, imm>>, "none", TRUE) : src \in {gpr(12, 4), mem(4)}}
  \union {form("vinsertps", 4, <<xmm(1), xmm(2), src, imm>>, "none", TRUE) : src \in {xmm(1), xmm(3), mem(4)}}
  \union {form("vextractps", 4, <<gpr(12, 4), xmm(2), imm>>, "none", TRUE)}
  \union extend("vpmovsxbw", 1) \union extend("vpmovzxwd", 2)
  \union {i \in narrow("vpmovwb", 1) \union narrow("vpmovqd", 4) : ~IsMem(Op(i, 2))}
  \union {form("vpmovdb", 1, <<xmm(1), vec(w, 2)>>, "none", TRUE) : w \in Widths}

ConversionForms ==
  UNION {plain(unary(it, 4, Widths, <<>>)) : it \in {"vcvtdq2ps", "vcvtps2dq", "vcvttps2udq", "vcvtudq2ps"}}
  \union UNION {plain(unary(it, 8, Widths, <<>>)) : it \in {"vcvtpd2qq", "vcvtqq2pd"}}
  \union plain(unary("vcvtw2ph", 2, Widths, <<>>))
  \union UNION {extend(it, 4) : it \in {"vcvtps2pd", "vcvtdq2pd", "vcvtudq2pd", "vcvtps2qq"}}
  \union extend("vcvtph2dq", 2) \union narrow("vcvtdq2ph", 2)
  \union UNION {narrow(it, 4) : it \in {"vcvtpd2ps", "vcvtpd2dq", "vcvtpd2udq", "vcvtqq2ps"}}
  \union {form("vcvtps2ph", 2, <<vec(IF w = 64 THEN 32 ELSE 16, 1), vec(w, 2), imm>>, "none", TRUE) : w \in Widths}
ScalarConversionForms ==
  {form(it, 4, <<xmm(1), xmm(a), src>>, "none", TRUE) :
     it \in {"vcvtsi2ss", "vcvtsi2sd", "vcvtusi2sd"}, a \in 1..2, src \in {gpr(12, 4), mem(4)}}
  \union {form(it, IF it = "vcvtsi2ss" THEN 4 ELSE 8, <<xmm(1), xmm(a), src>>, "none", TRUE) :
             it \in {"vcvtsi2ss", "vcvtsi2sd", "vcvtusi2sd"}, a \in 1..2, src \in {gpr(12, 8), mem(8)}}
  \union {form("vcvtsi2sh", 2, <<xmm(1), xmm(2), src>>, "none", TRUE) : src \in {gpr(12, 4), mem(8)}}
  \union {form("vcvtss2sd", 4, <<xmm(1), xmm(a), src>>, m, TRUE) :
             a \in 1..2, src \in {xmm(1), xmm(3), mem(4)}, m \in AnyMask}
  \union {form("vcvtsd2ss", 4, <<xmm(1), xmm(a), src>>, m, TRUE) :
             a \in 1..2, src \in {xmm(1), xmm(3), mem(8)}, m \in AnyMask}
  \union {[form("vcvtss2sd", 4, <<xmm(1), xmm(1), xmm(3)>>, "none", TRUE) EXCEPT !.ret = TRUE]}
  \union {form("vcvtsd2sh", 2, <<xmm(1), xmm(2), src>>, "none", TRUE) : src \in {xmm(1), xmm(3), mem(8)}}
  \union {form("vcvtsh2ss", 2, <<xmm(1), xmm(2), src>>, "none", TRUE) : src \in {xmm(1), xmm(3), mem(2)}}
  \union {form("vcvtsh2si", 2, <<gpr(12, s), src>>, "none", TRUE) : s \in {4, 8}, src \in {xmm(2), mem(2)}}
  \union {form("vcvttsd2usi", 8, <<gpr(12, s), src>>, "none", TRUE) : s \in {4, 8}, src \in {xmm(2), mem(8)}}
  \union {form("vldmxcsr", 4, <<mem(4)>>, "none", TRUE)}

LogicLike == LogicForms \union CompareForms \union TestForms \union CryptoForms \union RestForms
ShuffleLike == ShuffleForms \union PartForms
ConvertLike == ConversionForms \union ScalarConversionForms

(* What of them handlers do not lift right: see the README.                *)
HalfRead ==
  {i \in ShuffleLike : i.it \in {"vpmovsxbw", "vpmovzxwd"} /\ Op(i, 2).k = "ymm"}
  \union {i \in ConvertLike : i.it \in {"vcvtps2pd", "vcvtdq2pd"} /\ Op(i, 1).k = "zmm"}
  \union {i \in ConvertLike : i.it \in {"vcvtpd2ps", "vcvtpd2dq"} /\ Op(i, 2).w = 64}
DoubleRead == {i \in ShuffleLike : i.it = "vpmovwb" /\ Op(i, 2).k = "xmm"}
ZeroBlends == {i \in LogicLike : i.it \in MaskBlends /\ i.mask = "zero"}
RoundedTwice ==
  {i \in ConvertLike : i.it \in {"vcvtsi2ss", "vcvtsi2sd"} /\ Op(i, 3).w # (IF i.it = "vcvtsi2sd" THEN 8 ELSE 4)}
MisliftedLogic == HalfRead \union DoubleRead \union ZeroBlends \union RoundedTwice

(* Forms that match admits and no handler lifts right.                     *)
PermutedOperands == plain(binary("vpermq", 8, {32, 64}, <<>>)) \union plain(binary("vpermd", 4, {32, 64}, <<>>))
IndexMerged == {i \in binary("vpermi2w", 2, Widths, <<>>) : i.mask = "merge"}
UncheckedSources ==
  {form(it, 4, <<ymm(1), mem(16)>>, "none", TRUE) : it \in {"vbroadcastf128", "vbroadcasti128"}}
  \union {form("vmaskmovps", 4, <<xmm(1), xmm(2), mem(16)>>, "none", TRUE)}
UncheckedResults ==
  {form("vextractf128", 4, <<mem(16), ymm(2), imm>>, "none", TRUE),
   form("vextracti64x4", 8, <<mem(32), zmm(2), imm>>, "none", TRUE),
   form("vextractps", 4, <<mem(4), xmm(2), imm>>, "none", TRUE),
   form("vstmxcsr", 4, <<mem(4)>>, "none", TRUE),
   form("vmaskmovps", 4, <<mem(16), xmm(2), xmm(3)>>, "none", TRUE)}
  \union {form("vmovntps", 4, <<mem(w), vec(w, 2)>>, "none", TRUE) : w \in Widths}
  \union toMem("vpmovqd", 4, <<>>) \union toMem("vcvtps2ph", 2, <<imm>>)
StoredBytes  == toMem("vpmovwb", 1, <<>>)
NativeZmm    == {form("vmovntdqa", 8, <<zmm(1), mem(64)>>, "none", TRUE)}
FlagLosers   == {form("vcomish", 2, <<xmm(1), src>>, "none", TRUE) : src \in {xmm(2), mem(2)}}
                \union {form(it, 2, <<kreg(21), kreg(22)>>, "none", TRUE) : it \in MaskTests}
ClearForms   == {form(it, 4, <<>>, "none", TRUE) : it \in Clears}
PseudoCompares == {form("vcmpeqps", 4, <<kreg(21), vec(w, 2), vec(w, 3)>>, "none", TRUE) : w \in Widths}
FourScalars  == {form("v4fmaddss", 4, <<xmm(1), xmm(2), mem(16)>>, "none", TRUE)}
Rounded == {[form("vsubps", 4, <<zmm(1), zmm(2), zmm(3)>>, m, TRUE) EXCEPT !.evexb = TRUE] : m \in AnyMask}
AfterZmmCall == {[form("vcvtss2sd", 4, <<xmm(1), xmm(2), xmm(3)>>, "none", TRUE) EXCEPT !.ret = TRUE]}
=============================================================================
