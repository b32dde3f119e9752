----------------------------- MODULE AvxLifter -----------------------------
(***************************************************************************)
(* The AVX microcode filter: which instructions AVXLifter::match admits,   *)
(* and the handler that AVXLifter::apply gives each of them to. Classes of *)
(* mnemonics stand for the is_..._insn predicates of avx_utils.cpp.        *)
(***************************************************************************)
EXTENDS HandlersMov, HandlersMask, HandlersShuffle, HandlersCvt

Broadcastm     == {"vpbroadcastmb2q", "vpbroadcastmw2d"}

(* Instructions with an SSE twin: apply() turns them into it and lets IDA  *)
(* do the rest.                                                            *)
sse_twin == {"vcomiss", "vpextrd", "vcvttss2si"}

(* The conversions that handler_cvt.cpp is given, and everything that      *)
(* handler_logic.cpp is given but the opmask instructions.                 *)
pmov == {"vpmovsxbw", "vpmovzxwd", "vpmovwb", "vpmovdb", "vpmovqd"}
fp16_cvt == {"vcvtph2dq", "vcvtdq2ph", "vcvtw2ph", "vcvtps2ph"}
ConversionInsns == ((Extends \union Narrows \union Converts) \ pmov)
                   \union ScalarToGpr \union ScalarConvert \union CsrMoves
AddSubMuls == AddSub132 \union AddSub213 \union AddSub231
LogicInsns ==
  LogicUnary \union LogicBinary \union LogicTernary \union LogicAccumulating \union HalfMoves
  \union Hashes \union Broadcasts \union MaskBlends \union AddSubMuls \union Selective
  \union NonTemporal \union CacheControl \union Clears \union VectorTests \union ScalarLogic
  \union pmov \union {"vpternlogd", "vpermi2w", "vpermps", "vbroadcastf128"}

avx_match_itype_core ==
  ScalarMoves \union Transfers \union WholeMoveInsns \union PackInsns \union Gathers
  \union Scatters \union MaskToVec \union MathInsns \union LogicInsns \union ConversionInsns
  \union sse_twin

(* The families admitted with an opmask: of arithmetic not those whose     *)
(* handler does not look at it, and of logic and conversions a list.       *)
UnmaskedMath == {"vpabsd", "vpsignw", "vsqrtps", "vsqrtss", "vsqrtsd", "vsubss", "vsubsd",
                 "vhaddps", "vdpps", "vpsadbw", "vmpsadbw"}
MaskedLogic ==
  {"vpand", "vpsllw", "vpsllvd", "vpshldw", "vpshrdvd", "vpmultishiftqb", "vprold", "vprolvq",
   "vpshufd", "vpshufb", "vshuff32x4", "vpermq", "vpermd", "vpermps", "vpermilps", "vpermw",
   "vpermi2w", "vpermt2d", "vpalignr", "valignd", "vblendps", "vblendvps", "vpblendw", "vpblendvb",
   "vbroadcastss", "vbroadcastsd", "vcmpeqps", "vcmpeqss", "vpcmpeqd", "vpopcntb", "vplzcntq",
   "vgf2p8affineqb", "vgf2p8mulb", "vpternlogd", "vpconflictd"} \union MaskBlends \union AddSubMuls
mask_ok ==
  (avx_match_itype_core
     \ (sse_twin \union Broadcastm \union UnmaskedMath \union LogicInsns \union ConversionInsns))
  \union MaskedLogic \union {"vcvtss2sd", "vcvtsd2ss"}

(* The arithmetic that each handler of HandlersMath is given.              *)
packed_math == {"vpsubb", "vpsubw", "vsubps", "vsubpd"} \union WideProducts
fp16_fma    == {"vfmadd132ph", "vfmadd132sh", "vfmadd213ph", "vfmadd213sh", "vfmadd231ph", "vfmadd231sh"}

apply_math(i) ==
  CASE i.it \in {"vpsadbw", "vmpsadbw"}          -> handle_vsad(i)
    [] i.it \in {"vsubss", "vsubsd"}             -> handle_v_math_ss_sd(i)
    [] i.it = "vsubsh"                           -> handle_v_math_sh(i)
    [] i.it = "vminsd"                           -> handle_v_minmax_ss_sd(i)
    [] i.it \in packed_math                      -> handle_v_math_p(i)
    [] i.it = "vsubph"                           -> handle_v_math_ph(i)
    [] i.it = "vpabsd"                           -> handle_v_abs(i)
    [] i.it = "vpsignw"                          -> handle_v_sign(i)
    [] i.it \in MulAdds \ fp16_fma               -> handle_v_fma(i)
    [] i.it \in fp16_fma                         -> handle_v_fma_ph(i)
    [] i.it \in {"vfmulcph", "vfmulcsh"} \union ComplexMulAdd -> handle_v_complex_ph(i)
    [] i.it = "vpmadd52luq"                      -> handle_v_ifma(i)
    [] i.it = "vpdpbusd"                         -> handle_v_vnni(i)
    [] i.it \in {"vdpbf16ps", "vcvtne2ps2bf16", "vcvtneps2bf16"} -> handle_v_bf16(i)
    [] i.it = "vhaddps"                          -> handle_v_hmath(i)
    [] i.it = "vdpps"                            -> handle_v_dot(i)
    [] i.it = "vrcp14ps"                         -> handle_vrcp_rsqrt(i)
    [] i.it \in {"vroundps", "vrndscaleph"}      -> handle_vround(i)
    [] i.it = "vsqrtph"                          -> handle_v_sqrt_ph(i)
    [] i.it \in {"vrcpsh", "vreducesh"}          -> handle_v_fp16_scalar_misc(i)
    [] i.it \in {"vgetexppd", "vgetexpss"}       -> handle_v_getexp(i)
    [] i.it \in {"vgetmantps", "vgetmantsd"}     -> handle_v_getmant(i)
    [] i.it \in Fixups                           -> handle_v_fixupimm(i)
    [] i.it \in {"vscalefps", "vscalefsd"}       -> handle_v_scalef(i)
    [] i.it \in {"vrangepd", "vrangesd"}         -> handle_v_range(i)
    [] i.it \in {"vreducepd", "vreducess"}       -> handle_v_reduce(i)
    [] i.it = "vsqrtss"                          -> handle_vsqrtss(i)
    [] i.it = "vsqrtsh"                          -> handle_vsqrt_sh(i)
    [] i.it = "vsqrtps"                          -> handle_vsqrt_ps_pd(i)
    [] i.it \in {"vrcpss", "vrsqrt14sd"}         -> handle_vrcp_rsqrt_ss(i)
    [] i.it \in {"vroundsd", "vrndscaless"}      -> handle_vround_ss_sd(i)
    [] i.it = "vsqrtsd"                          -> handle_vsqrtsd(i)
    [] i.it = "vaddsubps"                        -> handle_vaddsubps_pd(i)
    [] OTHER                                     -> MERR_INSN

(* Conversions.                                                            *)
apply_cvt(i) ==
  CASE i.it = "vcvtdq2ps"                        -> handle_vcvtdq2ps(i)
    [] i.it \in {"vcvtsi2ss", "vcvtsi2sd"}       -> handle_vcvtsi2fp(i)
    [] i.it = "vcvtps2pd"                        -> handle_vcvtps2pd(i)
    [] i.it \in {"vcvtss2sd", "vcvtsd2ss"}       -> handle_vcvtfp2fp(i)
    [] i.it = "vcvtpd2ps"                        -> handle_vcvtpd2ps(i)
    [] i.it = "vcvtps2dq"                        -> handle_vcvt_ps2dq(i)
    [] i.it = "vcvtpd2dq"                        -> handle_vcvt_pd2dq(i)
    [] i.it = "vcvtdq2pd"                        -> handle_vcvtdq2pd(i)
    [] i.it = "vcvttps2udq"                      -> handle_vcvt_ps2udq(i)
    [] i.it = "vcvtpd2udq"                       -> handle_vcvt_pd2udq(i)
    [] i.it = "vcvtudq2ps"                       -> handle_vcvt_udq2ps(i)
    [] i.it = "vcvtudq2pd"                       -> handle_vcvt_udq2pd(i)
    [] i.it = "vcvtpd2qq"                        -> handle_vcvt_pd2qq(i)
    [] i.it = "vcvtps2qq"                        -> handle_vcvt_ps2qq(i)
    [] i.it \in {"vcvtqq2pd", "vcvtqq2ps"}       -> handle_vcvt_qq2fp(i)
    [] i.it \in fp16_cvt                         -> handle_vcvt_fp16(i)
    [] i.it \in CsrMoves                         -> handle_vmxcsr(i)
    [] OTHER                                     -> handle_vcvt_scalar_ext(i)

(* Logic, shifts, compares, blends, cryptography and flags.                *)
apply_logic(i) ==
  CASE i.it = "vpand"                            -> handle_v_bitwise(i)
    [] i.it = "vpopcntb"                         -> handle_v_popcnt(i)
    [] i.it = "vplzcntq"                         -> handle_v_lzcnt(i)
    [] i.it \in {"vgf2p8affineqb", "vgf2p8mulb"} -> handle_v_gfni(i)
    [] i.it = "vpclmulqdq"                       -> handle_v_pclmul(i)
    [] i.it = "vaesenc"                          -> handle_v_aes(i)
    [] i.it \in Hashes                           -> handle_v_sha(i)
    [] i.it \in CacheControl                     -> handle_cache_ctrl(i)
    [] i.it = "vpsllw"                           -> handle_v_shift(i)
    [] i.it = "vpsllvd"                          -> handle_v_var_shift(i)
    [] i.it = "vprold"                           -> handle_v_rotate(i)
    [] i.it = "vprolvq"                          -> handle_v_var_rotate(i)
    [] i.it \in {"vpshldw", "vpshrdvd"}          -> handle_v_shift_double(i)
    [] i.it = "vpmultishiftqb"                   -> handle_v_multishift(i)
    [] i.it \in MaskBlends                       -> handle_v_blendm(i)
    [] i.it \in {"vexp2ps", "vrcp28ss"}          -> handle_v_er(i)
    [] i.it \in {"v4fmaddps", "v4fmaddss"}       -> handle_v_4fma(i)
    [] i.it = "vcomish"                          -> handle_v_comish(i)
    [] i.it \in {"vcmpeqps", "vcmpeqss"}         -> handle_vcmp_ps_pd(i)
    [] i.it = "vpcmpeqd"                         -> handle_vpcmp_int(i)
    [] i.it = "vblendvps"                        -> handle_vblendv_ps_pd(i)
    [] i.it = "vblendps"                         -> handle_vblend_imm_ps_pd(i)
    [] i.it \in {"vpblendw", "vpblendvb"}        -> handle_vblend_int(i)
    [] i.it = "vmaskmovps"                       -> handle_vmaskmov_ps_pd(i)
    [] i.it = "vpmaskmovd"                       -> handle_vpmaskmov_int(i)
    [] i.it = "vzeroupper"                       -> handle_vzeroupper_nop(i)
    [] i.it = "vzeroall"                         -> handle_vzeroall(i)
    [] i.it = "vphminposuw"                      -> handle_vphminposuw(i)
    [] i.it = "vtestps"                          -> handle_vtest_ps_pd(i)
    [] i.it = "vpternlogd"                       -> handle_v_ternary_logic(i)
    [] i.it = "vpconflictd"                      -> handle_v_conflict(i)
    [] i.it = "vphsubw"                          -> handle_vphsub_sw(i)
    [] i.it = "vpackssdw"                        -> handle_vpack(i)
    [] i.it \in AddSubMuls                       -> handle_vfmaddsub(i)
    [] i.it \in {"vmovmskps", "vpmovmskb"}       -> handle_vmovmsk(i)
    [] i.it \in NonTemporal                      -> handle_vmovnt(i)
    [] i.it = "vpslldq"                          -> handle_vpslldq_vpsrldq(i)
    [] i.it = "vptest"                           -> handle_vptest(i)
    [] OTHER                                     -> MERR_INSN

(* Shuffles, permutations, broadcasts, inserts, extracts, unpackings.      *)
apply_shuffle(i) ==
  CASE i.it \in {"vpshufd", "vpshufb"}           -> handle_v_shuffle_int(i)
    [] i.it = "vshuff32x4"                       -> handle_v_shuf_lane(i)
    [] i.it = "vbroadcastf32x2"                  -> handle_v_broadcast_x2(i)
    [] i.it \in {"vpermq", "vpermd", "vpermps", "vpermilps"} -> handle_v_perm_int(i)
    [] i.it \in {"vpalignr", "valignd"}          -> handle_v_align(i)
    [] i.it \in {"vbroadcastss", "vbroadcastsd"} -> handle_vbroadcast_ss_sd(i)
    [] i.it = "vbroadcastf128"                   -> handle_vbroadcastf128_fp(i)
    [] i.it = "vbroadcasti128"                   -> handle_vbroadcasti128_int(i)
    [] i.it \in {"vbroadcastf32x4", "vbroadcasti64x4"} -> handle_vbroadcast_x4(i)
    [] i.it = "vshufps"                          -> handle_vshufps(i)
    [] i.it = "vshufpd"                          -> handle_vshufpd(i)
    [] i.it = "vpermpd"                          -> handle_vpermpd(i)
    [] i.it = "vmovlhps"                         -> handle_vmovlhps(i)
    [] i.it = "vmovhlps"                         -> handle_vmovhlps(i)
    [] i.it \in HalfMoves                        -> handle_vmovl_h_ps_pd(i)
    [] i.it \in {"vextractf128", "vextracti64x4"} -> handle_vextractf128(i)
    [] i.it \in {"vinsertf128", "vinserti64x4"}  -> handle_vinsertf128(i)
    [] i.it = "vmovshdup"                        -> handle_vmovshdup(i)
    [] i.it = "vmovsldup"                        -> handle_vmovsldup(i)
    [] i.it = "vmovddup"                         -> handle_vmovddup(i)
    [] i.it = "vunpckhps"                        -> handle_vunpck(i)
    [] i.it = "vpbroadcastd"                     -> handle_vpbroadcast_d_q(i)
    [] i.it = "vperm2f128"                       -> handle_vperm2f128_i128(i)
    [] i.it = "vpermw"                           -> handle_v_permutex(i)
    [] i.it \in {"vpermi2w", "vpermt2d"}         -> handle_v_permutex2(i)
    [] i.it = "vpbroadcastw"                     -> handle_vpbroadcast_b_w(i)
    [] i.it \in {"vpinsrb", "vpinsrd"}           -> handle_vpinsert(i)
    [] i.it = "vpmovsxbw"                        -> handle_vpmovsx(i)
    [] i.it = "vpmovzxwd"                        -> handle_vpmovzx(i)
    [] i.it = "vpmovwb"                          -> handle_vpmovwb(i)
    [] i.it \in {"vpmovdb", "vpmovqd"}           -> handle_vpmov_down(i)
    [] i.it = "vpunpcklbw"                       -> handle_vpunpck(i)
    [] i.it = "vextractps"                       -> handle_vextractps(i)
    [] i.it = "vinsertps"                        -> handle_vinsertps(i)
    [] OTHER                                     -> apply_logic(i)

(* A call to a function that uses ZMM registers becomes a call of a helper *)
(* of that name without arguments.                                         *)
is_zmm_direct_call(i) == i.it = "call"
handle_zmm_direct_call(i) == <<Call(Effect, <<>>)>> \o MERR_OK

match_BugMemoryYmm(i) ==
  /\ ~i.seg
  /\ i.b64 \/ Op(i, 1).k # "ymm"
  /\ i.it \in avx_match_itype_core

(* A segment override is declined first. Opmask instructions and opmask    *)
(* destinations are admitted before the opmask and the 32-bit YMM gates.   *)
match(i) ==
  /\ ~i.seg
  /\ \/ is_zmm_direct_call(i)
     \/ i.it \in NarrowMaskInsns
     \/ Op(i, 1).k = "k"
     \/ /\ Masked(i) => i.it \in mask_ok
        /\ i.b64 \/ \A n \in 1..4 : Op(i, n).k # "ymm"
        /\ i.it \in avx_match_itype_core

(* kortest, ktest and what else has an opmask as destination: a nop.       *)
apply(i) ==
  CASE is_zmm_direct_call(i)                    -> handle_zmm_direct_call(i)
    [] i.it \in CompareToMask                   -> handle_v_cmp_to_mask(i)
    [] i.it \in TestToMask                      -> handle_v_2src_to_mask(i)
    [] i.it \in ClassToMask                     -> handle_v_fpclass_to_mask(i)
    [] i.it \in SignsToMask                     -> handle_v_movx2m(i)
    [] i.it \in Intersects                      -> handle_v_p2intersect(i)
    [] i.it \in Kmovs                           -> handle_kmov(i)
    [] i.it \in UnaryMaskOps \union BinaryMaskOps -> handle_k_alu(i)
    [] i.it \in MaskTests                       -> MERR_OK
    [] Op(i, 1).k = "k" /\ i.it \in LogicInsns  -> MERR_OK
    [] i.it \in sse_twin                        -> MERR_INSN
    [] i.it \in ConversionInsns                 -> apply_cvt(i)
    [] i.it \in {"vmovss", "vmovsd"}            -> handle_vmov_ss_sd(i)
    [] i.it = "vmovsh"                          -> handle_vmov_sh(i)
    [] i.it \in {"vmovd", "vmovq"}              -> handle_vmov(i)
    [] i.it = "vmovw"                           -> handle_vmovw(i)
    [] i.it \in WholeMoveInsns                  -> handle_v_mov_ps_dq(i)
    [] i.it \in {"vcompressps", "vpcompressw"}  -> handle_v_compress(i)
    [] i.it \in {"vexpandps", "vpexpandw"}      -> handle_v_expand(i)
    [] i.it \in Gathers                         -> handle_v_gather(i)
    [] i.it \in Scatters                        -> handle_v_scatter(i)
    [] i.it \in MathInsns                       -> apply_math(i)
    [] i.it \in Broadcastm                      -> handle_v_broadcastm(i)
    [] i.it \in MaskToVec \ Broadcastm          -> handle_v_mask_to_vec(i)
    [] Op(i, 1).k # "k" /\ i.it \in LogicInsns  -> apply_shuffle(i)
    [] OTHER                                    -> MERR_INSN
=============================================================================
