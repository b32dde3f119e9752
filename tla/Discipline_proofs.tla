-------------------------- MODULE Discipline_proofs --------------------------
(* Proofs that every handler keeps the discipline of Codegen: what may     *)
(* still give up comes before what is written. A handler is a plan put     *)
(* together from helpers with \o, and so is its proof: the helpers are     *)
(* classified once, and composition does the rest.                         *)
EXTENDS Codegen_proofs, AvxLifter, HandlersVmx, SequenceTheorems

(* Plans that write nothing outside their kregs, plans that cannot give    *)
(* up, and disciplined ones.                                               *)
IsPlan(p) == \E S : p \in Seq(S)
Quiet(p)  == IsPlan(p) /\ \A j \in 1..Len(p) : ~WritesArch(p[j])
Steady(p) == IsPlan(p) /\ \A j \in 1..Len(p) : ~MayDecline(p[j])
Safe(p)   == IsPlan(p) /\ Discipline(p)

(* A plan followed by a plan is a plan, with the steps of the one and then *)
(* those of the other.                                                     *)
LEMMA Concatenation ==
  ASSUME NEW p, NEW q, IsPlan(p), IsPlan(q)
  PROVE  /\ IsPlan(p \o q)
         /\ Len(p) \in Nat /\ Len(q) \in Nat /\ Len(p \o q) = Len(p) + Len(q)
         /\ \A j \in 1..Len(p) + Len(q) :
              (p \o q)[j] = IF j <= Len(p) THEN p[j] ELSE q[j - Len(p)]
<1>1. PICK S : p \in Seq(S) /\ q \in Seq(S)
  <2>1. PICK A, B : p \in Seq(A) /\ q \in Seq(B)
    BY Zenon DEF IsPlan
  <2>2. p \in Seq(A \union B) /\ q \in Seq(A \union B)
    BY <2>1, SeqMonotonic
  <2> QED BY <2>2
<1>2. Len(p) \in Nat /\ Len(q) \in Nat
  BY <1>1, LenProperties
<1> QED BY <1>1, <1>2, ConcatProperties DEF IsPlan

(* Two plans that write nothing write nothing one after the other.         *)
LEMMA QuietClosed ==
  ASSUME NEW p, NEW q, Quiet(p), Quiet(q)
  PROVE  Quiet(p \o q)
BY Concatenation, SMT DEF Quiet

(* Likewise two plans that cannot give up.                                 *)
LEMMA SteadyClosed ==
  ASSUME NEW p, NEW q, Steady(p), Steady(q)
  PROVE  Steady(p \o q)
BY Concatenation, SMT DEF Steady

(* A disciplined plan may have anything before it that writes nothing,     *)
LEMMA QuietThenSafe ==
  ASSUME NEW p, NEW q, Quiet(p), Safe(q)
  PROVE  Safe(p \o q)
BY Concatenation, SMT DEF Quiet, Safe, Discipline

(* and anything after it that cannot give up.                              *)
LEMMA SafeThenSteady ==
  ASSUME NEW p, NEW q, Safe(p), Steady(q)
  PROVE  Safe(p \o q)
BY Concatenation, SMT DEF Steady, Safe, Discipline

(* What never writes, or never gives up, is disciplined.                   *)
LEMMA EitherIsSafe ==
  ASSUME NEW p, Quiet(p) \/ Steady(p)
  PROVE  Safe(p)
BY SMT DEF Quiet, Steady, Safe, Discipline

(* The shortest plans.                                                     *)
LEMMA Tuples ==
  /\ IsPlan(<<>>) /\ Len(<<>>) = 0
  /\ \A a : IsPlan(<<a>>) /\ Len(<<a>>) = 1
  /\ \A a, b : IsPlan(<<a, b>>) /\ Len(<<a, b>>) = 2
  /\ \A a, b, c : IsPlan(<<a, b, c>>)  /\ Len(<<a, b, c>>) = 3
<1>1. \A S : <<>> \in Seq(S)
  OBVIOUS
<1>2. \A a : <<a>> \in Seq({a})
  OBVIOUS
<1>3. \A a, b : <<a, b>> \in Seq({a, b})
  OBVIOUS
<1>4. \A a, b, c : <<a, b, c>> \in Seq({a, b, c})
  OBVIOUS
<1> QED BY <1>1, <1>2, <1>3, <1>4 DEF IsPlan

(* The steps that write no register, flag or memory: those whose           *)
(* destination is a kreg, and the ends.                                    *)
LEMMA QuietSteps ==
  /\ \A n, v, w : ~WritesArch(LoadOp(n, v, w)) /\ ~WritesArch(LoadUnchecked(n, v, w))
  /\ \A n, v : ~WritesArch(Address(n, v))
  /\ \A n, v, k : ~WritesArch(AddressOrSkip(n, v, k))
  /\ \A v, w : ~WritesArch(Alloc(v, w)) /\ ~WritesArch(AllocUnchecked(v, w))
  /\ \A v, w, u : ~WritesArch(AllocElseFree(v, w, u))
  /\ \A v : ~WritesArch(Free(v))
  /\ \A v, w, s : ~WritesArch(WidenTmp(v, w, s))
  /\ \A v, w, s : ~WritesArch(Mov(Tmp(v, w), s)) /\ ~WritesArch(Xdu(Tmp(v, w), s))
  /\ \A v, w, s : ~WritesArch(I2f(Tmp(v, w), s)) /\ ~WritesArch(F2f(Tmp(v, w), s))
  /\ \A v, w, args : ~WritesArch(Call(Tmp(v, w), args))
  /\ \A n, v, w : ~WritesArch(AddressImm(n, Tmp(v, w)))
  /\ \A merr : merr \in Final => ~WritesArch(Finish(merr))
BY DEF WritesArch, LoadOp, LoadUnchecked, Address, AddressOrSkip, Alloc, AllocUnchecked,
       AllocElseFree, Free, WidenTmp, Mov, Xdu, I2f, F2f, Call, AddressImm, Finish, Final,
       Emit, Tmp, Step

(* The steps after which the handler cannot end in MERR_INSN: what fails   *)
(* in them is not looked at.                                               *)
LEMMA SteadySteps ==
  /\ \A n, v, w : ~MayDecline(LoadUnchecked(n, v, w))
  /\ \A n, v, k : ~MayDecline(AddressOrSkip(n, v, k))
  /\ \A v, w : ~MayDecline(AllocUnchecked(v, w))
  /\ \A v : ~MayDecline(Free(v))
  /\ \A n, s : ~MayDecline(StoreUnchecked(n, s))
  /\ \A v, w, s : ~MayDecline(WidenTmp(v, w, s))
  /\ \A dst, s : ~MayDecline(Mov(dst, s)) /\ ~MayDecline(Xdu(dst, s))
  /\ \A dst, s : ~MayDecline(I2f(dst, s)) /\ ~MayDecline(F2f(dst, s))
  /\ \A dst, args : ~MayDecline(Call(dst, args)) /\ ~MayDecline(ScalarCall(dst, args))
  /\ \A n, dst : ~MayDecline(AddressImm(n, dst))
  /\ ~MayDecline(Finish("OK")) /\ ~MayDecline(Finish("INTERR"))
BY DEF MayDecline, LoadOp, LoadUnchecked, Address, AddressOrSkip, Alloc, AllocUnchecked,
       Free, StoreOp, StoreUnchecked, WidenTmp, Mov, Xdu, I2f, F2f, Call, ScalarCall,
       AddressImm, Finish, Emit, Step

(* The closure lemmas in the form the handlers need them.                  *)
LEMMA Composition ==
  /\ \A p, q : Quiet(p) /\ Quiet(q) => Quiet(p \o q)
  /\ \A p, q : Steady(p) /\ Steady(q) => Steady(p \o q)
  /\ \A p, q : Quiet(p) /\ Safe(q) => Safe(p \o q)
  /\ \A p, q : Safe(p) /\ Steady(q) => Safe(p \o q)
  /\ \A p : Quiet(p) \/ Steady(p) => Safe(p)
BY QuietClosed, SteadyClosed, QuietThenSafe, SafeThenSteady, EitherIsSafe

(* Plans of one step,                                                      *)
LEMMA Single ==
  /\ Quiet(<<>>) /\ Steady(<<>>)
  /\ \A a : Safe(<<a>>)
  /\ \A a : ~WritesArch(a) => Quiet(<<a>>)
  /\ \A a : ~MayDecline(a) => Steady(<<a>>)
BY Tuples DEF Quiet, Steady, Safe, Discipline

(* of two,                                                                 *)
LEMMA Pair ==
  /\ \A a, b : ~WritesArch(a) /\ ~WritesArch(b) => Quiet(<<a, b>>)
  /\ \A a, b : ~MayDecline(a) /\ ~MayDecline(b) => Steady(<<a, b>>)
  /\ \A a, b : ~WritesArch(a) \/ ~MayDecline(b) => Safe(<<a, b>>)
BY Tuples DEF Quiet, Steady, Safe, Discipline

(* of three,                                                               *)
LEMMA Triple ==
  /\ \A a, b, c : ~WritesArch(a) /\ ~WritesArch(b) /\ ~WritesArch(c) => Quiet(<<a, b, c>>)
  /\ \A a, b, c : ~MayDecline(a) /\ ~MayDecline(b) /\ ~MayDecline(c) => Steady(<<a, b, c>>)
  /\ \A a, b, c : ~WritesArch(a) /\ ~WritesArch(b) => Safe(<<a, b, c>>)
BY Tuples DEF Quiet, Steady, Safe, Discipline

(* and of four and five.                                                   *)
LEMMA Longer ==
  /\ \A a, b, c, d : ~WritesArch(a) /\ ~WritesArch(b) /\ ~MayDecline(c) /\ ~MayDecline(d)
                     => Safe(<<a, b, c, d>>)
  /\ \A a, b, c, d, e :
       ~WritesArch(a) /\ ~WritesArch(b) /\ ~WritesArch(c) /\ ~MayDecline(d) /\ ~MayDecline(e)
       => Safe(<<a, b, c, d, e>>)
<1>1. ASSUME NEW a, NEW b, NEW c, NEW d,
             ~WritesArch(a), ~WritesArch(b), ~MayDecline(c), ~MayDecline(d)
      PROVE  Safe(<<a, b, c, d>>)
  <2>1. <<a, b, c, d>> = <<a, b>> \o <<c, d>>
    OBVIOUS
  <2>2. Safe(<<a, b>> \o <<c, d>>)
    BY <1>1, Pair, Composition
  <2> QED BY <2>1, <2>2
<1>2. ASSUME NEW a, NEW b, NEW c, NEW d, NEW e,
             ~WritesArch(a), ~WritesArch(b), ~WritesArch(c), ~MayDecline(d), ~MayDecline(e)
      PROVE  Safe(<<a, b, c, d, e>>)
  <2>1. <<a, b, c, d, e>> = <<a, b, c>> \o <<d, e>>
    OBVIOUS
  <2>2. Safe(<<a, b, c>> \o <<d, e>>)
    BY <1>2, Triple, Pair, Composition
  <2> QED BY <2>1, <2>2
<1> QED BY <1>1, <1>2

(* The loads of avx_helpers.cpp write only kregs.                          *)
LEMMA HelperLoads ==
  /\ \A i, n, v : Quiet(emit_zmm_load(i, n, v))
  /\ \A i, n, v, size : Quiet(load_operand_udt(i, n, v, size))
  /\ \A i, n : Quiet(make_vector_load_mop(i, n))
  /\ \A i, n, v : Quiet(AvxOpLoader(i, n, v))
  /\ \A i, n, w : Quiet(add_vec_source(i, n, w))
  /\ \A i, n, w : Quiet(ScalarSource(i, n, w))
<1>1. \A i, n, v : Quiet(emit_zmm_load(i, n, v))
  BY QuietSteps, Triple DEF emit_zmm_load
<1>2. \A i, n, v, size : Quiet(load_operand_udt(i, n, v, size))
  BY <1>1, QuietSteps, Single DEF load_operand_udt
<1>3. \A i, n : Quiet(make_vector_load_mop(i, n))
  BY QuietSteps, Single, Pair DEF make_vector_load_mop
<1>4. \A i, n, v : Quiet(AvxOpLoader(i, n, v))
  BY <1>2, Single DEF AvxOpLoader
<1>5. \A i, n, w : Quiet(add_vec_source(i, n, w))
  BY <1>4, QuietSteps, Single, Composition DEF add_vec_source
<1>6. \A i, n, w : Quiet(ScalarSource(i, n, w))
  BY <1>4, QuietSteps, Single, Pair, Composition DEF ScalarSource
<1> QED BY <1>1, <1>2, <1>3, <1>4, <1>5, <1>6

(* The ways a handler ends, and its frees.                                 *)
LEMMA Endings ==
  /\ Quiet(MERR_OK) /\ Steady(MERR_OK)
  /\ Quiet(MERR_INSN)
  /\ Quiet(INTERR) /\ Steady(INTERR)
  /\ \A i, n, v : Quiet(FreeIfMem(i, n, v)) /\ Steady(FreeIfMem(i, n, v))
  /\ \A i, n, v, w : Steady(emit_write_call(n, v, w))
BY QuietSteps, SteadySteps, Single, Pair
   DEF MERR_OK, MERR_INSN, INTERR, FreeIfMem, emit_write_call, Final

(* A QASSERT ends the lift with INTERR, never with MERR_INSN.              *)
LEMMA Asserted ==
  /\ \A c, p : Safe(p) => Safe(QASSERT(c, p))
  /\ \A c, p : Steady(p) => Steady(QASSERT(c, p))
BY Endings, Composition DEF QASSERT

(* The stores of avx_helpers.cpp are disciplined: what they need is there  *)
(* before they write.                                                      *)
LEMMA HelperStores ==
  /\ \A i, n, src : Safe(emit_vector_store(i, n, src))
  /\ \A i, n, src : Safe(store_operand_hack(i, n, src))
  /\ \A i, n, src : Steady(unchecked_store(i, n, src))
  /\ \A i, w, args : Safe(CallIntoVec(i, w, args))
  /\ \A i, w, args : Safe(CallIntoMem(i, w, args))
<1>1. \A i, n, src : Safe(emit_vector_store(i, n, src))
  BY QuietSteps, SteadySteps, Single, Pair, Composition DEF emit_vector_store
<1>2. \A i, n, src : Safe(store_operand_hack(i, n, src))
  BY <1>1, Single DEF store_operand_hack
<1>3. \A i, n, src : Steady(unchecked_store(i, n, src))
  BY SteadySteps, Single, Pair, Composition DEF unchecked_store, emit_vector_store
<1>4. \A i, w, args : Safe(CallIntoVec(i, w, args))
  BY QuietSteps, SteadySteps, Endings, Single, Pair, Composition DEF CallIntoVec
<1>5. \A i, w, args : Safe(CallIntoMem(i, w, args))
  BY <1>3, QuietSteps, SteadySteps, Single, Pair, Composition DEF CallIntoMem
<1> QED BY <1>1, <1>2, <1>3, <1>4, <1>5

(* The common shapes of the arithmetic handlers.                           *)
LEMMA MathHelpers ==
  /\ \A i, args : Steady(Intrinsic(i, args))
  /\ \A i, imm : Steady(ScalarIntrinsic(i, imm))
  /\ \A i, imm : Safe(Unary(i, imm)) /\ Safe(Binary(i, imm)) /\ Safe(ScalarBinaryOp(i, imm))
  /\ \A i : Safe(accumulate(i)) /\ Safe(unary_with_imm(i)) /\ Safe(binary_with_imm(i))
<1>1. \A i, args : Steady(Intrinsic(i, args))
  BY SteadySteps, Endings, Single, Composition DEF Intrinsic
<1>2. \A i, imm : Steady(ScalarIntrinsic(i, imm))
  BY SteadySteps, Endings, Single, Composition DEF ScalarIntrinsic
<1>3. \A i, imm : Safe(Unary(i, imm)) /\ Safe(Binary(i, imm)) /\ Safe(ScalarBinaryOp(i, imm))
  BY <1>1, <1>2, HelperLoads, Composition DEF Unary, Binary, ScalarBinaryOp
<1>4. \A i : Safe(accumulate(i))
  BY SteadySteps, HelperLoads, Endings, Single, Composition DEF accumulate
<1>5. \A i : Safe(unary_with_imm(i)) /\ Safe(binary_with_imm(i))
  BY <1>3, Asserted DEF unary_with_imm, binary_with_imm
<1> QED BY <1>1, <1>2, <1>3, <1>4, <1>5

(* Every handler of handler_math.cpp,                                      *)
LEMMA MathHandlers ==
  ASSUME NEW i
  PROVE  Safe(apply_math(i))
<1>1. /\ Safe(handle_vsad(i)) /\ Safe(handle_v_abs(i)) /\ Safe(handle_v_sign(i))
      /\ Safe(handle_v_math_ph(i)) /\ Safe(handle_v_hmath(i)) /\ Safe(handle_vaddsubps_pd(i))
      /\ Safe(handle_v_minmax_ss_sd(i)) /\ Safe(handle_v_math_sh(i)) /\ Safe(handle_vsqrt_sh(i))
      /\ Safe(handle_vrcp_rsqrt(i)) /\ Safe(handle_vrcp_rsqrt_ss(i)) /\ Safe(handle_v_sqrt_ph(i))
      /\ Safe(handle_vsqrt_ps_pd(i)) /\ Safe(handle_v_getexp(i)) /\ Safe(handle_v_scalef(i))
      /\ Safe(handle_v_ifma(i)) /\ Safe(handle_v_vnni(i))
      /\ Safe(handle_v_getmant(i)) /\ Safe(handle_v_reduce(i))
      /\ Safe(handle_v_fixupimm(i)) /\ Safe(handle_v_range(i))
  BY MathHelpers, Asserted
     DEF handle_vsad, handle_v_abs, handle_v_sign, handle_v_math_ph, handle_v_hmath,
         handle_vaddsubps_pd, handle_v_minmax_ss_sd, handle_v_math_sh, handle_vsqrt_sh,
         handle_vrcp_rsqrt, handle_vrcp_rsqrt_ss, handle_v_sqrt_ph, handle_vsqrt_ps_pd,
         handle_v_getexp, handle_v_scalef, handle_v_ifma, handle_v_vnni, handle_v_getmant,
         handle_v_reduce, handle_v_fixupimm, handle_v_range
<1>2. Safe(handle_v_math_ss_sd(i))
  BY QuietSteps, SteadySteps, HelperLoads, Endings, Asserted, Single, Pair, Composition
     DEF handle_v_math_ss_sd
<1>3. Safe(handle_v_math_p(i))
  BY HelperLoads, HelperStores, Endings, Asserted, Composition DEF handle_v_math_p
<1>4. Safe(handle_v_dot(i)) /\ Safe(handle_vround(i)) /\ Safe(handle_vround_ss_sd(i))
  BY MathHelpers, HelperLoads, Asserted, Composition
     DEF handle_v_dot, handle_vround, handle_vround_ss_sd
<1>5. Safe(handle_v_fma(i)) /\ Safe(handle_v_fma_ph(i))
  BY SteadySteps, HelperLoads, Endings, Single, Composition DEF handle_v_fma, handle_v_fma_ph
<1>6. Safe(handle_v_complex_ph(i)) /\ Safe(handle_v_fp16_scalar_misc(i))
  BY SteadySteps, HelperLoads, Endings, Single, Composition
     DEF handle_v_complex_ph, handle_v_fp16_scalar_misc
<1>7. Safe(handle_v_bf16(i))
  <2>1. /\ Safe(AvxOpLoader(i, 2, "s") \o Binary(i, <<>>))
        /\ \A args : Safe(AvxOpLoader(i, 2, "s") \o Intrinsic(i, args))
        /\ Safe(accumulate(i)) /\ Safe(MERR_INSN)
    BY MathHelpers, HelperLoads, Endings, Composition
  <2> QED BY <2>1, Zenon DEF handle_v_bf16
<1>8. Safe(handle_vsqrtss(i)) /\ Safe(handle_vsqrtsd(i))
  BY QuietSteps, SteadySteps, HelperLoads, Endings, Asserted, Longer, Composition
     DEF handle_vsqrtss, handle_vsqrtsd
<1> QED BY <1>1, <1>2, <1>3, <1>4, <1>5, <1>6, <1>7, <1>8, Endings, Composition, Zenon
        DEF apply_math

(* of handler_mov.cpp,                                                     *)
LEMMA MovHandlers ==
  ASSUME NEW i
  PROVE  /\ Safe(handle_vmov_ss_sd(i)) /\ Safe(handle_vmov_sh(i)) /\ Safe(handle_vmovw(i))
         /\ Safe(handle_vmov(i)) /\ Safe(handle_v_mov_ps_dq(i))
         /\ Safe(handle_v_compress(i)) /\ Safe(handle_v_expand(i))
         /\ Safe(handle_v_gather(i)) /\ Safe(handle_v_scatter(i))
<1>1. Safe(masked_scalar_move(i))
  BY SteadySteps, HelperLoads, Endings, Single, Composition DEF masked_scalar_move
<1>2. Safe(handle_vmov_ss_sd(i))
  BY <1>1, QuietSteps, SteadySteps, HelperLoads, HelperStores, Endings, Asserted, Single, Longer,
     Composition DEF handle_vmov_ss_sd
<1>3. Safe(handle_vmov_sh(i))
  BY <1>1, SteadySteps, HelperLoads, HelperStores, Endings, Asserted, Single, Composition
     DEF handle_vmov_sh
<1>4. Safe(handle_vmovw(i))
  BY SteadySteps, HelperLoads, HelperStores, Endings, Single, Composition DEF handle_vmovw
<1>5. Safe(handle_vmov(i))
  BY QuietSteps, SteadySteps, HelperLoads, Endings, Asserted, Single, Longer, Composition
     DEF handle_vmov
<1>6. Safe(masked_v_mov(i))
  BY QuietSteps, SteadySteps, Endings, Asserted, Single, Pair, Composition DEF masked_v_mov
<1>7. Safe(handle_v_mov_ps_dq(i))
  BY <1>6, SteadySteps, HelperLoads, HelperStores, Endings, Asserted, Single, Composition
     DEF handle_v_mov_ps_dq
<1>8. Safe(handle_v_compress(i)) /\ Safe(handle_v_expand(i))
  BY QuietSteps, SteadySteps, HelperLoads, Endings, Single, Pair, Composition
     DEF handle_v_compress, handle_v_expand
<1>9. /\ \A n : Quiet(BaseSteps(i, n))
      /\ \A n : Steady(FreeBase(i, n))
  BY QuietSteps, SteadySteps, Single, Pair DEF BaseSteps, FreeBase
<1>10. Safe(handle_v_gather(i))
  BY <1>9, QuietSteps, SteadySteps, Endings, Single, Triple, Composition DEF handle_v_gather
<1>11. Safe(handle_v_scatter(i))
  BY <1>9, SteadySteps, Endings, Single, Composition DEF handle_v_scatter
<1> QED BY <1>2, <1>3, <1>4, <1>5, <1>7, <1>8, <1>10, <1>11

(* of those with opmasks,                                                  *)
LEMMA MaskHandlers ==
  ASSUME NEW i
  PROVE  /\ Safe(handle_v_cmp_to_mask(i)) /\ Safe(handle_v_2src_to_mask(i))
         /\ Safe(handle_v_fpclass_to_mask(i)) /\ Safe(handle_v_movx2m(i))
         /\ Safe(handle_v_p2intersect(i)) /\ Safe(handle_v_mask_to_vec(i))
         /\ Safe(handle_v_broadcastm(i)) /\ Safe(handle_k_alu(i)) /\ Safe(handle_kmov(i))
<1>1. \A args, n : Safe(finish_mask_result(args, n))
  BY QuietSteps, Endings, Pair, Composition DEF finish_mask_result
<1>2. /\ Safe(handle_v_cmp_to_mask(i)) /\ Safe(handle_v_2src_to_mask(i))
      /\ Safe(handle_v_fpclass_to_mask(i)) /\ Safe(handle_v_movx2m(i))
  BY <1>1, HelperLoads, Composition
     DEF handle_v_cmp_to_mask, handle_v_2src_to_mask, handle_v_fpclass_to_mask, handle_v_movx2m
<1>3. /\ Safe(handle_v_p2intersect(i)) /\ Safe(handle_v_mask_to_vec(i))
      /\ Safe(handle_v_broadcastm(i))
  BY SteadySteps, HelperLoads, HelperStores, Endings, Single, Composition
     DEF handle_v_p2intersect, handle_v_mask_to_vec, handle_v_broadcastm
<1>4. Safe(handle_k_alu(i))
  BY QuietSteps, Endings, Pair, Composition DEF handle_k_alu
<1>5. Safe(handle_kmov(i))
  BY QuietSteps, SteadySteps, HelperLoads, HelperStores, Endings, Single, Pair, Composition
     DEF handle_kmov
<1> QED BY <1>2, <1>3, <1>4, <1>5

(* of handler_cvt.cpp,                                                     *)
LEMMA CvtHandlers ==
  ASSUME NEW i
  PROVE  Safe(apply_cvt(i))
<1>1. \A w, dst : Safe(convert(i, w, dst))
  BY SteadySteps, HelperLoads, Endings, Single, Composition DEF convert
<1>2. /\ Safe(handle_vcvtdq2ps(i)) /\ Safe(handle_vcvt_ps2dq(i)) /\ Safe(handle_vcvt_ps2udq(i))
      /\ Safe(handle_vcvt_udq2ps(i)) /\ Safe(handle_vcvt_udq2pd(i)) /\ Safe(handle_vcvt_pd2qq(i))
      /\ Safe(handle_vcvt_ps2qq(i)) /\ Safe(handle_vcvt_qq2fp(i)) /\ Safe(handle_vcvt_pd2udq(i))
      /\ Safe(handle_vcvtpd2ps(i)) /\ Safe(handle_vcvt_pd2dq(i))
  BY <1>1
     DEF same_size, handle_vcvtdq2ps, handle_vcvt_ps2dq, handle_vcvt_ps2udq, handle_vcvt_udq2ps,
         handle_vcvt_udq2pd, handle_vcvt_pd2qq, handle_vcvt_ps2qq, handle_vcvt_qq2fp,
         handle_vcvt_pd2udq, handle_vcvtpd2ps, handle_vcvt_pd2dq
<1>3. Safe(handle_vcvtps2pd(i)) /\ Safe(handle_vcvtdq2pd(i))
  <2>1. \A half, dst : Safe(from_xmm(i, half, dst))
    BY <1>1, SteadySteps, HelperLoads, Endings, Pair, Composition DEF from_xmm
  <2> QED BY <2>1 DEF handle_vcvtps2pd, handle_vcvtdq2pd
<1>4. Safe(handle_vcvt_fp16(i)) /\ Safe(handle_vmxcsr(i))
  BY SteadySteps, HelperLoads, HelperStores, Endings, Single, Composition
     DEF handle_vcvt_fp16, handle_vmxcsr
<1>5. Safe(handle_vcvtsi2fp(i))
  <2>1. ASSUME NEW a, NEW b, NEW c, NEW d, NEW e, NEW f, NEW g, NEW h,
               ~WritesArch(a), ~WritesArch(b), ~WritesArch(c), ~WritesArch(d), ~WritesArch(e),
               ~MayDecline(f), ~MayDecline(g), ~MayDecline(h)
        PROVE  Safe(<<a, b, c, d, e, f, g, h>>)
    <3>1. <<a, b, c, d, e, f, g, h>> = <<a, b, c>> \o (<<d, e>> \o <<f, g, h>>)
      OBVIOUS
    <3>2. Safe(<<a, b, c>> \o (<<d, e>> \o <<f, g, h>>))
      BY <2>1, Pair, Triple, Composition
    <3> QED BY <3>1, <3>2
  <2> QED BY <2>1, QuietSteps, SteadySteps, HelperLoads, Endings, Composition DEF handle_vcvtsi2fp
<1>6. Safe(handle_vcvtfp2fp(i))
  BY QuietSteps, SteadySteps, HelperLoads, Endings, Single, Triple, Longer, Composition
     DEF handle_vcvtfp2fp
<1>7. Safe(handle_vcvt_scalar_ext(i))
  <2>1. /\ \A dst, args : Safe(add_vec_source(i, 2, 16) \o <<Call(dst, args)>> \o MERR_OK)
        /\ \A dst, args : Safe(AvxOpLoader(i, 3, "s") \o <<ScalarCall(dst, args)>> \o MERR_OK)
        /\ \A dst, args : Safe(add_vec_source(i, 3, 16) \o <<ScalarCall(dst, args)>> \o MERR_OK)
    BY SteadySteps, HelperLoads, Endings, Single, Composition
  <2> QED BY <2>1, Zenon DEF handle_vcvt_scalar_ext
<1> QED BY <1>2, <1>3, <1>4, <1>5, <1>6, <1>7, Zenon DEF apply_cvt

(* of handler_logic.cpp, shifts to tests,                                  *)
LEMMA LogicHandlers ==
  ASSUME NEW i
  PROVE  Safe(apply_logic(i))
<1>1. /\ Safe(handle_v_bitwise(i)) /\ Safe(handle_v_var_shift(i)) /\ Safe(handle_v_var_rotate(i))
      /\ Safe(handle_v_conflict(i)) /\ Safe(handle_v_popcnt(i)) /\ Safe(handle_v_lzcnt(i))
      /\ Safe(handle_v_aes(i)) /\ Safe(handle_vzeroupper_nop(i)) /\ Safe(handle_vpcmp_int(i))
      /\ Safe(handle_vblend_imm_ps_pd(i)) /\ Safe(handle_vphsub_sw(i)) /\ Safe(handle_vpack(i))
      /\ Safe(handle_vphminposuw(i))
  BY MathHelpers, Asserted, Endings, Composition
     DEF handle_v_bitwise, handle_v_var_shift, handle_v_var_rotate, handle_v_conflict,
         handle_v_popcnt, handle_v_lzcnt, handle_v_aes, handle_vzeroupper_nop, handle_vpcmp_int,
         handle_vblend_imm_ps_pd, handle_vphsub_sw, handle_vpack, handle_vphminposuw
<1>2. \A j : Safe(handle_v_shift(j)) /\ Safe(handle_v_rotate(j))
  BY MathHelpers, HelperLoads, Asserted, Composition DEF handle_v_shift, handle_v_rotate
<1>3. Safe(handle_vpslldq_vpsrldq(i))
  BY <1>2 DEF handle_vpslldq_vpsrldq
<1>4. /\ Safe(handle_v_shift_double(i)) /\ Safe(handle_v_multishift(i))
      /\ Safe(handle_v_ternary_logic(i)) /\ Safe(handle_v_gfni(i))
      /\ Safe(handle_vcmp_ps_pd(i)) /\ Safe(handle_vblendv_ps_pd(i)) /\ Safe(handle_vblend_int(i))
  BY MathHelpers, HelperLoads, Asserted, Composition
     DEF handle_v_shift_double, handle_v_multishift, handle_v_ternary_logic, handle_v_gfni,
         handle_vcmp_ps_pd, handle_vblendv_ps_pd, handle_vblend_int
<1>5. Safe(handle_v_pclmul(i)) /\ Safe(handle_v_sha(i))
  BY SteadySteps, HelperLoads, Endings, Asserted, Single, Composition
     DEF handle_v_pclmul, handle_v_sha
<1>6. Safe(handle_cache_ctrl(i)) /\ Safe(handle_vzeroall(i)) /\ Safe(handle_vmovmsk(i))
  BY SteadySteps, HelperLoads, Endings, Single, Composition
     DEF handle_cache_ctrl, load_memory_address, handle_vzeroall, handle_vmovmsk
<1>7. Safe(handle_v_blendm(i)) /\ Safe(handle_v_4fma(i)) /\ Safe(handle_v_er(i))
  BY SteadySteps, HelperLoads, HelperStores, Endings, Single, Composition
     DEF handle_v_blendm, handle_v_4fma, handle_v_er
<1>8. Safe(handle_vmaskmov_ps_pd(i))
  BY QuietSteps, SteadySteps, HelperStores, Endings, Asserted, Single, Longer, Composition
     DEF handle_vmaskmov_ps_pd
<1>9. Safe(handle_vpmaskmov_int(i))
  <2>1. \A n, dst, args : Safe(load_memory_address(i, n) \o <<Call(dst, args)>> \o MERR_OK)
    BY SteadySteps, HelperLoads, Endings, Single, Composition DEF load_memory_address
  <2> QED BY <2>1, Endings, Composition, Zenon DEF handle_vpmaskmov_int
<1>10. Safe(handle_vmovnt(i))
  BY SteadySteps, HelperLoads, HelperStores, Endings, Asserted, Single, Composition
     DEF handle_vmovnt
<1>11. Safe(handle_vptest(i)) /\ Safe(handle_vtest_ps_pd(i))
  BY SteadySteps, HelperLoads, Endings, Triple, Composition
     DEF handle_vptest, handle_vtest_ps_pd, emit_test_flags
<1>12. Safe(handle_v_comish(i))
  BY QuietSteps, HelperLoads, Endings, Pair, Composition DEF handle_v_comish
<1>13. Safe(handle_vfmaddsub(i))
  BY MathHelpers, HelperLoads, Composition DEF handle_vfmaddsub
<1> QED BY <1>1, <1>2, <1>3, <1>4, <1>5, <1>6, <1>7, <1>8, <1>9, <1>10, <1>11, <1>12, <1>13,
           Endings, Composition, Zenon DEF apply_logic

(* and its permutes, broadcasts and lanes;                                 *)
LEMMA ShuffleHandlers ==
  ASSUME NEW i
  PROVE  Safe(apply_shuffle(i))
<1>1. /\ \A j : Safe(handle_v_align(j))
      /\ Safe(handle_vshufps(i)) /\ Safe(handle_vshufpd(i)) /\ Safe(handle_v_shuffle_int(i))
      /\ Safe(handle_v_permutex(i)) /\ Safe(handle_vmovlhps(i)) /\ Safe(handle_vmovhlps(i))
      /\ Safe(handle_vmovshdup(i)) /\ Safe(handle_vmovsldup(i))
      /\ Safe(handle_vunpck(i)) /\ Safe(handle_vpunpck(i))
  BY MathHelpers, HelperLoads, Asserted, Endings, Composition
     DEF handle_v_align, handle_vshufps, handle_vshufpd, handle_v_shuffle_int, handle_v_permutex,
         handle_vmovlhps, handle_vmovhlps, handle_vmovshdup, handle_vmovsldup, handle_vunpck,
         handle_vpunpck
<1>2. Safe(handle_vperm2f128_i128(i))
  BY <1>1, Asserted DEF handle_vperm2f128_i128
<1>3. Safe(handle_v_shuf_lane(i)) /\ Safe(handle_vpermpd(i)) /\ Safe(handle_v_permutex2(i))
  BY SteadySteps, HelperLoads, HelperStores, Endings, Asserted, Single, Composition
     DEF handle_v_shuf_lane, handle_vpermpd, handle_v_permutex2
<1>4. Safe(handle_v_perm_int(i))
  <2>1. \A n, args : Safe(AvxOpLoader(i, n, "s") \o Intrinsic(i, args))
    BY MathHelpers, HelperLoads, Composition
  <2>2. \A args : Safe(IF ~YmmOrZmm(i) THEN MERR_INSN
                      ELSE IF IsImm(i, 3) THEN Intrinsic(i, <<Src(i, 2), Imm(3)>>)
                      ELSE AvxOpLoader(i, 3, "s") \o Intrinsic(i, args))
    BY <2>1, MathHelpers, Endings, Composition, Zenon
  <2>3. \A p : Safe(p) => Safe(AvxOpLoader(i, 2, "s") \o p) /\ Safe(AvxOpLoader(i, 3, "s") \o p)
    BY HelperLoads, Composition
  <2>4. /\ \A args : Safe(IF YmmOrZmm(i) THEN Intrinsic(i, args) ELSE MERR_INSN)
        /\ \A args : Safe(IF Op(i, 1).k # "ymm" \/ Masked(i) \/ Op(i, 2).k # "ymm" THEN MERR_INSN
                         ELSE AvxOpLoader(i, 3, "s") \o Intrinsic(i, args))
        /\ Safe(IF IsImm(i, 3) THEN Intrinsic(i, <<Src(i, 2), Imm(3)>>) ELSE Binary(i, <<>>))
    BY <2>1, MathHelpers, Endings, Composition
  <2> QED BY <2>2, <2>3, <2>4, Zenon DEF handle_v_perm_int
<1>5. Safe(handle_vmovl_h_ps_pd(i))
  <2>1. \A n, dst, args : Safe(load_memory_address(i, n) \o <<Call(dst, args)>> \o MERR_OK)
    BY SteadySteps, HelperLoads, Endings, Single, Composition DEF load_memory_address
  <2> QED BY <2>1, Endings, Composition, Zenon DEF handle_vmovl_h_ps_pd
<1>6. Safe(handle_vbroadcast_ss_sd(i))
  BY QuietSteps, SteadySteps, HelperLoads, HelperStores, Endings, Single, Pair, Composition
     DEF handle_vbroadcast_ss_sd
<1>7. Safe(handle_vbroadcastf128_fp(i)) /\ Safe(handle_vbroadcasti128_int(i))
  BY QuietSteps, SteadySteps, Endings, Asserted, Pair, Longer, Composition
     DEF handle_vbroadcastf128_fp, handle_vbroadcasti128_int
<1>8. Safe(broadcast_low(i)) /\ Safe(handle_vbroadcast_x4(i)) /\ Safe(handle_v_broadcast_x2(i))
  BY SteadySteps, HelperLoads, HelperStores, Endings, Asserted, Single, Composition
     DEF broadcast_low, handle_vbroadcast_x4, handle_v_broadcast_x2
<1>9. /\ Safe(handle_vpbroadcast_d_q(i)) /\ Safe(handle_vpbroadcast_b_w(i))
      /\ Safe(handle_vmovddup(i))
  BY <1>8, MathHelpers, HelperStores, Endings, Composition
     DEF handle_vpbroadcast_d_q, handle_vpbroadcast_b_w, handle_vmovddup
<1>10. /\ Safe(handle_vextractf128(i)) /\ Safe(handle_vinsertf128(i)) /\ Safe(handle_vpinsert(i))
       /\ Safe(handle_vinsertps(i)) /\ Safe(handle_vextractps(i))
  BY SteadySteps, HelperLoads, HelperStores, Endings, Asserted, Single, Composition
     DEF handle_vextractf128, handle_vinsertf128, handle_vpinsert, handle_vinsertps,
         handle_vextractps
<1>11. Safe(handle_vpmovsx(i)) /\ Safe(handle_vpmovzx(i)) /\ Safe(handle_vpmovwb(i))
  BY SteadySteps, HelperLoads, Endings, Single, Composition
     DEF handle_vpmovsx, handle_vpmovzx, handle_vpmovwb
<1>12. Safe(handle_vpmov_down(i))
  <2> DEFINE args == <<Reg(2, get_vector_size(Op(i, 2)))>>
             write == CASE IsVec(Op(i, 1)) -> <<Call(Vec(i, 1), args)>>
                        [] IsMem(Op(i, 1)) -> CallIntoMem(i, Op(i, 1).w, args)
                        [] OTHER           -> <<>>
  <2>1. /\ Safe(<<Call(Vec(i, 1), args)>>) /\ Safe(CallIntoMem(i, Op(i, 1).w, args))
        /\ Safe(<<>>) /\ Quiet(<<>>)
    BY HelperStores, Single, Composition
  <2>2. Safe(write)
    BY <2>1, Zenon
  <2>3. ~(IsVec(Op(i, 1)) \/ IsMem(Op(i, 1))) => Quiet(write)
    BY <2>1, Zenon
  <2> HIDE DEF write
  <2>4. Safe(write \o (IF IsVec(Op(i, 1)) \/ IsMem(Op(i, 1)) THEN MERR_OK ELSE MERR_INSN))
    BY <2>2, <2>3, Endings, Composition
  <2> QED BY <2>4 DEF handle_vpmov_down, write
<1> QED BY <1>1, <1>2, <1>3, <1>4, <1>5, <1>6, <1>7, <1>8, <1>9, <1>10, <1>11, <1>12,
           LogicHandlers, Zenon DEF apply_shuffle

(* the VMX filter's,                                                       *)
LEMMA VmxHandlers ==
  ASSUME NEW i
  PROVE  Safe(vmx_apply(i))
<1>1. \A dst, args : Safe(VMXIntrinsic(dst, args))
  BY Endings, Single, Composition DEF VMXIntrinsic
<1>2. \A n : Quiet(load_mem_address(i, n))
  BY QuietSteps, Single DEF load_mem_address
<1>3. /\ Safe(handle_vmx_no_op(i)) /\ Safe(handle_vmx_mem_op(i)) /\ Safe(handle_vmptrst(i))
      /\ Safe(handle_vmread(i)) /\ Safe(handle_invept(i)) /\ Safe(handle_invvpid(i))
  BY <1>1, <1>2, Composition
     DEF handle_vmx_no_op, handle_vmx_mem_op, handle_vmptrst, handle_vmread, handle_invept,
         handle_invvpid
<1>4. Safe(handle_vmwrite(i))
  BY <1>1, QuietSteps, Single, Composition DEF handle_vmwrite
<1> QED BY <1>3, <1>4, Endings, Composition, Zenon DEF vmx_apply

(* and with them AVXLifter::apply, whichever of them it picks.             *)
LEMMA AvxHandlers ==
  ASSUME NEW i
  PROVE  Safe(apply(i))
<1>1. Safe(handle_zmm_direct_call(i)) /\ Safe(MERR_OK) /\ Safe(MERR_INSN)
  BY Endings, Single, Composition DEF handle_zmm_direct_call
<1> QED BY <1>1, MaskHandlers, MovHandlers, CvtHandlers, MathHandlers, ShuffleHandlers, Zenon
        DEF apply

(* Whatever instruction the decoder hands over, valid or not, and whatever *)
(* its operands: the handler that apply() of either filter gives it to     *)
(* never writes before a step that may still end in MERR_INSN.             *)
THEOREM EveryHandlerDisciplined == \A i : Discipline(apply(i)) /\ Discipline(vmx_apply(i))
BY AvxHandlers, VmxHandlers DEF Safe

(* The function may hold any instructions and have any number of kregs: at *)
(* every moment the handler that runs is a disciplined one.                *)
THEOREM DisciplinedHolds ==
  ASSUME \A i \in Insns : Plan[i] \in {apply(i), vmx_apply(i)}
  PROVE  Spec => []Disciplined
<1>1. \A i \in Insns : Discipline(Plan[i])
  BY EveryHandlerDisciplined
<1>2. TypeOK => Disciplined
  BY <1>1 DEF TypeOK, Disciplined
<1> QED BY <1>2, TypeCorrect, PTL

(* All or nothing for the handlers as they are: whichever load, address or *)
(* allocation fails in whichever handler, an instruction given back to IDA *)
(* has left no register, flag or memory changed.                           *)
THEOREM HandlersAllOrNothing ==
  ASSUME \A i \in Insns : Plan[i] \in {apply(i), vmx_apply(i)}
  PROVE  Spec => []AllOrNothing
BY EveryHandlerDisciplined, AllOrNothingHolds

(* A lift is atomic where no QASSERT fails and what is emitted computes    *)
(* the promise.                                                            *)
THEOREM HandlersLiftAtomically ==
  ASSUME \A i \in Insns : Plan[i] \in {apply(i), vmx_apply(i)},
         \A i \in Insns : \A j \in 1..Len(Plan[i]) : Plan[i][j].do # "INTERR"
  PROVE  Spec /\ []ComputesPromise => LiftsAtomically
BY EveryHandlerDisciplined, LiftsAtomicallyHolds

----------------------------------------------------------------------------
(* Shapes. A part of a handler writes no register but that of operand 1,   *)
(* and does not jump beyond its end; a whole handler ends in a return that *)
(* nothing jumps over.                                                     *)
Part(p) ==
  /\ IsPlan(p)
  /\ \A j \in 1..Len(p) :
       Lands(p[j]) /\ p[j].skip \in Nat /\ (p[j].do \notin Final => j + p[j].skip <= Len(p))
Whole(p) ==
  /\ Part(p) /\ Len(p) \in Nat \ {0} /\ p[Len(p)].do \in Final
  /\ \A j \in 1..Len(p) : p[j].do \notin Final => j + p[j].skip < Len(p)

(* A part followed by a part is a part; followed by a whole, it is whole.  *)
LEMMA PartsCompose ==
  ASSUME NEW p, NEW q, Part(p), Part(q)
  PROVE  Part(p \o q) /\ (Whole(q) => Whole(p \o q))
<1>1. /\ IsPlan(p \o q) /\ Len(p) \in Nat /\ Len(q) \in Nat /\ Len(p \o q) = Len(p) + Len(q)
      /\ \A j \in 1..Len(p) + Len(q) : (p \o q)[j] = IF j <= Len(p) THEN p[j] ELSE q[j - Len(p)]
  BY Concatenation DEF Part
<1>2. ASSUME NEW j \in 1..Len(p \o q)
      PROVE  /\ Lands((p \o q)[j]) /\ (p \o q)[j].skip \in Nat
             /\ (p \o q)[j].do \notin Final => j + (p \o q)[j].skip <= Len(p \o q)
             /\ Whole(q) /\ (p \o q)[j].do \notin Final => j + (p \o q)[j].skip < Len(p \o q)
  <2>1. CASE j <= Len(p)
    <3>1. j \in 1..Len(p) /\ (p \o q)[j] = p[j]
      BY <1>1, <2>1
    <3>2. Lands(p[j]) /\ p[j].skip \in Nat /\ (p[j].do \notin Final => j + p[j].skip <= Len(p))
      BY <3>1 DEF Part
    <3> QED BY <1>1, <3>1, <3>2 DEF Whole
  <2>2. CASE ~(j <= Len(p))
    <3> DEFINE k == j - Len(p)
    <3>1. k \in 1..Len(q) /\ (p \o q)[j] = q[k] /\ j = k + Len(p)
      BY <1>1, <2>2
    <3> HIDE DEF k
    <3>2. Lands(q[k]) /\ q[k].skip \in Nat /\ (q[k].do \notin Final => k + q[k].skip <= Len(q))
      BY <3>1 DEF Part
    <3>3. Whole(q) /\ q[k].do \notin Final => k + q[k].skip < Len(q)
      BY <3>1 DEF Whole
    <3> QED BY <1>1, <3>1, <3>2, <3>3
  <2> QED BY <2>1, <2>2
<1>3. Part(p \o q)
  BY <1>1, <1>2 DEF Part
<1>4. ASSUME Whole(q) PROVE Whole(p \o q)
  <2>1. Len(q) # 0 /\ q[Len(q)].do \in Final
    BY <1>4 DEF Whole
  <2>2. Len(p \o q) \in Nat \ {0} /\ (p \o q)[Len(p \o q)] = q[Len(q)]
    BY <1>1, <2>1
  <2> QED BY <1>2, <1>3, <1>4, <2>1, <2>2 DEF Whole
<1> QED BY <1>3, <1>4

(* In the form the handlers need it.                                       *)
LEMMA Shapes ==
  /\ \A p, q : Part(p) /\ Part(q) => Part(p \o q)
  /\ \A p, q : Part(p) /\ Whole(q) => Whole(p \o q)
  /\ \A p : Whole(p) => Part(p)
<1>1. \A p : Whole(p) => Part(p)
  BY DEF Whole
<1> QED BY <1>1, PartsCompose

(* A step that lands where it may and goes on to the next makes a part.    *)
Tame(st) == Lands(st) /\ st.skip = 0

LEMMA TamePlans ==
  /\ Part(<<>>)
  /\ \A a : Tame(a) => Part(<<a>>)
  /\ \A a : Tame(a) /\ a.do \in Final => Whole(<<a>>)
  /\ \A a, b : Tame(a) /\ Tame(b) => Part(<<a, b>>)
  /\ \A a, b, c : Tame(a) /\ Tame(b) /\ Tame(c) => Part(<<a, b, c>>)
BY Tuples DEF Tame, Part, Whole

(* Longer ones are two in a row.                                           *)
LEMMA LongerParts ==
  /\ \A a, b, c, d : Tame(a) /\ Tame(b) /\ Tame(c) /\ Tame(d) => Part(<<a, b, c, d>>)
  /\ \A a, b, c, d, e :
       Tame(a) /\ Tame(b) /\ Tame(c) /\ Tame(d) /\ Tame(e) => Part(<<a, b, c, d, e>>)
<1>1. ASSUME NEW a, NEW b, NEW c, NEW d, Tame(a), Tame(b), Tame(c), Tame(d)
      PROVE  Part(<<a, b, c, d>>)
  <2>1. Part(<<a, b>>) /\ Part(<<c, d>>)
    BY <1>1, TamePlans
  <2>2. <<a, b, c, d>> = <<a, b>> \o <<c, d>>
    OBVIOUS
  <2>3. Part(<<a, b>> \o <<c, d>>)
    BY <2>1, Shapes
  <2> QED BY <2>2, <2>3
<1>2. ASSUME NEW a, NEW b, NEW c, NEW d, NEW e, Tame(a), Tame(b), Tame(c), Tame(d), Tame(e)
      PROVE  Part(<<a, b, c, d, e>>)
  <2>1. Part(<<a, b, c>>) /\ Part(<<d, e>>)
    BY <1>2, TamePlans
  <2>2. <<a, b, c, d, e>> = <<a, b, c>> \o <<d, e>>
    OBVIOUS
  <2>3. Part(<<a, b, c>> \o <<d, e>>)
    BY <2>1, Shapes
  <2> QED BY <2>2, <2>3
<1> QED BY <1>1, <1>2

(* The destinations of handlers, and their steps.                          *)
Into(dst) == dst.at \in {"tmp", "fx", "flag"} \/ dst.n = 1

LEMMA Destinations ==
  /\ \A v, w : Into(Tmp(v, w))
  /\ \A w : Into(Reg(1, w))
  /\ \A i : Into(Vec(i, 1))
  /\ Into(Effect) /\ Into(ZF) /\ Into(CF) /\ Into(OtherFlags)
BY DEF Into, Tmp, Reg, Vec, Effect, ZF, CF, OtherFlags, Flag

LEMMA TameSteps ==
  /\ \A n, v, w : Tame(LoadOp(n, v, w)) /\ Tame(LoadUnchecked(n, v, w))
  /\ \A n, v : Tame(Address(n, v))
  /\ \A v, w : Tame(Alloc(v, w)) /\ Tame(AllocUnchecked(v, w))
  /\ \A v, w, u : Tame(AllocElseFree(v, w, u))
  /\ \A v : Tame(Free(v))
  /\ \A n, s : Tame(StoreOp(n, s)) /\ Tame(StoreUnchecked(n, s))
  /\ \A v, w, s : Tame(WidenTmp(v, w, s))
  /\ \A dst, s : Into(dst) => /\ Tame(Mov(dst, s)) /\ Tame(Xdu(dst, s))
                             /\ Tame(I2f(dst, s)) /\ Tame(F2f(dst, s))
  /\ \A dst, args : Into(dst) => Tame(Call(dst, args)) /\ Tame(ScalarCall(dst, args))
  /\ \A n, dst : Into(dst) => Tame(AddressImm(n, dst))
  /\ \A merr : merr \in Final => Tame(Finish(merr)) /\ Finish(merr).do \in Final
BY DEF Tame, Lands, Into, LoadOp, LoadUnchecked, Address, Alloc, AllocUnchecked, AllocElseFree, Free,
       StoreOp, StoreUnchecked, WidenTmp, Mov, Xdu, I2f, F2f, Call, ScalarCall, AddressImm, Finish,
       Final, Emit, Step

(* The one step that may jump jumps over the one after it.                 *)
LEMMA JumpsOver ==
  ASSUME NEW n, NEW v, NEW b, Tame(b)
  PROVE  Part(<<AddressOrSkip(n, v, 1), b>>)
<1>1. /\ AddressOrSkip(n, v, 1).skip = 1 /\ Lands(AddressOrSkip(n, v, 1))
  BY DEF AddressOrSkip, Address, Step, Lands
<1> QED BY <1>1, Tuples DEF Tame, Part

(* The helpers: loads, ends, and stores.                                   *)
LEMMA ShapesOfHelpers ==
  /\ \A i, n, v : Part(emit_zmm_load(i, n, v))
  /\ \A i, n, v, size : Part(load_operand_udt(i, n, v, size))
  /\ \A i, n : Part(make_vector_load_mop(i, n)) /\ Part(load_memory_address(i, n))
  /\ \A i, n, v : Part(AvxOpLoader(i, n, v))
  /\ \A i, n, w : Part(add_vec_source(i, n, w))
  /\ \A i, n, w : Part(ScalarSource(i, n, w))
  /\ \A i, n, v : Part(FreeIfMem(i, n, v))
  /\ \A v, w : Part(emit_write_call(1, v, w))
  /\ Whole(MERR_OK) /\ Whole(MERR_INSN) /\ Whole(INTERR)
<1>1. \A i, n, v : Part(emit_zmm_load(i, n, v))
  BY TameSteps, Destinations, TamePlans DEF emit_zmm_load
<1>2. \A i, n, v, size : Part(load_operand_udt(i, n, v, size))
  BY <1>1, TameSteps, TamePlans DEF load_operand_udt
<1>3. \A i, n : Part(make_vector_load_mop(i, n)) /\ Part(load_memory_address(i, n))
  BY TameSteps, Destinations, TamePlans DEF make_vector_load_mop, load_memory_address
<1>4. \A i, n, v : Part(AvxOpLoader(i, n, v))
  BY <1>2, TamePlans DEF AvxOpLoader
<1>5. \A i, n, w : Part(add_vec_source(i, n, w))
  BY <1>4, TameSteps, TamePlans, Shapes DEF add_vec_source
<1>6. \A i, n, w : Part(ScalarSource(i, n, w))
  BY <1>4, TameSteps, Destinations, TamePlans, Shapes DEF ScalarSource
<1>7. \A i, n, v : Part(FreeIfMem(i, n, v))
  BY TameSteps, TamePlans DEF FreeIfMem
<1>8. \A v, w : Part(emit_write_call(1, v, w))
  BY TameSteps, Destinations, TamePlans DEF emit_write_call
<1>9. Whole(MERR_OK) /\ Whole(MERR_INSN) /\ Whole(INTERR)
  BY TameSteps, TamePlans DEF MERR_OK, MERR_INSN, INTERR, Final
<1> QED BY <1>1, <1>2, <1>3, <1>4, <1>5, <1>6, <1>7, <1>8, <1>9

LEMMA ShapesOfStores ==
  /\ \A i, n, src : Part(emit_vector_store(i, n, src))
  /\ \A i, n, src : Part(store_operand_hack(i, n, src))
  /\ \A i, n, src : Part(unchecked_store(i, n, src))
  /\ \A i, w, args : Part(CallIntoVec(i, w, args))
  /\ \A i, w, args : Part(CallIntoMem(i, w, args))
<1>1. \A i, n, src : Part(emit_vector_store(i, n, src))
  BY TameSteps, Destinations, TamePlans, Shapes DEF emit_vector_store
<1>2. \A i, n, src : Part(store_operand_hack(i, n, src))
  BY <1>1, TameSteps, TamePlans DEF store_operand_hack
<1>3. \A i, n, src : Part(unchecked_store(i, n, src))
  BY <1>1, TameSteps, Destinations, TamePlans, JumpsOver DEF unchecked_store
<1>4. \A i, w, args : Part(CallIntoVec(i, w, args))
  BY ShapesOfHelpers, TameSteps, Destinations, TamePlans, Shapes DEF CallIntoVec
<1>5. \A i, w, args : Part(CallIntoMem(i, w, args))
  BY <1>3, TameSteps, Destinations, TamePlans, Shapes DEF CallIntoMem
<1> QED BY <1>1, <1>2, <1>3, <1>4, <1>5

(* The ways in which handlers end, and what QASSERT guards.                *)
LEMMA ShapesOfEnds ==
  /\ \A dst, args : Into(dst) => /\ Whole(<<Call(dst, args)>> \o MERR_OK)
                                /\ Whole(<<ScalarCall(dst, args)>> \o MERR_OK)
  /\ \A c, p : Whole(p) => Whole(QASSERT(c, p))
  /\ \A c, p : Part(p) => Part(QASSERT(c, p))
  /\ \A i, args : Whole(Intrinsic(i, args))
  /\ \A i, imm : Whole(ScalarIntrinsic(i, imm))
  /\ \A i, imm : Whole(Unary(i, imm)) /\ Whole(Binary(i, imm)) /\ Whole(ScalarBinaryOp(i, imm))
  /\ \A i : Whole(accumulate(i)) /\ Whole(unary_with_imm(i)) /\ Whole(binary_with_imm(i))
<1>1. \A dst, args : Into(dst) => Whole(<<Call(dst, args)>> \o MERR_OK)
                                  /\ Whole(<<ScalarCall(dst, args)>> \o MERR_OK)
  BY ShapesOfHelpers, TameSteps, TamePlans, Shapes
<1>2. \A c, p : (Whole(p) => Whole(QASSERT(c, p))) /\ (Part(p) => Part(QASSERT(c, p)))
  BY ShapesOfHelpers, Shapes DEF QASSERT
<1>3. \A i, args : Whole(Intrinsic(i, args))
  BY <1>1, Destinations DEF Intrinsic
<1>4. \A i, imm : Whole(ScalarIntrinsic(i, imm))
  BY ShapesOfHelpers, TameSteps, Destinations, TamePlans, Shapes DEF ScalarIntrinsic
<1>5. \A i, imm : Whole(Unary(i, imm)) /\ Whole(Binary(i, imm)) /\ Whole(ScalarBinaryOp(i, imm))
  BY <1>3, <1>4, ShapesOfHelpers, Shapes DEF Unary, Binary, ScalarBinaryOp
<1>6. \A i : Whole(accumulate(i))
  BY ShapesOfHelpers, TameSteps, Destinations, TamePlans, Shapes DEF accumulate
<1>7. \A i : Whole(unary_with_imm(i)) /\ Whole(binary_with_imm(i))
  BY <1>2, <1>5 DEF unary_with_imm, binary_with_imm
<1> QED BY <1>1, <1>2, <1>3, <1>4, <1>5, <1>6, <1>7

(* Every handler of handler_math.cpp is whole,                             *)
LEMMA MathShapes ==
  ASSUME NEW i
  PROVE  Whole(apply_math(i))
<1>1. /\ Whole(handle_vsad(i)) /\ Whole(handle_v_abs(i)) /\ Whole(handle_v_sign(i))
      /\ Whole(handle_v_math_ph(i)) /\ Whole(handle_v_hmath(i)) /\ Whole(handle_vaddsubps_pd(i))
      /\ Whole(handle_v_minmax_ss_sd(i)) /\ Whole(handle_v_math_sh(i)) /\ Whole(handle_vsqrt_sh(i))
      /\ Whole(handle_vrcp_rsqrt(i)) /\ Whole(handle_vrcp_rsqrt_ss(i)) /\ Whole(handle_v_sqrt_ph(i))
      /\ Whole(handle_vsqrt_ps_pd(i)) /\ Whole(handle_v_getexp(i)) /\ Whole(handle_v_scalef(i))
      /\ Whole(handle_v_ifma(i)) /\ Whole(handle_v_vnni(i))
      /\ Whole(handle_v_getmant(i)) /\ Whole(handle_v_reduce(i))
      /\ Whole(handle_v_fixupimm(i)) /\ Whole(handle_v_range(i))
  BY ShapesOfEnds
     DEF handle_vsad, handle_v_abs, handle_v_sign, handle_v_math_ph, handle_v_hmath,
         handle_vaddsubps_pd, handle_v_minmax_ss_sd, handle_v_math_sh, handle_vsqrt_sh,
         handle_vrcp_rsqrt, handle_vrcp_rsqrt_ss, handle_v_sqrt_ph, handle_vsqrt_ps_pd,
         handle_v_getexp, handle_v_scalef, handle_v_ifma, handle_v_vnni, handle_v_getmant,
         handle_v_reduce, handle_v_fixupimm, handle_v_range
<1>2. Whole(handle_v_math_ss_sd(i))
  BY ShapesOfHelpers, ShapesOfEnds, TameSteps, Destinations, TamePlans, Shapes
     DEF handle_v_math_ss_sd
<1>3. Whole(handle_v_math_p(i))
  BY ShapesOfHelpers, ShapesOfStores, ShapesOfEnds, Shapes DEF handle_v_math_p
<1>4. Whole(handle_v_dot(i)) /\ Whole(handle_vround(i)) /\ Whole(handle_vround_ss_sd(i))
  BY ShapesOfHelpers, ShapesOfEnds, Shapes DEF handle_v_dot, handle_vround, handle_vround_ss_sd
<1>5. Whole(handle_v_fma(i)) /\ Whole(handle_v_fma_ph(i))
  BY ShapesOfHelpers, TameSteps, Destinations, TamePlans, Shapes DEF handle_v_fma, handle_v_fma_ph
<1>6. Whole(handle_v_complex_ph(i)) /\ Whole(handle_v_fp16_scalar_misc(i))
  BY ShapesOfHelpers, TameSteps, Destinations, TamePlans, Shapes
     DEF handle_v_complex_ph, handle_v_fp16_scalar_misc
<1>7. Whole(handle_v_bf16(i))
  <2>1. /\ Whole(AvxOpLoader(i, 2, "s") \o Binary(i, <<>>))
        /\ \A args : Whole(AvxOpLoader(i, 2, "s") \o Intrinsic(i, args))
        /\ Whole(accumulate(i)) /\ Whole(MERR_INSN)
    BY ShapesOfHelpers, ShapesOfEnds, Shapes
  <2> QED BY <2>1, Zenon DEF handle_v_bf16
<1>8. Whole(handle_vsqrtss(i)) /\ Whole(handle_vsqrtsd(i))
  BY ShapesOfHelpers, ShapesOfEnds, TameSteps, Destinations, LongerParts, Shapes
     DEF handle_vsqrtss, handle_vsqrtsd
<1> QED BY <1>1, <1>2, <1>3, <1>4, <1>5, <1>6, <1>7, <1>8, ShapesOfHelpers, Shapes, Zenon
        DEF apply_math

(* of handler_mov.cpp,                                                     *)
LEMMA MovShapes ==
  ASSUME NEW i
  PROVE  /\ Whole(handle_vmov_ss_sd(i)) /\ Whole(handle_vmov_sh(i)) /\ Whole(handle_vmovw(i))
         /\ Whole(handle_vmov(i)) /\ Whole(handle_v_mov_ps_dq(i))
         /\ Whole(handle_v_compress(i)) /\ Whole(handle_v_expand(i))
         /\ Whole(handle_v_gather(i)) /\ Whole(handle_v_scatter(i))
<1>1. Whole(masked_scalar_move(i))
  BY ShapesOfHelpers, TameSteps, Destinations, TamePlans, Shapes DEF masked_scalar_move
<1>2. Whole(handle_vmov_ss_sd(i))
  BY <1>1, ShapesOfHelpers, ShapesOfStores, ShapesOfEnds, TameSteps, Destinations, TamePlans,
     LongerParts, Shapes DEF handle_vmov_ss_sd
<1>3. Whole(handle_vmov_sh(i))
  BY <1>1, ShapesOfHelpers, ShapesOfStores, ShapesOfEnds, TameSteps, Destinations, TamePlans, Shapes
     DEF handle_vmov_sh
<1>4. Whole(handle_vmovw(i))
  BY ShapesOfHelpers, ShapesOfStores, TameSteps, Destinations, TamePlans, Shapes DEF handle_vmovw
<1>5. Whole(handle_vmov(i))
  BY ShapesOfHelpers, ShapesOfEnds, TameSteps, Destinations, TamePlans, LongerParts, Shapes
     DEF handle_vmov
<1>6. Whole(masked_v_mov(i))
  BY ShapesOfHelpers, ShapesOfEnds, TameSteps, Destinations, TamePlans, Shapes DEF masked_v_mov
<1>7. Whole(handle_v_mov_ps_dq(i))
  BY <1>6, ShapesOfHelpers, ShapesOfStores, ShapesOfEnds, TameSteps, Destinations, TamePlans, Shapes
     DEF handle_v_mov_ps_dq
<1>8. Whole(handle_v_compress(i)) /\ Whole(handle_v_expand(i))
  BY ShapesOfHelpers, TameSteps, Destinations, TamePlans, Shapes
     DEF handle_v_compress, handle_v_expand
<1>9. \A n : Part(BaseSteps(i, n)) /\ Part(FreeBase(i, n))
  BY TameSteps, Destinations, TamePlans DEF BaseSteps, FreeBase
<1>10. Whole(handle_v_gather(i))
  BY <1>9, ShapesOfHelpers, TameSteps, Destinations, TamePlans, Shapes DEF handle_v_gather
<1>11. Whole(handle_v_scatter(i))
  BY <1>9, ShapesOfHelpers, TameSteps, Destinations, TamePlans, Shapes DEF handle_v_scatter
<1> QED BY <1>2, <1>3, <1>4, <1>5, <1>7, <1>8, <1>10, <1>11

(* of those with opmasks,                                                  *)
LEMMA MaskShapes ==
  ASSUME NEW i
  PROVE  /\ Whole(handle_v_cmp_to_mask(i)) /\ Whole(handle_v_2src_to_mask(i))
         /\ Whole(handle_v_fpclass_to_mask(i)) /\ Whole(handle_v_movx2m(i))
         /\ Whole(handle_v_p2intersect(i)) /\ Whole(handle_v_mask_to_vec(i))
         /\ Whole(handle_v_broadcastm(i)) /\ Whole(handle_k_alu(i)) /\ Whole(handle_kmov(i))
<1>1. \A args, n : Whole(finish_mask_result(args, n))
  BY ShapesOfHelpers, TameSteps, Destinations, TamePlans, Shapes DEF finish_mask_result
<1>2. /\ Whole(handle_v_cmp_to_mask(i)) /\ Whole(handle_v_2src_to_mask(i))
      /\ Whole(handle_v_fpclass_to_mask(i)) /\ Whole(handle_v_movx2m(i))
  BY <1>1, ShapesOfHelpers, Shapes
     DEF handle_v_cmp_to_mask, handle_v_2src_to_mask, handle_v_fpclass_to_mask, handle_v_movx2m
<1>3. /\ Whole(handle_v_p2intersect(i)) /\ Whole(handle_v_mask_to_vec(i))
      /\ Whole(handle_v_broadcastm(i))
  BY ShapesOfHelpers, ShapesOfStores, TameSteps, Destinations, TamePlans, Shapes
     DEF handle_v_p2intersect, handle_v_mask_to_vec, handle_v_broadcastm
<1>4. Whole(handle_k_alu(i))
  BY ShapesOfHelpers, TameSteps, Destinations, TamePlans, Shapes DEF handle_k_alu
<1>5. Whole(handle_kmov(i))
  BY ShapesOfHelpers, ShapesOfStores, TameSteps, Destinations, TamePlans, Shapes DEF handle_kmov
<1> QED BY <1>2, <1>3, <1>4, <1>5

(* of handler_cvt.cpp,                                                     *)
LEMMA CvtShapes ==
  ASSUME NEW i
  PROVE  Whole(apply_cvt(i))
<1>1. \A w, dst : Whole(convert(i, w, dst))
  BY ShapesOfHelpers, TameSteps, Destinations, TamePlans, Shapes DEF convert
<1>2. /\ Whole(handle_vcvtdq2ps(i)) /\ Whole(handle_vcvt_ps2dq(i)) /\ Whole(handle_vcvt_ps2udq(i))
      /\ Whole(handle_vcvt_udq2ps(i)) /\ Whole(handle_vcvt_udq2pd(i)) /\ Whole(handle_vcvt_pd2qq(i))
      /\ Whole(handle_vcvt_ps2qq(i)) /\ Whole(handle_vcvt_qq2fp(i)) /\ Whole(handle_vcvt_pd2udq(i))
      /\ Whole(handle_vcvtpd2ps(i)) /\ Whole(handle_vcvt_pd2dq(i))
  BY <1>1
     DEF same_size, handle_vcvtdq2ps, handle_vcvt_ps2dq, handle_vcvt_ps2udq, handle_vcvt_udq2ps,
         handle_vcvt_udq2pd, handle_vcvt_pd2qq, handle_vcvt_ps2qq, handle_vcvt_qq2fp,
         handle_vcvt_pd2udq, handle_vcvtpd2ps, handle_vcvt_pd2dq
<1>3. Whole(handle_vcvtps2pd(i)) /\ Whole(handle_vcvtdq2pd(i))
  <2>1. \A half, dst : Whole(from_xmm(i, half, dst))
    BY <1>1, ShapesOfHelpers, TameSteps, Destinations, TamePlans, Shapes DEF from_xmm
  <2> QED BY <2>1 DEF handle_vcvtps2pd, handle_vcvtdq2pd
<1>4. Whole(handle_vcvt_fp16(i)) /\ Whole(handle_vmxcsr(i))
  BY ShapesOfHelpers, ShapesOfStores, TameSteps, Destinations, TamePlans, Shapes
     DEF handle_vcvt_fp16, handle_vmxcsr
<1>5. Whole(handle_vcvtsi2fp(i))
  <2>1. ASSUME NEW a, NEW b, NEW c, NEW d, NEW e, NEW f, NEW g, NEW h,
               Tame(a), Tame(b), Tame(c), Tame(d), Tame(e), Tame(f), Tame(g), Tame(h)
        PROVE  Part(<<a, b, c, d, e, f, g, h>>)
    <3>1. <<a, b, c, d, e, f, g, h>> = <<a, b, c>> \o (<<d, e>> \o <<f, g, h>>)
      OBVIOUS
    <3>2. Part(<<a, b, c>> \o (<<d, e>> \o <<f, g, h>>))
      BY <2>1, TamePlans, Shapes
    <3> QED BY <3>1, <3>2
  <2> QED BY <2>1, ShapesOfHelpers, TameSteps, Destinations, Shapes DEF handle_vcvtsi2fp
<1>6. Whole(handle_vcvtfp2fp(i))
  BY ShapesOfHelpers, TameSteps, Destinations, TamePlans, LongerParts, Shapes DEF handle_vcvtfp2fp
<1>7. Whole(handle_vcvt_scalar_ext(i))
  <2>1. /\ \A w, args : Whole(add_vec_source(i, 2, 16) \o <<Call(Reg(1, w), args)>> \o MERR_OK)
        /\ \A w, args : Whole(AvxOpLoader(i, 3, "s") \o <<ScalarCall(Reg(1, w), args)>> \o MERR_OK)
        /\ \A w, args : Whole(add_vec_source(i, 3, 16) \o <<ScalarCall(Reg(1, w), args)>> \o MERR_OK)
    BY ShapesOfHelpers, TameSteps, Destinations, TamePlans, Shapes
  <2> QED BY <2>1, Zenon DEF handle_vcvt_scalar_ext
<1> QED BY <1>2, <1>3, <1>4, <1>5, <1>6, <1>7, Zenon DEF apply_cvt

(* of handler_logic.cpp, shifts to tests,                                  *)
LEMMA LogicShapes ==
  ASSUME NEW i
  PROVE  Whole(apply_logic(i))
<1>1. /\ Whole(handle_v_bitwise(i)) /\ Whole(handle_v_var_shift(i)) /\ Whole(handle_v_var_rotate(i))
      /\ Whole(handle_v_conflict(i)) /\ Whole(handle_v_popcnt(i)) /\ Whole(handle_v_lzcnt(i))
      /\ Whole(handle_v_aes(i)) /\ Whole(handle_vzeroupper_nop(i)) /\ Whole(handle_vpcmp_int(i))
      /\ Whole(handle_vblend_imm_ps_pd(i)) /\ Whole(handle_vphsub_sw(i)) /\ Whole(handle_vpack(i))
      /\ Whole(handle_vphminposuw(i))
  BY ShapesOfHelpers, ShapesOfEnds, Shapes
     DEF handle_v_bitwise, handle_v_var_shift, handle_v_var_rotate, handle_v_conflict,
         handle_v_popcnt, handle_v_lzcnt, handle_v_aes, handle_vzeroupper_nop, handle_vpcmp_int,
         handle_vblend_imm_ps_pd, handle_vphsub_sw, handle_vpack, handle_vphminposuw
<1>2. \A j : Whole(handle_v_shift(j)) /\ Whole(handle_v_rotate(j))
  BY ShapesOfHelpers, ShapesOfEnds, Shapes DEF handle_v_shift, handle_v_rotate
<1>3. Whole(handle_vpslldq_vpsrldq(i))
  BY <1>2 DEF handle_vpslldq_vpsrldq
<1>4. /\ Whole(handle_v_shift_double(i)) /\ Whole(handle_v_multishift(i))
      /\ Whole(handle_v_ternary_logic(i)) /\ Whole(handle_v_gfni(i))
      /\ Whole(handle_vcmp_ps_pd(i)) /\ Whole(handle_vblendv_ps_pd(i)) /\ Whole(handle_vblend_int(i))
  BY ShapesOfHelpers, ShapesOfEnds, Shapes
     DEF handle_v_shift_double, handle_v_multishift, handle_v_ternary_logic, handle_v_gfni,
         handle_vcmp_ps_pd, handle_vblendv_ps_pd, handle_vblend_int
<1>5. Whole(handle_v_pclmul(i)) /\ Whole(handle_v_sha(i))
  BY ShapesOfHelpers, ShapesOfEnds, TameSteps, Destinations, TamePlans, Shapes
     DEF handle_v_pclmul, handle_v_sha
<1>6. Whole(handle_cache_ctrl(i)) /\ Whole(handle_vzeroall(i)) /\ Whole(handle_vmovmsk(i))
  BY ShapesOfHelpers, TameSteps, Destinations, TamePlans, Shapes
     DEF handle_cache_ctrl, handle_vzeroall, handle_vmovmsk
<1>7. Whole(handle_v_blendm(i)) /\ Whole(handle_v_4fma(i)) /\ Whole(handle_v_er(i))
  BY ShapesOfHelpers, ShapesOfStores, TameSteps, Destinations, TamePlans, Shapes
     DEF handle_v_blendm, handle_v_4fma, handle_v_er
<1>8. Whole(handle_vmaskmov_ps_pd(i))
  BY ShapesOfHelpers, ShapesOfStores, ShapesOfEnds, TameSteps, Destinations, TamePlans, LongerParts,
     Shapes
     DEF handle_vmaskmov_ps_pd
<1>9. Whole(handle_vpmaskmov_int(i))
  <2>1. \A n, args :
          /\ Whole(load_memory_address(i, n) \o <<Call(Effect, args)>> \o MERR_OK)
          /\ Whole(load_memory_address(i, n) \o <<Call(Vec(i, 1), args)>> \o MERR_OK)
    BY ShapesOfHelpers, TameSteps, Destinations, TamePlans, Shapes
  <2> QED BY <2>1, ShapesOfHelpers, Shapes, Zenon DEF handle_vpmaskmov_int
<1>10. Whole(handle_vmovnt(i))
  BY ShapesOfHelpers, ShapesOfStores, ShapesOfEnds, TameSteps, Destinations, TamePlans, Shapes
     DEF handle_vmovnt
<1>11. Whole(handle_vptest(i)) /\ Whole(handle_vtest_ps_pd(i))
  BY ShapesOfHelpers, TameSteps, Destinations, TamePlans, Shapes
     DEF handle_vptest, handle_vtest_ps_pd, emit_test_flags
<1>12. Whole(handle_v_comish(i))
  BY ShapesOfHelpers, TameSteps, Destinations, TamePlans, Shapes DEF handle_v_comish
<1>13. Whole(handle_vfmaddsub(i))
  BY ShapesOfHelpers, ShapesOfEnds, Shapes DEF handle_vfmaddsub
<1> QED BY <1>1, <1>2, <1>3, <1>4, <1>5, <1>6, <1>7, <1>8, <1>9, <1>10, <1>11, <1>12, <1>13,
           ShapesOfHelpers, Shapes, Zenon DEF apply_logic

(* and its permutes, broadcasts and lanes;                                 *)
LEMMA ShuffleShapes ==
  ASSUME NEW i
  PROVE  Whole(apply_shuffle(i))
<1>1. /\ \A j : Whole(handle_v_align(j))
      /\ Whole(handle_vshufps(i)) /\ Whole(handle_vshufpd(i)) /\ Whole(handle_v_shuffle_int(i))
      /\ Whole(handle_v_permutex(i)) /\ Whole(handle_vmovlhps(i)) /\ Whole(handle_vmovhlps(i))
      /\ Whole(handle_vmovshdup(i)) /\ Whole(handle_vmovsldup(i))
      /\ Whole(handle_vunpck(i)) /\ Whole(handle_vpunpck(i))
  BY ShapesOfHelpers, ShapesOfEnds, Shapes
     DEF handle_v_align, handle_vshufps, handle_vshufpd, handle_v_shuffle_int, handle_v_permutex,
         handle_vmovlhps, handle_vmovhlps, handle_vmovshdup, handle_vmovsldup, handle_vunpck,
         handle_vpunpck
<1>2. Whole(handle_vperm2f128_i128(i))
  BY <1>1, ShapesOfEnds DEF handle_vperm2f128_i128
<1>3. Whole(handle_v_shuf_lane(i)) /\ Whole(handle_vpermpd(i)) /\ Whole(handle_v_permutex2(i))
  BY ShapesOfHelpers, ShapesOfStores, ShapesOfEnds, TameSteps, Destinations, TamePlans, Shapes
     DEF handle_v_shuf_lane, handle_vpermpd, handle_v_permutex2
<1>4. Whole(handle_v_perm_int(i))
  <2>1. \A n, args : Whole(AvxOpLoader(i, n, "s") \o Intrinsic(i, args))
    BY ShapesOfHelpers, ShapesOfEnds, Shapes
  <2>2. \A args : Whole(IF ~YmmOrZmm(i) THEN MERR_INSN
                       ELSE IF IsImm(i, 3) THEN Intrinsic(i, <<Src(i, 2), Imm(3)>>)
                       ELSE AvxOpLoader(i, 3, "s") \o Intrinsic(i, args))
    BY <2>1, ShapesOfHelpers, ShapesOfEnds, Shapes, Zenon
  <2>3. \A p : Whole(p) => Whole(AvxOpLoader(i, 2, "s") \o p) /\ Whole(AvxOpLoader(i, 3, "s") \o p)
    BY ShapesOfHelpers, Shapes
  <2>4. /\ \A args : Whole(IF YmmOrZmm(i) THEN Intrinsic(i, args) ELSE MERR_INSN)
        /\ \A args : Whole(IF Op(i, 1).k # "ymm" \/ Masked(i) \/ Op(i, 2).k # "ymm" THEN MERR_INSN
                         ELSE AvxOpLoader(i, 3, "s") \o Intrinsic(i, args))
        /\ Whole(IF IsImm(i, 3) THEN Intrinsic(i, <<Src(i, 2), Imm(3)>>) ELSE Binary(i, <<>>))
    BY <2>1, ShapesOfHelpers, ShapesOfEnds, Shapes
  <2> QED BY <2>2, <2>3, <2>4, Zenon DEF handle_v_perm_int
<1>5. Whole(handle_vmovl_h_ps_pd(i))
  <2>1. \A n, args :
          /\ Whole(load_memory_address(i, n) \o <<Call(Effect, args)>> \o MERR_OK)
          /\ Whole(load_memory_address(i, n) \o <<Call(Reg(1, 16), args)>> \o MERR_OK)
    BY ShapesOfHelpers, TameSteps, Destinations, TamePlans, Shapes
  <2> QED BY <2>1, ShapesOfHelpers, Shapes, Zenon DEF handle_vmovl_h_ps_pd
<1>6. Whole(handle_vbroadcast_ss_sd(i))
  BY ShapesOfHelpers, ShapesOfStores, TameSteps, Destinations, TamePlans, Shapes
     DEF handle_vbroadcast_ss_sd
<1>7. Whole(handle_vbroadcastf128_fp(i)) /\ Whole(handle_vbroadcasti128_int(i))
  BY ShapesOfHelpers, ShapesOfEnds, TameSteps, Destinations, TamePlans, LongerParts, Shapes
     DEF handle_vbroadcastf128_fp, handle_vbroadcasti128_int
<1>8. Whole(broadcast_low(i)) /\ Whole(handle_vbroadcast_x4(i)) /\ Whole(handle_v_broadcast_x2(i))
  BY ShapesOfHelpers, ShapesOfStores, ShapesOfEnds, TameSteps, Destinations, TamePlans, Shapes
     DEF broadcast_low, handle_vbroadcast_x4, handle_v_broadcast_x2
<1>9. /\ Whole(handle_vpbroadcast_d_q(i)) /\ Whole(handle_vpbroadcast_b_w(i))
      /\ Whole(handle_vmovddup(i))
  BY <1>8, ShapesOfHelpers, ShapesOfStores, ShapesOfEnds, Shapes
     DEF handle_vpbroadcast_d_q, handle_vpbroadcast_b_w, handle_vmovddup
<1>10. /\ Whole(handle_vextractf128(i)) /\ Whole(handle_vinsertf128(i)) /\ Whole(handle_vpinsert(i))
       /\ Whole(handle_vinsertps(i)) /\ Whole(handle_vextractps(i))
  BY ShapesOfHelpers, ShapesOfStores, ShapesOfEnds, TameSteps, Destinations, TamePlans, Shapes
     DEF handle_vextractf128, handle_vinsertf128, handle_vpinsert, handle_vinsertps,
         handle_vextractps
<1>11. Whole(handle_vpmovsx(i)) /\ Whole(handle_vpmovzx(i)) /\ Whole(handle_vpmovwb(i))
  BY ShapesOfHelpers, TameSteps, Destinations, TamePlans, Shapes
     DEF handle_vpmovsx, handle_vpmovzx, handle_vpmovwb
<1>12. Whole(handle_vpmov_down(i))
  <2> DEFINE args == <<Reg(2, get_vector_size(Op(i, 2)))>>
             write == CASE IsVec(Op(i, 1)) -> <<Call(Vec(i, 1), args)>>
                        [] IsMem(Op(i, 1)) -> CallIntoMem(i, Op(i, 1).w, args)
                        [] OTHER           -> <<>>
  <2>1. Part(<<Call(Vec(i, 1), args)>>) /\ Part(CallIntoMem(i, Op(i, 1).w, args)) /\ Part(<<>>)
    BY ShapesOfStores, TameSteps, Destinations, TamePlans
  <2>2. Part(write)
    BY <2>1, Zenon
  <2> HIDE DEF write
  <2>3. Whole(write \o (IF IsVec(Op(i, 1)) \/ IsMem(Op(i, 1)) THEN MERR_OK ELSE MERR_INSN))
    BY <2>2, ShapesOfHelpers, Shapes
  <2> QED BY <2>3 DEF handle_vpmov_down, write
<1> QED BY <1>1, <1>2, <1>3, <1>4, <1>5, <1>6, <1>7, <1>8, <1>9, <1>10, <1>11, <1>12,
           LogicShapes, Zenon DEF apply_shuffle

(* the VMX filter's,                                                       *)
LEMMA VmxShapes ==
  ASSUME NEW i
  PROVE  Whole(vmx_apply(i))
<1>1. \A args : Whole(VMXIntrinsic(Effect, args)) /\ \A w : Whole(VMXIntrinsic(Reg(1, w), args))
  BY ShapesOfEnds, Destinations DEF VMXIntrinsic
<1>2. \A n : Part(load_mem_address(i, n))
  BY TameSteps, TamePlans DEF load_mem_address
<1>3. /\ Whole(handle_vmx_no_op(i)) /\ Whole(handle_vmx_mem_op(i)) /\ Whole(handle_vmptrst(i))
      /\ Whole(handle_vmread(i)) /\ Whole(handle_invept(i)) /\ Whole(handle_invvpid(i))
  BY <1>1, <1>2, Shapes
     DEF handle_vmx_no_op, handle_vmx_mem_op, handle_vmptrst, handle_vmread, handle_invept,
         handle_invvpid
<1>4. Whole(handle_vmwrite(i))
  BY <1>1, TameSteps, TamePlans, Shapes DEF handle_vmwrite
<1> QED BY <1>3, <1>4, ShapesOfHelpers, Zenon DEF vmx_apply

(* and with them whatever either filter gives an instruction to.           *)
THEOREM EveryHandlerWhole == \A i : Whole(apply(i)) /\ Whole(vmx_apply(i))
<1> SUFFICES ASSUME NEW i PROVE Whole(apply(i))
  BY VmxShapes
<1>1. Whole(handle_zmm_direct_call(i)) /\ Whole(MERR_OK) /\ Whole(MERR_INSN)
  BY ShapesOfHelpers, ShapesOfEnds, Destinations DEF handle_zmm_direct_call
<1> QED BY <1>1, MaskShapes, MovShapes, CvtShapes, MathShapes, ShuffleShapes, Zenon DEF apply

(* No register but the one of operand 1 is ever changed, by any            *)
(* instruction, in whatever operands, and whatever fails on the way.       *)
THEOREM HandlersChangeOnlyDestination ==
  ASSUME \A i \in Insns : Plan[i] \in {apply(i), vmx_apply(i)}
  PROVE  Spec => []OnlyDestinationChanges
<1> DEFINE Untouched ==
      \A loc \in Locs :
        loc[1] \notin {"m", "f", "fx"} /\ (insn # NoInsn => loc[2] # Op(insn, 1).r)
        => arch[loc] = OldVal(loc)
<1>1. Init => Untouched
  BY DEF Init, OldArch
<1>2. TypeOK /\ Untouched /\ [Next]_vars => Untouched'
  <2> SUFFICES ASSUME TypeOK, Untouched, [Next]_vars PROVE Untouched'
    OBVIOUS
  <2>1. CASE UNCHANGED <<insn, arch>>
    BY <2>1
  <2>2. CASE Leave \/ NextFunction
    BY <2>2 DEF Leave, NextFunction, Idle, OldArch
  <2>3. CASE Begin
    <3>1. arch' = arch /\ insn = NoInsn /\ insn' \in Insns /\ insn' # NoInsn
      BY <2>3, CodegenAssumption DEF Begin, TypeOK
    <3> QED BY <3>1
  <2>4. CASE StoreOperand
    <3>1. \A loc \in Locs : loc[1] # "m" => arch'[loc] = arch[loc]
      BY <2>4 DEF StoreOperand, TypeOK
    <3>2. insn' = insn
      BY <2>4 DEF StoreOperand
    <3> QED BY <3>1, <3>2
  <2>5. CASE EmitToArch
    <3> DEFINE st == Plan[insn][pc]
    <3>1. st.do = "emit" /\ st.dst.at # "tmp" /\ insn' = insn /\ result = "none"
      BY <2>5 DEF EmitToArch, Running
    <3>2. insn \in Insns /\ pc \in 1..Len(Plan[insn]) /\ insn # NoInsn
      BY <3>1, CodegenAssumption DEF TypeOK
    <3>3. Lands(st)
      BY <3>2, EveryHandlerWhole DEF Whole, Part
    <3>4. DstLoc(insn, st.dst)[1] \in {"f", "fx"} \/ DstLoc(insn, st.dst)[2] = Op(insn, 1).r
      BY <3>1, <3>3 DEF Lands, DstLoc, RegLoc
    <3>5. \A loc \in Locs : loc # DstLoc(insn, st.dst) => arch'[loc] = arch[loc]
      BY <2>5 DEF EmitToArch, TypeOK
    <3> HIDE DEF st
    <3> QED BY <3>1, <3>2, <3>4, <3>5
  <2>6. CASE Load \/ LoadAddress \/ AllocKreg \/ Widen \/ FreeKreg \/ EmitToKreg \/ Return
    BY <2>1, <2>6 DEF Load, LoadAddress, AllocKreg, Widen, FreeKreg, EmitToKreg, Return
  <2> QED BY <2>1, <2>2, <2>3, <2>4, <2>5, <2>6 DEF Next, vars
<1>3. Untouched => OnlyDestinationChanges
  BY DEF OnlyDestinationChanges
<1> QED BY <1>1, <1>2, <1>3, TypeCorrect, PTL DEF Spec
=============================================================================
