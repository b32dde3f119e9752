---------------------------- MODULE HandlersCvt ----------------------------
(***************************************************************************)
(* The plans of handlers/handler_cvt.cpp: conversions between number       *)
(* formats, packed and scalar, and moves of the control register mxcsr.    *)
(* Packed ones emit one intrinsic; what differs is how wide the handler    *)
(* takes the source to be. Scalar ones either call an intrinsic on XMM     *)
(* values or convert in a kreg with native microcode.                      *)
(***************************************************************************)
EXTENDS HandlersMath

(* An intrinsic of operand 2, of w bytes, without opmask.                  *)
convert(i, w, dst) ==
  AvxOpLoader(i, 2, "s") \o <<Call(Reg(1, dst), <<Loaded(i, 2, "s", w)>>)>> \o MERR_OK
same_size(i) == convert(i, Op(i, 1).w, Op(i, 1).w)

handle_vcvtdq2ps(i)   == same_size(i)
handle_vcvt_ps2dq(i)  == same_size(i)
handle_vcvt_ps2udq(i) == same_size(i)
handle_vcvt_udq2ps(i) == same_size(i)

handle_vcvt_udq2pd(i) == convert(i, Op(i, 1).w \div 2, Op(i, 1).w)
handle_vcvt_pd2qq(i)  == convert(i, Op(i, 2).w, Op(i, 1).w)
handle_vcvt_ps2qq(i)  == convert(i, Op(i, 2).w, Op(i, 1).w)
handle_vcvt_qq2fp(i)  == convert(i, Op(i, 2).w, Op(i, 1).w)
handle_vcvt_pd2udq(i) == convert(i, Op(i, 2).w, Op(i, 1).w)

(* Any source that is not 32 bytes wide is taken to have 16.               *)
handle_vcvtpd2ps(i)  == convert(i, IF Op(i, 2).w = 32 THEN 32 ELSE 16, 16)
handle_vcvt_pd2dq(i) == handle_vcvtpd2ps(i)

(* The source is an XMM value, widened in t if less was loaded.            *)
from_xmm(i, half, dst) ==
  IF IsMem(Op(i, 2)) /\ half < 16
  THEN ScalarSource(i, 2, half) \o <<Call(Reg(1, dst), <<Tmp("t", 16)>>), Free("t")>> \o MERR_OK
  ELSE convert(i, 16, dst)

handle_vcvtps2pd(i) ==
  LET src128 == IF IsXmm(Op(i, 1)) THEN 8 ELSE 16 IN from_xmm(i, src128, 2 * src128)
handle_vcvtdq2pd(i) == from_xmm(i, Op(i, 1).w \div 2, Op(i, 1).w)

(* Half-precision formats, to a register or to memory.                     *)
handle_vcvt_fp16(i) ==
  LET args == <<Loaded(i, 2, "s", Op(i, 2).w)>> \o (IF Op(i, 3).k = "imm" THEN <<Imm(3)>> ELSE <<>>)
  IN  AvxOpLoader(i, 2, "s")
      \o (IF IsVec(Op(i, 1)) THEN CallIntoVec(i, Op(i, 1).w, args)
          ELSE CallIntoMem(i, Op(i, 1).w, args))
      \o MERR_OK

----------------------------------------------------------------------------
(* Scalars.                                                                *)
fp_size(i) == IF i.it \in {"vcvtsi2sd", "vcvtss2sd"} THEN 8 ELSE 4

(* The integer becomes a floating-point number of its own size, and that   *)
(* one of the size of the destination, in a copy of operand 2.             *)
handle_vcvtsi2fp(i) ==
  LET src == Op(i, 3).w
  IN  AvxOpLoader(i, 3, "s")
      \o <<Alloc("t", 16), AllocElseFree("tmp", src, "t"),
           Mov(Tmp("t", 16), Reg(2, 16)),
           I2f(Tmp("tmp", src), Loaded(i, 3, "s", src)),
           F2f(Tmp("t", fp_size(i)), Tmp("tmp", src)),
           Mov(Reg(1, 16), Tmp("t", 16)),
           Free("t"), Free("tmp")>>
      \o MERR_OK

(* After a call of a function that uses ZMM registers the float is read    *)
(* through __readzmm_f32.                                                  *)
previous_insn_is_zmm_call(i) == i.ret

handle_vcvtfp2fp(i) ==
  LET src  == IF i.it = "vcvtss2sd" THEN 4 ELSE 8
      mask == IF Masked(i)
              THEN MergeArg(i, 16) \o <<add_argument_mask(from_insn(i, fp_size(i)))>> ELSE <<>>
  IN  IF i.it = "vcvtss2sd" /\ IsXmm(Op(i, 3)) /\ previous_insn_is_zmm_call(i)
      THEN <<Alloc("t", 4), Mov(Tmp("t", 4), Reg(3, 64)), F2f(Reg(1, 8), Tmp("t", 4))>> \o MERR_OK
      ELSE IF Masked(i)
      THEN ScalarSource(i, 3, src)
           \o <<ScalarCall(Reg(1, 16), mask \o <<Reg(2, 16), Loaded(i, 3, "t", 16)>>)>>
           \o FreeIfMem(i, 3, "t") \o MERR_OK
      ELSE AvxOpLoader(i, 3, "s")
           \o <<Alloc("t", 16), Mov(Tmp("t", 16), Reg(2, 16)),
                F2f(Tmp("t", fp_size(i)), Loaded(i, 3, "s", src)),
                Mov(Reg(1, 16), Tmp("t", 16)), Free("t")>>
           \o MERR_OK

(* To a general register; from one; to and from half precision.            *)
handle_vcvt_scalar_ext(i) ==
  CASE i.it \in ScalarToGpr ->
         add_vec_source(i, 2, 16) \o <<Call(Reg(1, Op(i, 1).w), <<VecSource(i, 2, 16)>>)>> \o MERR_OK
    [] i.it \in IntToScalar ->
         AvxOpLoader(i, 3, "s")
         \o <<ScalarCall(Reg(1, 16), <<Reg(2, 16), Loaded(i, 3, "s", Op(i, 3).w)>>)>> \o MERR_OK
    [] OTHER ->
         add_vec_source(i, 3, 16)
         \o <<ScalarCall(Reg(1, 16), <<Reg(2, 16), VecSource(i, 3, 16)>>)>> \o MERR_OK

handle_vmxcsr(i) ==
  IF i.it = "vldmxcsr"
  THEN AvxOpLoader(i, 1, "s") \o <<Call(Effect, <<Tmp("s", 4)>>)>> \o MERR_OK
  ELSE CallIntoMem(i, 4, <<>>) \o MERR_OK
=============================================================================
