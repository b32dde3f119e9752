---------------------------- MODULE HandlersMath ----------------------------
(***************************************************************************)
(* The plans of handlers/handler_math.cpp. Most load operand 2 or 3 and    *)
(* emit one intrinsic, named after the instruction; what differs is the    *)
(* order of its arguments, whether it knows opmasks, and what happens to a *)
(* scalar operand in memory.                                               *)
(***************************************************************************)
EXTENDS Microcode

IsScalar(i) == i.it \in ScalarMath
Vec(i, n)   == Reg(n, Op(i, 1).w)
Src(i, n)   == Loaded(i, n, "s", Op(i, 1).w)
VecRegs12(i) == IsVec(Op(i, 1)) /\ IsVec(Op(i, 2))
Xmms12(i)    == IsXmm(Op(i, 1)) /\ IsXmm(Op(i, 2))

(* A handler without MaskInfo lifts a masked form as if it had no opmask.  *)
IgnoresMask(i) == [i EXCEPT !.mask = "none"]

(* The intrinsic of a packed instruction, and of a scalar one whose        *)
(* operand 3 is widened to an XMM value.                                   *)
Intrinsic(i, args) ==
  <<Call(Reg(1, Op(i, 1).w), MaskedArgs(i, Op(i, 1).w, args))>> \o MERR_OK
ScalarIntrinsic(i, imm) ==
  <<ScalarCall(Reg(1, 16),
      MaskedArgs(i, 16, <<Reg(2, 16), Loaded(i, 3, "t", 16)>> \o imm))>>
  \o FreeIfMem(i, 3, "t") \o MERR_OK

(* op a, b and op a with an optional immediate.                            *)
Unary(i, imm)  == AvxOpLoader(i, 2, "s") \o Intrinsic(i, <<Src(i, 2)>> \o imm)
Binary(i, imm) == AvxOpLoader(i, 3, "s") \o Intrinsic(i, <<Vec(i, 2), Src(i, 3)>> \o imm)
ScalarBinaryOp(i, imm) == ScalarSource(i, 3, i.es) \o ScalarIntrinsic(i, imm)

----------------------------------------------------------------------------
(* Add, subtract, multiply, divide, minimum and maximum.                   *)

(* Native microcode. A missing operand 3 is the destination. Operand 3 is  *)
(* saved, in a kreg that nothing frees, before operand 2 overwrites it.    *)
handle_v_math_ss_sd(i) ==
  LET r == IF Op(i, 3).k = "void" THEN Reg(1, i.es) ELSE Loaded(i, 3, "s", i.es)
      copied == Op(i, 2).r # Op(i, 1).r
      aliased == copied /\ (Op(i, 3).k = "void" \/ (IsXmm(Op(i, 3)) /\ Op(i, 3).r = Op(i, 1).r))
  IN  QASSERT(VecRegs12(i),
        AvxOpLoader(i, 3, "s")
        \o (IF aliased THEN <<Alloc("t", i.es), Mov(Tmp("t", i.es), r)>> ELSE <<>>)
        \o (IF copied THEN <<Mov(Reg(1, 16), Reg(2, 16))>> ELSE <<>>)
        \o <<Call(Reg(1, i.es), <<Reg(2, i.es), IF aliased THEN Tmp("t", i.es) ELSE r>>)>>
        \o MERR_OK)

handle_v_minmax_ss_sd(i) == QASSERT(Xmms12(i), ScalarBinaryOp(i, <<>>))
handle_v_math_sh(i)      == QASSERT(Xmms12(i), ScalarBinaryOp(i, <<>>))
handle_v_math_ph(i)      == QASSERT(VecRegs12(i), Binary(i, <<>>))
handle_vaddsubps_pd(i)   == Binary(i, <<>>)

(* The bytes of an element as the handler counts them: of the sources, for *)
(* the products whose results are wider.                                   *)
math_p_elem_size(i) == IF i.it \in WideProducts THEN i.es \div 2 ELSE i.es

(* At 64 bytes the result goes through a kreg and __writezmm.              *)
handle_v_math_p(i) ==
  LET w == Op(i, 1).w
      mask == add_argument_mask(from_insn(i, math_p_elem_size(i)))
      args == (IF Masked(i) THEN MergeArg(i, w) \o <<mask>> ELSE <<>>) \o <<Vec(i, 2), Src(i, 3)>>
  IN  QASSERT(VecRegs12(i),
        AvxOpLoader(i, 3, "s")
        \o CallIntoVec(i, w, args) \o MERR_OK)

(* vpabs and vpsign, horizontal operations, dot products and sums of       *)
(* absolute differences know no opmask.                                    *)
handle_v_abs(i)   == Unary(IgnoresMask(i), <<>>)
handle_v_sign(i)  == Binary(IgnoresMask(i), <<>>)
handle_v_hmath(i) == QASSERT(VecRegs12(i), Binary(IgnoresMask(i), <<>>))
handle_v_dot(i) ==
  QASSERT(VecRegs12(i),
    AvxOpLoader(i, 3, "s")
    \o QASSERT(Op(i, 4).k = "imm",
         Intrinsic(IgnoresMask(i), <<Vec(i, 2), Src(i, 3), Imm(4)>>)))
handle_vsad(i) ==
  Binary(IgnoresMask(i), IF i.it \in {"vmpsadbw", "vdbpsadbw"} THEN <<Imm(4)>> ELSE <<>>)

----------------------------------------------------------------------------
(* Multiply-add. Argument order: 132 is (Op1, Op3, Op2), 213 (Op2, Op1,    *)
(* Op3), 231 (Op2, Op3, Op1).                                              *)
fma_order_BugUniform(i) == <<2, 1, 3>>

fma_order(i) ==
  IF i.it \in MulAdd132 THEN <<1, 3, 2>>
  ELSE IF i.it \in MulAdd213 THEN <<2, 1, 3>> ELSE <<2, 3, 1>>

handle_v_fma(i) ==
  LET w == Op(i, 1).w
      op3 == IF IsScalar(i) THEN Loaded(i, 3, "t", 16) ELSE Src(i, 3)
      args == MaskedArgs(i, w, [j \in 1..3 |-> IF fma_order(i)[j] = 3 THEN op3 ELSE Vec(i, fma_order(i)[j])])
  IN  IF IsScalar(i)
      THEN ScalarSource(i, 3, i.es) \o <<ScalarCall(Reg(1, 16), args)>>
           \o FreeIfMem(i, 3, "t") \o MERR_OK
      ELSE AvxOpLoader(i, 3, "s") \o <<Call(Reg(1, w), args)>> \o MERR_OK

(* FP16 has a handler of its own that does the same.                       *)
handle_v_fma_ph(i) == handle_v_fma(i)

(* The arguments of a multiply-add are operands 1, 2 and 3, in this order. *)
(* The widened operand 3 is not freed.                                     *)
handle_v_complex_ph(i) ==
  LET w == Op(i, 1).w
      args == MaskedArgs(i, w,
                (IF i.it \in ComplexMulAdd THEN <<Reg(1, w), Reg(2, w)>> ELSE <<Reg(2, w)>>)
                \o <<VecSource(i, 3, w)>>)
  IN  add_vec_source(i, 3, w)
      \o <<IF IsScalar(i) THEN ScalarCall(Reg(1, w), args) ELSE Call(Reg(1, w), args)>> \o MERR_OK

(* vpmadd52, vpdp and vdpbf16ps: the destination is an operand, which the  *)
(* opmask follows when it merges and precedes when it zeroes.              *)
accumulate(i) ==
  LET w == Op(i, 1).w
      mask == add_argument_mask(NumElements(i))
  IN  AvxOpLoader(i, 3, "s")
      \o <<Call(Reg(1, w),
             (CASE i.mask = "zero"  -> <<mask, Reg(1, w)>>
                [] i.mask = "merge" -> <<Reg(1, w), mask>>
                [] OTHER            -> <<Reg(1, w)>>)
             \o <<Vec(i, 2), Src(i, 3)>>)>>
      \o MERR_OK
handle_v_ifma(i) == accumulate(i)
handle_v_vnni(i) == accumulate(i)

handle_v_bf16(i) ==
  CASE i.it = "vdpbf16ps" -> accumulate(i)
    [] i.it = "vcvtne2ps2bf16" -> AvxOpLoader(i, 2, "s") \o Binary(i, <<>>)
    [] i.it = "vcvtneps2bf16" ->
         AvxOpLoader(i, 2, "s") \o Intrinsic(i, <<Loaded(i, 2, "s", Op(i, 2).w)>>)
    [] OTHER -> MERR_INSN

----------------------------------------------------------------------------
(* Square roots. The scalar ones put fsqrt of operand 3 into a copy of     *)
(* operand 2.                                                              *)
handle_vsqrtss(i) ==
  QASSERT(Xmms12(i),
    AvxOpLoader(i, 3, "s")
    \o <<Alloc("tmp", 16), Mov(Tmp("tmp", 16), Reg(2, 16)),
         Call(Tmp("tmp", 4), <<Loaded(i, 3, "s", 4)>>), Mov(Reg(1, 16), Tmp("tmp", 16)), Free("tmp")>>
    \o MERR_OK)

handle_vsqrtsd(i) ==
  QASSERT(Xmms12(i),
    ScalarSource(i, 3, 8)
    \o <<AllocElseFree("tmp", 16, IF IsMem(Op(i, 3)) THEN "t" ELSE ""),
         Mov(Tmp("tmp", 16), Reg(2, 16)), Call(Tmp("tmp", 8), <<Loaded(i, 3, "t", 8)>>),
         Mov(Reg(1, 16), Tmp("tmp", 16)), Free("tmp")>>
    \o FreeIfMem(i, 3, "t") \o MERR_OK)

handle_vsqrt_sh(i)    == QASSERT(Xmms12(i), ScalarBinaryOp(i, <<>>))
handle_vsqrt_ps_pd(i) == Unary(IgnoresMask(i), <<>>)
handle_v_sqrt_ph(i)   == Unary(i, <<>>)

(* Reciprocals, rounding, exponents and mantissas, ranges.                 *)
handle_vrcp_rsqrt(i)    == Unary(i, <<>>)
handle_vrcp_rsqrt_ss(i) == QASSERT(Xmms12(i), ScalarBinaryOp(i, <<>>))

handle_vround(i) ==
  AvxOpLoader(i, 2, "s") \o QASSERT(Op(i, 3).k = "imm", Intrinsic(i, <<Src(i, 2), Imm(3)>>))
handle_vround_ss_sd(i) ==
  QASSERT(Xmms12(i),
    ScalarSource(i, 3, i.es) \o QASSERT(Op(i, 4).k = "imm", ScalarIntrinsic(i, <<Imm(4)>>)))

handle_v_getexp(i) == IF IsScalar(i) THEN ScalarBinaryOp(i, <<>>) ELSE Unary(i, <<>>)
handle_v_scalef(i) == IF IsScalar(i) THEN ScalarBinaryOp(i, <<>>) ELSE Binary(i, <<>>)

unary_with_imm(i) ==
  IF IsScalar(i) THEN QASSERT(Op(i, 4).k = "imm", ScalarBinaryOp(i, <<Imm(4)>>))
  ELSE QASSERT(Op(i, 3).k = "imm", Unary(i, <<Imm(3)>>))
handle_v_getmant(i) == unary_with_imm(i)
handle_v_reduce(i)  == unary_with_imm(i)

binary_with_imm(i) ==
  QASSERT(Op(i, 4).k = "imm",
    IF IsScalar(i) THEN ScalarBinaryOp(i, <<Imm(4)>>) ELSE Binary(i, <<Imm(4)>>))
handle_v_fixupimm(i) == binary_with_imm(i)
handle_v_range(i)    == binary_with_imm(i)

(* The immediate is an argument only if there is one.                      *)
FP16Imm == {"vgetmantsh", "vreducesh", "vrndscalesh"}
handle_v_fp16_scalar_misc(i) ==
  add_vec_source(i, 3, 16)
  \o <<ScalarCall(Reg(1, 16),
         MaskedArgs(i, 16,
           <<Reg(2, 16), VecSource(i, 3, 16)>>
           \o (IF i.it \in FP16Imm /\ Op(i, 4).k = "imm" THEN <<Imm(4)>> ELSE <<>>)))>>
  \o MERR_OK
=============================================================================
