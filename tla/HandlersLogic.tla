--------------------------- MODULE HandlersLogic ---------------------------
(***************************************************************************)
(* The plans of the logic, shift, compare, blend, cryptography and flag    *)
(* instructions of handlers/handler_logic.cpp. Unary and Binary of         *)
(* HandlersMath do most of it; what differs is which operands are loaded,  *)
(* in which order they become arguments, and whether the result is written *)
(* or stored and the outcome looked at.                                    *)
(***************************************************************************)
EXTENDS HandlersMath

IsImm(i, n) == Op(i, n).k = "imm"

handle_v_bitwise(i)    == QASSERT(VecRegs12(i), Binary(i, <<>>))
handle_v_var_shift(i)  == Binary(i, <<>>)
handle_v_var_rotate(i) == Binary(i, <<>>)

(* The count is an immediate, or an XMM value at every vector width.       *)
handle_v_shift(i) ==
  AvxOpLoader(i, 2, "s")
  \o (IF IsImm(i, 3) THEN Intrinsic(i, <<Src(i, 2), Imm(3)>>)
      ELSE AvxOpLoader(i, 3, "s") \o Intrinsic(i, <<Src(i, 2), Loaded(i, 3, "s", 16)>>))

handle_v_rotate(i) ==
  AvxOpLoader(i, 2, "s") \o QASSERT(IsImm(i, 3), Intrinsic(i, <<Src(i, 2), Imm(3)>>))
handle_vpslldq_vpsrldq(i) == handle_v_rotate(IgnoresMask(i))

(* The variable funnel shifts shift the destination.                       *)
handle_v_shift_double(i) ==
  IF ~IsImm(i, 4) THEN accumulate(i)
  ELSE AvxOpLoader(i, 2, "s") \o Binary(i, <<Imm(4)>>)
handle_v_multishift(i) == AvxOpLoader(i, 2, "s") \o Binary(i, <<>>)

handle_v_ternary_logic(i) ==
  AvxOpLoader(i, 3, "s")
  \o QASSERT(IsImm(i, 4), Intrinsic(i, <<Vec(i, 1), Vec(i, 2), Src(i, 3), Imm(4)>>))

handle_v_conflict(i) == Unary(i, <<>>)
handle_v_popcnt(i)   == Unary(i, <<>>)
handle_v_lzcnt(i)    == Unary(i, <<>>)

----------------------------------------------------------------------------
(* Galois fields, carry-less products, AES, SHA.                           *)

handle_v_gfni(i) ==
  IF i.it = "vgf2p8mulb" THEN Binary(i, <<>>)
  ELSE AvxOpLoader(i, 3, "s") \o QASSERT(IsImm(i, 4), Intrinsic(i, <<Vec(i, 2), Src(i, 3), Imm(4)>>))

(* A memory operand is loaded at the width of the operation, not its own.  *)
handle_v_pclmul(i) ==
  LET w == Op(i, 1).w
      b == IF IsMem(Op(i, 3)) THEN Deref("addr", w) ELSE Reg(3, w)
  IN  QASSERT(IsImm(i, 4),
        (IF IsMem(Op(i, 3)) THEN make_vector_load_mop(i, 3) ELSE <<>>)
        \o <<Call(Reg(1, w), <<Reg(2, w), b, Imm(4)>>)>> \o MERR_OK)

handle_v_aes(i) == Binary(IgnoresMask(i), <<>>)

handle_v_sha(i) ==
  LET third == CASE i.it = "sha256rnds2" -> <<Loaded(i, 3, "s", 16)>>
                 [] i.it = "sha1rnds4" -> <<Imm(3)>>
                 [] OTHER -> <<>>
  IN  QASSERT(IsXmm(Op(i, 1)),
        AvxOpLoader(i, 2, "s")
        \o QASSERT(i.it = "sha1rnds4" => IsImm(i, 3),
             <<Call(Reg(1, 16), <<Reg(1, 16), Loaded(i, 2, "s", 16)>> \o third)>> \o MERR_OK))

handle_cache_ctrl(i) ==
  IF ~IsMem(Op(i, 1)) THEN MERR_INSN
  ELSE load_memory_address(i, 1) \o <<Call(Effect, <<MemoryAddress(i)>>)>> \o MERR_OK

(* A no-op, and a call without arguments.                                  *)
handle_vzeroupper_nop(i) == MERR_OK
handle_vzeroall(i)       == <<Call(Effect, <<>>)>> \o MERR_OK

----------------------------------------------------------------------------
(* Compares and blends. The predicate of a compare is a constant of the    *)
(* mnemonic.                                                               *)
handle_vcmp_ps_pd(i) ==
  IF i.it = "vcmpeqss" THEN ScalarBinaryOp(i, <<>>) ELSE AvxOpLoader(i, 2, "s") \o Binary(i, <<>>)
handle_vpcmp_int(i) == Binary(i, <<>>)

handle_vblendv_ps_pd(i) == AvxOpLoader(i, 2, "s") \o Binary(i, <<Vec(i, 4)>>)
handle_vblend_imm_ps_pd(i) == QASSERT(IsImm(i, 4), Binary(i, <<Imm(4)>>))
handle_vblend_int(i) ==
  IF i.it = "vpblendvb" THEN Binary(i, <<Vec(i, 4)>>)
  ELSE AvxOpLoader(i, 3, "s") \o QASSERT(IsImm(i, 4), Intrinsic(i, <<Vec(i, 2), Src(i, 3), Imm(4)>>))

(* The opmask selects; it is there or the handler declines.                *)
handle_v_blendm(i) ==
  LET w == Op(i, 1).w
  IN  IF ~Masked(i) THEN MERR_INSN
      ELSE AvxOpLoader(i, 3, "s")
           \o CallIntoVec(i, w, <<add_argument_mask(NumElements(i)), Vec(i, 2), Src(i, 3)>>)
           \o MERR_OK

(* A selective load blends what was loaded into zeros, a selective store   *)
(* what memory holds with the source: neither looks whether the memory     *)
(* operand was loaded, nor the store whether it happened.                  *)
handle_vmaskmov_ps_pd(i) ==
  LET w == IF IsXmm(Op(i, 1)) \/ (IsMem(Op(i, 1)) /\ IsXmm(Op(i, 2))) THEN 16 ELSE 32
  IN  IF IsMem(Op(i, 1))
      THEN <<LoadUnchecked(1, "s", w)>> \o CallIntoMem(i, w, <<Tmp("s", w), Reg(3, w), Reg(2, w)>>)
           \o MERR_OK
      ELSE QASSERT(IsMem(Op(i, 3)),
             <<LoadUnchecked(3, "s", w), Alloc("zero", w), Call(Tmp("zero", w), <<>>),
               Call(Reg(1, w), <<Tmp("zero", w), Tmp("s", w), Reg(2, w)>>), Free("zero")>>
             \o MERR_OK)

(* The integer ones leave memory to the intrinsic.                         *)
handle_vpmaskmov_int(i) ==
  LET w == get_vector_size(Op(i, 3))
  IN  CASE IsMem(Op(i, 1)) ->
             load_memory_address(i, 1)
             \o <<Call(Effect, <<MemoryAddress(i), Reg(2, w), Reg(3, w)>>)>> \o MERR_OK
        [] VecRegs12(i) /\ IsMem(Op(i, 3)) ->
             load_memory_address(i, 3)
             \o <<Call(Vec(i, 1), <<MemoryAddress(i), Vec(i, 2)>>)>> \o MERR_OK
        [] OTHER -> MERR_INSN

(* A non-temporal load is a native move, which reaches 32 bytes of a ZMM   *)
(* register; a non-temporal store is an ordinary one.                      *)
handle_vmovnt(i) ==
  IF i.it = "vmovntdqa"
  THEN QASSERT(IsMem(Op(i, 2)),
         AvxOpLoader(i, 2, "s")
         \o <<Mov(Reg(1, IF Op(i, 1).k = "zmm" THEN 32 ELSE Op(i, 1).w), Src(i, 2))>> \o MERR_OK)
  ELSE QASSERT(IsMem(Op(i, 1)),
         unchecked_store(i, 1, Reg(2, get_vector_size(Op(i, 2)))) \o MERR_OK)

----------------------------------------------------------------------------
(* Flags. ZF and CF are the results of two intrinsics, the other flags are *)
(* cleared.                                                                *)
emit_test_flags_BugKeepsOthers(a, b) == <<Call(ZF, <<a, b>>), Call(CF, <<a, b>>)>>

emit_test_flags(a, b) ==
  <<Call(ZF, <<a, b>>), Call(CF, <<a, b>>), Mov(OtherFlags, Number0)>>

handle_vptest(i) ==
  AvxOpLoader(i, 2, "s") \o emit_test_flags(Vec(i, 1), Src(i, 2)) \o MERR_OK
handle_vtest_ps_pd(i) == handle_vptest(i)

(* The result of the comparison stays in a kreg.                           *)
handle_v_comish(i) ==
  add_vec_source(i, 2, 16)
  \o <<Alloc("tmp", 4), Call(Tmp("tmp", 4), <<Reg(1, 16), VecSource(i, 2, 16)>>)>> \o MERR_OK

handle_vmovmsk(i) ==
  <<Call(Reg(1, 4), <<Reg(2, get_vector_size(Op(i, 2)))>>)>> \o MERR_OK

----------------------------------------------------------------------------
(* Alternating multiply-adds, and the rest of the arithmetic that lives    *)
(* with logic.                                                             *)
addsub_order(i) ==
  IF i.it \in AddSub132 THEN <<1, 3, 2>>
  ELSE IF i.it \in AddSub213 THEN <<2, 1, 3>> ELSE <<2, 3, 1>>

handle_vfmaddsub(i) ==
  AvxOpLoader(i, 3, "s")
  \o Intrinsic(i, [j \in 1..3 |-> IF addsub_order(i)[j] = 3 THEN Src(i, 3) ELSE Vec(i, addsub_order(i)[j])])

(* Four consecutive registers, here one, are read through __readzmm at     *)
(* every width.                                                            *)
handle_v_4fma(i) ==
  LET w == Op(i, 1).w
  IN  AvxOpLoader(i, 3, "s")
      \o CallIntoVec(i, w, <<Vec(i, 1), Reg(2, 64), Loaded(i, 3, "s", 16)>>) \o MERR_OK

(* Exponentials and reciprocals of AVX-512ER.                              *)
handle_v_er(i) ==
  LET w      == Op(i, 1).w
      scalar == i.it \in ScalarLogic
      n      == IF scalar THEN 3 ELSE 2
      args   == MaskedArgs(i, w, (IF scalar THEN <<Vec(i, 2)>> ELSE <<>>) \o <<VecSource(i, n, w)>>)
  IN  add_vec_source(i, n, w)
      \o (IF scalar THEN <<ScalarCall(Reg(1, w), args)>> ELSE CallIntoVec(i, w, args)) \o MERR_OK

handle_vphsub_sw(i) == Binary(IgnoresMask(i), <<>>)
handle_vpack(i)     == Binary(IgnoresMask(i), <<>>)
handle_vphminposuw(i) ==
  IF ~IsXmm(Op(i, 1)) THEN MERR_INSN ELSE Unary(IgnoresMask(i), <<>>)
=============================================================================
