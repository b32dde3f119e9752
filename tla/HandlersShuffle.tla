-------------------------- MODULE HandlersShuffle --------------------------
(***************************************************************************)
(* The plans of the shuffles, permutations, broadcasts, inserts, extracts, *)
(* unpackings and integer extensions of handlers/handler_logic.cpp.        *)
(***************************************************************************)
EXTENDS HandlersLogic

YmmOrZmm(i) == Op(i, 1).w \in {32, 64}

handle_vshufps(i) == QASSERT(IsImm(i, 4), Binary(i, <<Imm(4)>>))
handle_vshufpd(i) == handle_vshufps(i)

handle_v_shuffle_int(i) ==
  AvxOpLoader(i, 2, "s")
  \o (IF i.it = "vpshufb" THEN Binary(i, <<>>)
      ELSE QASSERT(IsImm(i, 3), Intrinsic(i, <<Src(i, 2), Imm(3)>>)))

handle_v_shuf_lane(i) ==
  LET w == Op(i, 1).w
  IN  IF ~YmmOrZmm(i) THEN MERR_INSN
      ELSE QASSERT(IsImm(i, 4),
             AvxOpLoader(i, 3, "s")
             \o CallIntoVec(i, w, MaskedArgs(i, w, <<Vec(i, 2), Src(i, 3), Imm(4)>>)) \o MERR_OK)

(* An intrinsic of an index and a source, or of a source and an immediate. *)
handle_vpermpd(i) ==
  LET w == Op(i, 1).w
      n == IF IsImm(i, 3) THEN 2 ELSE 3
      args == IF IsImm(i, 3) THEN <<Src(i, 2), Imm(3)>> ELSE <<Vec(i, 2), Src(i, 3)>>
  IN  IF ~YmmOrZmm(i) THEN MERR_INSN
      ELSE AvxOpLoader(i, n, "s") \o CallIntoVec(i, w, MaskedArgs(i, w, args)) \o MERR_OK

(* The variable permutations pass operand 3 before operand 2.              *)
handle_v_perm_int(i) ==
  LET swapped == Intrinsic(i, <<Src(i, 3), Vec(i, 2)>>)
  IN  CASE i.it = "vpermq" ->
             AvxOpLoader(i, 2, "s")
             \o (IF ~YmmOrZmm(i) THEN MERR_INSN
                 ELSE IF IsImm(i, 3) THEN Intrinsic(i, <<Src(i, 2), Imm(3)>>)
                 ELSE AvxOpLoader(i, 3, "s") \o swapped)
        [] i.it = "vpermd" ->
             AvxOpLoader(i, 3, "s") \o (IF YmmOrZmm(i) THEN swapped ELSE MERR_INSN)
        [] i.it = "vpermps" ->
             IF Op(i, 1).k # "ymm" \/ Masked(i) \/ Op(i, 2).k # "ymm" THEN MERR_INSN
             ELSE AvxOpLoader(i, 3, "s") \o swapped
        [] OTHER ->
             AvxOpLoader(i, 2, "s")
             \o (IF IsImm(i, 3) THEN Intrinsic(i, <<Src(i, 2), Imm(3)>>) ELSE Binary(i, <<>>))

handle_v_permutex(i) == Binary(i, <<>>)

(* The table is operand 1 and the index operand 2, or the other way round; *)
(* a merging opmask follows the table.                                     *)
handle_v_permutex2(i) ==
  LET w     == Op(i, 1).w
      mask  == <<add_argument_mask(NumElements(i))>>
      table == <<Reg(IF i.it = "vpermi2w" THEN 2 ELSE 1, w)>>
      rest  == <<Reg(IF i.it = "vpermi2w" THEN 1 ELSE 2, w), Src(i, 3)>>
  IN  AvxOpLoader(i, 3, "s")
      \o <<Call(Reg(1, w),
             CASE i.mask = "zero"  -> mask \o table \o rest
               [] i.mask = "merge" -> table \o mask \o rest
               [] OTHER            -> table \o rest)>>
      \o MERR_OK

handle_v_align(i) ==
  AvxOpLoader(i, 3, "s") \o QASSERT(IsImm(i, 4), Intrinsic(i, <<Vec(i, 2), Src(i, 3), Imm(4)>>))

handle_vperm2f128_i128(i) ==
  QASSERT(Op(i, 1).k = "ymm" /\ Op(i, 2).k = "ymm", handle_v_align(IgnoresMask(i)))

----------------------------------------------------------------------------
(* Halves of an XMM register.                                              *)
handle_vmovlhps(i) ==
  IF ~(Xmms12(i) /\ IsXmm(Op(i, 3))) THEN MERR_INSN
  ELSE Intrinsic(IgnoresMask(i), <<Reg(2, 16), Reg(3, 16)>>)
handle_vmovhlps(i) == handle_vmovlhps(i)

handle_vmovl_h_ps_pd(i) ==
  CASE IsMem(Op(i, 1)) /\ IsXmm(Op(i, 2)) ->
         load_memory_address(i, 1) \o <<Call(Effect, <<MemoryAddress(i), Reg(2, 16)>>)>> \o MERR_OK
    [] Xmms12(i) /\ IsMem(Op(i, 3)) ->
         load_memory_address(i, 3) \o <<Call(Reg(1, 16), <<Reg(2, 16), MemoryAddress(i)>>)>> \o MERR_OK
    [] OTHER -> MERR_INSN

----------------------------------------------------------------------------
(* Broadcasts.                                                             *)

(* With an opmask only into a ZMM register and from a register; without,   *)
(* the scalar goes through a kreg of its own.                              *)
handle_vbroadcast_ss_sd(i) ==
  LET w == Op(i, 1).w
  IN  IF Masked(i)
      THEN IF w # 64 \/ ~IsVec(Op(i, 2)) THEN MERR_INSN
           ELSE CallIntoVec(i, w, MaskedArgs(i, w, <<Reg(2, 16)>>)) \o MERR_OK
      ELSE AvxOpLoader(i, 2, "s")
           \o <<Alloc("t", i.es), Mov(Tmp("t", i.es), Loaded(i, 2, "s", i.es))>>
           \o (IF w = 64
               THEN <<AllocElseFree("tmp", w, "t"), Call(Tmp("tmp", w), <<Tmp("t", i.es)>>)>>
                    \o emit_write_call(1, "tmp", w)
               ELSE <<Call(Reg(1, w), <<Tmp("t", i.es)>>)>>)
           \o <<Free("t")>> \o MERR_OK

(* Neither looks whether the memory operand was loaded.                    *)
handle_vbroadcastf128_fp(i) ==
  QASSERT(Op(i, 1).k = "ymm" /\ IsMem(Op(i, 2)),
    <<LoadUnchecked(2, "s", 16), Alloc("tmp", 32), Call(Tmp("tmp", 32), <<Tmp("s", 16)>>),
      Call(Reg(1, 32), <<Tmp("tmp", 32), Tmp("s", 16)>>), Free("tmp")>> \o MERR_OK)
handle_vbroadcasti128_int(i) ==
  QASSERT(Op(i, 1).k = "ymm" /\ IsMem(Op(i, 2)),
    <<LoadUnchecked(2, "s", 16), Call(Reg(1, 32), <<Tmp("s", 16)>>)>> \o MERR_OK)

handle_vbroadcast_x4(i) ==
  QASSERT(IsVec(Op(i, 1)),
    AvxOpLoader(i, 2, "s")
    \o <<Call(Vec(i, 1), <<Loaded(i, 2, "s", IF i.it = "vbroadcasti64x4" THEN 32 ELSE 16)>>)>> \o MERR_OK)

(* A scalar in memory becomes an XMM value in t.                           *)
broadcast_low(i) ==
  ScalarSource(i, 2, i.es) \o <<Call(Vec(i, 1), <<Loaded(i, 2, "t", 16)>>)>> \o FreeIfMem(i, 2, "t") \o MERR_OK

handle_vpbroadcast_d_q(i) ==
  IF Op(i, 2).k = "gpr" THEN CallIntoVec(i, Op(i, 1).w, <<Reg(2, i.es)>>) \o MERR_OK
  ELSE broadcast_low(i)
handle_vpbroadcast_b_w(i) == broadcast_low(i)

(* The two low elements, 8 bytes of memory.                                *)
handle_v_broadcast_x2(i) ==
  add_vec_source(i, 2, 16)
  \o CallIntoVec(i, Op(i, 1).w, <<VecSource(i, 2, 16)>>) \o MERR_OK

----------------------------------------------------------------------------
(* Inserts and extracts.                                                   *)
handle_vextractf128(i) ==
  LET src == IF i.it = "vextractf128" THEN 32 ELSE get_vector_size(Op(i, 2))
      dst == IF i.it = "vextractf128" THEN 16 ELSE 32
      args == <<Reg(2, src), Imm(3)>>
  IN  QASSERT(IsImm(i, 3),
        IF Op(i, 1).k \in {"xmm", "ymm"} THEN <<Call(Reg(1, dst), args)>> \o MERR_OK
        ELSE QASSERT(IsMem(Op(i, 1)), CallIntoMem(i, dst, args) \o MERR_OK))

handle_vinsertf128(i) ==
  LET w == IF i.it = "vinsertf128" THEN 32 ELSE Op(i, 1).w
      part == IF i.it = "vinsertf128" THEN 16 ELSE 32
  IN  QASSERT(IsImm(i, 4),
        AvxOpLoader(i, 3, "s")
        \o CallIntoVec(i, w, <<Reg(2, w), Loaded(i, 3, "s", part), Imm(4)>>) \o MERR_OK)

(* The value to insert is what was loaded, or at least 4 bytes of a        *)
(* general register.                                                       *)
handle_vpinsert(i) ==
  LET size == IF IsMem(Op(i, 3)) THEN i.es ELSE IF i.es < 4 THEN 4 ELSE i.es
  IN  QASSERT(IsImm(i, 4),
        AvxOpLoader(i, 3, "s")
        \o <<Call(Reg(1, 16), <<Reg(2, 16), Loaded(i, 3, "s", size), Imm(4)>>)>> \o MERR_OK)
handle_vinsertps(i) ==
  QASSERT(IsImm(i, 4),
    AvxOpLoader(i, 3, "s")
    \o <<Call(Reg(1, 16), <<Reg(2, 16), Loaded(i, 3, "s", IF IsMem(Op(i, 3)) THEN 4 ELSE 16), Imm(4)>>)>>
    \o MERR_OK)
handle_vextractps(i) ==
  QASSERT(IsImm(i, 3),
    (IF IsMem(Op(i, 1)) THEN CallIntoMem(i, 4, <<Reg(2, 16), Imm(3)>>)
     ELSE <<Call(Reg(1, 4), <<Reg(2, 16), Imm(3)>>)>>) \o MERR_OK)

----------------------------------------------------------------------------
(* Duplications, unpackings, extensions and truncations.                   *)
handle_vmovshdup(i) == Unary(IgnoresMask(i), <<>>)
handle_vmovsldup(i) == Unary(IgnoresMask(i), <<>>)
handle_vmovddup(i) ==
  IF IsXmm(Op(i, 1)) THEN broadcast_low(i) ELSE Unary(IgnoresMask(i), <<>>)

handle_vunpck(i)  == Binary(IgnoresMask(i), <<>>)
handle_vpunpck(i) == Binary(IgnoresMask(i), <<>>)

(* The source is as wide as what was loaded, or an XMM register.           *)
handle_vpmovsx(i) ==
  AvxOpLoader(i, 2, "s")
  \o <<Call(Vec(i, 1), <<Loaded(i, 2, "s", IF IsMem(Op(i, 2)) THEN Op(i, 2).w ELSE 16)>>)>> \o MERR_OK
handle_vpmovzx(i) == handle_vpmovsx(i)

(* The source is taken to be twice as wide as the destination.             *)
handle_vpmovwb(i) ==
  LET w == get_vector_size(Op(i, 1))
  IN  <<Call(Reg(1, w), <<Reg(2, 2 * w)>>)>> \o MERR_OK

handle_vpmov_down(i) ==
  LET args == <<Reg(2, get_vector_size(Op(i, 2)))>>
  IN  (CASE IsVec(Op(i, 1)) -> <<Call(Vec(i, 1), args)>>
         [] IsMem(Op(i, 1)) -> CallIntoMem(i, Op(i, 1).w, args)
         [] OTHER           -> <<>>)
      \o (IF IsVec(Op(i, 1)) \/ IsMem(Op(i, 1)) THEN MERR_OK ELSE MERR_INSN)
=============================================================================
