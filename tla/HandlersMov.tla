---------------------------- MODULE HandlersMov ----------------------------
(***************************************************************************)
(* The plans of handlers/handler_mov.cpp: scalar, whole-register and       *)
(* masked moves, compress and expand, gather and scatter. clear_upper      *)
(* emits nothing, so no plan has a step for it.                            *)
(*                                                                         *)
(* A definition whose name has the suffix _Bug... is a defect that a       *)
(* property must notice; it is never part of the specification.            *)
(***************************************************************************)
EXTENDS Microcode

(* The masked scalar move shared by vmovss, vmovsd and vmovsh.             *)
masked_scalar_move(i) ==
  IF IsXmm(Op(i, 1)) /\ IsXmm(Op(i, 2)) /\ Op(i, 3).k # "void"
  THEN ScalarSource(i, 3, i.es)
       \o <<ScalarCall(Reg(1, 16), MergeArg(i, 16)
                 \o <<add_argument_mask(NumElements(i)), Reg(2, 16), Loaded(i, 3, "t", 16)>>)>>
       \o FreeIfMem(i, 3, "t") \o MERR_OK
  ELSE MERR_INSN

handle_vmov_ss_sd_BugNoLoadForm(i) ==
  IF Masked(i) THEN masked_scalar_move(i)
  ELSE QASSERT(\A n \in 1..3 : IsXmm(Op(i, n)),
         <<Mov(Reg(1, i.es), Reg(3, i.es))>> \o MERR_OK)

handle_vmov_ss_sd_BugWritesFirst(i) ==
  IF Masked(i) \/ Op(i, 3).k = "void" THEN MERR_INSN
  ELSE <<Mov(Reg(1, 16), Reg(2, 16)), Alloc("t", 16), Mov(Tmp("t", i.es), Reg(3, i.es)),
         Mov(Reg(1, i.es), Tmp("t", i.es)), Free("t")>> \o MERR_OK

handle_vmov_ss_sd(i) ==
  IF Masked(i) THEN masked_scalar_move(i)
  ELSE IF Op(i, 3).k = "void"
  THEN IF IsXmm(Op(i, 1))
       THEN QASSERT(IsMem(Op(i, 2)),
              AvxOpLoader(i, 2, "s") \o <<Mov(Reg(1, i.es), Tmp("s", i.es))>> \o MERR_OK)
       ELSE QASSERT(IsMem(Op(i, 1)) /\ IsXmm(Op(i, 2)),
              store_operand_hack(i, 1, Reg(2, i.es)) \o MERR_OK)
  ELSE QASSERT(\A n \in 1..3 : IsXmm(Op(i, n)),
         <<Alloc("t", 16), Mov(Tmp("t", 16), Reg(2, 16)), Mov(Tmp("t", i.es), Reg(3, i.es)),
           Mov(Reg(1, 16), Tmp("t", 16)), Free("t")>> \o MERR_OK)

handle_vmov_sh(i) ==
  IF Op(i, 3).k = "void" THEN MERR_INSN
  ELSE IF IsMem(Op(i, 1))
  THEN IF Masked(i) \/ ~IsXmm(Op(i, 2)) THEN MERR_INSN
       ELSE store_operand_hack(i, 1, Reg(2, 2)) \o MERR_OK
  ELSE IF Masked(i) THEN masked_scalar_move(i)
  ELSE QASSERT(IsXmm(Op(i, 1)) /\ IsXmm(Op(i, 2)),
         ScalarSource(i, 3, 2)
         \o <<ScalarCall(Reg(1, 16), <<Reg(2, 16), Loaded(i, 3, "t", 16)>>)>>
         \o FreeIfMem(i, 3, "t") \o MERR_OK)

handle_vmovw(i) ==
  IF IsXmm(Op(i, 1))
  THEN AvxOpLoader(i, 2, "s")
       \o <<Call(Reg(1, 16),
              (IF Masked(i) THEN MergeArg(i, 16) \o <<add_argument_mask(NumElements(i))>> ELSE <<>>)
              \o <<Loaded(i, 2, "s", 2)>>)>>
       \o MERR_OK
  ELSE IF ~IsXmm(Op(i, 2)) THEN MERR_INSN
  ELSE IF IsMem(Op(i, 1)) THEN store_operand_hack(i, 1, Reg(2, 2)) \o MERR_OK
  ELSE <<Mov(Reg(1, 2), Reg(2, 2))>> \o MERR_OK

handle_vmov_BugClearsFirst(i) ==
  IF IsXmm(Op(i, 1))
  THEN <<Call(Reg(1, 32), <<>>)>> \o AvxOpLoader(i, 2, "s")
       \o <<Xdu(Reg(1, 32), Loaded(i, 2, "s", i.es))>> \o MERR_OK
  ELSE <<Mov(Reg(1, i.es), Reg(2, i.es))>> \o MERR_OK

(* vmovd and vmovq: zero-extended to YMM, in a 32-bit binary only to XMM.  *)
(* The result of a store is not looked at. That get_ymm_mreg may fail is   *)
(* left out: it does for what is no XMM register, and operand 1 is one.    *)
handle_vmov(i) ==
  IF IsXmm(Op(i, 1))
  THEN AvxOpLoader(i, 2, "s")
       \o <<Alloc("t", i.es), Mov(Tmp("t", i.es), Loaded(i, 2, "s", i.es)),
            Xdu(Reg(1, IF i.b64 THEN 32 ELSE 16), Tmp("t", i.es)), Free("t")>>
       \o MERR_OK
  ELSE QASSERT(IsXmm(Op(i, 2)),
         (IF IsMem(Op(i, 1)) THEN <<StoreUnchecked(1, Reg(2, i.es))>>
          ELSE <<Mov(Reg(1, i.es), Reg(2, i.es))>>) \o MERR_OK)

----------------------------------------------------------------------------
(* Whole-register moves (vmovaps ... vmovdqu64).                           *)

masked_v_mov(i) ==
  LET w == IF IsVec(Op(i, 1)) THEN Op(i, 1).w ELSE Op(i, 2).w
      mask == add_argument_mask(NumElements(i))
  IN  IF IsVec(Op(i, 1)) /\ IsVec(Op(i, 2))
      THEN <<Call(Reg(1, w), MergeArg(i, w) \o <<mask, Reg(2, w)>>)>> \o MERR_OK
      ELSE IF IsVec(Op(i, 1))
      THEN QASSERT(IsMem(Op(i, 2)),
             <<Address(2, "addr"),
               Call(Reg(1, w), MergeArg(i, w) \o <<mask, Tmp("addr", PtrSize(i))>>)>> \o MERR_OK)
      ELSE IF IsMem(Op(i, 1)) /\ IsVec(Op(i, 2))
      THEN <<Address(1, "addr"),
             Call(Effect, <<Tmp("addr", PtrSize(i)), mask, Reg(2, w)>>)>> \o MERR_OK
      ELSE MERR_INSN

(* A ZMM register is read and written by helper calls; a ZMM source may be *)
(* a nested call, so that a move is one microinstruction.                  *)
handle_v_mov_ps_dq(i) ==
  LET w == IF IsVec(Op(i, 1)) THEN Op(i, 1).w ELSE Op(i, 2).w
  IN  IF Masked(i) THEN masked_v_mov(i)
      ELSE IF IsVec(Op(i, 1)) /\ w = 64
      THEN (IF IsVec(Op(i, 2)) THEN <<Mov(Reg(1, 64), Reg(2, 64))>>
            ELSE QASSERT(IsMem(Op(i, 2)),
                   make_vector_load_mop(i, 2) \o <<Mov(Reg(1, 64), Deref("addr", 64))>>))
           \o MERR_OK
      ELSE IF IsVec(Op(i, 1))
      THEN (IF IsVec(Op(i, 2)) THEN <<Mov(Reg(1, w), Reg(2, w))>>
            ELSE QASSERT(IsMem(Op(i, 2)),
                   load_operand_udt(i, 2, "s", w) \o <<Mov(Reg(1, w), Tmp("s", w))>>))
           \o MERR_OK
      ELSE IF IsMem(Op(i, 1)) /\ IsVec(Op(i, 2))
      THEN store_operand_hack(i, 1, Reg(2, w)) \o MERR_OK
      ELSE MERR_INSN

----------------------------------------------------------------------------
(* Compress and expand are only lifted with an opmask. MaskInfo's count of *)
(* elements is replaced by one taken from the vector operand.              *)
handle_v_compress(i) ==
  LET w == IF IsVec(Op(i, 1)) THEN Op(i, 1).w ELSE Op(i, 2).w
      mask == add_argument_mask(w \div i.es)
  IN  IF ~Masked(i) THEN MERR_INSN
      ELSE IF IsVec(Op(i, 1))
      THEN AvxOpLoader(i, 2, "s")
           \o <<Call(Reg(1, w), MergeArg(i, w) \o <<mask, Loaded(i, 2, "s", w)>>)>> \o MERR_OK
      ELSE IF IsMem(Op(i, 1)) /\ IsVec(Op(i, 2))
      THEN <<Address(1, "addr"),
             Call(Effect, <<Tmp("addr", PtrSize(i)), mask, Reg(2, w)>>)>> \o MERR_OK
      ELSE MERR_INSN

handle_v_expand(i) ==
  LET w == Op(i, 1).w
      mask == add_argument_mask(w \div i.es)
  IN  IF ~Masked(i) THEN MERR_INSN
      ELSE IF IsMem(Op(i, 2))
      THEN <<Address(2, "addr"),
             Call(Reg(1, w), MergeArg(i, w) \o <<mask, Tmp("addr", PtrSize(i))>>)>> \o MERR_OK
      ELSE IF IsVec(Op(i, 2))
      THEN <<Call(Reg(1, w), MergeArg(i, w) \o <<mask, Reg(2, w)>>)>> \o MERR_OK
      ELSE MERR_INSN

----------------------------------------------------------------------------
(* Gather and scatter. Operand 4 is the index vector of the address.       *)

(* The base register, plus the displacement when there is one.             *)
BaseSteps(i, n) ==
  IF Op(i, n).disp THEN <<Alloc("base", 8), Call(Tmp("base", 8), <<Reg(n, 8)>>)>> ELSE <<>>
BaseArg(i, n) == IF Op(i, n).disp THEN Tmp("base", PtrSize(i)) ELSE Reg(n, PtrSize(i))
FreeBase(i, n) == IF Op(i, n).disp THEN <<Free("base")>> ELSE <<>>

(* The size at which the index vector is read.                             *)
QwordIndexed == {"vpgatherqd", "vgatherqps", "vpscatterqd", "vscatterqps"}
IndexSize_BugSizeOfData(i, w) == w

IndexSize(i, w) == IF i.it \in QwordIndexed THEN (IF w = 64 THEN 64 ELSE 2 * w) ELSE w

(* A zero-masked gather merges into a kreg of zeros, which is freed before *)
(* the call that reads it is emitted.                                      *)
handle_v_gather(i) ==
  LET w == Op(i, 1).w
      index == Reg(4, IndexSize(i, w))
      mask == add_argument_mask(w \div i.es)
  IN  BaseSteps(i, 2)
      \o (IF i.mask = "zero" THEN <<AllocElseFree("zero", w, IF Op(i, 2).disp THEN "base" ELSE ""),
                Call(Tmp("zero", w), <<>>), Free("zero")>>
          ELSE <<>>)
      \o <<Call(Reg(1, w),
             IF i.mask = "zero" THEN <<Tmp("zero", w), mask, index, BaseArg(i, 2)>>
             ELSE IF i.mask = "merge" THEN <<Reg(1, w), mask, index, BaseArg(i, 2)>>
             ELSE <<Reg(1, w), BaseArg(i, 2), index, Reg(3, w)>>)>>
      \o FreeBase(i, 2) \o MERR_OK

handle_v_scatter(i) ==
  LET w == Op(i, 2).w
  IN  IF ~IsMem(Op(i, 1)) \/ ~IsVec(Op(i, 2)) \/ ~Masked(i) THEN MERR_INSN
      ELSE BaseSteps(i, 1)
           \o <<Call(Effect, <<BaseArg(i, 1), add_argument_mask(w \div i.es),
                               Reg(4, IndexSize(i, w)), Reg(2, w)>>)>>
           \o FreeBase(i, 1) \o MERR_OK
=============================================================================
