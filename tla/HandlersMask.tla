---------------------------- MODULE HandlersMask ----------------------------
(***************************************************************************)
(* The plans of the opmask instructions of handlers/handler_logic.cpp:     *)
(* compares, tests and classifications into an opmask, moves between       *)
(* opmasks and other registers, and the opmask ALU. Hex-Rays does not know *)
(* opmask registers: the helper calls __readmask and __writemask stand for *)
(* reading and writing them, as __readzmm and __writezmm do for ZMM.       *)
(***************************************************************************)
EXTENDS Microcode

MaskArg(i) == IF Masked(i) THEN <<add_argument_mask(NumElements(i))>> ELSE <<>>

(* The result of the intrinsic goes through a kreg into the opmask.        *)
finish_mask_result(args, n) ==
  <<Alloc("tmp", kmask_type_for(n)), Call(Tmp("tmp", kmask_type_for(n)), args)>>
  \o emit_write_call(1, "tmp", kmask_type_for(n)) \o MERR_OK

handle_v_cmp_to_mask(i) ==
  LET size == IF i.it \in ScalarToMask THEN 16 ELSE get_vector_size(Op(i, 2))
      n    == IF i.it \in ScalarToMask THEN 1 ELSE size \div i.es
  IN  add_vec_source(i, 2, size) \o add_vec_source(i, 3, size)
      \o finish_mask_result(
           MaskArg(i) \o <<VecSource(i, 2, size), VecSource(i, 3, size)>>, n)

(* vpshufbitqmb has a mask bit per byte.                                   *)
handle_v_2src_to_mask(i) ==
  LET size == get_vector_size(Op(i, 2))
      n    == IF i.it = "vpshufbitqmb" THEN size ELSE size \div i.es
  IN  add_vec_source(i, 2, size) \o add_vec_source(i, 3, size)
      \o finish_mask_result(
           MaskArg(i) \o <<VecSource(i, 2, size), VecSource(i, 3, size)>>, n)

handle_v_fpclass_to_mask(i) ==
  LET size == IF i.it \in ScalarToMask THEN 16 ELSE get_vector_size(Op(i, 2))
      n    == IF i.it \in ScalarToMask THEN 1 ELSE size \div i.es
  IN  add_vec_source(i, 2, size)
      \o finish_mask_result(MaskArg(i) \o <<VecSource(i, 2, size)>>, n)

handle_v_movx2m(i) ==
  LET size == get_vector_size(Op(i, 2))
  IN  add_vec_source(i, 2, size)
      \o finish_mask_result(<<VecSource(i, 2, size)>>, size \div i.es)

(* Both result masks are left to a call that returns nothing.              *)
handle_v_p2intersect(i) ==
  LET size == get_vector_size(Op(i, 2))
  IN  add_vec_source(i, 2, size) \o add_vec_source(i, 3, size)
      \o <<Call(Effect, <<VecSource(i, 2, size), VecSource(i, 3, size)>>)>> \o MERR_OK

(* vpmovm2* and vpbroadcastm*: the opmask is passed as its number, the way *)
(* the opmask of a masked instruction is.                                  *)
handle_v_mask_to_vec(i) ==
  LET w == Op(i, 1).w
  IN  <<Call(Reg(1, w), <<add_argument_mask(w \div i.es)>>)>> \o MERR_OK

handle_v_broadcastm(i) ==
  LET w    == Op(i, 1).w
      mask == add_argument_mask(IF i.it = "vpbroadcastmb2q" THEN 8 ELSE 16)
  IN  CallIntoVec(i, w, <<mask>>) \o MERR_OK

(* The bytes of the operation come from the suffix of the mnemonic.        *)
handle_k_alu(i) ==
  LET args == IF i.it \in UnaryMaskOps THEN <<Reg(2, i.es)>> ELSE <<Reg(2, i.es), Reg(3, i.es)>>
  IN  <<Alloc("tmp", i.es), Call(Tmp("tmp", i.es), args)>>
      \o emit_write_call(1, "tmp", i.es) \o MERR_OK

handle_kmov(i) ==
  LET val == IF Op(i, 2).k = "k" THEN Tmp("tmp", i.es) ELSE Loaded(i, 2, "s", i.es)
  IN  (IF Op(i, 2).k = "k"
       THEN <<Alloc("tmp", i.es), Mov(Tmp("tmp", i.es), Reg(2, i.es))>>
       ELSE AvxOpLoader(i, 2, "s"))
      \o (IF IsMem(Op(i, 1)) THEN store_operand_hack(i, 1, val)
          ELSE IF Op(i, 1).k = "k" /\ val.at = "tmp" THEN emit_write_call(1, val.v, i.es)
          ELSE <<Mov(Reg(1, i.es), val)>>)
      \o MERR_OK
=============================================================================
