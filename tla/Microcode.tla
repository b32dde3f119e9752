----------------------------- MODULE Microcode -----------------------------
(***************************************************************************)
(* The vocabulary in which a handler of the lifter writes its work: the    *)
(* steps that Codegen executes, and the shared helpers of avx_helpers,     *)
(* avx_utils and avx_intrinsic as sequences of them. A handler is a        *)
(* function from an instruction to such a sequence, its plan.              *)
(*                                                                         *)
(* A step either works for sure or may fail; a failure that the code       *)
(* checks ends the handler with MERR_INSN.                                 *)
(***************************************************************************)
EXTENDS AvxIsa

(* Operands of microinstructions: temporary v, the register of operand n   *)
(* of the instruction, the memory that the address in v points to, an      *)
(* opmask as an immediate of w bytes, the immediate operand n, the number  *)
(* 0, the flag in lane l, nothing. w is the size in bytes.                 *)
Tmp(v, w)   == [at |-> "tmp", v |-> v, n |-> 0, w |-> w]
Reg(n, w)   == [at |-> "reg", v |-> "", n |-> n, w |-> w]
Deref(v, w) == [at |-> "deref", v |-> v, n |-> 0, w |-> w]
MaskImm(w)  == [at |-> "mask", v |-> "", n |-> 0, w |-> w]
Imm(n)      == [at |-> "imm", v |-> "", n |-> n, w |-> 4]
Number0     == [at |-> "zero", v |-> "", n |-> 0, w |-> 1]
Flag(l)     == [at |-> "flag", v |-> l, n |-> 0, w |-> 1]
ZF == Flag("e")
CF == Flag("x")
OtherFlags == Flag("y")
Effect      == [at |-> "fx", v |-> "", n |-> 0, w |-> 64]

Step == [do |-> "none", how |-> "", dst |-> Effect, src |-> <<>>, v |-> "", n |-> 0,
         w |-> 0, checked |-> TRUE, undo |-> "", skip |-> 0]

(* load_operand, load_effective_address, alloc_kreg (which on failure may  *)
(* have a kreg to release), free_kreg, store_operand; emit mov, xdu, a     *)
(* call or arithmetic (fn), or the call of a scalar intrinsic (sfn), which *)
(* computes the first element and copies the rest of its first source. A   *)
(* step whose failure is not looked at leaves its variable as it was, or   *)
(* skips the steps that a helper would have gone on with.                  *)
LoadOp(n, v, w)    == [Step EXCEPT !.do = "load", !.n = n, !.v = v, !.w = w]
LoadUnchecked(n, v, w) == [LoadOp(n, v, w) EXCEPT !.checked = FALSE]
Address(n, v)      == [Step EXCEPT !.do = "addr", !.n = n, !.v = v]
AddressOrSkip(n, v, k) == [Address(n, v) EXCEPT !.checked = FALSE, !.skip = k]
Alloc(v, w)        == [Step EXCEPT !.do = "alloc", !.v = v, !.w = w]
AllocUnchecked(v, w) == [Alloc(v, w) EXCEPT !.checked = FALSE]
AllocElseFree(v, w, u) == [Alloc(v, w) EXCEPT !.undo = u]
Free(v)            == [Step EXCEPT !.do = "free", !.v = v]
StoreOp(n, s)      == [Step EXCEPT !.do = "store", !.n = n, !.src = <<s>>]
StoreUnchecked(n, s) == [StoreOp(n, s) EXCEPT !.checked = FALSE]
WidenTmp(v, w, s)  == [Step EXCEPT !.do = "widen", !.how = "xdu", !.v = v, !.w = w, !.src = <<s>>]
Emit(how, dst, src) == [Step EXCEPT !.do = "emit", !.how = how, !.dst = dst, !.src = src]
Mov(dst, s)        == Emit("mov", dst, <<s>>)
Xdu(dst, s)        == Emit("xdu", dst, <<s>>)
Call(dst, args)    == Emit("fn", dst, args)
ScalarCall(dst, args) == Emit("sfn", dst, args)
I2f(dst, s)        == Emit("i2f", dst, <<s>>)
F2f(dst, s)        == Emit("f2f", dst, <<s>>)
AddressImm(n, dst) == [Emit("imm", dst, <<>>) EXCEPT !.n = n]
Finish(merr)       == [Step EXCEPT !.do = merr]

Final     == {"OK", "INSN", "INTERR"}
MERR_OK   == <<Finish("OK")>>
MERR_INSN == <<Finish("INSN")>>
INTERR    == <<Finish("INTERR")>>  (* a QASSERT that does not hold          *)

QASSERT(cond, plan) == IF cond THEN plan ELSE INTERR

(* Where a microinstruction of instruction i finds the register of operand *)
(* n: at 64 bytes through __readzmm, below that natively; of a memory      *)
(* operand, its base register.                                             *)
RegLoc(i, n, w) ==
  LET op == Op(i, n)
  IN  IF op.k \in {"gpr", "mem"} THEN <<"g", op.r>>
      ELSE IF op.k = "k" THEN <<"k", op.r>>
      ELSE IF w = 64 THEN <<"z", op.r>> ELSE <<"v", op.r>>

(* The lanes that an access of w bytes covers. An opmask is a single lane, *)
(* a general register two: one element, and what lies above it.            *)
RegLanes(i, n, w) ==
  CASE RegLoc(i, n, w)[1] = "k" -> {"e"}
    [] RegLoc(i, n, w)[1] = "g" -> {"e"} \union (IF w > i.es THEN {"x"} ELSE {})
    [] OTHER                    -> Covers(w, i.es)

DstLoc(i, dst) ==
  CASE dst.at = "fx"   -> <<"fx", 0>>
    [] dst.at = "flag" -> <<"f", 0>>
    [] OTHER           -> RegLoc(i, dst.n, dst.w)

LanesTo(i, dst) ==
  CASE dst.at = "fx"   -> Lanes
    [] dst.at = "flag" -> {dst.v}
    [] OTHER           -> RegLanes(i, dst.n, dst.w)

----------------------------------------------------------------------------
(* avx_helpers.                                                            *)

(* emit_zmm_load. Its last failure path frees dst, but emit never fails.   *)
emit_zmm_load(i, n, v) ==
  <<Address(n, "ea"), Alloc(v, 64), Mov(Tmp(v, 64), Deref("ea", 64))>>

(* load_operand_udt: the UDT flag is metadata, the width decides the path. *)
load_operand_udt(i, n, v, size) ==
  IF size > 32 THEN emit_zmm_load(i, n, v) ELSE <<LoadOp(n, v, size)>>

(* The address computation shared by vector loads and stores: o_mem is an  *)
(* immediate moved into a kreg, anything else load_effective_address.      *)
emit_vector_store(i, n, src) ==
  (IF Op(i, n).glob
   THEN <<AllocUnchecked("addr", PtrSize(i)), AddressImm(n, Tmp("addr", PtrSize(i)))>>
   ELSE <<Address(n, "addr")>>)
  \o <<Call(Effect, <<Tmp("addr", PtrSize(i)), src>>)>>

(* store_operand_hack, IDA 7.6 and later.                                  *)
store_operand_hack(i, n, src) ==
  IF src.w > 8 THEN emit_vector_store(i, n, src) ELSE <<StoreOp(n, src)>>

(* The same by a handler that does not look at its result.                 *)
unchecked_store(i, n, src) ==
  IF src.w <= 8 THEN <<StoreUnchecked(n, src)>>
  ELSE IF Op(i, n).glob THEN emit_vector_store(i, n, src)
  ELSE <<AddressOrSkip(n, "addr", 1), Call(Effect, <<Tmp("addr", PtrSize(i)), src>>)>>

(* make_vector_load_mop: the load is a call nested in the one that uses it.*)
make_vector_load_mop(i, n) ==
  IF Op(i, n).glob
  THEN <<Alloc("addr", PtrSize(i)), AddressImm(n, Tmp("addr", PtrSize(i)))>>
  ELSE <<Address(n, "addr")>>

(* AvxOpLoader: a memory operand is loaded at its own size into a kreg,    *)
(* any other is its register; Loaded is the operand to read afterwards.    *)
AvxOpLoader(i, n, v) ==
  IF IsMem(Op(i, n)) THEN load_operand_udt(i, n, v, Op(i, n).w) ELSE <<>>
Loaded(i, n, v, w) == IF IsMem(Op(i, n)) THEN Tmp(v, w) ELSE Reg(n, w)

----------------------------------------------------------------------------
(* Opmasks: MaskInfo::from_insn counts elements from the class of Op1, and *)
(* add_argument_mask turns the count into an opmask type.                  *)
from_insn_BugAlwaysZmm(i, es) == 64 \div es

from_insn(i, es) ==
  (CASE Op(i, 1).k = "ymm" -> 32 [] Op(i, 1).k = "xmm" -> 16 [] OTHER -> 64) \div es

NumElements(i) == from_insn(i, i.es)

add_argument_mask(n) == MaskImm(MaskSize(n))

(* kmask_type_for: the bytes of an integer that holds n mask bits.         *)
kmask_type_for(n) == MaskSize(n)

(* get_vector_size: any operand that is not a YMM or ZMM register is taken *)
(* to have 16 bytes.                                                       *)
get_vector_size(op) == IF op.k \in {"ymm", "zmm"} THEN op.w ELSE 16

(* emit_kmask_write_call and emit_zmm_write_call: __writemask or           *)
(* __writezmm puts a kreg into the register of operand n, and the kreg is  *)
(* freed.                                                                  *)
emit_write_call_BugFreesFirst(n, v, w) == <<Free(v), Mov(Reg(n, w), Tmp(v, w))>>

emit_write_call_BugOtherOperand(n, v, w) == <<Mov(Reg(n + 1, w), Tmp(v, w)), Free(v)>>

emit_write_call_BugNative(n, v, w) == <<Mov(Reg(n, IF w = 64 THEN 32 ELSE w), Tmp(v, w)), Free(v)>>

emit_write_call(n, v, w) == <<Mov(Reg(n, w), Tmp(v, w)), Free(v)>>

(* The result of a call in operand 1, of w bytes: into the register, or at *)
(* 64 bytes into a kreg and from there through __writezmm.                 *)
CallIntoVec(i, w, args) ==
  IF w = 64 THEN <<Alloc("tmp", w), Call(Tmp("tmp", w), args)>> \o emit_write_call(1, "tmp", w)
  ELSE <<Call(Reg(1, w), args)>>

(* The result of a call stored to memory by a handler that does not look   *)
(* at the result of the store.                                             *)
CallIntoMem(i, w, args) ==
  <<Alloc("tmp", w), Call(Tmp("tmp", w), args)>> \o unchecked_store(i, 1, Tmp("tmp", w))
  \o <<Free("tmp")>>

(* A vector source of w bytes: memory is loaded at its own size into s and *)
(* widened, if that is less, into t.                                       *)
add_vec_source(i, n, w) ==
  IF ~IsMem(Op(i, n)) THEN <<>>
  ELSE AvxOpLoader(i, n, "s")
       \o (IF Op(i, n).w < w THEN <<WidenTmp("t", w, Tmp("s", Op(i, n).w))>> ELSE <<>>)
VecSource(i, n, w) ==
  IF ~IsMem(Op(i, n)) THEN Reg(n, w)
  ELSE IF Op(i, n).w < w THEN Tmp("t", w) ELSE Tmp("s", w)

(* A merge-masked intrinsic takes the old destination first.               *)
MergeArg(i, w) == IF i.mask = "merge" THEN <<Reg(1, w)>> ELSE <<>>

MaskedArgs(i, w, args) ==
  IF Masked(i) THEN MergeArg(i, w) \o <<add_argument_mask(NumElements(i))>> \o args ELSE args

(* A scalar source as a full XMM value: a register as it is, memory loaded *)
(* and zero-extended into temporary t.                                     *)
ScalarSource_BugFreesFirst(i, n, w) ==
  IF IsMem(Op(i, n))
  THEN AvxOpLoader(i, n, "s") \o <<Free("s"), Alloc("t", 16), Xdu(Tmp("t", 16), Tmp("s", w))>>
  ELSE <<>>

ScalarSource(i, n, w) ==
  IF IsMem(Op(i, n))
  THEN AvxOpLoader(i, n, "s") \o <<Alloc("t", 16), Xdu(Tmp("t", 16), Tmp("s", w))>>
  ELSE <<>>

(* load_memory_address: of operand n.                                      *)
load_memory_address(i, n) == make_vector_load_mop(i, n)
MemoryAddress(i) == Tmp("addr", PtrSize(i))

FreeIfMem(i, n, v) == IF IsMem(Op(i, n)) THEN <<Free(v)>> ELSE <<>>
=============================================================================
