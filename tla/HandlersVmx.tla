---------------------------- MODULE HandlersVmx ----------------------------
(***************************************************************************)
(* The plans of vmx_lifter.cpp: every VMX instruction is one intrinsic     *)
(* call, given the addresses and values of its operands. VMXIntrinsic      *)
(* builds and inserts the call in the handler, so it is one step.          *)
(***************************************************************************)
EXTENDS Microcode

NoOperand  == {"vmxoff", "vmcall", "vmlaunch", "vmresume", "vmfunc"}
MemOperand == {"vmxon", "vmptrld", "vmclear"}

VMXIntrinsic(dst, args) == <<Call(dst, args)>> \o MERR_OK
load_mem_address(i, n) == <<Address(n, "addr")>>
MemAddress(i) == Tmp("addr", PtrSize(i))

handle_vmx_no_op(i) == VMXIntrinsic(Effect, <<>>)

handle_vmx_mem_op(i) == load_mem_address(i, 1) \o VMXIntrinsic(Effect, <<MemAddress(i)>>)

handle_vmptrst(i) == handle_vmx_mem_op(i)

handle_vmread(i) ==
  IF Op(i, 1).k = "gpr"
  THEN VMXIntrinsic(Reg(1, PtrSize(i)), <<Reg(2, PtrSize(i))>>)
  ELSE load_mem_address(i, 1)
       \o VMXIntrinsic(Effect, <<MemAddress(i), Reg(2, PtrSize(i))>>)

(* The call is built before the memory operand is loaded, and dropped when *)
(* that fails: it has not been inserted yet.                               *)
handle_vmwrite(i) ==
  (IF IsMem(Op(i, 2)) THEN <<LoadOp(2, "s", Op(i, 2).w)>> ELSE <<>>)
  \o VMXIntrinsic(Effect, <<Reg(1, PtrSize(i)), Loaded(i, 2, "s", PtrSize(i))>>)

handle_invept(i) ==
  load_mem_address(i, 2)
  \o VMXIntrinsic(Effect, <<Reg(1, PtrSize(i)), MemAddress(i)>>)

handle_invvpid(i) == handle_invept(i)

(* VMXLifter::apply; match admits the instructions that it has a case for. *)
vmx_apply(i) ==
  CASE i.it \in NoOperand  -> handle_vmx_no_op(i)
    [] i.it \in MemOperand -> handle_vmx_mem_op(i)
    [] i.it = "vmptrst"    -> handle_vmptrst(i)
    [] i.it = "vmread"     -> handle_vmread(i)
    [] i.it = "vmwrite"    -> handle_vmwrite(i)
    [] i.it = "invept"     -> handle_invept(i)
    [] i.it = "invvpid"    -> handle_invvpid(i)
    [] OTHER               -> MERR_INSN
=============================================================================
