------------------------------ MODULE Codegen ------------------------------
(***************************************************************************)
(* Code generation of one function: Hex-Rays hands instructions to the     *)
(* lifter's apply(), whose handlers load operands, allocate temporaries    *)
(* (kregs), emit microinstructions, and end with MERR_OK or MERR_INSN.     *)
(* The microinstructions are straight-line code, so the machine executes   *)
(* each one when it is emitted: arch is what the microcode emitted so far  *)
(* does to the architectural state.                                        *)
(*                                                                         *)
(* Every instruction starts from arbitrary contents, named by OldArch;     *)
(* what connects one instruction to the next is the pool of kregs, with    *)
(* whatever earlier instructions left in them and never freed.             *)
(***************************************************************************)
EXTENDS Microcode

CONSTANTS
  Insns,     (* the instructions that the function may contain             *)
  NoInsn,    (* none of them: Hex-Rays is between two instructions         *)
  Plan,      (* what the handler of each instruction does: its steps       *)
  Slots,     (* the kregs of the function                                  *)
  NoSlot,    (* mr_none                                                    *)
  Headroom   (* kregs free when an instruction starts; 0: they may run out *)

(* The names of temporaries in handlers.                                   *)
Vars == {"t", "s", "ea", "addr", "base", "zero", "tmp"}

(* The operands of a step are temporaries and locations that exist, and    *)
(* there is something to copy where one is copied: of a scalar intrinsic,  *)
(* what comes after the opmask.                                            *)
HasOperands(i, st) ==
  /\ st.w \in Nat /\ st.dst.w \in Nat
  /\ st.do \in {"load", "addr", "alloc", "widen"} => st.v \in Vars
  /\ \A j \in DOMAIN st.src :
       LET s == st.src[j]
       IN  /\ s.w \in Nat
           /\ s.at \in {"tmp", "deref"} => s.v \in Vars
           /\ s.at = "reg" => RegLoc(i, s.n, s.w) \in Locs
           /\ st.how = "sfn" /\ s.at = "mask" => 1 + j \in DOMAIN st.src
  /\ st.do \in {"store", "widen"} \/ st.how \in {"mov", "xdu", "f2f", "sfn"} => 1 \in DOMAIN st.src
  /\ st.do = "widen" => st.src[1].at = "tmp"

ASSUME CodegenAssumption ==
  /\ NoInsn \notin Insns
  /\ NoSlot \notin Slots
  /\ Headroom \in Nat
  /\ \A i \in Insns :
       LET plan == Plan[i]
       IN  /\ Loc(Op(i, 1)) \in Locs
           /\ Len(plan) \in Nat \ {0}
           /\ plan[Len(plan)].do \in Final
           /\ \A j \in 1..Len(plan) :
                /\ HasOperands(i, plan[j])
                /\ plan[j].skip \in Nat
                /\ plan[j].do \notin Final => j + plan[j].skip < Len(plan)

VARIABLES
  insn,    (* the instruction being lifted, or NoInsn                      *)
  pc,      (* the next step of its plan                                    *)
  result,  (* what apply() returned; "none" while it runs, "idle" between  *)
           (* instructions                                                 *)
  arch,    (* the architectural state after the microcode emitted so far   *)
  slots,   (* per kreg: allocated, the variable of this handler that names *)
           (* it, how many of its bytes are defined, their value           *)
  env,     (* the kreg that each variable of this handler names            *)
  bad      (* history: what is malformed in this instruction's microcode   *)

vars == <<insn, pc, result, arch, slots, env, bad>>

FreeSlots == {s \in Slots : ~slots[s].used}
Kreg(used, own, def, val) == [used |-> used, own |-> own, def |-> def, val |-> val]
Stale(used) == Kreg(used, "", 0, JunkVal)

(* free_kreg: what the kreg held stays there.                              *)
Freed(k) == Kreg(FALSE, k.own, k.def, k.val)

----------------------------------------------------------------------------
(* Reading and writing. Contents are what a microinstruction finds: the    *)
(* architectural state, and what each variable of the handler holds.       *)

Cut(val, lanes) == [l \in Lanes |-> IF l \in lanes THEN val[l] ELSE Junk]
Held(v) == IF env[v] = NoSlot THEN JunkVal ELSE slots[env[v]].val
Contents == [arch |-> arch, held |-> [v \in Vars |-> Held(v)]]

(* Operand s of a microinstruction of instruction i, given contents c.     *)
Value(i, c, s) ==
  CASE s.at = "tmp"   -> Cut(c.held[s.v], Covers(s.w, 0))
    [] s.at = "reg"   -> Cut(c.arch[RegLoc(i, s.n, s.w)], RegLanes(i, s.n, s.w))
    [] s.at = "deref" -> IF c.held[s.v]["e"][1] = "addr"
                         THEN Cut(c.arch[<<"m", 0>>], Covers(s.w, i.es)) ELSE JunkVal
    [] s.at = "imm"   -> [JunkVal EXCEPT !["e"] = <<"imm", s.n>>]
    [] s.at = "zero"  -> [l \in Lanes |-> Zero]
    [] OTHER          -> JunkVal

(* What is wrong with an operand. Of a read: the kreg was never bound,     *)
(* belongs to something else, was freed, or has fewer defined bytes; a     *)
(* general register is narrower. Of any operand: Hex-Rays takes no 256-bit *)
(* operand in a 32-bit binary, and no vector memory operand with a segment *)
(* override.                                                               *)
Malformations == {"unbound", "foreign", "freed", "undefined", "ymm32", "segment"}

Misread(s) ==
  IF s.at \in {"tmp", "deref"}
  THEN IF env[s.v] = NoSlot THEN {"unbound"}
       ELSE (IF slots[env[s.v]].own # s.v THEN {"foreign"} ELSE {})
            \union (IF slots[env[s.v]].used THEN {} ELSE {"freed"})
            \union (IF slots[env[s.v]].def < (IF s.at = "tmp" THEN s.w ELSE PtrSize(insn))
                    THEN {"undefined"} ELSE {})
  ELSE IF s.at = "reg" /\ RegLoc(insn, s.n, s.w)[1] = "g" /\ s.w > PtrSize(insn)
  THEN {"undefined"} ELSE {}

Unsupported(s) ==
  (IF s.w = 32 /\ ~insn.b64 THEN {"ymm32"} ELSE {})
  \union (IF s.at = "deref" /\ s.w > 8 /\ insn.seg THEN {"segment"} ELSE {})

Malformed(st) ==
  {m \in Malformations :
     \/ m \in Unsupported(st.dst)
     \/ \E j \in DOMAIN st.src : m \in Misread(st.src[j]) \union Unsupported(st.src[j])}

(* The result of a call names its arguments. What a scalar intrinsic       *)
(* copies is from its first source, the argument after the opmask if there *)
(* is one.                                                                 *)
Result(i, c, st) ==
  ResVal([j \in DOMAIN st.src |->
            [val  |-> Value(i, c, st.src[j]),
             mask |-> IF st.src[j].at = "mask" THEN st.src[j].w ELSE 0]])
FirstSource(st) ==
  IF \E j \in DOMAIN st.src : st.src[j].at = "mask"
  THEN st.src[1 + CHOOSE j \in DOMAIN st.src : st.src[j].at = "mask"]
  ELSE st.src[1]

(* i2f and f2f convert and round, and rounding twice is not rounding once: *)
(* what i2f computed may only be moved by f2f, not change its size.        *)
Converted(i, c, st) ==
  LET e == Value(i, c, st.src[1])["e"]
  IN  [JunkVal EXCEPT !["e"] = IF e[1] # "res" THEN Result(i, c, st)["e"]
                               ELSE IF st.dst.w = st.src[1].w THEN e ELSE Junk]

(* What a microinstruction computes from its operands, lane by lane.       *)
Outcome(i, c, st) ==
  CASE st.how = "mov" -> Value(i, c, st.src[1])
    [] st.how = "xdu" -> [l \in Lanes |-> IF l \in Covers(st.src[1].w, 0)
                                          THEN Value(i, c, st.src[1])[l] ELSE Zero]
    [] st.how = "imm" -> AddrVal(st.n)
    [] st.how = "f2f" -> Converted(i, c, st)
    [] st.how = "sfn" -> [Value(i, c, FirstSource(st)) EXCEPT !["e"] = Result(i, c, st)["e"]]
    [] OTHER          -> Result(i, c, st)
Computes(st) == Outcome(insn, Contents, st)
Stores(st)   == Value(insn, Contents, st.src[1])

Overlay(old, new, lanes) == [l \in Lanes |-> IF l \in lanes THEN new[l] ELSE old[l]]

----------------------------------------------------------------------------
Running(kind) == result = "none" /\ Plan[insn][pc].do = kind

Skip(k) == pc' = pc + 1 + k /\ result' = result
Advance == Skip(0)

(* A checked failure: MERR_INSN, releasing what the handler says.          *)
GiveUp(st) ==
  /\ st.checked
  /\ result' = "INSN"
  /\ slots' = [s \in Slots |-> IF st.undo # "" /\ env[st.undo] = s
                               THEN Freed(slots[s]) ELSE slots[s]]
  /\ UNCHANGED <<pc, env>>

Bind(v, s, def, val) ==
  /\ slots' = [slots EXCEPT ![s] = Kreg(TRUE, v, def, val)]
  /\ env' = [env EXCEPT ![v] = s]

(* load_operand reads the memory operand into a fresh kreg, and may fail;  *)
(* some handlers go on with mr_none then.                                  *)
Load ==
  /\ Running("load")
  /\ LET st == Plan[insn][pc]
     IN  \/ /\ \E s \in FreeSlots :
                 Bind(st.v, s, st.w, Cut(arch[<<"m", 0>>], Covers(st.w, insn.es)))
            /\ bad' = bad \union Unsupported(Deref(st.v, st.w))
            /\ Advance
         \/ GiveUp(st) /\ UNCHANGED bad
         \/ ~st.checked /\ Advance /\ UNCHANGED <<slots, env, bad>>
  /\ UNCHANGED <<insn, arch>>

(* load_effective_address, likewise; a helper that fails here returns to a *)
(* handler that may go on.                                                 *)
LoadAddress ==
  /\ Running("addr")
  /\ LET st == Plan[insn][pc]
     IN  \/ \E s \in FreeSlots : Bind(st.v, s, PtrSize(insn), AddrVal(st.n)) /\ Advance
         \/ GiveUp(st)
         \/ ~st.checked /\ Skip(st.skip) /\ UNCHANGED <<slots, env>>
  /\ UNCHANGED <<insn, arch, bad>>

(* alloc_kreg fails when no kreg is left.                                  *)
AllocKreg ==
  /\ Running("alloc")
  /\ LET st == Plan[insn][pc]
     IN  \/ \E s \in FreeSlots : Bind(st.v, s, 0, JunkVal) /\ Advance
         \/ FreeSlots = {} /\ GiveUp(st)
         \/ FreeSlots = {} /\ ~st.checked /\ Advance /\ UNCHANGED <<slots, env>>
  /\ UNCHANGED <<insn, arch, bad>>

(* widen_loaded_value: a loaded value, zero-extended into a wider kreg; it *)
(* is used as it is when no kreg is left.                                  *)
Widen ==
  /\ Running("widen")
  /\ LET st == Plan[insn][pc]
     IN  \/ /\ \E s \in FreeSlots : Bind(st.v, s, st.w, Computes(st))
            /\ bad' = bad \union Malformed(st)
         \/ /\ FreeSlots = {}
            /\ env' = [env EXCEPT ![st.v] = env[st.src[1].v]]
            /\ UNCHANGED <<slots, bad>>
  /\ Advance
  /\ UNCHANGED <<insn, arch>>

FreeKreg ==
  /\ Running("free")
  /\ slots' = [s \in Slots |-> IF env[Plan[insn][pc].v] = s
                               THEN Freed(slots[s]) ELSE slots[s]]
  /\ Advance
  /\ UNCHANGED <<insn, arch, env, bad>>

(* store_operand: at most 8 bytes to the memory operand; may fail.         *)
StoreOperand ==
  /\ Running("store")
  /\ LET st == Plan[insn][pc]
     IN  \/ /\ arch' = [arch EXCEPT ![<<"m", 0>>] =
                          Overlay(@, Stores(st), Covers(st.src[1].w, insn.es))]
            /\ bad' = bad \union Malformed(st)
            /\ Advance
            /\ UNCHANGED <<slots, env>>
         \/ GiveUp(st) /\ UNCHANGED <<arch, bad>>
         \/ ~st.checked /\ Advance /\ UNCHANGED <<arch, slots, env, bad>>
  /\ UNCHANGED insn

(* emit, AVXIntrinsic::emit and emit_void.                                 *)
EmitToKreg ==
  /\ Running("emit")
  /\ LET st == Plan[insn][pc]
         s  == env[st.dst.v]
     IN  /\ st.dst.at = "tmp"
         /\ slots' = IF s = NoSlot THEN slots
                     ELSE [slots EXCEPT ![s] =
                             Kreg(@.used, @.own, IF @.def > st.dst.w THEN @.def ELSE st.dst.w,
                                  Overlay(@.val, Computes(st), Covers(st.dst.w, 0)))]
         /\ bad' = bad \union Malformed(st)
                       \union (IF s = NoSlot THEN {"unbound"} ELSE {})
  /\ Advance
  /\ UNCHANGED <<insn, arch, env>>

EmitToArch ==
  /\ Running("emit")
  /\ LET st == Plan[insn][pc]
     IN  /\ st.dst.at # "tmp"
         /\ arch' = [arch EXCEPT ![DstLoc(insn, st.dst)] =
                       Overlay(@, Computes(st), LanesTo(insn, st.dst))]
         /\ bad' = bad \union Malformed(st)
  /\ Advance
  /\ UNCHANGED <<insn, slots, env>>

Return_BugRunsOn ==
  /\ result = "none"
  /\ Plan[insn][pc].do \in Final
  /\ pc' = pc + 1
  /\ result' = IF Plan[insn][pc].do = "OK" THEN result ELSE Plan[insn][pc].do
  /\ UNCHANGED <<insn, arch, slots, env, bad>>

Return ==
  /\ result = "none"
  /\ Plan[insn][pc].do \in Final
  /\ result' = Plan[insn][pc].do
  /\ UNCHANGED <<insn, pc, arch, slots, env, bad>>

----------------------------------------------------------------------------
(* Hex-Rays.                                                               *)

Idle ==
  /\ insn' = NoInsn
  /\ pc' = 1
  /\ result' = "idle"
  /\ arch' = OldArch
  /\ env' = [v \in Vars |-> NoSlot]
  /\ bad' = {}

(* apply() has returned.                                                   *)
Leave ==
  /\ result \in Final
  /\ Idle
  /\ slots' = [s \in Slots |-> Stale(slots[s].used)]

Begin ==
  /\ result = "idle"
  /\ Cardinality(FreeSlots) >= Headroom
  /\ insn' \in Insns
  /\ result' = "none"
  /\ UNCHANGED <<pc, arch, slots, env, bad>>

(* The next function has an mba, and so kregs, of its own.                 *)
NextFunction ==
  /\ result = "idle"
  /\ FreeSlots # Slots
  /\ Idle
  /\ slots' = [s \in Slots |-> Stale(FALSE)]

Init ==
  /\ insn = NoInsn
  /\ pc = 1
  /\ result = "idle"
  /\ arch = OldArch
  /\ slots = [s \in Slots |-> Stale(FALSE)]
  /\ env = [v \in Vars |-> NoSlot]
  /\ bad = {}

Next ==
  \/ Load
  \/ LoadAddress
  \/ AllocKreg
  \/ Widen
  \/ FreeKreg
  \/ StoreOperand
  \/ EmitToKreg
  \/ EmitToArch
  \/ Return
  \/ Leave
  \/ Begin
  \/ NextFunction

Spec == Init /\ [][Next]_vars

----------------------------------------------------------------------------
TypeOK ==
  /\ result \in Final \union {"none", "idle"}
  /\ IF result = "idle" THEN insn = NoInsn /\ pc = 1
     ELSE insn \in Insns /\ pc \in 1..Len(Plan[insn])
  /\ DOMAIN arch = Locs /\ \A loc \in Locs : DOMAIN arch[loc] = Lanes
  /\ DOMAIN slots = Slots /\ \A s \in Slots : slots[s].used \in BOOLEAN
  /\ env \in [Vars -> Slots \union {NoSlot}]
  /\ bad \subseteq Malformations

(* All or nothing: when a handler gives up with MERR_INSN, for whatever    *)
(* failure at whatever step, Hex-Rays will treat the instruction its own   *)
(* way, so nothing emitted so far may have touched a register, memory or   *)
(* the outside.                                                            *)
AllOrNothing == result = "INSN" => arch = OldArch

(* The discipline behind it: no step that may give up comes after a write. *)
MayDecline(st) ==
  st.do = "INSN" \/ (st.checked /\ st.do \in {"load", "addr", "alloc", "store"})
WritesArch(st) == st.do = "store" \/ (st.do = "emit" /\ st.dst.at # "tmp")
Discipline(plan) ==
  \A j, k \in 1..Len(plan) : j < k /\ MayDecline(plan[k]) => ~WritesArch(plan[j])
Disciplined == insn # NoInsn => Discipline(Plan[insn])

(* The microcode passes Hex-Rays' verifier as far as operands go: none     *)
(* reads a kreg that this handler did not fill, one it has freed, bytes    *)
(* that nothing defined or a general register beyond its end (INTERR       *)
(* 50920: "Undefined live-in temporary crossing blocks"), and none has a   *)
(* size that Hex-Rays does not take there (50920, 50757).                  *)
WellFormed == bad = {}

(* Failures that a handler checks never show in microcode, however few     *)
(* kregs there are and however often one is reused: what is malformed is   *)
(* what widen_loaded_value ("fall back; caller behaviour unchanged") or a  *)
(* failure that nobody looks at has let through.                           *)
FallsBack(plan) ==
  \E j \in 1..Len(plan) :
    plan[j].do = "widen" \/ (plan[j].do \in {"load", "addr", "alloc", "store"} /\ ~plan[j].checked)
OnlyFallbacksMisread == bad # {} => FallsBack(Plan[insn])

(* The discipline behind it, on paper: at every step, what is read is a    *)
(* temporary of this handler, not freed since, with enough bytes defined,  *)
(* or as much of a register as there is; what is freed or filled is such a *)
(* temporary; and no operand has a size that Hex-Rays does not take.       *)
Binds(st, v) == st.do \in {"load", "addr", "alloc", "widen"} /\ st.v = v
Frees(st, v) == st.do = "free" /\ st.v = v
Fills(st, v) == st.do = "emit" /\ st.dst.at = "tmp" /\ st.dst.v = v
Bytes(i, st) == IF st.do = "addr" THEN PtrSize(i) ELSE IF st.do = "alloc" THEN 0
                ELSE IF st.do = "emit" THEN st.dst.w ELSE st.w

Live(plan, k, v) ==
  \E b \in 1..k - 1 : Binds(plan[b], v) /\ \A l \in b + 1..k - 1 : ~Frees(plan[l], v)
Defined(i, plan, k, v, n) ==
  \E j \in 1..k - 1 :
    /\ Binds(plan[j], v) \/ Fills(plan[j], v)
    /\ n <= Bytes(i, plan[j])
    /\ \A l \in j + 1..k - 1 : ~Binds(plan[l], v)
Readable(i, plan, k, s) ==
  /\ s.at = "tmp" => Live(plan, k, s.v) /\ Defined(i, plan, k, s.v, s.w)
  /\ s.at = "deref" => Live(plan, k, s.v) /\ Defined(i, plan, k, s.v, PtrSize(i))
  /\ s.at = "reg" /\ RegLoc(i, s.n, s.w)[1] = "g" => s.w <= PtrSize(i)
Supported(i, s) == (s.w = 32 => i.b64) /\ (s.at = "deref" /\ s.w > 8 => ~i.seg)

WellScoped(i, plan) ==
  \A k \in 1..Len(plan) :
    LET st == plan[k]
    IN  /\ st.do = "load" => Supported(i, Deref(st.v, st.w))
        /\ st.do \in {"widen", "store", "emit"} =>
             /\ Supported(i, st.dst)
             /\ \A j \in DOMAIN st.src : Readable(i, plan, k, st.src[j]) /\ Supported(i, st.src[j])
        /\ st.do = "free" => Live(plan, k, st.v)
        /\ st.do = "emit" /\ st.dst.at = "tmp" => Live(plan, k, st.dst.v)
Scoped == insn # NoInsn => FallsBack(Plan[insn]) \/ WellScoped(insn, Plan[insn])

(* Whatever fails and however apply() ends, and while it still runs: no    *)
(* register has changed but the one that operand 1 names, in either of its *)
(* views; what a handler computes on the way is in kregs.                  *)
OnlyDestinationChanges ==
  insn # NoInsn =>
    \A loc \in Locs :
      loc[1] \notin {"m", "f", "fx"} /\ loc[2] # Op(insn, 1).r => arch[loc] = OldVal(loc)

(* The discipline behind it, step by step.                                 *)
Lands(st) == st.do = "emit" => st.dst.at \in {"tmp", "fx", "flag"} \/ st.dst.n = 1

(* MERR_OK means the emitted microcode computes what the processor         *)
(* promises, whatever registers coincide, and changes nothing else.        *)
ComputesPromise == result = "OK" => Promised(insn, arch)

(* "gather/scatter ... lift to their documented intrinsic forms": but for  *)
(* its mask, which no handler clears, a gather leaves and a scatter stores *)
(* what the processor would. Indices have a size of their own, which does  *)
(* not follow from that of the data; the base may need a kreg.             *)
GatherRight ==
  result = "OK" /\ insn.it \in Gathers \union Scatters => PromisedButMask(insn, arch)

(* The meaning of a plan, on paper: what a step makes of the contents it   *)
(* finds when nothing fails and every temporary is a place of its own.     *)
Filling(i, c, st) ==
  CASE st.do = "load"  -> Cut(c.arch[<<"m", 0>>], Covers(st.w, i.es))
    [] st.do = "addr"  -> AddrVal(st.n)
    [] st.do = "alloc" -> JunkVal
    [] OTHER           -> Outcome(i, c, st)
Ran(i, c, st) ==
  [arch |-> [loc \in Locs |->
               IF st.do = "store" /\ loc = <<"m", 0>>
               THEN Overlay(c.arch[loc], Value(i, c, st.src[1]), Covers(st.src[1].w, i.es))
               ELSE IF st.do = "emit" /\ st.dst.at # "tmp" /\ loc = DstLoc(i, st.dst)
               THEN Overlay(c.arch[loc], Outcome(i, c, st), LanesTo(i, st.dst))
               ELSE c.arch[loc]],
   held |-> [v \in Vars |->
               IF Binds(st, v) THEN Filling(i, c, st)
               ELSE IF Fills(st, v)
               THEN Overlay(c.held[v], Outcome(i, c, st), Covers(st.dst.w, 0))
               ELSE c.held[v]]]

(* Meaning(i)[k] is what step k of the plan of i finds.                    *)
Fresh == [arch |-> OldArch, held |-> [v \in Vars |-> JunkVal]]
Meaning(i) ==
  LET found[k \in 1..Len(Plan[i])] ==
        IF k = 1 THEN Fresh ELSE Ran(i, found[k - 1], Plan[i][k - 1])
  IN  found

(* What MERR_OK leaves depends on the instruction only: on no failure      *)
(* that the handler got over, and not on how many kregs there are, which   *)
(* ones it was given or what others have left in them.                     *)
AsOnPaper == result = "OK" => arch = Meaning(insn)[pc].arch

(* The discipline behind both: every temporary that a step reads, writes   *)
(* or frees is live; no step goes on after a failure, and one that could   *)
(* for want of a kreg comes while one must be left, as no step takes more  *)
(* than one; and the plan keeps the promise on paper.                      *)
OnlyLive(plan) ==
  \A k \in 1..Len(plan) :
    LET st == plan[k]
    IN  /\ st.do \in {"widen", "store", "emit"} =>
             \A j \in DOMAIN st.src :
               st.src[j].at \in {"tmp", "deref"} => Live(plan, k, st.src[j].v)
        /\ st.do = "free" => Live(plan, k, st.v)
        /\ st.do = "emit" /\ st.dst.at = "tmp" => Live(plan, k, st.dst.v)
Dependable(plan) ==
  \A j \in 1..Len(plan) :
    /\ plan[j].do \in {"load", "addr"} => plan[j].checked
    /\ plan[j].do = "widen" \/ (plan[j].do = "alloc" /\ ~plan[j].checked) => j <= Headroom
StoresChecked(plan) ==
  \A j \in 1..Len(plan) : plan[j].do = "store" => plan[j].checked
KeepsPromise(i) ==
  \A k \in 1..Len(Plan[i]) : Plan[i][k].do = "OK" => Promised(i, Meaning(i)[k].arch)
PromisedOnPaper ==
  insn # NoInsn =>
    /\ OnlyLive(Plan[insn]) /\ Dependable(Plan[insn]) /\ StoresChecked(Plan[insn])
    /\ KeepsPromise(insn)

(* The two together: lifting an instruction, whatever its handler does in  *)
(* between, is one step of AtomicLift. What Hex-Rays keeps is nothing      *)
(* until the handler returns.                                              *)
Atomic == INSTANCE AtomicLift
            WITH Start <- OldArch, Promise <- Promised, outcome <- result,
                 visible <- IF result = "none" THEN OldArch ELSE arch
LiftsAtomically == Atomic!Spec

(* A QASSERT on the operands never stops a decompilation.                  *)
NoInterr == result # "INTERR"

(* "Not Lifted (Fall Back to IDA)": "Embedded broadcast", "Rounding        *)
(* override"; both are EVEX.b.                                             *)
EvexExtrasLeftToIda == result = "OK" => ~insn.evexb

(* An opmask is passed with the type of the elements it selects:           *)
(* num_elements is the "number of elements being masked (for mask type     *)
(* selection)".                                                            *)
MaskFits ==
  result = "OK" => \A loc \in {<<"fx", 0>>, Loc(Op(insn, 1))} :
    LET call == arch[loc]["e"]
    IN  call[1] = "res" =>
          \A j \in DOMAIN call[2] :
            call[2][j].mask > 0 => call[2][j].mask = MaskSize(Elements(insn))
=============================================================================
