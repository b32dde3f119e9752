# A formal model of ida-lifter

ida-lifter is a plugin for the IDA Pro disassembler. It teaches the Hex-Rays
decompiler to translate AVX, AVX-512 and VMX instructions: for each of them it
emits microcode, mostly calls of compiler intrinsics such as `_mm256_add_ps`.
It also adds two menu actions that mark a function as inlined.

This directory holds TLA+ modules that model the plugin, TLC configurations
that check them on small instances, and theorems that TLAPS proves for every
instance. Paths below are relative to the repository; its implementation lies
in `src/`. `PROJECT.json` maps every definition to the lines it stands for.

## 1. The system

| Component | Code | State | Operations |
|---|---|---|---|
| Plugin life cycle | `plugin/lifter_plugin.cpp` | per database a plugmod with `hexrays_ready`, `components_ready` | construct, `run`, destroy; `initialize` defers while the decompiler is missing |
| Component registry | `plugin/component_registry.cpp` | process-wide list of components, each `initialized` or not | `init_all`, `done_all`, `attach_to_popup` |
| AVX filter | `avx/avx_lifter.cpp` | `g_avx`, the installed filter | `MicroAvx_init`, `MicroAvx_done`, `match`, `apply` |
| Microcode dumper | `avx/avx_lifter.cpp` | `g_dump_mc`, `g_cur_mba` | stash in `apply`, `hxe_microcode`, dump at `hxe_interr` |
| Coverage recorder | `avx/avx_lifter.cpp` | `g_cov_seen`, the `AVX_COV` file | `cov_record`, `cov_flush` |
| Handlers | `avx/handlers/*.cpp`, `avx/avx_helpers.*`, `avx/avx_utils.*`, `avx/avx_intrinsic.*` | none of their own; kregs of the function being lifted | one handler per instruction family, each a sequence of loads, kreg allocations and emitted microinstructions |
| VMX filter | `vmx/vmx_lifter.cpp` | `g_vmx` | `match`, `apply`, one handler per instruction |
| Inline toggle | `inline/inline_component.cpp` | the `FUNC_OUTLINE` flag of functions, Hex-Rays' cache of decompilations | `update`, `activate`, popup |

How they interact. IDA builds one plugmod per database; the plugmod installs a
Hex-Rays callback and initialises all components through the registry, which is
static and thus shared by all databases of the process. Components install
microcode filters, actions and callbacks. While Hex-Rays decompiles a function
it offers every instruction to the filters: `match` decides, `apply` emits
microcode into the function's `mba_t` and returns `MERR_OK`, or `MERR_INSN` to
leave the instruction to Hex-Rays.

All of it runs on IDA's main thread. What is hard is not parallelism but order
and failure: plugmods that come and go while sharing static state; a decompiler
that loads late; actions enabled in one state and run in another; updates and
registrations that fail half way; pointers kept from one callback to the next;
in the handlers, more than two hundred sequences of allocations and emissions
that may stop at any checked failure, on operands that may coincide, be memory,
be masked, or be wider than the binary allows; and, between instructions, two
views of one vector register that know nothing of each other. `PROJECT.json`
lists these hazards at their lines.

What makes each component correct:

* life cycle: the filters Hex-Rays holds are the ones that exist; a destructor
  undoes exactly what its plugmod and nobody else still needs;
* dumper and coverage: a dump shows the rejected microcode; coverage is neither
  lost nor written twice, and does reach its file;
* toggle: memory, database and cached decompilations agree;
* handlers: when a handler declines, nothing has been touched; when it does
  not, its microcode is well-formed and computes what the processor would, and
  lifting an instruction looks like one atomic step;
* filters: no instruction is admitted that the emitted microcode cannot express;
* lifted functions: an instruction reads what the last one that defined its
  operands wrote.

## 2. Modules

| Module | Models | Extends |
|---|---|---|
| `LifterPlugin` | life cycle, registry, init and done of the components | |
| `LifterSession` | decompilations, dumper and coverage, composed with the life cycle | `LifterPlugin` |
| `InlineToggle` | the toggle against database and decompilation cache | |
| `AvxIsa` | what the decoder hands over and what the processor promises | |
| `Microcode` | the steps handlers are made of; the shared helpers as sequences of steps | `AvxIsa` |
| `HandlersMov`, `HandlersMath`, `HandlersMask`, `HandlersLogic`, `HandlersShuffle`, `HandlersCvt`, `HandlersVmx` | handlers as *plans*, sequences of steps | `Microcode` |
| `AvxLifter` | `match` and `apply` of the AVX filter | the AVX handlers |
| `Codegen` | the machine that executes plans: kregs, failures, architectural state | `Microcode` |
| `AtomicLift` | the abstract specification: an instruction is lifted at once or not at all | |
| `LiftedFunction` | lifted instructions one after another, over both views of the registers, and calls | `Microcode` |
| `LifterPlugin_proofs`, `LifterSession_proofs`, `InlineToggle_proofs`, `Codegen_proofs`, `LiftedFunction_proofs` | theorems about the module they are named after | TLAPS |
| `Discipline_proofs`, `Lifetime_proofs`, `Bytes_proofs` | theorems about the handlers' plans, and about what `Codegen` does with them | each the one before; the first `Codegen_proofs`, `AvxLifter`, `HandlersVmx` |
| `MCForms`, `MCLogic` | the forms of operands of every instruction | |
| `MC*` otherwise | instances for TLC | |

How they compose. `LifterSession` is `LifterPlugin` with decompilations running
in it. A plan is what a handler does; `Codegen` executes plans step by step and
implements `AtomicLift`, in which an instruction is a single step. That makes it
sound for `LiftedFunction` to take an instruction as a single step too, given by
what its plan reads and writes.

### LifterPlugin and LifterSession

`mod` is the state of every plugmod, `initialized` the registry's flags,
`lifter` the filter objects that exist (`g_avx`, `g_vmx`), `filters` those that
Hex-Rays holds, `actions` IDA's action manager, `callbacks` the plugmods that
listen. `Construct`, `Run` and `Destroy` are the entry points IDA calls, each
with all it calls: `Initialize` runs `InitAll`, which runs the components' init
in the registry's order. `LoadDecompiler` may come at any time, also between
the construction of a plugmod and its `run`. `Exclusive` says whether IDA opens
one database at a time, `RegisterMayFail` whether IDA may refuse an action.

`LifterSession` adds decompilations: `BeginDecompile`, any number of `Apply`,
`MicrocodeGenerated`, then `Finish` or `Interr`; a finished decompilation keeps
its `mba` until `FreeMba`. `covSeen` holds the bits set in the map, `covFile` counts
the lines with each of them, and the history variable `recorded` how often
`cov_record` has set each in the map. That a record is written twice thus
shows as a count that is too high.

`FairSessionSpec` adds what keeps coverage from staying in memory for ever. A
decompilation in progress ends (`Ending`, weakly fair): Hex-Rays returns from
every function it builds, or reports an internal error. Every open database is
closed in the end (`Closing`, strongly fair): IDA destroys every plugmod, but
only between decompilations, so its destructor is enabled again and again
rather than for good.

### InlineToggle

`outline` is the flag in memory, `stored` the flag in the database, `cached` a
decompilation with the flags it saw, `enabled` the actions that `update` last
enabled in each view. `UpdateActions` and `Activate` are separate steps, since
anything may happen between them. `Refused` is an `update_func` that returns
false, `Toggled` one that returns true. A decompilation reads the flags of its
function and of the functions it calls directly.

### The Codegen machine

A handler is straight-line code whose branches depend on its instruction alone,
except for failures. So it is modelled as a function from an instruction to a
*plan*: a sequence of steps that `Codegen` executes one by one. A step is
`load` (`load_operand`), `addr` (`load_effective_address`), `alloc`, `free`,
`store` (`store_operand`), `widen`, `emit`, or a return. Every `load`, `addr`,
`store` and, when the pool is empty, `alloc` may fail; a step is `checked`
when the code looks at the result, and then failure returns `MERR_INSN`. An
unchecked one goes on with what the code goes on with: no kreg, or no store.

Values are symbolic. A value has four lanes (first element, rest of the low 16
bytes, bytes 16 to 31, the rest), and each holds a term saying where its
contents came from: old contents of a register, an address, or the result of a
call with the terms of its arguments. Whether a handler passes the right
operands at the right widths, reads a source after overwriting it, or forgets
the old destination of a merge-masked instruction thus shows in the terms. The
intrinsics themselves are uninterpreted. A vector register has two views, the
32 bytes that Hex-Rays knows and the 64 bytes behind `__readzmm`/`__writezmm`.

Arithmetic is checked by argument order: `AvxIsa!Orders` gives, per class of
mnemonics, the operand sequences that denote the instruction's result
(`Op2 * Op3 + Op1` for a 231 multiply-add, either factor first), and the call
must have been given one of them, after the old destination if an opmask
merges. Flags are state of their own (`<<"f", 0>>`), one lane each: a test must
write those it defines and clear the others. A scalar intrinsic (`ScalarCall`)
computes one element and copies the rest of its first source, as the
intrinsics do. The modules `Handlers*`
cover every handler of the file they are named for (`HandlersMask`,
`HandlersLogic` and `HandlersShuffle` share `handler_logic.cpp`); mnemonics that
differ only in the name of the intrinsic share a class, with a member for every
shape of operands. Operands of different widths, in conversions, extensions and
extracts, are in `AvxIsa!Inputs`.

`AvxIsa!Promised` says when the resulting state is right; it is written from
the instruction set, not from the handlers. `bad` collects malformed operands:
an unbound, foreign or freed kreg, undefined bytes, a 256-bit operand in a
32-bit binary, a vector memory operand with a segment override. The last two
are what the comments in `match` say Hex-Rays does not take. `Promised` includes
what an instruction clears within its operands: the mask of a gather or
scatter, the rest of an XMM register after a scalar load or transfer, the upper
part of 32 bits after a narrower result in a general register. An index vector
must be read as far as there are elements to move, one of quadwords no further,
since its width decides how many elements there are.
`PromisedButMask` leaves the mask of a gather out. `Promised` is silent about the
bytes above a vector destination, which VEX and EVEX clear, and above 32 bits of
a general register: `clear_upper` emits nothing, and the code leaves them to
Hex-Rays.

What a microinstruction computes depends on its operands only, so a plan also
has a meaning on paper: `Meaning(i)[k]` is the state that the first `k - 1` of
its steps leave if all succeed and every temporary is a place of its own,
without kregs. `AsOnPaper` compares the machine with it, `PromisedOnPaper` has
TLC compare it with `Promised`.

The kregs of one instruction are gone for the next one, unless freed: an
instruction starts with what earlier ones left. `Headroom` is the number of
kregs that must be free when an instruction starts; 0 lets them run out.

`AvxLifter!match` and `apply` follow the order of the code's early returns.
A class of mnemonics stands for each `is_..._insn` predicate, with members for
every distinction the handlers make (element size, index size, compare or
test). `MCForms` and `MCLogic` enumerate operand forms, offer each also in a 32-bit
binary and with a segment override where that can be encoded, and keep what
`match` admits; `MCCodegen` has TLC evaluate the plan of each once. `AvxIsa!Decoded`
and `Sized` are what the encodings guarantee of operands: their kinds, the width
of a memory operand against what is read of it, where general registers occur.
The proofs assume them, and TLC checks them of the forms (`FormsSized`).

### LiftedFunction

A register is native microcode up to 32 bytes and lies behind `__readzmm` and
`__writezmm` at 64. `holds` is the set of register parts (view, register, lane)
that have what the processor has there, `origin` the view and the run of a
function in which each lane was defined last. An instruction is a *flow*:
`FlowOf` computes from its plan the parts that its microcode reads and writes,
and from `AvxIsa` those that it consumes and defines. `Execute` then is one step
for all instructions: the lanes that the instruction changes are right where
its microcode wrote them and nowhere else. `CallZmmFunction` is
`handle_zmm_direct_call`, a helper call with neither arguments nor result: the
callee finds what lies behind the helpers, and `ReturnToCaller` brings the
caller's native parts back as they were. `returned` is what
`previous_insn_is_zmm_call` sees.

A value *crosses* when a program reads through one view what it defined through
the other, when it reads what the processor cleared and the microcode did not,
above a narrower destination (`clear_upper` emits nothing) or in the mask of a
gather, or when a native value was defined on the other
side of such a call. The code transfers none of these, so for a crossing
the microcode does read an old value: that no value is ever out of date does
not hold, and TLC shows it in two steps. `CurrentUnlessCrossed` says that this
is all that is lost: whatever the order, the registers and the calls, no value
is read out of date unless it has crossed.

Most instructions are *regular* (`AvxIsa!RegularInsns`, 3804 of the 4351 forms):
each vector operand is consumed whole and operand 1 is the result. What the
proof needs of their operands, `Decoded` and `OneView` (all ZMM or none), is
checked by TLC of all forms (`DecodedForms`); only 3 of the regular ones mix
the views.

Assumed: at the entry of the outermost function both views are right; other
calls are inline code to it; a helper call spoils no register, since
`AVXIntrinsic` declares its empty list of spoiled registers final (`FCI_SPLOK`).
Instructions that the filters decline, SSE among them, are Hex-Rays' own and not
among the flows.

## 3. Runs

Runs that pass:

| Run | Instance | Shows |
|---|---|---|
| `LifterPlugin_parallel` | 3 plugmods at once, registrations may fail | filters, registry and callbacks stay in step; only destructors remove |
| `LifterSession` | 2 plugmods, one at a time, 2 mbas, 2 mnemonics | dumps show rejected microcode; coverage is conserved, only appended, and reaches its file under fairness; per-database lifetime |
| `InlineToggle_race` | 3 functions in a chain with recursion, 2 views | caches fresh, memory and database agree |
| `InlineToggle_failing` | 2 functions, 2 views, refused updates | damage confined, an activation obeys its label |
| `Codegen_lift` | the admitted forms outside the sets below, 4 kregs, 3 free at the start | well-formed, computes the promise, as planned on paper, all or nothing, atomic |
| `Codegen_exhausted` | the same and more forms, 2 kregs that run out | all or nothing, only the destination changes; gathers and scatters that succeed are right but for their mask; a plan in which nothing goes on after a failure reads, on paper, only temporaries that are live and filled, and malformed microcode comes only from the others |
| `LiftedFunction` | the flows of the forms of `Codegen_lift` and of those that only fail to clear something, 2 registers, 2 calls | plans keep to the views of their operands, and nothing is read out of date that has not crossed |

Bounds. Three plugmods let two overlap in every way while a third comes after
or between; the registry has no per-plugmod state that a fourth could reach.
Two mbas suffice for one kept and one failing. A chain of three functions has a
caller of a caller. Registers 1 to 3 realise every pattern of coincidence among
a destination and two sources. A handler holds at most three kregs at once, so
3 free of 4 lets instructions start on a pool with a leftover; with 2 slots
every allocation of every handler fails in some behaviour. A bit of the
coverage map is set anew only after a flush, of which two plugmods make at most
two: `MaxRecorded = 2` cuts nothing off. Mnemonics
without an EVEX form are offered unmasked and below 64 bytes, all others at
every width and with every opmask. `Codegen_lift` excludes the forms listed
below as mislifted; `Codegen_exhausted` has those of arithmetic, logic and
conversion and those with unchecked results, those that fail to clear something (`Uncleared`),
and drops zeroing opmasks, which
change a call's arguments only. In `LiftedFunction` a step changes or reads
each register's parts independently of the other registers, so two, with
every renaming of the operands, show what any number would; the second call
tells a callee's values from those of an earlier callee, and a function that
calls from within a callee does so as a caller of its own. Functions have any
length: the state space is finite.

Symmetry: plugmods, mbas, mnemonics, views and kregs are only compared and
collected, so their permutations are declared symmetric where no liveness is
checked (not in `LifterSession`); functions and registers are not.

Runs that end in a violation, each a disagreement with what the code's comments
or README say (quotes in `PROJECT.json`):

| Run | What the code does |
|---|---|
| `LifterPlugin_multi` | closing one database removes the lifters of another |
| `LifterSession_dump` | the dump reads an `mba` that has been freed |
| `InlineToggle_refused` | a retry after a refused update reports success |
| `Codegen_order` | `vpermq` and `vpermd` by a vector pass the data as indices and the indices as data |
| `Codegen_rounding` | an instruction with `EVEX.b`, embedded broadcast or rounding, is lifted like one without |

More forms that `match` admits and the handlers do not lift right. No run is
spent on them; `MCForms` and `MCLogic` keep each set apart, and a copy of
`Codegen_order.cfg` with that set as `Insns` and the property as its invariant
shows it:

| Set | What the code does | Property |
|---|---|---|
| `ComplexForms` | a complex multiply-add multiplies by the destination and adds operand 3 (`handler_math.cpp:438`) | `ComputesPromise` |
| `HalfIndexed` | a ZMM gather of quadwords by dwords reads a YMM index as ZMM (`handler_mov.cpp:827`); narrower ones also read their index too wide, which reaches no element | `ComputesPromise` |
| `KeptMasks` | gathers and scatters never clear their mask; a loop that gathers the rest sees none of it done (`handler_mov.cpp:752-908, :910`) | `ComputesPromise`; all else is right: `GatherRight` |
| `XmmIndexed` | a gather or scatter of dwords by quadwords, of XMM data and XMM indices, takes the 256-bit intrinsic and reads its index as YMM: four elements for two (`handler_mov.cpp:815-831`) | `ComputesPromise` |
| `KeptRests` | a `vmovss` or `vmovsd` load keeps the rest of its XMM register; the comment at `handler_mov.cpp:76-78` relies on `MERR_INSN`, the code returns `MERR_OK` (`handler_mov.cpp:74-79`) | `ComputesPromise` |
| `NarrowResults` | `vmovw`, `kmovb` and `kmovw` to a general register write 1 or 2 bytes of it and do not extend to 32 bits (`handler_mov.cpp:263-266; handler_logic.cpp:3983`) | `ComputesPromise` |
| `DisplacedGather32` | 8 bytes read of a 4-byte base register (`handler_mov.cpp:837`) | `WellFormed` |
| `GlobalStores` (2 slots, `Headroom = 0`) | a store with an unchecked kreg reports success (`avx_helpers.cpp:210`) | `WellFormed`, `ComputesPromise` |
| `YmmToMask32` | YMM compares into opmasks pass in 32-bit binaries (`avx_lifter.cpp:287`) | `WellFormed` |
| `PassesYmmGate` of `vcvtneps2bf16` | its 32-byte memory operand passes the 32-bit gate, which looks at registers (`avx_lifter.cpp:339`) | `WellFormed` |
| `NarrowMaskStores` | a masked XMM or YMM store gets the opmask type of a ZMM register (`avx_utils.h:287`) | `MaskFits` |
| `NarrowMaskCompares` | so does a masked compare of XMM or YMM registers into an opmask (`avx_utils.h:287`) | `MaskFits` |
| `MaskedProducts` | widening products count the elements of their sources (`handler_math.cpp:652`) | `MaskFits` |
| `MaskConsumers` | `vpmovm2*`, `vpbroadcastm*` get the number of the opmask (`handler_logic.cpp:3068`) | `ComputesPromise` |
| `MaskPairs` | `vp2intersect` writes no opmask (`handler_logic.cpp:3760`) | `ComputesPromise` |
| `WideClasses` | `vfpclass` of memory sees 16 bytes only (`handler_logic.cpp:3666`) | `ComputesPromise` |
| `PseudoCompares` | `vcmpeqps` and its like into an opmask become a nop (`avx_lifter.cpp:403`) | `ComputesPromise` |
| `FixupForms` | unmasked or zero-masked `vfixupimm*` is not given the old destination (`handler_math.cpp:1604`) | `ComputesPromise` |
| `ScalarMulAddRest` | a scalar 213 or 231 multiply-add returns the rest of operand 2, not of the destination (`handler_math.cpp:930`) | `ComputesPromise` |
| `IndexMerged` | a merge-masked `vpermi2*` keeps elements of a table instead of its destination's (`handler_logic.cpp:1241`) | `ComputesPromise` |
| `ZeroBlends` | a zeroing blend gives elements of operand 2 instead of zero (`handler_logic.cpp:4011`) | `ComputesPromise` |
| `HalfRead` | extensions and conversions read a source of the wrong width at ZMM (`handler_cvt.cpp:126, :216, :251, :298; handler_logic.cpp:3251, :3291`) | `ComputesPromise` |
| `DoubleRead` | `vpmovwb` of an XMM register reads it as YMM (`handler_logic.cpp:3318`) | `ComputesPromise` |
| `RoundedTwice` | native scalar conversions of an integer go through a float of the integer's size (`handler_cvt.cpp:90`) | `ComputesPromise` |
| `AfterZmmCall` | `vcvtss2sd` after a ZMM call drops the rest of operand 2 (`handler_cvt.cpp:155`) | `ComputesPromise` |
| `FlagLosers` | `vcomish` drops its result, `ktest` and `kortest` are a nop: no flag is written (`handler_logic.cpp:3800; avx_lifter.cpp:398`) | `ComputesPromise` |
| `ClearForms` | `vzeroupper` is a nop, `vzeroall` a call without results: no register is cleared (`handler_logic.cpp:1704, :1712`) | `ComputesPromise` |
| `FourScalars` | `v4fmaddss` reads its XMM sources through `__readzmm` (`handler_logic.cpp:3716`) | `ComputesPromise` |
| `NativeZmm` | `vmovntdqa` writes a ZMM destination natively (`handler_logic.cpp:3010`) | `ComputesPromise` |
| `StoredBytes` | `vpmovwb` to memory gives its result to the base register (`handler_logic.cpp:3327`) | `ComputesPromise` |
| `UncheckedSources` | a failed load of `vbroadcastf128` or `vmaskmov` is read anyway (`handler_logic.cpp:1802`) | `WellFormed`, `ComputesPromise` |
| `UncheckedResults` | a failed store of extracts, non-temporal stores, narrowing moves, `vcvtps2ph`, `vstmxcsr` goes unnoticed (`handler_logic.cpp:2170, :2341, :3034, :3386, :3526; handler_cvt.cpp:324`) | `WellFormed`, `ComputesPromise` |
| `UncheckedStores` | a failed store of `vmovd`, `vmovq` goes unnoticed (`handler_mov.cpp:320`) | `ComputesPromise` |

Names of intrinsics are not modelled, so these are only noted: `vcvtps2dq` of
ZMM registers has the XMM prefix, `vpmov*` down-conversions always `_mm512_`.

`LifterPlugin` with `RegisterMayFail = TRUE` likewise violates
`NoActionAfterDone`: when one of the two actions is registered and the other
refused, nothing ever unregisters the first (`inline_component.cpp:191`).

Every property of a passing run has a mutant: a definition changed the way a
bug would change the code, under which TLC finds the property violated.

Deadlock is checked everywhere; the systems never stop.

Fairness and liveness. The one thing that must eventually happen here is that
recorded coverage reaches its file: it sits in a map until a destructor flushes
it. `CoverageReachesFile` is checked under `FairSessionSpec`, whose fairness is
justified in section 2: what was recorded for the nth time is written n times. A
failed open is the one excuse, and `CoverageConserved` then keeps the records for
the next flush. Everything else
happens when the user, IDA or Hex-Rays calls, and nothing obliges them to:
nobody need open a view, and IDA need not run a plugmod again. A handler is a
terminating function: `TypeOK` of `Codegen` bounds `pc` by the plan's length,
the rest of termination is the shape of a plan.

## 4. Proofs

All theorems hold for every value of the constants, under the named assumptions
of each module (`NoInsn` is no instruction, a plan ends in a return, and so on).

* `LifterPlugin_proofs`. The inductive invariant `PluginInv` adds three facts
  to the properties: `g_avx` and `g_vmx` agree with the
  registry's flags; when no plugmod is activated nothing is initialised; and
  `components_ready` implies `hexrays_ready`. It is needed because `DoneAll` of
  one plugmod undoes the work of all: without the agreement of flags a second
  `InitAll` could leave out a filter. Type correctness, `NoDanglingFilter`,
  `QuietWhenClosed`, `ListensIffActivated` and `OnlyDestroyRemoves` follow
  unconditionally, `PerDatabaseLifetime` if databases exclude one another, and
  `NoActionAfterDone` if registrations never fail: what goes wrong without
  these two assumptions is in section 3. `QuietWhenClosed` is about filters,
  callbacks, the dumper and the registry's flags and holds also when
  registrations fail, when an action may well be left.
* `LifterSession_proofs`. Seen through the plugin's variables a session is a
  behaviour of `LifterPlugin` (`SessionIsPluginLife`), so `PluginInv` holds in
  it. On top, `DumperInv` says that while microcode has been emitted into a
  function, `g_cur_mba` is that function's mba, which gives
  `DumpsRejectedMicrocode`. `CoverageConserved` is an equation of counts: what
  was ever recorded of a bit is in the map or on a line of the file, once each.
  `CoverageInv` adds to it and `CoverageFlushed` that nothing is recorded unless
  `AVX_COV` is set, without which a flush could return early and keep what it was
  to write.
* `InlineToggle_proofs`. The invariant says that a cached decompilation saw of
  itself only functions it reads, and that all disagreements concern refused
  functions. `DamageConfined` follows for every call graph; if updates cannot
  fail, so do `FreshCaches`, `MemoryAgreesWithDatabase` and `ReachedIsDone`.
  `ActivationObeysLabel` is an action property: whatever happened since an
  action was enabled, its activation leaves the flag as the label says and every
  other flag alone. `PopupOffersUsable` is another: a popup computes its two
  actions from the flag as it is, and always enables one of them.
* `Codegen_proofs`. A plan has `Discipline` when no step that may decline
  follows one that writes architectural state. The invariant `Touched` says
  that changed state implies an already executed write of this plan. For all
  disciplined plans and any number of kregs, `AllOrNothing` holds under every
  pattern of failures; and if the plans compute their promise, `Codegen`
  implements `AtomicLift`. `MaskFits` follows for plans that give each opmask
  the size of the elements (`MasksSized`). `MasksFit` strengthens it from the
  destination to every place a value can be, register, memory or kreg: a result
  may lie in a kreg for many steps and be cut, widened and overlaid before it
  arrives.
  The second part of the module is about temporaries. `Live` and `Defined` say
  of a plan, on paper, which temporaries a step may use and how many of their
  bytes are filled. The invariant `Sound` says that the machine agrees: a live
  temporary names an allocated kreg of its own, with at least those bytes
  defined, and nothing malformed has been emitted. It has to speak of all
  temporaries together, since a kreg that is freed may be bound to another name
  in the next step. So well-scoped plans are malformed only if a step goes on
  after a failure (`OnlyFallbacksMisreadHolds`), and not even then if loads are
  checked and kregs cannot run out before the last widening or unchecked
  allocation (`WellFormedHolds`); `Spare` counts those that are left. What the
  plan computes follows the same way. `Follows` relates the machine to the
  meaning on paper: registers, flags and memory agree, and so does each live
  temporary with the kreg it names; with it, `AsOnPaperHolds` says that a
  completed lift leaves what the plan means whichever kregs it was given and
  whatever they held. A dead temporary need not agree, so the plan must read
  live ones only (`OnlyLive`). `ComputesPromiseHolds` concludes that a
  completed lift computes what the processor promises, if the plan does so on
  paper.
* `Discipline_proofs`. The hypothesis of the above, for the handlers as they
  are. A plan is `Quiet` if it writes no architectural state, `Steady` if it
  cannot decline, `Safe` if it is disciplined. Quiet plans and steady plans are
  closed under concatenation; a quiet plan may precede a safe one, a steady one
  may follow it. The shared helpers are classified once, and then every handler
  is quiet loads and allocations before steady stores. `EveryHandlerDisciplined`
  says so of both filters for any instruction whatever, valid or not, admitted
  by `match` or not. With it, `HandlersAllOrNothing` and
  `HandlersLiftAtomically` no longer assume discipline. The second half does the
  same for shapes: `EveryHandlerWhole` says that every plan is a sequence of
  steps whose jumps stay inside, that ends in a return, and whose
  microinstructions write kregs, memory, flags or the register of operand 1
  only. So whatever fails, no other register ever changes
  (`HandlersChangeOnlyDestination`).
* `Lifetime_proofs`. The lifetimes of temporaries in the plans of the handlers
  as they are. `After(L, p)` are the names live after plan `p` if those of `L` were
  before it; `InScope(L, p)` says that each step of `p` uses live names only.
  Both are compositional (`ScopeClosed`), so each helper has one lemma: what it
  needs in `L` and what it leaves. `EveryHandlerScoped` concludes that every
  handler of both filters reads, fills and frees only kregs that it has
  allocated on that path and not freed, whatever the operands, masks and
  widths. For the AVX filter the instruction must be `Encodable`, without which
  the theorem is false: a zero-masked gather, were there one, would read its
  kreg of zeros after freeing it; `vldmxcsr` of a register or `sha256rnds2` with
  memory for its implicit operand would read an operand never loaded. No encoding
  reaches these branches (`FormsEncodable` has TLC check that of the forms).
  `NoStrayKregs` carries it over to the machine by the invariant `Orderly`:
  with any number of kregs, no unbound, foreign or freed kreg is in the
  microcode unless a step of that handler goes on after a failure. With it,
  `HandlersAsOnPaper` and `HandlersComputePromise` no longer assume `OnlyLive`.
  Their other hypotheses are about one instruction at a time: `Dependable` and
  `StoresChecked` (nothing goes on after a failure) and `KeepsPromise` (the meaning
  is right) are the conjuncts of `PromisedOnPaper`, which TLC checks of
  every form of `Codegen_lift`. So the two go together: TLC goes through the
  instructions, and the proof through kregs, their number and reuse, failures
  and the instructions before.
* `Bytes_proofs`. The bytes of those temporaries, so that `Scoped` holds. How
  many are defined at a step depends on all the steps before it, which does not
  compose; what a plan *needs* does. `N` says of each temporary how many bytes
  are read of it. `Suits(i, N, p)` says that each step of `p` reads no more than
  that, and brings as much where it is a load or an address; what `p` allocates
  it fills with as much before it reads it. Plans that suit the same `N` suit it
  one after the other (`FitsCompose`), so a handler fits if its helpers do and
  some `N` serves all of them (`Fitted`). `ApplyFits` and `VmxFits` say this of
  every handler. It rests on the operands being encoded as `Decoded` and
  `Sized` say, without which it is false: an addition of 64 bytes with a
  16-byte memory operand would read 48 bytes that no load brought.
  `HandlersScoped` then joins it with `EveryHandlerScoped` to `WellScoped`, in
  64-bit binaries, without segment override (`Encoded64`), for plans in which
  nothing goes on after a failure or is widened: of the 2823 such forms in
  `Codegen_exhausted`, all but 53. `HandlersMisread` carries it to
  the machine: with any number of kregs, only those other plans ever emit
  malformed microcode. In 32-bit binaries the gates of `match` decide, on which
  instructions of 256 bits there are, and section 3 shows where they err.
* `LiftedFunction_proofs`. If flows honour the views of their operands
  (`Honours`), `CurrentUnlessCrossed` holds for any flows and any number of
  calls; nothing in the proof depends on which registers there are.
  The invariant is that what has not crossed is where its definition put it
  (`InPlace`); it needs `KeptForCaller`, that while a callee runs the caller's
  values are among those it will find again, and `DefinedBySomeRun`, that no run
  has defined anything before it begins, or a new callee's values could be taken
  for those of an old one. That the handlers honour the views is proved for the
  regular instructions, whatever their registers, widths and masks: `OwnViews`
  says of a part of a plan that it reads and writes every register operand
  through the view of its width, of a whole plan that some step also gives
  operand 1 all that the instruction defines. It is compositional, so the
  helpers and then the handlers have one lemma each, and
  `RegularFunctionsHonourViews` concludes `NextHonoursViews` and
  `CurrentUnlessCrossed` for every function made of `Decoded` instructions of
  one view; 58 of the 90 distinct flows are of that kind.
  `FunctionTypeCorrect` needs no such hypothesis.

Only model-checked:

* `CoverageReachesFile`, which is liveness.
* `PromisedOnPaper` with its three conjuncts, the hypotheses that
  `HandlersComputePromise` makes of each instruction. `KeepsPromise` compares
  the meaning of a plan with the instruction set, case by case; it does not
  follow from the shape of a plan, and several handlers break it (section 3).
  TLC goes through all forms, and the proof takes what it finds to every number
  of kregs.
* That the handlers of irregular instructions honour the views of their operands:
  conversions, extensions, broadcasts, inserts, extracts, gathers and scatters
  read operands at widths that are not those of the operand or mix the views.
  What each consumes is a table entry in `AvxIsa!Inputs`, so a proof would repeat
  the table; `NextHonoursViews` is checked of all their forms in the run.
* The rest of the hypotheses of `OnlyFallbacksMisreadHolds`, `WellFormedHolds`
  and `MaskFitsHolds`: `WellScoped` in 32-bit binaries, where it does not hold of
  every instruction that `match` admits (`DisplacedGather32` and others in section
  3); `Dependable`; and `MasksSized`, which `NarrowMaskStores` and its like break. TLC
  checks them of the forms outside those sets, through `Scoped` in
  `Codegen_exhausted` and `WellFormed` and `MaskFits` in `Codegen_lift`.
* `NoInterr` of the handlers as they are: a QASSERT is about the kinds of
  operands, which the decoder's forms have and arbitrary records do not.

## 5. Not modelled

* Values of immediates and rounding modes, the arithmetic of intrinsics, names
  of intrinsics and types (their widths are).
* The type that `force_voidarg_type` stores of a called function (`avx_lifter.cpp:56-65`),
  which outlives the decompilation: `LiftedFunction` is about one caller.
* What embedded broadcast and rounding mean: that they are admitted is shown.
* RFLAGS results of VMX instructions; their handlers emit plain calls.
* Values that cross between the views of a register: that they are lost is
  modelled, what Hex-Rays makes of it is not.
* `handle_v_prefetch_gs`: `match` never lets anything reach it.
* `AVX_COV_MANIFEST`, logging, the warning filter, type lookup, build files.
* Whether Hex-Rays inlines through several levels of calls; a decompilation is
  taken to read the flags of its direct callees.
* Opmasks of masked instructions are passed by number (the README documents
  this); the model accepts that for masking and checks the width.

## 6. Plan

Done: all components listed as modelled in `PROJECT.json`, their composition in
`LifterSession`, `AtomicLift` and `LiftedFunction`, and the proofs above. Next,
in this order:

1. `WellScoped` in 32-bit binaries for the instructions outside the sets of
   section 3, from the gates of `match`; `MasksSized` in the same way, and
   `NoInterr` from `Decoded`.
2. The views of irregular instructions, one family at a time.
3. `LifterSession` over `AtomicLift` in place of its `Apply`, so that an internal
   error is the consequence of a form and not a choice.
