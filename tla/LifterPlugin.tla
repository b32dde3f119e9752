---------------------------- MODULE LifterPlugin ----------------------------
(***************************************************************************)
(* The life of the plugin inside IDA: the plugmods (one object per         *)
(* database, PLUGIN_MULTI), the process-wide component registry they all   *)
(* drive, and what the three components (avx, vmx, inline) leave installed *)
(* in the decompiler and in IDA's action manager.                          *)
(*                                                                         *)
(* Everything runs on IDA's main thread, so each entry point is one step.  *)
(* The components touch disjoint state, so the unspecified order in which  *)
(* static constructors registered them does not show.                      *)
(*                                                                         *)
(* A definition whose name has the suffix _Bug... is a defect a programmer *)
(* could have put into the definition after it: it is never part of the    *)
(* specification, and serves to show that a property notices the defect.   *)
(***************************************************************************)
EXTENDS Naturals, FiniteSets

CONSTANTS
  Mods,            (* plugmod objects that IDA may construct               *)
  Exclusive,       (* TRUE: one database, hence one plugmod, at a time     *)
  RegisterMayFail  (* TRUE: IDA may refuse to register an action           *)

ASSUME LifterPluginAssumption ==
  /\ Exclusive \in BOOLEAN
  /\ RegisterMayFail \in BOOLEAN

Filters    == {"avx", "vmx"}
Components == Filters \union {"inline"}
Actions    == {"mark_inline", "mark_outline"}

VARIABLES
  decompiler,       (* Hex-Rays is loaded: get_hexdsp() or its init succeeds  *)
  mod,              (* the plugmods: live, hexrays_ready, components_ready     *)
  initialized,      (* stored_component_t::initialized, per component          *)
  lifter,           (* the filter objects that exist: non-null g_avx, g_vmx    *)
  filters,          (* the microcode filters Hex-Rays would call               *)
  dumper,           (* hexrays_debug_callback is installed                     *)
  inlineRegistered, (* g_inline_actions_registered                             *)
  actions,          (* our actions in IDA's action manager                     *)
  callbacks         (* the plugmods whose hexrays_callback is installed        *)

registryVars == <<initialized, lifter, filters, dumper, inlineRegistered, actions>>
vars == <<decompiler, mod, registryVars, callbacks>>

NoMod    == [live |-> FALSE, hexrays_ready |-> FALSE, components_ready |-> FALSE]
FreshMod == [live |-> TRUE, hexrays_ready |-> FALSE, components_ready |-> FALSE]

----------------------------------------------------------------------------
(* The registry. x86 is PH.id = PLFM_386, the processor of the database;   *)
(* dump is the environment variable AVX_DUMP_MC.                           *)

Avail(c, x86) == c = "inline" \/ x86

InitFilters_BugAllComponents(x86, dump) ==
  LET new == IF x86 THEN Components \ lifter ELSE {}
  IN  /\ lifter' = lifter \union new
      /\ filters' = filters \union new
      /\ dumper' = (dumper \/ ("avx" \in new /\ dump))

InitFilters_BugDropsUnavailable(x86, dump) ==
  LET new == IF x86 THEN Filters ELSE {}
  IN  /\ lifter' = new
      /\ filters' = new
      /\ dumper' = (x86 /\ dump)

(* MicroAvx_init and VMXLifter_init: both keep a filter that is already there. *)
InitFilters(x86, dump) ==
  LET new == IF x86 THEN Filters \ lifter ELSE {}
  IN  /\ lifter' = lifter \union new
      /\ filters' = filters \union new
      /\ dumper' = (dumper \/ ("avx" \in new /\ dump))

(* inline_init: IDA refuses a name it already has, and may refuse others.  *)
InitInline ==
  IF inlineRegistered
  THEN UNCHANGED <<inlineRegistered, actions>>
  ELSE \E accepted \in SUBSET (Actions \ actions) :
         /\ RegisterMayFail \/ accepted = Actions \ actions
         /\ actions' = actions \union accepted
         /\ inlineRegistered' = (accepted = Actions)

InitAll(x86, dump) ==
  /\ initialized' = [c \in Components |-> initialized[c] \/ Avail(c, x86)]
  /\ InitFilters(x86, dump)
  /\ InitInline

DoneFilters_BugKeepsFilter ==
  LET old == {c \in lifter : initialized[c]}
  IN  /\ lifter' = lifter \ old
      /\ filters' = filters
      /\ dumper' = (dumper /\ "avx" \notin old)

(* MicroAvx_done and VMXLifter_done return early when there is no filter.  *)
DoneFilters ==
  LET old == {c \in lifter : initialized[c]}
  IN  /\ lifter' = lifter \ old
      /\ filters' = filters \ old
      /\ dumper' = (dumper /\ "avx" \notin old)

DoneInline_BugOneAction ==
  IF initialized["inline"] /\ inlineRegistered
  THEN actions' = actions \ {"mark_inline"} /\ inlineRegistered' = FALSE
  ELSE UNCHANGED <<actions, inlineRegistered>>

(* inline_done returns early unless both registrations had succeeded.      *)
DoneInline ==
  IF initialized["inline"] /\ inlineRegistered
  THEN actions' = actions \ Actions /\ inlineRegistered' = FALSE
  ELSE UNCHANGED <<actions, inlineRegistered>>

DoneAll_BugStaysInitialized ==
  /\ UNCHANGED initialized
  /\ DoneFilters
  /\ DoneInline

DoneAll ==
  /\ initialized' = [c \in Components |-> FALSE]
  /\ DoneFilters
  /\ DoneInline

----------------------------------------------------------------------------
(* The plugmod.                                                            *)

Initialize_BugAnyComponent(m, rec, x86, dump) ==
  IF rec.hexrays_ready \/ ~decompiler
  THEN mod' = [mod EXCEPT ![m] = rec] /\ UNCHANGED <<registryVars, callbacks>>
  ELSE /\ mod' = [mod EXCEPT ![m] =
             [rec EXCEPT !.hexrays_ready = TRUE,
                         !.components_ready = \E c \in Components : Avail(c, x86)]]
       /\ callbacks' = callbacks \union {m}
       /\ InitAll(x86, dump)

(* initialize() on plugmod m whose fields are rec.                         *)
Initialize(m, rec, x86, dump) ==
  IF rec.hexrays_ready \/ ~decompiler
  THEN mod' = [mod EXCEPT ![m] = rec] /\ UNCHANGED <<registryVars, callbacks>>
  ELSE /\ mod' = [mod EXCEPT ![m] =
             [rec EXCEPT !.hexrays_ready = TRUE,
                         !.components_ready = \A c \in Components : Avail(c, x86)]]
       /\ callbacks' = callbacks \union {m}
       /\ InitAll(x86, dump)

(* init(): IDA opens a database and constructs its plugmod.                *)
Construct(m, x86, dump) ==
  /\ ~mod[m].live
  /\ Exclusive => \A n \in Mods : ~mod[n].live
  /\ Initialize(m, FreshMod, x86, dump)
  /\ UNCHANGED decompiler

(* run(): a script or the user runs the plugin, which retries activation.  *)
Run(m, x86, dump) ==
  /\ mod[m].live
  /\ Initialize(m, mod[m], x86, dump)
  /\ UNCHANGED decompiler

Destroy_BugKeepsCallback(m) ==
  /\ mod[m].live
  /\ mod' = [mod EXCEPT ![m] = NoMod]
  /\ IF mod[m].hexrays_ready
     THEN callbacks' = callbacks /\ DoneAll
     ELSE UNCHANGED <<registryVars, callbacks>>
  /\ UNCHANGED decompiler

(* ~lifter_plugmod_t(): nothing to undo unless it had been activated.      *)
Destroy(m) ==
  /\ mod[m].live
  /\ mod' = [mod EXCEPT ![m] = NoMod]
  /\ IF mod[m].hexrays_ready
     THEN callbacks' = callbacks \ {m} /\ DoneAll
     ELSE UNCHANGED <<registryVars, callbacks>>
  /\ UNCHANGED decompiler

(* The decompiler loads, before or after the first database is opened.     *)
LoadDecompiler ==
  /\ ~decompiler
  /\ decompiler' = TRUE
  /\ UNCHANGED <<mod, registryVars, callbacks>>

----------------------------------------------------------------------------
Init ==
  /\ decompiler \in BOOLEAN
  /\ mod = [m \in Mods |-> NoMod]
  /\ initialized = [c \in Components |-> FALSE]
  /\ lifter = {}
  /\ filters = {}
  /\ dumper = FALSE
  /\ inlineRegistered = FALSE
  /\ actions = {}
  /\ callbacks = {}

Next ==
  \/ LoadDecompiler
  \/ \E m \in Mods, x86, dump \in BOOLEAN : Construct(m, x86, dump)
  \/ \E m \in Mods, x86, dump \in BOOLEAN : Run(m, x86, dump)
  \/ \E m \in Mods : Destroy(m)

Spec == Init /\ [][Next]_vars

----------------------------------------------------------------------------
Activated == {m \in Mods : mod[m].live /\ mod[m].hexrays_ready}

TypeOK ==
  /\ decompiler \in BOOLEAN
  /\ mod \in [Mods -> [live : BOOLEAN, hexrays_ready : BOOLEAN, components_ready : BOOLEAN]]
  /\ initialized \in [Components -> BOOLEAN]
  /\ lifter \subseteq Filters
  /\ filters \subseteq Filters
  /\ dumper \in BOOLEAN
  /\ inlineRegistered \in BOOLEAN
  /\ actions \subseteq Actions
  /\ callbacks \subseteq Mods

(* Hex-Rays never holds a filter object that MicroAvx_done or              *)
(* VMXLifter_done has deleted, nor is a live one left out: the guards on   *)
(* g_avx and g_vmx, the registry's flags and the installed filters stay in *)
(* step over every order of construct, run and destroy.                    *)
NoDanglingFilter == filters = lifter /\ (dumper => "avx" \in lifter)

(* A plugmod that reported all components ready keeps both lifters         *)
(* installed until its own destructor: per-database lifetime, as the       *)
(* comment above lifter_plugmod_t promises.                                *)
PerDatabaseLifetime ==
  \A m \in Activated : mod[m].components_ready => filters = Filters

(* Once no activated plugmod is left, the decompiler calls nothing of ours *)
(* and the registry holds no component for initialised: the destructor     *)
(* undid every initialize(), the deferred ones too. Actions are another    *)
(* matter: see NoActionAfterDone.                                          *)
QuietWhenClosed ==
  Activated = {} => filters = {} /\ callbacks = {} /\ ~dumper
                    /\ \A c \in Components : ~initialized[c]

(* Components "manage their own action registration/unregistration in      *)
(* init/done" (component_registry.cpp): after done_all, IDA's action       *)
(* manager holds none of our actions.                                      *)
NoActionAfterDone == Activated = {} => actions = {}

(* Deferral: a plugmod that found no decompiler has installed nothing and  *)
(* is the only kind that a later run() may still activate; an activated    *)
(* one listens to the decompiler until destroyed.                          *)
ListensIffActivated == callbacks = Activated

(* No run() ever takes a lifter away from the decompiler, nor drops a      *)
(* callback: only a destructor does.                                       *)
OnlyDestroyRemoves ==
  [][(\A m \in Mods : mod[m].live => mod'[m].live)
       => filters \subseteq filters' /\ callbacks \subseteq callbacks'
          /\ actions \subseteq actions']_vars
=============================================================================
