------------------------ MODULE LifterPlugin_proofs ------------------------
(***************************************************************************)
(* Theorems about LifterPlugin, for any set of plugmods.                   *)
(*                                                                         *)
(* The safety properties are not inductive: they need that the registry's  *)
(* initialized flags, g_avx and g_vmx agree (FlagsAgree), since done_all   *)
(* consults the flags and the done functions the pointers.                 *)
(***************************************************************************)
EXTENDS LifterPlugin, TLAPS

(* The registry's flag of a lifter is set exactly when its object exists.  *)
FlagsAgree == \A c \in Filters : initialized[c] <=> c \in lifter

(* Nothing is initialized on behalf of nobody.                             *)
NobodyNothing ==
  Activated = {} => \A c \in Components : ~initialized[c]

(* Only a live plugmod has its flags set, and only an activated one can    *)
(* have all components ready.                                              *)
FlagsOfLive == \A m \in Mods :
  /\ mod[m].hexrays_ready => mod[m].live
  /\ mod[m].components_ready => mod[m].hexrays_ready

PluginInv ==
  /\ TypeOK
  /\ NoDanglingFilter
  /\ FlagsAgree
  /\ ListensIffActivated
  /\ NobodyNothing
  /\ FlagsOfLive

(* One database at a time, and what that gives: the components that are    *)
(* ready for the one plugmod are still installed.                          *)
OneDatabase ==
  /\ \A m, n \in Mods : mod[m].live /\ mod[n].live => m = n
  /\ PerDatabaseLifetime

(* When IDA refuses no registration, the flag and the action manager agree *)
(* and the actions are there only on behalf of the initialized component.  *)
ActionsAgree ==
  /\ inlineRegistered => actions = Actions /\ initialized["inline"]
  /\ ~inlineRegistered => actions = {}

----------------------------------------------------------------------------
(* Lemmas about the entry points' common parts.                            *)

(* init_all leaves the flags, pointers and filters in step.                *)
LEMMA InitAllInv ==
  ASSUME PluginInv, NEW x86 \in BOOLEAN, NEW dump \in BOOLEAN, InitAll(x86, dump)
  PROVE  /\ initialized' \in [Components -> BOOLEAN]
         /\ lifter' \subseteq Filters /\ filters' \subseteq Filters /\ dumper' \in BOOLEAN
         /\ inlineRegistered' \in BOOLEAN /\ actions' \subseteq Actions
         /\ NoDanglingFilter' /\ FlagsAgree'
         /\ filters \subseteq filters' /\ actions \subseteq actions'
<1>1. /\ lifter' \subseteq Filters /\ filters' \subseteq Filters /\ dumper' \in BOOLEAN
      /\ NoDanglingFilter' /\ filters \subseteq filters'
  BY DEF PluginInv, TypeOK, NoDanglingFilter, InitAll, InitFilters, Filters
<1>2. initialized' \in [Components -> BOOLEAN]
  BY DEF PluginInv, TypeOK, InitAll, Avail
<1>3. FlagsAgree'
  BY DEF PluginInv, TypeOK, FlagsAgree, InitAll, InitFilters, Avail, Filters, Components
<1>4. inlineRegistered' \in BOOLEAN /\ actions' \subseteq Actions /\ actions \subseteq actions'
  BY DEF PluginInv, TypeOK, InitAll, InitInline
<1> QED BY <1>1, <1>2, <1>3, <1>4

(* done_all leaves no lifter, filter, dumper or flag behind.               *)
LEMMA DoneAllInv ==
  ASSUME PluginInv, DoneAll
  PROVE  /\ initialized' = [c \in Components |-> FALSE]
         /\ lifter' = {} /\ filters' = {} /\ dumper' = FALSE
         /\ inlineRegistered' \in BOOLEAN /\ actions' \subseteq Actions
<1>1. {c \in lifter : initialized[c]} = lifter
  BY DEF PluginInv, TypeOK, FlagsAgree, Filters
<1>2. lifter' = {} /\ filters' = {} /\ dumper' = FALSE
  BY <1>1 DEF DoneAll, DoneFilters, PluginInv, TypeOK, NoDanglingFilter
<1>3. inlineRegistered' \in BOOLEAN /\ actions' \subseteq Actions
  BY DEF DoneAll, DoneInline, PluginInv, TypeOK
<1> QED BY <1>2, <1>3 DEF DoneAll

(* initialize(), called from the constructor or from run(), on a plugmod   *)
(* that has nothing installed unless it was already activated.             *)
LEMMA InitializeInv ==
  ASSUME PluginInv, NEW m \in Mods, NEW rec, NEW x86 \in BOOLEAN, NEW dump \in BOOLEAN,
         rec \in [live : BOOLEAN, hexrays_ready : BOOLEAN, components_ready : BOOLEAN],
         rec.live, rec.hexrays_ready <=> mod[m].hexrays_ready,
         rec.components_ready => rec.hexrays_ready,
         Initialize(m, rec, x86, dump), UNCHANGED decompiler
  PROVE  PluginInv'
<1> DEFINE ready == [rec EXCEPT !.hexrays_ready = TRUE,
                                !.components_ready = \A c \in Components : Avail(c, x86)]
<1>1. CASE rec.hexrays_ready \/ ~decompiler
  <2>1. mod' = [mod EXCEPT ![m] = rec] /\ UNCHANGED <<registryVars, callbacks>>
    BY <1>1 DEF Initialize
  <2>2. Activated' = Activated
    BY <2>1 DEF Activated, PluginInv, TypeOK, FlagsOfLive
  <2>3. TypeOK' /\ FlagsOfLive'
    BY <2>1 DEF PluginInv, TypeOK, FlagsOfLive, registryVars
  <2> QED
    BY <2>1, <2>2, <2>3
    DEF PluginInv, NoDanglingFilter, FlagsAgree, ListensIffActivated, NobodyNothing, registryVars
<1>2. CASE ~(rec.hexrays_ready \/ ~decompiler)
  <2>1. /\ mod' = [mod EXCEPT ![m] = ready]
        /\ callbacks' = callbacks \union {m}
        /\ InitAll(x86, dump)
    BY <1>2 DEF Initialize
  <2>2. ready \in [live : BOOLEAN, hexrays_ready : BOOLEAN, components_ready : BOOLEAN]
        /\ ready.live /\ ready.hexrays_ready
    OBVIOUS
  <2>3. Activated' = Activated \union {m}
    BY <2>1, <2>2 DEF Activated, PluginInv, TypeOK
  <2>4. TypeOK' /\ NoDanglingFilter' /\ FlagsAgree'
    <3>1. mod' \in [Mods -> [live : BOOLEAN, hexrays_ready : BOOLEAN, components_ready : BOOLEAN]]
      BY <2>1, <2>2 DEF PluginInv, TypeOK
    <3> QED BY <3>1, <2>1, InitAllInv DEF PluginInv, TypeOK
  <2>5. ListensIffActivated' /\ NobodyNothing'
    BY <2>1, <2>3 DEF PluginInv, ListensIffActivated, NobodyNothing
  <2>6. FlagsOfLive'
    BY <2>1, <2>2 DEF PluginInv, TypeOK, FlagsOfLive
  <2> QED BY <2>4, <2>5, <2>6 DEF PluginInv
<1> QED BY <1>1, <1>2

----------------------------------------------------------------------------
(* The strengthened invariant holds initially and every step keeps it.     *)
LEMMA PluginInvInit == Init => PluginInv
<1> SUFFICES ASSUME Init PROVE PluginInv OBVIOUS
<1>1. Activated = {}
  BY DEF Init, Activated, NoMod
<1> QED
  BY <1>1 DEF Init, PluginInv, TypeOK, NoMod, NoDanglingFilter, FlagsAgree,
              ListensIffActivated, NobodyNothing, FlagsOfLive, Filters, Components, Actions

(* The invariant is kept by every step,                                    *)
LEMMA PluginInvNext == PluginInv /\ [Next]_vars => PluginInv'
<1> SUFFICES ASSUME PluginInv, [Next]_vars PROVE PluginInv' OBVIOUS
<1>1. CASE LoadDecompiler
  BY <1>1 DEF LoadDecompiler, registryVars, PluginInv, TypeOK, NoDanglingFilter, FlagsAgree,
              ListensIffActivated, NobodyNothing, FlagsOfLive, Activated
<1>2. ASSUME NEW m \in Mods, NEW x86 \in BOOLEAN, NEW dump \in BOOLEAN, Construct(m, x86, dump)
      PROVE  PluginInv'
  <2>1. ~mod[m].hexrays_ready
    BY <1>2 DEF Construct, PluginInv, FlagsOfLive
  <2>2. /\ FreshMod \in [live : BOOLEAN, hexrays_ready : BOOLEAN, components_ready : BOOLEAN]
        /\ FreshMod.live /\ ~FreshMod.hexrays_ready /\ ~FreshMod.components_ready
    BY DEF FreshMod
  <2> QED BY <1>2, <2>1, <2>2, InitializeInv DEF Construct
<1>3. ASSUME NEW m \in Mods, NEW x86 \in BOOLEAN, NEW dump \in BOOLEAN, Run(m, x86, dump)
      PROVE  PluginInv'
  <2>1. mod[m] \in [live : BOOLEAN, hexrays_ready : BOOLEAN, components_ready : BOOLEAN]
    BY DEF PluginInv, TypeOK
  <2>2. mod[m].components_ready => mod[m].hexrays_ready
    BY DEF PluginInv, FlagsOfLive
  <2> QED BY <1>3, <2>1, <2>2, InitializeInv DEF Run
<1>4. ASSUME NEW m \in Mods, Destroy(m)
      PROVE  PluginInv'
  <2>1. mod' = [mod EXCEPT ![m] = NoMod]
    BY <1>4 DEF Destroy
  <2>2. mod' \in [Mods -> [live : BOOLEAN, hexrays_ready : BOOLEAN, components_ready : BOOLEAN]]
    BY <2>1 DEF PluginInv, TypeOK, NoMod
  <2>3. Activated' = Activated \ {m}
    BY <2>1 DEF Activated, PluginInv, TypeOK, NoMod
  <2>4. FlagsOfLive'
    BY <2>1 DEF FlagsOfLive, PluginInv, TypeOK, NoMod
  <2>5. CASE mod[m].hexrays_ready
    <3>1. callbacks' = callbacks \ {m} /\ DoneAll /\ UNCHANGED decompiler
      BY <1>4, <2>5 DEF Destroy
    <3>2. TypeOK'
      BY <3>1, <2>2, DoneAllInv DEF PluginInv, TypeOK
    <3>3. NoDanglingFilter' /\ FlagsAgree' /\ NobodyNothing'
      BY <3>1, DoneAllInv DEF NoDanglingFilter, FlagsAgree, NobodyNothing, Filters, Components
    <3>4. ListensIffActivated'
      BY <3>1, <2>3 DEF PluginInv, ListensIffActivated
    <3> QED BY <3>2, <3>3, <3>4, <2>4 DEF PluginInv
  <2>6. CASE ~mod[m].hexrays_ready
    <3>1. UNCHANGED <<registryVars, callbacks, decompiler>>
      BY <1>4, <2>6 DEF Destroy
    <3>2. Activated' = Activated
      BY <2>3, <2>6 DEF Activated
    <3> QED
      BY <3>1, <3>2, <2>2, <2>4
      DEF PluginInv, TypeOK, NoDanglingFilter, FlagsAgree, ListensIffActivated, NobodyNothing,
          registryVars
  <2> QED BY <2>5, <2>6
<1>5. CASE UNCHANGED vars
  BY <1>5 DEF vars, registryVars, PluginInv, TypeOK, NoDanglingFilter, FlagsAgree,
              ListensIffActivated, NobodyNothing, FlagsOfLive, Activated
<1> QED BY <1>1, <1>2, <1>3, <1>4, <1>5 DEF Next

(* and so holds throughout.                                                *)
LEMMA PluginInvHolds == Spec => []PluginInv
BY PluginInvInit, PluginInvNext, PTL DEF Spec

----------------------------------------------------------------------------
(* Every variable keeps its type, over any number of databases.            *)
THEOREM TypeCorrect == Spec => []TypeOK
<1>1. PluginInv => TypeOK
  BY DEF PluginInv
<1> QED BY <1>1, PluginInvHolds, PTL

(* The decompiler never holds a filter that a done function has deleted,   *)
(* whatever the order of constructions, runs and destructions.             *)
THEOREM NoDanglingFilterHolds == Spec => []NoDanglingFilter
<1>1. PluginInv => NoDanglingFilter
  BY DEF PluginInv
<1> QED BY <1>1, PluginInvHolds, PTL

(* A plugmod listens to the decompiler exactly while it is activated.      *)
THEOREM ListensHolds == Spec => []ListensIffActivated
<1>1. PluginInv => ListensIffActivated
  BY DEF PluginInv
<1> QED BY <1>1, PluginInvHolds, PTL

(* When the last activated plugmod is gone Hex-Rays holds no filter, no    *)
(* callback and no dumper of ours, and no component counts as initialised, *)
(* whatever registrations failed. An action may be left (NoActionHolds).   *)
THEOREM QuietHolds == Spec => []QuietWhenClosed
<1>1. PluginInv => QuietWhenClosed
  BY DEF PluginInv, TypeOK, QuietWhenClosed, NoDanglingFilter, FlagsAgree,
         ListensIffActivated, NobodyNothing, Filters, Components
<1> QED BY <1>1, PluginInvHolds, PTL

(* Only a destructor takes a filter, a callback or an action away.         *)
THEOREM OnlyDestroyRemovesHolds == Spec => OnlyDestroyRemoves
<1> DEFINE Grow == filters \subseteq filters' /\ callbacks \subseteq callbacks'
                   /\ actions \subseteq actions'
           Kept == \A m \in Mods : mod[m].live => mod'[m].live
<1>1. PluginInv /\ [Next]_vars => [Kept => Grow]_vars
  <2> SUFFICES ASSUME PluginInv, Next, Kept PROVE Grow
    OBVIOUS
  <2>1. CASE LoadDecompiler
    BY <2>1 DEF LoadDecompiler, registryVars
  <2>2. ASSUME NEW m \in Mods, NEW rec, NEW x86 \in BOOLEAN, NEW dump \in BOOLEAN,
               Initialize(m, rec, x86, dump)
        PROVE  Grow
    BY <2>2, InitAllInv DEF Initialize, registryVars
  <2>3. ASSUME NEW m \in Mods, Destroy(m)
        PROVE  FALSE
    BY <2>3 DEF Destroy, NoMod, PluginInv, TypeOK
  <2> QED BY <2>1, <2>2, <2>3 DEF Next, Construct, Run
<1> QED BY <1>1, PluginInvHolds, PTL DEF Spec, OnlyDestroyRemoves

----------------------------------------------------------------------------
(* The per-database lifetime that the comment above lifter_plugmod_t       *)
(* promises does hold as long as IDA opens one database at a time.         *)
THEOREM PerDatabaseHolds ==
  ASSUME Exclusive
  PROVE  Spec => []PerDatabaseLifetime
<1>1. Init => OneDatabase
  BY DEF Init, OneDatabase, PerDatabaseLifetime, Activated, NoMod
<1>2. PluginInv /\ OneDatabase /\ [Next]_vars => OneDatabase'
  <2> SUFFICES ASSUME PluginInv, OneDatabase, [Next]_vars PROVE OneDatabase' OBVIOUS
  <2>1. CASE LoadDecompiler \/ UNCHANGED vars
    BY <2>1 DEF LoadDecompiler, vars, registryVars, OneDatabase, PerDatabaseLifetime, Activated
  <2>2. ASSUME NEW m \in Mods, NEW rec, NEW x86 \in BOOLEAN, NEW dump \in BOOLEAN,
               rec \in [live : BOOLEAN, hexrays_ready : BOOLEAN, components_ready : BOOLEAN],
               rec.live, \A n \in Mods : mod[n].live => n = m,
               rec = mod[m] \/ ~rec.hexrays_ready,
               Initialize(m, rec, x86, dump)
        PROVE  OneDatabase'
    <3>1. CASE rec.hexrays_ready \/ ~decompiler
      <4>1. mod' = [mod EXCEPT ![m] = rec] /\ filters' = filters
        BY <2>2, <3>1 DEF Initialize, registryVars
      <4> QED BY <2>2, <4>1 DEF OneDatabase, PerDatabaseLifetime, Activated, PluginInv, TypeOK
    <3>2. CASE ~(rec.hexrays_ready \/ ~decompiler)
      <4> DEFINE all == \A c \in Components : Avail(c, x86)
                 ready == [rec EXCEPT !.hexrays_ready = TRUE, !.components_ready = all]
      <4>1. mod' = [mod EXCEPT ![m] = ready] /\ InitAll(x86, dump)
        BY <2>2, <3>2 DEF Initialize
      <4>2. ready.components_ready = all
        BY <2>2
      <4>3. all => filters' = Filters
        <5>1. all => x86
          BY DEF Avail, Components, Filters
        <5> QED BY <4>1, <5>1 DEF InitAll, InitFilters, PluginInv, TypeOK, NoDanglingFilter
      <4>4. \A n \in Mods : mod'[n].live => n = m
        BY <2>2, <4>1 DEF PluginInv, TypeOK
      <4>5. mod'[m] = ready
        BY <4>1 DEF PluginInv, TypeOK
      <4> HIDE DEF all, ready
      <4> QED BY <4>2, <4>3, <4>4, <4>5 DEF OneDatabase, PerDatabaseLifetime, Activated
    <3> QED BY <3>1, <3>2
  <2>3. ASSUME NEW m \in Mods, NEW x86 \in BOOLEAN, NEW dump \in BOOLEAN, Construct(m, x86, dump)
        PROVE  OneDatabase'
    <3>1. /\ FreshMod \in [live : BOOLEAN, hexrays_ready : BOOLEAN, components_ready : BOOLEAN]
          /\ FreshMod.live /\ ~FreshMod.hexrays_ready /\ ~FreshMod.components_ready
      BY DEF FreshMod
    <3> QED BY <2>2, <2>3, <3>1 DEF Construct
  <2>4. ASSUME NEW m \in Mods, NEW x86 \in BOOLEAN, NEW dump \in BOOLEAN, Run(m, x86, dump)
        PROVE  OneDatabase'
    <3>1. mod[m] \in [live : BOOLEAN, hexrays_ready : BOOLEAN, components_ready : BOOLEAN]
      BY DEF PluginInv, TypeOK
    <3> QED BY <2>2, <2>4, <3>1 DEF Run, OneDatabase
  <2>5. ASSUME NEW m \in Mods, Destroy(m)
        PROVE  OneDatabase'
    <3>1. mod' = [mod EXCEPT ![m] = NoMod] /\ mod[m].live
      BY <2>5 DEF Destroy
    <3>2. \A n \in Mods : ~mod'[n].live
      BY <3>1 DEF OneDatabase, PluginInv, TypeOK, NoMod
    <3> QED BY <3>2 DEF OneDatabase, PerDatabaseLifetime, Activated
  <2> QED BY <2>1, <2>3, <2>4, <2>5 DEF Next
<1>3. OneDatabase => PerDatabaseLifetime
  BY DEF OneDatabase
<1> QED BY <1>1, <1>2, <1>3, PluginInvHolds, PTL DEF Spec

----------------------------------------------------------------------------
(* When IDA refuses no registration, closing the last plugmod leaves none  *)
(* of our actions behind: the flag g_inline_actions_registered, the        *)
(* registry's flag and the action manager agree.                           *)
THEOREM NoActionHolds ==
  ASSUME ~RegisterMayFail
  PROVE  Spec => []NoActionAfterDone
<1>1. Init => ActionsAgree
  BY DEF Init, ActionsAgree
<1>2. PluginInv /\ ActionsAgree /\ [Next]_vars => ActionsAgree'
  <2> SUFFICES ASSUME PluginInv, ActionsAgree, [Next]_vars PROVE ActionsAgree' OBVIOUS
  <2>1. CASE UNCHANGED registryVars
    BY <2>1 DEF registryVars, ActionsAgree
  <2>2. ASSUME NEW x86 \in BOOLEAN, NEW dump \in BOOLEAN, InitAll(x86, dump)
        PROVE  ActionsAgree'
    <3>1. initialized'["inline"]
      BY <2>2 DEF InitAll, Avail, Components
    <3>2. inlineRegistered' /\ actions' = Actions
      BY <2>2 DEF InitAll, InitInline, ActionsAgree
    <3> QED BY <3>1, <3>2 DEF ActionsAgree
  <2>3. ASSUME DoneAll PROVE ActionsAgree'
    BY <2>3 DEF DoneAll, DoneInline, ActionsAgree
  <2> QED BY <2>1, <2>2, <2>3 DEF Next, LoadDecompiler, Construct, Run, Destroy, Initialize, vars
<1>3. PluginInv /\ ActionsAgree => NoActionAfterDone
  BY DEF PluginInv, NobodyNothing, ActionsAgree, NoActionAfterDone, Components
<1> QED BY <1>1, <1>2, <1>3, PluginInvHolds, PTL DEF Spec
=============================================================================
