------------------------ MODULE LifterSession_proofs ------------------------
(***************************************************************************)
(* Theorems about LifterSession, for any sets of plugmods, mbas and        *)
(* instruction types.                                                      *)
(*                                                                         *)
(* Seen through the plugin's own variables a session is a behaviour of     *)
(* LifterPlugin, so the invariant of LifterPlugin_proofs holds in it. On   *)
(* top of that, DumperInv says what the dumper relies on while a function  *)
(* is being lifted, CoverageInv what the recorder does while the lifter    *)
(* comes and goes.                                                         *)
(***************************************************************************)
EXTENDS LifterSession, LifterPlugin_proofs

(* The environment does not change; the types of the rest of what          *)
(* LifterSession adds.                                                     *)
EnvOK == env \in [dump : BOOLEAN, cov : BOOLEAN]
AidsTypeOK ==
  /\ live \subseteq Mbas
  /\ gen \in live \union {NoMba}
  /\ lifted \in BOOLEAN
  /\ curMba \in Mbas \union {NoMba}
  /\ dumped \in [dumping : BOOLEAN, mba : Mbas \union {NoMba},
                 failing : Mbas \union {NoMba}, lifted : BOOLEAN]
  /\ covSeen \subseteq Records
  /\ covFile \in [Records -> Nat]
  /\ openFailed \in BOOLEAN
  /\ recorded \in [Records -> 0..MaxRecorded]

(* Microcode has been emitted into the function in progress only, and      *)
(* g_cur_mba is that function's mba.                                       *)
StashIsCurrent ==
  /\ lifted => gen # NoMba
  /\ lifted /\ dumper => curMba = gen

(* Coverage is recorded only if AVX_COV is set, so a flush that finds      *)
(* something to write does write it or fails.                              *)
RecordedIfAsked == covSeen # {} => env.cov

DumperInv   == AidsTypeOK /\ StashIsCurrent /\ DumpsRejectedMicrocode
CoverageInv == RecordedIfAsked /\ CoverageConserved /\ CoverageFlushed

----------------------------------------------------------------------------
(* A session is a life of the plugin.                                      *)

(* The environment of a session is as expected throughout.                 *)
LEMMA EnvHolds == SessionSpec => []EnvOK
<1>1. SessionInit => EnvOK
  BY DEF SessionInit, EnvOK
<1>2. EnvOK /\ [SessionNext]_sessionVars => EnvOK'
  BY DEF SessionNext, SessionLoadDecompiler, SessionConstruct, SessionRun, SessionDestroy,
         BeginDecompile, Apply, MicrocodeGenerated, Interr, Finish, FreeMba, sessionVars, EnvOK
<1> QED BY <1>1, <1>2, PTL DEF SessionSpec

(* Each step of a session is one of the plugin, or leaves it alone.        *)
LEMMA SessionStep ==
  ASSUME EnvOK, [SessionNext]_sessionVars
  PROVE  [Next]_vars
<1>1. CASE SessionLoadDecompiler
  BY <1>1 DEF SessionLoadDecompiler, Next
<1>2. ASSUME NEW m \in Mods, NEW x86 \in BOOLEAN,
             SessionConstruct(m, x86) \/ SessionRun(m, x86)
      PROVE  [Next]_vars
  <2>1. env.dump \in BOOLEAN
    BY DEF EnvOK
  <2>2. Construct(m, x86, env.dump) \/ Run(m, x86, env.dump)
    BY <1>2 DEF SessionConstruct, SessionRun
  <2> QED BY <2>1, <2>2 DEF Next
<1>3. ASSUME NEW m \in Mods, NEW opens \in BOOLEAN, SessionDestroy(m, opens)
      PROVE  [Next]_vars
  BY <1>3 DEF SessionDestroy, Next
<1>4. ASSUME UNCHANGED vars
      PROVE  [Next]_vars
  BY <1>4
<1> QED
  BY <1>1, <1>2, <1>3, <1>4
  DEF SessionNext, BeginDecompile, Apply, MicrocodeGenerated, Interr, Finish, FreeMba, sessionVars

(* Decompilations, dumps and coverage never get in the way of the plugin's *)
(* life: a session, seen through the plugin's variables, is a behaviour    *)
(* that LifterPlugin allows, and inherits all that is proved of it.        *)
THEOREM SessionIsPluginLife == SessionSpec => Spec
<1>1. SessionInit => Init
  BY DEF SessionInit
<1>2. EnvOK /\ [SessionNext]_sessionVars => [Next]_vars
  BY SessionStep
<1> QED BY <1>1, <1>2, EnvHolds, PTL DEF SessionSpec, Spec

(* One more record of some makes counts of counts, none of which is less.  *)
LEMMA OneMoreTypes ==
  ASSUME NEW counts \in [Records -> Nat], NEW S
  PROVE  /\ OneMore(counts, S) \in [Records -> Nat]
         /\ \A r \in Records : counts[r] <= OneMore(counts, S)[r]
BY DEF OneMore

----------------------------------------------------------------------------
(* The dumper.                                                             *)

(* No plugmod is built, run or destroyed during a decompilation, so the    *)
(* entry points find nothing lifted.                                       *)
LEMMA DumperInvNext ==
  ASSUME DumperInv, [SessionNext]_sessionVars
  PROVE  DumperInv'
<1> USE LifterSessionAssumption DEF DumperInv
<1>1. CASE SessionLoadDecompiler
  BY <1>1 DEF SessionLoadDecompiler, LoadDecompiler, registryVars, mbaVars, covVars, AidsTypeOK,
              StashIsCurrent, DumpsRejectedMicrocode
<1>2. ASSUME NEW m \in Mods, NEW x86 \in BOOLEAN,
             SessionConstruct(m, x86) \/ SessionRun(m, x86)
      PROVE  DumperInv'
  BY <1>2 DEF SessionConstruct, SessionRun, mbaVars, covVars, AidsTypeOK, StashIsCurrent,
              DumpsRejectedMicrocode
<1>3. ASSUME NEW m \in Mods, NEW opens \in BOOLEAN, SessionDestroy(m, opens)
      PROVE  DumperInv'
  <2>1. gen = NoMba /\ UNCHANGED <<mbaVars, recorded>>
    BY <1>3 DEF SessionDestroy
  <2>2. covSeen' \subseteq Records /\ openFailed' \in BOOLEAN
    BY <1>3 DEF SessionDestroy, CovFlush, AidsTypeOK
  <2>3. covFile' = covFile \/ covFile' = OneMore(covFile, covSeen)
    BY <1>3 DEF SessionDestroy, CovFlush
  <2>4. covFile' \in [Records -> Nat]
    BY <2>3, OneMoreTypes DEF AidsTypeOK
  <2> QED BY <2>1, <2>2, <2>4 DEF mbaVars, AidsTypeOK, StashIsCurrent, DumpsRejectedMicrocode
<1>4. ASSUME NEW b \in Mbas, BeginDecompile(b)
      PROVE  DumperInv'
  BY <1>4 DEF BeginDecompile, covVars, vars, registryVars, AidsTypeOK, StashIsCurrent,
              DumpsRejectedMicrocode
<1>5. ASSUME NEW it \in Itypes, NEW memSource \in BOOLEAN, Apply(it, memSource)
      PROVE  DumperInv'
  <2>1. {it} \X (IF memSource THEN {1, 2} ELSE {1}) \subseteq Records
    BY DEF Records
  <2>2. covSeen' \subseteq Records /\ recorded' \in [Records -> 0..MaxRecorded]
    <3> DEFINE new == ({it} \X (IF memSource THEN {1, 2} ELSE {1})) \ covSeen
    <3>1. CASE env.cov
      <4>1. /\ \A r \in new : recorded[r] < MaxRecorded
            /\ covSeen' = covSeen \union new /\ recorded' = OneMore(recorded, new)
        BY <1>5, <3>1 DEF Apply
      <4>2. new \subseteq Records
        BY <2>1
      <4> HIDE DEF new
      <4>3. \A r \in Records : OneMore(recorded, new)[r] \in 0..MaxRecorded
        BY <4>1 DEF OneMore, AidsTypeOK
      <4> QED BY <4>1, <4>2, <4>3 DEF OneMore, AidsTypeOK
    <3>2. CASE ~env.cov
      BY <1>5, <3>2 DEF Apply, AidsTypeOK
    <3> QED BY <3>1, <3>2
  <2>3. curMba' \in Mbas \union {NoMba}
    BY <1>5 DEF Apply, AidsTypeOK
  <2> QED
    BY <1>5, <2>2, <2>3
    DEF Apply, vars, registryVars, AidsTypeOK, StashIsCurrent, DumpsRejectedMicrocode
<1>6. CASE MicrocodeGenerated
  BY <1>6 DEF MicrocodeGenerated, covVars, vars, registryVars, AidsTypeOK, StashIsCurrent,
              DumpsRejectedMicrocode
<1>7. CASE Interr
  BY <1>7 DEF Interr, NoDump, covVars, vars, registryVars, AidsTypeOK, StashIsCurrent,
              DumpsRejectedMicrocode
<1>8. CASE Finish
  BY <1>8 DEF Finish, NoDump, covVars, vars, registryVars, AidsTypeOK, StashIsCurrent,
              DumpsRejectedMicrocode
<1>9. ASSUME NEW b \in Mbas, FreeMba(b)
      PROVE  DumperInv'
  BY <1>9 DEF FreeMba, NoDump, covVars, vars, registryVars, AidsTypeOK, StashIsCurrent,
              DumpsRejectedMicrocode
<1>10. CASE UNCHANGED sessionVars
  BY <1>10 DEF sessionVars, mbaVars, covVars, vars, registryVars, AidsTypeOK, StashIsCurrent,
               DumpsRejectedMicrocode
<1> QED BY <1>1, <1>2, <1>3, <1>4, <1>5, <1>6, <1>7, <1>8, <1>9, <1>10 DEF SessionNext

(* The dumper's invariant holds throughout.                                *)
LEMMA DumperInvHolds == SessionSpec => []DumperInv
<1>1. SessionInit => DumperInv
  <2> SUFFICES ASSUME SessionInit PROVE DumperInv
    OBVIOUS
  <2>1. AidsTypeOK
    <3>1. covFile \in [Records -> Nat] /\ recorded \in [Records -> 0..MaxRecorded]
      BY LifterSessionAssumption DEF SessionInit
    <3> QED BY <3>1 DEF SessionInit, NoDump, AidsTypeOK
  <2>2. ~lifted /\ ~dumped.dumping
    BY DEF SessionInit, NoDump
  <2> QED BY <2>1, <2>2 DEF DumperInv, StashIsCurrent, DumpsRejectedMicrocode
<1>2. DumperInv /\ [SessionNext]_sessionVars => DumperInv'
  BY DumperInvNext
<1> QED BY <1>1, <1>2, PTL DEF SessionSpec

(* The session's state keeps its types.                                    *)
THEOREM SessionTypeCorrect == SessionSpec => []SessionTypeOK
<1>1. EnvOK /\ DumperInv /\ PluginInv => SessionTypeOK
  BY DEF EnvOK, DumperInv, AidsTypeOK, PluginInv, SessionTypeOK
<1> QED BY <1>1, EnvHolds, DumperInvHolds, SessionIsPluginLife, PluginInvHolds, PTL

(* Whatever is decompiled, kept, freed or failed in between: a dump at an  *)
(* internal error in a function that the filter emitted into shows that    *)
(* function's microcode.                                                   *)
THEOREM DumpsRejectedHolds == SessionSpec => []DumpsRejectedMicrocode
<1>1. DumperInv => DumpsRejectedMicrocode
  BY DEF DumperInv
<1> QED BY <1>1, DumperInvHolds, PTL

----------------------------------------------------------------------------
(* The coverage recorder.                                                  *)

(* A destructor takes the AVX lifter away only if it flushes first.        *)
LEMMA TakenOnlyAfterFlush ==
  ASSUME PluginInv, NEW m \in Mods, Destroy(m), "avx" \in lifter, "avx" \notin lifter'
  PROVE  mod[m].hexrays_ready /\ initialized["avx"]
<1>1. mod[m].hexrays_ready
  BY DEF Destroy, registryVars
<1>2. initialized["avx"]
  BY DEF PluginInv, FlagsAgree, Filters
<1> QED BY <1>1, <1>2

(* No step spoils the recorder's invariant,                                *)
LEMMA CoverageInvNext ==
  ASSUME PluginInv, AidsTypeOK, CoverageInv, [SessionNext]_sessionVars
  PROVE  CoverageInv'
<1> USE DEF CoverageInv
<1>1. ASSUME NEW m \in Mods, NEW opens \in BOOLEAN, SessionDestroy(m, opens)
      PROVE  CoverageInv'
  <2>1. Destroy(m) /\ UNCHANGED <<env, recorded>>
    BY <1>1 DEF SessionDestroy
  <2>2. CASE mod[m].hexrays_ready /\ initialized["avx"] /\ "avx" \in lifter
    <3>1. CovFlush(opens)
      BY <1>1, <2>2 DEF SessionDestroy
    <3>2. RecordedIfAsked'
      BY <2>1, <3>1 DEF CovFlush, RecordedIfAsked
    <3>4. CoverageConserved'
      <4>1. CASE covFile' = OneMore(covFile, covSeen) /\ covSeen' = {}
        <5> SUFFICES ASSUME NEW r \in Records PROVE covFile'[r] + 0 = recorded[r]
          BY <2>1, <4>1 DEF CoverageConserved
        <5>1. covFile'[r] = covFile[r] + (IF r \in covSeen THEN 1 ELSE 0)
          BY <4>1 DEF OneMore
        <5> QED BY <5>1 DEF CoverageConserved, AidsTypeOK
      <4>2. CASE UNCHANGED <<covFile, covSeen>>
        BY <2>1, <4>2 DEF CoverageConserved
      <4> QED BY <3>1, <4>1, <4>2 DEF CovFlush
    <3>3. ~openFailed' => covSeen' = {}
      BY <3>1 DEF CovFlush, RecordedIfAsked
    <3> QED BY <3>2, <3>3, <3>4 DEF CoverageFlushed
  <2>3. CASE ~(mod[m].hexrays_ready /\ initialized["avx"] /\ "avx" \in lifter)
    <3>1. UNCHANGED <<covSeen, covFile, openFailed>>
      BY <1>1, <2>3 DEF SessionDestroy
    <3>2. "avx" \notin lifter' => "avx" \notin lifter
      BY <2>1, <2>3, TakenOnlyAfterFlush
    <3> QED BY <2>1, <3>1, <3>2 DEF RecordedIfAsked, CoverageConserved, CoverageFlushed
  <2> QED BY <2>2, <2>3
<1>2. ASSUME NEW it \in Itypes, NEW memSource \in BOOLEAN, Apply(it, memSource)
      PROVE  CoverageInv'
  <2>1. "avx" \in lifter'
    BY <1>2 DEF Apply, vars, registryVars, PluginInv, NoDanglingFilter
  <2> DEFINE new == ({it} \X (IF memSource THEN {1, 2} ELSE {1})) \ covSeen
  <2>2. CoverageConserved'
    <3>1. CASE env.cov
      <4>1. /\ covSeen' = covSeen \union new /\ recorded' = OneMore(recorded, new)
            /\ covFile' = covFile
        BY <1>2, <3>1 DEF Apply
      <4>2. \A r \in new : r \notin covSeen
        OBVIOUS
      <4> HIDE DEF new
      <4> SUFFICES ASSUME NEW r \in Records
                   PROVE  covFile[r] + (IF r \in covSeen' THEN 1 ELSE 0) = recorded'[r]
        BY <4>1 DEF CoverageConserved
      <4>3. recorded'[r] = recorded[r] + (IF r \in new THEN 1 ELSE 0)
        BY <4>1 DEF OneMore
      <4> QED BY <4>1, <4>2, <4>3 DEF CoverageConserved, AidsTypeOK
    <3>2. CASE ~env.cov
      BY <1>2, <3>2 DEF Apply, CoverageConserved
    <3> QED BY <3>1, <3>2
  <2> QED BY <1>2, <2>1, <2>2 DEF Apply, RecordedIfAsked, CoverageFlushed
<1>3. ASSUME NEW m \in Mods, NEW x86 \in BOOLEAN,
             SessionConstruct(m, x86) \/ SessionRun(m, x86)
      PROVE  CoverageInv'
  <2>1. lifter \subseteq lifter'
    BY <1>3 DEF SessionConstruct, SessionRun, Construct, Run, Initialize, InitAll, InitFilters,
                registryVars
  <2> QED
    BY <1>3, <2>1 DEF SessionConstruct, SessionRun, covVars, RecordedIfAsked, CoverageConserved,
                      CoverageFlushed
<1>4. ASSUME UNCHANGED <<env, covVars, lifter>>
      PROVE  CoverageInv'
  BY <1>4 DEF covVars, RecordedIfAsked, CoverageConserved, CoverageFlushed
<1> QED
  BY <1>1, <1>2, <1>3, <1>4
  DEF SessionNext, SessionLoadDecompiler, LoadDecompiler, BeginDecompile, MicrocodeGenerated,
      Interr, Finish, FreeMba, sessionVars, vars, registryVars

(* which so holds throughout.                                              *)
LEMMA CoverageInvHolds == SessionSpec => []CoverageInv
<1>1. SessionInit => CoverageInv
  BY DEF SessionInit, CoverageInv, RecordedIfAsked, CoverageConserved, CoverageFlushed
<1>2. PluginInv /\ DumperInv /\ CoverageInv /\ [SessionNext]_sessionVars => CoverageInv'
  BY CoverageInvNext DEF DumperInv
<1> QED BY <1>1, <1>2, SessionIsPluginLife, PluginInvHolds, DumperInvHolds, PTL DEF SessionSpec

(* No order of lifting, teardown, failed flush and re-initialisation loses *)
(* a record, writes it twice or makes one up: every time cov_record set a  *)
(* bit counts once, in the file or in the map.                             *)
THEOREM CoverageConservedHolds == SessionSpec => []CoverageConserved
<1>1. CoverageInv => CoverageConserved
  BY DEF CoverageInv
<1> QED BY <1>1, CoverageInvHolds, PTL

(* The AVX component never goes with records unwritten, unless the file    *)
(* could not be opened: over any number of databases, done_all reaches     *)
(* cov_flush whenever it deletes the filter.                               *)
THEOREM CoverageFlushedHolds == SessionSpec => []CoverageFlushed
<1>1. CoverageInv => CoverageFlushed
  BY DEF CoverageInv
<1> QED BY <1>1, CoverageInvHolds, PTL

(* No step takes a line out of the coverage file.                          *)
THEOREM CoverageFileGrowsHolds == SessionSpec => CoverageFileGrows
<1>1. AidsTypeOK /\ [SessionNext]_sessionVars =>
        [\A r \in Records : covFile[r] <= covFile'[r]]_sessionVars
  <2> SUFFICES ASSUME AidsTypeOK, SessionNext
               PROVE  \A r \in Records : covFile[r] <= covFile'[r]
    OBVIOUS
  <2>1. covFile' = covFile => \A r \in Records : covFile[r] <= covFile'[r]
    BY DEF AidsTypeOK
  <2>2. ASSUME NEW m \in Mods, NEW opens \in BOOLEAN, SessionDestroy(m, opens)
        PROVE  \A r \in Records : covFile[r] <= covFile'[r]
    <3>1. covFile' = covFile \/ covFile' = OneMore(covFile, covSeen)
      BY <2>2 DEF SessionDestroy, CovFlush
    <3> QED BY <2>1, <3>1, OneMoreTypes DEF AidsTypeOK
  <2> QED
    BY <2>1, <2>2 DEF SessionNext, SessionLoadDecompiler, SessionConstruct, SessionRun,
                      BeginDecompile, Apply, MicrocodeGenerated, Interr, Finish, FreeMba, covVars
<1>2. DumperInv => AidsTypeOK
  BY DEF DumperInv
<1> QED BY <1>1, <1>2, DumperInvHolds, PTL DEF SessionSpec, CoverageFileGrows
=============================================================================
