---------------------------- MODULE LifterSession ----------------------------
(***************************************************************************)
(* LifterPlugin composed with what happens while it is installed: Hex-Rays *)
(* decompiles functions, calls the AVX filter for their instructions, and  *)
(* the two debugging aids of avx_lifter.cpp record what went by, the       *)
(* microcode dumper (AVX_DUMP_MC) through the pointer g_cur_mba and the    *)
(* coverage recorder (AVX_COV) through the map g_cov_seen.                 *)
(*                                                                         *)
(* Decompilation and the plugin's entry points share IDA's main thread:    *)
(* no plugmod is built, run or destroyed in the middle of a decompilation. *)
(***************************************************************************)
EXTENDS LifterPlugin

CONSTANTS
  Mbas,    (* microcode objects (mba_t) Hex-Rays may allocate              *)
  Itypes,  (* instruction types the AVX filter lifts                       *)
  NoMba,   (* the null mba pointer                                         *)
  MaxRecorded (* bound: how often an instruction type is recorded anew     *)

ASSUME LifterSessionAssumption == NoMba \notin Mbas /\ MaxRecorded \in Nat

VARIABLES
  env,      (* the environment: AVX_DUMP_MC and AVX_COV set or not          *)
  live,     (* mbas that exist: under construction, or kept by a cfunc      *)
  gen,      (* the mba whose function is being decompiled                   *)
  lifted,   (* the AVX filter has emitted microcode into gen                *)
  curMba,   (* g_cur_mba                                                    *)
  dumped,   (* what the last hxe_interr dump showed                         *)
  covSeen,  (* g_cov_seen: bit 1 seen, bit 2 seen with a memory source      *)
  covFile,  (* the AVX_COV file: the lines with each bit of an itype        *)
  openFailed, (* the last cov_flush could not open its file                 *)
  recorded  (* history: how often cov_record has set each bit in the map    *)

mbaVars == <<live, gen, lifted, curMba, dumped>>
covVars == <<covSeen, covFile, openFailed, recorded>>
sessionVars == <<vars, env, mbaVars, covVars>>

(* What the map and the file are about: a bit of an instruction type.      *)
Records == Itypes \X {1, 2}

(* The counts of records, with one more of each of those in S.             *)
OneMore(counts, S) == [r \in Records |-> counts[r] + (IF r \in S THEN 1 ELSE 0)]

NoDump == [dumping |-> FALSE, mba |-> NoMba, failing |-> NoMba, lifted |-> FALSE]

----------------------------------------------------------------------------
CovFlush_BugKeepsMap(opens) ==
  LET flushing == env.cov /\ covSeen # {}
  IN  /\ covFile' = IF flushing /\ opens THEN OneMore(covFile, covSeen) ELSE covFile
      /\ covSeen' = covSeen
      /\ openFailed' = (flushing /\ ~opens)

CovFlush_BugTruncates(opens) ==
  LET flushing == env.cov /\ covSeen # {}
  IN  /\ IF flushing /\ opens
         THEN covFile' = OneMore([r \in Records |-> 0], covSeen) /\ covSeen' = {}
         ELSE UNCHANGED <<covFile, covSeen>>
      /\ openFailed' = (flushing /\ ~opens)

CovFlush_BugOnce(opens) ==
  LET flushing == env.cov /\ covSeen # {} /\ \A r \in Records : covFile[r] = 0
  IN  /\ IF flushing /\ opens
         THEN covFile' = OneMore(covFile, covSeen) /\ covSeen' = {}
         ELSE UNCHANGED <<covFile, covSeen>>
      /\ openFailed' = (flushing /\ ~opens)

(* cov_flush, called by MicroAvx_done: a line is appended for what is in   *)
(* the map, which is cleared; a file that cannot be opened leaves the map  *)
(* as it was, for a later flush.                                           *)
CovFlush(opens) ==
  LET flushing == env.cov /\ covSeen # {}
  IN  /\ IF flushing /\ opens
         THEN covFile' = OneMore(covFile, covSeen) /\ covSeen' = {}
         ELSE UNCHANGED <<covFile, covSeen>>
      /\ openFailed' = (flushing /\ ~opens)

SessionConstruct(m, x86) ==
  /\ gen = NoMba
  /\ Construct(m, x86, env.dump)
  /\ UNCHANGED <<env, mbaVars, covVars>>

SessionRun(m, x86) ==
  /\ gen = NoMba
  /\ Run(m, x86, env.dump)
  /\ UNCHANGED <<env, mbaVars, covVars>>

SessionDestroy(m, opens) ==
  /\ gen = NoMba
  /\ Destroy(m)
  /\ IF mod[m].hexrays_ready /\ initialized["avx"] /\ "avx" \in lifter
     THEN CovFlush(opens)
     ELSE UNCHANGED <<covSeen, covFile, openFailed>>
  /\ UNCHANGED <<env, mbaVars, recorded>>

SessionLoadDecompiler ==
  /\ LoadDecompiler
  /\ UNCHANGED <<env, mbaVars, covVars>>

----------------------------------------------------------------------------
(* Hex-Rays.                                                               *)

BeginDecompile(b) ==
  /\ decompiler
  /\ gen = NoMba
  /\ b \notin live
  /\ gen' = b
  /\ live' = live \union {b}
  /\ lifted' = FALSE
  /\ UNCHANGED <<vars, env, curMba, dumped, covVars>>

Apply_BugStashOnce(it, memSource) ==
  LET new == ({it} \X (IF memSource THEN {1, 2} ELSE {1})) \ covSeen
  IN  /\ gen # NoMba
      /\ "avx" \in filters
      /\ curMba' = IF dumper /\ curMba = NoMba THEN gen ELSE curMba
      /\ IF env.cov
         THEN /\ \A r \in new : recorded[r] < MaxRecorded
              /\ covSeen' = covSeen \union new
              /\ recorded' = OneMore(recorded, new)
         ELSE UNCHANGED <<covSeen, recorded>>
      /\ lifted' = TRUE
      /\ UNCHANGED <<vars, env, live, gen, dumped, covFile, openFailed>>

(* AVXLifter::apply on an instruction of type it: stash, record, emit.     *)
Apply(it, memSource) ==
  LET new == ({it} \X (IF memSource THEN {1, 2} ELSE {1})) \ covSeen
  IN  /\ gen # NoMba
      /\ "avx" \in filters
      /\ curMba' = IF dumper THEN gen ELSE curMba
      /\ IF env.cov
         THEN /\ \A r \in new : recorded[r] < MaxRecorded
              /\ covSeen' = covSeen \union new
              /\ recorded' = OneMore(recorded, new)
         ELSE UNCHANGED <<covSeen, recorded>>
      /\ lifted' = TRUE
      /\ UNCHANGED <<vars, env, live, gen, dumped, covFile, openFailed>>

(* hxe_microcode: microcode of gen is complete (MMAT_GENERATED).           *)
MicrocodeGenerated ==
  /\ gen # NoMba
  /\ curMba' = IF dumper THEN gen ELSE curMba
  /\ UNCHANGED <<vars, env, live, gen, lifted, dumped, covVars>>

(* hxe_interr: an internal error ends the decompilation. The hook dumps    *)
(* g_cur_mba, then Hex-Rays drops the failing mba.                         *)
Interr ==
  /\ gen # NoMba
  /\ dumped' = IF dumper
               THEN [dumping |-> TRUE, mba |-> curMba, failing |-> gen, lifted |-> lifted]
               ELSE NoDump
  /\ live' = live \ {gen}
  /\ gen' = NoMba
  /\ lifted' = FALSE
  /\ UNCHANGED <<vars, env, curMba, covVars>>

(* The decompilation succeeds; its cfunc keeps the mba.                    *)
Finish ==
  /\ gen # NoMba
  /\ gen' = NoMba
  /\ lifted' = FALSE
  /\ dumped' = NoDump
  /\ UNCHANGED <<vars, env, live, curMba, covVars>>

FreeMba_BugUnderConstruction(b) ==
  /\ b \in live
  /\ live' = live \ {b}
  /\ dumped' = NoDump
  /\ UNCHANGED <<vars, env, gen, lifted, curMba, covVars>>

(* The cached decompilation of a function is dropped.                      *)
FreeMba(b) ==
  /\ b \in live \ {gen}
  /\ live' = live \ {b}
  /\ dumped' = NoDump
  /\ UNCHANGED <<vars, env, gen, lifted, curMba, covVars>>

----------------------------------------------------------------------------
SessionInit ==
  /\ Init
  /\ env \in [dump : BOOLEAN, cov : BOOLEAN]
  /\ live = {}
  /\ gen = NoMba
  /\ lifted = FALSE
  /\ curMba = NoMba
  /\ dumped = NoDump
  /\ covSeen = {}
  /\ covFile = [r \in Records |-> 0]
  /\ openFailed = FALSE
  /\ recorded = [r \in Records |-> 0]

SessionNext ==
  \/ SessionLoadDecompiler
  \/ \E m \in Mods, x86 \in BOOLEAN : SessionConstruct(m, x86)
  \/ \E m \in Mods, x86 \in BOOLEAN : SessionRun(m, x86)
  \/ \E m \in Mods, opens \in BOOLEAN : SessionDestroy(m, opens)
  \/ \E b \in Mbas : BeginDecompile(b)
  \/ \E it \in Itypes, memSource \in BOOLEAN : Apply(it, memSource)
  \/ MicrocodeGenerated
  \/ Interr
  \/ Finish
  \/ \E b \in Mbas : FreeMba(b)

SessionSpec == SessionInit /\ [][SessionNext]_sessionVars

(* Hex-Rays ends every decompilation, with a result or an internal error,  *)
(* and IDA closes every database it opened. The databases need strong      *)
(* fairness: while functions are being decompiled no database is closed,   *)
(* so the destructor is enabled only in between.                           *)
Ending == Interr \/ Finish

Closing(m) == \E opens \in BOOLEAN : SessionDestroy(m, opens)

FairSessionSpec ==
  /\ SessionSpec
  /\ WF_sessionVars(Ending)
  /\ \A m \in Mods : SF_sessionVars(Closing(m))

----------------------------------------------------------------------------
SessionTypeOK ==
  /\ TypeOK
  /\ env \in [dump : BOOLEAN, cov : BOOLEAN]
  /\ live \subseteq Mbas
  /\ gen \in live \union {NoMba}
  /\ lifted \in BOOLEAN
  /\ curMba \in Mbas \union {NoMba}
  /\ dumped \in [dumping : BOOLEAN, mba : Mbas \union {NoMba},
                 failing : Mbas \union {NoMba}, lifted : BOOLEAN]
  /\ covSeen \subseteq Records
  /\ covFile \in [Records -> Nat]
  /\ openFailed \in BOOLEAN
  /\ recorded \in [Records -> 0..MaxRecorded]

(* "Dump the microcode at the exact moment the verifier rejects our        *)
(* generated microcode": when the function that fails is one the filter    *)
(* emitted into, the dump shows that function's mba, not another's.        *)
DumpsRejectedMicrocode ==
  dumped.dumping /\ dumped.lifted => dumped.mba = dumped.failing

(* The dump of an internal error, in any function, reads an mba that still *)
(* exists ("the microcode we were last building").                         *)
DumpReadsLiveMba ==
  dumped.dumping => dumped.mba \in live \union {dumped.failing, NoMba}

(* Coverage is conserved over every order of lifting, teardown, failed     *)
(* flush and re-initialisation: each time cov_record sets a bit, the file  *)
(* gets one line with it, or the map still holds it. Nothing is lost,      *)
(* written twice or made up.                                               *)
CoverageConserved ==
  \A r \in Records : covFile[r] + (IF r \in covSeen THEN 1 ELSE 0) = recorded[r]

(* "Append observed per-itype coverage at plugin term": once the AVX       *)
(* component is gone and its flush could open the file, the map is empty,  *)
(* what earlier flushes had failed to write included.                      *)
CoverageFlushed == "avx" \notin lifter /\ ~openFailed => covSeen = {}

(* Nothing that cov_record was given waits for ever: what was recorded for *)
(* the nth time is written n times, at the latest when its database is     *)
(* closed, unless the file cannot be opened then. A record kept after such *)
(* a failure is written by the next flush that can open the file.          *)
CoverageReachesFile ==
  \A r \in Records, n \in 1..MaxRecorded :
    recorded[r] >= n ~> covFile[r] >= n \/ openFailed

(* Coverage already appended to the file is never taken back.              *)
CoverageFileGrows == [][\A r \in Records : covFile[r] <= covFile'[r]]_sessionVars
=============================================================================
