------------------------ MODULE InlineToggle_proofs ------------------------
(***************************************************************************)
(* Theorems about InlineToggle, for any functions, call graph and views.   *)
(*                                                                         *)
(* DamageConfined is inductive once typed: every step that changes a flag  *)
(* either drops the decompilations that read it, or records the refusal.   *)
(* Without refusals it is FreshCaches and MemoryAgreesWithDatabase.        *)
(***************************************************************************)
EXTENDS InlineToggle, TLAPS

Caches == [valid : BOOLEAN, saw : SUBSET Funcs]

(* A decompilation has seen only flags of functions it reads.              *)
SawWhatItReads == \A f \in Funcs : cached[f].saw \subseteq Reads(f)

(* No update is ever refused unless update_func may fail.                  *)
NoneRefused == ~UpdateMayFail => refused = {}

ToggleInv == TypeOK /\ SawWhatItReads /\ DamageConfined /\ NoneRefused

----------------------------------------------------------------------------
(* The invariant holds at the start,                                       *)
LEMMA ToggleInvInit == Init => ToggleInv
BY DEF Init, ToggleInv, TypeOK, SawWhatItReads, DamageConfined, NoneRefused, Uncached, Idle, Decompiled, Reads

(* Flushing f and its callers leaves alone exactly the decompilations that *)
(* do not read f's flag.                                                   *)
LEMMA FlushKeepsTypes ==
  ASSUME TypeOK, NEW f \in Funcs
  PROVE  /\ MarkCallersDirty(f, cached) \in [Funcs -> Caches]
         /\ \A c \in exists : MarkCallersDirty(f, cached)[c].valid =>
              f \notin Reads(c) /\ MarkCallersDirty(f, cached)[c] = cached[c]
<1>1. Uncached \in Caches /\ ~Uncached.valid
  BY DEF Uncached, Caches
<1> QED BY <1>1 DEF MarkCallersDirty, TypeOK, Caches, Reads, Callers

(* A successful toggle keeps the invariant: what it changes it flushes.    *)
LEMMA ToggledInv ==
  ASSUME ToggleInv, NEW f \in exists, NEW want \in BOOLEAN, Toggled(f, want),
         UNCHANGED <<exists, shows, enabled>>
  PROVE  ToggleInv'
<1>1. f \in Funcs
  BY DEF ToggleInv, TypeOK
<1>2. outline' \subseteq exists' /\ stored' \subseteq exists'
  BY DEF Toggled, SetFlag, ToggleInv, TypeOK
<1>3. /\ f \in outline' <=> want
      /\ f \in stored' <=> want
      /\ \A g \in Funcs : g # f => /\ g \in outline' <=> g \in outline
                                   /\ g \in stored' <=> g \in stored
  BY DEF Toggled, SetFlag
<1> DEFINE flushed == MarkCallersDirty(f, cached)
           fresh == [valid |-> TRUE, saw |-> Reads(f) \intersect outline']
<1>4. /\ flushed \in [Funcs -> Caches]
      /\ \A c \in exists : flushed[c].valid => f \notin Reads(c) /\ flushed[c] = cached[c]
  BY <1>1, FlushKeepsTypes DEF ToggleInv
<1>5. cached' = [flushed EXCEPT ![f] = fresh] \/ cached' = flushed
  <2>1. PICK decompiles \in BOOLEAN :
           cached' = [flushed EXCEPT ![f] = IF decompiles THEN fresh ELSE @]
    BY DEF Toggled
  <2>2. CASE decompiles
    BY <2>1, <2>2
  <2>3. CASE ~decompiles
    BY <2>1, <2>3, <1>4
  <2> QED BY <2>2, <2>3
<1>6. fresh \in Caches
  BY <1>2 DEF Caches, Reads, ToggleInv, TypeOK
<1>7. refused' = refused \ {f} /\ outcome' = [kind |-> "toggled", f |-> f, want |-> want]
  BY DEF Toggled
<1>8. TypeOK'
  <2>1. cached' \in [Funcs -> Caches]
    BY <1>1, <1>4, <1>5, <1>6
  <2> HIDE DEF fresh, flushed
  <2> QED BY <2>1, <1>1, <1>2, <1>7 DEF ToggleInv, TypeOK, Caches
<1>9. \A g \in Funcs \ refused' : g \in outline' <=> g \in stored'
  BY <1>3, <1>7 DEF ToggleInv, DamageConfined
<1>10. ASSUME NEW c \in exists', cached'[c].valid, NEW g \in Funcs \ refused'
       PROVE  g \in cached'[c].saw <=> g \in Decompiled(c)'
  <2>3. c \in Funcs
    BY DEF ToggleInv, TypeOK
  <2>1. CASE cached'[c] = fresh /\ c = f
    BY <2>1 DEF Decompiled, Reads
  <2>2. CASE cached'[c] = flushed[c]
    <3>1. f \notin Reads(c) /\ cached'[c] = cached[c] /\ cached[c].valid
      BY <1>4, <1>10, <2>2
    <3>2. g \in Funcs
      BY DEF ToggleInv, TypeOK
    <3>3. CASE g = f
      <4>1. f \notin Decompiled(c)' /\ f \notin cached[c].saw
        BY <3>1, <2>3 DEF Decompiled, Reads, ToggleInv, SawWhatItReads
      <4> QED BY <3>1, <3>3, <4>1
    <3>4. CASE g # f
      <4>1. g \in Decompiled(c)' <=> g \in Decompiled(c)
        BY <1>3, <3>2, <3>4 DEF Decompiled, Reads
      <4>2. g \in Funcs \ refused
        BY <1>7, <3>4
      <4> QED BY <3>1, <4>1, <4>2 DEF ToggleInv, DamageConfined
    <3> QED BY <3>3, <3>4
  <2> QED BY <1>4, <1>5, <1>1, <2>3, <2>1, <2>2
<1>11. SawWhatItReads'
  <2>1. \A c \in Funcs : flushed[c].saw \subseteq Reads(c)
    BY DEF MarkCallersDirty, Uncached, ToggleInv, SawWhatItReads
  <2>2. fresh.saw \subseteq Reads(f)
    OBVIOUS
  <2> HIDE DEF fresh, flushed
  <2> QED BY <1>1, <1>4, <1>5, <2>1, <2>2 DEF SawWhatItReads, Reads
<1> QED BY <1>7, <1>8, <1>9, <1>10, <1>11 DEF ToggleInv, DamageConfined, NoneRefused

(* update_func's refusal: the flag changes under the caches' feet, which is *)
(* exactly what the history variable remembers.                            *)
LEMMA RefusedInv ==
  ASSUME ToggleInv, NEW f \in exists, NEW want \in BOOLEAN, Refused(f, want),
         UNCHANGED <<exists, shows, enabled>>
  PROVE  ToggleInv'
<1>1. f \in Funcs
  BY DEF ToggleInv, TypeOK
<1>2. /\ \A g \in Funcs : g # f => (g \in outline' <=> g \in outline)
      /\ outline' \subseteq exists'
      /\ refused' = refused \union {f} /\ stored' = stored /\ cached' = cached
      /\ UpdateMayFail
  BY DEF Refused, SetFlag, ToggleInv, TypeOK
<1>3. TypeOK' /\ NoneRefused'
  BY <1>1, <1>2 DEF Refused, ToggleInv, TypeOK, NoneRefused
<1>4. SawWhatItReads'
  BY <1>2 DEF ToggleInv, SawWhatItReads, Reads
<1>5. ASSUME NEW c \in exists', cached'[c].valid, NEW g \in Funcs \ refused'
      PROVE  g \in cached'[c].saw <=> g \in Decompiled(c)'
  <2>1. g \in Funcs \ refused /\ g # f
    BY <1>2 DEF ToggleInv, TypeOK
  <2>2. g \in Decompiled(c)' <=> g \in Decompiled(c)
    BY <1>2, <2>1 DEF Decompiled, Reads
  <2> QED BY <1>2, <1>5, <2>1, <2>2 DEF ToggleInv, DamageConfined
<1>6. \A g \in Funcs \ refused' : g \in outline' <=> g \in stored'
  BY <1>2 DEF ToggleInv, DamageConfined
<1> QED BY <1>3, <1>4, <1>5, <1>6 DEF ToggleInv, DamageConfined

(* A decompilation that is made now sees the flags of now.                 *)
LEMMA ShowInv ==
  ASSUME ToggleInv, NEW v \in Views, NEW f \in Funcs, Show(v, f)
  PROVE  ToggleInv'
<1> DEFINE fresh == [valid |-> TRUE, saw |-> Decompiled(f)]
<1>1. cached' = cached \/ cached' = [cached EXCEPT ![f] = fresh]
  BY DEF Show
<1>2. UNCHANGED <<exists, outline, stored, refused>> /\ outcome' = Idle
  BY DEF Show
<1>3. fresh \in Caches /\ fresh.saw = Decompiled(f)
  BY DEF Caches, Decompiled, Reads, ToggleInv, TypeOK
<1>4. TypeOK'
  <2>1. shows' \in [Views -> Funcs \union {Nowhere}] /\ enabled' = enabled
    BY DEF Show, ToggleInv, TypeOK
  <2>2. cached' \in [Funcs -> Caches]
    BY <1>1, <1>3 DEF ToggleInv, TypeOK, Caches
  <2> QED BY <1>2, <2>1, <2>2 DEF ToggleInv, TypeOK, Caches, Idle
<1>5. \A c \in Funcs : Decompiled(c)' = Decompiled(c)
  BY <1>2 DEF Decompiled, Reads
<1>6. \A c \in Funcs : cached'[c] = cached[c] \/ (c = f /\ cached'[c] = fresh)
  BY <1>1 DEF ToggleInv, TypeOK
<1>7. SawWhatItReads'
  <2>1. Decompiled(f) \subseteq Reads(f)
    BY DEF Decompiled
  <2>2. \A c \in Funcs : Reads(c)' = Reads(c)
    BY DEF Reads
  <2> HIDE DEF fresh
  <2> QED BY <1>3, <1>6, <2>1, <2>2 DEF ToggleInv, SawWhatItReads
<1>8. DamageConfined'
  <2>1. exists \subseteq Funcs
    BY DEF ToggleInv, TypeOK
  <2> HIDE DEF fresh
  <2> QED BY <1>2, <1>3, <1>5, <1>6, <2>1 DEF ToggleInv, DamageConfined
<1> QED BY <1>2, <1>4, <1>7, <1>8 DEF ToggleInv, NoneRefused

(* Deleting a function drops the decompilations that read its flag.        *)
LEMMA DeleteFuncInv ==
  ASSUME ToggleInv, NEW f \in Funcs, DeleteFunc(f)
  PROVE  ToggleInv'
<1> DEFINE flushed == MarkCallersDirty(f, cached)
<1>1. /\ exists' = exists \ {f} /\ outline' = outline \ {f} /\ stored' = stored \ {f}
      /\ cached' = flushed /\ outcome' = Idle /\ UNCHANGED <<shows, enabled, refused>>
  BY DEF DeleteFunc
<1>2. /\ flushed \in [Funcs -> Caches]
      /\ \A c \in exists : flushed[c].valid => f \notin Reads(c) /\ flushed[c] = cached[c]
  BY FlushKeepsTypes DEF ToggleInv
<1>3. TypeOK'
  BY <1>1, <1>2 DEF ToggleInv, TypeOK, Caches, Idle
<1>4. SawWhatItReads'
  BY <1>1 DEF MarkCallersDirty, Uncached, ToggleInv, SawWhatItReads, Reads
<1>5. ASSUME NEW c \in exists', cached'[c].valid, NEW g \in Funcs \ refused'
      PROVE  g \in cached'[c].saw <=> g \in Decompiled(c)'
  <2>1. c \in exists /\ cached'[c] = cached[c] /\ cached[c].valid /\ f \notin Reads(c)
    BY <1>1, <1>2, <1>5
  <2>2. CASE g = f
    BY <2>1, <2>2 DEF Decompiled, Reads, ToggleInv, TypeOK, SawWhatItReads
  <2>3. CASE g # f
    <3>1. g \in Decompiled(c)' <=> g \in Decompiled(c)
      BY <1>1, <2>3 DEF Decompiled, Reads
    <3> QED BY <1>1, <2>1, <3>1 DEF ToggleInv, DamageConfined
  <2> QED BY <2>2, <2>3
<1>6. \A g \in Funcs \ refused' : g \in outline' <=> g \in stored'
  BY <1>1 DEF ToggleInv, DamageConfined
<1> QED BY <1>1, <1>3, <1>4, <1>5, <1>6 DEF ToggleInv, DamageConfined, NoneRefused

----------------------------------------------------------------------------
(* is kept by every step,                                                  *)
LEMMA ToggleInvNext == ToggleInv /\ [Next]_vars => ToggleInv'
<1> SUFFICES ASSUME ToggleInv, [Next]_vars PROVE ToggleInv' OBVIOUS
<1>1. ASSUME UNCHANGED <<exists, outline, stored, cached, refused>>,
             shows' \in [Views -> Funcs \union {Nowhere}],
             enabled' \in [Views -> SUBSET BOOLEAN],
             outcome' \in [kind : {"none", "reached", "refused", "toggled"},
                           f : Funcs \union {Nowhere}, want : BOOLEAN]
      PROVE  ToggleInv'
  BY <1>1 DEF ToggleInv, TypeOK, SawWhatItReads, DamageConfined, NoneRefused, Decompiled, Reads
<1>2. ASSUME NEW v \in Views, Popup(v) \/ UpdateActions(v)
      PROVE  ToggleInv'
  BY <1>1, <1>2 DEF Popup, UpdateActions, ToggleInv, TypeOK
<1>3. ASSUME NEW v \in Views, NEW want \in BOOLEAN, Activate(v, want)
      PROVE  ToggleInv'
  <2>1. shows[v] \in exists /\ shows[v] \in Funcs /\ UNCHANGED <<exists, shows, enabled>>
    BY <1>3 DEF Activate, ToggleInv, TypeOK
  <2>2. CASE AlreadyReached(shows[v], want)
    BY <1>1, <2>1, <2>2 DEF AlreadyReached, ToggleInv, TypeOK
  <2>3. CASE Refused(shows[v], want)
    BY <2>1, <2>3, RefusedInv
  <2>4. CASE Toggled(shows[v], want)
    BY <2>1, <2>4, ToggledInv
  <2> QED BY <1>3, <2>2, <2>3, <2>4 DEF Activate
<1>4. ASSUME NEW v \in Views, Close(v)
      PROVE  ToggleInv'
  BY <1>1, <1>4 DEF Close, Idle, ToggleInv, TypeOK
<1>5. CASE UNCHANGED vars
  BY <1>1, <1>5 DEF vars, ToggleInv, TypeOK
<1> QED BY <1>2, <1>3, <1>4, <1>5, ShowInv, DeleteFuncInv DEF Next

(* and so holds throughout.                                                *)
LEMMA ToggleInvHolds == Spec => []ToggleInv
BY ToggleInvInit, ToggleInvNext, PTL DEF Spec

(* Every variable keeps its type.                                          *)
THEOREM ToggleTypeCorrect == Spec => []TypeOK
<1>1. ToggleInv => TypeOK
  BY DEF ToggleInv
<1> QED BY <1>1, ToggleInvHolds, PTL

(* Whether update_func refuses or not, disagreement stays with functions   *)
(* whose update was refused.                                               *)
THEOREM DamageConfinedHolds == Spec => []DamageConfined
<1>1. ToggleInv => DamageConfined
  BY DEF ToggleInv
<1> QED BY <1>1, ToggleInvHolds, PTL

(* As long as update_func accepts, no cached decompilation is out of date  *)
(* with the flags it read, for every call graph.                           *)
THEOREM FreshCachesHolds ==
  ASSUME ~UpdateMayFail
  PROVE  Spec => []FreshCaches
<1>1. ToggleInv => FreshCaches
  BY DEF ToggleInv, NoneRefused, TypeOK, DamageConfined, FreshCaches, Decompiled
<1> QED BY <1>1, ToggleInvHolds, PTL

(* As long as update_func accepts, the flags in memory are those of the    *)
(* database, however many views race.                                      *)
THEOREM MemoryAgreesHolds ==
  ASSUME ~UpdateMayFail
  PROVE  Spec => []MemoryAgreesWithDatabase
<1>1. ToggleInv => MemoryAgreesWithDatabase
  <2> SUFFICES ASSUME ToggleInv PROVE MemoryAgreesWithDatabase
    OBVIOUS
  <2>1. refused = {} /\ exists \subseteq Funcs /\ outline \subseteq exists /\ stored \subseteq exists
    BY DEF ToggleInv, NoneRefused, TypeOK
  <2> QED BY <2>1 DEF ToggleInv, DamageConfined, MemoryAgreesWithDatabase
<1> QED BY <1>1, ToggleInvHolds, PTL

----------------------------------------------------------------------------
(* Nothing comes between do_toggle_inline's answer "already reached" and   *)
(* the next change of the flag that would not replace the answer.          *)
ReachedFlag ==
  outcome.kind = "reached" =>
    outcome.f \in exists /\ (outcome.f \in outline <=> outcome.want)

(* No step spoils it.                                                      *)
LEMMA ReachedFlagNext == ReachedFlag /\ [Next]_vars => ReachedFlag'
<1> SUFFICES ASSUME ReachedFlag, [Next]_vars PROVE ReachedFlag'
  OBVIOUS
<1>1. ASSUME NEW v \in Views, Popup(v) \/ UpdateActions(v)
      PROVE  ReachedFlag'
  BY <1>1 DEF Popup, UpdateActions, ReachedFlag
<1>2. ASSUME NEW v \in Views, NEW want \in BOOLEAN, Activate(v, want)
      PROVE  ReachedFlag'
  <2>1. CASE AlreadyReached(shows[v], want)
    BY <1>2, <2>1 DEF Activate, AlreadyReached, ReachedFlag
  <2>2. CASE Refused(shows[v], want)
    BY <2>2 DEF Refused, ReachedFlag
  <2>3. CASE Toggled(shows[v], want)
    BY <2>3 DEF Toggled, ReachedFlag
  <2> QED BY <1>2, <2>1, <2>2, <2>3 DEF Activate
<1>3. ASSUME outcome' = Idle
      PROVE  ReachedFlag'
  BY <1>3 DEF Idle, ReachedFlag
<1>4. ASSUME NEW v \in Views, NEW f \in Funcs, Show(v, f)
      PROVE  ReachedFlag'
  BY <1>3, <1>4 DEF Show
<1>5. ASSUME NEW v \in Views, Close(v)
      PROVE  ReachedFlag'
  BY <1>3, <1>5 DEF Close
<1>6. ASSUME NEW f \in Funcs, DeleteFunc(f)
      PROVE  ReachedFlag'
  BY <1>3, <1>6 DEF DeleteFunc
<1>7. CASE UNCHANGED vars
  BY <1>7 DEF vars, ReachedFlag
<1> QED BY <1>1, <1>2, <1>4, <1>5, <1>6, <1>7 DEF Next

(* "Desired state already reached; nothing to do." is true as long as      *)
(* update_func accepts: the database and all decompilations have the flag. *)
THEOREM ReachedIsDoneHolds ==
  ASSUME ~UpdateMayFail
  PROVE  Spec => []ReachedIsDone
<1>1. Init => ReachedFlag
  BY DEF Init, Idle, ReachedFlag
<1>2. ToggleInv /\ ReachedFlag => ReachedIsDone
  <2> SUFFICES ASSUME ToggleInv, ReachedFlag, outcome.kind = "reached" PROVE ReachedIsDone
    BY DEF ReachedIsDone
  <2>1. refused = {} /\ outcome.f \in Funcs
    BY DEF ToggleInv, NoneRefused, TypeOK, ReachedFlag
  <2>2. outcome.f \in stored <=> outcome.want
    BY <2>1 DEF ToggleInv, DamageConfined, ReachedFlag
  <2>3. ASSUME NEW c \in exists, cached[c].valid, outcome.f \in Reads(c)
        PROVE  outcome.f \in cached[c].saw <=> outcome.want
    BY <2>1, <2>3 DEF ToggleInv, DamageConfined, ReachedFlag, Decompiled
  <2> QED BY <2>2, <2>3 DEF ReachedIsDone
<1> QED BY <1>1, <1>2, ReachedFlagNext, ToggleInvHolds, PTL DEF Spec

(* Whatever ran since update() enabled it, an activation sets its          *)
(* function's flag as the label says, and no other function's.             *)
THEOREM ActivationObeysLabelHolds == Spec => ActivationObeysLabel
<1> DEFINE Obeys == \A v \in Views, want \in BOOLEAN : Activate(v, want) =>
                      /\ shows[v] \in outline' <=> want
                      /\ outline' \ {shows[v]} = outline \ {shows[v]}
<1>1. Obeys
  BY DEF Activate, AlreadyReached, Refused, Toggled, SetFlag
<1>2. [Next]_vars => [Obeys]_vars
  BY <1>1
<1>3. [][Next]_vars => [][Obeys]_vars
  BY <1>2, PTL
<1> QED BY <1>3 DEF Spec, ActivationObeysLabel

(* A menu never offers an action that update() would refuse: whatever      *)
(* function the view shows, one of the two labels fits its flag.           *)
THEOREM PopupOffersUsableHolds == Spec => PopupOffersUsable
<1> DEFINE Offers == \A v \in Views : Popup(v) => enabled'[v] # {}
<1>1. TypeOK => Offers
  <2> SUFFICES ASSUME TypeOK, NEW v \in Views, Popup(v) PROVE enabled'[v] # {}
    OBVIOUS
  <2> DEFINE want == shows[v] \notin outline
  <2>1. want \in BOOLEAN /\ (want <=> shows[v] \notin outline) /\ Usable(v, want)
    BY DEF Popup, Usable
  <2>2. enabled'[v] = {w \in BOOLEAN : (w <=> shows[v] \notin outline) /\ Usable(v, w)}
    BY DEF TypeOK, Popup
  <2> QED BY <2>1, <2>2, Zenon
<1>2. TypeOK /\ [Next]_vars => [Offers]_vars
  BY <1>1
<1>3. []TypeOK /\ [][Next]_vars => [][Offers]_vars
  BY <1>2, PTL
<1> QED BY <1>3, ToggleTypeCorrect DEF Spec, PopupOffersUsable
=============================================================================
