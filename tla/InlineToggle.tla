---------------------------- MODULE InlineToggle ----------------------------
(***************************************************************************)
(* The inline component: two actions that set and clear FUNC_OUTLINE on    *)
(* the function of a pseudocode view, so that Hex-Rays inlines it into its *)
(* callers. What can go wrong is agreement: of the flag in memory with the *)
(* one in the database, of the decompiler's caches with the flags, of what *)
(* update() enabled some time ago with what activate() finds now.          *)
(*                                                                         *)
(* Hex-Rays is external: it keeps a decompilation per function until told  *)
(* to drop it, and a decompilation depends on the flags of the function    *)
(* and of the functions it calls. An action is named by the flag value it  *)
(* wants: TRUE is "Mark as inline", FALSE is "Mark as outline".            *)
(*                                                                         *)
(* A definition whose name has the suffix _Bug... is a defect that a       *)
(* property must notice; it is never part of the specification.            *)
(***************************************************************************)
EXTENDS FiniteSets

CONSTANTS
  Funcs,         (* functions of the database                              *)
  Calls,         (* pairs <<caller, callee>>: code references to an entry   *)
  Views,         (* pseudocode views                                        *)
  Nowhere,       (* the function of a view that shows none                  *)
  UpdateMayFail  (* TRUE: update_func may refuse                            *)

ASSUME InlineToggleAssumption ==
  /\ Calls \subseteq Funcs \X Funcs
  /\ Nowhere \notin Funcs
  /\ UpdateMayFail \in BOOLEAN

VARIABLES
  exists,   (* the functions get_func still finds                          *)
  outline,  (* those with FUNC_OUTLINE set in the func_t in memory         *)
  stored,   (* those with FUNC_OUTLINE set in the database                 *)
  cached,   (* functions with a cached decompilation, and the flags it saw *)
  shows,    (* the function whose cfunc a view holds                       *)
  enabled,  (* the actions update() last enabled in a view                 *)
  outcome,  (* how the last activation ended                               *)
  refused   (* history: functions with a refused update and none since     *)

vars == <<exists, outline, stored, cached, shows, enabled, outcome, refused>>

(* The functions whose flags a decompilation of f reads.                   *)
Reads(f)   == {f} \union {g \in Funcs : <<f, g>> \in Calls}
Callers(f) == {c \in exists : <<c, f>> \in Calls}
Decompiled(f) == Reads(f) \intersect outline

Uncached == [valid |-> FALSE, saw |-> {}]
Idle     == [kind |-> "none", f |-> Nowhere, want |-> FALSE]

----------------------------------------------------------------------------
(* update(): the state of action want in view v.                           *)
Usable(v, want) ==
  /\ shows[v] \in exists
  /\ want <=> shows[v] \notin outline

Popup_BugSwapped(v) ==
  /\ shows[v] \in exists
  /\ enabled' = [enabled EXCEPT ![v] =
                   {w \in BOOLEAN : (w <=> shows[v] \in outline) /\ Usable(v, w)}]
  /\ UNCHANGED <<exists, outline, stored, cached, shows, outcome, refused>>

(* inline_component_attach_to_popup: one of the two actions goes on the    *)
(* menu of v; IDA then asks update() about it.                             *)
Popup(v) ==
  /\ shows[v] \in exists
  /\ enabled' = [enabled EXCEPT ![v] =
                   {w \in BOOLEAN : (w <=> shows[v] \notin outline) /\ Usable(v, w)}]
  /\ UNCHANGED <<exists, outline, stored, cached, shows, outcome, refused>>

(* IDA asks update() about both actions.                                   *)
UpdateActions(v) ==
  /\ enabled' = [enabled EXCEPT ![v] = {w \in BOOLEAN : Usable(v, w)}]
  /\ UNCHANGED <<exists, outline, stored, cached, shows, outcome, refused>>

----------------------------------------------------------------------------
(* do_toggle_inline. What update() enabled may be out of date by now.      *)

MarkCallersDirty_BugCallersOnly(f, caches) ==
  [g \in Funcs |-> IF g \in Callers(f) \ {f} THEN Uncached ELSE caches[g]]

(* mark_callers_dirty: drop the caches of f and of its direct callers.     *)
MarkCallersDirty(f, caches) ==
  [g \in Funcs |-> IF g \in {f} \union Callers(f) THEN Uncached ELSE caches[g]]

SetFlag(f, want) == IF want THEN outline \union {f} ELSE outline \ {f}

AlreadyReached_BugFlips(f, want) ==
  /\ want <=> f \in outline
  /\ outline' = IF f \in outline THEN outline \ {f} ELSE outline \union {f}
  /\ stored' = IF f \in outline THEN stored \ {f} ELSE stored \union {f}
  /\ cached' = MarkCallersDirty(f, cached)
  /\ outcome' = [kind |-> "toggled", f |-> f, want |-> want]
  /\ refused' = refused \ {f}

AlreadyReached(f, want) ==
  /\ want <=> f \in outline
  /\ outcome' = [kind |-> "reached", f |-> f, want |-> want]
  /\ UNCHANGED <<outline, stored, cached, refused>>

(* update_func refuses: an early return, with the flag already set.        *)
Refused(f, want) ==
  /\ UpdateMayFail
  /\ want <=> f \notin outline
  /\ outline' = SetFlag(f, want)
  /\ outcome' = [kind |-> "refused", f |-> f, want |-> want]
  /\ refused' = refused \union {f}
  /\ UNCHANGED <<stored, cached>>

Toggled_BugNoUpdate(f, want) ==
  /\ want <=> f \notin outline
  /\ outline' = SetFlag(f, want)
  /\ cached' = MarkCallersDirty(f, cached)
  /\ outcome' = [kind |-> "toggled", f |-> f, want |-> want]
  /\ UNCHANGED <<stored, refused>>

(* refresh_view(true) decompiles f again, which may fail.                  *)
Toggled(f, want) ==
  /\ want <=> f \notin outline
  /\ outline' = SetFlag(f, want)
  /\ stored' = IF want THEN stored \union {f} ELSE stored \ {f}
  /\ \E decompiles \in BOOLEAN :
       cached' = [MarkCallersDirty(f, cached) EXCEPT ![f] =
                    IF decompiles THEN [valid |-> TRUE, saw |-> Reads(f) \intersect outline']
                                  ELSE @]
  /\ outcome' = [kind |-> "toggled", f |-> f, want |-> want]
  /\ refused' = refused \ {f}

Activate_BugNoNullCheck(v, want) ==
  /\ want \in enabled[v]
  /\ shows[v] # Nowhere
  /\ \/ AlreadyReached(shows[v], want)
     \/ Refused(shows[v], want)
     \/ Toggled(shows[v], want)
  /\ UNCHANGED <<exists, shows, enabled>>

Activate(v, want) ==
  /\ want \in enabled[v]
  /\ shows[v] \in exists
  /\ \/ AlreadyReached(shows[v], want)
     \/ Refused(shows[v], want)
     \/ Toggled(shows[v], want)
  /\ UNCHANGED <<exists, shows, enabled>>

----------------------------------------------------------------------------
(* IDA and Hex-Rays.                                                       *)

(* The user opens f in v, or f is decompiled for another reason: a valid   *)
(* cache is used as it is.                                                 *)
Show(v, f) ==
  /\ f \in exists
  /\ shows' = [shows EXCEPT ![v] = f]
  /\ cached' = IF cached[f].valid THEN cached
               ELSE [cached EXCEPT ![f] = [valid |-> TRUE, saw |-> Decompiled(f)]]
  /\ outcome' = Idle
  /\ UNCHANGED <<exists, outline, stored, enabled, refused>>

Close(v) ==
  /\ shows[v] # Nowhere
  /\ shows' = [shows EXCEPT ![v] = Nowhere]
  /\ enabled' = [enabled EXCEPT ![v] = {}]
  /\ outcome' = Idle
  /\ UNCHANGED <<exists, outline, stored, cached, refused>>

(* The user deletes function f; a view may still hold its cfunc.           *)
DeleteFunc(f) ==
  /\ f \in exists
  /\ exists' = exists \ {f}
  /\ outline' = outline \ {f}
  /\ stored' = stored \ {f}
  /\ cached' = MarkCallersDirty(f, cached)
  /\ outcome' = Idle
  /\ UNCHANGED <<shows, enabled, refused>>

----------------------------------------------------------------------------
(* Functions of the database may have been marked in an earlier session.   *)
Init ==
  /\ exists = Funcs
  /\ outline \in SUBSET Funcs
  /\ stored = outline
  /\ cached = [f \in Funcs |-> Uncached]
  /\ shows = [v \in Views |-> Nowhere]
  /\ enabled = [v \in Views |-> {}]
  /\ outcome = Idle
  /\ refused = {}

Next ==
  \/ \E v \in Views : Popup(v)
  \/ \E v \in Views : UpdateActions(v)
  \/ \E v \in Views, want \in BOOLEAN : Activate(v, want)
  \/ \E v \in Views, f \in Funcs : Show(v, f)
  \/ \E v \in Views : Close(v)
  \/ \E f \in Funcs : DeleteFunc(f)

Spec == Init /\ [][Next]_vars

----------------------------------------------------------------------------
TypeOK ==
  /\ exists \subseteq Funcs
  /\ outline \subseteq exists
  /\ stored \subseteq exists
  /\ cached \in [Funcs -> [valid : BOOLEAN, saw : SUBSET Funcs]]
  /\ shows \in [Views -> Funcs \union {Nowhere}]
  /\ enabled \in [Views -> SUBSET BOOLEAN]
  /\ outcome \in [kind : {"none", "reached", "refused", "toggled"},
                  f : Funcs \union {Nowhere}, want : BOOLEAN]
  /\ refused \subseteq Funcs

(* Every cached decompilation saw the flags that its function and the      *)
(* functions it calls have now: the flush of the target and its callers    *)
(* ("Flush decompiler caches for this function and all its callers").      *)
FreshCaches ==
  \A f \in exists : cached[f].valid => cached[f].saw = Decompiled(f)

(* A refused update does damage only where it happened: memory and         *)
(* database, or a cached decompilation and the flags, disagree only about  *)
(* functions whose update was refused and has not succeeded since.         *)
DamageConfined ==
  /\ \A f \in Funcs \ refused : f \in outline <=> f \in stored
  /\ \A f \in exists : cached[f].valid =>
       \A g \in Funcs \ refused : g \in cached[f].saw <=> g \in Decompiled(f)

(* Two actions racing over the same function through two views, one of     *)
(* them enabled before the other ran, leave memory and database agreeing.  *)
MemoryAgreesWithDatabase == outline = stored

(* "Desired state already reached; nothing to do.": when an activation     *)
(* gives up for that reason, the database has the state and no cached      *)
(* decompilation contradicts it.                                           *)
ReachedIsDone ==
  outcome.kind = "reached" =>
    /\ outcome.f \in stored <=> outcome.want
    /\ \A f \in exists : cached[f].valid /\ outcome.f \in Reads(f)
         => (outcome.f \in cached[f].saw <=> outcome.want)

(* Whatever ran since update() enabled it, an activation leaves the flag   *)
(* as its label says and every other function's flag alone.                *)
ActivationObeysLabel ==
  [][\A v \in Views, want \in BOOLEAN : Activate(v, want) =>
       /\ shows[v] \in outline' <=> want
       /\ outline' \ {shows[v]} = outline \ {shows[v]}]_vars

(* The action that the popup menu offers is one that update() enables.     *)
PopupOffersUsable ==
  [][\A v \in Views : Popup(v) => enabled'[v] # {}]_vars
=============================================================================
