---------------------------- MODULE PalmConflict ----------------------------
(***************************************************************************)
(* PalmConflictHandler: a conflict is decided by the policy, by its        *)
(* fallback, and then by the Palm overlays, which look the two sides up on *)
(* the device.  A side is a Palm record (its archived and secret bits and  *)
(* whether it is unfiled) or NotPalm: an id of another kind, or a record   *)
(* the device does not return.                                             *)
(*                                                                         *)
(* What ConflictPolicy answers (shouldAutoResolve, getAutoDecision) is     *)
(* libkalburator's and arbitrary here.                                     *)
(***************************************************************************)
EXTENDS Integers

CONSTANTS NotPalm, MaxPending

ASSUME PalmConflictAssumption ==
  NotPalm \notin [archived : BOOLEAN, secret : BOOLEAN, unfiled : BOOLEAN]

VARIABLES ruling,    \* the last conflict, its base decision and the handler's
          deferred   \* m_pending's length

Sides == {NotPalm} \cup [archived : BOOLEAN, secret : BOOLEAN, unfiled : BOOLEAN]
ConflictTypes ==
  {"BothModified", "ModifiedVsDeleted", "DeletedVsModified", "DuplicateDetected", "TypeMismatch"}
Decisions == {"UseSource", "UseTarget", "UseBoth", "Skip", "DeleteBoth"}
Conflicts == [type : ConflictTypes, sameTime : BOOLEAN, source : Sides, target : Sides]
ConflictPolicies ==
  [shouldAuto : BOOLEAN, auto : Decisions \cup {"Pending"}, byTime : BOOLEAN,
   fallback : {"Defer", "Skip", "UseDefault", "Abort"}]

IsArchived(side) == side # NotPalm /\ side.archived
IsSecret(side) == side # NotPalm /\ side.secret

(* The decision before the overlays; "Pending" is deferred.                *)
BaseDecision(policy) ==
  CASE policy.shouldAuto /\ policy.auto # "Pending" -> policy.auto
    [] policy.fallback = "Defer" -> "Pending"
    [] policy.fallback = "UseDefault" /\ policy.auto # "Pending" -> policy.auto
    [] OTHER -> "Skip"

KeepsSource(c, base) ==
  /\ IsArchived(c.source)
  /\ base = "DeleteBoth" \/ (base = "UseTarget" /\ c.type = "ModifiedVsDeleted")

KeepsTarget_Unmatched(c, base) == IsArchived(c.target) /\ base = "DeleteBoth"

KeepsTarget(c, base) ==
  /\ IsArchived(c.target)
  /\ base = "DeleteBoth" \/ (base = "UseSource" /\ c.type = "DeletedVsModified")

LeaksSecret_Both(c, base) ==
  base = "UseBoth" /\ c.type = "BothModified" /\ IsSecret(c.source) /\ IsSecret(c.target)

LeaksSecret(c, base) ==
  base = "UseBoth" /\ c.type = "BothModified" /\ IsSecret(c.source) # IsSecret(c.target)

TiedByTime(c, policy) ==
  /\ policy.byTime /\ c.type = "BothModified" /\ c.sameTime
  /\ c.source # NotPalm /\ c.target # NotPalm
  /\ c.source.unfiled # c.target.unfiled

ApplyOverlays(c, policy, base) ==
  CASE KeepsSource(c, base) -> "UseSource"
    [] ~KeepsSource(c, base) /\ KeepsTarget(c, base) -> "UseTarget"
    [] OTHER ->
         CASE LeaksSecret(c, base) -> IF IsSecret(c.source) THEN "UseSource" ELSE "UseTarget"
           [] ~LeaksSecret(c, base) /\ TiedByTime(c, policy)
                -> IF c.source.unfiled THEN "UseTarget" ELSE "UseSource"
           [] OTHER -> base

Decide(c, policy) ==
  IF BaseDecision(policy) = "Pending" THEN "Pending"
  ELSE ApplyOverlays(c, policy, BaseDecision(policy))

NoRuling == [type |-> "none"]

ConflictInit == ruling = NoRuling /\ deferred = 0

PalmHandleConflict(c, policy) ==
  /\ deferred < MaxPending
  /\ ruling' = [type |-> c.type, source |-> c.source, target |-> c.target,
                decision |-> Decide(c, policy)]
  /\ deferred' = IF Decide(c, policy) = "Pending" THEN deferred + 1 ELSE deferred

OnSyncStart ==
  /\ ruling # NoRuling
  /\ ruling' = NoRuling /\ deferred' = 0

ConflictNext ==
  OnSyncStart \/ \E c \in Conflicts, policy \in ConflictPolicies : PalmHandleConflict(c, policy)

ConflictSpec == ConflictInit /\ [][ConflictNext]_<<ruling, deferred>>

(* The decision removes the record of that side.                           *)
DeletesSource(type, decision) ==
  decision = "DeleteBoth" \/ (decision = "UseTarget" /\ type = "ModifiedVsDeleted")
DeletesTarget(type, decision) ==
  decision = "DeleteBoth" \/ (decision = "UseSource" /\ type = "DeletedVsModified")

(* Between a Palm record and an item of another backend, no decision       *)
(* deletes an archived Palm record, whatever policy and fallback say       *)
(* (palmconflicthandler.h: "never delete an archived record on the Palm    *)
(* side").                                                                 *)
ArchivedKept ==
  (ruling # NoRuling /\ (ruling.source = NotPalm \/ ruling.target = NotPalm)) =>
    /\ IsArchived(ruling.source) => ~DeletesSource(ruling.type, ruling.decision)
    /\ IsArchived(ruling.target) => ~DeletesTarget(ruling.type, ruling.decision)

(* A secret record is not duplicated next to one that is not.              *)
SecretNotDuplicated ==
  (ruling # NoRuling /\ ruling.type = "BothModified" /\ ruling.decision = "UseBoth") =>
    (IsSecret(ruling.source) <=> IsSecret(ruling.target))
=============================================================================
