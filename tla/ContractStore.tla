---------------------------- MODULE ContractStore ----------------------------
(***************************************************************************)
(* The contract of one table and the steward overlays that every write     *)
(* enforces on it (redibis.store.contract_store and the overlay stores).   *)
(*                                                                         *)
(* One action is one public call of ContractStore (or of the two review    *)
(* services that write the sidecars it reads). Calls are atomic here; what *)
(* happens when two of them overlap, or one dies half way, and the         *)
(* identity, version, audit and index that a write also leaves, are the    *)
(* subject of ContractWrite.                                               *)
(***************************************************************************)
EXTENDS ContractColumn

CONSTANTS
    Columns,
    Fragments,     \* the column fragments that partials are made of
    Payloads,      \* the payloads that "pii" decisions carry
    TagPatches,    \* the tag lists that definition patches carry
    GivenFps,      \* fingerprints that callers of set_pii_decision supply
    ValidationMayFail   \* may a caller pass validate=True?

VARIABLES
    active,      \* the active contract: its columns, or None
    decisions,   \* PII overlay, per column
    quality,     \* quality overlay, per column and rule
    defs,        \* definition overlay, per column
    fields,      \* field decisions, per column
    reviews,     \* Final-Review checkpoint, per column
    unapplied    \* a call saved an overlay and raised before its upsert

vars == <<active, decisions, quality, defs, fields, reviews, unapplied>>

Fps == Types \cup GivenFps
Life == {"active", "stale"}
PiiDecision == [status : {"pii", "not_pii"}, payload : Payload, fp : Fps,
                life : Life]
DefinitionDecision == [tags : (SUBSET Tags) \cup {Omitted}, fp : Fps,
                       life : Life]
FieldDecision == [fp : Fps, life : Life]
RuleStatus == {"none", "suppressed", "manual"}
ReviewStatus == {"none", "reviewed", "needs_review"}

Contract == [Columns -> Column \cup {None}]
Partial == [Columns -> Fragments \cup {None}]
NoFragments == [c \in Columns |-> None]

ASSUME ConstantsAssumption ==
    /\ DefaultType \in Types
    /\ Fragments \subseteq Fragment
    /\ Payloads \subseteq Payload
    /\ TagPatches \subseteq (SUBSET Tags) \cup {Omitted}
    /\ ValidationMayFail \in BOOLEAN

\* None and Omitted are none of the values they stand beside.
ASSUME SentinelAssumption ==
    /\ None \notin Column \cup Contract \cup Fragments \cup Types
    /\ None \notin PiiDecision \cup DefinitionDecision \cup FieldDecision
    /\ Omitted \notin Types \cup GivenFps

-----------------------------------------------------------------------------
Has(c) == active # None /\ active[c] # None

TypeOf(c) == IF Has(c) THEN active[c].type ELSE None

\* The column carries a privacy block.
IsMarked(c) == Has(c) /\ active[c].privacy # "none"

InForce(c, status) ==
    /\ decisions[c] # None
    /\ decisions[c].status = status
    /\ decisions[c].life = "active"

TagsInForce(c) ==
    /\ defs[c] # None
    /\ defs[c].life = "active"
    /\ defs[c].tags # Omitted

-----------------------------------------------------------------------------
(* Faulty variants of the definitions of the next section (see
   ContractColumn). *)

drift_ignored(overlay, cols) == overlay

drift_reevaluated(overlay, cols) ==
    [c \in Columns |->
        IF overlay[c] # None /\ cols[c] # None
        THEN [overlay[c] EXCEPT !.life =
                IF overlay[c].fp = FingerprintOf(cols[c]) THEN "active"
                ELSE "stale"]
        ELSE overlay[c]]

reconcile_pii_though_stale(col, decision) ==
    IF decision = None THEN col
    ELSE IF decision.status = "not_pii" THEN strip_pii_from_column(col)
    ELSE apply_pii_to_column(col, decision.payload)

reconcile_quality_adding_only(col, ruling) ==
    [col EXCEPT !.quality = @ \cup {r \in Rules : ruling[r] = "manual"}]

reconcile_quality_removing_only(col, ruling) ==
    [col EXCEPT !.quality = {r \in @ : ruling[r] # "suppressed"}]

reconcile_definition_uniting(col, entry) ==
    IF entry = None \/ entry.life = "stale" \/ entry.tags = Omitted THEN col
    ELSE [col EXCEPT !.tags = @ \cup entry.tags]

-----------------------------------------------------------------------------
(* The stages of upsert, each a function of the merged columns. *)

Merged(partial) ==
    [c \in Columns |->
        IF partial[c] = None
        THEN IF active = None THEN None ELSE active[c]
        ELSE IF Has(c) THEN merge_column(active[c], partial[c])
                       ELSE NewColumn(partial[c])]

\* Demote the active entries whose fingerprint no longer matches; a column
\* that is not in the contract demotes nothing. PII, definition and field
\* decisions drift by the same rule.
Drifted(overlay, cols) ==
    [c \in Columns |->
        IF /\ overlay[c] # None
           /\ overlay[c].life = "active"
           /\ cols[c] # None
           /\ overlay[c].fp # FingerprintOf(cols[c])
        THEN [overlay[c] EXCEPT !.life = "stale"]
        ELSE overlay[c]]

reconcile_pii(col, decision) ==
    IF decision = None \/ decision.life = "stale" THEN col
    ELSE IF decision.status = "not_pii" THEN strip_pii_from_column(col)
    ELSE apply_pii_to_column(col, decision.payload)

reconcile_quality(col, ruling) ==
    [col EXCEPT !.quality =
        {r \in @ : ruling[r] # "suppressed"}
            \cup {r \in Rules : ruling[r] = "manual"}]

reconcile_definition(col, entry) ==
    IF entry = None \/ entry.life = "stale" \/ entry.tags = Omitted THEN col
    ELSE [col EXCEPT !.tags = entry.tags]

\* Faulty: the leak guard runs before the overlays.
reconciled_guard_first(col, decision, ruling, entry, strip) ==
    reconcile_definition(
        reconcile_quality(
            reconcile_pii(IF strip THEN strip_quality_from_pii(col) ELSE col,
                          decision), ruling), entry)

\* The overlays are applied in this order: definition tags come after the
\* PII decision, the leak guard comes last.
Reconciled(col, decision, ruling, entry, strip) ==
    LET overlaid == reconcile_definition(
                        reconcile_quality(
                            reconcile_pii(col, decision), ruling), entry)
    IN  IF strip THEN strip_quality_from_pii(overlaid) ELSE overlaid

\* Faulty: only what this write demoted is flagged.
newly_flagged(cols, ds, fs) ==
    {c \in Columns :
        \/ Drifted(ds, cols)[c] # ds[c]
        \/ Drifted(fs, cols)[c] # fs[c]
        \/ Drifted(fields, cols)[c] # fields[c]}

\* Every write re-flags ALL stale PII decisions, and the definition and field
\* decisions that have just become stale.
Flagged(cols, ds, fs) ==
    {c \in Columns :
        \/ Drifted(ds, cols)[c] # None /\ Drifted(ds, cols)[c].life = "stale"
        \/ Drifted(fs, cols)[c] # fs[c]
        \/ Drifted(fields, cols)[c] # fields[c]}

\* What upsert saves before it validates.
MarkDrift(cols, ds, fs) ==
    /\ decisions' = Drifted(ds, cols)
    /\ defs' = Drifted(fs, cols)
    /\ fields' = Drifted(fields, cols)
    /\ reviews' = [c \in Columns |-> IF c \in Flagged(cols, ds, fs)
                                     THEN "needs_review" ELSE reviews[c]]

\* One upsert of partial, on top of the overlays ds, qs and fs just saved.
Write(partial, strip, ds, qs, fs) ==
    LET cols == Merged(partial) IN
    /\ MarkDrift(cols, ds, fs)
    /\ quality' = qs
    /\ active' = [c \in Columns |->
                    IF cols[c] = None THEN None
                    ELSE Reconciled(cols[c], Drifted(ds, cols)[c], qs[c],
                                    Drifted(fs, cols)[c], strip)]
    /\ unapplied' = FALSE

-----------------------------------------------------------------------------
(* The calls. *)

\* A scan, a merge of a run, an import, an edit: any writer of the contract.
upsert(partial, strip) == Write(partial, strip, decisions, quality, defs)

\* validate=True and the merged contract is invalid: upsert raises, after
\* the lifecycle changes have been saved.
UpsertRejected(partial) ==
    /\ ValidationMayFail
    /\ MarkDrift(Merged(partial), decisions, defs)
    /\ UNCHANGED <<active, quality, unapplied>>

\* The decision is saved with the caller's fingerprint, or with the one of
\* the column as it stands, and the contract is upserted onto itself.
set_pii_decision(c, status, payload, fp) ==
    /\ Has(c)
    /\ LET decision == [status |-> status, payload |-> payload,
                        fp |-> GivenOr(fp, FingerprintOf(active[c])),
                        life |-> "active"]
       IN  Write(NoFragments, FALSE, [decisions EXCEPT ![c] = decision],
                 quality, defs)

\* Stop enforcing; the contract keeps what it holds.
clear_pii_decision(c) ==
    /\ decisions[c] # None
    /\ decisions' = [decisions EXCEPT ![c] = None]
    /\ UNCHANGED <<active, quality, defs, fields, reviews, unapplied>>

\* The quality calls save the overlay first; without a contract the
\* re-upsert then raises and the overlay stays.
ReapplyQuality(qs) ==
    \/ /\ active # None
       /\ Write(NoFragments, FALSE, decisions, qs, defs)
    \/ /\ active = None
       /\ quality' = qs
       /\ unapplied' = TRUE
       /\ UNCHANGED <<active, decisions, defs, fields, reviews>>

suppress_quality_rule(c, r) ==
    ReapplyQuality([quality EXCEPT ![c][r] = "suppressed"])

suppress_all_quality_rules ==
    /\ active # None
    /\ ReapplyQuality([c \in Columns |-> [r \in Rules |->
            IF Has(c) /\ r \in active[c].quality THEN "suppressed"
            ELSE quality[c][r]]])

restore_quality_rule(c, r) == ReapplyQuality([quality EXCEPT ![c][r] = "none"])

\* source is the rule the new one replaces, or Omitted.
add_manual_quality_rule(c, r, source) ==
    ReapplyQuality([quality EXCEPT ![c] =
        [s \in Rules |-> IF s = r THEN "manual"
                         ELSE IF s = source THEN "suppressed" ELSE @[s]]])

\* A patch without tags keeps the tags of the entry it patches, and makes
\* the entry active again whatever it was.
PatchedEntry(c, tags) ==
    [tags |-> IF tags = Omitted /\ defs[c] # None THEN defs[c].tags ELSE tags,
     fp |-> FingerprintOf(active[c]), life |-> "active"]

patch_definitions(c, tags) ==
    /\ Has(c)
    /\ Write(NoFragments, FALSE, decisions, quality,
             [defs EXCEPT ![c] = PatchedEntry(c, tags)])

\* A patch of c and then of a column the contract does not have: the entry
\* of c is saved, then the call raises.
PatchDefinitionsRaises(c, tags) ==
    /\ Has(c)
    /\ defs' = [defs EXCEPT ![c] = PatchedEntry(c, tags)]
    /\ unapplied' = TRUE
    /\ UNCHANGED <<active, decisions, quality, fields, reviews>>

\* Steward review routes its other fields to the field decisions.
RecordFieldDecision(c) ==
    /\ fields' = [fields EXCEPT ![c] =
            [fp |-> IF Has(c) THEN FingerprintOf(active[c]) ELSE DefaultType,
             life |-> "active"]]
    /\ UNCHANGED <<active, decisions, quality, defs, reviews, unapplied>>

\* A reviewer's checkpoint (approve / edit / no_action, reject /
\* needs_review, reset).
Checkpoint(c, status) ==
    /\ reviews' = [reviews EXCEPT ![c] = status]
    /\ UNCHANGED <<active, decisions, quality, defs, fields, unapplied>>

\* Faulty: the PII decisions outlive the contract too.
purge_keeping_decisions ==
    /\ active' = None
    /\ quality' = [c \in Columns |-> [r \in Rules |-> "none"]]
    /\ defs' = [c \in Columns |-> None]
    /\ unapplied' = FALSE
    /\ UNCHANGED <<decisions, fields, reviews>>

\* The reviews and the field decisions outlive the contract.
purge ==
    /\ active' = None
    /\ decisions' = [c \in Columns |-> None]
    /\ quality' = [c \in Columns |-> [r \in Rules |-> "none"]]
    /\ defs' = [c \in Columns |-> None]
    /\ unapplied' = FALSE
    /\ UNCHANGED <<fields, reviews>>

-----------------------------------------------------------------------------
Init ==
    /\ active = None
    /\ decisions = [c \in Columns |-> None]
    /\ quality = [c \in Columns |-> [r \in Rules |-> "none"]]
    /\ defs = [c \in Columns |-> None]
    /\ fields = [c \in Columns |-> None]
    /\ reviews = [c \in Columns |-> "none"]
    /\ unapplied = FALSE

Upsert == \E partial \in Partial, strip \in BOOLEAN : upsert(partial, strip)
RejectUpsert == \E partial \in Partial : UpsertRejected(partial)
Promote == \E c \in Columns, payload \in Payloads, fp \in GivenFps \cup {Omitted} :
    set_pii_decision(c, "pii", payload, fp)
Demote == \E c \in Columns, fp \in GivenFps \cup {Omitted} :
    set_pii_decision(c, "not_pii", NoPayload, fp)
Clear == \E c \in Columns : clear_pii_decision(c)
EditQuality ==
    \/ \E c \in Columns, r \in Rules : suppress_quality_rule(c, r)
    \/ \E c \in Columns, r \in Rules : restore_quality_rule(c, r)
    \/ \E c \in Columns, r \in Rules, source \in Rules \cup {Omitted} :
           add_manual_quality_rule(c, r, source)
    \/ suppress_all_quality_rules
EditDefinitions ==
    \/ \E c \in Columns, tags \in TagPatches : patch_definitions(c, tags)
    \/ \E c \in Columns, tags \in TagPatches : PatchDefinitionsRaises(c, tags)
Review ==
    \/ \E c \in Columns : RecordFieldDecision(c)
    \/ \E c \in Columns, status \in ReviewStatus : Checkpoint(c, status)

Next ==
    \/ Upsert
    \/ RejectUpsert
    \/ Promote
    \/ Demote
    \/ Clear
    \/ EditQuality
    \/ EditDefinitions
    \/ Review
    \/ purge

Spec == Init /\ [][Next]_vars

-----------------------------------------------------------------------------
(* Properties. *)

TypeOK ==
    /\ active \in {None} \cup Contract
    /\ decisions \in [Columns -> PiiDecision \cup {None}]
    /\ quality \in [Columns -> [Rules -> RuleStatus]]
    /\ defs \in [Columns -> DefinitionDecision \cup {None}]
    /\ fields \in [Columns -> FieldDecision \cup {None}]
    /\ reviews \in [Columns -> ReviewStatus]
    /\ unapplied \in BOOLEAN

\* PII and definition entries exist only for columns of the contract, since a
\* purge forgets both and nothing else removes a column.
OverlaysHaveColumns ==
    \A c \in Columns : decisions[c] # None \/ defs[c] # None => Has(c)

\* A decision, of a steward or about a definition, that is still in force was
\* taken on a column of the type the contract has now, whatever merges came
\* in between (evaluate_and_mark_drift, evaluate_and_mark_definition_drift).
AuthorityMatchesType ==
    \A c \in Columns :
        /\ decisions[c] # None /\ decisions[c].life = "active"
              => decisions[c].fp = FingerprintOf(active[c])
        /\ defs[c] # None /\ defs[c].life = "active"
              => defs[c].fp = FingerprintOf(active[c])

\* While a not_pii decision is in force no write, by any caller, leaves the
\* column a privacy block or a strippable tag, unless a definition entry in
\* force lists that very tag (reconcile_pii_columns).
DemotedColumnsAreStripped ==
    \A c \in Columns : InForce(c, "not_pii") =>
        /\ active[c].privacy = "none"
        /\ ~unapplied /\ ~TagsInForce(c) => active[c].tags \cap StrippedTags = {}

\* While a pii decision is in force the column carries what its payload says,
\* its tags unless a definition entry in force lists others.
PromotedColumnsAreMarked ==
    \A c \in Columns : InForce(c, "pii") =>
        LET payload == decisions[c].payload IN
        /\ payload.privacy # "none" => active[c].privacy = payload.privacy
        /\ payload.tags # Omitted /\ ~unapplied /\ ~TagsInForce(c) =>
              /\ payload.tags \subseteq active[c].tags
              /\ payload.replace => active[c].tags = payload.tags

\* A suppressed rule is in no contract, whichever workflow brings it back
\* (reconcile_quality_rules: "rule must not appear in the contract").
SuppressedRulesAbsent ==
    active # None /\ ~unapplied =>
        \A c \in Columns, r \in Rules :
            quality[c][r] = "suppressed" /\ Has(c) => r \notin active[c].quality

\* A manual rule can be missing from the contract only where the leak guard
\* may take it away: on a column that is PII.
ManualRulesPresent ==
    active # None /\ ~unapplied =>
        \A c \in Columns, r \in Rules :
            quality[c][r] = "manual" /\ Has(c) /\ ~column_is_pii(active[c])
                => r \in active[c].quality

\* The tags of a definition entry in force are exactly the column's tags: no
\* scan adds one and no PII decision takes one away.
StewardTagsAuthoritative ==
    ~unapplied => \A c \in Columns :
        TagsInForce(c) => active[c].tags = defs[c].tags

\* What a step owes; each is a property of every step.
FlagsStale ==
    active' # active => \A c \in Columns :
        decisions'[c] # None /\ decisions'[c].life = "stale"
            => reviews'[c] = "needs_review"

RevivesByDecision ==
    \A c \in Columns :
        /\ decisions[c] # None /\ decisions[c].life = "stale"
        /\ decisions'[c] # None /\ decisions'[c].life = "active"
        => \E status \in {"pii", "not_pii"}, payload \in Payloads \cup {NoPayload},
              fp \in GivenFps \cup {Omitted} :
                set_pii_decision(c, status, payload, fp)

DemotesByDecision ==
    \A c \in Columns :
        IsMarked(c) /\ active' # None /\ ~IsMarked(c)'
            => /\ decisions'[c] # None
               /\ decisions'[c].status = "not_pii"
               /\ decisions'[c].life = "active"

Leaks ==
    active' # None /\ \E c \in Columns :
        active'[c] # None /\ column_is_pii(active'[c]) /\ active'[c].quality # {}

LeaksNothing == Leaks => \A partial \in Partial : ~upsert(partial, TRUE)

\* A write that leaves a PII decision stale leaves its column needing review,
\* also when a reviewer had meanwhile approved it.
StaleStaysFlagged == [][FlagsStale]_vars

\* A stale decision does not come back to force by itself, not even when the
\* column returns to the type it was taken on: it takes a new decision, on a
\* contract that exists, and a new decision matches its column.
StaleIsSticky == [][RevivesByDecision]_vars

\* A column loses its privacy block only when a not_pii decision in force, or
\* a purge, takes it (merge_two_contracts never deletes, reconcile_pii_columns
\* strips).
DemotionOnlyByDecision == [][DemotesByDecision]_vars

\* The value-leak guard: after a write of an automated writer no column that
\* readers treat as PII holds a quality rule, whether the rule or the PII came
\* from the contract, the partial or an overlay.
AutomatedWriteLeaksNothing == [][LeaksNothing]_vars

\* What a decision promises when it is taken (set_pii_decision: "not_pii strips
\* every PII signal from the column"): the column is not PII for its readers.
DemotedColumnsAreNotPii ==
    \A c \in Columns : InForce(c, "not_pii") /\ ~TagsInForce(c) /\ ~unapplied =>
        ~column_is_pii(active[c])

\* "PII demotions only via decision overlay" (README): a column that readers
\* treat as PII goes on being PII until a decision on it is in force.
PiiOnlyDemotedByDecision ==
    [][\A c \in Columns :
         /\ Has(c) /\ column_is_pii(active[c])
         /\ active' # None /\ ~column_is_pii(active'[c])
         => decisions'[c] # None /\ decisions'[c].life = "active"]_vars

\* The call that records a decision applies it to the contract, on whichever
\* fingerprint its caller took it.
DecisionTakesEffect ==
    [][\A c \in Columns, fp \in GivenFps \cup {Omitted} :
         set_pii_decision(c, "not_pii", NoPayload, fp) => active'[c].privacy = "none"]_vars

-----------------------------------------------------------------------------
(* The abstract specification this one implements. *)

RulingOf(decision) ==
    IF decision = None THEN "none"
    ELSE IF decision.life = "stale" THEN "lapsed"
    ELSE IF decision.status = "not_pii" THEN "not_pii"
    ELSE IF decision.payload.privacy # "none" THEN "pii" ELSE "advisory"

Authority == INSTANCE PiiAuthority WITH
    types <- [c \in Columns |-> TypeOf(c)],
    marked <- [c \in Columns |-> IsMarked(c)],
    ruling <- [c \in Columns |-> RulingOf(decisions[c])]

\* Seen through its types, its marks and its rulings the store is a
\* PiiAuthority: no sequence of scans, merges, edits, rejected writes, stale
\* decisions and purges makes it answer otherwise.
ImplementsPiiAuthority == Authority!Spec
=============================================================================
