------------------------ MODULE ContractStore_proofs ------------------------
(***************************************************************************)
(* Proofs about ContractStore, for every set of columns, tags, types,      *)
(* rules, fragments and payloads.                                          *)
(*                                                                         *)
(* First what merging and overlaying do to one column, then what one Write *)
(* does to the contract, then the inductive invariant IInv and the action  *)
(* properties.                                                             *)
(***************************************************************************)
EXTENDS ContractStore, TLAPS

\* The overlays of a column, as the stages of upsert see them.
Decisions == [Columns -> PiiDecision \cup {None}]
Definitions == [Columns -> DefinitionDecision \cup {None}]
FieldDecisions == [Columns -> FieldDecision \cup {None}]
Rulings == [Columns -> [Rules -> RuleStatus]]

\* Each of the two overlays of named columns names only columns there are.
NamesColumns(overlay) == \A c \in Columns : overlay[c] # None => Has(c)

-----------------------------------------------------------------------------
(* One column. *)

\* A merge yields a column.
LEMMA MergeColumnType ==
    ASSUME NEW col \in Column, NEW frag \in Fragment
    PROVE  merge_column(col, frag) \in Column
  BY DEF merge_column, GivenOr, BlockOr, Privacy, Column, Fragment

\* A first appearance yields a column.
LEMMA NewColumnType ==
    ASSUME NEW frag \in Fragment
    PROVE  NewColumn(frag) \in Column
  BY ConstantsAssumption DEF NewColumn, GivenOr, Column, Fragment

(* The four stages, each from column to column: what it leaves alone and what *)
(* it settles.                                                                *)

\* The PII decision settles privacy block and tags; a stale one settles
\* nothing.
LEMMA PiiStage ==
    ASSUME NEW col \in Column, NEW decision \in PiiDecision \cup {None}
    PROVE  LET res == reconcile_pii(col, decision) IN
           /\ res \in Column
           /\ res.type = col.type
           /\ decision # None /\ decision.life = "active" =>
                /\ decision.status = "not_pii" =>
                      res.privacy = "none" /\ res.tags \cap StrippedTags = {}
                /\ decision.status = "pii" =>
                      /\ res.privacy = BlockOr(decision.payload.privacy, col.privacy)
                      /\ decision.payload.tags # Omitted =>
                            /\ decision.payload.tags \subseteq res.tags
                            /\ decision.payload.replace
                                  => res.tags = decision.payload.tags
           /\ decision = None \/ decision.life = "stale" => res = col
  BY DEF reconcile_pii, strip_pii_from_column, apply_pii_to_column, Column,
         BlockOr, Privacy, PiiDecision, Payload, Life

\* The quality rulings settle the rules.
LEMMA QualityStage ==
    ASSUME NEW col \in Column, NEW ruling \in [Rules -> RuleStatus]
    PROVE  LET res == reconcile_quality(col, ruling) IN
           /\ res \in Column
           /\ res.type = col.type
           /\ res.privacy = col.privacy
           /\ res.tags = col.tags
           /\ \A r \in Rules :
                /\ ruling[r] = "suppressed" => r \notin res.quality
                /\ ruling[r] = "manual" => r \in res.quality
  BY DEF reconcile_quality, Column

\* The definition entry settles the tags when it lists some.
LEMMA DefinitionStage ==
    ASSUME NEW col \in Column, NEW entry \in DefinitionDecision \cup {None}
    PROVE  LET res == reconcile_definition(col, entry) IN
           /\ res \in Column
           /\ res.type = col.type
           /\ res.privacy = col.privacy
           /\ res.quality = col.quality
           /\ entry = None \/ entry.life = "stale" \/ entry.tags = Omitted
                => res.tags = col.tags
           /\ entry # None /\ entry.life = "active" /\ entry.tags # Omitted
                => res.tags = entry.tags
  BY DEF reconcile_definition, Column, DefinitionDecision, Life

\* The leak guard empties the quality rules of a PII column.
LEMMA GuardStage ==
    ASSUME NEW col \in Column
    PROVE  LET res == strip_quality_from_pii(col) IN
           /\ res \in Column
           /\ res.type = col.type
           /\ res.privacy = col.privacy
           /\ res.tags = col.tags
           /\ column_is_pii(res) <=> column_is_pii(col)
           /\ res.quality = IF column_is_pii(col) THEN {} ELSE col.quality
  BY DEF strip_quality_from_pii, column_is_pii, Column

\* The stages together. A not_pii decision in force takes the privacy block
\* away and nothing else does; the definition entry has the last word on the
\* tags, the guard on the quality rules.
LEMMA OverlaidColumn ==
    ASSUME NEW col \in Column,
           NEW decision \in PiiDecision \cup {None},
           NEW ruling \in [Rules -> RuleStatus],
           NEW entry \in DefinitionDecision \cup {None},
           NEW strip \in BOOLEAN
    PROVE  LET res == Reconciled(col, decision, ruling, entry, strip)
               ruled == decision # None /\ decision.life = "active"
               tagged == /\ entry # None /\ entry.life = "active"
                         /\ entry.tags # Omitted
           IN
           /\ res \in Column
           /\ res.type = col.type
           /\ ruled /\ decision.status = "not_pii" =>
                /\ res.privacy = "none"
                /\ ~tagged => res.tags \cap StrippedTags = {}
           /\ ruled /\ decision.status = "pii" =>
                /\ decision.payload.privacy # "none"
                      => res.privacy = decision.payload.privacy
                /\ decision.payload.tags # Omitted /\ ~tagged =>
                      /\ decision.payload.tags \subseteq res.tags
                      /\ decision.payload.replace
                            => res.tags = decision.payload.tags
           /\ col.privacy # "none" /\ ~(ruled /\ decision.status = "not_pii")
                => res.privacy # "none"
           /\ tagged => res.tags = entry.tags
           /\ \A r \in Rules :
                /\ ruling[r] = "suppressed" => r \notin res.quality
                /\ ruling[r] = "manual" /\ ~column_is_pii(res)
                      => r \in res.quality
           /\ strip /\ column_is_pii(res) => res.quality = {}
  <1> DEFINE p == reconcile_pii(col, decision)
             q == reconcile_quality(p, ruling)
             d == reconcile_definition(q, entry)
             res == Reconciled(col, decision, ruling, entry, strip)
  <1>1. /\ p \in Column
        /\ p.type = col.type
        /\ decision # None /\ decision.life = "active" =>
             /\ decision.status = "not_pii" =>
                   p.privacy = "none" /\ p.tags \cap StrippedTags = {}
             /\ decision.status = "pii" =>
                   /\ p.privacy = BlockOr(decision.payload.privacy, col.privacy)
                   /\ decision.payload.tags # Omitted =>
                         /\ decision.payload.tags \subseteq p.tags
                         /\ decision.payload.replace
                               => p.tags = decision.payload.tags
        /\ decision = None \/ decision.life = "stale" => p = col
    BY PiiStage
  <1>2. /\ q \in Column /\ q.type = p.type
        /\ q.privacy = p.privacy /\ q.tags = p.tags
        /\ \A r \in Rules :
             /\ ruling[r] = "suppressed" => r \notin q.quality
             /\ ruling[r] = "manual" => r \in q.quality
    BY <1>1, QualityStage
  <1>3. /\ d \in Column /\ d.type = q.type
        /\ d.privacy = q.privacy /\ d.quality = q.quality
        /\ entry = None \/ entry.life = "stale" \/ entry.tags = Omitted
             => d.tags = q.tags
        /\ entry # None /\ entry.life = "active" /\ entry.tags # Omitted
             => d.tags = entry.tags
    BY <1>2, DefinitionStage
  <1>4. /\ res \in Column /\ res.type = d.type
        /\ res.privacy = d.privacy /\ res.tags = d.tags
        /\ column_is_pii(res) <=> column_is_pii(d)
        /\ res.quality = IF strip /\ column_is_pii(d) THEN {} ELSE d.quality
    BY <1>3, GuardStage DEF Reconciled
  <1>5. decision # None => decision.life \in Life /\ decision.status \in {"pii", "not_pii"}
    BY DEF PiiDecision
  <1>6. entry # None => entry.life \in Life
    BY DEF DefinitionDecision
  <1> HIDE DEF p, q, d, res
  <1>7. QED
    BY <1>1, <1>2, <1>3, <1>4, <1>5, <1>6 DEF res, Life, BlockOr

\* In particular they yield a column of the same type.
LEMMA OverlaidType ==
    ASSUME NEW col \in Column,
           NEW decision \in PiiDecision \cup {None},
           NEW ruling \in [Rules -> RuleStatus],
           NEW entry \in DefinitionDecision \cup {None},
           NEW strip \in BOOLEAN
    PROVE  /\ Reconciled(col, decision, ruling, entry, strip) \in Column
           /\ Reconciled(col, decision, ruling, entry, strip).type = col.type
  BY OverlaidColumn

-----------------------------------------------------------------------------
(* The contract and its overlays. *)

\* Merging a partial yields a contract; it drops no column and no privacy
\* block.
LEMMA MergedContract ==
    ASSUME TypeOK, NEW partial \in Partial
    PROVE  /\ Merged(partial) \in Contract
           /\ \A c \in Columns : Has(c) =>
                /\ Merged(partial)[c] # None
                /\ active[c].privacy # "none"
                      => Merged(partial)[c].privacy # "none"
  <1>1. ASSUME NEW c \in Columns
        PROVE  /\ Merged(partial)[c] \in Column \cup {None}
               /\ Has(c) => /\ Merged(partial)[c] # None
                            /\ active[c].privacy # "none"
                                  => Merged(partial)[c].privacy # "none"
    <2>1. /\ Merged(partial)[c] = IF partial[c] = None
                THEN IF active = None THEN None ELSE active[c]
                ELSE IF Has(c) THEN merge_column(active[c], partial[c])
                               ELSE NewColumn(partial[c])
          /\ active # None => active[c] \in Column \cup {None}
          /\ partial[c] # None => partial[c] \in Fragment
      BY <1>1, ConstantsAssumption DEF Merged, TypeOK, Contract, Partial
    <2>2. CASE partial[c] = None
      BY <2>1, <2>2 DEF Has
    <2>3. CASE partial[c] # None /\ Has(c)
      <3>1. merge_column(active[c], partial[c]) \in Column
        BY <2>1, <2>3, MergeColumnType DEF Has
      <3>2. active[c].privacy # "none"
              => merge_column(active[c], partial[c]).privacy # "none"
        BY DEF merge_column, BlockOr
      <3> QED
        BY <2>1, <2>3, <3>1, <3>2, SentinelAssumption
    <2>4. CASE partial[c] # None /\ ~Has(c)
      BY <2>1, <2>4, NewColumnType
    <2> QED
      BY <2>2, <2>3, <2>4
  <1>2. Merged(partial) = [c \in Columns |-> Merged(partial)[c]]
    BY DEF Merged
  <1> QED
    BY <1>1, <1>2 DEF Contract

\* Drift makes entries stale and changes nothing else, and an entry it leaves
\* in force was in force and matches its column.
LEMMA DriftedOverlay ==
    ASSUME NEW Entry \in {PiiDecision, DefinitionDecision, FieldDecision},
           NEW overlay \in [Columns -> Entry \cup {None}],
           NEW cols \in Contract
    PROVE  /\ Drifted(overlay, cols) \in [Columns -> Entry \cup {None}]
           /\ \A c \in Columns :
                LET res == Drifted(overlay, cols)[c] IN
                /\ res = None <=> overlay[c] = None
                /\ res # None /\ res.life = "active" =>
                      /\ res = overlay[c]
                      /\ cols[c] # None => res.fp = FingerprintOf(cols[c])
  <1>1. ASSUME NEW c \in Columns
        PROVE  LET res == Drifted(overlay, cols)[c] IN
               /\ res \in Entry \cup {None}
               /\ res = None <=> overlay[c] = None
               /\ res # None /\ res.life = "active" =>
                     /\ res = overlay[c]
                     /\ cols[c] # None => res.fp = FingerprintOf(cols[c])
    <2>1. Drifted(overlay, cols)[c] =
            IF /\ overlay[c] # None
               /\ overlay[c].life = "active"
               /\ cols[c] # None
               /\ overlay[c].fp # FingerprintOf(cols[c])
            THEN [overlay[c] EXCEPT !.life = "stale"]
            ELSE overlay[c]
      BY DEF Drifted
    <2>2. overlay[c] # None =>
            /\ [overlay[c] EXCEPT !.life = "stale"] \in Entry
            /\ [overlay[c] EXCEPT !.life = "stale"].life = "stale"
      BY DEF PiiDecision, DefinitionDecision, FieldDecision, Life
    <2>3. None \notin Entry
      BY SentinelAssumption
    <2> QED
      BY <2>1, <2>2, <2>3
  <1>2. Drifted(overlay, cols) = [c \in Columns |-> Drifted(overlay, cols)[c]]
    BY DEF Drifted
  <1> QED
    BY <1>1, <1>2

-----------------------------------------------------------------------------
(* One Write, on overlays that name only columns there are, establishes every *)
(* part of the invariant whatever the contract and the overlays were before:  *)
(* this is why any workflow may write the contract.                           *)

\* A step that writes the contract, on overlays that fit it.
WriteStep ==
    \E partial \in Partial, strip \in BOOLEAN,
       ds \in Decisions, qs \in Rulings, fs \in Definitions :
        /\ NamesColumns(ds)
        /\ NamesColumns(fs)
        /\ Write(partial, strip, ds, qs, fs)

\* One that takes no PII decision.
PlainWrite ==
    \E partial \in Partial, strip \in BOOLEAN,
       qs \in Rulings, fs \in Definitions :
        /\ NamesColumns(fs)
        /\ Write(partial, strip, decisions, qs, fs)

\* The invariant: each property holds because the others do, above all
\* OverlaysHaveColumns (no drift is missed) and AuthorityMatchesType (a PII
\* and a definition entry of one column go stale together).
IInv ==
    /\ TypeOK
    /\ OverlaysHaveColumns
    /\ AuthorityMatchesType
    /\ DemotedColumnsAreStripped
    /\ PromotedColumnsAreMarked
    /\ SuppressedRulesAbsent
    /\ ManualRulesPresent
    /\ StewardTagsAuthoritative

\* A write on typed overlays establishes the invariant, conjunct by conjunct.
LEMMA WriteTyped ==
    ASSUME TypeOK,
           NEW partial \in Partial, NEW strip \in BOOLEAN,
           NEW ds \in Decisions, NEW qs \in Rulings, NEW fs \in Definitions,
           NamesColumns(ds), NamesColumns(fs),
           Write(partial, strip, ds, qs, fs)
    PROVE  IInv' /\ active' # None
  <1> DEFINE cols == Merged(partial)
  <1>1. /\ cols \in Contract
        /\ \A c \in Columns : Has(c) => cols[c] # None
    BY MergedContract
  <1>2. /\ decisions' \in Decisions
        /\ \A c \in Columns :
             /\ decisions'[c] = None <=> ds[c] = None
             /\ decisions'[c] # None /\ decisions'[c].life = "active" /\ cols[c] # None
                  => decisions'[c].fp = FingerprintOf(cols[c])
    BY <1>1, DriftedOverlay DEF Write, MarkDrift, Decisions
  <1>3. /\ defs' \in Definitions
        /\ \A c \in Columns :
             /\ defs'[c] = None <=> fs[c] = None
             /\ defs'[c] # None /\ defs'[c].life = "active" /\ cols[c] # None
                  => defs'[c].fp = FingerprintOf(cols[c])
    BY <1>1, DriftedOverlay DEF Write, MarkDrift, Definitions
  <1>4. fields' \in FieldDecisions
    BY <1>1, DriftedOverlay DEF Write, MarkDrift, FieldDecisions, TypeOK
  <1>5. /\ quality' = qs
        /\ reviews' \in [Columns -> ReviewStatus]
        /\ unapplied' = FALSE
    BY DEF Write, MarkDrift, TypeOK, ReviewStatus
  <1>6. /\ active' = [c \in Columns |-> active'[c]]
        /\ \A c \in Columns :
             active'[c] = IF cols[c] = None THEN None
                          ELSE Reconciled(cols[c], decisions'[c], quality'[c],
                                          defs'[c], strip)
    BY <1>5 DEF Write, MarkDrift
  <1>7. ASSUME NEW c \in Columns, cols[c] # None
        PROVE  LET ruled == decisions'[c] # None /\ decisions'[c].life = "active"
                   tagged == /\ defs'[c] # None /\ defs'[c].life = "active"
                             /\ defs'[c].tags # Omitted
               IN
               /\ active'[c] \in Column
               /\ active'[c].type = cols[c].type
               /\ ruled /\ decisions'[c].status = "not_pii" =>
                    /\ active'[c].privacy = "none"
                    /\ ~tagged => active'[c].tags \cap StrippedTags = {}
               /\ ruled /\ decisions'[c].status = "pii" =>
                    /\ decisions'[c].payload.privacy # "none"
                          => active'[c].privacy = decisions'[c].payload.privacy
                    /\ decisions'[c].payload.tags # Omitted /\ ~tagged =>
                          /\ decisions'[c].payload.tags \subseteq active'[c].tags
                          /\ decisions'[c].payload.replace
                                => active'[c].tags = decisions'[c].payload.tags
               /\ tagged => active'[c].tags = defs'[c].tags
               /\ \A r \in Rules :
                    /\ quality'[c][r] = "suppressed" => r \notin active'[c].quality
                    /\ quality'[c][r] = "manual" /\ ~column_is_pii(active'[c])
                          => r \in active'[c].quality
    <2>1. /\ cols[c] \in Column
          /\ decisions'[c] \in PiiDecision \cup {None}
          /\ quality'[c] \in [Rules -> RuleStatus]
          /\ defs'[c] \in DefinitionDecision \cup {None}
      BY <1>1, <1>2, <1>3, <1>5, <1>7 DEF Contract, Decisions, Definitions, Rulings
    <2>2. active'[c] = Reconciled(cols[c], decisions'[c], quality'[c], defs'[c], strip)
      BY <1>6, <1>7
    <2> HIDE DEF cols
    <2> QED
      BY <2>1, <2>2, OverlaidColumn, SMTT(20)
  <1>8. active' \in Contract /\ active' # None
    BY <1>6, <1>7, SentinelAssumption DEF Contract
  <1>9. \A c \in Columns : active'[c] # None <=> cols[c] # None
    BY <1>6, <1>7, SentinelAssumption
  <1>10. \A c \in Columns : decisions'[c] # None \/ defs'[c] # None => cols[c] # None
    BY <1>1, <1>2, <1>3 DEF NamesColumns
  <1> HIDE DEF cols
  <1>11. TypeOK'
    BY <1>2, <1>3, <1>4, <1>5, <1>8
       DEF TypeOK, Decisions, Definitions, FieldDecisions, Rulings
  <1>12. OverlaysHaveColumns'
    BY <1>8, <1>9, <1>10 DEF OverlaysHaveColumns, Has
  <1>13. AuthorityMatchesType'
    BY <1>2, <1>3, <1>7, <1>10 DEF AuthorityMatchesType, FingerprintOf
  <1>14. DemotedColumnsAreStripped'
    BY <1>7, <1>10 DEF DemotedColumnsAreStripped, InForce, TagsInForce
  <1>15. PromotedColumnsAreMarked'
    BY <1>7, <1>10 DEF PromotedColumnsAreMarked, InForce, TagsInForce
  <1>16. SuppressedRulesAbsent'
    BY <1>7, <1>9 DEF SuppressedRulesAbsent, Has
  <1>17. ManualRulesPresent'
    BY <1>7, <1>9 DEF ManualRulesPresent, Has
  <1>18. StewardTagsAuthoritative'
    BY <1>7, <1>10 DEF StewardTagsAuthoritative, TagsInForce
  <1> QED
    BY <1>8, <1>11, <1>12, <1>13, <1>14, <1>15, <1>16, <1>17, <1>18 DEF IInv

\* So any step that writes does.
LEMMA WriteEstablishes ==
    ASSUME TypeOK, WriteStep
    PROVE  IInv'
  BY WriteTyped DEF WriteStep

-----------------------------------------------------------------------------
(* The calls that write. *)

\* The overlays as they are may be written.
LEMMA OverlaysFit ==
    ASSUME IInv
    PROVE  /\ decisions \in Decisions /\ NamesColumns(decisions)
           /\ quality \in Rulings
           /\ defs \in Definitions /\ NamesColumns(defs)
  BY DEF IInv, TypeOK, OverlaysHaveColumns, NamesColumns, Decisions, Rulings,
         Definitions

\* The partial of the calls that re-upsert the contract onto itself.
LEMMA NoFragmentsPartial == NoFragments \in Partial
  BY DEF NoFragments, Partial

\* A plain write is a write.
LEMMA PlainWriteWrites ==
    ASSUME IInv, PlainWrite
    PROVE  WriteStep
  BY OverlaysFit DEF PlainWrite, WriteStep

\* A workflow's upsert is a plain write.
LEMMA UpsertWrites ==
    ASSUME IInv, Upsert
    PROVE  PlainWrite
  BY OverlaysFit DEF Upsert, upsert, PlainWrite

\* A decision is a write: it names the column it is taken on, which is there.
LEMMA DecisionWrites ==
    ASSUME IInv,
           NEW c \in Columns, NEW status \in {"pii", "not_pii"},
           NEW payload \in Payload, NEW fp \in GivenFps \cup {Omitted},
           set_pii_decision(c, status, payload, fp)
    PROVE  WriteStep
  <1> DEFINE decision == [status |-> status, payload |-> payload,
                          fp |-> GivenOr(fp, FingerprintOf(active[c])),
                          life |-> "active"]
             ds == [decisions EXCEPT ![c] = decision]
  <1>1. /\ Has(c)
        /\ Write(NoFragments, FALSE, ds, quality, defs)
    BY DEF set_pii_decision
  <1>2. active[c] \in Column
    BY <1>1 DEF IInv, TypeOK, Has, Contract
  <1>3. decision \in PiiDecision
    BY <1>2 DEF PiiDecision, Life, Fps, GivenOr, FingerprintOf, Column
  <1>4. ds \in Decisions /\ NamesColumns(ds)
    BY <1>1, <1>3, OverlaysFit DEF Decisions, NamesColumns
  <1> HIDE DEF ds
  <1> QED
    BY <1>1, <1>4, OverlaysFit, NoFragmentsPartial DEF WriteStep

\* Both kinds of decision carry payloads of the right type.
LEMMA RulingWrites ==
    ASSUME IInv, Promote \/ Demote
    PROVE  WriteStep
  <1>1. CASE Promote
    BY <1>1, DecisionWrites, ConstantsAssumption DEF Promote
  <1>2. CASE Demote
    <2>1. NoPayload \in Payload
      BY DEF NoPayload, Payload, Privacy
    <2> QED
      BY <1>2, <2>1, DecisionWrites DEF Demote
  <1> QED
    BY <1>1, <1>2

\* A quality call saved a ruling and found no contract to write.
QualitySavedOnly ==
    /\ active = None
    /\ quality' \in Rulings
    /\ unapplied' = TRUE
    /\ UNCHANGED <<active, decisions, defs, fields, reviews>>

\* Every quality call saves well-typed rulings, and writes the contract if
\* there is one.
LEMMA EditQualityWrites ==
    ASSUME IInv, EditQuality
    PROVE  PlainWrite \/ QualitySavedOnly
  <1>1. ASSUME NEW qs \in Rulings, ReapplyQuality(qs)
        PROVE  PlainWrite \/ QualitySavedOnly
    <2>1. CASE active # None /\ Write(NoFragments, FALSE, decisions, qs, defs)
      BY <2>1, OverlaysFit, NoFragmentsPartial DEF PlainWrite
    <2>2. CASE /\ active = None
               /\ quality' = qs
               /\ unapplied' = TRUE
               /\ UNCHANGED <<active, decisions, defs, fields, reviews>>
      BY <2>2 DEF QualitySavedOnly
    <2> QED
      BY <1>1, <2>1, <2>2 DEF ReapplyQuality
  <1>2. quality \in Rulings
    BY OverlaysFit
  <1>3. ASSUME NEW c \in Columns, NEW r \in Rules, NEW status \in RuleStatus
        PROVE  [quality EXCEPT ![c][r] = status] \in Rulings
    BY <1>2 DEF Rulings
  <1>4. ASSUME NEW c \in Columns, NEW r \in Rules,
               suppress_quality_rule(c, r) \/ restore_quality_rule(c, r)
        PROVE  PlainWrite \/ QualitySavedOnly
    BY <1>1, <1>3, <1>4
       DEF suppress_quality_rule, restore_quality_rule, RuleStatus
  <1>5. ASSUME NEW c \in Columns, NEW r \in Rules,
               NEW source \in Rules \cup {Omitted},
               add_manual_quality_rule(c, r, source)
        PROVE  PlainWrite \/ QualitySavedOnly
    <2> DEFINE qs == [quality EXCEPT ![c] =
                        [s \in Rules |-> IF s = r THEN "manual"
                             ELSE IF s = source THEN "suppressed" ELSE @[s]]]
    <2>1. qs \in Rulings
      BY <1>2 DEF Rulings, RuleStatus
    <2> QED
      BY <1>1, <1>5, <2>1 DEF add_manual_quality_rule
  <1>6. CASE suppress_all_quality_rules
    <2> DEFINE qs == [d \in Columns |-> [r \in Rules |->
                        IF Has(d) /\ r \in active[d].quality THEN "suppressed"
                        ELSE quality[d][r]]]
    <2>1. qs \in Rulings
      BY <1>2 DEF Rulings, RuleStatus
    <2> QED
      BY <1>1, <1>6, <2>1 DEF suppress_all_quality_rules
  <1> QED
    BY <1>4, <1>5, <1>6 DEF EditQuality

\* A patched entry names a column of the contract and matches its type.
LEMMA PatchedOverlay ==
    ASSUME IInv, NEW c \in Columns, NEW tags \in TagPatches, Has(c)
    PROVE  /\ [defs EXCEPT ![c] = PatchedEntry(c, tags)] \in Definitions
           /\ NamesColumns([defs EXCEPT ![c] = PatchedEntry(c, tags)])
  <1>1. active[c] \in Column
    BY DEF IInv, TypeOK, Has, Contract
  <1>2. tags \in (SUBSET Tags) \cup {Omitted}
    BY ConstantsAssumption
  <1>3. defs[c] # None => defs[c].tags \in (SUBSET Tags) \cup {Omitted}
    BY DEF IInv, TypeOK, DefinitionDecision
  <1>4. PatchedEntry(c, tags) \in DefinitionDecision
    BY <1>1, <1>2, <1>3
       DEF PatchedEntry, DefinitionDecision, Life, Fps, FingerprintOf, Column
  <1> QED
    BY <1>4, OverlaysFit DEF Definitions, NamesColumns

\* A patch that does not raise is a plain write.
LEMMA PatchWrites ==
    ASSUME IInv, NEW c \in Columns, NEW tags \in TagPatches,
           patch_definitions(c, tags)
    PROVE  PlainWrite
  <1> DEFINE fs == [defs EXCEPT ![c] = PatchedEntry(c, tags)]
  <1>1. /\ Has(c)
        /\ Write(NoFragments, FALSE, decisions, quality, fs)
    BY DEF patch_definitions
  <1>2. fs \in Definitions /\ NamesColumns(fs)
    BY <1>1, PatchedOverlay
  <1> HIDE DEF fs
  <1> QED
    BY <1>1, <1>2, OverlaysFit, NoFragmentsPartial DEF PlainWrite

\* The active contract changes by a write, or it disappears.
LEMMA OnlyWritesChangeActive ==
    ASSUME IInv, [Next]_vars, active' # active
    PROVE  WriteStep \/ (purge /\ active' = None)
  <1>1. CASE Upsert
    BY <1>1, UpsertWrites, PlainWriteWrites
  <1>2. CASE Promote \/ Demote
    BY <1>2, RulingWrites
  <1>3. CASE EditQuality
    BY <1>3, EditQualityWrites, PlainWriteWrites DEF QualitySavedOnly
  <1>4. CASE EditDefinitions
    BY <1>4, PatchWrites, PlainWriteWrites DEF EditDefinitions, PatchDefinitionsRaises
  <1>5. CASE purge
    BY <1>5 DEF purge
  <1>6. CASE RejectUpsert \/ Clear \/ Review \/ UNCHANGED vars
    BY <1>6 DEF RejectUpsert, UpsertRejected, Clear, clear_pii_decision, Review,
                RecordFieldDecision, Checkpoint, vars
  <1> QED
    BY <1>1, <1>2, <1>3, <1>4, <1>5, <1>6 DEF Next

-----------------------------------------------------------------------------
(* The calls that write no contract. *)

\* Rulings on rules concern no column where there is no contract: saving them
\* disturbs nothing.
LEMMA QualitySavedKeeps ==
    ASSUME IInv, QualitySavedOnly
    PROVE  IInv'
  <1>1. TypeOK'
    BY DEF QualitySavedOnly, IInv, TypeOK, Rulings
  <1>2. \A c \in Columns : decisions'[c] = None /\ defs'[c] = None
    BY DEF QualitySavedOnly, IInv, OverlaysHaveColumns, Has
  <1> QED
    BY <1>1, <1>2
       DEF QualitySavedOnly, IInv, OverlaysHaveColumns, AuthorityMatchesType,
           DemotedColumnsAreStripped, PromotedColumnsAreMarked,
           SuppressedRulesAbsent, ManualRulesPresent, StewardTagsAuthoritative,
           InForce, TagsInForce

\* A patch that raises has saved its entry and not applied it: only what the
\* entry says about the type of its column counts until the next write.
LEMMA PatchRaisesKeeps ==
    ASSUME IInv, NEW c \in Columns, NEW tags \in TagPatches,
           PatchDefinitionsRaises(c, tags)
    PROVE  IInv'
  <1> DEFINE entry == PatchedEntry(c, tags)
  <1>1. /\ Has(c)
        /\ defs' = [defs EXCEPT ![c] = entry]
        /\ unapplied' = TRUE
        /\ UNCHANGED <<active, decisions, quality, fields, reviews>>
    BY DEF PatchDefinitionsRaises
  <1>2. defs' \in Definitions /\ NamesColumns(defs')
    BY <1>1, PatchedOverlay
  <1>3. entry.fp = FingerprintOf(active[c])
    BY DEF PatchedEntry
  <1> HIDE DEF entry
  <1>4. TypeOK'
    BY <1>1, <1>2 DEF IInv, TypeOK, Definitions
  <1>5. OverlaysHaveColumns'
    BY <1>1, <1>2 DEF IInv, OverlaysHaveColumns, NamesColumns, Has
  <1>6. AuthorityMatchesType'
    BY <1>1, <1>3 DEF IInv, TypeOK, AuthorityMatchesType, FingerprintOf
  <1>7. DemotedColumnsAreStripped' /\ PromotedColumnsAreMarked'
    BY <1>1 DEF IInv, DemotedColumnsAreStripped, PromotedColumnsAreMarked,
                InForce
  <1>8. SuppressedRulesAbsent' /\ ManualRulesPresent' /\ StewardTagsAuthoritative'
    BY <1>1 DEF SuppressedRulesAbsent, ManualRulesPresent,
                StewardTagsAuthoritative
  <1> QED
    BY <1>4, <1>5, <1>6, <1>7, <1>8 DEF IInv

\* A refused write leaves the contract and makes decisions stale. A PII and a
\* definition entry in force on one column have the same fingerprint, so both
\* go or both stay, and no PII decision outlives the tags it was waived for.
LEMMA RejectUpsertKeeps ==
    ASSUME IInv, RejectUpsert
    PROVE  IInv'
  <1>1. PICK partial \in Partial : UpsertRejected(partial)
    BY DEF RejectUpsert
  <1> DEFINE cols == Merged(partial)
  <1>2. cols \in Contract
    BY MergedContract DEF IInv
  <1>3. /\ decisions' = Drifted(decisions, cols)
        /\ defs' = Drifted(defs, cols)
        /\ fields' = Drifted(fields, cols)
        /\ reviews' \in [Columns -> ReviewStatus]
        /\ UNCHANGED <<active, quality, unapplied>>
    BY <1>1 DEF UpsertRejected, MarkDrift, IInv, TypeOK, ReviewStatus
  <1> HIDE DEF cols
  <1>4. /\ decisions' \in Decisions
        /\ \A c \in Columns :
             /\ decisions'[c] = None <=> decisions[c] = None
             /\ decisions'[c] # None /\ decisions'[c].life = "active"
                  => decisions'[c] = decisions[c]
    BY <1>2, <1>3, DriftedOverlay, OverlaysFit DEF Decisions
  <1>5. /\ defs' \in Definitions
        /\ \A c \in Columns :
             /\ defs'[c] = None <=> defs[c] = None
             /\ defs'[c] # None /\ defs'[c].life = "active" => defs'[c] = defs[c]
    BY <1>2, <1>3, DriftedOverlay, OverlaysFit DEF Definitions
  <1>6. fields' \in FieldDecisions
    BY <1>2, <1>3, DriftedOverlay DEF IInv, TypeOK, FieldDecisions
  <1>7. ASSUME NEW c \in Columns,
               decisions'[c] # None, decisions'[c].life = "active", TagsInForce(c)
        PROVE  TagsInForce(c)'
    <2>1. /\ decisions[c] # None /\ decisions[c].life = "active"
          /\ decisions'[c].fp = FingerprintOf(active[c])
      BY <1>4, <1>7 DEF IInv, AuthorityMatchesType
    <2>2. defs[c].fp = decisions[c].fp
      BY <1>7, <2>1 DEF IInv, AuthorityMatchesType, TagsInForce
    <2>3. decisions[c] \in PiiDecision /\ defs[c] \in DefinitionDecision
      BY <1>7, <2>1 DEF IInv, TypeOK, TagsInForce
    <2>4. ~(cols[c] # None /\ decisions[c].fp # FingerprintOf(cols[c]))
      <3>1. SUFFICES ASSUME cols[c] # None, decisions[c].fp # FingerprintOf(cols[c])
                     PROVE  decisions'[c].life = "stale"
        BY <1>7
      <3> QED
        BY <1>3, <2>1, <2>3, <3>1 DEF Drifted, PiiDecision
    <2>5. defs'[c] = defs[c]
      BY <1>3, <2>2, <2>4 DEF Drifted
    <2> QED
      BY <1>7, <2>5 DEF TagsInForce
  <1>8. TypeOK'
    BY <1>3, <1>4, <1>5, <1>6
       DEF IInv, TypeOK, Decisions, Definitions, FieldDecisions
  <1>9. OverlaysHaveColumns'
    BY <1>3, <1>4, <1>5 DEF IInv, OverlaysHaveColumns, Has
  <1>10. AuthorityMatchesType'
    BY <1>3, <1>4, <1>5 DEF IInv, AuthorityMatchesType, FingerprintOf
  <1>11. DemotedColumnsAreStripped'
    BY <1>3, <1>4, <1>7 DEF IInv, DemotedColumnsAreStripped, InForce
  <1>12. PromotedColumnsAreMarked'
    BY <1>3, <1>4, <1>7 DEF IInv, PromotedColumnsAreMarked, InForce
  <1>13. SuppressedRulesAbsent' /\ ManualRulesPresent'
    BY <1>3 DEF IInv, SuppressedRulesAbsent, ManualRulesPresent, Has
  <1>14. StewardTagsAuthoritative'
    BY <1>3, <1>5 DEF IInv, StewardTagsAuthoritative, TagsInForce
  <1> QED
    BY <1>8, <1>9, <1>10, <1>11, <1>12, <1>13, <1>14 DEF IInv

\* Withdrawing a decision only takes obligations away.
LEMMA ClearKeeps ==
    ASSUME IInv, Clear
    PROVE  IInv'
  <1>1. PICK c \in Columns : clear_pii_decision(c)
    BY DEF Clear
  <1>2. /\ decisions' = [decisions EXCEPT ![c] = None]
        /\ UNCHANGED <<active, quality, defs, fields, reviews, unapplied>>
    BY <1>1 DEF clear_pii_decision
  <1>3. TypeOK'
    BY <1>2 DEF IInv, TypeOK
  <1>4. \A d \in Columns : decisions'[d] # None => decisions'[d] = decisions[d]
    BY <1>2 DEF IInv, TypeOK
  <1> QED
    BY <1>2, <1>3, <1>4
       DEF IInv, OverlaysHaveColumns, AuthorityMatchesType,
           DemotedColumnsAreStripped, PromotedColumnsAreMarked,
           SuppressedRulesAbsent, ManualRulesPresent, StewardTagsAuthoritative,
           InForce, TagsInForce, Has, FingerprintOf

\* Reviews and field decisions have no part in what the contract holds.
LEMMA ReviewKeeps ==
    ASSUME IInv, Review
    PROVE  IInv'
  <1>1. UNCHANGED <<active, decisions, quality, defs, unapplied>>
    BY DEF Review, RecordFieldDecision, Checkpoint
  <1>2. fields' \in FieldDecisions
    <2>1. CASE \E c \in Columns : RecordFieldDecision(c)
      <3>1. PICK c \in Columns : RecordFieldDecision(c)
        BY <2>1
      <3>2. Has(c) => active[c] \in Column
        BY DEF IInv, TypeOK, Has, Contract
      <3>3. (IF Has(c) THEN FingerprintOf(active[c]) ELSE DefaultType) \in Fps
        BY <3>2, ConstantsAssumption DEF FingerprintOf, Column, Fps
      <3> QED
        BY <3>1, <3>3 DEF RecordFieldDecision, FieldDecisions, FieldDecision,
                          Life, IInv, TypeOK
    <2>2. CASE \E c \in Columns, status \in ReviewStatus : Checkpoint(c, status)
      BY <2>2 DEF Checkpoint, IInv, TypeOK, FieldDecisions
    <2> QED
      BY <2>1, <2>2 DEF Review
  <1>3. reviews' \in [Columns -> ReviewStatus]
    BY DEF Review, RecordFieldDecision, Checkpoint, IInv, TypeOK
  <1> QED
    BY <1>1, <1>2, <1>3
       DEF IInv, TypeOK, FieldDecisions, OverlaysHaveColumns,
           AuthorityMatchesType, DemotedColumnsAreStripped,
           PromotedColumnsAreMarked, SuppressedRulesAbsent, ManualRulesPresent,
           StewardTagsAuthoritative, InForce, TagsInForce, Has, FingerprintOf

\* A state without a contract and without PII and definition entries.
LEMMA EmptyKeeps ==
    ASSUME TypeOK,
           active = None,
           \A c \in Columns : decisions[c] = None /\ defs[c] = None
    PROVE  IInv
  BY DEF IInv, OverlaysHaveColumns, AuthorityMatchesType,
         DemotedColumnsAreStripped, PromotedColumnsAreMarked,
         SuppressedRulesAbsent, ManualRulesPresent, StewardTagsAuthoritative,
         InForce, TagsInForce

\* A purge leaves an empty contract and empty overlays.
LEMMA PurgeKeeps ==
    ASSUME IInv, purge
    PROVE  IInv'
  <1>1. TypeOK'
    BY DEF IInv, TypeOK, purge, RuleStatus
  <1>2. /\ active' = None
        /\ \A c \in Columns : decisions'[c] = None /\ defs'[c] = None
    BY DEF purge
  <1> QED
    BY <1>1, <1>2
       DEF IInv, OverlaysHaveColumns, AuthorityMatchesType,
           DemotedColumnsAreStripped, PromotedColumnsAreMarked,
           SuppressedRulesAbsent, ManualRulesPresent, StewardTagsAuthoritative,
           InForce, TagsInForce

-----------------------------------------------------------------------------
(* The theorems. *)

\* IInv holds at the start and every call keeps it.
THEOREM Inductive == Spec => []IInv
  <1>1. Init => IInv
    <2> SUFFICES ASSUME Init PROVE IInv
      OBVIOUS
    <2>1. TypeOK
      BY DEF Init, TypeOK, RuleStatus, ReviewStatus
    <2> QED
      BY <2>1, EmptyKeeps DEF Init
  <1>2. IInv /\ [Next]_vars => IInv'
    <2> SUFFICES ASSUME IInv, [Next]_vars PROVE IInv'
      OBVIOUS
    <2> TypeOK
      BY DEF IInv
    <2>1. CASE Upsert
      BY <2>1, UpsertWrites, PlainWriteWrites, WriteEstablishes
    <2>2. CASE RejectUpsert
      BY <2>2, RejectUpsertKeeps
    <2>3. CASE Promote
      BY <2>3, RulingWrites, WriteEstablishes
    <2>4. CASE Demote
      BY <2>4, RulingWrites, WriteEstablishes
    <2>5. CASE Clear
      BY <2>5, ClearKeeps
    <2>6. CASE EditQuality
      BY <2>6, EditQualityWrites, PlainWriteWrites, WriteEstablishes,
         QualitySavedKeeps
    <2>7. CASE EditDefinitions
      BY <2>7, PatchWrites, PlainWriteWrites, WriteEstablishes,
         PatchRaisesKeeps DEF EditDefinitions
    <2>8. CASE Review
      BY <2>8, ReviewKeeps
    <2>9. CASE purge
      BY <2>9, PurgeKeeps
    <2>10. CASE UNCHANGED vars
      BY <2>10
         DEF vars, IInv, TypeOK, OverlaysHaveColumns, AuthorityMatchesType,
             DemotedColumnsAreStripped, PromotedColumnsAreMarked,
             SuppressedRulesAbsent, ManualRulesPresent,
             StewardTagsAuthoritative, InForce, TagsInForce, Has, FingerprintOf
    <2> QED
      BY <2>1, <2>2, <2>3, <2>4, <2>5, <2>6, <2>7, <2>8, <2>9, <2>10 DEF Next
  <1> QED
    BY <1>1, <1>2, PTL DEF Spec

\* The variables keep their types.
THEOREM TypeCorrect == Spec => []TypeOK
  <1>1. IInv => TypeOK
    BY DEF IInv
  <1> QED
    BY <1>1, Inductive, PTL

\* No PII or definition entry outlives its column.
THEOREM OverlaysNameColumns == Spec => []OverlaysHaveColumns
  <1>1. IInv => OverlaysHaveColumns
    BY DEF IInv
  <1> QED
    BY <1>1, Inductive, PTL

\* A decision in force was taken on the type its column has.
THEOREM AuthorityIsCurrent == Spec => []AuthorityMatchesType
  <1>1. IInv => AuthorityMatchesType
    BY DEF IInv
  <1> QED
    BY <1>1, Inductive, PTL

\* Under a not_pii decision in force a column stays stripped.
THEOREM DemotionsAreEnforced == Spec => []DemotedColumnsAreStripped
  <1>1. IInv => DemotedColumnsAreStripped
    BY DEF IInv
  <1> QED
    BY <1>1, Inductive, PTL

\* Under a pii decision in force a column carries the payload.
THEOREM PromotionsAreEnforced == Spec => []PromotedColumnsAreMarked
  <1>1. IInv => PromotedColumnsAreMarked
    BY DEF IInv
  <1> QED
    BY <1>1, Inductive, PTL

\* No workflow brings a suppressed quality rule back.
THEOREM SuppressionsAreEnforced == Spec => []SuppressedRulesAbsent
  <1>1. IInv => SuppressedRulesAbsent
    BY DEF IInv
  <1> QED
    BY <1>1, Inductive, PTL

\* Only the leak guard takes a manual quality rule away.
THEOREM ManualRulesAreKept == Spec => []ManualRulesPresent
  <1>1. IInv => ManualRulesPresent
    BY DEF IInv
  <1> QED
    BY <1>1, Inductive, PTL

\* The tags of a definition entry in force are the column's tags.
THEOREM StewardTagsAreKept == Spec => []StewardTagsAuthoritative
  <1>1. IInv => StewardTagsAuthoritative
    BY DEF IInv
  <1> QED
    BY <1>1, Inductive, PTL

-----------------------------------------------------------------------------
(* Action properties. *)

\* A write takes a privacy block only on a not_pii decision it leaves in
\* force, and it leaves every stale PII decision flagged.
LEMMA WriteAccounts ==
    ASSUME TypeOK,
           NEW partial \in Partial, NEW strip \in BOOLEAN,
           NEW ds \in Decisions, NEW qs \in Rulings, NEW fs \in Definitions,
           Write(partial, strip, ds, qs, fs),
           NEW c \in Columns
    PROVE  /\ IsMarked(c) /\ active' # None /\ ~IsMarked(c)' =>
                /\ decisions'[c] # None
                /\ decisions'[c].status = "not_pii"
                /\ decisions'[c].life = "active"
           /\ decisions'[c] # None /\ decisions'[c].life = "stale" =>
                reviews'[c] = "needs_review"
           /\ strip /\ active'[c] # None /\ column_is_pii(active'[c]) =>
                active'[c].quality = {}
  <1> DEFINE cols == Merged(partial)
  <1>1. /\ cols \in Contract
        /\ Has(c) => /\ cols[c] # None
                     /\ active[c].privacy # "none" => cols[c].privacy # "none"
    BY MergedContract
  <1>2. /\ decisions' = Drifted(ds, cols)
        /\ decisions' \in Decisions
        /\ Drifted(fs, cols) \in Definitions
    BY <1>1, DriftedOverlay DEF Write, MarkDrift, Decisions, Definitions
  <1>3. active'[c] = IF cols[c] = None THEN None
                     ELSE Reconciled(cols[c], decisions'[c], qs[c],
                                     Drifted(fs, cols)[c], strip)
    BY <1>2 DEF Write
  <1>4. /\ decisions'[c] \in PiiDecision \cup {None}
        /\ Drifted(fs, cols)[c] \in DefinitionDecision \cup {None}
        /\ qs[c] \in [Rules -> RuleStatus]
        /\ cols[c] # None => cols[c] \in Column
    BY <1>1, <1>2 DEF Decisions, Definitions, Rulings, Contract
  <1>5. decisions'[c] # None /\ decisions'[c].life = "stale" =>
            reviews'[c] = "needs_review"
    BY <1>2 DEF Write, MarkDrift, Flagged
  <1> HIDE DEF cols
  <1>6. CASE cols[c] = None
    BY <1>1, <1>3, <1>5, <1>6 DEF IsMarked
  <1>7. CASE cols[c] # None
    <2>1. active'[c] \in Column
      BY <1>3, <1>4, <1>7, OverlaidType
    <2>2. active'[c] # None
      BY <2>1, SentinelAssumption
    <2> QED
      BY <1>1, <1>3, <1>4, <1>5, <1>7, <2>2, OverlaidColumn DEF IsMarked, Has
  <1> QED
    BY <1>6, <1>7

\* Whatever is merged, edited, refused or withdrawn, a column loses its
\* privacy block only by a not_pii decision in force, or a purge.
THEOREM DemotionsAreDecided == Spec => DemotionOnlyByDecision
  <1>1. IInv /\ [Next]_vars => DemotesByDecision
    <2> SUFFICES ASSUME IInv, [Next]_vars, NEW c \in Columns,
                        IsMarked(c), active' # None, ~IsMarked(c)'
                 PROVE  /\ decisions'[c] # None
                        /\ decisions'[c].status = "not_pii"
                        /\ decisions'[c].life = "active"
      BY DEF DemotesByDecision
    <2>1. WriteStep
      BY OnlyWritesChangeActive DEF IsMarked, Has
    <2> QED
      BY <2>1, WriteAccounts DEF WriteStep, IInv, IsMarked, Has
  <1> QED
    BY <1>1, Inductive, PTL DEF Spec, DemotionOnlyByDecision

\* A write that leaves a PII decision stale leaves its column in review.
THEOREM StaleDecisionsAreFlagged == Spec => StaleStaysFlagged
  <1>1. IInv /\ [Next]_vars => FlagsStale
    <2> SUFFICES ASSUME IInv, [Next]_vars, active' # active, NEW c \in Columns,
                        decisions'[c] # None, decisions'[c].life = "stale"
                 PROVE  reviews'[c] = "needs_review"
      BY DEF FlagsStale
    <2>1. WriteStep
      BY OnlyWritesChangeActive DEF purge
    <2> QED
      BY <2>1, WriteAccounts DEF WriteStep, IInv
  <1> QED
    BY <1>1, Inductive, PTL DEF Spec, StaleStaysFlagged

\* The leak guard of an automated write leaves no quality rule on a column
\* that is PII after all overlays.
THEOREM GuardHolds == Spec => AutomatedWriteLeaksNothing
  <1>1. IInv /\ [Next]_vars => LeaksNothing
    BY OverlaysFit, WriteAccounts DEF LeaksNothing, Leaks, upsert, IInv
  <1> QED
    BY <1>1, Inductive, PTL DEF Spec, AutomatedWriteLeaksNothing

\* A stale decision that no call replaces stays stale, or is withdrawn.
LEMMA DriftIsFinal ==
    ASSUME NEW ds \in Decisions, NEW cols \in Contract, NEW c \in Columns,
           ds[c] # None, ds[c].life = "stale"
    PROVE  Drifted(ds, cols)[c] = ds[c]
  BY DEF Drifted

\* Only a new decision on the column brings a stale one back to force.
THEOREM StaleIsFinal == Spec => StaleIsSticky
  <1>1. IInv /\ [Next]_vars => RevivesByDecision
    <2> SUFFICES ASSUME IInv, [Next]_vars, NEW c \in Columns,
                        decisions[c] # None, decisions[c].life = "stale",
                        decisions'[c] # None, decisions'[c].life = "active"
                 PROVE  \E status \in {"pii", "not_pii"},
                           payload \in Payloads \cup {NoPayload},
                           fp \in GivenFps \cup {Omitted} :
                             set_pii_decision(c, status, payload, fp)
      BY DEF RevivesByDecision
    <2>1. ASSUME NEW partial \in Partial
          PROVE  Drifted(decisions, Merged(partial))[c] = decisions[c]
      BY MergedContract, OverlaysFit, DriftIsFinal DEF IInv
    <2>2. ASSUME NEW d \in Columns, NEW status \in {"pii", "not_pii"},
                 NEW payload \in Payloads \cup {NoPayload},
                 NEW fp \in GivenFps \cup {Omitted},
                 set_pii_decision(d, status, payload, fp)
          PROVE  d = c
      <3> DEFINE decision == [status |-> status, payload |-> payload,
                              fp |-> GivenOr(fp, FingerprintOf(active[d])),
                              life |-> "active"]
                 ds == [decisions EXCEPT ![d] = decision]
      <3>1. decisions' = Drifted(ds, Merged(NoFragments))
        BY <2>2 DEF set_pii_decision, Write, MarkDrift
      <3>2. d # c => ds[c] = decisions[c]
        BY OverlaysFit DEF Decisions
      <3> HIDE DEF ds
      <3> QED
        BY <3>1, <3>2 DEF Drifted
    <2>3. CASE Promote \/ Demote
      BY <2>2, <2>3 DEF Promote, Demote
    <2>4. CASE Upsert \/ RejectUpsert
      BY <2>1, <2>4 DEF Upsert, upsert, Write, RejectUpsert, UpsertRejected,
                        MarkDrift
    <2>5. CASE EditQuality
      BY <2>1, <2>5, NoFragmentsPartial
         DEF EditQuality, suppress_quality_rule, restore_quality_rule,
             add_manual_quality_rule, suppress_all_quality_rules,
             ReapplyQuality, Write, MarkDrift
    <2>6. CASE EditDefinitions
      BY <2>1, <2>6, NoFragmentsPartial
         DEF EditDefinitions, patch_definitions, PatchDefinitionsRaises, Write,
             MarkDrift
    <2>7. CASE Clear
      BY <2>7, OverlaysFit DEF Clear, clear_pii_decision, Decisions
    <2>8. CASE Review \/ purge \/ UNCHANGED vars
      BY <2>8 DEF Review, RecordFieldDecision, Checkpoint, purge, vars
    <2> QED
      BY <2>3, <2>4, <2>5, <2>6, <2>7, <2>8 DEF Next
  <1> QED
    BY <1>1, Inductive, PTL DEF Spec, StaleIsSticky

-----------------------------------------------------------------------------
(* The refinement of PiiAuthority. *)

\* What RulingOf says, and when it speaks of a decision in force.
LEMMA RulingCases ==
    ASSUME NEW decision \in PiiDecision \cup {None}
    PROVE  /\ RulingOf(decision) \in {"none", "lapsed", "not_pii", "pii", "advisory"}
           /\ RulingOf(decision) \in {"not_pii", "pii", "advisory"}
                <=> decision # None /\ decision.life = "active"
           /\ RulingOf(decision) = "not_pii"
                <=> /\ decision # None /\ decision.life = "active"
                    /\ decision.status = "not_pii"
           /\ RulingOf(decision) = "pii"
                => /\ decision # None /\ decision.life = "active"
                   /\ decision.status = "pii"
                   /\ decision.payload.privacy # "none"
           /\ RulingOf(decision) = "lapsed"
                <=> decision # None /\ decision.life = "stale"
  BY DEF RulingOf, PiiDecision, Life

\* Drift lapses a ruling in force on another type, and changes no other.
LEMMA DriftLapses ==
    ASSUME NEW ds \in Decisions, NEW cols \in Contract, NEW c \in Columns
    PROVE  RulingOf(Drifted(ds, cols)[c]) =
             IF /\ ds[c] # None /\ ds[c].life = "active"
                /\ cols[c] # None /\ ds[c].fp # FingerprintOf(cols[c])
             THEN "lapsed" ELSE RulingOf(ds[c])
  <1>1. ds[c] \in PiiDecision \cup {None}
    BY DEF Decisions
  <1>2. ds[c] # None =>
          /\ [ds[c] EXCEPT !.life = "stale"] \in PiiDecision
          /\ [ds[c] EXCEPT !.life = "stale"].life = "stale"
    BY <1>1 DEF PiiDecision, Life
  <1> QED
    BY <1>1, <1>2, RulingCases, SentinelAssumption DEF Drifted

\* Re-upserting the contract onto itself merges nothing.
LEMMA SelfMerge ==
    ASSUME TypeOK, active # None
    PROVE  Merged(NoFragments) = active
  BY DEF TypeOK, Merged, NoFragments, Contract

\* A write keeps the columns, gives them the merged types, and settles the
\* marks as the rulings it leaves demand.
LEMMA WriteRefines ==
    ASSUME IInv,
           NEW partial \in Partial, NEW strip \in BOOLEAN,
           NEW ds \in Decisions, NEW qs \in Rulings, NEW fs \in Definitions,
           NamesColumns(ds), NamesColumns(fs),
           Write(partial, strip, ds, qs, fs)
    PROVE  /\ decisions' = Drifted(ds, Merged(partial))
           /\ \A c \in Columns :
                /\ TypeOf(c)' = IF Merged(partial)[c] = None THEN None
                                ELSE Merged(partial)[c].type
                /\ Has(c) => Merged(partial)[c] # None
           /\ Authority!Settled
  <1> DEFINE cols == Merged(partial)
  <1>1. IInv' /\ active' # None
    BY WriteTyped DEF IInv
  <1>2. /\ cols \in Contract
        /\ \A c \in Columns : Has(c) => cols[c] # None
    BY MergedContract DEF IInv
  <1>3. /\ decisions' = Drifted(ds, cols)
        /\ Drifted(fs, cols) \in Definitions
        /\ decisions' \in Decisions
    BY <1>1, <1>2, DriftedOverlay DEF Write, MarkDrift, Decisions, Definitions
  <1>4. /\ active' # None
        /\ \A c \in Columns :
             active'[c] = IF cols[c] = None THEN None
                          ELSE Reconciled(cols[c], decisions'[c], qs[c],
                                          Drifted(fs, cols)[c], strip)
    BY <1>1, <1>3 DEF Write
  <1> HIDE DEF cols
  <1>5. ASSUME NEW c \in Columns, cols[c] # None
        PROVE  active'[c] \in Column /\ active'[c].type = cols[c].type
    <2>1. /\ cols[c] \in Column
          /\ decisions'[c] \in PiiDecision \cup {None}
          /\ Drifted(fs, cols)[c] \in DefinitionDecision \cup {None}
          /\ qs[c] \in [Rules -> RuleStatus]
      BY <1>2, <1>3, <1>5 DEF Contract, Decisions, Definitions, Rulings
    <2> QED
      BY <1>4, <1>5, <2>1, OverlaidType
  <1>6. \A c \in Columns : TypeOf(c)' = IF cols[c] = None THEN None
                                         ELSE cols[c].type
    BY <1>4, <1>5, SentinelAssumption DEF TypeOf, Has
  <1>7. ASSUME NEW c \in Columns
        PROVE  /\ RulingOf(decisions[c])' = "not_pii" => ~IsMarked(c)'
               /\ RulingOf(decisions[c])' = "pii" => IsMarked(c)'
               /\ RulingOf(decisions[c])' # "not_pii" /\ IsMarked(c) => IsMarked(c)'
    <2>1. decisions'[c] \in PiiDecision \cup {None}
      BY <1>3 DEF Decisions
    <2>2. RulingOf(decisions[c])' = "not_pii" => ~IsMarked(c)'
      BY <1>1, <2>1, RulingCases
         DEF IInv, DemotedColumnsAreStripped, InForce, IsMarked
    <2>3. RulingOf(decisions[c])' = "pii" => IsMarked(c)'
      BY <1>1, <2>1, RulingCases
         DEF IInv, PromotedColumnsAreMarked, OverlaysHaveColumns, InForce,
             IsMarked
    <2>4. Has(c) => Has(c)'
      BY <1>2, <1>4, <1>5, SentinelAssumption DEF Has
    <2>5. RulingOf(decisions[c])' # "not_pii" /\ IsMarked(c) => IsMarked(c)'
      BY <1>1, <2>1, <2>4, RulingCases, WriteAccounts DEF IInv
    <2> QED
      BY <2>2, <2>3, <2>5
  <1>8. [c \in Columns |-> IsMarked(c)]' \in [Columns -> BOOLEAN]
    BY DEF IsMarked, Has
  <1>9. Authority!Settled
    BY <1>7, <1>8 DEF Authority!Settled
  <1> QED
    BY <1>2, <1>3, <1>6, <1>9 DEF cols

\* A decision in force lapses by drift exactly when the type changes, for it
\* was taken on the type there is.
LEMMA LapseOnTypeChange ==
    ASSUME IInv, NEW cols \in Contract, NEW c \in Columns,
           Has(c) => cols[c] # None
    PROVE  RulingOf(Drifted(decisions, cols)[c]) =
             IF /\ RulingOf(decisions[c]) \in {"not_pii", "pii", "advisory"}
                /\ (IF cols[c] = None THEN None ELSE cols[c].type) # TypeOf(c)
             THEN "lapsed" ELSE RulingOf(decisions[c])
  <1>1. decisions \in Decisions /\ decisions[c] \in PiiDecision \cup {None}
    BY OverlaysFit DEF Decisions
  <1>2. decisions[c] # None => Has(c)
    BY DEF IInv, OverlaysHaveColumns
  <1>3. decisions[c] # None /\ decisions[c].life = "active"
            => decisions[c].fp = active[c].type
    BY DEF IInv, AuthorityMatchesType, FingerprintOf
  <1> QED
    BY <1>1, <1>2, <1>3, RulingCases, DriftLapses DEF TypeOf, FingerprintOf

\* A plain write is a Write of the authority.
LEMMA PlainWriteRefines ==
    ASSUME IInv, PlainWrite
    PROVE  Authority!Write
  <1>0. PICK partial \in Partial, strip \in BOOLEAN,
             qs \in Rulings, fs \in Definitions :
               NamesColumns(fs) /\ Write(partial, strip, decisions, qs, fs)
    BY DEF PlainWrite
  <1> DEFINE cols == Merged(partial)
  <1>1. /\ decisions' = Drifted(decisions, cols)
        /\ \A c \in Columns :
             /\ TypeOf(c)' = IF cols[c] = None THEN None ELSE cols[c].type
             /\ Has(c) => cols[c] # None
        /\ Authority!Settled
    BY <1>0, OverlaysFit, WriteRefines
  <1>2. cols \in Contract
    BY MergedContract DEF IInv
  <1> HIDE DEF cols
  <1>3. \A c \in Columns : cols[c] # None => cols[c].type \in Types
    BY <1>2 DEF Contract, Column
  <1>4. \A c \in Columns : TypeOf(c)' \in Types \cup {None}
    BY <1>1, <1>3
  <1>5. \A c \in Columns : TypeOf(c)' = None => TypeOf(c) = None
    BY <1>1, <1>3, SentinelAssumption DEF TypeOf
  <1>6. \A c \in Columns :
          RulingOf(decisions[c])' =
             IF /\ RulingOf(decisions[c]) \in {"not_pii", "pii", "advisory"}
                /\ TypeOf(c)' # TypeOf(c)
             THEN "lapsed" ELSE RulingOf(decisions[c])
    BY <1>1, <1>2, LapseOnTypeChange
  <1> QED
    BY <1>1, <1>4, <1>5, <1>6
       DEF Authority!Write, Authority!Standing, Authority!Settling

\* A decision is a Decide: its column gets a ruling, and no other ruling moves
\* because no type does.
LEMMA DecisionRefines ==
    ASSUME IInv,
           NEW c \in Columns, NEW status \in {"pii", "not_pii"},
           NEW payload \in Payload, NEW fp \in GivenFps \cup {Omitted},
           set_pii_decision(c, status, payload, fp)
    PROVE  Authority!Decide
  <1> DEFINE decision == [status |-> status, payload |-> payload,
                          fp |-> GivenOr(fp, FingerprintOf(active[c])),
                          life |-> "active"]
             ds == [decisions EXCEPT ![c] = decision]
  <1>1. /\ Has(c)
        /\ Write(NoFragments, FALSE, ds, quality, defs)
    BY DEF set_pii_decision
  <1>2. active \in Contract /\ active[c] \in Column
    BY <1>1 DEF IInv, TypeOK, Has, Contract
  <1>3. decision \in PiiDecision
    BY <1>2 DEF PiiDecision, Life, Fps, GivenOr, FingerprintOf, Column
  <1>4. ds \in Decisions /\ NamesColumns(ds)
    BY <1>1, <1>3, OverlaysFit DEF Decisions, NamesColumns
  <1>5. /\ ds[c] = decision
        /\ \A d \in Columns \ {c} : ds[d] = decisions[d]
    BY OverlaysFit DEF Decisions
  <1> HIDE DEF decision, ds
  <1>6. Merged(NoFragments) = active
    BY <1>1, SelfMerge DEF IInv, Has
  <1>7. /\ decisions' = Drifted(ds, active)
        /\ \A d \in Columns :
             TypeOf(d)' = IF active[d] = None THEN None ELSE active[d].type
        /\ Authority!Settled
    BY <1>1, <1>4, <1>6, OverlaysFit, NoFragmentsPartial, WriteRefines
  <1>8. \A d \in Columns : TypeOf(d)' = TypeOf(d)
    BY <1>1, <1>7 DEF TypeOf, Has
  <1>9. ASSUME NEW d \in Columns \ {c}
        PROVE  RulingOf(decisions[d])' = RulingOf(decisions[d])
    <2>1. Drifted(ds, active)[d] = Drifted(decisions, active)[d]
      BY <1>5 DEF Drifted
    <2>2. Has(d) => active[d] # None
      BY DEF Has
    <2>3. TypeOf(d) = IF active[d] = None THEN None ELSE active[d].type
      BY <1>1 DEF TypeOf, Has
    <2> QED
      BY <1>2, <1>7, <2>1, <2>2, <2>3, LapseOnTypeChange
  <1>10. RulingOf(decisions[c])' \in {"not_pii", "pii", "advisory", "lapsed"}
    <2>1. ds[c] # None /\ ds[c] \in PiiDecision /\ ds[c].life = "active"
      BY <1>3, <1>5, SentinelAssumption DEF decision
    <2> QED
      BY <1>2, <1>4, <1>7, <2>1, DriftLapses, RulingCases
  <1>11. TypeOf(c) # None
    BY <1>1, <1>2, SentinelAssumption DEF TypeOf, Column
  <1> QED
    BY <1>7, <1>8, <1>9, <1>10, <1>11
       DEF Authority!Decide, Authority!Standing, Authority!Settling

\* A refused write may lapse rulings and does nothing else.
LEMMA RejectRefines ==
    ASSUME IInv, RejectUpsert
    PROVE  Authority!Refuse
  <1>1. PICK partial \in Partial : UpsertRejected(partial)
    BY DEF RejectUpsert
  <1> DEFINE cols == Merged(partial)
             S == {c \in Columns :
                    /\ RulingOf(decisions[c]) \in {"not_pii", "pii", "advisory"}
                    /\ (IF cols[c] = None THEN None ELSE cols[c].type) # TypeOf(c)}
  <1>2. /\ cols \in Contract
        /\ \A c \in Columns : Has(c) => cols[c] # None
    BY MergedContract DEF IInv
  <1>3. decisions' = Drifted(decisions, cols) /\ active' = active
    BY <1>1 DEF UpsertRejected, MarkDrift
  <1> HIDE DEF cols
  <1>4. [c \in Columns |-> RulingOf(decisions[c])]' =
          [c \in Columns |-> IF c \in S THEN "lapsed" ELSE RulingOf(decisions[c])]
    BY <1>2, <1>3, LapseOnTypeChange
  <1>5. S \in SUBSET {c \in Columns :
                        RulingOf(decisions[c]) \in {"not_pii", "pii", "advisory"}}
    OBVIOUS
  <1>6. UNCHANGED <<[c \in Columns |-> TypeOf(c)], [c \in Columns |-> IsMarked(c)]>>
    BY <1>3 DEF TypeOf, IsMarked, Has
  <1> HIDE DEF S
  <1> QED
    BY <1>4, <1>5, <1>6
       DEF Authority!Refuse, Authority!Standing, Authority!Settling

\* Every behaviour of the store, seen through types, marks and rulings, is one
\* of PiiAuthority: a ruling settles the mark until the type changes.
THEOREM Refinement == Spec => ImplementsPiiAuthority
  <1>1. Init => Authority!Init
    BY DEF Init, Authority!Init, TypeOf, IsMarked, Has, RulingOf
  <1>2. IInv /\ [Next]_vars => [Authority!Next]_Authority!vars
    <2> SUFFICES ASSUME IInv, [Next]_vars
                 PROVE  [Authority!Next]_Authority!vars
      OBVIOUS
    <2>1. ASSUME active' = active, decisions' = decisions
          PROVE  UNCHANGED Authority!vars
      BY <2>1 DEF Authority!vars, TypeOf, IsMarked, Has
    <2>2. CASE Upsert
      BY <2>2, UpsertWrites, PlainWriteRefines DEF Authority!Next
    <2>3. CASE RejectUpsert
      BY <2>3, RejectRefines DEF Authority!Next
    <2>4. CASE Promote
      BY <2>4, DecisionRefines, ConstantsAssumption DEF Promote, Authority!Next
    <2>5. CASE Demote
      <3>1. NoPayload \in Payload
        BY DEF NoPayload, Payload, Privacy
      <3> QED
        BY <2>5, <3>1, DecisionRefines DEF Demote, Authority!Next
    <2>6. CASE Clear
      <3>1. PICK c \in Columns : clear_pii_decision(c)
        BY <2>6 DEF Clear
      <3>2. /\ decisions' = [decisions EXCEPT ![c] = None]
            /\ active' = active
        BY <3>1 DEF clear_pii_decision
      <3>3. [d \in Columns |-> RulingOf(decisions[d])]' =
              [[d \in Columns |-> RulingOf(decisions[d])] EXCEPT ![c] = "none"]
        BY <3>2, OverlaysFit DEF Decisions, RulingOf
      <3>4. UNCHANGED <<[d \in Columns |-> TypeOf(d)], [d \in Columns |-> IsMarked(d)]>>
        BY <3>2 DEF TypeOf, IsMarked, Has
      <3> QED
        BY <3>3, <3>4 DEF Authority!Next, Authority!Withdraw
    <2>7. CASE EditQuality
      BY <2>1, <2>7, EditQualityWrites, PlainWriteRefines
         DEF QualitySavedOnly, Authority!Next
    <2>8. CASE EditDefinitions
      BY <2>1, <2>8, PatchWrites, PlainWriteRefines
         DEF EditDefinitions, PatchDefinitionsRaises, Authority!Next
    <2>9. CASE Review
      BY <2>1, <2>9 DEF Review, RecordFieldDecision, Checkpoint
    <2>10. CASE purge
      BY <2>10 DEF purge, Authority!Next, Authority!Forget, TypeOf, IsMarked, Has,
                   RulingOf
    <2>11. CASE UNCHANGED vars
      BY <2>1, <2>11 DEF vars
    <2> QED
      BY <2>2, <2>3, <2>4, <2>5, <2>6, <2>7, <2>8, <2>9, <2>10, <2>11 DEF Next
  <1> QED
    BY <1>1, <1>2, Inductive, PTL
       DEF Spec, ImplementsPiiAuthority, Authority!Spec
=============================================================================
