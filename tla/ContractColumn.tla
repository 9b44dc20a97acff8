--------------------------- MODULE ContractColumn ---------------------------
(***************************************************************************)
(* What redibis does to ONE column of a contract: the merge of a partial,  *)
(* and the overlays that ContractStore.upsert applies after it.            *)
(*                                                                         *)
(* A column keeps what the overlays tell apart: its privacy block, its     *)
(* tags, its logicalType and its quality rules. The block stands for the   *)
(* privacy, classification and entity_type keys, which writers set         *)
(* together and overlays take away together: "pii" is one whose            *)
(* classification is personal data, "exempt" one whose classification is   *)
(* internal or security_sensitive, "none" is no block at all.              *)
(***************************************************************************)
CONSTANTS
    Tags,      \* the tags in use, strings
    Types,     \* the logical types in use
    Rules,     \* stable ids of the quality rules of a column
    Omitted,   \* "this key is not in the fragment"
    None       \* "there is no such column / decision / contract"

\* Tags that name an entity ("entity:<TYPE>"); one is enough.
EntityTag == "entity:PHONE_NUMBER"

PII_TAGS == {"pii", "gdpr_personal_data", "contains_arabic"}

\* The tags a demotion takes away ...
StrippedTags == PII_TAGS \cup {EntityTag}

\* ... and the tags that make readers treat a column as PII.
SignalTags == {"pii", "gdpr_personal_data", "pii_indirect", EntityTag}

\* A property without a logicalType is fingerprinted as a string.
DefaultType == "string"

Privacy == {"none", "pii", "exempt"}

Column == [privacy : Privacy, tags : SUBSET Tags, type : Types,
           quality : SUBSET Rules]

\* One property of an incoming partial contract.
Fragment == [privacy : Privacy, tags : SUBSET Tags,
             type : Types \cup {Omitted},
             quality : (SUBSET Rules) \cup {Omitted}]

\* The column fragment stored with a "pii" decision. No caller puts a
\* logicalType in it.
Payload == [privacy : Privacy, tags : (SUBSET Tags) \cup {Omitted},
            replace : BOOLEAN]

NoPayload == [privacy |-> "none", tags |-> Omitted, replace |-> FALSE]

GivenOr(value, default) == IF value = Omitted THEN default ELSE value

\* A block that is given replaces the one there is.
BlockOr(block, default) == IF block = "none" THEN default ELSE block

(* Faulty variants, each one plausible slip away from the definition of the
   code below it. Nothing uses them; substituting one breaks a property. *)
new_column_untyped(frag) ==
    [privacy |-> frag.privacy, tags |-> frag.tags, type |-> frag.type,
     quality |-> GivenOr(frag.quality, {})]

\* A column the contract did not have yet.
NewColumn(frag) ==
    [privacy |-> frag.privacy, tags |-> frag.tags,
     type    |-> GivenOr(frag.type, DefaultType),
     quality |-> GivenOr(frag.quality, {})]

\* Faulty (the fragment's block replaces the column's).
merge_column_replacing(col, frag) ==
    [privacy |-> frag.privacy, tags |-> col.tags \cup frag.tags,
     type    |-> GivenOr(frag.type, col.type),
     quality |-> GivenOr(frag.quality, col.quality)]

\* Faulty.
strip_pii_tags_only(col) == [col EXCEPT !.tags = @ \ StrippedTags]

\* Faulty.
apply_pii_always_uniting(col, payload) ==
    [col EXCEPT !.privacy = BlockOr(payload.privacy, @),
                !.tags = @ \cup GivenOr(payload.tags, {})]

\* Tags are united, every other key is last-writer-wins, and a key that is
\* not in the fragment stays: a merge alone never removes a privacy block,
\* though it may put an exempt one in the place of one that says PII.
merge_column(col, frag) ==
    [privacy |-> BlockOr(frag.privacy, col.privacy),
     tags    |-> col.tags \cup frag.tags,
     type    |-> GivenOr(frag.type, col.type),
     quality |-> GivenOr(frag.quality, col.quality)]

\* Readers believe the block; tags count only where there is none.
column_is_pii(col) ==
    \/ col.privacy = "pii"
    \/ col.privacy = "none" /\ col.tags \cap SignalTags # {}

strip_pii_from_column(col) ==
    [col EXCEPT !.privacy = "none", !.tags = @ \ StrippedTags]

apply_pii_to_column(col, payload) ==
    [col EXCEPT !.privacy = BlockOr(payload.privacy, @),
                !.tags = IF payload.tags = Omitted THEN @
                         ELSE IF payload.replace THEN payload.tags
                         ELSE @ \cup payload.tags]

\* The value-leak guard of automated writers.
strip_quality_from_pii(col) ==
    IF column_is_pii(col) THEN [col EXCEPT !.quality = {}] ELSE col

\* The part of a fingerprint that the contract determines. The name is the
\* column's own and the format is always "unknown" here.
FingerprintOf(col) == col.type
=============================================================================
