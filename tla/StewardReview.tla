----------------------------- MODULE StewardReview -----------------------------
(***************************************************************************)
(* The Final-Review checkpoint of one table: ReviewStore keeps one object  *)
(* of column and table-item verdicts with the flag guaranteed, and         *)
(* ReviewService and StewardReviewService work on it while the contract    *)
(* under review is edited, folded and purged (ContractStore).              *)
(*                                                                         *)
(* A call is the list of the storage operations it still has to do. Every  *)
(* write of ReviewStore reads the object, changes it and puts the whole    *)
(* object back, with no lock. What a column says is one value, what the    *)
(* checkpoint says of it a status; the verdicts of single fields, names,   *)
(* notes, sidecar records, fully_approved (for old readers) and items that *)
(* are not required are left out.                                          *)
(***************************************************************************)
EXTENDS Integers, Sequences, FiniteSets

CONSTANTS
    Callers,     \* request threads
    NumColumns,  \* columns are 1..NumColumns, in the order of the contract
    Items,       \* the required table items, _table_item_keys
    Values,      \* what a column may say: privacy, tags, definition, glossary
    Rulings,     \* bound: the statuses stewards rule with, among Status
    MaxCalls,    \* bound: how many calls are made
    None

ASSUME ReviewAssumption ==
    /\ NumColumns \in Nat \ {0} /\ MaxCalls \in Nat
    /\ None \notin Values /\ Values # {}

Columns == 1..NumColumns

REVIEWED_STATUSES == {"approved", "edited", "no_action"}
Status == REVIEWED_STATUSES \cup {"rejected", "needs_review"}

ASSUME RulingAssumption == Rulings \subseteq Status

\* absent: no entry, which the code calls pending.
ReviewState ==
    [status : [Columns -> Status \cup {"absent"}],
     approved : [Columns -> Values \cup {None}],   \* the snapshot, if one was kept
     items : [Items -> {"absent", "reviewed", "blocking"}],
     total_columns : 0..NumColumns,
     guaranteed : BOOLEAN]

VARIABLES
    contract,  \* the columns of the active contract, none after a purge, and what they say
    review,    \* _meta/reviews/{table}.json
    call,      \* the call each caller is in, or None
    calls,     \* bound: how many calls were made
    halfway    \* auxiliary: was the last put the first of the two of a finalize?

vars == <<contract, review, call, calls, halfway>>

Contract == [schema : SUBSET Columns, value : [Columns -> Values]]

Steps == {"snapshot", "edit", "count", "load", "set_column", "set_edited", "set_item", "reset_column",
          "blockers", "finalize_required", "finalize", "view", "scan", "reset_outdated",
          "answer", "total", "fold"}

\* rest: the steps left. alone: has no other call and no purge met this one?
Call == [rest : Seq(Steps), column : Columns, item : Items \cup {None},
         status : Status, approved : Values \cup {None}, total : 0..NumColumns,
         seen : Contract, outdated : SUBSET Columns, copy : ReviewState,
         alone : BOOLEAN]

TypeOK ==
    /\ contract \in Contract
    /\ review \in ReviewState
    /\ calls \in 0..MaxCalls
    /\ halfway \in BOOLEAN
    /\ call \in [Callers -> Call \cup {None}]

Reviewed(r, c) == r.status[c] \in REVIEWED_STATUSES
Recorded(r) == {c \in Columns : r.status[c] # "absent"}

(* Faulty variants, one slip away from the definitions of the code. *)

\* Columns without an entry are forgotten.
columns_ready_of_recorded(r) == Recorded(r) # {} /\ \A c \in Recorded(r) : Reviewed(r, c)

\* Only edited columns are compared with the contract.
outdated_edits_only(r, seen, c) ==
    r.status[c] = "edited" /\ r.approved[c] \notin {None, seen.value[c]}

\* The table itself is counted with its columns.
count_with_table(schema) == Cardinality(schema) + 1

\* _iter_props of the active contract.
count_columns(schema) == Cardinality(schema)

\* _columns_ready.
columns_ready(r) ==
    /\ r.total_columns > 0
    /\ Cardinality(Recorded(r)) >= r.total_columns
    /\ \A c \in Recorded(r) : Reviewed(r, c)

\* _table_items_ready, of the required items or else of those recorded.
table_items_ready(r, required) ==
    \A i \in required : r.items[i] = "reviewed"

recorded_items(r) == {i \in Items : r.items[i] # "absent"}

\* _refresh_flags. No required columns: all that are recorded.
refresh_flags(r, required_items, required_columns) ==
    [r EXCEPT !.guaranteed =
        /\ IF required_columns = {} THEN columns_ready(r)
           ELSE \A c \in required_columns : Reviewed(r, c)
        /\ table_items_ready(r, required_items)]

\* get_review resets an approval the contract no longer agrees with; one
\* without a snapshot always agrees.
outdated(r, seen, c) ==
    r.status[c] = "approved" /\ r.approved[c] \notin {None, seen.value[c]}

-------------------------------------------------------------------------------
NoReview == [status |-> [c \in Columns |-> "absent"], approved |-> [c \in Columns |-> None],
             items |-> [i \in Items |-> "absent"], total_columns |-> 0, guaranteed |-> FALSE]

\* Every column was approved and every item reviewed, one call after another.
AllReviewed(con) ==
    refresh_flags(
        [status |-> [c \in Columns |-> IF c \in con.schema THEN "approved" ELSE "absent"],
         approved |-> [c \in Columns |-> IF c \in con.schema THEN con.value[c] ELSE None],
         items |-> [i \in Items |-> "reviewed"],
         total_columns |-> count_columns(con.schema), guaranteed |-> FALSE], Items, {})

\* Which of its values a column says first makes no difference.
NoContract == [schema |-> {}, value |-> [c \in Columns |-> CHOOSE v \in Values : TRUE]]

Init ==
    /\ \E n \in Columns : contract = [NoContract EXCEPT !.schema = 1..n]
    /\ review \in {NoReview, AllReviewed(contract)}
    /\ call = [a \in Callers |-> None]
    /\ calls = 0
    /\ halfway = FALSE

Meets(a) == [b \in Callers |-> IF b # a /\ call[b] # None THEN [call[b] EXCEPT !.alone = FALSE]
                               ELSE call[b]]

\* A call begins: its steps, and the column or item and the status it is about.
Begin(a, steps, c, i, st) ==
    /\ call[a] = None /\ calls < MaxCalls
    /\ calls' = calls + 1
    /\ call' = [Meets(a) EXCEPT ![a] =
          [rest |-> steps, column |-> c, item |-> i, status |-> st, approved |-> None,
           total |-> 0, seen |-> NoContract, outdated |-> {}, copy |-> NoReview,
           alone |-> \A b \in Callers : call[b] = None]]
    /\ UNCHANGED <<contract, review, halfway>>

checkpoint == <<"count", "load", "set_column">>
approve_column == <<"snapshot", "load", "set_column">>
get_review == <<"view", "scan", "answer">>
finalizing == <<"load", "finalize">> \o get_review

ApproveColumn(a, c) == Begin(a, approve_column \o get_review, c, None, "approved")
edit_column == <<"edit", "count", "load", "set_edited">> \o get_review
EditColumn(a, c) == Begin(a, edit_column, c, None, "edited")
\* reject_column, needs_review_column, no_action_column.
RuleColumn(a, c) ==
    \E st \in Rulings \ {"approved", "edited"} : Begin(a, checkpoint \o get_review, c, None, st)
ResetColumn(a, c) ==
    Begin(a, <<"load", "reset_column">> \o get_review, c, None, "needs_review")
GetReview(a) == Begin(a, get_review, 1, None, "needs_review")
Finalize(a) == Begin(a, finalizing, 1, None, "needs_review")

\* StewardReviewService. A PII verdict that is accepted or edited goes through
\* edit_column first, and a rejection through reject_column. Verdicts on other
\* fields write overlays and the contract, which EditColumn of others stands for.
Decide(a, c) ==
    \E st \in Rulings :
        Begin(a, (CASE st \in {"approved", "edited"} -> edit_column
                    [] st = "rejected" -> checkpoint \o get_review
                    [] OTHER -> << >>) \o checkpoint, c, None, st)
DecideTable(a, i) ==
    \E st \in Rulings : Begin(a, <<"load", "set_item">>, 1, i, st)
StewardFinalize(a) ==
    Begin(a, <<"view", "blockers", "load", "finalize_required">> \o finalizing, 1, None, "needs_review")

\* ContractStore.upsert of column c: when a decision on it has gone stale the
\* column is marked first, with the number of columns the checkpoint has.
Upsert(a, c) ==
    \/ Begin(a, <<"fold">>, c, None, "needs_review")
    \/ Begin(a, <<"total", "load", "set_column", "fold">>, c, None, "needs_review")

-------------------------------------------------------------------------------
At(a, step) == call[a] # None /\ Head(call[a].rest) = step

\* The call goes on as c after the step at hand, or ends.
Goes(a, c) ==
    call' = [call EXCEPT ![a] = IF Tail(c.rest) = << >> THEN None
                                ELSE [c EXCEPT !.rest = Tail(@)]]
Leave(a) == call' = [call EXCEPT ![a] = None]

\* What the call learns from the contract and from the checkpoint.
Snapshot(a) ==
    /\ At(a, "snapshot") /\ call[a].column \in contract.schema
    /\ Goes(a, [call[a] EXCEPT !.approved = contract.value[call[a].column],
                               !.total = count_columns(contract.schema)])
    /\ UNCHANGED <<contract, review, calls, halfway>>

Count(a) ==
    /\ At(a, "count")
    /\ Goes(a, [call[a] EXCEPT !.total = count_columns(contract.schema)])
    /\ UNCHANGED <<contract, review, calls, halfway>>

Total(a) ==
    /\ At(a, "total")
    /\ Goes(a, [call[a] EXCEPT !.total = review.total_columns,
                               !.approved = review.approved[call[a].column]])
    /\ UNCHANGED <<contract, review, calls, halfway>>

View(a) ==
    /\ At(a, "view") /\ contract.schema # {}
    /\ Goes(a, [call[a] EXCEPT !.seen = contract])
    /\ UNCHANGED <<contract, review, calls, halfway>>

\* get of the checkpoint, before a write.
Load(a) ==
    /\ At(a, "load")
    /\ Goes(a, [call[a] EXCEPT !.copy = review])
    /\ UNCHANGED <<contract, review, calls, halfway>>

\* _save puts the changed copy back.
Save(a, r, first) ==
    /\ review' = r
    /\ halfway' = first
    /\ UNCHANGED <<contract, calls>>

\* What the call need not remember then.
saved(c) == [c EXCEPT !.copy = NoReview, !.approved = None, !.total = 0]

with_column(c, status) ==
    [c.copy EXCEPT !.status[c.column] = status, !.approved[c.column] = c.approved,
                   !.total_columns = c.total]

\* set_column: the flags are refreshed with the table items on record.
SetColumn(a) ==
    LET r == with_column(call[a], IF At(a, "set_edited") THEN "edited" ELSE call[a].status) IN
    /\ At(a, "set_column") \/ At(a, "set_edited")
    /\ Save(a, refresh_flags(r, recorded_items(r), {}), FALSE)
    /\ Goes(a, saved(call[a]))

\* set_table_item, with the required items.
SetItem(a) ==
    LET verdict == IF call[a].status \in REVIEWED_STATUSES THEN "reviewed" ELSE "blocking"
        r == [call[a].copy EXCEPT !.items[call[a].item] = verdict] IN
    /\ At(a, "set_item")
    /\ Save(a, refresh_flags(r, Items, {}), FALSE)
    /\ Goes(a, saved(call[a]))

\* reset_column drops the entry and the flag with it.
reset(r, c) == [r EXCEPT !.status[c] = "absent", !.approved[c] = None, !.guaranteed = FALSE]

ResetEntry(a) ==
    /\ At(a, "reset_column")
    /\ IF call[a].copy.status[call[a].column] # "absent"
       THEN Save(a, reset(call[a].copy, call[a].column), FALSE)
       ELSE UNCHANGED <<contract, review, calls, halfway>>
    /\ Goes(a, saved(call[a]))

\* guarantee_blockers of the columns and items the call saw; any of them ends
\* the call with ok = False.
Blockers(a) ==
    /\ At(a, "blockers")
    /\ IF /\ \A c \in call[a].seen.schema : Reviewed(review, c)
          /\ table_items_ready(review, Items)
       THEN Goes(a, call[a])
       ELSE Leave(a)
    /\ UNCHANGED <<contract, review, calls, halfway>>

\* finalize for the columns and items the call saw,
FinalizeRequired(a) ==
    LET seen == call[a].seen.schema
        r == [call[a].copy EXCEPT
                !.total_columns = IF @ < Cardinality(seen) THEN Cardinality(seen) ELSE @] IN
    /\ At(a, "finalize_required")
    /\ Save(a, refresh_flags(r, Items, seen), TRUE)
    /\ Goes(a, saved(call[a]))

\* and for what is on record.
FinalizeRecorded(a) ==
    /\ At(a, "finalize")
    /\ Save(a, refresh_flags(call[a].copy, recorded_items(call[a].copy), {}), FALSE)
    /\ Goes(a, saved(call[a]))

\* get_review compares the approvals with the contract it read,
Scan(a) ==
    LET old == {c \in call[a].seen.schema : outdated(review, call[a].seen, c)} IN
    /\ At(a, "scan")
    /\ Goes(a, [call[a] EXCEPT !.outdated = old,
                   !.rest = IF old = {} THEN @ ELSE <<"scan", "load", "reset_outdated">> \o Tail(@)])
    /\ UNCHANGED <<contract, review, calls, halfway>>

\* resets them one after the other,
ResetOutdated(a) ==
    LET c == CHOOSE c \in call[a].outdated : \A d \in call[a].outdated : c <= d
        left == call[a].outdated \ {c} IN
    /\ At(a, "reset_outdated")
    /\ IF call[a].copy.status[c] # "absent"
       THEN Save(a, reset(call[a].copy, c), FALSE)
       ELSE UNCHANGED <<contract, review, calls, halfway>>
    /\ Goes(a, [saved(call[a]) EXCEPT !.outdated = left,
                   !.rest = IF left = {} THEN @ ELSE <<"reset_outdated", "load">> \o @])

\* and answers with the checkpoint as it is then.
Answer(a) ==
    /\ At(a, "answer")
    /\ Goes(a, call[a])
    /\ UNCHANGED <<contract, review, calls, halfway>>

\* The contract is patched or folded: its own locks and races are those of
\* ContractWrite.
Patch(a) ==
    /\ At(a, "edit") /\ call[a].column \in contract.schema
    /\ \E v \in Values \ {contract.value[call[a].column]} :
          contract' = [contract EXCEPT !.value[call[a].column] = v]
    /\ Goes(a, call[a])
    /\ UNCHANGED <<review, calls, halfway>>

Fold(a) ==
    /\ At(a, "fold")
    /\ \E v \in Values :
          contract' = [contract EXCEPT !.schema = @ \cup {call[a].column},
                                       !.value[call[a].column] = v]
    /\ Goes(a, call[a])
    /\ UNCHANGED <<review, calls, halfway>>

\* The call ends where it is: a missing contract or column, or an exception of
\* the storage or of the artifacts of a finalize. (Before a read that no write
\* follows it makes no difference.)
Raise(a) ==
    /\ \E step \in {"snapshot", "edit", "view", "load", "fold"} : At(a, step)
    /\ Leave(a)
    /\ UNCHANGED <<contract, review, calls, halfway>>

\* purge deletes the contract and leaves the checkpoint.
Purge ==
    /\ contract.schema # {} /\ calls < MaxCalls
    /\ calls' = calls + 1
    /\ contract' = [contract EXCEPT !.schema = {}]
    /\ call' = [a \in Callers |-> IF call[a] = None THEN None ELSE [call[a] EXCEPT !.alone = FALSE]]
    /\ UNCHANGED <<review, halfway>>

Work(a) ==
    \/ Snapshot(a) \/ Count(a) \/ Total(a) \/ View(a) \/ Load(a)
    \/ SetColumn(a) \/ SetItem(a) \/ ResetEntry(a)
    \/ Blockers(a) \/ FinalizeRequired(a) \/ FinalizeRecorded(a)
    \/ Scan(a) \/ ResetOutdated(a) \/ Answer(a)
    \/ Patch(a) \/ Fold(a)

Next ==
    \/ \E a \in Callers, c \in Columns :
          \/ ApproveColumn(a, c) \/ EditColumn(a, c) \/ RuleColumn(a, c)
          \/ ResetColumn(a, c) \/ Decide(a, c) \/ Upsert(a, c)
    \/ \E a \in Callers, i \in Items : DecideTable(a, i)
    \/ \E a \in Callers : GetReview(a) \/ Finalize(a) \/ StewardFinalize(a)
    \/ \E a \in Callers : Work(a) \/ Raise(a)
    \/ Purge

Spec == Init /\ [][Next]_vars

-------------------------------------------------------------------------------
\* The flag never claims more than the checkpoint holds: while guaranteed is
\* set every column and table item on record was reviewed, and there are as
\* many as the checkpoint thinks there are columns, whatever order verdicts,
\* resets, drift marks and finalizes of several callers put the object back in
\* and whatever was lost in between. The first put of a steward finalize is
\* exempt until the next one: it looks only at the columns its caller saw.
GuaranteeMatchesVerdicts ==
    review.guaranteed /\ ~halfway =>
        /\ review.total_columns \in 1..Cardinality(Recorded(review))
        /\ \A c \in Recorded(review) : Reviewed(review, c)
        /\ \A i \in recorded_items(review) : review.items[i] = "reviewed"

\* A review page whose call no other call met shows guaranteed only when each
\* column approved with a snapshot still says in the contract what was
\* approved: folds and edits since then have reset the approval, and the flag
\* with it, before the page is answered.
GuaranteedPageIsCurrent ==
    [][\A a \in Callers :
          Answer(a) /\ call[a].alone /\ review.guaranteed =>
              \A c \in contract.schema :
                  review.status[c] = "approved" =>
                      review.approved[c] \in {None, contract.value[c]}]_vars
===============================================================================
