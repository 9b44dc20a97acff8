----------------------------- MODULE RunLifecycle -----------------------------
(***************************************************************************)
(* The run subcontracts of one table and kind: SubcontractStore keeps one  *)
(* object per run, and RunMerger folds a chosen run into the active        *)
(* contract and then marks it merged. Every call is split into its storage *)
(* operations, so that calls of several actors (scan jobs, request         *)
(* threads, command lines) interleave and may die between any two of them. *)
(*                                                                         *)
(* The buckets of the kinds share nothing, so one kind stands for each.    *)
(* ContractStore.upsert is one step here: it folds the payload or raises;  *)
(* its own storage operations are those of ContractWrite. The run index    *)
(* written beside the objects is left out, since nothing reads it, and so  *)
(* are the payloads: only whether one was folded is told apart.            *)
(***************************************************************************)
EXTENDS Naturals

CONSTANTS
    Actors,    \* threads and processes that call the two classes
    NumRuns,   \* bound: runs are 1..NumRuns, in the order of their created_at
    MaxAsks,   \* bound: how many edits, merges and discards are asked for
    None

ASSUME RunAssumption ==
    NumRuns \in Nat /\ MaxAsks \in Nat

Runs == 1..NumRuns

Status == {"draft", "reviewed", "merged", "discarded"}

\* status: that of the copy of the object the call works on.
Call == [op : {"create", "automerge", "edit", "merge", "discard"}, run : Runs,
         at : {"get", "upsert", "stamp", "put"}, status : Status]

ASSUME NoneAssumption == None \notin Status /\ None \notin Call

VARIABLES
    made,      \* how many run ids were given out
    asked,     \* bound: how many edits, merges and discards were asked for
    object,    \* the status in {table}/{run_id}.yaml of each run, or None
    call,      \* the call each actor is in, or None
    folded,    \* auxiliary: the runs whose payload was ever folded
    met        \* auxiliary: runs two calls were in at once, or a call died on

runVars == <<made, asked, object, call, folded, met>>

RunTypeOK ==
    /\ made \in 0..NumRuns /\ asked \in 0..MaxAsks
    /\ object \in [Runs -> Status \cup {None}]
    /\ call \in [Actors -> Call \cup {None}]
    /\ folded \subseteq Runs
    /\ met \subseteq Runs

On(a, r) == call[a] # None /\ call[a].run = r
At(a, where) == call[a] # None /\ call[a].at = where
Busy(r) == \E a \in Actors : On(a, r)

(* Faulty variants, one slip away from the definitions of the code. *)

\* Every edit makes the run a reviewed one.
edit_reopens(status) == "reviewed"

\* The exception of the upsert is swallowed and the run marked all the same.
raises_unnoticed(a) ==
    /\ At(a, "upsert")
    /\ call' = [call EXCEPT ![a].at = "stamp"]
    /\ UNCHANGED <<made, asked, object, folded, met>>

\* The status edit_run leaves. It replaces the payload whatever the status is.
update_payload(status) == IF status = "draft" THEN "reviewed" ELSE status

-------------------------------------------------------------------------------
RunInit ==
    /\ made = 0 /\ asked = 0
    /\ object = [r \in Runs |-> None]
    /\ call = [a \in Actors |-> None]
    /\ folded = {}
    /\ met = {}

\* A call on run r begins.
Enter(a, op, r, at) ==
    /\ call[a] = None
    /\ call' = [call EXCEPT ![a] = [op |-> op, run |-> r, at |-> at, status |-> "draft"]]
    /\ met' = IF Busy(r) THEN met \cup {r} ELSE met
    /\ UNCHANGED <<object, folded>>

\* create_from_payload under a new run id; persist_session_kind merges the run
\* at once when automerge is on.
Create(a, automerge) ==
    /\ made < NumRuns
    /\ made' = made + 1
    /\ Enter(a, IF automerge THEN "automerge" ELSE "create", made + 1, "put")
    /\ UNCHANGED asked

\* edit_run, merge_run and discard_run of a run somebody picked from a list.
Ask(a, op, r) ==
    /\ r <= made /\ asked < MaxAsks
    /\ asked' = asked + 1
    /\ Enter(a, op, r, "get")
    /\ UNCHANGED made

\* merge_latest: the newest run that is not discarded, as list_runs finds it.
Mergeable(r) == object[r] \notin {None, "discarded"}

AskLatest(a) ==
    \E r \in Runs :
        /\ Mergeable(r)
        /\ \A q \in Runs : q > r => ~Mergeable(q)
        /\ Ask(a, "merge", r)

Leave(a) == call' = [call EXCEPT ![a] = None]
Proceed(a, at, status) == call' = [call EXCEPT ![a].at = at, ![a].status = status]

\* A missing run ends the call: None, or a KeyError of merge_run.
Missing(a) ==
    /\ At(a, "get") /\ object[call[a].run] = None
    /\ Leave(a)
    /\ UNCHANGED <<made, asked, object, folded, met>>

\* No status keeps a run from being merged, edited or discarded.
GetToMerge(a) ==
    /\ At(a, "get") /\ call[a].op = "merge" /\ object[call[a].run] # None
    /\ Proceed(a, "upsert", object[call[a].run])
    /\ UNCHANGED <<made, asked, object, folded, met>>

GetToDiscard(a) ==
    /\ At(a, "get") /\ call[a].op = "discard" /\ object[call[a].run] # None
    /\ Proceed(a, "put", "discarded")
    /\ UNCHANGED <<made, asked, object, folded, met>>

GetToEdit(a) ==
    /\ At(a, "get") /\ call[a].op = "edit" /\ object[call[a].run] # None
    /\ Proceed(a, "put", update_payload(object[call[a].run]))
    /\ UNCHANGED <<made, asked, object, folded, met>>

\* merge_run folds the payload it read into the contract.
Upsert(a) ==
    /\ At(a, "upsert")
    /\ folded' = folded \cup {call[a].run}
    /\ Proceed(a, "stamp", call[a].status)
    /\ UNCHANGED <<made, asked, object, met>>

\* The contract does not validate, or its storage fails: merge_run raises.
UpsertRaises(a) ==
    /\ At(a, "upsert")
    /\ Leave(a)
    /\ UNCHANGED <<made, asked, object, folded, met>>

\* set_status("merged") reads the object again,
Stamp(a) ==
    /\ At(a, "stamp")
    /\ IF object[call[a].run] = None THEN Leave(a)
       ELSE Proceed(a, "put", "merged")
    /\ UNCHANGED <<made, asked, object, folded, met>>

\* and write puts the whole object back. A run made with automerge goes on to
\* merge_run.
Put(a) ==
    /\ At(a, "put")
    /\ object' = [object EXCEPT ![call[a].run] = call[a].status]
    /\ IF call[a].op = "automerge"
       THEN call' = [call EXCEPT ![a].op = "merge", ![a].at = "get"]
       ELSE Leave(a)
    /\ UNCHANGED <<made, asked, folded, met>>

\* delete_table_runs deletes every object of the table.
DeleteRuns ==
    /\ asked < MaxAsks
    /\ asked' = asked + 1
    /\ object' = [r \in Runs |-> None]
    /\ met' = met \cup {r \in Runs : Busy(r)}
    /\ UNCHANGED <<made, call, folded>>

\* The process of these actors dies, or a storage operation of theirs raises.
Die(dead) ==
    /\ call' = [a \in Actors |-> IF a \in dead THEN None ELSE call[a]]
    /\ met' = met \cup {r \in Runs : \E a \in dead : On(a, r)}
    /\ UNCHANGED <<made, object, folded>>

\* A call under way goes on, or ends with an exception.
Step(a) ==
    \/ GetToMerge(a) \/ GetToDiscard(a) \/ GetToEdit(a)
    \/ Upsert(a) \/ Stamp(a) \/ Put(a)

Raise(a) == Missing(a) \/ UpsertRaises(a)

RunNext ==
    \/ \E a \in Actors, automerge \in BOOLEAN : Create(a, automerge)
    \/ \E a \in Actors, r \in Runs, op \in {"edit", "merge", "discard"} : Ask(a, op, r)
    \/ \E a \in Actors : AskLatest(a) \/ Step(a) \/ Raise(a)
    \/ DeleteRuns
    \* Requests of other kinds may use up the bound too.
    \/ \E dead \in SUBSET Actors : Die(dead) /\ asked' \in asked..MaxAsks

RunSpec == RunInit /\ [][RunNext]_runVars

-------------------------------------------------------------------------------
\* A run whose object says merged had a payload folded into the contract: no
\* order of merges, edits, discards and deaths marks a run before an upsert of
\* it has succeeded (merge_run stamps last, every other call keeps the status).
MergedRunWasFolded ==
    \A r \in Runs : object[r] = "merged" => r \in folded

\* The other way: a run whose payload was folded is marked merged, or was
\* discarded afterwards, once every call on it is over and as long as no two
\* calls on it overlapped and none died. No later call puts a merged run back
\* among the open ones, where merge_latest and the run lists would offer it.
FoldedRunIsMarked ==
    \A r \in Runs \ met :
        ~Busy(r) /\ object[r] # None /\ r \in folded
            => object[r] \in {"merged", "discarded"}
===============================================================================
