---------------------------- MODULE ContractWrite ----------------------------
(***************************************************************************)
(* ContractStore.upsert, set_pii_decision and purge of one table, cut into *)
(* the calls they make on the storage backend. Nothing locks the table:    *)
(* the calls of scan jobs (two worker threads), of web requests and of the *)
(* CLI interleave between any two storage operations, and a process can    *)
(* die between any two.                                                    *)
(*                                                                         *)
(* A contract keeps its identity, its version, the tags contributed to it  *)
(* (united by the merge), one last-writer-wins field and whether its one   *)
(* column carries a privacy block. What the overlays do to a column is the *)
(* subject of ContractStore; here a not_pii decision is in force or not.   *)
(* The provenance log is read, extended and put back just as the run index *)
(* is, and stands for nothing the index does not show; the PII summary and *)
(* the column telemetry are derived data and left out.                     *)
(***************************************************************************)
EXTENDS Naturals, FiniteSets

CONSTANTS
    Scans,      \* calls that upsert a fresh partial (scan, merge, import)
    Stewards,   \* calls of set_pii_decision(not_pii)
    Purges,     \* calls of purge
    MaxCrashes, \* bound: how many of the calls may die
    None

Calls == Scans \cup Stewards \cup Purges

ASSUME CallsAssumption ==
    /\ Scans \cap Stewards = {} /\ Scans \cap Purges = {}
    /\ Stewards \cap Purges = {}
    /\ None \notin Calls
    /\ MaxCrashes \in Nat

\* A call is a run: its name stands for its run_uuid, and for the
\* contract_uuid generated when it creates the contract.
Runs == Scans \cup Stewards

Stored == [uuid : Runs, version : Nat, tags : SUBSET Scans, field : Scans,
           privacy : BOOLEAN]

\* A scan's partial has no identity of its own.
Handed == [uuid : Runs \cup {None}, version : Nat, tags : SUBSET Scans,
           field : Scans, privacy : BOOLEAN]

\* The key of the run index, beside those of the audit snapshots.
IndexKey == "run index"

ASSUME KeysAssumption == None \notin Handed /\ IndexKey \notin Runs

VARIABLES
    active,       \* active/{table}.yaml
    audit,        \* audit/{table}/{run}.yaml, per run
    index,        \* the runs with a row in audit/{table}/_run_index.jsonl
    telemetry,    \* identity and version stamped in the telemetry sidecar
    decided,      \* is a not_pii decision in the overlay?
    pc,           \* where each call stands
    local,        \* what each call has read
    overlapped,   \* auxiliary: have two calls ever been in flight at once?
    purged        \* auxiliary: the calls a purge came after or ran beside

stored == <<active, audit, index, telemetry, decided>>
vars == <<stored, pc, local, overlapped, purged>>

\* What a scan hands to upsert: no identity of its own.
ScanPartial(p) ==
    [uuid |-> None, version |-> 1, tags |-> {p}, field |-> p, privacy |-> TRUE]

Idle == [existing |-> None, partial |-> None, decided |-> FALSE, rows |-> {}]

InFlight == {p \in Calls : pc[p] \notin {"idle", "done", "failed", "crashed"}}

(* Faulty variants, each one plausible slip away from the definition of the
   code that follows it. Nothing uses them; substituting one breaks a
   property. *)

\* A first creation generates no identity.
merge_without_uuid(existing, partial, p) ==
    IF existing = None THEN partial
    ELSE [existing EXCEPT !.version = @ + 1,
                          !.tags = @ \cup partial.tags,
                          !.field = partial.field,
                          !.privacy = @ \/ partial.privacy]

\* A merge keeps the version.
merge_without_bump(existing, partial, p) ==
    IF existing = None
    THEN [partial EXCEPT !.uuid = IF @ = None THEN p ELSE @]
    ELSE [existing EXCEPT !.tags = @ \cup partial.tags,
                          !.field = partial.field,
                          !.privacy = @ \/ partial.privacy]

\* Tags are last-writer-wins like the other fields.
merge_replacing_tags(existing, partial, p) ==
    IF existing = None
    THEN [partial EXCEPT !.uuid = IF @ = None THEN p ELSE @]
    ELSE [existing EXCEPT !.version = @ + 1, !.tags = partial.tags,
                          !.field = partial.field,
                          !.privacy = @ \/ partial.privacy]

\* merge_two_contracts: without a contract the partial becomes it, identity
\* and version included when it carries them.
merge_two_contracts(existing, partial, p) ==
    IF existing = None
    THEN [partial EXCEPT !.uuid = IF @ = None THEN p ELSE @]
    ELSE [existing EXCEPT !.version = @ + 1,
                          !.tags = @ \cup partial.tags,
                          !.field = partial.field,
                          !.privacy = @ \/ partial.privacy]

IdentityConflict(existing, partial) ==
    existing # None /\ partial.uuid \notin {None, existing.uuid}

\* Faulty: the overlay is read and not enforced.
outcome_unreconciled(p) ==
    merge_two_contracts(local[p].existing, local[p].partial, p)

\* The contract a call is about to write.
Outcome(p) ==
    LET merged == merge_two_contracts(local[p].existing, local[p].partial, p)
    IN  IF local[p].decided THEN [merged EXCEPT !.privacy = FALSE] ELSE merged

-----------------------------------------------------------------------------
Goto(p, label) == pc' = [pc EXCEPT ![p] = label]

\* The call returns, raises or dies, and what it had read is gone.
End(p, label) ==
    /\ Goto(p, label)
    /\ local' = [local EXCEPT ![p] = Idle]

Auxiliary == UNCHANGED <<overlapped, purged>>

Arrive(p, label) ==
    /\ pc[p] = "idle"
    /\ Goto(p, label)
    /\ overlapped' = (overlapped \/ InFlight # {})

\* The first storage operation of upsert is to read the active contract.
StartScan(p) ==
    /\ p \in Scans
    /\ Arrive(p, "read overlay")
    /\ local' = [local EXCEPT ![p].partial = ScanPartial(p),
                              ![p].existing = active]
    /\ purged' = IF InFlight \cap Purges # {} THEN purged \cup {p} ELSE purged
    /\ UNCHANGED stored

\* set_pii_decision keeps the contract it read as the partial to upsert,
\* and does nothing when there is none.
StartDecision(p) ==
    /\ p \in Stewards
    /\ active # None
    /\ Arrive(p, "save decision")
    /\ local' = [local EXCEPT ![p].partial = active]
    /\ purged' = IF InFlight \cap Purges # {} THEN purged \cup {p} ELSE purged
    /\ UNCHANGED stored

SaveDecision(p) ==
    /\ pc[p] = "save decision"
    /\ decided' = TRUE
    /\ Goto(p, "read active")
    /\ UNCHANGED <<active, audit, index, telemetry, local>>
    /\ Auxiliary

ReadActive(p) ==
    /\ pc[p] = "read active"
    /\ IF IdentityConflict(active, local[p].partial)
       THEN End(p, "failed")
       ELSE /\ local' = [local EXCEPT ![p].existing = active]
            /\ Goto(p, "read overlay")
    /\ UNCHANGED stored
    /\ Auxiliary

ReadOverlay(p) ==
    /\ pc[p] = "read overlay"
    /\ local' = [local EXCEPT ![p].decided = decided]
    /\ Goto(p, "put active")
    /\ UNCHANGED stored
    /\ Auxiliary

PutActive(p) ==
    /\ pc[p] = "put active"
    /\ active' = Outcome(p)
    /\ Goto(p, "put audit")
    /\ UNCHANGED <<audit, index, telemetry, decided, local>>
    /\ Auxiliary

\* Faulty: a failing audit put is logged and the upsert goes on.
put_audit_best_effort(p) ==
    /\ pc[p] = "put audit"
    /\ \/ audit' = [audit EXCEPT ![p] = Outcome(p)]
       \/ UNCHANGED audit
    /\ Goto(p, "put telemetry")
    /\ UNCHANGED <<active, index, telemetry, decided, local>>
    /\ Auxiliary

\* Faulty: the snapshot is taken before the overlay is enforced.
put_audit_unreconciled(p) ==
    /\ pc[p] = "put audit"
    /\ audit' = [audit EXCEPT ![p] = outcome_unreconciled(p)]
    /\ Goto(p, "put telemetry")
    /\ UNCHANGED <<active, index, telemetry, decided, local>>
    /\ Auxiliary

PutAudit(p) ==
    /\ pc[p] = "put audit"
    /\ audit' = [audit EXCEPT ![p] = Outcome(p)]
    /\ Goto(p, "put telemetry")
    /\ UNCHANGED <<active, index, telemetry, decided, local>>
    /\ Auxiliary

\* Faulty: the stamp is the version the upsert started from.
put_telemetry_of_base(p) ==
    /\ pc[p] = "put telemetry"
    /\ telemetry' = LET c == IF local[p].existing = None THEN Outcome(p)
                             ELSE local[p].existing
                    IN  [uuid |-> c.uuid, version |-> c.version]
    /\ Goto(p, "read index")
    /\ UNCHANGED <<active, audit, index, decided, local>>
    /\ Auxiliary

PutTelemetry(p) ==
    /\ pc[p] = "put telemetry"
    /\ telemetry' = [uuid |-> Outcome(p).uuid, version |-> Outcome(p).version]
    /\ Goto(p, "read index")
    /\ UNCHANGED <<active, audit, index, decided, local>>
    /\ Auxiliary

ReadIndex(p) ==
    /\ pc[p] = "read index"
    /\ local' = [local EXCEPT ![p].rows = index]
    /\ Goto(p, "put index")
    /\ UNCHANGED stored
    /\ Auxiliary

\* Faulty: the new row replaces the file.
put_index_overwriting(p) ==
    /\ pc[p] = "put index"
    /\ index' = {p}
    /\ End(p, "done")
    /\ UNCHANGED <<active, audit, telemetry, decided>>
    /\ Auxiliary

\* The index is read, extended by a row and written back whole.
PutIndex(p) ==
    /\ pc[p] = "put index"
    /\ index' = local[p].rows \cup {p}
    /\ End(p, "done")
    /\ UNCHANGED <<active, audit, telemetry, decided>>
    /\ Auxiliary

-----------------------------------------------------------------------------
(* purge: the active key, then what it finds under the audit prefix, then   *)
(* the overlays, then the telemetry.                                        *)

StartPurge(p) ==
    /\ p \in Purges
    /\ Arrive(p, "delete active")
    /\ purged' = purged \cup {q \in Runs : pc[q] # "idle"}
    /\ UNCHANGED <<stored, local>>

DeleteActive(p) ==
    /\ pc[p] = "delete active"
    /\ active' = None
    /\ Goto(p, "list audit")
    /\ UNCHANGED <<audit, index, telemetry, decided, local>>
    /\ Auxiliary

ListAudit(p) ==
    /\ pc[p] = "list audit"
    /\ local' = [local EXCEPT ![p].rows =
            {r \in Runs : audit[r] # None} \cup {k \in {IndexKey} : index # {}}]
    /\ Goto(p, "delete audit")
    /\ UNCHANGED stored
    /\ Auxiliary

\* The keys found are deleted one by one, in an order that the run uuids and
\* the backend decide; the index is one of them.
DeleteAudit(p) ==
    /\ pc[p] = "delete audit"
    /\ \E r \in local[p].rows \ {IndexKey} :
        /\ audit' = [audit EXCEPT ![r] = None]
        /\ local' = [local EXCEPT ![p].rows = @ \ {r}]
    /\ UNCHANGED <<active, index, telemetry, decided, pc>>
    /\ Auxiliary

DeleteIndex(p) ==
    /\ pc[p] = "delete audit"
    /\ IndexKey \in local[p].rows
    /\ index' = {}
    /\ local' = [local EXCEPT ![p].rows = @ \ {IndexKey}]
    /\ UNCHANGED <<active, audit, telemetry, decided, pc>>
    /\ Auxiliary

\* Faulty: the overlays outlive the contract.
clear_overlays_forgotten(p) ==
    /\ pc[p] = "delete audit"
    /\ local[p].rows = {}
    /\ Goto(p, "clear telemetry")
    /\ UNCHANGED <<active, audit, index, telemetry, decided, local>>
    /\ Auxiliary

ClearOverlays(p) ==
    /\ pc[p] = "delete audit"
    /\ local[p].rows = {}
    /\ decided' = FALSE
    /\ Goto(p, "clear telemetry")
    /\ UNCHANGED <<active, audit, index, telemetry, local>>
    /\ Auxiliary

ClearTelemetry(p) ==
    /\ pc[p] = "clear telemetry"
    /\ telemetry' = None
    /\ End(p, "done")
    /\ UNCHANGED <<active, audit, index, decided>>
    /\ Auxiliary

-----------------------------------------------------------------------------
\* The process of a call dies between two of its storage operations.
Crash(p) ==
    /\ p \in InFlight
    /\ Cardinality({q \in Calls : pc[q] = "crashed"}) < MaxCrashes
    /\ End(p, "crashed")
    /\ UNCHANGED <<stored, overlapped, purged>>

Init ==
    /\ active = None
    /\ audit = [r \in Runs |-> None]
    /\ index = {}
    /\ telemetry = None
    /\ decided = FALSE
    /\ pc = [p \in Calls |-> "idle"]
    /\ local = [p \in Calls |-> Idle]
    /\ overlapped = FALSE
    /\ purged = {}

upsert(p) ==
    \/ ReadActive(p) \/ ReadOverlay(p)
    \/ PutActive(p) \/ PutAudit(p)
    \/ PutTelemetry(p)
    \/ ReadIndex(p) \/ PutIndex(p)

set_pii_decision(p) == StartDecision(p) \/ SaveDecision(p)

purge(p) ==
    \/ StartPurge(p) \/ DeleteActive(p)
    \/ ListAudit(p) \/ DeleteAudit(p) \/ DeleteIndex(p)
    \/ ClearOverlays(p) \/ ClearTelemetry(p)

Next == \E p \in Calls :
    StartScan(p) \/ set_pii_decision(p) \/ upsert(p) \/ purge(p) \/ Crash(p)

Spec == Init /\ [][Next]_vars

-----------------------------------------------------------------------------
(* Properties. *)

Local == [existing : Stored \cup {None}, partial : Handed \cup {None},
          decided : BOOLEAN, rows : SUBSET (Runs \cup {IndexKey})]

Labels == {"idle", "save decision", "read active", "read overlay",
           "put active", "put audit", "put telemetry", "read index",
           "put index", "delete active", "list audit", "delete audit",
           "clear telemetry", "done", "failed", "crashed"}

TypeOK ==
    /\ active \in Stored \cup {None}
    /\ audit \in [Runs -> Stored \cup {None}]
    /\ index \in SUBSET Runs
    /\ telemetry \in [uuid : Runs, version : Nat] \cup {None}
    /\ decided \in BOOLEAN
    /\ pc \in [Calls -> Labels]
    /\ local \in [Calls -> Local]
    /\ overlapped \in BOOLEAN
    /\ purged \in SUBSET Calls

Crashed == {p \in Calls : pc[p] = "crashed"}
Quiescent == InFlight = {}
Completed(p) == pc[p] = "done" /\ p \notin purged

\* Whatever interleaves and whoever dies, a row of the run index leads to its
\* audit snapshot, except for a run that a purge came after or ran beside.
IndexedRunsHaveAudit == \A p \in index \ purged : audit[p] # None

\* However upserts and decisions overlap, once they have all returned the
\* active contract is one of the audited snapshots.
QuiescentActiveIsAudited ==
    Quiescent /\ Crashed = {} /\ purged = {} /\ active # None =>
        \E r \in Runs : audit[r] = active

\* As long as calls never overlap, and though calls may have died on the way,
\* a completed scan's contribution stays in the contract ...
SerialContributionsKept ==
    ~overlapped => \A p \in Scans :
        Completed(p) => active # None /\ p \in active.tags

\* ... its row stays in the index ...
SerialRowsKept ==
    ~overlapped => \A p \in Runs : Completed(p) => p \in index

\* ... a version of a contract names one content in the audit ...
SerialVersionsNameOneContent ==
    ~overlapped => \A p, q \in Runs :
        /\ audit[p] # None /\ audit[q] # None
        /\ audit[p].uuid = audit[q].uuid /\ audit[p].version = audit[q].version
        => audit[p] = audit[q]

\* ... the telemetry tells the version that is active, unless a call died ...
SerialStampIsCurrent ==
    ~overlapped /\ Quiescent /\ Crashed = {} /\ active # None =>
        telemetry = [uuid |-> active.uuid, version |-> active.version]

\* ... the identity of a contract is locked and its version moves by one ...
SerialIdentityLocked ==
    [][~overlapped' /\ active # None /\ active' # None /\ active' # active =>
         active'.uuid = active.uuid /\ active'.version = active.version + 1]_vars

\* ... every write made while a decision is in force obeys it ...
SerialWritesObeyDecision ==
    [][~overlapped' /\ decided /\ active' # active /\ active' # None =>
         ~active'.privacy]_vars

\* ... and a purge that completes leaves what there was before the first
\* call, also after calls that died.
SerialPurgeForgets ==
    [][\A x \in Purges :
         ~overlapped' /\ pc[x] # "done" /\ pc'[x] = "done" =>
             /\ active' = None /\ telemetry' = None /\ ~decided'
             /\ index' = {} /\ \A r \in Runs : audit'[r] = None]_vars

\* What the overlay store claims of every interleaving: "the overlay always
\* wins" (pii_decisions.py). A scan that read the overlay before the decision
\* was saved puts its contract after the decision was applied.
OverlayAlwaysWins ==
    (\A p \in Calls : pc[p] \in {"idle", "done"}) =>
        (decided /\ active # None => ~active.privacy)

\* What ContractStore claims of every interleaving: identity "is locked after
\* first write". Two scans that both find no contract create two.
IdentityLocked ==
    [][active # None /\ active' # None => active'.uuid = active.uuid]_vars
=============================================================================
