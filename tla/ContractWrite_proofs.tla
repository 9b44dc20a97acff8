------------------------- MODULE ContractWrite_proofs -------------------------
(***************************************************************************)
(* What holds of upsert, set_pii_decision and purge for every number of    *)
(* calls, however they interleave and whoever dies; and what holds besides *)
(* as long as no two of them were ever in flight at once. The invariant    *)
(* has two parts: IndexInv, which every interleaving keeps, and SerialInv, *)
(* which says under ~overlapped that what the one call in flight has read  *)
(* is still what is stored.                                                *)
(***************************************************************************)
EXTENDS ContractWrite, TLAPS

USE CallsAssumption, KeysAssumption DEF Calls, Runs

-------------------------------------------------------------------------------
(* Type correctness. *)

WriterLabels == {"save decision", "read active", "read overlay", "put active",
                 "put audit", "put telemetry", "read index", "put index"}

PurgerLabels == {"delete active", "list audit", "delete audit", "clear telemetry"}

\* Runs write and purges purge, and a run in flight holds what it upserts.
CallsInRole ==
    \A p \in Calls :
        /\ pc[p] \in WriterLabels => p \in Runs /\ local[p].partial # None
        /\ pc[p] \in PurgerLabels => p \in Purges
        /\ pc[p] = "put index" => local[p].rows \subseteq Runs

TypeInv == TypeOK /\ CallsInRole

\* What a first creation makes of a partial, and what a merge makes of two.
LEMMA CreationIsPartial ==
    ASSUME NEW q \in Handed, NEW p \in Runs
    PROVE  LET m == merge_two_contracts(None, q, p)
           IN  /\ m \in Stored
               /\ m.uuid = IF q.uuid = None THEN p ELSE q.uuid
               /\ m.version = q.version /\ m.tags = q.tags
               /\ m.field = q.field /\ m.privacy = q.privacy
<1> DEFINE m == merge_two_contracts(None, q, p)
<1>1. m = [q EXCEPT !.uuid = IF @ = None THEN p ELSE @]
  BY DEF merge_two_contracts
<1> QED
  BY <1>1 DEF Stored, Handed

LEMMA MergeAddsToContract ==
    ASSUME NEW e \in Stored, NEW q \in Handed, NEW p \in Runs
    PROVE  LET m == merge_two_contracts(e, q, p)
           IN  /\ m \in Stored
               /\ m.uuid = e.uuid /\ m.version = e.version + 1
               /\ m.tags = e.tags \cup q.tags
<1> DEFINE m == merge_two_contracts(e, q, p)
<1>1. e # None
  BY DEF Stored, Handed
<1>2. m = [e EXCEPT !.version = @ + 1, !.tags = @ \cup q.tags, !.field = q.field,
                    !.privacy = @ \/ q.privacy]
  BY <1>1 DEF merge_two_contracts
<1>3. m = [uuid |-> e.uuid, version |-> e.version + 1, tags |-> e.tags \cup q.tags,
           field |-> q.field, privacy |-> e.privacy \/ q.privacy]
  BY <1>2 DEF Stored
<1> QED
  BY <1>3 DEF Stored, Handed

\* The contract a run is about to write, once it holds what it upserts.
LEMMA OutcomeTyped ==
    ASSUME NEW p \in Runs, local[p].existing \in Stored \cup {None}, local[p].partial \in Handed
    PROVE  /\ Outcome(p) \in Stored
           /\ local[p].decided => Outcome(p).privacy = FALSE
<1> DEFINE m == merge_two_contracts(local[p].existing, local[p].partial, p)
<1>1. m \in Stored
  BY CreationIsPartial, MergeAddsToContract
<1>2. [m EXCEPT !.privacy = FALSE] \in Stored /\ [m EXCEPT !.privacy = FALSE].privacy = FALSE
  BY <1>1 DEF Stored
<1>3. Outcome(p) = IF local[p].decided THEN [m EXCEPT !.privacy = FALSE] ELSE m
  BY DEF Outcome
<1> HIDE DEF m
<1> QED
  BY <1>1, <1>2, <1>3

LEMMA IdleTyped == Idle \in Local
BY DEF Idle, Local

LEMMA ScanTyped == \A p \in Scans : ScanPartial(p) \in Handed
BY DEF ScanPartial, Handed

\* A call goes on under label l and holds h.
Becomes(p, l, h) ==
    /\ pc' = [pc EXCEPT ![p] = l]
    /\ local' = [local EXCEPT ![p] = h]

LEMMA CallMoves ==
    ASSUME TypeInv, NEW p \in Calls, NEW l \in Labels, NEW h \in Local, Becomes(p, l, h),
           l \in WriterLabels => p \in Runs /\ h.partial # None,
           l \in PurgerLabels => p \in Purges,
           l = "put index" => h.rows \subseteq Runs
    PROVE  /\ pc' \in [Calls -> Labels] /\ local' \in [Calls -> Local]
           /\ CallsInRole'
           /\ pc'[p] = l /\ local'[p] = h
           /\ \A q \in Calls \ {p} : pc'[q] = pc[q] /\ local'[q] = local[q]
BY DEF Becomes, TypeInv, TypeOK, CallsInRole, WriterLabels, PurgerLabels

LEMMA StepTyped ==
    ASSUME TypeInv, NEW p \in Calls,
           StartScan(p) \/ set_pii_decision(p) \/ upsert(p) \/ purge(p) \/ Crash(p)
    PROVE  TypeInv'
<1> USE DEF TypeInv
<1>L. local' = local => local' = [local EXCEPT ![p] = local[p]]
  BY DEF TypeOK
<1>S. local[p] \in Local /\ Stored \subseteq Handed
  BY DEF Stored, Handed, TypeOK
<1>O. pc[p] \in WriterLabels => Outcome(p) \in Stored
  BY <1>S, OutcomeTyped DEF CallsInRole, Local
<1> USE DEF Labels, WriterLabels, PurgerLabels
<1>1. CASE StartScan(p)
  <2> DEFINE l == "read overlay"
  <2> DEFINE h == [local[p] EXCEPT !.partial = ScanPartial(p), !.existing = active]
  <2>0. h.partial = ScanPartial(p) /\ ScanPartial(p) # None
    BY <1>1, <1>S, ScanTyped DEF Local, StartScan
  <2>1. h \in Local /\ (l \in WriterLabels => p \in Runs /\ h.partial # None)
        /\ (l \in PurgerLabels => p \in Purges) /\ (l = "put index" => h.rows \subseteq Runs)
    BY <1>1, <1>S, <2>0, ScanTyped DEF StartScan, Arrive, Goto, TypeOK, CallsInRole, Local
  <2>2. Becomes(p, l, h)
    BY <1>1, <1>L, <1>S DEF StartScan, Arrive, Goto, Becomes
  <2>3. pc' \in [Calls -> Labels] /\ local' \in [Calls -> Local] /\ CallsInRole'
    BY <2>1, <2>2, CallMoves
  <2> QED
    BY <1>1, <1>S, <1>O, <2>3 DEF StartScan, Arrive, Goto, TypeOK, stored, Auxiliary
<1>2. CASE StartDecision(p)
  <2> DEFINE l == "save decision"
  <2> DEFINE h == [local[p] EXCEPT !.partial = active]
  <2>1. h \in Local /\ (l \in WriterLabels => p \in Runs /\ h.partial # None)
        /\ (l \in PurgerLabels => p \in Purges) /\ (l = "put index" => h.rows \subseteq Runs)
    BY <1>2, <1>S, IdleTyped DEF StartDecision, Arrive, Goto, TypeOK, CallsInRole, Local
  <2>2. Becomes(p, l, h)
    BY <1>2, <1>L, <1>S DEF StartDecision, Arrive, Goto, Becomes
  <2>3. pc' \in [Calls -> Labels] /\ local' \in [Calls -> Local] /\ CallsInRole'
    BY <2>1, <2>2, CallMoves
  <2> QED
    BY <1>2, <1>S, <1>O, <2>3 DEF StartDecision, Arrive, Goto, TypeOK, stored, Auxiliary
<1>3. CASE SaveDecision(p)
  <2> DEFINE l == "read active"
  <2> DEFINE h == local[p]
  <2>1. h \in Local /\ (l \in WriterLabels => p \in Runs /\ h.partial # None)
        /\ (l \in PurgerLabels => p \in Purges) /\ (l = "put index" => h.rows \subseteq Runs)
    BY <1>3, <1>S, IdleTyped DEF SaveDecision, Goto, TypeOK, CallsInRole, Local
  <2>2. Becomes(p, l, h)
    BY <1>3, <1>L, <1>S DEF SaveDecision, Goto, Becomes
  <2>3. pc' \in [Calls -> Labels] /\ local' \in [Calls -> Local] /\ CallsInRole'
    BY <2>1, <2>2, CallMoves
  <2> QED
    BY <1>3, <1>S, <1>O, <2>3 DEF SaveDecision, Goto, TypeOK, stored, Auxiliary
<1>4. CASE ReadActive(p)
  <2> DEFINE c == IdentityConflict(active, local[p].partial)
  <2> DEFINE l == IF c THEN "failed" ELSE "read overlay"
  <2> DEFINE h == IF c THEN Idle ELSE [local[p] EXCEPT !.existing = active]
  <2>1. h \in Local /\ (l \in WriterLabels => p \in Runs /\ h.partial # None)
        /\ (l \in PurgerLabels => p \in Purges) /\ (l = "put index" => h.rows \subseteq Runs)
    BY <1>4, <1>S, IdleTyped DEF ReadActive, End, Goto, TypeOK, CallsInRole, Local
  <2>2. Becomes(p, l, h)
    BY <1>4, <1>L, <1>S DEF ReadActive, End, Goto, Becomes
  <2>3. pc' \in [Calls -> Labels] /\ local' \in [Calls -> Local] /\ CallsInRole'
    BY <2>1, <2>2, CallMoves
  <2> QED
    BY <1>4, <1>S, <1>O, <2>3 DEF ReadActive, End, Goto, TypeOK, stored, Auxiliary
<1>5. CASE ReadOverlay(p)
  <2> DEFINE l == "put active"
  <2> DEFINE h == [local[p] EXCEPT !.decided = decided]
  <2>1. h \in Local /\ (l \in WriterLabels => p \in Runs /\ h.partial # None)
        /\ (l \in PurgerLabels => p \in Purges) /\ (l = "put index" => h.rows \subseteq Runs)
    BY <1>5, <1>S, IdleTyped DEF ReadOverlay, Goto, TypeOK, CallsInRole, Local
  <2>2. Becomes(p, l, h)
    BY <1>5, <1>L, <1>S DEF ReadOverlay, Goto, Becomes
  <2>3. pc' \in [Calls -> Labels] /\ local' \in [Calls -> Local] /\ CallsInRole'
    BY <2>1, <2>2, CallMoves
  <2> QED
    BY <1>5, <1>S, <1>O, <2>3 DEF ReadOverlay, Goto, TypeOK, stored, Auxiliary
<1>6. CASE PutActive(p)
  <2> DEFINE l == "put audit"
  <2> DEFINE h == local[p]
  <2>1. h \in Local /\ (l \in WriterLabels => p \in Runs /\ h.partial # None)
        /\ (l \in PurgerLabels => p \in Purges) /\ (l = "put index" => h.rows \subseteq Runs)
    BY <1>6, <1>S, IdleTyped DEF PutActive, Goto, TypeOK, CallsInRole, Local
  <2>2. Becomes(p, l, h)
    BY <1>6, <1>L, <1>S DEF PutActive, Goto, Becomes
  <2>3. pc' \in [Calls -> Labels] /\ local' \in [Calls -> Local] /\ CallsInRole'
    BY <2>1, <2>2, CallMoves
  <2> QED
    BY <1>6, <1>S, <1>O, <2>3 DEF PutActive, Goto, TypeOK, stored, Auxiliary
<1>7. CASE PutAudit(p)
  <2> DEFINE l == "put telemetry"
  <2> DEFINE h == local[p]
  <2>1. h \in Local /\ (l \in WriterLabels => p \in Runs /\ h.partial # None)
        /\ (l \in PurgerLabels => p \in Purges) /\ (l = "put index" => h.rows \subseteq Runs)
    BY <1>7, <1>S, IdleTyped DEF PutAudit, Goto, TypeOK, CallsInRole, Local
  <2>2. Becomes(p, l, h)
    BY <1>7, <1>L, <1>S DEF PutAudit, Goto, Becomes
  <2>3. pc' \in [Calls -> Labels] /\ local' \in [Calls -> Local] /\ CallsInRole'
    BY <2>1, <2>2, CallMoves
  <2> QED
    BY <1>7, <1>S, <1>O, <2>3 DEF PutAudit, Goto, TypeOK, stored, Auxiliary
<1>8. CASE PutTelemetry(p)
  <2> DEFINE l == "read index"
  <2> DEFINE h == local[p]
  <2>1. h \in Local /\ (l \in WriterLabels => p \in Runs /\ h.partial # None)
        /\ (l \in PurgerLabels => p \in Purges) /\ (l = "put index" => h.rows \subseteq Runs)
    BY <1>8, <1>S, IdleTyped DEF PutTelemetry, Goto, TypeOK, CallsInRole, Local
  <2>2. Becomes(p, l, h)
    BY <1>8, <1>L, <1>S DEF PutTelemetry, Goto, Becomes
  <2>3. pc' \in [Calls -> Labels] /\ local' \in [Calls -> Local] /\ CallsInRole'
    BY <2>1, <2>2, CallMoves
  <2> QED
    BY <1>8, <1>S, <1>O, <2>3 DEF PutTelemetry, Goto, TypeOK, stored, Auxiliary, Stored
<1>9. CASE ReadIndex(p)
  <2> DEFINE l == "put index"
  <2> DEFINE h == [local[p] EXCEPT !.rows = index]
  <2>1. h \in Local /\ (l \in WriterLabels => p \in Runs /\ h.partial # None)
        /\ (l \in PurgerLabels => p \in Purges) /\ (l = "put index" => h.rows \subseteq Runs)
    BY <1>9, <1>S, IdleTyped DEF ReadIndex, Goto, TypeOK, CallsInRole, Local
  <2>2. Becomes(p, l, h)
    BY <1>9, <1>L, <1>S DEF ReadIndex, Goto, Becomes
  <2>3. pc' \in [Calls -> Labels] /\ local' \in [Calls -> Local] /\ CallsInRole'
    BY <2>1, <2>2, CallMoves
  <2> QED
    BY <1>9, <1>S, <1>O, <2>3 DEF ReadIndex, Goto, TypeOK, stored, Auxiliary
<1>10. CASE PutIndex(p)
  <2> DEFINE l == "done"
  <2> DEFINE h == Idle
  <2>1. h \in Local /\ (l \in WriterLabels => p \in Runs /\ h.partial # None)
        /\ (l \in PurgerLabels => p \in Purges) /\ (l = "put index" => h.rows \subseteq Runs)
    BY <1>10, <1>S, IdleTyped DEF PutIndex, End, Goto, TypeOK, CallsInRole, Local
  <2>2. Becomes(p, l, h)
    BY <1>10, <1>L, <1>S DEF PutIndex, End, Goto, Becomes
  <2>3. pc' \in [Calls -> Labels] /\ local' \in [Calls -> Local] /\ CallsInRole'
    BY <2>1, <2>2, CallMoves
  <2>4. index' \in SUBSET Runs
    BY <1>10, <1>S DEF PutIndex, CallsInRole
  <2> QED
    BY <1>10, <2>3, <2>4 DEF PutIndex, TypeOK, Auxiliary
<1>11. CASE StartPurge(p)
  <2> DEFINE l == "delete active"
  <2> DEFINE h == local[p]
  <2>1. h \in Local /\ (l \in WriterLabels => p \in Runs /\ h.partial # None)
        /\ (l \in PurgerLabels => p \in Purges) /\ (l = "put index" => h.rows \subseteq Runs)
    BY <1>11, <1>S, IdleTyped DEF StartPurge, Arrive, Goto, TypeOK, CallsInRole, Local
  <2>2. Becomes(p, l, h)
    BY <1>11, <1>L, <1>S DEF StartPurge, Arrive, Goto, Becomes
  <2>3. pc' \in [Calls -> Labels] /\ local' \in [Calls -> Local] /\ CallsInRole'
    BY <2>1, <2>2, CallMoves
  <2> QED
    BY <1>11, <1>S, <1>O, <2>3 DEF StartPurge, Arrive, Goto, TypeOK, stored, Auxiliary
<1>12. CASE DeleteActive(p)
  <2> DEFINE l == "list audit"
  <2> DEFINE h == local[p]
  <2>1. h \in Local /\ (l \in WriterLabels => p \in Runs /\ h.partial # None)
        /\ (l \in PurgerLabels => p \in Purges) /\ (l = "put index" => h.rows \subseteq Runs)
    BY <1>12, <1>S, IdleTyped DEF DeleteActive, Goto, TypeOK, CallsInRole, Local
  <2>2. Becomes(p, l, h)
    BY <1>12, <1>L, <1>S DEF DeleteActive, Goto, Becomes
  <2>3. pc' \in [Calls -> Labels] /\ local' \in [Calls -> Local] /\ CallsInRole'
    BY <2>1, <2>2, CallMoves
  <2> QED
    BY <1>12, <1>S, <1>O, <2>3 DEF DeleteActive, Goto, TypeOK, stored, Auxiliary
<1>13. CASE ListAudit(p)
  <2> DEFINE l == "delete audit"
  <2> DEFINE h == [local[p] EXCEPT !.rows = {r \in Runs : audit[r] # None} \cup {k \in {IndexKey} : index # {}}]
  <2>1. h \in Local /\ (l \in WriterLabels => p \in Runs /\ h.partial # None)
        /\ (l \in PurgerLabels => p \in Purges) /\ (l = "put index" => h.rows \subseteq Runs)
    BY <1>13, <1>S, IdleTyped DEF ListAudit, Goto, TypeOK, CallsInRole, Local
  <2>2. Becomes(p, l, h)
    BY <1>13, <1>L, <1>S DEF ListAudit, Goto, Becomes
  <2>3. pc' \in [Calls -> Labels] /\ local' \in [Calls -> Local] /\ CallsInRole'
    BY <2>1, <2>2, CallMoves
  <2> QED
    BY <1>13, <1>S, <1>O, <2>3 DEF ListAudit, Goto, TypeOK, stored, Auxiliary
<1>14. CASE ClearOverlays(p)
  <2> DEFINE l == "clear telemetry"
  <2> DEFINE h == local[p]
  <2>1. h \in Local /\ (l \in WriterLabels => p \in Runs /\ h.partial # None)
        /\ (l \in PurgerLabels => p \in Purges) /\ (l = "put index" => h.rows \subseteq Runs)
    BY <1>14, <1>S, IdleTyped DEF ClearOverlays, Goto, TypeOK, CallsInRole, Local
  <2>2. Becomes(p, l, h)
    BY <1>14, <1>L, <1>S DEF ClearOverlays, Goto, Becomes
  <2>3. pc' \in [Calls -> Labels] /\ local' \in [Calls -> Local] /\ CallsInRole'
    BY <2>1, <2>2, CallMoves
  <2> QED
    BY <1>14, <1>S, <1>O, <2>3 DEF ClearOverlays, Goto, TypeOK, stored, Auxiliary
<1>15. CASE ClearTelemetry(p)
  <2> DEFINE l == "done"
  <2> DEFINE h == Idle
  <2>1. h \in Local /\ (l \in WriterLabels => p \in Runs /\ h.partial # None)
        /\ (l \in PurgerLabels => p \in Purges) /\ (l = "put index" => h.rows \subseteq Runs)
    BY <1>15, <1>S, IdleTyped DEF ClearTelemetry, End, Goto, TypeOK, CallsInRole, Local
  <2>2. Becomes(p, l, h)
    BY <1>15, <1>L, <1>S DEF ClearTelemetry, End, Goto, Becomes
  <2>3. pc' \in [Calls -> Labels] /\ local' \in [Calls -> Local] /\ CallsInRole'
    BY <2>1, <2>2, CallMoves
  <2> QED
    BY <1>15, <1>S, <1>O, <2>3 DEF ClearTelemetry, End, Goto, TypeOK, stored, Auxiliary
<1>16. CASE Crash(p)
  <2> DEFINE l == "crashed"
  <2> DEFINE h == Idle
  <2>1. h \in Local /\ (l \in WriterLabels => p \in Runs /\ h.partial # None)
        /\ (l \in PurgerLabels => p \in Purges) /\ (l = "put index" => h.rows \subseteq Runs)
    BY <1>16, <1>S, IdleTyped DEF Crash, End, Goto, TypeOK, CallsInRole, Local
  <2>2. Becomes(p, l, h)
    BY <1>16, <1>L, <1>S DEF Crash, End, Goto, Becomes
  <2>3. pc' \in [Calls -> Labels] /\ local' \in [Calls -> Local] /\ CallsInRole'
    BY <2>1, <2>2, CallMoves
  <2> QED
    BY <1>16, <1>S, <1>O, <2>3 DEF Crash, End, Goto, TypeOK, stored, Auxiliary
<1>17. CASE DeleteAudit(p) \/ DeleteIndex(p)
  <2>1. PICK k : \/ DeleteAudit(p) /\ k \in local[p].rows \ {IndexKey}
                     /\ audit' = [audit EXCEPT ![k] = None]
                     /\ local' = [local EXCEPT ![p].rows = @ \ {k}]
                 \/ DeleteIndex(p) /\ k = IndexKey
    BY <1>17 DEF DeleteAudit
  <2> DEFINE h == [local[p] EXCEPT !.rows = @ \ {k}]
  <2>2. h \in Local /\ p \in Purges /\ pc[p] = "delete audit"
    BY <2>1, <1>S DEF DeleteAudit, DeleteIndex, TypeOK, CallsInRole, Local
  <2>3. Becomes(p, "delete audit", h)
    BY <2>1, <2>2 DEF DeleteAudit, DeleteIndex, Becomes, TypeOK
  <2>4. pc' \in [Calls -> Labels] /\ local' \in [Calls -> Local] /\ CallsInRole'
    BY <2>2, <2>3, CallMoves
  <2>5. CASE DeleteAudit(p) /\ k \in local[p].rows \ {IndexKey}
                     /\ audit' = [audit EXCEPT ![k] = None]
    BY <2>4, <2>5 DEF DeleteAudit, TypeOK, Auxiliary
  <2>6. CASE DeleteIndex(p)
    BY <2>4, <2>6 DEF DeleteIndex, TypeOK, Auxiliary
  <2> QED
    BY <2>1, <2>5, <2>6
<1> QED
  BY <1>1, <1>2, <1>3, <1>4, <1>5, <1>6, <1>7, <1>8, <1>9, <1>10, <1>11, <1>12, <1>13, <1>14, <1>15, <1>16, <1>17 DEF set_pii_decision, upsert, purge

LEMMA NextTyped ==
    ASSUME TypeInv, [Next]_vars
    PROVE  TypeInv'
<1>1. CASE Next
  BY <1>1, StepTyped DEF Next
<1>2. CASE UNCHANGED vars
  BY <1>2 DEF vars, stored, TypeInv, TypeOK, CallsInRole
<1> QED
  BY <1>1, <1>2

LEMMA InitTyped == Init => TypeInv
BY IdleTyped DEF Init, TypeInv, TypeOK, CallsInRole, Labels, WriterLabels, PurgerLabels

\* Type correctness of every store operation.
THEOREM WriteTypeCorrect == Spec => []TypeOK
<1>1. TypeInv => TypeOK
  BY DEF TypeInv
<1> QED
  BY <1>1, InitTyped, NextTyped, PTL DEF Spec

-------------------------------------------------------------------------------
(* The invariants. *)

BeforePutActive == {"idle", "save decision", "read active", "read overlay", "put active"}

\* Every run there was before or while a purge runs is marked.
PurgeMarks ==
    \A x \in Calls, q \in Runs :
        pc[x] \in PurgerLabels /\ pc[q] # "idle" => q \in purged

\* A snapshot is that of a run that came to put it.
SnapshotsArePut ==
    \A r \in Runs : audit[r] # None => pc[r] \notin BeforePutActive \cup {"put audit"}

\* What a purge has listed has at least begun.
ListedHaveBegun ==
    \A x \in Calls : pc[x] = "delete audit" =>
        \A r \in local[x].rows \cap Runs : pc[r] # "idle"

\* The row a call is about to add, or to put back, leads to a snapshot.
RowsHaveAudit ==
    \A q \in Calls :
        /\ pc[q] \in {"put telemetry", "read index", "put index"} /\ q \notin purged
           => audit[q] # None
        /\ pc[q] = "put index" => \A r \in local[q].rows \ purged : audit[r] # None

IndexInv ==
    /\ TypeInv /\ PurgeMarks /\ SnapshotsArePut /\ ListedHaveBegun
    /\ RowsHaveAudit /\ IndexedRunsHaveAudit

\* While no call died and none was purged, the active contract is audited or
\* about to be.
ActiveIsAudited ==
    (\A p \in Calls : pc[p] # "crashed") /\ purged = {} /\ active # None =>
        \E r \in Runs : audit[r] = active \/ (pc[r] = "put audit" /\ Outcome(r) = active)

(* As long as calls never overlapped. *)

Alone == \A p, q \in InFlight : p = q

\* What the call in flight has read is still what is stored.
ReadIsCurrent ==
    \A p \in Calls :
        /\ pc[p] \in {"save decision", "read active"} =>
              p \in Stewards /\ active # None /\ local[p].partial = active
        /\ pc[p] \in {"read overlay", "put active"} =>
              /\ local[p].existing = active
              /\ p \in Scans => local[p].partial = ScanPartial(p)
              /\ p \in Stewards => active # None
        /\ pc[p] = "put active" => local[p].decided = decided
        /\ pc[p] \in {"put audit", "put telemetry"} => active = Outcome(p)
        /\ pc[p] = "put index" => local[p].rows = index

\* What the purge in flight has left to do.
PurgeGoesOn ==
    \A x \in Calls :
        /\ pc[x] \in {"list audit", "delete audit", "clear telemetry"} => active = None
        /\ pc[x] = "delete audit" =>
              /\ \A r \in Runs : audit[r] # None => r \in local[x].rows
              /\ index # {} => IndexKey \in local[x].rows
        /\ pc[x] = "clear telemetry" =>
              index = {} /\ ~decided /\ \A r \in Runs : audit[r] = None

ContributionStays ==
    \A p \in Scans \ purged :
        pc[p] \in {"put audit", "put telemetry", "read index", "put index", "done"} =>
            active # None /\ p \in active.tags

RowStays == \A p \in Runs \ purged : pc[p] = "done" => p \in index

\* The identity a run would generate is new until it does.
IdentityIsNew ==
    \A u \in Runs : pc[u] \in BeforePutActive =>
        /\ active # None => active.uuid # u
        /\ \A r \in Runs : audit[r] # None => audit[r].uuid # u

\* No snapshot is ahead of the active contract it is one of.
ActiveIsNewest ==
    active # None => \A r \in Runs :
        audit[r] # None /\ audit[r].uuid = active.uuid =>
            /\ audit[r].version <= active.version
            /\ audit[r].version = active.version => audit[r] = active

VersionsNameOneContent ==
    \A p, q \in Runs :
        /\ audit[p] # None /\ audit[q] # None
        /\ audit[p].uuid = audit[q].uuid /\ audit[p].version = audit[q].version
        => audit[p] = audit[q]

StampFollows ==
    (\A p \in Calls : pc[p] # "crashed") /\ active # None =>
        \/ telemetry = [uuid |-> active.uuid, version |-> active.version]
        \/ \E p \in Calls : pc[p] \in {"put audit", "put telemetry"}

SerialState ==
    /\ Alone /\ ReadIsCurrent /\ PurgeGoesOn /\ ContributionStays /\ RowStays
    /\ IdentityIsNew /\ ActiveIsNewest /\ VersionsNameOneContent /\ StampFollows

SerialInv == ~overlapped => SerialState

-------------------------------------------------------------------------------
(* What each operation does, call by call. *)

\* An operation of one call leaves what the others hold.
LEMMA OthersStay ==
    ASSUME TypeInv, NEW p \in Calls,
           StartScan(p) \/ set_pii_decision(p) \/ upsert(p) \/ purge(p) \/ Crash(p)
    PROVE  /\ TypeInv'
           /\ \A q \in Calls \ {p} : pc'[q] = pc[q] /\ local'[q] = local[q]
           /\ pc[p] # "idle" => pc'[p] # "idle"
           /\ pc[p] \notin {"done", "failed", "crashed"}
<1>1. TypeInv'
  BY StepTyped
<1> QED
  BY <1>1 DEF TypeInv, TypeOK, set_pii_decision, upsert, purge, InFlight,
     StartScan, Arrive, Goto, StartDecision, SaveDecision, ReadActive, End, ReadOverlay, PutActive, PutAudit, PutTelemetry, ReadIndex, PutIndex, StartPurge, DeleteActive, ListAudit, DeleteAudit, DeleteIndex, ClearOverlays, ClearTelemetry, Crash

\* What a call holds after one of its fields was replaced.
LEMMA FieldReplaced ==
    ASSUME TypeInv, NEW p \in Calls, NEW v
    PROVE  /\ local' = [local EXCEPT ![p].rows = v] =>
                /\ local'[p].rows = v /\ local'[p].decided = local[p].decided
                /\ local'[p].existing = local[p].existing /\ local'[p].partial = local[p].partial
           /\ local' = [local EXCEPT ![p].decided = v] =>
                /\ local'[p].decided = v
                /\ local'[p].existing = local[p].existing /\ local'[p].partial = local[p].partial
           /\ local' = [local EXCEPT ![p].existing = v] =>
                local'[p].existing = v /\ local'[p].partial = local[p].partial
           /\ local' = [local EXCEPT ![p].partial = v] => local'[p].partial = v
           /\ \A w : local' = [local EXCEPT ![p].partial = w, ![p].existing = v] =>
                local'[p].partial = w /\ local'[p].existing = v
<1>1. p \in DOMAIN local /\ local[p] \in Local
  BY DEF TypeInv, TypeOK
<1>2. local[p] \in [existing : Stored \cup {None}, partial : Handed \cup {None},
                    decided : BOOLEAN, rows : SUBSET (Runs \cup {IndexKey})]
  BY <1>1 DEF Local
<1>3. ASSUME local' = [local EXCEPT ![p].rows = v]
      PROVE  local'[p].rows = v /\ local'[p].decided = local[p].decided
             /\ local'[p].existing = local[p].existing /\ local'[p].partial = local[p].partial
  <2>1. local'[p] = [local[p] EXCEPT !.rows = v]
    BY <1>1, <1>3
  <2> QED
    BY <1>2, <2>1
<1>4. ASSUME local' = [local EXCEPT ![p].decided = v]
      PROVE  local'[p].decided = v
             /\ local'[p].existing = local[p].existing /\ local'[p].partial = local[p].partial
  <2>1. local'[p] = [local[p] EXCEPT !.decided = v]
    BY <1>1, <1>4
  <2> QED
    BY <1>2, <2>1
<1>5. ASSUME local' = [local EXCEPT ![p].existing = v]
      PROVE  local'[p].existing = v /\ local'[p].partial = local[p].partial
  <2>1. local'[p] = [local[p] EXCEPT !.existing = v]
    BY <1>1, <1>5
  <2> QED
    BY <1>2, <2>1
<1>6. ASSUME local' = [local EXCEPT ![p].partial = v]
      PROVE  local'[p].partial = v
  <2>1. local'[p] = [local[p] EXCEPT !.partial = v]
    BY <1>1, <1>6
  <2> QED
    BY <1>2, <2>1
<1>7. ASSUME NEW w, local' = [local EXCEPT ![p].partial = w, ![p].existing = v]
      PROVE  local'[p].partial = w /\ local'[p].existing = v
  <2>1. local'[p] = [local[p] EXCEPT !.partial = w, !.existing = v]
    BY <1>1, <1>7
  <2> QED
    BY <1>2, <2>1
<1> QED
  BY <1>3, <1>4, <1>5, <1>6, <1>7

\* Purges in flight mark the runs that begin.
LEMMA PurgersAreSeen ==
    ASSUME TypeInv
    PROVE  \A x \in Calls : pc[x] \in PurgerLabels => x \in InFlight \cap Purges
BY DEF TypeInv, CallsInRole, InFlight, PurgerLabels

LEMMA StartScanDoes ==
    ASSUME TypeInv, NEW p \in Calls, StartScan(p)
    PROVE  /\ p \in Scans /\ pc[p] = "idle" /\ pc'[p] = "read overlay"
           /\ UNCHANGED <<active, audit, index, telemetry, decided>>
           /\ local'[p].existing = active /\ local'[p].partial = ScanPartial(p)
           /\ overlapped' = (overlapped \/ InFlight # {})
           /\ purged \subseteq purged' /\ (InFlight \cap Purges # {} => p \in purged')
<1>1. local'[p].existing = active /\ local'[p].partial = ScanPartial(p)
  BY FieldReplaced DEF StartScan, Arrive, Goto
<1> QED
  BY <1>1 DEF StartScan, Arrive, Goto, TypeInv, TypeOK, CallsInRole,
      WriterLabels, PurgerLabels, stored, Auxiliary

LEMMA StartDecisionDoes ==
    ASSUME TypeInv, NEW p \in Calls, StartDecision(p)
    PROVE  /\ p \in Stewards /\ pc[p] = "idle" /\ pc'[p] = "save decision" /\ active # None
           /\ UNCHANGED <<active, audit, index, telemetry, decided>>
           /\ local'[p].partial = active
           /\ overlapped' = (overlapped \/ InFlight # {})
           /\ purged \subseteq purged' /\ (InFlight \cap Purges # {} => p \in purged')
<1>1. local'[p].partial = active
  BY FieldReplaced DEF StartDecision, Arrive, Goto
<1> QED
  BY <1>1 DEF StartDecision, Arrive, Goto, TypeInv, TypeOK, CallsInRole,
      WriterLabels, PurgerLabels, stored, Auxiliary

LEMMA SaveDecisionDoes ==
    ASSUME TypeInv, NEW p \in Calls, SaveDecision(p)
    PROVE  /\ p \in Runs /\ pc[p] = "save decision" /\ pc'[p] = "read active"
           /\ UNCHANGED <<active, audit, index, telemetry, overlapped, purged>>
           /\ decided' = TRUE /\ local'[p] = local[p]
BY DEF SaveDecision, Goto, TypeInv, TypeOK, CallsInRole,
      WriterLabels, PurgerLabels, stored, Auxiliary

LEMMA ReadActiveDoes ==
    ASSUME TypeInv, NEW p \in Calls, ReadActive(p)
    PROVE  /\ p \in Runs /\ pc[p] = "read active"
           /\ \/ pc'[p] = "failed"
              \/ pc'[p] = "read overlay" /\ local'[p].existing = active /\ local'[p].partial = local[p].partial
           /\ UNCHANGED <<active, audit, index, telemetry, decided, overlapped, purged>>
<1> DEFINE c == IdentityConflict(active, local[p].partial)
<1>1. ASSUME ~c
      PROVE  local'[p].existing = active /\ local'[p].partial = local[p].partial
  <2>1. local' = [local EXCEPT ![p].existing = active]
    BY <1>1 DEF ReadActive
  <2> QED
    BY <2>1, FieldReplaced
<1>2. pc'[p] = IF c THEN "failed" ELSE "read overlay"
  BY DEF ReadActive, End, Goto, TypeInv, TypeOK
<1> QED
  BY <1>1, <1>2 DEF ReadActive, TypeInv, CallsInRole, WriterLabels, stored, Auxiliary

LEMMA ReadOverlayDoes ==
    ASSUME TypeInv, NEW p \in Calls, ReadOverlay(p)
    PROVE  /\ p \in Runs /\ pc[p] = "read overlay" /\ pc'[p] = "put active"
           /\ UNCHANGED <<active, audit, index, telemetry, decided, overlapped, purged>>
           /\ local'[p].existing = local[p].existing /\ local'[p].partial = local[p].partial
           /\ local'[p].decided = decided
<1>1. /\ local'[p].existing = local[p].existing /\ local'[p].partial = local[p].partial
           /\ local'[p].decided = decided
  BY FieldReplaced DEF ReadOverlay, Goto
<1> QED
  BY <1>1 DEF ReadOverlay, Goto, TypeInv, TypeOK, CallsInRole,
      WriterLabels, PurgerLabels, stored, Auxiliary

LEMMA PutActiveDoes ==
    ASSUME TypeInv, NEW p \in Calls, PutActive(p)
    PROVE  /\ p \in Runs /\ pc[p] = "put active" /\ pc'[p] = "put audit"
           /\ UNCHANGED <<audit, index, telemetry, decided, overlapped, purged>>
           /\ active' = Outcome(p) /\ local'[p] = local[p]
BY DEF PutActive, Goto, TypeInv, TypeOK, CallsInRole,
      WriterLabels, PurgerLabels, stored, Auxiliary

LEMMA PutAuditDoes ==
    ASSUME TypeInv, NEW p \in Calls, PutAudit(p)
    PROVE  /\ p \in Runs /\ pc[p] = "put audit" /\ pc'[p] = "put telemetry"
           /\ UNCHANGED <<active, index, telemetry, decided, overlapped, purged>>
           /\ audit'[p] = Outcome(p) /\ Outcome(p) # None /\ \A r \in Runs \ {p} : audit'[r] = audit[r]
           /\ local'[p] = local[p]
<1>1. p \in Runs /\ local[p] \in Local /\ local[p].partial # None
  BY DEF PutAudit, TypeInv, TypeOK, CallsInRole, WriterLabels
<1>2. Outcome(p) \in Stored
  BY <1>1, OutcomeTyped DEF Local
<1>3. Outcome(p) # None
  BY <1>2 DEF Stored, Handed
<1> QED
  BY <1>1, <1>3 DEF PutAudit, Goto, TypeInv, TypeOK, CallsInRole,
      WriterLabels, PurgerLabels, stored, Auxiliary

LEMMA PutTelemetryDoes ==
    ASSUME TypeInv, NEW p \in Calls, PutTelemetry(p)
    PROVE  /\ p \in Runs /\ pc[p] = "put telemetry" /\ pc'[p] = "read index"
           /\ UNCHANGED <<active, audit, index, decided, overlapped, purged>>
           /\ telemetry' = [uuid |-> Outcome(p).uuid, version |-> Outcome(p).version]
BY DEF PutTelemetry, Goto, TypeInv, TypeOK, CallsInRole,
      WriterLabels, PurgerLabels, stored, Auxiliary

LEMMA ReadIndexDoes ==
    ASSUME TypeInv, NEW p \in Calls, ReadIndex(p)
    PROVE  /\ p \in Runs /\ pc[p] = "read index" /\ pc'[p] = "put index"
           /\ UNCHANGED <<active, audit, index, telemetry, decided, overlapped, purged>>
           /\ local'[p].rows = index
<1>1. local'[p].rows = index
  BY FieldReplaced DEF ReadIndex, Goto
<1> QED
  BY <1>1 DEF ReadIndex, Goto, TypeInv, TypeOK, CallsInRole,
      WriterLabels, PurgerLabels, stored, Auxiliary

LEMMA PutIndexDoes ==
    ASSUME TypeInv, NEW p \in Calls, PutIndex(p)
    PROVE  /\ p \in Runs /\ pc[p] = "put index" /\ pc'[p] = "done"
           /\ UNCHANGED <<active, audit, telemetry, decided, overlapped, purged>>
           /\ index' = local[p].rows \cup {p}
BY DEF PutIndex, End, Goto, TypeInv, TypeOK, CallsInRole,
      WriterLabels, PurgerLabels, stored, Auxiliary

LEMMA StartPurgeDoes ==
    ASSUME TypeInv, NEW p \in Calls, StartPurge(p)
    PROVE  /\ p \in Purges /\ pc[p] = "idle" /\ pc'[p] = "delete active"
           /\ UNCHANGED <<active, audit, index, telemetry, decided>>
           /\ overlapped' = (overlapped \/ InFlight # {})
           /\ purged \subseteq purged' /\ \A q \in Runs : pc[q] # "idle" => q \in purged'
BY DEF StartPurge, Arrive, Goto, TypeInv, TypeOK, CallsInRole,
      WriterLabels, PurgerLabels, stored, Auxiliary

LEMMA DeleteActiveDoes ==
    ASSUME TypeInv, NEW p \in Calls, DeleteActive(p)
    PROVE  /\ p \in Purges /\ pc[p] = "delete active" /\ pc'[p] = "list audit"
           /\ UNCHANGED <<audit, index, telemetry, decided, overlapped, purged>>
           /\ active' = None
BY DEF DeleteActive, Goto, TypeInv, TypeOK, CallsInRole,
      WriterLabels, PurgerLabels, stored, Auxiliary

LEMMA ListAuditDoes ==
    ASSUME TypeInv, NEW p \in Calls, ListAudit(p)
    PROVE  /\ p \in Purges /\ pc[p] = "list audit" /\ pc'[p] = "delete audit"
           /\ UNCHANGED <<active, audit, index, telemetry, decided, overlapped, purged>>
           /\ local'[p].rows = {r \in Runs : audit[r] # None} \cup {k \in {IndexKey} : index # {}}
<1>1. local'[p].rows = {r \in Runs : audit[r] # None} \cup {k \in {IndexKey} : index # {}}
  BY FieldReplaced DEF ListAudit, Goto
<1> QED
  BY <1>1 DEF ListAudit, Goto, TypeInv, TypeOK, CallsInRole,
      WriterLabels, PurgerLabels, stored, Auxiliary

LEMMA DeleteAuditDoes ==
    ASSUME TypeInv, NEW p \in Calls, DeleteAudit(p)
    PROVE  /\ p \in Purges /\ pc[p] = "delete audit" /\ pc'[p] = "delete audit"
           /\ UNCHANGED <<active, index, telemetry, decided, overlapped, purged>>
           /\ \E k \in local[p].rows \cap Runs :
              /\ audit'[k] = None /\ \A r \in Runs \ {k} : audit'[r] = audit[r]
              /\ local'[p].rows = local[p].rows \ {k}
<1>1. PICK k \in local[p].rows \ {IndexKey} :
         audit' = [audit EXCEPT ![k] = None] /\ local' = [local EXCEPT ![p].rows = @ \ {k}]
  BY DEF DeleteAudit
<1>2. k \in Runs /\ local'[p].rows = local[p].rows \ {k}
  BY <1>1, FieldReplaced DEF TypeInv, TypeOK, Local
<1>3. audit'[k] = None /\ \A r \in Runs \ {k} : audit'[r] = audit[r]
  BY <1>1, <1>2 DEF TypeInv, TypeOK
<1> QED
  BY <1>1, <1>2, <1>3 DEF DeleteAudit, TypeInv, TypeOK, CallsInRole,
      WriterLabels, PurgerLabels, stored, Auxiliary

LEMMA DeleteIndexDoes ==
    ASSUME TypeInv, NEW p \in Calls, DeleteIndex(p)
    PROVE  /\ p \in Purges /\ pc[p] = "delete audit" /\ pc'[p] = "delete audit"
           /\ UNCHANGED <<active, audit, telemetry, decided, overlapped, purged>>
           /\ index' = {} /\ local'[p].rows = local[p].rows \ {IndexKey}
<1>1. index' = {} /\ local'[p].rows = local[p].rows \ {IndexKey}
  BY FieldReplaced DEF DeleteIndex
<1> QED
  BY <1>1 DEF DeleteIndex, TypeInv, TypeOK, CallsInRole,
      WriterLabels, PurgerLabels, stored, Auxiliary

LEMMA ClearOverlaysDoes ==
    ASSUME TypeInv, NEW p \in Calls, ClearOverlays(p)
    PROVE  /\ p \in Purges /\ pc[p] = "delete audit" /\ pc'[p] = "clear telemetry"
           /\ UNCHANGED <<active, audit, index, telemetry, overlapped, purged>>
           /\ local[p].rows = {} /\ ~decided'
BY DEF ClearOverlays, Goto, TypeInv, TypeOK, CallsInRole,
      WriterLabels, PurgerLabels, stored, Auxiliary

LEMMA ClearTelemetryDoes ==
    ASSUME TypeInv, NEW p \in Calls, ClearTelemetry(p)
    PROVE  /\ p \in Purges /\ pc[p] = "clear telemetry" /\ pc'[p] = "done"
           /\ UNCHANGED <<active, audit, index, decided, overlapped, purged>>
           /\ telemetry' = None
BY DEF ClearTelemetry, End, Goto, TypeInv, TypeOK, CallsInRole,
      WriterLabels, PurgerLabels, stored, Auxiliary

LEMMA CrashDoes ==
    ASSUME TypeInv, NEW p \in Calls, Crash(p)
    PROVE  /\ p \in InFlight /\ pc'[p] = "crashed"
           /\ UNCHANGED <<active, audit, index, telemetry, decided, overlapped, purged>>
BY DEF Crash, End, Goto, TypeInv, TypeOK, CallsInRole,
      WriterLabels, PurgerLabels, stored, Auxiliary

-------------------------------------------------------------------------------
(* Who writes what. *)

Step(p) == StartScan(p) \/ set_pii_decision(p) \/ upsert(p) \/ purge(p) \/ Crash(p)

\* A call that has returned, or has not begun.
Resting == {"idle", "done", "failed", "crashed"}

Starts(p) == StartScan(p) \/ StartDecision(p) \/ StartPurge(p)

\* Every stored object has two operations that write it, a put and a delete.
LEMMA WhoWrites ==
    ASSUME TypeInv, NEW p \in Calls, Step(p)
    PROVE  /\ active' = active \/ PutActive(p) \/ DeleteActive(p)
           /\ audit' = audit \/ PutAudit(p) \/ DeleteAudit(p)
           /\ index' = index \/ PutIndex(p) \/ DeleteIndex(p)
           /\ telemetry' = telemetry \/ PutTelemetry(p) \/ ClearTelemetry(p)
           /\ decided' = decided \/ SaveDecision(p) \/ ClearOverlays(p)
           /\ purged \subseteq purged'
           /\ overlapped => overlapped'
<1>1. CASE StartScan(p)
  BY <1>1, StartScanDoes
<1>2. CASE StartDecision(p)
  BY <1>2, StartDecisionDoes
<1>3. CASE SaveDecision(p)
  BY <1>3, SaveDecisionDoes
<1>4. CASE ReadActive(p)
  BY <1>4, ReadActiveDoes
<1>5. CASE ReadOverlay(p)
  BY <1>5, ReadOverlayDoes
<1>6. CASE PutActive(p)
  BY <1>6, PutActiveDoes
<1>7. CASE PutAudit(p)
  BY <1>7, PutAuditDoes
<1>8. CASE PutTelemetry(p)
  BY <1>8, PutTelemetryDoes
<1>9. CASE ReadIndex(p)
  BY <1>9, ReadIndexDoes
<1>10. CASE PutIndex(p)
  BY <1>10, PutIndexDoes
<1>11. CASE StartPurge(p)
  BY <1>11, StartPurgeDoes
<1>12. CASE DeleteActive(p)
  BY <1>12, DeleteActiveDoes
<1>13. CASE ListAudit(p)
  BY <1>13, ListAuditDoes
<1>14. CASE DeleteAudit(p)
  BY <1>14, DeleteAuditDoes
<1>15. CASE DeleteIndex(p)
  BY <1>15, DeleteIndexDoes
<1>16. CASE ClearOverlays(p)
  BY <1>16, ClearOverlaysDoes
<1>17. CASE ClearTelemetry(p)
  BY <1>17, ClearTelemetryDoes
<1>18. CASE Crash(p)
  BY <1>18, CrashDoes
<1> QED
  BY <1>1, <1>2, <1>3, <1>4, <1>5, <1>6, <1>7, <1>8, <1>9, <1>10, <1>11, <1>12, <1>13, <1>14, <1>15, <1>16, <1>17, <1>18 DEF Step, set_pii_decision, upsert, purge

\* Every label has the operations that lead to it.
LEMMA WhoArrives ==
    ASSUME TypeInv, NEW p \in Calls, Step(p)
    PROVE  /\ pc'[p] # "idle"
           /\ pc'[p] = "save decision" => StartDecision(p)
           /\ pc'[p] = "read active" => SaveDecision(p)
           /\ pc'[p] = "read overlay" => StartScan(p) \/ ReadActive(p)
           /\ pc'[p] = "put active" => ReadOverlay(p)
           /\ pc'[p] = "put audit" => PutActive(p)
           /\ pc'[p] = "put telemetry" => PutAudit(p)
           /\ pc'[p] = "read index" => PutTelemetry(p)
           /\ pc'[p] = "put index" => ReadIndex(p)
           /\ pc'[p] = "delete active" => StartPurge(p)
           /\ pc'[p] = "list audit" => DeleteActive(p)
           /\ pc'[p] = "delete audit" => ListAudit(p) \/ DeleteAudit(p) \/ DeleteIndex(p)
           /\ pc'[p] = "clear telemetry" => ClearOverlays(p)
           /\ pc'[p] = "done" => PutIndex(p) \/ ClearTelemetry(p)
           /\ pc'[p] = "failed" => ReadActive(p)
           /\ pc'[p] = "crashed" => Crash(p)
<1>1. CASE StartScan(p)
  BY <1>1, StartScanDoes
<1>2. CASE StartDecision(p)
  BY <1>2, StartDecisionDoes
<1>3. CASE SaveDecision(p)
  BY <1>3, SaveDecisionDoes
<1>4. CASE ReadActive(p)
  BY <1>4, ReadActiveDoes
<1>5. CASE ReadOverlay(p)
  BY <1>5, ReadOverlayDoes
<1>6. CASE PutActive(p)
  BY <1>6, PutActiveDoes
<1>7. CASE PutAudit(p)
  BY <1>7, PutAuditDoes
<1>8. CASE PutTelemetry(p)
  BY <1>8, PutTelemetryDoes
<1>9. CASE ReadIndex(p)
  BY <1>9, ReadIndexDoes
<1>10. CASE PutIndex(p)
  BY <1>10, PutIndexDoes
<1>11. CASE StartPurge(p)
  BY <1>11, StartPurgeDoes
<1>12. CASE DeleteActive(p)
  BY <1>12, DeleteActiveDoes
<1>13. CASE ListAudit(p)
  BY <1>13, ListAuditDoes
<1>14. CASE DeleteAudit(p)
  BY <1>14, DeleteAuditDoes
<1>15. CASE DeleteIndex(p)
  BY <1>15, DeleteIndexDoes
<1>16. CASE ClearOverlays(p)
  BY <1>16, ClearOverlaysDoes
<1>17. CASE ClearTelemetry(p)
  BY <1>17, ClearTelemetryDoes
<1>18. CASE Crash(p)
  BY <1>18, CrashDoes
<1> QED
  BY <1>1, <1>2, <1>3, <1>4, <1>5, <1>6, <1>7, <1>8, <1>9, <1>10, <1>11, <1>12, <1>13, <1>14, <1>15, <1>16, <1>17, <1>18 DEF Step, set_pii_decision, upsert, purge

\* Some labels have one operation that leaves them.
LEMMA WhoLeaves ==
    ASSUME TypeInv, NEW p \in Calls, Step(p)
    PROVE  /\ pc[p] = "idle" => Starts(p)
           /\ pc[p] = "put audit" => PutAudit(p) \/ Crash(p)
           /\ pc[p] = "put telemetry" => PutTelemetry(p) \/ Crash(p)
<1> USE DEF Starts, InFlight
<1>1. CASE StartScan(p)
  BY <1>1, StartScanDoes
<1>2. CASE StartDecision(p)
  BY <1>2, StartDecisionDoes
<1>3. CASE SaveDecision(p)
  BY <1>3, SaveDecisionDoes
<1>4. CASE ReadActive(p)
  BY <1>4, ReadActiveDoes
<1>5. CASE ReadOverlay(p)
  BY <1>5, ReadOverlayDoes
<1>6. CASE PutActive(p)
  BY <1>6, PutActiveDoes
<1>7. CASE PutAudit(p)
  BY <1>7, PutAuditDoes
<1>8. CASE PutTelemetry(p)
  BY <1>8, PutTelemetryDoes
<1>9. CASE ReadIndex(p)
  BY <1>9, ReadIndexDoes
<1>10. CASE PutIndex(p)
  BY <1>10, PutIndexDoes
<1>11. CASE StartPurge(p)
  BY <1>11, StartPurgeDoes
<1>12. CASE DeleteActive(p)
  BY <1>12, DeleteActiveDoes
<1>13. CASE ListAudit(p)
  BY <1>13, ListAuditDoes
<1>14. CASE DeleteAudit(p)
  BY <1>14, DeleteAuditDoes
<1>15. CASE DeleteIndex(p)
  BY <1>15, DeleteIndexDoes
<1>16. CASE ClearOverlays(p)
  BY <1>16, ClearOverlaysDoes
<1>17. CASE ClearTelemetry(p)
  BY <1>17, ClearTelemetryDoes
<1>18. CASE Crash(p)
  BY <1>18, CrashDoes
<1> QED
  BY <1>1, <1>2, <1>3, <1>4, <1>5, <1>6, <1>7, <1>8, <1>9, <1>10, <1>11, <1>12, <1>13, <1>14, <1>15, <1>16, <1>17, <1>18 DEF Step, set_pii_decision, upsert, purge

-------------------------------------------------------------------------------
(* A row of the index leads to its snapshot. *)

LEMMA StepIndexed ==
    ASSUME IndexInv, NEW p \in Calls, Step(p)
    PROVE  IndexInv'
<1>T. TypeInv
  BY DEF IndexInv
<1>S. /\ TypeInv'
      /\ \A q \in Calls \ {p} : pc'[q] = pc[q] /\ local'[q] = local[q]
      /\ \A q \in Calls : pc[q] # "idle" => pc'[q] # "idle"
  BY <1>T, OthersStay DEF Step
<1>W. /\ audit' = audit \/ PutAudit(p) \/ DeleteAudit(p)
      /\ index' = index \/ PutIndex(p) \/ DeleteIndex(p)
      /\ purged \subseteq purged'
  BY <1>T, WhoWrites
<1>D. ASSUME NEW r \in Runs, ~PutAudit(p), audit'[r] # None
      PROVE  audit'[r] = audit[r]
  <2>1. CASE DeleteAudit(p)
    BY <2>1, <1>D, <1>T, DeleteAuditDoes
  <2> QED
    BY <1>D, <1>W, <2>1
\* Only the snapshots of runs a purge has marked are deleted.
<1>K. ASSUME NEW r \in Runs, r \notin purged', audit[r] # None
      PROVE  audit'[r] # None
  <2>1. CASE PutAudit(p)
    BY <2>1, <1>K, <1>T, PutAuditDoes
  <2>2. CASE DeleteAudit(p)
    <3>1. PICK k \in local[p].rows \cap Runs : \A s \in Runs \ {k} : audit'[s] = audit[s]
      BY <2>2, <1>T, DeleteAuditDoes
    <3>2. pc[p] = "delete audit" /\ purged' = purged
      BY <2>2, <1>T, DeleteAuditDoes
    <3>3. pc[k] # "idle"
      BY <3>1, <3>2 DEF IndexInv, ListedHaveBegun
    <3>4. k \in purged
      BY <3>1, <3>2, <3>3 DEF IndexInv, PurgeMarks, PurgerLabels
    <3> QED
      BY <1>K, <3>1, <3>2, <3>4
  <2> QED
    BY <1>K, <1>W, <2>1, <2>2
<1>1. PurgeMarks'
  <2> SUFFICES ASSUME NEW x \in Calls, NEW q \in Runs, pc'[x] \in PurgerLabels, pc'[q] # "idle"
               PROVE  q \in purged'
    BY DEF PurgeMarks, PurgerLabels
  <2>1. CASE pc[x] \in PurgerLabels /\ pc[q] # "idle"
    BY <2>1, <1>W DEF IndexInv, PurgeMarks
  <2>2. CASE pc[x] \in PurgerLabels /\ pc[q] = "idle"
    <3>1. q = p /\ Starts(p)
      BY <2>2, <1>S, <1>T, WhoLeaves
    <3>2. x \in InFlight \cap Purges
      BY <2>2, <1>T, PurgersAreSeen
    <3> QED
      BY <3>1, <3>2, <1>T, StartScanDoes, StartDecisionDoes, StartPurgeDoes DEF Starts
  <2>3. CASE pc[x] \notin PurgerLabels
    <3>1. x = p
      BY <2>3, <1>S
    <3>2. pc[p] \notin PurgerLabels /\ pc'[p] \in PurgerLabels
      BY <2>3, <3>1
    <3>3. StartPurge(p)
      BY <3>2, <1>T, WhoArrives, DeleteActiveDoes, ListAuditDoes, DeleteAuditDoes, DeleteIndexDoes,
         ClearOverlaysDoes DEF PurgerLabels
    <3>4. p \in Purges /\ \A r \in Runs : pc[r] # "idle" => r \in purged'
      BY <3>3, <1>T, StartPurgeDoes
    <3>5. pc[q] # "idle"
      BY <3>4, <1>S
    <3> QED
      BY <3>4, <3>5
  <2> QED
    BY <2>1, <2>2, <2>3
<1>2. SnapshotsArePut'
  <2> SUFFICES ASSUME NEW r \in Runs, audit'[r] # None,
                      pc'[r] \in BeforePutActive \cup {"put audit"}
               PROVE  FALSE
    BY DEF SnapshotsArePut, BeforePutActive
  <2>1. CASE r = p
    <3>1. pc[p] \in BeforePutActive
      BY <2>1, <1>T, WhoArrives, StartScanDoes, StartDecisionDoes, SaveDecisionDoes,
         ReadActiveDoes, ReadOverlayDoes, PutActiveDoes DEF BeforePutActive
    <3>2. ~PutAudit(p)
      BY <3>1 DEF PutAudit, BeforePutActive
    <3> QED
      BY <2>1, <3>1, <3>2, <1>D DEF IndexInv, SnapshotsArePut
  <2>2. CASE r # p
    <3>1. pc[r] \in BeforePutActive \cup {"put audit"}
      BY <2>2, <1>S
    <3>2. audit'[r] = audit[r]
      BY <2>2, <1>D, <1>T, PutAuditDoes
    <3> QED
      BY <3>1, <3>2 DEF IndexInv, SnapshotsArePut
  <2> QED
    BY <2>1, <2>2
<1>3. ListedHaveBegun'
  <2> SUFFICES ASSUME NEW x \in Calls, pc'[x] = "delete audit", NEW r \in local'[x].rows \cap Runs
               PROVE  pc[r] # "idle"
    BY <1>S DEF ListedHaveBegun
  <2>1. CASE x = p
    <3>1. CASE ListAudit(p)
      BY <2>1, <3>1, <1>T, ListAuditDoes DEF IndexInv, SnapshotsArePut, BeforePutActive
    <3>2. CASE DeleteAudit(p) \/ DeleteIndex(p)
      <4>1. pc[p] = "delete audit" /\ local'[p].rows \subseteq local[p].rows
        <5>1. CASE DeleteAudit(p)
          <6>1. PICK k \in local[p].rows \cap Runs : local'[p].rows = local[p].rows \ {k}
            BY <5>1, <1>T, DeleteAuditDoes
          <6>2. pc[p] = "delete audit"
            BY <5>1 DEF DeleteAudit
          <6> QED
            BY ONLY <6>1, <6>2
        <5>2. CASE DeleteIndex(p)
          BY <5>2, <1>T, DeleteIndexDoes
        <5> QED
          BY <3>2, <5>1, <5>2
      <4> QED
        BY <2>1, <4>1 DEF IndexInv, ListedHaveBegun
    <3> QED
      BY <2>1, <3>1, <3>2, <1>T, WhoArrives
  <2>2. CASE x # p
    BY <2>2, <1>S DEF IndexInv, ListedHaveBegun
  <2> QED
    BY <2>1, <2>2
<1>4. RowsHaveAudit'
  <2> SUFFICES ASSUME NEW q \in Calls
               PROVE  /\ pc'[q] \in {"put telemetry", "read index", "put index"} /\ q \notin purged'
                         => audit'[q] # None
                      /\ pc'[q] = "put index" => \A r \in local'[q].rows \ purged' : audit'[r] # None
    BY DEF RowsHaveAudit
  <2>1. CASE q = p
    <3>1. pc'[p] = "put telemetry" => audit'[p] # None
      BY <1>T, WhoArrives, PutAuditDoes
    <3>2. pc'[p] = "read index" => p \in Runs /\ pc[p] = "put telemetry"
      BY <1>T, WhoArrives, PutTelemetryDoes
    <3>3. pc'[p] = "put index" => p \in Runs /\ pc[p] = "read index" /\ local'[p].rows = index
      BY <1>T, WhoArrives, ReadIndexDoes
    <3>4. \A r \in index \ purged' : r \in Runs /\ audit[r] # None
      BY <1>W, <1>T DEF IndexInv, IndexedRunsHaveAudit, TypeInv, TypeOK
    <3>5. pc[p] \in {"put telemetry", "read index"} /\ p \notin purged' => audit[p] # None
      BY <1>W DEF IndexInv, RowsHaveAudit
    <3> QED
      BY <2>1, <3>1, <3>2, <3>3, <3>4, <3>5, <1>K
  <2>2. CASE q # p
    <3>1. pc'[q] = pc[q] /\ local'[q] = local[q]
      BY <2>2, <1>S
    <3>2. /\ pc[q] = "put index" => local[q].rows \subseteq Runs
          /\ pc[q] \in {"put telemetry", "read index", "put index"} => q \in Runs
      BY <1>T DEF TypeInv, CallsInRole, WriterLabels
    <3>3. /\ pc[q] \in {"put telemetry", "read index", "put index"} /\ q \notin purged
             => audit[q] # None
          /\ pc[q] = "put index" => \A r \in local[q].rows \ purged : audit[r] # None
      BY DEF IndexInv, RowsHaveAudit
    <3> QED
      BY <3>1, <3>2, <3>3, <1>K, <1>W
  <2> QED
    BY <2>1, <2>2
<1>5. IndexedRunsHaveAudit'
  <2> SUFFICES ASSUME NEW r \in index' \ purged' PROVE audit'[r] # None
    BY DEF IndexedRunsHaveAudit
  <2>1. CASE PutIndex(p)
    <3>1. p \in Runs /\ pc[p] = "put index" /\ index' = local[p].rows \cup {p}
      BY <2>1, <1>T, PutIndexDoes
    <3>2. local[p].rows \subseteq Runs
      BY <3>1, <1>T DEF TypeInv, CallsInRole
    <3>3. r \in Runs /\ audit[r] # None
      BY <3>1, <3>2, <1>W DEF IndexInv, RowsHaveAudit
    <3> QED
      BY <3>3, <1>K
  <2>2. CASE DeleteIndex(p)
    BY <2>2, <1>T, DeleteIndexDoes
  <2>3. CASE index' = index
    BY <2>3, <1>K, <1>W, <1>T DEF IndexInv, IndexedRunsHaveAudit, TypeInv, TypeOK
  <2> QED
    BY <2>1, <2>2, <2>3, <1>W
<1> QED
  BY <1>S, <1>1, <1>2, <1>3, <1>4, <1>5 DEF IndexInv

\* The index invariant is inductive.
LEMMA NextIndexed == IndexInv /\ [Next]_vars => IndexInv'
<1> SUFFICES ASSUME IndexInv, [Next]_vars PROVE IndexInv'
  OBVIOUS
<1>1. CASE Next
  <2>1. PICK p \in Calls : Step(p)
    BY <1>1 DEF Next, Step
  <2> QED
    BY <2>1, StepIndexed
<1>2. CASE UNCHANGED vars
  <2>1. TypeInv'
    BY <1>2, NextTyped DEF IndexInv
  <2>2. PurgeMarks' /\ SnapshotsArePut'
    BY <1>2 DEF IndexInv, vars, stored, PurgeMarks, SnapshotsArePut
  <2>3. ListedHaveBegun'
    BY <1>2 DEF IndexInv, vars, stored, ListedHaveBegun
  <2>4. RowsHaveAudit' /\ IndexedRunsHaveAudit'
    BY <1>2 DEF IndexInv, vars, stored, RowsHaveAudit, IndexedRunsHaveAudit
  <2> QED
    BY <2>1, <2>2, <2>3, <2>4 DEF IndexInv
<1> QED
  BY <1>1, <1>2

LEMMA InitIndexed == Init => IndexInv
<1> SUFFICES ASSUME Init PROVE IndexInv
  OBVIOUS
<1>1. TypeInv
  BY InitTyped
<1>2. \A p \in Calls : pc[p] = "idle"
  BY DEF Init
<1> QED
  BY <1>1, <1>2 DEF Init, IndexInv, PurgeMarks, PurgerLabels, SnapshotsArePut,
     ListedHaveBegun, RowsHaveAudit, IndexedRunsHaveAudit

\* Whatever interleaves and whoever dies, a row of the run index leads to its
\* audit snapshot unless a purge came after its run or ran beside it: a row is
\* added after the put of its snapshot, and the rows a call puts back were
\* read when each of them had one.
THEOREM RowsLeadToSnapshots == Spec => []IndexedRunsHaveAudit
<1>1. IndexInv => IndexedRunsHaveAudit
  BY DEF IndexInv
<1> QED
  BY <1>1, InitIndexed, NextIndexed, PTL DEF Spec

-------------------------------------------------------------------------------
(* The active contract is audited once everybody has returned. *)

\* What a call is about to write depends on what it holds alone.
LEMMA OutcomeStays ==
    ASSUME NEW p \in Calls, local'[p] = local[p]
    PROVE  Outcome(p)' = Outcome(p)
BY DEF Outcome

LEMMA StepAudited ==
    ASSUME IndexInv, ActiveIsAudited, NEW p \in Calls, Step(p)
    PROVE  ActiveIsAudited'
<1> SUFFICES ASSUME \A q \in Calls : pc'[q] # "crashed", purged' = {}, active' # None
             PROVE  \E r \in Runs : \/ audit'[r] = active'
                                    \/ pc'[r] = "put audit" /\ Outcome(r)' = active'
  BY DEF ActiveIsAudited
<1>T. TypeInv
  BY DEF IndexInv
<1>S. /\ \A q \in Calls \ {p} : pc'[q] = pc[q] /\ local'[q] = local[q]
      /\ pc[p] \notin {"done", "failed", "crashed"}
  BY <1>T, OthersStay DEF Step
<1>0. (\A q \in Calls : pc[q] # "crashed") /\ purged = {}
  BY <1>T, <1>S, WhoWrites
<1>1. CASE PutActive(p)
  BY <1>1, <1>T, PutActiveDoes, OutcomeStays
<1>2. CASE DeleteActive(p)
  BY <1>2, <1>T, DeleteActiveDoes
<1>3. CASE DeleteAudit(p)
  <2>1. PICK k \in local[p].rows \cap Runs : TRUE
    BY <1>3, <1>T, DeleteAuditDoes
  <2>2. pc[p] = "delete audit"
    BY <1>3, <1>T, DeleteAuditDoes
  <2>3. pc[k] # "idle"
    BY <2>1, <2>2 DEF IndexInv, ListedHaveBegun
  <2>4. k \in purged
    BY <2>1, <2>2, <2>3 DEF IndexInv, PurgeMarks, PurgerLabels
  <2> QED
    BY <1>0, <2>4
<1>4. CASE ~PutActive(p) /\ ~DeleteActive(p) /\ ~DeleteAudit(p)
  <2>1. active' = active
    BY <1>4, <1>T, WhoWrites
  <2>2. PICK r \in Runs : audit[r] = active \/ (pc[r] = "put audit" /\ Outcome(r) = active)
    BY <1>0, <2>1 DEF ActiveIsAudited
  <2>3. CASE PutAudit(p)
    <3>1. audit[p] = None
      BY <2>3, <1>T, PutAuditDoes DEF IndexInv, SnapshotsArePut
    <3>2. CASE r = p
      BY <2>1, <2>2, <2>3, <3>1, <3>2, <1>T, PutAuditDoes
    <3>3. CASE r # p
      <4>1. pc'[r] = pc[r] /\ Outcome(r)' = Outcome(r)
        BY <1>S, <3>3, OutcomeStays
      <4>2. audit'[r] = audit[r]
        BY <2>3, <3>3, <1>T, PutAuditDoes
      <4> QED
        BY <2>1, <2>2, <4>1, <4>2
    <3> QED
      BY <3>2, <3>3
  <2>4. CASE ~PutAudit(p)
    <3>1. audit' = audit
      BY <1>4, <2>4, <1>T, WhoWrites
    <3>2. CASE audit[r] = active
      BY <2>1, <3>1, <3>2
    <3>3. CASE pc[r] = "put audit" /\ Outcome(r) = active
      <4>1. ~Crash(p)
        BY <1>T, CrashDoes
      <4>2. r # p
        BY <1>T, <2>4, <3>3, <4>1, WhoLeaves
      <4>3. pc'[r] = pc[r] /\ Outcome(r)' = Outcome(r)
        BY <1>S, <4>2, OutcomeStays
      <4> QED
        BY <2>1, <3>3, <4>3
    <3> QED
      BY <2>2, <3>2, <3>3
  <2> QED
    BY <2>3, <2>4
<1> QED
  BY <1>1, <1>2, <1>3, <1>4

LEMMA NextAudited == IndexInv /\ ActiveIsAudited /\ [Next]_vars => ActiveIsAudited'
<1> SUFFICES ASSUME IndexInv, ActiveIsAudited, [Next]_vars PROVE ActiveIsAudited'
  OBVIOUS
<1>1. CASE Next
  BY <1>1, StepAudited DEF Next, Step
<1>2. CASE UNCHANGED vars
  <2>1. \A p \in Calls : Outcome(p)' = Outcome(p)
    BY <1>2, OutcomeStays DEF vars
  <2> QED
    BY <1>2, <2>1 DEF ActiveIsAudited, vars, stored
<1> QED
  BY <1>1, <1>2

\* However upserts and decisions overlap, once they have all returned the
\* active contract is one of the audited snapshots: whoever put it last puts
\* its snapshot next, and no purge was there to delete it.
THEOREM LastWriteIsAudited == Spec => []QuiescentActiveIsAudited
<1>1. Init => ActiveIsAudited
  BY DEF Init, ActiveIsAudited
<1>2. TypeInv /\ ActiveIsAudited => QuiescentActiveIsAudited
  BY DEF TypeInv, TypeOK, ActiveIsAudited, QuiescentActiveIsAudited, Quiescent, Crashed, InFlight
<1>3. IndexInv => TypeInv
  BY DEF IndexInv
<1> QED
  BY <1>1, <1>2, <1>3, InitIndexed, NextIndexed, NextAudited, PTL DEF Spec

-------------------------------------------------------------------------------
(* As long as calls never overlap. *)

\* What a call is about to write to a table without a contract, and to one.
LEMMA OutcomeOfCreation ==
    ASSUME NEW p \in Runs, local[p].existing = None, local[p].partial \in Handed
    PROVE  /\ Outcome(p).uuid = IF local[p].partial.uuid = None THEN p ELSE local[p].partial.uuid
           /\ Outcome(p).tags = local[p].partial.tags
<1> DEFINE m == merge_two_contracts(local[p].existing, local[p].partial, p)
<1>1. /\ m \in Stored /\ m.tags = local[p].partial.tags
      /\ m.uuid = IF local[p].partial.uuid = None THEN p ELSE local[p].partial.uuid
  BY CreationIsPartial
<1>2. Outcome(p) = IF local[p].decided THEN [m EXCEPT !.privacy = FALSE] ELSE m
  BY DEF Outcome
<1> HIDE DEF m
<1> QED
  BY <1>1, <1>2 DEF Stored

LEMMA OutcomeOfMerge ==
    ASSUME NEW p \in Runs, local[p].existing \in Stored, local[p].partial \in Handed
    PROVE  /\ Outcome(p).uuid = local[p].existing.uuid
           /\ Outcome(p).version = local[p].existing.version + 1
           /\ Outcome(p).tags = local[p].existing.tags \cup local[p].partial.tags
<1> DEFINE m == merge_two_contracts(local[p].existing, local[p].partial, p)
<1>1. /\ m \in Stored /\ m.tags = local[p].existing.tags \cup local[p].partial.tags
      /\ m.uuid = local[p].existing.uuid /\ m.version = local[p].existing.version + 1
  BY MergeAddsToContract
<1>2. Outcome(p) = IF local[p].decided THEN [m EXCEPT !.privacy = FALSE] ELSE m
  BY DEF Outcome
<1> HIDE DEF m
<1> QED
  BY <1>1, <1>2 DEF Stored

\* The put of the active contract creates it under a new identity, or keeps
\* its identity, moves its version by one and adds the tags of the call.
LEMMA SerialPut ==
    ASSUME IndexInv, ReadIsCurrent, IdentityIsNew, NEW p \in Calls, PutActive(p)
    PROVE  /\ p \in Runs /\ active' \in Stored /\ active' # None
           /\ decided => ~active'.privacy
           /\ p \in Scans => p \in active'.tags
           /\ active = None => p \in Scans /\ active'.uuid = p
           /\ active # None =>
                /\ active \in Stored
                /\ active'.uuid = active.uuid /\ active'.version = active.version + 1
                /\ active.tags \subseteq active'.tags
<1>1. /\ p \in Runs /\ local[p].partial \in Handed /\ local[p].existing \in Stored \cup {None}
      /\ active \in Stored \cup {None}
  <2>1. local[p] \in Local
    BY DEF IndexInv, TypeInv, TypeOK
  <2>2. p \in Runs /\ local[p].partial # None
    BY DEF IndexInv, TypeInv, CallsInRole, PutActive, WriterLabels
  <2> QED
    BY <2>1, <2>2 DEF Local, IndexInv, TypeInv, TypeOK
<1>2. /\ local[p].existing = active /\ local[p].decided = decided /\ active' = Outcome(p)
      /\ p \in Scans => local[p].partial = ScanPartial(p)
      /\ p \in Stewards => active # None
  BY DEF PutActive, ReadIsCurrent
<1>3. active' \in Stored /\ (decided => active'.privacy = FALSE)
  BY <1>1, <1>2, OutcomeTyped
<1>4. active' # None
  BY <1>3 DEF Stored, Handed
<1>5. p \in Scans => local[p].partial.uuid = None /\ local[p].partial.tags = {p}
  BY <1>2 DEF ScanPartial
<1>6. CASE active = None
  BY <1>1, <1>2, <1>3, <1>4, <1>5, <1>6, OutcomeOfCreation
<1>7. CASE active # None
  <2>1. local[p].existing \in Stored
    BY <1>1, <1>2, <1>7
  <2> QED
    BY <1>1, <1>2, <1>3, <1>4, <1>5, <1>7, <2>1, OutcomeOfMerge
<1> QED
  BY <1>6, <1>7

\* A step without overlap: everybody else rests.
LEMMA OthersRest ==
    ASSUME TypeInv, Alone, NEW p \in Calls, Step(p), ~overlapped'
    PROVE  \A q \in Calls \ {p} :
              pc[q] \in Resting /\ pc'[q] = pc[q] /\ local'[q] = local[q]
<1>1. /\ \A q \in Calls \ {p} : pc'[q] = pc[q] /\ local'[q] = local[q]
      /\ pc[p] \notin {"done", "failed", "crashed"}
  BY OthersStay DEF Step
<1>2. CASE pc[p] = "idle"
  <2>1. Starts(p)
    BY <1>2, WhoLeaves
  <2>2. InFlight = {}
    BY <2>1 DEF Starts, StartScan, StartDecision, StartPurge, Arrive
  <2> QED
    BY <1>1, <2>2 DEF InFlight, Resting
<1>3. CASE pc[p] # "idle"
  <2>1. p \in InFlight
    BY <1>1, <1>3 DEF InFlight
  <2>2. \A q \in Calls \ {p} : q \notin InFlight
    BY <2>1 DEF Alone, InFlight
  <2> QED
    BY <1>1, <2>2 DEF InFlight, Resting
<1> QED
  BY <1>2, <1>3

LEMMA StepSerial ==
    ASSUME IndexInv, SerialInv, NEW p \in Calls, Step(p)
    PROVE  SerialInv'
<1> SUFFICES ASSUME ~overlapped' PROVE SerialState'
  BY DEF SerialInv
<1>T. TypeInv
  BY DEF IndexInv
<1>W. /\ active' = active \/ PutActive(p) \/ DeleteActive(p)
      /\ audit' = audit \/ PutAudit(p) \/ DeleteAudit(p)
      /\ index' = index \/ PutIndex(p) \/ DeleteIndex(p)
      /\ telemetry' = telemetry \/ PutTelemetry(p) \/ ClearTelemetry(p)
      /\ decided' = decided \/ SaveDecision(p) \/ ClearOverlays(p)
      /\ purged \subseteq purged' /\ ~overlapped
  BY <1>T, WhoWrites
<1>I. SerialState
  BY <1>W DEF SerialInv
<1>R. \A q \in Calls \ {p} : pc[q] \in Resting /\ pc'[q] = pc[q] /\ local'[q] = local[q]
  BY <1>T, <1>I, OthersRest DEF SerialState
<1>A. /\ pc'[p] # "idle"
      /\ pc'[p] = "save decision" => StartDecision(p)
      /\ pc'[p] = "read active" => SaveDecision(p)
      /\ pc'[p] = "read overlay" => StartScan(p) \/ ReadActive(p)
      /\ pc'[p] = "put active" => ReadOverlay(p)
      /\ pc'[p] = "put audit" => PutActive(p)
      /\ pc'[p] = "put telemetry" => PutAudit(p)
      /\ pc'[p] = "read index" => PutTelemetry(p)
      /\ pc'[p] = "put index" => ReadIndex(p)
      /\ pc'[p] = "list audit" => DeleteActive(p)
      /\ pc'[p] = "delete audit" => ListAudit(p) \/ DeleteAudit(p) \/ DeleteIndex(p)
      /\ pc'[p] = "clear telemetry" => ClearOverlays(p)
      /\ pc'[p] = "done" => PutIndex(p) \/ ClearTelemetry(p)
  BY <1>T, WhoArrives
<1>P. ASSUME PutActive(p)
      PROVE  /\ p \in Runs /\ active' \in Stored /\ active' # None
             /\ p \in Scans => p \in active'.tags
             /\ active = None => p \in Scans /\ active'.uuid = p
             /\ active # None =>
                  /\ active \in Stored
                  /\ active'.uuid = active.uuid /\ active'.version = active.version + 1
                  /\ active.tags \subseteq active'.tags
  BY <1>P, <1>I, SerialPut DEF SerialState
\* A snapshot is put of the contract that is active.
<1>U. ASSUME PutAudit(p)
      PROVE  /\ p \in Runs /\ pc[p] = "put audit" /\ pc'[p] = "put telemetry"
             /\ active' = active /\ active # None /\ purged' = purged
             /\ audit'[p] = active /\ \A r \in Runs \ {p} : audit'[r] = audit[r]
  BY <1>U, <1>T, <1>I, PutAuditDoes DEF SerialState, ReadIsCurrent
\* What was marked as purged is everything that had begun.
<1>M. ASSUME pc[p] \in PurgerLabels, NEW q \in Runs, pc[q] # "idle"
      PROVE  q \in purged'
  BY <1>M, <1>W DEF IndexInv, PurgeMarks
<1>D. ASSUME NEW r \in Runs, ~PutAudit(p), audit'[r] # None
      PROVE  audit'[r] = audit[r]
  <2>1. CASE audit' = audit
    BY <2>1
  <2>2. CASE DeleteAudit(p)
    BY <2>2, <1>D, <1>T, DeleteAuditDoes
  <2> QED
    BY <1>D, <1>W, <2>1, <2>2
<1>1. Alone'
  BY <1>R DEF Alone, InFlight, Resting
<1>2. ReadIsCurrent'
  <2> SUFFICES
          /\ pc'[p] \in {"save decision", "read active"} =>
                p \in Stewards /\ active' # None /\ local'[p].partial = active'
          /\ pc'[p] \in {"read overlay", "put active"} =>
                /\ local'[p].existing = active'
                /\ p \in Scans => local'[p].partial = ScanPartial(p)
                /\ p \in Stewards => active' # None
          /\ pc'[p] = "put active" => local'[p].decided = decided'
          /\ pc'[p] \in {"put audit", "put telemetry"} => active' = Outcome(p)'
          /\ pc'[p] = "put index" => local'[p].rows = index'
    BY <1>R DEF ReadIsCurrent, Resting
  <2> USE <1>T, <1>I DEF SerialState, ReadIsCurrent
  <2>1. pc'[p] = "save decision" =>
          p \in Stewards /\ active' # None /\ local'[p].partial = active'
    BY <1>A, StartDecisionDoes
  <2>2. pc'[p] = "read active" =>
          p \in Stewards /\ active' # None /\ local'[p].partial = active'
    BY <1>A, SaveDecisionDoes
  <2>3. pc'[p] = "read overlay" =>
          /\ local'[p].existing = active'
          /\ p \in Scans => local'[p].partial = ScanPartial(p)
          /\ p \in Stewards => active' # None
    BY <1>A, StartScanDoes, ReadActiveDoes
  <2>4. pc'[p] = "put active" =>
          /\ local'[p].existing = active'
          /\ p \in Scans => local'[p].partial = ScanPartial(p)
          /\ p \in Stewards => active' # None
          /\ local'[p].decided = decided'
    BY <1>A, ReadOverlayDoes
  <2>5. pc'[p] = "put audit" => active' = Outcome(p)'
    BY <1>A, PutActiveDoes, OutcomeStays
  <2>6. pc'[p] = "put telemetry" => active' = Outcome(p)'
    BY <1>A, PutAuditDoes, OutcomeStays
  <2>7. pc'[p] = "put index" => local'[p].rows = index'
    BY <1>A, ReadIndexDoes
  <2> QED
    BY ONLY <2>1, <2>2, <2>3, <2>4, <2>5, <2>6, <2>7
<1>3. PurgeGoesOn'
  <2> SUFFICES
          /\ pc'[p] \in {"list audit", "delete audit", "clear telemetry"} => active' = None
          /\ pc'[p] = "delete audit" =>
                /\ \A r \in Runs : audit'[r] # None => r \in local'[p].rows
                /\ index' # {} => IndexKey \in local'[p].rows
          /\ pc'[p] = "clear telemetry" =>
                index' = {} /\ ~decided' /\ \A r \in Runs : audit'[r] = None
    BY <1>R DEF PurgeGoesOn, Resting
  <2> USE <1>T, <1>I DEF SerialState, PurgeGoesOn
  <2>1. pc'[p] = "list audit" => active' = None
    BY <1>A, DeleteActiveDoes
  <2>2. CASE ListAudit(p)
    BY <2>2, ListAuditDoes
  <2>3. CASE DeleteAudit(p)
    <3>1. PICK k \in local[p].rows \cap Runs :
             /\ audit'[k] = None /\ \A r \in Runs \ {k} : audit'[r] = audit[r]
             /\ local'[p].rows = local[p].rows \ {k}
      BY <2>3, DeleteAuditDoes
    <3>2. /\ pc[p] = "delete audit" /\ pc'[p] = "delete audit"
          /\ active' = active /\ index' = index
      BY <2>3, DeleteAuditDoes
    <3>3. /\ active = None /\ (index # {} => IndexKey \in local[p].rows)
          /\ \A r \in Runs : audit[r] # None => r \in local[p].rows
      BY ONLY <3>2, <1>I, p \in Calls DEF SerialState, PurgeGoesOn
    <3>4. IndexKey # k
      BY ONLY <3>1, KeysAssumption
    <3> QED
      BY ONLY <3>1, <3>2, <3>3, <3>4
  <2>4. CASE DeleteIndex(p)
    BY <2>4, DeleteIndexDoes
  <2>5. CASE ClearOverlays(p)
    BY <2>5, ClearOverlaysDoes
  <2>6. CASE pc'[p] \notin {"delete audit", "clear telemetry"}
    BY <2>1, <2>6
  <2> QED
    BY ONLY <2>2, <2>3, <2>4, <2>5, <2>6, <1>A
<1>4. ContributionStays'
  <2> SUFFICES ASSUME NEW q \in Scans \ purged',
                      pc'[q] \in {"put audit", "put telemetry", "read index", "put index", "done"}
               PROVE  active' # None /\ q \in active'.tags
    BY DEF ContributionStays
  <2>1. CASE PutActive(p)
    <3>1. CASE q = p
      BY <2>1, <3>1, <1>P
    <3>2. CASE q # p
      <4>1. active # None /\ q \in active.tags
        BY <3>2, <1>R, <1>W, <1>I DEF SerialState, ContributionStays
      <4> QED
        BY <2>1, <4>1, <1>P
    <3> QED
      BY <3>1, <3>2
  <2>2. ASSUME ~PutActive(p) PROVE pc[q] # "idle" /\ q \notin purged
    BY <2>2, <1>A, <1>R, <1>W, <1>T, OthersStay, WhoLeaves, StartScanDoes, StartDecisionDoes DEF Step, Starts, StartPurge
  <2>3. CASE DeleteActive(p)
    <3>1. q # p /\ pc[p] \in PurgerLabels /\ ~PutActive(p)
      BY <2>3, <1>T, DeleteActiveDoes DEF PurgerLabels, PutActive
    <3> QED
      BY <3>1, <2>2, <1>M
  <2>4. CASE ~PutActive(p) /\ ~DeleteActive(p)
    <3>1. pc[q] \in {"put audit", "put telemetry", "read index", "put index", "done"}
      <4>1. CASE q = p
        BY <2>4, <4>1, <1>A, <1>T, PutAuditDoes, PutTelemetryDoes, ReadIndexDoes, PutIndexDoes,
           ClearTelemetryDoes
      <4> QED
        BY <4>1, <1>R
    <3> QED
      BY <2>2, <2>4, <3>1, <1>W, <1>I DEF SerialState, ContributionStays
  <2> QED
    BY <2>1, <2>3, <2>4
<1>5. RowStays'
  <2> SUFFICES ASSUME NEW q \in Runs \ purged', pc'[q] = "done" PROVE q \in index'
    BY DEF RowStays
  <2>1. CASE q = p
    <3>1. ~ClearTelemetry(p)
      BY <2>1, <1>T, ClearTelemetryDoes
    <3>2. PutIndex(p)
      BY <2>1, <3>1, <1>A
    <3> QED
      BY <2>1, <3>2, <1>T, PutIndexDoes
  <2>2. CASE q # p
    <3>1. pc[q] = "done" /\ q \in index
      BY <2>2, <1>R, <1>W, <1>I DEF SerialState, RowStays
    <3>2. CASE PutIndex(p)
      BY <3>1, <3>2, <1>T, <1>I, PutIndexDoes DEF SerialState, ReadIsCurrent, PutIndex
    <3>3. CASE DeleteIndex(p)
      BY <3>1, <3>3, <1>M DEF DeleteIndex, PurgerLabels
    <3> QED
      BY <3>1, <3>2, <3>3, <1>W
  <2> QED
    BY <2>1, <2>2
<1>6. IdentityIsNew'
  <2> SUFFICES ASSUME NEW u \in Runs, pc'[u] \in BeforePutActive
               PROVE  /\ active' # None => active'.uuid # u
                      /\ \A r \in Runs : audit'[r] # None => audit'[r].uuid # u
    BY DEF IdentityIsNew, BeforePutActive
  <2>1. pc[u] \in BeforePutActive
    <3>1. CASE u = p
      BY <3>1, <1>A, <1>T, StartScanDoes, StartDecisionDoes, SaveDecisionDoes, ReadActiveDoes,
         ReadOverlayDoes DEF BeforePutActive
    <3> QED
      BY <3>1, <1>R
  <2>2. /\ active # None => active.uuid # u
        /\ \A r \in Runs : audit[r] # None => audit[r].uuid # u
    BY <2>1, <1>I DEF SerialState, IdentityIsNew
  <2>3. active' # None => active'.uuid # u
    <3>1. CASE PutActive(p)
      <4>1. u # p
        BY <3>1, <1>T, PutActiveDoes DEF BeforePutActive
      <4> QED
        BY <3>1, <4>1, <2>2, <1>P
    <3>2. CASE DeleteActive(p)
      BY <3>2, <1>T, DeleteActiveDoes
    <3> QED
      BY <2>2, <3>1, <3>2, <1>W
  <2>4. ASSUME NEW r \in Runs, audit'[r] # None PROVE audit'[r].uuid # u
    <3>1. CASE PutAudit(p)
      BY <2>2, <2>4, <3>1, <1>U
    <3> QED
      BY <2>2, <2>4, <3>1, <1>D
  <2> QED
    BY <2>3, <2>4
<1>7. ActiveIsNewest'
  <2> SUFFICES ASSUME active' # None, NEW r \in Runs,
                      audit'[r] # None, audit'[r].uuid = active'.uuid
               PROVE  /\ audit'[r].version <= active'.version
                      /\ audit'[r].version = active'.version => audit'[r] = active'
    BY DEF ActiveIsNewest
  <2>1. audit[r] \in Stored \cup {None} /\ active \in Stored \cup {None}
    BY <1>T DEF TypeInv, TypeOK
  <2>2. CASE PutActive(p)
    <3>1. audit'[r] = audit[r]
      BY <2>2, <1>D DEF PutActive, PutAudit
    <3>2. pc[p] = "put active"
      BY <2>2 DEF PutActive
    <3>3. active # None
      BY <2>2, <3>1, <3>2, <1>P, <1>I DEF SerialState, IdentityIsNew, BeforePutActive
    <3>4. audit[r].version <= active.version /\ active'.version = active.version + 1
      BY <2>2, <3>1, <3>3, <1>P, <1>I DEF SerialState, ActiveIsNewest
    <3>5. audit[r].version \in Nat /\ active.version \in Nat
      BY <2>1, <3>1, <3>3 DEF Stored
    <3> QED
      BY <3>1, <3>4, <3>5
  <2>3. CASE PutAudit(p)
    <3>1. CASE r = p
      <4>1. audit'[r] = active' /\ active'.version \in Nat
        BY <2>1, <2>3, <3>1, <1>U DEF Stored
      <4> QED
        BY <4>1
    <3>2. CASE r # p
      BY <2>3, <3>2, <1>U, <1>I DEF SerialState, ActiveIsNewest
    <3> QED
      BY <3>1, <3>2
  <2>4. CASE ~PutActive(p) /\ ~PutAudit(p)
    <3>1. active' = active
      BY <2>4, <1>W, <1>T, DeleteActiveDoes
    <3>2. audit'[r] = audit[r]
      BY <2>4, <1>D
    <3> QED
      BY <3>1, <3>2, <1>I DEF SerialState, ActiveIsNewest
  <2> QED
    BY <2>2, <2>3, <2>4
<1>8. VersionsNameOneContent'
  <2> SUFFICES ASSUME NEW r \in Runs, NEW s \in Runs, audit'[r] # None, audit'[s] # None,
                      audit'[r].uuid = audit'[s].uuid, audit'[r].version = audit'[s].version
               PROVE  audit'[r] = audit'[s]
    BY DEF VersionsNameOneContent
  <2>1. CASE PutAudit(p)
    <3>1. \A t \in Runs : audit[t] # None /\ audit[t].uuid = active.uuid
                            /\ audit[t].version = active.version => audit[t] = active
      BY <2>1, <1>U, <1>I DEF SerialState, ActiveIsNewest
    <3>2. CASE r = p \/ s = p
      BY <2>1, <3>1, <3>2, <1>U
    <3>3. CASE r # p /\ s # p
      <4>1. audit'[r] = audit[r] /\ audit'[s] = audit[s]
        BY <2>1, <3>3, <1>U
      <4> QED
        BY <4>1, <1>I DEF SerialState, VersionsNameOneContent
    <3> QED
      BY <3>2, <3>3
  <2>2. CASE ~PutAudit(p)
    <3>1. audit'[r] = audit[r] /\ audit'[s] = audit[s]
      BY <2>2, <1>D
    <3> QED
      BY <3>1, <1>I DEF SerialState, VersionsNameOneContent
  <2> QED
    BY <2>1, <2>2
<1>9. StampFollows'
  <2> SUFFICES ASSUME \A q \in Calls : pc'[q] # "crashed", active' # None,
                      pc'[p] \notin {"put audit", "put telemetry"}
               PROVE  telemetry' = [uuid |-> active'.uuid, version |-> active'.version]
    BY DEF StampFollows
  <2>1. ~PutActive(p) /\ ~PutAudit(p) /\ ~Crash(p)
    BY <1>T, PutActiveDoes, PutAuditDoes, CrashDoes
  <2>2. active' = active
    BY <2>1, <1>W, <1>T, DeleteActiveDoes
  <2>3. \A q \in Calls : pc[q] # "crashed"
    BY <1>R, <1>T, OthersStay DEF Step
  <2>4. CASE PutTelemetry(p)
    BY <2>2, <2>4, <1>T, <1>I, PutTelemetryDoes DEF SerialState, ReadIsCurrent
  <2>5. CASE ClearTelemetry(p)
    BY <2>2, <2>5, <1>I DEF SerialState, PurgeGoesOn, ClearTelemetry
  <2>6. CASE ~PutTelemetry(p) /\ ~ClearTelemetry(p)
    <3>1. pc[p] \notin {"put audit", "put telemetry"}
      BY <2>1, <2>6, <1>T, WhoLeaves
    <3> QED
      BY <2>2, <2>3, <2>6, <3>1, <1>R, <1>W, <1>I DEF SerialState, StampFollows, Resting
  <2> QED
    BY <2>4, <2>5, <2>6
<1> QED
  BY <1>1, <1>2, <1>3, <1>4, <1>5, <1>6, <1>7, <1>8, <1>9 DEF SerialState

\* What holds of every state and every step as long as calls never overlap.
Inv == IndexInv /\ SerialInv

LEMMA InitSerial == Init => SerialInv
<1> SUFFICES ASSUME Init PROVE SerialState
  BY DEF SerialInv
<1>1. /\ active = None /\ index = {} /\ ~overlapped
      /\ \A r \in Runs : audit[r] = None
      /\ \A p \in Calls : pc[p] = "idle"
  BY DEF Init
<1> QED
  BY <1>1 DEF SerialState, Alone, InFlight, ReadIsCurrent, PurgeGoesOn, ContributionStays,
     RowStays, IdentityIsNew, ActiveIsNewest, VersionsNameOneContent, StampFollows

LEMMA NextSerial == Inv /\ [Next]_vars => Inv'
<1> SUFFICES ASSUME Inv, [Next]_vars PROVE SerialInv'
  BY NextIndexed DEF Inv
<1>1. CASE Next
  BY <1>1, StepSerial DEF Inv, Next, Step
<1>2. CASE UNCHANGED vars
  <2>1. \A p \in Calls : Outcome(p)' = Outcome(p)
    BY <1>2, OutcomeStays DEF vars
  <2> USE <1>2 DEF vars, stored, SerialState
  <2> SUFFICES ASSUME SerialState PROVE SerialState'
    BY DEF Inv, SerialInv
  <2>2. Alone' /\ StampFollows'
    BY DEF Alone, InFlight, StampFollows
  <2>3. ReadIsCurrent'
    BY <2>1 DEF ReadIsCurrent
  <2>4. PurgeGoesOn' /\ ContributionStays' /\ RowStays'
    BY DEF PurgeGoesOn, ContributionStays, RowStays
  <2>5. IdentityIsNew' /\ ActiveIsNewest' /\ VersionsNameOneContent'
    BY DEF IdentityIsNew, ActiveIsNewest, VersionsNameOneContent
  <2> QED
    BY <2>2, <2>3, <2>4, <2>5
<1> QED
  BY <1>1, <1>2

LEMMA InvHolds == Spec => []Inv
<1>1. Init => Inv
  BY InitIndexed, InitSerial DEF Inv
<1> QED
  BY <1>1, NextSerial, PTL DEF Spec

\* Calls that never overlap lose nothing, and though calls may have died on
\* the way: the contribution of a completed scan stays in the active contract
\* until a purge, because every later put starts from the contract there is.
THEOREM SerialKeepsContributions == Spec => []SerialContributionsKept
<1>1. Inv => SerialContributionsKept
  BY DEF Inv, SerialInv, SerialState, ContributionStays, SerialContributionsKept, Completed
<1> QED
  BY <1>1, InvHolds, PTL

\* ... and its row stays in the run index.
THEOREM SerialKeepsRows == Spec => []SerialRowsKept
<1>1. Inv => SerialRowsKept
  BY DEF Inv, SerialInv, SerialState, RowStays, SerialRowsKept, Completed
<1> QED
  BY <1>1, InvHolds, PTL

\* A version of a contract names one content in the audit: no snapshot is
\* ahead of the active contract, and a new version is one more than that.
THEOREM SerialVersionsAreUnique == Spec => []SerialVersionsNameOneContent
<1>1. Inv => SerialVersionsNameOneContent
  BY DEF Inv, SerialInv, SerialState, VersionsNameOneContent, SerialVersionsNameOneContent
<1> QED
  BY <1>1, InvHolds, PTL

\* Between calls the telemetry tells the identity and the version of the
\* active contract, if nobody died between the two puts.
THEOREM SerialStampFollows == Spec => []SerialStampIsCurrent
<1>1. Inv => SerialStampIsCurrent
  BY DEF Inv, SerialInv, SerialState, StampFollows, SerialStampIsCurrent, Quiescent, Crashed, InFlight
<1> QED
  BY <1>1, InvHolds, PTL

\* The identity of a contract is locked from its first write to its purge,
\* and every write moves its version by one.
THEOREM SerialIdentityIsLocked == Spec => SerialIdentityLocked
<1>1. ASSUME Inv, [Next]_vars, ~overlapped', active # None, active' # None, active' # active
      PROVE  active'.uuid = active.uuid /\ active'.version = active.version + 1
  <2>1. PICK p \in Calls : Step(p)
    BY <1>1 DEF vars, stored, Next, Step
  <2>2. TypeInv
    BY <1>1 DEF Inv, IndexInv
  <2>3. PutActive(p)
    BY <1>1, <2>1, <2>2, WhoWrites, DeleteActiveDoes
  <2>4. SerialState
    BY <1>1, <2>1, <2>2, WhoWrites DEF Inv, SerialInv
  <2> QED
    BY <1>1, <2>3, <2>4, SerialPut DEF Inv, SerialState
<1> QED
  BY <1>1, InvHolds, PTL DEF Spec, SerialIdentityLocked

\* Every contract written while a not_pii decision is in force has no privacy
\* block: the overlay read for it is the overlay there is.
THEOREM SerialDecisionsAreObeyed == Spec => SerialWritesObeyDecision
<1>1. ASSUME Inv, [Next]_vars, ~overlapped', decided, active' # active, active' # None
      PROVE  ~active'.privacy
  <2>1. PICK p \in Calls : Step(p)
    BY <1>1 DEF vars, stored, Next, Step
  <2>2. TypeInv
    BY <1>1 DEF Inv, IndexInv
  <2>3. PutActive(p)
    BY <1>1, <2>1, <2>2, WhoWrites, DeleteActiveDoes
  <2>4. SerialState
    BY <1>1, <2>1, <2>2, WhoWrites DEF Inv, SerialInv
  <2> QED
    BY <1>1, <2>3, <2>4, SerialPut DEF Inv, SerialState
<1> QED
  BY <1>1, InvHolds, PTL DEF Spec, SerialWritesObeyDecision

\* A purge that completes leaves what there was before the first call, also
\* after calls that died: nothing is left that its listing did not find.
THEOREM SerialPurgeLeavesNothing == Spec => SerialPurgeForgets
<1>1. ASSUME Inv, [Next]_vars, NEW x \in Purges, ~overlapped', pc[x] # "done", pc'[x] = "done"
      PROVE  /\ active' = None /\ telemetry' = None /\ ~decided'
             /\ index' = {} /\ \A r \in Runs : audit'[r] = None
  <2>1. PICK p \in Calls : Step(p)
    BY <1>1 DEF vars, Next, Step
  <2>2. TypeInv
    BY <1>1 DEF Inv, IndexInv
  <2>3. x = p
    BY <1>1, <2>1, <2>2, OthersStay DEF Step
  <2>4. ClearTelemetry(p)
    <3>1. ~PutIndex(p)
      BY <2>2, <2>3, PutIndexDoes
    <3> QED
      BY <1>1, <2>1, <2>2, <2>3, <3>1, WhoArrives
  <2>5. SerialState
    BY <1>1, <2>1, <2>2, WhoWrites DEF Inv, SerialInv
  <2>6. /\ pc[p] = "clear telemetry" /\ telemetry' = None
        /\ UNCHANGED <<active, audit, index, decided>>
    BY <2>4 DEF ClearTelemetry
  <2>7. active = None /\ index = {} /\ ~decided /\ \A r \in Runs : audit[r] = None
    BY <2>5, <2>6 DEF SerialState, PurgeGoesOn
  <2> QED
    BY <2>6, <2>7
<1>2. Inv /\ [Next]_vars =>
        [\A x \in Purges :
            ~overlapped' /\ pc[x] # "done" /\ pc'[x] = "done" =>
                /\ active' = None /\ telemetry' = None /\ ~decided'
                /\ index' = {} /\ \A r \in Runs : audit'[r] = None]_vars
  BY <1>1
<1> QED
  BY <1>2, InvHolds, PTL DEF Spec, SerialPurgeForgets
===============================================================================
