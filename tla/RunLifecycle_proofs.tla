-------------------------- MODULE RunLifecycle_proofs --------------------------
(***************************************************************************)
(* Proofs about RunLifecycle, for any number of actors, runs and requests. *)
(*                                                                         *)
(* RunTypeOK is inductive. MergedRunWasFolded is not: what a call is about *)
(* to put back must be known too (StatusIsEarned). FoldedRunIsMarked needs *)
(* that a run no two calls met on has one call on it at most, and what     *)
(* that call will put back (Undisturbed).                                  *)
(***************************************************************************)
EXTENDS RunLifecycle, TLAPS

-------------------------------------------------------------------------------
(* Type correctness. *)

\* What a call may become when it goes on.
LEMMA CallGoesOn ==
    ASSUME RunTypeOK, NEW a \in Actors, call[a] # None,
           NEW at \in {"get", "upsert", "stamp", "put"}, NEW st \in Status, Proceed(a, at, st)
    PROVE  call' \in [Actors -> Call \cup {None}]
<1>1. call[a] \in Call
  BY DEF RunTypeOK
<1>2. [call[a] EXCEPT !.at = at, !.status = st] \in Call
  BY <1>1 DEF Call
<1>3. call' = [call EXCEPT ![a] = [call[a] EXCEPT !.at = at, !.status = st]]
  BY DEF Proceed, RunTypeOK
<1> QED
  BY <1>2, <1>3 DEF RunTypeOK

LEMMA CallEnds ==
    ASSUME RunTypeOK, NEW a \in Actors, Leave(a)
    PROVE  call' \in [Actors -> Call \cup {None}]
BY DEF RunTypeOK, Leave

LEMMA CallBegins ==
    ASSUME RunTypeOK, NEW a \in Actors, NEW r \in Runs, NEW at \in {"get", "put"},
           NEW op \in {"create", "automerge", "edit", "merge", "discard"}, Enter(a, op, r, at)
    PROVE  /\ call' \in [Actors -> Call \cup {None}]
           /\ met' \subseteq Runs
<1>1. [op |-> op, run |-> r, at |-> at, status |-> "draft"] \in Call
  BY DEF Call, Status
<1> QED
  BY <1>1 DEF Enter, RunTypeOK

\* A run status stays one under an edit.
LEMMA EditedStatus ==
    ASSUME NEW st \in Status
    PROVE  update_payload(st) \in Status
BY DEF update_payload, Status

LEMMA StepTyped ==
    ASSUME RunTypeOK, NEW a \in Actors, Step(a) \/ Raise(a)
    PROVE  RunTypeOK'
<1> USE RunAssumption, NoneAssumption
<1>0. call[a] = None \/ call[a] \in Call
  BY DEF RunTypeOK
<1>1. CASE GetToMerge(a)
  <2>1. object[call[a].run] \in Status /\ call[a] # None
    BY <1>1, <1>0 DEF GetToMerge, At, RunTypeOK, Call
  <2>2. call' \in [Actors -> Call \cup {None}]
    BY <1>1, <2>1, CallGoesOn DEF GetToMerge
  <2> QED
    BY <1>1, <2>2 DEF GetToMerge, RunTypeOK
<1>2. CASE GetToDiscard(a)
  <2>1. "discarded" \in Status /\ call[a] # None
    BY <1>2 DEF GetToDiscard, At, Status
  <2>2. call' \in [Actors -> Call \cup {None}]
    BY <1>2, <2>1, CallGoesOn DEF GetToDiscard
  <2> QED
    BY <1>2, <2>2 DEF GetToDiscard, RunTypeOK
<1>3. CASE GetToEdit(a)
  <2>1. object[call[a].run] \in Status /\ call[a] # None
    BY <1>3, <1>0 DEF GetToEdit, At, RunTypeOK, Call
  <2>2. update_payload(object[call[a].run]) \in Status
    BY <2>1, EditedStatus
  <2>3. call' \in [Actors -> Call \cup {None}]
    BY <1>3, <2>1, <2>2, CallGoesOn DEF GetToEdit
  <2> QED
    BY <1>3, <2>3 DEF GetToEdit, RunTypeOK
<1>4. CASE Upsert(a)
  <2>1. call[a] # None /\ call[a].status \in Status /\ call[a].run \in Runs
    BY <1>4, <1>0 DEF Upsert, At, Call
  <2>2. call' \in [Actors -> Call \cup {None}]
    BY <1>4, <2>1, CallGoesOn DEF Upsert
  <2> QED
    BY <1>4, <2>1, <2>2 DEF Upsert, RunTypeOK
<1>5. CASE Stamp(a)
  <2>1. call[a] # None /\ "merged" \in Status
    BY <1>5 DEF Stamp, At, Status
  <2>2. call' \in [Actors -> Call \cup {None}]
    BY <1>5, <2>1, CallGoesOn, CallEnds DEF Stamp
  <2> QED
    BY <1>5, <2>2 DEF Stamp, RunTypeOK
<1>6. CASE Put(a)
  <2>1. call[a] \in Call
    BY <1>6, <1>0 DEF Put, At
  <2>2. object' \in [Runs -> Status \cup {None}]
    BY <1>6, <2>1 DEF Put, RunTypeOK, Call
  <2>3. CASE call[a].op = "automerge"
    <3>1. call' = [call EXCEPT ![a] = [call[a] EXCEPT !.op = "merge", !.at = "get"]]
      BY <1>6, <2>3 DEF Put, RunTypeOK
    <3>2. [call[a] EXCEPT !.op = "merge", !.at = "get"] \in Call
      BY <2>1 DEF Call
    <3> QED
      BY <1>6, <2>2, <3>1, <3>2 DEF Put, RunTypeOK
  <2>4. CASE call[a].op # "automerge"
    <3>1. call' \in [Actors -> Call \cup {None}]
      BY <1>6, <2>4, CallEnds DEF Put
    <3> QED
      BY <1>6, <2>2, <3>1 DEF Put, RunTypeOK
  <2> QED
    BY <2>3, <2>4
<1>7. CASE Missing(a)
  BY <1>7, CallEnds DEF Missing, RunTypeOK
<1>8. CASE UpsertRaises(a)
  BY <1>8, CallEnds DEF UpsertRaises, RunTypeOK
<1> QED
  BY <1>1, <1>2, <1>3, <1>4, <1>5, <1>6, <1>7, <1>8 DEF Step, Raise

LEMMA NextTyped ==
    ASSUME RunTypeOK, [RunNext]_runVars
    PROVE  RunTypeOK'
<1> USE RunAssumption, NoneAssumption
<1>1. ASSUME NEW a \in Actors, NEW automerge \in BOOLEAN, Create(a, automerge)
      PROVE  RunTypeOK'
  <2>1. made + 1 \in Runs /\ made' \in 0..NumRuns
    BY <1>1 DEF Create, RunTypeOK, Runs
  <2>2. PICK op \in {"create", "automerge"} : Enter(a, op, made + 1, "put")
    BY <1>1 DEF Create
  <2>3. call' \in [Actors -> Call \cup {None}] /\ met' \subseteq Runs
    BY <2>1, <2>2, CallBegins
  <2> QED
    BY <1>1, <2>1, <2>2, <2>3 DEF Create, Enter, RunTypeOK
<1>2. ASSUME NEW a \in Actors, NEW r \in Runs, NEW op \in {"edit", "merge", "discard"}, Ask(a, op, r)
      PROVE  RunTypeOK'
  <2>1. call' \in [Actors -> Call \cup {None}] /\ met' \subseteq Runs
    BY <1>2, CallBegins DEF Ask
  <2>2. asked' \in 0..MaxAsks
    BY <1>2 DEF Ask, RunTypeOK
  <2> QED
    BY <1>2, <2>1, <2>2 DEF Ask, Enter, RunTypeOK
<1>3. ASSUME NEW a \in Actors, AskLatest(a)
      PROVE  RunTypeOK'
  BY <1>2, <1>3 DEF AskLatest
<1>4. ASSUME NEW a \in Actors, Step(a) \/ Raise(a)
      PROVE  RunTypeOK'
  BY <1>4, StepTyped
<1>5. CASE DeleteRuns
  BY <1>5 DEF DeleteRuns, RunTypeOK
<1>6. ASSUME NEW dead \in SUBSET Actors, Die(dead), asked' \in asked..MaxAsks
      PROVE  RunTypeOK'
  <2>1. call' \in [Actors -> Call \cup {None}]
    BY <1>6 DEF Die, RunTypeOK
  <2>2. asked' \in 0..MaxAsks
    BY <1>6 DEF RunTypeOK
  <2> QED
    BY <1>6, <2>1, <2>2 DEF Die, RunTypeOK
<1>7. CASE UNCHANGED runVars
  BY <1>7 DEF runVars, RunTypeOK
<1> QED
  BY <1>1, <1>2, <1>3, <1>4, <1>5, <1>6, <1>7 DEF RunNext

LEMMA InitTyped == RunInit => RunTypeOK
BY RunAssumption DEF RunInit, RunTypeOK

\* Type correctness: objects, calls and counters keep their shape.
THEOREM RunTypeCorrect == RunSpec => []RunTypeOK
BY InitTyped, NextTyped, PTL DEF RunSpec

-------------------------------------------------------------------------------
(* A run marked merged had its payload folded. *)

\* What a call may put back: "merged" only of a run that was folded.
StatusIsEarned ==
    \A a \in Actors :
        call[a] # None /\ (call[a].status = "merged" \/ call[a].at = "stamp")
            => call[a].run \in folded

EarnedInv == RunTypeOK /\ MergedRunWasFolded /\ StatusIsEarned

LEMMA CallStaysEarned ==
    ASSUME RunTypeOK, StatusIsEarned, folded \subseteq folded', NEW a \in Actors, call[a] # None,
           NEW at \in {"get", "upsert", "stamp", "put"}, NEW st \in Status, Proceed(a, at, st),
           st = "merged" \/ at = "stamp" => call[a].run \in folded'
    PROVE  StatusIsEarned'
<1>1. call[a] \in Call
  BY DEF RunTypeOK
<1>2. call'[a].at = at /\ call'[a].status = st /\ call'[a].run = call[a].run
  BY <1>1 DEF Proceed, RunTypeOK, Call
<1>3. \A b \in Actors \ {a} : call'[b] = call[b]
  BY DEF Proceed, RunTypeOK
<1> QED
  BY <1>2, <1>3 DEF StatusIsEarned

LEMMA LeavingIsEarned ==
    ASSUME RunTypeOK, StatusIsEarned, folded' = folded, NEW a \in Actors, Leave(a)
    PROVE  StatusIsEarned'
BY DEF RunTypeOK, StatusIsEarned, Leave

LEMMA EnteringIsEarned ==
    ASSUME RunTypeOK, StatusIsEarned, NEW a \in Actors, NEW r \in Runs, NEW at \in {"get", "put"},
           NEW op, Enter(a, op, r, at)
    PROVE  StatusIsEarned'
<1>1. call'[a].status = "draft" /\ call'[a].at = at /\ folded' = folded
  BY DEF Enter, RunTypeOK
<1>2. \A b \in Actors \ {a} : call'[b] = call[b]
  BY DEF Enter, RunTypeOK
<1> QED
  BY <1>1, <1>2 DEF StatusIsEarned

LEMMA StepEarned ==
    ASSUME EarnedInv, NEW a \in Actors, Step(a) \/ Raise(a)
    PROVE  MergedRunWasFolded' /\ StatusIsEarned'
<1> USE NoneAssumption DEF EarnedInv
<1>0. call[a] = None \/ call[a] \in Call
  BY DEF RunTypeOK
<1>1. CASE GetToMerge(a)
  <2>1. call[a] # None /\ call[a].run \in Runs /\ object[call[a].run] \in Status
    BY <1>1, <1>0 DEF GetToMerge, At, RunTypeOK, Call
  <2>2. StatusIsEarned'
    BY <1>1, <2>1, CallStaysEarned DEF GetToMerge, MergedRunWasFolded
  <2> QED
    BY <1>1, <2>2 DEF GetToMerge, MergedRunWasFolded
<1>2. CASE GetToDiscard(a)
  <2>1. call[a] # None /\ "discarded" \in Status
    BY <1>2 DEF GetToDiscard, At, Status
  <2>2. StatusIsEarned'
    BY <1>2, <2>1, CallStaysEarned DEF GetToDiscard
  <2> QED
    BY <1>2, <2>2 DEF GetToDiscard, MergedRunWasFolded
<1>3. CASE GetToEdit(a)
  <2>1. call[a] # None /\ call[a].run \in Runs /\ object[call[a].run] \in Status
    BY <1>3, <1>0 DEF GetToEdit, At, RunTypeOK, Call
  <2>2. /\ update_payload(object[call[a].run]) \in Status
        /\ update_payload(object[call[a].run]) = "merged" => object[call[a].run] = "merged"
    BY <2>1, EditedStatus DEF update_payload
  <2>3. StatusIsEarned'
    BY <1>3, <2>1, <2>2, CallStaysEarned DEF GetToEdit, MergedRunWasFolded
  <2> QED
    BY <1>3, <2>3 DEF GetToEdit, MergedRunWasFolded
<1>4. CASE Upsert(a)
  <2>1. call[a] # None /\ call[a].status \in Status /\ call[a].run \in folded'
    BY <1>4, <1>0 DEF Upsert, At, Call
  <2>2. StatusIsEarned'
    BY <1>4, <2>1, CallStaysEarned DEF Upsert
  <2> QED
    BY <1>4, <2>2 DEF Upsert, MergedRunWasFolded
<1>5. CASE Stamp(a)
  <2>1. call[a] # None /\ "merged" \in Status /\ call[a].run \in folded
    BY <1>5 DEF Stamp, At, Status, StatusIsEarned
  <2>2. StatusIsEarned'
    BY <1>5, <2>1, CallStaysEarned, LeavingIsEarned DEF Stamp
  <2> QED
    BY <1>5, <2>2 DEF Stamp, MergedRunWasFolded
<1>6. CASE Put(a)
  <2>1. call[a] \in Call /\ call[a].run \in Runs
    BY <1>6, <1>0 DEF Put, At, Call
  <2>2. call[a].status = "merged" => call[a].run \in folded
    BY <1>6 DEF Put, At, StatusIsEarned
  <2>3. MergedRunWasFolded'
    BY <1>6, <2>1, <2>2 DEF Put, MergedRunWasFolded, RunTypeOK
  <2>4. CASE call[a].op = "automerge"
    <3>1. call'[a].status = call[a].status /\ call'[a].run = call[a].run /\ call'[a].at = "get"
      BY <1>6, <2>1, <2>4 DEF Put, RunTypeOK, Call
    <3>2. \A b \in Actors \ {a} : call'[b] = call[b]
      BY <1>6, <2>4 DEF Put, RunTypeOK
    <3>3. call[a] # None /\ folded' = folded
      BY <1>6 DEF Put, At
    <3> QED
      BY <2>2, <2>3, <3>1, <3>2, <3>3 DEF StatusIsEarned
  <2>5. CASE call[a].op # "automerge"
    <3>1. StatusIsEarned'
      BY <1>6, <2>5, LeavingIsEarned DEF Put
    <3> QED
      BY <2>3, <3>1
  <2> QED
    BY <2>4, <2>5
<1>7. CASE Missing(a)
  BY <1>7, LeavingIsEarned DEF Missing, MergedRunWasFolded
<1>8. CASE UpsertRaises(a)
  BY <1>8, LeavingIsEarned DEF UpsertRaises, MergedRunWasFolded
<1> QED
  BY <1>1, <1>2, <1>3, <1>4, <1>5, <1>6, <1>7, <1>8 DEF Step, Raise

LEMMA NextEarned ==
    ASSUME EarnedInv, [RunNext]_runVars
    PROVE  EarnedInv'
<1> USE RunAssumption, NoneAssumption
<1>0. RunTypeOK'
  BY NextTyped DEF EarnedInv
<1> SUFFICES MergedRunWasFolded' /\ StatusIsEarned'
  BY <1>0 DEF EarnedInv
<1> USE DEF EarnedInv
<1>1. ASSUME NEW a \in Actors, NEW automerge \in BOOLEAN, Create(a, automerge)
      PROVE  MergedRunWasFolded' /\ StatusIsEarned'
  <2>1. made + 1 \in Runs
    BY <1>1 DEF Create, RunTypeOK, Runs
  <2>2. PICK op : Enter(a, op, made + 1, "put")
    BY <1>1 DEF Create
  <2>3. StatusIsEarned'
    BY <2>1, <2>2, EnteringIsEarned
  <2> QED
    BY <2>2, <2>3 DEF Enter, MergedRunWasFolded
<1>2. ASSUME NEW a \in Actors, NEW r \in Runs, NEW op \in {"edit", "merge", "discard"}, Ask(a, op, r)
      PROVE  MergedRunWasFolded' /\ StatusIsEarned'
  <2>1. StatusIsEarned'
    BY <1>2, EnteringIsEarned DEF Ask
  <2> QED
    BY <1>2, <2>1 DEF Ask, Enter, MergedRunWasFolded
<1>3. ASSUME NEW a \in Actors, AskLatest(a)
      PROVE  MergedRunWasFolded' /\ StatusIsEarned'
  BY <1>2, <1>3 DEF AskLatest
<1>4. ASSUME NEW a \in Actors, Step(a) \/ Raise(a)
      PROVE  MergedRunWasFolded' /\ StatusIsEarned'
  BY <1>4, StepEarned
<1>5. CASE DeleteRuns
  <2>1. \A r \in Runs : object'[r] = None
    BY <1>5 DEF DeleteRuns
  <2> QED
    BY <1>5, <2>1 DEF DeleteRuns, MergedRunWasFolded, StatusIsEarned, Status
<1>6. ASSUME NEW dead \in SUBSET Actors, Die(dead)
      PROVE  MergedRunWasFolded' /\ StatusIsEarned'
  BY <1>6 DEF Die, MergedRunWasFolded, StatusIsEarned
<1>7. CASE UNCHANGED runVars
  BY <1>7 DEF runVars, MergedRunWasFolded, StatusIsEarned
<1> QED
  BY <1>1, <1>2, <1>3, <1>4, <1>5, <1>6, <1>7 DEF RunNext

\* No order of merges, edits, discards and deaths of any number of actors marks
\* a run merged before an upsert of its payload has succeeded.
THEOREM MergedRunWasFoldedHolds == RunSpec => []MergedRunWasFolded
<1>1. RunInit => EarnedInv
  BY InitTyped, NoneAssumption
  DEF RunInit, EarnedInv, MergedRunWasFolded, StatusIsEarned, Status
<1>2. EarnedInv => MergedRunWasFolded
  BY DEF EarnedInv
<1> QED
  BY <1>1, <1>2, NextEarned, PTL DEF RunSpec

-------------------------------------------------------------------------------
(* A run that was folded is marked, unless calls on it met. *)

\* What holds of a run on which no two calls met and no call died.
Undisturbed(r) ==
    /\ \A a, b \in Actors : On(a, r) /\ On(b, r) => a = b
    /\ r \in folded /\ object[r] # None
          /\ (\A a \in Actors : On(a, r) => call[a].at \in {"get", "upsert"})
       => object[r] \in {"merged", "discarded"}
    /\ \A a \in Actors :
          On(a, r) /\ call[a].at = "put" /\ r \in folded
          => call[a].status \in {"merged", "discarded"}

\* A run id not given out yet.
Unborn(r) == r \notin folded /\ ~Busy(r)

MarkedInv ==
    /\ RunTypeOK
    /\ \A r \in Runs \ met : Undisturbed(r)
    /\ \A r \in Runs : r > made => Unborn(r)

LEMMA ElsewhereUndisturbed ==
    ASSUME NEW r \in Runs, Undisturbed(r), object'[r] = object[r], r \in folded' <=> r \in folded,
           \A b \in Actors : On(b, r)' <=> On(b, r),
           \A b \in Actors : On(b, r) => call'[b] = call[b]
    PROVE  Undisturbed(r)'
BY DEF Undisturbed, On

\* A call begins on a run no call is in: it is the only one, and nothing is
\* about to be put back unless the run is new.
LEMMA EnteringMarked ==
    ASSUME MarkedInv, NEW a \in Actors, NEW r \in Runs, NEW op, NEW at \in {"get", "put"},
           Enter(a, op, r, at), at = "get" \/ r \notin folded
    PROVE  \A q \in Runs \ met' : Undisturbed(q)'
<1> USE NoneAssumption
<1>1. SUFFICES ASSUME NEW q \in Runs \ met' PROVE Undisturbed(q)'
  OBVIOUS
<1>2. q \notin met /\ Undisturbed(q) /\ object' = object /\ folded' = folded /\ call[a] = None
  BY DEF Enter, MarkedInv
<1>3. /\ call'[a] = [op |-> op, run |-> r, at |-> at, status |-> "draft"]
      /\ \A b \in Actors \ {a} : call'[b] = call[b]
  BY DEF Enter, MarkedInv, RunTypeOK
<1>4. call'[a].run = r /\ call'[a].at = at /\ call'[a].status = "draft"
  BY <1>3
<1>5. CASE q # r
  <2>1. \A b \in Actors : On(b, q)' <=> On(b, q)
    BY <1>2, <1>3, <1>4, <1>5 DEF On
  <2>2. \A b \in Actors : On(b, q) => call'[b] = call[b]
    BY <1>2, <1>3 DEF On
  <2> QED
    BY <1>2, <2>1, <2>2, ElsewhereUndisturbed
<1>6. CASE q = r
  <2>1. \A b \in Actors : ~On(b, r)
    BY <1>6 DEF Enter, Busy
  <2>2. \A b \in Actors : On(b, r)' => b = a
    BY <1>3, <2>1 DEF On
  <2>3. r \in folded /\ object[r] # None => object[r] \in {"merged", "discarded"}
    BY <1>2, <1>6, <2>1 DEF Undisturbed
  <2>4. at = "put" => r \notin folded
    OBVIOUS
  <2> QED
    BY <1>2, <1>4, <1>6, <2>2, <2>3, <2>4 DEF Undisturbed
<1> QED
  BY <1>5, <1>6

\* A call that goes on or ends changes its own run only.
LEMMA OtherRunsUndisturbed ==
    ASSUME MarkedInv, NEW a \in Actors, call[a] # None, NEW q \in Runs \ met, q # call[a].run,
           \A b \in Actors \ {a} : call'[b] = call[b],
           call'[a] = None \/ call'[a].run = call[a].run,
           object'[q] = object[q], q \in folded' <=> q \in folded
    PROVE  Undisturbed(q)'
<1>1. \A b \in Actors : On(b, q)' <=> On(b, q)
  BY DEF On
<1>2. \A b \in Actors : On(b, q) => call'[b] = call[b]
  BY DEF On
<1> QED
  BY <1>1, <1>2, ElsewhereUndisturbed DEF MarkedInv

\* On its own run the call is alone.
LEMMA OwnRunAlone ==
    ASSUME MarkedInv, NEW a \in Actors, call[a] # None, call[a].run \in Runs \ met,
           \A b \in Actors \ {a} : call'[b] = call[b],
           call'[a] = None \/ call'[a].run = call[a].run
    PROVE  /\ On(a, call[a].run)
           /\ \A b \in Actors : On(b, call[a].run) => b = a
           /\ \A b \in Actors : (call'[b] # None /\ call'[b].run = call[a].run) => b = a
<1>1. On(a, call[a].run) /\ Undisturbed(call[a].run)
  BY DEF On, MarkedInv
<1>2. \A b \in Actors : On(b, call[a].run) => b = a
  BY <1>1 DEF Undisturbed
<1> QED
  BY <1>1, <1>2 DEF On

\* What the rest of the invariant needs of a call that goes on or ends.
LEMMA OneCallMoves ==
    ASSUME MarkedInv, RunTypeOK', NEW a \in Actors, call[a] # None, made' = made, met' = met,
           \A b \in Actors \ {a} : call'[b] = call[b],
           call'[a] = None \/ call'[a].run = call[a].run,
           \A q \in Runs \ {call[a].run} : object'[q] = object[q] /\ (q \in folded' <=> q \in folded),
           \A r \in Runs \ met : r = call[a].run => Undisturbed(r)'
    PROVE  MarkedInv'
<1>1. \A q \in Runs \ met' : Undisturbed(q)'
  BY OtherRunsUndisturbed
<1>2. call[a].run \in Runs
  BY DEF MarkedInv, RunTypeOK, Call
<1>3. call[a].run \in Runs /\ Busy(call[a].run)
  BY <1>2 DEF Busy, On
<1>4. ASSUME NEW q \in Runs, q > made'
      PROVE  Unborn(q)'
  <2>1. Unborn(q) /\ q # call[a].run
    BY <1>3, <1>4 DEF MarkedInv, Unborn
  <2>2. \A b \in Actors : ~On(b, q)'
    BY <2>1 DEF Unborn, Busy, On
  <2> QED
    BY <2>1, <2>2 DEF Unborn, Busy
<1> QED
  BY <1>1, <1>4 DEF MarkedInv

\* A call that leaves, with a raise or because its run is gone.
LEMMA LeavingMarked ==
    ASSUME MarkedInv, RunTypeOK', NEW a \in Actors, call[a] # None, Leave(a),
           UNCHANGED <<made, object, folded, met>>,
           call[a].at \in {"get", "upsert"} \/ object[call[a].run] = None
    PROVE  MarkedInv'
<1>1. call'[a] = None /\ \A b \in Actors \ {a} : call'[b] = call[b]
  BY DEF Leave, MarkedInv, RunTypeOK
<1>2. ASSUME NEW r \in Runs \ met, r = call[a].run
      PROVE  Undisturbed(r)'
  <2>1. Undisturbed(r)
    BY <1>2 DEF MarkedInv
  <2>2. /\ \A b \in Actors : On(b, r) => b = a
        /\ \A b \in Actors : ~On(b, r)'
    BY <1>1, <1>2, OwnRunAlone DEF On
  <2>3. r \in folded /\ object[r] # None => object[r] \in {"merged", "discarded"}
    BY <1>2, <2>1, <2>2 DEF Undisturbed
  <2> QED
    BY <2>2, <2>3 DEF Undisturbed
<1> QED
  BY <1>1, <1>2, OneCallMoves

\* A call that goes on without a change of its object.
LEMMA GoingOnMarked ==
    ASSUME MarkedInv, RunTypeOK', NEW a \in Actors, call[a] # None,
           NEW at \in {"get", "upsert", "stamp", "put"}, NEW st \in Status, Proceed(a, at, st),
           UNCHANGED <<made, object, met>>,
           folded' \in {folded, folded \cup {call[a].run}},
           folded' = folded \/ at = "stamp",
           at = "upsert" => call[a].at = "get",
           at # "get",
           at = "put" /\ call[a].run \in folded /\ call[a].run \notin met
             => st \in {"merged", "discarded"}
    PROVE  MarkedInv'
<1>0. call[a] \in Call
  BY DEF MarkedInv, RunTypeOK
<1>1. /\ call'[a].at = at /\ call'[a].status = st /\ call'[a].run = call[a].run
      /\ \A b \in Actors \ {a} : call'[b] = call[b]
  BY <1>0 DEF Proceed, MarkedInv, RunTypeOK, Call
<1>2. ASSUME NEW r \in Runs \ met, r = call[a].run
      PROVE  Undisturbed(r)'
  <2>1. Undisturbed(r)
    BY <1>2 DEF MarkedInv
  <2>2. /\ \A b \in Actors : On(b, r) => b = a
        /\ \A b \in Actors : On(b, r)' => b = a
    BY <1>1, <1>2, OwnRunAlone DEF On
  <2>3. call'[a] # None
    BY <1>0, NoneAssumption DEF Proceed, MarkedInv, RunTypeOK, Call
  <2>4. On(a, r)'
    BY <1>1, <1>2, <2>3 DEF On
  <2>5. at = "upsert" /\ r \in folded' /\ object'[r] # None => object'[r] \in {"merged", "discarded"}
    BY <2>1, <2>2 DEF Undisturbed
  <2>6. at = "put" /\ r \in folded' => st \in {"merged", "discarded"}
    BY <1>2
  <2> QED
    BY <1>1, <2>2, <2>4, <2>5, <2>6 DEF Undisturbed
<1>3. \A q \in Runs \ {call[a].run} : object'[q] = object[q] /\ (q \in folded' <=> q \in folded)
  OBVIOUS
<1> QED
  BY <1>1, <1>2, <1>3, OneCallMoves

LEMMA StepMarked ==
    ASSUME MarkedInv, NEW a \in Actors, Step(a) \/ Raise(a)
    PROVE  MarkedInv'
<1> USE NoneAssumption
<1>T. RunTypeOK /\ RunTypeOK'
  BY StepTyped DEF MarkedInv
<1>0. call[a] = None \/ call[a] \in Call
  BY <1>T DEF RunTypeOK
<1>A. ASSUME call[a] \in Call, call[a].run \notin met, call[a].at = "get",
             object[call[a].run] # None, call[a].run \in folded
      PROVE  object[call[a].run] \in {"merged", "discarded"}
  <2>1. call[a] # None /\ call[a].run \in Runs
    BY <1>A DEF Call
  <2>2. Undisturbed(call[a].run) /\ On(a, call[a].run)
    BY <1>A, <2>1 DEF MarkedInv, On
  <2>3. \A b \in Actors : On(b, call[a].run) => b = a
    BY <2>2 DEF Undisturbed
  <2> QED
    BY <1>A, <2>2, <2>3 DEF Undisturbed
<1>1. CASE GetToMerge(a)
  <2>1. /\ call[a] # None /\ call[a] \in Call /\ call[a].at = "get"
        /\ object[call[a].run] \in Status
    BY <1>1, <1>0, <1>T DEF GetToMerge, At, RunTypeOK, Call
  <2>2. Proceed(a, "upsert", object[call[a].run]) /\ UNCHANGED <<made, object, folded, met>>
    BY <1>1 DEF GetToMerge
  <2> QED
    BY <1>T, <2>1, <2>2, GoingOnMarked
<1>2. CASE GetToDiscard(a)
  <2>1. call[a] # None /\ "discarded" \in Status
    BY <1>2 DEF GetToDiscard, At, Status
  <2>2. Proceed(a, "put", "discarded") /\ UNCHANGED <<made, object, folded, met>>
    BY <1>2 DEF GetToDiscard
  <2> QED
    BY <1>T, <2>1, <2>2, GoingOnMarked
<1>3. CASE GetToEdit(a)
  <2> DEFINE st == update_payload(object[call[a].run])
  <2>1. /\ call[a] # None /\ call[a] \in Call /\ call[a].at = "get"
        /\ object[call[a].run] \in Status /\ object[call[a].run] # None
    BY <1>3, <1>0, <1>T DEF GetToEdit, At, RunTypeOK, Call
  <2>2. Proceed(a, "put", st) /\ UNCHANGED <<made, object, folded, met>>
    BY <1>3 DEF GetToEdit
  <2>3. st \in Status
    BY <2>1, EditedStatus
  <2>4. call[a].run \in folded /\ call[a].run \notin met => st \in {"merged", "discarded"}
    BY <1>A, <2>1 DEF update_payload
  <2> QED
    BY <1>T, <2>1, <2>2, <2>3, <2>4, GoingOnMarked
<1>4. CASE Upsert(a)
  <2>1. call[a] # None /\ call[a].status \in Status
    BY <1>4, <1>0 DEF Upsert, At, Call
  <2>2. /\ Proceed(a, "stamp", call[a].status) /\ UNCHANGED <<made, object, met>>
        /\ folded' = folded \cup {call[a].run}
    BY <1>4 DEF Upsert
  <2> QED
    BY <1>T, <2>1, <2>2, GoingOnMarked
<1>5. CASE Stamp(a)
  <2>1. call[a] # None /\ "merged" \in Status /\ UNCHANGED <<made, object, folded, met>>
    BY <1>5 DEF Stamp, At, Status
  <2>2. CASE object[call[a].run] = None
    <3>1. Leave(a)
      BY <1>5, <2>2 DEF Stamp
    <3> QED
      BY <1>T, <2>1, <2>2, <3>1, LeavingMarked
  <2>3. CASE object[call[a].run] # None
    <3>1. Proceed(a, "put", "merged")
      BY <1>5, <2>3 DEF Stamp
    <3> QED
      BY <1>T, <2>1, <3>1, GoingOnMarked
  <2> QED
    BY <2>2, <2>3
<1>6. CASE Put(a)
  <2>1. call[a] # None /\ call[a] \in Call /\ call[a].run \in Runs /\ call[a].at = "put"
    BY <1>6, <1>0 DEF Put, At, Call
  <2>2. /\ UNCHANGED <<made, folded, met>>
        /\ object' = [object EXCEPT ![call[a].run] = call[a].status]
    BY <1>6 DEF Put
  <2>3. /\ \A b \in Actors \ {a} : call'[b] = call[b]
        /\ call'[a] = None \/ (call'[a].run = call[a].run /\ call'[a].at = "get")
    BY <1>6, <1>T, <2>1 DEF Put, Leave, RunTypeOK, Call
  <2>4. ASSUME NEW r \in Runs \ met, r = call[a].run
        PROVE  Undisturbed(r)'
    <3>1. Undisturbed(r) /\ On(a, r)
      BY <2>1, <2>4 DEF MarkedInv, On
    <3>2. \A b \in Actors : On(b, r)' => b = a
      BY <2>1, <2>3, <2>4, OwnRunAlone DEF On
    <3>3. r \in folded' => object'[r] \in {"merged", "discarded"}
      BY <1>T, <2>1, <2>2, <2>4, <3>1 DEF Undisturbed, RunTypeOK
    <3>4. \A b \in Actors : On(b, r)' => call'[b].at # "put"
      BY <2>3, <3>2 DEF On
    <3> QED
      BY <3>2, <3>3, <3>4 DEF Undisturbed
  <2>5. \A q \in Runs \ {call[a].run} : object'[q] = object[q] /\ (q \in folded' <=> q \in folded)
    BY <1>T, <2>2 DEF RunTypeOK
  <2> QED
    BY <1>T, <2>1, <2>2, <2>3, <2>4, <2>5, OneCallMoves
<1>7. CASE Missing(a)
  BY <1>7, <1>T, LeavingMarked DEF Missing, At
<1>8. CASE UpsertRaises(a)
  BY <1>8, <1>T, LeavingMarked DEF UpsertRaises, At
<1> QED
  BY <1>1, <1>2, <1>3, <1>4, <1>5, <1>6, <1>7, <1>8 DEF Step, Raise

LEMMA NextMarked ==
    ASSUME MarkedInv, [RunNext]_runVars
    PROVE  MarkedInv'
<1> USE RunAssumption, NoneAssumption
<1>T. RunTypeOK /\ RunTypeOK'
  BY NextTyped DEF MarkedInv
<1>1. ASSUME NEW a \in Actors, NEW automerge \in BOOLEAN, Create(a, automerge)
      PROVE  MarkedInv'
  <2>1. made + 1 \in Runs /\ made' = made + 1 /\ made + 1 > made /\ made \in Nat
    BY <1>1, <1>T DEF Create, RunTypeOK, Runs
  <2>2. PICK op : Enter(a, op, made + 1, "put")
    BY <1>1 DEF Create
  <2>3. made + 1 \notin folded
    BY <2>1 DEF MarkedInv, Unborn
  <2>4. \A q \in Runs \ met' : Undisturbed(q)'
    BY <2>1, <2>2, <2>3, EnteringMarked
  <2>5. ASSUME NEW q \in Runs, q > made'
        PROVE  Unborn(q)'
    <3>1. q > made /\ q # made + 1
      BY <2>1, <2>5 DEF Runs
    <3>2. Unborn(q)
      BY <3>1 DEF MarkedInv
    <3>3. folded' = folded /\ call'[a].run = made + 1 /\ \A b \in Actors \ {a} : call'[b] = call[b]
      BY <2>2, <1>T DEF Enter, RunTypeOK
    <3> QED
      BY <3>1, <3>2, <3>3 DEF Unborn, Busy, On
  <2> QED
    BY <1>T, <2>4, <2>5 DEF MarkedInv
<1>2. ASSUME NEW a \in Actors, NEW r \in Runs, NEW op \in {"edit", "merge", "discard"}, Ask(a, op, r)
      PROVE  MarkedInv'
  <2>1. Enter(a, op, r, "get") /\ made' = made /\ r <= made
    BY <1>2 DEF Ask
  <2>2. \A q \in Runs \ met' : Undisturbed(q)'
    BY <2>1, EnteringMarked
  <2>3. ASSUME NEW q \in Runs, q > made'
        PROVE  Unborn(q)'
    <3>1. Unborn(q) /\ q # r
      BY <1>T, <2>1, <2>3 DEF MarkedInv, RunTypeOK, Runs
    <3>2. folded' = folded /\ call'[a].run = r /\ \A b \in Actors \ {a} : call'[b] = call[b]
      BY <2>1, <1>T DEF Enter, RunTypeOK
    <3> QED
      BY <3>1, <3>2 DEF Unborn, Busy, On
  <2> QED
    BY <1>T, <2>2, <2>3 DEF MarkedInv
<1>3. ASSUME NEW a \in Actors, AskLatest(a)
      PROVE  MarkedInv'
  BY <1>2, <1>3 DEF AskLatest
<1>4. ASSUME NEW a \in Actors, Step(a) \/ Raise(a)
      PROVE  MarkedInv'
  BY <1>4, StepMarked
<1>5. CASE DeleteRuns
  <2>1. UNCHANGED <<made, call, folded>> /\ met \subseteq met' /\ \A r \in Runs : object'[r] = None
    BY <1>5 DEF DeleteRuns
  <2>2. \A q \in Runs \ met' : Undisturbed(q)'
    BY <2>1 DEF MarkedInv, Undisturbed, On
  <2>3. \A q \in Runs : q > made' => Unborn(q)'
    BY <2>1 DEF MarkedInv, Unborn, Busy, On
  <2> QED
    BY <1>T, <2>2, <2>3 DEF MarkedInv
<1>6. ASSUME NEW dead \in SUBSET Actors, Die(dead)
      PROVE  MarkedInv'
  <2>1. UNCHANGED <<made, object, folded>> /\ met \subseteq met'
    BY <1>6 DEF Die
  <2>2. \A b \in Actors : call'[b] \in {None, call[b]}
    BY <1>6 DEF Die
  <2>3. ASSUME NEW q \in Runs \ met'
        PROVE  Undisturbed(q)'
    <3>1. Undisturbed(q)
      BY <2>1, <2>3 DEF MarkedInv
    <3>2. \A b \in Actors : On(b, q) => call'[b] = call[b]
      BY <1>6, <2>3 DEF Die, On
    <3>3. \A b \in Actors : On(b, q)' <=> On(b, q)
      BY <2>2, <3>2 DEF On
    <3> QED
      BY <2>1, <3>1, <3>2, <3>3, ElsewhereUndisturbed
  <2>4. \A q \in Runs : q > made' => Unborn(q)'
    BY <2>1, <2>2 DEF MarkedInv, Unborn, Busy, On
  <2> QED
    BY <1>T, <2>3, <2>4 DEF MarkedInv
<1>7. CASE UNCHANGED runVars
  <2>1. UNCHANGED <<made, object, call, folded, met>>
    BY <1>7 DEF runVars
  <2>2. \A q \in Runs \ met' : Undisturbed(q)'
    BY <2>1 DEF MarkedInv, Undisturbed, On
  <2>3. \A q \in Runs : q > made' => Unborn(q)'
    BY <2>1 DEF MarkedInv, Unborn, Busy, On
  <2> QED
    BY <1>T, <2>2, <2>3 DEF MarkedInv
<1> QED
  BY <1>1, <1>2, <1>3, <1>4, <1>5, <1>6, <1>7 DEF RunNext

\* Whatever else goes on in the table, a run whose payload was folded is marked
\* merged, or was discarded, once its calls are over, if no two of them met and
\* none died: no edit, merge or discard in sequence puts it back among the open.
THEOREM FoldedRunIsMarkedHolds == RunSpec => []FoldedRunIsMarked
<1>1. RunInit => MarkedInv
  <2>1. RunInit => \A r \in Runs : Unborn(r) /\ Undisturbed(r)
    BY DEF RunInit, Unborn, Busy, On, Undisturbed
  <2> QED
    BY <2>1, InitTyped DEF MarkedInv
<1>2. MarkedInv => FoldedRunIsMarked
  <2>1. ASSUME NEW r \in Runs \ met, Undisturbed(r), ~Busy(r), object[r] # None, r \in folded
        PROVE  object[r] \in {"merged", "discarded"}
    BY <2>1 DEF Undisturbed, Busy
  <2> QED
    BY <2>1 DEF MarkedInv, FoldedRunIsMarked
<1> QED
  BY <1>1, <1>2, NextMarked, PTL DEF RunSpec
===============================================================================
