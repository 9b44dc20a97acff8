-------------------------- MODULE StewardReview_proofs --------------------------
(***************************************************************************)
(* The review checkpoint, for any number of callers, columns, items and    *)
(* values: what the flag guaranteed says of the verdicts on record, and    *)
(* what a review page says of the contract.                                *)
(***************************************************************************)
EXTENDS StewardReview, FiniteSetTheorems, TLAPS

USE ReviewAssumption, RulingAssumption

\* A call ends with its last step.
TypeInv == TypeOK /\ \A a \in Callers : call[a] # None => call[a].rest # << >>

-------------------------------------------------------------------------------
(* The operators keep their types. *)

LEMMA ColumnsAreCounted ==
    ASSUME NEW S \in SUBSET Columns
    PROVE  IsFiniteSet(S) /\ Cardinality(S) \in 0..NumColumns
<1>1. IsFiniteSet(Columns) /\ Cardinality(Columns) = NumColumns
  BY FS_Interval DEF Columns
<1>2. IsFiniteSet(S) /\ Cardinality(S) <= Cardinality(Columns)
  BY <1>1, FS_Subset
<1> QED
  BY <1>1, <1>2, FS_CardinalityType

LEMMA RefreshSetsTheFlag ==
    ASSUME NEW r \in ReviewState, NEW required, NEW columns
    PROVE  LET f == refresh_flags(r, required, columns) IN
           /\ f \in ReviewState
           /\ f.status = r.status /\ f.approved = r.approved /\ f.items = r.items
           /\ f.total_columns = r.total_columns
BY DEF ReviewState, refresh_flags, columns_ready, table_items_ready

LEMMA ResetClearsTheFlag ==
    ASSUME NEW r \in ReviewState, NEW c
    PROVE  reset(r, c) \in ReviewState /\ ~reset(r, c).guaranteed
BY DEF ReviewState, reset

LEMMA ResetForgets ==
    ASSUME NEW r \in ReviewState, NEW c
    PROVE  /\ \A d \in Columns : reset(r, c).status[d] = IF d = c THEN "absent" ELSE r.status[d]
           /\ \A d \in Columns : reset(r, c).approved[d] = IF d = c THEN None ELSE r.approved[d]
BY DEF ReviewState, reset

LEMMA VerdictIsTyped ==
    ASSUME NEW c \in Call, NEW st \in Status
    PROVE  with_column(c, st) \in ReviewState
BY DEF Call, ReviewState, with_column

LEMMA NoReviewIsTyped == NoReview \in ReviewState
BY DEF NoReview, ReviewState

LEMMA NoContractIsTyped == NoContract \in Contract
BY DEF NoContract, Contract

LEMMA AllReviewedIsTyped ==
    ASSUME NEW con \in Contract
    PROVE  AllReviewed(con) \in ReviewState
<1> DEFINE r == [status |-> [c \in Columns |-> IF c \in con.schema THEN "approved" ELSE "absent"],
                 approved |-> [c \in Columns |-> IF c \in con.schema THEN con.value[c] ELSE None],
                 items |-> [i \in Items |-> "reviewed"],
                 total_columns |-> count_columns(con.schema), guaranteed |-> FALSE]
<1>1. count_columns(con.schema) \in 0..NumColumns
  BY ColumnsAreCounted DEF count_columns, Contract
<1>2. r \in ReviewState
  BY <1>1 DEF ReviewState, Contract, Status, REVIEWED_STATUSES
<1> HIDE DEF r
<1>3. refresh_flags(r, Items, {}) \in ReviewState
  BY <1>2, RefreshSetsTheFlag
<1> QED
  BY <1>3 DEF AllReviewed, r

LEMMA SavedForgets ==
    ASSUME NEW c \in Call
    PROVE  /\ saved(c) \in Call
           /\ saved(c).rest = c.rest /\ saved(c).seen = c.seen
           /\ saved(c).outdated = c.outdated /\ saved(c).alone = c.alone
<1> DEFINE f == [c EXCEPT !.copy = NoReview]
           g == [f EXCEPT !.approved = None]
           h == [g EXCEPT !.total = 0]
<1>1. f \in Call /\ f.rest = c.rest /\ f.seen = c.seen /\ f.outdated = c.outdated
      /\ f.alone = c.alone
  BY NoReviewIsTyped DEF Call
<1> HIDE DEF f
<1>2. g \in Call /\ g.rest = f.rest /\ g.seen = f.seen /\ g.outdated = f.outdated
      /\ g.alone = f.alone
  BY <1>1 DEF Call
<1> HIDE DEF g
<1>3. h \in Call /\ h.rest = g.rest /\ h.seen = g.seen /\ h.outdated = g.outdated
      /\ h.alone = g.alone
  BY <1>2 DEF Call
<1> HIDE DEF h
<1>4. saved(c) = h
  BY DEF saved, f, g, h
<1> QED
  BY <1>1, <1>2, <1>3, <1>4

-------------------------------------------------------------------------------
(* What a step changes. *)

LEMMA CallGoes ==
    ASSUME TypeInv, NEW a \in Callers, NEW c \in Call, c.rest # << >>, Goes(a, c)
    PROVE  /\ call' \in [Callers -> Call \cup {None}]
           /\ \A b \in Callers \ {a} : call'[b] = call[b]
           /\ call'[a] # None =>
                 /\ call'[a] \in Call
                 /\ Tail(c.rest) # << >> /\ call'[a].rest = Tail(c.rest)
                 /\ call'[a].seen = c.seen /\ call'[a].outdated = c.outdated
                 /\ call'[a].copy = c.copy /\ call'[a].alone = c.alone
<1> DEFINE g == [c EXCEPT !.rest = Tail(@)]
<1>1. Tail(c.rest) \in Seq(Steps)
  BY DEF Call
<1>2. g \in Call /\ g.rest = Tail(c.rest) /\ g.seen = c.seen /\ g.outdated = c.outdated
      /\ g.copy = c.copy /\ g.alone = c.alone
  BY <1>1 DEF Call
<1>3. call' = [call EXCEPT ![a] = IF Tail(c.rest) = << >> THEN None ELSE g]
  BY DEF Goes
<1> HIDE DEF g
<1> QED
  BY <1>1, <1>2, <1>3 DEF TypeInv, TypeOK

LEMMA SeqEqual ==
    ASSUME NEW S, NEW s \in Seq(S), NEW t \in Seq(S), Len(s) = Len(t),
           \A i \in 1..Len(s) : s[i] = t[i]
    PROVE  s = t
OBVIOUS

-------------------------------------------------------------------------------
(* The programs of the calls. *)

\* A page is scanned after it was viewed and answered after the scan, or after
\* the last approval it found outdated was reset.
Shape(s) ==
    \A i \in 1..Len(s) :
        /\ s[i] = "scan" => (i = 1 \/ s[i - 1] = "view") /\ i < Len(s) /\ s[i + 1] = "answer"
        /\ s[i] = "answer" => i = 1 \/ s[i - 1] \in {"scan", "reset_outdated"}
        /\ s[i] = "reset_outdated" =>
              (i = 1 \/ (i = 2 /\ s[1] = "load")) /\ i < Len(s) /\ s[i + 1] = "answer"

\* Is the call about to reset an approval, once it has read the checkpoint?
Looping(s) == s[1] = "reset_outdated" \/ (s[1] = "load" /\ Len(s) > 1 /\ s[2] = "reset_outdated")

Program(s) ==
    /\ s \in Seq(Steps) /\ s # << >> /\ Shape(s)
    /\ s[1] \notin {"scan", "answer"} /\ ~Looping(s)

LEMMA ColumnPrograms ==
    /\ Program(approve_column \o get_review)
    /\ Program(edit_column)
    /\ Program(checkpoint \o get_review)
    /\ Program(<<"load", "reset_column">> \o get_review)
    /\ Program(edit_column \o checkpoint)
    /\ Program((checkpoint \o get_review) \o checkpoint)
    /\ Program(<< >> \o checkpoint)
<1>1. Program(approve_column \o get_review) /\ Program(edit_column)
  BY DEF Program, Shape, Looping, Steps, approve_column, edit_column, get_review
<1>2. /\ Program(checkpoint \o get_review)
      /\ Program(<<"load", "reset_column">> \o get_review)
  BY DEF Program, Shape, Looping, Steps, checkpoint, get_review
<1>3. Program(edit_column \o checkpoint)
  BY DEF Program, Shape, Looping, Steps, checkpoint, edit_column, get_review
<1>4. Program((checkpoint \o get_review) \o checkpoint)
  BY DEF Program, Shape, Looping, Steps, checkpoint, get_review
<1>5. Program(<< >> \o checkpoint)
  BY DEF Program, Shape, Looping, Steps, checkpoint
<1> QED
  BY <1>1, <1>2, <1>3, <1>4, <1>5

LEMMA OtherPrograms ==
    /\ Program(get_review) /\ Program(finalizing)
    /\ Program(<<"view", "blockers", "load", "finalize_required">> \o finalizing)
    /\ Program(<<"load", "set_item">>)
    /\ Program(<<"fold">>)
    /\ Program(<<"total", "load", "set_column", "fold">>)
<1>1. Program(get_review) /\ Program(finalizing)
  BY DEF Program, Shape, Looping, Steps, finalizing, get_review
<1>2. Program(<<"view", "blockers", "load", "finalize_required">> \o finalizing)
  BY DEF Program, Shape, Looping, Steps, finalizing, get_review
<1>3. Program(<<"load", "set_item">>)
  BY DEF Program, Shape, Looping, Steps
<1>4. Program(<<"fold">>) /\ Program(<<"total", "load", "set_column", "fold">>)
  BY DEF Program, Shape, Looping, Steps
<1> QED
  BY <1>1, <1>2, <1>3, <1>4

\* What follows a step.
LEMMA WhatFollows ==
    ASSUME NEW s \in Seq(Steps), s # << >>, Shape(s), Tail(s) # << >>
    PROVE  /\ Tail(s) \in Seq(Steps) /\ Shape(Tail(s))
           /\ Tail(s)[1] = "scan" => s[1] = "view"
           /\ Tail(s)[1] = "answer" => s[1] \in {"scan", "reset_outdated"}
           /\ Looping(Tail(s)) => s[1] = "load" /\ Looping(s) /\ Tail(s)[1] = "reset_outdated"
<1>1. /\ Tail(s) \in Seq(Steps) /\ Len(Tail(s)) = Len(s) - 1 /\ Len(s) > 1
      /\ \A i \in 1..Len(Tail(s)) : Tail(s)[i] = s[i + 1]
  OBVIOUS
<1>2. Shape(Tail(s))
  <2> SUFFICES ASSUME NEW i \in 1..Len(Tail(s))
               PROVE  LET t == Tail(s) IN
                  /\ t[i] = "scan" => (i = 1 \/ t[i - 1] = "view") /\ i < Len(t) /\ t[i + 1] = "answer"
                  /\ t[i] = "answer" => i = 1 \/ t[i - 1] \in {"scan", "reset_outdated"}
                  /\ t[i] = "reset_outdated" =>
                        (i = 1 \/ (i = 2 /\ t[1] = "load")) /\ i < Len(t) /\ t[i + 1] = "answer"
    BY DEF Shape
  <2>1. i + 1 \in 1..Len(s)
    BY <1>1
  <2>2. /\ s[i + 1] = "scan" => s[i] = "view" /\ i + 1 < Len(s) /\ s[i + 2] = "answer"
        /\ s[i + 1] = "answer" => s[i] \in {"scan", "reset_outdated"}
        /\ s[i + 1] = "reset_outdated" => i = 1 /\ i + 1 < Len(s) /\ s[i + 2] = "answer"
    BY <2>1 DEF Shape
  <2> QED
    BY <1>1, <2>1, <2>2
<1>3. 2 \in 1..Len(s) /\ Tail(s)[1] = s[2]
  BY <1>1
<1>4. Len(s) > 2 => s[3] # "reset_outdated" /\ Tail(s)[2] = s[3]
  BY <1>1 DEF Shape
<1> QED
  BY <1>1, <1>2, <1>3, <1>4 DEF Shape, Looping

-------------------------------------------------------------------------------
(* What the step of a call changes of the calls. *)

Others(a) ==
    /\ call' \in [Callers -> Call \cup {None}]
    /\ \A b \in Callers \ {a} : call'[b] = call[b]

\* The call of a goes on with its next step, or ends.
Moves(a) ==
    /\ Others(a)
    /\ call'[a] # None =>
          /\ call'[a] \in Call
          /\ Tail(call[a].rest) # << >> /\ call'[a].rest = Tail(call[a].rest)
          /\ call'[a].seen = (IF call[a].rest[1] = "view" THEN contract ELSE call[a].seen)
          /\ call'[a].outdated = call[a].outdated /\ call'[a].alone = call[a].alone

LEMMA AtStep ==
    ASSUME TypeInv, NEW a \in Callers, NEW step, At(a, step)
    PROVE  call[a] \in Call /\ call[a].rest # << >> /\ call[a].rest[1] = step
           /\ call[a] # None
<1>1. call[a] \in Call /\ call[a].rest # << >>
  BY DEF TypeInv, TypeOK, At
<1> QED
  BY <1>1 DEF At, Call

LEMMA SnapshotDoes ==
    ASSUME TypeInv, NEW a \in Callers, Snapshot(a)
    PROVE  Moves(a)
<1>1. call[a] \in Call /\ call[a].rest # << >> /\ call[a].rest[1] = "snapshot"
  BY AtStep DEF Snapshot
<1>2. count_columns(contract.schema) \in 0..NumColumns
  BY ColumnsAreCounted DEF count_columns, TypeInv, TypeOK, Contract
<1>3. contract.value[call[a].column] \in Values
  BY <1>1 DEF TypeInv, TypeOK, Contract, Call
<1> DEFINE f == [call[a] EXCEPT !.approved = contract.value[call[a].column]]
           g == [f EXCEPT !.total = count_columns(contract.schema)]
<1>4. f \in Call /\ f.rest = call[a].rest /\ f.seen = call[a].seen
      /\ f.outdated = call[a].outdated /\ f.alone = call[a].alone
  BY <1>1, <1>3 DEF Call
<1> HIDE DEF f
<1>5. g \in Call /\ g.rest = f.rest /\ g.seen = f.seen
      /\ g.outdated = f.outdated /\ g.alone = f.alone
  BY <1>2, <1>4 DEF Call
<1>6. Goes(a, g)
  BY DEF Snapshot, f, g
<1> HIDE DEF g
<1> QED
  BY <1>1, <1>4, <1>5, <1>6, CallGoes DEF Moves, Others

LEMMA CountDoes ==
    ASSUME TypeInv, NEW a \in Callers, Count(a)
    PROVE  Moves(a)
<1>1. call[a] \in Call /\ call[a].rest # << >> /\ call[a].rest[1] = "count"
  BY AtStep DEF Count
<1>2. count_columns(contract.schema) \in 0..NumColumns
  BY ColumnsAreCounted DEF count_columns, TypeInv, TypeOK, Contract
<1> DEFINE g == [call[a] EXCEPT !.total = count_columns(contract.schema)]
<1>3. g \in Call /\ g.rest = call[a].rest /\ g.seen = call[a].seen
      /\ g.outdated = call[a].outdated /\ g.alone = call[a].alone
  BY <1>1, <1>2 DEF Call
<1>4. Goes(a, g)
  BY DEF Count
<1> HIDE DEF g
<1> QED
  BY <1>1, <1>3, <1>4, CallGoes DEF Moves, Others

LEMMA TotalDoes ==
    ASSUME TypeInv, NEW a \in Callers, Total(a)
    PROVE  Moves(a)
<1>1. call[a] \in Call /\ call[a].rest # << >> /\ call[a].rest[1] = "total"
  BY AtStep DEF Total
<1>2. /\ review.total_columns \in 0..NumColumns
      /\ review.approved[call[a].column] \in Values \cup {None}
  BY <1>1 DEF TypeInv, TypeOK, ReviewState, Call
<1> DEFINE f == [call[a] EXCEPT !.total = review.total_columns]
           g == [f EXCEPT !.approved = review.approved[call[a].column]]
<1>3. f \in Call /\ f.rest = call[a].rest /\ f.seen = call[a].seen
      /\ f.outdated = call[a].outdated /\ f.alone = call[a].alone
  BY <1>1, <1>2 DEF Call
<1> HIDE DEF f
<1>4. g \in Call /\ g.rest = f.rest /\ g.seen = f.seen
      /\ g.outdated = f.outdated /\ g.alone = f.alone
  BY <1>2, <1>3 DEF Call
<1>5. Goes(a, g)
  BY DEF Total, f, g
<1> HIDE DEF g
<1> QED
  BY <1>1, <1>3, <1>4, <1>5, CallGoes DEF Moves, Others

LEMMA ViewDoes ==
    ASSUME TypeInv, NEW a \in Callers, View(a)
    PROVE  Moves(a)
<1>1. call[a] \in Call /\ call[a].rest # << >> /\ call[a].rest[1] = "view"
  BY AtStep DEF View
<1> DEFINE g == [call[a] EXCEPT !.seen = contract]
<1>2. g \in Call /\ g.rest = call[a].rest /\ g.seen = contract
      /\ g.outdated = call[a].outdated /\ g.alone = call[a].alone
  BY <1>1 DEF Call, TypeInv, TypeOK
<1>3. Goes(a, g)
  BY DEF View
<1> HIDE DEF g
<1> QED
  BY <1>1, <1>2, <1>3, CallGoes DEF Moves, Others

LEMMA LoadDoes ==
    ASSUME TypeInv, NEW a \in Callers, Load(a)
    PROVE  Moves(a) /\ (call'[a] # None => call'[a].copy = review)
<1>1. call[a] \in Call /\ call[a].rest # << >> /\ call[a].rest[1] = "load"
  BY AtStep DEF Load
<1> DEFINE g == [call[a] EXCEPT !.copy = review]
<1>2. g \in Call /\ g.rest = call[a].rest /\ g.seen = call[a].seen /\ g.copy = review
      /\ g.outdated = call[a].outdated /\ g.alone = call[a].alone
  BY <1>1 DEF Call, TypeInv, TypeOK
<1>3. Goes(a, g)
  BY DEF Load
<1> HIDE DEF g
<1> QED
  BY <1>1, <1>2, <1>3, CallGoes DEF Moves, Others

\* A call forgets its copy when it has saved it.
LEMMA SavingMoves ==
    ASSUME TypeInv, NEW a \in Callers, call[a] \in Call, call[a].rest # << >>,
           call[a].rest[1] # "view", Goes(a, saved(call[a]))
    PROVE  Moves(a)
<1>1. /\ saved(call[a]) \in Call /\ saved(call[a]).rest = call[a].rest
      /\ saved(call[a]).seen = call[a].seen /\ saved(call[a]).outdated = call[a].outdated
      /\ saved(call[a]).alone = call[a].alone
  BY SavedForgets
<1> QED
  BY <1>1, CallGoes DEF Moves, Others

LEMMA GoingOnMoves ==
    ASSUME TypeInv, NEW a \in Callers, call[a] \in Call, call[a].rest # << >>,
           call[a].rest[1] # "view", Goes(a, call[a])
    PROVE  Moves(a)
BY CallGoes DEF Moves, Others

LEMMA LeavingMoves ==
    ASSUME TypeInv, NEW a \in Callers, Leave(a)
    PROVE  Moves(a)
BY DEF Leave, Moves, Others, TypeInv, TypeOK

\* Once more around the loop over the outdated approvals.
Again(s) == <<"load", "reset_outdated">> \o Tail(s)

LEMMA AgainIs ==
    ASSUME NEW s \in Seq(Steps), s # << >>
    PROVE  /\ Again(s) \in Seq(Steps) /\ Len(Again(s)) = 1 + Len(s)
           /\ \A i \in 1..Len(Again(s)) :
                 Again(s)[i] = IF i = 1 THEN "load" ELSE IF i = 2 THEN "reset_outdated" ELSE s[i - 1]
<1>1. Tail(s) \in Seq(Steps) /\ Len(Tail(s)) = Len(s) - 1
  OBVIOUS
<1>2. <<"load", "reset_outdated">> \in Seq(Steps)
  BY DEF Steps
<1> QED
  BY <1>1, <1>2 DEF Again

LEMMA ScanAgain ==
    ASSUME NEW s \in Seq(Steps), s # << >>
    PROVE  LET p == <<"scan", "load", "reset_outdated">> \o Tail(s) IN
           p \in Seq(Steps) /\ p # << >> /\ Tail(p) = Again(s)
<1> DEFINE p == <<"scan", "load", "reset_outdated">> \o Tail(s)
<1>1. <<"scan", "load", "reset_outdated">> \in Seq(Steps) /\ Tail(s) \in Seq(Steps)
      /\ Len(Tail(s)) = Len(s) - 1
  BY DEF Steps
<1>2. p \in Seq(Steps) /\ Len(p) = 2 + Len(s)
  BY <1>1
<1>3. Tail(p) \in Seq(Steps) /\ Len(Tail(p)) = Len(Again(s))
  BY <1>2, AgainIs
<1>4. \A i \in 1..Len(Tail(p)) : Tail(p)[i] = Again(s)[i]
  <2> TAKE i \in 1..Len(Tail(p))
  <2>1. Tail(p)[i] = p[i + 1]
    BY <1>2, <1>3
  <2>2. p[i + 1] = IF i = 1 THEN "load" ELSE IF i = 2 THEN "reset_outdated" ELSE s[i - 1]
    BY <1>1, <1>2, <1>3
  <2> QED
    BY <1>3, <2>1, <2>2, AgainIs
<1>5. Tail(p) = Again(s)
  BY <1>3, <1>4, AgainIs, SeqEqual
<1> QED
  BY <1>2, <1>5

LEMMA ResetAgain ==
    ASSUME NEW s \in Seq(Steps), s # << >>, s[1] = "reset_outdated"
    PROVE  LET p == <<"reset_outdated", "load">> \o s IN
           p \in Seq(Steps) /\ p # << >> /\ Tail(p) = Again(s)
<1> DEFINE p == <<"reset_outdated", "load">> \o s
<1>1. <<"reset_outdated", "load">> \in Seq(Steps)
  BY DEF Steps
<1>2. p \in Seq(Steps) /\ Len(p) = 2 + Len(s)
  BY <1>1
<1>3. Tail(p) \in Seq(Steps) /\ Len(Tail(p)) = Len(Again(s))
  BY <1>2, AgainIs
<1>4. \A i \in 1..Len(Tail(p)) : Tail(p)[i] = Again(s)[i]
  <2> TAKE i \in 1..Len(Tail(p))
  <2>1. Tail(p)[i] = p[i + 1]
    BY <1>2, <1>3
  <2>2. p[i + 1] = IF i = 1 THEN "load" ELSE s[i - 1]
    BY <1>1, <1>2, <1>3
  <2> QED
    BY <1>3, <2>1, <2>2, AgainIs
<1>5. Tail(p) = Again(s)
  BY <1>3, <1>4, AgainIs, SeqEqual
<1> QED
  BY <1>2, <1>5

LEMMA AgainHasShape ==
    ASSUME NEW s \in Seq(Steps), s # << >>, Shape(s), s[1] \in {"scan", "reset_outdated"}
    PROVE  /\ Shape(Again(s)) /\ Looping(Again(s)) /\ Again(s) # << >>
           /\ Again(s)[1] = "load"
<1>1. Len(s) > 1 /\ s[2] = "answer"
  BY DEF Shape
<1>2. Again(s) \in Seq(Steps) /\ Len(Again(s)) = 1 + Len(s)
  BY AgainIs
<1> DEFINE t == Again(s)
<1>3. t[1] = "load" /\ t[2] = "reset_outdated" /\ t[3] = "answer"
  BY <1>1, <1>2, AgainIs
<1>4. \A i \in 1..Len(t) : i > 2 => t[i] = s[i - 1]
  BY <1>2, AgainIs
<1> HIDE DEF t
<1>5. Shape(t)
  <2> SUFFICES ASSUME NEW i \in 1..Len(t)
               PROVE  /\ t[i] = "scan" => (i = 1 \/ t[i - 1] = "view") /\ i < Len(t) /\ t[i + 1] = "answer"
                      /\ t[i] = "answer" => i = 1 \/ t[i - 1] \in {"scan", "reset_outdated"}
                      /\ t[i] = "reset_outdated" =>
                            (i = 1 \/ (i = 2 /\ t[1] = "load")) /\ i < Len(t) /\ t[i + 1] = "answer"
    BY DEF Shape
  <2>1. CASE i \in 1..3
    BY <1>1, <1>2, <1>3, <2>1 DEF t
  <2>2. CASE i > 3
    <3>1. i - 1 \in 1..Len(s) /\ i - 1 > 2 /\ Len(t) = 1 + Len(s)
      BY <1>2, <2>2 DEF t
    <3>2. t[i] = s[i - 1] /\ t[i - 1] = s[i - 2] /\ (i < Len(t) => t[i + 1] = s[i])
      BY <1>4, <2>2, <3>1
    <3>3. /\ s[i - 1] = "scan" => s[i - 2] = "view" /\ i - 1 < Len(s) /\ s[i] = "answer"
          /\ s[i - 1] = "answer" => s[i - 2] \in {"scan", "reset_outdated"}
          /\ s[i - 1] # "reset_outdated"
      BY <3>1 DEF Shape
    <3> QED
      BY <2>2, <3>1, <3>2, <3>3
  <2> QED
    BY <2>1, <2>2
<1> QED
  BY <1>1, <1>2, <1>3, <1>5 DEF Looping, t

LEMMA ScanDoes ==
    ASSUME TypeInv, NEW a \in Callers, Scan(a)
    PROVE  /\ Others(a)
           /\ LET old == {c \in call[a].seen.schema : outdated(review, call[a].seen, c)} IN
              call'[a] # None =>
                /\ call'[a] \in Call /\ call'[a].outdated = old
                /\ call'[a].seen = call[a].seen /\ call'[a].alone = call[a].alone
                /\ IF old = {} THEN Tail(call[a].rest) # << >> /\ call'[a].rest = Tail(call[a].rest)
                   ELSE call'[a].rest = Again(call[a].rest)
<1>1. call[a] \in Call /\ call[a].rest # << >> /\ call[a].rest[1] = "scan"
  BY AtStep DEF Scan
<1> DEFINE old == {c \in call[a].seen.schema : outdated(review, call[a].seen, c)}
           steps == IF old = {} THEN call[a].rest
                    ELSE <<"scan", "load", "reset_outdated">> \o Tail(call[a].rest)
           f == [call[a] EXCEPT !.outdated = old]
           g == [f EXCEPT !.rest = steps]
<1>2. old \in SUBSET Columns
  BY <1>1 DEF Call, Contract
<1> HIDE DEF old
<1>3. f \in Call /\ f.rest = call[a].rest /\ f.seen = call[a].seen /\ f.outdated = old
      /\ f.alone = call[a].alone
  BY <1>1, <1>2 DEF Call
<1>4. /\ steps \in Seq(Steps) /\ steps # << >>
      /\ IF old = {} THEN steps = call[a].rest
         ELSE Tail(steps) = Again(call[a].rest)
  <2>1. call[a].rest \in Seq(Steps)
    BY <1>1 DEF Call
  <2>2. CASE old = {}
    BY <1>1, <2>1, <2>2
  <2>3. CASE old # {}
    BY <1>1, <2>1, <2>3, ScanAgain
  <2> QED
    BY <2>2, <2>3
<1>5. Goes(a, g)
  BY DEF Scan, f, g, old
<1> HIDE DEF f, steps
<1>6. g \in Call /\ g.rest = steps /\ g.seen = f.seen /\ g.outdated = f.outdated
      /\ g.alone = f.alone
  BY <1>3, <1>4 DEF Call
<1> HIDE DEF g
<1>7. /\ Others(a)
      /\ call'[a] # None =>
            /\ call'[a] \in Call /\ call'[a].outdated = old
            /\ call'[a].seen = call[a].seen /\ call'[a].alone = call[a].alone
            /\ Tail(steps) # << >> /\ call'[a].rest = Tail(steps)
  BY <1>3, <1>4, <1>5, <1>6, CallGoes DEF Others
<1>8. call'[a] # None =>
         IF old = {} THEN Tail(call[a].rest) # << >> /\ call'[a].rest = Tail(call[a].rest)
         ELSE call'[a].rest = Again(call[a].rest)
  BY <1>4, <1>7
<1> QED
  BY <1>7, <1>8 DEF old

LEMMA ResetOutdatedDoes ==
    ASSUME TypeInv, NEW a \in Callers, ResetOutdated(a)
    PROVE  LET c == CHOOSE c \in call[a].outdated : \A d \in call[a].outdated : c <= d IN
           /\ Others(a)
           /\ call'[a] # None =>
                /\ call'[a] \in Call /\ call'[a].outdated = call[a].outdated \ {c}
                /\ call'[a].seen = call[a].seen /\ call'[a].alone = call[a].alone
                /\ IF call[a].outdated \ {c} = {}
                   THEN Tail(call[a].rest) # << >> /\ call'[a].rest = Tail(call[a].rest)
                   ELSE call'[a].rest = Again(call[a].rest)
           /\ IF call[a].copy.status[c] # "absent"
              THEN review' = reset(call[a].copy, c) /\ halfway' = FALSE
              ELSE UNCHANGED <<review, halfway>>
           /\ UNCHANGED <<contract, calls>>
<1>1. call[a] \in Call /\ call[a].rest # << >> /\ call[a].rest[1] = "reset_outdated"
  BY AtStep DEF ResetOutdated
<1> DEFINE c == CHOOSE c \in call[a].outdated : \A d \in call[a].outdated : c <= d
           left == call[a].outdated \ {c}
           s == saved(call[a])
           steps == IF left = {} THEN s.rest ELSE <<"reset_outdated", "load">> \o s.rest
           f == [s EXCEPT !.outdated = left]
           g == [f EXCEPT !.rest = steps]
<1>2. left \in SUBSET Columns
  BY <1>1 DEF Call
<1>3. s \in Call /\ s.rest = call[a].rest /\ s.seen = call[a].seen /\ s.alone = call[a].alone
  BY <1>1, SavedForgets
<1>4. /\ Goes(a, [saved(call[a]) EXCEPT !.outdated = left,
                     !.rest = IF left = {} THEN @ ELSE <<"reset_outdated", "load">> \o @])
      /\ IF call[a].copy.status[c] # "absent"
         THEN Save(a, reset(call[a].copy, c), FALSE)
         ELSE UNCHANGED <<contract, review, calls, halfway>>
  BY DEF ResetOutdated
<1> HIDE DEF c
<1>5. /\ IF call[a].copy.status[c] # "absent"
         THEN review' = reset(call[a].copy, c) /\ halfway' = FALSE
         ELSE UNCHANGED <<review, halfway>>
      /\ UNCHANGED <<contract, calls>>
  BY <1>4 DEF Save
<1> HIDE DEF left, s
<1>6. f \in Call /\ f.rest = s.rest /\ f.seen = s.seen /\ f.outdated = left
      /\ f.alone = s.alone
  BY <1>2, <1>3 DEF Call
<1>7. /\ steps \in Seq(Steps) /\ steps # << >>
      /\ IF left = {} THEN steps = call[a].rest ELSE Tail(steps) = Again(call[a].rest)
  <2>1. call[a].rest \in Seq(Steps)
    BY <1>1 DEF Call
  <2>2. CASE left = {}
    BY <1>1, <1>3, <2>1, <2>2
  <2>3. CASE left # {}
    BY <1>1, <1>3, <2>1, <2>3, ResetAgain
  <2> QED
    BY <2>2, <2>3
<1>8. Goes(a, g)
  BY <1>4, <1>6 DEF f, s
<1> HIDE DEF f, steps
<1>9. g \in Call /\ g.rest = steps /\ g.seen = f.seen /\ g.outdated = f.outdated
      /\ g.alone = f.alone
  BY <1>6, <1>7 DEF Call
<1> HIDE DEF g
<1>10. /\ Others(a)
       /\ call'[a] # None =>
             /\ call'[a] \in Call /\ call'[a].outdated = left
             /\ call'[a].seen = call[a].seen /\ call'[a].alone = call[a].alone
             /\ Tail(steps) # << >> /\ call'[a].rest = Tail(steps)
  BY <1>3, <1>6, <1>7, <1>8, <1>9, CallGoes DEF Others
<1>11. call'[a] # None =>
          IF left = {} THEN Tail(call[a].rest) # << >> /\ call'[a].rest = Tail(call[a].rest)
          ELSE call'[a].rest = Again(call[a].rest)
  BY <1>7, <1>10
<1> QED
  BY <1>5, <1>10, <1>11 DEF c, left

LEMMA ResetOutdatedWrites ==
    ASSUME TypeInv, NEW a \in Callers, ResetOutdated(a)
    PROVE  /\ UNCHANGED <<contract, calls>>
           /\ \/ \E r \in ReviewState : \E c : review' = reset(r, c) /\ halfway' = FALSE
              \/ UNCHANGED <<review, halfway>>
<1>1. call[a].copy \in ReviewState
  BY AtStep DEF ResetOutdated, Call
<1> QED
  BY <1>1 DEF ResetOutdated, Save

\* What a call writes to the checkpoint and to the contract.
LEMMA SetColumnDoes ==
    ASSUME TypeInv, NEW a \in Callers, SetColumn(a)
    PROVE  /\ Moves(a) /\ UNCHANGED <<contract, calls>> /\ halfway' = FALSE
           /\ call[a].rest[1] \in {"set_column", "set_edited"}
           /\ \E r \in ReviewState : review' = refresh_flags(r, recorded_items(r), {})
<1>1. call[a] \in Call /\ call[a].rest # << >> /\ call[a].rest[1] \in {"set_column", "set_edited"}
  BY AtStep DEF SetColumn
<1> DEFINE r == with_column(call[a], IF At(a, "set_edited") THEN "edited" ELSE call[a].status)
<1>2. r \in ReviewState
  <2>1. "edited" \in Status /\ call[a].status \in Status
    BY <1>1 DEF Call, Status, REVIEWED_STATUSES
  <2> QED
    BY <1>1, <2>1, VerdictIsTyped
<1>3. /\ Save(a, refresh_flags(r, recorded_items(r), {}), FALSE)
      /\ Goes(a, saved(call[a]))
  BY DEF SetColumn
<1> HIDE DEF r
<1>4. Moves(a)
  BY <1>1, <1>3, SavingMoves
<1> QED
  BY <1>1, <1>2, <1>3, <1>4 DEF Save

LEMMA SetItemDoes ==
    ASSUME TypeInv, NEW a \in Callers, SetItem(a)
    PROVE  /\ Moves(a) /\ UNCHANGED <<contract, calls>> /\ halfway' = FALSE
           /\ call[a].rest[1] = "set_item"
           /\ \E r \in ReviewState : review' = refresh_flags(r, Items, {})
<1>1. call[a] \in Call /\ call[a].rest # << >> /\ call[a].rest[1] = "set_item"
  BY AtStep DEF SetItem
<1> DEFINE verdict == IF call[a].status \in REVIEWED_STATUSES THEN "reviewed" ELSE "blocking"
           r == [call[a].copy EXCEPT !.items[call[a].item] = verdict]
<1>2. verdict \in {"reviewed", "blocking"}
  OBVIOUS
<1>3. /\ Save(a, refresh_flags(r, Items, {}), FALSE)
      /\ Goes(a, saved(call[a]))
  BY DEF SetItem
<1> HIDE DEF verdict
<1>4. r \in ReviewState
  BY <1>1, <1>2 DEF Call, ReviewState
<1> HIDE DEF r
<1>5. Moves(a)
  BY <1>1, <1>3, SavingMoves
<1> QED
  BY <1>1, <1>3, <1>4, <1>5 DEF Save

LEMMA ResetEntryDoes ==
    ASSUME TypeInv, NEW a \in Callers, ResetEntry(a)
    PROVE  /\ Moves(a) /\ UNCHANGED <<contract, calls>>
           /\ call[a].rest[1] = "reset_column"
           /\ \/ \E r \in ReviewState, c \in Columns : review' = reset(r, c) /\ halfway' = FALSE
              \/ UNCHANGED <<review, halfway>>
<1>1. call[a] \in Call /\ call[a].rest # << >> /\ call[a].rest[1] = "reset_column"
  BY AtStep DEF ResetEntry
<1>2. call[a].copy \in ReviewState /\ call[a].column \in Columns
  BY <1>1 DEF Call
<1>3. Moves(a)
  BY <1>1, SavingMoves DEF ResetEntry
<1> QED
  BY <1>1, <1>2, <1>3 DEF ResetEntry, Save

LEMMA FinalizeRequiredDoes ==
    ASSUME TypeInv, NEW a \in Callers, FinalizeRequired(a)
    PROVE  /\ Moves(a) /\ UNCHANGED <<contract, calls>> /\ halfway' = TRUE
           /\ call[a].rest[1] = "finalize_required"
           /\ review' \in ReviewState
<1>1. call[a] \in Call /\ call[a].rest # << >> /\ call[a].rest[1] = "finalize_required"
  BY AtStep DEF FinalizeRequired
<1> DEFINE seen == call[a].seen.schema
           n == IF call[a].copy.total_columns < Cardinality(seen) THEN Cardinality(seen)
                ELSE call[a].copy.total_columns
           r == [call[a].copy EXCEPT !.total_columns = n]
<1>2. n \in 0..NumColumns
  <2>1. Cardinality(seen) \in 0..NumColumns
    BY <1>1, ColumnsAreCounted DEF Call, Contract
  <2> QED
    BY <1>1, <2>1 DEF Call, ReviewState
<1>3. Save(a, refresh_flags(r, Items, seen), TRUE) /\ Goes(a, saved(call[a]))
  BY DEF FinalizeRequired
<1> HIDE DEF n
<1>4. r \in ReviewState
  BY <1>1, <1>2 DEF Call, ReviewState
<1> HIDE DEF r, seen
<1>5. refresh_flags(r, Items, seen) \in ReviewState
  BY <1>4, RefreshSetsTheFlag
<1>6. Moves(a)
  BY <1>1, <1>3, SavingMoves
<1> QED
  BY <1>1, <1>3, <1>5, <1>6 DEF Save

LEMMA FinalizeRecordedDoes ==
    ASSUME TypeInv, NEW a \in Callers, FinalizeRecorded(a)
    PROVE  /\ Moves(a) /\ UNCHANGED <<contract, calls>> /\ halfway' = FALSE
           /\ call[a].rest[1] = "finalize"
           /\ \E r \in ReviewState : review' = refresh_flags(r, recorded_items(r), {})
<1>1. call[a] \in Call /\ call[a].rest # << >> /\ call[a].rest[1] = "finalize"
  BY AtStep DEF FinalizeRecorded
<1>2. call[a].copy \in ReviewState
  BY <1>1 DEF Call
<1>3. Moves(a)
  BY <1>1, SavingMoves DEF FinalizeRecorded
<1> QED
  BY <1>1, <1>2, <1>3 DEF FinalizeRecorded, Save

LEMMA PatchDoes ==
    ASSUME TypeInv, NEW a \in Callers, Patch(a)
    PROVE  /\ Moves(a) /\ UNCHANGED <<review, calls, halfway>>
           /\ call[a].rest[1] = "edit" /\ contract' \in Contract
<1>1. call[a] \in Call /\ call[a].rest # << >> /\ call[a].rest[1] = "edit"
  BY AtStep DEF Patch
<1>2. Moves(a)
  BY <1>1, GoingOnMoves DEF Patch
<1>3. PICK v \in Values : contract' = [contract EXCEPT !.value[call[a].column] = v]
  BY DEF Patch
<1>4. contract' \in Contract
  BY <1>3 DEF TypeInv, TypeOK, Contract
<1> QED
  BY <1>1, <1>2, <1>4 DEF Patch

LEMMA FoldDoes ==
    ASSUME TypeInv, NEW a \in Callers, Fold(a)
    PROVE  /\ Moves(a) /\ UNCHANGED <<review, calls, halfway>>
           /\ call[a].rest[1] = "fold" /\ contract' \in Contract
<1>1. call[a] \in Call /\ call[a].rest # << >> /\ call[a].rest[1] = "fold"
  BY AtStep DEF Fold
<1>2. Moves(a)
  BY <1>1, GoingOnMoves DEF Fold
<1>3. PICK v \in Values : contract' = [contract EXCEPT !.schema = @ \cup {call[a].column},
                                                      !.value[call[a].column] = v]
  BY DEF Fold
<1>4. call[a].column \in Columns
  BY <1>1 DEF Call
<1>5. contract' \in Contract
  BY <1>3, <1>4 DEF TypeInv, TypeOK, Contract
<1> QED
  BY <1>1, <1>2, <1>5 DEF Fold

LEMMA BlockersDoes ==
    ASSUME TypeInv, NEW a \in Callers, Blockers(a)
    PROVE  Moves(a) /\ UNCHANGED <<contract, review, calls, halfway>>
<1>1. call[a] \in Call /\ call[a].rest # << >> /\ call[a].rest[1] = "blockers"
  BY AtStep DEF Blockers
<1> QED
  BY <1>1, GoingOnMoves, LeavingMoves DEF Blockers

LEMMA AnswerDoes ==
    ASSUME TypeInv, NEW a \in Callers, Answer(a)
    PROVE  Moves(a) /\ UNCHANGED <<contract, review, calls, halfway>>
<1>1. call[a] \in Call /\ call[a].rest # << >> /\ call[a].rest[1] = "answer"
  BY AtStep DEF Answer
<1> QED
  BY <1>1, GoingOnMoves DEF Answer

\* The steps that only read, but for the scan.
Reads(a) ==
    Snapshot(a) \/ Count(a) \/ Total(a) \/ View(a) \/ Load(a) \/ Blockers(a) \/ Answer(a) \/ Raise(a)

LEMMA ReadsDoes ==
    ASSUME TypeInv, NEW a \in Callers, Reads(a)
    PROVE  Moves(a) /\ UNCHANGED <<contract, review, calls, halfway>>
<1>1. CASE Snapshot(a)
  BY <1>1, SnapshotDoes DEF Snapshot
<1>2. CASE Count(a)
  BY <1>2, CountDoes DEF Count
<1>3. CASE Total(a)
  BY <1>3, TotalDoes DEF Total
<1>4. CASE View(a)
  BY <1>4, ViewDoes DEF View
<1>5. CASE Load(a)
  BY <1>5, LoadDoes DEF Load
<1>6. CASE Blockers(a) \/ Answer(a)
  BY <1>6, BlockersDoes, AnswerDoes
<1>7. CASE Raise(a)
  BY <1>7, LeavingMoves DEF Raise
<1> QED
  BY <1>1, <1>2, <1>3, <1>4, <1>5, <1>6, <1>7 DEF Reads

LEMMA BeginDoes ==
    ASSUME TypeInv, NEW a \in Callers, NEW steps \in Seq(Steps), NEW c \in Columns,
           NEW i \in Items \cup {None}, NEW st \in Status, Begin(a, steps, c, i, st)
    PROVE  /\ call' \in [Callers -> Call \cup {None}]
           /\ call'[a] \in Call /\ call'[a].rest = steps
           /\ call'[a].alone => \A b \in Callers \ {a} : call'[b] = None
           /\ \A b \in Callers \ {a} :
                 call'[b] # None => /\ call[b] # None /\ call'[b].rest = call[b].rest
                                    /\ ~call'[b].alone
           /\ calls' \in 0..MaxCalls
           /\ UNCHANGED <<contract, review, halfway>>
<1> DEFINE new == [rest |-> steps, column |-> c, item |-> i, status |-> st, approved |-> None,
                   total |-> 0, seen |-> NoContract, outdated |-> {}, copy |-> NoReview,
                   alone |-> \A b \in Callers : call[b] = None]
<1>1. new \in Call /\ new.rest = steps /\ (new.alone <=> \A b \in Callers : call[b] = None)
  BY NoReviewIsTyped, NoContractIsTyped DEF Call
<1>2. call' = [Meets(a) EXCEPT ![a] = new]
  BY DEF Begin
<1> HIDE DEF new
<1>3. ASSUME NEW d \in Call
      PROVE  [d EXCEPT !.alone = FALSE] \in Call /\ [d EXCEPT !.alone = FALSE].rest = d.rest
             /\ ~[d EXCEPT !.alone = FALSE].alone
  BY DEF Call
<1>4. \A b \in Callers \ {a} :
         call'[b] = IF call[b] # None THEN [call[b] EXCEPT !.alone = FALSE] ELSE call[b]
  BY <1>2 DEF Meets
<1>5. call'[a] = new /\ DOMAIN call' = Callers
  BY <1>2 DEF Meets
<1>6. \A b \in Callers : call[b] = None \/ call[b] \in Call
  BY DEF TypeInv, TypeOK
<1>7. \A b \in Callers \ {a} :
         call'[b] # None => /\ call[b] # None /\ call'[b] \in Call /\ call'[b].rest = call[b].rest
                            /\ ~call'[b].alone
  BY <1>3, <1>4, <1>6
<1>8. call' \in [Callers -> Call \cup {None}]
  BY <1>1, <1>2, <1>3, <1>6 DEF Meets
<1>9. call'[a].alone => \A b \in Callers \ {a} : call'[b] = None
  BY <1>1, <1>4, <1>5
<1>10. calls' \in 0..MaxCalls /\ UNCHANGED <<contract, review, halfway>>
  BY DEF Begin, TypeInv, TypeOK
<1> QED
  BY <1>1, <1>5, <1>7, <1>8, <1>9, <1>10

LEMMA PurgeDoes ==
    ASSUME TypeInv, Purge
    PROVE  /\ call' \in [Callers -> Call \cup {None}]
           /\ \A b \in Callers :
                 call'[b] # None => /\ call[b] # None /\ call'[b].rest = call[b].rest
                                    /\ ~call'[b].alone
           /\ calls' \in 0..MaxCalls /\ contract' \in Contract
           /\ UNCHANGED <<review, halfway>>
<1>1. call' = [b \in Callers |-> IF call[b] = None THEN None ELSE [call[b] EXCEPT !.alone = FALSE]]
  BY DEF Purge
<1>2. ASSUME NEW d \in Call
      PROVE  [d EXCEPT !.alone = FALSE] \in Call /\ [d EXCEPT !.alone = FALSE].rest = d.rest
             /\ ~[d EXCEPT !.alone = FALSE].alone
  BY DEF Call
<1>3. \A b \in Callers : call[b] = None \/ call[b] \in Call
  BY DEF TypeInv, TypeOK
<1>4. calls' \in 0..MaxCalls /\ contract' \in Contract /\ UNCHANGED <<review, halfway>>
  BY DEF Purge, TypeInv, TypeOK, Contract
<1> QED
  BY <1>1, <1>2, <1>3, <1>4

\* Every call that begins has one of the programs.
LEMMA WhoBegins ==
    ASSUME Next
    PROVE  \/ \E a \in Callers, steps \in Seq(Steps), c \in Columns, i \in Items \cup {None}, st \in Status :
                 Program(steps) /\ Begin(a, steps, c, i, st)
           \/ \E a \in Callers : Work(a) \/ Raise(a)
           \/ Purge
<1> DEFINE Begins == \E a \in Callers, steps \in Seq(Steps), c \in Columns,
                        i \in Items \cup {None}, st \in Status :
                         Program(steps) /\ Begin(a, steps, c, i, st)
<1>1. {"approved", "edited", "needs_review"} \subseteq Status /\ 1 \in Columns
  BY DEF Status, REVIEWED_STATUSES, Columns
<1>2. ASSUME NEW a \in Callers, NEW steps, NEW c \in Columns, NEW i \in Items \cup {None},
             NEW st \in Status, Program(steps), Begin(a, steps, c, i, st)
      PROVE  Begins
  BY <1>2 DEF Program
<1> HIDE DEF Begins
<1>3. ASSUME NEW a \in Callers, NEW c \in Columns,
             \/ ApproveColumn(a, c) \/ EditColumn(a, c) \/ RuleColumn(a, c)
             \/ ResetColumn(a, c) \/ Decide(a, c) \/ Upsert(a, c)
      PROVE  Begins
  <2>1. CASE ApproveColumn(a, c)
    BY <1>1, <1>2, <2>1, ColumnPrograms DEF ApproveColumn
  <2>2. CASE EditColumn(a, c)
    BY <1>1, <1>2, <2>2, ColumnPrograms DEF EditColumn
  <2>3. CASE RuleColumn(a, c)
    BY <1>1, <1>2, <2>3, ColumnPrograms DEF RuleColumn
  <2>4. CASE ResetColumn(a, c)
    BY <1>1, <1>2, <2>4, ColumnPrograms DEF ResetColumn
  <2>5. CASE Decide(a, c)
    <3>1. PICK st \in Rulings :
            Begin(a, (CASE st \in {"approved", "edited"} -> edit_column
                        [] st = "rejected" -> checkpoint \o get_review
                        [] OTHER -> << >>) \o checkpoint, c, None, st)
      BY <2>5 DEF Decide
    <3>2. CASE st \in {"approved", "edited"}
      BY <1>1, <1>2, <3>1, <3>2, ColumnPrograms
    <3>3. CASE st = "rejected"
      BY <1>1, <1>2, <3>1, <3>3, ColumnPrograms
    <3>4. CASE st \notin {"approved", "edited", "rejected"}
      BY <1>1, <1>2, <3>1, <3>4, ColumnPrograms
    <3> QED
      BY <3>2, <3>3, <3>4
  <2>6. CASE Upsert(a, c)
    BY <1>1, <1>2, <2>6, OtherPrograms DEF Upsert
  <2> QED
    BY <1>3, <2>1, <2>2, <2>3, <2>4, <2>5, <2>6
<1>4. ASSUME NEW a \in Callers, NEW i \in Items, DecideTable(a, i)
      PROVE  Begins
  BY <1>1, <1>2, <1>4, OtherPrograms DEF DecideTable
<1>5. ASSUME NEW a \in Callers, GetReview(a) \/ Finalize(a) \/ StewardFinalize(a)
      PROVE  Begins
  BY <1>1, <1>2, <1>5, OtherPrograms DEF GetReview, Finalize, StewardFinalize
<1>6. Begins \/ (\E a \in Callers : Work(a) \/ Raise(a)) \/ Purge
  BY <1>3, <1>4, <1>5 DEF Next
<1> QED
  BY <1>6 DEF Begins

-------------------------------------------------------------------------------
(* Type correctness. *)

LEMMA MovesAreTyped ==
    ASSUME TypeInv, NEW a \in Callers, Moves(a), contract' \in Contract, review' \in ReviewState,
           calls' \in 0..MaxCalls, halfway' \in BOOLEAN
    PROVE  TypeInv'
<1>1. \A b \in Callers : call'[b] # None => call'[b].rest # << >>
  BY DEF TypeInv, Moves, Others
<1> QED
  BY <1>1 DEF TypeInv, TypeOK, Moves, Others

LEMMA WorkIsTyped ==
    ASSUME TypeInv, NEW a \in Callers, Work(a) \/ Raise(a)
    PROVE  TypeInv'
<1> USE DEF Work
<1>t. contract \in Contract /\ review \in ReviewState /\ calls \in 0..MaxCalls /\ halfway \in BOOLEAN
  BY DEF TypeInv, TypeOK
<1>1. CASE Reads(a)
  BY <1>1, <1>t, ReadsDoes, MovesAreTyped
<1>2. CASE SetColumn(a)
  <2>1. PICK r \in ReviewState : review' = refresh_flags(r, recorded_items(r), {})
    BY <1>2, SetColumnDoes
  <2>2. review' \in ReviewState
    BY <2>1, RefreshSetsTheFlag
  <2> QED
    BY <1>2, <1>t, <2>2, SetColumnDoes, MovesAreTyped
<1>3. CASE SetItem(a)
  BY <1>3, <1>t, SetItemDoes, RefreshSetsTheFlag, MovesAreTyped
<1>4. CASE ResetEntry(a)
  <2>1. review' \in ReviewState /\ halfway' \in BOOLEAN
    <3>1. CASE UNCHANGED <<review, halfway>>
      BY <1>t, <3>1
    <3>2. CASE \E r \in ReviewState, c \in Columns : review' = reset(r, c) /\ halfway' = FALSE
      BY <3>2, ResetClearsTheFlag
    <3> QED
      BY <1>4, <3>1, <3>2, ResetEntryDoes
  <2> QED
    BY <1>4, <1>t, <2>1, ResetEntryDoes, MovesAreTyped
<1>5. CASE FinalizeRequired(a)
  BY <1>5, <1>t, FinalizeRequiredDoes, MovesAreTyped
<1>6. CASE FinalizeRecorded(a)
  BY <1>6, <1>t, FinalizeRecordedDoes, RefreshSetsTheFlag, MovesAreTyped
<1>7. CASE Patch(a)
  BY <1>7, <1>t, PatchDoes, MovesAreTyped
<1>8. CASE Fold(a)
  BY <1>8, <1>t, FoldDoes, MovesAreTyped
<1>9. CASE Scan(a)
  <2>1. Others(a) /\ UNCHANGED <<contract, review, calls, halfway>>
    BY <1>9, ScanDoes DEF Scan
  <2>2. call'[a] # None => call'[a].rest # << >>
    <3>1. call[a] \in Call /\ call[a].rest # << >> /\ call[a].rest \in Seq(Steps)
      BY <1>9, AtStep DEF Scan, Call
    <3>2. Again(call[a].rest) # << >>
      BY <3>1, AgainIs
    <3> QED
      BY <1>9, <3>2, ScanDoes
  <2>3. \A b \in Callers : call'[b] # None => call'[b].rest # << >>
    BY <2>1, <2>2 DEF TypeInv, Others
  <2> QED
    BY <2>1, <2>3, <1>t DEF TypeInv, TypeOK, Others
<1>10. CASE ResetOutdated(a)
  <2>1. call[a] \in Call /\ call[a].rest # << >> /\ call[a].rest \in Seq(Steps)
    BY <1>10, AtStep DEF ResetOutdated, Call
  <2>2. Others(a) /\ UNCHANGED <<contract, calls>> /\ review' \in ReviewState /\ halfway' \in BOOLEAN
    <3>1. CASE UNCHANGED <<review, halfway>>
      BY <1>10, <1>t, <3>1, ResetOutdatedDoes
    <3>2. CASE \E r \in ReviewState : \E c : review' = reset(r, c) /\ halfway' = FALSE
      <4>1. review' \in ReviewState /\ halfway' \in BOOLEAN
        BY <3>2, ResetClearsTheFlag
      <4> QED
        BY <1>10, <4>1, ResetOutdatedDoes
    <3> QED
      BY <1>10, <3>1, <3>2, ResetOutdatedWrites
  <2>3. call'[a] # None => call'[a].rest # << >>
    <3>1. Again(call[a].rest) # << >>
      BY <2>1, AgainIs
    <3> QED
      BY <1>10, <3>1, ResetOutdatedDoes
  <2>4. \A b \in Callers : call'[b] # None => call'[b].rest # << >>
    BY <2>2, <2>3 DEF TypeInv, Others
  <2> QED
    BY <2>2, <2>4, <1>t DEF TypeInv, TypeOK, Others
<1> QED
  BY <1>1, <1>2, <1>3, <1>4, <1>5, <1>6, <1>7, <1>8, <1>9, <1>10 DEF Reads

LEMMA InitIsTyped ==
    ASSUME Init
    PROVE  TypeInv
<1>1. contract \in Contract
  <2>1. PICK n \in Columns : contract = [NoContract EXCEPT !.schema = 1..n]
    BY DEF Init
  <2>2. 1..n \in SUBSET Columns
    BY DEF Columns
  <2> QED
    BY <2>1, <2>2, NoContractIsTyped DEF Contract
<1>2. review \in ReviewState
  BY <1>1, NoReviewIsTyped, AllReviewedIsTyped DEF Init
<1> QED
  <2>1. call = [a \in Callers |-> None] /\ calls = 0 /\ halfway = FALSE
    BY DEF Init
  <2>2. call \in [Callers -> Call \cup {None}] /\ \A a \in Callers : call[a] = None
    BY <2>1
  <2>3. calls \in 0..MaxCalls
    BY <2>1
  <2>4. halfway \in BOOLEAN
    BY <2>1
  <2> QED
    BY <1>1, <1>2, <2>2, <2>3, <2>4 DEF TypeInv, TypeOK

LEMMA NextIsTyped ==
    ASSUME TypeInv, [Next]_vars
    PROVE  TypeInv'
<1>1. CASE UNCHANGED vars
  BY <1>1 DEF TypeInv, TypeOK, vars
<1>2. ASSUME NEW a \in Callers, NEW steps \in Seq(Steps), NEW c \in Columns,
             NEW i \in Items \cup {None}, NEW st \in Status,
             Program(steps), Begin(a, steps, c, i, st)
      PROVE  TypeInv'
  <2>1. \A b \in Callers : call'[b] # None => call'[b].rest # << >>
    BY <1>2, BeginDoes DEF TypeInv, Program
  <2>2. /\ call' \in [Callers -> Call \cup {None}] /\ calls' \in 0..MaxCalls
        /\ UNCHANGED <<contract, review, halfway>>
    BY <1>2, BeginDoes
  <2> QED
    BY <2>1, <2>2 DEF TypeInv, TypeOK
<1>3. ASSUME NEW a \in Callers, Work(a) \/ Raise(a)
      PROVE  TypeInv'
  BY <1>3, WorkIsTyped
<1>4. CASE Purge
  BY <1>4, PurgeDoes DEF TypeInv, TypeOK
<1> QED
  BY <1>1, <1>2, <1>3, <1>4, WhoBegins

\* The contract, the checkpoint and every call hold what their types say: a
\* call is at a step of its program and never without one, and no count of
\* columns exceeds the columns there are.
THEOREM ReviewTypeCorrect == Spec => []TypeOK
<1>1. Init => TypeInv
  BY InitIsTyped
<1>2. TypeInv /\ [Next]_vars => TypeInv'
  BY NextIsTyped
<1>3. TypeInv => TypeOK
  BY DEF TypeInv
<1> QED
  BY <1>1, <1>2, <1>3, PTL DEF Spec

-------------------------------------------------------------------------------
(* The flag. *)

\* While the flag of r is set, what is on record of r was reviewed.
FlagHolds(r) ==
    r.guaranteed =>
        /\ r.total_columns \in 1..Cardinality(Recorded(r))
        /\ \A c \in Recorded(r) : Reviewed(r, c)
        /\ \A i \in recorded_items(r) : r.items[i] = "reviewed"

\* A refresh that demands at least the items on record keeps the promise.
LEMMA RefreshKeepsPromise ==
    ASSUME NEW r \in ReviewState, NEW required, recorded_items(r) \subseteq required
    PROVE  FlagHolds(refresh_flags(r, required, {}))
<1> DEFINE f == refresh_flags(r, required, {})
<1>1. f.guaranteed => columns_ready(r) /\ table_items_ready(r, required)
  BY DEF refresh_flags, ReviewState
<1>2. f.status = r.status /\ f.items = r.items /\ f.total_columns = r.total_columns
  BY RefreshSetsTheFlag
<1> HIDE DEF f
<1>3. Recorded(f) = Recorded(r) /\ recorded_items(f) = recorded_items(r)
  BY <1>2 DEF Recorded, recorded_items
<1>4. Cardinality(Recorded(r)) \in Nat /\ r.total_columns \in Nat
  <2>1. Recorded(r) \in SUBSET Columns
    BY DEF Recorded
  <2> QED
    BY <2>1, ColumnsAreCounted DEF ReviewState
<1>5. columns_ready(r) => /\ f.total_columns \in 1..Cardinality(Recorded(f))
                          /\ \A c \in Recorded(f) : Reviewed(f, c)
  BY <1>2, <1>3, <1>4 DEF columns_ready, Reviewed
<1>6. table_items_ready(r, required) => \A i \in recorded_items(f) : f.items[i] = "reviewed"
  BY <1>2, <1>3 DEF table_items_ready
<1> QED
  BY <1>1, <1>5, <1>6 DEF FlagHolds, f

FlagInv == ~halfway => FlagHolds(review)

LEMMA InitFlag ==
    ASSUME Init
    PROVE  FlagInv
<1>1. CASE review = NoReview
  BY <1>1 DEF NoReview, FlagInv, FlagHolds
<1>2. CASE review = AllReviewed(contract)
  <2> DEFINE r == [status |-> [c \in Columns |-> IF c \in contract.schema THEN "approved" ELSE "absent"],
                   approved |-> [c \in Columns |-> IF c \in contract.schema THEN contract.value[c] ELSE None],
                   items |-> [i \in Items |-> "reviewed"],
                   total_columns |-> count_columns(contract.schema), guaranteed |-> FALSE]
  <2>1. contract \in Contract
    BY InitIsTyped DEF TypeInv, TypeOK
  <2>2. count_columns(contract.schema) \in 0..NumColumns
    BY <2>1, ColumnsAreCounted DEF count_columns, Contract
  <2>3. r \in ReviewState
    BY <2>1, <2>2 DEF ReviewState, Contract, Status, REVIEWED_STATUSES
  <2>4. review = refresh_flags(r, Items, {})
    BY <1>2 DEF AllReviewed
  <2> HIDE DEF r
  <2>5. recorded_items(r) \subseteq Items
    BY DEF recorded_items
  <2> QED
    BY <2>3, <2>4, <2>5, RefreshKeepsPromise DEF FlagInv
<1> QED
  BY <1>1, <1>2 DEF Init

LEMMA NextFlag ==
    ASSUME TypeInv, FlagInv, [Next]_vars
    PROVE  FlagInv'
<1>u. ASSUME UNCHANGED <<review, halfway>>
      PROVE  FlagInv'
  BY <1>u DEF FlagInv, FlagHolds, Recorded, Reviewed, recorded_items
<1>r. ASSUME NEW r \in ReviewState, NEW required, recorded_items(r) \subseteq required,
             review' = refresh_flags(r, required, {})
      PROVE  FlagInv'
  <2>1. FlagHolds(refresh_flags(r, required, {}))
    BY <1>r, RefreshKeepsPromise
  <2> QED
    BY <1>r, <2>1 DEF FlagInv, FlagHolds, Recorded, Reviewed, recorded_items
<1>c. ASSUME ~review'.guaranteed
      PROVE  FlagInv'
  BY <1>c DEF FlagInv, FlagHolds
<1>1. CASE UNCHANGED vars
  BY <1>1, <1>u DEF vars
<1>2. ASSUME NEW a \in Callers, NEW steps \in Seq(Steps), NEW c \in Columns,
             NEW i \in Items \cup {None}, NEW st \in Status,
             Begin(a, steps, c, i, st)
      PROVE  FlagInv'
  BY <1>2, <1>u DEF Begin
<1>3. ASSUME NEW a \in Callers, Work(a) \/ Raise(a)
      PROVE  FlagInv'
  <2>i. \A r : recorded_items(r) \subseteq Items /\ recorded_items(r) \subseteq recorded_items(r)
    BY DEF recorded_items
  <2>1. CASE Reads(a) \/ Scan(a)
    BY <2>1, <1>u, ReadsDoes DEF Scan
  <2>2. CASE SetColumn(a)
    BY <2>2, <2>i, <1>r, SetColumnDoes
  <2>3. CASE SetItem(a)
    BY <2>3, <2>i, <1>r, SetItemDoes
  <2>4. CASE ResetEntry(a)
    BY <2>4, <1>u, <1>c, ResetEntryDoes, ResetClearsTheFlag
  <2>5. CASE FinalizeRequired(a)
    BY <2>5, FinalizeRequiredDoes DEF FlagInv
  <2>6. CASE FinalizeRecorded(a)
    BY <2>6, <2>i, <1>r, FinalizeRecordedDoes
  <2>7. CASE Patch(a) \/ Fold(a)
    BY <2>7, <1>u, PatchDoes, FoldDoes
  <2>8. CASE ResetOutdated(a)
    BY <2>8, <1>u, <1>c, ResetOutdatedWrites, ResetClearsTheFlag
  <2> QED
    BY <1>3, <2>1, <2>2, <2>3, <2>4, <2>5, <2>6, <2>7, <2>8 DEF Work, Reads
<1>4. CASE Purge
  BY <1>4, <1>u DEF Purge
<1> QED
  BY <1>1, <1>2, <1>3, <1>4, WhoBegins

\* Whatever verdicts, resets, marks and finalizes of however many callers put
\* the checkpoint back, each over what others wrote since it was read: a
\* guaranteed checkpoint, other than one from the first half of a finalize, has
\* nothing on record that was not reviewed, and a verdict for as many columns
\* as it counts.
THEOREM FlagMatchesVerdicts == Spec => []GuaranteeMatchesVerdicts
<1>1. Init => TypeInv /\ FlagInv
  BY InitIsTyped, InitFlag
<1>2. TypeInv /\ FlagInv /\ [Next]_vars => (TypeInv /\ FlagInv)'
  BY NextIsTyped, NextFlag
<1>3. FlagInv => GuaranteeMatchesVerdicts
  BY DEF FlagInv, FlagHolds, GuaranteeMatchesVerdicts
<1> QED
  BY <1>1, <1>2, <1>3, PTL DEF Spec

-------------------------------------------------------------------------------
(* The page. *)

\* The columns whose approval the contract no longer agrees with.
Outdated == {c \in contract.schema : outdated(review, contract, c)}

\* What a call that no other met knows of the contract and the checkpoint.
OnPage(a) ==
    /\ \A b \in Callers \ {a} : call[b] = None
    /\ call[a].rest[1] = "scan" => call[a].seen = contract
    /\ Looping(call[a].rest) => call[a].seen = contract /\ Outdated \subseteq call[a].outdated
    /\ call[a].rest[1] = "reset_outdated" => call[a].copy = review
    /\ call[a].rest[1] = "answer" => Outdated = {}

PageInv ==
    \A a \in Callers : call[a] # None => Shape(call[a].rest) /\ (call[a].alone => OnPage(a))

\* A step of a call touches no call that another has not met.
LEMMA OneOfThemIsEnough ==
    ASSUME TypeInv, PageInv, NEW a \in Callers, call[a] # None, Others(a),
           call'[a] # None => /\ Shape(call'[a].rest) /\ call'[a].alone = call[a].alone
                              /\ call'[a].alone /\ OnPage(a) => OnPage(a)'
    PROVE  PageInv'
<1>1. ASSUME NEW b \in Callers \ {a}, call'[b] # None
      PROVE  Shape(call'[b].rest) /\ ~call'[b].alone
  BY <1>1 DEF PageInv, OnPage, Others
<1>2. ASSUME call'[a] # None
      PROVE  Shape(call'[a].rest) /\ (call'[a].alone => OnPage(a)')
  BY <1>2 DEF PageInv
<1>3. \A b \in Callers : call'[b] # None =>
         Shape(call'[b].rest) /\ (call'[b].alone => b = a /\ OnPage(a)')
  BY <1>1, <1>2
<1> QED
  BY <1>3 DEF PageInv

LEMMA AtCall ==
    ASSUME TypeInv, PageInv, NEW a \in Callers, call[a] # None
    PROVE  call[a] \in Call /\ call[a].rest \in Seq(Steps) /\ call[a].rest # << >>
           /\ Shape(call[a].rest)
BY DEF TypeInv, TypeOK, PageInv, Call

\* The steps that neither look at the page nor lead to one that does.
LEMMA OffThePage ==
    ASSUME TypeInv, PageInv, NEW a \in Callers, call[a] # None, Moves(a),
           call[a].rest[1] \notin {"view", "load", "scan", "reset_outdated"}
    PROVE  PageInv'
<1>1. call[a].rest \in Seq(Steps) /\ call[a].rest # << >> /\ Shape(call[a].rest)
  BY AtCall
<1>2. ASSUME call'[a] # None
      PROVE  /\ Shape(call'[a].rest) /\ call'[a].alone = call[a].alone
             /\ call'[a].rest[1] \notin {"scan", "answer", "reset_outdated"}
             /\ ~Looping(call'[a].rest)
  <2>1. call'[a].rest = Tail(call[a].rest) /\ Tail(call[a].rest) # << >>
        /\ call'[a].alone = call[a].alone
    BY <1>2 DEF Moves
  <2>2. /\ Shape(Tail(call[a].rest)) /\ Tail(call[a].rest)[1] \notin {"scan", "answer"}
        /\ ~Looping(Tail(call[a].rest))
    BY <1>1, <2>1, WhatFollows
  <2> QED
    BY <2>1, <2>2 DEF Looping
<1>3. OnPage(a) /\ call'[a] # None => OnPage(a)'
  BY <1>2 DEF OnPage, Moves, Others
<1> QED
  BY <1>2, <1>3, OneOfThemIsEnough DEF Moves

LEMMA ViewKeepsPage ==
    ASSUME TypeInv, PageInv, NEW a \in Callers, View(a)
    PROVE  PageInv'
<1>1. /\ call[a].rest \in Seq(Steps) /\ call[a].rest # << >> /\ Shape(call[a].rest)
      /\ call[a].rest[1] = "view" /\ call[a] # None
  BY AtStep, AtCall DEF View
<1>2. Moves(a) /\ UNCHANGED <<contract, review>>
  BY ViewDoes DEF View
<1>3. ASSUME call'[a] # None
      PROVE  /\ Shape(call'[a].rest) /\ call'[a].alone = call[a].alone
             /\ call'[a].rest[1] \notin {"answer", "reset_outdated"}
             /\ ~Looping(call'[a].rest) /\ call'[a].seen = contract
  <2>1. /\ call'[a].rest = Tail(call[a].rest) /\ Tail(call[a].rest) # << >>
        /\ call'[a].alone = call[a].alone /\ call'[a].seen = contract
    BY <1>1, <1>2, <1>3 DEF Moves
  <2>2. /\ Shape(Tail(call[a].rest)) /\ Tail(call[a].rest)[1] # "answer"
        /\ ~Looping(Tail(call[a].rest))
    BY <1>1, <2>1, WhatFollows
  <2> QED
    BY <2>1, <2>2 DEF Looping
<1>4. OnPage(a) /\ call'[a] # None => OnPage(a)'
  BY <1>2, <1>3 DEF OnPage, Moves, Others
<1> QED
  BY <1>1, <1>2, <1>3, <1>4, OneOfThemIsEnough DEF Moves

LEMMA LoadKeepsPage ==
    ASSUME TypeInv, PageInv, NEW a \in Callers, Load(a)
    PROVE  PageInv'
<1>1. /\ call[a].rest \in Seq(Steps) /\ call[a].rest # << >> /\ Shape(call[a].rest)
      /\ call[a].rest[1] = "load" /\ call[a] # None
  BY AtStep, AtCall DEF Load
<1>2. Moves(a) /\ UNCHANGED <<contract, review>> /\ (call'[a] # None => call'[a].copy = review)
  BY LoadDoes DEF Load
<1>3. ASSUME call'[a] # None
      PROVE  /\ Shape(call'[a].rest) /\ call'[a].alone = call[a].alone
             /\ call'[a].seen = call[a].seen /\ call'[a].outdated = call[a].outdated
             /\ call'[a].rest[1] \notin {"scan", "answer"}
             /\ Looping(call'[a].rest) => Looping(call[a].rest)
  <2>1. /\ call'[a].rest = Tail(call[a].rest) /\ Tail(call[a].rest) # << >>
        /\ call'[a].alone = call[a].alone /\ call'[a].seen = call[a].seen
        /\ call'[a].outdated = call[a].outdated
    BY <1>1, <1>2, <1>3 DEF Moves
  <2>2. /\ Shape(Tail(call[a].rest)) /\ Tail(call[a].rest)[1] \notin {"scan", "answer"}
        /\ Looping(Tail(call[a].rest)) => Looping(call[a].rest)
    BY <1>1, <2>1, WhatFollows
  <2> QED
    BY <2>1, <2>2
<1>4. Outdated' = Outdated
  BY <1>2 DEF Outdated, outdated
<1>5. OnPage(a) /\ call'[a] # None => OnPage(a)'
  BY <1>2, <1>3, <1>4 DEF OnPage, Moves, Others
<1> QED
  BY <1>1, <1>2, <1>3, <1>5, OneOfThemIsEnough DEF Moves

LEMMA ScanKeepsPage ==
    ASSUME TypeInv, PageInv, NEW a \in Callers, Scan(a)
    PROVE  PageInv'
<1> DEFINE old == {c \in call[a].seen.schema : outdated(review, call[a].seen, c)}
<1>1. /\ call[a].rest \in Seq(Steps) /\ call[a].rest # << >> /\ Shape(call[a].rest)
      /\ call[a].rest[1] = "scan" /\ call[a] # None
  BY AtStep, AtCall DEF Scan
<1>2. Others(a) /\ UNCHANGED <<contract, review>>
  BY ScanDoes DEF Scan
<1>3. call'[a] # None =>
        /\ call'[a].outdated = old /\ call'[a].seen = call[a].seen
        /\ call'[a].alone = call[a].alone
        /\ IF old = {} THEN Tail(call[a].rest) # << >> /\ call'[a].rest = Tail(call[a].rest)
           ELSE call'[a].rest = Again(call[a].rest)
  BY ScanDoes
<1>4. Outdated' = Outdated
  BY <1>2 DEF Outdated, outdated
<1>5. OnPage(a) => call[a].seen = contract /\ old = Outdated
  BY <1>1 DEF OnPage, Outdated
<1> HIDE DEF old
<1>6. CASE old = {}
  <2>1. ASSUME call'[a] # None
        PROVE  Shape(call'[a].rest) /\ ~Looping(call'[a].rest) /\ call'[a].rest[1] # "scan"
    BY <1>1, <1>3, <1>6, <2>1, WhatFollows
  <2>2. OnPage(a) /\ call'[a] # None => OnPage(a)'
    BY <1>2, <1>4, <1>5, <1>6, <2>1 DEF OnPage, Others, Looping
  <2> QED
    BY <1>1, <1>2, <1>3, <2>1, <2>2, OneOfThemIsEnough
<1>7. CASE old # {}
  <2>1. ASSUME call'[a] # None
        PROVE  Shape(call'[a].rest) /\ call'[a].rest[1] = "load"
    BY <1>1, <1>3, <1>7, <2>1, AgainHasShape
  <2>2. OnPage(a) /\ call'[a] # None => OnPage(a)'
    BY <1>2, <1>3, <1>4, <1>5, <1>7, <2>1 DEF OnPage, Others
  <2> QED
    BY <1>1, <1>2, <1>3, <2>1, <2>2, OneOfThemIsEnough
<1> QED
  BY <1>6, <1>7

LEMMA ResetOutdatedKeepsPage ==
    ASSUME TypeInv, PageInv, NEW a \in Callers, ResetOutdated(a)
    PROVE  PageInv'
<1> DEFINE c == CHOOSE c \in call[a].outdated : \A d \in call[a].outdated : c <= d
           left == call[a].outdated \ {c}
<1>1. /\ call[a].rest \in Seq(Steps) /\ call[a].rest # << >> /\ Shape(call[a].rest)
      /\ call[a].rest[1] = "reset_outdated" /\ call[a] # None /\ call[a].copy \in ReviewState
  BY AtStep, AtCall DEF ResetOutdated, Call
<1>2. /\ Others(a) /\ UNCHANGED contract
      /\ IF call[a].copy.status[c] # "absent" THEN review' = reset(call[a].copy, c)
         ELSE UNCHANGED review
  BY ResetOutdatedDoes
<1>3. call'[a] # None =>
        /\ call'[a].outdated = left /\ call'[a].seen = call[a].seen
        /\ call'[a].alone = call[a].alone
        /\ IF left = {} THEN Tail(call[a].rest) # << >> /\ call'[a].rest = Tail(call[a].rest)
           ELSE call'[a].rest = Again(call[a].rest)
  BY ResetOutdatedDoes
<1> HIDE DEF c
<1>4. ASSUME OnPage(a)
      PROVE  Outdated' \subseteq left
  <2>1. call[a].copy = review /\ Outdated \subseteq call[a].outdated
    BY <1>1, <1>4 DEF OnPage, Looping
  <2>2. contract \in Contract /\ review \in ReviewState
    BY DEF TypeInv, TypeOK
  <2>3. ASSUME NEW d \in Columns, review'.status[d] = "approved"
        PROVE  d # c /\ review'.status[d] = review.status[d] /\ review'.approved[d] = review.approved[d]
    <3>1. CASE call[a].copy.status[c] # "absent"
      BY <1>2, <2>1, <2>2, <2>3, <3>1, ResetForgets
    <3>2. CASE call[a].copy.status[c] = "absent"
      BY <1>2, <2>1, <2>3, <3>2
    <3> QED
      BY <3>1, <3>2
  <2>4. contract.schema \subseteq Columns
    BY <2>2 DEF Contract
  <2> QED
    BY <1>2, <2>1, <2>3, <2>4 DEF Outdated, outdated
<1> HIDE DEF left
<1>5. CASE left = {}
  <2>1. ASSUME call'[a] # None
        PROVE  Shape(call'[a].rest) /\ ~Looping(call'[a].rest) /\ call'[a].rest[1] # "scan"
    BY <1>1, <1>3, <1>5, <2>1, WhatFollows
  <2>2. OnPage(a) /\ call'[a] # None => OnPage(a)'
    BY <1>2, <1>4, <1>5, <2>1 DEF OnPage, Others, Looping
  <2> QED
    BY <1>1, <1>2, <1>3, <2>1, <2>2, OneOfThemIsEnough
<1>6. CASE left # {}
  <2>1. ASSUME call'[a] # None
        PROVE  Shape(call'[a].rest) /\ call'[a].rest[1] = "load"
    BY <1>1, <1>3, <1>6, <2>1, AgainHasShape
  <2>2. OnPage(a) => call[a].seen = contract
    BY <1>1 DEF OnPage, Looping
  <2>3. OnPage(a) /\ call'[a] # None => OnPage(a)'
    BY <1>2, <1>3, <1>4, <2>1, <2>2 DEF OnPage, Others
  <2> QED
    BY <1>1, <1>2, <1>3, <2>1, <2>3, OneOfThemIsEnough
<1> QED
  BY <1>5, <1>6

LEMMA WorkKeepsPage ==
    ASSUME TypeInv, PageInv, NEW a \in Callers, Work(a) \/ Raise(a)
    PROVE  PageInv'
<1>a. ASSUME NEW step \in {"snapshot", "count", "total", "blockers", "answer"}, At(a, step), Moves(a)
      PROVE  PageInv'
  BY <1>a, AtStep, OffThePage
<1>1. CASE Snapshot(a) \/ Count(a) \/ Total(a) \/ Blockers(a) \/ Answer(a)
  BY <1>1, <1>a, SnapshotDoes, CountDoes, TotalDoes, BlockersDoes, AnswerDoes
     DEF Snapshot, Count, Total, Blockers, Answer
<1>2. CASE View(a) \/ Load(a) \/ Scan(a) \/ ResetOutdated(a)
  BY <1>2, ViewKeepsPage, LoadKeepsPage, ScanKeepsPage, ResetOutdatedKeepsPage
<1>b. ASSUME Moves(a), call[a] # None,
             call[a].rest[1] \in {"set_column", "set_edited", "set_item", "reset_column",
                                  "finalize_required", "finalize", "edit", "fold"}
      PROVE  PageInv'
  BY <1>b, OffThePage
<1>3. CASE SetColumn(a)
  BY <1>3, <1>b, SetColumnDoes DEF SetColumn, At
<1>4. CASE SetItem(a)
  BY <1>4, <1>b, SetItemDoes DEF SetItem, At
<1>5. CASE ResetEntry(a)
  BY <1>5, <1>b, ResetEntryDoes DEF ResetEntry, At
<1>6. CASE FinalizeRequired(a)
  BY <1>6, <1>b, FinalizeRequiredDoes DEF FinalizeRequired, At
<1>7. CASE FinalizeRecorded(a)
  BY <1>7, <1>b, FinalizeRecordedDoes DEF FinalizeRecorded, At
<1>8. CASE Patch(a)
  BY <1>8, <1>b, PatchDoes DEF Patch, At
<1>9. CASE Fold(a)
  BY <1>9, <1>b, FoldDoes DEF Fold, At
<1>10. CASE Raise(a)
  <2>1. call'[a] = None /\ Others(a) /\ call[a] # None
    BY <1>10, LeavingMoves DEF Raise, Leave, Moves, At, TypeInv, TypeOK
  <2> QED
    BY <2>1, OneOfThemIsEnough
<1> QED
  BY <1>1, <1>2, <1>3, <1>4, <1>5, <1>6, <1>7, <1>8, <1>9, <1>10 DEF Work

LEMMA NextKeepsPage ==
    ASSUME TypeInv, PageInv, [Next]_vars
    PROVE  PageInv'
<1>1. CASE UNCHANGED vars
  BY <1>1 DEF PageInv, OnPage, Outdated, outdated, vars
<1>2. ASSUME NEW a \in Callers, NEW steps \in Seq(Steps), NEW c \in Columns,
             NEW i \in Items \cup {None}, NEW st \in Status,
             Program(steps), Begin(a, steps, c, i, st)
      PROVE  PageInv'
  <2>1. \A b \in Callers \ {a} : call'[b] # None => Shape(call'[b].rest) /\ ~call'[b].alone
    BY <1>2, BeginDoes DEF PageInv
  <2>2. Shape(call'[a].rest) /\ (call'[a].alone => OnPage(a)')
    BY <1>2, BeginDoes DEF Program, OnPage, Looping
  <2>3. \A b \in Callers : call'[b] # None =>
           Shape(call'[b].rest) /\ (call'[b].alone => b = a /\ OnPage(a)')
    BY <2>1, <2>2
  <2> QED
    BY <2>3 DEF PageInv
<1>3. CASE Purge
  BY <1>3, PurgeDoes DEF PageInv
<1> QED
  BY <1>1, <1>2, <1>3, WorkKeepsPage, WhoBegins

\* A page answered to a caller whom no other met agrees with the contract,
\* however many approvals the call had to reset on the way: what is left
\* approved with a snapshot says what the contract says.
THEOREM GuaranteedPagesAreCurrent == Spec => GuaranteedPageIsCurrent
<1>1. Init => TypeInv /\ PageInv
  BY InitIsTyped DEF Init, PageInv
<1>2. TypeInv /\ PageInv /\ [Next]_vars => (TypeInv /\ PageInv)'
  BY NextIsTyped, NextKeepsPage
<1>3. TypeInv /\ PageInv /\ [Next]_vars =>
         [\A a \in Callers :
            Answer(a) /\ call[a].alone /\ review.guaranteed =>
                \A c \in contract.schema :
                    review.status[c] = "approved" =>
                        review.approved[c] \in {None, contract.value[c]}]_vars
  <2>1. ASSUME TypeInv, PageInv, NEW a \in Callers, Answer(a), call[a].alone
        PROVE  Outdated = {}
    BY <2>1, AtStep DEF Answer, PageInv, OnPage
  <2> QED
    BY <2>1 DEF Outdated, outdated
<1> QED
  BY <1>1, <1>2, <1>3, PTL DEF Spec, GuaranteedPageIsCurrent
=============================================================================
