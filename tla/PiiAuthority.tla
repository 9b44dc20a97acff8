---------------------------- MODULE PiiAuthority ----------------------------
(***************************************************************************)
(* What the contract store promises about PII, with no overlay, merge or   *)
(* fingerprint in sight: every column has a type and may be marked; a      *)
(* ruling on a column settles whether it is marked until the type changes; *)
(* without a ruling in force a mark, once made, stays.                     *)
(***************************************************************************)
CONSTANTS Columns, Types, None

VARIABLES
    types,    \* the type of a column, None if the contract lacks it
    marked,   \* does the column carry a privacy block?
    ruling    \* what was last decided about the column, and if it still holds

vars == <<types, marked, ruling>>

\* An advisory ruling is a "pii" decision that says nothing about privacy.
Settling == {"pii", "not_pii"}
Standing == Settling \cup {"advisory"}
Ruling == Standing \cup {"none", "lapsed"}

Init ==
    /\ types = [c \in Columns |-> None]
    /\ marked = [c \in Columns |-> FALSE]
    /\ ruling = [c \in Columns |-> "none"]

\* The marks that a write may leave, given the rulings it leaves.
Settled ==
    /\ marked' \in [Columns -> BOOLEAN]
    /\ \A c \in Columns :
        CASE ruling'[c] = "not_pii" -> ~marked'[c]
          [] ruling'[c] = "pii" -> marked'[c]
          [] OTHER -> marked[c] => marked'[c]

\* A ruling lapses exactly when the type of its column changes.
Write ==
    /\ types' \in [Columns -> Types \cup {None}]
    /\ \A c \in Columns : types'[c] = None => types[c] = None
    /\ ruling' = [c \in Columns |->
                    IF ruling[c] \in Standing /\ types'[c] # types[c]
                    THEN "lapsed" ELSE ruling[c]]
    /\ Settled

\* A decision may lapse at once: it was taken on another fingerprint.
Decide ==
    /\ \E c \in Columns, r \in Standing \cup {"lapsed"} :
        /\ types[c] # None
        /\ ruling' = [ruling EXCEPT ![c] = r]
    /\ UNCHANGED types
    /\ Settled

Withdraw ==
    /\ \E c \in Columns : ruling' = [ruling EXCEPT ![c] = "none"]
    /\ UNCHANGED <<types, marked>>

\* A write that is refused may still make rulings lapse.
Refuse ==
    /\ \E S \in SUBSET {c \in Columns : ruling[c] \in Standing} :
        ruling' = [c \in Columns |-> IF c \in S THEN "lapsed" ELSE ruling[c]]
    /\ UNCHANGED <<types, marked>>

Forget ==
    /\ types' = [c \in Columns |-> None]
    /\ marked' = [c \in Columns |-> FALSE]
    /\ ruling' = [c \in Columns |-> "none"]

Next == Write \/ Decide \/ Withdraw \/ Refuse \/ Forget

Spec == Init /\ [][Next]_vars
=============================================================================
