--------------------------- MODULE AgentBatch_proofs ---------------------------
(***************************************************************************)
(* The agent batch, for any number of tables, nodes and callers: what the  *)
(* record says of the work that was done, what was approved, that a pause  *)
(* can be resumed, and what a cancellation stops.                          *)
(***************************************************************************)
EXTENDS AgentBatch, FiniteSetTheorems, TLAPS

Awaits(r) == r.status = "awaiting_hitl"

\* A record that waits names the table and the node it waits at.
IsRecord(r) == r \in RunType /\ (Awaits(r) => r.paused \in Tables /\ r.pending \in Nodes)

Hold ==
    [mem : RunType \cup {None}, tab : 0..NumTables + 1, node : 0..Len(Kind) + 1,
     steps : Seq(StepStatus), granted : BOOLEAN, answer : Answers \cup {None},
     shown : (Tables \X Nodes) \cup {None}, resuming : BOOLEAN, token : Nat]

WorkerLabels ==
    AtRest \cup {"continue", "table", "node", "finished", "lost", "seq", "step", "final"}
CancelLabels == AtRest \cup {"token", "save"}

TokenType == [made : Nat, current : Nat, cancelled : SUBSET Nat]

\* What a worker holds where it stands.
PhaseOf(w) ==
    LET l == loc[w] IN
    /\ InFlight(w) => IsRecord(l.mem)
    /\ pc[w] = "node" => l.tab \in Tables /\ l.node \in Nodes /\ Len(l.steps) = l.node - 1
    /\ pc[w] = "finished" => l.tab \in Tables /\ l.node = Len(Kind) + 1 /\ Len(l.steps) = Len(Kind)
    /\ pc[w] = "lost" => l.tab \in Tables /\ l.resuming
    /\ pc[w] = "seq" => /\ l.tab \in 0..NumTables /\ l.node \in 0..Len(Kind) - 1
                        /\ l.tab = 0 => l.node = 0
    /\ pc[w] = "step" => l.tab \in Tables /\ l.node \in Nodes
    /\ pc[w] \in {"table", "continue"} => l.tab \in 0..NumTables
    /\ pc[w] \in {"table", "seq", "step"} => l.mem.status = "running"
    /\ pc[w] \in {"node", "finished"} /\ ~l.resuming => l.mem.status = "running"

GraphTyped ==
    /\ graph \in [Tables -> Checkpoint \cup {None}]
    /\ \A t \in Tables : graph[t] # None => Len(graph[t].steps) = graph[t].next - 1

TokensTyped ==
    /\ tokens \in TokenType
    /\ tokens.current <= tokens.made /\ tokens.cancelled \subseteq 1..tokens.made

VarsTyped ==
    /\ mode \in Modes /\ durable \in BOOLEAN /\ overlapped \in BOOLEAN
    /\ run # None => IsRecord(run)
    /\ GraphTyped /\ TokensTyped
    /\ pc \in [Workers \cup Cancels -> WorkerLabels \cup CancelLabels]
    /\ \A w \in Workers : pc[w] \in WorkerLabels
    /\ \A c \in Cancels : pc[c] \in CancelLabels
    /\ loc \in [Workers -> Hold]
    /\ copy \in [Cancels -> RunType \cup {None}]
    /\ \A c \in Cancels : pc[c] \in {"token", "save"} => copy[c] \in RunType
    /\ ran \in [Tables -> [Nodes -> Nat]]
    /\ crashes \in Nat /\ answers \in Nat

TypeInv == VarsTyped /\ \A w \in Workers : PhaseOf(w)

-------------------------------------------------------------------------------
(* The operators. *)

LEMMA Sizes == NumTables \in Nat \ {0} /\ Len(Kind) \in Nat \ {0}
<1>1. Kind \in Seq(STRING) /\ Kind # << >> /\ NumTables \in Nat \ {0}
  BY BatchAssumption
<1> QED
  BY <1>1

LEMMA Callers ==
    /\ \A w \in Workers : w \notin Cancels
    /\ Batches \subseteq Workers /\ Resumes \subseteq Workers /\ Recoveries \subseteq Workers
    /\ \A w \in Recoveries : w \notin Batches /\ w \notin Resumes
BY BatchAssumption DEF Workers

LEMMA NoneIsNoValue ==
    None \notin Nat /\ None \notin Answers /\ None \notin RunType /\ None \notin Checkpoint
BY BatchAssumption

\* A set of numbers has a least one.
LEMMA LeastExists ==
    ASSUME NEW S \in SUBSET Nat, S # {}
    PROVE  \E t \in S : \A u \in S : t <= u
<1>1. PICK t \in S : \A u \in S : ~(<<u, t>> \in OpToRel(<, Nat))
  BY NatLessThanWellFounded, WFMin
<1>2. ASSUME NEW u \in S, u < t
      PROVE  FALSE
  <2>1. <<u, t>> \in {ss \in Nat \X Nat : ss[1] < ss[2]}
    BY <1>2
  <2> QED
    BY <1>1, <2>1 DEF OpToRel
<1>3. \A u \in S : t <= u
  BY <1>2
<1> QED
  BY <1>3

\* The first of the tables that are left is one of them, and none is before it.
LEMMA FirstIsLeast ==
    ASSUME NEW S \in SUBSET Tables, S # {}
    PROVE  First(S) \in S /\ \A u \in S : First(S) <= u
<1>1. S \subseteq Nat
  BY Sizes DEF Tables
<1> QED
  BY <1>1, LeastExists DEF First

\* A bounded set of numbers has a last one.
LEMMA LastExists ==
    ASSUME NEW m \in Nat, NEW S \in SUBSET (1..m), S # {}
    PROVE  \E i \in S : \A j \in S : j <= i
<1> DEFINE T == {m - i : i \in S}
<1>1. T \in SUBSET Nat
  OBVIOUS
<1>2. T # {}
  OBVIOUS
<1>3. PICK x \in T : \A y \in T : x <= y
  BY <1>1, <1>2, LeastExists
<1>4. PICK i \in S : x = m - i
  OBVIOUS
<1>5. \A j \in S : m - i <= m - j
  BY <1>3, <1>4
<1>6. i \in Nat /\ \A j \in S : j \in Nat
  OBVIOUS
<1> QED
  BY <1>5, <1>6

LEMMA NewRunIsRecord ==
    /\ IsRecord(NewRun) /\ NewRun \in RunType /\ NewRun.status = "running" /\ NewRun.last = 0
    /\ \A t \in Tables, n \in Nodes : NewRun.tasks[t][n] = "planned"
BY Sizes DEF NewRun, IsRecord, RunType, plan_tasks, TaskStatuses, Awaits

LEMMA NoLocIsTyped ==
    /\ NoLoc \in Hold /\ NoLoc.mem = None /\ NoLoc.tab = 0 /\ NoLoc.node = 0
    /\ NoLoc.steps = << >> /\ NoLoc.answer = None /\ NoLoc.token = 0
BY Sizes DEF NoLoc, Hold

LEMMA FreshIsTyped == Fresh \in Checkpoint /\ Fresh.next = 1 /\ Len(Fresh.steps) = 0 /\ Fresh # None
<1>1. 1 \in 1..Len(Kind) + 1 /\ << >> \in Seq(StepStatus)
  BY Sizes
<1>2. Fresh \in Checkpoint
  BY <1>1 DEF Fresh, Checkpoint
<1>3. Fresh.next = 1 /\ Len(Fresh.steps) = 0
  BY DEF Fresh
<1> QED
  BY <1>2, <1>3, NoneIsNoValue

\* A task keeps its status or takes that of a step of its kind.
LEMMA SyncTakesSteps ==
    ASSUME NEW tasks \in [Tables -> [Nodes -> TaskStatuses]], NEW t \in Tables,
           NEW steps \in Seq(StepStatus), Len(steps) <= Len(Kind)
    PROVE  LET s == sync_ledger_for_table(tasks, t, steps) IN
           /\ s \in [Tables -> [Nodes -> TaskStatuses]]
           /\ \A u \in Tables \ {t} : s[u] = tasks[u]
           /\ \A n \in Nodes : \/ s[t][n] = tasks[t][n]
                               \/ \E i \in 1..Len(steps) : StepKind(Kind[i]) = Kind[n]
<1> DEFINE Matching(n) == {i \in DOMAIN steps : StepKind(Kind[i]) = Kind[n]}
           Last(n) == CHOOSE i \in Matching(n) : \A j \in Matching(n) : j <= i
           row == [n \in Nodes |-> IF Matching(n) = {} THEN tasks[t][n] ELSE steps[Last(n)]]
<1>1. sync_ledger_for_table(tasks, t, steps) = [tasks EXCEPT ![t] = row]
  BY DEF sync_ledger_for_table
<1>2. ASSUME NEW n \in Nodes, Matching(n) # {}
      PROVE  steps[Last(n)] \in StepStatus /\ \E i \in 1..Len(steps) : StepKind(Kind[i]) = Kind[n]
  <2>1. Matching(n) \subseteq 1..Len(steps)
    OBVIOUS
  <2>2. Last(n) \in Matching(n)
    <3>1. PICK i \in Matching(n) : \A j \in Matching(n) : j <= i
      BY <1>2, <2>1, LastExists, Len(steps) \in Nat
    <3> QED
      BY <3>1
  <2> QED
    BY <2>1, <2>2
<1> HIDE DEF Last
<1>3. row \in [Nodes -> TaskStatuses]
  BY <1>2 DEF TaskStatuses
<1>4. \A n \in Nodes : row[n] = tasks[t][n] \/ \E i \in 1..Len(steps) : StepKind(Kind[i]) = Kind[n]
  BY <1>2
<1> HIDE DEF row
<1> QED
  BY <1>1, <1>3, <1>4

LEMMA CancelKeepsWork ==
    ASSUME NEW tasks \in [Tables -> [Nodes -> TaskStatuses]]
    PROVE  /\ cancel_pending_tasks(tasks) \in [Tables -> [Nodes -> TaskStatuses]]
           /\ \A t \in Tables, n \in Nodes :
                 cancel_pending_tasks(tasks)[t][n] \in StepStatus =>
                    cancel_pending_tasks(tasks)[t][n] = tasks[t][n]
BY DEF cancel_pending_tasks, TaskStatuses, StepStatus

LEMMA TokenIsTaken ==
    ASSUME NEW k \in TokenType, k.current <= k.made, k.cancelled \subseteq 1..k.made, tokens = k
    PROVE  LET c == cancellation_token IN
           /\ c \in TokenType /\ c.current <= c.made /\ c.cancelled \subseteq 1..c.made
           /\ c.current # 0 /\ c.cancelled = k.cancelled
           /\ k.current # 0 => c.current = k.current
<1>1. CASE k.current # 0
  BY <1>1 DEF cancellation_token, TokenType
<1>2. CASE k.current = 0
  <2> DEFINE c == [k EXCEPT !.made = @ + 1, !.current = k.made + 1]
  <2> DEFINE d == [k EXCEPT !.made = k.made + 1]
  <2>0. d \in TokenType /\ d.made = k.made + 1 /\ d.cancelled = k.cancelled
    BY DEF TokenType
  <2>1. c \in TokenType /\ c.made = k.made + 1 /\ c.current = k.made + 1 /\ c.cancelled = k.cancelled
    <3>1. c = [d EXCEPT !.current = k.made + 1] /\ k.made + 1 \in Nat
      BY DEF TokenType
    <3> HIDE DEF d
    <3> QED
      BY <2>0, <3>1 DEF TokenType
  <2>2. cancellation_token = c
    BY <1>2 DEF cancellation_token
  <2>3. 1..k.made \subseteq 1..c.made
    BY <2>1 DEF TokenType
  <2> HIDE DEF c
  <2> QED
    BY <1>2, <2>1, <2>2, <2>3 DEF TokenType
<1> QED
  BY <1>1, <1>2

-------------------------------------------------------------------------------
(* What a step changes. *)

\* Worker w moves, and nobody else.
Only(w) ==
    /\ loc' \in [Workers -> Hold]
    /\ pc' \in [Workers \cup Cancels -> WorkerLabels \cup CancelLabels] /\ pc'[w] \in WorkerLabels
    /\ \A v \in Workers \ {w} : loc'[v] = loc[v] /\ pc'[v] = pc[v]
    /\ \A c \in Cancels : pc'[c] = pc[c]
    /\ UNCHANGED <<mode, durable, copy>>

LEMMA WorkerMoves ==
    ASSUME TypeInv, NEW w \in Workers, NEW label \in WorkerLabels, NEW g \in Hold,
           pc' = [pc EXCEPT ![w] = label], loc' = [loc EXCEPT ![w] = g],
           UNCHANGED <<mode, durable, copy>>
    PROVE  Only(w) /\ pc'[w] = label /\ loc'[w] = g
BY Callers DEF Only, TypeInv, VarsTyped

\* The token and the flag overlapped, when a worker starts or resumes.
TakesToken(w) ==
    /\ tokens' \in TokenType /\ tokens'.current <= tokens'.made
    /\ tokens'.cancelled \subseteq 1..tokens'.made /\ tokens'.cancelled = tokens.cancelled
    /\ loc'[w].token = tokens'.current
    /\ tokens.current # 0 => tokens'.current = tokens.current
    /\ SharedStore => tokens'.current # 0
    /\ overlapped' = (overlapped \/ ~Quiet)

LEMMA TakingToken ==
    ASSUME TypeInv, TakeToken
    PROVE  /\ tokens' \in TokenType /\ tokens'.current <= tokens'.made
           /\ tokens'.cancelled \subseteq 1..tokens'.made /\ tokens'.cancelled = tokens.cancelled
           /\ tokens.current # 0 => tokens'.current = tokens.current
           /\ SharedStore => tokens'.current # 0
BY TokenIsTaken DEF TakeToken, TypeInv, VarsTyped, TokensTyped

LEMMA EntersDoes ==
    ASSUME TypeInv, NEW w \in Workers, NEW label \in WorkerLabels, NEW mem \in RunType,
           NEW start \in 0..NumTables, Enters(w, label, mem, start),
           UNCHANGED <<mode, durable, copy>>
    PROVE  /\ Only(w) /\ pc[w] = "idle" /\ pc'[w] = label /\ TakesToken(w)
           /\ loc'[w].mem = mem /\ loc'[w].tab = start /\ loc'[w].node = 0
<1> DEFINE g == [NoLoc EXCEPT !.mem = mem, !.tab = start, !.token = tokens'.current]
<1>1. tokens'.current \in Nat
  BY TakingToken DEF Enters, TokenType
<1>2. start \in 0..NumTables + 1
  BY Sizes
<1>3. g \in Hold /\ g.mem = mem /\ g.tab = start /\ g.node = 0 /\ g.token = tokens'.current
  <2> DEFINE f == [NoLoc EXCEPT !.mem = mem]
             h == [f EXCEPT !.tab = start]
  <2>1. f \in Hold /\ f.mem = mem /\ f.node = 0
    BY NoLocIsTyped DEF Hold
  <2> HIDE DEF f
  <2>2. h \in Hold /\ h.mem = mem /\ h.tab = start /\ h.node = 0
    BY <2>1, <1>2 DEF Hold
  <2>3. g = [h EXCEPT !.token = tokens'.current]
    BY DEF f, h
  <2> HIDE DEF h
  <2> QED
    BY <1>1, <2>2, <2>3 DEF Hold
<1>4. loc' = [loc EXCEPT ![w] = g] /\ pc' = [pc EXCEPT ![w] = label] /\ pc[w] = "idle"
  BY DEF Enters, Goto
<1> HIDE DEF g
<1>5. Only(w) /\ pc'[w] = label /\ loc'[w] = g
  BY <1>3, <1>4, WorkerMoves
<1>6. TakesToken(w)
  BY <1>3, <1>5, TakingToken DEF Enters, TakesToken
<1> QED
  BY <1>3, <1>4, <1>5, <1>6

LEMMA RunBatchDoes ==
    ASSUME TypeInv, NEW w \in Batches, RunBatch(w)
    PROVE  /\ Only(w) /\ pc[w] = "idle" /\ pc'[w] \in {"continue", "seq"} /\ TakesToken(w)
           /\ loc'[w].mem = NewRun /\ loc'[w].tab = 0 /\ loc'[w].node = 0
           /\ run = None /\ run' = NewRun
           /\ UNCHANGED <<graph, ran, unapproved, broken, crashes, answers>>
<1>1. w \in Workers /\ 0 \in 0..NumTables
  BY Callers, Sizes
<1> DEFINE label == IF mode = "langgraph" THEN "continue" ELSE "seq"
<1>2. label \in WorkerLabels
  BY DEF WorkerLabels
<1>3. Enters(w, label, NewRun, 0) /\ run = None /\ run' = NewRun
      /\ UNCHANGED <<mode, durable, graph, copy, history, bounds>>
  BY DEF RunBatch, save
<1> QED
  BY <1>1, <1>2, <1>3, EntersDoes, NewRunIsRecord DEF history, bounds

LEMMA RecoverDoes ==
    ASSUME TypeInv, NEW w \in Recoveries, Recover(w)
    PROVE  /\ Only(w) /\ pc[w] = "idle" /\ pc'[w] = "continue" /\ TakesToken(w)
           /\ run # None /\ Quiet /\ crashes > 0
           /\ loc'[w].mem = run /\ loc'[w].tab = run.last
           /\ UNCHANGED <<run, graph, ran, unapproved, broken, crashes, answers>>
<1>1. w \in Workers /\ run \in RunType /\ run.last \in 0..NumTables
  BY Callers DEF Recover, TypeInv, VarsTyped, IsRecord, RunType
<1>2. "continue" \in WorkerLabels
  BY DEF WorkerLabels
<1> QED
  BY <1>1, <1>2, EntersDoes DEF Recover, disk, history, bounds

\* A step that changes no more of what the worker holds than the record.
LEMMA MemSet ==
    ASSUME TypeInv, NEW w \in Workers, NEW mem \in RunType \cup {None}
    PROVE  LET g == [loc[w] EXCEPT !.mem = mem] IN
           /\ [loc EXCEPT ![w].mem = mem] = [loc EXCEPT ![w] = g]
           /\ g \in Hold /\ g.mem = mem /\ g.tab = loc[w].tab /\ g.node = loc[w].node
           /\ g.steps = loc[w].steps /\ g.granted = loc[w].granted /\ g.answer = loc[w].answer
           /\ g.shown = loc[w].shown /\ g.resuming = loc[w].resuming /\ g.token = loc[w].token
<1>1. loc[w] \in Hold
  BY DEF TypeInv, VarsTyped
<1> QED
  BY <1>1 DEF Hold

\* All but the record is as before.
Rest(w) ==
    /\ loc'[w].tab = loc[w].tab /\ loc'[w].node = loc[w].node /\ loc'[w].steps = loc[w].steps
    /\ loc'[w].resuming = loc[w].resuming /\ loc'[w].token = loc[w].token

LEMMA MemMoves ==
    ASSUME TypeInv, NEW w \in Workers, NEW mem \in RunType \cup {None}, NEW label \in WorkerLabels,
           loc' = [loc EXCEPT ![w].mem = mem], pc' = [pc EXCEPT ![w] = label],
           UNCHANGED <<mode, durable, copy>>
    PROVE  Only(w) /\ pc'[w] = label /\ loc'[w].mem = mem /\ Rest(w)
<1> DEFINE g == [loc[w] EXCEPT !.mem = mem]
<1>1. /\ loc' = [loc EXCEPT ![w] = g] /\ g \in Hold /\ g.mem = mem /\ g.tab = loc[w].tab
      /\ g.node = loc[w].node /\ g.steps = loc[w].steps
      /\ g.resuming = loc[w].resuming /\ g.token = loc[w].token
  BY MemSet
<1> HIDE DEF g
<1>2. Only(w) /\ pc'[w] = label /\ loc'[w] = g
  BY <1>1, WorkerMoves
<1> QED
  BY <1>1, <1>2 DEF Rest

LEMMA InFlightHolds ==
    ASSUME TypeInv, NEW w \in Workers, InFlight(w)
    PROVE  IsRecord(loc[w].mem) /\ loc[w].mem \in RunType /\ loc[w] \in Hold
           /\ loc[w].mem.tasks \in [Tables -> [Nodes -> TaskStatuses]]
BY DEF TypeInv, PhaseOf, VarsTyped, IsRecord, RunType

LEMMA ContinueDoes ==
    ASSUME TypeInv, NEW w \in Workers, Continue(w)
    PROVE  /\ Only(w) /\ Rest(w) /\ pc[w] = "continue" /\ pc'[w] = "table"
           /\ loc'[w].mem \in RunType /\ loc'[w].mem.status = "running"
           /\ loc'[w].mem.tasks = loc[w].mem.tasks /\ loc'[w].mem.last = loc[w].mem.last
           /\ run' = loc'[w].mem
           /\ UNCHANGED <<graph, tokens, ran, unapproved, broken, overlapped, crashes, answers>>
<1> DEFINE m == loc[w].mem
           f == [m EXCEPT !.status = "running"]
           mem == [f EXCEPT !.pending = 0]
<1>1. pc[w] = "continue" /\ m \in RunType
  BY InFlightHolds DEF Continue, InFlight, AtRest
<1>2. /\ loc' = [loc EXCEPT ![w].mem = mem] /\ run' = mem /\ pc' = [pc EXCEPT ![w] = "table"]
      /\ UNCHANGED <<mode, durable, graph, tokens, copy, ran, unapproved, broken, overlapped, crashes, answers>>
  BY DEF Continue, save, Goto, history, bounds
<1> HIDE DEF m
<1>3. f \in RunType /\ f.status = "running" /\ f.tasks = m.tasks /\ f.last = m.last
  BY <1>1 DEF RunType
<1> HIDE DEF f
<1>4. mem \in RunType /\ mem.status = "running" /\ mem.tasks = m.tasks /\ mem.last = m.last
  BY <1>3, Sizes DEF RunType
<1> HIDE DEF mem
<1>5. "table" \in WorkerLabels
  BY DEF WorkerLabels
<1> QED
  BY <1>1, <1>2, <1>4, <1>5, MemMoves DEF m

LEMMA Labels ==
    {"idle", "ended", "continue", "table", "node", "finished", "lost", "seq", "step", "final"}
        \subseteq WorkerLabels
BY DEF WorkerLabels, AtRest

\* The fields of a record are set one by one.
LEMMA StatusSet ==
    ASSUME NEW m \in RunType, NEW s \in Terminal \cup {"running", "awaiting_hitl"}
    PROVE  LET r == [m EXCEPT !.status = s] IN
           /\ r \in RunType /\ r.status = s /\ r.tasks = m.tasks /\ r.last = m.last
           /\ r.paused = m.paused /\ r.pending = m.pending
BY DEF RunType

LEMMA TasksSet ==
    ASSUME NEW m \in RunType, NEW x \in [Tables -> [Nodes -> TaskStatuses]]
    PROVE  LET r == [m EXCEPT !.tasks = x] IN
           /\ r \in RunType /\ r.status = m.status /\ r.tasks = x /\ r.last = m.last
           /\ r.paused = m.paused /\ r.pending = m.pending
BY DEF RunType

LEMMA LastSet ==
    ASSUME NEW m \in RunType, NEW x \in 0..NumTables
    PROVE  LET r == [m EXCEPT !.last = x] IN
           /\ r \in RunType /\ r.status = m.status /\ r.tasks = m.tasks /\ r.last = x
           /\ r.paused = m.paused /\ r.pending = m.pending
BY DEF RunType

LEMMA PausedSet ==
    ASSUME NEW m \in RunType, NEW x \in 0..NumTables
    PROVE  LET r == [m EXCEPT !.paused = x] IN
           /\ r \in RunType /\ r.status = m.status /\ r.tasks = m.tasks /\ r.last = m.last
           /\ r.paused = x /\ r.pending = m.pending
BY DEF RunType

LEMMA PendingSet ==
    ASSUME NEW m \in RunType, NEW x \in 0..Len(Kind)
    PROVE  LET r == [m EXCEPT !.pending = x] IN
           /\ r \in RunType /\ r.status = m.status /\ r.tasks = m.tasks /\ r.last = m.last
           /\ r.paused = m.paused /\ r.pending = x
BY DEF RunType

\* Work the one record claims is claimed by the other as well.
ClaimsNoMore(r, m) ==
    \A t \in Tables, n \in Nodes : r.tasks[t][n] \in StepStatus => r.tasks[t][n] = m.tasks[t][n]

\* A worker gives up its batch: nothing is run, and the record it will save is
\* of a batch that is over.
LEMMA StopsDoes ==
    ASSUME TypeInv, NEW w \in Workers,
           \/ RejectSpec(w) \/ BatchCancelled(w) \/ BatchCompletes(w)
           \/ SeqCancelled(w) \/ SeqFails(w)
    PROVE  /\ Only(w) /\ Rest(w) /\ pc[w] \in {"table", "seq", "step"} /\ pc'[w] = "final"
           /\ loc'[w].mem \in RunType /\ loc'[w].mem.status \in Terminal
           /\ ClaimsNoMore(loc'[w].mem, loc[w].mem)
           /\ loc'[w].mem.last = loc[w].mem.last
           /\ loc'[w].mem.status = "cancelled" => Cancelled(w)
           /\ loc'[w].mem.status = "completed" =>
                 pc[w] = "table" /\ TablesAfter(loc[w].mem.tasks, loc[w].tab) = {}
           /\ broken \subseteq broken'
           /\ UNCHANGED <<run, graph, tokens, ran, unapproved, overlapped, crashes, answers>>
<1> DEFINE m == loc[w].mem
           x == cancel_pending_tasks(m.tasks)
           mc == [m EXCEPT !.status = "cancelled"]
<1>1. pc[w] \in {"table", "seq", "step"} /\ pc' = [pc EXCEPT ![w] = "final"]
      /\ UNCHANGED <<mode, durable, run, graph, tokens, copy, ran, unapproved, overlapped, crashes, answers>>
      /\ broken \subseteq broken'
  BY DEF RejectSpec, BatchCancelled, BatchCompletes, SeqCancelled, SeqFails, Goto,
         disk, history, bounds
<1>2. /\ m \in RunType /\ m.tasks \in [Tables -> [Nodes -> TaskStatuses]]
      /\ "final" \in WorkerLabels
  BY <1>1, InFlightHolds, Labels DEF InFlight, AtRest
<1>3. ASSUME NEW r \in RunType, loc' = [loc EXCEPT ![w].mem = r]
      PROVE  Only(w) /\ Rest(w) /\ pc'[w] = "final" /\ loc'[w].mem = r
  BY <1>1, <1>2, <1>3, MemMoves
<1>4. CASE RejectSpec(w) \/ SeqFails(w)
  <2>1. loc' = [loc EXCEPT ![w].mem = [m EXCEPT !.status = "failed"]]
    BY <1>4 DEF RejectSpec, SeqFails
  <2>2. "failed" \in Terminal /\ "failed" # "cancelled" /\ "failed" # "completed"
    BY DEF Terminal
  <2> HIDE DEF m
  <2> DEFINE r == [m EXCEPT !.status = "failed"]
  <2>3. r \in RunType /\ r.status = "failed" /\ r.tasks = m.tasks /\ r.last = m.last
    BY <1>2, <2>2, StatusSet
  <2> HIDE DEF r
  <2>4. Only(w) /\ Rest(w) /\ pc'[w] = "final" /\ loc'[w].mem = r
    BY <1>3, <2>1, <2>3 DEF r
  <2> QED
    BY <1>1, <2>2, <2>3, <2>4 DEF ClaimsNoMore, m
<1>5. CASE BatchCompletes(w)
  <2>1. /\ loc' = [loc EXCEPT ![w].mem = [m EXCEPT !.status = "completed"]]
        /\ pc[w] = "table" /\ TablesAfter(m.tasks, loc[w].tab) = {}
    BY <1>5 DEF BatchCompletes
  <2>2. "completed" \in Terminal /\ "completed" # "cancelled"
    BY DEF Terminal
  <2> HIDE DEF m
  <2> DEFINE r == [m EXCEPT !.status = "completed"]
  <2>3. r \in RunType /\ r.status = "completed" /\ r.tasks = m.tasks /\ r.last = m.last
    BY <1>2, <2>2, StatusSet
  <2> HIDE DEF r
  <2>4. Only(w) /\ Rest(w) /\ pc'[w] = "final" /\ loc'[w].mem = r
    BY <1>3, <2>1, <2>3 DEF r
  <2> QED
    BY <1>1, <2>1, <2>2, <2>3, <2>4 DEF ClaimsNoMore, m
<1>6. CASE BatchCancelled(w) \/ SeqCancelled(w)
  <2>1. /\ loc' = [loc EXCEPT ![w].mem = [m EXCEPT !.status = "cancelled", !.tasks = x]]
        /\ Cancelled(w)
    BY <1>6 DEF BatchCancelled, SeqCancelled, cancelled_record
  <2>2. "cancelled" \in Terminal /\ "completed" # "cancelled"
    BY DEF Terminal
  <2>3. /\ x \in [Tables -> [Nodes -> TaskStatuses]]
        /\ \A t \in Tables, n \in Nodes : x[t][n] \in StepStatus => x[t][n] = m.tasks[t][n]
    BY <1>2, CancelKeepsWork
  <2>4. mc \in RunType /\ mc.status = "cancelled" /\ mc.last = m.last
    BY <1>2, <2>2, StatusSet
  <2> DEFINE r == [mc EXCEPT !.tasks = x]
  <2>5. [m EXCEPT !.status = "cancelled", !.tasks = x] = r
    OBVIOUS
  <2> HIDE DEF mc, x, m
  <2>6. r \in RunType /\ r.status = "cancelled" /\ r.tasks = x /\ r.last = m.last
    BY <2>3, <2>4, TasksSet
  <2> HIDE DEF r
  <2>7. Only(w) /\ Rest(w) /\ pc'[w] = "final" /\ loc'[w].mem = r
    BY <1>3, <2>1, <2>5, <2>6
  <2> QED
    BY <1>1, <2>1, <2>2, <2>3, <2>6, <2>7 DEF ClaimsNoMore, m
<1> QED
  BY <1>4, <1>5, <1>6

\* The first table that is left is entered afresh; those passed over are done.
LEMMA BeginTableDoes ==
    ASSUME TypeInv, NEW w \in Workers, BeginTable(w)
    PROVE  LET t == loc'[w].tab IN
           /\ Only(w) /\ pc[w] = "table" /\ pc'[w] = "node" /\ ~Cancelled(w)
           /\ t \in Tables /\ loc[w].tab < t
           /\ \A u \in Tables : loc[w].tab < u /\ u < t => table_tasks_done(loc[w].mem.tasks, u)
           /\ loc'[w].mem = loc[w].mem /\ loc'[w].node = 1 /\ loc'[w].steps = << >>
           /\ loc'[w].answer = None /\ loc'[w].resuming = FALSE /\ loc'[w].token = loc[w].token
           /\ graph' = [graph EXCEPT ![t] = Fresh]
           /\ UNCHANGED <<run, tokens, ran, unapproved, broken, overlapped, crashes, answers>>
<1> DEFINE next == TablesAfter(loc[w].mem.tasks, loc[w].tab)
           t == First(next)
           l == loc[w]
           g == [l EXCEPT !.tab = t, !.node = 1, !.steps = << >>, !.granted = FALSE,
                          !.answer = None, !.shown = None, !.resuming = FALSE]
<1>1. /\ pc[w] = "table" /\ next # {} /\ ~Cancelled(w) /\ pc' = [pc EXCEPT ![w] = "node"]
      /\ loc' = [loc EXCEPT ![w] = g] /\ graph' = [graph EXCEPT ![t] = Fresh]
      /\ UNCHANGED <<mode, durable, run, tokens, copy, ran, unapproved, broken, overlapped, crashes, answers>>
  BY DEF BeginTable, Goto, history, bounds
<1>2. next \subseteq Tables
  BY DEF TablesAfter
<1>3. t \in next /\ \A u \in next : t <= u
  BY <1>1, <1>2, FirstIsLeast
<1> HIDE DEF t
<1>4. l \in Hold
  BY DEF TypeInv, VarsTyped
<1>5. /\ t \in Tables /\ l.tab < t
      /\ \A u \in Tables : l.tab < u /\ u < t => table_tasks_done(l.mem.tasks, u)
  <2>1. t \in Tables /\ l.tab < t
    BY <1>3, <1>4, Sizes DEF TablesAfter, Hold, Tables
  <2>2. \A u \in Tables : l.tab < u /\ ~table_tasks_done(l.mem.tasks, u) => u \in next
    BY <1>4, Sizes DEF TablesAfter, Hold, Tables
  <2>3. \A u \in Tables : u \in Nat /\ t \in Nat
    BY <2>1, Sizes DEF Tables
  <2> QED
    BY <1>3, <2>1, <2>2, <2>3
<1> HIDE DEF next, l
<1>6. /\ g \in Hold /\ g.tab = t /\ g.mem = l.mem /\ g.node = 1 /\ g.steps = << >>
      /\ g.answer = None /\ g.resuming = FALSE /\ g.token = l.token
  <2> DEFINE g1 == [l EXCEPT !.tab = t]
             g2 == [g1 EXCEPT !.node = 1]
             g3 == [g2 EXCEPT !.steps = << >>]
             g4 == [g3 EXCEPT !.granted = FALSE]
             g5 == [g4 EXCEPT !.answer = None]
             g6 == [g5 EXCEPT !.shown = None]
             g7 == [g6 EXCEPT !.resuming = FALSE]
  <2>0. g = g7
    OBVIOUS
  <2>1. g1 \in Hold /\ g1.tab = t /\ g1.mem = l.mem /\ g1.token = l.token
    BY <1>4, <1>5, Sizes DEF Hold, Tables
  <2> HIDE DEF g1, g
  <2>2. g2 \in Hold /\ g2.tab = t /\ g2.mem = l.mem /\ g2.token = l.token /\ g2.node = 1
    BY <2>1, Sizes DEF Hold
  <2> HIDE DEF g2
  <2>3. g3 \in Hold /\ g3.tab = t /\ g3.mem = l.mem /\ g3.token = l.token /\ g3.node = 1
        /\ g3.steps = << >>
    BY <2>2, << >> \in Seq(StepStatus) DEF Hold
  <2> HIDE DEF g3
  <2>4. g4 \in Hold /\ g4.tab = t /\ g4.mem = l.mem /\ g4.token = l.token /\ g4.node = 1
        /\ g4.steps = << >>
    BY <2>3 DEF Hold
  <2> HIDE DEF g4
  <2>5. g5 \in Hold /\ g5.tab = t /\ g5.mem = l.mem /\ g5.token = l.token /\ g5.node = 1
        /\ g5.steps = << >> /\ g5.answer = None
    BY <2>4 DEF Hold
  <2> HIDE DEF g5
  <2>6. g6 \in Hold /\ g6.tab = t /\ g6.mem = l.mem /\ g6.token = l.token /\ g6.node = 1
        /\ g6.steps = << >> /\ g6.answer = None
    BY <2>5 DEF Hold
  <2> HIDE DEF g6
  <2>7. g7 \in Hold /\ g7.tab = t /\ g7.mem = l.mem /\ g7.token = l.token /\ g7.node = 1
        /\ g7.steps = << >> /\ g7.answer = None /\ g7.resuming = FALSE
    BY <2>6 DEF Hold
  <2> QED
    BY <2>0, <2>7
<1> HIDE DEF g
<1>7. "node" \in WorkerLabels
  BY Labels
<1>8. Only(w) /\ pc'[w] = "node" /\ loc'[w] = g
  BY <1>1, <1>6, <1>7, WorkerMoves
<1> QED
  BY <1>1, <1>5, <1>6, <1>8 DEF l

\* Worker w is done with the batch and holds nothing any more.
LEMMA Returning ==
    ASSUME TypeInv, NEW w \in Workers, Returns(w), UNCHANGED <<mode, durable, copy>>
    PROVE  Only(w) /\ pc'[w] = "ended" /\ loc'[w] = NoLoc
<1>1. "ended" \in WorkerLabels /\ NoLoc \in Hold
  BY Labels, NoLocIsTyped
<1> QED
  BY <1>1, WorkerMoves DEF Returns, Goto

\* Dropping the token of the batch leaves those that were cancelled.
TokenKept == tokens'.cancelled = tokens.cancelled /\ tokens'.made = tokens.made
             /\ tokens' \in TokenType /\ tokens'.current \in {0, tokens.current}

LEMMA DroppingToken ==
    ASSUME TypeInv, DropToken \/ UNCHANGED tokens
    PROVE  TokenKept
BY DEF DropToken, TokenKept, TypeInv, VarsTyped, TokensTyped, TokenType

LEMMA FinalDoes ==
    ASSUME TypeInv, NEW w \in Workers, Final(w)
    PROVE  /\ Only(w) /\ pc[w] = "final" /\ pc'[w] = "ended" /\ loc'[w] = NoLoc
           /\ run' = loc[w].mem /\ loc[w].mem \in RunType
           /\ graph' \in {graph, NoGraphs} /\ TokenKept
           /\ Awaits(run') => UNCHANGED <<graph, tokens>>
           /\ UNCHANGED <<ran, unapproved, broken, overlapped, crashes, answers>>
<1>1. /\ pc[w] = "final" /\ run' = loc[w].mem /\ Returns(w)
      /\ graph' = IF KeepsCheckpoints(loc[w].mem.status) THEN graph ELSE NoGraphs
      /\ IF loc[w].mem.status \in Terminal THEN DropToken ELSE UNCHANGED tokens
      /\ UNCHANGED <<mode, durable, copy, ran, unapproved, broken, overlapped, crashes, answers>>
  BY DEF Final, save, history, bounds
<1>2. loc[w].mem \in RunType
  BY <1>1, InFlightHolds DEF InFlight, AtRest
<1>3. Only(w) /\ pc'[w] = "ended" /\ loc'[w] = NoLoc
  BY <1>1, Returning
<1>4. TokenKept
  BY <1>1, DroppingToken
<1>5. Awaits(run') => UNCHANGED <<graph, tokens>>
  BY <1>1 DEF Awaits, KeepsCheckpoints, Terminal
<1> QED
  BY <1>1, <1>2, <1>3, <1>4, <1>5

\* What a node does to the histories.
ActsOn(t, n) ==
    /\ ran' = [ran EXCEPT ![t][n] = @ + 1]
    /\ broken' = broken

\* A write without an approval for that very node is remembered, and nothing
\* else is.
Unapproves(w, t, n, granted) ==
    \A x \in unapproved' \ unapproved :
        x = <<Kind[n], t, n>> /\ loc[w].shown # <<t, n>>
        /\ (Kind[n] = "contract_write" => granted)

LEMMA ActsDoes ==
    ASSUME NEW w, NEW t, NEW n, NEW granted, NEW status, Acts(w, t, n, granted, status)
    PROVE  ActsOn(t, n) /\ Unapproves(w, t, n, granted)
<1>1. "contract_write" # "catalog_push" /\ StepKind("contract_write") = "contract_write"
  BY DEF StepKind
<1> QED
  BY <1>1 DEF Acts, ActsOn, Unapproves

\* A node runs between two checkpoints.
LEMMA RunNodeDoes ==
    ASSUME TypeInv, NEW w \in Workers, RunNode(w)
    PROVE  LET t == loc[w].tab
               n == loc[w].node IN
           /\ Only(w) /\ pc[w] = "node" /\ pc'[w] = IF n = Len(Kind) THEN "finished" ELSE "node"
           /\ ~Cancelled(w) /\ ~Interrupts(w)
           /\ t \in Tables /\ n \in Nodes
           /\ loc'[w].mem = loc[w].mem /\ loc'[w].tab = t /\ loc'[w].node = n + 1
           /\ loc'[w].steps \in Seq(StepStatus) /\ Len(loc'[w].steps) = n
           /\ loc'[w].granted = Granted(w) /\ loc'[w].shown = loc[w].shown
           /\ loc'[w].answer = IF requires_hitl(Kind[n]) THEN None ELSE loc[w].answer
           /\ loc'[w].resuming = loc[w].resuming /\ loc'[w].token = loc[w].token
           /\ graph' = [graph EXCEPT ![t] = [next |-> n + 1, steps |-> loc'[w].steps]]
           /\ ActsOn(t, n) /\ Unapproves(w, t, n, Granted(w))
           /\ UNCHANGED <<run, tokens, overlapped, crashes, answers>>
<1> DEFINE l == loc[w]
           t == l.tab
           n == l.node
           granted == Granted(w)
           answer == IF requires_hitl(Kind[n]) THEN None ELSE l.answer
<1>1. PICK status \in StepStatuses(Kind[n], granted) :
          /\ loc' = [loc EXCEPT ![w] = [l EXCEPT !.node = n + 1, !.steps = Append(l.steps, status),
                                                 !.granted = granted, !.answer = answer]]
          /\ graph' = [graph EXCEPT ![t] = [next |-> n + 1, steps |-> Append(l.steps, status)]]
          /\ Acts(w, t, n, granted, status)
  BY DEF RunNode
<1>2. /\ pc[w] = "node" /\ ~Cancelled(w) /\ ~Interrupts(w)
      /\ IF n = Len(Kind) THEN pc' = [pc EXCEPT ![w] = "finished"] ELSE pc' = pc
      /\ UNCHANGED <<mode, durable, run, tokens, copy, overlapped, crashes, answers>>
  BY DEF RunNode, Goto, bounds
<1>3. l \in Hold /\ t \in Tables /\ n \in Nodes /\ Len(l.steps) = n - 1
  BY <1>2 DEF TypeInv, VarsTyped, PhaseOf
<1>4. status \in StepStatus
  BY <1>1 DEF StepStatuses, StepStatus
<1>5. granted \in BOOLEAN
  BY <1>3 DEF Granted, Hold
<1>6. answer \in Answers \cup {None}
  BY <1>3 DEF Hold
<1> DEFINE steps == Append(l.steps, status)
           label == IF n = Len(Kind) THEN "finished" ELSE "node"
<1>7. steps \in Seq(StepStatus) /\ Len(steps) = n
  <2>1. l.steps \in Seq(StepStatus) /\ n \in Nat
    BY <1>3, Sizes DEF Hold, Nodes
  <2> QED
    BY <1>3, <1>4, <2>1
<1>8. n + 1 \in 0..Len(Kind) + 1
  BY <1>3, Sizes DEF Nodes
<1>9. label \in WorkerLabels /\ pc' = [pc EXCEPT ![w] = label]
  <2>1. pc = [pc EXCEPT ![w] = "node"]
    BY <1>2, Callers DEF TypeInv, VarsTyped
  <2> QED
    BY <1>2, <2>1, Labels
<1> DEFINE g1 == [l EXCEPT !.node = n + 1]
           g2 == [g1 EXCEPT !.steps = steps]
           g3 == [g2 EXCEPT !.granted = granted]
           g == [g3 EXCEPT !.answer = answer]
<1>10. loc' = [loc EXCEPT ![w] = g]
  BY <1>1
<1> HIDE DEF steps, answer, granted, label
<1>11. /\ g1 \in Hold /\ g1.mem = l.mem /\ g1.tab = t /\ g1.node = n + 1 /\ g1.answer = l.answer
       /\ g1.shown = l.shown /\ g1.resuming = l.resuming /\ g1.token = l.token
  BY <1>3, <1>8 DEF Hold
<1> HIDE DEF g1
<1>12. /\ g2 \in Hold /\ g2.mem = l.mem /\ g2.tab = t /\ g2.node = n + 1 /\ g2.steps = steps
       /\ g2.shown = l.shown /\ g2.resuming = l.resuming /\ g2.token = l.token
  BY <1>7, <1>11 DEF Hold
<1> HIDE DEF g2
<1>13. /\ g3 \in Hold /\ g3.mem = l.mem /\ g3.tab = t /\ g3.node = n + 1 /\ g3.steps = steps
       /\ g3.granted = granted
       /\ g3.shown = l.shown /\ g3.resuming = l.resuming /\ g3.token = l.token
  BY <1>5, <1>12 DEF Hold
<1> HIDE DEF g3
<1>14. /\ g \in Hold /\ g.mem = l.mem /\ g.tab = t /\ g.node = n + 1 /\ g.steps = steps
       /\ g.granted = granted /\ g.answer = answer
       /\ g.shown = l.shown /\ g.resuming = l.resuming /\ g.token = l.token
  BY <1>6, <1>13 DEF Hold
<1> HIDE DEF g
<1>15. Only(w) /\ pc'[w] = label /\ loc'[w] = g
  BY <1>2, <1>9, <1>10, <1>14, WorkerMoves
<1>16. graph' = [graph EXCEPT ![t] = [next |-> n + 1, steps |-> steps]]
  BY <1>1 DEF steps
<1>17. ActsOn(t, n) /\ Unapproves(w, t, n, granted)
  BY <1>1, ActsDoes
<1> QED
  BY <1>2, <1>3, <1>7, <1>14, <1>15, <1>16, <1>17 DEF label, answer, granted

\* What the ledger takes from the steps of a table.
LEMMA SyncedDoes ==
    ASSUME TypeInv, NEW w \in Workers, pc[w] \in {"node", "finished"}
    PROVE  LET s == Synced(w)
               m == loc[w].mem IN
           /\ s \in [Tables -> [Nodes -> TaskStatuses]]
           /\ \A t \in Tables \ {loc[w].tab} : s[t] = m.tasks[t]
           /\ \A n \in Nodes : \/ s[loc[w].tab][n] = m.tasks[loc[w].tab][n]
                               \/ \E i \in 1..Len(loc[w].steps) : StepKind(Kind[i]) = Kind[n]
<1>1. /\ loc[w].mem.tasks \in [Tables -> [Nodes -> TaskStatuses]] /\ loc[w] \in Hold
      /\ loc[w].tab \in Tables
  BY InFlightHolds DEF InFlight, AtRest, TypeInv, PhaseOf
<1>2. loc[w].steps \in Seq(StepStatus) /\ Len(loc[w].steps) <= Len(Kind)
  BY <1>1, Sizes DEF TypeInv, PhaseOf, Hold, Nodes
<1> QED
  BY <1>1, <1>2, SyncTakesSteps DEF Synced

LEMMA PauseTableDoes ==
    ASSUME TypeInv, NEW w \in Workers, PauseTable(w)
    PROVE  /\ Only(w) /\ pc[w] = "node" /\ ~Cancelled(w) /\ Interrupts(w)
           /\ run' \in RunType /\ Awaits(run') /\ run'.tasks = Synced(w) /\ run'.last = 0
           /\ run'.paused = loc[w].tab /\ run'.pending = loc[w].node
           /\ loc[w].resuming => pc'[w] = "ended" /\ loc'[w] = NoLoc
           /\ ~loc[w].resuming => pc'[w] = "final" /\ loc'[w].mem = run' /\ Rest(w)
           /\ UNCHANGED <<graph, tokens, ran, unapproved, broken, overlapped, crashes, answers>>
<1> DEFINE m == loc[w].mem
           s == Synced(w)
           tab == loc[w].tab
           node == loc[w].node
           mem == [m EXCEPT !.status = "awaiting_hitl", !.tasks = s,
                            !.last = 0, !.paused = tab, !.pending = node]
<1>1. /\ pc[w] = "node" /\ ~Cancelled(w) /\ Interrupts(w) /\ run' = mem
      /\ IF loc[w].resuming THEN Returns(w)
         ELSE pc' = [pc EXCEPT ![w] = "final"] /\ loc' = [loc EXCEPT ![w].mem = mem]
      /\ UNCHANGED <<mode, durable, graph, tokens, copy, ran, unapproved, broken, overlapped, crashes, answers>>
  BY DEF PauseTable, Goto, save, history, bounds
<1>2. m \in RunType /\ tab \in Tables /\ node \in Nodes
  BY <1>1, InFlightHolds DEF InFlight, AtRest, TypeInv, PhaseOf
<1>3. s \in [Tables -> [Nodes -> TaskStatuses]]
  BY <1>1, SyncedDoes
<1>4. 0 \in 0..NumTables /\ tab \in 0..NumTables /\ node \in 0..Len(Kind)
  BY <1>2, Sizes DEF Tables, Nodes
<1> DEFINE m1 == [m EXCEPT !.status = "awaiting_hitl"]
           m2 == [m1 EXCEPT !.tasks = s]
           m3 == [m2 EXCEPT !.last = 0]
           m4 == [m3 EXCEPT !.paused = tab]
<1>5. mem = [m4 EXCEPT !.pending = node]
  OBVIOUS
<1> HIDE DEF m, s, tab, node
<1>6. m1 \in RunType /\ m1.status = "awaiting_hitl"
  BY <1>2, StatusSet
<1> HIDE DEF m1
<1>7. m2 \in RunType /\ m2.status = "awaiting_hitl" /\ m2.tasks = s
  BY <1>3, <1>6, TasksSet
<1> HIDE DEF m2
<1>7a. m3 \in RunType /\ m3.status = "awaiting_hitl" /\ m3.tasks = s /\ m3.last = 0
  BY <1>4, <1>7, LastSet
<1> HIDE DEF m3
<1>8. /\ m4 \in RunType /\ m4.status = "awaiting_hitl" /\ m4.tasks = s /\ m4.last = 0
      /\ m4.paused = tab
  BY <1>4, <1>7a, PausedSet
<1> HIDE DEF m4, mem
<1>9. /\ mem \in RunType /\ mem.status = "awaiting_hitl" /\ mem.tasks = s /\ mem.last = 0
      /\ mem.paused = tab /\ mem.pending = node
  BY <1>4, <1>5, <1>8, PendingSet
<1>10. CASE loc[w].resuming
  BY <1>1, <1>9, <1>10, Returning DEF Awaits, s, tab, node
<1>11. CASE ~loc[w].resuming
  <2>1. Only(w) /\ pc'[w] = "final" /\ loc'[w].mem = mem /\ Rest(w)
    <3>1. "final" \in WorkerLabels
      BY Labels
    <3> QED
      BY <1>1, <1>9, <1>11, <3>1, MemMoves
  <2> QED
    BY <1>1, <1>9, <1>11, <2>1 DEF Awaits, s, tab, node
<1> QED
  BY <1>10, <1>11

LEMMA FailTableDoes ==
    ASSUME TypeInv, NEW w \in Workers, FailTable(w)
    PROVE  /\ Only(w) /\ pc[w] \in {"node", "lost"}
           /\ loc[w].tab \in Tables /\ broken' = broken \cup {loc[w].tab}
           /\ loc[w].resuming =>
                 /\ pc'[w] = "ended" /\ loc'[w] = NoLoc
                 /\ run' \in RunType /\ run'.status = "failed" /\ TokenKept
                 /\ run'.tasks = loc[w].mem.tasks /\ run'.last = loc[w].mem.last
           /\ ~loc[w].resuming =>
                 /\ pc'[w] = "final" /\ Rest(w) /\ UNCHANGED <<run, tokens>>
                 /\ loc'[w].mem \in RunType /\ loc'[w].mem.status = "failed"
                 /\ loc'[w].mem.tasks = loc[w].mem.tasks /\ loc'[w].mem.last = loc[w].tab
           /\ UNCHANGED <<graph, ran, unapproved, overlapped, crashes, answers>>
<1> DEFINE m == loc[w].mem
           tab == loc[w].tab
           failed == [m EXCEPT !.status = "failed"]
           f2 == [failed EXCEPT !.last = tab]
           mem == [f2 EXCEPT !.paused = 0]
<1>1. /\ pc[w] \in {"node", "lost"} /\ broken' = broken \cup {tab}
      /\ IF loc[w].resuming THEN run' = failed /\ DropToken /\ Returns(w)
         ELSE /\ pc' = [pc EXCEPT ![w] = "final"] /\ loc' = [loc EXCEPT ![w].mem = mem]
              /\ UNCHANGED <<run, tokens>>
      /\ UNCHANGED <<mode, durable, graph, copy, ran, unapproved, overlapped, crashes, answers>>
  BY DEF FailTable, Goto, save, bounds
<1>2. m \in RunType /\ tab \in Tables
  BY <1>1, InFlightHolds DEF InFlight, AtRest, TypeInv, PhaseOf
<1>3. 0 \in 0..NumTables /\ tab \in 0..NumTables
  BY <1>2, Sizes DEF Tables
<1>4. "failed" \in Terminal \cup {"running", "awaiting_hitl"}
  BY DEF Terminal
<1> HIDE DEF m, tab
<1>5. failed \in RunType /\ failed.status = "failed" /\ failed.tasks = m.tasks /\ failed.last = m.last
  BY <1>2, <1>4, StatusSet
<1> HIDE DEF failed
<1>5a. f2 \in RunType /\ f2.status = "failed" /\ f2.tasks = m.tasks /\ f2.last = tab
  BY <1>3, <1>5, LastSet
<1> HIDE DEF f2
<1>6. mem \in RunType /\ mem.status = "failed" /\ mem.tasks = m.tasks /\ mem.last = tab
  BY <1>3, <1>5a, PausedSet
<1> HIDE DEF mem
<1>7. CASE loc[w].resuming
  BY <1>1, <1>2, <1>5, <1>7, Returning, DroppingToken DEF m, tab
<1>8. CASE ~loc[w].resuming
  <2>1. Only(w) /\ pc'[w] = "final" /\ loc'[w].mem = mem /\ Rest(w)
    <3>1. "final" \in WorkerLabels
      BY Labels
    <3> QED
      BY <1>1, <1>6, <1>8, <3>1, MemMoves
  <2> QED
    BY <1>1, <1>2, <1>6, <1>8, <2>1 DEF m, tab
<1> QED
  BY <1>7, <1>8

LEMMA FinishTableDoes ==
    ASSUME TypeInv, NEW w \in Workers, FinishTable(w)
    PROVE  /\ Only(w) /\ Rest(w)
           /\ \/ pc[w] = "finished" /\ loc'[w].mem.tasks = Synced(w)
              \/ pc[w] = "node" /\ Cancelled(w) /\ loc'[w].mem.tasks = loc[w].mem.tasks
           /\ loc[w].tab \in Tables
           /\ loc'[w].mem \in RunType /\ loc'[w].mem.status = loc[w].mem.status
           /\ loc[w].resuming =>
                 /\ pc'[w] = "continue" /\ UNCHANGED run
                 /\ loc'[w].mem.last = loc[w].mem.last
                 /\ loc'[w].mem.paused = loc[w].mem.paused /\ loc'[w].mem.pending = loc[w].mem.pending
           /\ ~loc[w].resuming =>
                 /\ pc'[w] = "table" /\ run' = loc'[w].mem /\ loc'[w].mem.last = loc[w].tab
           /\ UNCHANGED <<graph, tokens, ran, unapproved, broken, overlapped, crashes, answers>>
<1> DEFINE m == loc[w].mem
           tab == loc[w].tab
           tasks == IF pc[w] = "finished" THEN Synced(w) ELSE m.tasks
           m1 == [m EXCEPT !.tasks = tasks]
           ml == [m1 EXCEPT !.last = tab]
           m2 == [ml EXCEPT !.paused = 0]
<1>1. /\ pc[w] = "finished" \/ (pc[w] = "node" /\ Cancelled(w))
      /\ UNCHANGED <<mode, durable, graph, tokens, copy, ran, unapproved, broken, overlapped, crashes, answers>>
  BY DEF FinishTable, history, bounds
<1>2. /\ loc[w].resuming => /\ loc' = [loc EXCEPT ![w].mem = m1] /\ UNCHANGED run
                            /\ pc' = [pc EXCEPT ![w] = "continue"]
      /\ ~loc[w].resuming => /\ loc' = [loc EXCEPT ![w].mem = m2] /\ run' = m2
                             /\ pc' = [pc EXCEPT ![w] = "table"]
  BY DEF FinishTable, Goto, save
<1>3. m \in RunType /\ tab \in Tables /\ m.tasks \in [Tables -> [Nodes -> TaskStatuses]]
  BY <1>1, InFlightHolds DEF InFlight, AtRest, TypeInv, PhaseOf
<1>4. 0 \in 0..NumTables /\ tab \in 0..NumTables
  BY <1>3, Sizes DEF Tables
<1>5. tasks \in [Tables -> [Nodes -> TaskStatuses]]
  BY <1>1, <1>3, SyncedDoes
<1>6. \/ pc[w] = "finished" /\ tasks = Synced(w)
      \/ pc[w] = "node" /\ Cancelled(w) /\ tasks = m.tasks
  BY <1>1
<1> HIDE DEF m, tab, tasks
<1>7. /\ m1 \in RunType /\ m1.status = m.status /\ m1.tasks = tasks /\ m1.last = m.last
      /\ m1.paused = m.paused /\ m1.pending = m.pending
  BY <1>3, <1>5, TasksSet
<1> HIDE DEF m1
<1>7a. ml \in RunType /\ ml.status = m.status /\ ml.tasks = tasks /\ ml.last = tab
  BY <1>4, <1>7, LastSet
<1> HIDE DEF ml
<1>8. m2 \in RunType /\ m2.status = m.status /\ m2.tasks = tasks /\ m2.last = tab
  BY <1>4, <1>7a, PausedSet
<1> HIDE DEF m2
<1>9. CASE loc[w].resuming
  <2>1. Only(w) /\ pc'[w] = "continue" /\ loc'[w].mem = m1 /\ Rest(w)
    <3>1. "continue" \in WorkerLabels
      BY Labels
    <3> QED
      BY <1>1, <1>2, <1>7, <1>9, <3>1, MemMoves
  <2> QED
    BY <1>1, <1>2, <1>3, <1>6, <1>7, <1>9, <2>1 DEF m, tab
<1>10. CASE ~loc[w].resuming
  <2>1. Only(w) /\ pc'[w] = "table" /\ loc'[w].mem = m2 /\ Rest(w)
    <3>1. "table" \in WorkerLabels
      BY Labels
    <3> QED
      BY <1>1, <1>2, <1>8, <1>10, <3>1, MemMoves
  <2> QED
    BY <1>1, <1>2, <1>3, <1>6, <1>8, <1>10, <2>1 DEF m, tab
<1> QED
  BY <1>9, <1>10

LEMMA ResumeBatchDoes ==
    ASSUME TypeInv, NEW w \in Resumes, NEW answer \in Answers, ResumeBatch(w, answer)
    PROVE  LET t == run.paused
               l == loc'[w] IN
           /\ Only(w) /\ ~InFlight(w) /\ TakesToken(w)
           /\ run # None /\ run \in RunType /\ Awaits(run) /\ t \in Tables /\ run.pending \in Nodes
           /\ l.mem = run /\ l.tab = t /\ l.granted = (answer = "approve") /\ l.answer = answer
           /\ l.shown = (IF answer = "approve" THEN <<t, run.pending>> ELSE None)
           /\ l.resuming = TRUE
           /\ graph[t] = None => pc'[w] = "lost"
           /\ graph[t] # None =>
                 /\ pc'[w] = IF graph[t].next > Len(Kind) THEN "finished" ELSE "node"
                 /\ l.node = graph[t].next /\ l.steps = graph[t].steps
                 /\ l.node \in 1..Len(Kind) + 1 /\ Len(l.steps) = l.node - 1
           /\ answers' = answers + 1
           /\ UNCHANGED <<run, graph, ran, unapproved, broken, crashes>>
<1> DEFINE t == run.paused
           g == graph[t]
           node == IF g = None THEN 0 ELSE g.next
           steps == IF g = None THEN << >> ELSE g.steps
           shown == IF answer = "approve" THEN <<t, run.pending>> ELSE None
           label == IF g = None THEN "lost" ELSE IF g.next > Len(Kind) THEN "finished" ELSE "node"
           l == [mem |-> run, tab |-> t, node |-> node, steps |-> steps,
                 granted |-> answer = "approve", answer |-> answer, shown |-> shown,
                 resuming |-> TRUE, token |-> tokens'.current]
<1>1. /\ run # None /\ run.status = "awaiting_hitl" /\ answers' = answers + 1
      /\ ~InFlight(w) /\ TakeToken /\ overlapped' = (overlapped \/ ~Quiet)
      /\ loc' = [loc EXCEPT ![w] = l] /\ pc' = [pc EXCEPT ![w] = label]
      /\ UNCHANGED <<mode, durable, run, graph, copy, ran, unapproved, broken, crashes>>
  BY DEF ResumeBatch, Goto, disk, history
<1>2. w \in Workers /\ run \in RunType /\ t \in Tables /\ run.pending \in Nodes
  BY <1>1, Callers DEF TypeInv, VarsTyped, IsRecord, Awaits
<1>3. g = None \/ (g \in Checkpoint /\ Len(g.steps) = g.next - 1)
  BY <1>2 DEF TypeInv, VarsTyped, GraphTyped
<1> HIDE DEF g
<1>4. node \in 0..Len(Kind) + 1 /\ steps \in Seq(StepStatus)
      /\ (g # None => node \in 1..Len(Kind) + 1)
  <2>1. CASE g = None
    BY <2>1, Sizes, << >> \in Seq(StepStatus)
  <2>2. CASE g # None
    BY <1>3, <2>2, Sizes DEF Checkpoint
  <2> QED
    BY <2>1, <2>2
<1>5. shown \in (Tables \X Nodes) \cup {None} /\ t \in 0..NumTables + 1
  BY <1>2, Sizes DEF Tables
<1>6. tokens'.current \in Nat
  BY <1>1, TakingToken DEF TokenType
<1>7. label \in WorkerLabels
  BY Labels
<1>8. /\ l \in Hold /\ l.mem = run /\ l.tab = t /\ l.node = node /\ l.steps = steps
      /\ l.granted = (answer = "approve") /\ l.answer = answer /\ l.shown = shown
      /\ l.resuming = TRUE /\ l.token = tokens'.current
  <2> HIDE DEF t, node, steps, shown
  <2>1. (answer = "approve") \in BOOLEAN
    OBVIOUS
  <2> QED
    BY <1>2, <1>4, <1>5, <1>6, <2>1 DEF Hold
<1>8a. g # None => node = g.next /\ steps = g.steps /\ Len(steps) = node - 1
                   /\ label = (IF g.next > Len(Kind) THEN "finished" ELSE "node")
  BY <1>3
<1>8b. g = None => label = "lost"
  OBVIOUS
<1>8c. shown = (IF answer = "approve" THEN <<t, run.pending>> ELSE None)
  OBVIOUS
<1>8d. run.status = "awaiting_hitl" /\ g = graph[t]
  BY <1>1 DEF g
<1> HIDE DEF l, label, node, steps, shown
<1>9. Only(w) /\ pc'[w] = label /\ loc'[w] = l
  BY <1>1, <1>2, <1>7, <1>8, WorkerMoves
<1>10. TakesToken(w)
  BY <1>1, <1>8, <1>9, TakingToken DEF TakesToken
<1> QED
  BY <1>1, <1>2, <1>4, <1>8, <1>8a, <1>8b, <1>8c, <1>8d, <1>9, <1>10 DEF Awaits

\* One task of the record takes another status.
LEMMA TaskSet ==
    ASSUME NEW m \in RunType, NEW t \in Tables, NEW n \in Nodes, NEW s \in TaskStatuses
    PROVE  LET r == [m EXCEPT !.tasks[t][n] = s] IN
           /\ r \in RunType /\ r.status = m.status /\ r.last = m.last
           /\ r.tasks = [m.tasks EXCEPT ![t][n] = s]
           /\ r.paused = m.paused /\ r.pending = m.pending
<1>1. m.tasks \in [Tables -> [Nodes -> TaskStatuses]]
  BY DEF RunType
<1> DEFINE x == [m.tasks EXCEPT ![t][n] = s]
<1>2. x \in [Tables -> [Nodes -> TaskStatuses]]
  BY <1>1
<1>3. [m EXCEPT !.tasks[t][n] = s] = [m EXCEPT !.tasks = x]
  OBVIOUS
<1> HIDE DEF x
<1>4. LET r == [m EXCEPT !.tasks = x] IN
      /\ r \in RunType /\ r.status = m.status /\ r.tasks = x /\ r.last = m.last
      /\ r.paused = m.paused /\ r.pending = m.pending
  BY <1>2, TasksSet
<1> QED
  BY <1>3, <1>4 DEF x

LEMMA SeqStartDoes ==
    ASSUME TypeInv, NEW w \in Workers, SeqStart(w)
    PROVE  LET t == loc'[w].tab
               n == loc'[w].node IN
           /\ Only(w) /\ pc[w] = "seq" /\ pc'[w] = "step" /\ ~Cancelled(w)
           /\ t \in Tables /\ t = (IF loc[w].tab = 0 THEN 1 ELSE loc[w].tab)
           /\ n \in Nodes /\ n = loc[w].node + 1
           /\ loc'[w].mem \in RunType /\ loc'[w].mem.status = "running"
           /\ loc'[w].mem.last = loc[w].mem.last
           /\ ClaimsNoMore(loc'[w].mem, loc[w].mem)
           /\ loc'[w].token = loc[w].token
           /\ run' = loc'[w].mem
           /\ UNCHANGED <<graph, tokens, ran, unapproved, broken, overlapped, crashes, answers>>
<1> DEFINE l == loc[w]
           t == IF l.tab = 0 THEN 1 ELSE l.tab
           n == l.node + 1
           mem == [l.mem EXCEPT !.tasks[t][n] = "running"]
           g == [l EXCEPT !.mem = mem, !.tab = t, !.node = n]
<1>1. /\ pc[w] = "seq" /\ ~Cancelled(w) /\ n \in Nodes /\ loc' = [loc EXCEPT ![w] = g]
      /\ run' = mem /\ pc' = [pc EXCEPT ![w] = "step"]
      /\ UNCHANGED <<mode, durable, graph, tokens, copy, ran, unapproved, broken, overlapped, crashes, answers>>
  BY DEF SeqStart, Goto, save, history, bounds
<1>2. l \in Hold /\ l.mem \in RunType /\ l.tab \in 0..NumTables /\ l.mem.status = "running"
  BY <1>1, InFlightHolds DEF InFlight, AtRest, TypeInv, PhaseOf
<1>3. t \in Tables /\ t \in 0..NumTables + 1 /\ n \in 0..Len(Kind) + 1
  BY <1>1, <1>2, Sizes DEF Tables, Nodes
<1>4. "running" \in TaskStatuses /\ "running" \notin StepStatus
  BY DEF TaskStatuses, StepStatus
<1> DEFINE g1 == [l EXCEPT !.mem = mem]
           g2 == [g1 EXCEPT !.tab = t]
<1>5. g = [g2 EXCEPT !.node = n]
  OBVIOUS
<1>6. t = (IF l.tab = 0 THEN 1 ELSE l.tab) /\ n = l.node + 1
  OBVIOUS
<1> HIDE DEF l, t, n, g, g1, g2
<1>7. /\ mem \in RunType /\ mem.status = l.mem.status /\ mem.last = l.mem.last
      /\ mem.tasks = [l.mem.tasks EXCEPT ![t][n] = "running"]
  BY <1>1, <1>2, <1>3, <1>4, TaskSet
<1> HIDE DEF mem
<1>8. ClaimsNoMore(mem, l.mem)
  <2>1. l.mem.tasks \in [Tables -> [Nodes -> TaskStatuses]]
    BY <1>2 DEF RunType
  <2> QED
    BY <1>4, <1>7, <2>1 DEF ClaimsNoMore
<1>9. g1 \in Hold /\ g1.mem = mem /\ g1.token = l.token
  BY <1>2, <1>7 DEF Hold, g1
<1>10. g2 \in Hold /\ g2.mem = mem /\ g2.token = l.token /\ g2.tab = t
  BY <1>3, <1>9 DEF Hold, g2
<1>11. g \in Hold /\ g.mem = mem /\ g.token = l.token /\ g.tab = t /\ g.node = n
  BY <1>3, <1>5, <1>10 DEF Hold
<1>12. Only(w) /\ pc'[w] = "step" /\ loc'[w] = g
  BY <1>1, <1>11, Labels, WorkerMoves
<1> QED
  BY <1>1, <1>2, <1>3, <1>6, <1>7, <1>8, <1>11, <1>12 DEF l

LEMMA SeqStepDoes ==
    ASSUME TypeInv, NEW w \in Workers, SeqStep(w)
    PROVE  LET t == loc[w].tab
               n == loc[w].node
               last == n = Len(Kind) /\ t = NumTables IN
           /\ Only(w) /\ pc[w] = "step" /\ t \in Tables /\ n \in Nodes
           /\ pc'[w] = IF last THEN "final" ELSE "seq"
           /\ loc'[w].mem \in RunType
           /\ loc'[w].mem.status = IF last THEN "completed" ELSE "running"
           /\ loc'[w].mem.last = loc[w].mem.last
           /\ \A u \in Tables, i \in Nodes :
                 (u # t \/ i # n) => loc'[w].mem.tasks[u][i] = loc[w].mem.tasks[u][i]
           /\ loc'[w].tab = IF n = Len(Kind) THEN t + 1 ELSE t
           /\ loc'[w].node = IF n = Len(Kind) THEN 0 ELSE n
           /\ loc'[w].token = loc[w].token
           /\ run' \in RunType /\ run'.status = "running" /\ run'.tasks = loc'[w].mem.tasks
           /\ run'.last = loc[w].mem.last
           /\ ActsOn(t, n) /\ Unapproves(w, t, n, FALSE)
           /\ UNCHANGED <<graph, tokens, overlapped, crashes, answers>>
<1> DEFINE l == loc[w]
           t == l.tab
           n == l.node
           over == n = Len(Kind)
           last == over /\ t = NumTables
           tab == IF over THEN t + 1 ELSE t
           node == IF over THEN 0 ELSE n
<1>1. PICK status \in StepStatuses(Kind[n], FALSE) :
          LET mem == [l.mem EXCEPT !.tasks[t][n] = status] IN
          /\ loc' = [loc EXCEPT ![w] =
                [l EXCEPT !.mem = IF last THEN [mem EXCEPT !.status = "completed"] ELSE mem,
                          !.tab = tab, !.node = node]]
          /\ run' = mem
          /\ Acts(w, t, n, FALSE, status)
  BY DEF SeqStep, save
<1>2. /\ pc[w] = "step" /\ pc' = [pc EXCEPT ![w] = IF last THEN "final" ELSE "seq"]
      /\ UNCHANGED <<mode, durable, graph, tokens, copy, overlapped, crashes, answers>>
  BY DEF SeqStep, Goto, bounds
<1>3. /\ l \in Hold /\ l.mem \in RunType /\ t \in Tables /\ n \in Nodes /\ l.mem.status = "running"
  BY <1>2, InFlightHolds DEF InFlight, AtRest, TypeInv, PhaseOf
<1>4. status \in TaskStatuses
  BY <1>1 DEF StepStatuses, StepStatus, TaskStatuses
<1>5. tab \in 0..NumTables + 1 /\ node \in 0..Len(Kind) + 1
  BY <1>3, Sizes DEF Tables, Nodes
<1>5a. tab = (IF n = Len(Kind) THEN t + 1 ELSE t) /\ node = (IF n = Len(Kind) THEN 0 ELSE n)
       /\ last = (n = Len(Kind) /\ t = NumTables)
  OBVIOUS
<1> DEFINE mem == [l.mem EXCEPT !.tasks[t][n] = status]
           done == [mem EXCEPT !.status = "completed"]
           r == IF last THEN done ELSE mem
           label == IF last THEN "final" ELSE "seq"
           g1 == [l EXCEPT !.mem = r]
           g2 == [g1 EXCEPT !.tab = tab]
           g == [g2 EXCEPT !.node = node]
<1>6. loc' = [loc EXCEPT ![w] = g] /\ run' = mem /\ Acts(w, t, n, FALSE, status)
  BY <1>1
<1>7. ActsOn(t, n) /\ Unapproves(w, t, n, FALSE)
  BY <1>6, ActsDoes
<1> HIDE DEF l, t, n, tab, node, last, g, g1, g2
<1>8. /\ mem \in RunType /\ mem.status = "running" /\ mem.last = l.mem.last
      /\ mem.tasks = [l.mem.tasks EXCEPT ![t][n] = status]
  BY <1>3, <1>4, TaskSet
<1>9. \A u \in Tables, i \in Nodes : (u # t \/ i # n) => mem.tasks[u][i] = l.mem.tasks[u][i]
  <2>1. l.mem.tasks \in [Tables -> [Nodes -> TaskStatuses]]
    BY <1>3 DEF RunType
  <2> QED
    BY <1>8, <2>1
<1> HIDE DEF mem
<1>10. done \in RunType /\ done.status = "completed" /\ done.tasks = mem.tasks /\ done.last = mem.last
  <2>1. "completed" \in Terminal \cup {"running", "awaiting_hitl"}
    BY DEF Terminal
  <2> QED
    BY <1>8, <2>1, StatusSet
<1> HIDE DEF done
<1>11. /\ r \in RunType /\ r.status = IF last THEN "completed" ELSE "running"
       /\ r.tasks = mem.tasks /\ r.last = mem.last
  BY <1>8, <1>10
<1>12. label \in WorkerLabels /\ label = IF last THEN "final" ELSE "seq"
  BY Labels
<1> HIDE DEF r, label
<1>13. g1 \in Hold /\ g1.mem = r /\ g1.token = l.token
  BY <1>3, <1>11 DEF Hold, g1
<1>14. g2 \in Hold /\ g2.mem = r /\ g2.token = l.token /\ g2.tab = tab
  BY <1>5, <1>13 DEF Hold, g2
<1>15. g \in Hold /\ g.mem = r /\ g.token = l.token /\ g.tab = tab /\ g.node = node
  BY <1>5, <1>14 DEF Hold, g
<1>16. Only(w) /\ pc'[w] = label /\ loc'[w] = g
  BY <1>2, <1>6, <1>12, <1>15, WorkerMoves DEF label
<1>17. /\ loc'[w].mem \in RunType /\ loc'[w].mem.last = l.mem.last /\ loc'[w].token = l.token
       /\ loc'[w].tab = (IF n = Len(Kind) THEN t + 1 ELSE t)
       /\ loc'[w].node = (IF n = Len(Kind) THEN 0 ELSE n)
       /\ run' \in RunType /\ run'.status = "running" /\ run'.tasks = loc'[w].mem.tasks
       /\ run'.last = l.mem.last
  BY <1>5a, <1>6, <1>8, <1>11, <1>15, <1>16
<1>18. /\ pc'[w] = (IF n = Len(Kind) /\ t = NumTables THEN "final" ELSE "seq")
       /\ loc'[w].mem.status = (IF n = Len(Kind) /\ t = NumTables THEN "completed" ELSE "running")
  BY <1>5a, <1>11, <1>12, <1>15, <1>16
<1>19. \A u \in Tables, i \in Nodes :
          (u # t \/ i # n) => loc'[w].mem.tasks[u][i] = l.mem.tasks[u][i]
  BY <1>9, <1>11, <1>15, <1>16
<1> QED
  BY <1>2, <1>3, <1>7, <1>16, <1>17, <1>18, <1>19 DEF l, t, n

\* A caller of request_cancel moves, and nobody else.
OnlyCancel(c) ==
    /\ pc' \in [Workers \cup Cancels -> WorkerLabels \cup CancelLabels]
    /\ copy' \in [Cancels -> RunType \cup {None}]
    /\ pc'[c] \in CancelLabels
    /\ \A d \in Cancels \ {c} : pc'[d] = pc[d] /\ copy'[d] = copy[d]
    /\ \A w \in Workers : pc'[w] = pc[w]
    /\ UNCHANGED <<mode, durable, loc, graph, ran, unapproved, broken, overlapped, crashes, answers>>

LEMMA CancelMoves ==
    ASSUME TypeInv, NEW c \in Cancels, NEW label \in CancelLabels, NEW r \in RunType \cup {None},
           pc' = [pc EXCEPT ![c] = label], copy' = [copy EXCEPT ![c] = r],
           UNCHANGED <<mode, durable, loc, graph, ran, unapproved, broken, overlapped, crashes, answers>>
    PROVE  OnlyCancel(c) /\ pc'[c] = label /\ copy'[c] = r
BY Callers DEF OnlyCancel, TypeInv, VarsTyped

LEMMA CancelDoes ==
    ASSUME TypeInv, NEW c \in Cancels, CancelLoad(c) \/ CancelToken(c) \/ CancelSave(c)
    PROVE  /\ OnlyCancel(c)
           /\ \/ /\ pc[c] = "idle" /\ run # None /\ UNCHANGED <<run, tokens>>
                 /\ \/ pc'[c] = "refused" /\ copy'[c] = copy[c]
                    \/ pc'[c] = "token" /\ copy'[c] = run
              \/ /\ pc[c] = "token" /\ pc'[c] = "save" /\ UNCHANGED run /\ copy'[c] = copy[c]
                 /\ tokens' \in TokenType /\ tokens'.current <= tokens'.made
                 /\ tokens'.cancelled \subseteq 1..tokens'.made
                 /\ tokens.cancelled \subseteq tokens'.cancelled
                 /\ tokens.current # 0 => tokens'.current = tokens.current
                 /\ SharedStore => tokens'.current # 0 /\ tokens'.current \in tokens'.cancelled
              \/ /\ pc[c] = "save" /\ pc'[c] = "ended" /\ UNCHANGED tokens
                 /\ copy[c] \in RunType /\ copy'[c] = None
                 /\ run' \in RunType /\ run'.status = "cancelled"
                 /\ run'.tasks = copy[c].tasks /\ run'.last = copy[c].last
<1>1. /\ {"token", "save", "refused", "ended"} \subseteq CancelLabels
      /\ copy = [copy EXCEPT ![c] = copy[c]] /\ copy[c] \in RunType \cup {None}
  BY DEF CancelLabels, AtRest, TypeInv, VarsTyped
<1>2. CASE CancelLoad(c)
  <2>1. /\ pc[c] = "idle" /\ run # None /\ run \in RunType /\ UNCHANGED <<run, tokens>>
        /\ UNCHANGED <<mode, durable, loc, graph, ran, unapproved, broken, overlapped, crashes, answers>>
    BY <1>2 DEF CancelLoad, TypeInv, VarsTyped, IsRecord, disk, history, bounds
  <2>2. CASE pc' = [pc EXCEPT ![c] = "refused"] /\ copy' = copy
    BY <1>1, <2>1, <2>2, CancelMoves
  <2>3. CASE pc' = [pc EXCEPT ![c] = "token"] /\ copy' = [copy EXCEPT ![c] = run]
    BY <1>1, <2>1, <2>3, CancelMoves
  <2> QED
    BY <1>2, <2>1, <2>2, <2>3 DEF CancelLoad, Goto
<1>3. CASE CancelToken(c)
  <2>1. /\ pc[c] = "token" /\ pc' = [pc EXCEPT ![c] = "save"] /\ copy' = copy /\ UNCHANGED run
        /\ UNCHANGED <<mode, durable, loc, graph, ran, unapproved, broken, overlapped, crashes, answers>>
    BY <1>3 DEF CancelToken, Goto, disk, history, bounds
  <2>2. OnlyCancel(c) /\ pc'[c] = "save" /\ copy'[c] = copy[c]
    BY <1>1, <2>1, CancelMoves
  <2> DEFINE k == cancellation_token
  <2>3. /\ k \in TokenType /\ k.current <= k.made /\ k.cancelled \subseteq 1..k.made
        /\ k.current # 0 /\ k.cancelled = tokens.cancelled
        /\ tokens.current # 0 => k.current = tokens.current
    BY TokenIsTaken DEF TypeInv, VarsTyped, TokensTyped
  <2>4. IF SharedStore THEN tokens' = [k EXCEPT !.cancelled = k.cancelled \cup {k.current}]
                       ELSE tokens' = tokens
    BY <1>3 DEF CancelToken
  <2> HIDE DEF k
  <2>5. /\ tokens' \in TokenType /\ tokens'.current <= tokens'.made
        /\ tokens'.cancelled \subseteq 1..tokens'.made
        /\ tokens.cancelled \subseteq tokens'.cancelled
        /\ tokens.current # 0 => tokens'.current = tokens.current
        /\ SharedStore => tokens'.current # 0 /\ tokens'.current \in tokens'.cancelled
    <3>1. CASE SharedStore
      <4> DEFINE x == k.cancelled \cup {k.current}
      <4>1. x \in SUBSET Nat /\ x \subseteq 1..k.made /\ k.current \in x /\ k.cancelled \subseteq x
        BY <2>3 DEF TokenType
      <4> HIDE DEF x
      <4>2. tokens' = [k EXCEPT !.cancelled = x]
        BY <2>4, <3>1 DEF x
      <4> QED
        BY <2>3, <3>1, <4>1, <4>2 DEF TokenType
    <3>2. CASE ~SharedStore
      BY <2>4, <3>2 DEF TypeInv, VarsTyped, TokensTyped
    <3> QED
      BY <3>1, <3>2
  <2> QED
    BY <2>1, <2>2, <2>5
<1>4. CASE CancelSave(c)
  <2>1. /\ pc[c] = "save" /\ pc' = [pc EXCEPT ![c] = "ended"] /\ copy' = [copy EXCEPT ![c] = None]
        /\ run' = [copy[c] EXCEPT !.status = "cancelled"]
        /\ UNCHANGED <<mode, durable, loc, graph, tokens, ran, unapproved, broken, overlapped, crashes, answers>>
    BY <1>4 DEF CancelSave, Goto, save, history, bounds
  <2>2. copy[c] \in RunType
    BY <2>1 DEF TypeInv, VarsTyped
  <2>3. "cancelled" \in Terminal \cup {"running", "awaiting_hitl"}
    BY DEF Terminal
  <2> DEFINE r == [copy[c] EXCEPT !.status = "cancelled"]
  <2>4. r \in RunType /\ r.status = "cancelled" /\ r.tasks = copy[c].tasks /\ r.last = copy[c].last
    BY <2>2, <2>3, StatusSet
  <2> HIDE DEF r
  <2>5. run' = r
    BY <2>1 DEF r
  <2>6. OnlyCancel(c) /\ pc'[c] = "ended" /\ copy'[c] = None
    BY <1>1, <2>1, CancelMoves
  <2> QED
    BY <2>1, <2>2, <2>4, <2>5, <2>6
<1> QED
  BY <1>2, <1>3, <1>4

LEMMA CrashDoes ==
    ASSUME TypeInv, Crash
    PROVE  /\ pc' \in [Workers \cup Cancels -> WorkerLabels \cup CancelLabels]
           /\ \A c \in Workers \cup Cancels :
                 \/ InFlight(c) /\ pc'[c] = "died"
                 \/ ~InFlight(c) /\ pc'[c] = pc[c]
           /\ loc' = [w \in Workers |-> NoLoc] /\ copy' = [c \in Cancels |-> None]
           /\ crashes' = crashes + 1 /\ TokenKept
           /\ graph' = IF durable THEN graph ELSE NoGraphs
           /\ UNCHANGED <<mode, durable, run, ran, unapproved, broken, overlapped, answers>>
<1>1. /\ pc' = [c \in DOMAIN pc |-> IF InFlight(c) THEN "died" ELSE pc[c]]
      /\ loc' = [w \in Workers |-> NoLoc] /\ copy' = [c \in Cancels |-> None]
      /\ crashes' = crashes + 1 /\ tokens' = [tokens EXCEPT !.current = 0]
      /\ graph' = IF durable THEN graph ELSE NoGraphs
      /\ UNCHANGED <<mode, durable, run, ran, unapproved, broken, overlapped, answers>>
  BY DEF Crash, history
<1>2. "died" \in WorkerLabels
  BY DEF WorkerLabels, AtRest
<1>3. pc \in [Workers \cup Cancels -> WorkerLabels \cup CancelLabels] /\ tokens \in TokenType
  BY DEF TypeInv, VarsTyped, TokensTyped
<1>4. TokenKept
  BY <1>1, <1>3 DEF TokenKept, TokenType
<1> QED
  BY <1>1, <1>2, <1>3, <1>4

-------------------------------------------------------------------------------
(* The variables keep their shape. *)

LEMMA NotAwaiting ==
    ASSUME NEW r \in RunType, r.status \in Terminal \cup {"running"}
    PROVE  IsRecord(r) /\ ~Awaits(r)
BY DEF IsRecord, Awaits, Terminal

\* A worker that holds nothing stands nowhere.
LEMMA RestIsTyped ==
    ASSUME NEW w \in Workers, pc'[w] \in AtRest
    PROVE  PhaseOf(w)'
BY DEF PhaseOf, InFlight, AtRest

\* A step of one worker keeps the shape if it does at the worker.
LEMMA OnlyTyped ==
    ASSUME TypeInv, NEW w \in Workers, Only(w), PhaseOf(w)', GraphTyped', TokensTyped',
           run' # None => IsRecord(run'),
           ran' \in [Tables -> [Nodes -> Nat]],
           crashes' \in Nat, answers' \in Nat, overlapped' \in BOOLEAN
    PROVE  TypeInv'
<1>1. /\ mode' \in Modes /\ durable' \in BOOLEAN
      /\ copy' \in [Cancels -> RunType \cup {None}]
      /\ \A v \in Workers : pc'[v] \in WorkerLabels
      /\ \A c \in Cancels : pc'[c] \in CancelLabels
      /\ \A c \in Cancels : pc'[c] \in {"token", "save"} => copy'[c] \in RunType
  BY DEF TypeInv, VarsTyped, Only
<1>2. ASSUME NEW v \in Workers, v # w
      PROVE  PhaseOf(v)'
  <2>1. PhaseOf(v) /\ loc'[v] = loc[v] /\ pc'[v] = pc[v]
    BY <1>2 DEF TypeInv, Only
  <2> QED
    BY <2>1 DEF PhaseOf, InFlight
<1> QED
  BY <1>1, <1>2 DEF TypeInv, VarsTyped, Only

LEMMA InitTyped == Init => TypeInv
<1> SUFFICES ASSUME Init
             PROVE  TypeInv
  OBVIOUS
<1>1. graph = NoGraphs /\ GraphTyped
  BY DEF Init, GraphTyped, NoGraphs
<1>2. tokens \in TokenType /\ TokensTyped
  BY DEF Init, NoTokens, TokenType, TokensTyped
<1>3. \A c \in Workers \cup Cancels : pc[c] = "idle"
  BY DEF Init
<1>4. "idle" \in AtRest /\ "idle" \in WorkerLabels /\ "idle" \in CancelLabels
  BY DEF AtRest, WorkerLabels, CancelLabels
<1>5. \A w \in Workers : PhaseOf(w)
  BY <1>3 DEF PhaseOf, InFlight, AtRest
<1>6. loc \in [Workers -> Hold]
  BY NoLocIsTyped DEF Init
<1>7. /\ mode \in Modes /\ durable \in BOOLEAN /\ overlapped \in BOOLEAN /\ run = None
      /\ pc \in [Workers \cup Cancels -> WorkerLabels \cup CancelLabels]
      /\ copy \in [Cancels -> RunType \cup {None}]
      /\ ran \in [Tables -> [Nodes -> Nat]]
      /\ crashes \in Nat /\ answers \in Nat
  BY <1>4 DEF Init
<1> QED
  BY <1>1, <1>2, <1>3, <1>4, <1>5, <1>6, <1>7 DEF TypeInv, VarsTyped

\* What a worker that starts holds is in shape.
LEMMA StartsTyped ==
    ASSUME TypeInv, NEW w \in Workers, TakesToken(w)
    PROVE  TokensTyped' /\ overlapped' \in BOOLEAN
BY DEF TakesToken, TokensTyped, TypeInv, VarsTyped

LEMMA RanCounts ==
    ASSUME TypeInv, NEW t \in Tables, NEW n \in Nodes, ActsOn(t, n)
    PROVE  /\ ran' \in [Tables -> [Nodes -> Nat]]
           /\ \A u \in Tables, i \in Nodes :
                 ran'[u][i] = IF u = t /\ i = n THEN ran[u][i] + 1 ELSE ran[u][i]
BY DEF ActsOn, TypeInv, VarsTyped

LEMMA KeptTyped ==
    ASSUME TypeInv
    PROVE  /\ UNCHANGED graph => GraphTyped'
           /\ UNCHANGED tokens => TokensTyped'
           /\ TokenKept => TokensTyped'
           /\ UNCHANGED run => (run' # None => IsRecord(run'))
           /\ UNCHANGED ran => ran' \in [Tables -> [Nodes -> Nat]]
           /\ UNCHANGED crashes => crashes' \in Nat
           /\ UNCHANGED answers => answers' \in Nat
           /\ UNCHANGED overlapped => overlapped' \in BOOLEAN
           /\ graph' = NoGraphs => GraphTyped'
<1>1. UNCHANGED graph => GraphTyped'
  BY DEF TypeInv, VarsTyped, GraphTyped
<1>2. graph' = NoGraphs => GraphTyped'
  BY DEF NoGraphs, GraphTyped
<1>3. UNCHANGED tokens => TokensTyped'
  BY DEF TypeInv, VarsTyped, TokensTyped
<1>4. TokenKept => TokensTyped'
  BY DEF TypeInv, VarsTyped, TokensTyped, TokenKept, TokenType
<1> QED
  BY <1>1, <1>2, <1>3, <1>4 DEF TypeInv, VarsTyped

\* A table's checkpoint is replaced by one that is in shape.
LEMMA CheckpointSet ==
    ASSUME TypeInv, NEW t \in Tables, NEW n \in 1..Len(Kind) + 1, NEW s \in Seq(StepStatus),
           Len(s) = n - 1, graph' = [graph EXCEPT ![t] = [next |-> n, steps |-> s]]
    PROVE  GraphTyped'
<1> DEFINE g == [next |-> n, steps |-> s]
<1>1. g \in Checkpoint /\ g.next = n /\ g.steps = s
  BY DEF Checkpoint
<1>2. graph' = [graph EXCEPT ![t] = g]
  OBVIOUS
<1> HIDE DEF g
<1> QED
  BY <1>1, <1>2 DEF TypeInv, VarsTyped, GraphTyped

LEMMA WorkTyped ==
    ASSUME TypeInv, NEW w \in Workers, Works(w)
    PROVE  TypeInv'
<1>h. InFlight(w) => IsRecord(loc[w].mem) /\ loc[w].mem \in RunType /\ loc[w] \in Hold
  BY InFlightHolds
<1>1. CASE Continue(w)
  <2>1. /\ Only(w) /\ Rest(w) /\ pc[w] = "continue" /\ pc'[w] = "table"
        /\ loc'[w].mem \in RunType /\ loc'[w].mem.status = "running"
        /\ run' = loc'[w].mem
        /\ UNCHANGED <<graph, tokens, ran, overlapped, crashes, answers>>
    BY <1>1, ContinueDoes
  <2>2. IsRecord(loc'[w].mem)
    BY <2>1, NotAwaiting
  <2>3. PhaseOf(w)'
    BY <2>1, <2>2 DEF PhaseOf, Rest, TypeInv
  <2> QED
    BY <2>1, <2>2, <2>3, KeptTyped, OnlyTyped
<1>2. CASE BeginTable(w)
  <2> DEFINE t == loc'[w].tab
  <2>1. /\ Only(w) /\ pc[w] = "table" /\ pc'[w] = "node" /\ t \in Tables
        /\ loc'[w].mem = loc[w].mem /\ loc'[w].node = 1 /\ loc'[w].steps = << >>
        /\ loc'[w].resuming = FALSE
        /\ graph' = [graph EXCEPT ![t] = Fresh]
        /\ UNCHANGED <<run, tokens, ran, overlapped, crashes, answers>>
    BY <1>2, BeginTableDoes
  <2> HIDE DEF t
  <2>2. IsRecord(loc[w].mem) /\ loc[w].mem.status = "running"
    BY <1>h, <2>1 DEF InFlight, AtRest, TypeInv, PhaseOf
  <2>3. 1 \in Nodes /\ Len(<< >>) = 1 - 1
    BY Sizes DEF Nodes
  <2>4. PhaseOf(w)'
    BY <2>1, <2>2, <2>3 DEF PhaseOf, t
  <2>5. GraphTyped'
    <3>1. 1 \in 1..Len(Kind) + 1 /\ << >> \in Seq(StepStatus)
      BY Sizes
    <3> QED
      BY <2>1, <2>3, <3>1, CheckpointSet DEF Fresh
  <2> QED
    BY <2>1, <2>4, <2>5, KeptTyped, OnlyTyped
<1>3. CASE RejectSpec(w) \/ BatchCancelled(w) \/ BatchCompletes(w) \/ SeqCancelled(w) \/ SeqFails(w)
  <2>1. /\ Only(w) /\ pc'[w] = "final"
        /\ loc'[w].mem \in RunType /\ loc'[w].mem.status \in Terminal
        /\ UNCHANGED <<run, graph, tokens, ran, overlapped, crashes, answers>>
    BY <1>3, StopsDoes
  <2>2. IsRecord(loc'[w].mem)
    BY <2>1, NotAwaiting
  <2>3. PhaseOf(w)'
    BY <2>1, <2>2 DEF PhaseOf
  <2> QED
    BY <2>1, <2>3, KeptTyped, OnlyTyped
<1>4. CASE Final(w)
  <2>1. /\ Only(w) /\ pc[w] = "final" /\ pc'[w] = "ended"
        /\ run' = loc[w].mem /\ graph' \in {graph, NoGraphs} /\ TokenKept
        /\ UNCHANGED <<ran, overlapped, crashes, answers>>
    BY <1>4, FinalDoes
  <2>2. PhaseOf(w)'
    BY <2>1, RestIsTyped DEF AtRest
  <2>3. IsRecord(run')
    BY <1>h, <2>1 DEF InFlight, AtRest
  <2> QED
    BY <2>1, <2>2, <2>3, KeptTyped, OnlyTyped
<1>5. CASE RunNode(w)
  <2> DEFINE t == loc[w].tab
             n == loc[w].node
             s == loc'[w].steps
  <2>1. /\ Only(w) /\ pc[w] = "node" /\ pc'[w] = (IF n = Len(Kind) THEN "finished" ELSE "node")
        /\ t \in Tables /\ n \in Nodes
        /\ loc'[w].mem = loc[w].mem /\ loc'[w].tab = t /\ loc'[w].node = n + 1
        /\ s \in Seq(StepStatus) /\ Len(s) = n /\ loc'[w].resuming = loc[w].resuming
        /\ graph' = [graph EXCEPT ![t] = [next |-> n + 1, steps |-> s]]
        /\ ActsOn(t, n)
        /\ UNCHANGED <<run, tokens, overlapped, crashes, answers>>
    BY <1>5, RunNodeDoes
  <2>2. IsRecord(loc[w].mem) /\ (~loc[w].resuming => loc[w].mem.status = "running")
    BY <1>h, <2>1 DEF InFlight, AtRest, TypeInv, PhaseOf
  <2> HIDE DEF t, n, s
  <2>3. n + 1 \in 1..Len(Kind) + 1 /\ n = (n + 1) - 1 /\ (n # Len(Kind) => n + 1 \in Nodes)
    BY <2>1, Sizes DEF Nodes
  <2>4. PhaseOf(w)'
    BY <2>1, <2>2, <2>3 DEF PhaseOf, s
  <2>5. GraphTyped'
    BY <2>1, <2>3, CheckpointSet
  <2>6. ran' \in [Tables -> [Nodes -> Nat]]
    BY <2>1, RanCounts
  <2> QED
    BY <2>1, <2>4, <2>5, <2>6, KeptTyped, OnlyTyped
<1>6. CASE PauseTable(w)
  <2>1. /\ Only(w) /\ pc[w] = "node" /\ run' \in RunType /\ Awaits(run')
        /\ run'.paused = loc[w].tab /\ run'.pending = loc[w].node
        /\ loc[w].resuming => pc'[w] = "ended"
        /\ ~loc[w].resuming => pc'[w] = "final" /\ loc'[w].mem = run'
        /\ UNCHANGED <<graph, tokens, ran, overlapped, crashes, answers>>
    BY <1>6, PauseTableDoes
  <2>2. loc[w].tab \in Tables /\ loc[w].node \in Nodes
    BY <2>1 DEF TypeInv, PhaseOf
  <2>3. IsRecord(run')
    BY <2>1, <2>2 DEF IsRecord
  <2>4. CASE loc[w].resuming
    <3>1. PhaseOf(w)'
      BY <2>1, <2>4, RestIsTyped DEF AtRest
    <3> QED
      BY <2>1, <2>3, <3>1, KeptTyped, OnlyTyped
  <2>5. CASE ~loc[w].resuming
    <3>1. PhaseOf(w)'
      BY <2>1, <2>3, <2>5 DEF PhaseOf
    <3> QED
      BY <2>1, <2>3, <3>1, KeptTyped, OnlyTyped
  <2> QED
    BY <2>4, <2>5
<1>7. CASE FailTable(w)
  <2>1. Only(w) /\ UNCHANGED <<graph, ran, overlapped, crashes, answers>>
    BY <1>7, FailTableDoes
  <2>2. CASE loc[w].resuming
    <3>1. pc'[w] = "ended" /\ run' \in RunType /\ run'.status = "failed" /\ TokenKept
      BY <1>7, <2>2, FailTableDoes
    <3>2. IsRecord(run')
      BY <3>1, NotAwaiting DEF Terminal
    <3>3. PhaseOf(w)'
      BY <3>1, RestIsTyped DEF AtRest
    <3> QED
      BY <2>1, <3>1, <3>2, <3>3, KeptTyped, OnlyTyped
  <2>3. CASE ~loc[w].resuming
    <3>1. /\ pc'[w] = "final" /\ UNCHANGED <<run, tokens>>
          /\ loc'[w].mem \in RunType /\ loc'[w].mem.status = "failed"
      BY <1>7, <2>3, FailTableDoes
    <3>2. IsRecord(loc'[w].mem)
      BY <3>1, NotAwaiting DEF Terminal
    <3>3. PhaseOf(w)'
      BY <3>1, <3>2 DEF PhaseOf
    <3> QED
      BY <2>1, <3>1, <3>3, KeptTyped, OnlyTyped
  <2> QED
    BY <2>2, <2>3
<1>8. CASE FinishTable(w)
  <2>1. /\ Only(w) /\ Rest(w) /\ pc[w] \in {"finished", "node"} /\ loc[w].tab \in Tables
        /\ loc'[w].mem \in RunType /\ loc'[w].mem.status = loc[w].mem.status
        /\ UNCHANGED <<graph, tokens, ran, overlapped, crashes, answers>>
    BY <1>8, FinishTableDoes
  <2>2. IsRecord(loc[w].mem) /\ loc[w].tab \in 0..NumTables
        /\ (~loc[w].resuming => loc[w].mem.status = "running")
    BY <1>h, <2>1, Sizes DEF InFlight, AtRest, TypeInv, PhaseOf, Tables
  <2>3. CASE loc[w].resuming
    <3>1. /\ pc'[w] = "continue" /\ UNCHANGED run
          /\ loc'[w].mem.paused = loc[w].mem.paused /\ loc'[w].mem.pending = loc[w].mem.pending
      BY <1>8, <2>3, FinishTableDoes
    <3>2. IsRecord(loc'[w].mem)
      BY <2>1, <2>2, <3>1 DEF IsRecord, Awaits
    <3>3. PhaseOf(w)'
      BY <2>1, <2>2, <3>1, <3>2 DEF PhaseOf, Rest
    <3> QED
      BY <2>1, <3>1, <3>3, KeptTyped, OnlyTyped
  <2>4. CASE ~loc[w].resuming
    <3>1. pc'[w] = "table" /\ run' = loc'[w].mem
      BY <1>8, <2>4, FinishTableDoes
    <3>2. IsRecord(loc'[w].mem)
      BY <2>1, <2>2, <2>4, NotAwaiting
    <3>3. PhaseOf(w)'
      BY <2>1, <2>2, <2>4, <3>1, <3>2 DEF PhaseOf, Rest
    <3> QED
      BY <2>1, <3>1, <3>2, <3>3, KeptTyped, OnlyTyped
  <2> QED
    BY <2>3, <2>4
<1>9. CASE SeqStart(w)
  <2>1. /\ Only(w) /\ pc'[w] = "step" /\ loc'[w].tab \in Tables /\ loc'[w].node \in Nodes
        /\ loc'[w].mem \in RunType /\ loc'[w].mem.status = "running" /\ run' = loc'[w].mem
        /\ UNCHANGED <<graph, tokens, ran, overlapped, crashes, answers>>
    BY <1>9, SeqStartDoes
  <2>2. IsRecord(loc'[w].mem)
    BY <2>1, NotAwaiting
  <2>3. PhaseOf(w)'
    BY <2>1, <2>2 DEF PhaseOf
  <2> QED
    BY <2>1, <2>2, <2>3, KeptTyped, OnlyTyped
<1>10. CASE SeqStep(w)
  <2> DEFINE t == loc[w].tab
             n == loc[w].node
  <2>1. /\ Only(w) /\ t \in Tables /\ n \in Nodes
        /\ pc'[w] = (IF n = Len(Kind) /\ t = NumTables THEN "final" ELSE "seq")
        /\ loc'[w].mem \in RunType
        /\ loc'[w].mem.status = (IF n = Len(Kind) /\ t = NumTables THEN "completed" ELSE "running")
        /\ loc'[w].tab = (IF n = Len(Kind) THEN t + 1 ELSE t)
        /\ loc'[w].node = (IF n = Len(Kind) THEN 0 ELSE n)
        /\ run' \in RunType /\ run'.status = "running"
        /\ ActsOn(t, n)
        /\ UNCHANGED <<graph, tokens, overlapped, crashes, answers>>
    BY <1>10, SeqStepDoes
  <2> HIDE DEF t, n
  <2>2. IsRecord(loc'[w].mem) /\ IsRecord(run')
    BY <2>1, NotAwaiting DEF Terminal
  <2>3. /\ n \in 0..Len(Kind) /\ (n # Len(Kind) => n \in 0..Len(Kind) - 1)
        /\ t \in 0..NumTables /\ (t # NumTables => t + 1 \in 0..NumTables)
        /\ t # 0 /\ t + 1 # 0 /\ 0 \in 0..Len(Kind) - 1
    BY <2>1, Sizes DEF Nodes, Tables
  <2>4. PhaseOf(w)'
    BY <2>1, <2>2, <2>3 DEF PhaseOf
  <2>5. ran' \in [Tables -> [Nodes -> Nat]]
    BY <2>1, RanCounts
  <2> QED
    BY <2>1, <2>2, <2>4, <2>5, KeptTyped, OnlyTyped
<1> QED
  BY <1>1, <1>2, <1>3, <1>4, <1>5, <1>6, <1>7, <1>8, <1>9, <1>10 DEF Works

LEMMA StartTyped ==
    ASSUME TypeInv,
           \/ \E w \in Batches : RunBatch(w)
           \/ \E w \in Recoveries : Recover(w)
           \/ \E w \in Resumes, answer \in Answers : ResumeBatch(w, answer)
    PROVE  TypeInv'
<1>1. CASE \E w \in Batches : RunBatch(w)
  <2> PICK w \in Batches : RunBatch(w)
    BY <1>1
  <2>1. /\ w \in Workers /\ Only(w) /\ pc'[w] \in {"continue", "seq"} /\ TakesToken(w)
        /\ loc'[w].mem = NewRun /\ loc'[w].tab = 0 /\ loc'[w].node = 0 /\ run' = NewRun
        /\ UNCHANGED <<graph, ran, crashes, answers>>
    BY RunBatchDoes, Callers
  <2>2. IsRecord(NewRun) /\ NewRun.status = "running" /\ 0 \in 0..NumTables /\ 0 \in 0..Len(Kind) - 1
    BY NewRunIsRecord, Sizes
  <2>3. PhaseOf(w)'
    BY <2>1, <2>2 DEF PhaseOf
  <2>4. TokensTyped' /\ overlapped' \in BOOLEAN
    BY <2>1, StartsTyped
  <2> QED
    BY <2>1, <2>2, <2>3, <2>4, KeptTyped, OnlyTyped
<1>2. CASE \E w \in Recoveries : Recover(w)
  <2> PICK w \in Recoveries : Recover(w)
    BY <1>2
  <2>1. /\ w \in Workers /\ Only(w) /\ pc'[w] = "continue" /\ TakesToken(w)
        /\ run # None /\ loc'[w].mem = run /\ loc'[w].tab = run.last
        /\ UNCHANGED <<run, graph, ran, crashes, answers>>
    BY RecoverDoes, Callers
  <2>2. IsRecord(run) /\ run.last \in 0..NumTables
    BY <2>1 DEF TypeInv, VarsTyped, IsRecord, RunType
  <2>3. PhaseOf(w)'
    BY <2>1, <2>2 DEF PhaseOf
  <2>4. TokensTyped' /\ overlapped' \in BOOLEAN
    BY <2>1, StartsTyped
  <2> QED
    BY <2>1, <2>2, <2>3, <2>4, KeptTyped, OnlyTyped
<1>3. CASE \E w \in Resumes, answer \in Answers : ResumeBatch(w, answer)
  <2> PICK w \in Resumes, answer \in Answers : ResumeBatch(w, answer)
    BY <1>3
  <2> DEFINE t == run.paused
             g == graph[t]
             l == loc'[w]
  <2>1. /\ w \in Workers /\ Only(w) /\ TakesToken(w) /\ t \in Tables
        /\ run # None /\ l.mem = run /\ l.tab = t /\ l.resuming = TRUE
        /\ g = None => pc'[w] = "lost"
        /\ g # None => /\ pc'[w] = (IF g.next > Len(Kind) THEN "finished" ELSE "node")
                       /\ l.node = g.next
                       /\ l.node \in 1..Len(Kind) + 1 /\ Len(l.steps) = l.node - 1
        /\ answers' = answers + 1
        /\ UNCHANGED <<run, graph, ran, crashes>>
    BY ResumeBatchDoes, Callers
  <2>2. IsRecord(run) /\ answers' \in Nat
    BY <2>1 DEF TypeInv, VarsTyped
  <2> HIDE DEF g, t
  <2>3. g # None => \/ pc'[w] = "finished" /\ l.node = Len(Kind) + 1 /\ Len(l.steps) = Len(Kind)
                    \/ pc'[w] = "node" /\ l.node \in Nodes /\ Len(l.steps) = l.node - 1
    BY <2>1, Sizes DEF Nodes
  <2>4. PhaseOf(w)'
    <3>1. CASE g = None
      BY <2>1, <2>2, <3>1 DEF PhaseOf
    <3>2. CASE g # None
      BY <2>1, <2>2, <2>3, <3>2 DEF PhaseOf
    <3> QED
      BY <3>1, <3>2
  <2>5. TokensTyped' /\ overlapped' \in BOOLEAN
    BY <2>1, StartsTyped
  <2> QED
    BY <2>1, <2>2, <2>4, <2>5, KeptTyped, OnlyTyped
<1> QED
  BY <1>1, <1>2, <1>3

LEMMA CancelTyped ==
    ASSUME TypeInv, NEW c \in Cancels, CancelLoad(c) \/ CancelToken(c) \/ CancelSave(c)
    PROVE  TypeInv'
<1>1. /\ OnlyCancel(c) /\ pc'[c] \in {"refused", "token", "save", "ended"}
      /\ pc'[c] \in {"token", "save"} => copy'[c] \in RunType
      /\ TokensTyped' /\ (run' # None => IsRecord(run'))
  <2>1. CASE pc[c] = "idle" /\ run # None /\ UNCHANGED <<run, tokens>>
             /\ (\/ pc'[c] = "refused" /\ copy'[c] = copy[c]
                 \/ pc'[c] = "token" /\ copy'[c] = run)
    BY <2>1, CancelDoes, KeptTyped DEF TypeInv, VarsTyped, IsRecord
  <2>2. CASE pc[c] = "token" /\ pc'[c] = "save" /\ UNCHANGED run /\ copy'[c] = copy[c]
             /\ TokensTyped'
    BY <2>2, CancelDoes, KeptTyped DEF TypeInv, VarsTyped
  <2>3. CASE pc[c] = "save" /\ pc'[c] = "ended" /\ UNCHANGED tokens
             /\ run' \in RunType /\ run'.status = "cancelled"
    BY <2>3, CancelDoes, KeptTyped, NotAwaiting DEF Terminal
  <2> QED
    BY <2>1, <2>2, <2>3, CancelDoes DEF TokensTyped
<1>2. /\ mode' \in Modes /\ durable' \in BOOLEAN /\ GraphTyped' /\ loc' \in [Workers -> Hold]
      /\ ran' \in [Tables -> [Nodes -> Nat]] /\ crashes' \in Nat /\ answers' \in Nat
      /\ overlapped' \in BOOLEAN
  BY <1>1, KeptTyped DEF OnlyCancel, TypeInv, VarsTyped
<1>3. /\ \A w \in Workers : pc'[w] \in WorkerLabels
      /\ \A d \in Cancels : pc'[d] \in CancelLabels
      /\ \A d \in Cancels : pc'[d] \in {"token", "save"} => copy'[d] \in RunType
  BY <1>1 DEF OnlyCancel, TypeInv, VarsTyped
<1>4. ASSUME NEW w \in Workers
      PROVE  PhaseOf(w)'
  <2>1. PhaseOf(w) /\ loc' = loc /\ pc'[w] = pc[w]
    BY <1>1 DEF TypeInv, OnlyCancel
  <2> QED
    BY <2>1 DEF PhaseOf, InFlight
<1> QED
  BY <1>1, <1>2, <1>3, <1>4 DEF TypeInv, VarsTyped, OnlyCancel

LEMMA CrashTyped ==
    ASSUME TypeInv, Crash
    PROVE  TypeInv'
<1>1. /\ pc' \in [Workers \cup Cancels -> WorkerLabels \cup CancelLabels]
      /\ \A c \in Workers \cup Cancels : pc'[c] = "died" \/ (~InFlight(c) /\ pc'[c] = pc[c])
      /\ loc' = [w \in Workers |-> NoLoc] /\ copy' = [c \in Cancels |-> None]
      /\ crashes' = crashes + 1 /\ TokenKept
      /\ graph' \in {graph, NoGraphs}
      /\ UNCHANGED <<mode, durable, run, ran, unapproved, broken, overlapped, answers>>
  BY CrashDoes
<1>2. \A c \in Workers \cup Cancels : pc'[c] \in AtRest
  BY <1>1 DEF InFlight, AtRest
<1>3. \A w \in Workers : PhaseOf(w)'
  BY <1>2, RestIsTyped
<1>4. /\ \A w \in Workers : pc'[w] \in WorkerLabels
      /\ \A c \in Cancels : pc'[c] \in CancelLabels
      /\ \A c \in Cancels : pc'[c] \notin {"token", "save"}
  BY <1>2 DEF AtRest, WorkerLabels, CancelLabels
<1>5. loc' \in [Workers -> Hold] /\ copy' \in [Cancels -> RunType \cup {None}]
  BY <1>1, NoLocIsTyped
<1>6. /\ GraphTyped' /\ TokensTyped' /\ (run' # None => IsRecord(run'))
      /\ ran' \in [Tables -> [Nodes -> Nat]] /\ answers' \in Nat /\ overlapped' \in BOOLEAN
  BY <1>1, KeptTyped
<1>7. mode' \in Modes /\ durable' \in BOOLEAN /\ crashes' \in Nat
  BY <1>1 DEF TypeInv, VarsTyped
<1> QED
  BY <1>1, <1>3, <1>4, <1>5, <1>6, <1>7 DEF TypeInv, VarsTyped

LEMMA StepTyped == TypeInv /\ [Next]_vars => TypeInv'
<1> SUFFICES ASSUME TypeInv, [Next]_vars
             PROVE  TypeInv'
  OBVIOUS
<1>1. CASE Next
  BY <1>1, StartTyped, WorkTyped, CancelTyped, CrashTyped DEF Next
<1>2. CASE UNCHANGED vars
  BY <1>2 DEF vars, disk, history, bounds, TypeInv, VarsTyped, GraphTyped, TokensTyped,
              PhaseOf, InFlight
<1> QED
  BY <1>1, <1>2

LEMMA TypesHold == Spec => []TypeInv
BY InitTyped, StepTyped, PTL DEF Spec

\* The record of a batch, its checkpoints and tokens and what the callers hold
\* keep their shape whatever the callers do (batch_executor.py).
THEOREM BatchTypeCorrect == Spec => []TypeOK
<1>1. TypeInv => TypeOK
  BY DEF TypeInv, VarsTyped, GraphTyped, TokensTyped, TokenType, Hold, IsRecord, TypeOK
<1> QED
  BY <1>1, TypesHold, PTL

-------------------------------------------------------------------------------
(* The work behind the checkpoints and in the ledger. *)

\* The steps a worker holds are those of nodes that ran on its table.
StepsRan(w) ==
    pc[w] \in {"node", "finished"} => \A i \in Nodes : i < loc[w].node => ran[loc[w].tab][i] > 0

GraphRan ==
    \A t \in Tables : graph[t] # None => \A i \in Nodes : i < graph[t].next => ran[t][i] > 0

StepsInv == GraphRan /\ \A w \in Workers : StepsRan(w)

\* What ran has run.
RanGrows == \A t \in Tables, n \in Nodes : ran[t][n] <= ran'[t][n]

LEMMA KeptGrows ==
    ASSUME TypeInv, UNCHANGED ran
    PROVE  RanGrows
BY DEF RanGrows, TypeInv, VarsTyped

LEMMA ActsGrows ==
    ASSUME TypeInv, NEW t \in Tables, NEW n \in Nodes, ActsOn(t, n)
    PROVE  RanGrows /\ ran'[t][n] > 0
<1>1. /\ ran \in [Tables -> [Nodes -> Nat]]
      /\ \A u \in Tables, i \in Nodes :
            ran'[u][i] = IF u = t /\ i = n THEN ran[u][i] + 1 ELSE ran[u][i]
  BY RanCounts DEF TypeInv, VarsTyped
<1>2. \A u \in Tables, i \in Nodes : ran[u][i] \in Nat
  BY <1>1
<1> QED
  BY <1>1, <1>2 DEF RanGrows

LEMMA GrowsKeepsRan ==
    ASSUME TypeInv, TypeInv', RanGrows
    PROVE  \A t \in Tables, n \in Nodes : ran[t][n] > 0 => ran'[t][n] > 0
<1>1. \A t \in Tables, n \in Nodes : ran[t][n] \in Nat /\ ran'[t][n] \in Nat
  BY DEF TypeInv, VarsTyped
<1> QED
  BY <1>1 DEF RanGrows

\* Every step of a worker, in the few facts the ledger needs: it enters a
\* table, runs a node, or leaves checkpoints and nodes alone.
LEMMA WorkEffects ==
    ASSUME TypeInv, NEW w \in Workers, Works(w)
    PROVE  /\ Only(w) /\ RanGrows /\ broken \subseteq broken'
           /\ InFlight(w) /\ pc'[w] # "idle" /\ (run' = run \/ run' \in RunType)
           /\ UNCHANGED <<overlapped, crashes, answers>>
           /\ \/ BeginTable(w) \/ RunNode(w)
              \/ graph' \in {graph, NoGraphs} /\ pc'[w] \notin {"node", "finished"}
<1> USE DEF InFlight, AtRest
<1>1. CASE BeginTable(w)
  BY <1>1, BeginTableDoes, KeptGrows
<1>2. CASE RunNode(w)
  <2> PICK t \in Tables, n \in Nodes : t = loc[w].tab /\ n = loc[w].node
    BY <1>2, RunNodeDoes
  <2>1. /\ ActsOn(t, n) /\ Only(w) /\ pc[w] = "node" /\ pc'[w] \in {"node", "finished"}
        /\ UNCHANGED <<run, overlapped, crashes, answers>>
    BY <1>2, RunNodeDoes
  <2> QED
    BY <1>2, <2>1, ActsGrows DEF ActsOn
<1>3. CASE Continue(w)
  BY <1>3, ContinueDoes, KeptGrows
<1>4. CASE RejectSpec(w) \/ BatchCancelled(w) \/ BatchCompletes(w) \/ SeqCancelled(w) \/ SeqFails(w)
  BY <1>4, StopsDoes, KeptGrows
<1>5. CASE Final(w)
  BY <1>5, FinalDoes, KeptGrows
<1>6. CASE PauseTable(w)
  <2>1. /\ Only(w) /\ pc[w] = "node" /\ pc'[w] \in {"ended", "final"} /\ run' \in RunType
    BY <1>6, PauseTableDoes DEF TypeInv, VarsTyped, Hold
  <2> QED
    BY <1>6, <2>1, PauseTableDoes, KeptGrows
<1>7. CASE FailTable(w)
  <2>1. /\ Only(w) /\ pc[w] \in {"node", "lost"} /\ pc'[w] \in {"ended", "final"}
        /\ run' = run \/ run' \in RunType
    BY <1>7, FailTableDoes DEF TypeInv, VarsTyped, Hold
  <2> QED
    BY <1>7, <2>1, FailTableDoes, KeptGrows
<1>8. CASE FinishTable(w)
  <2>1. /\ Only(w) /\ pc[w] \in {"node", "finished"} /\ pc'[w] \in {"continue", "table"}
        /\ run' = run \/ run' \in RunType
    BY <1>8, FinishTableDoes DEF TypeInv, VarsTyped, Hold
  <2> QED
    BY <1>8, <2>1, FinishTableDoes, KeptGrows
<1>9. CASE SeqStart(w)
  BY <1>9, SeqStartDoes, KeptGrows
<1>10. CASE SeqStep(w)
  <2> PICK t \in Tables, n \in Nodes : t = loc[w].tab /\ n = loc[w].node
    BY <1>10, SeqStepDoes
  <2>1. /\ ActsOn(t, n) /\ Only(w) /\ pc[w] = "step" /\ pc'[w] \in {"final", "seq"}
        /\ run' \in RunType /\ UNCHANGED <<graph, overlapped, crashes, answers>>
    BY <1>10, SeqStepDoes
  <2> QED
    BY <2>1, ActsGrows DEF ActsOn
<1> QED
  BY <1>1, <1>2, <1>3, <1>4, <1>5, <1>6, <1>7, <1>8, <1>9, <1>10 DEF Works

\* Checkpoints only claim what ran while they are kept or dropped.
LEMMA GraphStaysRan ==
    ASSUME TypeInv, TypeInv', StepsInv, RanGrows, graph' \in {graph, NoGraphs}
    PROVE  GraphRan'
<1>1. \A t \in Tables, n \in Nodes : ran[t][n] > 0 => ran'[t][n] > 0
  BY GrowsKeepsRan
<1>2. CASE graph' = graph
  BY <1>1, <1>2 DEF StepsInv, GraphRan
<1>3. CASE graph' = NoGraphs
  BY <1>3 DEF NoGraphs, GraphRan
<1> QED
  BY <1>2, <1>3

\* Other workers' steps stay those of nodes that ran.
LEMMA OthersStayRan ==
    ASSUME TypeInv, TypeInv', StepsInv, RanGrows, NEW v \in Workers,
           loc'[v] = loc[v], pc'[v] = pc[v]
    PROVE  StepsRan(v)'
<1>1. \A t \in Tables, n \in Nodes : ran[t][n] > 0 => ran'[t][n] > 0
  BY GrowsKeepsRan
<1>2. pc[v] \in {"node", "finished"} => loc[v].tab \in Tables
  BY DEF TypeInv, PhaseOf
<1> QED
  BY <1>1, <1>2 DEF StepsInv, StepsRan

LEMMA StepsKept == TypeInv /\ TypeInv' /\ StepsInv /\ [Next]_vars => StepsInv' /\ RanGrows
                   /\ broken \subseteq broken'
<1> SUFFICES ASSUME TypeInv, TypeInv', StepsInv, [Next]_vars
             PROVE  StepsInv' /\ RanGrows /\ broken \subseteq broken'
  OBVIOUS
<1>1. ASSUME NEW w \in Workers, Works(w)
      PROVE  StepsInv' /\ RanGrows /\ broken \subseteq broken'
  <2>1. /\ Only(w) /\ RanGrows /\ broken \subseteq broken'
        /\ \/ BeginTable(w) \/ RunNode(w)
           \/ graph' \in {graph, NoGraphs} /\ pc'[w] \notin {"node", "finished"}
    BY <1>1, WorkEffects
  <2>2. \A v \in Workers \ {w} : StepsRan(v)'
    BY <2>1, OthersStayRan DEF Only
  <2>3. \A t \in Tables, n \in Nodes : ran[t][n] > 0 => ran'[t][n] > 0
    BY <2>1, GrowsKeepsRan
  <2>4. GraphRan' /\ StepsRan(w)'
    <3>1. CASE graph' \in {graph, NoGraphs} /\ pc'[w] \notin {"node", "finished"}
      BY <2>1, <3>1, GraphStaysRan DEF StepsRan
    <3>2. CASE BeginTable(w)
      <4> DEFINE t == loc'[w].tab
      <4>1. t \in Tables /\ loc'[w].node = 1 /\ graph' = [graph EXCEPT ![t] = Fresh]
        BY <3>2, BeginTableDoes
      <4>2. Fresh.next = 1 /\ \A i \in Nodes : ~(i < 1)
        BY Sizes DEF Nodes, Fresh
      <4> HIDE DEF t
      <4>3. GraphRan'
        BY <2>3, <4>1, <4>2 DEF StepsInv, GraphRan, TypeInv, VarsTyped, GraphTyped
      <4>4. StepsRan(w)'
        BY <4>1, <4>2 DEF StepsRan
      <4> QED
        BY <4>3, <4>4
    <3>3. CASE RunNode(w)
      <4> PICK t \in Tables, n \in Nodes : t = loc[w].tab /\ n = loc[w].node
        BY <3>3, RunNodeDoes
      <4> DEFINE g == [next |-> n + 1, steps |-> loc'[w].steps]
      <4>1. /\ pc[w] = "node" /\ ActsOn(t, n)
            /\ loc'[w].tab = t /\ loc'[w].node = n + 1
            /\ graph' = [graph EXCEPT ![t] = g]
        BY <3>3, RunNodeDoes
      <4>2. ran'[t][n] > 0 /\ g.next = n + 1 /\ StepsRan(w)
        BY <4>1, ActsGrows DEF StepsInv
      <4> HIDE DEF g
      <4>3. \A i \in Nodes : i < n + 1 => i = n \/ i < n
        BY <4>1, Sizes DEF Nodes
      <4>4. \A i \in Nodes : i < n + 1 => ran'[t][i] > 0
        BY <2>3, <4>1, <4>2, <4>3 DEF StepsRan
      <4>5. GraphRan'
        BY <2>3, <4>1, <4>2, <4>4 DEF StepsInv, GraphRan, TypeInv, VarsTyped, GraphTyped
      <4>6. StepsRan(w)'
        BY <4>1, <4>4 DEF StepsRan
      <4> QED
        BY <4>5, <4>6
    <3> QED
      BY <2>1, <3>1, <3>2, <3>3
  <2> QED
    BY <2>1, <2>2, <2>4 DEF StepsInv
<1>2. ASSUME NEW w \in Workers, Only(w), UNCHANGED <<graph, ran, broken>>, StepsRan(w)'
      PROVE  StepsInv' /\ RanGrows /\ broken \subseteq broken'
  <2>1. RanGrows
    BY <1>2, KeptGrows
  <2>2. \A v \in Workers \ {w} : StepsRan(v)'
    BY <1>2, <2>1, OthersStayRan DEF Only
  <2> QED
    BY <1>2, <2>1, <2>2, GraphStaysRan DEF StepsInv
<1>3. ASSUME NEW w \in Batches, RunBatch(w)
      PROVE  StepsInv' /\ RanGrows /\ broken \subseteq broken'
  BY <1>2, <1>3, RunBatchDoes, Callers DEF StepsRan
<1>4. ASSUME NEW w \in Recoveries, Recover(w)
      PROVE  StepsInv' /\ RanGrows /\ broken \subseteq broken'
  BY <1>2, <1>4, RecoverDoes, Callers DEF StepsRan
<1>5. ASSUME NEW w \in Resumes, NEW answer \in Answers, ResumeBatch(w, answer)
      PROVE  StepsInv' /\ RanGrows /\ broken \subseteq broken'
  <2>0. run.paused \in Tables
    BY <1>5, ResumeBatchDoes
  <2> PICK t \in Tables : t = run.paused
    BY <2>0
  <2> PICK g : g = graph[t]
    OBVIOUS
  <2>1. /\ w \in Workers /\ Only(w) /\ loc'[w].tab = t
        /\ g = None => pc'[w] = "lost"
        /\ g # None => loc'[w].node = g.next
        /\ UNCHANGED <<graph, ran, broken>>
    BY <1>5, ResumeBatchDoes, Callers
  <2>2. g # None => \A i \in Nodes : i < g.next => ran'[t][i] > 0
    BY <2>1 DEF StepsInv, GraphRan
  <2>3. StepsRan(w)'
    <3>1. CASE g = None
      BY <2>1, <3>1 DEF StepsRan
    <3>2. CASE g # None
      BY <2>1, <2>2, <3>2 DEF StepsRan
    <3> QED
      BY <3>1, <3>2
  <2> QED
    BY <1>2, <2>1, <2>3
<1>6. ASSUME NEW c \in Cancels, CancelLoad(c) \/ CancelToken(c) \/ CancelSave(c)
      PROVE  StepsInv' /\ RanGrows /\ broken \subseteq broken'
  <2>1. OnlyCancel(c)
    BY <1>6, CancelDoes
  <2>2. RanGrows
    BY <2>1, KeptGrows DEF OnlyCancel
  <2>3. \A v \in Workers : StepsRan(v)'
    BY <2>1, <2>2, OthersStayRan DEF OnlyCancel
  <2>4. GraphRan'
    BY <2>1, <2>2, GraphStaysRan DEF OnlyCancel
  <2> QED
    BY <2>1, <2>2, <2>3, <2>4 DEF StepsInv, OnlyCancel
<1>7. CASE Crash
  <2>1. /\ \A w \in Workers : pc'[w] \in AtRest
        /\ graph' \in {graph, NoGraphs} /\ UNCHANGED <<ran, broken>>
    BY <1>7, CrashDoes DEF InFlight, AtRest
  <2>2. RanGrows
    BY <2>1, KeptGrows
  <2> QED
    BY <2>1, <2>2, GraphStaysRan DEF StepsInv, StepsRan, AtRest
<1>8. CASE UNCHANGED vars
  <2>1. UNCHANGED <<graph, ran, broken, loc, pc>>
    BY <1>8 DEF vars, disk, history
  <2>2. RanGrows
    BY <2>1, KeptGrows
  <2> QED
    BY <2>1, <2>2, GraphStaysRan, OthersStayRan DEF StepsInv
<1> QED
  BY <1>1, <1>3, <1>4, <1>5, <1>6, <1>7, <1>8 DEF Next

-------------------------------------------------------------------------------
(* What the ledger says was done, in pipelines whose kinds are distinct. *)

\* No step is taken for that of another node.
KindsAreDistinct == \A i, n \in Nodes : StepKind(Kind[i]) = Kind[n] => i = n

\* The tasks a record shows as ended have run, going by the counts in q.
Backed(r, q) == \A t \in Tables, n \in Nodes : r.tasks[t][n] \in StepStatus => q[t][n] > 0

LedgerInv ==
    /\ run # None => Backed(run, ran)
    /\ \A w \in Workers : loc[w].mem # None => Backed(loc[w].mem, ran)
    /\ \A c \in Cancels : copy[c] # None => Backed(copy[c], ran)

LEMMA BackedGrows ==
    ASSUME TypeInv, TypeInv', RanGrows
    PROVE  \A r : Backed(r, ran) => Backed(r, ran')
BY GrowsKeepsRan DEF Backed

\* Of two records with these tasks, what backs one backs the other.
LEMMA BackedFollows ==
    ASSUME NEW r, NEW m, NEW q, Backed(m, q), ClaimsNoMore(r, m) \/ r.tasks = m.tasks
    PROVE  Backed(r, q)
BY DEF Backed, ClaimsNoMore

LEMMA SyncedIsBacked ==
    ASSUME KindsAreDistinct, TypeInv, StepsInv, NEW w \in Workers, pc[w] \in {"node", "finished"},
           Backed(loc[w].mem, ran), NEW r, r.tasks = Synced(w)
    PROVE  Backed(r, ran)
<1> DEFINE s == Synced(w)
           m == loc[w].mem
           l == loc[w]
<1>1. /\ \A t \in Tables \ {l.tab} : s[t] = m.tasks[t]
      /\ \A n \in Nodes : \/ s[l.tab][n] = m.tasks[l.tab][n]
                          \/ \E i \in 1..Len(l.steps) : StepKind(Kind[i]) = Kind[n]
  BY SyncedDoes
<1>2. l.tab \in Tables /\ Len(l.steps) = l.node - 1 /\ l.node \in 1..Len(Kind) + 1
  BY Sizes DEF TypeInv, PhaseOf, Nodes
<1>3. \A i \in Nodes : i < l.node => ran[l.tab][i] > 0
  BY DEF StepsInv, StepsRan
<1> HIDE DEF s, m, l
<1>4. ASSUME NEW n \in Nodes, NEW i \in 1..Len(l.steps), StepKind(Kind[i]) = Kind[n]
      PROVE  ran[l.tab][n] > 0
  <2>1. i \in Nodes /\ i < l.node
    BY <1>2, Sizes DEF Nodes
  <2>2. i = n
    BY <1>4, <2>1 DEF KindsAreDistinct
  <2> QED
    BY <1>3, <2>1, <2>2
<1>5. ASSUME NEW t \in Tables, NEW n \in Nodes, s[t][n] \in StepStatus
      PROVE  ran[t][n] > 0
  <2>1. CASE s[t][n] = m.tasks[t][n]
    BY <1>5, <2>1 DEF Backed, m
  <2>2. CASE s[t][n] # m.tasks[t][n]
    BY <1>1, <1>4, <2>2
  <2> QED
    BY <2>1, <2>2
<1> QED
  BY <1>5 DEF Backed, s

\* A step of a worker leaves it and the disk with records that are backed.
LEMMA WorkLedger ==
    ASSUME KindsAreDistinct, TypeInv, TypeInv', StepsInv, LedgerInv, NEW w \in Workers, Works(w)
    PROVE  /\ run' # None => Backed(run', ran')
           /\ loc'[w].mem # None => Backed(loc'[w].mem, ran')
<1>1. Only(w) /\ RanGrows
  BY WorkEffects
<1>2. \A r : Backed(r, ran) => Backed(r, ran')
  BY <1>1, BackedGrows
<1>3. /\ run # None => Backed(run, ran')
      /\ loc[w].mem # None => Backed(loc[w].mem, ran')
  BY <1>2 DEF LedgerInv
<1>4. InFlight(w) => loc[w].mem # None /\ Backed(loc[w].mem, ran) /\ Backed(loc[w].mem, ran')
  BY <1>2, InFlightHolds, NoneIsNoValue DEF LedgerInv
<1>5. NoLoc.mem = None
  BY NoLocIsTyped
<1>6. CASE Continue(w)
  BY <1>4, <1>6, ContinueDoes, BackedFollows DEF InFlight, AtRest
<1>7. CASE BeginTable(w)
  BY <1>3, <1>7, BeginTableDoes
<1>8. CASE RejectSpec(w) \/ BatchCancelled(w) \/ BatchCompletes(w) \/ SeqCancelled(w) \/ SeqFails(w)
  BY <1>3, <1>4, <1>8, StopsDoes, BackedFollows DEF InFlight, AtRest
<1>9. CASE Final(w)
  BY <1>3, <1>5, <1>9, FinalDoes
<1>10. CASE RunNode(w)
  BY <1>3, <1>10, RunNodeDoes
<1>11. CASE PauseTable(w)
  <2>1. /\ pc[w] = "node" /\ run'.tasks = Synced(w)
        /\ loc'[w] = NoLoc \/ loc'[w].mem = run'
    BY <1>11, PauseTableDoes DEF TypeInv, VarsTyped, Hold
  <2>2. Backed(run', ran)
    BY <1>4, <2>1, SyncedIsBacked DEF InFlight, AtRest
  <2> QED
    BY <1>2, <1>5, <2>1, <2>2
<1>12. CASE FailTable(w)
  <2>1. Backed(loc[w].mem, ran')
    BY <1>4, <1>12, FailTableDoes DEF InFlight, AtRest
  <2>2. CASE loc[w].resuming
    BY <1>5, <1>12, <2>1, <2>2, FailTableDoes, BackedFollows
  <2>3. CASE ~loc[w].resuming
    BY <1>3, <1>12, <2>1, <2>3, FailTableDoes, BackedFollows
  <2> QED
    BY <2>2, <2>3
<1>13. CASE FinishTable(w)
  <2>1. /\ run' = run \/ run' = loc'[w].mem
        /\ \/ pc[w] = "finished" /\ loc'[w].mem.tasks = Synced(w)
           \/ pc[w] = "node" /\ loc'[w].mem.tasks = loc[w].mem.tasks
    BY <1>13, FinishTableDoes
  <2>2. Backed(loc'[w].mem, ran')
    <3>1. Backed(loc[w].mem, ran) /\ Backed(loc[w].mem, ran')
      BY <1>4, <2>1 DEF InFlight, AtRest
    <3>2. CASE pc[w] = "finished" /\ loc'[w].mem.tasks = Synced(w)
      BY <1>2, <3>1, <3>2, SyncedIsBacked
    <3> QED
      BY <2>1, <3>1, <3>2, BackedFollows
  <2> QED
    BY <1>3, <2>1, <2>2
<1>14. CASE SeqStart(w)
  BY <1>4, <1>14, SeqStartDoes, BackedFollows DEF InFlight, AtRest
<1>15. CASE SeqStep(w)
  <2> PICK t \in Tables, n \in Nodes : t = loc[w].tab /\ n = loc[w].node
    BY <1>15, SeqStepDoes
  <2>0. /\ pc[w] = "step" /\ ActsOn(loc[w].tab, loc[w].node) /\ run'.tasks = loc'[w].mem.tasks
        /\ \A u \in Tables, i \in Nodes : (u # loc[w].tab \/ i # loc[w].node) =>
              loc'[w].mem.tasks[u][i] = loc[w].mem.tasks[u][i]
    BY <1>15, SeqStepDoes
  <2>1. /\ pc[w] = "step" /\ ActsOn(t, n) /\ run'.tasks = loc'[w].mem.tasks
        /\ \A u \in Tables, i \in Nodes :
              (u # t \/ i # n) => loc'[w].mem.tasks[u][i] = loc[w].mem.tasks[u][i]
    BY <2>0
  <2>2. ran'[t][n] > 0 /\ Backed(loc[w].mem, ran')
    BY <1>4, <2>1, ActsGrows DEF InFlight, AtRest
  <2>3. Backed(loc'[w].mem, ran') /\ Backed(run', ran')
    BY <2>1, <2>2 DEF Backed
  <2> QED
    BY <2>3
<1> QED
  BY <1>6, <1>7, <1>8, <1>9, <1>10, <1>11, <1>12, <1>13, <1>14, <1>15 DEF Works

\* A step of one worker keeps the ledger backed if what it leaves is.
LEMMA OnlyLedger ==
    ASSUME TypeInv, TypeInv', LedgerInv, RanGrows, NEW w \in Workers, Only(w),
           run' # None => Backed(run', ran'),
           loc'[w].mem # None => Backed(loc'[w].mem, ran')
    PROVE  LedgerInv'
<1>1. \A r : Backed(r, ran) => Backed(r, ran')
  BY BackedGrows
<1>2. \A v \in Workers \ {w} : loc'[v].mem # None => Backed(loc'[v].mem, ran')
  BY <1>1 DEF LedgerInv, Only
<1>3. \A c \in Cancels : copy'[c] # None => Backed(copy'[c], ran')
  BY <1>1 DEF LedgerInv, Only
<1> QED
  BY <1>2, <1>3 DEF LedgerInv

LEMMA LedgerKept ==
    ASSUME KindsAreDistinct, TypeInv, TypeInv', StepsInv, LedgerInv, [Next]_vars
    PROVE  LedgerInv'
<1>1. RanGrows
  BY StepsKept
<1>2. \A r : Backed(r, ran) => Backed(r, ran')
  BY <1>1, BackedGrows
<1>3. ASSUME NEW w \in Workers, Works(w)
      PROVE  LedgerInv'
  BY <1>1, <1>3, WorkLedger, WorkEffects, OnlyLedger
<1>4. ASSUME NEW w \in Batches, RunBatch(w)
      PROVE  LedgerInv'
  <2>1. w \in Workers /\ Only(w) /\ run' = NewRun /\ loc'[w].mem = NewRun
    BY <1>4, RunBatchDoes, Callers
  <2>2. Backed(NewRun, ran')
    BY NewRunIsRecord DEF Backed, StepStatus
  <2> QED
    BY <1>1, <2>1, <2>2, OnlyLedger
<1>5. ASSUME NEW w \in Recoveries, Recover(w)
      PROVE  LedgerInv'
  <2>1. w \in Workers /\ Only(w) /\ run' = run /\ run # None /\ loc'[w].mem = run
    BY <1>5, RecoverDoes, Callers
  <2>2. Backed(run, ran')
    BY <1>2, <2>1 DEF LedgerInv
  <2> QED
    BY <1>1, <2>1, <2>2, OnlyLedger
<1>6. ASSUME NEW w \in Resumes, NEW answer \in Answers, ResumeBatch(w, answer)
      PROVE  LedgerInv'
  <2>1. w \in Workers /\ Only(w) /\ run' = run /\ run # None /\ loc'[w].mem = run
    BY <1>6, ResumeBatchDoes, Callers
  <2>2. Backed(run, ran')
    BY <1>2, <2>1 DEF LedgerInv
  <2> QED
    BY <1>1, <2>1, <2>2, OnlyLedger
<1>7. ASSUME NEW c \in Cancels, CancelLoad(c) \/ CancelToken(c) \/ CancelSave(c)
      PROVE  LedgerInv'
  <2>1. /\ OnlyCancel(c)
        /\ run' # None => run' = run \/ (copy[c] # None /\ run'.tasks = copy[c].tasks)
        /\ copy'[c] = copy[c] \/ copy'[c] = None \/ (run # None /\ copy'[c] = run)
    BY <1>7, CancelDoes, NoneIsNoValue
  <2>2. run' # None => Backed(run', ran')
    BY <1>2, <2>1, BackedFollows DEF LedgerInv
  <2>3. \A d \in Cancels : copy'[d] # None => Backed(copy'[d], ran')
    BY <1>2, <2>1 DEF LedgerInv, OnlyCancel
  <2>4. \A w \in Workers : loc'[w].mem # None => Backed(loc'[w].mem, ran')
    BY <1>2, <2>1 DEF LedgerInv, OnlyCancel
  <2> QED
    BY <2>2, <2>3, <2>4 DEF LedgerInv
<1>8. CASE Crash
  <2>1. /\ run' = run
        /\ \A w \in Workers : loc'[w].mem = None
        /\ \A c \in Cancels : copy'[c] = None
    BY <1>8, CrashDoes, NoLocIsTyped
  <2> QED
    BY <1>2, <2>1 DEF LedgerInv
<1>9. CASE UNCHANGED vars
  BY <1>2, <1>9 DEF vars, disk, LedgerInv
<1> QED
  BY <1>3, <1>4, <1>5, <1>6, <1>7, <1>8, <1>9 DEF Next

\* Every record shows only work that was done, whatever is recorded late,
\* crashes or is cancelled: neither the late saves of callers that know nothing
\* of each other nor the recovery of a batch claim what nobody did
\* (_sync_ledger_for_table, cancel_pending_tasks). With two nodes of one kind
\* the matching by kind lets one speak for the other.
THEOREM LedgerClaims ==
    ASSUME KindsAreDistinct
    PROVE  Spec => []LedgerClaimsOnlyWork
<1> DEFINE I == TypeInv /\ StepsInv /\ LedgerInv
<1>1. Init => I
  <2> SUFFICES ASSUME Init
               PROVE  I
    OBVIOUS
  <2>1. /\ TypeInv /\ run = None /\ \A t \in Tables : graph[t] = None
        /\ \A w \in Workers : pc[w] = "idle" /\ loc[w] = NoLoc
        /\ \A c \in Cancels : copy[c] = None
    BY InitTyped DEF Init, NoGraphs
  <2> QED
    BY <2>1, NoLocIsTyped DEF StepsInv, GraphRan, StepsRan, LedgerInv
<1>2. I /\ [Next]_vars => I'
  BY StepTyped, StepsKept, LedgerKept
<1>3. I => LedgerClaimsOnlyWork
  BY DEF LedgerInv, Backed, LedgerClaimsOnlyWork, StepStatus
<1> QED
  BY <1>1, <1>2, <1>3, PTL DEF Spec

-------------------------------------------------------------------------------
(* A batch that is not cancelled runs everything before it says so. *)

Uncancelled == \A c \in Cancels : pc[c] \in {"idle", "refused"}

\* Up to table k every node ran, going by the counts in q, but on the tables
\* in b, which are broken.
Covered(k, q, b) == \A t \in Tables \ b : t <= k => \A n \in Nodes : q[t][n] > 0

\* A record is right about the table it names as done, the tables before the
\* one it is paused at, and about having come to the end.
CoveredBy(r, q, b) ==
    /\ Covered(r.last, q, b)
    /\ Awaits(r) => Covered(r.paused - 1, q, b)
    /\ r.status = "completed" => Covered(NumTables, q, b)

\* So is a worker, about the tables before its own and the nodes before the one
\* it is at.
WorkCovered(w) ==
    LET l == loc[w] IN
    /\ l.mem # None => CoveredBy(l.mem, ran, broken)
    /\ pc[w] \in {"table", "continue"} => Covered(l.tab, ran, broken)
    /\ pc[w] \in {"node", "finished", "seq", "step"} => Covered(l.tab - 1, ran, broken)
    /\ pc[w] = "seq" => \A n \in Nodes : n <= l.node => ran[l.tab][n] > 0
    /\ pc[w] = "step" => \A n \in Nodes : n < l.node => ran[l.tab][n] > 0

CoverInv ==
    Uncancelled =>
        /\ tokens.cancelled = {}
        /\ run # None => CoveredBy(run, ran, broken)
        /\ \A w \in Workers : WorkCovered(w)

LEMMA CoverGrows ==
    ASSUME TypeInv, TypeInv', RanGrows, broken \subseteq broken'
    PROVE  /\ \A k : Covered(k, ran, broken) => Covered(k, ran', broken')
           /\ \A r : CoveredBy(r, ran, broken) => CoveredBy(r, ran', broken')
<1>1. \A k : Covered(k, ran, broken) => Covered(k, ran', broken')
  BY GrowsKeepsRan DEF Covered
<1> QED
  BY <1>1 DEF CoveredBy

\* One more table is covered when its nodes ran or it is broken.
LEMMA CoverNext ==
    ASSUME NEW t \in Tables, NEW q, NEW b, Covered(t - 1, q, b),
           t \in b \/ \A n \in Nodes : q[t][n] > 0
    PROVE  Covered(t, q, b)
<1>1. \A u \in Tables : u <= t => u = t \/ u <= t - 1
  BY Sizes DEF Tables
<1> QED
  BY <1>1 DEF Covered

\* Tables that are passed over as done are covered, if the ledger is right.
LEMMA CoverSkips ==
    ASSUME NEW m, NEW q, NEW b, Backed(m, q), NEW k \in Nat, NEW j \in Nat, Covered(k, q, b),
           \A u \in Tables : k < u /\ u <= j => table_tasks_done(m.tasks, u)
    PROVE  Covered(j, q, b)
<1>1. ASSUME NEW u \in Tables, u \notin b, u <= j, NEW n \in Nodes
      PROVE  q[u][n] > 0
  <2>1. CASE u <= k
    BY <1>1, <2>1 DEF Covered
  <2>2. CASE ~(u <= k)
    <3>1. k < u
      BY <2>2, Sizes DEF Tables
    <3>2. m.tasks[u][n] \in StepStatus
      BY <1>1, <3>1 DEF table_tasks_done, StepStatus
    <3> QED
      BY <3>2 DEF Backed
  <2> QED
    BY <2>1, <2>2
<1> QED
  BY <1>1 DEF Covered

\* A record that is neither paused nor completed answers for its last table.
LEMMA CoveredByLast ==
    ASSUME NEW r, NEW q, NEW b, Covered(r.last, q, b), ~Awaits(r), r.status # "completed"
    PROVE  CoveredBy(r, q, b)
BY DEF CoveredBy

LEMMA WorkCovers ==
    ASSUME TypeInv, TypeInv', StepsInv, LedgerInv, CoverInv, Uncancelled,
           NEW w \in Workers, Works(w)
    PROVE  /\ tokens'.cancelled = {}
           /\ run' # None => CoveredBy(run', ran', broken')
           /\ WorkCovered(w)'
<1> DEFINE l == loc[w]
           m == loc[w].mem
<1>0. /\ tokens.cancelled = {} /\ ~Cancelled(w)
      /\ run # None => CoveredBy(run, ran, broken)
      /\ m # None => CoveredBy(m, ran, broken)
      /\ WorkCovered(w)
  BY DEF CoverInv, WorkCovered, Cancelled
<1>1. Only(w) /\ RanGrows /\ broken \subseteq broken'
  BY WorkEffects
<1>2. /\ \A k : Covered(k, ran, broken) => Covered(k, ran', broken')
      /\ \A r : CoveredBy(r, ran, broken) => CoveredBy(r, ran', broken')
  BY <1>1, CoverGrows
<1>3. /\ run # None => CoveredBy(run, ran', broken')
      /\ m # None => CoveredBy(m, ran', broken')
  BY <1>0, <1>2
<1>4. InFlight(w) => /\ m # None /\ m \in RunType /\ Backed(m, ran)
                     /\ CoveredBy(m, ran, broken) /\ CoveredBy(m, ran', broken')
  BY <1>0, <1>3, InFlightHolds, NoneIsNoValue DEF LedgerInv
<1>5. NoLoc.mem = None
  BY NoLocIsTyped
<1>6. CASE Continue(w)
  <2>1. /\ Rest(w) /\ pc[w] = "continue" /\ pc'[w] = "table"
        /\ loc'[w].mem.status = "running" /\ loc'[w].mem.last = m.last
        /\ run' = loc'[w].mem /\ UNCHANGED <<tokens, ran, broken>>
    BY <1>6, ContinueDoes
  <2>2. CoveredBy(loc'[w].mem, ran', broken')
    BY <1>4, <2>1, CoveredByLast DEF InFlight, AtRest, CoveredBy, Awaits
  <2>3. Covered(l.tab, ran', broken')
    BY <1>0, <1>2, <2>1 DEF WorkCovered
  <2> QED
    BY <1>0, <2>1, <2>2, <2>3 DEF WorkCovered, Rest
<1>7. CASE BeginTable(w)
  <2> PICK t \in Tables : t = loc'[w].tab
    BY <1>7, BeginTableDoes
  <2>0. /\ pc[w] = "table" /\ pc'[w] = "node"
        /\ loc[w].tab < loc'[w].tab
        /\ \A u \in Tables : l.tab < u /\ u < loc'[w].tab => table_tasks_done(m.tasks, u)
        /\ loc'[w].mem = m
        /\ UNCHANGED <<run, tokens, ran, broken>>
    BY <1>7, BeginTableDoes
  <2>1. t - 1 \in Nat /\ l.tab \in Nat /\ \A u \in Tables : u <= t - 1 => u < t
    BY <2>0, Sizes DEF Tables, TypeInv, PhaseOf
  <2>2. Backed(m, ran) /\ Covered(l.tab, ran, broken)
    BY <1>0, <1>4, <2>0 DEF InFlight, AtRest, WorkCovered
  <2>3. Covered(t - 1, ran, broken)
    <3>1. \A u \in Tables : l.tab < u /\ u <= t - 1 => table_tasks_done(m.tasks, u)
      BY <2>0, <2>1
    <3> HIDE DEF l, m
    <3> QED
      BY <2>1, <2>2, <3>1, CoverSkips
  <2> QED
    BY <1>0, <1>3, <2>0, <2>3 DEF WorkCovered
<1>8. CASE RejectSpec(w) \/ BatchCancelled(w) \/ BatchCompletes(w) \/ SeqCancelled(w) \/ SeqFails(w)
  <2>1. /\ pc[w] \in {"table", "seq", "step"} /\ pc'[w] = "final"
        /\ loc'[w].mem.status \in Terminal /\ loc'[w].mem.last = m.last
        /\ loc'[w].mem.status = "completed" => pc[w] = "table" /\ TablesAfter(m.tasks, l.tab) = {}
        /\ UNCHANGED <<run, tokens, ran>>
    BY <1>8, StopsDoes
  <2>2. Covered(m.last, ran', broken') /\ Backed(m, ran)
    BY <1>4, <2>1 DEF InFlight, AtRest, CoveredBy
  <2>3. CoveredBy(loc'[w].mem, ran', broken')
    <3>1. CASE loc'[w].mem.status = "completed"
      <4>1. pc[w] = "table" /\ l.tab \in Nat /\ NumTables \in Nat
            /\ \A u \in Tables : u > l.tab => table_tasks_done(m.tasks, u)
        BY <2>1, <3>1, Sizes DEF TablesAfter, TypeInv, PhaseOf
      <4>2. Covered(l.tab, ran, broken)
        BY <1>0, <4>1 DEF WorkCovered
      <4>3. Covered(NumTables, ran, broken)
        <5> HIDE DEF l, m
        <5>1. \A u \in Tables : l.tab < u /\ u <= NumTables => table_tasks_done(m.tasks, u)
          BY <4>1, Sizes DEF Tables
        <5> QED
          BY <2>2, <4>1, <4>2, <5>1, CoverSkips
      <4> QED
        BY <1>2, <2>1, <2>2, <3>1, <4>3 DEF CoveredBy, Awaits
    <3>2. CASE loc'[w].mem.status # "completed"
      BY <2>1, <2>2, <3>2, CoveredByLast DEF Awaits, Terminal
    <3> QED
      BY <3>1, <3>2
  <2> QED
    BY <1>0, <1>3, <2>1, <2>3 DEF WorkCovered
<1>9. CASE Final(w)
  <2>1. pc[w] = "final" /\ pc'[w] = "ended" /\ loc'[w] = NoLoc /\ run' = m /\ TokenKept
    BY <1>9, FinalDoes
  <2> QED
    BY <1>0, <1>4, <1>5, <2>1 DEF InFlight, AtRest, WorkCovered, TokenKept
<1>10. CASE RunNode(w)
  <2>1. /\ pc[w] = "node" /\ pc'[w] \in {"finished", "node"} /\ loc'[w].mem = m
        /\ loc'[w].tab = l.tab /\ UNCHANGED <<run, tokens>>
    BY <1>10, RunNodeDoes
  <2>2. Covered(l.tab - 1, ran', broken')
    BY <1>0, <1>2, <2>1 DEF WorkCovered
  <2> QED
    BY <1>0, <1>3, <2>1, <2>2 DEF WorkCovered
<1>11. CASE PauseTable(w)
  <2>1. /\ pc[w] = "node" /\ Awaits(run') /\ run'.last = 0 /\ run'.paused = l.tab
        /\ pc'[w] \in {"ended", "final"} /\ (loc'[w] = NoLoc \/ loc'[w].mem = run')
        /\ UNCHANGED <<tokens, ran, broken>>
    BY <1>11, PauseTableDoes DEF TypeInv, VarsTyped, Hold
  <2>2. Covered(l.tab - 1, ran', broken')
    BY <1>0, <1>2, <2>1 DEF WorkCovered
  <2>3. Covered(0, ran', broken')
    BY Sizes DEF Covered, Tables
  <2>4. CoveredBy(run', ran', broken')
    BY <2>1, <2>2, <2>3 DEF CoveredBy, Awaits
  <2> QED
    BY <1>0, <1>5, <2>1, <2>4 DEF WorkCovered
<1>12. CASE FailTable(w)
  <2> PICK t \in Tables : t = l.tab
    BY <1>12, FailTableDoes
  <2>1. pc[w] \in {"node", "lost"} /\ t \in broken' /\ UNCHANGED ran
    BY <1>12, FailTableDoes
  <2>2. CASE l.resuming
    <3>1. /\ pc'[w] = "ended" /\ loc'[w] = NoLoc /\ TokenKept
          /\ run'.status = "failed" /\ run'.last = m.last
      BY <1>12, <2>2, FailTableDoes
    <3>2. CoveredBy(run', ran', broken')
      BY <1>4, <2>1, <3>1, CoveredByLast DEF InFlight, AtRest, CoveredBy, Awaits
    <3> QED
      BY <1>0, <1>5, <3>1, <3>2 DEF WorkCovered, TokenKept
  <2>3. CASE ~l.resuming
    <3>1. /\ pc'[w] = "final" /\ UNCHANGED <<run, tokens>>
          /\ loc'[w].mem.status = "failed" /\ loc'[w].mem.last = t
      BY <1>12, <2>3, FailTableDoes
    <3>2. pc[w] = "node"
      BY <2>1, <2>3 DEF TypeInv, PhaseOf
    <3>3. Covered(t - 1, ran', broken')
      BY <1>0, <1>2, <3>2 DEF WorkCovered
    <3>4. Covered(t, ran', broken')
      BY <2>1, <3>3, CoverNext
    <3>5. CoveredBy(loc'[w].mem, ran', broken')
      BY <3>1, <3>4, CoveredByLast DEF Awaits
    <3> QED
      BY <1>0, <1>3, <3>1, <3>5 DEF WorkCovered
  <2> QED
    BY <2>2, <2>3
<1>13. CASE FinishTable(w)
  <2> PICK t \in Tables : t = l.tab
    BY <1>13, FinishTableDoes
  <2>1. /\ Rest(w) /\ pc[w] = "finished" /\ loc'[w].mem.status = m.status
        /\ UNCHANGED <<tokens, ran, broken>>
    BY <1>0, <1>13, FinishTableDoes
  <2>2. Covered(t, ran', broken')
    <3>1. Covered(t - 1, ran', broken')
      BY <1>0, <1>2, <2>1 DEF WorkCovered
    <3>2. \A n \in Nodes : ran'[t][n] > 0
      <4>1. l.node = Len(Kind) + 1 /\ \A n \in Nodes : n < Len(Kind) + 1
        BY <2>1, Sizes DEF TypeInv, PhaseOf, Nodes
      <4> QED
        BY <2>1, <4>1 DEF StepsInv, StepsRan
    <3> QED
      BY <3>1, <3>2, CoverNext
  <2>3. CASE l.resuming
    <3>1. /\ pc'[w] = "continue" /\ UNCHANGED run /\ loc'[w].mem.last = m.last
          /\ loc'[w].mem.paused = m.paused
      BY <1>13, <2>3, FinishTableDoes
    <3>2. CoveredBy(loc'[w].mem, ran', broken')
      BY <1>4, <2>1, <3>1 DEF CoveredBy, Awaits, InFlight, AtRest
    <3> QED
      BY <1>0, <1>3, <2>1, <2>2, <3>1, <3>2 DEF WorkCovered, Rest
  <2>4. CASE ~l.resuming
    <3>1. pc'[w] = "table" /\ run' = loc'[w].mem /\ loc'[w].mem.last = t
      BY <1>13, <2>4, FinishTableDoes
    <3>2. m.status = "running"
      BY <2>1, <2>4 DEF TypeInv, PhaseOf
    <3>3. CoveredBy(loc'[w].mem, ran', broken')
      BY <2>1, <2>2, <3>1, <3>2, CoveredByLast DEF Awaits
    <3> QED
      BY <1>0, <2>1, <2>2, <3>1, <3>3 DEF WorkCovered, Rest
  <2> QED
    BY <2>3, <2>4
<1>14. CASE SeqStart(w)
  <2>1. /\ pc[w] = "seq" /\ pc'[w] = "step"
        /\ loc'[w].tab = (IF l.tab = 0 THEN 1 ELSE l.tab)
        /\ loc'[w].node \in Nodes /\ loc'[w].node = l.node + 1
        /\ loc'[w].mem.status = "running" /\ loc'[w].mem.last = m.last
        /\ run' = loc'[w].mem
        /\ UNCHANGED <<tokens, ran, broken>>
    BY <1>14, SeqStartDoes
  <2>2. CoveredBy(loc'[w].mem, ran', broken')
    BY <1>4, <2>1, CoveredByLast DEF InFlight, AtRest, CoveredBy, Awaits
  <2>3. Covered(loc'[w].tab - 1, ran', broken')
    <3>1. CASE l.tab = 0
      BY <2>1, <3>1, Sizes DEF Covered, Tables
    <3>2. CASE l.tab # 0
      BY <1>0, <2>1, <3>2 DEF WorkCovered
    <3> QED
      BY <3>1, <3>2
  <2>4. \A n \in Nodes : n < loc'[w].node => ran'[loc'[w].tab][n] > 0
    <3>1. l.node \in Nat /\ (l.tab = 0 => l.node = 0)
      BY <2>1, Sizes DEF TypeInv, PhaseOf
    <3>2. \A n \in Nodes : n < l.node + 1 => n <= l.node /\ l.node # 0
      BY <3>1, Sizes DEF Nodes
    <3> QED
      BY <1>0, <2>1, <3>1, <3>2 DEF WorkCovered
  <2> QED
    BY <1>0, <2>1, <2>2, <2>3, <2>4 DEF WorkCovered
<1>15. CASE SeqStep(w)
  <2> PICK t \in Tables, n \in Nodes : t = loc[w].tab /\ n = loc[w].node
    BY <1>15, SeqStepDoes
  <2>0. /\ pc[w] = "step" /\ ActsOn(loc[w].tab, loc[w].node)
        /\ pc'[w] = (IF loc[w].node = Len(Kind) /\ loc[w].tab = NumTables THEN "final" ELSE "seq")
        /\ loc'[w].mem.status = (IF loc[w].node = Len(Kind) /\ loc[w].tab = NumTables
                                 THEN "completed" ELSE "running")
        /\ loc'[w].mem.last = m.last
        /\ loc'[w].tab = (IF loc[w].node = Len(Kind) THEN loc[w].tab + 1 ELSE loc[w].tab)
        /\ loc'[w].node = (IF loc[w].node = Len(Kind) THEN 0 ELSE loc[w].node)
        /\ run'.status = "running" /\ run'.last = m.last
        /\ UNCHANGED tokens
    BY <1>15, SeqStepDoes
  <2>1. /\ pc[w] = "step" /\ ActsOn(t, n)
        /\ pc'[w] = (IF n = Len(Kind) /\ t = NumTables THEN "final" ELSE "seq")
        /\ loc'[w].mem.status = (IF n = Len(Kind) /\ t = NumTables THEN "completed" ELSE "running")
        /\ loc'[w].tab = (IF n = Len(Kind) THEN t + 1 ELSE t)
        /\ loc'[w].node = (IF n = Len(Kind) THEN 0 ELSE n)
    BY <2>0
  <2>2. Covered(m.last, ran', broken')
    BY <1>4, <2>1 DEF InFlight, AtRest, CoveredBy
  <2>3. CoveredBy(run', ran', broken')
    BY <2>0, <2>2, CoveredByLast DEF Awaits
  <2>4. Covered(t - 1, ran', broken')
    BY <1>0, <1>2, <2>1 DEF WorkCovered
  <2>5. \A i \in Nodes : i <= n => ran'[t][i] > 0
    <3>1. \A i \in Nodes : i < n => ran[t][i] > 0
      BY <1>0, <2>1 DEF WorkCovered
    <3>2. ran'[t][n] > 0
      BY <2>1, ActsGrows
    <3>3. \A i \in Nodes : i <= n => i = n \/ i < n
      BY Sizes DEF Nodes
    <3> QED
      BY <1>1, <3>1, <3>2, <3>3, GrowsKeepsRan
  <2>6. CASE n = Len(Kind)
    <3>1. Covered(t, ran', broken')
      <4>1. \A i \in Nodes : i <= n
        BY <2>6, Sizes DEF Nodes
      <4> QED
        BY <2>4, <2>5, <4>1, CoverNext
    <3>2. CoveredBy(loc'[w].mem, ran', broken')
      BY <2>0, <2>1, <2>2, <3>1 DEF CoveredBy, Awaits
    <3>3. loc'[w].node = 0 /\ loc'[w].tab = t + 1 /\ (t + 1) - 1 = t /\ \A i \in Nodes : ~(i <= 0)
      BY <2>1, <2>6, Sizes DEF Nodes, Tables
    <3> QED
      BY <1>0, <2>0, <2>1, <2>3, <3>1, <3>2, <3>3 DEF WorkCovered
  <2>7. CASE n # Len(Kind)
    <3>1. CoveredBy(loc'[w].mem, ran', broken')
      BY <2>0, <2>1, <2>2, <2>7, CoveredByLast DEF Awaits
    <3> QED
      BY <1>0, <2>0, <2>1, <2>3, <2>4, <2>5, <2>7, <3>1 DEF WorkCovered
  <2> QED
    BY <2>6, <2>7
<1> QED
  BY <1>6, <1>7, <1>8, <1>9, <1>10, <1>11, <1>12, <1>13, <1>14, <1>15 DEF Works

\* A step of one worker keeps the cover if it does at the worker.
LEMMA OnlyCover ==
    ASSUME TypeInv, TypeInv', CoverInv, RanGrows, broken \subseteq broken',
           NEW w \in Workers, Only(w),
           Uncancelled => /\ tokens'.cancelled = {}
                          /\ run' # None => CoveredBy(run', ran', broken')
                          /\ WorkCovered(w)'
    PROVE  CoverInv'
<1> SUFFICES ASSUME Uncancelled'
             PROVE  /\ tokens'.cancelled = {}
                    /\ run' # None => CoveredBy(run', ran', broken')
                    /\ \A v \in Workers : WorkCovered(v)'
  BY DEF CoverInv
<1>1. Uncancelled
  BY DEF Uncancelled, Only
<1>2. ASSUME NEW v \in Workers, v # w
      PROVE  WorkCovered(v)'
  <2>1. loc'[v] = loc[v] /\ pc'[v] = pc[v] /\ WorkCovered(v)
    BY <1>1, <1>2 DEF Only, CoverInv
  <2>2. /\ \A k : Covered(k, ran, broken) => Covered(k, ran', broken')
        /\ \A r : CoveredBy(r, ran, broken) => CoveredBy(r, ran', broken')
    BY CoverGrows
  <2>3. \A t \in Tables, n \in Nodes : ran[t][n] > 0 => ran'[t][n] > 0
    BY GrowsKeepsRan
  <2>4. /\ pc[v] \in {"seq", "step"} /\ loc[v].tab # 0 => loc[v].tab \in Tables
        /\ pc[v] = "seq" /\ loc[v].tab = 0 => loc[v].node = 0
        /\ pc[v] = "step" => loc[v].tab # 0
        /\ \A n \in Nodes : ~(n <= 0)
    BY Sizes DEF TypeInv, PhaseOf, Tables, Nodes
  <2>5. pc[v] = "seq" => \A n \in Nodes : n <= loc[v].node => ran'[loc[v].tab][n] > 0
    BY <2>1, <2>3, <2>4 DEF WorkCovered
  <2>6. pc[v] = "step" => \A n \in Nodes : n < loc[v].node => ran'[loc[v].tab][n] > 0
    BY <2>1, <2>3, <2>4 DEF WorkCovered
  <2> QED
    BY <2>1, <2>2, <2>5, <2>6 DEF WorkCovered
<1> QED
  BY <1>1, <1>2

LEMMA CoverKept ==
    ASSUME TypeInv, TypeInv', StepsInv, LedgerInv, CoverInv, [Next]_vars
    PROVE  CoverInv'
<1>1. RanGrows /\ broken \subseteq broken'
  BY StepsKept
<1>2. /\ \A k : Covered(k, ran, broken) => Covered(k, ran', broken')
      /\ \A r : CoveredBy(r, ran, broken) => CoveredBy(r, ran', broken')
  BY <1>1, CoverGrows
<1>3. ASSUME NEW w \in Workers, Works(w)
      PROVE  CoverInv'
  BY <1>1, <1>3, WorkCovers, WorkEffects, OnlyCover
<1>4. ASSUME NEW w \in Batches, RunBatch(w)
      PROVE  CoverInv'
  <2>1. /\ w \in Workers /\ Only(w) /\ pc'[w] \in {"continue", "seq"} /\ TakesToken(w)
        /\ loc'[w].mem = NewRun /\ loc'[w].tab = 0 /\ loc'[w].node = 0 /\ run' = NewRun
    BY <1>4, RunBatchDoes, Callers
  <2>2. Covered(0, ran', broken') /\ Covered(0 - 1, ran', broken') /\ \A n \in Nodes : ~(n <= 0)
    BY Sizes DEF Covered, Tables, Nodes
  <2>3. CoveredBy(NewRun, ran', broken')
    BY <2>2, NewRunIsRecord, CoveredByLast DEF Awaits
  <2>4. WorkCovered(w)'
    BY <2>1, <2>2, <2>3 DEF WorkCovered
  <2>5. Uncancelled => tokens'.cancelled = {}
    BY <2>1 DEF TakesToken, CoverInv
  <2> QED
    BY <1>1, <2>1, <2>3, <2>4, <2>5, OnlyCover
<1>5. ASSUME NEW w \in Recoveries, Recover(w)
      PROVE  CoverInv'
  <2>1. /\ w \in Workers /\ Only(w) /\ pc'[w] = "continue" /\ TakesToken(w)
        /\ run # None /\ run' = run /\ loc'[w].mem = run /\ loc'[w].tab = run.last
    BY <1>5, RecoverDoes, Callers
  <2>2. Uncancelled => CoveredBy(run, ran', broken') /\ tokens'.cancelled = {}
    BY <1>2, <2>1 DEF CoverInv, TakesToken
  <2>3. Uncancelled => WorkCovered(w)'
    BY <2>1, <2>2 DEF WorkCovered, CoveredBy
  <2> QED
    BY <1>1, <2>1, <2>2, <2>3, OnlyCover
<1>6. ASSUME NEW w \in Resumes, NEW answer \in Answers, ResumeBatch(w, answer)
      PROVE  CoverInv'
  <2>1. /\ w \in Workers /\ Only(w) /\ pc'[w] \in {"lost", "finished", "node"} /\ TakesToken(w)
        /\ run # None /\ Awaits(run) /\ run' = run /\ loc'[w].mem = run
        /\ loc'[w].tab = run.paused
    BY <1>6, ResumeBatchDoes, Callers
  <2>2. Uncancelled => CoveredBy(run, ran', broken') /\ tokens'.cancelled = {}
    BY <1>2, <2>1 DEF CoverInv, TakesToken
  <2>3. Uncancelled => WorkCovered(w)'
    BY <2>1, <2>2 DEF WorkCovered, CoveredBy
  <2> QED
    BY <1>1, <2>1, <2>2, <2>3, OnlyCover
<1>7. ASSUME NEW c \in Cancels, CancelLoad(c) \/ CancelToken(c) \/ CancelSave(c)
      PROVE  CoverInv'
  <2> SUFFICES ASSUME Uncancelled'
               PROVE  CoverInv'
    BY DEF CoverInv
  <2>1. /\ OnlyCancel(c) /\ pc'[c] \in {"idle", "refused"}
    BY <1>7, CancelDoes DEF Uncancelled
  <2>2. pc[c] = "idle" /\ UNCHANGED <<run, tokens>>
    BY <1>7, <2>1, CancelDoes
  <2>3. Uncancelled
    BY <2>1, <2>2 DEF Uncancelled, OnlyCancel
  <2>4. UNCHANGED <<loc, ran, broken>> /\ \A w \in Workers : pc'[w] = pc[w]
    BY <2>1 DEF OnlyCancel
  <2> QED
    BY <2>2, <2>3, <2>4 DEF CoverInv, WorkCovered
<1>8. CASE Crash
  <2> SUFFICES ASSUME Uncancelled'
               PROVE  CoverInv'
    BY DEF CoverInv
  <2>1. /\ \A c \in Workers \cup Cancels : pc'[c] = "died" \/ (~InFlight(c) /\ pc'[c] = pc[c])
        /\ loc' = [w \in Workers |-> NoLoc] /\ TokenKept /\ UNCHANGED <<run, ran, broken>>
    BY <1>8, CrashDoes
  <2>2. Uncancelled
    BY <2>1 DEF Uncancelled
  <2>3. \A w \in Workers : loc'[w].mem = None /\ pc'[w] \in AtRest
    BY <2>1, NoLocIsTyped DEF InFlight, AtRest
  <2>4. \A w \in Workers : WorkCovered(w)'
    BY <2>3 DEF WorkCovered, AtRest
  <2> QED
    BY <2>1, <2>2, <2>4 DEF CoverInv, TokenKept
<1>9. CASE UNCHANGED vars
  BY <1>9 DEF vars, disk, history, CoverInv, Uncancelled, WorkCovered
<1> QED
  BY <1>3, <1>4, <1>5, <1>6, <1>7, <1>8, <1>9 DEF Next

\* A batch that says COMPLETED, and that nobody cancelled, has run every node
\* of every table that did not end with an exception, whatever was resumed,
\* overlapped or recovered on the way (_continue_langgraph_batch,
\* resume_batch, _run_sequential).
THEOREM CompletedRan ==
    ASSUME KindsAreDistinct
    PROVE  Spec => []CompletedRanEverything
<1> DEFINE I == TypeInv /\ StepsInv /\ LedgerInv /\ CoverInv
<1>1. Init => I
  <2> SUFFICES ASSUME Init
               PROVE  I
    OBVIOUS
  <2>1. /\ TypeInv /\ run = None /\ tokens.cancelled = {} /\ \A t \in Tables : graph[t] = None
        /\ \A w \in Workers : pc[w] = "idle" /\ loc[w] = NoLoc
        /\ \A c \in Cancels : copy[c] = None
    BY InitTyped DEF Init, NoGraphs, NoTokens
  <2>2. StepsInv /\ LedgerInv
    BY <2>1, NoLocIsTyped DEF StepsInv, GraphRan, StepsRan, LedgerInv
  <2>3. CoverInv
    BY <2>1, NoLocIsTyped DEF CoverInv, WorkCovered
  <2> QED
    BY <2>1, <2>2, <2>3
<1>2. I /\ [Next]_vars => I'
  BY StepTyped, StepsKept, LedgerKept, CoverKept
<1>3. I => CompletedRanEverything
  <2>1. \A t \in Tables : t <= NumTables
    BY Sizes DEF Tables
  <2> QED
    BY <2>1 DEF CoverInv, CoveredBy, Covered, CompletedRanEverything, Uncancelled
<1> QED
  BY <1>1, <1>2, <1>3, PTL DEF Spec

-------------------------------------------------------------------------------
(* One worker at a time: unless two were in flight at once, the record and the
   checkpoints are in step with the one that is. *)

\* A batch that was never started has nobody working on it, and nothing ran.
StartInv == run = None => Quiet /\ \A t \in Tables, n \in Nodes : ran[t][n] = 0

Alone == \A v, w \in Workers : InFlight(v) /\ InFlight(w) => v = w

\* The checkpoint stands before the node the record waits at.
Stands(r, g) ==
    g[r.paused] # None /\ g[r.paused].next = r.pending /\ requires_hitl(Kind[r.pending])

WorkAlone(w) ==
    LET l == loc[w] IN
    /\ pc[w] = "node" => graph[l.tab] # None /\ graph[l.tab].next = l.node
    /\ pc[w] \in {"table", "seq", "step"} => ~Awaits(run)
    /\ pc[w] \in {"node", "finished"} /\ ~l.resuming => ~Awaits(run)
    /\ pc[w] \in {"node", "finished"} /\ Awaits(run) => l.tab = run.paused
    /\ pc[w] = "final" /\ Awaits(l.mem) => Stands(l.mem, graph)
    /\ pc[w] = "final" /\ Awaits(run) => Awaits(l.mem)

\* Without a crash, or when a crash takes the checkpoints away, nothing but a
\* resume in flight moves the checkpoint of a batch that waits.
Settled == (crashes = 0 \/ ~durable) /\ \A w \in Workers : InFlight(w) => pc[w] = "final"

DiskAlone ==
    run # None /\ Awaits(run) =>
        /\ \/ crashes > 0 /\ ~durable
           \/ graph[run.paused] # None /\ graph[run.paused].next >= run.pending
        /\ Settled => graph[run.paused] = None \/ Stands(run, graph)

AloneInv == ~overlapped => Alone /\ DiskAlone /\ \A w \in Workers : WorkAlone(w)

LEMMA StartKept ==
    ASSUME TypeInv, TypeInv', StartInv, [Next]_vars
    PROVE  StartInv'
<1>1. ASSUME run = None, run' = None
      PROVE  /\ UNCHANGED ran
             /\ \A w \in Workers : pc[w] \in AtRest /\ pc'[w] \in AtRest
  <2>0. \A w \in Workers : ~InFlight(w) /\ pc[w] \in AtRest
    BY <1>1 DEF StartInv, Quiet, InFlight
  <2>1. ASSUME NEW w \in Workers, Works(w)
        PROVE  FALSE
    BY <2>0, <2>1, WorkEffects
  <2>2. ASSUME NEW w \in Batches, RunBatch(w)
        PROVE  FALSE
    BY <1>1, <2>2, RunBatchDoes, NewRunIsRecord, NoneIsNoValue
  <2>3. ASSUME NEW w \in Recoveries, Recover(w)
        PROVE  FALSE
    BY <1>1, <2>3, RecoverDoes
  <2>4. ASSUME NEW w \in Resumes, NEW answer \in Answers, ResumeBatch(w, answer)
        PROVE  FALSE
    BY <1>1, <2>4, ResumeBatchDoes
  <2>5. ASSUME NEW c \in Cancels, CancelLoad(c) \/ CancelToken(c) \/ CancelSave(c)
        PROVE  UNCHANGED ran /\ \A w \in Workers : pc'[w] = pc[w]
    BY <2>5, CancelDoes DEF OnlyCancel
  <2>6. CASE Crash
    BY <2>0, <2>6, CrashDoes
  <2>7. CASE UNCHANGED vars
    BY <2>0, <2>7 DEF vars, history
  <2> QED
    BY <2>0, <2>1, <2>2, <2>3, <2>4, <2>5, <2>6, <2>7 DEF Next
<1>2. ASSUME run # None
      PROVE  run' # None
  <2>1. ASSUME NEW w \in Workers, Works(w)
        PROVE  run' # None
    BY <1>2, <2>1, WorkEffects, NoneIsNoValue
  <2>2. ASSUME NEW w \in Batches, RunBatch(w)
        PROVE  run' # None
    BY <1>2, <2>2, RunBatchDoes
  <2>3. ASSUME NEW w \in Recoveries, Recover(w)
        PROVE  run' # None
    BY <1>2, <2>3, RecoverDoes
  <2>4. ASSUME NEW w \in Resumes, NEW answer \in Answers, ResumeBatch(w, answer)
        PROVE  run' # None
    BY <1>2, <2>4, ResumeBatchDoes
  <2>5. ASSUME NEW c \in Cancels, CancelLoad(c) \/ CancelToken(c) \/ CancelSave(c)
        PROVE  run' # None
    BY <1>2, <2>5, CancelDoes, NoneIsNoValue
  <2>6. CASE Crash
    BY <1>2, <2>6, CrashDoes
  <2>7. CASE UNCHANGED vars
    BY <1>2, <2>7 DEF vars, disk
  <2> QED
    BY <2>1, <2>2, <2>3, <2>4, <2>5, <2>6, <2>7 DEF Next
<1> QED
  BY <1>1, <1>2 DEF StartInv, Quiet, InFlight

LEMMA InFlightStarted ==
    ASSUME StartInv, NEW w \in Workers, InFlight(w)
    PROVE  run # None
BY DEF StartInv, Quiet

\* A worker at rest is in step with anything.
LEMMA RestIsAlone ==
    ASSUME NEW w \in Workers, pc[w] \in AtRest
    PROVE  WorkAlone(w)
BY DEF WorkAlone, AtRest

\* Only one worker is in flight, and it is in step: that is all there is to it.
LEMMA OneWorker ==
    ASSUME TypeInv, TypeInv', NEW w \in Workers, Only(w),
           \A v \in Workers \ {w} : ~InFlight(v),
           DiskAlone', WorkAlone(w)'
    PROVE  AloneInv'
<1>1. \A v \in Workers \ {w} : ~InFlight(v)' /\ pc'[v] \in AtRest
  BY DEF Only, InFlight
<1>2. \A v \in Workers \ {w} : WorkAlone(v)'
  BY <1>1 DEF WorkAlone, AtRest
<1> QED
  BY <1>1, <1>2 DEF AloneInv, Alone

\* A record that does not wait asks nothing of the checkpoints.
LEMMA NotAwaitingIsAlone ==
    ASSUME run' = None \/ ~Awaits(run')
    PROVE  DiskAlone'
BY DEF DiskAlone

LEMMA WorkIsAlone ==
    ASSUME TypeInv, TypeInv', StartInv, AloneInv, ~overlapped, NEW w \in Workers, Works(w)
    PROVE  DiskAlone' /\ WorkAlone(w)'
<1> DEFINE l == loc[w]
           m == loc[w].mem
<1>1. InFlight(w) /\ run # None /\ UNCHANGED <<overlapped, crashes, durable>>
  BY WorkEffects, InFlightStarted DEF Only
<1>2. DiskAlone /\ WorkAlone(w)
  BY DEF AloneInv
\* The checkpoint of a batch that waits stays as far on as it was.
<1>3. ASSUME UNCHANGED run, UNCHANGED graph, pc'[w] \notin AtRest, pc'[w] # "final"
      PROVE  DiskAlone'
  <2>1. ~Settled'
    BY <1>3 DEF Settled, InFlight
  <2> QED
    BY <1>1, <1>2, <1>3, <2>1 DEF DiskAlone
<1>4. CASE Continue(w)
  <2>1. pc'[w] = "table" /\ loc'[w].mem.status = "running" /\ run' = loc'[w].mem
    BY <1>4, ContinueDoes
  <2>2. ~Awaits(run')
    BY <2>1 DEF Awaits
  <2> QED
    BY <2>1, <2>2, NotAwaitingIsAlone DEF WorkAlone
<1>5. CASE BeginTable(w)
  <2> PICK t \in Tables : t = loc'[w].tab
    BY <1>5, BeginTableDoes
  <2>0. /\ pc[w] = "table" /\ pc'[w] = "node" /\ loc'[w].node = 1
        /\ graph' = [graph EXCEPT ![loc'[w].tab] = Fresh] /\ UNCHANGED run
    BY <1>5, BeginTableDoes
  <2>1. graph'[t] # None /\ graph'[t].next = 1
    BY <2>0, FreshIsTyped DEF TypeInv, VarsTyped, GraphTyped
  <2>2. ~Awaits(run')
    BY <1>2, <2>0 DEF WorkAlone
  <2> QED
    BY <2>0, <2>1, <2>2, NotAwaitingIsAlone DEF WorkAlone
<1>6. CASE RejectSpec(w) \/ BatchCancelled(w) \/ BatchCompletes(w) \/ SeqCancelled(w) \/ SeqFails(w)
  <2>1. pc[w] \in {"table", "seq", "step"} /\ pc'[w] = "final"
        /\ loc'[w].mem.status \in Terminal /\ UNCHANGED run
    BY <1>6, StopsDoes
  <2>2. ~Awaits(run') /\ ~Awaits(loc'[w].mem)
    BY <1>2, <2>1 DEF WorkAlone, Awaits, Terminal
  <2> QED
    BY <2>1, <2>2, NotAwaitingIsAlone DEF WorkAlone
<1>7. CASE Final(w)
  <2>1. /\ pc[w] = "final" /\ pc'[w] = "ended" /\ run' = m
        /\ Awaits(run') => UNCHANGED graph
    BY <1>7, FinalDoes
  <2>2. WorkAlone(w)'
    BY <2>1 DEF WorkAlone
  <2>3. ASSUME Awaits(run')
        PROVE  Stands(run', graph') /\ run'.pending \in Nat
    <3>1. run'.pending \in Nat
      BY <1>7, FinalDoes, Sizes DEF RunType
    <3> QED
      BY <1>2, <2>1, <2>3, <3>1 DEF WorkAlone
  <2> QED
    BY <2>2, <2>3 DEF DiskAlone, Stands
<1>8. CASE RunNode(w)
  <2> PICK t \in Tables, n \in Nodes : t = loc[w].tab /\ n = loc[w].node
    BY <1>8, RunNodeDoes
  <2> DEFINE g == [next |-> n + 1, steps |-> loc'[w].steps]
  <2>0. /\ pc[w] = "node" /\ pc'[w] \in {"node", "finished"}
        /\ loc'[w].tab = t /\ loc'[w].node = n + 1 /\ loc'[w].resuming = l.resuming
        /\ graph' = [graph EXCEPT ![t] = g] /\ UNCHANGED run
    BY <1>8, RunNodeDoes
  <2>1. g.next = n + 1
    OBVIOUS
  <2> HIDE DEF g
  <2>2. graph'[t] = g /\ \A u \in Tables \ {t} : graph'[u] = graph[u]
    BY <2>0 DEF TypeInv, VarsTyped, GraphTyped
  <2>3. graph'[t] # None
    <3>1. g # None
      <4>1. g = [next |-> n + 1, steps |-> loc'[w].steps] /\ n + 1 \in 1..Len(Kind) + 1
        BY Sizes DEF g, Nodes
      <4>2. loc'[w].steps \in Seq(StepStatus)
        BY <1>8, RunNodeDoes
      <4>3. g \in Checkpoint
        BY <4>1, <4>2 DEF Checkpoint
      <4> QED
        BY <4>3, NoneIsNoValue
    <3> QED
      BY <2>2, <3>1
  <2>4. WorkAlone(w)'
    BY <1>2, <2>0, <2>1, <2>2, <2>3 DEF WorkAlone
  <2>5. DiskAlone'
    <3> SUFFICES ASSUME Awaits(run)
                 PROVE  /\ \/ crashes > 0 /\ ~durable
                           \/ graph'[run.paused] # None /\ graph'[run.paused].next >= run.pending
                        /\ ~Settled'
      BY <1>1, <2>0 DEF DiskAlone
    <3>1. ~Settled'
      BY <2>0 DEF Settled, InFlight, AtRest
    <3>2. run.paused = t /\ graph[t].next = n /\ run.pending \in Nat /\ n \in Nat
      BY <1>1, <1>2, <2>0, Sizes DEF WorkAlone, TypeInv, VarsTyped, IsRecord, RunType, Nodes
    <3>3. (crashes > 0 /\ ~durable) \/ n >= run.pending
      BY <1>1, <1>2, <3>2 DEF DiskAlone
    <3> QED
      BY <2>1, <2>2, <2>3, <3>1, <3>2, <3>3
  <2> QED
    BY <2>4, <2>5
<1>9. CASE PauseTable(w)
  <2>1. /\ pc[w] = "node" /\ Interrupts(w)
        /\ run'.paused = l.tab /\ run'.pending = l.node
        /\ pc'[w] \in {"ended", "final"} /\ (pc'[w] = "final" => loc'[w].mem = run')
        /\ Awaits(run') /\ UNCHANGED graph
    BY <1>9, PauseTableDoes DEF TypeInv, VarsTyped, Hold
  <2>2. Stands(run', graph')
    BY <1>2, <2>1 DEF WorkAlone, Stands, Interrupts
  <2>3. run'.pending \in Nat
    BY <1>9, PauseTableDoes, Sizes DEF RunType
  <2>4. DiskAlone'
    BY <2>2, <2>3 DEF DiskAlone, Stands
  <2>5. WorkAlone(w)'
    BY <2>1, <2>2 DEF WorkAlone
  <2> QED
    BY <2>4, <2>5
<1>10. CASE FailTable(w)
  <2>1. CASE l.resuming
    <3>1. pc'[w] = "ended" /\ run'.status = "failed"
      BY <1>10, <2>1, FailTableDoes
    <3> QED
      BY <3>1, NotAwaitingIsAlone DEF WorkAlone, Awaits
  <2>2. CASE ~l.resuming
    <3>1. pc[w] \in {"node", "lost"} /\ pc'[w] = "final" /\ UNCHANGED run
          /\ loc'[w].mem.status = "failed"
      BY <1>10, <2>2, FailTableDoes
    <3>2. ~Awaits(run')
      BY <1>2, <2>2, <3>1 DEF WorkAlone, TypeInv, PhaseOf
    <3> QED
      BY <3>1, <3>2, NotAwaitingIsAlone DEF WorkAlone, Awaits
  <2> QED
    BY <2>1, <2>2
<1>11. CASE FinishTable(w)
  <2>1. UNCHANGED graph /\ pc[w] \in {"node", "finished"} /\ loc'[w].mem.status = m.status
    BY <1>11, FinishTableDoes
  <2>2. CASE l.resuming
    <3>1. pc'[w] = "continue" /\ UNCHANGED run
      BY <1>11, <2>2, FinishTableDoes
    <3> QED
      BY <1>3, <2>1, <3>1 DEF WorkAlone, AtRest
  <2>3. CASE ~l.resuming
    <3>1. pc'[w] = "table" /\ run' = loc'[w].mem /\ m.status = "running"
      BY <1>11, <2>1, <2>3, FinishTableDoes DEF TypeInv, PhaseOf
    <3>2. ~Awaits(run')
      BY <2>1, <3>1 DEF Awaits
    <3> QED
      BY <3>1, <3>2, NotAwaitingIsAlone DEF WorkAlone
  <2> QED
    BY <2>2, <2>3
<1>12. CASE SeqStart(w)
  <2>1. pc'[w] = "step" /\ run' = loc'[w].mem /\ loc'[w].mem.status = "running"
    BY <1>12, SeqStartDoes
  <2> QED
    BY <2>1, NotAwaitingIsAlone DEF WorkAlone, Awaits
<1>13. CASE SeqStep(w)
  <2>1. /\ pc'[w] \in {"final", "seq"} /\ run'.status = "running"
        /\ loc'[w].mem.status \in {"completed", "running"}
    BY <1>13, SeqStepDoes
  <2> QED
    BY <2>1, NotAwaitingIsAlone DEF WorkAlone, Awaits
<1> QED
  BY <1>4, <1>5, <1>6, <1>7, <1>8, <1>9, <1>10, <1>11, <1>12, <1>13 DEF Works

\* The worker that moves is the only one, as long as none overlapped.
LEMMA MovesAlone ==
    ASSUME TypeInv, AloneInv, ~overlapped', NEW w \in Workers, Works(w)
    PROVE  ~overlapped /\ InFlight(w) /\ \A v \in Workers \ {w} : ~InFlight(v)
BY WorkEffects DEF AloneInv, Alone

LEMMA StartsAlone ==
    ASSUME TypeInv, ~overlapped', NEW w \in Workers, TakesToken(w)
    PROVE  ~overlapped /\ \A v \in Workers : ~InFlight(v)
BY DEF TakesToken, Quiet, TypeInv, VarsTyped

LEMMA AloneKept ==
    ASSUME TypeInv, TypeInv', StartInv, AloneInv, [Next]_vars
    PROVE  AloneInv'
<1> SUFFICES ASSUME ~overlapped'
             PROVE  AloneInv'
  BY DEF AloneInv
<1>1. ASSUME NEW w \in Workers, Works(w)
      PROVE  AloneInv'
  BY <1>1, MovesAlone, WorkIsAlone, WorkEffects, OneWorker
<1>2. ASSUME NEW w \in Batches, RunBatch(w)
      PROVE  AloneInv'
  <2>1. w \in Workers /\ Only(w) /\ pc'[w] \in {"continue", "seq"} /\ TakesToken(w) /\ run' = NewRun
    BY <1>2, RunBatchDoes, Callers
  <2>2. ~Awaits(run')
    BY <2>1, NewRunIsRecord DEF Awaits
  <2>3. WorkAlone(w)'
    BY <2>1, <2>2 DEF WorkAlone
  <2> QED
    BY <2>1, <2>2, <2>3, StartsAlone, NotAwaitingIsAlone, OneWorker
<1>3. ASSUME NEW w \in Workers, Only(w), TakesToken(w), UNCHANGED <<run, graph, crashes>>,
             pc'[w] \in {"continue", "lost", "node", "finished"}, WorkAlone(w)'
      PROVE  AloneInv'
  <2>1. ~Settled'
    BY <1>3 DEF Settled, InFlight, AtRest
  <2>2. DiskAlone
    BY <1>3, StartsAlone DEF AloneInv
  <2>3. DiskAlone'
    BY <1>3, <2>1, <2>2 DEF DiskAlone, Only
  <2> QED
    BY <1>3, <2>3, StartsAlone, OneWorker
<1>4. ASSUME NEW w \in Recoveries, Recover(w)
      PROVE  AloneInv'
  <2>1. /\ w \in Workers /\ Only(w) /\ pc'[w] = "continue" /\ TakesToken(w)
        /\ UNCHANGED <<run, graph, crashes>>
    BY <1>4, RecoverDoes, Callers
  <2>2. WorkAlone(w)'
    BY <2>1 DEF WorkAlone
  <2> QED
    BY <1>3, <2>1, <2>2
<1>5. ASSUME NEW w \in Resumes, NEW answer \in Answers, ResumeBatch(w, answer)
      PROVE  AloneInv'
  <2>1. /\ w \in Workers /\ Only(w) /\ TakesToken(w) /\ UNCHANGED <<run, graph, crashes>>
        /\ loc'[w].tab = run.paused /\ loc'[w].resuming = TRUE
        /\ graph[run.paused] = None => pc'[w] = "lost"
        /\ graph[run.paused] # None => /\ pc'[w] \in {"node", "finished"}
                                       /\ loc'[w].node = graph[run.paused].next
    BY <1>5, ResumeBatchDoes, Callers
  <2>2. WorkAlone(w)' /\ pc'[w] \in {"lost", "node", "finished"}
    BY <2>1 DEF WorkAlone
  <2> QED
    BY <1>3, <2>1, <2>2
<1>6. ASSUME NEW c \in Cancels, CancelLoad(c) \/ CancelToken(c) \/ CancelSave(c)
      PROVE  AloneInv'
  <2>1. OnlyCancel(c) /\ (run' = run \/ run'.status = "cancelled")
    BY <1>6, CancelDoes
  <2>2. /\ UNCHANGED <<durable, loc, graph, crashes, overlapped>>
        /\ \A w \in Workers : pc'[w] = pc[w]
    BY <2>1 DEF OnlyCancel
  <2>3. Alone /\ DiskAlone /\ \A w \in Workers : WorkAlone(w)
    BY <2>2 DEF AloneInv
  <2>4. Alone'
    BY <2>2, <2>3 DEF Alone, InFlight
  <2>5. CASE run' = run
    <3>1. DiskAlone'
      BY <2>2, <2>3, <2>5 DEF DiskAlone, Settled, InFlight
    <3>2. \A w \in Workers : WorkAlone(w)'
      BY <2>2, <2>3, <2>5 DEF WorkAlone
    <3> QED
      BY <2>4, <3>1, <3>2 DEF AloneInv
  <2>6. CASE run'.status = "cancelled"
    <3>1. ~Awaits(run')
      BY <2>6 DEF Awaits
    <3>2. \A w \in Workers : WorkAlone(w)'
      BY <2>2, <2>3, <3>1 DEF WorkAlone
    <3> QED
      BY <2>4, <3>1, <3>2, NotAwaitingIsAlone DEF AloneInv
  <2> QED
    BY <2>1, <2>5, <2>6
<1>7. CASE Crash
  <2>1. /\ \A w \in Workers : pc'[w] \in AtRest
        /\ crashes' = crashes + 1 /\ graph' = IF durable THEN graph ELSE NoGraphs
        /\ UNCHANGED <<durable, run, overlapped>>
    BY <1>7, CrashDoes DEF InFlight, AtRest
  <2>2. DiskAlone /\ crashes \in Nat
    BY <2>1 DEF AloneInv, TypeInv, VarsTyped
  <2>3. run # None /\ Awaits(run) => run.paused \in Tables
    BY DEF TypeInv, VarsTyped, IsRecord
  <2>4. DiskAlone'
    <3>1. CASE durable
      BY <2>1, <2>2, <3>1 DEF DiskAlone, Settled
    <3>2. CASE ~durable
      BY <2>1, <2>2, <2>3, <3>2 DEF DiskAlone, NoGraphs
    <3> QED
      BY <3>1, <3>2
  <2> QED
    BY <2>1, <2>4 DEF AloneInv, Alone, InFlight, WorkAlone, AtRest
<1>8. CASE UNCHANGED vars
  BY <1>8 DEF vars, disk, bounds, AloneInv, Alone, DiskAlone, WorkAlone, Settled, InFlight
<1> QED
  BY <1>1, <1>2, <1>4, <1>5, <1>6, <1>7, <1>8 DEF Next

LEMMA InitAlone ==
    ASSUME Init
    PROVE  TypeInv /\ StartInv /\ AloneInv
<1>1. /\ TypeInv /\ run = None /\ \A w \in Workers : pc[w] = "idle"
      /\ \A t \in Tables, n \in Nodes : ran[t][n] = 0
  BY InitTyped DEF Init
<1>2. StartInv
  BY <1>1 DEF StartInv, Quiet, InFlight, AtRest
<1>3. AloneInv
  BY <1>1 DEF AloneInv, Alone, DiskAlone, WorkAlone, InFlight, AtRest
<1> QED
  BY <1>1, <1>2, <1>3

\* When nobody works on a batch that waits, the checkpoint its resume will go
\* on from stands before the node it asks about, or further on after a crash
\* that interrupted a resume; only a crash without Postgres takes it away
\* (_pause_table, resume_batch, the finally clause of the batch loop).
THEOREM PauseResumable == Spec => []PauseCanBeResumed
<1> DEFINE I == TypeInv /\ StartInv /\ AloneInv
<1>1. Init => I
  BY InitAlone
<1>2. I /\ [Next]_vars => I'
  BY StepTyped, StartKept, AloneKept
<1>3. I => PauseCanBeResumed
  <2> SUFFICES ASSUME I, Quiet, ~overlapped, run # None, Awaits(run), ~(crashes > 0 /\ ~durable)
               PROVE  /\ graph[run.paused] # None
                      /\ graph[run.paused].next >= run.pending
                      /\ crashes = 0 => graph[run.paused].next = run.pending
    BY DEF PauseCanBeResumed, Awaits
  <2>1. DiskAlone
    BY DEF AloneInv
  <2>2. crashes = 0 => Settled
    BY DEF Settled, Quiet
  <2> QED
    BY <2>1, <2>2 DEF DiskAlone, Stands
<1> QED
  BY <1>1, <1>2, <1>3, PTL DEF Spec

-------------------------------------------------------------------------------
(* What was approved. *)

\* While one worker is in flight and no crash left a checkpoint ahead of the
\* pause it belongs to.
Orderly == ~overlapped /\ (crashes = 0 \/ ~durable)

\* An approval a worker has not used up is for the node it stands before, and a
\* rejection grants nothing.
Approved(w) ==
    LET l == loc[w] IN
    pc[w] = "node" =>
        /\ l.answer = "approve" => l.shown = <<l.tab, l.node>> /\ requires_hitl(Kind[l.node])
        /\ l.answer = "reject" => ~l.granted

WriteInv ==
    Orderly => /\ \A x \in unapproved : x[1] # "contract_write"
               /\ \A w \in Workers : Approved(w)

LEMMA OnlyWrites ==
    ASSUME TypeInv, WriteInv, Orderly, Orderly', NEW w \in Workers, Only(w),
           UNCHANGED unapproved, Approved(w)'
    PROVE  WriteInv'
<1>1. \A v \in Workers \ {w} : Approved(v)'
  BY DEF WriteInv, Approved, Only
<1> QED
  BY <1>1 DEF WriteInv

\* Three steps write or lead to a node.
LEMMA WorkWrites ==
    ASSUME TypeInv, NEW w \in Workers, Works(w)
    PROVE  \/ BeginTable(w) \/ RunNode(w) \/ SeqStep(w)
           \/ UNCHANGED unapproved /\ pc'[w] # "node"
<1>1. BeginTable(w) \/ RunNode(w) \/ SeqStep(w) \/ pc'[w] # "node"
  BY WorkEffects
<1>2. BeginTable(w) \/ RunNode(w) \/ SeqStep(w) \/ UNCHANGED unapproved
  BY DEF Works, Continue, RejectSpec, BatchCancelled, BatchCompletes, Final, PauseTable,
         FailTable, FinishTable, SeqStart, SeqCancelled, SeqFails, history
<1> QED
  BY <1>1, <1>2

LEMMA WritesKept ==
    ASSUME TypeInv, TypeInv', AloneInv, WriteInv, [Next]_vars
    PROVE  WriteInv'
<1> SUFFICES ASSUME Orderly'
             PROVE  WriteInv'
  BY DEF WriteInv
<1>0. StepKind("contract_write") = "contract_write"
  BY DEF StepKind
<1>1. ASSUME NEW w \in Workers, Works(w)
      PROVE  WriteInv'
  <2>1. Only(w) /\ Orderly
    BY <1>1, WorkEffects DEF Orderly, Only
  <2>2. (\A x \in unapproved : x[1] # "contract_write") /\ Approved(w)
    BY <2>1 DEF WriteInv
  <2>3. CASE UNCHANGED unapproved /\ pc'[w] # "node"
    BY <2>1, <2>3, OnlyWrites DEF Approved
  <2>4. CASE BeginTable(w)
    <3>1. loc'[w].answer = None /\ UNCHANGED unapproved
      BY <2>4, BeginTableDoes
    <3>2. None # "approve" /\ None # "reject"
      BY NoneIsNoValue DEF Answers
    <3>3. Approved(w)'
      BY <3>1, <3>2 DEF Approved
    <3> QED
      BY <2>1, <3>1, <3>3, OnlyWrites
  <2>5. CASE RunNode(w)
    <3> PICK t \in Tables, n \in Nodes : t = loc[w].tab /\ n = loc[w].node
      BY <2>5, RunNodeDoes
    <3>0. /\ pc[w] = "node" /\ ~Interrupts(w)
          /\ loc'[w].granted = Granted(w)
          /\ loc'[w].answer = (IF requires_hitl(Kind[loc[w].node]) THEN None ELSE loc[w].answer)
          /\ Unapproves(w, loc[w].tab, loc[w].node, Granted(w))
      BY <2>5, RunNodeDoes
    <3>1. loc[w].answer \in {"approve", "reject", None}
      BY DEF TypeInv, VarsTyped, Hold, Answers
    <3>2. None # "approve" /\ None # "reject"
      BY NoneIsNoValue DEF Answers
    <3>3. Approved(w)'
      BY <2>2, <3>0, <3>2 DEF Approved, Granted
    <3>4. ASSUME NEW x \in unapproved' \ unapproved
          PROVE  x[1] # "contract_write"
      <4>1. /\ x = <<Kind[n], t, n>> /\ loc[w].shown # <<t, n>>
            /\ Kind[n] = "contract_write" => Granted(w)
        BY <3>0, <3>4 DEF Unapproves
      <4>2. CASE Kind[n] = "contract_write"
        <5>1. loc[w].answer # None
          BY <1>0, <3>0, <4>2 DEF Interrupts, requires_hitl
        <5>2. loc[w].answer # "approve"
          BY <2>2, <3>0, <4>1 DEF Approved
        <5>3. ~Granted(w)
          BY <2>2, <3>0, <3>1, <5>1, <5>2 DEF Approved, Granted
        <5> QED
          BY <4>1, <4>2, <5>3
      <4> QED
        BY <4>1, <4>2
    <3>5. \A v \in Workers \ {w} : Approved(v)'
      BY <2>1 DEF WriteInv, Approved, Only
    <3> QED
      BY <2>2, <3>3, <3>4, <3>5 DEF WriteInv
  <2>6. CASE SeqStep(w)
    <3>1. Unapproves(w, loc[w].tab, loc[w].node, FALSE) /\ pc'[w] \in {"final", "seq"}
      BY <2>6, SeqStepDoes
    <3>2. \A x \in unapproved' \ unapproved : x[1] # "contract_write"
      BY <3>1 DEF Unapproves
    <3>3. \A v \in Workers \ {w} : Approved(v)'
      BY <2>1 DEF WriteInv, Approved, Only
    <3> QED
      BY <2>2, <3>1, <3>2, <3>3 DEF WriteInv, Approved
  <2> QED
    BY <1>1, <2>3, <2>4, <2>5, <2>6, WorkWrites
<1>2. ASSUME NEW w \in Batches, RunBatch(w)
      PROVE  WriteInv'
  <2>1. /\ w \in Workers /\ Only(w) /\ pc'[w] \in {"continue", "seq"} /\ TakesToken(w)
        /\ UNCHANGED <<unapproved, crashes>>
    BY <1>2, RunBatchDoes, Callers
  <2>2. Orderly
    BY <2>1, StartsAlone DEF Orderly, Only
  <2> QED
    BY <2>1, <2>2, OnlyWrites DEF Approved
<1>3. ASSUME NEW w \in Recoveries, Recover(w)
      PROVE  WriteInv'
  <2>1. /\ w \in Workers /\ Only(w) /\ pc'[w] = "continue" /\ TakesToken(w)
        /\ UNCHANGED <<unapproved, crashes>>
    BY <1>3, RecoverDoes, Callers
  <2>2. Orderly
    BY <2>1, StartsAlone DEF Orderly, Only
  <2> QED
    BY <2>1, <2>2, OnlyWrites DEF Approved
<1>4. ASSUME NEW w \in Resumes, NEW answer \in Answers, ResumeBatch(w, answer)
      PROVE  WriteInv'
  <2>0. run.paused \in Tables
    BY <1>4, ResumeBatchDoes
  <2> PICK t \in Tables : t = run.paused
    BY <2>0
  <2>1. /\ w \in Workers /\ Only(w) /\ TakesToken(w) /\ run # None /\ Awaits(run)
        /\ loc'[w].tab = t /\ loc'[w].granted = (answer = "approve") /\ loc'[w].answer = answer
        /\ loc'[w].shown = (IF answer = "approve" THEN <<t, run.pending>> ELSE None)
        /\ UNCHANGED <<unapproved, crashes>>
    BY <1>4, ResumeBatchDoes, Callers
  <2>1a. /\ graph[t] = None => pc'[w] = "lost"
         /\ graph[t] # None => loc'[w].node = graph[t].next
    BY <1>4, ResumeBatchDoes
  <2>2. Orderly /\ \A v \in Workers : ~InFlight(v)
    BY <2>1, StartsAlone DEF Orderly, Only
  <2>3. graph[t] = None \/ Stands(run, graph)
    BY <2>1, <2>2 DEF AloneInv, DiskAlone, Settled, Orderly
  <2>4. Approved(w)'
    BY <2>1, <2>1a, <2>3 DEF Approved, Stands
  <2> QED
    BY <2>1, <2>2, <2>4, OnlyWrites
<1>5. ASSUME NEW c \in Cancels, CancelLoad(c) \/ CancelToken(c) \/ CancelSave(c)
      PROVE  WriteInv'
  <2>1. OnlyCancel(c)
    BY <1>5, CancelDoes
  <2> QED
    BY <2>1 DEF OnlyCancel, WriteInv, Orderly, Approved
<1>6. CASE Crash
  <2>1. /\ \A w \in Workers : pc'[w] # "node"
        /\ crashes' = crashes + 1 /\ UNCHANGED <<durable, unapproved, overlapped>>
    BY <1>6, CrashDoes DEF InFlight, AtRest
  <2>2. Orderly
    BY <2>1 DEF Orderly, TypeInv, VarsTyped
  <2> QED
    BY <2>1, <2>2 DEF WriteInv, Approved
<1>7. CASE UNCHANGED vars
  BY <1>7 DEF vars, history, bounds, WriteInv, Orderly, Approved
<1> QED
  BY <1>1, <1>2, <1>3, <1>4, <1>5, <1>6, <1>7 DEF Next

\* No contract is written but where a steward, shown that very node, approved
\* it: an answer is used up by the first interrupt it meets, and a grant that
\* came with an earlier approval does not outlive the next answer
\* (resume_batch, the step function of the LangGraph executor).
THEOREM WritesApproved == Spec => []WritesWereApproved
<1> DEFINE I == TypeInv /\ StartInv /\ AloneInv /\ WriteInv
<1>1. Init => I
  <2> SUFFICES ASSUME Init
               PROVE  I
    OBVIOUS
  <2>1. unapproved = {} /\ \A w \in Workers : pc[w] = "idle"
    BY DEF Init
  <2> QED
    BY <2>1, InitAlone DEF WriteInv, Approved
<1>2. I /\ [Next]_vars => I'
  BY StepTyped, StartKept, AloneKept, WritesKept
<1>3. I => WritesWereApproved
  BY DEF WriteInv, Orderly, WritesWereApproved
<1> QED
  BY <1>1, <1>2, <1>3, PTL DEF Spec

-------------------------------------------------------------------------------
(* How often a node runs. *)

\* The recoveries that were begun.
Begun == {w \in Recoveries : pc[w] # "idle"}

\* From node n of table t on, no node ran more than r times, going by q.
Unrun(t, n, q, r) ==
    \A u \in Tables, i \in Nodes : (u > t \/ (u = t /\ i >= n)) => q[u][i] <= r

\* What lies ahead of a worker ran no more often than recoveries began.
WorkAhead(w, r) ==
    LET l == loc[w] IN
    /\ pc[w] \in {"table", "continue", "finished"} => Unrun(l.tab + 1, 0, ran, r)
    /\ pc[w] \in {"node", "step"} => Unrun(l.tab, l.node, ran, r)
    /\ pc[w] = "seq" => Unrun(l.tab, l.node + 1, ran, r)
    /\ pc[w] = "final" /\ Awaits(l.mem) =>
          Unrun(l.mem.paused, graph[l.mem.paused].next, ran, r)

\* So did what lies ahead of a pause.
DiskAhead(r) ==
    run # None /\ Awaits(run) =>
        /\ Unrun(run.paused + 1, 0, ran, r)
        /\ graph[run.paused] # None => Unrun(run.paused, graph[run.paused].next, ran, r)

Counted(r) ==
    /\ \A t \in Tables, n \in Nodes : ran[t][n] <= 1 + r
    /\ DiskAhead(r)
    /\ \A w \in Workers : WorkAhead(w, r)

CountInv == IsFiniteSet(Begun) /\ (~overlapped => Counted(Cardinality(Begun)))

\* What holds from a place on holds further on.
LEMMA UnrunLater ==
    ASSUME NEW t \in Nat, NEW n \in Nat, NEW u \in Nat, NEW i \in Nat, NEW q, NEW r,
           Unrun(t, n, q, r), u > t \/ (u = t /\ i >= n)
    PROVE  Unrun(u, i, q, r)
BY Sizes DEF Unrun, Tables, Nodes

\* A node that runs is left behind.
LEMMA ActsCount ==
    ASSUME TypeInv, NEW t \in Tables, NEW n \in Nodes, ActsOn(t, n), NEW r \in Nat,
           Unrun(t, n, ran, r), \A u \in Tables, i \in Nodes : ran[u][i] <= 1 + r
    PROVE  /\ Unrun(t, n + 1, ran', r) /\ Unrun(t + 1, 0, ran', r)
           /\ \A u \in Tables, i \in Nodes : ran'[u][i] <= 1 + r
<1>1. /\ \A u \in Tables, i \in Nodes :
            ran'[u][i] = IF u = t /\ i = n THEN ran[u][i] + 1 ELSE ran[u][i]
      /\ \A u \in Tables, i \in Nodes : ran[u][i] \in Nat
  BY RanCounts DEF TypeInv, VarsTyped
<1>2. \A u \in Tables, i \in Nodes : u \in Nat /\ i \in Nat
  BY Sizes DEF Tables, Nodes
<1>3. ASSUME NEW u \in Tables, NEW i \in Nodes
      PROVE  /\ u > t \/ (u = t /\ i >= n + 1) => ran'[u][i] <= r
             /\ u > t + 1 \/ (u = t + 1 /\ i >= 0) => ran'[u][i] <= r
             /\ ran'[u][i] <= 1 + r
  <2>1. u \in Nat /\ i \in Nat /\ t \in Nat /\ n \in Nat /\ ran[u][i] \in Nat
    BY <1>1, <1>2
  <2>2. u > t \/ (u = t /\ i >= n) => ran[u][i] <= r
    BY DEF Unrun
  <2>3. ran[u][i] <= 1 + r
    OBVIOUS
  <2>4. ran'[u][i] = IF u = t /\ i = n THEN ran[u][i] + 1 ELSE ran[u][i]
    BY <1>1
  <2> QED
    BY <2>1, <2>2, <2>3, <2>4
<1> QED
  BY <1>3 DEF Unrun

LEMMA WorkCounts ==
    ASSUME TypeInv, TypeInv', AloneInv, ~overlapped, NEW w \in Workers, Works(w),
           NEW r \in Nat, Counted(r)
    PROVE  /\ \A t \in Tables, n \in Nodes : ran'[t][n] <= 1 + r
           /\ DiskAhead(r)' /\ WorkAhead(w, r)'
<1> DEFINE l == loc[w]
           m == loc[w].mem
           Bound == \A t \in Tables, n \in Nodes : ran'[t][n] <= 1 + r
<1>1. /\ InFlight(w) /\ WorkAlone(w)
      /\ DiskAhead(r) /\ WorkAhead(w, r)
      /\ \A t \in Tables, n \in Nodes : ran[t][n] <= 1 + r
      /\ UNCHANGED ran => Bound
  BY WorkEffects DEF AloneInv, Counted
<1>2. l.tab \in Nat /\ l.node \in Nat
  BY Sizes DEF TypeInv, VarsTyped, Hold
<1>3. ASSUME ~Awaits(run') \/ UNCHANGED <<run, graph, ran>>
      PROVE  DiskAhead(r)'
  BY <1>1, <1>3 DEF DiskAhead
<1>4. CASE Continue(w)
  <2>1. /\ Rest(w) /\ pc[w] = "continue" /\ pc'[w] = "table" /\ loc'[w].mem.status = "running"
        /\ run' = loc'[w].mem /\ UNCHANGED ran
    BY <1>4, ContinueDoes
  <2>2. ~Awaits(run')
    BY <2>1 DEF Awaits
  <2> QED
    BY <1>1, <1>3, <2>1, <2>2 DEF WorkAhead, Rest
<1>5. CASE BeginTable(w)
  <2> PICK t \in Tables : t = loc'[w].tab
    BY <1>5, BeginTableDoes
  <2>0. /\ pc[w] = "table" /\ pc'[w] = "node" /\ loc[w].tab < loc'[w].tab /\ loc'[w].node = 1
        /\ UNCHANGED <<run, ran>>
    BY <1>5, BeginTableDoes
  <2>1. ~Awaits(run')
    BY <1>1, <2>0 DEF WorkAlone
  <2>2. Unrun(t, 1, ran, r)
    <3> PICK k \in Nat : k = loc[w].tab
      BY <1>2
    <3>1. Unrun(k + 1, 0, ran, r) /\ k < t
      BY <1>1, <2>0 DEF WorkAhead
    <3>2. t \in Nat /\ (t > k + 1 \/ (t = k + 1 /\ 1 >= 0))
      BY <3>1, Sizes DEF Tables
    <3> QED
      BY <3>1, <3>2, UnrunLater
  <2> QED
    BY <1>1, <1>3, <2>0, <2>1, <2>2 DEF WorkAhead
<1>6. CASE RejectSpec(w) \/ BatchCancelled(w) \/ BatchCompletes(w) \/ SeqCancelled(w) \/ SeqFails(w)
  <2>1. pc'[w] = "final" /\ loc'[w].mem.status \in Terminal /\ UNCHANGED <<run, graph, ran>>
    BY <1>6, StopsDoes
  <2>2. ~Awaits(loc'[w].mem)
    BY <2>1 DEF Awaits, Terminal
  <2> QED
    BY <1>1, <1>3, <2>1, <2>2 DEF WorkAhead
<1>7. CASE Final(w)
  <2>1. /\ pc[w] = "final" /\ pc'[w] = "ended" /\ run' = m /\ m \in RunType
        /\ Awaits(run') => UNCHANGED graph
        /\ UNCHANGED ran
    BY <1>7, FinalDoes
  <2>2. ASSUME Awaits(run')
        PROVE  DiskAhead(r)'
    <3>1. /\ Unrun(m.paused, graph[m.paused].next, ran, r) /\ m.paused \in Tables
          /\ graph[m.paused] # None
      BY <1>1, <2>1, <2>2 DEF WorkAhead, WorkAlone, Stands, TypeInv, PhaseOf, IsRecord
    <3> PICK t \in Tables, n \in Nat : t = m.paused /\ n = graph[m.paused].next
      BY <3>1, Sizes DEF TypeInv, VarsTyped, GraphTyped, Checkpoint
    <3>2. Unrun(t + 1, 0, ran, r)
      <4>1. t \in Nat /\ t + 1 \in Nat /\ t + 1 > t
        BY Sizes DEF Tables
      <4> QED
        BY <3>1, <4>1, UnrunLater
    <3> QED
      BY <2>1, <2>2, <3>1, <3>2 DEF DiskAhead
  <2> QED
    BY <1>1, <1>3, <2>1, <2>2 DEF WorkAhead
<1>8. CASE RunNode(w)
  <2> PICK t \in Tables, n \in Nodes : t = loc[w].tab /\ n = loc[w].node
    BY <1>8, RunNodeDoes
  <2> DEFINE g == [next |-> n + 1, steps |-> loc'[w].steps]
  <2>0. /\ pc[w] = "node" /\ pc'[w] \in {"node", "finished"}
        /\ loc'[w].tab = t /\ loc'[w].node = n + 1
        /\ graph' = [graph EXCEPT ![t] = g] /\ ActsOn(t, n) /\ UNCHANGED run
    BY <1>8, RunNodeDoes
  <2>1. g.next = n + 1
    OBVIOUS
  <2> HIDE DEF g
  <2>2. graph'[t] = g
    BY <2>0 DEF TypeInv, VarsTyped, GraphTyped
  <2>3. Unrun(t, n, ran, r)
    BY <1>1, <2>0 DEF WorkAhead
  <2>4. Unrun(t, n + 1, ran', r) /\ Unrun(t + 1, 0, ran', r) /\ Bound
    BY <1>1, <2>0, <2>3, ActsCount
  <2>5. WorkAhead(w, r)'
    BY <2>0, <2>4 DEF WorkAhead
  <2>6. Awaits(run) => run.paused = t
    BY <1>1, <2>0 DEF WorkAlone
  <2>7. DiskAhead(r)'
    BY <2>0, <2>1, <2>2, <2>4, <2>6 DEF DiskAhead
  <2> QED
    BY <2>4, <2>5, <2>7
<1>9. CASE PauseTable(w)
  <2> PICK t \in Tables, n \in Nodes : t = loc[w].tab /\ n = loc[w].node
    BY <1>9, PauseTableDoes DEF TypeInv, PhaseOf
  <2>1. /\ pc[w] = "node" /\ run'.paused = t
        /\ pc'[w] \in {"ended", "final"} /\ (pc'[w] = "final" => loc'[w].mem = run')
        /\ UNCHANGED <<graph, ran>>
    BY <1>9, PauseTableDoes DEF TypeInv, VarsTyped, Hold
  <2>2. Unrun(t, n, ran, r) /\ graph[t].next = n
    BY <1>1, <2>1 DEF WorkAhead, WorkAlone
  <2>3. Unrun(t + 1, 0, ran, r)
    <3>1. t \in Nat /\ t + 1 \in Nat /\ n \in Nat /\ t + 1 > t
      BY Sizes DEF Tables, Nodes
    <3> QED
      BY <2>2, <3>1, UnrunLater
  <2> QED
    BY <1>1, <2>1, <2>2, <2>3 DEF DiskAhead, WorkAhead
<1>10. CASE FailTable(w)
  <2>1. pc[w] \in {"node", "lost"} /\ UNCHANGED <<graph, ran>>
    BY <1>10, FailTableDoes
  <2>2. CASE l.resuming
    <3>1. pc'[w] = "ended" /\ run'.status = "failed"
      BY <1>10, <2>2, FailTableDoes
    <3> QED
      BY <1>1, <1>3, <2>1, <3>1 DEF WorkAhead, Awaits
  <2>3. CASE ~l.resuming
    <3>1. pc'[w] = "final" /\ UNCHANGED run /\ loc'[w].mem.status = "failed"
      BY <1>10, <2>3, FailTableDoes
    <3> QED
      BY <1>1, <1>3, <2>1, <3>1 DEF WorkAhead, Awaits
  <2> QED
    BY <2>2, <2>3
<1>11. CASE FinishTable(w)
  <2> PICK t \in Tables, n \in Nat : t = loc[w].tab /\ n = loc[w].node
    BY <1>2, <1>11, FinishTableDoes
  <2>1. /\ pc[w] \in {"node", "finished"} /\ loc'[w].tab = t
        /\ loc'[w].mem.status = m.status
        /\ pc'[w] \in {"continue", "table"} /\ UNCHANGED <<graph, ran>>
    BY <1>11, FinishTableDoes DEF Rest, TypeInv, VarsTyped, Hold
  <2>2. Unrun(t + 1, 0, ran, r)
    <3>1. CASE pc[w] = "finished"
      BY <1>1, <3>1 DEF WorkAhead
    <3>2. CASE pc[w] = "node"
      <4>1. Unrun(t, n, ran, r)
        BY <1>1, <3>2 DEF WorkAhead
      <4>2. t \in Nat /\ t + 1 \in Nat /\ t + 1 > t
        BY Sizes DEF Tables
      <4> QED
        BY <4>1, <4>2, UnrunLater
    <3> QED
      BY <2>1, <3>1, <3>2
  <2>3. WorkAhead(w, r)'
    BY <2>1, <2>2 DEF WorkAhead
  <2>4. ~Awaits(run') \/ UNCHANGED run
    BY <1>11, <2>1, FinishTableDoes DEF TypeInv, VarsTyped, Hold, PhaseOf, Awaits
  <2> QED
    BY <1>1, <1>3, <2>1, <2>3, <2>4
<1>12. CASE SeqStart(w)
  <2> PICK t \in Nat, n \in Nat : t = loc[w].tab /\ n = loc[w].node
    BY <1>2
  <2>1. /\ pc[w] = "seq" /\ pc'[w] = "step" /\ run' = loc'[w].mem
        /\ loc'[w].mem.status = "running" /\ UNCHANGED ran
        /\ loc'[w].tab = (IF t = 0 THEN 1 ELSE t) /\ loc'[w].node = n + 1
    BY <1>12, SeqStartDoes
  <2>2. Unrun(t, n + 1, ran, r)
    BY <1>1, <2>1 DEF WorkAhead
  <2> PICK u \in Nat : u = IF t = 0 THEN 1 ELSE t
    OBVIOUS
  <2>3. Unrun(u, n + 1, ran, r)
    BY <2>2, UnrunLater, n + 1 \in Nat, u > t \/ u = t, n + 1 >= n + 1
  <2> QED
    BY <1>1, <1>3, <2>1, <2>3 DEF WorkAhead, Awaits
<1>13. CASE SeqStep(w)
  <2> PICK t \in Tables, n \in Nodes : t = loc[w].tab /\ n = loc[w].node
    BY <1>13, SeqStepDoes
  <2>0. /\ pc[w] = "step" /\ ActsOn(loc[w].tab, loc[w].node) /\ run'.status = "running"
        /\ pc'[w] \in {"final", "seq"} /\ loc'[w].mem.status \in {"completed", "running"}
        /\ loc'[w].tab = (IF loc[w].node = Len(Kind) THEN loc[w].tab + 1 ELSE loc[w].tab)
        /\ loc'[w].node = (IF loc[w].node = Len(Kind) THEN 0 ELSE loc[w].node)
    BY <1>13, SeqStepDoes
  <2>1. /\ ActsOn(t, n)
        /\ loc'[w].tab = (IF n = Len(Kind) THEN t + 1 ELSE t)
        /\ loc'[w].node = (IF n = Len(Kind) THEN 0 ELSE n)
    BY <2>0
  <2>2. Unrun(t, n, ran, r)
    BY <1>1, <2>0 DEF WorkAhead
  <2>3. Unrun(t, n + 1, ran', r) /\ Unrun(t + 1, 0, ran', r) /\ Bound
    BY <1>1, <2>1, <2>2, ActsCount
  <2>4. Unrun(t + 1, 0 + 1, ran', r)
    <3>1. t + 1 \in Nat /\ 0 + 1 \in Nat /\ 0 + 1 >= 0
      BY Sizes DEF Tables
    <3> QED
      BY <2>3, <3>1, UnrunLater
  <2>5. WorkAhead(w, r)'
    BY <2>0, <2>1, <2>3, <2>4 DEF WorkAhead, Awaits
  <2>6. DiskAhead(r)'
    BY <1>3, <2>0 DEF Awaits
  <2> QED
    BY <2>3, <2>5, <2>6
<1> QED
  BY <1>4, <1>5, <1>6, <1>7, <1>8, <1>9, <1>10, <1>11, <1>12, <1>13 DEF Works

\* Nothing lies ahead of a worker that is at rest.
LEMMA RestIsAhead ==
    ASSUME NEW w \in Workers, NEW r, ~InFlight(w)'
    PROVE  WorkAhead(w, r)'
BY DEF InFlight, AtRest, WorkAhead

LEMMA CountKept ==
    ASSUME TypeInv, TypeInv', StartInv, AloneInv, CountInv, [Next]_vars
    PROVE  CountInv'
<1> PICK B, r : B = Begun /\ r = Cardinality(B)
  OBVIOUS
<1>0. /\ IsFiniteSet(B) /\ r \in Nat
      /\ ~overlapped => Counted(r)
  BY FS_CardinalityType DEF CountInv
<1>1. ASSUME Begun' = B, ~overlapped' => Counted(r)'
      PROVE  CountInv'
  BY <1>0, <1>1 DEF CountInv
<1>2. ASSUME NEW w \in Workers, Works(w)
      PROVE  CountInv'
  <2>1. Only(w) /\ InFlight(w) /\ pc'[w] # "idle"
    BY <1>2, WorkEffects
  <2>2. Begun' = B
    BY <2>1, Callers DEF Begun, Only, InFlight, AtRest
  <2>3. ASSUME ~overlapped'
        PROVE  Counted(r)'
    <3>1. ~overlapped /\ \A v \in Workers \ {w} : ~InFlight(v)
      BY <1>2, <2>3, MovesAlone
    <3>2. /\ \A t \in Tables, n \in Nodes : ran'[t][n] <= 1 + r
          /\ DiskAhead(r)' /\ WorkAhead(w, r)'
      BY <1>0, <1>2, <3>1, WorkCounts
    <3>3. ASSUME NEW v \in Workers, v # w
          PROVE  WorkAhead(v, r)'
      <4>1. ~InFlight(v) /\ pc'[v] = pc[v]
        BY <2>1, <3>1, <3>3 DEF Only
      <4>2. ~InFlight(v)'
        BY <4>1 DEF InFlight
      <4> QED
        BY <4>2, RestIsAhead
    <3> QED
      BY <3>2, <3>3 DEF Counted
  <2> QED
    BY <1>1, <2>2, <2>3
<1>3. ASSUME NEW w \in Workers, Only(w), TakesToken(w), ~overlapped', UNCHANGED ran, NEW q \in Nat,
             \A t \in Tables, n \in Nodes : ran[t][n] <= 1 + q,
             DiskAhead(q)', WorkAhead(w, q)'
      PROVE  Counted(q)'
  <2>1. ASSUME NEW v \in Workers, v # w
        PROVE  WorkAhead(v, q)'
    <3>1. ~InFlight(v) /\ pc'[v] = pc[v]
      BY <1>3, <2>1, StartsAlone DEF Only
    <3>2. ~InFlight(v)'
      BY <3>1 DEF InFlight
    <3> QED
      BY <3>2, RestIsAhead
  <2> QED
    BY <1>3, <2>1 DEF Counted
<1>4. ASSUME NEW w \in Batches, RunBatch(w)
      PROVE  CountInv'
  <2>1. /\ w \in Workers /\ w \notin Recoveries /\ Only(w) /\ TakesToken(w)
        /\ run = None /\ run' = NewRun /\ UNCHANGED ran
    BY <1>4, RunBatchDoes, Callers
  <2>2. Begun' = B
    BY <2>1, Callers DEF Begun, Only
  <2>3. \A t \in Tables, n \in Nodes : ran'[t][n] = 0 /\ ran[t][n] = 0
    BY <2>1 DEF StartInv
  <2>4. /\ \A t, n : Unrun(t, n, ran', r)
        /\ \A t \in Tables, n \in Nodes : ran[t][n] <= 1 + r
    BY <1>0, <2>3 DEF Unrun
  <2>5. ~Awaits(run')
    BY <2>1, NewRunIsRecord DEF Awaits
  <2>6. WorkAhead(w, r)' /\ DiskAhead(r)'
    BY <2>4, <2>5 DEF WorkAhead, DiskAhead
  <2> QED
    BY <1>0, <1>1, <1>3, <2>1, <2>2, <2>4, <2>6
<1>5. ASSUME NEW w \in Recoveries, Recover(w)
      PROVE  CountInv'
  <2>1. /\ w \in Workers /\ Only(w) /\ TakesToken(w) /\ pc[w] = "idle" /\ pc'[w] = "continue"
        /\ UNCHANGED ran
    BY <1>5, RecoverDoes, Callers
  <2>2. Begun' = B \cup {w} /\ w \notin B
    BY <2>1, Callers DEF Begun, Only
  <2>3. IsFiniteSet(Begun') /\ Cardinality(Begun') = r + 1
    BY <1>0, <2>2, FS_AddElement
  <2>4. ASSUME ~overlapped'
        PROVE  Counted(r + 1)'
    <3>1. \A t \in Tables, n \in Nodes : ran[t][n] <= 1 + r /\ ran[t][n] \in Nat
      BY <1>0, <2>1, <2>4, StartsAlone DEF Counted, TypeInv, VarsTyped
    <3>2. /\ \A t, n : Unrun(t, n, ran', r + 1)
          /\ \A t \in Tables, n \in Nodes : ran[t][n] <= 1 + (r + 1)
          /\ r + 1 \in Nat
      BY <1>0, <2>1, <3>1 DEF Unrun
    <3>3. WorkAhead(w, r + 1)' /\ DiskAhead(r + 1)'
      BY <3>2 DEF WorkAhead, DiskAhead
    <3> QED
      BY <1>3, <2>1, <2>4, <3>2, <3>3
  <2> QED
    BY <2>3, <2>4 DEF CountInv
<1>6. ASSUME NEW w \in Resumes, NEW answer \in Answers, ResumeBatch(w, answer)
      PROVE  CountInv'
  <2>0. run.paused \in Tables
    BY <1>6, ResumeBatchDoes
  <2> PICK t \in Tables : t = run.paused
    BY <2>0
  <2>1. /\ w \in Workers /\ w \notin Recoveries /\ Only(w) /\ TakesToken(w)
        /\ run # None /\ Awaits(run) /\ loc'[w].tab = t
        /\ UNCHANGED <<run, graph, ran>>
    BY <1>6, ResumeBatchDoes, Callers
  <2>2. /\ graph[t] = None => pc'[w] = "lost"
        /\ graph[t] # None => pc'[w] \in {"node", "finished"} /\ loc'[w].node = graph[t].next
    BY <1>6, ResumeBatchDoes
  <2>3. Begun' = B
    BY <2>1, Callers DEF Begun, Only
  <2>4. ASSUME ~overlapped'
        PROVE  Counted(r)'
    <3>1. Counted(r)
      BY <1>0, <2>1, <2>4, StartsAlone
    <3>2. DiskAhead(r)'
      BY <2>1, <3>1 DEF Counted, DiskAhead
    <3>3. /\ Unrun(t + 1, 0, ran, r)
          /\ graph[t] # None => Unrun(t, graph[t].next, ran, r)
      BY <2>1, <3>1 DEF Counted, DiskAhead
    <3>4. WorkAhead(w, r)'
      BY <2>1, <2>2, <3>3 DEF WorkAhead
    <3> QED
      BY <1>0, <1>3, <2>1, <2>4, <3>1, <3>2, <3>4 DEF Counted
  <2> QED
    BY <1>1, <2>3, <2>4
<1>7. ASSUME NEW c \in Cancels, CancelLoad(c) \/ CancelToken(c) \/ CancelSave(c)
      PROVE  CountInv'
  <2>1. OnlyCancel(c) /\ (run' = run \/ run'.status = "cancelled")
    BY <1>7, CancelDoes
  <2>2. UNCHANGED <<loc, graph, ran, overlapped>> /\ \A w \in Workers : pc'[w] = pc[w]
    BY <2>1 DEF OnlyCancel
  <2>3. Begun' = B
    BY <2>2, Callers DEF Begun
  <2>4. Counted(r) => Counted(r)'
    <3>1. run' = run \/ ~Awaits(run')
      BY <2>1 DEF Awaits
    <3>2. DiskAhead(r) => DiskAhead(r)'
      BY <2>2, <3>1 DEF DiskAhead
    <3>3. ASSUME NEW w \in Workers, WorkAhead(w, r)
          PROVE  WorkAhead(w, r)'
      BY <2>2, <3>3 DEF WorkAhead
    <3> QED
      BY <2>2, <3>2, <3>3 DEF Counted
  <2> QED
    BY <1>0, <1>1, <2>2, <2>3, <2>4
<1>8. CASE Crash
  <2>1. /\ graph' \in {graph, NoGraphs} /\ UNCHANGED <<run, ran, overlapped>>
        /\ \A w \in Workers : pc'[w] \in AtRest /\ (pc'[w] = "idle" <=> pc[w] = "idle")
    BY <1>8, CrashDoes DEF InFlight, AtRest
  <2>2. Begun' = B
    BY <2>1, Callers DEF Begun
  <2>3. Counted(r) => Counted(r)'
    <3>1. \A w \in Workers : WorkAhead(w, r)'
      BY <2>1, RestIsAhead DEF InFlight
    <3>2. run # None /\ Awaits(run) => run.paused \in Tables
      BY DEF TypeInv, VarsTyped, IsRecord
    <3>3. DiskAhead(r) => DiskAhead(r)'
      BY <2>1, <3>2 DEF DiskAhead, NoGraphs
    <3> QED
      BY <2>1, <3>1, <3>3 DEF Counted
  <2> QED
    BY <1>0, <1>1, <2>1, <2>2, <2>3
<1>9. CASE UNCHANGED vars
  BY <1>9 DEF vars, disk, history, CountInv, Begun, Counted, DiskAhead, WorkAhead
<1> QED
  BY <1>2, <1>4, <1>5, <1>6, <1>7, <1>8, <1>9 DEF Next

\* A pause, a resume and a table that was skipped never make a node run again:
\* as long as no two workers overlap, each node of each table runs once, and
\* once more at most for every recovery (resume_batch goes on from the
\* checkpoint, _continue_langgraph_batch after the last table recorded).
THEOREM NodesRunOnce == Spec => []NodesRunOncePerRecovery
<1> DEFINE I == TypeInv /\ StartInv /\ AloneInv /\ CountInv
<1>1. Init => I
  <2> SUFFICES ASSUME Init
               PROVE  I
    OBVIOUS
  <2>1. /\ run = None /\ \A w \in Workers : pc[w] = "idle"
        /\ \A t \in Tables, n \in Nodes : ran[t][n] = 0
    BY DEF Init
  <2>2. Begun = {} /\ IsFiniteSet(Begun) /\ Cardinality(Begun) = 0
    BY <2>1, Callers, FS_EmptySet DEF Begun
  <2>3. Counted(0)
    BY <2>1 DEF Counted, DiskAhead, WorkAhead
  <2> QED
    BY <2>2, <2>3, InitAlone DEF CountInv
<1>2. I /\ [Next]_vars => I'
  BY StepTyped, StartKept, AloneKept, CountKept
<1>3. I => NodesRunOncePerRecovery
  BY DEF CountInv, Counted, Begun, NodesRunOncePerRecovery
<1> QED
  BY <1>1, <1>2, <1>3, PTL DEF Spec

-------------------------------------------------------------------------------
(* What a cancellation stops. *)

\* As long as no process died and no two workers overlapped, a worker in flight
\* holds the token that is current, and so would the resume of a batch that
\* waits; the current token of a batch that was cancelled, if there is one, is
\* cancelled.
InTouch == ~overlapped /\ crashes = 0

Holds(w) == InFlight(w) => loc[w].token = tokens.current /\ tokens.current # 0

Reached(c) ==
    /\ pc[c] \in {"token", "save", "ended"} => run # None
    /\ pc[c] \in {"save", "ended"} => tokens.current \in {0} \cup tokens.cancelled

TokenInv ==
    InTouch => /\ \A w \in Workers : Holds(w)
               /\ run # None /\ Awaits(run) => tokens.current # 0
               /\ \A c \in Cancels : Reached(c)

\* A worker keeps its token until it returns, and leaves it in the store when
\* its batch waits.
LEMMA WorkTokens ==
    ASSUME TypeInv, NEW w \in Workers, Works(w)
    PROVE  /\ TokenKept
           /\ UNCHANGED tokens \/ ~Awaits(run')
           /\ pc'[w] = "ended" \/ (UNCHANGED tokens /\ loc'[w].token = loc[w].token)
<1>0. UNCHANGED tokens => TokenKept
  BY DEF TokenKept, TypeInv, VarsTyped, TokensTyped
<1>1. CASE Continue(w)
  BY <1>0, <1>1, ContinueDoes DEF Rest
<1>2. CASE BeginTable(w)
  BY <1>0, <1>2, BeginTableDoes
<1>3. CASE RejectSpec(w) \/ BatchCancelled(w) \/ BatchCompletes(w) \/ SeqCancelled(w) \/ SeqFails(w)
  BY <1>0, <1>3, StopsDoes DEF Rest
<1>4. CASE Final(w)
  BY <1>4, FinalDoes
<1>5. CASE RunNode(w)
  BY <1>0, <1>5, RunNodeDoes
<1>6. CASE PauseTable(w)
  BY <1>0, <1>6, PauseTableDoes DEF Rest, TypeInv, VarsTyped, Hold
<1>7. CASE FailTable(w)
  BY <1>0, <1>7, FailTableDoes DEF Rest, Awaits, TypeInv, VarsTyped, Hold
<1>8. CASE FinishTable(w)
  BY <1>0, <1>8, FinishTableDoes DEF Rest
<1>9. CASE SeqStart(w)
  BY <1>0, <1>9, SeqStartDoes
<1>10. CASE SeqStep(w)
  BY <1>0, <1>10, SeqStepDoes
<1> QED
  BY <1>1, <1>2, <1>3, <1>4, <1>5, <1>6, <1>7, <1>8, <1>9, <1>10 DEF Works

\* A worker that has just taken the token is in touch with the store.
LEMMA StartsInTouch ==
    ASSUME SharedStore, TypeInv, TokenInv, NEW w \in Workers, Only(w), TakesToken(w),
           UNCHANGED crashes, run' # None,
           \/ \A c \in Cancels : pc[c] \notin {"save", "ended"}
           \/ tokens.current # 0 /\ run # None
    PROVE  TokenInv'
<1> SUFFICES ASSUME InTouch'
             PROVE  TokenInv'
  BY DEF TokenInv
<1>1. InTouch /\ \A v \in Workers : ~InFlight(v)
  BY StartsAlone DEF InTouch, Only
<1>2. /\ tokens'.current # 0 /\ loc'[w].token = tokens'.current
      /\ tokens'.cancelled = tokens.cancelled
      /\ tokens.current # 0 => tokens'.current = tokens.current
  BY DEF TakesToken
<1>3. Holds(w)'
  BY <1>2 DEF Holds
<1>4. ASSUME NEW v \in Workers, v # w
      PROVE  Holds(v)'
  BY <1>1, <1>4 DEF Holds, InFlight, Only
<1>5. ASSUME NEW c \in Cancels
      PROVE  Reached(c)'
  <2>1. pc'[c] = pc[c] /\ Reached(c)
    BY <1>1 DEF Only, TokenInv
  <2> QED
    BY <1>2, <2>1 DEF Reached
<1> QED
  BY <1>2, <1>3, <1>4, <1>5 DEF TokenInv

LEMMA TokensFollow ==
    ASSUME SharedStore, TypeInv, TypeInv', StartInv, AloneInv, TokenInv, [Next]_vars
    PROVE  TokenInv'
<1> SUFFICES ASSUME InTouch'
             PROVE  TokenInv'
  BY DEF TokenInv
<1>1. ASSUME NEW w \in Workers, Works(w)
      PROVE  TokenInv'
  <2>1. /\ Only(w) /\ InFlight(w) /\ (run' = run \/ run' \in RunType)
        /\ UNCHANGED <<overlapped, crashes>>
    BY <1>1, WorkEffects
  <2>2. InTouch /\ \A v \in Workers \ {w} : ~InFlight(v)
    BY <1>1, <2>1, MovesAlone DEF InTouch
  <2>3. /\ TokenKept
        /\ UNCHANGED tokens \/ ~Awaits(run')
        /\ pc'[w] = "ended" \/ (UNCHANGED tokens /\ loc'[w].token = loc[w].token)
    BY <1>1, WorkTokens
  <2>4. Holds(w) /\ tokens.current # 0 /\ \A c \in Cancels : Reached(c)
    BY <2>1, <2>2 DEF TokenInv, Holds
  <2>5. Holds(w)'
    BY <2>1, <2>3, <2>4 DEF Holds, InFlight, AtRest
  <2>6. ASSUME NEW v \in Workers, v # w
        PROVE  Holds(v)'
    BY <2>1, <2>2, <2>6 DEF Holds, InFlight, Only
  <2>7. ASSUME NEW c \in Cancels
        PROVE  Reached(c)'
    <3>1. pc'[c] = pc[c] /\ Reached(c)
      BY <2>1, <2>4 DEF Only
    <3>2. run # None => run' # None
      BY <2>1, NoneIsNoValue
    <3> QED
      BY <2>3, <3>1, <3>2 DEF Reached, TokenKept
  <2> QED
    BY <2>3, <2>4, <2>5, <2>6, <2>7 DEF TokenInv
<1>2. ASSUME NEW w \in Batches, RunBatch(w)
      PROVE  TokenInv'
  <2>1. /\ w \in Workers /\ Only(w) /\ TakesToken(w) /\ run = None /\ run' = NewRun
        /\ UNCHANGED crashes
    BY <1>2, RunBatchDoes, Callers
  <2>2. InTouch
    BY <2>1, StartsAlone DEF InTouch
  <2>3. \A c \in Cancels : pc[c] \notin {"save", "ended"}
    BY <2>1, <2>2 DEF TokenInv, Reached
  <2>4. run' # None
    BY <2>1, NewRunIsRecord, NoneIsNoValue
  <2> QED
    BY <2>1, <2>3, <2>4, StartsInTouch
<1>3. ASSUME NEW w \in Recoveries, Recover(w)
      PROVE  TokenInv'
  BY <1>3, RecoverDoes DEF InTouch, TypeInv, VarsTyped
<1>4. ASSUME NEW w \in Resumes, NEW answer \in Answers, ResumeBatch(w, answer)
      PROVE  TokenInv'
  <2>1. /\ w \in Workers /\ Only(w) /\ TakesToken(w) /\ run # None /\ Awaits(run)
        /\ UNCHANGED <<run, crashes>>
    BY <1>4, ResumeBatchDoes, Callers
  <2>2. InTouch
    BY <2>1, StartsAlone DEF InTouch
  <2>3. tokens.current # 0
    BY <2>1, <2>2 DEF TokenInv
  <2> QED
    BY <2>1, <2>3, StartsInTouch
<1>5. ASSUME NEW c \in Cancels, CancelLoad(c) \/ CancelToken(c) \/ CancelSave(c)
      PROVE  TokenInv'
  <2>1. OnlyCancel(c)
    BY <1>5, CancelDoes
  <2>2. /\ UNCHANGED <<loc, overlapped, crashes>> /\ \A w \in Workers : pc'[w] = pc[w]
        /\ \A d \in Cancels \ {c} : pc'[d] = pc[d]
    BY <2>1 DEF OnlyCancel
  <2>3. /\ InTouch /\ \A w \in Workers : Holds(w)
        /\ run # None /\ Awaits(run) => tokens.current # 0
        /\ \A d \in Cancels : Reached(d)
    BY <2>2 DEF InTouch, TokenInv
  <2>4. /\ tokens.current # 0 => tokens'.current = tokens.current
        /\ tokens.cancelled \subseteq tokens'.cancelled
        /\ tokens' = tokens \/ tokens'.current \in tokens'.cancelled
        /\ run' = run \/ (run' # None /\ ~Awaits(run'))
    BY <1>5, CancelDoes, NoneIsNoValue DEF Awaits
  <2>5. Reached(c)'
    <3>1. \/ pc[c] = "idle" /\ run # None /\ pc'[c] \in {"refused", "token"} /\ UNCHANGED run
          \/ pc[c] = "token" /\ pc'[c] = "save" /\ UNCHANGED run /\ tokens'.current \in tokens'.cancelled
          \/ pc[c] = "save" /\ pc'[c] = "ended" /\ UNCHANGED tokens
      BY <1>5, CancelDoes
    <3>2. Reached(c)
      BY <2>3
    <3> QED
      BY <2>4, <3>1, <3>2 DEF Reached
  <2>6. ASSUME NEW d \in Cancels, d # c
        PROVE  Reached(d)'
    <3>1. Reached(d) /\ pc'[d] = pc[d]
      BY <2>2, <2>3, <2>6
    <3> QED
      BY <2>4, <3>1 DEF Reached
  <2>7. ASSUME NEW w \in Workers
        PROVE  Holds(w)'
    <3>1. Holds(w) /\ pc'[w] = pc[w] /\ loc'[w] = loc[w]
      BY <2>2, <2>3
    <3> QED
      BY <2>4, <3>1 DEF Holds, InFlight
  <2>8. run' # None /\ Awaits(run') => tokens'.current # 0
    BY <2>3, <2>4
  <2> QED
    BY <2>5, <2>6, <2>7, <2>8 DEF TokenInv
<1>6. CASE Crash
  BY <1>6, CrashDoes DEF InTouch, TypeInv, VarsTyped
<1>7. CASE UNCHANGED vars
  BY <1>7 DEF vars, disk, bounds, TokenInv, InTouch, Holds, Reached, InFlight
<1> QED
  BY <1>1, <1>2, <1>3, <1>4, <1>5, <1>6, <1>7 DEF Next

\* The token is looked at before anything is entered.
LEMMA EntersUncancelled ==
    ASSUME TypeInv, NEW w \in Workers, Works(w),
           pc[w] \in {"table", "seq"}, pc'[w] \in {"node", "step"}
    PROVE  ~Cancelled(w)
<1>1. CASE BeginTable(w)
  BY <1>1, BeginTableDoes
<1>2. CASE SeqStart(w)
  BY <1>2, SeqStartDoes
<1>3. CASE RejectSpec(w) \/ BatchCancelled(w) \/ BatchCompletes(w) \/ SeqCancelled(w) \/ SeqFails(w)
  BY <1>3, StopsDoes
<1>4. CASE \/ Continue(w) \/ Final(w) \/ RunNode(w) \/ PauseTable(w) \/ FailTable(w)
           \/ FinishTable(w) \/ SeqStep(w)
  BY <1>4, ContinueDoes, FinalDoes, RunNodeDoes, PauseTableDoes, FailTableDoes, FinishTableDoes,
     SeqStepDoes
<1> QED
  BY <1>1, <1>2, <1>3, <1>4 DEF Works

\* Only a worker's own step takes it into a table or a node.
LEMMA EntersItself ==
    ASSUME TypeInv, [Next]_vars, NEW w \in Workers,
           pc[w] \in {"table", "seq"}, pc'[w] \in {"node", "step"}
    PROVE  Works(w)
<1>1. ASSUME NEW v \in Workers, Works(v)
      PROVE  Works(w)
  BY <1>1, WorkEffects DEF Only
<1>2. ASSUME NEW v \in Workers, Only(v), ~InFlight(v)
      PROVE  FALSE
  BY <1>2 DEF Only, InFlight, AtRest
<1>3. ASSUME NEW v \in Batches, RunBatch(v)
      PROVE  FALSE
  BY <1>2, <1>3, RunBatchDoes, Callers DEF InFlight, AtRest
<1>4. ASSUME NEW v \in Recoveries, Recover(v)
      PROVE  FALSE
  BY <1>2, <1>4, RecoverDoes, Callers DEF InFlight, AtRest
<1>5. ASSUME NEW v \in Resumes, NEW answer \in Answers, ResumeBatch(v, answer)
      PROVE  FALSE
  BY <1>2, <1>5, ResumeBatchDoes, Callers
<1>6. ASSUME NEW c \in Cancels, CancelLoad(c) \/ CancelToken(c) \/ CancelSave(c)
      PROVE  FALSE
  BY <1>6, CancelDoes DEF OnlyCancel
<1>7. CASE Crash
  BY <1>7, CrashDoes DEF InFlight, AtRest
<1>8. CASE UNCHANGED vars
  BY <1>8 DEF vars
<1> QED
  BY <1>1, <1>3, <1>4, <1>5, <1>6, <1>7, <1>8 DEF Next

\* After a caller was told that the run is cancelled, no worker enters another
\* table or node, as long as all callers use one LineageStore, no two workers
\* overlapped and no process died (request_cancel, cancellation_token,
\* _continue_langgraph_batch, _run_sequential).
THEOREM NothingStarts == ASSUME SharedStore PROVE Spec => NothingStartsAfterCancel
<1> DEFINE I == TypeInv /\ StartInv /\ AloneInv /\ TokenInv
<1>1. Init => I
  <2> SUFFICES ASSUME Init
               PROVE  I
    OBVIOUS
  <2>1. run = None /\ \A c \in Workers \cup Cancels : pc[c] = "idle"
    BY DEF Init
  <2> QED
    BY <2>1, InitAlone DEF TokenInv, Holds, Reached, InFlight, AtRest
<1>2. I /\ [Next]_vars => I'
  BY StepTyped, StartKept, AloneKept, TokensFollow
<1>3. ASSUME I, [Next]_vars, NEW w \in Workers,
             pc[w] \in {"table", "seq"}, pc'[w] \in {"node", "step"}, ~overlapped, crashes = 0,
             NEW c \in Cancels, pc[c] = "ended"
      PROVE  FALSE
  <2>1. ~Cancelled(w)
    BY <1>3, EntersItself, EntersUncancelled
  <2>2. InFlight(w)
    BY <1>3 DEF InFlight, AtRest
  <2>3. loc[w].token = tokens.current /\ tokens.current # 0 /\ tokens.current \in tokens.cancelled
    BY <1>3, <2>2 DEF TokenInv, InTouch, Holds, Reached
  <2> QED
    BY <2>1, <2>3 DEF Cancelled
<1>4. I /\ [Next]_vars =>
        [\A w \in Workers :
            pc[w] \in {"table", "seq"} /\ pc'[w] \in {"node", "step"} /\ ~overlapped /\ crashes = 0 =>
                \A c \in Cancels : pc[c] # "ended"]_vars
  BY <1>3
<1> QED
  BY <1>1, <1>2, <1>4, PTL DEF Spec, NothingStartsAfterCancel
=============================================================================
