------------------------------ MODULE AgentBatch ------------------------------
(***************************************************************************)
(* One agent batch: a pipeline of nodes run over a list of tables by       *)
(* BatchExecutor, its record in LineageStore, the LangGraph checkpoints    *)
(* that survive a pause, and the callers that start, resume, recover and   *)
(* cancel it. Each caller works on a copy of the record and saves it whole *)
(* at the points the code saves it.                                        *)
(*                                                                         *)
(* LangGraph is external: it checkpoints after each node, stops where a    *)
(* node calls interrupt(), starts over when invoked with an initial state  *)
(* and goes on from the checkpoint when invoked with Command(resume).      *)
(* What the tools of the nodes do is abstracted to whether they wrote or   *)
(* published, and to the status their step ends with.                      *)
(***************************************************************************)
EXTENDS Naturals, Sequences, FiniteSets

CONSTANTS
    NumTables,    \* the tables of the batch are 1..NumTables, in order
    Kind,         \* the node kinds of the pipeline, in topological order
    Batches,      \* callers that start the batch (at most one gets to)
    Resumes,      \* request threads that answer pauses
    Recoveries,   \* callers of run(resume=True)
    Cancels,      \* callers of request_cancel
    Modes,        \* agents.batch_executor may be set to these
    SharedStore,  \* do all callers use one LineageStore object?
    MaxFaults,    \* bound: how many cancel calls and crashes there are together
    MaxAnswers,   \* bound: how often a pause is answered
    None

Tables == 1..NumTables
Nodes == 1..Len(Kind)
Workers == Batches \cup Resumes \cup Recoveries
Terminal == {"completed", "cancelled", "failed"}
StepStatus == {"done", "skipped", "failed"}
TaskStatuses == StepStatus \cup {"planned", "running", "cancelled"}

\* run.json: the status of the batch and of its tasks, the last table it
\* finished, and the table and node it is paused at.
RunType ==
    [status : Terminal \cup {"running", "awaiting_hitl"},
     tasks : [Tables -> [Nodes -> TaskStatuses]],
     last : 0..NumTables, paused : 0..NumTables, pending : 0..Len(Kind)]

\* A LangGraph checkpoint: the node to go on with and the steps behind it.
Checkpoint == [next : 1..Len(Kind) + 1, steps : Seq(StepStatus)]

Answers == {"approve", "reject"}

ASSUME BatchAssumption ==
    /\ NumTables \in Nat \ {0}
    /\ Kind \in Seq(STRING) /\ Kind # << >>
    /\ Batches \cap Resumes = {} /\ Batches \cap Recoveries = {}
    /\ Resumes \cap Recoveries = {} /\ Workers \cap Cancels = {}
    /\ Modes \subseteq {"langgraph", "sequential"}
    /\ SharedStore \in BOOLEAN
    /\ MaxFaults \in Nat /\ MaxAnswers \in Nat
    /\ None \notin Nat \cup Answers \cup RunType \cup Checkpoint

VARIABLES
    mode,        \* agents.batch_executor: "langgraph" or "sequential"
    durable,     \* is the checkpointer a PostgresSaver?
    run,         \* run.json of the batch, None before it is started
    graph,       \* the LangGraph checkpoint of each table's thread, or None
    tokens,      \* tokens made, current one in the store, those cancelled
    pc,          \* where each caller stands
    loc,         \* what each worker holds (shown: the pause its caller approved)
    copy,        \* the record each request_cancel loaded
    ran,         \* auxiliary: how often each node ran on each table
    unapproved,  \* auxiliary: writes and pushes nobody shown them approved
    broken,      \* auxiliary: the tables whose run ended with an exception
    overlapped,  \* auxiliary: have two workers ever been in flight at once?
    crashes,
    answers      \* bound: how many answers were given

disk == <<run, graph>>
bounds == <<crashes, answers>>
history == <<ran, unapproved, broken>>
vars == <<mode, durable, disk, tokens, pc, loc, copy, history, overlapped, bounds>>

AtRest == {"idle", "ended", "refused", "died"}
InFlight(c) == pc[c] \notin AtRest
Quiet == \A w \in Workers : ~InFlight(w)

\* The kinds the registry calls by another name than the tools do.
StepKind(kind) ==
    CASE kind = "gate" -> "approval_gate"
      [] kind = "publish" -> "catalog_push"
      [] kind \in {"source", "sample"} -> "source_table"
      [] kind = "profile" -> "profile_scan"
      [] kind = "batch" -> "batch_loop"
      [] OTHER -> kind

\* auto_approve and dry_run are not set in the pipelines considered.
requires_hitl(kind) ==
    StepKind(kind) \in {"approval_gate", "catalog_push", "contract_write"}

\* What a node's step may end with. A tool that raises makes a FAILED step and
\* the pipeline goes on; a push that raises counts as skipped.
StepStatuses(kind, granted) ==
    CASE StepKind(kind) = "approval_gate" -> {"skipped"}
      [] StepKind(kind) = "catalog_push" -> {"done", "skipped"}
      [] kind = "contract_write" /\ ~granted -> {"skipped"}
      [] OTHER -> {"done", "failed"}

(* Faulty variants, each one plausible slip away from the definition of the
   code that follows it. Nothing uses them; substituting one breaks a
   property. *)

\* A thread's checkpoint starts before the first node.
fresh_at_zero == [next |-> 0, steps |-> << >>]

\* All tasks of a table take the status of its last step.
sync_whole_table(tasks, t, steps) ==
    IF steps = << >> THEN tasks
    ELSE [tasks EXCEPT ![t] = [n \in Nodes |-> steps[Len(steps)]]]

\* The batch goes on with the table it has just finished.
tables_from(tasks, start) ==
    {t \in Tables : t >= start /\ \E n \in Nodes : tasks[t][n] \notin {"done", "skipped"}}

\* The table after the start is left out.
tables_after_next(tasks, start) ==
    {t \in Tables : t > start + 1 /\ \E n \in Nodes : tasks[t][n] \notin {"done", "skipped"}}

\* Any non-empty answer counts as an approval.
granted_by_any_answer(w) == loc[w].granted \/ loc[w].answer # None

\* The checkpoints are dropped whenever a batch stops, paused or not.
keeps_only_durable(status) == durable

(* The ledger. *)

table_tasks_done(tasks, t) == \A n \in Nodes : tasks[t][n] \in {"done", "skipped"}

\* By kind: a task takes the status of the last step of its kind, and keeps
\* its own when no step has that kind.
sync_ledger_for_table(tasks, t, steps) ==
    LET Matching(n) == {i \in DOMAIN steps : StepKind(Kind[i]) = Kind[n]}
        Last(n) == CHOOSE i \in Matching(n) : \A j \in Matching(n) : j <= i
    IN [tasks EXCEPT ![t] =
          [n \in Nodes |-> IF Matching(n) = {} THEN @[n] ELSE steps[Last(n)]]]

cancel_pending_tasks(tasks) ==
    [t \in Tables |-> [n \in Nodes |->
        IF tasks[t][n] \in {"planned", "running"} THEN "cancelled" ELSE tasks[t][n]]]

\* What RunCancelled makes of the record.
cancelled_record(mem) ==
    [mem EXCEPT !.status = "cancelled", !.tasks = cancel_pending_tasks(mem.tasks)]

\* The tables a batch still has to enter after table start (0: from the first).
TablesAfter(tasks, start) == {t \in Tables : t > start /\ ~table_tasks_done(tasks, t)}

First(S) == CHOOSE t \in S : \A u \in S : t <= u

plan_tasks == [t \in Tables |-> [n \in Nodes |-> "planned"]]

NewRun == [status |-> "running", tasks |-> plan_tasks, last |-> 0, paused |-> 0, pending |-> 0]

Fresh == [next |-> 1, steps |-> << >>]
NoGraphs == [t \in Tables |-> None]

\* Does a run that ends with this status keep its in-memory checkpoints?
KeepsCheckpoints(status) == durable \/ status = "awaiting_hitl"

(* Cancellation tokens. A store hands out one token per run until it is
   dropped; with stores of their own, no caller sees another's. *)

NoTokens == [made |-> 0, current |-> 0, cancelled |-> {}]

cancellation_token ==
    IF tokens.current # 0 THEN tokens
    ELSE [tokens EXCEPT !.made = @ + 1, !.current = tokens.made + 1]

TakeToken == tokens' = IF SharedStore THEN cancellation_token ELSE tokens
DropToken == tokens' = IF SharedStore THEN [tokens EXCEPT !.current = 0] ELSE tokens

\* Faulty: the token a cancel leaves in the store is never looked at.
never_cancelled(w) == FALSE

Cancelled(w) == loc[w].token \in tokens.cancelled

(* Callers. *)

NoLoc == [mem |-> None, tab |-> 0, node |-> 0, steps |-> << >>, granted |-> FALSE,
          answer |-> None, shown |-> None, resuming |-> FALSE,
          token |-> 0]

Goto(c, label) == pc' = [pc EXCEPT ![c] = label]

\* A worker that returns holds nothing any more.
Returns(w) == Goto(w, "ended") /\ loc' = [loc EXCEPT ![w] = NoLoc]

\* Worker w starts with the record in mem, after table start.
Enters(w, label, mem, start) ==
    /\ pc[w] = "idle"
    /\ TakeToken
    /\ overlapped' = (overlapped \/ ~Quiet)
    /\ Goto(w, label)
    /\ loc' = [loc EXCEPT ![w] =
          [NoLoc EXCEPT !.mem = mem, !.tab = start, !.token = tokens'.current]]

save(mem) == run' = mem

\* _run_langgraph_batch, _run_sequential: the record is saved before anything
\* runs.
RunBatch(w) ==
    /\ run = None
    /\ Enters(w, IF mode = "langgraph" THEN "continue" ELSE "seq", NewRun, 0)
    /\ save(NewRun)
    /\ UNCHANGED <<mode, durable, graph, copy, history, bounds>>

\* run(resume=True): after a crash someone enters the batch again, after the
\* last table it recorded as completed, whatever the status says.
Recover(w) ==
    /\ run # None /\ Quiet /\ crashes > 0
    /\ Enters(w, "continue", run, run.last)
    /\ UNCHANGED <<mode, durable, disk, copy, history, bounds>>

(* _continue_langgraph_batch. *)

Continue(w) ==
    /\ pc[w] = "continue"
    /\ LET mem == [loc[w].mem EXCEPT !.status = "running", !.pending = 0]
       IN /\ loc' = [loc EXCEPT ![w].mem = mem]
          /\ save(mem)
    /\ Goto(w, "table")
    /\ UNCHANGED <<mode, durable, graph, tokens, copy, history, overlapped, bounds>>

\* The next table that is not done is entered with an empty run state and an
\* initial graph state. The session id and nothing else is left of batch_meta
\* when its run returns.
BeginTable(w) ==
    LET next == TablesAfter(loc[w].mem.tasks, loc[w].tab)
        t == First(next)
    IN /\ pc[w] = "table" /\ next # {} /\ ~Cancelled(w)
       /\ loc' = [loc EXCEPT ![w] =
             [@ EXCEPT !.tab = t, !.node = 1, !.steps = << >>, !.granted = FALSE,
                       !.answer = None, !.shown = None, !.resuming = FALSE]]
       /\ graph' = [graph EXCEPT ![t] = Fresh]
       /\ Goto(w, "node")
       /\ UNCHANGED <<mode, durable, run, tokens, copy, history, overlapped, bounds>>

\* The spec is validated when the first table of a new batch is entered; an
\* invalid one ends the batch.
RejectSpec(w) ==
    /\ pc[w] = "table" /\ loc[w].tab = 0 /\ loc[w].mem.tasks[1] = plan_tasks[1]
    /\ ~Cancelled(w)
    /\ loc' = [loc EXCEPT ![w].mem.status = "failed"]
    /\ Goto(w, "final")
    /\ UNCHANGED <<mode, durable, disk, tokens, copy, history, overlapped, bounds>>

\* The token is checked before a table is entered; RunCancelled ends the batch.
BatchCancelled(w) ==
    /\ pc[w] = "table" /\ Cancelled(w)
    /\ TablesAfter(loc[w].mem.tasks, loc[w].tab) # {}
    /\ loc' = [loc EXCEPT ![w].mem = cancelled_record(loc[w].mem)]
    /\ Goto(w, "final")
    /\ UNCHANGED <<mode, durable, disk, tokens, copy, history, overlapped, bounds>>

\* No table is left. Nobody asks the token again.
BatchCompletes(w) ==
    /\ pc[w] = "table" /\ TablesAfter(loc[w].mem.tasks, loc[w].tab) = {}
    /\ loc' = [loc EXCEPT ![w].mem.status = "completed"]
    /\ Goto(w, "final")
    /\ UNCHANGED <<mode, durable, disk, tokens, copy, history, overlapped, bounds>>

\* Faulty: the record is not saved on the way out.
final_without_save(w) ==
    /\ pc[w] = "final"
    /\ graph' = IF KeepsCheckpoints(loc[w].mem.status) THEN graph ELSE NoGraphs
    /\ Returns(w)
    /\ UNCHANGED <<mode, durable, run, tokens, copy, history, overlapped, bounds>>

\* The finally clause: a batch that is over drops its token and, unless they
\* are in Postgres, its checkpoints.
Final(w) ==
    /\ pc[w] = "final"
    /\ save(loc[w].mem)
    /\ IF loc[w].mem.status \in Terminal THEN DropToken ELSE UNCHANGED tokens
    /\ graph' = IF KeepsCheckpoints(loc[w].mem.status) THEN graph ELSE NoGraphs
    /\ Returns(w)
    /\ UNCHANGED <<mode, durable, copy, history, overlapped, bounds>>

(* One node of one table: the step function compiled by LangGraphExecutor. *)

\* interrupt() with no answer to give it: the graph stops before the node.
Interrupts(w) ==
    requires_hitl(Kind[loc[w].node]) /\ loc[w].answer = None

\* An answer is used up by the first interrupt it meets; an approval also
\* grants what follows in the same invocation.
Granted(w) == loc[w].granted \/ loc[w].answer = "approve"

\* What the node of worker w did when its step ended with this status, with or
\* without an approval in the run state.
Acts(w, t, n, granted, status) ==
    LET effective == \/ Kind[n] = "contract_write" /\ granted
                     \/ StepKind(Kind[n]) = "catalog_push" /\ status = "done"
    IN /\ ran' = [ran EXCEPT ![t][n] = @ + 1]
       /\ unapproved' = IF effective /\ loc[w].shown # <<t, n>>
                        THEN unapproved \cup {<<Kind[n], t, n>>} ELSE unapproved
       /\ UNCHANGED broken

RunNode(w) ==
    LET t == loc[w].tab
        n == loc[w].node
    IN /\ pc[w] = "node" /\ ~Cancelled(w) /\ ~Interrupts(w)
       /\ \E status \in StepStatuses(Kind[n], Granted(w)) :
             LET steps == Append(loc[w].steps, status)
             IN /\ loc' = [loc EXCEPT ![w] =
                      [@ EXCEPT !.node = n + 1, !.steps = steps, !.granted = Granted(w),
                                !.answer = IF requires_hitl(Kind[n]) THEN None
                                          ELSE loc[w].answer]]
                /\ graph' = [graph EXCEPT ![t] = [next |-> n + 1, steps |-> steps]]
                /\ Acts(w, t, n, Granted(w), status)
       /\ IF n = Len(Kind) THEN Goto(w, "finished") ELSE UNCHANGED pc
       /\ UNCHANGED <<mode, durable, run, tokens, copy, overlapped, bounds>>

Synced(w) == sync_ledger_for_table(loc[w].mem.tasks, loc[w].tab, loc[w].steps)

\* The table's run returns AWAITING_HITL: the record is saved as paused and
\* forgets which table was completed last. A batch that paused by itself saves
\* the same record once more on its way out.
PauseTable(w) ==
    LET mem == [loc[w].mem EXCEPT !.status = "awaiting_hitl", !.tasks = Synced(w),
                    !.last = 0, !.paused = loc[w].tab, !.pending = loc[w].node]
    IN /\ pc[w] = "node" /\ ~Cancelled(w) /\ Interrupts(w)
       /\ save(mem)
       /\ IF loc[w].resuming THEN Returns(w)
          ELSE Goto(w, "final") /\ loc' = [loc EXCEPT ![w].mem = mem]
       /\ UNCHANGED <<mode, durable, graph, tokens, copy, history, overlapped, bounds>>

\* The table's run returns FAILED: an exception left the step function, and the
\* steps of this run are lost. A failed resume drops its token but not the
\* checkpoints; a failed table of the loop still counts as the last one done.
FailTable(w) ==
    LET failed == [loc[w].mem EXCEPT !.status = "failed"]
        mem == IF loc[w].resuming THEN failed
               ELSE [failed EXCEPT !.last = loc[w].tab, !.paused = 0]
    IN /\ \/ pc[w] = "node" /\ ~Cancelled(w)
          \/ pc[w] = "lost"
       /\ broken' = broken \cup {loc[w].tab}
       /\ IF loc[w].resuming THEN save(mem) /\ DropToken /\ Returns(w)
          ELSE /\ Goto(w, "final")
               /\ loc' = [loc EXCEPT ![w].mem = mem]
               /\ UNCHANGED <<run, tokens>>
       /\ UNCHANGED <<mode, durable, graph, copy, ran, unapproved, overlapped, bounds>>

\* The table's run returns COMPLETED, or CANCELLED when the token was found
\* cancelled between two nodes; the batch does not tell them apart, and the
\* steps of a cancelled run are lost. A resumed batch saves nothing before it
\* goes on with the tables after this one.
FinishTable(w) ==
    LET tasks == IF pc[w] = "finished" THEN Synced(w) ELSE loc[w].mem.tasks
        mem == IF loc[w].resuming THEN [loc[w].mem EXCEPT !.tasks = tasks]
               ELSE [loc[w].mem EXCEPT !.tasks = tasks, !.last = loc[w].tab, !.paused = 0]
    IN /\ \/ pc[w] = "finished"
          \/ pc[w] = "node" /\ Cancelled(w)
       /\ loc' = [loc EXCEPT ![w].mem = mem]
       /\ IF loc[w].resuming THEN Goto(w, "continue") /\ UNCHANGED run
                             ELSE Goto(w, "table") /\ save(mem)
       /\ UNCHANGED <<mode, durable, graph, tokens, copy, history, overlapped, bounds>>

(* resume_batch. *)

\* The record is loaded and must be paused; nothing on disk says that a resume
\* is under way. LangGraph goes on from the checkpoint, wherever it stands by
\* now; without one the table's run fails.
ResumeBatch(w, answer) ==
    /\ run # None /\ run.status = "awaiting_hitl"
    /\ answers < MaxAnswers /\ answers' = answers + 1
    /\ LET t == run.paused
           g == graph[t]
       IN /\ ~InFlight(w)
          /\ TakeToken
          /\ overlapped' = (overlapped \/ ~Quiet)
          /\ loc' = [loc EXCEPT ![w] =
                [mem |-> run, tab |-> t, node |-> IF g = None THEN 0 ELSE g.next,
                 steps |-> IF g = None THEN << >> ELSE g.steps,
                 granted |-> answer = "approve", answer |-> answer,
                 shown |-> IF answer = "approve" THEN <<t, run.pending>> ELSE None,
                 resuming |-> TRUE, token |-> tokens'.current]]
          /\ Goto(w, IF g = None THEN "lost"
                     ELSE IF g.next > Len(Kind) THEN "finished" ELSE "node")
    /\ UNCHANGED <<mode, durable, disk, copy, history, crashes>>

(* _run_sequential: no graph, no pause; an approval is never granted. *)

\* The token is checked before each node; the task is saved as running.
SeqStart(w) ==
    LET t == IF loc[w].tab = 0 THEN 1 ELSE loc[w].tab
        n == loc[w].node + 1
        mem == [loc[w].mem EXCEPT !.tasks[t][n] = "running"]
    IN /\ pc[w] = "seq" /\ ~Cancelled(w) /\ n \in Nodes
       /\ loc' = [loc EXCEPT ![w] = [@ EXCEPT !.mem = mem, !.tab = t, !.node = n]]
       /\ save(mem)
       /\ Goto(w, "step")
       /\ UNCHANGED <<mode, durable, graph, tokens, copy, history, overlapped, bounds>>

\* The node runs, its task takes the status of its step, and the record is
\* saved; after the last node the next table is up.
SeqStep(w) ==
    LET t == loc[w].tab
        n == loc[w].node
    IN /\ pc[w] = "step"
       /\ \E status \in StepStatuses(Kind[n], FALSE) :
             LET mem == [loc[w].mem EXCEPT !.tasks[t][n] = status]
                 over == n = Len(Kind)
             IN /\ loc' = [loc EXCEPT ![w] =
                      [@ EXCEPT !.mem = IF over /\ t = NumTables
                                        THEN [mem EXCEPT !.status = "completed"] ELSE mem,
                                !.tab = IF over THEN t + 1 ELSE t,
                                !.node = IF over THEN 0 ELSE n]]
                /\ save(mem)
                /\ Acts(w, t, n, FALSE, status)
       /\ Goto(w, IF n = Len(Kind) /\ t = NumTables THEN "final" ELSE "seq")
       /\ UNCHANGED <<mode, durable, graph, tokens, copy, overlapped, bounds>>

SeqCancelled(w) ==
    /\ pc[w] = "seq" /\ Cancelled(w)
    /\ loc' = [loc EXCEPT ![w].mem = cancelled_record(loc[w].mem)]
    /\ Goto(w, "final")
    /\ UNCHANGED <<mode, durable, disk, tokens, copy, history, overlapped, bounds>>

\* An exception outside the tools (saving the step's governance record) ends
\* the batch.
SeqFails(w) ==
    /\ pc[w] = "step"
    /\ loc' = [loc EXCEPT ![w].mem.status = "failed"]
    /\ broken' = broken \cup {loc[w].tab}
    /\ Goto(w, "final")
    /\ UNCHANGED <<mode, durable, disk, tokens, copy, ran, unapproved, overlapped, bounds>>

(* request_cancel. *)

Faults == crashes + Cardinality({c \in Cancels : pc[c] # "idle"})

\* The record is loaded; a run that is over is refused.
CancelLoad(c) ==
    /\ pc[c] = "idle" /\ run # None /\ Faults < MaxFaults
    /\ IF run.status \in Terminal
       THEN Goto(c, "refused") /\ UNCHANGED copy
       ELSE Goto(c, "token") /\ copy' = [copy EXCEPT ![c] = run]
    /\ UNCHANGED <<mode, durable, disk, tokens, loc, history, overlapped, bounds>>

\* The token in the caller's own store is cancelled.
CancelToken(c) ==
    /\ pc[c] = "token"
    /\ tokens' = IF SharedStore
                 THEN LET known == cancellation_token
                      IN [known EXCEPT !.cancelled = @ \cup {known.current}]
                 ELSE tokens
    /\ Goto(c, "save")
    /\ UNCHANGED <<mode, durable, disk, loc, copy, history, overlapped, bounds>>

\* The loaded record is saved as cancelled, and the caller told so.
CancelSave(c) ==
    /\ pc[c] = "save"
    /\ save([copy[c] EXCEPT !.status = "cancelled"])
    /\ copy' = [copy EXCEPT ![c] = None]
    /\ Goto(c, "ended")
    /\ UNCHANGED <<mode, durable, graph, tokens, loc, history, overlapped, bounds>>

\* The process dies: what its callers held is gone, and the checkpoints with
\* it unless they are in Postgres.
Crash ==
    /\ Faults < MaxFaults
    /\ \E c \in Workers \cup Cancels : InFlight(c)
    /\ crashes' = crashes + 1
    /\ pc' = [c \in DOMAIN pc |-> IF InFlight(c) THEN "died" ELSE pc[c]]
    /\ graph' = IF durable THEN graph ELSE NoGraphs
    /\ tokens' = [tokens EXCEPT !.current = 0]
    /\ loc' = [w \in Workers |-> NoLoc]
    /\ copy' = [c \in Cancels |-> None]
    /\ UNCHANGED <<mode, durable, run, history, overlapped, answers>>

Init ==
    /\ mode \in Modes
    /\ durable \in BOOLEAN
    /\ run = None
    /\ graph = NoGraphs
    /\ tokens = NoTokens
    /\ pc = [c \in Workers \cup Cancels |-> "idle"]
    /\ loc = [w \in Workers |-> NoLoc]
    /\ copy = [c \in Cancels |-> None]
    /\ ran = [t \in Tables |-> [n \in Nodes |-> 0]]
    /\ unapproved = {} /\ broken = {}
    /\ overlapped = FALSE
    /\ crashes = 0 /\ answers = 0

\* What a worker does once it has started.
Works(w) ==
    \/ Continue(w) \/ BeginTable(w) \/ RejectSpec(w) \/ BatchCancelled(w)
    \/ BatchCompletes(w) \/ Final(w)
    \/ RunNode(w) \/ PauseTable(w) \/ FailTable(w) \/ FinishTable(w)
    \/ SeqStart(w) \/ SeqStep(w) \/ SeqCancelled(w) \/ SeqFails(w)

Next ==
    \/ \E w \in Batches : RunBatch(w)
    \/ \E w \in Recoveries : Recover(w)
    \/ \E w \in Resumes, answer \in Answers : ResumeBatch(w, answer)
    \/ \E w \in Workers : Works(w)
    \/ \E c \in Cancels : CancelLoad(c) \/ CancelToken(c) \/ CancelSave(c)
    \/ Crash

\* A thread that runs goes on running, and the tools it calls return.
Fairness == \A w \in Workers : WF_vars(Works(w))

Spec == Init /\ [][Next]_vars /\ Fairness

(* Properties. *)

\* The variables keep their shape.
TypeOK ==
    /\ mode \in Modes /\ durable \in BOOLEAN
    /\ run = None \/ run \in RunType
    /\ \A t \in Tables : graph[t] # None =>
          graph[t] \in Checkpoint /\ Len(graph[t].steps) = graph[t].next - 1
    /\ tokens.current \in 0..tokens.made /\ tokens.cancelled \subseteq 1..tokens.made
    /\ \A w \in Workers : loc[w].mem = None \/ loc[w].mem \in RunType
    /\ ran \in [Tables -> [Nodes -> Nat]]

\* A task the record shows as done, skipped or failed was executed: neither
\* copies saved late nor a restart makes the ledger claim work nobody did. (So it
\* is for pipelines whose kinds are distinct. Steps are matched to tasks by
\* kind, so the step of one node settles the tasks of all nodes of its kind.)
LedgerClaimsOnlyWork ==
    run # None => \A t \in Tables, n \in Nodes :
        run.tasks[t][n] \in {"done", "skipped", "failed"} => ran[t][n] > 0

\* A contract is written only where a steward, shown that very node, approved
\* it: an approval given for an earlier gate of the table, or for another
\* table, does not carry over to a write that was answered otherwise. (Beside
\* another resume, or after a crash during one, the checkpoint is ahead of the
\* pause a steward is shown.)
WritesWereApproved ==
    ~overlapped /\ (crashes = 0 \/ ~durable) =>
        \A x \in unapproved : x[1] # "contract_write"

\* When nobody works on the batch, a record that waits for an answer names a
\* checkpoint that stands before the node it asks about: the resume finds
\* where to go on. A crash without Postgres takes the checkpoint away, a crash
\* during a resume leaves it further on.
PauseCanBeResumed ==
    Quiet /\ ~overlapped /\ run # None /\ run.status = "awaiting_hitl" =>
        \/ crashes > 0 /\ ~durable
        \/ /\ graph[run.paused] # None
           /\ graph[run.paused].next >= run.pending
           /\ crashes = 0 => graph[run.paused].next = run.pending

\* A batch that says COMPLETED has run every node of every table, restarts and
\* pauses included, unless it was cancelled or a table ended with an exception.
CompletedRanEverything ==
    run # None /\ run.status = "completed"
        /\ (\A c \in Cancels : pc[c] \in {"idle", "refused"}) =>
            \A t \in Tables \ broken, n \in Nodes : ran[t][n] > 0

\* A pause, a resume and a skipped table never make a node run again; each
\* recovery after a crash may repeat it once.
NodesRunOncePerRecovery ==
    ~overlapped => \A t \in Tables, n \in Nodes :
        ran[t][n] <= 1 + Cardinality({w \in Recoveries : pc[w] # "idle"})

\* After request_cancel told its caller that the run is cancelled, no worker
\* enters another table (or, in the sequential loop, another node). (A worker
\* that overlapped another may leave a token of its own in the store. Tokens are
\* kept in memory only: a run(resume=True) after a crash takes a fresh one and
\* goes on with a batch that was cancelled.)
NothingStartsAfterCancel ==
    [][\A w \in Workers :
          pc[w] \in {"table", "seq"} /\ pc'[w] \in {"node", "step"}
            /\ ~overlapped /\ crashes = 0 =>
              \A c \in Cancels : pc[c] # "ended"]_vars

\* Nothing reaches the catalog before a steward, shown the publish node,
\* approved it.
PublishedWereApproved == \A x \in unapproved : StepKind(x[1]) # "catalog_push"

\* A batch that runs comes to rest: completed, failed, cancelled or waiting for
\* an answer, unless the process dies.
BatchComesToRest ==
    LET Running == IF run = None THEN FALSE ELSE run.status = "running"
    IN Running ~> (~Running \/ crashes > 0)
===============================================================================
