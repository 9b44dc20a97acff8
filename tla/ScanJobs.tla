------------------------------- MODULE ScanJobs -------------------------------
(***************************************************************************)
(* The scan jobs of the web server: submit_scan_job puts a scan of a       *)
(* session into a bounded thread pool, the scan moves the session through  *)
(* its statuses and writes its PII run (RunLifecycle), while stewards      *)
(* edit, merge and discard runs, SessionManager evicts sessions and reads  *)
(* them back from disk, and the server is shut down or dies.               *)
(*                                                                         *)
(* A job keeps the session object it was submitted with. Evicting and      *)
(* reading back makes another copy of the session: copies are numbered,    *)
(* current is the one the registry holds. ThreadPoolExecutor is external:  *)
(* first in first out, max_workers threads. What a scan finds, logs and    *)
(* reports is left out, and so are the schema it upserts while profiling   *)
(* (ContractWrite) and its quality step, which goes like the PII step. The *)
(* two steps have endpoints of their own, which only end with a status of  *)
(* their own.                                                              *)
(***************************************************************************)
EXTENDS RunLifecycle, Sequences, FiniteSets

CONSTANTS
    Jobs,        \* submissions
    Fn,          \* what each submits: "scan", "profile" alone, or "batch"
    Hands,       \* other callers of RunMerger: request threads, command lines
    Sessions,
    MaxWorkers,  \* REDIBIS_SCAN_WORKERS
    MaxQueue,    \* REDIBIS_SCAN_QUEUE
    MaxCopies    \* bound: how often sessions are read back from disk

ASSUME JobAssumption ==
    /\ Jobs \cap Hands = {} /\ Jobs \cup Hands = Actors
    /\ Fn \in [Jobs -> {"scan", "profile", "batch"}]
    /\ MaxWorkers \in Nat \ {0} /\ MaxQueue \in Nat /\ MaxCopies \in Nat

Copies == 0..MaxCopies

\* _RUNNING_LIKE, without the status of the quality step.
RunningLike == {"initialized", "profiling", "running_pii", "running"}
SessionStatus == RunningLike \cup
    {"profiling_complete", "scan_complete", "complete", "error", "failed"}

Working == {"start", "profile", "pii", "detect", "calling", "scanned",
            "wrap", "release"}
InSlotAt == {"queued"} \cup Working
\* refused: submit_scan_job raised. lost: dropped by the executor, or gone with
\* the server.
Over == {"new", "refused", "lost", "done"}

VARIABLES
    up,        \* does the executor take jobs?
    inflight,  \* _inflight
    queue,     \* jobs the executor has not started
    job,       \* what each job is doing, and for which copy of which session
    current,   \* the copy of each session the registry holds
    status,    \* the status of each copy of each session, as its object has it
    disk       \* the status in session.json

poolVars == <<up, inflight, queue>>
sessionVars == <<current, status, disk>>
vars == <<poolVars, job, sessionVars, runVars>>

Job == [at : InSlotAt \cup Over, session : Sessions, copy : Copies]

TypeOK ==
    /\ RunTypeOK
    /\ up \in BOOLEAN
    /\ inflight \in 0..(MaxWorkers + MaxQueue)
    /\ queue \in Seq(Jobs)
    /\ job \in [Jobs -> Job]
    /\ current \in [Sessions -> Copies]
    /\ status \in [Sessions -> [Copies -> SessionStatus]]
    /\ disk \in [Sessions -> SessionStatus]

Doing(j, at) == job[j].at = at
Own(j) == status[job[j].session][job[j].copy]
InSlot(j) == job[j].at \in InSlotAt

\* set_status of the session object the job holds.
set_session(j, st) == status' = [status EXCEPT ![job[j].session][job[j].copy] = st]
\* set_status and persist_to_disk.
set_and_persist(j, st) ==
    set_session(j, st) /\ disk' = [disk EXCEPT ![job[j].session] = st]
Goto(j, at) == job' = [job EXCEPT ![j].at = at]
Gone(j) == [job[j] EXCEPT !.at = "lost", !.copy = 0]

Init ==
    /\ RunInit
    /\ up = TRUE /\ inflight = 0 /\ queue = << >>
    /\ job \in {[j \in Jobs |-> [at |-> "new", session |-> s, copy |-> 0]]
                   : s \in Sessions}
    /\ current = [s \in Sessions |-> 0]
    /\ status = [s \in Sessions |-> [c \in Copies |-> "initialized"]]
    /\ disk = [s \in Sessions |-> "initialized"]

(* Faulty variants, one slip away from the definitions of the code. *)

\* The limit itself is still free.
has_room_at_limit == inflight <= MaxQueue + MaxWorkers

\* The status is settled only when the function returned.
settles_returns_only(st, raised) == IF ~raised /\ st \in RunningLike THEN "complete" ELSE st

\* A job that raised leaves its slot without giving it back.
release_unless_failed(j) ==
    /\ Doing(j, "release")
    /\ disk' = [disk EXCEPT ![job[j].session] = Own(j)]
    /\ inflight' = IF Own(j) = "failed" THEN inflight ELSE inflight - 1
    /\ Goto(j, "done")
    /\ UNCHANGED <<up, queue, current, status, runVars>>

\* The queue is cleared and its futures are not cancelled.
shutdown_forgets_queue ==
    /\ up /\ asked < MaxAsks /\ asked' = asked + 1
    /\ up' = FALSE
    /\ queue' = << >>
    /\ UNCHANGED <<job, inflight, sessionVars, made, object, call, folded, met>>

-------------------------------------------------------------------------------
(* submit_scan_job. *)

HasRoom == inflight < MaxQueue + MaxWorkers

\* Under the lock: the queue is full,
Reject(j) ==
    /\ Doing(j, "new")
    /\ ~HasRoom
    /\ Goto(j, "refused")
    /\ UNCHANGED <<poolVars, sessionVars, runVars>>

\* or the job is counted, with the copy the registry has now. _JOBS.submit
\* follows outside the lock, and raises once the executor is shut down.
Submit(j, s) ==
    /\ Doing(j, "new")
    /\ HasRoom
    /\ inflight' = inflight + 1
    /\ IF up
       THEN /\ queue' = Append(queue, j)
            /\ job' = [job EXCEPT ![j] = [at |-> "queued", session |-> s, copy |-> current[s]]]
       ELSE UNCHANGED queue /\ Goto(j, "refused")
    /\ UNCHANGED <<up, sessionVars, runVars>>

\* A thread of the pool is free and takes the next job.
Take ==
    /\ queue # << >>
    /\ Cardinality({j \in Jobs : job[j].at \in Working}) < MaxWorkers
    /\ queue' = Tail(queue)
    /\ Goto(Head(queue), "start")
    /\ UNCHANGED <<up, inflight, sessionVars, runVars>>

(* The function of the job: execute_unified_scan, or one of its steps alone. *)

BeginProfile(j) ==
    /\ Doing(j, "start") /\ Fn[j] # "batch"
    /\ set_session(j, "profiling")
    /\ Goto(j, "profile")
    /\ UNCHANGED <<poolVars, current, disk, runVars>>

\* Profiling done. A step alone ends here.
EndProfile(j) ==
    /\ Doing(j, "profile")
    /\ set_and_persist(j, "profiling_complete")
    /\ Goto(j, IF Fn[j] = "scan" THEN "pii" ELSE "wrap")
    /\ UNCHANGED <<poolVars, current, runVars>>

\* Profiling raises inside a unified scan, which takes it for its own error.
ProfileFails(j) ==
    /\ Doing(j, "profile") /\ Fn[j] = "scan"
    /\ set_and_persist(j, "error")
    /\ Goto(j, "wrap")
    /\ UNCHANGED <<poolVars, current, runVars>>

BeginPii(j) ==
    /\ Doing(j, "pii")
    /\ set_session(j, "running_pii")
    /\ Goto(j, "detect")
    /\ UNCHANGED <<poolVars, current, disk, runVars>>

\* Detection done: the run is written, and merged at once with automerge, unless
\* the storage raises before anything is put.
WriteRun(j) ==
    /\ Doing(j, "detect")
    /\ (\E automerge \in BOOLEAN : Create(j, automerge)) \/ UNCHANGED runVars
    /\ Goto(j, "calling")
    /\ UNCHANGED <<poolVars, sessionVars>>

\* The calls of the write go on, or one raises: that is logged as a warning and
\* the step continues as if the run had been written.
CallStep(j) ==
    /\ Doing(j, "calling") /\ call[j] # None
    /\ Step(j) \/ Raise(j) \/ (Die({j}) /\ UNCHANGED asked)
    /\ UNCHANGED <<poolVars, job, sessionVars>>

\* The PII step persists, and leaves the final status to the unified scan.
EndPii(j) ==
    /\ Doing(j, "calling") /\ call[j] = None
    /\ set_and_persist(j, Own(j))
    /\ Goto(j, "scanned")
    /\ UNCHANGED <<poolVars, current, runVars>>

\* Whatever else raises in the PII step, before the write or after it, ends the
\* step with status error; the unified scan goes on.
PiiFails(j) ==
    /\ Doing(j, "detect") \/ (Doing(j, "calling") /\ call[j] = None)
    /\ set_and_persist(j, "error")
    /\ Goto(j, "scanned")
    /\ UNCHANGED <<poolVars, current, runVars>>

\* The last status of a unified scan, whatever its steps ended with, unless
\* writing its report raises.
EndScan(j) ==
    /\ Doing(j, "scanned")
    /\ \E st \in {"scan_complete", "error"} : set_and_persist(j, st)
    /\ Goto(j, "wrap")
    /\ UNCHANGED <<poolVars, current, runVars>>

\* A workspace batch has no session and logs its own exceptions.
EndBatch(j) ==
    /\ Doing(j, "start") /\ Fn[j] = "batch"
    /\ Goto(j, "release")
    /\ UNCHANGED <<poolVars, sessionVars, runVars>>

(* _wrapped, around the function. *)

\* What becomes of a status the function left behind.
settled(st, raised) ==
    IF st \notin RunningLike THEN st ELSE IF raised THEN "failed" ELSE "complete"

Settle(j) ==
    /\ \/ Doing(j, "wrap") /\ set_session(j, settled(Own(j), FALSE))
       \* execute_profile_step raises; a unified scan can before its try.
       \/ /\ \/ Doing(j, "start") /\ Fn[j] = "scan"
             \/ Doing(j, "profile") /\ Fn[j] = "profile"
          /\ set_session(j, settled(Own(j), TRUE))
    /\ Goto(j, "release")
    /\ UNCHANGED <<poolVars, current, disk, runVars>>

\* In the finally: persist_to_disk, whose exception is logged, and the slot is
\* given back.
Release(j) ==
    /\ Doing(j, "release")
    /\ disk' \in {disk} \cup
          (IF Fn[j] = "batch" THEN {} ELSE {[disk EXCEPT ![job[j].session] = Own(j)]})
    /\ inflight' = inflight - 1
    /\ Goto(j, "done")
    /\ UNCHANGED <<up, queue, current, status, runVars>>

-------------------------------------------------------------------------------
(* The rest of the server, and other processes. *)

\* What is asked of the server from outside counts among the requests.
Asked == asked < MaxAsks /\ asked' = asked + 1

\* shutdown_jobs(wait=False): queued jobs are cancelled, the others go on.
Shutdown ==
    /\ up /\ Asked
    /\ up' = FALSE
    /\ queue' = << >>
    /\ job' = [j \in Jobs |-> IF Doing(j, "queued") THEN Gone(j) ELSE job[j]]
    /\ UNCHANGED <<inflight, sessionVars, made, object, call, folded, met>>

\* get_session after _evict: another copy of the session, as disk has it.
ReadBack(s) ==
    /\ current[s] < MaxCopies /\ Asked
    /\ current' = [current EXCEPT ![s] = @ + 1]
    /\ status' = [status EXCEPT ![s][current[s] + 1] = disk[s]]
    /\ UNCHANGED <<poolVars, job, disk, made, object, call, folded, met>>

\* The server dies and starts again: its threads, counter and session objects
\* are gone, and every session is read back from disk when it is asked for.
\* Command lines go on.
Restart ==
    /\ Asked
    /\ up' = TRUE /\ inflight' = 0 /\ queue' = << >>
    /\ job' = [j \in Jobs |-> IF Doing(j, "new") THEN job[j] ELSE Gone(j)]
    /\ current' = [s \in Sessions |-> 0]
    /\ status' = [s \in Sessions |-> [c \in Copies |-> disk[s]]]
    /\ \E died \in SUBSET Hands : Die(Jobs \cup died)
    /\ UNCHANGED disk

\* A steward, or a command line, edits, merges or discards a run.
HandAsks(h) ==
    /\ \/ \E r \in Runs, op \in {"edit", "merge", "discard"} : Ask(h, op, r)
       \/ AskLatest(h)
       \/ Step(h) \/ Raise(h)
    /\ UNCHANGED <<poolVars, job, sessionVars>>

PurgeRuns == DeleteRuns /\ UNCHANGED <<poolVars, job, sessionVars>>

\* What a thread of the pool does next on its own.
Work(j) ==
    \/ BeginProfile(j) \/ EndProfile(j) \/ ProfileFails(j)
    \/ BeginPii(j) \/ WriteRun(j) \/ CallStep(j) \/ EndPii(j) \/ PiiFails(j)
    \/ EndScan(j) \/ EndBatch(j) \/ Settle(j) \/ Release(j)

Next ==
    \/ \E j \in Jobs : Reject(j) \/ Work(j)
    \/ \E j \in Jobs, s \in Sessions : Submit(j, s)
    \/ Take
    \/ Shutdown
    \/ \E s \in Sessions : ReadBack(s)
    \/ Restart
    \/ \E h \in Hands : HandAsks(h)
    \/ PurgeRuns

\* Threads run, and the function of a job returns or raises.
Fairness == WF_vars(Take) /\ \A j \in Jobs : WF_vars(Work(j))

Spec == Init /\ [][Next]_vars /\ Fairness

-------------------------------------------------------------------------------
\* While the executor takes jobs, the count is that of the jobs that hold a
\* slot and will give it back: neither a rejection, nor an exception of the
\* scan, nor one of the write to disk leaks a slot, so that the queue does not
\* fill up with nobody in it.
SlotsBelongToJobs == up => inflight = Cardinality({j \in Jobs : InSlot(j)})

\* A session object that a finished job held, and that no job is working on,
\* does not look like running: whichever of the two places settles the status
\* last (the function of a job or the wrapper around it), two jobs on one
\* session included.
FinishedSessionIsSettled ==
    \A j \in Jobs :
        /\ Doing(j, "done") /\ Fn[j] # "batch"
        /\ \A k \in Jobs : Fn[k] # "batch" /\ job[k].session = job[j].session /\ job[k].copy = job[j].copy
                              => job[k].at \notin Working
        => Own(j) \notin RunningLike

\* The pool drains: every job that was counted ends, its thread gives the slot
\* back or the server was shut down or died before. (Submissions are finitely
\* many here, so that no slot at all is held in the end.)
PoolDrains == (\E j \in Jobs : InSlot(j)) ~> (\A j \in Jobs : ~InSlot(j))
===============================================================================
