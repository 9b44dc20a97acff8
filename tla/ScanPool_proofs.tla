---------------------------- MODULE ScanPool_proofs ----------------------------
(***************************************************************************)
(* The thread pool and the sessions of ScanJobs, for any number of jobs,   *)
(* threads, sessions and stewards: the counter of the pool is the number   *)
(* of jobs that hold a slot, and a session nobody works on any more does   *)
(* not look like running.                                                  *)
(***************************************************************************)
EXTENDS ScanJobs_proofs, FiniteSetTheorems

USE JobAssumption

\* The jobs that hold a slot, and those that work on a session.
Slots == {j \in Jobs : InSlot(j)}

WorksOn(j, s, c) == Fn[j] # "batch" /\ job[j].session = s /\ job[j].copy = c

\* A job that may still set the status, or will settle it.
Unsettled == Working \ {"release"}

-------------------------------------------------------------------------------
(* The invariants. *)

\* The executor's queue holds the jobs that wait, each once.
QueueInv ==
    /\ \A j \in Jobs : Doing(j, "queued") <=> \E i \in 1..Len(queue) : queue[i] = j
    /\ \A i, k \in 1..Len(queue) : queue[i] = queue[k] => i = k

\* What is counted covers the jobs that hold a slot. Once the executor is shut
\* down it may exceed them: a submission is counted and then refused.
SlotInv ==
    /\ IsFiniteSet(Slots) /\ Cardinality(Slots) <= inflight
    /\ up => inflight = Cardinality(Slots)

PoolInv == TypeOK /\ QueueInv /\ SlotInv

\* A copy that a job holds is one that has been read back.
CopiesAreKnown ==
    \A j \in Jobs :
        /\ job[j].copy <= current[job[j].session]
        /\ Doing(j, "new") => job[j].copy = 0

\* A batch has no steps of a session.
BatchesAreBare ==
    \A j \in Jobs : Fn[j] = "batch" => job[j].at \in {"queued", "start", "release"} \cup Over

\* A copy that looks like running has a job that will settle it, or none that
\* has settled it.
RunningIsWorkedOn ==
    \A s \in Sessions, c \in Copies :
        status[s][c] \in RunningLike =>
            \/ \E k \in Jobs : WorksOn(k, s, c) /\ job[k].at \in Unsettled
            \/ \A j \in Jobs : WorksOn(j, s, c) => job[j].at \notin {"release", "done"}

SessionInv == TypeOK /\ QueueInv /\ CopiesAreKnown /\ BatchesAreBare /\ RunningIsWorkedOn

-------------------------------------------------------------------------------
(* What a step changes. *)

LEMMA JobGoes ==
    ASSUME TypeOK, NEW j \in Jobs, NEW at \in InSlotAt \cup Over, Goto(j, at)
    PROVE  /\ job' \in [Jobs -> Job]
           /\ job'[j].at = at /\ job'[j].session = job[j].session /\ job'[j].copy = job[j].copy
           /\ \A k \in Jobs \ {j} : job'[k] = job[k]
<1>1. job[j] \in [at : InSlotAt \cup Over, session : Sessions, copy : Copies]
  BY DEF TypeOK, Job
<1>2. job' = [job EXCEPT ![j] = [job[j] EXCEPT !.at = at]]
  BY DEF Goto
<1>3. [job[j] EXCEPT !.at = at] \in Job
  BY <1>1 DEF Job
<1>4. job'[j] = [job[j] EXCEPT !.at = at]
  BY <1>2 DEF TypeOK
<1> QED
  BY <1>1, <1>2, <1>3, <1>4 DEF TypeOK

LEMMA StatusIsSet ==
    ASSUME TypeOK, NEW j \in Jobs, NEW st \in SessionStatus, set_session(j, st)
    PROVE  /\ status' \in [Sessions -> [Copies -> SessionStatus]]
           /\ status'[job[j].session][job[j].copy] = st
           /\ \A s \in Sessions, c \in Copies :
                 status'[s][c] # status[s][c] => s = job[j].session /\ c = job[j].copy
<1> DEFINE S == job[j].session
           C == job[j].copy
<1>1. S \in Sessions /\ C \in Copies
  BY DEF TypeOK, Job
<1>2. status \in [Sessions -> [Copies -> SessionStatus]]
  BY DEF TypeOK
<1>3. status' = [status EXCEPT ![S] = [status[S] EXCEPT ![C] = st]]
  BY DEF set_session
<1> HIDE DEF S, C
<1>4. [status[S] EXCEPT ![C] = st] \in [Copies -> SessionStatus]
  BY <1>1, <1>2
<1>5. status' \in [Sessions -> [Copies -> SessionStatus]]
  BY <1>1, <1>2, <1>3, <1>4
<1>6. status'[S] = [status[S] EXCEPT ![C] = st] /\ \A s \in Sessions \ {S} : status'[s] = status[s]
  BY <1>1, <1>2, <1>3
<1>7. status'[S][C] = st /\ \A c \in Copies \ {C} : status'[S][c] = status[S][c]
  BY <1>1, <1>2, <1>6
<1>8. \A s \in Sessions, c \in Copies : status'[s][c] # status[s][c] => s = S /\ c = C
  BY <1>6, <1>7
<1> QED
  BY <1>5, <1>7, <1>8 DEF S, C

LEMMA StatusIsPersisted ==
    ASSUME TypeOK, NEW j \in Jobs, NEW st \in SessionStatus, set_and_persist(j, st)
    PROVE  set_session(j, st) /\ disk' \in [Sessions -> SessionStatus]
BY DEF set_and_persist, TypeOK

LEMMA OwnIsStatus ==
    ASSUME TypeOK, NEW j \in Jobs
    PROVE  /\ job[j].session \in Sessions /\ job[j].copy \in Copies
           /\ Own(j) = status[job[j].session][job[j].copy] /\ Own(j) \in SessionStatus
           /\ \A b \in BOOLEAN : settled(Own(j), b) \in SessionStatus \ RunningLike
<1>1. job[j].session \in Sessions /\ job[j].copy \in Copies
  BY DEF TypeOK, Job
<1>2. Own(j) \in SessionStatus
  BY <1>1 DEF TypeOK, Own
<1> QED
  BY <1>1, <1>2 DEF Own, settled, SessionStatus, RunningLike

\* A job at work keeps its session and leaves the others alone. It gives its
\* slot back with its last step; and unless it still has to settle the
\* status, it leaves one that does not look like running.
LEMMA WorkDoes ==
    ASSUME TypeOK, NEW j \in Jobs, Work(j)
    PROVE  /\ UNCHANGED <<up, queue, current>>
           /\ job' \in [Jobs -> Job] /\ \A k \in Jobs \ {j} : job'[k] = job[k]
           /\ job'[j].session = job[j].session /\ job'[j].copy = job[j].copy
           /\ job[j].at \in Working
           /\ status' \in [Sessions -> [Copies -> SessionStatus]]
           /\ disk' \in [Sessions -> SessionStatus]
           /\ \A s \in Sessions, c \in Copies :
                 status'[s][c] # status[s][c] => s = job[j].session /\ c = job[j].copy
           /\ \/ job'[j].at \in Working /\ inflight' = inflight
              \/ job[j].at = "release" /\ job'[j].at = "done" /\ inflight' = inflight - 1
           /\ \/ job'[j].at \in Unsettled
              \/ status'[job[j].session][job[j].copy] \notin RunningLike
              \/ status' = status /\ (job[j].at = "release" \/ Fn[j] = "batch")
           /\ BatchesAreBare /\ Fn[j] = "batch" =>
                 job'[j].at \in {"release", "done"} /\ status' = status
<1> USE DEF InSlotAt, Working, Over, Unsettled
<1>J. \A at \in InSlotAt \cup Over : Goto(j, at) =>
        /\ job' \in [Jobs -> Job] /\ \A k \in Jobs \ {j} : job'[k] = job[k]
        /\ job'[j].at = at /\ job'[j].session = job[j].session /\ job'[j].copy = job[j].copy
  BY JobGoes
<1>S. \A st \in SessionStatus : set_session(j, st) =>
        /\ status' \in [Sessions -> [Copies -> SessionStatus]]
        /\ status'[job[j].session][job[j].copy] = st
        /\ \A s \in Sessions, c \in Copies :
              status'[s][c] # status[s][c] => s = job[j].session /\ c = job[j].copy
  BY StatusIsSet
<1>P. \A st \in SessionStatus : set_and_persist(j, st) =>
        set_session(j, st) /\ disk' \in [Sessions -> SessionStatus]
  BY StatusIsPersisted
<1>O. /\ job[j].session \in Sessions /\ job[j].copy \in Copies
      /\ Own(j) = status[job[j].session][job[j].copy] /\ Own(j) \in SessionStatus
      /\ \A b \in BOOLEAN : settled(Own(j), b) \in SessionStatus \ RunningLike
  BY OwnIsStatus
<1>T. /\ disk \in [Sessions -> SessionStatus] /\ job \in [Jobs -> Job]
      /\ status \in [Sessions -> [Copies -> SessionStatus]]
  BY DEF TypeOK
<1>B. BatchesAreBare /\ Fn[j] = "batch" =>
        job[j].at \notin {"profile", "pii", "detect", "calling", "scanned", "wrap"}
  BY DEF BatchesAreBare
<1>1. CASE BeginProfile(j)
  BY <1>1, <1>J, <1>S, <1>P, <1>O, <1>T, <1>B DEF BeginProfile, Doing, poolVars, SessionStatus, RunningLike
<1>2. CASE EndProfile(j)
  BY <1>2, <1>J, <1>S, <1>P, <1>O, <1>T, <1>B DEF EndProfile, Doing, poolVars, SessionStatus, RunningLike
<1>3. CASE ProfileFails(j)
  BY <1>3, <1>J, <1>S, <1>P, <1>O, <1>T, <1>B DEF ProfileFails, Doing, poolVars, SessionStatus, RunningLike
<1>4. CASE BeginPii(j)
  BY <1>4, <1>J, <1>S, <1>P, <1>O, <1>T, <1>B DEF BeginPii, Doing, poolVars, SessionStatus, RunningLike
<1>5. CASE WriteRun(j)
  BY <1>5, <1>J, <1>S, <1>P, <1>O, <1>T, <1>B DEF WriteRun, Doing, poolVars, SessionStatus, RunningLike, sessionVars
<1>6. CASE CallStep(j)
  BY <1>6, <1>J, <1>S, <1>P, <1>O, <1>T, <1>B DEF CallStep, Doing, poolVars, SessionStatus, RunningLike, sessionVars
<1>7. CASE EndPii(j)
  BY <1>7, <1>J, <1>S, <1>P, <1>O, <1>T, <1>B DEF EndPii, Doing, poolVars, SessionStatus, RunningLike
<1>8. CASE PiiFails(j)
  BY <1>8, <1>J, <1>S, <1>P, <1>O, <1>T, <1>B DEF PiiFails, Doing, poolVars, SessionStatus, RunningLike
<1>9. CASE EndScan(j)
  BY <1>9, <1>J, <1>S, <1>P, <1>O, <1>T, <1>B DEF EndScan, Doing, poolVars, SessionStatus, RunningLike
<1>10. CASE EndBatch(j)
  BY <1>10, <1>J, <1>S, <1>P, <1>O, <1>T, <1>B DEF EndBatch, Doing, poolVars, SessionStatus, RunningLike, sessionVars
<1>11. CASE Settle(j)
  BY <1>11, <1>J, <1>S, <1>P, <1>O, <1>T, <1>B DEF Settle, Doing, poolVars, SessionStatus, RunningLike
<1>12. CASE Release(j)
  BY <1>12, <1>J, <1>S, <1>P, <1>O, <1>T, <1>B DEF Release, Doing, poolVars, SessionStatus, RunningLike
<1> QED
  BY <1>1, <1>2, <1>3, <1>4, <1>5, <1>6, <1>7, <1>8, <1>9, <1>10, <1>11, <1>12 DEF Work

\* A submission, the start of a job and the end of the executor.
LEMMA SubmitDoes ==
    ASSUME TypeOK, NEW j \in Jobs, NEW s \in Sessions, Submit(j, s)
    PROVE  /\ job' \in [Jobs -> Job] /\ \A k \in Jobs \ {j} : job'[k] = job[k]
           /\ job[j].at = "new"
           /\ \/ /\ up /\ queue' = Append(queue, j)
                 /\ job'[j].at = "queued" /\ job'[j].session = s /\ job'[j].copy = current[s]
              \/ /\ ~up /\ queue' = queue /\ job'[j].at = "refused"
                 /\ job'[j].session = job[j].session /\ job'[j].copy = job[j].copy
<1>1. CASE up
  <2> DEFINE new == [at |-> "queued", session |-> s, copy |-> current[s]]
  <2>1. new \in Job
    BY DEF TypeOK, Job, InSlotAt
  <2>2. job' = [job EXCEPT ![j] = new]
    BY <1>1 DEF Submit
  <2>3. job'[j] = new /\ job' \in [Jobs -> Job] /\ \A k \in Jobs \ {j} : job'[k] = job[k]
    BY <2>1, <2>2 DEF TypeOK
  <2> QED
    BY <1>1, <2>3 DEF Submit, Doing
<1>2. CASE ~up
  <2>1. Goto(j, "refused") /\ "refused" \in Over /\ UNCHANGED queue
    BY <1>2 DEF Submit, Over
  <2> QED
    BY <1>2, <2>1, JobGoes DEF Submit, Doing
<1> QED
  BY <1>1, <1>2

LEMMA TakeDoes ==
    ASSUME TypeOK, QueueInv, Take
    PROVE  \E j \in Jobs :
              /\ j = Head(queue) /\ job[j].at = "queued" /\ job'[j].at = "start"
              /\ job' \in [Jobs -> Job] /\ \A k \in Jobs \ {j} : job'[k] = job[k]
              /\ job'[j].session = job[j].session /\ job'[j].copy = job[j].copy
<1>1. queue \in Seq(Jobs) /\ queue # << >>
  BY DEF TypeOK, Take
<1>2. Head(queue) = queue[1] /\ 1 \in 1..Len(queue) /\ queue[1] \in Jobs
  BY <1>1
<1>3. job[Head(queue)].at = "queued"
  BY <1>2 DEF QueueInv, Doing
<1>4. Goto(Head(queue), "start") /\ "start" \in InSlotAt
  BY DEF Take, InSlotAt, Working
<1> QED
  BY <1>2, <1>3, <1>4, JobGoes

LEMMA GoneIsLost ==
    ASSUME TypeOK, NEW j \in Jobs
    PROVE  /\ Gone(j) \in Job /\ Gone(j).at = "lost" /\ Gone(j).copy = 0
           /\ Gone(j).session = job[j].session
<1>1. job[j] \in [at : InSlotAt \cup Over, session : Sessions, copy : Copies]
  BY DEF TypeOK, Job
<1>2. 0 \in Copies /\ "lost" \in Over
  BY DEF Copies, Over
<1>3. ASSUME NEW r \in [at : InSlotAt \cup Over, session : Sessions, copy : Copies]
      PROVE  LET g == [r EXCEPT !.at = "lost", !.copy = 0]
             IN  /\ g \in [at : InSlotAt \cup Over, session : Sessions, copy : Copies]
                 /\ g.at = "lost" /\ g.copy = 0 /\ g.session = r.session
  BY <1>2
<1> QED
  BY <1>1, <1>3 DEF Job, Gone

-------------------------------------------------------------------------------
(* The pool. *)

\* Nothing of the pool moves.
LEMMA PoolRests ==
    ASSUME PoolInv, UNCHANGED <<poolVars, job, sessionVars>>, RunTypeOK'
    PROVE  PoolInv'
<1>1. TypeOK'
  BY DEF PoolInv, TypeOK, poolVars, sessionVars
<1>2. QueueInv'
  BY DEF PoolInv, QueueInv, Doing, poolVars
<1>3. Slots' = Slots
  BY DEF Slots, InSlot
<1> QED
  BY <1>1, <1>2, <1>3 DEF PoolInv, SlotInv, poolVars

\* A job that was refused did not hold a slot, nor wait.
LEMMA RejectKeepsPool ==
    ASSUME PoolInv, RunTypeOK', NEW j \in Jobs, Reject(j)
    PROVE  PoolInv'
<1>1. /\ job' \in [Jobs -> Job] /\ \A k \in Jobs \ {j} : job'[k] = job[k]
      /\ job[j].at = "new" /\ job'[j].at = "refused"
  BY JobGoes DEF Reject, PoolInv, Doing, Over
<1>2. TypeOK'
  BY <1>1 DEF Reject, PoolInv, TypeOK, poolVars, sessionVars
<1>3. QueueInv'
  BY <1>1 DEF Reject, PoolInv, QueueInv, Doing, poolVars
<1>4. Slots' = Slots
  BY <1>1 DEF Slots, InSlot, InSlotAt, Working
<1> QED
  BY <1>2, <1>3, <1>4 DEF Reject, PoolInv, SlotInv, poolVars

LEMMA SubmitKeepsPool ==
    ASSUME PoolInv, RunTypeOK', NEW j \in Jobs, NEW s \in Sessions, Submit(j, s)
    PROVE  PoolInv'
<1>T. TypeOK
  BY DEF PoolInv
<1>1. /\ job' \in [Jobs -> Job] /\ \A k \in Jobs \ {j} : job'[k] = job[k]
      /\ job[j].at = "new"
      /\ \/ up /\ queue' = Append(queue, j) /\ job'[j].at = "queued"
         \/ ~up /\ queue' = queue /\ job'[j].at = "refused"
  BY <1>T, SubmitDoes
<1>2. /\ inflight' = inflight + 1 /\ inflight < MaxQueue + MaxWorkers
      /\ UNCHANGED <<up, current, status, disk>>
  BY DEF Submit, HasRoom, sessionVars
<1>3. queue \in Seq(Jobs) /\ inflight \in Nat
  BY <1>T DEF TypeOK
<1>4. TypeOK'
  <2>1. queue' \in Seq(Jobs)
    BY <1>1, <1>3
  <2>2. inflight' \in 0..(MaxWorkers + MaxQueue)
    BY <1>2, <1>3
  <2> QED
    BY <1>T, <1>1, <1>2, <2>1, <2>2 DEF TypeOK
<1>5. CASE up
  <2>1. queue' = Append(queue, j) /\ job'[j].at = "queued"
    BY <1>1, <1>5
  <2>2. QueueInv'
    <3>1. /\ Len(queue') = Len(queue) + 1 /\ queue'[Len(queue) + 1] = j
          /\ \A i \in 1..Len(queue) : queue'[i] = queue[i]
      BY <1>3, <2>1
    <3>2. Len(queue) \in Nat
      BY <1>3
    <3>3. \A i \in 1..Len(queue) : queue[i] # j
      BY <1>1 DEF PoolInv, QueueInv, Doing
    <3>4. ASSUME NEW k \in Jobs
          PROVE  job'[k].at = "queued" <=> \E i \in 1..Len(queue') : queue'[i] = k
      <4>1. CASE k = j
        BY <2>1, <3>1, <3>2, <4>1
      <4>2. CASE k # j
        <5>1. job'[k].at = "queued" <=> \E i \in 1..Len(queue) : queue[i] = k
          BY <1>1, <4>2 DEF PoolInv, QueueInv, Doing
        <5> QED
          BY <3>1, <3>2, <4>2, <5>1
      <4> QED
        BY <4>1, <4>2
    <3>5. \A i, k \in 1..Len(queue') : queue'[i] = queue'[k] => i = k
      BY <3>1, <3>2, <3>3 DEF PoolInv, QueueInv
    <3> QED
      BY <3>4, <3>5 DEF QueueInv, Doing
  <2>3. j \notin Slots /\ Slots' = Slots \cup {j}
    BY <1>1, <2>1 DEF Slots, InSlot, InSlotAt, Working
  <2>4. IsFiniteSet(Slots') /\ Cardinality(Slots') = Cardinality(Slots) + 1
    BY <2>3, FS_AddElement DEF PoolInv, SlotInv
  <2> QED
    BY <1>2, <1>4, <1>5, <2>2, <2>4 DEF PoolInv, SlotInv
<1>6. CASE ~up
  <2>1. queue' = queue /\ job'[j].at = "refused"
    BY <1>1, <1>6
  <2>2. QueueInv'
    BY <1>1, <2>1 DEF PoolInv, QueueInv, Doing
  <2>3. Slots' = Slots
    BY <1>1, <2>1 DEF Slots, InSlot, InSlotAt, Working
  <2>4. Cardinality(Slots) \in Nat
    BY FS_CardinalityType DEF PoolInv, SlotInv
  <2> QED
    BY <1>2, <1>3, <1>4, <1>6, <2>2, <2>3, <2>4 DEF PoolInv, SlotInv
<1> QED
  BY <1>5, <1>6

LEMMA TakeKeepsPool ==
    ASSUME PoolInv, RunTypeOK', Take
    PROVE  PoolInv'
<1>T. TypeOK /\ QueueInv
  BY DEF PoolInv
<1>1. PICK j \in Jobs :
         /\ j = Head(queue) /\ job[j].at = "queued" /\ job'[j].at = "start"
         /\ job' \in [Jobs -> Job] /\ \A k \in Jobs \ {j} : job'[k] = job[k]
  BY <1>T, TakeDoes
<1>2. /\ queue \in Seq(Jobs) /\ queue # << >> /\ queue' = Tail(queue)
      /\ UNCHANGED <<up, inflight, current, status, disk>>
  BY <1>T DEF Take, TypeOK, sessionVars
<1>3. /\ Len(queue) \in Nat \ {0} /\ Len(queue') = Len(queue) - 1
      /\ queue' \in Seq(Jobs) /\ queue[1] = j
      /\ \A i \in 1..Len(queue') : queue'[i] = queue[i + 1]
  BY <1>1, <1>2
<1>4. TypeOK'
  BY <1>T, <1>1, <1>2, <1>3 DEF TypeOK
<1>5. QueueInv'
  <2>1. ASSUME NEW k \in Jobs
        PROVE  job'[k].at = "queued" <=> \E i \in 1..Len(queue') : queue'[i] = k
    <3>1. CASE k = j
      <4>1. \A i \in 1..Len(queue') : queue[i + 1] # j
        BY <1>T, <1>3 DEF QueueInv
      <4> QED
        BY <1>1, <1>3, <3>1, <4>1
    <3>2. CASE k # j
      <4>1. job'[k].at = "queued" <=> \E i \in 1..Len(queue) : queue[i] = k
        BY <1>T, <1>1, <3>2 DEF QueueInv, Doing
      <4>2. ASSUME NEW i \in 1..Len(queue), queue[i] = k
            PROVE  \E m \in 1..Len(queue') : queue'[m] = k
        <5>1. i - 1 \in 1..Len(queue') /\ (i - 1) + 1 = i
          BY <1>3, <3>2, <4>2
        <5> QED
          BY <1>3, <4>2, <5>1
      <4>3. \A m \in 1..Len(queue') : m + 1 \in 1..Len(queue)
        BY <1>3
      <4> QED
        BY <1>3, <4>1, <4>2, <4>3
    <3> QED
      BY <3>1, <3>2
  <2>2. ASSUME NEW i \in 1..Len(queue'), NEW k \in 1..Len(queue'), queue'[i] = queue'[k]
        PROVE  i = k
    <3>1. i + 1 \in 1..Len(queue) /\ k + 1 \in 1..Len(queue) /\ queue[i + 1] = queue[k + 1]
      BY <1>3, <2>2
    <3>2. i + 1 = k + 1
      BY <1>T, <3>1 DEF QueueInv
    <3> QED
      BY <3>2
  <2> QED
    BY <2>1, <2>2 DEF QueueInv, Doing
<1>6. Slots' = Slots
  BY <1>1 DEF Slots, InSlot, InSlotAt, Working
<1> QED
  BY <1>2, <1>4, <1>5, <1>6 DEF PoolInv, SlotInv

LEMMA WorkKeepsPool ==
    ASSUME PoolInv, RunTypeOK', NEW j \in Jobs, Work(j)
    PROVE  PoolInv'
<1>T. TypeOK
  BY DEF PoolInv
<1>1. /\ UNCHANGED <<up, queue, current>>
      /\ job' \in [Jobs -> Job] /\ \A k \in Jobs \ {j} : job'[k] = job[k]
      /\ job[j].at \in Working
      /\ status' \in [Sessions -> [Copies -> SessionStatus]]
      /\ disk' \in [Sessions -> SessionStatus]
      /\ \/ job'[j].at \in Working /\ inflight' = inflight
         \/ job'[j].at = "done" /\ inflight' = inflight - 1
  BY <1>T, WorkDoes
<1>2. QueueInv'
  <2>1. \A k \in Jobs : job'[k].at = "queued" <=> job[k].at = "queued"
    BY <1>1 DEF Working
  <2> QED
    BY <1>1, <2>1 DEF PoolInv, QueueInv, Doing
<1>3. IsFiniteSet(Slots) /\ Cardinality(Slots) \in Nat /\ inflight \in 0..(MaxWorkers + MaxQueue)
  BY <1>T, FS_CardinalityType DEF PoolInv, SlotInv, TypeOK
<1>4. SlotInv' /\ inflight' \in 0..(MaxWorkers + MaxQueue)
  <2>1. CASE job'[j].at \in Working /\ inflight' = inflight
    <3>1. Slots' = Slots
      BY <1>1, <2>1 DEF Slots, InSlot, InSlotAt
    <3> QED
      BY <1>1, <1>3, <2>1, <3>1 DEF PoolInv, SlotInv
  <2>2. CASE job'[j].at = "done" /\ inflight' = inflight - 1
    <3>1. j \in Slots /\ Slots' = Slots \ {j}
      BY <1>1, <2>2 DEF Slots, InSlot, InSlotAt, Working
    <3>2. IsFiniteSet(Slots') /\ Cardinality(Slots') = Cardinality(Slots) - 1
      BY <1>3, <3>1, FS_RemoveElement
    <3>3. Cardinality(Slots') \in Nat
      BY <3>2, FS_CardinalityType
    <3>4. inflight' \in 0..(MaxWorkers + MaxQueue)
      BY <1>3, <2>2, <3>2, <3>3 DEF PoolInv, SlotInv
    <3> QED
      BY <1>1, <1>3, <2>2, <3>2, <3>4 DEF PoolInv, SlotInv
  <2> QED
    BY <1>1, <2>1, <2>2
<1>5. TypeOK'
  BY <1>T, <1>1, <1>4 DEF TypeOK
<1> QED
  BY <1>2, <1>4, <1>5 DEF PoolInv

LEMMA ShutdownKeepsPool ==
    ASSUME PoolInv, RunTypeOK', Shutdown
    PROVE  PoolInv'
<1>T. TypeOK
  BY DEF PoolInv
<1>1. /\ job' = [j \in Jobs |-> IF Doing(j, "queued") THEN Gone(j) ELSE job[j]]
      /\ queue' = << >> /\ up' = FALSE
      /\ UNCHANGED <<inflight, current, status, disk>>
  BY DEF Shutdown, sessionVars
<1>2. /\ job' \in [Jobs -> Job]
      /\ \A j \in Jobs : job'[j].at # "queued" /\ (job'[j].at = job[j].at \/ job'[j].at = "lost")
  <2>1. job \in [Jobs -> Job]
    BY <1>T DEF TypeOK
  <2>2. ASSUME NEW j \in Jobs
        PROVE  /\ (IF Doing(j, "queued") THEN Gone(j) ELSE job[j]) \in Job
               /\ job'[j].at # "queued" /\ (job'[j].at = job[j].at \/ job'[j].at = "lost")
    BY <1>T, <1>1, <2>1, GoneIsLost DEF Doing
  <2> QED
    BY <1>1, <2>2
<1>3. TypeOK'
  <2>1. queue' \in Seq(Jobs)
    BY <1>1
  <2>2. up' \in BOOLEAN
    BY ONLY <1>1, Zenon
  <2>3. UNCHANGED <<inflight, current, status, disk>>
    BY <1>1
  <2> QED
    BY ONLY <1>T, <1>2, <2>1, <2>2, <2>3, RunTypeOK' DEF TypeOK
<1>4. QueueInv'
  BY <1>1, <1>2 DEF QueueInv, Doing
<1>5. Slots' \in SUBSET Slots
  BY <1>2 DEF Slots, InSlot, InSlotAt, Working
<1>6. IsFiniteSet(Slots') /\ Cardinality(Slots') <= Cardinality(Slots)
  BY <1>5, FS_Subset DEF PoolInv, SlotInv
<1>7. Cardinality(Slots') \in Nat /\ Cardinality(Slots) \in Nat /\ inflight \in Nat
  BY <1>T, <1>6, FS_CardinalityType DEF PoolInv, SlotInv, TypeOK
<1> QED
  BY <1>1, <1>3, <1>4, <1>6, <1>7 DEF PoolInv, SlotInv

LEMMA RestartKeepsPool ==
    ASSUME PoolInv, RunTypeOK', Restart
    PROVE  PoolInv'
<1>T. TypeOK
  BY DEF PoolInv
<1>1. /\ job' = [j \in Jobs |-> IF Doing(j, "new") THEN job[j] ELSE Gone(j)]
      /\ queue' = << >> /\ up' = TRUE /\ inflight' = 0 /\ UNCHANGED disk
      /\ current' = [s \in Sessions |-> 0]
      /\ status' = [s \in Sessions |-> [c \in Copies |-> disk[s]]]
  BY DEF Restart
<1>2. /\ job' \in [Jobs -> Job]
      /\ \A j \in Jobs : job'[j].at = "new" \/ job'[j].at = "lost"
  BY <1>T, <1>1, GoneIsLost DEF TypeOK, Doing
<1>3. TypeOK'
  <2>1. queue' \in Seq(Jobs) /\ 0 \in Copies /\ inflight' \in 0..(MaxWorkers + MaxQueue)
    BY <1>1 DEF Copies
  <2>2. status' \in [Sessions -> [Copies -> SessionStatus]]
    BY <1>T, <1>1 DEF TypeOK
  <2> QED
    BY <1>T, <1>1, <1>2, <2>1, <2>2 DEF TypeOK
<1>4. QueueInv'
  BY <1>1, <1>2 DEF QueueInv, Doing
<1>5. Slots' = {}
  BY <1>2 DEF Slots, InSlot, InSlotAt, Working
<1> QED
  BY <1>1, <1>3, <1>4, <1>5, FS_EmptySet DEF PoolInv, SlotInv

LEMMA ReadBackKeepsPool ==
    ASSUME PoolInv, RunTypeOK', NEW s \in Sessions, ReadBack(s)
    PROVE  PoolInv'
<1>T. TypeOK
  BY DEF PoolInv
<1>1. /\ UNCHANGED <<up, inflight, queue, job, disk>> /\ current[s] < MaxCopies
      /\ current' = [current EXCEPT ![s] = current[s] + 1]
      /\ status' = [status EXCEPT ![s] = [status[s] EXCEPT ![current[s] + 1] = disk[s]]]
  BY DEF ReadBack, poolVars
<1>2. current[s] + 1 \in Copies
  BY <1>T, <1>1 DEF TypeOK, Copies
<1>3. current' \in [Sessions -> Copies]
  BY <1>T, <1>1, <1>2 DEF TypeOK
<1>4. status' \in [Sessions -> [Copies -> SessionStatus]]
  BY <1>T, <1>1, <1>2 DEF TypeOK
<1>5. TypeOK'
  BY <1>T, <1>1, <1>3, <1>4 DEF TypeOK
<1>6. QueueInv'
  BY <1>1 DEF PoolInv, QueueInv, Doing
<1>7. Slots' = Slots
  BY <1>1 DEF Slots, InSlot
<1> QED
  BY <1>1, <1>5, <1>6, <1>7 DEF PoolInv, SlotInv

LEMMA NextPool == PoolInv /\ [Next]_vars => PoolInv'
<1> SUFFICES ASSUME PoolInv, [Next]_vars PROVE PoolInv'
  OBVIOUS
<1>1. RunTypeOK'
  BY NextIsRunStep, NextTyped DEF PoolInv, TypeOK
<1>2. ASSUME NEW h \in Hands, HandAsks(h) PROVE PoolInv'
  BY <1>1, <1>2, PoolRests DEF HandAsks
<1>3. CASE PurgeRuns
  BY <1>1, <1>3, PoolRests DEF PurgeRuns
<1>4. CASE UNCHANGED vars
  BY <1>1, <1>4, PoolRests DEF vars
<1> QED
  BY <1>1, <1>2, <1>3, <1>4, RejectKeepsPool, SubmitKeepsPool, TakeKeepsPool, WorkKeepsPool,
     ShutdownKeepsPool, RestartKeepsPool, ReadBackKeepsPool DEF Next

LEMMA InitPool == Init => PoolInv
<1> SUFFICES ASSUME Init PROVE PoolInv
  OBVIOUS
<1>1. /\ RunTypeOK /\ up = TRUE /\ inflight = 0 /\ queue = << >>
      /\ current = [s \in Sessions |-> 0] /\ disk = [s \in Sessions |-> "initialized"]
      /\ status = [s \in Sessions |-> [c \in Copies |-> "initialized"]]
  BY InitTyped DEF Init
<1>2. PICK s \in Sessions : job = [j \in Jobs |-> [at |-> "new", session |-> s, copy |-> 0]]
  BY DEF Init
<1>3. 0 \in Copies /\ "new" \in Over /\ "initialized" \in SessionStatus
  BY DEF Copies, Over, SessionStatus, RunningLike
<1>4. job \in [Jobs -> Job] /\ \A j \in Jobs : job[j].at = "new"
  BY <1>2, <1>3 DEF Job
<1>5. TypeOK
  BY <1>1, <1>3, <1>4 DEF TypeOK
<1>6. QueueInv
  BY <1>1, <1>4 DEF QueueInv, Doing
<1>7. Slots = {}
  BY <1>4 DEF Slots, InSlot, InSlotAt, Working
<1> QED
  BY <1>1, <1>5, <1>6, <1>7, FS_EmptySet DEF PoolInv, SlotInv

\* Type correctness of the scan jobs: the counter of the pool, too, stays
\* between zero and the limit that submit_scan_job checks.
THEOREM JobsTypeCorrect == Spec => []TypeOK
<1>1. PoolInv => TypeOK
  BY DEF PoolInv
<1> QED
  BY <1>1, InitPool, NextPool, PTL DEF Spec

\* Until the executor is shut down the counter is the number of jobs that hold
\* a slot, whatever the scans and the writes to disk raise: every job gives its
\* slot back exactly once.
THEOREM NoSlotLeaks == Spec => []SlotsBelongToJobs
<1>1. PoolInv => SlotsBelongToJobs
  BY DEF PoolInv, SlotInv, SlotsBelongToJobs, Slots
<1> QED
  BY <1>1, InitPool, NextPool, PTL DEF Spec

-------------------------------------------------------------------------------
(* The sessions. *)

\* The jobs and statuses of sessions stay.
LEMMA SessionsRest ==
    ASSUME SessionInv, UNCHANGED <<job, current, status>>
    PROVE  CopiesAreKnown' /\ BatchesAreBare' /\ RunningIsWorkedOn'
<1>1. CopiesAreKnown'
  BY DEF SessionInv, CopiesAreKnown, Doing
<1>2. BatchesAreBare'
  BY DEF SessionInv, BatchesAreBare
<1>3. RunningIsWorkedOn'
  BY DEF SessionInv, RunningIsWorkedOn, WorksOn
<1> QED
  BY <1>1, <1>2, <1>3

\* One job moves on without being at work: it has not begun, waits, or is over.
LEMMA JobMovesAside ==
    ASSUME SessionInv, NEW j \in Jobs, UNCHANGED <<current, status>>,
           \A k \in Jobs \ {j} : job'[k] = job[k],
           job[j].at \notin Unsettled, job'[j].at \in {"queued", "refused", "start"},
           job'[j].copy <= current[job'[j].session]
    PROVE  CopiesAreKnown' /\ BatchesAreBare' /\ RunningIsWorkedOn'
<1>1. CopiesAreKnown'
  BY DEF SessionInv, CopiesAreKnown, Doing
<1>2. BatchesAreBare'
  BY DEF SessionInv, BatchesAreBare, Over
<1>3. ASSUME NEW s \in Sessions, NEW c \in Copies, status'[s][c] \in RunningLike
      PROVE  \/ \E k \in Jobs : WorksOn(k, s, c)' /\ job'[k].at \in Unsettled
             \/ \A k \in Jobs : WorksOn(k, s, c)' => job'[k].at \notin {"release", "done"}
  <2>1. \/ \E k \in Jobs : WorksOn(k, s, c) /\ job[k].at \in Unsettled
        \/ \A k \in Jobs : WorksOn(k, s, c) => job[k].at \notin {"release", "done"}
    BY <1>3 DEF SessionInv, RunningIsWorkedOn
  <2> QED
    BY <2>1 DEF WorksOn
<1> QED
  BY <1>1, <1>2, <1>3 DEF RunningIsWorkedOn

LEMMA WorkKeepsSessions ==
    ASSUME SessionInv, NEW j \in Jobs, Work(j)
    PROVE  CopiesAreKnown' /\ BatchesAreBare' /\ RunningIsWorkedOn'
<1>1. /\ current' = current /\ \A k \in Jobs \ {j} : job'[k] = job[k]
      /\ job'[j].session = job[j].session /\ job'[j].copy = job[j].copy
      /\ job[j].at \in Working /\ job'[j].at \in Working \cup {"done"}
      /\ \A s \in Sessions, c \in Copies :
            status'[s][c] # status[s][c] => s = job[j].session /\ c = job[j].copy
      /\ \/ job'[j].at \in Unsettled
         \/ status'[job[j].session][job[j].copy] \notin RunningLike
         \/ status' = status /\ (job[j].at = "release" \/ Fn[j] = "batch")
      /\ Fn[j] = "batch" => job'[j].at \in {"release", "done"} /\ status' = status
  BY WorkDoes DEF SessionInv
<1>2. CopiesAreKnown'
  BY <1>1 DEF SessionInv, CopiesAreKnown, Doing, Working
<1>3. BatchesAreBare'
  BY <1>1 DEF SessionInv, BatchesAreBare, Over
<1>4. ASSUME NEW s \in Sessions, NEW c \in Copies, status'[s][c] \in RunningLike
      PROVE  \/ \E k \in Jobs : WorksOn(k, s, c)' /\ job'[k].at \in Unsettled
             \/ \A k \in Jobs : WorksOn(k, s, c)' => job'[k].at \notin {"release", "done"}
  <2>1. \A k \in Jobs : WorksOn(k, s, c)' <=> WorksOn(k, s, c)
    BY <1>1 DEF WorksOn
  <2>2. CASE WorksOn(j, s, c) /\ job'[j].at \in Unsettled
    BY <2>1, <2>2
  <2>3. CASE WorksOn(j, s, c) /\ job'[j].at \notin Unsettled
    <3>1. status' = status /\ job[j].at = "release"
      BY <1>1, <1>4, <2>3 DEF WorksOn
    <3>2. PICK k \in Jobs : WorksOn(k, s, c) /\ job[k].at \in Unsettled
      BY <1>4, <2>3, <3>1 DEF SessionInv, RunningIsWorkedOn
    <3>3. k # j
      BY <3>1, <3>2 DEF Unsettled
    <3> QED
      BY <1>1, <2>1, <3>2, <3>3
  <2>4. CASE ~WorksOn(j, s, c)
    <3>1. status'[s][c] = status[s][c]
      BY <1>1, <2>4 DEF WorksOn
    <3>2. \/ \E k \in Jobs : WorksOn(k, s, c) /\ job[k].at \in Unsettled
          \/ \A k \in Jobs : WorksOn(k, s, c) => job[k].at \notin {"release", "done"}
      BY <1>4, <3>1 DEF SessionInv, RunningIsWorkedOn
    <3> QED
      BY <1>1, <2>1, <2>4, <3>2
  <2> QED
    BY <2>2, <2>3, <2>4
<1> QED
  BY <1>2, <1>3, <1>4 DEF RunningIsWorkedOn

LEMMA ReadBackKeepsSessions ==
    ASSUME SessionInv, NEW s \in Sessions, ReadBack(s)
    PROVE  CopiesAreKnown' /\ BatchesAreBare' /\ RunningIsWorkedOn'
<1>1. /\ UNCHANGED job /\ current[s] < MaxCopies
      /\ current' = [current EXCEPT ![s] = current[s] + 1]
      /\ status' = [status EXCEPT ![s] = [status[s] EXCEPT ![current[s] + 1] = disk[s]]]
  BY DEF ReadBack
<1>2. /\ current \in [Sessions -> Copies] /\ current[s] \in Copies /\ current[s] + 1 \in Copies
      /\ status \in [Sessions -> [Copies -> SessionStatus]]
      /\ \A j \in Jobs : job[j].session \in Sessions /\ job[j].copy \in Copies
  BY <1>1 DEF SessionInv, TypeOK, Copies, Job
<1>3. \A r \in Sessions : current'[r] = IF r = s THEN current[s] + 1 ELSE current[r]
  BY <1>1, <1>2
<1>4. CopiesAreKnown'
  BY <1>1, <1>2, <1>3 DEF SessionInv, CopiesAreKnown, Doing, Copies
<1>5. BatchesAreBare'
  BY <1>1 DEF SessionInv, BatchesAreBare
<1>6. ASSUME NEW r \in Sessions, NEW c \in Copies, status'[r][c] \in RunningLike
      PROVE  \/ \E k \in Jobs : WorksOn(k, r, c)' /\ job'[k].at \in Unsettled
             \/ \A k \in Jobs : WorksOn(k, r, c)' => job'[k].at \notin {"release", "done"}
  <2>1. CASE r = s /\ c = current[s] + 1
    \* Nobody holds the new copy.
    <3>1. \A k \in Jobs : ~WorksOn(k, r, c)
      BY <1>2, <2>1 DEF SessionInv, CopiesAreKnown, WorksOn, Copies
    <3> QED
      BY <1>1, <3>1 DEF WorksOn
  <2>2. CASE ~(r = s /\ c = current[s] + 1)
    <3>1. status'[r][c] = status[r][c]
      <4>1. status'[r] = IF r = s THEN [status[s] EXCEPT ![current[s] + 1] = disk[s]] ELSE status[r]
        BY <1>1, <1>2
      <4> QED
        BY <1>2, <2>2, <4>1
    <3> QED
      BY <1>1, <1>6, <3>1 DEF SessionInv, RunningIsWorkedOn, WorksOn
  <2> QED
    BY <2>1, <2>2
<1> QED
  BY <1>4, <1>5, <1>6 DEF RunningIsWorkedOn

\* Jobs are lost, and their sessions with them or not at all.
LEMMA ShutdownKeepsSessions ==
    ASSUME SessionInv, Shutdown
    PROVE  CopiesAreKnown' /\ BatchesAreBare' /\ RunningIsWorkedOn'
<1>T. TypeOK
  BY DEF SessionInv
<1>1. /\ job' = [j \in Jobs |-> IF Doing(j, "queued") THEN Gone(j) ELSE job[j]]
      /\ UNCHANGED <<current, status>>
  BY DEF Shutdown, sessionVars
<1>2. \A j \in Jobs :
         \/ job'[j] = job[j]
         \/ job[j].at = "queued" /\ job'[j].at = "lost" /\ job'[j].copy = 0
              /\ job'[j].session = job[j].session
  BY <1>T, <1>1, GoneIsLost DEF Doing
<1>3. \A s \in Sessions : 0 <= current[s]
  BY <1>T DEF TypeOK, Copies
<1>4. \A j \in Jobs : job[j].session \in Sessions
  BY <1>T DEF TypeOK, Job
<1>5. CopiesAreKnown'
  BY <1>1, <1>2, <1>3, <1>4 DEF SessionInv, CopiesAreKnown, Doing
<1>6. BatchesAreBare'
  BY <1>2 DEF SessionInv, BatchesAreBare, Over
<1>7. ASSUME NEW s \in Sessions, NEW c \in Copies, status'[s][c] \in RunningLike
      PROVE  \/ \E k \in Jobs : WorksOn(k, s, c)' /\ job'[k].at \in Unsettled
             \/ \A k \in Jobs : WorksOn(k, s, c)' => job'[k].at \notin {"release", "done"}
  <2>1. \/ \E k \in Jobs : WorksOn(k, s, c) /\ job[k].at \in Unsettled
        \/ \A k \in Jobs : WorksOn(k, s, c) => job[k].at \notin {"release", "done"}
    BY <1>1, <1>7 DEF SessionInv, RunningIsWorkedOn
  <2>2. \A k \in Jobs : job[k].at \in Unsettled => job'[k] = job[k]
    BY <1>2 DEF Unsettled, Working
  <2>3. \A k \in Jobs : job'[k].at \in {"release", "done"} => job'[k] = job[k]
    BY <1>2
  <2> QED
    BY <2>1, <2>2, <2>3 DEF WorksOn
<1> QED
  BY <1>5, <1>6, <1>7 DEF RunningIsWorkedOn

LEMMA RestartKeepsSessions ==
    ASSUME SessionInv, Restart
    PROVE  CopiesAreKnown' /\ BatchesAreBare' /\ RunningIsWorkedOn'
<1>T. TypeOK
  BY DEF SessionInv
<1>1. /\ job' = [j \in Jobs |-> IF Doing(j, "new") THEN job[j] ELSE Gone(j)]
      /\ current' = [s \in Sessions |-> 0]
  BY DEF Restart
<1>2. \A j \in Jobs : /\ job'[j].at \in {"new", "lost"} /\ job'[j].copy = 0
                      /\ job'[j].session \in Sessions
  BY <1>T, <1>1, GoneIsLost DEF SessionInv, CopiesAreKnown, Doing, TypeOK, Job
<1>3. CopiesAreKnown'
  BY <1>1, <1>2 DEF CopiesAreKnown, Doing
<1>4. BatchesAreBare'
  BY <1>2 DEF BatchesAreBare, Over
<1>5. RunningIsWorkedOn'
  BY <1>2 DEF RunningIsWorkedOn, WorksOn
<1> QED
  BY <1>3, <1>4, <1>5

LEMMA NextSession == PoolInv /\ SessionInv /\ [Next]_vars => SessionInv'
<1> SUFFICES ASSUME PoolInv, SessionInv, [Next]_vars
             PROVE  CopiesAreKnown' /\ BatchesAreBare' /\ RunningIsWorkedOn'
  BY NextPool DEF PoolInv, SessionInv
<1>T. TypeOK /\ QueueInv
  BY DEF SessionInv
<1>K. ASSUME NEW j \in Jobs
      PROVE  job[j].session \in Sessions /\ job[j].copy <= current[job[j].session]
  BY <1>K, <1>T DEF SessionInv, CopiesAreKnown, TypeOK, Job
<1>1. ASSUME NEW j \in Jobs, Reject(j)
      PROVE  CopiesAreKnown' /\ BatchesAreBare' /\ RunningIsWorkedOn'
  <2>1. /\ \A k \in Jobs \ {j} : job'[k] = job[k] /\ UNCHANGED <<current, status>>
        /\ job[j].at = "new" /\ job'[j].at = "refused"
        /\ job'[j].session = job[j].session /\ job'[j].copy = job[j].copy
    BY <1>1, <1>T, JobGoes DEF Reject, Doing, Over, sessionVars
  <2>2. UNCHANGED <<current, status>>
    BY <1>1 DEF Reject, sessionVars
  <2> QED
    BY <1>K, <2>1, <2>2, JobMovesAside DEF Unsettled, Working
<1>2. ASSUME NEW j \in Jobs, NEW s \in Sessions, Submit(j, s)
      PROVE  CopiesAreKnown' /\ BatchesAreBare' /\ RunningIsWorkedOn'
  <2>1. /\ \A k \in Jobs \ {j} : job'[k] = job[k]
        /\ job[j].at = "new" /\ job'[j].at \in {"queued", "refused"}
        /\ \/ job'[j].session = s /\ job'[j].copy = current[s]
           \/ job'[j].session = job[j].session /\ job'[j].copy = job[j].copy
    BY <1>2, <1>T, SubmitDoes
  <2>2. UNCHANGED <<current, status>> /\ current[s] <= current[s]
    BY <1>2, <1>T DEF Submit, sessionVars, TypeOK, Copies
  <2>3. job'[j].copy <= current[job'[j].session]
    BY <1>K, <2>1, <2>2
  <2> QED
    BY <2>1, <2>2, <2>3, JobMovesAside DEF Unsettled, Working
<1>3. ASSUME Take
      PROVE  CopiesAreKnown' /\ BatchesAreBare' /\ RunningIsWorkedOn'
  <2>1. PICK j \in Jobs :
          /\ job[j].at = "queued" /\ job'[j].at = "start"
          /\ \A k \in Jobs \ {j} : job'[k] = job[k]
          /\ job'[j].session = job[j].session /\ job'[j].copy = job[j].copy
    BY <1>3, <1>T, TakeDoes
  <2>2. UNCHANGED <<current, status>>
    BY <1>3 DEF Take, sessionVars
  <2> QED
    BY <1>K, <2>1, <2>2, JobMovesAside DEF Unsettled, Working
<1>4. ASSUME NEW h \in Hands, HandAsks(h)
      PROVE  CopiesAreKnown' /\ BatchesAreBare' /\ RunningIsWorkedOn'
  BY <1>4, SessionsRest DEF HandAsks, sessionVars
<1>5. ASSUME PurgeRuns \/ UNCHANGED vars
      PROVE  CopiesAreKnown' /\ BatchesAreBare' /\ RunningIsWorkedOn'
  BY <1>5, SessionsRest DEF PurgeRuns, vars, sessionVars
<1> QED
  BY <1>1, <1>2, <1>3, <1>4, <1>5, WorkKeepsSessions, ReadBackKeepsSessions,
     ShutdownKeepsSessions, RestartKeepsSessions DEF Next

LEMMA InitSession == Init => SessionInv
<1> SUFFICES ASSUME Init PROVE SessionInv
  OBVIOUS
<1>1. TypeOK /\ QueueInv
  BY InitPool DEF PoolInv
<1>2. PICK s \in Sessions : job = [j \in Jobs |-> [at |-> "new", session |-> s, copy |-> 0]]
  BY DEF Init
<1>3. \A j \in Jobs : job[j].at = "new" /\ job[j].copy = 0 /\ job[j].session = s
  BY <1>2
<1>4. current[s] = 0
  BY DEF Init
<1> QED
  BY <1>1, <1>3, <1>4 DEF SessionInv, CopiesAreKnown, BatchesAreBare, Over, RunningIsWorkedOn

\* Whichever of the function of a job and the wrapper around it settles the
\* status last, a session object that a finished job held, and on which nobody
\* works, does not look like running: two jobs on one session, evictions and
\* restarts included.
THEOREM FinishedSessionsAreSettled == Spec => []FinishedSessionIsSettled
<1>1. SessionInv => FinishedSessionIsSettled
  <2> SUFFICES ASSUME SessionInv, NEW j \in Jobs, Doing(j, "done"), Fn[j] # "batch",
                      \A k \in Jobs : Fn[k] # "batch" /\ job[k].session = job[j].session
                                        /\ job[k].copy = job[j].copy => job[k].at \notin Working,
                      Own(j) \in RunningLike
               PROVE  FALSE
    BY DEF FinishedSessionIsSettled
  <2>1. /\ job[j].session \in Sessions /\ job[j].copy \in Copies
        /\ status[job[j].session][job[j].copy] \in RunningLike
    BY OwnIsStatus DEF SessionInv
  <2>2. WorksOn(j, job[j].session, job[j].copy) /\ job[j].at = "done"
    BY DEF WorksOn, Doing
  <2>3. PICK k \in Jobs : WorksOn(k, job[j].session, job[j].copy) /\ job[k].at \in Unsettled
    BY <2>1, <2>2 DEF SessionInv, RunningIsWorkedOn
  <2> QED
    BY <2>3 DEF WorksOn, Unsettled
<1> QED
  BY <1>1, InitPool, InitSession, NextPool, NextSession, PTL DEF Spec
===============================================================================
