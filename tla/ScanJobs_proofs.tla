---------------------------- MODULE ScanJobs_proofs ----------------------------
(***************************************************************************)
(* ScanJobs implements RunLifecycle: whatever the pool, the sessions and   *)
(* the server do, the runs go through steps of RunLifecycle or stay as     *)
(* they are. What is proved of RunLifecycle then holds of the server, for  *)
(* any number of jobs, stewards, threads and sessions.                     *)
(***************************************************************************)
EXTENDS ScanJobs, RunLifecycle_proofs

\* A death of nobody stands for the requests of other kinds.
LEMMA OtherRequest ==
    ASSUME RunTypeOK, UNCHANGED <<made, object, call, folded, met>>, asked' \in asked..MaxAsks
    PROVE  RunNext
<1>1. Die({})
  BY DEF Die, RunTypeOK
<1> QED
  BY <1>1 DEF RunNext

LEMMA OneRequestMore ==
    ASSUME RunTypeOK, Asked
    PROVE  asked' \in asked..MaxAsks
BY RunAssumption DEF RunTypeOK, Asked

\* What a pool thread does is a step of the runs or leaves them alone.
LEMMA WorkIsRunStep ==
    ASSUME RunTypeOK, NEW j \in Jobs, Work(j)
    PROVE  RunNext \/ UNCHANGED runVars
<1>0. j \in Actors
  BY JobAssumption
<1>1. CASE WriteRun(j)
  BY <1>0, <1>1 DEF WriteRun, RunNext
<1>2. CASE CallStep(j)
  <2>1. CASE Step(j) \/ Raise(j)
    BY <1>0, <2>1 DEF RunNext
  <2>2. CASE Die({j}) /\ UNCHANGED asked
    <3>1. asked' \in asked..MaxAsks
      BY <2>2, RunAssumption DEF RunTypeOK
    <3> QED
      BY <1>0, <2>2, <3>1 DEF RunNext
  <2> QED
    BY <1>2, <2>1, <2>2 DEF CallStep
<1>3. CASE BeginProfile(j) \/ EndProfile(j) \/ ProfileFails(j) \/ BeginPii(j) \/ EndPii(j)
           \/ PiiFails(j) \/ EndScan(j) \/ EndBatch(j) \/ Settle(j) \/ Release(j)
  BY <1>3 DEF BeginProfile, EndProfile, ProfileFails, BeginPii, EndPii, PiiFails, EndScan,
              EndBatch, Settle, Release
<1> QED
  BY <1>1, <1>2, <1>3 DEF Work

\* So is what the stewards ask of the runs.
LEMMA HandIsRunStep ==
    ASSUME NEW h \in Hands, HandAsks(h)
    PROVE  RunNext
<1>1. h \in Actors
  BY JobAssumption
<1> QED
  BY <1>1 DEF HandAsks, RunNext

LEMMA RestartIsRunStep ==
    ASSUME RunTypeOK, Restart
    PROVE  RunNext
<1>1. PICK died \in SUBSET Hands : Die(Jobs \cup died)
  BY DEF Restart
<1>2. Jobs \cup died \in SUBSET Actors
  BY JobAssumption
<1>3. asked' \in asked..MaxAsks
  BY OneRequestMore DEF Restart
<1> QED
  BY <1>1, <1>2, <1>3 DEF RunNext

LEMMA NextIsRunStep ==
    ASSUME RunTypeOK, [Next]_vars
    PROVE  [RunNext]_runVars
<1>1. ASSUME NEW j \in Jobs, Reject(j)
      PROVE  UNCHANGED runVars
  BY <1>1 DEF Reject
<1>2. ASSUME NEW j \in Jobs, Work(j)
      PROVE  RunNext \/ UNCHANGED runVars
  BY <1>2, WorkIsRunStep
<1>3. ASSUME NEW j \in Jobs, NEW s \in Sessions, Submit(j, s)
      PROVE  UNCHANGED runVars
  BY <1>3 DEF Submit
<1>4. CASE Take
  BY <1>4 DEF Take
<1>5. CASE Shutdown
  BY <1>5, OneRequestMore, OtherRequest DEF Shutdown
<1>6. ASSUME NEW s \in Sessions, ReadBack(s)
      PROVE  RunNext
  BY <1>6, OneRequestMore, OtherRequest DEF ReadBack
<1>7. CASE Restart
  BY <1>7, RestartIsRunStep
<1>8. ASSUME NEW h \in Hands, HandAsks(h)
      PROVE  RunNext
  BY <1>8, HandIsRunStep
<1>9. CASE PurgeRuns
  BY <1>9 DEF PurgeRuns, RunNext
<1>10. CASE UNCHANGED vars
  BY <1>10 DEF vars
<1> QED
  BY <1>1, <1>2, <1>3, <1>4, <1>5, <1>6, <1>7, <1>8, <1>9, <1>10 DEF Next

-------------------------------------------------------------------------------
\* The server with its pool, sessions, shutdowns and restarts drives the runs
\* only as RunLifecycle says.
THEOREM ScanJobsDriveRuns == Spec => RunSpec
<1>1. Init => RunInit /\ RunTypeOK
  BY InitTyped DEF Init
<1>2. RunTypeOK /\ [Next]_vars => [RunNext]_runVars
  BY NextIsRunStep
<1>3. RunTypeOK /\ [Next]_vars => RunTypeOK'
  BY NextIsRunStep, NextTyped
<1> QED
  BY <1>1, <1>2, <1>3, PTL DEF Spec, RunSpec

\* In a server with any number of scan jobs and stewards, whose threads die
\* with it, a run marked merged had its payload folded.
THEOREM MergedRunWasFoldedInScans == Spec => []MergedRunWasFolded
BY ScanJobsDriveRuns, MergedRunWasFoldedHolds, PTL

\* In the same server a folded run no two calls met on, and none died on, is
\* marked merged or was discarded.
THEOREM FoldedRunIsMarkedInScans == Spec => []FoldedRunIsMarked
BY ScanJobsDriveRuns, FoldedRunIsMarkedHolds, PTL
===============================================================================
