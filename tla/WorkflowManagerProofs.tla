----------------------- MODULE WorkflowManagerProofs -----------------------
(***************************************************************************)
(* Type correctness of WorkflowManager, mutual exclusion of execution, and *)
(* the run file: that it never lags behind the execution and follows       *)
(* RunLifecycle, for every script length and bound; exclusion also for     *)
(* every set of processes.                                                 *)
(***************************************************************************)
EXTENDS WorkflowManager, FiniteSetTheorems, TLAPS

(* Nobody removes a run under a live lease: deleteRun() would unlink the   *)
(* lock of whoever executes it.                                            *)
NoLeasedRemoval == RemovesLeasedRuns = FALSE

-----------------------------------------------------------------------------
(* Records written to the run file have the run file's type.               *)
LEMMA RecordType ==
    ASSUME NEW st \in RunStatus, NEW jr \in SUBSET Calls, NEW err
    PROVE  Record(st, jr, err) \in PersistedRunState
BY DEF Record, PersistedRunState

LEMMA NoRecordType == NoRecord \in PersistedRunState
BY DEF NoRecord, PersistedRunState

LEMMA TypeInit == Init => TypeOK
<1>1. \A p \in Procs : TRUE
  OBVIOUS
<1>2. (CHOOSE p \in Procs : TRUE) \in Procs
  BY ProcsAssumption
<1> QED
  BY <1>2, BoundsAssumption, NoRecordType
  DEF Init, TypeOK, Gens, NoGen, RunStatus, RunError

(* Creating a generation keeps every variable it sets in its type.         *)
LEMMA LaunchType ==
    ASSUME TypeOK, NEW p \in Procs, NEW jr \in SUBSET Calls, Launch(p, jr),
           task' \in [Procs -> {"idle", "resuming", "recovering"}],
           seen' \in [Procs -> PersistedRunState]
    PROVE  TypeOK'
<1>1. nextGen \in Gens /\ nextGen' \in 1 .. MaxGens + 1
  BY BoundsAssumption DEF TypeOK, Launch, Gens
<1>2. disk' \in PersistedRunState
  BY RecordType DEF Launch, RunStatus
<1> QED
  BY <1>1, <1>2 DEF TypeOK, Launch, callVars, RunStatus, RunError

(* The last three assignments of executeRun(), pause() and stop().         *)
LEMMA FinalizeType ==
    ASSUME TypeOK, NEW g \in Gens, NEW st \in RunStatus, NEW err \in RunError,
           Finalize(g, st, err)
    PROVE  /\ status' \in [Gens -> RunStatus]
           /\ error' \in [Gens -> RunError]
           /\ leased' \in [Gens -> BOOLEAN]
           /\ lock' \in Gens \cup {NoGen}
           /\ disk' \in PersistedRunState
<1>1. disk' \in PersistedRunState
  BY RecordType DEF Finalize, TypeOK
<1> QED
  BY <1>1 DEF Finalize, TypeOK, LockAfterRelease

LEMMA SettleType ==
    ASSUME TypeOK, NEW g \in Gens, NEW st \in RunStatus, NEW err \in RunError,
           Finalize(g, st, err), Settle(g)
    PROVE  TypeOK'
<1>1. 0 \in 0 .. NumCalls
  BY BoundsAssumption
<1> QED
  BY <1>1, FinalizeType DEF Settle, procVars, TypeOK

LEMMA UserStepType == ASSUME TypeOK, NEW p \in Procs, UserStep(p) PROVE TypeOK'
<1>1. CASE StartRun(p)
  BY <1>1, LaunchType DEF StartRun, TypeOK
<1>2. CASE Pause(p)
  <2> DEFINE g == runs[p]
  <2>1. g \in Gens /\ error[g] \in RunError /\ Finalize(g, "paused", error[g])
    BY <1>2 DEF Pause, TypeOK
  <2> QED
    BY <1>2, <2>1, FinalizeType DEF Pause, TypeOK, procVars, RunStatus
<1>3. CASE Stop(p)
  <2> DEFINE g == runs[p]
  <2>1. g \in Gens /\ error[g] \in RunError /\ Finalize(g, "aborted", error[g])
    BY <1>3 DEF Stop, TypeOK
  <2> QED
    BY <1>3, <2>1, FinalizeType DEF Stop, TypeOK, procVars, RunStatus
<1>4. CASE ExternalAbort(p)
  BY <1>4 DEF ExternalAbort, TypeOK, procVars
<1>5. CASE ResumeLoad(p)
  BY <1>5 DEF ResumeLoad, TypeOK, genVars, callVars
<1>6. CASE DeleteRun(p)
  BY <1>6, NoRecordType DEF DeleteRun, TypeOK, callVars
<1> QED
  BY <1>1, <1>2, <1>3, <1>4, <1>5, <1>6 DEF UserStep

LEMMA ContinueStepType ==
    ASSUME TypeOK, NEW p \in Procs, ContinueStep(p) PROVE TypeOK'
<1>1. ReturnToLoop(p) => /\ task' \in [Procs -> {"idle", "resuming", "recovering"}]
                         /\ seen' \in [Procs -> PersistedRunState]
  BY NoRecordType DEF ReturnToLoop, TypeOK
<1>2. seen[p] \in PersistedRunState /\ seen[p].journal \in SUBSET Calls
  BY DEF TypeOK, PersistedRunState
<1>3. CASE ResumeTakesLease(p)
  BY <1>1, <1>2, <1>3, LaunchType DEF ResumeTakesLease
<1>4. CASE ResumeRefused(p)
  BY <1>1, <1>4 DEF ResumeRefused, TypeOK, genVars, callVars
<1>5. CASE RecoverStaleRun(p)
  <2>1. disk' \in PersistedRunState
    BY <1>2, <1>5 DEF RecoverStaleRun, PersistedRunState, RunStatus
  <2> QED
    BY <1>1, <1>5, <2>1 DEF RecoverStaleRun, TypeOK, genVars, callVars
<1>6. CASE RecoverSkipsRun(p)
  BY <1>1, <1>6 DEF RecoverSkipsRun, TypeOK, genVars, callVars
<1> QED
  BY <1>3, <1>4, <1>5, <1>6 DEF ContinueStep

LEMMA ProcessStepType ==
    ASSUME TypeOK, NEW p \in Procs, ProcessStep(p) PROVE TypeOK'
<1>1. CASE Crash(p)
  <2>1. 0 \in 0 .. NumCalls
    BY BoundsAssumption
  <2>2. /\ alive' \in [Procs -> BOOLEAN] /\ crashes' \in Nat
        /\ runs' \in [Procs -> Gens \cup {NoGen}]
        /\ task' \in [Procs -> {"idle", "resuming", "recovering"}]
        /\ seen' \in [Procs -> PersistedRunState]
    BY <1>1, NoRecordType DEF Crash, ReturnToLoop, TypeOK
  <2>3. /\ engine' \in [Gens -> {"unborn", "running", "unwinding", "settled", "dead"}]
        /\ status' \in [Gens -> RunStatus] /\ error' \in [Gens -> RunError]
        /\ leased' \in [Gens -> BOOLEAN]
    BY <1>1 DEF Crash, TypeOK, RunStatus, RunError
  <2>4. /\ journal' \in [Gens -> SUBSET Calls]
        /\ resumeJournal' \in [Gens -> SUBSET Calls]
        /\ callSeq' \in [Gens -> 0 .. NumCalls]
        /\ inFlight' \in [Gens -> SUBSET Calls]
        /\ limited' \in [Gens -> BOOLEAN]
    BY <1>1, <2>1 DEF Crash, TypeOK
  <2>5. UNCHANGED <<nextGen, owner, lock, disk>>
    BY <1>1 DEF Crash
  <2> QED
    BY <2>2, <2>3, <2>4, <2>5 DEF TypeOK
<1>2. CASE Restart(p)
  BY <1>2 DEF Restart, TypeOK, genVars, callVars
<1> QED
  BY <1>1, <1>2 DEF ProcessStep

LEMMA RunStepType == ASSUME TypeOK, NEW g \in Gens, RunStep(g) PROVE TypeOK'
<1>1. CASE Unwind(g)
  <2> DEFINE st == IF status[g] = "running" THEN "aborted" ELSE status[g]
  <2>1. st \in RunStatus /\ "other" \in RunError
    BY DEF TypeOK, RunStatus, RunError
  <2> QED
    BY <1>1, <2>1, SettleType DEF Unwind
<1>2. CASE RunCompletes(g)
  BY <1>2, SettleType DEF RunCompletes, TypeOK, RunStatus
<1>3. ASSUME NEW err \in {"usage_limit", "other"}, RunRejects(g, err)
      PROVE  TypeOK'
  <2> DEFINE st == IF err = "usage_limit" THEN "paused" ELSE "failed"
  <2>1. st \in RunStatus /\ err \in RunError
    BY <1>3 DEF RunStatus, RunError
  <2> QED
    BY <1>3, <2>1, SettleType DEF RunRejects
<1> QED
  BY <1>1, <1>2, <1>3 DEF RunStep

LEMMA CallStepType == ASSUME TypeOK, NEW g \in Gens, CallStep(g) PROVE TypeOK'
<1>1. callSeq[g] < NumCalls => callSeq[g] \in Calls /\ callSeq[g] + 1 \in 0 .. NumCalls
  BY BoundsAssumption DEF TypeOK, Calls
<1>2. CASE ReplayCall(g)
  BY <1>1, <1>2 DEF ReplayCall, TypeOK, procVars, genVars
<1>3. CASE LiveCall(g)
  BY <1>1, <1>3 DEF LiveCall, TypeOK, procVars, genVars
<1>4. ASSUME NEW c \in Calls, AgentFinishes(g, c)
      PROVE  TypeOK'
  <2>1. disk' \in PersistedRunState
    BY <1>4, RecordType DEF AgentFinishes, TypeOK
  <2> QED
    BY <1>4, <2>1 DEF AgentFinishes, TypeOK, procVars
<1>5. ASSUME NEW c \in Calls, NEW quota \in BOOLEAN, AgentFails(g, c, quota)
      PROVE  TypeOK'
  BY <1>5 DEF AgentFails, TypeOK, procVars, genVars
<1> QED
  BY <1>2, <1>3, <1>4, <1>5 DEF CallStep

(* Every variable of the manager keeps its type.                           *)
THEOREM TypeCorrect == Spec => []TypeOK
<1>1. TypeOK /\ [Next]_vars => TypeOK'
  <2> SUFFICES ASSUME TypeOK, [Next]_vars PROVE TypeOK'
    OBVIOUS
  <2>1. CASE Next
    BY <2>1, UserStepType, ContinueStepType, ProcessStepType, RunStepType,
       CallStepType DEF Next
  <2>2. CASE UNCHANGED vars
    BY <2>2 DEF vars, procVars, genVars, callVars, TypeOK
  <2> QED
    BY <2>1, <2>2
<1> QED
  BY <1>1, TypeInit, PTL DEF Spec

-----------------------------------------------------------------------------
(* Why two generations never execute at once.  Execution holds the lease   *)
(* and the lease is the lock file; but a lock is also stolen when its pid  *)
(* is dead, so the argument needs that a lock with a live pid is a lease   *)
(* somebody still holds, that a process's map never points at a generation *)
(* of a dead process, and that generations still to come are blank.        *)

ExecutionIsLeased == \A g \in Gens : engine[g] = "running" => leased[g]

LeaseIsTheLock ==
    \A g \in Gens : leased[g] => lock = g /\ engine[g] \in {"running", "unwinding"}

LiveLockIsLeased == LockLive => leased[lock]

MapIsLive ==
    \A p \in Procs : runs[p] # NoGen =>
        owner[runs[p]] = p /\ engine[runs[p]] \notin {"unborn", "dead"}

FutureIsBlank == \A g \in Gens : g >= nextGen => engine[g] = "unborn"

LeaseInv == /\ ExecutionIsLeased /\ LeaseIsTheLock /\ LiveLockIsLeased
            /\ MapIsLive /\ FutureIsBlank

LEMMA LeaseInit == Init => LeaseInv
BY DEF Init, LeaseInv, ExecutionIsLeased, LeaseIsTheLock, LiveLockIsLeased,
       MapIsLive, FutureIsBlank, LockLive, Gens, NoGen

(* Without a live lock nothing holds a lease, so nothing executes.         *)
LEMMA NoLockNoExecution ==
    ASSUME TypeOK, LeaseInv, ~LockLive
    PROVE  \A g \in Gens : ~leased[g] /\ engine[g] # "running"
BY DEF LeaseInv, ExecutionIsLeased, LeaseIsTheLock, LockLive, Gens, NoGen, TypeOK

LEMMA LaunchLease ==
    ASSUME TypeOK, LeaseInv, ~LockLive, NEW p \in Procs, NEW jr, Launch(p, jr)
    PROVE  LeaseInv'
<1>1. nextGen \in Gens /\ nextGen # NoGen /\ nextGen' = nextGen + 1 /\ nextGen \in Nat
  BY BoundsAssumption DEF Launch, TypeOK, Gens, NoGen
<1>2. \A g \in Gens : ~leased[g] /\ engine[g] # "running"
  BY NoLockNoExecution
<1>3. /\ lock' = nextGen
      /\ \A g \in Gens : leased'[g] = (g = nextGen)
      /\ \A g \in Gens : engine'[g] = IF g = nextGen THEN "running" ELSE engine[g]
  BY <1>1, <1>2 DEF Launch, TypeOK
<1>4. ExecutionIsLeased' /\ LeaseIsTheLock' /\ LiveLockIsLeased'
  BY <1>1, <1>2, <1>3 DEF ExecutionIsLeased, LeaseIsTheLock, LiveLockIsLeased, LockLive
<1>5. engine[nextGen] = "unborn"
  BY <1>1 DEF LeaseInv, FutureIsBlank
<1>6. MapIsLive'
  <2> SUFFICES ASSUME NEW q \in Procs, runs'[q] # NoGen
               PROVE  /\ owner'[runs'[q]] = q
                      /\ engine'[runs'[q]] \notin {"unborn", "dead"}
    BY DEF MapIsLive
  <2>1. CASE q = p
    BY <1>1, <1>3, <2>1 DEF Launch, TypeOK
  <2>2. CASE q # p
    <3>1. runs'[q] = runs[q] /\ runs[q] \in Gens
      BY <2>2 DEF Launch, TypeOK
    <3>2. owner[runs[q]] = q /\ engine[runs[q]] \notin {"unborn", "dead"}
      BY <3>1 DEF LeaseInv, MapIsLive
    <3>3. runs[q] # nextGen
      BY <1>5, <3>2
    <3> QED
      BY <1>1, <1>3, <3>1, <3>2, <3>3 DEF Launch, TypeOK
  <2> QED
    BY <2>1, <2>2
<1>7. FutureIsBlank'
  BY <1>1, <1>3 DEF LeaseInv, FutureIsBlank, Gens
<1> QED
  BY <1>4, <1>6, <1>7 DEF LeaseInv

(* A generation alive in its process stops executing and gives up the      *)
(* lease: the way out of executeRun(), pause() and stop().                 *)
LEMMA LeaveLease ==
    ASSUME TypeOK, LeaseInv, NEW g \in Gens, engine[g] \notin {"unborn", "dead"},
           NEW after \in {"unwinding", "settled"},
           engine' = [engine EXCEPT ![g] = after],
           leased' = [leased EXCEPT ![g] = FALSE],
           lock' = LockAfterRelease(g),
           UNCHANGED <<runs, owner, nextGen>>
    PROVE  LeaseInv'
<1>1. \A h \in Gens : /\ leased'[h] = (leased[h] /\ h # g)
                       /\ engine'[h] = IF h = g THEN after ELSE engine[h]
  BY DEF TypeOK
<1>2. lock' = lock \/ (lock' = NoGen /\ lock = g)
  BY DEF LockAfterRelease
<1>3. ExecutionIsLeased' /\ LeaseIsTheLock'
  BY <1>1, <1>2 DEF LeaseInv, ExecutionIsLeased, LeaseIsTheLock
<1>4. LiveLockIsLeased'
  <2> SUFFICES ASSUME LockLive' PROVE leased'[lock']
    BY DEF LiveLockIsLeased
  <2>1. lock' = lock /\ lock \in Gens
    BY <1>2 DEF LockLive, TypeOK
  <2>2. LockLive
    BY <1>1, <2>1 DEF LockLive
  <2>3. leased[lock]
    BY <2>2 DEF LeaseInv, LiveLockIsLeased
  <2>4. lock # g
    BY <2>1, <2>2, <2>3 DEF LockAfterRelease, LockLive
  <2> QED
    BY <1>1, <2>1, <2>3, <2>4
<1>5. MapIsLive'
  BY <1>1 DEF LeaseInv, MapIsLive, TypeOK
<1>6. FutureIsBlank'
  BY <1>1 DEF LeaseInv, FutureIsBlank
<1> QED
  BY <1>3, <1>4, <1>5, <1>6 DEF LeaseInv

(* Steps that leave leases, execution, maps and the lock alone.            *)
LEMMA UntouchedLease ==
    ASSUME LeaseInv, UNCHANGED <<runs, owner, engine, leased, lock, nextGen>>
    PROVE  LeaseInv'
BY DEF LeaseInv, ExecutionIsLeased, LeaseIsTheLock, LiveLockIsLeased, MapIsLive,
       FutureIsBlank, LockLive

LEMMA UserStepLease ==
    ASSUME NoLeasedRemoval, TypeOK, LeaseInv, NEW p \in Procs, UserStep(p)
    PROVE  LeaseInv'
<1>1. CASE StartRun(p)
  BY <1>1, LaunchLease DEF StartRun
<1>2. CASE Pause(p)
  <2>1. runs[p] \in Gens /\ engine[runs[p]] \notin {"unborn", "dead"}
    BY <1>2 DEF Pause, TypeOK, LeaseInv, MapIsLive
  <2> QED
    BY <1>2, <2>1, LeaveLease DEF Pause, Finalize, procVars
<1>3. CASE Stop(p)
  <2> DEFINE g == runs[p]
             after == IF engine[g] = "running" THEN "unwinding" ELSE engine[g]
  <2>1. g \in Gens /\ engine[g] \notin {"unborn", "dead"}
    BY <1>3 DEF Stop, TypeOK, LeaseInv, MapIsLive
  <2>2. after \in {"unwinding", "settled"}
    BY <2>1 DEF TypeOK
  <2>3. engine' = [engine EXCEPT ![g] = after]
    BY <1>3 DEF Stop
  <2>4. /\ leased' = [leased EXCEPT ![g] = FALSE]
        /\ lock' = LockAfterRelease(g)
        /\ UNCHANGED <<runs, owner, nextGen>>
    BY <1>3 DEF Stop, Finalize, procVars
  <2> HIDE DEF g, after
  <2> QED
    BY <2>1, <2>2, <2>3, <2>4, LeaveLease
<1>4. CASE ExternalAbort(p)
  <2>1. 1 \in Gens
    BY <1>4 DEF ExternalAbort, TypeOK, NoGen
  <2>2. \A g \in Gens : engine'[g] = IF g = 1 THEN "unwinding" ELSE engine[g]
    BY <1>4, <2>1 DEF ExternalAbort, TypeOK
  <2>3. UNCHANGED <<runs, owner, leased, lock, nextGen>> /\ engine[1] = "running"
    BY <1>4 DEF ExternalAbort, procVars
  <2>4. ExecutionIsLeased' /\ LeaseIsTheLock' /\ FutureIsBlank'
    BY <2>1, <2>2, <2>3 DEF LeaseInv, ExecutionIsLeased, LeaseIsTheLock, FutureIsBlank
  <2>5. LiveLockIsLeased'
    BY <2>1, <2>2, <2>3 DEF LeaseInv, LiveLockIsLeased, LockLive, TypeOK
  <2>6. MapIsLive'
    BY <2>1, <2>2, <2>3 DEF LeaseInv, MapIsLive, TypeOK
  <2> QED
    BY <2>4, <2>5, <2>6 DEF LeaseInv
<1>5. CASE ResumeLoad(p)
  BY <1>5, UntouchedLease DEF ResumeLoad, genVars
<1>6. CASE DeleteRun(p)
  <2>1. \A g \in Gens : ~leased[g] /\ engine[g] # "running"
    BY <1>6, NoLockNoExecution DEF DeleteRun, NoLeasedRemoval
  <2>2. \A g \in Gens : ~leased'[g] /\ engine'[g] # "running"
    BY <1>6, <2>1 DEF DeleteRun
  <2>3. ExecutionIsLeased' /\ LeaseIsTheLock'
    BY <2>2 DEF ExecutionIsLeased, LeaseIsTheLock
  <2>4. LiveLockIsLeased' /\ FutureIsBlank'
    BY <1>6 DEF DeleteRun, LeaseInv, LiveLockIsLeased, LockLive, FutureIsBlank
  <2>5. MapIsLive'
    BY <1>6 DEF DeleteRun, LeaseInv, MapIsLive, TypeOK
  <2> QED
    BY <2>3, <2>4, <2>5 DEF LeaseInv
<1> QED
  BY <1>1, <1>2, <1>3, <1>4, <1>5, <1>6 DEF UserStep

LEMMA ContinueStepLease ==
    ASSUME TypeOK, LeaseInv, NEW p \in Procs, ContinueStep(p) PROVE LeaseInv'
<1>1. CASE ResumeTakesLease(p)
  BY <1>1, LaunchLease DEF ResumeTakesLease
<1>2. CASE ResumeRefused(p)
  BY <1>2, UntouchedLease DEF ResumeRefused, genVars
<1>3. CASE RecoverStaleRun(p)
  <2>1. \A g \in Gens : ~leased[g] /\ engine[g] # "running"
    BY <1>3, NoLockNoExecution DEF RecoverStaleRun
  <2>2. UNCHANGED <<runs, owner, engine, leased, nextGen>> /\ lock' = NoGen
    BY <1>3 DEF RecoverStaleRun, genVars
  <2> QED
    BY <2>1, <2>2 DEF LeaseInv, ExecutionIsLeased, LeaseIsTheLock,
       LiveLockIsLeased, MapIsLive, FutureIsBlank, LockLive
<1>4. CASE RecoverSkipsRun(p)
  BY <1>4, UntouchedLease DEF RecoverSkipsRun, genVars
<1> QED
  BY <1>1, <1>2, <1>3, <1>4 DEF ContinueStep

LEMMA ProcessStepLease ==
    ASSUME TypeOK, LeaseInv, NEW p \in Procs, ProcessStep(p) PROVE LeaseInv'
<1>1. CASE Crash(p)
  <2> DEFINE Lost(g) == owner[g] = p /\ engine[g] # "unborn"
  <2>1. /\ \A g \in Gens : leased'[g] = IF Lost(g) THEN FALSE ELSE leased[g]
        /\ \A g \in Gens : engine'[g] = IF Lost(g) THEN "dead" ELSE engine[g]
        /\ UNCHANGED <<owner, lock, nextGen>>
        /\ runs' = [runs EXCEPT ![p] = NoGen]
    BY <1>1 DEF Crash
  <2>2. ExecutionIsLeased' /\ LeaseIsTheLock'
    BY <2>1 DEF LeaseInv, ExecutionIsLeased, LeaseIsTheLock
  <2>3. LiveLockIsLeased' /\ FutureIsBlank'
    BY <2>1 DEF LeaseInv, LiveLockIsLeased, LockLive, FutureIsBlank, TypeOK
  <2>4. MapIsLive'
    BY <2>1 DEF LeaseInv, MapIsLive, TypeOK
  <2> QED
    BY <2>2, <2>3, <2>4 DEF LeaseInv
<1>2. CASE Restart(p)
  BY <1>2, UntouchedLease DEF Restart, genVars
<1> QED
  BY <1>1, <1>2 DEF ProcessStep

LEMMA RunStepLease ==
    ASSUME TypeOK, LeaseInv, NEW g \in Gens, RunStep(g) PROVE LeaseInv'
<1>1. ASSUME engine[g] \in {"running", "unwinding"}, NEW st, NEW err,
             Finalize(g, st, err), Settle(g)
      PROVE  LeaseInv'
  BY <1>1, LeaveLease DEF Finalize, Settle, procVars
<1>2. CASE Unwind(g)
  BY <1>1, <1>2 DEF Unwind
<1>3. CASE RunCompletes(g)
  BY <1>1, <1>3 DEF RunCompletes
<1>4. ASSUME NEW err \in {"usage_limit", "other"}, RunRejects(g, err)
      PROVE  LeaseInv'
  BY <1>1, <1>4 DEF RunRejects
<1> QED
  BY <1>2, <1>3, <1>4 DEF RunStep

LEMMA CallStepLease ==
    ASSUME LeaseInv, NEW g \in Gens, CallStep(g) PROVE LeaseInv'
BY UntouchedLease DEF CallStep, ReplayCall, LiveCall, AgentFinishes, AgentFails,
   procVars, genVars

(* In every reachable state a lease held is the one in the lock file, and  *)
(* who executes holds it (acquireRunLease, releaseRunLease).               *)
THEOREM LeaseInvariant == NoLeasedRemoval /\ Spec => [](TypeOK /\ LeaseInv)
<1>1. NoLeasedRemoval /\ TypeOK /\ LeaseInv /\ [Next]_vars => LeaseInv'
  <2> SUFFICES ASSUME NoLeasedRemoval, TypeOK, LeaseInv, [Next]_vars PROVE LeaseInv'
    OBVIOUS
  <2>1. CASE Next
    BY <2>1, UserStepLease, ContinueStepLease, ProcessStepLease, RunStepLease,
       CallStepLease DEF Next
  <2>2. CASE UNCHANGED vars
    BY <2>2, UntouchedLease DEF vars, procVars, genVars
  <2> QED
    BY <2>1, <2>2
<1> QED
  <2> SUFFICES ASSUME NoLeasedRemoval PROVE Spec => [](TypeOK /\ LeaseInv)
    OBVIOUS
  <2>1. TypeOK /\ LeaseInv /\ [Next]_vars => LeaseInv'
    BY <1>1
  <2> QED
    BY <2>1, TypeCorrect, LeaseInit, PTL DEF Spec

(* However many processes launch, resume, pause, stop, crash and recover a *)
(* run, at most one generation of it executes, as long as nobody removes   *)
(* the run under a live lease.                                             *)
THEOREM ExecutionIsExclusive == NoLeasedRemoval /\ Spec => []SingleExecution
<1>1. TypeOK /\ LeaseInv => SingleExecution
  BY DEF LeaseInv, ExecutionIsLeased, LeaseIsTheLock, SingleExecution
<1> QED
  BY <1>1, LeaseInvariant, PTL

(* Every way out of an execution gives the lease back: a live lock is held *)
(* by a generation that is executing or about to unwind.                   *)
THEOREM LeasesAreReleased == NoLeasedRemoval /\ Spec => []LeaseNotLeaked
<1>1. TypeOK /\ LeaseInv => LeaseNotLeaked
  BY DEF LeaseInv, LiveLockIsLeased, LeaseIsTheLock, LeaseNotLeaked, LockLive,
     TypeOK
<1> QED
  BY <1>1, LeaseInvariant, PTL

-----------------------------------------------------------------------------
(* The run file, when one process has the project open, its script awaits  *)
(* each agent before the next, its sandbox outlives its runs and nobody    *)
(* removes a run that executes.  (ManagerLateWrite.cfg shows what goes     *)
(* wrong with FanOut = 2: a call left over writes its settled generation.) *)

OneProcess      == \A p, q \in Procs : p = q
AwaitsEachCall  == FanOut <= 1
SandboxSurvives == SandboxMayDie = FALSE

QuietUse == OneProcess /\ AwaitsEachCall /\ SandboxSurvives /\ NoLeasedRemoval

Active(g) == engine[g] \in {"running", "unwinding"}

NothingActive == \A g \in Gens : ~Active(g)

(* A generation still to come has the fields of a fresh ManagedRun.        *)
FutureIsFresh ==
    \A g \in Gens : g >= nextGen =>
        status[g] = "running" /\ error[g] = "none" /\ inFlight[g] = {}

(* What executes is what its process's map points at.                      *)
ActiveIsMapped == \A g \in Gens : Active(g) => runs[owner[g]] = g

StatusFollowsEngine ==
    \A g \in Gens : /\ engine[g] = "running" => status[g] = "running"
                    /\ engine[g] = "settled" => status[g] # "running"

(* A generation that no longer executes has no call left over.             *)
NoLeftOverCalls == \A g \in Gens : inFlight[g] # {} => engine[g] = "running"

(* A process inside an operation, or down, executes nothing.               *)
BusyIsInactive == \A p \in Procs : task[p] # "idle" \/ ~alive[p] => NothingActive

AwayIsUnmapped ==
    \A p \in Procs : task[p] = "recovering" \/ ~alive[p] => runs[p] = NoGen

DownIsIdle == \A p \in Procs : ~alive[p] => task[p] = "idle"

(* The run file is the record of the generation in the map.                *)
RecordIsTheMapped ==
    \A p \in Procs : runs[p] # NoGen =>
        disk = Record(status[runs[p]], journal[runs[p]], error[runs[p]])

(* A file that says "running" is executed, or about to be recovered.       *)
RunningIsExplained ==
    disk.status = "running" =>
        \/ \E g \in Gens : Active(g)
        \/ \E p \in Procs : ~alive[p] \/ task[p] = "recovering"

(* What an operation loaded is still what the file holds.                  *)
SeenIsCurrent ==
    \A p \in Procs :
        /\ task[p] # "idle" => seen[p] = disk
        /\ task[p] = "recovering" => disk.status = "running"
        /\ task[p] = "resuming" => disk.status \in {"paused", "failed"}

NeverRunIsAbsent == nextGen = 1 => disk = NoRecord

(* Everything a generation holds it replayed or executed before.           *)
JournalIsBehind ==
    \A g \in Gens : engine[g] = "running" =>
        /\ \A c \in inFlight[g] : c < callSeq[g]
        /\ \A c \in journal[g] : c \in resumeJournal[g] \/ c < callSeq[g]

RecordInv == /\ FutureIsFresh /\ ActiveIsMapped /\ StatusFollowsEngine
             /\ NoLeftOverCalls /\ BusyIsInactive /\ AwayIsUnmapped
             /\ DownIsIdle /\ RecordIsTheMapped /\ RunningIsExplained
             /\ SeenIsCurrent /\ NeverRunIsAbsent /\ JournalIsBehind

LEMMA RecordInit == Init => RecordInv
<1> SUFFICES ASSUME Init PROVE RecordInv
  OBVIOUS
<1>1. /\ FutureIsFresh /\ ActiveIsMapped /\ StatusFollowsEngine /\ NoLeftOverCalls
      /\ BusyIsInactive /\ AwayIsUnmapped /\ DownIsIdle
  BY DEF Init, FutureIsFresh, ActiveIsMapped, StatusFollowsEngine, NoLeftOverCalls,
     BusyIsInactive, AwayIsUnmapped, DownIsIdle, NothingActive, Active
<1>2. /\ RecordIsTheMapped /\ RunningIsExplained /\ SeenIsCurrent
      /\ NeverRunIsAbsent /\ JournalIsBehind
  BY DEF Init, RecordIsTheMapped, RunningIsExplained, SeenIsCurrent,
     NeverRunIsAbsent, JournalIsBehind, NoRecord
<1> QED
  BY <1>1, <1>2 DEF RecordInv

(* The only process owns every generation.                                 *)
LEMMA SoleOwner ==
    ASSUME OneProcess, TypeOK, NEW p \in Procs
    PROVE  /\ \A q \in Procs : q = p
           /\ \A g \in Gens : owner[g] = p
BY DEF OneProcess, TypeOK

(* Between two operations, only the generation in the map can execute, and *)
(* a generation that executes is recorded as running.                      *)
LEMMA OnlyTheMapped ==
    ASSUME OneProcess, TypeOK, RecordInv, NEW p \in Procs
    PROVE  \A g \in Gens : Active(g) => g = runs[p] /\ alive[p] /\ task[p] = "idle"
BY SoleOwner DEF RecordInv, ActiveIsMapped, BusyIsInactive, NothingActive, TypeOK

LEMMA LaunchRecord ==
    ASSUME OneProcess, TypeOK, RecordInv, NothingActive, NEW p \in Procs, alive[p],
           NEW jr \in SUBSET Calls, Launch(p, jr), task'[p] = "idle"
    PROVE  RecordInv'
<1>1. nextGen \in Gens /\ nextGen # NoGen /\ nextGen' = nextGen + 1 /\ nextGen \in Nat
  BY BoundsAssumption DEF Launch, TypeOK, Gens, NoGen
<1>2. /\ \A q \in Procs : q = p
      /\ \A g \in Gens : owner'[g] = p
  BY <1>1, SoleOwner DEF Launch, TypeOK
<1>3. /\ status[nextGen] = "running" /\ error[nextGen] = "none"
      /\ inFlight[nextGen] = {}
  BY <1>1 DEF RecordInv, FutureIsFresh
<1>4. /\ \A g \in Gens : engine'[g] = IF g = nextGen THEN "running" ELSE engine[g]
      /\ runs'[p] = nextGen /\ journal'[nextGen] = jr /\ resumeJournal'[nextGen] = jr
      /\ disk' = Record("running", jr, "none")
      /\ UNCHANGED <<status, error, inFlight, callSeq, alive>>
  BY <1>1 DEF Launch, TypeOK, callVars
<1>5. \A g \in Gens : engine'[g] \in {"running", "unwinding"} => g = nextGen
  BY <1>4 DEF NothingActive, Active
<1>6. FutureIsFresh' /\ StatusFollowsEngine' /\ NoLeftOverCalls'
  <2>1. \A g \in Gens : g >= nextGen + 1 => g >= nextGen
    BY <1>1 DEF Gens
  <2> QED
    BY <1>1, <1>3, <1>4, <2>1
    DEF RecordInv, FutureIsFresh, StatusFollowsEngine, NoLeftOverCalls
<1>7. ActiveIsMapped'
  BY <1>2, <1>4, <1>5 DEF ActiveIsMapped, Active
<1>8. BusyIsInactive' /\ AwayIsUnmapped' /\ DownIsIdle' /\ SeenIsCurrent'
  BY <1>2, <1>4 DEF BusyIsInactive, AwayIsUnmapped, DownIsIdle, SeenIsCurrent
<1>9. RecordIsTheMapped'
  BY <1>2, <1>3, <1>4 DEF RecordIsTheMapped
<1>10. RunningIsExplained' /\ JournalIsBehind'
  BY <1>1, <1>3, <1>4, <1>5 DEF RunningIsExplained, JournalIsBehind, Active
<1>11. NeverRunIsAbsent'
  BY <1>1 DEF NeverRunIsAbsent, NoGen
<1> QED
  BY <1>6, <1>7, <1>8, <1>9, <1>10, <1>11 DEF RecordInv

(* The mapped generation leaves, or is stopped after it left: executeRun() *)
(* through its end or its catch, pause() and stop().                       *)
LEMMA LeaveRecord ==
    ASSUME OneProcess, TypeOK, LeaseInv, RecordInv, NEW p \in Procs,
           alive[p], task[p] = "idle", NEW g \in Gens, runs[p] = g,
           NEW after \in {"unwinding", "settled"},
           engine' = [engine EXCEPT ![g] = after],
           inFlight' = [inFlight EXCEPT ![g] = {}],
           NEW st \in RunStatus \ {"running"}, NEW err, Finalize(g, st, err),
           UNCHANGED <<procVars, nextGen, owner, journal>>
    PROVE  RecordInv'
<1>1. /\ \A q \in Procs : q = p
      /\ \A h \in Gens : owner'[h] = p
  BY SoleOwner
<1>2. g # NoGen /\ engine[g] # "unborn" /\ ~(g >= nextGen)
  BY DEF LeaseInv, MapIsLive, FutureIsBlank, Gens, NoGen
<1>3. /\ \A h \in Gens : engine'[h] = IF h = g THEN after ELSE engine[h]
      /\ \A h \in Gens : inFlight'[h] = IF h = g THEN {} ELSE inFlight[h]
      /\ \A h \in Gens : status'[h] = IF h = g THEN st ELSE status[h]
      /\ \A h \in Gens : error'[h] = IF h = g THEN err ELSE error[h]
      /\ disk' = Record(st, journal[g], err)
      /\ UNCHANGED <<alive, runs, task, seen, nextGen, journal>>
  BY DEF Finalize, TypeOK, procVars
<1>4. \A h \in Gens : engine'[h] # "running" /\ (engine'[h] = "unwinding" => h = g)
  BY <1>3, OnlyTheMapped DEF Active
<1>5. FutureIsFresh' /\ StatusFollowsEngine' /\ NoLeftOverCalls' /\ JournalIsBehind'
  BY <1>2, <1>3, <1>4 DEF RecordInv, FutureIsFresh, StatusFollowsEngine,
     NoLeftOverCalls, JournalIsBehind
<1>6. ActiveIsMapped'
  BY <1>1, <1>3, <1>4 DEF ActiveIsMapped, Active
<1>7. BusyIsInactive' /\ AwayIsUnmapped' /\ DownIsIdle' /\ SeenIsCurrent'
  BY <1>1, <1>3 DEF BusyIsInactive, AwayIsUnmapped, DownIsIdle, SeenIsCurrent
<1>8. RecordIsTheMapped'
  BY <1>1, <1>3 DEF RecordIsTheMapped
<1>9. RunningIsExplained' /\ NeverRunIsAbsent'
  <2>1. nextGen # 1
    BY <1>2, BoundsAssumption DEF Gens
  <2> QED
    BY <1>3, <2>1 DEF RunningIsExplained, NeverRunIsAbsent, Record
<1> QED
  BY <1>5, <1>6, <1>7, <1>8, <1>9 DEF RecordInv

(* pause() finds a running generation executing, and the file says so.     *)
LEMMA MappedEngine ==
    ASSUME OneProcess, TypeOK, LeaseInv, RecordInv, NEW p \in Procs, Free(p),
           runs[p] # NoGen
    PROVE  /\ runs[p] \in Gens
           /\ engine[runs[p]] \in {"running", "settled"}
           /\ engine[runs[p]] = "running" <=> status[runs[p]] = "running"
           /\ disk = Record(status[runs[p]], journal[runs[p]], error[runs[p]])
<1>1. runs[p] \in Gens /\ engine[runs[p]] \notin {"unborn", "dead", "unwinding"}
  BY SoleOwner DEF TypeOK, LeaseInv, MapIsLive, Free
<1> QED
  BY <1>1 DEF RecordInv, StatusFollowsEngine, RecordIsTheMapped, TypeOK

LEMMA UserStepRecord ==
    ASSUME QuietUse, TypeOK, LeaseInv, RecordInv, NEW p \in Procs, UserStep(p)
    PROVE  RecordInv'
<1>0. OneProcess
  BY DEF QuietUse
<1>1. CASE StartRun(p)
  <2>1. NothingActive
    BY <1>1 DEF StartRun, LeaseInv, FutureIsBlank, NothingActive, Active, Gens
  <2> QED
    BY <1>0, <1>1, <2>1, LaunchRecord DEF StartRun, Free
<1>2. CASE Pause(p)
  <2> DEFINE g == runs[p]
  <2>1. g \in Gens
    BY <1>2 DEF Pause, TypeOK
  <2>2. /\ engine' = [engine EXCEPT ![g] = "unwinding"]
        /\ inFlight' = [inFlight EXCEPT ![g] = {}]
        /\ Finalize(g, "paused", error[g])
        /\ UNCHANGED <<procVars, nextGen, owner, journal>>
        /\ alive[p] /\ task[p] = "idle"
    BY <1>2 DEF Pause, Free
  <2>3. "paused" \in RunStatus \ {"running"}
    BY DEF RunStatus
  <2> HIDE DEF g
  <2> QED
    BY <1>0, <2>1, <2>2, <2>3, LeaveRecord DEF g
<1>3. CASE Stop(p)
  <2> DEFINE g == runs[p]
             after == IF engine[g] = "running" THEN "unwinding" ELSE engine[g]
  <2>1. g \in Gens /\ after \in {"unwinding", "settled"}
    BY <1>0, <1>3, MappedEngine DEF Stop
  <2>2. /\ engine' = [engine EXCEPT ![g] = after]
        /\ inFlight' = [inFlight EXCEPT ![g] = {}]
        /\ Finalize(g, "aborted", error[g])
        /\ UNCHANGED <<procVars, nextGen, owner, journal>>
        /\ alive[p] /\ task[p] = "idle"
    BY <1>3 DEF Stop, Free
  <2>3. "aborted" \in RunStatus \ {"running"} /\ runs[p] = g
    BY DEF RunStatus
  <2> HIDE DEF g, after
  <2> QED
    BY <1>0, <2>1, <2>2, <2>3, LeaveRecord
<1>4. CASE ExternalAbort(p)
  <2>1. 1 \in Gens /\ engine[1] = "running" /\ runs[p] = 1
    BY <1>4 DEF ExternalAbort, TypeOK, NoGen
  <2>2. /\ \A g \in Gens : engine'[g] = IF g = 1 THEN "unwinding" ELSE engine[g]
        /\ \A g \in Gens : inFlight'[g] = IF g = 1 THEN {} ELSE inFlight[g]
        /\ UNCHANGED <<alive, runs, task, seen, nextGen, owner, status, error, journal,
                       resumeJournal, callSeq, disk>>
    BY <1>4, <2>1 DEF ExternalAbort, TypeOK, procVars
  <2>3. \A g \in Gens : Active(g) <=> Active(g)'
    BY <2>1, <2>2 DEF Active
  <2>4. /\ FutureIsFresh' /\ StatusFollowsEngine' /\ NoLeftOverCalls'
        /\ JournalIsBehind'
    BY <2>1, <2>2 DEF RecordInv, FutureIsFresh, StatusFollowsEngine,
       NoLeftOverCalls, JournalIsBehind
  <2>5. /\ ActiveIsMapped' /\ BusyIsInactive' /\ RunningIsExplained'
    BY <2>2, <2>3 DEF RecordInv, ActiveIsMapped, BusyIsInactive, NothingActive,
       RunningIsExplained
  <2>6. /\ AwayIsUnmapped' /\ DownIsIdle' /\ RecordIsTheMapped'
        /\ SeenIsCurrent' /\ NeverRunIsAbsent'
    BY <2>2 DEF RecordInv, AwayIsUnmapped, DownIsIdle, RecordIsTheMapped,
       SeenIsCurrent, NeverRunIsAbsent
  <2> QED
    BY <2>4, <2>5, <2>6 DEF RecordInv
<1>5. CASE ResumeLoad(p)
  <2>1. Free(p) /\ UNCHANGED <<alive, runs, nextGen, owner, engine, status, error,
                               journal, resumeJournal, callSeq, inFlight, disk>>
    BY <1>5 DEF ResumeLoad, genVars, callVars
  <2>2. task'[p] = "resuming" /\ seen'[p] = disk /\ \A q \in Procs : q = p
    BY <1>0, <1>5, SoleOwner DEF ResumeLoad, TypeOK
  <2>3. NothingActive
    <3> SUFFICES ASSUME NEW g \in Gens, Active(g) PROVE FALSE
      BY DEF NothingActive
    <3>1. g = runs[p] /\ g # NoGen
      BY <1>0, OnlyTheMapped DEF Gens, NoGen
    <3>2. engine[g] = "running"
      BY <1>0, <2>1, <3>1, MappedEngine DEF Active
    <3> QED
      BY <1>5, <3>1, <3>2 DEF ResumeLoad, RecordInv, StatusFollowsEngine
  <2>4. disk.status \in {"paused", "failed"}
    <3>1. disk.status # "running"
      BY <2>1, <2>2, <2>3 DEF RecordInv, RunningIsExplained, NothingActive, Free
    <3> QED
      BY <1>5, <3>1 DEF ResumeLoad, TypeOK, PersistedRunState, RunStatus
  <2>5. /\ FutureIsFresh' /\ StatusFollowsEngine' /\ NoLeftOverCalls'
        /\ JournalIsBehind' /\ RecordIsTheMapped' /\ NeverRunIsAbsent'
        /\ ActiveIsMapped'
    BY <2>1 DEF RecordInv, FutureIsFresh, StatusFollowsEngine, NoLeftOverCalls,
       JournalIsBehind, RecordIsTheMapped, NeverRunIsAbsent, ActiveIsMapped, Active
  <2>6. BusyIsInactive' /\ RunningIsExplained'
    BY <2>1, <2>3, <2>4 DEF BusyIsInactive, RunningIsExplained, NothingActive, Active
  <2>7. AwayIsUnmapped' /\ DownIsIdle' /\ SeenIsCurrent'
    BY <2>1, <2>2, <2>4 DEF AwayIsUnmapped, DownIsIdle, SeenIsCurrent, Free
  <2> QED
    BY <2>5, <2>6, <2>7 DEF RecordInv
<1>6. CASE DeleteRun(p)
  <2>1. \A g \in Gens : engine[g] # "running"
    BY <1>6, NoLockNoExecution DEF DeleteRun, QuietUse, NoLeasedRemoval
  <2>2. NothingActive /\ \A q \in Procs : q = p
    BY <1>0, <1>6, <2>1, SoleOwner DEF DeleteRun, Free, NothingActive, Active
  <2>3. /\ alive[p] /\ task[p] = "idle" /\ runs'[p] = NoGen /\ disk' = NoRecord
        /\ UNCHANGED <<alive, task, seen, nextGen, owner, engine, status, error,
                       journal, resumeJournal, callSeq, inFlight>>
    BY <1>6 DEF DeleteRun, Free, callVars, TypeOK
  <2>4. FutureIsFresh' /\ StatusFollowsEngine' /\ NoLeftOverCalls' /\ JournalIsBehind'
    BY <2>3 DEF RecordInv, FutureIsFresh, StatusFollowsEngine, NoLeftOverCalls,
       JournalIsBehind
  <2>5. ActiveIsMapped' /\ BusyIsInactive'
    BY <2>2, <2>3 DEF ActiveIsMapped, BusyIsInactive, NothingActive, Active
  <2>6. /\ AwayIsUnmapped' /\ DownIsIdle' /\ RecordIsTheMapped'
        /\ RunningIsExplained' /\ SeenIsCurrent' /\ NeverRunIsAbsent'
    BY <2>2, <2>3 DEF AwayIsUnmapped, DownIsIdle, RecordIsTheMapped,
       RunningIsExplained, SeenIsCurrent, NeverRunIsAbsent, NoRecord
  <2> QED
    BY <2>4, <2>5, <2>6 DEF RecordInv
<1> QED
  BY <1>1, <1>2, <1>3, <1>4, <1>5, <1>6 DEF UserStep

LEMMA ContinueStepRecord ==
    ASSUME OneProcess, TypeOK, LeaseInv, RecordInv, NEW p \in Procs, ContinueStep(p)
    PROVE  RecordInv'
<1>1. task[p] \in {"resuming", "recovering"}
  BY DEF ContinueStep, ResumeTakesLease, ResumeRefused, RecoverStaleRun, RecoverSkipsRun
<1>2. /\ NothingActive /\ alive[p] /\ seen[p] = disk
      /\ \A q \in Procs : q = p
  BY <1>1, SoleOwner DEF RecordInv, BusyIsInactive, DownIsIdle, SeenIsCurrent
<1>3. ~LockLive
  BY <1>2 DEF LeaseInv, LiveLockIsLeased, LeaseIsTheLock, NothingActive, Active,
     LockLive, TypeOK
<1>4. CASE ResumeTakesLease(p)
  <2>1. seen[p].journal \in SUBSET Calls
    BY DEF TypeOK, PersistedRunState
  <2>2. task'[p] = "idle"
    BY <1>4 DEF ResumeTakesLease, ReturnToLoop, TypeOK
  <2> QED
    BY <1>2, <1>4, <2>1, <2>2, LaunchRecord DEF ResumeTakesLease
<1>5. CASE RecoverStaleRun(p)
  <2>1. /\ disk' = [disk EXCEPT !.status = "paused"]
        /\ task'[p] = "idle" /\ task[p] = "recovering"
        /\ UNCHANGED <<alive, runs, nextGen, owner, engine, status, error,
                       journal, resumeJournal, callSeq, inFlight>>
    BY <1>2, <1>5 DEF RecoverStaleRun, ReturnToLoop, genVars, callVars, TypeOK
  <2>2. runs[p] = NoGen /\ disk.status = "running" /\ disk'.status = "paused"
    BY <2>1 DEF RecordInv, AwayIsUnmapped, SeenIsCurrent, TypeOK, PersistedRunState
  <2>3. /\ FutureIsFresh' /\ StatusFollowsEngine' /\ NoLeftOverCalls'
        /\ JournalIsBehind' /\ ActiveIsMapped'
    BY <2>1 DEF RecordInv, FutureIsFresh, StatusFollowsEngine, NoLeftOverCalls,
       JournalIsBehind, ActiveIsMapped, Active
  <2>4. /\ BusyIsInactive' /\ AwayIsUnmapped' /\ DownIsIdle' /\ SeenIsCurrent'
    BY <1>2, <2>1 DEF BusyIsInactive, AwayIsUnmapped, DownIsIdle, SeenIsCurrent
  <2>5. RecordIsTheMapped' /\ RunningIsExplained' /\ NeverRunIsAbsent'
    BY <1>2, <2>1, <2>2 DEF RecordInv, RecordIsTheMapped, RunningIsExplained,
       NeverRunIsAbsent, NoRecord
  <2> QED
    BY <2>3, <2>4, <2>5 DEF RecordInv
<1> QED
  BY <1>3, <1>4, <1>5 DEF ContinueStep, ResumeRefused, RecoverSkipsRun

LEMMA ProcessStepRecord ==
    ASSUME OneProcess, TypeOK, LeaseInv, RecordInv, NEW p \in Procs, ProcessStep(p)
    PROVE  RecordInv'
<1>1. /\ \A q \in Procs : q = p
      /\ \A g \in Gens : owner[g] = p
  BY SoleOwner
<1>2. CASE Crash(p)
  <2>1. /\ ~alive'[p] /\ runs'[p] = NoGen /\ task'[p] = "idle"
        /\ UNCHANGED <<nextGen, owner, disk>>
    BY <1>2 DEF Crash, ReturnToLoop, TypeOK
  <2>2. \A g \in Gens :
          /\ engine'[g] = IF engine[g] # "unborn" THEN "dead" ELSE "unborn"
          /\ status'[g] = IF engine[g] # "unborn" THEN "running" ELSE status[g]
          /\ error'[g] = IF engine[g] # "unborn" THEN "none" ELSE error[g]
          /\ inFlight'[g] = IF engine[g] # "unborn" THEN {} ELSE inFlight[g]
    BY <1>1, <1>2 DEF Crash
  <2>3. NothingActive'
    BY <2>2 DEF NothingActive, Active
  <2>4. FutureIsFresh' /\ StatusFollowsEngine' /\ NoLeftOverCalls' /\ JournalIsBehind'
    BY <2>1, <2>2 DEF RecordInv, FutureIsFresh, StatusFollowsEngine,
       NoLeftOverCalls, JournalIsBehind
  <2>5. ActiveIsMapped' /\ BusyIsInactive'
    BY <2>3 DEF ActiveIsMapped, BusyIsInactive, NothingActive
  <2>6. /\ AwayIsUnmapped' /\ DownIsIdle' /\ RecordIsTheMapped' /\ SeenIsCurrent'
    BY <1>1, <2>1 DEF AwayIsUnmapped, DownIsIdle, RecordIsTheMapped, SeenIsCurrent
  <2>7. RunningIsExplained' /\ NeverRunIsAbsent'
    BY <2>1 DEF RecordInv, RunningIsExplained, NeverRunIsAbsent
  <2> QED
    BY <2>4, <2>5, <2>6, <2>7 DEF RecordInv
<1>3. CASE Restart(p)
  <2>1. /\ ~alive[p] /\ alive'[p]
        /\ task'[p] = IF disk.status = "running" THEN "recovering" ELSE "idle"
        /\ disk.status = "running" => seen'[p] = disk
        /\ UNCHANGED <<runs, nextGen, owner, engine, status, error,
                       journal, resumeJournal, callSeq, inFlight, disk>>
    BY <1>3 DEF Restart, genVars, callVars, TypeOK
  <2>2. NothingActive /\ runs[p] = NoGen
    BY <2>1 DEF RecordInv, BusyIsInactive, AwayIsUnmapped
  <2>3. /\ FutureIsFresh' /\ StatusFollowsEngine' /\ NoLeftOverCalls'
        /\ JournalIsBehind' /\ NeverRunIsAbsent' /\ RecordIsTheMapped'
    BY <2>1 DEF RecordInv, FutureIsFresh, StatusFollowsEngine, NoLeftOverCalls,
       JournalIsBehind, NeverRunIsAbsent, RecordIsTheMapped
  <2>4. ActiveIsMapped' /\ BusyIsInactive'
    BY <2>1, <2>2 DEF ActiveIsMapped, BusyIsInactive, NothingActive, Active
  <2>5. AwayIsUnmapped' /\ DownIsIdle' /\ RunningIsExplained' /\ SeenIsCurrent'
    BY <1>1, <2>1, <2>2 DEF AwayIsUnmapped, DownIsIdle, RunningIsExplained, SeenIsCurrent
  <2> QED
    BY <2>3, <2>4, <2>5 DEF RecordInv
<1> QED
  BY <1>2, <1>3 DEF ProcessStep

(* A script that awaits its calls is waiting for at most one of them, so   *)
(* the lane that throws leaves no sibling behind.                          *)
LEMMA LoneLaneThrows ==
    ASSUME AwaitsEachCall, TypeOK, NEW g \in Gens, Cardinality(inFlight[g]) < FanOut
    PROVE  inFlight[g] = {}
<1>1. IsFiniteSet(Calls)
  BY FS_Interval, BoundsAssumption DEF Calls
<1>2. IsFiniteSet(inFlight[g])
  BY <1>1, FS_Subset DEF TypeOK
<1>3. Cardinality(inFlight[g]) = 0
  BY <1>2, FS_CardinalityType, BoundsAssumption DEF AwaitsEachCall
<1> QED
  BY <1>2, <1>3, FS_EmptySet

LEMMA RunStepRecord ==
    ASSUME QuietUse, TypeOK, LeaseInv, RecordInv, NEW g \in Gens, RunStep(g)
    PROVE  RecordInv'
<1> DEFINE p == owner[g]
<1>1. p \in Procs /\ Active(g)
  BY DEF TypeOK, RunStep, Unwind, RunCompletes, RunRejects, Active
<1>2. alive[p] /\ task[p] = "idle" /\ runs[p] = g
  BY <1>1, OnlyTheMapped DEF QuietUse
<1>3. ASSUME NEW st \in RunStatus \ {"running"}, NEW err, Finalize(g, st, err),
             Settle(g), inFlight[g] = {}
      PROVE  RecordInv'
  <2>1. /\ engine' = [engine EXCEPT ![g] = "settled"]
        /\ inFlight' = [inFlight EXCEPT ![g] = {}]
        /\ UNCHANGED <<procVars, nextGen, owner, journal>>
    BY <1>3 DEF Settle, TypeOK
  <2> QED
    BY <1>1, <1>2, <1>3, <2>1, LeaveRecord DEF QuietUse
<1>4. CASE Unwind(g)
  <2> DEFINE st == IF status[g] = "running" THEN "aborted" ELSE status[g]
  <2>1. st \in RunStatus \ {"running"}
    BY DEF TypeOK, RunStatus
  <2>2. inFlight[g] = {}
    BY <1>4 DEF Unwind, RecordInv, NoLeftOverCalls
  <2> QED
    BY <1>3, <1>4, <2>1, <2>2 DEF Unwind
<1>5. CASE RunCompletes(g)
  BY <1>3, <1>5 DEF RunCompletes, RunStatus
<1>6. ASSUME NEW err \in {"usage_limit", "other"}, RunRejects(g, err)
      PROVE  RecordInv'
  <2>1. inFlight[g] = {}
    BY <1>6, LoneLaneThrows DEF RunRejects, QuietUse, SandboxSurvives
  <2> QED
    BY <1>3, <1>6, <2>1 DEF RunRejects, RunStatus
<1> QED
  BY <1>4, <1>5, <1>6 DEF RunStep

(* Conjuncts of the invariant that a step of a call leaves alone.          *)
LEMMA CallFrame ==
    ASSUME RecordInv, UNCHANGED <<alive, runs, task, seen, nextGen, owner,
                                  engine, status, error>>
    PROVE  /\ ActiveIsMapped' /\ StatusFollowsEngine' /\ BusyIsInactive'
           /\ AwayIsUnmapped' /\ DownIsIdle'
BY DEF RecordInv, ActiveIsMapped, StatusFollowsEngine, BusyIsInactive,
   NothingActive, Active, AwayIsUnmapped, DownIsIdle

LEMMA CallStepRecord ==
    ASSUME OneProcess, TypeOK, LeaseInv, RecordInv, NEW g \in Gens, CallStep(g)
    PROVE  RecordInv'
<1> DEFINE p == owner[g]
<1>1. engine[g] = "running" /\ p \in Procs /\ callSeq[g] \in Nat
  <2>1. p \in Procs /\ callSeq[g] \in Nat
    BY BoundsAssumption DEF TypeOK
  <2>2. engine[g] = "running"
    BY DEF CallStep, ReplayCall, LiveCall, AgentFinishes, AgentFails,
       RecordInv, NoLeftOverCalls
  <2> QED
    BY <2>1, <2>2
<1>2. /\ alive[p] /\ task[p] = "idle" /\ runs[p] = g /\ g # NoGen
      /\ \A q \in Procs : q = p
  BY <1>1, OnlyTheMapped, SoleOwner DEF Active, Gens, NoGen
<1>3. ~(g >= nextGen) /\ nextGen # 1
  BY <1>1, BoundsAssumption DEF LeaseInv, FutureIsBlank, Gens, TypeOK
<1>4. disk = Record(status[g], journal[g], error[g])
  BY <1>1, <1>2 DEF RecordInv, RecordIsTheMapped
<1>5. UNCHANGED <<alive, runs, task, seen, nextGen, owner, engine, status, error,
                  resumeJournal>>
  BY DEF CallStep, ReplayCall, LiveCall, AgentFinishes, AgentFails, procVars, genVars
<1>6. SeenIsCurrent' /\ NeverRunIsAbsent'
  BY <1>2, <1>3, <1>5 DEF SeenIsCurrent, NeverRunIsAbsent
<1>7. /\ ActiveIsMapped' /\ StatusFollowsEngine' /\ BusyIsInactive'
      /\ AwayIsUnmapped' /\ DownIsIdle'
  BY <1>5, CallFrame
<1>8. RunningIsExplained'
  BY <1>1, <1>5 DEF RunningIsExplained, Active
<1>9. ASSUME NEW seq \in Nat, seq >= callSeq[g], NEW calls, NEW jr,
             callSeq' = [callSeq EXCEPT ![g] = seq],
             inFlight' = [inFlight EXCEPT ![g] = calls],
             \A c \in calls : c < seq,
             journal' = [journal EXCEPT ![g] = jr],
             \A c \in jr : c \in journal[g] \/ c < seq,
             disk' = Record(status[g], jr, error[g]),
             jr \in SUBSET Calls
      PROVE  RecordInv'
  <2>1. \A h \in Gens : /\ callSeq'[h] = IF h = g THEN seq ELSE callSeq[h]
                        /\ inFlight'[h] = IF h = g THEN calls ELSE inFlight[h]
                        /\ journal'[h] = IF h = g THEN jr ELSE journal[h]
    BY <1>9 DEF TypeOK
  <2>2. FutureIsFresh' /\ NoLeftOverCalls'
    BY <1>1, <1>3, <1>5, <2>1 DEF RecordInv, FutureIsFresh, NoLeftOverCalls
  <2>3. RecordIsTheMapped'
    BY <1>2, <1>5, <1>9, <2>1 DEF RecordIsTheMapped
  <2>4. JournalIsBehind'
    <3> SUFFICES ASSUME NEW h \in Gens, engine'[h] = "running"
                 PROVE  /\ \A c \in inFlight'[h] : c < callSeq'[h]
                        /\ \A c \in journal'[h] :
                              c \in resumeJournal'[h] \/ c < callSeq'[h]
      BY DEF JournalIsBehind
    <3>1. /\ \A c \in inFlight[h] : c < callSeq[h]
          /\ \A c \in journal[h] : c \in resumeJournal[h] \/ c < callSeq[h]
      BY <1>5 DEF RecordInv, JournalIsBehind
    <3>2. CASE h = g
      <4>1. ASSUME NEW c \in jr PROVE c \in resumeJournal[g] \/ c < seq
        <5>1. c \in Nat
          BY <1>9, <4>1, BoundsAssumption DEF Calls
        <5>2. c < callSeq[g] => c < seq
          BY <1>1, <1>9, <5>1
        <5> QED
          BY <1>9, <3>1, <3>2, <4>1, <5>2
      <4> QED
        BY <1>5, <1>9, <2>1, <3>2, <4>1
    <3>3. CASE h # g
      BY <1>5, <2>1, <3>1, <3>3
    <3> QED
      BY <3>2, <3>3
  <2> QED
    BY <1>6, <1>7, <1>8, <2>2, <2>3, <2>4 DEF RecordInv
<1>10. /\ \A c \in inFlight[g] : c < callSeq[g]
       /\ journal[g] \in SUBSET Calls
       /\ journal = [journal EXCEPT ![g] = journal[g]]
       /\ callSeq = [callSeq EXCEPT ![g] = callSeq[g]]
       /\ inFlight = [inFlight EXCEPT ![g] = inFlight[g]]
  BY <1>1 DEF RecordInv, JournalIsBehind, TypeOK
<1>11. inFlight[g] \in SUBSET Nat
  BY BoundsAssumption DEF TypeOK, Calls
<1>12. CASE ReplayCall(g)
  <2> DEFINE seq == callSeq[g] + 1
             calls == inFlight[g]
             jr == journal[g]
  <2>1. seq \in Nat /\ seq >= callSeq[g] /\ \A c \in calls : c < seq
    BY <1>1, <1>10, <1>11
  <2>2. /\ callSeq' = [callSeq EXCEPT ![g] = seq]
        /\ inFlight' = [inFlight EXCEPT ![g] = calls]
        /\ journal' = [journal EXCEPT ![g] = jr]
        /\ disk' = Record(status[g], jr, error[g])
    BY <1>4, <1>10, <1>12 DEF ReplayCall, genVars
  <2> QED
    BY <1>9, <1>10, <2>1, <2>2
<1>13. CASE LiveCall(g)
  <2> DEFINE seq == callSeq[g] + 1
             calls == inFlight[g] \cup {callSeq[g]}
             jr == journal[g]
  <2>1. seq \in Nat /\ seq >= callSeq[g] /\ \A c \in calls : c < seq
    BY <1>1, <1>10, <1>11
  <2>2. /\ callSeq' = [callSeq EXCEPT ![g] = seq]
        /\ inFlight' = [inFlight EXCEPT ![g] = calls]
        /\ journal' = [journal EXCEPT ![g] = jr]
        /\ disk' = Record(status[g], jr, error[g])
    BY <1>4, <1>10, <1>13 DEF LiveCall, genVars
  <2> QED
    BY <1>9, <1>10, <2>1, <2>2
<1>14. ASSUME NEW c \in Calls, AgentFinishes(g, c)
       PROVE  RecordInv'
  <2> DEFINE seq == callSeq[g]
             calls == inFlight[g] \ {c}
             jr == journal[g] \cup {c}
  <2>1. /\ seq >= callSeq[g] /\ c < seq /\ \A d \in calls : d < seq
        /\ jr \in SUBSET Calls
    BY <1>1, <1>10, <1>14 DEF AgentFinishes
  <2>2. /\ callSeq' = [callSeq EXCEPT ![g] = seq]
        /\ inFlight' = [inFlight EXCEPT ![g] = calls]
        /\ journal' = [journal EXCEPT ![g] = jr]
        /\ disk' = Record(status[g], jr, error[g])
    BY <1>10, <1>14 DEF AgentFinishes
  <2>3. \A d \in jr : d \in journal[g] \/ d < seq
    BY <2>1
  <2> HIDE DEF seq, calls, jr
  <2> QED
    BY <1>1, <1>9, <2>1, <2>2, <2>3 DEF seq
<1>15. ASSUME NEW c \in Calls, NEW quota \in BOOLEAN, AgentFails(g, c, quota)
       PROVE  RecordInv'
  <2> DEFINE seq == callSeq[g]
             calls == inFlight[g] \ {c}
             jr == journal[g]
  <2>1. seq >= callSeq[g] /\ \A d \in calls : d < seq
    BY <1>1, <1>10
  <2>2. /\ callSeq' = [callSeq EXCEPT ![g] = seq]
        /\ inFlight' = [inFlight EXCEPT ![g] = calls]
        /\ journal' = [journal EXCEPT ![g] = jr]
        /\ disk' = Record(status[g], jr, error[g])
    BY <1>4, <1>10, <1>15 DEF AgentFails, genVars
  <2>3. seq \in Nat /\ jr \in SUBSET Calls /\ \A d \in jr : d \in journal[g]
    BY <1>1, <1>10
  <2> HIDE DEF seq, calls, jr
  <2> QED
    BY <1>9, <2>1, <2>2, <2>3 DEF seq
<1> QED
  BY <1>12, <1>13, <1>14, <1>15 DEF CallStep

(* Under quiet use the record, the generation the process maps the run to  *)
(* and its execution agree, whatever crashes (persistRun, resume).         *)
THEOREM RecordInvariant ==
    QuietUse /\ Spec => [](TypeOK /\ LeaseInv /\ RecordInv)
<1>1. QuietUse /\ TypeOK /\ LeaseInv /\ RecordInv /\ [Next]_vars => RecordInv'
  <2> SUFFICES ASSUME QuietUse, TypeOK, LeaseInv, RecordInv, [Next]_vars
               PROVE  RecordInv'
    OBVIOUS
  <2>1. OneProcess
    BY DEF QuietUse
  <2>2. CASE Next
    BY <2>1, <2>2, UserStepRecord, ContinueStepRecord, ProcessStepRecord,
       RunStepRecord, CallStepRecord DEF Next
  <2>3. CASE UNCHANGED vars
    <3>1. UNCHANGED <<alive, runs, task, seen, nextGen, owner, engine, status, error,
                      journal, resumeJournal, callSeq, inFlight, disk>>
      BY <2>3 DEF vars, procVars, genVars, callVars
    <3> QED
      BY <3>1, CallFrame DEF RecordInv, FutureIsFresh, NoLeftOverCalls,
         RecordIsTheMapped, RunningIsExplained, SeenIsCurrent, NeverRunIsAbsent,
         JournalIsBehind, Active
  <2> QED
    BY <2>2, <2>3
<1>2. QuietUse => NoLeasedRemoval
  BY DEF QuietUse
<1> QED
  <2> SUFFICES ASSUME QuietUse PROVE Spec => [](TypeOK /\ LeaseInv /\ RecordInv)
    OBVIOUS
  <2>1. TypeOK /\ LeaseInv /\ RecordInv /\ [Next]_vars => RecordInv'
    BY <1>1
  <2>2. Spec => [](TypeOK /\ LeaseInv)
    BY <1>2, LeaseInvariant
  <2> QED
    BY <2>1, <2>2, RecordInit, PTL DEF Spec

(* The run file never lags behind the generation that executes: whoever    *)
(* reads it sees its status and every result it has journaled.             *)
THEOREM FileFollowsExecution == QuietUse /\ Spec => []RecordFollowsExecution
<1>1. TypeOK /\ RecordInv => RecordFollowsExecution
  <2> SUFFICES ASSUME TypeOK, RecordInv, NEW g \in Gens, engine[g] = "running"
               PROVE  disk = Record("running", journal[g], error[g])
    BY DEF RecordFollowsExecution
  <2>1. owner[g] \in Procs /\ runs[owner[g]] = g /\ g # NoGen
    BY DEF TypeOK, RecordInv, ActiveIsMapped, Active, Gens, NoGen
  <2>2. status[g] = "running"
    BY DEF RecordInv, StatusFollowsEngine
  <2> QED
    BY <2>1, <2>2 DEF RecordInv, RecordIsTheMapped
<1> QED
  BY <1>1, RecordInvariant, PTL

(* The first call a generation executes is one the run file has no result  *)
(* for: resuming never pays twice for the call that ends the prefix.       *)
THEOREM MissesAreGenuine == QuietUse /\ Spec => FirstMissIsGenuine
<1> DEFINE Genuine == \A g \in Gens : \A c \in inFlight'[g] \ inFlight[g] :
               0 .. c - 1 \subseteq resumeJournal[g] => c \notin disk.journal
<1>1. TypeOK /\ LeaseInv /\ RecordInv /\ [Next]_vars => Genuine
  <2> SUFFICES ASSUME TypeOK, LeaseInv, RecordInv, [Next]_vars, NEW g \in Gens,
                      NEW c \in inFlight'[g] \ inFlight[g],
                      0 .. c - 1 \subseteq resumeJournal[g]
               PROVE  c \notin disk.journal
    OBVIOUS
  <2>1. LiveCall(g) /\ c = callSeq[g]
    <3>1. ASSUME NEW h \in Gens, LiveCall(h) PROVE LiveCall(g) /\ c = callSeq[g]
      BY <3>1 DEF LiveCall, TypeOK
    <3>2. ASSUME NEW p \in Procs, UserStep(p) PROVE FALSE
      BY <3>2 DEF UserStep, StartRun, Launch, Pause, Stop, ExternalAbort,
         ResumeLoad, DeleteRun, callVars, TypeOK
    <3>3. ASSUME NEW p \in Procs, ContinueStep(p) PROVE FALSE
      BY <3>3 DEF ContinueStep, ResumeTakesLease, Launch, ResumeRefused,
         RecoverStaleRun, RecoverSkipsRun, callVars
    <3>4. ASSUME NEW p \in Procs, ProcessStep(p) PROVE FALSE
      BY <3>4 DEF ProcessStep, Crash, Restart, callVars
    <3>5. ASSUME NEW h \in Gens, RunStep(h) PROVE FALSE
      BY <3>5 DEF RunStep, Unwind, RunCompletes, RunRejects, Settle
    <3>6. ASSUME NEW h \in Gens, CallStep(h), ~LiveCall(h) PROVE FALSE
      <4>1. \/ UNCHANGED inFlight
            \/ \E d \in Calls : inFlight' = [inFlight EXCEPT ![h] = @ \ {d}]
        BY <3>6 DEF CallStep, ReplayCall, AgentFinishes, AgentFails
      <4>2. inFlight'[g] \subseteq inFlight[g]
        BY <4>1 DEF TypeOK
      <4> QED
        BY <4>2
    <3>7. CASE UNCHANGED vars
      BY <3>7 DEF vars, callVars
    <3> QED
      BY <3>1, <3>2, <3>3, <3>4, <3>5, <3>6, <3>7 DEF Next
  <2>2. engine[g] = "running" /\ c \notin resumeJournal[g] /\ c \in Nat
    <3>1. engine[g] = "running" /\ ~(0 .. c \subseteq resumeJournal[g]) /\ c \in Nat
      BY <2>1, BoundsAssumption DEF LiveCall, InPrefix, TypeOK
    <3>2. \A d \in 0 .. c : d = c \/ d \in 0 .. c - 1
      BY <3>1
    <3> QED
      BY <3>1, <3>2
  <2>3. c \notin journal[g]
    BY <2>1, <2>2 DEF RecordInv, JournalIsBehind
  <2>4. disk = Record(status[g], journal[g], error[g])
    BY <2>2 DEF TypeOK, RecordInv, ActiveIsMapped, Active, RecordIsTheMapped, Gens, NoGen
  <2> QED
    BY <2>3, <2>4 DEF Record
<1>2. QuietUse /\ Spec => [](TypeOK /\ LeaseInv /\ RecordInv)
  BY RecordInvariant
<1> QED
  <2>1. QuietUse /\ Spec => [][Genuine]_vars
    BY <1>1, <1>2, PTL DEF Spec
  <2> QED
    BY <2>1 DEF FirstMissIsGenuine

-----------------------------------------------------------------------------
(* The manager implements RunLifecycle: every step of it maps to a step of *)
(* the life cycle or leaves the run file's status and results alone.       *)

Abstract == [Lifecycle!Next]_(Lifecycle!vars)

(* Writing the run file of a generation that leaves: from "running" to a   *)
(* status that can be resumed or is final, or "paused" once more.          *)
LEMMA LeaveRefines ==
    ASSUME TypeOK, NEW g \in Gens, NEW st \in RunStatus \ {"running"}, NEW err,
           disk = Record(status[g], journal[g], error[g]),
           disk' = Record(st, journal[g], err),
           \/ status[g] = "running" \/ st = status[g]
           \/ status[g] = "paused" /\ st = "aborted"
    PROVE  Abstract
BY DEF Abstract, Lifecycle!Next, Lifecycle!vars, Lifecycle!Leave, Lifecycle!Abandon,
   Lifecycle!Resumable, Lifecycle!Final, Record, RunStatus

LEMMA UserStepRefines ==
    ASSUME QuietUse, TypeOK, LeaseInv, RecordInv, NEW p \in Procs, UserStep(p)
    PROVE  Abstract
<1>0. OneProcess
  BY DEF QuietUse
<1>1. CASE StartRun(p)
  BY <1>1 DEF StartRun, Launch, Record, RecordInv, NeverRunIsAbsent, NoRecord,
     Abstract, Lifecycle!Next, Lifecycle!Launch
<1>2. CASE Pause(p)
  <2>1. /\ runs[p] \in Gens /\ status[runs[p]] = "running"
        /\ disk = Record(status[runs[p]], journal[runs[p]], error[runs[p]])
        /\ disk' = Record("paused", journal[runs[p]], error[runs[p]])
    BY <1>0, <1>2, MappedEngine DEF Pause, Finalize
  <2> QED
    BY <2>1, LeaveRefines DEF RunStatus
<1>3. CASE Stop(p)
  <2>1. /\ runs[p] \in Gens /\ status[runs[p]] \in {"running", "paused"}
        /\ disk = Record(status[runs[p]], journal[runs[p]], error[runs[p]])
        /\ disk' = Record("aborted", journal[runs[p]], error[runs[p]])
    BY <1>0, <1>3, MappedEngine DEF Stop, Finalize
  <2> QED
    BY <2>1, LeaveRefines DEF RunStatus
<1>4. CASE ExternalAbort(p) \/ ResumeLoad(p)
  BY <1>4 DEF ExternalAbort, ResumeLoad, Abstract, Lifecycle!vars
<1>5. CASE DeleteRun(p)
  BY <1>5 DEF DeleteRun, NoRecord, Abstract, Lifecycle!Next, Lifecycle!Remove
<1> QED
  BY <1>1, <1>2, <1>3, <1>4, <1>5 DEF UserStep

LEMMA ContinueStepRefines ==
    ASSUME OneProcess, TypeOK, LeaseInv, RecordInv, NEW p \in Procs, ContinueStep(p)
    PROVE  Abstract
<1>1. CASE ResumeTakesLease(p)
  <2>1. seen[p] = disk /\ disk.status \in {"paused", "failed"}
    BY <1>1 DEF ResumeTakesLease, RecordInv, SeenIsCurrent
  <2>2. disk'.status = "running" /\ disk'.journal = disk.journal
    BY <1>1, <2>1 DEF ResumeTakesLease, Launch, Record
  <2> QED
    BY <2>1, <2>2 DEF Abstract, Lifecycle!Next, Lifecycle!Resume, Lifecycle!Resumable
<1>2. CASE RecoverStaleRun(p)
  <2>1. seen[p] = disk /\ disk.status = "running"
    BY <1>2 DEF RecoverStaleRun, RecordInv, SeenIsCurrent
  <2>2. disk'.status = "paused" /\ disk'.journal = disk.journal
    BY <1>2, <2>1 DEF RecoverStaleRun, TypeOK, PersistedRunState
  <2> QED
    BY <2>1, <2>2 DEF Abstract, Lifecycle!Next, Lifecycle!Leave, Lifecycle!Resumable
<1>3. CASE ResumeRefused(p) \/ RecoverSkipsRun(p)
  BY <1>3 DEF ResumeRefused, RecoverSkipsRun, Abstract, Lifecycle!vars
<1> QED
  BY <1>1, <1>2, <1>3 DEF ContinueStep

LEMMA RunStepRefines ==
    ASSUME OneProcess, TypeOK, LeaseInv, RecordInv, NEW g \in Gens, RunStep(g)
    PROVE  Abstract
<1>1. Active(g)
  BY DEF RunStep, Unwind, RunCompletes, RunRejects, Active
<1>2. disk = Record(status[g], journal[g], error[g])
  BY <1>1 DEF TypeOK, RecordInv, ActiveIsMapped, RecordIsTheMapped, Gens, NoGen
<1>3. engine[g] = "running" => status[g] = "running"
  BY DEF RecordInv, StatusFollowsEngine
<1>4. CASE Unwind(g)
  <2> DEFINE st == IF status[g] = "running" THEN "aborted" ELSE status[g]
  <2>1. st \in RunStatus \ {"running"} /\ (status[g] = "running" \/ st = status[g])
    BY DEF TypeOK, RunStatus
  <2>2. disk' = Record(st, journal[g], "other")
    BY <1>4 DEF Unwind, Finalize
  <2> HIDE DEF st
  <2> QED
    BY <1>2, <2>1, <2>2, LeaveRefines
<1>5. CASE RunCompletes(g)
  <2>1. disk' = Record("completed", journal[g], error[g])
    BY <1>5 DEF RunCompletes, Finalize
  <2> QED
    BY <1>2, <1>3, <1>5, <2>1, LeaveRefines DEF RunCompletes, RunStatus
<1>6. ASSUME NEW err \in {"usage_limit", "other"}, RunRejects(g, err)
      PROVE  Abstract
  <2> DEFINE st == IF err = "usage_limit" THEN "paused" ELSE "failed"
  <2>1. st \in RunStatus \ {"running"}
    BY DEF RunStatus
  <2>2. disk' = Record(st, journal[g], err)
    BY <1>6 DEF RunRejects, Finalize
  <2> HIDE DEF st
  <2> QED
    BY <1>2, <1>3, <1>6, <2>1, <2>2, LeaveRefines DEF RunRejects
<1> QED
  BY <1>4, <1>5, <1>6 DEF RunStep

LEMMA CallStepRefines ==
    ASSUME TypeOK, RecordInv, NEW g \in Gens, CallStep(g) PROVE Abstract
<1>1. ASSUME NEW c \in Calls, AgentFinishes(g, c)
      PROVE  Abstract
  <2>1. engine[g] = "running" /\ status[g] = "running"
    BY <1>1 DEF AgentFinishes, RecordInv, NoLeftOverCalls, StatusFollowsEngine
  <2>2. disk = Record(status[g], journal[g], error[g])
    BY <2>1 DEF TypeOK, RecordInv, ActiveIsMapped, Active, RecordIsTheMapped,
       Gens, NoGen
  <2>3. /\ disk.status = "running" /\ disk'.status = "running"
        /\ disk'.journal = disk.journal \cup {c}
    BY <1>1, <2>1, <2>2 DEF AgentFinishes, Record
  <2> QED
    BY <2>3 DEF Abstract, Lifecycle!Next, Lifecycle!Record
<1>2. ASSUME UNCHANGED disk PROVE Abstract
  BY <1>2 DEF Abstract, Lifecycle!vars
<1> QED
  BY <1>1, <1>2 DEF CallStep, ReplayCall, LiveCall, AgentFails

(* With one process and awaited calls the run file follows RunLifecycle: a *)
(* launch is the only way in, results only accumulate, a completed or      *)
(* stopped run is final, and a resumed run keeps what it had.              *)
THEOREM ImplementsLifecycle == QuietUse /\ Spec => FollowsLifecycle
<1>1. Init => Lifecycle!Init
  BY DEF Init, NoRecord, Lifecycle!Init
<1>2. QuietUse /\ TypeOK /\ LeaseInv /\ RecordInv /\ [Next]_vars => Abstract
  <2> SUFFICES ASSUME QuietUse, TypeOK, LeaseInv, RecordInv, [Next]_vars
               PROVE  Abstract
    OBVIOUS
  <2>1. OneProcess
    BY DEF QuietUse
  <2>2. ASSUME NEW p \in Procs, ProcessStep(p) PROVE Abstract
    BY <2>2 DEF ProcessStep, Crash, Restart, Abstract, Lifecycle!vars
  <2>3. CASE UNCHANGED vars
    BY <2>3 DEF vars, Abstract, Lifecycle!vars
  <2> QED
    BY <2>1, <2>2, <2>3, UserStepRefines, ContinueStepRefines, RunStepRefines,
       CallStepRefines DEF Next
<1>3. QuietUse /\ Spec => [](TypeOK /\ LeaseInv /\ RecordInv)
  BY RecordInvariant
<1> QED
  <2> SUFFICES ASSUME QuietUse PROVE Spec => FollowsLifecycle
    OBVIOUS
  <2>1. TypeOK /\ LeaseInv /\ RecordInv /\ [Next]_vars
            => [Lifecycle!Next]_(Lifecycle!vars)
    BY <1>2 DEF Abstract
  <2> QED
    BY <1>1, <1>3, <2>1, PTL DEF Spec, FollowsLifecycle, Lifecycle!Spec
=============================================================================
