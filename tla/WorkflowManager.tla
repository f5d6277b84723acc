-------------------------- MODULE WorkflowManager --------------------------
(***************************************************************************)
(* The life of ONE workflow run as helm's WorkflowManager drives it        *)
(* (workflows/workflow-manager.ts), on top of the run record and the lock  *)
(* file that workflows/run-persistence.ts keeps in the project directory.  *)
(*                                                                         *)
(* Several pi processes may have the project open.  Each owns a manager    *)
(* whose `runs` map holds at most one ManagedRun for the run.  Launching   *)
(* or resuming creates a new ManagedRun: a "generation".  The object of an *)
(* older generation does not disappear: its un-awaited agent calls keep a  *)
(* reference to it and persist it when they finish.                        *)
(*                                                                         *)
(* Granularity.  Node runs one synchronous stretch of a process at a time, *)
(* so a handler with no await is one step of its process; two processes    *)
(* interleave between their file operations, so loading the record and     *)
(* taking the lease are two steps.  pause(), stop() and Esc abort the      *)
(* sandbox, whose rejection reaches executeRun's catch in microtasks,      *)
(* before the process does anything else: that is the engine state         *)
(* "unwinding".                                                            *)
(***************************************************************************)
EXTENDS Naturals, FiniteSets

CONSTANTS
    Procs,              \* pi processes that have the project open
    NumCalls,           \* agent() calls of the script
    FanOut,             \* agent() calls the script leaves outstanding at once
    MaxGens,            \* bound: launches and resumes of the run
    MaxCrashes,         \* bound: process deaths
    SandboxMayDie,      \* whether the script's sandbox process can die under a run
    RemovesLeasedRuns   \* whether users remove a run while it is being executed

ASSUME ProcsAssumption   == Procs # {}
ASSUME BoundsAssumption  == /\ NumCalls \in Nat /\ FanOut \in Nat
                            /\ MaxGens \in Nat /\ MaxCrashes \in Nat
ASSUME SwitchAssumption  == RemovesLeasedRuns \in BOOLEAN /\ SandboxMayDie \in BOOLEAN

Calls == 0 .. NumCalls - 1
Gens  == 1 .. MaxGens
NoGen == 0

RunStatus == {"running", "paused", "failed", "completed", "aborted"}
RunError  == {"none", "usage_limit", "other"}

(* What the run file holds; status "absent" is the file not existing.      *)
PersistedRunState == [status      : RunStatus \cup {"absent"},
                      journal     : SUBSET Calls,
                      pauseReason : {"none", "usage_limit"}]

NoRecord == [status |-> "absent", journal |-> {}, pauseReason |-> "none"]

VARIABLES
    alive,          \* process is up
    crashes,        \* number of process deaths so far
    runs,           \* per process: the generation in its `runs` map, or NoGen
    task,           \* per process: the multi-step operation it is inside
    seen,           \* per process: the record that operation loaded
    nextGen,        \* the generation the next launch or resume creates
    owner,          \* per generation: its process
    engine,         \* per generation: where executeRun() is
    status,         \* per generation: ManagedRun.status
    error,          \* per generation: ManagedRun.error
    leased,         \* per generation: ManagedRun.lease is set
    journal,        \* per generation: ManagedRun.journal
    resumeJournal,  \* per generation: the journal it replays from
    callSeq,        \* per generation: agent() calls made so far
    inFlight,       \* per generation: agent calls still running
    limited,        \* per generation: a call was refused by the provider's quota
    lock,           \* the generation whose token is in the lock file, or NoGen
    disk            \* the run file

procVars == <<alive, crashes, runs, task, seen>>
callVars == <<callSeq, inFlight, limited>>
genVars  == <<nextGen, owner, engine, status, error, leased, journal, resumeJournal>>
vars     == <<procVars, genVars, callVars, lock, disk>>

TypeOK ==
    /\ alive \in [Procs -> BOOLEAN]
    /\ crashes \in Nat
    /\ runs \in [Procs -> Gens \cup {NoGen}]
    /\ task \in [Procs -> {"idle", "resuming", "recovering"}]
    /\ seen \in [Procs -> PersistedRunState]
    /\ nextGen \in 1 .. MaxGens + 1
    /\ owner \in [Gens -> Procs]
    /\ engine \in [Gens -> {"unborn", "running", "unwinding", "settled", "dead"}]
    /\ status \in [Gens -> RunStatus]
    /\ error \in [Gens -> RunError]
    /\ leased \in [Gens -> BOOLEAN]
    /\ journal \in [Gens -> SUBSET Calls]
    /\ resumeJournal \in [Gens -> SUBSET Calls]
    /\ callSeq \in [Gens -> 0 .. NumCalls]
    /\ inFlight \in [Gens -> SUBSET Calls]
    /\ limited \in [Gens -> BOOLEAN]
    /\ lock \in Gens \cup {NoGen}
    /\ disk \in PersistedRunState

Init ==
    /\ alive = [p \in Procs |-> TRUE]
    /\ crashes = 0
    /\ runs = [p \in Procs |-> NoGen]
    /\ task = [p \in Procs |-> "idle"]
    /\ seen = [p \in Procs |-> NoRecord]
    /\ nextGen = 1
    /\ owner = [g \in Gens |-> CHOOSE p \in Procs : TRUE]
    /\ engine = [g \in Gens |-> "unborn"]
    /\ status = [g \in Gens |-> "running"]
    /\ error = [g \in Gens |-> "none"]
    /\ leased = [g \in Gens |-> FALSE]
    /\ journal = [g \in Gens |-> {}]
    /\ resumeJournal = [g \in Gens |-> {}]
    /\ callSeq = [g \in Gens |-> 0]
    /\ inFlight = [g \in Gens |-> {}]
    /\ limited = [g \in Gens |-> FALSE]
    /\ lock = NoGen
    /\ disk = NoRecord

-----------------------------------------------------------------------------
(* Process scheduling and the lock file.                                   *)

(* The event loop of p is between two macrotasks: nothing is half done and *)
(* no rejected run is waiting for its catch.                               *)
Free(p) ==
    /\ alive[p]
    /\ task[p] = "idle"
    /\ \A g \in Gens : ~(owner[g] = p /\ engine[g] = "unwinding")

(* A multi-step operation of p is over and its local record is gone.       *)
ReturnToLoop(p) ==
    /\ task' = [task EXCEPT ![p] = "idle"]
    /\ seen' = [seen EXCEPT ![p] = NoRecord]

(* Mutant: a lock file refuses everybody, whether its process lives or not. *)
LockPresent == lock # NoGen

(* acquireRunLease() gives up on a lock whose pid answers kill(pid, 0) and *)
(* steals any other.                                                       *)
LockLive == lock # NoGen /\ engine[lock] # "dead"

(* Mutant: unlink the lock without looking whose token it holds.           *)
LockAfterBlindRelease(g) == NoGen

(* releaseRunLease(): unlink the lock only while it holds our own token.   *)
LockAfterRelease(g) == IF leased[g] /\ lock = g THEN NoGen ELSE lock

(* What persistRun() writes for a ManagedRun with these fields.            *)
Record(st, jr, err) ==
    [status      |-> st,
     journal     |-> jr,
     pauseReason |-> IF st = "paused" /\ err = "usage_limit"
                     THEN "usage_limit" ELSE "none"]

(* A new ManagedRun enters p's map with the lease taken; the record is     *)
(* written in the same synchronous stretch.                                *)
Launch(p, jr) ==
    /\ nextGen <= MaxGens
    /\ nextGen' = nextGen + 1
    /\ owner' = [owner EXCEPT ![nextGen] = p]
    /\ engine' = [engine EXCEPT ![nextGen] = "running"]
    /\ leased' = [leased EXCEPT ![nextGen] = TRUE]
    /\ journal' = [journal EXCEPT ![nextGen] = jr]
    /\ resumeJournal' = [resumeJournal EXCEPT ![nextGen] = jr]
    /\ lock' = nextGen
    /\ runs' = [runs EXCEPT ![p] = nextGen]
    /\ disk' = Record("running", jr, "none")
    /\ UNCHANGED <<status, error, callVars, alive, crashes>>

(* executeRun() leaves through its end or its catch, or pause()/stop()     *)
(* take the run down: status, then persistRun, then releaseRunLease.       *)
Finalize(g, st, err) ==
    /\ status' = [status EXCEPT ![g] = st]
    /\ error' = [error EXCEPT ![g] = err]
    /\ disk' = Record(st, journal[g], err)
    /\ lock' = LockAfterRelease(g)
    /\ leased' = [leased EXCEPT ![g] = FALSE]

(* executeRun() returns or throws: runWorkflow's frame is gone.            *)
Settle(g) ==
    /\ engine' = [engine EXCEPT ![g] = "settled"]
    /\ resumeJournal' = [resumeJournal EXCEPT ![g] = {}]
    /\ callSeq' = [callSeq EXCEPT ![g] = 0]
    /\ limited' = [limited EXCEPT ![g] = FALSE]
    /\ UNCHANGED <<procVars, nextGen, owner, journal, inFlight>>

-----------------------------------------------------------------------------
(* Operations of the manager.                                              *)

(* startInBackground() and runSync().  The run id is fresh, so no other    *)
(* process competes for its lock.                                          *)
StartRun(p) ==
    /\ Free(p)
    /\ nextGen = 1
    /\ ~LockLive
    /\ Launch(p, {})
    /\ UNCHANGED <<task, seen>>

(* pause(): only a run this process believes to be running.                *)
Pause(p) ==
    /\ Free(p)
    /\ runs[p] # NoGen
    /\ status[runs[p]] = "running"
    /\ LET g == runs[p] IN
       /\ engine' = [engine EXCEPT ![g] = "unwinding"]
       /\ inFlight' = [inFlight EXCEPT ![g] = {}]
       /\ Finalize(g, "paused", error[g])
    /\ UNCHANGED <<procVars, nextGen, owner, journal, resumeJournal, callSeq, limited>>

(* stop(): a run this process believes to be running or paused, whoever is *)
(* executing it by now.  Aborting also ends what a settled generation left *)
(* running.                                                                *)
Stop(p) ==
    /\ Free(p)
    /\ runs[p] # NoGen
    /\ status[runs[p]] \in {"running", "paused"}
    /\ LET g == runs[p] IN
       /\ engine' = [engine EXCEPT ![g] = IF @ = "running" THEN "unwinding" ELSE @]
       /\ inFlight' = [inFlight EXCEPT ![g] = {}]
       /\ Finalize(g, "aborted", error[g])
    /\ UNCHANGED <<procVars, nextGen, owner, journal, resumeJournal, callSeq, limited>>

(* The host's signal (Esc during an inline tool call) fires.  Only the     *)
(* launch made by the tool is tied to it; nothing is recorded until the    *)
(* catch runs.                                                             *)
ExternalAbort(p) ==
    /\ Free(p)
    /\ runs[p] = 1
    /\ engine[1] = "running"
    /\ engine' = [engine EXCEPT ![1] = "unwinding"]
    /\ inFlight' = [inFlight EXCEPT ![1] = {}]
    /\ UNCHANGED <<procVars, nextGen, owner, status, error, leased, journal,
                   resumeJournal, callSeq, limited, lock, disk>>

(* Mutant: the catch leaves the lease to pause() and stop().               *)
UnwindKeepsLease(g) ==
    /\ engine[g] = "unwinding"
    /\ alive[owner[g]]
    /\ status' = [status EXCEPT ![g] = IF @ = "running" THEN "aborted" ELSE @]
    /\ error' = [error EXCEPT ![g] = "other"]
    /\ disk' = Record(status'[g], journal[g], "other")
    /\ UNCHANGED <<lock, leased>>
    /\ Settle(g)

(* executeRun()'s catch for an aborted run: the status pause() or stop()   *)
(* set is kept, and the record is written once more.                       *)
Unwind(g) ==
    /\ engine[g] = "unwinding"
    /\ alive[owner[g]]
    /\ Finalize(g, IF status[g] = "running" THEN "aborted" ELSE status[g], "other")
    /\ Settle(g)

(* executeRun()'s catch for a run that was not aborted.  Either the script *)
(* threw, by itself or because it let an agent() rejection through, which  *)
(* takes a lane that is not waiting for a call; or its sandbox process     *)
(* died.  Sibling calls are not aborted.                                   *)
RunRejects(g, err) ==
    /\ engine[g] = "running"
    /\ Free(owner[g])
    /\ \/ Cardinality(inFlight[g]) < FanOut
       \/ SandboxMayDie /\ err = "other"
    /\ err = "usage_limit" => limited[g]
    /\ Finalize(g, IF err = "usage_limit" THEN "paused" ELSE "failed", err)
    /\ Settle(g)

(* The script returned, having awaited its calls.                          *)
RunCompletes(g) ==
    /\ engine[g] = "running"
    /\ Free(owner[g])
    /\ callSeq[g] = NumCalls
    /\ inFlight[g] = {}
    /\ Finalize(g, "completed", error[g])
    /\ Settle(g)

(* Mutant: only the in-memory guard knows of stopped runs.                 *)
ResumeLoadStopped(p) ==
    /\ Free(p)
    /\ runs[p] # NoGen => status[runs[p]] \notin {"running", "aborted"}
    /\ disk.status \notin {"absent", "completed"}
    /\ nextGen + Cardinality({q \in Procs : task[q] = "resuming"}) <= MaxGens
    /\ task' = [task EXCEPT ![p] = "resuming"]
    /\ seen' = [seen EXCEPT ![p] = disk]
    /\ UNCHANGED <<alive, crashes, runs, genVars, callVars, lock, disk>>

(* resume(), first half: the in-memory and on-disk guards.  (The sum keeps *)
(* a generation in reserve for every process inside resume().)             *)
ResumeLoad(p) ==
    /\ Free(p)
    /\ runs[p] # NoGen => status[runs[p]] \notin {"running", "aborted"}
    /\ disk.status \notin {"absent", "completed", "aborted"}
    /\ nextGen + Cardinality({q \in Procs : task[q] = "resuming"}) <= MaxGens
    /\ task' = [task EXCEPT ![p] = "resuming"]
    /\ seen' = [seen EXCEPT ![p] = disk]
    /\ UNCHANGED <<alive, crashes, runs, genVars, callVars, lock, disk>>

(* resume(), second half: take the lease, or return false.                 *)
ResumeTakesLease(p) ==
    /\ task[p] = "resuming"
    /\ ~LockLive
    /\ Launch(p, seen[p].journal)
    /\ ReturnToLoop(p)

ResumeRefused(p) ==
    /\ task[p] = "resuming"
    /\ LockLive
    /\ ReturnToLoop(p)
    /\ UNCHANGED <<alive, crashes, runs, genVars, callVars, lock, disk>>

(* deleteRun(): forget the ManagedRun without aborting it, and unlink the  *)
(* record and the lock whoever owns it.                                    *)
DeleteRun(p) ==
    /\ Free(p)
    /\ disk.status # "absent"
    /\ RemovesLeasedRuns \/ ~LockLive
    /\ leased' = [g \in Gens |-> leased[g] /\ g # runs[p]]
    /\ runs' = [runs EXCEPT ![p] = NoGen]
    /\ disk' = NoRecord
    /\ lock' = NoGen
    /\ UNCHANGED <<alive, crashes, task, seen, nextGen, owner, engine, status,
                   error, journal, resumeJournal, callVars>>

-----------------------------------------------------------------------------
(* Agent calls of a generation (workflow.ts, agent()).                     *)

(* Mutant: the last call of the prefix is taken for a miss.                *)
InsidePrefix(g) == 0 .. callSeq[g] + 1 \subseteq resumeJournal[g]

(* The journal answers the next call: it and every call before it are      *)
(* journaled, so the unchanged prefix is intact.                           *)
InPrefix(g) == 0 .. callSeq[g] \subseteq resumeJournal[g]

(* The script makes its next call and the journal answers it.              *)
ReplayCall(g) ==
    /\ engine[g] = "running"
    /\ Free(owner[g])
    /\ callSeq[g] < NumCalls
    /\ InPrefix(g)
    /\ callSeq' = [callSeq EXCEPT ![g] = @ + 1]
    /\ UNCHANGED <<procVars, genVars, inFlight, limited, lock, disk>>

(* The first call the journal cannot answer and every later one run live.  *)
LiveCall(g) ==
    /\ engine[g] = "running"
    /\ Free(owner[g])
    /\ callSeq[g] < NumCalls
    /\ ~InPrefix(g)
    /\ Cardinality(inFlight[g]) < FanOut
    /\ callSeq' = [callSeq EXCEPT ![g] = @ + 1]
    /\ inFlight' = [inFlight EXCEPT ![g] = @ \cup {callSeq[g]}]
    /\ UNCHANGED <<procVars, genVars, limited, lock, disk>>

(* Mutant: the record is written before the result joins the journal.      *)
AgentFinishesUnrecorded(g, c) ==
    /\ c \in inFlight[g]
    /\ Free(owner[g])
    /\ inFlight' = [inFlight EXCEPT ![g] = @ \ {c}]
    /\ journal' = [journal EXCEPT ![g] = @ \cup {c}]
    /\ disk' = Record(status[g], journal[g], error[g])
    /\ UNCHANGED <<procVars, nextGen, owner, engine, status, error, leased,
                   resumeJournal, callSeq, limited, lock>>

(* onAgentJournal: the result joins the journal and the ManagedRun is      *)
(* persisted as it is, whether or not its run has settled.                 *)
AgentFinishes(g, c) ==
    /\ c \in inFlight[g]
    /\ Free(owner[g])
    /\ inFlight' = [inFlight EXCEPT ![g] = @ \ {c}]
    /\ journal' = [journal EXCEPT ![g] = @ \cup {c}]
    /\ disk' = Record(status[g], journal[g] \cup {c}, error[g])
    /\ UNCHANGED <<procVars, nextGen, owner, engine, status, error, leased,
                   resumeJournal, callSeq, limited, lock>>

(* The call ends without a result: null after its last recoverable failure *)
(* (quota = FALSE), or a rejection for the provider's quota.               *)
AgentFails(g, c, quota) ==
    /\ c \in inFlight[g]
    /\ Free(owner[g])
    /\ inFlight' = [inFlight EXCEPT ![g] = @ \ {c}]
    /\ limited' = [limited EXCEPT ![g] = @ \/ (quota /\ engine[g] = "running")]
    /\ UNCHANGED <<procVars, genVars, callSeq, lock, disk>>

-----------------------------------------------------------------------------
(* Death and start of a process.                                           *)

(* The generations p owned lose everything they held in memory.            *)
Crash(p) ==
    LET Lost(g) == owner[g] = p /\ engine[g] # "unborn"
        Forget(f, blank) == [g \in Gens |-> IF Lost(g) THEN blank ELSE f[g]]
    IN
    /\ alive[p]
    /\ crashes < MaxCrashes
    /\ crashes' = crashes + 1
    /\ alive' = [alive EXCEPT ![p] = FALSE]
    /\ runs' = [runs EXCEPT ![p] = NoGen]
    /\ ReturnToLoop(p)
    /\ engine' = Forget(engine, "dead")
    /\ status' = Forget(status, "running")
    /\ error' = Forget(error, "none")
    /\ leased' = Forget(leased, FALSE)
    /\ journal' = Forget(journal, {})
    /\ resumeJournal' = Forget(resumeJournal, {})
    /\ callSeq' = Forget(callSeq, 0)
    /\ inFlight' = Forget(inFlight, {})
    /\ limited' = Forget(limited, FALSE)
    /\ UNCHANGED <<nextGen, owner, lock, disk>>

(* The constructor: recoverStaleRuns() lists the records first.            *)
Restart(p) ==
    /\ ~alive[p]
    /\ alive' = [alive EXCEPT ![p] = TRUE]
    /\ task' = [task EXCEPT ![p] = IF disk.status = "running"
                                   THEN "recovering" ELSE "idle"]
    /\ seen' = [seen EXCEPT ![p] = IF disk.status = "running" THEN disk ELSE @]
    /\ UNCHANGED <<crashes, runs, genVars, callVars, lock, disk>>

(* ... then, under the lease, saves the record it listed as "paused".      *)
RecoverStaleRun(p) ==
    /\ task[p] = "recovering"
    /\ ~LockLive
    /\ disk' = [seen[p] EXCEPT !.status = "paused"]
    /\ lock' = NoGen
    /\ ReturnToLoop(p)
    /\ UNCHANGED <<alive, crashes, runs, genVars, callVars>>

RecoverSkipsRun(p) ==
    /\ task[p] = "recovering"
    /\ LockLive
    /\ ReturnToLoop(p)
    /\ UNCHANGED <<alive, crashes, runs, genVars, callVars, lock, disk>>

-----------------------------------------------------------------------------
UserStep(p)     == StartRun(p) \/ Pause(p) \/ Stop(p) \/ ExternalAbort(p)
                   \/ ResumeLoad(p) \/ DeleteRun(p)
ContinueStep(p) == ResumeTakesLease(p) \/ ResumeRefused(p)
                   \/ RecoverStaleRun(p) \/ RecoverSkipsRun(p)
ProcessStep(p)  == Crash(p) \/ Restart(p)
RunStep(g)      == \/ Unwind(g) \/ RunCompletes(g)
                   \/ \E err \in {"usage_limit", "other"} : RunRejects(g, err)
CallStep(g)     == \/ ReplayCall(g) \/ LiveCall(g)
                   \/ \E c \in Calls : AgentFinishes(g, c)
                   \/ \E c \in Calls, quota \in BOOLEAN : AgentFails(g, c, quota)

Next == \/ \E p \in Procs : UserStep(p) \/ ContinueStep(p) \/ ProcessStep(p)
        \/ \E g \in Gens : RunStep(g) \/ CallStep(g)

Spec == Init /\ [][Next]_vars

(* A process that is up runs the code it is in the middle of, and the      *)
(* project is eventually opened again after every process death.           *)
Fairness ==
    /\ \A p \in Procs : WF_vars(ContinueStep(p)) /\ WF_vars(Restart(p))
    /\ \A g \in Gens : WF_vars(Unwind(g))

FairSpec == Spec /\ Fairness

-----------------------------------------------------------------------------
(* At most one generation of the run executes at any time, whichever       *)
(* processes try to launch or resume it: what the lease is for             *)
(* (run-persistence.ts, acquireRunLease; workflow-manager.ts, resume).     *)
SingleExecution ==
    \A g, h \in Gens : engine[g] = "running" /\ engine[h] = "running" => g = h

(* A lock whose process is alive belongs to a run that process is still    *)
(* executing or about to unwind: no path out of executeRun(), pause() or   *)
(* stop() leaves a lease behind, which would make the run unresumable      *)
(* until that process exits.                                               *)
LeaseNotLeaked ==
    LockLive => engine[lock] \in {"running", "unwinding"} /\ leased[lock]

(* While a generation executes, the run file is that generation's record:  *)
(* its status and every result it has journaled (resume() comments that    *)
(* listRuns() is the renderers' source of truth for lifecycle status).     *)
RecordFollowsExecution ==
    \A g \in Gens : engine[g] = "running" =>
        disk = Record("running", journal[g], error[g])

(* The first call a generation executes is one the run file holds no       *)
(* result for: a finished agent at the end of the unchanged prefix is      *)
(* never paid for twice (workflow.ts, "a genuine miss").                   *)
FirstMissIsGenuine ==
    [][\A g \in Gens : \A c \in inFlight'[g] \ inFlight[g] :
           0 .. c - 1 \subseteq resumeJournal[g] => c \notin disk.journal]_vars

(* A run recorded as running that nobody executes, because its process     *)
(* died, is taken out of that state once the project is opened again       *)
(* (recoverStaleRuns).                                                     *)
Orphaned == disk.status = "running" /\ \A g \in Gens : engine[g] # "running"

OrphanRecovered == Orphaned ~> ~Orphaned

(* A stopped run is never executed again (resume() is meant "to refuse to  *)
(* resume a run that is already running, or one that was intentionally     *)
(* aborted").                                                              *)
StoppedStaysStopped ==
    [][disk.status = "aborted" => \A g \in Gens :
           engine'[g] = "running" => engine[g] = "running"]_vars

(* The run file follows the life cycle a user of the manager relies on.    *)
Lifecycle == INSTANCE RunLifecycle WITH
                 Results <- Calls, status <- disk.status, results <- disk.journal

FollowsLifecycle == Lifecycle!Spec
=============================================================================
