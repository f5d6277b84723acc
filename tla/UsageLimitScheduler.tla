------------------------ MODULE UsageLimitScheduler ------------------------
(***************************************************************************)
(* Auto-resume of ONE workflow run that paused on a provider usage limit   *)
(* (workflows/usage-limit-scheduler.ts), with the part of the manager it   *)
(* listens to and calls.  WorkflowManager models the manager in full; here *)
(* a manager operation is one step: the in-memory status, the record, the  *)
(* lease, and what the scheduler's listener does with the emitted event,   *)
(* which runs before the operation returns.                                *)
(*                                                                         *)
(* Every process has a scheduler with one entry for the run.  setTimeout   *)
(* hands out timers from Handles; clearing goes through the handle the     *)
(* entry stores, so a handle that is overwritten uncleared stays live.     *)
(* Time is relative: a timer counts its delay down and the ages of the     *)
(* record and of the pause count up to Horizon, beyond which no delay      *)
(* depends on them.  A timer may fire late, never early.                   *)
(***************************************************************************)
EXTENDS Integers, FiniteSets

CONSTANTS
    Procs,                              \* pi processes that have the project open
    Handles,                            \* timer handles of a process
    Off,                                \* no timer, no lease holder
    NoHint,                             \* a reset hint that is missing or unreadable
    Hints,                              \* delays a readable reset hint stands for
    MaxAttempts, MinDelay, FallbackDelay, MaxDelay,   \* the scheduler's options
    Backoff,                            \* factor of a delay, per earlier attempt
    Horizon,                            \* bound: ages are not told apart beyond it
    MaxLaunches,                        \* bound: launches and resumes by users
    MaxDowns                            \* bound: process deaths and shutdowns

ASSUME OffAssumption   == Off \notin Handles /\ Off \notin Procs /\ Off \notin Int
ASSUME HintAssumption  == NoHint \notin Int /\ Hints \subseteq Nat
ASSUME DelayAssumption == /\ MaxAttempts \in Nat /\ FallbackDelay \in Nat
                          /\ MinDelay \in Nat /\ MaxDelay \in Nat
                          /\ MinDelay <= MaxDelay
                          /\ Backoff \in [0 .. 30 -> Nat \ {0}]
ASSUME BoundAssumption == /\ Horizon \in Nat /\ MaxLaunches \in Nat /\ MaxDowns \in Nat
                          /\ \A d \in Hints \cup {FallbackDelay, MaxDelay} : d <= Horizon

RunStatus == {"running", "paused", "failed", "completed", "aborted"}

(* The fields of the run file that matter here; attempts is 0 when         *)
(* autoResumeAttempts is absent, age is the time since updatedAt.          *)
PersistedRunState == [status      : RunStatus \cup {"absent"},
                      pauseReason : {"none", "usage_limit"},
                      resetHint   : Hints \cup {NoHint},
                      autoResume  : BOOLEAN,
                      attempts    : Nat,
                      age         : 0 .. Horizon]

(* The scheduler's RunState; attempts is 0 when the map has no entry.      *)
RunState == [attempts : Nat, timer : Handles \cup {Off}, gaveUp : BOOLEAN]
NoEntry  == [attempts |-> 0, timer |-> Off, gaveUp |-> FALSE]

VARIABLES
    alive,        \* process is up
    runs,         \* per process: status of its ManagedRun, or "none"
    holder,       \* the live process that holds the run's lease, or Off
    disk,         \* the run file
    entry,        \* per process: the scheduler's state for the run
    timers,       \* per process and handle: time left, or Off
    owed,         \* per process: attempts a queued microtask will save, or 0
    refused,      \* per process: a fired timer's resume() returned false
    pauseAge,     \* history: time since the run was last paused
    autoResumes,  \* history: resumes by timers since a user last touched the run
    allowed,      \* history: attempts granted, counters lost to kills included
    launches,     \* number of launches and resumes by users
    downs         \* number of process deaths and shutdowns

schedVars == <<entry, timers, owed, refused>>
histVars  == <<pauseAge, autoResumes, allowed>>
vars      == <<alive, runs, holder, disk, schedVars, histVars, launches, downs>>

TypeOK ==
    /\ alive \in [Procs -> BOOLEAN]
    /\ runs \in [Procs -> RunStatus \cup {"none"}]
    /\ holder \in Procs \cup {Off}
    /\ disk \in PersistedRunState
    /\ entry \in [Procs -> RunState]
    /\ timers \in [Procs -> [Handles -> 0 .. MaxDelay \cup {Off}]]
    /\ owed \in [Procs -> Nat]
    /\ refused \in [Procs -> BOOLEAN]
    /\ pauseAge \in 0 .. Horizon
    /\ autoResumes \in Nat /\ allowed \in Nat
    /\ launches \in Nat /\ downs \in Nat

AllOff == [h \in Handles |-> Off]

(* persistRun() writes a fresh object: the attempt counter is not in it.   *)
Record(st, reason, hint, auto) ==
    [status |-> st, pauseReason |-> reason, resetHint |-> hint,
     autoResume |-> auto, attempts |-> 0, age |-> 0]

NoRecord == Record("absent", "none", NoHint, TRUE)

Init ==
    /\ alive = [p \in Procs |-> TRUE]
    /\ runs = [p \in Procs |-> "none"]
    /\ holder = Off
    /\ disk = NoRecord
    /\ entry = [p \in Procs |-> NoEntry]
    /\ timers = [p \in Procs |-> AllOff]
    /\ owed = [p \in Procs |-> 0]
    /\ refused = [p \in Procs |-> FALSE]
    /\ pauseAge = 0
    /\ autoResumes = 0
    /\ allowed = MaxAttempts
    /\ launches = 0
    /\ downs = 0

Least(a, b)    == IF a < b THEN a ELSE b
Greatest(a, b) == IF a > b THEN a ELSE b

-----------------------------------------------------------------------------
(* The scheduler's own functions.                                          *)

(* What parseResetHintMs() makes of a hint, else the fallback.             *)
Base(hint) == IF hint = NoHint THEN FallbackDelay ELSE hint

(* computeAutoResumeDelayMs().                                             *)
Delay(hint, n, elapsed) ==
    LET exponent == Least(Greatest(n - 1, 0), 30)
        backoff  == (Base(hint) - elapsed) * Backoff[exponent]
    IN Least(MaxDelay, Greatest(MinDelay, backoff))

Clear(ts, h) == [x \in Handles |-> IF x = h THEN Off ELSE ts[x]]

(* The entry of p gets a new timer; ts are its live ones.                  *)
SetTimer(p, ts, n, delay) ==
    \E h \in Handles :
        /\ ts[h] = Off
        /\ timers' = [timers EXCEPT ![p] = [ts EXCEPT ![h] = delay]]
        /\ entry' = [entry EXCEPT ![p] = [attempts |-> n, timer |-> h, gaveUp |-> FALSE]]

(* arm(): give up beyond the cap, else replace the timer; either way a     *)
(* microtask will save the counter.                                        *)
Arm(p, n, hint, elapsed) ==
    LET ts == Clear(timers[p], entry[p].timer) IN
    /\ IF n > MaxAttempts
       THEN /\ timers' = [timers EXCEPT ![p] = ts]
            /\ entry' = [entry EXCEPT ![p] =
                            [attempts |-> n, timer |-> Off, gaveUp |-> TRUE]]
       ELSE SetTimer(p, ts, n, Delay(hint, n, elapsed))
    /\ owed' = [owed EXCEPT ![p] = n]

(* cleanup(), the listener of "complete", "error" and "stopped".           *)
Cleanup(p) ==
    /\ timers' = [timers EXCEPT ![p] = Clear(@, entry[p].timer)]
    /\ entry' = [entry EXCEPT ![p] = NoEntry]

(* Mutant: the counter is read back from the record.                       *)
PriorAttemptsOnDisk(p) == disk.attempts

PriorAttempts(p) == IF entry[p].attempts > 0 THEN entry[p].attempts ELSE disk.attempts

(* Mutant: the elapsed time is taken from the record as well.              *)
HandlePausedByRecordAge(p, hint) ==
    IF disk.status # "absent" /\ ~disk.autoResume
    THEN UNCHANGED <<entry, timers, owed>>
    ELSE Arm(p, PriorAttempts(p) + 1, IF hint = NoHint THEN disk.resetHint ELSE hint, disk.age)

(* handlePaused(), the listener of "paused": a record read now is the one  *)
(* from before the pause.                                                  *)
HandlePaused(p, hint) ==
    IF disk.status # "absent" /\ ~disk.autoResume
    THEN UNCHANGED <<entry, timers, owed>>
    ELSE Arm(p, PriorAttempts(p) + 1, IF hint = NoHint THEN disk.resetHint ELSE hint, 0)

-----------------------------------------------------------------------------
(* The manager's operations, each with what its events make the scheduler  *)
(* do.                                                                     *)

(* The process is between macrotasks: no microtask is queued.              *)
Free(p) == alive[p] /\ owed[p] = 0 /\ ~refused[p]

(* resume() finds no reason to return false.                               *)
Resumable(p) ==
    /\ runs[p] \notin {"running", "aborted"}
    /\ disk.status \notin {"absent", "completed", "aborted"}
    /\ holder = Off

(* The run starts executing in p, under the lease.                         *)
Execute(p, auto) ==
    /\ runs' = [runs EXCEPT ![p] = "running"]
    /\ holder' = p
    /\ disk' = Record("running", "none", NoHint, auto)

(* The run stops executing in p, or a run at rest there changes status.    *)
Settle(p, st, reason, hint) ==
    /\ runs' = [runs EXCEPT ![p] = st]
    /\ holder' = IF holder = p THEN Off ELSE holder
    /\ disk' = Record(st, reason, hint, disk.autoResume)

StartRun(p, auto) ==
    /\ Free(p)
    /\ launches = 0 /\ MaxLaunches > 0
    /\ launches' = 1
    /\ Execute(p, auto)
    /\ UNCHANGED <<alive, schedVars, histVars, downs>>

(* A user calls resume(); the scheduler does not listen to "resumed".      *)
UserResumes(p) ==
    /\ Free(p)
    /\ launches < MaxLaunches
    /\ Resumable(p)
    /\ launches' = launches + 1
    /\ autoResumes' = 0
    /\ Execute(p, disk.autoResume)
    /\ UNCHANGED <<alive, schedVars, pauseAge, allowed, downs>>

(* The run throws the provider's usage limit: paused, with the reason.     *)
HitsLimit(p, hint) ==
    /\ Free(p)
    /\ runs[p] = "running"
    /\ Settle(p, "paused", "usage_limit", hint)
    /\ HandlePaused(p, hint)
    /\ pauseAge' = 0
    /\ UNCHANGED <<alive, refused, autoResumes, allowed, launches, downs>>

(* Mutant: the scheduler does not hear of an aborted run's end.            *)
UserPausesUnheard(p) ==
    /\ Free(p)
    /\ runs[p] = "running"
    /\ Settle(p, "paused", "none", NoHint)
    /\ pauseAge' = 0
    /\ autoResumes' = 0
    /\ UNCHANGED <<alive, schedVars, allowed, launches, downs>>

(* pause(): the listener ignores a "paused" without the reason, but the    *)
(* aborted execution ends in executeRun's catch, which emits "error".      *)
UserPauses(p) ==
    /\ Free(p)
    /\ runs[p] = "running"
    /\ Settle(p, "paused", "none", NoHint)
    /\ Cleanup(p)
    /\ pauseAge' = 0
    /\ autoResumes' = 0
    /\ UNCHANGED <<alive, owed, refused, allowed, launches, downs>>

UserStops(p) ==
    /\ Free(p)
    /\ runs[p] \in {"running", "paused"}
    /\ Settle(p, "aborted", "none", NoHint)
    /\ Cleanup(p)
    /\ autoResumes' = 0
    /\ UNCHANGED <<alive, owed, refused, pauseAge, allowed, launches, downs>>

(* executeRun() leaves with "complete", or with "error" for a failure.     *)
RunEnds(p, st) ==
    /\ Free(p)
    /\ runs[p] = "running"
    /\ st \in {"completed", "failed"}
    /\ Settle(p, st, "none", NoHint)
    /\ Cleanup(p)
    /\ UNCHANGED <<alive, owed, refused, histVars, launches, downs>>

(* deleteRun() of a run nobody executes; it emits nothing.                 *)
DeleteRun(p) ==
    /\ Free(p)
    /\ disk.status # "absent"
    /\ holder = Off
    /\ runs' = [runs EXCEPT ![p] = "none"]
    /\ disk' = NoRecord
    /\ UNCHANGED <<alive, holder, schedVars, histVars, launches, downs>>

-----------------------------------------------------------------------------
(* Microtasks and timers.                                                  *)

(* persistAttempts(): the record as it is now, with the counter; save()    *)
(* stamps it.                                                              *)
SaveAttempts(p) ==
    /\ alive[p]
    /\ owed[p] > 0
    /\ owed' = [owed EXCEPT ![p] = 0]
    /\ disk' = IF disk.status = "absent" THEN disk
               ELSE [disk EXCEPT !.attempts = owed[p], !.age = 0]
    /\ UNCHANGED <<alive, runs, holder, entry, timers, refused, histVars, launches, downs>>

(* onTimerFire() up to the answer of resume(); without an entry to serve   *)
(* it returns at once.                                                     *)
TimerFires(p, h) ==
    /\ Free(p)
    /\ timers[p][h] = 0
    /\ timers' = [timers EXCEPT ![p][h] = Off]
    /\ IF entry[p].attempts = 0 \/ entry[p].gaveUp
       THEN UNCHANGED <<runs, holder, disk, entry, refused, autoResumes>>
       ELSE /\ entry' = [entry EXCEPT ![p].timer = Off]
            /\ \/ /\ Resumable(p)
                  /\ Execute(p, disk.autoResume)
                  /\ autoResumes' = autoResumes + 1
                  /\ UNCHANGED refused
               \/ /\ ~Resumable(p)
                  /\ refused' = [refused EXCEPT ![p] = TRUE]
                  /\ UNCHANGED <<runs, holder, disk, autoResumes>>
    /\ UNCHANGED <<alive, owed, pauseAge, allowed, launches, downs>>

(* ... and what follows a refusal: forget a run that is over, else ask     *)
(* again soon without counting an attempt.                                 *)
AfterRefusal(p) ==
    /\ alive[p]
    /\ refused[p]
    /\ refused' = [refused EXCEPT ![p] = FALSE]
    /\ IF disk.status \in {"absent", "completed", "aborted"}
       THEN Cleanup(p)
       ELSE SetTimer(p, timers[p], entry[p].attempts, MinDelay)
    /\ UNCHANGED <<alive, runs, holder, disk, owed, histVars, launches, downs>>

(* Time passes between macrotasks: what a process has begun takes none.    *)
Tick ==
    LET Older(t) == Least(t + 1, Horizon) IN
    /\ \A p \in Procs : owed[p] = 0 /\ ~refused[p]
    /\ timers' = [p \in Procs |-> [h \in Handles |->
                     IF timers[p][h] \in {Off, 0} THEN timers[p][h] ELSE timers[p][h] - 1]]
    /\ disk' = [disk EXCEPT !.age = Older(@)]
    /\ pauseAge' = Older(pauseAge)
    /\ UNCHANGED <<alive, runs, holder, entry, owed, refused, autoResumes, allowed,
                   launches, downs>>

-----------------------------------------------------------------------------
(* Death and start of a process.                                           *)

Down(p) ==
    /\ alive[p]
    /\ downs < MaxDowns
    /\ downs' = downs + 1
    /\ alive' = [alive EXCEPT ![p] = FALSE]
    /\ runs' = [runs EXCEPT ![p] = "none"]
    /\ holder' = IF holder = p THEN Off ELSE holder
    /\ entry' = [entry EXCEPT ![p] = NoEntry]
    /\ timers' = [timers EXCEPT ![p] = AllOff]
    /\ owed' = [owed EXCEPT ![p] = 0]
    /\ refused' = [refused EXCEPT ![p] = FALSE]
    /\ UNCHANGED <<disk, pauseAge, autoResumes, launches>>

(* The session shuts down (dispose()) or the process dies between two      *)
(* macrotasks.                                                             *)
ShutDown(p) == Free(p) /\ Down(p) /\ UNCHANGED allowed

(* The process dies before the microtask that saves the attempts.          *)
Killed(p) == owed[p] > 0 /\ Down(p) /\ allowed' = allowed + MaxAttempts

(* recoverStaleRuns() as the manager is constructed.                       *)
Recovered == IF disk.status = "running" /\ holder = Off
             THEN [disk EXCEPT !.status = "paused", !.age = 0]
             ELSE disk

(* Mutant: runs that were paused before the process started are left out.  *)
RestartWithoutRearm(p) ==
    /\ ~alive[p]
    /\ alive' = [alive EXCEPT ![p] = TRUE]
    /\ disk' = Recovered
    /\ UNCHANGED <<runs, holder, schedVars, histVars, launches, downs>>

(* The constructors of the manager and of the scheduler: coldStartRearm()  *)
(* arms for a run found paused on a usage limit.                           *)
Restart(p) ==
    /\ ~alive[p]
    /\ alive' = [alive EXCEPT ![p] = TRUE]
    /\ disk' = Recovered
    /\ IF disk'.status = "paused" /\ disk'.pauseReason = "usage_limit" /\ disk'.autoResume
       THEN Arm(p, disk'.attempts + 1, disk'.resetHint, disk'.age)
       ELSE UNCHANGED <<entry, timers, owed>>
    /\ UNCHANGED <<runs, holder, refused, histVars, launches, downs>>

-----------------------------------------------------------------------------
ManagerStep(p) == \/ \E auto \in BOOLEAN : StartRun(p, auto)
                  \/ UserResumes(p) \/ UserPauses(p) \/ UserStops(p) \/ DeleteRun(p)
                  \/ \E hint \in Hints \cup {NoHint} : HitsLimit(p, hint)
                  \/ \E st \in {"completed", "failed"} : RunEnds(p, st)
TimerStep(p)   == \E h \in Handles : TimerFires(p, h)
ProcessStep(p) == ShutDown(p) \/ Killed(p) \/ Restart(p)

Next == \/ \E p \in Procs : \/ ManagerStep(p) \/ SaveAttempts(p) \/ TimerStep(p)
                            \/ AfterRefusal(p) \/ ProcessStep(p)
        \/ Tick

Spec == Init /\ [][Next]_vars

(* Time passes, the event loop of a live process runs what is due, and pi  *)
(* is opened again after it went down.                                     *)
Fairness == /\ WF_vars(Tick)
            /\ \A p \in Procs : /\ WF_vars(SaveAttempts(p)) /\ WF_vars(TimerStep(p))
                                /\ WF_vars(AfterRefusal(p)) /\ WF_vars(Restart(p))

FairSpec == Spec /\ Fairness

-----------------------------------------------------------------------------
Eligible == disk.status = "paused" /\ disk.pauseReason = "usage_limit" /\ disk.autoResume

(* A timer only ever resumes a run that is paused on a usage limit and has *)
(* not opted out: never one a user paused meanwhile, and never one that    *)
(* failed (the module comment: "auto-resume for runs paused on a provider  *)
(* usage limit").                                                          *)
OnlyEligibleResumed ==
    [][autoResumes' = autoResumes + 1 => Eligible]_vars

(* Every live timer is the one its process's entry names, and no timer is  *)
(* live for a run the scheduler forgot or gave up on: arm(), cleanup() and *)
(* the retry never leave a timer behind that would fire early or twice.    *)
TimersAccounted ==
    \A p \in Procs, h \in Handles : timers[p][h] # Off =>
        entry[p].timer = h /\ entry[p].attempts > 0 /\ ~entry[p].gaveUp

(* No run is resumed by timers more often than the attempt cap allows      *)
(* before a user takes over; a counter lost because the process died       *)
(* before saving it grants one more series.                                *)
AttemptsCapped == autoResumes <= allowed

(* No resume comes before the reset the provider announced, counted from   *)
(* the pause, whatever restarts and manual resumes happened since.         *)
EarliestResume(hint) == Least(MaxDelay, Greatest(MinDelay, Base(hint)))

NotBeforeReset ==
    [][autoResumes' = autoResumes + 1 => pauseAge >= EarliestResume(disk.resetHint)]_vars

(* An eligible paused run does not stay so for ever: it is resumed, or the *)
(* scheduler gives it up, or a user disposes of it.                        *)
EventuallyServed ==
    Eligible ~> (~Eligible \/ \E p \in Procs : entry[p].gaveUp)

(* The delay of a cold start counts from the pause: updatedAt is the time  *)
(* of the pause ("milliseconds already elapsed since the pause began").    *)
ClockKept == Eligible => disk.age = pauseAge
=============================================================================
