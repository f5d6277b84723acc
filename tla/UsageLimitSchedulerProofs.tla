--------------------- MODULE UsageLimitSchedulerProofs ---------------------
(***************************************************************************)
(* Type correctness and timer accounting of UsageLimitScheduler for any    *)
(* processes and options; and, for a project opened by one process, that   *)
(* only eligible runs are resumed, no more often than the cap allows and   *)
(* never before the announced reset.                                       *)
(***************************************************************************)
EXTENDS UsageLimitScheduler, TLAPS

USE OffAssumption, HintAssumption, DelayAssumption, BoundAssumption

-----------------------------------------------------------------------------
(* Delays.                                                                 *)

LEMMA DelayType ==
    ASSUME NEW hint \in Hints \cup {NoHint}, NEW n \in Nat, NEW elapsed \in Nat
    PROVE  /\ Base(hint) \in 0 .. Horizon
           /\ Delay(hint, n, elapsed) \in 0 .. MaxDelay
           /\ Delay(hint, n, elapsed) + elapsed >= EarliestResume(hint)
<1> DEFINE exponent == Least(Greatest(n - 1, 0), 30)
           remaining == Base(hint) - elapsed
           backoff == remaining * Backoff[exponent]
<1>1. Base(hint) \in 0 .. Horizon
  BY DEF Base
<1>2. exponent \in 0 .. 30
  BY DEF Least, Greatest
<1>3. Backoff[exponent] \in Nat \ {0}
  BY <1>2
<1>4. remaining \in Int
  BY <1>1
<1>5. backoff \in Int
  BY <1>3, <1>4
<1>6. backoff >= remaining \/ remaining < 0
  BY <1>3, <1>4
<1>7. Delay(hint, n, elapsed) = Least(MaxDelay, Greatest(MinDelay, backoff))
  BY DEF Delay
<1> HIDE DEF backoff, exponent
<1>8. Delay(hint, n, elapsed) \in 0 .. MaxDelay
  BY <1>5, <1>7 DEF Least, Greatest
<1>9. Delay(hint, n, elapsed) + elapsed >= EarliestResume(hint)
  BY <1>1, <1>5, <1>6, <1>7 DEF Least, Greatest, EarliestResume
<1> QED
  BY <1>1, <1>8, <1>9

-----------------------------------------------------------------------------
(* What the scheduler's functions do to an entry and its timers.           *)

TimerSet == [Handles -> 0 .. MaxDelay \cup {Off}]

LEMMA ClearType ==
    ASSUME NEW ts \in TimerSet, NEW h PROVE Clear(ts, h) \in TimerSet
BY DEF Clear, TimerSet

(* The entry e and the timers ts of a process agree.                       *)
Accounted(e, ts) ==
    \A h \in Handles : ts[h] # Off => e.timer = h /\ e.attempts > 0 /\ ~e.gaveUp

Quiet(ts) == \A h \in Handles : ts[h] = Off

(* e and ts after arm() for attempt n, with delay d where it sets a timer. *)
Armed(e, ts, n, d) ==
    /\ e \in RunState /\ ts \in TimerSet
    /\ e.attempts = n /\ (~e.gaveUp => n <= MaxAttempts)
    /\ Accounted(e, ts)
    /\ \A h \in Handles : ts[h] # Off => n <= MaxAttempts /\ ts[h] = d

LEMMA SetTimerEffect ==
    ASSUME TypeOK, NEW p \in Procs, NEW ts \in TimerSet, NEW n \in Nat \ {0},
           NEW d \in 0 .. MaxDelay, Quiet(ts), SetTimer(p, ts, n, d), n <= MaxAttempts
    PROVE  \E e, us : /\ Armed(e, us, n, d)
                      /\ entry' = [entry EXCEPT ![p] = e]
                      /\ timers' = [timers EXCEPT ![p] = us]
<1>1. PICK h \in Handles : /\ timers' = [timers EXCEPT ![p] = [ts EXCEPT ![h] = d]]
                           /\ entry' = [entry EXCEPT ![p] =
                                 [attempts |-> n, timer |-> h, gaveUp |-> FALSE]]
  BY DEF SetTimer
<1> DEFINE e == [attempts |-> n, timer |-> h, gaveUp |-> FALSE]
           us == [ts EXCEPT ![h] = d]
<1>2. us \in TimerSet /\ \A x \in Handles : us[x] # Off => x = h /\ us[x] = d
  BY DEF TimerSet, Quiet
<1>3. Armed(e, us, n, d)
  BY <1>2 DEF Armed, Accounted, RunState
<1> QED
  BY <1>1, <1>3

LEMMA ArmEffect ==
    ASSUME TypeOK, NEW p \in Procs, Accounted(entry[p], timers[p]),
           NEW n \in Nat \ {0}, NEW hint \in Hints \cup {NoHint}, NEW elapsed \in Nat,
           Arm(p, n, hint, elapsed)
    PROVE  \E e, ts : /\ Armed(e, ts, n, Delay(hint, n, elapsed))
                      /\ entry' = [entry EXCEPT ![p] = e]
                      /\ timers' = [timers EXCEPT ![p] = ts]
<1> DEFINE cleared == Clear(timers[p], entry[p].timer)
<1>1. timers[p] \in TimerSet
  BY DEF TypeOK, TimerSet
<1>2. cleared \in TimerSet
  BY <1>1, ClearType
<1>3. Quiet(cleared)
  BY <1>1 DEF Quiet, Clear, Accounted, TimerSet
<1>4. CASE n > MaxAttempts
  <2> DEFINE e == [attempts |-> n, timer |-> Off, gaveUp |-> TRUE]
  <2>1. /\ entry' = [entry EXCEPT ![p] = e]
        /\ timers' = [timers EXCEPT ![p] = cleared]
    BY <1>4 DEF Arm
  <2>2. Armed(e, cleared, n, Delay(hint, n, elapsed))
    BY <1>2, <1>3 DEF Armed, Accounted, Quiet, RunState
  <2> QED
    BY <2>1, <2>2
<1>5. CASE n <= MaxAttempts
  <2>1. SetTimer(p, cleared, n, Delay(hint, n, elapsed))
    BY <1>5 DEF Arm
  <2>2. Delay(hint, n, elapsed) \in 0 .. MaxDelay
    BY DelayType
  <2> QED
    BY <1>2, <1>3, <1>5, <2>1, <2>2, SetTimerEffect
<1> QED
  BY <1>4, <1>5

LEMMA CleanupEffect ==
    ASSUME TypeOK, NEW p \in Procs, Accounted(entry[p], timers[p]), Cleanup(p)
    PROVE  \E ts : /\ ts \in TimerSet /\ Quiet(ts)
                   /\ entry' = [entry EXCEPT ![p] = NoEntry]
                   /\ timers' = [timers EXCEPT ![p] = ts]
<1> DEFINE cleared == Clear(timers[p], entry[p].timer)
<1>1. timers[p] \in TimerSet
  BY DEF TypeOK, TimerSet
<1>2. cleared \in TimerSet /\ Quiet(cleared)
  BY <1>1, ClearType DEF Quiet, Clear, Accounted, TimerSet
<1> QED
  BY <1>2 DEF Cleanup

-----------------------------------------------------------------------------
(* Types, and the accounting of timers.                                    *)

Housekeeping ==
    \A p \in Procs :
        /\ Accounted(entry[p], timers[p])
        /\ entry[p].attempts > 0 /\ ~entry[p].gaveUp => entry[p].attempts <= MaxAttempts
        /\ refused[p] => /\ entry[p].timer = Off
                         /\ entry[p].attempts > 0 /\ ~entry[p].gaveUp
        /\ ~alive[p] => /\ entry[p] = NoEntry /\ owed[p] = 0 /\ ~refused[p]
                        /\ runs[p] = "none"

Sound == TypeOK /\ Housekeeping

LEMMA RecordType ==
    ASSUME NEW st \in RunStatus \cup {"absent"}, NEW reason \in {"none", "usage_limit"},
           NEW hint \in Hints \cup {NoHint}, NEW auto \in BOOLEAN
    PROVE  Record(st, reason, hint, auto) \in PersistedRunState
BY DEF Record, PersistedRunState

LEMMA SoundInit == Init => Sound
<1> SUFFICES ASSUME Init PROVE Sound
  OBVIOUS
<1>1. NoRecord \in PersistedRunState
  BY RecordType DEF NoRecord
<1>2. TypeOK
  BY <1>1 DEF Init, TypeOK, AllOff, NoEntry, RunState, RunStatus
<1>3. Housekeeping
  BY DEF Init, Housekeeping, Accounted, AllOff, NoEntry
<1> QED
  BY <1>2, <1>3 DEF Sound

(* A step that changes only p's entry and timers, the ones as after arm(), *)
(* and possibly what p owes.                                               *)
LEMMA ArmKeepsHouse ==
    ASSUME Housekeeping, TypeOK, NEW p \in Procs, NEW n \in Nat \ {0}, NEW d, NEW e, NEW ts,
           Armed(e, ts, n, d),
           entry' = [entry EXCEPT ![p] = e], timers' = [timers EXCEPT ![p] = ts],
           refused' \in [Procs -> BOOLEAN], alive' \in [Procs -> BOOLEAN],
           ~refused'[p], alive'[p],
           \A q \in Procs \ {p} : /\ refused'[q] = refused[q] /\ alive'[q] = alive[q]
                                  /\ runs'[q] = runs[q] /\ owed'[q] = owed[q]
    PROVE  Housekeeping'
<1> SUFFICES ASSUME NEW q \in Procs
             PROVE  /\ Accounted(entry[q], timers[q])'
                    /\ (entry[q].attempts > 0 /\ ~entry[q].gaveUp
                           => entry[q].attempts <= MaxAttempts)'
                    /\ (refused[q] => /\ entry[q].timer = Off
                                      /\ entry[q].attempts > 0 /\ ~entry[q].gaveUp)'
                    /\ (~alive[q] => /\ entry[q] = NoEntry /\ owed[q] = 0 /\ ~refused[q]
                                     /\ runs[q] = "none")'
  BY DEF Housekeeping
<1>1. CASE q = p
  BY <1>1 DEF Armed, TypeOK, Accounted
<1>2. CASE q # p
  BY <1>2 DEF Housekeeping, TypeOK, Accounted
<1> QED
  BY <1>1, <1>2

(* ... or as after cleanup().                                              *)
LEMMA CleanupKeepsHouse ==
    ASSUME Housekeeping, TypeOK, NEW p \in Procs, NEW ts, Quiet(ts),
           entry' = [entry EXCEPT ![p] = NoEntry], timers' = [timers EXCEPT ![p] = ts],
           refused' \in [Procs -> BOOLEAN], alive' \in [Procs -> BOOLEAN],
           ~refused'[p], ~alive'[p] => owed'[p] = 0 /\ runs'[p] = "none",
           \A q \in Procs \ {p} : /\ refused'[q] = refused[q] /\ alive'[q] = alive[q]
                                  /\ runs'[q] = runs[q] /\ owed'[q] = owed[q]
    PROVE  Housekeeping'
<1> SUFFICES ASSUME NEW q \in Procs
             PROVE  /\ Accounted(entry[q], timers[q])'
                    /\ (entry[q].attempts > 0 /\ ~entry[q].gaveUp
                           => entry[q].attempts <= MaxAttempts)'
                    /\ (refused[q] => /\ entry[q].timer = Off
                                      /\ entry[q].attempts > 0 /\ ~entry[q].gaveUp)'
                    /\ (~alive[q] => /\ entry[q] = NoEntry /\ owed[q] = 0 /\ ~refused[q]
                                     /\ runs[q] = "none")'
  BY DEF Housekeeping
<1>1. CASE q = p
  BY <1>1 DEF Quiet, TypeOK, Accounted, NoEntry
<1>2. CASE q # p
  BY <1>2 DEF Housekeeping, TypeOK, Accounted
<1> QED
  BY <1>1, <1>2

(* ... or a step that leaves the scheduler alone, in a live process.       *)
LEMMA OthersKeepHouse ==
    ASSUME Housekeeping, TypeOK, UNCHANGED <<entry, timers, refused, alive>>, NEW p \in Procs,
           alive[p],
           \A q \in Procs \ {p} : runs'[q] = runs[q] /\ owed'[q] = owed[q]
    PROVE  Housekeeping'
BY DEF Housekeeping, TypeOK, Accounted

LEMMA ExecuteType ==
    ASSUME TypeOK, NEW p \in Procs, NEW auto \in BOOLEAN, Execute(p, auto)
    PROVE  /\ runs' \in [Procs -> RunStatus \cup {"none"}]
           /\ holder' \in Procs \cup {Off}
           /\ disk' \in PersistedRunState
<1>1. disk' \in PersistedRunState
  BY RecordType DEF Execute, RunStatus
<1> QED
  BY <1>1 DEF Execute, TypeOK, RunStatus

LEMMA SettleType ==
    ASSUME TypeOK, NEW p \in Procs, NEW st \in RunStatus, NEW reason \in {"none", "usage_limit"},
           NEW hint \in Hints \cup {NoHint}, Settle(p, st, reason, hint)
    PROVE  /\ runs' \in [Procs -> RunStatus \cup {"none"}]
           /\ holder' \in Procs \cup {Off}
           /\ disk' \in PersistedRunState
<1>1. disk.autoResume \in BOOLEAN
  BY DEF TypeOK, PersistedRunState
<1>2. disk' \in PersistedRunState
  BY <1>1, RecordType DEF Settle
<1> QED
  BY <1>2 DEF Settle, TypeOK, RunStatus

LEMMA DiskType ==
    ASSUME TypeOK
    PROVE  /\ disk.status \in RunStatus \cup {"absent"}
           /\ disk.pauseReason \in {"none", "usage_limit"}
           /\ disk.resetHint \in Hints \cup {NoHint}
           /\ disk.autoResume \in BOOLEAN
           /\ disk.attempts \in Nat /\ disk.age \in 0 .. Horizon
BY DEF TypeOK, PersistedRunState

LEMMA EntryType ==
    ASSUME TypeOK, NEW p \in Procs
    PROVE  /\ entry[p].attempts \in Nat /\ entry[p].gaveUp \in BOOLEAN
           /\ entry[p].timer \in Handles \cup {Off}
           /\ timers[p] \in TimerSet
           /\ PriorAttempts(p) \in Nat
BY DEF TypeOK, RunState, TimerSet, PriorAttempts, PersistedRunState

(* A record some of whose fields are replaced.                             *)
LEMMA UpdateType ==
    ASSUME NEW r \in PersistedRunState, NEW st \in RunStatus, NEW n \in Nat,
           NEW age \in 0 .. Horizon
    PROVE  /\ [r EXCEPT !.attempts = n, !.age = age] \in PersistedRunState
           /\ [r EXCEPT !.status = st, !.age = age] \in PersistedRunState
BY DEF PersistedRunState

LEMMA AgeType ==
    ASSUME NEW r \in PersistedRunState, NEW age \in 0 .. Horizon
    PROVE  [r EXCEPT !.age = age] \in PersistedRunState
BY DEF PersistedRunState

LEMMA EntryUpdateType ==
    ASSUME NEW e \in RunState
    PROVE  /\ [e EXCEPT !.timer = Off] \in RunState
           /\ [e EXCEPT !.timer = Off].timer = Off
           /\ [e EXCEPT !.timer = Off].attempts = e.attempts
           /\ [e EXCEPT !.timer = Off].gaveUp = e.gaveUp
BY DEF RunState

LEMMA StartRunSound ==
    ASSUME Sound, NEW p \in Procs, NEW auto \in BOOLEAN, StartRun(p, auto) PROVE Sound'
<1>1. TypeOK'
  BY ExecuteType DEF Sound, StartRun, TypeOK, schedVars, histVars
<1>2. Housekeeping'
  BY OthersKeepHouse DEF Sound, StartRun, Execute, Free, schedVars, TypeOK
<1> QED
  BY <1>1, <1>2 DEF Sound

LEMMA UserResumesSound ==
    ASSUME Sound, NEW p \in Procs, UserResumes(p) PROVE Sound'
<1>1. TypeOK'
  <2>1. disk.autoResume \in BOOLEAN
    BY DiskType DEF Sound
  <2> QED
    BY <2>1, ExecuteType DEF Sound, UserResumes, TypeOK, schedVars
<1>2. Housekeeping'
  BY OthersKeepHouse DEF Sound, UserResumes, Execute, Free, schedVars, TypeOK
<1> QED
  BY <1>1, <1>2 DEF Sound

LEMMA HitsLimitSound ==
    ASSUME Sound, NEW p \in Procs, NEW hint \in Hints \cup {NoHint}, HitsLimit(p, hint)
    PROVE  Sound'
<1>1. /\ runs' \in [Procs -> RunStatus \cup {"none"}]
      /\ holder' \in Procs \cup {Off}
      /\ disk' \in PersistedRunState
  BY SettleType DEF Sound, HitsLimit, RunStatus
<1>2. CASE UNCHANGED <<entry, timers, owed>>
  <2>1. TypeOK'
    BY <1>1, <1>2 DEF Sound, HitsLimit, TypeOK
  <2>2. Housekeeping'
    BY <1>2, OthersKeepHouse DEF Sound, HitsLimit, Settle, Free, TypeOK
  <2> QED
    BY <2>1, <2>2 DEF Sound
<1>3. CASE Arm(p, PriorAttempts(p) + 1, IF hint = NoHint THEN disk.resetHint ELSE hint, 0)
  <2> DEFINE n == PriorAttempts(p) + 1
             heard == IF hint = NoHint THEN disk.resetHint ELSE hint
  <2>1. n \in Nat \ {0} /\ heard \in Hints \cup {NoHint}
    BY EntryType, DiskType DEF Sound
  <2> HIDE DEF n, heard
  <2>2. Arm(p, n, heard, 0)
    BY <1>3 DEF n, heard
  <2>3. PICK e, ts : /\ Armed(e, ts, n, Delay(heard, n, 0))
                     /\ entry' = [entry EXCEPT ![p] = e]
                     /\ timers' = [timers EXCEPT ![p] = ts]
    BY <2>1, <2>2, ArmEffect DEF Sound, Housekeeping
  <2>4. owed' = [owed EXCEPT ![p] = n]
    BY <2>2 DEF Arm
  <2>5. TypeOK'
    BY <1>1, <2>1, <2>3, <2>4 DEF Sound, HitsLimit, TypeOK, Armed, TimerSet
  <2>6. Housekeeping'
    BY <2>1, <2>3, <2>4, ArmKeepsHouse DEF Sound, HitsLimit, Settle, Free, TypeOK
  <2> QED
    BY <2>5, <2>6 DEF Sound
<1> QED
  BY <1>2, <1>3 DEF HitsLimit, HandlePaused

(* The manager operations that end with cleanup().                         *)
LEMMA CleanupSound ==
    ASSUME Sound, NEW p \in Procs, Free(p), Cleanup(p),
           NEW st \in RunStatus, Settle(p, st, "none", NoHint),
           UNCHANGED <<alive, owed, refused, allowed, launches, downs>>,
           pauseAge' \in 0 .. Horizon, autoResumes' \in Nat
    PROVE  Sound'
<1>1. PICK ts : /\ ts \in TimerSet /\ Quiet(ts)
                /\ entry' = [entry EXCEPT ![p] = NoEntry]
                /\ timers' = [timers EXCEPT ![p] = ts]
  BY CleanupEffect DEF Sound, Housekeeping
<1>2. TypeOK'
  BY <1>1, SettleType DEF Sound, TypeOK, TimerSet, NoEntry, RunState
<1>3. Housekeeping'
  BY <1>1, CleanupKeepsHouse DEF Sound, Settle, Free, TypeOK
<1> QED
  BY <1>2, <1>3 DEF Sound

LEMMA DeleteRunSound ==
    ASSUME Sound, NEW p \in Procs, DeleteRun(p) PROVE Sound'
<1>1. NoRecord \in PersistedRunState
  BY RecordType DEF NoRecord
<1>2. TypeOK'
  BY <1>1 DEF Sound, DeleteRun, TypeOK, schedVars, histVars
<1>3. Housekeeping'
  BY OthersKeepHouse DEF Sound, DeleteRun, Free, schedVars, TypeOK
<1> QED
  BY <1>2, <1>3 DEF Sound

LEMMA ManagerStepSound ==
    ASSUME Sound, NEW p \in Procs, ManagerStep(p) PROVE Sound'
<1>0. pauseAge \in 0 .. Horizon /\ autoResumes \in Nat /\ 0 \in 0 .. Horizon
  BY DEF Sound, TypeOK
<1>1. ASSUME NEW auto \in BOOLEAN, StartRun(p, auto) PROVE Sound'
  BY <1>1, StartRunSound
<1>2. CASE UserResumes(p)
  BY <1>2, UserResumesSound
<1>3. CASE UserPauses(p)
  BY <1>0, <1>3, CleanupSound DEF UserPauses, RunStatus
<1>4. CASE UserStops(p)
  BY <1>0, <1>4, CleanupSound DEF UserStops, RunStatus
<1>5. CASE DeleteRun(p)
  BY <1>5, DeleteRunSound
<1>6. ASSUME NEW hint \in Hints \cup {NoHint}, HitsLimit(p, hint) PROVE Sound'
  BY <1>6, HitsLimitSound
<1>7. ASSUME NEW st \in {"completed", "failed"}, RunEnds(p, st) PROVE Sound'
  BY <1>0, <1>7, CleanupSound DEF RunEnds, RunStatus, histVars
<1> QED
  BY <1>1, <1>2, <1>3, <1>4, <1>5, <1>6, <1>7 DEF ManagerStep

LEMMA SaveAttemptsSound ==
    ASSUME Sound, NEW p \in Procs, SaveAttempts(p) PROVE Sound'
<1>1. disk' \in PersistedRunState
  <2>1. disk \in PersistedRunState /\ owed[p] \in Nat /\ 0 \in 0 .. Horizon
    BY DEF Sound, TypeOK
  <2> QED
    BY <2>1, UpdateType DEF SaveAttempts, RunStatus
<1>2. TypeOK'
  BY <1>1 DEF Sound, SaveAttempts, TypeOK, histVars
<1>3. Housekeeping'
  BY OthersKeepHouse DEF Sound, SaveAttempts, TypeOK
<1> QED
  BY <1>2, <1>3 DEF Sound

LEMMA TimerFiresSound ==
    ASSUME Sound, NEW p \in Procs, NEW h \in Handles, TimerFires(p, h) PROVE Sound'
<1>1. /\ entry[p].timer = h /\ entry[p].attempts > 0 /\ ~entry[p].gaveUp
      /\ entry[p].attempts <= MaxAttempts
      /\ \A x \in Handles : x # h => timers[p][x] = Off
  BY DEF Sound, Housekeeping, TimerFires, Accounted
<1>2. /\ timers' = [timers EXCEPT ![p][h] = Off]
      /\ entry' = [entry EXCEPT ![p].timer = Off]
      /\ UNCHANGED <<alive, owed, pauseAge, allowed, launches, downs>>
  BY <1>1 DEF TimerFires
<1>3. disk.autoResume \in BOOLEAN
  BY DiskType DEF Sound
<1>4. \/ /\ Execute(p, disk.autoResume)
         /\ autoResumes' = autoResumes + 1 /\ refused' = refused
      \/ /\ refused' = [refused EXCEPT ![p] = TRUE]
         /\ UNCHANGED <<runs, holder, disk, autoResumes>>
  BY <1>1 DEF TimerFires
<1>5. /\ runs' \in [Procs -> RunStatus \cup {"none"}]
      /\ holder' \in Procs \cup {Off}
      /\ disk' \in PersistedRunState
      /\ refused' \in [Procs -> BOOLEAN]
      /\ autoResumes' \in Nat
  <2>1. CASE Execute(p, disk.autoResume) /\ autoResumes' = autoResumes + 1 /\ refused' = refused
    BY <1>3, <2>1, ExecuteType DEF Sound, TypeOK
  <2>2. CASE /\ refused' = [refused EXCEPT ![p] = TRUE]
             /\ UNCHANGED <<runs, holder, disk, autoResumes>>
    BY <2>2 DEF Sound, TypeOK
  <2> QED
    BY <1>4, <2>1, <2>2
<1>6. /\ entry' \in [Procs -> RunState]
      /\ timers' \in [Procs -> [Handles -> 0 .. MaxDelay \cup {Off}]]
  <2>1. entry[p] \in RunState
    BY DEF Sound, TypeOK
  <2> QED
    BY <1>2, <2>1, EntryUpdateType DEF Sound, TypeOK
<1>7. TypeOK'
  BY <1>2, <1>5, <1>6 DEF Sound, TypeOK
<1>8. \A q \in Procs \ {p} : refused'[q] = refused[q] /\ runs'[q] = runs[q]
  BY <1>4 DEF Execute, Sound, TypeOK
<1>9. Housekeeping'
  <2> SUFFICES ASSUME NEW q \in Procs
               PROVE  /\ Accounted(entry[q], timers[q])'
                      /\ (entry[q].attempts > 0 /\ ~entry[q].gaveUp
                             => entry[q].attempts <= MaxAttempts)'
                      /\ (refused[q] => /\ entry[q].timer = Off
                                        /\ entry[q].attempts > 0 /\ ~entry[q].gaveUp)'
                      /\ (~alive[q] => /\ entry[q] = NoEntry /\ owed[q] = 0 /\ ~refused[q]
                                       /\ runs[q] = "none")'
    BY DEF Housekeeping
  <2>1. CASE q = p
    <3>1. /\ entry'[p].timer = Off /\ entry'[p].attempts = entry[p].attempts
          /\ entry'[p].gaveUp = entry[p].gaveUp
      BY <1>2, EntryUpdateType DEF Sound, TypeOK
    <3>2. Quiet(timers'[p])
      BY <1>1, <1>2 DEF Quiet, Sound, TypeOK
    <3>3. alive'[p]
      BY <1>2 DEF TimerFires, Free
    <3> QED
      BY <1>1, <2>1, <3>1, <3>2, <3>3 DEF Accounted, Quiet
  <2>2. CASE q # p
    BY <1>2, <1>8, <2>2 DEF Sound, TypeOK, Housekeeping, Accounted
  <2> QED
    BY <2>1, <2>2
<1> QED
  BY <1>7, <1>9 DEF Sound

LEMMA AfterRefusalSound ==
    ASSUME Sound, NEW p \in Procs, AfterRefusal(p) PROVE Sound'
<1>1. /\ entry[p].timer = Off /\ entry[p].attempts \in Nat \ {0} /\ ~entry[p].gaveUp
      /\ entry[p].attempts <= MaxAttempts /\ alive[p]
  BY EntryType DEF Sound, Housekeeping, AfterRefusal
<1>2. Quiet(timers[p]) /\ timers[p] \in TimerSet
  BY <1>1, EntryType DEF Sound, Housekeeping, Accounted, Quiet
<1>3. CASE Cleanup(p)
  <2>1. PICK ts : /\ ts \in TimerSet /\ Quiet(ts)
                  /\ entry' = [entry EXCEPT ![p] = NoEntry]
                  /\ timers' = [timers EXCEPT ![p] = ts]
    BY <1>3, CleanupEffect DEF Sound, Housekeeping
  <2>2. TypeOK'
    BY <2>1 DEF Sound, AfterRefusal, TypeOK, TimerSet, NoEntry, RunState, histVars
  <2>3. Housekeeping'
    BY <2>1, CleanupKeepsHouse DEF Sound, AfterRefusal, TypeOK
  <2> QED
    BY <2>2, <2>3 DEF Sound
<1>4. CASE SetTimer(p, timers[p], entry[p].attempts, MinDelay)
  <2>1. PICK e, ts : /\ Armed(e, ts, entry[p].attempts, MinDelay)
                     /\ entry' = [entry EXCEPT ![p] = e]
                     /\ timers' = [timers EXCEPT ![p] = ts]
    BY <1>1, <1>2, <1>4, SetTimerEffect DEF Sound
  <2>2. TypeOK'
    BY <2>1 DEF Sound, AfterRefusal, TypeOK, Armed, TimerSet, histVars
  <2>3. Housekeeping'
    BY <1>1, <2>1, ArmKeepsHouse DEF Sound, AfterRefusal, TypeOK
  <2> QED
    BY <2>2, <2>3 DEF Sound
<1> QED
  BY <1>3, <1>4 DEF AfterRefusal

LEMMA TickSound == ASSUME Sound, Tick PROVE Sound'
<1> DEFINE Older(t) == Least(t + 1, Horizon)
<1>1. \A t \in 0 .. Horizon : Older(t) \in 0 .. Horizon
  BY DEF Least
<1>2. disk' = [disk EXCEPT !.age = Older(disk.age)] /\ pauseAge' = Older(pauseAge)
  BY DEF Tick
<1> HIDE DEF Older
<1>3. disk' \in PersistedRunState /\ pauseAge' \in 0 .. Horizon
  <2>1. disk.age \in 0 .. Horizon
    BY DiskType DEF Sound
  <2>2. disk \in PersistedRunState /\ pauseAge \in 0 .. Horizon
    BY DEF Sound, TypeOK
  <2>3. Older(disk.age) \in 0 .. Horizon /\ Older(pauseAge) \in 0 .. Horizon
    BY <1>1, <2>1, <2>2
  <2> QED
    BY <1>2, <2>2, <2>3, AgeType
<1>4. ASSUME NEW p \in Procs
      PROVE  /\ timers'[p] \in TimerSet
             /\ \A h \in Handles : timers'[p][h] # Off => timers[p][h] # Off
  <2>1. timers'[p] = [h \in Handles |->
            IF timers[p][h] \in {Off, 0} THEN timers[p][h] ELSE timers[p][h] - 1]
    BY DEF Tick
  <2>2. timers[p] \in TimerSet
    BY EntryType DEF Sound
  <2> QED
    BY <2>1, <2>2 DEF TimerSet
<1>5. timers' \in [Procs -> [Handles -> 0 .. MaxDelay \cup {Off}]]
  BY <1>4 DEF Tick, TimerSet
<1>6. TypeOK'
  BY <1>3, <1>5 DEF Sound, Tick, TypeOK
<1>7. Housekeeping'
  BY <1>4 DEF Sound, Tick, Housekeeping, Accounted
<1> QED
  BY <1>6, <1>7 DEF Sound

LEMMA DownSound ==
    ASSUME Sound, NEW p \in Procs, Down(p), allowed' \in Nat PROVE Sound'
<1>1. AllOff \in TimerSet /\ Quiet(AllOff) /\ NoEntry \in RunState
  BY DEF AllOff, TimerSet, Quiet, NoEntry, RunState
<1>2. TypeOK'
  BY <1>1 DEF Sound, Down, TypeOK, TimerSet
<1>3. Housekeeping'
  BY <1>1, CleanupKeepsHouse DEF Sound, Down, TypeOK
<1> QED
  BY <1>2, <1>3 DEF Sound

LEMMA RestartSound ==
    ASSUME Sound, NEW p \in Procs, Restart(p) PROVE Sound'
<1>1. disk' = Recovered /\ Recovered \in PersistedRunState
  <2>1. disk \in PersistedRunState /\ 0 \in 0 .. Horizon /\ "paused" \in RunStatus
    BY DEF Sound, TypeOK, RunStatus
  <2> QED
    BY <2>1, UpdateType DEF Restart, Recovered
<1>2. /\ entry[p] = NoEntry /\ ~refused[p] /\ alive' = [alive EXCEPT ![p] = TRUE]
      /\ UNCHANGED <<runs, holder, refused, histVars, launches, downs>>
  BY DEF Restart, Sound, Housekeeping
<1>3. CASE UNCHANGED <<entry, timers, owed>>
  <2>1. TypeOK'
    BY <1>1, <1>2, <1>3 DEF Sound, TypeOK, histVars
  <2>2. Housekeeping'
    BY <1>2, <1>3 DEF Sound, Housekeeping, TypeOK, Accounted
  <2> QED
    BY <2>1, <2>2 DEF Sound
<1>4. CASE Arm(p, disk'.attempts + 1, disk'.resetHint, disk'.age)
  <2> DEFINE n == disk'.attempts + 1
             hint == disk'.resetHint
             elapsed == disk'.age
  <2>1. n \in Nat \ {0} /\ hint \in Hints \cup {NoHint} /\ elapsed \in Nat
    BY <1>1 DEF PersistedRunState
  <2>2. Arm(p, n, hint, elapsed)
    BY <1>4
  <2> HIDE DEF n, hint, elapsed
  <2>3. PICK e, ts : /\ Armed(e, ts, n, Delay(hint, n, elapsed))
                     /\ entry' = [entry EXCEPT ![p] = e]
                     /\ timers' = [timers EXCEPT ![p] = ts]
    BY <2>1, <2>2, ArmEffect DEF Sound, Housekeeping
  <2>4. owed' = [owed EXCEPT ![p] = n]
    BY <2>2 DEF Arm
  <2>5. TypeOK'
    BY <1>1, <1>2, <2>1, <2>3, <2>4 DEF Sound, TypeOK, Armed, TimerSet, histVars
  <2>6. Housekeeping'
    BY <1>2, <2>1, <2>3, <2>4, ArmKeepsHouse DEF Sound, TypeOK
  <2> QED
    BY <2>5, <2>6 DEF Sound
<1> QED
  BY <1>3, <1>4 DEF Restart

(* No step of any process breaks the types or the accounting.              *)
LEMMA SoundNext == Sound /\ [Next]_vars => Sound'
<1> SUFFICES ASSUME Sound, [Next]_vars PROVE Sound'
  OBVIOUS
<1>1. ASSUME NEW p \in Procs, ManagerStep(p) PROVE Sound'
  BY <1>1, ManagerStepSound
<1>2. ASSUME NEW p \in Procs, SaveAttempts(p) PROVE Sound'
  BY <1>2, SaveAttemptsSound
<1>3. ASSUME NEW p \in Procs, TimerStep(p) PROVE Sound'
  BY <1>3, TimerFiresSound DEF TimerStep
<1>4. ASSUME NEW p \in Procs, AfterRefusal(p) PROVE Sound'
  BY <1>4, AfterRefusalSound
<1>5. ASSUME NEW p \in Procs, ProcessStep(p) PROVE Sound'
  <2>1. allowed \in Nat /\ allowed + MaxAttempts \in Nat
    BY DEF Sound, TypeOK
  <2>2. CASE ShutDown(p)
    BY <2>1, <2>2, DownSound DEF ShutDown
  <2>3. CASE Killed(p)
    BY <2>1, <2>3, DownSound DEF Killed
  <2>4. CASE Restart(p)
    BY <2>4, RestartSound
  <2> QED
    BY <1>5, <2>2, <2>3, <2>4 DEF ProcessStep
<1>6. CASE Tick
  BY <1>6, TickSound
<1>7. CASE UNCHANGED vars
  BY <1>7 DEF Sound, TypeOK, Housekeeping, Accounted, vars, schedVars, histVars
<1> QED
  BY <1>1, <1>2, <1>3, <1>4, <1>5, <1>6, <1>7 DEF Next

(* The types and the housekeeping of timers and entries hold for any       *)
(* number of processes (usage-limit-scheduler.ts, arm and cleanup).        *)
THEOREM SchedulerSound == Spec => []Sound
BY SoundInit, SoundNext, PTL DEF Spec

(* Type correctness, for any number of processes and any options.          *)
THEOREM SchedulerTypeCorrect == Spec => []TypeOK
<1>1. Sound => TypeOK
  BY DEF Sound
<1> QED
  BY <1>1, SchedulerSound, PTL

(* No timer is leaked, doubled, or left to a run that was given up: the    *)
(* handle in the entry is the only live one, through every order of pause, *)
(* refusal, retry, cleanup and restart.                                    *)
THEOREM TimersAreAccounted == Spec => []TimersAccounted
<1>1. Sound => TimersAccounted
  BY DEF Sound, Housekeeping, Accounted, TimersAccounted
<1> QED
  BY <1>1, SchedulerSound, PTL

-----------------------------------------------------------------------------
(* One process has the project open.                                       *)

OneProcess == Procs # {} /\ \A p, q \in Procs : p = q

(* The record tells what the process does with the run.                    *)
RecordInv(p) ==
    /\ runs[p] = "running" => /\ holder = p /\ owed[p] = 0
                              /\ disk.status = "running"
                              /\ disk.resetHint = NoHint /\ disk.attempts = 0
    /\ runs[p] = "aborted" => disk.status = "aborted"
    /\ runs[p] # "none" => disk.status # "absent"
    /\ holder # Off => runs[p] = "running"
    /\ disk.status = "running" => disk.pauseReason = "none"
    /\ launches = 0 => disk.status = "absent"

(* A run that a timer will ask to resume is eligible, or was when the      *)
(* timer was set and is executing or deleted now.                          *)
Awaited(p) == refused[p] \/ ~Quiet(timers[p])

EligibleInv(p) ==
    /\ Awaited(p) => /\ launches > 0
                     /\ \/ disk.status = "absent"
                        \/ disk.autoResume /\ (runs[p] = "running" \/ Eligible)
    /\ refused[p] => runs[p] = "running" \/ disk.status = "absent"

(* How far the counter of attempts is ahead of the resumes it has granted. *)
CapInv(p) ==
    /\ MaxAttempts <= allowed /\ autoResumes <= allowed
    /\ launches = 0 => autoResumes = 0
    /\ entry[p].attempts > 0 \/ runs[p] = "running" =>
           autoResumes + MaxAttempts <= allowed + entry[p].attempts
    /\ Awaited(p) => autoResumes + MaxAttempts < allowed + entry[p].attempts
    /\ owed[p] > 0 => owed[p] = entry[p].attempts /\ ~refused[p]
    /\ Eligible /\ owed[p] = 0 => autoResumes + MaxAttempts <= allowed + disk.attempts

(* The record is never older than the pause, and a timer for a paused run  *)
(* is not due before the announced reset.                                  *)
ClockInv(p) ==
    Eligible =>
        /\ disk.age <= pauseAge
        /\ \A h \in Handles : timers[p][h] # Off =>
               pauseAge + timers[p][h] >= EarliestResume(disk.resetHint)

InvAt(p) == RecordInv(p) /\ EligibleInv(p) /\ CapInv(p) /\ ClockInv(p)

SingleInv == \A p \in Procs : InvAt(p)

LEMMA SingleInit == Init => SingleInv
<1> SUFFICES ASSUME Init, NEW p \in Procs PROVE InvAt(p)
  BY DEF SingleInv
<1> USE DEF Init, AllOff, NoEntry, NoRecord, Record, Eligible
<1>1. RecordInv(p)
  BY DEF RecordInv
<1>2. ~Awaited(p)
  BY DEF Awaited, Quiet
<1>3. EligibleInv(p) /\ CapInv(p) /\ ClockInv(p)
  BY <1>2 DEF EligibleInv, CapInv, ClockInv
<1> QED
  BY <1>1, <1>3 DEF InvAt

LEMMA Only ==
    ASSUME OneProcess, NEW p \in Procs, InvAt(p)' PROVE SingleInv'
BY DEF OneProcess, SingleInv

(* The types the arithmetic below needs.                                   *)
LEMMA Numbers ==
    ASSUME Sound, NEW p \in Procs
    PROVE  /\ allowed \in Nat /\ autoResumes \in Nat /\ launches \in Nat
           /\ entry[p].attempts \in Nat /\ owed[p] \in Nat
           /\ disk.attempts \in Nat /\ disk.age \in 0 .. Horizon
           /\ pauseAge \in 0 .. Horizon
BY EntryType, DiskType DEF Sound, TypeOK

LEMMA StartRunSingle ==
    ASSUME OneProcess, Sound, SingleInv, NEW p \in Procs, NEW auto \in BOOLEAN, StartRun(p, auto)
    PROVE  SingleInv'
<1>1. InvAt(p)
  BY DEF SingleInv
<1>2. /\ runs'[p] = "running" /\ holder' = p /\ owed'[p] = 0 /\ disk'.status = "running"
      /\ disk'.pauseReason = "none" /\ disk'.resetHint = NoHint /\ disk'.attempts = 0
      /\ launches = 0 /\ launches' = 1 /\ owed[p] = 0
      /\ UNCHANGED <<schedVars, histVars>>
  BY DEF StartRun, Execute, Record, Free, Sound, TypeOK, schedVars
<1>3. RecordInv(p)'
  BY <1>2 DEF RecordInv
<1>4. ~Awaited(p) /\ ~Awaited(p)'
  BY <1>1, <1>2 DEF InvAt, EligibleInv, Awaited, schedVars
<1>5. EligibleInv(p)'
  BY <1>4 DEF EligibleInv, Awaited
<1>6. CapInv(p)'
  BY <1>1, <1>2, <1>4, Numbers DEF InvAt, CapInv, Eligible, schedVars, histVars
<1>7. ClockInv(p)'
  BY <1>2 DEF ClockInv, Eligible
<1> QED
  BY <1>3, <1>5, <1>6, <1>7, Only DEF InvAt

LEMMA UserResumesSingle ==
    ASSUME OneProcess, Sound, SingleInv, NEW p \in Procs, UserResumes(p) PROVE SingleInv'
<1>1. InvAt(p)
  BY DEF SingleInv
<1>2. /\ runs'[p] = "running" /\ holder' = p /\ disk'.status = "running"
      /\ disk'.pauseReason = "none" /\ disk'.resetHint = NoHint /\ disk'.attempts = 0
      /\ disk'.autoResume = disk.autoResume
      /\ owed[p] = 0 /\ owed'[p] = 0
      /\ launches' = launches + 1 /\ autoResumes' = 0 /\ disk.status # "absent"
      /\ UNCHANGED <<schedVars, allowed>>
  BY DEF UserResumes, Resumable, Execute, Record, Free, Sound, TypeOK, schedVars
<1>3. RecordInv(p)'
  BY <1>2, Numbers DEF RecordInv
<1>4. Awaited(p)' => Awaited(p)
  BY <1>2 DEF Awaited, schedVars
<1>5. EligibleInv(p)'
  BY <1>1, <1>2, <1>4, Numbers DEF InvAt, EligibleInv, Awaited
<1>6. CapInv(p)'
  BY <1>1, <1>2, <1>4, Numbers DEF InvAt, CapInv, Eligible, schedVars
<1>7. ClockInv(p)'
  BY <1>2 DEF ClockInv, Eligible
<1> QED
  BY <1>3, <1>5, <1>6, <1>7, Only DEF InvAt

(* Whatever ends with cleanup() leaves no timer to account for.            *)
LEMMA CleanupSingle ==
    ASSUME OneProcess, Sound, SingleInv, NEW p \in Procs, Free(p), Cleanup(p),
           NEW st \in {"paused", "aborted", "completed", "failed"},
           runs[p] \in {"running", "paused"},
           Settle(p, st, "none", NoHint),
           UNCHANGED <<alive, owed, refused, allowed, launches, downs>>,
           autoResumes' = autoResumes \/ autoResumes' = 0
    PROVE  SingleInv'
<1>1. InvAt(p)
  BY DEF SingleInv
<1>2. PICK ts : /\ ts \in TimerSet /\ Quiet(ts)
                /\ entry' = [entry EXCEPT ![p] = NoEntry]
                /\ timers' = [timers EXCEPT ![p] = ts]
  BY CleanupEffect DEF Sound, Housekeeping
<1>3. /\ runs'[p] = st /\ holder' = Off
      /\ disk'.status = st /\ disk'.pauseReason = "none"
      /\ owed[p] = 0 /\ owed'[p] = 0 /\ ~refused'[p]
      /\ timers'[p] = ts /\ entry'[p] = NoEntry
  BY <1>1, <1>2 DEF Settle, Record, Free, Sound, TypeOK, InvAt, RecordInv, OneProcess
<1>4. ~Awaited(p)'
  BY <1>2, <1>3 DEF Awaited
<1>5. RecordInv(p)'
  BY <1>1, <1>3 DEF InvAt, RecordInv
<1>6. EligibleInv(p)'
  BY <1>4 DEF EligibleInv, Awaited
<1>7. CapInv(p)'
  BY <1>1, <1>3, <1>4, Numbers DEF InvAt, CapInv, Eligible, NoEntry
<1>8. ClockInv(p)'
  BY <1>3 DEF ClockInv, Eligible
<1> QED
  BY <1>5, <1>6, <1>7, <1>8, Only DEF InvAt

(* Arming for a run that is paused on a limit: the timer, if one is set,   *)
(* waits for the reset, and the counter is ahead by the attempt it grants. *)
LEMMA ArmSingle ==
    ASSUME OneProcess, Sound, NEW p \in Procs, Accounted(entry[p], timers[p]),
           NEW n \in Nat \ {0}, NEW hint \in Hints \cup {NoHint}, NEW elapsed \in Nat,
           Arm(p, n, hint, elapsed),
           Eligible', disk'.resetHint = hint, disk'.age \in Nat, disk'.age <= pauseAge',
           elapsed <= pauseAge', pauseAge' \in Nat,
           ~refused'[p], launches' > 0,
           allowed' = allowed, autoResumes' = autoResumes,
           MaxAttempts <= allowed, autoResumes <= allowed,
           autoResumes + MaxAttempts < allowed + n, runs'[p] # "running"
    PROVE  EligibleInv(p)' /\ CapInv(p)' /\ ClockInv(p)'
<1>1. PICK e, ts : /\ Armed(e, ts, n, Delay(hint, n, elapsed))
                   /\ entry' = [entry EXCEPT ![p] = e]
                   /\ timers' = [timers EXCEPT ![p] = ts]
  BY ArmEffect DEF Sound
<1>2. /\ entry'[p].attempts = n /\ owed'[p] = n /\ timers'[p] = ts
  BY <1>1 DEF Arm, Armed, Sound, TypeOK
<1>3. EligibleInv(p)'
  BY DEF EligibleInv, Eligible
<1>4. CapInv(p)'
  BY <1>2, Numbers DEF CapInv
<1>5. ClockInv(p)'
  <2>1. ASSUME NEW h \in Handles, timers'[p][h] # Off
        PROVE  pauseAge' + timers'[p][h] >= EarliestResume(hint)
    <3>1. timers'[p][h] = Delay(hint, n, elapsed)
      BY <1>1, <1>2, <2>1 DEF Armed
    <3>2. /\ Base(hint) \in 0 .. Horizon /\ Delay(hint, n, elapsed) \in 0 .. MaxDelay
          /\ Delay(hint, n, elapsed) + elapsed >= EarliestResume(hint)
      BY DelayType
    <3>3. EarliestResume(hint) \in Nat
      BY <3>2 DEF EarliestResume, Least, Greatest
    <3> QED
      BY <3>1, <3>2, <3>3
  <2> QED
    BY <2>1 DEF ClockInv
<1> QED
  BY <1>3, <1>4, <1>5

LEMMA HitsLimitSingle ==
    ASSUME OneProcess, Sound, SingleInv, NEW p \in Procs, NEW hint \in Hints \cup {NoHint},
           HitsLimit(p, hint)
    PROVE  SingleInv'
<1>1. InvAt(p)
  BY DEF SingleInv
<1>2. /\ runs'[p] = "paused" /\ holder' = Off
      /\ disk'.status = "paused" /\ disk'.pauseReason = "usage_limit"
      /\ disk'.resetHint = hint /\ disk'.age = 0 /\ disk'.attempts = 0
      /\ disk'.autoResume = disk.autoResume
      /\ runs[p] = "running" /\ disk.status = "running"
      /\ disk.resetHint = NoHint /\ disk.attempts = 0
      /\ owed[p] = 0 /\ ~refused[p] /\ pauseAge' = 0
      /\ UNCHANGED <<alive, refused, autoResumes, allowed, launches, downs>>
  BY <1>1 DEF HitsLimit, Settle, Record, Free, Sound, TypeOK, InvAt, RecordInv
<1>3. launches > 0
  BY <1>1, <1>2, Numbers DEF InvAt, RecordInv
<1>4. disk.autoResume \in BOOLEAN
  BY DiskType DEF Sound
<1>5. RecordInv(p)'
  BY <1>2, <1>3, Numbers DEF RecordInv
<1>6. CASE ~disk.autoResume
  <2>1. UNCHANGED <<entry, timers, owed>>
    BY <1>2, <1>6 DEF HitsLimit, HandlePaused
  <2>2. ~Awaited(p) /\ ~Awaited(p)'
    BY <1>1, <1>2, <1>6, <2>1 DEF InvAt, EligibleInv, Awaited, Eligible
  <2>3. EligibleInv(p)'
    BY <2>2 DEF EligibleInv, Awaited
  <2>4. CapInv(p)'
    BY <1>1, <1>2, <1>6, <2>1, <2>2, Numbers DEF InvAt, CapInv, Eligible
  <2>5. ClockInv(p)'
    BY <1>2, <1>6 DEF ClockInv, Eligible
  <2> QED
    BY <1>5, <2>3, <2>4, <2>5, Only DEF InvAt
<1>7. CASE disk.autoResume
  <2> DEFINE n == PriorAttempts(p) + 1
  <2>1. n = entry[p].attempts + 1 /\ n \in Nat \ {0}
    BY <1>2, Numbers DEF PriorAttempts
  <2> HIDE DEF n
  <2>2. Arm(p, n, hint, 0)
    BY <1>2, <1>7 DEF HitsLimit, HandlePaused, n
  <2>3. autoResumes + MaxAttempts < allowed + n
    BY <1>1, <1>2, <2>1, Numbers DEF InvAt, CapInv
  <2>4. Accounted(entry[p], timers[p])
    BY DEF Sound, Housekeeping
  <2>5. MaxAttempts <= allowed /\ autoResumes <= allowed
    BY <1>1 DEF InvAt, CapInv
  <2>6. Eligible'
    BY <1>2, <1>7 DEF Eligible
  <2>7. EligibleInv(p)' /\ CapInv(p)' /\ ClockInv(p)'
    BY <1>2, <1>3, <2>1, <2>2, <2>3, <2>4, <2>5, <2>6, ArmSingle
  <2> QED
    BY <1>5, <2>7, Only DEF InvAt
<1> QED
  BY <1>4, <1>6, <1>7

LEMMA DeleteRunSingle ==
    ASSUME OneProcess, Sound, SingleInv, NEW p \in Procs, DeleteRun(p) PROVE SingleInv'
<1>1. InvAt(p)
  BY DEF SingleInv
<1>2. /\ runs'[p] = "none" /\ holder' = Off /\ disk'.status = "absent"
      /\ disk'.pauseReason = "none" /\ disk.status # "absent"
      /\ UNCHANGED <<schedVars, histVars, launches>>
  BY DEF DeleteRun, NoRecord, Record, Sound, TypeOK
<1>3. RecordInv(p)'
  BY <1>2 DEF RecordInv
<1>4. EligibleInv(p)'
  BY <1>1, <1>2 DEF InvAt, EligibleInv, Awaited, schedVars
<1>5. CapInv(p)'
  BY <1>1, <1>2, Numbers DEF InvAt, CapInv, Awaited, Eligible, schedVars, histVars
<1>6. ClockInv(p)'
  BY <1>2 DEF ClockInv, Eligible
<1> QED
  BY <1>3, <1>4, <1>5, <1>6, Only DEF InvAt

LEMMA ManagerStepSingle ==
    ASSUME OneProcess, Sound, SingleInv, NEW p \in Procs, ManagerStep(p) PROVE SingleInv'
<1>1. ASSUME NEW auto \in BOOLEAN, StartRun(p, auto) PROVE SingleInv'
  BY <1>1, StartRunSingle
<1>2. CASE UserResumes(p)
  BY <1>2, UserResumesSingle
<1>3. CASE UserPauses(p)
  BY <1>3, CleanupSingle DEF UserPauses
<1>4. CASE UserStops(p)
  BY <1>4, CleanupSingle DEF UserStops
<1>5. CASE DeleteRun(p)
  BY <1>5, DeleteRunSingle
<1>6. ASSUME NEW hint \in Hints \cup {NoHint}, HitsLimit(p, hint) PROVE SingleInv'
  BY <1>6, HitsLimitSingle
<1>7. ASSUME NEW st \in {"completed", "failed"}, RunEnds(p, st) PROVE SingleInv'
  BY <1>7, CleanupSingle DEF RunEnds, histVars
<1> QED
  BY <1>1, <1>2, <1>3, <1>4, <1>5, <1>6, <1>7 DEF ManagerStep

LEMMA SaveAttemptsSingle ==
    ASSUME OneProcess, Sound, SingleInv, NEW p \in Procs, SaveAttempts(p) PROVE SingleInv'
<1>1. InvAt(p)
  BY DEF SingleInv
<1>2. /\ owed[p] > 0 /\ owed'[p] = 0
      /\ UNCHANGED <<alive, runs, holder, entry, timers, refused, histVars, launches>>
  BY DEF SaveAttempts, Sound, TypeOK
<1>3. /\ disk'.status = disk.status /\ disk'.pauseReason = disk.pauseReason
      /\ disk'.resetHint = disk.resetHint /\ disk'.autoResume = disk.autoResume
      /\ disk.status # "absent" => disk'.attempts = owed[p] /\ disk'.age = 0
  <2>1. disk \in PersistedRunState
    BY DEF Sound, TypeOK
  <2> QED
    BY <2>1 DEF SaveAttempts, PersistedRunState
<1>4. RecordInv(p)'
  BY <1>1, <1>2, <1>3 DEF InvAt, RecordInv
<1>5. EligibleInv(p)'
  BY <1>1, <1>2, <1>3 DEF InvAt, EligibleInv, Awaited, Eligible
<1>6. CapInv(p)'
  BY <1>1, <1>2, <1>3, Numbers DEF InvAt, CapInv, Awaited, Eligible, histVars
<1>7. ClockInv(p)'
  BY <1>1, <1>2, <1>3, Numbers DEF InvAt, ClockInv, Eligible, histVars
<1> QED
  BY <1>4, <1>5, <1>6, <1>7, Only DEF InvAt

(* Before a timer fires its run is eligible, executing or deleted; so a    *)
(* resume it obtains is one of an eligible run, and a refusal comes from   *)
(* an execution or a deletion.                                             *)
LEMMA FiringTimer ==
    ASSUME Sound, SingleInv, OneProcess, NEW p \in Procs, NEW h \in Handles, TimerFires(p, h)
    PROVE  /\ InvAt(p) /\ Awaited(p) /\ timers[p][h] = 0
           /\ entry[p].timer = h /\ entry[p].attempts > 0 /\ ~entry[p].gaveUp
           /\ entry[p].attempts <= MaxAttempts
           /\ \A x \in Handles : x # h => timers[p][x] = Off
           /\ Resumable(p) => Eligible
           /\ ~Resumable(p) => runs[p] = "running" \/ disk.status = "absent"
<1>1. InvAt(p) /\ timers[p][h] = 0 /\ timers[p][h] # Off
  BY DEF SingleInv, TimerFires
<1>2. Awaited(p)
  BY <1>1 DEF Awaited, Quiet
<1>3. /\ entry[p].timer = h /\ entry[p].attempts > 0 /\ ~entry[p].gaveUp
      /\ entry[p].attempts <= MaxAttempts
      /\ \A x \in Handles : x # h => timers[p][x] = Off
  BY <1>1 DEF Sound, Housekeeping, Accounted
<1>4. Resumable(p) => Eligible
  BY <1>1, <1>2 DEF InvAt, EligibleInv, Resumable
<1>5. ~Resumable(p) => runs[p] = "running" \/ disk.status = "absent"
  BY <1>1, <1>2 DEF InvAt, EligibleInv, RecordInv, Resumable, Eligible
<1> QED
  BY <1>1, <1>2, <1>3, <1>4, <1>5

LEMMA TimerFiresSingle ==
    ASSUME OneProcess, Sound, SingleInv, NEW p \in Procs, NEW h \in Handles, TimerFires(p, h)
    PROVE  SingleInv'
<1>1. /\ InvAt(p) /\ Awaited(p)
      /\ entry[p].attempts > 0 /\ ~entry[p].gaveUp /\ entry[p].attempts <= MaxAttempts
      /\ \A x \in Handles : x # h => timers[p][x] = Off
      /\ Resumable(p) => Eligible
      /\ ~Resumable(p) => runs[p] = "running" \/ disk.status = "absent"
  BY FiringTimer
<1>2. /\ timers' = [timers EXCEPT ![p][h] = Off]
      /\ entry' = [entry EXCEPT ![p].timer = Off]
      /\ owed[p] = 0 /\ owed'[p] = 0
      /\ UNCHANGED <<alive, owed, pauseAge, allowed, launches, downs>>
  BY <1>1 DEF TimerFires, Free
<1>3. entry'[p].attempts = entry[p].attempts
  BY <1>2, EntryUpdateType DEF Sound, TypeOK
<1>4. Quiet(timers'[p])
  BY <1>1, <1>2 DEF Quiet, Sound, TypeOK
<1>5. launches > 0
  BY <1>1 DEF InvAt, EligibleInv
<1>6. autoResumes + MaxAttempts < allowed + entry[p].attempts
  BY <1>1 DEF InvAt, CapInv
<1>7. CASE /\ Resumable(p) /\ Execute(p, disk.autoResume)
           /\ autoResumes' = autoResumes + 1 /\ UNCHANGED refused
  <2>1. /\ runs'[p] = "running" /\ holder' = p /\ disk'.status = "running"
        /\ disk'.pauseReason = "none" /\ disk'.resetHint = NoHint /\ disk'.attempts = 0
        /\ ~refused'[p]
    BY <1>7 DEF Execute, Record, TimerFires, Free, Sound, TypeOK
  <2>2. ~Awaited(p)'
    BY <1>4, <2>1 DEF Awaited
  <2>3. RecordInv(p)'
    BY <1>2, <1>5, <2>1, Numbers DEF RecordInv
  <2>4. EligibleInv(p)'
    BY <2>1, <2>2 DEF EligibleInv, Awaited
  <2>5. CapInv(p)'
    BY <1>1, <1>2, <1>3, <1>5, <1>6, <1>7, <2>1, <2>2, Numbers DEF InvAt, CapInv, Eligible
  <2>6. ClockInv(p)'
    BY <2>1 DEF ClockInv, Eligible
  <2> QED
    BY <2>3, <2>4, <2>5, <2>6, Only DEF InvAt
<1>8. CASE /\ ~Resumable(p) /\ refused' = [refused EXCEPT ![p] = TRUE]
           /\ UNCHANGED <<runs, holder, disk, autoResumes>>
  <2>1. RecordInv(p)'
    BY <1>1, <1>2, <1>8 DEF InvAt, RecordInv
  <2>2. EligibleInv(p)'
    BY <1>1, <1>2, <1>5, <1>8 DEF InvAt, EligibleInv, Eligible
  <2>3. CapInv(p)'
    BY <1>1, <1>2, <1>3, <1>6, <1>8 DEF InvAt, CapInv, Eligible
  <2>4. ClockInv(p)'
    BY <1>1, <1>2, <1>4, <1>8 DEF InvAt, ClockInv, Eligible, Quiet
  <2> QED
    BY <2>1, <2>2, <2>3, <2>4, Only DEF InvAt
<1> QED
  BY <1>1, <1>7, <1>8 DEF TimerFires

LEMMA AfterRefusalSingle ==
    ASSUME OneProcess, Sound, SingleInv, NEW p \in Procs, AfterRefusal(p) PROVE SingleInv'
<1>1. InvAt(p)
  BY DEF SingleInv
<1>2. /\ refused[p] /\ ~refused'[p]
      /\ UNCHANGED <<runs, holder, disk, owed, histVars, launches>>
      /\ Awaited(p)
  BY DEF AfterRefusal, Awaited, Sound, TypeOK
<1>3. runs[p] = "running" \/ disk.status = "absent"
  BY <1>1, <1>2 DEF InvAt, EligibleInv
<1>4. ~Eligible /\ ~Eligible'
  BY <1>1, <1>2, <1>3 DEF InvAt, RecordInv, Eligible
<1>5. RecordInv(p)' /\ ClockInv(p)'
  BY <1>1, <1>2, <1>4 DEF InvAt, RecordInv, ClockInv
<1>6. /\ launches > 0 /\ autoResumes + MaxAttempts < allowed + entry[p].attempts
      /\ disk.status = "absent" \/ disk.autoResume
  BY <1>1, <1>2 DEF InvAt, EligibleInv, CapInv
<1>7. CASE Cleanup(p) /\ disk.status \in {"absent", "completed", "aborted"}
  <2>1. PICK ts : /\ ts \in TimerSet /\ Quiet(ts)
                  /\ entry' = [entry EXCEPT ![p] = NoEntry]
                  /\ timers' = [timers EXCEPT ![p] = ts]
    BY <1>7, CleanupEffect DEF Sound, Housekeeping
  <2>2. entry'[p] = NoEntry /\ timers'[p] = ts
    BY <2>1 DEF Sound, TypeOK
  <2>3. ~Awaited(p)'
    BY <1>2, <2>1, <2>2 DEF Awaited
  <2>4. EligibleInv(p)'
    BY <2>3 DEF EligibleInv, Awaited
  <2>5. runs[p] # "running" /\ owed[p] = 0
    BY <1>1, <1>2, <1>7, Numbers DEF InvAt, RecordInv, CapInv
  <2>6. CapInv(p)'
    BY <1>1, <1>2, <1>4, <2>2, <2>3, <2>5, Numbers DEF InvAt, CapInv, NoEntry, histVars
  <2> QED
    BY <1>5, <2>4, <2>6, Only DEF InvAt
<1>8. CASE SetTimer(p, timers[p], entry[p].attempts, MinDelay)
  <2>1. entry'[p].attempts = entry[p].attempts
    BY <1>8 DEF SetTimer, Sound, TypeOK
  <2>2. EligibleInv(p)'
    BY <1>2, <1>3, <1>4, <1>6 DEF EligibleInv, Eligible, InvAt, RecordInv
  <2>3. CapInv(p)'
    BY <1>1, <1>2, <1>4, <1>6, <2>1, Numbers DEF InvAt, CapInv, histVars
  <2> QED
    BY <1>5, <2>2, <2>3, Only DEF InvAt
<1> QED
  BY <1>7, <1>8 DEF AfterRefusal

LEMMA TickSingle ==
    ASSUME OneProcess, Sound, SingleInv, Tick PROVE SingleInv'
<1> SUFFICES ASSUME NEW p \in Procs PROVE InvAt(p)'
  BY DEF SingleInv
<1>1. InvAt(p)
  BY DEF SingleInv
<1>2. /\ pauseAge' = Least(pauseAge + 1, Horizon)
      /\ UNCHANGED <<alive, runs, holder, entry, owed, refused, autoResumes, allowed, launches>>
  BY DEF Tick
<1>3. /\ disk'.status = disk.status /\ disk'.pauseReason = disk.pauseReason
      /\ disk'.resetHint = disk.resetHint /\ disk'.autoResume = disk.autoResume
      /\ disk'.attempts = disk.attempts /\ disk'.age = Least(disk.age + 1, Horizon)
  <2>1. disk \in PersistedRunState
    BY DEF Sound, TypeOK
  <2> QED
    BY <2>1 DEF Tick, PersistedRunState
<1>4. timers[p] \in TimerSet
  BY EntryType DEF Sound
<1>5. ASSUME NEW h \in Handles
      PROVE  /\ timers'[p][h] # Off <=> timers[p][h] # Off
             /\ timers'[p][h] # Off => /\ timers[p][h] \in Nat /\ timers'[p][h] \in Nat
                                       /\ timers'[p][h] + 1 >= timers[p][h]
  <2>1. timers'[p][h] = IF timers[p][h] \in {Off, 0} THEN timers[p][h] ELSE timers[p][h] - 1
    BY DEF Tick
  <2>2. timers[p][h] = Off \/ timers[p][h] \in Nat
    BY <1>4 DEF TimerSet
  <2>3. CASE timers[p][h] \in {Off, 0}
    BY <2>1, <2>2, <2>3
  <2>4. CASE timers[p][h] \in Nat \ {0}
    <3>1. timers'[p][h] = timers[p][h] - 1 /\ timers'[p][h] \in Int
      BY <2>1, <2>4
    <3> QED
      BY <2>4, <3>1
  <2> QED
    BY <2>2, <2>3, <2>4
<1>6. Awaited(p)' <=> Awaited(p)
  BY <1>2, <1>5 DEF Awaited, Quiet
<1>7. Eligible' <=> Eligible
  BY <1>3 DEF Eligible
<1>8. RecordInv(p)'
  BY <1>1, <1>2, <1>3 DEF InvAt, RecordInv
<1>9. EligibleInv(p)'
  BY <1>1, <1>2, <1>3, <1>6, <1>7 DEF InvAt, EligibleInv
<1>10. CapInv(p)'
  BY <1>1, <1>2, <1>3, <1>6, <1>7 DEF InvAt, CapInv
<1>11. ClockInv(p)'
  <2>1. disk.resetHint \in Hints \cup {NoHint}
    BY DiskType DEF Sound
  <2>2. Base(disk.resetHint) \in 0 .. Horizon
    BY <2>1, DelayType
  <2>3. EarliestResume(disk.resetHint) \in 0 .. Horizon
    BY <2>2 DEF EarliestResume, Least, Greatest
  <2>4. Eligible => disk'.age <= pauseAge'
    BY <1>1, <1>2, <1>3, Numbers DEF InvAt, ClockInv, Least
  <2>5. ASSUME Eligible, NEW h \in Handles, timers'[p][h] # Off
        PROVE  pauseAge' + timers'[p][h] >= EarliestResume(disk.resetHint)
    <3>1. pauseAge + timers[p][h] >= EarliestResume(disk.resetHint)
      BY <1>1, <1>5, <2>5 DEF InvAt, ClockInv
    <3> QED
      BY <1>2, <1>5, <2>3, <2>5, <3>1, Numbers DEF Least
  <2> QED
    BY <1>3, <1>7, <2>4, <2>5 DEF ClockInv
<1> QED
  BY <1>8, <1>9, <1>10, <1>11 DEF InvAt

(* A process that goes down takes its timers along; the record keeps the   *)
(* counter, or a new series of attempts is allowed.                        *)
LEMMA DownSingle ==
    ASSUME OneProcess, Sound, SingleInv, NEW p \in Procs, Down(p),
           \/ owed[p] = 0 /\ allowed' = allowed
           \/ owed[p] > 0 /\ allowed' = allowed + MaxAttempts
    PROVE  SingleInv'
<1>1. InvAt(p)
  BY DEF SingleInv
<1>2. /\ runs'[p] = "none" /\ entry'[p] = NoEntry /\ owed'[p] = 0 /\ ~refused'[p]
      /\ timers'[p] = AllOff
      /\ UNCHANGED <<disk, pauseAge, autoResumes, launches>>
  BY DEF Down, Sound, TypeOK
<1>3. holder' = Off
  BY DEF Down, Sound, TypeOK, OneProcess
<1>4. ~Awaited(p)'
  BY <1>2 DEF Awaited, Quiet, AllOff
<1>5. RecordInv(p)'
  BY <1>1, <1>2, <1>3 DEF InvAt, RecordInv
<1>6. EligibleInv(p)'
  BY <1>4 DEF EligibleInv, Awaited
<1>7. CapInv(p)'
  BY <1>1, <1>2, <1>4, Numbers DEF InvAt, CapInv, Eligible, NoEntry
<1>8. ClockInv(p)'
  BY <1>1, <1>2 DEF InvAt, ClockInv, Eligible, AllOff
<1> QED
  BY <1>5, <1>6, <1>7, <1>8, Only DEF InvAt

LEMMA RestartSingle ==
    ASSUME OneProcess, Sound, SingleInv, NEW p \in Procs, Restart(p) PROVE SingleInv'
<1>1. InvAt(p)
  BY DEF SingleInv
<1>2. /\ runs[p] = "none" /\ ~refused[p] /\ owed[p] = 0 /\ entry[p] = NoEntry
      /\ Accounted(entry[p], timers[p])
      /\ UNCHANGED <<runs, holder, refused, histVars, launches, downs>>
  BY DEF Restart, Sound, Housekeeping
<1>3. ~Awaited(p) /\ Quiet(timers[p])
  BY <1>2 DEF Awaited, Quiet, Accounted, NoEntry
<1>4. /\ disk.status # "running" => disk' = disk
      /\ disk.status = "running" => disk' = disk \/ disk'.pauseReason = "none"
      /\ disk'.pauseReason = disk.pauseReason
      /\ disk'.status = "running" => disk.status = "running"
      /\ disk'.status = "absent" <=> disk.status = "absent"
      /\ disk'.status = "aborted" <=> disk.status = "aborted"
  <2>1. disk \in PersistedRunState
    BY DEF Sound, TypeOK
  <2> QED
    BY <1>1, <2>1 DEF Restart, Recovered, PersistedRunState, InvAt, RecordInv
<1>5. Eligible' => Eligible /\ disk' = disk
  BY <1>1, <1>4 DEF Eligible, InvAt, RecordInv
<1>6. RecordInv(p)'
  BY <1>1, <1>2, <1>4 DEF InvAt, RecordInv
<1>7. CASE Eligible'
  <2>1. /\ Eligible /\ disk' = disk
        /\ autoResumes + MaxAttempts <= allowed + disk.attempts
        /\ disk.age <= pauseAge /\ MaxAttempts <= allowed /\ autoResumes <= allowed
    BY <1>1, <1>2, <1>5, <1>7 DEF InvAt, CapInv, ClockInv
  <2> DEFINE n == disk.attempts + 1
  <2>2. n \in Nat \ {0} /\ autoResumes + MaxAttempts < allowed + n /\ disk.age \in Nat
    BY <2>1, Numbers
  <2>3. Arm(p, n, disk.resetHint, disk.age)
    BY <1>7, <2>1 DEF Restart, Eligible
  <2>4. launches > 0 /\ disk.resetHint \in Hints \cup {NoHint}
    BY <1>1, <2>1, Numbers, DiskType DEF InvAt, RecordInv, Eligible, Sound
  <2>5. pauseAge \in Nat
    BY Numbers
  <2> HIDE DEF n
  <2>6. EligibleInv(p)' /\ CapInv(p)' /\ ClockInv(p)'
    BY <1>2, <1>7, <2>1, <2>2, <2>3, <2>4, <2>5, ArmSingle DEF histVars
  <2> QED
    BY <1>6, <2>6, Only DEF InvAt
<1>8. CASE ~Eligible'
  <2>1. UNCHANGED <<entry, timers, owed>>
    BY <1>8 DEF Restart, Eligible
  <2>2. EligibleInv(p)'
    BY <1>2, <1>3, <2>1 DEF EligibleInv, Awaited
  <2>3. CapInv(p)'
    BY <1>1, <1>2, <1>3, <1>8, <2>1 DEF InvAt, CapInv, Awaited, histVars
  <2>4. ClockInv(p)'
    BY <1>8 DEF ClockInv
  <2> QED
    BY <1>6, <2>2, <2>3, <2>4, Only DEF InvAt
<1> QED
  BY <1>7, <1>8

LEMMA SingleNext == OneProcess /\ Sound /\ SingleInv /\ [Next]_vars => SingleInv'
<1> SUFFICES ASSUME OneProcess, Sound, SingleInv, [Next]_vars PROVE SingleInv'
  OBVIOUS
<1>1. ASSUME NEW p \in Procs, ManagerStep(p) PROVE SingleInv'
  BY <1>1, ManagerStepSingle
<1>2. ASSUME NEW p \in Procs, SaveAttempts(p) PROVE SingleInv'
  BY <1>2, SaveAttemptsSingle
<1>3. ASSUME NEW p \in Procs, TimerStep(p) PROVE SingleInv'
  BY <1>3, TimerFiresSingle DEF TimerStep
<1>4. ASSUME NEW p \in Procs, AfterRefusal(p) PROVE SingleInv'
  BY <1>4, AfterRefusalSingle
<1>5. ASSUME NEW p \in Procs, ProcessStep(p) PROVE SingleInv'
  <2>1. CASE ShutDown(p)
    BY <2>1, DownSingle DEF ShutDown, Free
  <2>2. CASE Killed(p)
    BY <2>2, DownSingle DEF Killed
  <2>3. CASE Restart(p)
    BY <2>3, RestartSingle
  <2> QED
    BY <1>5, <2>1, <2>2, <2>3 DEF ProcessStep
<1>6. CASE Tick
  BY <1>6, TickSingle
<1>7. CASE UNCHANGED vars
  BY <1>7 DEF SingleInv, InvAt, RecordInv, EligibleInv, CapInv, ClockInv, Awaited, Quiet,
     Eligible, vars, schedVars, histVars
<1> QED
  BY <1>1, <1>2, <1>3, <1>4, <1>5, <1>6, <1>7 DEF Next

(* With one process, record, entry and timers agree on what was granted    *)
(* and what is due (usage-limit-scheduler.ts).                             *)
THEOREM SingleInvariant == OneProcess /\ Spec => [](Sound /\ SingleInv)
<1> SUFFICES ASSUME OneProcess PROVE Spec => [](Sound /\ SingleInv)
  OBVIOUS
<1>1. Sound /\ SingleInv /\ [Next]_vars => (Sound /\ SingleInv)'
  BY SoundNext, SingleNext
<1>2. Init => Sound /\ SingleInv
  BY SoundInit, SingleInit
<1> QED
  BY <1>1, <1>2, PTL DEF Spec

(* The only step that counts a resume by a timer is a timer firing.        *)
LEMMA OnlyTimersResume ==
    ASSUME Sound, [Next]_vars, autoResumes' = autoResumes + 1
    PROVE  \E p \in Procs, h \in Handles :
               TimerFires(p, h) /\ Resumable(p)
<1>1. autoResumes \in Nat
  BY DEF Sound, TypeOK
<1>2. autoResumes' # autoResumes /\ autoResumes' # 0
  BY <1>1
<1>3. PICK p \in Procs : TimerStep(p)
  BY <1>2 DEF Next, ManagerStep, ProcessStep, StartRun, UserResumes, UserPauses, UserStops,
     DeleteRun, HitsLimit, RunEnds, SaveAttempts, AfterRefusal, ShutDown, Killed, Down,
     Restart, Tick, vars, histVars
<1>4. PICK h \in Handles : TimerFires(p, h)
  BY <1>3 DEF TimerStep
<1> QED
  BY <1>2, <1>4 DEF TimerFires

(* A timer never resumes a run a user paused or one that failed, however   *)
(* pauses, manual resumes, refusals, deletions and restarts interleave.    *)
THEOREM OnlyEligibleRunsResume == OneProcess /\ Spec => OnlyEligibleResumed
<1> SUFFICES ASSUME OneProcess PROVE Spec => OnlyEligibleResumed
  OBVIOUS
<1>1. Sound /\ SingleInv /\ [Next]_vars => [autoResumes' = autoResumes + 1 => Eligible]_vars
  <2> SUFFICES ASSUME Sound, SingleInv, [Next]_vars, autoResumes' = autoResumes + 1
               PROVE  Eligible
    OBVIOUS
  <2>1. PICK p \in Procs, h \in Handles : TimerFires(p, h) /\ Resumable(p)
    BY OnlyTimersResume
  <2> QED
    BY <2>1, FiringTimer
<1> QED
  BY <1>1, SingleInvariant, PTL DEF Spec, OnlyEligibleResumed

(* The attempt cap holds across manual resumes, refusals and restarts.     *)
THEOREM AttemptsAreCapped == OneProcess /\ Spec => []AttemptsCapped
<1> SUFFICES ASSUME OneProcess PROVE Spec => []AttemptsCapped
  OBVIOUS
<1>1. Sound /\ SingleInv => AttemptsCapped
  BY DEF OneProcess, SingleInv, InvAt, CapInv, AttemptsCapped
<1> QED
  BY <1>1, SingleInvariant, PTL

(* Whatever the backoff, no resume precedes the announced reset.           *)
THEOREM NoEarlyResume == OneProcess /\ Spec => NotBeforeReset
<1> SUFFICES ASSUME OneProcess PROVE Spec => NotBeforeReset
  OBVIOUS
<1>1. Sound /\ SingleInv /\ [Next]_vars =>
          [autoResumes' = autoResumes + 1 => pauseAge >= EarliestResume(disk.resetHint)]_vars
  <2> SUFFICES ASSUME Sound, SingleInv, [Next]_vars, autoResumes' = autoResumes + 1
               PROVE  pauseAge >= EarliestResume(disk.resetHint)
    OBVIOUS
  <2>1. PICK p \in Procs, h \in Handles : TimerFires(p, h) /\ Resumable(p)
    BY OnlyTimersResume
  <2>2. Eligible /\ InvAt(p) /\ timers[p][h] = 0 /\ 0 # Off
    BY <2>1, FiringTimer
  <2>3. pauseAge + 0 >= EarliestResume(disk.resetHint)
    BY <2>2 DEF InvAt, ClockInv
  <2> QED
    BY <2>3, <2>1, Numbers
<1> QED
  BY <1>1, SingleInvariant, PTL DEF Spec, NotBeforeReset
=============================================================================
