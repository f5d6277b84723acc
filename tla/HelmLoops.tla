----------------------------- MODULE HelmLoops -----------------------------
(***************************************************************************)
(* A background loop of Helm: its draft, the supervised trial that must    *)
(* pass before the draft is scheduled, the timer that fires it, pausing    *)
(* one loop or everything, and restarts of pi (data/real.ts, state/store.ts*)
(* and the loop builder of app.ts).                                        *)
(*                                                                         *)
(* Runs and trials are promises of the workflow manager: they end long     *)
(* after they were started, and the code that awaited them then writes the *)
(* loop or the draft.  Every mutation is saved in the step that makes it,  *)
(* so memory and state file agree between steps.  Time is relative: "due"  *)
(* and "timer" count down to nextRunAtMs and to the timer's callback.      *)
(***************************************************************************)
EXTENDS Naturals, Sequences, SequencesExt

CONSTANTS Every,        \* ticks between two scheduled runs
          MaxDelay,     \* the longest delay setTimeout accepts
          MaxVersions,  \* bound: texts the operator writes
          MaxRuns,      \* bound: runs of the loop in flight at once
          MaxTrials,    \* bound: trials in flight at once
          MaxRestarts   \* bound: restarts of pi

VARIABLES loop,        \* the scheduled loop, if any
          draft,       \* loopDrafts: the text in the builder
          made,        \* versions written so far
          builder,     \* the loop builder is on the screen
          gate,        \* HelmApp.trials of this loop, per Helm window
          trials,      \* trials in flight
          tried,       \* versions some trial has passed
          timer,       \* loopTimers: ticks left, or None
          runs,        \* runs in flight: going on, and cut by pause-all
          pausedAll,
          checkpoint,  \* remaining delay saved by pauseAll, or None
          restarts

vars == <<loop, draft, made, builder, gate, trials, tried, timer, runs,
          pausedAll, checkpoint, restarts>>

None    == 99
NoLoop  == [health |-> "absent", reason |-> "none", due |-> None, def |-> 0]
NoDraft == [ver |-> 0, passed |-> FALSE]
NoRuns  == [on |-> 0, cut |-> 0]

TypeOK ==
    /\ loop \in [health : {"absent", "healthy", "idle", "paused"},
                 reason : {"none", "operator", "failed"},
                 due : (0 .. Every) \cup {None}, def : 0 .. MaxVersions]
    /\ (loop.health = "paused") = (loop.reason # "none")
    /\ draft \in [ver : 0 .. MaxVersions, passed : BOOLEAN]
    /\ made \in 0 .. MaxVersions /\ builder \in BOOLEAN
    /\ gate \in {"none", "idle", "trialing", "passed", "failed"}
    /\ trials \in Seq([ver : 1 .. MaxVersions, mine : BOOLEAN, cut : BOOLEAN])
    /\ tried \subseteq 1 .. MaxVersions
    /\ timer \in (0 .. Every) \cup {None}
    /\ runs \in [on : 0 .. MaxRuns, cut : 0 .. MaxRuns]
    /\ pausedAll \in BOOLEAN
    /\ checkpoint \in (0 .. Every) \cup {None}
    /\ restarts \in 0 .. MaxRestarts

Init ==
    /\ loop = NoLoop /\ draft = NoDraft /\ made = 0
    /\ builder = FALSE /\ gate = "none" /\ trials = <<>> /\ tried = {}
    /\ timer = None /\ runs = NoRuns
    /\ pausedAll = FALSE /\ checkpoint = None /\ restarts = 0

\* armLoop: the timer of loop l, for the deadline it carries.
Armed(l, frozen) ==
    IF frozen \/ l.health \in {"absent", "paused"} THEN None
    ELSE LET delay == IF l.due = None THEN Every ELSE l.due
         IN  IF delay > MaxDelay THEN MaxDelay ELSE delay

-----------------------------------------------------------------------------
\* The loop builder

TrialState == IF gate # "none" THEN gate
              ELSE IF draft.passed THEN "passed" ELSE "idle"

TrialOffered == builder /\ draft # NoDraft /\ TrialState \in {"idle", "failed"}
EditOffered  == TrialOffered /\ made < MaxVersions

Unfrozen == UNCHANGED <<pausedAll, checkpoint, restarts>>

\* "N" on home.  Only the builder it opens ever shows an unscheduled draft.
CreateDraft ==
    /\ made = 0
    /\ made' = 1 /\ draft' = [ver |-> 1, passed |-> FALSE] /\ builder' = TRUE
    /\ UNCHANGED <<loop, gate, trials, tried, timer, runs>> /\ Unfrozen

\* Enter in the drill-in of a loop; getLoopDraft derives a missing draft from
\* the active definition.
OpenBuilder ==
    /\ loop # NoLoop /\ ~builder
    /\ builder' = TRUE
    /\ draft' = IF draft = NoDraft THEN [ver |-> loop.def, passed |-> TRUE]
                ELSE draft
    /\ UNCHANGED <<loop, made, gate, trials, tried, timer, runs>> /\ Unfrozen

\* Escape leaves the builder; closing Helm forgets its gates as well.
LeaveBuilder ==
    /\ builder /\ builder' = FALSE
    /\ UNCHANGED <<loop, draft, made, gate, trials, tried, timer, runs>>
    /\ Unfrozen

CloseHelm ==
    /\ builder \/ gate # "none"
    /\ builder' = FALSE /\ gate' = "none"
    /\ trials' = [i \in DOMAIN trials |-> [trials[i] EXCEPT !.mine = FALSE]]
    /\ UNCHANGED <<loop, draft, made, tried, timer, runs>> /\ Unfrozen

\* loop.edit
Edit ==
    /\ EditOffered
    /\ made' = made + 1 /\ draft' = [ver |-> made + 1, passed |-> FALSE]
    /\ UNCHANGED <<loop, builder, gate, trials, tried, timer, runs>>
    /\ Unfrozen

\* loop.discardDraft: allowed while a trial runs.
Discard ==
    /\ builder /\ draft # NoDraft
    /\ draft' = NoDraft /\ builder' = FALSE
    /\ UNCHANGED <<loop, made, gate, trials, tried, timer, runs>> /\ Unfrozen

Revise ==
    /\ builder /\ TrialState = "passed" /\ gate' = "idle"
    /\ UNCHANGED <<loop, draft, made, builder, trials, tried, timer, runs>>
    /\ Unfrozen

Trialing(d) == [d EXCEPT !.passed = FALSE]

\* trialRun and trialLoop
StartTrial ==
    /\ TrialOffered
    /\ Len(trials) < MaxTrials
    /\ gate' = "trialing" /\ draft' = Trialing(draft)
    /\ trials' = Append(trials, [ver |-> draft.ver, mine |-> TRUE, cut |-> FALSE])
    /\ UNCHANGED <<loop, made, builder, tried, timer, runs>> /\ Unfrozen

\* The port's answer: a trial whose run was paused is rejected, not passed.
Verdict(i, ok) == ok => ~trials[i].cut

\* Mutant: the verdict is written on the text the draft has by then.
TrialEndsMutant(i, ok) ==
    /\ Verdict(i, ok)
    /\ draft' = [draft EXCEPT !.passed = ok /\ draft # NoDraft]
    /\ tried' = IF ok THEN tried \cup {trials[i].ver} ELSE tried
    /\ gate' = IF ~trials[i].mine THEN gate ELSE IF ok THEN "passed" ELSE "failed"
    /\ trials' = RemoveAt(trials, i)
    /\ UNCHANGED <<loop, made, builder, timer, runs>> /\ Unfrozen

\* A trial ends: its verdict, and the text it tried, replace whatever draft
\* there is by now.
TrialEnds(i, ok) ==
    /\ Verdict(i, ok)
    /\ draft' = [ver |-> trials[i].ver, passed |-> ok]
    /\ tried' = IF ok THEN tried \cup {trials[i].ver} ELSE tried
    /\ gate' = IF ~trials[i].mine THEN gate ELSE IF ok THEN "passed" ELSE "failed"
    /\ trials' = RemoveAt(trials, i)
    /\ UNCHANGED <<loop, made, builder, timer, runs>> /\ Unfrozen

\* loop.schedule: refused unless the draft itself carries a passed trial.
Accepted(d) == [health |-> "healthy", reason |-> "none", due |-> Every, def |-> d.ver]

Schedule ==
    /\ builder /\ TrialState = "passed" /\ draft.passed
    /\ loop' = Accepted(draft)
    /\ timer' = Armed(loop', pausedAll)
    /\ gate' = "none" /\ builder' = FALSE
    /\ UNCHANGED <<draft, made, trials, tried, runs>> /\ Unfrozen

-----------------------------------------------------------------------------
\* Pausing

Toggled(l) ==
    IF l.health = "paused" THEN [l EXCEPT !.health = "healthy", !.reason = "none"]
    ELSE [l EXCEPT !.health = "paused", !.reason = "operator"]

\* "p": the deadline stays in the record of a paused loop.
TogglePause ==
    /\ loop # NoLoop
    /\ loop' = Toggled(loop)
    /\ timer' = Armed(loop', pausedAll)
    /\ UNCHANGED <<draft, made, builder, gate, trials, tried, runs>>
    /\ Unfrozen

\* pauseAll pauses the runs too, so the promises awaiting them reject.
CutRuns   == [on |-> 0, cut |-> runs.on + runs.cut]
CutTrials == [i \in DOMAIN trials |-> [trials[i] EXCEPT !.cut = TRUE]]

PauseAll ==
    /\ ~pausedAll
    /\ pausedAll' = TRUE
    /\ checkpoint' = IF loop.health = "paused" THEN None ELSE loop.due
    /\ timer' = None
    /\ runs' = CutRuns /\ trials' = CutTrials
    /\ UNCHANGED <<loop, draft, made, builder, gate, tried, restarts>>

\* Mutant: only the loops of the checkpoint get their timers back.
ResumeAllMutant ==
    /\ pausedAll
    /\ pausedAll' = FALSE /\ checkpoint' = None
    /\ loop' = IF checkpoint = None \/ loop.health = "paused" THEN loop
               ELSE [loop EXCEPT !.due = checkpoint]
    /\ timer' = IF checkpoint = None THEN timer ELSE Armed(loop', FALSE)
    /\ UNCHANGED <<draft, made, builder, gate, trials, tried, runs, restarts>>

ResumeAll ==
    /\ pausedAll
    /\ pausedAll' = FALSE /\ checkpoint' = None
    /\ loop' = IF checkpoint = None \/ loop.health = "paused" THEN loop
               ELSE [loop EXCEPT !.due = checkpoint]
    /\ timer' = Armed(loop', FALSE)
    /\ UNCHANGED <<draft, made, builder, gate, trials, tried, runs, restarts>>

-----------------------------------------------------------------------------
\* Firing

Less(t) == IF t \in {0, None} THEN t ELSE t - 1

Tick ==
    /\ timer' = Less(timer) /\ loop' = [loop EXCEPT !.due = Less(@)]
    /\ <<timer, loop>>' # <<timer, loop>>
    /\ UNCHANGED <<draft, made, builder, gate, trials, tried, runs>>
    /\ Unfrozen

\* The timer's callback: a deadline still ahead arms it again, otherwise
\* fireLoop starts a run unless the loop is paused.
TimerFires ==
    /\ timer = 0
    /\ IF loop.due \notin {0, None}
       THEN timer' = Armed(loop, pausedAll) /\ runs' = runs
       ELSE /\ timer' = None
            /\ IF loop.health = "paused" THEN runs' = runs
               ELSE runs.on + runs.cut < MaxRuns /\ runs' = [runs EXCEPT !.on = @ + 1]
    /\ UNCHANGED <<loop, draft, made, builder, gate, trials, tried>>
    /\ Unfrozen

\* runLoop's answer is ok only when the run completed; a cut run rejects.
Ends(ok) ==
    \/ runs.on > 0 /\ runs' = [runs EXCEPT !.on = @ - 1]
    \/ ~ok /\ runs.cut > 0 /\ runs' = [runs EXCEPT !.cut = @ - 1]

\* fireLoop after runLoop: the loop is written from the copy taken before.
RunCompletes ==
    /\ Ends(TRUE)
    /\ loop' = [loop EXCEPT !.health = "healthy", !.reason = "none", !.due = Every]
    /\ timer' = Armed(loop', pausedAll)
    /\ UNCHANGED <<draft, made, builder, gate, trials, tried>> /\ Unfrozen

RunFails ==
    /\ Ends(FALSE)
    /\ loop' = [loop EXCEPT !.health = "paused", !.reason = "failed", !.due = None]
    /\ UNCHANGED <<draft, made, builder, gate, trials, tried, timer>>
    /\ Unfrozen

\* The constructor of RealDataSource in a new process: a missed deadline makes
\* the loop idle, and the timer is armed unless everything is paused.
Restart ==
    /\ restarts < MaxRestarts /\ restarts' = restarts + 1
    /\ loop' = IF ~pausedAll /\ loop.due = 0
               THEN [loop EXCEPT !.health = "idle", !.reason = "none"] ELSE loop
    /\ timer' = Armed(loop', pausedAll)
    /\ builder' = FALSE /\ gate' = "none" /\ trials' = <<>> /\ runs' = NoRuns
    /\ UNCHANGED <<draft, made, tried, pausedAll, checkpoint>>

-----------------------------------------------------------------------------
Next ==
    \/ CreateDraft \/ OpenBuilder \/ LeaveBuilder \/ CloseHelm
    \/ Edit \/ Discard \/ Revise \/ StartTrial \/ Schedule
    \/ \E i \in DOMAIN trials, ok \in BOOLEAN : TrialEnds(i, ok)
    \/ TogglePause \/ PauseAll \/ ResumeAll
    \/ Tick \/ TimerFires \/ RunCompletes \/ RunFails \/ Restart

Spec == Init /\ [][Next]_vars

-----------------------------------------------------------------------------
\* README.md:29 "A loop goes live only after one trial run under full review":
\* the definition a scheduled loop runs, and the text of a draft that counts
\* as passed, is a text that a trial has run and passed, whatever was edited,
\* discarded or restarted while trials were under way.
AcceptedWasTried ==
    /\ loop # NoLoop => loop.def \in tried
    /\ draft.passed => draft.ver \in tried

\* No order of pausing, resuming, failing, rescheduling and restarting leaves
\* a loop that should run without the timer, or the run, that gets it to its
\* next run (armLoop is called in six places, and clears the timer first).
LoopStaysScheduled ==
    loop.health \in {"healthy", "idle"} /\ ~pausedAll =>
        timer # None \/ runs # NoRuns

\* A paused loop waits for the operator: only "p" and the acceptance of a new
\* definition take it out of the pause, be it one the operator asked for or
\* the one after a failed run (README.md:67-69).
PauseWaitsForOperator ==
    [][loop.health = "paused" /\ loop'.health # "paused"
          => TogglePause \/ Schedule]_vars
=============================================================================
