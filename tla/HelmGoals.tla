----------------------------- MODULE HelmGoals -----------------------------
(***************************************************************************)
(* A goal of Helm from its intake to its archive: the runs it starts, the  *)
(* lanes the screen shows for them, pausing them one by one, by goal and   *)
(* all at once, completion and the closeout (data/real.ts, state/store.ts, *)
(* the workflow port of host/adapters.ts).                                 *)
(*                                                                         *)
(* The lanes, the goal and the closeout are derived, on every event of the *)
(* workflow manager, from the run records on disk.  The manager is a       *)
(* client here: of its life cycle there is what Helm sees, the order in    *)
(* which it changes the status in memory, tells its listeners and writes   *)
(* the record.  A paused execution has unwound before its run is resumed;  *)
(* WorkflowManager has the overlap.                                        *)
(***************************************************************************)
EXTENDS Naturals, FiniteSets, FiniteSetsExt

CONSTANTS Plans,      \* workflows of the plan: 1 .. Plans
          MaxSpawns,  \* bound: launches of the goal, all but one failing
          MaxBoots    \* bound: restarts of pi

VARIABLES intake,   \* intakes: the draft of the goal
          spawns,   \* launches so far
          mgr,      \* the runs: status in memory, record, executions unwinding
          view,     \* HelmStore: lanes, goal, and the closeout
          freeze,   \* pausedAll
          frozen,   \* pauseCheckpoint.runIds
          boots

gvars == <<intake, spawns, mgr, view, freeze, frozen, boots>>

Runs == (1 .. Plans) \X (1 .. MaxSpawns)   \* a plan line, and its launch

Statuses == {"absent", "running", "paused", "limited", "failed", "aborted", "completed"}

TypeOK ==
    /\ intake \in {"none", "asking", "ready"}
    /\ spawns \in 0 .. MaxSpawns
    /\ mgr \in [exec : [Runs -> Statuses], record : [Runs -> Statuses],
                unwinding : SUBSET Runs]
    /\ view \in [lane : [Runs -> {"absent", "running", "paused"}],
                 goal : {"none", "running", "complete", "archived"},
                 closeout : SUBSET Runs]
    /\ freeze \in BOOLEAN /\ frozen \subseteq Runs /\ (frozen # {} => freeze)
    /\ boots \in 0 .. MaxBoots

Nothing == [r \in Runs |-> "absent"]

Init ==
    /\ intake = "none" /\ spawns = 0
    /\ mgr = [exec |-> Nothing, record |-> Nothing, unwinding |-> {}]
    /\ view = [lane |-> Nothing, goal |-> "none", closeout |-> {}]
    /\ freeze = FALSE /\ frozen = {} /\ boots = 0

-----------------------------------------------------------------------------
\* What an event shows

\* listWorkflows: completed runs have no lane, ended ones a paused one.
Lane(status) ==
    CASE status = "running" -> "running"
      [] status \in {"paused", "limited", "failed", "aborted"} -> "paused"
      [] OTHER -> "absent"

Present(record) == {r \in Runs : record[r] # "absent"}

\* Mutant: a run that no longer executes counts as done.
ProgressCompleteMutant(record) ==
    Present(record) # {} /\ \A r \in Present(record) : record[r] # "running"

\* getGoalProgress: runs of a launch that failed carry the same goal id.
ProgressComplete(record) ==
    Present(record) # {} /\ \A r \in Present(record) : record[r] = "completed"

\* syncWorkflows; the closeout is kept from the first time all is complete.
Synced(v, record) ==
    LET tracked == v.goal \in {"running", "complete"}
        done == ProgressComplete(record)
    IN  [lane     |-> [r \in Runs |-> Lane(record[r])],
         goal     |-> IF ~tracked THEN v.goal
                      ELSE IF done THEN "complete" ELSE "running",
         closeout |-> IF tracked /\ done /\ v.closeout = {} THEN Present(record)
                      ELSE v.closeout]

-----------------------------------------------------------------------------
\* The manager's operations, as Helm's listener sees them

\* A state for the folds below: the manager and the view.
Now == [mgr |-> mgr, view |-> view]
Set(s) == mgr' = s.mgr /\ view' = s.view

\* A status changes and is announced; the record is written after that.
Ended(s, r, status) ==
    [mgr  |-> [s.mgr EXCEPT !.exec[r] = status, !.record[r] = status],
     view |-> Synced(s.view, s.mgr.record)]

\* pause() and stop() abort an execution that has yet to unwind.
Aborted(s, r, status) ==
    LET e == Ended(s, r, status)
    IN  IF s.mgr.exec[r] = "running"
        THEN [e EXCEPT !.mgr.unwinding = @ \cup {r}] ELSE e

ManagerPause(s, r) ==
    IF s.mgr.exec[r] = "running" THEN Aborted(s, r, "paused") ELSE s

Resumable(s, r) == s.mgr.exec[r] \in {"paused", "limited", "failed"}

\* resume() writes the record first; it refuses ended and executing runs.
ManagerResume(s, r) ==
    IF ~Resumable(s, r) THEN s
    ELSE LET m == [s.mgr EXCEPT !.exec[r] = "running", !.record[r] = "running"]
         IN  [mgr |-> m, view |-> Synced(s.view, m.record)]

\* The store's own transitions come before the manager is asked.
Shown(s, r, from, to) ==
    IF s.view.lane[r] = from THEN [s EXCEPT !.view.lane[r] = to] ELSE s

PauseLane(s, r)  == ManagerPause(Shown(s, r, "running", "paused"), r)
ResumeLane(s, r) == ManagerResume(Shown(s, r, "paused", "running"), r)

-----------------------------------------------------------------------------
\* Intake and launch

Still == UNCHANGED <<freeze, frozen, boots>>

\* Another draft would be another goal.
CreateDraft ==
    /\ intake = "none" /\ view.goal = "none" /\ spawns = 0
    /\ intake' \in {"asking", "ready"}
    /\ UNCHANGED <<spawns, mgr, view>> /\ Still

Answer ==
    /\ intake = "asking" /\ intake' \in {"asking", "ready"}
    /\ UNCHANGED <<spawns, mgr, view>> /\ Still

Discard ==
    /\ intake # "none" /\ intake' = "none"
    /\ UNCHANGED <<spawns, mgr, view>> /\ Still

\* startGoal: the first n runs of the plan are started, in order.
Started(n) ==
    LET new == {r \in Runs : r[1] <= n /\ r[2] = spawns + 1}
        With(f) == [r \in Runs |-> IF r \in new THEN "running" ELSE f[r]]
    IN  [mgr EXCEPT !.exec = With(@), !.record = With(@)]

\* goal.spawn: a run that cannot be started throws, and the goal is not
\* added although the runs before it execute.
Spawn(n) ==
    /\ intake = "ready" /\ spawns < MaxSpawns
    /\ spawns' = spawns + 1
    /\ mgr' = Started(n)
    /\ IF n = Plans
       THEN /\ intake' = "none"
            /\ view' = Synced([view EXCEPT !.goal = "running"], mgr'.record)
       ELSE UNCHANGED <<intake, view>>
    /\ Still

\* goal.archive, from the closeout
Archive ==
    /\ view.goal \in {"running", "complete"}
    /\ view' = [view EXCEPT !.goal = "archived"]
    /\ UNCHANGED <<intake, spawns, mgr>> /\ Still

-----------------------------------------------------------------------------
\* Runs and the operator

\* "phase", "agentStart" and "agentEnd"
Progresses(r) ==
    /\ mgr.exec[r] = "running"
    /\ view' = Synced(view, mgr.record) /\ view' # view
    /\ UNCHANGED <<intake, spawns, mgr>> /\ Still

Ends(r, status) ==
    /\ mgr.exec[r] = "running"
    /\ Set(Ended(Now, r, status))
    /\ UNCHANGED <<intake, spawns>> /\ Still

\* The error event of an aborted execution.
Unwinds(r) ==
    /\ r \in mgr.unwinding
    /\ mgr' = [mgr EXCEPT !.unwinding = @ \ {r}]
    /\ view' = Synced(view, mgr.record)
    /\ UNCHANGED <<intake, spawns>> /\ Still

\* The scheduler resumes a run paused on a usage limit, frozen or not.
LimitLifts(r) ==
    /\ mgr.exec[r] = "limited"
    /\ Set(ManagerResume(Now, r))
    /\ UNCHANGED <<intake, spawns>> /\ Still

\* Stopped in the workflow navigator.
Stops(r) ==
    /\ mgr.exec[r] \in {"running", "paused", "limited"}
    /\ Set(Aborted(Now, r, "aborted"))
    /\ UNCHANGED <<intake, spawns>> /\ Still

\* workflow.togglePause acts on the lane's state.
ToggleLane(r) ==
    /\ view.lane[r] # "absent" /\ r \notin mgr.unwinding
    /\ Set(IF view.lane[r] = "paused" THEN ResumeLane(Now, r) ELSE PauseLane(Now, r))
    /\ UNCHANGED <<intake, spawns>> /\ Still

Lanes == {r \in Runs : view.lane[r] # "absent"}

\* goal.togglePause: all lanes, one after the other.
ToggleGoal ==
    /\ view.goal # "none" /\ mgr.unwinding \cap Lanes = {}
    /\ LET resume == Lanes # {} /\ \A r \in Lanes : view.lane[r] = "paused"
           Step(r, s) == IF resume THEN ResumeLane(s, r) ELSE PauseLane(s, r)
       IN  Set(FoldSet(Step, Now, Lanes))
    /\ UNCHANGED <<intake, spawns>> /\ Still

\* pauseAll: what the port pauses is the checkpoint.
FreezeAll ==
    /\ ~freeze /\ freeze' = TRUE
    /\ frozen' = {r \in Runs : mgr.record[r] = "running" /\ mgr.exec[r] = "running"}
    /\ LET Step(r, s) == ManagerPause(s, r) IN Set(FoldSet(Step, Now, frozen'))
    /\ UNCHANGED <<intake, spawns, boots>>

ThawAll ==
    /\ freeze /\ freeze' = FALSE /\ frozen' = {} /\ frozen \cap mgr.unwinding = {}
    /\ LET Step(r, s) == ManagerResume(s, r) IN Set(FoldSet(Step, Now, frozen))
    /\ UNCHANGED <<intake, spawns, boots>>

\* A new process: recoverStaleRuns pauses what was executing, and the data
\* source derives everything again.
Restart ==
    /\ boots < MaxBoots /\ boots' = boots + 1
    /\ LET Recovered(f) == [r \in Runs |-> IF f[r] = "running" THEN "paused" ELSE f[r]]
       IN  mgr' = [exec |-> Recovered(mgr.record), record |-> Recovered(mgr.record),
                   unwinding |-> {}]
    /\ view' = Synced(view, mgr'.record)
    /\ UNCHANGED <<intake, spawns, freeze, frozen>>

-----------------------------------------------------------------------------
Next ==
    \/ CreateDraft \/ Answer \/ Discard \/ Archive
    \/ \E n \in 0 .. Plans : Spawn(n)
    \/ \E r \in Runs : \/ Progresses(r) \/ Unwinds(r) \/ LimitLifts(r)
                       \/ Stops(r) \/ ToggleLane(r)
                       \/ \E s \in {"completed", "failed", "limited"} : Ends(r, s)
    \/ ToggleGoal \/ FreezeAll \/ ThawAll \/ Restart

Spec == Init /\ [][Next]_gvars

-----------------------------------------------------------------------------
\* A goal shown complete is complete: every run started for it, those of a
\* launch that failed half-way included, has completed and stays so, and its
\* closeout counts them all.
CompleteIsComplete ==
    view.goal = "complete" =>
        /\ \A r \in Runs : mgr.exec[r] \in {"absent", "completed"}
        /\ view.closeout = {r \in Runs : mgr.exec[r] = "completed"}

\* workflow-manager.ts:728 "Persist before notifying renderers: listRuns() is
\* their source of truth for lifecycle status": once every run of a goal has
\* completed, the goal is shown as complete.
CompletionIsSeen ==
    view.goal = "running" => \E r \in Runs : mgr.exec[r] \notin {"absent", "completed"}
=============================================================================
