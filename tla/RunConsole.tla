----------------------------- MODULE RunConsole -----------------------------
(***************************************************************************)
(* What the operator is told of the workflow runs and does to them: the    *)
(* delivery of results to the chat (task-panel.ts), "/workflows watch"     *)
(* and the other subcommands (workflow-commands.ts), and the navigator     *)
(* (workflow-ui.ts).  Of the manager this keeps the run in memory, the     *)
(* execution behind it, the record, and the events with their moment: the  *)
(* listeners run inside emit, before the record is written.                *)
(*                                                                         *)
(* A message that cannot reach the chat becomes a banner; a message here   *)
(* has reached one of the two.  What the end of a removed execution makes  *)
(* the listeners say is not counted.                                       *)
(***************************************************************************)
EXTENDS Naturals, FiniteSets, Sequences, SequencesExt

CONSTANTS RunIds,   \* run ids, in the order they are given out: 1 .. RunIds
          MaxResumes

VARIABLES run,     \* the run in memory and its current execution
          removed, \* how many executions of the run go on after its removal
          stored,  \* the status in the record, "none" without one
          order,   \* records, the last written first
          told,    \* messages about the end of the current execution
          watch,   \* watched runs
          resumes, \* bound
          nav      \* the navigator: where it is, the cursor of its list, its run

consoleVars == <<run, removed, stored, order, told, watch, resumes, nav>>

Runs    == 1 .. RunIds
Ends    == {"completed", "failed", "limit"}
NoRun   == [status |-> "absent", background |-> FALSE, inline |-> FALSE,
            live |-> FALSE, end |-> "none"]
Closed  == [at |-> "closed", cursor |-> 1, run |-> 0]

ConsoleTypeOK ==
    /\ run \in [Runs -> [status : {"absent", "running", "paused", "completed", "failed", "aborted"},
                         background : BOOLEAN, inline : BOOLEAN, live : BOOLEAN,
                         end : Ends \cup {"none"}]]
    /\ removed \in [Runs -> 0 .. MaxResumes + 1]
    /\ stored \in [Runs -> {"none", "running", "paused", "completed", "failed", "aborted"}]
    /\ order \in Seq(Runs) /\ IsInjective(order)
    /\ told \in [Runs -> 0 .. 2]
    /\ watch \subseteq Runs
    /\ resumes \in 0 .. MaxResumes
    /\ nav \in [at : {"closed", "runs", "run"}, cursor : 1 .. RunIds, run : 0 .. RunIds]

Init ==
    /\ run = [r \in Runs |-> NoRun] /\ removed = [r \in Runs |-> 0]
    /\ stored = [r \in Runs |-> "none"] /\ order = <<>>
    /\ told = [r \in Runs |-> 0]
    /\ watch = {} /\ resumes = 0 /\ nav = Closed

-----------------------------------------------------------------------------
Known(r)   == run[r].status # "absent"
Running(r) == run[r].status = "running"

\* The abort of a pause or a stop unwinds the execution before pi handles
\* anything else of the operator's.
Unwound(r) == run[r].live => Running(r)

\* persistRun; list sorts by the time of writing.
Persist(r, status) ==
    /\ stored' = [stored EXCEPT ![r] = status]
    /\ order' = <<r>> \o SelectSeq(order, LAMBDA q : q # r)

\* The listeners of "complete", "error" and "paused": they ask for the run by
\* its id, and say nothing of one that returns its result to a tool call, or
\* that the operator paused or stopped.
Reported(r, event) ==
    /\ Known(r)' /\ run'[r].background
    /\ event = "error" => run'[r].status \notin {"aborted", "paused"}

Start(r, background, inline) ==
    /\ ~Known(r) /\ stored[r] = "none" /\ removed[r] = 0
    /\ \A q \in 1 .. r - 1 : Known(q) \/ stored[q] # "none"
    /\ run' = [run EXCEPT ![r] = [status |-> "running", background |-> background,
                                  inline |-> inline, live |-> TRUE, end |-> "none"]]
    /\ Persist(r, "running")
    /\ told' = [told EXCEPT ![r] = 0]

\* The workflow tool, in the background or waiting for the result, or the
\* command of a saved workflow, which starts a background run and waits.
Launch(r, background, inline) ==
    /\ background \/ inline
    /\ Start(r, background, inline) /\ UNCHANGED <<removed, watch, resumes, nav>>

Progress(r) ==
    /\ Running(r) /\ run[r].live /\ Persist(r, "running")
    /\ UNCHANGED <<run, removed, told, watch, resumes, nav>>

\* The current execution ends.  One that was paused or stopped keeps that
\* status, unless the script finished nevertheless.
Settle(r, end) ==
    LET cut    == run[r].status # "running"
        own    == ~cut \/ end = "completed"
        status == IF end = "completed" THEN "completed"
                  ELSE IF cut THEN run[r].status
                  ELSE IF end = "limit" THEN "paused" ELSE "failed"
        event  == CASE end = "completed" -> "complete"
                    [] ~cut /\ end = "limit" -> "paused"
                    [] OTHER -> "error"
        times  == (IF Reported(r, event) THEN 1 ELSE 0)
                  + (IF run[r].inline /\ own THEN 1 ELSE 0)
    IN  /\ Known(r) /\ run[r].live
        /\ run' = [run EXCEPT ![r] = [@ EXCEPT !.status = status, !.live = FALSE,
                                             !.end = IF own THEN end ELSE "none"]]
        /\ told' = [told EXCEPT ![r] = times]
        /\ watch' = watch \ {r}
        /\ Persist(r, status)
        /\ UNCHANGED <<removed, resumes, nav>>

\* The execution of a run that was removed goes on: it writes the record again
\* with its progress, and once more when it ends.
RemovedProgress(r) ==
    /\ removed[r] > 0 /\ Persist(r, "running")
    /\ UNCHANGED <<run, removed, told, watch, resumes, nav>>

SettleRemoved(r, end) ==
    /\ removed[r] > 0
    /\ removed' = [removed EXCEPT ![r] = @ - 1]
    /\ watch' = watch \ {r}
    /\ Persist(r, CASE end = "completed" -> "completed"
                    [] end = "limit"     -> "paused"
                    [] OTHER             -> "failed")
    /\ UNCHANGED <<run, told, resumes, nav>>

-----------------------------------------------------------------------------
\* What ends a run, or pauses it, ends a watch.
Pause(r) ==
    /\ Running(r)
    /\ run' = [run EXCEPT ![r].status = "paused"]
    /\ watch' = watch \ {r}
    /\ Persist(r, "paused")
    /\ UNCHANGED <<removed, told, resumes>>

Stop(r) ==
    /\ run[r].status \in {"running", "paused"}
    /\ run' = [run EXCEPT ![r].status = "aborted"]
    /\ watch' = watch \ {r} /\ Persist(r, "aborted")
    /\ UNCHANGED <<removed, told, resumes>>

\* Mutant: a resumed run keeps the way it was started.
ResumedMutant(r) == [run[r] EXCEPT !.status = "running", !.inline = FALSE,
                                   !.live = TRUE, !.end = "none"]

\* The run that resume puts in memory: always in the background.
Resumed(r) == [status |-> "running", background |-> TRUE, inline |-> FALSE,
               live |-> TRUE, end |-> "none"]

Resume(r) ==
    /\ resumes < MaxResumes /\ resumes' = resumes + 1
    /\ run[r].status \notin {"running", "aborted"} /\ Unwound(r)
    /\ stored[r] \in {"running", "paused", "failed"}
    /\ run' = [run EXCEPT ![r] = Resumed(r)]
    /\ told' = [told EXCEPT ![r] = 0]
    /\ Persist(r, "running")
    /\ UNCHANGED <<removed, watch, nav>>

\* deleteRun: forgets the run and gives its lease back, but aborts nothing.
DeleteRun(r) ==
    /\ stored[r] # "none" /\ Unwound(r)
    /\ run' = [run EXCEPT ![r] = NoRun]
    /\ removed' = [removed EXCEPT ![r] = IF run[r].live THEN @ + 1 ELSE @]
    /\ stored' = [stored EXCEPT ![r] = "none"]
    /\ order' = SelectSeq(order, LAMBDA q : q # r)
    /\ told' = [told EXCEPT ![r] = 0]
    /\ UNCHANGED <<watch, resumes, nav>>

\* watchRun
Watch(r) ==
    /\ Running(r) /\ watch' = watch \cup {r}
    /\ UNCHANGED <<run, removed, stored, order, told, resumes, nav>>

-----------------------------------------------------------------------------
\* The navigator reads the records afresh at every key, and its cursor is an
\* index: it stays while the rows move.  drill and back are a level deep here.
Clamped(n) == IF n > Len(order) /\ order # <<>> THEN Len(order) ELSE n

Open ==
    /\ nav.at = "closed" /\ nav' = [Closed EXCEPT !.at = "runs"]
    /\ UNCHANGED <<run, removed, stored, order, told, watch, resumes>>

Move ==
    /\ nav.at = "runs" /\ order # <<>>
    /\ nav' = [nav EXCEPT !.cursor = (Clamped(@) % Len(order)) + 1]
    /\ UNCHANGED <<run, removed, stored, order, told, watch, resumes>>

Drill ==
    /\ nav.at = "runs" /\ nav.cursor <= Len(order)
    /\ nav' = [nav EXCEPT !.at = "run", !.run = order[nav.cursor]]
    /\ UNCHANGED <<run, removed, stored, order, told, watch, resumes>>

Back ==
    /\ nav.at # "closed"
    /\ nav' = IF nav.at = "run" THEN [nav EXCEPT !.at = "runs", !.run = 0] ELSE Closed
    /\ UNCHANGED <<run, removed, stored, order, told, watch, resumes>>

\* activeRunId: none below the runs of the list.
Active == CASE nav.at = "run" -> {nav.run}
            [] nav.at = "runs" /\ nav.cursor <= Len(order) -> {order[nav.cursor]}
            [] OTHER -> {}

\* p, x and r, on the row of the cursor
Key ==
    \E r \in Active :
       /\ UNCHANGED nav
       /\ \/ Pause(r) \/ Stop(r)
          \/ /\ stored[r] # "none"
             /\ \E q \in Runs : Start(q, TRUE, FALSE)
             /\ UNCHANGED <<removed, watch, resumes>>

Next ==
    \/ Open \/ Move \/ Drill \/ Back \/ Key
    \/ \E r \in Runs :
          \/ Progress(r) \/ RemovedProgress(r) \/ Watch(r) \/ Resume(r) \/ DeleteRun(r)
          \/ Pause(r) /\ UNCHANGED nav
          \/ Stop(r) /\ UNCHANGED nav
          \/ \E background, inline \in BOOLEAN : Launch(r, background, inline)
          \/ \E end \in Ends : Settle(r, end) \/ SettleRemoved(r, end)

Spec == Init /\ [][Next]_consoleVars

-----------------------------------------------------------------------------
\* task-panel.ts:240 "it must also never be silently lost", :262-263
\* "re-delivering would dup it": an execution that ended by itself is reported,
\* to the chat or as the result of the tool call, whatever was paused, resumed,
\* watched or removed around it; and once, but for the run of a command, of
\* which the listener and the command that waits for it both tell.
EndIsToldOnce ==
    \A r \in Runs : Known(r) /\ run[r].end # "none" =>
        \/ told[r] = 1
        \/ told[r] = 2 /\ run[r].background /\ run[r].inline

\* workflow-manager.ts:684 "refuse to resume a run that is already running":
\* while the resumed run executes, no other execution of that run does.
RunningIsNotResumed == \A r \in Runs : run[r].live => removed[r] = 0
=============================================================================
