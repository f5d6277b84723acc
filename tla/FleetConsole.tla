---------------------------- MODULE FleetConsole ----------------------------
(***************************************************************************)
(* The fleet managers of several pi processes (cmux/register.ts,           *)
(* cmux/fleet-manager.ts): a session has a manager of its own, with a      *)
(* state file, a recorded owner and an event tail; a switch of sessions    *)
(* replaces it, a start sweeps what dead processes left, and tasks, fleets *)
(* and stops come whenever the operator or the model asks.  What happens   *)
(* to one Claude between its launch and its end is in ClaudeFleet; here it *)
(* is alive or not.                                                        *)
(*                                                                         *)
(* pi is external: it tells a session's end before the next one's start,   *)
(* may load the extension anew in between, takes no input while it handles *)
(* either, and has a session open in one process at a time.                *)
(***************************************************************************)
EXTENDS Naturals, FiniteSets

CONSTANTS Pis, Keys, Claudes, \* processes, sessions, Claudes ever asked for
          MaxManagers,        \* bound: managers ever made
          Workers,            \* config.maxConcurrency
          MarkFails           \* owner.pid may be unwritable

VARIABLES host,      \* per process: where it is, its manager, the one before
          managers,  \* the ClaudeFleetManagers ever made
          shelf,     \* per session: state.json and owner.pid
          claude,    \* per Claude: its task, whether it lives
          answer     \* the last answer to a Claude

fleetVars == <<host, managers, shelf, claude, answer>>

Managers == 1 .. MaxManagers
NoAnswer == [kind |-> "none", picked |-> "none", action |-> "none"]
Unmade   == [key |-> CHOOSE k \in Keys : TRUE, pi |-> 0, phase |-> "none", runs |-> {},
             done |-> {}, shut |-> "no", active |-> {}, orphans |-> {}, peers |-> {}]

Init ==
    /\ host = [p \in Pis |-> [at |-> "off", holder |-> 0, prev |-> 0]]
    /\ managers = [i \in Managers |-> Unmade]
    /\ shelf = [k \in Keys |-> [runs |-> {}, owner |-> 0]]
    /\ claude = [c \in Claudes |-> [at |-> "none", by |-> 0, task |-> FALSE, late |-> FALSE,
                                    lost |-> FALSE, swept |-> "no"]]
    /\ answer = NoAnswer

Phases == {"none", "made", "marked", "sweeping", "loading", "loaded", "up", "refused", "failed",
           "down"}

TypeOK ==
    /\ \A p \in Pis : /\ host[p].at \in {"off", "idle", "leaving", "left", "starting", "quitting",
                                         "gone"}
                      /\ {host[p].holder, host[p].prev} \subseteq Managers \cup {0}
    /\ \A i \in Managers : /\ managers[i].phase \in Phases
                           /\ managers[i].shut \in {"no", "stopping", "closing"}
                           /\ managers[i].done \subseteq managers[i].runs
                           /\ managers[i].active \subseteq managers[i].runs
    /\ \A k \in Keys : shelf[k].runs \subseteq Claudes /\ shelf[k].owner \in Pis \cup {0}
    /\ \A c \in Claudes :
          /\ claude[c].at \in {"none", "queued", "asked", "ready", "alive", "dead"}
          /\ claude[c].lost \in BOOLEAN
          /\ claude[c].swept \in {"no", "orphan", "adopted", "peer"}

Up(i)      == managers[i].phase = "up"
Live(m)    == m.runs \ m.done
Running(p) == host[p].at \notin {"off", "gone"}
HolderOf(p) == managers[host[p].holder]
Supervised(c) == \E i \in Managers : Up(i) /\ c \in managers[i].runs

-----------------------------------------------------------------------------
\* A manager with other runs than those in its file takes the others out of it.
Struck(m, c) == c \in shelf[m.key].runs \ m.runs /\ claude[c].at = "alive"

\* persist(): the file is what this manager has that is not over.
Saved(m) == [shelf EXCEPT ![m.key].runs = Live(m)]

\* Another process has opened the session of manager i since.
TakenOver(i) ==
    \E j \in Managers : /\ j > i /\ managers[j].phase # "none"
                        /\ managers[j].key = managers[i].key /\ managers[j].pi # managers[i].pi

\* The Claudes after manager i, which is now m, ended those of `ended` and saved.
After(i, m, ended) ==
    [c \in Claudes |->
       IF c \in ended THEN [claude[c] EXCEPT !.at = "dead", !.task = FALSE]
       ELSE IF Struck(m, c)
            THEN [claude[c] EXCEPT !.lost =
                    @ \/ (m.phase # "up" /\ (m.shut = "no" \/ TakenOver(i)))]
       ELSE claude[c]]

\* terminate() of some of its runs, in parallel, and persist(); the task of one
\* that is over fails.
Ends(i, some) ==
    LET m == [managers[i] EXCEPT !.done = @ \cup some]
    IN  /\ managers' = [managers EXCEPT ![i] = m]
        /\ shelf' = Saved(m) /\ claude' = After(i, m, some)
        /\ UNCHANGED <<host, answer>>

-----------------------------------------------------------------------------
\* Mutant: also a holder that never started is torn down.
ShutdownMutant(i, cleanup) ==
    [managers[i] EXCEPT !.shut = IF cleanup THEN "stopping" ELSE "closing",
                        !.active = IF cleanup THEN Live(managers[i]) ELSE {}]

\* shutdown(): nothing to do for a manager that did not start and has no runs;
\* with cleanup stopAll() comes first, over the runs there are now.
Shutdown(i, cleanup) ==
    IF ~Up(i) /\ managers[i].runs = {} THEN managers[i]
    ELSE [managers[i] EXCEPT !.shut = IF cleanup THEN "stopping" ELSE "closing",
                             !.active = IF cleanup THEN Live(managers[i]) ELSE {}]

\* session_start: the manager of the session takes the holder over and the one
\* it replaces is shut down.  In an extension loaded anew that is the bootstrap
\* holder, which never started.
Open(p, k, anew) ==
    \E i \in Managers :
      /\ host[p].at \in {"off", "left"} /\ (host[p].at = "off" => anew)
      /\ managers[i].phase = "none" /\ \A j \in 1 .. i - 1 : managers[j].phase # "none"
      /\ i = 1 => k = Unmade.key                                 \* the first that is opened
      /\ \A q \in Pis : (q < p => host[q].at # "off") /\ (q # p /\ Running(q) => HolderOf(q).key # k)
      /\ managers' = [j \in Managers |->
                        IF j = i THEN [Unmade EXCEPT !.key = k, !.pi = p, !.phase = "made"]
                        ELSE IF j = host[p].holder /\ ~anew THEN Shutdown(j, TRUE)
                        ELSE managers[j]]
      /\ host' = [host EXCEPT ![p] = [at |-> "starting", holder |-> i,
                                      prev |-> IF anew THEN 0 ELSE @.holder]]
      /\ UNCHANGED <<shelf, claude, answer>>

\* session_shutdown, which cleans up only when pi quits.
Leave(p, quit) ==
    /\ host[p].at = "idle"
    /\ managers' = [managers EXCEPT ![host[p].holder] = Shutdown(host[p].holder, quit)]
    /\ host' = [host EXCEPT ![p].at = IF quit THEN "quitting" ELSE "leaving"]
    /\ UNCHANGED <<shelf, claude, answer>>

StopsActive(i) ==
    /\ managers[i].shut = "stopping"
    /\ LET m == [managers[i] EXCEPT !.done = @ \cup managers[i].active, !.active = {},
                                    !.shut = "closing"]
       IN  /\ managers' = [managers EXCEPT ![i] = m]
           /\ shelf' = Saved(m) /\ claude' = After(i, m, managers[i].active)
    /\ UNCHANGED <<host, answer>>

\* The broker and the tail stop, the file is saved, and only then is the
\* manager no longer started.
Closes(i) ==
    /\ managers[i].shut = "closing"
    /\ managers' = [managers EXCEPT ![i].shut = "no",
                                    ![i].phase = IF @ = "up" THEN "down" ELSE @]
    /\ shelf' = Saved(managers[i]) /\ claude' = After(i, managers[i], {})
    /\ UNCHANGED <<host, answer>>

\* What a process that ends takes with it: its managers and its tasks.
Dies(p) ==
    /\ host' = [host EXCEPT ![p].at = "gone"]
    /\ managers' = [i \in Managers |->
                      IF managers[i].pi = p THEN [Unmade EXCEPT !.key = managers[i].key, !.pi = p,
                                                             !.phase = "down"]
                      ELSE managers[i]]
    /\ claude' = [c \in Claudes |->
                    IF claude[c].by = 0 \/ managers[claude[c].by].pi # p THEN claude[c]
                    ELSE IF claude[c].at = "alive" THEN [claude[c] EXCEPT !.task = FALSE]
                    ELSE [claude[c] EXCEPT !.at = "dead"]]
    /\ UNCHANGED <<shelf, answer>>

HasLeft(p) ==
    /\ host[p].at \in {"leaving", "quitting"} /\ HolderOf(p).shut = "no"
    /\ IF host[p].at = "quitting" THEN Dies(p)
       ELSE /\ host' = [host EXCEPT ![p].at = "left"]
            /\ UNCHANGED <<managers, shelf, claude, answer>>

Crash(p) == Running(p) /\ Dies(p)

-----------------------------------------------------------------------------
\* markInstanceOwner(): best effort.
Marked(i, written) ==
    IF written THEN [shelf EXCEPT ![managers[i].key].owner = managers[i].pi] ELSE shelf

\* startInternal, when the manager before is down: the compatibility gate and
\* the search for a window refuse, or the process is marked as the owner, if
\* that can be written.
Gate(i, passes, marks) ==
    LET p == managers[i].pi IN
    /\ managers[i].phase = "made" /\ (host[p].prev # 0 => managers[host[p].prev].shut = "no")
    /\ (~passes => marks) /\ (~MarkFails => marks)
    /\ managers' = [managers EXCEPT ![i].phase = IF passes THEN "marked" ELSE "refused"]
    /\ shelf' = Marked(i, passes /\ marks)
    /\ host' = IF passes THEN host ELSE [host EXCEPT ![p].at = "idle", ![p].prev = 0]
    /\ UNCHANGED <<claude, answer>>

\* Mutant: the sweep does not ask whether the owner lives.
OrphanedMutant(i, k) == k # managers[i].key /\ shelf[k].owner # 0

\* sweepOrphanInstances: an instance with an owner that is affirmatively dead.
Orphaned(i, k) == k # managers[i].key /\ shelf[k].owner # 0 /\ ~Running(shelf[k].owner)

SweepReads(i) ==
    /\ managers[i].phase = "marked"
    /\ managers' = [managers EXCEPT ![i].phase = "sweeping",
                                    ![i].orphans = {k \in Keys : Orphaned(i, k)},
                                    ![i].peers = {c \in Claudes : Supervised(c)}]
    /\ UNCHANGED <<host, shelf, claude, answer>>

\* Then the file of each is read and its Claudes are killed.
SweepKills(i) ==
    /\ managers[i].phase = "sweeping"
    /\ claude' = [c \in Claudes |->
                    IF claude[c].at = "alive" /\ \E k \in managers[i].orphans : c \in shelf[k].runs
                    THEN [claude[c] EXCEPT !.at = "dead", !.task = FALSE,
                            !.swept = CASE ~Supervised(c) -> "orphan"
                                        [] Supervised(c) /\ c \in managers[i].peers -> "peer"
                                        [] OTHER -> "adopted"]
                    ELSE claude[c]]
    /\ managers' = [managers EXCEPT ![i].phase = "loading", ![i].orphans = {}, ![i].peers = {}]
    /\ UNCHANGED <<host, shelf, answer>>

\* Mutant: only the sessions of this process are taken over.
LoadMutant(i) ==
    /\ managers[i].phase = "loading"
    /\ managers' = [managers EXCEPT ![i].phase = "loaded",
                      ![i].runs = {c \in shelf[managers[i].key].runs :
                                     managers[claude[c].by].pi = managers[i].pi}]
    /\ UNCHANGED <<host, shelf, claude, answer>>

Load(i) ==
    /\ managers[i].phase = "loading"
    /\ managers' = [managers EXCEPT ![i].phase = "loaded", ![i].runs = shelf[managers[i].key].runs]
    /\ UNCHANGED <<host, shelf, claude, answer>>

\* The broker listens; events.start() may throw; with runs there follows a
\* reconciliation, which saves.
Tail(i, comes) ==
    LET m == [managers[i] EXCEPT !.phase = IF comes THEN "up" ELSE "failed"]
    IN  /\ managers[i].phase = "loaded"
        /\ managers' = [managers EXCEPT ![i] = m]
        /\ IF comes /\ m.runs # {} THEN shelf' = Saved(m) /\ claude' = After(i, m, {})
           ELSE UNCHANGED <<shelf, claude>>
        /\ host' = [host EXCEPT ![m.pi].at = "idle", ![m.pi].prev = 0]
        /\ UNCHANGED answer

-----------------------------------------------------------------------------
Tasks(i) == {c \in Claudes : claude[c].by = i /\ (claude[c].at \in {"asked", "ready"}
                                                  \/ claude[c].task)}

\* runTask, runFleet by the tool or the command: the manager held now gets the
\* tasks, and its workers take the first of them.
Ask(p, tasks) ==
    LET i == host[p].holder
        first == {c \in tasks : Cardinality({d \in tasks : d < c}) < Workers}
    IN  /\ host[p].at = "idle" /\ tasks # {} /\ \A c \in tasks : claude[c].at = "none"
        /\ \A c \in Claudes \ tasks : claude[c].at = "none" => \A d \in tasks : d < c
        /\ claude' = [c \in Claudes |->
                        IF c \notin tasks THEN claude[c]
                        ELSE [claude[c] EXCEPT !.by = i,
                                !.at = IF c \in first THEN "asked" ELSE "queued"]]
        /\ UNCHANGED <<host, managers, shelf, answer>>

\* A worker whose task is over takes the next of the fleet.
NextTask(c) ==
    /\ claude[c].at = "queued" /\ Cardinality(Tasks(claude[c].by)) < Workers
    /\ \A d \in Claudes : claude[d].at = "queued" /\ claude[d].by = claude[c].by => c <= d
    /\ claude' = [claude EXCEPT ![c].at = "asked"]
    /\ UNCHANGED <<host, managers, shelf, answer>>

\* ensureReady(): the start that was made once and for all, and whether the
\* manager is started now.
Ready(c) ==
    /\ claude[c].at = "asked"
    /\ claude' = [claude EXCEPT ![c].at = IF Up(claude[c].by) THEN "ready" ELSE "dead"]
    /\ UNCHANGED <<host, managers, shelf, answer>>

\* Mutant: the Claude is launched before its run is on file.
LaunchMutant(c) ==
    LET i == claude[c].by
        m == [managers[i] EXCEPT !.runs = @ \cup {c}]
    IN  /\ claude[c].at = "ready"
        /\ managers' = [managers EXCEPT ![i] = m] /\ UNCHANGED shelf
        /\ claude' = [After(i, m, {}) EXCEPT ![c].at = "alive", ![c].task = TRUE,
                                          ![c].late = ~Up(i) \/ m.shut # "no"]
        /\ UNCHANGED <<host, answer>>

\* The directory has been looked at: the run is recorded, then launched,
\* whatever became of the manager meanwhile.
Launch(c) ==
    LET i == claude[c].by
        m == [managers[i] EXCEPT !.runs = @ \cup {c}]
    IN  /\ claude[c].at = "ready"
        /\ managers' = [managers EXCEPT ![i] = m] /\ shelf' = Saved(m)
        /\ claude' = [After(i, m, {}) EXCEPT ![c].at = "alive", ![c].task = TRUE,
                                          ![c].late = ~Up(i) \/ m.shut # "no"]
        /\ UNCHANGED <<host, answer>>

\* A cwd that is no directory.
LaunchRefused(c) ==
    /\ claude[c].at = "ready" /\ claude' = [claude EXCEPT ![c].at = "dead"]
    /\ UNCHANGED <<host, managers, shelf, answer>>

\* The task is over; a Claude that is to stay open, and did not fail, stays.
TaskEnds(c, stays) ==
    LET i == claude[c].by
    IN  /\ claude[c].at = "alive" /\ claude[c].task
        /\ IF stays THEN /\ claude' = [After(i, managers[i], {}) EXCEPT ![c].task = FALSE]
                         /\ shelf' = Saved(managers[i]) /\ UNCHANGED <<managers, host, answer>>
           ELSE Ends(i, {c})

\* stop(runId), stopAll() by the tool or the command, whatever became of start.
Stop(p, c) == host[p].at = "idle" /\ c \in Live(HolderOf(p)) /\ Ends(host[p].holder, {c})
StopAll(p) == host[p].at = "idle" /\ Ends(host[p].holder, Live(HolderOf(p)))

-----------------------------------------------------------------------------
\* makeDecider, makeTrustDecider: what is offered for a kind of request, the
\* spaces of the labels as underscores; a question is not supported.
Offered(kind) ==
    CASE kind = "permission" -> <<"Allow_once", "Deny">>
      [] kind = "exit-plan"  -> <<"Continue_with_manual_approvals", "Continue_in_auto_mode",
                                  "Deny">>
      [] kind = "trust"      -> <<"Trust", "Deny">>
      [] OTHER               -> <<>>
Granting(kind) ==
    CASE kind = "permission" -> <<"allow-once">>
      [] kind = "exit-plan"  -> <<"plan-manual", "plan-auto">>
      [] kind = "trust"      -> <<"trust">>
      [] OTHER               -> <<>>
Means(text) ==
    CASE text = "Allow_once" -> "allow-once"  [] text = "Trust" -> "trust"
      [] text = "Continue_with_manual_approvals" -> "plan-manual"
      [] text = "Continue_in_auto_mode" -> "plan-auto"
      [] OTHER -> "deny"
Picks == {"Allow_once", "Deny", "Trust", "Continue_with_manual_approvals",
          "Continue_in_auto_mode"}

\* Helm answers with the place of the option, a dialog with its text, or with
\* none when its time is over; without either all is denied.
Decision(kind, route, picked) ==
    CASE route = "helm" ->
           LET at == {i \in DOMAIN Offered(kind) : Offered(kind)[i] = picked}
               idx == CHOOSE i \in at : TRUE
           IN  IF at # {} /\ idx \in DOMAIN Granting(kind) THEN Granting(kind)[idx] ELSE "deny"
      [] route = "dialog" -> Means(picked)
      [] OTHER -> "deny"

Answered(c) ==
    \E kind \in {"permission", "exit-plan", "trust", "question"},
       route \in {"helm", "dialog", "none"}, picked \in Picks \cup {"none"} :
      /\ claude[c].at = "alive" /\ claude[c].task /\ Up(claude[c].by)
      /\ answer = NoAnswer /\ managers[2].phase = "none"    \* bound: asked early
      /\ picked = "none" => route # "helm"
      /\ picked # "none" => route # "none" /\ \E i \in DOMAIN Offered(kind) : Offered(kind)[i] = picked
      /\ answer' = [kind |-> kind, picked |-> picked, action |-> Decision(kind, route, picked)]
      /\ UNCHANGED <<host, managers, shelf, claude>>

Told == answer # NoAnswer /\ answer' = NoAnswer /\ UNCHANGED <<host, managers, shelf, claude>>

\* The answer is delivered before anything else happens.
Next ==
    \/ Told
    \/ answer = NoAnswer /\ \E c \in Claudes :
         \/ NextTask(c) \/ Ready(c) \/ Launch(c) \/ LaunchRefused(c) \/ Answered(c)
         \/ \E stays \in BOOLEAN : TaskEnds(c, stays)
    \/ answer = NoAnswer /\ \E i \in Managers :
         \/ StopsActive(i) \/ Closes(i) \/ SweepReads(i) \/ SweepKills(i) \/ Load(i)
         \/ \E yes, marks \in BOOLEAN : Gate(i, yes, marks)
         \/ \E comes \in BOOLEAN : Tail(i, comes)
    \/ answer = NoAnswer /\ \E p \in Pis :
         \/ HasLeft(p) \/ Crash(p) \/ StopAll(p)
         \/ \E k \in Keys, anew \in BOOLEAN : Open(p, k, anew)
         \/ \E quit \in BOOLEAN : Leave(p, quit)
         \/ \E tasks \in SUBSET Claudes : Ask(p, tasks)
         \/ \E c \in Claudes : Stop(p, c)

Spec == Init /\ [][Next]_fleetVars

-----------------------------------------------------------------------------
\* A Claude that lives is on file, where the next process finds it, whatever
\* crashed, was switched or restarted; unless it was launched by a manager that
\* was shutting down, or the file was written by one that is not started: by a
\* task or a stop, or while it is replaced and another process has its session.
ClaudesAreOnFile ==
    \A c \in Claudes :
      claude[c].at = "alive" /\ ~claude[c].late /\ ~claude[c].lost =>
        c \in shelf[managers[claude[c].by].key].runs

\* One session is supervised by one manager: two would both answer a request.
OneSupervisor ==
    \A i, j \in Managers : Up(i) /\ Up(j) /\ i # j => managers[i].key # managers[j].key

\* No sweep kills a Claude that a manager supervises, and supervised when the
\* sweep looked for dead owners.
PeersAreSpared == \A c \in Claudes : claude[c].swept # "peer"

\* A Claude is granted something only when the operator picked just that.
GrantsArePicked ==
    answer.action \notin {"none", "deny"} =>
      /\ answer.action = Means(answer.picked)
      /\ \E i \in DOMAIN Offered(answer.kind) : Offered(answer.kind)[i] = answer.picked

\* When pi quits it leaves no Claude its manager knows, save one that was
\* launched during the shutdown.
QuitEndsTheFleet ==
    \A p \in Pis : host[p].at = "quitting" /\ HolderOf(p).shut = "no" =>
      \A c \in HolderOf(p).runs : claude[c].at = "alive" => claude[c].late

FleetIsKept == /\ ClaudesAreOnFile /\ OneSupervisor /\ PeersAreSpared /\ QuitEndsTheFleet
               /\ GrantsArePicked

\* Not so: without the exceptions.  A stop of all asked of a manager that
\* refused to start empties the file of the Claudes that live; a fleet goes on
\* to its next task while a quit waits for the first to end; and a sweep kills
\* what was taken over between its look at the owner and its look at the file.
AllStayOnFile == \A c \in Claudes : claude[c].at = "alive" =>
                                       c \in shelf[managers[claude[c].by].key].runs
QuitLeavesNone ==
    \A p \in Pis : host[p].at = "quitting" /\ HolderOf(p).shut = "no" =>
      \A c \in HolderOf(p).runs : claude[c].at # "alive"
AdoptedAreSpared == \A c \in Claudes : claude[c].swept # "adopted"
=============================================================================
