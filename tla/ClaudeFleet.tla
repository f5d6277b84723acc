----------------------------- MODULE ClaudeFleet -----------------------------
(***************************************************************************)
(* One Claude session managed by ClaudeFleetManager                        *)
(* (cmux/fleet-manager.ts): the task that launches it, prompts it and      *)
(* terminates it, the stop command, reconciliation with cmux, the          *)
(* permission broker (cmux/permission-broker.ts) and the state file.       *)
(* They share one mutable record, the ManagedSession, and interleave at    *)
(* every await; a step here is what runs between two of them.              *)
(*                                                                         *)
(* cmux is external: it keeps surfaces (a workspace has one), kills all    *)
(* Claudes when it restarts and may start them again in their surfaces.    *)
(* All Claudes of this module belong to the one session.  What happens     *)
(* inside a turn is the subject of ClaudeTurn.                             *)
(***************************************************************************)
EXTENDS Naturals, Sequences
LOCAL INSTANCE Functions

CONSTANTS
    MaxRequests,               \* bound: permission requests of Claude
    Deadline,                  \* permissionTimeoutMs, in ticks
    MaxResumeAttempts,         \* config.maxResumeAttempts
    AutoRecover,               \* config.autoRecover
    MaxSurfaces, MaxPids,      \* bounds: surfaces and Claudes ever made
    MaxEvents                  \* bound: what befalls the session besides its task

ASSUME BoundsAssumption ==
    /\ Deadline \in Nat \ {0} /\ MaxResumeAttempts \in Nat /\ AutoRecover \in BOOLEAN
    /\ MaxSurfaces \in Nat /\ MaxPids \in Nat /\ MaxEvents \in Nat

Requests == 1 .. MaxRequests
Surfaces == 1 .. MaxSurfaces
Pids     == 1 .. MaxPids
NoRecord == [surf |-> 0, pid |-> 0]
Callers  == {"task", "stop"}

VARIABLES
    run,       \* the ManagedSession
    decider,   \* deciders has an entry for the run
    task,      \* runTask(): where it is, the workspace cmux just made
    term,      \* terminate(): where each caller is
    timers,    \* the ack to come after a restart; reconciliations to come:
               \* after a new boot, after a closed surface
    pass,      \* reconcile()
    desk,      \* the broker: queue, request in hand, state to restore
    asked,     \* per request: age, whether handled, replies
    cmux,      \* surfaces, home of each Claude, hook store record; history: the
               \* surfaces pi failed to note or to close
    up,        \* pi runs
    left,      \* what may still befall the session
    missed,    \* history: nothing looks into a loss (Misses)
    raced      \* history: terminate() overlapped another operation on the run

vars == <<run, decider, task, term, timers, pass, desk, asked, cmux, up, left, missed, raced>>

SessionState == {"none", "created", "launching", "registering", "trust-required", "ready",
                 "submitting", "running", "permission-pending", "recovering", "exiting",
                 "terminated", "failed"}
Prompting == {"registered", "submitting", "running"}
Launching == {"begun", "creating", "created", "registering", "trust"}
TaskState == {"none", "answered", "failing", "ending", "ended"} \cup Prompting \cup Launching

Session == [st : SessionState, sid : BOOLEAN, surf : 0 .. MaxSurfaces, pid : 0 .. MaxPids,
            attempts : 0 .. MaxResumeAttempts, keepOpen : BOOLEAN]
NoSession == [st |-> "none", sid |-> FALSE, surf |-> 0, pid |-> 0, attempts |-> 0,
              keepOpen |-> FALSE]
Records == [surf : 0 .. MaxSurfaces, pid : 0 .. MaxPids]

TypeOK ==
    /\ run \in Session /\ decider \in BOOLEAN
    /\ task \in [pc : TaskState, got : 0 .. MaxSurfaces]
    /\ term \in [Callers -> {"off", "exit", "kill", "end", "done"}]
    /\ timers \subseteq {"ack", "boot", "closed"}
    /\ pass \in [pc : {"idle", "snap", "visit", "alive", "creating", "created",
                       "registering", "sweep", "kill", "persist"},
                 again : BOOLEAN, surfs : SUBSET Surfaces, known : Records,
                 got : 0 .. MaxSurfaces, strays : SUBSET Pids]
    /\ desk.pc \in {"idle", "deciding", "delivering", "restoring"}
    /\ desk.queue \in Seq(Requests) /\ desk.prev \in SessionState
    /\ desk.timer \in 0 .. Deadline /\ desk.say \in {"allow", "deny"}
    /\ asked \in [Requests -> [age : 0 .. Deadline + 1, handled : BOOLEAN,
                               replies : 0 .. 2, late : BOOLEAN]]
    /\ cmux \in [surfs : SUBSET Surfaces, made : 0 .. MaxSurfaces, born : 0 .. MaxPids,
                 home : [Pids -> 0 .. MaxSurfaces], rec : Records, lost : SUBSET Surfaces,
                 restore : SUBSET Surfaces]
    /\ up \in BOOLEAN
    /\ \A p \in Pids : cmux.home[p] # 0 => cmux.home[p] \in cmux.surfs

Idle == [pc |-> "idle", again |-> FALSE, surfs |-> {}, known |-> NoRecord, got |-> 0,
         strays |-> {}]
FreeDesk == [pc |-> "idle", queue |-> <<>>, cur |-> 0, prev |-> "none", timer |-> 0,
             say |-> "deny"]

(* The manager has started: compatible cmux, a window, no earlier session. *)
Init ==
    /\ run = NoSession  /\ decider = FALSE
    /\ task = [pc |-> "none", got |-> 0]
    /\ term = [c \in Callers |-> "off"]
    /\ timers = {} /\ pass = Idle /\ desk = FreeDesk
    /\ asked = [q \in Requests |-> [age |-> 0, handled |-> FALSE, replies |-> 0, late |-> FALSE]]
    /\ cmux = [surfs |-> {}, made |-> 0, born |-> 0, home |-> [p \in Pids |-> 0],
               rec |-> NoRecord, lost |-> {}, restore |-> {}]
    /\ up = TRUE
    /\ left = MaxEvents
    /\ missed = FALSE /\ raced = {}

Alive(p)    == p \in Pids /\ cmux.home[p] # 0
Settled     == {"terminated", "failed", "exiting"}
Supervised  == run.st \notin Settled \cup {"none"}

TermActive(c) == term[c] \notin {"off", "done"}
TaskActive    == task.pc \notin {"none", "ended"}
PassActive    == pass.pc \notin {"idle", "snap"}

(* cmux has restored, and Claude registered, all that they will.           *)
CmuxSettled == cmux.restore = {} /\ \A p \in Pids : Alive(p) => p <= cmux.rec.pid

Overlap(happens, kind) == IF happens THEN {kind} ELSE {}

(* transition(), changed(): the record changes and a save is queued.       *)
Becomes(session) == run' = session
In(st)           == [run EXCEPT !.st = st]
(* applyRecord()                                                           *)
Bound(rec, st) == [run EXCEPT !.sid = TRUE, !.surf = rec.surf, !.pid = rec.pid, !.st = st]

-----------------------------------------------------------------------------
(* cmux and Claude, external.                                              *)

(* createClaudeWorkspace(): a new surface, and a Claude in it.             *)
MakesWorkspace ==
    /\ cmux.made < MaxSurfaces /\ cmux.born < MaxPids
    /\ cmux' = [cmux EXCEPT !.made = @ + 1, !.born = @ + 1, !.surfs = @ \cup {cmux.made + 1},
                            !.home[cmux.born + 1] = cmux.made + 1]

Without(s) == [cmux EXCEPT !.surfs = @ \ {s}, !.restore = @ \ {s},
                           !.home = [p \in Pids |-> IF @[p] = s THEN 0 ELSE @[p]]]
Lost(s)    == [cmux EXCEPT !.lost = @ \cup {s}]
Deserted(s) == [cmux EXCEPT !.lost = @ \cup {s},
                            !.home = [p \in Pids |-> IF @[p] = s THEN 0 ELSE @[p]]]
Killed(p)  == [cmux EXCEPT !.home[p] = 0]

(* The SessionStart hook writes the one record of the session.             *)
ClaudeRegisters ==
    /\ \E p \in Pids :
         /\ Alive(p) /\ cmux.rec.pid < p
         /\ cmux' = [cmux EXCEPT !.rec = [surf |-> cmux.home[p], pid |-> p]]
    /\ UNCHANGED <<run, decider, task, term, timers, pass, desk, asked, up, left, missed, raced>>

(* All Claudes die; cmux will restore some of the surfaces that had one.   *)
CmuxRestarts ==
    /\ left > 0 /\ run.st # "none"
    /\ left' = left - 1
    /\ \E S \in SUBSET {cmux.home[p] : p \in {q \in Pids : Alive(q)}} :
         cmux' = [cmux EXCEPT !.home = [p \in Pids |-> 0], !.restore = S]
    /\ timers' = IF up THEN timers \cup {"ack"} ELSE timers
    /\ raced' = raced \cup Overlap(PassActive, "restart")
    /\ UNCHANGED <<run, decider, task, term, pass, desk, asked, up, missed>>

(* A loss is missed: no reconciliation will come of it.                    *)
Misses(happens) == missed' = (missed \/ happens)

(* The ack of the new connection reaches the listener of startInternal().  *)
(* It shows the new boot, or a gap, and the timer starts; or another frame *)
(* was first to carry the new boot_id and the ack reports no gap: the      *)
(* listener is told of no change.                                          *)
StreamAcks ==
    /\ "ack" \in timers
    /\ \E shown \in BOOLEAN :
         /\ timers' = (timers \ {"ack"}) \cup (IF shown THEN {"boot"} ELSE {})
         /\ Misses(~shown)
    /\ UNCHANGED <<run, decider, task, term, pass, desk, asked, cmux, up, left, raced>>

CmuxRestores ==
    /\ \E s \in cmux.restore :
         cmux' = IF cmux.born < MaxPids
                 THEN [cmux EXCEPT !.born = @ + 1, !.home[cmux.born + 1] = s, !.restore = @ \ {s}]
                 ELSE [cmux EXCEPT !.restore = @ \ {s}]
    /\ UNCHANGED <<run, decider, task, term, timers, pass, desk, asked, up, left, missed, raced>>

(* A user closes a surface; the lifecycle listener decides whether that    *)
(* calls for a reconciliation.                                             *)
Relevant(s) == /\ run.st \notin {"submitting", "running", "permission-pending", "exiting"}
               /\ run.surf = s
UserCloses ==
    /\ left > 0
    /\ left' = left - 1
    /\ \E s \in cmux.surfs :
         /\ cmux' = Without(s)
         /\ timers' = IF up /\ Relevant(s) THEN timers \cup {"closed"} ELSE timers
         /\ Misses(/\ s \in {run.surf, pass.got} /\ ~Relevant(s)
                   /\ task.pc \notin {"submitting", "running"})
    /\ UNCHANGED <<run, decider, task, term, pass, desk, asked, up, raced>>

-----------------------------------------------------------------------------
(* terminate(), called by the task and by the stop command.                *)

Terminates(c) ==
    IF run.st = "terminated"
    THEN term' = [term EXCEPT ![c] = "done"] /\ UNCHANGED run
    ELSE term' = [term EXCEPT ![c] = "exit"] /\ Becomes(In("exiting"))

StopCommand ==
    /\ up /\ left > 0 /\ run.st # "none" /\ term["stop"] = "off"
    /\ left' = left - 1
    /\ Terminates("stop")
    /\ raced' = raced \cup Overlap(TaskActive \/ PassActive, "operation")
    /\ UNCHANGED <<decider, task, timers, pass, desk, asked, cmux, up, missed>>

(* /exit into the surface, and close-workspace.  Both may fail, and the    *)
(* code goes on: the surface or cmux may be gone, and a restart of cmux    *)
(* renumbers the workspaces, while the id in the record is of the last     *)
(* registration.  Where /exit is read, whichever Claude is there leaves.   *)
(* Bound: a close that fails is one of the events.                         *)
ClosesWorkspace(c) ==
    /\ term[c] = "exit"
    /\ term' = [term EXCEPT ![c] = "kill"]
    /\ \/ cmux' = Without(run.surf) /\ UNCHANGED left
       \/ /\ left > 0 /\ run.surf # 0
          /\ left' = left - 1
          /\ cmux' \in {Lost(run.surf), Deserted(run.surf)}
    /\ UNCHANGED <<run, decider, task, timers, pass, desk, asked, up, missed, raced>>

KillsClaude(c) ==
    /\ term[c] = "kill"
    /\ term' = [term EXCEPT ![c] = "end"]
    /\ cmux' = IF Alive(run.pid) THEN Killed(run.pid) ELSE cmux
    /\ UNCHANGED <<run, decider, task, timers, pass, desk, asked, up, left, missed, raced>>

Terminated(c) ==
    /\ term[c] = "end"
    /\ term' = [term EXCEPT ![c] = "done"]
    /\ Becomes(In("terminated"))
    /\ UNCHANGED <<decider, task, timers, pass, desk, asked, cmux, up, left, missed, raced>>

-----------------------------------------------------------------------------
(* runTask().                                                              *)

TaskGoes(pc) == task' = [task EXCEPT !.pc = pc]

RunTask ==
    /\ up /\ task.pc = "none" /\ run.st = "none"
    /\ \E keep \in BOOLEAN :
         Becomes([NoSession EXCEPT !.st = "created", !.keepOpen = keep])
    /\ decider' = TRUE
    /\ TaskGoes("begun")
    /\ UNCHANGED <<term, timers, pass, desk, asked, cmux, up, left, missed, raced>>

(* launch()                                                                *)
LaunchBegins ==
    /\ task.pc = "begun"
    /\ Becomes(In("launching"))
    /\ TaskGoes("creating")
    /\ UNCHANGED <<decider, term, timers, pass, desk, asked, cmux, up, left, missed, raced>>

WorkspaceMade ==
    /\ task.pc = "creating"
    /\ MakesWorkspace
    /\ task' = [pc |-> "created", got |-> cmux.made + 1]
    /\ UNCHANGED <<run, decider, term, timers, pass, desk, asked, up, left, missed, raced>>

(* Mutant: the surface is recorded once the session has registered.        *)
WorkspaceFoundMutant ==
    /\ task.pc = "created"
    /\ Becomes(In("registering"))
    /\ TaskGoes("registering")
    /\ UNCHANGED <<decider, term, timers, pass, desk, asked, cmux, up, left, missed, raced>>

WorkspaceFound ==
    /\ task.pc = "created"
    /\ Becomes([run EXCEPT !.surf = task.got, !.st = "registering"])
    /\ TaskGoes("registering")
    /\ UNCHANGED <<decider, term, timers, pass, desk, asked, cmux, up, left, missed, raced>>

TrustAsked ==
    /\ task.pc = "registering"
    /\ cmux.rec.surf # task.got
    /\ Becomes(In("trust-required"))
    /\ TaskGoes("trust")
    /\ UNCHANGED <<decider, term, timers, pass, desk, asked, cmux, up, left, missed, raced>>

TrustGiven ==
    /\ task.pc = "trust"
    /\ Becomes(In("registering"))
    /\ TaskGoes("registering")
    /\ UNCHANGED <<decider, term, timers, pass, desk, asked, cmux, up, left, missed, raced>>

(* register(): the hook store knows the surface.                           *)
SessionRegisters ==
    /\ task.pc = "registering"
    /\ cmux.rec.surf = task.got
    /\ Becomes(Bound(cmux.rec, "ready"))
    /\ task' = [pc |-> "registered", got |-> 0]
    /\ UNCHANGED <<decider, term, timers, pass, desk, asked, cmux, up, left, missed, raced>>

(* runPrompt(): its checks and the first transition.                       *)
PromptSent ==
    /\ task.pc = "registered"
    /\ run.st = "ready" /\ run.surf # 0 /\ run.sid
    /\ Becomes(In("submitting"))
    /\ TaskGoes("submitting")
    /\ UNCHANGED <<decider, term, timers, pass, desk, asked, cmux, up, left, missed, raced>>

PromptAccepted ==
    /\ task.pc = "submitting"
    /\ \E p \in Pids : Alive(p) /\ cmux.home[p] = run.surf
    /\ Becomes(In("running"))
    /\ TaskGoes("running")
    /\ UNCHANGED <<decider, term, timers, pass, desk, asked, cmux, up, left, missed, raced>>

TurnCompletes ==
    /\ task.pc = "running"
    /\ \E p \in Pids : Alive(p)
    /\ Becomes(Bound(cmux.rec, "ready"))
    /\ TaskGoes("answered")
    /\ UNCHANGED <<decider, term, timers, pass, desk, asked, cmux, up, left, missed, raced>>

(* recoverTurnFromTranscript(): a frame of any kind showed a new epoch.    *)
TurnRecovered ==
    /\ task.pc = "running" /\ timers \cap {"ack", "boot"} # {}
    /\ Becomes(Bound(cmux.rec, "recovering"))
    /\ TaskGoes("answered")
    /\ UNCHANGED <<decider, term, timers, pass, desk, asked, cmux, up, left, missed, raced>>

(* A timeout, an abort signal, a failing command, a refused trust dialog,  *)
(* a closed surface, a state that is not ready: controller.fail().         *)
TaskFails ==
    /\ task.pc \in Launching \cup Prompting
    /\ Becomes(In("failed"))
    /\ task' = [pc |-> "failing", got |-> 0]
    /\ cmux' = IF task.pc = "created" THEN Lost(task.got) ELSE cmux
    /\ UNCHANGED <<decider, term, timers, pass, desk, asked, up, left, missed, raced>>

TaskTerminates ==
    /\ task.pc = "failing" \/ (task.pc = "answered" /\ ~run.keepOpen)
    /\ Terminates("task")
    /\ TaskGoes("ending")
    /\ raced' = raced \cup Overlap(TermActive("stop") \/ PassActive, "operation")
    /\ UNCHANGED <<decider, timers, pass, desk, asked, cmux, up, left, missed>>

TaskEnds ==
    /\ \/ task.pc = "ending" /\ term["task"] = "done"
       \/ task.pc = "answered" /\ run.keepOpen
    /\ TaskGoes("ended")
    /\ decider' = FALSE
    /\ UNCHANGED <<run, term, timers, pass, desk, asked, cmux, up, left, missed, raced>>

-----------------------------------------------------------------------------
(* reconcile(): one pass at a time; a trigger during a pass asks for       *)
(* another one.                                                            *)

(* Mutant: a trigger during a pass is answered by the pass in progress.    *)
ReconcileMutant == pass' = IF pass.pc = "idle" THEN [pass EXCEPT !.pc = "snap", !.again = FALSE]
                           ELSE pass

Reconcile == pass' = IF pass.pc = "idle" THEN [pass EXCEPT !.pc = "snap", !.again = FALSE]
                     ELSE [pass EXCEPT !.again = TRUE]

(* Assumed of the timer of a new boot: recoveryGraceMs is longer than cmux *)
(* takes to restore.                                                       *)
TimerFires ==
    /\ up
    /\ \E t \in timers \ {"ack"} :
         /\ t = "boot" => CmuxSettled
         /\ timers' = timers \ {t}
    /\ Reconcile
    /\ UNCHANGED <<run, decider, task, term, desk, asked, cmux, up, left, missed, raced>>

RecoverCommand ==
    /\ up /\ left > 0 /\ run.st # "none"
    /\ left' = left - 1
    /\ Reconcile
    /\ UNCHANGED <<run, decider, task, term, timers, desk, asked, cmux, up, missed, raced>>

PassEnds == pass' = IF pass.again THEN [Idle EXCEPT !.pc = "snap"] ELSE Idle
Sweeping == [Idle EXCEPT !.pc = "sweep", !.again = pass.again]
PassForgets == pass' = Sweeping
PassGoes(pc) == pass' = [pass EXCEPT !.pc = pc]

(* Topology and hook store are read; nothing to do without a live run.     *)
PassReads ==
    /\ pass.pc = "snap"
    /\ IF Supervised
       THEN pass' = [pass EXCEPT !.pc = "visit", !.surfs = cmux.surfs, !.known = cmux.rec]
       ELSE PassEnds
    /\ raced' = raced \cup Overlap(Supervised /\ (TaskActive \/ TermActive("stop")), "operation")
                     \cup Overlap(Supervised /\ ~CmuxSettled, "restart")
    /\ UNCHANGED <<run, decider, task, term, timers, desk, asked, cmux, up, left, missed>>

(* cmux.topology() or hooks.read() rejects: so does the pass, and the      *)
(* triggers that waited for it are dropped with it.  Bound: a pass that    *)
(* fails is one of the events.                                             *)
PassReadFails ==
    /\ left > 0 /\ pass.pc = "snap" /\ Supervised
    /\ left' = left - 1
    /\ pass' = Idle
    /\ Misses(TRUE)
    /\ UNCHANGED <<run, decider, task, term, timers, desk, asked, cmux, up, raced>>

(* The run's state and record are looked at, then its process, if one is   *)
(* known, behind an await.                                                 *)
Known         == IF run.sid THEN pass.known ELSE NoRecord
ProcessOf(r)  == IF r # NoRecord THEN r.pid ELSE run.pid
PassVisits ==
    /\ pass.pc = "visit"
    /\ ~Supervised \/ ProcessOf(Known) # 0
    /\ pass' = IF Supervised THEN [pass EXCEPT !.pc = "alive", !.known = Known]
               ELSE Sweeping
    /\ UNCHANGED <<run, decider, task, term, timers, desk, asked, cmux, up, left, missed, raced>>

Deciding == \/ pass.pc = "alive"
            \/ pass.pc = "visit" /\ Supervised /\ ProcessOf(Known) = 0
Seen          == IF pass.pc = "alive" THEN pass.known ELSE Known
ProcessAlive  == Alive(ProcessOf(Seen))
SurfaceExists == (IF Seen # NoRecord THEN Seen.surf ELSE run.surf) \in pass.surfs

(* What the pass makes of the run once it knows whether Claude is alive.   *)
Verdict ==
    IF Seen # NoRecord /\ ProcessAlive /\ SurfaceExists THEN "rebind"
    ELSE IF ~run.sid THEN "fail"
    ELSE IF ~AutoRecover THEN "leave"
    ELSE IF ProcessAlive /\ ~SurfaceExists THEN "fail"
    ELSE IF run.attempts >= MaxResumeAttempts THEN "fail"
    ELSE "resume"

PassRebinds ==
    /\ Deciding /\ Verdict = "rebind"
    /\ \E st \in {"running", "ready"} : Becomes(Bound(Seen, st))
    /\ PassForgets
    /\ UNCHANGED <<decider, task, term, timers, desk, asked, cmux, up, left, missed, raced>>

PassGivesUp ==
    /\ Deciding /\ Verdict \in {"fail", "leave"}
    /\ Becomes(In(IF Verdict = "fail" THEN "failed" ELSE "recovering"))
    /\ PassForgets
    /\ UNCHANGED <<decider, task, term, timers, desk, asked, cmux, up, left, missed, raced>>

PassResumes ==
    /\ Deciding /\ Verdict = "resume"
    /\ Becomes([run EXCEPT !.attempts = @ + 1, !.st = "recovering"])
    /\ PassGoes("creating")
    /\ UNCHANGED <<decider, task, term, timers, desk, asked, cmux, up, left, missed, raced>>

ResumeMade ==
    /\ pass.pc = "creating"
    /\ MakesWorkspace
    /\ pass' = [pass EXCEPT !.pc = "created", !.got = cmux.made + 1]
    /\ UNCHANGED <<run, decider, task, term, timers, desk, asked, up, left, missed, raced>>

ResumeFound ==
    /\ pass.pc = "created"
    /\ Becomes([run EXCEPT !.surf = pass.got, !.st = "registering"])
    /\ PassGoes("registering")
    /\ UNCHANGED <<decider, task, term, timers, desk, asked, cmux, up, left, missed, raced>>

ResumeRegisters ==
    /\ pass.pc = "registering"
    /\ cmux.rec.surf = pass.got
    /\ Becomes(Bound(cmux.rec, "ready"))
    /\ PassForgets
    /\ UNCHANGED <<decider, task, term, timers, desk, asked, cmux, up, left, missed, raced>>

ResumeFails ==
    /\ pass.pc \in {"creating", "created", "registering"}
    /\ Becomes(In("failed"))
    /\ PassForgets
    /\ cmux' = IF pass.pc = "created" THEN Lost(pass.got) ELSE cmux
    /\ UNCHANGED <<decider, task, term, timers, desk, asked, up, left, missed, raced>>

(* sweepDuplicateResumes(): the kills are separated by awaits.             *)
PassSweeps ==
    /\ pass.pc = "sweep"
    /\ pass' = IF Supervised /\ run.sid /\ run.pid # 0
               THEN [pass EXCEPT !.pc = "kill",
                                 !.strays = {p \in Pids : Alive(p)} \ {run.pid}]
               ELSE [pass EXCEPT !.pc = "persist"]
    /\ UNCHANGED <<run, decider, task, term, timers, desk, asked, cmux, up, left, missed, raced>>

PassKills ==
    /\ pass.pc = "kill"
    /\ IF pass.strays = {} THEN PassGoes("persist") /\ UNCHANGED cmux
       ELSE \E p \in pass.strays : /\ cmux' = Killed(p)
                                   /\ pass' = [pass EXCEPT !.strays = @ \ {p}]
    /\ UNCHANGED <<run, decider, task, term, timers, desk, asked, up, left, missed, raced>>

PassPersists ==
    /\ pass.pc = "persist"
    /\ PassEnds
    /\ UNCHANGED <<run, decider, task, term, timers, desk, asked, cmux, up, left, missed, raced>>

-----------------------------------------------------------------------------
(* The permission broker: a chain of handlers, one at a time.              *)

Asks ==
    /\ up /\ left > 0
    /\ left' = left - 1
    /\ task.pc = "running" /\ (\E p \in Pids : Alive(p))
    /\ \E q \in Requests :
         /\ asked[q].age = 0 /\ ~asked[q].handled
         /\ \A i \in 1 .. Len(desk.queue) : desk.queue[i] # q
         /\ desk' = [desk EXCEPT !.queue = Append(@, q)]
    /\ UNCHANGED <<run, decider, task, term, timers, pass, asked, cmux, up, missed, raced>>

(* The stream replays an event after a reconnect.                          *)
AsksAgain ==
    /\ up /\ left > 0
    /\ left' = left - 1
    /\ \E q \in Requests : /\ asked[q].handled
                           /\ desk' = [desk EXCEPT !.queue = Append(@, q)]
    /\ UNCHANGED <<run, decider, task, term, timers, pass, asked, cmux, up, missed, raced>>

(* Mutant: every request gets the full deadline.                           *)
RemainingMutant(q) == Deadline

Remaining(q) == IF asked[q].age >= Deadline THEN 0 ELSE Deadline - asked[q].age

New(q) == run.sid /\ ~asked[q].handled

DeskTakes ==
    /\ desk.pc = "idle" /\ desk.queue # <<>>
    /\ LET q == Head(desk.queue)
           rest == [desk EXCEPT !.queue = Tail(@)]
           taken == [rest EXCEPT !.cur = q, !.prev = run.st]
       IN IF ~New(q)
          THEN desk' = rest /\ UNCHANGED <<run, asked>>
          ELSE /\ desk' = IF decider /\ Remaining(q) > 0
                          THEN [taken EXCEPT !.pc = "deciding", !.timer = Remaining(q)]
                          ELSE [taken EXCEPT !.pc = "delivering", !.say = "deny"]
               /\ asked' = [asked EXCEPT ![q].handled = TRUE]
               /\ Becomes(In("permission-pending"))
    /\ UNCHANGED <<decider, task, term, timers, pass, cmux, up, left, missed, raced>>

(* The user answers, or the timer of withTimeout() does.                   *)
Decided(say) ==
    /\ desk.pc = "deciding"
    /\ desk' = [desk EXCEPT !.pc = "delivering", !.say = say]
    /\ asked' = [asked EXCEPT ![desk.cur].late = say = "allow" /\ asked[desk.cur].age > Deadline]
    /\ UNCHANGED <<run, decider, task, term, timers, pass, cmux, up, left, missed, raced>>
DeskDecides  == desk.timer > 0 /\ \E say \in {"allow", "deny"} : Decided(say)
DeskTimesOut == desk.timer = 0 /\ Decided("deny")

DeskDelivers ==
    /\ desk.pc = "delivering"
    /\ desk' = [desk EXCEPT !.pc = "restoring"]
    /\ asked' = [asked EXCEPT ![desk.cur].replies = @ + 1]
    /\ UNCHANGED <<run, decider, task, term, timers, pass, cmux, up, left, missed, raced>>

DeskRestores ==
    /\ desk.pc = "restoring"
    /\ desk' = [FreeDesk EXCEPT !.queue = desk.queue]
    /\ asked' = [asked EXCEPT ![desk.cur].age = 0]
    /\ Becomes(In(IF desk.prev = "permission-pending" THEN "running" ELSE desk.prev))
    /\ raced' = raced \cup Overlap(run.st # "permission-pending", "operation")
    /\ UNCHANGED <<decider, task, term, timers, pass, cmux, up, left, missed>>

(* Time, while a request is open.                                          *)
Open == (IF desk.pc \in {"deciding", "delivering"} THEN {desk.cur} ELSE {})
          \cup Range(desk.queue)
Tick ==
    /\ desk.pc = "deciding" => desk.timer > 0
    /\ \E q \in Open : asked[q].age <= Deadline
    /\ asked' = [q \in Requests |-> IF q \in Open /\ asked[q].age <= Deadline
                                     THEN [asked[q] EXCEPT !.age = @ + 1] ELSE asked[q]]
    /\ desk' = [desk EXCEPT !.timer = IF desk.pc = "deciding" THEN @ - 1 ELSE @]
    /\ UNCHANGED <<run, decider, task, term, timers, pass, cmux, up, left, missed, raced>>

-----------------------------------------------------------------------------
(* The death of pi, and the next start.  A change of the record is in the  *)
(* state file when it is made: what a crash may lose of it is left out.    *)

Crash ==
    /\ up /\ left > 0 /\ run.st # "none"
    /\ left' = left - 1
    /\ up' = FALSE
    /\ decider' = FALSE
    /\ task' = [pc |-> "ended", got |-> 0]
    /\ term' = [c \in Callers |-> "off"]
    /\ timers' = {} /\ pass' = Idle /\ desk' = FreeDesk
    /\ asked' = [q \in Requests |-> [asked[q] EXCEPT !.handled = FALSE]]
    /\ cmux' = [cmux EXCEPT !.lost = @ \cup ({task.got, pass.got} \ {0, run.surf})]
    /\ UNCHANGED <<run, missed, raced>>

(* start(): a run that is not terminated is loaded and reconciled.         *)
Start ==
    /\ ~up /\ CmuxSettled
    /\ up' = TRUE
    /\ run' = IF run.st = "terminated" THEN NoSession ELSE run
    /\ IF run'.st = "none" THEN UNCHANGED pass ELSE Reconcile
    /\ UNCHANGED <<decider, task, term, timers, desk, asked, cmux, left, missed, raced>>

-----------------------------------------------------------------------------
TaskStep == \/ LaunchBegins \/ WorkspaceMade \/ WorkspaceFound \/ TrustGiven
            \/ SessionRegisters \/ PromptSent \/ PromptAccepted
            \/ TurnCompletes \/ TurnRecovered \/ TaskTerminates \/ TaskEnds
TermStep(c) == ClosesWorkspace(c) \/ KillsClaude(c) \/ Terminated(c)
PassStep == \/ PassReads \/ PassVisits \/ PassRebinds \/ PassGivesUp \/ PassResumes
            \/ ResumeMade \/ ResumeFound \/ ResumeRegisters \/ PassSweeps
            \/ PassKills \/ PassPersists
DeskStep == DeskTakes \/ DeskTimesOut \/ DeskDelivers \/ DeskRestores

Next ==
    \/ ClaudeRegisters \/ CmuxRestarts \/ CmuxRestores \/ StreamAcks \/ UserCloses
    \/ RunTask \/ TaskStep \/ TrustAsked \/ TaskFails
    \/ StopCommand \/ (\E c \in Callers : TermStep(c))
    \/ TimerFires \/ RecoverCommand \/ PassStep \/ PassReadFails \/ ResumeFails
    \/ Asks \/ AsksAgain \/ DeskStep \/ DeskDecides \/ Tick
    \/ Crash \/ Start

Spec == Init /\ [][Next]_vars

FairSpec ==
    /\ Spec
    /\ WF_vars(ClaudeRegisters) /\ WF_vars(CmuxRestores) /\ WF_vars(StreamAcks)
    /\ WF_vars(TaskStep) /\ WF_vars(TaskFails)
    /\ WF_vars(TermStep("task")) /\ WF_vars(TermStep("stop"))
    /\ WF_vars(TimerFires) /\ WF_vars(PassStep) /\ WF_vars(ResumeFails)
    /\ WF_vars(DeskStep)
    /\ WF_vars(Tick) /\ WF_vars(Start)

-----------------------------------------------------------------------------
(* A user's approval counts only within the deadline that runs from the    *)
(* arrival of its request, however long the request waited for its turn:   *)
(* handle() takes what is left of it (permission-broker.ts:81).            *)
NoLateAllow == \A q \in Requests : ~asked[q].late

Quiet == /\ up /\ ~TaskActive /\ pass.pc = "idle" /\ desk = FreeDesk
         /\ timers = {} /\ CmuxSettled
         /\ \A c \in Callers : ~TermActive(c)

(* When a session was terminated and all is quiet, the Claude it is bound  *)
(* to is dead whether or not its workspace could be closed, for            *)
(* terminate() goes by the process then (session-controller.ts:219), and   *)
(* no twin that cmux made of it lives anywhere else, except in surfaces pi *)
(* has lost: their creation failed half-way (cmux-client.ts:127) or their  *)
(* close did.  Nothing is claimed where operations on the session          *)
(* overlapped, or a reconciliation and cmux's own restoring.               *)
EndsClean == Quiet /\ raced = {} /\ run.st = "terminated" =>
                \A p \in Pids : Alive(p) => p # run.pid /\ cmux.home[p] \in cmux.lost

(* After a new boot of cmux, a closed surface or a start of pi, no session *)
(* stays listed as live while its Claude is dead: a pass rebinds, resumes  *)
(* or fails it, also when the trigger came during another pass             *)
(* (fleet-manager.ts:254).  Excepted are overlapping operations, and the   *)
(* losses that bring no pass about or none to its end: a closed surface    *)
(* the listener ignores (fleet-manager.ts:112), a new boot that another    *)
(* frame shows before the ack (event-tail.ts:190), a pass that cannot read *)
(* (fleet-manager.ts:281).                                                 *)
Orphan == up /\ Supervised /\ ~Alive(run.pid) /\ ~TaskActive
Healed == Orphan ~> (~Orphan \/ missed \/ "operation" \in raced)
==============================================================================
