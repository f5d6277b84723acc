# A TLA+ verification of pi-kit's helm

`helm` is an extension of the pi coding agent. It runs *workflows* (scripts
that call `agent()` many times), drives interactive Claude Code sessions
through the cmux terminal multiplexer, watches provider quotas and shows all
of it in a terminal interface. This directory holds TLA+ modules that model
its protocols and the logic behind its interface, TLC configurations that
model-check them on small instances, and proofs that TLAPS checks for every
instance.

Paths below are relative to `helm/src/` unless they start with `helm/` or
`docs/`. `PROJECT.json` maps every definition of a module to the lines it
models and lists components, runs, mutants, findings, hazards and theorems.

1. [The system](#1-the-system)
2. [The modules](#2-the-modules)
3. [What the runs check](#3-what-the-runs-check)
4. [What is proved](#4-what-is-proved)
5. [Where the code departs from what it says](#5-where-the-code-departs-from-what-it-says)
6. [Properties the code does not have](#6-properties-the-code-does-not-have)
7. [What is not modelled](#7-what-is-not-modelled)
8. [What is left](#8-what-is-left)

To repeat the checks, for example:

    tlc -config MCTurn.cfg MCTurn
    tlc -config MCHelm.cfg MCHelm
    tlapm ClaudeProofs.tla

## 1. The system

### Components

| Component | State | Operations | What makes it correct |
|---|---|---|---|
| **Workflow manager** `workflows/workflow-manager.ts` | `runs` map of ManagedRuns: status, error, lease, journal, snapshot, abort controller, paused agents | launch, pause, stop, Esc, resume, delete, recover stale runs, pause and resume one agent | a run is executed once at a time; its file tells the truth about it; no finished agent is executed again; a dead process's run becomes resumable; what is shown of an agent is its own |
| **Run files and leases** `workflows/run-persistence.ts` | one record and one lock file per run, in the project directory, shared by every pi process | save, load, list, delete, acquire and release a lease | one live holder per lock; a dead holder's lock can be taken over |
| **Workflow runtime** `workflows/workflow.ts` | call counters, limiter, token counters, journal of the previous execution | `agent()`, `checkpoint()`, `workflow()`, `parallel()`, attempts, timeouts, retries | never more agents than the limit, no lost slot, replay stops at the first changed call, an execution ends |
| **Usage-limit scheduler** `workflows/usage-limit-scheduler.ts` | attempts and a timer per paused run | arm, fire, refuse, give up, clean up, re-arm on start | resumes only runs paused on a quota, not before the reset, not more often than the cap, and forgets none |
| **Script sandbox** `workflows/workflow-sandbox*.ts` | child process, pending requests | request, reply, abort, exit | every request is answered once, or rejected when the child dies |
| **Shared store** `workflows/shared-store.ts` | key-value map with recorded deltas | put, get, commit and apply a delta | a replay puts back what each call wrote, in the order of the script |
| **Agent processes** `workflows/process-agent*.ts`, `inherited-tool-host.ts`, `agent.ts` | child process, authorised tool calls, a session with its tools, model and transcript | run, authorise, cancel, kill, repair, report | a cancelled agent runs no further tool; a provider's limit is not lost; all that was spent is reported |
| **Approval and permission route** `workflows/workflow-permission-broker.ts`, `workflow-approval.ts`, `host-workflow-context.ts` | line of dialogs, file of approvals | ask, answer, approve | no dialog for an agent that is gone; what starts is what was approved |
| **Tool, commands and editor** `workflows/workflow-tool.ts`, `saved-commands.ts`, `workflow-editor.ts`, ... | saved workflows, highlight, forced message, preferences | launch, save, delete, type, submit | a message is forced when it is highlighted, and only then |
| **Bundled workflows** `workflows/code-review.ts`, `adversarial-review.ts`, `deep-research.ts`, `builtin-commands.ts` | scripts over `agent()` | fan out, collect, verify, report | a report says what some agent said and none refuted |
| **Models and agent types** `workflows/model-spec.ts`, `model-tier-config.ts`, `agent-registry.ts` | tier file, type files | parse, edit, load, hash | an agent runs with what was configured |
| **Workflow interface** `workflows/workflow-ui.ts`, `task-panel.ts`, `display.ts` | delivery of results, navigator, rows | deliver, select, act on a run or agent | an end is told once; a key acts on what is selected |
| **cmux event tail** `cmux/event-tail.ts` | boot id, latest sequence number, history, waiters | connect, handle a frame, wait for an event | no wait is answered by an event of an older turn or boot; a lost event does not hang a turn |
| **cmux session controller** `cmux/session-controller.ts`, `hook-store.ts`, `transcript.ts` | the state of one managed Claude session | launch, register, run a prompt, recover, resume, terminate | a turn returns its own complete output or fails; an ended session leaves no Claude running |
| **cmux fleet manager** `cmux/fleet-manager.ts`, `state-store.ts`, `register.ts` | all managed sessions of a pi session, their file, the owner's mark | run a task or a fleet, reconcile, stop, sweep, shut down | a live Claude is on file and supervised once; peers are spared; quitting ends the fleet |
| **cmux permission broker** `cmux/permission-broker.ts` | queue of requests with deadlines | request, decide, time out | each request is answered once, in time |
| **Usage service** `usage/*.ts`, `footer.ts` | quota snapshots, cache, tokens | refresh, coalesce, read the cache, render | the cache never goes back; a token is rotated once; what the footer says is left, is |
| **Helm state and data** `state/*.ts`, `data/real.ts` | loops, goals, precedents, ledger, audit, escalations, state file | draft, try, schedule, spawn, pause, decide, land, save | what is scheduled passed a trial; complete means complete; nothing saved is lost |
| **Helm host** `host/*.ts` | views derived from run records | list, classify, sum up, bridge | receipts and accounts are those of the records |
| **Screens and router** `app.ts`, `router.ts`, `screens/*.ts` | stack of screens, modes, queue of questions | keys | a request gets the option its own card was confirmed with |
| **Search** `search/*.ts` | one Codex process per search, slots | search, cancel, filter | an answer passes the filters and its process is gone |

### Interactions

* The manager starts the runtime and passes it callbacks (`onAgentJournal`,
  `waitForAgentResume`, ...). These closures keep the ManagedRun of *their*
  execution, which outlives it when a script rejects without awaiting its calls.
* Several pi processes share run files and locks, the file of approvals, the
  usage cache with its locks, Helm's state file and the directory of cmux
  instances; nothing else connects them.
* The manager emits `paused`, `error`, `complete`, `stopped`, `resumed`. The
  scheduler, the delivery to the chat and Helm listen synchronously, before the
  manager writes the record; the scheduler later calls `resume()` like a user.
* The runtime talks to the script's sandbox and to agent processes over IPC.
  Tool calls of an isolated agent come back to the parent and are authorised
  in one line of dialogs, which Helm may answer through its needs-you queue.
* cmux logs events. The event tail reads them and tells its listeners: the turn
  that waits, the fleet manager and the permission broker. The hook store and
  the transcript are files that cmux and Claude write.
* Helm keeps no runs of its own: goals, lanes, receipts and accounts are
  derived, on every event, from the run records.

### What is hard

Two processes between the file operations of `resume()`; a lease given back
before the aborted run has unwound; a sibling call that finishes after its run
was resumed; a timeout, a user's pause and an answer racing for one agent; a
journal replayed under an edited script; a timer that fires after its run was
resumed, paused or deleted by hand; a process killed between an event and the
microtask that records it; an event stream that repeats, loses and rolls back
events; a session stopped while a pass of reconciliation awaits; a store whose
deltas come from concurrent and nested calls; a dialog whose agent is gone; a
trial that ends after its draft was edited; rows that move between two keys;
results credited by label, position or name. `PROJECT.json` lists each at its
line, with the properties that would notice.

## 2. The modules

| Module | Models | Checked by |
|---|---|---|
| `RunLifecycle` | abstract specification of a run, on status and results alone | `manager_single` |
| `WorkflowManager` | the manager with run files and leases, for several processes; implements `RunLifecycle`; proofs in `WorkflowManagerProofs` | `manager_*` |
| `WorkflowRuntime` | the execution of a script, over its resumes; proofs in `WorkflowRuntimeProofs` | `runtime` |
| `UsageLimitScheduler` | the scheduler and what it sees of the manager; `MCScheduler` has the code's backoff table; proofs in `UsageLimitSchedulerProofs` | `scheduler` |
| `ClaudeTurn` | the event tail and the turns of one Claude session; `MCTurn` gives specification and properties names of their own; proofs in `ClaudeProofs` | `turn*` |
| `ClaudeFleet` | one managed Claude session: task, stop, reconciliation, permissions; proofs in `ClaudeProofs` | `fleet` |
| `ScriptSandbox` | script process, nested script, store and journal; proofs in `ScriptSandboxProofs` | `sandbox` |
| `AgentProcess` | attempts of isolated agents, their tools and the dialogs; proofs in `AgentProcessProofs` | `agents` |
| `RunConsole` | delivery to the chat, the navigator and its keys | `helm` |
| `MCHelm` | the 19 modules of [its parts](#the-parts-of-mchelm), one behaviour of one of them at a time; proofs about six parts, and the theorems about its properties, in `MCHelmProofs` | `helm` |
| `HelmParts` | nothing of its own: the instances of eight of those parts, which `MCHelm` extends, so that their proofs stand in `HelmProofs` by themselves | `helm` |

Each module is about *one* run, session, loop or goal, or the few that can
disturb each other.

### WorkflowManager

State: per process, the generation in its `runs` map and the operation it is
inside; per *generation* (one ManagedRun object), status, error, lease,
journal, calls; and the two files. A launch and every resume create a new
generation, because the code creates a new object and the callbacks of the old
one keep the old one.

Granularity: a handler without an `await` is one step. Loading the record and
taking the lease are two, since another process can act between them.
`pause()`, `stop()` and Esc abort the sandbox; the catch of `executeRun()` then
runs in microtasks, before anything else in that process. The engine state
"unwinding" is that interval; other processes do act in it.

| Actions | Code |
|---|---|
| `StartRun`, `Launch` | `startInBackground`, `runSync`, second half of `resume` |
| `ResumeLoad`, `ResumeTakesLease`, `ResumeRefused` | `resume` |
| `Pause`, `Stop`, `ExternalAbort`, `DeleteRun` | `pause`, `stop`, the external signal, `deleteRun` |
| `Unwind`, `RunRejects`, `RunCompletes` | the catch and the end of `executeRun` |
| `ReplayCall`, `LiveCall`, `AgentFinishes`, `AgentFails` | `agent()` as the manager sees it, `onAgentJournal` |
| `Crash`, `Restart`, `RecoverStaleRun`, `RecoverSkipsRun` | death, `recoverStaleRuns` |

Simplified: acquiring a lock is atomic (`RunLease` has its steps); an abort ends the
calls in progress in one step; a process id is not reused; the record holds the
status, the results and the reason of a pause. `DeleteRun` under a live lease
is possible only with `RemovesLeasedRuns`, which the runs and the lease proofs
set to FALSE: users are taken not to remove a run another process executes.

### WorkflowRuntime

State: the counters and gates of `runWorkflow`, the limiter, one progress value
per call, the journal and the journal being replayed, and the agents a user
paused. Entries carry the script they were produced under as a history
component, which the code does not record and `NoStaleReplay` is about.

Simplified: a script makes its calls in a fixed order and has at most `FanOut`
outstanding; an agent's id stands for its call index; an attempt costs one
token and an interrupted one none; what the script passes as identities is a
hash per index, the first script being constant by renaming; the limiter hands
a slot on in the step that frees it (the code wakes the waiter in a microtask
and no message is handled before it); a resume starts when the calls of the
previous execution have ended, what they do otherwise being the manager
module's subject. Concurrency and retries come from the manager, so a resume
keeps them, while `maxAgents` and `tokenBudget` belong to the launch.

### UsageLimitScheduler

State: the scheduler's entry per process, its timers, the counter a microtask
will save, the run file's fields that matter, and three history variables (age
of the pause, resumes by timers, attempts granted). A manager operation is one
step including the events it emits and what the listener does with them.
Aborting an execution also emits `error` from the catch of `executeRun()`,
which is how a user's pause reaches the scheduler.

Time is relative. Timers count down, ages count up to `Horizon`, above which no
delay depends on them; `Tick` happens only between macrotasks, and a timer may
fire late but not early. Timer handles are explicit, so a handle that is
overwritten without being cleared stays live.

Simplified: `resume()` is atomic; deletion is of runs nobody executes; no
sibling call writes after its run (`WorkflowManager` models both). A process
killed before the microtask that saves the counter grants one more series of
attempts; `allowed` counts those.

### ClaudeTurn

State: cmux (boot, event log, first event retained), the connection and its
position, the tail (boot id, latest sequence number, history, the waiter of the
turn), Claude with the pending effects of its hook, the hook store's lifecycle
(*idle*, *running* or *needsInput*), the transcript, the program counter of
`runPrompt()`, and the lifecycle its recovery read.

A step of the turn is what runs between two awaits. A frame is handled in one
step that settles the waiter; the turn goes on in a later one, so that frames
of the same chunk fall in between. Reports of a new epoch or a gap go to the
waiter of that moment, or are lost to the turn (`unheard`).

The environment follows `docs/cmux-restart-durability-results.md` and
`helm/docs/cmux.md`: a restart mints a boot id, kills Claude and may roll the log
back to a checkpoint, and the hook store with it; cmux may then resume the
session in the surface it restored, where Claude registers again and waits for
input; what is replayed keeps the boot id it was logged with; a reconnecting
reader is told of evicted events and of a cursor from the future. In the middle
of a turn Claude may ask for a permission. The hook store says *needsInput*
from then on, and may go on saying so after the answer. Both readers of the
store, recovery and `waitForInputReady()`, take *idle* and *needsInput* alike.
Assumed besides:

* the last text of a turn is in the transcript before its Stop hook runs. The
  UserPromptSubmit hook updates the store before it logs its event. With the
  opposite order, recovery could read a record that is still idle, and partial
  output after it;
* a connection that is lost before its ack counts as one not made yet;
* one permission per turn and, in the turns of `Verbose`, one text before the
  last, ahead of it;
* nobody else types into the session, and Claude dies only with cmux or its
  surface;
* the cursor is at most `MaxLag` events behind what was delivered. The runs use
  1. With three prompts, one restart and a lag of 3, a prompt sent right after
  the restart can take its fence from a replayed event of the old boot, and be
  answered by the replayed events of the second prompt: `ResultIsTheTurns`
  fails. With two prompts TLC finds no such case up to a lag of 3. `runTask()`
  sends one prompt per session, so no caller reaches this today;
* events of other sessions only move the numbers and are left out.

### ClaudeFleet

State: the `ManagedSession` record all operations share, the program counters
of the task, of two callers of `terminate()`, of the reconciliation pass with
what it read before its awaits, the triggers and their timers, the broker's
queue, and cmux's workspaces and Claudes. A step is what runs between two
awaits. Two variables are history: `raced`, which operations overlapped, and
`missed`, whether a loss brought no pass about, or none to its end.
Overlaps are possible in the code: a launch or a resume that goes on after
`terminate()` may bind a new Claude to the ended session. The module has these
steps, and its properties claim nothing of them.

What fails in the code fails here: the creation of a workspace half-way, the
`/exit` and the `close-workspace` of `terminate()`, which goes by the workspace
id of the last registration and swallows its failure (`ClosesWorkspace`: the
surface is closed, or stays and is noted in `cmux.lost`, with or without the
Claude in it), the topology and the hook store a pass reads (`PassReadFails`:
the pass is over, and with it the triggers that waited for it). A close or a
read that fails is one of the `MaxEvents`. A restart of
cmux arms nothing by itself: the listener of `startInternal()` waits for an ack
that shows a new boot or a gap (`StreamAcks`), and when another frame has
carried the new boot id before it, the ack shows no change.

Assumed: the grace before a recovery is longer than cmux needs to restore its
Claudes; the trust dialog appears at launch only; a change of the record is in
the state file when it is made, and writing it or the audit does not fail.
Audit entries are not steps, waiting for the transcript's offset and for the
screen to settle are merged with what follows.

### ScriptSandbox

State: per frame (the main script, or one nested `workflow()`) the process, its
requests on their way through the pipe, and what the host does with them; the
store with its deltas and the journal. The value of a key is named by the call
that wrote it, so that two agents beside each other that write one key leave
different stores in different orders. `Abort`, the death of a process, failed
sends and a resume come between any two messages. Gates, limiter and retries
of `agent()` are `WorkflowRuntime`'s.

### AgentProcess

State: per agent the attempt, its place (host or child), its tool calls and the
message under way; the line of dialogs. Models and sessions are external: a
turn says something or nothing, may produce the structured answer, may end in
a provider's limit. Simplified: the messages about a fallback model, the cap of
five on isolated retries, the throttling of progress; `tool-abort` is left out,
because the child that would send it has been told to die.

### The parts of MCHelm

| Module | State and steps | The property, in `MCHelm` |
|---|---|---|
| `HelmLoops` | a loop's draft, trials in flight, schedule, timer, runs, pause-all and its checkpoint, restarts; time counts down | `LoopsAreSound`: what is scheduled passed its trial, and a loop that should run has a timer or a run |
| `HelmGoals` | intake, spawned runs as the manager and as the records have them, lanes, freeze and thaw | `CompleteIsComplete`: a goal shown complete has only completed runs, and its closeout lists them |
| `HelmScreens` | stack of screens, modes, needs-you queue, bridged promises | `AnsweredAsChosen`: a request gets the option its own card was confirmed with, once |
| `HelmPrecedents` | questions decided, ledger, closeout cards, their rows and strikes | `NumbersStay`: a number on an open card keeps its meaning |
| `HelmReceipts` | a transcript of calls and results, its cut record, lines, checks, diffs | `ReceiptsAreTrue`: the last calls are told once, in order, with their own results; a diff is least |
| `HelmAccounts` | run records, what was charged, days | `ReceiptsAreTrue`: what a run, a goal and a day cost is what the record was told |
| `HelmDesk` | state file, memory of each session, digest, spend, loop runs, follow-ups | `SavedIsKept`: nothing saved is lost, the digest lists the decisions and pauses of its session; `CloseoutStands`: a card is that of the first completion; `ReceiptsAreTrue`: a loop's runs are in order |
| `UsageService` | cache, lock, Kimi's token, refreshes of several processes | `CacheOnlyAdvances`; `QuotasAreTrue`: a token rotated away is not presented again |
| `QuotaReadings` | answers of the providers, windows, the footer's line | `QuotasAreTrue`: what the footer says is left is what the provider said |
| `CodexSearch` | searches, their slots, Codex processes, output and filters | `FindingsAreVouched`: an answer passes the filters, a slot and a process are given up once |
| `RunLease` | the lock file of one run, what each process does with it, deaths between two file operations | `HoldersAreSound`: one process has the lease, unless a lock was removed unread or unwritten; who is alone gets it |
| `WorkflowEditor` | text, highlight, hook, tools, preferences | `OperatorDecides`: a message is forced when it was highlighted, and only then |
| `WorkflowLaunch` | saved files, their commands, approvals, one launch under review | `OperatorDecides`: what starts is what was on the screen when it was agreed to |
| `RunConsole` | runs, removed executions that go on, the listeners, the chat, the navigator | `RunsAreReported`: an execution that ended by itself is told exactly once |
| `RunSnapshots` | an execution's agents, the copy in the record, surfaces, per-agent pause | `ReceiptsAreTrue`: ends are credited to their label, rows add up, a pause reaches its call |
| `AgentSession` | agents of one host: tools, model, registry, session, account | `RunsAreReported`: tools as granted, all that was spent is reported when a run settles |
| `FleetConsole` | pi processes, managers, state files, marks of owners, Claudes | `HoldersAreSound`: a live Claude is on file, supervised once, peers are spared, quitting ends the fleet |
| `WorkflowScripts` | the fan-outs of the bundled scripts and what is kept of the answers | `FindingsAreVouched`: what a report says an agent said and none struck down |
| `ModelRouting` | specifications, tier file and editor, type files, call hashes | `RoutesAsConfigured`: an edited model is the one used; a replayed call was made under the loaded type |

What they take from their surroundings:

* **HelmLoops**: a run fires once per `Every` ticks; delays beyond what
  `setTimeout` takes are chained. One trial is in flight at a time in the run;
  with two (239,070 states of this part) the property holds as well.
* **HelmGoals**: a paused execution has unwound before its run is resumed;
  `WorkflowManager` has the overlap.
* **HelmScreens**: what a key awaits settles before the next key. The texts of
  a request's options differ, as in every request that is made: the bridge finds
  the option by its text (`escalation-bridge.ts:76-78`).
* **UsageService**: both processes hold a session; one user forces refreshes.
  Only a dead holder loses a lock; that the file lock can also be taken from one
  that is suspended for minutes is left out.
* **QuotaReadings**: windows Claude repeats agree with each other.
* **WorkflowEditor**: a submitted message reaches the hook before the next key.
  Texts pasted or emptied at once (`Pastes`) are left out of the run; section 6
  has what they do.
* **WorkflowLaunch**: one workflow name; other sessions save, delete and approve.
* **RunConsole**: a message counts as told when it reached the chat or the
  banner; listeners do not throw. A paused or stopped execution has unwound
  before the next command (`Unwound`): the catch of `executeRun()` runs in
  microtasks after the abort. A removed execution is not aborted and goes on;
  what its end makes the listeners say is not counted.
* **WorkflowScripts**: a reply is the facts it names, or one verdict or vote.
* **RunSnapshots**: two calls of one label; `PauseReaches` speaks of numbers
  that the map from calls to numbers gives to one call only.
* **CodexSearch**: one page per host, hosts without a final dot.
* **HelmReceipts**: tools are called once per message where pairing matters;
  counts a tool states itself are left out. Of the text of a result the model
  keeps whether Helm's patterns take it for a failure (`alarms`), which is
  independent of what the tool itself reports. At most `MaxLines` lines are
  shown, the last (12 in the code); the cut of a record at 20,000 characters is
  the one at 40 entries here.
* **HelmAccounts**: a script awaits its agents; a failed run is like a paused one.
* **AgentSession**: a second agent is followed to its first prompt: all that
  two agents share is the registry.
* **FleetConsole**: pi takes no input while it handles the end or start of a
  session, and has a session open in one process. A Claude is alive or not.
* **HelmDesk**: one session at a time; a session takes longer to start than a
  tick. The journal has the kinds of events that some code writes.

## 3. What the runs check

Every property is paired with at least one mutant of the code that breaks it;
a property that conjoins several parts has one for each part or more.

| Run | Bounds | Distinct states |
|---|---|---|
| `manager_single` | 1 process, 3 sequential calls, 4 generations, 2 crashes | 335,370 |
| `manager_shared` | 2 processes, 1 call, 3 generations, 2 crashes, dying sandbox | 526,096 |
| `runtime` | 2 agents and 1 checkpoint, fan-out 3, limit 1, 2 attempts, 1 edited resume, 1 pause | 315,985 |
| `scheduler` | 1 process, 2 handles, hints of 0 and 3, cap 2, 3 launches, 2 deaths | 38,758 |
| `turn` | 2 prompts, two texts for the second, 1 restart, 1 lost connection, lag 1 | 1,219,908 |
| `fleet` | 1 session and task, 2 requests for permission, 2 further events (faults, failures, commands, requests), 2 surfaces, 3 processes | 1,510,002 |
| `sandbox` | 2 calls of the main script, nested scripts of 1 call, 1 key, 1 resume | 1,270,473 |
| `agents` | 2 agents of 1 tool call each, 1 retry, every policy | 1,238,989 |
| `helm` | 19 parts, each with its own bounds in `MCHelm.cfg` | 1,375,963 |

**manager_single** shows that, with one process and a script that awaits each
call, the run file is the record of the execution (`RecordFollowsExecution`),
that it implements the abstract life cycle (`FollowsLifecycle`, a refinement),
and that the first call executed is a genuine miss (`FirstMissIsGenuine`).
Three calls make a prefix with an inside, an end and a miss; four generations
allow a resume of a resume after a crash.

**manager_shared** shows `SingleExecution`, `LeaseNotLeaked` and
`OrphanRecovered`. Two processes suffice for every race over one lock, as a
third meets it in the state one of them left; three generations let a process
come back while the other's old ManagedRun is still in its map.

**runtime** shows `LimiterSound`, `ReplayIsPrefix`, `PauseHolds` and
`ExecutionEnds`. A limit of one with two agents parks one; two attempts give a
retry and a last failure; budgets of two refuse the third call.

**scheduler** shows `OnlyEligibleResumed`, `AttemptsCapped`, `NotBeforeReset`
and `EventuallyServed`. Hints of 0 and 3 fall below the floor and, doubled,
above the maximum; two handles are one more than a correct scheduler uses at
once; a cap of two is passed within the launches.

**turn** shows what a turn returns (`ResultIsTheTurns`): the texts of its own
prompt from the first on, none of another, and all of them when it completed or
was recovered in the boot its prompt was submitted in from a record without a
pending permission; that the searched history is of one epoch and below the next
fence (`TailIsOneEpoch`); and that a wait ends without its timeout unless a
report was missed or the prompt went to a killed Claude (`FenceWakes`). The
first prompt's events are what the second must not mistake for its own, and the
second may be recovered when half of it is written; one restart gives every
order of rollback, replay, resumed session and report; eviction and the lost
connection give a gap without a restart. What recovery returns otherwise may be a
part of the output (`turn_partial`, section 5).

**fleet** shows that no permission is granted after its deadline
(`NoLateAllow`); that the Claude of an ended session is dead once all is quiet,
also where its workspace could not be closed, and any other is in a surface pi
has lost, except where operations overlapped (`EndsClean`); and that a session
without its Claude is rebound, resumed or failed (`Healed`), with the exceptions
it names: an operation that overlaps, a closed surface the listener ignores, a
new boot the ack does not show, a pass that cannot read. Two requests are needed
for one to wait behind the other's dialog; two events beside the task are a stop
and a fault, a fault and a failing close or read, or two faults.

**sandbox** shows that a call's delta is what that call wrote, that a replay
leaves each key with the value of the last replayed writer in the order of the
script, or of an agent that ran since (`StoreIsExact`), and that every sandbox
settles whatever dies (`SandboxesSettle`). Two calls of the main script beside a
nested one make indices collide and write one key in both orders; one resume
replays any part of them.

**agents** shows that a provider's limit is never taken for a disobedient or
silent agent (`LimitSurfaces`), that a cut agent starts nothing more
(`StopsWithSignal`), and that agents and dialogs settle (`AgentsSettle`). Two
agents are what the line of dialogs needs.

**helm** explores the parts of `MCHelm` one after the other. The initial state
chooses the part, the others keep still, so the states of the parts add up.
Their bounds, where it is not obvious that the case can happen: two versions,
one run and a restart let a trial end after an edit; two plans, one restart and
every order of the manager's events give each lane a wrong neighbour; two
questions and four screens stack a card over a card; two processes with one tick
of age let a fallback be older than what is shown; two runs of one goal and a
resume of the first; two agents of one label beside each other and a second
execution with an edited script; two managers, two Claudes and two sessions make
a sweep meet a peer; three processes are a holder and two that want its lock,
beside what a dead one left (two tokens each, 1,753,635 states of this part,
show the same).

The other runs show the violations of section 5.

### Fairness

* Manager: a process that is up continues what it began (`ContinueStep`), an
  aborted run reaches its catch (`Unwind`), and the project is opened again
  after a death (`Restart`). Without the last nobody is there to recover.
* Runtime: the script makes its calls and returns; each agent settles, is
  timed out or is retried; users resume agents they paused. The code imposes no
  limit on a pause, so the last is an assumption on users.
* Scheduler: time passes, the event loop runs due timers and microtasks, and pi
  is opened again.
* Turn: pi runs what it awaits, the tail reconnects (the code does so every
  second) and is served, and Claude finishes what it began; a permission it asks
  for is answered, by the broker's deadline if by nobody else. Nothing is assumed
  of timeouts and abort signals, which is what makes `FenceWakes` say something,
  nor that a killed session is resumed.
* Fleet: what pi awaits comes to an end, timers fire, a new connection is
  acknowledged, cmux restores what it restores, pi is opened again. Nobody has
  to answer a dialog: its deadline does.
* Sandbox: the event loops run, the pipe delivers, agents end and a script that
  waits for nothing ends. Nothing makes a process die.
* Agents: the event loop runs, turns and tools end. Nobody has to answer a
  dialog, and `AgentsSettle` allows for the user who does not.

Runs without a liveness property use `Spec`, and `turn_unheard_report` has the
fairness of `turn`. Deadlock checking is off in all of
them, since a run that completed, a stopped session and exhausted bounds are
proper ends.

## 4. What is proved

The theorems hold for every value of the constants that satisfies the
assumptions of the module: any processes, calls, limits, options, bounds.

* **Manager, leases.** `TypeCorrect` needs nothing else. `ExecutionIsExclusive`
  and `LeasesAreReleased` (under `NoLeasedRemoval`) need an inductive invariant,
  because `SingleExecution` says nothing of how the lock relates to what
  executes. `LeaseInv` adds that an executing generation holds a lease, that a
  lease held is the one in the lock file, that a live lock is leased, that maps
  name living generations and that generations to come are blank.
* **Manager, records.** `FileFollowsExecution`, `MissesAreGenuine` and the
  refinement `ImplementsLifecycle` hold under `QuietUse`: one process
  (`OneProcess`), a script that awaits each agent before the next
  (`AwaitsEachCall`, `FanOut <= 1`), a sandbox that outlives its runs
  (`SandboxSurvives`) and `NoLeasedRemoval`. Each is needed: `ManagerLateWrite.cfg`
  shows what two calls in flight do, section 6 what two processes do. The number
  of calls, generations and crashes is free. The properties speak of an
  executing generation; `RecordInv` says what the record is when none executes
  (`RecordIsTheMapped`), that the process maps what is active, that a resume
  between its load and its lease has seen the record as it still is
  (`SeenIsCurrent`), that no call is left over once a run is settled, and that
  what is journaled or in progress lies behind the next call
  (`JournalIsBehind`). The
  refinement then has one lemma per group of actions, each mapped to an abstract
  step or to none.
* **Runtime.** `Inductive` proves one conjunction: types, the order of calls,
  attempts per progress, the limiter, the prefix and the pauses. Types alone
  are not inductive: that `slots` stays a natural number needs it to count the
  calls that hold a slot, and that an attempt is at most `MaxAttempts` needs the
  strict bound before it starts. `LimiterIsSound` rests on lemmas about the
  cardinality of the holders as one call leaves and another enters.
* **Scheduler.** `Sound` (types and housekeeping) holds for any number of
  processes and gives `SchedulerTypeCorrect` and `TimersAreAccounted`.
  Eligibility, cap and clock hold for one process only (`OneProcess`; section 6
  says why). They follow from `SingleInv`: the record tells what the process
  does with the run (`RecordInv`); a run a timer waits for is eligible, or
  executes or was deleted since (`EligibleInv`); the counter is ahead of the
  resumes it granted, wherever it lives, in the entry, in a microtask or in the
  record (`CapInv`); the record is never older than the pause and no timer of a
  paused run is due before the reset (`ClockInv`). It holds for any backoff
  table of factors of at least one.
* **Turn.** `HistoryIsOneEpoch`: whatever the stream repeats, loses or rolls
  back, and however far the cursor lags, the history is of the tail's boot and
  below its latest number. `TailInv` strengthens it with the types of the log,
  the connection and the tail (`TypeCorrect`). `FirstResultIsWhole`: what a
  session's first prompt returns are the texts of that turn from the first on,
  and all of them when it completed or was recovered in the boot it was submitted
  in with no permission pending, for any number of restarts, resumed sessions, pending
  permissions and lost connections. For `FirstInv` an event or a stored state
  counts as evidence: `ClaudeInv` says what a prompt heeded and a turn finished
  mean for Claude, its hooks and the transcript; `EventsInv` that a submit event
  of the present boot anywhere, in log, history or answer (`Stamps`), means that
  the prompt was heeded in this boot (`InBoot`: an idle record then comes of a
  Stop, and a dead Claude has lost its surface), and a stop event of any boot
  that the turn is over; `PromptInv` carries this from the fence to what is
  settled, recovered and returned. Without the boot in the evidence it would be
  false: a session resumed after a restart is idle without a Stop. For one
  prompt per session, as `runTask()` sends, it is the property of the run
  (`OnePromptIsWhole`).

* **Fleet.** `ApprovalsAreInTime`: for any deadline, number of requests and
  surfaces, an approval counts only in time. `BrokerInv` adds to `NoLateAllow`
  that the request in hand is a request and that, while the user decides, its
  age and what is left of the timer do not exceed the deadline.
  `SessionsEndClean`, for any number of surfaces, Claudes, resume attempts and
  events, whichever closes fail: the Claude a terminated session is bound to is
  dead, and any other is in a lost surface, with the exceptions `EndsClean`
  names. The property speaks of a quiet system; `EndInv` says, as long as
  nothing overlapped, where a Claude of the session can be at any time. One lives
  at most, the last born, and none while cmux has one to restore (`Alone`); it
  is in the bound surface, in the one being made, or in one that was lost
  (`Placed`); the hook store knows where (`Numbered`). The task makes the first
  workspace and has no pass or stop beside it (`TaskOwns`), a pass resumes only
  a session of which it has seen the Claude dead (`PassOwns`), and from
  `close-workspace` on nothing lives outside lost surfaces, also while the
  broker holds the state of a terminated session to put it back (`EndOwns`).
  That leaves the bound Claude in a surface that could not be closed: `DeadInv`
  says that from the kill of its process on it is dead and stays so, since
  Claudes get new numbers and the record is bound to no new one (`Ages`).
  There is one lemma per group of steps.
* **Agents, limits.** `LimitsSurface` holds for any number of agents, tool calls
  and repairs. `LimitSurfaces` says nothing of a result on its way to the host;
  the invariant adds that no turn follows such a result, that it does not call
  an attempt disobedient or silent whose last turn ran into the limit
  (`ResultsAreHonest`), the same of what settled (`SettledIsHonest`), and that
  only an agent with a schema is asked to repair (`RepairsAnswers`).
* **Agents, signals.** `SignalsAreHeeded`, an action property. The broker looks
  only at whether `run()` has settled and the session only at the signal, so
  the step alone does not do it: `SignalInv` adds that an isolated agent whose
  signal was aborted has settled or has not begun, and that only calls of
  isolated agents that have begun reach the broker.
* **Sandbox.** `StoreStaysExact` holds for any two scripts, keys, fan-out and
  number of resumes, whichever process dies when. `StoreIsExact` speaks of calls
  that were answered; `SandboxInv` adds what a delta is while its call runs
  (`DeltasGrow`), that an entry of main was made by the agent of its index
  (`EntriesOfAgents`), and that nested runs are one at a time, by the count that
  guards them (`NestedAlone`). For the values a replay leaves it adds that an
  entry being replayed is of the call of its index (`EntriesOwn`) and that calls
  of main arrive, and are replayed, in the order of the script (`Arrivals`). That the deltas of two agents of main never mix
  rests on `IndexOf`: the calls before them are sets of different size.
* **Parts of MCHelm.** A behaviour of `MCHelm` is one of each of its parts
  (`LoopPart`, `QuotaPart` and their like), so an invariant of a part is one of
  `MCHelm`.
  * *Loops.* `LoopsAreKept` holds for any number of edits, trials, runs and
    restarts, for an interval below the value that stands for "no deadline"
    (`LoopParameters`). Its one addition is that only a loop that was scheduled
    has a timer or runs; with it every caller of `armLoop()` can be dealt with
    by itself.
  * *Usage.* `CacheAdvances` and `TokensRotateOnce` hold for any number of
    processes, each dying when it likes, under `HelmAssumption` (the processes
    that settle or force are processes, times are natural). What was read before
    a lock was taken is the danger. `CacheInv` adds that a refresh past the lock
    holds it, that a cache being filled is ahead of the file, and that no cache
    is of the future; `TokenInv`, that whoever presents or writes a token holds
    the OAuth lock, and that one presented a second time is no longer valid on
    disk.
  * *Readings.* `QuotasHold` adds to `TokensRotateOnce` that the footer says what
    is left. `ReadInv` says what every outcome under way or in the cache must
    satisfy (`TrueOutcome`), and that no line is drawn before all is read. The
    readings of the providers and the bar's arithmetic are lemmas of their own.
  * *Editor and launch.* `OperatorHasTheSay`, for a text that changes only as it
    is typed (`~Pastes`; section 6 has what a paste does) and any number of
    versions. `EditorInv` adds that the highlight and its suppression are those
    of the text in the box; `LaunchInv`, that a script on its way to run is the
    one that was shown.
  * *Screens.* `AnswersAreChosen`, for any number of requests and options below
    the number that stands for "waiting" (`ScreenParameters`; the names of
    requests are not those of the other confirmations). The bridge finds the
    answer in the record of *all* decisions, by request, so `ScreenInv` adds that
    a request stands in the queue once and waits while it does, that what is on
    record was decided, and that a card being confirmed is of a request that
    waits.
  * *Lease.* `LeaseHolds`, for any number of processes. The property excuses a
    lock that was removed by one who had not read it; `LeaseInv` says that
    a lock of a living process is still held by it and one found stale stays so
    (`Truthful`), that who began alone finds only what the dead have left
    (`Undisturbed`), and that without the race the file is that of whoever made
    it (`Owned`).
  * *Fleet managers.* `HoldersSound`, for any number of processes, sessions,
    Claudes, workers and managers ever made (`FleetParameters`), adds to
    `LeaseHolds` that `FleetIsKept`. Its one real assumption is that `owner.pid`
    can be written (`MarkFails = FALSE`): the code goes on when it cannot, and
    then a sweep kills supervised Claudes (section 6). The property speaks of
    files and Claudes; `FleetInv` says who may write the files. A process holds
    one manager and, while it starts, the one before, each in the phases its
    place allows (`HolderFits`, `ManagerFits`); two processes never hold one
    session, and a manager being replaced there is older than the one that took
    the session over (`HoldersApart`, `HoldersAlone`); what is on file or known
    to a manager was launched in that session (`Recorded`, `Begun`, `Tended`).
    The core is `OnFile`: of a Claude that lives, not only the file but every
    manager that may still write it (`Keeper`) and was not taken over knows, so
    that `persist()`, which replaces the list by its own, cannot drop it. A
    load keeps this since `session_start` awaits the shutdown of the manager
    before and no other process has the session. Sweeps need `Spared` (what is
    seen as supervised is of no session found orphaned) and quits need `Quits`
    (what still lives is late or about to be stopped). One lemma per action,
    over lemmas about `After`, `Saved` and `Shutdown`.
  * *Console and sessions.* `RunsReported`, for any number of runs, resumes,
    agents and repairs. `ConsoleInv` adds to `EndIsToldOnce` that a known run
    returns its result to somebody: the count of messages about an end is that
    of the execution which has it, and a start sets it back. `AgentInv` says
    of each agent that its tools are as granted from `assembleTools()` on, that
    nothing was spent before there is a session, that all is told as it settles
    and that only an agent with a schema is asked to repair (`RunFits`); of the
    registry, which all agents share, that one found ready stays so (`Told`). Of
    the jobs it uses no more than that they name the tools there are
    (`JobsNamed`).
  * *State file.* `SavedStays` and `CloseoutsStand`, for any number of sessions,
    facts and ticks, as long as sessions are not open at once (section 6 has what
    two do). `DeskInv` says of every state of the project, on file or
    being written, that what it knows had happened by the time it bears and that
    it counts no more money than was paid (`OnDisk`). Of the one session that is
    open it says that it knows all that is on file and the closeout there, and
    that what happened in it is what came after the time it started from
    (`AloneFits`): so the file it writes cannot be without what an earlier one
    saved. What a digest lists is selected from it by kind, as `getDigest()`
    does. A crash between the two steps of a save leaves the old file.
  * *Goals.* `GoalsComplete`, for any number of runs and plans. `GoalInv` adds
    to the property that a status in memory is the one on record, that a
    closeout lists every run there is and none that has not completed, and that
    a goal is shown complete only once it has one. Freezing and thawing walk
    over a set of runs with a fold, which asks for induction over the set: the
    lemma `SubsetsAll` takes it for the subsets of a finite set, as the absence
    of a least one without the property, and `FoldUnique` and `FoldExists` give
    the fold its meaning, after which one step of the walk at a time keeps
    `GoalKept`.
  * *Models.* `RoutesFollowed`, for any thinking levels, any definitions of types and
    catalogues of any length. The names of models are the five of `MCHelm`, of
    which the proof uses no more than that they are sequences of parts and not
    empty (`IdsAre`). `ModelInv` adds that the tier
    on file, and in an editor that is open, is what was picked for it in the
    notation of the file, and that a journal entry bears the hash of the
    definition it was written under. That the notation is read back as what was
    written is a fact about a function that shortens its argument
    (`ParseUnfolds`); that ranking is well defined, that a finite total order
    counts its members from 0 (`OrderRanks`); that a model without a price is
    not ranked above the dearest or below the cheapest, that the median is one
    of the prices (`MedianIs`).
  * *Cards.* `NumbersKept`, for any number of questions. `CardInv` adds that a
    question has one record and that what a card lists, or was kept with the
    closeout, is on record. The filters of the code are one function (`Those`);
    `ThoseUnfolds` gives it its meaning, `ThosePrefix` says that it takes a
    prefix to a prefix. A hand-off changes what is handed off, because what a
    card proposes was not (`ApplyStep`).

The inductive invariants of records, session ends, sandbox, lease, readings and
fleet managers were checked by TLC, as invariants, with the constants of the runs before they
were proved.

What is only model-checked, and why:

* Liveness, which is beyond the prover: `OrphanRecovered`, `ExecutionEnds`,
  `EventuallyServed`, `FenceWakes`, `Healed`, `SandboxesSettle`, `AgentsSettle`.
* `ResultIsTheTurns` of `ClaudeTurn` for a second prompt in a session. It does
  not hold for every value of the constants: with three prompts, one restart, no
  other loss and a cursor up to three events behind, TLC finds a behaviour of 50
  states that ends with the third turn answered by replayed events of the
  second. The tail takes the boot id of every event it is shown, so events of
  the old boot make it go back to that boot, and the fence of the next prompt is
  then of the wrong epoch (`cmux/event-tail.ts`, `observeBootId`). The run's
  bounds are within what callers do today (section 2).
* `FindingsAreVouched` and `ReceiptsAreTrue`. Each speaks of what
  is selected from, flattened or folded over a sequence (`SelectSeq`,
  `FlattenSeq`, `FoldLeft`). These are recursive definitions of the libraries,
  of which the prover's own library states nothing that could be cited.

## 5. Where the code departs from what it says

| Run | What TLC shows |
|---|---|
| `manager_late_write` | A script with two calls in flight fails on one. The run is resumed. The other call of the old execution finishes, and `onAgentJournal` writes the old record over the new one. |
| `turn_unheard_report` | The stream reports a gap while the turn pastes its prompt or is between its two waits. No waiter is registered, and the wait that follows ends only by its timeout. |
| `turn_partial` | Claude has written a text and waits for a permission. The connection is lost, events are evicted, and the gap is reported to the turn's second wait. The hook store says *needsInput*, which recovery takes for ready, and the text is returned as the result of a turn that goes on. |

## 6. Properties the code does not have

Formulas the modules state and TLC refutes; no run checks them. Each is what a
reader might take for granted, and the property the runs check instead is
weaker by just this. To see the counterexample, put the formula in place of the
properties of the configuration, with the constants named here; those of a part
are checked in `MCHelm` as, say, `Fleet!AllStayOnFile`.

| Formula | Instance | What happens |
|---|---|---|
| `WorkflowManager!StoppedStaysStopped` | `MCManagerShared.cfg` | `resume()` reads the record, the executing process stops the run and gives the lease back, `resume()` takes it: a stopped run executes again (`workflow-manager.ts:686-709`). |
| `RunLease!LeaseIsExclusive` | `MCHelm.cfg` | A process reads the lock of another between its creation and its write, or before it is replaced, takes it for stale and removes the one that is there by then: both have the lease (`run-persistence.ts:285-298`, against the comment at `:91`). |
| `WorkflowRuntime!NoStaleReplay` | `MCRuntime.cfg`, `MaxResumes = 2` | A resume with an edited first call executes it and is interrupted. The next resume serves the second call from a result of the first script: an entry is matched by its own hash, and entries behind the edit stay. |
| `WorkflowRuntime!BudgetIsRunWide` | `MCRuntime.cfg`, 4 calls, fan-out and attempts 1 | A resume starts without the launch's token budget, so the run spends past what is called a run-wide cap. |
| `OnlyEligibleResumed` | `MCScheduler.cfg`, two processes | A process armed a timer; the run is resumed and then paused by its user in another; the timer resumes it. |
| `UsageLimitScheduler!ClockKept` | `MCScheduler.cfg` | `persistAttempts()` stamps `updatedAt`, from which the next start computes the time since the pause: every restart begins the wait again. |
| `ScriptSandbox!DeltasExact` | `MCSandbox.cfg` | Two nested runs at once share the id `-nested1` (`workflow.ts:756`) and with it the keys of their deltas. |
| `ScriptSandbox!CompletedNotRerun` | `MCSandbox.cfg` | A nested run journals through the parent's callback from index 0 on, so its entry replaces one of the parent, whose call is executed again after a resume. |
| `ScriptSandbox!ReplayKeepsLastWrite` | `MCSandbox.cfg` | Two calls run side by side and write one key, the first call of the script last. Their deltas, applied in the order of the calls (`shared-store.ts:87`, `workflow.ts:507`), leave the value of the second; `shared-store.ts:10-13` says that "parallel-agent writes are replayed correctly", and of the original run that "the last write wins" (`:180`). |
| `RunConsole!RunningIsNotResumed` | `MCHelm.cfg` | A running run is removed (`/workflows rm` asks for no state). Its execution is not aborted; with its next progress it writes the record again, *running*, without a lock (`workflow-manager.ts:789`, `:391-400`). The run is resumed, and two executions of it go on, against "refuse to resume a run that is already running" (`:684`). |
| `HelmLoops!PauseWaitsForOperator` | `MCHelm.cfg` | On a start an elapsed schedule sets a paused loop to idle (`data/real.ts:215-217`); `helm/README.md:67-69` says it waits for the operator. |
| `HelmGoals!CompletionIsSeen` | `MCHelm.cfg` | The completion event is heard before the record is written (`workflow-manager.ts:495-529`), and no other follows: the goal stays "running". |
| `HelmDesk!TellsOfAbsence` | `MCHelm.cfg` | The digest leaves out everything before the launch (`data/real.ts:367-369`), what happened while the operator was away included. |
| `HelmDesk!TellsOfRuns` | `MCHelm.cfg` | The digest has a line for a loop that paused itself and none for one that completed its run. By design (`state/types.ts:320-323`), but the line "shipped by loops" (`screens/digest.ts:5`) has no source: nothing writes the events it lists (`data/real.ts:389-390`). |
| `HelmDesk!GreenIsGreen` | `MCHelm.cfg` | One failure of 200 checks is shown as 100 % (`data/real.ts:886`). |
| `HelmDesk!KeptByBoth` | `Desks = {1, 2}` | Two sessions of a project each write all they have in memory (`state/persistence.ts:93-99`). |
| `HelmAccounts!NothingIsForgotten` | `MCHelm.cfg` | A resume starts the run's account over (`workflow-manager.ts:709-731`); what was spent before disappears from the spend of the day. |
| `HelmReceipts!ReceiptIsWhatLanded` | `MCHelm.cfg` | A failed edit counts as measured change (`adapters.ts:316-324`), one whose arguments were cut does not. |
| `HelmReceipts!PassedIsCounted` | `MCHelm.cfg` | A check that passed and says "5 passed; 0 failed" counts as failed: the text is searched for a count of failures, whatever the count (`adapters.ts:349-350`). |
| `AgentSession!AnswerIsLast` | `MCHelm.cfg` | A turn that ends in an error that is no limit is not thrown; the text of an earlier message becomes the answer (`agent.ts:627-642`, `:734-745`). |
| `FleetConsole!AllStayOnFile` | `MCHelm.cfg` | `/claude-cmux-stop` on a manager whose start was refused saves an empty list over the sessions on record, which `shutdown()` takes care not to do (`fleet-manager.ts:241-247`, `:425-428`). Also: a process goes from one session to another and, while the manager before is being shut down, a second process opens the first session and launches a Claude there; the list the old manager saves last is without it (`register.ts:152-155`, `fleet-manager.ts:425-437`). |
| `FleetConsole!QuitLeavesNone` | `MCHelm.cfg` | While a shutdown waits for the first Claude to end, a worker of the fleet starts its next task; the Claude it launches outlives pi. |
| `FleetConsole!AdoptedAreSpared` | `Pis = {1, 2, 3}`, `MaxManagers = 3`, `Claudes = {1}` | The sweep reads the owner, then the file: a session taken over in between is killed. |
| `FleetConsole!PeersAreSpared` | `MarkFails = TRUE`, `Pis = {1, 2, 3}`, `MaxManagers = 3`, `Claudes = {1}` | A process opens the session of one that crashed and cannot open `owner.pid` for writing, which is best effort (`fleet-manager.ts:366-375`). The mark of the dead one stays, and a third process sweeps the session and kills its Claudes. |
| `WorkflowEditor!HighlightDecides` | `MCHelm.cfg`, `Pastes = TRUE` | Backspace turns the highlight off; the text is emptied at once and the same text pasted. It is lit again, but its suppression was kept, and the message is not forced (`workflow-editor.ts:263-265`). |
| `WorkflowLaunch!CommandRunsSaved` | `MCHelm.cfg` | The command of a workflow that was saved anew runs the old script until pi restarts (`saved-commands.ts:63-78`). |
| `ModelRouting!EditedIsAlwaysUsed` | `MCHelm.cfg` | With models `n` and `n:high`, the tier `n` at level `high` is read back as the other model (`model-spec.ts:149-182`). |

## 7. What is not modelled

* **Worktrees** (`worktree.ts`): git commands and names cut to a fixed length.
* **Demo data** (`data/mock.ts`), design prototypes and `dist/`.
* **Rendering**: screens beyond the router, colours, wording, widths (other than
  the footer's), logs, the HTTP of providers, command lines of cmux, process
  tables.
* A process id that the system uses again, and `acquireRunLease()` inside the
  manager: `WorkflowManager` takes it as one step, `RunLease` says when that is
  right.
* In `workflow.ts`, the second copies of helpers (703-935) that the sandbox's
  child has replaced, phase sub-budgets, and the parser of `meta`.
* In the tool and its text: hints that a finished run can be resumed,
  `resumeFromRunId` beyond the launch, results that are cut.
* The pruning of ended Claude sessions beyond 200 and of the event history
  beyond 1,024 frames; the starting and stopping of the tail.
* Legacy paths and backups of run files, listeners that throw.

Each component's note in `PROJECT.json` says what else of it is left out.

## 8. What is left

1. A process id that is used again in `RunLease`.
2. A script that fans out in `HelmAccounts`; two agents to their ends in
   `AgentSession`; pastes in `WorkflowEditor`.
3. Phase sub-budgets and worktrees with `WorkflowRuntime`.
