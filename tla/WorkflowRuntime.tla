-------------------------- MODULE WorkflowRuntime --------------------------
(***************************************************************************)
(* The execution of a workflow script (workflows/workflow.ts,              *)
(* runWorkflow): the gates of agent() and checkpoint(), the limiter, the   *)
(* attempt loop with its retries, timeouts and per-agent pauses, the       *)
(* journal, and the replay of its unchanged prefix when the manager        *)
(* resumes the run, possibly with an edited script.                        *)
(*                                                                         *)
(* A script is the sequence of the identities its calls hash to.  It calls *)
(* in that order and has at most FanOut calls outstanding.  Everything the *)
(* parent process does between two events of its loop is one step: a call  *)
(* arrives as one IPC message, and the limiter hands a freed slot on in    *)
(* the microtasks that follow the release, before the next message.        *)
(***************************************************************************)
EXTENDS Naturals, Sequences, FiniteSets

CONSTANTS
    NumCalls,       \* calls of the script
    Checkpoints,    \* the calls that are checkpoint(), the others are agent()
    Hashes,         \* identities a call can have
    FanOut,         \* calls the script leaves outstanding
    Limit,          \* concurrency
    MaxAgents,      \* maxAgents of the launch
    MaxAttempts,    \* agentRetries + 1
    TokenBudget,    \* tokenBudget of the launch; an attempt costs one token
    Edits,          \* whether a resume may bring an edited script
    MaxResumes,     \* bound: resumes of the run
    MaxPauses       \* bound: per-agent pauses

Calls == 0 .. NumCalls - 1

ASSUME SizesAssumption ==
    /\ NumCalls \in Nat /\ FanOut \in Nat /\ MaxAgents \in Nat
    /\ TokenBudget \in Nat /\ MaxResumes \in Nat /\ MaxPauses \in Nat
    /\ Limit \in Nat \ {0} /\ MaxAttempts \in Nat \ {0}
ASSUME ScriptAssumption ==
    /\ Hashes # {} /\ Checkpoints \subseteq Calls /\ Edits \in BOOLEAN

Scripts == [Calls -> Hashes]

(* A journal entry keeps the hash it was recorded under.  `under` is the   *)
(* script that produced it, which the code does not record.                *)
Entry   == [hash : Hashes, under : Scripts]
NoEntry == [hash |-> "none"]

VARIABLES
    script,         \* the script being executed
    run,            \* where runWorkflow is
    journal,        \* ManagedRun.journal, by call index
    resumeJournal,  \* the journal this execution replays
    callSeq,        \* next call index
    firstMiss,      \* first index the journal could not answer
    agentCount,     \* calls counted against maxAgents
    spent,          \* tokens spent by this execution
    paid,           \* tokens spent by the run, over all its executions
    optioned,       \* this execution was given the options of the launch
    thrown,         \* a call threw a non-recoverable error at the script
    call,           \* per index: progress of the call
    attempt,        \* per index: attempts begun
    slots,          \* the limiter's inFlight
    parked,         \* the limiter's queue
    pausedAgents,   \* calls whose agent the user paused
    interrupts,     \* pauseInterrupts
    resumes, pauses \* counters behind MaxResumes and MaxPauses

limiterVars == <<slots, parked>>
gateVars    == <<callSeq, firstMiss, agentCount>>
pauseVars   == <<pausedAgents, interrupts, pauses>>
launchVars  == <<script, resumeJournal, optioned, resumes>>
vars == <<launchVars, gateVars, limiterVars, pauseVars, run, journal, spent, paid,
          thrown, call, attempt>>

CallState == {"uncalled", "replayed", "parked", "gate", "running", "stopping",
              "asking", "returned", "null", "threw"}

Holding == {"gate", "running", "stopping"}          \* has a limiter slot
Pending == Holding \cup {"parked", "asking"}        \* the script awaits it

TypeOK ==
    /\ script \in Scripts
    /\ run \in {"running", "completed", "rejected", "aborted"}
    /\ journal \in [Calls -> Entry \cup {NoEntry}]
    /\ resumeJournal \in [Calls -> Entry \cup {NoEntry}]
    /\ callSeq \in 0 .. NumCalls /\ firstMiss \in 0 .. NumCalls
    /\ agentCount \in Nat /\ spent \in Nat /\ paid \in Nat
    /\ optioned \in BOOLEAN /\ thrown \in BOOLEAN
    /\ call \in [Calls -> CallState]
    /\ attempt \in [Calls -> 0 .. MaxAttempts]
    /\ slots \in Nat
    /\ parked \in Seq(Calls)
    /\ pausedAgents \subseteq Calls /\ interrupts \subseteq Calls
    /\ resumes \in Nat /\ pauses \in Nat

FreshExecution ==
    /\ run' = "running"
    /\ callSeq' = 0 /\ firstMiss' = NumCalls /\ agentCount' = 0
    /\ spent' = 0 /\ thrown' = FALSE
    /\ call' = [c \in Calls |-> "uncalled"]
    /\ attempt' = [c \in Calls |-> 0]
    /\ slots' = 0 /\ parked' = <<>>

(* The first script hashes alike at every index: identities are compared   *)
(* only between calls of the same index.                                   *)
Init ==
    /\ script = [c \in Calls |-> CHOOSE h \in Hashes : TRUE]
    /\ run = "running"
    /\ journal = [c \in Calls |-> NoEntry]
    /\ resumeJournal = [c \in Calls |-> NoEntry]
    /\ callSeq = 0 /\ firstMiss = NumCalls /\ agentCount = 0
    /\ spent = 0 /\ paid = 0 /\ optioned = TRUE /\ thrown = FALSE
    /\ call = [c \in Calls |-> "uncalled"]
    /\ attempt = [c \in Calls |-> 0]
    /\ slots = 0 /\ parked = <<>>
    /\ pausedAgents = {} /\ interrupts = {}
    /\ resumes = 0 /\ pauses = 0

-----------------------------------------------------------------------------
(* agent() and checkpoint(): the synchronous gates.                        *)

(* Some lane of the script is not waiting for a call: its code can run.    *)
LaneFree ==
    /\ run = "running"
    /\ Cardinality({c \in Calls : call[c] \in Pending}) < FanOut

ScriptCalls == LaneFree /\ callSeq < NumCalls

OutOfAgents == optioned /\ agentCount >= MaxAgents
OutOfBudget == callSeq \notin Checkpoints /\ optioned /\ spent >= TokenBudget

(* A refused call throws before it takes an index.                         *)
CallRefused ==
    /\ ScriptCalls
    /\ OutOfAgents \/ OutOfBudget
    /\ thrown' = TRUE
    /\ UNCHANGED <<launchVars, gateVars, limiterVars, pauseVars, run, journal,
                   spent, paid, call, attempt>>

(* The call takes its index and its place in the count.                    *)
Admit == /\ ScriptCalls
         /\ ~OutOfAgents /\ ~OutOfBudget
         /\ callSeq' = callSeq + 1
         /\ agentCount' = agentCount + 1

JournalAnswers(c) ==
    /\ resumeJournal[c] # NoEntry
    /\ resumeJournal[c].hash = script[c]
    /\ c < firstMiss

CallReplays ==
    /\ Admit
    /\ JournalAnswers(callSeq)
    /\ call' = [call EXCEPT ![callSeq] = "replayed"]
    /\ UNCHANGED <<launchVars, limiterVars, pauseVars, run, journal, spent, paid,
                   thrown, firstMiss, attempt>>

(* Mutant: a miss is not remembered.                                       *)
MissForgotten(c) == firstMiss

(* A call the journal holds another hash for, or nothing, is the first     *)
(* miss unless an earlier call was.                                        *)
Miss(c) == IF /\ resumeJournal[c] # NoEntry
              /\ resumeJournal[c].hash = script[c]
           THEN firstMiss
           ELSE IF c < firstMiss THEN c ELSE firstMiss

(* An agent takes a limiter slot, or parks.                                *)
AgentAdmitted ==
    /\ Admit
    /\ callSeq \notin Checkpoints
    /\ ~JournalAnswers(callSeq)
    /\ firstMiss' = Miss(callSeq)
    /\ IF slots >= Limit
       THEN /\ parked' = Append(parked, callSeq)
            /\ call' = [call EXCEPT ![callSeq] = "parked"]
            /\ UNCHANGED slots
       ELSE /\ slots' = slots + 1
            /\ call' = [call EXCEPT ![callSeq] = "gate"]
            /\ UNCHANGED parked
    /\ UNCHANGED <<launchVars, pauseVars, run, journal, spent, paid, thrown, attempt>>

(* A checkpoint asks the human; it takes no slot and no token.             *)
CheckpointAsked ==
    /\ Admit
    /\ callSeq \in Checkpoints
    /\ ~JournalAnswers(callSeq)
    /\ firstMiss' = Miss(callSeq)
    /\ call' = [call EXCEPT ![callSeq] = "asking"]
    /\ UNCHANGED <<launchVars, limiterVars, pauseVars, run, journal, spent, paid,
                   thrown, attempt>>

Journaled(c) == [journal EXCEPT ![c] = [hash |-> script[c], under |-> script]]

CheckpointAnswered(c) ==
    /\ call[c] = "asking"
    /\ journal' = Journaled(c)
    /\ call' = [call EXCEPT ![c] = "returned"]
    /\ UNCHANGED <<launchVars, gateVars, limiterVars, pauseVars, run, spent, paid,
                   thrown, attempt>>

(* A headless checkpoint declared to abort, or a dialog that fails.        *)
CheckpointFails(c) ==
    /\ call[c] = "asking"
    /\ call' = [call EXCEPT ![c] = "threw"]
    /\ thrown' = TRUE
    /\ UNCHANGED <<launchVars, gateVars, limiterVars, pauseVars, run, journal,
                   spent, paid, attempt>>

-----------------------------------------------------------------------------
(* The limited task of an agent call.                                      *)

(* Mutant: a retry does not look whether its agent was paused meanwhile.   *)
AttemptStartsPaused(c) ==
    /\ call[c] = "gate"
    /\ attempt[c] = 0 => c \notin pausedAgents
    /\ call' = [call EXCEPT ![c] = "running"]
    /\ attempt' = [attempt EXCEPT ![c] = @ + 1]
    /\ UNCHANGED <<launchVars, gateVars, limiterVars, pauseVars, run, journal,
                   spent, paid, thrown>>

(* waitForAgentResume lets the attempt start.                              *)
AttemptStarts(c) ==
    /\ call[c] = "gate"
    /\ c \notin pausedAgents
    /\ call' = [call EXCEPT ![c] = "running"]
    /\ attempt' = [attempt EXCEPT ![c] = @ + 1]
    /\ UNCHANGED <<launchVars, gateVars, limiterVars, pauseVars, run, journal,
                   spent, paid, thrown>>

(* Mutant: the slot is freed and handed on as well.                        *)
TaskEndsTwice(c, outcome) ==
    /\ slots' = slots - 1
    /\ parked' = IF parked = <<>> THEN <<>> ELSE Tail(parked)
    /\ call' = [d \in Calls |-> CASE d = c -> outcome
                                  [] d # c /\ parked # <<>> /\ d = Head(parked) -> "gate"
                                  [] OTHER -> call[d]]

(* Mutant: the slot is freed, and nobody is woken for it.                  *)
TaskEndsSilently(c, outcome) ==
    /\ slots' = slots - 1
    /\ call' = [call EXCEPT ![c] = outcome]
    /\ UNCHANGED parked

(* The task leaves the limiter: its slot goes to the longest parked call.  *)
TaskEnds(c, outcome) ==
    IF parked = <<>>
    THEN /\ slots' = slots - 1
         /\ call' = [call EXCEPT ![c] = outcome]
         /\ UNCHANGED parked
    ELSE /\ parked' = Tail(parked)
         /\ call' = [call EXCEPT ![c] = outcome, ![Head(parked)] = "gate"]
         /\ UNCHANGED slots

Charge == spent' = spent + 1 /\ paid' = paid + 1

AgentSucceeds(c) ==
    /\ call[c] = "running"
    /\ Charge
    /\ journal' = Journaled(c)
    /\ TaskEnds(c, "returned")
    /\ UNCHANGED <<launchVars, gateVars, pauseVars, run, thrown, attempt>>

(* The timeout fires first: the attempt is aborted and the loop waits for  *)
(* the agent to settle before it goes on, whatever it then answers.        *)
AgentTimesOut(c) ==
    /\ call[c] = "running"
    /\ call' = [call EXCEPT ![c] = "stopping"]
    /\ UNCHANGED <<launchVars, gateVars, limiterVars, pauseVars, run, journal,
                   spent, paid, thrown, attempt>>

AttemptFailed(c, hard) == \/ call[c] = "running"
                          \/ call[c] = "stopping" /\ ~hard

(* The failure is the user's pause: the attempt does not count.            *)
AttemptInterrupted(c, hard) ==
    /\ AttemptFailed(c, hard)
    /\ c \in interrupts
    /\ interrupts' = interrupts \ {c}
    /\ call' = [call EXCEPT ![c] = "gate"]
    /\ attempt' = [attempt EXCEPT ![c] = @ - 1]
    /\ UNCHANGED <<launchVars, gateVars, limiterVars, pausedAgents, pauses, run,
                   journal, spent, paid, thrown>>

AttemptRetried(c) ==
    /\ AttemptFailed(c, FALSE)
    /\ c \notin interrupts
    /\ attempt[c] < MaxAttempts
    /\ Charge
    /\ call' = [call EXCEPT ![c] = "gate"]
    /\ UNCHANGED <<launchVars, gateVars, limiterVars, pauseVars, run, journal,
                   thrown, attempt>>

(* The last recoverable failure gives the script null; a non-recoverable   *)
(* one is thrown at it.                                                    *)
AgentFails(c, hard) ==
    /\ AttemptFailed(c, hard)
    /\ c \notin interrupts
    /\ ~hard => attempt[c] = MaxAttempts
    /\ Charge
    /\ TaskEnds(c, IF hard THEN "threw" ELSE "null")
    /\ thrown' = (thrown \/ hard)
    /\ UNCHANGED <<launchVars, gateVars, pauseVars, run, journal, attempt>>

-----------------------------------------------------------------------------
(* Per-agent pause (workflow-manager.ts, pauseAgent and resumeAgent).      *)

(* An agent that shows as running; its attempt, if one has started, is     *)
(* aborted, and may still have answered.                                   *)
PauseAgent(c) ==
    /\ run = "running"
    /\ call[c] \in Holding
    /\ c \notin pausedAgents
    /\ pauses < MaxPauses
    /\ pauses' = pauses + 1
    /\ pausedAgents' = pausedAgents \cup {c}
    /\ interrupts' = IF call[c] = "gate" THEN interrupts ELSE interrupts \cup {c}
    /\ UNCHANGED <<launchVars, gateVars, limiterVars, run, journal, spent, paid,
                   thrown, call, attempt>>

ResumeAgent(c) ==
    /\ c \in pausedAgents
    /\ pausedAgents' = pausedAgents \ {c}
    /\ UNCHANGED <<launchVars, gateVars, limiterVars, interrupts, pauses, run,
                   journal, spent, paid, thrown, call, attempt>>

-----------------------------------------------------------------------------
(* The end of an execution, and the next one.                              *)

(* The script awaited its calls and returns, after the last one or because *)
(* it handled an error.                                                    *)
RunReturns ==
    /\ run = "running"
    /\ callSeq = NumCalls \/ thrown
    /\ \A c \in Calls : call[c] \notin Pending
    /\ run' = "completed"
    /\ UNCHANGED <<launchVars, gateVars, limiterVars, pauseVars, journal, spent,
                   paid, thrown, call, attempt>>

(* The script throws, by itself or what a call threw at it.  Calls it had  *)
(* made keep going, parked ones included.                                  *)
RunRejects ==
    /\ LaneFree
    /\ run' = "rejected"
    /\ UNCHANGED <<launchVars, gateVars, limiterVars, pauseVars, journal, spent,
                   paid, thrown, call, attempt>>

(* pause(), stop() or Esc: every call in progress ends without effect.     *)
RunAborts ==
    /\ run = "running"
    /\ run' = "aborted"
    /\ call' = [c \in Calls |-> IF call[c] \in Pending THEN "threw" ELSE call[c]]
    /\ slots' = 0 /\ parked' = <<>>
    /\ UNCHANGED <<launchVars, gateVars, pauseVars, journal, spent, paid, thrown,
                   attempt>>

(* WorkflowManager.resume() starts a new execution from the journal, with  *)
(* the persisted or an edited script, and without the launch's maxAgents   *)
(* and tokenBudget: the first falls back to a default too large to be      *)
(* reached here, the second to none.  What calls of an older execution do  *)
(* after a resume is WorkflowManager's subject: here they have ended.      *)
ResumeRun(edited) ==
    /\ run \in {"rejected", "aborted"}
    /\ \A c \in Calls : call[c] \notin Pending
    /\ resumes < MaxResumes
    /\ edited # script => Edits
    /\ resumes' = resumes + 1
    /\ script' = edited
    /\ resumeJournal' = journal
    /\ optioned' = FALSE
    /\ FreshExecution
    /\ UNCHANGED <<pauseVars, journal, paid>>

-----------------------------------------------------------------------------
ScriptStep == CallRefused \/ CallReplays \/ AgentAdmitted \/ CheckpointAsked

AgentStep(c) ==
    \/ AttemptStarts(c) \/ AgentSucceeds(c) \/ AgentTimesOut(c)
    \/ AttemptRetried(c) \/ CheckpointAnswered(c)
    \/ CheckpointFails(c)
    \/ \E hard \in BOOLEAN : AttemptInterrupted(c, hard) \/ AgentFails(c, hard)

UserStep(c) == PauseAgent(c) \/ ResumeAgent(c)

Next == \/ ScriptStep
        \/ \E c \in Calls : AgentStep(c) \/ UserStep(c)
        \/ RunReturns \/ RunRejects \/ RunAborts
        \/ \E edited \in Scripts : ResumeRun(edited)

Spec == Init /\ [][Next]_vars

(* Agents settle, humans answer checkpoints and resume the agents they     *)
(* paused, and a script makes its calls and returns.                       *)
Fairness ==
    /\ WF_vars(ScriptStep) /\ WF_vars(RunReturns)
    /\ \A c \in Calls : WF_vars(AgentStep(c)) /\ WF_vars(ResumeAgent(c))

FairSpec == Spec /\ Fairness

-----------------------------------------------------------------------------
(* The limiter never runs more than `concurrency` agents, counts exactly   *)
(* the calls that hold a slot through retries, timeouts, pauses and        *)
(* failures, and parks calls only while every slot is taken (createLimiter *)
(* claims "the in-flight count never exceeds the limit").                  *)
LimiterSound ==
    /\ slots = Cardinality({c \in Calls : call[c] \in Holding})
    /\ slots <= Limit
    /\ parked # <<>> => slots = Limit
    /\ {c \in Calls : call[c] = "parked"} = {parked[i] : i \in 1 .. Len(parked)}

(* Replay ends for good at the first call the journal cannot answer: no    *)
(* call behind one that was executed is served from the journal            *)
(* (workflow.ts: "it AND everything after it run live").                   *)
ReplayIsPrefix ==
    \A c, d \in Calls : /\ call[c] \notin {"uncalled", "replayed"}
                        /\ call[d] = "replayed"
                        => d < c

(* An agent the user paused makes no progress: if an attempt of it is      *)
(* still running, that attempt has been told to stop, and its failure will *)
(* not be counted against the agent's attempts.                            *)
PauseHolds ==
    \A c \in pausedAgents : call[c] \in {"running", "stopping"} => c \in interrupts

(* An execution comes to an end: no call is left parked or waiting and no  *)
(* slot is lost, whichever attempts fail, time out or are paused.          *)
ExecutionEnds == run = "running" ~> run # "running"

(* A result served from the journal was produced under the same calls up   *)
(* to that one (workflow.ts: "so an edited upstream call never leaves      *)
(* stale downstream results served from the journal").                     *)
NoStaleReplay ==
    \A c \in Calls : call[c] = "replayed" =>
        \A d \in 0 .. c : resumeJournal[c].under[d] = script[d]

(* The budget a run was launched with holds for the run, over its resumes  *)
(* (workflow-tool.ts: "pass tokenBudget for a hard run-wide cap"), up to   *)
(* what calls in progress can still spend.                                 *)
BudgetIsRunWide == paid <= TokenBudget - 1 + FanOut * MaxAttempts
=============================================================================
