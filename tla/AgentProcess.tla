---------------------------- MODULE AgentProcess ----------------------------
(***************************************************************************)
(* The attempts of two or more agents of a run, and the tools they call.   *)
(* An attempt runs in the host (WorkflowAgent, workflows/agent.ts) or, if  *)
(* the run has a host context, in a process of its own                     *)
(* (workflows/process-agent.ts, process-agent-child.ts) whose tools are    *)
(* proxies: a call goes to the host over IPC, is authorised by the broker  *)
(* of the parent session (workflow-permission-broker.ts), whose dialogs    *)
(* are shown one at a time, and is executed there                          *)
(* (inherited-tool-host.ts).                                               *)
(*                                                                         *)
(* Models and pi's sessions are external: a turn of a session says         *)
(* something or nothing, may call structured_output, and may end in the    *)
(* provider's usage limit, which the SDK records instead of throwing.      *)
(***************************************************************************)
EXTENDS Naturals, Sequences, FiniteSets

CONSTANTS
    Agents,
    MaxCalls,       \* bound: tool calls of an agent
    MaxRetries,     \* maxSchemaRetries
    Policies        \* what the policy of the broker may say

ASSUME AgentAssumption ==
    /\ MaxCalls \in Nat /\ MaxRetries \in Nat
    /\ Policies \subseteq {"allow", "deny", "ask"} /\ Policies # {}

CallIds == 1 .. MaxCalls
Calls   == Agents \X CallIds

VARIABLES
    isolated,   \* the run has a host context
    schema,     \* the agents asked for a structured answer
    work,       \* per agent: its session
    wire,       \* per agent: messages of the child under way
    told,       \* per agent: the reports the runtime has got
    settled,    \* per agent: how run() settled
    aborted,    \* the signals that were aborted
    call,       \* per tool call: how far it has got
    line        \* promptTail: the calls whose dialog is shown or is to come

vars == <<isolated, schema, work, wire, told, settled, aborted, call, line>>

Texts    == {"nothing", "prose", "json"}
Failures == {"limit", "schema", "empty", "aborted", "error"}
Outcomes == {"value"} \cup Failures
Reports  == {"usage", "history"}
Messages == [type : Reports \cup {"result", "tool"}, how : Outcomes \cup {"-"}, id : 0 .. MaxCalls]

TypeOK ==
    /\ isolated \in BOOLEAN /\ schema \subseteq Agents /\ aborted \subseteq Agents
    /\ work \in [Agents -> [pc : {"new", "first", "repair", "over", "dead"},
                            left : 0 .. MaxRetries, captured : BOOLEAN,
                            limited : BOOLEAN, said : Texts]]
    /\ wire \in [Agents -> Seq(Messages)]
    /\ told \in [Agents -> SUBSET Reports]
    /\ settled \in [Agents -> Outcomes \cup {"no"}]
    /\ call \in [Calls -> {"none", "sent", "policy", "queued", "dialog", "running", "answered"}]
    /\ line \in Seq(Calls)

Init ==
    /\ isolated \in BOOLEAN /\ schema \in SUBSET Agents
    /\ work = [a \in Agents |-> [pc |-> "new", left |-> MaxRetries, captured |-> FALSE,
                                 limited |-> FALSE, said |-> "nothing"]]
    /\ wire = [a \in Agents |-> <<>>] /\ told = [a \in Agents |-> {}]
    /\ settled = [a \in Agents |-> "no"] /\ aborted = {}
    /\ call = [c \in Calls |-> "none"] /\ line = <<>>

InTurn(a) == work[a].pc \in {"first", "repair"}
Cut(a)    == settled[a] # "no"          \* finish(): the controllers are aborted

Send(a, messages) == wire' = [wire EXCEPT ![a] = @ \o messages]
Report(type)      == [type |-> type, how |-> "-", id |-> 0]
Result(outcome)   == [type |-> "result", how |-> outcome, id |-> 0]
Request(n)        == [type |-> "tool", how |-> "-", id |-> n]

-----------------------------------------------------------------------------
(* The session, in the host or in the child.                               *)

(* The child gets init, or the session of the host is prompted.            *)
AgentStarts(a) ==
    /\ work[a].pc = "new" /\ settled[a] = "no"
    /\ IF a \in aborted
         THEN /\ settled' = [settled EXCEPT ![a] = "aborted"]
              /\ work' = [work EXCEPT ![a].pc = "over"]
         ELSE /\ work' = [work EXCEPT ![a].pc = "first"]
              /\ UNCHANGED settled
    /\ UNCHANGED <<isolated, schema, wire, told, aborted, call, line>>

(* What a turn leaves behind.                                              *)
Turn(a, text, limit, structured) ==
    [work[a] EXCEPT !.said = IF text = "nothing" THEN @ ELSE text,
                    !.captured = @ \/ structured, !.limited = limit]

(* The answer, when no turn is left: the captured value, else the prose,   *)
(* or what can be extracted from it.                                       *)
Answer(a, w) ==
    IF a \notin schema
    THEN IF w.said # "nothing" THEN "value" ELSE "empty"
    ELSE IF w.captured \/ w.said = "json" THEN "value" ELSE "schema"

(* run() of the child: the limit is looked for after every turn.           *)
ChildGoesOn(a, w) ==
    IF w.limited THEN "limit"
    ELSE IF a \in schema /\ ~w.captured /\ w.left > 0 THEN "repair"
    ELSE Answer(a, w)

(* Mutant: the limit is looked for after the first turn only.              *)
HostGoesOnMutant(a, w) ==
    IF w.pc = "first" /\ a \in aborted THEN "aborted"
    ELSE IF w.pc = "first" /\ w.limited THEN "limit"
    ELSE IF a \in schema /\ ~w.captured /\ w.left > 0
         THEN IF a \in aborted THEN "aborted" ELSE "repair"
    ELSE Answer(a, w)

(* run() and resolveStructuredOutput() of the host: the signal and the     *)
(* limit after the first turn, the signal before every repair, and the     *)
(* limit once more when nothing can be extracted.                          *)
HostGoesOn(a, w) ==
    IF w.pc = "first" /\ a \in aborted THEN "aborted"
    ELSE IF w.pc = "first" /\ w.limited THEN "limit"
    ELSE IF a \in schema /\ ~w.captured /\ w.left > 0
         THEN IF a \in aborted THEN "aborted" ELSE "repair"
    ELSE IF Answer(a, w) = "schema" /\ w.limited THEN "limit"
    ELSE Answer(a, w)

ChildEnds(a, outcome) ==
    Send(a, <<Report("usage"), Report("history"), Result(outcome)>>)

(* The host's finally block reports, then run() settles.                   *)
HostEnds(a, outcome) ==
    /\ told' = [told EXCEPT ![a] = Reports]
    /\ settled' = [settled EXCEPT ![a] = outcome]

AwaitsTool(a) == \E n \in CallIds : call[<<a, n>>] \notin {"none", "answered"}

TurnEnds(a) ==
    /\ InTurn(a)
    /\ ~AwaitsTool(a)
    /\ \E text \in Texts, limit \in BOOLEAN, structured \in BOOLEAN :
         LET w    == Turn(a, text, limit, structured)
             next == IF isolated THEN ChildGoesOn(a, w) ELSE HostGoesOn(a, w)
         IN /\ structured => a \in schema
            /\ IF next = "repair"
               THEN /\ work' = [work EXCEPT ![a] = [w EXCEPT !.pc = "repair", !.left = @ - 1]]
                    /\ UNCHANGED <<wire, told, settled>>
               ELSE /\ work' = [work EXCEPT ![a] = [w EXCEPT !.pc = "over"]]
                    /\ IF isolated THEN ChildEnds(a, next) /\ UNCHANGED <<told, settled>>
                       ELSE HostEnds(a, next) /\ UNCHANGED wire
    /\ UNCHANGED <<isolated, schema, aborted, call, line>>

(* The session throws: no model, no network, an unreadable configuration.  *)
SessionFails(a) ==
    /\ InTurn(a)
    /\ work' = [work EXCEPT ![a].pc = "over"]
    /\ IF isolated THEN ChildEnds(a, "error") /\ UNCHANGED <<told, settled>>
       ELSE HostEnds(a, "error") /\ UNCHANGED wire
    /\ UNCHANGED <<isolated, schema, aborted, call, line>>

ChildDies(a) ==
    /\ isolated /\ settled[a] = "no"
    /\ work[a].pc \notin {"new", "dead"}
    /\ work' = [work EXCEPT ![a].pc = "dead"]
    /\ UNCHANGED <<isolated, schema, wire, told, settled, aborted, call, line>>

-----------------------------------------------------------------------------
(* The host's side of an isolated agent.                                   *)

(* finish(): listeners go, controllers are aborted, the child is killed.   *)
Finish(a, outcome) ==
    /\ settled' = [settled EXCEPT ![a] = outcome]
    /\ work' = [work EXCEPT ![a].pc = "dead"]
    /\ wire' = [wire EXCEPT ![a] = <<>>]

MessageArrives(a) ==
    /\ settled[a] = "no" /\ wire[a] # <<>>
    /\ LET m == Head(wire[a])
       IN CASE m.type = "result" ->
                 Finish(a, m.how) /\ UNCHANGED <<told, call>>
            [] m.type = "tool" ->
                 /\ call' = [call EXCEPT ![<<a, m.id>>] = "policy"]
                 /\ wire' = [wire EXCEPT ![a] = Tail(@)]
                 /\ UNCHANGED <<told, settled, work>>
            [] OTHER ->
                 /\ told' = [told EXCEPT ![a] = @ \cup {m.type}]
                 /\ wire' = [wire EXCEPT ![a] = Tail(@)]
                 /\ UNCHANGED <<call, settled, work>>
    /\ UNCHANGED <<isolated, schema, aborted, line>>

(* The exit may be heard before the messages that are still in the pipe.   *)
ExitHeard(a) ==
    /\ work[a].pc = "dead" /\ settled[a] = "no"
    /\ Finish(a, "error")
    /\ UNCHANGED <<isolated, schema, told, aborted, call, line>>

(* The run stops or pauses, or the attempt timed out.                      *)
SignalAborts(a) ==
    /\ a \notin aborted /\ settled[a] = "no"
    /\ aborted' = aborted \cup {a}
    /\ IF isolated /\ work[a].pc # "new" THEN Finish(a, "aborted")
       ELSE UNCHANGED <<settled, work, wire>>
    /\ UNCHANGED <<isolated, schema, told, call, line>>

-----------------------------------------------------------------------------
(* Tool calls of isolated agents.                                          *)

Move(a, n, from, to) ==
    /\ call[<<a, n>>] = from
    /\ call' = [call EXCEPT ![<<a, n>>] = to]

ToolCalled(a, n) ==
    /\ isolated /\ InTurn(a)
    /\ \A m \in 1 .. n - 1 : call[<<a, m>>] # "none"
    /\ Move(a, n, "none", "sent")
    /\ Send(a, <<Request(n)>>)
    /\ UNCHANGED <<isolated, schema, work, told, settled, aborted, line>>

(* The policy may take its time; an unknown tool is denied like this too.  *)
PolicySays(a, n) ==
    /\ \E said \in Policies :
         /\ Move(a, n, "policy", CASE said = "allow" -> "running"
                                   [] said = "deny" -> "answered"
                                   [] OTHER -> "queued")
         /\ line' = IF said = "ask" THEN Append(line, <<a, n>>) ELSE line
    /\ UNCHANGED <<isolated, schema, work, wire, told, settled, aborted>>

IsNext(c) == Head(line) = c
Left(c)   == line' = SelectSeq(line, LAMBDA d : d # c)

(* Mutant: the signal is not looked at again when the turn has come.       *)
WantedMutant(a) == TRUE
Wanted(a) == ~Cut(a)

DialogTurn(a, n) ==
    /\ line # <<>> /\ IsNext(<<a, n>>)
    /\ IF Wanted(a) THEN Move(a, n, "queued", "dialog") /\ UNCHANGED line
       ELSE Move(a, n, "queued", "answered") /\ Left(<<a, n>>)
    /\ UNCHANGED <<isolated, schema, work, wire, told, settled, aborted>>

(* confirm() gets the signal: the dialog of an aborted call goes away.     *)
DialogClosesMutant(a, n) == FALSE           \* Mutant: confirm() without the signal
DialogCloses(a, n) ==
    /\ Cut(a)
    /\ Move(a, n, "dialog", "answered") /\ Left(<<a, n>>)
    /\ UNCHANGED <<isolated, schema, work, wire, told, settled, aborted>>

UserAnswers(a, n) ==
    /\ ~Cut(a)
    /\ \E to \in {"running", "answered"} : Move(a, n, "dialog", to)
    /\ Left(<<a, n>>)
    /\ UNCHANGED <<isolated, schema, work, wire, told, settled, aborted>>

(* The tool ends, by itself or by its signal; the response goes to the     *)
(* child, if it still listens.                                             *)
ToolEnds(a, n) ==
    /\ Move(a, n, "running", "answered")
    /\ UNCHANGED <<isolated, schema, work, wire, told, settled, aborted, line>>

-----------------------------------------------------------------------------
AgentStep(a) == \/ AgentStarts(a) \/ TurnEnds(a) \/ MessageArrives(a) \/ ExitHeard(a)
                \/ \E n \in CallIds : PolicySays(a, n) \/ ToolEnds(a, n)
LineStep == \E a \in Agents, n \in CallIds : DialogTurn(a, n) \/ DialogCloses(a, n)

Next ==
    \/ LineStep
    \/ \E a \in Agents :
         \/ AgentStep(a) \/ SessionFails(a) \/ ChildDies(a) \/ SignalAborts(a)
         \/ \E n \in CallIds : ToolCalled(a, n) \/ UserAnswers(a, n)

Spec == Init /\ [][Next]_vars

(* The host's event loop runs, a turn and a tool come to their end.  No    *)
(* user has to answer a dialog.                                            *)
FairSpec == Spec /\ WF_vars(LineStep) /\ \A a \in Agents : WF_vars(AgentStep(a))

-----------------------------------------------------------------------------
(* A run() that has settled, or whose signal was aborted, starts nothing   *)
(* more on its own: no dialog is opened for it, no repair turn is begun    *)
(* and no tool starts that waited for a dialog, however long it waited     *)
(* (workflow-permission-broker.ts:53, agent.ts:141).  A tool the policy    *)
(* itself allows is not checked again.                                     *)
StopsWithSignal ==
    [][\A a \in Agents : Cut(a) \/ a \in aborted =>
         /\ \A n \in CallIds : /\ call'[<<a, n>>] = "dialog" => call[<<a, n>>] = "dialog"
                               /\ call'[<<a, n>>] = "running" => call[<<a, n>>] \in {"running", "policy"}
         /\ work'[a].left = work[a].left]_vars

(* An attempt whose last turn ran into the provider's limit is never taken *)
(* for an agent that disobeyed or said nothing: the run must pause, not    *)
(* fail or go on with null (throwIfProviderLimit).                         *)
LimitSurfaces == \A a \in Agents : work[a].limited => settled[a] \notin {"schema", "empty"}

(* Every attempt settles and every request leaves the line, or the user    *)
(* owes an answer to an agent that still runs: a dialog never holds up the *)
(* others once its own agent is gone, and no death of a child goes unheard *)
(* (the signal of confirm(), the exit listener).                           *)
UserOwesAnswer == \E a \in Agents, n \in CallIds : call[<<a, n>>] = "dialog" /\ ~Cut(a)
AgentsSettle ==
    <>[](UserOwesAnswer \/ (line = <<>> /\ \A a \in Agents : Cut(a)))
=============================================================================
