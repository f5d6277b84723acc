------------------------------- MODULE MCHelm -------------------------------
(***************************************************************************)
(* One run for the parts the operator and the agents meet.  Of Helm: the   *)
(* loops, the goals, the window, the precedents on the closeout cards, the *)
(* receipts of a transcript, the accounts and the state file.  Of the      *)
(* workflows: the input box, the launch of one, what is told of the runs   *)
(* and of their agents, the bundled scripts, the models and the sessions   *)
(* of agents.  And the quotas with their readings, the searches, the       *)
(* managers of Claude fleets and the lease of a run.                       *)
(*                                                                         *)
(* They share files and the store, which each of these modules models as   *)
(* far as it touches them; a behaviour is a behaviour of one of them,      *)
(* chosen in the initial state, so the states add up instead of            *)
(* multiplying.                                                            *)
(***************************************************************************)
EXTENDS HelmParts

CONSTANTS Every, MaxDelay, MaxVersions, MaxRuns, MaxTrials, MaxRestarts,
          Asks, Options, MaxDepth,
          Pastes, Override,
          HasUI, Versions,
          RunIds, MaxResumes,
          Searches, MaxItems, MaxConcurrency,
          Seats, Repairs,
          Facts, TopFindings, Reviewers, Dry, MaxRounds,
          Limit, MaxPauses, MaxExecs, MaxRows,
          MaxTalk, MaxEntries, MaxLines, Preview,
          MaxDays

ASSUME HelmAssumption ==
    /\ {Every, MaxDelay, MaxVersions, MaxRuns, MaxTrials, MaxRestarts} \subseteq Nat
    /\ {Options, MaxDepth} \subseteq Nat
    /\ {Pastes, Override, HasUI} \subseteq BOOLEAN
    /\ {Options, Versions, RunIds} \subseteq Nat \ {0} /\ MaxResumes \in Nat
    /\ {MaxItems, MaxConcurrency} \subseteq Nat /\ Seats \cup {Repairs} \subseteq Nat
    /\ {TopFindings, Reviewers, Dry, MaxRounds, Limit} \subseteq Nat \ {0}
    /\ {MaxPauses, MaxExecs, MaxRows} \subseteq Nat
    /\ {MaxTalk, MaxEntries, MaxLines, Preview, MaxDays} \subseteq Nat

VARIABLES part,
          loop, draft, made, builder, gate, trials, tried, timer, runs,
          pausedAll, checkpoint, restarts,
          queue, precedents, promise, chosen, world, ui,
          text, disabled, triggered, suppressed, mode, prefs, tools, saved, queued, sent,
          file, command, approved, launch,
          run, removed, stored, order, told, watch, resumes, nav,
          active, search, child,
          runner, seat,
          script, phase, calls, items, heard, seen, dry, round, out,
          exec, callAt, missed, entries, shift, agents, titles, record, idOf, ctl,
          pausedIds, bounds, browser,
          talk, hour,
          books, desk, bills, day

loopVars    == <<loop, draft, made, builder, gate, trials, tried, timer, runs,
                 pausedAll, checkpoint, restarts>>
screenVars  == <<queue, precedents, promise, chosen, world, ui>>
editorVars  == <<text, disabled, triggered, suppressed, mode, prefs, tools, saved,
                 queued, sent>>
launchVars  == <<file, command, approved, launch>>
consoleVars == <<run, removed, stored, order, told, watch, resumes, nav>>
searchVars  == <<active, search, child>>
agentVars   == <<runner, seat>>
scriptVars  == <<script, phase, calls, items, heard, seen, dry, round, out>>
snapVars    == <<exec, callAt, missed, entries, shift, agents, titles, record, idOf, ctl,
                 pausedIds, bounds, browser>>
talkVars    == <<talk, hour>>
bookVars    == <<books, desk, bills, day>>

\* What the first of two searches asks for, and the pages of three hosts, one
\* of them also under its www name, and one that is no http URL.
Request(include, exclude, max) == [include |-> include, exclude |-> exclude, max |-> max]
Site    == <<"a", "com">>
Inputs  == [s \in Searches |->
              IF s > 1 THEN {Request(<<>>, <<>>, 1)}
              ELSE {Request(<<>>, <<>>, 1), Request(<<>>, <<<<"x">>>>, 2),
                    Request(<<<<"www", "a", "com">>>>, <<>>, 1),
                    Request(<<>>, <<<<"docs", "a", "com", "">>>>, 2),
                    Request(<<Site>>, <<<<"docs", "a", "com">>>>, 2)}]
Pages   == {[host |-> h, http |-> TRUE] : h \in {Site, <<"www", "a", "com">>, <<"docs", "a", "com">>,
                                                 <<"b", "com">>}}
           \cup {[host |-> Site, http |-> FALSE]}

\* An agent whose type denies what the runtime adds, one of no type, one whose
\* type denies what it allows; a second is followed to its first prompt (the
\* registry is all they share).
Job(schema, allow, deny, spec, most) == [schema |-> schema, own |-> {"ask"}, system |-> {"store"},
                                   allow |-> allow, deny |-> deny, spec |-> spec, most |-> most]
Jobs == [s \in Seats |->
           IF s > 1 THEN {Job(FALSE, {}, {}, "known", 0)}
           ELSE {Job(TRUE, {"read"}, {"store", "structured_output"}, "unknown", 1),
                 Job(TRUE, {}, {}, "none", 2), Job(FALSE, {"read", "ask"}, {"ask"}, "known", 2)}]

\* The finders of the code review: correctness twice, then cleanup.
Ranks == <<0, 1, 2>>

\* A script of two calls of one label, one in no phase and one in a phase the
\* script did not declare.
LabelOf  == <<"a", "a">>
PhaseOf  == <<"none", "p3">>
IndexOf  == <<0, 1>>
Declared == <<"p1", "p2">>

\* What an agent calls, and the texts of a diff: up to four lines of two kinds.
Deed(tool, does, how, lands) ==
    [tool |-> tool, does |-> does, how |-> how, lands |-> lands,
     old |-> <<"x">>, new |-> <<"x", "y">>, patch |-> <<"+", "-", " ">>]
Deeds   == {Deed("bash", does, "none", 0) :
              does \in {{"reads"}, {"checks"}, {"checks", "commits"}, {"commits"}}}
           \cup {Deed("read", {"reads"}, "none", 0), Deed("edit", {}, "texts", 1),
                 Deed("edit", {}, "cut", 2), Deed("patch", {}, "patch", 1)}
\* Two runs of a goal: one of two agents that is resumed, one of one agent.
Ledger  == <<2, 1>>
Owner   == <<"goal", "goal">>
Execs   == <<2, 1>>
MaxBill == <<1, 1>>

Texts   == UNION {[1 .. n -> {"x", "y"}] : n \in 0 .. 4}

Loops     == INSTANCE HelmLoops
Screens   == INSTANCE HelmScreens
Editor    == INSTANCE WorkflowEditor
Launch    == INSTANCE WorkflowLaunch
Console   == INSTANCE RunConsole
Searching == INSTANCE CodexSearch
Sessions  == INSTANCE AgentSession
Bundled   == INSTANCE WorkflowScripts
Agents    == INSTANCE RunSnapshots
Receipts  == INSTANCE HelmReceipts
Accounts  == INSTANCE HelmAccounts

Parts == {"loops", "goals", "screens", "cards", "quotas", "editor", "launch", "console",
          "scripts", "models", "agents", "searches", "receipts", "accounts",
          "readings", "sessions", "fleet", "desk", "lease"}

\* A part that does not move starts in one way.
Init ==
    /\ part \in Parts
    /\ Models!Init /\ (part # "models" => topic = "types")
    /\ Editor!Init /\ (part # "editor" => prefs["user"] = "absent")
    /\ Launch!Init /\ (part # "launch" => file = [x \in DOMAIN file |-> 0])
    /\ Bundled!Init /\ (part # "scripts" => script = "code")
    /\ Loops!Init /\ Goals!Init /\ Screens!Init /\ Cards!Init /\ Quotas!Init
    /\ Console!Init /\ Agents!Init /\ Searching!Init
    /\ Receipts!Init /\ Accounts!Init /\ Readings!Init
    /\ Fleet!Init /\ Desk!Init
    /\ Lease!Init /\ (part # "lease" => lockFile.token = 0)
    /\ Sessions!Init /\ (part # "sessions" => ~runner.given /\ ~runner.persist
                                  /\ ~seat[1].job.schema)

\* The parts in groups: a step is a step of the part of the behaviour.
helmParts == <<loopVars, goalVars, screenVars, cardVars>>
quotaParts == <<quotaVars, meterVars, searchVars>>
flowParts == <<editorVars, launchVars, consoleVars, scriptVars, leaseVars>>
agentParts == <<modelVars, snapVars, agentVars, fleetVars>>
bookParts == <<talkVars, bookVars, deskVars>>

HelmNext ==
    \/ part = "loops" /\ Loops!Next /\ UNCHANGED <<goalVars, screenVars, cardVars>>
    \/ part = "goals" /\ Goals!Next /\ UNCHANGED <<loopVars, screenVars, cardVars>>
    \/ part = "screens" /\ Screens!Next /\ UNCHANGED <<loopVars, goalVars, cardVars>>
    \/ part = "cards" /\ Cards!Next /\ UNCHANGED <<loopVars, goalVars, screenVars>>

QuotaNext ==
    \/ part = "quotas" /\ Quotas!Next /\ UNCHANGED <<meterVars, searchVars>>
    \/ part = "readings" /\ Readings!Next /\ UNCHANGED <<quotaVars, searchVars>>
    \/ part = "searches" /\ Searching!Next /\ UNCHANGED <<quotaVars, meterVars>>

FlowNext ==
    \/ UNCHANGED leaseVars
       /\ \/ part = "editor" /\ Editor!Next /\ UNCHANGED <<launchVars, consoleVars, scriptVars>>
          \/ part = "launch" /\ Launch!Next /\ UNCHANGED <<editorVars, consoleVars, scriptVars>>
          \/ part = "console" /\ Console!Next /\ UNCHANGED <<editorVars, launchVars, scriptVars>>
          \/ part = "scripts" /\ Bundled!Next /\ UNCHANGED <<editorVars, launchVars, consoleVars>>
    \/ /\ part = "lease" /\ Lease!Next
       /\ UNCHANGED <<editorVars, launchVars, consoleVars, scriptVars>>

AgentNext ==
    \/ part = "models" /\ Models!Next /\ UNCHANGED <<snapVars, agentVars, fleetVars>>
    \/ part = "agents" /\ Agents!Next /\ UNCHANGED <<modelVars, agentVars, fleetVars>>
    \/ part = "sessions" /\ Sessions!Next /\ UNCHANGED <<modelVars, snapVars, fleetVars>>
    \/ part = "fleet" /\ Fleet!Next /\ UNCHANGED <<modelVars, snapVars, agentVars>>

BookNext ==
    \/ part = "receipts" /\ Receipts!Next /\ UNCHANGED <<bookVars, deskVars>>
    \/ part = "accounts" /\ Accounts!Next /\ UNCHANGED <<talkVars, deskVars>>
    \/ part = "desk" /\ Desk!Next /\ UNCHANGED <<talkVars, bookVars>>

Next ==
    /\ UNCHANGED part
    /\ \/ HelmNext /\ UNCHANGED <<quotaParts, flowParts, agentParts, bookParts>>
       \/ QuotaNext /\ UNCHANGED <<helmParts, flowParts, agentParts, bookParts>>
       \/ FlowNext /\ UNCHANGED <<helmParts, quotaParts, agentParts, bookParts>>
       \/ AgentNext /\ UNCHANGED <<helmParts, quotaParts, flowParts, bookParts>>
       \/ BookNext /\ UNCHANGED <<helmParts, quotaParts, flowParts, agentParts>>

Spec == Init /\ [][Next]_<<part, helmParts, quotaParts, flowParts, agentParts, bookParts>>

-----------------------------------------------------------------------------
\* HelmLoops: what is scheduled has passed a trial, and a loop that should run
\* gets to its next run.
LoopsAreSound == part = "loops" => Loops!AcceptedWasTried /\ Loops!LoopStaysScheduled

\* HelmGoals: a goal shown complete is complete.
CompleteIsComplete == part = "goals" => Goals!CompleteIsComplete

\* HelmScreens: a request gets the option its own card was confirmed with.
AnsweredAsChosen == part = "screens" => Screens!AnsweredAsChosen

\* HelmPrecedents: a number on a closeout card keeps its meaning.
NumbersStay == Cards!NumbersStay

\* HelmDesk: and the card is that of the first completion.
CloseoutStands == Desk!CloseoutStands

\* HelmDesk: what was saved stays, and the digest tells what is new.
SavedIsKept == part = "desk" => Desk!DeskIsKept

\* UsageService: a token rotated away is not presented again; QuotaReadings:
\* what the footer says is left, is.
QuotasAreTrue ==
    /\ part = "quotas" => Quotas!RotatedOnce
    /\ part = "readings" => Readings!ReadingsAreTrue

\* UsageService: the shared cache never goes back.
CacheOnlyAdvances == Quotas!CacheOnlyAdvances

\* WorkflowEditor: a message is forced when it is highlighted, and only then;
\* WorkflowLaunch: what starts is what the operator agreed to.
OperatorDecides ==
    /\ part = "editor" => Editor!HighlightDecides
    /\ part = "launch" => Launch!RunsWhatWasApproved

\* RunConsole: an execution that ended by itself is told of exactly once;
\* AgentSession: a run that settles has reported all it spent and said.
RunsAreReported ==
    /\ part = "console" => Console!EndIsToldOnce
    /\ part = "sessions" => Sessions!SessionsAreSound

\* WorkflowScripts: what a report says was said by an agent and not struck down;
\* CodexSearch: an answer passes the filters, and its process is gone.
FindingsAreVouched ==
    /\ part = "scripts" => Bundled!FindingsAreVouched
    /\ part = "searches" => Searching!SearchesAreClean

\* ModelRouting: an agent runs with what the operator configured for it.
RoutesAsConfigured == part = "models" => Models!RoutesAsConfigured

\* RunLease: one process has the lease, and one that is alone gets it;
\* FleetConsole: a session has one manager, and its Claudes are on file.
HoldersAreSound ==
    /\ part = "lease" => Lease!LeaseIsSound
    /\ part = "fleet" => Fleet!FleetIsKept

\* HelmReceipts: what a transcript is shown to say, it says; HelmAccounts: what
\* a run, a goal and a day cost is what was charged; RunSnapshots: what is shown
\* of an agent, and done to it, is its own; HelmDesk: a loop's runs are in order.
ReceiptsAreTrue ==
    /\ part = "agents" => Agents!AgentsAreAccounted
    /\ part = "receipts" => Receipts!ReceiptsAreEarned
    /\ part = "accounts" => Accounts!AccountsAreTrue
    /\ part = "desk" => Desk!RunsInOrder
=============================================================================
