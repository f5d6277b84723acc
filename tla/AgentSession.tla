---------------------------- MODULE AgentSession ----------------------------
(***************************************************************************)
(* The agents of one WorkflowAgent that run in the host, each from its job *)
(* to the end of its session (workflows/agent.ts, run): its tools and      *)
(* model, the model registry they load from the disk together, the session *)
(* and its transcript, and what is reported of it.  What the process of an *)
(* isolated agent adds is in AgentProcess.                                 *)
(*                                                                         *)
(* pi's sessions are external: a prompt makes assistant messages, each     *)
(* with or without text, which ends in a tool call, normally, in the       *)
(* provider's limit, in another error, or aborted; all but the first end   *)
(* the prompt.                                                             *)
(***************************************************************************)
EXTENDS Naturals, FiniteSets

CONSTANTS Seats,       \* agents of one runner
          Jobs,        \* per seat, what its run may be asked
          Repairs      \* maxSchemaRetries

VARIABLES runner,  \* the WorkflowAgent
          seat     \* per agent, its run

agentVars == <<runner, seat>>

Coding == {"read", "edit"}        \* createCodingTools
Closed == "structured_output"

\* A job: a schema or not, the tools of its own, those of the runtime, what its
\* agent type allows (nothing said: all) and denies, and the model it names.
\* most bounds the messages of its first prompt; each repair may have one more.
JobsMade == [schema : BOOLEAN, own : SUBSET {"ask"}, system : SUBSET {"store"},
             allow : SUBSET (Coding \cup {"ask", "store", Closed}),
             deny : SUBSET (Coding \cup {"ask", "store", Closed}),
             spec : {"none", "known", "unknown"}, most : Nat]

NewRun(job) ==
    [job |-> job, at |-> "new", aborted |-> FALSE, tools |-> {}, active |-> {},
     model |-> "default", notice |-> "none", store |-> "none", listening |-> FALSE,
     said |-> "nothing", fresh |-> FALSE, stop |-> "none", count |-> 0, captured |-> FALSE,
     left |-> Repairs, shown |-> 0, told |-> 0, outcome |-> "none"]

Init ==
    /\ runner \in [given : BOOLEAN, persist : BOOLEAN, disk : {"none"}]
    /\ \E job \in [Seats -> UNION {Jobs[s] : s \in Seats}] :
          /\ \A s \in Seats : job[s] \in Jobs[s]
          /\ seat = [s \in Seats |-> NewRun(job[s])]

Stages == {"new", "routing", "opening", "first", "repair", "settled"}
Ends   == {"toolUse", "stop", "limit", "error", "aborted"}

TypeOK ==
    /\ runner \in [given : BOOLEAN, persist : BOOLEAN,
                   disk : {"none", "pending", "ready", "failed"}]
    /\ \A s \in Seats :
          /\ seat[s].job \in JobsMade
          /\ seat[s].at \in Stages /\ seat[s].stop \in Ends \cup {"none"}
          /\ seat[s].count \in Nat /\ seat[s].shown \in 0 .. seat[s].count
          /\ seat[s].left \in 0 .. Repairs
          /\ seat[s].active \subseteq seat[s].tools

-----------------------------------------------------------------------------
\* applyToolPolicy
Permitted(tools, job) ==
    (IF job.allow = {} THEN tools ELSE tools \cap job.allow) \ job.deny

\* Mutant: the policy has the last word.
GrantedMutant(job) ==
    Permitted(Coding \cup job.own \cup job.system \cup (IF job.schema THEN {Closed} ELSE {}), job)

\* assembleTools: what the runtime needs is added behind the policy.
Granted(job) ==
    Permitted(Coding \cup job.own, job) \cup job.system
    \cup (IF job.schema THEN {Closed} ELSE {})

\* resolveRunModel with a registry at hand: a model it does not know is told of
\* and leaves the default of the session.
Routed(r) ==
    [r EXCEPT !.at = "opening",
              !.model = IF r.job.spec = "known" THEN "named" ELSE "default",
              !.notice = CASE r.job.spec = "known" -> "resolved"
                           [] r.job.spec = "unknown" -> "fallback"
                           [] OTHER -> "none"]

\* Without a spec no registry is asked for; without one from the host the disk
\* is read, once for the runner.
Assemble(s) ==
    LET r == [seat[s] EXCEPT !.tools = Granted(seat[s].job), !.active = Granted(seat[s].job)]
        waits == r.job.spec # "none" /\ ~runner.given
    IN  /\ r.at = "new"
        /\ seat' = [seat EXCEPT ![s] = IF waits THEN [r EXCEPT !.at = "routing"] ELSE Routed(r)]
        /\ runner' = IF waits /\ runner.disk = "none" THEN [runner EXCEPT !.disk = "pending"]
                     ELSE runner

\* ModelRuntime.create settles; a failure is kept like a success.
DiskRegistry ==
    /\ runner.disk = "pending"
    /\ \E d \in {"ready", "failed"} : runner' = [runner EXCEPT !.disk = d]
    /\ UNCHANGED seat

\* A run that has no session yet ends without a report.
Settle(r, outcome) == [r EXCEPT !.at = "settled", !.outcome = outcome, !.tools = {}, !.active = {}]

\* Mutant: a second run does not wait for the registry the first asked for.
RegistryCameMutant(s) ==
    /\ seat[s].at = "routing" /\ runner.disk # "none"
    /\ seat' = [seat EXCEPT ![s] = IF runner.disk = "failed" THEN Settle(@, "error") ELSE Routed(@)]
    /\ UNCHANGED runner

RegistryCame(s) ==
    /\ seat[s].at = "routing" /\ runner.disk \in {"ready", "failed"}
    /\ seat' = [seat EXCEPT ![s] = IF runner.disk = "ready" THEN Routed(@) ELSE Settle(@, "error")]
    /\ UNCHANGED runner

-----------------------------------------------------------------------------
\* usageFromStats: of all messages; nothing is told if nothing was spent.
Usage(r) == r.count

\* Mutant: an aborted run reports nothing.
ClosedMutant(r, outcome) ==
    [r EXCEPT !.at = "settled", !.outcome = outcome, !.listening = FALSE,
              !.shown = IF outcome = "aborted" THEN @ ELSE r.count,
              !.told = IF outcome = "aborted" THEN @ ELSE r.count, !.tools = {}, !.active = {},
              !.said = "nothing", !.captured = FALSE, !.left = Repairs]

\* finally: the listeners go, the whole history is shown, and the usage is read
\* before the session is disposed of; with it goes what only the run knew.
ClosedRun(r, outcome) ==
    [r EXCEPT !.at = "settled", !.outcome = outcome, !.listening = FALSE,
              !.shown = r.count, !.told = Usage(r), !.tools = {}, !.active = {},
              !.said = "nothing", !.captured = FALSE, !.left = Repairs]

\* createSessionManager: a transcript that cannot be written is kept in memory.
Store(writable) == IF runner.persist /\ writable THEN "file" ELSE "memory"

\* createAgentSession, which may throw, and the prompt.
Open(s, writable) ==
    LET r == [seat[s] EXCEPT !.store = Store(writable)]
    IN  /\ r.at = "opening" /\ (~runner.persist => writable)
        /\ seat' = [seat EXCEPT ![s] =
                      IF r.aborted THEN ClosedRun(r, "aborted")
                      ELSE [r EXCEPT !.at = "first", !.listening = TRUE]]
        /\ UNCHANGED runner

OpenFails(s) ==
    /\ seat[s].at = "opening" /\ seat' = [seat EXCEPT ![s] = Settle(@, "error")]
    /\ UNCHANGED runner

Most(r) == r.job.most + (Repairs - r.left)
InPrompt(r) == r.at \in {"first", "repair"} /\ r.stop \in {"none", "toolUse"}

\* lastAssistantText: a message without text leaves the one before it.
LastText(r, text) == IF text = "nothing" THEN r.said ELSE text

\* An assistant message, after which the history may be shown, at most four
\* times a second.
Message(s, text, stop, structured) ==
    LET r == seat[s]
    IN  /\ InPrompt(r) /\ r.count < Most(r)
        /\ IF r.aborted THEN stop = "aborted" ELSE stop # "aborted"
        /\ r.count + 1 = Most(r) => stop # "toolUse"
        /\ structured => stop = "toolUse" /\ Closed \in r.active
        /\ text = "json" => r.job.schema
        /\ stop = "aborted" => text = "nothing"
        /\ \E shown \in {r.shown, r.count + 1} :
              seat' = [seat EXCEPT ![s] =
                         [r EXCEPT !.count = @ + 1, !.stop = stop, !.shown = shown,
                                   !.said = LastText(r, text),
                                   !.fresh = text # "nothing",
                                   !.captured = @ \/ structured]]
        /\ UNCHANGED runner

\* The prompt itself rejects.
PromptFails(s) ==
    /\ InPrompt(seat[s]) /\ seat' = [seat EXCEPT ![s] = ClosedRun(@, "error")]
    /\ UNCHANGED runner

\* The abort reaches the session as long as its run listens.
Abort(s) ==
    /\ ~seat[s].aborted /\ seat[s].at # "settled"
    /\ seat' = [seat EXCEPT ![s].aborted = TRUE]
    /\ UNCHANGED runner

\* throwIfProviderLimit: by the last message alone.
Limited(r) == r.stop = "limit"

\* resolveStructuredOutput: what was captured, else another prompt with no tool
\* but structured_output, else what the prose holds.
Structured(r) ==
    IF r.captured THEN ClosedRun(r, "value")
    ELSE IF r.left > 0
    THEN IF r.aborted THEN ClosedRun(r, "aborted")
         ELSE [r EXCEPT !.at = "repair", !.left = @ - 1, !.stop = "none", !.active = {Closed}]
    ELSE IF r.said = "json" THEN ClosedRun(r, "value")
    ELSE ClosedRun(r, IF Limited(r) THEN "limit" ELSE "schema")

\* A prompt is over: the signal, the limit, then the answer.
GoesOn(r) ==
    IF r.at = "repair" THEN Structured(r)
    ELSE IF r.aborted THEN ClosedRun(r, "aborted")
    ELSE IF Limited(r) THEN ClosedRun(r, "limit")
    ELSE IF r.job.schema THEN Structured(r)
    ELSE ClosedRun(r, IF r.said = "nothing" THEN "empty" ELSE "value")

PromptEnds(s) ==
    /\ seat[s].at \in {"first", "repair"} /\ ~InPrompt(seat[s])
    /\ seat' = [seat EXCEPT ![s] = GoesOn(@)]
    /\ UNCHANGED runner

Next ==
    \/ DiskRegistry
    \/ \E s \in Seats :
          \/ Assemble(s) \/ RegistryCame(s) \/ OpenFails(s) \/ PromptFails(s) \/ Abort(s)
          \/ PromptEnds(s)
          \/ \E writable \in BOOLEAN : Open(s, writable)
          \/ \E text \in {"nothing", "prose", "json"}, stop \in Ends, structured \in BOOLEAN :
                Message(s, text, stop, structured)

Spec == Init /\ [][Next]_agentVars

-----------------------------------------------------------------------------
\* A policy keeps its tools from an agent and nothing else: what the runtime
\* adds is there whatever the policy says, and nothing denied is, unless the
\* runtime adds it (agent.ts: "a restrictive policy can never remove them").
ToolsAreGranted ==
    \A s \in Seats : seat[s].at \notin {"new", "settled"} =>
       LET job   == seat[s].job
           added == job.system \cup (IF job.schema THEN {Closed} ELSE {})
       IN  /\ added \subseteq seat[s].tools
           /\ seat[s].tools \cap job.deny \subseteq added
           /\ job.allow # {} => seat[s].tools \subseteq job.allow \cup added

\* However a run that had a session ends, all it spent and said has been
\* reported when it settles, and no signal reaches its session any more.
NothingUnreported ==
    \A s \in Seats : seat[s].at = "settled" =>
       /\ seat[s].told = seat[s].count /\ seat[s].shown = seat[s].count
       /\ ~seat[s].listening

\* A run that was aborted, or whose provider refused, gives no prose as its
\* answer; a structured answer may have been made before.
RefusalIsNoAnswer ==
    \A s \in Seats :
       seat[s].outcome = "value" /\ (seat[s].aborted \/ seat[s].stop = "limit") =>
          seat[s].job.schema

\* An agent that names a model is not begun before a registry has said which
\* one that is, and its runtime has been told when it is another.
ModelIsTold ==
    \A s \in Seats : seat[s].at \in {"opening", "first", "repair"} /\ seat[s].job.spec # "none" =>
       /\ runner.given \/ runner.disk = "ready"
       /\ seat[s].notice = IF seat[s].model = "named" THEN "resolved" ELSE "fallback"

SessionsAreSound ==
    ToolsAreGranted /\ NothingUnreported /\ RefusalIsNoAnswer /\ ModelIsTold

\* Not so: the answer of an agent is what it said last.  An error that is not a
\* limit is only recorded in the last message, and the text of an earlier one
\* is taken.
AnswerIsLast ==
    \A s \in Seats : seat[s].outcome = "value" /\ ~seat[s].job.schema =>
       seat[s].fresh /\ seat[s].stop = "stop"
=============================================================================
