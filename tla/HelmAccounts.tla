---------------------------- MODULE HelmAccounts ----------------------------
(***************************************************************************)
(* What Helm says a run, a goal and a day have cost and how much of a goal *)
(* is done (host/adapters.ts), read from the run records: the agents in a  *)
(* record and its token usage, when the manager writes them, and what a    *)
(* resume makes of them (workflow-manager.ts, workflow.ts).                *)
(*                                                                         *)
(* A script calls its agents one after the other and waits for each.  A    *)
(* charge is what a provider bills for one attempt, None if it reports no  *)
(* usage.                                                                  *)
(***************************************************************************)
EXTENDS Integers, Sequences, FiniteSets, FiniteSetsExt

CONSTANTS Ledger,    \* the runs: a function to the agents each may call
          Owner,     \* the goal of each, or "none"
          Execs,     \* bound: executions of each
          MaxBill,   \* bound: charges of an execution of each
          MaxDays    \* bound: days

VARIABLES books,   \* the records on disk
          desk,    \* ManagedRun.snapshot of the runs this process executes
          bills,   \* what was charged: in this execution, of that without a
                   \* trace in the agents, and of that today
          day

avars == <<books, desk, bills, day>>

None == -1
Sheets == DOMAIN Ledger
Blank == [agents |-> <<>>, usage |-> None]
NoBook == [status |-> "absent", agents |-> <<>>, usage |-> None, at |-> 0]
NoBill == [now |-> 0, unseen |-> 0, today |-> 0, execs |-> 0, done |-> {}]

Init ==
    /\ books = [r \in Sheets |-> NoBook]
    /\ desk = [r \in Sheets |-> Blank]
    /\ bills = [r \in Sheets |-> NoBill]
    /\ day = 0

-----------------------------------------------------------------------------
\* The manager, as far as its records tell of agents and costs

Charge(c) == IF c = None THEN 0 ELSE c

\* recordTokens: the usage of an attempt joins that of the execution.
Billed(r, c, unseen) ==
    [bills EXCEPT ![r].now = @ + Charge(c), ![r].today = @ + IF unseen THEN 0 ELSE Charge(c),
                  ![r].unseen = @ + IF unseen THEN Charge(c) ELSE 0]

\* persistRun
Written(r, status, snapshot) ==
    [books EXCEPT ![r] = [status |-> status, agents |-> snapshot.agents,
                          usage |-> snapshot.usage, at |-> day]]

Executing(r) == books[r].status = "running"
Agents(r) == desk[r].agents
Busy(r) == Agents(r) # <<>> /\ Agents(r)[Len(Agents(r))].status = "running"
Affords(r, c) == bills[r].now + Charge(c) <= MaxBill[r]

Ended(r, status, c) ==
    [desk EXCEPT ![r].agents[Len(Agents(r))] = [status |-> status, cost |-> c]]

StartRun(r) ==
    /\ books[r].status = "absent" /\ bills[r].execs = 0
    /\ books' = Written(r, "running", Blank)
    /\ bills' = [bills EXCEPT ![r].execs = 1]
    /\ UNCHANGED <<desk, day>>

\* A call the journal answers is done at once, without a cost.
AgentStarts(r) ==
    LET k == Len(Agents(r)) + 1
    IN  /\ Executing(r) /\ ~Busy(r) /\ k <= Ledger[r]
        /\ desk' = [desk EXCEPT ![r].agents = Append(@,
                       [status |-> IF k \in bills[r].done THEN "done" ELSE "running",
                        cost |-> None])]
        /\ UNCHANGED <<books, bills, day>>

\* The agent keeps the usage of its last attempt only.
AttemptFails(r, c) ==
    /\ Executing(r) /\ Busy(r) /\ Affords(r, c) /\ Charge(c) > 0
    /\ bills' = Billed(r, c, TRUE)
    /\ UNCHANGED <<books, desk, day>>

\* The journal is written before the agent is shown done.
AgentSucceeds(r, c) ==
    /\ Executing(r) /\ Busy(r) /\ Affords(r, c)
    /\ books' = Written(r, "running", desk[r])
    /\ desk' = Ended(r, "done", c)
    /\ bills' = [Billed(r, c, FALSE) EXCEPT ![r].done = @ \cup {Len(Agents(r))}]
    /\ UNCHANGED day

AgentFails(r, c) ==
    /\ Executing(r) /\ Busy(r) /\ Affords(r, c)
    /\ desk' = Ended(r, "error", c)
    /\ bills' = Billed(r, c, FALSE)
    /\ UNCHANGED <<books, day>>

\* onTokenUsage comes once, when the script has returned.
RunCompletes(r) ==
    /\ Executing(r) /\ ~Busy(r)
    /\ books' = Written(r, "completed", [desk[r] EXCEPT !.usage = bills[r].now])
    /\ desk' = [desk EXCEPT ![r] = Blank]
    /\ UNCHANGED <<bills, day>>

\* A pause or a stop; a failed run is to all this a paused one.  An attempt
\* in flight is charged all the same.
RunStops(r, status, c) ==
    /\ Executing(r) /\ Affords(r, c) /\ (Charge(c) > 0 => Busy(r))
    /\ books' = Written(r, status, desk[r])
    /\ desk' = [desk EXCEPT ![r] = Blank]
    /\ bills' = Billed(r, c, TRUE)
    /\ UNCHANGED day

\* Mutant: the resumed execution starts with the agents of the last one.
ResumedMutant(r) == [agents |-> books[r].agents, usage |-> None]

\* The snapshot a resume starts with
Resumed(r) == Blank

Resume(r) ==
    /\ books[r].status = "paused" /\ bills[r].execs < Execs[r]
    /\ books' = Written(r, "running", Resumed(r))
    /\ desk' = [desk EXCEPT ![r] = Resumed(r)]
    /\ bills' = [bills EXCEPT ![r].now = 0, ![r].unseen = 0, ![r].today = 0, ![r].execs = @ + 1]
    /\ UNCHANGED day

DeleteRun(r) ==
    /\ books[r].status \notin {"absent", "running"}
    /\ books' = [books EXCEPT ![r] = NoBook]
    /\ UNCHANGED <<desk, bills, day>>

DayPasses ==
    /\ day < MaxDays /\ day' = day + 1
    /\ bills' = [r \in Sheets |-> [bills[r] EXCEPT !.today = 0]]
    /\ UNCHANGED <<books, desk>>

-----------------------------------------------------------------------------
\* What is made of the records

Present == {r \in Sheets : books[r].status # "absent"}

Known(agents) == {k \in DOMAIN agents : agents[k].cost # None}

\* Mutant: the agents are added up even if the run has its own figure.
RunCostMutant(b) ==
    IF Known(b.agents) = {} THEN None
    ELSE MapThenSumSet(LAMBDA k : b.agents[k].cost, Known(b.agents))

\* runCost: the figure of the run, or the sum of what its agents report
RunCost(b) ==
    IF b.usage # None THEN b.usage
    ELSE IF Known(b.agents) = {} THEN None
    ELSE MapThenSumSet(LAMBDA k : b.agents[k].cost, Known(b.agents))

\* costRecords: free runs have none.
CostRecords == {[run |-> r, goal |-> Owner[r], cost |-> RunCost(books[r]), at |-> books[r].at] :
                   r \in {s \in Present : RunCost(books[s]) > 0}}

Total(records) == MapThenSumSet(LAMBDA x : x.cost, records)
SpentOn(g) == Total({x \in CostRecords : x.goal = g})
SpentSince(d) == Total({x \in CostRecords : x.at >= d})

\* goalMetrics
Runs(g) == {r \in Present : Owner[r] = g}
With(g, statuses) ==
    MapThenSumSet(LAMBDA r : Cardinality({k \in DOMAIN books[r].agents :
                                              books[r].agents[k].status \in statuses}), Runs(g))
Costed(g) == {r \in Runs(g) : RunCost(books[r]) # None}
GoalMetrics(g) ==
    [total         |-> With(g, {"running", "done", "error"}),
     done          |-> With(g, {"done"}),
     cost          |-> IF Costed(g) = {} THEN None
                       ELSE MapThenSumSet(LAMBDA r : RunCost(books[r]), Costed(g)),
     largest       |-> IF Costed(g) = {} THEN None
                       ELSE Max({RunCost(books[r]) : r \in Costed(g)}),
     interventions |-> With(g, {"error"})
                       + Cardinality({r \in Runs(g) : books[r].status \in {"aborted", "paused"}})]

\* getGoalProgress, and the queue of the drill-in
Progress(g) ==
    LET finished == {r \in Runs(g) : books[r].status = "completed"}
    IN  [of |-> Cardinality(Runs(g)), completed |-> Cardinality(finished),
         complete |-> Runs(g) # {} /\ finished = Runs(g)]
Remaining(r) == Cardinality({k \in DOMAIN books[r].agents : books[r].agents[k].status # "done"})

-----------------------------------------------------------------------------
\* pi dies: the run is recovered as paused, as it was last written.
Crash ==
    /\ \E r \in Sheets : Executing(r)
    /\ books' = [r \in Sheets |-> IF Executing(r) THEN [books[r] EXCEPT !.status = "paused", !.at = day]
                                  ELSE books[r]]
    /\ desk' = [r \in Sheets |-> Blank]
    /\ bills' = [r \in Sheets |->
                   IF Executing(r)
                   THEN [bills[r] EXCEPT !.today = 0,
                                         !.unseen = bills[r].now - Charge(RunCost(books[r]))]
                   ELSE bills[r]]
    /\ UNCHANGED day

Next ==
    \/ \E r \in Sheets :
          \/ StartRun(r) \/ AgentStarts(r) \/ RunCompletes(r) \/ Resume(r) \/ DeleteRun(r)
          \/ \E c \in {None, 1} :
                AttemptFails(r, c) \/ AgentSucceeds(r, c) \/ AgentFails(r, c)
          \/ \E c \in {None, 1}, status \in {"paused", "aborted"} : RunStops(r, status, c)
    \/ Crash \/ DayPasses

Spec == Init /\ [][Next]_avars

-----------------------------------------------------------------------------
Cost(r) == Charge(RunCost(books[r]))

\* README.md:30 and :42 "what it cost", "spend today/week, per-goal cost
\* split": no record tells more than its execution was charged, one that is
\* complete tells all of it, one that has stopped all that ended with an
\* agent, through retries, replays and crashes; the closeout of a goal and the
\* split name the same sum; and of a complete goal the units that are not done
\* are the interventions.  The spend of a day has what stopped runs were
\* charged on it.
AccountsAreTrue ==
    /\ \A r \in Present :
          /\ Cost(r) <= bills[r].now
          /\ books[r].status = "completed" => Cost(r) = bills[r].now
          /\ books[r].status \in {"paused", "aborted"} =>
                Cost(r) = bills[r].now - bills[r].unseen
    /\ \A g \in {Owner[r] : r \in Present} :
          LET m == GoalMetrics(g)
          IN  /\ SpentOn(g) = Charge(m.cost)
              /\ Progress(g).complete => m.total - m.done = m.interventions
    /\ Total(CostRecords) = MapThenSumSet(SpentOn, {Owner[r] : r \in Present})
    /\ SpentSince(day) >= MapThenSumSet(LAMBDA r : bills[r].today,
                             {r \in Present : books[r].status \in {"paused", "aborted", "completed"}})

\* A resumed run starts its account over, and so do the interventions, the
\* changes and the checks of its goal: what it is said to cost falls.
NothingIsForgotten ==
    [][\A r \in Present : books'[r].status # "absent" => Charge(RunCost(books'[r])) >= Cost(r)]_avars
=============================================================================
