---------------------------- MODULE RunSnapshots ----------------------------
(***************************************************************************)
(* What is shown of the agents of a run: the snapshot the manager keeps    *)
(* from the events of an execution (workflow-manager.ts), the copy in the  *)
(* record, the rows the surfaces draw from either (display.ts,             *)
(* task-panel.ts, workflow-ui.ts), and the pausing of an agent by the      *)
(* number it is shown under.                                               *)
(*                                                                         *)
(* The events name a call by its label, the numbers are given out by every *)
(* execution anew, and the map from calls to numbers outlives them.        *)
(***************************************************************************)
EXTENDS Integers, Sequences, FiniteSets, SequencesExt, FiniteSetsExt

CONSTANTS LabelOf,    \* labels of the agent() calls of the script, in order
          PhaseOf,    \* their phases, "none" for a call without
          IndexOf,    \* their call indices; a nested run starts at 0 again
          Declared,   \* meta.phases
          Limit,      \* concurrency
          MaxPauses, MaxExecs, MaxRows  \* bounds

VARIABLES exec,      \* the execution
          callAt,    \* where each call is
          missed,    \* firstMiss is behind us
          entries,   \* journal: <<index, call>>
          shift,     \* checkpoints an edit put in front of the calls
          agents,    \* snapshot.agents
          titles,    \* snapshot.phases
          record,    \* agents and phases in the record
          idOf,      \* agentIdByCall: <<index, id>> in the order of insertion
          ctl,       \* activeAgentAborts: the call of each index, or 0
          pausedIds, \* pausedAgents
          bounds,    \* pauses and executions so far
          browser    \* the navigator on this run

wvars == <<exec, callAt, missed, entries, shift, agents, titles, record, idOf, ctl,
           pausedIds, bounds, browser>>

Calls   == DOMAIN LabelOf
Closed  == [at |-> "closed", cursor |-> 1, phase |-> "none", id |-> 0]
Index(c) == IndexOf[c] + shift
Indices == 0 .. Max({IndexOf[c] : c \in Calls}) + 1
Ended   == {"ok", "null"}

Init ==
    /\ exec = "running"
    /\ callAt = [c \in Calls |-> "new"] /\ missed = FALSE
    /\ entries = {} /\ shift = 0
    /\ agents = <<>> /\ titles = Declared
    /\ record = [agents |-> <<>>, titles |-> Declared]
    /\ idOf = <<>> /\ ctl = [i \in Indices |-> 0] /\ pausedIds = {}
    /\ bounds = [pauses |-> 0, execs |-> 1] /\ browser = Closed

-----------------------------------------------------------------------------
\* agentIdByCall.get(index), and the first entry that has the id
IdAt(i)     == LET k == SelectInSeq(idOf, LAMBDA e : e[1] = i) IN IF k = 0 THEN 0 ELSE idOf[k][2]
IndexFor(n) == LET k == SelectInSeq(idOf, LAMBDA e : e[2] = n) IN IF k = 0 THEN -1 ELSE idOf[k][1]

\* Map.set keeps the place of a key it has.
SetId(i, n) ==
    LET k == SelectInSeq(idOf, LAMBDA e : e[1] = i)
    IN  IF k = 0 THEN Append(idOf, <<i, n>>) ELSE [idOf EXCEPT ![k] = <<i, n>>]

\* persistRun; what an agent returned is not read back from the record.
Persist(as, ts) == record' = [agents |-> [k \in DOMAIN as |-> [as[k] EXCEPT !.result = 0]],
                              titles |-> ts]

Row(c, status, result) == [call |-> c, label |-> LabelOf[c], phase |-> PhaseOf[c],
                           status |-> status, result |-> result]

\* Mutant: whether the agent still runs is not asked.
CreditedMutant(as, label, status, result) ==
    LET k == SelectLastInSeq(as, LAMBDA a : a.label = label)
    IN  IF k = 0 THEN as ELSE [as EXCEPT ![k].status = status, ![k].result = result]

\* onAgentEnd: the last running agent with that label.
Credited(as, label, status, result) ==
    LET k == SelectLastInSeq(as, LAMBDA a : a.label = label /\ a.status = "running")
    IN  IF k = 0 THEN as ELSE [as EXCEPT ![k].status = status, ![k].result = result]

Open == {c \in Calls : callAt[c] \in {"gate", "attempt", "held"}}

\* The calls get their slots in order.  One the journal answers starts and
\* ends at once.  The script may have called phase() first.
AgentStart(c, announced) ==
    LET n == Len(agents) + 1
        started == Append(agents, Row(c, "running", 0))
        replays == ~missed /\ <<Index(c), c>> \in entries
    IN  /\ exec = "running" /\ c = n
        /\ replays \/ Cardinality(Open) < Limit
        /\ announced => PhaseOf[c] \notin ToSet(titles) \cup {"none"}
        /\ titles' = IF announced THEN Append(titles, PhaseOf[c]) ELSE titles
        /\ idOf' = SetId(Index(c), n)
        /\ IF replays
           THEN /\ agents' = Credited(started, LabelOf[c], "done", c)
                /\ callAt' = [callAt EXCEPT ![c] = "ok"] /\ UNCHANGED missed
           ELSE /\ agents' = started
                /\ callAt' = [callAt EXCEPT ![c] = "gate"] /\ missed' = TRUE
        /\ UNCHANGED <<exec, entries, shift, record, ctl, pausedIds, bounds, browser>>

\* waitForAgentResume, then the attempt with its controller
Attempt(c) ==
    /\ callAt[c] = "gate"
    /\ IF IdAt(Index(c)) \in pausedIds
       THEN callAt' = [callAt EXCEPT ![c] = "held"] /\ UNCHANGED ctl
       ELSE callAt' = [callAt EXCEPT ![c] = "attempt"] /\ ctl' = [ctl EXCEPT ![Index(c)] = c]
    /\ UNCHANGED <<exec, missed, entries, shift, agents, titles, record, idOf, pausedIds,
                   bounds, browser>>

\* The journal, and with it the record, is written before the agent is shown
\* as done.  A failure that is recoverable makes null and writes nothing.
AgentEnd(c, ok) ==
    /\ callAt[c] = "attempt"
    /\ callAt' = [callAt EXCEPT ![c] = IF ok THEN "ok" ELSE "null"]
    /\ ctl' = [ctl EXCEPT ![Index(c)] = 0]
    /\ agents' = Credited(agents, LabelOf[c], IF ok THEN "done" ELSE "error", IF ok THEN c ELSE 0)
    /\ IF ok
       THEN /\ entries' = {e \in entries : e[1] # Index(c)} \cup {<<Index(c), c>>}
            /\ Persist(agents, titles)
       ELSE UNCHANGED <<entries, record>>
    /\ UNCHANGED <<exec, missed, shift, titles, idOf, pausedIds, bounds, browser>>

\* The call that has its controller under the index is interrupted; it comes
\* to waitForAgentResume, which asks for the number of the index.  (That the
\* attempt may answer all the same is in WorkflowRuntime.)
PauseAgent(n) ==
    /\ exec = "running" /\ n \in DOMAIN agents /\ agents[n].status = "running"
    /\ n \notin pausedIds /\ bounds.pauses < MaxPauses
    /\ bounds' = [bounds EXCEPT !.pauses = @ + 1]
    /\ pausedIds' = pausedIds \cup {n}
    /\ LET i == IndexFor(n)
           c == IF i = -1 THEN 0 ELSE ctl[i]
       IN  IF c = 0 \/ IdAt(i) \notin pausedIds'
           THEN UNCHANGED <<callAt, ctl>>
           ELSE callAt' = [callAt EXCEPT ![c] = "held"] /\ ctl' = [ctl EXCEPT ![i] = 0]
    /\ UNCHANGED <<exec, missed, entries, shift, agents, titles, record, idOf, browser>>

\* Mutant: the agents that wait are not woken.
WokenMutant(n) == {}

\* The waiters of the first index with that number
Woken(n) == {c \in Calls : callAt[c] = "held" /\ Index(c) = IndexFor(n)}

ResumeAgent(n) ==
    /\ n \in pausedIds /\ pausedIds' = pausedIds \ {n}
    /\ callAt' = [c \in Calls |-> IF c \in Woken(n) THEN "gate" ELSE callAt[c]]
    /\ UNCHANGED <<exec, missed, entries, shift, agents, titles, record, idOf, ctl, bounds, browser>>

-----------------------------------------------------------------------------
\* pause(): the calls in flight reject, and no event says so.
PauseRun ==
    /\ exec = "running" /\ exec' = "paused"
    /\ callAt' = [c \in Calls |-> IF c \in Open THEN "cut" ELSE callAt[c]]
    /\ ctl' = [i \in Indices |-> 0] /\ Persist(agents, titles)
    /\ UNCHANGED <<missed, entries, shift, agents, titles, idOf, pausedIds, bounds, browser>>

Complete ==
    /\ exec = "running" /\ \A c \in Calls : callAt[c] \in Ended
    /\ exec' = "completed" /\ Persist(agents, titles)
    /\ UNCHANGED <<callAt, missed, entries, shift, agents, titles, idOf, ctl, pausedIds, bounds, browser>>

\* The process dies; the next one finds the record, and a run to resume.
Crash ==
    /\ exec \in {"running", "paused"} /\ exec' = "stored"
    /\ callAt' = [c \in Calls |-> IF c \in Open THEN "cut" ELSE callAt[c]]
    /\ agents' = <<>> /\ titles' = <<>> /\ idOf' = <<>> /\ pausedIds' = {}
    /\ ctl' = [i \in Indices |-> 0] /\ browser' = Closed
    /\ UNCHANGED <<missed, entries, shift, record, bounds>>

\* resume() starts an empty snapshot with the phases of the record; what was
\* paused, and the numbers of the calls, are still known.
ResumeRun(edited) ==
    /\ exec \in {"paused", "stored"} /\ bounds.execs < MaxExecs
    /\ bounds' = [bounds EXCEPT !.execs = @ + 1]
    /\ exec' = "running" /\ shift' = IF edited THEN 1 ELSE shift
    /\ callAt' = [c \in Calls |-> "new"] /\ missed' = FALSE
    /\ agents' = <<>> /\ titles' = record.titles /\ Persist(<<>>, record.titles)
    /\ UNCHANGED <<entries, idOf, ctl, pausedIds, browser>>

-----------------------------------------------------------------------------
\* What getRun() or else the record has, and the rows made of it

Shown == IF exec = "stored" THEN record ELSE [agents |-> agents, titles |-> titles]

PhaseKey(a) == IF a.phase = "none" THEN "(no phase)" ELSE a.phase
In(s, key)  == SelectSeq(s.agents, LAMBDA a : PhaseKey(a) = key)

\* The phases of the snapshot, then those of agents in the order they came
Discovered(s) ==
    FoldLeft(LAMBDA order, a : IF PhaseKey(a) \in ToSet(order) THEN order ELSE Append(order, PhaseKey(a)),
             s.titles, s.agents)

\* NavigatorModel.phases
NavigatorRows(s) == LET order == Discovered(s) IN [k \in DOMAIN order |-> In(s, order[k])]

\* renderRunBody, which leaves out the empty ones
PanelRows(s) == SelectSeq(NavigatorRows(s), LAMBDA row : row # <<>>)

\* renderWorkflowLines: the phases of the snapshot, or those of its agents
\* when it has none, and a row of what no phase claims
TextRows(s) ==
    LET named == IF s.titles # <<>> THEN s.titles
                 ELSE SelectSeq(Discovered(s), LAMBDA key : key # "(no phase)")
        rest  == SelectSeq(s.agents, LAMBDA a : PhaseKey(a) \notin ToSet(named))
    IN  Append([k \in DOMAIN named |-> In(s, named[k])], rest)

Tally(as, status) == Len(SelectSeq(as, LAMBDA a : a.status = status))

\* scrollWindow; the last row is an ellipsis when there are more.
ScrollWindow(total, active, cap) ==
    LET start == Max({0, Min({active - cap \div 2, total - cap})})
    IN  IF total <= cap THEN [start |-> 0, count |-> total, more |-> FALSE]
        ELSE [start |-> start, count |-> cap, more |-> start + cap < total]

-----------------------------------------------------------------------------
\* The navigator: phases of the run, the agents of one, the detail of one
Browse(b) == browser' = b /\ UNCHANGED <<exec, callAt, missed, entries, shift, agents, titles,
                                         record, idOf, ctl, pausedIds, bounds>>

RowsOf(b) == IF b.at = "phases" THEN Discovered(Shown)
             ELSE IF b.at = "agents" THEN In(Shown, b.phase) ELSE <<>>

\* Rendering clamps the cursor to the rows there are.
Cursor(b) == Max({1, Min({b.cursor, Len(RowsOf(b))})})

OpenRun == browser.at = "closed" /\ Browse([Closed EXCEPT !.at = "phases"])

MoveDown ==
    /\ Len(RowsOf(browser)) > 1
    /\ Browse([browser EXCEPT !.cursor = (Cursor(browser) % Len(RowsOf(browser))) + 1])

\* drill(): an agent is remembered by its number.
Ids(s, key) == SelectSeq([k \in DOMAIN s.agents |-> k], LAMBDA k : PhaseKey(s.agents[k]) = key)

Drill ==
    /\ RowsOf(browser) # <<>>
    /\ IF browser.at = "phases"
       THEN Browse([browser EXCEPT !.at = "agents", !.cursor = 1,
                                   !.phase = Discovered(Shown)[Cursor(browser)]])
       ELSE LET n == Ids(Shown, browser.phase)[Cursor(browser)]
            IN  Browse([browser EXCEPT !.at = "detail", !.cursor = Shown.agents[n].call, !.id = n])

\* back(), as often as it takes
Back == browser.at # "closed" /\ Browse(Closed)

Next ==
    \/ \E c \in Calls : Attempt(c)
    \/ \E c \in Calls, b \in BOOLEAN : AgentStart(c, b) \/ AgentEnd(c, b)
    \/ \E n \in Calls : PauseAgent(n) \/ ResumeAgent(n)
    \/ PauseRun \/ Complete \/ Crash
    \/ \E edited \in BOOLEAN : ResumeRun(edited)
    \/ OpenRun \/ MoveDown \/ Drill \/ Back

Spec == Init /\ [][Next]_wvars

-----------------------------------------------------------------------------
Labels == ToSet(LabelOf)
Labelled(as, l, status) == Len(SelectSeq(as, LAMBDA a : a.label = l /\ a.status = status))

\* The agents of one label end as its calls did, and an agent whose label no
\* other has shows what its own call returned.
EndsAreCredited ==
    exec # "stored" =>
       /\ \A l \in Labels, end \in {<<"done", "ok">>, <<"error", "null">>} :
             Labelled(agents, l, end[1])
             = Cardinality({c \in Calls : LabelOf[c] = l /\ callAt[c] = end[2]})
       /\ \A k \in DOMAIN agents :
             /\ agents[k].status = "done"
             /\ \A d \in Calls \ {agents[k].call} : LabelOf[d] # agents[k].label
             => agents[k].result = agents[k].call

\* The record never shows an agent done whose result the journal lacks.
RecordNotAhead ==
    \A l \in Labels :
       Labelled(record.agents, l, "done") <= Cardinality({e \in entries : LabelOf[e[2]] = l})

\* Where the map has one call for the number, a paused agent makes no attempt,
\* and one that is not paused is not kept waiting.
PauseReaches ==
    \A c \in Open :
       LET n == c \* the number it is shown under
           known == /\ IdAt(Index(c)) = n
                    /\ \A k, m \in DOMAIN idOf : idOf[k][2] = n /\ idOf[m][2] = n => k = m
       IN  known => /\ n \in pausedIds => callAt[c] # "attempt"
                    /\ n \notin pausedIds => callAt[c] # "held"

\* Every surface puts each agent into one row, so its rows add up.
RowsAddUp ==
    LET s == Shown
    IN  \A rows \in {NavigatorRows(s), PanelRows(s), TextRows(s)} :
           LET all == FlattenSeq(rows)
           IN  \A status \in {"running", "done", "error"} : Tally(all, status) = Tally(s.agents, status)

\* The detail view stays with the agent it was opened on.
DetailIsTheAgent ==
    browser.at = "detail" /\ browser.id \in DOMAIN Shown.agents =>
       Shown.agents[browser.id].call = browser.cursor

\* workflow-ui.ts:650 "so the active item stays visible", with three rows or more
CursorShown ==
    bounds.execs = 1 /\ agents = <<>> =>
       \A total \in 1 .. MaxRows, cap \in 3 .. MaxRows : \A active \in 0 .. total - 1 :
          LET w == ScrollWindow(total, active, cap)
          IN  /\ active \in w.start .. w.start + w.count - 1
              /\ w.more => active # w.start + w.count - 1

\* What the operator is shown of the agents, live or from the record, is what
\* became of their calls, and what is done to an agent is done to that call.
AgentsAreAccounted ==
    /\ EndsAreCredited /\ RecordNotAhead /\ PauseReaches
    /\ RowsAddUp /\ DetailIsTheAgent /\ CursorShown
=============================================================================
