------------------------------ MODULE HelmDesk ------------------------------
(***************************************************************************)
(* What Helm keeps of a project between two pi sessions: the state file    *)
(* (state/persistence.ts), its reading when a session starts, its writing  *)
(* after every change (data/real.ts), and what is made of it: the digest   *)
(* of a launch, the list of a loop's runs, the follow-ups of a question    *)
(* and the closeout card of a goal.  Every session of the project has the  *)
(* whole in memory and writes the whole.                                   *)
(*                                                                         *)
(* A session needs longer than a tick of the clock to start.  What the     *)
(* goals and loops themselves do is in HelmGoals and HelmLoops.            *)
(***************************************************************************)
EXTENDS Integers, FiniteSets, Sequences, TLC
LOCAL INSTANCE SequencesExt

CONSTANTS Desks,      \* pi sessions that may be open on the project
          MaxFacts,   \* bound: things that happen
          MaxClock,   \* bound: ticks
          MaxPaid,    \* bound: spending
          MaxOpens,   \* bound: sessions opened
          Landings    \* checks passed, failed, cost and estimate (-1: none) of a goal

VARIABLES log,    \* history: what happened, when, in which session
          clock,
          money,  \* the account now, all that was ever paid
          stateFile, \* the state file
          helms,  \* per session: what it has in memory
          opens   \* history: sessions ever opened, whether two were open at once

deskVars == <<log, clock, money, stateFile, helms, opens>>

Logged == 1 .. Len(log)
\* The kinds of events the journal gets, and a follow-up question.  No code
\* writes an event of the kinds merged, prOpened and selfCaughtRevert.
RunKinds == {"loopRunCompleted", "selfCaughtPaused"}
LogKinds == {"escalated", "goalStarted", "ask"} \cup RunKinds

\* emptyDomain
Blank  == [facts |-> {}, answered |-> {}, closeout |-> <<>>, seen |-> 0, spent |-> 0, paid |-> 0]
Closed == [at |-> "closed", boot |-> 0, known |-> Blank, since |-> 0, base |-> 0, paid |-> 0,
           temp |-> Blank]

Init ==
    /\ log = <<>> /\ clock = 1 /\ money = [spent |-> 0, paid |-> 0]
    /\ stateFile = [whole |-> TRUE, saved |-> Blank]
    /\ helms = [p \in Desks |-> Closed]
    /\ opens = [count |-> 0, overlap |-> FALSE]

TypeOK ==
    /\ \A i \in Logged : log[i].kind \in LogKinds /\ log[i].at \in 1 .. clock
    /\ money.spent \in 0 .. money.paid /\ stateFile.whole \in BOOLEAN
    /\ stateFile.saved.facts \subseteq Logged /\ stateFile.saved.answered \subseteq stateFile.saved.facts
    /\ \A p \in Desks : /\ helms[p].at \in {"closed", "idle", "changed", "written"}
                        /\ helms[p].known.facts \subseteq Logged

-----------------------------------------------------------------------------
\* load(): a file that cannot be parsed counts as none.
Loaded == IF stateFile.whole THEN stateFile.saved ELSE Blank

\* The constructor remembers when the project was last seen and what had been
\* spent by then, and writes the file.
Open(p) ==
    /\ helms[p].at = "closed" /\ clock > stateFile.saved.seen /\ opens.count < MaxOpens
    /\ helms' = [helms EXCEPT ![p] = [Closed EXCEPT !.at = "changed", !.boot = opens.count + 1,
                                      !.known = Loaded, !.since = Loaded.seen,
                                      !.base = Loaded.spent, !.paid = Loaded.paid]]
    /\ opens' = [count |-> opens.count + 1,
                 overlap |-> opens.overlap \/ \E q \in Desks : helms[q].at # "closed"]
    /\ UNCHANGED <<log, clock, money, stateFile>>

\* Mutant: the file is written in place.
WriteMutant(p) ==
    /\ helms[p].at = "changed"
    /\ helms' = [helms EXCEPT ![p].at = "written",
                  ![p].temp = [helms[p].known EXCEPT !.seen = clock, !.spent = money.spent,
                                                    !.paid = money.paid]]
    /\ stateFile' = [stateFile EXCEPT !.whole = FALSE]
    /\ UNCHANGED <<log, clock, money, opens>>

\* persist(): the whole goes to a file of this process, with the time and the
\* account of now.
Write(p) ==
    /\ helms[p].at = "changed"
    /\ helms' = [helms EXCEPT ![p].at = "written",
                  ![p].temp = [helms[p].known EXCEPT !.seen = clock, !.spent = money.spent,
                                                    !.paid = money.paid]]
    /\ UNCHANGED <<log, clock, money, stateFile, opens>>

\* Then that file takes the place of the state file.
Rename(p) ==
    /\ helms[p].at = "written"
    /\ stateFile' = [whole |-> TRUE, saved |-> helms[p].temp]
    /\ helms' = [helms EXCEPT ![p].at = "idle", ![p].temp = Blank]
    /\ log' = [i \in Logged |-> [log[i] EXCEPT !.saved = @ \/ i \in helms[p].temp.facts]]
    /\ UNCHANGED <<clock, money, opens>>

Knows(p, known) == helms' = [helms EXCEPT ![p].at = "changed", ![p].known = known]

\* appendJournal, appendAudit
Happens(p, kind) ==
    /\ helms[p].at = "idle" /\ Len(log) < MaxFacts
    /\ log' = Append(log, [kind |-> kind, at |-> clock, boot |-> helms[p].boot, saved |-> FALSE])
    /\ Knows(p, [helms[p].known EXCEPT !.facts = @ \cup {Len(log) + 1}])
    /\ UNCHANGED <<clock, money, stateFile, opens>>

\* addEscalation of one that is not resolved by a precedent; a goal starts; the
\* end of a loop's run, also in the audit; escalation.ask, which adds to the
\* escalation.
Escalated(p)    == Happens(p, "escalated")
GoalStarts(p)   == Happens(p, "goalStarted")
RunEnds(p)      == \E kind \in RunKinds : Happens(p, kind)
AsksFollowUp(p) == Happens(p, "ask")

\* answerEscalationFollowUp: the question is known by its time.
AnswerFollowUp(p, at) ==
    LET asked == {i \in helms[p].known.facts : log[i].kind = "ask" /\ log[i].at = at}
    IN  /\ helms[p].at = "idle" /\ ~asked \subseteq helms[p].known.answered
        /\ Knows(p, [helms[p].known EXCEPT !.answered = @ \cup asked])
        /\ UNCHANGED <<log, clock, money, stateFile, opens>>

\* A workflow of this session spends; a deleted run takes its spending along.
Spends(p) ==
    /\ helms[p].at = "idle" /\ money.paid < MaxPaid
    /\ money' = [spent |-> money.spent + 1, paid |-> money.paid + 1]
    /\ Knows(p, helms[p].known) /\ UNCHANGED <<log, clock, stateFile, opens>>

Forgets(p) ==
    /\ helms[p].at = "idle" /\ money.spent > 0
    /\ money' = [money EXCEPT !.spent = @ - 1]
    /\ Knows(p, helms[p].known) /\ UNCHANGED <<log, clock, stateFile, opens>>

-----------------------------------------------------------------------------
\* Math.round(100 * passed / total), of no checks 0.
Percent(passed, total) == IF total = 0 THEN 0 ELSE (200 * passed + total) \div (2 * total)

\* buildCloseout: what the cost is said to come from.
Why(cost, estimate, contributor) ==
    IF estimate = -1 THEN "no estimate"
    ELSE IF cost = -1 THEN "no cost"
    ELSE IF cost <= estimate THEN "under"
    ELSE IF contributor THEN "contributor" ELSE "over"

Closeout(goal, boot) ==
    [failed |-> goal.failed, green |-> Percent(goal.passed, goal.passed + goal.failed),
     why |-> Why(goal.cost, goal.estimate, goal.named), boot |-> boot]

\* Mutant: a closeout is built anew when the goal is complete once more.
LandsMutant(p, goal) ==
    /\ helms[p].at = "idle"
    /\ Knows(p, [helms[p].known EXCEPT !.closeout =
                                   <<Closeout(goal, helms[p].boot)>>])
    /\ UNCHANGED <<log, clock, money, stateFile, opens>>

\* The goal is complete: its closeout is built once.
Lands(p, goal) ==
    /\ helms[p].at = "idle" /\ helms[p].known.closeout = <<>>
    /\ Knows(p, [helms[p].known EXCEPT !.closeout =
                                   <<Closeout(goal, helms[p].boot)>>])
    /\ UNCHANGED <<log, clock, money, stateFile, opens>>

-----------------------------------------------------------------------------
Tick == clock < MaxClock /\ clock' = clock + 1 /\ UNCHANGED <<log, money, stateFile, helms, opens>>

\* The session ends, or its process does, also between the two steps of a save.
Ends(p) ==
    /\ helms[p].at # "closed" /\ helms' = [helms EXCEPT ![p] = Closed]
    /\ UNCHANGED <<log, clock, money, stateFile, opens>>

Next ==
    \/ Tick
    \/ \E p \in Desks :
         \/ Open(p) \/ Write(p) \/ Rename(p) \/ Spends(p) \/ Forgets(p) \/ Ends(p)
         \/ Escalated(p) \/ GoalStarts(p) \/ RunEnds(p) \/ AsksFollowUp(p)
         \/ \E at \in 1 .. MaxClock : AnswerFollowUp(p, at)
         \/ \E goal \in Landings : Lands(p, goal)

Spec == Init /\ [][Next]_deskVars

-----------------------------------------------------------------------------
\* The kinds getDigest makes a line of: a decision that is queued, a loop that
\* paused itself.  A goal that started and a run that completed are in none.
LineKinds == {"escalated", "selfCaughtPaused"}

\* Mutant: also what happened at the time it was last seen.
TellsMutant(p) ==
    {i \in helms[p].known.facts : log[i].kind \in LineKinds /\ log[i].at >= helms[p].since}

\* getDigest: of the journal behind the time the project was last seen, the
\* events of those kinds.
Tells(p) ==
    {i \in helms[p].known.facts : log[i].kind \in LineKinds /\ log[i].at > helms[p].since}

\* Mutant: the difference as it is.
SpentMutant(p) == money.spent - helms[p].base

\* Nothing, too, when there was no account of an earlier session to read.
Spent(p) == IF helms[p].since > 0 /\ money.spent > helms[p].base
            THEN money.spent - helms[p].base ELSE 0

\* Mutant: by time only, and a stable sort.
NewerMutant(a, b) == log[a].at > log[b].at \/ (log[a].at = log[b].at /\ a < b)

\* listLoopRuns: the newest first, of one time the one recorded last.
Newer(a, b) == log[a].at > log[b].at \/ (log[a].at = log[b].at /\ a > b)

LoopRuns(p) == SortSeq(SetToSeq({i \in helms[p].known.facts : log[i].kind \in RunKinds}), Newer)

Open1 == {p \in Desks : helms[p].at # "closed"}

\* What was saved once is on file ever after, through restarts and crashes in
\* the midst of a save, as long as the project is open in one session at a time.
NothingIsLost ==
    ~opens.overlap =>
      /\ stateFile.whole
      /\ \A i \in Logged : log[i].saved => i \in stateFile.saved.facts

\* A digest lists every decision queued and every loop paused in its own
\* session, and nothing that an earlier one could tell.
DigestIsOfTheSession ==
    ~opens.overlap =>
      \A p \in Open1 : Tells(p) = {i \in helms[p].known.facts : /\ log[i].kind \in LineKinds
                                                               /\ log[i].boot = helms[p].boot}

\* The digest speaks of no more money than was paid since the last save of the
\* session before, and of no negative sum when runs were deleted.
SpentIsSince == \A p \in Open1 : Spent(p) \in 0 .. money.paid - helms[p].paid

DeskIsKept == NothingIsLost /\ DigestIsOfTheSession /\ SpentIsSince

\* The runs of a loop are listed in the order they ended in.
RunsInOrder ==
    \A p \in Open1 : LET runs == LoopRuns(p)
                     IN  \A i, j \in DOMAIN runs : i < j => runs[i] > runs[j]

\* The closeout of a goal is that of its first completion, whatever is
\* completed again later.
CloseoutStands ==
    [][stateFile.saved.closeout # <<>> /\ ~opens.overlap
         => stateFile'.saved.closeout = stateFile.saved.closeout]_deskVars

\* Not so: two sessions of one project take each other's facts out of the file;
\* a digest tells nothing of the time before the launch, and nothing of a run
\* that completed ("shipped by loops"); a goal is shown all green when one check
\* in 200 failed.
KeptByBoth == \A i \in Logged : log[i].saved => i \in stateFile.saved.facts
TellsOfAbsence ==
    \A p \in Open1 : helms[p].since = 0
                     \/ \A i \in helms[p].known.facts : log[i].kind \in LineKinds => i \in Tells(p)
TellsOfRuns ==
    \A p \in Open1 : \A i \in helms[p].known.facts :
      log[i].kind \in RunKinds /\ log[i].boot = helms[p].boot => i \in Tells(p)
GreenIsGreen ==
    \A p \in Desks : \A c \in {helms[p].known.closeout[i] : i \in DOMAIN helms[p].known.closeout} :
      c.green = 100 => c.failed = 0
=============================================================================
