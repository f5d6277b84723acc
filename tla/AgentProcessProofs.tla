------------------------- MODULE AgentProcessProofs -------------------------
(***************************************************************************)
(* The provider's usage limit and the abort signal in AgentProcess, for    *)
(* any number of agents, repairs and tool calls, in the host and in        *)
(* processes of their own: an attempt the limit cut short never settles as *)
(* one that disobeyed, and one that was aborted starts nothing more.       *)
(***************************************************************************)
EXTENDS AgentProcess, SequenceTheorems, TLAPS

USE AgentAssumption

-----------------------------------------------------------------------------
Attempt == [pc : {"new", "first", "repair", "over", "dead"}, left : 0 .. MaxRetries,
            captured : BOOLEAN, limited : BOOLEAN, said : Texts]

AttemptType ==
    /\ work \in [Agents -> Attempt]
    /\ wire \in [Agents -> Seq(Messages)]
    /\ settled \in [Agents -> Outcomes \cup {"no"}]

(* How an attempt with the session w may end: not as a disobedient one if  *)
(* its last turn ran into the limit.                                       *)
Honest(outcome, w) == w.limited => outcome \notin {"schema", "empty"}

(* A result under way, or arrived, tells how the attempt ended, and no     *)
(* turn follows it.                                                        *)
ResultsAreHonest(a) ==
    \A i \in 1 .. Len(wire[a]) :
       wire[a][i].type = "result" =>
          /\ wire[a][i].how \in Outcomes /\ Honest(wire[a][i].how, work[a])
          /\ ~InTurn(a) /\ work[a].pc # "new"

SettledIsHonest(a) ==
    settled[a] # "no" => ~InTurn(a) /\ work[a].pc # "new" /\ Honest(settled[a], work[a])

RepairsAnswers(a) == work[a].pc = "repair" => a \in schema

LimitInv ==
    /\ AttemptType
    /\ \A a \in Agents : ResultsAreHonest(a) /\ SettledIsHonest(a) /\ RepairsAnswers(a)

-----------------------------------------------------------------------------
(* What a turn leaves is a session in the same place.                      *)
LEMMA TurnType ==
    ASSUME NEW a \in Agents, AttemptType,
           NEW text \in Texts, NEW limit \in BOOLEAN, NEW structured \in BOOLEAN
    PROVE  LET w == Turn(a, text, limit, structured)
           IN  w \in Attempt /\ w.pc = work[a].pc /\ w.left = work[a].left
<1> DEFINE said == IF text = "nothing" THEN work[a].said ELSE text
           captured == work[a].captured \/ structured
<1>1. work[a] \in Attempt
  BY DEF AttemptType
<1>2. said \in Texts /\ captured \in BOOLEAN
  BY <1>1 DEF Attempt
<1>3. Turn(a, text, limit, structured) =
         [work[a] EXCEPT !.said = said, !.captured = captured, !.limited = limit]
  BY Zenon DEF Turn
<1> HIDE DEF said, captured
<1> QED
  BY <1>1, <1>2, <1>3 DEF Attempt

(* Where the limit is looked for, in the child and in the host.            *)
LEMMA ChildIsHonest ==
    ASSUME NEW a \in Agents, NEW w \in Attempt
    PROVE  /\ ChildGoesOn(a, w) \in Outcomes \cup {"repair"}
           /\ ChildGoesOn(a, w) = "repair" => a \in schema /\ w.left > 0
           /\ ChildGoesOn(a, w) # "repair" => Honest(ChildGoesOn(a, w), w)
BY DEF ChildGoesOn, Answer, Honest, Outcomes, Failures, Attempt

LEMMA HostIsHonest ==
    ASSUME NEW a \in Agents, NEW w \in Attempt, w.pc \in {"first", "repair"},
           w.pc = "repair" => a \in schema
    PROVE  /\ HostGoesOn(a, w) \in Outcomes \cup {"repair"}
           /\ HostGoesOn(a, w) = "repair" => a \in schema /\ w.left > 0
           /\ HostGoesOn(a, w) # "repair" => Honest(HostGoesOn(a, w), w)
BY DEF HostGoesOn, Answer, Honest, Outcomes, Failures, Attempt

(* The messages of a child that ends.                                      *)
LEMMA EndMessages ==
    ASSUME NEW a \in Agents, NEW outcome \in Outcomes, AttemptType, ChildEnds(a, outcome)
    PROVE  /\ wire' \in [Agents -> Seq(Messages)]
           /\ \A b \in Agents \ {a} : wire'[b] = wire[b]
           /\ \A i \in 1 .. Len(wire'[a]) :
                 wire'[a][i].type = "result" =>
                    \/ i \in 1 .. Len(wire[a]) /\ wire'[a][i] = wire[a][i]
                    \/ wire'[a][i].how = outcome
<1> DEFINE end == <<Report("usage"), Report("history"), Result(outcome)>>
<1>1. end \in Seq(Messages) /\ wire[a] \in Seq(Messages)
  <2>1. Report("usage") \in Messages /\ Report("history") \in Messages
    BY DEF Report, Messages, Reports
  <2>2. Result(outcome) \in Messages
    BY DEF Result, Messages
  <2> QED
    BY <2>1, <2>2 DEF AttemptType
<1>2. wire' = [wire EXCEPT ![a] = @ \o end]
  BY DEF ChildEnds, Send
<1>3. \A i \in 1 .. 3 : end[i].type = "result" => end[i].how = outcome
  BY DEF Report, Result
<1>4. Len(end) = 3
  OBVIOUS
<1> HIDE DEF end
<1>5. /\ wire[a] \o end \in Seq(Messages)
      /\ Len(wire[a] \o end) = Len(wire[a]) + Len(end)
      /\ \A i \in 1 .. Len(wire[a]) + Len(end) :
            (wire[a] \o end)[i] = IF i <= Len(wire[a]) THEN wire[a][i]
                                  ELSE end[i - Len(wire[a])]
  BY <1>1, ConcatProperties, ZenonT(30)
<1> QED
  BY <1>1, <1>2, <1>3, <1>4, <1>5 DEF AttemptType

-----------------------------------------------------------------------------
(* A step of an agent concerns nobody else; what it must do for its own.   *)
LEMMA LimitKept ==
    ASSUME LimitInv, NEW a \in Agents, AttemptType', schema' = schema,
           \A b \in Agents \ {a} : /\ work'[b] = work[b] /\ wire'[b] = wire[b]
                                   /\ settled'[b] = settled[b],
           ResultsAreHonest(a)', SettledIsHonest(a)', RepairsAnswers(a)'
    PROVE  LimitInv'
BY DEF LimitInv, ResultsAreHonest, SettledIsHonest, RepairsAnswers, InTurn

(* run() begins, or finds its signal aborted.                              *)
LEMMA StartLimit == ASSUME LimitInv, NEW a \in Agents, AgentStarts(a) PROVE LimitInv'
<1>1. /\ work[a] \in Attempt /\ work \in [Agents -> Attempt]
      /\ settled \in [Agents -> Outcomes \cup {"no"}] /\ wire \in [Agents -> Seq(Messages)]
      /\ ResultsAreHonest(a) /\ work[a].pc = "new" /\ settled[a] = "no"
  BY DEF LimitInv, AttemptType, AgentStarts
<1>2. PICK pc \in {"first", "over"} :
         /\ work' = [work EXCEPT ![a].pc = pc]
         /\ \/ settled' = settled
            \/ settled' = [settled EXCEPT ![a] = "aborted"] /\ pc = "over"
  BY DEF AgentStarts
<1>3. /\ work' \in [Agents -> Attempt] /\ work'[a].pc = pc
      /\ \A b \in Agents \ {a} : work'[b] = work[b]
  BY <1>1, <1>2 DEF Attempt
<1>4. wire' = wire /\ schema' = schema
  BY DEF AgentStarts
<1>5. AttemptType'
  BY <1>1, <1>2, <1>3, <1>4 DEF AttemptType, Outcomes, Failures
<1>6. \A i \in 1 .. Len(wire[a]) : wire[a][i].type # "result"
  BY <1>1 DEF ResultsAreHonest
<1> QED
  BY <1>1, <1>2, <1>3, <1>4, <1>5, <1>6, LimitKept
     DEF ResultsAreHonest, SettledIsHonest, RepairsAnswers, InTurn, Honest

(* A turn ends, or the session throws: the attempt ends with an outcome    *)
(* that fits its session w.                                                *)
Ends(a, w, outcome) ==
    /\ work' = [work EXCEPT ![a] = [w EXCEPT !.pc = "over"]]
    /\ IF isolated THEN ChildEnds(a, outcome) /\ UNCHANGED <<told, settled>>
       ELSE HostEnds(a, outcome) /\ UNCHANGED wire

LEMMA EndsLimit ==
    ASSUME LimitInv, NEW a \in Agents, InTurn(a), NEW w \in Attempt, NEW outcome \in Outcomes,
           Ends(a, w, outcome), Honest(outcome, w), schema' = schema
    PROVE  LimitInv'
<1>1. /\ work[a] \in Attempt /\ work \in [Agents -> Attempt]
      /\ settled \in [Agents -> Outcomes \cup {"no"}] /\ wire \in [Agents -> Seq(Messages)]
      /\ AttemptType
  BY DEF LimitInv, AttemptType
<1>2. settled[a] = "no" /\ \A i \in 1 .. Len(wire[a]) : wire[a][i].type # "result"
  BY DEF LimitInv, ResultsAreHonest, SettledIsHonest
<1>3. /\ work' \in [Agents -> Attempt] /\ work'[a].pc = "over"
      /\ work'[a].limited = w.limited /\ \A b \in Agents \ {a} : work'[b] = work[b]
  BY <1>1 DEF Ends, Attempt
<1>4. CASE isolated
  <2>1. ChildEnds(a, outcome) /\ settled' = settled
    BY <1>4 DEF Ends
  <2>2. AttemptType'
    BY <1>1, <1>3, <2>1, EndMessages DEF AttemptType
  <2>3. ResultsAreHonest(a)'
    BY <1>1, <1>2, <1>3, <2>1, EndMessages DEF ResultsAreHonest, InTurn, Honest
  <2> QED
    BY <1>1, <1>2, <1>3, <2>1, <2>2, <2>3, EndMessages, LimitKept
       DEF SettledIsHonest, RepairsAnswers, InTurn
<1>5. CASE ~isolated
  <2>1. settled' = [settled EXCEPT ![a] = outcome] /\ wire' = wire
    BY <1>5 DEF Ends, HostEnds
  <2>2. AttemptType'
    BY <1>1, <1>3, <2>1 DEF AttemptType
  <2> QED
    BY <1>1, <1>2, <1>3, <2>1, <2>2, LimitKept
       DEF ResultsAreHonest, SettledIsHonest, RepairsAnswers, InTurn, Honest
<1> QED
  BY <1>4, <1>5

LEMMA TurnLimit ==
    ASSUME LimitInv, NEW a \in Agents, TurnEnds(a) \/ SessionFails(a) PROVE LimitInv'
<1>1. AttemptType /\ work[a] \in Attempt /\ work \in [Agents -> Attempt]
  BY DEF LimitInv, AttemptType
<1>2. CASE SessionFails(a)
  <2>1. Ends(a, work[a], "error")
    BY <1>1, <1>2 DEF SessionFails, Ends
  <2> QED
    BY <1>1, <1>2, <2>1, EndsLimit DEF SessionFails, Outcomes, Failures, Honest
<1>3. CASE TurnEnds(a)
  <2>1. InTurn(a) /\ schema' = schema
    BY <1>3 DEF TurnEnds
  <2>2. PICK text \in Texts, limit \in BOOLEAN, structured \in BOOLEAN :
           LET w    == Turn(a, text, limit, structured)
               next == IF isolated THEN ChildGoesOn(a, w) ELSE HostGoesOn(a, w)
           IN /\ structured => a \in schema
              /\ IF next = "repair"
                 THEN /\ work' = [work EXCEPT ![a] = [w EXCEPT !.pc = "repair", !.left = @ - 1]]
                      /\ UNCHANGED <<wire, told, settled>>
                 ELSE /\ work' = [work EXCEPT ![a] = [w EXCEPT !.pc = "over"]]
                      /\ IF isolated THEN ChildEnds(a, next) /\ UNCHANGED <<told, settled>>
                         ELSE HostEnds(a, next) /\ UNCHANGED wire
    BY <1>3 DEF TurnEnds
  <2> DEFINE w    == Turn(a, text, limit, structured)
             next == IF isolated THEN ChildGoesOn(a, w) ELSE HostGoesOn(a, w)
  <2>3. w \in Attempt /\ w.pc = work[a].pc /\ w.left = work[a].left
    BY <1>1, TurnType
  <2>4. /\ next \in Outcomes \cup {"repair"}
        /\ next = "repair" => a \in schema /\ w.left > 0
        /\ next # "repair" => Honest(next, w)
    BY <2>1, <2>3, ChildIsHonest, HostIsHonest DEF InTurn, LimitInv, RepairsAnswers
  <2>5. CASE next = "repair"
    <3>1. /\ work' = [work EXCEPT ![a] = [w EXCEPT !.pc = "repair", !.left = @ - 1]]
          /\ wire' = wire /\ settled' = settled
      BY <2>2, <2>5
    <3> HIDE DEF w, next
    <3> DEFINE r == [w EXCEPT !.pc = "repair", !.left = @ - 1]
    <3>2. w.left - 1 \in 0 .. MaxRetries
      BY <2>3, <2>4, <2>5 DEF Attempt
    <3>3. r \in Attempt /\ r.pc = "repair"
      BY <2>3, <3>2 DEF Attempt
    <3> HIDE DEF r
    <3>4. /\ work' \in [Agents -> Attempt] /\ work'[a].pc = "repair"
          /\ \A b \in Agents \ {a} : work'[b] = work[b]
      BY <1>1, <3>1, <3>3 DEF r
    <3>5. AttemptType'
      BY <1>1, <3>1, <3>4 DEF AttemptType
    <3>6. settled[a] = "no" /\ \A i \in 1 .. Len(wire[a]) : wire[a][i].type # "result"
      BY <2>1 DEF LimitInv, ResultsAreHonest, SettledIsHonest
    <3> QED
      BY <2>1, <2>4, <2>5, <3>1, <3>4, <3>5, <3>6, LimitKept
         DEF ResultsAreHonest, SettledIsHonest, RepairsAnswers
  <2>6. CASE next # "repair"
    <3>1. /\ work' = [work EXCEPT ![a] = [w EXCEPT !.pc = "over"]]
          /\ IF isolated THEN ChildEnds(a, next) /\ UNCHANGED <<told, settled>>
             ELSE HostEnds(a, next) /\ UNCHANGED wire
      BY <2>2, <2>6
    <3> HIDE DEF w, next
    <3>2. Ends(a, w, next)
      BY <3>1 DEF Ends
    <3> QED
      BY <2>1, <2>3, <2>4, <2>6, <3>2, EndsLimit
  <2> QED
    BY <2>5, <2>6
<1> QED
  BY <1>2, <1>3

(* finish(): what is under way is dropped.                                 *)
LEMMA FinishLimit ==
    ASSUME LimitInv, NEW a \in Agents, NEW outcome \in Outcomes, Finish(a, outcome),
           Honest(outcome, work[a]), schema' = schema
    PROVE  LimitInv'
<1>1. /\ work[a] \in Attempt /\ work \in [Agents -> Attempt]
      /\ settled \in [Agents -> Outcomes \cup {"no"}] /\ wire \in [Agents -> Seq(Messages)]
  BY DEF LimitInv, AttemptType
<1>2. /\ work' \in [Agents -> Attempt] /\ work'[a].pc = "dead"
      /\ work'[a].limited = work[a].limited /\ \A b \in Agents \ {a} : work'[b] = work[b]
  BY <1>1 DEF Finish, Attempt
<1>3. settled' = [settled EXCEPT ![a] = outcome] /\ wire' = [wire EXCEPT ![a] = <<>>]
  BY DEF Finish
<1>4. AttemptType'
  BY <1>1, <1>2, <1>3 DEF AttemptType
<1>5. wire'[a] = <<>> /\ settled'[a] = outcome
  BY <1>1, <1>3
<1>6. ResultsAreHonest(a)'
  BY <1>5 DEF ResultsAreHonest
<1>7. SettledIsHonest(a)'
  BY <1>2, <1>5 DEF SettledIsHonest, InTurn, Honest
<1>8. RepairsAnswers(a)'
  BY <1>2 DEF RepairsAnswers
<1>9. \A b \in Agents \ {a} : wire'[b] = wire[b] /\ settled'[b] = settled[b]
  BY <1>1, <1>3
<1> QED
  BY <1>2, <1>4, <1>6, <1>7, <1>8, <1>9, LimitKept

(* A message from the child: a result settles run() as it says.            *)
LEMMA ArrivalLimit == ASSUME LimitInv, NEW a \in Agents, MessageArrives(a) PROVE LimitInv'
<1> DEFINE m == Head(wire[a])
<1>1. /\ wire \in [Agents -> Seq(Messages)] /\ wire[a] \in Seq(Messages) /\ wire[a] # <<>>
      /\ ResultsAreHonest(a) /\ AttemptType /\ schema' = schema
  BY DEF LimitInv, AttemptType, MessageArrives
<1>2. m \in Messages /\ m = wire[a][1] /\ 1 \in 1 .. Len(wire[a])
  BY <1>1
<1>3. CASE m.type = "result"
  <2>1. Finish(a, m.how)
    BY <1>3 DEF MessageArrives
  <2>2. m.how \in Outcomes /\ Honest(m.how, work[a])
    BY <1>1, <1>2, <1>3 DEF ResultsAreHonest
  <2> HIDE DEF m
  <2> QED
    BY <1>1, <2>1, <2>2, FinishLimit
<1>4. CASE m.type # "result"
  <2>1. wire' = [wire EXCEPT ![a] = Tail(@)] /\ settled' = settled /\ work' = work
    BY <1>4 DEF MessageArrives
  <2>2. /\ Tail(wire[a]) \in Seq(Messages) /\ Len(Tail(wire[a])) = Len(wire[a]) - 1
        /\ \A i \in 1 .. Len(wire[a]) - 1 : Tail(wire[a])[i] = wire[a][i + 1]
    BY <1>1
  <2>3. AttemptType'
    BY <1>1, <2>1, <2>2 DEF AttemptType
  <2>4. /\ wire'[a] = Tail(wire[a]) /\ \A b \in Agents \ {a} : wire'[b] = wire[b]
    BY <1>1, <2>1
  <2>5. ResultsAreHonest(a)'
    <3> SUFFICES ASSUME NEW i \in 1 .. Len(wire'[a]), wire'[a][i].type = "result"
                 PROVE  /\ wire'[a][i].how \in Outcomes /\ Honest(wire'[a][i].how, work[a])
                        /\ ~InTurn(a) /\ work[a].pc # "new"
      BY <2>1 DEF ResultsAreHonest, InTurn
    <3>1. wire'[a][i] = wire[a][i + 1] /\ i + 1 \in 1 .. Len(wire[a])
      BY <1>1, <2>2, <2>4
    <3> QED
      BY <1>1, <3>1 DEF ResultsAreHonest
  <2> QED
    BY <1>1, <2>1, <2>3, <2>4, <2>5, LimitKept
       DEF LimitInv, SettledIsHonest, RepairsAnswers, InTurn
<1> QED
  BY <1>3, <1>4

(* The exit of the child, and the signal.                                  *)
LEMMA HostLimit ==
    ASSUME LimitInv, NEW a \in Agents, ExitHeard(a) \/ SignalAborts(a) \/ ChildDies(a)
    PROVE  LimitInv'
<1>1. schema' = schema
  BY DEF ExitHeard, SignalAborts, ChildDies
<1>2. CASE ExitHeard(a)
  BY <1>1, <1>2, FinishLimit DEF ExitHeard, Outcomes, Failures, Honest
<1>3. CASE SignalAborts(a)
  <2>1. CASE Finish(a, "aborted")
    BY <1>1, <2>1, FinishLimit DEF Outcomes, Failures, Honest
  <2>2. CASE UNCHANGED <<settled, work, wire>>
    BY <1>1, <2>2
       DEF LimitInv, AttemptType, ResultsAreHonest, SettledIsHonest, RepairsAnswers, InTurn
  <2> QED
    BY <1>3, <2>1, <2>2 DEF SignalAborts
<1>4. CASE ChildDies(a)
  <2>1. work \in [Agents -> Attempt] /\ work[a] \in Attempt
    BY DEF LimitInv, AttemptType
  <2>2. /\ work' \in [Agents -> Attempt] /\ work'[a].pc = "dead"
        /\ work'[a].limited = work[a].limited /\ \A b \in Agents \ {a} : work'[b] = work[b]
    BY <1>4, <2>1 DEF ChildDies, Attempt
  <2>3. wire' = wire /\ settled' = settled
    BY <1>4 DEF ChildDies
  <2>4. AttemptType'
    BY <2>2, <2>3 DEF LimitInv, AttemptType
  <2> QED
    BY <1>1, <2>2, <2>3, <2>4, LimitKept
       DEF LimitInv, ResultsAreHonest, SettledIsHonest, RepairsAnswers, InTurn, Honest
<1> QED
  BY <1>2, <1>3, <1>4

(* A tool is called during a turn only.                                    *)
LEMMA ToolLimit ==
    ASSUME LimitInv, NEW a \in Agents, NEW n \in CallIds, ToolCalled(a, n) PROVE LimitInv'
<1> DEFINE request == <<Request(n)>>
<1>1. /\ wire \in [Agents -> Seq(Messages)] /\ wire[a] \in Seq(Messages)
      /\ ResultsAreHonest(a) /\ AttemptType /\ InTurn(a)
      /\ schema' = schema /\ work' = work /\ settled' = settled
  BY DEF LimitInv, AttemptType, ToolCalled
<1>2. request \in Seq(Messages) /\ Len(request) = 1 /\ request[1].type = "tool"
  <2>1. Request(n) \in Messages /\ Request(n).type = "tool"
    BY DEF Request, Messages, CallIds
  <2> QED
    BY <2>1
<1>3. wire' = [wire EXCEPT ![a] = @ \o request]
  BY DEF ToolCalled, Send
<1> HIDE DEF request
<1>4. /\ wire[a] \o request \in Seq(Messages)
      /\ Len(wire[a] \o request) = Len(wire[a]) + Len(request)
      /\ \A i \in 1 .. Len(wire[a]) + Len(request) :
            (wire[a] \o request)[i] = IF i <= Len(wire[a]) THEN wire[a][i]
                                      ELSE request[i - Len(wire[a])]
  BY <1>1, <1>2, ConcatProperties, ZenonT(30)
<1>5. /\ wire' \in [Agents -> Seq(Messages)] /\ wire'[a] = wire[a] \o request
      /\ \A b \in Agents \ {a} : wire'[b] = wire[b]
  BY <1>1, <1>3, <1>4
<1>6. \A i \in 1 .. Len(wire'[a]) : wire'[a][i].type # "result"
  <2>1. \A i \in 1 .. Len(wire[a]) : wire[a][i].type # "result"
    BY <1>1 DEF ResultsAreHonest
  <2> QED
    BY <1>1, <1>2, <1>4, <1>5, <2>1
<1>7. AttemptType'
  BY <1>1, <1>5 DEF AttemptType
<1> QED
  BY <1>1, <1>5, <1>6, <1>7, LimitKept
     DEF LimitInv, ResultsAreHonest, SettledIsHonest, RepairsAnswers, InTurn

-----------------------------------------------------------------------------
(* Every state has an honest account of every attempt.                     *)
THEOREM LimitInvariant == Spec => []LimitInv
<1>1. Init => LimitInv
  BY DEF Init, LimitInv, AttemptType, Attempt, Texts, ResultsAreHonest, SettledIsHonest,
         RepairsAnswers
<1>2. LimitInv /\ [Next]_vars => LimitInv'
  <2> SUFFICES ASSUME LimitInv, [Next]_vars PROVE LimitInv'
    OBVIOUS
  <2>1. ASSUME UNCHANGED <<schema, work, wire, settled>> PROVE LimitInv'
    BY <2>1
       DEF LimitInv, AttemptType, ResultsAreHonest, SettledIsHonest, RepairsAnswers, InTurn
  <2>2. ASSUME NEW a \in Agents, NEW n \in CallIds,
               \/ PolicySays(a, n) \/ ToolEnds(a, n) \/ UserAnswers(a, n)
               \/ DialogTurn(a, n) \/ DialogCloses(a, n)
        PROVE  LimitInv'
    BY <2>1, <2>2 DEF PolicySays, ToolEnds, UserAnswers, DialogTurn, DialogCloses
  <2>3. CASE UNCHANGED vars
    BY <2>1, <2>3 DEF vars
  <2> QED
    BY <2>2, <2>3, StartLimit, TurnLimit, ArrivalLimit, HostLimit, ToolLimit
       DEF Next, LineStep, AgentStep
<1> QED
  BY <1>1, <1>2, PTL DEF Spec

(* The limit surfaces: whatever the schema, the repairs left, and whether  *)
(* the attempt runs in a process of its own (throwIfProviderLimit).        *)
THEOREM LimitsSurface == Spec => []LimitSurfaces
<1>1. LimitInv => LimitSurfaces
  BY DEF LimitInv, SettledIsHonest, Honest, LimitSurfaces
<1> QED
  BY <1>1, LimitInvariant, PTL

-----------------------------------------------------------------------------
(* What an aborted signal stops.  The broker and the session look only at  *)
(* whether run() has settled, or at the signal, so the argument needs that *)
(* an isolated agent whose signal was aborted has settled, or has not      *)
(* begun, and that only the calls of an isolated agent that has begun      *)
(* reach the broker.                                                       *)

OwnSignal(a) ==
    /\ wire[a] # <<>> => isolated /\ work[a].pc # "new"
    /\ \A n \in CallIds : call[<<a, n>>] # "none" => isolated /\ work[a].pc # "new"
    /\ a \in aborted => ~isolated \/ Cut(a) \/ work[a].pc = "new"

SignalInv ==
    /\ call \in [Calls -> {"none", "sent", "policy", "queued", "dialog", "running", "answered"}]
    /\ \A a \in Agents : OwnSignal(a)

(* What a step must respect for the signals to keep their meaning.         *)
LEMMA SignalKept ==
    ASSUME SignalInv, isolated' = isolated,
           call' \in [Calls -> {"none", "sent", "policy", "queued", "dialog", "running", "answered"}],
           \A b \in Agents : work[b].pc # "new" => work'[b].pc # "new",
           \A b \in Agents : settled[b] # "no" => settled'[b] # "no",
           \A b \in Agents : wire'[b] # <<>> =>
               wire[b] # <<>> \/ (isolated /\ work[b].pc # "new"),
           \A b \in Agents, n \in CallIds : call'[<<b, n>>] # "none" =>
               call[<<b, n>>] # "none" \/ (isolated /\ work[b].pc # "new"),
           \A b \in Agents : b \in aborted' =>
               \/ ~isolated \/ settled'[b] # "no" \/ work'[b].pc = "new"
               \/ b \in aborted /\ work[b].pc # "new"
    PROVE  SignalInv'
BY DEF SignalInv, OwnSignal, Cut

(* The calls of a step of one call: it moves, and nothing else does.       *)
LEMMA MoveSignal ==
    ASSUME SignalInv, NEW a \in Agents, NEW n \in CallIds,
           NEW from \in {"sent", "policy", "queued", "dialog", "running"},
           NEW to \in {"policy", "queued", "dialog", "running", "answered"},
           Move(a, n, from, to), UNCHANGED <<isolated, work, wire, settled, aborted>>
    PROVE  SignalInv'
<1>1. <<a, n>> \in Calls
  BY DEF Calls
<1>2. call' = [call EXCEPT ![<<a, n>>] = to] /\ call[<<a, n>>] = from
  BY DEF Move
<1>3. call' \in [Calls -> {"none", "sent", "policy", "queued", "dialog", "running", "answered"}]
  BY <1>2 DEF SignalInv
<1>4. \A b \in Agents, m \in CallIds : call'[<<b, m>>] # "none" => call[<<b, m>>] # "none"
  <2> TAKE b \in Agents, m \in CallIds
  <2>1. <<b, m>> \in Calls
    BY DEF Calls
  <2> QED
    BY <1>2, <2>1 DEF SignalInv
<1> QED
  BY <1>3, <1>4, SignalKept DEF SignalInv, OwnSignal, Cut

LEMMA CallSignal ==
    ASSUME SignalInv, NEW a \in Agents, NEW n \in CallIds,
           \/ PolicySays(a, n) \/ ToolEnds(a, n) \/ UserAnswers(a, n)
           \/ DialogTurn(a, n) \/ DialogCloses(a, n)
    PROVE  SignalInv'
<1>1. UNCHANGED <<isolated, work, wire, settled, aborted>>
  BY DEF PolicySays, ToolEnds, UserAnswers, DialogTurn, DialogCloses
<1>2. \E from \in {"sent", "policy", "queued", "dialog", "running"},
         to \in {"policy", "queued", "dialog", "running", "answered"} : Move(a, n, from, to)
  <2>1. CASE PolicySays(a, n)
    <3>1. PICK said \in Policies : Move(a, n, "policy", CASE said = "allow" -> "running"
                                   [] said = "deny" -> "answered"
                                   [] OTHER -> "queued")
      BY <2>1 DEF PolicySays
    <3> QED
      BY <3>1
  <2>2. CASE UserAnswers(a, n)
    BY <2>2 DEF UserAnswers
  <2>3. CASE ToolEnds(a, n) \/ DialogTurn(a, n) \/ DialogCloses(a, n)
    BY <2>3 DEF ToolEnds, DialogTurn, DialogCloses
  <2> QED
    BY <2>1, <2>2, <2>3
<1> QED
  BY <1>1, <1>2, MoveSignal

(* A tool call reaches the broker only from a turn of an isolated agent.   *)
LEMMA RequestSignal ==
    ASSUME LimitInv, SignalInv, NEW a \in Agents, NEW n \in CallIds, ToolCalled(a, n)
    PROVE  SignalInv'
<1>1. /\ isolated /\ work[a].pc # "new" /\ UNCHANGED <<isolated, work, settled, aborted>>
      /\ call' = [call EXCEPT ![<<a, n>>] = "sent"]
      /\ \E x : wire' = [wire EXCEPT ![a] = x]
  BY DEF ToolCalled, InTurn, Move, Send
<1>2. call' \in [Calls -> {"none", "sent", "policy", "queued", "dialog", "running", "answered"}]
  BY <1>1 DEF SignalInv
<1>3. \A b \in Agents, m \in CallIds : b # a => call'[<<b, m>>] = call[<<b, m>>]
  <2> TAKE b \in Agents, m \in CallIds
  <2>1. <<b, m>> \in Calls /\ (b # a => <<b, m>> # <<a, n>>)
    BY DEF Calls
  <2> QED
    BY <1>1, <2>1 DEF SignalInv
<1>4. \A b \in Agents : b # a => wire'[b] = wire[b]
  BY <1>1 DEF LimitInv, AttemptType
<1> QED
  BY <1>1, <1>2, <1>3, <1>4, SignalKept DEF SignalInv, OwnSignal, Cut

LEMMA AgentSignal ==
    ASSUME LimitInv, SignalInv, NEW a \in Agents,
           \/ AgentStarts(a) \/ TurnEnds(a) \/ SessionFails(a) \/ ChildDies(a)
           \/ MessageArrives(a) \/ ExitHeard(a) \/ SignalAborts(a)
    PROVE  SignalInv'
<1>1. /\ work \in [Agents -> Attempt] /\ settled \in [Agents -> Outcomes \cup {"no"}]
      /\ wire \in [Agents -> Seq(Messages)] /\ isolated' = isolated
  BY DEF LimitInv, AttemptType, AgentStarts, TurnEnds, SessionFails, ChildDies,
     MessageArrives, ExitHeard, SignalAborts
<1>2. CASE AgentStarts(a)
  <2>1. UNCHANGED <<call, wire, aborted>> /\ work[a].pc = "new"
    BY <1>2 DEF AgentStarts
  <2>2. \/ a \notin aborted /\ work' = [work EXCEPT ![a].pc = "first"] /\ settled' = settled
        \/ /\ work' = [work EXCEPT ![a].pc = "over"]
           /\ settled' = [settled EXCEPT ![a] = "aborted"]
    BY <1>2 DEF AgentStarts
  <2> QED
    BY <1>1, <2>1, <2>2, SignalKept DEF SignalInv, OwnSignal, Cut, Attempt
<1>3. CASE TurnEnds(a) \/ SessionFails(a)
  <2>1. work[a].pc # "new" /\ UNCHANGED <<call, aborted>>
    BY <1>3 DEF TurnEnds, SessionFails, InTurn
  <2>2. \E w : work' = [work EXCEPT ![a] = w] /\ w.pc # "new"
    <3>1. CASE SessionFails(a)
      <4> DEFINE w == [work[a] EXCEPT !.pc = "over"]
      <4>1. w.pc = "over"
        BY <1>1 DEF Attempt
      <4>2. work' = [work EXCEPT ![a] = w]
        BY <1>1, <3>1 DEF SessionFails
      <4> QED
        BY <4>1, <4>2
    <3>2. CASE TurnEnds(a)
      <4>1. PICK text \in Texts, limit \in BOOLEAN, structured \in BOOLEAN :
              LET w == Turn(a, text, limit, structured)
              IN  \/ work' = [work EXCEPT ![a] = [w EXCEPT !.pc = "repair", !.left = @ - 1]]
                  \/ work' = [work EXCEPT ![a] = [w EXCEPT !.pc = "over"]]
        BY ZenonT(60), <3>2 DEF TurnEnds
      <4> DEFINE w == Turn(a, text, limit, structured)
      <4>2. w \in Attempt
        BY TurnType DEF LimitInv
      <4> HIDE DEF w
      <4>3. /\ [w EXCEPT !.pc = "repair", !.left = @ - 1].pc = "repair"
            /\ [w EXCEPT !.pc = "over"].pc = "over"
        BY <4>2 DEF Attempt
      <4>4. \/ work' = [work EXCEPT ![a] = [w EXCEPT !.pc = "repair", !.left = @ - 1]]
            \/ work' = [work EXCEPT ![a] = [w EXCEPT !.pc = "over"]]
        BY <4>1 DEF w
      <4> QED
        BY <4>3, <4>4
    <3> QED
      BY <1>3, <3>1, <3>2
  <2>3. /\ \/ settled' = settled
           \/ \E outcome \in Outcomes : settled' = [settled EXCEPT ![a] = outcome]
        /\ \/ wire' = wire
           \/ isolated /\ \A b \in Agents : b # a => wire'[b] = wire[b]
    <3>1. CASE SessionFails(a)
      BY <1>1, <3>1 DEF SessionFails, ChildEnds, HostEnds, Send, Outcomes, Failures
    <3>2. CASE TurnEnds(a)
      <4>1. PICK text \in Texts, limit \in BOOLEAN, structured \in BOOLEAN :
              LET w    == Turn(a, text, limit, structured)
                  next == IF isolated THEN ChildGoesOn(a, w) ELSE HostGoesOn(a, w)
              IN  IF next = "repair" THEN UNCHANGED <<wire, settled>>
                  ELSE IF isolated THEN ChildEnds(a, next) /\ UNCHANGED settled
                  ELSE HostEnds(a, next) /\ UNCHANGED wire
        BY ZenonT(60), <3>2 DEF TurnEnds
      <4> DEFINE w    == Turn(a, text, limit, structured)
                 next == IF isolated THEN ChildGoesOn(a, w) ELSE HostGoesOn(a, w)
      <4>2. w \in Attempt /\ w.pc = work[a].pc
        BY TurnType DEF LimitInv
      <4>3. next \in Outcomes \cup {"repair"}
        BY <3>2, <4>2, ChildIsHonest, HostIsHonest
           DEF TurnEnds, InTurn, LimitInv, RepairsAnswers
      <4> HIDE DEF w
      <4>4. IF next = "repair" THEN UNCHANGED <<wire, settled>>
            ELSE IF isolated THEN ChildEnds(a, next) /\ UNCHANGED settled
            ELSE HostEnds(a, next) /\ UNCHANGED wire
        BY <4>1 DEF w
      <4> HIDE DEF next
      <4> QED
        BY <1>1, <4>3, <4>4 DEF ChildEnds, HostEnds, Send
    <3> QED
      BY <1>3, <3>1, <3>2
  <2> QED
    BY <1>1, <2>1, <2>2, <2>3, SignalKept DEF SignalInv, OwnSignal, Cut, Outcomes, Failures
<1>4. CASE MessageArrives(a)
  <2>1. /\ wire[a] # <<>> /\ isolated /\ work[a].pc # "new" /\ aborted' = aborted
        /\ work' = work \/ work' = [work EXCEPT ![a].pc = "dead"]
        /\ \A b \in Agents : b # a => wire'[b] = wire[b]
    BY <1>1, <1>4 DEF MessageArrives, Finish, SignalInv, OwnSignal
  <2>2. call' = call \/ \E n : call' = [call EXCEPT ![<<a, n>>] = "policy"]
    BY <1>4 DEF MessageArrives
  <2>3. call' \in [Calls -> {"none", "sent", "policy", "queued", "dialog", "running", "answered"}]
    BY <2>2 DEF SignalInv
  <2>4. \A b \in Agents, n \in CallIds : b # a => call'[<<b, n>>] = call[<<b, n>>]
    <3> TAKE b \in Agents, n \in CallIds
    <3>1. <<b, n>> \in Calls /\ \A m : b # a => <<b, n>> # <<a, m>>
      BY DEF Calls
    <3> QED
      BY <2>2, <3>1 DEF SignalInv
  <2>5. settled' = settled \/ \E x \in Outcomes : settled' = [settled EXCEPT ![a] = x]
    <3>1. Head(wire[a]) = wire[a][1] /\ 1 \in 1 .. Len(wire[a])
      BY <1>1, <2>1
    <3>2. Head(wire[a]).type = "result" => Head(wire[a]).how \in Outcomes
      BY <3>1 DEF LimitInv, ResultsAreHonest
    <3> QED
      BY <1>4, <3>2 DEF MessageArrives, Finish
  <2>6. /\ \A b \in Agents : b # a => wire'[b] = wire[b] /\ work'[b] = work[b]
        /\ \A b \in Agents : work[b].pc # "new" => work'[b].pc # "new"
    BY <1>1, <2>1 DEF Attempt
  <2> QED
    BY <1>1, <2>1, <2>3, <2>4, <2>5, <2>6, SignalKept
       DEF SignalInv, OwnSignal, Cut, Outcomes, Failures
<1>5. CASE ExitHeard(a) \/ ChildDies(a) \/ SignalAborts(a)
  <2>1. /\ call' = call /\ aborted' \subseteq aborted \cup {a}
        /\ \/ UNCHANGED <<work, settled, wire>>
           \/ /\ work' = [work EXCEPT ![a].pc = "dead"]
              /\ \/ UNCHANGED <<settled, wire>>
                 \/ /\ wire' = [wire EXCEPT ![a] = <<>>]
                    /\ \E x \in Outcomes : settled' = [settled EXCEPT ![a] = x]
    BY <1>5 DEF ExitHeard, ChildDies, SignalAborts, Finish, Outcomes, Failures
  <2>2. /\ \A b \in Agents : b # a => work'[b] = work[b]
        /\ \A b \in Agents : work[b].pc # "new" => work'[b].pc # "new"
        /\ \A b \in Agents : settled[b] # "no" => settled'[b] # "no"
        /\ \A b \in Agents : wire'[b] # <<>> => wire[b] # <<>>
    <3>1. ASSUME work' = [work EXCEPT ![a].pc = "dead"]
          PROVE  /\ \A b \in Agents : b # a => work'[b] = work[b]
                 /\ \A b \in Agents : work[b].pc # "new" => work'[b].pc # "new"
      BY <1>1, <3>1 DEF Attempt
    <3>2. ASSUME NEW x \in Outcomes, settled' = [settled EXCEPT ![a] = x]
          PROVE  \A b \in Agents : settled[b] # "no" => settled'[b] # "no"
      BY <1>1, <3>2 DEF Outcomes, Failures
    <3>3. wire' = [wire EXCEPT ![a] = <<>>] =>
             \A b \in Agents : wire'[b] # <<>> => wire[b] # <<>>
      BY <1>1
    <3> QED
      BY <2>1, <3>1, <3>2, <3>3
  <2>3. \A b \in Agents : b \in aborted' =>
               \/ ~isolated \/ settled'[b] # "no" \/ work'[b].pc = "new"
               \/ b \in aborted /\ work[b].pc # "new"
    <3>1. CASE SignalAborts(a)
      BY <1>1, <3>1 DEF SignalAborts, Finish, SignalInv, OwnSignal, Cut, Outcomes, Failures
    <3>2. CASE ExitHeard(a) \/ ChildDies(a)
      BY <1>1, <3>2 DEF ExitHeard, ChildDies, Finish, SignalInv, OwnSignal, Cut,
         Attempt, Outcomes, Failures
    <3> QED
      BY <1>5, <3>1, <3>2
  <2> QED
    BY <1>1, <2>1, <2>2, <2>3, SignalKept DEF SignalInv
<1> QED
  BY <1>2, <1>3, <1>4, <1>5

(* An isolated agent whose signal was aborted has settled or not begun,    *)
(* and only calls of isolated agents that have begun reach the broker      *)
(* (process-agent.ts, inherited-tool-host.ts).                             *)
THEOREM SignalInvariant == Spec => [](LimitInv /\ SignalInv)
<1>1. Init => SignalInv
  BY DEF Init, SignalInv, OwnSignal, Calls
<1>2. LimitInv /\ SignalInv /\ [Next]_vars => SignalInv'
  <2> SUFFICES ASSUME LimitInv, SignalInv, [Next]_vars PROVE SignalInv'
    OBVIOUS
  <2>1. CASE UNCHANGED vars
    BY <2>1 DEF vars, SignalInv, OwnSignal, Cut
  <2>2. CASE Next
    BY <2>2, CallSignal, RequestSignal, AgentSignal DEF Next, LineStep, AgentStep
  <2> QED
    BY <2>1, <2>2
<1> QED
  BY <1>1, <1>2, LimitInvariant, PTL DEF Spec

(* A call whose agent has settled, or was aborted, gets no dialog, and     *)
(* runs only if the policy itself lets it.                                 *)
LEMMA CallsStop ==
    ASSUME LimitInv, SignalInv, [Next]_vars, NEW a \in Agents, Cut(a) \/ a \in aborted,
           NEW n \in CallIds
    PROVE  /\ call'[<<a, n>>] = "dialog" => call[<<a, n>>] = "dialog"
           /\ call'[<<a, n>>] = "running" => call[<<a, n>>] \in {"running", "policy"}
<1>1. <<a, n>> \in Calls /\ \A b, m : <<b, m>> = <<a, n>> => b = a /\ m = n
  BY DEF Calls
<1>2. Cut(a) \/ call[<<a, n>>] = "none"
  BY DEF SignalInv, OwnSignal
<1>3. ASSUME NEW b \in Agents, NEW m \in CallIds, NEW from, NEW to, Move(b, m, from, to),
             to = "dialog" => ~Cut(b),
             to = "running" => ~Cut(b) \/ from = "policy",
             from # "none"
      PROVE  /\ call'[<<a, n>>] = "dialog" => call[<<a, n>>] = "dialog"
             /\ call'[<<a, n>>] = "running" => call[<<a, n>>] \in {"running", "policy"}
  <2>1. CASE <<b, m>> = <<a, n>>
    BY <1>1, <1>2, <1>3, <2>1 DEF Move, SignalInv
  <2>2. CASE <<b, m>> # <<a, n>>
    BY <1>1, <1>3, <2>2 DEF Move, SignalInv
  <2> QED
    BY <2>1, <2>2
<1>4. ASSUME NEW b \in Agents, NEW m \in CallIds, PolicySays(b, m)
      PROVE  /\ call'[<<a, n>>] = "dialog" => call[<<a, n>>] = "dialog"
             /\ call'[<<a, n>>] = "running" => call[<<a, n>>] \in {"running", "policy"}
  <2>1. PICK said \in Policies : Move(b, m, "policy", CASE said = "allow" -> "running"
                                   [] said = "deny" -> "answered"
                                   [] OTHER -> "queued")
    BY <1>4 DEF PolicySays
  <2> QED
    BY <1>3, <2>1
<1>5. ASSUME NEW b \in Agents, NEW m \in CallIds,
             \/ DialogTurn(b, m) \/ DialogCloses(b, m) \/ UserAnswers(b, m) \/ ToolEnds(b, m)
      PROVE  /\ call'[<<a, n>>] = "dialog" => call[<<a, n>>] = "dialog"
             /\ call'[<<a, n>>] = "running" => call[<<a, n>>] \in {"running", "policy"}
  <2>1. CASE DialogTurn(b, m)
    BY <1>3, <2>1 DEF DialogTurn, Wanted
  <2>2. CASE DialogCloses(b, m) \/ ToolEnds(b, m)
    BY <1>3, <2>2 DEF DialogCloses, ToolEnds
  <2>3. CASE UserAnswers(b, m)
    BY <1>3, <2>3 DEF UserAnswers
  <2> QED
    BY <1>5, <2>1, <2>2, <2>3
<1>6. ASSUME \/ UNCHANGED call
             \/ \E b, m : \E to \in {"sent", "policy"} : call' = [call EXCEPT ![<<b, m>>] = to]
      PROVE  /\ call'[<<a, n>>] = "dialog" => call[<<a, n>>] = "dialog"
             /\ call'[<<a, n>>] = "running" => call[<<a, n>>] \in {"running", "policy"}
  BY <1>1, <1>6 DEF SignalInv
<1>7. ASSUME NEW b \in Agents,
             \/ AgentStarts(b) \/ TurnEnds(b) \/ SessionFails(b) \/ ChildDies(b)
             \/ MessageArrives(b) \/ ExitHeard(b) \/ SignalAborts(b)
             \/ \E m \in CallIds : ToolCalled(b, m)
      PROVE  \/ UNCHANGED call
             \/ \E c, m : \E to \in {"sent", "policy"} : call' = [call EXCEPT ![<<c, m>>] = to]
  <2>1. CASE MessageArrives(b)
    BY <2>1 DEF MessageArrives
  <2>2. CASE \E m \in CallIds : ToolCalled(b, m)
    BY <2>2 DEF ToolCalled, Move
  <2>3. ASSUME ~MessageArrives(b), ~\E m \in CallIds : ToolCalled(b, m)
        PROVE  UNCHANGED call
    BY <1>7, <2>3 DEF AgentStarts, TurnEnds, SessionFails, ChildDies, ExitHeard, SignalAborts
  <2> QED
    BY <2>1, <2>2, <2>3
<1>8. CASE UNCHANGED vars
  BY <1>6, <1>8 DEF vars
<1> QED
  BY <1>4, <1>5, <1>6, <1>7, <1>8 DEF Next, LineStep, AgentStep

(* A session whose agent has settled, or was aborted, begins no repair.    *)
LEMMA RepairsStop ==
    ASSUME LimitInv, SignalInv, [Next]_vars, NEW a \in Agents, Cut(a) \/ a \in aborted
    PROVE  work'[a].left = work[a].left
<1>1. AttemptType /\ work \in [Agents -> Attempt] /\ work[a] \in Attempt
  BY DEF LimitInv, AttemptType
<1>2. Cut(a) \/ ~isolated \/ work[a].pc = "new"
  BY DEF SignalInv, OwnSignal
<1>3. ASSUME NEW b \in Agents, NEW pc, work' = [work EXCEPT ![b].pc = pc]
      PROVE  work'[a].left = work[a].left
  <2>1. CASE b = a
    BY <1>1, <1>3, <2>1 DEF Attempt
  <2>2. CASE b # a
    BY <1>1, <1>3, <2>2
  <2> QED
    BY <2>1, <2>2
<1>4. ASSUME UNCHANGED work PROVE work'[a].left = work[a].left
  BY <1>4
<1>5. ASSUME NEW b \in Agents, TurnEnds(b)
      PROVE  work'[a].left = work[a].left
  <2>1. CASE b # a
    BY <1>1, <1>5, <2>1 DEF TurnEnds
  <2>2. CASE b = a
    <3>1. InTurn(a) /\ settled[a] = "no"
      BY <1>5, <2>2 DEF TurnEnds, LimitInv, SettledIsHonest
    <3>2. ~isolated /\ a \in aborted
      BY <1>2, <3>1 DEF InTurn, Cut
    <3>3. PICK text \in Texts, limit \in BOOLEAN, structured \in BOOLEAN :
             LET w == Turn(a, text, limit, structured)
             IN  IF HostGoesOn(a, w) = "repair"
                 THEN work' = [work EXCEPT ![a] = [w EXCEPT !.pc = "repair", !.left = @ - 1]]
                 ELSE work' = [work EXCEPT ![a] = [w EXCEPT !.pc = "over"]]
      BY ZenonT(60), <1>5, <2>2, <3>2 DEF TurnEnds
    <3> DEFINE w == Turn(a, text, limit, structured)
    <3>4. w \in Attempt /\ w.pc = work[a].pc /\ w.left = work[a].left
      BY <1>1, TurnType
    <3> HIDE DEF w
    <3>5. HostGoesOn(a, w) # "repair"
      BY <3>1, <3>2, <3>4 DEF HostGoesOn, Answer, InTurn
    <3>6. work' = [work EXCEPT ![a] = [w EXCEPT !.pc = "over"]]
      BY <3>3, <3>5 DEF w
    <3> QED
      BY <1>1, <3>4, <3>6 DEF Attempt
  <2> QED
    BY <2>1, <2>2
<1>6. ASSUME NEW b \in Agents,
             \/ AgentStarts(b) \/ SessionFails(b) \/ ChildDies(b)
             \/ MessageArrives(b) \/ ExitHeard(b) \/ SignalAborts(b)
      PROVE  UNCHANGED work \/ \E pc : work' = [work EXCEPT ![b].pc = pc]
  <2>1. CASE AgentStarts(b)
    BY <2>1 DEF AgentStarts
  <2>2. CASE SessionFails(b) \/ ChildDies(b)
    BY <2>2 DEF SessionFails, ChildDies
  <2>3. CASE MessageArrives(b) \/ ExitHeard(b) \/ SignalAborts(b)
    BY <2>3 DEF MessageArrives, ExitHeard, SignalAborts, Finish
  <2> QED
    BY <1>6, <2>1, <2>2, <2>3
<1>7. ASSUME NEW b \in Agents, NEW m \in CallIds,
             \/ PolicySays(b, m) \/ ToolEnds(b, m) \/ UserAnswers(b, m)
             \/ DialogTurn(b, m) \/ DialogCloses(b, m) \/ ToolCalled(b, m)
      PROVE  UNCHANGED work
  BY <1>7 DEF PolicySays, ToolEnds, UserAnswers, DialogTurn, DialogCloses, ToolCalled
<1>8. CASE UNCHANGED vars
  BY <1>4, <1>8 DEF vars
<1> QED
  BY <1>3, <1>4, <1>5, <1>6, <1>7, <1>8 DEF Next, LineStep, AgentStep

(* Once an agent has settled, or its signal was aborted, no dialog opens   *)
(* for it, no tool it asked about starts, and no repair turn begins.       *)
THEOREM SignalsAreHeeded == Spec => StopsWithSignal
<1> DEFINE Heeded ==
      \A a \in Agents : Cut(a) \/ a \in aborted =>
         /\ \A n \in CallIds : /\ call'[<<a, n>>] = "dialog" => call[<<a, n>>] = "dialog"
                               /\ call'[<<a, n>>] = "running" => call[<<a, n>>] \in {"running", "policy"}
         /\ work'[a].left = work[a].left
<1>1. LimitInv /\ SignalInv /\ [Next]_vars => Heeded
  BY CallsStop, RepairsStop
<1>2. Spec => [][Heeded]_vars
  BY <1>1, SignalInvariant, PTL DEF Spec
<1> QED
  BY <1>2 DEF StopsWithSignal
=============================================================================
