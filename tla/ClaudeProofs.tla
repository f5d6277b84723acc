---------------------------- MODULE ClaudeProofs ----------------------------
(***************************************************************************)
(* What is proved of ClaudeFleet and ClaudeTurn.                           *)
(*                                                                         *)
(* The session of ClaudeFleet, for any deadline and any number of          *)
(* requests, surfaces, Claudes and events, whatever cmux, the task, the    *)
(* passes and the stop command do meanwhile: no approval counts after the  *)
(* deadline of its request, and a terminated session leaves no Claude.     *)
(*                                                                         *)
(* The event tail of ClaudeTurn, for every number of prompts, boots and    *)
(* lost connections: its history belongs to one epoch and lies below the   *)
(* fence the next prompt would take; and the first prompt of a session:    *)
(* what it returns is all that Claude wrote for it.                        *)
(***************************************************************************)
EXTENDS ClaudeFleet, MCTurn, TLAPS

USE BoundsAssumption

-----------------------------------------------------------------------------
(* The permission broker.                                                  *)
Request == [age : Nat, handled : BOOLEAN, replies : Nat, late : BOOLEAN]

(* The parts of the broker's state that keep the time.                     *)
BrokerType ==
    /\ asked \in [Requests -> Request]
    /\ desk.queue \in Seq(Requests)
    /\ desk.timer \in Nat
    /\ DOMAIN desk = DOMAIN FreeDesk

(* The timer of the decision runs out no later than the request's deadline. *)
InTime == desk.pc = "deciding" =>
            desk.cur \in Requests /\ asked[desk.cur].age + desk.timer <= Deadline

(* A request in hand is a request.                                         *)
InHand == desk.pc # "idle" => desk.cur \in Requests

BrokerInv == BrokerType /\ InHand /\ InTime /\ NoLateAllow

-----------------------------------------------------------------------------
(* The initial state, and the state after a crash of pi.                   *)
LEMMA BrokerInit == Init => BrokerInv
BY DEF Init, BrokerInv, BrokerType, InHand, InTime, NoLateAllow, Request, FreeDesk

(* No step but the broker's own and a crash touches the broker's state.    *)
Elsewhere == UNCHANGED <<desk, asked>>

LEMMA BrokerElsewhere == BrokerInv /\ Elsewhere => BrokerInv'
BY DEF BrokerInv, BrokerType, InHand, InTime, NoLateAllow, Elsewhere

(* A request arrives, for the first time or again.                         *)
LEMMA BrokerAsks == BrokerInv /\ (Asks \/ AsksAgain) => BrokerInv'
<1> SUFFICES ASSUME BrokerInv, NEW q \in Requests, asked' = asked,
                    desk' = [desk EXCEPT !.queue = Append(@, q)]
             PROVE  BrokerInv'
  BY DEF Asks, AsksAgain
<1>1. /\ desk'.queue = Append(desk.queue, q)
      /\ desk'.pc = desk.pc /\ desk'.cur = desk.cur /\ desk'.timer = desk.timer
      /\ DOMAIN desk' = DOMAIN desk
  BY DEF BrokerInv, BrokerType, FreeDesk
<1>2. Append(desk.queue, q) \in Seq(Requests)
  BY DEF BrokerInv, BrokerType
<1> QED
  BY <1>1, <1>2 DEF BrokerInv, BrokerType, InHand, InTime, NoLateAllow

(* The next request is dropped, denied at once, or put to the user with    *)
(* what is left of its deadline.                                           *)
LEMMA BrokerTakes == BrokerInv /\ DeskTakes => BrokerInv'
<1> SUFFICES ASSUME BrokerInv, DeskTakes PROVE BrokerInv'
  OBVIOUS
<1> DEFINE q == Head(desk.queue)
<1>1. q \in Requests /\ Tail(desk.queue) \in Seq(Requests) /\ desk.pc = "idle"
  BY DEF DeskTakes, BrokerInv, BrokerType
<1>2. CASE ~New(q)
  <2>1. desk' = [desk EXCEPT !.queue = Tail(@)] /\ asked' = asked
    BY <1>2 DEF DeskTakes
  <2>2. /\ desk'.queue = Tail(desk.queue) /\ desk'.pc = desk.pc
        /\ desk'.timer = desk.timer /\ DOMAIN desk' = DOMAIN desk
    BY <2>1 DEF BrokerInv, BrokerType, FreeDesk
  <2> QED
    BY <1>1, <2>1, <2>2 DEF BrokerInv, BrokerType, InHand, InTime, NoLateAllow
<1>3. CASE New(q)
  <2>1. asked' = [asked EXCEPT ![q].handled = TRUE]
    BY <1>3 DEF DeskTakes
  <2>2. /\ asked' \in [Requests -> Request]
        /\ \A r \in Requests : asked'[r].age = asked[r].age /\ asked'[r].late = asked[r].late
    BY <1>1, <2>1 DEF BrokerInv, BrokerType, Request
  <2>3. CASE decider /\ Remaining(q) > 0
    <3>1. desk' = [desk EXCEPT !.queue = Tail(@), !.cur = q, !.prev = run.st,
                               !.pc = "deciding", !.timer = Remaining(q)]
      BY <1>3, <2>3 DEF DeskTakes
    <3>2. /\ desk'.queue = Tail(desk.queue) /\ desk'.cur = q
          /\ desk'.timer = Remaining(q) /\ DOMAIN desk' = DOMAIN desk
      BY <3>1 DEF BrokerInv, BrokerType, FreeDesk
    <3>3. Remaining(q) \in Nat /\ asked[q].age + Remaining(q) <= Deadline
      BY <1>1, <2>3 DEF Remaining, BrokerInv, BrokerType, Request
    <3> QED
      BY <1>1, <2>2, <3>2, <3>3 DEF BrokerInv, BrokerType, InHand, InTime, NoLateAllow
  <2>4. CASE ~(decider /\ Remaining(q) > 0)
    <3>1. desk' = [desk EXCEPT !.queue = Tail(@), !.cur = q, !.prev = run.st,
                               !.pc = "delivering", !.say = "deny"]
      BY <1>3, <2>4 DEF DeskTakes
    <3>2. /\ desk'.queue = Tail(desk.queue) /\ desk'.cur = q /\ desk'.pc = "delivering"
          /\ desk'.timer = desk.timer /\ DOMAIN desk' = DOMAIN desk
      BY <3>1 DEF BrokerInv, BrokerType, FreeDesk
    <3> QED
      BY <1>1, <2>2, <3>2 DEF BrokerInv, BrokerType, InHand, InTime, NoLateAllow
  <2> QED
    BY <2>3, <2>4
<1> QED
  BY <1>2, <1>3

(* The user's answer counts only while the timer runs, so in time; the     *)
(* timer's own answer is a refusal.                                        *)
LEMMA BrokerDecides == BrokerInv /\ (DeskDecides \/ DeskTimesOut) => BrokerInv'
<1> SUFFICES ASSUME BrokerInv, NEW say, Decided(say), desk.timer > 0 \/ say = "deny"
             PROVE  BrokerInv'
  BY DEF DeskDecides, DeskTimesOut
<1> DEFINE q == desk.cur
           late == say = "allow" /\ asked[q].age > Deadline
<1>1. q \in Requests /\ asked[q].age + desk.timer <= Deadline
  BY DEF Decided, BrokerInv, InTime
<1>2. ~late
  BY <1>1 DEF BrokerInv, BrokerType, Request
<1>3. asked' = [asked EXCEPT ![q].late = FALSE]
  BY <1>2, Zenon DEF Decided
<1>4. /\ asked' \in [Requests -> Request]
      /\ \A r \in Requests : ~asked'[r].late
  BY <1>1, <1>3 DEF BrokerInv, BrokerType, Request, NoLateAllow
<1>5. desk' = [desk EXCEPT !.pc = "delivering", !.say = say]
  BY DEF Decided
<1>6. /\ desk'.queue = desk.queue /\ desk'.cur = q /\ desk'.pc = "delivering"
      /\ desk'.timer = desk.timer /\ DOMAIN desk' = DOMAIN desk
  BY <1>5 DEF BrokerInv, BrokerType, FreeDesk
<1> QED
  BY <1>1, <1>4, <1>6 DEF BrokerInv, BrokerType, InHand, InTime, NoLateAllow

(* The answer is delivered, and the session's state is put back.           *)
LEMMA BrokerReplies == BrokerInv /\ (DeskDelivers \/ DeskRestores) => BrokerInv'
<1> SUFFICES ASSUME BrokerInv, DeskDelivers \/ DeskRestores PROVE BrokerInv'
  OBVIOUS
<1>1. desk.cur \in Requests
  BY DEF DeskDelivers, DeskRestores, BrokerInv, InHand
<1>2. CASE DeskDelivers
  <2>1. asked' = [asked EXCEPT ![desk.cur].replies = @ + 1]
    BY <1>2 DEF DeskDelivers
  <2>2. ASSUME NEW r \in Requests
        PROVE  asked'[r] \in Request /\ asked'[r].late = asked[r].late
    <3>1. asked[r] \in Request
      BY DEF BrokerInv, BrokerType
    <3>2. asked'[r] = IF r = desk.cur THEN [asked[r] EXCEPT !.replies = @ + 1]
                      ELSE asked[r]
      BY <1>1, <2>1 DEF BrokerInv, BrokerType
    <3> QED
      BY <3>1, <3>2 DEF Request
  <2>3. asked' \in [Requests -> Request]
    BY <2>1, <2>2 DEF BrokerInv, BrokerType
  <2>4. /\ desk'.queue = desk.queue /\ desk'.cur = desk.cur /\ desk'.pc = "restoring"
        /\ desk'.timer = desk.timer /\ DOMAIN desk' = DOMAIN desk
    BY <1>2 DEF DeskDelivers, BrokerInv, BrokerType, FreeDesk
  <2> QED
    BY <1>1, <2>2, <2>3, <2>4 DEF BrokerInv, BrokerType, InHand, InTime, NoLateAllow
<1>3. CASE DeskRestores
  <2>1. asked' = [asked EXCEPT ![desk.cur].age = 0]
    BY <1>3 DEF DeskRestores
  <2>2. /\ asked' \in [Requests -> Request]
        /\ \A r \in Requests : asked'[r].late = asked[r].late
    BY <1>1, <2>1 DEF BrokerInv, BrokerType, Request
  <2>3. /\ desk'.queue = desk.queue /\ desk'.pc = "idle"
        /\ desk'.timer = 0 /\ DOMAIN desk' = DOMAIN FreeDesk
    BY <1>3 DEF DeskRestores, FreeDesk
  <2> QED
    BY <2>2, <2>3 DEF BrokerInv, BrokerType, InHand, InTime, NoLateAllow
<1> QED
  BY <1>2, <1>3

(* While a request is decided on, its age and its timer move together.     *)
LEMMA BrokerTicks == BrokerInv /\ Tick => BrokerInv'
<1> SUFFICES ASSUME BrokerInv, Tick PROVE BrokerInv'
  OBVIOUS
<1>1. asked' = [q \in Requests |-> IF q \in Open /\ asked[q].age <= Deadline
                                   THEN [asked[q] EXCEPT !.age = @ + 1] ELSE asked[q]]
  BY DEF Tick
<1>2. ASSUME NEW r \in Requests
      PROVE  /\ asked'[r] \in Request
             /\ asked'[r].late = asked[r].late
             /\ asked'[r].age <= asked[r].age + 1
  <2>1. asked[r] \in Request
    BY DEF BrokerInv, BrokerType
  <2>2. CASE r \in Open /\ asked[r].age <= Deadline
    <3>1. asked'[r] = [asked[r] EXCEPT !.age = @ + 1]
      BY <1>1, <2>2
    <3> QED
      BY <2>1, <3>1 DEF Request
  <2>3. CASE ~(r \in Open /\ asked[r].age <= Deadline)
    BY <1>1, <2>1, <2>3 DEF Request
  <2> QED
    BY <2>2, <2>3
<1>3. asked' \in [Requests -> Request]
  BY <1>1, <1>2
<1>4. /\ desk'.queue = desk.queue /\ desk'.cur = desk.cur /\ desk'.pc = desk.pc
      /\ DOMAIN desk' = DOMAIN desk
      /\ desk'.timer = IF desk.pc = "deciding" THEN desk.timer - 1 ELSE desk.timer
  BY DEF Tick, BrokerInv, BrokerType, FreeDesk
<1>5. desk.pc = "deciding" => desk.timer > 0
  BY DEF Tick
<1>6. InTime'
  BY <1>2, <1>3, <1>4, <1>5 DEF BrokerInv, BrokerType, Request, InTime
<1> QED
  BY <1>2, <1>3, <1>4, <1>5, <1>6 DEF BrokerInv, BrokerType, InHand, NoLateAllow

(* pi dies: the queue is gone, and so is what had been handled.            *)
LEMMA BrokerCrash == BrokerInv /\ Crash => BrokerInv'
<1> SUFFICES ASSUME BrokerInv, Crash PROVE BrokerInv'
  OBVIOUS
<1>1. /\ asked' \in [Requests -> Request]
      /\ \A r \in Requests : asked'[r].late = asked[r].late
  BY DEF Crash, BrokerInv, BrokerType, Request
<1>2. desk' = FreeDesk
  BY DEF Crash
<1> QED
  BY <1>1, <1>2 DEF BrokerInv, BrokerType, InHand, InTime, NoLateAllow, FreeDesk

-----------------------------------------------------------------------------
(* The invariant of the broker is inductive under every step of the fleet. *)
LEMMA BrokerStep == BrokerInv /\ [Next]_vars => BrokerInv'
<1> SUFFICES ASSUME BrokerInv, [Next]_vars PROVE BrokerInv'
  OBVIOUS
<1>1. CASE ClaudeRegisters \/ CmuxRestarts \/ CmuxRestores \/ StreamAcks \/ UserCloses
  BY <1>1, BrokerElsewhere
     DEF ClaudeRegisters, CmuxRestarts, CmuxRestores, StreamAcks, UserCloses, Elsewhere
<1>2. CASE RunTask \/ TaskStep \/ TrustAsked \/ TaskFails
  BY <1>2, BrokerElsewhere
     DEF RunTask, TaskStep, TrustAsked, TaskFails, LaunchBegins, WorkspaceMade,
         WorkspaceFound, TrustGiven, SessionRegisters, PromptSent, PromptAccepted,
         TurnCompletes, TurnRecovered, TaskTerminates, TaskEnds, Elsewhere
<1>3. CASE StopCommand \/ \E c \in Callers : TermStep(c)
  BY <1>3, BrokerElsewhere
     DEF StopCommand, TermStep, ClosesWorkspace, KillsClaude, Terminated, Elsewhere
<1>4. CASE TimerFires \/ RecoverCommand \/ Start
  BY <1>4, BrokerElsewhere DEF TimerFires, RecoverCommand, Start, Elsewhere
<1>5. CASE PassStep \/ PassReadFails \/ ResumeFails
  BY <1>5, BrokerElsewhere
     DEF PassStep, PassReadFails, ResumeFails, PassReads, PassVisits, PassRebinds, PassGivesUp,
         PassResumes, ResumeMade, ResumeFound, ResumeRegisters, PassSweeps, PassKills,
         PassPersists, Elsewhere
<1>6. CASE Asks \/ AsksAgain \/ DeskStep \/ DeskDecides
  BY <1>6, BrokerAsks, BrokerTakes, BrokerDecides, BrokerReplies DEF DeskStep
<1>7. CASE Tick
  BY <1>7, BrokerTicks
<1>8. CASE Crash
  BY <1>8, BrokerCrash
<1>9. CASE UNCHANGED vars
  BY <1>9, BrokerElsewhere DEF vars, Elsewhere
<1> QED
  BY <1>1, <1>2, <1>3, <1>4, <1>5, <1>6, <1>7, <1>8, <1>9 DEF Next

(* No approval is delivered for a request whose deadline has passed,       *)
(* however long it waited behind others (permission-broker.ts:81).         *)
THEOREM ApprovalsAreInTime == Spec => []NoLateAllow
<1>1. Spec => []BrokerInv
  BY BrokerInit, BrokerStep, PTL DEF Spec
<1>2. BrokerInv => NoLateAllow
  BY DEF BrokerInv
<1> QED
  BY <1>1, <1>2, PTL

-----------------------------------------------------------------------------
(* The end of a session.  EndsClean speaks of a session that was           *)
(* terminated while nothing overlapped; the invariant says, as long as     *)
(* nothing did, where a Claude of the session can be at any time: there is *)
(* one at most, the last that was born, and it is in the bound surface, in *)
(* the one being made, or in one that was lost.                            *)

Record == [surf : Nat, pid : Nat]
PassState == {"idle", "snap", "visit", "alive", "creating", "created",
              "registering", "sweep", "kill", "persist"}

FleetType ==
    /\ run \in [st : SessionState, sid : BOOLEAN, surf : Nat, pid : Nat, attempts : Nat,
                keepOpen : BOOLEAN]
    /\ task \in [pc : TaskState, got : Nat]
    /\ term \in [Callers -> {"off", "exit", "kill", "end", "done"}]
    /\ pass \in [pc : PassState, again : BOOLEAN, surfs : SUBSET Nat, known : Record,
                 got : Nat, strays : SUBSET Pids]
    /\ desk.prev \in SessionState
    /\ cmux \in [surfs : SUBSET Nat, made : Nat, born : Nat, home : [Pids -> Nat],
                 rec : Record, lost : SUBSET Nat, restore : SUBSET Nat]

Nobody == \A p \in Pids : cmux.home[p] = 0

(* Surfaces and Claudes are numbered as they are made, and the hook store  *)
(* knows where the Claude it knows of is.                                  *)
Numbered ==
    /\ \A p \in Pids : cmux.home[p] <= cmux.made
    /\ \A s \in cmux.restore : s \in 1 .. cmux.made
    /\ cmux.rec.pid <= cmux.born /\ cmux.rec.surf <= cmux.made
    /\ cmux.rec.pid = 0 => cmux.rec.surf = 0
    /\ \A p \in Pids : p = cmux.rec.pid /\ cmux.home[p] # 0 => cmux.home[p] = cmux.rec.surf
    /\ run.sid => cmux.rec.pid # 0

(* One Claude lives at most, and none while cmux has one to restore.       *)
Alone ==
    /\ \A p \in Pids : cmux.home[p] # 0 => p = cmux.born
    /\ \A s, t \in cmux.restore : s = t
    /\ cmux.restore # {} => Nobody

(* Where it may live, or come back to.                                     *)
Place(s) == \/ s \in cmux.lost
            \/ s = run.surf
            \/ task.pc = "created" /\ s = task.got
            \/ pass.pc = "created" /\ s = pass.got
Placed == /\ \A p \in Pids : cmux.home[p] # 0 => Place(cmux.home[p])
          /\ \A s \in cmux.restore : Place(s)

(* The task is the first to make anything, and a pass or a stop meanwhile  *)
(* would overlap.                                                          *)
TaskOwns ==
    /\ task.pc = "none" => run.st = "none" /\ ~PassActive /\ ~TermActive("stop")
    /\ task.pc \in {"none", "begun", "creating"} =>
          cmux.made = 0 /\ cmux.born = 0 /\ cmux.surfs = {} /\ run.surf = 0
    /\ task.pc \in {"none"} \cup Launching => ~run.sid /\ run.st # "terminated"
    /\ task.pc \in {"created", "registering", "trust"} => task.got = 1
    /\ task.pc \in Prompting => cmux.rec.surf = 1
    /\ TaskActive => cmux.made <= 1 /\ ~PassActive /\ ~TermActive("stop")

(* A pass that resumes the session has found no Claude alive.              *)
Over == \/ run.st = "terminated"
        \/ run.st = "permission-pending" /\ desk.pc # "idle" /\ desk.prev = "terminated"
Resuming == pass.pc \in {"creating", "created", "registering"}
PassOwns ==
    /\ PassActive => cmux.restore = {}
    /\ pass.pc \in {"visit", "alive"} =>
          /\ pass.known.pid <= cmux.rec.pid
          /\ \A p \in Pids : p = pass.known.pid /\ cmux.home[p] # 0
                             => cmux.home[p] = pass.known.surf
          /\ run.sid => /\ pass.known.pid # 0
                        /\ \A p \in Pids : cmux.home[p] # 0 => p = pass.known.pid
    /\ pass.pc = "creating" => Nobody
    /\ pass.pc = "created" => \A p \in Pids : cmux.home[p] # 0 => cmux.home[p] = pass.got
    /\ pass.pc = "registering" => run.surf = pass.got
    /\ Resuming => run.sid /\ ~Over

(* What terminate() has closed stays closed.                               *)
Clean == /\ \A p \in Pids : cmux.home[p] # 0 => cmux.home[p] \in cmux.lost
         /\ cmux.restore \subseteq cmux.lost
EndOwns ==
    /\ TermActive("task") => task.pc = "ending"
    /\ TermActive("stop") => ~PassActive
    /\ \A c \in Callers : term[c] \in {"kill", "end"} => Clean
    /\ desk.pc # "idle" => run.sid
    /\ ~up => desk.pc = "idle" /\ desk.queue = <<>> /\ pass.pc = "idle"
    /\ Over => Clean

EndParts == Numbered /\ Alone /\ Placed /\ TaskOwns /\ PassOwns /\ EndOwns
EndInv == raced = {} => EndParts

-----------------------------------------------------------------------------
(* Types.                                                                  *)

Sessions == [st : SessionState, sid : BOOLEAN, surf : Nat, pid : Nat, attempts : Nat,
             keepOpen : BOOLEAN]
Machine == [surfs : SUBSET Nat, made : Nat, born : Nat, home : [Pids -> Nat],
            rec : Record, lost : SUBSET Nat, restore : SUBSET Nat]
Passes == [pc : PassState, again : BOOLEAN, surfs : SUBSET Nat, known : Record,
           got : Nat, strays : SUBSET Pids]

(* A state, or a record of the hook store, enters the session.             *)
LEMMA InType ==
    ASSUME FleetType
    PROVE  /\ \A st \in SessionState :
                 In(st) \in Sessions /\ In(st) = [run EXCEPT !.st = st]
                 /\ In(st).st = st /\ In(st).sid = run.sid /\ In(st).surf = run.surf
                 /\ In(st).pid = run.pid
           /\ \A st \in SessionState : \A rec \in Record :
                 Bound(rec, st) \in Sessions /\ Bound(rec, st).st = st
                 /\ Bound(rec, st).sid = TRUE /\ Bound(rec, st).surf = rec.surf
<1>1. run \in Sessions
  BY DEF FleetType, Sessions
<1> QED
  BY <1>1 DEF In, Bound, Sessions, Record

(* A workspace is made, or a surface closed.                               *)
LEMMA MakeType ==
    ASSUME FleetType, MakesWorkspace
    PROVE  /\ cmux' \in Machine
           /\ cmux'.made = cmux.made + 1 /\ cmux'.born = cmux.born + 1
           /\ cmux.born + 1 \in Pids /\ cmux'.home[cmux.born + 1] = cmux.made + 1
           /\ \A p \in Pids : p # cmux.born + 1 => cmux'.home[p] = cmux.home[p]
           /\ cmux'.restore = cmux.restore /\ cmux'.lost = cmux.lost /\ cmux'.rec = cmux.rec
<1>1. cmux \in Machine
  BY DEF FleetType, Machine
<1>2. /\ cmux.born < MaxPids /\ cmux.born + 1 \in Pids
      /\ cmux' = [cmux EXCEPT !.made = @ + 1, !.born = @ + 1, !.surfs = @ \cup {cmux.made + 1},
                            !.home[cmux.born + 1] = cmux.made + 1]
  BY <1>1 DEF MakesWorkspace, Machine, Pids
<1> DEFINE home == [cmux.home EXCEPT ![cmux.born + 1] = cmux.made + 1]
<1>3. /\ home \in [Pids -> Nat] /\ home[cmux.born + 1] = cmux.made + 1
      /\ \A p \in Pids : p # cmux.born + 1 => home[p] = cmux.home[p]
  BY <1>1, <1>2 DEF Machine
<1> DEFINE surfs == cmux.surfs \cup {cmux.made + 1}
           made  == cmux.made + 1
           born  == cmux.born + 1
           m     == [cmux EXCEPT !.made = made, !.born = born, !.surfs = surfs]
<1>4. /\ m \in Machine /\ m.home = cmux.home /\ m.made = cmux.made + 1
      /\ m.born = cmux.born + 1 /\ m.restore = cmux.restore /\ m.lost = cmux.lost
      /\ m.rec = cmux.rec
  <2>1. surfs \in SUBSET Nat /\ made \in Nat /\ born \in Nat
    BY <1>1 DEF Machine
  <2> HIDE DEF surfs, made, born
  <2>2. /\ m \in Machine /\ m.home = cmux.home /\ m.made = made
        /\ m.born = born /\ m.restore = cmux.restore /\ m.lost = cmux.lost
        /\ m.rec = cmux.rec
    BY <1>1, <2>1 DEF Machine
  <2> QED
    BY <2>2 DEF made, born
<1>5. cmux' = [m EXCEPT !.home[cmux.born + 1] = cmux.made + 1]
  BY <1>2
<1> HIDE DEF m
<1>6. cmux' = [m EXCEPT !.home = home]
  BY <1>4, <1>5 DEF Machine
<1> HIDE DEF home
<1> QED
  BY <1>2, <1>3, <1>4, <1>6 DEF Machine

Shrinks == /\ \A p \in Pids : cmux'.home[p] \in {0, cmux.home[p]}
           /\ cmux'.restore \subseteq cmux.restore /\ cmux'.surfs \subseteq cmux.surfs
           /\ cmux'.made = cmux.made /\ cmux'.born = cmux.born /\ cmux'.rec = cmux.rec
           /\ cmux.lost \subseteq cmux'.lost

(* A closed surface takes its Claude along; nothing else is changed.       *)
LEMMA WithoutType ==
    ASSUME FleetType, NEW s, cmux' = Without(s)
    PROVE  /\ cmux' \in Machine /\ Shrinks /\ cmux'.lost = cmux.lost
           /\ \A p \in Pids : cmux'.home[p] # s \/ s = 0
           /\ s \notin cmux'.restore
<1>1. cmux \in Machine
  BY DEF FleetType, Machine
<1> DEFINE home == [p \in Pids |-> IF cmux.home[p] = s THEN 0 ELSE cmux.home[p]]
<1>2. home \in [Pids -> Nat] /\ \A p \in Pids : home[p] \in {0, cmux.home[p]}
                                /\ (home[p] # s \/ s = 0)
  BY <1>1 DEF Machine
<1>3. cmux' = [cmux EXCEPT !.surfs = @ \ {s}, !.restore = @ \ {s}, !.home = home]
  BY <1>1 DEF Without, Machine
<1> HIDE DEF home
<1> QED
  BY <1>1, <1>2, <1>3 DEF Machine, Shrinks

(* A surface whose Claude has left stays, and pi has lost it.              *)
LEMMA DesertedType ==
    ASSUME FleetType, NEW s \in Nat, cmux' = Deserted(s)
    PROVE  cmux' \in Machine /\ Shrinks /\ s \in cmux'.lost
<1>1. cmux \in Machine
  BY DEF FleetType, Machine
<1> DEFINE home == [p \in Pids |-> IF cmux.home[p] = s THEN 0 ELSE cmux.home[p]]
           lost == cmux.lost \cup {s}
<1>2. home \in [Pids -> Nat] /\ \A p \in Pids : home[p] \in {0, cmux.home[p]}
  BY <1>1 DEF Machine
<1>3. lost \in SUBSET Nat /\ cmux.lost \subseteq lost /\ s \in lost
  BY <1>1 DEF Machine
<1>4. cmux' = [cmux EXCEPT !.lost = lost, !.home = home]
  BY <1>1 DEF Deserted, Machine
<1> HIDE DEF home, lost
<1>5. cmux' \in Machine /\ cmux'.home = home /\ cmux'.lost = lost
  BY <1>1, <1>2, <1>3, <1>4 DEF Machine
<1>6. UNCHANGED <<cmux.surfs, cmux.restore, cmux.made, cmux.born, cmux.rec>>
  BY <1>1, <1>4 DEF Machine
<1> QED
  BY <1>2, <1>3, <1>5, <1>6 DEF Shrinks

(* A Claude is killed.                                                     *)
LEMMA KilledType ==
    ASSUME FleetType, NEW p \in Pids, cmux' = Killed(p)
    PROVE  cmux' \in Machine /\ Shrinks /\ cmux'.lost = cmux.lost
<1>1. cmux \in Machine
  BY DEF FleetType, Machine
<1> DEFINE home == [cmux.home EXCEPT ![p] = 0]
<1>2. home \in [Pids -> Nat] /\ \A q \in Pids : home[q] \in {0, cmux.home[q]}
  BY <1>1 DEF Machine
<1>3. cmux' = [cmux EXCEPT !.home = home]
  BY <1>1 DEF Killed, Machine
<1> HIDE DEF home
<1> QED
  BY <1>1, <1>2, <1>3 DEF Machine, Shrinks

(* A surface is lost.                                                      *)
LEMMA LostType ==
    ASSUME FleetType, NEW S, S \in SUBSET Nat, cmux' = [cmux EXCEPT !.lost = @ \cup S]
    PROVE  cmux' \in Machine /\ Shrinks /\ cmux'.lost = cmux.lost \cup S
           /\ cmux'.home = cmux.home /\ cmux'.restore = cmux.restore
<1>1. cmux \in Machine
  BY DEF FleetType, Machine
<1> QED
  BY <1>1 DEF Machine, Shrinks

LEMMA LosesType ==
    ASSUME FleetType, cmux' \in {Lost(run.surf), Deserted(run.surf)}
    PROVE  cmux' \in Machine /\ Shrinks /\ run.surf \in cmux'.lost
<1>1. run.surf \in Nat
  BY DEF FleetType
<1>2. CASE cmux' = Lost(run.surf)
  <2>1. cmux' = [cmux EXCEPT !.lost = @ \cup {run.surf}] /\ {run.surf} \in SUBSET Nat
    BY <1>1, <1>2 DEF Lost
  <2>2. cmux' \in Machine /\ Shrinks /\ cmux'.lost = cmux.lost \cup {run.surf}
    BY <2>1, LostType
  <2> QED
    BY <2>2
<1>3. CASE cmux' = Deserted(run.surf)
  BY <1>1, <1>3, DesertedType
<1> QED
  BY <1>2, <1>3

(* The types of the variables, one by one.                                 *)
LEMMA FleetFold ==
    FleetType <=> /\ run \in Sessions /\ cmux \in Machine /\ pass \in Passes
                  /\ task \in [pc : TaskState, got : Nat]
                  /\ term \in [Callers -> {"off", "exit", "kill", "end", "done"}]
                  /\ desk.prev \in SessionState
BY DEF FleetType, Sessions, Machine, Passes

LEMMA FleetNext ==
    ASSUME run' \in Sessions, cmux' \in Machine, pass' \in Passes,
           task' \in [pc : TaskState, got : Nat],
           term' \in [Callers -> {"off", "exit", "kill", "end", "done"}],
           desk'.prev \in SessionState
    PROVE  FleetType'
BY DEF FleetType, Sessions, Machine, Passes

-----------------------------------------------------------------------------
(* What a step keeps that closes or kills, or leaves cmux alone.           *)

(* A surface and a record of the hook store are where they were.           *)
LEMMA Shrunk ==
    ASSUME FleetType, FleetType', EndParts, Shrinks, run'.sid => cmux.rec.pid # 0,
           \A s \in 1 .. cmux.made : Place(s) => Place(s)'
    PROVE  /\ Numbered' /\ Alone' /\ Placed'
           /\ Clean => Clean'
           /\ Nobody => Nobody'
<1>1. /\ cmux.home \in [Pids -> Nat] /\ cmux'.home \in [Pids -> Nat]
      /\ cmux.made \in Nat /\ cmux.born \in Nat
  BY DEF FleetType
<1>2. Numbered'
  BY <1>1 DEF EndParts, Numbered, Shrinks
<1>3. Nobody => Nobody'
  BY <1>1 DEF Nobody, Shrinks
<1>4. Alone'
  BY <1>1, <1>3 DEF EndParts, Alone, Shrinks
<1>5. Placed'
  <2>1. ASSUME NEW p \in Pids, NEW s, s = cmux'.home[p], s # 0
        PROVE  Place(s)'
    <3>1. cmux.home[p] = s /\ s \in 1 .. cmux.made
      BY <1>1, <2>1 DEF Shrinks, EndParts, Numbered
    <3> QED
      BY <2>1, <3>1 DEF EndParts, Placed
  <2>2. ASSUME NEW s \in cmux'.restore
        PROVE  Place(s)'
    <3>1. s \in cmux.restore /\ s \in 1 .. cmux.made
      BY <1>1 DEF EndParts, Numbered, Shrinks
    <3> QED
      BY <3>1 DEF EndParts, Placed
  <2> QED
    BY <2>1, <2>2 DEF Placed, Place
<1>6. Clean => Clean'
  BY <1>1 DEF Clean, Shrinks
<1> QED
  BY <1>2, <1>3, <1>4, <1>5, <1>6

(* A step that leaves cmux and the binding of the session alone, and no    *)
(* surface without an owner.                                               *)
Stays == /\ cmux' = cmux /\ run'.surf = run.surf /\ run'.sid = run.sid
         /\ task.pc = "created" => task'.pc = "created" /\ task'.got = task.got
         /\ pass.pc = "created" => pass'.pc = "created" /\ pass'.got = pass.got

LEMMA Stayed ==
    ASSUME FleetType, FleetType', EndParts, Stays
    PROVE  Numbered' /\ Alone' /\ Placed' /\ (Clean => Clean') /\ (Nobody => Nobody')
<1>1. Shrinks
  BY DEF Stays, Shrinks
<1>2. run'.sid => cmux.rec.pid # 0
  BY DEF Stays, EndParts, Numbered
<1>3. \A s \in 1 .. cmux.made : Place(s) => Place(s)'
  BY DEF Stays, Place
<1> QED
  BY <1>1, <1>2, <1>3, Shrunk

(* While the broker works, the session changes its state only from and to  *)
(* the one it had.                                                         *)
LEMMA BrokerFrame ==
    ASSUME BrokerInv, Asks \/ AsksAgain \/ DeskDecides \/ DeskTimesOut
                      \/ DeskDelivers \/ Tick
    PROVE  /\ UNCHANGED <<run, task, term, pass, cmux, up, raced>>
           /\ desk'.prev = desk.prev /\ (desk'.pc # "idle" => desk.pc # "idle")
           /\ ~up /\ desk.pc = "idle" /\ desk.queue = <<>>
                => desk'.pc = "idle" /\ desk'.queue = <<>>
<1>1. DOMAIN desk = DOMAIN FreeDesk
  BY DEF BrokerInv, BrokerType
<1>2. CASE Asks \/ AsksAgain
  BY <1>1, <1>2 DEF Asks, AsksAgain, FreeDesk
<1>3. CASE DeskDecides \/ DeskTimesOut \/ DeskDelivers
  BY <1>1, <1>3 DEF DeskDecides, DeskTimesOut, DeskDelivers, Decided, FreeDesk
<1>4. CASE Tick
  <2>1. desk' = [desk EXCEPT !.timer = IF desk.pc = "deciding" THEN @ - 1 ELSE @]
        /\ UNCHANGED <<run, task, term, pass, cmux, up, raced>>
    BY <1>4 DEF Tick
  <2> QED
    BY <1>1, <2>1 DEF FreeDesk
<1> QED
  BY <1>2, <1>3, <1>4

LEMMA BrokerEnds ==
    ASSUME FleetType, EndInv, Asks \/ AsksAgain \/ DeskDecides \/ DeskTimesOut
                              \/ DeskDelivers \/ Tick, BrokerInv
    PROVE  FleetType' /\ EndInv'
<1>1. /\ UNCHANGED <<run, task, term, pass, cmux, up, raced>>
      /\ desk'.prev = desk.prev /\ (desk'.pc # "idle" => desk.pc # "idle")
      /\ ~up /\ desk.pc = "idle" /\ desk.queue = <<>>
           => desk'.pc = "idle" /\ desk'.queue = <<>>
  BY BrokerFrame
<1>2. FleetType'
  BY <1>1 DEF FleetType
<1> SUFFICES ASSUME raced' = {} PROVE EndParts'
  BY <1>2 DEF EndInv
<1>3. EndParts
  BY <1>1 DEF EndInv
<1>4. Numbered' /\ Alone' /\ Placed' /\ (Clean => Clean') /\ (Nobody => Nobody')
  BY <1>1, <1>2, <1>3, Stayed DEF Stays
<1>5. Over' => Over
  BY <1>1 DEF Over
<1>6. TaskOwns'
  BY <1>1, <1>3 DEF EndParts, TaskOwns, PassActive, TermActive, TaskActive
<1>7. PassOwns'
  BY <1>1, <1>3, <1>4, <1>5 DEF EndParts, PassOwns, PassActive, Resuming, Nobody
<1>8. EndOwns'
  BY <1>1, <1>3, <1>4, <1>5 DEF EndParts, EndOwns, PassActive, TermActive
<1> QED
  BY <1>4, <1>6, <1>7, <1>8 DEF EndParts

-----------------------------------------------------------------------------
(* The task.                                                               *)

(* The task works: no pass and no terminate() is under way, nor will be.   *)
LEMMA TaskMoves ==
    ASSUME FleetType, FleetType', EndParts, Shrinks, run'.sid => cmux.rec.pid # 0,
           \A s \in 1 .. cmux.made : Place(s) => Place(s)',
           UNCHANGED <<term, pass, desk, up>>, task.pc \notin {"ending", "ended"},
           run.sid => run'.sid, run'.st \notin {"terminated", "permission-pending"}
    PROVE  /\ Numbered' /\ Alone' /\ Placed' /\ PassOwns' /\ EndOwns'
           /\ ~PassActive' /\ ~TermActive("stop")'
<1>1. Numbered' /\ Alone' /\ Placed'
  BY Shrunk
<1>2. ~PassActive /\ ~TermActive("stop") /\ ~TermActive("task")
  BY DEF EndParts, TaskOwns, EndOwns, TaskActive
<1>3. ~PassActive' /\ \A c \in Callers : ~TermActive(c)'
  BY <1>2 DEF PassActive, TermActive, Callers
<1>4. ~Over'
  BY DEF Over
<1>5. PassOwns'
  BY <1>3 DEF PassOwns, PassActive, Resuming
<1>6. EndOwns'
  BY <1>3, <1>4 DEF EndParts, EndOwns, TermActive, Callers
<1> QED
  BY <1>1, <1>3, <1>5, <1>6 DEF Callers

(* A step of the task leaves alone what is not the task's.                 *)
TaskFrame == /\ UNCHANGED <<term, pass, desk, up, raced>>
             /\ task.pc \notin {"ending", "ended"}

LEMMA LaunchEnds ==
    ASSUME FleetType, EndInv,
           RunTask \/ LaunchBegins \/ WorkspaceFound \/ TrustAsked \/ TrustGiven
                   \/ PromptSent \/ PromptAccepted
    PROVE  FleetType' /\ EndInv'
<1>1. TaskFrame /\ cmux' = cmux
  BY DEF RunTask, LaunchBegins, WorkspaceFound, TrustAsked, TrustGiven, PromptSent,
         PromptAccepted, TaskFrame
<1>2. /\ run' \in Sessions /\ task' \in [pc : TaskState, got : Nat]
      /\ run'.sid = (IF RunTask THEN FALSE ELSE run.sid)
      /\ run'.surf = (IF RunTask THEN 0 ELSE IF WorkspaceFound THEN task.got ELSE run.surf)
      /\ run'.st \notin {"none", "terminated", "permission-pending"}
      /\ task'.got = task.got
  <2>1. CASE RunTask
    <3>1. PICK keep \in BOOLEAN : run' = [NoSession EXCEPT !.st = "created", !.keepOpen = keep]
      BY <2>1 DEF RunTask, Becomes
    <3>2. task' = [task EXCEPT !.pc = "begun"]
      BY <2>1 DEF RunTask, TaskGoes
    <3> QED
      BY <2>1, <3>1, <3>2
         DEF NoSession, Sessions, SessionState, FleetType, TaskState, Launching
  <2>2. CASE WorkspaceFound
    BY <2>2 DEF WorkspaceFound, RunTask, TaskGoes, Becomes, FleetType, Sessions, SessionState,
                TaskState, Launching
  <2>3. CASE LaunchBegins \/ TrustAsked \/ TrustGiven
    BY <2>3 DEF LaunchBegins, TrustAsked, TrustGiven, RunTask, WorkspaceFound, TaskGoes,
                Becomes, In, FleetType, Sessions, SessionState, TaskState, Launching
  <2>4. CASE PromptSent \/ PromptAccepted
    BY <2>4 DEF PromptSent, PromptAccepted, RunTask, WorkspaceFound, TaskGoes, Becomes, In,
                FleetType, Sessions, SessionState, TaskState, Prompting
  <2> QED
    BY <2>1, <2>2, <2>3, <2>4
<1>3. FleetType'
  BY <1>1, <1>2, FleetFold, FleetNext DEF TaskFrame
<1> SUFFICES ASSUME raced' = {} PROVE EndParts'
  BY <1>3 DEF EndInv
<1>4. EndParts
  BY <1>1 DEF EndInv, TaskFrame
<1>5. /\ RunTask => task.pc = "none" /\ task'.pc = "begun" /\ ~run.sid
      /\ LaunchBegins => task.pc = "begun" /\ task'.pc = "creating"
      /\ WorkspaceFound => task.pc = "created" /\ task'.pc = "registering"
      /\ TrustAsked => task.pc = "registering" /\ task'.pc = "trust"
      /\ TrustGiven => task.pc = "trust" /\ task'.pc = "registering"
      /\ PromptSent => task.pc = "registered" /\ task'.pc = "submitting"
      /\ PromptAccepted => task.pc = "submitting" /\ task'.pc = "running"
  BY <1>4 DEF RunTask, LaunchBegins, WorkspaceFound, TrustAsked, TrustGiven, PromptSent,
              PromptAccepted, TaskGoes, FleetType, EndParts, TaskOwns
<1>6. \A s \in 1 .. cmux.made : Place(s) => Place(s)'
  <2>1. cmux.made \in Nat /\ task.got \in Nat
    BY DEF FleetType
  <2>2. CASE RunTask
    BY <1>4, <1>5, <2>1, <2>2 DEF EndParts, TaskOwns
  <2>3. CASE WorkspaceFound
    BY <1>1, <1>2, <1>4, <1>5, <2>1, <2>3
       DEF EndParts, TaskOwns, TaskActive, Place, TaskFrame
  <2>4. CASE ~RunTask /\ ~WorkspaceFound
    BY <1>1, <1>2, <1>5, <2>4 DEF Place, TaskFrame
  <2> QED
    BY <2>2, <2>3, <2>4
<1>7. Shrinks /\ (run'.sid => cmux.rec.pid # 0) /\ (run.sid => run'.sid)
  BY <1>1, <1>2, <1>4, <1>5 DEF Shrinks, EndParts, Numbered
<1>8. /\ Numbered' /\ Alone' /\ Placed' /\ PassOwns' /\ EndOwns'
      /\ ~PassActive' /\ ~TermActive("stop")'
  BY <1>1, <1>2, <1>3, <1>4, <1>6, <1>7, TaskMoves DEF TaskFrame
<1>9. TaskOwns'
  BY <1>1, <1>2, <1>4, <1>5, <1>8
     DEF EndParts, TaskOwns, TaskActive, Launching, Prompting
<1> QED
  BY <1>8, <1>9 DEF EndParts

(* The first workspace is made.                                            *)
LEMMA MadeEnds ==
    ASSUME FleetType, EndInv, WorkspaceMade
    PROVE  FleetType' /\ EndInv'
<1>1. /\ UNCHANGED <<run, term, pass, desk, up, raced>> /\ task.pc = "creating"
      /\ task' = [pc |-> "created", got |-> cmux.made + 1] /\ MakesWorkspace
  BY DEF WorkspaceMade
<1>2. /\ cmux' \in Machine /\ cmux.made \in Nat /\ cmux.born \in Nat /\ cmux \in Machine
      /\ cmux'.made = cmux.made + 1 /\ cmux'.born = cmux.born + 1
      /\ cmux.born + 1 \in Pids /\ cmux'.home[cmux.born + 1] = cmux.made + 1
      /\ \A p \in Pids : p # cmux.born + 1 => cmux'.home[p] = cmux.home[p]
      /\ cmux'.restore = cmux.restore /\ cmux'.lost = cmux.lost /\ cmux'.rec = cmux.rec
  BY <1>1, MakeType, FleetFold DEF Machine
<1>3. FleetType'
  <2>1. task' \in [pc : TaskState, got : Nat]
    BY <1>1, <1>2 DEF TaskState, Launching
  <2> QED
    BY <1>1, <1>2, <2>1, FleetFold, FleetNext
<1> SUFFICES ASSUME raced' = {} PROVE EndParts'
  BY <1>3 DEF EndInv
<1>4. EndParts
  BY <1>1 DEF EndInv
<1>5. /\ cmux.made = 0 /\ cmux.born = 0 /\ ~PassActive /\ ~TermActive("stop")
      /\ ~TermActive("task") /\ ~run.sid /\ run.st # "terminated"
      /\ cmux.restore = {} /\ \A p \in Pids : cmux.home[p] = 0
  <2>1. cmux.made = 0 /\ cmux.born = 0 /\ ~PassActive /\ ~TermActive("stop")
        /\ ~TermActive("task") /\ ~run.sid /\ run.st # "terminated"
    BY <1>1, <1>4 DEF EndParts, TaskOwns, EndOwns, TaskActive, Launching
  <2>2. cmux.restore = {}
    BY <1>4, <2>1 DEF EndParts, Numbered
  <2>3. \A p \in Pids : cmux.home[p] = 0
    BY <1>4, <2>1 DEF EndParts, Alone, Pids
  <2> QED
    BY <2>1, <2>2, <2>3
<1>6. 1 \in Pids /\ \A p \in Pids : cmux'.home[p] = IF p = 1 THEN 1 ELSE 0
  BY <1>2, <1>5
<1>7. Numbered'
  <2>1. cmux.rec.pid = 0 /\ cmux.rec.surf = 0
    BY <1>2, <1>4, <1>5 DEF EndParts, Numbered, Machine, Record
  <2> QED
    BY <1>1, <1>2, <1>5, <1>6, <2>1 DEF Numbered, Pids
<1>8. Alone' /\ Placed'
  BY <1>1, <1>2, <1>5, <1>6 DEF Alone, Placed, Place
<1>9. TaskOwns'
  BY <1>1, <1>2, <1>5
     DEF TaskOwns, TaskActive, PassActive, TermActive, Launching, Prompting
<1>10. PassOwns'
  BY <1>1, <1>5 DEF PassOwns, PassActive, Resuming
<1>11. EndOwns'
  <2>1. ~Over'
    BY <1>1, <1>4, <1>5 DEF Over, EndParts, EndOwns
  <2> QED
    BY <1>1, <1>4, <1>5, <2>1 DEF EndParts, EndOwns, TermActive, PassActive, Callers
<1> QED
  BY <1>7, <1>8, <1>9, <1>10, <1>11 DEF EndParts

(* The session registers, or its turn is over: the record that is bound is *)
(* that of the surface the task has made.                                  *)
LEMMA BindEnds ==
    ASSUME FleetType, EndInv, SessionRegisters \/ TurnCompletes \/ TurnRecovered
    PROVE  FleetType' /\ EndInv'
<1>1. TaskFrame /\ cmux' = cmux
  BY DEF SessionRegisters, TurnCompletes, TurnRecovered, TaskFrame
<1>2. /\ \E st \in {"ready", "recovering"} : run' = Bound(cmux.rec, st)
      /\ \/ task.pc = "registering" /\ cmux.rec.surf = task.got /\ task'.pc = "registered"
         \/ task.pc = "running" /\ task'.pc = "answered"
      /\ task' \in [pc : TaskState, got : Nat]
  BY DEF SessionRegisters, TurnCompletes, TurnRecovered, TaskGoes, Becomes, FleetType,
         TaskState, Prompting
<1>3. /\ run' \in Sessions /\ run'.sid = TRUE /\ run'.surf = cmux.rec.surf
      /\ run'.st \in {"ready", "recovering"}
  <2>1. PICK st \in {"ready", "recovering"} : run' = Bound(cmux.rec, st)
    BY <1>2
  <2>2. cmux.rec \in Record /\ st \in SessionState
    BY DEF FleetType, SessionState
  <2> QED
    BY <2>1, <2>2, InType
<1>4. FleetType'
  BY <1>1, <1>2, <1>3, FleetFold, FleetNext DEF TaskFrame
<1> SUFFICES ASSUME raced' = {} PROVE EndParts'
  BY <1>4 DEF EndInv
<1>5. EndParts
  BY <1>1 DEF EndInv, TaskFrame
<1>6. cmux.rec.surf = 1 /\ cmux.rec.pid # 0
  BY <1>2, <1>5 DEF EndParts, TaskOwns, Numbered, Prompting
<1>7. \A s \in 1 .. cmux.made : Place(s) => Place(s)'
  BY <1>1, <1>2, <1>3, <1>5, <1>6 DEF EndParts, TaskOwns, TaskActive, Place, FleetType
<1>8. /\ Numbered' /\ Alone' /\ Placed' /\ PassOwns' /\ EndOwns'
      /\ ~PassActive' /\ ~TermActive("stop")'
  <2>1. Shrinks
    BY <1>1 DEF Shrinks
  <2> QED
    BY <1>1, <1>3, <1>4, <1>5, <1>6, <1>7, <2>1, TaskMoves DEF TaskFrame
<1>9. TaskOwns'
  BY <1>1, <1>2, <1>5, <1>6, <1>8
     DEF EndParts, TaskOwns, TaskActive, Launching, Prompting
<1> QED
  BY <1>8, <1>9 DEF EndParts

(* The task fails; a surface it was waiting for is lost.                   *)
LEMMA FailEnds ==
    ASSUME FleetType, EndInv, TaskFails
    PROVE  FleetType' /\ EndInv'
<1>1. /\ TaskFrame /\ run' = In("failed") /\ task' = [pc |-> "failing", got |-> 0]
      /\ cmux' = IF task.pc = "created" THEN Lost(task.got) ELSE cmux
      /\ task.pc \in Launching \cup Prompting
  BY DEF TaskFails, TaskFrame, Becomes, Launching, Prompting
<1>2. /\ run' \in Sessions /\ run'.st = "failed" /\ run'.sid = run.sid
      /\ run'.surf = run.surf
  BY <1>1, InType DEF SessionState
<1>3. /\ cmux' \in Machine /\ Shrinks
      /\ task.pc = "created" => task.got \in cmux'.lost
  <2>1. CASE task.pc = "created"
    <3>1. cmux' = [cmux EXCEPT !.lost = @ \cup {task.got}] /\ {task.got} \in SUBSET Nat
      BY <1>1, <2>1 DEF Lost, FleetType
    <3>2. cmux' \in Machine /\ Shrinks /\ cmux'.lost = cmux.lost \cup {task.got}
      BY <3>1, LostType
    <3> QED
      BY <3>2
  <2>2. CASE task.pc # "created"
    BY <1>1, <2>2, FleetFold DEF Shrinks
  <2> QED
    BY <2>1, <2>2
<1>4. FleetType'
  <2>1. task' \in [pc : TaskState, got : Nat]
    BY <1>1 DEF TaskState
  <2> QED
    BY <1>1, <1>2, <1>3, <2>1, FleetFold, FleetNext DEF TaskFrame
<1> SUFFICES ASSUME raced' = {} PROVE EndParts'
  BY <1>4 DEF EndInv
<1>5. EndParts
  BY <1>1 DEF EndInv, TaskFrame
<1>6. \A s \in 1 .. cmux.made : Place(s) => Place(s)'
  BY <1>1, <1>2, <1>3 DEF Place, TaskFrame, Shrinks
<1>7. /\ Numbered' /\ Alone' /\ Placed' /\ PassOwns' /\ EndOwns'
      /\ ~PassActive' /\ ~TermActive("stop")'
  <2>1. run'.sid => cmux.rec.pid # 0
    BY <1>2, <1>5 DEF EndParts, Numbered
  <2> QED
    BY <1>1, <1>2, <1>3, <1>4, <1>5, <1>6, <2>1, TaskMoves DEF TaskFrame
<1>8. TaskOwns'
  BY <1>1, <1>3, <1>5, <1>7
     DEF EndParts, TaskOwns, TaskActive, Launching, Prompting, Shrinks
<1> QED
  BY <1>7, <1>8 DEF EndParts

-----------------------------------------------------------------------------
(* terminate().                                                            *)

(* Who terminates the session is alone with it.                            *)
LEMMA EndingAlone ==
    ASSUME EndParts, NEW c \in Callers, TermActive(c)
    PROVE  ~PassActive /\ task.pc \in {"ending", "ended"}
<1>1. CASE c = "task"
  BY <1>1 DEF EndParts, EndOwns, TaskOwns, TaskActive
<1>2. CASE c = "stop"
  <2>1. ~PassActive /\ ~TaskActive /\ task.pc # "none"
    BY <1>2 DEF EndParts, EndOwns, TaskOwns
  <2> QED
    BY <2>1 DEF TaskActive
<1> QED
  BY <1>1, <1>2 DEF Callers

(* terminate() begins, for the task or for the stop command.               *)
LEMMA TerminatesEnds ==
    ASSUME FleetType, NEW c \in Callers, Terminates(c)
    PROVE  /\ term' \in [Callers -> {"off", "exit", "kill", "end", "done"}]
           /\ term'[c] \in {"exit", "done"} /\ \A d \in Callers \ {c} : term'[d] = term[d]
           /\ run' \in Sessions /\ run'.sid = run.sid /\ run'.surf = run.surf
           /\ run' = run \/ run'.st = "exiting"
<1>1. term \in [Callers -> {"off", "exit", "kill", "end", "done"}] /\ run \in Sessions
  BY FleetFold
<1>2. CASE run.st = "terminated"
  BY <1>1, <1>2 DEF Terminates
<1>3. CASE run.st # "terminated"
  <2>1. term' = [term EXCEPT ![c] = "exit"] /\ run' = In("exiting")
    BY <1>3 DEF Terminates, Becomes
  <2>2. /\ run' \in Sessions /\ run'.st = "exiting" /\ run'.sid = run.sid
        /\ run'.surf = run.surf
    BY <2>1, InType DEF SessionState
  <2> QED
    BY <1>1, <2>1, <2>2
<1> QED
  BY <1>2, <1>3

LEMMA BeginsEnds ==
    ASSUME FleetType, EndInv, TaskTerminates \/ StopCommand
    PROVE  FleetType' /\ EndInv'
<1> DEFINE c == IF TaskTerminates THEN "task" ELSE "stop"
<1>1. /\ UNCHANGED <<pass, desk, up, cmux>> /\ Terminates(c) /\ c \in Callers
      /\ \/ /\ c = "task" /\ task.pc \in {"failing", "answered"}
            /\ task' = [task EXCEPT !.pc = "ending"]
            /\ raced' = raced \cup Overlap(TermActive("stop") \/ PassActive, "operation")
         \/ /\ c = "stop" /\ run.st # "none" /\ task' = task
            /\ raced' = raced \cup Overlap(TaskActive \/ PassActive, "operation")
  BY DEF TaskTerminates, StopCommand, TaskGoes, Callers
<1> HIDE DEF c
<1>2. /\ term' \in [Callers -> {"off", "exit", "kill", "end", "done"}]
      /\ term'[c] \in {"exit", "done"} /\ \A d \in Callers \ {c} : term'[d] = term[d]
      /\ run' \in Sessions /\ run'.sid = run.sid /\ run'.surf = run.surf
      /\ run' = run \/ run'.st = "exiting"
  BY <1>1, TerminatesEnds
<1>3. task' \in [pc : TaskState, got : Nat] /\ task'.got = task.got
      /\ (c = "task" => task'.pc = "ending")
  BY <1>1 DEF FleetType, TaskState
<1>4. FleetType'
  BY <1>1, <1>2, <1>3, FleetFold, FleetNext
<1> SUFFICES ASSUME raced' = {} PROVE EndParts'
  BY <1>4 DEF EndInv
<1>5. EndParts /\ ~PassActive /\ (c = "task" => ~TermActive("stop"))
      /\ (c = "stop" => task' = task /\ run.st # "none" /\ ~TaskActive)
  BY <1>1 DEF EndInv, Overlap
<1>6. Numbered' /\ Alone' /\ Placed' /\ (Clean => Clean')
  <2>1. Stays
    BY <1>1, <1>2, <1>3 DEF Stays
  <2> QED
    BY <1>4, <1>5, <2>1, Stayed
<1>7. task.pc \notin {"none"} \cup Launching
  BY <1>1, <1>5 DEF EndParts, TaskOwns, TaskActive, Launching
<1>8. TaskOwns'
  <2>1. CASE c = "task"
    <3>1. ~TermActive("stop")'
      BY <1>2, <1>5, <2>1 DEF TermActive, Callers
    <3> QED
      BY <1>1, <1>3, <1>5, <2>1, <3>1
         DEF EndParts, TaskOwns, TaskActive, PassActive, Launching, Prompting
  <2>2. CASE c = "stop"
    BY <1>1, <1>5, <1>7, <2>2
       DEF EndParts, TaskOwns, TaskActive, PassActive, Launching, Prompting
  <2> QED
    BY <1>1, <2>1, <2>2 DEF Callers
<1>9. PassOwns'
  BY <1>1, <1>5 DEF PassOwns, PassActive, Resuming
<1>10. EndOwns'
  <2>1. Over' => Clean
    BY <1>1, <1>2, <1>5 DEF Over, EndParts, EndOwns
  <2>2. \A d \in Callers : term'[d] \in {"kill", "end"} => Clean
    BY <1>2, <1>5 DEF EndParts, EndOwns
  <2>3. TermActive("task")' => task'.pc = "ending"
    BY <1>1, <1>2, <1>3, <1>5 DEF EndParts, EndOwns, TermActive, Callers
  <2> QED
    BY <1>1, <1>2, <1>5, <1>6, <2>1, <2>2, <2>3 DEF EndParts, EndOwns, PassActive, TermActive
<1> QED
  BY <1>6, <1>8, <1>9, <1>10 DEF EndParts

(* What terminate() closes and kills leaves nothing alive but in a surface *)
(* that was lost.                                                          *)
LEMMA TermEnds ==
    ASSUME FleetType, EndInv, NEW c \in Callers, TermStep(c)
    PROVE  FleetType' /\ EndInv'
<1>1. /\ UNCHANGED <<task, pass, desk, up, raced>>
      /\ \/ term[c] = "exit" /\ term' = [term EXCEPT ![c] = "kill"]
            /\ run' = run
            /\ cmux' \in {Without(run.surf), Lost(run.surf), Deserted(run.surf)}
         \/ term[c] = "kill" /\ term' = [term EXCEPT ![c] = "end"]
            /\ run' = run /\ (cmux' = cmux \/ \E p \in Pids : cmux' = Killed(p))
         \/ term[c] = "end" /\ term' = [term EXCEPT ![c] = "done"]
            /\ run' = In("terminated") /\ cmux' = cmux
  BY DEF TermStep, ClosesWorkspace, KillsClaude, Terminated, Becomes, Alive
<1>2. /\ run' \in Sessions /\ run'.sid = run.sid /\ run'.surf = run.surf
      /\ run' = run \/ term[c] = "end"
  <2>1. CASE run' = run
    BY <2>1, FleetFold
  <2>2. CASE run' # run
    <3>1. run' = In("terminated") /\ term[c] = "end"
      BY <1>1, <2>2
    <3> QED
      BY <3>1, InType DEF SessionState
  <2> QED
    BY <2>1, <2>2
<1>3. cmux' \in Machine /\ Shrinks
  <2>1. CASE cmux' = cmux
    BY <2>1, FleetFold DEF Shrinks
  <2>2. CASE cmux' = Without(run.surf)
    BY <2>2, WithoutType
  <2>3. ASSUME NEW p \in Pids, cmux' = Killed(p) PROVE cmux' \in Machine /\ Shrinks
    BY <2>3, KilledType
  <2>4. CASE cmux' \in {Lost(run.surf), Deserted(run.surf)}
    BY <2>4, LosesType
  <2> QED
    BY <1>1, <2>1, <2>2, <2>3, <2>4
<1>4. /\ term' \in [Callers -> {"off", "exit", "kill", "end", "done"}]
      /\ \A d \in Callers \ {c} : term'[d] = term[d]
      /\ term'[c] = CASE term[c] = "exit" -> "kill" [] term[c] = "kill" -> "end"
                      [] OTHER -> "done"
      /\ term[c] \in {"exit", "kill", "end"}
  BY <1>1, FleetFold
<1>5. FleetType'
  BY <1>1, <1>2, <1>3, <1>4, FleetFold, FleetNext
<1> SUFFICES ASSUME raced' = {} PROVE EndParts'
  BY <1>5 DEF EndInv
<1>6. EndParts /\ ~PassActive /\ task.pc \in {"ending", "ended"} /\ TermActive(c)
  <2>1. EndParts /\ TermActive(c)
    BY <1>1, <1>4 DEF EndInv, TermActive
  <2> QED
    BY <2>1, EndingAlone
<1>7. Numbered' /\ Alone' /\ Placed' /\ (Clean => Clean')
  <2>1. run'.sid => cmux.rec.pid # 0
    BY <1>2, <1>6 DEF EndParts, Numbered
  <2>2. \A s \in 1 .. cmux.made : Place(s) => Place(s)'
    BY <1>1, <1>2, <1>3 DEF Place, Shrinks
  <2> QED
    BY <1>3, <1>5, <1>6, <2>1, <2>2, Shrunk
<1>8. Clean'
  <2>1. CASE term[c] = "exit"
    <3>1. cmux' \in {Without(run.surf), Lost(run.surf), Deserted(run.surf)}
      BY <1>1, <2>1
    <3>2. \A s : Place(s) => s \in cmux.lost \cup {run.surf}
      BY <1>6 DEF Place, PassActive
    <3>3. CASE cmux' = Without(run.surf)
      <4>1. /\ cmux'.lost = cmux.lost /\ run.surf \notin cmux'.restore
            /\ \A p \in Pids : cmux'.home[p] # run.surf \/ run.surf = 0
        BY <3>3, WithoutType
      <4> QED
        BY <1>3, <1>6, <3>2, <4>1 DEF Clean, EndParts, Placed, Shrinks
    <3>4. CASE cmux' \in {Lost(run.surf), Deserted(run.surf)}
      <4>1. run.surf \in cmux'.lost
        BY <3>4, LosesType
      <4> QED
        BY <1>3, <1>6, <3>2, <4>1 DEF Clean, EndParts, Placed, Shrinks
    <3> QED
      BY <3>1, <3>3, <3>4
  <2>2. CASE term[c] # "exit"
    BY <1>4, <1>6, <1>7, <2>2 DEF EndParts, EndOwns
  <2> QED
    BY <2>1, <2>2
<1>9. \A d \in Callers : TermActive(d)' => TermActive(d)
  BY <1>4, <1>6 DEF TermActive
<1>10. TaskOwns'
  BY <1>1, <1>2, <1>3, <1>6, <1>9
     DEF EndParts, TaskOwns, TaskActive, PassActive, Launching, Prompting, Shrinks, Callers
<1>11. PassOwns'
  BY <1>1, <1>6 DEF PassOwns, PassActive, Resuming
<1>12. EndOwns'
  <2>1. ~PassActive'
    BY <1>1, <1>6 DEF PassActive
  <2>2. TermActive("task")' => task'.pc = "ending"
    BY <1>1, <1>6, <1>9 DEF EndParts, EndOwns, Callers
  <2> QED
    BY <1>1, <1>2, <1>6, <1>8, <2>1, <2>2 DEF EndParts, EndOwns
<1> QED
  BY <1>7, <1>10, <1>11, <1>12 DEF EndParts

(* The task is over.                                                       *)
LEMMA OverEnds ==
    ASSUME FleetType, EndInv, TaskEnds
    PROVE  FleetType' /\ EndInv'
<1>1. /\ UNCHANGED <<run, term, pass, desk, cmux, up, raced>>
      /\ task' = [task EXCEPT !.pc = "ended"]
      /\ task.pc \in {"ending", "answered"} /\ (task.pc = "ending" => term["task"] = "done")
  BY DEF TaskEnds, TaskGoes
<1>2. task' \in [pc : TaskState, got : Nat] /\ task'.pc = "ended" /\ task'.got = task.got
  BY <1>1 DEF FleetType, TaskState
<1>3. FleetType'
  BY <1>1, <1>2, FleetFold, FleetNext
<1> SUFFICES ASSUME raced' = {} PROVE EndParts'
  BY <1>3 DEF EndInv
<1>4. EndParts
  BY <1>1 DEF EndInv
<1>5. Numbered' /\ Alone' /\ Placed' /\ (Clean => Clean')
  BY <1>1, <1>2, <1>3, <1>4, Stayed DEF Stays
<1>6. TaskOwns'
  BY <1>2 DEF TaskOwns, TaskActive, Launching, Prompting
<1>7. PassOwns'
  BY <1>1, <1>4 DEF EndParts, PassOwns, PassActive, Resuming, Nobody, Over
<1>8. EndOwns'
  BY <1>1, <1>2, <1>4, <1>5 DEF EndParts, EndOwns, PassActive, TermActive, Over
<1> QED
  BY <1>5, <1>6, <1>7, <1>8 DEF EndParts

-----------------------------------------------------------------------------
(* cmux and Claude.                                                        *)

(* A step of cmux leaves the parts of the others as they are, if it leaves *)
(* those that speak of cmux.                                               *)
CmuxFrame == UNCHANGED <<run, task, term, pass, desk, up>>

LEMMA CmuxKeeps ==
    ASSUME EndParts, CmuxFrame,
           cmux'.made = cmux.made, cmux'.surfs \subseteq cmux.surfs,
           task.pc \in {"none", "begun", "creating"} => cmux'.born = cmux.born,
           task.pc \in Prompting => cmux'.rec.surf = 1,
           PassActive => /\ cmux'.restore = {} /\ cmux.rec.pid <= cmux'.rec.pid
                         /\ \A p \in Pids : cmux'.home[p] \in {0, cmux.home[p]},
           Clean => Clean', FleetType, FleetType'
    PROVE  TaskOwns' /\ PassOwns' /\ EndOwns'
<1>1. TaskOwns'
  BY DEF CmuxFrame, EndParts, TaskOwns, TaskActive, PassActive, TermActive
<1>2. PassOwns'
  <2>1. CASE ~PassActive
    <3>1. ~PassActive'
      BY <2>1 DEF CmuxFrame, PassActive
    <3> QED
      BY <3>1 DEF PassOwns, PassActive, Resuming
  <2>2. CASE PassActive
    <3>1. pass' = pass /\ run' = run /\ (Over' => Over)
      BY DEF CmuxFrame, Over
    <3>2. cmux.rec.pid \in Nat /\ cmux'.rec.pid \in Nat /\ pass.known.pid \in Nat
      BY DEF FleetType, Record
    <3> QED
      BY <2>2, <3>1, <3>2 DEF EndParts, PassOwns, PassActive, Resuming, Nobody
  <2> QED
    BY <2>1, <2>2
<1>3. EndOwns'
  BY DEF CmuxFrame, EndParts, EndOwns, PassActive, TermActive, Over
<1> QED
  BY <1>1, <1>2, <1>3

(* The record of a Claude that lives replaces that of one before it.       *)
LEMMA RegisterEnds ==
    ASSUME FleetType, EndInv, ClaudeRegisters
    PROVE  FleetType' /\ EndInv'
<1>1. CmuxFrame /\ raced' = raced
  BY DEF ClaudeRegisters, CmuxFrame
<1>2. PICK p \in Pids : /\ cmux.home[p] # 0 /\ cmux.rec.pid < p
                        /\ cmux' = [cmux EXCEPT !.rec = [surf |-> cmux.home[p], pid |-> p]]
  BY DEF ClaudeRegisters, Alive
<1> DEFINE rec == [surf |-> cmux.home[p], pid |-> p]
<1>3. cmux \in Machine /\ rec \in Record /\ rec.pid = p /\ rec.surf = cmux.home[p]
  BY FleetFold DEF Machine, Record, Pids
<1> HIDE DEF rec
<1>4. /\ cmux' \in Machine /\ cmux'.rec = rec
      /\ UNCHANGED <<cmux.home, cmux.made, cmux.born, cmux.restore, cmux.lost, cmux.surfs>>
  BY <1>2, <1>3 DEF Machine, rec
<1>5. FleetType'
  BY <1>1, <1>4, FleetFold, FleetNext DEF CmuxFrame
<1> SUFFICES ASSUME raced' = {} PROVE EndParts'
  BY <1>5 DEF EndInv
<1>6. EndParts /\ p = cmux.born /\ cmux.home[p] <= cmux.made
      /\ cmux.home[p] \in Nat /\ p \in Nat /\ p # 0 /\ cmux.made \in Nat
      /\ cmux.rec.pid \in Nat
  BY <1>1, <1>2, <1>3 DEF EndInv, EndParts, Alone, Numbered, Machine, Pids, Record
<1>7. Numbered'
  BY <1>1, <1>3, <1>4, <1>6 DEF EndParts, Numbered, CmuxFrame
<1>8. Alone' /\ Placed' /\ (Clean => Clean')
  BY <1>1, <1>4, <1>6 DEF EndParts, Alone, Nobody, Placed, Place, Clean, CmuxFrame
<1>9. TaskOwns' /\ PassOwns' /\ EndOwns'
  <2>1. task.pc \in Prompting => cmux'.rec.surf = 1
    BY <1>2, <1>3, <1>4, <1>6 DEF EndParts, TaskOwns, TaskActive, Prompting
  <2>2. PassActive => /\ cmux'.restore = {} /\ cmux.rec.pid <= cmux'.rec.pid
                      /\ \A q \in Pids : cmux'.home[q] \in {0, cmux.home[q]}
    BY <1>2, <1>3, <1>4, <1>6 DEF EndParts, PassOwns
  <2> QED
    BY <1>1, <1>4, <1>5, <1>6, <1>8, <2>1, <2>2, CmuxKeeps
<1> QED
  BY <1>7, <1>8, <1>9 DEF EndParts

(* cmux restarts: no pass is under way, or it overlaps.                    *)
LEMMA RestartEnds ==
    ASSUME FleetType, EndInv, CmuxRestarts
    PROVE  FleetType' /\ EndInv'
<1>1. CmuxFrame /\ raced' = raced \cup Overlap(PassActive, "restart")
  BY DEF CmuxRestarts, CmuxFrame
<1>2. PICK S : /\ \A s \in S : \E p \in Pids : cmux.home[p] # 0 /\ s = cmux.home[p]
               /\ cmux' = [cmux EXCEPT !.home = [p \in Pids |-> 0], !.restore = S]
  <2>1. PICK S \in SUBSET {cmux.home[p] : p \in {q \in Pids : Alive(q)}} :
           cmux' = [cmux EXCEPT !.home = [p \in Pids |-> 0], !.restore = S]
    BY DEF CmuxRestarts
  <2>2. ASSUME NEW s \in S PROVE \E p \in Pids : cmux.home[p] # 0 /\ s = cmux.home[p]
    BY DEF Alive
  <2> QED
    BY <2>1, <2>2
<1> DEFINE home == [p \in Pids |-> 0]
<1>3. cmux \in Machine /\ home \in [Pids -> Nat] /\ S \in SUBSET Nat
      /\ \A p \in Pids : home[p] = 0
  BY <1>2, FleetFold DEF Machine
<1>4. cmux' = [cmux EXCEPT !.home = home, !.restore = S]
  BY <1>2
<1> HIDE DEF home
<1>5. /\ cmux' \in Machine /\ cmux'.restore = S /\ cmux'.home = home
      /\ UNCHANGED <<cmux.rec, cmux.made, cmux.born, cmux.lost, cmux.surfs>>
  BY <1>3, <1>4 DEF Machine
<1>6. FleetType'
  BY <1>1, <1>5, FleetFold, FleetNext DEF CmuxFrame
<1> SUFFICES ASSUME raced' = {} PROVE EndParts'
  BY <1>6 DEF EndInv
<1>7. EndParts /\ ~PassActive
  BY <1>1 DEF EndInv, Overlap
<1>8. Numbered' /\ Alone' /\ Placed' /\ (Clean => Clean')
  <2>1. Numbered'
    BY <1>1, <1>2, <1>3, <1>5, <1>7 DEF EndParts, Numbered, Machine, CmuxFrame
  <2>2. Alone'
    BY <1>2, <1>3, <1>5, <1>7 DEF EndParts, Alone, Nobody
  <2>3. Placed' /\ (Clean => Clean')
    BY <1>1, <1>2, <1>3, <1>5, <1>7 DEF EndParts, Placed, Place, Clean, CmuxFrame
  <2> QED
    BY <2>1, <2>2, <2>3
<1>9. TaskOwns' /\ PassOwns' /\ EndOwns'
  <2>1. task.pc \in Prompting => cmux'.rec.surf = 1
    BY <1>5, <1>7 DEF EndParts, TaskOwns
  <2> QED
    BY <1>1, <1>5, <1>6, <1>7, <1>8, <2>1, CmuxKeeps
<1> QED
  BY <1>8, <1>9 DEF EndParts

(* cmux starts the one Claude it had to restore.                           *)
LEMMA RestoreEnds ==
    ASSUME FleetType, EndInv, CmuxRestores
    PROVE  FleetType' /\ EndInv'
<1>1. CmuxFrame /\ raced' = raced
  BY DEF CmuxRestores, CmuxFrame
<1>2. PICK s \in cmux.restore :
         cmux' = IF cmux.born < MaxPids
                 THEN [cmux EXCEPT !.born = @ + 1, !.home[cmux.born + 1] = s, !.restore = @ \ {s}]
                 ELSE [cmux EXCEPT !.restore = @ \ {s}]
  BY DEF CmuxRestores
<1> DEFINE born == IF cmux.born < MaxPids THEN cmux.born + 1 ELSE cmux.born
           home == IF cmux.born < MaxPids THEN [cmux.home EXCEPT ![cmux.born + 1] = s]
                   ELSE cmux.home
           restore == cmux.restore \ {s}
<1>3. /\ cmux \in Machine /\ s \in Nat /\ born \in Nat /\ home \in [Pids -> Nat]
      /\ restore \in SUBSET Nat /\ cmux.born \in Nat
  <2>1. cmux \in Machine /\ cmux.home \in [Pids -> Nat] /\ cmux.born \in Nat
        /\ cmux.restore \in SUBSET Nat
    BY FleetFold DEF Machine
  <2>2. s \in Nat /\ born \in Nat /\ restore \in SUBSET Nat
    BY <2>1
  <2>3. [cmux.home EXCEPT ![cmux.born + 1] = s] \in [Pids -> Nat]
    BY <2>1, <2>2
  <2> QED
    BY <2>1, <2>2, <2>3
<1>4. cmux' = [cmux EXCEPT !.born = born, !.home = home, !.restore = restore]
  BY <1>2, <1>3 DEF Machine
<1>5. /\ born \in {cmux.born, cmux.born + 1}
      /\ \A p \in Pids : \/ home[p] = cmux.home[p]
                         \/ p = born /\ born = cmux.born + 1 /\ home[p] = s
  BY <1>3 DEF Machine
<1>6. \A t \in restore : t \in cmux.restore /\ t # s
  OBVIOUS
<1> HIDE DEF born, home, restore
<1>7. /\ cmux' \in Machine /\ cmux'.restore = restore /\ cmux'.home = home
      /\ cmux'.born = born /\ UNCHANGED <<cmux.rec, cmux.made, cmux.lost, cmux.surfs>>
  BY <1>3, <1>4 DEF Machine
<1>8. FleetType'
  BY <1>1, <1>7, FleetFold, FleetNext DEF CmuxFrame
<1> SUFFICES ASSUME raced' = {} PROVE EndParts'
  BY <1>8 DEF EndInv
<1>9. /\ EndParts /\ ~PassActive /\ s \in 1 .. cmux.made /\ restore = {}
      /\ \A p \in Pids : cmux.home[p] = 0
  BY <1>1, <1>6 DEF EndInv, EndParts, PassOwns, Numbered, Alone, Nobody
<1>10. task.pc \notin {"none", "begun", "creating"}
  BY <1>9 DEF EndParts, TaskOwns
<1>11. Numbered'
  <2>1. cmux.rec.pid \in Nat /\ cmux.made \in Nat
    BY <1>3 DEF Machine, Record
  <2> QED
    BY <1>1, <1>3, <1>5, <1>7, <1>9, <2>1 DEF EndParts, Numbered, CmuxFrame
<1>12. Alone' /\ Placed' /\ (Clean => Clean')
  BY <1>1, <1>5, <1>7, <1>9
     DEF EndParts, Alone, Nobody, Placed, Place, Clean, CmuxFrame
<1>13. TaskOwns' /\ PassOwns' /\ EndOwns'
  <2>1. task.pc \in Prompting => cmux'.rec.surf = 1
    BY <1>7, <1>9 DEF EndParts, TaskOwns
  <2> QED
    BY <1>1, <1>7, <1>8, <1>9, <1>10, <1>12, <2>1, CmuxKeeps
<1> QED
  BY <1>11, <1>12, <1>13 DEF EndParts

(* A user closes a surface.                                                *)
LEMMA CloseEnds ==
    ASSUME FleetType, EndInv, UserCloses
    PROVE  FleetType' /\ EndInv'
<1>1. CmuxFrame /\ raced' = raced
  BY DEF UserCloses, CmuxFrame
<1>2. cmux' \in Machine /\ Shrinks /\ cmux'.lost = cmux.lost
  <2>1. PICK s : cmux' = Without(s)
    BY DEF UserCloses
  <2> QED
    BY <2>1, WithoutType
<1>3. FleetType'
  BY <1>1, <1>2, FleetFold, FleetNext DEF CmuxFrame
<1> SUFFICES ASSUME raced' = {} PROVE EndParts'
  BY <1>3 DEF EndInv
<1>4. EndParts
  BY <1>1 DEF EndInv
<1>5. Numbered' /\ Alone' /\ Placed' /\ (Clean => Clean')
  <2>1. run'.sid => cmux.rec.pid # 0
    BY <1>1, <1>4 DEF EndParts, Numbered, CmuxFrame
  <2>2. \A s \in 1 .. cmux.made : Place(s) => Place(s)'
    BY <1>1, <1>2 DEF Place, CmuxFrame
  <2> QED
    BY <1>2, <1>3, <1>4, <2>1, <2>2, Shrunk
<1>6. TaskOwns' /\ PassOwns' /\ EndOwns'
  <2>1. task.pc \in Prompting => cmux'.rec.surf = 1
    BY <1>2, <1>4 DEF EndParts, TaskOwns, Shrinks
  <2>2. PassActive => /\ cmux'.restore = {} /\ cmux.rec.pid <= cmux'.rec.pid
                      /\ \A q \in Pids : cmux'.home[q] \in {0, cmux.home[q]}
    BY <1>2, <1>4 DEF EndParts, PassOwns, Shrinks, FleetType, Record
  <2> QED
    BY <1>1, <1>2, <1>3, <1>4, <1>5, <2>1, <2>2, CmuxKeeps DEF Shrinks
<1> QED
  BY <1>5, <1>6 DEF EndParts

-----------------------------------------------------------------------------
(* The broker takes a request of a session it knows, and puts the state of *)
(* the session back.                                                       *)
LEMMA DeskFrame ==
    ASSUME FleetType, BrokerInv, DeskTakes \/ DeskRestores
    PROVE  /\ desk.pc # "idle" \/ desk.queue # <<>>
           /\ \/ run' = run /\ raced' = raced
                 /\ desk.pc = "idle" /\ desk'.pc = "idle" /\ desk'.prev = desk.prev
              \/ run' = In("permission-pending") /\ raced' = raced
                 /\ desk.pc = "idle" /\ desk'.pc # "idle" /\ desk'.prev = run.st /\ run.sid
              \/ desk.pc # "idle" /\ desk'.pc = "idle" /\ desk'.prev = "none"
                 /\ raced' = raced \cup Overlap(run.st # "permission-pending", "operation")
                 /\ \E st \in SessionState \ {"permission-pending"} :
                       run' = In(st) /\ (st = "terminated" => desk.prev = "terminated")
<1>1. DOMAIN desk = DOMAIN FreeDesk
  BY DEF BrokerInv, BrokerType
<1>2. CASE DeskTakes
  <2> DEFINE q == Head(desk.queue)
  <2>1. desk.pc = "idle" /\ desk.queue # <<>> /\ raced' = raced
    BY <1>2 DEF DeskTakes
  <2>2. CASE ~New(q)
    <3>1. desk' = [desk EXCEPT !.queue = Tail(@)] /\ run' = run
      BY <1>2, <2>2 DEF DeskTakes
    <3> QED
      BY <1>1, <2>1, <3>1 DEF FreeDesk
  <2>3. CASE New(q)
    <3>1. run' = In("permission-pending") /\ run.sid
      BY <1>2, <2>3 DEF DeskTakes, Becomes, New
    <3>2. CASE decider /\ Remaining(q) > 0
      <4>1. desk' = [desk EXCEPT !.queue = Tail(@), !.cur = q, !.prev = run.st,
                                 !.pc = "deciding", !.timer = Remaining(q)]
        BY <1>2, <2>3, <3>2 DEF DeskTakes
      <4> QED
        BY <1>1, <2>1, <3>1, <4>1 DEF FreeDesk
    <3>3. CASE ~(decider /\ Remaining(q) > 0)
      <4>1. desk' = [desk EXCEPT !.queue = Tail(@), !.cur = q, !.prev = run.st,
                                 !.pc = "delivering", !.say = "deny"]
        BY <1>2, <2>3, <3>3 DEF DeskTakes
      <4> QED
        BY <1>1, <2>1, <3>1, <4>1 DEF FreeDesk
    <3> QED
      BY <3>2, <3>3
  <2> QED
    BY <2>2, <2>3
<1>3. CASE DeskRestores
  <2> DEFINE st == IF desk.prev = "permission-pending" THEN "running" ELSE desk.prev
  <2>1. /\ desk.pc = "restoring" /\ desk' = [FreeDesk EXCEPT !.queue = desk.queue]
        /\ run' = In(st)
        /\ raced' = raced \cup Overlap(run.st # "permission-pending", "operation")
    BY <1>3 DEF DeskRestores, Becomes
  <2>2. st \in SessionState \ {"permission-pending"} /\ (st = "terminated" => desk.prev = "terminated")
    BY DEF FleetType, SessionState
  <2>3. desk'.pc = "idle" /\ desk'.prev = "none"
    BY <2>1 DEF FreeDesk
  <2> QED
    BY <2>1, <2>2, <2>3
<1> QED
  BY <1>2, <1>3

(* A terminated session is not forgotten in the broker's hands.            *)
LEMMA DeskOver ==
    ASSUME FleetType, BrokerInv, DeskTakes \/ DeskRestores, raced' = {}
    PROVE  Over' => Over
<1>1. CASE run' = run /\ desk.pc = "idle" /\ desk'.pc = "idle"
  BY <1>1 DEF Over
<1>2. CASE run' = In("permission-pending") /\ desk.pc = "idle" /\ desk'.prev = run.st
  <2>1. run'.st = "permission-pending"
    BY <1>2, InType DEF SessionState
  <2> QED
    BY <1>2, <2>1 DEF Over
<1>3. ASSUME desk.pc # "idle", desk'.pc = "idle", run.st = "permission-pending",
             NEW st \in SessionState \ {"permission-pending"}, run' = In(st),
             st = "terminated" => desk.prev = "terminated"
      PROVE  Over' => Over
  <2>1. run'.st = st
    BY <1>3, InType
  <2> QED
    BY <1>3, <2>1 DEF Over
<1> QED
  BY DeskFrame, <1>1, <1>2, <1>3 DEF Overlap

(* The invariant is kept by both.                                          *)
LEMMA DeskEnds ==
    ASSUME FleetType, EndInv, BrokerInv, DeskTakes \/ DeskRestores
    PROVE  FleetType' /\ EndInv'
<1>1. UNCHANGED <<task, term, pass, cmux, up>>
  BY DEF DeskTakes, DeskRestores
<1>2. /\ desk.pc # "idle" \/ desk.queue # <<>>
      /\ \/ run' = run /\ raced' = raced
            /\ desk.pc = "idle" /\ desk'.pc = "idle" /\ desk'.prev = desk.prev
         \/ run' = In("permission-pending") /\ raced' = raced
            /\ desk.pc = "idle" /\ desk'.pc # "idle" /\ desk'.prev = run.st /\ run.sid
         \/ desk.pc # "idle" /\ desk'.pc = "idle" /\ desk'.prev = "none"
            /\ raced' = raced \cup Overlap(run.st # "permission-pending", "operation")
            /\ \E st \in SessionState \ {"permission-pending"} :
                  run' = In(st) /\ (st = "terminated" => desk.prev = "terminated")
  BY DeskFrame
<1>3. /\ run' \in Sessions /\ run'.sid = run.sid /\ run'.surf = run.surf
      /\ desk'.prev \in SessionState
  <2>1. CASE run' = run
    BY <1>2, <2>1, FleetFold, InType DEF SessionState, Sessions, In
  <2>2. ASSUME NEW st \in SessionState, run' = In(st)
        PROVE  run' \in Sessions /\ run'.sid = run.sid /\ run'.surf = run.surf
    BY <2>2, InType
  <2>3. "permission-pending" \in SessionState /\ "none" \in SessionState
        /\ run.st \in SessionState /\ desk.prev \in SessionState
    BY DEF FleetType, SessionState
  <2> QED
    BY <1>2, <2>1, <2>2, <2>3
<1>4. FleetType'
  BY <1>1, <1>3, FleetFold, FleetNext
<1> SUFFICES ASSUME raced' = {} PROVE EndParts'
  BY <1>4 DEF EndInv
<1>5. EndParts /\ up
  BY <1>2 DEF EndInv, EndParts, EndOwns
<1>6. Numbered' /\ Alone' /\ Placed' /\ (Clean => Clean') /\ (Nobody => Nobody')
  BY <1>1, <1>3, <1>4, <1>5, Stayed DEF Stays
<1>7. run.sid \/ run' = run
  BY <1>2, <1>5 DEF EndParts, EndOwns
<1>8. Over' => Over
  BY DeskOver
<1>9. TaskOwns'
  <2>1. CASE run' = run
    BY <1>1, <1>5, <2>1 DEF EndParts, TaskOwns, TaskActive, PassActive, TermActive
  <2>2. CASE run.sid
    <3>1. task.pc \notin {"none"} \cup Launching
      BY <1>5, <2>2 DEF EndParts, TaskOwns
    <3> QED
      BY <1>1, <1>5, <3>1
         DEF EndParts, TaskOwns, TaskActive, PassActive, TermActive, Launching
  <2> QED
    BY <1>7, <2>1, <2>2
<1>10. PassOwns'
  BY <1>1, <1>3, <1>5, <1>6, <1>8 DEF EndParts, PassOwns, PassActive, Resuming, Nobody
<1>11. EndOwns'
  <2>1. desk'.pc # "idle" => run'.sid
    BY <1>2, <1>3
  <2> QED
    BY <1>1, <1>5, <1>6, <1>8, <2>1 DEF EndParts, EndOwns, PassActive, TermActive
<1> QED
  BY <1>6, <1>9, <1>10, <1>11 DEF EndParts

-----------------------------------------------------------------------------
(* A pass.                                                                 *)

(* A pass that works is alone with the session.                            *)
LEMMA PassAlone ==
    ASSUME EndParts, PassActive
    PROVE  /\ task.pc = "ended" /\ \A c \in Callers : ~TermActive(c)
           /\ cmux.restore = {} /\ up
<1>1. task.pc = "ended"
  BY DEF EndParts, TaskOwns, TaskActive
<1> QED
  BY <1>1 DEF EndParts, EndOwns, PassOwns, PassActive, Callers

PassFrame == UNCHANGED <<task, term, desk, up, raced>>

LEMMA PassMoves ==
    ASSUME EndParts, PassActive, PassFrame, run.sid => run'.sid, Over' => Clean'
    PROVE  TaskOwns' /\ EndOwns'
<1>1. task.pc = "ended" /\ up /\ \A c \in Callers : ~TermActive(c)
  BY PassAlone
<1>2. TaskOwns'
  BY <1>1 DEF PassFrame, TaskOwns, TaskActive, Launching, Prompting
<1>3. EndOwns'
  BY <1>1 DEF PassFrame, EndParts, EndOwns, TermActive, Callers
<1> QED
  BY <1>2, <1>3

(* Where a pass can go.                                                    *)
LEMMA PassType ==
    ASSUME FleetType
    PROVE  /\ Sweeping \in Passes /\ Sweeping.pc = "sweep"
           /\ Idle \in Passes /\ Idle.pc = "idle"
           /\ [Idle EXCEPT !.pc = "snap"] \in Passes
           /\ \A at \in PassState : /\ [pass EXCEPT !.pc = at] \in Passes
                                    /\ [pass EXCEPT !.pc = at].pc = at
                                    /\ [pass EXCEPT !.pc = at].got = pass.got
                                    /\ [pass EXCEPT !.pc = at].known = pass.known
BY DEF FleetType, Passes, PassState, Sweeping, Idle, Record, NoRecord

(* A pass is asked for; or it ends.                                        *)
LEMMA IdleEnds ==
    ASSUME FleetType, EndInv,
           TimerFires \/ RecoverCommand \/ PassPersists \/ PassReadFails
                      \/ (PassReads /\ ~Supervised)
    PROVE  FleetType' /\ EndInv'
<1>1. /\ UNCHANGED <<run, task, term, desk, cmux, up>> /\ raced \subseteq raced'
      /\ pass.pc = "idle" => up
  BY DEF TimerFires, RecoverCommand, PassPersists, PassReadFails, PassReads
<1>2. /\ pass' \in Passes
      /\ \/ pass'.pc \in {"idle", "snap"} /\ pass.pc \in {"idle", "snap", "persist"}
         \/ /\ pass'.pc = pass.pc /\ pass'.known = pass.known /\ pass'.got = pass.got
  <2>1. CASE Reconcile
    BY <2>1 DEF Reconcile, FleetType, Passes, PassState
  <2>2. CASE (PassEnds \/ pass' = Idle) /\ pass.pc \in {"snap", "persist"}
    BY <2>2, PassType DEF PassEnds, Idle
  <2> QED
    BY <2>1, <2>2 DEF TimerFires, RecoverCommand, PassPersists, PassReadFails, PassReads
<1>3. FleetType'
  BY <1>1, <1>2, FleetFold, FleetNext
<1> SUFFICES ASSUME raced' = {} PROVE EndParts'
  BY <1>3 DEF EndInv
<1>4. EndParts
  BY <1>1 DEF EndInv
<1>5. Numbered' /\ Alone' /\ Placed' /\ (Clean => Clean')
  <2>1. Stays
    BY <1>1, <1>2 DEF Stays
  <2> QED
    BY <1>3, <1>4, <2>1, Stayed
<1>6. PassActive' => PassActive /\ pass'.pc = pass.pc
                     /\ pass'.known = pass.known /\ pass'.got = pass.got
  BY <1>2 DEF PassActive
<1>7. TaskOwns'
  BY <1>1, <1>4, <1>6 DEF EndParts, TaskOwns, TaskActive, TermActive
<1>8. PassOwns'
  <2>1. CASE ~PassActive'
    BY <2>1 DEF PassOwns, PassActive, Resuming
  <2>2. CASE PassActive'
    BY <1>1, <1>4, <1>6, <2>2 DEF EndParts, PassOwns, PassActive, Resuming, Nobody, Over
  <2> QED
    BY <2>1, <2>2
<1>9. EndOwns'
  <2>1. ~up => pass'.pc = "idle"
    BY <1>1, <1>4
       DEF EndParts, EndOwns, TimerFires, RecoverCommand, PassPersists, PassReadFails, PassReads
  <2> QED
    BY <1>1, <1>4, <1>5, <1>6, <2>1 DEF EndParts, EndOwns, TermActive, Over
<1> QED
  BY <1>5, <1>7, <1>8, <1>9 DEF EndParts

(* A pass that reads while nothing overlaps knows of the Claude that lives. *)
LEMMA ReadEnds ==
    ASSUME FleetType, EndInv, PassReads, Supervised
    PROVE  FleetType' /\ EndInv'
<1>1. /\ UNCHANGED <<run, task, term, desk, cmux, up>> /\ pass.pc = "snap"
      /\ pass' = [pass EXCEPT !.pc = "visit", !.surfs = cmux.surfs, !.known = cmux.rec]
      /\ raced' = raced \cup Overlap(TaskActive \/ TermActive("stop"), "operation")
                     \cup Overlap(~CmuxSettled, "restart")
  BY DEF PassReads
<1>2. pass' \in Passes /\ pass'.pc = "visit" /\ pass'.known = cmux.rec
  BY <1>1 DEF FleetType, Passes, PassState
<1>3. FleetType'
  BY <1>1, <1>2, FleetFold, FleetNext
<1> SUFFICES ASSUME raced' = {} PROVE EndParts'
  BY <1>3 DEF EndInv
<1>4. EndParts /\ ~TaskActive /\ ~TermActive("stop") /\ CmuxSettled /\ up
      /\ run.st # "none"
  <2>1. EndParts /\ ~TaskActive /\ ~TermActive("stop") /\ CmuxSettled
    BY <1>1 DEF EndInv, Overlap
  <2> QED
    BY <1>1, <2>1 DEF EndParts, EndOwns, Supervised
<1>5. task.pc = "ended" /\ \A c \in Callers : ~TermActive(c)
  BY <1>4 DEF EndParts, EndOwns, TaskOwns, TaskActive, Callers
<1>6. Numbered' /\ Alone' /\ Placed' /\ (Clean => Clean')
  BY <1>1, <1>3, <1>4, Stayed DEF Stays
<1>7. TaskOwns'
  BY <1>1, <1>5 DEF TaskOwns, TaskActive, Launching, Prompting
<1>8. PassOwns'
  <2>1. cmux.rec.pid \in Nat /\ \A p \in Pids : p \in Nat
    BY DEF FleetType, Record, Pids
  <2>2. cmux.born \in Nat
    BY DEF FleetType
  <2>3. \A p \in Pids : cmux.home[p] # 0 => p = cmux.rec.pid
    BY <1>4, <2>1, <2>2 DEF EndParts, Alone, Numbered, CmuxSettled, Alive
  <2> QED
    BY <1>1, <1>2, <1>4, <2>1, <2>3 DEF EndParts, Numbered, PassOwns, Resuming, CmuxSettled
<1>9. EndOwns'
  BY <1>1, <1>4, <1>5, <1>6 DEF EndParts, EndOwns, TermActive, Over, Callers
<1> QED
  BY <1>6, <1>7, <1>8, <1>9 DEF EndParts

(* The pass looks at the session, and sweeps.                              *)
LEMMA LookEnds ==
    ASSUME FleetType, EndInv, PassVisits \/ PassSweeps \/ PassKills
    PROVE  FleetType' /\ EndInv'
<1>1. PassFrame /\ run' = run /\ PassActive
  BY DEF PassVisits, PassSweeps, PassKills, PassFrame, PassActive
<1>2. /\ pass' \in Passes
      /\ \/ pass'.pc \in {"sweep", "kill", "persist"}
            /\ pass.pc \in {"visit", "sweep", "kill"}
         \/ pass.pc = "visit" /\ pass'.pc = "alive"
            /\ pass'.known = IF run.sid THEN pass.known ELSE NoRecord
  <2>1. CASE PassVisits
    <3>1. Known \in Record
      BY DEF Known, FleetType, NoRecord, Record
    <3> HIDE DEF Known
    <3>2. pass \in Passes
      BY FleetFold
    <3>3. CASE Supervised
      <4>1. pass' = [pass EXCEPT !.pc = "alive", !.known = Known]
        BY <2>1, <3>3 DEF PassVisits
      <4>2. pass' \in Passes /\ pass'.pc = "alive" /\ pass'.known = Known
        BY <3>1, <3>2, <4>1 DEF Passes, PassState
      <4> QED
        BY <2>1, <4>2 DEF PassVisits, Known
    <3>4. CASE ~Supervised
      BY <2>1, <3>4, PassType DEF PassVisits
    <3> QED
      BY <3>3, <3>4
  <2>2. CASE PassSweeps
    BY <2>2 DEF PassSweeps, FleetType, Passes, PassState
  <2>3. CASE PassKills
    BY <2>3 DEF PassKills, PassGoes, FleetType, Passes, PassState
  <2> QED
    BY <2>1, <2>2, <2>3
<1>3. cmux' \in Machine /\ Shrinks
  <2>1. CASE cmux' = cmux
    BY <2>1, FleetFold DEF Shrinks
  <2>2. ASSUME NEW p \in Pids, cmux' = Killed(p) PROVE cmux' \in Machine /\ Shrinks
    BY <2>2, KilledType
  <2>3. cmux' = cmux \/ \E p \in Pids : cmux' = Killed(p)
    BY DEF PassVisits, PassSweeps, PassKills, FleetType
  <2> QED
    BY <2>1, <2>2, <2>3
<1>4. FleetType'
  BY <1>1, <1>2, <1>3, FleetFold, FleetNext DEF PassFrame
<1> SUFFICES ASSUME raced' = {} PROVE EndParts'
  BY <1>4 DEF EndInv
<1>5. EndParts /\ cmux.restore = {}
  BY <1>1, PassAlone DEF EndInv, PassFrame
<1>6. Numbered' /\ Alone' /\ Placed' /\ (Clean => Clean')
  <2>1. run'.sid => cmux.rec.pid # 0
    BY <1>1, <1>5 DEF EndParts, Numbered
  <2>2. \A s \in 1 .. cmux.made : Place(s) => Place(s)'
    BY <1>1, <1>2, <1>3 DEF Place, Shrinks, PassFrame
  <2> QED
    BY <1>3, <1>4, <1>5, <2>1, <2>2, Shrunk
<1>7. TaskOwns' /\ EndOwns'
  <2>1. Over' => Clean
    BY <1>1, <1>5 DEF PassFrame, Over, EndParts, EndOwns
  <2> QED
    BY <1>1, <1>5, <1>6, <2>1, PassMoves
<1>8. PassOwns'
  <2>1. cmux'.restore = {} /\ cmux'.rec = cmux.rec
    BY <1>3, <1>5 DEF Shrinks
  <2>2. CASE pass'.pc = "alive"
    <3>1. cmux.rec.pid \in Nat /\ NoRecord.pid = 0 /\ 0 \notin Pids
      BY DEF FleetType, Record, NoRecord, Pids
    <3> QED
      BY <1>1, <1>2, <1>3, <1>5, <2>1, <2>2, <3>1
         DEF EndParts, PassOwns, PassActive, Resuming, Shrinks
  <2>3. CASE pass'.pc \in {"sweep", "kill", "persist"}
    BY <2>1, <2>3 DEF PassOwns, Resuming
  <2> QED
    BY <1>2, <2>2, <2>3
<1> QED
  BY <1>6, <1>7, <1>8 DEF EndParts

(* What the pass has seen of the Claude of a session that it knows.        *)
LEMMA SeenIsKnown ==
    ASSUME FleetType, EndParts, Deciding
    PROVE  /\ Seen \in Record /\ Seen.pid <= cmux.rec.pid
           /\ Verdict = "rebind" => Seen.pid # 0
                                    /\ \A p \in Pids : cmux.home[p] # 0 => cmux.home[p] = Seen.surf
           /\ Verdict = "resume" => run.sid /\ Nobody
<1>1. /\ pass.known \in Record /\ NoRecord \in Record /\ NoRecord.pid = 0
      /\ cmux.rec.pid \in Nat /\ cmux.born \in Nat /\ \A p \in Pids : p # 0
  BY DEF FleetType, NoRecord, Record, Pids
<1>2. /\ pass.pc \in {"visit", "alive"} /\ pass.known.pid <= cmux.rec.pid
      /\ \A p \in Pids : p = pass.known.pid /\ cmux.home[p] # 0
                         => cmux.home[p] = pass.known.surf
      /\ run.sid => /\ pass.known.pid # 0
                    /\ \A p \in Pids : cmux.home[p] # 0 => p = pass.known.pid
      /\ \A p \in Pids : cmux.home[p] # 0 => p = cmux.born
  BY DEF Deciding, EndParts, PassOwns, Alone
<1>3. /\ Seen \in {pass.known, NoRecord}
      /\ run.sid => Seen = pass.known
      /\ pass.pc = "visit" => ProcessOf(Seen) = 0
  BY <1>2 DEF Seen, Known, Deciding
<1>4. Seen \in Record /\ Seen.pid <= cmux.rec.pid
  BY <1>1, <1>2, <1>3
<1>5. ASSUME Verdict = "rebind"
      PROVE  Seen.pid # 0 /\ \A p \in Pids : cmux.home[p] # 0 => cmux.home[p] = Seen.surf
  <2>1. Seen # NoRecord /\ ProcessAlive
    BY <1>5 DEF Verdict
  <2>2. Seen = pass.known /\ Seen.pid \in Pids /\ cmux.home[Seen.pid] # 0
    BY <1>3, <2>1 DEF ProcessAlive, ProcessOf, Alive
  <2> QED
    BY <1>1, <1>2, <2>2
<1>6. ASSUME Verdict = "resume" PROVE run.sid /\ Nobody
  <2>1. run.sid /\ (Seen = NoRecord \/ ~ProcessAlive)
    BY <1>6 DEF Verdict
  <2>2. Seen = pass.known /\ Seen.pid # 0 /\ Seen # NoRecord
    BY <1>1, <1>2, <1>3, <2>1
  <2>3. ~Alive(Seen.pid)
    BY <2>1, <2>2 DEF ProcessAlive, ProcessOf
  <2> QED
    BY <1>2, <2>1, <2>2, <2>3 DEF Nobody, Alive
<1> QED
  BY <1>4, <1>5, <1>6

(* The verdict: the session is bound to the Claude that lives, given up,   *)
(* or resumed when none does.                                              *)
LEMMA VerdictEnds ==
    ASSUME FleetType, EndInv, PassRebinds \/ PassGivesUp \/ PassResumes
    PROVE  FleetType' /\ EndInv'
<1>1. PassFrame /\ cmux' = cmux /\ PassActive /\ Deciding
  BY DEF PassRebinds, PassGivesUp, PassResumes, PassFrame, PassActive, Deciding
<1>2. \/ /\ Verdict = "rebind" /\ \E st \in {"running", "ready"} : run' = Bound(Seen, st)
         /\ pass' = Sweeping
      \/ /\ \E st \in {"failed", "recovering"} : run' = In(st)
         /\ pass' = Sweeping
      \/ /\ Verdict = "resume" /\ pass' = [pass EXCEPT !.pc = "creating"]
         /\ run' = [run EXCEPT !.attempts = @ + 1, !.st = "recovering"]
  BY DEF PassRebinds, PassGivesUp, PassResumes, Becomes, PassForgets, PassGoes
<1>3. /\ run' \in Sessions /\ run'.st \in {"running", "ready", "failed", "recovering"}
      /\ \/ Verdict = "rebind" /\ run'.sid = TRUE /\ run'.surf = Seen.surf
            /\ pass'.pc = "sweep"
         \/ run'.sid = run.sid /\ run'.surf = run.surf /\ pass'.pc = "sweep"
         \/ Verdict = "resume" /\ run'.sid = run.sid /\ run'.surf = run.surf
            /\ pass'.pc = "creating"
  <2>1. Sweeping.pc = "sweep" /\ [pass EXCEPT !.pc = "creating"].pc = "creating"
    BY PassType DEF PassState
  <2>2. ASSUME NEW st \in {"running", "ready"}, run' = Bound(Seen, st), Seen \in Record
        PROVE  run' \in Sessions /\ run'.st = st /\ run'.sid = TRUE /\ run'.surf = Seen.surf
    <3>1. st \in SessionState
      BY DEF SessionState
    <3> QED
      BY <2>2, <3>1, InType
  <2>3. ASSUME NEW st \in {"failed", "recovering"}, run' = In(st)
        PROVE  run' \in Sessions /\ run'.st = st /\ run'.sid = run.sid /\ run'.surf = run.surf
    BY <2>3, InType DEF SessionState
  <2>4. ASSUME run' = [run EXCEPT !.attempts = @ + 1, !.st = "recovering"]
        PROVE  run' \in Sessions /\ run'.st = "recovering" /\ run'.sid = run.sid
               /\ run'.surf = run.surf
    <3> DEFINE attempts == run.attempts + 1
    <3>1. run \in Sessions /\ attempts \in Nat
      BY FleetFold DEF Sessions
    <3>2. run' = [run EXCEPT !.attempts = attempts, !.st = "recovering"]
      BY <2>4
    <3> HIDE DEF attempts
    <3> QED
      BY <3>1, <3>2 DEF Sessions, SessionState
  <2>5. Seen \in Record
    BY DEF FleetType, NoRecord, Record, Seen, Known
  <2> QED
    BY <1>2, <2>1, <2>2, <2>3, <2>4, <2>5
<1>4. pass' \in Passes
  BY <1>2, PassType DEF PassState
<1>5. FleetType'
  BY <1>1, <1>3, <1>4, FleetFold, FleetNext DEF PassFrame
<1> SUFFICES ASSUME raced' = {} PROVE EndParts'
  BY <1>5 DEF EndInv
<1>6. EndParts
  BY <1>1 DEF EndInv, PassFrame
<1>7. /\ task.pc = "ended" /\ cmux.restore = {} /\ pass.pc # "created"
      /\ Seen \in Record /\ Seen.pid <= cmux.rec.pid
      /\ Verdict = "rebind" => Seen.pid # 0
                               /\ \A p \in Pids : cmux.home[p] # 0 => cmux.home[p] = Seen.surf
      /\ Verdict = "resume" => run.sid /\ Nobody
  <2>1. pass.pc # "created"
    BY <1>1 DEF Deciding
  <2>2. task.pc = "ended" /\ cmux.restore = {}
    BY <1>1, <1>6, PassAlone
  <2>3. /\ Seen \in Record /\ Seen.pid <= cmux.rec.pid
        /\ Verdict = "rebind" => Seen.pid # 0
                                 /\ \A p \in Pids : cmux.home[p] # 0 => cmux.home[p] = Seen.surf
        /\ Verdict = "resume" => run.sid /\ Nobody
    BY <1>1, <1>6, SeenIsKnown
  <2> QED
    BY <2>1, <2>2, <2>3
<1>8. Numbered'
  <2>1. cmux.rec.pid \in Nat /\ Seen.pid \in Nat
    BY <1>7 DEF FleetType, Record
  <2>2. Verdict = "rebind" => cmux.rec.pid # 0
    BY <1>7, <2>1
  <2>3. run.sid => cmux.rec.pid # 0
    BY <1>6 DEF EndParts, Numbered
  <2>4. run'.sid => cmux.rec.pid # 0
    <3>1. Verdict = "rebind" \/ run'.sid = run.sid
      BY <1>3
    <3> QED
      BY <2>2, <2>3, <3>1, Zenon
  <2> QED
    BY <1>1, <1>6, <2>4 DEF EndParts, Numbered
<1>9. Alone' /\ (Clean => Clean')
  BY <1>1, <1>6 DEF EndParts, Alone, Nobody, Clean
<1>10. Placed'
  <2>1. \A p \in Pids : cmux.home[p] # 0 => cmux.home[p] \in cmux.lost
                                            \/ cmux.home[p] = run'.surf
    <3>1. \A s : Place(s) => s \in cmux.lost \/ s = run.surf
      BY <1>7 DEF Place
    <3> QED
      BY <1>3, <1>6, <1>7, <3>1 DEF EndParts, Placed
  <2> QED
    BY <1>1, <1>7, <2>1 DEF Placed, Place
<1>11. ~Over'
  BY <1>3 DEF Over
<1>12. TaskOwns' /\ EndOwns'
  <2>1. run.sid => run'.sid
    BY <1>3
  <2> QED
    BY <1>1, <1>6, <1>11, <2>1, PassMoves
<1>13. PassOwns'
  <2>1. pass'.pc = "creating" => run'.sid /\ Nobody'
    BY <1>1, <1>3, <1>7 DEF Nobody
  <2> QED
    BY <1>1, <1>3, <1>7, <1>11, <2>1 DEF PassOwns, Resuming
<1> QED
  BY <1>8, <1>9, <1>10, <1>12, <1>13 DEF EndParts

(* A workspace is made for a session of which no Claude lives.             *)
LEMMA RemadeEnds ==
    ASSUME FleetType, EndInv, ResumeMade
    PROVE  FleetType' /\ EndInv'
<1>1. /\ PassFrame /\ run' = run /\ pass.pc = "creating" /\ MakesWorkspace /\ PassActive
      /\ pass' = [pass EXCEPT !.pc = "created", !.got = cmux.made + 1]
  BY DEF ResumeMade, PassFrame, PassActive
<1>2. /\ cmux \in Machine /\ cmux' \in Machine
      /\ cmux'.made = cmux.made + 1 /\ cmux'.born = cmux.born + 1
      /\ cmux.born + 1 \in Pids /\ cmux'.home[cmux.born + 1] = cmux.made + 1
      /\ \A p \in Pids : p # cmux.born + 1 => cmux'.home[p] = cmux.home[p]
      /\ cmux'.restore = cmux.restore /\ cmux'.lost = cmux.lost /\ cmux'.rec = cmux.rec
  BY <1>1, MakeType, FleetFold
<1>3. pass' \in Passes /\ pass'.pc = "created" /\ pass'.got = cmux.made + 1
  <2> DEFINE got == cmux.made + 1
  <2>1. got \in Nat /\ pass \in Passes
    BY <1>2, FleetFold DEF Machine
  <2>2. pass' = [pass EXCEPT !.pc = "created", !.got = got]
    BY <1>1
  <2> HIDE DEF got
  <2>3. pass' \in Passes /\ pass'.pc = "created" /\ pass'.got = got
    BY <2>1, <2>2 DEF Passes, PassState
  <2> QED
    BY <2>3 DEF got
<1>4. FleetType'
  BY <1>1, <1>2, <1>3, FleetFold, FleetNext DEF PassFrame
<1> SUFFICES ASSUME raced' = {} PROVE EndParts'
  BY <1>4 DEF EndInv
<1>5. EndParts /\ cmux.restore = {} /\ Nobody /\ ~Over /\ run.sid
  <2>1. EndParts
    BY <1>1 DEF EndInv, PassFrame
  <2> QED
    BY <1>1, <2>1, PassAlone DEF EndParts, PassOwns, Resuming
<1>6. /\ cmux.born \in Nat /\ cmux.made \in Nat
      /\ \A p \in Pids : cmux'.home[p] # 0 => p = cmux'.born /\ cmux'.home[p] = cmux.made + 1
  BY <1>2, <1>5 DEF Nobody, Machine
<1>7. Numbered'
  <2>1. cmux.rec.pid \in Nat /\ cmux.rec.surf \in Nat
    BY <1>2 DEF Machine, Record
  <2> QED
    BY <1>1, <1>2, <1>5, <1>6, <2>1 DEF EndParts, Numbered
<1>8. Alone' /\ Placed'
  BY <1>2, <1>3, <1>5, <1>6 DEF Alone, Placed, Place
<1>9. TaskOwns' /\ EndOwns'
  <2>1. ~Over'
    BY <1>1, <1>5 DEF PassFrame, Over
  <2> QED
    BY <1>1, <1>5, <2>1, PassMoves
<1>10. PassOwns'
  <2>1. ~Over'
    BY <1>1, <1>5 DEF PassFrame, Over
  <2> QED
    BY <1>1, <1>2, <1>3, <1>5, <1>6, <2>1 DEF PassOwns, Resuming
<1> QED
  BY <1>7, <1>8, <1>9, <1>10 DEF EndParts

(* The resumed session is found, registers, or fails.                      *)
LEMMA ResumedEnds ==
    ASSUME FleetType, EndInv, ResumeFound \/ ResumeRegisters \/ ResumeFails
    PROVE  FleetType' /\ EndInv'
<1>1. /\ PassFrame /\ PassActive
      /\ \/ /\ pass.pc = "created" /\ pass' = [pass EXCEPT !.pc = "registering"]
            /\ run' = [run EXCEPT !.surf = pass.got, !.st = "registering"] /\ cmux' = cmux
         \/ /\ pass.pc = "registering" /\ cmux.rec.surf = pass.got /\ pass' = Sweeping
            /\ run' = Bound(cmux.rec, "ready") /\ cmux' = cmux
         \/ /\ pass.pc \in {"creating", "created", "registering"} /\ pass' = Sweeping
            /\ run' = In("failed")
            /\ cmux' = IF pass.pc = "created" THEN Lost(pass.got) ELSE cmux
  BY DEF ResumeFound, ResumeRegisters, ResumeFails, PassFrame, PassActive, Becomes,
         PassGoes, PassForgets
<1>2. /\ cmux' \in Machine /\ Shrinks /\ cmux'.home = cmux.home
      /\ cmux'.restore = cmux.restore
      /\ cmux' = cmux \/ pass.got \in cmux'.lost
  <2>1. CASE cmux' = cmux
    BY <2>1, FleetFold DEF Shrinks
  <2>2. CASE cmux' = Lost(pass.got)
    <3>1. cmux' = [cmux EXCEPT !.lost = @ \cup {pass.got}] /\ {pass.got} \in SUBSET Nat
      BY <2>2 DEF Lost, FleetType
    <3>2. /\ cmux' \in Machine /\ Shrinks /\ cmux'.lost = cmux.lost \cup {pass.got}
          /\ cmux'.home = cmux.home /\ cmux'.restore = cmux.restore
      BY <3>1, LostType
    <3> QED
      BY <3>2
  <2> QED
    BY <1>1, <2>1, <2>2
<1>3. /\ run' \in Sessions /\ pass' \in Passes
      /\ \/ /\ pass.pc = "created" /\ pass'.pc = "registering" /\ pass'.got = pass.got
            /\ run'.surf = pass.got /\ run'.sid = run.sid /\ run'.st = "registering"
         \/ /\ pass.pc = "registering" /\ pass'.pc = "sweep" /\ run'.st = "ready"
            /\ run'.surf = pass.got /\ run'.sid = TRUE
         \/ /\ Resuming /\ pass'.pc = "sweep" /\ run'.st = "failed"
            /\ run'.surf = run.surf /\ run'.sid = run.sid
            /\ (pass.pc = "created" => pass.got \in cmux'.lost)
  <2>1. ASSUME pass.pc = "created", pass' = [pass EXCEPT !.pc = "registering"],
               run' = [run EXCEPT !.surf = pass.got, !.st = "registering"]
        PROVE  /\ run' \in Sessions /\ pass' \in Passes
               /\ pass'.pc = "registering" /\ pass'.got = pass.got
               /\ run'.surf = pass.got /\ run'.sid = run.sid /\ run'.st = "registering"
    BY <2>1, FleetFold DEF Sessions, Passes, PassState, SessionState
  <2>2. ASSUME pass' = Sweeping, run' = Bound(cmux.rec, "ready"), cmux.rec.surf = pass.got
        PROVE  /\ run' \in Sessions /\ pass' \in Passes
               /\ pass'.pc = "sweep" /\ run'.st = "ready"
               /\ run'.surf = pass.got /\ run'.sid = TRUE
    <3>1. cmux.rec \in Record /\ "ready" \in SessionState
      BY DEF FleetType, SessionState
    <3> QED
      BY <2>2, <3>1, InType, PassType
  <2>3. ASSUME pass' = Sweeping, run' = In("failed")
        PROVE  /\ run' \in Sessions /\ pass' \in Passes
               /\ pass'.pc = "sweep" /\ run'.st = "failed"
               /\ run'.surf = run.surf /\ run'.sid = run.sid
    BY <2>3, InType, PassType DEF SessionState
  <2>4. ASSUME pass.pc = "created", cmux' = Lost(pass.got) PROVE pass.got \in cmux'.lost
    BY <2>4, FleetFold DEF Lost, Machine
  <2> QED
    BY <1>1, <2>1, <2>2, <2>3, <2>4 DEF Resuming
<1>4. FleetType'
  BY <1>1, <1>2, <1>3, FleetFold, FleetNext DEF PassFrame
<1> SUFFICES ASSUME raced' = {} PROVE EndParts'
  BY <1>4 DEF EndInv
<1>5. EndParts /\ cmux.restore = {} /\ task.pc = "ended"
  <2>1. EndParts
    BY <1>1 DEF EndInv, PassFrame
  <2> QED
    BY <1>1, <2>1, PassAlone
<1>6. run.sid /\ (pass.pc = "registering" => run.surf = pass.got)
      /\ (pass.pc = "created" => \A p \in Pids : cmux.home[p] # 0 => cmux.home[p] = pass.got)
  BY <1>3, <1>5 DEF EndParts, PassOwns, Resuming
<1>7. Numbered'
  BY <1>2, <1>5, <1>6 DEF EndParts, Numbered, Shrinks
<1>8. Alone' /\ (Clean => Clean')
  BY <1>2, <1>5 DEF EndParts, Alone, Nobody, Clean, Shrinks
<1>9. Placed'
  <2>1. \A p \in Pids : cmux.home[p] # 0 => cmux.home[p] \in cmux'.lost
                                            \/ cmux.home[p] = run'.surf
    <3>1. \A s : Place(s) => \/ s \in cmux.lost \/ s = run.surf
                             \/ (pass.pc = "created" /\ s = pass.got)
      BY <1>5 DEF Place
    <3> QED
      BY <1>2, <1>3, <1>5, <1>6, <3>1 DEF EndParts, Placed, Shrinks
  <2> QED
    BY <1>2, <1>5, <2>1 DEF Placed, Place
<1>10. ~Over'
  BY <1>3 DEF Over
<1>11. TaskOwns' /\ EndOwns'
  <2>1. run.sid => run'.sid
    BY <1>3
  <2> QED
    BY <1>1, <1>5, <1>10, <2>1, PassMoves
<1>12. PassOwns'
  BY <1>2, <1>3, <1>5, <1>6, <1>10 DEF PassOwns, Resuming
<1> QED
  BY <1>7, <1>8, <1>9, <1>11, <1>12 DEF EndParts

-----------------------------------------------------------------------------
(* pi dies, and starts again.                                              *)
LEMMA CrashEnds ==
    ASSUME FleetType, EndInv, Crash
    PROVE  FleetType' /\ EndInv'
<1> DEFINE S == {task.got, pass.got} \ {0, run.surf}
<1>1. /\ run' = run /\ raced' = raced /\ up' = FALSE
      /\ task' = [pc |-> "ended", got |-> 0] /\ term' = [c \in Callers |-> "off"]
      /\ pass' = Idle /\ desk' = FreeDesk
      /\ cmux' = [cmux EXCEPT !.lost = @ \cup S]
  BY DEF Crash
<1>2. /\ cmux' \in Machine /\ Shrinks /\ cmux'.lost = cmux.lost \cup S
  <2>1. S \in SUBSET Nat
    BY DEF FleetType
  <2> QED
    BY <1>1, <2>1, LostType
<1>3. FleetType'
  <2>1. task' \in [pc : TaskState, got : Nat]
    BY <1>1 DEF TaskState
  <2>2. pass' \in Passes
    BY <1>1, PassType
  <2>3. desk'.prev \in SessionState /\ desk'.pc = "idle"
    BY <1>1 DEF FreeDesk, SessionState
  <2>4. term' \in [Callers -> {"off", "exit", "kill", "end", "done"}]
    BY <1>1
  <2> QED
    BY <1>1, <1>2, <2>1, <2>2, <2>3, <2>4, FleetFold, FleetNext
<1> SUFFICES ASSUME raced' = {} PROVE EndParts'
  BY <1>3 DEF EndInv
<1>4. EndParts
  BY <1>1 DEF EndInv
<1>5. Numbered' /\ Alone' /\ Placed' /\ (Clean => Clean')
  <2>1. run'.sid => cmux.rec.pid # 0
    BY <1>1, <1>4 DEF EndParts, Numbered
  <2>2. \A s \in 1 .. cmux.made : Place(s) => Place(s)'
    <3>1. cmux.made \in Nat
      BY DEF FleetType
    <3> QED
      BY <1>1, <1>2, <3>1 DEF Place
  <2> QED
    BY <1>2, <1>3, <1>4, <2>1, <2>2, Shrunk
<1>6. pass'.pc = "idle" /\ desk'.pc = "idle" /\ desk'.queue = <<>>
  BY <1>1, PassType DEF FreeDesk
<1>7. TaskOwns'
  <2>1. task'.pc = "ended"
    BY <1>1
  <2> QED
    BY <2>1 DEF TaskOwns, TaskActive, Launching, Prompting
<1>8. PassOwns'
  BY <1>6 DEF PassOwns, PassActive, Resuming
<1>9. EndOwns'
  <2>1. Over' => Over
    BY <1>1, <1>6 DEF Over
  <2>2. \A c \in Callers : term'[c] = "off"
    BY <1>1
  <2> QED
    BY <1>4, <1>5, <1>6, <2>1, <2>2 DEF EndParts, EndOwns, TermActive, PassActive, Callers
<1> QED
  BY <1>5, <1>7, <1>8, <1>9 DEF EndParts

LEMMA StartEnds ==
    ASSUME FleetType, EndInv, Start
    PROVE  FleetType' /\ EndInv'
<1>1. /\ UNCHANGED <<task, term, desk, cmux, raced>> /\ ~up /\ up'
      /\ run' = IF run.st = "terminated" THEN NoSession ELSE run
      /\ pass' = pass \/ Reconcile
  BY DEF Start
<1>2. run' \in Sessions
  <2>1. NoSession \in Sessions
    BY DEF NoSession, Sessions, SessionState
  <2> QED
    BY <1>1, <2>1, FleetFold
<1>3. pass' \in Passes /\ (pass.pc = "idle" => pass'.pc \in {"idle", "snap"})
  BY <1>1, FleetFold DEF Reconcile, Passes, PassState
<1>4. FleetType'
  BY <1>1, <1>2, <1>3, FleetFold, FleetNext
<1> SUFFICES ASSUME raced' = {} PROVE EndParts'
  BY <1>4 DEF EndInv
<1>5. EndParts /\ desk.pc = "idle" /\ pass.pc = "idle"
  BY <1>1 DEF EndInv, EndParts, EndOwns
<1>6. (run.st = "terminated" => Clean) /\ (Clean => Clean')
  BY <1>1, <1>5 DEF EndParts, EndOwns, Over, Clean
<1>7. run'.sid => run.sid
  BY <1>1 DEF NoSession
<1>8. Numbered' /\ Alone'
  BY <1>1, <1>5, <1>7 DEF EndParts, Numbered, Alone, Nobody
<1>9. Placed'
  <2>1. CASE run.st = "terminated"
    BY <1>1, <1>6, <2>1 DEF Clean, Placed, Place
  <2>2. CASE run.st # "terminated"
    BY <1>1, <1>5, <2>2 DEF EndParts, Placed, Place
  <2> QED
    BY <2>1, <2>2
<1>10. ~PassActive' /\ ~PassActive
  BY <1>3, <1>5 DEF PassActive
<1>11. TaskOwns'
  <2>1. run'.st = run.st \/ run'.st = "none"
    BY <1>1 DEF NoSession
  <2>2. run'.surf = run.surf \/ run'.surf = 0
    BY <1>1 DEF NoSession
  <2> QED
    BY <1>1, <1>5, <1>7, <1>10, <2>1, <2>2 DEF EndParts, TaskOwns, TaskActive, TermActive
<1>12. PassOwns'
  BY <1>10 DEF PassOwns, PassActive, Resuming
<1>13. EndOwns'
  <2>1. ~Over'
    BY <1>1, <1>5 DEF Over, NoSession
  <2> QED
    BY <1>1, <1>5, <1>6, <1>10, <2>1 DEF EndParts, EndOwns, TermActive
<1> QED
  BY <1>8, <1>9, <1>11, <1>12, <1>13 DEF EndParts

-----------------------------------------------------------------------------
(* The initial state, and every step.                                      *)
LEMMA EndInit == Init => FleetType /\ EndInv
<1> SUFFICES ASSUME Init PROVE FleetType /\ EndParts
  BY DEF EndInv
<1>1. FleetType
  <2>1. run \in Sessions
    BY DEF Init, NoSession, Sessions, SessionState
  <2>2. pass \in Passes
    BY DEF Init, Idle, Passes, PassState, Record, NoRecord
  <2>3. cmux \in Machine
    BY DEF Init, Machine, Record, NoRecord
  <2>4. task \in [pc : TaskState, got : Nat] /\ desk.prev \in SessionState
    BY DEF Init, TaskState, FreeDesk, SessionState
  <2>5. term \in [Callers -> {"off", "exit", "kill", "end", "done"}]
    BY DEF Init
  <2> QED
    BY <2>1, <2>2, <2>3, <2>4, <2>5, FleetFold
<1>2. /\ \A p \in Pids : cmux.home[p] = 0 /\ p # 0
      /\ cmux.restore = {} /\ cmux.made = 0 /\ cmux.born = 0 /\ cmux.surfs = {}
      /\ cmux.rec.pid = 0 /\ cmux.rec.surf = 0
      /\ run.sid = FALSE /\ run.surf = 0 /\ run.st = "none"
  BY DEF Init, NoRecord, NoSession, Pids
<1>3. /\ task.pc = "none" /\ pass.pc = "idle" /\ desk.pc = "idle" /\ up
      /\ \A c \in Callers : term[c] = "off"
  BY DEF Init, Idle, FreeDesk
<1>4. Numbered /\ Alone /\ Placed
  BY <1>2 DEF Numbered, Alone, Placed, Nobody
<1>5. TaskOwns /\ PassOwns
  BY <1>2, <1>3
     DEF TaskOwns, PassOwns, TaskActive, PassActive, TermActive, Resuming, Launching, Prompting,
         Callers
<1>6. EndOwns
  BY <1>2, <1>3 DEF EndOwns, TermActive, Over, Callers
<1> QED
  BY <1>1, <1>4, <1>5, <1>6 DEF EndParts

LEMMA EndStep == BrokerInv /\ FleetType /\ EndInv /\ [Next]_vars => FleetType' /\ EndInv'
<1> SUFFICES ASSUME BrokerInv, FleetType, EndInv, [Next]_vars PROVE FleetType' /\ EndInv'
  OBVIOUS
<1>1. CASE ClaudeRegisters \/ CmuxRestarts \/ CmuxRestores \/ UserCloses
  BY <1>1, RegisterEnds, RestartEnds, RestoreEnds, CloseEnds
<1>2. CASE RunTask \/ TaskStep \/ TrustAsked \/ TaskFails
  BY <1>2, LaunchEnds, MadeEnds, BindEnds, FailEnds, BeginsEnds, OverEnds DEF TaskStep
<1>3. CASE StopCommand \/ \E c \in Callers : TermStep(c)
  BY <1>3, BeginsEnds, TermEnds
<1>4. CASE TimerFires \/ RecoverCommand
  BY <1>4, IdleEnds
<1>5. CASE PassStep \/ PassReadFails \/ ResumeFails
  BY <1>5, IdleEnds, ReadEnds, LookEnds, VerdictEnds, RemadeEnds, ResumedEnds DEF PassStep
<1>6. CASE Asks \/ AsksAgain \/ DeskStep \/ DeskDecides \/ Tick
  BY <1>6, BrokerEnds, DeskEnds DEF DeskStep
<1>7. CASE Crash \/ Start
  BY <1>7, CrashEnds, StartEnds
<1>8. CASE StreamAcks \/ UNCHANGED vars
  <2>1. UNCHANGED <<run, task, term, pass, desk, cmux, up, raced>>
    BY <1>8 DEF vars, StreamAcks
  <2>2. FleetType'
    BY <2>1 DEF FleetType
  <2>3. EndParts => EndParts'
    BY <2>1 DEF EndParts, Numbered, Alone, Placed, Place, TaskOwns, PassOwns, EndOwns, Nobody,
                Clean, Over, Resuming, TaskActive, PassActive, TermActive
  <2> QED
    BY <2>1, <2>2, <2>3 DEF EndInv
<1> QED
  BY <1>1, <1>2, <1>3, <1>4, <1>5, <1>6, <1>7, <1>8 DEF Next

-----------------------------------------------------------------------------
(* The Claude a terminated session is bound to is dead, whatever became of *)
(* its workspace: terminate() kills it by its process.                     *)

Gone == \A p \in Pids : p = run.pid => cmux.home[p] = 0
Ending == Over \/ \E c \in Callers : term[c] = "end"
DeadParts == run.pid <= cmux.born /\ (Ending => Gone)
DeadInv == raced = {} => DeadParts

(* Claudes get new numbers, and none comes back.                           *)
Ages == /\ cmux.born <= cmux'.born
        /\ \A p \in Pids : p <= cmux.born /\ cmux.home[p] = 0 => cmux'.home[p] = 0

LEMMA DeadKept ==
    ASSUME FleetType, FleetType', DeadParts, Ages, run'.pid = run.pid, Ending' => Ending
    PROVE  DeadParts'
<1>1. /\ cmux.born \in Nat /\ cmux'.born \in Nat /\ run.pid \in Nat
      /\ \A p \in Pids : p \in Nat
  BY DEF FleetType, Pids
<1> QED
  BY <1>1 DEF DeadParts, Gone, Ages

(* What cmux does.                                                         *)
LEMMA CmuxAges ==
    ASSUME FleetType, \/ MakesWorkspace \/ ClaudeRegisters \/ CmuxRestarts \/ CmuxRestores
                      \/ cmux' = cmux \/ \E s : cmux' = Without(s)
                      \/ \E p \in Pids : cmux' = Killed(p)
                      \/ cmux' \in {Lost(run.surf), Deserted(run.surf)}
                      \/ \E S \in SUBSET Nat : cmux' = [cmux EXCEPT !.lost = @ \cup S]
    PROVE  Ages
<1>1. /\ cmux \in Machine /\ cmux.born \in Nat /\ cmux.home \in [Pids -> Nat]
      /\ \A p \in Pids : p \in Nat
  BY FleetFold DEF Machine, Pids
<1>2. ASSUME Shrinks PROVE Ages
  BY <1>1, <1>2 DEF Shrinks, Ages
<1>3. CASE MakesWorkspace
  BY <1>1, <1>3, MakeType DEF Ages
<1>4. CASE ClaudeRegisters
  <2>1. PICK rec : cmux' = [cmux EXCEPT !.rec = rec]
    BY <1>4 DEF ClaudeRegisters
  <2> QED
    BY <1>1, <2>1 DEF Ages, Machine
<1>5. CASE CmuxRestarts
  <2>1. PICK S : cmux' = [cmux EXCEPT !.home = [p \in Pids |-> 0], !.restore = S]
    BY <1>5 DEF CmuxRestarts
  <2> QED
    BY <1>1, <2>1 DEF Ages, Machine
<1>6. CASE CmuxRestores
  <2>1. PICK s \in cmux.restore :
           cmux' = IF cmux.born < MaxPids
                   THEN [cmux EXCEPT !.born = @ + 1, !.home[cmux.born + 1] = s, !.restore = @ \ {s}]
                   ELSE [cmux EXCEPT !.restore = @ \ {s}]
    BY <1>6 DEF CmuxRestores
  <2>2. CASE cmux.born < MaxPids
    <3> DEFINE born == cmux.born + 1
               home == [cmux.home EXCEPT ![cmux.born + 1] = s]
    <3>1. cmux' = [cmux EXCEPT !.born = born, !.home = home, !.restore = @ \ {s}]
      BY <1>1, <2>1, <2>2 DEF Machine
    <3>2. \A p \in Pids : p <= cmux.born => home[p] = cmux.home[p]
      BY <1>1
    <3>3. born \in Nat /\ cmux.born <= born
      BY <1>1
    <3> HIDE DEF born, home
    <3>4. cmux'.born = born /\ cmux'.home = home
      BY <1>1, <3>1 DEF Machine
    <3> QED
      BY <3>2, <3>3, <3>4 DEF Ages
  <2>3. CASE ~(cmux.born < MaxPids)
    BY <1>1, <2>1, <2>3 DEF Ages, Machine
  <2> QED
    BY <2>2, <2>3
<1>7. CASE cmux' = cmux
  BY <1>1, <1>7 DEF Ages
<1>8. CASE \E s : cmux' = Without(s)
  BY <1>2, <1>8, WithoutType
<1>9. CASE \E p \in Pids : cmux' = Killed(p)
  BY <1>2, <1>9, KilledType
<1>10. CASE \E S \in SUBSET Nat : cmux' = [cmux EXCEPT !.lost = @ \cup S]
  BY <1>2, <1>10, LostType
<1>11. CASE cmux' \in {Lost(run.surf), Deserted(run.surf)}
  BY <1>2, <1>11, LosesType
<1> QED
  BY <1>3, <1>4, <1>5, <1>6, <1>7, <1>8, <1>9, <1>10, <1>11

(* A session that is bound anew is neither terminated nor being so.        *)
LEMMA DeadBound ==
    ASSUME FleetType, FleetType', EndParts, BrokerInv, raced' = raced,
           \/ SessionRegisters \/ TurnCompletes \/ TurnRecovered
           \/ PassRebinds \/ ResumeRegisters
    PROVE  DeadParts'
<1>1. /\ term' = term /\ cmux' = cmux
      /\ \E st \in {"ready", "recovering", "running"} :
            run' = Bound(cmux.rec, st) \/ (PassRebinds /\ run' = Bound(Seen, st))
      /\ task.pc \in {"registering", "running"} \/ PassActive
  BY DEF SessionRegisters, TurnCompletes, TurnRecovered, PassRebinds, ResumeRegisters,
         Becomes, PassActive, Deciding
<1>2. PassRebinds => Seen \in Record /\ Seen.pid <= cmux.rec.pid
  BY SeenIsKnown DEF PassRebinds, PassActive, Deciding
<1>3. /\ cmux.rec \in Record /\ cmux.rec.pid <= cmux.born
      /\ cmux.rec.pid \in Nat /\ cmux.born \in Nat
  BY DEF FleetType, Record, EndParts, Numbered
<1>4. /\ run'.st \in {"ready", "recovering", "running"}
      /\ run'.pid = cmux.rec.pid \/ (PassRebinds /\ run'.pid = Seen.pid)
  BY <1>1, <1>2, <1>3 DEF FleetType, Bound
<1>5. ~Ending'
  <2>1. \A c \in Callers : ~TermActive(c)
    BY <1>1, EndingAlone
  <2> QED
    BY <1>1, <1>4, <2>1 DEF Ending, Over, TermActive
<1>6. run'.pid <= cmux'.born
  <2>1. Seen \in Record => Seen.pid \in Nat
    BY DEF Record
  <2> QED
    BY <1>1, <1>2, <1>3, <1>4, <2>1
<1> QED
  BY <1>5, <1>6 DEF DeadParts

(* The steps of the others change its state, if any, to one that is not    *)
(* the end of it.                                                          *)
LEMMA DeadMoves ==
    ASSUME FleetType, FleetType', DeadParts,
           \/ RunTask \/ LaunchBegins \/ WorkspaceMade \/ WorkspaceFound \/ TrustAsked
           \/ TrustGiven \/ PromptSent \/ PromptAccepted \/ TaskFails \/ PassGivesUp
           \/ PassResumes \/ ResumeMade \/ ResumeFound \/ ResumeFails
    PROVE  DeadParts'
<1>1. term' = term /\ desk' = desk /\ run \in Sessions
  BY FleetFold
     DEF RunTask, LaunchBegins, WorkspaceMade, WorkspaceFound, TrustAsked, TrustGiven,
         PromptSent, PromptAccepted, TaskFails, PassGivesUp, PassResumes, ResumeMade,
         ResumeFound, ResumeFails
<1>2. Ages
  <2>1. CASE TaskFails \/ ResumeFails
    <3>1. cmux' = cmux \/ \E s \in Nat : cmux' = [cmux EXCEPT !.lost = @ \cup {s}]
      BY <2>1 DEF TaskFails, ResumeFails, Lost, FleetType
    <3> QED
      BY <3>1, CmuxAges
  <2>2. CASE WorkspaceMade \/ ResumeMade
    BY <2>2, CmuxAges DEF WorkspaceMade, ResumeMade
  <2>3. CASE ~(TaskFails \/ ResumeFails \/ WorkspaceMade \/ ResumeMade)
    <3>1. cmux' = cmux
      BY <2>3 DEF RunTask, LaunchBegins, WorkspaceFound, TrustAsked, TrustGiven, PromptSent,
                  PromptAccepted, PassGivesUp, PassResumes, ResumeFound
    <3> QED
      BY <3>1, CmuxAges
  <2> QED
    BY <2>1, <2>2, <2>3
<1>3. \/ run' = run
      \/ run'.pid = run.pid /\ run'.st \notin {"terminated", "permission-pending"}
      \/ run'.pid = 0 /\ run'.st \notin {"terminated", "permission-pending"}
  <2>1. CASE RunTask
    BY <2>1 DEF RunTask, Becomes, NoSession
  <2>2. CASE WorkspaceMade \/ ResumeMade
    BY <2>2 DEF WorkspaceMade, ResumeMade
  <2>3. CASE WorkspaceFound \/ ResumeFound \/ PassResumes
    BY <1>1, <2>3 DEF WorkspaceFound, ResumeFound, PassResumes, Becomes, Sessions
  <2>4. CASE \/ LaunchBegins \/ TrustAsked \/ TrustGiven \/ PromptSent \/ PromptAccepted
             \/ TaskFails \/ PassGivesUp \/ ResumeFails
    <3>1. \E st \in {"launching", "trust-required", "registering", "submitting", "running",
                    "failed", "recovering"} : run' = In(st)
      BY <2>4 DEF LaunchBegins, TrustAsked, TrustGiven, PromptSent, PromptAccepted, TaskFails,
                  PassGivesUp, ResumeFails, Becomes
    <3> QED
      BY <1>1, <3>1 DEF In, Sessions
  <2> QED
    BY <2>1, <2>2, <2>3, <2>4
<1>4. Ending' => Ending
  BY <1>1, <1>3 DEF Ending, Over
<1>5. CASE run'.pid = run.pid
  BY <1>2, <1>4, <1>5, DeadKept
<1>6. CASE run'.pid = 0
  <2>1. cmux'.born \in Nat /\ \A p \in Pids : p # 0
    BY DEF FleetType, Pids
  <2> QED
    BY <1>6, <2>1 DEF DeadParts, Gone
<1> QED
  BY <1>3, <1>5, <1>6

(* terminate(): at its end the process has been killed.                    *)
LEMMA DeadTerm ==
    ASSUME FleetType, FleetType', DeadParts,
           TaskTerminates \/ StopCommand \/ \E c \in Callers : TermStep(c)
    PROVE  DeadParts'
<1>1. CASE TaskTerminates \/ StopCommand
  <2>1. cmux' = cmux /\ desk' = desk /\ \E c \in Callers : Terminates(c)
    BY <1>1 DEF TaskTerminates, StopCommand, Callers
  <2>2. PICK c \in Callers : Terminates(c)
    BY <2>1
  <2>3. /\ term'[c] # "end" /\ \A d \in Callers \ {c} : term'[d] = term[d]
        /\ run' = run \/ run' = In("exiting")
    BY <2>2, TerminatesEnds DEF Terminates, Becomes
  <2>4. run' = run \/ (run'.pid = run.pid /\ run'.st = "exiting")
    BY <2>3, InType DEF SessionState
  <2>5. Ending' => Ending
    BY <2>1, <2>3, <2>4 DEF Ending, Over
  <2> QED
    BY <2>1, <2>4, <2>5, DeadKept, CmuxAges
<1>2. ASSUME NEW c \in Callers, TermStep(c)
      PROVE  DeadParts'
  <2>1. desk' = desk /\ term \in [Callers -> {"off", "exit", "kill", "end", "done"}]
    BY <1>2, FleetFold DEF TermStep, ClosesWorkspace, KillsClaude, Terminated
  <2>2. CASE ClosesWorkspace(c)
    <3>1. /\ run' = run /\ term' = [term EXCEPT ![c] = "kill"]
          /\ cmux' \in {Without(run.surf), Lost(run.surf), Deserted(run.surf)}
      BY <2>2 DEF ClosesWorkspace
    <3>2. Ending' => Ending
      BY <2>1, <3>1 DEF Ending, Over
    <3>3. Ages
      BY <3>1, CmuxAges
    <3> QED
      BY <3>1, <3>2, <3>3, DeadKept
  <2>3. CASE KillsClaude(c)
    <3>1. run' = run /\ cmux' = IF Alive(run.pid) THEN Killed(run.pid) ELSE cmux
      BY <2>3 DEF KillsClaude
    <3>2. Ages /\ Gone'
      <4>1. CASE Alive(run.pid)
        <5>1. run.pid \in Pids /\ cmux' = Killed(run.pid) /\ cmux \in Machine
          BY <3>1, <4>1, FleetFold DEF Alive
        <5>2. cmux'.home[run.pid] = 0
          BY <5>1 DEF Killed, Machine
        <5> QED
          BY <3>1, <5>1, <5>2, CmuxAges DEF Gone
      <4>2. CASE ~Alive(run.pid)
        BY <3>1, <4>2, CmuxAges DEF Alive, Gone
      <4> QED
        BY <4>1, <4>2
    <3>3. run.pid \in Nat /\ cmux.born \in Nat /\ cmux'.born \in Nat
      BY DEF FleetType
    <3> QED
      BY <3>1, <3>2, <3>3 DEF DeadParts, Ages
  <2>4. CASE Terminated(c)
    <3>1. run' = In("terminated") /\ term[c] = "end" /\ cmux' = cmux
      BY <2>4 DEF Terminated, Becomes
    <3>2. run'.pid = run.pid /\ Ending
      BY <3>1, InType DEF SessionState, Ending
    <3> QED
      BY <3>1, <3>2, DeadKept, CmuxAges
  <2> QED
    BY <1>2, <2>2, <2>3, <2>4 DEF TermStep
<1> QED
  BY <1>1, <1>2

LEMMA DeadInit == Init => DeadInv
<1> SUFFICES ASSUME Init PROVE DeadParts
  BY DEF DeadInv
<1>1. run.pid = 0 /\ cmux.born = 0 /\ \A p \in Pids : cmux.home[p] = 0
  BY DEF Init, NoSession
<1> QED
  BY <1>1 DEF DeadParts, Gone

LEMMA DeadStep == BrokerInv /\ FleetType /\ EndInv /\ DeadInv /\ [Next]_vars => DeadInv'
<1> SUFFICES ASSUME BrokerInv, FleetType, EndInv, DeadInv, [Next]_vars, raced' = {}
             PROVE  DeadParts'
  BY DEF DeadInv
<1>1. FleetType'
  BY EndStep
<1>2. raced = {} => EndParts /\ DeadParts
  BY DEF EndInv, DeadInv
<1>3. CASE ClaudeRegisters \/ CmuxRestarts \/ CmuxRestores \/ StreamAcks \/ UserCloses
  <2>1. UNCHANGED <<run, term, desk>> /\ raced = {}
    BY <1>3 DEF ClaudeRegisters, CmuxRestarts, CmuxRestores, StreamAcks, UserCloses, Overlap
  <2>2. Ages
    BY <1>3, CmuxAges DEF StreamAcks, UserCloses
  <2> QED
    BY <1>1, <1>2, <2>1, <2>2, DeadKept DEF Ending, Over
<1>4. CASE \/ RunTask \/ LaunchBegins \/ WorkspaceMade \/ WorkspaceFound \/ TrustAsked
           \/ TrustGiven \/ PromptSent \/ PromptAccepted \/ TaskFails \/ PassGivesUp
           \/ PassResumes \/ ResumeMade \/ ResumeFound \/ ResumeFails
  <2>1. raced = {}
    BY <1>4
       DEF RunTask, LaunchBegins, WorkspaceMade, WorkspaceFound, TrustAsked, TrustGiven,
           PromptSent, PromptAccepted, TaskFails, PassGivesUp, PassResumes, ResumeMade,
           ResumeFound, ResumeFails
  <2> QED
    BY <1>1, <1>2, <1>4, <2>1, DeadMoves
<1>5. CASE TaskTerminates \/ StopCommand \/ \E c \in Callers : TermStep(c)
  <2>1. raced = {}
    BY <1>5 DEF TaskTerminates, StopCommand, TermStep, ClosesWorkspace, KillsClaude, Terminated
  <2> QED
    BY <1>1, <1>2, <1>5, <2>1, DeadTerm
<1>6. CASE \/ SessionRegisters \/ TurnCompletes \/ TurnRecovered
           \/ PassRebinds \/ ResumeRegisters
  <2>1. raced' = raced
    BY <1>6 DEF SessionRegisters, TurnCompletes, TurnRecovered, PassRebinds, ResumeRegisters
  <2> QED
    BY <1>1, <1>2, <1>6, <2>1, DeadBound
<1>7. CASE \/ TaskEnds \/ TimerFires \/ RecoverCommand \/ PassReads \/ PassReadFails
           \/ PassVisits \/ PassSweeps \/ PassKills \/ PassPersists \/ UNCHANGED vars
  <2>1. /\ UNCHANGED <<run, term, desk>> /\ raced \subseteq raced'
        /\ cmux' = cmux \/ \E p \in Pids : cmux' = Killed(p)
    BY <1>7
       DEF TaskEnds, TimerFires, RecoverCommand, PassReads, PassReadFails, PassVisits,
           PassSweeps, PassKills, PassPersists, vars, FleetType
  <2> QED
    BY <1>1, <1>2, <2>1, DeadKept, CmuxAges DEF Ending, Over
<1>8. CASE Asks \/ AsksAgain \/ DeskDecides \/ DeskTimesOut \/ DeskDelivers \/ Tick
  <2>1. /\ UNCHANGED <<run, term, cmux, raced>>
        /\ desk'.prev = desk.prev /\ (desk'.pc # "idle" => desk.pc # "idle")
    BY <1>8, BrokerFrame
  <2> QED
    BY <1>1, <1>2, <2>1, DeadKept, CmuxAges DEF Ending, Over
<1>9. CASE DeskTakes \/ DeskRestores
  <2>1. UNCHANGED <<term, cmux>> /\ raced = {}
    BY <1>9 DEF DeskTakes, DeskRestores
  <2>2. run'.pid = run.pid
    <3>1. \E st \in SessionState : run' = run \/ run' = In(st)
      BY <1>9, DeskFrame DEF SessionState
    <3> QED
      BY <3>1, InType
  <2>3. Over' => Over
    BY <1>9, DeskOver
  <2> QED
    BY <1>1, <1>2, <2>1, <2>2, <2>3, DeadKept, CmuxAges DEF Ending
<1>10. CASE Crash
  <2>1. /\ run' = run /\ raced' = raced /\ desk'.pc = "idle"
        /\ \A c \in Callers : term'[c] = "off"
        /\ \E S \in SUBSET Nat : cmux' = [cmux EXCEPT !.lost = @ \cup S]
    <3>1. {task.got, pass.got} \ {0, run.surf} \in SUBSET Nat
      BY DEF FleetType
    <3> QED
      BY <1>10, <3>1 DEF Crash, FreeDesk
  <2> QED
    BY <1>1, <1>2, <2>1, DeadKept, CmuxAges DEF Ending, Over
<1>11. CASE Start
  <2>1. /\ UNCHANGED <<term, desk, cmux, raced>>
        /\ run' = IF run.st = "terminated" THEN NoSession ELSE run
    BY <1>11 DEF Start
  <2>2. CASE run' = run
    BY <1>1, <1>2, <2>1, <2>2, DeadKept, CmuxAges DEF Ending, Over
  <2>3. CASE run' = NoSession
    <3>1. run'.pid = 0 /\ cmux'.born \in Nat /\ \A p \in Pids : p # 0
      BY <1>1, <2>3 DEF NoSession, FleetType, Pids
    <3> QED
      BY <3>1 DEF DeadParts, Gone
  <2> QED
    BY <2>1, <2>2, <2>3
<1> QED
  BY <1>3, <1>4, <1>5, <1>6, <1>7, <1>8, <1>9, <1>10, <1>11 DEF Next, TaskStep, PassStep, DeskStep

(* When a session was terminated and all is quiet, the Claude it is bound  *)
(* to is dead, also where its workspace could not be closed, and any other *)
(* is in a surface pi has lost, unless operations on the session           *)
(* overlapped: terminate() leaves its surface empty or lost, and neither a *)
(* pass nor cmux, which restores what had a Claude, brings one back        *)
(* (session-controller.ts terminate(), fleet-manager.ts reconcile()).      *)
THEOREM SessionsEndClean == Spec => []EndsClean
<1>1. Spec => []BrokerInv
  BY BrokerInit, BrokerStep, PTL DEF Spec
<1>2. Spec => [](FleetType /\ EndInv)
  BY <1>1, EndInit, EndStep, PTL DEF Spec
<1>3. Spec => []DeadInv
  BY <1>1, <1>2, DeadInit, DeadStep, PTL DEF Spec
<1>4. FleetType /\ EndInv /\ DeadInv => EndsClean
  <2> SUFFICES ASSUME EndInv, DeadInv, raced = {}, run.st = "terminated",
                      NEW p \in Pids, Alive(p)
               PROVE  p # run.pid /\ cmux.home[p] \in cmux.lost
    BY DEF EndsClean
  <2>1. Clean
    BY DEF EndInv, EndParts, EndOwns, Over
  <2>2. Gone
    BY DEF DeadInv, DeadParts, Ending, Over
  <2> QED
    BY <2>1, <2>2 DEF Clean, Gone, Alive
<1> QED
  BY <1>2, <1>3, <1>4, PTL

-----------------------------------------------------------------------------
(* ClaudeTurn: the event tail and the turns of a session.                  *)
Events == [kind : Turn!Kinds, boot : Turn!Boots, turn : 0 .. MaxTurns]

(* The types the tail's history depends on.                                *)
TailTypes ==
    /\ boot \in Turn!Boots
    /\ log \in Seq(Events)
    /\ oldest \in Nat \ {0}
    /\ pos \in Nat
    /\ bootId \in Turn!Boots
    /\ latestSeq \in Nat
    /\ history \in Seq(Turn!Frames)
    /\ turn \in 0 .. MaxTurns

TailInv == TailTypes /\ Turn!TailIsOneEpoch

tail == <<boot, log, oldest, pos, Turn!tailVars, turn>>

(* What neither touches cmux, the stream nor the tail keeps the invariant. *)
LEMMA TailUnchanged == TailInv /\ UNCHANGED tail => TailInv'
  BY DEF TailInv, TailTypes, Turn!TailIsOneEpoch, tail, Turn!tailVars

(* An event is logged with the boot of cmux and a turn of the session.     *)
LEMMA LogGrows ==
  ASSUME TailInv, NEW k \in Turn!Kinds, NEW n \in 0 .. MaxTurns, Turn!Logs(k, n),
         UNCHANGED <<boot, oldest, pos, Turn!tailVars, turn>>
  PROVE  TailInv'
<1>1. [kind |-> k, boot |-> boot, turn |-> n] \in Events
  BY DEF TailInv, TailTypes, Events
<1>2. log' \in Seq(Events)
  BY <1>1 DEF TailInv, TailTypes, Turn!Logs
<1> QED BY <1>2 DEF TailInv, TailTypes, Turn!TailIsOneEpoch, Turn!tailVars

(* A restart keeps a prefix of the log and takes the next boot id.         *)
LEMMA RestartKeeps == TailInv /\ Turn!CmuxRestarts => TailInv'
<1> SUFFICES ASSUME TailInv, Turn!CmuxRestarts PROVE TailInv' OBVIOUS
<1>1. PICK durable \in 0 .. Len(log) :
        log' = SubSeq(log, 1, durable) /\ oldest' = Turn!Least(oldest, durable + 1)
  BY DEF Turn!CmuxRestarts
<1>2. log' \in Seq(Events)
  BY <1>1 DEF TailInv, TailTypes
<1>3. oldest' \in Nat \ {0}
  <2>1. oldest \in Nat \ {0} /\ durable \in Nat
    BY DEF TailInv, TailTypes
  <2> QED BY <1>1, <2>1 DEF Turn!Least
<1>4. boot' \in Turn!Boots
  BY TurnBounds DEF TailInv, TailTypes, Turn!CmuxRestarts, Turn!Boots
<1> QED
  BY <1>2, <1>3, <1>4 DEF TailInv, TailTypes, Turn!TailIsOneEpoch, Turn!CmuxRestarts,
     Turn!tailVars, Turn!turnVars

(* A frame of boot b leaves a history of boot b below the new fence.       *)
LEMMA KeptSound ==
  ASSUME TailInv, NEW b \in Turn!Boots, NEW n \in Nat,
         b = bootId => n >= latestSeq
  PROVE  /\ Turn!Kept(b) \in Seq(Turn!Frames)
         /\ \A i \in 1 .. Len(Turn!Kept(b)) : Turn!Kept(b)[i].boot = b /\ Turn!Kept(b)[i].seq <= n
<1>1. CASE b = bootId
  <2>1. Turn!Kept(b) = history
    BY <1>1 DEF Turn!Kept
  <2>2. ASSUME NEW i \in 1 .. Len(history) PROVE history[i].boot = b /\ history[i].seq <= n
    <3>1. history[i] \in Turn!Frames
      BY DEF TailInv, TailTypes
    <3>2. history[i].seq \in Nat
      BY <3>1 DEF Turn!Frames
    <3>3. history[i].boot = bootId /\ history[i].seq <= latestSeq
      BY DEF TailInv, Turn!TailIsOneEpoch
    <3>4. n >= latestSeq /\ latestSeq \in Nat
      BY <1>1 DEF TailInv, TailTypes
    <3> QED BY <1>1, <3>2, <3>3, <3>4
  <2> QED BY <2>1, <2>2 DEF TailInv, TailTypes
<1>2. CASE b # bootId
  <2>1. Turn!Kept(b) = << >>
    BY <1>2 DEF Turn!Kept
  <2> QED BY <2>1
<1> QED BY <1>1, <1>2

LEMMA AckKeeps == TailInv /\ Turn!Ack => TailInv'
<1> SUFFICES ASSUME TailInv, Turn!Ack PROVE TailInv' OBVIOUS
<1>1. boot \in Turn!Boots /\ Len(log) \in Nat /\ latestSeq \in Nat
  BY DEF TailInv, TailTypes
<1>2. latestSeq' \in Nat /\ (boot = bootId => latestSeq' >= latestSeq)
  BY <1>1 DEF Turn!Ack, Turn!Greatest
<1>3. /\ Turn!Kept(boot) \in Seq(Turn!Frames)
      /\ \A i \in 1 .. Len(Turn!Kept(boot)) :
             Turn!Kept(boot)[i].boot = boot /\ Turn!Kept(boot)[i].seq <= latestSeq'
  BY <1>1, <1>2, KeptSound
<1>4. bootId' = boot /\ history' = Turn!Kept(boot) /\ UNCHANGED <<boot, log, oldest, pos, turn>>
  BY DEF Turn!Ack, Turn!cmuxVars, Turn!turnVars
<1>5. Turn!TailIsOneEpoch'
  BY <1>3, <1>4 DEF Turn!TailIsOneEpoch
<1>6. TailTypes'
  BY <1>2, <1>3, <1>4 DEF TailInv, TailTypes
<1> QED BY <1>5, <1>6 DEF TailInv

LEMMA HeartbeatKeeps == TailInv /\ Turn!Heartbeat => TailInv'
<1> SUFFICES ASSUME TailInv, Turn!Heartbeat PROVE TailInv' OBVIOUS
<1>1. boot \in Turn!Boots /\ Len(log) \in Nat /\ latestSeq \in Nat
  BY DEF TailInv, TailTypes
<1>2. latestSeq' \in Nat /\ (boot = bootId => latestSeq' >= latestSeq)
  BY <1>1 DEF Turn!Heartbeat, Turn!Greatest
<1>3. /\ Turn!Kept(boot) \in Seq(Turn!Frames)
      /\ \A i \in 1 .. Len(Turn!Kept(boot)) :
             Turn!Kept(boot)[i].boot = boot /\ Turn!Kept(boot)[i].seq <= latestSeq'
  BY <1>1, <1>2, KeptSound
<1>4. bootId' = boot /\ history' = Turn!Kept(boot) /\ UNCHANGED <<boot, log, oldest, pos, turn>>
  BY DEF Turn!Heartbeat, Turn!cmuxVars, Turn!linkVars, Turn!turnVars
<1>5. Turn!TailIsOneEpoch'
  BY <1>3, <1>4 DEF Turn!TailIsOneEpoch
<1>6. TailTypes'
  BY <1>2, <1>3, <1>4 DEF TailInv, TailTypes
<1> QED BY <1>5, <1>6 DEF TailInv

LEMMA EventKeeps == TailInv /\ Turn!EventFrame => TailInv'
<1> SUFFICES ASSUME TailInv, Turn!EventFrame PROVE TailInv' OBVIOUS
<1> DEFINE seq == pos + 1
           e == [kind |-> log[seq].kind, boot |-> log[seq].boot, seq |-> seq,
                 turn |-> log[seq].turn]
<1>1. pos \in Nat /\ latestSeq \in Nat /\ log \in Seq(Events) /\ pos < Len(log)
  BY DEF TailInv, TailTypes, Turn!EventFrame
<1>2. log[seq] \in Events
  BY <1>1
<1>3. e \in Turn!Frames
  BY <1>1, <1>2 DEF Events, Turn!Frames
<1>4. e.boot \in Turn!Boots /\ e.seq = seq
  BY <1>2 DEF Events
<1>5. /\ bootId' = e.boot
      /\ latestSeq' = Turn!Greatest(IF e.boot = bootId THEN latestSeq ELSE 0, seq)
      /\ history' = Append(Turn!Kept(e.boot), e)
      /\ pos' = seq
      /\ UNCHANGED <<boot, log, oldest, turn>>
  BY DEF Turn!EventFrame, Turn!cmuxVars, Turn!turnVars
<1> HIDE DEF e
<1>6. latestSeq' \in Nat /\ (e.boot = bootId => latestSeq' >= latestSeq) /\ e.seq <= latestSeq'
  BY <1>1, <1>4, <1>5 DEF Turn!Greatest
<1>7. /\ Turn!Kept(e.boot) \in Seq(Turn!Frames)
      /\ \A i \in 1 .. Len(Turn!Kept(e.boot)) :
           Turn!Kept(e.boot)[i].boot = e.boot /\ Turn!Kept(e.boot)[i].seq <= latestSeq'
  BY <1>4, <1>6, KeptSound
<1>8. history' \in Seq(Turn!Frames)
  BY <1>3, <1>5, <1>7
<1>9. ASSUME NEW i \in 1 .. Len(history')
      PROVE  history'[i].boot = bootId' /\ history'[i].seq <= latestSeq'
  <2>1. Len(history') = Len(Turn!Kept(e.boot)) + 1 /\ Len(Turn!Kept(e.boot)) \in Nat
    BY <1>5, <1>7
  <2>2. CASE i = Len(Turn!Kept(e.boot)) + 1
    <3>1. history'[i] = e
      BY <1>5, <1>7, <2>2
    <3> QED BY <3>1, <1>5, <1>6
  <2>3. CASE i \in 1 .. Len(Turn!Kept(e.boot))
    <3>1. history'[i] = Turn!Kept(e.boot)[i]
      BY <1>5, <1>7, <2>3
    <3> QED BY <3>1, <1>5, <1>7, <2>3
  <2> QED BY <2>1, <2>2, <2>3
<1>10. TailTypes'
  BY <1>1, <1>4, <1>5, <1>6, <1>8 DEF TailInv, TailTypes
<1> QED BY <1>9, <1>10 DEF TailInv, Turn!TailIsOneEpoch

(* A step of the turn writes no event and reads the tail only.             *)
LEMMA TurnKeeps == TailInv /\ Turn!TurnStep => TailInv'
<1> SUFFICES ASSUME TailInv, Turn!TurnStep PROVE TailInv' OBVIOUS
<1>1. CASE Turn!TakeFence
  BY <1>1, TailUnchanged DEF Turn!TakeFence, Turn!Elsewhere, tail, Turn!cmuxVars, Turn!linkVars
<1>2. CASE Turn!SendPrompt
  BY <1>2, TailUnchanged DEF Turn!SendPrompt, Turn!Elsewhere, tail, Turn!cmuxVars, Turn!linkVars
<1>3. CASE Turn!SendFails
  BY <1>3, TailUnchanged DEF Turn!SendFails, Turn!Elsewhere, tail, Turn!cmuxVars, Turn!linkVars
<1>4. CASE Turn!AwaitSubmit
  BY <1>4, TailUnchanged DEF Turn!AwaitSubmit, Turn!WaitFor, Turn!Elsewhere, tail, Turn!cmuxVars,
     Turn!linkVars
<1>5. CASE Turn!AwaitStop
  BY <1>5, TailUnchanged DEF Turn!AwaitStop, Turn!WaitFor, Turn!Elsewhere, tail, Turn!cmuxVars,
     Turn!linkVars
<1>6. CASE Turn!SubmitSeen
  BY <1>6, TailUnchanged DEF Turn!SubmitSeen, Turn!Elsewhere, tail, Turn!cmuxVars, Turn!linkVars
<1>7. CASE Turn!StopSeen
  BY <1>7, TailUnchanged DEF Turn!StopSeen, Turn!Elsewhere, tail, Turn!cmuxVars, Turn!linkVars
<1>8. CASE Turn!TurnFails
  BY <1>8, TailUnchanged DEF Turn!TurnFails, Turn!Elsewhere, tail, Turn!cmuxVars, Turn!linkVars
<1>9. CASE Turn!TurnInterrupted
  BY <1>9, TailUnchanged DEF Turn!TurnInterrupted, Turn!Elsewhere, tail, Turn!cmuxVars,
     Turn!linkVars
<1>10. CASE Turn!RecoverReadsRecord
  BY <1>10, TailUnchanged DEF Turn!RecoverReadsRecord, Turn!Elsewhere, tail, Turn!cmuxVars,
     Turn!linkVars
<1>11. CASE Turn!RecoverReadsOutput
  BY <1>11, TailUnchanged DEF Turn!RecoverReadsOutput, Turn!Elsewhere, tail, Turn!cmuxVars,
     Turn!linkVars
<1>12. CASE Turn!InputReady
  BY <1>12, TailUnchanged DEF Turn!InputReady, Turn!Elsewhere, tail, Turn!cmuxVars, Turn!linkVars
<1>13. CASE Turn!Complete
  BY <1>13, TailUnchanged DEF Turn!Complete, Turn!Elsewhere, tail, Turn!cmuxVars, Turn!linkVars
<1> QED BY <1>1, <1>2, <1>3, <1>4, <1>5, <1>6, <1>7, <1>8, <1>9, <1>10, <1>11, <1>12, <1>13
     DEF Turn!TurnStep

(* BeginTurn changes the number of the turn alone.                         *)
LEMMA BeginKeeps == TailInv /\ Turn!BeginTurn => TailInv'
  BY TurnBounds DEF Turn!BeginTurn, Turn!Elsewhere, TailInv, TailTypes, Turn!TailIsOneEpoch,
     Turn!cmuxVars, Turn!linkVars, Turn!tailVars

LEMMA ClaudeKeeps == TailInv /\ Turn!ClaudeStep => TailInv'
<1> SUFFICES ASSUME TailInv, Turn!ClaudeStep PROVE TailInv' OBVIOUS
<1>1. CASE Turn!ClaudeAccepts
  BY <1>1, TailUnchanged DEF Turn!ClaudeAccepts, tail, Turn!cmuxVars, Turn!linkVars, Turn!turnVars
<1>2. CASE Turn!HookLogs
  <2>1. PICK k \in Turn!Kinds : Turn!Logs(k, turn)
    BY <1>2 DEF Turn!HookLogs, Turn!Kinds
  <2>2. UNCHANGED <<boot, oldest, pos, Turn!tailVars, turn>>
    BY <1>2 DEF Turn!HookLogs, Turn!linkVars, Turn!turnVars
  <2>3. turn \in 0 .. MaxTurns
    BY DEF TailInv, TailTypes
  <2> QED BY <2>1, <2>2, <2>3, LogGrows
<1>3. CASE Turn!HookRecords
  BY <1>3, TailUnchanged DEF Turn!HookRecords, tail, Turn!cmuxVars, Turn!linkVars, Turn!turnVars
<1>4. CASE Turn!ClaudeFinishes
  BY <1>4, TailUnchanged DEF Turn!ClaudeFinishes, tail, Turn!cmuxVars, Turn!linkVars,
     Turn!turnVars
<1>5. CASE Turn!PermissionAnswered
  BY <1>5, TailUnchanged DEF Turn!PermissionAnswered, tail, Turn!cmuxVars, Turn!linkVars,
     Turn!turnVars
<1> QED BY <1>1, <1>2, <1>3, <1>4, <1>5 DEF Turn!ClaudeStep

(* spawn() resumes at a position of the log.                               *)
LEMMA ConnectKeeps == TailInv /\ Turn!Connect => TailInv'
<1> SUFFICES ASSUME TailInv, Turn!Connect PROVE TailInv' OBVIOUS
<1>1. UNCHANGED <<boot, log, oldest, Turn!tailVars, turn>>
  BY DEF Turn!Connect, Turn!cmuxVars, Turn!turnVars
<1>2. PICK cursor \in (IF pos > MaxLag THEN pos - MaxLag ELSE 0) .. pos :
        pos' = Turn!Least(Len(log), Turn!Greatest(cursor, oldest - 1))
  BY DEF Turn!Connect
<1>3. pos' \in Nat
  <2>1. pos \in Nat /\ oldest \in Nat \ {0} /\ Len(log) \in Nat /\ MaxLag \in Nat
    BY TurnBounds DEF TailInv, TailTypes
  <2>2. cursor \in Nat
    BY <1>2, <2>1
  <2>3. Turn!Greatest(cursor, oldest - 1) \in Nat
    BY <2>1, <2>2 DEF Turn!Greatest
  <2> QED BY <1>2, <2>1, <2>3 DEF Turn!Least
<1> QED BY <1>1, <1>3 DEF TailInv, TailTypes, Turn!TailIsOneEpoch, Turn!tailVars

LEMMA EvictKeeps == TailInv /\ Turn!Evict => TailInv'
<1> SUFFICES ASSUME TailInv, Turn!Evict PROVE TailInv' OBVIOUS
<1>1. UNCHANGED <<boot, log, pos, Turn!tailVars, turn>>
  BY DEF Turn!Evict, Turn!linkVars, Turn!turnVars
<1>2. oldest' \in Nat \ {0}
  <2>1. Len(log) \in Nat
    BY DEF TailInv, TailTypes
  <2> QED BY <2>1 DEF Turn!Evict
<1> QED BY <1>1, <1>2 DEF TailInv, TailTypes, Turn!TailIsOneEpoch, Turn!tailVars

LEMMA CloseKeeps == TailInv /\ Turn!UserCloses => TailInv'
<1> SUFFICES ASSUME TailInv, Turn!UserCloses PROVE TailInv' OBVIOUS
<1>1. Turn!Logs("closed", 0) /\ UNCHANGED <<boot, oldest, pos, Turn!tailVars, turn>>
  BY DEF Turn!UserCloses, Turn!linkVars, Turn!turnVars
<1>2. "closed" \in Turn!Kinds /\ 0 \in 0 .. MaxTurns
  BY TurnBounds DEF Turn!Kinds
<1> QED BY <1>1, <1>2, LogGrows

LEMMA InitTail == Turn!Init => TailInv
  BY TurnBounds DEF Turn!Init, TailInv, TailTypes, Turn!TailIsOneEpoch, Turn!Boots

LEMMA NextKeeps == TailInv /\ [Turn!Next]_(Turn!vars) => TailInv'
<1> SUFFICES ASSUME TailInv, [Turn!Next]_(Turn!vars) PROVE TailInv' OBVIOUS
<1>1. CASE Turn!TurnStep BY <1>1, TurnKeeps
<1>2. CASE Turn!ClaudeStep BY <1>2, ClaudeKeeps
<1>3. CASE Turn!TailStep BY <1>3, ConnectKeeps, AckKeeps, EventKeeps DEF Turn!TailStep
<1>4. CASE Turn!BeginTurn BY <1>4, BeginKeeps
<1>5. CASE Turn!GiveUp
  BY <1>5, TailUnchanged DEF Turn!GiveUp, Turn!Elsewhere, tail, Turn!cmuxVars, Turn!linkVars,
     Turn!turnVars
<1>6. CASE Turn!SettleTimesOut
  BY <1>6, TailUnchanged DEF Turn!SettleTimesOut, Turn!Elsewhere, tail, Turn!cmuxVars,
     Turn!linkVars
<1>7. CASE Turn!Heartbeat BY <1>7, HeartbeatKeeps
<1>8. CASE Turn!Drop
  BY <1>8, TailUnchanged DEF Turn!Drop, tail, Turn!cmuxVars, Turn!turnVars
<1>9. CASE Turn!Evict BY <1>9, EvictKeeps
<1>10. CASE Turn!CmuxRestarts BY <1>10, RestartKeeps
<1>11. CASE Turn!UserCloses BY <1>11, CloseKeeps
<1>12. CASE Turn!ClaudeWrites
  BY <1>12, TailUnchanged DEF Turn!ClaudeWrites, tail, Turn!cmuxVars, Turn!linkVars, Turn!turnVars
<1>13. CASE Turn!ClaudeAsks \/ Turn!ClaudeResumes
  BY <1>13, TailUnchanged DEF Turn!ClaudeAsks, Turn!ClaudeResumes, tail, Turn!cmuxVars,
     Turn!linkVars, Turn!turnVars
<1>14. CASE UNCHANGED Turn!vars
  BY <1>14, TailUnchanged DEF Turn!vars, tail, Turn!cmuxVars, Turn!linkVars, Turn!turnVars
<1> QED
  BY <1>1, <1>2, <1>3, <1>4, <1>5, <1>6, <1>7, <1>8, <1>9, <1>10, <1>11, <1>12, <1>13, <1>14
     DEF Turn!Next

-----------------------------------------------------------------------------
(* Type correctness.                                                       *)

LinkTypes ==
    /\ open \in BOOLEAN /\ link \in {"down", "greeting", "up"}
    /\ gap \in BOOLEAN /\ drops \in Nat

ClaudeTypes ==
    /\ claude \in Turn!ClaudeState
    /\ hook \subseteq {"event", "record"} /\ lifecycle \in Turn!Lifecycles
    /\ transcript \in Seq(Turn!Texts)

(* A turn that waits for nothing has been told nothing.                    *)
PromptTypes ==
    /\ wait \in Turn!Waits \cup {Turn!NoWait}
    /\ answer \in Turn!Frames \cup Turn!Reports \cup {Turn!NoAnswer}
    /\ pc \in Turn!TurnState /\ fence \in Turn!Fences /\ start \in Nat
    /\ record \in Turn!Lifecycles \cup {"none"}
    /\ result \in [how : {"none", "completed", "recovered"}, output : Seq(Turn!Texts)]
    /\ unheard \in BOOLEAN
    /\ wait # Turn!NoWait => answer = Turn!NoAnswer
    /\ wait # Turn!NoWait \/ answer # Turn!NoAnswer => pc \in {"awaitSubmit", "awaitStop"}

(* A text Claude writes is one of the turn it works on, and it works on    *)
(* none before the first prompt.                                           *)
Prompted == claude \in Turn!ClaudeState \ {"idle", "dead"} => turn # 0
TurnNumbered == pc = "ready" \/ turn # 0

TypeInv == TailInv /\ LinkTypes /\ ClaudeTypes /\ PromptTypes /\ Prompted /\ TurnNumbered

LEMMA LinkTyped == LinkTypes /\ [Turn!Next]_(Turn!vars) => LinkTypes'
<1> SUFFICES ASSUME LinkTypes, [Turn!Next]_(Turn!vars) PROVE LinkTypes' OBVIOUS
<1>1. CASE UNCHANGED <<open, Turn!linkVars>>
  BY <1>1 DEF LinkTypes, Turn!linkVars
<1>2. CASE Turn!UserCloses BY <1>2 DEF LinkTypes, Turn!UserCloses, Turn!linkVars
<1>3. CASE Turn!CmuxRestarts BY <1>3 DEF LinkTypes, Turn!CmuxRestarts
<1>4. CASE Turn!Drop BY <1>4 DEF LinkTypes, Turn!Drop, Turn!cmuxVars
<1>5. CASE Turn!Connect BY <1>5 DEF LinkTypes, Turn!Connect, Turn!cmuxVars
<1>6. CASE Turn!Ack BY <1>6 DEF LinkTypes, Turn!Ack, Turn!cmuxVars
<1>7. CASE Turn!EventFrame BY <1>7 DEF LinkTypes, Turn!EventFrame, Turn!cmuxVars
<1>8. CASE Turn!Evict BY <1>8 DEF LinkTypes, Turn!Evict, Turn!linkVars
<1>9. CASE Turn!HookLogs BY <1>9 DEF LinkTypes, Turn!HookLogs, Turn!linkVars
<1>10. CASE Turn!ClaudeWrites \/ Turn!ClaudeAccepts \/ Turn!HookRecords \/ Turn!ClaudeFinishes
          \/ Turn!ClaudeAsks \/ Turn!PermissionAnswered \/ Turn!ClaudeResumes
  BY <1>10, <1>1 DEF Turn!ClaudeWrites, Turn!ClaudeAccepts, Turn!HookRecords, Turn!ClaudeFinishes,
     Turn!ClaudeAsks, Turn!PermissionAnswered, Turn!ClaudeResumes, Turn!cmuxVars
<1>11. CASE Turn!TurnStep \/ Turn!BeginTurn \/ Turn!GiveUp \/ Turn!SettleTimesOut \/ Turn!Heartbeat
  BY <1>11, <1>1 DEF Turn!TurnStep, Turn!BeginTurn, Turn!GiveUp, Turn!SettleTimesOut,
     Turn!Heartbeat, Turn!Elsewhere, Turn!TakeFence, Turn!SendPrompt, Turn!SendFails,
     Turn!AwaitSubmit, Turn!AwaitStop, Turn!WaitFor, Turn!SubmitSeen, Turn!StopSeen,
     Turn!TurnFails, Turn!TurnInterrupted, Turn!RecoverReadsRecord, Turn!RecoverReadsOutput,
     Turn!InputReady, Turn!Complete, Turn!cmuxVars
<1>12. CASE UNCHANGED Turn!vars
  BY <1>12, <1>1 DEF Turn!vars, Turn!cmuxVars
<1> QED
  BY <1>2, <1>3, <1>4, <1>5, <1>6, <1>7, <1>8, <1>9, <1>10, <1>11, <1>12 DEF Turn!Next,
     Turn!ClaudeStep, Turn!TailStep

LEMMA ClaudeTyped == TypeInv /\ [Turn!Next]_(Turn!vars) => ClaudeTypes' /\ Prompted'
<1> SUFFICES ASSUME TypeInv, [Turn!Next]_(Turn!vars) PROVE ClaudeTypes' /\ Prompted' OBVIOUS
<1> USE DEF ClaudeTypes, Prompted, Turn!ClaudeState, Turn!Lifecycles
<1>1. ClaudeTypes /\ Prompted /\ TurnNumbered /\ turn \in Nat /\ turn \in 0 .. MaxTurns
  BY TurnBounds DEF TypeInv, TailInv, TailTypes
<1>2. CASE UNCHANGED <<claude, hook, lifecycle, transcript, turn>>
  BY <1>1, <1>2
<1>3. CASE Turn!CmuxRestarts BY <1>1, <1>3 DEF Turn!CmuxRestarts, Turn!turnVars
<1>4. CASE Turn!UserCloses BY <1>1, <1>4 DEF Turn!UserCloses, Turn!turnVars
<1>5. CASE Turn!ClaudeAccepts BY <1>1, <1>5 DEF Turn!ClaudeAccepts, Turn!turnVars
<1>6. CASE Turn!HookLogs
  BY <1>1, <1>6 DEF Turn!HookLogs, Turn!AfterHook, Turn!turnVars
<1>7. CASE Turn!HookRecords BY <1>1, <1>7 DEF Turn!HookRecords, Turn!AfterHook, Turn!turnVars
<1>8. CASE Turn!ClaudeWrites \/ Turn!ClaudeFinishes
  <2>1. claude \in {"working", "granted"} /\ turn \in Turn!Turns
    BY <1>1, <1>8 DEF Turn!ClaudeWrites, Turn!ClaudeFinishes, Turn!Turns
  <2>2. \A b \in BOOLEAN : Append(transcript, [turn |-> turn, last |-> b]) \in Seq(Turn!Texts)
    BY <1>1, <2>1 DEF Turn!Texts
  <2>3. transcript' \in Seq(Turn!Texts)
    BY <1>8, <2>2 DEF Turn!ClaudeWrites, Turn!ClaudeFinishes
  <2> QED BY <1>1, <1>8, <2>1, <2>3 DEF Turn!ClaudeWrites, Turn!ClaudeFinishes, Turn!turnVars
<1>9. CASE Turn!SendPrompt
  BY <1>1, <1>9 DEF Turn!SendPrompt, Turn!Step, TurnNumbered
<1>10. CASE Turn!BeginTurn
  BY <1>1, <1>10 DEF Turn!BeginTurn, Turn!Elsewhere, Turn!claudeVars
<1>11. CASE Turn!Drop \/ Turn!Connect \/ Turn!Ack \/ Turn!EventFrame \/ Turn!Evict \/ Turn!Heartbeat
  BY <1>2, <1>11 DEF Turn!Drop, Turn!Connect, Turn!Ack, Turn!EventFrame, Turn!Evict,
     Turn!Heartbeat, Turn!claudeVars, Turn!turnVars
<1>12. CASE Turn!GiveUp \/ Turn!SettleTimesOut
  BY <1>2, <1>12 DEF Turn!GiveUp, Turn!SettleTimesOut, Turn!Elsewhere, Turn!claudeVars,
     Turn!turnVars
<1>13. CASE Turn!TurnStep /\ ~Turn!SendPrompt
  BY <1>2, <1>13 DEF Turn!TurnStep, Turn!Elsewhere, Turn!TakeFence, Turn!SendFails,
     Turn!AwaitSubmit, Turn!AwaitStop, Turn!WaitFor, Turn!SubmitSeen, Turn!StopSeen,
     Turn!TurnFails, Turn!TurnInterrupted, Turn!RecoverReadsRecord, Turn!RecoverReadsOutput,
     Turn!InputReady, Turn!Complete, Turn!claudeVars
<1>14. CASE UNCHANGED Turn!vars
  BY <1>2, <1>14 DEF Turn!vars, Turn!claudeVars, Turn!turnVars
<1>15. CASE Turn!ClaudeAsks \/ Turn!PermissionAnswered \/ Turn!ClaudeResumes
  BY <1>1, <1>15 DEF Turn!ClaudeAsks, Turn!PermissionAnswered, Turn!ClaudeResumes, Turn!turnVars
<1> QED
  BY <1>3, <1>4, <1>5, <1>6, <1>7, <1>8, <1>9, <1>10, <1>11, <1>12, <1>13, <1>14, <1>15
     DEF Turn!Next, Turn!ClaudeStep, Turn!TailStep

(* An event of the stream, as the turn may be told of it.                  *)
LEMMA FrameTyped ==
  ASSUME TailInv, NEW n \in 1 .. Len(log)
  PROVE  [kind |-> log[n].kind, boot |-> log[n].boot, seq |-> n, turn |-> log[n].turn]
            \in Turn!Frames
<1>1. log[n] \in Events /\ n \in Nat \ {0}
  BY DEF TailInv, TailTypes
<1> QED BY <1>1 DEF Events, Turn!Frames

(* A waiter is told something it can make sense of, and only once.         *)
LEMMA ToldTyped ==
  ASSUME PromptTypes, NEW what \in Turn!Frames \cup Turn!Reports \cup {Turn!NoAnswer},
         Turn!Tell(what),
         UNCHANGED Turn!turnVars
  PROVE  PromptTypes'
<1>1. answer' \in Turn!Frames \cup Turn!Reports \cup {Turn!NoAnswer}
  BY DEF Turn!Tell, PromptTypes
<1>2. unheard' \in BOOLEAN
  BY DEF Turn!Tell, PromptTypes
<1>3. /\ wait' \in Turn!Waits \cup {Turn!NoWait}
      /\ (wait' # Turn!NoWait => wait' = wait /\ what = Turn!NoAnswer)
  BY DEF Turn!Tell, PromptTypes
<1>4. wait' # Turn!NoWait => answer' = Turn!NoAnswer
  BY <1>3 DEF Turn!Tell, PromptTypes
<1>5. answer' # Turn!NoAnswer => answer # Turn!NoAnswer \/ wait # Turn!NoWait
  BY DEF Turn!Tell
<1> QED
  BY <1>1, <1>2, <1>3, <1>4, <1>5 DEF PromptTypes, Turn!turnVars

LEMMA TailTells ==
  ASSUME TypeInv, Turn!Ack \/ Turn!Heartbeat \/ Turn!EventFrame
  PROVE  PromptTypes'
<1> USE DEF TypeInv
<1>1. Turn!Epoch \in Turn!Reports /\ Turn!Gap \in Turn!Reports
  BY DEF Turn!Epoch, Turn!Gap, Turn!Reports
<1>2. \A b : Turn!ChangeReport(b) \in Turn!Reports \cup {Turn!NoAnswer}
  BY <1>1 DEF Turn!ChangeReport
<1>3. CASE Turn!Ack
  <2>1. Turn!AckReport \in Turn!Frames \cup Turn!Reports \cup {Turn!NoAnswer}
    BY <1>1 DEF Turn!AckReport
  <2> QED BY <1>3, <2>1, ToldTyped DEF Turn!Ack
<1>4. CASE Turn!Heartbeat
  BY <1>2, <1>4, ToldTyped DEF Turn!Heartbeat
<1>5. CASE Turn!EventFrame
  <2> DEFINE n == pos + 1
             e == [kind |-> log[n].kind, boot |-> log[n].boot, seq |-> n, turn |-> log[n].turn]
  <2>1. n \in 1 .. Len(log)
    BY <1>5 DEF Turn!EventFrame, TailInv, TailTypes
  <2>2. e \in Turn!Frames
    BY <2>1, FrameTyped
  <2>3. Turn!Tell(Turn!Heard(e)) /\ UNCHANGED Turn!turnVars
    BY <1>5 DEF Turn!EventFrame
  <2> HIDE DEF e
  <2>4. Turn!Heard(e) \in {Turn!Epoch, e, Turn!NoAnswer}
    BY DEF Turn!Heard
  <2> QED BY <1>1, <2>2, <2>3, <2>4, ToldTyped
<1> QED BY <1>3, <1>4, <1>5

(* A wait begins with the first match of the history, or with a waiter.    *)
LEMMA WaitTyped ==
  ASSUME TypeInv, NEW want \in {"submit", "stop"}, Turn!WaitFor(want),
         pc \notin {"awaitSubmit", "awaitStop"}, pc' \in {"awaitSubmit", "awaitStop"}
  PROVE  PromptTypes'
<1> DEFINE w == [want |-> want, after |-> fence.seq, boot |-> fence.boot]
           found == {i \in 1 .. Len(history) : Turn!Matches(history[i], w)}
<1>1. PromptTypes /\ wait = Turn!NoWait /\ answer = Turn!NoAnswer
  BY DEF TypeInv, PromptTypes
<1>2. w \in Turn!Waits
  BY <1>1 DEF PromptTypes, Turn!Fences, Turn!Waits
<1>3. UNCHANGED <<fence, start, record, result, unheard>> /\ pc' \in Turn!TurnState
  BY DEF Turn!WaitFor, Turn!TurnState
<1>4. CASE found = {}
  <2>1. wait' = w /\ answer' = answer
    BY <1>4 DEF Turn!WaitFor
  <2> HIDE DEF w
  <2> QED BY <1>1, <1>2, <1>3, <2>1 DEF PromptTypes
<1>5. CASE found # {}
  <2>1. PICK i \in 1 .. Len(history) : answer' = history[i] /\ wait' = wait
    BY <1>5 DEF Turn!WaitFor
  <2>2. history[i] \in Turn!Frames
    BY DEF TypeInv, TailInv, TailTypes
  <2> QED BY <1>1, <1>3, <2>1, <2>2 DEF PromptTypes
<1> QED BY <1>4, <1>5

(* What a turn returns are texts of the transcript.                        *)
LEMMA OutputTyped ==
  ASSUME TypeInv PROVE Turn!Output \in Seq(Turn!Texts)
<1>1. transcript \in Seq(Turn!Texts) /\ start \in Nat
  BY DEF TypeInv, ClaudeTypes, PromptTypes
<1> QED BY <1>1 DEF Turn!Output

(* How a turn reads what it was told.                                      *)
LEMMA AnswerTyped ==
  ASSUME PromptTypes
  PROVE  /\ Turn!NoAnswer.kind = "nothing"
         /\ answer.kind \in Turn!Kinds => answer \in Turn!Frames
         /\ answer.kind # "nothing" => answer # Turn!NoAnswer
<1>1. Turn!NoAnswer.kind = "nothing"
  BY DEF Turn!NoAnswer
<1>2. answer \in Turn!Reports => answer.kind \notin Turn!Kinds
  BY DEF Turn!Reports, Turn!Kinds
<1>3. answer \in Turn!Frames \cup Turn!Reports \cup {Turn!NoAnswer}
  BY DEF PromptTypes
<1>4. "nothing" \notin Turn!Kinds
  BY DEF Turn!Kinds
<1> QED BY <1>1, <1>2, <1>3, <1>4

(* A step of the turn that heeds an answer, or needs none.                 *)
LEMMA StepTyped ==
  ASSUME PromptTypes, UNCHANGED <<start, wait, unheard>>, pc' \in Turn!TurnState,
         fence' \in Turn!Fences,
         record' \in Turn!Lifecycles \cup {"none"},
         result' \in [how : {"none", "completed", "recovered"}, output : Seq(Turn!Texts)],
         answer' = Turn!NoAnswer, answer # Turn!NoAnswer \/ wait = Turn!NoWait
  PROVE  PromptTypes'
BY DEF PromptTypes

LEMMA TurnTyped == TypeInv /\ Turn!TurnStep => PromptTypes'
<1> SUFFICES ASSUME TypeInv, Turn!TurnStep PROVE PromptTypes' OBVIOUS
<1>1. PromptTypes
  BY DEF TypeInv
<1>2. pc \notin {"awaitSubmit", "awaitStop"} => wait = Turn!NoWait /\ answer = Turn!NoAnswer
  BY <1>1 DEF PromptTypes
<1>3. CASE Turn!TakeFence
  <2>1. fence' \in Turn!Fences
    BY <1>3 DEF Turn!TakeFence, Turn!Fences, TypeInv, TailInv, TailTypes
  <2> QED BY <1>1, <1>2, <1>3, <2>1, StepTyped DEF Turn!TakeFence, Turn!Step, Turn!TurnState,
       PromptTypes
<1>4. CASE Turn!SendPrompt
  BY <1>1, <1>2, <1>4 DEF Turn!SendPrompt, Turn!Step, Turn!TurnState, PromptTypes
<1>5. CASE Turn!SendFails \/ Turn!InputReady
  BY <1>1, <1>2, <1>5, StepTyped DEF Turn!SendFails, Turn!InputReady, Turn!Step, Turn!TurnState,
     PromptTypes
<1>6. CASE Turn!AwaitSubmit
  BY <1>6, WaitTyped DEF Turn!AwaitSubmit, Turn!Step
<1>7. CASE Turn!AwaitStop
  BY <1>7, WaitTyped DEF Turn!AwaitStop, Turn!Step
<1>8. CASE Turn!SubmitSeen
  <2>1. answer \in Turn!Frames /\ answer # Turn!NoAnswer
    BY <1>1, <1>8, AnswerTyped DEF Turn!SubmitSeen, Turn!Kinds
  <2>2. fence' \in Turn!Fences
    BY <1>8, <2>1 DEF Turn!SubmitSeen, Turn!Frames, Turn!Fences
  <2> QED BY <1>1, <1>8, <2>1, <2>2, StepTyped DEF Turn!SubmitSeen, Turn!Step, Turn!TurnState,
       PromptTypes
<1>9. CASE Turn!StopSeen \/ Turn!TurnFails \/ Turn!TurnInterrupted
  <2>1. answer # Turn!NoAnswer
    BY <1>1, <1>9, AnswerTyped DEF Turn!StopSeen, Turn!TurnFails, Turn!TurnInterrupted
  <2>2. answer' = Turn!NoAnswer /\ UNCHANGED <<wait, start, fence, record, result, unheard>>
    BY <1>9 DEF Turn!StopSeen, Turn!TurnFails, Turn!TurnInterrupted
  <2>3. pc' \in Turn!TurnState
    BY <1>9 DEF Turn!StopSeen, Turn!TurnFails, Turn!TurnInterrupted, Turn!Step, Turn!TurnState
  <2> QED BY <1>1, <2>1, <2>2, <2>3, StepTyped DEF PromptTypes
<1>10. CASE Turn!RecoverReadsRecord
  <2>1. lifecycle \in Turn!Lifecycles
    BY DEF TypeInv, ClaudeTypes
  <2> QED BY <1>1, <1>2, <1>10, <2>1, StepTyped DEF Turn!RecoverReadsRecord, Turn!Step,
       Turn!TurnState, PromptTypes
<1>11. CASE Turn!RecoverReadsOutput
  <2>1. /\ pc = "rereading" /\ pc' \in {"recovered", "failed"}
        /\ result' \in {[how |-> "recovered", output |-> Turn!Output], result}
        /\ UNCHANGED <<wait, answer, start, fence, record, unheard>>
    BY <1>11 DEF Turn!RecoverReadsOutput, Turn!Step
  <2>2. result' \in [how : {"none", "completed", "recovered"}, output : Seq(Turn!Texts)]
    BY <1>1, <2>1, OutputTyped DEF PromptTypes
  <2> QED BY <1>1, <1>2, <2>1, <2>2, StepTyped DEF Turn!TurnState, PromptTypes
<1>12. CASE Turn!Complete
  <2>1. result' \in [how : {"none", "completed", "recovered"}, output : Seq(Turn!Texts)]
    BY <1>12, OutputTyped DEF Turn!Complete
  <2> QED BY <1>1, <1>2, <1>12, <2>1, StepTyped DEF Turn!Complete, Turn!Step, Turn!TurnState,
       PromptTypes
<1> QED
  BY <1>3, <1>4, <1>5, <1>6, <1>7, <1>8, <1>9, <1>10, <1>11, <1>12 DEF Turn!TurnStep

LEMMA PromptTyped == TypeInv /\ [Turn!Next]_(Turn!vars) => PromptTypes'
<1> SUFFICES ASSUME TypeInv, [Turn!Next]_(Turn!vars) PROVE PromptTypes' OBVIOUS
<1>1. PromptTypes
  BY DEF TypeInv
<1>2. CASE UNCHANGED <<wait, answer, Turn!turnVars, unheard>>
  BY <1>1, <1>2 DEF PromptTypes, Turn!turnVars
<1>3. CASE Turn!TurnStep BY <1>3, TurnTyped
<1>4. CASE Turn!Ack \/ Turn!Heartbeat \/ Turn!EventFrame BY <1>4, TailTells
<1>5. CASE Turn!BeginTurn
  <2>1. start' \in Nat
    BY <1>5 DEF Turn!BeginTurn, TypeInv, ClaudeTypes
  <2>2. result' \in [how : {"none", "completed", "recovered"}, output : Seq(Turn!Texts)]
    BY <1>5 DEF Turn!BeginTurn
  <2> QED BY <1>1, <1>5, <2>1, <2>2 DEF Turn!BeginTurn, Turn!Step, Turn!TurnState, PromptTypes
<1>6. CASE Turn!GiveUp
  <2>1. [kind |-> "timeout"] \in Turn!Reports
    BY DEF Turn!Reports
  <2> QED BY <1>1, <1>6, <2>1 DEF Turn!GiveUp, PromptTypes, Turn!turnVars
<1>7. CASE Turn!SettleTimesOut
  BY <1>1, <1>7 DEF Turn!SettleTimesOut, Turn!Step, Turn!TurnState, PromptTypes
<1>8. CASE Turn!ClaudeStep
  BY <1>2, <1>8 DEF Turn!ClaudeStep, Turn!ClaudeAccepts, Turn!HookLogs, Turn!HookRecords,
     Turn!PermissionAnswered, Turn!ClaudeFinishes
<1>9. CASE Turn!Connect \/ Turn!Drop \/ Turn!Evict \/ Turn!CmuxRestarts \/ Turn!UserCloses
         \/ Turn!ClaudeWrites \/ Turn!ClaudeAsks \/ Turn!ClaudeResumes
  BY <1>2, <1>9 DEF Turn!Connect, Turn!Drop, Turn!Evict, Turn!CmuxRestarts, Turn!UserCloses,
     Turn!ClaudeWrites, Turn!ClaudeAsks, Turn!ClaudeResumes
<1>10. CASE UNCHANGED Turn!vars
  BY <1>2, <1>10 DEF Turn!vars
<1> QED
  BY <1>3, <1>4, <1>5, <1>6, <1>7, <1>8, <1>9, <1>10 DEF Turn!Next, Turn!TailStep

LEMMA NumberedKept == TypeInv /\ [Turn!Next]_(Turn!vars) => TurnNumbered'
<1> SUFFICES ASSUME TypeInv, [Turn!Next]_(Turn!vars) PROVE TurnNumbered' OBVIOUS
<1>1. TurnNumbered /\ turn \in Nat
  BY DEF TypeInv, TailInv, TailTypes
<1>2. CASE UNCHANGED <<pc, turn>>
  BY <1>1, <1>2 DEF TurnNumbered
<1>3. CASE Turn!TurnStep
  BY <1>1, <1>3 DEF TurnNumbered, Turn!TurnStep, Turn!TakeFence, Turn!SendPrompt, Turn!SendFails,
     Turn!AwaitSubmit, Turn!AwaitStop, Turn!WaitFor, Turn!SubmitSeen, Turn!StopSeen,
     Turn!TurnFails, Turn!TurnInterrupted, Turn!RecoverReadsRecord, Turn!RecoverReadsOutput,
     Turn!InputReady, Turn!Complete, Turn!Step
<1>4. CASE Turn!BeginTurn
  BY <1>1, <1>4 DEF Turn!BeginTurn, TurnNumbered
<1>5. CASE Turn!SettleTimesOut
  BY <1>1, <1>5 DEF Turn!SettleTimesOut, TurnNumbered, Turn!Step
<1>6. CASE Turn!GiveUp \/ Turn!ClaudeStep \/ Turn!TailStep \/ Turn!Heartbeat
  BY <1>2, <1>6 DEF Turn!GiveUp, Turn!ClaudeStep, Turn!ClaudeAccepts, Turn!HookLogs,
     Turn!HookRecords, Turn!PermissionAnswered, Turn!ClaudeFinishes, Turn!TailStep, Turn!Connect,
     Turn!Ack, Turn!EventFrame, Turn!Heartbeat, Turn!turnVars
<1>7. CASE Turn!Drop \/ Turn!Evict \/ Turn!CmuxRestarts \/ Turn!UserCloses
         \/ Turn!ClaudeWrites \/ Turn!ClaudeAsks \/ Turn!ClaudeResumes
  BY <1>2, <1>7 DEF Turn!Drop, Turn!Evict, Turn!CmuxRestarts, Turn!UserCloses, Turn!ClaudeWrites,
     Turn!ClaudeAsks, Turn!ClaudeResumes, Turn!turnVars
<1>8. CASE UNCHANGED Turn!vars
  BY <1>2, <1>8 DEF Turn!vars, Turn!turnVars
<1> QED
  BY <1>3, <1>4, <1>5, <1>6, <1>7, <1>8 DEF Turn!Next

LEMMA TypeStart == Turn!Init => TypeInv
<1> SUFFICES ASSUME Turn!Init PROVE TypeInv OBVIOUS
<1>1. LinkTypes
  <2>1. open \in BOOLEAN /\ gap \in BOOLEAN /\ link = "up" /\ drops = 0
    BY Zenon DEF Turn!Init
  <2> QED BY <2>1 DEF LinkTypes
<1>2. ClaudeTypes /\ Prompted /\ TurnNumbered
  <2>1. claude = "idle" /\ hook = {} /\ lifecycle = "idle" /\ transcript = <<>> /\ pc = "ready"
    BY DEF Turn!Init
  <2> QED BY <2>1 DEF ClaudeTypes, Prompted, TurnNumbered, Turn!ClaudeState, Turn!Lifecycles
<1>3. PromptTypes
  <2>1. /\ wait = Turn!NoWait /\ answer = Turn!NoAnswer /\ pc = "ready" /\ start = 0
        /\ result = [how |-> "none", output |-> <<>>] /\ fence = [seq |-> 0, boot |-> 1]
    BY DEF Turn!Init
  <2>2. record = "none" /\ unheard \in BOOLEAN
    BY Zenon DEF Turn!Init
  <2>3. fence \in Turn!Fences
    BY <2>1, TurnBounds DEF Turn!Fences, Turn!Boots
  <2>4. result \in [how : {"none", "completed", "recovered"}, output : Seq(Turn!Texts)]
    BY <2>1
  <2> QED BY <2>1, <2>2, <2>3, <2>4 DEF PromptTypes, Turn!TurnState
<1> QED BY <1>1, <1>2, <1>3, InitTail DEF TypeInv

LEMMA TypeKept == TypeInv /\ [Turn!Next]_(Turn!vars) => TypeInv'
BY NextKeeps, LinkTyped, ClaudeTyped, PromptTyped, NumberedKept DEF TypeInv

(* The types of the turn, the tail and what they read, whatever restarts   *)
(* and drops.                                                              *)
THEOREM TypeCorrect == TurnSpec => []Turn!TypeOK
<1>1. TypeInv => Turn!TypeOK
  <2>1. TypeInv =>
          (wait # Turn!NoWait => answer = Turn!NoAnswer /\ pc \in {"awaitSubmit", "awaitStop"})
    BY DEF TypeInv, PromptTypes
  <2> QED
    BY <2>1 DEF TypeInv, TailInv, TailTypes, LinkTypes, ClaudeTypes, PromptTypes, Turn!TypeOK,
       Events
<1> QED BY TypeStart, TypeKept, <1>1, PTL DEF TurnSpec, Turn!Spec

(* observeBootId() and handleFrame(): whatever the stream repeats, loses   *)
(* or rolls back, the history a waiter searches is of the boot the tail    *)
(* reports, and below the fence the next prompt takes.                     *)
THEOREM HistoryIsOneEpoch == TurnSpec => []TailIsOneEpoch
<1>1. TailInv => TailIsOneEpoch
  BY DEF TailInv, TailIsOneEpoch
<1> QED BY InitTail, NextKeeps, <1>1, PTL DEF TurnSpec, Turn!Spec
-----------------------------------------------------------------------------
(* The first prompt of a session.  What runPrompt() takes for the end of   *)
(* the turn is one: Stop follows the last text, and after the prompt was   *)
(* seen submitted in a boot of cmux, an idle record of that boot means     *)
(* that Stop has run.                                                      *)

Finished == \E i \in 1 .. Len(transcript) : transcript[i].last
Heeded   == lifecycle = "idle" => Finished
Early == turn = 0 \/ pc \in {"offset", "submitting"}

(* In the boot the prompt was accepted in: no session is resumed in it.    *)
InBoot == Heeded /\ (claude = "dead" => ~open)

ClaudeInv ==
    /\ \A i \in 1 .. Len(transcript) : transcript[i].turn = 1
    /\ hook # {} => claude \in {"submitHook", "stopHook"}
    /\ claude = "stopHook" => Finished
    /\ Finished => claude \in {"idle", "stopHook", "dead"}
    /\ claude = "submitHook" /\ "record" \notin hook => Heeded
    /\ claude # "queued"
    /\ Early => transcript = <<>> /\ claude \in {"idle", "dead"}

(* The kinds of the events that are in the log, the history or an answer,  *)
(* and the boots the prompt was submitted in.                              *)
Stamp(e) == [kind |-> e.kind, boot |-> IF e.kind = "submit" THEN e.boot ELSE 0]
Stamps == {Stamp(log[i]) : i \in 1 .. Len(log)} \cup {Stamp(history[i]) : i \in 1 .. Len(history)}
        \cup {Stamp(answer)}

EventsInv ==
    /\ \A e \in Stamps : e.boot <= boot
    /\ \A e \in Stamps : e.kind = "submit" /\ e.boot = boot => InBoot
    /\ \A e \in Stamps : e.kind = "stop" => Finished

WholeResult == Turn!Whole(result.output)
Submitted == pc \in {"submitted", "awaitStop", "recovering", "rereading"}

PromptInv ==
    /\ start = 0
    /\ Submitted \/ record # "none" => fence.boot <= boot
    /\ Submitted /\ fence.boot = boot => InBoot
    /\ pc \in {"settling", "completing"} => Finished
    /\ record # "none" => pc \in {"rereading", "recovered", "failed"}
    /\ record = "idle" /\ fence.boot = boot => Finished
    /\ result.how # "none" =>
         /\ turn # 0
         /\ Len(result.output) <= Len(transcript)
         /\ result.output = SubSeq(transcript, 1, Len(result.output))
         /\ result.how = "recovered" => record \in {"idle", "needsInput"}
         /\ result.how = "completed" \/ (record = "idle" /\ fence.boot = boot) => WholeResult

FirstInv == turn <= 1 => ClaudeInv /\ EventsInv /\ PromptInv

(* Nothing but Claude writes to the transcript, and nothing is taken back. *)
LEMMA FinishedStays ==
  ASSUME ClaudeTypes, [Turn!Next]_(Turn!vars) PROVE Finished => Finished'
<1>1. CASE transcript' = transcript
  BY <1>1 DEF Finished
<1>2. CASE Turn!ClaudeWrites \/ Turn!ClaudeFinishes
  <2>1. PICK t : transcript' = Append(transcript, t)
    BY <1>2 DEF Turn!ClaudeWrites, Turn!ClaudeFinishes
  <2> QED BY <2>1 DEF ClaudeTypes, Finished
<1>3. Turn!ClaudeWrites \/ Turn!ClaudeFinishes \/ UNCHANGED transcript
  BY DEF Turn!Next, Turn!TurnStep, Turn!ClaudeStep, Turn!TailStep, Turn!TakeFence,
     Turn!SendPrompt, Turn!SendFails, Turn!AwaitSubmit, Turn!AwaitStop, Turn!WaitFor,
     Turn!SubmitSeen, Turn!StopSeen, Turn!TurnFails, Turn!TurnInterrupted,
     Turn!RecoverReadsRecord, Turn!RecoverReadsOutput, Turn!InputReady, Turn!Complete,
     Turn!ClaudeAccepts, Turn!HookLogs, Turn!HookRecords, Turn!Connect, Turn!Ack, Turn!EventFrame,
     Turn!BeginTurn, Turn!GiveUp, Turn!SettleTimesOut, Turn!Heartbeat, Turn!Drop, Turn!Evict,
     Turn!CmuxRestarts, Turn!UserCloses, Turn!ClaudeAsks, Turn!PermissionAnswered,
     Turn!ClaudeResumes, Turn!Elsewhere, Turn!claudeVars, Turn!vars
<1> QED BY <1>1, <1>2, <1>3

(* Within a boot, a hook makes the record idle only when Claude has        *)
(* finished, and no session is resumed that was not killed with cmux.      *)
LEMMA InBootStays ==
  ASSUME ClaudeTypes, ClaudeInv, boot \in Nat, boot' = boot, [Turn!Next]_(Turn!vars)
  PROVE  InBoot => InBoot'
<1> SUFFICES ASSUME InBoot PROVE Heeded' /\ (claude' = "dead" => ~open')
  BY DEF InBoot
<1>1. (Finished => Finished') /\ Heeded /\ (claude = "dead" => ~open)
  BY FinishedStays DEF InBoot
<1>2. CASE UNCHANGED <<lifecycle, open>> /\ (claude' = "dead" => claude = "dead")
  BY <1>1, <1>2 DEF Heeded
<1>3. CASE Turn!HookRecords
  <2>1. open' = open /\ claude' # "dead"
    BY <1>3 DEF Turn!HookRecords, Turn!AfterHook, Turn!cmuxVars, ClaudeInv
  <2>2. lifecycle' = "idle" => Finished
    BY <1>3 DEF Turn!HookRecords, ClaudeInv
  <2> QED BY <1>1, <2>1, <2>2 DEF Heeded
<1>4. CASE Turn!ClaudeAsks \/ Turn!PermissionAnswered
  <2>1. lifecycle' # "idle" /\ claude' # "dead"
    BY <1>4 DEF Turn!ClaudeAsks, Turn!PermissionAnswered
  <2> QED BY <2>1 DEF Heeded
<1>5. CASE Turn!ClaudeResumes
  BY <1>1, <1>5 DEF Turn!ClaudeResumes
<1>6. CASE Turn!UserCloses
  BY <1>1, <1>6 DEF Turn!UserCloses, Heeded
<1>7. CASE Turn!CmuxRestarts
  BY <1>7 DEF Turn!CmuxRestarts
<1>8. CASE Turn!HookLogs
  <2>1. claude' # "dead" /\ UNCHANGED <<lifecycle, open>>
    BY <1>8 DEF Turn!HookLogs, Turn!AfterHook, ClaudeInv
  <2> QED BY <1>2, <2>1
<1>9. CASE Turn!SendPrompt
  BY <1>2, <1>9 DEF Turn!SendPrompt, Turn!cmuxVars
<1>10. CASE Turn!ClaudeAccepts \/ Turn!ClaudeFinishes \/ Turn!ClaudeWrites
  BY <1>2, <1>10 DEF Turn!ClaudeAccepts, Turn!ClaudeFinishes, Turn!ClaudeWrites, Turn!cmuxVars
<1>11. CASE UNCHANGED <<open, Turn!claudeVars>>
  BY <1>2, <1>11 DEF Turn!claudeVars
<1>12. CASE (Turn!TurnStep /\ ~Turn!SendPrompt) \/ Turn!BeginTurn \/ Turn!GiveUp
              \/ Turn!SettleTimesOut
  BY <1>11, <1>12 DEF Turn!TurnStep, Turn!BeginTurn, Turn!GiveUp, Turn!SettleTimesOut,
     Turn!Elsewhere, Turn!TakeFence, Turn!SendFails, Turn!AwaitSubmit, Turn!AwaitStop,
     Turn!WaitFor, Turn!SubmitSeen, Turn!StopSeen, Turn!TurnFails, Turn!TurnInterrupted,
     Turn!RecoverReadsRecord, Turn!RecoverReadsOutput, Turn!InputReady, Turn!Complete,
     Turn!cmuxVars
<1>13. CASE Turn!Drop \/ Turn!Evict \/ Turn!Heartbeat \/ Turn!TailStep
  BY <1>11, <1>13 DEF Turn!Drop, Turn!Evict, Turn!Heartbeat, Turn!TailStep, Turn!Connect,
     Turn!Ack, Turn!EventFrame, Turn!cmuxVars
<1>14. CASE UNCHANGED Turn!vars
  BY <1>11, <1>14 DEF Turn!vars, Turn!cmuxVars
<1> QED
  BY <1>3, <1>4, <1>5, <1>6, <1>7, <1>8, <1>9, <1>10, <1>12, <1>13, <1>14 DEF Turn!Next,
     Turn!ClaudeStep

(* Claude: a text is of the prompt, and none comes after the last.         *)
LEMMA ClaudeFirst ==
  ASSUME TypeInv, ClaudeInv, turn' <= 1, [Turn!Next]_(Turn!vars) PROVE ClaudeInv'
<1> DEFINE Same == UNCHANGED <<claude, hook, lifecycle, transcript>>
<1>1. ClaudeTypes /\ Prompted /\ turn \in Nat
  BY DEF TypeInv, TailInv, TailTypes
<1>2. CASE Same /\ (Early' => Early)
  BY <1>2 DEF ClaudeInv, Finished, Heeded
<1>3. CASE Turn!CmuxRestarts \/ Turn!UserCloses
  <2>1. claude' = "dead" /\ hook' = {} /\ UNCHANGED <<transcript, turn, pc>>
    BY <1>3 DEF Turn!CmuxRestarts, Turn!UserCloses, Turn!turnVars
  <2> QED BY <2>1 DEF ClaudeInv, Finished, Heeded, Early
<1>4. CASE Turn!ClaudeAccepts
  <2>1. /\ claude = "prompted" /\ claude' = "submitHook" /\ hook' = {"event", "record"}
        /\ UNCHANGED <<lifecycle, transcript, turn, pc>>
    BY <1>4 DEF Turn!ClaudeAccepts, Turn!turnVars
  <2> QED BY <2>1 DEF ClaudeInv, Finished, Heeded, Early
<1>5. CASE Turn!HookLogs
  <2>1. /\ "event" \in hook /\ hook' = hook \ {"event"}
        /\ (claude = "submitHook" => "record" \notin hook)
        /\ claude' = IF hook' = {} THEN Turn!AfterHook ELSE claude
        /\ UNCHANGED <<lifecycle, transcript, turn, pc>>
    BY <1>5 DEF Turn!HookLogs, Turn!turnVars
  <2>2. claude \in {"submitHook", "stopHook"} /\ ~Early
    BY <2>1 DEF ClaudeInv
  <2>3. claude' \in {claude, "working", "idle"} /\ (claude' = "working" => claude = "submitHook")
    BY <2>1, <2>2 DEF Turn!AfterHook
  <2>4. hook' # {} => claude' = claude
    BY <2>1
  <2>5. claude = "submitHook" => ~Finished /\ Heeded
    BY <2>1 DEF ClaudeInv
  <2> QED BY <2>1, <2>2, <2>3, <2>4, <2>5 DEF ClaudeInv, Finished, Heeded, Early
<1>6. CASE Turn!HookRecords
  <2>1. /\ "record" \in hook /\ hook' = hook \ {"record"}
        /\ claude' = IF hook' = {} THEN Turn!AfterHook ELSE claude
        /\ lifecycle' = IF claude = "submitHook" THEN "running" ELSE "idle"
        /\ UNCHANGED <<transcript, turn, pc>>
    BY <1>6 DEF Turn!HookRecords, Turn!turnVars
  <2>2. claude \in {"submitHook", "stopHook"} /\ ~Early
    BY <2>1 DEF ClaudeInv
  <2>3. claude' \in {claude, "working", "idle"} /\ (claude' = "working" => claude = "submitHook")
    BY <2>1, <2>2 DEF Turn!AfterHook
  <2>4. hook' # {} => claude' = claude
    BY <2>1
  <2>5. claude = "submitHook" => ~Finished /\ Heeded'
    BY <2>1 DEF ClaudeInv, Heeded
  <2> QED BY <2>1, <2>2, <2>3, <2>4, <2>5 DEF ClaudeInv, Finished, Early
<1>7. CASE Turn!ClaudeWrites \/ Turn!ClaudeFinishes
  <2>1. PICK b \in BOOLEAN : transcript' = Append(transcript, [turn |-> turn, last |-> b])
                             /\ (b <=> Turn!ClaudeFinishes)
    BY <1>7 DEF Turn!ClaudeWrites, Turn!ClaudeFinishes
  <2>2. claude \in {"working", "granted"} /\ turn = 1 /\ UNCHANGED <<turn, pc>> /\ ~Early /\ ~Finished /\ hook = {}
    BY <1>1, <1>7 DEF Turn!ClaudeWrites, Turn!ClaudeFinishes, ClaudeInv, Prompted, Turn!turnVars,
       Turn!ClaudeState
  <2>3. \A n \in 1 .. Len(transcript') : transcript'[n].turn = 1
    BY <1>1, <2>1, <2>2 DEF ClaudeInv, ClaudeTypes
  <2>4. CASE Turn!ClaudeWrites
    <3>1. b = FALSE
      BY <2>4, <2>1, <2>2 DEF Turn!ClaudeFinishes, Turn!ClaudeWrites
    <3>2. ~Finished'
      BY <3>1, <1>1, <2>1, <2>2 DEF Finished, ClaudeTypes
    <3> QED BY <2>2, <2>3, <2>4, <3>2 DEF ClaudeInv, Turn!ClaudeWrites, Early
  <2>5. CASE Turn!ClaudeFinishes
    <3>1. transcript' = Append(transcript, [turn |-> turn, last |-> TRUE])
      BY <2>5 DEF Turn!ClaudeFinishes
    <3>2. /\ Len(transcript') = Len(transcript) + 1 /\ Len(transcript) \in Nat
          /\ transcript'[Len(transcript) + 1].last
      BY <3>1, <1>1 DEF ClaudeTypes
    <3>3. Finished'
      BY <3>2 DEF Finished
    <3> QED BY <2>2, <2>3, <2>5, <3>3 DEF ClaudeInv, Turn!ClaudeFinishes, Early
  <2> QED BY <1>7, <2>4, <2>5
<1>8. CASE Turn!SendPrompt
  <2>1. /\ pc = "submitting" /\ pc' = "sent" /\ UNCHANGED <<transcript, lifecycle, hook, turn>>
        /\ claude' = IF claude = "idle" THEN "prompted"
                     ELSE IF claude = "stopHook" THEN "queued" ELSE claude
    BY <1>8 DEF Turn!SendPrompt, Turn!Step
  <2>2. transcript = <<>> /\ claude \in {"idle", "dead"} /\ hook = {} /\ turn # 0
    BY <2>1 DEF ClaudeInv, Early, TypeInv, TurnNumbered
  <2> QED BY <2>1, <2>2 DEF ClaudeInv, Finished, Early
<1>9. CASE Turn!BeginTurn
  <2>1. turn = 0 /\ Same
    BY <1>1, <1>9 DEF Turn!BeginTurn, Turn!Elsewhere, Turn!claudeVars
  <2> QED BY <1>2, <2>1 DEF Early
<1>10. CASE Turn!TurnStep /\ ~Turn!SendPrompt
  BY <1>2, <1>10 DEF Turn!TurnStep, Turn!Elsewhere, Turn!TakeFence, Turn!SendFails,
     Turn!AwaitSubmit, Turn!AwaitStop, Turn!WaitFor, Turn!SubmitSeen, Turn!StopSeen,
     Turn!TurnFails, Turn!TurnInterrupted, Turn!RecoverReadsRecord, Turn!RecoverReadsOutput,
     Turn!InputReady, Turn!Complete, Turn!claudeVars, Turn!Step, Early
<1>11. CASE Turn!GiveUp \/ Turn!SettleTimesOut
  BY <1>2, <1>11 DEF Turn!GiveUp, Turn!SettleTimesOut, Turn!Elsewhere, Turn!claudeVars,
     Turn!turnVars, Turn!Step, Early
<1>12. CASE Turn!Drop \/ Turn!Connect \/ Turn!Ack \/ Turn!EventFrame \/ Turn!Evict \/ Turn!Heartbeat
  BY <1>2, <1>12 DEF Turn!Drop, Turn!Connect, Turn!Ack, Turn!EventFrame, Turn!Evict,
     Turn!Heartbeat, Turn!claudeVars, Turn!turnVars, Early
<1>13. CASE UNCHANGED Turn!vars
  BY <1>2, <1>13 DEF Turn!vars, Turn!claudeVars, Turn!turnVars, Early
<1>14. CASE Turn!ClaudeAsks \/ Turn!PermissionAnswered
  <2>1. /\ claude \in {"working", "asking"} /\ claude' \in {"asking", "granted"}
        /\ UNCHANGED <<transcript, turn, pc, hook>>
    BY <1>14 DEF Turn!ClaudeAsks, Turn!PermissionAnswered, Turn!turnVars
  <2> QED BY <2>1 DEF ClaudeInv, Finished, Early
<1>15. CASE Turn!ClaudeResumes
  <2>1. claude = "dead" /\ claude' = "idle" /\ UNCHANGED <<transcript, turn, pc, hook>>
    BY <1>15 DEF Turn!ClaudeResumes, Turn!turnVars
  <2> QED BY <2>1 DEF ClaudeInv, Finished, Early
<1> QED
  BY <1>3, <1>4, <1>5, <1>6, <1>7, <1>8, <1>9, <1>10, <1>11, <1>12, <1>13, <1>14, <1>15
     DEF Turn!Next, Turn!ClaudeStep, Turn!TailStep

(* Neither a restart nor a replay makes an event: only the hooks do.       *)
SilentKinds == {"closed", "nothing", "timeout", "epoch", "gap"}
Silent == {[kind |-> k, boot |-> 0] : k \in SilentKinds}

LEMMA SilentStamp ==
  ASSUME NEW x, x.kind \in SilentKinds PROVE Stamp(x) \in Silent
BY DEF Stamp, Silent, SilentKinds

LEMMA TailSeen ==
  ASSUME TypeInv, NEW b, history' = Turn!Kept(b), UNCHANGED log,
         Stamp(answer') \in Stamps \cup Silent
  PROVE  Stamps' \subseteq Stamps \cup Silent
<1>1. Turn!Kept(b) = history \/ Turn!Kept(b) = <<>>
  BY DEF Turn!Kept
<1> QED BY <1>1 DEF Stamps

LEMMA AnswerSeen ==
  ASSUME NEW what, Stamp(what) \in Stamps \cup Silent, Turn!Tell(what)
  PROVE  Stamp(answer') \in Stamps \cup Silent
BY DEF Turn!Tell, Stamps, Stamp

LEMMA ReportsSilent ==
  /\ \A b : Stamp(Turn!ChangeReport(b)) \in Silent
  /\ Stamp(Turn!AckReport) \in Silent
<1>1. Turn!Epoch.kind \in SilentKinds /\ Turn!Gap.kind \in SilentKinds
      /\ Turn!NoAnswer.kind \in SilentKinds
  BY DEF Turn!Epoch, Turn!Gap, Turn!NoAnswer, SilentKinds
<1>2. Stamp(Turn!Epoch) \in Silent /\ Stamp(Turn!Gap) \in Silent /\ Stamp(Turn!NoAnswer) \in Silent
  BY <1>1, SilentStamp
<1> QED BY <1>2 DEF Turn!ChangeReport, Turn!AckReport

LEMMA FrameSeen ==
  ASSUME TypeInv, Turn!EventFrame PROVE Stamps' \subseteq Stamps \cup Silent
<1> DEFINE n == pos + 1
           e == [kind |-> log[n].kind, boot |-> log[n].boot, seq |-> n, turn |-> log[n].turn]
<1>1. n \in 1 .. Len(log)
  BY DEF Turn!EventFrame, TypeInv, TailInv, TailTypes
<1>2. e \in Turn!Frames /\ e.kind = log[n].kind /\ e.boot = log[n].boot
  BY <1>1, FrameTyped DEF TypeInv
<1>3. Turn!Tell(Turn!Heard(e)) /\ history' = Append(Turn!Kept(e.boot), e) /\ UNCHANGED log
  BY DEF Turn!EventFrame, Turn!cmuxVars
<1> HIDE DEF e
<1>4. Stamp(e) \in Stamps
  <2>1. Stamp(e) = Stamp(log[n])
    BY <1>2 DEF Stamp
  <2> QED BY <1>1, <2>1 DEF Stamps
<1>5. Stamp(Turn!Heard(e)) \in Stamps \cup Silent
  <2>1. Turn!Heard(e) \in {Turn!Epoch, e, Turn!NoAnswer}
    BY DEF Turn!Heard
  <2>2. Turn!Epoch.kind \in SilentKinds /\ Turn!NoAnswer.kind \in SilentKinds
    BY DEF Turn!Epoch, Turn!NoAnswer, SilentKinds
  <2> QED BY <1>4, <2>1, <2>2, SilentStamp
<1>6. Stamp(answer') \in Stamps \cup Silent
  BY <1>3, <1>5, AnswerSeen
<1>7. Turn!Kept(e.boot) \in {history, <<>>} /\ history \in Seq(Turn!Frames)
  BY DEF Turn!Kept, TypeInv, TailInv, TailTypes
<1>8. \A i \in 1 .. Len(history') : Stamp(history'[i]) \in Stamps
  <2> SUFFICES ASSUME NEW i \in 1 .. Len(history') PROVE Stamp(history'[i]) \in Stamps
    OBVIOUS
  <2>1. Len(history') = Len(Turn!Kept(e.boot)) + 1
    BY <1>2, <1>3, <1>7
  <2>2. CASE i = Len(history')
    <3>1. history'[i] = e
      BY <1>2, <1>3, <1>7, <2>1, <2>2
    <3> QED BY <1>4, <3>1
  <2>3. CASE i # Len(history')
    <3>1. history'[i] = Turn!Kept(e.boot)[i] /\ i \in 1 .. Len(Turn!Kept(e.boot))
      BY <1>2, <1>3, <1>7, <2>1, <2>3
    <3>2. Turn!Kept(e.boot) = history
      BY <1>7, <3>1
    <3> QED BY <3>1, <3>2 DEF Stamps
  <2> QED BY <2>2, <2>3
<1> QED BY <1>3, <1>6, <1>8 DEF Stamps

LEMMA WaitSeen ==
  ASSUME TypeInv, NEW want, Turn!WaitFor(want) PROVE Stamp(answer') \in Stamps
<1>1. CASE answer' = answer
  BY <1>1 DEF Stamps
<1>2. CASE answer' # answer
  <2>1. PICK i \in 1 .. Len(history) : answer' = history[i]
    BY <1>2 DEF Turn!WaitFor
  <2> QED BY <2>1 DEF Stamps
<1> QED BY <1>1, <1>2

LEMMA NothingNew ==
  ASSUME TypeInv, [Turn!Next]_(Turn!vars), ~Turn!HookLogs
  PROVE  Stamps' \subseteq Stamps \cup Silent
<1>1. CASE UNCHANGED <<log, history, answer>>
  BY <1>1 DEF Stamps
<1>2. CASE UNCHANGED <<log, history>> /\ Stamp(answer') \in Stamps \cup Silent
  BY <1>2 DEF Stamps
<1>3. CASE Turn!CmuxRestarts
  <2>1. PICK d \in 0 .. Len(log) : log' = SubSeq(log, 1, d)
    BY <1>3 DEF Turn!CmuxRestarts
  <2>2. UNCHANGED <<history, answer>>
    BY <1>3 DEF Turn!CmuxRestarts, Turn!tailVars
  <2>3. \A i \in 1 .. Len(log') : i \in 1 .. Len(log) /\ log'[i] = log[i]
    BY <2>1 DEF TypeInv, TailInv, TailTypes
  <2> QED BY <2>2, <2>3 DEF Stamps
<1>4. CASE Turn!UserCloses
  <2>1. log' = Append(log, [kind |-> "closed", boot |-> boot, turn |-> 0])
        /\ UNCHANGED <<history, answer>>
    BY <1>4 DEF Turn!UserCloses, Turn!Logs, Turn!tailVars
  <2>2. \A i \in 1 .. Len(log') :
           log'[i].kind = "closed" \/ (i \in 1 .. Len(log) /\ log'[i] = log[i])
    BY <2>1 DEF TypeInv, TailInv, TailTypes
  <2>3. \A i \in 1 .. Len(log') : Stamp(log'[i]) \in Silent \cup Stamps
    <3> SUFFICES ASSUME NEW i \in 1 .. Len(log') PROVE Stamp(log'[i]) \in Silent \cup Stamps
      OBVIOUS
    <3>1. CASE log'[i].kind = "closed"
      BY <3>1, SilentStamp DEF SilentKinds
    <3>2. CASE i \in 1 .. Len(log) /\ log'[i] = log[i]
      BY <3>2 DEF Stamps
    <3> QED BY <2>2, <3>1, <3>2
  <2> QED BY <2>1, <2>3 DEF Stamps
<1>5. CASE Turn!Ack
  <2>1. Stamp(answer') \in Stamps \cup Silent
    BY <1>5, ReportsSilent, AnswerSeen DEF Turn!Ack
  <2> QED BY <1>5, <2>1, TailSeen DEF Turn!Ack, Turn!cmuxVars
<1>6. CASE Turn!Heartbeat
  <2>1. Stamp(answer') \in Stamps \cup Silent
    BY <1>6, ReportsSilent, AnswerSeen DEF Turn!Heartbeat
  <2> QED BY <1>6, <2>1, TailSeen DEF Turn!Heartbeat, Turn!cmuxVars
<1>7. CASE Turn!EventFrame BY <1>7, FrameSeen
<1>8. CASE Turn!AwaitSubmit \/ Turn!AwaitStop
  BY <1>2, <1>8, WaitSeen DEF Turn!AwaitSubmit, Turn!AwaitStop, Turn!WaitFor, Turn!Elsewhere,
     Turn!cmuxVars, Turn!tailVars
<1>9. CASE Turn!SubmitSeen \/ Turn!StopSeen \/ Turn!TurnFails \/ Turn!TurnInterrupted \/ Turn!GiveUp
  <2>1. /\ UNCHANGED <<log, history>>
        /\ answer' = Turn!NoAnswer \/ answer' = [kind |-> "timeout"]
    BY <1>9 DEF Turn!SubmitSeen, Turn!StopSeen, Turn!TurnFails, Turn!TurnInterrupted,
       Turn!GiveUp, Turn!Elsewhere, Turn!cmuxVars, Turn!tailVars
  <2>2. answer'.kind \in SilentKinds
    BY <2>1 DEF Turn!NoAnswer, SilentKinds
  <2> QED BY <1>2, <2>1, <2>2, SilentStamp
<1>10. CASE Turn!TakeFence \/ Turn!SendPrompt \/ Turn!SendFails \/ Turn!RecoverReadsRecord
          \/ Turn!RecoverReadsOutput
            \/ Turn!InputReady \/ Turn!Complete \/ Turn!BeginTurn \/ Turn!SettleTimesOut
  BY <1>1, <1>10 DEF Turn!TakeFence, Turn!SendPrompt, Turn!SendFails, Turn!RecoverReadsRecord,
     Turn!RecoverReadsOutput, Turn!InputReady, Turn!Complete, Turn!BeginTurn, Turn!SettleTimesOut,
     Turn!Elsewhere, Turn!cmuxVars, Turn!tailVars
<1>11. CASE Turn!ClaudeAccepts \/ Turn!HookRecords \/ Turn!ClaudeFinishes \/ Turn!ClaudeWrites
          \/ Turn!ClaudeAsks \/ Turn!PermissionAnswered \/ Turn!ClaudeResumes
          \/ Turn!Connect \/ Turn!Drop \/ Turn!Evict
  BY <1>1, <1>11 DEF Turn!ClaudeAccepts, Turn!HookRecords, Turn!ClaudeFinishes, Turn!ClaudeWrites,
     Turn!ClaudeAsks, Turn!PermissionAnswered, Turn!ClaudeResumes, Turn!Connect, Turn!Drop,
     Turn!Evict, Turn!cmuxVars, Turn!tailVars
<1>12. CASE UNCHANGED Turn!vars
  BY <1>1, <1>12 DEF Turn!vars, Turn!cmuxVars, Turn!tailVars
<1> QED
  BY <1>3, <1>4, <1>5, <1>6, <1>7, <1>8, <1>9, <1>10, <1>11, <1>12 DEF Turn!Next, Turn!TurnStep,
     Turn!ClaudeStep, Turn!TailStep

(* Only a restart of cmux makes a boot.                                    *)
LEMMA BootMoves ==
  ASSUME [Turn!Next]_(Turn!vars), ~Turn!CmuxRestarts PROVE boot' = boot
BY DEF Turn!Next, Turn!TurnStep, Turn!ClaudeStep, Turn!TailStep, Turn!TakeFence, Turn!SendPrompt,
   Turn!SendFails, Turn!AwaitSubmit, Turn!AwaitStop, Turn!WaitFor, Turn!SubmitSeen, Turn!StopSeen,
   Turn!TurnFails, Turn!TurnInterrupted, Turn!RecoverReadsRecord, Turn!RecoverReadsOutput,
   Turn!InputReady, Turn!Complete, Turn!ClaudeAccepts, Turn!HookLogs, Turn!HookRecords,
   Turn!ClaudeFinishes, Turn!ClaudeWrites, Turn!ClaudeAsks, Turn!PermissionAnswered,
   Turn!ClaudeResumes, Turn!Connect, Turn!Ack, Turn!EventFrame, Turn!BeginTurn, Turn!GiveUp,
   Turn!SettleTimesOut, Turn!Heartbeat, Turn!Drop, Turn!Evict, Turn!UserCloses, Turn!Elsewhere,
   Turn!cmuxVars, Turn!vars

(* What was seen bears the number of a boot.                               *)
LEMMA StampTyped == TypeInv => \A e \in Stamps : e.boot \in Nat
<1> SUFFICES ASSUME TypeInv PROVE \A e \in Stamps : e.boot \in Nat OBVIOUS
<1>1. \A i \in 1 .. Len(log) : log[i].boot \in Nat
  <2>1. \A i \in 1 .. Len(log) : log[i] \in Events
    BY DEF TypeInv, TailInv, TailTypes
  <2>2. \A e \in Events : e.boot \in Nat
    BY DEF Events, Turn!Boots
  <2> QED BY <2>1, <2>2
<1>2. \A i \in 1 .. Len(history) : history[i].boot \in Nat
  <2>1. \A i \in 1 .. Len(history) : history[i] \in Turn!Frames
    BY DEF TypeInv, TailInv, TailTypes
  <2>2. \A e \in Turn!Frames : e.boot \in Nat
    BY DEF Turn!Frames, Turn!Boots
  <2> QED BY <2>1, <2>2
<1>3. answer.kind = "submit" => answer.boot \in Nat
  <2>1. answer.kind = "submit" => answer \in Turn!Frames
    BY AnswerTyped DEF TypeInv, Turn!Kinds
  <2> QED BY <2>1 DEF Turn!Frames, Turn!Boots
<1> QED BY <1>1, <1>2, <1>3 DEF Stamps, Stamp

LEMMA EventsFirst ==
  ASSUME TypeInv, ClaudeInv, EventsInv, [Turn!Next]_(Turn!vars) PROVE EventsInv'
<1>1. (Finished => Finished') /\ ClaudeTypes /\ boot \in Nat
  BY FinishedStays DEF TypeInv, TailInv, TailTypes, Turn!Boots
<1>2. CASE Turn!CmuxRestarts
  <2>1. Stamps' \subseteq Stamps \cup Silent
    <3>1. ~Turn!HookLogs
      <4>1. boot' # boot
        BY <1>1, <1>2 DEF Turn!CmuxRestarts
      <4> QED BY <4>1 DEF Turn!HookLogs
    <3> QED BY <3>1, NothingNew
  <2>2. boot' = boot + 1
    BY <1>2 DEF Turn!CmuxRestarts
  <2>3. \A e \in Silent : e.boot = 0
    BY DEF Silent
  <2>4. \A e \in Stamps' : e.boot \in Nat /\ e.boot <= boot
    BY <1>1, <2>1, <2>3, StampTyped DEF EventsInv
  <2>5. \A e \in Stamps' : e.kind = "stop" => Finished'
    BY <1>1, <2>1 DEF EventsInv, Silent, SilentKinds
  <2>6. \A e \in Stamps' : e.boot <= boot' /\ e.boot # boot'
    BY <1>1, <2>2, <2>4
  <2> QED BY <2>5, <2>6 DEF EventsInv
<1>3. ASSUME ~Turn!CmuxRestarts PROVE boot' = boot /\ (InBoot => InBoot')
  <2>1. boot' = boot
    BY <1>3, BootMoves
  <2> QED BY <1>1, <2>1, InBootStays
<1>4. CASE ~Turn!HookLogs /\ ~Turn!CmuxRestarts
  <2>1. Stamps' \subseteq Stamps \cup Silent
    BY <1>4, NothingNew
  <2>2. \A e \in Silent : e.boot = 0 /\ e.kind \notin {"submit", "stop"}
    BY DEF Silent, SilentKinds
  <2> QED BY <1>1, <1>3, <1>4, <2>1, <2>2 DEF EventsInv
<1>5. CASE Turn!HookLogs
  <2> DEFINE k == IF claude = "submitHook" THEN "submit" ELSE "stop"
             e == [kind |-> k, boot |-> boot, turn |-> turn]
  <2>1. log' = Append(log, e) /\ UNCHANGED <<boot, history, answer>>
    BY <1>5 DEF Turn!HookLogs, Turn!Logs, Turn!tailVars
  <2>2. /\ k = "submit" => Heeded /\ claude # "dead"
        /\ k = "stop" => Finished
    BY <1>5 DEF Turn!HookLogs, ClaudeInv
  <2>3. Stamp(e).kind = k /\ (k = "submit" => Stamp(e).boot = boot) /\ Stamp(e).boot <= boot
    BY <1>1 DEF Stamp
  <2> HIDE DEF e, k
  <2>4. \A i \in 1 .. Len(log') : log'[i] = e \/ (i \in 1 .. Len(log) /\ log'[i] = log[i])
    BY <2>1 DEF TypeInv, TailInv, TailTypes
  <2>5. Stamps' \subseteq Stamps \cup {Stamp(e)}
    BY <2>1, <2>4 DEF Stamps
  <2>6. ~Turn!CmuxRestarts
    BY <1>1, <2>1 DEF Turn!CmuxRestarts
  <2>7. k = "submit" => InBoot
    BY <2>2 DEF InBoot
  <2> QED BY <1>1, <1>3, <2>2, <2>3, <2>5, <2>6, <2>7 DEF EventsInv
<1> QED BY <1>2, <1>4, <1>5

(* runPrompt() takes the turn for over only after the last text, and what  *)
(* it returns is all that Claude has written.                              *)
LEMMA WholeOutput ==
  ASSUME TypeInv, PromptInv PROVE Turn!Output = transcript
<1>1. start = 0 /\ transcript \in Seq(Turn!Texts)
  BY DEF PromptInv, TypeInv, ClaudeTypes
<1> QED BY <1>1 DEF Turn!Output

(* A result stays what it was while Claude goes on writing.                *)
LEMMA ResultStays ==
  ASSUME ClaudeTypes, result \in [how : {"none", "completed", "recovered"}, output : Seq(Turn!Texts)],
         NEW t, transcript' = Append(transcript, t),
         Len(result.output) <= Len(transcript),
         result.output = SubSeq(transcript, 1, Len(result.output))
  PROVE  /\ Len(result.output) <= Len(transcript')
         /\ result.output = SubSeq(transcript', 1, Len(result.output))
<1> DEFINE n == Len(result.output)
<1>1. transcript \in Seq(Turn!Texts) /\ n \in Nat /\ n <= Len(transcript)
  BY DEF ClaudeTypes
<1>2. Len(transcript') = Len(transcript) + 1
  BY <1>1
<1>3. \A i \in 1 .. n : transcript'[i] = transcript[i]
  BY <1>1
<1>4. SubSeq(transcript', 1, n) = SubSeq(transcript, 1, n)
  BY <1>1, <1>2, <1>3
<1> QED BY <1>1, <1>2, <1>4

LEMMA PromptFirst ==
  ASSUME TypeInv, ClaudeInv, EventsInv, PromptInv, turn' <= 1, [Turn!Next]_(Turn!vars)
  PROVE  PromptInv'
<1> USE DEF Submitted
<1>1. /\ Finished => Finished'
      /\ boot \in Nat /\ boot' \in Nat /\ fence.boot \in Nat
      /\ ClaudeTypes /\ turn \in Nat /\ transcript \in Seq(Turn!Texts)
  <2>1. ClaudeTypes /\ fence \in Turn!Fences /\ boot \in Turn!Boots /\ turn \in 0 .. MaxTurns
    BY DEF TypeInv, TailInv, TailTypes, PromptTypes
  <2>2. boot' \in Turn!Boots
    BY TypeKept DEF TypeInv, TailInv, TailTypes
  <2>3. transcript \in Seq(Turn!Texts)
    BY <2>1 DEF ClaudeTypes
  <2> QED BY <2>1, <2>2, <2>3, FinishedStays DEF Turn!Boots, Turn!Fences
<1>2. boot' = boot => (InBoot => InBoot')
  BY <1>1, InBootStays
<1>3. /\ answer.kind = "submit" => answer.boot <= boot /\ (answer.boot = boot => InBoot)
      /\ answer.kind = "stop" => Finished
  <2>1. Stamp(answer) \in Stamps
    BY DEF Stamps
  <2> QED BY <2>1 DEF EventsInv, Stamp
<1>5. CASE UNCHANGED <<boot, turn, start, pc, fence, record, result, transcript>>
  BY <1>1, <1>2, <1>5 DEF PromptInv, Turn!Whole, WholeResult
<1>6. CASE UNCHANGED <<boot, turn, start, fence, record, result, transcript>> /\ pc' = "failed"
  BY <1>1, <1>6 DEF PromptInv, Turn!Whole, WholeResult
<1>7. CASE Turn!CmuxRestarts
  <2>1. boot' = boot + 1 /\ UNCHANGED <<turn, start, pc, fence, record, result, transcript>>
    BY <1>7 DEF Turn!CmuxRestarts, Turn!turnVars
  <2>2. Submitted \/ record # "none" => fence.boot # boot'
    BY <1>1, <2>1 DEF PromptInv
  <2>3. fence'.boot = boot' => ~Submitted' /\ record' = "none"
    BY <2>1, <2>2
  <2>4. result.how = "completed" => WholeResult'
    BY <2>1 DEF PromptInv, Turn!Whole, WholeResult
  <2>5. Submitted' \/ record' # "none" => fence'.boot <= boot'
    BY <1>1, <2>1 DEF PromptInv
  <2> QED BY <1>1, <2>1, <2>3, <2>4, <2>5 DEF PromptInv
<1>8. CASE Turn!ClaudeWrites \/ Turn!ClaudeFinishes
  <2>1. ~Finished /\ UNCHANGED <<Turn!turnVars, boot>>
    BY <1>8 DEF Turn!ClaudeWrites, Turn!ClaudeFinishes, ClaudeInv, Turn!cmuxVars
  <2>2. PICK t : transcript' = Append(transcript, t)
    BY <1>8 DEF Turn!ClaudeWrites, Turn!ClaudeFinishes
  <2>3. result.how # "none" =>
          /\ Len(result.output) <= Len(transcript')
          /\ result.output = SubSeq(transcript', 1, Len(result.output))
    BY <1>1, <2>2, ResultStays DEF PromptInv, TypeInv, PromptTypes
  <2> QED BY <1>1, <1>2, <2>1, <2>3 DEF PromptInv, Turn!turnVars, Turn!Whole, WholeResult
<1>9. CASE Turn!BeginTurn
  <2>1. turn = 0
    BY <1>9 DEF Turn!BeginTurn, TypeInv, TailInv, TailTypes
  <2>2. transcript = <<>> /\ ~Finished
    BY <2>1 DEF ClaudeInv, Early, Finished
  <2>3. start' = 0 /\ pc' = "offset" /\ record' = record /\ result'.how = "none" /\ pc = "ready"
    BY <1>9, <2>2 DEF Turn!BeginTurn, Turn!Step
  <2> QED BY <1>1, <2>3 DEF PromptInv
<1>10. CASE Turn!TakeFence
  <2>1. pc = "offset" /\ pc' = "submitting" /\ UNCHANGED <<start, record, result, transcript, turn>>
    BY <1>10 DEF Turn!TakeFence, Turn!Step, Turn!Elsewhere, Turn!claudeVars
  <2>2. record' = "none"
    BY <2>1 DEF PromptInv
  <2> QED BY <1>1, <2>1, <2>2 DEF PromptInv, Turn!Whole, WholeResult
<1>11. CASE Turn!SendPrompt \/ Turn!AwaitSubmit
  <2>1. /\ pc' \in {"sent", "awaitSubmit"}
        /\ UNCHANGED <<boot, turn, start, fence, record, result, transcript>>
        /\ pc \in {"submitting", "sent"}
    BY <1>11 DEF Turn!SendPrompt, Turn!AwaitSubmit, Turn!WaitFor, Turn!Step, Turn!Elsewhere,
       Turn!claudeVars, Turn!cmuxVars
  <2> QED BY <1>1, <2>1 DEF PromptInv, Turn!Whole, WholeResult
<1>12. CASE Turn!AwaitStop \/ Turn!TurnInterrupted
  <2>1. /\ pc \in {"submitted", "awaitStop"} /\ pc' \in {"awaitStop", "recovering"}
        /\ UNCHANGED <<boot, turn, start, fence, record, result, transcript>>
    BY <1>12 DEF Turn!AwaitStop, Turn!TurnInterrupted, Turn!WaitFor, Turn!Step, Turn!Elsewhere,
       Turn!claudeVars, Turn!cmuxVars
  <2> QED BY <1>1, <1>2, <2>1 DEF PromptInv, Turn!Whole, WholeResult
<1>13. CASE Turn!SubmitSeen
  <2>1. /\ pc = "awaitSubmit" /\ pc' = "submitted" /\ answer.kind = "submit"
        /\ fence' = [seq |-> answer.seq, boot |-> answer.boot]
        /\ UNCHANGED <<boot, turn, start, record, result, transcript>>
    BY <1>13 DEF Turn!SubmitSeen, Turn!Step, Turn!Elsewhere, Turn!claudeVars, Turn!cmuxVars
  <2>2. fence'.boot = answer.boot /\ record' = "none"
    BY <2>1 DEF PromptInv
  <2> QED BY <1>1, <1>2, <1>3, <2>1, <2>2 DEF PromptInv, Turn!Whole, WholeResult
<1>14. CASE Turn!StopSeen
  <2>1. /\ pc = "awaitStop" /\ pc' = "settling" /\ answer.kind = "stop"
        /\ UNCHANGED <<boot, turn, start, fence, record, result, transcript>>
    BY <1>14 DEF Turn!StopSeen, Turn!Step, Turn!Elsewhere, Turn!claudeVars, Turn!cmuxVars
  <2> QED BY <1>1, <1>3, <2>1 DEF PromptInv, Turn!Whole, WholeResult
<1>15. CASE Turn!RecoverReadsRecord
  <2>1. /\ pc = "recovering" /\ pc' = "rereading" /\ record' = lifecycle
        /\ UNCHANGED <<boot, turn, start, fence, result, transcript>>
    BY <1>15 DEF Turn!RecoverReadsRecord, Turn!Step, Turn!Elsewhere, Turn!claudeVars, Turn!cmuxVars
  <2>2. record = "none" /\ result.how # "recovered"
    BY <2>1 DEF PromptInv
  <2>3. lifecycle = "idle" /\ fence.boot = boot => Finished
    BY <2>1 DEF PromptInv, InBoot, Heeded
  <2>4. result.how # "none" => result.how = "completed"
    BY <2>2 DEF TypeInv, PromptTypes
  <2> QED BY <1>1, <1>2, <2>1, <2>2, <2>3, <2>4 DEF PromptInv, Turn!Whole, WholeResult
<1>16. CASE Turn!RecoverReadsOutput
  <2>1. /\ UNCHANGED <<boot, turn, start, fence, record, transcript>>
        /\ pc = "rereading" /\ pc' \in {"recovered", "failed"}
    BY <1>16 DEF Turn!RecoverReadsOutput, Turn!Step, Turn!Elsewhere, Turn!claudeVars, Turn!cmuxVars
  <2>2. \/ result' = result
        \/ record \in Turn!InputReadyStates /\ result' = [how |-> "recovered", output |-> transcript]
    BY <1>16, WholeOutput DEF Turn!RecoverReadsOutput, Turn!Recoverable
  <2>3. CASE result' = result
    BY <1>1, <2>1, <2>3 DEF PromptInv, Turn!Whole, WholeResult
  <2>4. CASE record \in Turn!InputReadyStates /\ result' = [how |-> "recovered", output |-> transcript]
    <3>1. /\ result'.output = transcript /\ result'.how = "recovered"
          /\ record' \in {"idle", "needsInput"}
      BY <2>1, <2>4 DEF Turn!InputReadyStates
    <3>2. SubSeq(transcript', 1, Len(result'.output)) = result'.output
      BY <1>1, <2>1, <3>1
    <3>3. record' = "idle" /\ fence'.boot = boot' => WholeResult'
      BY <2>1, <3>1 DEF PromptInv, Finished, Turn!Whole, WholeResult
    <3>4. turn # 0
      BY <2>1 DEF TypeInv, TurnNumbered
    <3> QED BY <1>1, <2>1, <3>1, <3>2, <3>3, <3>4 DEF PromptInv
  <2> QED BY <2>2, <2>3, <2>4
<1>17. CASE Turn!InputReady
  <2>1. /\ pc = "settling" /\ pc' = "completing"
        /\ UNCHANGED <<boot, turn, start, fence, record, result, transcript>>
    BY <1>17 DEF Turn!InputReady, Turn!Step, Turn!Elsewhere, Turn!claudeVars, Turn!cmuxVars
  <2> QED BY <1>1, <2>1 DEF PromptInv, Turn!Whole, WholeResult
<1>18. CASE Turn!Complete
  <2>1. /\ pc = "completing" /\ pc' = "ready"
        /\ UNCHANGED <<boot, turn, start, fence, record, transcript>>
        /\ result' = [how |-> "completed", output |-> transcript]
    BY <1>18, WholeOutput DEF Turn!Complete, Turn!Step, Turn!Elsewhere, Turn!claudeVars, Turn!cmuxVars
  <2>2. result'.output = transcript /\ result'.how = "completed"
    BY <2>1
  <2>3. SubSeq(transcript', 1, Len(result'.output)) = result'.output
    BY <1>1, <2>1, <2>2
  <2>4. WholeResult'
    BY <2>1, <2>2 DEF PromptInv, Finished, Turn!Whole, WholeResult
  <2>5. turn # 0
    BY <2>1 DEF TypeInv, TurnNumbered
  <2>6. record' = "none"
    BY <2>1 DEF PromptInv
  <2> QED BY <1>1, <2>1, <2>2, <2>3, <2>4, <2>5, <2>6 DEF PromptInv
<1>19. CASE Turn!SendFails \/ Turn!TurnFails \/ Turn!SettleTimesOut
  BY <1>6, <1>19 DEF Turn!SendFails, Turn!TurnFails, Turn!SettleTimesOut, Turn!Step,
     Turn!Elsewhere, Turn!claudeVars, Turn!cmuxVars
<1>20. CASE Turn!GiveUp \/ Turn!Ack \/ Turn!Heartbeat \/ Turn!EventFrame \/ Turn!Connect
  BY <1>5, <1>20 DEF Turn!GiveUp, Turn!Ack, Turn!Heartbeat, Turn!EventFrame, Turn!Connect,
     Turn!Elsewhere, Turn!claudeVars, Turn!turnVars, Turn!cmuxVars
<1>21. CASE Turn!Drop \/ Turn!Evict \/ Turn!UserCloses \/ Turn!ClaudeAccepts
          \/ Turn!HookLogs \/ Turn!HookRecords \/ Turn!ClaudeAsks \/ Turn!PermissionAnswered
          \/ Turn!ClaudeResumes
  BY <1>5, <1>21 DEF Turn!Drop, Turn!Evict, Turn!UserCloses, Turn!ClaudeAccepts, Turn!HookLogs,
     Turn!HookRecords, Turn!ClaudeAsks, Turn!PermissionAnswered, Turn!ClaudeResumes,
     Turn!claudeVars, Turn!turnVars, Turn!cmuxVars
<1>22. CASE UNCHANGED Turn!vars
  BY <1>5, <1>22 DEF Turn!vars, Turn!claudeVars, Turn!turnVars, Turn!cmuxVars
<1> QED
  BY <1>7, <1>8, <1>9, <1>10, <1>11, <1>12, <1>13, <1>14, <1>15, <1>16, <1>17, <1>18, <1>19,
     <1>20, <1>21, <1>22
  DEF Turn!Next, Turn!TurnStep, Turn!ClaudeStep, Turn!TailStep

LEMMA FirstKept == TypeInv /\ FirstInv /\ [Turn!Next]_(Turn!vars) => FirstInv'
<1> SUFFICES ASSUME TypeInv, FirstInv, [Turn!Next]_(Turn!vars), turn' <= 1
             PROVE  ClaudeInv' /\ EventsInv' /\ PromptInv'
  BY DEF FirstInv
<1>1. turn' = turn \/ (turn' = turn + 1 /\ turn < MaxTurns)
  BY DEF Turn!Next, Turn!TurnStep, Turn!ClaudeStep, Turn!TailStep, Turn!TakeFence,
     Turn!SendPrompt, Turn!SendFails, Turn!AwaitSubmit, Turn!AwaitStop, Turn!WaitFor,
     Turn!SubmitSeen, Turn!StopSeen, Turn!TurnFails, Turn!TurnInterrupted,
     Turn!RecoverReadsRecord, Turn!RecoverReadsOutput, Turn!InputReady, Turn!Complete,
     Turn!ClaudeAccepts, Turn!HookLogs, Turn!HookRecords, Turn!ClaudeFinishes, Turn!ClaudeWrites,
     Turn!Connect, Turn!Ack, Turn!EventFrame, Turn!BeginTurn, Turn!GiveUp, Turn!SettleTimesOut,
     Turn!Heartbeat, Turn!Drop, Turn!Evict, Turn!CmuxRestarts, Turn!UserCloses, Turn!ClaudeAsks,
     Turn!PermissionAnswered, Turn!ClaudeResumes, Turn!turnVars, Turn!vars
<1>2. turn <= 1
  BY <1>1 DEF TypeInv, TailInv, TailTypes
<1>3. ClaudeInv /\ EventsInv /\ PromptInv
  BY <1>2 DEF FirstInv
<1> QED BY <1>3, ClaudeFirst, EventsFirst, PromptFirst

LEMMA FirstStart == Turn!Init => FirstInv
<1> SUFFICES ASSUME Turn!Init PROVE ClaudeInv /\ EventsInv /\ PromptInv
  BY DEF FirstInv
<1>1. /\ transcript = <<>> /\ hook = {} /\ claude = "idle" /\ log = <<>> /\ history = <<>>
      /\ answer.kind = "nothing" /\ pc = "ready" /\ start = 0 /\ result.how = "none"
  BY DEF Turn!Init, Turn!NoAnswer
<1>2. record = "none" /\ ~Finished
  BY <1>1 DEF Turn!Init, Finished
<1>3. Stamps = {Stamp(answer)} /\ Stamp(answer).kind = "nothing" /\ Stamp(answer).boot = 0
  BY <1>1 DEF Stamps, Stamp
<1>4. boot \in Nat
  BY DEF Turn!Init
<1> QED BY <1>1, <1>2, <1>3, <1>4 DEF ClaudeInv, EventsInv, PromptInv, Submitted

(* runPrompt(), runTask(): what the first prompt of a session returns are  *)
(* the texts Claude wrote for it, from the first on; and it is all of      *)
(* them, the last one included, when the turn completed, or was recovered  *)
(* in the boot of cmux the prompt was submitted in from a record without a *)
(* pending permission. This for any restarts of cmux, resumed sessions,    *)
(* lost connections and lags of the cursor.                                *)
THEOREM FirstResultIsWhole == TurnSpec => [](turn <= 1 => ResultIsTheTurns)
<1>1. TypeInv /\ FirstInv => (turn <= 1 => ResultIsTheTurns)
  <2> SUFFICES ASSUME TypeInv, ClaudeInv, PromptInv, turn <= 1, result.how # "none"
               PROVE  /\ \E n \in 0 .. Len(transcript) :
                            /\ result.output = SubSeq(transcript, n + 1, n + Len(result.output))
                            /\ \A i \in 1 .. Len(transcript) : transcript[i].turn = turn <=> i > n
                      /\ result.how = "completed" \/ (record # "needsInput" /\ boot = fence.boot)
                            => Turn!Whole(result.output)
    BY DEF FirstInv, ResultIsTheTurns, Turn!ResultIsTheTurns
  <2>1. transcript \in Seq(Turn!Texts) /\ turn \in Nat /\ Len(result.output) \in Nat
    BY DEF TypeInv, ClaudeTypes, TailInv, TailTypes, PromptTypes
  <2>2. turn = 1
    BY <2>1 DEF PromptInv
  <2>3. /\ result.output = SubSeq(transcript, 0 + 1, 0 + Len(result.output))
        /\ 0 \in 0 .. Len(transcript)
    BY <2>1 DEF PromptInv
  <2>4. \A i \in 1 .. Len(transcript) : transcript[i].turn = turn <=> i > 0
    BY <2>1, <2>2 DEF ClaudeInv
  <2>5. result.how = "completed" \/ (result.how = "recovered" /\ record \in {"idle", "needsInput"})
    BY DEF TypeInv, PromptTypes, PromptInv
  <2> QED BY <2>3, <2>4, <2>5 DEF PromptInv, WholeResult
<1> QED BY TypeStart, TypeKept, FirstStart, FirstKept, <1>1, PTL DEF TurnSpec, Turn!Spec

(* A session that is sent one prompt, as runTask() does, returns nothing   *)
(* but what Claude wrote for that prompt, and half of it only when it was  *)
(* recovered over a restart or from a record that needs input.             *)
THEOREM OnePromptIsWhole ==
    ASSUME MaxTurns = 1 PROVE TurnSpec => []ResultIsTheTurns
<1>1. TypeInv => turn <= 1
  BY DEF TypeInv, TailInv, TailTypes
<1> QED BY FirstResultIsWhole, TypeStart, TypeKept, <1>1, PTL DEF TurnSpec, Turn!Spec

=============================================================================
