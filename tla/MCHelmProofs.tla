---------------------------- MODULE MCHelmProofs ----------------------------
(***************************************************************************)
(* What MCHelm checks of its parts on small instances, for every value of  *)
(* the constants: a behaviour of MCHelm is one of each of its parts, so    *)
(* what a part keeps by an invariant of its own, MCHelm keeps.  That of the *)
(* loops, the input box, the launch, the window, the console and the       *)
(* sessions is here, that of the others in HelmProofs.                     *)
(***************************************************************************)
EXTENDS MCHelm, HelmProofs

-----------------------------------------------------------------------------
(* HelmLoops: the background loop, for any number of versions, trials,     *)
(* runs and restarts.                                                      *)

(* None stands for no deadline, so no deadline may be as far away.         *)
LoopParameters == Every \in 1 .. Loops!None - 1 /\ MaxDelay \in Nat

Deadlines == (0 .. Every) \cup {Loops!None}

IsLoop(l) == /\ l.health \in {"absent", "healthy", "idle", "paused"}
             /\ l.due \in Deadlines /\ DOMAIN l = DOMAIN Loops!NoLoop

LoopType ==
    /\ IsLoop(loop) /\ timer \in Deadlines /\ checkpoint \in Deadlines
    /\ DOMAIN draft = DOMAIN Loops!NoDraft /\ draft.passed \in BOOLEAN
    /\ runs \in [on : Nat, cut : Nat] /\ pausedAll \in BOOLEAN

(* Only a loop that was scheduled has a timer or runs.                     *)
OnlyLoopsRun ==
    loop.health = "absent" =>
       loop = Loops!NoLoop /\ timer = Loops!None /\ checkpoint = Loops!None /\ runs = Loops!NoRuns

LoopInv == LoopType /\ OnlyLoopsRun /\ Loops!AcceptedWasTried /\ Loops!LoopStaysScheduled

-----------------------------------------------------------------------------
(* A loop that should run gets a timer, no later than its deadline.        *)
LEMMA ArmedType ==
    ASSUME LoopParameters, NEW l, IsLoop(l), NEW stop \in BOOLEAN
    PROVE  /\ Loops!Armed(l, stop) \in Deadlines
           /\ ~stop /\ l.health \in {"healthy", "idle"} => Loops!Armed(l, stop) # Loops!None
           /\ l.health = "absent" => Loops!Armed(l, stop) = Loops!None
BY DEF LoopParameters, Loops!Armed, IsLoop, Deadlines, Loops!None

(* What the builder and its trials may change: nothing of the loop, and a  *)
(* draft counts as passed only when its text was tried.                    *)
LEMMA BuilderKeeps ==
    ASSUME LoopInv, UNCHANGED <<loop, timer, runs, pausedAll, checkpoint>>,
           DOMAIN draft' = DOMAIN Loops!NoDraft, draft'.passed \in BOOLEAN,
           tried \subseteq tried', draft'.passed => draft'.ver \in tried'
    PROVE  LoopInv'
BY DEF LoopInv, LoopType, OnlyLoopsRun, Loops!AcceptedWasTried, Loops!LoopStaysScheduled

BuilderStep ==
    \/ Loops!CreateDraft \/ Loops!OpenBuilder \/ Loops!LeaveBuilder \/ Loops!CloseHelm
    \/ Loops!Edit \/ Loops!Discard \/ Loops!Revise \/ Loops!StartTrial

LEMMA BuilderLoop == LoopInv /\ BuilderStep => LoopInv'
<1> SUFFICES ASSUME LoopInv, BuilderStep PROVE LoopInv'
  OBVIOUS
<1>1. /\ DOMAIN draft = DOMAIN Loops!NoDraft /\ draft.passed \in BOOLEAN
      /\ draft.passed => draft.ver \in tried
      /\ loop # Loops!NoLoop => loop.def \in tried
  BY DEF LoopInv, LoopType, Loops!AcceptedWasTried
<1>2. UNCHANGED <<loop, timer, runs, pausedAll, checkpoint, tried>>
  BY DEF BuilderStep, Loops!CreateDraft, Loops!OpenBuilder, Loops!LeaveBuilder,
     Loops!CloseHelm, Loops!Edit, Loops!Discard,
         Loops!Revise, Loops!StartTrial, Loops!Unfrozen
<1>3. /\ DOMAIN draft' = DOMAIN Loops!NoDraft /\ draft'.passed \in BOOLEAN
      /\ draft'.passed => draft'.ver \in tried
  <2>1. CASE Loops!CreateDraft
    BY <2>1 DEF Loops!CreateDraft, Loops!NoDraft
  <2>5. CASE Loops!Edit
    BY <2>5 DEF Loops!Edit, Loops!NoDraft
  <2>6. CASE Loops!Discard
    BY <2>6 DEF Loops!Discard, Loops!NoDraft
  <2>2. CASE Loops!OpenBuilder
    BY <1>1, <2>2 DEF Loops!OpenBuilder, Loops!NoDraft
  <2>3. CASE Loops!StartTrial
    BY <1>1, <2>3 DEF Loops!StartTrial, Loops!Trialing, Loops!NoDraft
  <2>4. CASE Loops!LeaveBuilder \/ Loops!CloseHelm \/ Loops!Revise
    BY <1>1, <2>4 DEF Loops!LeaveBuilder, Loops!CloseHelm, Loops!Revise
  <2> QED
    BY <2>1, <2>2, <2>3, <2>4, <2>5, <2>6 DEF BuilderStep
<1> QED
  BY <1>2, <1>3, BuilderKeeps

(* The verdict of a trial comes with the text it tried.                    *)
LEMMA TrialLoop ==
    ASSUME LoopInv, NEW i, NEW ok \in BOOLEAN, Loops!TrialEnds(i, ok) PROVE LoopInv'
<1>1. /\ draft' = [ver |-> trials[i].ver, passed |-> ok]
      /\ tried' = IF ok THEN tried \cup {trials[i].ver} ELSE tried
      /\ UNCHANGED <<loop, timer, runs, pausedAll, checkpoint>>
  BY DEF Loops!TrialEnds, Loops!Unfrozen
<1>2. /\ DOMAIN draft' = DOMAIN Loops!NoDraft /\ draft'.passed \in BOOLEAN /\ tried \subseteq tried'
      /\ draft'.passed => draft'.ver \in tried'
  BY <1>1 DEF Loops!NoDraft
<1> QED
  BY <1>1, <1>2, BuilderKeeps

-----------------------------------------------------------------------------
(* What a step that leaves the draft alone must do for the loop.           *)
LEMMA LoopKeeps ==
    ASSUME LoopParameters, LoopInv, UNCHANGED <<draft, tried>>, IsLoop(loop'),
           timer' \in Deadlines, checkpoint' \in Deadlines, runs' \in [on : Nat, cut : Nat],
           pausedAll' \in BOOLEAN,
           loop' # Loops!NoLoop => loop'.def \in tried, OnlyLoopsRun', Loops!LoopStaysScheduled'
    PROVE  LoopInv'
BY DEF LoopInv, LoopType, Loops!AcceptedWasTried

(* The operator schedules, pauses and resumes the loop.                    *)
LEMMA OperatorLoop ==
    ASSUME LoopParameters, LoopInv, Loops!Schedule \/ Loops!TogglePause PROVE LoopInv'
<1>1. /\ IsLoop(loop) /\ checkpoint \in Deadlines /\ runs \in [on : Nat, cut : Nat]
      /\ pausedAll \in BOOLEAN
      /\ loop # Loops!NoLoop => loop.def \in tried
      /\ loop.health = "absent" => loop = Loops!NoLoop
  BY DEF LoopInv, LoopType, Loops!AcceptedWasTried, OnlyLoopsRun
<1>2. /\ UNCHANGED <<draft, tried, runs, pausedAll, checkpoint>>
      /\ timer' = Loops!Armed(loop', pausedAll)
  BY DEF Loops!Schedule, Loops!TogglePause, Loops!Unfrozen
<1>3. IsLoop(loop') /\ loop'.health # "absent" /\ loop'.def \in tried
  <2>1. CASE Loops!Schedule
    <3>1. loop' = [health |-> "healthy", reason |-> "none", due |-> Every, def |-> draft.ver]
      BY <2>1 DEF Loops!Schedule, Loops!Accepted
    <3>2. Every \in Deadlines /\ draft.ver \in tried
      BY <2>1 DEF Loops!Schedule, Deadlines, LoopParameters, LoopInv, Loops!AcceptedWasTried
    <3> QED
      BY <3>1, <3>2 DEF IsLoop, Loops!NoLoop
  <2>2. CASE Loops!TogglePause
    <3>1. loop' = Loops!Toggled(loop) /\ loop # Loops!NoLoop
      BY <2>2 DEF Loops!TogglePause
    <3> QED
      BY <1>1, <3>1 DEF Loops!Toggled, IsLoop, Loops!NoLoop
  <2> QED
    BY <2>1, <2>2
<1>4. /\ timer' \in Deadlines
      /\ ~pausedAll /\ loop'.health \in {"healthy", "idle"} => timer' # Loops!None
  BY <1>1, <1>2, <1>3, ArmedType
<1>5. OnlyLoopsRun' /\ Loops!LoopStaysScheduled'
  BY <1>2, <1>3, <1>4 DEF OnlyLoopsRun, Loops!LoopStaysScheduled
<1>6. runs' \in [on : Nat, cut : Nat] /\ checkpoint' \in Deadlines /\ pausedAll' \in BOOLEAN
  BY <1>1, <1>2
<1> QED
  BY <1>2, <1>3, <1>4, <1>5, <1>6, LoopKeeps

(* Everything is paused, resumed, or begins anew in another pi.            *)
LEMMA AllLoop ==
    ASSUME LoopParameters, LoopInv, Loops!PauseAll \/ Loops!ResumeAll \/ Loops!Restart PROVE LoopInv'
<1>1. /\ IsLoop(loop) /\ checkpoint \in Deadlines /\ runs \in [on : Nat, cut : Nat]
      /\ pausedAll \in BOOLEAN
      /\ loop # Loops!NoLoop => loop.def \in tried
      /\ loop.health = "absent" =>
            loop = Loops!NoLoop /\ timer = Loops!None /\ checkpoint = Loops!None /\ runs = Loops!NoRuns
      /\ UNCHANGED <<draft, tried>>
  BY DEF LoopInv, LoopType, Loops!AcceptedWasTried, OnlyLoopsRun, Loops!PauseAll,
     Loops!ResumeAll, Loops!Restart
<1>2. Loops!NoLoop.health = "absent" /\ Loops!NoLoop.due = Loops!None
  BY DEF Loops!NoLoop
<1>3. CASE Loops!PauseAll
  <2>1. /\ loop' = loop /\ timer' = Loops!None /\ pausedAll' = TRUE
        /\ checkpoint' = IF loop.health = "paused" THEN Loops!None ELSE loop.due
    BY <1>3 DEF Loops!PauseAll
  <2>2. checkpoint' \in Deadlines /\ timer' \in Deadlines
    BY <1>1, <2>1 DEF IsLoop, Deadlines
  <2>3. runs' \in [on : Nat, cut : Nat] /\ (runs = Loops!NoRuns => runs' = Loops!NoRuns)
    BY <1>1, <1>3 DEF Loops!PauseAll, Loops!CutRuns, Loops!NoRuns
  <2>4. OnlyLoopsRun' /\ Loops!LoopStaysScheduled'
    BY <1>1, <1>2, <2>1, <2>3 DEF OnlyLoopsRun, Loops!LoopStaysScheduled
  <2> QED
    BY <1>1, <2>1, <2>2, <2>3, <2>4, LoopKeeps
<1>4. CASE Loops!ResumeAll
  <2>1. /\ timer' = Loops!Armed(loop', FALSE) /\ pausedAll' = FALSE /\ checkpoint' = Loops!None
        /\ runs' = runs
        /\ loop' = IF checkpoint = Loops!None \/ loop.health = "paused" THEN loop
                   ELSE [loop EXCEPT !.due = checkpoint]
    BY <1>4 DEF Loops!ResumeAll
  <2>2. /\ IsLoop(loop') /\ loop'.health = loop.health /\ loop'.def = loop.def
        /\ loop.health = "absent" => loop' = loop
    BY <1>1, <2>1 DEF IsLoop, Loops!NoLoop
  <2>3. /\ timer' \in Deadlines
        /\ loop'.health \in {"healthy", "idle"} => timer' # Loops!None
        /\ loop'.health = "absent" => timer' = Loops!None
    BY <2>1, <2>2, ArmedType
  <2>4. OnlyLoopsRun' /\ Loops!LoopStaysScheduled'
    BY <1>1, <2>1, <2>2, <2>3 DEF OnlyLoopsRun, Loops!LoopStaysScheduled
  <2>5. loop' # Loops!NoLoop => loop'.def \in tried
    BY <1>1, <1>2, <2>2
  <2> QED
    BY <1>1, <2>1, <2>2, <2>3, <2>4, <2>5, LoopKeeps DEF Deadlines
<1>5. CASE Loops!Restart
  <2>1. /\ timer' = Loops!Armed(loop', pausedAll) /\ UNCHANGED <<pausedAll, checkpoint>>
        /\ runs' = Loops!NoRuns
        /\ loop' = IF ~pausedAll /\ loop.due = 0
                   THEN [loop EXCEPT !.health = "idle", !.reason = "none"] ELSE loop
    BY <1>5 DEF Loops!Restart
  <2>2. loop.due = 0 => loop # Loops!NoLoop
    BY <1>2 DEF Loops!None
  <2>3. /\ IsLoop(loop') /\ loop'.def = loop.def
        /\ loop'.health = "absent" => loop' = loop /\ loop.health = "absent"
        /\ loop' # loop => loop # Loops!NoLoop
    BY <1>1, <2>1, <2>2 DEF IsLoop, Loops!NoLoop
  <2>4. /\ timer' \in Deadlines
        /\ ~pausedAll /\ loop'.health \in {"healthy", "idle"} => timer' # Loops!None
        /\ loop'.health = "absent" => timer' = Loops!None
    BY <1>1, <2>1, <2>3, ArmedType
  <2>5. OnlyLoopsRun' /\ Loops!LoopStaysScheduled'
    BY <1>1, <2>1, <2>3, <2>4 DEF OnlyLoopsRun, Loops!LoopStaysScheduled
  <2>6. loop' # Loops!NoLoop => loop'.def \in tried
    BY <1>1, <2>3
  <2>7. runs' \in [on : Nat, cut : Nat]
    BY <2>1 DEF Loops!NoRuns
  <2> QED
    BY <1>1, <2>1, <2>3, <2>4, <2>5, <2>6, <2>7, LoopKeeps
<1> QED
  BY <1>3, <1>4, <1>5

-----------------------------------------------------------------------------
(* Time passes: a deadline that is set stays set.                          *)
LEMMA TickLoop == ASSUME LoopParameters, LoopInv, Loops!Tick PROVE LoopInv'
<1>1. /\ IsLoop(loop) /\ timer \in Deadlines /\ checkpoint \in Deadlines
      /\ runs \in [on : Nat, cut : Nat] /\ pausedAll \in BOOLEAN
      /\ loop # Loops!NoLoop => loop.def \in tried
  BY DEF LoopInv, LoopType, Loops!AcceptedWasTried
<1>2. /\ UNCHANGED <<draft, tried, runs, pausedAll, checkpoint>>
      /\ timer' = Loops!Less(timer) /\ loop' = [loop EXCEPT !.due = Loops!Less(loop.due)]
  BY DEF Loops!Tick, Loops!Unfrozen
<1>3. \A t \in Deadlines : Loops!Less(t) \in Deadlines /\ (Loops!Less(t) = Loops!None) = (t = Loops!None)
  BY DEF LoopParameters, Deadlines, Loops!Less, Loops!None
<1>4. /\ IsLoop(loop') /\ loop'.health = loop.health /\ loop'.def = loop.def
      /\ loop = Loops!NoLoop => loop' = Loops!NoLoop
  <2>1. loop.due \in Deadlines /\ Loops!Less(Loops!None) = Loops!None
    BY <1>1 DEF IsLoop, Loops!Less
  <2> QED
    BY <1>1, <1>2, <1>3, <2>1 DEF IsLoop, Loops!NoLoop
<1>5. /\ timer' \in Deadlines /\ (timer' = Loops!None) = (timer = Loops!None)
      /\ loop' # Loops!NoLoop => loop # Loops!NoLoop
  BY <1>1, <1>2, <1>3, <1>4
<1>6. OnlyLoopsRun' /\ Loops!LoopStaysScheduled'
  BY <1>2, <1>4, <1>5 DEF LoopInv, OnlyLoopsRun, Loops!LoopStaysScheduled
<1>7. loop' # Loops!NoLoop => loop'.def \in tried
  BY <1>1, <1>4, <1>5
<1>8. /\ runs' \in [on : Nat, cut : Nat] /\ checkpoint' \in Deadlines
      /\ pausedAll' \in BOOLEAN
  BY <1>1, <1>2
<1> QED
  BY <1>2, <1>4, <1>5, <1>6, <1>7, <1>8, LoopKeeps

(* The timer fires: it is armed again, or it starts a run.                 *)
LEMMA TimerLoop == ASSUME LoopParameters, LoopInv, Loops!TimerFires PROVE LoopInv'
<1>1. /\ IsLoop(loop) /\ checkpoint \in Deadlines
      /\ runs \in [on : Nat, cut : Nat] /\ pausedAll \in BOOLEAN
      /\ loop # Loops!NoLoop => loop.def \in tried
      /\ loop.health # "absent"
  BY DEF LoopInv, LoopType, Loops!AcceptedWasTried, OnlyLoopsRun, Loops!TimerFires,
     Loops!None
<1>2. UNCHANGED <<loop, draft, tried, pausedAll, checkpoint>>
  BY DEF Loops!TimerFires, Loops!Unfrozen
<1>3. /\ timer' \in Deadlines /\ runs' \in [on : Nat, cut : Nat]
      /\ ~pausedAll /\ loop.health \in {"healthy", "idle"} =>
            timer' # Loops!None \/ runs' # Loops!NoRuns
  <2>1. CASE loop.due \notin {0, Loops!None}
    <3>1. timer' = Loops!Armed(loop, pausedAll) /\ runs' = runs
      BY <2>1 DEF Loops!TimerFires
    <3> QED
      BY <1>1, <3>1, ArmedType
  <2>2. CASE loop.due \in {0, Loops!None} /\ loop.health = "paused"
    BY <1>1, <2>2 DEF Loops!TimerFires, Deadlines
  <2>3. CASE loop.due \in {0, Loops!None} /\ loop.health # "paused"
    <3>1. timer' = Loops!None /\ runs' = [runs EXCEPT !.on = runs.on + 1]
      BY <2>3 DEF Loops!TimerFires
    <3>2. runs' \in [on : Nat, cut : Nat] /\ runs'.on # 0
      BY <1>1, <3>1
    <3> QED
      BY <3>1, <3>2 DEF Loops!NoRuns, Deadlines
  <2> QED
    BY <2>1, <2>2, <2>3
<1>4. OnlyLoopsRun' /\ Loops!LoopStaysScheduled'
  BY <1>1, <1>2, <1>3 DEF OnlyLoopsRun, Loops!LoopStaysScheduled
<1>5. /\ IsLoop(loop') /\ checkpoint' \in Deadlines /\ pausedAll' \in BOOLEAN
      /\ loop' # Loops!NoLoop => loop'.def \in tried
  BY <1>1, <1>2
<1> QED
  BY <1>2, <1>3, <1>4, <1>5, LoopKeeps

(* A run ends: the loop is armed again, or waits for its operator.         *)
LEMMA RunLoop ==
    ASSUME LoopParameters, LoopInv, Loops!RunCompletes \/ Loops!RunFails PROVE LoopInv'
<1>1. /\ IsLoop(loop) /\ timer \in Deadlines /\ checkpoint \in Deadlines
      /\ runs \in [on : Nat, cut : Nat] /\ pausedAll \in BOOLEAN
      /\ loop # Loops!NoLoop => loop.def \in tried
      /\ loop.health = "absent" => runs = Loops!NoRuns
  BY DEF LoopInv, LoopType, Loops!AcceptedWasTried, OnlyLoopsRun
<1>2. UNCHANGED <<draft, tried, pausedAll, checkpoint>>
  BY DEF Loops!RunCompletes, Loops!RunFails, Loops!Unfrozen
<1>3. runs # Loops!NoRuns /\ runs' \in [on : Nat, cut : Nat]
  BY <1>1 DEF Loops!RunCompletes, Loops!RunFails, Loops!Ends, Loops!NoRuns
<1>4. /\ IsLoop(loop') /\ loop'.health # "absent" /\ loop'.def \in tried
      /\ timer' \in Deadlines
      /\ ~pausedAll /\ loop'.health \in {"healthy", "idle"} => timer' # Loops!None
  <2>1. loop.health # "absent" /\ loop # Loops!NoLoop
    BY <1>1, <1>3 DEF Loops!NoLoop
  <2>2. CASE Loops!RunCompletes
    <3>1. /\ loop' = [loop EXCEPT !.health = "healthy", !.reason = "none", !.due = Every]
          /\ timer' = Loops!Armed(loop', pausedAll)
      BY <2>2 DEF Loops!RunCompletes
    <3>2. IsLoop(loop') /\ loop'.health = "healthy" /\ loop'.def = loop.def
      BY <1>1, <3>1 DEF IsLoop, Loops!NoLoop, Deadlines, LoopParameters
    <3> QED
      BY <1>1, <2>1, <3>1, <3>2, ArmedType
  <2>3. CASE Loops!RunFails
    <3>1. /\ loop' = [loop EXCEPT !.health = "paused", !.reason = "failed", !.due = Loops!None]
          /\ timer' = timer
      BY <2>3 DEF Loops!RunFails
    <3> QED
      BY <1>1, <2>1, <3>1 DEF IsLoop, Loops!NoLoop, Deadlines
  <2> QED
    BY <2>2, <2>3
<1>5. OnlyLoopsRun' /\ Loops!LoopStaysScheduled'
  BY <1>2, <1>4 DEF OnlyLoopsRun, Loops!LoopStaysScheduled
<1>6. checkpoint' \in Deadlines /\ pausedAll' \in BOOLEAN
  BY <1>1, <1>2
<1> QED
  BY <1>2, <1>3, <1>4, <1>5, <1>6, LoopKeeps

-----------------------------------------------------------------------------
LEMMA LoopStart == ASSUME Loops!Init PROVE LoopInv
<1>1. /\ loop = Loops!NoLoop /\ draft = Loops!NoDraft /\ runs = Loops!NoRuns /\ timer = Loops!None
      /\ checkpoint = Loops!None /\ pausedAll = FALSE
  BY DEF Loops!Init
<1>2. Loops!NoLoop.health = "absent" /\ Loops!NoDraft.passed = FALSE /\ IsLoop(Loops!NoLoop)
  BY DEF Loops!NoLoop, Loops!NoDraft, IsLoop, Deadlines
<1>3. Loops!None \in Deadlines /\ Loops!NoRuns \in [on : Nat, cut : Nat]
  BY DEF Deadlines, Loops!NoRuns
<1> QED
  BY <1>1, <1>2, <1>3 DEF LoopInv, LoopType, OnlyLoopsRun, Loops!AcceptedWasTried,
                          Loops!LoopStaysScheduled

LEMMA LoopStep ==
    ASSUME LoopParameters, LoopInv, [Loops!Next]_(Loops!vars) PROVE LoopInv'
<1>1. CASE BuilderStep
  BY <1>1, BuilderLoop
<1>2. CASE \E i \in DOMAIN trials, ok \in BOOLEAN : Loops!TrialEnds(i, ok)
  BY <1>2, TrialLoop
<1>3. CASE Loops!Schedule \/ Loops!TogglePause
  BY <1>3, OperatorLoop
<1>4. CASE Loops!PauseAll \/ Loops!ResumeAll \/ Loops!Restart
  BY <1>4, AllLoop
<1>5. CASE Loops!Tick
  BY <1>5, TickLoop
<1>6. CASE Loops!TimerFires
  BY <1>6, TimerLoop
<1>7. CASE Loops!RunCompletes \/ Loops!RunFails
  BY <1>7, RunLoop
<1>8. CASE UNCHANGED Loops!vars
  BY <1>8 DEF Loops!vars, LoopInv, LoopType, IsLoop, OnlyLoopsRun, Loops!AcceptedWasTried,
              Loops!LoopStaysScheduled
<1> QED
  BY <1>1, <1>2, <1>3, <1>4, <1>5, <1>6, <1>7, <1>8 DEF Loops!Next, BuilderStep

(* Whatever is edited, discarded, tried, paused, resumed, restarted or     *)
(* fails, in whatever order: the definition a loop runs has passed a trial *)
(* (loop.schedule takes the text the draft has by then), and a loop that   *)
(* is neither paused nor frozen has the timer or the run that gets it to   *)
(* its next (armLoop has six callers).                                     *)
LEMMA LoopsKept ==
    ASSUME LoopParameters
    PROVE  Loops!Spec => [](Loops!AcceptedWasTried /\ Loops!LoopStaysScheduled)
<1>1. LoopInv /\ [Loops!Next]_(Loops!vars) => LoopInv'
  BY LoopStep
<1>2. LoopInv => Loops!AcceptedWasTried /\ Loops!LoopStaysScheduled
  BY DEF LoopInv
<1>3. Loops!Init => LoopInv
  BY LoopStart
<1> QED
  BY <1>1, <1>2, <1>3, PTL DEF Loops!Spec

-----------------------------------------------------------------------------
(* WorkflowEditor: the trigger word in the input box.                      *)

(* Only the word itself is ever suppressed, while it stands in the box, and *)
(* the highlight is off exactly then.                                      *)
EditorInv ==
    /\ text \in Editor!Texts /\ disabled \in BOOLEAN
    /\ mode \in [enabled : BOOLEAN, effort : BOOLEAN]
    /\ triggered = Editor!Trigger(text)
    /\ suppressed # "none" => suppressed = "word" /\ text = "word"
    /\ Editor!Trigger(text) => (disabled <=> suppressed = text)
    /\ Editor!HighlightDecides

(* A session starts with an empty box, which triggers nothing.             *)
LEMMA EmptyBox ==
    /\ Editor!Trigger("") = FALSE /\ "" \in Editor!Texts
    /\ \A f : Editor!Stored(f) \in BOOLEAN
BY DEF Editor!Trigger, Editor!Texts, Editor!Stored

(* The text changes by one unit.                                           *)
LEMMA TypeEditor ==
    ASSUME EditorInv, ~Pastes, NEW t \in Editor!Texts, Editor!Type(t) PROVE EditorInv'
<1>1. Editor!OneUnit(text, t) /\ Editor!Changed(t) /\ UNCHANGED <<mode, sent>>
  BY DEF Editor!Type
<1>2. <<text, t>> \in {<<"", "part">>, <<"part", "">>, <<"part", "word">>, <<"word", "part">>,
                       <<"word", "word+">>, <<"word+", "word">>, <<"", "plain">>, <<"plain", "">>}
  BY <1>1 DEF Editor!OneUnit, Editor!Units
<1> QED
  BY <1>1, <1>2 DEF EditorInv, Editor!Changed, Editor!Cleared, Editor!Trigger, Editor!Texts,
                    Editor!HighlightDecides

(* A message is sent: it is forced by its word exactly when that is lit.   *)
LEMMA SubmitEditor ==
    ASSUME EditorInv, NEW b \in BOOLEAN, Editor!Submit(b) PROVE EditorInv'
<1> DEFINE off == suppressed = text
           byWord == mode.enabled /\ ~off /\ Editor!Trigger(text)
           byEffort == ~byWord /\ mode.effort /\ b
<1>1. /\ text' = "" /\ triggered' = FALSE /\ UNCHANGED <<disabled, mode>>
      /\ suppressed' = IF off THEN "none" ELSE suppressed
      /\ sent' = [lit |-> Editor!Lit \/ byEffort, forced |-> byWord \/ byEffort]
      /\ text # ""
  BY DEF Editor!Submit
<1>2. Editor!Lit <=> byWord
  BY DEF EditorInv, Editor!Lit
<1>3. Editor!HighlightDecides'
  BY <1>1, <1>2 DEF Editor!HighlightDecides
<1>4. suppressed' = "none" /\ "" \in Editor!Texts
  BY <1>1 DEF EditorInv, Editor!Texts
<1>5. Editor!Trigger(text') = FALSE
  BY <1>1, EmptyBox
<1> QED
  BY <1>1, <1>3, <1>4, <1>5 DEF EditorInv

LEMMA EditorStep ==
    ASSUME EditorInv, ~Pastes, [Editor!Next]_(Editor!editorVars) PROVE EditorInv'
<1>1. CASE Editor!Disarm
  BY <1>1 DEF Editor!Disarm, Editor!Lit, EditorInv, Editor!Trigger, Editor!HighlightDecides
<1>2. CASE Editor!TurnEnd \/ \E t \in SUBSET Editor!Tool : Editor!SetTools(t)
  BY <1>2 DEF Editor!TurnEnd, Editor!SetTools, EditorInv, Editor!HighlightDecides
<1>3. CASE Editor!Effort
  BY <1>3 DEF Editor!Effort, EditorInv, Editor!HighlightDecides
<1>4. CASE Editor!NewSession
  BY <1>4, EmptyBox DEF Editor!NewSession, EditorInv, Editor!HighlightDecides
<1>5. ASSUME NEW on \in BOOLEAN, NEW fails \in BOOLEAN,
             Editor!TriggerCommand(on, fails) \/ Editor!Hub(on, fails)
      PROVE  EditorInv'
  BY <1>5 DEF Editor!TriggerCommand, Editor!Hub, EditorInv, Editor!Trigger,
              Editor!HighlightDecides
<1>6. CASE UNCHANGED Editor!editorVars
  BY <1>6 DEF Editor!editorVars, EditorInv, Editor!HighlightDecides
<1> QED
  BY <1>1, <1>2, <1>3, <1>4, <1>5, <1>6, TypeEditor, SubmitEditor DEF Editor!Next

(* A message is forced when it was lit.                                    *)
LEMMA HighlightKept == ASSUME ~Pastes PROVE Editor!Spec => []Editor!HighlightDecides
<1>1. ASSUME Editor!Init PROVE EditorInv
  <2>1. /\ text = "" /\ disabled = FALSE /\ triggered = FALSE /\ suppressed = "none"
        /\ mode = [enabled |-> Editor!Stored(prefs), effort |-> FALSE]
        /\ sent = [lit |-> FALSE, forced |-> FALSE]
    BY <1>1 DEF Editor!Init
  <2>2. Editor!HighlightDecides
    BY <2>1 DEF Editor!HighlightDecides
  <2>3. mode \in [enabled : BOOLEAN, effort : BOOLEAN]
    BY <2>1, EmptyBox
  <2>4. triggered = Editor!Trigger(text)
    BY <2>1, EmptyBox
  <2> QED
    BY <2>1, <2>2, <2>3, <2>4, EmptyBox DEF EditorInv
<1>2. EditorInv /\ [Editor!Next]_(Editor!editorVars) => EditorInv'
  BY EditorStep
<1>3. EditorInv => Editor!HighlightDecides
  BY DEF EditorInv
<1> QED
  BY <1>1, <1>2, <1>3, PTL DEF Editor!Spec

-----------------------------------------------------------------------------
(* WorkflowLaunch: the review of a script.                                 *)

(* A script that is on its way to run is the one that was shown.           *)
LaunchInv ==
    /\ Launch!LaunchTypeOK
    /\ launch.at \in {"go", "tool"} => launch.script = launch.shown

LEMMA LaunchStep ==
    ASSUME LaunchInv, [Launch!Next]_(Launch!launchVars) PROVE LaunchInv'
<1>1. Versions \in Nat \ {0} /\ 0 \in 0 .. Versions /\ 1 .. Versions \subseteq 0 .. Versions
  BY HelmAssumption
<1>2. /\ file \in [Launch!Places -> 0 .. Versions] /\ command \in 0 .. Versions
      /\ approved \subseteq Launch!Sources
      /\ launch \in [at : {"idle", "helm", "dialog", "approving", "go", "tool", "command"},
                     source : Launch!Sources, script : 0 .. Versions, shown : 0 .. Versions,
                     read : SUBSET Launch!Sources]
  BY DEF LaunchInv, Launch!LaunchTypeOK
<1>3. Launch!Place \in Launch!Places /\ Launch!Saved \in 0 .. Versions
  BY <1>2 DEF Launch!Place, Launch!Saved, Launch!Places
<1>4. Launch!NoLaunch \in [at : {"idle"}, source : Launch!Sources, script : 0 .. Versions,
                           shown : 0 .. Versions, read : SUBSET Launch!Sources]
  BY <1>1 DEF Launch!NoLaunch, Launch!Sources
<1>5. CASE Launch!DeleteSaved \/ Launch!Restart \/ Launch!Deny
  BY <1>1, <1>2, <1>3, <1>4, <1>5
     DEF Launch!DeleteSaved, Launch!Restart, Launch!Deny, LaunchInv, Launch!LaunchTypeOK
<1>6. CASE Launch!RunCommand
  BY <1>2, <1>3, <1>4, <1>6
     DEF Launch!RunCommand, LaunchInv, Launch!LaunchTypeOK
<1>7. CASE Launch!RunOnce \/ Launch!Always
  BY <1>2, <1>7 DEF Launch!RunOnce, Launch!Always, Launch!Agreed, LaunchInv, Launch!LaunchTypeOK
<1>8. ASSUME NEW source \in Launch!Sources, Launch!OtherApproves(source) PROVE LaunchInv'
  BY <1>2, <1>8 DEF Launch!OtherApproves, LaunchInv, Launch!LaunchTypeOK
<1>9. ASSUME NEW b \in BOOLEAN, Launch!Approve(b) PROVE LaunchInv'
  BY <1>2, <1>4, <1>9 DEF Launch!Approve, Launch!Agreed, LaunchInv, Launch!LaunchTypeOK
<1>10. ASSUME NEW b \in BOOLEAN, Launch!Go(b) PROVE LaunchInv'
  BY <1>2, <1>4, <1>10 DEF Launch!Go, LaunchInv, Launch!LaunchTypeOK
<1>11. ASSUME NEW v \in Launch!Scripts,
              Launch!Edit(v) \/ \E here \in BOOLEAN : Launch!Save(v, here)
       PROVE  LaunchInv'
  BY <1>1, <1>2, <1>11 DEF Launch!Edit, Launch!Save, Launch!Scripts, LaunchInv,
                           Launch!LaunchTypeOK
<1>12. ASSUME NEW v \in Launch!Scripts, NEW kind \in {"path", "inline", "name"},
              NEW ultra \in BOOLEAN, NEW helm \in BOOLEAN, Launch!Invoke(kind, v, ultra, helm)
       PROVE  LaunchInv'
  <2>1. Launch!Resolved(kind) \in Launch!Sources
    BY <1>3 DEF Launch!Resolved, Launch!Sources
  <2>2. v \in 0 .. Versions
    BY <1>1 DEF Launch!Scripts
  <2> QED
    BY <1>2, <1>12, <2>1, <2>2 DEF Launch!Invoke, LaunchInv, Launch!LaunchTypeOK
<1>13. CASE UNCHANGED Launch!launchVars
  BY <1>13 DEF Launch!launchVars, LaunchInv, Launch!LaunchTypeOK
<1> QED
  BY <1>5, <1>6, <1>7, <1>8, <1>9, <1>10, <1>11, <1>12, <1>13 DEF Launch!Next

(* What starts is what was shown.                                          *)
LEMMA ScriptShown == Launch!Spec => []Launch!RunsWhatWasApproved
<1>1. Launch!Init => LaunchInv
  <2>1. Versions \in Nat \ {0} /\ 0 .. 1 \subseteq 0 .. Versions /\ 0 \in 0 .. Versions
    BY HelmAssumption
  <2> SUFFICES ASSUME Launch!Init PROVE LaunchInv
    OBVIOUS
  <2>2. file \in [Launch!Places -> 0 .. Versions]
    BY <2>1 DEF Launch!Init
  <2>3. Launch!Saved \in 0 .. Versions
    BY <2>2 DEF Launch!Saved, Launch!Place, Launch!Places
  <2> QED
    BY <2>1, <2>2, <2>3 DEF Launch!Init, LaunchInv, Launch!LaunchTypeOK, Launch!NoLaunch,
                            Launch!Sources
<1>2. LaunchInv /\ [Launch!Next]_(Launch!launchVars) => LaunchInv'
  BY LaunchStep
<1>3. LaunchInv => Launch!RunsWhatWasApproved
  BY DEF LaunchInv, Launch!RunsWhatWasApproved
<1> QED
  BY <1>1, <1>2, <1>3, PTL DEF Launch!Spec

-----------------------------------------------------------------------------
(* HelmScreens: the needs-you queue and the confirmations of the window.   *)

(* A request is not named like another action that is confirmed, and has   *)
(* fewer options than the number that stands for a pending answer.         *)
ScreenParameters ==
    /\ Options < Screens!Waiting
    /\ Asks \cap {"discardGoal", "discardLoop", "archive", "apply", "reassign", "merge",
                  "none"} = {}

(* A request that was decided is not waiting, so it is decided once; and   *)
(* what is confirmed waits, since only the card of one that does asks.     *)
ScreenInv ==
    /\ queue \in Seq(Asks) /\ precedents \in Seq(Asks \X Screens!Indices)
    /\ promise \in [Asks -> {0, 99} \cup Screens!Indices]
    /\ chosen \in [Asks -> {0} \cup Screens!Indices]
    /\ DOMAIN ui = DOMAIN Screens!Closed
    /\ \A i, j \in 1 .. Len(queue) : queue[i] = queue[j] => i = j
    /\ \A i \in 1 .. Len(queue) : promise[queue[i]] = 99
    /\ \A i \in 1 .. Len(precedents) : promise[precedents[i][1]] \in Screens!Indices
    /\ ui.confirm \in Asks \X Screens!Indices =>
          \E i \in 1 .. Len(queue) : queue[i] = ui.confirm[1]
    /\ Screens!AnsweredAsChosen

(* No option has the number of an answer that is pending or not asked for. *)
LEMMA OptionNumbers ==
    ASSUME ScreenParameters
    PROVE  Screens!Indices \subseteq Nat /\ 0 \notin Screens!Indices /\ 99 \notin Screens!Indices
BY HelmAssumption DEF ScreenParameters, Screens!Indices, Screens!Waiting

(* A request is added behind the others.                                   *)
LEMMA BridgeScreen ==
    ASSUME ScreenParameters, ScreenInv, NEW e \in Asks, Screens!Bridge(e) PROVE ScreenInv'
<1>1. /\ promise[e] = 0 /\ promise' = [promise EXCEPT ![e] = 99] /\ queue' = Append(queue, e)
      /\ UNCHANGED <<precedents, chosen, ui>>
  BY DEF Screens!Bridge, Screens!Unasked, Screens!Waiting
<1>2. /\ queue \in Seq(Asks) /\ promise \in [Asks -> {0, 99} \cup Screens!Indices]
      /\ \A i \in 1 .. Len(queue) : queue[i] \in Asks /\ queue[i] # e
  BY <1>1 DEF ScreenInv
<1>3. /\ queue' \in Seq(Asks) /\ Len(queue') = Len(queue) + 1 /\ queue'[Len(queue) + 1] = e
      /\ \A i \in 1 .. Len(queue) : queue'[i] = queue[i]
  BY <1>1, <1>2
<1>4. /\ promise' \in [Asks -> {0, 99} \cup Screens!Indices] /\ promise'[e] = 99
      /\ \A x \in Asks \ {e} : promise'[x] = promise[x]
  BY <1>1, <1>2
<1>5. \A i \in 1 .. Len(queue') : i \in 1 .. Len(queue) \/ i = Len(queue) + 1
  BY <1>2, <1>3
<1>6. \A i, j \in 1 .. Len(queue') : queue'[i] = queue'[j] => i = j
  BY <1>2, <1>3, <1>5 DEF ScreenInv
<1>7. \A i \in 1 .. Len(queue') : promise'[queue'[i]] = 99
  BY <1>2, <1>3, <1>4, <1>5 DEF ScreenInv
<1>8. \A i \in 1 .. Len(precedents') : promise'[precedents'[i][1]] \in Screens!Indices
  <2>1. \A i \in 1 .. Len(precedents) : precedents[i][1] \in Asks
    BY DEF ScreenInv
  <2> QED
    BY <1>1, <1>4, <2>1, OptionNumbers DEF ScreenInv
<1>9. ui'.confirm \in Asks \X Screens!Indices =>
         \E i \in 1 .. Len(queue') : queue'[i] = ui'.confirm[1]
  BY <1>1, <1>2, <1>3, <1>5 DEF ScreenInv
<1>10. Screens!AnsweredAsChosen'
  BY <1>1, <1>4, OptionNumbers DEF ScreenInv, Screens!AnsweredAsChosen
<1> QED
  BY <1>1, <1>3, <1>4, <1>6, <1>7, <1>8, <1>9, <1>10 DEF ScreenInv

(* The answer recovered for a request that was not decided before is the   *)
(* decision just recorded.                                                 *)
LEMMA RecoveredIsLast ==
    ASSUME ScreenParameters, ScreenInv, NEW e \in Asks, promise[e] = 99,
           NEW option \in Screens!Indices
    PROVE  Screens!Recovered(e, Append(precedents, <<e, option>>)) = option
<1> DEFINE given == Append(precedents, <<e, option>>)
           I == {i \in 1 .. Len(given) : given[i][1] = e}
<1>1. /\ given \in Seq(Asks \X Screens!Indices) /\ Len(given) = Len(precedents) + 1
      /\ given[Len(given)] = <<e, option>> /\ Len(given) \in Nat \ {0}
      /\ \A i \in 1 .. Len(given) : i # Len(given) =>
            i \in 1 .. Len(precedents) /\ given[i] = precedents[i]
  BY DEF ScreenInv
<1>2. \A i \in 1 .. Len(precedents) : precedents[i][1] # e
  BY OptionNumbers DEF ScreenInv
<1>3. I = {Len(given)}
  BY <1>1, <1>2
<1>4. Screens!Min(I) = Len(given)
  BY <1>1, <1>3 DEF Screens!Min
<1>5. Screens!SelectInSeq(given, LAMBDA p : p[1] = e) = Len(given)
  BY <1>3, <1>4 DEF Screens!SelectInSeq
<1> QED
  BY <1>1, <1>5 DEF Screens!Recovered

(* The items of two sequences, one after the other.                        *)
LEMMA Joined ==
    ASSUME NEW T, NEW u \in Seq(T), NEW v \in Seq(T)
    PROVE  /\ u \o v \in Seq(T) /\ Len(u \o v) = Len(u) + Len(v)
           /\ \A i \in 1 .. Len(u) + Len(v) :
                 (u \o v)[i] = IF i <= Len(u) THEN u[i] ELSE v[i - Len(u)]
  OBVIOUS

(* A request taken out of the queue leaves the others as they were.        *)
LEMMA RemovedOnce ==
    ASSUME ScreenInv, NEW k \in 1 .. Len(queue)
    PROVE  LET left == Screens!RemoveFirst(queue, queue[k])
           IN  /\ left \in Seq(Asks)
               /\ \A i, j \in 1 .. Len(left) : left[i] = left[j] => i = j
               /\ \A i \in 1 .. Len(left) :
                     \E j \in 1 .. Len(queue) : left[i] = queue[j] /\ queue[j] # queue[k]
<1> DEFINE left == Screens!RemoveFirst(queue, queue[k])
           I == {i \in 1 .. Len(queue) : queue[i] = queue[k]}
           at(i) == IF i < k THEN i ELSE i + 1
<1>1. /\ queue \in Seq(Asks) /\ Len(queue) \in Nat /\ k \in Nat /\ 1 <= k /\ k <= Len(queue)
      /\ \A i, j \in 1 .. Len(queue) : queue[i] = queue[j] => i = j
  BY DEF ScreenInv
<1>2. I = {k}
  BY <1>1
<1>3. Screens!Min(I) = k
  BY <1>1, <1>2 DEF Screens!Min
<1>4. Screens!SelectInSeq(queue, LAMBDA v : v = queue[k]) = k
  BY <1>2, <1>3 DEF Screens!SelectInSeq
<1>5. left = SubSeq(queue, 1, k - 1) \o SubSeq(queue, k + 1, Len(queue))
  BY <1>1, <1>4 DEF Screens!RemoveFirst, Screens!RemoveAt
<1>6. /\ left \in Seq(Asks) /\ Len(left) = Len(queue) - 1
      /\ \A i \in 1 .. Len(left) : left[i] = queue[at(i)]
  <2> DEFINE fore == SubSeq(queue, 1, k - 1)
             rest == SubSeq(queue, k + 1, Len(queue))
  <2>1. /\ fore \in Seq(Asks) /\ Len(fore) = k - 1
        /\ \A i \in 1 .. k - 1 : fore[i] = queue[i]
    BY <1>1
  <2>2. /\ rest \in Seq(Asks) /\ Len(rest) = Len(queue) - k
        /\ \A i \in 1 .. Len(queue) - k : rest[i] = queue[k + i]
    BY <1>1
  <2> HIDE DEF left
  <2>3. /\ left \in Seq(Asks) /\ Len(left) = Len(queue) - 1
        /\ \A i \in 1 .. Len(left) : left[i] = IF i <= k - 1 THEN fore[i] ELSE rest[i - (k - 1)]
    <3>1. left = fore \o rest
      BY <1>5 DEF left, fore, rest
    <3> HIDE DEF fore, rest
    <3>2. /\ fore \in Seq(Asks) /\ Len(fore) = k - 1
          /\ rest \in Seq(Asks) /\ Len(rest) = Len(queue) - k
      BY <2>1, <2>2
    <3>3. /\ fore \o rest \in Seq(Asks) /\ Len(fore \o rest) = Len(fore) + Len(rest)
          /\ \A i \in 1 .. Len(fore) + Len(rest) :
                (fore \o rest)[i] = IF i <= Len(fore) THEN fore[i] ELSE rest[i - Len(fore)]
      BY <3>2, Joined
    <3>4. Len(fore) + Len(rest) = Len(queue) - 1
      BY <1>1, <3>2
    <3> QED
      BY <3>1, <3>2, <3>3, <3>4
  <2>4. ASSUME NEW i \in 1 .. Len(left), ~(i < k) PROVE left[i] = queue[i + 1]
    <3>1. i - (k - 1) \in 1 .. Len(queue) - k /\ k + (i - (k - 1)) = i + 1
      BY <1>1, <2>3, <2>4
    <3> QED
      BY <1>1, <2>2, <2>3, <2>4, <3>1
  <2> QED
    BY <1>1, <2>1, <2>3, <2>4
<1>7. \A i \in 1 .. Len(left) : at(i) \in 1 .. Len(queue) /\ at(i) # k
  BY <1>1, <1>6
<1>8. \A i, j \in 1 .. Len(left) : at(i) = at(j) => i = j
  BY <1>1, <1>6
<1> HIDE DEF left, at
<1> QED
  BY <1>1, <1>6, <1>7, <1>8 DEF left

(* A confirmed option is recorded, and its request answered with it.       *)
LEMMA DecideScreen ==
    ASSUME ScreenParameters, ScreenInv, NEW e \in Asks, NEW option \in Screens!Indices,
           ui.confirm = <<e, option>>, Screens!Decide(e, option)
    PROVE  ScreenInv'
<1>1. PICK k \in 1 .. Len(queue) : queue[k] = e
  BY DEF ScreenInv
<1>2. promise[e] = 99
  BY <1>1 DEF ScreenInv
<1>3. /\ precedents' = Append(precedents, <<e, option>>)
      /\ promise' = [promise EXCEPT ![e] = option]
      /\ chosen' = [chosen EXCEPT ![e] = option]
      /\ queue' = Screens!RemoveFirst(queue, queue[k])
      /\ DOMAIN ui' = DOMAIN Screens!Closed /\ ui'.confirm = Screens!None
  <2>1. /\ precedents' = Append(precedents, <<e, option>>)
        /\ promise' = [promise EXCEPT ![e] = Screens!Recovered(e, precedents')]
        /\ chosen' = [chosen EXCEPT ![e] = option]
        /\ queue' = Screens!RemoveFirst(queue, e)
        /\ ui' = [ui EXCEPT !.confirm = Screens!None, !.stack = Screens!Advanced(queue')]
    BY DEF Screens!Decide
  <2>2. Screens!Recovered(e, precedents') = option
    BY <1>2, <2>1, RecoveredIsLast
  <2>3. DOMAIN ui = DOMAIN Screens!Closed /\ "confirm" \in DOMAIN ui
    BY DEF ScreenInv, Screens!Closed
  <2> QED
    BY <1>1, <2>1, <2>2, <2>3
<1>4. /\ queue' \in Seq(Asks)
      /\ \A i, j \in 1 .. Len(queue') : queue'[i] = queue'[j] => i = j
      /\ \A i \in 1 .. Len(queue') :
            \E j \in 1 .. Len(queue) : queue'[i] = queue[j] /\ queue[j] # e
  <2> DEFINE left == Screens!RemoveFirst(queue, queue[k])
  <2>1. /\ left \in Seq(Asks)
        /\ \A i, j \in 1 .. Len(left) : left[i] = left[j] => i = j
        /\ \A i \in 1 .. Len(left) :
              \E j \in 1 .. Len(queue) : left[i] = queue[j] /\ queue[j] # queue[k]
    BY RemovedOnce
  <2>2. queue' = left
    BY <1>3
  <2> HIDE DEF left
  <2> QED
    BY <1>1, <2>1, <2>2
<1>5. /\ promise \in [Asks -> {0, 99} \cup Screens!Indices]
      /\ chosen \in [Asks -> {0} \cup Screens!Indices]
      /\ precedents \in Seq(Asks \X Screens!Indices)
      /\ \A i \in 1 .. Len(queue) : queue[i] \in Asks
  BY DEF ScreenInv
<1>6. /\ promise' \in [Asks -> {0, 99} \cup Screens!Indices] /\ promise'[e] = option
      /\ chosen' \in [Asks -> {0} \cup Screens!Indices] /\ chosen'[e] = option
      /\ \A x \in Asks \ {e} : promise'[x] = promise[x] /\ chosen'[x] = chosen[x]
  BY <1>3, <1>5
<1>7. /\ precedents' \in Seq(Asks \X Screens!Indices)
      /\ \A i \in 1 .. Len(precedents') :
            \/ precedents'[i][1] = e
            \/ i \in 1 .. Len(precedents) /\ precedents'[i] = precedents[i]
  BY <1>3, <1>5
<1>8. ASSUME NEW i \in 1 .. Len(queue') PROVE promise'[queue'[i]] = 99
  <2>1. PICK j \in 1 .. Len(queue) : queue'[i] = queue[j] /\ queue[j] # e
    BY <1>4
  <2>2. queue[j] \in Asks \ {e} /\ promise[queue[j]] = 99
    BY <1>5, <2>1 DEF ScreenInv
  <2> QED
    BY <1>6, <2>1, <2>2
<1>9. \A i \in 1 .. Len(precedents') : promise'[precedents'[i][1]] \in Screens!Indices
  <2>1. \A i \in 1 .. Len(precedents) : precedents[i][1] \in Asks
    BY <1>5
  <2> QED
    BY <1>6, <1>7, <2>1 DEF ScreenInv
<1>10. Screens!AnsweredAsChosen'
  BY <1>6 DEF ScreenInv, Screens!AnsweredAsChosen
<1>11. ui'.confirm \notin Asks \X Screens!Indices
  BY <1>3 DEF Screens!None, ScreenParameters
<1> QED
  BY <1>3, <1>4, <1>6, <1>7, <1>8, <1>9, <1>10, <1>11 DEF ScreenInv

(* A step of the window that asks for no option.                           *)
LEMMA WindowKeeps ==
    ASSUME ScreenParameters, ScreenInv, Screens!Data, DOMAIN ui' = DOMAIN Screens!Closed,
           ui'.confirm = ui.confirm \/ ui'.confirm \notin Asks \X Screens!Indices
    PROVE  ScreenInv'
BY DEF ScreenInv, Screens!Data, Screens!AnsweredAsChosen

(* An option is asked for on the card of a request that waits.             *)
LEMMA OptionScreen ==
    ASSUME ScreenParameters, ScreenInv, NEW option \in Screens!Indices,
           Screens!DecideOption(option)
    PROVE  ScreenInv'
<1>1. PICK i \in DOMAIN queue : Screens!Card(queue[i]) = Screens!Top
  BY DEF Screens!DecideOption
<1>2. Screens!Top[2] = queue[i] /\ i \in 1 .. Len(queue)
  BY <1>1 DEF Screens!Card, ScreenInv
<1>3. /\ Screens!Data /\ DOMAIN ui' = DOMAIN Screens!Closed
      /\ ui'.confirm = <<queue[i], option>>
  BY <1>2 DEF Screens!DecideOption, Screens!Asking, ScreenInv, Screens!Closed
<1> QED
  BY <1>2, <1>3 DEF ScreenInv, Screens!Data, Screens!AnsweredAsChosen

(* What else is confirmed is no option of a request.                       *)
LEMMA OtherActions ==
    ASSUME ScreenParameters, NEW s, NEW act \in Screens!AskedBy(s)
    PROVE  act \notin Asks \X Screens!Indices
BY DEF Screens!AskedBy, ScreenParameters

LEMMA AcceptScreen ==
    ASSUME ScreenParameters, ScreenInv, Screens!Accept PROVE ScreenInv'
<1>1. CASE ui.confirm \in Asks \X Screens!Indices
  <2>1. /\ ui.confirm[1] \in Asks /\ ui.confirm[2] \in Screens!Indices
        /\ ui.confirm = <<ui.confirm[1], ui.confirm[2]>>
    BY <1>1
  <2>2. Screens!Decide(ui.confirm[1], ui.confirm[2])
    BY <1>1 DEF Screens!Accept
  <2> QED
    BY <2>1, <2>2, DecideScreen
<1>2. CASE ui.confirm \notin Asks \X Screens!Indices
  <2>1. Screens!Data /\ DOMAIN ui' = DOMAIN Screens!Closed /\ ui'.confirm = Screens!None
    <3>1. DOMAIN ui = DOMAIN Screens!Closed /\ {"confirm", "stack"} \subseteq DOMAIN ui
      BY DEF ScreenInv, Screens!Closed
    <3>2. Screens!Closed.confirm = Screens!None
      BY DEF Screens!Closed
    <3> QED
      BY <1>2, <3>1, <3>2 DEF Screens!Accept, Screens!Handoff
  <2> QED
    BY <2>1, WindowKeeps DEF Screens!None, ScreenParameters
<1> QED
  BY <1>1, <1>2

(* The other keys leave the queue and its answers alone.                   *)
OtherKey ==
    \/ Screens!TriageWalk \/ \E step \in {-1, 1} : Screens!CycleEscalation(step)
    \/ \E away \in BOOLEAN : Screens!OpenHelm(away)
    \/ Screens!Quit \/ Screens!TogglePopover \/ Screens!Ascend \/ Screens!Refuse
    \/ Screens!OpenSearch
    \/ \E s \in Screens!Details \cup {Screens!None} : Screens!OpenSearchResult(s)
    \/ Screens!StartTyping \/ Screens!CancelTyping \/ Screens!SubmitBuffer
    \/ \E s \in Screens!Screens :
          Screens!DescendHome(s) \/ Screens!Descend(s) \/ Screens!NewDraft(s)
    \/ Screens!DigestEnter \/ Screens!DigestToDecisions \/ Screens!IntakeGo
    \/ Screens!PickPlanLine \/ Screens!EditPlanLine \/ Screens!LeavePicker
    \/ Screens!Document \/ Screens!AcceptSchedule \/ Screens!GoalCompletes

LEMMA KeysScreen == ASSUME ScreenParameters, ScreenInv, OtherKey PROVE ScreenInv'
<1>1. Screens!None \notin Asks \X Screens!Indices /\ Screens!Closed.confirm = Screens!None
  BY DEF Screens!None, ScreenParameters, Screens!Closed
<1>2. DOMAIN ui = DOMAIN Screens!Closed /\ {"confirm", "stack", "typing"} \subseteq DOMAIN ui
  BY DEF ScreenInv, Screens!Closed
<1>3. CASE Screens!Quit \/ (\E away \in BOOLEAN : Screens!OpenHelm(away))
  BY <1>1, <1>3, WindowKeeps DEF Screens!Quit, Screens!OpenHelm, Screens!Closed
<1>4. CASE Screens!TogglePopover \/ Screens!Refuse \/ Screens!StartTyping
           \/ Screens!CancelTyping \/ Screens!PickPlanLine \/ Screens!EditPlanLine
           \/ Screens!LeavePicker \/ Screens!GoalCompletes
  BY <1>1, <1>2, <1>4, WindowKeeps
     DEF Screens!TogglePopover, Screens!Refuse, Screens!StartTyping, Screens!CancelTyping,
         Screens!PickPlanLine, Screens!EditPlanLine, Screens!LeavePicker,
         Screens!GoalCompletes
<1>5. ASSUME NEW s, Screens!Show(s), Screens!Data PROVE ScreenInv'
  BY <1>2, <1>5, WindowKeeps DEF Screens!Show
<1>6. CASE Screens!TriageWalk \/ (\E step \in {-1, 1} : Screens!CycleEscalation(step))
           \/ Screens!Ascend \/ Screens!DigestEnter \/ Screens!DigestToDecisions
           \/ Screens!IntakeGo \/ Screens!AcceptSchedule
  BY <1>5, <1>6 DEF Screens!TriageWalk, Screens!CycleEscalation, Screens!Ascend,
                    Screens!DigestEnter, Screens!DigestToDecisions, Screens!IntakeGo,
                    Screens!AcceptSchedule
<1>7. CASE Screens!OpenSearch \/ Screens!Document
           \/ \E s \in Screens!Screens :
                 Screens!DescendHome(s) \/ Screens!Descend(s) \/ Screens!NewDraft(s)
  BY <1>5, <1>7 DEF Screens!OpenSearch, Screens!Document, Screens!DescendHome,
                    Screens!Descend, Screens!NewDraft, Screens!Open
<1>8. CASE \E s \in Screens!Details \cup {Screens!None} : Screens!OpenSearchResult(s)
  BY <1>1, <1>5, <1>8, WindowKeeps DEF Screens!OpenSearchResult, Screens!Open
<1>9. CASE Screens!SubmitBuffer
  <2>1. /\ Screens!Data /\ DOMAIN ui' = DOMAIN Screens!Closed
        /\ ui'.confirm = ui.confirm \/ ui' = Screens!Closed
    BY <1>2, <1>9 DEF Screens!SubmitBuffer, Screens!Handoff
  <2> QED
    BY <1>1, <2>1, WindowKeeps
<1> QED
  BY <1>3, <1>4, <1>6, <1>7, <1>8, <1>9 DEF OtherKey

LEMMA ScreenStep ==
    ASSUME ScreenParameters, ScreenInv, [Screens!Next]_(Screens!svars) PROVE ScreenInv'
<1>1. ASSUME NEW act \in Screens!Actions, Screens!Confirm(act) PROVE ScreenInv'
  <2>1. act \notin Asks \X Screens!Indices
    BY <1>1, OtherActions DEF Screens!Confirm
  <2>2. Screens!Data /\ DOMAIN ui' = DOMAIN Screens!Closed /\ ui'.confirm = act
    BY <1>1 DEF Screens!Confirm, Screens!Asking, ScreenInv, Screens!Closed
  <2> QED
    BY <2>1, <2>2, WindowKeeps
<1>2. CASE UNCHANGED Screens!svars
  BY <1>2, WindowKeeps DEF Screens!svars, Screens!Data, ScreenInv
<1> QED
  BY <1>1, <1>2, BridgeScreen, OptionScreen, AcceptScreen, KeysScreen
     DEF Screens!Next, OtherKey

(* Whatever other cards are decided, cycled through or walked over while a *)
(* request waits, for any number of requests and options: the caller gets  *)
(* the option its own card was confirmed with, although the bridge finds   *)
(* it in the record of all decisions (escalation-bridge.ts).               *)
LEMMA ChosenAnswered == ASSUME ScreenParameters PROVE Screens!Spec => []Screens!AnsweredAsChosen
<1>1. Screens!Init => ScreenInv
  <2> SUFFICES ASSUME Screens!Init PROVE ScreenInv
    OBVIOUS
  <2>1. Screens!Closed.confirm \notin Asks \X Screens!Indices
    BY DEF Screens!Closed, Screens!None, ScreenParameters
  <2> QED
    BY <2>1, OptionNumbers
       DEF Screens!Init, ScreenInv, Screens!Unasked, Screens!AnsweredAsChosen
<1>2. ScreenInv /\ [Screens!Next]_(Screens!svars) => ScreenInv'
  BY ScreenStep
<1>3. ScreenInv => Screens!AnsweredAsChosen
  BY DEF ScreenInv
<1> QED
  BY <1>1, <1>2, <1>3, PTL DEF Screens!Spec

-----------------------------------------------------------------------------
(***************************************************************************)
(* The console.  A run that is known returns its result to somebody, which *)
(* is what the count of messages about an end needs; whoever pauses, stops *)
(* or is replaced keeps the count of its own end.                          *)
(***************************************************************************)
ConsoleRun ==
    [status : {"absent", "running", "paused", "completed", "failed", "aborted"},
     background : BOOLEAN, inline : BOOLEAN, live : BOOLEAN,
     end : {"completed", "failed", "limit", "none"}]

ToldRight(r) ==
    /\ run[r].status # "absent" => run[r].background \/ run[r].inline
    /\ run[r].status # "absent" /\ run[r].end # "none" =>
         \/ told[r] = 1
         \/ told[r] = 2 /\ run[r].background /\ run[r].inline

ConsoleInv ==
    /\ run \in [Console!Runs -> ConsoleRun] /\ told \in [Console!Runs -> Nat]
    /\ \A r \in Console!Runs : ToldRight(r)

(* Who changes one run and does not disturb what is told of it.            *)
LEMMA OneToldRight ==
    ASSUME ConsoleInv, NEW r, NEW v, NEW n \in Nat,
           run' = [run EXCEPT ![r] = v], told' = [told EXCEPT ![r] = n],
           r \in Console!Runs =>
              /\ v \in ConsoleRun
              /\ v.status # "absent" => v.background \/ v.inline
              /\ v.status # "absent" /\ v.end # "none" =>
                   n = 1 \/ (n = 2 /\ v.background /\ v.inline)
    PROVE  ConsoleInv'
<1>1. run' \in [Console!Runs -> ConsoleRun] /\ told' \in [Console!Runs -> Nat]
  BY DEF ConsoleInv
<1>2. ASSUME NEW q \in Console!Runs PROVE ToldRight(q)'
  <2>1. CASE q = r
    <3>1. run'[q] = v /\ told'[q] = n
      BY <2>1 DEF ConsoleInv
    <3> QED BY <2>1, <3>1 DEF ToldRight
  <2>2. CASE q # r
    <3>1. run'[q] = run[q] /\ told'[q] = told[q]
      BY <2>2 DEF ConsoleInv
    <3>2. ToldRight(q)
      BY DEF ConsoleInv
    <3> QED BY <3>1, <3>2 DEF ToldRight
  <2> QED BY <2>1, <2>2
<1> QED BY <1>1, <1>2 DEF ConsoleInv

(* A start, of whichever kind.                                             *)
LEMMA StartTells ==
    ASSUME ConsoleInv, NEW r, NEW background \in BOOLEAN, NEW inline \in BOOLEAN,
           background \/ inline, Console!Start(r, background, inline)
    PROVE  ConsoleInv'
<1> DEFINE v == [status |-> "running", background |-> background, inline |-> inline,
                 live |-> TRUE, end |-> "none"]
<1>1. run' = [run EXCEPT ![r] = v] /\ told' = [told EXCEPT ![r] = 0]
  BY Zenon DEF Console!Start
<1>2. v \in ConsoleRun /\ v.end = "none" /\ (v.background \/ v.inline)
  BY DEF ConsoleRun
<1> HIDE DEF v
<1> QED BY <1>1, <1>2, OneToldRight

(* A pause or a stop: the end of the run and what was told of it stay.     *)
LEMMA StatusTells ==
    ASSUME ConsoleInv, NEW r, NEW status \in {"paused", "aborted"},
           run[r].status # "absent",
           run' = [run EXCEPT ![r].status = status], told' = told
    PROVE  ConsoleInv'
<1>1. CASE r \in Console!Runs
  <2> DEFINE v == [run[r] EXCEPT !.status = status]
  <2>1. run[r] \in ConsoleRun /\ ToldRight(r) /\ told[r] \in Nat
    BY <1>1 DEF ConsoleInv
  <2>2. /\ v \in ConsoleRun /\ v.background = run[r].background
        /\ v.inline = run[r].inline /\ v.end = run[r].end
    BY <2>1 DEF ConsoleRun
  <2>3. run' = [run EXCEPT ![r] = v]
    BY <1>1 DEF ConsoleInv
  <2>4. told' = [told EXCEPT ![r] = told[r]]
    <3>1. told \in [Console!Runs -> Nat]
      BY DEF ConsoleInv
    <3>2. told = [told EXCEPT ![r] = told[r]]
      BY <3>1
    <3> QED BY <3>2
  <2>5. /\ v.background \/ v.inline
        /\ v.end # "none" => told[r] = 1 \/ (told[r] = 2 /\ v.background /\ v.inline)
    BY <2>1, <2>2 DEF ToldRight
  <2> HIDE DEF v
  <2>6. ASSUME NEW u, u = v, NEW n \in Nat, n = told[r] PROVE ConsoleInv'
    <3>1. run' = [run EXCEPT ![r] = u] /\ told' = [told EXCEPT ![r] = n]
      BY <2>3, <2>4, <2>6
    <3>2. /\ u \in ConsoleRun /\ (u.background \/ u.inline)
          /\ u.end # "none" => n = 1 \/ (n = 2 /\ u.background /\ u.inline)
      BY <2>2, <2>5, <2>6
    <3> QED BY <3>1, <3>2, OneToldRight
  <2> QED BY <2>1, <2>6
<1>2. CASE r \notin Console!Runs
  <2>1. run' = run
    BY <1>2 DEF ConsoleInv
  <2> QED BY <2>1 DEF ConsoleInv, ToldRight
<1> QED BY <1>1, <1>2

(* The end of the current execution.                                       *)
LEMMA SettleTells ==
    ASSUME ConsoleInv, NEW r \in Console!Runs, NEW end \in Console!Ends, Console!Settle(r, end)
    PROVE  ConsoleInv'
<1> DEFINE own == run[r].status = "running" \/ end = "completed"
           status == IF end = "completed" THEN "completed"
                     ELSE IF run[r].status # "running" THEN run[r].status
                     ELSE IF end = "limit" THEN "paused" ELSE "failed"
           event == IF end = "completed" THEN "complete"
                    ELSE IF run[r].status = "running" /\ end = "limit" THEN "paused" ELSE "error"
           v == [run[r] EXCEPT !.status = status, !.live = FALSE,
                               !.end = IF own THEN end ELSE "none"]
           times == (IF Console!Reported(r, event) THEN 1 ELSE 0)
                    + (IF run[r].inline /\ own THEN 1 ELSE 0)
<1>1. run[r] \in ConsoleRun /\ ToldRight(r) /\ run[r].status # "absent"
  BY DEF ConsoleInv, Console!Settle, Console!Known
<1>2. run' = [run EXCEPT ![r] = v]
  BY DEF Console!Settle
<1>3. told' = [told EXCEPT ![r] = times]
  BY DEF Console!Settle
<1>4. /\ v \in ConsoleRun /\ v.status = status /\ v.background = run[r].background
      /\ v.inline = run[r].inline /\ v.end = (IF own THEN end ELSE "none")
  BY <1>1 DEF ConsoleRun, Console!Ends
<1>5. run'[r] = v
  BY <1>2 DEF ConsoleInv
<1>6. own => (Console!Reported(r, event) <=> run[r].background)
  BY <1>1, <1>4, <1>5 DEF Console!Reported, Console!Known, Console!Ends, ConsoleRun
<1>7. times \in Nat /\ (own => \/ times = 1
                               \/ times = 2 /\ run[r].background /\ run[r].inline)
  BY <1>1, <1>6 DEF ToldRight, ConsoleRun
<1> HIDE DEF v, times, own
<1> QED BY <1>1, <1>2, <1>3, <1>4, <1>7, OneToldRight DEF ToldRight

LEMMA ConsoleStep == ConsoleInv /\ [Console!Next]_(Console!consoleVars) => ConsoleInv'
<1> SUFFICES ASSUME ConsoleInv, [Console!Next]_(Console!consoleVars) PROVE ConsoleInv'
  OBVIOUS
<1>1. CASE UNCHANGED <<run, told>>
  BY <1>1 DEF ConsoleInv, ToldRight
<1>2. ASSUME NEW r, Console!Pause(r) \/ Console!Stop(r) PROVE ConsoleInv'
  BY <1>2, StatusTells DEF Console!Pause, Console!Stop, Console!Running
<1>3. CASE Console!Key
  <2>1. PICK r \in Console!Active :
           \/ Console!Pause(r) \/ Console!Stop(r)
           \/ \E q \in Console!Runs : Console!Start(q, TRUE, FALSE)
    BY <1>3, Zenon DEF Console!Key
  <2> QED BY <1>2, <2>1, StartTells
<1>4. ASSUME NEW r \in Console!Runs, NEW background \in BOOLEAN, NEW inline \in BOOLEAN,
             Console!Launch(r, background, inline)
      PROVE  ConsoleInv'
  BY <1>4, StartTells DEF Console!Launch
<1>5. ASSUME NEW r \in Console!Runs, Console!Resume(r) PROVE ConsoleInv'
  <2> DEFINE v == Console!Resumed(r)
  <2>1. run' = [run EXCEPT ![r] = v] /\ told' = [told EXCEPT ![r] = 0]
    BY <1>5, Zenon DEF Console!Resume
  <2>2. v \in ConsoleRun /\ v.end = "none" /\ v.background
    BY DEF ConsoleRun, Console!Resumed
  <2> HIDE DEF v
  <2> QED BY <2>1, <2>2, OneToldRight
<1>6. ASSUME NEW r \in Console!Runs, Console!DeleteRun(r) PROVE ConsoleInv'
  <2> DEFINE v == Console!NoRun
  <2>1. run' = [run EXCEPT ![r] = v] /\ told' = [told EXCEPT ![r] = 0]
    BY <1>6, Zenon DEF Console!DeleteRun
  <2>2. v \in ConsoleRun /\ v.status = "absent"
    BY DEF ConsoleRun, Console!NoRun
  <2> HIDE DEF v
  <2> QED BY <2>1, <2>2, OneToldRight
<1>7. ASSUME NEW r \in Console!Runs, NEW end \in Console!Ends,
             Console!SettleRemoved(r, end)
      PROVE  UNCHANGED <<run, told>>
  BY <1>7, Zenon DEF Console!SettleRemoved
<1>8. CASE Console!Next
  BY <1>1, <1>2, <1>3, <1>4, <1>5, <1>6, <1>7, <1>8, SettleTells
     DEF Console!Next, Console!Open, Console!Move, Console!Drill, Console!Back,
         Console!Progress, Console!RemovedProgress, Console!Watch
<1>9. CASE UNCHANGED Console!consoleVars
  BY <1>1, <1>9 DEF Console!consoleVars
<1> QED BY <1>8, <1>9

(* The end of a run is told of, and once.                                  *)
LEMMA EndsAreTold == Console!Spec => []Console!EndIsToldOnce
<1>1. Console!Init => ConsoleInv
  BY DEF Console!Init, Console!NoRun, ConsoleInv, ConsoleRun, ToldRight
<1>2. ConsoleInv => Console!EndIsToldOnce
  BY DEF ConsoleInv, ToldRight, Console!EndIsToldOnce, Console!Known
<1> QED BY <1>1, <1>2, ConsoleStep, PTL DEF Console!Spec
-----------------------------------------------------------------------------
(***************************************************************************)
(* The sessions of agents.  A run has spent nothing before it has a        *)
(* session, an outcome is that of a run that is settled, and a repair is   *)
(* of an answer with a schema; a registry that is ready stays ready.       *)
(***************************************************************************)
AgentTools == {"read", "edit", "ask", "store", "structured_output"}
AgentRun ==
    [job : UNION {Jobs[s] : s \in Seats}, at : Sessions!Stages, aborted : BOOLEAN,
     tools : SUBSET AgentTools, active : SUBSET AgentTools,
     model : {"default", "named"}, notice : {"none", "resolved", "fallback"},
     store : {"none", "file", "memory"}, listening : BOOLEAN,
     said : {"nothing", "prose", "json"}, fresh : BOOLEAN,
     stop : Sessions!Ends \cup {"none"}, count : Nat, captured : BOOLEAN,
     left : Int, shown : Nat, told : Nat,
     outcome : {"none", "value", "aborted", "limit", "schema", "empty", "error"}]

JobsNamed ==
    /\ Repairs \in Nat
    /\ \A s \in Seats : Jobs[s] \subseteq Sessions!JobsMade

(* What holds of one run, whatever became of the registry.                 *)
RunFits(r) ==
    /\ r.at \notin {"new", "settled"} =>
          LET added == r.job.system \cup (IF r.job.schema THEN {"structured_output"} ELSE {})
          IN  /\ added \subseteq r.tools
              /\ r.tools \cap r.job.deny \subseteq added
              /\ r.job.allow # {} => r.tools \subseteq r.job.allow \cup added
    /\ r.at \in {"new", "routing", "opening"} =>
          r.count = 0 /\ r.shown = 0 /\ r.told = 0 /\ ~r.listening
    /\ r.at = "settled" => r.told = r.count /\ r.shown = r.count /\ ~r.listening
    /\ r.at # "settled" => r.outcome = "none"
    /\ r.at = "repair" => r.job.schema
    /\ r.outcome = "value" /\ (r.aborted \/ r.stop = "limit") => r.job.schema

Told(r) ==
    r.at \in {"opening", "first", "repair"} /\ r.job.spec # "none" =>
       /\ runner.given \/ runner.disk = "ready"
       /\ r.notice = IF r.model = "named" THEN "resolved" ELSE "fallback"

AgentInv ==
    /\ runner \in [given : BOOLEAN, persist : BOOLEAN,
                   disk : {"none", "pending", "ready", "failed"}]
    /\ seat \in [Seats -> AgentRun]
    /\ \A s \in Seats : RunFits(seat[s]) /\ Told(seat[s])

(* Who changes one run, and the registry only as far as the disk goes.     *)
LEMMA OneRunFits ==
    ASSUME AgentInv, NEW s \in Seats, NEW v \in AgentRun, RunFits(v), Told(v),
           seat' = [seat EXCEPT ![s] = v], UNCHANGED runner
    PROVE  AgentInv'
<1>1. runner' = runner
  OBVIOUS
<1>2. seat' \in [Seats -> AgentRun] /\ \A q \in Seats : seat'[q] = IF q = s THEN v ELSE seat[q]
  BY DEF AgentInv
<1>3. ASSUME NEW q \in Seats PROVE RunFits(seat'[q]) /\ Told(seat[q])'
  <2>1. CASE q = s
    BY <1>1, <1>2, <2>1 DEF Told
  <2>2. CASE q # s
    BY <1>1, <1>2, <2>2 DEF Told, AgentInv
  <2> QED BY <2>1, <2>2
<1>4. ASSUME NEW q \in Seats PROVE RunFits(seat[q])'
  BY <1>3 DEF RunFits
<1> QED BY <1>1, <1>2, <1>3, <1>4 DEF AgentInv

(* The jobs of agents, as far as they matter.                              *)
LEMMA JobIs ==
    ASSUME JobsNamed, NEW job \in UNION {Jobs[s] : s \in Seats}
    PROVE  /\ job.schema \in BOOLEAN /\ job.own \subseteq {"ask"} /\ job.system \subseteq {"store"}
           /\ job.spec \in {"none", "known", "unknown"}
BY DEF JobsNamed, Sessions!JobsMade

LEMMA GrantedIs ==
    ASSUME JobsNamed, NEW job \in UNION {Jobs[s] : s \in Seats},
           NEW added, added = job.system \cup (IF job.schema THEN {"structured_output"} ELSE {})
    PROVE  /\ Sessions!Granted(job) \in SUBSET AgentTools /\ added \subseteq Sessions!Granted(job)
           /\ Sessions!Granted(job) \cap job.deny \subseteq added
           /\ job.allow # {} => Sessions!Granted(job) \subseteq job.allow \cup added
<1>1. job.own \subseteq {"ask"} /\ job.system \subseteq {"store"}
  BY JobIs
<1> QED
  BY <1>1 DEF Sessions!Granted, Sessions!Permitted, Sessions!Coding, Sessions!Closed, AgentTools

(* A run that ends, with whatever outcome it may have.                     *)
LEMMA ClosedFits ==
    ASSUME JobsNamed, NEW r \in AgentRun,
           NEW outcome \in {"value", "aborted", "limit", "schema", "empty", "error"},
           outcome = "value" /\ (r.aborted \/ r.stop = "limit") => r.job.schema,
           NEW v, v = Sessions!ClosedRun(r, outcome)
    PROVE  v \in AgentRun /\ RunFits(v) /\ Told(v)
<1>1. /\ v.at = "settled" /\ v.outcome = outcome /\ v.listening = FALSE
      /\ v.shown = r.count /\ v.told = r.count /\ v.count = r.count /\ v.job = r.job
      /\ v.aborted = r.aborted /\ v.stop = r.stop
  BY DEF Sessions!ClosedRun, Sessions!Usage, AgentRun
<1>2. v \in AgentRun
  <2>1. Repairs \in Int
    BY DEF JobsNamed
  <2> QED BY <2>1 DEF Sessions!ClosedRun, Sessions!Usage, AgentRun, Sessions!Stages
<1> QED BY <1>1, <1>2 DEF RunFits, Told

LEMMA StructuredFits ==
    ASSUME JobsNamed, NEW r \in AgentRun, RunFits(r), Told(r), r.at \in {"first", "repair"},
           r.job.schema, NEW v, v = Sessions!Structured(r)
    PROVE  v \in AgentRun /\ RunFits(v) /\ Told(v)
<1> DEFINE w == [r EXCEPT !.at = "repair", !.left = @ - 1, !.stop = "none",
                          !.active = {"structured_output"}]
<1>1. CASE v = Sessions!ClosedRun(r, "value")
  BY <1>1, ClosedFits
<1>2. CASE v = Sessions!ClosedRun(r, "aborted")
  BY <1>2, ClosedFits
<1>3. CASE \E o \in {"limit", "schema"} : v = Sessions!ClosedRun(r, o)
  BY <1>3, ClosedFits
<1>4. CASE v = w
  <2>1. /\ w.at = "repair" /\ w.job = r.job /\ w.tools = r.tools /\ w.outcome = r.outcome
        /\ w.notice = r.notice /\ w.model = r.model
    BY DEF AgentRun
  <2>2. w \in AgentRun
    <3>1. {"structured_output"} \in SUBSET AgentTools /\ "repair" \in Sessions!Stages
      BY DEF AgentTools, Sessions!Stages
    <3>2. r.left - 1 \in Int
      BY DEF AgentRun
    <3> QED BY <3>1, <3>2 DEF AgentRun
  <2> HIDE DEF w
  <2>3. RunFits(w)
    <3>1. r.at # "settled" /\ r.at # "new" /\ r.outcome = "none"
      BY DEF RunFits
    <3> QED BY <2>1, <3>1 DEF RunFits
  <2>4. Told(w)
    BY <2>1 DEF Told
  <2> QED BY <1>4, <2>2, <2>3, <2>4
<1>5. \/ v = Sessions!ClosedRun(r, "value") \/ v = Sessions!ClosedRun(r, "aborted") \/ v = w
      \/ \E o \in {"limit", "schema"} : v = Sessions!ClosedRun(r, o)
  BY DEF Sessions!Structured, Sessions!Closed
<1> HIDE DEF w
<1> QED BY <1>1, <1>2, <1>3, <1>4, <1>5

LEMMA GoesOnFits ==
    ASSUME JobsNamed, NEW r \in AgentRun, RunFits(r), Told(r), r.at \in {"first", "repair"},
           NEW v, v = Sessions!GoesOn(r)
    PROVE  v \in AgentRun /\ RunFits(v) /\ Told(v)
<1>1. CASE r.at = "repair" \/ (~r.aborted /\ r.stop # "limit" /\ r.job.schema)
  <2>1. r.job.schema /\ v = Sessions!Structured(r)
    BY <1>1 DEF Sessions!GoesOn, Sessions!Limited, RunFits
  <2> QED BY <2>1, StructuredFits
<1>2. CASE r.at # "repair" /\ (r.aborted \/ r.stop = "limit")
  <2>1. \E o \in {"aborted", "limit"} : v = Sessions!ClosedRun(r, o)
    BY <1>2 DEF Sessions!GoesOn, Sessions!Limited
  <2> QED BY <2>1, ClosedFits
<1>3. CASE r.at # "repair" /\ ~r.aborted /\ r.stop # "limit" /\ ~r.job.schema
  <2>1. \E o \in {"empty", "value"} : v = Sessions!ClosedRun(r, o)
    BY <1>3 DEF Sessions!GoesOn, Sessions!Limited
  <2> QED BY <1>3, <2>1, ClosedFits
<1> QED BY <1>1, <1>2, <1>3

(* The model of a run, once the registry is at hand.                       *)
LEMMA RoutedFits ==
    ASSUME JobsNamed, NEW r \in AgentRun,
           RunFits([r EXCEPT !.at = "opening"]),
           r.job.spec # "none" => runner.given \/ runner.disk = "ready",
           NEW v, v = Sessions!Routed(r)
    PROVE  v \in AgentRun /\ RunFits(v) /\ Told(v)
<1>1. r.job.spec \in {"none", "known", "unknown"}
  <2>1. r.job \in UNION {Jobs[s] : s \in Seats}
    BY DEF AgentRun
  <2> QED BY <2>1, JobIs
<1>2. /\ v \in AgentRun /\ v.job = r.job /\ v.at = "opening"
      /\ v.notice = CASE r.job.spec = "known" -> "resolved" [] r.job.spec = "unknown" -> "fallback"
                      [] OTHER -> "none"
      /\ v.model = IF r.job.spec = "known" THEN "named" ELSE "default"
  BY <1>1 DEF Sessions!Routed, AgentRun, Sessions!Stages
<1>3. Told(v)
  BY <1>1, <1>2 DEF Told
<1>4. RunFits(v)
  <2> DEFINE w == [r EXCEPT !.at = "opening"]
  <2>1. /\ v.tools = w.tools /\ v.job = w.job /\ v.at = w.at /\ v.count = w.count
        /\ v.shown = w.shown /\ v.told = w.told /\ v.listening = w.listening
        /\ v.outcome = w.outcome /\ v.aborted = w.aborted /\ v.stop = w.stop
    BY DEF Sessions!Routed, AgentRun
  <2>2. RunFits(w)
    OBVIOUS
  <2> HIDE DEF w
  <2> QED BY <2>1, <2>2 DEF RunFits
<1> QED BY <1>2, <1>3, <1>4

LEMMA AssembleFits ==
    ASSUME JobsNamed, AgentInv, NEW s \in Seats, Sessions!Assemble(s)
    PROVE  AgentInv'
<1> DEFINE t == Sessions!Granted(seat[s].job)
           r == [seat[s] EXCEPT !.tools = t, !.active = t]
           o == [r EXCEPT !.at = "opening"]
           waits == r.job.spec # "none" /\ ~runner.given
<1>1. seat[s] \in AgentRun /\ seat[s].at = "new" /\ RunFits(seat[s])
  BY DEF AgentInv, Sessions!Assemble
<1>2. PICK added : added = seat[s].job.system
                           \cup (IF seat[s].job.schema THEN {"structured_output"} ELSE {})
  OBVIOUS
<1>3. /\ t \in SUBSET AgentTools /\ added \subseteq t /\ t \cap seat[s].job.deny \subseteq added
      /\ seat[s].job.allow # {} => t \subseteq seat[s].job.allow \cup added
  <2>1. seat[s].job \in UNION {Jobs[q] : q \in Seats}
    BY <1>1 DEF AgentRun
  <2>2. PICK job \in UNION {Jobs[q] : q \in Seats} : job = seat[s].job
    BY <2>1
  <2>3. /\ Sessions!Granted(job) \in SUBSET AgentTools /\ added \subseteq Sessions!Granted(job)
        /\ Sessions!Granted(job) \cap job.deny \subseteq added
        /\ job.allow # {} => Sessions!Granted(job) \subseteq job.allow \cup added
    BY <1>2, <2>2, GrantedIs
  <2> QED BY <2>2, <2>3
<1>4. /\ seat' = [seat EXCEPT ![s] = IF waits THEN [r EXCEPT !.at = "routing"]
                                     ELSE Sessions!Routed(r)]
      /\ runner' = IF waits /\ runner.disk = "none" THEN [runner EXCEPT !.disk = "pending"]
                   ELSE runner
  BY Zenon DEF Sessions!Assemble
<1> HIDE DEF t
<1>5. /\ r \in AgentRun /\ r.job = seat[s].job /\ r.tools = t /\ r.at = "new"
      /\ r.count = 0 /\ r.shown = 0 /\ r.told = 0 /\ ~r.listening /\ r.outcome = "none"
  BY <1>1, <1>3 DEF AgentRun, RunFits
<1> HIDE DEF r
<1>6. ASSUME NEW at \in {"opening", "routing"}, NEW v, v = [r EXCEPT !.at = at]
      PROVE  v \in AgentRun /\ RunFits(v) /\ v.at = at
  <2>1. /\ v \in AgentRun /\ v.at = at /\ v.job = seat[s].job /\ v.tools = t
        /\ v.count = 0 /\ v.shown = 0 /\ v.told = 0 /\ ~v.listening /\ v.outcome = "none"
    BY <1>5, <1>6 DEF AgentRun, Sessions!Stages
  <2> QED BY <1>2, <1>3, <1>6, <2>1 DEF RunFits
<1>7. CASE waits
  <2> DEFINE v == [r EXCEPT !.at = "routing"]
  <2>1. v \in AgentRun /\ RunFits(v) /\ v.at = "routing"
    BY <1>6
  <2>2. seat' = [seat EXCEPT ![s] = v]
    BY <1>4, <1>7
  <2> HIDE DEF v
  <2>3. Told(v)
    BY <2>1 DEF Told
  <2>4. CASE runner.disk # "none"
    <3>1. runner' = runner
      BY <1>4, <2>4
    <3> QED BY <2>1, <2>2, <2>3, <3>1, OneRunFits
  <2>5. CASE runner.disk = "none"
    <3>1. runner' = [runner EXCEPT !.disk = "pending"]
      BY <1>4, <1>7, <2>5
    <3>2. runner' \in [given : BOOLEAN, persist : BOOLEAN,
                       disk : {"none", "pending", "ready", "failed"}]
      BY <3>1 DEF AgentInv
    <3>3. seat' \in [Seats -> AgentRun] /\ \A q \in Seats : seat'[q] = IF q = s THEN v ELSE seat[q]
      BY <2>1, <2>2 DEF AgentInv
    <3>4. ASSUME NEW q \in Seats PROVE RunFits(seat[q])' /\ Told(seat[q])'
      <4>1. RunFits(seat'[q])
        BY <2>1, <3>3 DEF AgentInv
      <4>2. seat'[q].at \in {"opening", "first", "repair"} => seat'[q].job.spec = "none"
        BY <1>7, <2>1, <2>5, <3>3 DEF AgentInv, Told
      <4>3. RunFits(seat[q])'
        BY <4>1 DEF RunFits
      <4> QED BY <4>2, <4>3 DEF Told
    <3> QED BY <3>2, <3>3, <3>4 DEF AgentInv
  <2> QED BY <2>4, <2>5
<1>8. CASE ~waits
  <2> DEFINE v == Sessions!Routed(r)
  <2>1. seat' = [seat EXCEPT ![s] = v] /\ runner' = runner
    BY <1>4, <1>8
  <2>2. RunFits(o)
    BY <1>6
  <2>3. v \in AgentRun /\ RunFits(v) /\ Told(v)
    BY <1>5, <1>8, <2>2, RoutedFits
  <2> HIDE DEF v
  <2> QED BY <2>1, <2>3, OneRunFits
<1> QED BY <1>7, <1>8

(* A run that ended before it had a session has nothing to report.         *)
LEMMA SettledFits ==
    ASSUME NEW r \in AgentRun, RunFits(r), r.at \in {"routing", "opening"},
           NEW v, v = Sessions!Settle(r, "error")
    PROVE  v \in AgentRun /\ RunFits(v) /\ Told(v)
<1>1. /\ v.at = "settled" /\ v.outcome = "error" /\ v.listening = r.listening
      /\ v.shown = r.shown /\ v.told = r.told /\ v.count = r.count
  BY DEF Sessions!Settle, AgentRun
<1>2. v \in AgentRun
  BY DEF Sessions!Settle, AgentRun, Sessions!Stages
<1> QED BY <1>1, <1>2 DEF RunFits, Told

LEMMA MessageFits ==
    ASSUME AgentInv, NEW s \in Seats, NEW words \in {"nothing", "prose", "json"},
           NEW stop \in Sessions!Ends, NEW structured \in BOOLEAN,
           Sessions!Message(s, words, stop, structured)
    PROVE  AgentInv'
<1>1. /\ seat[s] \in AgentRun /\ RunFits(seat[s]) /\ Told(seat[s])
      /\ seat[s].at \in {"first", "repair"} /\ runner' = runner
  BY DEF AgentInv, Sessions!Message, Sessions!InPrompt
<1>2. PICK shown \in {seat[s].shown, seat[s].count + 1} :
         seat' = [seat EXCEPT ![s] =
                    [seat[s] EXCEPT !.count = @ + 1, !.stop = stop, !.shown = shown,
                              !.said = Sessions!LastText(seat[s], words),
                              !.fresh = words # "nothing",
                              !.captured = @ \/ structured]]
  BY Zenon DEF Sessions!Message
<1> DEFINE v == [seat[s] EXCEPT !.count = @ + 1, !.stop = stop, !.shown = shown,
                                !.said = Sessions!LastText(seat[s], words),
                                !.fresh = words # "nothing", !.captured = @ \/ structured]
<1>3. Sessions!LastText(seat[s], words) \in {"nothing", "prose", "json"}
  BY <1>1 DEF Sessions!LastText, AgentRun
<1>4. seat[s].count + 1 \in Nat /\ shown \in Nat /\ (seat[s].captured \/ structured) \in BOOLEAN
  BY <1>1 DEF AgentRun
<1>5. v \in AgentRun
  BY <1>1, <1>3, <1>4 DEF AgentRun
<1>6. /\ v.at = seat[s].at /\ v.job = seat[s].job /\ v.tools = seat[s].tools
      /\ v.outcome = seat[s].outcome /\ v.notice = seat[s].notice /\ v.model = seat[s].model
  BY <1>1 DEF AgentRun
<1>7. seat' = [seat EXCEPT ![s] = v]
  BY <1>2
<1> HIDE DEF v
<1>8. RunFits(v) /\ Told(v)
  BY <1>1, <1>6 DEF RunFits, Told
<1> QED BY <1>1, <1>5, <1>7, <1>8, OneRunFits

LEMMA OpenFits ==
    ASSUME JobsNamed, AgentInv, NEW s \in Seats, NEW writable \in BOOLEAN,
           Sessions!Open(s, writable)
    PROVE  AgentInv'
<1> DEFINE r == [seat[s] EXCEPT !.store = Sessions!Store(writable)]
           w == [r EXCEPT !.at = "first", !.listening = TRUE]
<1>1. /\ seat[s] \in AgentRun /\ RunFits(seat[s]) /\ Told(seat[s]) /\ seat[s].at = "opening"
      /\ runner' = runner
      /\ seat' = [seat EXCEPT ![s] = IF r.aborted THEN Sessions!ClosedRun(r, "aborted") ELSE w]
  BY DEF AgentInv, Sessions!Open
<1>2. r \in AgentRun
  BY <1>1 DEF AgentRun, Sessions!Store
<1>3. CASE r.aborted
  <2> DEFINE v == Sessions!ClosedRun(r, "aborted")
  <2>1. seat' = [seat EXCEPT ![s] = v]
    BY <1>1, <1>3
  <2> HIDE DEF r
  <2>2. v \in AgentRun /\ RunFits(v) /\ Told(v)
    BY <1>2, ClosedFits
  <2> HIDE DEF v
  <2> QED BY <1>1, <2>1, <2>2, OneRunFits
<1>4. CASE ~r.aborted
  <2>1. seat' = [seat EXCEPT ![s] = w]
    BY <1>1, <1>4
  <2>2. /\ w.at = "first" /\ w.job = seat[s].job /\ w.tools = seat[s].tools
        /\ w.outcome = seat[s].outcome /\ w.notice = seat[s].notice /\ w.model = seat[s].model
    BY <1>1 DEF AgentRun
  <2>3. w \in AgentRun
    <3> HIDE DEF r
    <3> QED BY <1>2 DEF AgentRun, Sessions!Stages
  <2> HIDE DEF w
  <2>4. RunFits(w) /\ Told(w)
    BY <1>1, <2>2 DEF RunFits, Told
  <2> QED BY <1>1, <2>1, <2>3, <2>4, OneRunFits
<1> QED BY <1>3, <1>4

LEMMA AgentStep ==
    ASSUME JobsNamed PROVE AgentInv /\ [Sessions!Next]_(Sessions!agentVars) => AgentInv'
<1> SUFFICES ASSUME AgentInv, [Sessions!Next]_(Sessions!agentVars) PROVE AgentInv'
  OBVIOUS
<1>1. ASSUME Sessions!DiskRegistry PROVE AgentInv'
  <2>1. PICK d \in {"ready", "failed"} : runner' = [runner EXCEPT !.disk = d]
    BY <1>1, Zenon DEF Sessions!DiskRegistry
  <2>2. runner.disk = "pending" /\ seat' = seat
    BY <1>1, Zenon DEF Sessions!DiskRegistry
  <2>3. /\ runner' \in [given : BOOLEAN, persist : BOOLEAN,
                        disk : {"none", "pending", "ready", "failed"}]
        /\ runner'.given = runner.given
    BY <2>1 DEF AgentInv
  <2> QED BY <2>2, <2>3 DEF AgentInv, RunFits, Told
<1>2. ASSUME NEW s \in Seats, NEW v, seat' = [seat EXCEPT ![s] = v], UNCHANGED runner,
             v \in AgentRun /\ RunFits(v) /\ Told(v)
      PROVE  AgentInv'
  BY <1>2, OneRunFits
<1>3. ASSUME NEW s \in Seats, Sessions!RegistryCame(s) PROVE AgentInv'
  <2>1. /\ seat[s] \in AgentRun /\ RunFits(seat[s]) /\ Told(seat[s]) /\ seat[s].at = "routing"
        /\ runner' = runner
        /\ seat' = [seat EXCEPT ![s] = IF runner.disk = "ready" THEN Sessions!Routed(seat[s])
                                       ELSE Sessions!Settle(seat[s], "error")]
    BY <1>3 DEF AgentInv, Sessions!RegistryCame
  <2>2. CASE runner.disk = "ready"
    <3> DEFINE v == Sessions!Routed(seat[s])
               o == [seat[s] EXCEPT !.at = "opening"]
    <3>1. /\ o.at = "opening" /\ o.job = seat[s].job /\ o.tools = seat[s].tools
          /\ o.count = seat[s].count /\ o.shown = seat[s].shown /\ o.told = seat[s].told
          /\ o.listening = seat[s].listening /\ o.outcome = seat[s].outcome
      BY <2>1 DEF AgentRun
    <3>2. RunFits(o)
      <4> HIDE DEF o
      <4> QED BY <2>1, <3>1 DEF RunFits
    <3>3. v \in AgentRun /\ RunFits(v) /\ Told(v)
      BY <2>1, <2>2, <3>2, RoutedFits
    <3>4. seat' = [seat EXCEPT ![s] = v]
      BY <2>1, <2>2
    <3> HIDE DEF v
    <3> QED BY <1>2, <2>1, <3>3, <3>4
  <2>3. CASE runner.disk # "ready"
    <3> DEFINE v == Sessions!Settle(seat[s], "error")
    <3>1. v \in AgentRun /\ RunFits(v) /\ Told(v)
      BY <2>1, SettledFits
    <3>2. seat' = [seat EXCEPT ![s] = v]
      BY <2>1, <2>3
    <3> HIDE DEF v
    <3> QED BY <1>2, <2>1, <3>1, <3>2
  <2> QED BY <2>2, <2>3
<1>4. ASSUME NEW s \in Seats, Sessions!OpenFails(s) PROVE AgentInv'
  <2> DEFINE v == Sessions!Settle(seat[s], "error")
  <2>1. /\ seat[s] \in AgentRun /\ RunFits(seat[s]) /\ seat[s].at = "opening"
        /\ runner' = runner /\ seat' = [seat EXCEPT ![s] = v]
    BY <1>4 DEF AgentInv, Sessions!OpenFails
  <2>2. v \in AgentRun /\ RunFits(v) /\ Told(v)
    BY <2>1, SettledFits
  <2> HIDE DEF v
  <2> QED BY <1>2, <2>1, <2>2
<1>5. ASSUME NEW s \in Seats, Sessions!PromptFails(s) PROVE AgentInv'
  <2> DEFINE v == Sessions!ClosedRun(seat[s], "error")
  <2>1. seat[s] \in AgentRun /\ runner' = runner /\ seat' = [seat EXCEPT ![s] = v]
    BY <1>5 DEF AgentInv, Sessions!PromptFails
  <2>2. v \in AgentRun /\ RunFits(v) /\ Told(v)
    BY <2>1, ClosedFits
  <2> HIDE DEF v
  <2> QED BY <1>2, <2>1, <2>2
<1>6. ASSUME NEW s \in Seats, Sessions!PromptEnds(s) PROVE AgentInv'
  <2> DEFINE v == Sessions!GoesOn(seat[s])
  <2>1. /\ seat[s] \in AgentRun /\ RunFits(seat[s]) /\ Told(seat[s])
        /\ seat[s].at \in {"first", "repair"}
        /\ runner' = runner /\ seat' = [seat EXCEPT ![s] = v]
    BY <1>6 DEF AgentInv, Sessions!PromptEnds
  <2>2. v \in AgentRun /\ RunFits(v) /\ Told(v)
    BY <2>1, GoesOnFits
  <2> HIDE DEF v
  <2> QED BY <1>2, <2>1, <2>2
<1>7. ASSUME NEW s \in Seats, Sessions!Abort(s) PROVE AgentInv'
  <2> DEFINE v == [seat[s] EXCEPT !.aborted = TRUE]
  <2>1. /\ seat[s] \in AgentRun /\ RunFits(seat[s]) /\ Told(seat[s]) /\ seat[s].at # "settled"
        /\ runner' = runner /\ seat' = [seat EXCEPT ![s] = v]
    BY <1>7 DEF AgentInv, Sessions!Abort
  <2>2. /\ v.at = seat[s].at /\ v.job = seat[s].job /\ v.tools = seat[s].tools
        /\ v.count = seat[s].count /\ v.shown = seat[s].shown /\ v.told = seat[s].told
        /\ v.listening = seat[s].listening /\ v.outcome = seat[s].outcome
        /\ v.notice = seat[s].notice /\ v.model = seat[s].model
    BY <2>1 DEF AgentRun
  <2>3. v \in AgentRun
    BY <2>1 DEF AgentRun
  <2> HIDE DEF v
  <2>4. RunFits(v) /\ Told(v)
    BY <2>1, <2>2 DEF RunFits, Told
  <2> QED BY <1>2, <2>1, <2>3, <2>4
<1>8. CASE Sessions!Next
  BY <1>1, <1>3, <1>4, <1>5, <1>6, <1>7, <1>8, AssembleFits, OpenFits, MessageFits
     DEF Sessions!Next
<1>9. CASE UNCHANGED Sessions!agentVars
  BY <1>9 DEF Sessions!agentVars, AgentInv, RunFits, Told
<1> QED BY <1>8, <1>9

(* Every session of an agent is sound, for any number of them.             *)
LEMMA SessionsKept == ASSUME JobsNamed PROVE Sessions!Spec => []Sessions!SessionsAreSound
<1>1. Sessions!Init => AgentInv
  <2> SUFFICES ASSUME Sessions!Init PROVE AgentInv
    OBVIOUS
  <2>1. PICK job \in [Seats -> UNION {Jobs[s] : s \in Seats}] :
           seat = [s \in Seats |-> Sessions!NewRun(job[s])]
    BY Zenon DEF Sessions!Init
  <2>2. runner \in [given : BOOLEAN, persist : BOOLEAN,
                    disk : {"none", "pending", "ready", "failed"}]
    BY DEF Sessions!Init
  <2>3. ASSUME NEW s \in Seats PROVE seat[s] \in AgentRun /\ RunFits(seat[s]) /\ Told(seat[s])
    <3>1. seat[s] = Sessions!NewRun(job[s]) /\ job[s] \in UNION {Jobs[q] : q \in Seats}
      BY <2>1
    <3>2. Repairs \in Int
      BY DEF JobsNamed
    <3>3. seat[s] \in AgentRun /\ seat[s].at = "new" /\ seat[s].count = 0 /\ seat[s].shown = 0
          /\ seat[s].told = 0 /\ ~seat[s].listening /\ seat[s].outcome = "none"
      BY <3>1, <3>2 DEF Sessions!NewRun, AgentRun, Sessions!Stages
    <3> QED BY <3>3 DEF RunFits, Told
  <2>4. seat \in [Seats -> AgentRun]
    BY <2>1, <2>3
  <2> QED BY <2>2, <2>3, <2>4 DEF AgentInv
<1>2. AgentInv => Sessions!SessionsAreSound
  BY DEF AgentInv, RunFits, Told, Sessions!SessionsAreSound, Sessions!ToolsAreGranted,
         Sessions!NothingUnreported, Sessions!RefusalIsNoAnswer, Sessions!ModelIsTold,
         Sessions!Closed
<1>3. AgentInv /\ [Sessions!Next]_(Sessions!agentVars) => AgentInv'
  BY AgentStep
<1> QED BY <1>1, <1>2, <1>3, PTL DEF Sessions!Spec

-----------------------------------------------------------------------------
(* The parts.  A step of MCHelm is a step of one part, or none.            *)

everything == <<part, helmParts, quotaParts, flowParts, agentParts, bookParts>>

(* A step of one group leaves the variables of the others alone.           *)
LEMMA GroupStep ==
    [Next]_everything =>
       /\ HelmNext \/ UNCHANGED helmParts
       /\ QuotaNext \/ UNCHANGED quotaParts
       /\ FlowNext \/ UNCHANGED flowParts
       /\ AgentNext \/ UNCHANGED agentParts
       /\ BookNext \/ UNCHANGED bookParts
BY DEF Next, everything

(* The loops: a behaviour of MCHelm is one of HelmLoops.                   *)
LEMMA LoopPart == Spec => Loops!Spec
<1>1. Init => Loops!Init
  BY DEF Init
<1>2. [Next]_everything => [Loops!Next]_(Loops!vars)
  BY GroupStep DEF HelmNext, helmParts, loopVars, Loops!vars
<1> QED
  BY <1>1, <1>2, PTL DEF Spec, Loops!Spec, everything

(* The cards: a behaviour of MCHelm is one of HelmPrecedents.              *)
LEMMA CardPart == Spec => Cards!Spec
<1>1. Init => Cards!Init
  BY DEF Init
<1>2. [Next]_everything => [Cards!Next]_(Cards!pvars)
  BY GroupStep DEF HelmNext, helmParts, cardVars, Cards!pvars
<1> QED
  BY <1>1, <1>2, PTL DEF Spec, Cards!Spec, everything

(* The goals: a behaviour of MCHelm is one of HelmGoals.                   *)
LEMMA GoalPart == Spec => Goals!Spec
<1>1. Init => Goals!Init
  BY DEF Init
<1>2. [Next]_everything => [Goals!Next]_(Goals!gvars)
  BY GroupStep DEF HelmNext, helmParts, goalVars, Goals!gvars
<1> QED
  BY <1>1, <1>2, PTL DEF Spec, Goals!Spec, everything

(* The models: a behaviour of MCHelm is one of ModelRouting.               *)
LEMMA ModelPart == Spec => Models!Spec
<1>1. Init => Models!Init
  BY DEF Init
<1>2. [Next]_everything => [Models!Next]_(Models!mvars)
  BY GroupStep DEF AgentNext, agentParts, modelVars, Models!mvars
<1> QED
  BY <1>1, <1>2, PTL DEF Spec, Models!Spec, everything

(* The quotas: a behaviour of MCHelm is one of UsageService.               *)
LEMMA QuotaPart == Spec => Quotas!Spec
<1>1. Init => Quotas!Init
  BY DEF Init
<1>2. [Next]_everything => [Quotas!Next]_(Quotas!uvars)
  BY GroupStep DEF QuotaNext, quotaParts, quotaVars, Quotas!uvars
<1> QED
  BY <1>1, <1>2, PTL DEF Spec, Quotas!Spec, everything

(* The input box: a behaviour of MCHelm is one of WorkflowEditor.          *)
LEMMA EditorPart == Spec => Editor!Spec
<1>1. Init => Editor!Init
  BY DEF Init
<1>2. [Next]_everything => [Editor!Next]_(Editor!editorVars)
  BY GroupStep DEF FlowNext, flowParts, editorVars, Editor!editorVars
<1> QED
  BY <1>1, <1>2, PTL DEF Spec, Editor!Spec, everything

(* The launch: a behaviour of MCHelm is one of WorkflowLaunch.             *)
LEMMA LaunchPart == Spec => Launch!Spec
<1>1. Init => Launch!Init
  BY DEF Init
<1>2. [Next]_everything => [Launch!Next]_(Launch!launchVars)
  BY GroupStep DEF FlowNext, flowParts, launchVars, Launch!launchVars
<1> QED
  BY <1>1, <1>2, PTL DEF Spec, Launch!Spec, everything

(* The window: a behaviour of MCHelm is one of HelmScreens.                *)
LEMMA ScreenPart == Spec => Screens!Spec
<1>1. Init => Screens!Init
  BY DEF Init
<1>2. [Next]_everything => [Screens!Next]_(Screens!svars)
  BY GroupStep DEF HelmNext, helmParts, screenVars, Screens!svars
<1> QED
  BY <1>1, <1>2, PTL DEF Spec, Screens!Spec, everything

(* The lease: a behaviour of MCHelm is one of RunLease.                    *)
LEMMA LeasePart == Spec => Lease!Spec
<1>1. Init => Lease!Init
  BY DEF Init
<1>2. [Next]_everything => [Lease!Next]_(Lease!leaseVars)
  BY GroupStep DEF FlowNext, flowParts, leaseVars, Lease!leaseVars
<1> QED
  BY <1>1, <1>2, PTL DEF Spec, Lease!Spec, everything

(* The managers of fleets: a behaviour of MCHelm is one of FleetConsole.   *)
LEMMA FleetPart == Spec => Fleet!Spec
<1>1. Init => Fleet!Init
  BY DEF Init
<1>2. [Next]_everything => [Fleet!Next]_(Fleet!fleetVars)
  BY GroupStep DEF AgentNext, agentParts, fleetVars, Fleet!fleetVars
<1> QED
  BY <1>1, <1>2, PTL DEF Spec, Fleet!Spec, everything

(* The readings: a behaviour of MCHelm is one of QuotaReadings.            *)
LEMMA ReadingPart == Spec => Readings!Spec
<1>1. Init => Readings!Init
  BY DEF Init
<1>2. [Next]_everything => [Readings!Next]_(Readings!meterVars)
  BY GroupStep DEF QuotaNext, quotaParts, meterVars, Readings!meterVars
<1> QED
  BY <1>1, <1>2, PTL DEF Spec, Readings!Spec, everything

(* The console: a behaviour of MCHelm is one of RunConsole.                *)
LEMMA ConsolePart == Spec => Console!Spec
<1>1. Init => Console!Init
  BY DEF Init
<1>2. [Next]_everything => [Console!Next]_(Console!consoleVars)
  BY GroupStep DEF FlowNext, flowParts, consoleVars, Console!consoleVars
<1> QED
  BY <1>1, <1>2, PTL DEF Spec, Console!Spec, everything

(* The sessions: a behaviour of MCHelm is one of AgentSession, and its jobs *)
(* name the tools there are.                                               *)
LEMMA SessionPart == Spec => Sessions!Spec
<1>1. Init => Sessions!Init
  BY DEF Init
<1>2. [Next]_everything => [Sessions!Next]_(Sessions!agentVars)
  BY GroupStep DEF AgentNext, agentParts, agentVars, Sessions!agentVars
<1> QED
  BY <1>1, <1>2, PTL DEF Spec, Sessions!Spec, everything

(* The state file: a behaviour of MCHelm is one of HelmDesk.               *)
LEMMA DeskPart == Spec => Desk!Spec
<1>1. Init => Desk!Init
  BY DEF Init
<1>2. [Next]_everything => [Desk!Next]_(Desk!deskVars)
  BY GroupStep DEF BookNext, bookParts, deskVars, Desk!deskVars
<1> QED
  BY <1>1, <1>2, PTL DEF Spec, Desk!Spec, everything

LEMMA JobsAreNamed == JobsNamed
<1>1. Repairs \in Nat
  BY HelmAssumption
<1>2. ASSUME NEW s \in Seats PROVE Jobs[s] \subseteq Sessions!JobsMade
  <2>1. /\ Job(FALSE, {}, {}, "known", 0) \in Sessions!JobsMade
        /\ Job(TRUE, {}, {}, "none", 2) \in Sessions!JobsMade
    BY DEF Job, Sessions!JobsMade, Sessions!Coding, Sessions!Closed
  <2>2. Job(TRUE, {"read"}, {"store", "structured_output"}, "unknown", 1) \in Sessions!JobsMade
    BY DEF Job, Sessions!JobsMade, Sessions!Coding, Sessions!Closed
  <2>3. Job(FALSE, {"read", "ask"}, {"ask"}, "known", 2) \in Sessions!JobsMade
    BY DEF Job, Sessions!JobsMade, Sessions!Coding, Sessions!Closed
  <2>4. CASE s > 1
    BY <2>1, <2>4 DEF Jobs
  <2>5. CASE ~(s > 1)
    BY <2>1, <2>2, <2>3, <2>5 DEF Jobs
  <2> QED BY <2>4, <2>5
<1> QED BY <1>1, <1>2 DEF JobsNamed

-----------------------------------------------------------------------------
(* Whatever is edited, discarded, tried, paused, resumed, restarted or     *)
(* fails, in whatever order: the definition a loop runs has passed a trial *)
(* (loop.schedule takes the text the draft has by then), and a loop that   *)
(* is neither paused nor frozen has the timer or the run that gets it to   *)
(* its next (armLoop has six callers).                                     *)
THEOREM LoopsAreKept ==
    ASSUME LoopParameters PROVE Spec => []LoopsAreSound
<1>1. Loops!AcceptedWasTried /\ Loops!LoopStaysScheduled => LoopsAreSound
  BY DEF LoopsAreSound
<1> QED
  BY <1>1, LoopPart, LoopsKept, PTL

(* The quotas of every process stay in their types.                        *)
THEOREM UsageTypes == Spec => []Quotas!TypeOK
BY QuotaPart, UsageTyped, PTL

(* Whichever process writes the cache file, however its refresh interleaves *)
(* with those of the others, and whoever dies: attempts and snapshots in it *)
(* never go back (service.ts:64).                                          *)
THEOREM CacheAdvances == Spec => CacheOnlyAdvances
BY QuotaPart, CacheOnward DEF CacheOnlyAdvances

(* A token the server has rotated away is presented only when its          *)
(* successor was lost, so never twice because two refreshes interleaved:   *)
(* those of pi's processes and of the Kimi CLI (kimi.ts:91).               *)
THEOREM TokensRotateOnce == Spec => []Quotas!RotatedOnce
BY QuotaPart, TokenOnce, PTL

(* What the operator sees decides: if the text only changes as it is typed, *)
(* a message is forced exactly when it was lit (workflow-editor.ts:9); and *)
(* the script that runs is the one shown when the launch was agreed to,    *)
(* for any number of versions, whatever is saved, edited and approved      *)
(* meanwhile (workflow-tool.ts:231).                                       *)
THEOREM OperatorHasTheSay == ASSUME ~Pastes PROVE Spec => []OperatorDecides
<1>1. Editor!HighlightDecides /\ Launch!RunsWhatWasApproved => OperatorDecides
  BY DEF OperatorDecides
<1> QED
  BY <1>1, EditorPart, LaunchPart, HighlightKept, ScriptShown, PTL

(* Whatever other cards are decided, cycled through or walked over while a *)
(* request waits, for any number of requests and options: the caller gets  *)
(* the option its own card was confirmed with, although the bridge finds   *)
(* it in the record of all decisions (escalation-bridge.ts).               *)
THEOREM AnswersAreChosen == ASSUME ScreenParameters PROVE Spec => []AnsweredAsChosen
<1>1. Screens!AnsweredAsChosen => AnsweredAsChosen
  BY DEF AnsweredAsChosen
<1> QED
  BY <1>1, ScreenPart, ChosenAnswered, PTL

(* For any number of processes, whichever die and whichever writes fail,   *)
(* at any step: who tries while nobody else does gets the lease, and the   *)
(* lease has one holder unless a lock was removed that its remover had not *)
(* read, or that was about to be written (run-persistence.ts:91).          *)
THEOREM LeaseHolds == Spec => [](part = "lease" => Lease!LeaseIsSound)
<1>1. Lease!LeaseIsSound => (part = "lease" => Lease!LeaseIsSound)
  OBVIOUS
<1> QED
  BY <1>1, LeasePart, LeaseKept, PTL

(* For any number of processes, sessions, managers and Claudes, whoever    *)
(* crashes and however switches of sessions, starts, sweeps, tasks and     *)
(* stops interleave, if owner.pid can be written: a Claude that lives is   *)
(* on file (with the exceptions of ClaudesAreOnFile), a session has one    *)
(* manager that is started, no sweep kills what was supervised when it     *)
(* looked, a quit leaves no Claude its manager knew, and none is granted   *)
(* what the operator did not pick (register.ts:139, fleet-manager.ts:403); *)
(* and the lease of a run is sound too.                                    *)
THEOREM HoldersSound == ASSUME FleetParameters PROVE Spec => []HoldersAreSound
<1>1. Lease!LeaseIsSound /\ Fleet!FleetIsKept => HoldersAreSound
  BY DEF HoldersAreSound
<1> QED
  BY <1>1, LeasePart, FleetPart, LeaseKept, FleetKept, PTL

(* Whatever the providers answer, over whichever way, and however wide the *)
(* terminal is: the footer says what is left, in a fair bar, with a        *)
(* directory that crowds nothing out, no app server is left behind, and a  *)
(* token that was rotated away is not presented again.                     *)
THEOREM QuotasHold == Spec => []QuotasAreTrue
<1>1. Quotas!RotatedOnce /\ Readings!ReadingsAreTrue => QuotasAreTrue
  BY DEF QuotasAreTrue
<1> QED
  BY <1>1, QuotaPart, ReadingPart, TokenOnce, ReadingsKept, PTL

(* Whoever pauses, stops, resumes, replaces or looks at a run, for any      *)
(* number of runs: an execution that ended by itself is told of once, or   *)
(* twice by a run that is awaited and in the background                    *)
(* (workflow-manager.ts:511); and for any number of agents of one host,    *)
(* whatever each is asked, told or refused: its tools are as granted, all  *)
(* it spent is told when it settles, a refusal gives no prose, and the model *)
(* it got is the one it was told of (agent.ts:310).                        *)
THEOREM RunsReported == Spec => []RunsAreReported
<1>1. Console!EndIsToldOnce /\ Sessions!SessionsAreSound => RunsAreReported
  BY DEF RunsAreReported
<1> QED
  BY <1>1, ConsolePart, SessionPart, EndsAreTold, SessionsKept, JobsAreNamed, PTL

(* Whoever crashes between the two steps of a save, deletes runs, completes *)
(* a goal again or answers a question, for any number of sessions and any  *)
(* length of time, as long as they are not open at once: what was saved is *)
(* on file ever after, a digest lists the decisions queued and the loops   *)
(* paused in its session, all of them and none of before, and no more      *)
(* money than was paid since (persistence.ts:98).                          *)
THEOREM SavedStays == Spec => []SavedIsKept
<1>1. DeskInv => SavedIsKept
  BY DeskKeeps DEF SavedIsKept, Desk!DeskIsKept
<1> QED
  BY <1>1, DeskPart, DeskStarts, DeskStep, PTL DEF Desk!Spec

(* And the closeout of a goal is that of its first completion, whatever is *)
(* completed again by whichever session (real.ts).                         *)
THEOREM CloseoutsStand == Spec => CloseoutStands
<1>1. DeskInv /\ [Desk!Next]_(Desk!deskVars)
         => [stateFile.saved.closeout # <<>> /\ ~opens.overlap
               => stateFile'.saved.closeout = stateFile.saved.closeout]_(Desk!deskVars)
  BY CloseoutKept
<1> QED
  BY <1>1, DeskPart, DeskStarts, DeskStep, PTL
     DEF Desk!Spec, CloseoutStands, Desk!CloseoutStands

(* Whatever runs of a goal are paused, resumed, stopped or end, one by one, *)
(* by goal or all at once, whatever is launched again after a launch that  *)
(* failed half-way, and however often pi restarts: a goal shown complete is *)
(* complete, and its closeout counts every run there is (real.ts:858).     *)
THEOREM GoalsComplete == Spec => []CompleteIsComplete
<1>1. GoalInv => CompleteIsComplete
  BY GoalHolds DEF CompleteIsComplete
<1> QED
  BY <1>1, GoalPart, GoalStarts, GoalStep, PTL DEF Goals!Spec

(* However the tiers, the agent files and the registry are edited between  *)
(* and during runs, and for a catalogue of any length: an agent of a tier  *)
(* runs with what was picked for it while the registry has it, what is     *)
(* served from the journal was made under the definition in force, and the *)
(* suggested tiers are apart and never inverted (model-tier-config.ts:157). *)
THEOREM RoutesFollowed == Spec => []RoutesAsConfigured
<1>1. ModelInv => RoutesAsConfigured
  BY EditedKept, TiersKept DEF RoutesAsConfigured, Models!RoutesAsConfigured, ModelInv
<1> QED
  BY <1>1, ModelPart, ModelStarts, ModelStep, PTL DEF Models!Spec

(* Whatever is decided, declined, taken back and handed off on the cards of *)
(* two goals, and however often they are drawn: a number of a card goes on *)
(* meaning the same precedent until a hand-off (app.ts:437).               *)
THEOREM NumbersKept == Spec => NumbersStay
<1>1. AllHold => \A g \in {"first", "second"} :
         Cards!Handed' = Cards!Handed /\ ~Cards!NewWindow
           => Cards!IsPrefix(Cards!Drawn(g), Cards!Drawn(g)')
  BY DEF AllHold, Held, GoalNames
<1> QED
  BY <1>1, CardPart, CardStarts, CardStep, PTL DEF Cards!Spec, NumbersStay, Cards!NumbersStay
=============================================================================
