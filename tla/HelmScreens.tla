---------------------------- MODULE HelmScreens ----------------------------
(***************************************************************************)
(* The Helm window: the stack of screens, the modes in which a key is      *)
(* understood (usage popover, confirmation, search, plan picker, prompt,   *)
(* screen keys), and the needs-you queue with the permission requests that *)
(* wait for the operator's choice in it (app.ts, router.ts, selectors.ts,  *)
(* store.ts, escalation-bridge.ts).                                        *)
(*                                                                         *)
(* A key press is one step: what it awaits with the production data source *)
(* settles before the next key.  A screen is a pair <<id, subject>>.  One  *)
(* goal, workflow, loop and draft of each kind stand for all: the rows a   *)
(* selection or a query may point at are chosen freely.                    *)
(***************************************************************************)
EXTENDS Integers, Sequences, SequencesExt

CONSTANTS Asks,     \* permission requests
          Options,  \* number of options of a request
          MaxDepth  \* bound: screens opened on top of each other

VARIABLES queue,       \* HelmStore escalations, oldest first
          precedents,  \* decisions recorded, oldest first: <<request, option>>
          promise,     \* what bridgePermissionRequest returned to its caller
          chosen,      \* the option confirmed on a card (history)
          world,       \* the goal, the intake and the loop draft
          ui           \* HelmApp

svars == <<queue, precedents, promise, chosen, world, ui>>

None == <<"none", "none">>
Home == <<"home", "none">>
Card(e) == <<"escalation", e>>

Digest  == <<"digest", "none">>
Search  == <<"search", "none">>
Viewer  == <<"viewer", "none">>
Intake  == <<"intake", "draft">>
Builder == <<"loopBuilder", "loop">>

\* Screens a row of home or a search result may lead to, besides cards.
Details == {<<"drillin", "workflow">>, <<"loopDrillin", "loop">>,
            <<"closeout", "goal">>, Viewer}

Screens == {Home, Digest, Search, Intake, Builder, <<"session", "worktree">>}
           \cup Details \cup {Card(e) : e \in Asks}

Indices == 1 .. Options
Actions == {<<"discardGoal", "draft">>, <<"discardLoop", "loop">>, <<"archive", "goal">>,
            <<"apply", "goal">>, <<"reassign", "worktree">>, <<"merge", "worktree">>}
           \cup (Asks \X Indices)

TypeOK ==
    /\ queue \in Seq(Asks) /\ IsInjective(queue)
    /\ precedents \in Seq(Asks \X Indices)
    /\ promise \in [Asks -> {0} \cup Indices \cup {99}]
    /\ chosen \in [Asks -> {0} \cup Indices]
    /\ world \in [goal : {"running", "complete", "archived"},
                  intake : {"none", "asking", "ready"}, draft : BOOLEAN]
    /\ ui \in [open : BOOLEAN, stack : Seq(Screens), popover : BOOLEAN,
               confirm : Actions \cup {None}, typing : Screens \cup {None},
               picker : BOOLEAN]
    /\ ui.stack[1] = Home

Unasked == 0
Waiting == 99

Closed == [open |-> FALSE, stack |-> <<Home>>, popover |-> FALSE,
           confirm |-> None, typing |-> None, picker |-> FALSE]

Init ==
    /\ queue = <<>> /\ precedents = <<>>
    /\ promise = [e \in Asks |-> Unasked] /\ chosen = [e \in Asks |-> 0]
    /\ world = [goal |-> "running", intake |-> "none", draft |-> FALSE]
    /\ ui = Closed

-----------------------------------------------------------------------------
\* transition(): home is always the bottom frame

Top == Last(ui.stack)

Pushed(s)   == Append(ui.stack, s)
Popped      == IF Len(ui.stack) > 1 THEN Front(ui.stack) ELSE ui.stack
Replaced(s) == IF Len(ui.stack) > 1 THEN Append(Front(ui.stack), s) ELSE <<Home, s>>
Walked(e)   == <<Home, Card(e)>>

Show(s) == ui' = [ui EXCEPT !.stack = s]
Open(s) == Len(ui.stack) < MaxDepth /\ Show(Pushed(s))

Asking(action) == ui' = [ui EXCEPT !.confirm = action]

\* The modes, in the order dispatch() tries them.
Listens    == ui.open /\ ~ui.popover
Confirming == Listens /\ ui.confirm # None
Searching  == Listens /\ ui.confirm = None /\ Top = Search
Picking    == Listens /\ ui.confirm = None /\ Top = Intake /\ ui.picker /\ ui.typing = None
Typing     == Listens /\ ui.confirm = None /\ Top # Search /\ ui.typing # None
Plain      == /\ Listens /\ ui.confirm = None /\ Top # Search /\ ui.typing = None
              /\ ~(Top = Intake /\ ui.picker)

Data == UNCHANGED <<queue, precedents, promise, chosen>>

-----------------------------------------------------------------------------
\* The needs-you queue

\* bridgePermissionRequest: only while Helm is open; otherwise the backend
\* draws a dialog of its own.
Bridge(e) ==
    /\ ui.open /\ promise[e] = Unasked
    /\ promise' = [promise EXCEPT ![e] = Waiting]
    /\ queue' = Append(queue, e)
    /\ UNCHANGED <<precedents, chosen, world, ui>>

\* Mutant: the subscriber takes the first decision recorded.
RecoveredMutant(e, given) == Head(given)[2]

\* The option the subscriber recovers from the precedents: the first one that has
\* the text recorded, which is the one decided on when all texts differ, as they
\* do in every request made (cmux/register.ts, workflows/register.ts).
Recovered(e, given) == given[SelectInSeq(given, LAMBDA p : p[1] = e)][2]

\* commitOption's continuation, over the queue as it is after the decision
Advanced(left) == IF left # <<>> THEN Replaced(Card(Head(left))) ELSE Popped

\* commitOption, HelmStore.decide and the bridge's subscriber; a request is
\* queued once.
Decide(e, option) ==
    /\ queue' = RemoveFirst(queue, e)
    /\ precedents' = Append(precedents, <<e, option>>)
    /\ promise' = [promise EXCEPT ![e] = Recovered(e, precedents')]
    /\ chosen' = [chosen EXCEPT ![e] = option]
    /\ ui' = [ui EXCEPT !.confirm = None, !.stack = Advanced(queue')]
    /\ UNCHANGED world

\* nextNeedsYouId: the first request, or the one behind the card shown.
NextNeedsYou(l, current) ==
    l[(SelectInSeq(l, LAMBDA x : Card(x) = current) % Len(l)) + 1]

TriageWalk ==
    /\ Plain \/ Searching
    /\ queue # <<>>
    /\ Show(Walked(NextNeedsYou(queue, Top)))
    /\ Data /\ UNCHANGED world

\* "[" and "]" on a card
CycleEscalation(step) ==
    /\ Plain /\ Top[1] = "escalation" /\ queue # <<>>
    /\ LET i == SelectInSeq(queue, LAMBDA x : Card(x) = Top)
           at == IF i = 0 THEN 1 ELSE i
       IN  Show(Replaced(Card(queue[((at - 1 + step + Len(queue)) % Len(queue)) + 1])))
    /\ Data /\ UNCHANGED world

\* "1" to "9" on a card: every bridged option asks for a confirmation.
DecideOption(option) ==
    /\ Plain /\ Top[1] = "escalation"
    /\ \E i \in DOMAIN queue : Card(queue[i]) = Top
    /\ Asking(<<Top[2], option>>)
    /\ Data /\ UNCHANGED world

-----------------------------------------------------------------------------
\* The window and its modes

\* /helm: a new HelmApp; the digest is shown above home after an absence.
OpenHelm(away) ==
    /\ ~ui.open
    /\ ui' = [Closed EXCEPT !.open = TRUE,
                            !.stack = IF away THEN <<Home, Digest>> ELSE <<Home>>]
    /\ Data /\ UNCHANGED world

Quit ==
    /\ ui.open /\ ui' = Closed
    /\ Data /\ UNCHANGED world

\* A command that hands a prompt to the agent closes the window.
Handoff == ui' = Closed

TogglePopover ==
    /\ Plain \/ Searching \/ (ui.open /\ ui.popover)
    /\ ui' = [ui EXCEPT !.popover = ~@]
    /\ Data /\ UNCHANGED world

Ascend ==
    /\ Plain \/ Searching
    /\ Show(Popped)
    /\ Data /\ UNCHANGED world

Refuse ==
    /\ Confirming
    /\ ui' = [ui EXCEPT !.confirm = None]
    /\ Data /\ UNCHANGED world

\* "y": the action was fixed when the confirmation was asked.
Accept ==
    /\ Confirming
    /\ LET act == ui.confirm
           done == [ui EXCEPT !.confirm = None]
       IN  IF act \in Asks \X Indices THEN Decide(act[1], act[2])
           ELSE /\ Data
                /\ CASE act[1] = "discardGoal" ->
                            /\ world' = [world EXCEPT !.intake = "none"]
                            /\ ui' = [done EXCEPT !.stack = Popped]
                     [] act[1] = "discardLoop" ->
                            /\ world' = [world EXCEPT !.draft = FALSE]
                            /\ ui' = [done EXCEPT !.stack = Popped]
                     [] act[1] = "archive" ->
                            /\ world' = [world EXCEPT !.goal = "archived"]
                            /\ ui' = [done EXCEPT !.stack = Popped]
                     [] act[1] = "apply" ->   \* refused when nothing is proposed
                            /\ UNCHANGED world
                            /\ ui' = IF precedents = <<>> THEN done ELSE Closed
                     [] OTHER -> Handoff /\ UNCHANGED world

-----------------------------------------------------------------------------
\* Search

OpenSearch ==
    /\ Plain /\ Open(Search)
    /\ Data /\ UNCHANGED world

\* Enter on a result; with no result the lookup throws, and handleInput's
\* catch closes the window.
OpenSearchResult(s) ==
    /\ Searching
    /\ IF s = None THEN ui' = Closed ELSE s \in Details /\ Open(s)
    /\ Data /\ UNCHANGED world

-----------------------------------------------------------------------------
\* The prompt

\* startTyping, "i", "e" and "?": the intent is bound to the screen.
StartTyping ==
    /\ Plain
    /\ ui' = [ui EXCEPT !.typing = Top]
    /\ Data /\ UNCHANGED world

CancelTyping ==
    /\ Typing /\ ui' = [ui EXCEPT !.typing = None]
    /\ Data /\ UNCHANGED world

\* submitBuffer, by the screen the intent was bound to
SubmitBuffer ==
    /\ Typing
    /\ Data
    /\ LET sent == [ui EXCEPT !.typing = None]
       IN  CASE ui.typing = Home ->
                    /\ world' \in {[world EXCEPT !.intake = q] : q \in {"asking", "ready"}}
                    /\ Len(ui.stack) < MaxDepth
                    /\ ui' = [sent EXCEPT !.stack = Pushed(Intake)]
             [] ui.typing = Intake /\ ui.picker ->
                    UNCHANGED world /\ ui' = [sent EXCEPT !.picker = FALSE]
             [] ui.typing = Intake /\ ~ui.picker ->
                    /\ world' \in {[world EXCEPT !.intake = q] : q \in {"asking", "ready"}}
                    /\ ui' = sent
             [] ui.typing = Builder -> UNCHANGED world /\ ui' = sent
             [] ui.typing[1] = "escalation" -> UNCHANGED world /\ ui' = sent
             [] OTHER -> UNCHANGED world /\ Handoff

-----------------------------------------------------------------------------
\* The keys of each screen

\* Enter on home, "1" to "9" on home: the row the selection points at.
HomeRows ==
    {Card(queue[i]) : i \in DOMAIN queue}
    \cup {<<"drillin", "workflow">>, <<"loopDrillin", "loop">>}
    \cup (IF world.goal = "complete" THEN {<<"closeout", "goal">>} ELSE {})

DescendHome(s) ==
    /\ Plain /\ Top = Home /\ s \in HomeRows
    /\ Open(s)
    /\ Data /\ UNCHANGED world

\* Enter elsewhere
Below ==
    CASE Top[1] = "drillin" -> {<<"session", "worktree">>}
      [] Top[1] = "loopDrillin" -> {Builder}
      [] Top[1] = "escalation" -> {<<"session", "worktree">>, Viewer}
      [] OTHER -> {}

Descend(s) ==
    /\ Plain /\ s \in Below
    /\ Open(s)
    /\ Data
    /\ world' = IF s = Builder THEN [world EXCEPT !.draft = TRUE] ELSE world

DigestEnter ==
    /\ Plain /\ Top = Digest
    /\ Show(Popped)
    /\ Data /\ UNCHANGED world

\* "d" on the digest
DigestToDecisions ==
    /\ Plain /\ Top = Digest
    /\ Show(IF queue = <<>> THEN Popped ELSE Walked(NextNeedsYou(queue, None)))
    /\ Data /\ UNCHANGED world

\* "n" and "N" on home
NewDraft(s) ==
    /\ Plain /\ Top = Home /\ s \in {Intake, Builder}
    /\ Open(s)
    /\ world' = IF s = Intake THEN [world EXCEPT !.intake = "asking"]
                ELSE [world EXCEPT !.draft = TRUE]
    /\ Data

\* "g": a no-op while questions are open.
IntakeGo ==
    /\ Plain /\ Top = Intake /\ world.intake = "ready"
    /\ world' = [world EXCEPT !.intake = "none"]
    /\ Show(Popped)
    /\ Data

\* "e" on an intake, then a line of the plan
PickPlanLine ==
    /\ Plain /\ Top = Intake
    /\ ui' = [ui EXCEPT !.picker = TRUE]
    /\ Data /\ UNCHANGED world

EditPlanLine ==
    /\ Picking /\ ui' = [ui EXCEPT !.typing = Top]
    /\ Data /\ UNCHANGED world

LeavePicker ==
    /\ Picking /\ ui' = [ui EXCEPT !.picker = FALSE]
    /\ Data /\ UNCHANGED world

\* "x", "a", "r" and "m": what asks before it acts
AskedBy(screen) ==
    CASE screen = Intake -> {<<"discardGoal", "draft">>}
      [] screen = Builder -> {<<"discardLoop", "loop">>}
      [] screen[1] = "closeout" -> {<<"archive", "goal">>, <<"apply", "goal">>}
      [] screen[1] = "drillin" -> {<<"reassign", "worktree">>}
      [] screen[1] = "session" -> {<<"merge", "worktree">>}
      [] OTHER -> {}

Confirm(act) ==
    /\ Plain /\ act \in AskedBy(Top)
    /\ Asking(act)
    /\ Data /\ UNCHANGED world

\* "r" on a closeout, "t" on a drill-in and "l" on the digest show a document.
Document ==
    /\ Plain /\ Top[1] \in {"closeout", "drillin", "digest"}
    /\ Open(Viewer)
    /\ Data /\ UNCHANGED world

\* acceptSchedule: after a passed trial
AcceptSchedule ==
    /\ Plain /\ Top = Builder /\ world.draft
    /\ Show(Popped)
    /\ Data /\ UNCHANGED world

GoalCompletes ==
    /\ world.goal = "running" /\ world' = [world EXCEPT !.goal = "complete"]
    /\ Data /\ UNCHANGED ui

-----------------------------------------------------------------------------
Next ==
    \/ \E e \in Asks : Bridge(e)
    \/ TriageWalk \/ \E step \in {-1, 1} : CycleEscalation(step)
    \/ \E option \in Indices : DecideOption(option)
    \/ \E away \in BOOLEAN : OpenHelm(away)
    \/ Quit \/ TogglePopover \/ Ascend \/ Refuse \/ Accept
    \/ OpenSearch \/ \E s \in Details \cup {None} : OpenSearchResult(s)
    \/ StartTyping \/ CancelTyping \/ SubmitBuffer
    \/ \E s \in Screens : DescendHome(s) \/ Descend(s) \/ NewDraft(s)
    \/ DigestEnter \/ DigestToDecisions \/ IntakeGo
    \/ PickPlanLine \/ EditPlanLine \/ LeavePicker
    \/ \E act \in Actions : Confirm(act)
    \/ Document \/ AcceptSchedule \/ GoalCompletes

Spec == Init /\ [][Next]_svars

-----------------------------------------------------------------------------
\* A request is answered with the option its own card was confirmed with,
\* although the answer is recovered from the decision record and other cards
\* are decided, cycled through and walked over while it waits.
AnsweredAsChosen ==
    \A e \in Asks : promise[e] \in Indices => promise[e] = chosen[e]

=============================================================================
