----------------------------- MODULE ClaudeTurn -----------------------------
(***************************************************************************)
(* The turns of ONE Claude session managed through cmux: the event tail    *)
(* (cmux/event-tail.ts) and ClaudeSessionController.runPrompt() with its   *)
(* recovery from the transcript (cmux/session-controller.ts).              *)
(*                                                                         *)
(* cmux numbers the events it logs.  A restart gives it a new boot id,     *)
(* kills Claude and may roll the log back; old events may be evicted.  The *)
(* tail reads the log over a connection that can drop, resumes from a      *)
(* cursor that may lag behind what it delivered, and is told on            *)
(* reconnecting whether events may have been lost.  Events of other        *)
(* sessions are left out: they only move the numbers.  Claude, cmux and    *)
(* the hook store are external: they are modelled as the repository's      *)
(* cmux-restart-durability-results.md, helm/docs/cmux.md and the comments  *)
(* of the two files describe them.  Claude may ask for a permission in the *)
(* middle of a turn; a restarted cmux resumes the session in its restored  *)
(* surface.                                                                *)
(*                                                                         *)
(* A step of the turn is what runPrompt() does between two awaits; a frame *)
(* of the stream is handled in one step, which settles the waiter but does *)
(* not yet run the turn that awaits it.                                    *)
(***************************************************************************)
EXTENDS Naturals, Sequences

CONSTANTS
    MaxTurns,       \* bound: prompts sent to the session
    MaxBoots,       \* bound: boots of cmux
    MaxDrops,       \* bound: losses of the connection alone
    MaxLag,         \* bound: delivered events the cursor may be behind
    Verbose         \* bound: prompts Claude may write two texts for

Kinds  == {"submit", "stop", "closed"}
Turns  == 1 .. MaxTurns
Boots  == 1 .. MaxBoots
Frames == [kind : Kinds, boot : Boots, seq : Nat \ {0}, turn : 0 .. MaxTurns]
Texts  == [turn : Turns, last : BOOLEAN]

(* What a waiter waits for, and what it can be told.                       *)
Fences  == [seq : Nat, boot : Boots]
Waits   == [want : {"submit", "stop"}, after : Nat, boot : Boots]
Reports == [kind : {"epoch", "gap", "timeout"}]
NoWait  == [want |-> "nothing"]
NoAnswer == [kind |-> "nothing"]

VARIABLES
    boot, log, oldest,              \* cmux: boot id, events, first one retained
    open,                           \* the surface exists
    link, pos, gap, drops,          \* connection, its position, its gap flag
    bootId, latestSeq, history,     \* the tail
    wait, answer,                   \* the turn's waiter and what it was told
    claude, hook, lifecycle,        \* Claude, pending effects of its hook, hook store
    transcript,                     \* texts Claude has written
    turn, pc, fence, start, record,   \* runPrompt()
    result,                         \* what the last turn returned
    unheard                         \* history: a report the turn could not hear

cmuxVars   == <<boot, log, oldest, open>>
linkVars   == <<link, pos, gap, drops>>
tailVars   == <<bootId, latestSeq, history>>
claudeVars == <<claude, hook, lifecycle, transcript>>
turnVars   == <<turn, pc, fence, start, record, result>>
vars == <<cmuxVars, linkVars, tailVars, wait, answer, claudeVars, turnVars, unheard>>

TurnState == {"ready", "offset", "submitting", "sent", "awaitSubmit", "submitted",
              "awaitStop", "settling", "completing", "recovering", "rereading",
              "recovered", "failed"}

ClaudeState == {"idle", "prompted", "submitHook", "working", "asking", "granted",
                "stopHook", "queued", "dead"}

(* agentLifecycle, and those that count as ready for input.                *)
Lifecycles       == {"idle", "running", "needsInput"}
InputReadyStates == {"idle", "needsInput"}

TypeOK ==
    /\ boot \in Boots /\ oldest \in Nat \ {0} /\ open \in BOOLEAN
    /\ log \in Seq([kind : Kinds, boot : Boots, turn : 0 .. MaxTurns])
    /\ link \in {"down", "greeting", "up"}
    /\ pos \in Nat /\ gap \in BOOLEAN /\ drops \in Nat
    /\ bootId \in Boots /\ latestSeq \in Nat /\ history \in Seq(Frames)
    /\ wait \in Waits \cup {NoWait}
    /\ answer \in Frames \cup Reports \cup {NoAnswer}
    /\ claude \in ClaudeState
    /\ hook \subseteq {"event", "record"}
    /\ lifecycle \in Lifecycles
    /\ transcript \in Seq(Texts)
    /\ turn \in 0 .. MaxTurns /\ pc \in TurnState
    /\ fence \in Fences /\ start \in Nat
    /\ record \in Lifecycles \cup {"none"}
    /\ result \in [how : {"none", "completed", "recovered"}, output : Seq(Texts)]
    /\ unheard \in BOOLEAN
    /\ wait # NoWait => answer = NoAnswer /\ pc \in {"awaitSubmit", "awaitStop"}

(* The session is registered and the tail has been acknowledged.           *)
Init ==
    /\ boot = 1 /\ log = <<>> /\ oldest = 1 /\ open = TRUE
    /\ link = "up" /\ pos = 0 /\ gap = FALSE /\ drops = 0
    /\ bootId = 1 /\ latestSeq = 0 /\ history = <<>>
    /\ wait = NoWait /\ answer = NoAnswer
    /\ claude = "idle" /\ hook = {} /\ lifecycle = "idle" /\ transcript = <<>>
    /\ turn = 0 /\ pc = "ready" /\ fence = [seq |-> 0, boot |-> 1]
    /\ start = 0 /\ record = "none"
    /\ result = [how |-> "none", output |-> <<>>]
    /\ unheard = FALSE

Greatest(a, b) == IF a > b THEN a ELSE b
Least(a, b)    == IF a < b THEN a ELSE b

-----------------------------------------------------------------------------
(* cmux and Claude, external.  Bound: what befalls cmux and the connection *)
(* once no turn is in flight or to come is not explored.                   *)

InFlight == pc \notin {"ready", "recovered", "failed"}
Watched  == InFlight \/ (pc = "ready" /\ turn < MaxTurns)

Logs(kind, n) == log' = Append(log, [kind |-> kind, boot |-> boot, turn |-> n])

(* A restart, graceful or not: the end of the log may be lost with it, and *)
(* the hook store be rolled back as well.                                  *)
CmuxRestarts ==
    /\ Watched
    /\ boot < MaxBoots
    /\ boot' = boot + 1
    /\ \E durable \in 0 .. Len(log) :
         /\ log' = SubSeq(log, 1, durable)
         /\ oldest' = Least(oldest, durable + 1)
         /\ lifecycle' \in IF durable < Len(log) THEN {lifecycle, "idle"} ELSE {lifecycle}
    /\ claude' = "dead" /\ hook' = {}
    /\ link' = "down"
    /\ UNCHANGED <<open, pos, gap, drops, tailVars, wait, answer, transcript, turnVars,
                   unheard>>

(* After a restart cmux resumes the session in the surface it restores,    *)
(* and Claude registers again: it waits for input and goes on with no      *)
(* turn of before.                                                         *)
ClaudeResumes ==
    /\ Watched
    /\ open /\ claude = "dead"
    /\ claude' = "idle"
    /\ lifecycle' \in {lifecycle, "idle"}
    /\ UNCHANGED <<cmuxVars, linkVars, tailVars, wait, answer, hook, transcript, turnVars,
                   unheard>>

UserCloses ==
    /\ Watched
    /\ open
    /\ open' = FALSE
    /\ Logs("closed", 0)
    /\ claude' = "dead" /\ hook' = {}
    /\ UNCHANGED <<boot, oldest, linkVars, tailVars, wait, answer, lifecycle, transcript,
                   turnVars, unheard>>

ClaudeAccepts ==
    /\ claude = "prompted"
    /\ claude' = "submitHook" /\ hook' = {"event", "record"}
    /\ UNCHANGED <<cmuxVars, linkVars, tailVars, wait, answer, lifecycle, transcript,
                   turnVars, unheard>>

(* A prompt typed while the Stop hook runs is queued until it has.         *)
AfterHook == IF claude = "submitHook" THEN "working"
             ELSE IF claude = "queued" THEN "prompted" ELSE "idle"

(* A hook logs its event and updates the hook store: that of Stop in       *)
(* either order, that of UserPromptSubmit the store first, so that an idle *)
(* record always means that Stop was the last hook of the session.         *)
HookLogs ==
    /\ "event" \in hook
    /\ claude = "submitHook" => "record" \notin hook
    /\ hook' = hook \ {"event"}
    /\ claude' = IF hook' = {} THEN AfterHook ELSE claude
    /\ Logs(IF claude = "submitHook" THEN "submit" ELSE "stop", turn)
    /\ UNCHANGED <<boot, oldest, open, linkVars, tailVars, wait, answer, lifecycle,
                   transcript, turnVars, unheard>>

HookRecords ==
    /\ "record" \in hook
    /\ hook' = hook \ {"record"}
    /\ claude' = IF hook' = {} THEN AfterHook ELSE claude
    /\ lifecycle' = IF claude = "submitHook" THEN "running" ELSE "idle"
    /\ UNCHANGED <<cmuxVars, linkVars, tailVars, wait, answer, transcript, turnVars,
                   unheard>>

(* Claude asks for a permission; the record says that it needs input until *)
(* the answer, or as long as nothing else writes it.                       *)
(* Bound: one permission a turn, while the turn is in flight.              *)
ClaudeAsks ==
    /\ InFlight
    /\ claude = "working"
    /\ claude' = "asking" /\ lifecycle' = "needsInput"
    /\ UNCHANGED <<cmuxVars, linkVars, tailVars, wait, answer, hook, transcript, turnVars,
                   unheard>>

PermissionAnswered ==
    /\ claude = "asking"
    /\ claude' = "granted" /\ lifecycle' \in {"running", "needsInput"}
    /\ UNCHANGED <<cmuxVars, linkVars, tailVars, wait, answer, hook, transcript, turnVars,
                   unheard>>

(* Bound: one text besides the last, before the permission, in some turns. *)
ClaudeWrites ==
    /\ claude = "working" /\ turn \in Verbose
    /\ \A i \in 1 .. Len(transcript) : transcript[i].turn # turn
    /\ transcript' = Append(transcript, [turn |-> turn, last |-> FALSE])
    /\ UNCHANGED <<cmuxVars, linkVars, tailVars, wait, answer, claude, hook, lifecycle,
                   turnVars, unheard>>

(* The last text is in the transcript before the Stop hook runs.           *)
ClaudeFinishes ==
    /\ claude \in {"working", "granted"}
    /\ transcript' = Append(transcript, [turn |-> turn, last |-> TRUE])
    /\ claude' = "stopHook" /\ hook' = {"event", "record"}
    /\ UNCHANGED <<cmuxVars, linkVars, tailVars, wait, answer, lifecycle, turnVars,
                   unheard>>

-----------------------------------------------------------------------------
(* The connection and the tail.                                            *)

(* A connection lost before its ack moves no cursor: it counts as one not  *)
(* made yet.                                                               *)
Drop ==
    /\ Watched
    /\ link = "up"
    /\ drops < MaxDrops
    /\ drops' = drops + 1
    /\ link' = "down"
    /\ UNCHANGED <<cmuxVars, pos, gap, tailVars, wait, answer, claudeVars, turnVars,
                   unheard>>

(* Retention drops events while nobody reads them.                         *)
Evict ==
    /\ Watched
    /\ link = "down"
    /\ oldest <= Len(log)
    /\ oldest' = Len(log) + 1
    /\ UNCHANGED <<boot, log, open, linkVars, tailVars, wait, answer, claudeVars,
                   turnVars, unheard>>

(* spawn(): cmux resumes from the cursor, or from what it has left.        *)
Connect ==
    /\ link = "down"
    /\ link' = "greeting"
    /\ \E cursor \in (IF pos > MaxLag THEN pos - MaxLag ELSE 0) .. pos :
         /\ gap' = (cursor > Len(log) \/ cursor + 1 < oldest)
         /\ pos' = Least(Len(log), Greatest(cursor, oldest - 1))
    /\ UNCHANGED <<cmuxVars, drops, tailVars, wait, answer, claudeVars, turnVars, unheard>>

(* The waiter is told something; a report nobody listens for is lost to a  *)
(* turn in flight.                                                         *)
Tell(what) ==
    /\ answer' = IF wait # NoWait /\ what # NoAnswer THEN what ELSE answer
    /\ wait' = IF what # NoAnswer THEN NoWait ELSE wait
    /\ unheard' = (unheard \/ (wait = NoWait /\ InFlight /\ what \in Reports))

Epoch == [kind |-> "epoch"]
Gap   == [kind |-> "gap"]

(* Mutant: the history of the old boot stays.                              *)
KeptForEver(b) == history

(* observeBootId(): what the history keeps when a frame of boot b arrives. *)
Kept(b) == IF b = bootId THEN history ELSE <<>>

(* An epoch change is told to every waiter of another boot.                *)
ChangeReport(b) == IF b # bootId /\ (wait = NoWait \/ wait.boot # b) THEN Epoch ELSE NoAnswer

(* Mutant: a gap of the same boot is not reported.                         *)
AckReportsEpochOnly == ChangeReport(boot)

AckReport == IF ChangeReport(boot) # NoAnswer THEN Epoch ELSE IF gap THEN Gap ELSE NoAnswer

Ack ==
    /\ link = "greeting"
    /\ link' = "up"
    /\ bootId' = boot /\ history' = Kept(boot)
    /\ latestSeq' = IF boot = bootId THEN Greatest(latestSeq, Len(log)) ELSE Len(log)
    /\ Tell(AckReport)
    /\ UNCHANGED <<cmuxVars, pos, gap, drops, claudeVars, turnVars>>

Heartbeat ==
    /\ link = "up"
    /\ <<boot, Len(log)>> # <<bootId, latestSeq>>
    /\ bootId' = boot /\ history' = Kept(boot)
    /\ latestSeq' = Greatest(IF boot = bootId THEN latestSeq ELSE 0, Len(log))
    /\ Tell(ChangeReport(boot))
    /\ UNCHANGED <<cmuxVars, linkVars, claudeVars, turnVars>>

Matches(e, w) == e.seq > w.after /\ e.boot = w.boot /\ e.kind \in {w.want, "closed"}

(* What a waiter's listeners make of an event frame.                       *)
Heard(e) ==
    IF \/ ChangeReport(e.boot) # NoAnswer
       \/ wait # NoWait /\ e.seq > wait.after /\ e.boot # wait.boot
    THEN Epoch
    ELSE IF wait # NoWait /\ Matches(e, wait) THEN e ELSE NoAnswer

EventFrame ==
    LET seq == pos + 1
        e   == [kind |-> log[seq].kind, boot |-> log[seq].boot, seq |-> seq,
                turn |-> log[seq].turn]
    IN
    /\ link = "up"
    /\ pos < Len(log)
    /\ pos' = seq
    /\ bootId' = e.boot
    /\ latestSeq' = Greatest(IF e.boot = bootId THEN latestSeq ELSE 0, seq)
    /\ history' = Append(Kept(e.boot), e)
    /\ Tell(Heard(e))
    /\ UNCHANGED <<cmuxVars, link, gap, drops, claudeVars, turnVars>>

-----------------------------------------------------------------------------
(* runPrompt().                                                            *)

Step(from, to) == pc = from /\ pc' = to

Elsewhere == UNCHANGED <<cmuxVars, linkVars, tailVars, claudeVars>>

(* The state is checked and the end of the transcript is read.             *)
BeginTurn ==
    /\ Step("ready", "offset")
    /\ turn < MaxTurns
    /\ turn' = turn + 1
    /\ start' = Len(transcript)
    /\ result' = [how |-> "none", output |-> <<>>]
    /\ unheard' = FALSE
    /\ UNCHANGED <<wait, answer, fence, record>> /\ Elsewhere

(* Mutant: events from before the prompt count.                            *)
FenceFromStart ==
    /\ Step("offset", "submitting")
    /\ fence' = [seq |-> 0, boot |-> bootId]
    /\ UNCHANGED <<wait, answer, turn, start, record, result, unheard>> /\ Elsewhere

TakeFence ==
    /\ Step("offset", "submitting")
    /\ fence' = [seq |-> latestSeq, boot |-> bootId]
    /\ UNCHANGED <<wait, answer, turn, start, record, result, unheard>> /\ Elsewhere

(* A prompt to a surface whose Claude was killed is read by nobody.        *)
SendPrompt ==
    /\ Step("submitting", "sent")
    /\ open
    /\ claude' = IF claude = "idle" THEN "prompted"
                 ELSE IF claude = "stopHook" THEN "queued" ELSE claude
    /\ unheard' = (unheard \/ claude = "dead")
    /\ UNCHANGED <<wait, answer, turn, start, fence, record, result, hook, lifecycle,
                   transcript, cmuxVars, linkVars, tailVars>>

SendFails ==
    /\ Step("submitting", "failed")
    /\ UNCHANGED <<wait, answer, turn, start, fence, record, result, unheard>>
    /\ Elsewhere

(* waitFor(): the first match of the history, or a waiter.                 *)
WaitFor(want) ==
    LET w     == [want |-> want, after |-> fence.seq, boot |-> fence.boot]
        found == {i \in 1 .. Len(history) : Matches(history[i], w)}
    IN
    /\ IF found = {} THEN wait' = w /\ UNCHANGED answer
       ELSE \E i \in found : /\ \A j \in found : i <= j
                             /\ answer' = history[i] /\ UNCHANGED wait
    /\ UNCHANGED <<turn, start, fence, record, result, unheard>> /\ Elsewhere

AwaitSubmit == Step("sent", "awaitSubmit") /\ WaitFor("submit")
AwaitStop   == Step("submitted", "awaitStop") /\ WaitFor("stop")

(* The timeout of a wait, or the abort signal of the caller.               *)
GiveUp ==
    /\ wait # NoWait
    /\ wait' = NoWait /\ answer' = [kind |-> "timeout"]
    /\ UNCHANGED <<turnVars, unheard>> /\ Elsewhere

SubmitSeen ==
    /\ Step("awaitSubmit", "submitted")
    /\ answer.kind = "submit"
    /\ fence' = [seq |-> answer.seq, boot |-> answer.boot]
    /\ answer' = NoAnswer
    /\ UNCHANGED <<wait, turn, start, record, result, unheard>> /\ Elsewhere

StopSeen ==
    /\ Step("awaitStop", "settling")
    /\ answer.kind = "stop"
    /\ answer' = NoAnswer
    /\ UNCHANGED <<wait, turn, start, fence, record, result, unheard>> /\ Elsewhere

(* The session was closed, or a wait ended in an error no turn survives.   *)
TurnFails ==
    /\ \/ Step("awaitSubmit", "failed") /\ answer.kind \in {"closed", "timeout", "epoch", "gap"}
       \/ Step("awaitStop", "failed") /\ answer.kind \in {"closed", "timeout"}
    /\ answer' = NoAnswer
    /\ UNCHANGED <<wait, turn, start, fence, record, result, unheard>> /\ Elsewhere

TurnInterrupted ==
    /\ Step("awaitStop", "recovering")
    /\ answer.kind \in {"epoch", "gap"}
    /\ answer' = NoAnswer
    /\ UNCHANGED <<wait, turn, start, fence, record, result, unheard>> /\ Elsewhere

(* recoverTurnFromTranscript(): the hook store is read, then the output.   *)
RecoverReadsRecord ==
    /\ Step("recovering", "rereading")
    /\ record' = lifecycle
    /\ UNCHANGED <<wait, answer, turn, start, fence, result, unheard>> /\ Elsewhere

Output == SubSeq(transcript, start + 1, Len(transcript))

(* Mutant: any output counts, whatever the lifecycle.                      *)
RecoverableByOutput == Output # <<>>

Recoverable == Output # <<>> /\ record \in InputReadyStates

RecoverReadsOutput ==
    /\ IF Recoverable
         THEN Step("rereading", "recovered") /\ result' = [how |-> "recovered", output |-> Output]
         ELSE Step("rereading", "failed") /\ UNCHANGED result
    /\ UNCHANGED <<wait, answer, turn, start, fence, record, unheard>> /\ Elsewhere

(* waitForInputReady() and the settle window.                              *)
InputReady ==
    /\ Step("settling", "completing")
    /\ lifecycle \in InputReadyStates
    /\ UNCHANGED <<wait, answer, turn, start, fence, record, result, unheard>>
    /\ Elsewhere

SettleTimesOut ==
    /\ Step("settling", "failed")
    /\ UNCHANGED <<wait, answer, turn, start, fence, record, result, unheard>>
    /\ Elsewhere

Complete ==
    /\ Step("completing", "ready")
    /\ result' = [how |-> "completed", output |-> Output]
    /\ UNCHANGED <<wait, answer, turn, start, fence, record, unheard>> /\ Elsewhere

-----------------------------------------------------------------------------
TurnStep ==
    \/ TakeFence \/ SendPrompt \/ SendFails \/ AwaitSubmit \/ AwaitStop
    \/ SubmitSeen \/ StopSeen \/ TurnFails \/ TurnInterrupted
    \/ RecoverReadsRecord \/ RecoverReadsOutput \/ InputReady \/ Complete

ClaudeStep == ClaudeAccepts \/ HookLogs \/ HookRecords \/ PermissionAnswered \/ ClaudeFinishes

TailStep == Connect \/ Ack \/ EventFrame

Next ==
    \/ TurnStep \/ ClaudeStep \/ TailStep
    \/ BeginTurn \/ GiveUp \/ SettleTimesOut
    \/ Heartbeat \/ Drop \/ Evict
    \/ CmuxRestarts \/ ClaudeResumes \/ UserCloses \/ ClaudeAsks \/ ClaudeWrites

(* pi runs what it awaits, the tail reconnects and is served, and Claude   *)
(* gets on with its turn: a permission it asks for is answered, by the     *)
(* broker's own timeout if by nobody else.  Nothing is assumed of the      *)
(* timeouts of the turn, nor that a killed session is resumed.             *)
Fairness == WF_vars(TurnStep) /\ WF_vars(TailStep) /\ WF_vars(ClaudeStep)

Spec     == Init /\ [][Next]_vars
FairSpec == Spec /\ Fairness

-----------------------------------------------------------------------------
(* The history a new waiter searches belongs to the boot whose fences are  *)
(* being taken, and no event of it is above the fence the next turn would  *)
(* take: a prompt is never answered by what was delivered before it.       *)
TailIsOneEpoch ==
    \A i \in 1 .. Len(history) :
        history[i].boot = bootId /\ history[i].seq <= latestSeq

(* What a turn returns is what the transcript holds of its own prompt from *)
(* the first text on, and no text of another.  It is all of it, the last   *)
(* text included, when the turn completed, and when it was recovered in    *)
(* the boot its prompt was submitted in, from a record that waits for no   *)
(* permission: it is idle, and only the Stop hook writes that then.  See   *)
(* RecoveredIsWhole for the others.                                        *)
Whole(output) == \E i \in 1 .. Len(output) : output[i].last

ResultIsTheTurns ==
    result.how # "none" =>
        /\ \E n \in 0 .. Len(transcript) :
              /\ result.output = SubSeq(transcript, n + 1, n + Len(result.output))
              /\ \A i \in 1 .. Len(transcript) : transcript[i].turn = turn <=> i > n
        /\ result.how = "completed" \/ (record # "needsInput" /\ boot = fence.boot)
              => Whole(result.output)

(* recoverTurnFromTranscript() says that with output and a record ready    *)
(* for input the turn is complete, since "the Stop hook writes that".  But *)
(* a pending permission, a record of before and a resumed session are      *)
(* ready for input, too.                                                   *)
RecoveredIsWhole == result.how = "recovered" => Whole(result.output)

Waiting == wait # NoWait

(* The README of the extension: a report that comes while a turn is in     *)
(* flight aborts it, so that no turn waits for an event that was lost.     *)
FenceAborts == Waiting ~> ~Waiting

(* A wait ends without its timeout, unless a report came while the turn    *)
(* had no waiter registered or its prompt went to a killed Claude.         *)
FenceWakes == Waiting ~> (~Waiting \/ unheard)
=============================================================================
