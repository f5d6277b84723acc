--------------------------- MODULE WorkflowEditor ---------------------------
(***************************************************************************)
(* "Workflows mode" of the input box (workflows/workflow-editor.ts): the   *)
(* highlight on a trigger word, Backspace that turns it off, the input     *)
(* hook that turns a submitted message into an order to run a workflow,    *)
(* the tool set it changes for that, and the preferences it reads and      *)
(* writes (workflow-settings.ts, workflows-settings-command.ts).           *)
(*                                                                         *)
(* pi's editor is external: an input event changes the text, by one unit   *)
(* or, with a paste or the history, at once.  A submitted message reaches  *)
(* the input hook before the next key.                                     *)
(***************************************************************************)
EXTENDS Naturals, FiniteSets

CONSTANTS Pastes,   \* whether the text changes by more than a unit at once
          Override  \* whether the project has a settings file of its own

VARIABLES text,       \* the editor
          disabled,   \* highlight turned off
          triggered,  \* wasTriggered
          suppressed, \* suppressedKeywordText, "none" when undefined
          mode,       \* keywordTriggerEnabled, effort level
          prefs,      \* the stored preference, per file
          tools,      \* active tools
          saved,      \* savedTools: no set, or one
          queued,     \* messages whose turn has not ended: were they forced?
          sent        \* the last message: was it lit and was it forced?

editorVars == <<text, disabled, triggered, suppressed, mode, prefs, tools, saved,
                queued, sent>>

\* Texts by what matters: part of the trigger word, the word with the cursor
\* right after it, the word and more, something else.
Texts == {"", "part", "word", "word+", "plain"}
Trigger(t) == t \in {"word", "word+"}
Units == {<<"", "part">>, <<"part", "word">>, <<"word", "word+">>, <<"", "plain">>}
OneUnit(s, t) == <<s, t>> \in Units \/ <<t, s>> \in Units

Tool == {"workflow", "bash"}
Files == {"user", "project"}

EditorTypeOK ==
    /\ text \in Texts /\ disabled \in BOOLEAN /\ triggered \in BOOLEAN
    /\ suppressed \in Texts \cup {"none"}
    /\ mode \in [enabled : BOOLEAN, effort : BOOLEAN]
    /\ prefs \in [Files -> {"absent", "on", "off"}]
    /\ tools \subseteq Tool /\ saved \subseteq SUBSET Tool
    /\ queued \in 0 .. 2
    /\ sent \in [lit : BOOLEAN, forced : BOOLEAN]

\* loadWorkflowSettings: the project's file overrides the user's.
Stored(files) == LET f == IF files["project"] = "absent" THEN "user" ELSE "project"
                 IN  files[f] # "off"

Init ==
    /\ text = "" /\ disabled = FALSE /\ triggered = FALSE /\ suppressed = "none"
    /\ \E on \in {"absent", "on", "off"} :
          prefs = [f \in Files |-> IF f = "user" THEN on
                                   ELSE IF Override THEN "on" ELSE "absent"]
    /\ mode = [enabled |-> Stored(prefs), effort |-> FALSE]
    /\ tools = Tool /\ saved = {} /\ queued = 0
    /\ sent = [lit |-> FALSE, forced |-> FALSE]

-----------------------------------------------------------------------------
\* isActive: what the rainbow shows.
Lit == mode.enabled /\ ~disabled /\ Trigger(text)

\* The first Backspace after the word turns the highlight off.
Disarm ==
    /\ Lit /\ text = "word"
    /\ disabled' = TRUE /\ suppressed' = text
    /\ UNCHANGED <<text, triggered, mode, prefs, tools, saved, queued, sent>>

\* Mutant: a suppression is kept until its message is sent.
ClearedMutant(t) == FALSE

\* A suppression ends when the text becomes another one, but not when it is
\* emptied.
Cleared(t) == suppressed # "none" /\ t # "" /\ t # suppressed

\* handleInput, after pi's editor has changed the text
Changed(t) ==
    /\ text' = t
    /\ suppressed' = IF Cleared(t) THEN "none" ELSE suppressed
    /\ disabled' = (disabled /\ ~(Trigger(t) /\ (~triggered \/ Cleared(t))))
    /\ triggered' = Trigger(t)

Type(t) ==
    /\ t # text /\ (Pastes \/ OneUnit(text, t))
    /\ Changed(t)
    /\ UNCHANGED <<mode, prefs, tools, saved, queued, sent>>

\* Enter empties the editor before the input hook is called with its text.
Submit(substantive) ==
    LET kept == suppressed = text
        byWord == mode.enabled /\ ~kept /\ Trigger(text)
        byEffort == ~byWord /\ mode.effort /\ substantive
        forced == byWord \/ byEffort
    IN  /\ text # "" /\ queued < 2
        /\ text' = "" /\ triggered' = FALSE /\ UNCHANGED disabled
        /\ suppressed' = IF kept THEN "none" ELSE suppressed
        /\ queued' = queued + 1
        /\ sent' = [lit |-> Lit \/ byEffort, forced |-> forced]
        /\ IF forced /\ saved = {}
           THEN saved' = {tools} /\ tools' = tools \cup {"workflow"}
           ELSE UNCHANGED <<saved, tools>>
        /\ UNCHANGED <<mode, prefs>>

\* turn_end gives back the tools saved with the first forced message queued.
TurnEnd ==
    /\ queued > 0 /\ queued' = queued - 1
    /\ tools' = IF saved = {} THEN tools ELSE UNION saved
    /\ saved' = {}
    /\ UNCHANGED <<text, disabled, triggered, suppressed, mode, prefs, sent>>

-----------------------------------------------------------------------------
\* saveWorkflowSettingsForCwd: the user's file, and the project's if there is
\* one; a failure to write is reported and leaves the session's value.
Write(on, fails) ==
    prefs' = [f \in Files |-> IF fails \/ <<f, prefs[f]>> = <<"project", "absent">>
                              THEN prefs[f] ELSE IF on THEN "on" ELSE "off"]

\* /workflows-trigger on, off; set and reset clear the suppression as well.
TriggerCommand(on, fails) ==
    /\ text = "" /\ mode' = [mode EXCEPT !.enabled = on]
    /\ suppressed' = "none" /\ Write(on, fails)
    /\ UNCHANGED <<text, disabled, triggered, tools, saved, queued, sent>>

\* The settings hub stores the preference for new sessions only.
Hub(on, fails) ==
    /\ text = "" /\ Write(on, fails)
    /\ UNCHANGED <<text, disabled, triggered, suppressed, mode, tools, saved, queued, sent>>

\* /effort, or its entry in the hub
Effort ==
    /\ text = "" /\ mode' = [mode EXCEPT !.effort = ~@]
    /\ UNCHANGED <<text, disabled, triggered, suppressed, prefs, tools, saved, queued, sent>>

\* Something else changes the active tools between turns.
SetTools(t) ==
    /\ tools' = t /\ queued = 0
    /\ UNCHANGED <<text, disabled, triggered, suppressed, mode, prefs, saved, queued, sent>>

\* pi restarts: the stored preference is what the new session starts with.
NewSession ==
    /\ text' = "" /\ disabled' = FALSE /\ triggered' = FALSE /\ suppressed' = "none"
    /\ mode' = [enabled |-> Stored(prefs), effort |-> FALSE]
    /\ tools' = Tool /\ saved' = {} /\ queued' = 0
    /\ sent' = [lit |-> FALSE, forced |-> FALSE]
    /\ UNCHANGED prefs

Next ==
    \/ Disarm \/ TurnEnd \/ Effort \/ NewSession
    \/ \E t \in Texts : Type(t)
    \/ \E b \in BOOLEAN : Submit(b)
    \/ \E on, fails \in BOOLEAN : TriggerCommand(on, fails) \/ Hub(on, fails)
    \/ \E t \in SUBSET Tool : SetTools(t)

Spec == Init /\ [][Next]_editorVars

-----------------------------------------------------------------------------
\* workflow-editor.ts:9-10 "When the highlight is ON at submit time, the user's
\* message is transformed", and only then (effort mode apart).
HighlightDecides == sent.forced <=> sent.lit
=============================================================================
