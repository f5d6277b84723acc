--------------------------- MODULE WorkflowLaunch ---------------------------
(***************************************************************************)
(* How a workflow gets to run: the workflow tool and the review of its     *)
(* launch (workflow-tool.ts, register.ts), the approvals kept for good     *)
(* (workflow-approval.ts), the workflows saved under a name and their      *)
(* slash commands (workflow-saved.ts, saved-commands.ts).                  *)
(*                                                                         *)
(* One pi session and one workflow name; a script is its version.  Other   *)
(* sessions share the saved workflows and the approvals.  What the manager *)
(* does with a script it is given is WorkflowManager's subject.            *)
(***************************************************************************)
EXTENDS Naturals, FiniteSets

CONSTANTS HasUI,     \* whether the session has a UI
          Versions   \* versions of the script: 1 .. Versions

VARIABLES file,      \* the saved workflow, per place: a version, 0 when absent
          command,   \* the slash command's script, 0 without the command
          approved,  \* approvals.json: the sources allowed for good
          launch     \* the last launch

launchVars == <<file, command, approved, launch>>

Scripts == 1 .. Versions
Places  == {"project", "legacy", "user"}
Sources == {"inline", "path"} \cup Places  \* part of an approval's identity

NoLaunch == [at |-> "idle", source |-> "inline", script |-> 0, shown |-> 0, read |-> {}]

LaunchTypeOK ==
    /\ file \in [Places -> 0 .. Versions]
    /\ command \in 0 .. Versions
    /\ approved \subseteq Sources
    /\ launch \in [at : {"idle", "helm", "dialog", "approving", "go", "tool", "command"},
                   source : Sources, script : 0 .. Versions, shown : 0 .. Versions,
                   read : SUBSET Sources]

-----------------------------------------------------------------------------
\* load and list: the project's file wins over its old place, and that over
\* the user's.
Place == CASE file["project"] # 0 -> "project"
           [] file["project"] = 0 /\ file["legacy"] # 0 -> "legacy"
           [] OTHER -> "user"
Saved == file[Place]

Init ==
    /\ file \in [Places -> 0 .. 1] /\ file["project"] = 0
    /\ command = Saved /\ approved = {} /\ launch = NoLaunch

\* /workflows save and s in the navigator, here or in another session.  A
\* command that exists keeps its script.
Save(v, here) ==
    /\ file' = [file EXCEPT !["project"] = v]
    /\ command' = IF here /\ command = 0 THEN v ELSE command
    /\ UNCHANGED <<approved, launch>>

\* x in the navigator: every file of the name goes, not only the one listed.
DeleteSaved ==
    /\ Saved # 0
    /\ file' = [x \in Places |-> 0]
    /\ UNCHANGED <<command, approved, launch>>

InReview == launch.at \in {"helm", "dialog"}
Busy == InReview \/ launch.at \in {"approving", "go"}

\* The slash command: refused when nothing of its name is stored any more.
RunCommand ==
    /\ command # 0 /\ Saved # 0 /\ ~Busy
    /\ launch' = [NoLaunch EXCEPT !.at = "command", !.script = command, !.shown = Saved]
    /\ UNCHANGED <<file, command, approved>>

\* registerAllSavedWorkflows
Restart ==
    /\ command' = Saved /\ launch' = NoLaunch
    /\ UNCHANGED <<file, approved>>

-----------------------------------------------------------------------------
\* resolveWorkflowSource: the script itself, a path in a trusted project, or
\* the name of a saved workflow.
Resolved(kind) == IF kind = "name" THEN Place ELSE kind

\* workflowLaunchApprovalRequirement, as the session calls it
Required(source, ultra) == HasUI /\ source \notin approved /\ ~ultra

\* execute and reviewLaunch: Helm asks when it is open, a dialog otherwise.
Invoke(kind, v, ultra, helm) ==
    LET source == Resolved(kind)
    IN  /\ ~Busy /\ (kind = "name" => v = Saved)
        /\ launch' = [at |-> IF ~Required(source, ultra) THEN "go"
                             ELSE IF helm THEN "helm" ELSE "dialog",
                      source |-> source, script |-> v, shown |-> v, read |-> {}]
        /\ UNCHANGED <<file, command, approved>>

\* "Edit script", in the dialog only
Edit(v) ==
    /\ launch.at = "dialog" /\ v # launch.shown
    /\ launch' = [launch EXCEPT !.shown = v]
    /\ UNCHANGED <<file, command, approved>>

\* Mutant: an approval starts the script the call came with.
AgreedMutant == [launch EXCEPT !.at = "go", !.read = {}]

\* execute goes on with the script that the review returned.
Agreed == [launch EXCEPT !.at = "go", !.script = launch.shown, !.read = {}]

\* "Run once"
RunOnce ==
    /\ InReview /\ launch' = Agreed
    /\ UNCHANGED <<file, command, approved>>

\* "Always allow": approve reads the file of approvals, ...
Always ==
    /\ InReview /\ launch' = [launch EXCEPT !.at = "approving", !.read = approved]
    /\ UNCHANGED <<file, command, approved>>

\* ... and replaces it, with whatever another session wrote in between.  When
\* it cannot, the call of the tool fails.
Approve(written) ==
    /\ launch.at = "approving"
    /\ approved' = IF written THEN launch.read \cup {launch.source} ELSE approved
    /\ launch' = IF written THEN Agreed ELSE NoLaunch
    /\ UNCHANGED <<file, command>>

\* Another session's approval
OtherApproves(source) ==
    /\ source \notin approved
    /\ approved' = approved \cup {source}
    /\ UNCHANGED <<file, command, launch>>

\* "Deny", escape, or Helm closed over the question.  An abort of the turn
\* does not answer it.
Deny ==
    /\ InReview /\ launch' = NoLaunch
    /\ UNCHANGED <<file, command, approved>>

\* startInBackground, runSync, or resume, which the manager may refuse
Go(refused) ==
    /\ launch.at = "go"
    /\ launch' = IF refused THEN NoLaunch ELSE [launch EXCEPT !.at = "tool"]
    /\ UNCHANGED <<file, command, approved>>

Next ==
    \/ DeleteSaved \/ RunCommand \/ Restart \/ RunOnce \/ Always \/ Deny
    \/ \E source \in Sources : OtherApproves(source)
    \/ \E b \in BOOLEAN : Approve(b) \/ Go(b)
    \/ \E v \in Scripts :
          \/ Edit(v)
          \/ \E here \in BOOLEAN : Save(v, here)
          \/ \E kind \in {"path", "inline", "name"} : \E ultra, helm \in BOOLEAN :
                Invoke(kind, v, ultra, helm)

Spec == Init /\ [][Next]_launchVars

-----------------------------------------------------------------------------
\* workflow-tool.ts:231-232 "so the rest of execute() works from the approved
\* source": what the tool starts is what the operator had on the screen when
\* agreeing, edits included, whatever was saved or approved meanwhile.
RunsWhatWasApproved == launch.at = "tool" => launch.script = launch.shown

\* saved-commands.ts:63-66: a command notices that its workflow was deleted
\* "rather than silently re-running a deleted workflow".
CommandRunsSaved == launch.at = "command" => launch.script = launch.shown
=============================================================================
