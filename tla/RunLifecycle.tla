---------------------------- MODULE RunLifecycle ----------------------------
(***************************************************************************)
(* What a user of workflow runs relies on, stated on the run file alone: a *)
(* run is launched once; while it runs, agent results only accumulate; it  *)
(* leaves "running" keeping them; a paused or failed run can run again; a  *)
(* completed or stopped run is final; only removing the run forgets it.    *)
(*                                                                         *)
(* WorkflowManager implements this specification (FollowsLifecycle there)  *)
(* when one process has the project open and scripts await their calls one *)
(* at a time.                                                              *)
(***************************************************************************)
CONSTANT Results        \* the agent results a run can accumulate

VARIABLES status, results

vars == <<status, results>>

Resumable == {"paused", "failed"}
Final     == {"completed", "aborted"}

Init == status = "absent" /\ results = {}

Launch == status = "absent" /\ status' = "running" /\ results' = {}

Record == /\ status = "running"
          /\ \E r \in Results : results' = results \cup {r}
          /\ UNCHANGED status

Leave == /\ status = "running"
         /\ status' \in Resumable \cup Final
         /\ UNCHANGED results

Resume == status \in Resumable /\ status' = "running" /\ UNCHANGED results

Abandon == status = "paused" /\ status' = "aborted" /\ UNCHANGED results

Remove == status # "absent" /\ status' = "absent" /\ results' = {}

Next == Launch \/ Record \/ Leave \/ Resume \/ Abandon \/ Remove

Spec == Init /\ [][Next]_vars
=============================================================================
