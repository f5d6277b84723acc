------------------------------- MODULE MCTurn -------------------------------
(***************************************************************************)
(* ClaudeTurn for its runs.  Specification and properties have names of    *)
(* their own, so that ClaudeProofs can speak of a session's turns and of   *)
(* its manager (ClaudeFleet) in one module.                                *)
(***************************************************************************)
EXTENDS Naturals

CONSTANTS MaxTurns, MaxBoots, MaxDrops, MaxLag, Verbose

ASSUME TurnBounds == /\ MaxTurns \in Nat /\ MaxBoots \in Nat \ {0}
                     /\ MaxDrops \in Nat /\ MaxLag \in Nat

VARIABLES boot, log, oldest, open, link, pos, gap, drops, bootId, latestSeq, history,
          wait, answer, claude, hook, lifecycle, transcript, turn, pc, fence, start,
          record, result, unheard

Turn == INSTANCE ClaudeTurn

TurnSpec     == Turn!Spec
FairTurnSpec == Turn!FairSpec

-----------------------------------------------------------------------------
\* The searched history is of one epoch and lies below the next fence.
TailIsOneEpoch == Turn!TailIsOneEpoch

\* A turn returns texts of its own prompt alone, and all of them when it
\* completed or was recovered in one boot with no permission pending.
ResultIsTheTurns == Turn!ResultIsTheTurns

\* A wait ends without its timeout, unless a report came while no waiter was
\* registered or the prompt went to a killed Claude.
FenceWakes == Turn!FenceWakes
=============================================================================
