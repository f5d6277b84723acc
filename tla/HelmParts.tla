----------------------------- MODULE HelmParts -----------------------------
(***************************************************************************)
(* The parts of MCHelm with the longest proofs (HelmProofs): those about   *)
(* files several processes share, which are the cache and the token of the *)
(* quotas with what the footer makes of them, the managers of Claude       *)
(* fleets and the lease of a run; the goals; the models; the state file;   *)
(* the closeout cards.                                                     *)
(***************************************************************************)
EXTENDS Integers, Sequences

CONSTANTS Processes, Settling, Forcing, Providers, Age, Life, Horizon,
          Uses, Widths, Names,
          Pis, Keys, Claudes, MaxManagers, Workers, MarkFails,
          Pids, MaxTokens,
          Plans, MaxSpawns, MaxBoots,
          Levels, Kinds, MaxModels,
          Desks, MaxFacts, MaxClock, MaxPaid, MaxOpens,
          MaxQuestions

ASSUME PartsAssumption ==
    /\ {Age, Life, Horizon} \subseteq Nat /\ Settling \cup Forcing \subseteq Processes
    /\ Uses \cup Widths \cup Names \subseteq Nat
    /\ Pis \cup Claudes \cup {MaxManagers, Workers} \subseteq Nat \ {0} /\ MarkFails \in BOOLEAN
    /\ Pids \subseteq Nat \ {0} /\ MaxTokens \in Nat
    /\ {Plans, MaxModels} \subseteq Nat \ {0} /\ {MaxSpawns, MaxBoots} \subseteq Nat
    /\ Desks \cup {MaxFacts, MaxClock, MaxPaid, MaxOpens} \subseteq Nat
    /\ MaxQuestions \in Nat

VARIABLES now, disk, lock, token, auth, memory, op,
          meters, owed, reading, line,
          host, managers, shelf, claude, answer,
          lockFile, contender, solo, denied, raced,
          intake, spawns, mgr, view, freeze, frozen, boots,
          topic, known, tierFile, editor, picked, files, typeRun, loaded, journal, replayed,
          offer,
          log, clock, money, stateFile, helms, opens,
          asked, ledger, kept, card, rows, struck

quotaVars   == <<now, disk, lock, token, auth, memory, op>>
meterVars   == <<meters, owed, reading, line>>
fleetVars   == <<host, managers, shelf, claude, answer>>
leaseVars   == <<lockFile, contender, solo, denied, raced>>
goalVars    == <<intake, spawns, mgr, view, freeze, frozen, boots>>
modelVars   == <<topic, known, tierFile, editor, picked, files, typeRun, loaded, journal,
                 replayed, offer>>
deskVars    == <<log, clock, money, stateFile, helms, opens>>
cardVars    == <<asked, ledger, kept, card, rows, struck>>

\* Questions of two goals; the first two share their signature.
Questions   == 1 .. MaxQuestions
QuestionsOf == [q \in Questions |-> IF q < 3 THEN "same" ELSE "other"]
GoalsOf     == [q \in Questions |-> IF q = 1 THEN "first" ELSE "second"]

\* Two models, and what their ids may look like with more parts.
Ids == {<<"m">>, <<"n">>, <<"n", "free">>, <<"n", "high">>, <<"m", "high", "free">>}

\* Goals as they land: all checks passed at less than was estimated; one of 200
\* failed, and it cost more.
Landing(passed, failed, cost, estimate, named) ==
    [passed |-> passed, failed |-> failed, cost |-> cost, estimate |-> estimate, named |-> named]
Landings == {Landing(2, 0, 1, 2, FALSE), Landing(199, 1, 3, 2, TRUE)}

Quotas    == INSTANCE UsageService
Readings  == INSTANCE QuotaReadings
Fleet     == INSTANCE FleetConsole
Lease     == INSTANCE RunLease
Goals     == INSTANCE HelmGoals
Models    == INSTANCE ModelRouting WITH stored <- tierFile, run <- typeRun
Desk      == INSTANCE HelmDesk
Cards     == INSTANCE HelmPrecedents
                WITH Permissions <- {}, Topic <- QuestionsOf, GoalOf <- GoalsOf,
                     Targets <- {"first", "second"}
=============================================================================
