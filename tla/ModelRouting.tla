---------------------------- MODULE ModelRouting ----------------------------
(***************************************************************************)
(* Which model and which definition an agent() call runs with              *)
(* (model-spec.ts, model-tier-config.ts, workflows-models-command.ts,      *)
(* agent-registry.ts, model-routing.ts and their callers in agent.ts and   *)
(* workflow.ts).  Three topics that meet only in the session of the agent, *)
(* and are explored one at a time:                                         *)
(*   tiers - the editor of the tiers writes a model and a thinking level   *)
(*           into one string, which agents take apart again;               *)
(*   types - the file of an agent type is edited, shadowed and removed     *)
(*           between the executions of a run that replays its journal;     *)
(*   ranks - the tiers suggested for a catalogue of models.                *)
(*                                                                         *)
(* A model id, and what is stored for a tier, is the sequence of its parts *)
(* between colons: <<"n", "free">> is "n:free".                            *)
(***************************************************************************)
EXTENDS Integers, Sequences, FiniteSets, SequencesExt

CONSTANTS Ids,       \* ids of the models that may be known to the registry
          Levels,    \* thinking levels
          Kinds,     \* definitions an agent file may hold
          MaxModels  \* bound: length of the catalogue to rank

VARIABLES topic,
          known,     \* the model registry
          stored,    \* model-tiers.json: its medium tier; <<>> is no file
          editor,    \* /workflows-models: closed, or the tier as edited
          picked,    \* what the operator picked for it
          files,     \* the agent type's file in each directory
          run,       \* the run of one call of that type
          loaded,    \* the registry of the execution: the definition in force
          journal,   \* the call's entry: its hash, and who wrote it
          replayed,  \* whether this execution was served from the journal
          offer      \* the catalogue, and whether the notice was shown

mvars == <<topic, known, stored, editor, picked, files, run, loaded, journal,
           replayed, offer>>

Dirs   == {"project", "user", "legacy"}
Nothing == [id |-> <<>>, level |-> "default"]
LevelChoices == {"default"} \cup Levels

\* Output price (0: unknown) and what the name hints at
Offers == [price : 0 .. 2, hint : -1 .. 1]

Init ==
    /\ topic \in {"tiers", "types", "ranks"}
    /\ known \in IF topic = "tiers" THEN SUBSET Ids \ {{}} ELSE {Ids}
    /\ stored = <<>> /\ picked = Nothing
    /\ editor = [at |-> "closed", tier |-> <<>>, dirty |-> FALSE, choice |-> Nothing]
    /\ files = [d \in Dirs |-> "none"]
    /\ run = "idle" /\ loaded = "none"
    /\ journal = [hash |-> <<>>, by |-> "none"] /\ replayed = FALSE
    /\ offer \in [shown : {FALSE},
                  models : IF topic = "ranks" THEN UNION {[1 .. n -> Offers] : n \in 1 .. MaxModels}
                           ELSE {<<>>}]

-----------------------------------------------------------------------------
\* The grammar of a model, [id, level]

\* tryMatchModel: the id itself, or else one that contains the pattern, aliases
\* and later names first.
Match(pattern, ids) ==
    IF pattern \in ids THEN pattern
    ELSE LET near == {i \in ids : \E a, b \in 1 .. Len(i) : SubSeq(i, a, b) = pattern}
         IN  IF near = {} THEN <<>> ELSE CHOOSE i \in near : TRUE

Levelled(spec) == Len(spec) > 1 /\ Last(spec) \in Levels

\* Mutant: what looks like a thinking level is one.
ParseMutant(spec, ids) ==
    LET inner[n \in 1 .. Len(spec)] ==
            LET s == SubSeq(spec, 1, n)
            IN  IF Levelled(s) /\ inner[n - 1].id # <<>>
                THEN [inner[n - 1] EXCEPT !.level = Last(s)]
                ELSE [id |-> Match(s, ids), level |-> "default"]
    IN  inner[Len(spec)]

\* parseModelPattern: the whole as a model, or the part before a level.
Parse(spec, ids) ==
    LET inner[n \in 1 .. Len(spec)] ==
            LET s == SubSeq(spec, 1, n)
            IN  IF Match(s, ids) # <<>> THEN [id |-> Match(s, ids), level |-> "default"]
                ELSE IF Levelled(s) /\ inner[n - 1].id # <<>>
                THEN [inner[n - 1] EXCEPT !.level = Last(s)]
                ELSE Nothing
    IN  inner[Len(spec)]

\* resolveModelSpecWithThinking on "provider/...": what the provider does not
\* list is taken for an id of its own.
Resolved(spec, ids) ==
    IF Parse(spec, ids).id # <<>> THEN Parse(spec, ids)
    ELSE IF Levelled(spec) THEN [id |-> Front(spec), level |-> Last(spec)]
    ELSE [id |-> spec, level |-> "default"]

\* formatModelSpecWithThinking
Formatted(c) == IF c.level = "default" THEN c.id ELSE Append(c.id, c.level)

-----------------------------------------------------------------------------
\* The editor of the tiers
Tiers(act) == topic = "tiers" /\ act /\ UNCHANGED <<topic, files, run, loaded, journal,
                                                    replayed, offer>>

\* Without a file the editor starts from the model of the session.
OpenEditor(current) ==
    /\ editor.at = "closed"
    /\ editor' = [at |-> "menu", tier |-> IF stored = <<>> THEN current ELSE stored,
                  dirty |-> FALSE, choice |-> picked]
    /\ UNCHANGED <<known, stored, picked>>

\* editSingleTier: a listed model, then a level; no change is not one.
EditTier(id, level) ==
    /\ editor.at = "menu" /\ id \in known
    /\ LET c == [id |-> id, level |-> level]
       IN  /\ Formatted(c) # editor.tier
           /\ editor' = [editor EXCEPT !.tier = Formatted(c), !.dirty = TRUE, !.choice = c]
    /\ UNCHANGED <<known, stored, picked>>

\* Reset to defaults asks for models without a registry, and finds none.
ResetTiers(current) ==
    /\ editor.at = "menu"
    /\ editor' = [editor EXCEPT !.tier = current, !.dirty = TRUE, !.choice = Nothing]
    /\ UNCHANGED <<known, stored, picked>>

CloseEditor(save) ==
    /\ editor.at = "menu"
    /\ IF save /\ editor.dirty
       THEN stored' = editor.tier /\ picked' = editor.choice
       ELSE UNCHANGED <<stored, picked>>
    /\ editor' = [editor EXCEPT !.at = "closed"]
    /\ UNCHANGED known

\* A model is withdrawn, or comes back.
RegistryChanges(id) ==
    /\ known' = IF id \in known THEN known \ {id} ELSE known \cup {id}
    /\ known' # {} /\ UNCHANGED <<stored, editor, picked>>

\* resolveAgentModelSpec: the model given, the tier, the medium tier.
AgentSpec(model, tier, main) ==
    IF model # <<>> THEN model
    ELSE IF stored # <<>> THEN stored
    ELSE IF tier THEN main ELSE <<>>

-----------------------------------------------------------------------------
\* Agent types
Types(act) == topic = "types" /\ act /\ UNCHANGED <<topic, known, stored, editor, picked, offer>>

EditFile(d, kind) ==
    /\ files[d] # kind /\ files' = [files EXCEPT ![d] = kind]
    /\ UNCHANGED <<run, loaded, journal, replayed>>

\* loadAgentRegistry: the project's file wins over the user's two.
Definition ==
    IF files["project"] # "none" THEN files["project"]
    ELSE IF files["user"] # "none" THEN files["user"] ELSE files["legacy"]

\* The registry is read once for each execution.
Execute ==
    /\ run \in {"idle", "paused"}
    /\ run' = "running" /\ loaded' = Definition /\ replayed' = FALSE
    /\ UNCHANGED <<files, journal>>

\* Mutant: the agent type is known by its name.
CallHashMutant(def) == <<"call">>

\* hashAgentCall: the definition's tools, model, isolation and prompt.
CallHash(def) == <<"call", def>>

Call ==
    /\ run = "running" /\ run' = "called"
    /\ IF journal.hash = CallHash(loaded) THEN replayed' = TRUE /\ UNCHANGED journal
       ELSE /\ replayed' = FALSE
            /\ journal' = [hash |-> CallHash(loaded), by |-> loaded]
    /\ UNCHANGED <<files, loaded>>

PauseRun ==
    /\ run \in {"running", "called"} /\ run' = "paused"
    /\ UNCHANGED <<files, loaded, journal, replayed>>

-----------------------------------------------------------------------------
\* The tiers suggested for a catalogue

Prices(ms) == {ms[i].price : i \in DOMAIN ms} \ {0}

\* Of the models with a price, those that cost at most, and less than p
UpTo(ms, p)  == {i \in DOMAIN ms : 0 < ms[i].price /\ ms[i].price <= p}
Under(ms, p) == {i \in DOMAIN ms : 0 < ms[i].price /\ ms[i].price < p}

\* knownCosts[Math.floor(knownCosts.length / 2)], in ascending order
Median(ms) ==
    LET half == Cardinality({i \in DOMAIN ms : 0 < ms[i].price}) \div 2
    IN  CHOOSE p \in Prices(ms) :
           Cardinality(Under(ms, p)) <= half /\ half < Cardinality(UpTo(ms, p))

\* costKey: a model without a price takes the place its name hints at.
Cost(ms, m) ==
    IF m.price # 0 THEN m.price
    ELSE IF Prices(ms) = {} THEN 0
    ELSE IF m.hint > 0 THEN Max(Prices(ms))
    ELSE IF m.hint < 0 THEN Min(Prices(ms)) ELSE Median(ms)

\* The comparison of rankByCapability, on positions
Below(ms, i, j) ==
    \/ Cost(ms, ms[i]) < Cost(ms, ms[j])
    \/ /\ Cost(ms, ms[i]) = Cost(ms, ms[j])
       /\ ms[i].hint < ms[j].hint \/ (ms[i].hint = ms[j].hint /\ i < j)

RankedAs(ms) ==
    [r \in DOMAIN ms |-> CHOOSE i \in DOMAIN ms :
                            Cardinality({j \in DOMAIN ms : Below(ms, j, i)}) = r - 1]

\* buildDefaultTierConfig
DefaultTiers(ms) ==
    LET rank == RankedAs(ms)
        n    == Len(ms)
    IN  CASE n >= 3 -> [small |-> rank[1], medium |-> rank[n \div 2 + 1], big |-> rank[n]]
          [] n = 2  -> [small |-> rank[1], medium |-> rank[2], big |-> rank[2]]
          [] OTHER  -> [small |-> rank[1], medium |-> rank[1], big |-> rank[1]]

\* formatTierFallbackNotice, once in a process
ShowNotice ==
    /\ topic = "ranks" /\ ~offer.shown /\ offer' = [offer EXCEPT !.shown = TRUE]
    /\ UNCHANGED <<topic, known, stored, editor, picked, files, run, loaded, journal, replayed>>

Next ==
    \/ \E id \in Ids : Tiers(OpenEditor(id) \/ ResetTiers(id) \/ RegistryChanges(id))
    \/ \E id \in Ids, level \in LevelChoices : Tiers(EditTier(id, level))
    \/ \E save \in BOOLEAN : Tiers(CloseEditor(save))
    \/ \E d \in Dirs, kind \in Kinds \cup {"none"} : Types(EditFile(d, kind))
    \/ Types(Execute) \/ Types(Call) \/ Types(PauseRun)
    \/ ShowNotice

Spec == Init /\ [][Next]_mvars

-----------------------------------------------------------------------------
Includes(i, s) == \E a, b \in 1 .. Len(i) : SubSeq(i, a, b) = s

\* workflows-models-command.ts:11-13: an agent of the tier runs with the model
\* and the thinking level the operator picked, while the registry has that
\* model, unless another model's name contains what is stored for it.
EditedIsUsed ==
    /\ picked.id \in known
    /\ picked.level = "default" \/ \A i \in known : ~Includes(i, stored)
    => \A tier \in BOOLEAN : Resolved(AgentSpec(<<>>, tier, <<>>), known) = picked

\* Without the second condition: two models "n" and "n:high" cannot be told
\* apart once a level is given for the first.
EditedIsAlwaysUsed ==
    picked.id \in known => Resolved(AgentSpec(<<>>, FALSE, <<>>), known) = picked

\* agent-registry.ts:203-204, workflow.ts:1264-1265: what an execution takes from
\* the journal was produced under the definition the execution has loaded.
SameDefinition == replayed => journal.by = loaded

\* model-tier-config.ts:157-160 "distinct tiers never collapse onto the same
\* model and a weaker model can never outrank a stronger one (no inversion)".
NoInversion ==
    offer.shown =>
       LET ms == offer.models
           t  == DefaultTiers(ms)
           Weaker(i, j) == \/ 0 < ms[i].price /\ ms[i].price < ms[j].price
                           \/ ms[i].price = ms[j].price /\ ms[i].hint < ms[j].hint
       IN  /\ Len(ms) >= 3 => Cardinality({t.small, t.medium, t.big}) = 3
           /\ ~Weaker(t.medium, t.small) /\ ~Weaker(t.big, t.medium)
           /\ \A i \in DOMAIN ms : ~Weaker(t.big, i) /\ ~Weaker(i, t.small)

RoutesAsConfigured == EditedIsUsed /\ SameDefinition /\ NoInversion
=============================================================================
