--------------------------- MODULE WorkflowScripts ---------------------------
(***************************************************************************)
(* What the bundled workflows (code-review.ts, adversarial-review.ts,      *)
(* deep-research.ts, builtin-commands.ts) and the quality helpers offered  *)
(* to every script (workflow-sandbox-child.ts) make of the answers of      *)
(* their agents.  A script alternates between a fan-out of agent() calls   *)
(* and plain code on what they returned.  A call answers in any order; one *)
(* that fails is null inside parallel(), and a failure that is not         *)
(* recoverable (an abort, the budget) rejects the script at once.          *)
(*                                                                         *)
(* A reply is the sequence of the facts it names, or of one verdict, vote  *)
(* or score; null and an unusable reply are the empty sequence, with "is"  *)
(* telling them apart where the code does.                                 *)
(***************************************************************************)
EXTENDS Integers, Sequences, FiniteSets, SequencesExt

CONSTANTS Facts,      \* findings, claims and queries agents may name
          Ranks,      \* of the finders of the code review, in their order
          TopFindings, \* the cap of 10 on the findings of a report
          Reviewers,  \* of each finding, and of each claim of verify()
          Dry,        \* consecutiveEmpty
          MaxRounds   \* maxRounds of loopUntilDry()

VARIABLES script,   \* which script runs
          phase,
          calls,    \* the agent() calls in flight, in the order of the array
          items,    \* what the script carries on: [key, rank, pos]
          heard,    \* every phase's calls once they had all settled
          seen, dry, round,  \* loopUntilDry()
          out       \* what the operator gets: a report, or the raw result

svars == <<script, phase, calls, items, heard, seen, dry, round, out>>

Scripts  == {"code", "adversarial", "research", "panel", "audit", "judge", "verify", "loop"}
Verdicts == {<<"CONFIRMED">>, <<"PLAUSIBLE">>, <<"REFUTED">>}
Votes    == {<<"real">>, <<"unreal">>}
Scores   == {<<"0">>, <<"1">>}
Lists    == {<<>>} \cup {<<f>> : f \in Facts} \cup {<<f, g>> : f, g \in Facts}
Texts    == {<<"text">>}

First == [code |-> "find", adversarial |-> "investigate", research |-> "plan",
          panel |-> "angles", audit |-> "angles", judge |-> "score", verify |-> "vote", loop |-> "round"]

\* What the schema of a phase lets its agents answer.
Answers == [find |-> Lists, investigate |-> Lists, plan |-> Lists, round |-> Lists,
            gather |-> Lists, crosscheck |-> Lists, verify |-> Verdicts,
            refute |-> Votes, vote |-> Votes, score |-> Scores,
            angles |-> Texts, validate |-> Texts, report |-> Texts]

Asked(about) == [i \in DOMAIN about |-> [about |-> about[i], is |-> "open", val |-> <<>>]]
Ask(at, about) == phase' = at /\ calls' = Asked(about)
Numbers(n) == [i \in 1 .. n |-> i]
\* Array.from({ length: n }) inside a map: n calls for each of m
Each(m, n) == [i \in 1 .. m * n |-> (i - 1) \div n + 1]

Opening == [code |-> Numbers(Len(Ranks)), adversarial |-> <<1>>, research |-> <<1>>,
            panel |-> <<1, 2>>, audit |-> <<1, 2>>, judge |-> Each(2, 2), verify |-> Each(1, Reviewers),
            loop |-> <<1>>]

Init ==
    /\ script \in Scripts
    /\ phase = "command" /\ calls = <<>>
    /\ items = <<>> /\ heard = <<>> /\ seen = {} /\ dry = 0 /\ round = 0
    /\ out = "none"

-----------------------------------------------------------------------------
\* The command of a bundled workflow, or a script that comes to a helper.
\* Without an argument, or a diff to review, the operator is told so.
Start(usable) ==
    /\ phase = "command" /\ (~usable => script \notin {"judge", "verify", "loop"})
    /\ IF usable THEN Ask(First[script], Opening[script]) /\ UNCHANGED out
       ELSE out' = "unusable" /\ phase' = "done" /\ UNCHANGED calls
    /\ UNCHANGED <<script, items, heard, seen, dry, round>>

\* A call settles; agent() makes a failure null that may be recovered from.
Answer(i) ==
    /\ calls[i].is = "open"
    /\ \/ \E v \in Answers[phase] :
             calls' = [calls EXCEPT ![i].is = "answer", ![i].val = v]
       \/ calls' = [calls EXCEPT ![i].is = "null"]
    /\ UNCHANGED <<script, phase, items, heard, seen, dry, round, out>>

\* An abort, the token budget, the agent limit, a provider limit: the command
\* notifies the operator.  A loop keeps what it has when the budget is gone.
Rejected(budget) ==
    /\ phase # "done" /\ \E i \in DOMAIN calls : calls[i].is = "open"
    /\ out' = IF script = "loop" /\ budget THEN "report" ELSE "failed"
    /\ phase' = "done" /\ calls' = <<>>
    /\ UNCHANGED <<script, items, heard, seen, dry, round>>

Settled == phase \notin {"command", "done"} /\ \A i \in DOMAIN calls : calls[i].is # "open"

\* Mutant: what failed is dropped from the array.
RepliesMutant(cs) == [i \in DOMAIN SelectSeq(cs, LAMBDA c : c.is = "answer") |->
                         SelectSeq(cs, LAMBDA c : c.is = "answer")[i].val]

\* parallel(): one result for each call, in the order of the calls.
Replies(cs) == [i \in DOMAIN cs |-> cs[i].val]

At(s, i) == IF i \in DOMAIN s THEN s[i] ELSE <<>>

\* The replies of parallel() to the calls about i
About(i) == Replies(SelectSeq(calls, LAMBDA c : c.about = i))

Then(at) == phase = at /\ Settled
Heard == heard' = Append(heard, calls)
Rest  == UNCHANGED <<script, seen, dry, round>>

-----------------------------------------------------------------------------
\* code_review

\* The candidates of every finder, each with the rank of its angle
Collected(replies) ==
    FlattenSeq([fi \in DOMAIN Ranks |->
        [j \in DOMAIN At(replies, fi) |-> [key |-> replies[fi][j], rank |-> Ranks[fi]]]])

\* The first of those with the same file, line and summary stays.
Deduped(s) ==
    FoldLeft(LAMBDA kept, c : IF \E k \in ToSet(kept) : k.key = c.key THEN kept
                              ELSE Append(kept, c),
             <<>>, s)

Positioned(s) == [i \in DOMAIN s |-> [key |-> s[i].key, rank |-> s[i].rank, pos |-> i]]

Found ==
    /\ Then("find") /\ Heard /\ Rest
    /\ LET cands == Positioned(Deduped(Collected(Replies(calls))))
       IN  items' = cands /\ Ask("verify", Numbers(Len(cands)))
    /\ UNCHANGED out

\* A finding without a verdict is PLAUSIBLE.
Surviving(verdicts) ==
    SelectSeq(items, LAMBDA c : At(verdicts, c.pos) # <<"REFUTED">>)

\* Correctness before cleanup before altitude; the sort is stable.
Ranked(s) == FlattenSeq([r \in 1 .. 3 |-> SelectSeq(s, LAMBDA c : c.rank = r - 1)])

Verified ==
    /\ Then("verify") /\ Heard /\ Rest
    /\ LET ranked == Ranked(Surviving(Replies(calls)))
       IN  items' = SubSeq(ranked, 1, IF Len(ranked) < TopFindings THEN Len(ranked) ELSE TopFindings)
    /\ Ask("report", <<1>>) /\ UNCHANGED out

-----------------------------------------------------------------------------
\* adversarial_review, verify()

Share(votes) ==
    LET valid == SelectSeq(votes, LAMBDA v : v # <<>>)
    IN  [real |-> Len(SelectSeq(valid, LAMBDA v : v = <<"real">>)), of |-> Len(valid)]

\* The threshold is a half, and no vote at all is not one.
Survives(votes) == LET s == Share(votes) IN s.of > 0 /\ 2 * s.real >= s.of

\* investigation.findings of an investigator that failed throws.
Investigated ==
    /\ Then("investigate") /\ Heard /\ Rest
    /\ IF calls[1].is = "null"
       THEN /\ out' = "failed" /\ phase' = "done" /\ calls' = <<>> /\ UNCHANGED items
       ELSE /\ items' = [i \in DOMAIN calls[1].val |->
                            [key |-> calls[1].val[i], rank |-> 0, pos |-> i]]
            /\ Ask("refute", Each(Len(calls[1].val), Reviewers)) /\ UNCHANGED out

Refuted ==
    /\ Then("refute") /\ Heard /\ Rest
    /\ items' = SelectSeq(items, LAMBDA c : Survives(About(c.pos)))
    /\ Ask("report", <<1>>) /\ UNCHANGED out

\* verify(): the claim is what is left, or nothing is.
Voted ==
    /\ Then("vote") /\ Heard /\ Rest
    /\ items' = IF Survives(About(1)) THEN <<[key |-> "claim", rank |-> 0, pos |-> 1]>> ELSE <<>>
    /\ out' = "report" /\ phase' = "done" /\ calls' = <<>>

-----------------------------------------------------------------------------
\* deep_research

\* The first queries planned; without any, the question itself.
Planned ==
    /\ Then("plan") /\ Heard /\ Rest
    /\ Ask("gather", IF calls[1].val = <<>> THEN <<"question">> ELSE calls[1].val)
    /\ UNCHANGED <<items, out>>

Gathered ==
    /\ Then("gather") /\ Heard /\ Rest
    /\ items' = [i \in DOMAIN FlattenSeq(Replies(calls)) |->
                    [key |-> FlattenSeq(Replies(calls))[i], rank |-> 0, pos |-> i]]
    /\ Ask("crosscheck", <<1>>) /\ UNCHANGED out

CrossChecked ==
    /\ Then("crosscheck") /\ Heard /\ Rest
    /\ items' = [i \in DOMAIN calls[1].val |-> [key |-> calls[1].val[i], rank |-> 0, pos |-> i]]
    /\ Ask("report", <<1>>) /\ UNCHANGED out

\* multi_perspective_analysis and codebase_audit: what failed is null in the
\* prompt of the next agent.
Angled ==
    /\ Then("angles") \/ Then("validate")
    /\ Heard /\ Rest
    /\ Ask(IF script = "audit" /\ phase = "angles" THEN "validate" ELSE "report", <<1>>)
    /\ UNCHANGED <<items, out>>

\* reportText(): without prose the whole result is sent.
Delivered ==
    /\ Then("report") /\ Heard /\ Rest
    /\ out' = IF calls[1].val = <<>> THEN "raw" ELSE "report"
    /\ phase' = "done" /\ calls' = <<>> /\ UNCHANGED items

-----------------------------------------------------------------------------
\* judgePanel() on two attempts: the best mean score, then the first.
Mean(scores) ==
    LET valid == SelectSeq(scores, LAMBDA v : v # <<>>)
    IN  [sum |-> Len(SelectSeq(valid, LAMBDA v : v = <<"1">>)),
         of  |-> IF valid = <<>> THEN 1 ELSE Len(valid)]
Beats(m, n) == m.sum * n.of > n.sum * m.of

Judged ==
    /\ Then("score") /\ Heard /\ Rest
    /\ LET best == IF Beats(Mean(About(2)), Mean(About(1))) THEN 2 ELSE 1
       IN  items' = <<[key |-> "attempt", rank |-> 0, pos |-> best]>>
    /\ out' = "report" /\ phase' = "done" /\ calls' = <<>>

\* loopUntilDry(): a round that fails is taken for one of nothing new.
RoundEnds ==
    /\ Then("round") /\ Heard
    /\ LET fresh == SelectSeq(calls[1].val, LAMBDA f : f \notin seen)
       IN  /\ dry' = IF fresh = <<>> THEN dry + 1 ELSE 0
           /\ seen' = seen \cup ToSet(fresh)
           /\ items' = items \o [i \in DOMAIN fresh |->
                                    [key |-> fresh[i], rank |-> 0, pos |-> Len(items) + i]]
    /\ round' = round + 1
    /\ IF round' < MaxRounds /\ dry' < Dry
       THEN Ask("round", <<1>>) /\ UNCHANGED out
       ELSE out' = "report" /\ phase' = "done" /\ calls' = <<>>
    /\ UNCHANGED script

Next ==
    \/ \E i \in DOMAIN calls : Answer(i)
    \/ \E usable \in BOOLEAN : Start(usable)
    \/ \E budget \in BOOLEAN : Rejected(budget)
    \/ Found \/ Verified \/ Investigated \/ Refuted \/ Voted
    \/ Planned \/ Gathered \/ CrossChecked \/ Angled \/ Delivered
    \/ Judged \/ RoundEnds

Spec == Init /\ [][Next]_svars

-----------------------------------------------------------------------------
Named(cs) == UNION {ToSet(cs[i].val) : i \in DOMAIN cs}
ItemKeys == {c.key : c \in ToSet(items)}
With(cs, v) == {i \in DOMAIN cs : cs[i].val = v}
On(cs, k)   == {i \in DOMAIN cs : cs[i].about = k}

\* Every finding of the report was raised by a finder of its rank and not
\* refuted by the verifier it was shown to; what is left out was refuted, or
\* there was no room; correctness comes first.
ReviewVouched ==
    script = "code" /\ Len(heard) >= 2 =>
       LET found == heard[1]
           check == heard[2]
       IN  /\ Len(check) = Cardinality(Named(found))
           /\ \A n \in DOMAIN items :
                 /\ items[n].pos \notin With(check, <<"REFUTED">>)
                 /\ \E i \in DOMAIN found :
                       items[n].key \in ToSet(found[i].val) /\ items[n].rank = Ranks[i]
                 /\ \A m \in 1 .. n - 1 : items[m].rank <= items[n].rank
           /\ Len(items) < TopFindings =>
                 Len(items) = Cardinality(DOMAIN check \ With(check, <<"REFUTED">>))

\* A finding survives when at least half of the reviewers that answered on it
\* call it real, and one did answer.
SurvivorsVouched ==
    script = "adversarial" /\ Len(heard) >= 2 =>
       \A k \in DOMAIN heard[1][1].val :
          LET real   == On(heard[2], k) \cap With(heard[2], <<"real">>)
              unreal == On(heard[2], k) \cap With(heard[2], <<"unreal">>)
          IN  (\E c \in ToSet(items) : c.pos = k /\ c.key = heard[1][1].val[k])
              <=> real # {} /\ Cardinality(real) >= Cardinality(unreal)

\* What any researcher brought back is cross-checked, whoever else failed.
SourcesKept ==
    phase = "crosscheck" => ItemKeys = Named(heard[2])

\* A loop that ended by itself heard nothing new for Dry rounds, or ran them
\* all, and returns whatever any round brought.
DryIsDry ==
    script = "loop" /\ out = "report" =>
       /\ ItemKeys = UNION {Named(heard[r]) : r \in DOMAIN heard}
       /\ dry >= Dry =>
             \A r \in Len(heard) - Dry + 1 .. Len(heard) :
                Named(heard[r]) \subseteq UNION {Named(heard[q]) : q \in 1 .. r - 1}

\* code-review.ts:139-166, adversarial-review.ts:21-23: what a report says was
\* said by an agent and not struck down by those who had to check it, however
\* many of the agents fail, and nothing else is lost on the way.
FindingsAreVouched ==
    ReviewVouched /\ SurvivorsVouched /\ SourcesKept /\ DryIsDry

=============================================================================
