--------------------------- MODULE HelmPrecedents ---------------------------
(***************************************************************************)
(* What Helm remembers of decisions (state/precedents.ts, store.ts,        *)
(* real.ts) and the closeout cards on which the operator declines them by  *)
(* number or hands them off to the repository's guidance (app.ts).         *)
(*                                                                         *)
(* A precedent is identified with the question decided; which option was   *)
(* chosen does not matter here.  The rows of a card are numbered in the    *)
(* window, while every card proposes the precedents of all goals.          *)
(***************************************************************************)
EXTENDS Naturals, Sequences, SequencesExt

CONSTANTS Questions,   \* escalations that may come up
          Permissions, \* those of class permission or approval
          Topic,       \* the signature of a question
          GoalOf,      \* the goal it belongs to
          Targets      \* goals

VARIABLES asked,   \* what became of a question
          ledger,  \* state.precedents, in the order they were made
          kept,    \* the proposals in the closeout kept when the goal completed
          card,    \* the goal whose card is on top, or "home"
          rows,    \* closeoutPrecedentIds
          struck   \* declined: shown struck through

pvars == <<asked, ledger, kept, card, rows, struck>>

Precedent == [of : Questions, declined : BOOLEAN, handed : BOOLEAN]

TypeOK ==
    /\ asked \in [Questions -> {"none", "open", "decided", "auto"}]
    /\ ledger \in Seq(Precedent)
    /\ kept \in [Targets -> [done : BOOLEAN, ids : Seq(Questions)]]
    /\ card \in Targets \cup {"home"}
    /\ rows \in [Targets -> Seq(Questions)]
    /\ struck \in [Targets -> SUBSET Questions]

NewWindow ==
    /\ card' = "home"
    /\ rows' = [g \in Targets |-> <<>>] /\ struck' = [g \in Targets |-> {}]

Init ==
    /\ asked = [q \in Questions |-> "none"] /\ ledger = <<>>
    /\ kept = [g \in Targets |-> [done |-> FALSE, ids |-> <<>>]]
    /\ card = "home"
    /\ rows = [g \in Targets |-> <<>>] /\ struck = [g \in Targets |-> {}]

-----------------------------------------------------------------------------
\* ids.filter(id => S.has(id))
Those(ids, S) ==
    LET f[n \in 0 .. Len(ids)] ==
            IF n = 0 THEN <<>>
            ELSE IF ids[n] \in S THEN Append(f[n - 1], ids[n]) ELSE f[n - 1]
    IN  f[Len(ids)]

Ids(records) == [i \in DOMAIN records |-> records[i].of]
Record(records, q) == records[CHOOSE i \in DOMAIN records : records[i].of = q]
Offered(records, q) == LET r == Record(records, q) IN ~r.declined /\ ~r.handed

\* matchingPrecedent
Matches(q) == \E i \in DOMAIN ledger :
                  ~ledger[i].declined /\ Topic[ledger[i].of] = Topic[q]

\* addEscalation: a permission is never answered from memory.
AddEscalation(q) ==
    /\ asked[q] = "none"
    /\ asked' = [asked EXCEPT ![q] =
                    IF q \notin Permissions /\ Matches(q) THEN "auto" ELSE "open"]
    /\ UNCHANGED <<ledger, kept, card, rows, struck>>

\* decide, on the card of the question, which is on top then
Decide(q) ==
    /\ asked[q] = "open" /\ card = "home"
    /\ asked' = [asked EXCEPT ![q] = "decided"]
    /\ ledger' = Append(ledger, [of |-> q, declined |-> FALSE, handed |-> FALSE])
    /\ UNCHANGED <<kept, card, rows, struck>>

\* syncWorkflows: the closeout is built once, with the goal's own precedents.
Complete(g) ==
    /\ ~kept[g].done
    /\ kept' = [kept EXCEPT ![g] = [done |-> TRUE,
                   ids |-> Those(Ids(ledger), {q \in Questions : GoalOf[q] = g})]]
    /\ UNCHANGED <<asked, ledger, card, rows, struck>>

-----------------------------------------------------------------------------
\* canonicalProposedPrecedents: the kept proposals, then every other record,
\* without what is declined or handed off.
Canonical(records, g) ==
    LET all == kept[g].ids \o Those(Ids(records), Questions \ ToSet(kept[g].ids))
    IN  Those(all, {q \in ToSet(all) : Offered(records, q)})

\* Mutant: the card lists what is proposed now.
RememberedMutant(records, g) == Canonical(records, g)

\* rememberCloseoutPrecedents: ids are only ever appended.
Remembered(records, g) ==
    rows[g] \o Those(Canonical(records, g), Questions \ ToSet(rows[g]))

\* The rows drawn, each under its number: a declined one keeps its place.
Drawn(g) == Those(rows[g], {q \in ToSet(rows[g]) : ~Record(ledger, q).handed})

OpenCard(g) ==
    /\ card = "home" /\ kept[g].done
    /\ card' = g /\ rows' = [rows EXCEPT ![g] = Remembered(ledger, g)]
    /\ UNCHANGED <<asked, ledger, kept, struck>>

Escape ==
    /\ card # "home" /\ card' = "home"
    /\ UNCHANGED <<asked, ledger, kept, rows, struck>>

Declined(q, declined) ==
    [i \in DOMAIN ledger |-> IF ledger[i].of = q
                             THEN [ledger[i] EXCEPT !.declined = declined] ELSE ledger[i]]

\* A digit, and the repaint after it.  What decides between decline and accept
\* is the strike-through of this window and card, not the record.
Toggle(g, i) ==
    /\ card = g /\ i \in DOMAIN Drawn(g)
    /\ LET q == Drawn(g)[i]
           declined == q \notin struck[g]
       IN  /\ struck' = [struck EXCEPT ![g] = IF declined THEN @ \cup {q} ELSE @ \ {q}]
           /\ ledger' = Declined(q, declined)
           /\ rows' = [rows EXCEPT ![g] = Remembered(ledger', g)]
    /\ UNCHANGED <<asked, kept, card>>

\* goal.applyPrecedents, confirmed
Apply(g) ==
    /\ card = g /\ Canonical(ledger, g) # <<>>
    /\ ledger' = [i \in DOMAIN ledger |->
                     IF ledger[i].of \in ToSet(Canonical(ledger, g))
                     THEN [ledger[i] EXCEPT !.handed = TRUE] ELSE ledger[i]]
    /\ rows' = [rows EXCEPT ![g] = <<>>] /\ struck' = [struck EXCEPT ![g] = {}]
    /\ UNCHANGED <<asked, kept, card>>

\* Helm is closed and opened again; what is durable stays.
Reopen ==
    /\ NewWindow
    /\ UNCHANGED <<asked, ledger, kept>>

Next ==
    \/ \E q \in Questions : AddEscalation(q) \/ Decide(q)
    \/ \E g \in Targets : \/ Complete(g) \/ OpenCard(g) \/ Apply(g)
                          \/ \E i \in 1 .. 9 : Toggle(g, i)
    \/ Escape \/ Reopen

Spec == Init /\ [][Next]_pvars

-----------------------------------------------------------------------------
Handed == {ledger[i].of : i \in {j \in DOMAIN ledger : ledger[j].handed}}

\* app.ts:437-454: a number on the card goes on meaning the same precedent
\* while it is declined, accepted or joined by others, on this card or on
\* another goal's, until a hand-off: pressing it twice undoes it.
NumbersStay ==
    [][\A g \in Targets :
          Handed' = Handed /\ ~NewWindow => IsPrefix(Drawn(g), Drawn(g)')]_pvars
=============================================================================
