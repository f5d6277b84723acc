---------------------------- MODULE HelmReceipts ----------------------------
(***************************************************************************)
(* What Helm reads out of an agent's transcript (host/adapters.ts,         *)
(* workflows/agent-history.ts): the end of the transcript that the record  *)
(* keeps, which result belongs to which call, the activity lines of the    *)
(* session view, the receipts for checks, and the measured changes.        *)
(*                                                                         *)
(* A call is abstracted to its deed: the tool it uses, what its command    *)
(* does and, for an edit, the texts or the patch it carries.  A line of a  *)
(* text or of a patch is a model value.  Of what a result says only this   *)
(* is kept: whether the text in the record alarms, that is, has a word or  *)
(* a number Helm takes for a failure.  A success may ("5 passed; 0         *)
(* failed"), a failure need not.  Paths and elapsed times are left out.    *)
(***************************************************************************)
EXTENDS Integers, Sequences, FiniteSets, SequencesExt

CONSTANTS Deeds,       \* what the agent may call
          MaxTalk,     \* bound: entries of the transcript
          MaxEntries,  \* DEFAULT_MAX_ENTRIES
          MaxLines,    \* how many activity lines are shown, 12 in the code
          Preview,     \* MAX_DIFF_PREVIEW_LINES
          Texts        \* the texts an edit may replace, as sequences of lines

VARIABLES talk,   \* the transcript: calls, their results, other text
          hour    \* timestamp of the next message

rvars == <<talk, hour>>

Init == talk = <<>> /\ hour = 0

-----------------------------------------------------------------------------
\* The transcript, as the session appends to it

Calls(h)   == {k \in DOMAIN h : h[k].kind = "toolCall"}
Answers(h) == {k \in DOMAIN h : h[k].kind \in {"toolResult", "error"}}
Pending    == {k \in Calls(talk) : ~\E j \in Answers(talk) : talk[j].answers = k}

Entry(kind, deed, k, alarms) ==
    [kind |-> kind, deed |-> deed, at |-> hour, answers |-> k, alarms |-> alarms]

\* One message asks for one tool or for several at once.
Assistant(deeds) ==
    /\ Pending = {} /\ Len(talk) + 2 * Len(deeds) <= MaxTalk
    /\ talk' = talk \o [k \in DOMAIN deeds |-> Entry("toolCall", deeds[k], Len(talk) + k, FALSE)]
    /\ hour' = hour + 1

\* The tools of one message are answered in any order.  The text matters for
\* checks and commits, and only when the tool itself reports no error.
ToolAnswers(k, kind, alarms) ==
    /\ k \in Pending
    /\ alarms => kind = "toolResult" /\ talk[k].deed.does \cap {"checks", "commits"} # {}
    /\ talk' = Append(talk, Entry(kind, talk[k].deed, k, alarms))
    /\ hour' = hour + 1

Says ==
    /\ Pending = {} /\ Len(talk) < MaxTalk
    /\ talk' = Append(talk, Entry("text", [tool |-> "none"], 0, FALSE))
    /\ hour' = hour + 1

Next ==
    \/ \E d \in Deeds : Assistant(<<d>>) \/ \E e \in Deeds : Assistant(<<d, e>>)
    \/ \E k \in DOMAIN talk, kind \in {"toolResult", "error"}, alarms \in BOOLEAN :
          ToolAnswers(k, kind, alarms)
    \/ Says

Spec == Init /\ [][Next]_rvars

-----------------------------------------------------------------------------
\* Calls and their results

\* compactAgentHistory: the last entries.
Recorded(h) == SubSeq(h, IF Len(h) > MaxEntries THEN Len(h) - MaxEntries + 1 ELSE 1, Len(h))

\* Mutant: whatever result comes next.
AnswersMutant(h, k) == {j \in Answers(h) : j > k}

\* The results by the name of the tool
AnswersOf(h, k) == {j \in Answers(h) : j > k /\ h[j].deed.tool = h[k].deed.tool}

\* pairedResult: the first of them, or 0
Paired(h, k) == IF AnswersOf(h, k) = {} THEN 0 ELSE Min(AnswersOf(h, k))

\* categoryFor: by the tool, then by the commands of the line
Category(d) ==
    IF d.tool \in {"edit", "patch"} THEN "edit"
    ELSE IF "checks" \in d.does THEN "verify"
    ELSE IF d.tool = "read" \/ (d.tool = "bash" /\ d.does = {"reads"}) THEN "context"
    ELSE "none"

\* historyCalls: in order, those of a category
Told(h) == SetToSortSeq({k \in Calls(h) : Category(h[k].deed) # "none"}, <)

\* verificationReceipt and commitsFromHistory: no result is a failed one, and
\* so is one whose text alarms, whatever the tool says.
Passed(h, k) ==
    /\ Paired(h, k) # 0
    /\ h[Paired(h, k)].kind = "toolResult" /\ ~h[Paired(h, k)].alarms

\* Calls of one message make a line, and so do reads in a row; everything else
\* has a line of its own.
AllLines(h) ==
    LET told == Told(h)
        Run(n, Joins(_)) == CHOOSE m \in n .. Len(told) :
                               /\ \A j \in n .. m : Joins(j)
                               /\ m = Len(told) \/ ~Joins(m + 1)
        From[n \in 1 .. Len(told) + 1] ==
            IF n > Len(told) THEN <<>>
            ELSE LET Together(j) == h[told[j]].at = h[told[n]].at
                     Read(j) == Category(h[told[j]].deed) = "context"
                     line(verb, m) == [verb |-> verb, calls |-> SubSeq(told, n, m)]
                 IN  IF Run(n, Together) > n
                     THEN <<line("parallel", Run(n, Together))>> \o From[Run(n, Together) + 1]
                     ELSE IF Read(n)
                     THEN <<line("context", Run(n, Read))>> \o From[Run(n, Read) + 1]
                     ELSE <<line(Category(h[told[n]].deed), n)>> \o From[n + 1]
    IN  From[1]

\* classifyHistory: the last of them
LinesOf(h) ==
    LET all == AllLines(h)
    IN  SubSeq(all, IF Len(all) > MaxLines THEN Len(all) - MaxLines + 1 ELSE 1, Len(all))

\* sessionFor and goalMetrics: of the checks, how many passed; of the commits,
\* those whose command is also a check, because no other has a category.
Checks(h)   == {k \in ToSet(Told(h)) : Category(h[k].deed) = "verify"}
Verified(h) == Cardinality({k \in Checks(h) : Passed(h, k)})
Commits(h)  == Cardinality({k \in ToSet(Told(h)) : "commits" \in h[k].deed.does /\ Passed(h, k)})

-----------------------------------------------------------------------------
\* Measured changes

\* The length of the longest common subsequence from line i and line j on
Common(old, new) ==
    LET from[i \in 1 .. Len(old) + 1, j \in 1 .. Len(new) + 1] ==
            IF i > Len(old) \/ j > Len(new) THEN 0
            ELSE IF old[i] = new[j] THEN from[i + 1, j + 1] + 1
            ELSE IF from[i + 1, j] > from[i, j + 1] THEN from[i + 1, j] ELSE from[i, j + 1]
    IN  from

\* Mutant: the walk prefers the side with less in common.
ComesMutant(common, old, new, i, j) ==
    j <= Len(new) /\ (i > Len(old) \/ common[i, j + 1] < common[i + 1, j])

\* A new line comes before the next old one goes.
Comes(common, old, new, i, j) ==
    j <= Len(new) /\ (i > Len(old) \/ common[i, j + 1] > common[i + 1, j])

\* The walk of lineDiff through the lengths: the lines that come and go
Script(old, new) ==
    LET common == Common(old, new)
        walk[i \in 1 .. Len(old) + 1, j \in 1 .. Len(new) + 1] ==
            IF i > Len(old) /\ j > Len(new) THEN <<>>
            ELSE IF i <= Len(old) /\ j <= Len(new) /\ old[i] = new[j] THEN walk[i + 1, j + 1]
            ELSE IF Comes(common, old, new, i, j) THEN <<<<"+", j>>>> \o walk[i, j + 1]
            ELSE <<<<"-", i>>>> \o walk[i + 1, j]
    IN  walk[1, 1]

\* What both texts begin with, and then what both end with, is set aside.
Same(a, b) ==
    Max({n \in 0 .. Len(a) : n <= Len(b) /\ \A k \in 1 .. n : a[k] = b[k]})

Changes(old, new) ==
    LET prefix == Same(old, new)
        rest(t) == SubSeq(t, prefix + 1, Len(t))
        suffix == Same(Reverse(rest(old)), Reverse(rest(new)))
        middle(t) == SubSeq(t, prefix + 1, Len(t) - suffix)
        script == Script(middle(old), middle(new))
    IN  [k \in DOMAIN script |-> <<script[k][1], prefix + script[k][2]>>]

Of(script, sign) == {script[k][2] : k \in {j \in DOMAIN script : script[j][1] = sign}}

LineDiff(old, new) ==
    LET script == Changes(old, new)
    IN  [added   |-> Cardinality(Of(script, "+")),
         removed |-> Cardinality(Of(script, "-")),
         peek    |-> SubSeq(script, 1, IF Len(script) < Preview THEN Len(script) ELSE Preview),
         more    |-> IF Len(script) > Preview THEN Len(script) - Preview ELSE 0]

\* diffReceipt: the signs of a patch, or the texts; arguments that were cut
\* in the record cannot be read and count for nothing.
Signs(patch, sign) == Cardinality({k \in DOMAIN patch : patch[k] = sign})
DiffReceipt(deed) ==
    CASE deed.how = "patch" -> [added |-> Signs(deed.patch, "+"), removed |-> Signs(deed.patch, "-")]
      [] deed.how = "texts" -> [added   |-> LineDiff(deed.old, deed.new).added,
                                removed |-> LineDiff(deed.old, deed.new).removed]
      [] deed.how = "cut"   -> [added |-> 0, removed |-> 0]

Edits(h) == {k \in ToSet(Told(h)) : Category(h[k].deed) = "edit"}
Added(h)   == MapThenSumSet(LAMBDA k : DiffReceipt(h[k].deed).added, Edits(h))
Removed(h) == MapThenSumSet(LAMBDA k : DiffReceipt(h[k].deed).removed, Edits(h))

-----------------------------------------------------------------------------
\* The lines of a text that a set of positions leaves
Without(t, gone) == LET kept == SetToSortSeq(DOMAIN t \ gone, <)
                    IN  [k \in DOMAIN kept |-> t[kept[k]]]

\* adapters.ts:180-276: a diff turns the old text into the new one, no
\* smaller one does, and what it does not show it counts.
DiffIsLeast ==
    \A old, new \in Texts :
       LET script == Changes(old, new)
           diff   == LineDiff(old, new)
       IN  /\ Without(old, Of(script, "-")) = Without(new, Of(script, "+"))
           /\ \A S \in SUBSET DOMAIN old, T \in SUBSET DOMAIN new :
                 Without(old, S) = Without(new, T) =>
                    Cardinality(S) >= diff.removed /\ Cardinality(T) >= diff.added
           /\ Len(diff.peek) + diff.more = diff.added + diff.removed

\* What belongs to a call of the record in truth, and whether its tool was
\* called once in its message
Place(h, k) == k + Len(talk) - Len(h)
Own(h, k) == {j \in Answers(h) : h[j].answers = Place(h, k)}
Alone(h, k) == \A j \in Calls(talk) \ {Place(h, k)} :
                  talk[j].at = h[k].at => talk[j].deed.tool # h[k].deed.tool
Good(h, k) == \E j \in Own(h, k) : h[j].kind = "toolResult"
Quiet(h, k) == \A j \in Own(h, k) : ~h[j].alarms

\* README.md:25 "a per-worktree transcript: context / parallel / edit / verify
\* activity lines, receipts".  The lines tell of the last calls Helm knows, all
\* of them when there is room, once and in order; a line of several calls is of
\* one message or of reads.  Where no message calls a tool twice, a call gets
\* its own result, also in a record that was cut, and so the checks and commits
\* counted as passed are those whose own tool succeeded in words that do not
\* alarm.
ReceiptsAreEarned ==
    LET h == Recorded(talk)
        lines == LinesOf(h)
        shown == FlattenSeq([n \in DOMAIN lines |-> lines[n].calls])
    IN  /\ IsSuffix(shown, Told(h))
        /\ Len(lines) < MaxLines => shown = Told(h)
        /\ \A n \in DOMAIN lines :
              LET calls == ToSet(lines[n].calls)
              IN  CASE lines[n].verb = "parallel" -> Cardinality({h[k].at : k \in calls}) = 1
                    [] lines[n].verb = "context" -> \A k \in calls : Category(h[k].deed) = "context"
                    [] OTHER -> Cardinality(calls) = 1
        /\ \A k \in Calls(h) : Alone(h, k) => Paired(h, k) \in Own(h, k) \cup {0}
        /\ (\A k \in Calls(h) : Alone(h, k)) =>
              /\ Verified(h) = Cardinality({k \in Checks(h) : Good(h, k) /\ Quiet(h, k)})
              /\ Commits(h) <= Cardinality({k \in Calls(h) : "commits" \in h[k].deed.does /\ Good(h, k)})
        /\ talk = <<>> => DiffIsLeast

\* What one would expect of the count of checks, and what does not hold: a check
\* that passed and says "0 failed" is counted as failed.
PassedIsCounted ==
    LET h == Recorded(talk)
    IN  (\A k \in Calls(h) : Alone(h, k)) =>
           Verified(h) = Cardinality({k \in Checks(h) : Good(h, k)})

\* README.md:30 "the receipt (what landed, ...)" is not kept: a change counts
\* although its edit failed, an edit too large for the record counts for
\* nothing, and a commit is no call of any category.
ReceiptIsWhatLanded ==
    LET h == Recorded(talk)
        landed == {k \in Edits(h) : Good(h, k)}
    IN  Pending = {} /\ Len(talk) = Len(h) =>
           /\ Added(h) = MapThenSumSet(LAMBDA k : h[k].deed.lands, landed)
           /\ Commits(h) = Cardinality({k \in Calls(h) : "commits" \in h[k].deed.does /\ Good(h, k)})
=============================================================================
