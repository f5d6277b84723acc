---------------------------- MODULE QuotaReadings ----------------------------
(***************************************************************************)
(* What one refresh asks the providers and what the footer makes of the    *)
(* answers (usage/providers/*.ts, usage/types.ts, usage/ui.ts, footer.ts): *)
(* Codex over its credentials in order and then over a child process,      *)
(* Claude live or from the cache Claude Code keeps, Kimi live; the quota   *)
(* windows kept of an answer, what is left of a provider, the stacked bar  *)
(* and the line it stands in.                                              *)
(*                                                                         *)
(* An answer gives each window of its provider a use in per cent, or none. *)
(* The providers are read at once and share nothing; here in turn.  When   *)
(* and whether they are read is in UsageService.                           *)
(***************************************************************************)
EXTENDS Integers, Sequences, FiniteSetsExt, SequencesExt

CONSTANTS Uses,     \* what an answer may report of a window, in per cent
          Widths,   \* of the terminal
          Names     \* lengths of a directory, a branch, a cost and model

VARIABLES meters,   \* per provider: its snapshot, and what is left by it
          owed,     \* history: what the answer of the snapshot leaves
          reading,  \* the refresh of a provider
          line      \* the footer

meterVars == <<meters, owed, reading, line>>

Order == <<"codex", "claude", "kimi">>
Known == {"codex", "claude", "kimi"}
None  == -1

\* The windows of an answer, in the order the parser takes them.  Claude names
\* some windows twice: as a window and among its limits.
Windows == [codex  |-> <<"plan", "review", "extra">>,
            claude |-> <<"five_hour", "opus", "apps", "session", "opus_limit", "idle_limit">>,
            kimi   |-> <<"weekly", "limit">>]

\* What may be answered.  A repetition agrees: the session limit is the five
\* hours, and two Opus windows that reset together are one.
Answers == [p \in Known |->
    {a \in [use : [Range(Windows[p]) -> Uses \cup {None}], together : BOOLEAN] :
        IF p # "claude" THEN a.together
        ELSE /\ a.use["session"] \in {None, a.use["five_hour"]}
             /\ (a.together /\ a.use["opus"] # None)
              => a.use["opus_limit"] \in {None, a.use["opus"]}}]

Clamped(x) == IF x > 100 THEN 100 ELSE x

\* By the HTTP route the code review window does not count; the app server
\* gives all its limits one kind.
Binds(w, route) ==
    ~(w \in {"apps", "idle_limit"} \/ (w = "review" /\ route = "http"))

Bucket(a, w, route) ==
    [key  |-> IF w = "opus_limit" THEN <<"opus", IF a.together THEN 1 ELSE 2>> ELSE <<w, 1>>,
     used |-> Clamped(a.use[w]), health |-> Binds(w, route)]

\* Mutant: two windows of one label are one, whenever they reset.
DistinctMutant(buckets) ==
    LET first(i) == \A j \in DOMAIN buckets : j < i => buckets[j].key[1] # buckets[i].key[1]
    IN  {buckets[i] : i \in {i \in DOMAIN buckets : first(i)}}

\* dedupeBuckets: of one label and reset the first.
Distinct(buckets) ==
    LET first(i) == \A j \in DOMAIN buckets : j < i => buckets[j].key # buckets[i].key
    IN  {buckets[i] : i \in {i \in DOMAIN buckets : first(i)}}

\* parse...Payload: the windows with a number, without the limits Claude gives
\* a window of its own.
Buckets(p, a, route) ==
    LET w   == Windows[p]
        all == [i \in {i \in DOMAIN w : a.use[w[i]] # None /\ w[i] # "session"} |->
                   Bucket(a, w[i], route)]
    IN  IF p = "claude" THEN Distinct(all) ELSE Range(all)

\* providerRemaining.
Remaining(buckets) ==
    LET binding == {b \in buckets : b.health}
    IN  IF binding = {} THEN None ELSE Min({100 - b.used : b \in binding})

\* What the answer itself leaves of the plan: what its fullest window does.
Leaves(a, route) ==
    LET bound == {w \in DOMAIN a.use : a.use[w] # None /\ Binds(w, route)}
    IN  IF bound = {} THEN None ELSE Min({100 - Clamped(a.use[w]) : w \in bound})

\* What comes of the answers to a request; one without a window is an error.
Outcome(p, a, route) == [left |-> Remaining(Buckets(p, a, route)), owed |-> Leaves(a, route)]
Outcomes == [p \in Known |-> [route \in {"http", "server"} |->
    {Outcome(p, a, route) : a \in {a \in Answers[p] : Buckets(p, a, route) # {}}}]]

-----------------------------------------------------------------------------
Idle == [of |-> "none", left |-> <<>>, cached |-> {}, child |-> "none", asked |-> FALSE]
Unread == [state |-> "unread", left |-> None]
NoLine == [cells |-> <<>>, empty |-> 0, shown |-> 0, width |-> 0, cut |-> FALSE, fits |-> TRUE]

Init ==
    /\ meters = [p \in Known |-> Unread] /\ owed = [p \in Known |-> None]
    /\ reading = Idle /\ line = NoLine

TypeOK ==
    /\ meters \in [Known -> [state : {"unread", "failed", "live", "cache"}, left : -1 .. 100]]
    /\ owed \in [Known -> -1 .. 100]
    /\ reading.child \in {"none", "running", "killed"}

Takes(p, outcome, state) ==
    /\ meters' = [meters EXCEPT ![p] = [state |-> state, left |-> outcome.left]]
    /\ owed' = [owed EXCEPT ![p] = outcome.owed]

Fails(p) == meters' = [meters EXCEPT ![p].state = "failed"] /\ UNCHANGED owed

\* Codex: the credentials of its own CLI and of pi, each fresh or expired.
BeginCodex ==
    /\ reading = Idle /\ meters["codex"].state = "unread"
    /\ \E left \in BoundedSeq({"fresh", "expired"}, 2) :
          reading' = [Idle EXCEPT !.of = "codex", !.left = left]
    /\ UNCHANGED <<meters, owed, line>>

AtCredential(kind) ==
    reading.of = "codex" /\ reading.left # <<>> /\ Head(reading.left) = kind

ToNextCredential ==
    /\ reading' = [reading EXCEPT !.left = Tail(@)]
    /\ UNCHANGED <<meters, owed, line>>

SkipExpired == AtCredential("expired") /\ ToNextCredential

\* No answer, or one without windows.
CredentialFails == AtCredential("fresh") /\ ToNextCredential

CredentialAnswers ==
    /\ AtCredential("fresh")
    /\ \E o \in Outcomes["codex"]["http"] : Takes("codex", o, "live")
    /\ reading' = Idle /\ UNCHANGED line

\* fetchCodexUsageViaAppServer.
StartServer ==
    /\ reading.of = "codex" /\ reading.left = <<>> /\ reading.child = "none"
    /\ reading' = [reading EXCEPT !.child = "running"]
    /\ UNCHANGED <<meters, owed, line>>

\* The answer to "initialize" lets the limits be asked for.
ServerGreets ==
    /\ reading.child = "running" /\ ~reading.asked
    /\ reading' = [reading EXCEPT !.asked = TRUE]
    /\ UNCHANGED <<meters, owed, line>>

\* Mutant: the child is left alone.
FinishMutant == reading' = [reading EXCEPT !.of = "none"]

\* finish: once, and the child is killed.
Finish == reading' = [reading EXCEPT !.of = "none", !.child = "killed"]

ServerAnswers ==
    /\ reading.child = "running" /\ reading.asked
    /\ \E o \in Outcomes["codex"]["server"] : Takes("codex", o, "live")
    /\ Finish /\ UNCHANGED line

\* An error reply, an answer without windows, too much output, the timeout, the
\* exit of the child, or no child at all.
ServerFails ==
    /\ reading.child = "running" /\ reading.of = "codex"
    /\ Fails("codex") /\ Finish /\ UNCHANGED line

\* The killed child may still answer: nothing hears it.
ChildGoes ==
    /\ reading.of = "none" /\ reading.child = "killed"
    /\ reading' = Idle /\ UNCHANGED <<meters, owed, line>>

\* Claude: the cache of Claude Code is read first, then the credential.
BeginClaude ==
    /\ reading = Idle /\ meters["claude"].state = "unread"
    /\ \E cached \in {{}} \cup {{o} : o \in Outcomes["claude"]["http"]}, key \in {"fresh", "expired"} :
          reading' = [Idle EXCEPT !.of = "claude", !.left = <<key>>, !.cached = cached]
    /\ UNCHANGED <<meters, owed, line>>

ClaudeAnswers ==
    /\ reading.of = "claude" /\ reading.left = <<"fresh">>
    /\ \E o \in Outcomes["claude"]["http"] : Takes("claude", o, "live")
    /\ reading' = Idle /\ UNCHANGED line

\* No credential, no answer, or one without windows: the cache, if any.
ClaudeCached ==
    /\ reading.of = "claude"
    /\ IF reading.cached = {} THEN Fails("claude")
       ELSE \E o \in reading.cached : Takes("claude", o, "cache")
    /\ reading' = Idle /\ UNCHANGED line

\* Kimi: the token is in UsageService.
KimiAnswers ==
    /\ reading = Idle /\ meters["kimi"].state = "unread"
    /\ \/ \E o \in Outcomes["kimi"]["http"] : Takes("kimi", o, "live")
       \/ Fails("kimi")
    /\ UNCHANGED <<reading, line>>

-----------------------------------------------------------------------------
\* computeStackedBar: each provider its third of the bar, rounded; what does not
\* fit any more is taken from the last.
Share(p) == IF meters[p].left = None THEN 0 ELSE meters[p].left
Want(p, cells) == (2 * Share(p) * cells + 300) \div 600
Least(a, b) == IF a < b THEN a ELSE b

\* Mutant: the last provider is not cut.
BarMutant(cells) == [i \in 1 .. 3 |-> Want(Order[i], cells)]

Bar(cells) ==
    LET first  == Least(Want("codex", cells), cells)
        second == Least(Want("claude", cells), cells - first)
    IN  <<first, second, Least(Want("kimi", cells), cells - first - second)>>

\* The number behind the bar: -- when nothing is known.
Percent == (2 * (Share("codex") + Share("claude") + Share("kimi")) + 3) \div 6
NumberWidth ==
    IF \A p \in Known : meters[p].left = None THEN 2
    ELSE IF Percent = 100 THEN 4 ELSE IF Percent > 9 THEN 3 ELSE 2

Separator == 5
Sum3(s) == s[1] + s[2] + s[3]

\* buildNameGroup: the branch whole, the directory in what is left of the line.
NameGroup(cwd, branch, total, reserved) ==
    LET budget == total - reserved - (IF branch = 0 THEN 0 ELSE branch + (IF total >= 110 THEN 1 ELSE 0))
        dir    == IF total >= 110 /\ cwd > 0 /\ budget >= 4 THEN Least(cwd, budget) ELSE 0
    IN  dir + branch + (IF dir > 0 /\ branch > 0 THEN 1 ELSE 0)

\* What must stand in the line: the bar with its number, the context meter, the
\* cost and model on the right, and the tag of PAUSE ALL.
Fixed(width) == (IF width >= 90 THEN 30 ELSE 20) + 1 + NumberWidth
                + (IF width >= 70 THEN Separator + 17 ELSE 0)
Right(right) == IF right = 0 THEN 0 ELSE right + 2

\* Mutant: the separator behind the names is not counted.
ReservedMutant(width, branch, right, tag) == Fixed(width) + Right(right) + tag

Reserved(width, branch, right, tag) ==
    Fixed(width) + Right(right) + tag
    + (IF width >= 110 \/ branch > 0 THEN Separator ELSE 0)

\* renderFooter and renderHelmFooter.
Render ==
    /\ reading.of = "none" /\ \A p \in Known : meters[p].state # "unread"
    /\ line = NoLine
    /\ \E width \in Widths, cwd \in Names, branched \in Names, right \in Names, tag \in {0, 13} :
          LET branch == IF width >= 90 THEN branched ELSE 0
              names  == NameGroup(cwd, branch, width, Reserved(width, branch, right, tag))
              long   == tag + (IF names = 0 THEN 0 ELSE names + Separator)
                        + Fixed(width) + Right(right)
              cells  == IF width >= 90 THEN 30 ELSE 20
          IN  line' = [cells |-> Bar(cells), empty |-> cells - Sum3(Bar(cells)), shown |-> Percent,
                       width |-> width, cut |-> long > width,
                       fits |-> tag + (IF branch = 0 THEN 0 ELSE branch + Separator)
                                + Fixed(width) + Right(right) <= width]
    /\ UNCHANGED <<meters, owed, reading>>

Next ==
    \/ BeginCodex \/ SkipExpired \/ CredentialFails \/ CredentialAnswers
    \/ StartServer \/ ServerGreets \/ ServerAnswers \/ ServerFails \/ ChildGoes
    \/ BeginClaude \/ ClaudeAnswers \/ ClaudeCached \/ KimiAnswers
    \/ Render

Spec == Init /\ [][Next]_meterVars

-----------------------------------------------------------------------------
\* What is said to be left of a provider is what its fullest window leaves of
\* those that bind: never more, and nothing that no window says (providerRemaining
\* over what the parsers keep).
LeftIsTrue ==
    \A p \in Known : meters[p].left = owed[p]

\* A bar has its cells, and each provider is within one cell of its share.
BarIsFair ==
    line # NoLine =>
       LET cells == IF line.width >= 90 THEN 30 ELSE 20
       IN  /\ Sum3(line.cells) + line.empty = cells /\ line.empty >= 0
           /\ \A i \in 1 .. 3 : /\ 300 * line.cells[i] - Share(Order[i]) * cells < 300
                                /\ Share(Order[i]) * cells - 300 * line.cells[i] < 300

\* A directory name never crowds anything out: the line is cut only if it would
\* not fit without the directory (ui.ts: "a long cwd never crowds out the usage
\* bar").
NothingCrowdedOut == line.cut => ~line.fits

\* No refresh ends with its app server left running.
ServerIsStopped == reading.of = "none" => reading.child # "running"

ReadingsAreTrue == LeftIsTrue /\ BarIsFair /\ NothingCrowdedOut /\ ServerIsStopped
=============================================================================
