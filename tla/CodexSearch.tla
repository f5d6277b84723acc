---------------------------- MODULE CodexSearch ----------------------------
(***************************************************************************)
(* Web searches through an ephemeral Codex process (search/search.ts,      *)
(* search/register.ts): the tool and the command that start one, the limit *)
(* on how many run, the process with its timeout and cancellation, and the *)
(* filters its answer has to pass.                                         *)
(*                                                                         *)
(* A domain is the sequence of its labels; a final dot is a last label "". *)
(* Effort, depth, prompt and rendering do not decide about any of this.    *)
(***************************************************************************)
EXTENDS Integers, Sequences, FiniteSets, SequencesExt

CONSTANTS Searches,        \* calls of the tool or of the command
          Inputs,          \* what each may ask for
          Pages,           \* what Codex may cite
          MaxItems,        \* bound: sources in one answer
          MaxConcurrency   \* PI_CODEX_SEARCH_MAX_CONCURRENCY

VARIABLES active,   \* activeSearches
          search,   \* the searches
          child     \* their Codex processes

xvars == <<active, search, child>>

NoInput == [include |-> <<>>, exclude |-> <<>>, max |-> 1]
Nothing == [sources |-> <<>>, removed |-> 0, cited |-> <<>>]

Init ==
    /\ active = 0
    /\ search = [s \in Searches |-> [at |-> "idle", tool |-> FALSE, aborted |-> FALSE,
                                     dir |-> FALSE, cause |-> "none", input |-> NoInput,
                                     outcome |-> "none", result |-> Nothing]]
    /\ child = [s \in Searches |-> "none"]

-----------------------------------------------------------------------------
\* The filters

WithoutWww(d) == IF Len(d) > 1 /\ Head(d) = "www" THEN Tail(d) ELSE d

\* normalizeDomain, or <<>> for what is no domain
Domain(d) ==
    LET bare == WithoutWww(d)
        host == IF bare # <<>> /\ Last(bare) = "" THEN Front(bare) ELSE bare
    IN  IF Len(host) > 1 THEN host ELSE <<>>

Domains(requested) == {Domain(requested[k]) : k \in DOMAIN requested} \ {<<>>}

\* hostMatches
Matches(host, d) == IsSuffix(d, host)

\* Mutant: a domain that cannot be read is left out of the filter.
RefusedMutant(in) == FALSE

\* normalizedDomains throws for it.
Refused(in) == \E k \in DOMAIN (in.include \o in.exclude) : Domain((in.include \o in.exclude)[k]) = <<>>

\* validateAndFilterPayload; nothing is looked at any more when it is full.
Filtered(items, in) ==
    LET include == Domains(in.include)
        exclude == Domains(in.exclude)
        passes(u) == LET host == WithoutWww(u.host)
                     IN  /\ include # {} => \E d \in include : Matches(host, d)
                         /\ ~\E d \in exclude : Matches(host, d)
        take(r, u) ==
            IF Len(r.sources) = in.max THEN r
            ELSE IF u.http /\ passes(u)
                    /\ ~\E k \in DOMAIN r.sources : r.sources[k].host = u.host
            THEN [r EXCEPT !.sources = Append(@, u)]
            ELSE [r EXCEPT !.removed = @ + 1]
    IN  FoldLeft(take, [Nothing EXCEPT !.cited = items], items)

-----------------------------------------------------------------------------
\* searchWithLimit refuses at once; only a call of the tool has a signal.
Ask(s, in, tool) ==
    /\ search[s].at = "idle"
    /\ IF active >= MaxConcurrency
       THEN /\ search' = [search EXCEPT ![s].at = "done", ![s].outcome = "refused"]
            /\ UNCHANGED active
       ELSE /\ search' = [search EXCEPT ![s].at = "prepare", ![s].input = in, ![s].tool = tool]
            /\ active' = active + 1
    /\ UNCHANGED child

\* The work directory and the arguments; a signal that has fired by then
\* terminates the process it has just started.
Prepare(s) ==
    /\ search[s].at = "prepare"
    /\ IF Refused(search[s].input)
       THEN /\ search' = [search EXCEPT ![s].at = "cleanup", ![s].dir = TRUE, ![s].outcome = "error"]
            /\ UNCHANGED child
       ELSE /\ search' = [search EXCEPT ![s].at = "child", ![s].dir = TRUE,
                                        ![s].cause = IF search[s].aborted THEN "stop" ELSE "none"]
            /\ child' = [child EXCEPT ![s] = "running"]
    /\ UNCHANGED active

\* No work directory, or no executable to start
PrepareFails(s, spawned) ==
    /\ search[s].at = "prepare"
    /\ IF spawned /\ ~Refused(search[s].input)
       THEN /\ search' = [search EXCEPT ![s].at = "child", ![s].dir = TRUE, ![s].cause = "spawn"]
            /\ child' = [child EXCEPT ![s] = "failed"]
       ELSE /\ search' = [search EXCEPT ![s].at = "cleanup", ![s].outcome = "error"]
            /\ UNCHANGED child
    /\ UNCHANGED active

\* Mutant: who terminates the process does not wait for it.
TerminateMutant(s, aborts) ==
    search' = [search EXCEPT ![s].aborted = @ \/ aborts, ![s].cause = "stop",
                             ![s].at = "cleanup", ![s].outcome = "error"]

\* terminate: SIGTERM.  The first reason is the one reported.
Terminate(s, aborts) ==
    search' = [search EXCEPT ![s].aborted = @ \/ aborts,
                             ![s].cause = IF @ = "none" THEN "stop" ELSE @]

\* The operator cancels the tool call.  After the process has closed nobody
\* listens any more.
Abort(s) ==
    /\ search[s].tool /\ ~search[s].aborted /\ search[s].at # "done"
    /\ IF search[s].at = "child" THEN Terminate(s, TRUE)
       ELSE search' = [search EXCEPT ![s].aborted = TRUE]
    /\ UNCHANGED <<active, child>>

\* The timeout, or more output than is captured
Overrun(s) ==
    /\ search[s].at = "child" /\ search[s].cause = "none"
    /\ Terminate(s, FALSE)
    /\ UNCHANGED <<active, child>>

\* The process exits, by itself, on SIGTERM or, two seconds later, on SIGKILL.
ChildExits(s, status) ==
    /\ child[s] = "running"
    /\ child' = [child EXCEPT ![s] = status]
    /\ UNCHANGED <<active, search>>

ChildCloses(s) ==
    /\ search[s].at = "child" /\ child[s] \in {"ok", "failed"}
    /\ search' = IF search[s].cause = "none" /\ child[s] = "ok"
                 THEN [search EXCEPT ![s].at = "read"]
                 ELSE [search EXCEPT ![s].at = "cleanup", ![s].outcome = "error"]
    /\ UNCHANGED <<active, child>>

\* The file Codex has left: an answer and its sources, or nothing of use.
ResultRead(s, items) ==
    /\ search[s].at = "read"
    /\ search' = [search EXCEPT ![s].at = "cleanup", ![s].outcome = "answer",
                                ![s].result = Filtered(items, search[s].input)]
    /\ UNCHANGED <<active, child>>

ResultUnreadable(s) ==
    /\ search[s].at = "read"
    /\ search' = [search EXCEPT ![s].at = "cleanup", ![s].outcome = "error"]
    /\ UNCHANGED <<active, child>>

\* Both finally blocks; then the tool, or the command, tells the outcome.
CleanUp(s) ==
    /\ search[s].at = "cleanup"
    /\ search' = [search EXCEPT ![s].at = "done", ![s].dir = FALSE]
    /\ active' = active - 1
    /\ UNCHANGED child

Next ==
    \E s \in Searches :
       \/ \E in \in Inputs[s], tool \in BOOLEAN : Ask(s, in, tool)
       \/ Prepare(s) \/ Abort(s) \/ Overrun(s) \/ ChildCloses(s)
       \/ \E spawned \in BOOLEAN : PrepareFails(s, spawned)
       \/ \E status \in {"ok", "failed"} : ChildExits(s, status)
       \/ \E n \in 0 .. MaxItems : \E items \in [1 .. n -> Pages] : ResultRead(s, items)
       \/ ResultUnreadable(s) \/ CleanUp(s)

Spec == Init /\ [][Next]_xvars

-----------------------------------------------------------------------------
\* docs/search.md:85 "The child process is retained and terminated on
\* cancellation or timeout": a search that has been answered has left neither
\* a process nor a directory, the limit counts those that have, and a search
\* that was terminated gives no answer.
LeavesNothing ==
    /\ active = Cardinality({s \in Searches : search[s].at \notin {"idle", "done"}})
    /\ active <= MaxConcurrency
    /\ \A s \in Searches :
          /\ search[s].at = "done" => child[s] # "running" /\ ~search[s].dir
          /\ search[s].outcome = "answer" => search[s].cause = "none"

\* A domain names its hosts with or without www and a final dot.
Spelled(d) == {d, WithoutWww(d)} \cup (IF Last(d) = "" THEN {Front(d), WithoutWww(Front(d))} ELSE {})
Covers(d, host) == \E k \in DOMAIN host : SubSeq(host, k, Len(host)) \in Spelled(d)

\* register.ts:46-47 "Enforced on returned source URLs": every source comes
\* from a domain that was asked for and from none that was excluded, no page
\* comes twice, and what does not come is counted until there are enough.
FiltersEnforced ==
    \A s \in Searches : search[s].outcome = "answer" =>
       LET in == search[s].input
           r  == search[s].result
       IN  /\ \A k \in DOMAIN r.sources :
                 /\ in.include # <<>> => \E d \in ToSet(in.include) : Covers(d, r.sources[k].host)
                 /\ \A d \in ToSet(in.exclude) : ~Covers(d, r.sources[k].host)
           /\ IsInjective(r.sources) /\ Len(r.sources) <= in.max
           /\ Len(r.sources) < in.max => Len(r.sources) + r.removed = Len(r.cited)

\* What a search gives is what was asked for, and it leaves nothing behind.
SearchesAreClean == LeavesNothing /\ FiltersEnforced
=============================================================================
