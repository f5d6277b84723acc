--------------------------- MODULE ScriptSandbox ---------------------------
(***************************************************************************)
(* A workflow script in its own process (workflows/workflow-sandbox.ts and *)
(* workflow-sandbox-child.ts), the requests it sends the host over IPC,    *)
(* the nested workflow() of workflows/workflow.ts, which runs a second     *)
(* script in a second process under the same limits, and the store and the *)
(* journal that both scripts share (workflows/shared-store.ts).            *)
(*                                                                         *)
(* A frame is one execution of a script: "main", or the n-th workflow()    *)
(* call of main.  Nested calls all run the same saved script.  The gates,  *)
(* the limiter and the retries of agent() are WorkflowRuntime's: here an   *)
(* agent runs, writes to the store and ends.  A call writes a key once, and *)
(* a value is named by the call that wrote it.                             *)
(***************************************************************************)
EXTENDS Naturals, Sequences, FiniteSets, FiniteSetsExt

CONSTANTS
    MainCalls,      \* calls of the main script
    NestedCalls,    \* calls of the nested script
    FanOut,         \* calls a script leaves outstanding
    Keys,           \* keys of the store
    MaxResumes      \* bound: resumes of the run

ASSUME SandboxAssumption ==
    /\ {MainCalls, NestedCalls, FanOut} \subseteq Nat \ {0}
    /\ MaxResumes \in Nat

Kinds  == {"agent", "workflow"}
Nested == 1 .. MainCalls
Main   == 0
Frames == {Main} \cup Nested
Calls  == 1 .. MainCalls + NestedCalls
Caller == Frames \X Calls
Write  == Keys \X Caller
Absent == <<>>
Entry  == [by : Caller, delta : SUBSET Write]
None   == [by |-> <<>>]

VARIABLES
    prog,       \* the calls of each script, in order
    frame,      \* per frame: state of the sandbox, what its script knows was spent
    req,        \* per frame and call: how far the request has got
    said,       \* per frame and call: budgetSpent of its response
    store,      \* SharedStore: per key who wrote its value, and agentDeltas
    wrote,      \* history: what each call wrote in this execution
    journal,    \* ManagedRun.journal, by index
    done,       \* history: calls of main that were journaled
    resumed,    \* the journal this execution replays, and whether it missed
    shared,     \* SharedRuntime: depth, spent
    resumes     \* counter behind MaxResumes

vars == <<prog, frame, req, said, store, wrote, journal, done, resumed, shared, resumes>>

Script(f)   == IF f = Main THEN prog.main ELSE prog.nested
CallsOf(f)  == DOMAIN Script(f)
IsAgent(f, i) == Script(f)[i] = "agent"
(* state.callSeq when the i-th call arrives: workflow() takes no index.    *)
Index(f, i) == Cardinality({j \in 1 .. i - 1 : IsAgent(f, j)})
Indices     == 0 .. MainCalls + NestedCalls
(* The frame of main's i-th call, a workflow().                            *)
FrameOf(i)  == i
(* `${runId}-nested${shared.depth}`: depth is 1 whenever a nested run is   *)
(* on, so every nested run of an execution has the same id.                *)
RunId(f)    == IF f = Main THEN "main" ELSE "nested"
DeltaKeys   == {"main", "nested"} \X Indices
DeltaKeyMutant(f, i) == <<"main", Index(f, i)>>       \* Mutant: callIndex alone
DeltaKey(f, i) == <<RunId(f), Index(f, i)>>

Alive == {"running"}                        \* the script runs
Ended == {"returned", "threw"}              \* its result is on the way
Open  == Alive \cup Ended \cup {"dead"}      \* the host still listens
Answers == {"answered", "null", "refused"}  \* a response on the way
Pending == {"sent", "running"} \cup Answers

TypeOK ==
    /\ prog \in [main : [1 .. MainCalls -> Kinds], nested : [1 .. NestedCalls -> Kinds]]
    /\ frame \in [Frames -> [st : Open \cup {"none", "value", "error"}, view : Nat]]
    /\ req \in [Frames -> [Calls -> Pending \cup {"none", "resolved", "lost"}]]
    /\ said \in [Frames -> [Calls -> Nat]]
    /\ store \in [map : [Keys -> Caller \cup {Absent}], deltas : [DeltaKeys -> SUBSET Write]]
    /\ wrote \in [Frames -> [Calls -> SUBSET Keys]]
    /\ journal \in [Indices -> Entry \cup {None}] /\ done \subseteq Calls
    /\ resumed \in [journal : [Indices -> Entry \cup {None}], missed : BOOLEAN,
                    replayed : SUBSET Calls]
    /\ shared \in [depth : Nat, spent : Nat]
    /\ resumes \in 0 .. MaxResumes

Each(x) == [f \in Frames |-> [c \in Calls |-> x]]
EmptyStore == [map |-> [k \in Keys |-> Absent], deltas |-> [d \in DeltaKeys |-> {}]]
Starting == [f \in Frames |-> [st |-> IF f = Main THEN "running" ELSE "none", view |-> 0]]

Init ==
    /\ prog \in [main : [1 .. MainCalls -> Kinds], nested : [1 .. NestedCalls -> Kinds]]
    /\ frame = Starting
    /\ req = Each("none") /\ said = Each(0) /\ wrote = Each({})
    /\ store = EmptyStore
    /\ journal = [n \in Indices |-> None] /\ done = {}
    /\ resumed = [journal |-> [n \in Indices |-> None], missed |-> FALSE, replayed |-> {}]
    /\ shared = [depth |-> 0, spent |-> 0]
    /\ resumes = 0

-----------------------------------------------------------------------------
(* The child process.                                                      *)

Outstanding(f) == {i \in CallsOf(f) : req[f][i] \in Pending}

(* request(): the next id is pending and its message is on the way.        *)
CallMade(f) ==
    /\ frame[f].st \in Alive
    /\ Cardinality(Outstanding(f)) < FanOut
    /\ \E i \in CallsOf(f) :
         /\ req[f][i] = "none"
         /\ \A j \in 1 .. i - 1 : req[f][j] # "none"
         /\ req' = [req EXCEPT ![f][i] = "sent"]
    /\ UNCHANGED <<prog, frame, said, store, wrote, journal, done, resumed, shared, resumes>>

(* The body returned, perhaps without awaiting every call, or threw.       *)
ScriptEnds(f) ==
    /\ frame[f].st \in Alive
    /\ \E end \in Ended : frame' = [frame EXCEPT ![f].st = end]
    /\ UNCHANGED <<prog, req, said, store, wrote, journal, done, resumed, shared, resumes>>

(* A response settles its request.  Whatever its outcome, it says how much *)
(* the run has spent by now.                                               *)
ViewAfter(f, i) == Max({frame[f].view, said[f][i]})

ResponseArrives(f, i) ==
    /\ frame[f].st \in Alive
    /\ req[f][i] \in Answers
    /\ req' = [req EXCEPT ![f][i] = "resolved"]
    /\ frame' = [frame EXCEPT ![f].view = ViewAfter(f, i)]
    /\ UNCHANGED <<prog, said, store, wrote, journal, done, resumed, shared, resumes>>

-----------------------------------------------------------------------------
(* The host: requests, in the order they were sent.                        *)

Answer(f, i, how) ==
    /\ req'  = [req EXCEPT ![f][i] = how]
    /\ said' = [said EXCEPT ![f][i] = shared'.spent]

(* The nested run has no resume journal.  Main's call is answered while    *)
(* the prefix is unbroken and the entry was made by the same call.         *)
Replays(f, i) ==
    /\ f = Main
    /\ ~resumed.missed
    /\ resumed.journal[Index(f, i)].by = <<f, i>>

KeysIn(delta) == {w[1] : w \in delta}

WriterIn(delta, k) == CHOOSE c \in Caller : <<k, c>> \in delta

\* Mutant: a key that is there already is left alone.
AppliedMutant(delta) ==
    [k \in Keys |-> IF k \in KeysIn(delta) /\ store.map[k] = Absent
                    THEN WriterIn(delta, k) ELSE store.map[k]]

(* applyDelta(): the values of the delta replace those that are there.     *)
Applied(delta) ==
    [k \in Keys |-> IF k \in KeysIn(delta) THEN WriterIn(delta, k) ELSE store.map[k]]

AgentArrives(f, i) ==
    IF Replays(f, i)
      THEN /\ store' = [store EXCEPT !.map = Applied(resumed.journal[Index(f, i)].delta)]
           /\ shared' = shared
           /\ Answer(f, i, "answered")
           /\ resumed' = [resumed EXCEPT !.replayed = @ \cup {i}]
           /\ frame' = frame
      ELSE /\ resumed' = [resumed EXCEPT !.missed = @ \/ f = Main]
           /\ req' = [req EXCEPT ![f][i] = "running"]
           /\ UNCHANGED <<frame, said, store, shared>>

(* workflow(): one level deep, by a count of the nested runs in progress.  *)
NestingAllowed == shared.depth = 0

WorkflowArrives(f, i) ==
    /\ IF NestingAllowed
         THEN /\ f = Main
              /\ shared' = [shared EXCEPT !.depth = @ + 1]
              /\ frame' = [frame EXCEPT ![FrameOf(i)] = [st |-> "running", view |-> shared.spent]]
              /\ req' = [req EXCEPT ![f][i] = "running"]
              /\ said' = said
         ELSE /\ shared' = shared /\ frame' = frame
              /\ Answer(f, i, "refused")
    /\ UNCHANGED <<store, resumed>>

RequestArrives(f, i) ==
    /\ frame[f].st \in Open
    /\ req[f][i] = "sent"
    /\ \A j \in 1 .. i - 1 : req[f][j] # "sent"
    /\ IF IsAgent(f, i) THEN AgentArrives(f, i) ELSE WorkflowArrives(f, i)
    /\ UNCHANGED <<prog, wrote, journal, done, resumes>>

-----------------------------------------------------------------------------
(* Agents.  They are not tied to the script that asked: one that was not   *)
(* awaited works on after it.                                              *)

Working(f, i) == i \in CallsOf(f) /\ IsAgent(f, i) /\ req[f][i] = "running"

(* store_put: trackPut() writes the map and the delta of the call.         *)
StorePut(f, i, k) ==
    /\ Working(f, i)
    /\ k \notin wrote[f][i]
    /\ LET d == DeltaKey(f, i)
       IN  store' = [map |-> [store.map EXCEPT ![k] = <<f, i>>],
                     deltas |-> [store.deltas EXCEPT ![d] =
                       {w \in @ : w[1] # k} \cup {<<k, <<f, i>>>>}]]
    /\ wrote' = [wrote EXCEPT ![f][i] = @ \cup {k}]
    /\ UNCHANGED <<prog, frame, req, said, journal, done, resumed, shared, resumes>>

(* onAgentJournal with commitDelta(); the manager keeps the latest entry   *)
(* of an index, whichever script it comes from.                            *)
AgentSucceeds(f, i) ==
    /\ Working(f, i)
    /\ shared' = [shared EXCEPT !.spent = @ + 1]
    /\ journal' = [journal EXCEPT ![Index(f, i)] =
         [by |-> <<f, i>>, delta |-> store.deltas[DeltaKey(f, i)]]]
    /\ store' = [store EXCEPT !.deltas[DeltaKey(f, i)] = {}]
    /\ done' = done \cup IF f = Main THEN {i} ELSE {}
    /\ Answer(f, i, "answered")
    /\ UNCHANGED <<prog, frame, wrote, resumed, resumes>>

(* Out of attempts: null, or an error the script cannot recover from.  The *)
(* tokens count, the writes stay, the delta is not committed.              *)
AgentFails(f, i) ==
    /\ Working(f, i)
    /\ shared' = [shared EXCEPT !.spent = @ + 1]
    /\ \E how \in {"null", "refused"} : Answer(f, i, how)
    /\ UNCHANGED <<prog, frame, store, wrote, journal, done, resumed, resumes>>

-----------------------------------------------------------------------------
(* The end of a sandbox: finish() runs once, then nobody listens.          *)

Dropped(f) == [c \in Calls |-> CASE req[f][c] \in {"sent"} \cup Answers -> "lost"
                                 [] OTHER -> req[f][c]]

(* The nested run's outcome answers the workflow() call it came from.      *)
Finish(f, outcome) ==
    /\ frame' = [frame EXCEPT ![f].st = outcome]
    /\ IF f = Main
         THEN /\ req' = [req EXCEPT ![f] = Dropped(f)]
              /\ UNCHANGED <<said, shared>>
         ELSE /\ shared' = [shared EXCEPT !.depth = @ - 1]
              /\ req' = [req EXCEPT ![f] = Dropped(f),
                   ![Main][f] = IF frame[Main].st \notin Open THEN "lost"
                                 ELSE IF outcome = "value" THEN "answered" ELSE "refused"]
              /\ said' = [said EXCEPT ![Main][f] = shared.spent]
    /\ UNCHANGED <<prog, store, wrote, journal, done, resumed, resumes>>

(* The result is behind every request the script sent before it.           *)
ResultArrives(f) ==
    /\ frame[f].st \in Ended
    /\ \A i \in CallsOf(f) : req[f][i] # "sent"
    /\ Finish(f, IF frame[f].st = "returned" THEN "value" ELSE "error")

(* The process dies: out of memory, or killed.                             *)
ChildDies(f) ==
    /\ frame[f].st \in Alive \cup Ended
    /\ frame' = [frame EXCEPT ![f].st = "dead"]
    /\ UNCHANGED <<prog, req, said, store, wrote, journal, done, resumed, shared, resumes>>

ExitHeardMutant(f) == FALSE                 \* Mutant: no exit listener
ExitHeard(f) == frame[f].st = "dead"

ExitArrives(f) == ExitHeard(f) /\ Finish(f, "error")

(* The run is stopped or paused: the signal settles every sandbox, and no  *)
(* agent is journaled after it.                                            *)
RunAborts ==
    /\ frame[Main].st \in Open
    /\ frame' = [f \in Frames |-> [frame[f] EXCEPT !.st = IF @ \in Open THEN "error" ELSE @]]
    /\ req' = [f \in Frames |-> [c \in Calls |->
         IF req[f][c] \in Pending THEN "lost" ELSE req[f][c]]]
    /\ shared' = [shared EXCEPT !.depth = 0]
    /\ UNCHANGED <<prog, said, store, wrote, journal, done, resumed, resumes>>

(* resume(): a new execution of the same script over the journal.          *)
RunResumes ==
    /\ resumes < MaxResumes
    /\ frame[Main].st = "error"
    /\ \A f \in Frames : frame[f].st \notin Open /\ \A i \in Calls : req[f][i] # "running"
    /\ resumes' = resumes + 1
    /\ frame' = Starting
    /\ req' = Each("none") /\ said' = Each(0) /\ wrote' = Each({})
    /\ store' = EmptyStore
    /\ resumed' = [journal |-> journal, missed |-> FALSE, replayed |-> {}]
    /\ shared' = [depth |-> 0, spent |-> 0]
    /\ UNCHANGED <<prog, journal, done>>

HostStep(f) == \/ \E i \in CallsOf(f) : RequestArrives(f, i)
               \/ ResultArrives(f)
               \/ ExitArrives(f)
AgentEnds(f, i) == AgentSucceeds(f, i) \/ AgentFails(f, i)

Next ==
    \/ \E f \in Frames : CallMade(f) \/ ScriptEnds(f) \/ ChildDies(f) \/ HostStep(f)
    \/ \E f \in Frames, i \in Calls :
         \/ ResponseArrives(f, i) \/ AgentEnds(f, i)
         \/ \E k \in Keys : StorePut(f, i, k)
    \/ RunAborts
    \/ RunResumes

Spec == Init /\ [][Next]_vars

(* The event loops run, the pipe delivers, an agent ends, and a script that *)
(* waits for nothing comes to its end.  Nothing makes a process die.  Each  *)
(* of these steps is taken finitely often, so no single one can starve.     *)
Progress(f) ==
    \/ HostStep(f)
    \/ \E i \in Calls : ResponseArrives(f, i) \/ AgentEnds(f, i)
    \/ ScriptEnds(f) /\ Outstanding(f) = {}

FairSpec == Spec /\ \A f \in Frames : WF_vars(Progress(f))

-----------------------------------------------------------------------------

(* What the journal keeps of a call of the main script is what that call   *)
(* wrote, all of it and nothing a nested agent of the same index wrote     *)
(* meanwhile (shared-store.ts, the reason for deltaKey).                   *)
Exact(e) == LET f == e.by[1]  i == e.by[2] IN
    (req[f][i] = "answered" /\ wrote[f][i] # {})
        => e.delta = {<<k, e.by>> : k \in wrote[f][i]}
MainDeltasExact ==
    \A n \in Indices : journal[n].by # <<>> /\ journal[n].by[1] = Main => Exact(journal[n])

(* The same of every call, nested ones included.                           *)
DeltasExact == \A n \in Indices : journal[n].by # <<>> => Exact(journal[n])

(* The value was written by an agent of this execution.                    *)
WrittenLive(k) == \E f \in Frames, i \in Calls : k \in wrote[f][i] /\ store.map[k] = <<f, i>>

(* A replayed call leaves its keys in the store, each with the value of the *)
(* last replayed call, in the order of the script, that wrote it, whatever *)
(* the order they once ended in (SharedStore.applyDelta), or with that of  *)
(* an agent that has run since.                                            *)
ReplayRestoresStore ==
    \A i \in resumed.replayed : \A k \in KeysIn(resumed.journal[Index(Main, i)].delta) :
       WrittenLive(k) \/ \E j \in resumed.replayed : j >= i /\ store.map[k] = <<Main, j>>

(* The journal keeps what a call wrote, and a replay puts it back.         *)
StoreIsExact == MainDeltasExact /\ ReplayRestoresStore

(* shared-store.ts:10-13 "rebuilds the store state additively in callSeq   *)
(* order, so parallel-agent writes are replayed correctly", :180 "when two *)
(* parallel agents write the same key, the last write wins": of the calls  *)
(* whose writes of a key are in the journal, the one that wrote last is the *)
(* one whose value a replay in that order would leave.                     *)
Writers(k) == {c \in Caller : k \in wrote[c[1]][c[2]]}
ReplayKeepsLastWrite ==
    \A k \in Keys :
       /\ Writers(k) # {} /\ resumed.replayed = {}
       /\ \A c \in Writers(k) : c[1] = Main /\ journal[Index(Main, c[2])].by = c
       => store.map[k] = <<Main, Max({c[2] : c \in Writers(k)})>>

(* Whatever becomes of the processes, every sandbox settles: the host is   *)
(* told of a value, an error or an exit, main awaits a nested run only as  *)
(* long as that is open, and in the end none is (runWorkflowSandbox).      *)
SandboxesSettle == <>[](\A f \in Frames : frame[f].st \notin Open)

(* A call that completed before an interruption, like all before it, is    *)
(* not run again by the resume of the same script (docs/workflows/README.md: *)
(* replay completed agents after interruption without rerunning them).     *)
CompletedNotRerun ==
    [][\A i \in CallsOf(Main) :
         IsAgent(Main, i) /\ req[Main][i] = "sent" /\ req'[Main][i] = "running" =>
         \E j \in 1 .. i : IsAgent(Main, j) /\ j \notin done]_vars
=============================================================================
