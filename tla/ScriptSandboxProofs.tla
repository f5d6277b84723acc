------------------------ MODULE ScriptSandboxProofs ------------------------
(***************************************************************************)
(* Proofs about ScriptSandbox, for any scripts, any number of resumes and  *)
(* whatever dies: nested runs are one at a time, what the journal keeps of *)
(* a call is what the call wrote, and a replay puts it back.               *)
(***************************************************************************)
EXTENDS ScriptSandbox, FiniteSetTheorems, TLAPS

(* A nested run is that of a workflow() call, and no other is open then:   *)
(* the count of WorkflowRuntime's shared depth is the number of them.      *)
NestedAlone ==
    /\ shared.depth \in {0, 1}
    /\ \A f \in Nested : frame[f].st \in Open => shared.depth = 1 /\ ~IsAgent(Main, f)
    /\ \A f, g \in Nested : frame[f].st \in Open /\ frame[g].st \in Open => f = g

(* What a call of main has written so far is its delta, until it ends.     *)
Written(i) == {<<k, <<Main, i>>>> : k \in wrote[Main][i]}
DeltasGrow ==
    \A i \in CallsOf(Main) : IsAgent(Main, i) =>
       /\ req[Main][i] \in {"none", "sent"} =>
             store.deltas[DeltaKey(Main, i)] = {} /\ wrote[Main][i] = {}
       /\ req[Main][i] = "running" => store.deltas[DeltaKey(Main, i)] = Written(i)

(* An entry of main was made by its agent of that index.                   *)
EntriesOfAgents ==
    \A n \in Indices : journal[n].by # <<>> /\ journal[n].by[1] = Main =>
       LET i == journal[n].by[2]
       IN  i \in CallsOf(Main) /\ IsAgent(Main, i) /\ Index(Main, i) = n

(* What such an entry keeps is by its agent: a replay writes that agent's  *)
(* values.                                                                 *)
Own(e) == e.by # <<>> /\ e.by[1] = Main => \A w \in e.delta : w[2] = e.by
EntriesOwn == \A n \in Indices : Own(journal[n]) /\ Own(resumed.journal[n])

(* The calls of main arrive in the order they are made, so of two that are *)
(* replayed the later one comes last.                                      *)
Came == {"running", "answered", "null", "refused", "resolved"}
Arrivals ==
    /\ \A i, j \in CallsOf(Main) : i < j =>
          /\ req[Main][j] # "none" => req[Main][i] # "none"
          /\ req[Main][j] \in Came => req[Main][i] # "sent"
    /\ \A f \in Nested : frame[f].st \in Open =>
          \/ req[Main][f] = "running"
          \/ req[Main][f] = "lost" /\ frame[Main].st \notin Open
    /\ \A i \in resumed.replayed :
          /\ i \in CallsOf(Main) /\ resumed.journal[Index(Main, i)].by = <<Main, i>>
          /\ req[Main][i] \in {"answered", "resolved"} \/ frame[Main].st \notin Open

SandboxInv ==
    /\ TypeOK /\ NestedAlone /\ DeltasGrow /\ EntriesOfAgents /\ StoreIsExact
    /\ EntriesOwn /\ Arrivals

-----------------------------------------------------------------------------
(* The calls of a script, and their indices.                               *)

LEMMA Scripts ==
    ASSUME TypeOK
    PROVE  /\ CallsOf(Main) = 1 .. MainCalls
           /\ \A f \in Nested : CallsOf(f) = 1 .. NestedCalls
           /\ \A f \in Frames : CallsOf(f) \subseteq Calls
           /\ Nested \subseteq Frames /\ Main \in Frames /\ Main \notin Nested
           /\ Nested = CallsOf(Main) /\ Nested \subseteq Calls
           /\ \A f \in Frames : f # Main => f \in Nested
<1>1. MainCalls \in Nat \ {0} /\ NestedCalls \in Nat \ {0}
  BY SandboxAssumption
<1>2. /\ DOMAIN prog.main = 1 .. MainCalls /\ DOMAIN prog.nested = 1 .. NestedCalls
  BY DEF TypeOK
<1>3. Main \notin Nested
  BY <1>1 DEF Main, Nested
<1>4. CallsOf(Main) = 1 .. MainCalls /\ \A f \in Nested : CallsOf(f) = 1 .. NestedCalls
  BY <1>2, <1>3 DEF CallsOf, Script
<1>5. 1 .. MainCalls \subseteq Calls /\ 1 .. NestedCalls \subseteq Calls
  BY <1>1 DEF Calls
<1> QED
  BY <1>3, <1>4, <1>5 DEF Frames, Nested

(* Two agents of one script have two indices.                              *)
LEMMA IndexOf ==
    ASSUME TypeOK, NEW f \in Frames
    PROVE  /\ \A i \in CallsOf(f) : Index(f, i) \in Indices
           /\ \A i, j \in CallsOf(f) : i # j /\ IsAgent(f, i) /\ IsAgent(f, j)
                                       => Index(f, i) # Index(f, j)
<1> DEFINE before(i) == {j \in 1 .. i - 1 : IsAgent(f, j)}
<1>1. CallsOf(f) \subseteq Calls /\ CallsOf(f) \subseteq Nat
  BY Scripts DEF Calls
<1>2. ASSUME NEW i \in CallsOf(f)
      PROVE  /\ IsFiniteSet(before(i)) /\ Cardinality(before(i)) \in Nat
             /\ Cardinality(before(i)) <= i - 1
  <2>1. i \in Nat /\ i >= 1
    BY <1>1, <1>2 DEF Calls
  <2>2. IsFiniteSet(1 .. i - 1) /\ Cardinality(1 .. i - 1) = i - 1
    BY <2>1, FS_Interval
  <2>3. before(i) \subseteq 1 .. i - 1
    OBVIOUS
  <2> HIDE DEF before
  <2> QED
    BY <2>2, <2>3, FS_Subset, FS_CardinalityType
<1>3. ASSUME NEW i \in CallsOf(f), NEW j \in CallsOf(f), i < j, IsAgent(f, i)
      PROVE  Cardinality(before(i)) # Cardinality(before(j))
  <2>1. i \in Nat /\ j \in Nat /\ i >= 1
    BY <1>1 DEF Calls
  <2>2. before(i) \subseteq before(j) /\ i \in before(j) /\ i \notin before(i)
    BY <1>3, <2>1
  <2>3. IsFiniteSet(before(j))
    BY <1>2
  <2> HIDE DEF before
  <2> QED
    BY <2>2, <2>3, FS_Subset
<1>4. \A i \in CallsOf(f) : Index(f, i) = Cardinality(before(i))
  BY DEF Index
<1> HIDE DEF before
<1>5. \A i \in CallsOf(f) : Index(f, i) \in Indices
  <2> SUFFICES ASSUME NEW i \in CallsOf(f) PROVE Index(f, i) \in Indices
    OBVIOUS
  <2>1. i \in 1 .. MainCalls + NestedCalls /\ MainCalls + NestedCalls \in Nat
    BY <1>1, SandboxAssumption DEF Calls
  <2> QED
    BY <1>2, <1>4, <2>1 DEF Indices
<1>6. \A i, j \in CallsOf(f) : i # j => i < j \/ j < i
  BY <1>1
<1> QED
  BY <1>3, <1>4, <1>5, <1>6

(* The scripts do not change.                                              *)
LEMMA SameScripts ==
    ASSUME prog' = prog
    PROVE  \A f, i : /\ CallsOf(f)' = CallsOf(f) /\ IsAgent(f, i)' = IsAgent(f, i)
                     /\ Index(f, i)' = Index(f, i) /\ DeltaKey(f, i)' = DeltaKey(f, i)
BY DEF CallsOf, Script, IsAgent, Index, DeltaKey, RunId

(* The delta of a call of main belongs to that call alone.                 *)
LEMMA DeltaKeys1 ==
    ASSUME TypeOK
    PROVE  /\ \A f \in Frames : \A i \in CallsOf(f) : DeltaKey(f, i) \in DeltaKeys
           /\ \A f \in Frames : \A i \in CallsOf(f), j \in CallsOf(Main) :
                 IsAgent(f, i) /\ IsAgent(Main, j) /\ DeltaKey(f, i) = DeltaKey(Main, j)
                 => f = Main /\ i = j
<1>1. Main \in Frames
  BY Scripts
<1>2. \A f \in Frames : \A i \in CallsOf(f) :
         DeltaKey(f, i) = <<IF f = Main THEN "main" ELSE "nested", Index(f, i)>>
  BY DEF DeltaKey, RunId
<1>3. \A f \in Frames : \A i \in CallsOf(f) : Index(f, i) \in Indices
  BY IndexOf
<1> QED
  BY <1>1, <1>2, <1>3, IndexOf DEF DeltaKeys

-----------------------------------------------------------------------------
(* The steps.                                                              *)

(* A step that writes neither to the journal nor to a delta, and answers   *)
(* no call of main that has written.                                       *)
LEMMA QuietStep ==
    ASSUME SandboxInv, TypeOK', NestedAlone', Arrivals', prog' = prog,
           UNCHANGED <<wrote, journal>>, store'.deltas = store.deltas,
           resumed'.journal = resumed.journal,
           (store'.map = store.map /\ resumed'.replayed = resumed.replayed) \/ ReplayRestoresStore',
           \A i \in CallsOf(Main) : IsAgent(Main, i) =>
              /\ req'[Main][i] \in {"none", "sent"} => req[Main][i] \in {"none", "sent"}
              /\ req'[Main][i] = "running" => req[Main][i] \in {"sent", "running"}
              /\ req'[Main][i] = "answered" => req[Main][i] = "answered" \/ wrote[Main][i] = {}
    PROVE  SandboxInv'
<1>1. \A f, i : /\ CallsOf(f)' = CallsOf(f) /\ IsAgent(f, i)' = IsAgent(f, i)
                /\ Index(f, i)' = Index(f, i) /\ DeltaKey(f, i)' = DeltaKey(f, i)
  BY SameScripts
<1>2. DeltasGrow'
  <2>1. \A i : Written(i)' = Written(i)
    BY DEF Written
  <2>2. \A i : wrote[Main][i] = {} => Written(i) = {}
    BY DEF Written
  <2> QED
    BY <1>1, <2>1, <2>2 DEF SandboxInv, DeltasGrow
<1>3. EntriesOfAgents'
  BY <1>1 DEF SandboxInv, EntriesOfAgents
<1>4. MainDeltasExact'
  <2> SUFFICES ASSUME NEW n \in Indices, journal[n].by # <<>>, journal[n].by[1] = Main,
                      req'[Main][journal[n].by[2]] = "answered", wrote[Main][journal[n].by[2]] # {}
               PROVE  journal[n].delta = {<<k, journal[n].by>> : k \in wrote[Main][journal[n].by[2]]}
    BY DEF MainDeltasExact, Exact, Indices
  <2>1. req[Main][journal[n].by[2]] = "answered"
    BY DEF SandboxInv, EntriesOfAgents
  <2> QED
    BY <2>1 DEF SandboxInv, StoreIsExact, MainDeltasExact, Exact
<1>5. ReplayRestoresStore'
  <2>1. CASE store'.map = store.map /\ resumed'.replayed = resumed.replayed
    BY <1>1, <2>1 DEF SandboxInv, StoreIsExact, ReplayRestoresStore, KeysIn, WrittenLive
  <2> QED
    BY <2>1
<1>6. EntriesOwn'
  BY DEF SandboxInv, EntriesOwn, Own, Indices
<1> QED
  BY <1>2, <1>3, <1>4, <1>5, <1>6 DEF SandboxInv, StoreIsExact

(* No call of main is made or arrives, and no sandbox opens.               *)
LEMMA NoArrival ==
    ASSUME SandboxInv, prog' = prog, resumed'.replayed = resumed.replayed,
           resumed'.journal = resumed.journal,
           \A f \in Frames : frame'[f].st \in Open => frame[f].st \in Open,
           \A j \in CallsOf(Main) :
              \/ req'[Main][j] = req[Main][j]
              \/ req'[Main][j] = "lost" /\ req[Main][j] # "none" /\ frame'[Main].st \notin Open
              \/ /\ req[Main][j] \in Came /\ req'[Main][j] \in Came
                 /\ req[Main][j] \in {"answered", "resolved"} => req'[Main][j] = "resolved"
                 /\ j \in Nested /\ frame'[j].st \in Open => req'[Main][j] = "running"
    PROVE  Arrivals'
<1>1. \A f, i : CallsOf(f)' = CallsOf(f) /\ Index(f, i)' = Index(f, i)
  BY SameScripts
<1>2. Nested = CallsOf(Main) /\ Main \in Frames /\ Nested \subseteq Frames
  BY Scripts DEF SandboxInv
<1>3. ASSUME NEW i \in CallsOf(Main), NEW j \in CallsOf(Main), i < j
      PROVE  /\ req'[Main][j] # "none" => req'[Main][i] # "none"
             /\ req'[Main][j] \in Came => req'[Main][i] # "sent"
  <2>1. /\ req[Main][j] # "none" => req[Main][i] # "none"
        /\ req[Main][j] \in Came => req[Main][i] # "sent"
    BY <1>3 DEF SandboxInv, Arrivals
  <2> QED
    BY <2>1 DEF Came
<1>4. ASSUME NEW f \in Nested, frame'[f].st \in Open
      PROVE  \/ req'[Main][f] = "running"
             \/ req'[Main][f] = "lost" /\ frame'[Main].st \notin Open
  <2>1. \/ req[Main][f] = "running"
        \/ req[Main][f] = "lost" /\ frame[Main].st \notin Open
    BY <1>2, <1>4 DEF SandboxInv, Arrivals
  <2> QED
    BY <1>2, <1>4, <2>1 DEF Came
<1>5. ASSUME NEW i \in resumed.replayed
      PROVE  /\ i \in CallsOf(Main) /\ resumed.journal[Index(Main, i)].by = <<Main, i>>
             /\ req'[Main][i] \in {"answered", "resolved"} \/ frame'[Main].st \notin Open
  <2>1. /\ i \in CallsOf(Main) /\ resumed.journal[Index(Main, i)].by = <<Main, i>>
        /\ req[Main][i] \in {"answered", "resolved"} \/ frame[Main].st \notin Open
    BY DEF SandboxInv, Arrivals
  <2> QED
    BY <1>2, <2>1
<1> QED
  BY <1>1, <1>3, <1>4, <1>5 DEF Arrivals

(* The call i of f arrives, and only that changes in main.                 *)
LEMMA OneArrival ==
    ASSUME SandboxInv, NEW f \in Frames, NEW i \in CallsOf(f), RequestArrives(f, i),
           prog' = prog, frame'[Main].st = frame[Main].st, resumed'.journal = resumed.journal,
           NEW how \in Came, req' = [req EXCEPT ![f][i] = how],
           \A g \in Nested : frame'[g].st \in Open =>
              frame[g].st \in Open \/ (f = Main /\ g = i /\ how = "running"),
           \A j \in resumed'.replayed :
              \/ j \in resumed.replayed
              \/ /\ f = Main /\ j = i /\ how = "answered"
                 /\ resumed.journal[Index(Main, i)].by = <<Main, i>>
    PROVE  Arrivals'
<1>1. \A g, j : CallsOf(g)' = CallsOf(g) /\ Index(g, j)' = Index(g, j)
  BY SameScripts
<1>2. TypeOK /\ i \in Calls /\ Main \in Frames /\ Nested = CallsOf(Main) /\ Nested \subseteq Calls
  BY Scripts DEF SandboxInv
<1>3. \A j \in Calls : req'[Main][j] = IF f = Main /\ j = i THEN how ELSE req[Main][j]
  BY <1>2 DEF TypeOK
<1>4. req[f][i] = "sent" /\ \A j \in 1 .. i - 1 : req[f][j] # "sent"
  BY DEF RequestArrives
<1>5. ASSUME NEW a \in CallsOf(Main), NEW b \in CallsOf(Main), a < b
      PROVE  /\ req'[Main][b] # "none" => req'[Main][a] # "none"
             /\ req'[Main][b] \in Came => req'[Main][a] # "sent"
  <2>1. /\ req[Main][b] # "none" => req[Main][a] # "none"
        /\ req[Main][b] \in Came => req[Main][a] # "sent"
    BY <1>5 DEF SandboxInv, Arrivals
  <2>2. f = Main /\ b = i => req[Main][a] # "sent" /\ a # i
    <3>1. a \in 1 .. MainCalls /\ b \in 1 .. MainCalls /\ MainCalls \in Nat
      BY <1>2, SandboxAssumption DEF Nested
    <3>2. a \in 1 .. b - 1 /\ a # b
      BY <1>5, <3>1
    <3> QED
      BY <1>4, <3>2
  <2> QED
    BY <1>2, <1>3, <1>4, <2>1, <2>2 DEF Came
<1>6. ASSUME NEW g \in Nested, frame'[g].st \in Open
      PROVE  \/ req'[Main][g] = "running"
             \/ req'[Main][g] = "lost" /\ frame'[Main].st \notin Open
  <2>1. CASE f = Main /\ g = i
    <3>1. frame[g].st \notin Open
      BY <1>4, <2>1 DEF SandboxInv, Arrivals
    <3> QED
      BY <1>2, <1>3, <1>6, <2>1, <3>1
  <2>2. CASE ~(f = Main /\ g = i)
    BY <1>2, <1>3, <1>6, <2>2 DEF SandboxInv, Arrivals
  <2> QED
    BY <2>1, <2>2
<1>7. ASSUME NEW j \in resumed'.replayed
      PROVE  /\ j \in CallsOf(Main) /\ resumed.journal[Index(Main, j)].by = <<Main, j>>
             /\ req'[Main][j] \in {"answered", "resolved"} \/ frame'[Main].st \notin Open
  <2>1. CASE /\ f = Main /\ j = i /\ how = "answered"
             /\ resumed.journal[Index(Main, i)].by = <<Main, i>>
    BY <1>2, <1>3, <2>1
  <2>2. CASE j \in resumed.replayed
    <3>1. /\ j \in CallsOf(Main) /\ resumed.journal[Index(Main, j)].by = <<Main, j>>
          /\ req[Main][j] \in {"answered", "resolved"} \/ frame[Main].st \notin Open
      BY <2>2 DEF SandboxInv, Arrivals
    <3>2. f = Main /\ j = i => frame[Main].st \notin Open
      BY <1>4, <3>1
    <3> QED
      BY <1>2, <1>3, <3>1, <3>2
  <2> QED
    BY <1>7, <2>1, <2>2
<1> QED
  BY <1>1, <1>5, <1>6, <1>7 DEF Arrivals

(* What a replayed call left behind is keys of the store.                  *)
LEMMA ReplayedKeys ==
    ASSUME SandboxInv, NEW j \in resumed.replayed,
           NEW k \in KeysIn(resumed.journal[Index(Main, j)].delta)
    PROVE  k \in Keys
<1>1. PICK w \in resumed.journal[Index(Main, j)].delta : w[1] = k
  BY DEF KeysIn
<1>2. j \in CallsOf(Main) /\ Main \in Frames
  BY Scripts DEF SandboxInv, Arrivals
<1>3. /\ resumed.journal[Index(Main, j)] \in Entry \cup {None}
      /\ resumed.journal[Index(Main, j)].by = <<Main, j>>
  BY <1>2, IndexOf DEF SandboxInv, TypeOK, Arrivals
<1> QED
  BY <1>1, <1>3 DEF Entry, None, Write

(* A sandbox changes its state.                                            *)
LEMMA StateOf ==
    ASSUME TypeOK, NEW f \in Frames, NEW st \in Open \cup {"none", "value", "error"},
           frame' = [frame EXCEPT ![f].st = st]
    PROVE  /\ frame' \in [Frames -> [st : Open \cup {"none", "value", "error"}, view : Nat]]
           /\ frame'[f].st = st
           /\ \A g \in Frames : g # f => frame'[g] = frame[g]
<1> DEFINE States == [st : Open \cup {"none", "value", "error"}, view : Nat]
           new    == [frame[f] EXCEPT !.st = st]
<1>1. frame \in [Frames -> States] /\ frame[f] \in States
  BY DEF TypeOK
<1>2. new \in States /\ new.st = st
  BY <1>1
<1> HIDE DEF States, new
<1>3. frame' = [frame EXCEPT ![f] = new]
  BY DEF new
<1>4. frame' \in [Frames -> States] /\ frame'[f] = new
      /\ \A g \in Frames : g # f => frame'[g] = frame[g]
  BY <1>1, <1>2, <1>3
<1> QED
  BY <1>2, <1>4 DEF States

(* What a script or its process does by itself.                            *)
LEMMA ScriptStep ==
    ASSUME SandboxInv, NEW f \in Frames, CallMade(f) \/ ScriptEnds(f) \/ ChildDies(f)
    PROVE  SandboxInv'
<1>1. /\ UNCHANGED <<prog, said, store, wrote, journal, done, resumed, shared, resumes>>
      /\ frame[f].st \in Open
  BY DEF CallMade, ScriptEnds, ChildDies, Open
<1>2. CASE CallMade(f)
  <2>1. PICK i \in CallsOf(f) :
           /\ req[f][i] = "none" /\ \A j \in 1 .. i - 1 : req[f][j] # "none"
           /\ req' = [req EXCEPT ![f][i] = "sent"]
    BY <1>2 DEF CallMade
  <2>2. frame' = frame
    BY <1>2 DEF CallMade
  <2>3. TypeOK /\ i \in Calls
    BY Scripts DEF SandboxInv
  <2>4. TypeOK'
    BY <1>1, <2>1, <2>2, <2>3 DEF TypeOK, Pending
  <2>5. NestedAlone'
    BY <1>1, <2>2 DEF SandboxInv, NestedAlone, IsAgent, Script
  <2>6. \A j \in Calls : req'[Main][j] = IF f = Main /\ j = i THEN "sent" ELSE req[Main][j]
    BY <2>1, <2>3, Scripts DEF TypeOK
  <2>7. Arrivals'
    <3>1. \A g, j : CallsOf(g)' = CallsOf(g) /\ Index(g, j)' = Index(g, j)
      BY <1>1, SameScripts
    <3>2. \A j \in CallsOf(Main) : j \in Calls
      BY <2>3, Scripts
    <3>3. ASSUME NEW a \in CallsOf(Main), NEW b \in CallsOf(Main), a < b
          PROVE  /\ req'[Main][b] # "none" => req'[Main][a] # "none"
                 /\ req'[Main][b] \in Came => req'[Main][a] # "sent"
      <4>1. /\ req[Main][b] # "none" => req[Main][a] # "none"
            /\ req[Main][b] \in Came => req[Main][a] # "sent"
        BY <3>3 DEF SandboxInv, Arrivals
      <4>2. f = Main /\ b = i => req[Main][a] # "none"
        <5>1. a \in 1 .. MainCalls /\ b \in 1 .. MainCalls /\ MainCalls \in Nat
          BY <2>3, Scripts, SandboxAssumption
        <5>2. a \in 1 .. b - 1
          BY <3>3, <5>1
        <5> QED
          BY <2>1, <5>2
      <4> QED
        BY <2>1, <2>6, <3>2, <4>1, <4>2 DEF Came
    <3>4. ASSUME NEW g \in Nested, frame[g].st \in Open
          PROVE  \/ req'[Main][g] = "running"
                 \/ req'[Main][g] = "lost" /\ frame[Main].st \notin Open
      <4>1. \/ req[Main][g] = "running"
            \/ req[Main][g] = "lost" /\ frame[Main].st \notin Open
        BY <3>4 DEF SandboxInv, Arrivals
      <4> QED
        BY <2>1, <2>3, <2>6, <4>1, Scripts
    <3>5. ASSUME NEW j \in resumed.replayed
          PROVE  /\ j \in CallsOf(Main) /\ resumed.journal[Index(Main, j)].by = <<Main, j>>
                 /\ req'[Main][j] \in {"answered", "resolved"} \/ frame[Main].st \notin Open
      <4>1. /\ j \in CallsOf(Main) /\ resumed.journal[Index(Main, j)].by = <<Main, j>>
            /\ req[Main][j] \in {"answered", "resolved"} \/ frame[Main].st \notin Open
        BY DEF SandboxInv, Arrivals
      <4> QED
        BY <2>1, <2>6, <3>2, <4>1
    <3> QED
      BY <1>1, <2>2, <3>1, <3>3, <3>4, <3>5 DEF Arrivals
  <2>8. \A j \in Calls : req'[Main][j] = req[Main][j]
                         \/ (req[Main][j] = "none" /\ req'[Main][j] = "sent")
    BY <2>1, <2>6
  <2> QED
    BY <1>1, <2>3, <2>4, <2>5, <2>7, <2>8, QuietStep, Scripts
<1>3. CASE ScriptEnds(f) \/ ChildDies(f)
  <2>1. PICK st \in Ended \cup {"dead"} : frame' = [frame EXCEPT ![f].st = st]
    BY <1>3 DEF ScriptEnds, ChildDies
  <2>2. req' = req /\ st \in Open
    BY <1>3, <2>1 DEF ScriptEnds, ChildDies, Open
  <2>3. TypeOK
    BY DEF SandboxInv
  <2>4. TypeOK'
    <3>1. frame' \in [Frames -> [st : Open \cup {"none", "value", "error"}, view : Nat]]
      BY <2>1, <2>2, <2>3, StateOf
    <3> QED
      BY <1>1, <2>2, <2>3, <3>1 DEF TypeOK
  <2>5. \A g \in Frames : frame'[g].st \in Open <=> frame[g].st \in Open
    BY <1>1, <2>1, <2>2, <2>3, StateOf
  <2>6. NestedAlone'
    BY <1>1, <2>3, <2>5, Scripts DEF SandboxInv, NestedAlone, IsAgent, Script
  <2>7. Arrivals'
    BY <1>1, <2>2, <2>5, NoArrival
  <2> QED
    BY <1>1, <2>2, <2>4, <2>6, <2>7, QuietStep
<1> QED
  BY <1>2, <1>3

(* A response arrives.                                                     *)
LEMMA ResponseStep ==
    ASSUME SandboxInv, NEW f \in Frames, NEW i \in Calls, ResponseArrives(f, i)
    PROVE  SandboxInv'
<1>1. /\ UNCHANGED <<prog, said, store, wrote, journal, done, resumed, shared, resumes>>
      /\ req' = [req EXCEPT ![f][i] = "resolved"]
      /\ frame' = [frame EXCEPT ![f].view = ViewAfter(f, i)]
  BY DEF ResponseArrives
<1>2. TypeOK
  BY DEF SandboxInv
<1>3. ViewAfter(f, i) \in Nat
  <2>1. frame[f].view \in Nat /\ said[f][i] \in Nat
    BY <1>2 DEF TypeOK
  <2> QED
    BY <2>1 DEF ViewAfter, Max
<1>4. TypeOK'
  BY <1>1, <1>2, <1>3 DEF TypeOK
<1>5. \A g \in Frames : frame'[g].st = frame[g].st
  BY <1>1, <1>2 DEF TypeOK
<1>6. NestedAlone'
  BY <1>1, <1>2, <1>5, Scripts DEF SandboxInv, NestedAlone, IsAgent, Script
<1>7. \A j \in Calls : \/ req'[Main][j] = req[Main][j]
                       \/ req[Main][j] \in Answers /\ req'[Main][j] = "resolved"
  BY <1>1, <1>2, Scripts DEF TypeOK, ResponseArrives
<1>8. Arrivals'
  <2>1. \A j \in Nested : frame'[j].st \in Open => req[Main][j] \notin Answers
    BY <1>2, <1>5, Scripts DEF SandboxInv, Arrivals, Answers
  <2>2. Answers \subseteq Came /\ "resolved" \in Came
    BY DEF Answers, Came
  <2> QED
    BY <1>1, <1>2, <1>5, <1>7, <2>1, <2>2, NoArrival, Scripts
<1>9. \A j \in Calls : req'[Main][j] = req[Main][j] \/ req'[Main][j] = "resolved"
  BY <1>7
<1> QED
  BY <1>1, <1>2, <1>4, <1>6, <1>8, <1>9, QuietStep, Scripts

(* An agent() arrives: it is replayed, or begins.                          *)
LEMMA AgentStep ==
    ASSUME SandboxInv, NEW f \in Frames, NEW i \in CallsOf(f), RequestArrives(f, i),
           IsAgent(f, i)
    PROVE  SandboxInv'
<1>1. /\ AgentArrives(f, i) /\ req[f][i] = "sent"
      /\ UNCHANGED <<prog, wrote, journal, done, resumes>>
  BY DEF RequestArrives
<1>2. TypeOK /\ i \in Calls
  BY Scripts DEF SandboxInv
<1>3. CASE Replays(f, i)
  <2>1. /\ store' = [store EXCEPT !.map = Applied(resumed.journal[Index(f, i)].delta)]
        /\ shared' = shared /\ frame' = frame
        /\ req' = [req EXCEPT ![f][i] = "answered"]
        /\ said' = [said EXCEPT ![f][i] = shared.spent]
        /\ resumed' = [resumed EXCEPT !.replayed = @ \cup {i}]
    BY <1>1, <1>3 DEF AgentArrives, Answer
  <2>2. /\ f = Main /\ Index(f, i) \in Indices
        /\ resumed.journal[Index(f, i)].by = <<f, i>>
    BY <1>2, <1>3, IndexOf DEF Replays
  <2>3. resumed.journal[Index(f, i)].delta \subseteq Write
    <3>1. resumed.journal[Index(f, i)] \in Entry \cup {None}
      BY <1>2, <2>2 DEF TypeOK
    <3>2. resumed.journal[Index(f, i)] # None
      BY <2>2 DEF None
    <3> QED
      BY <3>1, <3>2 DEF Entry
  <2> DEFINE delta == resumed.journal[Index(f, i)].delta
  <2>4. /\ \A k \in KeysIn(delta) : k \in Keys /\ WriterIn(delta, k) = <<Main, i>>
        /\ Applied(delta) \in [Keys -> Caller \cup {Absent}]
    <3>1. \A w \in delta : w[2] = <<Main, i>>
      BY <2>2 DEF SandboxInv, EntriesOwn, Own
    <3>2. <<Main, i>> \in Caller
      BY <1>2, Scripts DEF Caller
    <3>3. ASSUME NEW k \in KeysIn(delta) PROVE k \in Keys /\ WriterIn(delta, k) = <<Main, i>>
      <4>1. PICK w \in delta : w[1] = k
        BY <3>3 DEF KeysIn
      <4>2. w \in Write /\ w[2] = <<Main, i>>
        BY <2>3, <3>1
      <4>3. k \in Keys /\ w = <<k, <<Main, i>>>>
        BY <4>1, <4>2 DEF Write
      <4>4. <<k, <<Main, i>>>> \in delta
        BY <4>3
      <4>5. \A c \in Caller : <<k, c>> \in delta => c = <<Main, i>>
        BY <3>1
      <4> HIDE DEF delta
      <4> QED
        BY <3>2, <4>3, <4>4, <4>5 DEF WriterIn
    <3> HIDE DEF delta
    <3> QED
      BY <1>2, <3>2, <3>3 DEF TypeOK, Applied
  <2>5. TypeOK'
    <3>1. store' \in [map : [Keys -> Caller \cup {Absent}], deltas : [DeltaKeys -> SUBSET Write]]
      BY <1>2, <2>1, <2>4 DEF TypeOK
    <3>2. said' \in [Frames -> [Calls -> Nat]]
      BY <1>2, <2>1 DEF TypeOK
    <3>3. req' \in [Frames -> [Calls -> Pending \cup {"none", "resolved", "lost"}]]
      BY <1>2, <2>1 DEF TypeOK, Pending, Answers
    <3>4. resumed' \in [journal : [Indices -> Entry \cup {None}], missed : BOOLEAN,
                        replayed : SUBSET Calls]
      BY <1>2, <2>1 DEF TypeOK
    <3> QED
      BY <1>1, <1>2, <2>1, <3>1, <3>2, <3>3, <3>4 DEF TypeOK
  <2>6. NestedAlone'
    BY <1>1, <2>1 DEF SandboxInv, NestedAlone, IsAgent, Script
  <2>7. wrote[Main][i] = {}
    BY <1>1, <2>2 DEF SandboxInv, DeltasGrow
  <2>8. \A j \in Calls : req'[Main][j] = req[Main][j] \/ (j = i /\ req'[Main][j] = "answered")
    BY <1>2, <2>1, Scripts DEF TypeOK
  <2>9. /\ store'.deltas = store.deltas
        /\ store'.map = Applied(delta)
        /\ resumed'.journal = resumed.journal
        /\ resumed'.replayed = resumed.replayed \cup {i}
    BY <1>2, <2>1 DEF TypeOK
  <2>10. Arrivals'
    BY <1>1, <1>2, <2>1, <2>2, <2>9, OneArrival DEF Came
  <2>11. \A j \in resumed.replayed : j \in Nat /\ i \in Nat /\ i >= j
    <3>1. frame[Main].st \in Open
      BY <2>2 DEF RequestArrives
    <3>2. ASSUME NEW j \in resumed.replayed
          PROVE  j \in CallsOf(Main) /\ req[Main][j] \in Came
      BY <3>1 DEF SandboxInv, Arrivals, Came
    <3>3. \A j \in CallsOf(Main) : j \in Nat
      BY <1>2, Scripts, SandboxAssumption
    <3>4. \A j \in CallsOf(Main) : i < j /\ req[Main][j] \in Came => req[Main][i] # "sent"
      BY <2>2 DEF SandboxInv, Arrivals
    <3> QED
      BY <1>1, <2>2, <3>2, <3>3, <3>4
  <2>12. ReplayRestoresStore'
    <3>1. \A g, j : Index(g, j)' = Index(g, j)
      BY <1>1, SameScripts
    <3> HIDE DEF delta
    <3> SUFFICES ASSUME NEW j \in resumed'.replayed,
                        NEW k \in KeysIn(resumed.journal[Index(Main, j)].delta)
                 PROVE  WrittenLive(k)'
                        \/ \E m \in resumed'.replayed : m >= j /\ store'.map[k] = <<Main, m>>
      BY <2>9, <3>1 DEF ReplayRestoresStore, KeysIn
    <3>2. CASE k \in KeysIn(delta)
      <4>1. store'.map[k] = <<Main, i>>
        BY <2>4, <2>9, <3>2 DEF Applied
      <4>2. i >= j
        <5>1. i \in CallsOf(Main) /\ CallsOf(Main) = 1 .. MainCalls /\ MainCalls \in Nat
          BY <1>2, <2>2, Scripts, SandboxAssumption
        <5> QED
          BY <2>9, <2>11, <5>1
      <4> QED
        BY <2>9, <4>1, <4>2
    <3>3. CASE k \notin KeysIn(delta)
      <4>1. j \in resumed.replayed
        BY <2>2, <2>9, <3>3 DEF delta
      <4>2. WrittenLive(k) \/ \E m \in resumed.replayed : m >= j /\ store.map[k] = <<Main, m>>
        BY <4>1 DEF SandboxInv, StoreIsExact, ReplayRestoresStore
      <4>3. k \in Keys => store'.map[k] = store.map[k]
        BY <2>9, <3>3 DEF Applied
      <4>4. k \in Keys
        BY <4>1, ReplayedKeys
      <4> QED
        BY <1>1, <2>9, <4>2, <4>3, <4>4 DEF WrittenLive
    <3> QED
      BY <3>2, <3>3
  <2> HIDE DEF delta
  <2> QED
    BY <1>1, <1>2, <2>2, <2>5, <2>6, <2>7, <2>8, <2>9, <2>10, <2>12, QuietStep, Scripts
<1>4. CASE ~Replays(f, i)
  <2>1. /\ req' = [req EXCEPT ![f][i] = "running"] /\ UNCHANGED <<frame, said, store, shared>>
        /\ resumed' = [resumed EXCEPT !.missed = @ \/ f = Main]
    BY <1>1, <1>4 DEF AgentArrives
  <2>2. TypeOK'
    <3>1. req' \in [Frames -> [Calls -> Pending \cup {"none", "resolved", "lost"}]]
      BY <1>2, <2>1 DEF TypeOK, Pending
    <3>2. resumed' \in [journal : [Indices -> Entry \cup {None}], missed : BOOLEAN,
                        replayed : SUBSET Calls]
      BY <1>2, <2>1 DEF TypeOK
    <3> QED
      BY <1>1, <1>2, <2>1, <3>1, <3>2 DEF TypeOK
  <2>3. NestedAlone'
    BY <1>1, <2>1 DEF SandboxInv, NestedAlone, IsAgent, Script
  <2>4. \A j \in Calls : req'[Main][j] = req[Main][j]
                         \/ (req[Main][j] = "sent" /\ req'[Main][j] = "running")
    BY <1>1, <1>2, <2>1, Scripts DEF TypeOK
  <2>5. resumed'.journal = resumed.journal /\ resumed'.replayed = resumed.replayed
    BY <1>2, <2>1 DEF TypeOK
  <2>6. Arrivals'
    BY <1>1, <1>2, <2>1, <2>5, OneArrival DEF Came
  <2> QED
    BY <1>1, <1>2, <2>1, <2>2, <2>3, <2>4, <2>5, <2>6, QuietStep, Scripts
<1> QED
  BY <1>3, <1>4

(* A workflow() arrives: a nested run opens, if none is.                   *)
LEMMA WorkflowStep ==
    ASSUME SandboxInv, NEW f \in Frames, NEW i \in CallsOf(f), RequestArrives(f, i),
           ~IsAgent(f, i)
    PROVE  SandboxInv'
<1>1. /\ WorkflowArrives(f, i) /\ req[f][i] = "sent"
      /\ UNCHANGED <<prog, wrote, journal, done, resumes, store, resumed>>
  BY DEF RequestArrives, WorkflowArrives
<1>2. TypeOK /\ i \in Calls
  BY Scripts DEF SandboxInv
<1>3. CASE NestingAllowed
  <2>1. /\ f = Main /\ shared' = [shared EXCEPT !.depth = @ + 1]
        /\ frame' = [frame EXCEPT ![i] = [st |-> "running", view |-> shared.spent]]
        /\ req' = [req EXCEPT ![f][i] = "running"] /\ said' = said
    BY <1>1, <1>3 DEF WorkflowArrives, FrameOf
  <2>2. shared.depth = 0 /\ i \in Nested
    BY <1>2, <1>3, <2>1, Scripts DEF NestingAllowed
  <2>3. shared'.depth = 1 /\ shared' \in [depth : Nat, spent : Nat]
    <3>1. shared \in [depth : Nat, spent : Nat]
      BY <1>2 DEF TypeOK
    <3> QED
      BY <2>1, <2>2, <3>1
  <2>4. frame' \in [Frames -> [st : Open \cup {"none", "value", "error"}, view : Nat]]
    BY <1>2, <2>1, <2>2, Scripts DEF TypeOK, Open, Alive
  <2>5. req' \in [Frames -> [Calls -> Pending \cup {"none", "resolved", "lost"}]]
    BY <1>2, <2>1 DEF TypeOK, Pending
  <2>6. TypeOK'
    BY <1>1, <1>2, <2>1, <2>3, <2>4, <2>5 DEF TypeOK
  <2>7. \A g \in Nested : g # i => frame'[g].st \notin Open
    BY <1>2, <2>1, <2>2, Scripts DEF SandboxInv, NestedAlone, TypeOK
  <2>8. NestedAlone'
    BY <1>1, <2>1, <2>2, <2>3, <2>7, SameScripts DEF NestedAlone
  <2>9. \A j \in Calls : req'[Main][j] = req[Main][j] \/ j = i
    BY <1>2, <2>1, Scripts DEF TypeOK
  <2>10. Arrivals'
    <3>1. frame'[Main] = frame[Main]
      BY <1>2, <2>1, <2>2, Scripts DEF TypeOK
    <3> QED
      BY <1>1, <2>1, <2>7, <3>1, OneArrival DEF Came
  <2> QED
    BY <1>1, <1>2, <2>1, <2>6, <2>8, <2>9, <2>10, QuietStep, Scripts
<1>4. CASE ~NestingAllowed
  <2>1. /\ UNCHANGED <<shared, frame>> /\ req' = [req EXCEPT ![f][i] = "refused"]
        /\ said' = [said EXCEPT ![f][i] = shared.spent]
    BY <1>1, <1>4 DEF WorkflowArrives, Answer
  <2>2. TypeOK'
    <3>1. req' \in [Frames -> [Calls -> Pending \cup {"none", "resolved", "lost"}]]
      BY <1>2, <2>1 DEF TypeOK, Pending, Answers
    <3>2. said' \in [Frames -> [Calls -> Nat]]
      BY <1>2, <2>1 DEF TypeOK
    <3> QED
      BY <1>1, <1>2, <2>1, <3>1, <3>2 DEF TypeOK
  <2>3. NestedAlone'
    BY <1>1, <2>1, SameScripts DEF SandboxInv, NestedAlone
  <2>4. \A j \in Calls : req'[Main][j] = req[Main][j] \/ req'[Main][j] = "refused"
    BY <1>2, <2>1, Scripts DEF TypeOK
  <2>5. Arrivals'
    BY <1>1, <2>1, OneArrival DEF Came
  <2> QED
    BY <1>1, <1>2, <2>1, <2>2, <2>3, <2>4, <2>5, QuietStep, Scripts
<1> QED
  BY <1>3, <1>4

(* An agent writes to the store.                                           *)
LEMMA PutStep ==
    ASSUME SandboxInv, NEW f \in Frames, NEW i \in Calls, NEW k \in Keys, StorePut(f, i, k)
    PROVE  SandboxInv'
<1> DEFINE d == DeltaKey(f, i)
           delta == {w \in store.deltas[d] : w[1] # k} \cup {<<k, <<f, i>>>>}
<1>1. /\ i \in CallsOf(f) /\ IsAgent(f, i) /\ req[f][i] = "running" /\ k \notin wrote[f][i]
      /\ store' = [map |-> [store.map EXCEPT ![k] = <<f, i>>],
                   deltas |-> [store.deltas EXCEPT ![d] = delta]]
      /\ wrote' = [wrote EXCEPT ![f][i] = @ \cup {k}]
      /\ UNCHANGED <<prog, frame, req, said, journal, done, resumed, shared, resumes>>
  BY DEF StorePut, Working
<1>2. TypeOK
  BY DEF SandboxInv
<1>3. d \in DeltaKeys
  BY <1>1, <1>2, DeltaKeys1
<1>4. delta \subseteq Write
  BY <1>2, <1>3 DEF TypeOK, Write, Caller
<1>5. /\ store'.map[k] = <<f, i>> /\ \A m \in Keys : m # k => store'.map[m] = store.map[m]
      /\ store'.deltas[d] = delta
      /\ \A e \in DeltaKeys : e # d => store'.deltas[e] = store.deltas[e]
  BY <1>1, <1>2, <1>3 DEF TypeOK
<1>6. /\ wrote'[f][i] = wrote[f][i] \cup {k}
      /\ \A j \in Calls : f # Main \/ j # i => wrote'[Main][j] = wrote[Main][j]
  BY <1>1, <1>2, Scripts DEF TypeOK
<1>7. TypeOK'
  <2> HIDE DEF d, delta
  <2>1. store' \in [map : [Keys -> Caller \cup {Absent}], deltas : [DeltaKeys -> SUBSET Write]]
    BY <1>1, <1>2, <1>3, <1>4 DEF TypeOK, Caller
  <2>2. wrote' \in [Frames -> [Calls -> SUBSET Keys]]
    BY <1>1, <1>2 DEF TypeOK
  <2> QED
    BY <1>1, <1>2, <2>1, <2>2 DEF TypeOK
<1>8. \A g, j : /\ CallsOf(g)' = CallsOf(g) /\ IsAgent(g, j)' = IsAgent(g, j)
                /\ Index(g, j)' = Index(g, j) /\ DeltaKey(g, j)' = DeltaKey(g, j)
  BY <1>1, SameScripts
<1>9. NestedAlone' /\ EntriesOfAgents'
  BY <1>1, <1>8 DEF SandboxInv, NestedAlone, EntriesOfAgents
<1>10. DeltasGrow'
  <2> SUFFICES ASSUME NEW j \in CallsOf(Main), IsAgent(Main, j)
               PROVE  /\ req[Main][j] \in {"none", "sent"} =>
                            store'.deltas[DeltaKey(Main, j)] = {} /\ wrote'[Main][j] = {}
                      /\ req[Main][j] = "running" =>
                            store'.deltas[DeltaKey(Main, j)] = Written(j)'
    BY <1>1, <1>8 DEF DeltasGrow
  <2>1. CASE f = Main /\ j = i
    <3>1. store.deltas[d] = {<<m, <<Main, i>>>> : m \in wrote[Main][i]}
      BY <1>1, <2>1 DEF SandboxInv, DeltasGrow, Written
    <3>2. \A w \in store.deltas[d] : w[1] # k
      BY <1>1, <2>1, <3>1
    <3>3. delta = {<<m, <<Main, i>>>> : m \in wrote[Main][i] \cup {k}}
      BY <2>1, <3>1, <3>2
    <3> HIDE DEF delta
    <3>4. store'.deltas[d] = Written(j)'
      BY <1>5, <1>6, <2>1, <3>3 DEF Written
    <3> QED
      BY <1>1, <2>1, <3>4
  <2>2. CASE ~(f = Main /\ j = i)
    <3>1. /\ DeltaKey(Main, j) # d /\ DeltaKey(Main, j) \in DeltaKeys
          /\ j \in Calls
      BY <1>1, <1>2, <2>2, DeltaKeys1, Scripts
    <3>2. /\ store'.deltas[DeltaKey(Main, j)] = store.deltas[DeltaKey(Main, j)]
          /\ wrote'[Main][j] = wrote[Main][j]
      BY <1>5, <1>6, <2>2, <3>1
    <3> QED
      BY <3>2 DEF SandboxInv, DeltasGrow, Written
  <2> QED
    BY <2>1, <2>2
<1>11. MainDeltasExact'
  <2> SUFFICES ASSUME NEW n \in Indices, journal[n].by # <<>>, journal[n].by[1] = Main,
                      req[Main][journal[n].by[2]] = "answered", wrote'[Main][journal[n].by[2]] # {}
               PROVE  journal[n].delta = {<<m, journal[n].by>> : m \in wrote'[Main][journal[n].by[2]]}
    BY <1>1 DEF MainDeltasExact, Exact, Indices
  <2>1. journal[n].by[2] \in Calls
    BY <1>2, Scripts DEF SandboxInv, EntriesOfAgents
  <2>2. wrote'[Main][journal[n].by[2]] = wrote[Main][journal[n].by[2]]
    BY <1>1, <1>6, <2>1
  <2> QED
    BY <2>2 DEF SandboxInv, StoreIsExact, MainDeltasExact, Exact
<1>12. ReplayRestoresStore'
  <2> SUFFICES ASSUME NEW j \in resumed.replayed,
                      NEW m \in KeysIn(resumed.journal[Index(Main, j)].delta)
               PROVE  WrittenLive(m)'
                      \/ \E n \in resumed.replayed : n >= j /\ store'.map[m] = <<Main, n>>
    BY <1>1, <1>8 DEF ReplayRestoresStore, KeysIn
  <2>1. CASE m = k
    BY <1>1, <1>5, <1>6, <2>1 DEF WrittenLive
  <2>2. CASE m # k
    <3>1. store'.map[m] = store.map[m]
      BY <1>5, <2>2, ReplayedKeys
    <3>2. \A g \in Frames, c \in Calls : wrote[g][c] \subseteq wrote'[g][c]
      BY <1>1, <1>2 DEF TypeOK
    <3>3. WrittenLive(m) \/ \E n \in resumed.replayed : n >= j /\ store.map[m] = <<Main, n>>
      BY DEF SandboxInv, StoreIsExact, ReplayRestoresStore
    <3> QED
      BY <3>1, <3>2, <3>3 DEF WrittenLive
  <2> QED
    BY <2>1, <2>2
<1>13. EntriesOwn' /\ Arrivals'
  BY <1>1, <1>8 DEF SandboxInv, EntriesOwn, Own, Arrivals, Indices
<1> QED
  BY <1>7, <1>9, <1>10, <1>11, <1>12, <1>13 DEF SandboxInv, StoreIsExact

(* An agent succeeds: its delta goes to the journal.                       *)
LEMMA SuccessStep ==
    ASSUME SandboxInv, NEW f \in Frames, NEW i \in Calls, AgentSucceeds(f, i)
    PROVE  SandboxInv'
<1> DEFINE d == DeltaKey(f, i)
           e == [by |-> <<f, i>>, delta |-> store.deltas[d]]
<1>1. /\ i \in CallsOf(f) /\ IsAgent(f, i) /\ req[f][i] = "running"
      /\ shared' = [shared EXCEPT !.spent = @ + 1]
      /\ journal' = [journal EXCEPT ![Index(f, i)] = e]
      /\ store' = [store EXCEPT !.deltas[d] = {}]
      /\ done' = done \cup IF f = Main THEN {i} ELSE {}
      /\ req' = [req EXCEPT ![f][i] = "answered"]
      /\ said' = [said EXCEPT ![f][i] = shared'.spent]
      /\ UNCHANGED <<prog, frame, wrote, resumed, resumes>>
  BY DEF AgentSucceeds, Working, Answer
<1>2. TypeOK
  BY DEF SandboxInv
<1>3. d \in DeltaKeys /\ Index(f, i) \in Indices
  BY <1>1, <1>2, DeltaKeys1, IndexOf
<1>4. e \in Entry /\ e.by = <<f, i>> /\ e.delta = store.deltas[d]
  BY <1>2, <1>3 DEF TypeOK, Entry, Caller
<1>5. /\ store'.map = store.map
      /\ \A x \in DeltaKeys : x # d => store'.deltas[x] = store.deltas[x]
  BY <1>1, <1>2, <1>3 DEF TypeOK
<1>6. /\ journal'[Index(f, i)] = e
      /\ \A n \in Indices : n # Index(f, i) => journal'[n] = journal[n]
  <2> HIDE DEF e
  <2> QED
    BY <1>1, <1>2, <1>3 DEF TypeOK
<1>7. /\ req'[f][i] = "answered"
      /\ \A j \in Calls : f # Main \/ j # i => req'[Main][j] = req[Main][j]
  BY <1>1, <1>2, Scripts DEF TypeOK
<1>8. TypeOK'
  <2> HIDE DEF d, e
  <2>1. store' \in [map : [Keys -> Caller \cup {Absent}], deltas : [DeltaKeys -> SUBSET Write]]
    BY <1>1, <1>2, <1>3 DEF TypeOK
  <2>2. shared' \in [depth : Nat, spent : Nat]
    <3>1. shared \in [depth : Nat, spent : Nat]
      BY <1>2 DEF TypeOK
    <3> QED
      BY <1>1, <3>1
  <2>3. req' \in [Frames -> [Calls -> Pending \cup {"none", "resolved", "lost"}]]
    BY <1>1, <1>2 DEF TypeOK, Pending, Answers
  <2>4. said' \in [Frames -> [Calls -> Nat]]
    BY <1>1, <1>2, <2>2 DEF TypeOK
  <2>5. journal' \in [Indices -> Entry \cup {None}] /\ done' \subseteq Calls
    BY <1>1, <1>2, <1>3, <1>4 DEF TypeOK
  <2> QED
    BY <1>1, <1>2, <2>1, <2>2, <2>3, <2>4, <2>5 DEF TypeOK
<1>9. \A g, j : /\ CallsOf(g)' = CallsOf(g) /\ IsAgent(g, j)' = IsAgent(g, j)
                /\ Index(g, j)' = Index(g, j) /\ DeltaKey(g, j)' = DeltaKey(g, j)
  BY <1>1, SameScripts
<1>10. NestedAlone'
  <2>1. shared'.depth = shared.depth
    BY <1>1, <1>2 DEF TypeOK
  <2> QED
    BY <1>1, <1>9, <2>1 DEF SandboxInv, NestedAlone
<1>11. EntriesOfAgents'
  <2> SUFFICES ASSUME NEW n \in Indices, journal'[n].by # <<>>, journal'[n].by[1] = Main
               PROVE  LET j == journal'[n].by[2]
                      IN  j \in CallsOf(Main) /\ IsAgent(Main, j) /\ Index(Main, j) = n
    BY <1>9 DEF EntriesOfAgents, Indices
  <2>1. CASE n = Index(f, i)
    BY <1>1, <1>4, <1>6, <2>1
  <2>2. CASE n # Index(f, i)
    BY <1>6, <2>2 DEF SandboxInv, EntriesOfAgents
  <2> QED
    BY <2>1, <2>2
<1>12. DeltasGrow'
  <2> SUFFICES ASSUME NEW j \in CallsOf(Main), IsAgent(Main, j)
               PROVE  /\ req'[Main][j] \in {"none", "sent"} =>
                            store'.deltas[DeltaKey(Main, j)] = {} /\ wrote[Main][j] = {}
                      /\ req'[Main][j] = "running" =>
                            store'.deltas[DeltaKey(Main, j)] = Written(j)
    BY <1>1, <1>9 DEF DeltasGrow, Written
  <2>1. CASE f = Main /\ j = i
    BY <1>7, <2>1
  <2>2. CASE ~(f = Main /\ j = i)
    <3>1. /\ DeltaKey(Main, j) # d /\ DeltaKey(Main, j) \in DeltaKeys
          /\ j \in Calls
      BY <1>1, <1>2, <2>2, DeltaKeys1, Scripts
    <3>2. /\ store'.deltas[DeltaKey(Main, j)] = store.deltas[DeltaKey(Main, j)]
          /\ req'[Main][j] = req[Main][j]
      BY <1>5, <1>7, <2>2, <3>1
    <3> QED
      BY <3>2 DEF SandboxInv, DeltasGrow
  <2> QED
    BY <2>1, <2>2
<1>13. MainDeltasExact'
  <2> SUFFICES ASSUME NEW n \in Indices, journal'[n].by # <<>>, journal'[n].by[1] = Main,
                      req'[Main][journal'[n].by[2]] = "answered", wrote[Main][journal'[n].by[2]] # {}
               PROVE  journal'[n].delta = {<<m, journal'[n].by>> : m \in wrote[Main][journal'[n].by[2]]}
    BY <1>1 DEF MainDeltasExact, Exact, Indices
  <2>1. CASE n = Index(f, i)
    <3>1. f = Main
      BY <1>4, <1>6, <2>1
    <3>2. store.deltas[d] = {<<m, <<Main, i>>>> : m \in wrote[Main][i]}
      BY <1>1, <3>1 DEF SandboxInv, DeltasGrow, Written
    <3> HIDE DEF e, d
    <3> QED
      BY <1>4, <1>6, <2>1, <3>1, <3>2
  <2>2. CASE n # Index(f, i)
    <3>1. journal'[n] = journal[n]
      BY <1>6, <2>2
    <3>2. /\ journal[n].by[2] \in CallsOf(Main) /\ journal[n].by[2] \in Calls
          /\ Index(Main, journal[n].by[2]) = n
      BY <1>2, <3>1, Scripts DEF SandboxInv, EntriesOfAgents
    <3>3. req[Main][journal[n].by[2]] = "answered"
      BY <1>7, <2>2, <3>1, <3>2
    <3> QED
      BY <3>1, <3>3 DEF SandboxInv, StoreIsExact, MainDeltasExact, Exact
  <2> QED
    BY <2>1, <2>2
<1>14. ReplayRestoresStore'
  BY <1>1, <1>5, <1>9 DEF SandboxInv, StoreIsExact, ReplayRestoresStore, KeysIn,
                          WrittenLive
<1>15. EntriesOwn'
  <2> SUFFICES ASSUME NEW n \in Indices PROVE Own(journal'[n]) /\ Own(resumed.journal[n])
    BY <1>1 DEF EntriesOwn, Own, Indices
  <2>1. CASE n = Index(f, i)
    <3>1. f = Main => store.deltas[d] = {<<m, <<Main, i>>>> : m \in wrote[Main][i]}
      BY <1>1 DEF SandboxInv, DeltasGrow, Written
    <3> HIDE DEF e, d
    <3> QED
      BY <1>4, <1>6, <2>1, <3>1 DEF SandboxInv, EntriesOwn, Own
  <2>2. CASE n # Index(f, i)
    BY <1>6, <2>2 DEF SandboxInv, EntriesOwn
  <2> QED
    BY <2>1, <2>2
<1>16. Arrivals'
  <2>1. ASSUME NEW j \in CallsOf(Main), req'[Main][j] # req[Main][j]
        PROVE  req[Main][j] = "running" /\ req'[Main][j] = "answered" /\ IsAgent(Main, j)
    BY <1>1, <1>2, <1>7, <2>1, Scripts
  <2>2. \A j \in Nested : IsAgent(Main, j) => frame[j].st \notin Open
    BY DEF SandboxInv, NestedAlone
  <2> QED
    BY <1>1, <2>1, <2>2, NoArrival DEF Came
<1> QED
  BY <1>8, <1>10, <1>11, <1>12, <1>13, <1>14, <1>15, <1>16 DEF SandboxInv, StoreIsExact

(* An agent fails: what it wrote stays.                                    *)
LEMMA FailureStep ==
    ASSUME SandboxInv, NEW f \in Frames, NEW i \in Calls, AgentFails(f, i)
    PROVE  SandboxInv'
<1>1. PICK how \in {"null", "refused"} : Answer(f, i, how)
  BY DEF AgentFails
<1>2. /\ shared' = [shared EXCEPT !.spent = @ + 1]
      /\ req' = [req EXCEPT ![f][i] = how] /\ said' = [said EXCEPT ![f][i] = shared'.spent]
      /\ UNCHANGED <<prog, frame, store, wrote, journal, done, resumed, resumes>>
  BY <1>1 DEF AgentFails, Answer
<1>3. TypeOK
  BY DEF SandboxInv
<1>4. shared' \in [depth : Nat, spent : Nat] /\ shared'.depth = shared.depth
  <2>1. shared \in [depth : Nat, spent : Nat]
    BY <1>3 DEF TypeOK
  <2> QED
    BY <1>2, <2>1
<1>5. TypeOK'
  <2>1. req' \in [Frames -> [Calls -> Pending \cup {"none", "resolved", "lost"}]]
    BY <1>2, <1>3 DEF TypeOK, Pending, Answers
  <2>2. said' \in [Frames -> [Calls -> Nat]]
    BY <1>2, <1>3, <1>4 DEF TypeOK
  <2> QED
    BY <1>2, <1>3, <1>4, <2>1, <2>2 DEF TypeOK
<1>6. NestedAlone'
  BY <1>2, <1>4, SameScripts DEF SandboxInv, NestedAlone
<1>7. \A j \in Calls : req'[Main][j] = req[Main][j] \/ req'[Main][j] = how
  BY <1>2, <1>3, Scripts DEF TypeOK
<1>8. Arrivals'
  <2>1. /\ i \in CallsOf(f) /\ IsAgent(f, i) /\ req[f][i] = "running"
    BY DEF AgentFails, Working
  <2>2. ASSUME NEW j \in CallsOf(Main), req'[Main][j] # req[Main][j]
        PROVE  req[Main][j] = "running" /\ req'[Main][j] = how /\ IsAgent(Main, j)
    BY <1>2, <1>3, <2>1, <2>2, Scripts DEF TypeOK
  <2>3. \A j \in Nested : IsAgent(Main, j) => frame[j].st \notin Open
    BY DEF SandboxInv, NestedAlone
  <2> QED
    BY <1>2, <2>2, <2>3, NoArrival DEF Came
<1> QED
  BY <1>2, <1>3, <1>5, <1>6, <1>7, <1>8, QuietStep, Scripts

(* A sandbox settles.                                                      *)
LEMMA FinishStep ==
    ASSUME SandboxInv, NEW f \in Frames, frame[f].st \in Open,
           NEW outcome \in {"value", "error"}, Finish(f, outcome)
    PROVE  SandboxInv'
<1>1. /\ frame' = [frame EXCEPT ![f].st = outcome]
      /\ UNCHANGED <<prog, store, wrote, journal, done, resumed, resumes>>
      /\ outcome \notin Open
  BY DEF Finish, Open, Alive, Ended
<1>2. TypeOK
  BY DEF SandboxInv
<1>3. /\ frame' \in [Frames -> [st : Open \cup {"none", "value", "error"}, view : Nat]]
      /\ frame'[f].st = outcome /\ \A g \in Frames : g # f => frame'[g].st = frame[g].st
  BY <1>1, <1>2, StateOf
<1>4. /\ Dropped(f) \in [Calls -> Pending \cup {"none", "resolved", "lost"}]
      /\ \A c \in Calls : Dropped(f)[c] = req[f][c] \/ Dropped(f)[c] = "lost"
  BY <1>2 DEF TypeOK, Dropped
<1>5. CASE f = Main
  <2>1. req' = [req EXCEPT ![f] = Dropped(f)] /\ UNCHANGED <<said, shared>>
    BY <1>5 DEF Finish
  <2>2. TypeOK'
    <3>1. req' \in [Frames -> [Calls -> Pending \cup {"none", "resolved", "lost"}]]
      BY <1>2, <1>4, <2>1 DEF TypeOK
    <3> QED
      BY <1>1, <1>2, <1>3, <2>1, <3>1 DEF TypeOK
  <2>3. NestedAlone'
    BY <1>1, <1>2, <1>3, <1>5, <2>1, SameScripts, Scripts DEF SandboxInv, NestedAlone
  <2>4. \A j \in Calls : req'[Main][j] = req[Main][j] \/ req'[Main][j] = "lost"
    BY <1>2, <1>4, <1>5, <2>1 DEF TypeOK
  <2>5. Arrivals'
    <3>1. ASSUME NEW j \in CallsOf(Main), req'[Main][j] # req[Main][j]
          PROVE  req'[Main][j] = "lost" /\ req[Main][j] # "none"
      <4>1. j \in Calls /\ Main \in Frames
        BY <1>2, Scripts
      <4>2. req'[Main][j] = Dropped(Main)[j]
        BY <1>2, <1>5, <2>1, <4>1 DEF TypeOK
      <4>3. Dropped(Main)[j] = IF req[Main][j] \in {"sent"} \cup Answers THEN "lost"
                                ELSE req[Main][j]
        BY <4>1 DEF Dropped
      <4> QED
        BY <3>1, <4>2, <4>3 DEF Answers
    <3> QED
      BY <1>1, <1>3, <1>5, <3>1, NoArrival
  <2> QED
    BY <1>1, <1>2, <2>2, <2>3, <2>4, <2>5, QuietStep, Scripts
<1>6. CASE f # Main
  <2> DEFINE how == IF frame[Main].st \notin Open THEN "lost"
                     ELSE IF outcome = "value" THEN "answered" ELSE "refused"
  <2>1. /\ shared' = [shared EXCEPT !.depth = @ - 1]
        /\ req' = [req EXCEPT ![f] = Dropped(f), ![Main][f] = how]
        /\ said' = [said EXCEPT ![Main][f] = shared.spent]
    BY <1>6 DEF Finish
  <2>2. /\ f \in Nested /\ f \in Calls /\ shared.depth = 1 /\ ~IsAgent(Main, f)
        /\ \A g \in Nested : g # f => frame[g].st \notin Open
    BY <1>2, <1>6, Scripts DEF SandboxInv, NestedAlone
  <2>3. how \in Pending \cup {"none", "resolved", "lost"}
    BY DEF Pending, Answers
  <2> HIDE DEF how
  <2>4. shared' \in [depth : Nat, spent : Nat] /\ shared'.depth = 0
    <3>1. shared \in [depth : Nat, spent : Nat]
      BY <1>2 DEF TypeOK
    <3> QED
      BY <2>1, <2>2, <3>1
  <2>5. req' \in [Frames -> [Calls -> Pending \cup {"none", "resolved", "lost"}]]
    BY <1>2, <1>4, <1>6, <2>1, <2>2, <2>3, Scripts DEF TypeOK
  <2>6. said' \in [Frames -> [Calls -> Nat]]
    BY <1>2, <2>1 DEF TypeOK
  <2>7. TypeOK'
    BY <1>1, <1>2, <1>3, <2>4, <2>5, <2>6 DEF TypeOK
  <2>8. NestedAlone'
    <3>1. \A g \in Nested : frame'[g].st \notin Open
      BY <1>1, <1>2, <1>3, <2>2, Scripts
    <3> QED
      BY <2>4, <3>1 DEF NestedAlone, Nested, Open, Alive, Ended
  <2>9. \A j \in Calls : j # f => req'[Main][j] = req[Main][j]
    BY <1>2, <1>6, <2>1, Scripts DEF TypeOK
  <2>10. Arrivals'
    <3>1. /\ frame'[Main].st = frame[Main].st /\ f \in CallsOf(Main)
          /\ CallsOf(Main) \subseteq Calls
      BY <1>2, <1>3, <1>6, <2>2, Scripts
    <3>2. req'[Main][f] = how
      BY <1>2, <1>6, <2>1, <2>2, Scripts DEF TypeOK
    <3>3. \/ req[Main][f] = "running"
          \/ req[Main][f] = "lost" /\ frame[Main].st \notin Open
      BY <2>2 DEF SandboxInv, Arrivals
    <3>4. /\ frame[Main].st \in Open => how \in {"answered", "refused"}
          /\ frame[Main].st \notin Open => how = "lost"
      BY DEF how
    <3>5. \/ req'[Main][f] = req[Main][f]
          \/ req'[Main][f] = "lost" /\ req[Main][f] # "none" /\ frame'[Main].st \notin Open
          \/ req[Main][f] = "running" /\ req'[Main][f] \in Came
      BY <3>1, <3>2, <3>3, <3>4 DEF Came
    <3> QED
      BY <1>1, <1>3, <2>9, <3>1, <3>5, NoArrival DEF Came
  <2> QED
    BY <1>1, <1>2, <2>2, <2>7, <2>8, <2>9, <2>10, QuietStep, Scripts
<1> QED
  BY <1>5, <1>6

(* The run is stopped, or paused.                                          *)
LEMMA AbortStep == ASSUME SandboxInv, RunAborts PROVE SandboxInv'
<1>1. /\ frame' = [f \in Frames |-> [frame[f] EXCEPT !.st = IF @ \in Open THEN "error" ELSE @]]
      /\ req' = [f \in Frames |-> [c \in Calls |->
            IF req[f][c] \in Pending THEN "lost" ELSE req[f][c]]]
      /\ shared' = [shared EXCEPT !.depth = 0]
      /\ UNCHANGED <<prog, said, store, wrote, journal, done, resumed, resumes>>
  BY DEF RunAborts
<1>2. TypeOK /\ "error" \notin Open
  BY DEF SandboxInv, Open, Alive, Ended
<1>3. /\ frame' \in [Frames -> [st : Open \cup {"none", "value", "error"}, view : Nat]]
      /\ \A f \in Frames : frame'[f].st \notin Open
  <2>1. ASSUME NEW f \in Frames
        PROVE  /\ [frame[f] EXCEPT !.st = IF @ \in Open THEN "error" ELSE @]
                     \in [st : Open \cup {"none", "value", "error"}, view : Nat]
               /\ [frame[f] EXCEPT !.st = IF @ \in Open THEN "error" ELSE @].st \notin Open
    <3>1. frame[f] \in [st : Open \cup {"none", "value", "error"}, view : Nat]
      BY <1>2 DEF TypeOK
    <3>2. CASE frame[f].st \in Open
      BY <1>2, <3>1, <3>2
    <3>3. CASE frame[f].st \notin Open
      BY <3>1, <3>3
    <3> QED
      BY <3>2, <3>3
  <2> QED
    BY <1>1, <2>1
<1>4. shared' \in [depth : Nat, spent : Nat] /\ shared'.depth = 0
  BY <1>1, <1>2 DEF TypeOK
<1>5. /\ req' \in [Frames -> [Calls -> Pending \cup {"none", "resolved", "lost"}]]
      /\ \A c \in Calls : req'[Main][c] = req[Main][c] \/ req'[Main][c] = "lost"
  BY <1>1, <1>2, Scripts DEF TypeOK
<1>6. TypeOK'
  BY <1>1, <1>2, <1>3, <1>4, <1>5 DEF TypeOK
<1>7. NestedAlone'
  BY <1>2, <1>3, <1>4, Scripts DEF NestedAlone, Nested, Open, Alive, Ended
<1>8. Arrivals'
  <2>1. ASSUME NEW j \in CallsOf(Main), req'[Main][j] # req[Main][j]
        PROVE  req'[Main][j] = "lost" /\ req[Main][j] # "none"
    BY <1>1, <1>2, <2>1, Scripts DEF Pending, Answers
  <2> QED
    BY <1>1, <1>2, <1>3, <2>1, NoArrival, Scripts
<1> QED
  BY <1>1, <1>2, <1>5, <1>6, <1>7, <1>8, QuietStep, Scripts

(* What every execution starts with.                                       *)
LEMMA Fresh ==
    /\ Starting \in [Frames -> [st : Open \cup {"none", "value", "error"}, view : Nat]]
    /\ \A f \in Nested : Starting[f].st \notin Open
    /\ Each("none") \in [Frames -> [Calls -> Pending \cup {"none", "resolved", "lost"}]]
    /\ Each(0) \in [Frames -> [Calls -> Nat]] /\ Each({}) \in [Frames -> [Calls -> SUBSET Keys]]
    /\ EmptyStore \in [map : [Keys -> Caller \cup {Absent}], deltas : [DeltaKeys -> SUBSET Write]]
    /\ \A d \in DeltaKeys : EmptyStore.deltas[d] = {}
    /\ \A f \in Frames, i \in Calls : Each("none")[f][i] = "none" /\ Each({})[f][i] = {}
<1>1. \A f \in Nested : f # Main /\ f \in Frames
  BY SandboxAssumption DEF Nested, Main, Frames
<1> QED
  BY <1>1 DEF Starting, Each, EmptyStore, Open, Alive, Ended

(* Nothing has been written, answered or replayed yet.                     *)
LEMMA FreshInv ==
    ASSUME TypeOK, EntriesOfAgents, EntriesOwn, frame = Starting, req = Each("none"), wrote = Each({}),
           store = EmptyStore, shared.depth = 0, resumed.replayed = {}
    PROVE  SandboxInv
<1>1. NestedAlone
  BY Fresh DEF NestedAlone
<1>2. \A i \in Calls : req[Main][i] = "none" /\ wrote[Main][i] = {}
  BY Fresh, Scripts
<1>3. DeltasGrow
  BY <1>2, Fresh, Scripts, DeltaKeys1 DEF DeltasGrow
<1>4. MainDeltasExact
  BY <1>2, Scripts DEF EntriesOfAgents, MainDeltasExact, Exact
<1>5. ReplayRestoresStore
  BY DEF ReplayRestoresStore
<1>6. Arrivals
  BY <1>2, Fresh, Scripts DEF Arrivals, Came
<1> QED
  BY <1>1, <1>3, <1>4, <1>5, <1>6 DEF SandboxInv, StoreIsExact

(* A new execution starts over the journal of the one before.              *)
LEMMA ResumeStep == ASSUME SandboxInv, RunResumes PROVE SandboxInv'
<1>1. /\ frame' = Starting /\ req' = Each("none") /\ wrote' = Each({})
      /\ said' = Each(0) /\ store' = EmptyStore
      /\ shared' = [depth |-> 0, spent |-> 0]
      /\ resumed' = [journal |-> journal, missed |-> FALSE, replayed |-> {}]
      /\ UNCHANGED <<prog, journal, done>>
  BY DEF RunResumes
<1>2. TypeOK /\ EntriesOfAgents
  BY DEF SandboxInv
<1>3. TypeOK'
  <2>1. resumes' \in 0 .. MaxResumes
    BY <1>2, SandboxAssumption DEF RunResumes, TypeOK
  <2>2. resumed' \in [journal : [Indices -> Entry \cup {None}], missed : BOOLEAN,
                      replayed : SUBSET Calls]
    BY <1>1, <1>2 DEF TypeOK
  <2>3. shared' \in [depth : Nat, spent : Nat]
    BY <1>1
  <2> QED
    BY <1>1, <1>2, <2>1, <2>2, <2>3, Fresh DEF TypeOK
<1>4. EntriesOfAgents'
  BY <1>1, <1>2, SameScripts DEF EntriesOfAgents
<1>5. NestedAlone'
  BY <1>1, Fresh DEF NestedAlone
<1>6. \A i \in Calls : req'[Main][i] = "none" /\ wrote'[Main][i] = {}
  BY <1>1, <1>2, Fresh, Scripts
<1>7. DeltasGrow'
  <2> SUFFICES ASSUME NEW i \in CallsOf(Main), IsAgent(Main, i)
               PROVE  /\ req'[Main][i] = "none"
                      /\ store'.deltas[DeltaKey(Main, i)] = {} /\ wrote'[Main][i] = {}
    BY <1>1, SameScripts DEF DeltasGrow
  <2> QED
    BY <1>1, <1>2, <1>6, Fresh, Scripts, DeltaKeys1
<1>8. MainDeltasExact'
  <2> SUFFICES ASSUME NEW n \in Indices, journal[n].by # <<>>, journal[n].by[1] = Main
               PROVE  req'[Main][journal[n].by[2]] # "answered"
    BY <1>1 DEF MainDeltasExact, Exact, Indices
  <2> QED
    BY <1>2, <1>6, Scripts DEF EntriesOfAgents
<1>9. ReplayRestoresStore'
  BY <1>1 DEF ReplayRestoresStore
<1>10. EntriesOwn'
  BY <1>1 DEF SandboxInv, EntriesOwn, Own, Indices
<1>11. Arrivals'
  <2>1. \A f \in Nested : frame'[f].st \notin Open
    BY <1>1, Fresh
  <2>2. \A i \in CallsOf(Main) : req'[Main][i] = "none"
    BY <1>2, <1>6, Scripts
  <2>3. CallsOf(Main)' = CallsOf(Main) /\ resumed'.replayed = {}
    BY <1>1, SameScripts
  <2> QED
    BY <2>1, <2>2, <2>3 DEF Arrivals, Came, Nested, Open, Alive, Ended
<1> QED
  BY <1>3, <1>4, <1>5, <1>7, <1>8, <1>9, <1>10, <1>11 DEF SandboxInv, StoreIsExact

-----------------------------------------------------------------------------

(* Every step keeps the invariant.                                         *)
LEMMA SandboxStep == ASSUME SandboxInv, [Next]_vars PROVE SandboxInv'
<1>1. CASE Next
  <2>1. CASE \E f \in Frames : CallMade(f) \/ ScriptEnds(f) \/ ChildDies(f)
    BY <2>1, ScriptStep
  <2>2. ASSUME NEW f \in Frames, HostStep(f)
        PROVE  SandboxInv'
    <3>1. CASE \E i \in CallsOf(f) : RequestArrives(f, i)
      <4>1. PICK i \in CallsOf(f) : RequestArrives(f, i)
        BY <3>1
      <4>2. CASE IsAgent(f, i)
        BY <4>1, <4>2, AgentStep
      <4>3. CASE ~IsAgent(f, i)
        BY <4>1, <4>3, WorkflowStep
      <4> QED
        BY <4>2, <4>3
    <3>2. CASE ResultArrives(f)
      <4>1. /\ frame[f].st \in Open
            /\ \E outcome \in {"value", "error"} : Finish(f, outcome)
        BY <3>2 DEF ResultArrives, Open
      <4> QED
        BY <4>1, FinishStep
    <3>3. CASE ExitArrives(f)
      <4>1. frame[f].st \in Open /\ Finish(f, "error")
        BY <3>3 DEF ExitArrives, ExitHeard, Open
      <4> QED
        BY <4>1, FinishStep
    <3> QED
      BY <2>2, <3>1, <3>2, <3>3 DEF HostStep
  <2>3. ASSUME NEW f \in Frames, NEW i \in Calls, ResponseArrives(f, i) \/ AgentEnds(f, i)
        PROVE  SandboxInv'
    BY <2>3, ResponseStep, SuccessStep, FailureStep DEF AgentEnds
  <2>4. ASSUME NEW f \in Frames, NEW i \in Calls, NEW k \in Keys, StorePut(f, i, k)
        PROVE  SandboxInv'
    BY <2>4, PutStep
  <2>5. CASE RunAborts
    BY <2>5, AbortStep
  <2>6. CASE RunResumes
    BY <2>6, ResumeStep
  <2> QED
    BY <1>1, <2>1, <2>2, <2>3, <2>4, <2>5, <2>6 DEF Next
<1>2. CASE UNCHANGED vars
  <2>1. UNCHANGED <<prog, frame, req, said, store, wrote, journal, done, resumed, shared, resumes>>
    BY <1>2 DEF vars
  <2>2. TypeOK' /\ NestedAlone'
    BY <2>1, SameScripts DEF SandboxInv, TypeOK, NestedAlone
  <2>3. \A j \in Calls : req'[Main][j] = req[Main][j]
    BY <2>1
  <2>4. Arrivals'
    BY <2>1, SameScripts DEF SandboxInv, Arrivals
  <2> QED
    BY <2>1, <2>2, <2>3, <2>4, QuietStep DEF SandboxInv
<1> QED
  BY <1>1, <1>2

(* The state is well-typed, nested runs are one at a time, and the store   *)
(* and the journal agree with what the agents of the main script wrote.    *)
THEOREM SandboxInvariant == Spec => []SandboxInv
<1>1. Init => SandboxInv
  <2> SUFFICES ASSUME Init PROVE SandboxInv
    OBVIOUS
  <2>1. TypeOK
    <3>1. journal \in [Indices -> Entry \cup {None}] /\ resumes \in 0 .. MaxResumes
      BY SandboxAssumption DEF Init
    <3>2. resumed \in [journal : [Indices -> Entry \cup {None}], missed : BOOLEAN,
                       replayed : SUBSET Calls]
      BY DEF Init
    <3>3. shared \in [depth : Nat, spent : Nat]
      BY DEF Init
    <3> QED
      BY <3>1, <3>2, <3>3, Fresh DEF Init, TypeOK
  <2>2. \A n \in Indices : journal[n].by = <<>>
    BY DEF Init, None
  <2>3. EntriesOfAgents /\ EntriesOwn
    <3>1. resumed.journal = journal
      BY DEF Init
    <3> QED
      BY <2>2, <3>1 DEF EntriesOfAgents, EntriesOwn, Own
  <2>4. shared.depth = 0 /\ resumed.replayed = {}
    BY DEF Init
  <2> QED
    BY <2>1, <2>3, <2>4, FreshInv DEF Init
<1>2. SandboxInv /\ [Next]_vars => SandboxInv'
  BY SandboxStep
<1> QED
  BY <1>1, <1>2, PTL DEF Spec

(* What the journal keeps of an agent of the main script is what it wrote, *)
(* however the nested run's agents interleave with it, and a replayed call *)
(* leaves its keys in the store, each with the value of the last replayed  *)
(* call of the script that wrote it or of an agent that has run since      *)
(* (workflows/shared-store.ts: deltaKey, commitDelta, applyDelta).         *)
THEOREM StoreStaysExact == Spec => []StoreIsExact
<1>1. SandboxInv => StoreIsExact
  BY DEF SandboxInv
<1> QED
  BY <1>1, SandboxInvariant, PTL

=============================================================================
