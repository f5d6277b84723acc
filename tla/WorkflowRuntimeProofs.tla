----------------------- MODULE WorkflowRuntimeProofs -----------------------
(***************************************************************************)
(* The limiter, the replayed prefix and the per-agent pause of             *)
(* WorkflowRuntime, for every script, fan-out, concurrency, retry count    *)
(* and bound.                                                              *)
(***************************************************************************)
EXTENDS WorkflowRuntime, FiniteSetTheorems, SequenceTheorems, TLAPS

Holders == {c \in Calls : call[c] \in Holding}
Waiters == {c \in Calls : call[c] = "parked"}

(* Calls get their index in order, and nothing happens to one before.      *)
OrderInv == \A c \in Calls : call[c] # "uncalled" <=> c < callSeq

(* Attempts begun and not taken back: none before a slot is had, one less  *)
(* than allowed when the next can start.                                   *)
AttemptInv ==
    \A c \in Calls :
        /\ call[c] \in {"uncalled", "parked"} => attempt[c] = 0
        /\ call[c] = "gate" => attempt[c] < MaxAttempts
        /\ call[c] \in {"running", "stopping"} => attempt[c] > 0

(* The limiter's queue holds every parked call once.                       *)
LimiterInv ==
    /\ LimiterSound
    /\ \A i, j \in 1 .. Len(parked) : parked[i] = parked[j] => i = j

(* firstMiss separates the replayed calls from the executed ones.          *)
PrefixInv ==
    \A c \in Calls :
        /\ call[c] = "replayed" => c < firstMiss
        /\ call[c] \notin {"uncalled", "replayed"} => firstMiss <= c

(* Every other call stays as it is, or is handed the slot of c.            *)
OthersKeep(c) ==
    \A d \in Calls : d # c => call'[d] = call[d] \/ (call[d] = "parked" /\ call'[d] = "gate")

Inv == TypeOK /\ OrderInv /\ AttemptInv /\ LimiterInv /\ PrefixInv /\ PauseHolds

-----------------------------------------------------------------------------
LEMMA HoldersFinite == ASSUME TypeOK PROVE IsFiniteSet(Holders)
<1>1. 0 \in Int /\ NumCalls - 1 \in Int
  BY SizesAssumption
<1>2. IsFiniteSet(Calls)
  BY <1>1, FS_Interval DEF Calls
<1> QED
  BY <1>2, FS_Subset DEF Holders

LEMMA HoldersCount ==
    ASSUME TypeOK, LimiterSound
    PROVE  slots = Cardinality(Holders)
BY DEF LimiterSound, Holders

(* A step that neither gives nor takes slots keeps the limiter sound.      *)
LEMMA LimiterUntouched ==
    ASSUME LimiterInv, UNCHANGED limiterVars, Holders' = Holders, Waiters' = Waiters
    PROVE  LimiterInv'
<1>1. /\ slots = Cardinality(Holders)
      /\ Waiters = {parked[i] : i \in 1 .. Len(parked)}
  BY DEF LimiterInv, LimiterSound, Holders, Waiters
<1>2. /\ slots' = Cardinality(Holders')
      /\ Waiters' = {parked'[i] : i \in 1 .. Len(parked')}
  BY <1>1 DEF limiterVars
<1>3. /\ slots' = Cardinality({c \in Calls : call'[c] \in Holding})
      /\ {c \in Calls : call'[c] = "parked"} = {parked'[i] : i \in 1 .. Len(parked')}
  BY <1>2 DEF Holders, Waiters
<1>4. slots' <= Limit /\ (parked' # <<>> => slots' = Limit)
  BY DEF LimiterInv, LimiterSound, limiterVars
<1>5. \A i, j \in 1 .. Len(parked') : parked'[i] = parked'[j] => i = j
  BY DEF LimiterInv, limiterVars
<1> QED
  BY <1>3, <1>4, <1>5 DEF LimiterInv, LimiterSound

(* A call that holds a slot moves to another state that holds it.          *)
LEMMA SlotKept ==
    ASSUME TypeOK, LimiterInv, UNCHANGED limiterVars,
           NEW c \in Calls, call[c] \in Holding,
           NEW st \in Holding, call' = [call EXCEPT ![c] = st]
    PROVE  LimiterInv'
<1>1. Holders' = Holders /\ Waiters' = Waiters
  BY DEF Holders, Waiters, Holding, TypeOK
<1> QED
  BY <1>1, LimiterUntouched

(* A call that holds no slot and is not parked moves to another such state.*)
LEMMA SlotNotTaken ==
    ASSUME TypeOK, LimiterInv, UNCHANGED limiterVars,
           NEW c \in Calls, call[c] \notin Holding \cup {"parked"},
           NEW st, st \notin Holding \cup {"parked"}, call' = [call EXCEPT ![c] = st]
    PROVE  LimiterInv'
<1>1. Holders' = Holders /\ Waiters' = Waiters
  BY DEF Holders, Waiters, Holding, TypeOK
<1> QED
  BY <1>1, LimiterUntouched

(* release(): the slot is handed to the longest parked call, or freed.     *)
LEMMA SlotReleased ==
    ASSUME TypeOK, LimiterInv, NEW c \in Calls, call[c] \in Holding,
           NEW outcome \in CallState \ (Holding \cup {"parked"}),
           TaskEnds(c, outcome)
    PROVE  /\ LimiterInv'
           /\ slots' \in Nat /\ parked' \in Seq(Calls)
           /\ call' \in [Calls -> CallState]
           /\ OthersKeep(c)
           /\ call'[c] = outcome
<1>1. c \in Holders /\ IsFiniteSet(Holders) /\ slots = Cardinality(Holders)
  BY HoldersFinite, HoldersCount DEF Holders, LimiterInv
<1>2. Cardinality(Holders \ {c}) = slots - 1 /\ IsFiniteSet(Holders \ {c})
  BY <1>1, FS_RemoveElement
<1>3. slots \in Nat /\ slots - 1 \in Nat
  BY <1>1, <1>2, FS_CardinalityType DEF TypeOK
<1>4. /\ slots <= Limit /\ (parked # <<>> => slots = Limit)
      /\ Waiters = {parked[i] : i \in 1 .. Len(parked)}
      /\ \A i, j \in 1 .. Len(parked) : parked[i] = parked[j] => i = j
      /\ parked \in Seq(Calls) /\ Limit \in Nat
  BY SizesAssumption DEF LimiterInv, LimiterSound, Waiters, TypeOK
<1>5. CASE parked = <<>>
  <2>1. slots' = slots - 1 /\ call' = [call EXCEPT ![c] = outcome] /\ parked' = parked
    BY <1>5 DEF TaskEnds
  <2>2. Holders' = Holders \ {c} /\ Waiters' = Waiters
    BY <2>1 DEF Holders, Waiters, Holding, TypeOK
  <2>3. slots' = Cardinality(Holders') /\ slots' <= Limit
    BY <1>2, <1>3, <1>4, <2>1, <2>2
  <2>4. LimiterInv'
    BY <1>4, <1>5, <2>1, <2>2, <2>3 DEF LimiterInv, LimiterSound, Holders, Waiters
  <2> QED
    BY <1>3, <1>4, <2>1, <2>4 DEF TypeOK, OthersKeep
<1>6. CASE parked # <<>>
  <2> DEFINE h == Head(parked)
  <2>1. /\ parked' = Tail(parked) /\ slots' = slots
        /\ call' = [call EXCEPT ![c] = outcome, ![h] = "gate"]
    BY <1>6 DEF TaskEnds
  <2>2. /\ Len(parked) \in Nat \ {0} /\ h = parked[1] /\ h \in Calls
        /\ parked' \in Seq(Calls) /\ Len(parked') = Len(parked) - 1
        /\ \A i \in 1 .. Len(parked') : parked'[i] = parked[i + 1]
    BY <1>4, <1>6, <2>1
  <2>3. h \in Waiters /\ call[h] = "parked" /\ h # c
    BY <1>4, <2>2 DEF Waiters, Holding
  <2>4. Holders' = (Holders \ {c}) \cup {h}
    BY <2>1, <2>2, <2>3 DEF Holders, Holding, TypeOK
  <2>5. Cardinality(Holders') = slots
    <3>1. h \notin Holders \ {c}
      BY <2>3 DEF Holders, Holding
    <3> QED
      BY <1>2, <1>3, <2>4, <3>1, FS_AddElement
  <2>6. Waiters' = Waiters \ {h}
    BY <2>1, <2>2, <2>3 DEF Waiters, Holding, TypeOK
  <2>7. Waiters' = {parked'[i] : i \in 1 .. Len(parked')}
    <3>1. ASSUME NEW i \in 1 .. Len(parked') PROVE parked'[i] \in Waiters \ {h}
      <4>1. /\ i + 1 \in 1 .. Len(parked) /\ i + 1 # 1 /\ 1 \in 1 .. Len(parked)
            /\ parked'[i] = parked[i + 1]
        BY <2>2
      <4> QED
        BY <1>4, <2>2, <4>1
    <3>2. ASSUME NEW w \in Waiters \ {h}
          PROVE  \E i \in 1 .. Len(parked') : parked'[i] = w
      <4>1. PICK k \in 1 .. Len(parked) : parked[k] = w
        BY <1>4
      <4>2. k # 1
        BY <2>2, <4>1
      <4>3. k - 1 \in 1 .. Len(parked') /\ parked'[k - 1] = parked[(k - 1) + 1]
        BY <2>2, <4>2
      <4> QED
        BY <4>1, <4>3
    <3> QED
      BY <2>6, <3>1, <3>2
  <2>8. \A i, j \in 1 .. Len(parked') : parked'[i] = parked'[j] => i = j
    <3> SUFFICES ASSUME NEW i \in 1 .. Len(parked'), NEW j \in 1 .. Len(parked'),
                        parked'[i] = parked'[j]
                 PROVE  i = j
      OBVIOUS
    <3>1. i + 1 \in 1 .. Len(parked) /\ j + 1 \in 1 .. Len(parked)
      BY <2>2
    <3>2. parked[i + 1] = parked[j + 1]
      BY <2>2
    <3>3. i + 1 = j + 1
      BY <1>4, <3>1, <3>2
    <3> QED
      BY <3>3
  <2>9. LimiterInv'
    BY <1>4, <1>6, <2>1, <2>5, <2>7, <2>8 DEF LimiterInv, LimiterSound, Holders, Waiters
  <2>10. call' \in [Calls -> CallState] /\ call'[c] = outcome
    BY <2>1, <2>2, <2>3 DEF TypeOK, CallState, Holding
  <2>11. OthersKeep(c)
    BY <2>1, <2>2, <2>3 DEF TypeOK, OthersKeep
  <2> QED
    BY <1>3, <2>1, <2>2, <2>9, <2>10, <2>11
<1> QED
  BY <1>5, <1>6

(* acquire(): an agent call takes a free slot or joins the queue.          *)
LEMMA SlotTaken ==
    ASSUME TypeOK, OrderInv, LimiterInv, AgentAdmitted
    PROVE  /\ LimiterInv'
           /\ slots' \in Nat /\ parked' \in Seq(Calls)
           /\ \E st \in {"parked", "gate"} : call' = [call EXCEPT ![callSeq] = st]
<1> DEFINE c == callSeq
<1>1. c \in Calls /\ call[c] = "uncalled"
  BY SizesAssumption DEF AgentAdmitted, Admit, ScriptCalls, Calls, TypeOK, OrderInv
<1>2. /\ slots \in Nat /\ Limit \in Nat /\ slots <= Limit
      /\ parked # <<>> => slots = Limit
      /\ Waiters = {parked[i] : i \in 1 .. Len(parked)}
      /\ \A i, j \in 1 .. Len(parked) : parked[i] = parked[j] => i = j
      /\ parked \in Seq(Calls)
      /\ slots = Cardinality(Holders) /\ IsFiniteSet(Holders)
  BY SizesAssumption, HoldersFinite DEF LimiterInv, LimiterSound, Waiters, Holders, TypeOK
<1>3. CASE slots >= Limit
  <2>1. /\ parked' = Append(parked, c) /\ slots' = slots
        /\ call' = [call EXCEPT ![c] = "parked"]
    BY <1>3 DEF AgentAdmitted
  <2>2. /\ Len(parked) \in Nat /\ Len(parked') = Len(parked) + 1
        /\ parked'[Len(parked) + 1] = c /\ parked' \in Seq(Calls)
        /\ \A i \in 1 .. Len(parked) : parked'[i] = parked[i]
    BY <1>1, <1>2, <2>1
  <2>3. Holders' = Holders /\ Waiters' = Waiters \cup {c} /\ c \notin Waiters
    BY <1>1, <2>1 DEF Holders, Waiters, Holding, TypeOK
  <2>4. \A i \in 1 .. Len(parked') : i \in 1 .. Len(parked) \/ i = Len(parked) + 1
    BY <2>2
  <2>5. Waiters' = {parked'[i] : i \in 1 .. Len(parked')}
    <3>1. ASSUME NEW i \in 1 .. Len(parked') PROVE parked'[i] \in Waiters'
      BY <1>2, <2>2, <2>3, <2>4
    <3>2. ASSUME NEW w \in Waiters' PROVE \E i \in 1 .. Len(parked') : parked'[i] = w
      <4>1. CASE w = c
        BY <2>2, <4>1
      <4>2. CASE w \in Waiters
        <5>1. PICK k \in 1 .. Len(parked) : parked[k] = w
          BY <1>2, <4>2
        <5> QED
          BY <2>2, <5>1
      <4> QED
        BY <2>3, <4>1, <4>2
    <3> QED
      BY <3>1, <3>2
  <2>6. ASSUME NEW i \in 1 .. Len(parked'), NEW j \in 1 .. Len(parked'),
               parked'[i] = parked'[j]
        PROVE  i = j
    <3>1. \A k \in 1 .. Len(parked) : parked'[k] # c
      BY <1>2, <2>2, <2>3
    <3> QED
      BY <1>2, <2>2, <2>4, <2>6, <3>1
  <2>7. slots' = Limit
    BY <1>2, <1>3, <2>1
  <2>8. LimiterInv'
    BY <1>2, <2>1, <2>3, <2>5, <2>6, <2>7
    DEF LimiterInv, LimiterSound, Holders, Waiters
  <2> QED
    BY <1>2, <2>1, <2>2, <2>8
<1>4. CASE ~(slots >= Limit)
  <2>1. /\ slots' = slots + 1 /\ parked' = parked
        /\ call' = [call EXCEPT ![c] = "gate"]
    BY <1>4 DEF AgentAdmitted
  <2>2. Holders' = Holders \cup {c} /\ c \notin Holders /\ Waiters' = Waiters
    BY <1>1, <2>1 DEF Holders, Waiters, Holding, TypeOK
  <2>3. slots' = Cardinality(Holders') /\ slots' <= Limit /\ parked = <<>>
    <3>1. Cardinality(Holders \cup {c}) = Cardinality(Holders) + 1
      BY <1>2, <2>2, FS_AddElement
    <3> QED
      BY <1>2, <1>4, <2>1, <2>2, <3>1
  <2>4. LimiterInv'
    BY <1>2, <2>1, <2>2, <2>3 DEF LimiterInv, LimiterSound, Holders, Waiters
  <2> QED
    BY <1>2, <2>1, <2>4
<1> QED
  BY <1>3, <1>4

(* A run that aborts, or starts, holds no slots.                           *)
LEMMA SlotsEmpty ==
    ASSUME slots' = 0, parked' = <<>>, \A c \in Calls : call'[c] \notin Pending
    PROVE  LimiterInv'
<1>1. {c \in Calls : call'[c] \in Holding} = {}
  BY DEF Pending
<1>2. {c \in Calls : call'[c] = "parked"} = {}
  BY DEF Pending
<1>3. Len(parked') = 0
  OBVIOUS
<1>4. Cardinality({}) = 0
  BY FS_EmptySet
<1>5. /\ slots' = Cardinality({c \in Calls : call'[c] \in Holding})
      /\ slots' <= Limit
  BY <1>1, <1>4, SizesAssumption
<1>6. 1 .. Len(parked') = {}
  BY <1>3
<1> QED
  BY <1>2, <1>5, <1>6 DEF LimiterInv, LimiterSound

-----------------------------------------------------------------------------
LEMMA InvInit == Init => Inv
<1> SUFFICES ASSUME Init PROVE Inv
  OBVIOUS
<1>1. (CHOOSE h \in Hashes : TRUE) \in Hashes
  BY ScriptAssumption
<1>2. TypeOK
  <2>1. script \in Scripts
    BY <1>1 DEF Init, Scripts
  <2>2. /\ journal \in [Calls -> Entry \cup {NoEntry}]
        /\ resumeJournal \in [Calls -> Entry \cup {NoEntry}]
    BY DEF Init
  <2>3. parked \in Seq(Calls) /\ slots \in Nat
    BY DEF Init
  <2>4. /\ callSeq \in 0 .. NumCalls /\ firstMiss \in 0 .. NumCalls
        /\ attempt \in [Calls -> 0 .. MaxAttempts]
    BY SizesAssumption DEF Init
  <2> QED
    BY <2>1, <2>2, <2>3, <2>4 DEF Init, TypeOK, CallState
<1>3. OrderInv /\ AttemptInv /\ PrefixInv /\ PauseHolds
  BY SizesAssumption DEF Init, OrderInv, AttemptInv, PrefixInv, PauseHolds, Calls
<1>4. LimiterInv
  <2>1. {c \in Calls : call[c] \in Holding} = {} /\ {c \in Calls : call[c] = "parked"} = {}
    BY DEF Init, Holding
  <2>2. slots = Cardinality({c \in Calls : call[c] \in Holding})
    BY <2>1, FS_EmptySet DEF Init
  <2>3. 1 .. Len(parked) = {} /\ parked = <<>>
    BY DEF Init
  <2>4. slots <= Limit
    BY SizesAssumption DEF Init
  <2> QED
    BY <2>1, <2>2, <2>3, <2>4 DEF LimiterInv, LimiterSound
<1> QED
  BY <1>2, <1>3, <1>4 DEF Inv

(* Steps that leave the calls and the limiter alone.                       *)
LEMMA LimiterStutters ==
    ASSUME LimiterInv, UNCHANGED <<limiterVars, call>>
    PROVE  LimiterInv'
BY LimiterUntouched DEF Holders, Waiters, limiterVars

LEMMA ScriptStepInv == ASSUME Inv, ScriptStep PROVE Inv'
<1>1. CASE CallRefused
  <2>1. LimiterInv'
    BY <1>1, LimiterStutters DEF CallRefused, Inv, limiterVars
  <2> QED
    BY <1>1, <2>1 DEF CallRefused, Inv, TypeOK, OrderInv, AttemptInv, PrefixInv,
       PauseHolds, launchVars, gateVars, limiterVars, pauseVars
<1>2. CASE Admit /\ UNCHANGED <<launchVars, pauseVars, run, journal, spent, paid,
                               thrown, attempt>>
           /\ \/ CallReplays \/ AgentAdmitted \/ CheckpointAsked
  <2> DEFINE c == callSeq
  <2>1. /\ c \in Calls /\ call[c] = "uncalled" /\ attempt[c] = 0
        /\ callSeq' = c + 1 /\ callSeq' \in 0 .. NumCalls /\ agentCount' \in Nat
    BY <1>2, SizesAssumption
    DEF Admit, ScriptCalls, Calls, Inv, TypeOK, OrderInv, AttemptInv
  <2>2. PICK st \in {"replayed", "parked", "gate", "asking"} :
           /\ call' = [call EXCEPT ![c] = st]
           /\ st = "replayed" => firstMiss' = firstMiss /\ c < firstMiss
           /\ st # "replayed" => /\ firstMiss' = IF c < firstMiss THEN c ELSE firstMiss
    <3>1. CASE CallReplays
      BY <3>1 DEF CallReplays, JournalAnswers
    <3>2. ~JournalAnswers(c) => Miss(c) = IF c < firstMiss THEN c ELSE firstMiss
      BY DEF JournalAnswers, Miss
    <3>3. CASE AgentAdmitted
      BY <3>2, <3>3, SlotTaken DEF AgentAdmitted, Inv
    <3>4. CASE CheckpointAsked
      BY <3>2, <3>4 DEF CheckpointAsked
    <3> QED
      BY <1>2, <3>1, <3>3, <3>4
  <2>3. call' \in [Calls -> CallState] /\ firstMiss' \in 0 .. NumCalls
    BY <2>1, <2>2 DEF Inv, TypeOK, CallState
  <2>4. LimiterInv' /\ slots' \in Nat /\ parked' \in Seq(Calls)
    <3>1. CASE AgentAdmitted
      BY <3>1, SlotTaken DEF Inv
    <3>2. CASE CallReplays
      BY <2>1, <3>2, SlotNotTaken DEF CallReplays, Inv, TypeOK, limiterVars, Holding
    <3>3. CASE CheckpointAsked
      BY <2>1, <3>3, SlotNotTaken DEF CheckpointAsked, Inv, TypeOK, limiterVars, Holding
    <3> QED
      BY <1>2, <3>1, <3>2, <3>3
  <2>5. TypeOK'
    BY <1>2, <2>1, <2>3, <2>4 DEF Inv, TypeOK, launchVars, pauseVars
  <2>6. OrderInv'
    BY <2>1, <2>2 DEF Inv, TypeOK, OrderInv, Calls
  <2>7. AttemptInv'
    BY <1>2, <2>1, <2>2, SizesAssumption DEF Inv, TypeOK, AttemptInv
  <2>8. PrefixInv'
    BY <2>1, <2>2, SizesAssumption DEF Inv, TypeOK, PrefixInv, OrderInv, Calls
  <2>9. PauseHolds'
    BY <1>2, <2>1, <2>2 DEF Inv, TypeOK, PauseHolds, pauseVars
  <2> QED
    BY <2>4, <2>5, <2>6, <2>7, <2>8, <2>9 DEF Inv
<1> QED
  BY <1>1, <1>2 DEF ScriptStep, CallReplays, AgentAdmitted, CheckpointAsked

LEMMA JournaledType ==
    ASSUME TypeOK, NEW c \in Calls, journal' = Journaled(c)
    PROVE  journal' \in [Calls -> Entry \cup {NoEntry}]
<1>1. [hash |-> script[c], under |-> script] \in Entry
  BY DEF TypeOK, Scripts, Entry
<1> QED
  BY <1>1 DEF Journaled, TypeOK

(* A call in progress that moves on within its slot, or without one, and   *)
(* the outcomes of a call that releases its slot, keep the order of the    *)
(* calls and the replayed prefix.                                          *)
LEMMA ProgressKeepsOrder ==
    ASSUME Inv, NEW c \in Calls, call[c] \notin {"uncalled", "replayed"},
           call'[c] \notin {"uncalled", "replayed"}, UNCHANGED gateVars,
           OthersKeep(c)
    PROVE  OrderInv' /\ PrefixInv'
<1>1. \A d \in Calls : /\ call'[d] = "uncalled" <=> call[d] = "uncalled"
                       /\ call'[d] = "replayed" <=> call[d] = "replayed"
  BY DEF OthersKeep
<1>2. OrderInv'
  BY <1>1 DEF Inv, OrderInv, gateVars
<1> QED
  BY <1>1, <1>2 DEF Inv, PrefixInv, gateVars

(* The attempt loop of agent().                                            *)
LEMMA AttemptStepInv ==
    ASSUME Inv, NEW c \in Calls, NEW hard \in BOOLEAN,
           \/ AttemptStarts(c) \/ AgentTimesOut(c) \/ AttemptRetried(c)
           \/ AttemptInterrupted(c, hard)
    PROVE  Inv'
<1>1. /\ call[c] \in Holding
      /\ \E st \in Holding : call' = [call EXCEPT ![c] = st]
  BY DEF AttemptStarts, AgentTimesOut, AttemptRetried, AttemptInterrupted,
     AttemptFailed, Holding
<1>2. LimiterInv' /\ UNCHANGED <<limiterVars, gateVars>>
  <2>1. UNCHANGED <<limiterVars, gateVars>>
    BY DEF AttemptStarts, AgentTimesOut, AttemptRetried, AttemptInterrupted
  <2> QED
    BY <1>1, <2>1, SlotKept DEF Inv
<1>3. OrderInv' /\ PrefixInv'
  <2>1. call[c] \notin {"uncalled", "replayed"} /\ call'[c] \notin {"uncalled", "replayed"}
    BY <1>1 DEF Inv, TypeOK, Holding
  <2>2. PICK st \in Holding : call' = [call EXCEPT ![c] = st]
    BY <1>1
  <2>3. OthersKeep(c)
    BY <2>2 DEF Inv, TypeOK, OthersKeep
  <2>4. UNCHANGED gateVars
    BY <1>2
  <2> QED
    BY <2>1, <2>3, <2>4, ProgressKeepsOrder
<1>4. TypeOK' /\ AttemptInv'
  <2>1. call' \in [Calls -> CallState]
    BY <1>1 DEF Inv, TypeOK, Holding, CallState
  <2>2. CASE AttemptStarts(c)
    <3>1. attempt' \in [Calls -> 0 .. MaxAttempts] /\ AttemptInv'
      BY <2>2, SizesAssumption DEF AttemptStarts, Inv, TypeOK, AttemptInv
    <3> QED
      BY <2>1, <2>2, <3>1 DEF AttemptStarts, Inv, TypeOK, launchVars, gateVars,
         limiterVars, pauseVars
  <2>3. CASE AgentTimesOut(c)
    <3>1. AttemptInv'
      BY <2>3 DEF AgentTimesOut, Inv, TypeOK, AttemptInv
    <3> QED
      BY <2>1, <2>3, <3>1 DEF AgentTimesOut, Inv, TypeOK, launchVars, gateVars,
         limiterVars, pauseVars
  <2>4. CASE AttemptRetried(c)
    <3>1. AttemptInv'
      BY <2>4 DEF AttemptRetried, AttemptFailed, Inv, TypeOK, AttemptInv
    <3> QED
      BY <2>1, <2>4, <3>1 DEF AttemptRetried, Charge, Inv, TypeOK, launchVars,
         gateVars, limiterVars, pauseVars
  <2>5. CASE AttemptInterrupted(c, hard)
    <3>1. attempt' \in [Calls -> 0 .. MaxAttempts] /\ AttemptInv'
      BY <2>5, SizesAssumption
      DEF AttemptInterrupted, AttemptFailed, Inv, TypeOK, AttemptInv
    <3> QED
      BY <2>1, <2>5, <3>1 DEF AttemptInterrupted, Inv, TypeOK, launchVars, gateVars,
         limiterVars
  <2> QED
    BY <2>2, <2>3, <2>4, <2>5
<1>5. PauseHolds'
  <2>1. CASE AttemptStarts(c)
    BY <2>1 DEF AttemptStarts, Inv, TypeOK, PauseHolds, pauseVars
  <2>2. CASE AgentTimesOut(c)
    BY <2>2 DEF AgentTimesOut, Inv, TypeOK, PauseHolds, pauseVars
  <2>3. CASE AttemptRetried(c)
    BY <2>3 DEF AttemptRetried, Inv, TypeOK, PauseHolds, pauseVars
  <2>4. CASE AttemptInterrupted(c, hard)
    BY <2>4 DEF AttemptInterrupted, Inv, TypeOK, PauseHolds
  <2> QED
    BY <2>1, <2>2, <2>3, <2>4
<1> QED
  BY <1>2, <1>3, <1>4, <1>5 DEF Inv

(* The outcomes that release the slot.                                     *)
LEMMA OutcomeInv ==
    ASSUME Inv, NEW c \in Calls, NEW hard \in BOOLEAN,
           AgentSucceeds(c) \/ AgentFails(c, hard)
    PROVE  Inv'
<1>1. /\ call[c] \in Holding
      /\ \E outcome \in {"returned", "null", "threw"} : TaskEnds(c, outcome)
      /\ UNCHANGED <<launchVars, gateVars, pauseVars, run, attempt>>
  BY DEF AgentSucceeds, AgentFails, AttemptFailed, Holding
<1>2. /\ LimiterInv' /\ slots' \in Nat /\ parked' \in Seq(Calls)
      /\ call' \in [Calls -> CallState]
      /\ call'[c] \in {"returned", "null", "threw"}
      /\ OthersKeep(c)
  <2>1. \A o \in {"returned", "null", "threw"} : o \in CallState \ (Holding \cup {"parked"})
    BY DEF CallState, Holding
  <2> QED
    BY <1>1, <2>1, SlotReleased DEF Inv
<1>3. OrderInv' /\ PrefixInv'
  <2>1. call[c] \notin {"uncalled", "replayed"} /\ call'[c] \notin {"uncalled", "replayed"}
    BY <1>1, <1>2 DEF Holding
  <2>2. OthersKeep(c)
    BY <1>2
  <2>3. UNCHANGED gateVars
    BY <1>1
  <2> QED
    BY <2>1, <2>2, <2>3, ProgressKeepsOrder
<1>4. journal' \in [Calls -> Entry \cup {NoEntry}] /\ thrown' \in BOOLEAN
  BY JournaledType DEF AgentSucceeds, AgentFails, Inv, TypeOK
<1>5. spent' \in Nat /\ paid' \in Nat
  BY DEF AgentSucceeds, AgentFails, Charge, Inv, TypeOK
<1>6. TypeOK'
  BY <1>1, <1>2, <1>4, <1>5 DEF Inv, TypeOK, launchVars, gateVars, pauseVars
<1>7. AttemptInv'
  <2>1. \A d \in Calls : call[d] = "parked" => 0 = attempt[d] /\ 0 < MaxAttempts
    BY SizesAssumption DEF Inv, AttemptInv
  <2>2. attempt' = attempt
    BY <1>1
  <2> SUFFICES ASSUME NEW d \in Calls
               PROVE  /\ call'[d] \in {"uncalled", "parked"} => attempt[d] = 0
                      /\ call'[d] = "gate" => attempt[d] < MaxAttempts
                      /\ call'[d] \in {"running", "stopping"} => attempt[d] > 0
    BY <2>2 DEF AttemptInv
  <2>3. CASE d = c
    BY <1>2, <2>3
  <2>4. CASE call'[d] = call[d]
    BY <2>4 DEF Inv, AttemptInv
  <2>5. CASE call[d] = "parked" /\ call'[d] = "gate"
    BY <2>1, <2>5
  <2> QED
    BY <1>2, <2>3, <2>4, <2>5 DEF OthersKeep
<1>8. PauseHolds'
  BY <1>1, <1>2 DEF Inv, TypeOK, PauseHolds, pauseVars, OthersKeep
<1> QED
  BY <1>2, <1>3, <1>6, <1>7, <1>8 DEF Inv

LEMMA CheckpointStepInv ==
    ASSUME Inv, NEW c \in Calls, CheckpointAnswered(c) \/ CheckpointFails(c)
    PROVE  Inv'
<1>1. /\ call[c] = "asking"
      /\ \E st \in {"returned", "threw"} : call' = [call EXCEPT ![c] = st]
      /\ UNCHANGED <<launchVars, gateVars, limiterVars, pauseVars, run, spent, paid, attempt>>
  BY DEF CheckpointAnswered, CheckpointFails
<1>2. /\ call' \in [Calls -> CallState] /\ call'[c] \in {"returned", "threw"}
      /\ \A d \in Calls : d # c => call'[d] = call[d]
      /\ OthersKeep(c)
  BY <1>1 DEF Inv, TypeOK, CallState, OthersKeep
<1>3. LimiterInv'
  BY <1>1, SlotNotTaken DEF Inv, Holding
<1>4. OrderInv' /\ PrefixInv'
  <2>1. call[c] \notin {"uncalled", "replayed"} /\ call'[c] \notin {"uncalled", "replayed"}
    BY <1>1, <1>2
  <2>2. OthersKeep(c)
    BY <1>2
  <2>3. UNCHANGED gateVars
    BY <1>1
  <2> QED
    BY <2>1, <2>2, <2>3, ProgressKeepsOrder
<1>5. journal' \in [Calls -> Entry \cup {NoEntry}] /\ thrown' \in BOOLEAN
  BY JournaledType DEF CheckpointAnswered, CheckpointFails, Inv, TypeOK
<1>6. TypeOK'
  BY <1>1, <1>2, <1>5 DEF Inv, TypeOK, launchVars, gateVars, limiterVars, pauseVars
<1>7. AttemptInv' /\ PauseHolds'
  BY <1>1, <1>2 DEF Inv, TypeOK, AttemptInv, PauseHolds, pauseVars
<1> QED
  BY <1>3, <1>4, <1>6, <1>7 DEF Inv

(* pauseAgent() and resumeAgent().                                         *)
LEMMA UserStepInv == ASSUME Inv, NEW c \in Calls, UserStep(c) PROVE Inv'
<1>1. UNCHANGED <<launchVars, gateVars, limiterVars, run, journal, spent, paid,
                  thrown, call, attempt>>
  BY DEF UserStep, PauseAgent, ResumeAgent
<1>2. LimiterInv'
  BY <1>1, LimiterStutters DEF Inv
<1>3. OrderInv' /\ AttemptInv' /\ PrefixInv'
  BY <1>1 DEF Inv, OrderInv, AttemptInv, PrefixInv, gateVars
<1>4. TypeOK'
  BY <1>1 DEF UserStep, PauseAgent, ResumeAgent, Inv, TypeOK, launchVars, gateVars,
     limiterVars
<1>5. PauseHolds'
  BY <1>1 DEF UserStep, PauseAgent, ResumeAgent, Inv, TypeOK, PauseHolds
<1> QED
  BY <1>2, <1>3, <1>4, <1>5 DEF Inv

(* The end of an execution and the start of the next.                      *)
LEMMA EndStepInv ==
    ASSUME Inv, RunReturns \/ RunRejects \/ RunAborts PROVE Inv'
<1>1. CASE RunReturns \/ RunRejects
  <2>1. UNCHANGED <<launchVars, gateVars, limiterVars, pauseVars, journal, spent,
                    paid, thrown, call, attempt>>
    BY <1>1 DEF RunReturns, RunRejects
  <2>2. LimiterInv'
    BY <2>1, LimiterStutters DEF Inv
  <2>3. run' \in {"completed", "rejected"}
    BY <1>1 DEF RunReturns, RunRejects
  <2> QED
    BY <2>1, <2>2, <2>3 DEF Inv, TypeOK, OrderInv, AttemptInv, PrefixInv, PauseHolds,
       launchVars, gateVars, limiterVars, pauseVars
<1>2. CASE RunAborts
  <2>1. \A c \in Calls : call'[c] = IF call[c] \in Pending THEN "threw" ELSE call[c]
    BY <1>2 DEF RunAborts
  <2>2. call' \in [Calls -> CallState]
    BY <1>2 DEF RunAborts, Inv, TypeOK, CallState
  <2>3. \A c \in Calls : call'[c] \notin Pending
    BY <2>1 DEF Pending, Holding
  <2>4. LimiterInv'
    BY <1>2, <2>3, SlotsEmpty DEF RunAborts
  <2>5. TypeOK'
    BY <1>2, <2>2 DEF RunAborts, Inv, TypeOK, launchVars, gateVars, pauseVars
  <2>6. OrderInv' /\ PrefixInv'
    BY <1>2, <2>1 DEF RunAborts, Inv, OrderInv, PrefixInv, gateVars, Pending, Holding
  <2>7. AttemptInv'
    <3>1. attempt' = attempt
      BY <1>2 DEF RunAborts
    <3>2. ASSUME NEW c \in Calls
          PROVE  \/ call'[c] = call[c]
                 \/ call'[c] = "threw"
      BY <2>1
    <3> QED
      BY <3>1, <3>2 DEF AttemptInv, Inv
  <2>8. PauseHolds'
    <3>1. \A c \in Calls : call'[c] \notin {"running", "stopping"}
      BY <2>3 DEF Pending, Holding
    <3> QED
      BY <2>5, <3>1 DEF TypeOK, PauseHolds
  <2> QED
    BY <2>4, <2>5, <2>6, <2>7, <2>8 DEF Inv
<1> QED
  BY <1>1, <1>2

LEMMA ResumeRunInv ==
    ASSUME Inv, NEW edited \in Scripts, ResumeRun(edited) PROVE Inv'
<1>1. /\ call' = [c \in Calls |-> "uncalled"] /\ attempt' = [c \in Calls |-> 0]
      /\ callSeq' = 0 /\ firstMiss' = NumCalls /\ slots' = 0 /\ parked' = <<>>
  BY DEF ResumeRun, FreshExecution
<1>2. LimiterInv'
  BY <1>1, SlotsEmpty DEF Pending, Holding
<1>3. call' \in [Calls -> CallState] /\ attempt' \in [Calls -> 0 .. MaxAttempts]
  BY <1>1, SizesAssumption DEF CallState
<1>4. parked' \in Seq(Calls) /\ slots' \in Nat
  BY <1>1
<1>5. callSeq' \in 0 .. NumCalls /\ firstMiss' \in 0 .. NumCalls
  BY <1>1, SizesAssumption
<1>6. TypeOK'
  <2>1. /\ script' \in Scripts /\ run' \in {"running", "completed", "rejected", "aborted"}
        /\ journal' \in [Calls -> Entry \cup {NoEntry}]
        /\ resumeJournal' \in [Calls -> Entry \cup {NoEntry}]
    BY DEF ResumeRun, FreshExecution, Inv, TypeOK
  <2>2. agentCount' \in Nat /\ spent' \in Nat /\ paid' \in Nat /\ resumes' \in Nat
    BY DEF ResumeRun, FreshExecution, Inv, TypeOK
  <2>3. pausedAgents' \subseteq Calls /\ interrupts' \subseteq Calls /\ pauses' \in Nat
    BY DEF ResumeRun, Inv, TypeOK, pauseVars
  <2>4. optioned' \in BOOLEAN /\ thrown' \in BOOLEAN
    BY DEF ResumeRun, FreshExecution
  <2> QED
    BY <1>3, <1>4, <1>5, <2>1, <2>2, <2>3, <2>4 DEF TypeOK
<1>7. OrderInv' /\ AttemptInv' /\ PrefixInv' /\ PauseHolds'
  BY <1>1, <1>6, SizesAssumption
  DEF OrderInv, AttemptInv, PrefixInv, PauseHolds, TypeOK, Calls
<1> QED
  BY <1>2, <1>6, <1>7 DEF Inv

-----------------------------------------------------------------------------
(* The conjunction is inductive.                                           *)
THEOREM Inductive == Spec => []Inv
<1>1. Inv /\ [Next]_vars => Inv'
  <2> SUFFICES ASSUME Inv, [Next]_vars PROVE Inv'
    OBVIOUS
  <2>1. CASE Next
    <3>1. ASSUME NEW c \in Calls, AgentStep(c) PROVE Inv'
      <4>1. FALSE \in BOOLEAN
        OBVIOUS
      <4> QED
        BY <3>1, <4>1, AttemptStepInv, OutcomeInv, CheckpointStepInv DEF AgentStep
    <3> QED
      BY <2>1, <3>1, ScriptStepInv, UserStepInv, EndStepInv, ResumeRunInv DEF Next
  <2>2. CASE UNCHANGED vars
    <3>1. LimiterInv'
      BY <2>2, LimiterStutters DEF vars, Inv
    <3> QED
      BY <2>2, <3>1 DEF Inv, TypeOK, OrderInv, AttemptInv, PrefixInv, PauseHolds, vars,
         launchVars, gateVars, limiterVars, pauseVars
  <2> QED
    BY <2>1, <2>2
<1> QED
  BY <1>1, InvInit, PTL DEF Spec

(* Every variable of an execution keeps its type; in particular no call    *)
(* begins more than MaxAttempts attempts that count.                       *)
THEOREM TypeCorrect == Spec => []TypeOK
<1>1. Inv => TypeOK
  BY DEF Inv
<1> QED
  BY <1>1, Inductive, PTL

(* The limiter bounds the running agents by the concurrency, and its       *)
(* count and its queue are exact, whatever attempts do.                    *)
THEOREM LimiterIsSound == Spec => []LimiterSound
<1>1. Inv => LimiterSound
  BY DEF Inv, LimiterInv
<1> QED
  BY <1>1, Inductive, PTL

(* No call behind one that was executed is served from the journal.        *)
THEOREM ReplayStopsAtFirstMiss == Spec => []ReplayIsPrefix
<1>1. Inv => ReplayIsPrefix
  <2> SUFFICES ASSUME Inv, NEW c \in Calls, NEW d \in Calls,
                      call[c] \notin {"uncalled", "replayed"}, call[d] = "replayed"
               PROVE  d < c
    BY DEF ReplayIsPrefix
  <2>1. d < firstMiss /\ firstMiss <= c
    BY DEF Inv, PrefixInv
  <2>2. c \in Int /\ d \in Int /\ firstMiss \in Int
    BY SizesAssumption DEF Inv, TypeOK, Calls
  <2> QED
    BY <2>1, <2>2
<1> QED
  BY <1>1, Inductive, PTL

(* A paused agent that still runs has been interrupted.                    *)
THEOREM PauseIsHonoured == Spec => []PauseHolds
<1>1. Inv => PauseHolds
  BY DEF Inv
<1> QED
  BY <1>1, Inductive, PTL
=============================================================================
