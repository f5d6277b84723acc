----------------------------- MODULE HelmProofs -----------------------------
(***************************************************************************)
(* What the parts of HelmParts keep, each by an inductive invariant of its *)
(* own, for every value of their constants.                                *)
(***************************************************************************)
EXTENDS HelmParts, FiniteSetTheorems, SequenceTheorems, TLAPS

-----------------------------------------------------------------------------
(* UsageService: the quota cache and the token of Kimi, for any number of  *)
(* pi processes, crashes included.                                         *)

(* What the constants are: instants, and processes that start refreshes.   *)
QuotaParameters ==
    /\ Horizon \in Nat /\ Life \in Nat
    /\ Settling \subseteq Processes /\ Forcing \subseteq Processes

Operation == [at : {"idle", "loading", "locking", "locked", "fetching"},
              due : SUBSET Providers, rotated : BOOLEAN,
              kimi : {"none", "stale", "post", "write"}]

(* They are among what PartsAssumption says.                                *)
LEMMA QuotaConstants == QuotaParameters
BY PartsAssumption DEF QuotaParameters

(* An operation belongs to a process, and is not nobody.                   *)
LEMMA Owners == QuotaParameters => \A o \in Quotas!Ops : o[1] \in Processes /\ o # Quotas!Nobody
BY DEF QuotaParameters, Quotas!Ops, Quotas!Nobody

-----------------------------------------------------------------------------
(* Types.                                                                  *)

(* A cache merged with the file is a cache.                                *)
LEMMA MergedType ==
    ASSUME NEW c \in Quotas!Cache, disk \in Quotas!Cache
    PROVE  /\ Quotas!Merged(c) \in Quotas!Cache
           /\ \A x \in Providers :
                 /\ Quotas!Merged(c).snap[x] >= disk.snap[x] /\ Quotas!Merged(c).snap[x] >= c.snap[x]
                 /\ Quotas!Merged(c).snap[x] \in {c.snap[x], disk.snap[x]}
                 /\ Quotas!Merged(c).checked[x] >= disk.checked[x]
                 /\ Quotas!Merged(c).checked[x] >= c.checked[x]
                 /\ Quotas!Merged(c).checked[x] \in {c.checked[x], disk.checked[x]}
<1>1. ASSUME NEW f \in [Providers -> Quotas!Times], NEW g \in [Providers -> Quotas!Times]
      PROVE  /\ Quotas!Newer(f, g) \in [Providers -> Quotas!Times]
             /\ \A x \in Providers : /\ Quotas!Newer(f, g)[x] >= g[x] /\ Quotas!Newer(f, g)[x] >= f[x]
                                     /\ Quotas!Newer(f, g)[x] \in {f[x], g[x]}
  BY DEF Quotas!Newer, Quotas!Times
<1>2. /\ c.snap \in [Providers -> Quotas!Times] /\ c.checked \in [Providers -> Quotas!Times]
      /\ disk.snap \in [Providers -> Quotas!Times] /\ disk.checked \in [Providers -> Quotas!Times]
  BY DEF Quotas!Cache
<1>3. /\ Quotas!Merged(c).snap = Quotas!Newer(c.snap, disk.snap)
      /\ Quotas!Merged(c).checked = Quotas!Newer(c.checked, disk.checked)
      /\ Quotas!Merged(c) = [snap |-> Quotas!Newer(c.snap, disk.snap),
                      checked |-> Quotas!Newer(c.checked, disk.checked)]
  BY DEF Quotas!Merged
<1> QED
  BY <1>1, <1>2, <1>3 DEF Quotas!Cache

(* What becomes of the cache and the operation when a fetch settles.       *)
LEMMA SettledType ==
    ASSUME QuotaParameters, Quotas!TypeOK, NEW o \in Quotas!Ops, NEW x, NEW t,
           x \in Providers => t \in Quotas!Times, Quotas!Settled(o, x, t)
    PROVE  /\ op' \in [Quotas!Ops -> Operation]
           /\ memory' \in [Processes -> [loaded : BOOLEAN, cache : Quotas!Cache]]
           /\ \A q \in Quotas!Ops : op'[q].at = op[q].at
           /\ \A p \in Processes \ {o[1]} : memory'[p] = memory[p]
           /\ \A y \in Providers \ {x} :
                 /\ memory'[o[1]].cache.snap[y] = memory[o[1]].cache.snap[y]
                 /\ memory'[o[1]].cache.checked[y] = memory[o[1]].cache.checked[y]
           /\ x \in Providers => /\ memory'[o[1]].cache.snap[x] = t
                                 /\ memory'[o[1]].cache.checked[x] = now
<1> DEFINE p == o[1]
           c == memory[p].cache
           d == memory'[p].cache
<1>1. p \in Processes /\ memory[p] \in [loaded : BOOLEAN, cache : Quotas!Cache] /\ c \in Quotas!Cache
  BY Owners DEF Quotas!TypeOK
<1>2. now \in Quotas!Times
  BY DEF Quotas!TypeOK, Quotas!Times, QuotaParameters
<1>3. memory' = [memory EXCEPT ![p].cache = [snap |-> [c.snap EXCEPT ![x] = t],
                                             checked |-> [c.checked EXCEPT ![x] = now]]]
  BY <1>1 DEF Quotas!Settled, Quotas!TypeOK
<1>4. /\ \A q \in Processes \ {p} : memory'[q] = memory[q]
      /\ memory'[p].loaded = memory[p].loaded
      /\ d.snap = [c.snap EXCEPT ![x] = t]
      /\ d.checked = [c.checked EXCEPT ![x] = now]
  BY <1>1, <1>3 DEF Quotas!TypeOK
<1>5. memory' \in [Processes -> [loaded : BOOLEAN, cache : Quotas!Cache]]
  <2>1. [snap |-> [c.snap EXCEPT ![x] = t], checked |-> [c.checked EXCEPT ![x] = now]] \in Quotas!Cache
    BY <1>1, <1>2 DEF Quotas!Cache
  <2> QED
    BY <1>1, <1>3, <2>1 DEF Quotas!TypeOK
<1>6. op' \in [Quotas!Ops -> Operation] /\ \A q \in Quotas!Ops : op'[q].at = op[q].at
  <2>1. op \in [Quotas!Ops -> Operation] /\ op[o] \in Operation
    BY DEF Quotas!TypeOK, Operation
  <2>2. Quotas!Without(o, x) \in Operation /\ Quotas!Without(o, x).at = op[o].at
    BY <2>1 DEF Quotas!Without, Operation
  <2> QED
    BY <2>1, <2>2 DEF Quotas!Settled
<1> QED
  BY <1>1, <1>4, <1>5, <1>6 DEF Quotas!Cache

(* The steps that move a refresh from one place of refreshDue() to another. *)
LEMMA MovesType ==
    ASSUME QuotaParameters, Quotas!TypeOK, NEW o \in Quotas!Ops,
           \/ Quotas!Begin(o) \/ Quotas!AcquireRefreshLock(o) \/ Quotas!RefreshLockTaken(o) \/ Quotas!RefreshDue(o)
           \/ (\E gone \in BOOLEAN : Quotas!Loaded(o, gone))
           \/ (\E written \in BOOLEAN : Quotas!Persist(o, written))
    PROVE  Quotas!TypeOK'
<1> DEFINE p == o[1]
           c == memory[p].cache
<1>1. p \in Processes /\ memory[p] \in [loaded : BOOLEAN, cache : Quotas!Cache] /\ c \in Quotas!Cache
  BY Owners DEF Quotas!TypeOK
<1>2. op \in [Quotas!Ops -> Operation] /\ memory \in [Processes -> [loaded : BOOLEAN, cache : Quotas!Cache]]
  BY DEF Quotas!TypeOK, Operation
<1>3. Quotas!Merged(c) \in Quotas!Cache
  BY <1>1, MergedType DEF Quotas!TypeOK
<1>4. ASSUME NEW at \in {"idle", "loading", "locking", "locked", "fetching"}, Quotas!Goto(o, at)
      PROVE  op' \in [Quotas!Ops -> Operation]
  BY <1>2, <1>4 DEF Quotas!Goto, Operation
<1>5. ASSUME NEW n \in Quotas!Cache, memory' = [memory EXCEPT ![p].cache = n]
      PROVE  memory' \in [Processes -> [loaded : BOOLEAN, cache : Quotas!Cache]]
  BY <1>1, <1>2, <1>5
<1>6. CASE Quotas!Begin(o)
  <2>1. op' \in [Quotas!Ops -> Operation]
    BY <1>4, <1>6 DEF Quotas!Begin
  <2>2. memory' \in [Processes -> [loaded : BOOLEAN, cache : Quotas!Cache]]
    BY <1>1, <1>2, <1>6 DEF Quotas!Begin
  <2> QED
    BY <1>6, <2>1, <2>2 DEF Quotas!Begin, Quotas!Shared, Quotas!TypeOK, Operation
<1>7. CASE \E gone \in BOOLEAN : Quotas!Loaded(o, gone)
  <2>1. op' \in [Quotas!Ops -> Operation]
    BY <1>4, <1>7 DEF Quotas!Loaded
  <2>2. memory' \in [Processes -> [loaded : BOOLEAN, cache : Quotas!Cache]]
    BY <1>3, <1>5, <1>7 DEF Quotas!Loaded
  <2> QED
    BY <1>7, <2>1, <2>2 DEF Quotas!Loaded, Quotas!Shared, Quotas!TypeOK, Operation
<1>8. CASE Quotas!AcquireRefreshLock(o) \/ Quotas!RefreshLockTaken(o)
  <2>1. op' \in [Quotas!Ops -> Operation]
    BY <1>4, <1>8 DEF Quotas!AcquireRefreshLock, Quotas!RefreshLockTaken
  <2> QED
    BY <1>8, <2>1 DEF Quotas!AcquireRefreshLock, Quotas!RefreshLockTaken, Quotas!Shared,
       Quotas!TypeOK, Operation
<1>9. CASE Quotas!RefreshDue(o)
  <2> DEFINE due == Quotas!Due(o, Quotas!Merged(c).checked)
  <2>1. memory' \in [Processes -> [loaded : BOOLEAN, cache : Quotas!Cache]]
    BY <1>3, <1>5, <1>9 DEF Quotas!RefreshDue, Quotas!Start
  <2>2. due \subseteq Providers
    BY DEF Quotas!Due
  <2>3. \/ due = {} /\ lock' = Quotas!Nobody /\ Quotas!Goto(o, "idle")
        \/ lock' = lock /\ op' = [op EXCEPT ![o].at = "fetching", ![o].due = due]
    BY <1>9 DEF Quotas!RefreshDue, Quotas!Start
  <2>4. op' \in [Quotas!Ops -> Operation]
    BY <1>2, <1>4, <2>2, <2>3 DEF Operation
  <2> QED
    BY <1>9, <2>1, <2>3, <2>4 DEF Quotas!RefreshDue, Quotas!Start, Quotas!Shared,
       Quotas!TypeOK, Operation
<1>10. CASE \E written \in BOOLEAN : Quotas!Persist(o, written)
  <2>1. op' \in [Quotas!Ops -> Operation]
    BY <1>4, <1>10 DEF Quotas!Persist
  <2> QED
    BY <1>1, <1>10, <2>1 DEF Quotas!Persist, Quotas!TypeOK, Operation
<1> QED
  BY <1>6, <1>7, <1>8, <1>9, <1>10

(* The steps that settle a fetch; t is the time of the snapshot it leaves. *)
Fetched(o, x, t) == Quotas!Settled(o, x, t) /\ Quotas!Shared /\ UNCHANGED lock /\ auth' \in {auth, Quotas!Nobody}

LEMMA FetchedType ==
    ASSUME QuotaParameters, Quotas!TypeOK, NEW o \in Quotas!Ops, NEW x, NEW t,
           x \in Providers => t \in Quotas!Times, Fetched(o, x, t)
    PROVE  Quotas!TypeOK'
BY SettledType DEF Fetched, Quotas!Shared, Quotas!TypeOK, Operation

(* A fetch settles with the present time, what Claude Code had cached, or  *)
(* the snapshot there was.                                                 *)
LEMMA FetchesSettle ==
    ASSUME QuotaParameters, Quotas!TypeOK, NEW o \in Quotas!Ops,
           \/ \E x \in Providers : Quotas!FetchLive(o, x) \/ Quotas!FetchFails(o, x)
           \/ \E t \in 0 .. now : Quotas!FetchCached(o, t)
           \/ Quotas!KimiFails(o)
    PROVE  \E x, t : /\ Fetched(o, x, t)
                     /\ x \in Providers =>
                           /\ t \in Quotas!Times
                           /\ \/ t = now
                              \/ x = "claude" /\ t <= now
                              \/ t = memory[o[1]].cache.snap[x]
<1>1. memory[o[1]].cache \in Quotas!Cache
  BY Owners DEF Quotas!TypeOK
<1>2. now \in Quotas!Times /\ 0 .. now \subseteq Quotas!Times
  BY DEF Quotas!TypeOK, Quotas!Times, QuotaParameters
<1>3. ASSUME NEW x \in Providers, Quotas!FetchLive(o, x)
      PROVE  Fetched(o, x, now)
  BY <1>3 DEF Quotas!FetchLive, Fetched
<1>4. ASSUME NEW x \in Providers, Quotas!FetchFails(o, x)
      PROVE  Fetched(o, x, memory[o[1]].cache.snap[x])
  BY <1>4 DEF Quotas!FetchFails, Fetched
<1>5. ASSUME NEW t \in 0 .. now, Quotas!FetchCached(o, t)
      PROVE  Fetched(o, "claude", t) /\ t <= now
  BY <1>5 DEF Quotas!FetchCached, Fetched
<1>6. ASSUME Quotas!KimiFails(o)
      PROVE  Fetched(o, "kimi", memory[o[1]].cache.snap["kimi"])
  BY <1>6 DEF Quotas!KimiFails, Fetched
<1>7. \A x \in Providers : memory[o[1]].cache.snap[x] \in Quotas!Times
  BY <1>1 DEF Quotas!Cache
<1>8. ASSUME NEW x \in Providers, Quotas!FetchLive(o, x) \/ Quotas!FetchFails(o, x)
      PROVE  \E t : /\ Fetched(o, x, t) /\ t \in Quotas!Times
                    /\ t = now \/ t = memory[o[1]].cache.snap[x]
  BY <1>2, <1>3, <1>4, <1>7, <1>8
<1>9. CASE \E t \in 0 .. now : Quotas!FetchCached(o, t)
  BY <1>2, <1>5, <1>9
<1>10. CASE Quotas!KimiFails(o)
  <2> WITNESS "kimi", memory[o[1]].cache.snap["kimi"]
  <2> QED
    BY <1>6, <1>7, <1>10
<1>11. CASE \E x \in Providers : Quotas!FetchLive(o, x) \/ Quotas!FetchFails(o, x)
  <2>1. PICK x \in Providers : Quotas!FetchLive(o, x) \/ Quotas!FetchFails(o, x)
    BY <1>11
  <2>2. PICK t : /\ Fetched(o, x, t) /\ t \in Quotas!Times
                 /\ t = now \/ t = memory[o[1]].cache.snap[x]
    BY <1>8, <2>1
  <2> WITNESS x, t
  <2> QED
    BY <2>1, <2>2
<1> QED
  BY <1>9, <1>10, <1>11

(* A refresh of the token, and what happens to the processes.              *)
LEMMA RotatedForType ==
    ASSUME Quotas!TypeOK, NEW o, NEW kimi \in {"none", "write"}, Quotas!RotatedFor(o, kimi)
    PROVE  /\ op' \in [Quotas!Ops -> Operation]
           /\ \A q \in Quotas!Ops : op'[q].at = op[q].at
           /\ \A q \in Quotas!Ops : op'[q].kimi = IF q = o THEN kimi ELSE op[q].kimi
<1>1. ASSUME NEW q \in Quotas!Ops
      PROVE  /\ op'[q] \in Operation /\ op'[q].at = op[q].at
             /\ op'[q].kimi = IF q = o THEN kimi ELSE op[q].kimi
  <2>1. op[q] \in Operation
    BY DEF Quotas!TypeOK, Operation
  <2>2. CASE q = o
    <3>1. op'[q] = [op[q] EXCEPT !.kimi = kimi]
      BY <2>2 DEF Quotas!RotatedFor
    <3> QED
      BY <2>1, <2>2, <3>1 DEF Operation
  <2>3. CASE q # o
    <3> DEFINE b == op[q].kimi \in {"stale", "post"}
    <3>1. op'[q] = [op[q] EXCEPT !.rotated = b]
      BY <2>3, Zenon DEF Quotas!RotatedFor
    <3>2. b \in BOOLEAN
      OBVIOUS
    <3> HIDE DEF b
    <3>3. PICK r \in BOOLEAN : op'[q] = [op[q] EXCEPT !.rotated = r]
      BY <3>1, <3>2
    <3> QED
      BY <2>1, <2>3, <3>3 DEF Operation
  <2> QED
    BY <2>2, <2>3
<1>2. op' = [q \in Quotas!Ops |-> op'[q]]
  BY DEF Quotas!RotatedFor
<1> QED
  BY <1>1, <1>2

KimiStep(o) == Quotas!KimiStale(o) \/ Quotas!KimiLocked(o) \/ Quotas!KimiRotates(o) \/ Quotas!KimiWritten(o)

LEMMA KimiType ==
    ASSUME QuotaParameters, Quotas!TypeOK, NEW o \in Quotas!Ops, KimiStep(o)
    PROVE  Quotas!TypeOK' /\ \A q \in Quotas!Ops : op'[q].at = op[q].at
<1>1. op[o] \in Operation /\ op \in [Quotas!Ops -> Operation] /\ token.valid \in BOOLEAN
  BY DEF Quotas!TypeOK, Operation
<1>2. ASSUME NEW kimi \in {"none", "stale", "post", "write"}, NEW r \in BOOLEAN,
             op' = [op EXCEPT ![o].kimi = kimi, ![o].rotated = r]
      PROVE  op' \in [Quotas!Ops -> Operation] /\ \A q \in Quotas!Ops : op'[q].at = op[q].at
  BY <1>1, <1>2 DEF Operation
<1>3. CASE Quotas!KimiStale(o)
  <2>1. op' \in [Quotas!Ops -> Operation] /\ \A q \in Quotas!Ops : op'[q].at = op[q].at
    BY <1>1, <1>2, <1>3 DEF Quotas!KimiStale
  <2> QED
    BY <1>3, <2>1 DEF Quotas!KimiStale, Quotas!Shared, Quotas!TypeOK, Operation
<1>4. CASE Quotas!KimiLocked(o)
  <2>1. op' \in [Quotas!Ops -> Operation] /\ \A q \in Quotas!Ops : op'[q].at = op[q].at
    BY <1>1, <1>2, <1>4 DEF Quotas!KimiLocked
  <2> QED
    BY <1>4, <2>1 DEF Quotas!KimiLocked, Quotas!Shared, Quotas!TypeOK, Operation
<1>5. CASE Quotas!KimiRotates(o)
  <2>1. op' \in [Quotas!Ops -> Operation] /\ \A q \in Quotas!Ops : op'[q].at = op[q].at
    BY <1>5, RotatedForType DEF Quotas!KimiRotates
  <2> QED
    BY <1>5, <2>1 DEF Quotas!KimiRotates, Quotas!TypeOK, Operation
<1>6. CASE Quotas!KimiWritten(o)
  <2>1. op' \in [Quotas!Ops -> Operation] /\ \A q \in Quotas!Ops : op'[q].at = op[q].at
    BY <1>1, <1>6 DEF Quotas!KimiWritten, Operation
  <2>2. now + Life \in Nat
    BY DEF Quotas!TypeOK, QuotaParameters
  <2> QED
    BY <1>6, <2>1, <2>2 DEF Quotas!KimiWritten, Quotas!TypeOK, Operation
<1> QED
  BY <1>3, <1>4, <1>5, <1>6 DEF KimiStep

LEMMA WorldType ==
    ASSUME QuotaParameters, Quotas!TypeOK, Quotas!Cli \/ Quotas!Tick \/ \E p \in Processes : Quotas!Crash(p)
    PROVE  Quotas!TypeOK'
<1>1. CASE Quotas!Cli
  <2>1. op' \in [Quotas!Ops -> Operation]
    BY <1>1, RotatedForType DEF Quotas!Cli
  <2>2. now + Life \in Nat
    BY DEF Quotas!TypeOK, QuotaParameters
  <2> QED
    BY <1>1, <2>1, <2>2 DEF Quotas!Cli, Quotas!TypeOK, Operation
<1>2. CASE Quotas!Tick
  BY <1>2 DEF Quotas!Tick, Quotas!TypeOK, Operation, QuotaParameters
<1>3. ASSUME NEW p \in Processes, Quotas!Crash(p) PROVE Quotas!TypeOK'
  <2>1. Quotas!Blank \in Quotas!Cache /\ Quotas!Idle \in Operation
    BY DEF Quotas!Blank, Quotas!Idle, Quotas!Cache, Operation, Quotas!Times, Quotas!Never,
       Quotas!TypeOK, QuotaParameters
  <2>2. memory' \in [Processes -> [loaded : BOOLEAN, cache : Quotas!Cache]]
    BY <1>3, <2>1 DEF Quotas!Crash, Quotas!TypeOK
  <2>3. op' \in [Quotas!Ops -> Operation]
    BY <1>3, <2>1 DEF Quotas!Crash, Quotas!TypeOK, Operation
  <2> QED
    BY <1>3, <2>2, <2>3 DEF Quotas!Crash, Quotas!Shared, Quotas!TypeOK, Operation
<1> QED
  BY <1>1, <1>2, <1>3

LEMMA TypeStep == QuotaParameters /\ Quotas!TypeOK /\ [Quotas!Next]_(Quotas!uvars) => Quotas!TypeOK'
<1> SUFFICES ASSUME QuotaParameters, Quotas!TypeOK, [Quotas!Next]_(Quotas!uvars) PROVE Quotas!TypeOK'
  OBVIOUS
<1>1. CASE Quotas!Cli \/ Quotas!Tick \/ \E p \in Processes : Quotas!Crash(p)
  BY <1>1, WorldType
<1>2. ASSUME NEW o \in Quotas!Ops,
             \/ \E x \in Providers : Quotas!FetchLive(o, x) \/ Quotas!FetchFails(o, x)
             \/ \E t \in 0 .. now : Quotas!FetchCached(o, t)
             \/ Quotas!KimiFails(o)
      PROVE  Quotas!TypeOK'
  BY <1>2, FetchesSettle, FetchedType
<1>3. CASE UNCHANGED Quotas!uvars
  BY <1>3 DEF Quotas!uvars, Quotas!TypeOK
<1> QED
  BY <1>1, <1>2, <1>3, MovesType, KimiType DEF Quotas!Next, KimiStep

(* The state stays in its types.                                           *)
LEMMA UsageTyped == Quotas!Spec => []Quotas!TypeOK
<1>1. Quotas!Init => Quotas!TypeOK
  BY QuotaConstants
     DEF QuotaParameters, Quotas!Init, Quotas!TypeOK, Quotas!Blank, Quotas!Idle,
         Quotas!Cache, Quotas!Times, Quotas!Never
<1>2. Quotas!TypeOK /\ [Quotas!Next]_(Quotas!uvars) => Quotas!TypeOK'
  BY QuotaConstants, TypeStep
<1> QED
  BY <1>1, <1>2, PTL DEF Quotas!Spec

-----------------------------------------------------------------------------
(* The cache file.  Nothing in a cache is of the future; the refresh lock  *)
(* is with whoever is past acquiring it; and while its fetches settle, the *)
(* cache of that process holds nothing older than the file.                *)
Past(c) == \A x \in Providers : c.snap[x] <= now /\ c.checked[x] <= now

Ahead(c) ==
    \A x \in Providers :
       c.checked[x] >= disk.checked[x] /\ (x = "claude" \/ c.snap[x] >= disk.snap[x])

NotOfTheFuture == Past(disk) /\ \A p \in Processes : Past(memory[p].cache)
Holds(o)       == op[o].at \in {"locked", "fetching"} => lock = o
AheadOfDisk(o) == op[o].at = "fetching" => Ahead(memory[o[1]].cache)

CacheInv == Quotas!TypeOK /\ NotOfTheFuture /\ \A o \in Quotas!Ops : Holds(o) /\ AheadOfDisk(o)

(* Merging keeps a cache in the past and brings it ahead of the file.      *)
LEMMA MergedIsAhead ==
    ASSUME CacheInv, NEW p \in Processes
    PROVE  LET c == memory[p].cache
           IN  Past(Quotas!Merged(c)) /\ Ahead(Quotas!Merged(c))
<1>1. memory[p].cache \in Quotas!Cache /\ disk \in Quotas!Cache /\ Past(disk) /\ Past(memory[p].cache)
  BY DEF CacheInv, NotOfTheFuture, Quotas!TypeOK
<1> QED
  BY <1>1, MergedType DEF Past, Ahead

(* What a step that leaves the clock and the file alone must do.           *)
LEMMA CacheKept ==
    ASSUME CacheInv, Quotas!TypeOK', now' = now, disk' = disk,
           \A p \in Processes : /\ Past(memory[p].cache) => Past(memory'[p].cache)
                                /\ Ahead(memory[p].cache) => Ahead(memory'[p].cache),
           \A o \in Quotas!Ops :
              /\ op'[o].at \in {"locked", "fetching"} => lock' = o
              /\ op'[o].at = "fetching" =>
                    op[o].at = "fetching" \/ Ahead(memory'[o[1]].cache),
           QuotaParameters
    PROVE  CacheInv'
<1>1. \A c : (Past(c)' <=> Past(c)) /\ (Ahead(c)' <=> Ahead(c))
  BY DEF Past, Ahead
<1> QED
  BY <1>1, Owners DEF CacheInv, NotOfTheFuture, Holds, AheadOfDisk

(* The steps of refreshDue() before its fetches: whoever acquires the lock *)
(* finds it free, and the cache is merged with the file under it.          *)
LEMMA MovesCache ==
    ASSUME QuotaParameters, CacheInv, NEW o \in Quotas!Ops,
           \/ Quotas!Begin(o) \/ Quotas!AcquireRefreshLock(o) \/ Quotas!RefreshLockTaken(o) \/ Quotas!RefreshDue(o)
           \/ \E gone \in BOOLEAN : Quotas!Loaded(o, gone)
    PROVE  CacheInv'
<1> DEFINE p == o[1]
           c == memory[p].cache
<1>1. Quotas!TypeOK'
  BY MovesType DEF CacheInv
<1>2. /\ p \in Processes /\ o # Quotas!Nobody
      /\ \A q \in Quotas!Ops : q[1] \in Processes /\ q # Quotas!Nobody
      /\ op \in [Quotas!Ops -> Operation] /\ op[o] \in Operation
      /\ memory \in [Processes -> [loaded : BOOLEAN, cache : Quotas!Cache]]
  BY Owners DEF CacheInv, Quotas!TypeOK, Operation
<1>3. Past(Quotas!Merged(c)) /\ Ahead(Quotas!Merged(c))
  BY <1>2, MergedIsAhead
<1>4. ASSUME NEW at, Quotas!Goto(o, at)
      PROVE  op'[o].at = at /\ \A q \in Quotas!Ops \ {o} : op'[q] = op[q]
  BY <1>2, <1>4 DEF Quotas!Goto, Operation
<1>5. ASSUME NEW n, memory' = [memory EXCEPT ![p].cache = n]
      PROVE  memory'[p].cache = n /\ \A q \in Processes \ {p} : memory'[q] = memory[q]
  BY <1>2, <1>5
<1>6. CASE Quotas!Begin(o)
  <2>1. \A q \in Processes : memory'[q].cache = memory[q].cache
    BY <1>2, <1>6 DEF Quotas!Begin
  <2>2. PICK at \in {"locking", "loading"} : Quotas!Goto(o, at)
    BY <1>6 DEF Quotas!Begin
  <2> QED
    BY <1>1, <1>4, <1>6, <2>1, <2>2, CacheKept DEF Quotas!Begin, Quotas!Shared, CacheInv,
       Holds
<1>7. CASE \E gone \in BOOLEAN : Quotas!Loaded(o, gone)
  <2>1. memory'[p].cache = Quotas!Merged(c) /\ \A q \in Processes \ {p} : memory'[q] = memory[q]
    BY <1>5, <1>7 DEF Quotas!Loaded
  <2>2. PICK at \in {"locking", "idle"} : Quotas!Goto(o, at)
    BY <1>7 DEF Quotas!Loaded
  <2> QED
    BY <1>1, <1>3, <1>4, <1>7, <2>1, <2>2, CacheKept DEF Quotas!Loaded, Quotas!Shared,
       CacheInv, Holds
<1>8. CASE Quotas!AcquireRefreshLock(o)
  <2>1. \A q \in Quotas!Ops : op[q].at \notin {"locked", "fetching"}
    BY <1>2, <1>8 DEF Quotas!AcquireRefreshLock, CacheInv, Holds
  <2>2. Quotas!Goto(o, "locked") /\ lock' = o /\ memory' = memory /\ Quotas!Shared
    BY <1>8 DEF Quotas!AcquireRefreshLock
  <2> QED
    BY <1>1, <1>4, <2>1, <2>2, CacheKept DEF Quotas!Shared
<1>9. CASE Quotas!RefreshLockTaken(o)
  BY <1>1, <1>4, <1>9, CacheKept DEF Quotas!RefreshLockTaken, Quotas!Shared, CacheInv, Holds
<1>10. CASE Quotas!RefreshDue(o)
  <2>1. memory'[p].cache = Quotas!Merged(c) /\ \A q \in Processes \ {p} : memory'[q] = memory[q]
    BY <1>5, <1>10 DEF Quotas!RefreshDue, Quotas!Start
  <2>2. lock = o
    BY <1>10 DEF Quotas!RefreshDue, Quotas!Start, CacheInv, Holds
  <2>3. \A q \in Quotas!Ops \ {o} : op[q].at \notin {"locked", "fetching"}
    BY <2>2 DEF CacheInv, Holds
  <2>4. /\ \A q \in Quotas!Ops \ {o} : op'[q] = op[q]
        /\ op'[o].at = "idle" \/ (op'[o].at = "fetching" /\ lock' = lock)
    BY <1>2, <1>4, <1>10 DEF Quotas!RefreshDue, Quotas!Start, Operation
  <2>5. Quotas!Shared
    BY <1>10 DEF Quotas!RefreshDue, Quotas!Start
  <2> QED
    BY <1>1, <1>2, <1>3, <2>1, <2>2, <2>3, <2>4, <2>5, CacheKept DEF Quotas!Shared
<1> QED
  BY <1>6, <1>7, <1>8, <1>9, <1>10

(* A fetch that settles leaves the snapshot there was, or a newer one.     *)
LEMMA FetchesCache ==
    ASSUME QuotaParameters, CacheInv, NEW o \in Quotas!Ops,
           \/ \E x \in Providers : Quotas!FetchLive(o, x) \/ Quotas!FetchFails(o, x)
           \/ \E t \in 0 .. now : Quotas!FetchCached(o, t)
           \/ Quotas!KimiFails(o)
    PROVE  CacheInv'
<1> DEFINE p == o[1]
<1>1. Quotas!TypeOK /\ p \in Processes
  BY Owners DEF CacheInv
<1>2. PICK x, t : /\ Fetched(o, x, t)
                  /\ x \in Providers =>
                        /\ t \in Quotas!Times
                        /\ \/ t = now
                           \/ x = "claude" /\ t <= now
                           \/ t = memory[p].cache.snap[x]
  BY <1>1, FetchesSettle
<1>3. Quotas!TypeOK'
  BY <1>1, <1>2, FetchedType
<1>4. /\ \A q \in Quotas!Ops : op'[q].at = op[q].at
      /\ \A q \in Processes \ {p} : memory'[q] = memory[q]
      /\ \A y \in Providers \ {x} :
            /\ memory'[p].cache.snap[y] = memory[p].cache.snap[y]
            /\ memory'[p].cache.checked[y] = memory[p].cache.checked[y]
      /\ x \in Providers => /\ memory'[p].cache.snap[x] = t
                            /\ memory'[p].cache.checked[x] = now
  BY <1>1, <1>2, SettledType DEF Fetched
<1>5. Past(disk) /\ now \in Int /\ disk \in Quotas!Cache /\ memory[p].cache \in Quotas!Cache
  BY <1>1 DEF CacheInv, NotOfTheFuture, Quotas!TypeOK
<1>6. Past(memory[p].cache) => Past(memory'[p].cache)
  BY <1>2, <1>4, <1>5 DEF Past, Quotas!Cache, Quotas!Times
<1>7. Ahead(memory[p].cache) => Ahead(memory'[p].cache)
  BY <1>2, <1>4, <1>5 DEF Past, Ahead, Quotas!Cache, Quotas!Times
<1>8. \A q \in Quotas!Ops : op'[q].at \in {"locked", "fetching"} => lock' = q
  BY <1>2, <1>4 DEF Fetched, CacheInv, Holds
<1> QED
  BY <1>2, <1>3, <1>4, <1>6, <1>7, <1>8, CacheKept DEF Fetched, Quotas!Shared

(* The refresh of a token does not concern the cache.                      *)
LEMMA KimiCache ==
    ASSUME QuotaParameters, CacheInv, NEW o \in Quotas!Ops, KimiStep(o) PROVE CacheInv'
<1>1. Quotas!TypeOK' /\ \A q \in Quotas!Ops : op'[q].at = op[q].at
  BY KimiType DEF CacheInv
<1>2. now' = now /\ disk' = disk /\ memory' = memory /\ lock' = lock
  BY DEF KimiStep, Quotas!KimiStale, Quotas!KimiLocked, Quotas!KimiRotates,
     Quotas!KimiWritten, Quotas!Shared
<1> QED
  BY <1>1, <1>2, CacheKept DEF CacheInv, Holds

(* The file is written by the holder of the lock, from a cache ahead of it. *)
LEMMA PersistCache ==
    ASSUME QuotaParameters, CacheInv, NEW o \in Quotas!Ops, NEW written \in BOOLEAN, Quotas!Persist(o, written)
    PROVE  CacheInv' /\ \A x \in Providers :
              /\ disk'.checked[x] >= disk.checked[x]
              /\ x = "claude" \/ disk'.snap[x] >= disk.snap[x]
<1>1. Quotas!TypeOK' /\ o[1] \in Processes /\ op \in [Quotas!Ops -> Operation] /\ disk \in Quotas!Cache
  BY MovesType, Owners DEF CacheInv, Quotas!TypeOK, Operation
<1>2. lock = o /\ Ahead(memory[o[1]].cache) /\ Past(memory[o[1]].cache)
  BY <1>1 DEF Quotas!Persist, CacheInv, Holds, AheadOfDisk, NotOfTheFuture
<1>3. \A q \in Quotas!Ops : op'[q].at \notin {"locked", "fetching"}
  BY <1>1, <1>2 DEF Quotas!Persist, Quotas!Goto, Operation, CacheInv, Holds
<1>4. memory' = memory /\ now' = now /\ disk' \in {memory[o[1]].cache, disk}
  BY DEF Quotas!Persist
<1>5. \A x \in Providers : disk.checked[x] \in Int /\ disk.snap[x] \in Int
  BY <1>1 DEF Quotas!Cache, Quotas!Times
<1> QED
  BY <1>1, <1>2, <1>3, <1>4, <1>5
     DEF CacheInv, NotOfTheFuture, Past, Ahead, Holds, AheadOfDisk

(* A crash frees the locks of the process and forgets its cache; time and  *)
(* the Kimi CLI leave the cache alone.                                     *)
LEMMA WorldCache ==
    ASSUME QuotaParameters, CacheInv, Quotas!Cli \/ Quotas!Tick \/ \E p \in Processes : Quotas!Crash(p)
    PROVE  CacheInv' /\ disk' = disk
<1>1. Quotas!TypeOK /\ Quotas!TypeOK'
  BY WorldType DEF CacheInv
<1>2. CASE Quotas!Cli
  <2>1. \A q \in Quotas!Ops : op'[q].at = op[q].at
    BY <1>1, <1>2, RotatedForType DEF Quotas!Cli
  <2> QED
    BY <1>1, <1>2, <2>1, CacheKept DEF Quotas!Cli, CacheInv, Holds
<1>3. CASE Quotas!Tick
  <2>1. \A c \in Quotas!Cache : Past(c) => Past(c)'
    BY <1>1, <1>3 DEF Quotas!Tick, Past, Quotas!Cache, Quotas!Times, Quotas!TypeOK,
       QuotaParameters
  <2>2. disk \in Quotas!Cache /\ \A p \in Processes : memory[p].cache \in Quotas!Cache
    BY <1>1 DEF Quotas!TypeOK
  <2>3. /\ disk' = disk /\ memory' = memory /\ op' = op /\ lock' = lock
    BY <1>3 DEF Quotas!Tick
  <2>4. NotOfTheFuture'
    <3>1. Past(disk) /\ \A p \in Processes : Past(memory[p].cache)
      BY DEF CacheInv, NotOfTheFuture
    <3>2. \A c : Past(c)' <=> \A x \in Providers : c.snap[x] <= now' /\ c.checked[x] <= now'
      BY DEF Past
    <3> QED
      BY <2>1, <2>2, <2>3, <3>1, <3>2 DEF NotOfTheFuture, Past
  <2> QED
    BY <1>1, <2>3, <2>4 DEF CacheInv, Holds, AheadOfDisk, Ahead
<1>4. ASSUME NEW p \in Processes, Quotas!Crash(p) PROVE CacheInv' /\ disk' = disk
  <2>1. now' = now /\ disk' = disk
    BY <1>4 DEF Quotas!Crash, Quotas!Shared
  <2>2. /\ memory'[p].cache = Quotas!Blank
        /\ \A q \in Processes \ {p} : memory'[q] = memory[q]
    BY <1>1, <1>4 DEF Quotas!Crash, Quotas!TypeOK
  <2>3. Past(Quotas!Blank)
    BY <1>1 DEF Past, Quotas!Blank, Quotas!Never, Quotas!TypeOK, QuotaParameters
  <2>4. \A q \in Quotas!Ops : op'[q] = IF q[1] = p THEN Quotas!Idle ELSE op[q]
    BY <1>4 DEF Quotas!Crash
  <2>5. \A q \in Quotas!Ops : op'[q].at \in {"locked", "fetching"} => lock' = q /\ q[1] # p
    BY <1>4, <2>4 DEF Quotas!Crash, Quotas!Idle, CacheInv, Holds
  <2>6. NotOfTheFuture'
    <3>1. \A c : Past(c)' <=> Past(c)
      BY <2>1 DEF Past
    <3> QED
      BY <2>1, <2>2, <2>3, <3>1 DEF NotOfTheFuture, CacheInv
  <2>7. \A q \in Quotas!Ops : AheadOfDisk(q)'
    <3>1. \A c : Ahead(c)' <=> Ahead(c)
      BY <2>1 DEF Ahead
    <3> QED
      BY <2>2, <2>4, <2>5, <3>1, Owners DEF AheadOfDisk, CacheInv
  <2> QED
    BY <1>1, <2>1, <2>5, <2>6, <2>7 DEF CacheInv, Holds
<1> QED
  BY <1>2, <1>3, <1>4 DEF Quotas!Cli, Quotas!Tick

(* What a step may do to the cache file.                                   *)
Advances ==
    \A x \in Providers :
       /\ disk'.checked[x] >= disk.checked[x]
       /\ x = "claude" \/ disk'.snap[x] >= disk.snap[x]

LEMMA CacheStep == QuotaParameters /\ CacheInv /\ [Quotas!Next]_(Quotas!uvars) => CacheInv' /\ Advances
<1> SUFFICES ASSUME QuotaParameters, CacheInv, [Quotas!Next]_(Quotas!uvars) PROVE CacheInv' /\ Advances
  OBVIOUS
<1>1. \A x \in Providers : disk.checked[x] \in Int /\ disk.snap[x] \in Int
  BY DEF CacheInv, Quotas!TypeOK, Quotas!Cache, Quotas!Times
<1>2. disk' = disk => Advances
  BY <1>1 DEF Advances
<1>3. CASE Quotas!Cli \/ Quotas!Tick \/ \E p \in Processes : Quotas!Crash(p)
  BY <1>2, <1>3, WorldCache
<1>4. ASSUME NEW o \in Quotas!Ops,
             \/ Quotas!Begin(o) \/ Quotas!AcquireRefreshLock(o) \/ Quotas!RefreshLockTaken(o) \/ Quotas!RefreshDue(o)
             \/ \E gone \in BOOLEAN : Quotas!Loaded(o, gone)
      PROVE  CacheInv' /\ disk' = disk
  BY <1>4, MovesCache
     DEF Quotas!Begin, Quotas!AcquireRefreshLock, Quotas!RefreshLockTaken,
     Quotas!RefreshDue, Quotas!Start, Quotas!Loaded, Quotas!Shared
<1>5. ASSUME NEW o \in Quotas!Ops,
             \/ \E x \in Providers : Quotas!FetchLive(o, x) \/ Quotas!FetchFails(o, x)
             \/ \E t \in 0 .. now : Quotas!FetchCached(o, t)
             \/ Quotas!KimiFails(o)
      PROVE  CacheInv' /\ disk' = disk
  BY <1>5, FetchesCache DEF Quotas!FetchLive, Quotas!FetchFails, Quotas!FetchCached,
     Quotas!KimiFails, Quotas!Shared
<1>6. ASSUME NEW o \in Quotas!Ops, KimiStep(o) PROVE CacheInv' /\ disk' = disk
  BY <1>6, KimiCache
     DEF KimiStep, Quotas!KimiStale, Quotas!KimiLocked, Quotas!KimiRotates,
     Quotas!KimiWritten, Quotas!Shared
<1>7. ASSUME NEW o \in Quotas!Ops, NEW written \in BOOLEAN, Quotas!Persist(o, written)
      PROVE  CacheInv' /\ Advances
  BY <1>7, PersistCache DEF Advances
<1>8. CASE UNCHANGED Quotas!uvars
  BY <1>2, <1>8
     DEF Quotas!uvars, CacheInv, Quotas!TypeOK, NotOfTheFuture, Past, Holds, AheadOfDisk,
     Ahead
<1> QED
  BY <1>2, <1>3, <1>4, <1>5, <1>6, <1>7, <1>8 DEF Quotas!Next, KimiStep

(* Whichever process writes the cache file, however its refresh interleaves *)
(* with those of the others, and whoever dies: attempts and snapshots in it *)
(* never go back (service.ts:64).                                          *)
LEMMA CacheOnward == Quotas!Spec => Quotas!CacheOnlyAdvances
<1>1. Quotas!Init => CacheInv
  <2>1. Quotas!Init => Quotas!TypeOK
    BY QuotaConstants
       DEF QuotaParameters, Quotas!Init, Quotas!TypeOK, Quotas!Blank, Quotas!Idle,
           Quotas!Cache, Quotas!Times, Quotas!Never
  <2> QED
    BY <2>1 DEF Quotas!Init, CacheInv, NotOfTheFuture, Past, Quotas!Blank, Quotas!Idle,
       Quotas!Never, Holds, AheadOfDisk
<1>2. CacheInv /\ [Quotas!Next]_(Quotas!uvars) => CacheInv' /\ [Advances]_(Quotas!uvars)
  BY QuotaConstants, CacheStep
<1>3. Quotas!Spec => [][Advances]_(Quotas!uvars)
  BY <1>1, <1>2, PTL DEF Quotas!Spec
<1> QED
  BY <1>3 DEF Quotas!CacheOnlyAdvances, Advances

-----------------------------------------------------------------------------
(* The token of Kimi: whoever presents it or writes its successor holds    *)
(* the OAuth lock.                                                         *)
Presents(o) == op[o].kimi \in {"post", "write"} => auth = o
Spent(o)    == op[o].kimi = "post" /\ op[o].rotated => ~token.valid

TokenInv == Quotas!TypeOK /\ \A o \in Quotas!Ops : Presents(o) /\ Spent(o)

(* What a step that leaves the token alone must do.                        *)
LEMMA TokenKept ==
    ASSUME TokenInv, Quotas!TypeOK', token' = token,
           \A o \in Quotas!Ops :
              \/ op'[o].kimi \notin {"post", "write"}
              \/ /\ op'[o].kimi = op[o].kimi /\ op'[o].rotated = op[o].rotated
                 /\ auth' = auth
    PROVE  TokenInv'
BY DEF TokenInv, Presents, Spent

(* The steps of refreshDue() do not concern the token.                     *)
LEMMA MovesToken ==
    ASSUME QuotaParameters, TokenInv, NEW o \in Quotas!Ops,
           \/ Quotas!Begin(o) \/ Quotas!AcquireRefreshLock(o) \/ Quotas!RefreshLockTaken(o) \/ Quotas!RefreshDue(o)
           \/ (\E gone \in BOOLEAN : Quotas!Loaded(o, gone))
           \/ (\E written \in BOOLEAN : Quotas!Persist(o, written))
    PROVE  TokenInv'
<1>1. Quotas!TypeOK' /\ op \in [Quotas!Ops -> Operation]
  BY MovesType DEF TokenInv, Quotas!TypeOK, Operation
<1>2. ASSUME NEW at, Quotas!Goto(o, at)
      PROVE  \A q \in Quotas!Ops : op'[q].kimi = op[q].kimi /\ op'[q].rotated = op[q].rotated
  BY <1>1, <1>2 DEF Quotas!Goto, Operation
<1>3. \A q \in Quotas!Ops : op'[q].kimi = op[q].kimi /\ op'[q].rotated = op[q].rotated
  <2>1. CASE Quotas!RefreshDue(o)
    <3>1. PICK due : \/ Quotas!Goto(o, "idle")
                     \/ op' = [op EXCEPT ![o].at = "fetching", ![o].due = due]
      BY <2>1 DEF Quotas!RefreshDue, Quotas!Start
    <3> QED
      BY <1>1, <1>2, <3>1 DEF Operation
  <2> QED
    BY <1>2, <2>1 DEF Quotas!Begin, Quotas!AcquireRefreshLock, Quotas!RefreshLockTaken,
       Quotas!Loaded, Quotas!Persist
<1>4. token' = token /\ auth' = auth
  BY DEF Quotas!Begin, Quotas!AcquireRefreshLock, Quotas!RefreshLockTaken,
     Quotas!RefreshDue, Quotas!Start, Quotas!Loaded, Quotas!Persist, Quotas!Shared
<1> QED
  BY <1>1, <1>3, <1>4, TokenKept

(* A fetch that settles ends the refresh of the token, if it is Kimi's.    *)
LEMMA FetchesToken ==
    ASSUME QuotaParameters, TokenInv, NEW o \in Quotas!Ops,
           \/ \E x \in Providers : Quotas!FetchLive(o, x) \/ Quotas!FetchFails(o, x)
           \/ \E t \in 0 .. now : Quotas!FetchCached(o, t)
           \/ Quotas!KimiFails(o)
    PROVE  TokenInv'
<1>1. Quotas!TypeOK' /\ op \in [Quotas!Ops -> Operation] /\ op[o] \in Operation
  BY FetchesSettle, FetchedType DEF TokenInv, Quotas!TypeOK, Operation
<1>2. ASSUME NEW x
      PROVE  /\ x = "kimi" => Quotas!Without(o, x).kimi = "none"
             /\ x # "kimi" => /\ Quotas!Without(o, x).kimi = op[o].kimi
                              /\ Quotas!Without(o, x).rotated = op[o].rotated
  BY <1>1 DEF Quotas!Without, Operation
<1>3. ASSUME NEW x, NEW t, Quotas!Settled(o, x, t), x = "kimi" \/ auth' = auth,
             auth' = auth \/ op[o].kimi \in {"post", "write"}, token' = token
      PROVE  TokenInv'
  <2>1. op'[o] = Quotas!Without(o, x) /\ \A q \in Quotas!Ops \ {o} : op'[q] = op[q]
    BY <1>1, <1>3 DEF Quotas!Settled
  <2>2. auth' # auth => \A q \in Quotas!Ops \ {o} : op[q].kimi \notin {"post", "write"}
    BY <1>3 DEF TokenInv, Presents
  <2> QED
    BY <1>1, <1>2, <1>3, <2>1, <2>2, TokenKept
<1> QED
  BY <1>3 DEF Quotas!FetchLive, Quotas!FetchFails, Quotas!FetchCached, Quotas!KimiFails,
     Quotas!Shared

(* The token is read again under the OAuth lock, and rotated under it.     *)
LEMMA KimiToken ==
    ASSUME QuotaParameters, TokenInv, NEW o \in Quotas!Ops, KimiStep(o) PROVE TokenInv'
<1>1. /\ Quotas!TypeOK' /\ op \in [Quotas!Ops -> Operation] /\ op[o] \in Operation
      /\ \A q \in Quotas!Ops : q # Quotas!Nobody
  BY KimiType, Owners DEF TokenInv, Quotas!TypeOK, Operation
<1>2. ASSUME NEW kimi \in {"none", "stale", "post"}, NEW r,
             op' = [op EXCEPT ![o].kimi = kimi, ![o].rotated = r]
      PROVE  /\ op'[o].kimi = kimi /\ op'[o].rotated = r
             /\ \A q \in Quotas!Ops \ {o} : op'[q] = op[q]
  BY <1>1, <1>2 DEF Operation
<1>3. CASE Quotas!KimiStale(o)
  <2>1. op'[o].kimi = "stale" /\ \A q \in Quotas!Ops \ {o} : op'[q] = op[q]
    BY <1>2, <1>3 DEF Quotas!KimiStale
  <2> QED
    BY <1>1, <1>3, <2>1, TokenKept DEF Quotas!KimiStale, Quotas!Shared
<1>4. CASE Quotas!KimiLocked(o)
  <2>1. \A q \in Quotas!Ops : op[q].kimi \notin {"post", "write"}
    BY <1>1, <1>4 DEF Quotas!KimiLocked, TokenInv, Presents
  <2>2. token' = token
    BY <1>4 DEF Quotas!KimiLocked, Quotas!Shared
  <2>3. CASE Quotas!TokenFresh
    <3>1. op'[o].kimi = "none" /\ \A q \in Quotas!Ops \ {o} : op'[q] = op[q]
      BY <1>2, <1>4, <2>3 DEF Quotas!KimiLocked
    <3> QED
      BY <1>1, <2>1, <2>2, <3>1, TokenKept
  <2>4. CASE ~Quotas!TokenFresh
    <3> DEFINE r == ~token.valid
    <3>1. op' = [op EXCEPT ![o].kimi = "post", ![o].rotated = r] /\ auth' = o
      BY <1>4, <2>4, Zenon DEF Quotas!KimiLocked
    <3> HIDE DEF r
    <3>2. op'[o].rotated = r /\ \A q \in Quotas!Ops \ {o} : op'[q] = op[q]
      BY <1>2, <3>1
    <3>3. Spent(o)'
      BY <2>2, <3>2 DEF Spent, r
    <3> QED
      BY <1>1, <2>1, <3>1, <3>2, <3>3 DEF TokenInv, Presents, Spent
  <2> QED
    BY <2>3, <2>4
<1>5. CASE Quotas!KimiRotates(o)
  <2>1. \A q \in Quotas!Ops : op'[q].kimi = IF q = o THEN "write" ELSE op[q].kimi
    BY <1>5, RotatedForType DEF Quotas!KimiRotates, TokenInv
  <2>2. ~token'.valid /\ auth' = auth
    BY <1>5 DEF Quotas!KimiRotates, TokenInv, Quotas!TypeOK
  <2>3. op[o].kimi = "post"
    BY <1>5 DEF Quotas!KimiRotates
  <2> QED
    BY <1>1, <2>1, <2>2, <2>3 DEF TokenInv, Presents, Spent
<1>6. CASE Quotas!KimiWritten(o)
  <2>1. auth = o
    BY <1>6 DEF Quotas!KimiWritten, TokenInv, Presents
  <2>2. op'[o].kimi = "none" /\ \A q \in Quotas!Ops \ {o} : op'[q] = op[q]
    BY <1>1, <1>6 DEF Quotas!KimiWritten, Operation
  <2>3. \A q \in Quotas!Ops : op'[q].kimi \notin {"post", "write"}
    BY <2>1, <2>2 DEF TokenInv, Presents
  <2> QED
    BY <1>1, <2>3 DEF TokenInv, Presents, Spent
<1> QED
  BY <1>3, <1>4, <1>5, <1>6 DEF KimiStep

(* The Kimi CLI writes a new token only while nobody has the OAuth lock; a *)
(* crash loses the lock with the request.                                  *)
LEMMA WorldToken ==
    ASSUME QuotaParameters, TokenInv, Quotas!Cli \/ Quotas!Tick \/ \E p \in Processes : Quotas!Crash(p)
    PROVE  TokenInv'
<1>1. Quotas!TypeOK /\ Quotas!TypeOK' /\ \A q \in Quotas!Ops : q # Quotas!Nobody
  BY WorldType, Owners DEF TokenInv
<1>2. CASE Quotas!Cli
  <2>1. \A q \in Quotas!Ops : op'[q].kimi = op[q].kimi
    BY <1>1, <1>2, RotatedForType DEF Quotas!Cli
  <2>2. \A q \in Quotas!Ops : op[q].kimi \notin {"post", "write"}
    BY <1>1, <1>2 DEF Quotas!Cli, TokenInv, Presents
  <2> QED
    BY <1>1, <2>1, <2>2 DEF TokenInv, Presents, Spent
<1>3. CASE Quotas!Tick
  BY <1>1, <1>3, TokenKept DEF Quotas!Tick
<1>4. ASSUME NEW p \in Processes, Quotas!Crash(p) PROVE TokenInv'
  <2>1. \A q \in Quotas!Ops : op'[q] = IF q[1] = p THEN Quotas!Idle ELSE op[q]
    BY <1>4 DEF Quotas!Crash
  <2>2. token' = token /\ auth' = IF auth[1] = p THEN Quotas!Nobody ELSE auth
    BY <1>4 DEF Quotas!Crash, Quotas!Shared
  <2> QED
    BY <1>1, <2>1, <2>2 DEF TokenInv, Presents, Spent, Quotas!Idle
<1> QED
  BY <1>2, <1>3, <1>4

(* A token the server has rotated away is presented only when its          *)
(* successor was lost, so never twice because two refreshes interleaved:   *)
(* those of pi's processes and of the Kimi CLI (kimi.ts:91).               *)
LEMMA TokenOnce == Quotas!Spec => []Quotas!RotatedOnce
<1>1. Quotas!Init => TokenInv
  <2>1. Quotas!Init => Quotas!TypeOK
    BY QuotaConstants
       DEF QuotaParameters, Quotas!Init, Quotas!TypeOK, Quotas!Blank, Quotas!Idle,
           Quotas!Cache, Quotas!Times, Quotas!Never
  <2> QED
    BY <2>1 DEF Quotas!Init, TokenInv, Presents, Spent, Quotas!Idle
<1>2. TokenInv /\ [Quotas!Next]_(Quotas!uvars) => TokenInv'
  <2> SUFFICES ASSUME TokenInv, [Quotas!Next]_(Quotas!uvars) PROVE TokenInv'
    OBVIOUS
  <2>1. CASE Quotas!Cli \/ Quotas!Tick \/ \E p \in Processes : Quotas!Crash(p)
    BY <2>1, QuotaConstants, WorldToken
  <2>2. CASE UNCHANGED Quotas!uvars
    BY <2>2 DEF Quotas!uvars, TokenInv, Quotas!TypeOK, Presents, Spent
  <2> QED
    BY <2>1, <2>2, QuotaConstants, MovesToken, FetchesToken, KimiToken
       DEF Quotas!Next, KimiStep
<1>3. TokenInv => Quotas!RotatedOnce
  BY DEF TokenInv, Spent, Quotas!RotatedOnce
<1> QED
  BY <1>1, <1>2, <1>3, PTL DEF Quotas!Spec
-----------------------------------------------------------------------------
(* QuotaReadings: what the answers of the providers become in the footer.  *)

(* A set of naturals has a least member.                                   *)
LEMMA LeastOf ==
    ASSUME NEW S \in SUBSET Nat, S # {}
    PROVE  Readings!Min(S) \in S /\ \A y \in S : Readings!Min(S) <= y
<1> DEFINE R == OpToRel(<, Nat)
<1>1. IsWellFoundedOn(R, Nat)
  BY NatLessThanWellFounded
<1>2. \A m, n \in Nat : m < n => <<m, n>> \in R
  BY DEF OpToRel
<1> HIDE DEF R
<1>3. \E x \in S : \A y \in S : ~(<<y, x>> \in R)
  BY <1>1, WFMin
<1>4. PICK x \in S : \A y \in S : ~(<<y, x>> \in R)
  BY <1>3
<1>5. \A y \in S : x <= y
  <2> SUFFICES ASSUME NEW y \in S, ~(x <= y) PROVE FALSE
    OBVIOUS
  <2>1. x \in Nat /\ y \in Nat /\ y < x
    OBVIOUS
  <2>2. <<y, x>> \in R
    BY <1>2, <2>1
  <2> QED
    BY <1>4, <2>2
<1> QED
  BY <1>5 DEF Readings!Min

(* What an answer is, window by window.                                    *)
LEMMA AnswerFacts ==
    ASSUME NEW p \in Readings!Known, NEW a \in Readings!Answers[p]
    PROVE  /\ DOMAIN a.use = {Readings!Windows[p][i] : i \in DOMAIN Readings!Windows[p]}
           /\ \A w \in DOMAIN a.use : a.use[w] = -1 \/ a.use[w] \in Nat
           /\ p = "claude" => /\ a.use["session"] \in {-1, a.use["five_hour"]}
                              /\ (a.together /\ a.use["opus"] # -1)
                                 => a.use["opus_limit"] \in {-1, a.use["opus"]}
<1>1. Uses \subseteq Nat
  BY PartsAssumption
<1>2. /\ a \in [use : [Readings!Range(Readings!Windows[p]) -> Uses \cup {-1}], together : BOOLEAN]
      /\ IF p # "claude" THEN a.together
         ELSE /\ a.use["session"] \in {-1, a.use["five_hour"]}
              /\ (a.together /\ a.use["opus"] # -1)
                 => a.use["opus_limit"] \in {-1, a.use["opus"]}
  BY DEF Readings!Answers, Readings!None
<1> QED
  BY <1>1, <1>2 DEF Readings!Range

(* Every window of Claude but the session is kept, or stands for one that  *)
(* is as full and binds.                                                   *)
LEMMA ClaudeWindows ==
    ASSUME NEW a \in Readings!Answers["claude"], NEW route,
           NEW i \in 1 .. 6, i # 4, a.use[Readings!Windows["claude"][i]] # -1
    PROVE  \E b \in Readings!Buckets("claude", a, route) :
              /\ b.used = Readings!Clamped(a.use[Readings!Windows["claude"][i]])
              /\ b.health = Readings!Binds(Readings!Windows["claude"][i], route)
<1> DEFINE W == Readings!Windows["claude"]
           K == {j \in DOMAIN W : a.use[W[j]] # -1 /\ W[j] # "session"}
           all == [j \in K |-> Readings!Bucket(a, W[j], route)]
<1>1. W = <<"five_hour", "opus", "apps", "session", "opus_limit", "idle_limit">>
  BY DEF Readings!Windows
<1>2. (a.together /\ a.use["opus"] # -1) => a.use["opus_limit"] \in {-1, a.use["opus"]}
  BY AnswerFacts DEF Readings!Known
<1>3. Readings!Buckets("claude", a, route) = Readings!Distinct(all)
  BY DEF Readings!Buckets, Readings!None
<1>4. K = {j \in 1 .. 6 : a.use[W[j]] # -1 /\ j # 4} /\ i \in K /\ DOMAIN W = 1 .. 6
  BY <1>1
<1>5. \A j \in K : /\ all[j].used = Readings!Clamped(a.use[W[j]])
                   /\ all[j].health = Readings!Binds(W[j], route)
                   /\ all[j].key[1] = IF j = 5 THEN "opus" ELSE W[j]
                   /\ all[j].key[2] = IF j # 5 \/ a.together THEN 1 ELSE 2
  <2> SUFFICES ASSUME NEW j \in K
               PROVE  /\ all[j].used = Readings!Clamped(a.use[W[j]])
                      /\ all[j].health = Readings!Binds(W[j], route)
                      /\ all[j].key[1] = IF j = 5 THEN "opus" ELSE W[j]
                      /\ all[j].key[2] = IF j # 5 \/ a.together THEN 1 ELSE 2
    OBVIOUS
  <2>1. all[j] = Readings!Bucket(a, W[j], route)
    OBVIOUS
  <2>2. W[j] = "opus_limit" <=> j = 5
    BY <1>1, <1>4
  <2> HIDE DEF W, K, all
  <2>3. /\ all[j].used = Readings!Clamped(a.use[W[j]])
        /\ all[j].health = Readings!Binds(W[j], route)
        /\ all[j].key = IF W[j] = "opus_limit" THEN <<"opus", IF a.together THEN 1 ELSE 2>>
                        ELSE <<W[j], 1>>
    BY <2>1 DEF Readings!Bucket
  <2> QED
    BY <2>2, <2>3
<1>6. \A j \in K : (\A m \in K : m < j => all[m].key # all[j].key)
                   => all[j] \in Readings!Distinct(all)
  BY DEF Readings!Distinct
<1> HIDE DEF W, K, all
<1>7. \A j, m \in K : m < j /\ all[m].key = all[j].key => m = 2 /\ j = 5 /\ a.together
  <2> SUFFICES ASSUME NEW j \in K, NEW m \in K, m < j, all[m].key = all[j].key
               PROVE  m = 2 /\ j = 5 /\ a.together
    OBVIOUS
  <2>1. j \in 1 .. 6 /\ m \in 1 .. 6 /\ j # 4 /\ m # 4
    BY <1>4
  <2>2. (IF m = 5 THEN "opus" ELSE W[m]) = (IF j = 5 THEN "opus" ELSE W[j])
    BY <1>5
  <2>3. m = 2 /\ j = 5
    BY <1>1, <2>1, <2>2
  <2>4. all[2].key[2] = 1 /\ all[5].key[2] = IF a.together THEN 1 ELSE 2
    BY <1>5, <2>3
  <2> QED
    BY <2>3, <2>4
<1>8. CASE i = 5 /\ 2 \in K /\ a.together
  <2>1. all[2] \in Readings!Distinct(all)
    BY <1>6, <1>7, <1>8
  <2>2. a.use[W[5]] = a.use[W[2]]
    BY <1>1, <1>2, <1>4, <1>8
  <2>3. Readings!Binds(W[5], route) = Readings!Binds(W[2], route)
    BY <1>1 DEF Readings!Binds
  <2> QED
    BY <1>3, <1>5, <1>8, <2>1, <2>2, <2>3 DEF W
<1>9. CASE ~(i = 5 /\ 2 \in K /\ a.together)
  <2>1. all[i] \in Readings!Distinct(all)
    BY <1>4, <1>6, <1>7, <1>9
  <2> QED
    BY <1>3, <1>4, <1>5, <2>1 DEF W
<1> QED
  BY <1>8, <1>9

(* Every window that binds is told by a bucket, and every bucket that      *)
(* binds tells of such a window.                                           *)
LEMMA BucketsTell ==
    ASSUME NEW p \in Readings!Known, NEW a \in Readings!Answers[p], NEW route
    PROVE  LET bound == {w \in DOMAIN a.use : a.use[w] # -1 /\ Readings!Binds(w, route)}
           IN  /\ \A b \in Readings!Buckets(p, a, route) : b.health =>
                     \E w \in bound : b.used = Readings!Clamped(a.use[w])
               /\ \A w \in bound : \E b \in Readings!Buckets(p, a, route) :
                     b.health /\ b.used = Readings!Clamped(a.use[w])
<1> DEFINE W == Readings!Windows[p]
           K == {j \in DOMAIN W : a.use[W[j]] # -1 /\ W[j] # "session"}
           all == [j \in K |-> Readings!Bucket(a, W[j], route)]
           bound == {w \in DOMAIN a.use : a.use[w] # -1 /\ Readings!Binds(w, route)}
<1>1. DOMAIN a.use = {W[j] : j \in DOMAIN W}
  BY AnswerFacts
<1>2. Readings!Buckets(p, a, route) = IF p = "claude" THEN Readings!Distinct(all)
                                      ELSE Readings!Range(all)
  BY DEF Readings!Buckets, Readings!None
<1>3. \A j \in K : /\ all[j].used = Readings!Clamped(a.use[W[j]])
                   /\ all[j].health = Readings!Binds(W[j], route)
  BY DEF Readings!Bucket
<1>4. \A b \in Readings!Buckets(p, a, route) : \E j \in K : b = all[j]
  <2>1. \A b \in Readings!Distinct(all) : \E j \in K : b = all[j]
    BY DEF Readings!Distinct
  <2>2. \A b \in Readings!Range(all) : \E j \in K : b = all[j]
    BY DEF Readings!Range
  <2> QED
    BY <1>2, <2>1, <2>2
<1>5. ASSUME NEW b \in Readings!Buckets(p, a, route), b.health
      PROVE  \E w \in bound : b.used = Readings!Clamped(a.use[w])
  <2>1. PICK j \in K : b = all[j]
    BY <1>4
  <2>2. W[j] \in bound /\ b.used = Readings!Clamped(a.use[W[j]])
    BY <1>1, <1>3, <1>5, <2>1
  <2> QED
    BY <2>2
<1>6. ASSUME NEW w \in bound
      PROVE  \E b \in Readings!Buckets(p, a, route) :
                b.health /\ b.used = Readings!Clamped(a.use[w])
  <2>1. PICK j \in DOMAIN W : w = W[j]
    BY <1>1
  <2>2. CASE p # "claude"
    <3>1. W[j] # "session"
      BY <2>2 DEF Readings!Known, Readings!Windows
    <3>2. j \in K /\ all[j] \in Readings!Range(all)
      BY <2>1, <3>1 DEF Readings!Range
    <3> QED
      BY <1>2, <1>3, <2>1, <2>2, <3>2
  <2>3. CASE p = "claude" /\ j # 4
    <3>1. j \in 1 .. 6
      BY <2>3 DEF Readings!Windows
    <3> QED
      BY <2>1, <2>3, <3>1, ClaudeWindows
  <2>4. CASE p = "claude" /\ j = 4
    <3>1. W[4] = "session" /\ W[1] = "five_hour"
      BY <2>4 DEF Readings!Windows
    <3>2. a.use["session"] = a.use["five_hour"]
      BY <2>1, <2>4, <3>1, AnswerFacts
    <3>3. a.use[W[1]] = a.use[w] /\ a.use[W[1]] # -1
      BY <2>1, <2>4, <3>1, <3>2
    <3>4. Readings!Binds(W[1], route)
      BY <3>1 DEF Readings!Binds
    <3> QED
      BY <2>4, <3>3, <3>4, ClaudeWindows
  <2> QED
    BY <2>2, <2>3, <2>4
<1> HIDE DEF bound
<1>7. /\ \A b \in Readings!Buckets(p, a, route) : b.health =>
            \E w \in bound : b.used = Readings!Clamped(a.use[w])
      /\ \A w \in bound : \E b \in Readings!Buckets(p, a, route) :
            b.health /\ b.used = Readings!Clamped(a.use[w])
  BY <1>5, <1>6
<1> QED
  BY <1>7 DEF bound

(* What providerRemaining finds is what the fullest window leaves.         *)
LEMMA OutcomeIsTrue ==
    ASSUME NEW p \in Readings!Known, NEW a \in Readings!Answers[p], NEW route
    PROVE  /\ Readings!Outcome(p, a, route).left = Readings!Outcome(p, a, route).owed
           /\ Readings!Outcome(p, a, route).left \in -1 .. 100
<1> DEFINE bound == {w \in DOMAIN a.use : a.use[w] # -1 /\ Readings!Binds(w, route)}
           binding == {b \in Readings!Buckets(p, a, route) : b.health}
           rest == {100 - b.used : b \in binding}
           owes == {100 - Readings!Clamped(a.use[w]) : w \in bound}
<1>1. /\ \A b \in Readings!Buckets(p, a, route) : b.health =>
            \E w \in bound : b.used = Readings!Clamped(a.use[w])
      /\ \A w \in bound : \E b \in Readings!Buckets(p, a, route) :
            b.health /\ b.used = Readings!Clamped(a.use[w])
  BY BucketsTell
<1>2. rest = owes /\ (binding = {} <=> bound = {}) /\ (owes = {} <=> bound = {})
  BY <1>1
<1>3. owes \subseteq 0 .. 100
  <2>1. \A w \in bound : a.use[w] \in Nat
    BY AnswerFacts
  <2> QED
    BY <2>1 DEF Readings!Clamped
<1>4. /\ Readings!Remaining(Readings!Buckets(p, a, route))
            = IF binding = {} THEN -1 ELSE Readings!Min(rest)
      /\ Readings!Leaves(a, route) = IF bound = {} THEN -1 ELSE Readings!Min(owes)
  BY DEF Readings!Remaining, Readings!Leaves, Readings!None
<1> HIDE DEF bound, binding, rest, owes
<1>5. owes # {} => Readings!Min(owes) \in 0 .. 100
  <2>1. owes \in SUBSET Nat
    BY <1>3
  <2>2. owes # {} => Readings!Min(owes) \in owes
    BY <2>1, LeastOf
  <2> QED
    BY <1>3, <2>2
<1> QED
  BY <1>2, <1>4, <1>5 DEF Readings!Outcome

(* An outcome says what the answer leaves, between nothing known and all.  *)
TrueOutcome(o) == o.left = o.owed /\ o.left \in -1 .. 100

(* What is read stays what was answered, the cache of Claude included; the *)
(* footer is drawn when nothing is read any more.                          *)
ReadInv ==
    /\ meters \in [Readings!Known -> [state : {"unread", "failed", "live", "cache"}, left : -1 .. 100]]
    /\ owed \in [Readings!Known -> -1 .. 100]
    /\ Readings!LeftIsTrue
    /\ \A o \in reading.cached : TrueOutcome(o)
    /\ Readings!ServerIsStopped
    /\ line # Readings!NoLine =>
          reading.of = "none" /\ \A p \in Readings!Known : meters[p].state # "unread"
    /\ Readings!BarIsFair
    /\ Readings!NothingCrowdedOut

LEMMA OutcomesAreTrue ==
    ASSUME NEW p \in Readings!Known, NEW route \in {"http", "server"},
           NEW o \in Readings!Outcomes[p][route]
    PROVE  TrueOutcome(o)
<1>1. \E a \in Readings!Answers[p] : o = Readings!Outcome(p, a, route)
  BY DEF Readings!Outcomes
<1> QED
  BY <1>1, OutcomeIsTrue DEF TrueOutcome

(* An outcome is taken, while the footer is not drawn yet.                 *)
LEMMA TakesOutcome ==
    ASSUME ReadInv, line = Readings!NoLine, line' = line,
           NEW p \in Readings!Known, NEW o, TrueOutcome(o),
           NEW state \in {"live", "cache"}, Readings!Takes(p, o, state),
           \A u \in reading'.cached : TrueOutcome(u), Readings!ServerIsStopped'
    PROVE  ReadInv'
<1>1. /\ meters' \in [Readings!Known -> [state : {"unread", "failed", "live", "cache"}, left : -1 .. 100]]
      /\ owed' \in [Readings!Known -> -1 .. 100]
  BY DEF ReadInv, Readings!Takes, TrueOutcome
<1>2. Readings!LeftIsTrue'
  BY DEF ReadInv, Readings!Takes, TrueOutcome, Readings!LeftIsTrue
<1>3. Readings!BarIsFair' /\ Readings!NothingCrowdedOut'
  BY DEF Readings!BarIsFair, Readings!NothingCrowdedOut, Readings!NoLine
<1> QED
  BY <1>1, <1>2, <1>3 DEF ReadInv

(* A reading goes on, or fails.                                            *)
LEMMA ReadsOn ==
    ASSUME ReadInv, line = Readings!NoLine, line' = line,
           \/ UNCHANGED <<meters, owed>>
           \/ \E p \in Readings!Known : Readings!Fails(p),
           \A u \in reading'.cached : TrueOutcome(u), Readings!ServerIsStopped'
    PROVE  ReadInv'
<1>1. /\ meters' \in [Readings!Known -> [state : {"unread", "failed", "live", "cache"}, left : -1 .. 100]]
      /\ owed' = owed /\ \A p \in Readings!Known : meters'[p].left = meters[p].left
  BY DEF ReadInv, Readings!Fails
<1>2. Readings!LeftIsTrue'
  BY <1>1 DEF ReadInv, Readings!LeftIsTrue
<1>3. Readings!BarIsFair' /\ Readings!NothingCrowdedOut'
  BY DEF Readings!BarIsFair, Readings!NothingCrowdedOut, Readings!NoLine
<1> QED
  BY <1>1, <1>2, <1>3 DEF ReadInv

(* Nothing is read any more once the footer is drawn.                      *)
LEMMA DrawnLast ==
    ASSUME ReadInv, line # Readings!NoLine, Readings!Next
    PROVE  /\ UNCHANGED <<meters, owed, line>>
           /\ reading' = Readings!Idle
<1>1. /\ reading.of = "none" /\ reading.child # "running"
      /\ \A p \in Readings!Known : meters[p].state # "unread"
  BY DEF ReadInv, Readings!ServerIsStopped
<1>2. {"codex", "claude", "kimi"} = Readings!Known
  BY DEF Readings!Known
<1> QED
  BY <1>1, <1>2
     DEF Readings!Next, Readings!BeginCodex, Readings!SkipExpired, Readings!CredentialFails,
         Readings!CredentialAnswers, Readings!AtCredential, Readings!StartServer,
         Readings!ServerGreets, Readings!ServerAnswers, Readings!ServerFails,
         Readings!ChildGoes, Readings!BeginClaude, Readings!ClaudeAnswers,
         Readings!ClaudeCached, Readings!KimiAnswers, Readings!Render

(* Codex: its credentials, then the app server.                            *)
LEMMA CodexRead ==
    ASSUME ReadInv, line = Readings!NoLine,
           \/ Readings!BeginCodex \/ Readings!SkipExpired \/ Readings!CredentialFails
           \/ Readings!CredentialAnswers \/ Readings!StartServer \/ Readings!ServerGreets
           \/ Readings!ServerAnswers \/ Readings!ServerFails \/ Readings!ChildGoes
    PROVE  ReadInv'
<1>1. "codex" \in Readings!Known
  BY DEF Readings!Known
<1>2. /\ \A u \in reading.cached : TrueOutcome(u)
      /\ reading.of = "none" => reading.child # "running"
  BY DEF ReadInv, Readings!ServerIsStopped
<1>3. CASE Readings!BeginCodex
  BY <1>3, ReadsOn DEF Readings!BeginCodex, Readings!Idle, Readings!ServerIsStopped
<1>4. CASE Readings!SkipExpired \/ Readings!CredentialFails
  <2>1. /\ reading' = [reading EXCEPT !.left = Tail(@)]
        /\ UNCHANGED <<meters, owed, line>>
    BY <1>4 DEF Readings!SkipExpired, Readings!CredentialFails, Readings!ToNextCredential
  <2>2. UNCHANGED <<reading.of, reading.child, reading.cached>>
    BY <2>1
  <2> QED
    BY <1>2, <2>1, <2>2, ReadsOn DEF Readings!ServerIsStopped
<1>5. CASE Readings!CredentialAnswers
  <2>1. PICK o \in Readings!Outcomes["codex"]["http"] : Readings!Takes("codex", o, "live")
    BY <1>5 DEF Readings!CredentialAnswers
  <2>2. reading' = Readings!Idle /\ line' = line
    BY <1>5 DEF Readings!CredentialAnswers
  <2> QED
    BY <1>1, <2>1, <2>2, TakesOutcome, OutcomesAreTrue
       DEF Readings!Idle, Readings!ServerIsStopped
<1>6. CASE Readings!StartServer \/ Readings!ServerGreets
  <2>1. /\ UNCHANGED <<meters, owed, line>> /\ reading'.of # "none"
        /\ reading'.cached = reading.cached
    <3>1. CASE Readings!StartServer
      <4>1. reading' = [reading EXCEPT !.child = "running"] /\ reading.of = "codex"
        BY <3>1 DEF Readings!StartServer
      <4>2. UNCHANGED <<reading.of, reading.cached, meters, owed, line>>
        BY <3>1, <4>1 DEF Readings!StartServer
      <4> QED
        BY <4>1, <4>2
    <3>2. CASE Readings!ServerGreets
      <4>1. reading' = [reading EXCEPT !.asked = TRUE] /\ reading.child = "running"
        BY <3>2 DEF Readings!ServerGreets
      <4>2. UNCHANGED <<reading.of, reading.cached, meters, owed, line>>
        BY <3>2, <4>1 DEF Readings!ServerGreets
      <4> QED
        BY <1>2, <4>1, <4>2
    <3> QED
      BY <1>6, <3>1, <3>2
  <2> QED
    BY <1>2, <2>1, ReadsOn DEF Readings!ServerIsStopped
<1>7. CASE Readings!ServerAnswers
  <2>1. PICK o \in Readings!Outcomes["codex"]["server"] : Readings!Takes("codex", o, "live")
    BY <1>7 DEF Readings!ServerAnswers
  <2>2. /\ reading'.child = "killed" /\ reading'.cached = reading.cached /\ line' = line
    BY <1>7 DEF Readings!ServerAnswers, Readings!Finish
  <2> QED
    BY <1>1, <1>2, <2>1, <2>2, TakesOutcome, OutcomesAreTrue DEF Readings!ServerIsStopped
<1>8. CASE Readings!ServerFails
  <2>1. /\ reading'.child = "killed" /\ reading'.cached = reading.cached /\ line' = line
        /\ Readings!Fails("codex")
    BY <1>8 DEF Readings!ServerFails, Readings!Finish
  <2> QED
    BY <1>1, <1>2, <2>1, ReadsOn DEF Readings!ServerIsStopped
<1>9. CASE Readings!ChildGoes
  BY <1>9, ReadsOn DEF Readings!ChildGoes, Readings!Idle, Readings!ServerIsStopped
<1> QED
  BY <1>3, <1>4, <1>5, <1>6, <1>7, <1>8, <1>9

(* Claude, live or as Claude Code has cached it, and Kimi.                 *)
LEMMA OthersRead ==
    ASSUME ReadInv, line = Readings!NoLine,
           \/ Readings!BeginClaude \/ Readings!ClaudeAnswers \/ Readings!ClaudeCached
           \/ Readings!KimiAnswers
    PROVE  ReadInv'
<1>1. "claude" \in Readings!Known /\ "kimi" \in Readings!Known
  BY DEF Readings!Known
<1>2. /\ \A u \in reading.cached : TrueOutcome(u)
      /\ reading.of = "none" => reading.child # "running"
  BY DEF ReadInv, Readings!ServerIsStopped
<1>3. CASE Readings!BeginClaude
  <2>1. PICK cached \in {{}} \cup {{o} : o \in Readings!Outcomes["claude"]["http"]}, key \in {"fresh", "expired"} :
           reading' = [Readings!Idle EXCEPT !.of = "claude", !.left = <<key>>, !.cached = cached]
    BY <1>3 DEF Readings!BeginClaude
  <2>2. \A u \in cached : u \in Readings!Outcomes["claude"]["http"]
    BY <2>1
  <2>3. reading'.of = "claude" /\ reading'.cached = cached
    BY <2>1 DEF Readings!Idle
  <2> QED
    BY <1>1, <1>3, <2>2, <2>3, ReadsOn, OutcomesAreTrue
       DEF Readings!BeginClaude, Readings!ServerIsStopped
<1>4. CASE Readings!ClaudeAnswers
  <2>1. PICK o \in Readings!Outcomes["claude"]["http"] : Readings!Takes("claude", o, "live")
    BY <1>4 DEF Readings!ClaudeAnswers
  <2>2. reading' = Readings!Idle /\ line' = line
    BY <1>4 DEF Readings!ClaudeAnswers
  <2> QED
    BY <1>1, <2>1, <2>2, TakesOutcome, OutcomesAreTrue
       DEF Readings!Idle, Readings!ServerIsStopped
<1>5. CASE Readings!ClaudeCached
  <2>1. reading' = Readings!Idle /\ line' = line
    BY <1>5 DEF Readings!ClaudeCached
  <2>2. (\A u \in reading'.cached : TrueOutcome(u)) /\ Readings!ServerIsStopped'
    BY <2>1 DEF Readings!Idle, Readings!ServerIsStopped
  <2>3. CASE reading.cached = {}
    BY <1>1, <1>5, <2>1, <2>2, <2>3, ReadsOn DEF Readings!ClaudeCached
  <2>4. CASE reading.cached # {}
    <3>1. PICK o \in reading.cached : Readings!Takes("claude", o, "cache")
      BY <1>5, <2>4 DEF Readings!ClaudeCached
    <3> QED
      BY <1>1, <1>2, <2>1, <2>2, <3>1, TakesOutcome
  <2> QED
    BY <2>3, <2>4
<1>6. CASE Readings!KimiAnswers
  <2>1. reading' = reading /\ line' = line
    BY <1>6 DEF Readings!KimiAnswers
  <2>2. (\A u \in reading'.cached : TrueOutcome(u)) /\ Readings!ServerIsStopped'
    BY <1>2, <2>1 DEF Readings!ServerIsStopped
  <2>3. CASE Readings!Fails("kimi")
    BY <1>1, <2>1, <2>2, <2>3, ReadsOn
  <2>4. CASE \E o \in Readings!Outcomes["kimi"]["http"] : Readings!Takes("kimi", o, "live")
    <3>1. PICK o \in Readings!Outcomes["kimi"]["http"] : Readings!Takes("kimi", o, "live")
      BY <2>4
    <3> QED
      BY <1>1, <2>1, <2>2, <3>1, TakesOutcome, OutcomesAreTrue
  <2> QED
    BY <1>6, <2>3, <2>4 DEF Readings!KimiAnswers
<1> QED
  BY <1>3, <1>4, <1>5, <1>6

(* A share of the bar is a number of per cent.                             *)
LEMMA SharesOf ==
    ASSUME ReadInv, NEW p \in Readings!Known
    PROVE  Readings!Share(p) \in 0 .. 100
<1>1. meters[p].left \in -1 .. 100
  BY DEF ReadInv
<1> QED
  BY <1>1 DEF Readings!Share, Readings!None

(* Each provider has its third, to a cell: three rounded thirds exceed the *)
(* bar by one cell at most, and the last is cut by it.                     *)
LEMMA ThirdsFit ==
    ASSUME ReadInv, NEW cells \in {20, 30}
    PROVE  /\ Readings!Sum3(Readings!Bar(cells)) \in Nat
           /\ Readings!Sum3(Readings!Bar(cells)) <= cells
           /\ \A i \in 1 .. 3 :
                 LET s == Readings!Share(Readings!Order[i])
                 IN  /\ 300 * Readings!Bar(cells)[i] - s * cells < 300
                     /\ s * cells - 300 * Readings!Bar(cells)[i] < 300
<1> DEFINE x == Readings!Share("codex")
           y == Readings!Share("claude")
           z == Readings!Share("kimi")
           X == Readings!Want("codex", cells)
           Y == Readings!Want("claude", cells)
           Z == Readings!Want("kimi", cells)
           a == Readings!Least(X, cells)
           b == Readings!Least(Y, cells - a)
           c == Readings!Least(Z, cells - a - b)
<1>1. x \in 0 .. 100 /\ y \in 0 .. 100 /\ z \in 0 .. 100
  BY SharesOf DEF Readings!Known
<1>2. ASSUME NEW s \in 0 .. 100
      PROVE  LET w == (2 * s * cells + 300) \div 600
             IN  /\ w \in Nat /\ 3 * w <= cells + 1
                 /\ 600 * w <= 2 * (s * cells) + 300 /\ 2 * (s * cells) + 300 < 600 * w + 600
  <2>1. CASE cells = 20
    BY <1>2, <2>1
  <2>2. CASE cells = 30
    BY <1>2, <2>2
  <2> QED
    BY <2>1, <2>2
<1>3. /\ X = (2 * x * cells + 300) \div 600 /\ Y = (2 * y * cells + 300) \div 600
      /\ Z = (2 * z * cells + 300) \div 600
  BY DEF Readings!Want
<1>4. Readings!Bar(cells) = <<a, b, c>>
  BY DEF Readings!Bar
<1>5. /\ a = IF X < cells THEN X ELSE cells
      /\ b = IF Y < cells - a THEN Y ELSE cells - a
      /\ c = IF Z < cells - a - b THEN Z ELSE cells - a - b
  BY DEF Readings!Least
<1> HIDE DEF x, y, z, X, Y, Z, a, b, c
<1>6. /\ X \in Nat /\ 3 * X <= cells + 1
      /\ 600 * X <= 2 * (x * cells) + 300 /\ 2 * (x * cells) + 300 < 600 * X + 600
  BY <1>1, <1>2, <1>3
<1>7. /\ Y \in Nat /\ 3 * Y <= cells + 1
      /\ 600 * Y <= 2 * (y * cells) + 300 /\ 2 * (y * cells) + 300 < 600 * Y + 600
  BY <1>1, <1>2, <1>3
<1>8. /\ Z \in Nat /\ 3 * Z <= cells + 1
      /\ 600 * Z <= 2 * (z * cells) + 300 /\ 2 * (z * cells) + 300 < 600 * Z + 600
  BY <1>1, <1>2, <1>3
<1>9. a = X /\ b = Y /\ c \in Nat /\ a + b + c <= cells /\ (c = Z \/ (cells = 20 /\ Z = 7 /\ c = 6))
  BY <1>5, <1>6, <1>7, <1>8
<1>10. /\ 300 * a - x * cells < 300 /\ x * cells - 300 * a < 300
       /\ 300 * b - y * cells < 300 /\ y * cells - 300 * b < 300
  BY <1>1, <1>6, <1>7, <1>9
<1>11. 300 * c - z * cells < 300 /\ z * cells - 300 * c < 300
  BY <1>1, <1>8, <1>9
<1>12. Readings!Sum3(<<a, b, c>>) = a + b + c
  BY DEF Readings!Sum3
<1>13. /\ Readings!Share(Readings!Order[1]) = x /\ Readings!Share(Readings!Order[2]) = y
       /\ Readings!Share(Readings!Order[3]) = z
  BY DEF Readings!Order, x, y, z
<1> QED
  BY <1>4, <1>6, <1>7, <1>9, <1>10, <1>11, <1>12, <1>13

(* The directory has what the rest of the line leaves it.                  *)
LEMMA NamesFit ==
    ASSUME NEW width \in Nat, NEW cwd \in Nat, NEW branch \in Nat, NEW fixed \in Nat
    PROVE  LET reserved == fixed + (IF width >= 110 \/ branch > 0 THEN 5 ELSE 0)
               names == Readings!NameGroup(cwd, branch, width, reserved)
               long == (IF names = 0 THEN 0 ELSE names + 5) + fixed
           IN  long <= width \/ long = (IF branch = 0 THEN 0 ELSE branch + 5) + fixed
<1> DEFINE reserved == fixed + (IF width >= 110 \/ branch > 0 THEN 5 ELSE 0)
           budget == width - reserved
                     - (IF branch = 0 THEN 0 ELSE branch + (IF width >= 110 THEN 1 ELSE 0))
           dir == IF width >= 110 /\ cwd > 0 /\ budget >= 4
                  THEN (IF cwd < budget THEN cwd ELSE budget) ELSE 0
           names == Readings!NameGroup(cwd, branch, width, reserved)
<1>1. names = dir + branch + (IF dir > 0 /\ branch > 0 THEN 1 ELSE 0)
  BY DEF Readings!NameGroup, Readings!Least
<1>2. budget = width - reserved
                - (IF branch = 0 THEN 0 ELSE branch + (IF width >= 110 THEN 1 ELSE 0))
  OBVIOUS
<1>3. \/ /\ dir \in Nat /\ dir > 0 /\ dir <= budget /\ width >= 110
      \/ dir = 0
  OBVIOUS
<1> HIDE DEF names, dir, budget
<1>4. ((IF names = 0 THEN 0 ELSE names + 5) + fixed <= width)
      \/ ((IF names = 0 THEN 0 ELSE names + 5) + fixed
             = (IF branch = 0 THEN 0 ELSE branch + 5) + fixed)
  <2>1. CASE dir = 0
    BY <1>1, <2>1
  <2>2. CASE dir \in Nat /\ dir > 0 /\ dir <= budget /\ width >= 110
    <3>1. names = dir + branch + (IF branch > 0 THEN 1 ELSE 0)
      BY <1>1, <2>2
    <3>2. budget = width - fixed - 5 - (IF branch = 0 THEN 0 ELSE branch + 1)
      BY <1>2, <2>2
    <3>3. names + 5 + fixed <= width
      BY <2>2, <3>1, <3>2
    <3> QED
      BY <2>2, <3>1, <3>3
  <2> QED
    BY <1>3, <2>1, <2>2
<1> QED
  BY <1>4 DEF names

(* The footer is drawn.                                                    *)
LEMMA FooterDrawn == ASSUME ReadInv, Readings!Render PROVE ReadInv'
<1>1. Widths \subseteq Nat /\ Names \subseteq Nat
  BY PartsAssumption
<1>2. PICK width \in Widths, cwd \in Names, branched \in Names, right \in Names, tag \in {0, 13} :
         LET branch == IF width >= 90 THEN branched ELSE 0
             names  == Readings!NameGroup(cwd, branch, width,
                                          Readings!Reserved(width, branch, right, tag))
             long   == tag + (IF names = 0 THEN 0 ELSE names + 5)
                       + Readings!Fixed(width) + Readings!Right(right)
             cells  == IF width >= 90 THEN 30 ELSE 20
         IN  line' = [cells |-> Readings!Bar(cells),
                      empty |-> cells - Readings!Sum3(Readings!Bar(cells)),
                      shown |-> Readings!Percent, width |-> width, cut |-> long > width,
                      fits |-> tag + (IF branch = 0 THEN 0 ELSE branch + 5)
                               + Readings!Fixed(width) + Readings!Right(right) <= width]
  BY DEF Readings!Render, Readings!Separator
<1> DEFINE branch == IF width >= 90 THEN branched ELSE 0
           fixed == tag + Readings!Fixed(width) + Readings!Right(right)
           names == Readings!NameGroup(cwd, branch, width,
                                       Readings!Reserved(width, branch, right, tag))
           long == tag + (IF names = 0 THEN 0 ELSE names + 5)
                   + Readings!Fixed(width) + Readings!Right(right)
           cells == IF width >= 90 THEN 30 ELSE 20
<1>3. /\ line'.cells = Readings!Bar(cells) /\ line'.width = width
      /\ line'.empty = cells - Readings!Sum3(Readings!Bar(cells))
      /\ line'.cut = (long > width)
      /\ line'.fits = (tag + (IF branch = 0 THEN 0 ELSE branch + 5)
                       + Readings!Fixed(width) + Readings!Right(right) <= width)
  BY <1>2
<1>4. /\ UNCHANGED <<meters, owed, reading>> /\ reading.of = "none"
      /\ \A p \in Readings!Known : meters[p].state # "unread"
  BY DEF Readings!Render
<1>5. Readings!BarIsFair'
  <2>1. cells \in {20, 30}
    OBVIOUS
  <2>2. \A p : Readings!Share(p)' = Readings!Share(p)
    BY <1>4 DEF Readings!Share
  <2>3. Readings!Order' = Readings!Order
    BY DEF Readings!Order
  <2>4. Readings!Sum3(Readings!Bar(cells))' = Readings!Sum3(Readings!Bar(cells))
    BY <1>4 DEF Readings!Sum3, Readings!Bar, Readings!Want, Readings!Share
  <2> DEFINE s == Readings!Sum3(Readings!Bar(cells))
             bar == Readings!Bar(cells)
  <2>5. /\ s \in Nat /\ s <= cells
        /\ \A i \in 1 .. 3 :
              /\ 300 * bar[i] - Readings!Share(Readings!Order[i]) * cells < 300
              /\ Readings!Share(Readings!Order[i]) * cells - 300 * bar[i] < 300
    BY <2>1, ThirdsFit
  <2>6. line'.cells = bar /\ line'.empty = cells - s /\ line'.width = width
    BY <1>3
  <2>7. Readings!Sum3(line'.cells) = s
    BY <2>6
  <2>8. cells = IF line'.width >= 90 THEN 30 ELSE 20
    BY <2>6
  <2>9. Readings!Sum3(line.cells)' = Readings!Sum3(line'.cells)
    BY DEF Readings!Sum3
  <2> HIDE DEF s, bar, cells
  <2>10. s + (cells - s) = cells /\ cells - s >= 0
    BY <2>1, <2>5
  <2> QED
    BY <2>2, <2>3, <2>5, <2>6, <2>7, <2>8, <2>9, <2>10 DEF Readings!BarIsFair
<1>6. Readings!NothingCrowdedOut'
  <2>1. branch \in Nat /\ width \in Nat /\ cwd \in Nat /\ right \in Nat /\ tag \in Nat
    BY <1>1
  <2>2. Readings!Percent \in Int
    <3>1. /\ Readings!Share("codex") \in 0 .. 100 /\ Readings!Share("claude") \in 0 .. 100
          /\ Readings!Share("kimi") \in 0 .. 100
      BY SharesOf DEF Readings!Known
    <3> DEFINE x == Readings!Share("codex")
               y == Readings!Share("claude")
               z == Readings!Share("kimi")
               n == 2 * (x + y + z) + 3
    <3>2. n \in Nat
      <4> HIDE DEF x, y, z
      <4>1. x \in 0 .. 100 /\ y \in 0 .. 100 /\ z \in 0 .. 100
        BY <3>1 DEF x, y, z
      <4> QED
        BY <4>1
    <3>3. Readings!Percent = n \div 6
      BY DEF Readings!Percent
    <3> HIDE DEF n
    <3> QED
      BY <3>2, <3>3
  <2>3. Readings!Fixed(width) \in Nat /\ Readings!Right(right) \in Nat
    BY <2>1, <2>2 DEF Readings!Fixed, Readings!Right, Readings!NumberWidth, Readings!Separator
  <2>4. fixed \in Nat
    BY <2>1, <2>3
  <2>5. Readings!Reserved(width, branch, right, tag)
           = fixed + (IF width >= 110 \/ branch > 0 THEN 5 ELSE 0)
    BY <2>1, <2>3 DEF Readings!Reserved, Readings!Separator
  <2>6. LET r == (IF names = 0 THEN 0 ELSE names + 5) + fixed
        IN  r <= width \/ r = (IF branch = 0 THEN 0 ELSE branch + 5) + fixed
    <3>1. names = Readings!NameGroup(cwd, branch, width,
                                     fixed + (IF width >= 110 \/ branch > 0 THEN 5 ELSE 0))
      BY <2>5
    <3> HIDE DEF branch, fixed, names
    <3> QED
      BY <2>1, <2>4, <3>1, NamesFit
  <2>7. names \in Int
    BY <2>1, <2>4, <2>5 DEF Readings!NameGroup, Readings!Least
  <2> HIDE DEF branch, names
  <2>8. long = (IF names = 0 THEN 0 ELSE names + 5) + fixed
    BY <2>1, <2>3, <2>7
  <2>9. tag + (IF branch = 0 THEN 0 ELSE branch + 5)
           + Readings!Fixed(width) + Readings!Right(right)
           = (IF branch = 0 THEN 0 ELSE branch + 5) + fixed
    BY <2>1, <2>3
  <2> HIDE DEF long, fixed
  <2>10. long > width => ~((IF branch = 0 THEN 0 ELSE branch + 5) + fixed <= width)
    <3>1. long \in Int
      BY <2>4, <2>7, <2>8
    <3> QED
      BY <2>1, <2>4, <2>6, <2>8, <3>1
  <2> QED
    BY <1>3, <2>9, <2>10 DEF Readings!NothingCrowdedOut
<1> QED
  BY <1>4, <1>5, <1>6 DEF ReadInv, Readings!LeftIsTrue, Readings!ServerIsStopped

LEMMA ReadStep == ReadInv /\ [Readings!Next]_(Readings!meterVars) => ReadInv'
<1> SUFFICES ASSUME ReadInv, [Readings!Next]_(Readings!meterVars) PROVE ReadInv'
  OBVIOUS
<1>1. CASE UNCHANGED Readings!meterVars
  BY <1>1 DEF Readings!meterVars, ReadInv, Readings!LeftIsTrue, Readings!ServerIsStopped,
              Readings!BarIsFair, Readings!NothingCrowdedOut, Readings!Share, Readings!Sum3
<1>2. CASE Readings!Next /\ line # Readings!NoLine
  <2>1. UNCHANGED <<meters, owed, line>> /\ reading' = Readings!Idle
    BY <1>2, DrawnLast
  <2> QED
    BY <2>1 DEF ReadInv, Readings!LeftIsTrue, Readings!ServerIsStopped, Readings!Idle,
                Readings!BarIsFair, Readings!NothingCrowdedOut, Readings!Share, Readings!Sum3
<1>3. CASE Readings!Next /\ line = Readings!NoLine
  BY <1>3, CodexRead, OthersRead, FooterDrawn DEF Readings!Next
<1> QED
  BY <1>1, <1>2, <1>3

(* Whatever the providers answer, over whichever way, and however wide the *)
(* terminal is: the footer says what is left, in a fair bar, with a        *)
(* directory that crowds nothing out, no app server is left behind, and a  *)
(* token that was rotated away is not presented again.                     *)
LEMMA ReadingsKept == Readings!Spec => []Readings!ReadingsAreTrue
<1>1. Readings!Init => ReadInv
  BY DEF Readings!Init, ReadInv, Readings!Unread, Readings!None, Readings!Idle,
         Readings!LeftIsTrue, Readings!ServerIsStopped, Readings!BarIsFair,
         Readings!NothingCrowdedOut, Readings!NoLine
<1>2. ReadInv /\ [Readings!Next]_(Readings!meterVars) => ReadInv'
  BY ReadStep
<1>3. ReadInv => Readings!ReadingsAreTrue
  BY DEF ReadInv, Readings!ReadingsAreTrue
<1> QED
  BY <1>1, <1>2, <1>3, PTL DEF Readings!Spec

-----------------------------------------------------------------------------
(* RunLease: the lock file of a run, one file operation at a time.         *)

Stages == {"idle", "opened", "taken", "read", "stale", "again", "held", "release", "dead"}
AnyFile == [pid : Nat, token : Nat, written : BOOLEAN]

LeaseType ==
    /\ lockFile \in AnyFile /\ solo \in Pids \cup {0}
    /\ denied \in BOOLEAN /\ raced \in BOOLEAN
    /\ contender \in [Pids -> [at : Stages, token : Nat, left : Int, read : AnyFile]]

(* A lock that is written and whose process lives is still held by it; one *)
(* that was found stale is, since the dead stay dead.                      *)
Truthful ==
    \A p \in Pids :
       /\ lockFile.written /\ lockFile.pid = p =>
             Lease!Mine(p) /\ contender[p].at \in {"held", "release", "dead"}
       /\ contender[p].at = "stale" => ~Lease!Lives(contender[p].read)

(* Who began alone finds nothing in its way but what the dead have left,   *)
(* and that at its first attempt.                                          *)
Undisturbed ==
    \A p \in Pids : solo = p =>
       /\ Lease!Alone(p)
       /\ contender[p].at \in {"taken", "read", "stale"} =>
             lockFile # Lease!NoFile /\ contender[p].left = 1
       /\ contender[p].at = "again" => lockFile = Lease!NoFile
       /\ contender[p].at = "read" => ~Lease!Lives(contender[p].read)

(* Without the race, the lock file is that of whoever has made it.         *)
Owned ==
    ~raced => \A p \in Pids : contender[p].at \in {"opened", "held", "release"} =>
                 Lease!Mine(p) /\ (contender[p].at # "opened" => lockFile.written)

LeaseInv == LeaseType /\ Truthful /\ Undisturbed /\ Owned /\ ~denied

(* What a step of one process leaves alone: the others, and the dead.      *)
LEMMA LeaseFrame ==
    ASSUME LeaseInv, NEW p \in Pids, Lease!Step(p),
           NEW c, c \in [at : Stages, token : Nat, left : Int, read : AnyFile],
           contender' = [contender EXCEPT ![p] = c]
    PROVE  /\ contender' \in [Pids -> [at : Stages, token : Nat, left : Int, read : AnyFile]]
           /\ contender'[p] = c
           /\ \A q \in Pids \ {p} : contender'[q] = contender[q]
           /\ \A f : Lease!Lives(f)' => Lease!Lives(f)
<1>1. contender[p].at # "dead"
  BY DEF Lease!Step, Lease!Open, Lease!Write, Lease!Read, Lease!Judge, Lease!Unlink,
         Lease!Release, Lease!Drop, Lease!Crash
<1>2. /\ contender' \in [Pids -> [at : Stages, token : Nat, left : Int, read : AnyFile]]
      /\ contender'[p] = c
      /\ \A q \in Pids \ {p} : contender'[q] = contender[q]
  BY DEF LeaseInv, LeaseType
<1> QED
  BY <1>1, <1>2 DEF Lease!Lives

(* Who is said to act alone does.                                          *)
LEMMA AloneKept ==
    ASSUME LeaseInv, NEW p \in Pids,
           \A q \in Pids \ {p} : contender'[q] = contender[q],
           solo' = IF (contender[p].at = "idle" /\ Lease!Alone(p)) \/ solo = p THEN p ELSE 0
    PROVE  /\ solo' \in Pids \cup {0}
           /\ solo' = p => Lease!Alone(p) /\ Lease!Alone(p)' /\ (solo = p \/ contender[p].at = "idle")
           /\ \A q \in Pids \ {p} : solo' # q
<1>1. 0 \notin Pids
  BY PartsAssumption
<1> QED
  BY <1>1 DEF LeaseInv, Undisturbed, Lease!Alone

Solo(p) == solo' = IF (contender[p].at = "idle" /\ Lease!Alone(p)) \/ solo = p THEN p ELSE 0

(* The exclusive open.                                                     *)
LEMMA OpenLease ==
    ASSUME LeaseInv, NEW p \in Pids, Lease!Step(p), Lease!Open(p), Solo(p) PROVE LeaseInv'
<1> DEFINE c == [at |-> IF lockFile = Lease!NoFile THEN "opened" ELSE "taken",
                 token |-> contender[p].token + 1, read |-> Lease!NoFile,
                 left |-> (IF contender[p].at = "again" THEN contender[p].left ELSE 2) - 1]
<1>1. /\ contender' = [contender EXCEPT ![p] = c] /\ UNCHANGED <<denied, raced>>
      /\ contender[p].at \in {"idle", "again"}
      /\ lockFile' = IF lockFile = Lease!NoFile
                     THEN [pid |-> p, token |-> contender[p].token + 1, written |-> FALSE]
                     ELSE lockFile
  BY DEF Lease!Open, Lease!Attempts, Lease!File
<1>2. /\ lockFile \in AnyFile /\ p \in Nat \ {0} /\ 0 \notin Pids /\ Lease!NoFile \in AnyFile
      /\ contender[p] \in [at : Stages, token : Nat, left : Int, read : AnyFile]
      /\ Lease!NoFile.pid = 0 /\ ~Lease!NoFile.written
  BY PartsAssumption DEF LeaseInv, LeaseType, Lease!NoFile, Lease!File, AnyFile
<1>3. c \in [at : Stages, token : Nat, left : Int, read : AnyFile]
  BY <1>2 DEF Stages
<1>4. /\ contender' \in [Pids -> [at : Stages, token : Nat, left : Int, read : AnyFile]]
      /\ contender'[p] = c
      /\ \A q \in Pids \ {p} : contender'[q] = contender[q]
      /\ \A f : Lease!Lives(f)' => Lease!Lives(f)
  BY <1>1, <1>3, LeaseFrame
<1>5. /\ solo' \in Pids \cup {0}
      /\ solo' = p => Lease!Alone(p) /\ Lease!Alone(p)' /\ (solo = p \/ contender[p].at = "idle")
      /\ \A q \in Pids \ {p} : solo' # q
  BY <1>4, AloneKept DEF Solo
<1>6. LeaseType'
  BY <1>1, <1>2, <1>4, <1>5 DEF LeaseInv, LeaseType, AnyFile
<1>7. Truthful'
  BY <1>1, <1>2, <1>4 DEF LeaseInv, Truthful, Lease!Mine
<1>8. Undisturbed'
  BY <1>1, <1>2, <1>4, <1>5 DEF LeaseInv, Undisturbed
<1>9. Owned'
  BY <1>1, <1>2, <1>4 DEF LeaseInv, Owned, Lease!Mine
<1> QED
  BY <1>1, <1>6, <1>7, <1>8, <1>9 DEF LeaseInv

(* The content is written to the file that was opened, or not at all.      *)
LEMMA WriteLease ==
    ASSUME LeaseInv, NEW p \in Pids, Lease!Step(p), Lease!Write(p), Solo(p) PROVE LeaseInv'
<1>1. PICK at \in {"held", "idle"} :
         /\ contender' = [contender EXCEPT ![p].at = at]
         /\ at = "held" => lockFile' = [lockFile EXCEPT !.written = lockFile.written \/ Lease!Mine(p)]
         /\ at = "idle" => lockFile' = lockFile
  BY DEF Lease!Write, Lease!Goes
<1>2. contender[p].at = "opened" /\ UNCHANGED <<denied, raced>>
  BY DEF Lease!Write
<1> DEFINE c == [contender[p] EXCEPT !.at = at]
<1>3. /\ lockFile \in AnyFile /\ contender[p] \in [at : Stages, token : Nat, left : Int, read : AnyFile]
      /\ lockFile.written \in BOOLEAN
  BY DEF LeaseInv, LeaseType, AnyFile
<1>4. /\ c \in [at : Stages, token : Nat, left : Int, read : AnyFile]
      /\ c.at = at /\ c.token = contender[p].token /\ c.left = contender[p].left
      /\ c.read = contender[p].read
  BY <1>3 DEF Stages
<1>5. contender' = [contender EXCEPT ![p] = c]
  BY <1>1
<1> HIDE DEF c
<1>6. /\ contender' \in [Pids -> [at : Stages, token : Nat, left : Int, read : AnyFile]]
      /\ contender'[p] = c
      /\ \A q \in Pids \ {p} : contender'[q] = contender[q]
      /\ \A f : Lease!Lives(f)' => Lease!Lives(f)
  BY <1>4, <1>5, LeaseFrame
<1>7. /\ solo' \in Pids \cup {0}
      /\ solo' = p => Lease!Alone(p) /\ Lease!Alone(p)' /\ (solo = p \/ contender[p].at = "idle")
      /\ \A q \in Pids \ {p} : solo' # q
  BY <1>6, AloneKept DEF Solo
<1>8. /\ lockFile' \in AnyFile /\ lockFile'.pid = lockFile.pid /\ lockFile'.token = lockFile.token
      /\ at = "held" => (lockFile'.written <=> lockFile.written \/ Lease!Mine(p))
      /\ at = "idle" => (lockFile'.written <=> lockFile.written)
  <2>1. (lockFile.written \/ Lease!Mine(p)) \in BOOLEAN
    BY DEF Lease!Mine
  <2> QED
    BY <1>1, <1>3, <2>1 DEF AnyFile
<1>9. \A q \in Pids : Lease!Mine(q)' <=> Lease!Mine(q)
  BY <1>4, <1>6, <1>8 DEF Lease!Mine
<1>10. LeaseType'
  BY <1>2, <1>6, <1>7, <1>8 DEF LeaseInv, LeaseType
<1>11. Truthful'
  BY <1>1, <1>2, <1>4, <1>6, <1>8, <1>9 DEF LeaseInv, Truthful, Lease!Mine
<1>12. Undisturbed'
  BY <1>1, <1>2, <1>4, <1>6, <1>7 DEF LeaseInv, Undisturbed
<1>13. Owned'
  BY <1>1, <1>2, <1>4, <1>6, <1>8, <1>9 DEF LeaseInv, Owned
<1> QED
  BY <1>2, <1>10, <1>11, <1>12, <1>13 DEF LeaseInv

(* A step that leaves the lock file alone, and its process with the token. *)
LEMMA LookLease ==
    ASSUME LeaseInv, NEW p \in Pids, Lease!Step(p), Solo(p), UNCHANGED <<lockFile, raced>>,
           NEW c, c \in [at : Stages, token : Nat, left : Int, read : AnyFile],
           contender' = [contender EXCEPT ![p] = c],
           c.token = contender[p].token, c.left = contender[p].left, denied' = FALSE,
           c.at \in {"read", "stale", "again"} => solo = p \/ contender[p].at # "idle",
           lockFile.written /\ lockFile.pid = p => c.at \in {"held", "release", "dead"},
           c.at = "stale" => ~Lease!Lives(c.read),
           c.at \in {"opened", "held", "release"} =>
              contender[p].at = "held" /\ lockFile.written /\ Lease!Mine(p),
           c.at \notin {"taken", "again"},
           c.at \in {"read", "stale"} => contender[p].at \in {"taken", "read"},
           c.at = "read" => (solo = p => ~Lease!Lives(c.read))
    PROVE  LeaseInv'
<1>1. /\ contender' \in [Pids -> [at : Stages, token : Nat, left : Int, read : AnyFile]]
      /\ contender'[p] = c
      /\ \A q \in Pids \ {p} : contender'[q] = contender[q]
      /\ \A f : Lease!Lives(f)' => Lease!Lives(f)
  BY LeaseFrame
<1>2. /\ solo' \in Pids \cup {0}
      /\ solo' = p => Lease!Alone(p) /\ Lease!Alone(p)' /\ (solo = p \/ contender[p].at = "idle")
      /\ \A q \in Pids \ {p} : solo' # q
  BY <1>1, AloneKept DEF Solo
<1>3. \A q \in Pids : Lease!Mine(q)' <=> Lease!Mine(q)
  BY <1>1 DEF Lease!Mine
<1>4. LeaseType'
  BY <1>1, <1>2 DEF LeaseInv, LeaseType
<1>5. Truthful'
  BY <1>1, <1>3 DEF LeaseInv, Truthful
<1>6. Undisturbed'
  <2> SUFFICES ASSUME solo' = p
               PROVE  /\ Lease!Alone(p)'
                      /\ c.at \in {"taken", "read", "stale"} =>
                            lockFile # Lease!NoFile /\ c.left = 1
                      /\ c.at # "again"
                      /\ c.at = "read" => ~Lease!Lives(c.read)'
    <3>1. \A q \in Pids : solo' = q => q = p
      BY <1>2
    <3> QED
      BY <1>1, <3>1 DEF Undisturbed
  <2>1. c.at \in {"read", "stale"} => solo = p /\ contender[p].at \in {"taken", "read"}
    BY <1>2
  <2>2. solo = p /\ contender[p].at \in {"taken", "read"} =>
           lockFile # Lease!NoFile /\ contender[p].left = 1
    BY DEF LeaseInv, Undisturbed
  <2>3. c.at = "read" => ~Lease!Lives(c.read)
    BY <2>1
  <2>4. Lease!Lives(c.read)' => Lease!Lives(c.read)
    BY <1>1
  <2> QED
    BY <1>2, <2>1, <2>2, <2>3, <2>4
<1>7. Owned'
  BY <1>1, <1>3 DEF LeaseInv, Owned
<1> QED
  BY <1>4, <1>5, <1>6, <1>7 DEF LeaseInv

(* The lock is read and judged, asked for its token, or left by its maker. *)
LEMMA LooksLease ==
    ASSUME LeaseInv, NEW p \in Pids, Lease!Step(p), Solo(p),
           Lease!Read(p) \/ Lease!Judge(p) \/ Lease!Release(p) \/ Lease!Crash(p)
    PROVE  LeaseInv'
<1>1. /\ lockFile \in AnyFile /\ denied = FALSE
      /\ contender[p] \in [at : Stages, token : Nat, left : Int, read : AnyFile]
      /\ lockFile.written /\ lockFile.pid = p =>
            Lease!Mine(p) /\ contender[p].at \in {"held", "release", "dead"}
  BY DEF LeaseInv, LeaseType, Truthful
<1>2. CASE Lease!Read(p)
  <2> DEFINE c == [contender[p] EXCEPT !.at = "read", !.read = lockFile]
  <2>1. /\ contender[p].at = "taken" /\ contender' = [contender EXCEPT ![p] = c]
        /\ UNCHANGED <<lockFile, raced, denied>>
    BY <1>2 DEF Lease!Read
  <2>2. /\ c \in [at : Stages, token : Nat, left : Int, read : AnyFile]
        /\ c.at = "read" /\ c.token = contender[p].token /\ c.left = contender[p].left
        /\ c.read = lockFile
    BY <1>1 DEF Stages
  <2>3. solo = p => ~Lease!Lives(lockFile)
    BY <1>1, <2>1 DEF LeaseInv, Undisturbed, Truthful, Lease!Alone, Lease!Lives
  <2> HIDE DEF c
  <2> QED
    BY <1>1, <2>1, <2>2, <2>3, LookLease
<1>3. CASE Lease!Judge(p)
  <2> DEFINE at == IF Lease!Lives(contender[p].read) THEN "idle" ELSE "stale"
             c == [contender[p] EXCEPT !.at = at]
  <2>1. /\ contender[p].at = "read" /\ contender' = [contender EXCEPT ![p] = c]
        /\ UNCHANGED <<lockFile, raced>>
    BY <1>3 DEF Lease!Judge, Lease!Refused, Lease!Goes
  <2>2. /\ c \in [at : Stages, token : Nat, left : Int, read : AnyFile]
        /\ c.at = at /\ c.token = contender[p].token /\ c.left = contender[p].left
        /\ c.read = contender[p].read
    BY <1>1 DEF Stages
  <2>3. denied' = FALSE
    <3>1. Lease!Lives(contender[p].read) => solo # p
      BY <2>1 DEF LeaseInv, Undisturbed
    <3>2. (denied \/ solo = p) = FALSE \/ ~Lease!Lives(contender[p].read)
      BY <1>1, <3>1
    <3>3. IF Lease!Lives(contender[p].read) THEN denied' = (denied \/ solo = p)
          ELSE denied' = denied
      BY <1>3 DEF Lease!Judge, Lease!Refused
    <3>4. denied = FALSE
      BY <1>1 DEF LeaseInv, LeaseType
    <3> QED
      BY <3>2, <3>3, <3>4
  <2>4. at = "stale" => ~Lease!Lives(contender[p].read)
    OBVIOUS
  <2>5. at \in {"idle", "stale"}
    OBVIOUS
  <2> HIDE DEF c, at
  <2> QED
    BY <1>1, <2>1, <2>2, <2>3, <2>4, <2>5, LookLease
<1>4. CASE Lease!Release(p)
  <2> DEFINE at == IF lockFile.written /\ Lease!Mine(p) THEN "release" ELSE "idle"
             c == [contender[p] EXCEPT !.at = at]
  <2>1. /\ contender[p].at = "held" /\ contender' = [contender EXCEPT ![p] = c]
        /\ UNCHANGED <<lockFile, raced, denied>>
    BY <1>4 DEF Lease!Release, Lease!Goes
  <2>2. /\ c \in [at : Stages, token : Nat, left : Int, read : AnyFile]
        /\ c.at = at /\ c.token = contender[p].token /\ c.left = contender[p].left
    BY <1>1 DEF Stages
  <2>3. /\ at = "release" => lockFile.written /\ Lease!Mine(p)
        /\ lockFile.written /\ lockFile.pid = p => at = "release"
        /\ at \in {"release", "idle"}
    BY <1>1
  <2> HIDE DEF c, at
  <2> QED
    BY <1>1, <2>1, <2>2, <2>3, LookLease
<1>5. CASE Lease!Crash(p)
  <2> DEFINE c == [contender[p] EXCEPT !.at = "dead"]
  <2>1. contender' = [contender EXCEPT ![p] = c] /\ UNCHANGED <<lockFile, raced, denied>>
    BY <1>5 DEF Lease!Crash, Lease!Goes
  <2>2. /\ c \in [at : Stages, token : Nat, left : Int, read : AnyFile]
        /\ c.at = "dead" /\ c.token = contender[p].token /\ c.left = contender[p].left
    BY <1>1 DEF Stages
  <2> HIDE DEF c
  <2> QED
    BY <1>1, <2>1, <2>2, LookLease
<1> QED
  BY <1>2, <1>3, <1>4, <1>5

(* A lock is removed: by who found it stale, or by its holder.             *)
LEMMA RemoveLease ==
    ASSUME LeaseInv, NEW p \in Pids, Lease!Step(p), Solo(p),
           Lease!Unlink(p) \/ Lease!Drop(p)
    PROVE  LeaseInv'
<1> DEFINE at == IF Lease!Unlink(p) /\ lockFile # Lease!NoFile /\ contender[p].left > 0
                 THEN "again" ELSE "idle"
           c == [contender[p] EXCEPT !.at = at]
<1>1. /\ lockFile \in AnyFile /\ denied = FALSE /\ raced \in BOOLEAN
      /\ contender[p] \in [at : Stages, token : Nat, left : Int, read : AnyFile]
  BY DEF LeaseInv, LeaseType
<1>2. /\ contender[p].at \in {"stale", "release"} /\ lockFile' = Lease!NoFile
      /\ contender' = [contender EXCEPT ![p] = c]
  BY DEF Lease!Unlink, Lease!Drop, Lease!Refused, Lease!Goes
<1>3. /\ c \in [at : Stages, token : Nat, left : Int, read : AnyFile]
      /\ c.at = at /\ c.token = contender[p].token /\ c.left = contender[p].left
      /\ at \in {"again", "idle"}
  BY <1>1 DEF Stages
<1>4. /\ Lease!NoFile \in AnyFile /\ Lease!NoFile.pid = 0 /\ ~Lease!NoFile.written
      /\ 0 \notin Pids
  BY PartsAssumption DEF Lease!NoFile, Lease!File, AnyFile
<1>5. denied' = FALSE
  <2>1. CASE Lease!Drop(p)
    BY <1>1, <2>1 DEF Lease!Drop
  <2>2. CASE Lease!Unlink(p) /\ lockFile # Lease!NoFile /\ contender[p].left > 0
    BY <1>1, <2>2 DEF Lease!Unlink
  <2>3. CASE Lease!Unlink(p) /\ ~(lockFile # Lease!NoFile /\ contender[p].left > 0)
    <3>1. solo # p
      BY <2>3 DEF Lease!Unlink, LeaseInv, Undisturbed
    <3>2. denied' = (denied \/ solo = p)
      BY <2>3 DEF Lease!Unlink, Lease!Refused
    <3> QED
      BY <1>1, <3>1, <3>2
  <2> QED
    BY <2>1, <2>2, <2>3
<1>6. raced' \in BOOLEAN /\ (raced => raced')
  BY <1>1 DEF Lease!Unlink, Lease!Drop, Lease!BeingWritten
<1>7. ~raced' => \A q \in Pids \ {p} : contender[q].at \notin {"opened", "held", "release"}
  <2> SUFFICES ASSUME ~raced', NEW q \in Pids \ {p},
                      contender[q].at \in {"opened", "held", "release"}
               PROVE  FALSE
    OBVIOUS
  <2>1. /\ Lease!Mine(q) /\ lockFile.pid = q /\ lockFile # Lease!NoFile
        /\ contender[q].at # "opened" => lockFile.written
    BY <1>4, <1>6 DEF LeaseInv, Owned, Lease!Mine
  <2>2. CASE Lease!Drop(p)
    BY <1>6, <2>1, <2>2 DEF Lease!Drop, LeaseInv, Owned, Lease!Mine
  <2>3. CASE Lease!Unlink(p)
    <3>1. lockFile = contender[p].read /\ ~Lease!BeingWritten /\ contender[p].at = "stale"
      BY <1>1, <2>1, <2>3 DEF Lease!Unlink
    <3>2. contender[q].at # "opened" /\ contender[q].at # "dead"
      BY <2>1, <3>1 DEF Lease!BeingWritten
    <3>3. Lease!Lives(lockFile)
      BY <2>1, <3>2 DEF Lease!Lives
    <3> QED
      BY <3>1, <3>3 DEF LeaseInv, Truthful
  <2> QED
    BY <2>2, <2>3
<1>8. at = "again" => contender[p].at = "stale"
  BY DEF Lease!Unlink
<1> HIDE DEF c, at
<1>9. /\ contender' \in [Pids -> [at : Stages, token : Nat, left : Int, read : AnyFile]]
      /\ contender'[p] = c
      /\ \A q \in Pids \ {p} : contender'[q] = contender[q]
      /\ \A f : Lease!Lives(f)' => Lease!Lives(f)
  BY <1>2, <1>3, LeaseFrame
<1>10. /\ solo' \in Pids \cup {0}
       /\ solo' = p => Lease!Alone(p) /\ Lease!Alone(p)' /\ (solo = p \/ contender[p].at = "idle")
       /\ \A q \in Pids \ {p} : solo' # q
  BY <1>9, AloneKept DEF Solo
<1>11. LeaseType'
  BY <1>2, <1>4, <1>5, <1>6, <1>9, <1>10 DEF LeaseType
<1>12. Truthful'
  BY <1>2, <1>3, <1>4, <1>9 DEF LeaseInv, Truthful
<1>13. Undisturbed'
  BY <1>2, <1>3, <1>9, <1>10 DEF Undisturbed
<1>14. Owned'
  BY <1>3, <1>7, <1>9 DEF Owned
<1> QED
  BY <1>5, <1>11, <1>12, <1>13, <1>14 DEF LeaseInv

LEMMA LeaseStep == ASSUME LeaseInv, [Lease!Next]_(Lease!leaseVars) PROVE LeaseInv'
<1>1. ASSUME NEW p \in Pids, Lease!Step(p), Solo(p) PROVE LeaseInv'
  BY <1>1, OpenLease, WriteLease, LooksLease, RemoveLease DEF Lease!Step
<1>2. CASE Lease!Next
  BY <1>1, <1>2 DEF Lease!Next, Solo, Lease!Nobody
<1>3. CASE UNCHANGED Lease!leaseVars
  BY <1>3 DEF Lease!leaseVars, LeaseInv, LeaseType, Truthful, Undisturbed, Owned, Lease!Mine,
              Lease!Lives, Lease!Alone
<1> QED
  BY <1>2, <1>3

(* A lock file that names one process is not held by two.                  *)
LEMMA OneHolder ==
    ASSUME LeaseInv PROVE Lease!LeaseIsSound
  BY DEF LeaseInv, Owned, Lease!Held, Lease!Mine, Lease!LeaseIsSound

(* For any number of processes, whichever die and whichever writes fail,   *)
(* at any step: who tries while nobody else does gets the lease, and the   *)
(* lease has one holder unless a lock was removed that its remover had not *)
(* read, or that was about to be written (run-persistence.ts:91).          *)
LEMMA LeaseKept == Lease!Spec => []Lease!LeaseIsSound
<1>1. Lease!Init => LeaseInv
  <2> SUFFICES ASSUME Lease!Init PROVE LeaseInv
    OBVIOUS
  <2>1. lockFile \in AnyFile /\ lockFile.pid = 0
    <3>1. \A n \in Nat, w \in BOOLEAN :
             Lease!File(0, n, w) \in AnyFile /\ Lease!File(0, n, w).pid = 0
      BY DEF Lease!File, AnyFile
    <3>2. \E n \in Nat, w \in BOOLEAN : lockFile = Lease!File(0, n, w)
      <4>1. \/ lockFile = Lease!File(0, 0, FALSE) \/ lockFile = Lease!File(0, 1, TRUE)
            \/ lockFile = Lease!File(0, 1, FALSE)
        BY DEF Lease!Init, Lease!NoFile
      <4>2. 0 \in Nat /\ 1 \in Nat /\ TRUE \in BOOLEAN /\ FALSE \in BOOLEAN
        OBVIOUS
      <4> QED
        BY <4>1, <4>2
    <3> QED
      BY <3>1, <3>2
  <2>3. /\ contender = [p \in Pids |-> Lease!Idle] /\ solo = 0
        /\ raced = FALSE /\ denied = FALSE
    BY DEF Lease!Init, Lease!Nobody
  <2>4. 0 \notin Pids
    BY PartsAssumption
  <2>5. Lease!Idle.at = "idle"
    BY DEF Lease!Idle
  <2>2. Lease!Idle \in [at : Stages, token : Nat, left : Int, read : AnyFile]
    BY DEF Lease!Idle, Lease!NoFile, Lease!File, AnyFile, Stages
  <2> QED
    BY <2>1, <2>2, <2>3, <2>4, <2>5 DEF LeaseInv, LeaseType, Truthful, Undisturbed, Owned
<1>2. LeaseInv /\ [Lease!Next]_(Lease!leaseVars) => LeaseInv'
  BY LeaseStep
<1>3. LeaseInv => Lease!LeaseIsSound
  BY OneHolder
<1> QED
  BY <1>1, <1>2, <1>3, PTL DEF Lease!Spec
-----------------------------------------------------------------------------
(***************************************************************************)
(* The managers of Claude fleets.  A process has a manager it holds and,   *)
(* while it starts another, the one before; only who has the session may   *)
(* write the file of it and be started; and who may write and has not lost *)
(* the session to another process knows of every Claude on file.  That is  *)
(* why a Claude that lives stays on file.                                  *)
(***************************************************************************)
Manager == [key : Keys, pi : Pis \cup {0}, phase : Fleet!Phases, runs : SUBSET Claudes,
            done : SUBSET Claudes, shut : {"no", "stopping", "closing"},
            active : SUBSET Claudes, orphans : SUBSET Keys, peers : SUBSET Claudes]

FleetHost == [at : {"off", "idle", "leaving", "left", "starting", "quitting", "gone"},
              holder : Fleet!Managers \cup {0}, prev : Fleet!Managers \cup {0}]
FleetFile == [runs : SUBSET Claudes, owner : Pis \cup {0}]
FleetClaude == [at : {"none", "queued", "asked", "ready", "alive", "dead"},
                by : Fleet!Managers \cup {0}, task : BOOLEAN, late : BOOLEAN,
                lost : BOOLEAN, swept : {"no", "orphan", "adopted", "peer"}]

FleetType ==
    /\ host \in [Pis -> FleetHost] /\ managers \in [Fleet!Managers -> Manager]
    /\ shelf \in [Keys -> FleetFile] /\ claude \in [Claudes -> FleetClaude]

Starting == {"made", "marked", "sweeping", "loading", "loaded"}
Owning   == {"marked", "sweeping", "loading", "loaded", "up"}
Loaded   == {"loaded", "up", "failed", "down"}

Made(i) == managers[i].phase # "none"

(* The manager of a process, and the one it replaces.                      *)
HolderFits(p) ==
    Fleet!Running(p) =>
       /\ host[p].holder \in Fleet!Managers
       /\ LET m == Fleet!HolderOf(p) IN
          /\ m.pi = p
          /\ m.phase \in CASE host[p].at = "starting" -> Starting
                           [] host[p].at = "idle" -> {"up", "refused", "failed"}
                           [] host[p].at = "left" -> {"refused", "failed", "down"}
                           [] OTHER -> {"up", "refused", "failed", "down"}
          /\ m.phase = "up" /\ host[p].at \in {"leaving", "quitting"} => m.shut # "no"
       /\ host[p].prev # 0 =>
             /\ host[p].at = "starting" /\ host[p].prev # host[p].holder
             /\ managers[host[p].prev].pi = p
             /\ managers[host[p].prev].phase \in {"refused", "failed", "down"}

ManagerFits(i) ==
    LET m == managers[i] IN
    /\ m.phase = "none" <=> m.pi = 0
    /\ m.phase \in Starting \cup {"up"} => Fleet!Running(m.pi) /\ host[m.pi].holder = i
    /\ m.phase \notin Loaded => m.runs = {}
    /\ m.shut # "no" =>
          /\ m.phase \in Loaded /\ Fleet!Running(m.pi)
          /\ \/ host[m.pi].holder = i /\ host[m.pi].at \in {"leaving", "quitting"}
             \/ host[m.pi].prev = i /\ Fleet!HolderOf(m.pi).phase = "made"
    /\ m.phase \in Owning => shelf[m.key].owner = m.pi
    /\ \A j \in 1 .. i - 1 : Made(i) => Made(j)

(* No session is held by two processes, and who took one over was made     *)
(* after the manager that is being replaced there.                         *)
HoldersApart ==
    \A p, q \in Pis : Fleet!Running(p) /\ Fleet!Running(q) /\ p # q =>
       /\ Fleet!HolderOf(p).key # Fleet!HolderOf(q).key
       /\ host[p].prev # 0 /\ managers[host[p].prev].key = Fleet!HolderOf(q).key =>
             host[p].prev < host[q].holder

HoldersAlone == \A p \in Pis : Fleet!Running(p) => ~Fleet!TakenOver(host[p].holder)

KeyOf(c) == managers[claude[c].by].key
Launched(c) == claude[c].at \in {"alive", "dead"} /\ claude[c].by # 0
Kept(c) == claude[c].at = "alive" /\ ~claude[c].late /\ ~claude[c].lost

(* What is on file or known to a manager was launched, in that session.    *)
Recorded ==
    /\ \A k \in Keys : \A c \in shelf[k].runs : Launched(c) /\ KeyOf(c) = k
    /\ \A i \in Fleet!Managers :
          /\ managers[i].done \subseteq managers[i].runs
          /\ managers[i].active \subseteq managers[i].runs
          /\ \A c \in managers[i].runs : Launched(c) /\ KeyOf(c) = managers[i].key
          /\ \A c \in managers[i].done : claude[c].at = "dead"

Begun ==
    \A c \in Claudes :
       /\ claude[c].at # "none" => claude[c].by # 0 /\ Made(claude[c].by)
       /\ claude[c].at = "ready" => managers[claude[c].by].phase \in {"up", "down"}

(* A task is that of a Claude that lives, and its manager has the run.     *)
Tended == \A c \in Claudes : claude[c].task =>
             claude[c].at = "alive" /\ c \in managers[claude[c].by].runs

(* A manager that may still write.                                         *)
Keeper(i) ==
    /\ managers[i].phase \in Loaded /\ Fleet!Running(managers[i].pi)
    /\ i \in {host[managers[i].pi].holder, host[managers[i].pi].prev}

OnFile ==
    \A c \in Claudes : Kept(c) =>
       /\ c \in shelf[KeyOf(c)].runs
       /\ \A i \in Fleet!Managers :
             Keeper(i) /\ managers[i].key = KeyOf(c) /\ ~Fleet!TakenOver(i) =>
                c \in managers[i].runs

Spared ==
    /\ Fleet!PeersAreSpared
    /\ \A i \in Fleet!Managers : managers[i].phase = "sweeping" =>
          \A c \in managers[i].peers : Launched(c) /\ KeyOf(c) \notin managers[i].orphans

Quits ==
    \A p \in Pis : host[p].at = "quitting" =>
       \A c \in Fleet!HolderOf(p).runs : claude[c].at = "alive" =>
          \/ claude[c].late
          \/ Fleet!HolderOf(p).shut = "stopping" /\ c \in Fleet!HolderOf(p).active

HostInv ==
    /\ \A p \in Pis : HolderFits(p)
    /\ \A i \in Fleet!Managers : ManagerFits(i)
    /\ HoldersApart /\ HoldersAlone
FleetInv ==
    /\ FleetType /\ HostInv /\ Recorded /\ Begun /\ Tended /\ OnFile /\ Spared /\ Quits
    /\ Fleet!GrantsArePicked

FleetParameters ==
    /\ Keys # {} /\ MaxManagers \in Nat /\ Pis \subseteq Nat \ {0} /\ Claudes \subseteq Nat \ {0}
    /\ MarkFails = FALSE

Typical == FleetParameters /\ FleetType /\ HostInv

LEMMA SomePi ==
    ASSUME Typical, NEW i \in Fleet!Managers, managers[i].phase # "none"
    PROVE  managers[i].pi \in Pis
<1>1. managers[i] \in Manager /\ ManagerFits(i)
  BY DEF Typical, FleetType, HostInv
<1> QED BY <1>1 DEF ManagerFits, Manager

(* Who writes the file holds the session, or is replaced there.            *)
LEMMA HolderOrPrev ==
    ASSUME Typical, NEW i \in Fleet!Managers,
           managers[i].phase = "up" \/ managers[i].shut # "no"
    PROVE  Keeper(i)
<1>1. ManagerFits(i)
  BY DEF Typical, HostInv
<1>2. managers[i].phase \in Loaded
  BY <1>1 DEF ManagerFits, Loaded
<1>3. Fleet!Running(managers[i].pi)
  BY <1>1 DEF ManagerFits, Starting
<1>4. i \in {host[managers[i].pi].holder, host[managers[i].pi].prev}
  BY <1>1 DEF ManagerFits, Starting
<1> QED BY <1>2, <1>3, <1>4 DEF Keeper

(* The managers of a process that runs.                                    *)
LEMMA HeldManagers ==
    ASSUME Typical, NEW p \in Pis, Fleet!Running(p)
    PROVE  /\ host[p].holder \in Fleet!Managers /\ managers[host[p].holder].pi = p
           /\ managers[host[p].holder].phase # "none"
           /\ ~Fleet!TakenOver(host[p].holder)
           /\ host[p].prev # 0 => /\ host[p].prev \in Fleet!Managers
                                  /\ managers[host[p].prev].pi = p
<1>1. HolderFits(p) /\ host[p].prev \in Fleet!Managers \cup {0}
  BY DEF Typical, FleetType, FleetHost, HostInv
<1>2. host[p].holder \in Fleet!Managers /\ managers[host[p].holder].pi = p
  BY <1>1 DEF HolderFits, Fleet!HolderOf
<1>3. ManagerFits(host[p].holder) /\ 0 \notin Pis
  BY <1>2 DEF Typical, HostInv, FleetParameters
<1>4. managers[host[p].holder].phase # "none"
  BY <1>2, <1>3 DEF ManagerFits
<1>5. ~Fleet!TakenOver(host[p].holder)
  BY DEF Typical, HostInv, HoldersAlone
<1> QED BY <1>1, <1>2, <1>4, <1>5 DEF HolderFits

LEMMA UpIsHolder ==
    ASSUME Typical, NEW i \in Fleet!Managers, Fleet!Up(i)
    PROVE  /\ managers[i].pi \in Pis /\ Fleet!Running(managers[i].pi)
           /\ host[managers[i].pi].holder = i /\ ~Fleet!TakenOver(i)
           /\ host[managers[i].pi].at # "starting" /\ host[managers[i].pi].prev = 0
<1> DEFINE p == managers[i].pi
<1>1. p \in Pis
  BY SomePi DEF Fleet!Up
<1>2. ManagerFits(i)
  BY DEF Typical, HostInv
<1>3. Fleet!Running(p) /\ host[p].holder = i
  BY <1>2 DEF ManagerFits, Fleet!Up
<1>4. ~Fleet!TakenOver(i)
  BY <1>1, <1>3, HeldManagers
<1>5. HolderFits(p)
  BY <1>1 DEF Typical, HostInv
<1>6. host[p].at # "starting"
  BY <1>3, <1>5 DEF HolderFits, Fleet!HolderOf, Starting, Fleet!Up
<1> QED BY <1>1, <1>3, <1>4, <1>5, <1>6 DEF HolderFits

(* One session is supervised once, and who is started is the only one of   *)
(* those that may write its file and has not lost the session.             *)
LEMMA UpAlone ==
    ASSUME Typical, NEW i \in Fleet!Managers, Fleet!Up(i),
           NEW j \in Fleet!Managers, Keeper(j), managers[j].key = managers[i].key,
           ~Fleet!TakenOver(j)
    PROVE  j = i
<1> DEFINE p == managers[i].pi
           q == managers[j].pi
<1>1. /\ p \in Pis /\ Fleet!Running(p) /\ host[p].holder = i
      /\ host[p].at # "starting" /\ host[p].prev = 0
  BY UpIsHolder
<1>2. q \in Pis /\ Fleet!Running(q) /\ j \in {host[q].holder, host[q].prev}
  BY SomePi DEF Keeper, Loaded
<1>3. CASE p = q
  BY <1>1, <1>2, <1>3 DEF Fleet!Managers
<1>4. CASE p # q
  <2>1. /\ Fleet!HolderOf(q).key # Fleet!HolderOf(p).key
        /\ host[q].prev # 0 /\ managers[host[q].prev].key = Fleet!HolderOf(p).key =>
             host[q].prev < host[p].holder
    BY <1>1, <1>2, <1>4 DEF Typical, HostInv, HoldersApart
  <2>2. j = host[q].prev
    BY <1>1, <1>2, <2>1 DEF Fleet!HolderOf
  <2>3. j < i
    BY <1>1, <2>1, <2>2 DEF Fleet!HolderOf, Fleet!Managers
  <2> QED BY <1>4, <2>3 DEF Fleet!TakenOver, Fleet!Up
<1> QED BY <1>3, <1>4

LEMMA OneSupervisorHolds ==
    ASSUME Typical PROVE Fleet!OneSupervisor
<1> SUFFICES ASSUME NEW i \in Fleet!Managers, NEW j \in Fleet!Managers,
                    Fleet!Up(i), Fleet!Up(j), i # j
             PROVE  managers[i].key # managers[j].key
  BY DEF Fleet!OneSupervisor
<1>1. Keeper(j) /\ ~Fleet!TakenOver(j)
  BY HolderOrPrev, UpIsHolder DEF Fleet!Up
<1> QED BY <1>1, UpAlone

(* What no step does: a manager that was made stays that of its process    *)
(* and session, and a Claude that was launched stays its manager's.        *)
ManagersStay ==
    \A j \in Fleet!Managers : Made(j) =>
       /\ managers'[j].phase # "none" /\ managers'[j].key = managers[j].key
       /\ managers'[j].pi = managers[j].pi
ClaudesStay ==
    \A c \in Claudes : Launched(c) => claude'[c].at \in {"alive", "dead"}
                                      /\ claude'[c].by = claude[c].by

LEMMA LaunchedStay ==
    ASSUME FleetType, Begun, ManagersStay, ClaudesStay, NEW c \in Claudes, Launched(c)
    PROVE  Launched(c)' /\ KeyOf(c)' = KeyOf(c)
<1>1. claude[c].by \in Fleet!Managers
  BY DEF FleetType, FleetClaude, Launched
<1>2. Made(claude[c].by)
  BY DEF Begun, Launched
<1> QED BY <1>1, <1>2 DEF ManagersStay, ClaudesStay, Launched, KeyOf

LEMMA TakenStays ==
    ASSUME Typical, ManagersStay, NEW i \in Fleet!Managers, Made(i), Fleet!TakenOver(i)
    PROVE  Fleet!TakenOver(i)'
  BY DEF ManagersStay, Made, Fleet!TakenOver

LEMMA RecordedStays ==
    ASSUME Typical, FleetType', Begun, Recorded, ManagersStay, ClaudesStay,
           \A k \in Keys : \A c \in shelf'[k].runs :
              \/ c \in shelf[k].runs
              \/ \E j \in Fleet!Managers : managers'[j].key = k /\ c \in managers'[j].runs,
           \A j \in Fleet!Managers : \A c \in managers'[j].runs :
              \/ c \in managers[j].runs \/ c \in shelf[managers'[j].key].runs
              \/ Launched(c)' /\ KeyOf(c)' = managers'[j].key,
           \A j \in Fleet!Managers :
              /\ managers'[j].done \subseteq managers'[j].runs
              /\ managers'[j].active \subseteq managers'[j].runs
              /\ \A c \in managers'[j].done : claude'[c].at = "dead"
    PROVE  Recorded'
<1>1. ASSUME NEW j \in Fleet!Managers, NEW c \in managers'[j].runs
      PROVE  Launched(c)' /\ KeyOf(c)' = managers'[j].key
  <2>1. c \in Claudes /\ managers'[j].key \in Keys
    BY <1>1 DEF FleetType, Manager
  <2>2. CASE c \in managers[j].runs
    <3>1. Launched(c) /\ KeyOf(c) = managers[j].key
      BY <2>2 DEF Recorded
    <3>2. Made(j)
      BY <2>2 DEF Typical, HostInv, ManagerFits, Made, Loaded
    <3> QED BY <2>1, <3>1, <3>2, LaunchedStay DEF Typical, ManagersStay
  <2>3. CASE c \in shelf[managers'[j].key].runs
    <3>1. Launched(c) /\ KeyOf(c) = managers'[j].key
      BY <2>1, <2>3 DEF Recorded
    <3> QED BY <2>1, <3>1, LaunchedStay DEF Typical
  <2> QED BY <1>1, <2>2, <2>3
<1>2. ASSUME NEW k \in Keys, NEW c \in shelf'[k].runs
      PROVE  Launched(c)' /\ KeyOf(c)' = k
  <2>1. c \in Claudes
    BY <1>2 DEF FleetType, FleetFile
  <2>2. CASE c \in shelf[k].runs
    <3>1. Launched(c) /\ KeyOf(c) = k
      BY <2>2 DEF Recorded
    <3> QED BY <2>1, <3>1, LaunchedStay DEF Typical
  <2> QED BY <1>1, <1>2, <2>2
<1> QED BY <1>1, <1>2 DEF Recorded

(* What is written by manager i, which is then n; `new` is what it has     *)
(* launched.                                                               *)
Written(i, m, n, ended, new) ==
    /\ managers' = [managers EXCEPT ![i] = n] /\ shelf' = Fleet!Saved(m)
    /\ m.key = managers[i].key /\ n.key = managers[i].key /\ n.pi = managers[i].pi
    /\ m.runs = managers[i].runs \cup new /\ n.runs = m.runs /\ n.done = m.done
    /\ managers[i].done \subseteq m.done /\ m.done \subseteq managers[i].done \cup ended
    /\ ended \subseteq managers[i].runs /\ n.active \subseteq n.runs /\ n.phase # "none"
    /\ \/ Keeper(i) /\ ~Fleet!TakenOver(i)
       \/ m.phase # "up" /\ (m.shut = "no" \/ Fleet!TakenOver(i))
    /\ \A c \in Claudes \ new :
          /\ claude'[c].at = IF c \in ended THEN "dead" ELSE claude[c].at
          /\ claude'[c].by = claude[c].by /\ claude'[c].late = claude[c].late
          /\ ~claude'[c].lost =>
                /\ ~claude[c].lost
                /\ c \notin ended /\ Fleet!Struck(m, c) =>
                      ~(m.phase # "up" /\ (m.shut = "no" \/ Fleet!TakenOver(i)))
    /\ \A c \in new : /\ claude[c].at = "ready" /\ claude[c].by = i
                      /\ claude'[c].at = "alive" /\ claude'[c].by = i
                      /\ ~claude'[c].late => Fleet!Up(i)

(* Steps that leave processes and managers where they are.                 *)
LEMMA HostQuiet ==
    ASSUME Typical, host' = host, \A k \in Keys : shelf'[k].owner = shelf[k].owner,
           managers' \in [Fleet!Managers -> Manager],
           \A j \in Fleet!Managers :
              /\ managers'[j].key = managers[j].key /\ managers'[j].pi = managers[j].pi
              /\ managers'[j].phase = managers[j].phase /\ managers'[j].shut = managers[j].shut
              /\ managers[j].phase \notin Loaded => managers'[j].runs = managers[j].runs
    PROVE  HostInv'
<1>1. ASSUME NEW p \in Pis PROVE HolderFits(p)'
  <2>1. HolderFits(p) /\ host[p].prev \in Fleet!Managers \cup {0}
    BY DEF Typical, HostInv, FleetType, FleetHost
  <2> QED BY <2>1 DEF HolderFits, Fleet!HolderOf, Fleet!Running, Fleet!Managers
<1>2. ASSUME NEW i \in Fleet!Managers PROVE ManagerFits(i)'
  <2>1. ManagerFits(i) /\ managers[i].key \in Keys
    BY DEF Typical, HostInv, FleetType, Manager
  <2>2. \A j \in 1 .. i - 1 : j \in Fleet!Managers
    BY DEF Fleet!Managers, Typical, FleetParameters
  <2>3. managers[i].shut # "no" => /\ managers[i].pi \in Pis
                                   /\ host[managers[i].pi].holder \in Fleet!Managers
    BY SomePi, HeldManagers, <2>1 DEF ManagerFits, Loaded
  <2>4. managers[i].phase \notin Loaded => managers'[i].runs = {}
    BY <2>1 DEF ManagerFits
  <2>5. \A j \in 1 .. i - 1 : Made(i)' => Made(j)'
    BY <2>1, <2>2 DEF ManagerFits, Made
  <2>6. managers[i].shut # "no" =>
             Fleet!HolderOf(managers[i].pi).phase = Fleet!HolderOf(managers[i].pi)'.phase
    BY <2>3 DEF Fleet!HolderOf
  <2> QED BY <2>1, <2>3, <2>4, <2>5, <2>6 DEF ManagerFits, Fleet!HolderOf, Fleet!Running
<1>3. HoldersApart'
  <2> SUFFICES ASSUME NEW p \in Pis, NEW q \in Pis, Fleet!Running(p), Fleet!Running(q), p # q
               PROVE  /\ Fleet!HolderOf(p)'.key # Fleet!HolderOf(q)'.key
                      /\ host[p].prev # 0
                            /\ managers'[host[p].prev].key = Fleet!HolderOf(q)'.key =>
                            host[p].prev < host[q].holder
    BY DEF HoldersApart, Fleet!Running
  <2>1. /\ Fleet!HolderOf(p)'.key = Fleet!HolderOf(p).key
        /\ Fleet!HolderOf(q)'.key = Fleet!HolderOf(q).key
    BY HeldManagers DEF Fleet!HolderOf
  <2>2. host[p].prev # 0 => managers'[host[p].prev].key = managers[host[p].prev].key
    BY HeldManagers
  <2> QED BY <2>1, <2>2 DEF Typical, HostInv, HoldersApart
<1>4. HoldersAlone'
  <2> SUFFICES ASSUME NEW p \in Pis, Fleet!Running(p) PROVE ~Fleet!TakenOver(host[p].holder)'
    BY DEF HoldersAlone, Fleet!Running
  <2> QED BY HeldManagers DEF Fleet!TakenOver
<1> QED BY <1>1, <1>2, <1>3, <1>4 DEF HostInv

(* Steps of one process, of the manager it holds and the one it replaces.  *)
LEMMA HostMoves ==
    ASSUME Typical, NEW p \in Pis, Fleet!Running(p), host' \in [Pis -> FleetHost],
           managers' \in [Fleet!Managers -> Manager],
           \A q \in Pis : q # p => host'[q] = host[q],
           Fleet!Running(p)', host'[p].holder = host[p].holder,
           host'[p].prev \in {host[p].prev, 0},
           \A j \in Fleet!Managers :
              /\ managers'[j].key = managers[j].key /\ managers'[j].pi = managers[j].pi
              /\ j \notin {host[p].holder, host[p].prev} => managers'[j] = managers[j],
           \A k \in Keys : \/ shelf'[k].owner = shelf[k].owner
                           \/ k = Fleet!HolderOf(p).key,
           HolderFits(p)',
           \A j \in Fleet!Managers : j \in {host[p].holder, host[p].prev} =>
                managers'[j].phase # "none" /\ ManagerFits(j)'
    PROVE  HostInv'
<1> DEFINE mine == {host[p].holder, host[p].prev}
<1>1. /\ host[p].holder \in Fleet!Managers /\ managers[host[p].holder].pi = p
      /\ host[p].prev # 0 => /\ host[p].prev \in Fleet!Managers
                             /\ managers[host[p].prev].pi = p
      /\ \A j \in Fleet!Managers : j \in mine => managers[j].pi = p /\ Made(j)
  <2>1. 0 \notin Fleet!Managers /\ 0 \notin Pis
    BY DEF Fleet!Managers, Typical, FleetParameters
  <2>2. \A j \in Fleet!Managers : managers[j].pi = p => Made(j)
    BY <2>1 DEF Made, Typical, HostInv, ManagerFits
  <2> QED BY <2>1, <2>2, HeldManagers
<1>2. \A j \in Fleet!Managers : Made(j)' <=> Made(j)
  BY <1>1 DEF Made
<1>3. \A j \in Fleet!Managers : managers[j].pi # p => managers'[j] = managers[j]
  BY <1>1
<1>4. ASSUME NEW q \in Pis, q # p, Fleet!Running(q)
      PROVE  /\ host[q].holder \in Fleet!Managers
             /\ managers'[host[q].holder] = managers[host[q].holder]
             /\ host[q].prev # 0 => /\ host[q].prev \in Fleet!Managers
                                    /\ managers'[host[q].prev] = managers[host[q].prev]
  BY <1>3, <1>4, HeldManagers
<1>5. ASSUME NEW q \in Pis PROVE HolderFits(q)'
  <2>1. CASE q = p
    BY <2>1
  <2>2. CASE q # p
    <3>1. HolderFits(q) /\ host'[q] = host[q]
      BY <2>2 DEF Typical, HostInv
    <3> QED BY <1>4, <2>2, <3>1 DEF HolderFits, Fleet!HolderOf, Fleet!Running
  <2> QED BY <2>1, <2>2
<1>6. ASSUME NEW i \in Fleet!Managers PROVE ManagerFits(i)'
  <2>1. ManagerFits(i) /\ managers[i].key \in Keys
    BY DEF Typical, HostInv, FleetType, Manager
  <2>2. CASE i \in mine
    BY <1>1, <1>2, <2>2
  <2>3. CASE i \notin mine
    <3>1. managers'[i] = managers[i]
      BY <2>3
    <3>2. \A j \in 1 .. i - 1 : Made(i)' => Made(j)'
      BY <1>2, <2>1 DEF ManagerFits, Fleet!Managers, Typical, FleetParameters
    <3>3. managers[i].pi = p => /\ managers[i].phase \notin Starting \cup {"up"}
                                /\ managers[i].shut = "no"
      BY <2>1, <2>3 DEF ManagerFits
    <3>4. managers[i].phase \in Starting \cup {"up"} \/ managers[i].shut # "no" =>
             managers[i].pi \in Pis /\ managers[i].pi # p /\ Fleet!Running(managers[i].pi)
      BY <2>1, <3>3, SomePi DEF ManagerFits, Loaded, Starting
    <3>5. managers[i].phase \in Owning => shelf'[managers[i].key].owner = managers[i].pi
      <4> SUFFICES ASSUME managers[i].phase \in Owning
                   PROVE  shelf'[managers[i].key].owner = managers[i].pi
        OBVIOUS
      <4>1. /\ managers[i].pi \in Pis /\ managers[i].pi # p /\ Fleet!Running(managers[i].pi)
            /\ host[managers[i].pi].holder = i
        BY <2>1, <3>4 DEF Owning, Starting, ManagerFits
      <4>2. Fleet!HolderOf(p).key # managers[i].key
        BY <4>1 DEF Typical, HostInv, HoldersApart, Fleet!HolderOf
      <4> QED BY <2>1, <4>2 DEF ManagerFits
    <3>6. managers[i].shut # "no" =>
             Fleet!HolderOf(managers[i].pi).phase = Fleet!HolderOf(managers[i].pi)'.phase
      BY <1>4, <3>4 DEF Fleet!HolderOf
    <3>7. managers[i].phase \in Starting \cup {"up"} \/ managers[i].shut # "no" =>
             host'[managers[i].pi] = host[managers[i].pi]
      BY <3>4
    <3> QED BY <2>1, <3>1, <3>2, <3>4, <3>5, <3>6, <3>7 DEF ManagerFits, Fleet!Running
  <2> QED BY <2>2, <2>3
<1>7. HoldersApart'
  <2> SUFFICES ASSUME NEW r \in Pis, NEW q \in Pis, Fleet!Running(r)', Fleet!Running(q)', r # q
               PROVE  /\ Fleet!HolderOf(r)'.key # Fleet!HolderOf(q)'.key
                      /\ host'[r].prev # 0
                            /\ managers'[host'[r].prev].key = Fleet!HolderOf(q)'.key =>
                            host'[r].prev < host'[q].holder
    BY DEF HoldersApart
  <2>1. Fleet!Running(r) /\ Fleet!Running(q)
    BY DEF Fleet!Running
  <2>2. /\ Fleet!HolderOf(r)'.key = Fleet!HolderOf(r).key
        /\ Fleet!HolderOf(q)'.key = Fleet!HolderOf(q).key
    BY <2>1, HeldManagers DEF Fleet!HolderOf
  <2>3. host'[r].prev # 0 => /\ host'[r].prev = host[r].prev
                             /\ managers'[host[r].prev].key = managers[host[r].prev].key
    BY <2>1, HeldManagers
  <2>4. host'[q].holder = host[q].holder
    OBVIOUS
  <2> QED BY <2>1, <2>2, <2>3, <2>4 DEF Typical, HostInv, HoldersApart
<1>8. HoldersAlone'
  <2> SUFFICES ASSUME NEW q \in Pis, Fleet!Running(q)' PROVE ~Fleet!TakenOver(host[q].holder)'
    BY DEF HoldersAlone
  <2>1. Fleet!Running(q) /\ host'[q].holder = host[q].holder
    BY DEF Fleet!Running
  <2>2. host[q].holder \in Fleet!Managers /\ ~Fleet!TakenOver(host[q].holder)
    BY <2>1, HeldManagers
  <2> QED BY <1>2, <2>1, <2>2 DEF Fleet!TakenOver, Made
<1> QED BY <1>5, <1>6, <1>7, <1>8 DEF HostInv

(* A process that is between two sessions has no manager at work.          *)
LEMMA LeftAlone ==
    ASSUME Typical, NEW p \in Pis, host[p].at = "left" \/ ~Fleet!Running(p),
           NEW j \in Fleet!Managers, managers[j].pi = p
    PROVE  managers[j].phase \notin Starting \cup {"up"} /\ managers[j].shut = "no"
<1>1. HolderFits(p) /\ ManagerFits(j) /\ j # 0
  BY DEF Typical, HostInv, Fleet!Managers
<1>2. CASE host[p].at = "left"
  <2>1. Fleet!Running(p) /\ host[p].prev = 0
    BY <1>1, <1>2 DEF HolderFits, Fleet!Running
  <2>2. Fleet!HolderOf(p).phase \in {"refused", "failed", "down"}
    BY <1>1, <1>2, <2>1 DEF HolderFits
  <2> QED BY <1>1, <1>2, <2>1, <2>2 DEF ManagerFits, Fleet!HolderOf, Starting
<1>3. CASE ~Fleet!Running(p)
  BY <1>1, <1>3 DEF ManagerFits
<1> QED BY <1>2, <1>3

(* A manager as it is made.                                                *)
MadeOf(u, k, p) ==
    /\ u.key = k /\ u.pi = p /\ u.runs = {} /\ u.done = {} /\ u.shut = "no" /\ u.active = {}
    /\ u.orphans = {} /\ u.peers = {}
    /\ DOMAIN u = {"key", "pi", "phase", "runs", "done", "shut", "active", "orphans", "peers"}

LEMMA UnmadeIs ==
    MadeOf(Fleet!Unmade, CHOOSE k \in Keys : TRUE, 0) /\ Fleet!Unmade.phase = "none"
BY DEF MadeOf, Fleet!Unmade

Fresh(k, p, phase) == [Fleet!Unmade EXCEPT !.key = k, !.pi = p, !.phase = phase]

LEMMA FreshIs ==
    \A k, p, phase : MadeOf(Fresh(k, p, phase), k, p) /\ Fresh(k, p, phase).phase = phase
BY UnmadeIs DEF MadeOf, Fresh

LEMMA HostOpens ==
    ASSUME Typical, FleetType', NEW p \in Pis, NEW k \in Keys, NEW anew \in BOOLEAN,
           Fleet!Open(p, k, anew)
    PROVE  HostInv' /\ ManagersStay
<1> DEFINE h == host[p].holder
<1>1. PICK i \in Fleet!Managers :
         /\ host[p].at \in {"off", "left"} /\ (host[p].at = "off" => anew)
         /\ managers[i].phase = "none" /\ \A j \in 1 .. i - 1 : managers[j].phase # "none"
         /\ \A q \in Pis : q # p /\ Fleet!Running(q) => Fleet!HolderOf(q).key # k
         /\ managers' = [j \in Fleet!Managers |->
                           IF j = i THEN [Fleet!Unmade EXCEPT !.key = k, !.pi = p, !.phase = "made"]
                           ELSE IF j = h /\ ~anew THEN Fleet!Shutdown(j, TRUE)
                           ELSE managers[j]]
         /\ host' = [host EXCEPT ![p] = [at |-> "starting", holder |-> i,
                                         prev |-> IF anew THEN 0 ELSE h]]
  BY Zenon DEF Fleet!Open
<1>2. /\ managers'[i].key = k /\ managers'[i].pi = p /\ managers'[i].phase = "made"
      /\ managers'[i].runs = {} /\ managers'[i].shut = "no"
  <2>1. managers'[i] = Fresh(k, p, "made")
    BY <1>1, Zenon DEF Fresh
  <2> QED BY <2>1, FreshIs DEF MadeOf
<1>3. /\ host'[p].at = "starting" /\ host'[p].holder = i /\ host'[p].prev = IF anew THEN 0 ELSE h
      /\ Fleet!Running(p)'
  <2>1. host'[p] = [at |-> "starting", holder |-> i, prev |-> IF anew THEN 0 ELSE h]
    BY <1>1 DEF Typical, FleetType
  <2> QED BY <2>1 DEF Fleet!Running
<1>4. \A q \in Pis : q # p => host'[q] = host[q]
  BY <1>1 DEF Typical, FleetType
<1>5. ~anew => /\ host[p].at = "left" /\ Fleet!Running(p) /\ h \in Fleet!Managers
               /\ managers[h].pi = p /\ managers[h].phase \in {"refused", "failed", "down"}
               /\ managers[h].shut = "no" /\ h # i
  <2> SUFFICES ASSUME ~anew
               PROVE  /\ host[p].at = "left" /\ Fleet!Running(p) /\ h \in Fleet!Managers
                      /\ managers[h].pi = p
                      /\ managers[h].phase \in {"refused", "failed", "down"}
                      /\ managers[h].shut = "no" /\ h # i
    OBVIOUS
  <2>1. host[p].at = "left" /\ Fleet!Running(p) /\ HolderFits(p)
    BY <1>1 DEF Fleet!Running, Typical, HostInv
  <2>2. h \in Fleet!Managers /\ managers[h].pi = p
    BY <2>1, HeldManagers
  <2>3. managers[h].phase \in {"refused", "failed", "down"}
    BY <2>1 DEF HolderFits, Fleet!HolderOf
  <2>4. managers[h].shut = "no"
    BY <2>1, <2>2, LeftAlone
  <2> QED BY <1>1, <2>1, <2>2, <2>3, <2>4
<1>6. p # 0 /\ k \in Keys
  BY DEF Typical, FleetParameters
<1>7. \A j \in Fleet!Managers : j # i /\ (anew \/ j # h) => managers'[j] = managers[j]
  BY <1>1, Zenon
<1>8. ~anew => /\ managers'[h].key = managers[h].key /\ managers'[h].pi = p
               /\ managers'[h].phase = managers[h].phase /\ managers'[h].runs = managers[h].runs
               /\ managers'[h].shut # "no" => managers'[h].runs # {}
  <2> SUFFICES ASSUME ~anew
               PROVE  /\ managers'[h].key = managers[h].key /\ managers'[h].pi = p
                      /\ managers'[h].phase = managers[h].phase
                      /\ managers'[h].runs = managers[h].runs
                      /\ managers'[h].shut # "no" => managers'[h].runs # {}
    OBVIOUS
  <2>1. managers'[h] = Fleet!Shutdown(h, TRUE) /\ managers[h] \in Manager
    BY <1>1, <1>5, Zenon DEF Typical, FleetType
  <2>2. CASE managers[h].runs = {}
    <3>1. managers'[h] = managers[h]
      BY <1>5, <2>1, <2>2 DEF Fleet!Shutdown, Fleet!Up
    <3> QED BY <1>5, <3>1
  <2>3. CASE managers[h].runs # {}
    <3>1. managers'[h] = [managers[h] EXCEPT !.shut = "stopping",
                                             !.active = Fleet!Live(managers[h])]
      BY <2>1, <2>3 DEF Fleet!Shutdown
    <3> QED BY <1>5, <2>1, <2>3, <3>1 DEF Manager
  <2> QED BY <2>2, <2>3
<1>9. /\ \A j \in Fleet!Managers : Made(j) => j < i
      /\ \A j \in Fleet!Managers : Made(j)' <=> Made(j) \/ j = i
      /\ \A j \in Fleet!Managers : Made(j) => managers'[j].key = managers[j].key
                                              /\ managers'[j].pi = managers[j].pi
  <2>1. ASSUME NEW j \in Fleet!Managers, Made(j) PROVE j < i
    <3>1. ManagerFits(j) /\ j # i
      BY <1>1, <2>1 DEF Typical, HostInv, Made
    <3>2. ~(i \in 1 .. j - 1)
      BY <1>1, <2>1, <3>1 DEF ManagerFits, Made
    <3> QED BY <3>1, <3>2 DEF Fleet!Managers, Typical, FleetParameters
  <2>2. ASSUME NEW j \in Fleet!Managers
        PROVE  /\ Made(j)' <=> Made(j) \/ j = i
               /\ Made(j) => managers'[j].key = managers[j].key /\ managers'[j].pi = managers[j].pi
    <3>1. CASE j = i
      BY <1>1, <1>2, <3>1 DEF Made
    <3>2. CASE j = h /\ ~anew
      BY <1>5, <1>8, <3>2 DEF Made
    <3>3. CASE j # i /\ (anew \/ j # h)
      BY <1>7, <3>3 DEF Made
    <3> QED BY <3>1, <3>2, <3>3
  <2> QED BY <2>1, <2>2
<1>10. ASSUME NEW q \in Pis, q # p, Fleet!Running(q)
       PROVE  /\ host[q].holder \in Fleet!Managers
              /\ managers'[host[q].holder] = managers[host[q].holder]
              /\ host[q].prev # 0 => /\ host[q].prev \in Fleet!Managers /\ host[q].prev < i
                                     /\ managers'[host[q].prev] = managers[host[q].prev]
  <2>1. /\ host[q].holder \in Fleet!Managers /\ managers[host[q].holder].pi = q
        /\ host[q].prev # 0 => /\ host[q].prev \in Fleet!Managers
                               /\ managers[host[q].prev].pi = q
    BY <1>10, HeldManagers
  <2>2. managers[i].pi = 0 /\ q # 0
    BY <1>1 DEF Typical, HostInv, ManagerFits, FleetParameters
  <2>3. ASSUME NEW j \in Fleet!Managers, managers[j].pi = q
        PROVE  managers'[j] = managers[j] /\ Made(j)
    <3>1. j # i /\ (anew \/ j # h)
      BY <1>5, <1>10, <2>2, <2>3
    <3>2. Made(j)
      BY <2>2, <2>3 DEF Typical, HostInv, ManagerFits, Made
    <3> QED BY <1>7, <3>1, <3>2
  <2> QED BY <1>9, <2>1, <2>3
<1>11. ASSUME NEW q \in Pis PROVE HolderFits(q)'
  <2>1. CASE q = p
    <3>1. Fleet!HolderOf(p)' = managers'[i]
      BY <1>3 DEF Fleet!HolderOf
    <3>2. ~anew => /\ managers'[h].pi = p /\ h # i
                   /\ managers'[h].phase \in {"refused", "failed", "down"}
      BY <1>5, <1>8
    <3> QED BY <1>2, <1>3, <2>1, <3>1, <3>2 DEF HolderFits, Starting
  <2>2. CASE q # p
    <3>1. HolderFits(q) /\ host'[q] = host[q]
      BY <1>4, <2>2 DEF Typical, HostInv
    <3>2. CASE ~Fleet!Running(q)
      BY <3>1, <3>2 DEF HolderFits, Fleet!Running
    <3>3. CASE Fleet!Running(q)
      BY <1>10, <2>2, <3>1, <3>3 DEF HolderFits, Fleet!HolderOf, Fleet!Running
    <3> QED BY <3>2, <3>3
  <2> QED BY <2>1, <2>2
<1>12. ASSUME NEW j \in Fleet!Managers PROVE ManagerFits(j)'
  <2>1. ManagerFits(j)
    BY DEF Typical, HostInv
  <2>2. \A l \in 1 .. j - 1 : Made(j)' => Made(l)'
    <3> SUFFICES ASSUME NEW l \in 1 .. j - 1, Made(j)' PROVE Made(l)'
      OBVIOUS
    <3>1. l \in Fleet!Managers
      BY DEF Fleet!Managers, Typical, FleetParameters
    <3>2. CASE j = i
      BY <1>1, <1>9, <3>1, <3>2 DEF Made
    <3>3. CASE j # i
      BY <1>9, <2>1, <3>1, <3>3 DEF ManagerFits
    <3> QED BY <3>2, <3>3
  <2>3. CASE j = i
    <3>1. managers'[j].pi # 0
      BY <1>2, <1>6, <2>3
    <3> QED BY <1>2, <1>3, <2>2, <2>3, <3>1
            DEF ManagerFits, Fleet!Running, Owning, Starting, Loaded
  <2>4. CASE j = h /\ ~anew
    <3>1. managers'[j].pi # 0 /\ managers'[j].phase \in {"refused", "failed", "down"}
      BY <1>5, <1>6, <1>8, <2>4
    <3>2. managers'[j].runs # {} => managers'[j].phase \in Loaded
      BY <1>8, <2>1, <2>4 DEF ManagerFits
    <3>3. managers'[j].shut # "no" => managers'[j].runs # {}
      BY <1>8, <2>4
    <3>4. managers'[j].pi = p /\ host'[p].prev = j /\ Fleet!HolderOf(p)'.phase = "made"
      BY <1>2, <1>3, <1>8, <2>4 DEF Fleet!HolderOf
    <3> QED BY <1>3, <2>2, <3>1, <3>2, <3>3, <3>4
            DEF ManagerFits, Fleet!Running, Owning, Starting
  <2>5. CASE j # i /\ (anew \/ j # h)
    <3>1. managers'[j] = managers[j]
      BY <1>7, <2>5
    <3>2. CASE managers[j].pi = p
      <4>1. managers[j].phase \notin Starting \cup {"up"} /\ managers[j].shut = "no"
        BY <1>1, <3>2, LeftAlone DEF Fleet!Running
      <4> QED BY <2>1, <2>2, <3>1, <4>1 DEF ManagerFits, Owning, Starting
    <3>3. CASE managers[j].pi # p
      <4>3. managers[j].phase \in Starting \cup {"up"} \/ managers[j].shut # "no" =>
              managers[j].pi \in Pis /\ Fleet!Running(managers[j].pi)
        BY <2>1, SomePi DEF ManagerFits, Loaded, Starting
      <4>1. managers[j].phase \in Starting \cup {"up"} \/ managers[j].shut # "no" =>
              /\ managers[j].pi \in Pis /\ Fleet!Running(managers[j].pi)
              /\ host'[managers[j].pi] = host[managers[j].pi]
              /\ Fleet!HolderOf(managers[j].pi)' = Fleet!HolderOf(managers[j].pi)
        <5> SUFFICES ASSUME managers[j].phase \in Starting \cup {"up"} \/ managers[j].shut # "no"
                     PROVE  /\ host'[managers[j].pi] = host[managers[j].pi]
                            /\ Fleet!HolderOf(managers[j].pi)' = Fleet!HolderOf(managers[j].pi)
          BY <4>3
        <5>1. managers[j].pi \in Pis /\ Fleet!Running(managers[j].pi)
          BY <4>3
        <5>2. host'[managers[j].pi] = host[managers[j].pi]
          BY <1>4, <3>3, <5>1
        <5>3. managers'[host[managers[j].pi].holder] = managers[host[managers[j].pi].holder]
          BY <1>10, <3>3, <5>1
        <5> QED BY <3>1, <5>2, <5>3 DEF Fleet!HolderOf
      <4>2. shelf' = shelf
        BY DEF Fleet!Open
      <4> QED BY <2>1, <2>2, <3>1, <4>1, <4>2 DEF ManagerFits, Fleet!Running
    <3> QED BY <3>2, <3>3
  <2> QED BY <2>3, <2>4, <2>5
<1>13. HoldersApart'
  <2> SUFFICES ASSUME NEW r \in Pis, NEW q \in Pis, Fleet!Running(r)', Fleet!Running(q)', r # q
               PROVE  /\ Fleet!HolderOf(r)'.key # Fleet!HolderOf(q)'.key
                      /\ host'[r].prev # 0
                            /\ managers'[host'[r].prev].key = Fleet!HolderOf(q)'.key =>
                            host'[r].prev < host'[q].holder
    BY DEF HoldersApart
  <2>1. CASE r # p /\ q # p
    <3>1. Fleet!Running(r) /\ Fleet!Running(q) /\ host'[r] = host[r] /\ host'[q] = host[q]
      BY <1>4, <2>1 DEF Fleet!Running
    <3> QED BY <1>10, <2>1, <3>1 DEF Typical, HostInv, HoldersApart, Fleet!HolderOf
  <2>2. CASE r = p
    <3>1. Fleet!Running(q) /\ host'[q] = host[q] /\ q # p
      BY <1>4, <2>2 DEF Fleet!Running
    <3>2. Fleet!HolderOf(q)' = Fleet!HolderOf(q)
      BY <1>10, <3>1 DEF Fleet!HolderOf
    <3>3. Fleet!HolderOf(p)'.key = k /\ Fleet!HolderOf(q).key # k
      BY <1>1, <1>2, <1>3, <3>1 DEF Fleet!HolderOf
    <3>4. ~anew => managers'[h].key # Fleet!HolderOf(q).key
      BY <1>5, <1>8, <3>1 DEF Typical, HostInv, HoldersApart, Fleet!HolderOf, h
    <3> QED BY <1>3, <2>2, <3>2, <3>3, <3>4
  <2>3. CASE q = p
    <3>1. Fleet!Running(r) /\ host'[r] = host[r] /\ r # p
      BY <1>4, <2>3 DEF Fleet!Running
    <3>2. Fleet!HolderOf(r)' = Fleet!HolderOf(r)
      BY <1>10, <3>1 DEF Fleet!HolderOf
    <3>3. Fleet!HolderOf(p)'.key = k /\ Fleet!HolderOf(r).key # k
      BY <1>1, <1>2, <1>3, <3>1 DEF Fleet!HolderOf
    <3>4. host[r].prev # 0 => host[r].prev < i
      BY <1>9, <1>10, <3>1
    <3> QED BY <1>3, <2>3, <3>1, <3>2, <3>3, <3>4
  <2> QED BY <2>1, <2>2, <2>3
<1>14. HoldersAlone'
  <2> SUFFICES ASSUME NEW q \in Pis, Fleet!Running(q)' PROVE ~Fleet!TakenOver(host[q].holder)'
    BY DEF HoldersAlone
  <2>1. CASE q = p
    <3>1. \A j \in Fleet!Managers : j > i => managers'[j].phase = "none"
      BY <1>9, <1>6 DEF Made, Fleet!Managers, Typical, FleetParameters
    <3> QED BY <1>3, <2>1, <3>1 DEF Fleet!TakenOver
  <2>2. CASE q # p
    <3>1. Fleet!Running(q) /\ host'[q] = host[q]
      BY <1>4, <2>2 DEF Fleet!Running
    <3>2. ~Fleet!TakenOver(host[q].holder) /\ Fleet!HolderOf(q).key # k
      BY <1>1, <2>2, <3>1, HeldManagers
    <3>3. managers'[host[q].holder] = managers[host[q].holder]
      BY <1>10, <2>2, <3>1
    <3> QED BY <1>2, <1>9, <3>1, <3>2, <3>3 DEF Fleet!TakenOver, Fleet!HolderOf, Made
  <2> QED BY <2>1, <2>2
<1>15. ManagersStay
  BY <1>9 DEF ManagersStay, Made
<1> QED BY <1>11, <1>12, <1>13, <1>14, <1>15 DEF HostInv

LEMMA HostDies ==
    ASSUME Typical, FleetType', NEW p \in Pis, Fleet!Running(p), Fleet!Dies(p)
    PROVE  HostInv' /\ ManagersStay
<1>1. /\ \A q \in Pis : q # p => host'[q] = host[q]
      /\ ~Fleet!Running(p)' /\ shelf' = shelf /\ p # 0
  <2>1. host' = [host EXCEPT ![p].at = "gone"] /\ shelf' = shelf
    BY Zenon DEF Fleet!Dies
  <2> QED BY <2>1 DEF Fleet!Running, Typical, FleetType, FleetHost, FleetParameters
<1>2. ASSUME NEW j \in Fleet!Managers, managers[j].pi = p
      PROVE  MadeOf(managers'[j], managers[j].key, p) /\ managers'[j].phase = "down"
  <2>1. managers'[j] = Fresh(managers[j].key, p, "down")
    BY <1>2, Zenon DEF Fleet!Dies, Fresh
  <2> QED BY <2>1, FreshIs
<1>3. \A j \in Fleet!Managers : managers[j].pi # p => managers'[j] = managers[j]
  BY Zenon DEF Fleet!Dies
<1>4. \A j \in Fleet!Managers :
         managers'[j].key = managers[j].key /\ managers'[j].pi = managers[j].pi
         /\ (Made(j)' <=> Made(j))
  BY <1>1, <1>2, <1>3 DEF MadeOf, Made, Typical, HostInv, ManagerFits
<1>5. ASSUME NEW q \in Pis, q # p, Fleet!Running(q)
      PROVE  /\ host[q].holder \in Fleet!Managers
             /\ managers'[host[q].holder] = managers[host[q].holder]
             /\ host[q].prev # 0 => /\ host[q].prev \in Fleet!Managers
                                    /\ managers'[host[q].prev] = managers[host[q].prev]
  BY <1>3, <1>5, HeldManagers
<1>6. ASSUME NEW q \in Pis PROVE HolderFits(q)'
  <2>1. CASE q = p
    BY <1>1, <2>1 DEF HolderFits
  <2>2. CASE q # p
    <3>1. HolderFits(q) /\ host'[q] = host[q]
      BY <1>1, <2>2 DEF Typical, HostInv
    <3> QED BY <1>5, <2>2, <3>1 DEF HolderFits, Fleet!HolderOf, Fleet!Running
  <2> QED BY <2>1, <2>2
<1>7. ASSUME NEW j \in Fleet!Managers PROVE ManagerFits(j)'
  <2>1. ManagerFits(j)
    BY DEF Typical, HostInv
  <2>2. \A l \in 1 .. j - 1 : Made(j)' => Made(l)'
    BY <1>4, <2>1 DEF ManagerFits, Fleet!Managers, Typical, FleetParameters
  <2>3. CASE managers[j].pi = p
    <3>1. MadeOf(managers'[j], managers[j].key, p) /\ managers'[j].phase = "down"
      BY <1>2, <2>3
    <3>2. managers'[j].pi # 0 /\ managers'[j].runs = {} /\ managers'[j].shut = "no"
      BY <1>1, <3>1 DEF MadeOf
    <3> QED BY <2>2, <3>1, <3>2 DEF ManagerFits, Starting, Owning
  <2>4. CASE managers[j].pi # p
    <3>1. managers'[j] = managers[j]
      BY <1>3, <2>4
    <3>2. managers[j].phase \in Starting \cup {"up"} \/ managers[j].shut # "no" =>
              managers[j].pi \in Pis /\ Fleet!Running(managers[j].pi)
      BY <2>1, SomePi DEF ManagerFits, Loaded, Starting
    <3>3. managers[j].phase \in Starting \cup {"up"} \/ managers[j].shut # "no" =>
             /\ host'[managers[j].pi] = host[managers[j].pi]
             /\ managers'[host[managers[j].pi].holder] = managers[host[managers[j].pi].holder]
      BY <1>1, <1>5, <2>4, <3>2
    <3> QED BY <1>1, <2>1, <2>2, <3>1, <3>2, <3>3
            DEF ManagerFits, Fleet!Running, Fleet!HolderOf
  <2> QED BY <2>3, <2>4
<1>8. HoldersApart'
  <2> SUFFICES ASSUME NEW r \in Pis, NEW q \in Pis, Fleet!Running(r)', Fleet!Running(q)', r # q
               PROVE  /\ Fleet!HolderOf(r)'.key # Fleet!HolderOf(q)'.key
                      /\ host'[r].prev # 0
                            /\ managers'[host'[r].prev].key = Fleet!HolderOf(q)'.key =>
                            host'[r].prev < host'[q].holder
    BY DEF HoldersApart
  <2>1. /\ Fleet!Running(r) /\ Fleet!Running(q) /\ r # p /\ q # p
        /\ host'[r] = host[r] /\ host'[q] = host[q]
    BY <1>1 DEF Fleet!Running
  <2> QED BY <1>5, <2>1 DEF Typical, HostInv, HoldersApart, Fleet!HolderOf
<1>9. HoldersAlone'
  <2> SUFFICES ASSUME NEW q \in Pis, Fleet!Running(q)' PROVE ~Fleet!TakenOver(host[q].holder)'
    BY DEF HoldersAlone
  <2>1. Fleet!Running(q) /\ host'[q] = host[q]
    BY <1>1 DEF Fleet!Running
  <2>2. host[q].holder \in Fleet!Managers /\ ~Fleet!TakenOver(host[q].holder)
    BY <2>1, HeldManagers
  <2> QED BY <1>4, <2>1, <2>2 DEF Fleet!TakenOver, Made
<1>10. ManagersStay
  BY <1>4 DEF ManagersStay, Made
<1> QED BY <1>6, <1>7, <1>8, <1>9, <1>10 DEF HostInv

(* What is on file, and who knows of it, after the saving by a manager:    *)
(* the Claudes it takes out of the file were no longer to be there.        *)
LEMMA WrittenRecords ==
    ASSUME Typical, FleetType', Begun, Recorded, ManagersStay,
           NEW i \in Fleet!Managers, NEW m, NEW n, NEW ended, NEW new, Written(i, m, n, ended, new)
    PROVE  ClaudesStay /\ Recorded'
<1>0. /\ managers[i].key \in Keys /\ managers[i].runs \subseteq Claudes
      /\ managers'[i] = n /\ \A j \in Fleet!Managers : j # i => managers'[j] = managers[j]
      /\ shelf'[m.key].runs = m.runs \ m.done
      /\ \A k \in Keys : k # m.key => shelf'[k] = shelf[k]
  BY DEF Written, Fleet!Saved, Fleet!Live, Typical, FleetType, FleetFile, Manager
<1>1. \A c \in Claudes : Launched(c) => c \notin new
  BY DEF Written, Launched
<1>2. ClaudesStay
  BY <1>1 DEF Written, ClaudesStay, Launched
<1>3. ASSUME NEW k \in Keys, NEW c \in shelf'[k].runs
      PROVE  \/ c \in shelf[k].runs
             \/ \E j \in Fleet!Managers : managers'[j].key = k /\ c \in managers'[j].runs
  BY <1>0, <1>3 DEF Written
<1>4. ASSUME NEW j \in Fleet!Managers, NEW c \in managers'[j].runs
      PROVE  \/ c \in managers[j].runs \/ c \in shelf[managers'[j].key].runs
             \/ Launched(c)' /\ KeyOf(c)' = managers'[j].key
  <2>1. i # 0
    BY DEF Fleet!Managers
  <2>2. CASE j = i /\ c \in new
    BY <1>0, <2>1, <2>2 DEF Written, Launched, KeyOf
  <2>3. CASE j # i \/ c \notin new
    BY <1>0, <1>4, <2>3 DEF Written
  <2> QED BY <2>2, <2>3
<1>5. ASSUME NEW j \in Fleet!Managers
      PROVE  /\ managers'[j].done \subseteq managers'[j].runs
             /\ managers'[j].active \subseteq managers'[j].runs
             /\ \A c \in managers'[j].done : claude'[c].at = "dead"
  <2>1. \A c \in managers[j].done : c \in Claudes /\ claude'[c].at = "dead"
    <3> SUFFICES ASSUME NEW c \in managers[j].done PROVE c \in Claudes /\ claude'[c].at = "dead"
      OBVIOUS
    <3>1. c \in managers[j].runs /\ c \in Claudes /\ claude[c].at = "dead" /\ Launched(c)
      BY DEF Recorded, Typical, FleetType, Manager
    <3> QED BY <1>1, <3>1 DEF Written
  <2>2. CASE j = i
    <3>1. ended \subseteq Claudes /\ \A c \in ended : claude'[c].at = "dead"
      <4>1. \A c \in ended : c \in Claudes /\ Launched(c)
        BY <1>0 DEF Written, Recorded
      <4> QED BY <1>1, <4>1 DEF Written
    <3> QED BY <1>0, <2>1, <2>2, <3>1 DEF Written, Recorded
  <2>3. CASE j # i
    BY <1>0, <2>1, <2>3 DEF Recorded
  <2> QED BY <2>2, <2>3
<1> QED BY <1>2, <1>3, <1>4, <1>5, RecordedStays

LEMMA WrittenFile ==
    ASSUME Typical, FleetType', Begun, Recorded, OnFile, ManagersStay,
           NEW i \in Fleet!Managers, Made(i),
           NEW m, NEW n, NEW ended, NEW new, Written(i, m, n, ended, new),
           \A j \in Fleet!Managers : Keeper(j)' => Keeper(j)
    PROVE  OnFile'
<1>0. /\ managers[i].key \in Keys /\ managers[i].runs \subseteq Claudes
      /\ managers'[i] = n /\ \A j \in Fleet!Managers : j # i => managers'[j] = managers[j]
      /\ shelf'[m.key].runs = m.runs \ m.done
      /\ \A k \in Keys : k # m.key => shelf'[k] = shelf[k]
  BY DEF Written, Fleet!Saved, Fleet!Live, Typical, FleetType, FleetFile, Manager
<1>1. ASSUME NEW j \in Fleet!Managers, Keeper(j)', (~Fleet!TakenOver(j))'
      PROVE  /\ Keeper(j) /\ ~Fleet!TakenOver(j) /\ managers'[j].key = managers[j].key
             /\ managers[j].runs \subseteq managers'[j].runs
  <2>1. Keeper(j) /\ Made(j)
    BY <1>1 DEF Keeper, Loaded, Made
  <2>2. ~Fleet!TakenOver(j)
    BY <1>1, <2>1, TakenStays
  <2> QED BY <1>0, <2>1, <2>2 DEF Written
<1>2. ASSUME NEW c \in Claudes, Kept(c)', c \notin new
      PROVE  /\ c \in shelf'[KeyOf(c)'].runs
             /\ \A j \in Fleet!Managers :
                   Keeper(j)' /\ managers'[j].key = KeyOf(c)' /\ (~Fleet!TakenOver(j))' =>
                      c \in managers'[j].runs
  <2>1. c \notin ended /\ Kept(c) /\ claude'[c].by = claude[c].by
    BY <1>2 DEF Written, Kept
  <2>2. Launched(c) /\ KeyOf(c)' = KeyOf(c)
    <3>1. claude[c].by \in Fleet!Managers /\ Made(claude[c].by)
      BY <2>1 DEF Kept, Begun, Typical, FleetType, FleetClaude
    <3> QED BY <2>1, <3>1 DEF ManagersStay, KeyOf, Launched, Kept, Begun
  <2>3. c \in shelf[KeyOf(c)].runs
    BY <2>1 DEF OnFile
  <2>4. KeyOf(c) \in Keys
    BY <2>1 DEF KeyOf, Kept, Begun, Typical, FleetType, FleetClaude, Manager
  <2>5. CASE KeyOf(c) = m.key /\ c \notin managers[i].runs
    <3>1. c \notin m.runs
      BY <1>2, <2>5 DEF Written
    <3>2. Fleet!Struck(m, c)
      BY <2>1, <2>3, <2>5, <3>1 DEF Fleet!Struck, Kept
    <3>3. ~(m.phase # "up" /\ (m.shut = "no" \/ Fleet!TakenOver(i)))
      BY <1>2, <2>1, <3>2 DEF Written, Kept
    <3>4. Keeper(i) /\ ~Fleet!TakenOver(i)
      BY <3>3 DEF Written
    <3>5. managers[i].key = KeyOf(c)
      BY <2>5 DEF Written
    <3> QED BY <2>1, <2>5, <3>4, <3>5 DEF OnFile
  <2>6. CASE KeyOf(c) = m.key /\ c \in managers[i].runs
    <3>1. c \notin managers[i].done
      BY <2>1 DEF Recorded, Kept
    <3>2. c \in m.runs \ m.done
      BY <2>1, <2>6, <3>1 DEF Written
    <3> QED BY <1>0, <1>1, <2>1, <2>2, <2>6, <3>2 DEF OnFile
  <2>7. CASE KeyOf(c) # m.key
    BY <1>0, <1>1, <2>1, <2>2, <2>3, <2>4, <2>7 DEF OnFile
  <2> QED BY <2>5, <2>6, <2>7
<1>3. ASSUME NEW c \in Claudes, Kept(c)', c \in new
      PROVE  /\ c \in shelf'[KeyOf(c)'].runs
             /\ \A j \in Fleet!Managers :
                   Keeper(j)' /\ managers'[j].key = KeyOf(c)' /\ (~Fleet!TakenOver(j))' =>
                      c \in managers'[j].runs
  <2>1. Fleet!Up(i) /\ claude[c].at = "ready" /\ claude'[c].by = i
    BY <1>3 DEF Written, Kept
  <2>2. KeyOf(c)' = m.key /\ m.key = managers[i].key
    BY <1>0, <2>1 DEF KeyOf, Written
  <2>3. c \notin managers[i].done /\ c \notin ended
    BY <2>1 DEF Recorded, Written, Launched
  <2>4. c \in m.runs \ m.done /\ c \in n.runs
    BY <1>3, <2>3 DEF Written
  <2>5. \A j \in Fleet!Managers :
           Keeper(j)' /\ managers'[j].key = KeyOf(c)' /\ (~Fleet!TakenOver(j))' => j = i
    BY <1>1, <2>1, <2>2, UpAlone
  <2> QED BY <1>0, <2>2, <2>4, <2>5
<1> QED BY <1>2, <1>3 DEF OnFile

(* Steps that save nothing: who now has the session has read its file.     *)
LEMMA FileStays ==
    ASSUME Typical, Begun, OnFile, ManagersStay,
           \A c \in Claudes : Kept(c)' => Kept(c) /\ claude'[c].by = claude[c].by,
           \A k \in Keys : shelf'[k].runs = shelf[k].runs,
           \A j \in Fleet!Managers : Keeper(j)' =>
              \/ Keeper(j) /\ managers'[j].runs = managers[j].runs
              \/ Made(j) /\ managers'[j].runs = shelf[managers[j].key].runs
    PROVE  OnFile'
<1> SUFFICES ASSUME NEW c \in Claudes, Kept(c)'
             PROVE  /\ c \in shelf'[KeyOf(c)'].runs
                    /\ \A j \in Fleet!Managers :
                          Keeper(j)' /\ managers'[j].key = KeyOf(c)' /\ (~Fleet!TakenOver(j))' =>
                             c \in managers'[j].runs
  BY DEF OnFile
<1>1. Kept(c) /\ KeyOf(c)' = KeyOf(c) /\ KeyOf(c) \in Keys
  <2>1. Kept(c) /\ claude'[c].by = claude[c].by
    OBVIOUS
  <2>2. claude[c].by \in Fleet!Managers /\ Made(claude[c].by)
    BY <2>1 DEF Kept, Begun, Typical, FleetType, FleetClaude
  <2> QED BY <2>1, <2>2 DEF ManagersStay, KeyOf, Typical, FleetType, Manager
<1>2. c \in shelf[KeyOf(c)].runs
  BY <1>1 DEF OnFile
<1>3. ASSUME NEW j \in Fleet!Managers, Keeper(j)', managers'[j].key = KeyOf(c),
             (~Fleet!TakenOver(j))'
      PROVE  c \in managers'[j].runs
  <2>1. Made(j)
    BY <1>3 DEF Keeper, Loaded, Made
  <2>2. managers[j].key = KeyOf(c) /\ ~Fleet!TakenOver(j)
    BY <1>3, <2>1, TakenStays DEF ManagersStay
  <2> QED BY <1>1, <1>2, <1>3, <2>2 DEF OnFile
<1> QED BY <1>1, <1>2, <1>3

LEMMA BegunStays ==
    ASSUME Typical, Begun, ManagersStay,
           \A c \in Claudes : claude'[c].at # "none" =>
              \/ claude[c].at # "none" /\ claude'[c].by = claude[c].by
              \/ claude'[c].by \in Fleet!Managers /\ Made(claude'[c].by),
           \A c \in Claudes : claude'[c].at = "ready" =>
              \/ claude[c].at = "ready" /\ claude'[c].by = claude[c].by
              \/ managers'[claude'[c].by].phase \in {"up", "down"},
           \A j \in Fleet!Managers : managers[j].phase \in {"up", "down"} =>
              managers'[j].phase \in {"up", "down"}
    PROVE  Begun'
<1> SUFFICES ASSUME NEW c \in Claudes
             PROVE  /\ claude'[c].at # "none" => claude'[c].by # 0 /\ Made(claude[c].by)'
                    /\ claude'[c].at = "ready" => managers'[claude'[c].by].phase \in {"up", "down"}
  BY DEF Begun
<1>1. claude[c].at # "none" => /\ claude[c].by \in Fleet!Managers /\ claude[c].by # 0
                               /\ Made(claude[c].by)
  BY DEF Begun, Typical, FleetType, FleetClaude
<1>2. claude'[c].at # "none" => claude'[c].by # 0 /\ Made(claude[c].by)'
  BY <1>1 DEF ManagersStay, Made, Fleet!Managers
<1>3. claude'[c].at = "ready" => managers'[claude'[c].by].phase \in {"up", "down"}
  BY <1>1 DEF Begun
<1> QED BY <1>2, <1>3

LEMMA SparedStays ==
    ASSUME Typical, Begun, Spared, ManagersStay, ClaudesStay,
           \A c \in Claudes : claude'[c].swept = claude[c].swept \/ claude'[c].swept # "peer",
           managers' \in [Fleet!Managers -> Manager],
           \A j \in Fleet!Managers : managers'[j].phase = "sweeping" =>
              \/ /\ managers[j].phase = "sweeping" /\ managers'[j].peers = managers[j].peers
                 /\ managers'[j].orphans = managers[j].orphans
              \/ \A c \in managers'[j].peers : Launched(c) /\ KeyOf(c) \notin managers'[j].orphans
    PROVE  Spared'
<1>1. Fleet!PeersAreSpared'
  BY DEF Spared, Fleet!PeersAreSpared
<1>2. ASSUME NEW j \in Fleet!Managers, managers'[j].phase = "sweeping",
             NEW c \in managers'[j].peers
      PROVE  Launched(c)' /\ KeyOf(c)' \notin managers'[j].orphans
  <2>1. c \in Claudes /\ Launched(c) /\ KeyOf(c) \notin managers'[j].orphans
    BY <1>2 DEF Spared, Manager
  <2> QED BY <2>1, LaunchedStay DEF Typical
<1> QED BY <1>1, <1>2 DEF Spared

LEMMA QuitsStay ==
    ASSUME Typical, Quits,
           \A p \in Pis : host'[p].at = "quitting" =>
              /\ host[p].at = "quitting" /\ host'[p].holder = host[p].holder
              /\ \A c \in Fleet!HolderOf(p)'.runs : claude'[c].at = "alive" =>
                    \/ claude'[c].late
                    \/ /\ c \in Fleet!HolderOf(p).runs /\ claude[c].at = "alive"
                       /\ claude[c].late => claude'[c].late
                       /\ Fleet!HolderOf(p).shut = "stopping" /\ c \in Fleet!HolderOf(p).active =>
                             Fleet!HolderOf(p)'.shut = "stopping" /\ c \in Fleet!HolderOf(p)'.active
    PROVE  Quits'
BY DEF Quits

LEMMA GrantsStay ==
    ASSUME Fleet!GrantsArePicked, answer' = answer PROVE Fleet!GrantsArePicked'
BY DEF Fleet!GrantsArePicked

(* What saving does to the Claudes.                                        *)
LEMMA AfterIs ==
    ASSUME Typical, NEW i \in Fleet!Managers, NEW m, NEW ended,
           NEW a, a = Fleet!After(i, m, ended)
    PROVE  /\ a \in [Claudes -> FleetClaude]
           /\ \A c \in Claudes :
                /\ a[c].at = IF c \in ended THEN "dead" ELSE claude[c].at
                /\ a[c].by = claude[c].by /\ a[c].late = claude[c].late
                /\ a[c].swept = claude[c].swept
                /\ a[c].task => claude[c].task /\ c \notin ended
                /\ ~a[c].lost => /\ ~claude[c].lost
                                 /\ c \notin ended /\ Fleet!Struck(m, c) =>
                                      ~(m.phase # "up" /\ (m.shut = "no" \/ Fleet!TakenOver(i)))
<1>1. ASSUME NEW c \in Claudes
      PROVE  /\ a[c] \in FleetClaude
             /\ a[c].at = IF c \in ended THEN "dead" ELSE claude[c].at
             /\ a[c].by = claude[c].by /\ a[c].late = claude[c].late
             /\ a[c].swept = claude[c].swept
             /\ a[c].task => claude[c].task /\ c \notin ended
             /\ ~a[c].lost => /\ ~claude[c].lost
                              /\ c \notin ended /\ Fleet!Struck(m, c) =>
                                   ~(m.phase # "up" /\ (m.shut = "no" \/ Fleet!TakenOver(i)))
  <2>1. claude[c] \in FleetClaude
    BY DEF Typical, FleetType
  <2> DEFINE over == m.phase # "up" /\ (m.shut = "no" \/ Fleet!TakenOver(i))
             cut  == Fleet!Struck(m, c)
  <2>2. a[c] = IF c \in ended THEN [claude[c] EXCEPT !.at = "dead", !.task = FALSE]
               ELSE IF cut THEN [claude[c] EXCEPT !.lost = @ \/ over]
               ELSE claude[c]
    BY Zenon DEF Fleet!After
  <2> HIDE DEF over, cut
  <2>3. /\ a[c] \in FleetClaude
        /\ a[c].at = IF c \in ended THEN "dead" ELSE claude[c].at
        /\ a[c].by = claude[c].by /\ a[c].late = claude[c].late
        /\ a[c].swept = claude[c].swept
        /\ a[c].task => claude[c].task /\ c \notin ended
    <3>1. CASE c \in ended
      BY <2>1, <2>2, <3>1 DEF FleetClaude
    <3>2. CASE c \notin ended /\ cut
      <4>1. (claude[c].lost \/ over) \in BOOLEAN
        OBVIOUS
      <4> QED BY <2>1, <2>2, <3>2, <4>1 DEF FleetClaude
    <3>3. CASE c \notin ended /\ ~cut
      BY <2>1, <2>2, <3>3
    <3> QED BY <3>1, <3>2, <3>3
  <2>4. ~a[c].lost => ~claude[c].lost /\ (c \notin ended /\ cut => ~over)
    <3>1. CASE c \in ended
      BY <2>1, <2>2, <3>1 DEF FleetClaude
    <3>2. CASE c \notin ended /\ cut
      <4>1. a[c].lost = (claude[c].lost \/ over)
        BY <2>1, <2>2, <3>2 DEF FleetClaude
      <4> QED BY <3>2, <4>1
    <3>3. CASE c \notin ended /\ ~cut
      BY <2>1, <2>2, <3>3
    <3> QED BY <3>1, <3>2, <3>3
  <2> QED BY <2>3, <2>4 DEF over, cut
<1>2. a = [c \in Claudes |-> a[c]]
  BY DEF Fleet!After
<1> QED BY <1>1, <1>2

Sound == FleetParameters /\ FleetInv

LEMMA SoundIs ==
    ASSUME Sound
    PROVE  /\ Typical /\ FleetType /\ HostInv /\ Recorded /\ Begun /\ Tended /\ OnFile /\ Spared
           /\ Quits /\ Fleet!GrantsArePicked
BY DEF Sound, FleetInv, Typical

(* Steps of Claudes that are not launched, and of requests.                *)
LEMMA ClaudeMoves ==
    ASSUME Sound, UNCHANGED <<host, managers, shelf>>, claude' \in [Claudes -> FleetClaude],
           \A c \in Claudes :
              IF claude[c].at \in {"alive", "dead"} THEN claude'[c] = claude[c]
              ELSE /\ claude'[c].at # "alive" /\ claude'[c].swept = claude[c].swept
                   /\ claude'[c].task = claude[c].task,
           \A c \in Claudes : claude'[c].at # "none" =>
              \/ claude[c].at # "none" /\ claude'[c].by = claude[c].by
              \/ claude'[c].by \in Fleet!Managers /\ Made(claude'[c].by),
           \A c \in Claudes : claude'[c].at = "ready" =>
              \/ claude[c].at = "ready" /\ claude'[c].by = claude[c].by
              \/ Fleet!Up(claude'[c].by),
           Fleet!GrantsArePicked'
    PROVE  FleetInv'
<1>1. FleetType' /\ HostInv'
  <2>1. FleetType'
    BY SoundIs DEF FleetType
  <2> QED BY <2>1, SoundIs, HostQuiet DEF FleetType
<1>2. ManagersStay /\ ClaudesStay
  BY SoundIs DEF ManagersStay, ClaudesStay, Made, Launched
<1>3. Recorded'
  <2>1. \A j \in Fleet!Managers : managers[j].done \subseteq Claudes
    BY SoundIs DEF FleetType, Manager
  <2>2. \A j \in Fleet!Managers : \A c \in managers[j].done : claude'[c].at = "dead"
    BY <2>1, SoundIs DEF Recorded
  <2> QED BY <1>1, <1>2, <2>2, SoundIs, RecordedStays DEF Recorded
<1>4. OnFile'
  <2>1. \A j \in Fleet!Managers : Keeper(j)' => Keeper(j)
    BY DEF Keeper, Fleet!Running
  <2>2. \A c \in Claudes : Kept(c)' => Kept(c) /\ claude'[c].by = claude[c].by
    BY DEF Kept
  <2> QED BY <1>2, <2>1, <2>2, SoundIs, FileStays
<1>5. Begun'
  BY <1>2, SoundIs, BegunStays DEF Fleet!Up
<1>6. Spared'
  <2>1. \A c \in Claudes : claude'[c].swept = claude[c].swept
    OBVIOUS
  <2> QED BY <1>1, <1>2, <2>1, SoundIs, SparedStays DEF FleetType
<1>7. Quits'
  <2>1. ASSUME NEW p \in Pis, host[p].at = "quitting", NEW c \in Fleet!HolderOf(p).runs,
               claude'[c].at = "alive"
        PROVE  claude[c].at = "alive" /\ claude'[c] = claude[c]
    <3>1. c \in Claudes
      <4>1. host[p].holder \in Fleet!Managers
        BY <2>1, SoundIs, HeldManagers DEF Fleet!Running
      <4> QED BY <2>1, <4>1, SoundIs DEF FleetType, Manager, Fleet!HolderOf
    <3> QED BY <2>1, <3>1
  <2> QED BY <2>1, SoundIs, QuitsStay DEF Fleet!HolderOf
<1>8. Tended'
  BY SoundIs DEF Tended
<1> QED BY <1>1, <1>3, <1>4, <1>5, <1>6, <1>7, <1>8 DEF FleetInv

(* Steps of managers that save nothing and end nothing.                    *)
LEMMA ManagersMove ==
    ASSUME Sound, FleetType', HostInv', ManagersStay, claude' = claude, answer' = answer,
           \A k \in Keys : shelf'[k].runs = shelf[k].runs,
           \A j \in Fleet!Managers :
              /\ \/ managers'[j].runs = managers[j].runs
                 \/ managers'[j].runs = shelf[managers'[j].key].runs
              /\ managers[j].runs \subseteq managers'[j].runs
              /\ managers'[j].done \subseteq managers[j].done
              /\ managers'[j].done \subseteq managers'[j].runs
              /\ managers'[j].active \subseteq managers'[j].runs
              /\ managers[j].phase \in {"up", "down"} => managers'[j].phase \in {"up", "down"},
           \A j \in Fleet!Managers : managers'[j].phase = "sweeping" =>
              \/ /\ managers[j].phase = "sweeping" /\ managers'[j].peers = managers[j].peers
                 /\ managers'[j].orphans = managers[j].orphans
              \/ \A c \in managers'[j].peers : Launched(c) /\ KeyOf(c) \notin managers'[j].orphans,
           \A j \in Fleet!Managers : Keeper(j)' =>
              \/ Keeper(j) /\ managers'[j].runs = managers[j].runs
              \/ Made(j) /\ managers'[j].runs = shelf[managers[j].key].runs,
           Quits'
    PROVE  FleetInv'
<1>1. ClaudesStay
  BY DEF ClaudesStay, Launched
<1>2. Recorded'
  <2>1. \A j \in Fleet!Managers : \A c \in managers'[j].done : claude'[c].at = "dead"
    BY SoundIs DEF Recorded
  <2> QED BY <1>1, <2>1, SoundIs, RecordedStays
<1>3. OnFile'
  <2>1. \A c \in Claudes : Kept(c)' => Kept(c) /\ claude'[c].by = claude[c].by
    BY DEF Kept
  <2> QED BY <2>1, SoundIs, FileStays
<1>4. Begun'
  <2>1. \A c \in Claudes : claude'[c].by = claude[c].by /\ claude'[c].at = claude[c].at
    OBVIOUS
  <2> QED BY <2>1, SoundIs, BegunStays
<1>5. Spared'
  BY <1>1, SoundIs, SparedStays DEF FleetType
<1>6. Fleet!GrantsArePicked'
  BY SoundIs, GrantsStay
<1>7. Tended'
  <2> SUFFICES ASSUME NEW c \in Claudes, claude[c].task
               PROVE  claude[c].at = "alive" /\ c \in managers'[claude[c].by].runs
    BY DEF Tended
  <2>1. claude[c].at = "alive" /\ c \in managers[claude[c].by].runs
    BY SoundIs DEF Tended
  <2>2. claude[c].by \in Fleet!Managers
    BY <2>1, SoundIs DEF Begun, FleetType, FleetClaude
  <2> QED BY <2>1, <2>2
<1> QED BY <1>2, <1>3, <1>4, <1>5, <1>6, <1>7 DEF FleetInv

(* Steps that save.                                                        *)
LEMMA SavesKeep ==
    ASSUME Sound, FleetType', HostInv', ManagersStay, answer' = answer,
           NEW i \in Fleet!Managers, Made(i),
           NEW m, NEW n, NEW ended, NEW new, Written(i, m, n, ended, new),
           \A j \in Fleet!Managers : Keeper(j)' => Keeper(j),
           \A c \in Claudes : claude'[c].swept = claude[c].swept,
           \A c \in Claudes : claude'[c].task =>
              c \in new \/ (claude'[c].at = "alive" /\ claude[c].task),
           n.phase # "sweeping",
           managers[i].phase \in {"up", "down"} => n.phase \in {"up", "down"},
           Quits'
    PROVE  FleetInv'
<1>1. ClaudesStay /\ Recorded'
  BY SoundIs, WrittenRecords
<1>2. OnFile'
  BY SoundIs, WrittenFile
<1>3. /\ managers'[i] = n /\ \A j \in Fleet!Managers : j # i => managers'[j] = managers[j]
      /\ \A c \in ended : Launched(c)
  BY SoundIs DEF Written, Recorded, FleetType
<1>4. Begun'
  <2>1. ASSUME NEW c \in Claudes, claude'[c].at # "none"
        PROVE  \/ claude[c].at # "none" /\ claude'[c].by = claude[c].by
               \/ claude'[c].by \in Fleet!Managers /\ Made(claude'[c].by)
    BY <1>3, <2>1 DEF Written, Launched
  <2>2. ASSUME NEW c \in Claudes, claude'[c].at = "ready"
        PROVE  claude[c].at = "ready" /\ claude'[c].by = claude[c].by
    BY <2>2 DEF Written
  <2> QED BY <1>3, <2>1, <2>2, SoundIs, BegunStays
<1>5. Spared'
  BY <1>1, <1>3, SoundIs, SparedStays DEF FleetType
<1>6. Fleet!GrantsArePicked'
  BY SoundIs, GrantsStay
<1>7. Tended'
  <2> SUFFICES ASSUME NEW c \in Claudes, claude'[c].task
               PROVE  claude'[c].at = "alive" /\ c \in managers'[claude'[c].by].runs
    BY DEF Tended
  <2>1. CASE c \in new
    BY <1>3, <2>1 DEF Written
  <2>2. CASE c \notin new
    <3>1. claude[c].at = "alive" /\ c \in managers[claude[c].by].runs /\ claude'[c].at = "alive"
      BY <2>2, SoundIs DEF Tended
    <3>2. claude[c].by \in Fleet!Managers /\ claude'[c].by = claude[c].by
      BY <2>2, <3>1, SoundIs DEF Begun, FleetType, FleetClaude, Written
    <3> QED BY <1>3, <3>1, <3>2 DEF Written
  <2> QED BY <2>1, <2>2
<1> QED BY <1>1, <1>2, <1>4, <1>5, <1>6, <1>7 DEF FleetInv

(* Who is not the one to save is not started.                              *)
LEMMA CanSave ==
    ASSUME Typical, NEW i \in Fleet!Managers
    PROVE  \/ Keeper(i) /\ ~Fleet!TakenOver(i)
           \/ managers[i].phase # "up" /\ (managers[i].shut = "no" \/ Fleet!TakenOver(i))
BY HolderOrPrev, UpIsHolder DEF Fleet!Up

LEMMA TaskFleet ==
    ASSUME Sound, NEW c \in Claudes, Fleet!NextTask(c) \/ Fleet!Ready(c) \/ Fleet!LaunchRefused(c)
    PROVE  FleetInv'
<1>1. PICK at \in {"asked", "ready", "dead"} : claude' = [claude EXCEPT ![c].at = at]
  BY DEF Fleet!NextTask, Fleet!Ready, Fleet!LaunchRefused
<1>2. claude[c].at \in {"queued", "asked", "ready"} /\ (at = "ready" => Fleet!Up(claude[c].by))
  <2>1. CASE Fleet!NextTask(c)
    BY <1>1, <2>1, SoundIs DEF Fleet!NextTask, FleetType, FleetClaude
  <2>2. CASE Fleet!Ready(c)
    BY <1>1, <2>2, SoundIs DEF Fleet!Ready, FleetType, FleetClaude
  <2>3. CASE Fleet!LaunchRefused(c)
    BY <1>1, <2>3, SoundIs DEF Fleet!LaunchRefused, FleetType, FleetClaude
  <2> QED BY <2>1, <2>2, <2>3
<1>3. UNCHANGED <<host, managers, shelf, answer>>
  BY DEF Fleet!NextTask, Fleet!Ready, Fleet!LaunchRefused
<1>4. /\ claude' \in [Claudes -> FleetClaude] /\ \A d \in Claudes : d # c => claude'[d] = claude[d]
      /\ claude'[c].at = at /\ claude'[c].by = claude[c].by /\ claude'[c].swept = claude[c].swept
      /\ claude'[c].task = claude[c].task
  BY <1>1, SoundIs DEF FleetType, FleetClaude
<1>5. Fleet!GrantsArePicked'
  BY <1>3, SoundIs, GrantsStay
<1> QED BY <1>2, <1>3, <1>4, <1>5, ClaudeMoves

LEMMA AskFleet ==
    ASSUME Sound, NEW p \in Pis, NEW tasks \in SUBSET Claudes, Fleet!Ask(p, tasks)
    PROVE  FleetInv'
<1> DEFINE i == host[p].holder
<1>1. /\ host[p].at = "idle" /\ \A c \in tasks : claude[c].at = "none"
      /\ UNCHANGED <<host, managers, shelf, answer>>
  BY Zenon DEF Fleet!Ask
<1>2. i \in Fleet!Managers /\ Made(i)
  BY <1>1, SoundIs, HeldManagers DEF Fleet!Running, Made
<1>3. ASSUME NEW c \in Claudes
      PROVE  /\ claude'[c] \in FleetClaude
             /\ c \notin tasks => claude'[c] = claude[c]
             /\ c \in tasks => /\ claude'[c].at \in {"asked", "queued"} /\ claude'[c].by = i
                               /\ claude'[c].swept = claude[c].swept
                               /\ claude'[c].task = claude[c].task
  <2>1. CASE c \notin tasks
    BY <2>1, SoundIs, Zenon DEF Fleet!Ask, FleetType
  <2>2. CASE c \in tasks
    <3> DEFINE first == {d \in tasks : Fleet!Cardinality({e \in tasks : e < d}) < Workers}
               at == IF c \in first THEN "asked" ELSE "queued"
    <3>1. claude'[c] = [claude[c] EXCEPT !.by = i, !.at = at]
      BY <2>2, Zenon DEF Fleet!Ask
    <3>2. at \in {"asked", "queued"}
      OBVIOUS
    <3> HIDE DEF at
    <3>3. claude[c] \in FleetClaude
      BY SoundIs DEF FleetType
    <3> QED BY <1>2, <2>2, <3>1, <3>2, <3>3 DEF FleetClaude
  <2> QED BY <2>1, <2>2
<1>4. claude' \in [Claudes -> FleetClaude]
  <2>1. claude' = [c \in Claudes |-> claude'[c]]
    BY Zenon DEF Fleet!Ask
  <2> QED BY <1>3, <2>1
<1>5. Fleet!GrantsArePicked'
  BY <1>1, SoundIs, GrantsStay
<1> HIDE DEF i
<1> QED BY <1>1, <1>2, <1>3, <1>4, <1>5, ClaudeMoves

(* Whatever is asked, over whichever way: what was not offered or not      *)
(* picked is not granted.                                                  *)
LEMMA DecisionPicked ==
    ASSUME NEW kind \in {"permission", "exit-plan", "trust", "question"},
           NEW route \in {"helm", "dialog", "none"}, NEW option \in Fleet!Picks \cup {"none"},
           option = "none" => route # "helm",
           option # "none" => /\ route # "none"
                              /\ \E i \in DOMAIN Fleet!Offered(kind) :
                                    Fleet!Offered(kind)[i] = option,
           Fleet!Decision(kind, route, option) \notin {"none", "deny"}
    PROVE  /\ option # "none"
           /\ Fleet!Decision(kind, route, option) = Fleet!Means(option)
<1>1. CASE route = "none"
  BY <1>1 DEF Fleet!Decision
<1>2. CASE route = "dialog"
  BY <1>2 DEF Fleet!Decision, Fleet!Means
<1>3. CASE route = "helm"
  <2> DEFINE at == {j \in DOMAIN Fleet!Offered(kind) : Fleet!Offered(kind)[j] = option}
             idx == CHOOSE j \in at : TRUE
  <2>1. Fleet!Decision(kind, route, option) =
           IF at # {} /\ idx \in DOMAIN Fleet!Granting(kind) THEN Fleet!Granting(kind)[idx]
           ELSE "deny"
    BY <1>3, Zenon DEF Fleet!Decision
  <2>2. at # {}
    BY <1>3
  <2>3. idx \in at
    BY <2>2
  <2> HIDE DEF idx
  <2>4. idx \in DOMAIN Fleet!Offered(kind) /\ Fleet!Offered(kind)[idx] = option
    BY <2>3
  <2>5. idx \in DOMAIN Fleet!Granting(kind) /\ Fleet!Granting(kind)[idx] # "deny"
    BY <2>1
  <2> HIDE DEF at
  <2>6. Fleet!Granting(kind)[idx] = Fleet!Means(option)
    <3>1. CASE kind = "permission"
      BY <2>4, <2>5, <3>1 DEF Fleet!Offered, Fleet!Granting, Fleet!Means
    <3>2. CASE kind = "exit-plan"
      BY <2>4, <2>5, <3>2 DEF Fleet!Offered, Fleet!Granting, Fleet!Means
    <3>3. CASE kind = "trust"
      BY <2>4, <2>5, <3>3 DEF Fleet!Offered, Fleet!Granting, Fleet!Means
    <3>4. CASE kind = "question"
      BY <2>4, <2>5, <3>4 DEF Fleet!Offered, Fleet!Granting, Fleet!Means
    <3> QED BY <3>1, <3>2, <3>3, <3>4
  <2> QED BY <1>3, <2>1, <2>2, <2>5, <2>6
<1> QED BY <1>1, <1>2, <1>3

LEMMA AnswerFleet ==
    ASSUME Sound, (\E c \in Claudes : Fleet!Answered(c)) \/ Fleet!Told PROVE FleetInv'
<1>1. UNCHANGED <<host, managers, shelf, claude>>
  BY DEF Fleet!Answered, Fleet!Told
<1>2. Fleet!GrantsArePicked'
  <2>1. CASE Fleet!Told
    BY <2>1 DEF Fleet!Told, Fleet!NoAnswer, Fleet!GrantsArePicked
  <2>2. CASE \E c \in Claudes : Fleet!Answered(c)
    <3>1. PICK kind \in {"permission", "exit-plan", "trust", "question"},
               route \in {"helm", "dialog", "none"}, option \in Fleet!Picks \cup {"none"} :
             /\ option = "none" => route # "helm"
             /\ option # "none" => /\ route # "none"
                                   /\ \E j \in DOMAIN Fleet!Offered(kind) :
                                         Fleet!Offered(kind)[j] = option
             /\ answer' = [kind |-> kind, picked |-> option,
                           action |-> Fleet!Decision(kind, route, option)]
      BY <2>2, SMT DEF Fleet!Answered
    <3>2. answer'.action = Fleet!Decision(kind, route, option) /\ answer'.picked = option
          /\ answer'.kind = kind
      BY <3>1
    <3> SUFFICES ASSUME answer'.action \notin {"none", "deny"}
                 PROVE  /\ answer'.action = Fleet!Means(answer'.picked)
                        /\ \E j \in DOMAIN Fleet!Offered(answer'.kind) :
                              Fleet!Offered(answer'.kind)[j] = answer'.picked
      BY DEF Fleet!GrantsArePicked
    <3>3. option # "none" /\ Fleet!Decision(kind, route, option) = Fleet!Means(option)
      BY <3>1, <3>2, DecisionPicked
    <3> QED BY <3>1, <3>2, <3>3
  <2> QED BY <2>1, <2>2
<1> QED BY <1>1, <1>2, SoundIs, ClaudeMoves DEF FleetType

LEMMA OneManager ==
    ASSUME FleetType, NEW i \in Fleet!Managers, NEW n \in Manager,
           managers' = [managers EXCEPT ![i] = n], n.key = managers[i].key, n.pi = managers[i].pi,
           n.phase # "none"
    PROVE  /\ managers' \in [Fleet!Managers -> Manager] /\ ManagersStay
           /\ managers'[i] = n /\ \A j \in Fleet!Managers : j # i => managers'[j] = managers[j]
BY DEF FleetType, ManagersStay, Made

LEMMA SavedType ==
    ASSUME FleetType, NEW m, m.key \in Keys, m.runs \subseteq Claudes, shelf' = Fleet!Saved(m)
    PROVE  /\ shelf' \in [Keys -> FleetFile]
           /\ \A k \in Keys : shelf'[k].owner = shelf[k].owner
BY DEF FleetType, FleetFile, Fleet!Saved, Fleet!Live

(* Steps of a manager that save and leave all processes where they are.    *)
LEMMA DataSaved ==
    ASSUME Sound, NEW i \in Fleet!Managers, Made(i), NEW n \in Manager,
           NEW ended, NEW new, Written(i, n, n, ended, new),
           n.phase = managers[i].phase, n.shut = managers[i].shut,
           n.phase \notin Loaded => n.runs = managers[i].runs,
           n.active = managers[i].active,
           claude' \in [Claudes -> FleetClaude], UNCHANGED <<host, answer>>,
           \A c \in Claudes : claude'[c].swept = claude[c].swept,
           \A c \in Claudes : claude'[c].task =>
              c \in new \/ (claude'[c].at = "alive" /\ claude[c].task),
           \A p \in Pis : host[p].at = "quitting" /\ host[p].holder = i =>
              \A c \in new : claude'[c].late,
           n.phase # "sweeping"
    PROVE  FleetInv'
<1>1. /\ managers' \in [Fleet!Managers -> Manager] /\ ManagersStay
      /\ managers'[i] = n /\ \A j \in Fleet!Managers : j # i => managers'[j] = managers[j]
  <2>1. /\ managers' = [managers EXCEPT ![i] = n] /\ n.key = managers[i].key
        /\ n.pi = managers[i].pi /\ n.phase # "none"
    BY DEF Written
  <2> QED BY <2>1, SoundIs, OneManager
<1>2. shelf' \in [Keys -> FleetFile] /\ \A k \in Keys : shelf'[k].owner = shelf[k].owner
  <2>1. n.key \in Keys /\ n.runs \subseteq Claudes /\ shelf' = Fleet!Saved(n)
    BY DEF Written, Manager
  <2> QED BY <2>1, SoundIs, SavedType
<1>3. FleetType'
  BY <1>1, <1>2, SoundIs DEF FleetType
<1>4. \A j \in Fleet!Managers :
         /\ managers'[j].key = managers[j].key /\ managers'[j].pi = managers[j].pi
         /\ managers'[j].phase = managers[j].phase /\ managers'[j].shut = managers[j].shut
         /\ managers'[j].active = managers[j].active
         /\ managers[j].phase \notin Loaded => managers'[j].runs = managers[j].runs
  BY <1>1 DEF Written
<1>5. HostInv'
  BY <1>1, <1>2, <1>4, SoundIs, HostQuiet
<1>6. \A j \in Fleet!Managers : Keeper(j)' => Keeper(j)
  BY <1>4 DEF Keeper, Fleet!Running
<1>7. Quits'
  <2> SUFFICES ASSUME NEW p \in Pis, host[p].at = "quitting", NEW c \in Fleet!HolderOf(p)'.runs,
                      claude'[c].at = "alive", ~claude'[c].late
               PROVE  /\ c \in Fleet!HolderOf(p).runs /\ claude[c].at = "alive"
                      /\ ~claude[c].late
                      /\ Fleet!HolderOf(p)'.shut = Fleet!HolderOf(p).shut
                      /\ Fleet!HolderOf(p)'.active = Fleet!HolderOf(p).active
    BY SoundIs, QuitsStay
  <2>1. host[p].holder \in Fleet!Managers
    BY SoundIs, HeldManagers DEF Fleet!Running
  <2>2. c \in Claudes
    BY <1>1, <2>1 DEF Fleet!HolderOf, Manager
  <2>3. c \in Fleet!HolderOf(p).runs
    BY <1>1, <2>1 DEF Fleet!HolderOf, Written
  <2>4. c \notin new
    <3>1. Launched(c)
      BY <2>1, <2>3, SoundIs DEF Recorded, Fleet!HolderOf
    <3> QED BY <3>1 DEF Written, Launched
  <2> QED BY <1>4, <2>1, <2>2, <2>3, <2>4 DEF Fleet!HolderOf, Written
<1> QED BY <1>1, <1>3, <1>5, <1>6, <1>7, SoundIs, SavesKeep

LEMMA EndsFleet ==
    ASSUME Sound, NEW i \in Fleet!Managers, Made(i), managers[i].phase # "sweeping",
           NEW some \in SUBSET managers[i].runs, Fleet!Ends(i, some)
    PROVE  FleetInv'
<1> DEFINE m == [managers[i] EXCEPT !.done = @ \cup some]
           a == Fleet!After(i, m, some)
<1>1. /\ managers' = [managers EXCEPT ![i] = m] /\ shelf' = Fleet!Saved(m) /\ claude' = a
      /\ UNCHANGED <<host, answer>>
  BY Zenon DEF Fleet!Ends
<1>2. managers[i] \in Manager
  BY SoundIs DEF FleetType
<1>3. /\ m \in Manager /\ m.key = managers[i].key /\ m.pi = managers[i].pi
      /\ m.phase = managers[i].phase /\ m.shut = managers[i].shut /\ m.runs = managers[i].runs
      /\ m.active = managers[i].active /\ m.done = managers[i].done \cup some
  BY <1>2 DEF Manager
<1> HIDE DEF m
<1>4. /\ a \in [Claudes -> FleetClaude]
      /\ \A c \in Claudes :
           /\ a[c].at = IF c \in some THEN "dead" ELSE claude[c].at
           /\ a[c].by = claude[c].by /\ a[c].late = claude[c].late
           /\ a[c].swept = claude[c].swept
           /\ a[c].task => claude[c].task /\ c \notin some
           /\ ~a[c].lost => /\ ~claude[c].lost
                            /\ c \notin some /\ Fleet!Struck(m, c) =>
                                 ~(m.phase # "up" /\ (m.shut = "no" \/ Fleet!TakenOver(i)))
  BY SoundIs, AfterIs
<1> HIDE DEF a
<1>5. Written(i, m, m, some, {})
  <2>1. m.active \subseteq m.runs /\ m.phase # "none"
    BY <1>3, SoundIs DEF Recorded, Made
  <2>2. \/ Keeper(i) /\ ~Fleet!TakenOver(i)
        \/ m.phase # "up" /\ (m.shut = "no" \/ Fleet!TakenOver(i))
    BY <1>3, SoundIs, CanSave
  <2> QED BY <1>1, <1>3, <1>4, <2>1, <2>2 DEF Written
<1>6. \A c \in Claudes : a[c].task => a[c].at = "alive" /\ claude[c].task
  BY <1>4, SoundIs DEF Tended
<1> QED BY <1>1, <1>3, <1>4, <1>5, <1>6, DataSaved

LEMMA LaunchFleet ==
    ASSUME Sound, NEW c \in Claudes, Fleet!Launch(c) PROVE FleetInv'
<1> DEFINE i == claude[c].by
           m == [managers[i] EXCEPT !.runs = @ \cup {c}]
           a == Fleet!After(i, m, {})
           late == ~Fleet!Up(i) \/ m.shut # "no"
<1>1. /\ claude[c].at = "ready" /\ managers' = [managers EXCEPT ![i] = m]
      /\ shelf' = Fleet!Saved(m) /\ UNCHANGED <<host, answer>>
      /\ claude' = [a EXCEPT ![c].at = "alive", ![c].task = TRUE, ![c].late = late]
  BY Zenon DEF Fleet!Launch
<1>2. i \in Fleet!Managers /\ managers[i].phase \in {"up", "down"} /\ managers[i] \in Manager
  BY <1>1, SoundIs DEF Begun, FleetType, FleetClaude
<1>3. /\ m \in Manager /\ m.key = managers[i].key /\ m.pi = managers[i].pi
      /\ m.phase = managers[i].phase /\ m.shut = managers[i].shut
      /\ m.runs = managers[i].runs \cup {c} /\ m.active = managers[i].active
      /\ m.done = managers[i].done
  BY <1>2 DEF Manager
<1> HIDE DEF m
<1>4. /\ a \in [Claudes -> FleetClaude]
      /\ \A d \in Claudes :
           /\ a[d].at = IF d \in {} THEN "dead" ELSE claude[d].at
           /\ a[d].by = claude[d].by /\ a[d].late = claude[d].late
           /\ a[d].swept = claude[d].swept
           /\ a[d].task => claude[d].task /\ d \notin {}
           /\ ~a[d].lost => /\ ~claude[d].lost
                            /\ d \notin {} /\ Fleet!Struck(m, d) =>
                                 ~(m.phase # "up" /\ (m.shut = "no" \/ Fleet!TakenOver(i)))
  BY <1>2, SoundIs, AfterIs
<1>5. late \in BOOLEAN
  OBVIOUS
<1> HIDE DEF a, late
<1>6. /\ claude' \in [Claudes -> FleetClaude] /\ \A d \in Claudes : d # c => claude'[d] = a[d]
      /\ claude'[c].at = "alive" /\ claude'[c].by = i /\ claude'[c].late = late
      /\ claude'[c].swept = claude[c].swept
  <2>1. /\ claude'[c] = [a[c] EXCEPT !.at = "alive", !.task = TRUE, !.late = late]
        /\ \A d \in Claudes : d # c => claude'[d] = a[d]
        /\ claude' = [d \in Claudes |-> claude'[d]]
    BY <1>1, <1>4
  <2>3. a[c] \in FleetClaude
    BY <1>4
  <2> DEFINE b == [a[c] EXCEPT !.at = "alive", !.task = TRUE, !.late = late]
  <2>4. b \in FleetClaude
    BY <1>5, <2>3 DEF FleetClaude
  <2>5. b.at = "alive" /\ b.by = a[c].by /\ b.swept = a[c].swept
    BY <2>3 DEF FleetClaude
  <2>6. b.late = late
    BY <2>3, Zenon DEF FleetClaude
  <2>2. /\ claude'[c] \in FleetClaude /\ claude'[c].at = "alive" /\ claude'[c].by = a[c].by
        /\ claude'[c].late = late /\ claude'[c].swept = a[c].swept
    BY <2>1, <2>4, <2>5, <2>6, Zenon
  <2> QED BY <1>4, <2>1, <2>2
<1>7. Written(i, m, m, {}, {c})
  <2>1. m.active \subseteq m.runs /\ m.phase # "none"
    BY <1>2, <1>3, SoundIs DEF Recorded
  <2>2. \/ Keeper(i) /\ ~Fleet!TakenOver(i)
        \/ m.phase # "up" /\ (m.shut = "no" \/ Fleet!TakenOver(i))
    BY <1>2, <1>3, SoundIs, CanSave
  <2>3. ~late => Fleet!Up(i)
    BY DEF late
  <2> QED BY <1>1, <1>3, <1>4, <1>6, <2>1, <2>2, <2>3 DEF Written
<1>8. ASSUME NEW p \in Pis, host[p].at = "quitting", host[p].holder = i PROVE late
  <2>1. HolderFits(p)
    BY SoundIs DEF HostInv
  <2> QED BY <1>3, <1>8, <2>1 DEF HolderFits, Fleet!Running, Fleet!HolderOf, Fleet!Up, late
<1>9. m.phase \in Loaded /\ m.phase # "sweeping" /\ Made(i)
  BY <1>2, <1>3 DEF Loaded, Made
<1>10. \A d \in Claudes : claude'[d].swept = claude[d].swept
  BY <1>4, <1>6
<1>11. \A d \in Claudes : claude'[d].task =>
          d \in {c} \/ (claude'[d].at = "alive" /\ claude[d].task)
  BY <1>4, <1>6, SoundIs DEF Tended
<1> HIDE DEF i
<1> QED BY <1>1, <1>2, <1>3, <1>6, <1>7, <1>8, <1>9, <1>10, <1>11, DataSaved

LEMMA TaskEndsFleet ==
    ASSUME Sound, NEW c \in Claudes, NEW stays \in BOOLEAN, Fleet!TaskEnds(c, stays)
    PROVE  FleetInv'
<1> DEFINE i == claude[c].by
           m == managers[i]
           a == Fleet!After(i, m, {})
<1>1. /\ claude[c].at = "alive" /\ i \in Fleet!Managers /\ Made(i) /\ m \in Manager
      /\ c \in m.runs /\ m.phase \in Loaded
  <2>1. claude[c].task /\ claude[c].at = "alive"
    BY DEF Fleet!TaskEnds
  <2>2. i \in Fleet!Managers /\ c \in m.runs
    BY <2>1, SoundIs DEF Begun, Tended, FleetType, FleetClaude
  <2>3. ManagerFits(i) /\ Made(i) /\ m \in Manager
    BY <2>1, <2>2, SoundIs DEF Begun, HostInv, FleetType
  <2> QED BY <2>1, <2>2, <2>3 DEF ManagerFits
<1>2. CASE ~stays
  <2>1. Fleet!Ends(i, {c})
    BY <1>2 DEF Fleet!TaskEnds
  <2> QED BY <1>1, <2>1, EndsFleet DEF Loaded
<1>3. CASE stays
  <2>1. /\ claude' = [a EXCEPT ![c].task = FALSE] /\ shelf' = Fleet!Saved(m)
        /\ UNCHANGED <<managers, host, answer>>
    BY <1>3, Zenon DEF Fleet!TaskEnds
  <2>2. /\ a \in [Claudes -> FleetClaude]
        /\ \A d \in Claudes :
             /\ a[d].at = IF d \in {} THEN "dead" ELSE claude[d].at
             /\ a[d].by = claude[d].by /\ a[d].late = claude[d].late
             /\ a[d].swept = claude[d].swept
             /\ a[d].task => claude[d].task /\ d \notin {}
             /\ ~a[d].lost => /\ ~claude[d].lost
                              /\ d \notin {} /\ Fleet!Struck(m, d) =>
                                   ~(m.phase # "up" /\ (m.shut = "no" \/ Fleet!TakenOver(i)))
    BY <1>1, SoundIs, AfterIs
  <2> HIDE DEF a
  <2>3. /\ claude' \in [Claudes -> FleetClaude]
        /\ \A d \in Claudes :
             /\ claude'[d].at = claude[d].at
             /\ claude'[d].by = claude[d].by /\ claude'[d].late = claude[d].late
             /\ claude'[d].swept = claude[d].swept
             /\ claude'[d].task => claude[d].task
             /\ claude'[d].lost = a[d].lost
    <3>1. /\ claude'[c] = [a[c] EXCEPT !.task = FALSE]
          /\ \A d \in Claudes : d # c => claude'[d] = a[d]
          /\ claude' = [d \in Claudes |-> claude'[d]]
      BY <2>1, <2>2
    <3>3. a[c] \in FleetClaude
      BY <2>2
    <3> DEFINE b == [a[c] EXCEPT !.task = FALSE]
    <3>4. b \in FleetClaude /\ b.at = a[c].at /\ b.by = a[c].by /\ b.swept = a[c].swept
      BY <3>3 DEF FleetClaude
    <3>5. b.late = a[c].late /\ b.lost = a[c].lost /\ b.task = FALSE
      BY <3>3 DEF FleetClaude
    <3>2. /\ claude'[c] \in FleetClaude /\ claude'[c].at = a[c].at /\ claude'[c].by = a[c].by
          /\ claude'[c].late = a[c].late /\ claude'[c].swept = a[c].swept
          /\ claude'[c].lost = a[c].lost /\ claude'[c].task = FALSE
      BY <3>1, <3>4, <3>5, Zenon
    <3> HIDE DEF b
    <3>6. claude' \in [Claudes -> FleetClaude]
      <4>1. \A d \in Claudes : claude'[d] \in FleetClaude
        BY <2>2, <3>1, <3>2
      <4> QED BY <3>1, <4>1
    <3>7. \A d \in Claudes :
             /\ claude'[d].at = a[d].at /\ claude'[d].by = a[d].by
             /\ claude'[d].late = a[d].late /\ claude'[d].swept = a[d].swept
             /\ claude'[d].lost = a[d].lost /\ (claude'[d].task => a[d].task)
      BY <3>1, <3>2
    <3> QED BY <2>2, <3>6, <3>7
  <2>4. managers' = [managers EXCEPT ![i] = m]
    BY <2>1, SoundIs DEF FleetType
  <2>5. Written(i, m, m, {}, {})
    <3>1. m.active \subseteq m.runs /\ m.phase # "none"
      BY <1>1, SoundIs DEF Recorded, Made
    <3>2. \/ Keeper(i) /\ ~Fleet!TakenOver(i)
          \/ m.phase # "up" /\ (m.shut = "no" \/ Fleet!TakenOver(i))
      BY <1>1, SoundIs, CanSave
    <3>3. \A d \in Claudes \ {} :
             /\ claude'[d].at = IF d \in {} THEN "dead" ELSE claude[d].at
             /\ claude'[d].by = claude[d].by /\ claude'[d].late = claude[d].late
             /\ ~claude'[d].lost =>
                   /\ ~claude[d].lost
                   /\ d \notin {} /\ Fleet!Struck(m, d) =>
                         ~(m.phase # "up" /\ (m.shut = "no" \/ Fleet!TakenOver(i)))
      BY <2>2, <2>3
    <3>4. shelf' = Fleet!Saved(m)
      BY <2>1
    <3> HIDE DEF m
    <3> QED BY <1>1, <2>4, <3>1, <3>2, <3>3, <3>4 DEF Written, m
  <2>6. \A d \in Claudes : claude'[d].task => claude'[d].at = "alive" /\ claude[d].task
    BY <2>3, SoundIs DEF Tended
  <2>7. m.phase # "sweeping"
    BY <1>1 DEF Loaded
  <2>8. /\ m \in Manager /\ i \in Fleet!Managers /\ Made(i)
        /\ m.phase = managers[i].phase /\ m.shut = managers[i].shut
        /\ m.runs = managers[i].runs /\ m.active = managers[i].active
    BY <1>1
  <2>9. /\ UNCHANGED <<host, answer>> /\ claude' \in [Claudes -> FleetClaude]
        /\ \A d \in Claudes : claude'[d].swept = claude[d].swept
    BY <2>1, <2>3
  <2>10. \A d \in Claudes : claude'[d].task =>
            d \in {} \/ (claude'[d].at = "alive" /\ claude[d].task)
    BY <2>6
  <2>11. m.phase \notin Loaded => m.runs = managers[i].runs
    OBVIOUS
  <2>12. \A p \in Pis : host[p].at = "quitting" /\ host[p].holder = i =>
            \A d \in {} : claude'[d].late
    OBVIOUS
  <2> HIDE DEF m, i
  <2> QED BY <2>5, <2>7, <2>8, <2>9, <2>10, <2>11, <2>12, DataSaved
<1> QED BY <1>2, <1>3

LEMMA StopFleet ==
    ASSUME Sound, NEW p \in Pis, Fleet!StopAll(p) \/ \E c \in Claudes : Fleet!Stop(p, c)
    PROVE  FleetInv'
<1>1. /\ host[p].at = "idle"
      /\ \E some \in SUBSET Fleet!Live(Fleet!HolderOf(p)) : Fleet!Ends(host[p].holder, some)
  BY DEF Fleet!StopAll, Fleet!Stop
<1>2. PICK some \in SUBSET Fleet!Live(Fleet!HolderOf(p)) : Fleet!Ends(host[p].holder, some)
  BY <1>1
<1>3. /\ host[p].holder \in Fleet!Managers /\ Made(host[p].holder)
      /\ managers[host[p].holder].phase # "sweeping"
  <2>1. Fleet!Running(p) /\ HolderFits(p)
    BY <1>1, SoundIs DEF Fleet!Running, HostInv
  <2> QED BY <1>1, <2>1 DEF HolderFits, Fleet!HolderOf, Made
<1>4. some \in SUBSET managers[host[p].holder].runs
  BY DEF Fleet!Live, Fleet!HolderOf
<1> QED BY <1>2, <1>3, <1>4, EndsFleet

(* The end of a manager: it stops what it has and closes.                  *)
LEMMA ClosingHost ==
    ASSUME Typical, NEW i \in Fleet!Managers, managers[i].shut # "no", host' = host,
           \A k \in Keys : shelf'[k].owner = shelf[k].owner,
           managers' \in [Fleet!Managers -> Manager],
           \A j \in Fleet!Managers : j # i => managers'[j] = managers[j],
           managers'[i].key = managers[i].key, managers'[i].pi = managers[i].pi,
           managers'[i].runs = managers[i].runs,
           \/ managers'[i].phase = managers[i].phase /\ managers'[i].shut = "closing"
           \/ managers'[i].phase = managers[i].phase /\ managers'[i].phase # "up"
              /\ managers'[i].shut = "no"
           \/ managers[i].phase = "up" /\ managers'[i].phase = "down" /\ managers'[i].shut = "no"
    PROVE  HostInv' /\ \A j \in Fleet!Managers : Keeper(j)' => Keeper(j)
<1> DEFINE p == managers[i].pi
           h == host[p].holder
           v == host[p].prev
<1>1. /\ p \in Pis /\ Fleet!Running(p) /\ Keeper(i) /\ i \in {h, v}
      /\ managers[i].phase \in Loaded
      /\ \/ h = i /\ host[p].at \in {"leaving", "quitting"}
         \/ v = i /\ managers[h].phase = "made"
  <2>1. ManagerFits(i)
    BY DEF Typical, HostInv
  <2>2. Keeper(i) /\ managers[i].phase \in Loaded /\ p \in Pis
    BY <2>1, HolderOrPrev, SomePi DEF ManagerFits, Loaded
  <2> QED BY <2>1, <2>2 DEF ManagerFits, Keeper, Fleet!HolderOf
<1>2. /\ h \in Fleet!Managers /\ managers[h].pi = p /\ HolderFits(p) /\ 0 \notin Fleet!Managers
      /\ v # 0 => v \in Fleet!Managers /\ managers[v].pi = p
  <2>1. 0 \notin Fleet!Managers
    BY DEF Fleet!Managers
  <2> QED BY <1>1, <2>1, HeldManagers DEF Typical, HostInv
<1>3. /\ v # 0 => host[p].at = "starting" /\ v # h
      /\ v # 0 => managers[v].phase \in {"refused", "failed", "down"}
      /\ host[p].at \in {"leaving", "quitting"} =>
            managers[h].phase \in {"up", "refused", "failed", "down"}
  BY <1>1, <1>2 DEF HolderFits, Fleet!HolderOf
<1>4. managers[i].phase \notin Starting /\ managers'[i].phase \in Loaded \ {"loaded"}
  BY <1>1, <1>2, <1>3 DEF Starting, Loaded
<1>5. HolderFits(p)'
  <2>1. CASE i = h
    <3>1. v = 0 /\ host[p].at \in {"leaving", "quitting"}
      BY <1>1, <1>2, <1>3, <2>1
    <3>2. managers'[h].pi = p /\ managers'[h].phase \in {"up", "refused", "failed", "down"}
      BY <1>3, <2>1, <3>1
    <3>3. managers'[h].phase = "up" => managers'[h].shut # "no"
      BY <2>1
    <3> QED BY <1>2, <3>1, <3>2, <3>3 DEF HolderFits, Fleet!HolderOf
  <2>2. CASE i # h
    <3>1. v = i /\ managers'[h] = managers[h] /\ managers'[v].phase = managers[v].phase
      BY <1>1, <1>2, <1>3, <2>2
    <3> QED BY <1>2, <1>3, <3>1 DEF HolderFits, Fleet!HolderOf, Fleet!Running
  <2> QED BY <2>1, <2>2
<1>6. \A j \in Fleet!Managers : managers'[j].phase # "none" <=> managers[j].phase # "none"
  BY <1>1, <1>4 DEF Loaded
<1>7. ASSUME NEW j \in Fleet!Managers, j \in {h, v} PROVE ManagerFits(j)'
  <2>1. ManagerFits(j) /\ managers[j].pi = p
    BY <1>2, <1>7 DEF Typical, HostInv
  <2>2. \A l \in 1 .. j - 1 : Made(j)' => Made(l)'
    BY <1>6, <2>1 DEF ManagerFits, Fleet!Managers, Typical, FleetParameters, Made
  <2>3. CASE j = i
    <3>1. managers'[j].shut # "no" =>
             \/ h = j /\ host[p].at \in {"leaving", "quitting"}
             \/ v = j /\ managers'[h].phase = "made"
      BY <1>1, <1>2, <1>3, <2>3
    <3>2. managers'[j].phase \in Starting \cup {"up"} => h = j
      <4>1. managers'[j].phase \notin Starting
        BY <1>4, <2>3 DEF Starting, Loaded
      <4>2. managers'[j].phase = "up" => managers[j].phase = "up"
        BY <2>3
      <4> QED BY <2>1, <4>1, <4>2 DEF ManagerFits
    <3>3. managers'[j].phase \in Owning => managers[j].phase \in Owning
      BY <2>3 DEF Owning
    <3>4. managers[j].key \in Keys
      BY DEF Typical, FleetType, Manager
    <3> QED BY <1>1, <1>4, <2>1, <2>2, <2>3, <3>1, <3>2, <3>3, <3>4
            DEF ManagerFits, Fleet!Running, Fleet!HolderOf
  <2>4. CASE j # i
    <3>1. managers'[j] = managers[j] /\ managers[j].key \in Keys
      BY <2>4 DEF Typical, FleetType, Manager
    <3>2. managers[j].shut # "no" => managers'[h].phase = managers[h].phase
      BY <1>1, <1>2, <1>3, <1>7, <2>1, <2>4 DEF ManagerFits, Fleet!HolderOf
    <3> QED BY <2>1, <2>2, <3>1, <3>2 DEF ManagerFits, Fleet!Running, Fleet!HolderOf
  <2> QED BY <2>3, <2>4
<1>8. ASSUME NEW j \in Fleet!Managers, j \in {h, v} PROVE managers'[j].phase # "none"
  <2>1. managers[j].phase # "none"
    BY <1>1, <1>2, <1>8 DEF Typical, HostInv, ManagerFits, FleetParameters
  <2> QED BY <1>6, <2>1
<1>9. \A j \in Fleet!Managers : Keeper(j)' => Keeper(j)
  BY <1>1 DEF Keeper, Fleet!Running
<1>10. HostInv'
  <2>1. \A j \in Fleet!Managers :
              /\ managers'[j].key = managers[j].key /\ managers'[j].pi = managers[j].pi
              /\ j \notin {h, v} => managers'[j] = managers[j]
    BY <1>1
  <2>2. Fleet!Running(p)' /\ host' \in [Pis -> FleetHost]
    BY <1>1 DEF Fleet!Running, Typical, FleetType
  <2> QED BY <1>1, <1>5, <1>7, <1>8, <2>1, <2>2, HostMoves
<1> QED BY <1>9, <1>10

LEMMA CloseSaved ==
    ASSUME Sound, NEW i \in Fleet!Managers, managers[i].shut # "no",
           NEW m, NEW n \in Manager, NEW ended, Written(i, m, n, ended, {}),
           \/ n.phase = managers[i].phase /\ n.shut = "closing"
           \/ n.phase = managers[i].phase /\ n.phase # "up" /\ n.shut = "no"
           \/ managers[i].phase = "up" /\ n.phase = "down" /\ n.shut = "no",
           managers[i].shut = "stopping" => managers[i].active \subseteq ended,
           claude' \in [Claudes -> FleetClaude], UNCHANGED <<host, answer>>,
           \A c \in Claudes : claude'[c].swept = claude[c].swept,
           \A c \in Claudes : claude'[c].task => claude'[c].at = "alive" /\ claude[c].task
    PROVE  FleetInv'
<1>0. managers[i].phase \in Loaded /\ Made(i)
  <2>1. ManagerFits(i)
    BY SoundIs DEF HostInv
  <2> QED BY <2>1 DEF ManagerFits, Loaded, Made
<1>1. /\ managers' \in [Fleet!Managers -> Manager] /\ ManagersStay
      /\ managers'[i] = n /\ \A j \in Fleet!Managers : j # i => managers'[j] = managers[j]
  <2>1. /\ managers' = [managers EXCEPT ![i] = n] /\ n.key = managers[i].key
        /\ n.pi = managers[i].pi /\ n.phase # "none"
    BY DEF Written
  <2> QED BY <2>1, SoundIs, OneManager
<1>2. shelf' \in [Keys -> FleetFile] /\ \A k \in Keys : shelf'[k].owner = shelf[k].owner
  <2>1. m.key \in Keys /\ m.runs \subseteq Claudes /\ shelf' = Fleet!Saved(m)
    BY DEF Written, Manager
  <2> QED BY <2>1, SoundIs, SavedType
<1>3. FleetType'
  BY <1>1, <1>2, SoundIs DEF FleetType
<1>4. HostInv' /\ \A j \in Fleet!Managers : Keeper(j)' => Keeper(j)
  <2>1. n.key = managers[i].key /\ n.pi = managers[i].pi /\ n.runs = managers[i].runs
    BY DEF Written
  <2> QED BY <1>1, <1>2, <2>1, SoundIs, ClosingHost
<1>5. Quits'
  <2> SUFFICES ASSUME NEW p \in Pis, host[p].at = "quitting", NEW c \in Fleet!HolderOf(p)'.runs,
                      claude'[c].at = "alive", ~claude'[c].late
               PROVE  /\ c \in Fleet!HolderOf(p).runs /\ claude[c].at = "alive"
                      /\ ~claude[c].late
                      /\ Fleet!HolderOf(p)'.shut = Fleet!HolderOf(p).shut
                      /\ Fleet!HolderOf(p)'.active = Fleet!HolderOf(p).active
    BY SoundIs, QuitsStay
  <2>1. host[p].holder \in Fleet!Managers
    BY SoundIs, HeldManagers DEF Fleet!Running
  <2>2. c \in Claudes /\ c \in Fleet!HolderOf(p).runs
    BY <1>1, <2>1 DEF Fleet!HolderOf, Manager, Written
  <2>3. c \notin ended /\ claude[c].at = "alive" /\ ~claude[c].late
    BY <2>2 DEF Written
  <2>4. host[p].holder # i
    BY <2>2, <2>3, SoundIs DEF Quits, Fleet!HolderOf
  <2> QED BY <1>1, <2>1, <2>2, <2>3, <2>4 DEF Fleet!HolderOf
<1>6. n.phase # "sweeping" /\ (managers[i].phase \in {"up", "down"} => n.phase \in {"up", "down"})
  BY <1>0 DEF Loaded
<1> QED BY <1>0, <1>1, <1>3, <1>4, <1>5, <1>6, SoundIs, SavesKeep

LEMMA StopsFleet ==
    ASSUME Sound, NEW i \in Fleet!Managers, Fleet!StopsActive(i) PROVE FleetInv'
<1> DEFINE some == managers[i].active
           m == [managers[i] EXCEPT !.done = @ \cup some, !.active = {}, !.shut = "closing"]
           a == Fleet!After(i, m, some)
<1>1. /\ managers[i].shut = "stopping"
      /\ managers' = [managers EXCEPT ![i] = m] /\ shelf' = Fleet!Saved(m) /\ claude' = a
      /\ UNCHANGED <<host, answer>>
  BY Zenon DEF Fleet!StopsActive
<1>2. managers[i] \in Manager
  BY SoundIs DEF FleetType
<1>3. /\ m \in Manager /\ m.key = managers[i].key /\ m.pi = managers[i].pi
      /\ m.phase = managers[i].phase /\ m.shut = "closing" /\ m.runs = managers[i].runs
      /\ m.active = {} /\ m.done = managers[i].done \cup some
  <2>1. m \in Manager /\ m.key = managers[i].key /\ m.pi = managers[i].pi
    BY <1>2 DEF Manager
  <2>2. m.phase = managers[i].phase /\ m.shut = "closing" /\ m.runs = managers[i].runs
    BY <1>2 DEF Manager
  <2>3. m.active = {} /\ m.done = managers[i].done \cup some
    BY <1>2 DEF Manager
  <2> QED BY <2>1, <2>2, <2>3
<1> HIDE DEF m
<1>4. /\ a \in [Claudes -> FleetClaude]
      /\ \A c \in Claudes :
           /\ a[c].at = IF c \in some THEN "dead" ELSE claude[c].at
           /\ a[c].by = claude[c].by /\ a[c].late = claude[c].late
           /\ a[c].swept = claude[c].swept
           /\ a[c].task => claude[c].task /\ c \notin some
           /\ ~a[c].lost => /\ ~claude[c].lost
                            /\ c \notin some /\ Fleet!Struck(m, c) =>
                                 ~(m.phase # "up" /\ (m.shut = "no" \/ Fleet!TakenOver(i)))
  BY SoundIs, AfterIs
<1> HIDE DEF a
<1>5. Written(i, m, m, some, {})
  <2>1. some \subseteq managers[i].runs /\ m.phase # "none"
    BY <1>1, <1>3, SoundIs DEF Recorded, HostInv, ManagerFits, Loaded
  <2>2. \/ Keeper(i) /\ ~Fleet!TakenOver(i)
        \/ m.phase # "up" /\ (m.shut = "no" \/ Fleet!TakenOver(i))
    BY <1>1, <1>3, SoundIs, CanSave
  <2> QED BY <1>1, <1>3, <1>4, <2>1, <2>2 DEF Written
<1>6. \A c \in Claudes : a[c].task => a[c].at = "alive" /\ claude[c].task
  BY <1>4, SoundIs DEF Tended
<1> QED BY <1>1, <1>3, <1>4, <1>5, <1>6, CloseSaved

LEMMA ClosesFleet ==
    ASSUME Sound, NEW i \in Fleet!Managers, Fleet!Closes(i) PROVE FleetInv'
<1> DEFINE m == managers[i]
           phase == IF m.phase = "up" THEN "down" ELSE m.phase
           n == [m EXCEPT !.shut = "no", !.phase = phase]
           a == Fleet!After(i, m, {})
<1>1. /\ m.shut = "closing" /\ m \in Manager
      /\ shelf' = Fleet!Saved(m) /\ claude' = a /\ UNCHANGED <<host, answer>>
  BY SoundIs, Zenon DEF Fleet!Closes, FleetType
<1>2. managers' = [managers EXCEPT ![i] = n]
  BY SoundIs DEF Fleet!Closes, FleetType, Manager
<1>3. /\ n \in Manager /\ n.key = m.key /\ n.pi = m.pi /\ n.phase = phase /\ n.shut = "no"
      /\ n.runs = m.runs /\ n.active = m.active /\ n.done = m.done
  <2>1. phase \in Fleet!Phases
    BY <1>1 DEF Manager, Fleet!Phases
  <2> HIDE DEF phase
  <2>2. n \in Manager /\ n.key = m.key /\ n.pi = m.pi
    BY <1>1, <2>1 DEF Manager
  <2>3. n.shut = "no" /\ n.runs = m.runs /\ n.phase = phase
    BY <1>1, <2>1 DEF Manager
  <2>4. n.active = m.active /\ n.done = m.done
    BY <1>1 DEF Manager
  <2> QED BY <2>2, <2>3, <2>4
<1> HIDE DEF n
<1>4. /\ a \in [Claudes -> FleetClaude]
      /\ \A c \in Claudes :
           /\ a[c].at = IF c \in {} THEN "dead" ELSE claude[c].at
           /\ a[c].by = claude[c].by /\ a[c].late = claude[c].late
           /\ a[c].swept = claude[c].swept
           /\ a[c].task => claude[c].task /\ c \notin {}
           /\ ~a[c].lost => /\ ~claude[c].lost
                            /\ c \notin {} /\ Fleet!Struck(m, c) =>
                                 ~(m.phase # "up" /\ (m.shut = "no" \/ Fleet!TakenOver(i)))
  BY SoundIs, AfterIs
<1> HIDE DEF a
<1>5. Written(i, m, n, {}, {})
  <2>1. n.active \subseteq n.runs /\ n.phase # "none"
    BY <1>1, <1>3, SoundIs DEF Recorded, HostInv, ManagerFits, Loaded
  <2>2. \/ Keeper(i) /\ ~Fleet!TakenOver(i)
        \/ m.phase # "up" /\ (m.shut = "no" \/ Fleet!TakenOver(i))
    BY SoundIs, CanSave
  <2> QED BY <1>1, <1>2, <1>3, <1>4, <2>1, <2>2 DEF Written
<1>6. \A c \in Claudes : a[c].task => a[c].at = "alive" /\ claude[c].task
  BY <1>4, SoundIs DEF Tended
<1> QED BY <1>1, <1>3, <1>4, <1>5, <1>6, CloseSaved

(* The start of a manager, from its gate to its tail: the process of it    *)
(* handles the start of a session all the while.                           *)
LEMMA AtStart ==
    ASSUME Typical, NEW i \in Fleet!Managers, managers[i].phase \in Starting
    PROVE  LET p == managers[i].pi IN
           /\ p \in Pis /\ Fleet!Running(p) /\ host[p].holder = i /\ host[p].at = "starting"
           /\ managers[i].shut = "no" /\ ManagerFits(i) /\ HolderFits(p)
           /\ Fleet!HolderOf(p) = managers[i]
           /\ host[p].prev # 0 => /\ host[p].prev \in Fleet!Managers /\ host[p].prev # i
                                  /\ managers[host[p].prev].pi = p
                                  /\ managers[host[p].prev].phase \in {"refused", "failed", "down"}
<1> DEFINE p == managers[i].pi
<1>1. p \in Pis
  BY SomePi DEF Starting
<1>2. ManagerFits(i) /\ HolderFits(p)
  BY <1>1 DEF Typical, HostInv
<1>3. Fleet!Running(p) /\ host[p].holder = i /\ Fleet!HolderOf(p) = managers[i]
  BY <1>2 DEF ManagerFits, Fleet!HolderOf
<1>4. host[p].at = "starting"
  BY <1>2, <1>3 DEF HolderFits, Starting
<1>5. host[p].prev # 0 => /\ host[p].prev \in Fleet!Managers /\ host[p].prev # i
                          /\ managers[host[p].prev].pi = p
                          /\ managers[host[p].prev].phase \in {"refused", "failed", "down"}
  BY <1>1, <1>2, <1>3, HeldManagers DEF HolderFits
<1>6. managers[i].shut = "no"
  BY <1>2, <1>3, <1>4, <1>5 DEF ManagerFits, Fleet!Managers
<1> QED BY <1>1, <1>2, <1>3, <1>4, <1>5, <1>6

LEMMA StartHost ==
    ASSUME Typical, NEW i \in Fleet!Managers, managers[i].phase \in Starting,
           managers' \in [Fleet!Managers -> Manager],
           \A j \in Fleet!Managers : j # i => managers'[j] = managers[j],
           managers'[i].key = managers[i].key, managers'[i].pi = managers[i].pi,
           managers'[i].shut = managers[i].shut,
           managers'[i].phase \notin Loaded => managers'[i].runs = {},
           \/ host' = host /\ managers'[i].phase \in Starting
           \/ /\ host' = [host EXCEPT ![managers[i].pi].at = "idle", ![managers[i].pi].prev = 0]
              /\ managers'[i].phase \in {"up", "refused", "failed"},
           \A k \in Keys : k # managers[i].key => shelf'[k].owner = shelf[k].owner,
           managers'[i].phase \in Owning => shelf'[managers[i].key].owner = managers[i].pi,
           host[managers[i].pi].prev # 0 => managers[host[managers[i].pi].prev].shut = "no"
    PROVE  /\ HostInv' /\ host' \in [Pis -> FleetHost]
           /\ \A j \in Fleet!Managers : j # i => (Keeper(j)' => Keeper(j))
<1> DEFINE p == managers[i].pi
           v == host[p].prev
<1>1. /\ p \in Pis /\ Fleet!Running(p) /\ host[p].holder = i /\ host[p].at = "starting"
      /\ managers[i].shut = "no" /\ ManagerFits(i) /\ HolderFits(p)
      /\ Fleet!HolderOf(p) = managers[i]
      /\ v # 0 => /\ v \in Fleet!Managers /\ v # i /\ managers[v].pi = p
                  /\ managers[v].phase \in {"refused", "failed", "down"}
  BY AtStart
<1>2. /\ host' \in [Pis -> FleetHost] /\ \A q \in Pis : q # p => host'[q] = host[q]
      /\ host'[p].holder = i
      /\ \/ host'[p].at = "starting" /\ host'[p].prev = v /\ managers'[i].phase \in Starting
         \/ /\ host'[p].at = "idle" /\ host'[p].prev = 0
            /\ managers'[i].phase \in {"up", "refused", "failed"}
  <2>1. host[p] \in FleetHost
    BY <1>1 DEF Typical, FleetType
  <2>2. CASE host' = host /\ managers'[i].phase \in Starting
    BY <1>1, <2>2 DEF Typical, FleetType
  <2>3. CASE /\ host' = [host EXCEPT ![p].at = "idle", ![p].prev = 0]
             /\ managers'[i].phase \in {"up", "refused", "failed"}
    <3>1. /\ host'[p] = [host[p] EXCEPT !.at = "idle", !.prev = 0]
          /\ \A q \in Pis : q # p => host'[q] = host[q]
          /\ host' = [q \in Pis |-> host'[q]]
      BY <1>1, <2>3 DEF Typical, FleetType
    <3>2. host'[p] \in FleetHost /\ host'[p].at = "idle" /\ host'[p].holder = host[p].holder
          /\ host'[p].prev = 0
      BY <2>1, <3>1 DEF FleetHost
    <3> QED BY <1>1, <2>3, <3>1, <3>2 DEF Typical, FleetType
  <2> QED BY <2>2, <2>3
<1>3. Fleet!Running(p)'
  BY <1>2 DEF Fleet!Running
<1>4. HolderFits(p)'
  BY <1>1, <1>2 DEF HolderFits, Fleet!HolderOf
<1>5. \A j \in Fleet!Managers : managers'[j].phase # "none" <=> managers[j].phase # "none"
  BY <1>2 DEF Starting
<1>6. ManagerFits(i)'
  <2>1. \A l \in 1 .. i - 1 : Made(i)' => Made(l)'
    BY <1>1, <1>5 DEF ManagerFits, Fleet!Managers, Typical, FleetParameters, Made
  <2>2. p # 0 /\ managers'[i].phase # "none" /\ managers'[i].pi = p
    BY <1>1, <1>2 DEF Typical, FleetParameters, Starting
  <2> QED BY <1>1, <1>2, <1>3, <2>1, <2>2 DEF ManagerFits
<1>7. ASSUME NEW j \in Fleet!Managers, j = v PROVE managers'[j].phase # "none" /\ ManagerFits(j)'
  <2>1. managers'[j] = managers[j] /\ ManagerFits(j) /\ managers[j].shut = "no"
        /\ managers[j].phase \in {"refused", "failed", "down"} /\ managers[j].pi = p
    BY <1>1, <1>7 DEF Typical, HostInv, Fleet!Managers
  <2>2. \A l \in 1 .. j - 1 : Made(j)' => Made(l)'
    BY <1>5, <2>1 DEF ManagerFits, Fleet!Managers, Typical, FleetParameters, Made
  <2> QED BY <2>1, <2>2 DEF ManagerFits, Starting, Owning
<1>8. HostInv'
  <2>1. \A j \in Fleet!Managers :
              /\ managers'[j].key = managers[j].key /\ managers'[j].pi = managers[j].pi
              /\ j \notin {host[p].holder, host[p].prev} => managers'[j] = managers[j]
    BY <1>1
  <2>2. \A k \in Keys : shelf'[k].owner = shelf[k].owner \/ k = Fleet!HolderOf(p).key
    BY <1>1
  <2>3. \A j \in Fleet!Managers : j \in {host[p].holder, host[p].prev} =>
             managers'[j].phase # "none" /\ ManagerFits(j)'
    <3> SUFFICES ASSUME NEW j \in Fleet!Managers, j = i \/ j = v
                 PROVE  managers'[j].phase # "none" /\ ManagerFits(j)'
      BY <1>1
    <3>1. CASE j = i
      BY <1>2, <1>6, <3>1 DEF Starting
    <3>2. CASE j = v
      BY <1>7, <3>2
    <3> QED BY <3>1, <3>2
  <2>4. host'[p].holder = host[p].holder /\ host'[p].prev \in {host[p].prev, 0}
    BY <1>1, <1>2
  <2> QED BY <1>1, <1>2, <1>3, <1>4, <2>1, <2>2, <2>3, <2>4, HostMoves
<1>9. ASSUME NEW j \in Fleet!Managers, j # i, Keeper(j)' PROVE Keeper(j)
  <2>1. managers[j].phase \in Loaded /\ managers'[j].pi = managers[j].pi
    BY <1>9 DEF Keeper
  <2>2. CASE managers[j].pi = p
    BY <1>1, <1>2, <1>9, <2>1, <2>2 DEF Keeper, Fleet!Managers
  <2>3. CASE managers[j].pi # p
    <3>1. managers[j].pi \in Pis
      BY <2>1, SomePi DEF Loaded
    <3> QED BY <1>2, <1>9, <2>1, <2>3, <3>1 DEF Keeper, Fleet!Running
  <2> QED BY <2>2, <2>3
<1> QED BY <1>2, <1>8, <1>9

(* A process that quits is not the one that starts.                        *)
LEMMA StartQuits ==
    ASSUME Sound, NEW i \in Fleet!Managers, managers[i].phase \in Starting,
           \A j \in Fleet!Managers : j # i => managers'[j] = managers[j],
           \/ host' = host
           \/ host' = [host EXCEPT ![managers[i].pi].at = "idle", ![managers[i].pi].prev = 0],
           \A c \in Claudes : claude'[c].at = "alive" =>
              claude[c].at = "alive" /\ claude'[c].late = claude[c].late
    PROVE  Quits'
<1> DEFINE p == managers[i].pi
<1>1. p \in Pis /\ host[p].at = "starting"
  BY SoundIs, AtStart
<1>2. host'[p].at # "quitting" /\ \A q \in Pis : q # p => host'[q] = host[q]
  BY <1>1, SoundIs DEF FleetType, FleetHost
<1>3. ASSUME NEW q \in Pis, host'[q].at = "quitting"
      PROVE  /\ host'[q] = host[q] /\ host[q].holder \in Fleet!Managers
             /\ managers'[host[q].holder] = managers[host[q].holder]
  <2>1. q # p /\ host'[q] = host[q]
    BY <1>2, <1>3
  <2>2. host[q].holder \in Fleet!Managers /\ managers[host[q].holder].pi = q
    BY <1>3, <2>1, SoundIs, HeldManagers DEF Fleet!Running
  <2> QED BY <2>1, <2>2
<1>4. \A q \in Pis : host'[q].at = "quitting" =>
         \A c \in managers[host[q].holder].runs : c \in Claudes
  BY <1>3, SoundIs DEF FleetType, Manager
<1> HIDE DEF p
<1> QED BY <1>3, <1>4, SoundIs, QuitsStay DEF Fleet!HolderOf

LEMMA PrevClosed ==
    ASSUME Typical, NEW i \in Fleet!Managers, managers[i].phase \in Starting \ {"made"},
           host[managers[i].pi].prev # 0
    PROVE  managers[host[managers[i].pi].prev].shut = "no"
<1> DEFINE p == managers[i].pi
<1>1. /\ host[p].holder = i /\ Fleet!HolderOf(p) = managers[i]
      /\ host[p].prev \in Fleet!Managers /\ host[p].prev # i /\ managers[host[p].prev].pi = p
  BY AtStart
<1>2. ASSUME NEW j \in Fleet!Managers, j # i, managers[j].pi = p PROVE managers[j].shut = "no"
  <2>1. ManagerFits(j)
    BY DEF Typical, HostInv
  <2> QED BY <1>1, <1>2, <2>1 DEF ManagerFits
<1> QED BY <1>1, <1>2

(* Steps of a start that save nothing.                                     *)
LEMMA StartMoves ==
    ASSUME Sound, NEW i \in Fleet!Managers, managers[i].phase \in Starting, NEW n \in Manager,
           managers' = [managers EXCEPT ![i] = n], n.key = managers[i].key,
           n.pi = managers[i].pi, n.shut = managers[i].shut, n.done = managers[i].done,
           n.active = managers[i].active,
           \/ n.runs = managers[i].runs
           \/ managers[i].phase = "loading" /\ n.runs = shelf[managers[i].key].runs,
           n.phase \notin Loaded => n.runs = managers[i].runs /\ managers[i].phase # "loaded",
           n.phase \in Loaded =>
              \/ managers[i].phase = "loaded" /\ n.runs = managers[i].runs
              \/ n.runs = shelf[managers[i].key].runs,
           n.phase = "sweeping" => \A c \in n.peers : Launched(c) /\ KeyOf(c) \notin n.orphans,
           \/ host' = host /\ n.phase \in Starting
           \/ /\ host' = [host EXCEPT ![managers[i].pi].at = "idle", ![managers[i].pi].prev = 0]
              /\ n.phase \in {"up", "refused", "failed"},
           shelf' \in [Keys -> FleetFile], \A k \in Keys : shelf'[k].runs = shelf[k].runs,
           \A k \in Keys : k # managers[i].key => shelf'[k].owner = shelf[k].owner,
           n.phase \in Owning => shelf'[managers[i].key].owner = managers[i].pi,
           host[managers[i].pi].prev # 0 => managers[host[managers[i].pi].prev].shut = "no",
           UNCHANGED <<claude, answer>>
    PROVE  FleetInv'
<1> DEFINE p == managers[i].pi
<1>1. /\ p \in Pis /\ Fleet!Running(p) /\ host[p].holder = i /\ ManagerFits(i)
      /\ Fleet!Running(p)'
  <2>1. p \in Pis /\ Fleet!Running(p) /\ host[p].holder = i /\ ManagerFits(i)
    BY SoundIs, AtStart
  <2>2. host' = host \/ host' = [host EXCEPT ![p].at = "idle", ![p].prev = 0]
    OBVIOUS
  <2> QED BY <2>1, <2>2, SoundIs DEF FleetType, FleetHost, Fleet!Running
<1>2. managers[i].phase # "loaded" => managers[i].runs = {}
  BY <1>1 DEF ManagerFits, Starting, Loaded
<1>3. n.phase # "none"
  BY DEF Starting
<1>4. /\ managers' \in [Fleet!Managers -> Manager] /\ ManagersStay
      /\ managers'[i] = n /\ \A j \in Fleet!Managers : j # i => managers'[j] = managers[j]
  BY <1>3, SoundIs, OneManager
<1>5. /\ HostInv' /\ host' \in [Pis -> FleetHost]
      /\ \A j \in Fleet!Managers : j # i => (Keeper(j)' => Keeper(j))
  <2>1. n.phase \notin Loaded => n.runs = {}
    BY <1>2
  <2> QED BY <1>4, <2>1, SoundIs, StartHost
<1>6. Quits'
  BY <1>4, SoundIs, StartQuits
<1>7. FleetType'
  BY <1>4, <1>5, SoundIs DEF FleetType
<1>8. managers[i].done \subseteq managers[i].runs /\ managers[i].active \subseteq managers[i].runs
      /\ \A j \in Fleet!Managers : managers[j].done \subseteq managers[j].runs
                                   /\ managers[j].active \subseteq managers[j].runs
  BY SoundIs DEF Recorded
<1>9. n.done \subseteq n.runs /\ n.active \subseteq n.runs /\ managers[i].runs \subseteq n.runs
  BY <1>2, <1>8
<1>10. managers[i].phase \notin {"up", "down"}
  BY DEF Starting
<1>11. ASSUME NEW j \in Fleet!Managers, Keeper(j)'
       PROVE  \/ Keeper(j) /\ managers'[j].runs = managers[j].runs
              \/ Made(j) /\ managers'[j].runs = shelf[managers[j].key].runs
  <2>1. CASE j # i
    BY <1>4, <1>5, <1>11, <2>1
  <2>2. CASE j = i
    <3>1. n.phase \in Loaded /\ Made(i)
      BY <1>4, <1>11, <2>2 DEF Keeper, Made, Starting
    <3>2. managers[i].phase = "loaded" => Keeper(i)
      BY <1>1 DEF Keeper, Loaded
    <3> QED BY <1>4, <2>2, <3>1, <3>2
  <2> QED BY <2>1, <2>2
<1>12. \A j \in Fleet!Managers : managers'[j].phase = "sweeping" =>
              \/ /\ managers[j].phase = "sweeping" /\ managers'[j].peers = managers[j].peers
                 /\ managers'[j].orphans = managers[j].orphans
              \/ \A c \in managers'[j].peers : Launched(c) /\ KeyOf(c) \notin managers'[j].orphans
  BY <1>4
<1>13. \A j \in Fleet!Managers :
              /\ \/ managers'[j].runs = managers[j].runs
                 \/ managers'[j].runs = shelf[managers'[j].key].runs
              /\ managers[j].runs \subseteq managers'[j].runs
              /\ managers'[j].done \subseteq managers[j].done
              /\ managers'[j].done \subseteq managers'[j].runs
              /\ managers'[j].active \subseteq managers'[j].runs
              /\ managers[j].phase \in {"up", "down"} => managers'[j].phase \in {"up", "down"}
  BY <1>4, <1>8, <1>9, <1>10
<1> QED BY <1>4, <1>5, <1>6, <1>7, <1>11, <1>12, <1>13, ManagersMove

LEMMA GateFleet ==
    ASSUME Sound, NEW i \in Fleet!Managers, NEW yes \in BOOLEAN, NEW marks \in BOOLEAN,
           Fleet!Gate(i, yes, marks)
    PROVE  FleetInv'
<1> DEFINE p == managers[i].pi
           phase == IF yes THEN "marked" ELSE "refused"
           n == [managers[i] EXCEPT !.phase = phase]
<1>1. /\ managers[i].phase = "made" /\ (host[p].prev # 0 => managers[host[p].prev].shut = "no")
      /\ managers' = [managers EXCEPT ![i].phase = phase]
      /\ shelf' = Fleet!Marked(i, yes /\ marks)
      /\ host' = IF yes THEN host ELSE [host EXCEPT ![p].at = "idle", ![p].prev = 0]
      /\ UNCHANGED <<claude, answer>> /\ marks /\ managers[i] \in Manager
  BY SoundIs DEF Fleet!Gate, Sound, FleetParameters, FleetType
<1>2. managers' = [managers EXCEPT ![i] = n]
  BY <1>1, SoundIs DEF FleetType
<1>3. /\ n \in Manager /\ n.key = managers[i].key /\ n.pi = p /\ n.phase = phase
      /\ n.shut = managers[i].shut /\ n.runs = managers[i].runs
      /\ n.done = managers[i].done /\ n.active = managers[i].active
  <2>1. n \in Manager /\ n.key = managers[i].key /\ n.pi = p /\ n.phase = phase
    BY <1>1 DEF Manager, Fleet!Phases
  <2>2. n.shut = managers[i].shut /\ n.runs = managers[i].runs
        /\ n.done = managers[i].done /\ n.active = managers[i].active
    BY <1>1 DEF Manager
  <2> QED BY <2>1, <2>2
<1>4. p \in Pis /\ managers[i].key \in Keys
  BY <1>1, SoundIs, AtStart DEF Starting, Manager
<1>5. /\ shelf' \in [Keys -> FleetFile] /\ \A k \in Keys : shelf'[k].runs = shelf[k].runs
      /\ \A k \in Keys : k # managers[i].key => shelf'[k].owner = shelf[k].owner
      /\ yes => shelf'[managers[i].key].owner = p
  <2>1. shelf' = IF yes THEN [shelf EXCEPT ![managers[i].key].owner = p] ELSE shelf
    BY <1>1 DEF Fleet!Marked
  <2> QED BY <1>4, <2>1, SoundIs DEF FleetType, FleetFile
<1> HIDE DEF n
<1>6. /\ managers[i].phase \in Starting /\ managers[i].phase # "loaded" /\ n.phase \notin Loaded
      /\ n.phase # "sweeping" /\ (n.phase \in Owning => yes)
      /\ \/ host' = host /\ n.phase \in Starting
         \/ /\ host' = [host EXCEPT ![p].at = "idle", ![p].prev = 0]
            /\ n.phase \in {"up", "refused", "failed"}
  BY <1>1, <1>3 DEF Starting, Loaded, Owning
<1> QED BY <1>1, <1>2, <1>3, <1>5, <1>6, StartMoves

LEMMA SweepReadsFleet ==
    ASSUME Sound, NEW i \in Fleet!Managers, Fleet!SweepReads(i) PROVE FleetInv'
<1> DEFINE orphans == {k \in Keys : Fleet!Orphaned(i, k)}
           peers == {c \in Claudes : Fleet!Supervised(c)}
           n == [managers[i] EXCEPT !.phase = "sweeping", !.orphans = orphans, !.peers = peers]
<1>1. /\ managers[i].phase = "marked" /\ managers[i] \in Manager
      /\ UNCHANGED <<host, shelf, claude, answer>>
  BY SoundIs DEF Fleet!SweepReads, FleetType
<1>2. managers' = [managers EXCEPT ![i] = n]
  BY SoundIs, Zenon DEF Fleet!SweepReads, FleetType
<1>3. orphans \subseteq Keys /\ peers \subseteq Claudes
  OBVIOUS
<1>4. ASSUME NEW c \in peers PROVE Launched(c) /\ KeyOf(c) \notin orphans
  <2>1. PICK j \in Fleet!Managers : Fleet!Up(j) /\ c \in managers[j].runs
    BY <1>4 DEF Fleet!Supervised
  <2>2. Launched(c) /\ KeyOf(c) = managers[j].key
    BY <2>1, SoundIs DEF Recorded
  <2>3. ManagerFits(j)
    BY SoundIs DEF HostInv
  <2>4. shelf[managers[j].key].owner = managers[j].pi /\ Fleet!Running(managers[j].pi)
    BY <2>1, <2>3 DEF ManagerFits, Owning, Fleet!Up
  <2> QED BY <2>2, <2>4 DEF Fleet!Orphaned
<1> HIDE DEF orphans, peers
<1>5. /\ n \in Manager /\ n.key = managers[i].key /\ n.pi = managers[i].pi /\ n.phase = "sweeping"
      /\ n.shut = managers[i].shut /\ n.runs = managers[i].runs
      /\ n.done = managers[i].done /\ n.active = managers[i].active
      /\ n.peers = peers /\ n.orphans = orphans
  <2>1. n \in Manager /\ n.key = managers[i].key /\ n.pi = managers[i].pi /\ n.phase = "sweeping"
    BY <1>1, <1>3 DEF Manager, Fleet!Phases
  <2>2. n.shut = managers[i].shut /\ n.runs = managers[i].runs
        /\ n.done = managers[i].done /\ n.active = managers[i].active
    BY <1>1 DEF Manager
  <2>3. n.peers = peers /\ n.orphans = orphans
    BY <1>1 DEF Manager
  <2> QED BY <2>1, <2>2, <2>3
<1> HIDE DEF n
<1>6. /\ managers[i].phase \in Starting \ {"made"} /\ managers[i].phase # "loaded"
      /\ n.phase \notin Loaded /\ n.phase \in Starting
  BY <1>1, <1>5 DEF Starting, Loaded
<1>7. host[managers[i].pi].prev # 0 => managers[host[managers[i].pi].prev].shut = "no"
  BY <1>6, SoundIs, PrevClosed
<1>8. shelf \in [Keys -> FleetFile] /\ shelf[managers[i].key].owner = managers[i].pi
  BY <1>1, SoundIs DEF FleetType, HostInv, ManagerFits, Owning
<1> QED BY <1>1, <1>2, <1>4, <1>5, <1>6, <1>7, <1>8, StartMoves

LEMMA LoadFleet ==
    ASSUME Sound, NEW i \in Fleet!Managers, Fleet!Load(i) PROVE FleetInv'
<1> DEFINE read == shelf[managers[i].key].runs
           n == [managers[i] EXCEPT !.phase = "loaded", !.runs = read]
<1>1. /\ managers[i].phase = "loading" /\ managers[i] \in Manager
      /\ UNCHANGED <<host, shelf, claude, answer>>
  BY SoundIs DEF Fleet!Load, FleetType
<1>2. managers' = [managers EXCEPT ![i] = n]
  BY SoundIs, Zenon DEF Fleet!Load, FleetType
<1>3. read \subseteq Claudes
  BY <1>1, SoundIs DEF FleetType, FleetFile, Manager
<1>4. shelf \in [Keys -> FleetFile] /\ shelf[managers[i].key].owner = managers[i].pi
  BY <1>1, SoundIs DEF FleetType, HostInv, ManagerFits, Owning
<1>5. /\ n \in Manager /\ n.key = managers[i].key /\ n.pi = managers[i].pi /\ n.phase = "loaded"
      /\ n.shut = managers[i].shut /\ n.runs = read
      /\ n.done = managers[i].done /\ n.active = managers[i].active
  <2> HIDE DEF read
  <2>1. n \in Manager /\ n.key = managers[i].key /\ n.pi = managers[i].pi /\ n.phase = "loaded"
    BY <1>1, <1>3 DEF Manager, Fleet!Phases
  <2>2. n.shut = managers[i].shut /\ n.runs = read
        /\ n.done = managers[i].done /\ n.active = managers[i].active
    BY <1>1 DEF Manager
  <2> QED BY <2>1, <2>2
<1> HIDE DEF n
<1>6. /\ managers[i].phase \in Starting \ {"made"}
      /\ n.phase \in Loaded /\ n.phase \in Starting /\ n.phase # "sweeping"
  BY <1>1, <1>5 DEF Starting, Loaded
<1>7. host[managers[i].pi].prev # 0 => managers[host[managers[i].pi].prev].shut = "no"
  BY <1>6, SoundIs, PrevClosed
<1> QED BY <1>1, <1>2, <1>4, <1>5, <1>6, <1>7, StartMoves

LEMMA SweepKillsFleet ==
    ASSUME Sound, NEW i \in Fleet!Managers, Fleet!SweepKills(i) PROVE FleetInv'
<1> DEFINE n == [managers[i] EXCEPT !.phase = "loading", !.orphans = {}, !.peers = {}]
           Hit(c) == claude[c].at = "alive" /\ \E k \in managers[i].orphans : c \in shelf[k].runs
           By(c) == CASE ~Fleet!Supervised(c) -> "orphan"
                      [] Fleet!Supervised(c) /\ c \in managers[i].peers -> "peer"
                      [] OTHER -> "adopted"
<1>1. /\ managers[i].phase = "sweeping" /\ managers[i] \in Manager
      /\ UNCHANGED <<host, shelf, answer>>
  BY SoundIs DEF Fleet!SweepKills, FleetType
<1>2. managers' = [managers EXCEPT ![i] = n]
  BY SoundIs, Zenon DEF Fleet!SweepKills, FleetType
<1>3. /\ n \in Manager /\ n.key = managers[i].key /\ n.pi = managers[i].pi /\ n.phase = "loading"
      /\ n.shut = managers[i].shut /\ n.runs = managers[i].runs
      /\ n.done = managers[i].done /\ n.active = managers[i].active
  <2>1. n \in Manager /\ n.key = managers[i].key /\ n.pi = managers[i].pi /\ n.phase = "loading"
    BY <1>1 DEF Manager, Fleet!Phases
  <2>2. n.shut = managers[i].shut /\ n.runs = managers[i].runs
        /\ n.done = managers[i].done /\ n.active = managers[i].active
    BY <1>1 DEF Manager
  <2> QED BY <2>1, <2>2
<1> HIDE DEF n
<1>4. /\ managers' \in [Fleet!Managers -> Manager] /\ ManagersStay
      /\ managers'[i] = n /\ \A j \in Fleet!Managers : j # i => managers'[j] = managers[j]
  BY <1>2, <1>3, SoundIs, OneManager
<1>5. ASSUME NEW c \in Claudes
      PROVE  /\ claude'[c] \in FleetClaude
             /\ ~Hit(c) => claude'[c] = claude[c]
             /\ Hit(c) => /\ claude'[c].at = "dead" /\ ~claude'[c].task
                          /\ claude'[c].by = claude[c].by /\ claude'[c].swept # "peer"
  <2>1. claude[c] \in FleetClaude
    BY SoundIs DEF FleetType
  <2>2. CASE ~Hit(c)
    <3>1. claude'[c] = claude[c]
      BY <2>2, Zenon DEF Fleet!SweepKills
    <3> QED BY <2>1, <2>2, <3>1
  <2>3. CASE Hit(c)
    <3> DEFINE s == By(c)
               b == [claude[c] EXCEPT !.at = "dead", !.task = FALSE, !.swept = s]
    <3>1. claude'[c] = b
      BY <2>3, Zenon DEF Fleet!SweepKills
    <3>2. c \notin managers[i].peers
      <4>1. PICK k \in managers[i].orphans : c \in shelf[k].runs
        BY <2>3
      <4>2. KeyOf(c) = k
        BY <1>1, <4>1, SoundIs DEF Recorded, Manager
      <4> QED BY <1>1, <4>1, <4>2, SoundIs DEF Spared
    <3>3. s \in {"orphan", "adopted"}
      BY <3>2
    <3> HIDE DEF s
    <3>4. b \in FleetClaude /\ b.at = "dead" /\ b.task = FALSE
      BY <2>1, <3>3 DEF FleetClaude
    <3>5. b.by = claude[c].by /\ b.swept = s
      BY <2>1 DEF FleetClaude
    <3> HIDE DEF b
    <3> QED BY <2>3, <3>1, <3>3, <3>4, <3>5
  <2> QED BY <2>2, <2>3
<1>6. claude' \in [Claudes -> FleetClaude]
  <2>1. claude' = [c \in Claudes |-> claude'[c]]
    BY Zenon DEF Fleet!SweepKills
  <2> QED BY <1>5, <2>1
<1>7. \A c \in Claudes : claude'[c].at = "alive" => claude'[c] = claude[c]
  BY <1>5
<1>8. \A c \in Claudes : claude[c].at # "alive" => claude'[c] = claude[c]
  BY <1>5
<1>9. \A c \in Claudes :
         /\ claude'[c].by = claude[c].by
         /\ claude'[c] = claude[c] \/ (claude[c].at = "alive" /\ claude'[c].at = "dead")
  BY <1>5
<1>10. /\ \A c \in Claudes : claude'[c].swept = claude[c].swept \/ claude'[c].swept # "peer"
       /\ \A c \in Claudes : claude'[c].task => claude'[c] = claude[c]
  BY <1>5
<1> HIDE DEF Hit
<1>11. managers[i].phase \in Starting \ {"made"} /\ n.phase \in Starting /\ n.phase \notin Loaded
  BY <1>1, <1>3 DEF Starting, Loaded
<1>12. HostInv' /\ \A j \in Fleet!Managers : j # i => (Keeper(j)' => Keeper(j))
  <2>1. n.runs = {} /\ shelf[managers[i].key].owner = managers[i].pi
    BY <1>1, <1>3, SoundIs DEF HostInv, ManagerFits, Loaded, Owning
  <2>2. host[managers[i].pi].prev # 0 => managers[host[managers[i].pi].prev].shut = "no"
    BY <1>11, SoundIs, PrevClosed
  <2> QED BY <1>1, <1>3, <1>4, <1>11, <2>1, <2>2, SoundIs, StartHost
<1>13. FleetType'
  BY <1>1, <1>4, <1>6, SoundIs DEF FleetType
<1>14. Quits'
  <2>1. host' = host /\ managers[i].phase \in Starting
    BY <1>1, <1>11
  <2> QED BY <1>4, <1>7, <2>1, StartQuits
<1>15. ClaudesStay
  BY <1>9 DEF ClaudesStay, Launched
<1>16. Recorded'
  <2>1. \A j \in Fleet!Managers : managers'[j].runs = managers[j].runs
           /\ managers'[j].done = managers[j].done /\ managers'[j].active = managers[j].active
    BY <1>3, <1>4
  <2>2. ASSUME NEW j \in Fleet!Managers, NEW c \in managers[j].done
        PROVE  claude'[c].at = "dead"
    <3>1. c \in Claudes /\ claude[c].at = "dead"
      BY SoundIs DEF Recorded, FleetType, Manager
    <3> QED BY <1>8, <3>1
  <2>3. /\ \A k \in Keys : \A c \in shelf'[k].runs :
              \/ c \in shelf[k].runs
              \/ \E j \in Fleet!Managers : managers'[j].key = k /\ c \in managers'[j].runs
        /\ \A j \in Fleet!Managers : \A c \in managers'[j].runs :
              \/ c \in managers[j].runs \/ c \in shelf[managers'[j].key].runs
              \/ Launched(c)' /\ KeyOf(c)' = managers'[j].key
    BY <1>1, <2>1
  <2>4. \A j \in Fleet!Managers :
              /\ managers'[j].done \subseteq managers'[j].runs
              /\ managers'[j].active \subseteq managers'[j].runs
              /\ \A c \in managers'[j].done : claude'[c].at = "dead"
    BY <2>1, <2>2, SoundIs DEF Recorded
  <2> QED BY <1>4, <1>13, <1>15, <2>3, <2>4, SoundIs, RecordedStays
<1>17. OnFile'
  <2>1. \A c \in Claudes : Kept(c)' => Kept(c) /\ claude'[c].by = claude[c].by
    BY <1>7 DEF Kept
  <2>2. \A j \in Fleet!Managers : Keeper(j)' => Keeper(j) /\ managers'[j].runs = managers[j].runs
    <3>1. ~Keeper(i)'
      BY <1>4, <1>11 DEF Keeper
    <3> QED BY <1>4, <1>12, <3>1
  <2>3. \A k \in Keys : shelf'[k].runs = shelf[k].runs
    BY <1>1
  <2> QED BY <1>4, <2>1, <2>2, <2>3, SoundIs, FileStays
<1>18. Begun'
  <2>1. \A c \in Claudes : claude'[c].at # "none" =>
           claude[c].at # "none" /\ claude'[c].by = claude[c].by
    BY <1>9
  <2>2. \A c \in Claudes : claude'[c].at = "ready" =>
           claude[c].at = "ready" /\ claude'[c].by = claude[c].by
    BY <1>9
  <2>3. \A j \in Fleet!Managers : managers[j].phase \in {"up", "down"} =>
           managers'[j].phase \in {"up", "down"}
    BY <1>1, <1>4
  <2> QED BY <1>4, <2>1, <2>2, <2>3, SoundIs, BegunStays
<1>19. Tended'
  <2> SUFFICES ASSUME NEW c \in Claudes, claude'[c].task
               PROVE  claude'[c].at = "alive" /\ c \in managers'[claude'[c].by].runs
    BY DEF Tended
  <2>1. claude'[c] = claude[c] /\ claude[c].at = "alive" /\ c \in managers[claude[c].by].runs
    BY <1>10, SoundIs DEF Tended
  <2>2. claude[c].by \in Fleet!Managers
    BY <2>1, SoundIs DEF Begun, FleetType, FleetClaude
  <2> QED BY <1>3, <1>4, <2>1, <2>2
<1>20. Spared'
  <2>1. \A j \in Fleet!Managers : managers'[j].phase = "sweeping" =>
              /\ managers[j].phase = "sweeping" /\ managers'[j].peers = managers[j].peers
              /\ managers'[j].orphans = managers[j].orphans
    BY <1>3, <1>4
  <2> QED BY <1>4, <1>10, <1>15, <2>1, SoundIs, SparedStays
<1>21. Fleet!GrantsArePicked'
  BY <1>1, SoundIs, GrantsStay
<1> QED BY <1>12, <1>13, <1>14, <1>16, <1>17, <1>18, <1>19, <1>20, <1>21 DEF FleetInv

LEMMA TailFleet ==
    ASSUME Sound, NEW i \in Fleet!Managers, NEW comes \in BOOLEAN, Fleet!Tail(i, comes)
    PROVE  FleetInv'
<1> DEFINE p == managers[i].pi
           phase == IF comes THEN "up" ELSE "failed"
           n == [managers[i] EXCEPT !.phase = phase]
           a == Fleet!After(i, n, {})
<1>1. /\ managers[i].phase = "loaded" /\ managers' = [managers EXCEPT ![i] = n]
      /\ IF comes /\ n.runs # {} THEN shelf' = Fleet!Saved(n) /\ claude' = a
         ELSE UNCHANGED <<shelf, claude>>
      /\ host' = [host EXCEPT ![n.pi].at = "idle", ![n.pi].prev = 0]
      /\ UNCHANGED answer
  BY Zenon DEF Fleet!Tail
<1>2. managers[i] \in Manager
  BY SoundIs DEF FleetType
<1>3. /\ n \in Manager /\ n.key = managers[i].key /\ n.pi = p /\ n.phase = phase
      /\ n.shut = managers[i].shut /\ n.runs = managers[i].runs
      /\ n.done = managers[i].done /\ n.active = managers[i].active
  <2>1. n \in Manager /\ n.key = managers[i].key /\ n.pi = p /\ n.phase = phase
    BY <1>2 DEF Manager, Fleet!Phases
  <2>2. n.shut = managers[i].shut /\ n.runs = managers[i].runs
        /\ n.done = managers[i].done /\ n.active = managers[i].active
    BY <1>2 DEF Manager
  <2> QED BY <2>1, <2>2
<1> HIDE DEF n
<1>4. /\ managers[i].phase \in Starting \ {"made"} /\ n.phase \in {"up", "failed"}
      /\ n.phase \in Loaded /\ n.phase # "sweeping" /\ managers[i].phase \notin {"up", "down"}
  BY <1>1, <1>3 DEF Starting, Loaded
<1>5. host[p].prev # 0 => managers[host[p].prev].shut = "no"
  BY <1>4, SoundIs, PrevClosed
<1>6. /\ shelf \in [Keys -> FleetFile] /\ shelf[managers[i].key].owner = p
      /\ managers[i].key \in Keys
      /\ host' = [host EXCEPT ![p].at = "idle", ![p].prev = 0]
  BY <1>1, <1>2, <1>3, SoundIs DEF FleetType, HostInv, ManagerFits, Owning, Manager
<1>7. CASE ~(comes /\ n.runs # {})
  <2>1. UNCHANGED <<shelf, claude, answer>>
    BY <1>1, <1>7
  <2> QED BY <1>1, <1>3, <1>4, <1>5, <1>6, <2>1, StartMoves
<1>8. CASE comes /\ n.runs # {}
  <2>1. shelf' = Fleet!Saved(n) /\ claude' = a
    BY <1>1, <1>8
  <2>2. /\ a \in [Claudes -> FleetClaude]
        /\ \A c \in Claudes :
             /\ a[c].at = IF c \in {} THEN "dead" ELSE claude[c].at
             /\ a[c].by = claude[c].by /\ a[c].late = claude[c].late
             /\ a[c].swept = claude[c].swept
             /\ a[c].task => claude[c].task /\ c \notin {}
             /\ ~a[c].lost => /\ ~claude[c].lost
                              /\ c \notin {} /\ Fleet!Struck(n, c) =>
                                   ~(n.phase # "up" /\ (n.shut = "no" \/ Fleet!TakenOver(i)))
    BY SoundIs, AfterIs
  <2> HIDE DEF a
  <2>3. /\ p \in Pis /\ Fleet!Running(p) /\ host[p].holder = i
    BY <1>4, SoundIs, AtStart
  <2>4. Keeper(i) /\ ~Fleet!TakenOver(i) /\ Made(i)
    <3>1. ~Fleet!TakenOver(i)
      BY <2>3, SoundIs, HeldManagers
    <3> QED BY <1>1, <2>3, <3>1 DEF Keeper, Loaded, Made
  <2>5. Written(i, n, n, {}, {})
    <3>1. n.active \subseteq n.runs /\ n.phase # "none"
      BY <1>3, <1>4, SoundIs DEF Recorded
    <3> QED BY <1>1, <1>3, <2>1, <2>2, <2>4, <3>1 DEF Written
  <2>6. /\ managers' \in [Fleet!Managers -> Manager] /\ ManagersStay
        /\ managers'[i] = n /\ \A j \in Fleet!Managers : j # i => managers'[j] = managers[j]
    BY <1>1, <1>3, <1>4, SoundIs, OneManager
  <2>7. shelf' \in [Keys -> FleetFile] /\ \A k \in Keys : shelf'[k].owner = shelf[k].owner
    <3>1. n.key \in Keys /\ n.runs \subseteq Claudes
      BY <1>3 DEF Manager
    <3> QED BY <2>1, <3>1, SoundIs, SavedType
  <2>8. HostInv' /\ \A j \in Fleet!Managers : j # i => (Keeper(j)' => Keeper(j))
    BY <1>3, <1>4, <1>5, <1>6, <2>6, <2>7, SoundIs, StartHost
  <2>9. FleetType'
    <3>1. host' \in [Pis -> FleetHost]
      BY <1>6, SoundIs DEF FleetType, FleetHost
    <3> QED BY <2>1, <2>2, <2>6, <2>7, <3>1 DEF FleetType
  <2>10. Quits'
    <3>1. \A c \in Claudes : claude'[c].at = "alive" =>
                claude[c].at = "alive" /\ claude'[c].late = claude[c].late
      BY <2>1, <2>2
    <3> QED BY <1>4, <1>6, <2>6, <3>1, StartQuits
  <2>11. \A j \in Fleet!Managers : Keeper(j)' => Keeper(j)
    BY <2>4, <2>8
  <2>12. \A c \in Claudes : claude'[c].swept = claude[c].swept
    BY <2>1, <2>2
  <2>13. \A c \in Claudes : claude'[c].task =>
            c \in {} \/ (claude'[c].at = "alive" /\ claude[c].task)
    BY <2>1, <2>2, SoundIs DEF Tended
  <2> QED BY <1>1, <1>4, <2>4, <2>5, <2>6, <2>8, <2>9, <2>10, <2>11, <2>12, <2>13, SavesKeep
<1> QED BY <1>7, <1>8

(* What does not quit, and what has ended: steps of the other processes.    *)
LEMMA OthersQuit ==
    ASSUME Sound, NEW p \in Pis, \A q \in Pis : q # p => host'[q] = host[q],
           \A j \in Fleet!Managers : Made(j) /\ managers[j].pi # p => managers'[j] = managers[j],
           \A c \in Claudes : claude'[c].at = "alive" =>
              claude[c].at = "alive" /\ claude'[c].late = claude[c].late,
           host'[p].at = "quitting" =>
              \A c \in Fleet!HolderOf(p)'.runs : claude'[c].at = "alive" =>
                 \/ claude'[c].late
                 \/ Fleet!HolderOf(p)'.shut = "stopping" /\ c \in Fleet!HolderOf(p)'.active
    PROVE  Quits'
<1> SUFFICES ASSUME NEW q \in Pis, host'[q].at = "quitting",
                    NEW c \in Fleet!HolderOf(q)'.runs, claude'[c].at = "alive", q # p
             PROVE  \/ claude'[c].late
                    \/ Fleet!HolderOf(q)'.shut = "stopping" /\ c \in Fleet!HolderOf(q)'.active
  <2>1. ASSUME NEW q \in Pis, host'[q].at = "quitting",
               NEW c \in Fleet!HolderOf(q)'.runs, claude'[c].at = "alive"
        PROVE  \/ claude'[c].late
               \/ Fleet!HolderOf(q)'.shut = "stopping" /\ c \in Fleet!HolderOf(q)'.active
    <3>1. CASE q = p
      BY <2>1, <3>1
    <3>2. CASE q # p
      BY <2>1, <3>2
    <3> QED BY <3>1, <3>2
  <2> QED BY <2>1 DEF Quits
<1>1. host'[q] = host[q] /\ host[q].at = "quitting" /\ Fleet!Running(q)
  BY DEF Fleet!Running
<1>2. /\ host[q].holder \in Fleet!Managers /\ managers[host[q].holder].pi = q
      /\ Made(host[q].holder)
  BY <1>1, SoundIs, HeldManagers DEF Made
<1>3. Fleet!HolderOf(q)' = Fleet!HolderOf(q)
  BY <1>1, <1>2 DEF Fleet!HolderOf
<1>4. c \in Fleet!HolderOf(q).runs /\ c \in Claudes
  BY <1>2, <1>3, SoundIs DEF Fleet!HolderOf, FleetType, Manager
<1>5. claude[c].at = "alive" /\ claude'[c].late = claude[c].late
  BY <1>4
<1> QED BY <1>1, <1>3, <1>4, <1>5, SoundIs DEF Quits

(* The shutdown of a manager.                                              *)
LEMMA ShutdownIs ==
    ASSUME Sound, NEW i \in Fleet!Managers, NEW cleanup \in BOOLEAN,
           NEW n, n = Fleet!Shutdown(i, cleanup), managers[i].shut = "no"
    PROVE  /\ n \in Manager /\ n.key = managers[i].key /\ n.pi = managers[i].pi
           /\ n.phase = managers[i].phase /\ n.runs = managers[i].runs
           /\ n.done = managers[i].done /\ n.active \subseteq n.runs
           /\ n.orphans = managers[i].orphans /\ n.peers = managers[i].peers
           /\ n.shut = "no" => n.phase # "up" /\ n.runs = {}
           /\ n.shut # "no" => n.phase = "up" \/ n.runs # {}
           /\ n.shut # "no" /\ cleanup => n.shut = "stopping" /\ n.active = n.runs \ n.done
<1>1. managers[i] \in Manager /\ managers[i].active \subseteq managers[i].runs
  BY SoundIs DEF FleetType, Recorded
<1>2. CASE ~Fleet!Up(i) /\ managers[i].runs = {}
  <2>1. n = managers[i]
    BY <1>2 DEF Fleet!Shutdown
  <2> QED BY <1>1, <1>2, <2>1 DEF Fleet!Up
<1>3. CASE Fleet!Up(i) \/ managers[i].runs # {}
  <2> DEFINE s == IF cleanup THEN "stopping" ELSE "closing"
             a == IF cleanup THEN managers[i].runs \ managers[i].done ELSE {}
  <2>1. n = [managers[i] EXCEPT !.shut = s, !.active = a]
    BY <1>3 DEF Fleet!Shutdown, Fleet!Live
  <2>2. s \in {"no", "stopping", "closing"} /\ s # "no" /\ a \in SUBSET Claudes
    BY <1>1 DEF Manager
  <2>3. /\ cleanup => s = "stopping" /\ a = managers[i].runs \ managers[i].done
        /\ a \subseteq managers[i].runs
    OBVIOUS
  <2> HIDE DEF s, a
  <2>4. n \in Manager /\ n.shut = s /\ n.active = a
    BY <1>1, <2>1, <2>2 DEF Manager
  <2>5. /\ n.key = managers[i].key /\ n.pi = managers[i].pi
        /\ n.phase = managers[i].phase /\ n.runs = managers[i].runs
    BY <1>1, <2>1 DEF Manager
  <2>6. /\ n.done = managers[i].done /\ n.orphans = managers[i].orphans
        /\ n.peers = managers[i].peers
    BY <1>1, <2>1 DEF Manager
  <2> QED BY <1>3, <2>2, <2>3, <2>4, <2>5, <2>6 DEF Fleet!Up
<1> QED BY <1>2, <1>3

LEMMA LeaveFleet ==
    ASSUME Sound, NEW p \in Pis, NEW quit \in BOOLEAN, Fleet!Leave(p, quit) PROVE FleetInv'
<1> SUFFICES ASSUME NEW i \in Fleet!Managers, host[p].holder = i PROVE FleetInv'
  <2>1. Fleet!Running(p)
    BY DEF Fleet!Leave, Fleet!Running
  <2> QED BY <2>1, SoundIs, HeldManagers
<1> DEFINE n == Fleet!Shutdown(i, quit)
           to == IF quit THEN "quitting" ELSE "leaving"
<1>1. /\ host[p].at = "idle" /\ managers' = [managers EXCEPT ![i] = n]
      /\ host' = [host EXCEPT ![p].at = to] /\ UNCHANGED <<shelf, claude, answer>>
  BY Zenon DEF Fleet!Leave
<1>2. Fleet!Running(p) /\ HolderFits(p) /\ host[p].prev = 0
  BY <1>1, SoundIs DEF HostInv, HolderFits, Fleet!Running
<1>3. i \in Fleet!Managers /\ managers[i].pi = p /\ Made(i)
  BY <1>2, SoundIs, HeldManagers DEF Made
<1>4. managers[i].phase \in {"up", "refused", "failed"} /\ ManagerFits(i)
  BY <1>1, <1>2, <1>3, SoundIs DEF HolderFits, Fleet!HolderOf, HostInv
<1>5. managers[i].shut = "no"
  <2>1. i # 0
    BY <1>3 DEF Fleet!Managers
  <2> QED BY <1>1, <1>2, <1>3, <1>4, <2>1 DEF ManagerFits
<1>6. /\ n \in Manager /\ n.key = managers[i].key /\ n.pi = managers[i].pi
      /\ n.phase = managers[i].phase /\ n.runs = managers[i].runs
      /\ n.done = managers[i].done /\ n.active \subseteq n.runs
      /\ n.shut = "no" => n.phase # "up" /\ n.runs = {}
      /\ n.shut # "no" => n.phase = "up" \/ n.runs # {}
      /\ n.shut # "no" /\ quit => n.shut = "stopping" /\ n.active = n.runs \ n.done
  BY <1>3, <1>5, ShutdownIs
<1>7. to \in {"quitting", "leaving"} /\ (to = "quitting" => quit)
  OBVIOUS
<1> HIDE DEF n, to
<1>8. /\ managers' \in [Fleet!Managers -> Manager] /\ ManagersStay
      /\ managers'[i] = n /\ \A j \in Fleet!Managers : j # i => managers'[j] = managers[j]
  BY <1>1, <1>3, <1>6, SoundIs, OneManager DEF Made
<1>9. /\ host' \in [Pis -> FleetHost] /\ \A q \in Pis : q # p => host'[q] = host[q]
      /\ host'[p].at = to /\ host'[p].holder = i /\ host'[p].prev = 0
  <2>1. host[p] \in FleetHost
    BY SoundIs DEF FleetType
  <2>2. [host[p] EXCEPT !.at = to] \in FleetHost
    BY <1>7, <2>1 DEF FleetHost
  <2>3. /\ host'[p] = [host[p] EXCEPT !.at = to]
        /\ \A q \in Pis : q # p => host'[q] = host[q]
        /\ host' = [q \in Pis |-> host'[q]]
    BY <1>1, SoundIs DEF FleetType
  <2>4. host'[p].at = to /\ host'[p].holder = host[p].holder /\ host'[p].prev = host[p].prev
    BY <2>1, <2>3 DEF FleetHost
  <2>5. host' \in [Pis -> FleetHost]
    BY <2>2, <2>3, SoundIs DEF FleetType
  <2> QED BY <1>2, <2>3, <2>4, <2>5
<1>10. Fleet!Running(p)' /\ Fleet!HolderOf(p)' = n
  BY <1>7, <1>8, <1>9 DEF Fleet!Running, Fleet!HolderOf
<1>11. HostInv'
  <2>1. HolderFits(p)'
    BY <1>3, <1>4, <1>6, <1>7, <1>9, <1>10 DEF HolderFits
  <2>2. managers'[i].phase # "none" /\ ManagerFits(i)'
    <3>1. \A l \in 1 .. i - 1 : Made(i)' => Made(l)'
      BY <1>3, <1>4, <1>8, SoundIs
         DEF ManagerFits, Fleet!Managers, Typical, FleetParameters, ManagersStay, Made
    <3>2. shelf' = shelf /\ managers'[i].phase # "none"
      BY <1>1, <1>4, <1>6, <1>8
    <3>3. n.shut # "no" => n.phase \in Loaded
      BY <1>4, <1>6 DEF ManagerFits, Loaded
    <3> QED BY <1>3, <1>4, <1>6, <1>7, <1>8, <1>9, <1>10, <3>1, <3>2, <3>3 DEF ManagerFits
  <2>3. \A j \in Fleet!Managers : j \in {host[p].holder, host[p].prev} => j = i
    BY <1>2 DEF Fleet!Managers
  <2>4. \A j \in Fleet!Managers :
           /\ managers'[j].key = managers[j].key /\ managers'[j].pi = managers[j].pi
           /\ j \notin {host[p].holder, host[p].prev} => managers'[j] = managers[j]
    BY <1>6, <1>8
  <2>5. \A k \in Keys : shelf'[k].owner = shelf[k].owner
    BY <1>1
  <2>6. host'[p].holder = host[p].holder /\ host'[p].prev \in {host[p].prev, 0}
    BY <1>9
  <2>7. \A j \in Fleet!Managers : j \in {host[p].holder, host[p].prev} =>
             managers'[j].phase # "none" /\ ManagerFits(j)'
    <3> SUFFICES ASSUME NEW j \in Fleet!Managers, j = i
                 PROVE  managers'[j].phase # "none" /\ ManagerFits(j)'
      BY <2>3
    <3> QED BY <2>2
  <2> QED BY <1>2, <1>8, <1>9, <1>10, <2>1, <2>4, <2>5, <2>6, <2>7, SoundIs, HostMoves
<1>12. Quits'
  <2>1. host'[p].at = "quitting" =>
            \A c \in Fleet!HolderOf(p)'.runs : claude'[c].at = "alive" =>
               \/ claude'[c].late
               \/ Fleet!HolderOf(p)'.shut = "stopping" /\ c \in Fleet!HolderOf(p)'.active
    <3> SUFFICES ASSUME quit, NEW c \in n.runs, claude[c].at = "alive"
                 PROVE  n.shut = "stopping" /\ c \in n.active
      BY <1>1, <1>7, <1>9, <1>10
    <3>1. c \notin n.done
      BY <1>3, <1>6, SoundIs DEF Recorded
    <3> QED BY <1>6, <3>1
  <2>2. claude' = claude
    BY <1>1
  <2> QED BY <1>3, <1>8, <1>9, <2>1, <2>2, OthersQuit
<1>13. FleetType'
  BY <1>1, <1>8, <1>9, SoundIs DEF FleetType
<1>14. \A j \in Fleet!Managers : Keeper(j)' => Keeper(j) /\ managers'[j].runs = managers[j].runs
  <2> SUFFICES ASSUME NEW j \in Fleet!Managers, Keeper(j)'
               PROVE  Keeper(j) /\ managers'[j].runs = managers[j].runs
    OBVIOUS
  <2>1. managers'[j].pi = managers[j].pi /\ managers'[j].phase = managers[j].phase
        /\ managers'[j].runs = managers[j].runs
    BY <1>6, <1>8
  <2>2. managers[j].pi \in Pis
    BY <2>1, SoundIs, SomePi DEF Keeper, Loaded
  <2> QED BY <1>2, <1>9, <2>1, <2>2 DEF Keeper, Fleet!Running
<1>15. \A j \in Fleet!Managers : managers'[j].phase = "sweeping" =>
          managers[j].phase = "sweeping" /\ managers'[j] = managers[j]
  BY <1>4, <1>6, <1>8
<1>16. \A j \in Fleet!Managers :
          /\ managers'[j].runs = managers[j].runs /\ managers'[j].done = managers[j].done
          /\ managers'[j].phase = managers[j].phase
          /\ managers'[j].done \subseteq managers'[j].runs
          /\ managers'[j].active \subseteq managers'[j].runs
  BY <1>3, <1>6, <1>8, SoundIs DEF Recorded
<1> QED BY <1>1, <1>8, <1>11, <1>12, <1>13, <1>14, <1>15, <1>16, ManagersMove

LEMMA FreshType ==
    ASSUME NEW k \in Keys, NEW p \in Pis, NEW phase \in Fleet!Phases
    PROVE  Fresh(k, p, phase) \in Manager
<1>1. PICK d : Fleet!Unmade =
        [key |-> d, pi |-> 0, phase |-> "none", runs |-> {}, done |-> {}, shut |-> "no",
         active |-> {}, orphans |-> {}, peers |-> {}]
  BY Zenon DEF Fleet!Unmade
<1>2. \A u : u = [key |-> d, pi |-> 0, phase |-> "none", runs |-> {}, done |-> {}, shut |-> "no",
                  active |-> {}, orphans |-> {}, peers |-> {}] =>
           [u EXCEPT !.key = k] =
             [key |-> k, pi |-> 0, phase |-> "none", runs |-> {}, done |-> {}, shut |-> "no",
              active |-> {}, orphans |-> {}, peers |-> {}]
  OBVIOUS
<1>3. \A u : u = [key |-> k, pi |-> 0, phase |-> "none", runs |-> {}, done |-> {}, shut |-> "no",
                  active |-> {}, orphans |-> {}, peers |-> {}] =>
           [u EXCEPT !.pi = p] =
             [key |-> k, pi |-> p, phase |-> "none", runs |-> {}, done |-> {}, shut |-> "no",
              active |-> {}, orphans |-> {}, peers |-> {}]
  OBVIOUS
<1>4. \A u : u = [key |-> k, pi |-> p, phase |-> "none", runs |-> {}, done |-> {}, shut |-> "no",
                  active |-> {}, orphans |-> {}, peers |-> {}] =>
           [u EXCEPT !.phase = phase] \in Manager
  BY DEF Manager
<1> QED BY <1>1, <1>2, <1>3, <1>4, Zenon DEF Fresh

(* A process that ends, with its managers and its tasks: its Claudes live  *)
(* on, on file.                                                            *)
LEMMA DeadClaudes ==
    ASSUME Sound, NEW p \in Pis, Fleet!Dies(p)
    PROVE  /\ claude' \in [Claudes -> FleetClaude]
           /\ \A c \in Claudes :
                 /\ claude'[c].by = claude[c].by /\ claude'[c].late = claude[c].late
                 /\ claude'[c].lost = claude[c].lost /\ claude'[c].swept = claude[c].swept
                 /\ \/ claude'[c] = claude[c]
                       /\ (claude[c].by = 0 \/ managers[claude[c].by].pi # p)
                    \/ /\ claude[c].by # 0 /\ managers[claude[c].by].pi = p /\ ~claude'[c].task
                       /\ claude'[c].at = IF claude[c].at = "alive" THEN "alive" ELSE "dead"
<1>1. ASSUME NEW c \in Claudes
      PROVE  /\ claude'[c] \in FleetClaude
             /\ claude'[c].by = claude[c].by /\ claude'[c].late = claude[c].late
             /\ claude'[c].lost = claude[c].lost /\ claude'[c].swept = claude[c].swept
             /\ \/ claude'[c] = claude[c]
                   /\ (claude[c].by = 0 \/ managers[claude[c].by].pi # p)
                \/ /\ claude[c].by # 0 /\ managers[claude[c].by].pi = p /\ ~claude'[c].task
                   /\ claude'[c].at = IF claude[c].at = "alive" THEN "alive" ELSE "dead"
  <2>1. claude[c] \in FleetClaude
    BY SoundIs DEF FleetType
  <2>2. claude'[c] = IF claude[c].by = 0 \/ managers[claude[c].by].pi # p THEN claude[c]
                     ELSE IF claude[c].at = "alive" THEN [claude[c] EXCEPT !.task = FALSE]
                     ELSE [claude[c] EXCEPT !.at = "dead"]
    BY Zenon DEF Fleet!Dies
  <2>3. CASE claude[c].by = 0 \/ managers[claude[c].by].pi # p
    <3>1. claude'[c] = claude[c]
      BY <2>2, <2>3
    <3> QED BY <2>1, <2>3, <3>1
  <2>4. CASE /\ ~(claude[c].by = 0 \/ managers[claude[c].by].pi # p)
             /\ claude[c].at = "alive"
    <3>1. claude'[c] = [claude[c] EXCEPT !.task = FALSE]
      BY <2>2, <2>4
    <3> QED BY <2>1, <2>4, <3>1 DEF FleetClaude
  <2>5. CASE /\ ~(claude[c].by = 0 \/ managers[claude[c].by].pi # p)
             /\ claude[c].at # "alive"
    <3>1. claude'[c] = [claude[c] EXCEPT !.at = "dead"]
      BY <2>2, <2>5
    <3>2. ~claude[c].task
      BY <2>1, <2>5, SoundIs DEF Tended
    <3> QED BY <2>1, <2>5, <3>1, <3>2 DEF FleetClaude
  <2> QED BY <2>3, <2>4, <2>5
<1>2. claude' = [c \in Claudes |-> claude'[c]]
  BY Zenon DEF Fleet!Dies
<1> QED BY <1>1, <1>2

LEMMA DiesFleet ==
    ASSUME Sound, NEW p \in Pis, Fleet!Running(p), Fleet!Dies(p) PROVE FleetInv'
<1>1. /\ host' = [host EXCEPT ![p].at = "gone"] /\ UNCHANGED <<shelf, answer>>
  BY Zenon DEF Fleet!Dies
<1>2. /\ host' \in [Pis -> FleetHost] /\ \A q \in Pis : q # p => host'[q] = host[q]
      /\ host'[p].at = "gone" /\ ~Fleet!Running(p)'
  BY <1>1, SoundIs DEF FleetType, FleetHost, Fleet!Running
<1>3. ASSUME NEW j \in Fleet!Managers, managers[j].pi = p
      PROVE  /\ MadeOf(managers'[j], managers[j].key, p) /\ managers'[j].phase = "down"
             /\ managers'[j] \in Manager
  <2>1. managers'[j] = Fresh(managers[j].key, p, "down")
    BY <1>3, Zenon DEF Fleet!Dies, Fresh
  <2>2. managers[j].key \in Keys
    BY SoundIs DEF FleetType, Manager
  <2>3. "down" \in Fleet!Phases
    BY DEF Fleet!Phases
  <2> QED BY <2>1, <2>2, <2>3, FreshIs, FreshType
<1>4. \A j \in Fleet!Managers : managers[j].pi # p => managers'[j] = managers[j]
  BY Zenon DEF Fleet!Dies
<1>5. managers' \in [Fleet!Managers -> Manager]
  <2>1. managers' = [j \in Fleet!Managers |-> managers'[j]]
    BY Zenon DEF Fleet!Dies
  <2>2. \A j \in Fleet!Managers : managers'[j] \in Manager
    BY <1>3, <1>4, SoundIs DEF FleetType
  <2> QED BY <2>1, <2>2
<1>6. /\ claude' \in [Claudes -> FleetClaude]
      /\ \A c \in Claudes :
            /\ claude'[c].by = claude[c].by /\ claude'[c].late = claude[c].late
            /\ claude'[c].lost = claude[c].lost /\ claude'[c].swept = claude[c].swept
            /\ \/ claude'[c] = claude[c]
                  /\ (claude[c].by = 0 \/ managers[claude[c].by].pi # p)
               \/ /\ claude[c].by # 0 /\ managers[claude[c].by].pi = p /\ ~claude'[c].task
                  /\ claude'[c].at = IF claude[c].at = "alive" THEN "alive" ELSE "dead"
  BY DeadClaudes
<1>7. FleetType'
  BY <1>1, <1>2, <1>5, <1>6, SoundIs DEF FleetType
<1>8. HostInv' /\ ManagersStay
  BY <1>7, SoundIs, HostDies
<1>9. ClaudesStay
  BY <1>6 DEF ClaudesStay, Launched
<1>10. \A j \in Fleet!Managers :
          /\ managers[j].pi # p => managers'[j] = managers[j]
          /\ managers[j].pi = p => /\ managers'[j].runs = {} /\ managers'[j].done = {}
                                   /\ managers'[j].active = {} /\ managers'[j].phase = "down"
                                   /\ managers'[j].pi = p
  BY <1>3, <1>4 DEF MadeOf
<1>11. Recorded'
  <2>1. \A j \in Fleet!Managers :
           /\ managers'[j].runs \subseteq managers[j].runs
           /\ managers'[j].done \subseteq managers'[j].runs
           /\ managers'[j].active \subseteq managers'[j].runs
           /\ managers'[j].done \subseteq managers[j].done
    BY <1>10, SoundIs DEF Recorded
  <2>2. ASSUME NEW j \in Fleet!Managers, NEW c \in managers'[j].done
        PROVE  claude'[c].at = "dead"
    <3>1. c \in managers[j].done /\ c \in Claudes /\ claude[c].at = "dead"
      BY <2>1, <2>2, SoundIs DEF Recorded, FleetType, Manager
    <3> QED BY <1>6, <3>1
  <2> QED BY <1>1, <1>7, <1>8, <1>9, <2>1, <2>2, SoundIs, RecordedStays
<1>12. \A j \in Fleet!Managers : Keeper(j)' => Keeper(j) /\ managers'[j].runs = managers[j].runs
  <2> SUFFICES ASSUME NEW j \in Fleet!Managers, Keeper(j)'
               PROVE  Keeper(j) /\ managers'[j].runs = managers[j].runs
    OBVIOUS
  <2>1. managers[j].pi # p
    BY <1>2, <1>10 DEF Keeper
  <2>2. managers'[j] = managers[j]
    BY <1>10, <2>1
  <2>3. managers[j].pi \in Pis
    BY <2>2, SoundIs, SomePi DEF Keeper, Loaded
  <2> QED BY <1>2, <2>1, <2>2, <2>3 DEF Keeper, Fleet!Running
<1>13. OnFile'
  <2>1. \A c \in Claudes : Kept(c)' => Kept(c) /\ claude'[c].by = claude[c].by
    BY <1>6 DEF Kept
  <2> QED BY <1>1, <1>8, <1>12, <2>1, SoundIs, FileStays
<1>14. Begun'
  <2>1. ASSUME NEW c \in Claudes, claude'[c].at # "none"
        PROVE  \/ claude[c].at # "none" /\ claude'[c].by = claude[c].by
               \/ claude'[c].by \in Fleet!Managers /\ Made(claude'[c].by)
    <3>1. CASE claude'[c] = claude[c]
      BY <2>1, <3>1
    <3>2. CASE claude[c].by # 0 /\ managers[claude[c].by].pi = p
      <4>1. claude[c].by \in Fleet!Managers
        BY <3>2, SoundIs DEF FleetType, FleetClaude
      <4>2. ManagerFits(claude[c].by) /\ p # 0
        BY <4>1, SoundIs DEF HostInv, Typical, FleetParameters
      <4>3. Made(claude[c].by)
        BY <3>2, <4>2 DEF ManagerFits, Made
      <4> QED BY <1>6, <4>1, <4>3
    <3> QED BY <1>6, <3>1, <3>2
  <2>2. \A c \in Claudes : claude'[c].at = "ready" =>
           claude[c].at = "ready" /\ claude'[c].by = claude[c].by
    BY <1>6
  <2>3. \A j \in Fleet!Managers : managers[j].phase \in {"up", "down"} =>
           managers'[j].phase \in {"up", "down"}
    BY <1>10
  <2> QED BY <1>8, <2>1, <2>2, <2>3, SoundIs, BegunStays
<1>15. Tended'
  <2> SUFFICES ASSUME NEW c \in Claudes, claude'[c].task
               PROVE  claude'[c].at = "alive" /\ c \in managers'[claude'[c].by].runs
    BY DEF Tended
  <2>1. claude'[c] = claude[c] /\ (claude[c].by = 0 \/ managers[claude[c].by].pi # p)
    BY <1>6
  <2>2. claude[c].at = "alive" /\ c \in managers[claude[c].by].runs
    BY <2>1, SoundIs DEF Tended
  <2>3. claude[c].by \in Fleet!Managers
    BY <2>2, SoundIs DEF Begun, FleetType, FleetClaude
  <2> QED BY <1>10, <2>1, <2>2, <2>3 DEF Fleet!Managers
<1>16. Spared'
  <2>1. \A j \in Fleet!Managers : managers'[j].phase = "sweeping" =>
           /\ managers[j].phase = "sweeping" /\ managers'[j].peers = managers[j].peers
           /\ managers'[j].orphans = managers[j].orphans
    BY <1>10
  <2> QED BY <1>5, <1>6, <1>8, <1>9, <2>1, SoundIs, SparedStays
<1>17. Quits'
  <2>1. \A c \in Claudes : claude'[c].at = "alive" =>
           claude[c].at = "alive" /\ claude'[c].late = claude[c].late
    BY <1>6
  <2> QED BY <1>2, <1>10, <2>1, OthersQuit
<1>18. Fleet!GrantsArePicked'
  BY <1>1, SoundIs, GrantsStay
<1> QED BY <1>7, <1>8, <1>11, <1>13, <1>14, <1>15, <1>16, <1>17, <1>18 DEF FleetInv

LEMMA CrashFleet ==
    ASSUME Sound, NEW p \in Pis, Fleet!Crash(p) PROVE FleetInv'
BY DiesFleet DEF Fleet!Crash

LEMMA HasLeftFleet ==
    ASSUME Sound, NEW p \in Pis, Fleet!HasLeft(p) PROVE FleetInv'
<1>1. Fleet!Running(p) /\ host[p].at \in {"leaving", "quitting"} /\ Fleet!HolderOf(p).shut = "no"
  BY DEF Fleet!HasLeft, Fleet!Running
<1>2. CASE host[p].at = "quitting"
  <2>1. Fleet!Dies(p)
    BY <1>2, Zenon DEF Fleet!HasLeft
  <2> QED BY <1>1, <2>1, DiesFleet
<1>3. CASE host[p].at # "quitting"
  <2>1. host' = [host EXCEPT ![p].at = "left"] /\ UNCHANGED <<managers, shelf, claude, answer>>
    BY <1>3 DEF Fleet!HasLeft
  <2>2. /\ host' \in [Pis -> FleetHost] /\ \A q \in Pis : q # p => host'[q] = host[q]
        /\ host'[p].at = "left" /\ host'[p].holder = host[p].holder
        /\ host'[p].prev = host[p].prev
    BY <2>1, SoundIs DEF FleetType, FleetHost
  <2>3. Fleet!Running(p)' /\ Fleet!HolderOf(p)' = Fleet!HolderOf(p)
    BY <2>1, <2>2 DEF Fleet!Running, Fleet!HolderOf
  <2>4. HolderFits(p) /\ host[p].prev = 0
    BY <1>1, SoundIs DEF HostInv, HolderFits
  <2>5. HolderFits(p)'
    BY <1>1, <1>3, <2>1, <2>2, <2>3, <2>4 DEF HolderFits
  <2>6. ASSUME NEW j \in Fleet!Managers, j \in {host[p].holder, host[p].prev}
        PROVE  managers'[j].phase # "none" /\ ManagerFits(j)'
    <3>1. j = host[p].holder /\ managers[j].pi = p /\ managers[j].phase # "none"
      BY <1>1, <2>4, <2>6, SoundIs, HeldManagers DEF Fleet!Managers
    <3>2. managers[j].shut = "no" /\ ManagerFits(j)
      BY <1>1, <3>1, SoundIs DEF Fleet!HolderOf, HostInv
    <3> QED BY <2>1, <2>2, <2>3, <3>1, <3>2 DEF ManagerFits, Made
  <2>7. HostInv'
    <3>1. managers' \in [Fleet!Managers -> Manager]
      BY <2>1, SoundIs DEF FleetType
    <3> QED BY <1>1, <2>1, <2>2, <2>3, <2>5, <2>6, <3>1, SoundIs, HostMoves
  <2>8. FleetType' /\ ManagersStay
    BY <2>1, <2>2, SoundIs DEF FleetType, ManagersStay, Made
  <2>9. Quits'
    BY <2>1, <2>2, OthersQuit
  <2>10. ASSUME NEW j \in Fleet!Managers, Keeper(j)' PROVE Keeper(j)
    <3>1. managers[j].pi \in Pis
      BY <2>1, <2>10, SoundIs, SomePi DEF Keeper, Loaded
    <3> QED BY <1>1, <2>1, <2>2, <2>10, <3>1 DEF Keeper, Fleet!Running
  <2>11. \A j \in Fleet!Managers : /\ managers[j].done \subseteq managers[j].runs
                                   /\ managers[j].active \subseteq managers[j].runs
    BY SoundIs DEF Recorded
  <2> QED BY <2>1, <2>7, <2>8, <2>9, <2>10, <2>11, ManagersMove
<1> QED BY <1>2, <1>3

LEMMA OpenFleet ==
    ASSUME Sound, NEW p \in Pis, NEW k \in Keys, NEW anew \in BOOLEAN, Fleet!Open(p, k, anew)
    PROVE  FleetInv'
<1> SUFFICES ASSUME NEW h \in Fleet!Managers \cup {0}, h = host[p].holder PROVE FleetInv'
  BY SoundIs DEF FleetType, FleetHost
<1>1. PICK i \in Fleet!Managers :
         /\ host[p].at \in {"off", "left"} /\ (host[p].at = "off" => anew)
         /\ managers[i].phase = "none"
         /\ managers' = [j \in Fleet!Managers |->
                           IF j = i THEN [Fleet!Unmade EXCEPT !.key = k, !.pi = p, !.phase = "made"]
                           ELSE IF j = h /\ ~anew THEN Fleet!Shutdown(j, TRUE)
                           ELSE managers[j]]
         /\ host' = [host EXCEPT ![p] = [at |-> "starting", holder |-> i,
                                         prev |-> IF anew THEN 0 ELSE h]]
         /\ UNCHANGED <<shelf, claude, answer>>
  BY Zenon DEF Fleet!Open
<1>2. managers'[i] = Fresh(k, p, "made")
  BY <1>1, Zenon DEF Fresh
<1>3. managers'[i] \in Manager /\ MadeOf(managers'[i], k, p) /\ managers'[i].phase = "made"
  <2>1. "made" \in Fleet!Phases
    BY DEF Fleet!Phases
  <2> QED BY <1>2, <2>1, FreshIs, FreshType
<1>4. ASSUME ~anew
      PROVE  /\ h \in Fleet!Managers /\ managers[h].pi = p /\ h # i /\ Fleet!Running(p)
             /\ managers[h].phase \in {"refused", "failed", "down"} /\ managers[h].shut = "no"
             /\ managers'[h] \in Manager /\ managers'[h].key = managers[h].key
             /\ managers'[h].pi = p /\ managers'[h].phase = managers[h].phase
             /\ managers'[h].runs = managers[h].runs /\ managers'[h].done = managers[h].done
             /\ managers'[h].active \subseteq managers'[h].runs
  <2>1. host[p].at = "left" /\ Fleet!Running(p) /\ HolderFits(p)
    BY <1>1, <1>4, SoundIs DEF Fleet!Running, HostInv
  <2>2. h \in Fleet!Managers /\ managers[h].pi = p
    BY <2>1, SoundIs, HeldManagers
  <2>3. managers[h].phase \in {"refused", "failed", "down"}
    BY <2>1 DEF HolderFits, Fleet!HolderOf
  <2>4. managers[h].shut = "no"
    BY <2>1, <2>2, SoundIs, LeftAlone
  <2>5. managers'[h] = Fleet!Shutdown(h, TRUE) /\ h # i
    <3>1. h # i
      BY <1>1, <2>3
    <3>2. managers'[h] = IF h = i THEN [Fleet!Unmade EXCEPT !.key = k, !.pi = p, !.phase = "made"]
                         ELSE IF h = h /\ ~anew THEN Fleet!Shutdown(h, TRUE) ELSE managers[h]
      BY <1>1, <2>2, Zenon
    <3> QED BY <1>4, <3>1, <3>2
  <2>6. \A n : n = Fleet!Shutdown(h, TRUE) =>
               /\ n \in Manager /\ n.key = managers[h].key /\ n.pi = managers[h].pi
               /\ n.phase = managers[h].phase /\ n.runs = managers[h].runs
               /\ n.done = managers[h].done /\ n.active \subseteq n.runs
    <3> SUFFICES ASSUME NEW n, n = Fleet!Shutdown(h, TRUE)
                 PROVE  /\ n \in Manager /\ n.key = managers[h].key /\ n.pi = managers[h].pi
                        /\ n.phase = managers[h].phase /\ n.runs = managers[h].runs
                        /\ n.done = managers[h].done /\ n.active \subseteq n.runs
      OBVIOUS
    <3>1. TRUE \in BOOLEAN
      OBVIOUS
    <3> QED BY <2>2, <2>4, <3>1, ShutdownIs
  <2> QED BY <2>1, <2>2, <2>3, <2>4, <2>5, <2>6
<1>5. \A j \in Fleet!Managers : j # i /\ (anew \/ j # h) => managers'[j] = managers[j]
  BY <1>1, Zenon
<1>6. /\ host' \in [Pis -> FleetHost] /\ \A q \in Pis : q # p => host'[q] = host[q]
      /\ host'[p].at = "starting" /\ host'[p].holder = i
      /\ host'[p].prev = IF anew THEN 0 ELSE h
  <2>1. [at |-> "starting", holder |-> i, prev |-> IF anew THEN 0 ELSE h] \in FleetHost
    BY DEF FleetHost
  <2> QED BY <1>1, <2>1, SoundIs DEF FleetType
<1>7. managers' \in [Fleet!Managers -> Manager]
  <2>1. managers' = [j \in Fleet!Managers |-> managers'[j]]
    BY <1>1, Zenon
  <2>2. ASSUME NEW j \in Fleet!Managers PROVE managers'[j] \in Manager
    <3>1. CASE j = i
      BY <1>3, <3>1
    <3>2. CASE j = h /\ ~anew
      BY <1>4, <3>2
    <3>3. CASE j # i /\ (anew \/ j # h)
      BY <1>5, <3>3, SoundIs DEF FleetType
    <3> QED BY <3>1, <3>2, <3>3
  <2> QED BY <2>1, <2>2
<1>8. FleetType'
  BY <1>1, <1>6, <1>7, SoundIs DEF FleetType
<1>9. HostInv' /\ ManagersStay
  BY <1>8, SoundIs, HostOpens
<1>10. managers[i].runs = {}
  BY <1>1, SoundIs DEF HostInv, ManagerFits, Loaded
<1>11. ASSUME NEW j \in Fleet!Managers
       PROVE  /\ managers'[j].runs = managers[j].runs
              /\ managers'[j].done \subseteq managers[j].done
              /\ managers'[j].done \subseteq managers'[j].runs
              /\ managers'[j].active \subseteq managers'[j].runs
              /\ managers[j].phase \in {"up", "down"} => managers'[j].phase \in {"up", "down"}
              /\ managers'[j].phase = "sweeping" => managers'[j] = managers[j]
  <2>1. CASE j = i
    BY <1>1, <1>3, <1>10, <2>1 DEF MadeOf
  <2>2. CASE j = h /\ ~anew
    BY <1>4, <2>2, SoundIs DEF Recorded
  <2>3. CASE j # i /\ (anew \/ j # h)
    BY <1>5, <2>3, SoundIs DEF Recorded
  <2> QED BY <2>1, <2>2, <2>3
<1>12. ASSUME NEW j \in Fleet!Managers, Keeper(j)' PROVE Keeper(j)
  <2>1. CASE j = i
    BY <1>3, <1>12, <2>1 DEF Keeper, Loaded
  <2>2. CASE j = h /\ ~anew
    <3>1. managers[j].phase \in Loaded
      BY <1>4, <1>12, <2>2 DEF Keeper
    <3> QED BY <1>4, <2>2, <3>1 DEF Keeper
  <2>3. CASE j # i /\ (anew \/ j # h)
    <3>1. managers'[j] = managers[j]
      BY <1>5, <2>3
    <3>2. managers[j].pi \in Pis
      BY <1>12, <3>1, SoundIs, SomePi DEF Keeper, Loaded
    <3>3. managers[j].pi # p
      BY <1>6, <1>12, <2>3, <3>1 DEF Keeper, Fleet!Managers
    <3> QED BY <1>6, <1>12, <3>1, <3>2, <3>3 DEF Keeper, Fleet!Running
  <2> QED BY <2>1, <2>2, <2>3
<1>13. Quits'
  <2>1. ASSUME NEW j \in Fleet!Managers, Made(j), managers[j].pi # p
        PROVE  managers'[j] = managers[j]
    BY <1>1, <1>4, <1>5, <2>1 DEF Made
  <2> QED BY <1>1, <1>6, <2>1, OthersQuit
<1> QED BY <1>1, <1>8, <1>9, <1>11, <1>12, <1>13, ManagersMove

LEMMA FleetStep ==
    ASSUME Sound, Fleet!Next PROVE FleetInv'
<1>1. ASSUME NEW c \in Claudes, NEW stays \in BOOLEAN,
             \/ Fleet!NextTask(c) \/ Fleet!Ready(c) \/ Fleet!LaunchRefused(c)
             \/ Fleet!Launch(c) \/ Fleet!Answered(c) \/ Fleet!TaskEnds(c, stays)
      PROVE  FleetInv'
  BY <1>1, TaskFleet, LaunchFleet, AnswerFleet, TaskEndsFleet
<1>2. ASSUME NEW i \in Fleet!Managers, NEW yes \in BOOLEAN, NEW marks \in BOOLEAN,
             \/ Fleet!StopsActive(i) \/ Fleet!Closes(i) \/ Fleet!SweepReads(i)
             \/ Fleet!SweepKills(i) \/ Fleet!Load(i)
             \/ Fleet!Gate(i, yes, marks) \/ Fleet!Tail(i, yes)
      PROVE  FleetInv'
  BY <1>2, StopsFleet, ClosesFleet, SweepReadsFleet, SweepKillsFleet, LoadFleet, GateFleet,
     TailFleet
<1>3. ASSUME NEW p \in Pis, NEW k \in Keys, NEW yes \in BOOLEAN, NEW tasks \in SUBSET Claudes,
             \/ Fleet!HasLeft(p) \/ Fleet!Crash(p) \/ Fleet!StopAll(p) \/ Fleet!Open(p, k, yes)
             \/ Fleet!Leave(p, yes) \/ Fleet!Ask(p, tasks)
             \/ \E c \in Claudes : Fleet!Stop(p, c)
      PROVE  FleetInv'
  BY <1>3, HasLeftFleet, CrashFleet, StopFleet, OpenFleet, LeaveFleet, AskFleet
<1>4. CASE Fleet!Told
  BY <1>4, AnswerFleet
<1>5. CASE \E c \in Claudes :
             \/ Fleet!NextTask(c) \/ Fleet!Ready(c) \/ Fleet!Launch(c) \/ Fleet!LaunchRefused(c)
             \/ Fleet!Answered(c) \/ \E stays \in BOOLEAN : Fleet!TaskEnds(c, stays)
  BY <1>1, <1>5
<1>6. CASE \E i \in Fleet!Managers :
             \/ Fleet!StopsActive(i) \/ Fleet!Closes(i) \/ Fleet!SweepReads(i)
             \/ Fleet!SweepKills(i) \/ Fleet!Load(i)
             \/ \E yes, marks \in BOOLEAN : Fleet!Gate(i, yes, marks)
             \/ \E comes \in BOOLEAN : Fleet!Tail(i, comes)
  BY <1>2, <1>6
<1>7. CASE \E p \in Pis :
             \/ Fleet!HasLeft(p) \/ Fleet!Crash(p) \/ Fleet!StopAll(p)
             \/ \E k \in Keys, anew \in BOOLEAN : Fleet!Open(p, k, anew)
             \/ \E quit \in BOOLEAN : Fleet!Leave(p, quit)
             \/ \E tasks \in SUBSET Claudes : Fleet!Ask(p, tasks)
             \/ \E c \in Claudes : Fleet!Stop(p, c)
  <2>1. Keys # {}
    BY DEF Sound, FleetParameters
  <2> QED BY <1>3, <1>7, <2>1
<1> QED BY <1>4, <1>5, <1>6, <1>7, Zenon DEF Fleet!Next

LEMMA FleetStarts ==
    ASSUME FleetParameters, Fleet!Init PROVE FleetInv
<1>1. /\ host = [p \in Pis |-> [at |-> "off", holder |-> 0, prev |-> 0]]
      /\ managers = [i \in Fleet!Managers |-> Fleet!Unmade]
      /\ shelf = [k \in Keys |-> [runs |-> {}, owner |-> 0]]
      /\ claude = [c \in Claudes |-> [at |-> "none", by |-> 0, task |-> FALSE, late |-> FALSE,
                                      lost |-> FALSE, swept |-> "no"]]
      /\ answer = Fleet!NoAnswer
  BY Zenon DEF Fleet!Init
<1>2. \A i \in Fleet!Managers :
         /\ managers[i].pi = 0 /\ managers[i].phase = "none" /\ managers[i].runs = {}
         /\ managers[i].done = {} /\ managers[i].shut = "no" /\ managers[i].active = {}
         /\ managers[i].peers = {}
  BY <1>1, UnmadeIs DEF MadeOf
<1>3. \A p \in Pis : host[p].at = "off" /\ host[p].holder = 0 /\ host[p].prev = 0
  BY <1>1
<1>4. FleetType
  <2>1. Fleet!Unmade \in Manager
    <3>1. PICK d : Fleet!Unmade =
            [key |-> d, pi |-> 0, phase |-> "none", runs |-> {}, done |-> {}, shut |-> "no",
             active |-> {}, orphans |-> {}, peers |-> {}]
          /\ d \in Keys
      BY Zenon DEF Fleet!Unmade, FleetParameters
    <3> QED BY <3>1 DEF Manager, Fleet!Phases
  <2>2. host \in [Pis -> FleetHost]
    BY <1>1 DEF FleetHost
  <2>3. shelf \in [Keys -> FleetFile]
    BY <1>1 DEF FleetFile
  <2>4. claude \in [Claudes -> FleetClaude]
    BY <1>1 DEF FleetClaude
  <2> QED BY <1>1, <2>1, <2>2, <2>3, <2>4 DEF FleetType
<1>5. HostInv
  <2>1. \A p \in Pis : ~Fleet!Running(p)
    BY <1>3 DEF Fleet!Running
  <2>2. \A i \in Fleet!Managers : ManagerFits(i)
    BY <1>2 DEF ManagerFits, Starting, Loaded, Owning, Made
  <2> QED BY <2>1, <2>2 DEF HostInv, HolderFits, HoldersApart, HoldersAlone
<1>6. \A c \in Claudes : claude[c].at = "none" /\ ~claude[c].task /\ claude[c].swept = "no"
  BY <1>1
<1>7. Recorded /\ Begun /\ Tended /\ OnFile
  BY <1>1, <1>2, <1>6 DEF Recorded, Begun, Tended, OnFile, Kept
<1>8. Spared /\ Quits
  BY <1>2, <1>3, <1>6 DEF Spared, Fleet!PeersAreSpared, Quits
<1>9. Fleet!GrantsArePicked
  BY <1>1 DEF Fleet!GrantsArePicked, Fleet!NoAnswer
<1> QED BY <1>4, <1>5, <1>7, <1>8, <1>9 DEF FleetInv

LEMMA FleetIsSound ==
    ASSUME Sound PROVE Fleet!FleetIsKept
<1>1. Fleet!ClaudesAreOnFile
  BY SoundIs DEF OnFile, Kept, KeyOf, Fleet!ClaudesAreOnFile
<1>2. Fleet!OneSupervisor
  BY SoundIs, OneSupervisorHolds
<1>3. Fleet!PeersAreSpared /\ Fleet!GrantsArePicked
  BY SoundIs DEF Spared
<1>4. Fleet!QuitEndsTheFleet
  BY SoundIs DEF Quits, Fleet!QuitEndsTheFleet
<1> QED BY <1>1, <1>2, <1>3, <1>4 DEF Fleet!FleetIsKept

(* For any number of processes, sessions, managers and Claudes, whichever  *)
(* crash and however switches, starts, sweeps, tasks and stops interleave. *)
LEMMA FleetKept == ASSUME FleetParameters PROVE Fleet!Spec => []Fleet!FleetIsKept
<1>1. Fleet!Init => FleetInv
  BY FleetStarts
<1>2. FleetInv /\ [Fleet!Next]_(Fleet!fleetVars) => FleetInv'
  <2>1. CASE UNCHANGED Fleet!fleetVars
    <3>1. UNCHANGED <<host, managers, shelf, claude, answer>>
      BY <2>1 DEF Fleet!fleetVars
    <3> SUFFICES ASSUME FleetInv PROVE FleetInv'
      OBVIOUS
    <3> QED BY <3>1 DEF FleetInv, FleetType, HostInv, HolderFits, ManagerFits, HoldersApart,
          HoldersAlone, Recorded, Begun, Tended, OnFile, Spared, Quits, Kept, Keeper, KeyOf,
          Launched, Made, Fleet!Running, Fleet!HolderOf, Fleet!TakenOver, Fleet!PeersAreSpared,
          Fleet!GrantsArePicked
  <2>2. CASE Fleet!Next
    BY <2>2, FleetStep DEF Sound
  <2> QED BY <2>1, <2>2
<1>3. FleetInv => Fleet!FleetIsKept
  BY FleetIsSound DEF Sound
<1> QED
  BY <1>1, <1>2, <1>3, PTL DEF Fleet!Spec
-----------------------------------------------------------------------------
(***************************************************************************)
(* The state file.  While sessions are open one at a time, what is on file *)
(* is in the memory of the one that is open, with its closeout; what it    *)
(* knows of its own time is what happened since the file was last seen.    *)
(***************************************************************************)
Fact == [kind : Desk!LogKinds, at : Nat, boot : Nat, saved : BOOLEAN]
Closeouts == {<<>>} \cup {<<Desk!Closeout(g, b)>> : g \in Landings, b \in Nat}
Memory == [facts : SUBSET Nat, answered : SUBSET Nat, closeout : Closeouts, seen : Nat,
           spent : Int, paid : Int]
Session == [at : {"closed", "idle", "changed", "written"}, boot : Nat, known : Memory,
            since : Nat, base : Int, paid : Int, temp : Memory]

DeskType ==
    /\ log \in Seq(Fact) /\ clock \in Nat /\ money \in [spent : Int, paid : Int]
    /\ stateFile \in [whole : BOOLEAN, saved : Memory] /\ helms \in [Desks -> Session]
    /\ opens \in [count : Nat, overlap : BOOLEAN]

(* A state of the project as it was written at some time.                  *)
OnDisk(m) ==
    /\ m.facts \subseteq Desk!Logged /\ m.seen <= clock
    /\ \A i \in m.facts : log[i].at <= m.seen
    /\ m.paid <= money.paid /\ m.paid - m.spent <= money.paid - money.spent

(* One session, whatever others there are.                                 *)
SessionFits(h) ==
    /\ h.known.facts \subseteq Desk!Logged /\ OnDisk(h.temp)
    /\ h.paid <= money.paid /\ h.paid - h.base <= money.paid - money.spent
    /\ h.boot <= opens.count /\ (h.at # "closed" => h.since < clock)

(* One session, when there is no other.                                    *)
AloneFits(h) ==
    h.at # "closed" =>
       /\ stateFile.saved.facts \subseteq h.known.facts
       /\ \A i \in h.known.facts : log[i].boot = h.boot <=> log[i].at > h.since
       /\ h.at = "written" => h.temp.facts = h.known.facts /\ h.temp.closeout = h.known.closeout
       /\ stateFile.saved.closeout # <<>> => h.known.closeout = stateFile.saved.closeout

Alone ==
    ~opens.overlap =>
       /\ \A i \in Desk!Logged : log[i].saved => i \in stateFile.saved.facts
       /\ \A p, q \in Desks : helms[p].at # "closed" /\ helms[q].at # "closed" => p = q
       /\ \A p \in Desks : AloneFits(helms[p])

DeskPast ==
    /\ stateFile.whole /\ OnDisk(stateFile.saved)
    /\ 0 <= money.spent /\ money.spent <= money.paid
    /\ \A i \in Desk!Logged : log[i].at <= clock /\ log[i].boot <= opens.count
    /\ \A p \in Desks : SessionFits(helms[p])

DeskInv == DeskType /\ DeskPast /\ Alone

-----------------------------------------------------------------------------
(* Time, the log, what was paid and forgotten, and the sessions opened     *)
(* only grow.                                                              *)
Grows ==
    /\ DeskType /\ DeskType' /\ clock <= clock' /\ money.paid <= money'.paid
    /\ money.paid - money.spent <= money'.paid - money'.spent
    /\ opens.count <= opens'.count /\ (opens.overlap => opens'.overlap)
    /\ Desk!Logged \subseteq Desk!Logged'
    /\ \A i \in Desk!Logged : log'[i].at = log[i].at /\ log'[i].boot = log[i].boot

LEMMA LoggedIs == ASSUME DeskType PROVE /\ Len(log) \in Nat /\ Desk!Logged = DOMAIN log
                                        /\ \A i \in Desk!Logged : i \in Nat /\ log[i] \in Fact
<1>1. log \in Seq(Fact)
  BY DEF DeskType
<1>2. Len(log) \in Nat /\ DOMAIN log = 1 .. Len(log) /\ log \in [1 .. Len(log) -> Fact]
  BY <1>1, LenProperties
<1> QED BY <1>2 DEF Desk!Logged

LEMMA DiskGrows == ASSUME Grows, NEW m \in Memory, OnDisk(m) PROVE OnDisk(m)'
<1>1. /\ m.facts \subseteq Desk!Logged' /\ m.seen \in Nat /\ clock \in Nat /\ clock' \in Nat
      /\ m.paid \in Int /\ m.spent \in Int
      /\ money \in [spent : Int, paid : Int] /\ money' \in [spent : Int, paid : Int]
  BY DEF Grows, OnDisk, Memory, DeskType
<1>2. m.seen <= clock'
  BY <1>1 DEF Grows, OnDisk
<1>3. \A i \in m.facts : log'[i].at <= m.seen
  BY DEF Grows, OnDisk
<1>4. m.paid <= money'.paid /\ m.paid - m.spent <= money'.paid - money'.spent
  BY <1>1 DEF Grows, OnDisk
<1> QED BY <1>1, <1>2, <1>3, <1>4 DEF OnDisk

LEMMA SessionGrows == ASSUME Grows, NEW h \in Session, SessionFits(h) PROVE SessionFits(h)'
<1>1. h.temp \in Memory /\ OnDisk(h.temp) /\ h.known.facts \subseteq Desk!Logged
  BY DEF SessionFits, Session
<1>2. OnDisk(h.temp)'
  BY <1>1, DiskGrows
<1>3. /\ h.known.facts \subseteq Desk!Logged' /\ h.since \in Nat /\ clock \in Nat /\ clock' \in Nat
      /\ h.paid \in Int /\ h.base \in Int /\ h.boot \in Nat
      /\ money \in [spent : Int, paid : Int] /\ money' \in [spent : Int, paid : Int]
      /\ opens.count \in Nat /\ opens'.count \in Nat
  BY <1>1 DEF Grows, Session, DeskType
<1>4. /\ h.paid <= money'.paid /\ h.paid - h.base <= money'.paid - money'.spent
      /\ h.boot <= opens'.count /\ (h.at # "closed" => h.since < clock')
  BY <1>3 DEF Grows, SessionFits
<1> QED BY <1>2, <1>3, <1>4 DEF SessionFits

LEMMA AloneGrows ==
    ASSUME Grows, stateFile' = stateFile, NEW h \in Session, SessionFits(h), AloneFits(h)
    PROVE  AloneFits(h)'
<1>1. \A i \in h.known.facts : log'[i].at = log[i].at /\ log'[i].boot = log[i].boot
  BY DEF Grows, SessionFits
<1> QED BY <1>1 DEF AloneFits

(* A step of session p that leaves the file alone.                         *)
LEMMA OneDeskMoves ==
    ASSUME DeskInv, Grows, stateFile' = stateFile, NEW p \in Desks, NEW v,
           helms' = [helms EXCEPT ![p] = v], SessionFits(v)',
           ~opens'.overlap => AloneFits(v)',
           v.at # "closed" /\ ~opens'.overlap =>
              \A q \in Desks \ {p} : helms[q].at = "closed",
           0 <= money'.spent /\ money'.spent <= money'.paid,
           \A i \in Desk!Logged' : log'[i].at <= clock' /\ log'[i].boot <= opens'.count,
           \A i \in Desk!Logged' : log'[i].saved => i \in Desk!Logged /\ log[i].saved
    PROVE  DeskInv'
<1>1. /\ helms \in [Desks -> Session] /\ DeskType' /\ stateFile.saved \in Memory
      /\ \A q \in Desks : helms'[q] = IF q = p THEN v ELSE helms[q]
  BY DEF DeskInv, DeskType, Grows
<1>2. ASSUME NEW q \in Desks, NEW w, w = helms'[q]
      PROVE  SessionFits(w)' /\ (~opens'.overlap => AloneFits(w)')
  <2>1. CASE q = p
    BY <1>1, <1>2, <2>1
  <2>2. CASE q # p
    <3>1. w = helms[q] /\ w \in Session
      BY <1>1, <1>2, <2>2
    <3>2. SessionFits(w) /\ (~opens.overlap => AloneFits(w))
      BY <3>1 DEF DeskInv, DeskPast, Alone
    <3> QED BY <3>1, <3>2, SessionGrows, AloneGrows DEF Grows
  <2> QED BY <2>1, <2>2
<1>3. ASSUME NEW q \in Desks
      PROVE  SessionFits(helms[q])' /\ (~opens'.overlap => AloneFits(helms[q])')
  <2>1. PICK w : w = helms'[q]
    OBVIOUS
  <2>2. SessionFits(w)' /\ (~opens'.overlap => AloneFits(w)')
    BY <1>2, <2>1
  <2> QED BY <2>1, <2>2 DEF SessionFits, AloneFits, OnDisk
<1>4. OnDisk(stateFile.saved)'
  <2>1. PICK m \in Memory : m = stateFile.saved /\ m = stateFile'.saved
    BY <1>1
  <2>2. OnDisk(m)'
    BY <2>1, DiskGrows DEF DeskInv, DeskPast
  <2> QED BY <2>1, <2>2 DEF OnDisk
<1>5. DeskPast'
  BY <1>3, <1>4 DEF DeskPast, DeskInv
<1>6. Alone'
  <2> SUFFICES ASSUME ~opens'.overlap PROVE Alone'
    BY DEF Alone
  <2>1. \A i \in Desk!Logged' : log'[i].saved => i \in stateFile'.saved.facts
    BY DEF DeskInv, Alone, Grows
  <2>2. \A q, r \in Desks : helms'[q].at # "closed" /\ helms'[r].at # "closed" => q = r
    BY <1>1 DEF DeskInv, Alone, Grows
  <2> QED BY <1>3, <2>1, <2>2 DEF Alone
<1> QED BY <1>1, <1>5, <1>6 DEF DeskInv

(* A step that changes one session and its memory alone.                   *)
LEMMA StillGrows ==
    ASSUME DeskInv, helms' \in [Desks -> Session], UNCHANGED <<log, clock, stateFile, opens>>,
           money' \in [spent : Int, paid : Int], money.paid <= money'.paid,
           money.paid - money.spent <= money'.paid - money'.spent
    PROVE  Grows
<1>1. log' = log /\ clock' = clock /\ stateFile' = stateFile /\ opens' = opens
  OBVIOUS
<1>2. DeskType /\ DeskType'
  BY <1>1 DEF DeskInv, DeskType
<1>3. clock \in Nat /\ opens.count \in Nat
  BY <1>2 DEF DeskType
<1> QED BY <1>1, <1>2, <1>3 DEF Grows, Desk!Logged

LEMMA SessionMoves ==
    ASSUME DeskInv, NEW p \in Desks, NEW v \in Session,
           helms' = [helms EXCEPT ![p] = v], UNCHANGED <<log, clock, stateFile, opens>>,
           money' \in [spent : Int, paid : Int], money.paid <= money'.paid,
           money.paid - money.spent <= money'.paid - money'.spent,
           0 <= money'.spent, money'.spent <= money'.paid,
           helms[p].at # "closed", SessionFits(v)', ~opens.overlap => AloneFits(v)
    PROVE  DeskInv'
<1>1. log' = log /\ clock' = clock /\ stateFile' = stateFile /\ opens' = opens
  OBVIOUS
<1>2. helms \in [Desks -> Session] /\ helms' \in [Desks -> Session]
  BY DEF DeskInv, DeskType
<1>3. Grows
  BY <1>1, <1>2, StillGrows
<1>4. ~opens'.overlap => AloneFits(v)'
  BY <1>1 DEF AloneFits
<1>5. ~opens'.overlap => \A q \in Desks \ {p} : helms[q].at = "closed"
  BY <1>1 DEF DeskInv, Alone
<1>6. /\ \A i \in Desk!Logged' : log'[i].at <= clock' /\ log'[i].boot <= opens'.count
      /\ \A i \in Desk!Logged' : log'[i].saved => i \in Desk!Logged /\ log[i].saved
  BY <1>1 DEF DeskInv, DeskPast, Desk!Logged
<1> QED BY <1>1, <1>3, <1>4, <1>5, <1>6, OneDeskMoves

(* What holds of a session that is open.                                   *)
LEMMA DeskIs ==
    ASSUME DeskInv, NEW p \in Desks
    PROVE  /\ helms[p] \in Session /\ SessionFits(helms[p])
           /\ ~opens.overlap => AloneFits(helms[p])
           /\ money \in [spent : Int, paid : Int] /\ 0 <= money.spent
           /\ money.spent <= money.paid /\ clock \in Nat /\ opens.count \in Nat
           /\ OnDisk(stateFile.saved) /\ stateFile.saved \in Memory
           /\ stateFile.whole /\ stateFile \in [whole : BOOLEAN, saved : Memory]
BY DEF DeskInv, DeskType, DeskPast, Alone

(* The session has something to save: its memory changes, of the account   *)
(* the step says what.                                                     *)
LEMMA KnowsMore ==
    ASSUME DeskInv, NEW p \in Desks, NEW mem \in Memory, Desk!Knows(p, mem),
           helms[p].at = "idle", UNCHANGED <<log, clock, stateFile, opens>>,
           mem.facts = helms[p].known.facts,
           mem.closeout = helms[p].known.closeout \/ helms[p].known.closeout = <<>>,
           money' \in [spent : Int, paid : Int], money.paid <= money'.paid,
           money.paid - money.spent <= money'.paid - money'.spent,
           0 <= money'.spent, money'.spent <= money'.paid
    PROVE  DeskInv'
<1>0. PICK v : v = [helms[p] EXCEPT !.at = "changed", !.known = mem]
  OBVIOUS
<1>1. helms[p] \in Session /\ helms \in [Desks -> Session]
  BY DEF DeskInv, DeskType
<1>2. /\ v \in Session /\ v.at = "changed" /\ v.known = mem /\ v.temp = helms[p].temp
      /\ v.paid = helms[p].paid /\ v.base = helms[p].base /\ v.boot = helms[p].boot
      /\ v.since = helms[p].since
  BY <1>0, <1>1 DEF Session
<1>3. helms' = [helms EXCEPT ![p] = v]
  BY <1>0, <1>1 DEF Desk!Knows
<1>4. helms' \in [Desks -> Session]
  BY <1>1, <1>2, <1>3
<1>5. Grows
  BY <1>4, StillGrows
<1>6. SessionFits(v)
  BY <1>2, DeskIs DEF SessionFits
<1>7. SessionFits(v)'
  BY <1>2, <1>5, <1>6, SessionGrows
<1>8. ~opens.overlap => AloneFits(v)
  <2> SUFFICES ASSUME ~opens.overlap PROVE AloneFits(v)
    OBVIOUS
  <2>1. AloneFits(helms[p])
    BY DeskIs
  <2> QED BY <1>2, <2>1 DEF AloneFits
<1>9. helms[p].at # "closed"
  OBVIOUS
<1> QED BY <1>2, <1>3, <1>7, <1>8, <1>9, SessionMoves

LEMMA WriteDesk == ASSUME DeskInv, NEW p \in Desks, Desk!Write(p) PROVE DeskInv'
<1>a. PICK t : t = [helms[p].known EXCEPT !.seen = clock, !.spent = money.spent,
                                          !.paid = money.paid]
  OBVIOUS
<1>b. PICK v : v = [helms[p] EXCEPT !.at = "written", !.temp = t]
  OBVIOUS
<1>1. /\ helms[p].at = "changed" /\ helms' = [helms EXCEPT ![p] = v]
      /\ log' = log /\ clock' = clock /\ stateFile' = stateFile /\ opens' = opens /\ money' = money
  <2>1. helms \in [Desks -> Session]
    BY DEF DeskInv, DeskType
  <2> QED BY <1>a, <1>b, <2>1 DEF Desk!Write
<1>2. helms[p] \in Session /\ helms[p].known \in Memory
  BY DeskIs DEF Session
<1>3. /\ t \in Memory /\ t.facts = helms[p].known.facts /\ t.closeout = helms[p].known.closeout
      /\ t.seen = clock /\ t.spent = money.spent /\ t.paid = money.paid
  BY <1>2, <1>a, DeskIs DEF Memory
<1>4. /\ v \in Session /\ v.at = "written" /\ v.known = helms[p].known /\ v.temp = t
      /\ v.paid = helms[p].paid /\ v.base = helms[p].base /\ v.boot = helms[p].boot
      /\ v.since = helms[p].since
  BY <1>2, <1>3, <1>b DEF Session
<1>5. OnDisk(t)
  <2>1. t.facts \subseteq Desk!Logged
    BY <1>3, DeskIs DEF SessionFits
  <2>2. \A i \in t.facts : log[i].at <= t.seen
    BY <1>3, <2>1 DEF DeskInv, DeskPast
  <2>3. t.seen <= clock /\ t.paid <= money.paid /\ t.paid - t.spent <= money.paid - money.spent
    BY <1>3, DeskIs
  <2> QED BY <2>1, <2>2, <2>3 DEF OnDisk
<1>6. SessionFits(v)
  BY <1>1, <1>4, <1>5, DeskIs DEF SessionFits
<1>7. SessionFits(v)'
  BY <1>1, <1>6 DEF SessionFits, OnDisk, Desk!Logged
<1>8. ~opens.overlap => AloneFits(v)
  <2> SUFFICES ASSUME ~opens.overlap PROVE AloneFits(v)
    OBVIOUS
  <2>1. AloneFits(helms[p])
    BY DeskIs
  <2> QED BY <1>1, <1>3, <1>4, <2>1 DEF AloneFits
<1>9. /\ money' \in [spent : Int, paid : Int] /\ 0 <= money'.spent /\ money'.spent <= money'.paid
      /\ money.paid <= money'.paid /\ money.paid - money.spent <= money'.paid - money'.spent
  BY <1>1, DeskIs
<1>10. UNCHANGED <<log, clock, stateFile, opens>> /\ helms[p].at # "closed"
  BY <1>1
<1> QED BY <1>1, <1>4, <1>7, <1>8, <1>9, <1>10, SessionMoves

LEMMA BlankFits ==
    ASSUME DeskInv
    PROVE  /\ Desk!Blank \in Memory /\ Desk!Closed \in Session /\ OnDisk(Desk!Blank)
           /\ SessionFits(Desk!Closed) /\ AloneFits(Desk!Closed)
<1>1. Desk!Blank \in Memory /\ Desk!Closed \in Session
  BY DEF Desk!Blank, Desk!Closed, Memory, Session, Closeouts
<1>2. OnDisk(Desk!Blank)
  BY DeskIs DEF OnDisk, Desk!Blank, DeskInv, DeskType, DeskPast
<1>3. SessionFits(Desk!Closed)
  BY <1>2 DEF SessionFits, Desk!Closed, Desk!Blank, DeskInv, DeskType, DeskPast
<1> QED BY <1>1, <1>2, <1>3 DEF AloneFits, Desk!Closed

LEMMA EndsDesk == ASSUME DeskInv, NEW p \in Desks, Desk!Ends(p) PROVE DeskInv'
<1>0. PICK v : v = Desk!Closed
  OBVIOUS
<1>1. /\ helms[p].at # "closed" /\ helms' = [helms EXCEPT ![p] = v]
      /\ log' = log /\ clock' = clock /\ stateFile' = stateFile /\ opens' = opens /\ money' = money
  BY <1>0 DEF Desk!Ends
<1>2. v \in Session /\ SessionFits(v) /\ AloneFits(v)
  BY <1>0, BlankFits
<1>3. SessionFits(v)'
  BY <1>1, <1>2 DEF SessionFits, OnDisk, Desk!Logged
<1>4. /\ money' \in [spent : Int, paid : Int] /\ 0 <= money'.spent /\ money'.spent <= money'.paid
      /\ money.paid <= money'.paid /\ money.paid - money.spent <= money'.paid - money'.spent
  BY <1>1, DeskIs
<1>5. UNCHANGED <<log, clock, stateFile, opens>>
  BY <1>1
<1> QED BY <1>1, <1>2, <1>3, <1>4, <1>5, SessionMoves

LEMMA MoneyDesk ==
    ASSUME DeskInv, NEW p \in Desks, Desk!Spends(p) \/ Desk!Forgets(p) PROVE DeskInv'
<1>0. PICK mem : mem = helms[p].known
  OBVIOUS
<1>1. /\ helms[p].at = "idle" /\ UNCHANGED <<log, clock, stateFile, opens>>
      /\ Desk!Knows(p, mem)
  BY <1>0 DEF Desk!Spends, Desk!Forgets
<1>2. /\ money' \in [spent : Int, paid : Int] /\ 0 <= money'.spent /\ money'.spent <= money'.paid
      /\ money.paid <= money'.paid /\ money.paid - money.spent <= money'.paid - money'.spent
  BY DeskIs DEF Desk!Spends, Desk!Forgets
<1>3. mem \in Memory
  BY <1>0, DeskIs DEF Session
<1> QED BY <1>0, <1>1, <1>2, <1>3, KnowsMore

LEMMA AnswerDesk ==
    ASSUME DeskInv, NEW p \in Desks, NEW at, Desk!AnswerFollowUp(p, at) PROVE DeskInv'
<1>0. PICK these : these = {i \in helms[p].known.facts : log[i].kind = "ask" /\ log[i].at = at}
  OBVIOUS
<1>1. PICK mem : mem = [helms[p].known EXCEPT !.answered = @ \cup these]
  OBVIOUS
<1>2. /\ helms[p].at = "idle" /\ Desk!Knows(p, mem)
      /\ UNCHANGED <<log, clock, stateFile, opens>> /\ money' = money
  BY <1>0, <1>1 DEF Desk!AnswerFollowUp
<1>3. helms[p].known \in Memory
  BY DeskIs DEF Session
<1>4. these \subseteq Nat
  BY <1>0, <1>3 DEF Memory
<1>5. /\ mem \in Memory /\ mem.facts = helms[p].known.facts
      /\ mem.closeout = helms[p].known.closeout
  BY <1>1, <1>3, <1>4 DEF Memory
<1>6. /\ money' \in [spent : Int, paid : Int] /\ 0 <= money'.spent /\ money'.spent <= money'.paid
      /\ money.paid <= money'.paid /\ money.paid - money.spent <= money'.paid - money'.spent
  BY <1>2, DeskIs
<1> QED BY <1>2, <1>5, <1>6, KnowsMore

LEMMA LandsDesk ==
    ASSUME DeskInv, NEW p \in Desks, NEW goal \in Landings, Desk!Lands(p, goal) PROVE DeskInv'
<1>0. PICK mem : mem = [helms[p].known EXCEPT !.closeout =
                                              <<Desk!Closeout(goal, helms[p].boot)>>]
  OBVIOUS
<1>1. /\ helms[p].at = "idle" /\ helms[p].known.closeout = <<>> /\ Desk!Knows(p, mem)
      /\ UNCHANGED <<log, clock, stateFile, opens>> /\ money' = money
  BY <1>0 DEF Desk!Lands
<1>2. helms[p].known \in Memory /\ helms[p].boot \in Nat
  BY DeskIs DEF Session
<1>3. <<Desk!Closeout(goal, helms[p].boot)>> \in Closeouts
  BY <1>2 DEF Closeouts
<1>4. mem \in Memory /\ mem.facts = helms[p].known.facts
  BY <1>0, <1>2, <1>3 DEF Memory
<1>5. /\ money' \in [spent : Int, paid : Int] /\ 0 <= money'.spent /\ money'.spent <= money'.paid
      /\ money.paid <= money'.paid /\ money.paid - money.spent <= money'.paid - money'.spent
  BY <1>1, DeskIs
<1> QED BY <1>1, <1>4, <1>5, KnowsMore

(* A new session reads what is on file.                                    *)
LEMMA OpenDesk == ASSUME DeskInv, NEW p \in Desks, Desk!Open(p) PROVE DeskInv'
<1>0. PICK v : v = [Desk!Closed EXCEPT !.at = "changed", !.boot = opens.count + 1,
                       !.known = stateFile.saved, !.since = stateFile.saved.seen,
                       !.base = stateFile.saved.spent, !.paid = stateFile.saved.paid]
  OBVIOUS
<1>1. /\ helms[p].at = "closed" /\ clock > stateFile.saved.seen /\ helms' = [helms EXCEPT ![p] = v]
      /\ log' = log /\ clock' = clock /\ stateFile' = stateFile /\ money' = money
      /\ opens' = [count |-> opens.count + 1,
                   overlap |-> opens.overlap \/ \E q \in Desks : helms[q].at # "closed"]
  <2>1. stateFile.whole
    BY DeskIs
  <2>2. Desk!Loaded = stateFile.saved
    BY <2>1 DEF Desk!Loaded
  <2> QED BY <1>0, <2>2, Zenon DEF Desk!Open
<1>2. /\ opens.count \in Nat /\ opens.overlap \in BOOLEAN /\ helms \in [Desks -> Session]
      /\ stateFile.saved \in Memory /\ Desk!Closed \in Session /\ Desk!Blank \in Memory
      /\ OnDisk(Desk!Blank) /\ OnDisk(stateFile.saved) /\ clock \in Nat
      /\ money \in [spent : Int, paid : Int] /\ 0 <= money.spent /\ money.spent <= money.paid
  BY BlankFits, DeskIs DEF DeskInv, DeskType
<1>3. /\ v.at = "changed" /\ v.boot = opens.count + 1 /\ v.known = stateFile.saved
      /\ v.since = stateFile.saved.seen /\ v.base = stateFile.saved.spent
      /\ v.paid = stateFile.saved.paid /\ v.temp = Desk!Blank /\ v \in Session
  <2>1. stateFile.saved.seen \in Nat /\ stateFile.saved.spent \in Int /\ stateFile.saved.paid \in Int
    BY <1>2 DEF Memory
  <2>2. /\ v.at = "changed" /\ v.boot = opens.count + 1 /\ v.known = stateFile.saved
        /\ v.since = stateFile.saved.seen /\ v.base = stateFile.saved.spent
        /\ v.paid = stateFile.saved.paid /\ v.temp = Desk!Blank
    BY <1>0 DEF Desk!Closed
  <2>3. v \in Session
    <3>1. PICK b \in Nat, k \in Memory, n \in Nat, c \in Int, d \in Int :
             /\ b = opens.count + 1 /\ k = stateFile.saved /\ n = stateFile.saved.seen
             /\ c = stateFile.saved.spent /\ d = stateFile.saved.paid
      BY <1>2, <2>1
    <3>2. v = [Desk!Closed EXCEPT !.at = "changed", !.boot = b, !.known = k, !.since = n,
                                  !.base = c, !.paid = d]
      BY <1>0, <3>1
    <3> QED BY <1>2, <3>2 DEF Session
  <2> QED BY <2>2, <2>3
<1>4. opens' \in [count : Nat, overlap : BOOLEAN] /\ opens'.count = opens.count + 1
      /\ (~opens'.overlap => ~opens.overlap /\ \A q \in Desks : helms[q].at = "closed")
  <2>1. opens'.count = opens.count + 1
        /\ opens'.overlap = (opens.overlap \/ \E q \in Desks : helms[q].at # "closed")
    BY <1>1
  <2>2. opens'.overlap \in BOOLEAN
    BY <2>1
  <2>3. opens' \in [count : Nat, overlap : BOOLEAN]
    BY <1>1, <1>2, <2>1, <2>2
  <2> QED BY <2>1, <2>3
<1>5. Grows
  <2>1. DeskType /\ DeskType'
    BY <1>1, <1>2, <1>3, <1>4 DEF DeskInv, DeskType
  <2> QED BY <2>1, <1>1, <1>2, <1>4 DEF Grows, Desk!Logged
<1>6. SessionFits(v)'
  <2>1. v.known.facts \subseteq Desk!Logged' /\ v.since < clock'
    BY <1>1, <1>2, <1>3 DEF OnDisk, Desk!Logged, Memory
  <2>2. OnDisk(v.temp)'
    BY <1>1, <1>2, <1>3 DEF OnDisk, Desk!Logged
  <2>3. v.paid <= money'.paid /\ v.paid - v.base <= money'.paid - money'.spent
    BY <1>1, <1>2, <1>3 DEF OnDisk
  <2> QED BY <2>1, <2>2, <2>3, <1>2, <1>3, <1>4 DEF SessionFits
<1>7. ASSUME ~opens'.overlap PROVE AloneFits(v)'
  <2>1. \A i \in v.known.facts : log'[i].boot # v.boot /\ ~(log'[i].at > v.since)
    <3>1. \A i \in v.known.facts : i \in Desk!Logged /\ log[i].at <= v.since
      BY <1>2, <1>3 DEF OnDisk
    <3>2. \A i \in Desk!Logged : log[i].boot <= opens.count /\ log[i] \in Fact
      BY LoggedIs DEF DeskInv, DeskPast
    <3> QED BY <3>1, <3>2, <1>1, <1>2, <1>3 DEF Fact, Memory
  <2> QED BY <2>1, <1>1, <1>3 DEF AloneFits
<1>8. /\ \A i \in Desk!Logged' : log'[i].at <= clock' /\ log'[i].boot <= opens'.count
      /\ \A i \in Desk!Logged' : log'[i].saved => i \in Desk!Logged /\ log[i].saved
  <2>1. \A i \in Desk!Logged : log[i].at <= clock /\ log[i].boot <= opens.count /\ log[i] \in Fact
    BY LoggedIs DEF DeskInv, DeskPast
  <2> QED BY <1>1, <1>2, <1>4, <2>1 DEF Desk!Logged, Fact
<1>9. 0 <= money'.spent /\ money'.spent <= money'.paid
  BY <1>1, <1>2
<1> QED BY <1>1, <1>4, <1>5, <1>6, <1>7, <1>8, <1>9, OneDeskMoves

(* What happens is behind the time the project was last seen.              *)
LEMMA HappensDesk ==
    ASSUME DeskInv, NEW p \in Desks, NEW kind \in Desk!LogKinds, Desk!Happens(p, kind)
    PROVE  DeskInv'
<1>0. PICK n : n = Len(log) + 1
  OBVIOUS
<1>a. PICK mem : mem = [helms[p].known EXCEPT !.facts = @ \cup {n}]
  OBVIOUS
<1>b. PICK v : v = [helms[p] EXCEPT !.at = "changed", !.known = mem]
  OBVIOUS
<1>c. PICK fact : fact = [kind |-> kind, at |-> clock, boot |-> helms[p].boot, saved |-> FALSE]
  OBVIOUS
<1>1. /\ helms[p].at = "idle" /\ log' = Append(log, fact)
      /\ clock' = clock /\ stateFile' = stateFile /\ money' = money /\ opens' = opens
      /\ Desk!Knows(p, mem)
  BY <1>0, <1>a, <1>c DEF Desk!Happens
<1>2. /\ helms[p] \in Session /\ helms[p].known \in Memory /\ helms \in [Desks -> Session]
      /\ SessionFits(helms[p]) /\ clock \in Nat /\ opens.count \in Nat /\ log \in Seq(Fact)
  BY DeskIs DEF Session, DeskInv, DeskType
<1>3. fact \in Fact
  BY <1>2, <1>c DEF Fact, Session
<1>4. /\ log' \in Seq(Fact) /\ Len(log) \in Nat /\ Len(log') = n /\ n \in Nat /\ log'[n] = fact
      /\ \A i \in 1 .. Len(log) : log'[i] = log[i]
  BY <1>0, <1>1, <1>2, <1>3, AppendProperties, LenProperties
<1>5. Desk!Logged' = Desk!Logged \cup {n} /\ n \notin Desk!Logged
  BY <1>0, <1>4 DEF Desk!Logged
<1>6. /\ mem \in Memory /\ mem.facts = helms[p].known.facts \cup {n}
      /\ mem.closeout = helms[p].known.closeout
  BY <1>2, <1>4, <1>a DEF Memory
<1>7. /\ v \in Session /\ v.at = "changed" /\ v.known = mem /\ v.temp = helms[p].temp
      /\ v.paid = helms[p].paid /\ v.base = helms[p].base /\ v.boot = helms[p].boot
      /\ v.since = helms[p].since /\ helms' = [helms EXCEPT ![p] = v]
  <2>1. helms' = [helms EXCEPT ![p] = v]
    BY <1>b, <1>1, <1>2 DEF Desk!Knows
  <2> QED BY <1>2, <1>6, <1>b, <2>1 DEF Session
<1>8. Grows
  <2>1. helms' \in [Desks -> Session]
    BY <1>2, <1>7
  <2>2. DeskType /\ DeskType'
    BY <1>1, <1>4, <2>1 DEF DeskInv, DeskType
  <2>3. \A i \in Desk!Logged : log'[i].at = log[i].at /\ log'[i].boot = log[i].boot
    BY <1>4 DEF Desk!Logged
  <2>4. /\ money.paid <= money'.paid /\ money.paid - money.spent <= money'.paid - money'.spent
        /\ clock <= clock' /\ opens.count <= opens'.count /\ (opens.overlap => opens'.overlap)
    BY <1>1, DeskIs
  <2>5. Desk!Logged \subseteq Desk!Logged'
    BY <1>5
  <2> QED BY <2>2, <2>3, <2>4, <2>5 DEF Grows
<1>9. SessionFits(v)'
  <2>1. PICK h \in Session : h = helms[p] /\ SessionFits(h)
    BY <1>2
  <2>2. SessionFits(h)'
    BY <1>8, <2>1, SessionGrows
  <2>3. v.known.facts \subseteq Desk!Logged'
    BY <1>5, <1>6, <1>7, <2>1 DEF SessionFits
  <2> QED BY <1>1, <1>7, <2>1, <2>2, <2>3 DEF SessionFits
<1>10. \A i \in Desk!Logged : i \in 1 .. Len(log) /\ log'[i] = log[i] /\ log[i].at <= clock
                              /\ log[i].boot <= opens.count /\ log[i] \in Fact
  BY <1>4, LoggedIs DEF DeskInv, DeskPast, Desk!Logged
<1>11. ASSUME ~opens'.overlap PROVE AloneFits(v)'
  <2>1. ~opens.overlap /\ AloneFits(helms[p])
    BY <1>1, <1>11, DeskIs
  <2>2. fact.boot = v.boot /\ fact.at > v.since
    BY <1>1, <1>2, <1>7, <1>c DEF SessionFits, Session
  <2>3. \A i \in helms[p].known.facts :
           log'[i] = log[i] /\ (log[i].boot = v.boot <=> log[i].at > v.since)
    BY <1>1, <1>2, <1>7, <1>10, <2>1 DEF SessionFits, AloneFits
  <2>4. \A i \in v.known.facts : log'[i].boot = v.boot <=> log'[i].at > v.since
    BY <1>4, <1>6, <1>7, <2>2, <2>3
  <2>5. /\ stateFile.saved.facts \subseteq v.known.facts
        /\ stateFile.saved.closeout # <<>> => v.known.closeout = stateFile.saved.closeout
    BY <1>1, <1>6, <1>7, <2>1 DEF AloneFits
  <2> QED BY <1>1, <1>7, <2>4, <2>5 DEF AloneFits
<1>12. /\ \A i \in Desk!Logged' : log'[i].at <= clock' /\ log'[i].boot <= opens'.count
       /\ \A i \in Desk!Logged' : log'[i].saved => i \in Desk!Logged /\ log[i].saved
  <2>1. fact.at <= clock /\ fact.boot <= opens.count /\ ~fact.saved
    BY <1>2, <1>c DEF SessionFits, Session
  <2> QED BY <1>1, <1>4, <1>5, <1>10, <2>1
<1>13. v.at # "closed" /\ ~opens'.overlap => \A q \in Desks \ {p} : helms[q].at = "closed"
  BY <1>1 DEF DeskInv, Alone
<1>14. 0 <= money'.spent /\ money'.spent <= money'.paid
  BY <1>1, DeskIs
<1> QED BY <1>1, <1>7, <1>8, <1>9, <1>11, <1>12, <1>13, <1>14, OneDeskMoves

(* A save ends: what the session knows is on file.                         *)
LEMMA RenameDesk == ASSUME DeskInv, NEW p \in Desks, Desk!Rename(p) PROVE DeskInv'
<1>0. PICK m : m = helms[p].temp
  OBVIOUS
<1>a. PICK v : v = [helms[p] EXCEPT !.at = "idle", !.temp = Desk!Blank]
  OBVIOUS
<1>1. /\ helms[p].at = "written" /\ stateFile' = [whole |-> TRUE, saved |-> m]
      /\ log' = [i \in Desk!Logged |-> [log[i] EXCEPT !.saved = @ \/ i \in m.facts]]
      /\ clock' = clock /\ money' = money /\ opens' = opens
  BY <1>0, Zenon DEF Desk!Rename
<1>2. /\ helms[p] \in Session /\ helms \in [Desks -> Session] /\ m \in Memory /\ OnDisk(m)
      /\ SessionFits(helms[p]) /\ OnDisk(Desk!Blank) /\ Desk!Blank \in Memory
  BY <1>0, BlankFits, DeskIs DEF Session, SessionFits, DeskInv, DeskType
<1>3. helms' = [helms EXCEPT ![p] = v]
  BY <1>2, <1>a DEF Desk!Rename
<1>4. /\ v \in Session /\ v.at = "idle" /\ v.known = helms[p].known /\ v.temp = Desk!Blank
      /\ v.paid = helms[p].paid /\ v.base = helms[p].base /\ v.boot = helms[p].boot
      /\ v.since = helms[p].since
  BY <1>2, <1>a DEF Session
<1>5. \A i \in Desk!Logged :
         /\ log'[i].at = log[i].at /\ log'[i].boot = log[i].boot /\ log'[i] \in Fact
         /\ log'[i].saved => log[i].saved \/ i \in m.facts
  <2> SUFFICES ASSUME NEW i \in Desk!Logged
               PROVE  /\ log'[i].at = log[i].at /\ log'[i].boot = log[i].boot /\ log'[i] \in Fact
                      /\ log'[i].saved => log[i].saved \/ i \in m.facts
    OBVIOUS
  <2>1. log'[i] = [log[i] EXCEPT !.saved = @ \/ i \in m.facts] /\ log[i] \in Fact
    BY <1>1, LoggedIs DEF DeskInv
  <2> QED BY <2>1 DEF Fact
<1>6. log' \in Seq(Fact) /\ Desk!Logged' = Desk!Logged
  <2>1. Len(log) \in Nat /\ Desk!Logged = 1 .. Len(log)
    BY LoggedIs DEF DeskInv, Desk!Logged
  <2>2. log' \in [1 .. Len(log) -> Fact]
    BY <1>1, <1>5, <2>1
  <2>3. log' \in Seq(Fact) /\ Len(log') = Len(log)
    BY <2>1, <2>2
  <2> QED BY <2>1, <2>3 DEF Desk!Logged
<1>7. Grows
  <2>1. DeskType
    BY DEF DeskInv
  <2>2. helms' \in [Desks -> Session] /\ stateFile' \in [whole : BOOLEAN, saved : Memory]
    BY <1>1, <1>2, <1>3, <1>4
  <2>3. DeskType'
    BY <1>1, <1>6, <2>1, <2>2 DEF DeskType
  <2>4. clock \in Nat /\ money \in [spent : Int, paid : Int] /\ opens.count \in Nat
    BY DeskIs
  <2> QED BY <1>1, <1>5, <1>6, <2>1, <2>3, <2>4 DEF Grows
<1>8. SessionFits(v)'
  <2>1. PICK h \in Session : h = helms[p] /\ SessionFits(h)
    BY <1>2
  <2>2. SessionFits(h)'
    BY <1>7, <2>1, SessionGrows
  <2>3. OnDisk(v.temp)'
    <3>1. PICK b \in Memory : b = Desk!Blank /\ b = v.temp
      BY <1>2, <1>4
    <3>2. OnDisk(b)'
      BY <1>2, <1>7, <3>1, DiskGrows
    <3> QED BY <3>1, <3>2 DEF OnDisk
  <2> QED BY <1>1, <1>4, <2>1, <2>2, <2>3 DEF SessionFits
<1>9. ASSUME NEW q \in Desks PROVE SessionFits(helms[q])'
  <2>1. PICK w \in Session : w = helms'[q] /\ (q = p => w = v) /\ (q # p => w = helms[q])
    BY <1>2, <1>3, <1>4
  <2>2. SessionFits(w)'
    BY <1>7, <1>8, <2>1, DeskIs, SessionGrows
  <2> QED BY <2>1, <2>2 DEF SessionFits, OnDisk
<1>10. DeskPast'
  <2>1. OnDisk(m)'
    BY <1>2, <1>7, DiskGrows
  <2>2. OnDisk(stateFile.saved)' /\ stateFile'.whole
    BY <1>1, <2>1 DEF OnDisk
  <2>3. 0 <= money'.spent /\ money'.spent <= money'.paid
    BY <1>1, DeskIs
  <2>4. \A i \in Desk!Logged' : log'[i].at <= clock' /\ log'[i].boot <= opens'.count
    BY <1>1, <1>5, <1>6 DEF DeskInv, DeskPast
  <2> QED BY <1>9, <2>2, <2>3, <2>4 DEF DeskPast
<1>11. Alone'
  <2> SUFFICES ASSUME ~opens'.overlap PROVE Alone'
    BY DEF Alone
  <2>1. /\ ~opens.overlap /\ Alone /\ AloneFits(helms[p])
    BY <1>1 DEF DeskInv, Alone
  <2>2. m.facts = helms[p].known.facts /\ m.closeout = helms[p].known.closeout
    BY <1>0, <1>1, <2>1 DEF AloneFits
  <2>3. \A i \in Desk!Logged' : log'[i].saved => i \in stateFile'.saved.facts
    BY <1>1, <1>5, <1>6, <2>1, <2>2 DEF Alone, AloneFits
  <2>4. \A q \in Desks \ {p} : helms'[q].at = "closed"
    BY <1>1, <1>2, <1>3, <2>1 DEF Alone
  <2>5. AloneFits(v)'
    <3>1. \A i \in v.known.facts : log'[i].boot = v.boot <=> log'[i].at > v.since
      BY <1>1, <1>2, <1>4, <1>5, <2>1 DEF AloneFits, SessionFits
    <3> QED BY <1>1, <1>4, <2>2, <3>1 DEF AloneFits
  <2>6. \A q \in Desks : AloneFits(helms[q])'
    <3> SUFFICES ASSUME NEW q \in Desks PROVE AloneFits(helms[q])'
      OBVIOUS
    <3>1. CASE q = p
      BY <1>2, <1>3, <2>5, <3>1 DEF AloneFits
    <3>2. CASE q # p
      BY <2>4, <3>2 DEF AloneFits
    <3> QED BY <3>1, <3>2
  <2>7. \A q, r \in Desks : helms'[q].at # "closed" /\ helms'[r].at # "closed" => q = r
    BY <2>4
  <2> QED BY <2>3, <2>6, <2>7 DEF Alone
<1> QED BY <1>7, <1>10, <1>11 DEF DeskInv, Grows

LEMMA TickDesk == ASSUME DeskInv, Desk!Tick PROVE DeskInv'
<1>1. /\ clock' = clock + 1 /\ log' = log /\ money' = money /\ stateFile' = stateFile
      /\ helms' = helms /\ opens' = opens /\ Desk!Logged' = Desk!Logged
  BY DEF Desk!Tick, Desk!Logged
<1>2. Grows
  <2>1. DeskType /\ DeskType'
    BY <1>1 DEF DeskInv, DeskType
  <2> QED BY <1>1, <2>1 DEF Grows, DeskType
<1>3. ASSUME NEW q \in Desks PROVE SessionFits(helms[q])'
  <2>1. PICK w \in Session : w = helms'[q] /\ w = helms[q] /\ SessionFits(w)
    BY <1>1, DeskIs
  <2>2. SessionFits(w)'
    BY <1>2, <2>1, SessionGrows
  <2> QED BY <2>1, <2>2 DEF SessionFits, OnDisk
<1>4. OnDisk(stateFile.saved)'
  <2>1. PICK m \in Memory : m = stateFile.saved /\ m = stateFile'.saved /\ OnDisk(m)
    BY <1>1 DEF DeskInv, DeskType, DeskPast
  <2>2. OnDisk(m)'
    BY <1>2, <2>1, DiskGrows
  <2> QED BY <2>1, <2>2 DEF OnDisk
<1>5. \A i \in Desk!Logged' : log'[i].at <= clock' /\ log'[i].boot <= opens'.count
  <2>1. \A i \in Desk!Logged : log[i].at <= clock /\ log[i].boot <= opens.count /\ log[i] \in Fact
    BY LoggedIs DEF DeskInv, DeskPast
  <2>2. clock \in Nat
    BY DEF DeskInv, DeskType
  <2> QED BY <1>1, <2>1, <2>2 DEF Fact
<1>6. DeskPast'
  BY <1>1, <1>3, <1>4, <1>5 DEF DeskPast, DeskInv
<1>7. Alone'
  BY <1>1 DEF DeskInv, Alone, AloneFits
<1> QED BY <1>2, <1>6, <1>7 DEF DeskInv, Grows

LEMMA DeskStep == DeskInv /\ [Desk!Next]_(Desk!deskVars) => DeskInv'
<1> SUFFICES ASSUME DeskInv, [Desk!Next]_(Desk!deskVars) PROVE DeskInv'
  OBVIOUS
<1>1. CASE UNCHANGED Desk!deskVars
  BY <1>1 DEF Desk!deskVars, DeskInv, DeskType, DeskPast, Alone, AloneFits, SessionFits, OnDisk,
              Desk!Logged
<1>2. CASE Desk!Next
  <2>1. CASE Desk!Tick
    BY <2>1, TickDesk
  <2>2. ASSUME NEW p \in Desks, Desk!Open(p) \/ Desk!Write(p) \/ Desk!Rename(p) \/ Desk!Ends(p)
        PROVE  DeskInv'
    BY <2>2, OpenDesk, WriteDesk, RenameDesk, EndsDesk
  <2>3. ASSUME NEW p \in Desks, Desk!Escalated(p) \/ Desk!GoalStarts(p) \/ Desk!RunEnds(p)
                                \/ Desk!AsksFollowUp(p)
        PROVE  DeskInv'
    BY <2>3, HappensDesk
       DEF Desk!Escalated, Desk!GoalStarts, Desk!RunEnds, Desk!AsksFollowUp, Desk!LogKinds,
           Desk!RunKinds
  <2>4. ASSUME NEW p \in Desks, Desk!Spends(p) \/ Desk!Forgets(p)
                                \/ (\E at \in 1 .. MaxClock : Desk!AnswerFollowUp(p, at))
                                \/ (\E goal \in Landings : Desk!Lands(p, goal))
        PROVE  DeskInv'
    BY <2>4, MoneyDesk, AnswerDesk, LandsDesk
  <2> QED BY <1>2, <2>1, <2>2, <2>3, <2>4 DEF Desk!Next
<1> QED BY <1>1, <1>2

LEMMA DeskStarts == Desk!Init => DeskInv
<1> SUFFICES ASSUME Desk!Init PROVE DeskInv
  OBVIOUS
<1>1. /\ log = <<>> /\ clock = 1 /\ money = [spent |-> 0, paid |-> 0]
      /\ stateFile = [whole |-> TRUE, saved |-> Desk!Blank]
      /\ helms = [p \in Desks |-> Desk!Closed] /\ opens = [count |-> 0, overlap |-> FALSE]
  BY DEF Desk!Init
<1>2. Desk!Blank \in Memory /\ Desk!Closed \in Session
  BY DEF Desk!Blank, Desk!Closed, Memory, Session, Closeouts
<1>3. DeskType
  BY <1>1, <1>2 DEF DeskType
<1>4. Desk!Logged = {}
  BY <1>1 DEF Desk!Logged
<1>5. OnDisk(Desk!Blank)
  BY <1>1 DEF OnDisk, Desk!Blank
<1>6. SessionFits(Desk!Closed) /\ AloneFits(Desk!Closed)
  BY <1>1, <1>5 DEF SessionFits, AloneFits, Desk!Closed, Desk!Blank
<1>7. DeskPast
  BY <1>1, <1>4, <1>5, <1>6 DEF DeskPast
<1>8. Alone
  BY <1>1, <1>4, <1>6 DEF Alone, Desk!Closed
<1> QED BY <1>3, <1>7, <1>8 DEF DeskInv

LEMMA DeskKeeps == DeskInv => /\ Desk!NothingIsLost /\ Desk!DigestIsOfTheSession
                              /\ Desk!SpentIsSince
<1> SUFFICES ASSUME DeskInv PROVE /\ Desk!NothingIsLost /\ Desk!DigestIsOfTheSession
                                  /\ Desk!SpentIsSince
  OBVIOUS
<1>1. Desk!NothingIsLost
  BY DEF DeskInv, DeskPast, Alone, Desk!NothingIsLost
<1>2. Desk!DigestIsOfTheSession
  BY DEF DeskInv, Alone, AloneFits, Desk!DigestIsOfTheSession, Desk!Open1, Desk!Tells
<1>3. Desk!SpentIsSince
  <2> SUFFICES ASSUME NEW p \in Desks PROVE Desk!Spent(p) \in 0 .. money.paid - helms[p].paid
    BY DEF Desk!SpentIsSince, Desk!Open1
  <2>1. /\ helms[p].paid \in Int /\ helms[p].base \in Int /\ helms[p].paid <= money.paid
        /\ helms[p].paid - helms[p].base <= money.paid - money.spent
        /\ money.spent \in Int /\ money.paid \in Int
    BY DeskIs DEF SessionFits, Session
  <2> QED BY <2>1 DEF Desk!Spent
<1> QED BY <1>1, <1>2, <1>3

LEMMA CloseoutKept ==
    DeskInv /\ [Desk!Next]_(Desk!deskVars) /\ stateFile.saved.closeout # <<>> /\ ~opens.overlap
       => stateFile'.saved.closeout = stateFile.saved.closeout
<1> SUFFICES ASSUME DeskInv, [Desk!Next]_(Desk!deskVars),
                    stateFile.saved.closeout # <<>>, ~opens.overlap
             PROVE  stateFile'.saved.closeout = stateFile.saved.closeout
  OBVIOUS
<1>1. CASE stateFile' = stateFile
  BY <1>1
<1>2. ASSUME NEW p \in Desks, Desk!Rename(p)
      PROVE  stateFile'.saved.closeout = stateFile.saved.closeout
  <2>1. AloneFits(helms[p]) /\ helms[p].at = "written" /\ stateFile'.saved = helms[p].temp
    BY <1>2, DeskIs DEF Desk!Rename
  <2> QED BY <2>1 DEF AloneFits
<1>3. stateFile' = stateFile \/ \E p \in Desks : Desk!Rename(p)
  BY Zenon DEF Desk!Next, Desk!deskVars, Desk!Tick, Desk!Open, Desk!Write, Desk!Ends,
         Desk!Spends, Desk!Forgets, Desk!Escalated, Desk!GoalStarts, Desk!RunEnds, Desk!AsksFollowUp,
         Desk!Happens, Desk!AnswerFollowUp, Desk!Lands
<1> QED BY <1>1, <1>2, <1>3

-----------------------------------------------------------------------------
(* Induction over the subsets of a finite set, for a set of them: there is *)
(* no smallest one that is not in T.                                       *)
LEMMA SubsetsAll ==
    ASSUME NEW S, IsFiniteSet(S), NEW T,
           \A s \in SUBSET S : (\A x \in s : s \ {x} \in T) => s \in T
    PROVE  SUBSET S \subseteq T
<1> SUFFICES ASSUME (SUBSET S) \ T # {} PROVE FALSE
  OBVIOUS
<1> DEFINE M == (SUBSET S) \ T
<1>1. IsWellFoundedOn(StrictSubsetOrdering(S), SUBSET S)
  <2>1. FiniteSubsetsOf(S) = SUBSET S
    BY FS_FiniteSubsetsOfFinite
  <2>2. IsWellFoundedOn(StrictSubsetOrdering(S), FiniteSubsetsOf(S))
    BY FS_StrictSubsetOrderingWellFounded
  <2> QED BY <2>1, <2>2
<1>2. M \subseteq SUBSET S /\ M # {}
  OBVIOUS
<1> HIDE DEF M
<1>3. \E s \in M : \A r \in M : ~ (<<r, s>> \in StrictSubsetOrdering(S))
  BY <1>1, <1>2, WFMin
<1>4. PICK s : s \in M /\ \A r \in M : ~ (<<r, s>> \in StrictSubsetOrdering(S))
  BY <1>3
<1>5. s \in M
  BY <1>4
<1>6. s \in SUBSET S /\ s \notin T
  BY <1>5 DEF M
<1>7. ASSUME NEW x \in s PROVE s \ {x} \in T
  <2>1. s \ {x} \in SUBSET S /\ s \in SUBSET S /\ s \ {x} # s
    BY <1>6
  <2>2. <<s \ {x}, s>> \in StrictSubsetOrdering(S)
    BY <2>1 DEF StrictSubsetOrdering
  <2>3. s \ {x} \notin M
    BY <1>4, <2>2
  <2> QED BY <2>1, <2>3 DEF M
<1>8. s \in T
  BY <1>6, <1>7
<1> QED BY <1>6, <1>8

(* What a fold is: a function on the subsets of S that takes away one      *)
(* element after the other, as choose says.                                *)
Folds(f, S, base, choose, apply) ==
    f = [s \in SUBSET S |->
           IF s = {} THEN base ELSE apply[<<choose[s], f[s \ {choose[s]}]>>]]

LEMMA FoldUnique ==
    ASSUME NEW S, IsFiniteSet(S), NEW U, S \subseteq U, NEW V, S \subseteq V,
           NEW choose, \A s \in SUBSET S : s # {} => choose[s] \in s,
           NEW base, NEW apply, NEW f, NEW g,
           Folds(f, U, base, choose, apply), Folds(g, V, base, choose, apply)
    PROVE  f[S] = g[S]
<1> DEFINE T == {s \in SUBSET S : f[s] = g[s]}
<1>1. ASSUME NEW s \in SUBSET S, \A x \in s : s \ {x} \in T PROVE s \in T
  <2>1. /\ f[s] = IF s = {} THEN base ELSE apply[<<choose[s], f[s \ {choose[s]}]>>]
        /\ g[s] = IF s = {} THEN base ELSE apply[<<choose[s], g[s \ {choose[s]}]>>]
    BY DEF Folds
  <2>2. s # {} => f[s \ {choose[s]}] = g[s \ {choose[s]}]
    BY <1>1
  <2> QED BY <2>1, <2>2
<1> HIDE DEF T
<1>2. SUBSET S \subseteq T
  BY <1>1, SubsetsAll
<1> QED BY <1>2 DEF T

LEMMA FoldExists ==
    ASSUME NEW S, IsFiniteSet(S),
           NEW choose, \A s \in SUBSET S : s # {} => choose[s] \in s,
           NEW base, NEW apply
    PROVE  \E f : Folds(f, S, base, choose, apply)
<1> DEFINE T == {s \in SUBSET S : \E f : Folds(f, s, base, choose, apply)}
<1>1. ASSUME NEW s \in SUBSET S, \A x \in s : s \ {x} \in T PROVE s \in T
  <2> DEFINE h(u) == CHOOSE f : Folds(f, u, base, choose, apply)
             less(t) == t \ {choose[t]}
             g == [t \in SUBSET s |->
                    IF t = {} THEN base ELSE apply[<<choose[t], h(less(t))[less(t)]>>]]
  <2>1. ASSUME NEW x \in s, NEW u \in SUBSET (s \ {x}) PROVE \E f : Folds(f, u, base, choose, apply)
    <3>1. PICK f : Folds(f, s \ {x}, base, choose, apply)
      BY <1>1
    <3>2. \A t \in SUBSET (s \ {x}) :
            f[t] = IF t = {} THEN base ELSE apply[<<choose[t], f[t \ {choose[t]}]>>]
      BY <3>1 DEF Folds
    <3> DEFINE e == [t \in SUBSET u |-> f[t]]
    <3>3. \A t \in SUBSET u : t \ {choose[t]} \in SUBSET u
      OBVIOUS
    <3>4. \A t \in SUBSET u : e[t] = IF t = {} THEN base ELSE apply[<<choose[t], e[t \ {choose[t]}]>>]
      BY <3>2, <3>3
    <3>5. e = [t \in SUBSET u |-> IF t = {} THEN base ELSE apply[<<choose[t], e[t \ {choose[t]}]>>]]
      BY <3>4
    <3> QED BY <3>5 DEF Folds
  <2>2. \A t \in SUBSET s : t # {} => choose[t] \in s /\ less(t) \in SUBSET (s \ {choose[t]})
    OBVIOUS
  <2>3. \A t \in SUBSET s : t # {} => Folds(h(less(t)), less(t), base, choose, apply)
    BY <2>1, <2>2
  <2> HIDE DEF h
  <2>4. ASSUME NEW t \in SUBSET s, t # {} PROVE g[less(t)] = h(less(t))[less(t)]
    <3>1. PICK u : u = less(t)
      OBVIOUS
    <3>2. u \in SUBSET s /\ Folds(h(u), u, base, choose, apply)
      BY <2>3, <2>4, <3>1
    <3>3. h(u)[u] = IF u = {} THEN base ELSE apply[<<choose[u], h(u)[less(u)]>>]
      BY <3>2 DEF Folds
    <3>4. g[u] = IF u = {} THEN base ELSE apply[<<choose[u], h(less(u))[less(u)]>>]
      BY <3>2
    <3>5. u # {} => h(u)[less(u)] = h(less(u))[less(u)]
      <4> SUFFICES ASSUME u # {} PROVE h(u)[less(u)] = h(less(u))[less(u)]
        OBVIOUS
      <4>1. PICK w : w = less(u)
        OBVIOUS
      <4>2. w \subseteq u /\ w \subseteq w /\ IsFiniteSet(w) /\ Folds(h(w), w, base, choose, apply)
        BY <2>3, <3>2, <4>1, FS_Subset
      <4>3. \A r \in SUBSET w : r # {} => choose[r] \in r
        BY <4>2, <3>2
      <4>4. h(u)[w] = h(w)[w]
        BY <3>2, <4>2, <4>3, FoldUnique
      <4> QED BY <4>1, <4>4
    <3> QED BY <3>1, <3>3, <3>4, <3>5
  <2>5. \A t \in SUBSET s : g[t] = IF t = {} THEN base ELSE apply[<<choose[t], g[less(t)]>>]
    BY <2>4
  <2>6. g = [t \in SUBSET s |-> IF t = {} THEN base ELSE apply[<<choose[t], g[less(t)]>>]]
    BY <2>5
  <2>7. Folds(g, s, base, choose, apply)
    BY <2>6 DEF Folds
  <2> QED BY <2>7
<1> HIDE DEF T
<1>2. SUBSET S \subseteq T
  BY <1>1, SubsetsAll
<1> QED BY <1>2 DEF T
(***************************************************************************)
(* The goals.  What the manager has of a run is what its record says, and  *)
(* a closeout that was kept lists every run there is, all of them          *)
(* completed: none of these can be paused, resumed or stopped any more, by *)
(* itself or with others, and no further one is started.                   *)
(***************************************************************************)
GoalMgr == [exec : [Goals!Runs -> Goals!Statuses], record : [Goals!Runs -> Goals!Statuses],
            unwinding : SUBSET Goals!Runs]
GoalView == [lane : [Goals!Runs -> {"absent", "running", "paused"}],
             goal : {"none", "running", "complete", "archived"}, closeout : SUBSET Goals!Runs]

GoalKept(m, v) ==
    /\ m.exec = m.record
    /\ v.closeout # {} => /\ v.closeout = Goals!Present(m.record) /\ v.goal # "none"
                          /\ \A r \in v.closeout : m.record[r] = "completed"
    /\ v.goal = "complete" => v.closeout # {}

\* What a fold over runs goes through; none: whether there is a goal.
GoalStates(none) ==
    {s \in [mgr : GoalMgr, view : GoalView] :
        GoalKept(s.mgr, s.view) /\ (s.view.goal = "none" <=> none)}

GoalInv ==
    /\ mgr \in GoalMgr /\ view \in GoalView /\ GoalKept(mgr, view)
    /\ frozen \subseteq Goals!Runs /\ (intake # "none" => view.goal = "none")

LEMMA SyncedFits ==
    ASSUME NEW v \in GoalView, NEW records \in [Goals!Runs -> Goals!Statuses]
    PROVE  /\ Goals!Synced(v, records) \in GoalView
           /\ Goals!Synced(v, records).goal = "none" <=> v.goal = "none"
           /\ Goals!Synced(v, records).closeout \in {v.closeout, Goals!Present(records)}
           /\ Goals!Synced(v, records).closeout # v.closeout =>
                Goals!ProgressComplete(records) /\ v.closeout = {} /\ v.goal # "none"
           /\ Goals!Synced(v, records).goal = "complete" =>
                Goals!ProgressComplete(records) /\ Goals!Synced(v, records).closeout # {}
<1> DEFINE tracked == v.goal \in {"running", "complete"}
           done == Goals!ProgressComplete(records)
           lane == [r \in Goals!Runs |-> Goals!Lane(records[r])]
           goal == IF ~tracked THEN v.goal ELSE IF done THEN "complete" ELSE "running"
           closeout == IF tracked /\ done /\ v.closeout = {} THEN Goals!Present(records)
                       ELSE v.closeout
<1>1. Goals!Synced(v, records) = [lane |-> lane, goal |-> goal, closeout |-> closeout]
  BY DEF Goals!Synced
<1>2. lane \in [Goals!Runs -> {"absent", "running", "paused"}]
  BY DEF Goals!Lane
<1>3. /\ v.closeout \subseteq Goals!Runs /\ v.goal \in {"none", "running", "complete", "archived"}
      /\ Goals!Present(records) \subseteq Goals!Runs
      /\ done => Goals!Present(records) # {}
  BY DEF GoalView, Goals!Present, Goals!ProgressComplete
<1>4. /\ goal \in {"none", "running", "complete", "archived"} /\ (goal = "none" <=> v.goal = "none")
      /\ closeout \in {v.closeout, Goals!Present(records)} /\ closeout \subseteq Goals!Runs
      /\ closeout # v.closeout => done /\ v.closeout = {} /\ v.goal # "none"
      /\ goal = "complete" => done /\ closeout # {}
  BY <1>3
<1>5. PICK l, g, c : l = lane /\ g = goal /\ c = closeout
  OBVIOUS
<1>6. PICK w : w = Goals!Synced(v, records)
  OBVIOUS
<1>7. w = [lane |-> l, goal |-> g, closeout |-> c]
  BY <1>1, <1>5, <1>6
<1>8. /\ l \in [Goals!Runs -> {"absent", "running", "paused"}]
      /\ g \in {"none", "running", "complete", "archived"} /\ (g = "none" <=> v.goal = "none")
      /\ c \in {v.closeout, Goals!Present(records)} /\ c \subseteq Goals!Runs
      /\ c # v.closeout => done /\ v.closeout = {} /\ v.goal # "none"
      /\ g = "complete" => done /\ c # {}
  BY <1>2, <1>4, <1>5
<1> HIDE DEF lane, goal, closeout
<1>9. w \in GoalView /\ w.goal = g /\ w.closeout = c
  BY <1>7, <1>8 DEF GoalView
<1> QED BY <1>6, <1>8, <1>9

LEMMA SyncedKeeps ==
    ASSUME NEW m \in GoalMgr, NEW v \in GoalView, GoalKept(m, v), NEW none, v.goal = "none" <=> none
    PROVE  /\ [mgr |-> m, view |-> Goals!Synced(v, m.record)] \in GoalStates(none)
           /\ Goals!Synced(v, m.record) \in GoalView /\ GoalKept(m, Goals!Synced(v, m.record))
<1>1. PICK w : w = Goals!Synced(v, m.record)
  OBVIOUS
<1>2. m.record \in [Goals!Runs -> Goals!Statuses]
  BY DEF GoalMgr
<1>3. /\ w \in GoalView /\ (w.goal = "none" <=> v.goal = "none")
      /\ w.closeout \in {v.closeout, Goals!Present(m.record)}
      /\ w.closeout # v.closeout =>
           Goals!ProgressComplete(m.record) /\ v.closeout = {} /\ v.goal # "none"
      /\ w.goal = "complete" => Goals!ProgressComplete(m.record) /\ w.closeout # {}
  BY <1>1, <1>2, SyncedFits
<1>4. GoalKept(m, w)
  <2>1. CASE w.closeout = v.closeout
    BY <1>3, <2>1 DEF GoalKept
  <2>2. CASE w.closeout # v.closeout
    BY <1>3, <2>2 DEF GoalKept, Goals!ProgressComplete
  <2> QED BY <2>1, <2>2
<1> QED BY <1>1, <1>3, <1>4 DEF GoalStates

(* While a run is not completed, nothing was kept and no goal is complete. *)
LEMMA StillOpen ==
    ASSUME NEW m \in GoalMgr, NEW v \in GoalView, GoalKept(m, v), NEW r \in Goals!Runs,
           m.record[r] \notin {"absent", "completed"}
    PROVE  /\ v.closeout = {} /\ v.goal # "complete"
           /\ Goals!Synced(v, m.record).closeout = {}
           /\ Goals!Synced(v, m.record).goal # "complete"
<1>1. r \in Goals!Present(m.record)
  BY DEF Goals!Present
<1>2. v.closeout = {} /\ v.goal # "complete" /\ ~Goals!ProgressComplete(m.record)
  BY <1>1 DEF GoalKept, Goals!ProgressComplete
<1>3. m.record \in [Goals!Runs -> Goals!Statuses]
  BY DEF GoalMgr
<1> QED BY <1>2, <1>3, SyncedFits

Changed(m, r, status) == [m EXCEPT !.exec[r] = status, !.record[r] = status]

LEMMA ChangedMgr ==
    ASSUME NEW m \in GoalMgr, m.exec = m.record, NEW r \in Goals!Runs, NEW status \in Goals!Statuses
    PROVE  /\ Changed(m, r, status) \in GoalMgr
           /\ Changed(m, r, status).exec = Changed(m, r, status).record
BY DEF GoalMgr, Changed

LEMMA EndedKeeps ==
    ASSUME NEW none, NEW s \in GoalStates(none), NEW r \in Goals!Runs,
           s.mgr.exec[r] \in {"running", "paused", "limited"},
           NEW status \in Goals!Statuses \ {"absent"}
    PROVE  /\ Goals!Ended(s, r, status) \in GoalStates(none)
           /\ Goals!Aborted(s, r, status) \in GoalStates(none)
<1>1. PICK m \in GoalMgr, v \in GoalView : s.mgr = m /\ s.view = v
  BY DEF GoalStates
<1>2. GoalKept(m, v) /\ (v.goal = "none" <=> none) /\ m.exec = m.record
  BY <1>1 DEF GoalStates, GoalKept
<1>3. PICK k : k = Changed(m, r, status)
  OBVIOUS
<1>4. PICK w : w = Goals!Synced(v, m.record)
  OBVIOUS
<1>5. k \in GoalMgr /\ k.exec = k.record
  <2>1. status \in Goals!Statuses
    OBVIOUS
  <2> QED BY <1>2, <1>3, <2>1, ChangedMgr
<1>6. m.record[r] \notin {"absent", "completed"}
  BY <1>1, <1>2
<1>7. w.closeout = {} /\ w.goal # "complete"
  BY <1>2, <1>4, <1>6, StillOpen
<1>8. w \in GoalView /\ (w.goal = "none" <=> none)
  <2>1. m.record \in [Goals!Runs -> Goals!Statuses]
    BY DEF GoalMgr
  <2> QED BY <1>2, <1>4, <2>1, SyncedFits
<1>9. Goals!Ended(s, r, status) = [mgr |-> k, view |-> w]
  BY <1>1, <1>3, <1>4 DEF Goals!Ended, Changed
<1>10. [mgr |-> k, view |-> w] \in GoalStates(none)
  BY <1>5, <1>7, <1>8 DEF GoalStates, GoalKept
<1>11. PICK u : u = [k EXCEPT !.unwinding = @ \cup {r}]
  OBVIOUS
<1>12. u \in GoalMgr /\ u.exec = k.exec /\ u.record = k.record
  BY <1>5, <1>11 DEF GoalMgr
<1>13. [mgr |-> u, view |-> w] \in GoalStates(none)
  BY <1>5, <1>7, <1>8, <1>12 DEF GoalStates, GoalKept
<1>14. Goals!Aborted(s, r, status) \in {[mgr |-> k, view |-> w], [mgr |-> u, view |-> w]}
  <2>1. [[mgr |-> k, view |-> w] EXCEPT !.mgr.unwinding = @ \cup {r}] = [mgr |-> u, view |-> w]
    BY <1>11
  <2> QED BY <1>9, <2>1 DEF Goals!Aborted
<1> QED BY <1>9, <1>10, <1>13, <1>14

LEMMA PauseKeeps ==
    ASSUME NEW none, NEW s \in GoalStates(none), NEW r \in Goals!Runs
    PROVE  Goals!ManagerPause(s, r) \in GoalStates(none)
<1>1. "paused" \in Goals!Statuses \ {"absent"}
  BY DEF Goals!Statuses
<1> QED BY <1>1, EndedKeeps DEF Goals!ManagerPause

LEMMA ResumeKeeps ==
    ASSUME NEW none, NEW s \in GoalStates(none), NEW r \in Goals!Runs
    PROVE  Goals!ManagerResume(s, r) \in GoalStates(none)
<1>1. CASE ~Goals!Resumable(s, r)
  BY <1>1 DEF Goals!ManagerResume
<1>2. CASE Goals!Resumable(s, r)
  <2>1. PICK m \in GoalMgr, v \in GoalView : s.mgr = m /\ s.view = v
    BY DEF GoalStates
  <2>2. GoalKept(m, v) /\ (v.goal = "none" <=> none) /\ m.exec = m.record
    BY <2>1 DEF GoalStates, GoalKept
  <2>3. PICK k : k = Changed(m, r, "running")
    OBVIOUS
  <2>4. k \in GoalMgr /\ k.exec = k.record
    <3>1. "running" \in Goals!Statuses
      BY DEF Goals!Statuses
    <3> QED BY <2>2, <2>3, <3>1, ChangedMgr
  <2>5. m.record[r] \notin {"absent", "completed"}
    BY <1>2, <2>1, <2>2 DEF Goals!Resumable
  <2>6. v.closeout = {} /\ v.goal # "complete"
    BY <2>2, <2>5, StillOpen
  <2>7. GoalKept(k, v)
    BY <2>4, <2>6 DEF GoalKept
  <2>8. Goals!ManagerResume(s, r) = [mgr |-> k, view |-> Goals!Synced(v, k.record)]
    BY <1>2, <2>1, <2>3 DEF Goals!ManagerResume, Changed
  <2> QED BY <2>2, <2>4, <2>7, <2>8, SyncedKeeps
<1> QED BY <1>1, <1>2

LEMMA LaneKeeps ==
    ASSUME NEW none, NEW s \in GoalStates(none), NEW r \in Goals!Runs
    PROVE  /\ Goals!PauseLane(s, r) \in GoalStates(none)
           /\ Goals!ResumeLane(s, r) \in GoalStates(none)
<1>1. ASSUME NEW from, NEW to \in {"running", "paused"}
      PROVE  Goals!Shown(s, r, from, to) \in GoalStates(none)
  <2>1. PICK m \in GoalMgr, v \in GoalView : s = [mgr |-> m, view |-> v]
    BY DEF GoalStates
  <2>2. GoalKept(m, v) /\ (v.goal = "none" <=> none)
    BY <2>1 DEF GoalStates
  <2>3. PICK w : w = [v EXCEPT !.lane[r] = to]
    OBVIOUS
  <2>4. w \in GoalView /\ w.goal = v.goal /\ w.closeout = v.closeout
    BY <2>3 DEF GoalView
  <2>5. [mgr |-> m, view |-> w] \in GoalStates(none)
    BY <2>2, <2>4 DEF GoalStates, GoalKept
  <2>6. Goals!Shown(s, r, from, to) \in {s, [mgr |-> m, view |-> w]}
    BY <2>1, <2>3 DEF Goals!Shown
  <2> QED BY <2>5, <2>6
<1> QED BY <1>1, PauseKeeps, ResumeKeeps DEF Goals!PauseLane, Goals!ResumeLane

(* The folds, each with its step.                                          *)
Moved(how, s, r) ==
    CASE how = "pause" -> Goals!ManagerPause(s, r)
      [] how = "resume" -> Goals!ManagerResume(s, r)
      [] how = "pauseLane" -> Goals!PauseLane(s, r)
      [] how = "resumeLane" -> Goals!ResumeLane(s, r)

FoldsTo(f, S, how) ==
    f = [s \in SUBSET S |-> IF s = {} THEN Goals!Now ELSE
           Moved(how, f[s \ {CHOOSE x \in s : TRUE}], CHOOSE x \in s : TRUE)]

LEMMA MovedFold ==
    ASSUME NEW none, Goals!Now \in GoalStates(none), NEW S \in SUBSET Goals!Runs, IsFiniteSet(S),
           NEW how \in {"pause", "resume", "pauseLane", "resumeLane"}
    PROVE  /\ \E f : FoldsTo(f, S, how)
           /\ \A f : FoldsTo(f, S, how) => f[S] \in GoalStates(none)
<1> DEFINE choose == [s \in SUBSET S |-> CHOOSE x \in s : TRUE]
           apply == [p \in S \X GoalStates(none) |-> Moved(how, p[2], p[1])]
<1>1. ASSUME NEW s \in GoalStates(none), NEW r \in S PROVE Moved(how, s, r) \in GoalStates(none)
  BY PauseKeeps, ResumeKeeps, LaneKeeps DEF Moved
<1>2. \A s \in SUBSET S : choose[s] = CHOOSE x \in s : TRUE
  OBVIOUS
<1>3. \A s \in SUBSET S : s # {} => choose[s] \in s
  OBVIOUS
<1> HIDE DEF choose
<1>4. PICK g : Folds(g, S, Goals!Now, choose, apply)
  BY <1>3, FoldExists
<1>5. SUBSET S \subseteq {s \in SUBSET S : g[s] \in GoalStates(none)}
  <2>1. ASSUME NEW s \in SUBSET S, \A x \in s : g[s \ {x}] \in GoalStates(none)
        PROVE  g[s] \in GoalStates(none)
    <3>1. g[s] = IF s = {} THEN Goals!Now ELSE apply[<<choose[s], g[s \ {choose[s]}]>>]
      BY <1>4 DEF Folds
    <3>2. s # {} => choose[s] \in S /\ g[s \ {choose[s]}] \in GoalStates(none)
      BY <1>3, <2>1
    <3> QED BY <1>1, <3>1, <3>2
  <2>2. PICK T : T = {s \in SUBSET S : g[s] \in GoalStates(none)}
    OBVIOUS
  <2>3. ASSUME NEW s \in SUBSET S, \A x \in s : s \ {x} \in T PROVE s \in T
    <3>1. \A x \in s : g[s \ {x}] \in GoalStates(none)
      BY <2>2, <2>3
    <3> QED BY <2>1, <2>2, <3>1
  <2>4. SUBSET S \subseteq T
    BY <2>3, SubsetsAll
  <2> QED BY <2>2, <2>4
<1>6. FoldsTo(g, S, how)
  <2>1. g = [s \in SUBSET S |-> IF s = {} THEN Goals!Now ELSE apply[<<choose[s], g[s \ {choose[s]}]>>]]
    BY <1>4 DEF Folds
  <2>2. ASSUME NEW s \in SUBSET S, s # {}
        PROVE  apply[<<choose[s], g[s \ {choose[s]}]>>]
               = Moved(how, g[s \ {CHOOSE x \in s : TRUE}], CHOOSE x \in s : TRUE)
    <3>1. choose[s] \in S /\ g[s \ {choose[s]}] \in GoalStates(none)
      BY <1>3, <1>5, <2>2
    <3>2. apply[<<choose[s], g[s \ {choose[s]}]>>] = Moved(how, g[s \ {choose[s]}], choose[s])
      BY <3>1
    <3> QED BY <1>2, <3>2
  <2> HIDE DEF apply
  <2> QED BY <2>1, <2>2 DEF FoldsTo
<1>7. ASSUME NEW f, FoldsTo(f, S, how) PROVE f[S] \in GoalStates(none)
  <2>1. ASSUME NEW s \in SUBSET S, \A x \in s : f[s \ {x}] \in GoalStates(none)
        PROVE  f[s] \in GoalStates(none)
    <3>1. f[s] = IF s = {} THEN Goals!Now ELSE
                    Moved(how, f[s \ {choose[s]}], choose[s])
      BY <1>2, <1>7 DEF FoldsTo
    <3>2. s # {} => choose[s] \in S /\ f[s \ {choose[s]}] \in GoalStates(none)
      BY <1>3, <2>1
    <3> QED BY <1>1, <3>1, <3>2
  <2>2. PICK T : T = {s \in SUBSET S : f[s] \in GoalStates(none)}
    OBVIOUS
  <2>3. ASSUME NEW s \in SUBSET S, \A x \in s : s \ {x} \in T PROVE s \in T
    <3>1. \A x \in s : f[s \ {x}] \in GoalStates(none)
      BY <2>2, <2>3
    <3> QED BY <2>1, <2>2, <3>1
  <2>4. SUBSET S \subseteq T
    BY <2>3, SubsetsAll
  <2> QED BY <2>2, <2>4
<1> QED BY <1>6, <1>7

LEMMA RunsFinite == IsFiniteSet(Goals!Runs)
<1>1. Plans \in Int /\ MaxSpawns \in Int /\ 1 \in Int
  BY PartsAssumption
<1>2. IsFiniteSet(1 .. Plans) /\ IsFiniteSet(1 .. MaxSpawns)
  BY <1>1, FS_Interval
<1> QED BY <1>2, FS_Product DEF Goals!Runs

LEMMA NowFits ==
    ASSUME GoalInv
    PROVE  \E none \in BOOLEAN : (view.goal = "none" <=> none) /\ Goals!Now \in GoalStates(none)
<1>1. PICK none \in BOOLEAN : view.goal = "none" <=> none
  BY Zenon
<1> QED BY <1>1 DEF GoalInv, GoalStates, Goals!Now

LEMMA SetKeeps ==
    ASSUME GoalInv, NEW none \in BOOLEAN, view.goal = "none" <=> none, NEW s \in GoalStates(none),
           Goals!Set(s), intake' = intake, frozen' \subseteq Goals!Runs
    PROVE  GoalInv'
BY DEF GoalInv, GoalStates, Goals!Set

LEMMA FreezeKeeps == ASSUME GoalInv, Goals!FreezeAll PROVE GoalInv'
<1>1. PICK S : S = frozen'
  OBVIOUS
<1>2. S \in SUBSET Goals!Runs /\ IsFiniteSet(S) /\ intake' = intake /\ frozen' \subseteq Goals!Runs
  BY <1>1, RunsFinite, FS_Subset DEF Goals!FreezeAll
<1> DEFINE Is(f) == f = [s \in SUBSET S |-> IF s = {} THEN Goals!Now ELSE
                           Goals!ManagerPause(f[s \ {CHOOSE x \in s : TRUE}], CHOOSE x \in s : TRUE)]
<1>3. Goals!Set((CHOOSE f : Is(f))[S])
  BY <1>1, Zenon DEF Goals!FreezeAll, Goals!FoldSet, Goals!MapThenFoldSet
<1>4. \A f : Is(f) <=> FoldsTo(f, S, "pause")
  BY DEF FoldsTo, Moved
<1>5. PICK none \in BOOLEAN : (view.goal = "none" <=> none) /\ Goals!Now \in GoalStates(none)
  BY NowFits
<1> HIDE DEF Is
<1>6. (\E f : Is(f)) /\ \A f : Is(f) => f[S] \in GoalStates(none)
  BY <1>2, <1>4, <1>5, MovedFold
<1> QED BY <1>2, <1>3, <1>5, <1>6, SetKeeps

LEMMA ThawKeeps == ASSUME GoalInv, Goals!ThawAll PROVE GoalInv'
<1>1. PICK S : S = frozen
  OBVIOUS
<1>2. S \in SUBSET Goals!Runs /\ IsFiniteSet(S) /\ intake' = intake /\ frozen' \subseteq Goals!Runs
  BY <1>1, RunsFinite, FS_Subset DEF GoalInv, Goals!ThawAll
<1> DEFINE Is(f) == f = [s \in SUBSET S |-> IF s = {} THEN Goals!Now ELSE
                           Goals!ManagerResume(f[s \ {CHOOSE x \in s : TRUE}], CHOOSE x \in s : TRUE)]
<1>3. Goals!Set((CHOOSE f : Is(f))[S])
  BY <1>1, Zenon DEF Goals!ThawAll, Goals!FoldSet, Goals!MapThenFoldSet
<1>4. \A f : Is(f) <=> FoldsTo(f, S, "resume")
  BY DEF FoldsTo, Moved
<1>5. PICK none \in BOOLEAN : (view.goal = "none" <=> none) /\ Goals!Now \in GoalStates(none)
  BY NowFits
<1> HIDE DEF Is
<1>6. (\E f : Is(f)) /\ \A f : Is(f) => f[S] \in GoalStates(none)
  BY <1>2, <1>4, <1>5, MovedFold
<1> QED BY <1>2, <1>3, <1>5, <1>6, SetKeeps

LEMMA ToggleGoalKeeps == ASSUME GoalInv, Goals!ToggleGoal PROVE GoalInv'
<1>1. PICK S : S = Goals!Lanes
  OBVIOUS
<1>2. S \in SUBSET Goals!Runs /\ IsFiniteSet(S) /\ intake' = intake /\ frozen' \subseteq Goals!Runs
  BY <1>1, RunsFinite, FS_Subset DEF GoalInv, Goals!ToggleGoal, Goals!Still, Goals!Lanes
<1>3. PICK resume \in BOOLEAN :
        resume <=> (Goals!Lanes # {} /\ \A r \in Goals!Lanes : view.lane[r] = "paused")
  BY Zenon
<1>4. PICK how : how = IF resume THEN "resumeLane" ELSE "pauseLane"
  OBVIOUS
<1> DEFINE Step(r, s) == IF Goals!Lanes # {} /\ (\A x \in Goals!Lanes : view.lane[x] = "paused")
                         THEN Goals!ResumeLane(s, r) ELSE Goals!PauseLane(s, r)
           Is(f) == f = [s \in SUBSET S |-> IF s = {} THEN Goals!Now ELSE
                           Step(CHOOSE x \in s : TRUE, f[s \ {CHOOSE x \in s : TRUE}])]
<1>5. Goals!Set((CHOOSE f : Is(f))[S])
  BY <1>1, Zenon DEF Goals!ToggleGoal, Goals!FoldSet, Goals!MapThenFoldSet
<1>6. \A r, s : Step(r, s) = Moved(how, s, r)
  BY <1>3, <1>4 DEF Moved
<1> HIDE DEF Step
<1>7. \A f : Is(f) <=> FoldsTo(f, S, how)
  BY <1>6 DEF FoldsTo
<1>8. PICK none \in BOOLEAN : (view.goal = "none" <=> none) /\ Goals!Now \in GoalStates(none)
  BY NowFits
<1> HIDE DEF Is
<1>9. (\E f : Is(f)) /\ \A f : Is(f) => f[S] \in GoalStates(none)
  BY <1>2, <1>4, <1>7, <1>8, MovedFold
<1> QED BY <1>2, <1>5, <1>8, <1>9, SetKeeps

(* One run's steps.                                                        *)
LEMMA RunKeeps ==
    ASSUME GoalInv, NEW r \in Goals!Runs,
           \/ Goals!LimitLifts(r) \/ Goals!Stops(r) \/ Goals!ToggleLane(r)
           \/ \E s \in {"completed", "failed", "limited"} : Goals!Ends(r, s)
    PROVE  GoalInv'
<1>1. PICK none \in BOOLEAN : (view.goal = "none" <=> none) /\ Goals!Now \in GoalStates(none)
  BY NowFits
<1>2. intake' = intake /\ frozen' \subseteq Goals!Runs
  BY DEF GoalInv, Goals!LimitLifts, Goals!Stops, Goals!ToggleLane, Goals!Ends, Goals!Still
<1>3. PICK n : n = Goals!Now
  OBVIOUS
<1>4. n \in GoalStates(none) /\ n.mgr = mgr
  BY <1>1, <1>3 DEF Goals!Now
<1>5. CASE Goals!LimitLifts(r)
  <2>1. Goals!Set(Goals!ManagerResume(n, r))
    BY <1>3, <1>5, Zenon DEF Goals!LimitLifts
  <2> QED BY <1>1, <1>2, <1>4, <2>1, ResumeKeeps, SetKeeps
<1>6. CASE Goals!Stops(r)
  <2>1. Goals!Set(Goals!Aborted(n, r, "aborted"))
    BY <1>3, <1>6, Zenon DEF Goals!Stops
  <2>2. n.mgr.exec[r] \in {"running", "paused", "limited"}
    BY <1>4, <1>6 DEF Goals!Stops
  <2>3. "aborted" \in Goals!Statuses \ {"absent"}
    BY DEF Goals!Statuses
  <2>4. Goals!Aborted(n, r, "aborted") \in GoalStates(none)
    BY <1>4, <2>2, <2>3, EndedKeeps
  <2> QED BY <1>1, <1>2, <2>1, <2>4, SetKeeps
<1>7. CASE Goals!ToggleLane(r)
  <2>1. \/ Goals!Set(Goals!ResumeLane(n, r)) \/ Goals!Set(Goals!PauseLane(n, r))
    BY <1>3, <1>7, Zenon DEF Goals!ToggleLane
  <2>2. Goals!ResumeLane(n, r) \in GoalStates(none) /\ Goals!PauseLane(n, r) \in GoalStates(none)
    BY <1>4, LaneKeeps
  <2> QED BY <1>1, <1>2, <2>1, <2>2, SetKeeps
<1>8. ASSUME NEW s \in {"completed", "failed", "limited"}, Goals!Ends(r, s) PROVE GoalInv'
  <2>1. Goals!Set(Goals!Ended(n, r, s))
    BY <1>3, <1>8, Zenon DEF Goals!Ends
  <2>2. n.mgr.exec[r] \in {"running", "paused", "limited"}
    BY <1>4, <1>8 DEF Goals!Ends
  <2>3. s \in Goals!Statuses \ {"absent"}
    BY DEF Goals!Statuses
  <2>4. Goals!Ended(n, r, s) \in GoalStates(none)
    BY <1>4, <2>2, <2>3, EndedKeeps
  <2> QED BY <1>1, <1>2, <2>1, <2>4, SetKeeps
<1> QED BY <1>5, <1>6, <1>7, <1>8

LEMMA SyncKeeps ==
    ASSUME GoalInv, NEW m \in GoalMgr, NEW v \in GoalView, GoalKept(m, v),
           v.goal = "none" <=> view.goal = "none",
           mgr' = m, view' = Goals!Synced(v, m.record), intake' = intake, frozen' = frozen
    PROVE  GoalInv'
<1>1. PICK none \in BOOLEAN : view.goal = "none" <=> none
  BY Zenon
<1>2. PICK w : w = Goals!Synced(v, m.record)
  OBVIOUS
<1>3. [mgr |-> m, view |-> w] \in GoalStates(none)
  BY <1>1, <1>2, SyncedKeeps
<1>4. Goals!Set([mgr |-> m, view |-> w])
  BY <1>2 DEF Goals!Set
<1> QED BY <1>1, <1>3, <1>4, SetKeeps DEF GoalInv

LEMMA ToldKeeps ==
    ASSUME GoalInv, NEW r \in Goals!Runs, Goals!Progresses(r) \/ Goals!Unwinds(r)
    PROVE  GoalInv'
<1>1. CASE Goals!Progresses(r)
  BY <1>1, SyncKeeps DEF GoalInv, Goals!Progresses, Goals!Still
<1>2. CASE Goals!Unwinds(r)
  <2>1. PICK m : m = [mgr EXCEPT !.unwinding = @ \ {r}]
    OBVIOUS
  <2>2. m \in GoalMgr /\ m.exec = mgr.exec /\ m.record = mgr.record
    BY <2>1 DEF GoalInv, GoalMgr
  <2>3. GoalKept(m, view)
    BY <2>2 DEF GoalInv, GoalKept
  <2>4. /\ mgr' = m /\ view' = Goals!Synced(view, m.record)
        /\ intake' = intake /\ frozen' = frozen
    BY <1>2, <2>1, <2>2 DEF Goals!Unwinds, Goals!Still
  <2> QED BY <2>2, <2>3, <2>4, SyncKeeps DEF GoalInv
<1> QED BY <1>1, <1>2

LEMMA RestartKeeps == ASSUME GoalInv, Goals!Restart PROVE GoalInv'
<1>1. PICK f : f = [r \in Goals!Runs |-> IF mgr.record[r] = "running" THEN "paused" ELSE mgr.record[r]]
  OBVIOUS
<1>2. PICK m : m = [exec |-> f, record |-> f, unwinding |-> {}]
  OBVIOUS
<1>3. mgr' = m /\ view' = Goals!Synced(view, m.record) /\ intake' = intake /\ frozen' = frozen
  BY <1>1, <1>2, Zenon DEF Goals!Restart
<1>4. mgr.record \in [Goals!Runs -> Goals!Statuses]
  BY DEF GoalInv, GoalMgr
<1>5. f \in [Goals!Runs -> Goals!Statuses]
  BY <1>1, <1>4 DEF Goals!Statuses
<1>6. m \in GoalMgr
  BY <1>2, <1>5 DEF GoalMgr
<1>7. Goals!Present(f) = Goals!Present(mgr.record)
  BY <1>1 DEF Goals!Present
<1>8. \A r \in Goals!Runs : mgr.record[r] = "completed" => f[r] = "completed"
  BY <1>1
<1>9. GoalKept(m, view)
  BY <1>2, <1>7, <1>8 DEF GoalInv, GoalView, GoalKept
<1> QED BY <1>3, <1>6, <1>9, SyncKeeps DEF GoalInv

LEMMA SpawnKeeps == ASSUME GoalInv, NEW n \in 0 .. Plans, Goals!Spawn(n) PROVE GoalInv'
<1>1. PICK m : m = Goals!Started(n)
  OBVIOUS
<1>2. m \in GoalMgr /\ m.exec = m.record
  BY <1>1 DEF Goals!Started, GoalInv, GoalKept, GoalMgr, Goals!Statuses
<1>3. /\ intake = "ready" /\ mgr' = m /\ frozen' = frozen
      /\ n = Plans => /\ intake' = "none"
                      /\ view' = Goals!Synced([view EXCEPT !.goal = "running"], m.record)
      /\ n # Plans => intake' = intake /\ view' = view
  BY <1>1 DEF Goals!Spawn, Goals!Still
<1>4. view.goal = "none" /\ view.closeout = {}
  BY <1>3 DEF GoalInv, GoalKept
<1>5. CASE n # Plans
  BY <1>2, <1>3, <1>4, <1>5 DEF GoalInv, GoalKept
<1>6. CASE n = Plans
  <2>1. PICK v : v = [view EXCEPT !.goal = "running"]
    OBVIOUS
  <2>2. v \in GoalView /\ v.closeout = {} /\ v.goal = "running"
    BY <1>4, <2>1 DEF GoalInv, GoalView
  <2>3. GoalKept(m, v)
    BY <1>2, <2>2 DEF GoalKept
  <2>4. Goals!Synced(v, m.record) \in GoalView /\ GoalKept(m, Goals!Synced(v, m.record))
    BY <1>2, <2>2, <2>3, SyncedKeeps
  <2> QED BY <1>2, <1>3, <1>6, <2>1, <2>4 DEF GoalInv
<1> QED BY <1>5, <1>6

LEMMA IntakeKeeps ==
    ASSUME GoalInv, Goals!CreateDraft \/ Goals!Answer \/ Goals!Discard \/ Goals!Archive
    PROVE  GoalInv'
<1>1. CASE Goals!CreateDraft \/ Goals!Answer \/ Goals!Discard
  BY <1>1 DEF GoalInv, GoalKept, Goals!CreateDraft, Goals!Answer, Goals!Discard, Goals!Still
<1>2. CASE Goals!Archive
  <2>1. PICK v : v = [view EXCEPT !.goal = "archived"]
    OBVIOUS
  <2>2. v \in GoalView /\ v.closeout = view.closeout /\ v.goal = "archived"
    BY <2>1 DEF GoalInv, GoalView
  <2>3. view' = v /\ mgr' = mgr /\ intake' = intake /\ frozen' = frozen /\ view.goal # "none"
    BY <1>2, <2>1 DEF Goals!Archive, Goals!Still
  <2> QED BY <2>2, <2>3 DEF GoalInv, GoalKept
<1> QED BY <1>1, <1>2

LEMMA GoalStep == GoalInv /\ [Goals!Next]_(Goals!gvars) => GoalInv'
<1> SUFFICES ASSUME GoalInv, [Goals!Next]_(Goals!gvars) PROVE GoalInv'
  OBVIOUS
<1>1. CASE UNCHANGED Goals!gvars
  BY <1>1 DEF Goals!gvars, GoalInv, GoalKept
<1>2. CASE Goals!Next
  <2>1. ASSUME NEW n \in 0 .. Plans, Goals!Spawn(n) PROVE GoalInv'
    BY <2>1, SpawnKeeps
  <2>2. ASSUME NEW r \in Goals!Runs, Goals!Progresses(r) \/ Goals!Unwinds(r) PROVE GoalInv'
    BY <2>2, ToldKeeps
  <2>3. ASSUME NEW r \in Goals!Runs,
               \/ Goals!LimitLifts(r) \/ Goals!Stops(r) \/ Goals!ToggleLane(r)
               \/ \E s \in {"completed", "failed", "limited"} : Goals!Ends(r, s)
        PROVE  GoalInv'
    BY <2>3, RunKeeps
  <2> QED
    BY <1>2, <2>1, <2>2, <2>3, IntakeKeeps, ToggleGoalKeeps, FreezeKeeps, ThawKeeps, RestartKeeps
       DEF Goals!Next
<1> QED BY <1>1, <1>2

LEMMA GoalStarts == Goals!Init => GoalInv
BY DEF Goals!Init, Goals!Nothing, GoalInv, GoalMgr, GoalView, Goals!Statuses, GoalKept

LEMMA GoalHolds == GoalInv => Goals!CompleteIsComplete
<1> SUFFICES ASSUME GoalInv, view.goal = "complete"
             PROVE  /\ \A r \in Goals!Runs : mgr.exec[r] \in {"absent", "completed"}
                    /\ view.closeout = {r \in Goals!Runs : mgr.exec[r] = "completed"}
  BY DEF Goals!CompleteIsComplete
<1>1. /\ mgr.exec = mgr.record /\ view.closeout = Goals!Present(mgr.record)
      /\ \A r \in view.closeout : mgr.record[r] = "completed"
  BY DEF GoalInv, GoalKept
<1> QED BY <1>1 DEF Goals!Present

-----------------------------------------------------------------------------
(* Induction over the naturals, for a set of them.                         *)
LEMMA NatsAll ==
    ASSUME NEW T, 0 \in T, \A n \in Nat : n \in T => n + 1 \in T
    PROVE  Nat \subseteq T
<1> SUFFICES ASSUME Nat \ T # {} PROVE FALSE
  OBVIOUS
<1>1. PICK n \in Nat \ T : \A m \in Nat \ T : ~ (<<m, n>> \in OpToRel(<, Nat))
  BY NatLessThanWellFounded, WFMin
<1>2. n # 0 /\ n - 1 \in Nat
  OBVIOUS
<1>3. <<n - 1, n>> \in OpToRel(<, Nat)
  BY <1>2 DEF OpToRel
<1>4. n - 1 \in T
  BY <1>1, <1>2, <1>3
<1>5. (n - 1) + 1 \in T
  BY <1>2, <1>4
<1> QED BY <1>2, <1>5

-----------------------------------------------------------------------------
(* ModelRouting.  What was picked for a tier is what is stored for it, also *)
(* as an editor has it; an entry of the journal bears the hash of the      *)
(* definition it was written under; a catalogue is a list of offers.  The  *)
(* rest is about what is computed from these: how a stored model is read   *)
(* back and how a catalogue is ranked.                                     *)
ModelChoices == [id : Ids, level : Models!LevelChoices] \cup {Models!Nothing}
Catalogue(ms) == \E n \in Nat \ {0} : ms \in [1 .. n -> Models!Offers]

ModelInv ==
    /\ known \subseteq Ids
    /\ picked \in ModelChoices /\ editor.choice \in ModelChoices
    /\ DOMAIN editor = {"at", "tier", "dirty", "choice"}
    /\ picked # Models!Nothing => tierFile = Models!Formatted(picked)
    /\ editor.at = "menu" /\ editor.choice # Models!Nothing
         => editor.tier = Models!Formatted(editor.choice)
    /\ journal.hash \in {<<>>, Models!CallHash(journal.by)} /\ Models!SameDefinition
    /\ topic = "ranks" => Catalogue(offer.models)
    /\ DOMAIN offer = {"shown", "models"} /\ (offer.shown => topic = "ranks")

(* The ids are tuples of words.                                            *)
LEMMA Tuples ==
    ASSUME NEW W, NEW a \in W, NEW b \in W, NEW c \in W
    PROVE  /\ <<a>> \in Seq(W) /\ Len(<<a>>) = 1
           /\ <<a, b>> \in Seq(W) /\ Len(<<a, b>>) = 2
           /\ <<a, b, c>> \in Seq(W) /\ Len(<<a, b, c>>) = 3
OBVIOUS

Words == {"m", "n", "free", "high"} \cup Levels

LEMMA IdsAre == Ids \subseteq Seq(Words) /\ \A i \in Ids : i # <<>> /\ Len(i) \in Nat \ {0}
<1>1. PICK m, n, free, high : m = "m" /\ n = "n" /\ free = "free" /\ high = "high"
  OBVIOUS
<1>2. {m, n, free, high} \subseteq Words
  BY <1>1 DEF Words
<1>3. Ids = {<<m>>, <<n>>, <<n, free>>, <<n, high>>, <<m, high, free>>}
  BY <1>1 DEF Ids
<1>4. ASSUME NEW i \in Ids PROVE i \in Seq(Words) /\ Len(i) \in {1, 2, 3}
  <2>1. m \in Words /\ n \in Words /\ free \in Words /\ high \in Words
    BY <1>2
  <2>2. /\ <<m>> \in Seq(Words) /\ Len(<<m>>) = 1 /\ <<n>> \in Seq(Words) /\ Len(<<n>>) = 1
        /\ <<n, free>> \in Seq(Words) /\ Len(<<n, free>>) = 2
        /\ <<n, high>> \in Seq(Words) /\ Len(<<n, high>>) = 2
        /\ <<m, high, free>> \in Seq(Words) /\ Len(<<m, high, free>>) = 3
    BY <2>1, Tuples
  <2> QED BY <1>3, <2>2, Zenon
<1>5. \A i \in Seq(Words) : i = <<>> => Len(i) = 0
  OBVIOUS
<1>6. \A i \in Ids : i \in Seq(Words) /\ Len(i) \in {1, 2, 3}
  BY <1>4
<1>7. \A i \in Ids : i # <<>> /\ Len(i) \in Nat \ {0}
  BY <1>5, <1>6
<1> QED BY <1>6, <1>7

(* The parts of a pattern are parsed from the first one on: inner is the   *)
(* function its definition says.                                           *)
Inner(f, spec, ids) ==
    \A n \in 1 .. Len(spec) :
       f[n] = IF Models!Match(SubSeq(spec, 1, n), ids) # <<>>
              THEN [id |-> Models!Match(SubSeq(spec, 1, n), ids), level |-> "default"]
              ELSE IF Models!Levelled(SubSeq(spec, 1, n)) /\ f[n - 1].id # <<>>
              THEN [f[n - 1] EXCEPT !.level = Models!Last(SubSeq(spec, 1, n))]
              ELSE Models!Nothing

LEMMA ParseUnfolds ==
    ASSUME NEW W, NEW spec \in Seq(W), Len(spec) \in Nat \ {0}, NEW ids
    PROVE  \E f : Models!Parse(spec, ids) = f[Len(spec)] /\ Inner(f, spec, ids)
<1> DEFINE G(n, c) == IF Models!Match(SubSeq(spec, 1, n), ids) # <<>>
                      THEN [id |-> Models!Match(SubSeq(spec, 1, n), ids), level |-> "default"]
                      ELSE IF Models!Levelled(SubSeq(spec, 1, n)) /\ c.id # <<>>
                      THEN [c EXCEPT !.level = Models!Last(SubSeq(spec, 1, n))]
                      ELSE Models!Nothing
           Is(f, m) == f = [n \in 1 .. m |-> G(n, f[n - 1])]
           T == {m \in Nat : m <= Len(spec) => \E f : Is(f, m)}
<1>1. \A c, d : G(1, c) = G(1, d)
  <2>1. Len(SubSeq(spec, 1, 1)) = 1
    OBVIOUS
  <2>2. ~Models!Levelled(SubSeq(spec, 1, 1))
    BY <2>1 DEF Models!Levelled
  <2> QED BY <2>2
<1>2. Models!Parse(spec, ids) = (CHOOSE f : Is(f, Len(spec)))[Len(spec)]
  BY Zenon DEF Models!Parse
<1> HIDE DEF G
<1>3. 0 \in T
  <2>1. Is([n \in 1 .. 0 |-> 0], 0)
    OBVIOUS
  <2> QED BY <2>1
<1>4. ASSUME NEW m \in Nat, m \in T PROVE m + 1 \in T
  <2> SUFFICES ASSUME m + 1 <= Len(spec) PROVE \E f : Is(f, m + 1)
    OBVIOUS
  <2>1. PICK f : Is(f, m)
    BY <1>4
  <2> DEFINE g == [n \in 1 .. m + 1 |-> IF n <= m THEN f[n] ELSE G(m + 1, f[m])]
  <2>2. ASSUME NEW n \in 1 .. m + 1 PROVE g[n] = G(n, g[n - 1])
    <3>1. CASE n <= m /\ n # 1
      <4>1. n - 1 \in 1 .. m + 1 /\ n - 1 <= m /\ n \in 1 .. m
        BY <3>1
      <4>2. g[n - 1] = f[n - 1] /\ g[n] = f[n]
        BY <3>1, <4>1
      <4> QED BY <2>1, <4>1, <4>2
    <3>2. CASE n = m + 1 /\ n # 1
      <4>1. n - 1 \in 1 .. m + 1 /\ n - 1 <= m /\ ~ (n <= m) /\ n - 1 = m
        BY <3>2
      <4> QED BY <3>2, <4>1
    <3>3. CASE n = 1 /\ n <= m
      <4>1. f[1] = G(1, f[1 - 1]) /\ g[n] = f[n]
        BY <2>1, <3>3
      <4> QED BY <1>1, <3>3, <4>1
    <3>4. CASE n = 1 /\ n = m + 1
      BY <1>1, <3>4
    <3> QED BY <3>1, <3>2, <3>3, <3>4
  <2>3. g = [n \in 1 .. m + 1 |-> G(n, g[n - 1])]
    BY <2>2
  <2> HIDE DEF g
  <2> QED BY <2>3
<1> HIDE DEF T
<1>5. Len(spec) \in T
  BY <1>3, <1>4, NatsAll
<1>6. \E f : Is(f, Len(spec))
  BY <1>5 DEF T
<1>7. PICK f : f = CHOOSE h : Is(h, Len(spec))
  OBVIOUS
<1>8. Is(f, Len(spec))
  <2> HIDE DEF Is
  <2> QED BY <1>6, <1>7
<1>9. Models!Parse(spec, ids) = f[Len(spec)] /\ \A n \in 1 .. Len(spec) : f[n] = G(n, f[n - 1])
  BY <1>2, <1>7, <1>8
<1> QED BY <1>9 DEF G, Inner

(* A model that the registry lists is found by its id.                     *)
LEMMA MatchesItself == ASSUME NEW ids, NEW i \in ids PROVE Models!Match(i, ids) = i
BY DEF Models!Match

(* What is stored for a tier is read as the model and level it was made of. *)
LEMMA ReadAsStored ==
    ASSUME known \subseteq Ids, NEW i \in known, NEW l \in Models!LevelChoices,
           l # "default" => \A j \in known : ~Models!Includes(j, Append(i, l)),
           NEW spec, spec = Models!Formatted([id |-> i, level |-> l])
    PROVE  /\ spec # <<>> /\ Models!Parse(spec, known) = [id |-> i, level |-> l]
           /\ Models!Resolved(spec, known) = [id |-> i, level |-> l]
<1>1. i \in Seq(Words) /\ i # <<>> /\ Len(i) \in Nat \ {0}
  BY IdsAre
<1>2. spec = IF l = "default" THEN i ELSE Append(i, l)
  BY DEF Models!Formatted
<1>3. \A n, c : ~ (c.id = <<>> /\ c = [id |-> i, level |-> n])
  BY <1>1
<1>4. Models!Match(i, known) = i
  BY MatchesItself
<1>5. CASE l = "default"
  <2>1. spec = i
    BY <1>2, <1>5
  <2>2. SubSeq(spec, 1, Len(spec)) = spec /\ Len(spec) \in 1 .. Len(spec)
    BY <1>1, <2>1
  <2>3. PICK f : Models!Parse(spec, known) = f[Len(spec)] /\ Inner(f, spec, known)
    BY <1>1, <2>1, ParseUnfolds
  <2>4. Models!Parse(spec, known) = [id |-> i, level |-> l]
    BY <1>1, <1>4, <1>5, <2>1, <2>2, <2>3 DEF Inner
  <2> QED BY <1>1, <2>1, <2>4 DEF Models!Resolved
<1>6. CASE l # "default"
  <2>1. l \in Levels /\ l \in Words
    BY <1>6 DEF Models!LevelChoices, Words
  <2>2. /\ spec = Append(i, l) /\ spec \in Seq(Words) /\ Len(spec) = Len(i) + 1
        /\ spec[Len(spec)] = l /\ spec # <<>>
    BY <1>1, <1>2, <1>6, <2>1
  <2>3. SubSeq(spec, 1, Len(spec)) = spec /\ SubSeq(spec, 1, Len(i)) = i
    BY <1>1, <2>2
  <2>4. /\ Len(spec) \in Nat \ {0} /\ Len(i) \in 1 .. Len(spec) /\ Len(spec) \in 1 .. Len(spec)
        /\ Len(spec) - 1 = Len(i) /\ Len(spec) > 1
    BY <1>1, <2>2
  <2>5. PICK f : Models!Parse(spec, known) = f[Len(spec)] /\ Inner(f, spec, known)
    BY <2>2, <2>4, ParseUnfolds
  <2>6. Models!Levelled(spec) /\ Models!Last(spec) = l
    BY <2>1, <2>2, <2>4 DEF Models!Levelled, Models!Last
  <2>7. Models!Match(spec, known) = <<>>
    <3>1. \A j \in known : ~Models!Includes(j, spec)
      BY <1>6, <2>2
    <3>2. Models!Includes(spec, spec)
      BY <2>3, <2>4 DEF Models!Includes
    <3>3. spec \notin known
      BY <3>1, <3>2
    <3>4. {j \in known : \E a, b \in 1 .. Len(j) : SubSeq(j, a, b) = spec} = {}
      BY <3>1 DEF Models!Includes
    <3> QED BY <3>3, <3>4 DEF Models!Match
  <2>8. f[Len(i)] = [id |-> i, level |-> "default"]
    BY <1>1, <1>4, <2>3, <2>4, <2>5 DEF Inner
  <2>9. f[Len(spec)] = [f[Len(i)] EXCEPT !.level = l]
    <3>1. f[Len(i)].id # <<>>
      BY <1>1, <2>8
    <3> QED BY <2>3, <2>4, <2>5, <2>6, <2>7, <3>1 DEF Inner
  <2>10. Models!Parse(spec, known) = [id |-> i, level |-> l]
    BY <2>5, <2>8, <2>9
  <2> QED BY <1>1, <2>2, <2>10 DEF Models!Resolved
<1> QED BY <1>5, <1>6

LEMMA EditedKept == ModelInv => Models!EditedIsUsed
<1> SUFFICES ASSUME ModelInv, picked.id \in known,
                    picked.level = "default" \/ \A j \in known : ~Models!Includes(j, tierFile),
                    NEW tier \in BOOLEAN
             PROVE  Models!Resolved(Models!AgentSpec(<<>>, tier, <<>>), known) = picked
  BY DEF Models!EditedIsUsed
<1>1. picked # Models!Nothing /\ known \subseteq Ids
  BY IdsAre DEF ModelInv, Models!Nothing
<1>2. PICK i \in known, l \in Models!LevelChoices : picked = [id |-> i, level |-> l]
  BY <1>1 DEF ModelInv, ModelChoices
<1>3. tierFile = Models!Formatted([id |-> i, level |-> l])
  BY <1>1, <1>2 DEF ModelInv
<1>4. l # "default" => tierFile = Append(i, l)
  BY <1>3 DEF Models!Formatted
<1>5. tierFile # <<>> /\ Models!Resolved(tierFile, known) = picked
  BY <1>1, <1>2, <1>3, <1>4, ReadAsStored
<1>6. Models!AgentSpec(<<>>, tier, <<>>) = tierFile
  BY <1>5 DEF Models!AgentSpec
<1> QED BY <1>5, <1>6

-----------------------------------------------------------------------------
(* A finite order that is total ranks its members from 0 on.               *)
Count(R, n, i) == Cardinality({j \in 1 .. n : <<j, i>> \in R})

LEMMA OrderRanks ==
    ASSUME NEW n \in Nat, NEW R, \A i \in 1 .. n : <<i, i>> \notin R,
           \A i, j \in 1 .. n : i # j => <<i, j>> \in R \/ <<j, i>> \in R,
           \A i, j, k \in 1 .. n : <<i, j>> \in R /\ <<j, k>> \in R => <<i, k>> \in R
    PROVE  /\ \A r \in 1 .. n : \E i \in 1 .. n : Count(R, n, i) = r - 1
           /\ \A i \in 1 .. n : Count(R, n, i) \in 0 .. n - 1
           /\ \A i, j \in 1 .. n : <<i, j>> \in R <=> Count(R, n, i) < Count(R, n, j)
<1> DEFINE before(i) == {j \in 1 .. n : <<j, i>> \in R}
<1>1. IsFiniteSet(1 .. n) /\ Cardinality(1 .. n) = n
  BY FS_Interval
<1>2. ASSUME NEW i \in 1 .. n PROVE IsFiniteSet(before(i)) /\ Count(R, n, i) \in 0 .. n - 1
  <2>1. before(i) \in SUBSET ((1 .. n) \ {i})
    OBVIOUS
  <2>2. IsFiniteSet((1 .. n) \ {i}) /\ Cardinality((1 .. n) \ {i}) = n - 1
    BY <1>1, FS_RemoveElement
  <2>3. IsFiniteSet(before(i)) /\ Cardinality(before(i)) <= n - 1
    <3> HIDE DEF before
    <3> QED BY <2>1, <2>2, FS_Subset
  <2>4. Cardinality(before(i)) \in Nat
    BY <2>3, FS_CardinalityType
  <2> QED BY <2>3, <2>4 DEF Count
<1>3. ASSUME NEW i \in 1 .. n, NEW j \in 1 .. n, <<i, j>> \in R
      PROVE  Count(R, n, i) < Count(R, n, j)
  <2>1. before(i) \in SUBSET before(j) /\ before(i) # before(j)
    BY <1>3
  <2> HIDE DEF before
  <2>2. /\ Cardinality(before(i)) <= Cardinality(before(j))
        /\ Cardinality(before(i)) # Cardinality(before(j))
    BY <1>2, <2>1, FS_Subset
  <2>3. Cardinality(before(i)) = Count(R, n, i) /\ Cardinality(before(j)) = Count(R, n, j)
    BY DEF Count, before
  <2>4. Count(R, n, i) \in Nat /\ Count(R, n, j) \in Nat
    BY <1>2
  <2> QED BY <2>2, <2>3, <2>4
<1>4. \A i \in 1 .. n : Count(R, n, i) \in 0 .. n - 1
  BY <1>2
<1>5. \A i, j \in 1 .. n : <<i, j>> \in R => Count(R, n, i) < Count(R, n, j)
  BY <1>3
<1> HIDE DEF before
<1>6. \A i, j \in 1 .. n : <<i, j>> \in R <=> Count(R, n, i) < Count(R, n, j)
  <2> SUFFICES ASSUME NEW i \in 1 .. n, NEW j \in 1 .. n, Count(R, n, i) < Count(R, n, j)
               PROVE  <<i, j>> \in R
    BY <1>5
  <2>1. Count(R, n, i) \in 0 .. n - 1 /\ Count(R, n, j) \in 0 .. n - 1
    BY <1>4
  <2>2. i # j /\ ~(Count(R, n, j) < Count(R, n, i))
    BY <2>1
  <2> QED BY <1>5, <2>2
<1>7. ASSUME NEW r \in 1 .. n PROVE \E i \in 1 .. n : Count(R, n, i) = r - 1
  <2> DEFINE f == [i \in 1 .. n |-> Count(R, n, i)]
  <2>1. f \in [1 .. n -> 0 .. n - 1] /\ \A i \in 1 .. n : f[i] = Count(R, n, i)
    BY <1>4
  <2>2. \A i, j \in 1 .. n : f[i] = f[j] => i = j
    <3> SUFFICES ASSUME NEW i \in 1 .. n, NEW j \in 1 .. n, i # j PROVE f[i] # f[j]
      OBVIOUS
    <3>1. Count(R, n, i) < Count(R, n, j) \/ Count(R, n, j) < Count(R, n, i)
      BY <1>5
    <3>2. Count(R, n, i) \in 0 .. n - 1 /\ Count(R, n, j) \in 0 .. n - 1
      BY <1>4
    <3>3. Count(R, n, i) # Count(R, n, j)
      BY <3>1, <3>2
    <3> QED BY <2>1, <3>3
  <2> HIDE DEF f
  <2>3. f \in Injection(1 .. n, 0 .. n - 1)
    BY <2>1, <2>2 DEF Injection, IsInjective
  <2>4. IsFiniteSet(0 .. n - 1) /\ Cardinality(0 .. n - 1) = n
    BY FS_Interval
  <2>5. f \in Surjection(1 .. n, 0 .. n - 1)
    BY <1>1, <2>3, <2>4, FS_Injection
  <2>6. r - 1 \in 0 .. n - 1
    OBVIOUS
  <2>7. \E i \in 1 .. n : f[i] = r - 1
    BY <2>5, <2>6 DEF Surjection
  <2> QED BY <2>1, <2>7
<1> QED BY <1>4, <1>6, <1>7

(* ModelRouting has its own name for it.                                    *)
LEMMA SameCardinality == \A S : Models!Cardinality(S) = Cardinality(S)
BY Zenon DEF Models!Cardinality, Cardinality

(* A median price is the price of a model.                                 *)
LEMMA MedianIs ==
    ASSUME NEW n \in Nat, NEW ms \in [1 .. n -> Models!Offers], Models!Prices(ms) # {}
    PROVE  Models!Median(ms) \in Models!Prices(ms)
<1> DEFINE half == Cardinality({i \in DOMAIN ms : 0 < ms[i].price}) \div 2
           Fits(p) == /\ Cardinality(Models!Under(ms, p)) <= half
                      /\ half < Cardinality(Models!UpTo(ms, p))
<1>1. DOMAIN ms = 1 .. n /\ \A i \in 1 .. n : ms[i].price \in {0, 1, 2}
  BY DEF Models!Offers
<1>2. IsFiniteSet(1 .. n)
  BY FS_Interval
<1>3. PICK all, one : all = {i \in DOMAIN ms : 0 < ms[i].price} /\ one = Models!UpTo(ms, 1)
  OBVIOUS
<1>4. all \in SUBSET (1 .. n) /\ one \in SUBSET (1 .. n)
  BY <1>1, <1>3 DEF Models!UpTo
<1>5. /\ Models!UpTo(ms, 2) = all /\ Models!Under(ms, 2) = one /\ Models!Under(ms, 1) = {}
      /\ one = {i \in 1 .. n : ms[i].price = 1}
  BY <1>1, <1>3 DEF Models!UpTo, Models!Under
<1>6. IsFiniteSet(all) /\ IsFiniteSet(one) /\ Cardinality(all) \in Nat /\ Cardinality(one) \in Nat
  BY <1>2, <1>4, FS_Subset, FS_CardinalityType
<1>7. all # {}
  BY <1>1, <1>3 DEF Models!Prices
<1>8. Cardinality(all) # 0
  BY <1>6, <1>7, FS_EmptySet
<1>9. PICK h : h = half
  OBVIOUS
<1>10. h = Cardinality(all) \div 2
  BY <1>3, <1>9
<1>11. h \in Nat /\ 0 <= h /\ h < Cardinality(all)
  BY <1>6, <1>8, <1>10
<1>12. Cardinality({}) = 0
  BY FS_EmptySet
<1>13. \E p \in Models!Prices(ms) : Fits(p)
  <2>1. CASE h < Cardinality(one)
    <3>1. one # {}
      BY <1>11, <1>12, <2>1
    <3>2. 1 \in Models!Prices(ms)
      BY <1>1, <1>5, <3>1 DEF Models!Prices
    <3>3. Fits(1)
      BY <1>3, <1>5, <1>9, <1>11, <1>12, <2>1
    <3> QED BY <3>2, <3>3
  <2>2. CASE ~(h < Cardinality(one))
    <3>1. one # all
      BY <1>11, <2>2
    <3>2. 2 \in Models!Prices(ms)
      BY <1>1, <1>3, <1>5, <3>1 DEF Models!Prices
    <3>3. Cardinality(one) <= h
      BY <1>6, <1>11, <2>2
    <3>4. Fits(2)
      BY <1>5, <1>9, <1>11, <3>3
    <3> QED BY <3>2, <3>4
  <2> QED BY <2>1, <2>2
<1> DEFINE Halves(p) ==
             LET k == Models!Cardinality({i \in DOMAIN ms : 0 < ms[i].price}) \div 2
             IN  /\ Models!Cardinality(Models!Under(ms, p)) <= k
                 /\ k < Models!Cardinality(Models!UpTo(ms, p))
<1>14. Models!Median(ms) = CHOOSE p \in Models!Prices(ms) : Halves(p)
  BY Zenon DEF Models!Median
<1>15. \A p : Halves(p) <=> Fits(p)
  BY SameCardinality
<1> HIDE DEF Fits, Halves
<1> QED BY <1>13, <1>14, <1>15

(* A cost is a price, and a hint without a price never costs less than a    *)
(* lower one.                                                              *)
LEMMA CostIs ==
    ASSUME NEW n \in Nat, NEW ms \in [1 .. n -> Models!Offers]
    PROVE  /\ \A i \in 1 .. n : /\ Models!Cost(ms, ms[i]) \in {0, 1, 2}
                                /\ ms[i].price # 0 => Models!Cost(ms, ms[i]) = ms[i].price
                                /\ ms[i].price \in {0, 1, 2} /\ ms[i].hint \in {-1, 0, 1}
           /\ \A i, j \in 1 .. n :
                ms[i].price = 0 /\ ms[j].price = 0 /\ ms[i].hint < ms[j].hint
                   => Models!Cost(ms, ms[i]) <= Models!Cost(ms, ms[j])
<1>1. DOMAIN ms = 1 .. n /\ \A i \in 1 .. n : ms[i].price \in {0, 1, 2} /\ ms[i].hint \in {-1, 0, 1}
  BY DEF Models!Offers
<1>2. PICK P : P = Models!Prices(ms)
  OBVIOUS
<1>3. P \subseteq {1, 2}
  BY <1>1, <1>2 DEF Models!Prices
<1>4. PICK lo, mid, hi : lo = Models!Min(P) /\ mid = Models!Median(ms) /\ hi = Models!Max(P)
  OBVIOUS
<1>5. ASSUME P # {} PROVE {lo, mid, hi} \subseteq {1, 2} /\ lo <= mid /\ mid <= hi
  <2>1. mid \in P
    BY <1>2, <1>4, <1>5, MedianIs
  <2>2. P = {1} \/ P = {2} \/ P = {1, 2}
    BY <1>3, <1>5
  <2>3. \E x \in P : \A y \in P : x <= y
    BY <2>2
  <2>4. \E x \in P : \A y \in P : x >= y
    BY <2>2
  <2>5. lo \in P /\ \A y \in P : lo <= y
    BY <1>4, <2>3 DEF Models!Min
  <2>6. hi \in P /\ \A y \in P : hi >= y
    BY <1>4, <2>4 DEF Models!Max
  <2> QED BY <1>3, <2>1, <2>5, <2>6
<1>6. ASSUME NEW i \in 1 .. n
      PROVE  Models!Cost(ms, ms[i]) = IF ms[i].price # 0 THEN ms[i].price
                                      ELSE IF P = {} THEN 0
                                      ELSE IF ms[i].hint = 1 THEN hi
                                      ELSE IF ms[i].hint = -1 THEN lo ELSE mid
  <2>1. ms[i].hint \in {-1, 0, 1} /\ ms[i].price \in {0, 1, 2}
    BY <1>1
  <2> QED BY <1>2, <1>4, <2>1 DEF Models!Cost
<1> QED BY <1>1, <1>5, <1>6

(* What a catalogue is ranked as.                                          *)
InOrder(ms, n, rank) ==
    /\ \A r \in 1 .. n : rank[r] \in 1 .. n
    /\ \A r, s \in 1 .. n : r < s => Models!Below(ms, rank[r], rank[s])
    /\ \A i \in 1 .. n : \E r \in 1 .. n : i = rank[r]
    /\ \A i, j \in 1 .. n : ~(Models!Below(ms, i, j) /\ Models!Below(ms, j, i))

LEMMA RankIs ==
    ASSUME NEW n \in Nat, NEW ms \in [1 .. n -> Models!Offers], NEW rank, rank = Models!RankedAs(ms)
    PROVE  InOrder(ms, n, rank)
<1>1. PICK R : R = {p \in (1 .. n) \X (1 .. n) : Models!Below(ms, p[1], p[2])}
  OBVIOUS
<1>2. \A i, j \in 1 .. n : <<i, j>> \in R <=> Models!Below(ms, i, j)
  BY <1>1
<1>3. PICK cost : cost = [i \in 1 .. n |-> Models!Cost(ms, ms[i])]
  OBVIOUS
<1>4. \A i \in 1 .. n : cost[i] \in {0, 1, 2} /\ ms[i].hint \in {-1, 0, 1}
  BY <1>3, CostIs
<1>5. \A i, j \in 1 .. n :
         Models!Below(ms, i, j) <=>
            \/ cost[i] < cost[j]
            \/ cost[i] = cost[j] /\ (ms[i].hint < ms[j].hint \/ (ms[i].hint = ms[j].hint /\ i < j))
  BY <1>3 DEF Models!Below
<1>6. /\ \A i \in 1 .. n : <<i, i>> \notin R
      /\ \A i, j \in 1 .. n : i # j => <<i, j>> \in R \/ <<j, i>> \in R
      /\ \A i, j, k \in 1 .. n : <<i, j>> \in R /\ <<j, k>> \in R => <<i, k>> \in R
  <2>1. \A i \in 1 .. n : ~Models!Below(ms, i, i)
    BY <1>4, <1>5
  <2>2. \A i, j \in 1 .. n : i # j => Models!Below(ms, i, j) \/ Models!Below(ms, j, i)
    BY <1>4, <1>5
  <2>3. \A i, j, k \in 1 .. n :
           Models!Below(ms, i, j) /\ Models!Below(ms, j, k) => Models!Below(ms, i, k)
    <3> SUFFICES ASSUME NEW i \in 1 .. n, NEW j \in 1 .. n, NEW k \in 1 .. n,
                        Models!Below(ms, i, j), Models!Below(ms, j, k)
                 PROVE  Models!Below(ms, i, k)
      OBVIOUS
    <3> QED BY <1>4, <1>5
  <2> QED BY <1>2, <2>1, <2>2, <2>3
<1>7. /\ \A r \in 1 .. n : \E i \in 1 .. n : Count(R, n, i) = r - 1
      /\ \A i \in 1 .. n : Count(R, n, i) \in 0 .. n - 1
      /\ \A i, j \in 1 .. n : <<i, j>> \in R <=> Count(R, n, i) < Count(R, n, j)
  BY <1>6, OrderRanks
<1>8. \A i \in 1 .. n : Cardinality({j \in 1 .. n : Models!Below(ms, j, i)}) = Count(R, n, i)
  <2> SUFFICES ASSUME NEW i \in 1 .. n
               PROVE  {j \in 1 .. n : Models!Below(ms, j, i)} = {j \in 1 .. n : <<j, i>> \in R}
    BY DEF Count
  <2> QED BY <1>2
<1>9. rank = [r \in 1 .. n |->
                CHOOSE i \in 1 .. n : Cardinality({j \in 1 .. n : Models!Below(ms, j, i)}) = r - 1]
  <2>1. DOMAIN ms = 1 .. n
    OBVIOUS
  <2>2. rank = [r \in 1 .. n |->
                  CHOOSE i \in 1 .. n :
                     Models!Cardinality({j \in 1 .. n : Models!Below(ms, j, i)}) = r - 1]
    BY <2>1 DEF Models!RankedAs
  <2> QED BY <2>2, SameCardinality
<1>10. \A r \in 1 .. n : rank[r] \in 1 .. n /\ Count(R, n, rank[r]) = r - 1
  <2> SUFFICES ASSUME NEW r \in 1 .. n PROVE rank[r] \in 1 .. n /\ Count(R, n, rank[r]) = r - 1
    OBVIOUS
  <2>1. rank[r] = CHOOSE i \in 1 .. n : Cardinality({j \in 1 .. n : Models!Below(ms, j, i)}) = r - 1
    BY <1>9
  <2>2. \E i \in 1 .. n : Cardinality({j \in 1 .. n : Models!Below(ms, j, i)}) = r - 1
    BY <1>7, <1>8
  <2>3. rank[r] \in 1 .. n /\ Cardinality({j \in 1 .. n : Models!Below(ms, j, rank[r])}) = r - 1
    BY <2>1, <2>2
  <2> QED BY <1>8, <2>3
<1>11. ASSUME NEW r \in 1 .. n, NEW s \in 1 .. n, r < s PROVE Models!Below(ms, rank[r], rank[s])
  <2>1. /\ rank[r] \in 1 .. n /\ Count(R, n, rank[r]) = r - 1
        /\ rank[s] \in 1 .. n /\ Count(R, n, rank[s]) = s - 1
    BY <1>10
  <2>2. Count(R, n, rank[r]) < Count(R, n, rank[s])
    BY <1>11, <2>1
  <2> QED BY <1>2, <1>7, <2>1, <2>2
<1>12. \A i, j \in 1 .. n : ~(Models!Below(ms, i, j) /\ Models!Below(ms, j, i))
  BY <1>2, <1>6
<1>13. ASSUME NEW i \in 1 .. n PROVE \E r \in 1 .. n : i = rank[r]
  <2>1. PICK r \in 1 .. n : r = Count(R, n, i) + 1
    BY <1>7
  <2>2. rank[r] \in 1 .. n /\ Count(R, n, rank[r]) = Count(R, n, i)
    BY <1>7, <1>10, <2>1
  <2>3. ~(<<i, rank[r]>> \in R) /\ ~(<<rank[r], i>> \in R)
    BY <1>7, <2>2
  <2> QED BY <1>6, <2>2, <2>3
<1> QED BY <1>10, <1>11, <1>12, <1>13 DEF InOrder

Weaker(ms, i, j) == \/ 0 < ms[i].price /\ ms[i].price < ms[j].price
                    \/ ms[i].price = ms[j].price /\ ms[i].hint < ms[j].hint

(* Who is weaker by price or, at the same price, by name is ranked below.  *)
LEMMA WeakerIsBelow ==
    ASSUME NEW n \in Nat, NEW ms \in [1 .. n -> Models!Offers], NEW i \in 1 .. n, NEW j \in 1 .. n,
           Weaker(ms, i, j)
    PROVE  Models!Below(ms, i, j)
<1>1. /\ ms[i].price \in {0, 1, 2} /\ ms[j].price \in {0, 1, 2}
      /\ Models!Cost(ms, ms[i]) \in {0, 1, 2} /\ Models!Cost(ms, ms[j]) \in {0, 1, 2}
      /\ ms[i].price # 0 => Models!Cost(ms, ms[i]) = ms[i].price
      /\ ms[j].price # 0 => Models!Cost(ms, ms[j]) = ms[j].price
      /\ ms[i].price = 0 /\ ms[j].price = 0 /\ ms[i].hint < ms[j].hint
           => Models!Cost(ms, ms[i]) <= Models!Cost(ms, ms[j])
  BY CostIs
<1> QED BY <1>1 DEF Weaker, Models!Below

LEMMA TiersFit ==
    ASSUME NEW n \in Nat \ {0}, NEW ms \in [1 .. n -> Models!Offers],
           NEW rank, rank = Models!RankedAs(ms)
    PROVE  \E b \in 1 .. n :
             /\ n >= 3 => 1 < b /\ b < n
             /\ Models!DefaultTiers(ms) = [small |-> rank[1], medium |-> rank[b], big |-> rank[n]]
<1>1. Len(ms) = n
  OBVIOUS
<1>2. Models!DefaultTiers(ms) =
        CASE n >= 3 -> [small |-> rank[1], medium |-> rank[n \div 2 + 1], big |-> rank[n]]
          [] n = 2  -> [small |-> rank[1], medium |-> rank[2], big |-> rank[2]]
          [] OTHER  -> [small |-> rank[1], medium |-> rank[1], big |-> rank[1]]
  BY <1>1, Zenon DEF Models!DefaultTiers
<1>3. PICK b : b = IF n >= 3 THEN n \div 2 + 1 ELSE n
  OBVIOUS
<1>4. b \in 1 .. n /\ (n >= 3 => 1 < b /\ b < n)
  BY <1>3
<1>5. Models!DefaultTiers(ms) = [small |-> rank[1], medium |-> rank[b], big |-> rank[n]]
  <2>1. CASE n >= 3
    BY <1>2, <1>3, <2>1
  <2>2. CASE n = 2
    BY <1>2, <1>3, <2>2
  <2>3. CASE n = 1
    BY <1>2, <1>3, <2>3
  <2> QED BY <2>1, <2>2, <2>3
<1> QED BY <1>4, <1>5

(* The tiers suggested for a catalogue are in order, and apart.            *)
LEMMA TiersInOrder ==
    ASSUME NEW n \in Nat \ {0}, NEW ms \in [1 .. n -> Models!Offers], NEW t, t = Models!DefaultTiers(ms)
    PROVE  /\ n >= 3 => Models!Cardinality({t.small, t.medium, t.big}) = 3
           /\ ~Weaker(ms, t.medium, t.small) /\ ~Weaker(ms, t.big, t.medium)
           /\ \A i \in 1 .. n : ~Weaker(ms, t.big, i) /\ ~Weaker(ms, i, t.small)
<1>1. PICK rank : rank = Models!RankedAs(ms)
  OBVIOUS
<1>2. PICK b \in 1 .. n : /\ n >= 3 => 1 < b /\ b < n
                          /\ t = [small |-> rank[1], medium |-> rank[b], big |-> rank[n]]
  BY <1>1, TiersFit
<1>3. t.small = rank[1] /\ t.medium = rank[b] /\ t.big = rank[n]
  BY <1>2
<1>4. /\ \A r \in 1 .. n : rank[r] \in 1 .. n
      /\ \A r, s \in 1 .. n : r < s => Models!Below(ms, rank[r], rank[s])
      /\ \A i \in 1 .. n : \E r \in 1 .. n : i = rank[r]
      /\ \A i, j \in 1 .. n : ~(Models!Below(ms, i, j) /\ Models!Below(ms, j, i))
  <2>1. InOrder(ms, n, rank)
    BY <1>1, RankIs
  <2> QED BY <2>1 DEF InOrder
<1>5. ASSUME NEW r \in 1 .. n, NEW s \in 1 .. n, r <= s PROVE ~Weaker(ms, rank[s], rank[r])
  <2>1. rank[r] \in 1 .. n /\ rank[s] \in 1 .. n
    BY <1>4
  <2>2. r < s => Models!Below(ms, rank[r], rank[s])
    BY <1>4
  <2>3. ~(Models!Below(ms, rank[r], rank[s]) /\ Models!Below(ms, rank[s], rank[r]))
    BY <1>4, <2>1
  <2>4. ~Models!Below(ms, rank[s], rank[r])
    <3>1. CASE r < s
      BY <2>2, <2>3, <3>1
    <3>2. CASE r = s
      BY <2>3, <3>2
    <3> QED BY <1>5, <3>1, <3>2
  <2> QED BY <2>1, <2>4, WeakerIsBelow
<1>6. 1 \in 1 .. n /\ n \in 1 .. n /\ b \in 1 .. n /\ 1 <= b /\ b <= n
  BY <1>2
<1>7. ~Weaker(ms, t.medium, t.small) /\ ~Weaker(ms, t.big, t.medium)
  BY <1>3, <1>5, <1>6
<1>8. ASSUME NEW i \in 1 .. n PROVE ~Weaker(ms, t.big, i) /\ ~Weaker(ms, i, t.small)
  <2>1. PICK r \in 1 .. n : i = rank[r]
    BY <1>4
  <2> QED BY <1>3, <1>5, <1>6, <2>1
<1>9. ASSUME n >= 3 PROVE Models!Cardinality({t.small, t.medium, t.big}) = 3
  <2>1. \A r, s \in 1 .. n : r < s => rank[r] # rank[s]
    BY <1>4
  <2>2. t.small # t.medium /\ t.small # t.big /\ t.medium # t.big
    BY <1>2, <1>3, <1>6, <1>9, <2>1
  <2>3. PICK x, y, z : x = t.small /\ y = t.medium /\ z = t.big
    OBVIOUS
  <2>4. IsFiniteSet({x}) /\ Cardinality({x}) = 1
    BY FS_Singleton
  <2>5. IsFiniteSet({x} \cup {y}) /\ Cardinality({x} \cup {y}) = 1 + 1
    <3>1. y \notin {x}
      BY <2>2, <2>3
    <3>2. /\ IsFiniteSet({x} \cup {y})
          /\ Cardinality({x} \cup {y}) = IF y \in {x} THEN Cardinality({x}) ELSE Cardinality({x}) + 1
      BY <2>4, FS_AddElement
    <3> QED BY <2>4, <3>1, <3>2
  <2>6. PICK pair : pair = {x} \cup {y}
    OBVIOUS
  <2>7. IsFiniteSet(pair) /\ Cardinality(pair) = 2 /\ z \notin pair
    BY <2>2, <2>3, <2>5, <2>6
  <2>8. Cardinality(pair \cup {z}) = Cardinality(pair) + 1
    BY <2>7, FS_AddElement
  <2>9. {t.small, t.medium, t.big} = pair \cup {z}
    BY <2>3, <2>6
  <2>10. Cardinality(pair \cup {z}) = 3
    BY <2>7, <2>8
  <2> QED BY <2>9, <2>10, SameCardinality, Zenon
<1> QED BY <1>7, <1>8, <1>9

LEMMA TiersKept == ModelInv => Models!NoInversion
<1> SUFFICES ASSUME ModelInv, offer.shown PROVE Models!NoInversion
  BY DEF Models!NoInversion
<1>1. PICK n \in Nat \ {0} : offer.models \in [1 .. n -> Models!Offers]
  BY DEF ModelInv, Catalogue
<1>2. PICK ms, t : ms = offer.models /\ t = Models!DefaultTiers(ms)
  OBVIOUS
<1>3. Len(ms) = n /\ DOMAIN ms = 1 .. n
  BY <1>1, <1>2
<1>4. /\ n >= 3 => Models!Cardinality({t.small, t.medium, t.big}) = 3
      /\ ~Weaker(ms, t.medium, t.small) /\ ~Weaker(ms, t.big, t.medium)
      /\ \A i \in 1 .. n : ~Weaker(ms, t.big, i) /\ ~Weaker(ms, i, t.small)
  BY <1>1, <1>2, TiersInOrder
<1> QED BY <1>2, <1>3, <1>4, Zenon DEF Models!NoInversion, Weaker

-----------------------------------------------------------------------------
LEMMA ModelStarts == Models!Init => ModelInv
<1> SUFFICES ASSUME Models!Init PROVE ModelInv
  OBVIOUS
<1>1. known \subseteq Ids /\ picked = Models!Nothing /\ editor.choice = Models!Nothing
  BY DEF Models!Init
<1>2. topic = "ranks" => Catalogue(offer.models)
  <2>1. SUFFICES ASSUME topic = "ranks" PROVE Catalogue(offer.models)
    OBVIOUS
  <2>2. PICK n \in 1 .. MaxModels : offer.models \in [1 .. n -> Models!Offers]
    BY <2>1 DEF Models!Init
  <2> QED BY <2>2 DEF Catalogue
<1>3. DOMAIN offer = {"shown", "models"} /\ offer.shown = FALSE
  BY DEF Models!Init
<1>4. DOMAIN editor = {"at", "tier", "dirty", "choice"} /\ editor.at = "closed"
  BY DEF Models!Init
<1> QED BY <1>1, <1>2, <1>3, <1>4 DEF ModelInv, ModelChoices, Models!Init, Models!SameDefinition

LEMMA ModelStep == ModelInv /\ [Models!Next]_(Models!mvars) => ModelInv'
<1> SUFFICES ASSUME ModelInv, [Models!Next]_(Models!mvars) PROVE ModelInv'
  OBVIOUS
<1>1. CASE UNCHANGED Models!mvars
  BY <1>1 DEF Models!mvars, ModelInv, Models!SameDefinition, Models!CallHash
<1>2. ASSUME NEW id \in Ids, Models!Tiers(Models!OpenEditor(id)) PROVE ModelInv'
  <2>1. PICK m : m = [at |-> "menu", tier |-> IF tierFile = <<>> THEN id ELSE tierFile,
                      dirty |-> FALSE, choice |-> picked]
    OBVIOUS
  <2>2. /\ editor' = m /\ UNCHANGED <<topic, known, tierFile, picked, loaded, journal, replayed, offer>>
    BY <1>2, <2>1 DEF Models!Tiers, Models!OpenEditor
  <2>3. DOMAIN m = {"at", "tier", "dirty", "choice"} /\ m.choice = picked
    BY <2>1
  <2>4. picked # Models!Nothing => tierFile # <<>>
    <3> SUFFICES ASSUME picked # Models!Nothing PROVE tierFile # <<>>
      OBVIOUS
    <3>1. PICK i \in Ids, l \in Models!LevelChoices : picked = [id |-> i, level |-> l]
      BY DEF ModelInv, ModelChoices
    <3>2. tierFile = IF l = "default" THEN i ELSE Append(i, l)
      BY <3>1 DEF ModelInv, Models!Formatted
    <3>3. i \in Seq(Words) /\ i # <<>>
      BY IdsAre
    <3>4. l # "default" => l \in Words
      BY DEF Models!LevelChoices, Words
    <3> QED BY <3>2, <3>3, <3>4
  <2>5. picked # Models!Nothing => m.tier = Models!Formatted(picked)
    BY <2>1, <2>4 DEF ModelInv
  <2> QED BY <2>2, <2>3, <2>5 DEF ModelInv, Models!SameDefinition, Models!CallHash
<1>3. ASSUME NEW id \in Ids, Models!Tiers(Models!ResetTiers(id)) PROVE ModelInv'
  BY <1>3 DEF Models!Tiers, Models!ResetTiers, ModelInv, ModelChoices, Models!SameDefinition,
       Models!CallHash
<1>4. ASSUME NEW id \in Ids, Models!Tiers(Models!RegistryChanges(id)) PROVE ModelInv'
  BY <1>4 DEF Models!Tiers, Models!RegistryChanges, ModelInv, Models!SameDefinition, Models!CallHash
<1>5. ASSUME NEW id \in Ids, NEW level \in Models!LevelChoices,
             Models!Tiers(Models!EditTier(id, level))
      PROVE  ModelInv'
  BY <1>5 DEF Models!Tiers, Models!EditTier, ModelInv, ModelChoices, Models!SameDefinition,
       Models!CallHash
<1>6. ASSUME NEW save \in BOOLEAN, Models!Tiers(Models!CloseEditor(save)) PROVE ModelInv'
  BY <1>6 DEF Models!Tiers, Models!CloseEditor, ModelInv, Models!SameDefinition, Models!CallHash
<1>7. ASSUME NEW d \in Models!Dirs, NEW kind \in Kinds \cup {"none"},
             Models!Types(Models!EditFile(d, kind))
      PROVE  ModelInv'
  BY <1>7 DEF Models!Types, Models!EditFile, ModelInv, Models!SameDefinition, Models!CallHash
<1>8. CASE Models!Types(Models!Execute)
  BY <1>8 DEF Models!Types, Models!Execute, ModelInv, Models!SameDefinition, Models!CallHash
<1>9. CASE Models!Types(Models!Call)
  <2>1. \A a, b : Models!CallHash(a) = Models!CallHash(b) => a = b
    BY DEF Models!CallHash
  <2>2. \A a : Models!CallHash(a) # <<>>
    BY DEF Models!CallHash
  <2> QED BY <1>9, <2>1, <2>2 DEF Models!Types, Models!Call, ModelInv, Models!SameDefinition
<1>10. CASE Models!Types(Models!PauseRun)
  BY <1>10 DEF Models!Types, Models!PauseRun, ModelInv, Models!SameDefinition, Models!CallHash
<1>11. CASE Models!ShowNotice
  BY <1>11 DEF Models!ShowNotice, ModelInv, Models!SameDefinition, Models!CallHash
<1> QED BY <1>1, <1>2, <1>3, <1>4, <1>5, <1>6, <1>7, <1>8, <1>9, <1>10, <1>11
        DEF Models!Next, Models!Tiers
-----------------------------------------------------------------------------
(* The closeout cards.  A question is decided once, so its record is the   *)
(* only one with its name; what is listed anywhere is on record.           *)

(* What Those goes through: the function its definition chooses.           *)
Sifts(f, ids, S) ==
    /\ f[0] = <<>>
    /\ \A n \in 1 .. Len(ids) :
          f[n] = IF ids[n] \in S THEN Append(f[n - 1], ids[n]) ELSE f[n - 1]

LEMMA ThoseUnfolds ==
    ASSUME NEW ids, Len(ids) \in Nat, NEW S
    PROVE  \E f : Cards!Those(ids, S) = f[Len(ids)] /\ Sifts(f, ids, S)
<1> DEFINE G(n, c) == IF n = 0 THEN <<>>
                      ELSE IF ids[n] \in S THEN Append(c, ids[n]) ELSE c
           Is(f, m) == f = [n \in 0 .. m |-> G(n, f[n - 1])]
           T == {m \in Nat : \E f : Is(f, m)}
<1>1. \A c, d : G(0, c) = G(0, d)
  OBVIOUS
<1>2. Cards!Those(ids, S) = (CHOOSE f : Is(f, Len(ids)))[Len(ids)]
  BY Zenon DEF Cards!Those
<1>3. ASSUME NEW f, Is(f, Len(ids)) PROVE Sifts(f, ids, S)
  <2>1. \A n \in 0 .. Len(ids) : f[n] = G(n, f[n - 1])
    BY <1>3
  <2>2. f[0] = <<>>
    BY <2>1
  <2> HIDE DEF Is
  <2>3. ASSUME NEW n \in 1 .. Len(ids)
        PROVE  f[n] = IF ids[n] \in S THEN Append(f[n - 1], ids[n]) ELSE f[n - 1]
    <3>1. n \in 0 .. Len(ids) /\ n # 0
      OBVIOUS
    <3> QED BY <2>1, <3>1
  <2> QED BY <2>2, <2>3 DEF Sifts
<1> HIDE DEF G
<1>4. 0 \in T
  <2> DEFINE g == [n \in 0 .. 0 |-> G(0, 0)]
  <2>1. \A n \in 0 .. 0 : g[n] = G(n, g[n - 1])
    BY <1>1
  <2>2. g = [n \in 0 .. 0 |-> G(n, g[n - 1])]
    BY <2>1
  <2> HIDE DEF g
  <2> QED BY <2>2
<1>5. ASSUME NEW m \in Nat, m \in T PROVE m + 1 \in T
  <2>1. PICK f : Is(f, m)
    BY <1>5
  <2> DEFINE g == [n \in 0 .. m + 1 |-> IF n <= m THEN f[n] ELSE G(m + 1, f[m])]
  <2>2. ASSUME NEW n \in 0 .. m + 1 PROVE g[n] = G(n, g[n - 1])
    <3>1. CASE n <= m /\ n # 0
      <4>1. n - 1 \in 0 .. m + 1 /\ n - 1 <= m /\ n \in 0 .. m
        BY <3>1
      <4>2. g[n - 1] = f[n - 1] /\ g[n] = f[n]
        BY <3>1, <4>1
      <4> QED BY <2>1, <4>1, <4>2
    <3>2. CASE n = m + 1
      <4>1. n - 1 \in 0 .. m + 1 /\ n - 1 <= m /\ ~ (n <= m) /\ n - 1 = m
        BY <3>2
      <4> QED BY <3>2, <4>1
    <3>3. CASE n = 0
      <4>1. f[0] = G(0, f[0 - 1]) /\ g[n] = f[0]
        BY <2>1, <3>3
      <4> QED BY <1>1, <3>3, <4>1
    <3> QED BY <3>1, <3>2, <3>3
  <2>3. g = [n \in 0 .. m + 1 |-> G(n, g[n - 1])]
    BY <2>2
  <2> HIDE DEF g
  <2> QED BY <2>3
<1> HIDE DEF T
<1>6. Len(ids) \in T
  BY <1>4, <1>5, NatsAll
<1>7. \E f : Is(f, Len(ids))
  BY <1>6 DEF T
<1>8. PICK f : f = CHOOSE h : Is(h, Len(ids))
  OBVIOUS
<1>9. Is(f, Len(ids))
  <2> HIDE DEF Is
  <2> QED BY <1>7, <1>8
<1>10. Cards!Those(ids, S) = f[Len(ids)]
  BY <1>2, <1>8
<1> HIDE DEF Is
<1> QED BY <1>3, <1>9, <1>10

(* It lists what is in s and in S.                                         *)
LEMMA ThoseAre ==
    ASSUME NEW W, NEW s \in Seq(W), NEW S
    PROVE  /\ Cards!Those(s, S) \in Seq(W)
           /\ Cards!ToSet(Cards!Those(s, S)) = Cards!ToSet(s) \cap S
<1>1. PICK f : Cards!Those(s, S) = f[Len(s)] /\ Sifts(f, s, S)
  BY ThoseUnfolds
<1> DEFINE Held(t) == {t[i] : i \in 1 .. Len(t)}
           T == {k \in Nat : k <= Len(s) =>
                   f[k] \in Seq(W) /\ Held(f[k]) = {s[i] : i \in 1 .. k} \cap S}
<1>2. 0 \in T
  <2>1. f[0] = <<>> /\ <<>> \in Seq(W)
    BY <1>1 DEF Sifts
  <2>2. Held(<<>>) = {} /\ {s[i] : i \in 1 .. 0} = {}
    OBVIOUS
  <2> HIDE DEF Held
  <2> QED BY <2>1, <2>2
<1>3. ASSUME NEW k \in Nat, k \in T PROVE k + 1 \in T
  <2> SUFFICES ASSUME k + 1 <= Len(s)
               PROVE  /\ f[k + 1] \in Seq(W)
                      /\ Held(f[k + 1]) = {s[i] : i \in 1 .. k + 1} \cap S
    <3> HIDE DEF Held
    <3> QED OBVIOUS
  <2>1. /\ k + 1 \in 1 .. Len(s) /\ (k + 1) - 1 = k /\ s[k + 1] \in W
        /\ k <= Len(s)
    OBVIOUS
  <2>2. f[k + 1] = IF s[k + 1] \in S THEN Append(f[k], s[k + 1]) ELSE f[k]
    BY <1>1, <2>1 DEF Sifts
  <2>3. f[k] \in Seq(W) /\ Held(f[k]) = {s[i] : i \in 1 .. k} \cap S
    <3> HIDE DEF Held
    <3> QED BY <1>3, <2>1
  <2>4. {s[i] : i \in 1 .. k + 1} = {s[i] : i \in 1 .. k} \cup {s[k + 1]}
    OBVIOUS
  <2>5. ASSUME NEW t \in Seq(W), NEW x \in W
        PROVE  Append(t, x) \in Seq(W) /\ Held(Append(t, x)) = Held(t) \cup {x}
    OBVIOUS
  <2> HIDE DEF Held
  <2> QED BY <2>1, <2>2, <2>3, <2>4, <2>5
<1> HIDE DEF T
<1>4. Len(s) \in T
  BY <1>2, <1>3, NatsAll
<1>5. f[Len(s)] \in Seq(W) /\ Held(f[Len(s)]) = {s[i] : i \in 1 .. Len(s)} \cap S
  BY <1>4 DEF T
<1>6. \A t \in Seq(W) : Cards!ToSet(t) = Held(t)
  BY DEF Cards!ToSet
<1> QED BY <1>1, <1>5, <1>6

(* t goes on where s ends.                                                 *)
GoesOn(s, t) == Len(s) <= Len(t) /\ \A i \in 1 .. Len(s) : t[i] = s[i]

LEMMA ThosePrefix ==
    ASSUME NEW W, NEW s \in Seq(W), NEW t \in Seq(W), GoesOn(s, t),
           NEW S, NEW R, \A i \in 1 .. Len(s) : s[i] \in S <=> s[i] \in R
    PROVE  Cards!IsPrefix(Cards!Those(s, S), Cards!Those(t, R))
<1>1. PICK f : Cards!Those(s, S) = f[Len(s)] /\ Sifts(f, s, S)
  BY ThoseUnfolds
<1>2. PICK h : Cards!Those(t, R) = h[Len(t)] /\ Sifts(h, t, R)
  BY ThoseUnfolds
<1> DEFINE T == {k \in Nat : k <= Len(s) => f[k] = h[k] /\ f[k] \in Seq(W)}
<1>3. Len(s) \in T
  <2>1. 0 \in T
    <3>1. f[0] = <<>> /\ h[0] = <<>> /\ <<>> \in Seq(W)
      BY <1>1, <1>2 DEF Sifts
    <3> QED BY <3>1
  <2>2. ASSUME NEW k \in Nat, k \in T PROVE k + 1 \in T
    <3> SUFFICES ASSUME k + 1 <= Len(s) PROVE f[k + 1] = h[k + 1] /\ f[k + 1] \in Seq(W)
      OBVIOUS
    <3>1. /\ k + 1 \in 1 .. Len(s) /\ k + 1 \in 1 .. Len(t) /\ (k + 1) - 1 = k
          /\ s[k + 1] \in W /\ t[k + 1] = s[k + 1] /\ (s[k + 1] \in S <=> t[k + 1] \in R)
      BY DEF GoesOn
    <3>2. f[k + 1] = IF s[k + 1] \in S THEN Append(f[k], s[k + 1]) ELSE f[k]
      BY <1>1, <3>1 DEF Sifts
    <3>3. h[k + 1] = IF t[k + 1] \in R THEN Append(h[k], t[k + 1]) ELSE h[k]
      BY <1>2, <3>1 DEF Sifts
    <3>4. f[k] = h[k] /\ f[k] \in Seq(W)
      BY <2>2, <3>1
    <3> QED BY <3>1, <3>2, <3>3, <3>4
  <2> HIDE DEF T
  <2> QED BY <2>1, <2>2, NatsAll
<1>4. f[Len(s)] = h[Len(s)] /\ f[Len(s)] \in Seq(W)
  BY <1>3
<1> HIDE DEF T
<1> DEFINE a == f[Len(s)]
           U == {k \in Nat : Len(s) + k <= Len(t) =>
                   h[Len(s) + k] \in Seq(W) /\ GoesOn(a, h[Len(s) + k])}
<1>5. Len(t) - Len(s) \in U
  <2>1. 0 \in U
    BY <1>4 DEF GoesOn
  <2>2. ASSUME NEW k \in Nat, k \in U PROVE k + 1 \in U
    <3> DEFINE n == Len(s) + k
    <3> SUFFICES ASSUME n + 1 <= Len(t) PROVE h[n + 1] \in Seq(W) /\ GoesOn(a, h[n + 1])
      OBVIOUS
    <3>1. n + 1 \in 1 .. Len(t) /\ (n + 1) - 1 = n /\ t[n + 1] \in W
      OBVIOUS
    <3>2. h[n + 1] = IF t[n + 1] \in R THEN Append(h[n], t[n + 1]) ELSE h[n]
      BY <1>2, <3>1 DEF Sifts
    <3>3. h[n] \in Seq(W) /\ GoesOn(a, h[n])
      BY <2>2, <3>1
    <3>4. a \in Seq(W)
      BY <1>4
    <3> HIDE DEF n, a
    <3>5. Append(h[n], t[n + 1]) \in Seq(W) /\ GoesOn(a, Append(h[n], t[n + 1]))
      BY <3>1, <3>3, <3>4 DEF GoesOn
    <3> QED BY <3>2, <3>3, <3>5
  <2>3. Len(t) - Len(s) \in Nat
    BY DEF GoesOn
  <2> HIDE DEF U
  <2> QED BY <2>1, <2>2, <2>3, NatsAll
<1>6. h[Len(t)] \in Seq(W) /\ GoesOn(a, h[Len(t)])
  BY <1>5 DEF GoesOn
<1>7. ASSUME NEW u \in Seq(W), NEW v \in Seq(W), GoesOn(u, v) PROVE Cards!IsPrefix(u, v)
  BY <1>7 DEF GoesOn, Cards!IsPrefix
<1> QED BY <1>1, <1>2, <1>4, <1>6, <1>7

-----------------------------------------------------------------------------
GoalNames == {"first", "second"}
Known(l) == {l[i].of : i \in DOMAIN l}
Lists(l) == {s \in Seq(Questions) : Cards!ToSet(s) \subseteq Known(l)}

IsLedger(l) ==
    /\ l \in Seq(Cards!Precedent)
    /\ \A i, j \in DOMAIN l : l[i].of = l[j].of => i = j

CardInv ==
    /\ asked \in [Questions -> {"none", "open", "decided", "auto"}]
    /\ IsLedger(ledger) /\ \A q \in Known(ledger) : asked[q] = "decided"
    /\ rows \in [GoalNames -> Lists(ledger)]
    /\ \A g \in GoalNames : kept[g].ids \in Lists(ledger)
    /\ kept \in [GoalNames -> [done : BOOLEAN, ids : Seq(Questions)]]

(* A question has one record: it was handed off if any of its records was. *)
LEMMA RecordIs ==
    ASSUME NEW l, IsLedger(l), NEW i \in DOMAIN l
    PROVE  Cards!Record(l, l[i].of) = l[i]
<1>1. \A j \in DOMAIN l : l[j].of = l[i].of => j = i
  BY DEF IsLedger
<1>2. (CHOOSE j \in DOMAIN l : l[j].of = l[i].of) = i
  BY <1>1
<1> QED BY <1>2 DEF Cards!Record

LEMMA LedgerIs ==
    ASSUME NEW l, IsLedger(l)
    PROVE  /\ Cards!Ids(l) \in Seq(Questions) /\ Cards!ToSet(Cards!Ids(l)) = Known(l)
           /\ Len(Cards!Ids(l)) = Len(l) /\ \A i \in 1 .. Len(l) : Cards!Ids(l)[i] = l[i].of
           /\ Len(l) \in Nat /\ DOMAIN l = 1 .. Len(l)
           /\ \A i \in DOMAIN l : l[i] \in Cards!Precedent
<1>1. l \in Seq(Cards!Precedent)
  BY DEF IsLedger
<1>2. Len(l) \in Nat /\ DOMAIN l = 1 .. Len(l) /\ \A i \in DOMAIN l : l[i] \in Cards!Precedent
  BY <1>1
<1>3. \A i \in DOMAIN l : l[i].of \in Questions
  BY <1>2 DEF Cards!Precedent
<1>4. Cards!Ids(l) = [i \in 1 .. Len(l) |-> l[i].of]
  BY <1>2 DEF Cards!Ids
<1>5. Cards!Ids(l) \in Seq(Questions) /\ Len(Cards!Ids(l)) = Len(l)
  BY <1>2, <1>3, <1>4
<1>6. Cards!ToSet(Cards!Ids(l)) = Known(l)
  BY <1>2, <1>4 DEF Cards!ToSet, Known
<1> QED BY <1>2, <1>4, <1>5, <1>6

(* The sequences of questions under concatenation.                         *)
LEMMA ListsJoin ==
    ASSUME NEW s \in Seq(Questions), NEW t \in Seq(Questions)
    PROVE  /\ s \o t \in Seq(Questions) /\ GoesOn(s, s \o t)
           /\ Cards!ToSet(s \o t) = Cards!ToSet(s) \cup Cards!ToSet(t)
<1>1. s \o t \in Seq(Questions) /\ GoesOn(s, s \o t)
  BY DEF GoesOn
<1>2. /\ Len(s) \in Nat /\ Len(t) \in Nat /\ Len(s \o t) = Len(s) + Len(t)
      /\ \A i \in 1 .. Len(s) : (s \o t)[i] = s[i]
      /\ \A i \in 1 .. Len(t) : (s \o t)[Len(s) + i] = t[i]
  OBVIOUS
<1>3. \A u \in Seq(Questions) : Cards!ToSet(u) = {u[i] : i \in 1 .. Len(u)}
  BY DEF Cards!ToSet
<1>4. ASSUME NEW k \in 1 .. Len(s) + Len(t), ~ (k \in 1 .. Len(s))
      PROVE  k - Len(s) \in 1 .. Len(t) /\ Len(s) + (k - Len(s)) = k
  BY <1>2, <1>4
<1>5. \A k \in 1 .. Len(s) : k \in 1 .. Len(s) + Len(t)
  BY <1>2
<1>6. \A k \in 1 .. Len(t) : Len(s) + k \in 1 .. Len(s) + Len(t)
  BY <1>2
<1>7. {(s \o t)[i] : i \in 1 .. Len(s) + Len(t)}
         = {s[i] : i \in 1 .. Len(s)} \cup {t[i] : i \in 1 .. Len(t)}
  <2> DEFINE both == {(s \o t)[i] : i \in 1 .. Len(s) + Len(t)}
             one == {s[i] : i \in 1 .. Len(s)}
             two == {t[i] : i \in 1 .. Len(t)}
  <2>1. ASSUME NEW x \in both PROVE x \in one \cup two
    <3>1. PICK k \in 1 .. Len(s) + Len(t) : x = (s \o t)[k]
      OBVIOUS
    <3>2. CASE k \in 1 .. Len(s)
      BY <1>2, <3>1, <3>2
    <3>3. CASE ~ (k \in 1 .. Len(s))
      <4>1. x = t[k - Len(s)]
        BY <1>2, <1>4, <3>1, <3>3
      <4> QED BY <1>4, <3>3, <4>1
    <3> QED BY <3>2, <3>3
  <2>2. one \subseteq both
    BY <1>2, <1>5
  <2>3. two \subseteq both
    BY <1>2, <1>6
  <2> HIDE DEF one, two, both
  <2>4. both = one \cup two
    BY <2>1, <2>2, <2>3
  <2> QED BY <2>4 DEF one, two, both
<1> QED BY <1>1, <1>2, <1>3, <1>7

(* What a card proposes is on record and neither declined nor handed off.  *)
LEMMA CanonicalAre ==
    ASSUME NEW l, IsLedger(l), NEW g, kept[g].ids \in Lists(l)
    PROVE  /\ Cards!Canonical(l, g) \in Lists(l)
           /\ \A q \in Cards!ToSet(Cards!Canonical(l, g)) : ~Cards!Record(l, q).handed
<1> DEFINE own == kept[g].ids
           rest == Cards!Those(Cards!Ids(l), Questions \ Cards!ToSet(own))
           all == own \o rest
           S == {q \in Cards!ToSet(all) : Cards!Offered(l, q)}
<1>1. own \in Seq(Questions) /\ Cards!ToSet(own) \subseteq Known(l)
  BY DEF Lists
<1>2. rest \in Seq(Questions) /\ Cards!ToSet(rest) \subseteq Known(l)
  <2>1. Cards!Ids(l) \in Seq(Questions) /\ Cards!ToSet(Cards!Ids(l)) = Known(l)
    BY LedgerIs
  <2> HIDE DEF own
  <2> QED BY <2>1, ThoseAre
<1> HIDE DEF own, rest
<1>3. all \in Seq(Questions) /\ Cards!ToSet(all) \subseteq Known(l)
  BY <1>1, <1>2, ListsJoin
<1> HIDE DEF all
<1>4. /\ Cards!Those(all, S) \in Seq(Questions)
      /\ Cards!ToSet(Cards!Those(all, S)) = Cards!ToSet(all) \cap S
  BY <1>3, ThoseAre
<1>5. Cards!Canonical(l, g) = Cards!Those(all, S)
  BY DEF Cards!Canonical, all, rest, own
<1>6. \A q \in S : ~Cards!Record(l, q).handed
  BY DEF Cards!Offered
<1> HIDE DEF S
<1> QED BY <1>3, <1>4, <1>5, <1>6 DEF Lists

(* The rows of a card only grow as it is drawn.                            *)
LEMMA RememberedAre ==
    ASSUME NEW l, IsLedger(l), NEW g, kept[g].ids \in Lists(l), rows[g] \in Lists(l)
    PROVE  Cards!Remembered(l, g) \in Lists(l) /\ GoesOn(rows[g], Cards!Remembered(l, g))
<1> DEFINE new == Cards!Those(Cards!Canonical(l, g), Questions \ Cards!ToSet(rows[g]))
<1>1. Cards!Canonical(l, g) \in Seq(Questions)
      /\ Cards!ToSet(Cards!Canonical(l, g)) \subseteq Known(l)
  BY CanonicalAre DEF Lists
<1>2. new \in Seq(Questions) /\ Cards!ToSet(new) \subseteq Known(l)
  BY <1>1, ThoseAre
<1>3. Cards!Remembered(l, g) = rows[g] \o new
  BY DEF Cards!Remembered
<1> HIDE DEF new
<1>4. rows[g] \in Seq(Questions) /\ Cards!ToSet(rows[g]) \subseteq Known(l)
  BY DEF Lists
<1> QED BY <1>2, <1>3, <1>4, ListsJoin DEF Lists

(* A row is drawn unless its precedent was handed off.                     *)
LEMMA HandedIs ==
    ASSUME NEW l, IsLedger(l), NEW q \in Known(l)
    PROVE  Cards!Record(l, q).handed <=> q \in {l[i].of : i \in {j \in DOMAIN l : l[j].handed}}
<1>1. PICK i \in DOMAIN l : q = l[i].of
  BY DEF Known
<1>2. Cards!Record(l, q) = l[i]
  BY <1>1, RecordIs
<1>3. \A j \in DOMAIN l : l[j].of = q => j = i
  BY <1>1 DEF IsLedger
<1>4. l[i].handed <=> q \in {l[j].of : j \in {k \in DOMAIN l : l[k].handed}}
  BY <1>1, <1>3, Zenon
<1> QED BY <1>2, <1>4

LEMMA DrawnStays ==
    ASSUME CardInv, CardInv', Cards!Handed' = Cards!Handed,
           NEW g \in GoalNames, GoesOn(rows[g], rows'[g])
    PROVE  Cards!IsPrefix(Cards!Drawn(g), Cards!Drawn(g)')
<1> DEFINE S == {q \in Cards!ToSet(rows[g]) : ~Cards!Record(ledger, q).handed}
           R == {q \in Cards!ToSet(rows'[g]) : ~Cards!Record(ledger', q).handed}
<1>1. /\ rows[g] \in Seq(Questions) /\ Cards!ToSet(rows[g]) \subseteq Known(ledger)
      /\ IsLedger(ledger)
  BY DEF CardInv, Lists
<1>2. /\ rows'[g] \in Seq(Questions) /\ Cards!ToSet(rows'[g]) \subseteq Known(ledger')
      /\ IsLedger(ledger')
  BY DEF CardInv, Lists
<1>3. ASSUME NEW i \in 1 .. Len(rows[g]) PROVE rows[g][i] \in S <=> rows[g][i] \in R
  <2> DEFINE q == rows[g][i]
  <2>1. q \in Cards!ToSet(rows[g])
    BY <1>1 DEF Cards!ToSet
  <2>2. i \in 1 .. Len(rows'[g]) /\ rows'[g][i] = q
    BY <1>1, <1>2 DEF GoesOn
  <2>3. q \in Cards!ToSet(rows'[g])
    BY <1>2, <2>2 DEF Cards!ToSet
  <2> HIDE DEF q
  <2>4. Cards!Record(ledger, q).handed <=> q \in Cards!Handed
    BY <1>1, <2>1, HandedIs DEF Cards!Handed
  <2>5. Cards!Record(ledger', q).handed <=> q \in Cards!Handed'
    BY <1>2, <2>3, HandedIs DEF Cards!Handed
  <2>6. q \in S <=> q \in R
    BY <2>1, <2>3, <2>4, <2>5
  <2> QED BY <2>6 DEF q
<1>4. Cards!Drawn(g) = Cards!Those(rows[g], S) /\ Cards!Drawn(g)' = Cards!Those(rows'[g], R)
  BY DEF Cards!Drawn, Cards!Those
<1> HIDE DEF S, R
<1> QED BY <1>1, <1>2, <1>3, <1>4, ThosePrefix

-----------------------------------------------------------------------------
(* A ledger that goes on has what it had.                                  *)
LEMMA ListsGrow ==
    ASSUME NEW l, NEW m, Known(l) \subseteq Known(m) PROVE Lists(l) \subseteq Lists(m)
BY DEF Lists

LEMMA CardStarts == Cards!Init => CardInv
<1> SUFFICES ASSUME Cards!Init PROVE CardInv
  OBVIOUS
<1>1. <<>> \in Seq(Questions) /\ Cards!ToSet(<<>>) = {} /\ <<>> \in Seq(Cards!Precedent)
  BY DEF Cards!ToSet
<1>2. ledger = <<>> /\ Known(ledger) = {} /\ IsLedger(ledger)
  BY <1>1 DEF Cards!Init, IsLedger, Known
<1>3. <<>> \in Lists(ledger)
  BY <1>1, <1>2 DEF Lists
<1>4. /\ asked = [q \in Questions |-> "none"]
      /\ rows = [g \in GoalNames |-> <<>>] /\ kept = [g \in GoalNames |-> [done |-> FALSE, ids |-> <<>>]]
  BY DEF Cards!Init, GoalNames
<1> QED BY <1>1, <1>2, <1>3, <1>4 DEF CardInv

(* Records change, but not whose they are.                                 *)
LEMMA SameKnown ==
    ASSUME NEW l, IsLedger(l), NEW m, m \in [DOMAIN l -> Cards!Precedent],
           \A i \in DOMAIN l : m[i].of = l[i].of
    PROVE  IsLedger(m) /\ Known(m) = Known(l)
<1>1. DOMAIN l = 1 .. Len(l) /\ Len(l) \in Nat
  BY DEF IsLedger
<1>2. m \in Seq(Cards!Precedent) /\ DOMAIN m = DOMAIN l
  BY <1>1
<1> QED BY <1>2 DEF IsLedger, Known

(* The rest of a step over a ledger that is as long.                       *)
LEMMA ChangedKeeps ==
    ASSUME CardInv, UNCHANGED <<asked, kept>>, IsLedger(ledger'), Known(ledger') = Known(ledger),
           rows' \in [GoalNames -> Lists(ledger')]
    PROVE  CardInv'
BY DEF CardInv, Lists

Held(g) == Cards!Handed' = Cards!Handed /\ ~Cards!NewWindow
             => Cards!IsPrefix(Cards!Drawn(g), Cards!Drawn(g)')

(* Where a card is drawn, or not.                                          *)
LEMMA RowsHold ==
    ASSUME CardInv, CardInv', NEW g \in GoalNames, GoesOn(rows[g], rows'[g]) PROVE Held(g)
BY DrawnStays DEF Held

LEMMA SameGoesOn == ASSUME NEW s, Len(s) \in Nat PROVE GoesOn(s, s)
BY DEF GoesOn

LEMMA StillHold ==
    ASSUME CardInv, CardInv', NEW g \in GoalNames, rows'[g] = rows[g] PROVE Held(g)
<1>1. Len(rows[g]) \in Nat
  BY DEF CardInv, Lists
<1> QED BY <1>1, SameGoesOn, RowsHold

AllHold == \A g \in GoalNames : Held(g)

LEMMA AskStep == ASSUME CardInv, NEW q \in Questions, Cards!AddEscalation(q) PROVE CardInv' /\ AllHold
<1>1. CardInv'
  BY DEF CardInv, Cards!AddEscalation
<1> QED BY <1>1, StillHold DEF AllHold, Cards!AddEscalation

LEMMA DecideStep == ASSUME CardInv, NEW q \in Questions, Cards!Decide(q) PROVE CardInv' /\ AllHold
<1>1. q \notin Known(ledger) /\ asked' = [asked EXCEPT ![q] = "decided"] /\ UNCHANGED <<kept, rows>>
  BY DEF Cards!Decide, CardInv
<1> DEFINE r == [of |-> q, declined |-> FALSE, handed |-> FALSE]
<1>2. ledger' = Append(ledger, r) /\ r \in Cards!Precedent /\ r.of = q
  BY DEF Cards!Decide, Cards!Precedent
<1>3. ledger \in Seq(Cards!Precedent) /\ \A i, j \in DOMAIN ledger : ledger[i].of = ledger[j].of => i = j
  BY DEF CardInv, IsLedger
<1> HIDE DEF r
<1>4. /\ ledger' \in Seq(Cards!Precedent) /\ DOMAIN ledger = 1 .. Len(ledger) /\ Len(ledger) \in Nat
      /\ DOMAIN ledger' = 1 .. Len(ledger) + 1 /\ ledger'[Len(ledger) + 1] = r
      /\ \A i \in 1 .. Len(ledger) : ledger'[i] = ledger[i]
  BY <1>2, <1>3
<1>5. \A i \in 1 .. Len(ledger) : ledger[i].of # q
  BY <1>1, <1>4 DEF Known
<1>6. IsLedger(ledger')
  BY <1>2, <1>3, <1>4, <1>5 DEF IsLedger
<1>7. Known(ledger') = Known(ledger) \cup {q}
  BY <1>2, <1>4 DEF Known
<1>8. CardInv'
  <2>1. Lists(ledger) \subseteq Lists(ledger')
    BY <1>7, ListsGrow
  <2>2. \A p \in Known(ledger') : asked'[p] = "decided"
    BY <1>1, <1>3, <1>7 DEF CardInv, IsLedger
  <2> QED BY <1>1, <1>6, <2>1, <2>2 DEF CardInv
<1> QED BY <1>1, <1>8, StillHold DEF AllHold

LEMMA CompleteStep == ASSUME CardInv, NEW g \in GoalNames, Cards!Complete(g) PROVE CardInv' /\ AllHold
<1> DEFINE own == Cards!Those(Cards!Ids(ledger), {q \in Questions : GoalsOf[q] = g})
<1>1. UNCHANGED <<asked, ledger, rows>> /\ kept' = [kept EXCEPT ![g] = [done |-> TRUE, ids |-> own]]
  BY DEF Cards!Complete
<1>2. own \in Lists(ledger)
  <2>1. Cards!Ids(ledger) \in Seq(Questions) /\ Cards!ToSet(Cards!Ids(ledger)) = Known(ledger)
    BY LedgerIs DEF CardInv
  <2> QED BY <2>1, ThoseAre DEF Lists
<1> HIDE DEF own
<1>3. CardInv'
  BY <1>1, <1>2 DEF CardInv, Lists
<1> QED BY <1>1, <1>3, StillHold DEF AllHold

LEMMA OpenStep == ASSUME CardInv, NEW g \in GoalNames, Cards!OpenCard(g) PROVE CardInv' /\ AllHold
<1>1. UNCHANGED <<asked, ledger, kept>> /\ rows' = [rows EXCEPT ![g] = Cards!Remembered(ledger, g)]
  BY DEF Cards!OpenCard
<1>2. Cards!Remembered(ledger, g) \in Lists(ledger) /\ GoesOn(rows[g], Cards!Remembered(ledger, g))
  BY RememberedAre DEF CardInv
<1>3. CardInv'
  BY <1>1, <1>2 DEF CardInv
<1>4. ASSUME NEW h \in GoalNames PROVE Held(h)
  <2>1. CASE h = g
    BY <1>1, <1>2, <1>3, <2>1, RowsHold DEF CardInv
  <2>2. CASE h # g
    BY <1>1, <1>3, <2>2, StillHold DEF CardInv
  <2> QED BY <2>1, <2>2
<1> QED BY <1>3, <1>4 DEF AllHold

LEMMA ToggleStep ==
    ASSUME CardInv, NEW g \in GoalNames, NEW n, Cards!Toggle(g, n) PROVE CardInv' /\ AllHold
<1> DEFINE q == Cards!Drawn(g)[n]
           d == q \notin struck[g]
<1>1. /\ ledger' = Cards!Declined(q, d) /\ rows' = [rows EXCEPT ![g] = Cards!Remembered(ledger', g)]
      /\ UNCHANGED <<asked, kept>> /\ d \in BOOLEAN
  BY Zenon DEF Cards!Toggle
<1> HIDE DEF q, d
<1>2. IsLedger(ledger) /\ \A i \in DOMAIN ledger : ledger[i] \in Cards!Precedent
  BY LedgerIs DEF CardInv
<1>3. /\ ledger' \in [DOMAIN ledger -> Cards!Precedent]
      /\ \A i \in DOMAIN ledger : ledger'[i].of = ledger[i].of
  BY <1>1, <1>2 DEF Cards!Declined, Cards!Precedent
<1>4. IsLedger(ledger') /\ Known(ledger') = Known(ledger)
  BY <1>2, <1>3, SameKnown
<1>5. kept[g].ids \in Lists(ledger') /\ rows[g] \in Lists(ledger')
  BY <1>4 DEF CardInv, Lists
<1>6. Cards!Remembered(ledger', g) \in Lists(ledger') /\ GoesOn(rows[g], Cards!Remembered(ledger', g))
  BY <1>4, <1>5, RememberedAre
<1>7. rows \in [GoalNames -> Lists(ledger')]
  BY <1>4, ListsGrow DEF CardInv
<1>8. CardInv'
  BY <1>1, <1>4, <1>6, <1>7, ChangedKeeps
<1>9. ASSUME NEW h \in GoalNames PROVE Held(h)
  <2>1. CASE h = g
    BY <1>1, <1>6, <1>7, <1>8, <2>1, RowsHold
  <2>2. CASE h # g
    BY <1>1, <1>7, <1>8, <2>2, StillHold
  <2> QED BY <2>1, <2>2
<1> QED BY <1>8, <1>9 DEF AllHold

(* A hand-off is of something: what a card proposed was not handed off.    *)
LEMMA ApplyStep == ASSUME CardInv, NEW g \in GoalNames, Cards!Apply(g) PROVE CardInv' /\ AllHold
<1> DEFINE all == Cards!Canonical(ledger, g)
<1>1. /\ ledger' = [i \in DOMAIN ledger |-> IF ledger[i].of \in Cards!ToSet(all)
                                            THEN [ledger[i] EXCEPT !.handed = TRUE]
                                            ELSE ledger[i]]
      /\ all # <<>> /\ rows' = [rows EXCEPT ![g] = <<>>] /\ UNCHANGED <<asked, kept>>
  BY DEF Cards!Apply
<1>2. IsLedger(ledger) /\ \A i \in DOMAIN ledger : ledger[i] \in Cards!Precedent
  BY LedgerIs DEF CardInv
<1>3. all \in Lists(ledger) /\ \A q \in Cards!ToSet(all) : ~Cards!Record(ledger, q).handed
  BY <1>2, CanonicalAre DEF CardInv
<1> HIDE DEF all
<1>4. /\ ledger' \in [DOMAIN ledger -> Cards!Precedent]
      /\ \A i \in DOMAIN ledger : ledger'[i].of = ledger[i].of
  BY <1>1, <1>2 DEF Cards!Precedent
<1>5. IsLedger(ledger') /\ Known(ledger') = Known(ledger)
  BY <1>2, <1>4, SameKnown
<1>6. rows' \in [GoalNames -> Lists(ledger')]
  <2>1. <<>> \in Lists(ledger')
    BY DEF Lists, Cards!ToSet
  <2>2. rows \in [GoalNames -> Lists(ledger')]
    BY <1>5, ListsGrow DEF CardInv
  <2> QED BY <1>1, <2>1, <2>2
<1>7. CardInv'
  BY <1>1, <1>5, <1>6, ChangedKeeps
<1>8. Cards!Handed' # Cards!Handed
  <2>1. all \in Seq(Questions) /\ Cards!ToSet(all) \subseteq Known(ledger)
    BY <1>3 DEF Lists
  <2>2. all[1] \in Cards!ToSet(all)
    BY <1>1, <2>1 DEF Cards!ToSet
  <2>3. PICK i \in DOMAIN ledger : ledger[i].of = all[1]
    BY <2>1, <2>2 DEF Known
  <2>4. Cards!Record(ledger, all[1]) = ledger[i] /\ ~ledger[i].handed
    BY <1>2, <1>3, <2>2, <2>3, RecordIs
  <2>5. all[1] \notin Cards!Handed
    BY <1>2, <2>3, <2>4 DEF Cards!Handed, IsLedger
  <2>6. i \in DOMAIN ledger' /\ ledger'[i].of = all[1] /\ ledger'[i].handed
    BY <1>1, <1>2, <2>2, <2>3 DEF Cards!Precedent
  <2>7. all[1] \in Cards!Handed'
    BY <2>6 DEF Cards!Handed
  <2> QED BY <2>5, <2>7
<1> QED BY <1>7, <1>8 DEF AllHold, Held

LEMMA ReopenStep == ASSUME CardInv, Cards!Reopen PROVE CardInv' /\ AllHold
<1>1. UNCHANGED <<asked, ledger, kept>> /\ Cards!NewWindow
  BY DEF Cards!Reopen
<1>2. rows' \in [GoalNames -> Lists(ledger')]
  BY <1>1 DEF Cards!NewWindow, Lists, Cards!ToSet, GoalNames
<1>3. CardInv'
  BY <1>1, <1>2, ChangedKeeps DEF CardInv
<1> QED BY <1>1, <1>3 DEF AllHold, Held

LEMMA CardStep == CardInv /\ [Cards!Next]_(Cards!pvars) => CardInv' /\ AllHold
<1> SUFFICES ASSUME CardInv, [Cards!Next]_(Cards!pvars) PROVE CardInv' /\ AllHold
  OBVIOUS
<1>1. ASSUME NEW q \in Questions, Cards!AddEscalation(q) PROVE CardInv' /\ AllHold
  BY <1>1, AskStep
<1>2. ASSUME NEW q \in Questions, Cards!Decide(q) PROVE CardInv' /\ AllHold
  BY <1>2, DecideStep
<1>3. ASSUME NEW g \in GoalNames, Cards!Complete(g) PROVE CardInv' /\ AllHold
  BY <1>3, CompleteStep
<1>4. ASSUME NEW g \in GoalNames, Cards!OpenCard(g) PROVE CardInv' /\ AllHold
  BY <1>4, OpenStep
<1>5. ASSUME NEW g \in GoalNames, Cards!Apply(g) PROVE CardInv' /\ AllHold
  BY <1>5, ApplyStep
<1>6. ASSUME NEW g \in GoalNames, NEW i \in 1 .. 9, Cards!Toggle(g, i) PROVE CardInv' /\ AllHold
  BY <1>6, ToggleStep
<1>7. CASE Cards!Escape \/ UNCHANGED Cards!pvars
  <2>1. UNCHANGED <<asked, ledger, kept, rows>>
    BY <1>7 DEF Cards!Escape, Cards!pvars
  <2>2. CardInv'
    BY <2>1 DEF CardInv
  <2> QED BY <2>1, <2>2, StillHold DEF AllHold
<1>8. CASE Cards!Reopen
  BY <1>8, ReopenStep
<1> QED BY <1>1, <1>2, <1>3, <1>4, <1>5, <1>6, <1>7, <1>8 DEF Cards!Next, GoalNames
=============================================================================
