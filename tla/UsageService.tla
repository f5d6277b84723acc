---------------------------- MODULE UsageService ----------------------------
(***************************************************************************)
(* The provider quotas shown in the footer (usage/service.ts, cache.ts,    *)
(* providers/*.ts, register.ts): refreshes started by a session, by the    *)
(* end of an agent turn and by /usage-refresh, in several pi processes     *)
(* that share the cache file, the refresh lock and the OAuth token of      *)
(* Kimi, which the Kimi CLI rotates as well.                               *)
(*                                                                         *)
(* A refresh is an operation <<process, "auto" or "forced">>.  The lock    *)
(* files are external (proper-lockfile): taken by one holder at a time,    *)
(* and taken over when the holder has died.                                *)
(***************************************************************************)
EXTENDS Integers

CONSTANTS Processes,  \* pi processes
          Settling,   \* those whose session starts or whose turns end
          Forcing,    \* those whose user may enter /usage-refresh
          Providers,  \* of "codex", "claude" and "kimi"
          Age,        \* REFRESH_MINUTES, in ticks
          Life,       \* life of an OAuth token of Kimi
          Horizon     \* bound: the clock

VARIABLES now,
          disk,    \* the cache file
          lock,    \* holder of the refresh lock
          token,   \* credentials/kimi-code.json: its expiry, and whether the
                   \* OAuth server still accepts it for a refresh
          auth,    \* holder of the OAuth lock
          memory,  \* UsageService of each process
          op       \* the refreshes

uvars == <<now, disk, lock, token, auth, memory, op>>

Ops == (Settling \X {"auto"}) \cup (Forcing \X {"forced"})
Forced(o) == o[2] = "forced"

Never  == -1
Nobody == <<"nobody", "none">>
Times  == -1 .. Horizon

Blank == [snap |-> [x \in Providers |-> Never], checked |-> [x \in Providers |-> Never]]
Idle  == [at |-> "idle", due |-> {}, kimi |-> "none", rotated |-> FALSE]
Cache == [snap : [Providers -> Times], checked : [Providers -> Times]]

TypeOK ==
    /\ now \in 0 .. Horizon /\ disk \in Cache
    /\ lock \in Ops \cup {Nobody} /\ auth \in Ops \cup {Nobody}
    /\ token \in [until : Nat, valid : BOOLEAN]
    /\ memory \in [Processes -> [loaded : BOOLEAN, cache : Cache]]
    /\ op \in [Ops -> [at : {"idle", "loading", "locking", "locked", "fetching"},
                       due : SUBSET Providers, rotated : BOOLEAN,
                       kimi : {"none", "stale", "post", "write"}]]

Init ==
    /\ now = 0 /\ disk = Blank /\ lock = Nobody /\ auth = Nobody
    /\ token = [until |-> 0, valid |-> TRUE]
    /\ memory = [p \in Processes |-> [loaded |-> FALSE, cache |-> Blank]]
    /\ op = [o \in Ops |-> Idle]

-----------------------------------------------------------------------------
\* mergeCache: what is newer wins.
Newer(f, g) == [x \in Providers |-> IF g[x] > f[x] THEN g[x] ELSE f[x]]
Merged(c) == [snap |-> Newer(c.snap, disk.snap), checked |-> Newer(c.checked, disk.checked)]

Goto(o, at) == op' = [op EXCEPT ![o].at = at]
Shared == UNCHANGED <<now, disk, token>>

\* session_start, agent_settled, /usage-refresh; loadCache reads once.
Begin(o) ==
    /\ op[o].at = "idle"
    /\ Goto(o, IF memory[o[1]].loaded THEN "locking" ELSE "loading")
    /\ memory' = [memory EXCEPT ![o[1]].loaded = TRUE]
    /\ Shared /\ UNCHANGED <<lock, auth>>

\* A refresh at the start of a session that is gone by now is given up.
Loaded(o, gone) ==
    /\ op[o].at = "loading" /\ (gone => ~Forced(o))
    /\ memory' = [memory EXCEPT ![o[1]].cache = Merged(@)]
    /\ Goto(o, IF gone THEN "idle" ELSE "locking")
    /\ Shared /\ UNCHANGED <<lock, auth>>

AcquireRefreshLock(o) ==
    /\ op[o].at = "locking" /\ lock = Nobody
    /\ lock' = o /\ Goto(o, "locked")
    /\ Shared /\ UNCHANGED <<auth, memory>>

\* An automatic refresh does not wait for the lock, a forced one gives up.
RefreshLockTaken(o) ==
    /\ op[o].at = "locking" /\ lock # Nobody
    /\ Goto(o, "idle")
    /\ Shared /\ UNCHANGED <<lock, auth, memory>>

Due(o, checked) ==
    {x \in Providers : Forced(o) \/ checked[x] = Never \/ now - checked[x] >= Age}

\* runRefresh for every provider due, in parallel
Start(o, cache) ==
    /\ op[o].at = "locked"
    /\ memory' = [memory EXCEPT ![o[1]].cache = cache]
    /\ LET due == Due(o, cache.checked)
       IN  IF due = {} THEN lock' = Nobody /\ Goto(o, "idle")
           ELSE lock' = lock /\ op' = [op EXCEPT ![o].at = "fetching", ![o].due = due]
    /\ Shared /\ UNCHANGED auth

\* Mutant: the cache is not read again under the lock.
RefreshDueMutant(o) == Start(o, memory[o[1]].cache)

\* refreshDue: another process may have refreshed before the lock was free.
RefreshDue(o) == Start(o, Merged(memory[o[1]].cache))

\* What is left of a refresh without the fetch of x
Without(o, x) ==
    LET rest == [op[o] EXCEPT !.due = @ \ {x}]
    IN  IF x = "kimi" THEN [rest EXCEPT !.kimi = "none", !.rotated = FALSE] ELSE rest

\* A fetch settles, with the snapshot of time t, or the one there was.  Under
\* the lock the state runRefresh kept for that case is still the current one.
Settled(o, x, t) ==
    /\ memory' = [memory EXCEPT ![o[1]].cache =
                     [snap |-> [@.snap EXCEPT ![x] = t], checked |-> [@.checked EXCEPT ![x] = now]]]
    /\ op' = [op EXCEPT ![o] = Without(o, x)]

Fetching(o, x) == op[o].at = "fetching" /\ x \in op[o].due

TokenFresh == token.until > now

\* The provider answers; codex after trying each of its credentials.
FetchLive(o, x) ==
    /\ Fetching(o, x)
    /\ x = "kimi" => TokenFresh /\ op[o].kimi = "none"
    /\ Settled(o, x, now)
    /\ Shared /\ UNCHANGED <<lock, auth>>

\* Claude: without an answer, the utilisation Claude Code has cached itself.
FetchCached(o, t) ==
    /\ Fetching(o, "claude") /\ t <= now
    /\ Settled(o, "claude", t)
    /\ Shared /\ UNCHANGED <<lock, auth>>

FetchFails(o, x) ==
    /\ Fetching(o, x) /\ (x = "kimi" => op[o].kimi = "none")
    /\ Settled(o, x, memory[o[1]].cache.snap[x])
    /\ Shared /\ UNCHANGED <<lock, auth>>

\* persistBestEffort, and the release of the lock
Persist(o, written) ==
    /\ op[o].at = "fetching" /\ op[o].due = {}
    /\ disk' = IF written THEN memory[o[1]].cache ELSE disk
    /\ lock' = Nobody /\ Goto(o, "idle")
    /\ UNCHANGED <<now, token, auth, memory>>

-----------------------------------------------------------------------------
\* ensureFreshKimiCredential

\* What every other holder of the old token has is rotated away.
RotatedFor(o, kimi) ==
    op' = [q \in Ops |-> IF q = o THEN [op[q] EXCEPT !.kimi = kimi]
                         ELSE [op[q] EXCEPT !.rotated = op[q].kimi \in {"stale", "post"}]]

KimiStale(o) ==
    /\ Fetching(o, "kimi") /\ op[o].kimi = "none" /\ ~TokenFresh
    /\ op' = [op EXCEPT ![o].kimi = "stale", ![o].rotated = ~token.valid]
    /\ Shared /\ UNCHANGED <<lock, auth, memory>>

\* Mutant: the token read before the lock was taken is the one to refresh.
KimiLockedMutant(o) ==
    /\ op[o].kimi = "stale" /\ auth = Nobody
    /\ op' = [op EXCEPT ![o].kimi = "post"] /\ auth' = o
    /\ Shared /\ UNCHANGED <<lock, memory>>

\* Under the OAuth lock the token is read again: another refresh may have won.
KimiLocked(o) ==
    /\ op[o].kimi = "stale" /\ auth = Nobody
    /\ IF TokenFresh
       THEN op' = [op EXCEPT ![o].kimi = "none", ![o].rotated = FALSE] /\ UNCHANGED auth
       ELSE op' = [op EXCEPT ![o].kimi = "post", ![o].rotated = ~token.valid] /\ auth' = o
    /\ Shared /\ UNCHANGED <<lock, memory>>

\* The server rotates the token presented, unless it has done so before.
KimiRotates(o) ==
    /\ op[o].kimi = "post" /\ ~op[o].rotated
    /\ RotatedFor(o, "write") /\ token' = [token EXCEPT !.valid = FALSE]
    /\ UNCHANGED <<now, disk, lock, auth, memory>>

KimiWritten(o) ==
    /\ op[o].kimi = "write"
    /\ token' = [until |-> now + Life, valid |-> TRUE]
    /\ auth' = Nobody /\ op' = [op EXCEPT ![o].kimi = "none"]
    /\ UNCHANGED <<now, disk, lock, memory>>

\* A refused request, a lost answer, a token that cannot be written.
KimiFails(o) ==
    /\ op[o].kimi \in {"post", "write"}
    /\ auth' = Nobody /\ Settled(o, "kimi", memory[o[1]].cache.snap["kimi"])
    /\ Shared /\ UNCHANGED lock

\* The Kimi CLI refreshes under the same lock, or logs in anew.
Cli ==
    /\ auth = Nobody /\ ~TokenFresh
    /\ RotatedFor(Nobody, "none")
    /\ token' = [until |-> now + Life, valid |-> TRUE]
    /\ UNCHANGED <<now, disk, lock, auth, memory>>

-----------------------------------------------------------------------------
Tick ==
    /\ now < Horizon /\ now' = now + 1
    /\ UNCHANGED <<disk, lock, token, auth, memory, op>>

\* A process dies; its locks are taken over when they have become stale.
Crash(p) ==
    /\ memory[p].loaded
    /\ memory' = [memory EXCEPT ![p] = [loaded |-> FALSE, cache |-> Blank]]
    /\ op' = [o \in Ops |-> IF o[1] = p THEN Idle ELSE op[o]]
    /\ lock' = IF lock[1] = p THEN Nobody ELSE lock
    /\ auth' = IF auth[1] = p THEN Nobody ELSE auth
    /\ Shared

Next ==
    \/ \E p \in Processes : Crash(p)
    \/ \E o \in Ops :
          \/ Begin(o) \/ AcquireRefreshLock(o) \/ RefreshLockTaken(o) \/ RefreshDue(o)
          \/ \E gone \in BOOLEAN : Loaded(o, gone)
          \/ \E x \in Providers : FetchLive(o, x) \/ FetchFails(o, x)
          \/ \E t \in 0 .. now : FetchCached(o, t)
          \/ \E written \in BOOLEAN : Persist(o, written)
          \/ KimiStale(o) \/ KimiLocked(o) \/ KimiRotates(o) \/ KimiWritten(o)
          \/ KimiFails(o)
    \/ Cli \/ Tick

Spec == Init /\ [][Next]_uvars

-----------------------------------------------------------------------------
\* kimi.ts:91-92 "so a concurrent CLI refresh wins without rotating the same
\* token twice": a token the server has rotated away is presented only when
\* the file holds no other, its successor having been lost in a crash.
RotatedOnce ==
    \A o \in Ops : op[o].kimi = "post" /\ op[o].rotated => ~token.valid

\* service.ts:64-65 "the cross-process checkedAt cache caps automatic network
\* calls across Pi sessions": the attempts and snapshots in the file never go
\* back, whichever process writes it, except to what Claude Code had cached.
CacheOnlyAdvances ==
    [][\A x \in Providers :
          /\ disk'.checked[x] >= disk.checked[x]
          /\ x = "claude" \/ disk'.snap[x] >= disk.snap[x]]_uvars
=============================================================================
