------------------------------ MODULE RunLease ------------------------------
(***************************************************************************)
(* The lock file of one run, one file operation at a time: acquireRunLease *)
(* and releaseRunLease of run-persistence.ts in several pi processes, any  *)
(* of which may die between two operations.  WorkflowManager takes each of *)
(* the two as one step; this module says when that is right.               *)
(***************************************************************************)
EXTENDS Naturals

CONSTANTS Pids,      \* pi processes
          MaxTokens  \* bound: tokens made by a process that starts anew

VARIABLES lockFile,   \* the lock file of the run
          contender,  \* what each process does with it
          solo,       \* history: who has tried with nobody else at work
          denied,     \* history: such a process did not get the lease
          raced       \* history: a lock was removed that its remover had not
                      \*   read, or whose maker was about to write it

leaseVars == <<lockFile, contender, solo, denied, raced>>

\* The file of a lease: its process and token, and whether it has content yet.
File(p, n, written) == [pid |-> p, token |-> n, written |-> written]
NoFile  == File(0, 0, FALSE)
Nobody  == 0

Idle == [at |-> "idle", token |-> 0, left |-> 0, read |-> NoFile]

TypeOK ==
    /\ lockFile \in [pid : Pids \cup {0}, token : 0 .. MaxTokens + 1, written : BOOLEAN]
    /\ contender \in [Pids -> [at : {"idle", "opened", "taken", "read", "stale", "again",
                                     "held", "release", "dead"},
                               token : 0 .. MaxTokens + 1, left : 0 .. 1,
                               read : [pid : Pids \cup {0}, token : 0 .. MaxTokens + 1,
                                       written : BOOLEAN]]]
    /\ solo \in Pids \cup {Nobody} /\ {denied, raced} \subseteq BOOLEAN

\* A process of the past may have left its lock, written or not.
Init ==
    /\ lockFile \in {NoFile, File(0, 1, TRUE), File(0, 1, FALSE)}
    /\ contender = [p \in Pids |-> Idle]
    /\ solo = Nobody /\ denied = FALSE /\ raced = FALSE

Goes(p, at) == contender' = [contender EXCEPT ![p].at = at]

\* acquireRunLease returns null.
Refused(p) == Goes(p, "idle") /\ denied' = (denied \/ solo = p)

-----------------------------------------------------------------------------
\* acquireRunLease

\* Mutant: the lock that was found stale is removed, but not taken.
AttemptsMutant == 1
Attempts == 2

\* The exclusive open: it makes an empty file, or fails because there is one.
Open(p) ==
    LET c == contender[p]
    IN  /\ c.at = "again" \/ (c.at = "idle" /\ c.token < MaxTokens)
        /\ contender' = [contender EXCEPT
              ![p] = [at |-> IF lockFile = NoFile THEN "opened" ELSE "taken",
                      token |-> c.token + 1, read |-> NoFile,
                      left |-> (IF c.at = "again" THEN c.left ELSE Attempts) - 1]]
        /\ lockFile' = IF lockFile = NoFile THEN File(p, c.token + 1, FALSE) ELSE lockFile
        /\ UNCHANGED <<denied, raced>>

Mine(p) == lockFile.pid = p /\ lockFile.token = contender[p].token

\* The content goes to the file that was opened, removed meanwhile or not.  A
\* write that fails is thrown and leaves the file.
Write(p) ==
    /\ contender[p].at = "opened"
    /\ \/ Goes(p, "held") /\ lockFile' = [lockFile EXCEPT !.written = @ \/ Mine(p)]
       \/ Goes(p, "idle") /\ lockFile' = lockFile
    /\ UNCHANGED <<denied, raced>>

\* readLock: an unwritten lock, or none, is null.
Read(p) ==
    /\ contender[p].at = "taken"
    /\ contender' = [contender EXCEPT ![p].at = "read", ![p].read = lockFile]
    /\ UNCHANGED <<lockFile, denied, raced>>

\* Mutant: whose lock it is is not asked.
LivesMutant(f) == FALSE

Lives(f) == f.written /\ f.pid \in Pids /\ contender[f.pid].at # "dead"

Judge(p) ==
    /\ contender[p].at = "read"
    /\ IF Lives(contender[p].read) THEN Refused(p)
       ELSE Goes(p, "stale") /\ denied' = denied
    /\ UNCHANGED <<lockFile, raced>>

\* Whether the maker of the lock is yet to write it.
BeingWritten == \E q \in Pids : contender[q].at = "opened" /\ Mine(q)

Unlink(p) ==
    /\ contender[p].at = "stale"
    /\ lockFile' = NoFile
    /\ raced' = (raced \/ (lockFile # NoFile /\ (lockFile # contender[p].read \/ BeingWritten)))
    /\ IF lockFile # NoFile /\ contender[p].left > 0
       THEN Goes(p, "again") /\ denied' = denied
       ELSE Refused(p)

-----------------------------------------------------------------------------
\* releaseRunLease: the lock is removed if it has the token.
Release(p) ==
    /\ contender[p].at = "held"
    /\ Goes(p, IF lockFile.written /\ Mine(p) THEN "release" ELSE "idle")
    /\ UNCHANGED <<lockFile, denied, raced>>

Drop(p) ==
    /\ contender[p].at = "release"
    /\ lockFile' = NoFile /\ Goes(p, "idle") /\ UNCHANGED <<denied, raced>>

Crash(p) ==
    /\ contender[p].at # "dead"
    /\ Goes(p, "dead") /\ UNCHANGED <<lockFile, denied, raced>>

\* p tries while no other process holds the lease or is after it.
Alone(p) == \A q \in Pids \ {p} : contender[q].at \in {"idle", "dead"}

Step(p) == Open(p) \/ Write(p) \/ Read(p) \/ Judge(p) \/ Unlink(p) \/ Release(p) \/ Drop(p)
              \/ Crash(p)

Next == \E p \in Pids :
    /\ Step(p)
    /\ solo' = IF (contender[p].at = "idle" /\ Alone(p)) \/ solo = p THEN p ELSE Nobody

Spec == Init /\ [][Next]_leaseVars

-----------------------------------------------------------------------------
\* run-persistence.ts:91 "an exclusive cross-process lease": one process has it and its file
\* says so, unless a lock was removed by a process that had read another, or
\* before its maker had written it.  A process that tries while nobody else
\* does gets the lease, whatever dead processes and failed writes have left.
Held == {p \in Pids : contender[p].at = "held"}

LeaseIsSound ==
    /\ ~raced => \A p, q \in Held : p = q /\ lockFile.written /\ Mine(p)
    /\ ~denied

\* Not a property of the code: see the README, section 6.
LeaseIsExclusive == \A p, q \in Held : p = q
=============================================================================
