------------------------------- MODULE LWLock -------------------------------
(***************************************************************************)
(* One lightweight lock of storage/lmgr/lwlock.c: its atomic state word,   *)
(* its wait list, and the processes that acquire it, wait for it, update   *)
(* its variable and release it.  A step is one atomic operation on the     *)
(* state word, one use of the wait list under LW_FLAG_LOCKED, or one       *)
(* operation on a semaphore.                                               *)
(***************************************************************************)
EXTENDS Integers, Sequences, FiniteSets

CONSTANTS
  Procs,              \* the PGPROCs
  LW_VAL_EXCLUSIVE,   \* what an exclusive holder adds to the state word
  InitUses,           \* the uses of the lock to be looked at
  MaxCalls,           \* bound: calls that acquire or wait
  MaxVal,             \* bound: values of the lock's variable
  MaxSignals          \* bound: wakeups of a process for other reasons, [Procs -> Nat]

\* The comment on LW_SHARED_MASK: the sentinel is greater than MAX_BACKENDS.
ASSUME LWLockAssumption ==
  /\ IsFiniteSet(Procs)
  /\ LW_VAL_EXCLUSIVE \in Nat /\ Cardinality(Procs) < LW_VAL_EXCLUSIVE
  /\ InitUses \subseteq {"insert", "write"}
  /\ MaxCalls \in Nat /\ MaxVal \in Nat /\ MaxSignals \in [Procs -> Nat]

VARIABLES
  use,            \* "write" like WALWriteLock, "insert" like a WAL insertion lock
  lockcount,      \* state & LW_LOCK_MASK
  hasWaiters,     \* state & LW_FLAG_HAS_WAITERS
  releaseOk,      \* state & LW_FLAG_RELEASE_OK
  locked,         \* state & LW_FLAG_LOCKED: the wait list is locked
  waiters,        \* lock->waiters, the front first
  value,          \* *valptr
  lwWaiting, sem,           \* of the PGPROCs
  pc, call, mode, oldval, extraWaits, held,   \* of the processes' own
  wakeup, waiter, wokeup_somebody,            \* locals of LWLockWakeup
  ncalls, signals \* history: calls made, wakeups for other reasons

word == <<lockcount, hasWaiters, releaseOk, locked>>
sleepers == <<lwWaiting, sem>>
callers == <<call, mode, oldval, extraWaits, held>>
waking == <<wakeup, waiter, wokeup_somebody>>
history == <<use, ncalls, signals>>
vars == <<word, waiters, value, sleepers, pc, callers, waking, history>>

Modes == {"shared", "exclusive"}
At(p, l) == pc[p] = l
Goto(p, l) == pc' = [pc EXCEPT ![p] = l]

\* LWLockInitialize, and InitProcess.
Init ==
  /\ use \in InitUses
  /\ lockcount = 0 /\ hasWaiters = FALSE /\ releaseOk = TRUE /\ locked = FALSE
  /\ waiters = <<>> /\ value = 0
  /\ lwWaiting = [p \in Procs |-> FALSE]
  /\ sem = [p \in Procs |-> 0]
  /\ pc = [p \in Procs |-> "idle"]
  /\ call = [p \in Procs |-> "acquire"]
  /\ mode = [p \in Procs |-> "shared"]
  /\ oldval = [p \in Procs |-> 0]
  /\ extraWaits = [p \in Procs |-> 0]
  /\ held = [p \in Procs |-> "none"]
  /\ wakeup = [p \in Procs |-> <<>>]
  /\ waiter = [p \in Procs |-> p]
  /\ wokeup_somebody = [p \in Procs |-> FALSE]
  /\ ncalls = 0 /\ signals = [p \in Procs |-> 0]

-----------------------------------------------------------------------------
(* Calls *)

\* A process that does not hold the lock calls one of the functions that wait.
Begin(p, c, m, old, l) ==
  /\ At(p, "idle") /\ held[p] = "none"
  /\ ncalls < MaxCalls
  /\ ncalls' = ncalls + 1
  /\ call' = [call EXCEPT ![p] = c]
  /\ mode' = [mode EXCEPT ![p] = m]
  /\ oldval' = [oldval EXCEPT ![p] = old]
  /\ Goto(p, l)
  /\ UNCHANGED <<use, signals, word, waiters, value, sleepers, extraWaits, held, waking>>

\* WALInsertLockAcquire and XLogFlush ask for exclusive mode only.
LWLockAcquire(p) ==
  \E m \in Modes :
    /\ use = "insert" => m = "exclusive"
    /\ Begin(p, "acquire", m, 0, "attempt")

LWLockAcquireOrWait(p) ==
  /\ use = "write"
  /\ Begin(p, "orwait", "exclusive", 0, "attempt")

LWLockWaitForVar(p) ==
  /\ use = "insert"
  /\ \E old \in 0 .. MaxVal : Begin(p, "waitvar", "exclusive", old, "check")

-----------------------------------------------------------------------------
(* Taking the lock *)

\* Mutant: sharers do not keep an exclusive locker out.
lock_freeOfExclusive(m) == m \in Modes /\ lockcount < LW_VAL_EXCLUSIVE

\* The compare-and-exchange loop of LWLockAttemptLock ends in one of two ways.
lock_free(m) == IF m = "exclusive" THEN lockcount = 0 ELSE lockcount < LW_VAL_EXCLUSIVE

Take(p, m) ==
  /\ lock_free(m)
  /\ lockcount' = lockcount + (IF m = "exclusive" THEN LW_VAL_EXCLUSIVE ELSE 1)
  /\ held' = [held EXCEPT ![p] = m]

\* LWLockAttemptLock, before queueing and again after it.
LWLockAttemptLock(p) ==
  /\ At(p, "attempt") \/ At(p, "reattempt")
  /\ \/ /\ Take(p, mode[p])
        /\ Goto(p, IF At(p, "attempt") THEN "return" ELSE "dequeue")
     \/ /\ ~lock_free(mode[p])
        /\ Goto(p, IF At(p, "attempt") THEN "queue" ELSE "sleep")
        /\ UNCHANGED <<lockcount, held>>
  /\ UNCHANGED <<hasWaiters, releaseOk, locked, waiters, value, sleepers, call, mode, oldval,
                 extraWaits, waking, history>>

\* A failed attempt leaves no trace.
LWLockConditionalAcquire(p) ==
  /\ At(p, "idle") /\ held[p] = "none" /\ use = "write"
  /\ ncalls < MaxCalls
  /\ ncalls' = ncalls + 1
  /\ \E m \in Modes : Take(p, m)
  /\ UNCHANGED <<use, signals, hasWaiters, releaseOk, locked, waiters, value, sleepers, pc, call,
                 mode, oldval, extraWaits, waking>>

-----------------------------------------------------------------------------
(* Waiting for the variable *)

(***************************************************************************)
(* LWLockConflictsWithVar, before queueing and again after it: first the   *)
(* state word, then the variable, read with the wait list locked.          *)
(***************************************************************************)
ConflictsWithLock(p) ==
  /\ At(p, "check") \/ At(p, "recheck")
  /\ Goto(p, IF lockcount >= LW_VAL_EXCLUSIVE
             THEN IF At(p, "check") THEN "value" ELSE "revalue"
             ELSE IF At(p, "check") THEN "return" ELSE "dequeue")
  /\ UNCHANGED <<word, waiters, value, sleepers, callers, waking, history>>

ConflictsWithValue(p) ==
  /\ At(p, "value") \/ At(p, "revalue")
  /\ ~locked
  /\ Goto(p, IF value = oldval[p]
             THEN IF At(p, "value") THEN "queue" ELSE "sleep"
             ELSE IF At(p, "value") THEN "return" ELSE "dequeue")
  /\ UNCHANGED <<word, waiters, value, sleepers, callers, waking, history>>

-----------------------------------------------------------------------------
(* The wait list *)

\* LWLockWaitListLock, at the start of queueing, dequeueing and waking up.
LWLockWaitListLock(p) ==
  /\ ~locked
  /\ \/ At(p, "queue") /\ Goto(p, "flag")
     \/ At(p, "dequeue") /\ Goto(p, "unlink")
     \/ At(p, "wakeup") /\ Goto(p, "collect")
  /\ locked' = TRUE
  /\ UNCHANGED <<lockcount, hasWaiters, releaseOk, waiters, value, sleepers, callers, waking, history>>

\* lwWaitMode, as LWLockQueueSelf's callers pass it; it is read for processes in the list only.
lwWaitMode(p) == IF call[p] = "acquire" THEN mode[p] ELSE "untilfree"

\* LWLockQueueSelf: the flag, then the process at the end or, to wait until free, at the front.
QueueFlag(p) ==
  /\ At(p, "flag")
  /\ hasWaiters' = TRUE
  /\ Goto(p, "push")
  /\ UNCHANGED <<lockcount, releaseOk, locked, waiters, value, sleepers, callers, waking, history>>

\* Mutant: all waiters go to the end of the list.
QueueSelfAtEnd(p) ==
  /\ At(p, "push")
  /\ lwWaiting' = [lwWaiting EXCEPT ![p] = TRUE]
  /\ waiters' = Append(waiters, p)
  /\ locked' = FALSE
  /\ Goto(p, IF call[p] = "waitvar" THEN "setok" ELSE "reattempt")
  /\ UNCHANGED <<lockcount, hasWaiters, releaseOk, value, sem, callers, waking, history>>

\* Mutant: no second attempt after queueing.
QueueSelfAndSleep(p) ==
  /\ At(p, "push")
  /\ lwWaiting' = [lwWaiting EXCEPT ![p] = TRUE]
  /\ waiters' = IF call[p] = "acquire" THEN Append(waiters, p) ELSE <<p>> \o waiters
  /\ locked' = FALSE
  /\ Goto(p, IF call[p] = "waitvar" THEN "setok" ELSE "sleep")
  /\ UNCHANGED <<lockcount, hasWaiters, releaseOk, value, sem, callers, waking, history>>

LWLockQueueSelf(p) ==
  /\ At(p, "push")
  /\ lwWaiting' = [lwWaiting EXCEPT ![p] = TRUE]
  /\ waiters' = IF call[p] = "acquire" THEN Append(waiters, p) ELSE <<p>> \o waiters
  /\ locked' = FALSE
  /\ Goto(p, IF call[p] = "waitvar" THEN "setok" ELSE "reattempt")
  /\ UNCHANGED <<lockcount, hasWaiters, releaseOk, value, sem, callers, waking, history>>

\* proclist_delete.
Without(s, i) == [j \in 1 .. Len(s) - 1 |-> IF j < i THEN s[j] ELSE s[j + 1]]

Queued(p) == \E i \in DOMAIN waiters : waiters[i] = p

\* Mutant: lwWaiting is left set.
DequeueSelfStillWaiting(p) ==
  /\ At(p, "unlink")
  /\ \/ \E i \in DOMAIN waiters :
          /\ waiters[i] = p
          /\ waiters' = Without(waiters, i)
          /\ lwWaiting' = [lwWaiting EXCEPT ![p] = TRUE]
          /\ Goto(p, "return")
     \/ ~Queued(p) /\ Goto(p, "resetok") /\ UNCHANGED <<waiters, lwWaiting>>
  /\ hasWaiters' = (hasWaiters /\ waiters' # <<>>)
  /\ locked' = FALSE
  /\ UNCHANGED <<lockcount, releaseOk, value, sem, callers, waking, history>>

\* LWLockDequeueSelf, with the list locked: the process is in it, unless someone took it out.
LWLockDequeueSelf(p) ==
  /\ At(p, "unlink")
  /\ \/ \E i \in DOMAIN waiters :
          /\ waiters[i] = p
          /\ waiters' = Without(waiters, i)
          /\ lwWaiting' = [lwWaiting EXCEPT ![p] = FALSE]
          /\ Goto(p, "return")
     \/ ~Queued(p) /\ Goto(p, "resetok") /\ UNCHANGED <<waiters, lwWaiting>>
  /\ hasWaiters' = (hasWaiters /\ waiters' # <<>>)
  /\ locked' = FALSE
  /\ UNCHANGED <<lockcount, releaseOk, value, sem, callers, waking, history>>

(***************************************************************************)
(* LW_FLAG_RELEASE_OK is set by a process about to wait for the variable,  *)
(* by one about to retry and by one that was taken off the list while it   *)
(* got the lock by itself.                                                 *)
(***************************************************************************)
SetReleaseOk(p) ==
  /\ \/ At(p, "setok") /\ Goto(p, "recheck")
     \/ At(p, "woken") /\ Goto(p, "attempt")
     \/ At(p, "resetok") /\ Goto(p, "absorb")
  /\ releaseOk' = TRUE
  /\ UNCHANGED <<lockcount, hasWaiters, locked, waiters, value, sleepers, callers, waking, history>>

(***************************************************************************)
(* The loops around PGSemaphoreLock: a wakeup that finds lwWaiting still   *)
(* set was for someone else's reason, and is put back on return.           *)
(***************************************************************************)
PGSemaphoreLock(p) ==
  /\ At(p, "sleep") \/ At(p, "absorb")
  /\ sem[p] > 0
  /\ sem' = [sem EXCEPT ![p] = @ - 1]
  /\ IF lwWaiting[p]
     THEN extraWaits' = [extraWaits EXCEPT ![p] = @ + 1] /\ UNCHANGED pc
     ELSE /\ Goto(p, IF At(p, "sleep") /\ call[p] = "acquire" THEN "woken"
                     ELSE IF At(p, "sleep") /\ call[p] = "waitvar" THEN "check" ELSE "return")
          /\ UNCHANGED extraWaits
  /\ UNCHANGED <<word, waiters, value, lwWaiting, call, mode, oldval, held, waking, history>>

\* Mutant: the wakeups absorbed are not put back.
ReturnAbsorbing(p) ==
  /\ At(p, "return")
  /\ sem' = [sem EXCEPT ![p] = @]
  /\ extraWaits' = [extraWaits EXCEPT ![p] = 0]
  /\ call' = [call EXCEPT ![p] = "acquire"]
  /\ mode' = [mode EXCEPT ![p] = "shared"]
  /\ oldval' = [oldval EXCEPT ![p] = 0]
  /\ Goto(p, "idle")
  /\ UNCHANGED <<word, waiters, value, lwWaiting, held, waking, history>>

\* The locals of the call are gone with it.
Return(p) ==
  /\ At(p, "return")
  /\ sem' = [sem EXCEPT ![p] = @ + extraWaits[p]]
  /\ extraWaits' = [extraWaits EXCEPT ![p] = 0]
  /\ call' = [call EXCEPT ![p] = "acquire"]
  /\ mode' = [mode EXCEPT ![p] = "shared"]
  /\ oldval' = [oldval EXCEPT ![p] = 0]
  /\ Goto(p, "idle")
  /\ UNCHANGED <<word, waiters, value, lwWaiting, held, waking, history>>

-----------------------------------------------------------------------------
(* Releasing the lock and waking up *)

\* Mutant: every holder is taken for an exclusive one.
ReleaseExclusive(p) ==
  /\ At(p, "idle") \/ At(p, "release")
  /\ held[p] # "none"
  /\ lockcount' = lockcount - LW_VAL_EXCLUSIVE
  /\ held' = [held EXCEPT ![p] = "none"]
  /\ Goto(p, IF hasWaiters /\ releaseOk /\ lockcount' = 0 THEN "wakeup" ELSE "idle")
  /\ UNCHANGED <<hasWaiters, releaseOk, locked, waiters, value, sleepers, call, mode, oldval,
                 extraWaits, waking, history>>

\* LWLockRelease, and LWLockReleaseAll on an error.
LWLockRelease(p) ==
  /\ At(p, "idle") \/ At(p, "release")
  /\ held[p] # "none"
  /\ lockcount' = lockcount - (IF held[p] = "exclusive" THEN LW_VAL_EXCLUSIVE ELSE 1)
  /\ held' = [held EXCEPT ![p] = "none"]
  /\ Goto(p, IF hasWaiters /\ releaseOk /\ lockcount' = 0 THEN "wakeup" ELSE "idle")
  /\ UNCHANGED <<hasWaiters, releaseOk, locked, waiters, value, sleepers, call, mode, oldval,
                 extraWaits, waking, history>>

LWLockReleaseClearVar(p) ==
  /\ At(p, "idle") /\ use = "insert" /\ held[p] = "exclusive"
  /\ ~locked
  /\ value' = 0
  /\ Goto(p, "release")
  /\ UNCHANGED <<word, waiters, sleepers, callers, waking, history>>

\* LWLockUpdateVar, up to the scan of the wait list.
LWLockUpdateVar(p) ==
  /\ At(p, "idle") /\ use = "insert" /\ held[p] = "exclusive"
  /\ ~locked
  /\ \E v \in value + 1 .. MaxVal : value' = v
  /\ locked' = TRUE
  /\ Goto(p, "scan")
  /\ UNCHANGED <<lockcount, hasWaiters, releaseOk, waiters, sleepers, callers, waking, history>>

Move(p, i) ==
  /\ waiters' = Without(waiters, i)
  /\ wakeup' = [wakeup EXCEPT ![p] = Append(@, waiters[i])]

\* Mutant: the wait list stays locked when there is nobody to wake up.
ScanVarLocked(p) ==
  /\ At(p, "scan")
  /\ IF waiters # <<>> /\ lwWaitMode(waiters[1]) = "untilfree"
     THEN Move(p, 1) /\ UNCHANGED <<locked, pc>>
     ELSE /\ locked' = (wakeup[p] = <<>>)
          /\ Goto(p, IF wakeup[p] = <<>> THEN "idle" ELSE "wake")
          /\ UNCHANGED <<waiters, wakeup>>
  /\ UNCHANGED <<lockcount, hasWaiters, releaseOk, value, sleepers, callers, waiter, wokeup_somebody,
                 history>>

ScanVar(p) ==
  /\ At(p, "scan")
  /\ IF waiters # <<>> /\ lwWaitMode(waiters[1]) = "untilfree"
     THEN Move(p, 1) /\ UNCHANGED <<locked, pc>>
     ELSE /\ locked' = FALSE
          /\ Goto(p, IF wakeup[p] = <<>> THEN "idle" ELSE "wake")
          /\ UNCHANGED <<waiters, wakeup>>
  /\ UNCHANGED <<lockcount, hasWaiters, releaseOk, value, sleepers, callers, waiter, wokeup_somebody,
                 history>>

(***************************************************************************)
(* LWLockWakeup: the next waiter its loop does not pass over.  Once one    *)
(* that will retry is on the way, others are passed over if exclusive; an  *)
(* exclusive one ends the loop.                                            *)
(***************************************************************************)
Passed(p, i) == wokeup_somebody[p] /\ lwWaitMode(waiters[i]) = "exclusive"

Collect(p) ==
  /\ At(p, "collect")
  /\ \/ \E i \in DOMAIN waiters :
          /\ ~Passed(p, i) /\ \A j \in 1 .. i - 1 : Passed(p, j)
          /\ Move(p, i)
          /\ wokeup_somebody' = [wokeup_somebody EXCEPT ![p] =
                                   @ \/ lwWaitMode(waiters[i]) # "untilfree"]
          /\ Goto(p, IF lwWaitMode(waiters[i]) = "exclusive" THEN "flags" ELSE "collect")
     \/ /\ \A i \in DOMAIN waiters : Passed(p, i)
        /\ Goto(p, "flags")
        /\ UNCHANGED <<waiters, wakeup, wokeup_somebody>>
  /\ UNCHANGED <<word, value, sleepers, callers, waiter, history>>

\* The flags and the wait list's lock in one exchange; new_release_ok is ~wokeup_somebody.
LWLockWakeup(p) ==
  /\ At(p, "flags")
  /\ releaseOk' = ~wokeup_somebody[p]
  /\ hasWaiters' = (hasWaiters /\ wakeup[p] # <<>>)
  /\ locked' = FALSE
  /\ wokeup_somebody' = [wokeup_somebody EXCEPT ![p] = FALSE]
  /\ Goto(p, IF wakeup[p] = <<>> THEN "idle" ELSE "wake")
  /\ UNCHANGED <<lockcount, waiters, value, sleepers, callers, wakeup, waiter, history>>

\* Each of them: off the list, lwWaiting, then the semaphore.
WakeClear(p) ==
  /\ At(p, "wake")
  /\ waiter' = [waiter EXCEPT ![p] = Head(wakeup[p])]
  /\ wakeup' = [wakeup EXCEPT ![p] = Tail(@)]
  /\ lwWaiting' = [lwWaiting EXCEPT ![Head(wakeup[p])] = FALSE]
  /\ Goto(p, "post")
  /\ UNCHANGED <<word, waiters, value, sem, callers, wokeup_somebody, history>>

WakePost(p) ==
  /\ At(p, "post")
  /\ sem' = [sem EXCEPT ![waiter[p]] = @ + 1]
  /\ waiter' = [waiter EXCEPT ![p] = p]
  /\ Goto(p, IF wakeup[p] = <<>> THEN "idle" ELSE "wake")
  /\ UNCHANGED <<word, waiters, value, lwWaiting, callers, wakeup, wokeup_somebody, history>>

\* The semaphore is also that of the lock manager and of ProcWaitForSignal.
Signal(p) ==
  /\ signals[p] < MaxSignals[p]
  /\ signals' = [signals EXCEPT ![p] = @ + 1]
  /\ sem' = [sem EXCEPT ![p] = @ + 1]
  /\ UNCHANGED <<word, waiters, value, lwWaiting, pc, callers, waking, use, ncalls>>

-----------------------------------------------------------------------------
(* What a process goes on with by itself, its lock's release included. *)
Step(p) ==
  \/ LWLockAttemptLock(p)
  \/ ConflictsWithLock(p) \/ ConflictsWithValue(p)
  \/ LWLockWaitListLock(p)
  \/ QueueFlag(p) \/ LWLockQueueSelf(p)
  \/ LWLockDequeueSelf(p)
  \/ SetReleaseOk(p)
  \/ PGSemaphoreLock(p) \/ Return(p)
  \/ LWLockRelease(p)
  \/ ScanVar(p)
  \/ Collect(p) \/ LWLockWakeup(p) \/ WakeClear(p) \/ WakePost(p)

Call(p) ==
  \/ LWLockAcquire(p) \/ LWLockAcquireOrWait(p) \/ LWLockWaitForVar(p)
  \/ LWLockConditionalAcquire(p)
  \/ LWLockUpdateVar(p) \/ LWLockReleaseClearVar(p)
  \/ Signal(p)

Next == \E p \in Procs : Step(p) \/ Call(p)

Fairness == WF_vars(\E p \in Procs : Step(p))

Spec == Init /\ [][Next]_vars /\ Fairness

-----------------------------------------------------------------------------
(* Properties *)

Labels == {"idle", "attempt", "check", "value", "queue", "flag", "push", "setok", "reattempt",
           "recheck", "revalue", "dequeue", "unlink", "resetok", "absorb", "sleep", "woken", "return",
           "release", "scan", "wakeup", "collect", "flags", "wake", "post"}

TypeOK ==
  /\ use \in InitUses
  /\ lockcount \in Nat
  /\ hasWaiters \in BOOLEAN /\ releaseOk \in BOOLEAN /\ locked \in BOOLEAN
  /\ waiters \in Seq(Procs)
  /\ value \in 0 .. MaxVal
  /\ lwWaiting \in [Procs -> BOOLEAN]
  /\ sem \in [Procs -> Nat]
  /\ pc \in [Procs -> Labels]
  /\ call \in [Procs -> {"acquire", "orwait", "waitvar"}]
  /\ mode \in [Procs -> Modes]
  /\ oldval \in [Procs -> 0 .. MaxVal]
  /\ extraWaits \in [Procs -> Nat]
  /\ held \in [Procs -> Modes \cup {"none"}]
  /\ wakeup \in [Procs -> Seq(Procs)]
  /\ waiter \in [Procs -> Procs]
  /\ wokeup_somebody \in [Procs -> BOOLEAN]
  /\ ncalls \in 0 .. MaxCalls
  /\ signals \in [Procs -> Nat]

(***************************************************************************)
(* An exclusive holder is the only holder, though the lock is taken and    *)
(* released by arithmetic on a word in which others set and clear flags.   *)
(***************************************************************************)
MutualExclusion ==
  \A p, q \in Procs : p # q /\ held[p] = "exclusive" => held[q] = "none"

(***************************************************************************)
(* LWLockQueueSelf never finds its process waiting still, which would be   *)
(* a PANIC: a process comes back to the wait list only after whoever took  *)
(* it off has cleared lwWaiting, late wakeups notwithstanding.             *)
(***************************************************************************)
NeverPanics == \A p \in Procs : pc[p] \in {"queue", "flag", "push"} => ~lwWaiting[p]

\* Wakeups a process will still get: taken off the list, its semaphore not yet raised.
InWakeup(q, p) == \E i \in DOMAIN wakeup[q] : wakeup[q][i] = p
Coming(p) == Cardinality({q \in Procs : InWakeup(q, p)})
             + Cardinality({q \in Procs : At(q, "post") /\ waiter[q] = p})

\* ... and the one it has yet to sleep for: it is waiting, and no longer on the list.
Waits == {"setok", "reattempt", "recheck", "revalue", "dequeue", "unlink", "resetok", "absorb", "sleep"}
Due(p) == IF pc[p] \in Waits /\ ~Queued(p) THEN 1 ELSE 0

(***************************************************************************)
(* Wakeups for other reasons, which the lock's sleepers take from the      *)
(* semaphore they share with the lock manager, are neither lost nor made   *)
(* up: what is there, set aside and coming is what was sent and is due.    *)
(***************************************************************************)
SignalsKept ==
  \A p \in Procs : sem[p] + extraWaits[p] + Coming(p) = signals[p] + Due(p)

(***************************************************************************)
(* No lost wakeup: it never happens that a process is on the wait list     *)
(* while every process is asleep on it or idle without the lock.  The      *)
(* attempt after queueing, LW_FLAG_HAS_WAITERS and LW_FLAG_RELEASE_OK,     *)
(* which suppresses wakeups, are there for this.                           *)
(***************************************************************************)
Stuck(p) == held[p] = "none" /\ pc[p] \in {"idle", "sleep"} /\ (At(p, "sleep") => Queued(p))

NoLostWakeup == (\A p \in Procs : Stuck(p)) => waiters = <<>>

(***************************************************************************)
(* A process does not sleep through a change of the variable: if it waits  *)
(* for a value that is no longer there, the process that changed it is     *)
(* still at the wait list or about to get to it.                           *)
(***************************************************************************)
VarNoticed ==
  \A p \in Procs :
    At(p, "sleep") /\ call[p] = "waitvar" /\ Queued(p) /\ value # oldval[p] =>
      \E q \in Procs : pc[q] \in {"scan", "release", "wakeup", "collect", "flags"}

(***************************************************************************)
(* Every call returns and every holder gets to release the lock, if the    *)
(* system as a whole goes on and the calls do not go on forever.           *)
(***************************************************************************)
CallsReturn == <>[](\A p \in Procs : At(p, "idle") /\ held[p] = "none")
=============================================================================
