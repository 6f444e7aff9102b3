---------------------------- MODULE LWLockProofs ----------------------------
(***************************************************************************)
(* Proofs about the lightweight lock, for every set of processes smaller   *)
(* than the sentinel LW_VAL_EXCLUSIVE and every number of calls.           *)
(*                                                                         *)
(* The inductive invariant covers the count in the state word, the wait    *)
(* list and the private wakeup lists, the LW_FLAG_LOCKED spinlock bit, the *)
(* flags of the state word and the handshake between a waker and the       *)
(* processes it wakes.  The lemmas that need no counting come first, then  *)
(* those on cardinalities and the theorems.                                *)
(***************************************************************************)
EXTENDS LWLock, FiniteSetTheorems, TLAPS

-----------------------------------------------------------------------------
(* The inductive invariant *)

Sharers == {p \in Procs : held[p] = "shared"}

\* The state word counts the holders.
CountOK ==
  /\ MutualExclusion
  /\ (\E p \in Procs : held[p] = "exclusive") => lockcount = LW_VAL_EXCLUSIVE
  /\ (\A p \in Procs : held[p] # "exclusive") => lockcount = Cardinality(Sharers)

\* Where a process is in its call, what call it is and what it holds.
CallOK(p) ==
  /\ pc[p] \in {"attempt", "check", "value", "queue", "flag", "push", "setok", "reattempt", "recheck",
                "revalue", "sleep", "woken"} =>
       held[p] = "none" /\ (use = "insert" => mode[p] = "exclusive")
  /\ pc[p] \in {"dequeue", "unlink", "resetok", "absorb"} /\ call[p] = "acquire" => held[p] # "none"
  /\ pc[p] \in {"setok", "recheck", "revalue"} => call[p] = "waitvar"
  /\ pc[p] \in {"attempt", "reattempt"} => call[p] # "waitvar"
  /\ pc[p] = "woken" => call[p] = "acquire"
  /\ pc[p] \in {"release", "scan"} => held[p] = "exclusive"
  /\ pc[p] = "release" => use = "insert"
  /\ use = "insert" => held[p] # "shared"

Calls == \A p \in Procs : CallOK(p)

\* A process is on the wait list or in one list to wake up, once.
ListsOK ==
  /\ \A i, j \in DOMAIN waiters : waiters[i] = waiters[j] => i = j
  /\ \A q \in Procs : \A i, j \in DOMAIN wakeup[q] : wakeup[q][i] = wakeup[q][j] => i = j
  /\ \A p, q \in Procs : InWakeup(q, p) => ~Queued(p)
  /\ \A p, q, r \in Procs : InWakeup(q, p) /\ InWakeup(r, p) => q = r

\* lwWaiting is set just as long.
WaitingOK(p) ==
  /\ lwWaiting[p] <=> (Queued(p) \/ \E q \in Procs : InWakeup(q, p))
  /\ lwWaiting[p] => pc[p] \in Waits
  /\ pc[p] \in {"resetok", "absorb"} => ~Queued(p)

Waiting == \A p \in Procs : WaitingOK(p)

\* LW_FLAG_LOCKED is a lock.
Locking == {"flag", "push", "unlink", "scan", "collect", "flags"}
LockOK ==
  /\ \A p \in Procs : pc[p] \in Locking => locked
  /\ \A p, q \in Procs : pc[p] \in Locking /\ pc[q] \in Locking => p = q

\* The process at the wait list, and those it takes off.
WakerOK(p) ==
  /\ wakeup[p] # <<>> => pc[p] \in {"scan", "collect", "flags", "wake", "post"}
  /\ pc[p] = "wake" => wakeup[p] # <<>>
  /\ wokeup_somebody[p] => pc[p] \in {"collect", "flags"}
  /\ wokeup_somebody[p] => \E q \in Procs : InWakeup(p, q) /\ call[q] = "acquire"
  /\ pc[p] \in {"scan", "collect", "flags"} =>
       \A q \in Procs : InWakeup(p, q) => pc[q] \notin {"unlink", "resetok", "absorb"}
  /\ pc[p] = "flags" /\ ~wokeup_somebody[p] => waiters = <<>>
  /\ wokeup_somebody[p] => \A i \in DOMAIN waiters : call[waiters[i]] = "acquire"

Wakers == \A p \in Procs : WakerOK(p)

FlagOK ==
  /\ waiters # <<>> => hasWaiters
  /\ \A p \in Procs : pc[p] = "push" => hasWaiters

\* Those that wait until the lock is free are in front.
FrontOK ==
  \A i, j \in DOMAIN waiters : i < j /\ call[waiters[i]] = "acquire" => call[waiters[j]] = "acquire"

\* If wakeups are suppressed, someone will allow them again, and nobody waits for the variable.
WillSetOk(q) ==
  \/ pc[q] = "woken"
  \/ call[q] = "acquire" /\ pc[q] \in {"reattempt", "sleep", "dequeue", "unlink", "resetok"} /\ ~Queued(q)

ReleaseOK ==
  ~releaseOk =>
    /\ \E q \in Procs : WillSetOk(q)
    /\ \A p \in Procs : ~(call[p] = "waitvar" /\ Queued(p) /\ pc[p] \in {"recheck", "revalue", "sleep"})

\* If the lock is free and someone sleeps, someone is to wake up others or to retry.
WillRetry(q) ==
  \/ pc[q] = "woken"
  \/ /\ call[q] = "acquire"
     /\ \/ pc[q] \in {"attempt", "queue", "flag", "push", "reattempt"}
        \/ pc[q] = "sleep" /\ ~Queued(q)

WillWake(q) == pc[q] \in {"wakeup", "collect", "flags"}

SleepOK ==
  \A p \in Procs :
    lockcount = 0 /\ Queued(p) /\ pc[p] \in {"sleep", "revalue"} =>
      \E q \in Procs : WillWake(q) \/ WillRetry(q)

IInv ==
  /\ TypeOK /\ CountOK /\ Calls /\ ListsOK /\ Waiting /\ LockOK /\ Wakers
  /\ FlagOK /\ FrontOK /\ ReleaseOK /\ SleepOK /\ VarNoticed /\ SignalsKept

-----------------------------------------------------------------------------
(* Lists without repetition *)

Mem(s, x) == \E k \in DOMAIN s : s[k] = x
Inj(s) == \A k, l \in DOMAIN s : s[k] = s[l] => k = l

LEMMA WithoutSeq ==
  ASSUME NEW S, NEW s \in Seq(S), NEW i \in DOMAIN s
  PROVE  /\ Without(s, i) \in Seq(S)
         /\ DOMAIN Without(s, i) = 1 .. Len(s) - 1 /\ Len(Without(s, i)) = Len(s) - 1
         /\ \A j \in 1 .. Len(s) - 1 : Without(s, i)[j] = IF j < i THEN s[j] ELSE s[j + 1]
<1>1. Len(s) \in Nat /\ DOMAIN s = 1 .. Len(s) /\ Len(s) - 1 \in Nat /\ i \in 1 .. Len(s)
  OBVIOUS
<1>2. \A j \in 1 .. Len(s) - 1 : (IF j < i THEN s[j] ELSE s[j + 1]) \in S
  BY <1>1
<1>3. Without(s, i) \in [1 .. Len(s) - 1 -> S]
  BY Zenon, <1>2 DEF Without
<1> QED
  BY <1>1, <1>3 DEF Without

LEMMA MemWithout ==
  ASSUME NEW S, NEW s \in Seq(S), NEW i \in DOMAIN s, Inj(s)
  PROVE  /\ Inj(Without(s, i))
         /\ \A x : Mem(Without(s, i), x) <=> Mem(s, x) /\ x # s[i]
<1> DEFINE w == Without(s, i)
<1>1. /\ DOMAIN w = 1 .. Len(s) - 1
      /\ \A j \in 1 .. Len(s) - 1 : w[j] = IF j < i THEN s[j] ELSE s[j + 1]
  BY Zenon, WithoutSeq
<1>2. Len(s) \in Nat /\ DOMAIN s = 1 .. Len(s) /\ i \in 1 .. Len(s)
  OBVIOUS
<1> HIDE DEF w
<1>3. Inj(w)
  <2> SUFFICES ASSUME NEW k \in 1 .. Len(s) - 1, NEW l \in 1 .. Len(s) - 1, w[k] = w[l]
               PROVE  k = l
    BY Zenon, <1>1 DEF Inj
  <2> DEFINE a == IF k < i THEN k ELSE k + 1
             b == IF l < i THEN l ELSE l + 1
  <2>1. a \in DOMAIN s /\ b \in DOMAIN s /\ w[k] = s[a] /\ w[l] = s[b]
    BY <1>1, <1>2
  <2>2. a = b
    BY Zenon, <2>1 DEF Inj
  <2> QED
    BY <2>2, <1>2
<1>4. ASSUME NEW x, Mem(w, x) PROVE Mem(s, x) /\ x # s[i]
  <2>1. PICK k \in 1 .. Len(s) - 1 : w[k] = x
    BY Zenon, <1>1, <1>4 DEF Mem
  <2> DEFINE a == IF k < i THEN k ELSE k + 1
  <2>2. a \in DOMAIN s /\ w[k] = s[a] /\ a # i
    BY <1>1, <1>2
  <2> QED
    BY Zenon, <2>1, <2>2 DEF Mem, Inj
<1>5. ASSUME NEW x, Mem(s, x), x # s[i] PROVE Mem(w, x)
  <2>1. PICK k \in 1 .. Len(s) : s[k] = x
    BY Zenon, <1>2, <1>5 DEF Mem
  <2>2. k # i
    BY Zenon, <2>1, <1>5
  <2> DEFINE a == IF k < i THEN k ELSE k - 1
  <2>3. a \in 1 .. Len(s) - 1 /\ w[a] = s[k]
    BY <1>1, <1>2, <2>2
  <2> QED
    BY Zenon, <2>1, <2>3, <1>1 DEF Mem
<1> QED
  BY Zenon, <1>3, <1>4, <1>5 DEF w

LEMMA MemAppend ==
  ASSUME NEW S, NEW s \in Seq(S), NEW y \in S
  PROVE  /\ Append(s, y) \in Seq(S) /\ Append(s, y) # <<>>
         /\ \A x : Mem(Append(s, y), x) <=> Mem(s, x) \/ x = y
         /\ Inj(s) /\ ~Mem(s, y) => Inj(Append(s, y))
<1> DEFINE t == Append(s, y)
<1>1. /\ Len(s) \in Nat /\ DOMAIN s = 1 .. Len(s)
      /\ DOMAIN t = 1 .. Len(s) + 1
      /\ \A k \in 1 .. Len(s) : t[k] = s[k]
      /\ t[Len(s) + 1] = y
      /\ t \in Seq(S) /\ t # <<>>
  OBVIOUS
<1> HIDE DEF t
<1>2. \A x : Mem(t, x) <=> Mem(s, x) \/ x = y
  <2>1. ASSUME NEW x, Mem(t, x) PROVE Mem(s, x) \/ x = y
    BY <1>1, <2>1 DEF Mem
  <2>2. ASSUME NEW x, Mem(s, x) \/ x = y PROVE Mem(t, x)
    <3>1. CASE x = y
      BY <1>1, <3>1 DEF Mem
    <3>2. CASE Mem(s, x)
      <4>1. PICK k \in 1 .. Len(s) : s[k] = x
        BY Zenon, <1>1, <3>2 DEF Mem
      <4>2. k \in DOMAIN t /\ t[k] = x
        BY <1>1, <4>1
      <4> QED
        BY Zenon, <4>2 DEF Mem
    <3> QED
      BY Zenon, <2>2, <3>1, <3>2
  <2> QED
    BY Zenon, <2>1, <2>2
<1>3. ASSUME Inj(s), ~Mem(s, y) PROVE Inj(t)
  BY <1>1, <1>3 DEF Mem, Inj
<1> QED
  BY Zenon, <1>1, <1>2, <1>3 DEF t

LEMMA MemCons ==
  ASSUME NEW S, NEW s \in Seq(S), NEW y \in S
  PROVE  /\ <<y>> \o s \in Seq(S) /\ <<y>> \o s # <<>>
         /\ \A x : Mem(<<y>> \o s, x) <=> Mem(s, x) \/ x = y
         /\ Inj(s) /\ ~Mem(s, y) => Inj(<<y>> \o s)
         /\ Len(<<y>> \o s) = Len(s) + 1 /\ (<<y>> \o s)[1] = y
         /\ \A k \in 2 .. Len(s) + 1 : (<<y>> \o s)[k] = s[k - 1]
<1> DEFINE t == <<y>> \o s
<1>1. /\ Len(s) \in Nat /\ DOMAIN s = 1 .. Len(s)
      /\ DOMAIN t = 1 .. Len(s) + 1 /\ Len(t) = Len(s) + 1
      /\ t[1] = y
      /\ \A k \in 2 .. Len(s) + 1 : t[k] = s[k - 1]
      /\ t \in Seq(S) /\ t # <<>>
  OBVIOUS
<1> HIDE DEF t
<1>2. \A x : Mem(t, x) <=> Mem(s, x) \/ x = y
  <2>1. ASSUME NEW x, Mem(t, x) PROVE Mem(s, x) \/ x = y
    <3>1. PICK k \in 1 .. Len(s) + 1 : t[k] = x
      BY Zenon, <1>1, <2>1 DEF Mem
    <3>2. k = 1 \/ (k \in 2 .. Len(s) + 1 /\ k - 1 \in 1 .. Len(s))
      BY <1>1
    <3> QED
      BY Zenon, <1>1, <3>1, <3>2 DEF Mem
  <2>2. ASSUME NEW x, Mem(s, x) \/ x = y PROVE Mem(t, x)
    <3>1. CASE x = y
      <4>1. 1 \in DOMAIN t
        BY <1>1
      <4> QED
        BY Zenon, <1>1, <3>1, <4>1 DEF Mem
    <3>2. CASE Mem(s, x)
      <4>1. PICK k \in 1 .. Len(s) : s[k] = x
        BY Zenon, <1>1, <3>2 DEF Mem
      <4>2. k + 1 \in 2 .. Len(s) + 1 /\ k + 1 - 1 = k
        BY <1>1
      <4>3. k + 1 \in DOMAIN t /\ t[k + 1] = x
        BY <1>1, <4>1, <4>2
      <4> QED
        BY Zenon, <4>3 DEF Mem
    <3> QED
      BY Zenon, <2>2, <3>1, <3>2
  <2> QED
    BY Zenon, <2>1, <2>2
<1>3. ASSUME Inj(s), ~Mem(s, y) PROVE Inj(t)
  <2> SUFFICES ASSUME NEW k \in 1 .. Len(s) + 1, NEW l \in 1 .. Len(s) + 1, t[k] = t[l]
               PROVE  k = l
    BY Zenon, <1>1 DEF Inj
  <2>1. \A j \in 1 .. Len(s) + 1 : j = 1 \/ (j \in 2 .. Len(s) + 1 /\ j - 1 \in 1 .. Len(s))
    BY <1>1
  <2>2. ASSUME NEW j \in 2 .. Len(s) + 1 PROVE t[j] # y
    <3>1. j - 1 \in DOMAIN s /\ t[j] = s[j - 1]
      BY <1>1
    <3> QED
      BY Zenon, <1>3, <3>1 DEF Mem
  <2>3. CASE k = 1 \/ l = 1
    BY Zenon, <1>1, <2>1, <2>2, <2>3
  <2>4. CASE k # 1 /\ l # 1
    <3>1. s[k - 1] = s[l - 1] /\ k - 1 \in DOMAIN s /\ l - 1 \in DOMAIN s
      BY Zenon, <1>1, <2>1, <2>4
    <3>2. k - 1 = l - 1
      BY Zenon, <1>3, <3>1 DEF Inj
    <3> QED
      BY <3>2
  <2> QED
    BY Zenon, <2>3, <2>4
<1> QED
  BY Zenon, <1>1, <1>2, <1>3 DEF t

LEMMA MemTail ==
  ASSUME NEW S, NEW s \in Seq(S), s # <<>>, Inj(s)
  PROVE  /\ Head(s) \in S /\ Mem(s, Head(s)) /\ Tail(s) \in Seq(S) /\ Inj(Tail(s))
         /\ \A x : Mem(Tail(s), x) <=> Mem(s, x) /\ x # Head(s)
<1> DEFINE t == Tail(s)
<1>1. /\ Len(s) \in Nat /\ Len(s) >= 1 /\ DOMAIN s = 1 .. Len(s)
      /\ DOMAIN t = 1 .. Len(s) - 1
      /\ \A k \in 1 .. Len(s) - 1 : t[k] = s[k + 1]
      /\ Head(s) = s[1] /\ s[1] \in S /\ t \in Seq(S)
  OBVIOUS
<1> HIDE DEF t
<1>2. 1 \in DOMAIN s /\ \A k \in 1 .. Len(s) - 1 : k + 1 \in DOMAIN s /\ k + 1 # 1
  BY <1>1
<1>3. Inj(t)
  BY <1>1, <1>2 DEF Inj
<1>4. ASSUME NEW x, Mem(t, x) PROVE Mem(s, x) /\ x # s[1]
  BY <1>1, <1>2, <1>4 DEF Mem, Inj
<1>5. ASSUME NEW x, Mem(s, x), x # s[1] PROVE Mem(t, x)
  <2>1. PICK k \in 1 .. Len(s) : s[k] = x
    BY Zenon, <1>1, <1>5 DEF Mem
  <2>2. k - 1 \in 1 .. Len(s) - 1 /\ (k - 1) + 1 = k
    BY <1>1, <1>5, <2>1
  <2> QED
    BY Zenon, <1>1, <2>1, <2>2 DEF Mem
<1> QED
  BY Zenon, <1>1, <1>2, <1>3, <1>4, <1>5 DEF t, Mem

-----------------------------------------------------------------------------
(* What each step changes *)

Begins(p) == LWLockAcquire(p) \/ LWLockAcquireOrWait(p) \/ LWLockWaitForVar(p)

Action(p) == Step(p) \/ Call(p)

LEMMA GotoFacts ==
  ASSUME pc \in [Procs -> Labels], NEW p \in Procs, NEW l, Goto(p, l)
  PROVE  pc'[p] = l /\ \A q \in Procs : q # p => pc'[q] = pc[q]
  BY Zenon DEF Goto

LEMMA Frame ==
  ASSUME TypeOK, NEW p \in Procs, Action(p)
  PROVE
         /\ use' = use
         /\ (lockcount' = lockcount /\ held' = held) \/ LWLockAttemptLock(p) \/
            LWLockConditionalAcquire(p) \/ LWLockRelease(p)
         /\ hasWaiters' = hasWaiters \/ QueueFlag(p) \/ LWLockDequeueSelf(p) \/ LWLockWakeup(p)
         /\ releaseOk' = releaseOk \/ SetReleaseOk(p) \/ LWLockWakeup(p)
         /\ locked' = locked \/ LWLockWaitListLock(p) \/ LWLockQueueSelf(p) \/
            LWLockDequeueSelf(p) \/ LWLockUpdateVar(p) \/ ScanVar(p) \/ LWLockWakeup(p)
         /\ waiters' = waiters \/ LWLockQueueSelf(p) \/ LWLockDequeueSelf(p) \/ ScanVar(p) \/ Collect(p)
         /\ value' = value \/ LWLockReleaseClearVar(p) \/ LWLockUpdateVar(p)
         /\ lwWaiting' = lwWaiting \/ LWLockQueueSelf(p) \/ LWLockDequeueSelf(p) \/ WakeClear(p)
         /\ sem' = sem \/ PGSemaphoreLock(p) \/ Return(p) \/ WakePost(p) \/ Signal(p)
         /\ (call' = call /\ mode' = mode /\ oldval' = oldval) \/ Begins(p) \/ Return(p)
         /\ extraWaits' = extraWaits \/ PGSemaphoreLock(p) \/ Return(p)
         /\ wakeup' = wakeup \/ ScanVar(p) \/ Collect(p) \/ WakeClear(p)
         /\ waiter' = waiter \/ WakeClear(p) \/ WakePost(p)
         /\ wokeup_somebody' = wokeup_somebody \/ Collect(p) \/ LWLockWakeup(p)
         /\ ncalls' = ncalls \/ Begins(p) \/ LWLockConditionalAcquire(p)
         /\ signals' = signals \/ Signal(p)
         /\ \A q \in Procs : q # p => pc'[q] = pc[q]
<1>0. pc \in [Procs -> Labels]
  BY Zenon DEF TypeOK
<1> USE <1>0 DEF Goto, word, sleepers, callers, waking, history, Begins
<1>1. CASE LWLockAcquire(p)
  BY Zenon, <1>1 DEF LWLockAcquire, Begin
<1>2. CASE LWLockAcquireOrWait(p)
  BY Zenon, <1>2 DEF LWLockAcquireOrWait, Begin
<1>3. CASE LWLockWaitForVar(p)
  BY Zenon, <1>3 DEF LWLockWaitForVar, Begin
<1>4. CASE LWLockConditionalAcquire(p)
  BY Zenon, <1>4 DEF LWLockConditionalAcquire, Take
<1>5. CASE LWLockUpdateVar(p)
  BY Zenon, <1>5 DEF LWLockUpdateVar
<1>6. CASE LWLockReleaseClearVar(p)
  BY Zenon, <1>6 DEF LWLockReleaseClearVar
<1>7. CASE Signal(p)
  BY Zenon, <1>7 DEF Signal
<1>8. CASE LWLockAttemptLock(p)
  BY Zenon, <1>8 DEF LWLockAttemptLock, Take
<1>9. CASE ConflictsWithLock(p)
  BY Zenon, <1>9 DEF ConflictsWithLock
<1>10. CASE ConflictsWithValue(p)
  BY Zenon, <1>10 DEF ConflictsWithValue
<1>11. CASE LWLockWaitListLock(p)
  BY Zenon, <1>11 DEF LWLockWaitListLock
<1>12. CASE QueueFlag(p)
  BY Zenon, <1>12 DEF QueueFlag
<1>13. CASE LWLockQueueSelf(p)
  BY Zenon, <1>13 DEF LWLockQueueSelf
<1>14. CASE LWLockDequeueSelf(p)
  BY Zenon, <1>14 DEF LWLockDequeueSelf
<1>15. CASE SetReleaseOk(p)
  BY Zenon, <1>15 DEF SetReleaseOk
<1>16. CASE PGSemaphoreLock(p)
  BY Zenon, <1>16 DEF PGSemaphoreLock
<1>17. CASE Return(p)
  BY Zenon, <1>17 DEF Return
<1>18. CASE LWLockRelease(p)
  BY Zenon, <1>18 DEF LWLockRelease
<1>19. CASE ScanVar(p)
  BY Zenon, <1>19 DEF ScanVar, Move
<1>20. CASE Collect(p)
  BY Zenon, <1>20 DEF Collect, Move
<1>21. CASE LWLockWakeup(p)
  BY Zenon, <1>21 DEF LWLockWakeup
<1>22. CASE WakeClear(p)
  BY Zenon, <1>22 DEF WakeClear
<1>23. CASE WakePost(p)
  BY Zenon, <1>23 DEF WakePost
<1> QED
  BY Zenon, <1>1, <1>2, <1>3, <1>4, <1>5, <1>6, <1>7, <1>8, <1>9, <1>10, <1>11, <1>12, <1>13,
     <1>14, <1>15, <1>16, <1>17, <1>18, <1>19, <1>20, <1>21, <1>22, <1>23 DEF Action, Step, Call

-----------------------------------------------------------------------------
(* The lists *)

LEMMA QueueSelfLists ==
  ASSUME TypeOK, ListsOK, NEW p \in Procs, ~Queued(p), LWLockQueueSelf(p)
  PROVE  /\ waiters' \in Seq(Procs) /\ waiters' # <<>> /\ Inj(waiters')
         /\ \A x : Queued(x)' <=> Queued(x) \/ x = p
<1>1. waiters \in Seq(Procs) /\ Inj(waiters) /\ ~Mem(waiters, p)
  BY Zenon DEF TypeOK, ListsOK, Inj, Mem, Queued
<1>2. waiters' = Append(waiters, p) \/ waiters' = <<p>> \o waiters
  BY Zenon DEF LWLockQueueSelf
<1>3. /\ waiters' \in Seq(Procs) /\ waiters' # <<>> /\ Inj(waiters')
      /\ \A x : Mem(waiters', x) <=> Mem(waiters, x) \/ x = p
  <2>1. CASE waiters' = Append(waiters, p)
    BY Zenon, <1>1, <2>1, MemAppend
  <2>2. CASE waiters' = <<p>> \o waiters
    BY Zenon, <1>1, <2>2, MemCons
  <2> QED
    BY Zenon, <1>2, <2>1, <2>2
<1> QED
  BY Zenon, <1>3 DEF Queued, Mem

LEMMA DequeueSelfLists ==
  ASSUME TypeOK, ListsOK, NEW p \in Procs, LWLockDequeueSelf(p)
  PROVE  /\ waiters' \in Seq(Procs) /\ Inj(waiters')
         /\ \A x : Queued(x)' <=> Queued(x) /\ x # p
<1>1. waiters \in Seq(Procs) /\ Inj(waiters)
  BY Zenon DEF TypeOK, ListsOK, Inj
<1>2. CASE Queued(p)
  <2>1. PICK i \in DOMAIN waiters : waiters[i] = p /\ waiters' = Without(waiters, i)
    BY Zenon, <1>2 DEF LWLockDequeueSelf
  <2>2. Without(waiters, i) \in Seq(Procs) /\ Inj(Without(waiters, i))
    BY Zenon, <1>1, WithoutSeq, MemWithout
  <2>3. \A x : Mem(waiters', x) <=> Mem(waiters, x) /\ x # p
    BY Zenon, <1>1, <2>1, MemWithout
  <2> QED
    BY Zenon, <2>1, <2>2, <2>3 DEF Queued, Mem
<1>3. CASE ~Queued(p)
  <2>1. waiters' = waiters
    BY Zenon, <1>3 DEF LWLockDequeueSelf, Queued
  <2> QED
    BY Zenon, <1>1, <1>3, <2>1 DEF Queued
<1> QED
  BY Zenon, <1>2, <1>3

LEMMA MoveLists ==
  ASSUME TypeOK, ListsOK, NEW p \in Procs, NEW i \in DOMAIN waiters, Move(p, i)
  PROVE  /\ waiters[i] \in Procs /\ Queued(waiters[i])
         /\ waiters' \in Seq(Procs) /\ Inj(waiters')
         /\ wakeup' \in [Procs -> Seq(Procs)] /\ wakeup'[p] # <<>>
         /\ \A q \in Procs : Inj(wakeup'[q])
         /\ \A x : Queued(x)' <=> Queued(x) /\ x # waiters[i]
         /\ \A q \in Procs : \A x : InWakeup(q, x)' <=> InWakeup(q, x) \/ (q = p /\ x = waiters[i])
<1>1. waiters \in Seq(Procs) /\ Inj(waiters) /\ wakeup \in [Procs -> Seq(Procs)]
  BY Zenon DEF TypeOK, ListsOK, Inj
<1>2. waiters[i] \in Procs /\ Queued(waiters[i])
  BY <1>1 DEF Queued
<1>3. /\ waiters' = Without(waiters, i) /\ waiters' \in Seq(Procs) /\ Inj(waiters')
      /\ \A x : Mem(waiters', x) <=> Mem(waiters, x) /\ x # waiters[i]
  BY Zenon, <1>1, WithoutSeq, MemWithout DEF Move
<1>4. Inj(wakeup[p]) /\ ~Mem(wakeup[p], waiters[i]) /\ wakeup[p] \in Seq(Procs)
  BY Zenon, <1>1, <1>2 DEF ListsOK, InWakeup, Mem, Inj
<1>5. /\ wakeup'[p] = Append(wakeup[p], waiters[i])
      /\ \A q \in Procs : q # p => wakeup'[q] = wakeup[q]
      /\ wakeup' = [wakeup EXCEPT ![p] = Append(wakeup[p], waiters[i])]
  BY Zenon, <1>1 DEF Move
<1>6. /\ wakeup'[p] \in Seq(Procs) /\ wakeup'[p] # <<>> /\ Inj(wakeup'[p])
      /\ \A x : Mem(wakeup'[p], x) <=> Mem(wakeup[p], x) \/ x = waiters[i]
  BY <1>2, <1>4, <1>5, MemAppend
<1>7. wakeup' \in [Procs -> Seq(Procs)]
  BY Zenon, <1>1, <1>5, <1>6
<1>8. \A q \in Procs : Inj(wakeup'[q])
  BY <1>5, <1>6 DEF ListsOK, Inj
<1>9. \A x : Queued(x)' <=> Queued(x) /\ x # waiters[i]
  BY Zenon, <1>3 DEF Queued, Mem
<1>10. ASSUME NEW q \in Procs, NEW x
       PROVE  InWakeup(q, x)' <=> InWakeup(q, x) \/ (q = p /\ x = waiters[i])
  <2>1. CASE q = p
    BY Zenon, <1>6, <2>1 DEF InWakeup, Mem
  <2>2. CASE q # p
    BY Zenon, <1>5, <2>2 DEF InWakeup
  <2> QED
    BY Zenon, <2>1, <2>2
<1> QED
  BY Zenon, <1>2, <1>3, <1>6, <1>7, <1>8, <1>9, <1>10

LEMMA ClearLists ==
  ASSUME TypeOK, ListsOK, NEW p \in Procs, WakeClear(p), wakeup[p] # <<>>
  PROVE  /\ Head(wakeup[p]) \in Procs /\ InWakeup(p, Head(wakeup[p]))
         /\ wakeup' \in [Procs -> Seq(Procs)]
         /\ \A q \in Procs : Inj(wakeup'[q])
         /\ \A q \in Procs : \A x : InWakeup(q, x)' <=> InWakeup(q, x) /\ ~(q = p /\ x = Head(wakeup[p]))
<1>1. wakeup \in [Procs -> Seq(Procs)] /\ wakeup[p] \in Seq(Procs) /\ Inj(wakeup[p])
  BY Zenon DEF TypeOK, ListsOK, Inj
<1>2. /\ Head(wakeup[p]) \in Procs /\ Mem(wakeup[p], Head(wakeup[p]))
      /\ Tail(wakeup[p]) \in Seq(Procs) /\ Inj(Tail(wakeup[p]))
      /\ \A x : Mem(Tail(wakeup[p]), x) <=> Mem(wakeup[p], x) /\ x # Head(wakeup[p])
  BY Zenon, <1>1, MemTail
<1>3. /\ wakeup'[p] = Tail(wakeup[p]) /\ \A q \in Procs : q # p => wakeup'[q] = wakeup[q]
      /\ wakeup' = [wakeup EXCEPT ![p] = Tail(wakeup[p])]
  BY Zenon, <1>1 DEF WakeClear
<1>4. wakeup' \in [Procs -> Seq(Procs)]
  BY Zenon, <1>1, <1>2, <1>3
<1>5. \A q \in Procs : Inj(wakeup'[q])
  BY <1>2, <1>3 DEF ListsOK, Inj
<1>6. ASSUME NEW q \in Procs, NEW x
      PROVE  InWakeup(q, x)' <=> InWakeup(q, x) /\ ~(q = p /\ x = Head(wakeup[p]))
  <2>1. CASE q = p
    <3>1. Mem(wakeup'[p], x) <=> Mem(wakeup[p], x) /\ x # Head(wakeup[p])
      BY Zenon, <1>2, <1>3
    <3> QED
      BY Zenon, <2>1, <3>1 DEF InWakeup, Mem
  <2>2. CASE q # p
    BY Zenon, <1>3, <2>2 DEF InWakeup
  <2> QED
    BY Zenon, <2>1, <2>2
<1> QED
  BY Zenon, <1>2, <1>4, <1>5, <1>6 DEF InWakeup, Mem

LEMMA PcStep ==
  ASSUME TypeOK, NEW p \in Procs, Action(p)
  PROVE  pc' \in [Procs -> Labels]
<1>0. pc \in [Procs -> Labels]
  BY Zenon DEF TypeOK
<1> USE <1>0 DEF Goto, Labels, callers
<1>1. CASE LWLockAcquire(p)
  BY Zenon, <1>1 DEF LWLockAcquire, Begin
<1>2. CASE LWLockAcquireOrWait(p)
  BY Zenon, <1>2 DEF LWLockAcquireOrWait, Begin
<1>3. CASE LWLockWaitForVar(p)
  BY Zenon, <1>3 DEF LWLockWaitForVar, Begin
<1>4. CASE LWLockConditionalAcquire(p)
  BY Zenon, <1>4 DEF LWLockConditionalAcquire, Take
<1>5. CASE LWLockUpdateVar(p)
  BY Zenon, <1>5 DEF LWLockUpdateVar
<1>6. CASE LWLockReleaseClearVar(p)
  BY Zenon, <1>6 DEF LWLockReleaseClearVar
<1>7. CASE Signal(p)
  BY Zenon, <1>7 DEF Signal
<1>8. CASE LWLockAttemptLock(p)
  BY Zenon, <1>8 DEF LWLockAttemptLock, Take
<1>9. CASE ConflictsWithLock(p)
  BY Zenon, <1>9 DEF ConflictsWithLock
<1>10. CASE ConflictsWithValue(p)
  BY Zenon, <1>10 DEF ConflictsWithValue
<1>11. CASE LWLockWaitListLock(p)
  BY Zenon, <1>11 DEF LWLockWaitListLock
<1>12. CASE QueueFlag(p)
  BY Zenon, <1>12 DEF QueueFlag
<1>13. CASE LWLockQueueSelf(p)
  BY Zenon, <1>13 DEF LWLockQueueSelf
<1>14. CASE LWLockDequeueSelf(p)
  BY Zenon, <1>14 DEF LWLockDequeueSelf
<1>15. CASE SetReleaseOk(p)
  BY Zenon, <1>15 DEF SetReleaseOk
<1>16. CASE PGSemaphoreLock(p)
  BY Zenon, <1>16 DEF PGSemaphoreLock
<1>17. CASE Return(p)
  BY Zenon, <1>17 DEF Return
<1>18. CASE LWLockRelease(p)
  BY Zenon, <1>18 DEF LWLockRelease
<1>19. CASE ScanVar(p)
  BY Zenon, <1>19 DEF ScanVar, Move
<1>20. CASE Collect(p)
  BY Zenon, <1>20 DEF Collect, Move
<1>21. CASE LWLockWakeup(p)
  BY Zenon, <1>21 DEF LWLockWakeup
<1>22. CASE WakeClear(p)
  BY Zenon, <1>22 DEF WakeClear
<1>23. CASE WakePost(p)
  BY Zenon, <1>23 DEF WakePost
<1> QED
  BY Zenon, <1>1, <1>2, <1>3, <1>4, <1>5, <1>6, <1>7, <1>8, <1>9, <1>10, <1>11, <1>12, <1>13,
     <1>14, <1>15, <1>16, <1>17, <1>18, <1>19, <1>20, <1>21, <1>22, <1>23 DEF Action, Step, Call

LEMMA BeginFacts ==
  ASSUME TypeOK, NEW p \in Procs, Begins(p)
  PROVE  /\ pc[p] = "idle" /\ held[p] = "none"
         /\ pc'[p] \in {"attempt", "check"} /\ (call'[p] = "waitvar" <=> pc'[p] = "check")
         /\ use = "insert" => mode'[p] = "exclusive"
         /\ \A q \in Procs : q # p => call'[q] = call[q] /\ mode'[q] = mode[q] /\ oldval'[q] = oldval[q]
         /\ call' \in [Procs -> {"acquire", "orwait", "waitvar"}]
         /\ mode' \in [Procs -> Modes] /\ oldval' \in [Procs -> 0 .. MaxVal] /\ ncalls' \in 0 .. MaxCalls
         /\ UNCHANGED <<word, waiters, value, sleepers, extraWaits, held, waking, signals>>
<1>0. /\ pc \in [Procs -> Labels] /\ call \in [Procs -> {"acquire", "orwait", "waitvar"}]
      /\ mode \in [Procs -> Modes] /\ oldval \in [Procs -> 0 .. MaxVal] /\ ncalls \in 0 .. MaxCalls
      /\ MaxCalls \in Nat /\ MaxVal \in Nat
  BY Zenon, LWLockAssumption DEF TypeOK
<1> USE <1>0 DEF Begin, Goto, At, Modes
<1>1. CASE LWLockAcquire(p)
  BY <1>1 DEF LWLockAcquire
<1>2. CASE LWLockAcquireOrWait(p)
  BY <1>2 DEF LWLockAcquireOrWait
<1>3. CASE LWLockWaitForVar(p)
  BY <1>3 DEF LWLockWaitForVar
<1> QED
  BY Zenon, <1>1, <1>2, <1>3 DEF Begins

LEMMA ListCases ==
  ASSUME TypeOK, NEW p \in Procs, Action(p)
  PROVE  \/ waiters' = waiters /\ wakeup' = wakeup
         \/ LWLockQueueSelf(p) /\ wakeup' = wakeup
         \/ LWLockDequeueSelf(p) /\ wakeup' = wakeup
         \/ \E i \in DOMAIN waiters : Move(p, i) /\ (ScanVar(p) \/ Collect(p)) /\ lwWaiting' = lwWaiting
         \/ WakeClear(p) /\ waiters' = waiters
<1>1. CASE LWLockQueueSelf(p)
  BY Zenon, <1>1 DEF LWLockQueueSelf, waking
<1>2. CASE LWLockDequeueSelf(p)
  BY Zenon, <1>2 DEF LWLockDequeueSelf, waking
<1>3. CASE WakeClear(p)
  BY Zenon, <1>3 DEF WakeClear
<1>4. CASE ScanVar(p)
  <2>1. CASE waiters # <<>> /\ lwWaitMode(waiters[1]) = "untilfree"
    <3>1. 1 \in DOMAIN waiters
      BY <2>1 DEF TypeOK
    <3> QED
      BY Zenon, <1>4, <2>1, <3>1 DEF ScanVar, sleepers
  <2> QED
    BY Zenon, <1>4, <2>1 DEF ScanVar
<1>5. CASE Collect(p)
  BY Zenon, <1>5 DEF Collect, sleepers
<1> QED
  BY Zenon, <1>1, <1>2, <1>3, <1>4, <1>5, Frame

LEMMA ListsStep ==
  ASSUME TypeOK, ListsOK, Waiting, Wakers, NEW p \in Procs, Action(p)
  PROVE  ListsOK' /\ waiters' \in Seq(Procs) /\ wakeup' \in [Procs -> Seq(Procs)]
<1>0. waiters \in Seq(Procs) /\ wakeup \in [Procs -> Seq(Procs)]
  BY Zenon DEF TypeOK
<1>1. CASE waiters' = waiters /\ wakeup' = wakeup
  <2>1. \A x, q \in Procs : (Queued(x)' <=> Queued(x)) /\ (InWakeup(q, x)' <=> InWakeup(q, x))
    BY Zenon, <1>1 DEF Queued, InWakeup
  <2>2. /\ \A i, j \in DOMAIN waiters' : waiters'[i] = waiters'[j] => i = j
        /\ \A q \in Procs : \A i, j \in DOMAIN wakeup'[q] : wakeup'[q][i] = wakeup'[q][j] => i = j
    BY Zenon, <1>1 DEF ListsOK
  <2>3. /\ \A x, q \in Procs : InWakeup(q, x)' => ~Queued(x)'
        /\ \A x, q, r \in Procs : InWakeup(q, x)' /\ InWakeup(r, x)' => q = r
    BY Zenon, <2>1 DEF ListsOK
  <2> QED
    BY Zenon, <1>0, <1>1, <2>2, <2>3 DEF ListsOK
<1>a. /\ \A q, r, x \in Procs : InWakeup(q, x) => ~Queued(x) /\ (InWakeup(r, x) => q = r)
      /\ Inj(waiters) /\ \A q \in Procs : Inj(wakeup[q])
  BY Zenon DEF ListsOK, Inj
<1> DEFINE Goal == /\ Inj(waiters') /\ \A q \in Procs : Inj(wakeup'[q])
                   /\ \A x, q \in Procs : InWakeup(q, x)' => ~Queued(x)'
                   /\ \A x, q, r \in Procs : InWakeup(q, x)' /\ InWakeup(r, x)' => q = r
                   /\ waiters' \in Seq(Procs) /\ wakeup' \in [Procs -> Seq(Procs)]
<1>b. SUFFICES ASSUME ~(waiters' = waiters /\ wakeup' = wakeup) PROVE Goal
  BY Zenon, <1>1 DEF ListsOK, Inj
<1>2. CASE LWLockQueueSelf(p) /\ wakeup' = wakeup
  <2>1. ~Queued(p) /\ \A q \in Procs : ~InWakeup(q, p)
    <3>1. WaitingOK(p) /\ pc[p] = "push"
      BY Zenon, <1>2 DEF Waiting, LWLockQueueSelf, At
    <3> QED
      BY Zenon, <3>1 DEF WaitingOK, Waits
  <2>2. \A q, x \in Procs : InWakeup(q, x)' <=> InWakeup(q, x)
    BY Zenon, <1>2 DEF InWakeup
  <2>3. /\ waiters' \in Seq(Procs) /\ Inj(waiters')
        /\ \A x : Queued(x)' <=> Queued(x) \/ x = p
    BY Zenon, <1>2, <2>1, QueueSelfLists
  <2> QED
    BY Zenon, <1>0, <1>a, <1>2, <2>1, <2>2, <2>3
<1>3. CASE LWLockDequeueSelf(p) /\ wakeup' = wakeup
  <2>1. \A q, x \in Procs : InWakeup(q, x)' <=> InWakeup(q, x)
    BY Zenon, <1>3 DEF InWakeup
  <2>2. /\ waiters' \in Seq(Procs) /\ Inj(waiters')
        /\ \A x : Queued(x)' <=> Queued(x) /\ x # p
    BY Zenon, <1>3, DequeueSelfLists
  <2> QED
    BY Zenon, <1>0, <1>a, <1>3, <2>1, <2>2
<1>4. ASSUME NEW i \in DOMAIN waiters, Move(p, i) PROVE Goal
  <2>1. /\ waiters[i] \in Procs /\ Queued(waiters[i])
        /\ waiters' \in Seq(Procs) /\ Inj(waiters')
        /\ wakeup' \in [Procs -> Seq(Procs)] /\ \A q \in Procs : Inj(wakeup'[q])
        /\ \A x : Queued(x)' <=> Queued(x) /\ x # waiters[i]
        /\ \A q \in Procs : \A x : InWakeup(q, x)' <=> InWakeup(q, x) \/ (q = p /\ x = waiters[i])
    BY Zenon, <1>4, MoveLists
  <2> QED
    BY Zenon, <1>a, <2>1
<1>5. CASE WakeClear(p) /\ waiters' = waiters
  <2>1. wakeup[p] # <<>>
    BY Zenon, <1>5 DEF WakeClear, Wakers, WakerOK, At
  <2>2. /\ wakeup' \in [Procs -> Seq(Procs)] /\ \A q \in Procs : Inj(wakeup'[q])
        /\ \A q \in Procs : \A x : InWakeup(q, x)' <=> InWakeup(q, x) /\ ~(q = p /\ x = Head(wakeup[p]))
    BY Zenon, <1>5, <2>1, ClearLists
  <2>3. \A x : Queued(x)' <=> Queued(x)
    BY Zenon, <1>5 DEF Queued
  <2> QED
    BY Zenon, <1>0, <1>a, <1>5, <2>2, <2>3
<1> QED
  BY Zenon, <1>b, <1>2, <1>3, <1>4, <1>5, ListCases

LEMMA Others ==
  ASSUME TypeOK, NEW p \in Procs, Action(p), NEW q \in Procs, q # p
  PROVE  /\ pc'[q] = pc[q] /\ call'[q] = call[q] /\ mode'[q] = mode[q] /\ oldval'[q] = oldval[q]
         /\ held'[q] = held[q] /\ extraWaits'[q] = extraWaits[q]
         /\ wakeup'[q] = wakeup[q] /\ waiter'[q] = waiter[q] /\ wokeup_somebody'[q] = wokeup_somebody[q]
<1>1. /\ call \in [Procs -> {"acquire", "orwait", "waitvar"}] /\ mode \in [Procs -> Modes]
      /\ oldval \in [Procs -> 0 .. MaxVal] /\ held \in [Procs -> Modes \cup {"none"}]
      /\ extraWaits \in [Procs -> Nat] /\ wakeup \in [Procs -> Seq(Procs)]
      /\ waiter \in [Procs -> Procs] /\ wokeup_somebody \in [Procs -> BOOLEAN]
  BY Zenon DEF TypeOK
<1>2. pc'[q] = pc[q]
  BY Zenon, Frame
<1>3. call'[q] = call[q] /\ mode'[q] = mode[q] /\ oldval'[q] = oldval[q]
  <2>1. CASE Return(p)
    BY Zenon, <1>1, <2>1 DEF Return
  <2> QED
    BY Zenon, <2>1, BeginFacts, Frame
<1>4. held'[q] = held[q]
  <2>1. CASE LWLockAttemptLock(p)
    BY Zenon, <1>1, <2>1 DEF LWLockAttemptLock, Take
  <2>2. CASE LWLockConditionalAcquire(p)
    BY Zenon, <1>1, <2>2 DEF LWLockConditionalAcquire, Take
  <2>3. CASE LWLockRelease(p)
    BY Zenon, <1>1, <2>3 DEF LWLockRelease
  <2> QED
    BY Zenon, <2>1, <2>2, <2>3, Frame
<1>5. extraWaits'[q] = extraWaits[q]
  <2>1. CASE PGSemaphoreLock(p)
    BY Zenon, <1>1, <2>1 DEF PGSemaphoreLock
  <2>2. CASE Return(p)
    BY Zenon, <1>1, <2>2 DEF Return
  <2> QED
    BY Zenon, <2>1, <2>2, Frame
<1>6. wakeup'[q] = wakeup[q]
  <2>1. CASE ScanVar(p)
    BY Zenon, <1>1, <2>1 DEF ScanVar, Move
  <2>2. CASE Collect(p)
    BY Zenon, <1>1, <2>2 DEF Collect, Move
  <2>3. CASE WakeClear(p)
    BY Zenon, <1>1, <2>3 DEF WakeClear
  <2> QED
    BY Zenon, <2>1, <2>2, <2>3, Frame
<1>7. waiter'[q] = waiter[q]
  <2>1. CASE WakeClear(p)
    BY Zenon, <1>1, <2>1 DEF WakeClear
  <2>2. CASE WakePost(p)
    BY Zenon, <1>1, <2>2 DEF WakePost
  <2> QED
    BY Zenon, <2>1, <2>2, Frame
<1>8. wokeup_somebody'[q] = wokeup_somebody[q]
  <2>1. CASE Collect(p)
    BY Zenon, <1>1, <2>1 DEF Collect
  <2>2. CASE LWLockWakeup(p)
    BY Zenon, <1>1, <2>2 DEF LWLockWakeup
  <2> QED
    BY Zenon, <2>1, <2>2, Frame
<1> QED
  BY Zenon, <1>2, <1>3, <1>4, <1>5, <1>6, <1>7, <1>8

LEMMA CallsStep ==
  ASSUME TypeOK, Calls, NEW p \in Procs, Action(p)
  PROVE  Calls'
<1>a. ASSUME NEW q \in Procs, q # p PROVE CallOK(q)'
  <2>1. CallOK(q) /\ use' = use
    BY Zenon, Frame DEF Calls
  <2> QED
    BY Zenon, <2>1, <1>a, Others DEF CallOK
<1>b. SUFFICES CallOK(p)'
  BY Zenon, <1>a DEF Calls
<1>0. /\ pc \in [Procs -> Labels] /\ held \in [Procs -> Modes \cup {"none"}]
      /\ call \in [Procs -> {"acquire", "orwait", "waitvar"}] /\ mode \in [Procs -> Modes]
      /\ CallOK(p)
  BY Zenon DEF TypeOK, Calls
<1> USE <1>0 DEF CallOK, Goto, At, Modes, callers, history
<1>1. CASE LWLockAcquire(p)
  BY Zenon, <1>1 DEF LWLockAcquire, Begin
<1>2. CASE LWLockAcquireOrWait(p)
  BY Zenon, <1>2 DEF LWLockAcquireOrWait, Begin
<1>3. CASE LWLockWaitForVar(p)
  BY Zenon, <1>3 DEF LWLockWaitForVar, Begin
<1>4. CASE LWLockConditionalAcquire(p)
  BY Zenon, <1>4 DEF LWLockConditionalAcquire, Take
<1>5. CASE LWLockUpdateVar(p)
  BY Zenon, <1>5 DEF LWLockUpdateVar
<1>6. CASE LWLockReleaseClearVar(p)
  BY Zenon, <1>6 DEF LWLockReleaseClearVar
<1>7. CASE Signal(p)
  BY Zenon, <1>7 DEF Signal
<1>8. CASE LWLockAttemptLock(p)
  BY <1>8 DEF LWLockAttemptLock, Take
<1>9. CASE ConflictsWithLock(p)
  BY Zenon, <1>9 DEF ConflictsWithLock
<1>10. CASE ConflictsWithValue(p)
  BY Zenon, <1>10 DEF ConflictsWithValue
<1>11. CASE LWLockWaitListLock(p)
  BY Zenon, <1>11 DEF LWLockWaitListLock
<1>12. CASE QueueFlag(p)
  BY Zenon, <1>12 DEF QueueFlag
<1>13. CASE LWLockQueueSelf(p)
  BY Zenon, <1>13 DEF LWLockQueueSelf
<1>14. CASE LWLockDequeueSelf(p)
  BY Zenon, <1>14 DEF LWLockDequeueSelf
<1>15. CASE SetReleaseOk(p)
  BY Zenon, <1>15 DEF SetReleaseOk
<1>16. CASE PGSemaphoreLock(p)
  BY Zenon, <1>16 DEF PGSemaphoreLock
<1>17. CASE Return(p)
  BY Zenon, <1>17 DEF Return
<1>18. CASE LWLockRelease(p)
  BY Zenon, <1>18 DEF LWLockRelease
<1>19. CASE ScanVar(p)
  BY Zenon, <1>19 DEF ScanVar, Move
<1>20. CASE Collect(p)
  BY Zenon, <1>20 DEF Collect, Move
<1>21. CASE LWLockWakeup(p)
  BY Zenon, <1>21 DEF LWLockWakeup
<1>22. CASE WakeClear(p)
  BY Zenon, <1>22 DEF WakeClear
<1>23. CASE WakePost(p)
  BY Zenon, <1>23 DEF WakePost
<1> QED
  BY Zenon, <1>1, <1>2, <1>3, <1>4, <1>5, <1>6, <1>7, <1>8, <1>9, <1>10, <1>11, <1>12, <1>13,
     <1>14, <1>15, <1>16, <1>17, <1>18, <1>19, <1>20, <1>21, <1>22, <1>23 DEF Action, Step, Call

LEMMA LockStep ==
  ASSUME TypeOK, LockOK, NEW p \in Procs, Action(p)
  PROVE  LockOK'
<1>a. \A q \in Procs : q # p => pc'[q] = pc[q]
  BY Zenon, Frame
<1>b. SUFFICES \/ locked' = locked /\ (pc'[p] \in Locking <=> pc[p] \in Locking)
               \/ ~locked /\ locked' /\ pc'[p] \in Locking
               \/ pc[p] \in Locking /\ pc'[p] \notin Locking
  BY <1>a DEF LockOK
<1>0. pc \in [Procs -> Labels]
  BY Zenon DEF TypeOK
<1> USE <1>0 DEF Locking, Goto, At, word
<1>1. CASE LWLockAcquire(p)
  BY Zenon, <1>1 DEF LWLockAcquire, Begin
<1>2. CASE LWLockAcquireOrWait(p)
  BY Zenon, <1>2 DEF LWLockAcquireOrWait, Begin
<1>3. CASE LWLockWaitForVar(p)
  BY Zenon, <1>3 DEF LWLockWaitForVar, Begin
<1>4. CASE LWLockConditionalAcquire(p)
  BY Zenon, <1>4 DEF LWLockConditionalAcquire, Take
<1>5. CASE LWLockUpdateVar(p)
  BY Zenon, <1>5 DEF LWLockUpdateVar
<1>6. CASE LWLockReleaseClearVar(p)
  BY Zenon, <1>6 DEF LWLockReleaseClearVar
<1>7. CASE Signal(p)
  BY Zenon, <1>7 DEF Signal
<1>8. CASE LWLockAttemptLock(p)
  BY Zenon, <1>8 DEF LWLockAttemptLock, Take
<1>9. CASE ConflictsWithLock(p)
  BY Zenon, <1>9 DEF ConflictsWithLock
<1>10. CASE ConflictsWithValue(p)
  BY Zenon, <1>10 DEF ConflictsWithValue
<1>11. CASE LWLockWaitListLock(p)
  BY Zenon, <1>11 DEF LWLockWaitListLock
<1>12. CASE QueueFlag(p)
  BY Zenon, <1>12 DEF QueueFlag
<1>13. CASE LWLockQueueSelf(p)
  BY Zenon, <1>13 DEF LWLockQueueSelf
<1>14. CASE LWLockDequeueSelf(p)
  BY Zenon, <1>14 DEF LWLockDequeueSelf
<1>15. CASE SetReleaseOk(p)
  BY Zenon, <1>15 DEF SetReleaseOk
<1>16. CASE PGSemaphoreLock(p)
  BY Zenon, <1>16 DEF PGSemaphoreLock
<1>17. CASE Return(p)
  BY Zenon, <1>17 DEF Return
<1>18. CASE LWLockRelease(p)
  BY Zenon, <1>18 DEF LWLockRelease
<1>19. CASE ScanVar(p)
  BY Zenon, <1>19 DEF ScanVar, Move
<1>20. CASE Collect(p)
  BY Zenon, <1>20 DEF Collect, Move
<1>21. CASE LWLockWakeup(p)
  BY Zenon, <1>21 DEF LWLockWakeup
<1>22. CASE WakeClear(p)
  BY Zenon, <1>22 DEF WakeClear
<1>23. CASE WakePost(p)
  BY Zenon, <1>23 DEF WakePost
<1> QED
  BY Zenon, <1>1, <1>2, <1>3, <1>4, <1>5, <1>6, <1>7, <1>8, <1>9, <1>10, <1>11, <1>12, <1>13,
     <1>14, <1>15, <1>16, <1>17, <1>18, <1>19, <1>20, <1>21, <1>22, <1>23 DEF Action, Step, Call

LEMMA WaitsFlow ==
  ASSUME TypeOK, NEW p \in Procs, Action(p), ~LWLockDequeueSelf(p)
  PROVE  /\ pc[p] \in Waits /\ lwWaiting[p] => pc'[p] \in Waits
         /\ pc'[p] \in {"resetok", "absorb"} => pc[p] \in {"resetok", "absorb"}
<1>0. pc \in [Procs -> Labels]
  BY Zenon DEF TypeOK
<1> USE <1>0 DEF Waits, Goto, At
<1>1. CASE LWLockAcquire(p)
  BY Zenon, <1>1 DEF LWLockAcquire, Begin
<1>2. CASE LWLockAcquireOrWait(p)
  BY Zenon, <1>2 DEF LWLockAcquireOrWait, Begin
<1>3. CASE LWLockWaitForVar(p)
  BY Zenon, <1>3 DEF LWLockWaitForVar, Begin
<1>4. CASE LWLockConditionalAcquire(p)
  BY Zenon, <1>4 DEF LWLockConditionalAcquire, Take
<1>5. CASE LWLockUpdateVar(p)
  BY Zenon, <1>5 DEF LWLockUpdateVar
<1>6. CASE LWLockReleaseClearVar(p)
  BY Zenon, <1>6 DEF LWLockReleaseClearVar
<1>7. CASE Signal(p)
  BY Zenon, <1>7 DEF Signal
<1>8. CASE LWLockAttemptLock(p)
  BY Zenon, <1>8 DEF LWLockAttemptLock, Take
<1>9. CASE ConflictsWithLock(p)
  BY Zenon, <1>9 DEF ConflictsWithLock
<1>10. CASE ConflictsWithValue(p)
  BY Zenon, <1>10 DEF ConflictsWithValue
<1>11. CASE LWLockWaitListLock(p)
  BY Zenon, <1>11 DEF LWLockWaitListLock
<1>12. CASE QueueFlag(p)
  BY Zenon, <1>12 DEF QueueFlag
<1>13. CASE LWLockQueueSelf(p)
  BY Zenon, <1>13 DEF LWLockQueueSelf
<1>14. CASE LWLockDequeueSelf(p)
  BY Zenon, <1>14
<1>15. CASE SetReleaseOk(p)
  BY Zenon, <1>15 DEF SetReleaseOk
<1>16. CASE PGSemaphoreLock(p)
  BY Zenon, <1>16 DEF PGSemaphoreLock
<1>17. CASE Return(p)
  BY Zenon, <1>17 DEF Return
<1>18. CASE LWLockRelease(p)
  BY Zenon, <1>18 DEF LWLockRelease
<1>19. CASE ScanVar(p)
  BY Zenon, <1>19 DEF ScanVar, Move
<1>20. CASE Collect(p)
  BY Zenon, <1>20 DEF Collect, Move
<1>21. CASE LWLockWakeup(p)
  BY Zenon, <1>21 DEF LWLockWakeup
<1>22. CASE WakeClear(p)
  BY Zenon, <1>22 DEF WakeClear
<1>23. CASE WakePost(p)
  BY Zenon, <1>23 DEF WakePost
<1> QED
  BY Zenon, <1>1, <1>2, <1>3, <1>4, <1>5, <1>6, <1>7, <1>8, <1>9, <1>10, <1>11, <1>12, <1>13,
     <1>14, <1>15, <1>16, <1>17, <1>18, <1>19, <1>20, <1>21, <1>22, <1>23 DEF Action, Step, Call

LEMMA WaitingStep ==
  ASSUME TypeOK, ListsOK, Waiting, Wakers, NEW p \in Procs, Action(p)
  PROVE  Waiting'
<1> SUFFICES ASSUME NEW r \in Procs PROVE WaitingOK(r)'
  BY Zenon DEF Waiting
<1>0. WaitingOK(r) /\ lwWaiting \in [Procs -> BOOLEAN] /\ pc \in [Procs -> Labels]
  BY Zenon DEF Waiting, TypeOK
<1>1. r # p => pc'[r] = pc[r]
  BY Zenon, Frame
<1>2. ASSUME ~LWLockQueueSelf(p), ~LWLockDequeueSelf(p), ~WakeClear(p)
      PROVE  WaitingOK(r)'
  <2>1. lwWaiting' = lwWaiting
    BY Zenon, <1>2, Frame
  <2> DEFINE Same ==
        /\ Queued(r)' => Queued(r)
        /\ Queued(r)' \/ (\E q \in Procs : InWakeup(q, r)') <=> Queued(r) \/ \E q \in Procs : InWakeup(q, r)
  <2>2. Same
    <3>1. CASE waiters' = waiters /\ wakeup' = wakeup
      BY Zenon, <3>1 DEF Queued, InWakeup
    <3>2. ASSUME NEW i \in DOMAIN waiters, Move(p, i) PROVE Same
      <4>1. /\ Queued(waiters[i])
            /\ Queued(r)' <=> Queued(r) /\ r # waiters[i]
            /\ \A q \in Procs : InWakeup(q, r)' <=> InWakeup(q, r) \/ (q = p /\ r = waiters[i])
        BY Zenon, <3>2, MoveLists
      <4> QED
        BY Zenon, <4>1
    <3> QED
      BY Zenon, <1>2, <3>1, <3>2, ListCases
  <2>3. r = p => /\ pc[p] \in Waits /\ lwWaiting[p] => pc'[p] \in Waits
                 /\ pc'[p] \in {"resetok", "absorb"} => pc[p] \in {"resetok", "absorb"}
    BY Zenon, <1>2, WaitsFlow
  <2> QED
    BY Zenon, <1>0, <1>1, <2>1, <2>2, <2>3 DEF WaitingOK
<1>3. CASE LWLockQueueSelf(p)
  <2>1. WaitingOK(p) /\ pc[p] = "push"
    BY Zenon, <1>3 DEF Waiting, LWLockQueueSelf, At
  <2>2. ~Queued(p)
    BY Zenon, <2>1 DEF WaitingOK, Waits
  <2>3. Queued(r)' <=> Queued(r) \/ r = p
    BY Zenon, <1>3, <2>2, QueueSelfLists
  <2>4. \A q \in Procs : InWakeup(q, r)' <=> InWakeup(q, r)
    BY Zenon, <1>3 DEF LWLockQueueSelf, waking, InWakeup
  <2>5. lwWaiting'[r] = (r = p \/ lwWaiting[r]) /\ pc'[p] \in {"setok", "reattempt"}
    BY Zenon, <1>0, <1>3 DEF LWLockQueueSelf, Goto
  <2> QED
    BY Zenon, <1>0, <1>1, <2>3, <2>4, <2>5 DEF WaitingOK, Waits
<1>4. CASE LWLockDequeueSelf(p)
  <2>1. Queued(r)' <=> Queued(r) /\ r # p
    BY Zenon, <1>4, DequeueSelfLists
  <2>2. \A q \in Procs : InWakeup(q, r)' <=> InWakeup(q, r)
    BY Zenon, <1>4 DEF LWLockDequeueSelf, waking, InWakeup
  <2>3. \/ Queued(p) /\ lwWaiting' = [lwWaiting EXCEPT ![p] = FALSE] /\ pc'[p] = "return"
        \/ ~Queued(p) /\ lwWaiting' = lwWaiting /\ pc'[p] = "resetok"
    BY Zenon, <1>0, <1>4 DEF LWLockDequeueSelf, Queued, Goto
  <2>4. Queued(p) => \A q \in Procs : ~InWakeup(q, p)
    BY Zenon DEF ListsOK
  <2>5. CASE r = p
    BY Zenon, <1>0, <2>1, <2>2, <2>3, <2>4, <2>5 DEF WaitingOK, Waits
  <2>6. CASE r # p
    BY Zenon, <1>0, <1>1, <2>1, <2>2, <2>3, <2>6 DEF WaitingOK
  <2> QED
    BY Zenon, <2>5, <2>6
<1>5. CASE WakeClear(p)
  <2>1. wakeup[p] # <<>> /\ pc[p] = "wake" /\ pc'[p] = "post"
    BY Zenon, <1>0, <1>5 DEF WakeClear, Wakers, WakerOK, At, Goto
  <2>2. PICK w : w = Head(wakeup[p])
    BY Zenon
  <2>3. /\ w \in Procs /\ InWakeup(p, w)
        /\ \A q \in Procs : InWakeup(q, r)' <=> InWakeup(q, r) /\ ~(q = p /\ r = w)
    BY Zenon, <1>5, <2>1, <2>2, ClearLists
  <2>4. Queued(r)' <=> Queued(r)
    BY Zenon, <1>5 DEF WakeClear, Queued
  <2>5. lwWaiting'[r] = (lwWaiting[r] /\ r # w)
    BY Zenon, <1>0, <1>5, <2>2, <2>3 DEF WakeClear
  <2>6. r = w => ~Queued(r) /\ \A q \in Procs : InWakeup(q, r) => q = p
    BY <2>3 DEF ListsOK
  <2>7. r = p => ~lwWaiting[r]
    BY Zenon, <1>0, <2>1 DEF WaitingOK, Waits
  <2>8. /\ lwWaiting'[r] <=> (Queued(r)' \/ \E q \in Procs : InWakeup(q, r)')
    BY Zenon, <1>0, <2>3, <2>4, <2>5, <2>6 DEF WaitingOK
  <2> QED
    BY Zenon, <1>0, <1>1, <2>1, <2>4, <2>5, <2>7, <2>8 DEF WaitingOK
<1> QED
  BY Zenon, <1>2, <1>3, <1>4, <1>5

LEMMA Flow ==
  ASSUME TypeOK, NEW p \in Procs, Action(p)
  PROVE  \/ Signal(p) /\ pc' = pc
         \/ Begins(p) /\ pc[p] = "idle" /\ pc'[p] \in {"attempt", "check"}
         \/ LWLockConditionalAcquire(p) /\ pc[p] = "idle" /\ pc'[p] = "idle"
         \/ LWLockUpdateVar(p) /\ pc[p] = "idle" /\ pc'[p] = "scan"
         \/ LWLockReleaseClearVar(p) /\ pc[p] = "idle" /\ pc'[p] = "release"
         \/ LWLockAttemptLock(p) /\ \/ pc[p] = "attempt" /\ pc'[p] \in {"return", "queue"}
                                    \/ pc[p] = "reattempt" /\ pc'[p] \in {"dequeue", "sleep"}
         \/ ConflictsWithLock(p) /\ \/ pc[p] = "check" /\ pc'[p] \in {"value", "return"}
                                    \/ pc[p] = "recheck" /\ pc'[p] \in {"revalue", "dequeue"}
         \/ ConflictsWithValue(p) /\ \/ pc[p] = "value" /\ pc'[p] \in {"queue", "return"}
                                     \/ pc[p] = "revalue" /\ pc'[p] \in {"sleep", "dequeue"}
         \/ LWLockWaitListLock(p) /\ \/ pc[p] = "queue" /\ pc'[p] = "flag"
                                     \/ pc[p] = "dequeue" /\ pc'[p] = "unlink"
                                     \/ pc[p] = "wakeup" /\ pc'[p] = "collect"
         \/ QueueFlag(p) /\ pc[p] = "flag" /\ pc'[p] = "push"
         \/ LWLockQueueSelf(p) /\ pc[p] = "push" /\ pc'[p] \in {"setok", "reattempt"}
         \/ LWLockDequeueSelf(p) /\ pc[p] = "unlink" /\ pc'[p] \in {"return", "resetok"}
         \/ SetReleaseOk(p) /\ \/ pc[p] = "setok" /\ pc'[p] = "recheck"
                               \/ pc[p] = "woken" /\ pc'[p] = "attempt"
                               \/ pc[p] = "resetok" /\ pc'[p] = "absorb"
         \/ PGSemaphoreLock(p) /\ \/ pc[p] = "sleep" /\ pc'[p] \in {"sleep", "woken", "check", "return"}
                                  \/ pc[p] = "absorb" /\ pc'[p] \in {"absorb", "return"}
         \/ Return(p) /\ pc[p] = "return" /\ pc'[p] = "idle"
         \/ LWLockRelease(p) /\ pc[p] \in {"idle", "release"} /\ pc'[p] \in {"wakeup", "idle"}
         \/ ScanVar(p) /\ pc[p] = "scan" /\ pc'[p] \in {"scan", "idle", "wake"}
         \/ Collect(p) /\ pc[p] = "collect" /\ pc'[p] \in {"collect", "flags"}
         \/ LWLockWakeup(p) /\ pc[p] = "flags" /\ pc'[p] \in {"idle", "wake"}
         \/ WakeClear(p) /\ pc[p] = "wake" /\ pc'[p] = "post"
         \/ WakePost(p) /\ pc[p] = "post" /\ pc'[p] \in {"idle", "wake"}
<1>0. pc \in [Procs -> Labels]
  BY Zenon DEF TypeOK
<1> USE <1>0 DEF Goto, At, Begins
<1>1. CASE LWLockAcquire(p)
  BY Zenon, <1>1 DEF LWLockAcquire, Begin
<1>2. CASE LWLockAcquireOrWait(p)
  BY Zenon, <1>2 DEF LWLockAcquireOrWait, Begin
<1>3. CASE LWLockWaitForVar(p)
  BY Zenon, <1>3 DEF LWLockWaitForVar, Begin
<1>4. CASE LWLockConditionalAcquire(p)
  BY Zenon, <1>4 DEF LWLockConditionalAcquire, Take
<1>5. CASE LWLockUpdateVar(p)
  BY Zenon, <1>5 DEF LWLockUpdateVar
<1>6. CASE LWLockReleaseClearVar(p)
  BY Zenon, <1>6 DEF LWLockReleaseClearVar
<1>7. CASE Signal(p)
  BY Zenon, <1>7 DEF Signal
<1>8. CASE LWLockAttemptLock(p)
  BY Zenon, <1>8 DEF LWLockAttemptLock, Take
<1>9. CASE ConflictsWithLock(p)
  BY Zenon, <1>9 DEF ConflictsWithLock
<1>10. CASE ConflictsWithValue(p)
  BY Zenon, <1>10 DEF ConflictsWithValue
<1>11. CASE LWLockWaitListLock(p)
  BY Zenon, <1>11 DEF LWLockWaitListLock
<1>12. CASE QueueFlag(p)
  BY Zenon, <1>12 DEF QueueFlag
<1>13. CASE LWLockQueueSelf(p)
  BY Zenon, <1>13 DEF LWLockQueueSelf
<1>14. CASE LWLockDequeueSelf(p)
  BY Zenon, <1>14 DEF LWLockDequeueSelf
<1>15. CASE SetReleaseOk(p)
  BY Zenon, <1>15 DEF SetReleaseOk
<1>16. CASE PGSemaphoreLock(p)
  BY Zenon, <1>16 DEF PGSemaphoreLock
<1>17. CASE Return(p)
  BY Zenon, <1>17 DEF Return
<1>18. CASE LWLockRelease(p)
  BY Zenon, <1>18 DEF LWLockRelease
<1>19. CASE ScanVar(p)
  BY Zenon, <1>19 DEF ScanVar, Move
<1>20. CASE Collect(p)
  BY Zenon, <1>20 DEF Collect, Move
<1>21. CASE LWLockWakeup(p)
  BY Zenon, <1>21 DEF LWLockWakeup
<1>22. CASE WakeClear(p)
  BY Zenon, <1>22 DEF WakeClear
<1>23. CASE WakePost(p)
  BY Zenon, <1>23 DEF WakePost
<1> QED
  BY Zenon, <1>1, <1>2, <1>3, <1>4, <1>5, <1>6, <1>7, <1>8, <1>9, <1>10, <1>11, <1>12, <1>13,
     <1>14, <1>15, <1>16, <1>17, <1>18, <1>19, <1>20, <1>21, <1>22, <1>23 DEF Action, Step, Call

LEMMA CallKept ==
  ASSUME TypeOK, NEW p \in Procs, Action(p), NEW q \in Procs, pc[q] \in Waits
  PROVE  call'[q] = call[q] /\ mode'[q] = mode[q] /\ oldval'[q] = oldval[q]
<1>1. CASE q = p
  <2>1. pc[p] # "idle" /\ pc[p] # "return"
    BY Zenon, <1>1 DEF Waits
  <2>2. ~Begins(p) /\ ~Return(p)
    BY Zenon, <2>1, BeginFacts DEF Return, At
  <2> QED
    BY Zenon, <2>2, Frame
<1> QED
  BY Zenon, <1>1, Others

LEMMA QueuedWaits ==
  ASSUME TypeOK, Waiting, NEW q \in Procs, Queued(q) \/ \E r \in Procs : InWakeup(r, q)
  PROVE  pc[q] \in Waits
  BY Zenon DEF Waiting, WaitingOK

LEMMA FlagStep ==
  ASSUME TypeOK, ListsOK, Waiting, LockOK, Wakers, FlagOK, NEW p \in Procs, Action(p)
  PROVE  FlagOK'
<1>0. pc \in [Procs -> Labels] /\ waiters \in Seq(Procs)
  BY Zenon DEF TypeOK
<1>1. \A q \in Procs : q # p => pc'[q] = pc[q]
  BY Zenon, Frame
<1>2. ASSUME pc[p] \in Locking, pc[p] # "push" PROVE \A q \in Procs : pc[q] # "push"
  BY Zenon, <1>2 DEF LockOK, Locking
<1>3. CASE QueueFlag(p)
  BY Zenon, <1>3 DEF QueueFlag, FlagOK
<1>4. CASE LWLockDequeueSelf(p)
  <2>1. pc[p] = "unlink" /\ pc'[p] # "push"
    BY Zenon, <1>0, <1>4 DEF LWLockDequeueSelf, At, Goto
  <2>2. \A q \in Procs : pc'[q] # "push"
    BY Zenon, <1>1, <1>2, <2>1 DEF Locking
  <2>3. ASSUME waiters' # <<>> PROVE waiters # <<>>
    <3>1. waiters' \in Seq(Procs) /\ \A x : Queued(x)' <=> Queued(x) /\ x # p
      BY Zenon, <1>4, DequeueSelfLists
    <3>2. 1 \in DOMAIN waiters'
      BY <2>3, <3>1
    <3>3. PICK x : x = waiters'[1]
      BY Zenon
    <3>4. Queued(x)'
      BY Zenon, <3>2, <3>3 DEF Queued
    <3> QED
      BY <3>1, <3>4 DEF Queued
  <2> QED
    BY Zenon, <1>4, <2>2, <2>3 DEF LWLockDequeueSelf, FlagOK
<1>5. CASE LWLockWakeup(p)
  <2>1. pc[p] = "flags" /\ pc'[p] # "push"
    BY Zenon, <1>0, <1>5 DEF LWLockWakeup, At, Goto
  <2>2. \A q \in Procs : pc'[q] # "push"
    BY Zenon, <1>1, <1>2, <2>1 DEF Locking
  <2>3. CASE wakeup[p] = <<>>
    <3>1. WakerOK(p) /\ \A q \in Procs : ~InWakeup(p, q)
      BY <2>3 DEF Wakers, InWakeup
    <3>2. waiters = <<>>
      BY Zenon, <3>1, <2>1 DEF WakerOK
    <3> QED
      BY Zenon, <1>5, <2>2, <3>2 DEF LWLockWakeup, FlagOK
  <2>4. CASE wakeup[p] # <<>>
    BY Zenon, <1>5, <2>2, <2>4 DEF LWLockWakeup, FlagOK
  <2> QED
    BY Zenon, <2>3, <2>4
<1>6. ASSUME hasWaiters' = hasWaiters, ~QueueFlag(p) PROVE FlagOK'
  <2>1. \A q \in Procs : pc'[q] = "push" => hasWaiters'
    <3>1. pc'[p] = "push" => pc[p] = "push"
      BY Zenon, <1>6, Flow
    <3> QED
      BY Zenon, <1>1, <1>6, <3>1 DEF FlagOK
  <2>2. CASE LWLockQueueSelf(p)
    BY <1>6, <2>1, <2>2 DEF LWLockQueueSelf, FlagOK, At
  <2>3. ASSUME NEW i \in DOMAIN waiters PROVE hasWaiters
    BY <1>0, <2>3 DEF FlagOK
  <2> QED
    BY Zenon, <1>4, <1>6, <2>1, <2>2, <2>3, ListCases DEF FlagOK
<1> QED
  BY Zenon, <1>3, <1>4, <1>5, <1>6, Frame

Front(s, c) == \A i, j \in DOMAIN s : i < j /\ c[s[i]] = "acquire" => c[s[j]] = "acquire"

LEMMA FrontWithout ==
  ASSUME NEW s \in Seq(Procs), NEW c, NEW k \in DOMAIN s, Front(s, c)
  PROVE  Front(Without(s, k), c)
<1> DEFINE w == Without(s, k)
<1>1. /\ DOMAIN w = 1 .. Len(s) - 1 /\ Len(s) \in Nat /\ DOMAIN s = 1 .. Len(s) /\ k \in 1 .. Len(s)
      /\ \A j \in 1 .. Len(s) - 1 : w[j] = IF j < k THEN s[j] ELSE s[j + 1]
  <2>1. /\ DOMAIN w = 1 .. Len(s) - 1
        /\ \A j \in 1 .. Len(s) - 1 : w[j] = IF j < k THEN s[j] ELSE s[j + 1]
    BY Zenon, WithoutSeq
  <2> HIDE DEF w
  <2>2. Len(s) \in Nat /\ DOMAIN s = 1 .. Len(s) /\ k \in 1 .. Len(s)
    OBVIOUS
  <2> QED
    BY Zenon, <2>1, <2>2
<1> HIDE DEF w
<1> SUFFICES ASSUME NEW i \in 1 .. Len(s) - 1, NEW j \in 1 .. Len(s) - 1, i < j, c[w[i]] = "acquire"
             PROVE  c[w[j]] = "acquire"
  BY Zenon, <1>1 DEF Front, w
<1> DEFINE a == IF i < k THEN i ELSE i + 1
           b == IF j < k THEN j ELSE j + 1
<1>2. a \in DOMAIN s /\ b \in DOMAIN s /\ a < b /\ w[i] = s[a] /\ w[j] = s[b]
  BY <1>1
<1> QED
  BY Zenon, <1>2 DEF Front

LEMMA FrontStep ==
  ASSUME TypeOK, ListsOK, Waiting, FrontOK, NEW p \in Procs, Action(p)
  PROVE  FrontOK'
<1>0. waiters \in Seq(Procs) /\ Front(waiters, call)
  BY Zenon DEF TypeOK, FrontOK, Front
<1>1. ASSUME NEW i \in DOMAIN waiters PROVE call'[waiters[i]] = call[waiters[i]]
  <2>1. waiters[i] \in Procs /\ Queued(waiters[i])
    BY <1>0, <1>1 DEF Queued
  <2> QED
    BY Zenon, <2>1, QueuedWaits, CallKept
<1>2. Front(waiters, call')
  BY Zenon, <1>0, <1>1 DEF Front
<1>3. CASE LWLockQueueSelf(p)
  <2>1. CASE call[p] = "acquire"
    <3>1. waiters' = Append(waiters, p) /\ call' = call
      BY Zenon, <1>3, <2>1 DEF LWLockQueueSelf, callers
    <3>2. /\ DOMAIN waiters' = 1 .. Len(waiters) + 1 /\ Len(waiters) \in Nat
          /\ DOMAIN waiters = 1 .. Len(waiters)
          /\ \A j \in 1 .. Len(waiters) : waiters'[j] = waiters[j]
          /\ waiters'[Len(waiters) + 1] = p
      BY <1>0, <3>1
    <3> SUFFICES ASSUME NEW i \in DOMAIN waiters', NEW j \in DOMAIN waiters', i < j,
                        call[waiters'[i]] = "acquire"
                 PROVE  call[waiters'[j]] = "acquire"
      BY Zenon, <3>1 DEF FrontOK
    <3>3. CASE j = Len(waiters) + 1
      BY Zenon, <3>2, <3>3, <2>1
    <3>4. CASE j # Len(waiters) + 1
      <4>1. i \in DOMAIN waiters /\ j \in DOMAIN waiters
        BY <3>2, <3>4
      <4> QED
        BY Zenon, <1>0, <3>2, <4>1 DEF Front
    <3> QED
      BY Zenon, <3>3, <3>4
  <2>2. CASE call[p] # "acquire"
    <3>1. waiters' = <<p>> \o waiters /\ call' = call
      BY Zenon, <1>3, <2>2 DEF LWLockQueueSelf, callers
    <3>2. /\ Len(waiters') = Len(waiters) + 1 /\ waiters'[1] = p /\ waiters' \in Seq(Procs)
          /\ \A k \in 2 .. Len(waiters) + 1 : waiters'[k] = waiters[k - 1]
      BY <1>0, <3>1, MemCons
    <3>3. /\ DOMAIN waiters' = 1 .. Len(waiters) + 1 /\ Len(waiters) \in Nat
          /\ DOMAIN waiters = 1 .. Len(waiters)
      BY <1>0, <3>2
    <3> SUFFICES ASSUME NEW i \in DOMAIN waiters', NEW j \in DOMAIN waiters', i < j,
                        call[waiters'[i]] = "acquire"
                 PROVE  call[waiters'[j]] = "acquire"
      BY Zenon, <3>1 DEF FrontOK
    <3>4. i # 1
      BY Zenon, <3>2, <2>2
    <3>5. /\ i - 1 \in DOMAIN waiters /\ j - 1 \in DOMAIN waiters /\ i - 1 < j - 1
          /\ waiters'[i] = waiters[i - 1] /\ waiters'[j] = waiters[j - 1]
      BY <3>2, <3>3, <3>4
    <3> QED
      BY Zenon, <1>0, <3>5 DEF Front
  <2> QED
    BY Zenon, <2>1, <2>2
<1>4. ASSUME NEW i \in DOMAIN waiters, waiters' = Without(waiters, i) PROVE FrontOK'
  BY <1>0, <1>2, <1>4, FrontWithout DEF Front, FrontOK
<1>5. CASE waiters' = waiters
  BY Zenon, <1>2, <1>5 DEF Front, FrontOK
<1>6. CASE LWLockDequeueSelf(p)
  BY Zenon, <1>4, <1>5, <1>6 DEF LWLockDequeueSelf
<1> QED
  BY Zenon, <1>3, <1>4, <1>5, <1>6, ListCases DEF Move

\* A process with the wait list locked keeps the others off it.
LEMMA ListHeld ==
  ASSUME TypeOK, LockOK, NEW p \in Procs, Action(p), NEW r \in Procs, r # p, pc[r] \in Locking
  PROVE  waiters' = waiters /\ locked /\ pc[p] \notin Locking /\ ~LWLockWaitListLock(p)
<1>1. locked /\ pc[p] \notin Locking
  BY Zenon DEF LockOK
<1>2. ~LWLockWaitListLock(p)
  BY Zenon, <1>1 DEF LWLockWaitListLock
<1>3. pc[p] \notin {"push", "unlink", "scan", "collect"}
  BY Zenon, <1>1 DEF Locking
<1>4. waiters' = waiters
  BY Zenon, <1>3, Frame DEF LWLockQueueSelf, LWLockDequeueSelf, ScanVar, Collect, At
<1> QED
  BY Zenon, <1>1, <1>2, <1>4

LEMMA WakersOfOthers ==
  ASSUME TypeOK, ListsOK, Waiting, LockOK, Wakers, NEW p \in Procs, Action(p), NEW r \in Procs, r # p
  PROVE  WakerOK(r)'
<1>0. WakerOK(r) /\ waiters \in Seq(Procs)
  BY Zenon DEF Wakers, TypeOK
<1>1. pc'[r] = pc[r] /\ wakeup'[r] = wakeup[r] /\ wokeup_somebody'[r] = wokeup_somebody[r]
  BY Zenon, Others
<1>2. \A q \in Procs : InWakeup(r, q)' <=> InWakeup(r, q)
  BY Zenon, <1>1 DEF InWakeup
<1>3. \A q \in Procs : InWakeup(r, q) => call'[q] = call[q]
  BY Zenon, QueuedWaits, CallKept
<1>4. pc[r] \in Locking => waiters' = waiters
  BY Zenon, ListHeld
<1>5. ASSUME pc[r] \in {"scan", "collect", "flags"}, NEW q \in Procs, InWakeup(r, q)
      PROVE  pc'[q] \notin {"unlink", "resetok", "absorb"}
  <2>1. pc[q] \notin {"unlink", "resetok", "absorb"}
    BY Zenon, <1>0, <1>5 DEF WakerOK
  <2>2. CASE q = p
    <3>1. ~LWLockWaitListLock(p)
      BY Zenon, <1>5, ListHeld DEF Locking
    <3> QED
      BY Zenon, <2>1, <2>2, <3>1, Flow
  <2>3. CASE q # p
    BY Zenon, <2>1, <2>3, Others
  <2> QED
    BY Zenon, <2>2, <2>3
<1>6. ASSUME wokeup_somebody[r] PROVE \A i \in DOMAIN waiters' : call'[waiters'[i]] = "acquire"
  <2>1. waiters' = waiters
    BY Zenon, <1>0, <1>4, <1>6 DEF WakerOK, Locking
  <2>2. ASSUME NEW i \in DOMAIN waiters PROVE call'[waiters[i]] = "acquire"
    <3>1. waiters[i] \in Procs /\ Queued(waiters[i])
      BY <1>0, <2>2 DEF Queued
    <3>2. call'[waiters[i]] = call[waiters[i]]
      BY Zenon, <3>1, QueuedWaits, CallKept
    <3> QED
      BY Zenon, <1>0, <1>6, <3>2 DEF WakerOK
  <2> QED
    BY Zenon, <2>1, <2>2
<1>7. pc[r] = "flags" /\ ~wokeup_somebody[r] => waiters' = <<>>
  BY Zenon, <1>0, <1>4 DEF WakerOK, Locking
<1> QED
  BY Zenon, <1>0, <1>1, <1>2, <1>3, <1>5, <1>6, <1>7 DEF WakerOK

LEMMA WakerMoves ==
  ASSUME TypeOK, ListsOK, Waiting, LockOK, Wakers, NEW p \in Procs, NEW i \in DOMAIN waiters, Move(p, i),
         Action(p), pc[p] \in {"scan", "collect"}
  PROVE  /\ wakeup'[p] # <<>>
         /\ \A q \in Procs : InWakeup(p, q)' => pc'[q] \notin {"unlink", "resetok", "absorb"}
<1>1. /\ wakeup'[p] # <<>> /\ waiters[i] \in Procs /\ Queued(waiters[i])
      /\ \A q \in Procs : InWakeup(p, q)' => InWakeup(p, q) \/ q = waiters[i]
  BY Zenon, MoveLists
<1>2. ASSUME NEW q \in Procs, InWakeup(p, q)' PROVE pc'[q] \notin {"unlink", "resetok", "absorb"}
  <2>1. pc[q] \in Waits
    BY Zenon, <1>1, <1>2, QueuedWaits
  <2>2. q # p /\ pc'[q] = pc[q]
    BY Zenon, <2>1, Others DEF Waits
  <2>3. pc[q] # "unlink"
    BY Zenon, <2>2 DEF LockOK, Locking
  <2>4. CASE InWakeup(p, q)
    BY Zenon, <2>2, <2>4 DEF Wakers, WakerOK
  <2>5. CASE Queued(q)
    BY Zenon, <2>2, <2>3, <2>5 DEF Waiting, WaitingOK
  <2> QED
    BY Zenon, <1>1, <1>2, <2>4, <2>5
<1> QED
  BY Zenon, <1>1, <1>2

LEMMA CollectWaker ==
  ASSUME TypeOK, ListsOK, Waiting, LockOK, Wakers, FrontOK, NEW p \in Procs, Collect(p), Action(p)
  PROVE  WakerOK(p)'
<1>0. /\ WakerOK(p) /\ waiters \in Seq(Procs) /\ pc \in [Procs -> Labels]
      /\ wokeup_somebody \in [Procs -> BOOLEAN] /\ mode \in [Procs -> Modes]
      /\ pc[p] = "collect" /\ call' = call
  BY Zenon DEF Wakers, TypeOK, Collect, At, callers
<1>1. \A q \in Procs : lwWaitMode(q) # "untilfree" <=> call[q] = "acquire"
  BY Zenon, <1>0 DEF lwWaitMode, Modes
<1>2. ASSUME NEW i \in DOMAIN waiters, \A j \in 1 .. i - 1 : Passed(p, j), Move(p, i),
             wokeup_somebody' = [wokeup_somebody EXCEPT ![p] = @ \/ lwWaitMode(waiters[i]) # "untilfree"],
             Goto(p, IF lwWaitMode(waiters[i]) = "exclusive" THEN "flags" ELSE "collect")
      PROVE  WakerOK(p)'
  <2>1. /\ waiters[i] \in Procs
        /\ \A x : Queued(x)' <=> Queued(x) /\ x # waiters[i]
        /\ \A q \in Procs : InWakeup(p, q)' <=> InWakeup(p, q) \/ q = waiters[i]
        /\ waiters' \in Seq(Procs)
    BY Zenon, <1>2, MoveLists
  <2>2. /\ wakeup'[p] # <<>>
        /\ \A q \in Procs : InWakeup(p, q)' => pc'[q] \notin {"unlink", "resetok", "absorb"}
    BY Zenon, <1>0, <1>2, WakerMoves
  <2>3. wokeup_somebody'[p] <=> wokeup_somebody[p] \/ call[waiters[i]] = "acquire"
    BY Zenon, <1>0, <1>1, <1>2, <2>1
  <2>4. pc'[p] \in {"collect", "flags"} /\ (pc'[p] = "flags" => call[waiters[i]] = "acquire")
    BY Zenon, <1>0, <1>2 DEF Goto, lwWaitMode
  <2>5. wokeup_somebody'[p] => \E q \in Procs : InWakeup(p, q)' /\ call[q] = "acquire"
    BY Zenon, <1>0, <2>1, <2>3 DEF WakerOK
  <2>6. ASSUME wokeup_somebody'[p], NEW j \in DOMAIN waiters' PROVE call[waiters'[j]] = "acquire"
    <3>1. PICK x : x = waiters'[j]
      BY Zenon
    <3>2. Queued(x)'
      BY Zenon, <3>1, <2>6 DEF Queued
    <3>3. PICK k \in DOMAIN waiters : waiters[k] = x /\ k # i
      BY Zenon, <3>2, <2>1 DEF Queued
    <3>4. CASE wokeup_somebody[p]
      BY Zenon, <1>0, <3>1, <3>3, <3>4 DEF WakerOK
    <3>5. CASE ~wokeup_somebody[p]
      <4>1. call[waiters[i]] = "acquire"
        BY Zenon, <2>3, <2>6, <3>5
      <4>2. i \in Nat /\ i >= 1 /\ (i > 1 => 1 \in 1 .. i - 1)
        BY <1>0
      <4>3. i = 1
        BY <1>2, <3>5, <4>2 DEF Passed
      <4>4. i < k
        BY <1>0, <3>3, <4>3
      <4> QED
        BY Zenon, <3>1, <3>3, <4>1, <4>4 DEF FrontOK
    <3> QED
      BY Zenon, <3>4, <3>5
  <2> QED
    BY Zenon, <1>0, <2>2, <2>3, <2>4, <2>5, <2>6 DEF WakerOK
<1>3. ASSUME \A i \in DOMAIN waiters : Passed(p, i), Goto(p, "flags"),
             UNCHANGED <<waiters, wakeup, wokeup_somebody>>
      PROVE  WakerOK(p)'
  <2>1. pc'[p] = "flags" /\ \A q \in Procs : q # p => pc'[q] = pc[q]
    BY Zenon, <1>0, <1>3 DEF Goto
  <2>2. \A q \in Procs : InWakeup(p, q)' <=> InWakeup(p, q)
    BY Zenon, <1>3 DEF InWakeup
  <2>3. ~wokeup_somebody[p] => waiters = <<>>
    <3>1. waiters # <<>> => 1 \in DOMAIN waiters
      BY <1>0
    <3> QED
      BY Zenon, <1>3, <3>1 DEF Passed
  <2>4. \A q \in Procs : InWakeup(p, q)' => pc'[q] \notin {"unlink", "resetok", "absorb"}
    BY Zenon, <1>0, <2>1, <2>2 DEF WakerOK
  <2> QED
    BY Zenon, <1>0, <1>3, <2>1, <2>2, <2>3, <2>4 DEF WakerOK
<1> QED
  BY Zenon, <1>2, <1>3 DEF Collect

LEMMA WakersStep ==
  ASSUME TypeOK, ListsOK, Waiting, LockOK, Wakers, FrontOK, NEW p \in Procs, Action(p)
  PROVE  Wakers'
<1>a. SUFFICES WakerOK(p)'
  BY Zenon, WakersOfOthers DEF Wakers
<1>0. /\ WakerOK(p) /\ waiters \in Seq(Procs) /\ pc \in [Procs -> Labels]
      /\ wokeup_somebody \in [Procs -> BOOLEAN] /\ wakeup \in [Procs -> Seq(Procs)]
  BY Zenon DEF Wakers, TypeOK
<1>1. ASSUME pc[p] \notin {"scan", "collect", "flags", "wake", "post"} PROVE WakerOK(p)'
  <2>1. wakeup' = wakeup /\ wokeup_somebody' = wokeup_somebody
    BY Zenon, <1>1, Frame DEF ScanVar, Collect, WakeClear, LWLockWakeup, At
  <2>2. wakeup'[p] = <<>> /\ ~wokeup_somebody'[p]
    BY Zenon, <1>0, <1>1, <2>1 DEF WakerOK
  <2>3. pc'[p] \notin {"flags", "wake", "post"}
    BY Zenon, <1>1, Flow
  <2>4. \A q \in Procs : ~InWakeup(p, q)'
    BY <2>2 DEF InWakeup
  <2> QED
    BY Zenon, <2>2, <2>3, <2>4 DEF WakerOK
<1>2. CASE Signal(p)
  <2>1. UNCHANGED <<pc, waiters, wakeup, wokeup_somebody, call>>
    BY Zenon, <1>2 DEF Signal, callers, waking
  <2>2. \A q \in Procs : InWakeup(p, q)' <=> InWakeup(p, q)
    BY Zenon, <2>1 DEF InWakeup
  <2> QED
    BY Zenon, <1>0, <2>1, <2>2 DEF WakerOK
<1>3. CASE ScanVar(p)
  <2>1. pc[p] = "scan" /\ ~wokeup_somebody[p] /\ wokeup_somebody' = wokeup_somebody
    BY Zenon, <1>0, <1>3 DEF ScanVar, At, WakerOK
  <2>2. ASSUME Move(p, 1), UNCHANGED pc, 1 \in DOMAIN waiters PROVE WakerOK(p)'
    <3>1. /\ wakeup'[p] # <<>>
          /\ \A q \in Procs : InWakeup(p, q)' => pc'[q] \notin {"unlink", "resetok", "absorb"}
      BY Zenon, <2>1, <2>2, WakerMoves
    <3> QED
      BY Zenon, <2>1, <2>2, <3>1 DEF WakerOK
  <2>3. ASSUME Goto(p, IF wakeup[p] = <<>> THEN "idle" ELSE "wake"), UNCHANGED <<waiters, wakeup>>
        PROVE  WakerOK(p)'
    <3>1. pc'[p] = IF wakeup[p] = <<>> THEN "idle" ELSE "wake"
      BY Zenon, <1>0, <2>3 DEF Goto
    <3> QED
      BY Zenon, <2>1, <2>3, <3>1 DEF WakerOK
  <2>4. waiters # <<>> => 1 \in DOMAIN waiters
    BY <1>0
  <2> QED
    BY Zenon, <1>3, <2>2, <2>3, <2>4 DEF ScanVar
<1>4. CASE Collect(p)
  BY Zenon, <1>4, CollectWaker
<1>5. CASE LWLockWakeup(p)
  <2>1. /\ pc'[p] = IF wakeup[p] = <<>> THEN "idle" ELSE "wake"
        /\ ~wokeup_somebody'[p] /\ wakeup' = wakeup
    BY Zenon, <1>0, <1>5 DEF LWLockWakeup, Goto
  <2> QED
    BY Zenon, <2>1 DEF WakerOK
<1>6. CASE WakeClear(p)
  <2>1. pc[p] = "wake" /\ pc'[p] = "post" /\ wokeup_somebody' = wokeup_somebody
    BY Zenon, <1>0, <1>6 DEF WakeClear, Goto, At
  <2> QED
    BY Zenon, <1>0, <2>1 DEF WakerOK
<1>7. CASE WakePost(p)
  <2>1. /\ pc[p] = "post" /\ pc'[p] = IF wakeup[p] = <<>> THEN "idle" ELSE "wake"
        /\ wokeup_somebody' = wokeup_somebody /\ wakeup' = wakeup
    BY Zenon, <1>0, <1>7 DEF WakePost, Goto, At
  <2> QED
    BY Zenon, <1>0, <2>1 DEF WakerOK
<1> QED
  BY Zenon, <1>1, <1>2, <1>3, <1>4, <1>5, <1>6, <1>7, Flow

LEMMA QueuedKept ==
  ASSUME TypeOK, ListsOK, Waiting, Wakers, NEW p \in Procs, Action(p), NEW q \in Procs, Queued(q)',
         ~(q = p /\ LWLockQueueSelf(p))
  PROVE  Queued(q)
<1>1. CASE LWLockQueueSelf(p)
  <2>1. WaitingOK(p) /\ pc[p] = "push"
    BY Zenon, <1>1 DEF Waiting, LWLockQueueSelf, At
  <2>2. ~Queued(p)
    BY Zenon, <2>1 DEF WaitingOK, Waits
  <2> QED
    BY Zenon, <1>1, <2>2, QueueSelfLists
<1>2. CASE LWLockDequeueSelf(p)
  BY Zenon, <1>2, DequeueSelfLists
<1>3. ASSUME NEW i \in DOMAIN waiters, Move(p, i) PROVE Queued(q)
  BY Zenon, <1>3, MoveLists
<1>4. CASE waiters' = waiters
  BY Zenon, <1>4 DEF Queued
<1> QED
  BY Zenon, <1>1, <1>2, <1>3, <1>4, ListCases

\* Someone an LWLockWakeup is to wake up to retry.
LEMMA Retrier ==
  ASSUME TypeOK, Calls, ListsOK, Waiting, Wakers, NEW p \in Procs, pc[p] = "flags", wokeup_somebody[p]
  PROVE  \E q \in Procs : /\ InWakeup(p, q) /\ call[q] = "acquire" /\ ~Queued(q) /\ q # p
                          /\ pc[q] \in {"reattempt", "dequeue", "sleep"}
<1>1. PICK q \in Procs : InWakeup(p, q) /\ call[q] = "acquire"
  BY Zenon DEF Wakers, WakerOK
<1>2. pc[q] \in Waits
  BY Zenon, <1>1, QueuedWaits
<1>3. pc[q] \notin {"unlink", "resetok", "absorb"}
  BY Zenon, <1>1 DEF Wakers, WakerOK
<1>4. pc[q] \notin {"setok", "recheck", "revalue"}
  BY Zenon, <1>1 DEF Calls, CallOK
<1>5. ~Queued(q)
  BY Zenon, <1>1 DEF ListsOK
<1> QED
  BY Zenon, <1>1, <1>2, <1>3, <1>4, <1>5 DEF Waits

LEMMA ReleaseStep ==
  ASSUME TypeOK, Calls, ListsOK, Waiting, Wakers, ReleaseOK, NEW p \in Procs, Action(p)
  PROVE  ReleaseOK'
<1>0. /\ pc \in [Procs -> Labels] /\ waiters \in Seq(Procs)
      /\ WaitingOK(p) /\ CallOK(p)
  BY Zenon DEF TypeOK, Waiting, Calls
<1>1. CASE SetReleaseOk(p)
  BY Zenon, <1>1 DEF SetReleaseOk, ReleaseOK
<1>2. CASE LWLockWakeup(p)
  <2> SUFFICES ASSUME wokeup_somebody[p] PROVE ReleaseOK'
    BY Zenon, <1>2 DEF LWLockWakeup, ReleaseOK
  <2>1. pc[p] = "flags" /\ call' = call /\ waiters' = waiters
    BY Zenon, <1>2 DEF LWLockWakeup, At, callers
  <2>2. PICK q \in Procs : /\ call[q] = "acquire" /\ ~Queued(q) /\ q # p
                           /\ pc[q] \in {"reattempt", "dequeue", "sleep"}
    BY Zenon, <2>1, Retrier
  <2>3. WillSetOk(q)'
    <3>1. pc'[q] = pc[q] /\ ~Queued(q)'
      BY Zenon, <2>1, <2>2, Frame DEF Queued
    <3> QED
      BY Zenon, <2>1, <2>2, <3>1 DEF WillSetOk
  <2>4. ASSUME NEW r \in Procs, Queued(r)' PROVE call'[r] = "acquire"
    BY Zenon, <2>1, <2>4 DEF Wakers, WakerOK, Queued
  <2> QED
    BY Zenon, <2>3, <2>4 DEF ReleaseOK
<1>3. ASSUME releaseOk' = releaseOk, ~releaseOk, ~SetReleaseOk(p), ~LWLockWakeup(p) PROVE ReleaseOK'
  <2>1. PICK q \in Procs : WillSetOk(q)
    BY Zenon, <1>3 DEF ReleaseOK
  <2>2. WillSetOk(q)'
    <3>1. CASE q # p
      <4>1. pc'[q] = pc[q] /\ call'[q] = call[q]
        BY Zenon, <3>1, Others
      <4>2. Queued(q)' => Queued(q)
        BY Zenon, <3>1, QueuedKept
      <4> QED
        BY Zenon, <2>1, <4>1, <4>2 DEF WillSetOk
    <3>2. CASE q = p
      <4>1. CASE pc[p] = "woken"
        BY Zenon, <1>3, <3>2, <4>1, Flow DEF WillSetOk
      <4>2. CASE /\ call[p] = "acquire" /\ ~Queued(p)
                 /\ pc[p] \in {"reattempt", "sleep", "dequeue", "unlink", "resetok"}
        <5>1. call'[p] = "acquire"
          BY Zenon, <4>2, CallKept DEF Waits
        <5>2. ~LWLockQueueSelf(p)
          BY Zenon, <4>2 DEF LWLockQueueSelf, At
        <5>3. ~Queued(p)'
          BY Zenon, <4>2, <5>2, QueuedKept
        <5>4. CASE PGSemaphoreLock(p)
          <6>1. pc'[p] \in {"sleep", "woken"}
            BY Zenon, <1>0, <4>2, <5>4 DEF PGSemaphoreLock, At, Goto
          <6> QED
            BY Zenon, <3>2, <5>1, <5>3, <6>1 DEF WillSetOk
        <5>5. CASE LWLockDequeueSelf(p)
          <6>1. pc'[p] = "resetok"
            BY Zenon, <1>0, <4>2, <5>5 DEF LWLockDequeueSelf, Queued, Goto
          <6> QED
            BY Zenon, <3>2, <5>1, <5>3, <6>1 DEF WillSetOk
        <5>6. ASSUME ~PGSemaphoreLock(p), ~LWLockDequeueSelf(p)
              PROVE  pc'[p] \in {"reattempt", "sleep", "dequeue", "unlink", "resetok"}
          BY Zenon, <1>3, <4>2, <5>6, Flow
        <5> QED
          BY Zenon, <3>2, <5>1, <5>3, <5>4, <5>5, <5>6 DEF WillSetOk
      <4> QED
        BY Zenon, <2>1, <3>2, <4>1, <4>2 DEF WillSetOk
    <3> QED
      BY Zenon, <3>1, <3>2
  <2>3. ASSUME NEW r \in Procs, call'[r] = "waitvar", Queued(r)', pc'[r] \in {"recheck", "revalue", "sleep"}
        PROVE  FALSE
    <3>1. ~(call[r] = "waitvar" /\ Queued(r) /\ pc[r] \in {"recheck", "revalue", "sleep"})
      BY Zenon, <1>3 DEF ReleaseOK
    <3>2. CASE r # p
      <4>1. pc'[r] = pc[r] /\ call'[r] = call[r]
        BY Zenon, <3>2, Others
      <4> QED
        BY Zenon, <2>3, <3>1, <3>2, <4>1, QueuedKept
    <3>3. CASE r = p
      <4>1. pc[p] \in {"recheck", "revalue", "sleep", "reattempt"}
        BY Zenon, <1>3, <2>3, <3>3, Flow
      <4>2. call'[p] = call[p]
        BY Zenon, <4>1, CallKept DEF Waits
      <4>3. ~LWLockQueueSelf(p)
        BY Zenon, <4>1 DEF LWLockQueueSelf, At
      <4>4. pc[p] # "reattempt"
        BY Zenon, <1>0, <2>3, <3>3, <4>2 DEF CallOK
      <4> QED
        BY Zenon, <2>3, <3>1, <3>3, <4>1, <4>2, <4>3, <4>4, QueuedKept
    <3> QED
      BY Zenon, <3>2, <3>3
  <2> QED
    BY Zenon, <2>2, <2>3 DEF ReleaseOK
<1>4. CASE releaseOk' = releaseOk /\ releaseOk
  BY Zenon, <1>4 DEF ReleaseOK
<1> QED
  BY Zenon, <1>1, <1>2, <1>3, <1>4, Frame DEF TypeOK

-----------------------------------------------------------------------------

-----------------------------------------------------------------------------
(* Cardinalities of sets of processes *)

LEMMA CardNat == ASSUME NEW T \in SUBSET Procs PROVE IsFiniteSet(T) /\ Cardinality(T) \in Nat
  BY Zenon, LWLockAssumption, FS_Subset, FS_CardinalityType

LEMMA CardAdd ==
  ASSUME NEW T \in SUBSET Procs, NEW x \in Procs, x \notin T
  PROVE  Cardinality(T \cup {x}) = Cardinality(T) + 1
  BY Zenon, CardNat, FS_AddElement

LEMMA CardRemove ==
  ASSUME NEW T \in SUBSET Procs, NEW x \in T
  PROVE  Cardinality(T \ {x}) = Cardinality(T) - 1 /\ Cardinality(T) >= 1
<1>1. Cardinality(T \ {x}) = Cardinality(T) - 1
  BY Zenon, CardNat, FS_RemoveElement
<1>2. Cardinality(T \ {x}) \in Nat /\ Cardinality(T) \in Nat
  BY Zenon, CardNat
<1> QED
  BY <1>1, <1>2

LEMMA CardZero == ASSUME NEW T \in SUBSET Procs, Cardinality(T) = 0 PROVE T = {}
  BY Zenon, CardNat, FS_EmptySet

LEMMA CardBound == ASSUME NEW T \in SUBSET Procs PROVE Cardinality(T) < LW_VAL_EXCLUSIVE
<1>1. Cardinality(T) <= Cardinality(Procs)
  BY Zenon, LWLockAssumption, FS_Subset
<1>2. Cardinality(T) \in Nat /\ Cardinality(Procs) \in Nat
  BY Zenon, CardNat
<1> QED
  BY <1>1, <1>2, LWLockAssumption

-----------------------------------------------------------------------------
(* The holders *)

LEMMA HolderCounted ==
  ASSUME TypeOK, CountOK, NEW p \in Procs, held[p] # "none"
  PROVE  lockcount > 0
<1>1. LW_VAL_EXCLUSIVE > 0
  <2>1. Cardinality(Procs) \in Nat
    BY Zenon, CardNat
  <2> QED
    BY <2>1, LWLockAssumption
<1>2. CASE \E q \in Procs : held[q] = "exclusive"
  BY Zenon, <1>1, <1>2 DEF CountOK
<1>3. CASE \A q \in Procs : held[q] # "exclusive"
  <2>1. lockcount = Cardinality(Sharers)
    BY Zenon, <1>3 DEF CountOK
  <2>2. held[p] = "shared"
    BY Zenon, <1>3 DEF TypeOK, Modes
  <2>3. p \in Sharers /\ Sharers \in SUBSET Procs
    BY Zenon, <2>2 DEF Sharers
  <2>4. Cardinality(Sharers) >= 1 /\ Cardinality(Sharers) \in Nat
    BY Zenon, <2>3, CardRemove, CardNat
  <2> QED
    BY <2>1, <2>4
<1> QED
  BY Zenon, <1>2, <1>3

LEMMA TakeCount ==
  ASSUME TypeOK, CountOK, NEW p \in Procs, held[p] = "none", NEW m \in Modes, Take(p, m)
  PROVE  CountOK' /\ lockcount' \in Nat
<1> USE DEF Take, lock_free
<1>0. LW_VAL_EXCLUSIVE \in Nat /\ lockcount \in Nat /\ held \in [Procs -> Modes \cup {"none"}]
  BY Zenon, LWLockAssumption DEF TypeOK
<1>1. held'[p] = m /\ \A q \in Procs : q # p => held'[q] = held[q]
  BY Zenon, <1>0
<1>2. lockcount < LW_VAL_EXCLUSIVE
  <2>1. Cardinality(Procs) \in Nat
    BY Zenon, CardNat
  <2> QED
    BY <2>1, <1>0, LWLockAssumption DEF Modes
<1>3. \A q \in Procs : held[q] # "exclusive"
  BY <1>2, <1>0 DEF CountOK
<1>4. lockcount = Cardinality(Sharers)
  BY Zenon, <1>3 DEF CountOK
<1>5. CASE m = "exclusive"
  <2>1. Sharers = {}
    BY Zenon, <1>4, <1>5, CardZero DEF Sharers
  <2>2. \A q \in Procs : held[q] = "none"
    BY Zenon, <2>1, <1>3, <1>0 DEF Sharers, Modes
  <2>3. lockcount' = LW_VAL_EXCLUSIVE
    BY <1>0, <1>5
  <2> QED
    BY Zenon, <1>0, <1>1, <1>5, <2>2, <2>3 DEF CountOK, MutualExclusion
<1>6. CASE m = "shared"
  <2>1. lockcount' = lockcount + 1
    BY Zenon, <1>6
  <2>2. \A q \in Procs : held'[q] # "exclusive"
    BY Zenon, <1>1, <1>3, <1>6
  <2>3. Sharers' = Sharers \cup {p} /\ p \notin Sharers /\ Sharers \in SUBSET Procs
    BY Zenon, <1>1, <1>6 DEF Sharers
  <2>4. Cardinality(Sharers') = lockcount + 1
    BY Zenon, <2>3, <1>4, CardAdd
  <2> QED
    BY <1>0, <2>1, <2>2, <2>4 DEF CountOK, MutualExclusion
<1> QED
  BY Zenon, <1>5, <1>6 DEF Modes

LEMMA ReleaseCount ==
  ASSUME TypeOK, CountOK, NEW p \in Procs, LWLockRelease(p)
  PROVE  CountOK' /\ lockcount' \in Nat /\ (held[p] = "exclusive" => lockcount' = 0)
<1> USE DEF LWLockRelease
<1>0. LW_VAL_EXCLUSIVE \in Nat /\ lockcount \in Nat /\ held \in [Procs -> Modes \cup {"none"}]
  BY Zenon, LWLockAssumption DEF TypeOK
<1>1. held'[p] = "none" /\ \A q \in Procs : q # p => held'[q] = held[q]
  BY Zenon, <1>0
<1>2. CASE held[p] = "exclusive"
  <2>1. \A q \in Procs : held'[q] = "none"
    BY Zenon, <1>1, <1>2 DEF CountOK, MutualExclusion
  <2>2. lockcount' = 0
    BY <1>0, <1>2 DEF CountOK
  <2>3. Sharers' = {}
    BY Zenon, <2>1 DEF Sharers
  <2>4. Cardinality({}) = 0
    BY Zenon, FS_EmptySet
  <2> QED
    BY <2>1, <2>2, <2>3, <2>4 DEF CountOK, MutualExclusion
<1>3. CASE held[p] = "shared"
  <2>1. \A q \in Procs : held[q] # "exclusive"
    BY Zenon, <1>3 DEF CountOK, MutualExclusion
  <2>2. lockcount = Cardinality(Sharers)
    BY Zenon, <2>1 DEF CountOK
  <2>3. Sharers' = Sharers \ {p} /\ p \in Sharers /\ Sharers \in SUBSET Procs
    BY Zenon, <1>1, <1>3 DEF Sharers
  <2>4. Cardinality(Sharers') = lockcount - 1 /\ lockcount >= 1
    BY Zenon, <2>2, <2>3, CardRemove
  <2>5. lockcount' = lockcount - 1
    BY Zenon, <1>3
  <2>6. \A q \in Procs : held'[q] # "exclusive"
    BY Zenon, <1>1, <2>1
  <2> QED
    BY <1>0, <1>3, <2>4, <2>5, <2>6 DEF CountOK, MutualExclusion
<1> QED
  BY Zenon, <1>0, <1>2, <1>3 DEF Modes

LEMMA CountStep ==
  ASSUME TypeOK, CountOK, Calls, NEW p \in Procs, Action(p)
  PROVE  CountOK' /\ lockcount' \in Nat /\ held' \in [Procs -> Modes \cup {"none"}]
<1>0. /\ held \in [Procs -> Modes \cup {"none"}] /\ mode[p] \in Modes /\ lockcount \in Nat
      /\ CallOK(p)
  BY Zenon DEF TypeOK, Calls
<1>1. CASE lockcount' = lockcount /\ held' = held
  BY Zenon, <1>0, <1>1 DEF CountOK, MutualExclusion, Sharers
<1>2. ASSUME NEW m \in Modes, Take(p, m), held[p] = "none"
      PROVE  CountOK' /\ lockcount' \in Nat /\ held' \in [Procs -> Modes \cup {"none"}]
  BY Zenon, <1>0, <1>2, TakeCount DEF Take
<1>3. CASE LWLockAttemptLock(p)
  <2>1. held[p] = "none"
    BY Zenon, <1>0, <1>3 DEF LWLockAttemptLock, CallOK, At
  <2>2. Take(p, mode[p]) \/ (lockcount' = lockcount /\ held' = held)
    BY Zenon, <1>3 DEF LWLockAttemptLock
  <2> QED
    BY Zenon, <1>0, <1>1, <1>2, <2>1, <2>2
<1>4. CASE LWLockConditionalAcquire(p)
  BY Zenon, <1>2, <1>4 DEF LWLockConditionalAcquire
<1>5. CASE LWLockRelease(p)
  BY Zenon, <1>0, <1>5, ReleaseCount DEF LWLockRelease
<1> QED
  BY Zenon, <1>1, <1>3, <1>4, <1>5, Frame

LEMMA TypeStep ==
  ASSUME TypeOK, CountOK, Calls, ListsOK, Waiting, Wakers, NEW p \in Procs, Action(p)
  PROVE  TypeOK'
<1>1. use' \in InitUses /\ pc' \in [Procs -> Labels]
  BY Zenon, Frame, PcStep DEF TypeOK
<1>2. lockcount' \in Nat /\ held' \in [Procs -> Modes \cup {"none"}]
  BY Zenon, CountStep
<1>3. waiters' \in Seq(Procs) /\ wakeup' \in [Procs -> Seq(Procs)]
  BY Zenon, ListsStep
<1>4. hasWaiters' \in BOOLEAN
  BY Zenon, Frame DEF TypeOK, QueueFlag, LWLockDequeueSelf, LWLockWakeup
<1>5. releaseOk' \in BOOLEAN
  BY Zenon, Frame DEF TypeOK, SetReleaseOk, LWLockWakeup
<1>6. locked' \in BOOLEAN
  BY Zenon, Frame DEF TypeOK, LWLockWaitListLock, LWLockQueueSelf, LWLockDequeueSelf, LWLockUpdateVar,
               ScanVar, LWLockWakeup
<1>7. value' \in 0 .. MaxVal
  <2>1. value \in 0 .. MaxVal /\ MaxVal \in Nat
    BY Zenon, LWLockAssumption DEF TypeOK
  <2>2. CASE LWLockReleaseClearVar(p)
    BY <2>1, <2>2 DEF LWLockReleaseClearVar
  <2>3. CASE LWLockUpdateVar(p)
    <3>1. PICK v \in value + 1 .. MaxVal : value' = v
      BY Zenon, <2>3 DEF LWLockUpdateVar
    <3> QED
      BY <2>1, <3>1
  <2> QED
    BY Zenon, <2>1, <2>2, <2>3, Frame
<1>8. lwWaiting' \in [Procs -> BOOLEAN]
  <2>1. lwWaiting \in [Procs -> BOOLEAN]
    BY Zenon DEF TypeOK
  <2> QED
    BY Zenon, <2>1, Frame DEF LWLockQueueSelf, LWLockDequeueSelf, WakeClear
<1>9. sem' \in [Procs -> Nat] /\ extraWaits' \in [Procs -> Nat] /\ signals' \in [Procs -> Nat]
  <2>1. sem \in [Procs -> Nat] /\ extraWaits \in [Procs -> Nat] /\ signals \in [Procs -> Nat]
    BY Zenon DEF TypeOK
  <2>2. sem' \in [Procs -> Nat]
    <3>1. CASE PGSemaphoreLock(p)
      BY <2>1, <3>1 DEF PGSemaphoreLock
    <3>2. CASE Return(p)
      BY <2>1, <3>2 DEF Return
    <3>3. CASE WakePost(p)
      <4>1. waiter[p] \in Procs
        BY Zenon DEF TypeOK
      <4> QED
        BY <2>1, <3>3, <4>1 DEF WakePost
    <3>4. CASE Signal(p)
      BY <2>1, <3>4 DEF Signal
    <3> QED
      BY Zenon, <2>1, <3>1, <3>2, <3>3, <3>4, Frame
  <2>3. extraWaits' \in [Procs -> Nat]
    <3>1. CASE PGSemaphoreLock(p)
      BY <2>1, <3>1 DEF PGSemaphoreLock
    <3>2. CASE Return(p)
      BY Zenon, <2>1, <3>2 DEF Return
    <3> QED
      BY Zenon, <2>1, <3>1, <3>2, Frame
  <2>4. signals' \in [Procs -> Nat]
    BY <2>1, Frame DEF Signal
  <2> QED
    BY Zenon, <2>2, <2>3, <2>4
<1>10. /\ call' \in [Procs -> {"acquire", "orwait", "waitvar"}]
       /\ mode' \in [Procs -> Modes] /\ oldval' \in [Procs -> 0 .. MaxVal]
  <2>1. /\ call \in [Procs -> {"acquire", "orwait", "waitvar"}]
        /\ mode \in [Procs -> Modes] /\ oldval \in [Procs -> 0 .. MaxVal] /\ MaxVal \in Nat
    BY Zenon, LWLockAssumption DEF TypeOK
  <2>2. CASE Return(p)
    BY <2>1, <2>2 DEF Return, Modes
  <2> QED
    BY Zenon, <2>1, <2>2, BeginFacts, Frame
<1>11. waiter' \in [Procs -> Procs]
  <2>1. waiter \in [Procs -> Procs]
    BY Zenon DEF TypeOK
  <2>2. CASE WakeClear(p)
    <3>1. wakeup[p] # <<>>
      BY Zenon, <2>2 DEF WakeClear, Wakers, WakerOK, At
    <3>2. Head(wakeup[p]) \in Procs
      BY Zenon, <2>2, <3>1, ClearLists
    <3> QED
      BY Zenon, <2>1, <2>2, <3>2 DEF WakeClear
  <2>3. CASE WakePost(p)
    BY Zenon, <2>1, <2>3 DEF WakePost
  <2> QED
    BY Zenon, <2>1, <2>2, <2>3, Frame
<1>12. wokeup_somebody' \in [Procs -> BOOLEAN]
  <2>1. wokeup_somebody \in [Procs -> BOOLEAN]
    BY Zenon DEF TypeOK
  <2> QED
    BY Zenon, <2>1, Frame DEF Collect, LWLockWakeup
<1>13. ncalls' \in 0 .. MaxCalls
  <2>1. ncalls \in 0 .. MaxCalls /\ MaxCalls \in Nat
    BY Zenon, LWLockAssumption DEF TypeOK
  <2>2. CASE LWLockConditionalAcquire(p)
    BY <2>1, <2>2 DEF LWLockConditionalAcquire
  <2> QED
    BY Zenon, <2>1, <2>2, BeginFacts, Frame
<1> QED
  BY Zenon, <1>1, <1>2, <1>3, <1>4, <1>5, <1>6, <1>7, <1>8, <1>9, <1>10, <1>11, <1>12, <1>13 DEF TypeOK

LEMMA SleepStep ==
  ASSUME TypeOK, CountOK, Calls, ListsOK, Waiting, Wakers, FlagOK, ReleaseOK, SleepOK,
         NEW p \in Procs, Action(p), TypeOK', CountOK'
  PROVE  SleepOK'
<1> SUFFICES ASSUME NEW r \in Procs, lockcount' = 0, Queued(r)', pc'[r] \in {"sleep", "revalue"}
             PROVE  \E q \in Procs : WillWake(q)' \/ WillRetry(q)'
  BY Zenon DEF SleepOK
<1>0. /\ pc \in [Procs -> Labels] /\ lockcount \in Nat /\ LW_VAL_EXCLUSIVE \in Nat
      /\ waiters \in Seq(Procs) /\ CallOK(p) /\ held \in [Procs -> Modes \cup {"none"}]
      /\ mode \in [Procs -> Modes]
  BY Zenon, LWLockAssumption DEF TypeOK, Calls
<1>2. LW_VAL_EXCLUSIVE > 0
  <2>1. Cardinality(Procs) \in Nat
    BY Zenon, CardNat
  <2> QED
    BY <2>1, LWLockAssumption
<1>1. \A q \in Procs : held'[q] = "none"
  <2>1. \A q \in Procs : held'[q] # "exclusive"
    BY <1>0, <1>2 DEF CountOK
  <2>2. Cardinality(Sharers') = 0 /\ Sharers' \in SUBSET Procs
    BY Zenon, <2>1 DEF CountOK, Sharers
  <2>3. Sharers' = {}
    BY Zenon, <2>2, CardZero
  <2> QED
    BY <2>1, <2>3 DEF Sharers, TypeOK, Modes
<1>3. ~\E m \in Modes : Take(p, m)
  BY Zenon, <1>0, <1>1 DEF Take, Modes
<1>4. ASSUME NEW q \in Procs, q # p, WillWake(q) \/ WillRetry(q) PROVE WillWake(q)' \/ WillRetry(q)'
  <2>1. pc'[q] = pc[q] /\ call'[q] = call[q]
    BY Zenon, <1>4, Others
  <2>2. Queued(q)' => Queued(q)
    BY Zenon, <1>4, QueuedKept
  <2> QED
    BY Zenon, <1>4, <2>1, <2>2 DEF WillWake, WillRetry
<1>5. CASE LWLockRelease(p)
  <2>1. waiters' = waiters /\ pc[p] \in {"idle", "release"}
    BY Zenon, <1>5 DEF LWLockRelease, At
  <2>2. hasWaiters
    <3>1. waiters # <<>>
      BY <2>1 DEF Queued
    <3> QED
      BY Zenon, <3>1 DEF FlagOK
  <2>3. CASE releaseOk
    <3>1. pc'[p] = "wakeup"
      BY Zenon, <1>0, <1>5, <2>2, <2>3 DEF LWLockRelease, Goto
    <3> QED
      BY Zenon, <3>1 DEF WillWake
  <2>4. CASE ~releaseOk
    <3>1. PICK q \in Procs : WillSetOk(q)
      BY Zenon, <2>4 DEF ReleaseOK
    <3>2. q # p
      BY Zenon, <2>1, <3>1 DEF WillSetOk
    <3>3. held[q] = "none"
      BY Zenon, <1>1, <3>2, Others
    <3>4. ~(pc[q] \in {"dequeue", "unlink", "resetok"} /\ call[q] = "acquire")
      BY Zenon, <3>3 DEF Calls, CallOK
    <3>5. WillRetry(q)
      BY Zenon, <3>1, <3>4 DEF WillSetOk, WillRetry
    <3> QED
      BY Zenon, <1>4, <3>2, <3>5
  <2> QED
    BY Zenon, <2>3, <2>4
<1>6. ASSUME ~LWLockRelease(p) PROVE lockcount' = lockcount /\ held' = held
  BY Zenon, <1>3, <1>6, <1>0, Frame DEF LWLockAttemptLock, LWLockConditionalAcquire
<1>7. ASSUME ~LWLockRelease(p) PROVE \E q \in Procs : WillWake(q)' \/ WillRetry(q)'
  <2>1. lockcount = 0 /\ \A q \in Procs : held[q] = "none"
    BY Zenon, <1>1, <1>6, <1>7
  <2>2. ~LWLockAttemptLock(p)
    <3>1. lock_free(mode[p])
      BY Zenon, <1>2, <2>1 DEF lock_free
    <3> QED
      BY Zenon, <1>0, <1>3, <3>1 DEF LWLockAttemptLock
  <2>3. pc[r] \in {"sleep", "revalue"}
    <3>1. CASE r = p
      <4>1. ConflictsWithLock(p) => pc'[p] # "revalue"
        BY <1>0, <1>2, <2>1 DEF ConflictsWithLock, Goto
      <4> QED
        BY Zenon, <2>2, <3>1, <4>1, Flow
    <3>2. CASE r # p
      BY Zenon, <3>2, Frame
    <3> QED
      BY Zenon, <3>1, <3>2
  <2>4. Queued(r)
    <3>1. r = p => ~LWLockQueueSelf(p)
      BY Zenon, <2>3 DEF LWLockQueueSelf, At
    <3> QED
      BY Zenon, <3>1, QueuedKept
  <2>5. PICK q \in Procs : WillWake(q) \/ WillRetry(q)
    BY Zenon, <2>1, <2>3, <2>4 DEF SleepOK
  <2>6. CASE q # p
    BY Zenon, <1>4, <2>5, <2>6
  <2>7. CASE q = p /\ WillWake(p)
    <3>1. CASE LWLockWakeup(p)
      <4>1. waiters # <<>> /\ pc[p] = "flags" /\ call' = call /\ waiters' = waiters
        BY <2>4, <3>1 DEF Queued, LWLockWakeup, At, callers
      <4>2. wokeup_somebody[p]
        BY Zenon, <4>1 DEF Wakers, WakerOK
      <4>3. PICK w \in Procs : /\ call[w] = "acquire" /\ ~Queued(w) /\ w # p
                               /\ pc[w] \in {"reattempt", "dequeue", "sleep"}
        BY Zenon, <4>1, <4>2, Retrier
      <4>4. pc[w] # "dequeue"
        BY Zenon, <2>1, <4>3 DEF Calls, CallOK
      <4>5. WillRetry(w)
        BY Zenon, <4>3, <4>4 DEF WillRetry
      <4> QED
        BY Zenon, <1>4, <4>3, <4>5
    <3>2. CASE ~LWLockWakeup(p)
      <4>1. pc'[p] \in {"wakeup", "collect", "flags"}
        BY Zenon, <2>7, <3>2, Flow DEF WillWake
      <4> QED
        BY Zenon, <4>1 DEF WillWake
    <3> QED
      BY Zenon, <3>1, <3>2
  <2>8. CASE q = p /\ WillRetry(p)
    <3>1. call[p] = "acquire"
      BY Zenon, <1>0, <2>8 DEF WillRetry, CallOK
    <3>2. pc[p] \in {"woken", "attempt", "queue", "flag", "push", "reattempt", "sleep"}
      BY Zenon, <2>8 DEF WillRetry
    <3>3. call'[p] = "acquire"
      <4>1. ~Begins(p) /\ ~Return(p)
        BY Zenon, <3>2, BeginFacts DEF Return, At
      <4> QED
        BY Zenon, <3>1, <4>1, Frame
    <3>4. CASE pc[p] = "sleep"
      <4>1. ~Queued(p)
        BY Zenon, <2>8, <3>4 DEF WillRetry
      <4>2. ~LWLockQueueSelf(p)
        BY Zenon, <3>4 DEF LWLockQueueSelf, At
      <4>3. ~Queued(p)'
        BY Zenon, <4>1, <4>2, QueuedKept
      <4>4. PGSemaphoreLock(p) => pc'[p] \in {"sleep", "woken"}
        BY Zenon, <1>0, <3>1, <3>4 DEF PGSemaphoreLock, Goto, At
      <4>5. pc'[p] \in {"sleep", "woken"}
        BY Zenon, <3>4, <4>4, Flow
      <4> QED
        BY Zenon, <3>3, <4>3, <4>5 DEF WillRetry
    <3>5. CASE pc[p] = "push"
      <4>1. LWLockQueueSelf(p) => pc'[p] = "reattempt"
        BY Zenon, <1>0, <3>1 DEF LWLockQueueSelf, Goto
      <4>2. pc'[p] \in {"push", "reattempt"}
        BY Zenon, <3>5, <4>1, Flow
      <4> QED
        BY Zenon, <3>3, <4>2 DEF WillRetry
    <3>6. CASE pc[p] \notin {"sleep", "push"}
      <4>1. pc'[p] \in {"woken", "attempt", "queue", "flag", "push", "reattempt"}
        BY Zenon, <2>2, <3>2, <3>6, Flow
      <4> QED
        BY Zenon, <3>3, <4>1 DEF WillRetry
    <3> QED
      BY Zenon, <3>4, <3>5, <3>6
  <2> QED
    BY Zenon, <2>5, <2>6, <2>7, <2>8
<1> QED
  BY Zenon, <1>5, <1>7

LEMMA VarStep ==
  ASSUME TypeOK, CountOK, Calls, ListsOK, Waiting, Wakers, FlagOK, FrontOK, ReleaseOK, VarNoticed,
         NEW p \in Procs, Action(p)
  PROVE  VarNoticed'
<1> DEFINE AtIt == {"scan", "release", "wakeup", "collect", "flags"}
<1> SUFFICES ASSUME NEW r \in Procs, pc'[r] = "sleep", call'[r] = "waitvar", Queued(r)',
                    value' # oldval'[r]
             PROVE  \E q \in Procs : pc'[q] \in AtIt
  BY Zenon DEF VarNoticed, At
<1>0. /\ pc \in [Procs -> Labels] /\ waiters \in Seq(Procs) /\ CallOK(p) /\ CallOK(r)
      /\ WakerOK(p)
  BY Zenon DEF TypeOK, Calls, Wakers
<1>1. CASE LWLockReleaseClearVar(p)
  BY Zenon, <1>0, <1>1 DEF LWLockReleaseClearVar, Goto
<1>2. CASE LWLockUpdateVar(p)
  BY Zenon, <1>0, <1>2 DEF LWLockUpdateVar, Goto
<1>3. ASSUME value' = value PROVE \E q \in Procs : pc'[q] \in AtIt
  <2>1. pc[r] \in {"sleep", "revalue", "reattempt"}
    <3>1. r # p => pc'[r] = pc[r]
      BY Zenon, Frame
    <3> QED
      BY Zenon, <3>1, Flow
  <2>2. call[r] = "waitvar" /\ oldval[r] # value
    BY Zenon, <1>3, <2>1, CallKept DEF Waits
  <2>3. pc[r] = "sleep"
    <3>1. pc[r] # "reattempt"
      BY Zenon, <1>0, <2>2 DEF CallOK
    <3>2. ConflictsWithValue(p) /\ r = p /\ pc[p] = "revalue" => pc'[p] # "sleep"
      BY Zenon, <1>0, <2>2 DEF ConflictsWithValue, Goto, At
    <3>3. r # p => pc'[r] = pc[r]
      BY Zenon, Frame
    <3> QED
      BY Zenon, <2>1, <3>1, <3>2, <3>3, Flow
  <2>4. Queued(r)
    <3>1. r = p => ~LWLockQueueSelf(p)
      BY Zenon, <2>3 DEF LWLockQueueSelf, At
    <3> QED
      BY Zenon, <3>1, QueuedKept
  <2>5. PICK q \in Procs : pc[q] \in AtIt
    BY Zenon, <2>2, <2>3, <2>4 DEF VarNoticed, At
  <2>6. CASE q # p
    BY Zenon, <2>5, <2>6, Frame
  <2>7. PICK k \in DOMAIN waiters : waiters[k] = r
    BY Zenon, <2>4 DEF Queued
  <2>8. CASE q = p /\ ScanVar(p)
    <3>1. pc[p] = "scan"
      BY Zenon, <2>8 DEF ScanVar, At
    <3>2. waiters # <<>> /\ 1 \in DOMAIN waiters /\ k \in Nat /\ (k = 1 \/ 1 < k)
      BY <1>0, <2>7
    <3>3. call[waiters[1]] # "acquire"
      BY Zenon, <2>2, <2>7, <3>2 DEF FrontOK
    <3>4. lwWaitMode(waiters[1]) = "untilfree"
      BY Zenon, <3>3 DEF lwWaitMode
    <3>5. pc' = pc
      BY Zenon, <2>8, <3>2, <3>4 DEF ScanVar
    <3> QED
      BY Zenon, <3>1, <3>5
  <2>9. CASE q = p /\ LWLockRelease(p)
    <3>0. pc[p] = "release"
      BY Zenon, <2>5, <2>9 DEF LWLockRelease, At
    <3>1. hasWaiters
      <4>1. waiters # <<>>
        BY <1>0, <2>7
      <4> QED
        BY Zenon, <4>1 DEF FlagOK
    <3>2. releaseOk
      BY Zenon, <2>2, <2>3, <2>4 DEF ReleaseOK
    <3>3. held[p] = "exclusive"
      BY Zenon, <1>0, <3>0 DEF CallOK
    <3>4. lockcount' = 0
      BY Zenon, <2>9, <3>3, ReleaseCount
    <3>5. pc'[p] = "wakeup"
      BY Zenon, <1>0, <2>9, <3>1, <3>2, <3>4 DEF LWLockRelease, Goto
    <3> QED
      BY Zenon, <3>5
  <2>10. CASE q = p /\ LWLockWakeup(p)
    <3>1. pc[p] = "flags"
      BY Zenon, <2>10 DEF LWLockWakeup, At
    <3>2. waiters # <<>>
      BY <1>0, <2>7
    <3>3. wokeup_somebody[p]
      BY Zenon, <1>0, <3>1, <3>2 DEF WakerOK
    <3> QED
      BY Zenon, <1>0, <2>2, <2>7, <3>3 DEF WakerOK
  <2>11. CASE q = p /\ ~ScanVar(p) /\ ~LWLockRelease(p) /\ ~LWLockWakeup(p)
    <3>1. pc'[p] \in AtIt
      BY Zenon, <2>5, <2>11, Flow
    <3> QED
      BY Zenon, <3>1
  <2> QED
    BY Zenon, <2>6, <2>8, <2>9, <2>10, <2>11
<1> QED
  BY Zenon, <1>1, <1>2, <1>3, Frame

-----------------------------------------------------------------------------
(* The semaphores *)

Takers(r) == {q \in Procs : InWakeup(q, r)}
Posters(r) == {q \in Procs : At(q, "post") /\ waiter[q] = r}

LEMMA SignalsStep ==
  ASSUME TypeOK, ListsOK, Waiting, Wakers, SignalsKept, NEW p \in Procs, Action(p)
  PROVE  SignalsKept'
<1> SUFFICES ASSUME NEW r \in Procs
             PROVE  sem'[r] + extraWaits'[r] + Coming(r)' = signals'[r] + Due(r)'
  BY Zenon DEF SignalsKept
<1>0. /\ sem \in [Procs -> Nat] /\ extraWaits \in [Procs -> Nat] /\ signals \in [Procs -> Nat]
      /\ pc \in [Procs -> Labels] /\ waiter \in [Procs -> Procs]
  BY Zenon DEF TypeOK
<1> DEFINE t == Cardinality(Takers(r))
           o == Cardinality(Posters(r))
           t1 == Cardinality(Takers(r)')
           o1 == Cardinality(Posters(r)')
<1>a. /\ t \in Nat /\ o \in Nat /\ t1 \in Nat /\ o1 \in Nat
      /\ Takers(r) \in SUBSET Procs /\ Posters(r) \in SUBSET Procs
  <2>1. /\ Takers(r) \in SUBSET Procs /\ Posters(r) \in SUBSET Procs
        /\ Takers(r)' \in SUBSET Procs /\ Posters(r)' \in SUBSET Procs
    BY Zenon DEF Takers, Posters
  <2> QED
    BY Zenon, <2>1, CardNat
<1>b. /\ Coming(r) = t + o /\ Coming(r)' = t1 + o1
      /\ sem[r] + extraWaits[r] + Coming(r) = signals[r] + Due(r)
  BY Zenon DEF Coming, Takers, Posters, SignalsKept
<1>c. Due(r) \in {0, 1} /\ Due(r)' \in {0, 1}
  BY Zenon DEF Due
<1>d. Takers(r)' = Takers(r) => t1 = t
  BY Zenon
<1>e. Posters(r)' = Posters(r) => o1 = o
  BY Zenon
<1>f. wakeup' = wakeup => Takers(r)' = Takers(r)
  BY Zenon DEF Takers, InWakeup
<1>g. waiter' = waiter /\ (pc'[p] = "post" <=> pc[p] = "post") => Posters(r)' = Posters(r)
  BY Zenon, Frame DEF Posters, At
<1>h. /\ Due(r) = IF pc[r] \in Waits /\ ~Queued(r) THEN 1 ELSE 0
      /\ Due(r)' = IF pc'[r] \in Waits /\ ~Queued(r)' THEN 1 ELSE 0
  BY Zenon DEF Due
<1>i. r # p => pc'[r] = pc[r]
  BY Zenon, Frame
<1> HIDE DEF t, o, t1, o1
<1>1. ASSUME waiters' = waiters, wakeup' = wakeup, waiter' = waiter,
             sem' = sem, extraWaits' = extraWaits, signals' = signals,
             pc'[p] \in Waits <=> pc[p] \in Waits, pc'[p] = "post" <=> pc[p] = "post"
      PROVE  sem'[r] + extraWaits'[r] + Coming(r)' = signals'[r] + Due(r)'
  <2>1. Queued(r)' <=> Queued(r)
    BY Zenon, <1>1 DEF Queued
  <2>2. Due(r)' = Due(r)
    BY Zenon, <1>1, <1>h, <1>i, <2>1
  <2>3. t1 = t /\ o1 = o
    BY Zenon, <1>1, <1>d, <1>e, <1>f, <1>g
  <2> QED
    BY Zenon, <1>1, <1>b, <2>2, <2>3
<1>2. CASE LWLockQueueSelf(p)
  <2>1. /\ pc[p] = "push" /\ pc'[p] # "post"
        /\ UNCHANGED <<sem, extraWaits, signals, wakeup, waiter>>
    BY Zenon, <1>0, <1>2 DEF LWLockQueueSelf, At, Goto, callers, waking, history
  <2>2. ~Queued(p)
    BY Zenon, <2>1 DEF Waiting, WaitingOK, Waits
  <2>3. Queued(r)' <=> Queued(r) \/ r = p
    BY Zenon, <1>2, <2>2, QueueSelfLists
  <2>4. Due(r)' = Due(r)
    BY Zenon, <1>h, <1>i, <2>1, <2>3 DEF Waits
  <2>5. t1 = t /\ o1 = o
    BY Zenon, <2>1, <1>d, <1>e, <1>f, <1>g
  <2> QED
    BY Zenon, <1>b, <2>1, <2>4, <2>5
<1>3. CASE LWLockDequeueSelf(p)
  <2>1. /\ pc[p] = "unlink" /\ pc'[p] = (IF Queued(p) THEN "return" ELSE "resetok")
        /\ UNCHANGED <<sem, extraWaits, signals, wakeup, waiter>>
    BY Zenon, <1>0, <1>3 DEF LWLockDequeueSelf, At, Goto, callers, waking, history, Queued
  <2>2. Queued(r)' <=> Queued(r) /\ r # p
    BY Zenon, <1>3, DequeueSelfLists
  <2>3. Due(r)' = Due(r)
    BY Zenon, <1>h, <1>i, <2>1, <2>2 DEF Waits
  <2>4. t1 = t /\ o1 = o
    BY Zenon, <2>1, <1>d, <1>e, <1>f, <1>g
  <2> QED
    BY Zenon, <1>b, <2>1, <2>3, <2>4
<1>4. ASSUME NEW i \in DOMAIN waiters, Move(p, i), ScanVar(p) \/ Collect(p)
      PROVE  sem'[r] + extraWaits'[r] + Coming(r)' = signals'[r] + Due(r)'
  <2>1. /\ pc[p] \in {"scan", "collect"} /\ UNCHANGED <<sem, extraWaits, signals, waiter>>
        /\ pc'[p] \in {"scan", "collect", "flags", "idle", "wake"}
    BY Zenon, <1>0, <1>4 DEF ScanVar, Collect, At, Goto, sleepers, callers, history
  <2>2. /\ waiters[i] \in Procs /\ Queued(waiters[i])
        /\ Queued(r)' <=> Queued(r) /\ r # waiters[i]
        /\ \A q \in Procs : InWakeup(q, r)' <=> InWakeup(q, r) \/ (q = p /\ r = waiters[i])
    BY Zenon, <1>4, MoveLists
  <2>3. o1 = o
    BY Zenon, <1>e, <1>g, <2>1
  <2>4. CASE r = waiters[i]
    <3>1. pc[r] \in Waits
      BY Zenon, <2>2, <2>4, QueuedWaits
    <3>2. Due(r) = 0 /\ Due(r)' = 1
      BY Zenon, <1>h, <1>i, <2>1, <2>2, <2>4, <3>1 DEF Waits
    <3>3. Takers(r)' = Takers(r) \cup {p}
      BY Zenon, <2>2, <2>4 DEF Takers
    <3>4. p \notin Takers(r)
      BY Zenon, <2>2, <2>4 DEF Takers, ListsOK
    <3>5. t1 = t + 1
      BY Zenon, <1>a, <3>3, <3>4, CardAdd DEF t, t1
    <3> QED
      BY <1>0, <1>a, <1>b, <2>1, <2>3, <3>2, <3>5
  <2>5. CASE r # waiters[i]
    <3>1. Takers(r)' = Takers(r)
      BY Zenon, <2>2, <2>5 DEF Takers
    <3>2. Due(r)' = Due(r)
      BY Zenon, <1>h, <1>i, <2>1, <2>2, <2>5 DEF Waits
    <3> QED
      BY Zenon, <1>b, <1>d, <2>1, <2>3, <3>1, <3>2
  <2> QED
    BY Zenon, <2>4, <2>5
<1>5. CASE WakeClear(p)
  <2>1. /\ pc[p] = "wake" /\ pc'[p] = "post" /\ UNCHANGED <<sem, extraWaits, signals, waiters>>
        /\ waiter' = [waiter EXCEPT ![p] = Head(wakeup[p])]
    BY Zenon, <1>0, <1>5 DEF WakeClear, At, Goto, callers, history
  <2>2. PICK w : w = Head(wakeup[p])
    BY Zenon
  <2>3. wakeup[p] # <<>>
    BY Zenon, <2>1 DEF Wakers, WakerOK
  <2>4. /\ w \in Procs /\ InWakeup(p, w)
        /\ \A q \in Procs : InWakeup(q, r)' <=> InWakeup(q, r) /\ ~(q = p /\ r = w)
    BY Zenon, <1>5, <2>2, <2>3, ClearLists
  <2>5. Due(r)' = Due(r)
    <3>1. Queued(r)' <=> Queued(r)
      BY Zenon, <2>1 DEF Queued
    <3> QED
      BY Zenon, <1>h, <1>i, <2>1, <3>1 DEF Waits
  <2>6. waiter'[p] = w /\ \A q \in Procs : q # p => waiter'[q] = waiter[q] /\ pc'[q] = pc[q]
    BY Zenon, <1>0, <2>1, <2>2, Frame
  <2>7. CASE r = w
    <3>1. Takers(r)' = Takers(r) \ {p} /\ p \in Takers(r)
      BY Zenon, <2>4, <2>7 DEF Takers
    <3>2. Posters(r)' = Posters(r) \cup {p} /\ p \notin Posters(r)
      BY Zenon, <2>1, <2>6, <2>7 DEF Posters, At
    <3>3. t1 = t - 1
      BY Zenon, <1>a, <3>1, CardRemove DEF t, t1
    <3>4. o1 = o + 1
      BY Zenon, <1>a, <3>2, CardAdd DEF o, o1
    <3> QED
      BY <1>0, <1>a, <1>b, <2>1, <2>5, <3>3, <3>4
  <2>8. CASE r # w
    <3>1. Takers(r)' = Takers(r)
      BY Zenon, <2>4, <2>8 DEF Takers
    <3>2. Posters(r)' = Posters(r)
      BY Zenon, <2>1, <2>6, <2>8 DEF Posters, At
    <3> QED
      BY Zenon, <1>b, <1>d, <1>e, <2>1, <2>5, <3>1, <3>2
  <2> QED
    BY Zenon, <2>7, <2>8
<1>6. CASE WakePost(p)
  <2>1. /\ pc[p] = "post" /\ pc'[p] \in {"idle", "wake"}
        /\ UNCHANGED <<extraWaits, signals, waiters, wakeup>>
        /\ sem' = [sem EXCEPT ![waiter[p]] = @ + 1]
    BY Zenon, <1>0, <1>6 DEF WakePost, At, Goto, callers, history
  <2>2. Due(r)' = Due(r)
    <3>1. Queued(r)' <=> Queued(r)
      BY Zenon, <2>1 DEF Queued
    <3> QED
      BY Zenon, <1>h, <1>i, <2>1, <3>1 DEF Waits
  <2>3. \A q \in Procs : q # p => waiter'[q] = waiter[q] /\ pc'[q] = pc[q]
    BY Zenon, Others
  <2>4. CASE r = waiter[p]
    <3>1. Posters(r)' = Posters(r) \ {p} /\ p \in Posters(r)
      BY Zenon, <2>1, <2>3, <2>4 DEF Posters, At
    <3>2. o1 = o - 1
      BY Zenon, <1>a, <3>1, CardRemove DEF o, o1
    <3>3. sem'[r] = sem[r] + 1
      BY Zenon, <1>0, <2>1, <2>4
    <3> QED
      BY <1>0, <1>a, <1>b, <1>d, <1>f, <2>1, <2>2, <3>2, <3>3
  <2>5. CASE r # waiter[p]
    <3>1. Posters(r)' = Posters(r)
      BY Zenon, <2>1, <2>3, <2>5 DEF Posters, At
    <3>2. sem'[r] = sem[r]
      BY Zenon, <1>0, <2>1, <2>5
    <3> QED
      BY Zenon, <1>b, <1>d, <1>e, <1>f, <2>1, <2>2, <3>1, <3>2
  <2> QED
    BY Zenon, <2>4, <2>5
<1>7. ASSUME PGSemaphoreLock(p) \/ Return(p) \/ Signal(p)
      PROVE  sem'[r] + extraWaits'[r] + Coming(r)' = signals'[r] + Due(r)'
  <2>1. UNCHANGED <<waiters, wakeup, waiter>>
    BY Zenon, <1>7 DEF PGSemaphoreLock, Return, Signal, waking
  <2>2. (pc[p] # "post" /\ pc'[p] # "post") \/ pc'[p] = pc[p]
    BY Zenon, <1>0, <1>7 DEF PGSemaphoreLock, Return, Signal, At, Goto
  <2>3. t1 = t /\ o1 = o
    BY Zenon, <1>d, <1>e, <1>f, <1>g, <2>1, <2>2
  <2>4. Queued(r)' <=> Queued(r)
    BY Zenon, <2>1 DEF Queued
  <2>5. CASE r # p
    <3>1. sem'[r] = sem[r] /\ extraWaits'[r] = extraWaits[r] /\ signals'[r] = signals[r]
      BY <1>0, <1>7, <2>5 DEF PGSemaphoreLock, Return, Signal, callers, history
    <3>2. Due(r)' = Due(r)
      BY Zenon, <1>h, <1>i, <2>4, <2>5
    <3> QED
      BY Zenon, <1>b, <2>3, <3>1, <3>2
  <2>6. CASE r = p /\ PGSemaphoreLock(p) /\ lwWaiting[p]
    <3>1. /\ sem'[r] = sem[r] - 1 /\ extraWaits'[r] = extraWaits[r] + 1 /\ signals' = signals
          /\ pc' = pc
      BY Zenon, <1>0, <2>6 DEF PGSemaphoreLock, history
    <3>2. Due(r)' = Due(r)
      BY Zenon, <1>h, <2>4, <3>1
    <3> QED
      BY <1>0, <1>a, <1>b, <1>c, <2>3, <3>1, <3>2
  <2>7. CASE r = p /\ PGSemaphoreLock(p) /\ ~lwWaiting[p]
    <3>1. /\ sem'[r] = sem[r] - 1 /\ extraWaits' = extraWaits /\ signals' = signals
          /\ pc[p] \in {"sleep", "absorb"} /\ pc'[p] \in {"woken", "check", "return"}
      BY Zenon, <1>0, <2>7 DEF PGSemaphoreLock, history, At, Goto
    <3>2. ~Queued(r)
      BY Zenon, <2>7 DEF Waiting, WaitingOK
    <3>3. Due(r) = 1 /\ Due(r)' = 0
      BY Zenon, <1>h, <2>7, <3>1, <3>2 DEF Waits
    <3> QED
      BY <1>0, <1>a, <1>b, <2>3, <3>1, <3>3
  <2>8. CASE r = p /\ Return(p)
    <3>1. /\ sem'[r] = sem[r] + extraWaits[r] /\ extraWaits'[r] = 0 /\ signals' = signals
          /\ pc[p] = "return" /\ pc'[p] = "idle"
      BY Zenon, <1>0, <2>8 DEF Return, history, At, Goto
    <3>2. Due(r)' = Due(r)
      BY Zenon, <1>h, <2>8, <3>1 DEF Waits
    <3> QED
      BY <1>0, <1>a, <1>b, <1>c, <2>3, <3>1, <3>2
  <2>9. CASE r = p /\ Signal(p)
    <3>1. /\ sem'[r] = sem[r] + 1 /\ extraWaits' = extraWaits /\ signals'[r] = signals[r] + 1
          /\ pc' = pc
      BY Zenon, <1>0, <2>9 DEF Signal, callers
    <3>2. Due(r)' = Due(r)
      BY Zenon, <1>h, <2>4, <3>1
    <3> QED
      BY <1>0, <1>a, <1>b, <1>c, <2>3, <3>1, <3>2
  <2> QED
    BY Zenon, <1>7, <2>5, <2>6, <2>7, <2>8, <2>9
<1>8. ASSUME ~LWLockQueueSelf(p), ~LWLockDequeueSelf(p), ~WakeClear(p), ~WakePost(p),
             ~PGSemaphoreLock(p), ~Return(p), ~Signal(p)
      PROVE  sem'[r] + extraWaits'[r] + Coming(r)' = signals'[r] + Due(r)'
  <2>1. /\ sem' = sem /\ extraWaits' = extraWaits /\ signals' = signals /\ waiter' = waiter
    BY Zenon, <1>8, Frame
  <2>2. (pc'[p] \in Waits <=> pc[p] \in Waits) /\ (pc'[p] = "post" <=> pc[p] = "post")
    BY Zenon, <1>8, Flow DEF Waits
  <2> QED
    BY Zenon, <1>1, <1>4, <1>8, <2>1, <2>2, ListCases
<1> QED
  BY Zenon, <1>2, <1>3, <1>5, <1>6, <1>7, <1>8

-----------------------------------------------------------------------------
(* Theorems *)

LEMMA InitInv == Init => IInv
<1> SUFFICES ASSUME Init PROVE IInv
  BY Zenon
<1>0. \A p \in Procs : /\ pc[p] = "idle" /\ held[p] = "none" /\ wakeup[p] = <<>> /\ ~lwWaiting[p]
                       /\ sem[p] = 0 /\ extraWaits[p] = 0 /\ signals[p] = 0 /\ ~wokeup_somebody[p]
  BY Zenon DEF Init
<1>1. TypeOK
  <2>1. MaxCalls \in Nat /\ MaxVal \in Nat /\ use \in InitUses
    BY Zenon, LWLockAssumption DEF Init
  <2>2. waiters \in Seq(Procs) /\ wakeup \in [Procs -> Seq(Procs)]
    <3>1. <<>> \in Seq(Procs)
      OBVIOUS
    <3> QED
      BY Zenon, <3>1 DEF Init
  <2>3. /\ value \in 0 .. MaxVal /\ ncalls \in 0 .. MaxCalls /\ lockcount \in Nat
        /\ oldval \in [Procs -> 0 .. MaxVal]
    BY <2>1 DEF Init
  <2>4. /\ sem \in [Procs -> Nat] /\ extraWaits \in [Procs -> Nat] /\ signals \in [Procs -> Nat]
        /\ waiter \in [Procs -> Procs]
    BY Zenon DEF Init
  <2>5. /\ lwWaiting \in [Procs -> BOOLEAN] /\ wokeup_somebody \in [Procs -> BOOLEAN]
        /\ hasWaiters \in BOOLEAN /\ releaseOk \in BOOLEAN /\ locked \in BOOLEAN
    BY Zenon DEF Init
  <2>6. /\ pc \in [Procs -> Labels] /\ call \in [Procs -> {"acquire", "orwait", "waitvar"}]
        /\ mode \in [Procs -> Modes] /\ held \in [Procs -> Modes \cup {"none"}]
    BY Zenon DEF Init, Labels, Modes
  <2> QED
    BY Zenon, <2>1, <2>2, <2>3, <2>4, <2>5, <2>6 DEF TypeOK
<1>2. \A p, q \in Procs : ~Queued(p) /\ ~InWakeup(q, p)
  BY <1>0 DEF Queued, InWakeup, Init
<1>3. CountOK
  <2>1. Sharers = {} /\ Cardinality({}) = 0
    BY Zenon, <1>0, FS_EmptySet DEF Sharers
  <2> QED
    BY Zenon, <1>0, <2>1 DEF CountOK, MutualExclusion, Init
<1>4. Calls
  BY Zenon, <1>0 DEF Calls, CallOK
<1>5. ListsOK
  <2>1. \A q \in Procs : DOMAIN wakeup[q] = {} /\ DOMAIN waiters = {}
    BY <1>0 DEF Init
  <2>2. DOMAIN waiters = {}
    BY DEF Init
  <2> QED
    BY Zenon, <1>2, <2>1, <2>2 DEF ListsOK
<1>6. Waiting
  BY Zenon, <1>0, <1>2 DEF Waiting, WaitingOK
<1>7. LockOK
  BY Zenon, <1>0 DEF LockOK, Locking
<1>8. Wakers
  BY Zenon, <1>0, <1>2 DEF Wakers, WakerOK
<1>9. FlagOK /\ FrontOK /\ ReleaseOK
  BY <1>0 DEF FlagOK, FrontOK, ReleaseOK, Init
<1>10. SleepOK /\ VarNoticed
  BY Zenon, <1>0 DEF SleepOK, VarNoticed, At
<1>11. SignalsKept
  <2> SUFFICES ASSUME NEW p \in Procs PROVE sem[p] + extraWaits[p] + Coming(p) = signals[p] + Due(p)
    BY Zenon DEF SignalsKept
  <2>1. Cardinality({}) = 0
    BY Zenon, FS_EmptySet
  <2>2. {q \in Procs : InWakeup(q, p)} = {} /\ {q \in Procs : At(q, "post") /\ waiter[q] = p} = {}
    BY Zenon, <1>0, <1>2 DEF At
  <2>3. Coming(p) = 0
    BY <2>1, <2>2 DEF Coming
  <2>4. Due(p) = 0
    BY Zenon, <1>0 DEF Due, Waits
  <2> QED
    BY <1>0, <2>3, <2>4
<1> QED
  BY Zenon, <1>1, <1>3, <1>4, <1>5, <1>6, <1>7, <1>8, <1>9, <1>10, <1>11 DEF IInv

LEMMA StepInv == IInv /\ [Next]_vars => IInv'
<1> SUFFICES ASSUME IInv, [Next]_vars PROVE IInv'
  BY Zenon
<1>0. /\ TypeOK /\ CountOK /\ Calls /\ ListsOK /\ Waiting /\ LockOK /\ Wakers
      /\ FlagOK /\ FrontOK /\ ReleaseOK /\ SleepOK /\ VarNoticed /\ SignalsKept
  BY Zenon DEF IInv
<1>1. ASSUME NEW p \in Procs, Action(p) PROVE IInv'
  <2>1. TypeOK' /\ CountOK'
    BY Zenon, <1>0, <1>1, TypeStep, CountStep
  <2>2. Calls'
    BY Zenon, <1>0, <1>1, CallsStep
  <2>3. ListsOK'
    BY Zenon, <1>0, <1>1, ListsStep
  <2>4. Waiting'
    BY Zenon, <1>0, <1>1, WaitingStep
  <2>5. LockOK'
    BY Zenon, <1>0, <1>1, LockStep
  <2>6. Wakers'
    BY Zenon, <1>0, <1>1, WakersStep
  <2>7. FlagOK' /\ FrontOK' /\ ReleaseOK'
    BY Zenon, <1>0, <1>1, FlagStep, FrontStep, ReleaseStep
  <2>8. SleepOK' /\ VarNoticed'
    BY Zenon, <1>0, <1>1, <2>1, SleepStep, VarStep
  <2>9. SignalsKept'
    BY Zenon, <1>0, <1>1, SignalsStep
  <2> QED
    BY Zenon, <2>1, <2>2, <2>3, <2>4, <2>5, <2>6, <2>7, <2>8, <2>9 DEF IInv
<1>2. CASE UNCHANGED vars
  <2>1. UNCHANGED <<use, lockcount, hasWaiters, releaseOk, locked, waiters, value, lwWaiting, sem, pc,
                    call, mode, oldval, extraWaits, held, wakeup, waiter, wokeup_somebody, ncalls, signals>>
    BY Zenon, <1>2 DEF vars, word, sleepers, callers, waking, history
  <2>2. TypeOK' /\ CountOK' /\ Calls' /\ LockOK'
    BY Zenon, <1>0, <2>1 DEF TypeOK, CountOK, MutualExclusion, Sharers, Calls, CallOK, LockOK
  <2>3. ListsOK' /\ Waiting' /\ Wakers'
    BY <1>0, <2>1 DEF ListsOK, Waiting, WaitingOK, Wakers, WakerOK, Queued, InWakeup
  <2>4. FlagOK' /\ FrontOK' /\ ReleaseOK' /\ SleepOK'
    BY <1>0, <2>1 DEF FlagOK, FrontOK, ReleaseOK, WillSetOk, SleepOK, WillWake, WillRetry, Queued
  <2>5. VarNoticed' /\ SignalsKept'
    BY Zenon, <1>0, <2>1 DEF VarNoticed, At, Queued, SignalsKept, Coming, InWakeup, Due
  <2> QED
    BY Zenon, <2>2, <2>3, <2>4, <2>5 DEF IInv
<1> QED
  BY Zenon, <1>1, <1>2 DEF Next, Action

(***************************************************************************)
(* The state word, the wait list, the flags and the semaphores stay        *)
(* consistent in the sense of IInv, whatever lwlock.c's steps interleave.  *)
(***************************************************************************)
THEOREM Invariance == Spec => []IInv
  BY InitInv, StepInv, PTL DEF Spec

(***************************************************************************)
(* An exclusive holder is alone, however LWLockAttemptLock's and           *)
(* LWLockRelease's exchanges interleave with those on the flags.           *)
(***************************************************************************)
THEOREM ExclusiveAlone == Spec => []MutualExclusion
<1>1. IInv => MutualExclusion
  BY Zenon DEF IInv, CountOK
<1> QED
  BY Invariance, <1>1, PTL

\* The state word, the lists and the locals of the calls keep the shape TypeOK says.
THEOREM TypeCorrect == Spec => []TypeOK
  BY Invariance, PTL DEF IInv

\* LWLockQueueSelf's PANIC, "queueing for lock while waiting on another one", is not reached.
THEOREM QueuesOnce == Spec => []NeverPanics
<1>1. IInv => NeverPanics
  BY Zenon DEF IInv, NeverPanics, Waiting, WaitingOK, Waits
<1> QED
  BY Invariance, <1>1, PTL

(***************************************************************************)
(* The wakeups that the loops around PGSemaphoreLock take for someone      *)
(* else and put back are neither lost nor multiplied.                      *)
(***************************************************************************)
THEOREM WakeupsAccountedFor == Spec => []SignalsKept
  BY Invariance, PTL DEF IInv

(***************************************************************************)
(* While a process is on the wait list, not everyone is asleep or done:    *)
(* the second attempt after queueing and the two flags lose no wakeup.     *)
(***************************************************************************)
THEOREM WakeupNotLost == Spec => []NoLostWakeup
<1>1. IInv => NoLostWakeup
  <2> SUFFICES ASSUME IInv, \A p \in Procs : Stuck(p), waiters # <<>> PROVE FALSE
    BY Zenon DEF NoLostWakeup
  <2>1. TypeOK /\ CountOK /\ SleepOK /\ Waiting
    BY Zenon DEF IInv
  <2>2. waiters \in Seq(Procs) /\ 1 \in DOMAIN waiters
    BY <2>1 DEF TypeOK
  <2>3. PICK w \in Procs : Queued(w)
    BY <2>2 DEF Queued
  <2>4. pc[w] = "sleep"
    <3>1. pc[w] \in Waits
      BY Zenon, <2>1, <2>3, QueuedWaits
    <3> QED
      BY Zenon, <3>1 DEF Stuck, Waits
  <2>5. lockcount = 0
    <3>1. \A p \in Procs : held[p] = "none"
      BY Zenon DEF Stuck
    <3>2. Sharers = {} /\ Cardinality({}) = 0
      BY Zenon, <3>1, FS_EmptySet DEF Sharers
    <3> QED
      BY Zenon, <2>1, <3>1, <3>2 DEF CountOK
  <2>6. PICK q \in Procs : WillWake(q) \/ WillRetry(q)
    BY Zenon, <2>1, <2>3, <2>4, <2>5 DEF SleepOK
  <2>7. Stuck(q)
    BY Zenon
  <2> QED
    BY Zenon, <2>6, <2>7 DEF WillWake, WillRetry, Stuck, At
<1> QED
  BY Invariance, <1>1, PTL

(***************************************************************************)
(* LWLockWaitForVar does not sleep through LWLockUpdateVar or              *)
(* LWLockReleaseClearVar, which change the variable before they wake up.   *)
(***************************************************************************)
THEOREM ChangeNoticed == Spec => []VarNoticed
  BY Invariance, PTL DEF IInv

=============================================================================
