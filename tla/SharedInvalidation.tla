------------------------ MODULE SharedInvalidation ------------------------
(***************************************************************************)
(* The shared cache invalidation queue: sinvaladt.c keeps the messages in  *)
(* a ring buffer with one read position per backend, sinval.c reads them   *)
(* on behalf of the caches.  Writers hold SInvalWriteLock, readers hold    *)
(* SInvalReadLock in shared mode, SICleanupQueue holds both exclusively;   *)
(* hasMessages is read and written under no common lock.                   *)
(*                                                                         *)
(* A step is what a backend does between two points where others can tell  *)
(* the difference: it takes or releases a lock, touches hasMessages, or    *)
(* reads or writes maxMsgNum.  The content of a message is its number in   *)
(* the order of sending.                                                   *)
(***************************************************************************)
EXTENDS Integers

CONSTANTS
  MaxBackends,        \* size of the procState array
  MAXNUMMESSAGES, MSGNUMWRAPAROUND, CLEANUP_MIN, CLEANUP_QUANTUM, SIG_THRESHOLD,
  WRITE_QUANTUM,
  MAXINVALMSGS,       \* sinval.c's local message array
  SendOnlyPids,       \* processes that only send: the startup process
  Senders,            \* bound: the processes that send messages
  MaxBatch,           \* bound: messages of one SendSharedInvalidMessages call
  MaxSent,            \* bound: no call starts that would send more in all
  MaxPid,             \* bound: processes that ever connect
  MaxDepth            \* bound: nested ReceiveSharedInvalidMessages calls

Slots == 1 .. MaxBackends
Depths == 1 .. MaxDepth
Unused == [k \in 1 .. MAXINVALMSGS |-> -1]

ASSUME ConstantsAssumption ==
  /\ MaxBackends \in Nat /\ MAXNUMMESSAGES \in Nat \ {0}
  /\ \E k \in 1 .. MSGNUMWRAPAROUND : MSGNUMWRAPAROUND = k * MAXNUMMESSAGES
  /\ MSGNUMWRAPAROUND \in Nat /\ CLEANUP_MIN \in Nat \ {0} /\ CLEANUP_QUANTUM \in Nat \ {0}
  /\ SIG_THRESHOLD \in Nat
  /\ WRITE_QUANTUM \in 1 .. MAXNUMMESSAGES
  /\ MAXINVALMSGS \in Nat \ {0}
  /\ MaxBatch \in Nat /\ MaxSent \in Nat /\ MaxPid \in Nat /\ MaxDepth \in Nat \ {0}

VARIABLES
  minMsgNum, maxMsgNum, nextThreshold, lastBackend, buffer,        \* SISeg
  procPid, nextMsgNum, resetState, signaled, hasMessages,          \* ProcState, by slot
  writeLock,      \* the slot that holds SInvalWriteLock, or 0
  catchupInterruptPending,
  lastPid,        \* the process that connected last
  pc,             \* where each backend is
  todo, nthistime, kick, target,   \* SIInsertDataEntries' and SICleanupQueue's locals
  max,                             \* SIGetDataEntries' local
  messages, nextmsg, nummsgs,      \* ReceiveSharedInvalidMessages' static variables
  depth,          \* how many of its calls are nested
  at,             \* by call: which of its loops it is in
  goal,           \* history, by call: how many messages were queued when it was entered
  base,           \* history: what wraparound has subtracted from the counters
  queued,         \* history: how many messages have completely been inserted
  seen            \* history: number of the first message a backend has not dealt with

seg == <<minMsgNum, maxMsgNum, nextThreshold, lastBackend, buffer, base>>
queue == <<minMsgNum, maxMsgNum, nextThreshold, base, nextMsgNum, resetState>>
writing == <<todo, nthistime, kick>>
reading == <<max, messages, nextmsg, nummsgs, depth, at, goal, seen>>
vars == <<seg, procPid, lastPid, nextMsgNum, resetState, signaled, hasMessages, writeLock,
          catchupInterruptPending, pc, writing, target, reading, queued>>

sendOnly(b) == procPid[b] \in SendOnlyPids
readers == {b \in Slots : pc[b] \in {"r_max", "r_copy"}}   \* hold SInvalReadLock
Smaller(m, n) == IF m <= n THEN m ELSE n
At(b, here) == pc[b] = here
Goto(b, there) == pc' = [pc EXCEPT ![b] = there]

(* CreateSharedInvalidationState *)
Init ==
  /\ minMsgNum = 0 /\ maxMsgNum = 0 /\ nextThreshold = CLEANUP_MIN /\ lastBackend = 0
  /\ buffer = [k \in 0 .. MAXNUMMESSAGES - 1 |-> -1]
  /\ procPid = [b \in Slots |-> 0] /\ lastPid = 0
  /\ nextMsgNum = [b \in Slots |-> 0]
  /\ resetState = [b \in Slots |-> FALSE]
  /\ signaled = [b \in Slots |-> FALSE]
  /\ hasMessages = [b \in Slots |-> FALSE]
  /\ writeLock = 0
  /\ catchupInterruptPending = [b \in Slots |-> FALSE]
  /\ pc = [b \in Slots |-> "off"]
  /\ todo = [b \in Slots |-> 0] /\ nthistime = [b \in Slots |-> 0] /\ kick = [b \in Slots |-> 0]
  /\ target = [b \in Slots |-> <<0, 0>>]
  /\ max = [b \in Slots |-> 0]
  /\ messages = [b \in Slots |-> Unused]
  /\ nextmsg = [b \in Slots |-> 0] /\ nummsgs = [b \in Slots |-> 0]
  /\ depth = [b \in Slots |-> 0]
  /\ at = [b \in Slots |-> [d \in Depths |-> "none"]]
  /\ goal = [b \in Slots |-> [d \in Depths |-> 0]]
  /\ base = 0 /\ queued = 0
  /\ seen = [b \in Slots |-> 0]

-----------------------------------------------------------------------------
(* Connecting and leaving *)

(***************************************************************************)
(* SharedInvalBackendInit: the first inactive entry, else one more.  All   *)
(* messages there are count as read.                                       *)
(***************************************************************************)
FreeSlot(b) ==
  LET free == {s \in 1 .. lastBackend : procPid[s] = 0} IN
  IF free # {} THEN b \in free /\ \A s \in free : b <= s
  ELSE b = lastBackend + 1

\* Mutant: a new backend starts at the oldest message there is.
BackendInitAtMin(b) ==
  /\ FreeSlot(b)
  /\ writeLock = 0
  /\ lastPid < MaxPid
  /\ lastPid' = lastPid + 1
  /\ lastBackend' = IF b > lastBackend THEN b ELSE lastBackend
  /\ procPid' = [procPid EXCEPT ![b] = lastPid + 1]
  /\ nextMsgNum' = [nextMsgNum EXCEPT ![b] = minMsgNum]
  /\ resetState' = [resetState EXCEPT ![b] = FALSE]
  /\ signaled' = [signaled EXCEPT ![b] = FALSE]
  /\ hasMessages' = [hasMessages EXCEPT ![b] = TRUE]
  /\ catchupInterruptPending' = [catchupInterruptPending EXCEPT ![b] = FALSE]
  /\ messages' = [messages EXCEPT ![b] = Unused]
  /\ nextmsg' = [nextmsg EXCEPT ![b] = 0]
  /\ nummsgs' = [nummsgs EXCEPT ![b] = 0]
  /\ seen' = [seen EXCEPT ![b] = maxMsgNum + base]
  /\ Goto(b, "idle")
  /\ UNCHANGED <<minMsgNum, maxMsgNum, nextThreshold, buffer, base, writeLock, writing,
                 target, max, depth, at, goal, queued>>

SharedInvalBackendInit(b) ==
  /\ FreeSlot(b)
  /\ writeLock = 0
  /\ lastPid < MaxPid
  /\ lastPid' = lastPid + 1
  /\ lastBackend' = IF b > lastBackend THEN b ELSE lastBackend
  /\ procPid' = [procPid EXCEPT ![b] = lastPid + 1]
  /\ nextMsgNum' = [nextMsgNum EXCEPT ![b] = maxMsgNum]
  /\ resetState' = [resetState EXCEPT ![b] = FALSE]
  /\ signaled' = [signaled EXCEPT ![b] = FALSE]
  /\ hasMessages' = [hasMessages EXCEPT ![b] = FALSE]
  /\ catchupInterruptPending' = [catchupInterruptPending EXCEPT ![b] = FALSE]
  /\ messages' = [messages EXCEPT ![b] = Unused]
  /\ nextmsg' = [nextmsg EXCEPT ![b] = 0]
  /\ nummsgs' = [nummsgs EXCEPT ![b] = 0]
  /\ seen' = [seen EXCEPT ![b] = maxMsgNum + base]
  /\ Goto(b, "idle")
  /\ UNCHANGED <<minMsgNum, maxMsgNum, nextThreshold, buffer, base, writeLock, writing,
                 target, max, depth, at, goal, queued>>

(***************************************************************************)
(* CleanupInvalidationState, when an idle backend exits.  hasMessages is   *)
(* left as it is.                                                          *)
(***************************************************************************)
CleanupInvalidationState(b) ==
  /\ At(b, "idle")
  /\ writeLock = 0
  /\ procPid' = [procPid EXCEPT ![b] = 0]
  /\ nextMsgNum' = [nextMsgNum EXCEPT ![b] = 0]
  /\ resetState' = [resetState EXCEPT ![b] = FALSE]
  /\ signaled' = [signaled EXCEPT ![b] = FALSE]
  /\ LET others == {s \in 1 .. lastBackend : s # b /\ procPid[s] # 0} IN
     \E last \in others \cup {0} : (\A s \in others : s <= last) /\ lastBackend' = last
  /\ Goto(b, "off")
  /\ UNCHANGED <<minMsgNum, maxMsgNum, nextThreshold, buffer, base, lastPid, hasMessages, writeLock,
                 catchupInterruptPending, writing, target, reading, queued>>

-----------------------------------------------------------------------------
(* SICleanupQueue, with both locks held exclusively *)

Considered == {s \in 1 .. lastBackend : procPid[s] # 0 /\ ~resetState[s] /\ ~sendOnly(s)}

\* Mutant: forgets the entries the caller is about to need.
lowboundNow(minFree) == maxMsgNum - MAXNUMMESSAGES

lowbound(minFree) == maxMsgNum - MAXNUMMESSAGES + minFree

\* Who is in the way of freeing minFree entries, and who is not.
TooFarBack(minFree) == {s \in Considered : nextMsgNum[s] < lowbound(minFree)}
Keeping(minFree) == Considered \ TooFarBack(minFree)

\* Those who would be signaled; the furthest back of them, the first on a tie, is.
Laggards(minFree) ==
  {s \in Keeping(minFree) : nextMsgNum[s] < maxMsgNum - SIG_THRESHOLD /\ ~signaled[s]}
needSig(minFree, s) ==
  /\ s \in Laggards(minFree)
  /\ \A t \in Laggards(minFree) :
       nextMsgNum[s] < nextMsgNum[t] \/ (nextMsgNum[s] = nextMsgNum[t] /\ s <= t)

IsMin(minFree, min) ==
  LET nums == {maxMsgNum} \cup {nextMsgNum[s] : s \in Keeping(minFree)} IN
  min \in nums /\ \A n \in nums : min <= n

threshold(numMsgs) ==
  IF numMsgs < CLEANUP_MIN THEN CLEANUP_MIN
  ELSE (numMsgs \div CLEANUP_QUANTUM + 1) * CLEANUP_QUANTUM

\* Mutant: wraps around as soon as the newest message number allows it.
CleanQueueByMax(minFree) ==
  \E min \in {maxMsgNum} \cup {nextMsgNum[s] : s \in Slots} :
    LET wrap == IF maxMsgNum >= MSGNUMWRAPAROUND THEN MSGNUMWRAPAROUND ELSE 0 IN
    /\ IsMin(minFree, min)
    /\ minMsgNum' = min - wrap
    /\ maxMsgNum' = maxMsgNum - wrap
    /\ base' = base + wrap
    /\ nextMsgNum' = [s \in Slots |-> IF s <= lastBackend THEN nextMsgNum[s] - wrap
                                      ELSE nextMsgNum[s]]
    /\ resetState' = [s \in Slots |-> resetState[s] \/ s \in TooFarBack(minFree)]
    /\ nextThreshold' = threshold(maxMsgNum - min)

\* The recomputation of minMsgNum, the resets and the wraparound.
CleanQueue(minFree) ==
  \E min \in {maxMsgNum} \cup {nextMsgNum[s] : s \in Slots} :
    LET wrap == IF min >= MSGNUMWRAPAROUND THEN MSGNUMWRAPAROUND ELSE 0 IN
    /\ IsMin(minFree, min)
    /\ minMsgNum' = min - wrap
    /\ maxMsgNum' = maxMsgNum - wrap
    /\ base' = base + wrap
    /\ nextMsgNum' = [s \in Slots |-> IF s <= lastBackend THEN nextMsgNum[s] - wrap
                                      ELSE nextMsgNum[s]]
    /\ resetState' = [s \in Slots |-> resetState[s] \/ s \in TooFarBack(minFree)]
    /\ nextThreshold' = threshold(maxMsgNum - min)

(***************************************************************************)
(* The whole routine for backend b: it goes on at `signal' when it has     *)
(* someone to signal, with both locks released, and at `done' otherwise,   *)
(* with the write lock in the hands of `holder'.                           *)
(***************************************************************************)
SICleanupQueue(b, minFree, signal, done, holder) ==
  /\ readers = {}
  /\ CleanQueue(minFree)
  /\ \/ /\ \E s \in Slots :
             /\ needSig(minFree, s)
             /\ signaled' = [signaled EXCEPT ![s] = TRUE]
             /\ target' = [target EXCEPT ![b] = <<s, procPid[s]>>]
        /\ writeLock' = 0
        /\ Goto(b, signal)
     \/ /\ Laggards(minFree) = {}
        /\ UNCHANGED <<signaled, target>>
        /\ writeLock' = holder
        /\ Goto(b, done)
  /\ UNCHANGED <<lastBackend, buffer, procPid, lastPid, hasMessages, writing, reading, queued>>

(***************************************************************************)
(* SendProcSignal(his_pid, PROCSIG_CATCHUP_INTERRUPT, his_backendId) and   *)
(* HandleCatchupInterrupt; nothing happens when that process is gone.      *)
(***************************************************************************)
SendProcSignal(b) ==
  /\ pc[b] \in {"w_sig", "r_sig"}
  /\ LET s == target[b][1] IN
     catchupInterruptPending' =
       [catchupInterruptPending EXCEPT ![s] = @ \/ procPid[s] = target[b][2]]
  /\ target' = [target EXCEPT ![b] = <<0, 0>>]
  /\ Goto(b, IF At(b, "w_sig") THEN "w_lock" ELSE "r_ret")
  /\ UNCHANGED <<seg, procPid, lastPid, nextMsgNum, resetState, signaled, hasMessages, writeLock,
                 writing, reading, queued>>

-----------------------------------------------------------------------------
(* SIInsertDataEntries *)

SendSharedInvalidMessages(b) ==
  /\ At(b, "idle")
  /\ procPid[b] \in Senders
  /\ \E n \in 1 .. MaxBatch :
       /\ maxMsgNum + base + n <= MaxSent
       /\ nthistime' = [nthistime EXCEPT ![b] = Smaller(n, WRITE_QUANTUM)]
       /\ todo' = [todo EXCEPT ![b] = n - Smaller(n, WRITE_QUANTUM)]
  /\ Goto(b, "w_lock")
  /\ UNCHANGED <<seg, procPid, lastPid, nextMsgNum, resetState, signaled, hasMessages, writeLock,
                 catchupInterruptPending, kick, target, reading, queued>>

InsertLock(b) ==
  /\ At(b, "w_lock")
  /\ writeLock = 0
  /\ writeLock' = b
  /\ Goto(b, "w_loop")
  /\ UNCHANGED <<seg, procPid, lastPid, nextMsgNum, resetState, signaled, hasMessages,
                 catchupInterruptPending, writing, target, reading, queued>>

\* Mutant: looks at the threshold alone.
NeedsCleanupAtThreshold(b) == maxMsgNum - minMsgNum >= nextThreshold

NeedsCleanup(b) ==
  LET numMsgs == maxMsgNum - minMsgNum IN
  numMsgs + nthistime[b] > MAXNUMMESSAGES \/ numMsgs >= nextThreshold

\* After a signal the lock has to be taken and the state to be looked at again.
InsertCleanup(b) ==
  /\ At(b, "w_loop")
  /\ NeedsCleanup(b)
  /\ SICleanupQueue(b, nthistime[b], "w_sig", "w_loop", b)
  /\ UNCHANGED catchupInterruptPending

InsertWrite(b) ==
  /\ At(b, "w_loop")
  /\ ~NeedsCleanup(b)
  /\ buffer' = [k \in 0 .. MAXNUMMESSAGES - 1 |->
                  LET here == {n \in maxMsgNum .. maxMsgNum + nthistime[b] - 1 :
                                 n % MAXNUMMESSAGES = k}
                  IN IF here = {} THEN buffer[k] ELSE base + CHOOSE n \in here : TRUE]
  /\ Goto(b, "w_publish")
  /\ UNCHANGED <<minMsgNum, maxMsgNum, nextThreshold, lastBackend, base, procPid, lastPid,
                 nextMsgNum, resetState, signaled, hasMessages, writeLock,
                 catchupInterruptPending, writing, target, reading, queued>>

InsertPublish(b) ==
  /\ At(b, "w_publish")
  /\ maxMsgNum' = maxMsgNum + nthistime[b]
  /\ kick' = [kick EXCEPT ![b] = 1]
  /\ Goto(b, "w_kick")
  /\ UNCHANGED <<minMsgNum, nextThreshold, lastBackend, buffer, base, procPid, lastPid,
                 nextMsgNum, resetState, signaled, hasMessages, writeLock,
                 catchupInterruptPending, todo, nthistime, target, reading, queued>>

InsertKick(b) ==
  /\ At(b, "w_kick")
  /\ kick[b] <= lastBackend
  /\ hasMessages' = [hasMessages EXCEPT ![kick[b]] = TRUE]
  /\ kick' = [kick EXCEPT ![b] = @ + 1]
  /\ UNCHANGED <<seg, procPid, lastPid, nextMsgNum, resetState, signaled, writeLock,
                 catchupInterruptPending, pc, todo, nthistime, target, reading, queued>>

InsertDone(b) ==
  /\ At(b, "w_kick")
  /\ kick[b] > lastBackend
  /\ writeLock' = 0
  /\ queued' = maxMsgNum + base
  /\ nthistime' = [nthistime EXCEPT ![b] = Smaller(todo[b], WRITE_QUANTUM)]
  /\ todo' = [todo EXCEPT ![b] = @ - Smaller(@, WRITE_QUANTUM)]
  /\ kick' = [kick EXCEPT ![b] = 0]
  /\ Goto(b, IF todo[b] > 0 THEN "w_lock" ELSE "idle")
  /\ UNCHANGED <<seg, procPid, lastPid, nextMsgNum, resetState, signaled, hasMessages,
                 catchupInterruptPending, target, reading>>

-----------------------------------------------------------------------------
(* ReceiveSharedInvalidMessages and SIGetDataEntries *)

shared == <<seg, procPid, lastPid, writeLock, writing, target, queued>>
cursor == <<nextMsgNum, resetState, signaled, hasMessages>>

calls == <<depth, at, goal>>

\* A call of ReceiveSharedInvalidMessages: it first handles what an outer call left.
Enter(b) ==
  /\ depth[b] < MaxDepth
  /\ depth' = [depth EXCEPT ![b] = @ + 1]
  /\ at' = [at EXCEPT ![b][depth[b] + 1] = "pending"]
  /\ goal' = [goal EXCEPT ![b][depth[b] + 1] = queued]
  /\ Goto(b, "r_apply")

\* Mutant: the interrupt is dropped when catching up begins, not when it is done.
ReceiveClearing(b) ==
  /\ At(b, "idle")
  /\ ~sendOnly(b)
  /\ Enter(b)
  /\ catchupInterruptPending' = [catchupInterruptPending EXCEPT ![b] = FALSE]
  /\ UNCHANGED <<shared, cursor, max, messages, nextmsg, nummsgs, seen>>

ReceiveSharedInvalidMessages(b) ==
  /\ At(b, "idle")
  /\ ~sendOnly(b)
  /\ Enter(b)
  /\ UNCHANGED <<shared, cursor, catchupInterruptPending, max, messages, nextmsg, nummsgs, seen>>

(***************************************************************************)
(* invalFunction(messages[nextmsg++]): it may call                         *)
(* ReceiveSharedInvalidMessages again, or fail and unwind every call.      *)
(***************************************************************************)
Apply(b) ==
  /\ At(b, "r_apply")
  /\ nextmsg[b] < nummsgs[b]
  /\ nextmsg' = [nextmsg EXCEPT ![b] = @ + 1]
  /\ seen' = [seen EXCEPT ![b] = messages[b][nextmsg[b] + 1] + 1]
  /\ \/ UNCHANGED <<pc, calls>>
     \/ Enter(b)
     \/ /\ depth' = [depth EXCEPT ![b] = 0]
        /\ at' = [at EXCEPT ![b] = [d \in Depths |-> "none"]]
        /\ goal' = [goal EXCEPT ![b] = [d \in Depths |-> 0]]
        /\ Goto(b, "idle")
  /\ UNCHANGED <<shared, cursor, catchupInterruptPending, max, messages, nummsgs>>

\* Mutant: a call does not deal with what an outer call left.
LoopEndForgetting(b) ==
  /\ At(b, "r_apply")
  /\ at[b][depth[b]] = "pending" \/ nextmsg[b] >= nummsgs[b]
  /\ IF at[b][depth[b]] = "pending" \/ nummsgs[b] = MAXINVALMSGS
     THEN /\ at' = [at EXCEPT ![b][depth[b]] = "loop"]
          /\ nextmsg' = [nextmsg EXCEPT ![b] = 0]
          /\ nummsgs' = [nummsgs EXCEPT ![b] = 0]
          /\ Goto(b, "r_get")
     ELSE /\ Goto(b, "r_done")
          /\ UNCHANGED <<at, nextmsg, nummsgs>>
  /\ messages' = [messages EXCEPT ![b] = Unused]
  /\ UNCHANGED <<shared, cursor, catchupInterruptPending, max, depth, goal, seen>>

\* The end of either loop over messages[]: a full array calls for another round.
LoopEnd(b) ==
  /\ At(b, "r_apply")
  /\ nextmsg[b] >= nummsgs[b]
  /\ IF at[b][depth[b]] = "pending" \/ nummsgs[b] = MAXINVALMSGS
     THEN /\ at' = [at EXCEPT ![b][depth[b]] = "loop"]
          /\ nextmsg' = [nextmsg EXCEPT ![b] = 0]
          /\ nummsgs' = [nummsgs EXCEPT ![b] = 0]
          /\ Goto(b, "r_get")
     ELSE /\ Goto(b, "r_done")
          /\ UNCHANGED <<at, nextmsg, nummsgs>>
  /\ messages' = [messages EXCEPT ![b] = Unused]
  /\ UNCHANGED <<shared, cursor, catchupInterruptPending, max, depth, goal, seen>>

GetNothing(b) ==
  /\ At(b, "r_get")
  /\ ~hasMessages[b]
  /\ Goto(b, "r_done")
  /\ UNCHANGED <<shared, cursor, catchupInterruptPending, reading>>

GetLock(b) ==
  /\ At(b, "r_get")
  /\ hasMessages[b]
  /\ hasMessages' = [hasMessages EXCEPT ![b] = FALSE]
  /\ Goto(b, "r_max")
  /\ UNCHANGED <<shared, nextMsgNum, resetState, signaled, catchupInterruptPending, reading>>

GetMax(b) ==
  /\ At(b, "r_max")
  /\ max' = [max EXCEPT ![b] = maxMsgNum]
  /\ Goto(b, "r_copy")
  /\ UNCHANGED <<shared, cursor, catchupInterruptPending, messages, nextmsg, nummsgs, calls, seen>>

(***************************************************************************)
(* The reset message, and resetFunction, which discards every cache and    *)
(* may call ReceiveSharedInvalidMessages again.                            *)
(***************************************************************************)
GetReset(b) ==
  /\ At(b, "r_copy")
  /\ resetState[b]
  /\ nextMsgNum' = [nextMsgNum EXCEPT ![b] = max[b]]
  /\ resetState' = [resetState EXCEPT ![b] = FALSE]
  /\ signaled' = [signaled EXCEPT ![b] = FALSE]
  /\ seen' = [seen EXCEPT ![b] = max[b] + base]
  /\ \/ Goto(b, "r_done") /\ UNCHANGED calls
     \/ /\ depth[b] < MaxDepth
        /\ depth' = [depth EXCEPT ![b] = @ + 1]
        /\ at' = [at EXCEPT ![b] = [@ EXCEPT ![depth[b]] = "done", ![depth[b] + 1] = "pending"]]
        /\ goal' = [goal EXCEPT ![b][depth[b] + 1] = queued]
        /\ Goto(b, "r_apply")
  /\ max' = [max EXCEPT ![b] = 0]
  /\ UNCHANGED <<shared, hasMessages, catchupInterruptPending, messages, nextmsg, nummsgs>>

\* Mutant: hasMessages is cleared after maxMsgNum has been read.
GetCopyThenClear(b) ==
  /\ At(b, "r_copy")
  /\ ~resetState[b]
  /\ LET avail == IF nextMsgNum[b] < max[b] THEN max[b] - nextMsgNum[b] ELSE 0
         n == Smaller(MAXINVALMSGS, avail)
     IN /\ messages' = [messages EXCEPT ![b] =
                          [k \in 1 .. MAXINVALMSGS |->
                             IF k <= n THEN buffer[(nextMsgNum[b] + k - 1) % MAXNUMMESSAGES] ELSE -1]]
        /\ nextMsgNum' = [nextMsgNum EXCEPT ![b] = @ + n]
        /\ nummsgs' = [nummsgs EXCEPT ![b] = n]
        /\ hasMessages' = [hasMessages EXCEPT ![b] = nextMsgNum[b] + n < max[b]]
        /\ signaled' = [signaled EXCEPT ![b] = @ /\ nextMsgNum[b] + n < max[b]]
  /\ max' = [max EXCEPT ![b] = 0]
  /\ Goto(b, "r_apply")
  /\ UNCHANGED <<shared, resetState, catchupInterruptPending, nextmsg, calls, seen>>

GetCopy(b) ==
  /\ At(b, "r_copy")
  /\ ~resetState[b]
  /\ LET avail == IF nextMsgNum[b] < max[b] THEN max[b] - nextMsgNum[b] ELSE 0
         n == Smaller(MAXINVALMSGS, avail)
     IN /\ messages' = [messages EXCEPT ![b] =
                          [k \in 1 .. MAXINVALMSGS |->
                             IF k <= n THEN buffer[(nextMsgNum[b] + k - 1) % MAXNUMMESSAGES] ELSE -1]]
        /\ nextMsgNum' = [nextMsgNum EXCEPT ![b] = @ + n]
        /\ nummsgs' = [nummsgs EXCEPT ![b] = n]
        /\ IF nextMsgNum[b] + n >= max[b]
           THEN signaled' = [signaled EXCEPT ![b] = FALSE] /\ UNCHANGED hasMessages
           ELSE hasMessages' = [hasMessages EXCEPT ![b] = TRUE] /\ UNCHANGED signaled
  /\ max' = [max EXCEPT ![b] = 0]
  /\ Goto(b, "r_apply")
  /\ UNCHANGED <<shared, resetState, catchupInterruptPending, nextmsg, calls, seen>>

\* Caught up: pass a catchup signal on to the next slowest backend.
CaughtUp(b) ==
  /\ At(b, "r_done")
  /\ catchupInterruptPending' = [catchupInterruptPending EXCEPT ![b] = FALSE]
  /\ Goto(b, IF catchupInterruptPending[b] THEN "r_clean" ELSE "r_ret")
  /\ UNCHANGED <<shared, cursor, reading>>

ReceiveCleanup(b) ==
  /\ At(b, "r_clean")
  /\ writeLock = 0
  /\ SICleanupQueue(b, 0, "r_sig", "r_ret", 0)
  /\ UNCHANGED catchupInterruptPending

ReceiveReturn(b) ==
  /\ At(b, "r_ret")
  /\ depth' = [depth EXCEPT ![b] = @ - 1]
  /\ at' = [at EXCEPT ![b][depth[b]] = "none"]
  /\ goal' = [goal EXCEPT ![b][depth[b]] = 0]
  /\ Goto(b, IF depth[b] = 1 THEN "idle"
             ELSE IF at[b][depth[b] - 1] = "done" THEN "r_done" ELSE "r_apply")
  /\ UNCHANGED <<shared, cursor, catchupInterruptPending, max, messages, nextmsg, nummsgs, seen>>

-----------------------------------------------------------------------------
\* What a backend does once it has called one of the routines.
Step(b) ==
  \/ InsertLock(b) \/ InsertCleanup(b) \/ InsertWrite(b) \/ InsertPublish(b)
  \/ InsertKick(b) \/ InsertDone(b)
  \/ Apply(b) \/ LoopEnd(b) \/ GetNothing(b) \/ GetLock(b) \/ GetMax(b) \/ GetReset(b)
  \/ GetCopy(b) \/ CaughtUp(b) \/ ReceiveCleanup(b) \/ ReceiveReturn(b)
  \/ SendProcSignal(b)

Next ==
  \E b \in Slots :
    \/ SharedInvalBackendInit(b) \/ CleanupInvalidationState(b)
    \/ SendSharedInvalidMessages(b) \/ ReceiveSharedInvalidMessages(b)
    \/ Step(b)

\* ProcessCatchupInterrupt, which an idle backend runs when its latch is set.
ProcessCatchupInterrupt(b) == catchupInterruptPending[b] /\ ReceiveSharedInvalidMessages(b)

(***************************************************************************)
(* A backend inside a routine goes on, a waiter for a lock that stays free *)
(* gets it, and an idle backend heeds its catchup interrupt.               *)
(***************************************************************************)
Fairness == \A b \in Slots : WF_vars(Step(b)) /\ WF_vars(ProcessCatchupInterrupt(b))

Spec == Init /\ [][Next]_vars /\ Fairness

-----------------------------------------------------------------------------
TypeOK ==
  /\ minMsgNum \in Nat /\ maxMsgNum \in Nat /\ base \in Nat /\ queued \in Nat
  /\ nextThreshold \in Nat /\ lastBackend \in 0 .. MaxBackends /\ lastPid \in Nat
  /\ buffer \in [0 .. MAXNUMMESSAGES - 1 -> Int]
  /\ procPid \in [Slots -> Nat]
  /\ nextMsgNum \in [Slots -> Int]
  /\ resetState \in [Slots -> BOOLEAN] /\ signaled \in [Slots -> BOOLEAN]
  /\ hasMessages \in [Slots -> BOOLEAN] /\ catchupInterruptPending \in [Slots -> BOOLEAN]
  /\ writeLock \in 0 .. MaxBackends
  /\ pc \in [Slots -> {"off", "idle", "w_lock", "w_loop", "w_sig", "w_publish", "w_kick",
                       "r_apply", "r_get", "r_max", "r_copy", "r_done", "r_clean", "r_sig",
                       "r_ret"}]
  /\ todo \in [Slots -> Nat] /\ nthistime \in [Slots -> 0 .. WRITE_QUANTUM] /\ kick \in [Slots -> Nat]
  /\ target \in [Slots -> (0 .. MaxBackends) \X Nat]
  /\ max \in [Slots -> Int]
  /\ messages \in [Slots -> [1 .. MAXINVALMSGS -> Int]]
  /\ nextmsg \in [Slots -> Nat] /\ nummsgs \in [Slots -> Nat]
  /\ depth \in [Slots -> 0 .. MaxDepth]
  /\ at \in [Slots -> [Depths -> {"none", "pending", "loop", "done"}]]
  /\ goal \in [Slots -> [Depths -> Nat]]
  /\ seen \in [Slots -> Int]

\* The backends whose read position counts.
Reading(b) == procPid[b] # 0 /\ ~sendOnly(b) /\ ~resetState[b]

(***************************************************************************)
(* The ring holds every message a backend has yet to read, also while a    *)
(* writer fills entries it has not published, while readers copy, and      *)
(* across the wraparound of the counters.                                  *)
(***************************************************************************)
UnreadInBuffer ==
  \A b \in Slots : Reading(b) =>
    /\ nextMsgNum[b] <= maxMsgNum
    /\ \A n \in nextMsgNum[b] .. maxMsgNum - 1 : buffer[n % MAXNUMMESSAGES] = n + base

(***************************************************************************)
(* "We guarantee to process all messages that had been queued before the   *)
(* routine was entered" (sinval.c): when a call of                         *)
(* ReceiveSharedInvalidMessages returns, a nested one included, the        *)
(* backend has dealt with all messages whose insertion was complete when   *)
(* it was called, although hasMessages is tested without a lock.           *)
(***************************************************************************)
QueuedProcessed ==
  \A b \in Slots : At(b, "r_ret") => seen[b] >= goal[b][depth[b]]

(***************************************************************************)
(* A backend's caches see the messages one by one, none skipped and none   *)
(* again after a later one, whatever nested calls and errors do to         *)
(* sinval.c's message array; only a reset, on which it discards its        *)
(* caches, jumps ahead.                                                    *)
(***************************************************************************)
HandledInOrder ==
  [][\A b \in Slots :
       seen'[b] # seen[b] =>
         \/ seen'[b] = seen[b] + 1
         \/ At(b, "r_copy") /\ resetState[b] /\ seen'[b] > seen[b]
         \/ At(b, "off") /\ seen'[b] = maxMsgNum + base]_vars

(***************************************************************************)
(* SendSharedInvalidMessages and ReceiveSharedInvalidMessages return: the  *)
(* insertion's loop around SICleanupQueue ends although each signal lets   *)
(* other writers in, and nobody waits for the two locks for ever.          *)
(***************************************************************************)
CallsReturn == \A b \in Slots : pc[b] \notin {"off", "idle"} ~> At(b, "idle")

(***************************************************************************)
(* A catchup signal that finds its backend idle makes it catch up, errors  *)
(* and nested calls or not, after which it can be signaled again.          *)
(***************************************************************************)
CatchupHeeded ==
  \A b \in Slots :
    signaled[b] /\ catchupInterruptPending[b] /\ At(b, "idle") ~> ~signaled[b]

-----------------------------------------------------------------------------
(* The inductive invariant behind UnreadInBuffer, QueuedProcessed and      *)
(* HandledInOrder.                                                         *)

Receiving(b) == pc[b] \in {"r_apply", "r_get", "r_max", "r_copy", "r_done", "r_clean", "r_sig", "r_ret"}
Listening(b) == procPid[b] # 0 /\ ~sendOnly(b)
Left(b) == nummsgs[b] - nextmsg[b]

Locking == \A b \in Slots : pc[b] \in {"w_loop", "w_publish", "w_kick"} <=> writeLock = b

Connected ==
  \A b \in Slots :
    /\ At(b, "off") <=> procPid[b] = 0
    /\ procPid[b] # 0 => b <= lastBackend
    /\ Receiving(b) => ~sendOnly(b)

Counters ==
  /\ minMsgNum <= maxMsgNum /\ maxMsgNum <= minMsgNum + MAXNUMMESSAGES
  /\ \A b \in Slots : Reading(b) => minMsgNum <= nextMsgNum[b] /\ nextMsgNum[b] <= maxMsgNum
  /\ queued <= maxMsgNum + base
  /\ (\A b \in Slots : ~At(b, "w_kick")) => queued = maxMsgNum + base

Ring ==
  /\ \A n \in minMsgNum .. maxMsgNum - 1 : buffer[n % MAXNUMMESSAGES] = n + base
  /\ \A b \in Slots : At(b, "w_publish") =>
       /\ maxMsgNum + nthistime[b] <= minMsgNum + MAXNUMMESSAGES
       /\ \A n \in maxMsgNum .. maxMsgNum + nthistime[b] - 1 : buffer[n % MAXNUMMESSAGES] = n + base

\* The backend will learn of message n - 1 without being told again.
Told(b, n) ==
  \/ hasMessages[b]
  \/ At(b, "r_max")
  \/ At(b, "r_copy") /\ max[b] + base >= n
  \/ ~resetState[b] /\ nextMsgNum[b] + base >= n

Flags ==
  \A b \in Slots : Listening(b) =>
    /\ Told(b, queued)
    /\ \A w \in Slots : At(w, "w_kick") /\ b < kick[w] => Told(b, maxMsgNum + base)

\* What is left of the message array is what comes next.
ArrayOK(b) ==
  /\ nextmsg[b] <= nummsgs[b] /\ nummsgs[b] <= MAXINVALMSGS
  /\ \A k \in 1 .. MAXINVALMSGS : nextmsg[b] < k /\ k <= nummsgs[b] =>
       messages[b][k] = seen[b] + (k - nextmsg[b] - 1)
  /\ pc[b] \in {"r_get", "r_max", "r_copy"} => nextmsg[b] = 0 /\ nummsgs[b] = 0
  /\ pc[b] \in {"r_done", "r_clean", "r_sig", "r_ret"} => Left(b) = 0

PositionOK(b) ==
  Listening(b) =>
    /\ ~resetState[b] => seen[b] + Left(b) = nextMsgNum[b] + base
    /\ seen[b] + Left(b) <= maxMsgNum + base
    /\ At(b, "r_copy") => minMsgNum <= max[b] /\ max[b] <= maxMsgNum /\ seen[b] <= max[b] + base

CallOK(b) ==
  /\ IF Receiving(b) THEN depth[b] > 0 ELSE depth[b] = 0
  /\ \A d \in Depths : d <= depth[b] => at[b][d] # "none"
  /\ At(b, "r_apply") => at[b][depth[b]] \in {"pending", "loop"}
  /\ pc[b] \in {"r_get", "r_max", "r_copy"} => at[b][depth[b]] = "loop"

\* The call at depth d is on its way to its goal.
GoalOK(b, d) ==
  /\ goal[b][d] <= queued
  /\ At(b, "r_copy") => goal[b][d] <= max[b] + base
  /\ at[b][d] = "done" \/ pc[b] \in {"r_done", "r_clean", "r_sig", "r_ret"} =>
       goal[b][d] <= seen[b]
  /\ At(b, "r_apply") /\ at[b][depth[b]] = "loop" /\ nummsgs[b] < MAXINVALMSGS =>
       goal[b][d] <= seen[b] + Left(b)
  /\ \A e \in Depths : d <= e /\ e <= depth[b] => goal[b][d] <= goal[b][e]

Arrays == \A b \in Slots : ArrayOK(b)
Positions == \A b \in Slots : PositionOK(b)
Calls == \A b \in Slots : CallOK(b)
Goals == \A b \in Slots : \A d \in Depths : d <= depth[b] => GoalOK(b, d)

IInv ==
  /\ TypeOK /\ Locking /\ Connected /\ Counters /\ Ring /\ Flags /\ Arrays /\ Positions
  /\ Calls /\ Goals
=============================================================================
