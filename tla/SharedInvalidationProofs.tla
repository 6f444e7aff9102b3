---------------------- MODULE SharedInvalidationProofs ----------------------
(***************************************************************************)
(* Proofs about the shared invalidation queue, for every size of the ring, *)
(* of the message array and of the procState array, every wraparound that  *)
(* is a multiple of the ring's size, and every nesting depth.              *)
(*                                                                         *)
(* The inductive invariant IInv covers the connections, the calls of       *)
(* ReceiveSharedInvalidMessages and their message arrays, the counters,    *)
(* the read positions, the ring buffer, the hasMessages flags and what     *)
(* each call has promised its caller.                                      *)
(***************************************************************************)
EXTENDS SharedInvalidation, TLAPS

-----------------------------------------------------------------------------
(* Ring indexes. *)

LEMMA DivMod ==
  ASSUME NEW N \in Nat \ {0}, NEW i \in Int
  PROVE  i = N * (i \div N) + (i % N) /\ i % N \in 0 .. N - 1 /\ i \div N \in Int
  BY Z3

\* A multiple of N between -N and N is 0.
LEMMA SmallMultiple ==
  ASSUME NEW N \in Nat \ {0}, NEW q \in Int, -N < N * q, N * q < N
  PROVE  q = 0
<1>1. CASE q >= 1
  <2>1. N * q >= N
    BY <1>1
  <2> QED
    BY <2>1
<1>2. CASE q <= -1
  <2>1. N * q <= -N
    BY <1>2
  <2> QED
    BY <2>1
<1> QED
  BY <1>1, <1>2

LEMMA ModDistinct ==
  ASSUME NEW N \in Nat \ {0}, NEW i \in Int, NEW j \in Int, i < j, j < i + N
  PROVE  i % N # j % N
<1> SUFFICES ASSUME i % N = j % N PROVE FALSE
  BY Zenon
<1> DEFINE a == i \div N
           b == j \div N
<1>1. i = N * a + (i % N) /\ j = N * b + (j % N) /\ a \in Int /\ b \in Int
  BY Zenon, DivMod
<1> HIDE DEF a, b
<1>2. i % N \in Int
  BY DivMod
<1>3. j - i = N * (b - a)
  BY <1>1, <1>2
<1>4. b - a = 0
  BY <1>1, <1>3, SmallMultiple
<1> QED
  BY <1>1, <1>3, <1>4

LEMMA ModShift ==
  ASSUME NEW N \in Nat \ {0}, NEW i \in Int, NEW k \in Int
  PROVE  (i - k * N) % N = i % N
<1> DEFINE j == i - k * N
           a == i \div N
           b == j \div N
<1>1. j \in Int
  OBVIOUS
<1>2. /\ i = N * a + (i % N) /\ a \in Int /\ i % N \in 0 .. N - 1
      /\ j = N * b + (j % N) /\ b \in Int /\ j % N \in 0 .. N - 1
  BY Zenon, <1>1, DivMod
<1>3. j = i - k * N
  BY Zenon
<1> HIDE DEF j, a, b
<1>4. (j % N) - (i % N) = N * (a - b - k)
  <2>1. N * (a - b - k) = N * a - N * b - N * k
    BY <1>2
  <2>2. N * k = k * N /\ N * k \in Int /\ N * a \in Int /\ N * b \in Int
    BY <1>2
  <2> DEFINE x == N * a
             y == N * b
             z == k * N
             r == i % N
             t == j % N
  <2>3. i = x + r /\ j = y + t /\ j = i - z
    BY Zenon, <1>2, <1>3
  <2>4. x \in Int /\ y \in Int /\ z \in Int /\ r \in Int /\ t \in Int
    BY <1>2, <2>2
  <2> HIDE DEF x, y, z, r, t
  <2>5. t - r = x - y - z
    BY <2>3, <2>4
  <2> QED
    BY Zenon, <2>1, <2>2, <2>5 DEF x, y, z, r, t
<1>5. a - b - k = 0
  <2>1. a - b - k \in Int
    BY <1>2
  <2>2. -N < N * (a - b - k) /\ N * (a - b - k) < N
    BY <1>2, <1>4
  <2> QED
    BY Zenon, <2>1, <2>2, SmallMultiple
<1>6. j % N = i % N
  BY <1>2, <1>4, <1>5
<1> QED
  BY Zenon, <1>6 DEF j

LEMMA Wraparound ==
  ASSUME NEW i \in Int
  PROVE  (i - MSGNUMWRAPAROUND) % MAXNUMMESSAGES = i % MAXNUMMESSAGES
<1>1. PICK k \in 1 .. MSGNUMWRAPAROUND : MSGNUMWRAPAROUND = k * MAXNUMMESSAGES
  BY Zenon, ConstantsAssumption
<1>2. MAXNUMMESSAGES \in Nat \ {0} /\ k \in Int
  BY <1>1, ConstantsAssumption
<1>3. (i - k * MAXNUMMESSAGES) % MAXNUMMESSAGES = i % MAXNUMMESSAGES
  BY Zenon, <1>2, ModShift
<1> QED
  BY Zenon, <1>1, <1>3

-----------------------------------------------------------------------------
(* What SICleanupQueue does to the counters. *)

LEMMA ThresholdNat == ASSUME NEW n \in Nat PROVE threshold(n) \in Nat
<1>1. CLEANUP_MIN \in Nat /\ CLEANUP_QUANTUM \in Nat \ {0}
  BY Zenon, ConstantsAssumption
<1> DEFINE q == n \div CLEANUP_QUANTUM
<1>2. q \in Nat
  BY <1>1, Z3
<1> HIDE DEF q
<1>3. (q + 1) * CLEANUP_QUANTUM \in Nat
  BY <1>1, <1>2
<1> QED
  BY Zenon, <1>1, <1>3 DEF threshold, q

LEMMA CleanQueueFacts ==
  ASSUME IInv, NEW minFree \in 0 .. WRITE_QUANTUM, CleanQueue(minFree)
  PROVE  \E w \in {0, MSGNUMWRAPAROUND} :
           /\ minMsgNum' \in Nat /\ maxMsgNum' \in Nat /\ base' \in Nat /\ nextThreshold' \in Nat
           /\ maxMsgNum' = maxMsgNum - w /\ base' = base + w
           /\ minMsgNum <= minMsgNum' + w /\ minMsgNum' <= maxMsgNum'
           /\ nextMsgNum' \in [Slots -> Int] /\ resetState' \in [Slots -> BOOLEAN]
           /\ \A s \in Slots : s <= lastBackend => nextMsgNum'[s] = nextMsgNum[s] - w
           /\ \A s \in Slots : resetState[s] => resetState'[s]
           /\ \A s \in Slots : resetState'[s] /\ ~resetState[s] => nextMsgNum[s] < maxMsgNum
           /\ \A s \in Slots : Listening(s) /\ ~resetState'[s] => minMsgNum' <= nextMsgNum'[s]
<1>1. PICK min \in {maxMsgNum} \cup {nextMsgNum[s] : s \in Slots} :
        LET wrap == IF min >= MSGNUMWRAPAROUND THEN MSGNUMWRAPAROUND ELSE 0 IN
        /\ IsMin(minFree, min)
        /\ minMsgNum' = min - wrap
        /\ maxMsgNum' = maxMsgNum - wrap
        /\ base' = base + wrap
        /\ nextMsgNum' = [s \in Slots |-> IF s <= lastBackend THEN nextMsgNum[s] - wrap
                                          ELSE nextMsgNum[s]]
        /\ resetState' = [s \in Slots |-> resetState[s] \/ s \in TooFarBack(minFree)]
        /\ nextThreshold' = threshold(maxMsgNum - min)
  BY Zenon DEF CleanQueue
<1> DEFINE w == IF min >= MSGNUMWRAPAROUND THEN MSGNUMWRAPAROUND ELSE 0
<1>2. /\ minMsgNum \in Nat /\ maxMsgNum \in Nat /\ base \in Nat /\ lastBackend \in 0 .. MaxBackends
      /\ nextMsgNum \in [Slots -> Int] /\ resetState \in [Slots -> BOOLEAN]
  BY Zenon DEF IInv, TypeOK
<1>3. MSGNUMWRAPAROUND \in Nat /\ MAXNUMMESSAGES \in Nat \ {0} /\ WRITE_QUANTUM \in 1 .. MAXNUMMESSAGES
  BY Zenon, ConstantsAssumption
<1>4. \A s \in Slots : s \in Keeping(minFree) => Reading(s)
  BY Zenon DEF Keeping, Considered, Reading
<1>5. minMsgNum <= min /\ min <= maxMsgNum /\ min \in Nat
  <2>1. \A s \in Keeping(minFree) : s \in Slots /\ minMsgNum <= nextMsgNum[s]
    <3>1. \A s \in Keeping(minFree) : s \in Slots
      BY <1>2, ConstantsAssumption DEF Keeping, Considered, Slots
    <3> QED
      BY Zenon, <3>1, <1>4 DEF IInv, Counters
  <2>2. min \in {maxMsgNum} \cup {nextMsgNum[s] : s \in Keeping(minFree)}
    BY Zenon, <1>1 DEF IsMin
  <2>3. min <= maxMsgNum
    BY Zenon, <1>1 DEF IsMin
  <2>4. minMsgNum <= maxMsgNum
    BY Zenon DEF IInv, Counters
  <2> QED
    BY <1>2, <2>1, <2>2, <2>3, <2>4
<1>6. w \in {0, MSGNUMWRAPAROUND} /\ w \in Nat /\ w <= min
  BY <1>3, <1>5
<1> HIDE DEF w
<1>7. /\ minMsgNum' = min - w /\ maxMsgNum' = maxMsgNum - w /\ base' = base + w
      /\ nextMsgNum' = [s \in Slots |-> IF s <= lastBackend THEN nextMsgNum[s] - w
                                        ELSE nextMsgNum[s]]
  BY Zenon, <1>1 DEF w
<1>8. minMsgNum' \in Nat /\ maxMsgNum' \in Nat /\ base' \in Nat /\ nextThreshold' \in Nat
  <2>1. maxMsgNum - min \in Nat
    BY <1>2, <1>5
  <2>2. nextThreshold' \in Nat
    BY Zenon, <1>1, <2>1, ThresholdNat
  <2> QED
    BY <1>2, <1>5, <1>6, <1>7, <2>2
<1>9. minMsgNum <= minMsgNum' + w /\ minMsgNum' <= maxMsgNum'
  BY <1>2, <1>5, <1>6, <1>7
<1>10. /\ nextMsgNum' \in [Slots -> Int]
       /\ \A s \in Slots : s <= lastBackend => nextMsgNum'[s] = nextMsgNum[s] - w
  BY <1>2, <1>6, <1>7
<1>11. /\ resetState' \in [Slots -> BOOLEAN]
       /\ \A s \in Slots : resetState'[s] <=> (resetState[s] \/ s \in TooFarBack(minFree))
  BY Zenon, <1>1, <1>2
<1>12. \A s \in Slots : s \in TooFarBack(minFree) => nextMsgNum[s] < maxMsgNum
  <2> SUFFICES ASSUME NEW s \in Slots, s \in TooFarBack(minFree) PROVE nextMsgNum[s] < maxMsgNum
    BY Zenon
  <2>1. nextMsgNum[s] < maxMsgNum - MAXNUMMESSAGES + minFree
    BY Zenon DEF TooFarBack, lowbound
  <2> QED
    BY <1>2, <1>3, <2>1
<1>13. \A s \in Slots : Listening(s) /\ ~resetState'[s] => minMsgNum' <= nextMsgNum'[s]
  <2> SUFFICES ASSUME NEW s \in Slots, Listening(s), ~resetState'[s]
               PROVE  minMsgNum' <= nextMsgNum'[s]
    BY Zenon
  <2>1. s <= lastBackend
    BY Zenon DEF IInv, Connected, Listening
  <2>2. s \in Keeping(minFree)
    BY <1>2, <1>11, <2>1 DEF Keeping, Considered, Listening, Slots
  <2>3. min <= nextMsgNum[s]
    BY Zenon, <1>1, <2>2 DEF IsMin
  <2> QED
    BY <1>2, <1>5, <1>6, <1>7, <1>10, <2>1, <2>3
<1> QED
  BY Zenon, <1>6, <1>7, <1>8, <1>9, <1>10, <1>11, <1>12, <1>13
-----------------------------------------------------------------------------
(* Every action preserves each part of the invariant. *)

Action(b) ==
  \/ SharedInvalBackendInit(b) \/ CleanupInvalidationState(b)
  \/ SendSharedInvalidMessages(b) \/ ReceiveSharedInvalidMessages(b)
  \/ Step(b)

LEMMA GotoFacts ==
  ASSUME IInv, NEW b \in Slots, NEW there, Goto(b, there)
  PROVE  pc'[b] = there /\ \A c \in Slots : c # b => pc'[c] = pc[c]
  BY Zenon DEF IInv, TypeOK, Goto

LEMMA SlotFacts == \A b \in Slots : b \in Nat /\ b > 0 /\ b # 0 /\ b <= MaxBackends
  BY ConstantsAssumption DEF Slots

LEMMA FreeIsOff ==
  ASSUME IInv, NEW b \in Slots, FreeSlot(b)
  PROVE  pc[b] = "off" /\ procPid[b] = 0
<1>1. lastBackend \in Nat
  BY ConstantsAssumption DEF IInv, TypeOK
<1>2. procPid[b] = 0
  BY <1>1 DEF FreeSlot, IInv, Connected
<1> QED
  BY Zenon, <1>2 DEF IInv, Connected, At

LEMMA CleanupCall ==
  ASSUME IInv, NEW b \in Slots, InsertCleanup(b) \/ ReceiveCleanup(b)
  PROVE  /\ \E minFree \in 0 .. WRITE_QUANTUM : CleanQueue(minFree)
         /\ readers = {}
         /\ \A c \in Slots : ~At(c, "w_publish") /\ ~At(c, "w_kick")
<1>1. nthistime[b] \in 0 .. WRITE_QUANTUM /\ 0 \in 0 .. WRITE_QUANTUM
  BY ConstantsAssumption DEF IInv, TypeOK
<1>2. \A c \in Slots : ~At(c, "w_publish") /\ ~At(c, "w_kick")
  BY Zenon, SlotFacts DEF IInv, Locking, InsertCleanup, ReceiveCleanup, At
<1> QED
  BY Zenon, <1>1, <1>2 DEF InsertCleanup, ReceiveCleanup, SICleanupQueue

LEMMA CallTypes ==
  IInv => /\ depth \in [Slots -> 0 .. MaxDepth] /\ MaxDepth \in Nat
          /\ at \in [Slots -> [Depths -> {"none", "pending", "loop", "done"}]]
          /\ goal \in [Slots -> [Depths -> Nat]]
  BY Zenon, ConstantsAssumption DEF IInv, TypeOK

\* The nested calls after one more is entered.
LEMMA EnterFacts ==
  ASSUME IInv, NEW b \in Slots, Enter(b)
  PROVE  /\ depth[b] + 1 \in Depths /\ depth'[b] = depth[b] + 1 /\ depth'[b] > 0
         /\ pc'[b] = "r_apply"
         /\ at'[b][depth[b] + 1] = "pending" /\ goal'[b][depth[b] + 1] = queued
         /\ \A d \in Depths : d <= depth[b] => at'[b][d] = at[b][d] /\ goal'[b][d] = goal[b][d]
         /\ \A c \in Slots : c # b =>
              pc'[c] = pc[c] /\ depth'[c] = depth[c] /\ at'[c] = at[c] /\ goal'[c] = goal[c]
<1> USE CallTypes
<1>1. depth[b] + 1 \in Depths /\ depth[b] + 1 > 0
  BY DEF Enter, Depths
<1>2. \A d \in Depths : d <= depth[b] => d # depth[b] + 1
  BY DEF Depths
<1>3. depth'[b] = depth[b] + 1
  BY Zenon DEF Enter
<1>4. /\ at'[b][depth[b] + 1] = "pending"
      /\ \A d \in Depths : d # depth[b] + 1 => at'[b][d] = at[b][d]
  BY Zenon, <1>1 DEF Enter
<1>5. /\ goal'[b][depth[b] + 1] = queued
      /\ \A d \in Depths : d # depth[b] + 1 => goal'[b][d] = goal[b][d]
  BY Zenon, <1>1 DEF Enter
<1>6. \A c \in Slots : c # b => depth'[c] = depth[c] /\ at'[c] = at[c] /\ goal'[c] = goal[c]
  BY Zenon DEF Enter
<1>7. pc'[b] = "r_apply" /\ \A c \in Slots : c # b => pc'[c] = pc[c]
  BY Zenon, GotoFacts DEF Enter
<1> QED
  BY Zenon, <1>1, <1>2, <1>3, <1>4, <1>5, <1>6, <1>7

\* After one of them is left.
LEMMA ReturnFacts ==
  ASSUME IInv, NEW b \in Slots, ReceiveReturn(b)
  PROVE  /\ depth[b] \in Depths /\ depth'[b] = depth[b] - 1
         /\ \A d \in Depths : d <= depth[b] - 1 => at'[b][d] = at[b][d] /\ goal'[b][d] = goal[b][d]
         /\ \/ depth[b] = 1 /\ pc'[b] = "idle"
            \/ /\ depth[b] - 1 \in Depths
               /\ \/ at[b][depth[b] - 1] = "done" /\ pc'[b] = "r_done"
                  \/ at[b][depth[b] - 1] # "done" /\ pc'[b] = "r_apply"
         /\ \A c \in Slots : c # b =>
              pc'[c] = pc[c] /\ depth'[c] = depth[c] /\ at'[c] = at[c] /\ goal'[c] = goal[c]
<1> USE CallTypes
<1>1. depth[b] \in Depths
  BY DEF ReceiveReturn, IInv, Calls, CallOK, At, Receiving, Depths
<1>2. \A d \in Depths : d <= depth[b] - 1 => d # depth[b]
  BY DEF Depths
<1>3. depth'[b] = depth[b] - 1
  BY Zenon DEF ReceiveReturn
<1>4. \A d \in Depths : d # depth[b] => at'[b][d] = at[b][d]
  BY Zenon, <1>1 DEF ReceiveReturn
<1>5. \A d \in Depths : d # depth[b] => goal'[b][d] = goal[b][d]
  BY Zenon, <1>1 DEF ReceiveReturn
<1>6. \A c \in Slots : c # b => depth'[c] = depth[c] /\ at'[c] = at[c] /\ goal'[c] = goal[c]
  BY Zenon DEF ReceiveReturn
<1>7. \A c \in Slots : c # b => pc'[c] = pc[c]
  BY Zenon, GotoFacts DEF ReceiveReturn
<1>8. pc'[b] = IF depth[b] = 1 THEN "idle"
               ELSE IF at[b][depth[b] - 1] = "done" THEN "r_done" ELSE "r_apply"
  BY Zenon, GotoFacts DEF ReceiveReturn
<1>9. depth[b] # 1 => depth[b] - 1 \in Depths
  BY <1>1 DEF Depths
<1> QED
  BY Zenon, <1>1, <1>2, <1>3, <1>4, <1>5, <1>6, <1>7, <1>8, <1>9

LEMMA ResetFacts ==
  ASSUME IInv, NEW b \in Slots, GetReset(b)
  PROVE  /\ depth[b] \in Depths
         /\ \/ pc'[b] = "r_done" /\ UNCHANGED calls
            \/ /\ depth[b] + 1 \in Depths /\ depth'[b] = depth[b] + 1 /\ pc'[b] = "r_apply"
               /\ at'[b][depth[b] + 1] = "pending" /\ goal'[b][depth[b] + 1] = queued
               /\ at'[b][depth[b]] = "done"
               /\ \A d \in Depths : d <= depth[b] => goal'[b][d] = goal[b][d]
               /\ \A d \in Depths : d <= depth[b] /\ d # depth[b] => at'[b][d] = at[b][d]
         /\ \A c \in Slots : c # b =>
              pc'[c] = pc[c] /\ depth'[c] = depth[c] /\ at'[c] = at[c] /\ goal'[c] = goal[c]
<1> USE CallTypes
<1>1. depth[b] \in Depths
  BY DEF GetReset, IInv, Calls, CallOK, At, Receiving, Depths
<1>2. CASE Goto(b, "r_done") /\ UNCHANGED calls
  BY Zenon, <1>1, <1>2, GotoFacts DEF calls
<1>3. CASE /\ depth[b] < MaxDepth
           /\ depth' = [depth EXCEPT ![b] = @ + 1]
           /\ at' = [at EXCEPT ![b] = [@ EXCEPT ![depth[b]] = "done", ![depth[b] + 1] = "pending"]]
           /\ goal' = [goal EXCEPT ![b][depth[b] + 1] = queued]
           /\ Goto(b, "r_apply")
  <2>1. depth[b] + 1 \in Depths /\ depth[b] # depth[b] + 1
    BY <1>3 DEF Depths
  <2>2. \A d \in Depths : d <= depth[b] => d # depth[b] + 1
    BY DEF Depths
  <2>3. depth'[b] = depth[b] + 1
    BY Zenon, <1>3
  <2>4. at'[b] = [at[b] EXCEPT ![depth[b]] = "done", ![depth[b] + 1] = "pending"]
    BY Zenon, <1>3
  <2>5. /\ at'[b][depth[b] + 1] = "pending" /\ at'[b][depth[b]] = "done"
        /\ \A d \in Depths : d # depth[b] /\ d # depth[b] + 1 => at'[b][d] = at[b][d]
    BY Zenon, <1>1, <2>1, <2>4
  <2>6. /\ goal'[b][depth[b] + 1] = queued
        /\ \A d \in Depths : d # depth[b] + 1 => goal'[b][d] = goal[b][d]
    BY Zenon, <1>3, <2>1
  <2>7. \A c \in Slots : c # b => depth'[c] = depth[c] /\ at'[c] = at[c] /\ goal'[c] = goal[c]
    BY Zenon, <1>3
  <2>8. pc'[b] = "r_apply" /\ \A c \in Slots : c # b => pc'[c] = pc[c]
    BY Zenon, <1>3, GotoFacts
  <2> QED
    BY Zenon, <1>1, <2>1, <2>2, <2>3, <2>5, <2>6, <2>7, <2>8
<1> QED
  BY Zenon, <1>2, <1>3 DEF GetReset

LEMMA LoopEndFacts ==
  ASSUME IInv, NEW b \in Slots, LoopEnd(b)
  PROVE  /\ depth[b] \in Depths /\ UNCHANGED <<depth, goal>> /\ pc[b] = "r_apply"
         /\ \/ /\ at'[b][depth[b]] = "loop" /\ pc'[b] = "r_get"
               /\ nextmsg'[b] = 0 /\ nummsgs'[b] = 0
               /\ \A d \in Depths : d # depth[b] => at'[b][d] = at[b][d]
            \/ /\ at'[b] = at[b] /\ pc'[b] = "r_done" /\ at[b][depth[b]] # "pending"
               /\ nextmsg'[b] = nextmsg[b] /\ nummsgs'[b] = nummsgs[b]
               /\ nummsgs[b] # MAXINVALMSGS
         /\ \A c \in Slots : c # b =>
              /\ pc'[c] = pc[c] /\ at'[c] = at[c]
              /\ nextmsg'[c] = nextmsg[c] /\ nummsgs'[c] = nummsgs[c]
<1> USE CallTypes
<1>1. depth[b] \in Depths /\ UNCHANGED <<depth, goal>> /\ pc[b] = "r_apply"
  BY DEF LoopEnd, IInv, Calls, CallOK, At, Receiving, Depths
<1>2. nextmsg \in [Slots -> Nat] /\ nummsgs \in [Slots -> Nat]
  BY Zenon DEF IInv, TypeOK
<1>3. CASE /\ at' = [at EXCEPT ![b][depth[b]] = "loop"]
           /\ nextmsg' = [nextmsg EXCEPT ![b] = 0]
           /\ nummsgs' = [nummsgs EXCEPT ![b] = 0]
           /\ Goto(b, "r_get")
  <2>1. /\ at'[b][depth[b]] = "loop"
        /\ \A d \in Depths : d # depth[b] => at'[b][d] = at[b][d]
    BY Zenon, <1>1, <1>3
  <2>2. /\ nextmsg'[b] = 0 /\ nummsgs'[b] = 0
        /\ \A c \in Slots : c # b =>
             at'[c] = at[c] /\ nextmsg'[c] = nextmsg[c] /\ nummsgs'[c] = nummsgs[c]
    BY Zenon, <1>2, <1>3
  <2>3. pc'[b] = "r_get" /\ \A c \in Slots : c # b => pc'[c] = pc[c]
    BY Zenon, <1>3, GotoFacts
  <2> QED
    BY Zenon, <1>1, <2>1, <2>2, <2>3
<1>4. CASE /\ ~ (at[b][depth[b]] = "pending" \/ nummsgs[b] = MAXINVALMSGS)
           /\ Goto(b, "r_done") /\ UNCHANGED <<at, nextmsg, nummsgs>>
  BY Zenon, <1>1, <1>4, GotoFacts
<1> QED
  BY Zenon, <1>3, <1>4 DEF LoopEnd

LEMMA ArrayTypes ==
  IInv => /\ nextmsg \in [Slots -> Nat] /\ nummsgs \in [Slots -> Nat] /\ seen \in [Slots -> Int]
          /\ messages \in [Slots -> [1 .. MAXINVALMSGS -> Int]] /\ MAXINVALMSGS \in Nat \ {0}
  BY Zenon, ConstantsAssumption DEF IInv, TypeOK

\* An action of backend b leaves the other backends' own state alone.
KeepsOther(c) ==
  /\ pc'[c] = pc[c] /\ nthistime'[c] = nthistime[c] /\ kick'[c] = kick[c]
  /\ max'[c] = max[c] /\ messages'[c] = messages[c] /\ nextmsg'[c] = nextmsg[c]
  /\ nummsgs'[c] = nummsgs[c] /\ seen'[c] = seen[c] /\ depth'[c] = depth[c]
  /\ at'[c] = at[c] /\ goal'[c] = goal[c] /\ procPid'[c] = procPid[c]

LEMMA OthersKept == ASSUME IInv, NEW b \in Slots, Action(b), NEW c \in Slots, c # b PROVE KeepsOther(c)
<1> USE GotoFacts DEF KeepsOther, shared, seg, reading, writing, calls
<1>0. /\ nthistime \in [Slots -> 0 .. WRITE_QUANTUM] /\ kick \in [Slots -> Nat] /\ procPid \in [Slots -> Nat]
      /\ max \in [Slots -> Int]
  BY Zenon DEF IInv, TypeOK
<1> USE <1>0, ArrayTypes, CallTypes
<1>1. CASE SharedInvalBackendInit(b)
  BY Zenon, <1>1 DEF SharedInvalBackendInit
<1>2. CASE CleanupInvalidationState(b)
  BY Zenon, <1>2 DEF CleanupInvalidationState
<1>3. CASE SendSharedInvalidMessages(b)
  BY Zenon, <1>3 DEF SendSharedInvalidMessages
<1>4. CASE ReceiveSharedInvalidMessages(b)
  BY Zenon, <1>4 DEF ReceiveSharedInvalidMessages, Enter
<1>5. CASE InsertLock(b)
  BY Zenon, <1>5 DEF InsertLock
<1>6. CASE InsertCleanup(b)
  BY Zenon, <1>6 DEF InsertCleanup, SICleanupQueue
<1>7. CASE InsertWrite(b)
  BY Zenon, <1>7 DEF InsertWrite
<1>8. CASE InsertPublish(b)
  BY Zenon, <1>8 DEF InsertPublish
<1>9. CASE InsertKick(b)
  BY Zenon, <1>9 DEF InsertKick
<1>10. CASE InsertDone(b)
  BY Zenon, <1>10 DEF InsertDone
<1>11. CASE Apply(b)
  <2>1. /\ nthistime' = nthistime /\ kick' = kick /\ procPid' = procPid /\ max' = max
        /\ messages' = messages /\ nummsgs' = nummsgs /\ nextmsg'[c] = nextmsg[c] /\ seen'[c] = seen[c]
    BY Zenon, <1>11 DEF Apply
  <2>2. pc'[c] = pc[c] /\ depth'[c] = depth[c] /\ at'[c] = at[c] /\ goal'[c] = goal[c]
    BY ZenonT(30), <1>11 DEF Apply, Enter
  <2> QED
    BY Zenon, <2>1, <2>2
<1>12. CASE LoopEnd(b)
  BY Zenon, <1>12 DEF LoopEnd
<1>13. CASE GetNothing(b)
  BY Zenon, <1>13 DEF GetNothing
<1>14. CASE GetLock(b)
  BY Zenon, <1>14 DEF GetLock
<1>15. CASE GetMax(b)
  BY Zenon, <1>15 DEF GetMax
<1>16. CASE GetReset(b)
  BY Zenon, <1>16 DEF GetReset
<1>17. CASE GetCopy(b)
  BY Zenon, <1>17 DEF GetCopy
<1>18. CASE CaughtUp(b)
  BY Zenon, <1>18 DEF CaughtUp
<1>19. CASE ReceiveCleanup(b)
  BY Zenon, <1>19 DEF ReceiveCleanup, SICleanupQueue
<1>20. CASE ReceiveReturn(b)
  BY Zenon, <1>20 DEF ReceiveReturn
<1>21. CASE SendProcSignal(b)
  BY Zenon, <1>21 DEF SendProcSignal
<1> QED
  BY Zenon, <1>1, <1>2, <1>3, <1>4, <1>5, <1>6, <1>7, <1>8, <1>9, <1>10, <1>11, <1>12, <1>13, <1>14,
     <1>15, <1>16, <1>17, <1>18, <1>19, <1>20, <1>21 DEF Action, Step

LEMMA OtherSlots ==
  ASSUME IInv, NEW b \in Slots, Action(b), NEW c \in Slots, c # b
  PROVE  /\ pc'[c] = pc[c] /\ nthistime'[c] = nthistime[c] /\ kick'[c] = kick[c]
         /\ max'[c] = max[c] /\ messages'[c] = messages[c] /\ nextmsg'[c] = nextmsg[c]
         /\ nummsgs'[c] = nummsgs[c] /\ seen'[c] = seen[c] /\ depth'[c] = depth[c]
         /\ at'[c] = at[c] /\ goal'[c] = goal[c] /\ procPid'[c] = procPid[c]
  BY Zenon, OthersKept DEF KeepsOther

\* Which actions touch what: the others leave it alone.
Framed(b) ==
  /\ \/ SharedInvalBackendInit(b) \/ CleanupInvalidationState(b)
     \/ /\ UNCHANGED <<procPid, lastPid, lastBackend>> /\ pc[b] # "off" /\ pc'[b] # "off"
        /\ Receiving(b)' => ~sendOnly(b)
  /\ \/ ReceiveSharedInvalidMessages(b) \/ Apply(b) \/ LoopEnd(b) \/ GetReset(b) \/ ReceiveReturn(b)
     \/ SharedInvalBackendInit(b)
     \/ /\ UNCHANGED <<depth, at, goal>> /\ (Receiving(b)' <=> Receiving(b))
        /\ pc'[b] = "r_apply" => pc[b] = "r_copy"
        /\ pc'[b] \in {"r_get", "r_max", "r_copy"} => pc[b] \in {"r_get", "r_max", "r_copy"}
  /\ \/ SharedInvalBackendInit(b) \/ Apply(b) \/ LoopEnd(b) \/ GetReset(b) \/ GetCopy(b)
     \/ /\ UNCHANGED <<messages, nextmsg, nummsgs, seen>>
        /\ pc'[b] \in {"r_get", "r_max", "r_copy"} => pc[b] \in {"r_get", "r_max", "r_copy"}
        /\ pc'[b] \in {"r_done", "r_clean", "r_sig", "r_ret"} =>
             pc[b] \in {"r_get", "r_done", "r_clean", "r_sig", "r_ret"}
  /\ \/ InsertCleanup(b) \/ ReceiveCleanup(b) \/ InsertWrite(b) \/ InsertPublish(b)
     \/ UNCHANGED <<minMsgNum, maxMsgNum, base, buffer>> /\ pc'[b] # "w_publish"
  /\ \/ SharedInvalBackendInit(b) \/ CleanupInvalidationState(b) \/ InsertCleanup(b)
     \/ ReceiveCleanup(b) \/ InsertPublish(b) \/ Apply(b) \/ LoopEnd(b) \/ GetMax(b)
     \/ GetReset(b) \/ GetCopy(b)
     \/ /\ UNCHANGED <<seen, nextmsg, nummsgs, procPid, nextMsgNum, resetState, base, maxMsgNum>>
        /\ pc'[b] # "r_copy"

LEMMA Frame == ASSUME IInv, NEW b \in Slots, Action(b) PROVE Framed(b)
<1>1. CASE SharedInvalBackendInit(b)
  <2>1. pc[b] = "off" /\ pc'[b] = "idle"
    BY Zenon, <1>1, GotoFacts, FreeIsOff DEF SharedInvalBackendInit, At
  <2>2. UNCHANGED <<minMsgNum, maxMsgNum, base, buffer>>
    BY Zenon, <1>1 DEF SharedInvalBackendInit, shared, seg, reading, cursor, calls
  <2> QED
    BY Zenon, <1>1, <2>1, <2>2 DEF Framed, Receiving, sendOnly, IInv, Connected
<1>2. CASE CleanupInvalidationState(b)
  <2>1. pc[b] = "idle" /\ pc'[b] = "off"
    BY Zenon, <1>2, GotoFacts DEF CleanupInvalidationState, At
  <2>2. UNCHANGED <<lastPid, depth, at, goal, messages, nextmsg, nummsgs, seen, minMsgNum,
                    maxMsgNum, base, buffer>>
    BY Zenon, <1>2 DEF CleanupInvalidationState, shared, seg, reading, cursor, calls
  <2> QED
    BY Zenon, <1>2, <2>1, <2>2 DEF Framed, Receiving, sendOnly, IInv, Connected
<1>3. CASE SendSharedInvalidMessages(b)
  <2>1. pc[b] = "idle" /\ pc'[b] = "w_lock"
    BY Zenon, <1>3, GotoFacts DEF SendSharedInvalidMessages, At
  <2>2. UNCHANGED <<procPid, lastPid, lastBackend, depth, at, goal, messages, nextmsg, nummsgs,
                    seen, minMsgNum, maxMsgNum, base, buffer, nextMsgNum, resetState>>
    BY Zenon, <1>3 DEF SendSharedInvalidMessages, shared, seg, reading, cursor, calls
  <2> QED
    BY Zenon, <1>3, <2>1, <2>2 DEF Framed, Receiving, sendOnly, IInv, Connected
<1>4. CASE ReceiveSharedInvalidMessages(b)
  <2>1. pc[b] = "idle" /\ pc'[b] = "r_apply" /\ ~sendOnly(b)
    BY Zenon, <1>4, GotoFacts DEF ReceiveSharedInvalidMessages, At, Enter
  <2>2. UNCHANGED <<procPid, lastPid, lastBackend, messages, nextmsg, nummsgs, seen, minMsgNum,
                    maxMsgNum, base, buffer, nextMsgNum, resetState>>
    BY Zenon, <1>4 DEF ReceiveSharedInvalidMessages, shared, seg, reading, cursor, calls
  <2> QED
    BY Zenon, <1>4, <2>1, <2>2 DEF Framed, Receiving, sendOnly, IInv, Connected
<1>5. CASE InsertLock(b)
  <2>1. pc[b] = "w_lock" /\ pc'[b] = "w_loop"
    BY Zenon, <1>5, GotoFacts DEF InsertLock, At
  <2>2. UNCHANGED <<procPid, lastPid, lastBackend, depth, at, goal, messages, nextmsg, nummsgs,
                    seen, minMsgNum, maxMsgNum, base, buffer, nextMsgNum, resetState>>
    BY Zenon, <1>5 DEF InsertLock, shared, seg, reading, cursor, calls
  <2> QED
    BY Zenon, <1>5, <2>1, <2>2 DEF Framed, Receiving, sendOnly, IInv, Connected
<1>6. CASE InsertCleanup(b)
  <2>1. pc[b] = "w_loop" /\ pc'[b] \in {"w_sig", "w_loop"}
    BY Zenon, <1>6, GotoFacts DEF InsertCleanup, At, SICleanupQueue
  <2>2. UNCHANGED <<procPid, lastPid, lastBackend, depth, at, goal, messages, nextmsg, nummsgs,
                    seen, buffer>>
    BY Zenon, <1>6 DEF InsertCleanup, SICleanupQueue, shared, seg, reading, cursor, calls
  <2> QED
    BY Zenon, <1>6, <2>1, <2>2 DEF Framed, Receiving, sendOnly, IInv, Connected
<1>7. CASE InsertWrite(b)
  <2>1. pc[b] = "w_loop" /\ pc'[b] = "w_publish"
    BY Zenon, <1>7, GotoFacts DEF InsertWrite, At
  <2>2. UNCHANGED <<procPid, lastPid, lastBackend, depth, at, goal, messages, nextmsg, nummsgs,
                    seen, minMsgNum, maxMsgNum, base, nextMsgNum, resetState>>
    BY Zenon, <1>7 DEF InsertWrite, shared, seg, reading, cursor, calls
  <2> QED
    BY Zenon, <1>7, <2>1, <2>2 DEF Framed, Receiving, sendOnly, IInv, Connected
<1>8. CASE InsertPublish(b)
  <2>1. pc[b] = "w_publish" /\ pc'[b] = "w_kick"
    BY Zenon, <1>8, GotoFacts DEF InsertPublish, At
  <2>2. UNCHANGED <<procPid, lastPid, lastBackend, depth, at, goal, messages, nextmsg, nummsgs,
                    seen, minMsgNum, base, buffer, nextMsgNum, resetState>>
    BY Zenon, <1>8 DEF InsertPublish, shared, seg, reading, cursor, calls
  <2> QED
    BY Zenon, <1>8, <2>1, <2>2 DEF Framed, Receiving, sendOnly, IInv, Connected
<1>9. CASE InsertKick(b)
  <2>1. pc[b] = "w_kick" /\ pc'[b] = "w_kick"
    BY Zenon, <1>9, GotoFacts DEF InsertKick, At
  <2>2. UNCHANGED <<procPid, lastPid, lastBackend, depth, at, goal, messages, nextmsg, nummsgs,
                    seen, minMsgNum, maxMsgNum, base, buffer, nextMsgNum, resetState>>
    BY Zenon, <1>9 DEF InsertKick, shared, seg, reading, cursor, calls
  <2> QED
    BY Zenon, <1>9, <2>1, <2>2 DEF Framed, Receiving, sendOnly, IInv, Connected
<1>10. CASE InsertDone(b)
  <2>1. pc[b] = "w_kick" /\ pc'[b] \in {"w_lock", "idle"}
    BY Zenon, <1>10, GotoFacts DEF InsertDone, At
  <2>2. UNCHANGED <<procPid, lastPid, lastBackend, depth, at, goal, messages, nextmsg, nummsgs,
                    seen, minMsgNum, maxMsgNum, base, buffer, nextMsgNum, resetState>>
    BY Zenon, <1>10 DEF InsertDone, shared, seg, reading, cursor, calls
  <2> QED
    BY Zenon, <1>10, <2>1, <2>2 DEF Framed, Receiving, sendOnly, IInv, Connected
<1>11. CASE Apply(b)
  <2>1. pc[b] = "r_apply" /\ pc'[b] \in {"r_apply", "idle"}
    BY Zenon, <1>11, GotoFacts DEF Apply, At, Enter
  <2>2. UNCHANGED <<procPid, lastPid, lastBackend, messages, nummsgs, minMsgNum, maxMsgNum, base,
                    buffer, nextMsgNum, resetState>>
    BY Zenon, <1>11 DEF Apply, shared, seg, reading, cursor, calls
  <2> QED
    BY Zenon, <1>11, <2>1, <2>2 DEF Framed, Receiving, sendOnly, IInv, Connected
<1>12. CASE LoopEnd(b)
  <2>1. pc[b] = "r_apply" /\ pc'[b] \in {"r_get", "r_done"}
    BY Zenon, <1>12, GotoFacts, LoopEndFacts DEF LoopEnd, At
  <2>2. UNCHANGED <<procPid, lastPid, lastBackend, depth, goal, seen, minMsgNum, maxMsgNum, base,
                    buffer, nextMsgNum, resetState>>
    BY Zenon, <1>12 DEF LoopEnd, shared, seg, reading, cursor, calls
  <2> QED
    BY Zenon, <1>12, <2>1, <2>2 DEF Framed, Receiving, sendOnly, IInv, Connected
<1>13. CASE GetNothing(b)
  <2>1. pc[b] = "r_get" /\ pc'[b] = "r_done"
    BY Zenon, <1>13, GotoFacts DEF GetNothing, At
  <2>2. UNCHANGED <<procPid, lastPid, lastBackend, depth, at, goal, messages, nextmsg, nummsgs,
                    seen, minMsgNum, maxMsgNum, base, buffer, nextMsgNum, resetState>>
    BY Zenon, <1>13 DEF GetNothing, shared, seg, reading, cursor, calls
  <2> QED
    BY Zenon, <1>13, <2>1, <2>2 DEF Framed, Receiving, sendOnly, IInv, Connected
<1>14. CASE GetLock(b)
  <2>1. pc[b] = "r_get" /\ pc'[b] = "r_max"
    BY Zenon, <1>14, GotoFacts DEF GetLock, At
  <2>2. UNCHANGED <<procPid, lastPid, lastBackend, depth, at, goal, messages, nextmsg, nummsgs,
                    seen, minMsgNum, maxMsgNum, base, buffer, nextMsgNum, resetState>>
    BY Zenon, <1>14 DEF GetLock, shared, seg, reading, cursor, calls
  <2> QED
    BY Zenon, <1>14, <2>1, <2>2 DEF Framed, Receiving, sendOnly, IInv, Connected
<1>15. CASE GetMax(b)
  <2>1. pc[b] = "r_max" /\ pc'[b] = "r_copy"
    BY Zenon, <1>15, GotoFacts DEF GetMax, At
  <2>2. UNCHANGED <<procPid, lastPid, lastBackend, depth, at, goal, messages, nextmsg, nummsgs,
                    seen, minMsgNum, maxMsgNum, base, buffer, nextMsgNum, resetState>>
    BY Zenon, <1>15 DEF GetMax, shared, seg, reading, cursor, calls
  <2> QED
    BY Zenon, <1>15, <2>1, <2>2 DEF Framed, Receiving, sendOnly, IInv, Connected
<1>16. CASE GetReset(b)
  <2>1. pc[b] = "r_copy" /\ pc'[b] \in {"r_done", "r_apply"}
    BY Zenon, <1>16, GotoFacts, ResetFacts DEF GetReset, At
  <2>2. UNCHANGED <<procPid, lastPid, lastBackend, messages, nextmsg, nummsgs, minMsgNum,
                    maxMsgNum, base, buffer>>
    BY Zenon, <1>16 DEF GetReset, shared, seg, reading, cursor, calls
  <2> QED
    BY Zenon, <1>16, <2>1, <2>2 DEF Framed, Receiving, sendOnly, IInv, Connected
<1>17. CASE GetCopy(b)
  <2>1. pc[b] = "r_copy" /\ pc'[b] = "r_apply"
    BY Zenon, <1>17, GotoFacts DEF GetCopy, At
  <2>2. UNCHANGED <<procPid, lastPid, lastBackend, depth, at, goal, nextmsg, seen, minMsgNum,
                    maxMsgNum, base, buffer, resetState>>
    BY Zenon, <1>17 DEF GetCopy, shared, seg, reading, cursor, calls
  <2> QED
    BY Zenon, <1>17, <2>1, <2>2 DEF Framed, Receiving, sendOnly, IInv, Connected
<1>18. CASE CaughtUp(b)
  <2>1. pc[b] = "r_done" /\ pc'[b] \in {"r_clean", "r_ret"}
    BY Zenon, <1>18, GotoFacts DEF CaughtUp, At
  <2>2. UNCHANGED <<procPid, lastPid, lastBackend, depth, at, goal, messages, nextmsg, nummsgs,
                    seen, minMsgNum, maxMsgNum, base, buffer, nextMsgNum, resetState>>
    BY Zenon, <1>18 DEF CaughtUp, shared, seg, reading, cursor, calls
  <2> QED
    BY Zenon, <1>18, <2>1, <2>2 DEF Framed, Receiving, sendOnly, IInv, Connected
<1>19. CASE ReceiveCleanup(b)
  <2>1. pc[b] = "r_clean" /\ pc'[b] \in {"r_sig", "r_ret"}
    BY Zenon, <1>19, GotoFacts DEF ReceiveCleanup, At, SICleanupQueue
  <2>2. UNCHANGED <<procPid, lastPid, lastBackend, depth, at, goal, messages, nextmsg, nummsgs,
                    seen, buffer>>
    BY Zenon, <1>19 DEF ReceiveCleanup, SICleanupQueue, shared, seg, reading, cursor, calls
  <2> QED
    BY Zenon, <1>19, <2>1, <2>2 DEF Framed, Receiving, sendOnly, IInv, Connected
<1>20. CASE ReceiveReturn(b)
  <2>1. pc[b] = "r_ret" /\ pc'[b] \in {"idle", "r_done", "r_apply"}
    BY Zenon, <1>20, GotoFacts, ReturnFacts DEF ReceiveReturn, At
  <2>2. UNCHANGED <<procPid, lastPid, lastBackend, messages, nextmsg, nummsgs, seen, minMsgNum,
                    maxMsgNum, base, buffer, nextMsgNum, resetState>>
    BY Zenon, <1>20 DEF ReceiveReturn, shared, seg, reading, cursor, calls
  <2> QED
    BY Zenon, <1>20, <2>1, <2>2 DEF Framed, Receiving, sendOnly, IInv, Connected
<1>21. CASE SendProcSignal(b)
  <2>0. pc[b] \in {"w_sig", "r_sig"} /\ pc'[b] = IF pc[b] = "w_sig" THEN "w_lock" ELSE "r_ret"
    BY Zenon, <1>21, GotoFacts DEF SendProcSignal, At
  <2>1. (pc[b] = "w_sig" /\ pc'[b] = "w_lock") \/ (pc[b] = "r_sig" /\ pc'[b] = "r_ret")
    BY Zenon, <2>0
  <2>2. UNCHANGED <<procPid, lastPid, lastBackend, depth, at, goal, messages, nextmsg, nummsgs,
                    seen, minMsgNum, maxMsgNum, base, buffer, nextMsgNum, resetState>>
    BY Zenon, <1>21 DEF SendProcSignal, shared, seg, reading, cursor, calls
  <2> QED
    BY Zenon, <1>21, <2>1, <2>2 DEF Framed, Receiving, sendOnly, IInv, Connected
<1> QED
  BY Zenon, <1>1, <1>2, <1>3, <1>4, <1>5, <1>6, <1>7, <1>8, <1>9, <1>10, <1>11, <1>12, <1>13, <1>14,
     <1>15, <1>16, <1>17, <1>18, <1>19, <1>20, <1>21 DEF Action, Step

LEMMA LockingStep == ASSUME IInv, NEW b \in Slots, Action(b) PROVE Locking'
<1> USE GotoFacts, SlotFacts DEF At, shared, Locking
<1>0. Locking
  BY Zenon DEF IInv
<1> USE <1>0
<1>1. CASE SharedInvalBackendInit(b)
  BY Zenon, <1>1 DEF SharedInvalBackendInit
<1>2. CASE CleanupInvalidationState(b)
  BY Zenon, <1>2 DEF CleanupInvalidationState
<1>3. CASE SendSharedInvalidMessages(b)
  BY ZenonT(30), <1>3 DEF SendSharedInvalidMessages
<1>4. CASE ReceiveSharedInvalidMessages(b)
  BY Zenon, <1>4 DEF ReceiveSharedInvalidMessages, Enter
<1>5. CASE InsertLock(b)
  BY Zenon, <1>5 DEF InsertLock
<1>6. CASE InsertCleanup(b)
  BY <1>6 DEF InsertCleanup, SICleanupQueue
<1>7. CASE InsertWrite(b)
  BY Zenon, <1>7 DEF InsertWrite
<1>8. CASE InsertPublish(b)
  BY Zenon, <1>8 DEF InsertPublish
<1>9. CASE InsertKick(b)
  BY Zenon, <1>9 DEF InsertKick
<1>10. CASE InsertDone(b)
  BY <1>10 DEF InsertDone
<1>11. CASE Apply(b)
  BY Zenon, <1>11 DEF Apply, Enter
<1>12. CASE LoopEnd(b)
  BY <1>12 DEF LoopEnd
<1>13. CASE GetNothing(b)
  BY Zenon, <1>13 DEF GetNothing
<1>14. CASE GetLock(b)
  BY Zenon, <1>14 DEF GetLock
<1>15. CASE GetMax(b)
  BY Zenon, <1>15 DEF GetMax
<1>16. CASE GetReset(b)
  BY ZenonT(30), <1>16 DEF GetReset
<1>17. CASE GetCopy(b)
  BY Zenon, <1>17 DEF GetCopy
<1>18. CASE CaughtUp(b)
  BY <1>18 DEF CaughtUp
<1>19. CASE ReceiveCleanup(b)
  BY ZenonT(30), <1>19 DEF ReceiveCleanup, SICleanupQueue
<1>20. CASE ReceiveReturn(b)
  BY <1>20 DEF ReceiveReturn
<1>21. CASE SendProcSignal(b)
  BY Zenon, <1>21 DEF SendProcSignal
<1> QED
  BY Zenon, <1>1, <1>2, <1>3, <1>4, <1>5, <1>6, <1>7, <1>8, <1>9, <1>10, <1>11, <1>12, <1>13, <1>14,
     <1>15, <1>16, <1>17, <1>18, <1>19, <1>20, <1>21 DEF Action, Step

LEMMA ConnectedStep == ASSUME IInv, NEW b \in Slots, Action(b) PROVE Connected'
<1> USE GotoFacts DEF At, Connected, Receiving, sendOnly
<1>0. /\ Connected
      /\ procPid \in [Slots -> Nat] /\ lastPid \in Nat /\ lastBackend \in 0 .. MaxBackends
  BY Zenon DEF IInv, TypeOK
<1>1. CASE SharedInvalBackendInit(b)
  <2>1. procPid'[b] = lastPid + 1 /\ \A c \in Slots : c # b => procPid'[c] = procPid[c]
    BY Zenon, <1>0, <1>1 DEF SharedInvalBackendInit
  <2>2. b <= lastBackend' /\ lastBackend <= lastBackend'
    BY <1>0, <1>1, SlotFacts DEF SharedInvalBackendInit
  <2>3. pc'[b] = "idle" /\ \A c \in Slots : c # b => pc'[c] = pc[c]
    BY Zenon, <1>1 DEF SharedInvalBackendInit
  <2>4. lastBackend' \in Nat
    BY <1>0, <1>1, SlotFacts DEF SharedInvalBackendInit
  <2> QED
    BY <1>0, <2>1, <2>2, <2>3, <2>4, SlotFacts
<1>2. CASE CleanupInvalidationState(b)
  <2>1. procPid'[b] = 0 /\ \A c \in Slots : c # b => procPid'[c] = procPid[c]
    BY Zenon, <1>0, <1>2 DEF CleanupInvalidationState
  <2>2. pc'[b] = "off" /\ \A c \in Slots : c # b => pc'[c] = pc[c]
    BY Zenon, <1>2 DEF CleanupInvalidationState
  <2>3. \A c \in Slots : c # b /\ procPid[c] # 0 => c <= lastBackend'
    BY <1>0, <1>2, SlotFacts DEF CleanupInvalidationState
  <2> QED
    BY Zenon, <1>0, <2>1, <2>2, <2>3
<1>3. CASE /\ UNCHANGED <<procPid, lastPid, lastBackend>> /\ pc[b] # "off" /\ pc'[b] # "off"
           /\ Receiving(b)' => ~sendOnly(b)
  <2>1. \A c \in Slots : c # b => pc'[c] = pc[c]
    BY Zenon, OtherSlots
  <2> QED
    BY Zenon, <1>0, <1>3, <2>1
<1> QED
  BY Zenon, <1>1, <1>2, <1>3, Frame DEF Framed

LEMMA CallsStep == ASSUME IInv, NEW b \in Slots, Action(b) PROVE Calls'
<1> SUFFICES CallOK(b)'
  <2>1. ASSUME NEW c \in Slots, c # b PROVE CallOK(c)'
    <3>1. pc'[c] = pc[c] /\ depth'[c] = depth[c] /\ at'[c] = at[c] /\ CallOK(c)
      BY Zenon, <2>1, OtherSlots DEF IInv, Calls
    <3> QED
      BY Zenon, <3>1 DEF CallOK, Receiving, At
  <2> QED
    BY Zenon, <2>1 DEF Calls
<1>0. CallOK(b) /\ depth[b] \in Nat
  BY CallTypes DEF IInv, Calls
<1>1. CASE SharedInvalBackendInit(b)
  <2>1. pc[b] = "off" /\ pc'[b] = "idle"
    BY Zenon, <1>1, FreeIsOff, GotoFacts DEF SharedInvalBackendInit
  <2>2. depth' = depth /\ at' = at
    BY Zenon, <1>1 DEF SharedInvalBackendInit, reading, calls
  <2> QED
    BY Zenon, <1>0, <2>1, <2>2 DEF CallOK, Receiving, At
<1>2. CASE Enter(b)
  <2>1. /\ depth'[b] = depth[b] + 1 /\ depth'[b] > 0 /\ pc'[b] = "r_apply"
        /\ at'[b][depth[b] + 1] = "pending"
        /\ \A d \in Depths : d <= depth[b] => at'[b][d] = at[b][d]
    BY <1>2, EnterFacts
  <2>2. \A d \in Depths : d <= depth[b] + 1 => d <= depth[b] \/ d = depth[b] + 1
    BY <1>0 DEF Depths
  <2>3. \A d \in Depths : d <= depth[b] => at[b][d] # "none"
    BY Zenon, <1>0 DEF CallOK
  <2>4. \A d \in Depths : d <= depth'[b] => at'[b][d] # "none"
    BY Zenon, <2>1, <2>2, <2>3
  <2> QED
    BY Zenon, <2>1, <2>4 DEF CallOK, Receiving, At
<1>3. CASE Apply(b)
  <2>1. CASE UNCHANGED <<pc, calls>>
    BY Zenon, <1>0, <2>1 DEF calls, CallOK, Receiving, At
  <2>2. CASE Goto(b, "idle") /\ depth' = [depth EXCEPT ![b] = 0]
    <3>1. depth'[b] = 0 /\ pc'[b] = "idle"
      BY Zenon, <2>2, CallTypes, GotoFacts
    <3>2. \A d \in Depths : ~ (d <= 0)
      BY DEF Depths
    <3> QED
      BY Zenon, <3>1, <3>2 DEF CallOK, Receiving, At
  <2> QED
    BY Zenon, <1>2, <1>3, <2>1, <2>2 DEF Apply
<1>4. CASE LoopEnd(b)
  <2>1. /\ depth[b] \in Depths /\ depth' = depth /\ pc[b] = "r_apply"
        /\ \/ /\ at'[b][depth[b]] = "loop" /\ pc'[b] = "r_get"
              /\ \A d \in Depths : d # depth[b] => at'[b][d] = at[b][d]
           \/ at'[b] = at[b] /\ pc'[b] = "r_done"
    BY Zenon, <1>4, LoopEndFacts
  <2>2. depth[b] > 0 /\ \A d \in Depths : d <= depth[b] => at[b][d] # "none"
    BY Zenon, <1>0, <2>1 DEF CallOK, Receiving
  <2>3. \A d \in Depths : d <= depth[b] => at'[b][d] # "none"
    BY Zenon, <2>1, <2>2
  <2> QED
    BY Zenon, <2>1, <2>2, <2>3 DEF CallOK, Receiving, At
<1>5. CASE GetReset(b)
  <2>1. pc[b] = "r_copy"
    BY Zenon, <1>5 DEF GetReset, At
  <2>2. depth[b] > 0 /\ \A d \in Depths : d <= depth[b] => at[b][d] # "none"
    BY Zenon, <1>0, <2>1 DEF CallOK, Receiving
  <2>3. CASE pc'[b] = "r_done" /\ UNCHANGED calls
    BY Zenon, <2>2, <2>3 DEF calls, CallOK, Receiving, At
  <2>4. CASE /\ depth'[b] = depth[b] + 1 /\ pc'[b] = "r_apply"
             /\ at'[b][depth[b] + 1] = "pending" /\ at'[b][depth[b]] = "done"
             /\ \A d \in Depths : d <= depth[b] /\ d # depth[b] => at'[b][d] = at[b][d]
    <3>1. \A d \in Depths : d <= depth[b] + 1 => d <= depth[b] \/ d = depth[b] + 1
      BY <1>0 DEF Depths
    <3>2. \A d \in Depths : d <= depth'[b] => at'[b][d] # "none"
      BY Zenon, <2>2, <2>4, <3>1
    <3>3. depth[b] + 1 > 0
      BY <1>0
    <3> QED
      BY Zenon, <2>4, <3>2, <3>3 DEF CallOK, Receiving, At
  <2> QED
    BY Zenon, <1>5, <2>3, <2>4, ResetFacts
<1>6. CASE ReceiveReturn(b)
  <2>1. /\ depth[b] \in Depths /\ depth'[b] = depth[b] - 1
        /\ \A d \in Depths : d <= depth[b] - 1 => at'[b][d] = at[b][d]
        /\ \/ depth[b] = 1 /\ pc'[b] = "idle"
           \/ /\ depth[b] - 1 \in Depths
              /\ \/ at[b][depth[b] - 1] = "done" /\ pc'[b] = "r_done"
                 \/ at[b][depth[b] - 1] # "done" /\ pc'[b] = "r_apply"
    BY Zenon, <1>6, ReturnFacts
  <2>2. /\ depth[b] # 1 => depth[b] - 1 > 0 /\ depth[b] - 1 <= depth[b] - 1 /\ depth[b] - 1 <= depth[b]
        /\ depth[b] = 1 => depth[b] - 1 = 0
        /\ \A d \in Depths : d <= depth[b] - 1 => d <= depth[b]
        /\ \A d \in Depths : ~ (d <= 0) /\ (d = 1 => d - 1 = 0)
    BY <1>0, <2>1 DEF Depths
  <2>3. \A d \in Depths : d <= depth[b] => at[b][d] # "none"
    BY Zenon, <1>0 DEF CallOK
  <2>4. \A d \in Depths : d <= depth'[b] => at'[b][d] # "none"
    BY Zenon, <2>1, <2>2, <2>3
  <2>5. CASE depth[b] = 1 /\ pc'[b] = "idle"
    <3>1. depth'[b] = 0
      BY Zenon, <2>1, <2>2, <2>5
    <3> QED
      BY Zenon, <2>4, <2>5, <3>1 DEF CallOK, Receiving, At
  <2>6. CASE /\ depth[b] - 1 \in Depths
             /\ \/ at[b][depth[b] - 1] = "done" /\ pc'[b] = "r_done"
                \/ at[b][depth[b] - 1] # "done" /\ pc'[b] = "r_apply"
    <3>1. depth[b] # 1
      BY <2>6 DEF Depths
    <3>2. depth'[b] > 0 /\ at'[b][depth'[b]] = at[b][depth[b] - 1]
      BY Zenon, <2>1, <2>2, <2>6, <3>1
    <3>3. at[b][depth[b] - 1] \in {"none", "pending", "loop", "done"} /\ at[b][depth[b] - 1] # "none"
      BY Zenon, <2>2, <2>3, <2>6, <3>1, CallTypes
    <3> QED
      BY Zenon, <2>4, <2>6, <3>2, <3>3 DEF CallOK, Receiving, At
  <2> QED
    BY Zenon, <2>1, <2>5, <2>6
<1>7. CASE /\ UNCHANGED <<depth, at, goal>> /\ (Receiving(b)' <=> Receiving(b))
           /\ pc'[b] = "r_apply" => pc[b] = "r_copy"
           /\ pc'[b] \in {"r_get", "r_max", "r_copy"} => pc[b] \in {"r_get", "r_max", "r_copy"}
  BY Zenon, <1>0, <1>7 DEF CallOK, Receiving, At
<1> QED
  BY Zenon, <1>1, <1>2, <1>3, <1>4, <1>5, <1>6, <1>7, Frame DEF Framed, ReceiveSharedInvalidMessages

\* The message Apply handles is the one that is due.
LEMMA ApplyFacts ==
  ASSUME IInv, NEW b \in Slots, Apply(b)
  PROVE  /\ nextmsg[b] + 1 \in 1 .. MAXINVALMSGS /\ nextmsg[b] < nummsgs[b]
         /\ seen'[b] = seen[b] + 1 /\ nextmsg'[b] = nextmsg[b] + 1
         /\ UNCHANGED <<messages, nummsgs>>
         /\ \A c \in Slots : c # b => seen'[c] = seen[c] /\ nextmsg'[c] = nextmsg[c] /\ pc'[c] = pc[c]
         /\ pc[b] = "r_apply" /\ pc'[b] \in {"r_apply", "idle"}
<1> USE ArrayTypes
<1>1. nextmsg[b] < nummsgs[b] /\ nummsgs[b] <= MAXINVALMSGS
  BY Zenon DEF Apply, IInv, Arrays, ArrayOK
<1>2. nextmsg[b] + 1 \in 1 .. MAXINVALMSGS
  BY <1>1
<1>3. \A k \in 1 .. MAXINVALMSGS : nextmsg[b] < k /\ k <= nummsgs[b] =>
        messages[b][k] = seen[b] + (k - nextmsg[b] - 1)
  BY Zenon DEF IInv, Arrays, ArrayOK
<1>4. messages[b][nextmsg[b] + 1] = seen[b]
  <2>1. nextmsg[b] \in Nat /\ nummsgs[b] \in Nat /\ seen[b] \in Int
    BY Zenon
  <2>2. nextmsg[b] < nextmsg[b] + 1 /\ nextmsg[b] + 1 <= nummsgs[b]
    BY <1>1, <2>1
  <2>3. messages[b][nextmsg[b] + 1] = seen[b] + ((nextmsg[b] + 1) - nextmsg[b] - 1)
    BY Zenon, <1>2, <1>3, <2>2
  <2> QED
    BY <2>1, <2>3
<1>5. seen'[b] = seen[b] + 1 /\ nextmsg'[b] = nextmsg[b] + 1
  BY Zenon, <1>4 DEF Apply
<1>6. \A c \in Slots : c # b => seen'[c] = seen[c] /\ nextmsg'[c] = nextmsg[c]
  BY Zenon DEF Apply
<1>7. pc[b] = "r_apply" /\ pc'[b] \in {"r_apply", "idle"} /\ \A c \in Slots : c # b => pc'[c] = pc[c]
  BY Zenon, GotoFacts DEF Apply, At, Enter
<1> QED
  BY Zenon, <1>1, <1>2, <1>5, <1>6, <1>7 DEF Apply

LEMMA Available ==
  ASSUME NEW m \in Nat \ {0}, NEW x \in Int, NEW y \in Int, x <= y
  PROVE  LET n == Smaller(m, IF x < y THEN y - x ELSE 0) IN
         n \in 0 .. m /\ x + n <= y /\ (n < m => x + n = y)
  BY DEF Smaller

\* What GetCopy copies: the messages from the read position on.
LEMMA CopyFacts ==
  ASSUME IInv, NEW b \in Slots, GetCopy(b)
  PROVE  \E n \in 0 .. MAXINVALMSGS :
           /\ nummsgs'[b] = n /\ nextMsgNum'[b] = nextMsgNum[b] + n
           /\ n < MAXINVALMSGS => nextMsgNum'[b] = max[b]
           /\ nextMsgNum'[b] <= max[b]
           /\ \A k \in 1 .. MAXINVALMSGS : k <= n => messages'[b][k] = nextMsgNum[b] + k - 1 + base
           /\ nextmsg[b] = 0 /\ UNCHANGED <<nextmsg, seen, resetState, base, maxMsgNum>>
           /\ messages'[b] \in [1 .. MAXINVALMSGS -> Int]
           /\ Listening(b) /\ pc[b] = "r_copy" /\ pc'[b] = "r_apply"
           /\ \/ hasMessages'[b]
              \/ nextMsgNum'[b] >= max[b] /\ hasMessages'[b] = hasMessages[b]
           /\ \A c \in Slots : c # b =>
                /\ pc'[c] = pc[c] /\ nummsgs'[c] = nummsgs[c] /\ messages'[c] = messages[c]
                /\ nextMsgNum'[c] = nextMsgNum[c] /\ hasMessages'[c] = hasMessages[c]
<1> DEFINE avail == IF nextMsgNum[b] < max[b] THEN max[b] - nextMsgNum[b] ELSE 0
           n == Smaller(MAXINVALMSGS, avail)
<1> USE ArrayTypes
<1>1. /\ nextMsgNum \in [Slots -> Int] /\ max \in [Slots -> Int] /\ hasMessages \in [Slots -> BOOLEAN]
      /\ minMsgNum \in Nat /\ maxMsgNum \in Nat /\ base \in Nat
      /\ buffer \in [0 .. MAXNUMMESSAGES - 1 -> Int]
  BY Zenon DEF IInv, TypeOK
<1>2. pc[b] = "r_copy" /\ ~resetState[b] /\ Listening(b) /\ Reading(b)
  BY Zenon DEF GetCopy, At, IInv, Connected, Receiving, Listening, Reading
<1>3. nextmsg[b] = 0
  BY Zenon, <1>2 DEF IInv, Arrays, ArrayOK
<1>4. max[b] <= maxMsgNum /\ nextMsgNum[b] <= max[b] /\ minMsgNum <= nextMsgNum[b]
  <2>1. max[b] <= maxMsgNum /\ seen[b] <= max[b] + base /\ seen[b] + Left(b) = nextMsgNum[b] + base
    BY Zenon, <1>2 DEF IInv, Positions, PositionOK, At
  <2>2. Left(b) = 0
    BY SMTT(90), <1>2 DEF IInv, Arrays, ArrayOK, Left
  <2>3. minMsgNum <= nextMsgNum[b]
    BY Zenon, <1>2 DEF IInv, Counters
  <2> QED
    BY <1>1, <2>1, <2>2, <2>3
<1>5. n \in 0 .. MAXINVALMSGS /\ nextMsgNum[b] + n <= max[b] /\ (n < MAXINVALMSGS => nextMsgNum[b] + n = max[b])
  <2>1. nextMsgNum[b] \in Int /\ max[b] \in Int
    BY Zenon, <1>1
  <2> QED
    BY Zenon, <1>4, <2>1, Available
<1>6. /\ messages' = [messages EXCEPT ![b] =
                        [k \in 1 .. MAXINVALMSGS |->
                           IF k <= n THEN buffer[(nextMsgNum[b] + k - 1) % MAXNUMMESSAGES] ELSE -1]]
      /\ nextMsgNum' = [nextMsgNum EXCEPT ![b] = @ + n]
      /\ nummsgs' = [nummsgs EXCEPT ![b] = n]
      /\ IF nextMsgNum[b] + n >= max[b]
         THEN signaled' = [signaled EXCEPT ![b] = FALSE] /\ UNCHANGED hasMessages
         ELSE hasMessages' = [hasMessages EXCEPT ![b] = TRUE] /\ UNCHANGED signaled
      /\ UNCHANGED <<nextmsg, seen, resetState, base, maxMsgNum>>
  BY Zenon DEF GetCopy, shared, seg
<1> HIDE DEF n
<1>7. nummsgs'[b] = n /\ nextMsgNum'[b] = nextMsgNum[b] + n
  BY Zenon, <1>1, <1>6
<1>8. \A k \in 1 .. MAXINVALMSGS : k <= n =>
        buffer[(nextMsgNum[b] + k - 1) % MAXNUMMESSAGES] = nextMsgNum[b] + k - 1 + base
  <2> SUFFICES ASSUME NEW k \in 1 .. MAXINVALMSGS, k <= n
               PROVE  buffer[(nextMsgNum[b] + k - 1) % MAXNUMMESSAGES] = nextMsgNum[b] + k - 1 + base
    BY Zenon
  <2>1. nextMsgNum[b] + k - 1 \in minMsgNum .. maxMsgNum - 1
    BY SMTT(30), <1>1, <1>4, <1>5
  <2> QED
    BY Zenon, <2>1 DEF IInv, Ring
<1>9. \A k \in 1 .. MAXINVALMSGS : k <= n => messages'[b][k] = nextMsgNum[b] + k - 1 + base
  BY Zenon, <1>6, <1>8
<1>10. messages'[b] \in [1 .. MAXINVALMSGS -> Int]
  BY SMTT(30), <1>1, <1>6, <1>8
<1>11. \A c \in Slots : c # b =>
         /\ nummsgs'[c] = nummsgs[c] /\ messages'[c] = messages[c]
         /\ nextMsgNum'[c] = nextMsgNum[c] /\ hasMessages'[c] = hasMessages[c]
  BY Zenon, <1>1, <1>6
<1>12. hasMessages'[b] \/ (nextMsgNum'[b] >= max[b] /\ hasMessages'[b] = hasMessages[b])
  BY Zenon, <1>1, <1>6, <1>7
<1>13. pc'[b] = "r_apply" /\ \A c \in Slots : c # b => pc'[c] = pc[c]
  BY Zenon, GotoFacts DEF GetCopy
<1> QED
  BY SMTT(90), <1>2, <1>3, <1>5, <1>6, <1>7, <1>9, <1>10, <1>11, <1>12, <1>13

LEMMA NoIndex == \A k \in Nat, n \in Nat : ~ (n < k /\ k <= n)
  OBVIOUS

LEMMA NothingAdded == 0 - 0 = 0 /\ \A i \in Int : i + 0 = i
  OBVIOUS

LEMMA BothAdded == \A i \in Int, j, k \in Nat : i <= j => (i + k) + 0 = i + k /\ i + k <= j + k
  OBVIOUS

LEMMA UpToNat == \A m \in Nat : \A n \in 0 .. m : n \in Nat
  OBVIOUS

LEMMA CopyAdded ==
  \A n, maxnum, low \in Nat, next, upto, pos \in Int :
    pos + 0 = next + low /\ next + n <= upto /\ upto <= maxnum =>
      n - 0 = n /\ pos + n = next + n + low /\ pos + n <= maxnum + low
  OBVIOUS

LEMMA NotLess == \A i \in Int, j \in Nat : i >= j => ~ (i < j)
  OBVIOUS

LEMMA LeqSame == \A i, j \in Nat : i <= j /\ i >= j => i = j
  OBVIOUS

LEMMA ArraysStep == ASSUME IInv, NEW b \in Slots, Action(b) PROVE Arrays'
<1>other. ASSUME NEW c \in Slots, c # b PROVE ArrayOK(c)'
  <2>1. ArrayOK(c)
    BY Zenon DEF IInv, Arrays
  <2> QED
    BY Zenon, <2>1, <1>other, OtherSlots DEF ArrayOK, Left
<1>0. /\ ArrayOK(b) /\ nextmsg[b] \in Nat /\ nummsgs[b] \in Nat /\ seen[b] \in Int
      /\ MAXINVALMSGS \in Nat
  BY Zenon, ArrayTypes DEF IInv, Arrays
<1>a. \A k \in 1 .. MAXINVALMSGS : k \in Nat
  BY <1>0
<1>b. 0 \in Nat /\ 0 <= 0 /\ 0 <= MAXINVALMSGS /\ 0 - 0 = 0
  BY <1>0
<1>c. \A n \in Nat : n <= n /\ n - n = 0
  OBVIOUS
<1>empty. ASSUME nextmsg'[b] = nummsgs'[b], nummsgs'[b] \in Nat, nummsgs'[b] <= MAXINVALMSGS,
                 pc'[b] \in {"r_get", "r_max", "r_copy"} => nextmsg'[b] = 0 /\ nummsgs'[b] = 0
          PROVE  ArrayOK(b)'
  <2>1. nextmsg'[b] <= nummsgs'[b] /\ Left(b)' = 0
    BY Zenon, <1>c, <1>empty DEF Left
  <2>2. \A k \in 1 .. MAXINVALMSGS : ~ (nextmsg'[b] < k /\ k <= nummsgs'[b])
    BY Zenon, <1>a, <1>empty, NoIndex
  <2> QED
    BY Zenon, <1>empty, <2>1, <2>2 DEF ArrayOK
<1>1. ASSUME SharedInvalBackendInit(b) PROVE ArrayOK(b)'
  <2>1. pc'[b] = "idle" /\ nextmsg'[b] = 0 /\ nummsgs'[b] = 0
    BY Zenon, <1>1, ArrayTypes, GotoFacts DEF SharedInvalBackendInit
  <2> QED
    BY Zenon, <1>b, <1>empty, <2>1
<1>2. ASSUME Apply(b) PROVE ArrayOK(b)'
  <2>2. UNCHANGED <<messages, nummsgs>> /\ pc'[b] \in {"r_apply", "idle"}
        /\ nextmsg'[b] = nextmsg[b] + 1 /\ seen'[b] = seen[b] + 1 /\ nextmsg[b] < nummsgs[b]
    BY Zenon, <1>2, ApplyFacts
  <2>3. nextmsg'[b] <= nummsgs[b]
    BY <1>0, <2>2
  <2>4. \A k \in 1 .. MAXINVALMSGS : nextmsg'[b] < k /\ k <= nummsgs[b] =>
          messages[b][k] = seen'[b] + (k - nextmsg'[b] - 1)
    <3> SUFFICES ASSUME NEW k \in 1 .. MAXINVALMSGS, nextmsg'[b] < k, k <= nummsgs[b]
                 PROVE  messages[b][k] = seen'[b] + (k - nextmsg'[b] - 1)
      BY Zenon
    <3>1. nextmsg[b] < k /\ seen'[b] + (k - nextmsg'[b] - 1) = seen[b] + (k - nextmsg[b] - 1)
      BY <1>0, <2>2
    <3> QED
      BY Zenon, <1>0, <3>1 DEF ArrayOK
  <2> QED
    BY Zenon, <1>0, <2>2, <2>3, <2>4 DEF ArrayOK
<1>3. ASSUME LoopEnd(b) PROVE ArrayOK(b)'
  <2>1. nextmsg[b] = nummsgs[b] /\ nummsgs[b] <= MAXINVALMSGS
    BY Zenon, <1>0, <1>3, LeqSame DEF LoopEnd, ArrayOK
  <2> QED
    BY Zenon, <1>0, <1>b, <1>3, <1>empty, <2>1, LoopEndFacts
<1>4. ASSUME GetReset(b) PROVE ArrayOK(b)'
  <2>1. pc[b] = "r_copy" /\ pc'[b] \in {"r_done", "r_apply"} /\ UNCHANGED <<messages, nextmsg, nummsgs>>
    BY Zenon, <1>4, ResetFacts DEF GetReset, At
  <2>2. nextmsg'[b] = 0 /\ nummsgs'[b] = 0
    BY Zenon, <1>0, <2>1 DEF ArrayOK
  <2> QED
    BY Zenon, <1>b, <1>empty, <2>2
<1>5. ASSUME GetCopy(b) PROVE ArrayOK(b)'
  <2>1. PICK n \in 0 .. MAXINVALMSGS :
           /\ nummsgs'[b] = n /\ nextmsg' = nextmsg /\ nextmsg[b] = 0 /\ seen' = seen
           /\ \A k \in 1 .. MAXINVALMSGS : k <= n => messages'[b][k] = nextMsgNum[b] + k - 1 + base
           /\ Listening(b) /\ pc[b] = "r_copy" /\ pc'[b] = "r_apply"
    BY Zenon, <1>5, CopyFacts
  <2>2. nextMsgNum[b] \in Int /\ base \in Nat
    BY Zenon DEF IInv, TypeOK
  <2>3. seen[b] + (0 - 0) = nextMsgNum[b] + base
    BY Zenon, <1>0, <1>5, <2>1 DEF GetCopy, IInv, Positions, PositionOK, ArrayOK, Left
  <2>4. /\ \A k \in 1 .. MAXINVALMSGS : nextMsgNum[b] + k - 1 + base = seen[b] + (k - 0 - 1)
        /\ 0 <= n /\ n <= MAXINVALMSGS
    BY <1>0, <2>2, <2>3
  <2> QED
    BY Zenon, <2>1, <2>4 DEF ArrayOK
<1>6. ASSUME UNCHANGED <<messages, nextmsg, nummsgs, seen>>,
             pc'[b] \in {"r_get", "r_max", "r_copy"} => pc[b] \in {"r_get", "r_max", "r_copy"},
             pc'[b] \in {"r_done", "r_clean", "r_sig", "r_ret"} =>
               pc[b] \in {"r_get", "r_done", "r_clean", "r_sig", "r_ret"}
      PROVE  ArrayOK(b)'
  <2>1. Left(b)' = Left(b)
    BY Zenon, <1>6 DEF Left
  <2>2. pc[b] = "r_get" => Left(b) = 0
    BY Zenon, <1>0, <1>b DEF ArrayOK, Left
  <2> QED
    BY Zenon, <1>0, <1>6, <2>1, <2>2 DEF ArrayOK
<1> QED
  BY Zenon, <1>other, <1>1, <1>2, <1>3, <1>4, <1>5, <1>6, Frame DEF Framed, Arrays

LEMMA CounterTypes ==
  IInv => /\ minMsgNum \in Nat /\ maxMsgNum \in Nat /\ base \in Nat /\ queued \in Nat
          /\ nextMsgNum \in [Slots -> Int] /\ resetState \in [Slots -> BOOLEAN]
          /\ max \in [Slots -> Int] /\ nthistime \in [Slots -> 0 .. WRITE_QUANTUM]
          /\ hasMessages \in [Slots -> BOOLEAN] /\ kick \in [Slots -> Nat]
          /\ procPid \in [Slots -> Nat] /\ lastPid \in Nat
          /\ MAXNUMMESSAGES \in Nat \ {0} /\ WRITE_QUANTUM \in Nat
  BY SMTT(30), ConstantsAssumption DEF IInv, TypeOK

\* SICleanupQueue, as far as the counters go.
LEMMA CleanupFacts ==
  ASSUME IInv, NEW b \in Slots, InsertCleanup(b) \/ ReceiveCleanup(b)
  PROVE  \E w \in {0, MSGNUMWRAPAROUND} :
           /\ w \in Nat /\ minMsgNum' \in Nat /\ maxMsgNum' = maxMsgNum - w /\ base' = base + w
           /\ minMsgNum <= minMsgNum' + w /\ minMsgNum' <= maxMsgNum'
           /\ \A s \in Slots : procPid[s] # 0 => nextMsgNum'[s] = nextMsgNum[s] - w
           /\ \A s \in Slots : resetState[s] => resetState'[s]
           /\ \A s \in Slots : resetState'[s] /\ ~resetState[s] => nextMsgNum[s] < maxMsgNum
           /\ \A s \in Slots : Listening(s) /\ ~resetState'[s] => minMsgNum' <= nextMsgNum'[s]
           /\ UNCHANGED <<buffer, procPid, hasMessages, reading, writing, queued>>
           /\ \A s \in Slots : ~At(s, "r_copy") /\ ~At(s, "r_max") /\ ~At(s, "w_kick") /\ ~At(s, "w_publish")
           /\ queued = maxMsgNum + base
           /\ pc[b] \in {"w_loop", "r_clean"}
           /\ pc[b] = "w_loop" => pc'[b] \in {"w_sig", "w_loop"}
           /\ pc[b] = "r_clean" => pc'[b] \in {"r_sig", "r_ret"}
<1>1. PICK minFree \in 0 .. WRITE_QUANTUM : CleanQueue(minFree)
  BY Zenon, CleanupCall
<1>2. /\ readers = {} /\ \A c \in Slots : ~At(c, "w_publish") /\ ~At(c, "w_kick")
  BY Zenon, CleanupCall
<1>3. \A s \in Slots : ~At(s, "r_copy") /\ ~At(s, "r_max")
  BY Zenon, <1>2 DEF readers, At
<1>4. queued = maxMsgNum + base
  BY Zenon, <1>2 DEF IInv, Counters
<1>5. UNCHANGED <<buffer, procPid, hasMessages, reading, writing, queued>>
  BY Zenon DEF InsertCleanup, ReceiveCleanup, SICleanupQueue
<1>6. \A s \in Slots : procPid[s] # 0 => s <= lastBackend
  BY Zenon DEF IInv, Connected
<1>7. 0 \in Nat /\ MSGNUMWRAPAROUND \in Nat
  BY Zenon, ConstantsAssumption
<1>8. /\ pc[b] \in {"w_loop", "r_clean"}
      /\ pc[b] = "w_loop" => pc'[b] \in {"w_sig", "w_loop"}
      /\ pc[b] = "r_clean" => pc'[b] \in {"r_sig", "r_ret"}
  BY Zenon, GotoFacts DEF InsertCleanup, ReceiveCleanup, SICleanupQueue, At
<1>9. PICK w \in {0, MSGNUMWRAPAROUND} :
           /\ minMsgNum' \in Nat
           /\ maxMsgNum' = maxMsgNum - w /\ base' = base + w
           /\ minMsgNum <= minMsgNum' + w /\ minMsgNum' <= maxMsgNum'
           /\ \A s \in Slots : s <= lastBackend => nextMsgNum'[s] = nextMsgNum[s] - w
           /\ \A s \in Slots : resetState[s] => resetState'[s]
           /\ \A s \in Slots : resetState'[s] /\ ~resetState[s] => nextMsgNum[s] < maxMsgNum
           /\ \A s \in Slots : Listening(s) /\ ~resetState'[s] => minMsgNum' <= nextMsgNum'[s]
  BY Zenon, <1>1, CleanQueueFacts
<1>10. w \in Nat
  BY Zenon, <1>7
<1>11. \A s \in Slots : procPid[s] # 0 => nextMsgNum'[s] = nextMsgNum[s] - w
  BY Zenon, <1>6, <1>9
<1> QED
  BY Zenon, <1>2, <1>3, <1>4, <1>5, <1>8, <1>9, <1>10, <1>11

LEMMA CountersStep == ASSUME IInv, NEW b \in Slots, Action(b) PROVE Counters'
<1>0. Counters
  BY Zenon DEF IInv
<1> USE <1>0, GotoFacts, CounterTypes DEF At, shared, seg, cursor, Counters, Reading, sendOnly
<1>1. CASE SharedInvalBackendInit(b)
  <2>1. /\ UNCHANGED <<minMsgNum, maxMsgNum, queued, base>>
        /\ nextMsgNum'[b] = maxMsgNum
        /\ \A c \in Slots : c # b =>
             nextMsgNum'[c] = nextMsgNum[c] /\ procPid'[c] = procPid[c] /\ resetState'[c] = resetState[c]
    BY Zenon, <1>1 DEF SharedInvalBackendInit
  <2>2. pc[b] = "off" /\ pc'[b] = "idle" /\ \A c \in Slots : c # b => pc'[c] = pc[c]
    BY Zenon, <1>1, FreeIsOff DEF SharedInvalBackendInit
  <2> QED
    BY SMTT(30), <2>1, <2>2
<1>2. CASE CleanupInvalidationState(b)
  <2>1. /\ UNCHANGED <<minMsgNum, maxMsgNum, queued, base>>
        /\ procPid'[b] = 0
        /\ \A c \in Slots : c # b =>
             nextMsgNum'[c] = nextMsgNum[c] /\ procPid'[c] = procPid[c] /\ resetState'[c] = resetState[c]
    BY Zenon, <1>2 DEF CleanupInvalidationState
  <2>2. pc[b] = "idle" /\ pc'[b] = "off" /\ \A c \in Slots : c # b => pc'[c] = pc[c]
    BY Zenon, <1>2 DEF CleanupInvalidationState
  <2> QED
    BY Zenon, <2>1, <2>2
<1>3. CASE SendSharedInvalidMessages(b)
  BY Zenon, <1>3 DEF SendSharedInvalidMessages
<1>4. CASE ReceiveSharedInvalidMessages(b)
  BY Zenon, <1>4 DEF ReceiveSharedInvalidMessages, Enter
<1>5. CASE InsertLock(b)
  BY Zenon, <1>5 DEF InsertLock
<1>6. CASE InsertCleanup(b) \/ ReceiveCleanup(b)
  <2>1. PICK w \in {0, MSGNUMWRAPAROUND} :
           /\ w \in Nat /\ minMsgNum' \in Nat /\ maxMsgNum' = maxMsgNum - w /\ base' = base + w
           /\ minMsgNum <= minMsgNum' + w /\ minMsgNum' <= maxMsgNum'
           /\ \A s \in Slots : procPid[s] # 0 => nextMsgNum'[s] = nextMsgNum[s] - w
           /\ \A s \in Slots : resetState[s] => resetState'[s]
           /\ \A s \in Slots : Listening(s) /\ ~resetState'[s] => minMsgNum' <= nextMsgNum'[s]
           /\ UNCHANGED <<procPid, queued>> /\ queued = maxMsgNum + base
    BY SMTT(90), <1>6, CleanupFacts
  <2>2. minMsgNum' <= maxMsgNum' /\ maxMsgNum' <= minMsgNum' + MAXNUMMESSAGES
    BY SMTT(30), <2>1
  <2>3. queued' = maxMsgNum' + base'
    BY SMTT(30), <2>1
  <2>4. ASSUME NEW s \in Slots, Reading(s)'
        PROVE  minMsgNum' <= nextMsgNum'[s] /\ nextMsgNum'[s] <= maxMsgNum'
    <3>1. procPid[s] # 0 /\ Reading(s) /\ Listening(s) /\ ~resetState'[s]
      BY Zenon, <2>1, <2>4 DEF Reading, sendOnly, Listening
    <3>2. nextMsgNum[s] <= maxMsgNum /\ nextMsgNum[s] \in Int
      BY Zenon, <3>1
    <3> QED
      BY SMTT(30), <2>1, <3>1, <3>2
  <2>5. queued' <= maxMsgNum' + base'
    BY Zenon, <2>1, <2>3
  <2> QED
    BY Zenon, <2>2, <2>3, <2>4, <2>5
<1>7. CASE InsertWrite(b)
  BY Zenon, <1>7 DEF InsertWrite
<1>8. CASE InsertPublish(b)
  <2>1. UNCHANGED <<minMsgNum, queued, base, procPid, resetState, nextMsgNum>>
        /\ maxMsgNum' = maxMsgNum + nthistime[b] /\ pc'[b] = "w_kick"
    BY Zenon, <1>8 DEF InsertPublish
  <2>2. maxMsgNum + nthistime[b] <= minMsgNum + MAXNUMMESSAGES
    BY Zenon, <1>8 DEF InsertPublish, IInv, Ring
  <2>3. nthistime[b] \in Nat
    BY SMTT(30)
  <2>4. minMsgNum <= maxMsgNum' /\ maxMsgNum <= maxMsgNum' /\ maxMsgNum' \in Nat
    BY SMTT(30), <2>1, <2>3
  <2>5. queued <= maxMsgNum' + base
    BY SMTT(30), <2>4
  <2>6. \A s \in Slots : nextMsgNum[s] <= maxMsgNum => nextMsgNum[s] <= maxMsgNum'
    BY SMTT(30), <2>4
  <2> QED
    BY Zenon, <2>1, <2>2, <2>4, <2>5, <2>6
<1>9. CASE InsertKick(b)
  BY Zenon, <1>9 DEF InsertKick
<1>10. CASE InsertDone(b)
  <2>1. UNCHANGED <<minMsgNum, maxMsgNum, base, procPid, resetState, nextMsgNum>>
        /\ queued' = maxMsgNum + base
    BY Zenon, <1>10 DEF InsertDone
  <2> QED
    BY SMTT(30), <2>1
<1>11. CASE Apply(b)
  BY Zenon, <1>11 DEF Apply, Enter
<1>12. CASE LoopEnd(b)
  BY Zenon, <1>12 DEF LoopEnd
<1>13. CASE GetNothing(b)
  BY Zenon, <1>13 DEF GetNothing
<1>14. CASE GetLock(b)
  BY Zenon, <1>14 DEF GetLock
<1>15. CASE GetMax(b)
  BY Zenon, <1>15 DEF GetMax
<1>16. CASE GetReset(b)
  <2>1. /\ UNCHANGED <<minMsgNum, maxMsgNum, base, procPid, queued>>
        /\ nextMsgNum'[b] = max[b]
        /\ \A c \in Slots : c # b => nextMsgNum'[c] = nextMsgNum[c] /\ resetState'[c] = resetState[c]
    BY Zenon, <1>16 DEF GetReset
  <2>2. pc[b] = "r_copy" /\ pc'[b] # "w_kick" /\ \A c \in Slots : c # b => pc'[c] = pc[c]
    BY Zenon, <1>16, ResetFacts DEF GetReset
  <2>3. minMsgNum <= max[b] /\ max[b] <= maxMsgNum
    BY Zenon, <2>2 DEF IInv, Positions, PositionOK, Connected, Receiving, Listening
  <2> QED
    BY Zenon, <2>1, <2>2, <2>3
<1>17. CASE GetCopy(b)
  <2>1. PICK n \in 0 .. MAXINVALMSGS :
           /\ nextMsgNum'[b] = nextMsgNum[b] + n /\ nextMsgNum'[b] <= max[b]
           /\ pc[b] = "r_copy" /\ pc'[b] = "r_apply" /\ Listening(b)
           /\ \A c \in Slots : c # b => pc'[c] = pc[c] /\ nextMsgNum'[c] = nextMsgNum[c]
    BY <1>17, CopyFacts
  <2>2. UNCHANGED <<minMsgNum, maxMsgNum, base, procPid, queued, resetState>>
    BY Zenon, <1>17 DEF GetCopy
  <2>3. max[b] <= maxMsgNum /\ minMsgNum <= nextMsgNum[b]
    BY Zenon, <1>17, <2>1 DEF GetCopy, IInv, Positions, PositionOK, Listening
  <2>4. n \in Nat /\ nextMsgNum[b] \in Int /\ max[b] \in Int
    BY SMTT(30), ArrayTypes
  <2>5. minMsgNum <= nextMsgNum[b] + n /\ nextMsgNum[b] + n <= maxMsgNum
    <3>1. nextMsgNum[b] + n <= max[b]
      BY Zenon, <2>1
    <3> QED
      BY SMTT(30), <2>3, <2>4, <3>1
  <2> QED
    BY Zenon, <2>1, <2>2, <2>5
<1>18. CASE CaughtUp(b)
  BY Zenon, <1>18 DEF CaughtUp
<1>20. CASE ReceiveReturn(b)
  BY Zenon, <1>20 DEF ReceiveReturn
<1>21. CASE SendProcSignal(b)
  BY Zenon, <1>21 DEF SendProcSignal
<1> QED
  BY Zenon, <1>1, <1>2, <1>3, <1>4, <1>5, <1>6, <1>7, <1>8, <1>9, <1>10, <1>11, <1>12, <1>13, <1>14,
     <1>15, <1>16, <1>17, <1>18, <1>20, <1>21 DEF Action, Step

\* Read positions move with the counters, which stand still while someone copies.
LEMMA SharedShift ==
  ASSUME IInv, NEW b \in Slots, Action(b)
  PROVE  \E w \in Nat :
           /\ base' = base + w /\ maxMsgNum + base <= maxMsgNum' + base'
           /\ \A c \in Slots : procPid[c] # 0 /\ (c # b \/ pc[b] \notin {"idle", "r_copy"}) =>
                nextMsgNum'[c] = nextMsgNum[c] - w /\ (resetState[c] => resetState'[c])
           /\ \A c \in Slots : At(c, "r_copy") =>
                w = 0 /\ minMsgNum' = minMsgNum /\ maxMsgNum <= maxMsgNum'
<1> USE CounterTypes DEF shared, seg, cursor
<1>c. CASE InsertCleanup(b) \/ ReceiveCleanup(b)
  <2>1. PICK w \in {0, MSGNUMWRAPAROUND} :
           /\ w \in Nat /\ maxMsgNum' = maxMsgNum - w /\ base' = base + w
           /\ \A s \in Slots : procPid[s] # 0 => nextMsgNum'[s] = nextMsgNum[s] - w
           /\ \A s \in Slots : resetState[s] => resetState'[s]
           /\ \A s \in Slots : ~At(s, "r_copy")
    BY Zenon, <1>c, CleanupFacts
  <2>2. maxMsgNum + base <= maxMsgNum' + base'
    BY SMTT(30), <2>1
  <2> QED
    BY Zenon, <2>1, <2>2
<1>p. CASE InsertPublish(b)
  <2>1. nthistime[b] \in Nat
    OBVIOUS
  <2>2. UNCHANGED <<minMsgNum, base, nextMsgNum, resetState>> /\ maxMsgNum' = maxMsgNum + nthistime[b]
    BY Zenon, <1>p DEF InsertPublish
  <2>3. maxMsgNum <= maxMsgNum' /\ maxMsgNum + base <= maxMsgNum' + base' /\ base' = base + 0
    BY <2>1, <2>2
  <2>4. \A c \in Slots : nextMsgNum'[c] = nextMsgNum[c] - 0
    BY <2>2
  <2> QED
    BY Zenon, <2>2, <2>3, <2>4
<1>i. CASE SharedInvalBackendInit(b)
  <2>1. /\ UNCHANGED <<minMsgNum, maxMsgNum, base>>
        /\ \A c \in Slots : c # b => nextMsgNum'[c] = nextMsgNum[c] - 0 /\ resetState'[c] = resetState[c]
    BY SMTT(30), <1>i DEF SharedInvalBackendInit
  <2>2. procPid[b] = 0
    BY Zenon, <1>i, FreeIsOff DEF SharedInvalBackendInit
  <2>3. base' = base + 0 /\ maxMsgNum + base <= maxMsgNum' + base' /\ maxMsgNum <= maxMsgNum'
    BY SMTT(30), <2>1
  <2> QED
    BY Zenon, <2>1, <2>2, <2>3
<1>l. CASE CleanupInvalidationState(b) \/ GetReset(b) \/ GetCopy(b)
  <2>1. /\ UNCHANGED <<minMsgNum, maxMsgNum, base>> /\ pc[b] \in {"idle", "r_copy"}
        /\ \A c \in Slots : c # b => nextMsgNum'[c] = nextMsgNum[c] - 0 /\ resetState'[c] = resetState[c]
    <3>1. /\ UNCHANGED <<minMsgNum, maxMsgNum, base>> /\ pc[b] \in {"idle", "r_copy"}
          /\ \A c \in Slots : c # b => nextMsgNum'[c] = nextMsgNum[c] /\ resetState'[c] = resetState[c]
      BY Zenon, <1>l DEF CleanupInvalidationState, GetReset, GetCopy, At
    <3>2. \A c \in Slots : nextMsgNum[c] = nextMsgNum[c] - 0
      OBVIOUS
    <3> QED
      BY Zenon, <3>1, <3>2
  <2>2. base' = base + 0 /\ maxMsgNum + base <= maxMsgNum' + base' /\ maxMsgNum <= maxMsgNum'
    BY SMTT(30), <2>1
  <2> QED
    BY Zenon, <2>1, <2>2
<1>q. CASE UNCHANGED <<minMsgNum, maxMsgNum, base, nextMsgNum, resetState>>
  <2>1. /\ base' = base + 0 /\ maxMsgNum + base <= maxMsgNum' + base' /\ maxMsgNum <= maxMsgNum'
        /\ \A c \in Slots : nextMsgNum'[c] = nextMsgNum[c] - 0
    BY <1>q
  <2> QED
    BY Zenon, <1>q, <2>1
<1>r. ASSUME ~ (InsertCleanup(b) \/ ReceiveCleanup(b)), ~InsertPublish(b), ~SharedInvalBackendInit(b),
             ~ (CleanupInvalidationState(b) \/ GetReset(b) \/ GetCopy(b))
      PROVE  UNCHANGED <<minMsgNum, maxMsgNum, base, nextMsgNum, resetState>>
  <2>1. \/ SendSharedInvalidMessages(b) \/ ReceiveSharedInvalidMessages(b) \/ InsertLock(b)
        \/ InsertWrite(b) \/ InsertKick(b) \/ InsertDone(b) \/ Apply(b) \/ LoopEnd(b)
        \/ GetNothing(b) \/ GetLock(b) \/ GetMax(b) \/ CaughtUp(b) \/ ReceiveReturn(b)
        \/ SendProcSignal(b)
    BY Zenon, <1>r DEF Action, Step
  <2> QED
    BY Zenon, <2>1 DEF SendSharedInvalidMessages, ReceiveSharedInvalidMessages, InsertLock, InsertWrite,
                InsertKick, InsertDone, Apply, LoopEnd, GetNothing, GetLock, GetMax, CaughtUp,
                ReceiveReturn, SendProcSignal
<1> QED
  BY Zenon, <1>c, <1>p, <1>i, <1>l, <1>q, <1>r

LEMMA LeqTrans == \A x, y, z \in Int : x <= y /\ y <= z => x <= z
  OBVIOUS

LEMMA ShiftTypes == ASSUME IInv, NEW b \in Slots, Action(b) PROVE maxMsgNum' \in Int /\ base' \in Nat
<1> USE CounterTypes DEF shared, seg, cursor
<1>1. CASE InsertCleanup(b) \/ ReceiveCleanup(b)
  <2>1. PICK w \in Nat : maxMsgNum' = maxMsgNum - w /\ base' = base + w
    BY Zenon, <1>1, CleanupFacts
  <2> QED
    BY <2>1
<1>2. CASE InsertPublish(b)
  <2>1. nthistime[b] \in Nat
    OBVIOUS
  <2>2. base' = base /\ maxMsgNum' = maxMsgNum + nthistime[b]
    BY Zenon, <1>2 DEF InsertPublish
  <2> QED
    BY <2>1, <2>2
<1>3. CASE ~ (InsertCleanup(b) \/ ReceiveCleanup(b)) /\ ~InsertPublish(b)
  <2>1. UNCHANGED <<maxMsgNum, base>>
    BY Zenon, <1>3 DEF Action, Step, SharedInvalBackendInit, CleanupInvalidationState,
                SendSharedInvalidMessages, ReceiveSharedInvalidMessages, InsertLock, InsertWrite,
                InsertKick, InsertDone, Apply, LoopEnd, GetNothing, GetLock, GetMax, GetReset,
                GetCopy, CaughtUp, ReceiveReturn, SendProcSignal
  <2> QED
    BY <2>1
<1> QED
  BY Zenon, <1>1, <1>2, <1>3

LEMMA PositionsStep == ASSUME IInv, NEW b \in Slots, Action(b) PROVE Positions'
<1>w. PICK w \in Nat :
           /\ base' = base + w /\ maxMsgNum + base <= maxMsgNum' + base'
           /\ \A c \in Slots : procPid[c] # 0 /\ (c # b \/ pc[b] \notin {"idle", "r_copy"}) =>
                nextMsgNum'[c] = nextMsgNum[c] - w /\ (resetState[c] => resetState'[c])
           /\ \A c \in Slots : At(c, "r_copy") =>
                w = 0 /\ minMsgNum' = minMsgNum /\ maxMsgNum <= maxMsgNum'
  BY Zenon, SharedShift
<1>t. maxMsgNum' \in Int /\ base' \in Nat
  BY Zenon, CounterTypes, ShiftTypes
<1>v. \A c \in Slots :
        /\ nextMsgNum[c] \in Int /\ max[c] \in Int /\ seen[c] \in Int
        /\ nextmsg[c] \in Nat /\ nummsgs[c] \in Nat /\ Left(c) \in Int
  <2>1. ASSUME NEW c \in Slots
        PROVE  /\ nextMsgNum[c] \in Int /\ max[c] \in Int /\ seen[c] \in Int
               /\ nextmsg[c] \in Nat /\ nummsgs[c] \in Nat
    BY Zenon, CounterTypes, ArrayTypes
  <2>2. ASSUME NEW c \in Slots PROVE Left(c) \in Int
    BY <2>1 DEF Left
  <2> QED
    BY Zenon, <2>1, <2>2
<1>g. maxMsgNum + base <= maxMsgNum' + base'
  BY Zenon, <1>w
<1>h. seen[b] \in Int /\ Left(b) \in Int
  BY Zenon, <1>v
<1>u. maxMsgNum \in Nat /\ base \in Nat /\ minMsgNum \in Nat /\ queued \in Nat
  BY Zenon, CounterTypes
<1> USE <1>t, <1>u
<1>other. ASSUME NEW c \in Slots, c # b PROVE PositionOK(c)'
  <2>1. /\ pc'[c] = pc[c] /\ max'[c] = max[c] /\ nextmsg'[c] = nextmsg[c]
        /\ nummsgs'[c] = nummsgs[c] /\ seen'[c] = seen[c] /\ procPid'[c] = procPid[c]
    BY Zenon, <1>other, OtherSlots
  <2>2. Left(c)' = Left(c) /\ Left(c) \in Int
    BY Zenon, <2>1, <1>v DEF Left
  <2>3. PositionOK(c)
    BY Zenon DEF IInv, Positions
  <2>4. CASE ~Listening(c)
    BY Zenon, <2>1, <2>4 DEF PositionOK, Listening, sendOnly
  <2>5. CASE Listening(c)
    <3>1. nextMsgNum'[c] = nextMsgNum[c] - w /\ (resetState[c] => resetState'[c])
      BY Zenon, <1>other, <1>w, <2>5 DEF Listening
    <3>2. nextMsgNum'[c] + base' = nextMsgNum[c] + base
      BY SMTT(30), <1>w, <1>v, <3>1
    <3>3. seen[c] + Left(c) <= maxMsgNum' + base'
      <4>1. seen[c] + Left(c) <= maxMsgNum + base
        BY Zenon, <2>3, <2>5 DEF PositionOK
      <4>2. seen[c] \in Int /\ Left(c) \in Int
        BY Zenon, <1>v
      <4>3. seen[c] + Left(c) \in Int /\ maxMsgNum + base \in Int /\ maxMsgNum' + base' \in Int
        BY <4>2
      <4> QED
        BY Zenon, <1>g, <4>1, <4>3, LeqTrans
    <3>4. ASSUME At(c, "r_copy")
          PROVE  minMsgNum' <= max[c] /\ max[c] <= maxMsgNum' /\ seen[c] <= max[c] + base'
      <4>1. w = 0 /\ minMsgNum' = minMsgNum /\ maxMsgNum <= maxMsgNum' /\ base' = base
        BY SMTT(30), <1>w, <3>4
      <4>2. minMsgNum <= max[c] /\ max[c] <= maxMsgNum /\ seen[c] <= max[c] + base
        BY Zenon, <2>3, <2>5, <3>4 DEF PositionOK
      <4> QED
        BY SMTT(30), <1>v, <4>1, <4>2
    <3> QED
      BY Zenon, <2>1, <2>2, <2>3, <2>5, <3>1, <3>2, <3>3, <3>4 DEF PositionOK, At
  <2> QED
    BY Zenon, <2>4, <2>5
<1>0. PositionOK(b)
  BY Zenon DEF IInv, Positions
<1>l. /\ Listening(b) /\ ~resetState[b] => seen[b] + Left(b) = nextMsgNum[b] + base
      /\ Listening(b) => seen[b] + Left(b) <= maxMsgNum + base
      /\ Listening(b) /\ At(b, "r_copy") => minMsgNum <= max[b] /\ max[b] <= maxMsgNum
  BY Zenon, <1>0 DEF PositionOK
<1> USE DEF shared, seg, reading, cursor
<1>1. ASSUME SharedInvalBackendInit(b) PROVE PositionOK(b)'
  <2>1. /\ seen'[b] = maxMsgNum + base /\ nextMsgNum'[b] = maxMsgNum /\ nextmsg'[b] = 0 /\ nummsgs'[b] = 0
        /\ UNCHANGED <<maxMsgNum, base>> /\ pc'[b] = "idle"
    BY Zenon, <1>1, ArrayTypes, CounterTypes, GotoFacts DEF SharedInvalBackendInit
  <2>2. Left(b)' = 0
    BY SMTT(30), <2>1 DEF Left
  <2> QED
    BY SMTT(30), <2>1, <2>2 DEF PositionOK, At
<1>2. ASSUME CleanupInvalidationState(b) PROVE PositionOK(b)'
  <2>1. procPid'[b] = 0
    BY Zenon, <1>2, CounterTypes DEF CleanupInvalidationState
  <2> QED
    BY Zenon, <2>1 DEF PositionOK, Listening
<1>3. ASSUME InsertCleanup(b) \/ ReceiveCleanup(b) PROVE PositionOK(b)'
  <2>1. UNCHANGED <<seen, nextmsg, nummsgs, procPid>> /\ pc[b] \notin {"idle", "r_copy"} /\ pc'[b] # "r_copy"
    BY Zenon, <1>3, CleanupFacts DEF reading
  <2>2. CASE ~Listening(b)
    BY Zenon, <2>1, <2>2 DEF PositionOK, Listening, sendOnly
  <2>3. CASE Listening(b)
    <3>1. seen[b] + Left(b) <= maxMsgNum' + base'
      BY SMTT(30), <1>g, <1>h, <1>l, <2>3
    <3>2. nextMsgNum'[b] = nextMsgNum[b] - w /\ (resetState[b] => resetState'[b])
      BY Zenon, <1>w, <2>1, <2>3 DEF Listening
    <3>3. nextMsgNum'[b] + base' = nextMsgNum[b] + base
      BY SMTT(30), <1>w, <1>v, <3>2
    <3>4. Left(b)' = Left(b)
      BY Zenon, <2>1 DEF Left
    <3> QED
      BY Zenon, <1>l, <2>1, <2>3, <3>1, <3>2, <3>3, <3>4 DEF PositionOK, At
  <2> QED
    BY Zenon, <2>2, <2>3
<1>4. ASSUME InsertPublish(b) PROVE PositionOK(b)'
  <2>0. pc[b] = "w_publish" /\ pc'[b] = "w_kick"
    BY Zenon, <1>4, GotoFacts DEF InsertPublish, At
  <2>1. UNCHANGED <<seen, nextmsg, nummsgs, procPid>> /\ pc[b] \notin {"idle", "r_copy"} /\ pc'[b] # "r_copy"
    BY Zenon, <1>4, <2>0 DEF InsertPublish
  <2>2. CASE ~Listening(b)
    BY Zenon, <2>1, <2>2 DEF PositionOK, Listening, sendOnly
  <2>3. CASE Listening(b)
    <3>1. seen[b] + Left(b) <= maxMsgNum' + base'
      BY SMTT(30), <1>g, <1>h, <1>l, <2>3
    <3>2. nextMsgNum'[b] = nextMsgNum[b] - w /\ (resetState[b] => resetState'[b])
      BY Zenon, <1>w, <2>1, <2>3 DEF Listening
    <3>3. nextMsgNum'[b] + base' = nextMsgNum[b] + base
      BY SMTT(30), <1>w, <1>v, <3>2
    <3>4. Left(b)' = Left(b)
      BY Zenon, <2>1 DEF Left
    <3> QED
      BY Zenon, <1>l, <2>1, <2>3, <3>1, <3>2, <3>3, <3>4 DEF PositionOK, At
  <2> QED
    BY Zenon, <2>2, <2>3
<1>5. ASSUME Apply(b) PROVE PositionOK(b)'
  <2>1. seen'[b] = seen[b] + 1 /\ nextmsg'[b] = nextmsg[b] + 1 /\ nummsgs' = nummsgs /\ pc'[b] # "r_copy"
    BY Zenon, <1>5, ApplyFacts
  <2>2. UNCHANGED <<procPid, nextMsgNum, resetState, base, maxMsgNum>>
    BY Zenon, <1>5 DEF Apply
  <2>3. seen'[b] + Left(b)' = seen[b] + Left(b)
    BY SMTT(30), <2>1, <1>v DEF Left
  <2> QED
    BY Zenon, <1>l, <2>1, <2>2, <2>3 DEF PositionOK, At, Listening, sendOnly
<1>6. ASSUME LoopEnd(b) PROVE PositionOK(b)'
  <2>1. UNCHANGED <<seen, procPid, nextMsgNum, resetState, base, maxMsgNum>> /\ nextmsg[b] >= nummsgs[b]
    BY Zenon, <1>6 DEF LoopEnd
  <2>2. nextmsg[b] <= nummsgs[b]
    BY Zenon DEF IInv, Arrays, ArrayOK
  <2>3. nextmsg[b] = nummsgs[b]
    BY Zenon, <2>1, <2>2, <1>v, LeqSame
  <2>a. 0 - 0 = 0 /\ nextmsg[b] - nextmsg[b] = 0
    BY <1>v
  <2>b. nextmsg'[b] = nummsgs'[b] /\ (nextmsg'[b] = 0 \/ nextmsg'[b] = nextmsg[b])
    BY Zenon, <1>6, <2>3, LoopEndFacts
  <2>4. Left(b) = 0 /\ Left(b)' = 0
    BY Zenon, <2>3, <2>a, <2>b DEF Left
  <2>5. pc'[b] # "r_copy"
    BY Zenon, <1>6, LoopEndFacts
  <2> QED
    BY Zenon, <1>l, <2>1, <2>4, <2>5 DEF PositionOK, At, Listening, sendOnly
<1>7. ASSUME GetMax(b) PROVE PositionOK(b)'
  <2>1. UNCHANGED <<seen, nextmsg, nummsgs, procPid, nextMsgNum, resetState, base, maxMsgNum, minMsgNum>>
    BY Zenon, <1>7 DEF GetMax
  <2>6. max'[b] = maxMsgNum /\ pc[b] = "r_max"
    BY Zenon, <1>7, CounterTypes DEF GetMax, At
  <2>7. ArrayOK(b)
    BY Zenon DEF IInv, Arrays
  <2>8. nextmsg[b] = 0 /\ nummsgs[b] = 0
    BY Zenon, <2>6, <2>7 DEF ArrayOK
  <2>2. max'[b] = maxMsgNum /\ Left(b) = 0
    BY Zenon, <2>6, <2>8, NothingAdded DEF Left
  <2>3. minMsgNum <= maxMsgNum
    BY Zenon DEF IInv, Counters
  <2>4. Left(b)' = 0
    BY Zenon, <2>1, <2>2 DEF Left
  <2>9. seen[b] + 0 = seen[b]
    BY Zenon, <1>v, NothingAdded
  <2>5. Listening(b) => seen[b] <= maxMsgNum + base
    BY Zenon, <1>l, <2>2, <2>9
  <2>10. maxMsgNum <= maxMsgNum
    <3>1. maxMsgNum \in Nat
      BY Zenon, CounterTypes
    <3> QED
      BY <3>1
  <2>11. Listening(b)' => Listening(b)
    BY Zenon, <2>1 DEF Listening, sendOnly
  <2>12. ASSUME Listening(b)
         PROVE  /\ ~resetState'[b] => seen'[b] + Left(b)' = nextMsgNum'[b] + base'
                /\ seen'[b] + Left(b)' <= maxMsgNum' + base'
    BY Zenon, <1>l, <2>1, <2>2, <2>4, <2>12
  <2>13. ASSUME Listening(b)
         PROVE  minMsgNum' <= max'[b] /\ max'[b] <= maxMsgNum' /\ seen'[b] <= max'[b] + base'
    BY Zenon, <2>1, <2>2, <2>3, <2>5, <2>10, <2>13
  <2> QED
    BY Zenon, <2>11, <2>12, <2>13 DEF PositionOK
<1>8. ASSUME GetReset(b) PROVE PositionOK(b)'
  <2>1. UNCHANGED <<nextmsg, nummsgs, procPid, base, maxMsgNum>>
    BY Zenon, <1>8 DEF GetReset
  <2>5. seen'[b] = max[b] + base /\ nextMsgNum'[b] = max[b] /\ pc[b] = "r_copy"
    BY Zenon, <1>8, ArrayTypes, CounterTypes DEF GetReset, At
  <2>6. ArrayOK(b)
    BY Zenon DEF IInv, Arrays
  <2>7. nextmsg[b] = 0 /\ nummsgs[b] = 0
    BY Zenon, <2>5, <2>6 DEF ArrayOK
  <2>2. seen'[b] = max[b] + base /\ nextMsgNum'[b] = max[b] /\ Left(b) = 0 /\ pc[b] = "r_copy"
    BY Zenon, <2>5, <2>7, NothingAdded DEF Left
  <2>3. Left(b)' = 0 /\ pc'[b] # "r_copy"
    BY Zenon, <1>8, <2>1, <2>2, ResetFacts DEF Left
  <2>4. max[b] <= maxMsgNum
    BY Zenon, <1>l, <2>2 DEF IInv, Connected, Receiving, Listening, At
  <2>8. (max[b] + base) + 0 = max[b] + base /\ max[b] + base <= maxMsgNum + base
    BY Zenon, <1>v, <2>4, CounterTypes, BothAdded
  <2>9. /\ seen'[b] + Left(b)' = nextMsgNum'[b] + base'
        /\ seen'[b] + Left(b)' <= maxMsgNum' + base'
    BY Zenon, <2>1, <2>2, <2>3, <2>8
  <2> QED
    BY Zenon, <2>3, <2>9 DEF PositionOK, At
<1>9. ASSUME GetCopy(b) PROVE PositionOK(b)'
  <2>1. PICK n \in 0 .. MAXINVALMSGS :
           /\ nummsgs'[b] = n /\ nextMsgNum'[b] = nextMsgNum[b] + n /\ nextMsgNum'[b] <= max[b]
           /\ nextmsg[b] = 0 /\ UNCHANGED <<nextmsg, seen, resetState, base, maxMsgNum>>
           /\ Listening(b) /\ pc[b] = "r_copy" /\ pc'[b] = "r_apply"
    BY Zenon, <1>9, CopyFacts
  <2>2. Left(b) = 0 /\ ~resetState[b]
    <3>1. ArrayOK(b) /\ ~resetState[b]
      BY Zenon, <1>9 DEF GetCopy, IInv, Arrays
    <3>2. nextmsg[b] = 0 /\ nummsgs[b] = 0
      BY Zenon, <2>1, <3>1 DEF ArrayOK
    <3> QED
      BY Zenon, <3>1, <3>2, NothingAdded DEF Left
  <2>3. n \in Nat /\ nextMsgNum[b] \in Int /\ max[b] \in Int /\ seen[b] \in Int
    BY Zenon, <1>v, ArrayTypes, UpToNat
  <2>4. seen[b] + 0 = nextMsgNum[b] + base /\ nextMsgNum[b] + n <= max[b] /\ max[b] <= maxMsgNum
    BY Zenon, <1>l, <2>1, <2>2 DEF At
  <2>5. n - 0 = n /\ seen[b] + n = nextMsgNum[b] + n + base /\ seen[b] + n <= maxMsgNum + base
    BY ZenonT(30), <2>3, <2>4, CounterTypes, CopyAdded
  <2>6. Left(b)' = n
    BY Zenon, <2>1, <2>5 DEF Left
  <2>9. procPid' = procPid
    BY Zenon, <1>9 DEF GetCopy
  <2> QED
    BY Zenon, <2>1, <2>5, <2>6, <2>9 DEF PositionOK, At
<1>10. ASSUME UNCHANGED <<seen, nextmsg, nummsgs, procPid, nextMsgNum, resetState, base, maxMsgNum>>,
              pc'[b] # "r_copy"
       PROVE  PositionOK(b)'
  BY Zenon, <1>0, <1>10 DEF PositionOK, Left, At, Listening, sendOnly
<1> QED
  BY Zenon, <1>other, <1>1, <1>2, <1>3, <1>4, <1>5, <1>6, <1>7, <1>8, <1>9, <1>10, Frame DEF Framed, Positions

LEMMA RingStep == ASSUME IInv, NEW b \in Slots, Action(b) PROVE Ring'
<1>0. /\ \A n \in minMsgNum .. maxMsgNum - 1 : buffer[n % MAXNUMMESSAGES] = n + base
      /\ \A c \in Slots : At(c, "w_publish") =>
           /\ maxMsgNum + nthistime[c] <= minMsgNum + MAXNUMMESSAGES
           /\ \A n \in maxMsgNum .. maxMsgNum + nthistime[c] - 1 : buffer[n % MAXNUMMESSAGES] = n + base
  BY Zenon DEF IInv, Ring
<1>quiet. ASSUME UNCHANGED <<minMsgNum, maxMsgNum, base, buffer>>, pc'[b] # "w_publish" PROVE Ring'
  <2>1. ASSUME NEW c \in Slots, At(c, "w_publish")' PROVE At(c, "w_publish") /\ nthistime'[c] = nthistime[c]
    <3>1. c # b
      BY Zenon, <1>quiet, <2>1 DEF At
    <3>2. pc'[c] = pc[c] /\ nthistime'[c] = nthistime[c]
      BY Zenon, <3>1, OtherSlots
    <3> QED
      BY Zenon, <2>1, <3>2 DEF At
  <2> QED
    BY Zenon, <1>0, <1>quiet, <2>1 DEF Ring
<1> USE CounterTypes DEF shared, seg
<1>1. CASE InsertCleanup(b) \/ ReceiveCleanup(b)
  <2>1. PICK w \in {0, MSGNUMWRAPAROUND} :
           /\ w \in Nat /\ minMsgNum' \in Nat /\ maxMsgNum' = maxMsgNum - w /\ base' = base + w
           /\ minMsgNum <= minMsgNum' + w /\ minMsgNum' <= maxMsgNum' /\ buffer' = buffer
           /\ \A s \in Slots : ~At(s, "w_publish")
           /\ pc[b] \in {"w_loop", "r_clean"}
           /\ pc[b] = "w_loop" => pc'[b] \in {"w_sig", "w_loop"}
           /\ pc[b] = "r_clean" => pc'[b] \in {"r_sig", "r_ret"}
    BY Zenon, <1>1, CleanupFacts
  <2>2. ASSUME NEW n \in minMsgNum' .. maxMsgNum' - 1
        PROVE  buffer'[n % MAXNUMMESSAGES] = n + base'
    <3>1. n + w \in minMsgNum .. maxMsgNum - 1 /\ n \in Int
      BY SMTT(90), <2>1
    <3>2. buffer[(n + w) % MAXNUMMESSAGES] = n + w + base
      BY Zenon, <1>0, <3>1
    <3>3. (n + w) % MAXNUMMESSAGES = n % MAXNUMMESSAGES
      <4>1. CASE w = 0
        BY <3>1, <4>1
      <4>2. CASE w = MSGNUMWRAPAROUND
        <5>1. n + w \in Int /\ (n + w) - MSGNUMWRAPAROUND = n
          BY SMTT(30), <2>1, <3>1, <4>2
        <5> QED
          BY Zenon, <5>1, Wraparound
      <4> QED
        BY Zenon, <4>1, <4>2
    <3>4. n + w + base = n + base'
      BY SMTT(30), <2>1, <3>1
    <3> QED
      BY Zenon, <2>1, <3>2, <3>3, <3>4
  <2>3. \A c \in Slots : pc'[c] # "w_publish"
    BY Zenon, <2>1, OtherSlots DEF At
  <2> QED
    BY Zenon, <2>2, <2>3 DEF Ring, At
<1>2. CASE InsertWrite(b)
  <2> DEFINE N == MAXNUMMESSAGES
             t == nthistime[b]
  <2>1. t \in Nat /\ N \in Nat \ {0}
    OBVIOUS
  <2>2. maxMsgNum - minMsgNum + t <= N /\ minMsgNum <= maxMsgNum
    <3>1. ~ (maxMsgNum - minMsgNum + t > N) /\ minMsgNum <= maxMsgNum
      BY Zenon, <1>2 DEF InsertWrite, NeedsCleanup, IInv, Counters
    <3> QED
      BY <2>1, <3>1
  <2>3. UNCHANGED <<minMsgNum, maxMsgNum, base, nthistime>>
    BY Zenon, <1>2 DEF InsertWrite, writing
  <2>4. buffer' = [k \in 0 .. N - 1 |->
                     LET here == {n \in maxMsgNum .. maxMsgNum + t - 1 : n % N = k}
                     IN IF here = {} THEN buffer[k] ELSE base + CHOOSE n \in here : TRUE]
    BY Zenon, <1>2 DEF InsertWrite
  <2> HIDE DEF t, N
  <2>5. \A n \in Int : n % N \in 0 .. N - 1
    BY Zenon, <2>1, DivMod
  <2>6. \A i, j \in Int : i < j /\ j < i + N => i % N # j % N
    BY Zenon, <2>1, ModDistinct
  <2>7. ASSUME NEW n \in minMsgNum .. maxMsgNum - 1 PROVE buffer'[n % N] = n + base
    <3>1. n \in Int /\ n % N \in 0 .. N - 1
      BY <2>5
    <3>2. \A m \in maxMsgNum .. maxMsgNum + t - 1 : m \in Int /\ n < m /\ m < n + N
      BY <2>1, <2>2
    <3>3. {m \in maxMsgNum .. maxMsgNum + t - 1 : m % N = n % N} = {}
      BY Zenon, <2>6, <3>1, <3>2
    <3>4. buffer'[n % N] = buffer[n % N]
      BY Zenon, <2>4, <3>1, <3>3
    <3> QED
      BY Zenon, <1>0, <3>4 DEF N
  <2>8. ASSUME NEW n \in maxMsgNum .. maxMsgNum + t - 1 PROVE buffer'[n % N] = n + base
    <3> DEFINE here == {m \in maxMsgNum .. maxMsgNum + t - 1 : m % N = n % N}
    <3>1. n \in Int /\ n % N \in 0 .. N - 1
      BY <2>1, <2>5
    <3>2. \A m \in maxMsgNum .. maxMsgNum + t - 1 :
            m \in Int /\ (m = n \/ (n < m /\ m < n + N) \/ (m < n /\ n < m + N))
      BY <2>1, <2>2
    <3>3. \A m \in here : m = n
      BY Zenon, <2>6, <3>1, <3>2
    <3>4. n \in here
      BY Zenon
    <3>5. here # {} /\ (CHOOSE m \in here : TRUE) = n
      BY Zenon, <3>3, <3>4
    <3>6. buffer'[n % N] = IF here = {} THEN buffer[n % N] ELSE base + CHOOSE m \in here : TRUE
      BY Zenon, <2>4, <3>1
    <3> HIDE DEF here
    <3>7. buffer'[n % N] = base + n
      BY Zenon, <3>5, <3>6
    <3> QED
      BY <3>1, <3>7
  <2>9. maxMsgNum + t <= minMsgNum + N
    BY <2>1, <2>2
  <2>10. \A c \in Slots : c # b => pc'[c] # "w_publish"
    <3>1. \A c \in Slots : c # b => ~At(c, "w_publish")
      BY Zenon, <1>2, SlotFacts DEF InsertWrite, At, IInv, Locking
    <3> QED
      BY Zenon, <3>1, OtherSlots DEF At
  <2> QED
    BY Zenon, <2>3, <2>7, <2>8, <2>9, <2>10 DEF Ring, At, t, N
<1>3. CASE InsertPublish(b)
  <2>1. /\ UNCHANGED <<minMsgNum, buffer, base>> /\ maxMsgNum' = maxMsgNum + nthistime[b]
        /\ pc[b] = "w_publish" /\ pc'[b] = "w_kick"
    BY Zenon, <1>3, GotoFacts DEF InsertPublish, At
  <2>2. ASSUME NEW n \in minMsgNum .. maxMsgNum' - 1 PROVE buffer[n % MAXNUMMESSAGES] = n + base
    <3>1. n \in minMsgNum .. maxMsgNum - 1 \/ n \in maxMsgNum .. maxMsgNum + nthistime[b] - 1
      BY SMTT(30), <2>1
    <3> QED
      BY Zenon, <1>0, <2>1, <3>1 DEF At
  <2>3. \A c \in Slots : c # b => pc'[c] # "w_publish"
    <3>1. \A c \in Slots : c # b => ~At(c, "w_publish")
      BY Zenon, <2>1, SlotFacts DEF At, IInv, Locking
    <3> QED
      BY Zenon, <3>1, OtherSlots DEF At
  <2> QED
    BY Zenon, <2>1, <2>2, <2>3 DEF Ring, At
<1> QED
  BY Zenon, <1>quiet, <1>1, <1>2, <1>3, Frame DEF Framed

-----------------------------------------------------------------------------

\* A step that concerns the news of backend b alone.
LEMMA FlagsOwn ==
  ASSUME IInv, NEW b \in Slots, Action(b), UNCHANGED <<base, maxMsgNum, queued>>, pc'[b] # "w_kick",
         \A c \in Slots : c # b =>
           hasMessages'[c] = hasMessages[c] /\ resetState'[c] = resetState[c] /\ nextMsgNum'[c] = nextMsgNum[c],
         \A n \in Int : Listening(b)' /\ n <= maxMsgNum + base /\ (Listening(b) => Told(b, n)) => Told(b, n)'
  PROVE  Flags'
<1> SUFFICES ASSUME NEW c \in Slots, Listening(c)'
             PROVE  /\ Told(c, queued)'
                    /\ \A w \in Slots : At(w, "w_kick")' /\ c < kick'[w] => Told(c, maxMsgNum + base)'
  BY Zenon DEF Flags
<1>1. queued \in Int /\ maxMsgNum + base \in Int /\ queued <= maxMsgNum + base /\ maxMsgNum + base <= maxMsgNum + base
  BY SMTT(90), CounterTypes DEF IInv, Counters
<1>2. \A w \in Slots : At(w, "w_kick")' => w # b /\ At(w, "w_kick") /\ kick'[w] = kick[w]
  BY Zenon, OtherSlots DEF At
<1>3. CASE c = b
  <2>1. Told(b, queued)'
    BY Zenon, <1>1, <1>3 DEF IInv, Flags, Told
  <2>2. ASSUME NEW w \in Slots, At(w, "w_kick"), b < kick[w] PROVE Told(b, maxMsgNum + base)'
    BY Zenon, <1>1, <1>3, <2>2 DEF IInv, Flags, Told
  <2> QED
    BY Zenon, <1>2, <1>3, <2>1, <2>2
<1>4. CASE c # b
  <2>1. /\ pc'[c] = pc[c] /\ max'[c] = max[c] /\ procPid'[c] = procPid[c]
        /\ hasMessages'[c] = hasMessages[c] /\ resetState'[c] = resetState[c] /\ nextMsgNum'[c] = nextMsgNum[c]
    BY Zenon, <1>4, OtherSlots
  <2>2. Listening(c)
    BY Zenon, <2>1 DEF Listening, sendOnly
  <2>3. Told(c, queued)'
    BY Zenon, <2>1, <2>2 DEF IInv, Flags, Told, At
  <2>4. ASSUME NEW w \in Slots, At(w, "w_kick"), c < kick[w] PROVE Told(c, maxMsgNum + base)'
    BY Zenon, <2>1, <2>2, <2>4 DEF IInv, Flags, Told, At
  <2> QED
    BY Zenon, <1>2, <2>3, <2>4
<1> QED
  BY Zenon, <1>3, <1>4

LEMMA FlagsStep == ASSUME IInv, NEW b \in Slots, Action(b) PROVE Flags'
<1> USE CounterTypes DEF shared, seg, cursor, reading
<1>1. CASE SharedInvalBackendInit(b)
  <2>1. /\ UNCHANGED <<base, maxMsgNum, queued>>
        /\ \A c \in Slots : c # b =>
             hasMessages'[c] = hasMessages[c] /\ resetState'[c] = resetState[c] /\ nextMsgNum'[c] = nextMsgNum[c]
    BY Zenon, <1>1 DEF SharedInvalBackendInit
  <2>2. pc'[b] # "w_kick" /\ ~resetState'[b] /\ nextMsgNum'[b] = maxMsgNum
    BY SMTT(30), <1>1, GotoFacts DEF SharedInvalBackendInit
  <2>3. \A n \in Int : Listening(b)' /\ n <= maxMsgNum + base /\ (Listening(b) => Told(b, n)) => Told(b, n)'
    BY Zenon, <2>1, <2>2 DEF Told
  <2> QED
    BY Zenon, <2>1, <2>2, <2>3, FlagsOwn
<1>2. CASE CleanupInvalidationState(b)
  <2>1. /\ UNCHANGED <<base, maxMsgNum, queued>>
        /\ \A c \in Slots : c # b =>
             hasMessages'[c] = hasMessages[c] /\ resetState'[c] = resetState[c] /\ nextMsgNum'[c] = nextMsgNum[c]
    BY Zenon, <1>2 DEF CleanupInvalidationState
  <2>2. pc'[b] # "w_kick" /\ procPid'[b] = 0
    BY SMTT(30), <1>2, GotoFacts DEF CleanupInvalidationState
  <2>3. \A n \in Int : Listening(b)' /\ n <= maxMsgNum + base /\ (Listening(b) => Told(b, n)) => Told(b, n)'
    BY Zenon, <2>2 DEF Listening
  <2> QED
    BY Zenon, <2>1, <2>2, <2>3, FlagsOwn
<1>3. CASE SendSharedInvalidMessages(b)
  <2>1. UNCHANGED <<base, maxMsgNum, queued, nextMsgNum, resetState, hasMessages, procPid>>
    BY Zenon, <1>3 DEF SendSharedInvalidMessages
  <2>2. pc[b] \notin {"r_max", "r_copy"} /\ pc'[b] # "w_kick"
    BY SMTT(90), <1>3, GotoFacts DEF SendSharedInvalidMessages, At
  <2>3. \A n \in Int : Listening(b)' /\ n <= maxMsgNum + base /\ (Listening(b) => Told(b, n)) => Told(b, n)'
    BY Zenon, <2>1, <2>2 DEF Told, At, Listening, sendOnly
  <2> QED
    BY Zenon, <2>1, <2>2, <2>3, FlagsOwn
<1>4. CASE ReceiveSharedInvalidMessages(b)
  <2>1. UNCHANGED <<base, maxMsgNum, queued, nextMsgNum, resetState, hasMessages, procPid>>
    BY Zenon, <1>4 DEF ReceiveSharedInvalidMessages
  <2>2. pc[b] \notin {"r_max", "r_copy"} /\ pc'[b] # "w_kick"
    BY SMTT(30), <1>4, GotoFacts DEF ReceiveSharedInvalidMessages, At, Enter
  <2>3. \A n \in Int : Listening(b)' /\ n <= maxMsgNum + base /\ (Listening(b) => Told(b, n)) => Told(b, n)'
    BY Zenon, <2>1, <2>2 DEF Told, At, Listening, sendOnly
  <2> QED
    BY Zenon, <2>1, <2>2, <2>3, FlagsOwn
<1>5. CASE InsertLock(b)
  <2>1. UNCHANGED <<base, maxMsgNum, queued, nextMsgNum, resetState, hasMessages, procPid>>
    BY Zenon, <1>5 DEF InsertLock
  <2>2. pc[b] \notin {"r_max", "r_copy"} /\ pc'[b] # "w_kick"
    BY SMTT(90), <1>5, GotoFacts DEF InsertLock, At
  <2>3. \A n \in Int : Listening(b)' /\ n <= maxMsgNum + base /\ (Listening(b) => Told(b, n)) => Told(b, n)'
    BY Zenon, <2>1, <2>2 DEF Told, At, Listening, sendOnly
  <2> QED
    BY Zenon, <2>1, <2>2, <2>3, FlagsOwn
<1>6. CASE InsertCleanup(b)
  <2>1. PICK w \in {0, MSGNUMWRAPAROUND} :
           /\ w \in Nat /\ base' = base + w
           /\ \A s \in Slots : procPid[s] # 0 => nextMsgNum'[s] = nextMsgNum[s] - w
           /\ \A s \in Slots : resetState'[s] /\ ~resetState[s] => nextMsgNum[s] < maxMsgNum
           /\ UNCHANGED <<procPid, hasMessages, queued>> /\ queued = maxMsgNum + base
           /\ \A s \in Slots : ~At(s, "r_copy") /\ ~At(s, "r_max") /\ ~At(s, "w_kick")
           /\ pc[b] \in {"w_loop", "r_clean"}
           /\ pc[b] = "w_loop" => pc'[b] \in {"w_sig", "w_loop"}
           /\ pc[b] = "r_clean" => pc'[b] \in {"r_sig", "r_ret"}
    BY Zenon, <1>6, CleanupFacts
  <2>2. \A c \in Slots : pc'[c] # "w_kick"
    BY Zenon, <2>1, OtherSlots DEF At
  <2>3. ASSUME NEW c \in Slots, Listening(c)' PROVE Told(c, queued)'
    <3>1. Listening(c) /\ procPid[c] # 0
      BY Zenon, <2>1, <2>3 DEF Listening, sendOnly
    <3>2. hasMessages[c] \/ (~resetState[c] /\ nextMsgNum[c] + base >= queued)
      BY Zenon, <2>1, <3>1 DEF IInv, Flags, Told
    <3>3. CASE hasMessages[c]
      BY Zenon, <2>1, <3>3 DEF Told
    <3>4. CASE ~resetState[c] /\ nextMsgNum[c] + base >= queued
      <4>1. nextMsgNum[c] \in Int
        BY Zenon
      <4>2. nextMsgNum[c] >= maxMsgNum
        BY SMTT(30), <2>1, <3>4, <4>1
      <4>3. ~ (nextMsgNum[c] < maxMsgNum)
        BY Zenon, <4>1, <4>2, CounterTypes, NotLess
      <4>4. ~resetState'[c] /\ nextMsgNum'[c] = nextMsgNum[c] - w
        BY Zenon, <2>1, <3>1, <3>4, <4>3
      <4>5. nextMsgNum'[c] + base' = nextMsgNum[c] + base
        BY SMTT(30), <2>1, <4>1, <4>4
      <4> QED
        BY Zenon, <2>1, <3>4, <4>4, <4>5 DEF Told
    <3> QED
      BY Zenon, <3>2, <3>3, <3>4
  <2> QED
    BY Zenon, <2>2, <2>3 DEF Flags, At
<1>7. CASE InsertWrite(b)
  <2>1. UNCHANGED <<base, maxMsgNum, queued, nextMsgNum, resetState, hasMessages, procPid>>
    BY Zenon, <1>7 DEF InsertWrite
  <2>2. pc[b] \notin {"r_max", "r_copy"} /\ pc'[b] # "w_kick"
    BY SMTT(90), <1>7, GotoFacts DEF InsertWrite, At
  <2>3. \A n \in Int : Listening(b)' /\ n <= maxMsgNum + base /\ (Listening(b) => Told(b, n)) => Told(b, n)'
    BY Zenon, <2>1, <2>2 DEF Told, At, Listening, sendOnly
  <2> QED
    BY Zenon, <2>1, <2>2, <2>3, FlagsOwn
<1>8. CASE InsertPublish(b)
  <2>1. /\ UNCHANGED <<base, queued, procPid, hasMessages, resetState, nextMsgNum>>
        /\ kick'[b] = 1 /\ pc[b] = "w_publish" /\ pc'[b] = "w_kick"
    BY Zenon, <1>8, GotoFacts DEF InsertPublish, At
  <2>2. \A w \in Slots : w # b => pc'[w] # "w_kick" /\ ~At(w, "w_kick")
    <3>1. \A w \in Slots : w # b => ~At(w, "w_kick")
      BY Zenon, <2>1, SlotFacts DEF At, IInv, Locking
    <3> QED
      BY Zenon, <3>1, OtherSlots DEF At
  <2>3. \A c \in Slots : max'[c] = max[c] /\ (c # b => pc'[c] = pc[c])
    BY Zenon, <1>8, OtherSlots DEF InsertPublish
  <2>4. ASSUME NEW c \in Slots, Listening(c)' PROVE Told(c, queued)'
    <3>1. Listening(c)
      BY Zenon, <2>1, <2>4 DEF Listening, sendOnly
    <3> QED
      BY Zenon, <2>1, <2>3, <3>1 DEF IInv, Flags, Told, At
  <2>5. \A c, w \in Slots : At(w, "w_kick")' => ~ (c < kick'[w])
    BY SMTT(30), <2>1, <2>2, SlotFacts DEF At
  <2> QED
    BY Zenon, <2>4, <2>5 DEF Flags
<1>9. CASE InsertKick(b)
  <2>1. /\ UNCHANGED <<base, queued, maxMsgNum, procPid, resetState, nextMsgNum, pc>>
        /\ kick'[b] = kick[b] + 1 /\ pc[b] = "w_kick" /\ kick[b] \in Nat
        /\ \A c \in Slots : hasMessages[c] => hasMessages'[c]
        /\ kick[b] \in Slots => hasMessages'[kick[b]]
    BY Zenon, <1>9 DEF InsertKick, At
  <2>2. \A w \in Slots : w # b => ~At(w, "w_kick")' /\ ~At(w, "w_kick")
    <3>1. \A w \in Slots : w # b => ~At(w, "w_kick")
      BY Zenon, <2>1, SlotFacts DEF At, IInv, Locking
    <3> QED
      BY Zenon, <3>1, OtherSlots DEF At
  <2>3. \A c \in Slots : max'[c] = max[c] /\ (c # b => pc'[c] = pc[c])
    BY Zenon, <1>9, OtherSlots DEF InsertKick
  <2>4. ASSUME NEW c \in Slots, Listening(c)' PROVE Told(c, queued)'
    <3>1. Listening(c)
      BY Zenon, <2>1, <2>4 DEF Listening, sendOnly
    <3> QED
      BY Zenon, <2>1, <2>3, <3>1 DEF IInv, Flags, Told, At
  <2>5. ASSUME NEW c \in Slots, Listening(c)', NEW w \in Slots, At(w, "w_kick")', c < kick'[w]
        PROVE  Told(c, maxMsgNum + base)'
    <3>1. Listening(c) /\ w = b
      BY Zenon, <2>1, <2>2, <2>5 DEF Listening, sendOnly
    <3>2. c < kick[b] \/ c = kick[b]
      BY SMTT(30), <2>1, <2>5, <3>1, SlotFacts
    <3>3. CASE c = kick[b]
      BY Zenon, <2>1, <3>3 DEF Told
    <3>4. CASE c < kick[b]
      <4>1. Told(c, maxMsgNum + base)
        BY Zenon, <2>1, <3>1, <3>4 DEF IInv, Flags, At
      <4> QED
        BY Zenon, <2>1, <2>3, <4>1 DEF Told, At
    <3> QED
      BY Zenon, <3>2, <3>3, <3>4
  <2> QED
    BY Zenon, <2>4, <2>5 DEF Flags
<1>10. CASE InsertDone(b)
  <2>1. /\ UNCHANGED <<base, maxMsgNum, procPid, hasMessages, resetState, nextMsgNum>>
        /\ kick[b] > lastBackend /\ pc[b] = "w_kick" /\ pc'[b] \in {"w_lock", "idle"}
        /\ queued' = maxMsgNum + base
    BY Zenon, <1>10, GotoFacts DEF InsertDone, At
  <2>2. \A w \in Slots : w # b => pc'[w] # "w_kick" /\ ~At(w, "w_kick")
    <3>1. \A w \in Slots : w # b => ~At(w, "w_kick")
      BY Zenon, <2>1, SlotFacts DEF At, IInv, Locking
    <3> QED
      BY Zenon, <3>1, OtherSlots DEF At
  <2>3. \A c \in Slots : max'[c] = max[c] /\ (c # b => pc'[c] = pc[c])
    BY Zenon, <1>10, OtherSlots DEF InsertDone
  <2>4. ASSUME NEW c \in Slots, Listening(c)' PROVE Told(c, queued)'
    <3>1. Listening(c) /\ c <= lastBackend
      BY Zenon, <2>1, <2>4 DEF Listening, sendOnly, IInv, Connected
    <3>2. c < kick[b]
      <4>1. c \in Nat /\ kick[b] \in Nat /\ lastBackend \in Nat
        BY SMTT(90), SlotFacts, ConstantsAssumption DEF IInv, TypeOK
      <4> QED
        BY SMTT(30), <2>1, <3>1, <4>1
    <3>3. Told(c, maxMsgNum + base)
      BY Zenon, <2>1, <3>1, <3>2 DEF IInv, Flags, At
    <3> QED
      BY Zenon, <2>1, <2>3, <3>3 DEF Told, At
  <2>5. \A w \in Slots : ~At(w, "w_kick")'
    BY Zenon, <2>1, <2>2 DEF At
  <2> QED
    BY Zenon, <2>4, <2>5 DEF Flags
<1>11. CASE Apply(b)
  <2>1. UNCHANGED <<base, maxMsgNum, queued, nextMsgNum, resetState, hasMessages, procPid>>
    BY Zenon, <1>11 DEF Apply
  <2>2. pc[b] \notin {"r_max", "r_copy"} /\ pc'[b] # "w_kick"
    BY Zenon, <1>11, ApplyFacts
  <2>3. \A n \in Int : Listening(b)' /\ n <= maxMsgNum + base /\ (Listening(b) => Told(b, n)) => Told(b, n)'
    BY Zenon, <2>1, <2>2 DEF Told, At, Listening, sendOnly
  <2> QED
    BY Zenon, <2>1, <2>2, <2>3, FlagsOwn
<1>12. CASE LoopEnd(b)
  <2>1. UNCHANGED <<base, maxMsgNum, queued, nextMsgNum, resetState, hasMessages, procPid>>
    BY Zenon, <1>12 DEF LoopEnd
  <2>2. pc[b] \notin {"r_max", "r_copy"} /\ pc'[b] # "w_kick"
    BY Zenon, <1>12, LoopEndFacts
  <2>3. \A n \in Int : Listening(b)' /\ n <= maxMsgNum + base /\ (Listening(b) => Told(b, n)) => Told(b, n)'
    BY Zenon, <2>1, <2>2 DEF Told, At, Listening, sendOnly
  <2> QED
    BY Zenon, <2>1, <2>2, <2>3, FlagsOwn
<1>13. CASE GetNothing(b)
  <2>1. UNCHANGED <<base, maxMsgNum, queued, nextMsgNum, resetState, hasMessages, procPid>>
    BY Zenon, <1>13 DEF GetNothing
  <2>2. pc[b] \notin {"r_max", "r_copy"} /\ pc'[b] # "w_kick"
    <3>1. pc[b] = "r_get" /\ Goto(b, "r_done")
      BY Zenon, <1>13 DEF GetNothing, At
    <3>2. pc'[b] = "r_done"
      BY Zenon, <3>1, GotoFacts
    <3> QED
      BY Zenon, <3>1, <3>2
  <2>3. \A n \in Int : Listening(b)' /\ n <= maxMsgNum + base /\ (Listening(b) => Told(b, n)) => Told(b, n)'
    BY Zenon, <2>1, <2>2 DEF Told, At, Listening, sendOnly
  <2> QED
    BY Zenon, <2>1, <2>2, <2>3, FlagsOwn
<1>14. CASE GetLock(b)
  <2>1. /\ UNCHANGED <<base, maxMsgNum, queued>>
        /\ \A c \in Slots : c # b =>
             hasMessages'[c] = hasMessages[c] /\ resetState'[c] = resetState[c] /\ nextMsgNum'[c] = nextMsgNum[c]
    BY Zenon, <1>14 DEF GetLock
  <2>2. pc'[b] = "r_max" /\ pc'[b] # "w_kick"
    <3>1. Goto(b, "r_max")
      BY Zenon, <1>14 DEF GetLock
    <3>2. pc'[b] = "r_max"
      BY Zenon, <3>1, GotoFacts
    <3> QED
      BY Zenon, <3>2
  <2>3. \A n \in Int : Listening(b)' /\ n <= maxMsgNum + base /\ (Listening(b) => Told(b, n)) => Told(b, n)'
    BY Zenon, <2>2 DEF Told, At
  <2> QED
    BY Zenon, <2>1, <2>2, <2>3, FlagsOwn
<1>15. CASE GetMax(b)
  <2>1. /\ UNCHANGED <<base, maxMsgNum, queued>>
        /\ \A c \in Slots : c # b =>
             hasMessages'[c] = hasMessages[c] /\ resetState'[c] = resetState[c] /\ nextMsgNum'[c] = nextMsgNum[c]
    BY Zenon, <1>15 DEF GetMax
  <2>2. pc'[b] = "r_copy" /\ pc'[b] # "w_kick" /\ max'[b] = maxMsgNum
    BY SMTT(90), <1>15, GotoFacts DEF GetMax
  <2>3. \A n \in Int : Listening(b)' /\ n <= maxMsgNum + base /\ (Listening(b) => Told(b, n)) => Told(b, n)'
    BY Zenon, <2>1, <2>2 DEF Told, At
  <2> QED
    BY Zenon, <2>1, <2>2, <2>3, FlagsOwn
<1>16. CASE GetReset(b)
  <2>1. /\ UNCHANGED <<base, maxMsgNum, queued, hasMessages, procPid>>
        /\ \A c \in Slots : c # b =>
             hasMessages'[c] = hasMessages[c] /\ resetState'[c] = resetState[c] /\ nextMsgNum'[c] = nextMsgNum[c]
    BY Zenon, <1>16 DEF GetReset
  <2>2. pc'[b] # "w_kick"
    BY Zenon, <1>16, ResetFacts
  <2>4. pc[b] = "r_copy" /\ resetState[b] /\ ~resetState'[b] /\ nextMsgNum'[b] = max[b]
    BY Zenon, <1>16 DEF GetReset, At
  <2>3. \A n \in Int : Listening(b)' /\ n <= maxMsgNum + base /\ (Listening(b) => Told(b, n)) => Told(b, n)'
    BY Zenon, <2>1, <2>4 DEF Told, At, Listening, sendOnly
  <2> QED
    BY Zenon, <2>1, <2>2, <2>3, FlagsOwn
<1>17. CASE GetCopy(b)
  <2>1. /\ UNCHANGED <<base, maxMsgNum, queued, resetState, procPid>>
        /\ \A c \in Slots : c # b =>
             hasMessages'[c] = hasMessages[c] /\ resetState'[c] = resetState[c] /\ nextMsgNum'[c] = nextMsgNum[c]
    BY Zenon, <1>17 DEF GetCopy
  <2>4. PICK k \in 0 .. MAXINVALMSGS :
           /\ nextMsgNum'[b] = nextMsgNum[b] + k
           /\ pc[b] = "r_copy" /\ pc'[b] = "r_apply"
           /\ hasMessages'[b] \/ (nextMsgNum'[b] >= max[b] /\ hasMessages'[b] = hasMessages[b])
    BY Zenon, <1>17, CopyFacts
  <2>2. pc'[b] # "w_kick"
    BY Zenon, <2>4
  <2>5. k \in Nat /\ nextMsgNum[b] \in Int /\ max[b] \in Int /\ ~resetState[b]
    BY SMTT(90), <1>17, ArrayTypes DEF GetCopy
  <2>3. \A n \in Int : Listening(b)' /\ n <= maxMsgNum + base /\ (Listening(b) => Told(b, n)) => Told(b, n)'
    <3> SUFFICES ASSUME NEW n \in Int, Told(b, n) PROVE Told(b, n)'
      BY Zenon, <2>1 DEF Listening, sendOnly
    <3>1. CASE hasMessages'[b]
      BY Zenon, <3>1 DEF Told
    <3>2. CASE nextMsgNum'[b] >= max[b] /\ ~hasMessages[b]
      <4>1. max[b] + base >= n \/ nextMsgNum[b] + base >= n
        BY Zenon, <2>4, <3>2 DEF Told, At
      <4> DEFINE y == nextMsgNum[b] + k
      <4>2. y \in Int /\ y >= max[b] /\ y >= nextMsgNum[b]
        <5>1. y >= max[b]
          BY Zenon, <2>4, <3>2
        <5>2. y \in Int /\ y >= nextMsgNum[b]
          BY <2>5
        <5> QED
          BY Zenon, <5>1, <5>2
      <4> HIDE DEF y
      <4>3. y + base >= n
        BY SMTT(30), <2>5, <4>1, <4>2
      <4> QED
        BY Zenon, <2>1, <2>4, <2>5, <4>3 DEF Told, y
    <3> QED
      BY Zenon, <2>4, <3>1, <3>2
  <2> QED
    BY Zenon, <2>1, <2>2, <2>3, FlagsOwn
<1>18. CASE CaughtUp(b)
  <2>1. UNCHANGED <<base, maxMsgNum, queued, nextMsgNum, resetState, hasMessages, procPid>>
    BY Zenon, <1>18 DEF CaughtUp
  <2>2. pc[b] \notin {"r_max", "r_copy"} /\ pc'[b] # "w_kick"
    BY SMTT(30), <1>18, GotoFacts DEF CaughtUp, At
  <2>3. \A n \in Int : Listening(b)' /\ n <= maxMsgNum + base /\ (Listening(b) => Told(b, n)) => Told(b, n)'
    BY Zenon, <2>1, <2>2 DEF Told, At, Listening, sendOnly
  <2> QED
    BY Zenon, <2>1, <2>2, <2>3, FlagsOwn
<1>19. CASE ReceiveCleanup(b)
  <2>1. PICK w \in {0, MSGNUMWRAPAROUND} :
           /\ w \in Nat /\ base' = base + w
           /\ \A s \in Slots : procPid[s] # 0 => nextMsgNum'[s] = nextMsgNum[s] - w
           /\ \A s \in Slots : resetState'[s] /\ ~resetState[s] => nextMsgNum[s] < maxMsgNum
           /\ UNCHANGED <<procPid, hasMessages, queued>> /\ queued = maxMsgNum + base
           /\ \A s \in Slots : ~At(s, "r_copy") /\ ~At(s, "r_max") /\ ~At(s, "w_kick")
           /\ pc[b] \in {"w_loop", "r_clean"}
           /\ pc[b] = "w_loop" => pc'[b] \in {"w_sig", "w_loop"}
           /\ pc[b] = "r_clean" => pc'[b] \in {"r_sig", "r_ret"}
    BY Zenon, <1>19, CleanupFacts
  <2>2. \A c \in Slots : pc'[c] # "w_kick"
    BY Zenon, <2>1, OtherSlots DEF At
  <2>3. ASSUME NEW c \in Slots, Listening(c)' PROVE Told(c, queued)'
    <3>1. Listening(c) /\ procPid[c] # 0
      BY Zenon, <2>1, <2>3 DEF Listening, sendOnly
    <3>2. hasMessages[c] \/ (~resetState[c] /\ nextMsgNum[c] + base >= queued)
      BY Zenon, <2>1, <3>1 DEF IInv, Flags, Told
    <3>3. CASE hasMessages[c]
      BY Zenon, <2>1, <3>3 DEF Told
    <3>4. CASE ~resetState[c] /\ nextMsgNum[c] + base >= queued
      <4>1. nextMsgNum[c] \in Int
        BY Zenon
      <4>2. nextMsgNum[c] >= maxMsgNum
        BY SMTT(30), <2>1, <3>4, <4>1
      <4>3. ~ (nextMsgNum[c] < maxMsgNum)
        BY Zenon, <4>1, <4>2, CounterTypes, NotLess
      <4>4. ~resetState'[c] /\ nextMsgNum'[c] = nextMsgNum[c] - w
        BY Zenon, <2>1, <3>1, <3>4, <4>3
      <4>5. nextMsgNum'[c] + base' = nextMsgNum[c] + base
        BY SMTT(30), <2>1, <4>1, <4>4
      <4> QED
        BY Zenon, <2>1, <3>4, <4>4, <4>5 DEF Told
    <3> QED
      BY Zenon, <3>2, <3>3, <3>4
  <2> QED
    BY Zenon, <2>2, <2>3 DEF Flags, At
<1>20. CASE ReceiveReturn(b)
  <2>1. UNCHANGED <<base, maxMsgNum, queued, nextMsgNum, resetState, hasMessages, procPid>>
    BY Zenon, <1>20 DEF ReceiveReturn
  <2>2. pc[b] \notin {"r_max", "r_copy"} /\ pc'[b] # "w_kick"
    BY Zenon, <1>20, ReturnFacts DEF ReceiveReturn, At
  <2>3. \A n \in Int : Listening(b)' /\ n <= maxMsgNum + base /\ (Listening(b) => Told(b, n)) => Told(b, n)'
    BY Zenon, <2>1, <2>2 DEF Told, At, Listening, sendOnly
  <2> QED
    BY Zenon, <2>1, <2>2, <2>3, FlagsOwn
<1>21. CASE SendProcSignal(b)
  <2>1. UNCHANGED <<base, maxMsgNum, queued, nextMsgNum, resetState, hasMessages, procPid>>
    BY Zenon, <1>21 DEF SendProcSignal
  <2>2. pc[b] \notin {"r_max", "r_copy"} /\ pc'[b] # "w_kick"
    BY SMTT(30), <1>21, GotoFacts DEF SendProcSignal, At
  <2>3. \A n \in Int : Listening(b)' /\ n <= maxMsgNum + base /\ (Listening(b) => Told(b, n)) => Told(b, n)'
    BY Zenon, <2>1, <2>2 DEF Told, At, Listening, sendOnly
  <2> QED
    BY Zenon, <2>1, <2>2, <2>3, FlagsOwn
<1> QED
  BY Zenon, <1>1, <1>2, <1>3, <1>4, <1>5, <1>6, <1>7, <1>8, <1>9, <1>10, <1>11, <1>12, <1>13, <1>14,
     <1>15, <1>16, <1>17, <1>18, <1>19, <1>20, <1>21 DEF Action, Step

LEMMA QueuedGrows == ASSUME IInv, NEW b \in Slots, Action(b) PROVE queued <= queued' /\ queued' \in Int
<1> USE CounterTypes DEF shared
<1>1. CASE InsertDone(b)
  <2>1. queued' = maxMsgNum + base /\ queued <= maxMsgNum + base
    BY Zenon, <1>1 DEF InsertDone, IInv, Counters
  <2> QED
    BY <2>1
<1>2. CASE ~InsertDone(b)
  <2>1. queued' = queued
    BY Zenon, <1>2 DEF Action, Step, SharedInvalBackendInit, CleanupInvalidationState,
                SendSharedInvalidMessages, ReceiveSharedInvalidMessages, InsertLock, InsertWrite,
                InsertKick, InsertPublish, InsertCleanup, ReceiveCleanup, SICleanupQueue,
                Apply, LoopEnd, GetNothing, GetLock, GetMax, GetReset,
                GetCopy, CaughtUp, ReceiveReturn, SendProcSignal
  <2> QED
    BY <2>1
<1> QED
  BY Zenon, <1>1, <1>2

LEMMA GoalsStep == ASSUME IInv, NEW b \in Slots, Action(b) PROVE Goals'
<1>n. /\ queued \in Nat /\ maxMsgNum \in Nat /\ base \in Nat /\ queued <= maxMsgNum + base
      /\ queued <= queued' /\ queued' \in Int
  BY Zenon, CounterTypes, QueuedGrows DEF IInv, Counters
<1>g. ASSUME NEW c \in Slots, NEW d \in Depths, d <= depth[c]
      PROVE  GoalOK(c, d) /\ goal[c][d] \in Int /\ goal[c][d] <= queued
  BY SMTT(90), <1>g, CallTypes DEF IInv, Goals, GoalOK
<1>h. ASSUME NEW c \in Slots, NEW d \in Depths, d <= depth[c] PROVE goal[c][d] <= queued'
  <2>1. goal[c][d] \in Int /\ goal[c][d] <= queued
    BY Zenon, <1>g, <1>h
  <2> QED
    BY SMTT(30), <1>n, <2>1
<1>0. \A d \in Depths : goal[b][d] \in Int /\ (d <= depth[b] => GoalOK(b, d) /\ goal[b][d] <= queued)
  BY <1>g, CallTypes
<1>q. \A d \in Depths : d <= depth[b] => goal[b][d] <= queued'
  BY Zenon, <1>h
<1>c. CallOK(b)
  BY Zenon DEF IInv, Calls
<1>zero. ASSUME depth'[b] = 0 PROVE \A d \in Depths : d <= depth'[b] => GoalOK(b, d)'
  BY <1>zero DEF Depths
<1>other. ASSUME NEW c \in Slots, c # b PROVE \A d \in Depths : d <= depth'[c] => GoalOK(c, d)'
  <2>1. /\ pc'[c] = pc[c] /\ max'[c] = max[c] /\ nextmsg'[c] = nextmsg[c]
        /\ nummsgs'[c] = nummsgs[c] /\ seen'[c] = seen[c] /\ depth'[c] = depth[c]
        /\ at'[c] = at[c] /\ goal'[c] = goal[c]
    BY Zenon, <1>other, OtherSlots
  <2>2. At(c, "r_copy") => base' = base
    <3>1. PICK w \in Nat : base' = base + w /\ (At(c, "r_copy") => w = 0)
      BY Zenon, SharedShift
    <3> QED
      BY <1>n, <3>1
  <2>3. ASSUME NEW d \in Depths, d <= depth[c] PROVE GoalOK(c, d)'
    <3>1. GoalOK(c, d) /\ goal[c][d] <= queued'
      BY Zenon, <1>g, <1>h, <2>3
    <3> QED
      BY Zenon, <2>1, <2>2, <3>1 DEF GoalOK, At, Left
  <2> QED
    BY Zenon, <2>1, <2>3
<1> USE DEF shared, seg, cursor, reading, calls
<1>1. ASSUME SharedInvalBackendInit(b) PROVE \A d \in Depths : d <= depth'[b] => GoalOK(b, d)'
  <2>1. depth'[b] = 0
    <3>1. pc[b] = "off" /\ UNCHANGED depth
      BY Zenon, <1>1, FreeIsOff DEF SharedInvalBackendInit
    <3> QED
      BY Zenon, <3>1, <1>c DEF CallOK, Receiving
  <2> QED
    BY Zenon, <1>zero, <2>1
<1>2. ASSUME CleanupInvalidationState(b) PROVE \A d \in Depths : d <= depth'[b] => GoalOK(b, d)'
  <2>1. depth'[b] = 0
    <3>1. ~Receiving(b) /\ UNCHANGED depth
      BY Zenon, <1>2 DEF CleanupInvalidationState, At, Receiving
    <3> QED
      BY Zenon, <3>1, <1>c DEF CallOK
  <2> QED
    BY Zenon, <1>zero, <2>1
<1>3. ASSUME SendSharedInvalidMessages(b) PROVE \A d \in Depths : d <= depth'[b] => GoalOK(b, d)'
  <2>1. depth'[b] = 0
    <3>1. ~Receiving(b) /\ UNCHANGED depth
      BY Zenon, <1>3 DEF SendSharedInvalidMessages, At, Receiving
    <3> QED
      BY Zenon, <3>1, <1>c DEF CallOK
  <2> QED
    BY Zenon, <1>zero, <2>1
<1>4. ASSUME ReceiveSharedInvalidMessages(b) PROVE \A d \in Depths : d <= depth'[b] => GoalOK(b, d)'
  <2>1. CASE TRUE
    <3>1. Enter(b) /\ seen' = seen
      BY Zenon, <1>4 DEF ReceiveSharedInvalidMessages
    <3>2. ASSUME NEW d \in Depths, d <= depth'[b] PROVE GoalOK(b, d)'
      <4>1. depth'[b] = depth[b] + 1 /\ pc'[b] = "r_apply" /\ depth[b] + 1 \in Depths
            /\ at'[b][depth[b] + 1] = "pending" /\ goal'[b][depth[b] + 1] = queued
            /\ \A e \in Depths : e <= depth[b] => at'[b][e] = at[b][e] /\ goal'[b][e] = goal[b][e]
        BY Zenon, <3>1, EnterFacts
      <4>2. \A e \in Depths : e <= depth[b] + 1 => e <= depth[b] \/ e = depth[b] + 1
        BY CallTypes DEF Depths
      <4>3. at'[b][depth'[b]] = "pending"
        BY Zenon, <4>1
      <4>4. CASE d <= depth[b]
        <5>1. GoalOK(b, d) /\ goal[b][d] <= queued' /\ goal[b][d] <= queued /\ goal'[b][d] = goal[b][d]
              /\ at'[b][d] = at[b][d]
          BY Zenon, <1>0, <1>q, <4>1, <4>4
        <5>2. ASSUME NEW e \in Depths, d <= e, e <= depth[b] + 1 PROVE goal'[b][d] <= goal'[b][e]
          BY Zenon, <4>1, <4>2, <5>1, <5>2 DEF GoalOK
        <5>3. at[b][d] = "done" => goal[b][d] <= seen'[b]
          BY Zenon, <5>1, <3>1 DEF GoalOK
        <5> QED
          BY Zenon, <4>1, <4>3, <5>1, <5>2, <5>3 DEF GoalOK, At
      <4>5. CASE d = depth[b] + 1
        <5>1. \A e \in Depths : d <= e /\ e <= depth[b] + 1 => e = d
          BY <4>5, CallTypes DEF Depths
        <5>2. queued <= queued' /\ queued <= queued
          BY <1>n
        <5> QED
          BY Zenon, <4>1, <4>5, <5>1, <5>2 DEF GoalOK, At
      <4> QED
        BY Zenon, <3>2, <4>1, <4>2, <4>4, <4>5
    <3> QED
      BY Zenon, <3>2
  <2> QED
    BY Zenon, <2>1
<1>5. ASSUME InsertLock(b) PROVE \A d \in Depths : d <= depth'[b] => GoalOK(b, d)'
  <2>1. depth'[b] = 0
    <3>1. ~Receiving(b) /\ UNCHANGED depth
      BY Zenon, <1>5 DEF InsertLock, At, Receiving
    <3> QED
      BY Zenon, <3>1, <1>c DEF CallOK
  <2> QED
    BY Zenon, <1>zero, <2>1
<1>6. ASSUME InsertCleanup(b) PROVE \A d \in Depths : d <= depth'[b] => GoalOK(b, d)'
  <2>1. depth'[b] = 0
    <3>1. pc[b] = "w_loop" /\ UNCHANGED depth
      BY Zenon, <1>6 DEF InsertCleanup, At, SICleanupQueue
    <3> QED
      BY Zenon, <3>1, <1>c DEF CallOK, Receiving
  <2> QED
    BY Zenon, <1>zero, <2>1
<1>7. ASSUME InsertWrite(b) PROVE \A d \in Depths : d <= depth'[b] => GoalOK(b, d)'
  <2>1. depth'[b] = 0
    <3>1. ~Receiving(b) /\ UNCHANGED depth
      BY Zenon, <1>7 DEF InsertWrite, At, Receiving
    <3> QED
      BY Zenon, <3>1, <1>c DEF CallOK
  <2> QED
    BY Zenon, <1>zero, <2>1
<1>8. ASSUME InsertPublish(b) PROVE \A d \in Depths : d <= depth'[b] => GoalOK(b, d)'
  <2>1. depth'[b] = 0
    <3>1. ~Receiving(b) /\ UNCHANGED depth
      BY Zenon, <1>8 DEF InsertPublish, At, Receiving
    <3> QED
      BY Zenon, <3>1, <1>c DEF CallOK
  <2> QED
    BY Zenon, <1>zero, <2>1
<1>9. ASSUME InsertKick(b) PROVE \A d \in Depths : d <= depth'[b] => GoalOK(b, d)'
  <2>1. depth'[b] = 0
    <3>1. ~Receiving(b) /\ UNCHANGED depth
      BY Zenon, <1>9 DEF InsertKick, At, Receiving
    <3> QED
      BY Zenon, <3>1, <1>c DEF CallOK
  <2> QED
    BY Zenon, <1>zero, <2>1
<1>10. ASSUME InsertDone(b) PROVE \A d \in Depths : d <= depth'[b] => GoalOK(b, d)'
  <2>1. depth'[b] = 0
    <3>1. ~Receiving(b) /\ UNCHANGED depth
      BY Zenon, <1>10 DEF InsertDone, At, Receiving
    <3> QED
      BY Zenon, <3>1, <1>c DEF CallOK
  <2> QED
    BY Zenon, <1>zero, <2>1
<1>11. ASSUME Apply(b) PROVE \A d \in Depths : d <= depth'[b] => GoalOK(b, d)'
  <2>0. /\ seen'[b] = seen[b] + 1 /\ nextmsg'[b] = nextmsg[b] + 1 /\ nummsgs' = nummsgs
        /\ pc[b] = "r_apply" /\ seen[b] \in Int /\ nextmsg[b] \in Nat /\ nummsgs[b] \in Nat
    BY Zenon, <1>11, ApplyFacts, ArrayTypes
  <2>s. \A d \in Depths : goal[b][d] <= seen[b] => goal[b][d] <= seen'[b]
    <3>1. \A d \in Depths : goal[b][d] \in Int
      BY Zenon, <1>0
    <3> QED
      BY SMTT(30), <2>0, <3>1
  <2>1. CASE UNCHANGED <<pc, calls>>
    <3>1. UNCHANGED <<depth, at, goal>> /\ pc'[b] = "r_apply"
      BY Zenon, <2>0, <2>1 DEF calls
    <3>2. ASSUME NEW d \in Depths, d <= depth[b] PROVE GoalOK(b, d)'
      <4>1. GoalOK(b, d) /\ goal[b][d] <= queued' /\ goal[b][d] \in Int
        BY Zenon, <1>0, <1>q, <3>2
      <4>2. seen'[b] + Left(b)' = seen[b] + Left(b)
        BY SMTT(30), <2>0 DEF Left
      <4>3. goal[b][d] <= seen[b] => goal[b][d] <= seen'[b]
        BY Zenon, <2>s
      <4> QED
        BY Zenon, <2>0, <3>1, <4>1, <4>2, <4>3 DEF GoalOK, At
    <3> QED
      BY Zenon, <3>1, <3>2
  <2>2. CASE Enter(b)
    <3>1. Enter(b)
      BY Zenon, <2>2
    <3>2. ASSUME NEW d \in Depths, d <= depth'[b] PROVE GoalOK(b, d)'
      <4>1. depth'[b] = depth[b] + 1 /\ pc'[b] = "r_apply" /\ depth[b] + 1 \in Depths
            /\ at'[b][depth[b] + 1] = "pending" /\ goal'[b][depth[b] + 1] = queued
            /\ \A e \in Depths : e <= depth[b] => at'[b][e] = at[b][e] /\ goal'[b][e] = goal[b][e]
        BY Zenon, <3>1, EnterFacts
      <4>2. \A e \in Depths : e <= depth[b] + 1 => e <= depth[b] \/ e = depth[b] + 1
        BY CallTypes DEF Depths
      <4>3. at'[b][depth'[b]] = "pending"
        BY Zenon, <4>1
      <4>4. CASE d <= depth[b]
        <5>1. GoalOK(b, d) /\ goal[b][d] <= queued' /\ goal[b][d] <= queued /\ goal'[b][d] = goal[b][d]
              /\ at'[b][d] = at[b][d]
          BY Zenon, <1>0, <1>q, <4>1, <4>4
        <5>2. ASSUME NEW e \in Depths, d <= e, e <= depth[b] + 1 PROVE goal'[b][d] <= goal'[b][e]
          BY Zenon, <4>1, <4>2, <5>1, <5>2 DEF GoalOK
        <5>3. at[b][d] = "done" => goal[b][d] <= seen'[b]
          BY Zenon, <5>1, <2>s DEF GoalOK
        <5> QED
          BY Zenon, <4>1, <4>3, <5>1, <5>2, <5>3 DEF GoalOK, At
      <4>5. CASE d = depth[b] + 1
        <5>1. \A e \in Depths : d <= e /\ e <= depth[b] + 1 => e = d
          BY <4>5, CallTypes DEF Depths
        <5>2. queued <= queued' /\ queued <= queued
          BY <1>n
        <5> QED
          BY Zenon, <4>1, <4>5, <5>1, <5>2 DEF GoalOK, At
      <4> QED
        BY Zenon, <3>2, <4>1, <4>2, <4>4, <4>5
    <3> QED
      BY Zenon, <3>2
  <2>3. CASE depth' = [depth EXCEPT ![b] = 0]
    <3>1. depth'[b] = 0
      BY Zenon, <2>3, CallTypes
    <3> QED
      BY Zenon, <3>1, <1>zero
  <2> QED
    BY Zenon, <1>11, <2>1, <2>2, <2>3 DEF Apply
<1>12. ASSUME LoopEnd(b) PROVE \A d \in Depths : d <= depth'[b] => GoalOK(b, d)'
  <2>1. /\ depth[b] \in Depths /\ UNCHANGED <<depth, goal, seen>> /\ pc[b] = "r_apply"
        /\ nextmsg[b] >= nummsgs[b]
    BY Zenon, <1>12, LoopEndFacts DEF LoopEnd
  <2>2. seen[b] \in Int /\ nextmsg[b] \in Nat /\ nummsgs[b] \in Nat /\ MAXINVALMSGS \in Nat
    BY Zenon, ArrayTypes
  <2>3. nextmsg[b] <= nummsgs[b] /\ nummsgs[b] <= MAXINVALMSGS
    BY Zenon DEF IInv, Arrays, ArrayOK
  <2>4. Left(b) = 0
    BY SMTT(30), <2>1, <2>2, <2>3 DEF Left
  <2>5. ASSUME NEW d \in Depths, d <= depth[b] PROVE GoalOK(b, d)'
    <3>1. GoalOK(b, d) /\ goal[b][d] <= queued' /\ goal[b][d] \in Int
      BY Zenon, <1>0, <1>q, <2>5
    <3>2. CASE at'[b][depth[b]] = "loop" /\ pc'[b] = "r_get"
               /\ \A e \in Depths : e # depth[b] => at'[b][e] = at[b][e]
      <4>1. at'[b][d] = "done" => at[b][d] = "done"
        BY Zenon, <2>1, <3>2
      <4> QED
        BY Zenon, <2>1, <3>1, <3>2, <4>1 DEF GoalOK, At
    <3>3. CASE at'[b] = at[b] /\ pc'[b] = "r_done" /\ at[b][depth[b]] # "pending" /\ nummsgs[b] # MAXINVALMSGS
      <4>1. at[b][depth[b]] = "loop"
        BY Zenon, <1>c, <2>1, <3>3 DEF CallOK, At
      <4>2. nummsgs[b] < MAXINVALMSGS
        BY SMTT(30), <2>2, <2>3, <3>3
      <4>3. goal[b][d] <= seen[b] + Left(b)
        BY Zenon, <2>1, <3>1, <4>1, <4>2 DEF GoalOK, At
      <4>4. goal[b][d] <= seen[b]
        BY SMTT(30), <2>2, <2>4, <4>3
      <4> QED
        BY Zenon, <2>1, <3>1, <3>3, <4>4 DEF GoalOK, At
    <3> QED
      BY Zenon, <1>12, <3>2, <3>3, LoopEndFacts
  <2> QED
    BY Zenon, <2>1, <2>5
<1>13. ASSUME GetNothing(b) PROVE \A d \in Depths : d <= depth'[b] => GoalOK(b, d)'
  <2>1. UNCHANGED <<depth, at, goal, seen, nummsgs, nextmsg>> /\ pc[b] = "r_get" /\ ~hasMessages[b]
    BY Zenon, <1>13 DEF GetNothing, At
  <2>2. pc'[b] = "r_done"
    BY Zenon, <1>13, GotoFacts DEF GetNothing
  <2>4. Listening(b)
    BY Zenon, <2>1 DEF IInv, Connected, Receiving, Listening, At
  <2>5. ~resetState[b] /\ nextMsgNum[b] + base >= queued
    <3>1. Told(b, queued)
      BY Zenon, <2>4 DEF IInv, Flags
    <3> QED
      BY Zenon, <2>1, <3>1 DEF Told, At
  <2>6. seen[b] >= queued
    <3>1. seen[b] + Left(b) = nextMsgNum[b] + base
      BY Zenon, <2>4, <2>5 DEF IInv, Positions, PositionOK
    <3>2. Left(b) = 0
      BY SMTT(30), <2>1 DEF IInv, Arrays, ArrayOK, Left
    <3>3. nextMsgNum[b] \in Int /\ seen[b] \in Int
      BY Zenon, CounterTypes, ArrayTypes
    <3> QED
      BY SMTT(30), <1>n, <2>5, <3>1, <3>2, <3>3
  <2>3. ASSUME NEW d \in Depths, d <= depth[b] PROVE GoalOK(b, d)'
    <3>1. GoalOK(b, d) /\ goal[b][d] <= queued' /\ goal[b][d] <= queued /\ goal[b][d] \in Int
      BY Zenon, <1>0, <1>q, <2>3
    <3>2. goal[b][d] <= seen[b]
      <4>1. seen[b] \in Int
        BY Zenon, ArrayTypes
      <4> QED
        BY SMTT(30), <1>n, <2>6, <3>1, <4>1
    <3> QED
      BY Zenon, <2>1, <2>2, <3>1, <3>2 DEF GoalOK, At, Left
  <2> QED
    BY Zenon, <2>1, <2>3
<1>14. ASSUME GetLock(b) PROVE \A d \in Depths : d <= depth'[b] => GoalOK(b, d)'
  <2>1. UNCHANGED <<depth, at, goal, seen, nummsgs, nextmsg>>
    BY Zenon, <1>14 DEF GetLock
  <2>2. pc'[b] = "r_max"
    BY Zenon, <1>14, GotoFacts DEF GetLock
  <2>3. ASSUME NEW d \in Depths, d <= depth[b] PROVE GoalOK(b, d)'
    <3>1. GoalOK(b, d) /\ goal[b][d] <= queued'
      BY Zenon, <1>0, <1>q, <2>3
    <3> QED
      BY Zenon, <2>1, <2>2, <3>1 DEF GoalOK, At, Left
  <2> QED
    BY Zenon, <2>1, <2>3
<1>15. ASSUME GetMax(b) PROVE \A d \in Depths : d <= depth'[b] => GoalOK(b, d)'
  <2>1. UNCHANGED <<depth, at, goal, seen, nummsgs, nextmsg, base>>
    BY Zenon, <1>15 DEF GetMax
  <2>2. pc'[b] = "r_copy" /\ max'[b] = maxMsgNum
    BY Zenon, <1>15, GotoFacts, CounterTypes DEF GetMax
  <2>3. ASSUME NEW d \in Depths, d <= depth[b] PROVE GoalOK(b, d)'
    <3>1. GoalOK(b, d) /\ goal[b][d] <= queued' /\ goal[b][d] <= queued /\ goal[b][d] \in Int
      BY Zenon, <1>0, <1>q, <2>3
    <3>2. goal[b][d] <= maxMsgNum + base
      BY SMTT(30), <3>1, <1>n
    <3> QED
      BY Zenon, <2>1, <2>2, <3>1, <3>2 DEF GoalOK, At, Left
  <2> QED
    BY Zenon, <2>1, <2>3
<1>16. ASSUME GetReset(b) PROVE \A d \in Depths : d <= depth'[b] => GoalOK(b, d)'
  <2>0. pc[b] = "r_copy" /\ seen'[b] = max[b] + base
    BY Zenon, <1>16, ArrayTypes DEF GetReset, At
  <2>1. pc[b] = "r_copy" /\ seen'[b] = max[b] + base /\ depth[b] \in Depths
    BY Zenon, <1>16, <2>0, ResetFacts
  <2>2. ASSUME NEW d \in Depths, d <= depth[b]
        PROVE  /\ goal[b][d] <= seen'[b] /\ goal[b][d] <= queued' /\ goal[b][d] <= queued
               /\ \A e \in Depths : d <= e /\ e <= depth[b] => goal[b][d] <= goal[b][e]
    BY Zenon, <1>0, <1>q, <2>1, <2>2 DEF GoalOK, At
  <2>3. CASE pc'[b] = "r_done" /\ UNCHANGED calls
    <3>1. UNCHANGED <<depth, at, goal>>
      BY Zenon, <2>3 DEF calls
    <3>2. ASSUME NEW d \in Depths, d <= depth[b] PROVE GoalOK(b, d)'
      BY Zenon, <2>2, <2>3, <3>1, <3>2 DEF GoalOK, At
    <3> QED
      BY Zenon, <3>1, <3>2
  <2>4. CASE /\ depth[b] + 1 \in Depths /\ depth'[b] = depth[b] + 1 /\ pc'[b] = "r_apply"
             /\ at'[b][depth[b] + 1] = "pending" /\ goal'[b][depth[b] + 1] = queued
             /\ \A d \in Depths : d <= depth[b] => goal'[b][d] = goal[b][d]
    <3>1. \A e \in Depths : e <= depth[b] + 1 => e <= depth[b] \/ e = depth[b] + 1
      BY CallTypes DEF Depths
    <3>2. at'[b][depth'[b]] = "pending"
      BY Zenon, <2>4
    <3>3. ASSUME NEW d \in Depths, d <= depth[b] PROVE GoalOK(b, d)'
      <4>1. /\ goal'[b][d] <= seen'[b] /\ goal'[b][d] <= queued'
        BY Zenon, <2>2, <2>4, <3>3
      <4>2. ASSUME NEW e \in Depths, d <= e, e <= depth[b] + 1 PROVE goal'[b][d] <= goal'[b][e]
        BY Zenon, <2>2, <2>4, <3>1, <3>3, <4>2
      <4> QED
        BY Zenon, <2>4, <3>2, <4>1, <4>2 DEF GoalOK, At
    <3>4. ASSUME NEW d \in Depths, d = depth[b] + 1 PROVE GoalOK(b, d)'
      <4>1. \A e \in Depths : d <= e /\ e <= depth[b] + 1 => e = d
        BY <3>4, CallTypes DEF Depths
      <4>2. queued <= queued' /\ queued <= queued
        BY <1>n
      <4> QED
        BY Zenon, <2>4, <3>2, <3>4, <4>1, <4>2 DEF GoalOK, At
    <3> QED
      BY Zenon, <2>4, <3>1, <3>3, <3>4
  <2> QED
    BY Zenon, <1>16, <2>3, <2>4, ResetFacts
<1>17. ASSUME GetCopy(b) PROVE \A d \in Depths : d <= depth'[b] => GoalOK(b, d)'
  <2>1. PICK n \in 0 .. MAXINVALMSGS :
           /\ nummsgs'[b] = n /\ nextMsgNum'[b] = nextMsgNum[b] + n
           /\ n < MAXINVALMSGS => nextMsgNum'[b] = max[b]
           /\ nextmsg[b] = 0 /\ UNCHANGED <<nextmsg, seen, base>>
           /\ Listening(b) /\ pc[b] = "r_copy" /\ pc'[b] = "r_apply"
    BY Zenon, <1>17, CopyFacts
  <2>2. UNCHANGED <<depth, at, goal>> /\ ~resetState[b]
    BY Zenon, <1>17 DEF GetCopy, calls
  <2>3. seen[b] = nextMsgNum[b] + base /\ n \in Nat /\ seen[b] \in Int /\ nextMsgNum[b] \in Int /\ max[b] \in Int
    <3>1. n \in Nat /\ seen[b] \in Int /\ nextMsgNum[b] \in Int /\ max[b] \in Int
      BY SMTT(30), ArrayTypes, CounterTypes
    <3>2. Left(b) = 0
      BY SMTT(30), <2>1 DEF IInv, Arrays, ArrayOK, Left
    <3>3. seen[b] + Left(b) = nextMsgNum[b] + base
      BY Zenon, <2>1, <2>2 DEF IInv, Positions, PositionOK
    <3> QED
      BY SMTT(90), <3>1, <3>2, <3>3
  <2>4. Left(b)' = n
    <3>1. nummsgs'[b] = n /\ nextmsg'[b] = 0
      BY Zenon, <2>1
    <3> QED
      BY SMTT(30), <2>3, <3>1 DEF Left
  <2>5. n < MAXINVALMSGS => seen[b] + n = max[b] + base
    <3>1. n < MAXINVALMSGS => nextMsgNum[b] + n = max[b]
      BY Zenon, <2>1
    <3> QED
      BY SMTT(30), <1>n, <2>3, <3>1
  <2>6. ASSUME NEW d \in Depths, d <= depth[b] PROVE GoalOK(b, d)'
    <3>1. GoalOK(b, d) /\ goal[b][d] <= queued'
      BY Zenon, <1>0, <1>q, <2>6
    <3>2. goal[b][d] <= max[b] + base
      BY Zenon, <2>1, <3>1 DEF GoalOK, At
    <3>3. n < MAXINVALMSGS => goal[b][d] <= seen[b] + n
      BY Zenon, <2>5, <3>2
    <3> QED
      BY Zenon, <2>1, <2>2, <2>4, <3>1, <3>3 DEF GoalOK, At
  <2> QED
    BY Zenon, <2>2, <2>6
<1>18. ASSUME CaughtUp(b) PROVE \A d \in Depths : d <= depth'[b] => GoalOK(b, d)'
  <2>1. UNCHANGED <<depth, at, goal, seen, nummsgs, nextmsg>>
    BY Zenon, <1>18 DEF CaughtUp
  <2>2. pc[b] \in {"r_done", "r_clean", "r_sig", "r_ret"} /\ pc'[b] \in {"r_clean", "r_sig", "r_ret"}
    BY Zenon, <1>18, GotoFacts DEF CaughtUp, At
  <2>3. ASSUME NEW d \in Depths, d <= depth[b] PROVE GoalOK(b, d)'
    <3>1. GoalOK(b, d) /\ goal[b][d] <= queued'
      BY Zenon, <1>0, <1>q, <2>3
    <3> QED
      BY Zenon, <2>1, <2>2, <3>1 DEF GoalOK, At, Left
  <2> QED
    BY Zenon, <2>1, <2>3
<1>19. ASSUME ReceiveCleanup(b) PROVE \A d \in Depths : d <= depth'[b] => GoalOK(b, d)'
  <2>1. UNCHANGED <<depth, at, goal, seen, nummsgs, nextmsg>>
    BY Zenon, <1>19 DEF ReceiveCleanup, SICleanupQueue
  <2>2. pc[b] \in {"r_done", "r_clean", "r_sig", "r_ret"} /\ pc'[b] \in {"r_clean", "r_sig", "r_ret"}
    BY Zenon, <1>19, CleanupFacts DEF ReceiveCleanup, At
  <2>3. ASSUME NEW d \in Depths, d <= depth[b] PROVE GoalOK(b, d)'
    <3>1. GoalOK(b, d) /\ goal[b][d] <= queued'
      BY Zenon, <1>0, <1>q, <2>3
    <3> QED
      BY Zenon, <2>1, <2>2, <3>1 DEF GoalOK, At, Left
  <2> QED
    BY Zenon, <2>1, <2>3
<1>20. ASSUME ReceiveReturn(b) PROVE \A d \in Depths : d <= depth'[b] => GoalOK(b, d)'
  <2>1. /\ UNCHANGED <<seen, nextmsg, nummsgs>> /\ pc[b] = "r_ret" /\ depth[b] \in Depths
        /\ depth'[b] = depth[b] - 1
        /\ \A d \in Depths : d <= depth[b] - 1 => at'[b][d] = at[b][d] /\ goal'[b][d] = goal[b][d]
        /\ pc'[b] \in {"idle", "r_done", "r_apply"}
    BY Zenon, <1>20, ReturnFacts DEF ReceiveReturn, At
  <2>2. Left(b) = 0 /\ Left(b)' = Left(b) /\ seen[b] \in Int
    BY Zenon, <2>1, ArrayTypes DEF IInv, Arrays, ArrayOK, Left
  <2>3. \A d \in Depths : d <= depth[b] - 1 => d <= depth[b]
    BY CallTypes DEF Depths
  <2>4. ASSUME NEW d \in Depths, d <= depth[b] - 1 PROVE GoalOK(b, d)'
    <3>1. GoalOK(b, d) /\ goal[b][d] <= queued' /\ goal'[b][d] = goal[b][d]
      BY Zenon, <1>0, <1>q, <2>1, <2>3, <2>4
    <3>2. goal[b][d] <= seen[b]
      BY Zenon, <2>1, <3>1 DEF GoalOK
    <3>3. seen[b] + Left(b)' = seen[b]
      BY <2>2
    <3>4. ASSUME NEW e \in Depths, d <= e, e <= depth[b] - 1 PROVE goal'[b][d] <= goal'[b][e]
      BY Zenon, <2>1, <2>3, <3>1, <3>4 DEF GoalOK
    <3> QED
      BY Zenon, <2>1, <3>1, <3>2, <3>3, <3>4 DEF GoalOK, At
  <2> QED
    BY Zenon, <2>1, <2>4
<1>21. ASSUME SendProcSignal(b) PROVE \A d \in Depths : d <= depth'[b] => GoalOK(b, d)'
  <2>1. CASE At(b, "w_sig")
    <3>1. ~Receiving(b) /\ UNCHANGED depth
      BY Zenon, <1>21, <2>1 DEF SendProcSignal, At, Receiving
    <3>2. depth'[b] = 0
      BY Zenon, <3>1, <1>c DEF CallOK
    <3> QED
      BY Zenon, <3>2, <1>zero
  <2>2. CASE ~At(b, "w_sig")
    <3>1. UNCHANGED <<depth, at, goal, seen, nummsgs, nextmsg>>
      BY Zenon, <1>21 DEF SendProcSignal
    <3>2. pc[b] = "r_sig" /\ pc'[b] = "r_ret"
      BY Zenon, <1>21, <2>2, GotoFacts DEF SendProcSignal, At
    <3>3. ASSUME NEW d \in Depths, d <= depth[b] PROVE GoalOK(b, d)'
      <4>1. GoalOK(b, d) /\ goal[b][d] <= queued'
        BY Zenon, <1>0, <1>q, <3>3
      <4> QED
        BY Zenon, <3>1, <3>2, <4>1 DEF GoalOK, At, Left
    <3> QED
      BY Zenon, <3>1, <3>3
  <2> QED
    BY Zenon, <2>1, <2>2
<1> QED
  BY Zenon, <1>other, <1>1, <1>2, <1>3, <1>4, <1>5, <1>6, <1>7, <1>8, <1>9, <1>10, <1>11, <1>12, <1>13, <1>14,
     <1>15, <1>16, <1>17, <1>18, <1>19, <1>20, <1>21 DEF Action, Step, Goals

ScalarsTypes ==
  /\ minMsgNum \in Nat /\ maxMsgNum \in Nat /\ base \in Nat /\ queued \in Nat
  /\ nextThreshold \in Nat /\ lastBackend \in 0 .. MaxBackends /\ lastPid \in Nat
  /\ writeLock \in 0 .. MaxBackends

CellsTypes == buffer \in [0 .. MAXNUMMESSAGES - 1 -> Int]

StatesTypes == /\ procPid \in [Slots -> Nat] /\ nextMsgNum \in [Slots -> Int]
               /\ resetState \in [Slots -> BOOLEAN]

BooleansTypes == /\ signaled \in [Slots -> BOOLEAN] /\ hasMessages \in [Slots -> BOOLEAN]
                 /\ catchupInterruptPending \in [Slots -> BOOLEAN]

WritersTypes ==
  /\ todo \in [Slots -> Nat] /\ nthistime \in [Slots -> 0 .. WRITE_QUANTUM] /\ kick \in [Slots -> Nat]
  /\ target \in [Slots -> (0 .. MaxBackends) \X Nat]

ReadersTypes ==
  /\ max \in [Slots -> Int] /\ messages \in [Slots -> [1 .. MAXINVALMSGS -> Int]]
  /\ nextmsg \in [Slots -> Nat] /\ nummsgs \in [Slots -> Nat] /\ seen \in [Slots -> Int]

FramesTypes ==
  /\ depth \in [Slots -> 0 .. MaxDepth] /\ goal \in [Slots -> [Depths -> Nat]]
  /\ at \in [Slots -> [Depths -> {"none", "pending", "loop", "done"}]]

LEMMA ScalarsStep == ASSUME IInv, NEW b \in Slots, Action(b) PROVE ScalarsTypes'
<1>0. ScalarsTypes
  BY Zenon DEF IInv, TypeOK, ScalarsTypes
<1> USE <1>0, ConstantsAssumption
<1>1. CASE SharedInvalBackendInit(b)
  <2>1. UNCHANGED <<minMsgNum, maxMsgNum, base, queued, nextThreshold, writeLock>>
    BY Zenon, <1>1 DEF SharedInvalBackendInit
  <2>2. lastPid' = lastPid + 1 /\ lastBackend' \in {b, lastBackend}
    BY Zenon, <1>1 DEF SharedInvalBackendInit
  <2> QED
    BY SMTT(30), <2>1, <2>2, SlotFacts DEF ScalarsTypes
<1>2. CASE CleanupInvalidationState(b)
  <2>1. UNCHANGED <<minMsgNum, maxMsgNum, base, queued, nextThreshold, writeLock, lastPid>>
    BY Zenon, <1>2 DEF CleanupInvalidationState
  <2>2. lastBackend' \in 0 .. lastBackend
    BY SMTT(30), <1>2 DEF CleanupInvalidationState, ScalarsTypes
  <2> QED
    BY SMTT(30), <2>1, <2>2 DEF ScalarsTypes
<1>3. CASE InsertLock(b)
  BY SMTT(30), <1>3, SlotFacts DEF InsertLock, ScalarsTypes, seg
<1>4. CASE InsertCleanup(b)
  <2>1. PICK minFree \in 0 .. WRITE_QUANTUM : CleanQueue(minFree)
    BY Zenon, <1>4, CleanupCall
  <2>2. minMsgNum' \in Nat /\ maxMsgNum' \in Nat /\ base' \in Nat /\ nextThreshold' \in Nat
    BY Zenon, <2>1, CleanQueueFacts
  <2>3. UNCHANGED <<queued, lastBackend, lastPid>> /\ writeLock' \in {0, b}
    BY Zenon, <1>4 DEF InsertCleanup, SICleanupQueue
  <2> QED
    BY SMTT(30), <2>2, <2>3, SlotFacts DEF ScalarsTypes
<1>5. CASE ReceiveCleanup(b)
  <2>1. PICK minFree \in 0 .. WRITE_QUANTUM : CleanQueue(minFree)
    BY Zenon, <1>5, CleanupCall
  <2>2. minMsgNum' \in Nat /\ maxMsgNum' \in Nat /\ base' \in Nat /\ nextThreshold' \in Nat
    BY Zenon, <2>1, CleanQueueFacts
  <2>3. UNCHANGED <<queued, lastBackend, lastPid>> /\ writeLock' \in {0, b}
    BY Zenon, <1>5 DEF ReceiveCleanup, SICleanupQueue
  <2> QED
    BY SMTT(30), <2>2, <2>3, SlotFacts DEF ScalarsTypes
<1>6. CASE InsertPublish(b)
  <2>1. nthistime[b] \in Nat
    BY SMTT(30) DEF IInv, TypeOK
  <2> QED
    BY SMTT(30), <1>6, <2>1 DEF InsertPublish, ScalarsTypes
<1>7. CASE InsertDone(b)
  BY SMTT(30), <1>7 DEF InsertDone, ScalarsTypes, seg
<1>8. CASE ~ (SharedInvalBackendInit(b) \/ CleanupInvalidationState(b) \/ InsertLock(b) \/
            InsertCleanup(b) \/ ReceiveCleanup(b) \/ InsertPublish(b) \/ InsertDone(b))
  <2>1. UNCHANGED <<minMsgNum, maxMsgNum, base, queued, nextThreshold, lastBackend, lastPid, writeLock>>
    BY Zenon, <1>8 DEF Action, Step, SendSharedInvalidMessages, ReceiveSharedInvalidMessages,
       InsertWrite, InsertKick, Apply, LoopEnd, GetNothing, GetLock, GetMax, GetReset, GetCopy,
       CaughtUp, ReceiveReturn, SendProcSignal, Enter, shared, seg, cursor, reading, writing,
       calls
  <2> QED
    BY Zenon, <2>1 DEF ScalarsTypes
<1> QED
  BY Zenon, <1>1, <1>2, <1>3, <1>4, <1>5, <1>6, <1>7, <1>8

LEMMA CellsStep == ASSUME IInv, NEW b \in Slots, Action(b) PROVE CellsTypes'
<1>0. CellsTypes
  BY Zenon DEF IInv, TypeOK, CellsTypes
<1> USE <1>0
<1>1. CASE InsertWrite(b)
  <2>1. base \in Nat /\ maxMsgNum \in Nat /\ nthistime[b] \in Nat
    BY SMTT(90), CounterTypes DEF IInv, TypeOK
  <2>2. ASSUME NEW k \in 0 .. MAXNUMMESSAGES - 1
        PROVE  LET here == {n \in maxMsgNum .. maxMsgNum + nthistime[b] - 1 : n % MAXNUMMESSAGES = k}
               IN (IF here = {} THEN buffer[k] ELSE base + CHOOSE n \in here : TRUE) \in Int
    <3> DEFINE here == {n \in maxMsgNum .. maxMsgNum + nthistime[b] - 1 : n % MAXNUMMESSAGES = k}
    <3>1. here # {} => (CHOOSE n \in here : TRUE) \in here
      BY Zenon
    <3>2. \A n \in here : n \in Int
      BY <2>1
    <3>3. here # {} => (CHOOSE n \in here : TRUE) \in Int
      BY Zenon, <3>1, <3>2
    <3> HIDE DEF here
    <3>4. buffer[k] \in Int
      BY Zenon DEF CellsTypes
    <3>5. (IF here = {} THEN buffer[k] ELSE base + CHOOSE n \in here : TRUE) \in Int
      BY <2>1, <3>3, <3>4
    <3> QED
      BY Zenon, <3>5 DEF here
  <2> QED
    BY Zenon, <1>1, <2>2 DEF InsertWrite, CellsTypes
<1>2. CASE ~ (InsertWrite(b))
  <2>1. UNCHANGED <<buffer>>
    BY Zenon, <1>2 DEF Action, Step, SharedInvalBackendInit, CleanupInvalidationState,
       SendSharedInvalidMessages, ReceiveSharedInvalidMessages, InsertLock, InsertCleanup,
       InsertPublish, InsertKick, InsertDone, Apply, LoopEnd, GetNothing, GetLock, GetMax,
       GetReset, GetCopy, CaughtUp, ReceiveCleanup, ReceiveReturn, SendProcSignal, Enter,
       SICleanupQueue, shared, seg, cursor, reading, writing, calls
  <2> QED
    BY Zenon, <2>1 DEF CellsTypes
<1> QED
  BY Zenon, <1>1, <1>2

LEMMA StatesStep == ASSUME IInv, NEW b \in Slots, Action(b) PROVE StatesTypes'
<1>0. StatesTypes
  BY Zenon DEF IInv, TypeOK, StatesTypes
<1> USE <1>0
<1>1. CASE SharedInvalBackendInit(b)
  <2>1. maxMsgNum \in Int /\ lastPid + 1 \in Nat
    BY CounterTypes
  <2> QED
    BY Zenon, <1>1, <2>1 DEF SharedInvalBackendInit, StatesTypes
<1>2. CASE CleanupInvalidationState(b)
  BY SMTT(30), <1>2 DEF CleanupInvalidationState, StatesTypes
<1>3. CASE InsertCleanup(b)
  <2>1. PICK minFree \in 0 .. WRITE_QUANTUM : CleanQueue(minFree)
    BY Zenon, <1>3, CleanupCall
  <2>2. nextMsgNum' \in [Slots -> Int] /\ resetState' \in [Slots -> BOOLEAN]
    BY Zenon, <2>1, CleanQueueFacts
  <2>3. UNCHANGED procPid
    BY Zenon, <1>3 DEF InsertCleanup, SICleanupQueue
  <2> QED
    BY Zenon, <2>2, <2>3 DEF StatesTypes
<1>4. CASE ReceiveCleanup(b)
  <2>1. PICK minFree \in 0 .. WRITE_QUANTUM : CleanQueue(minFree)
    BY Zenon, <1>4, CleanupCall
  <2>2. nextMsgNum' \in [Slots -> Int] /\ resetState' \in [Slots -> BOOLEAN]
    BY Zenon, <2>1, CleanQueueFacts
  <2>3. UNCHANGED procPid
    BY Zenon, <1>4 DEF ReceiveCleanup, SICleanupQueue
  <2> QED
    BY Zenon, <2>2, <2>3 DEF StatesTypes
<1>5. CASE GetReset(b)
  <2>1. max[b] \in Int
    BY Zenon, CounterTypes
  <2> QED
    BY Zenon, <1>5, <2>1 DEF GetReset, StatesTypes, shared
<1>6. CASE GetCopy(b)
  <2>1. PICK n \in 0 .. MAXINVALMSGS : nextMsgNum'[b] = nextMsgNum[b] + n
    BY Zenon, <1>6, CopyFacts
  <2>2. nextMsgNum[b] + n \in Int
    BY CounterTypes
  <2>3. \E i : nextMsgNum' = [nextMsgNum EXCEPT ![b] = i]
    BY Zenon, <1>6 DEF GetCopy
  <2>4. nextMsgNum' = [nextMsgNum EXCEPT ![b] = nextMsgNum[b] + n]
    BY Zenon, <2>1, <2>3 DEF StatesTypes
  <2>5. UNCHANGED <<procPid, resetState>>
    BY Zenon, <1>6 DEF GetCopy, shared
  <2> QED
    BY Zenon, <2>2, <2>4, <2>5 DEF StatesTypes
<1>7. CASE ~ (SharedInvalBackendInit(b) \/ CleanupInvalidationState(b) \/ InsertCleanup(b) \/
            ReceiveCleanup(b) \/ GetReset(b) \/ GetCopy(b))
  <2>1. UNCHANGED <<procPid, nextMsgNum, resetState>>
    BY Zenon, <1>7 DEF Action, Step, SendSharedInvalidMessages, ReceiveSharedInvalidMessages,
       InsertLock, InsertWrite, InsertPublish, InsertKick, InsertDone, Apply, LoopEnd,
       GetNothing, GetLock, GetMax, CaughtUp, ReceiveReturn, SendProcSignal, Enter, shared,
       seg, cursor, reading, writing, calls
  <2> QED
    BY Zenon, <2>1 DEF StatesTypes
<1> QED
  BY Zenon, <1>1, <1>2, <1>3, <1>4, <1>5, <1>6, <1>7

LEMMA BooleansStep == ASSUME IInv, NEW b \in Slots, Action(b) PROVE BooleansTypes'
<1>0. BooleansTypes
  BY Zenon DEF IInv, TypeOK, BooleansTypes
<1> USE <1>0
<1>1. CASE SharedInvalBackendInit(b)
  BY Zenon, <1>1 DEF SharedInvalBackendInit, BooleansTypes
<1>2. CASE CleanupInvalidationState(b)
  BY Zenon, <1>2 DEF CleanupInvalidationState, BooleansTypes
<1>3. CASE InsertCleanup(b)
  BY Zenon, <1>3 DEF InsertCleanup, BooleansTypes, SICleanupQueue
<1>4. CASE ReceiveCleanup(b)
  BY Zenon, <1>4 DEF ReceiveCleanup, BooleansTypes, SICleanupQueue
<1>5. CASE InsertKick(b)
  BY Zenon, <1>5 DEF InsertKick, BooleansTypes
<1>6. CASE GetLock(b)
  BY Zenon, <1>6 DEF GetLock, BooleansTypes
<1>7. CASE GetReset(b)
  BY Zenon, <1>7 DEF GetReset, BooleansTypes
<1>8. CASE GetCopy(b)
  BY Zenon, <1>8 DEF GetCopy, BooleansTypes
<1>9. CASE CaughtUp(b)
  BY Zenon, <1>9 DEF CaughtUp, BooleansTypes, cursor
<1>10. CASE SendProcSignal(b)
  <2>1. catchupInterruptPending' =
          [catchupInterruptPending EXCEPT ![target[b][1]] = @ \/ procPid[target[b][1]] = target[b][2]]
    BY Zenon, <1>10 DEF SendProcSignal
  <2>2. catchupInterruptPending' \in [Slots -> BOOLEAN]
    BY <2>1, Zenon DEF BooleansTypes
  <2> QED
    BY Zenon, <1>10, <2>2 DEF SendProcSignal, BooleansTypes
<1>11. CASE ~ (SharedInvalBackendInit(b) \/ CleanupInvalidationState(b) \/ InsertCleanup(b) \/
            ReceiveCleanup(b) \/ InsertKick(b) \/ GetLock(b) \/ GetReset(b) \/ GetCopy(b) \/
            CaughtUp(b) \/ SendProcSignal(b))
  <2>1. UNCHANGED <<signaled, hasMessages, catchupInterruptPending>>
    BY Zenon, <1>11 DEF Action, Step, SendSharedInvalidMessages, ReceiveSharedInvalidMessages,
       InsertLock, InsertWrite, InsertPublish, InsertDone, Apply, LoopEnd, GetNothing, GetMax,
       ReceiveReturn, Enter, shared, seg, cursor, reading, writing, calls
  <2> QED
    BY Zenon, <2>1 DEF BooleansTypes
<1> QED
  BY Zenon, <1>1, <1>2, <1>3, <1>4, <1>5, <1>6, <1>7, <1>8, <1>9, <1>10, <1>11

LEMMA WritersStep == ASSUME IInv, NEW b \in Slots, Action(b) PROVE WritersTypes'
<1>0. WritersTypes
  BY Zenon DEF IInv, TypeOK, WritersTypes
<1> USE <1>0, ConstantsAssumption
<1>1. CASE SendSharedInvalidMessages(b)
  <2>1. PICK n \in 1 .. MaxBatch :
          /\ nthistime' = [nthistime EXCEPT ![b] = Smaller(n, WRITE_QUANTUM)]
          /\ todo' = [todo EXCEPT ![b] = n - Smaller(n, WRITE_QUANTUM)]
    BY Zenon, <1>1 DEF SendSharedInvalidMessages
  <2>2. Smaller(n, WRITE_QUANTUM) \in 0 .. WRITE_QUANTUM /\ n - Smaller(n, WRITE_QUANTUM) \in Nat
    BY DEF Smaller
  <2>3. UNCHANGED <<kick, target>>
    BY Zenon, <1>1 DEF SendSharedInvalidMessages
  <2> QED
    BY Zenon, <2>1, <2>2, <2>3 DEF WritersTypes
<1>2. CASE InsertCleanup(b)
  <2>1. UNCHANGED <<todo, nthistime, kick>>
    BY Zenon, <1>2 DEF InsertCleanup, SICleanupQueue, writing
  <2>2. target' = target \/ \E s \in Slots : target' = [target EXCEPT ![b] = <<s, procPid[s]>>]
    BY Zenon, <1>2 DEF InsertCleanup, SICleanupQueue
  <2>3. \A s \in Slots : <<s, procPid[s]>> \in (0 .. MaxBackends) \X Nat
    BY SlotFacts, CounterTypes
  <2> QED
    BY Zenon, <2>1, <2>2, <2>3 DEF WritersTypes
<1>3. CASE ReceiveCleanup(b)
  <2>1. UNCHANGED <<todo, nthistime, kick>>
    BY Zenon, <1>3 DEF ReceiveCleanup, SICleanupQueue, writing
  <2>2. target' = target \/ \E s \in Slots : target' = [target EXCEPT ![b] = <<s, procPid[s]>>]
    BY Zenon, <1>3 DEF ReceiveCleanup, SICleanupQueue
  <2>3. \A s \in Slots : <<s, procPid[s]>> \in (0 .. MaxBackends) \X Nat
    BY SlotFacts, CounterTypes
  <2> QED
    BY Zenon, <2>1, <2>2, <2>3 DEF WritersTypes
<1>4. CASE InsertPublish(b)
  BY Zenon, <1>4 DEF InsertPublish, WritersTypes
<1>5. CASE InsertKick(b)
  <2>1. kick[b] + 1 \in Nat
    BY DEF WritersTypes
  <2> QED
    BY Zenon, <1>5, <2>1 DEF InsertKick, WritersTypes
<1>6. CASE InsertDone(b)
  <2>1. todo[b] \in Nat
    BY Zenon DEF WritersTypes
  <2>2. Smaller(todo[b], WRITE_QUANTUM) \in 0 .. WRITE_QUANTUM
        /\ todo[b] - Smaller(todo[b], WRITE_QUANTUM) \in Nat
    BY <2>1 DEF Smaller
  <2> QED
    BY Zenon, <1>6, <2>2 DEF InsertDone, WritersTypes
<1>7. CASE SendProcSignal(b)
  <2>1. <<0, 0>> \in (0 .. MaxBackends) \X Nat
    OBVIOUS
  <2> QED
    BY Zenon, <1>7, <2>1 DEF SendProcSignal, WritersTypes, writing
<1>8. CASE ~ (SendSharedInvalidMessages(b) \/ InsertCleanup(b) \/ ReceiveCleanup(b) \/
            InsertPublish(b) \/ InsertKick(b) \/ InsertDone(b) \/ SendProcSignal(b))
  <2>1. UNCHANGED <<todo, nthistime, kick, target>>
    BY Zenon, <1>8 DEF Action, Step, SharedInvalBackendInit, CleanupInvalidationState,
       ReceiveSharedInvalidMessages, InsertLock, InsertWrite, Apply, LoopEnd, GetNothing,
       GetLock, GetMax, GetReset, GetCopy, CaughtUp, ReceiveReturn, Enter, shared, seg, cursor,
       reading, writing, calls
  <2> QED
    BY Zenon, <2>1 DEF WritersTypes
<1> QED
  BY Zenon, <1>1, <1>2, <1>3, <1>4, <1>5, <1>6, <1>7, <1>8

LEMMA ReadersStep == ASSUME IInv, NEW b \in Slots, Action(b) PROVE ReadersTypes'
<1>0. ReadersTypes
  BY Zenon DEF IInv, TypeOK, ReadersTypes
<1> USE <1>0
<1>1. CASE SharedInvalBackendInit(b)
  <2>1. maxMsgNum + base \in Int
    BY CounterTypes
  <2>2. Unused \in [1 .. MAXINVALMSGS -> Int]
    BY DEF Unused
  <2> QED
    BY Zenon, <1>1, <2>1, <2>2 DEF SharedInvalBackendInit, ReadersTypes
<1>2. CASE Apply(b)
  <2>1. nextmsg[b] + 1 \in Nat /\ nextmsg[b] + 1 \in 1 .. MAXINVALMSGS
    BY SMTT(90), <1>2, ApplyFacts DEF ReadersTypes
  <2>2. messages[b][nextmsg[b] + 1] \in Int
    BY Zenon, <2>1 DEF ReadersTypes
  <2>3. messages[b][nextmsg[b] + 1] + 1 \in Int
    BY <2>2
  <2>4. seen' \in [Slots -> Int] /\ nextmsg' \in [Slots -> Nat]
    BY Zenon, <1>2, <2>1, <2>3 DEF Apply, ReadersTypes
  <2> QED
    BY Zenon, <1>2, <2>4 DEF Apply, ReadersTypes
<1>3. CASE LoopEnd(b)
  <2>1. Unused \in [1 .. MAXINVALMSGS -> Int]
    BY DEF Unused
  <2> QED
    BY SMTT(30), <1>3, <2>1 DEF LoopEnd, ReadersTypes
<1>4. CASE GetMax(b)
  <2>1. maxMsgNum \in Int
    BY CounterTypes
  <2> QED
    BY Zenon, <1>4, <2>1 DEF GetMax, ReadersTypes
<1>5. CASE GetReset(b)
  <2>1. max[b] + base \in Int
    BY CounterTypes
  <2> QED
    BY SMTT(30), <1>5, <2>1 DEF GetReset, ReadersTypes
<1>6. CASE GetCopy(b)
  <2>1. PICK n \in 0 .. MAXINVALMSGS : nummsgs'[b] = n /\ messages'[b] \in [1 .. MAXINVALMSGS -> Int]
    BY Zenon, <1>6, CopyFacts
  <2>2. /\ \E i : nummsgs' = [nummsgs EXCEPT ![b] = i]
        /\ \E m : messages' = [messages EXCEPT ![b] = m]
    BY Zenon, <1>6 DEF GetCopy
  <2>3. n \in Nat
    BY ArrayTypes
  <2>4. nummsgs' \in [Slots -> Nat] /\ messages' \in [Slots -> [1 .. MAXINVALMSGS -> Int]]
    BY Zenon, <2>1, <2>2, <2>3 DEF ReadersTypes
  <2> QED
    BY SMTT(90), <1>6, <2>4 DEF GetCopy, ReadersTypes
<1>7. CASE ~ (SharedInvalBackendInit(b) \/ Apply(b) \/ LoopEnd(b) \/ GetMax(b) \/ GetReset(b)
            \/ GetCopy(b))
  <2>1. UNCHANGED <<max, messages, nextmsg, nummsgs, seen>>
    BY Zenon, <1>7 DEF Action, Step, CleanupInvalidationState, SendSharedInvalidMessages,
       ReceiveSharedInvalidMessages, InsertLock, InsertCleanup, InsertWrite, InsertPublish,
       InsertKick, InsertDone, GetNothing, GetLock, CaughtUp, ReceiveCleanup, ReceiveReturn,
       SendProcSignal, Enter, SICleanupQueue, shared, seg, cursor, reading, writing, calls
  <2> QED
    BY Zenon, <2>1 DEF ReadersTypes
<1> QED
  BY Zenon, <1>1, <1>2, <1>3, <1>4, <1>5, <1>6, <1>7

LEMMA FramesStep == ASSUME IInv, NEW b \in Slots, Action(b) PROVE FramesTypes'
<1>0. FramesTypes
  BY Zenon DEF IInv, TypeOK, FramesTypes
<1> USE <1>0
<1>1. CASE ReceiveSharedInvalidMessages(b)
  <2>1. CASE Enter(b)
    <3>1. depth[b] + 1 \in 0 .. MaxDepth /\ depth[b] + 1 \in Depths /\ queued \in Nat
      BY SMTT(30), <2>1, CallTypes, CounterTypes DEF Enter, Depths
    <3>2. /\ depth' \in [Slots -> 0 .. MaxDepth]
          /\ at' \in [Slots -> [Depths -> {"none", "pending", "loop", "done"}]]
      BY Zenon, <2>1, <3>1 DEF Enter, FramesTypes
    <3>3. goal' \in [Slots -> [Depths -> Nat]]
      BY Zenon, <2>1, <3>1 DEF Enter, FramesTypes
    <3> QED
      BY Zenon, <3>2, <3>3 DEF FramesTypes
  <2> QED
    BY Zenon, <1>1, <2>1 DEF ReceiveSharedInvalidMessages
<1>2. CASE Apply(b)
  <2>1. CASE Enter(b)
    <3>1. depth[b] + 1 \in 0 .. MaxDepth /\ depth[b] + 1 \in Depths /\ queued \in Nat
      BY SMTT(30), <2>1, CallTypes, CounterTypes DEF Enter, Depths
    <3>2. /\ depth' \in [Slots -> 0 .. MaxDepth]
          /\ at' \in [Slots -> [Depths -> {"none", "pending", "loop", "done"}]]
      BY Zenon, <2>1, <3>1 DEF Enter, FramesTypes
    <3>3. goal' \in [Slots -> [Depths -> Nat]]
      BY Zenon, <2>1, <3>1 DEF Enter, FramesTypes
    <3> QED
      BY Zenon, <3>2, <3>3 DEF FramesTypes
  <2>2. CASE UNCHANGED calls
    BY Zenon, <2>2 DEF calls, FramesTypes
  <2>3. CASE /\ depth' = [depth EXCEPT ![b] = 0]
             /\ at' = [at EXCEPT ![b] = [d \in Depths |-> "none"]]
             /\ goal' = [goal EXCEPT ![b] = [d \in Depths |-> 0]]
    BY <2>3, CallTypes DEF FramesTypes
  <2> QED
    BY Zenon, <1>2, <2>1, <2>2, <2>3 DEF Apply
<1>3. CASE LoopEnd(b)
  <2>1. at' = at \/ at' = [at EXCEPT ![b][depth[b]] = "loop"]
    BY Zenon, <1>3 DEF LoopEnd
  <2>2. UNCHANGED <<depth, goal>>
    BY Zenon, <1>3 DEF LoopEnd
  <2>3. at' \in [Slots -> [Depths -> {"none", "pending", "loop", "done"}]]
    <3>1. CASE at' = at
      BY Zenon, <3>1 DEF FramesTypes
    <3>2. CASE at' = [at EXCEPT ![b][depth[b]] = "loop"]
      BY Zenon, <3>2 DEF FramesTypes
    <3> QED
      BY Zenon, <2>1, <3>1, <3>2
  <2> QED
    BY Zenon, <2>2, <2>3 DEF FramesTypes
<1>4. CASE GetReset(b)
  <2>1. CASE UNCHANGED calls
    BY Zenon, <2>1 DEF calls, FramesTypes
  <2>2. CASE /\ depth[b] < MaxDepth
             /\ depth' = [depth EXCEPT ![b] = @ + 1]
             /\ at' = [at EXCEPT ![b] = [@ EXCEPT ![depth[b]] = "done", ![depth[b] + 1] = "pending"]]
             /\ goal' = [goal EXCEPT ![b][depth[b] + 1] = queued]
    <3>1. depth[b] + 1 \in 0 .. MaxDepth /\ depth[b] + 1 \in Depths /\ queued \in Nat
      BY SMTT(30), <2>2, CallTypes, CounterTypes DEF Depths
    <3>2. /\ depth' \in [Slots -> 0 .. MaxDepth]
          /\ at' \in [Slots -> [Depths -> {"none", "pending", "loop", "done"}]]
      BY Zenon, <2>2, <3>1 DEF FramesTypes
    <3>3. goal' \in [Slots -> [Depths -> Nat]]
      BY Zenon, <2>2, <3>1 DEF FramesTypes
    <3> QED
      BY Zenon, <3>2, <3>3 DEF FramesTypes
  <2> QED
    BY Zenon, <1>4, <2>1, <2>2 DEF GetReset
<1>5. CASE ReceiveReturn(b)
  <2>1. depth[b] - 1 \in 0 .. MaxDepth
    BY SMTT(90), <1>5, ReturnFacts, CallTypes DEF Depths
  <2>2. depth' \in [Slots -> 0 .. MaxDepth]
    BY Zenon, <1>5, <2>1 DEF ReceiveReturn, FramesTypes
  <2>3. at' \in [Slots -> [Depths -> {"none", "pending", "loop", "done"}]]
    BY Zenon, <1>5 DEF ReceiveReturn, FramesTypes
  <2>4. goal' \in [Slots -> [Depths -> Nat]]
    BY Zenon, <1>5 DEF ReceiveReturn, FramesTypes
  <2> QED
    BY Zenon, <2>2, <2>3, <2>4 DEF FramesTypes
<1>6. CASE ~ (ReceiveSharedInvalidMessages(b) \/ Apply(b) \/ LoopEnd(b) \/ GetReset(b) \/
            ReceiveReturn(b))
  <2>1. UNCHANGED <<depth, at, goal>>
    BY Zenon, <1>6 DEF Action, Step, SharedInvalBackendInit, CleanupInvalidationState,
       SendSharedInvalidMessages, InsertLock, InsertCleanup, InsertWrite, InsertPublish,
       InsertKick, InsertDone, GetNothing, GetLock, GetMax, GetCopy, CaughtUp, ReceiveCleanup,
       SendProcSignal, SICleanupQueue, shared, seg, cursor, reading, writing, calls
  <2> QED
    BY Zenon, <2>1 DEF FramesTypes
<1> QED
  BY Zenon, <1>1, <1>2, <1>3, <1>4, <1>5, <1>6

PCs == {"off", "idle", "w_lock", "w_loop", "w_sig", "w_publish", "w_kick", "r_apply", "r_get",
        "r_max", "r_copy", "r_done", "r_clean", "r_sig", "r_ret"}

LEMMA PcStep == ASSUME IInv, NEW b \in Slots, Action(b) PROVE pc' \in [Slots -> PCs]
<1>1. pc \in [Slots -> PCs]
  BY Zenon DEF IInv, TypeOK, PCs
<1>2. pc' = pc \/ \E there \in PCs : Goto(b, there)
  <2>1. CASE SharedInvalBackendInit(b)
    BY Zenon, <2>1 DEF SharedInvalBackendInit, PCs
  <2>2. CASE CleanupInvalidationState(b)
    BY Zenon, <2>2 DEF CleanupInvalidationState, PCs
  <2>3. CASE SendSharedInvalidMessages(b)
    BY Zenon, <2>3 DEF SendSharedInvalidMessages, PCs
  <2>4. CASE ReceiveSharedInvalidMessages(b)
    BY Zenon, <2>4 DEF ReceiveSharedInvalidMessages, Enter, PCs
  <2>5. CASE InsertLock(b)
    BY Zenon, <2>5 DEF InsertLock, PCs
  <2>6. CASE InsertCleanup(b)
    BY Zenon, <2>6 DEF InsertCleanup, SICleanupQueue, PCs
  <2>7. CASE InsertWrite(b)
    BY Zenon, <2>7 DEF InsertWrite, PCs
  <2>8. CASE InsertPublish(b)
    BY Zenon, <2>8 DEF InsertPublish, PCs
  <2>9. CASE InsertKick(b)
    BY Zenon, <2>9 DEF InsertKick, PCs
  <2>10. CASE InsertDone(b)
    BY Zenon, <2>10 DEF InsertDone, PCs
  <2>11. CASE Apply(b)
    BY Zenon, <2>11 DEF Apply, Enter, PCs
  <2>12. CASE LoopEnd(b)
    BY Zenon, <2>12 DEF LoopEnd, PCs
  <2>13. CASE GetNothing(b)
    BY Zenon, <2>13 DEF GetNothing, PCs
  <2>14. CASE GetLock(b)
    BY Zenon, <2>14 DEF GetLock, PCs
  <2>15. CASE GetMax(b)
    BY Zenon, <2>15 DEF GetMax, PCs
  <2>16. CASE GetReset(b)
    BY Zenon, <2>16 DEF GetReset, PCs
  <2>17. CASE GetCopy(b)
    BY Zenon, <2>17 DEF GetCopy, PCs
  <2>18. CASE CaughtUp(b)
    BY Zenon, <2>18 DEF CaughtUp, PCs
  <2>19. CASE ReceiveCleanup(b)
    BY Zenon, <2>19 DEF ReceiveCleanup, SICleanupQueue, PCs
  <2>20. CASE ReceiveReturn(b)
    BY Zenon, <2>20 DEF ReceiveReturn, PCs
  <2>21. CASE SendProcSignal(b)
    BY Zenon, <2>21 DEF SendProcSignal, PCs
  <2> QED
    BY Zenon, <2>1, <2>2, <2>3, <2>4, <2>5, <2>6, <2>7, <2>8, <2>9, <2>10, <2>11, <2>12, <2>13, <2>14,
       <2>15, <2>16, <2>17, <2>18, <2>19, <2>20, <2>21 DEF Action, Step
<1> QED
  BY Zenon, <1>1, <1>2 DEF Goto

LEMMA TypeOKStep == ASSUME IInv, NEW b \in Slots, Action(b) PROVE TypeOK'
  BY Zenon, ScalarsStep, CellsStep, StatesStep, BooleansStep, WritersStep, ReadersStep, FramesStep, PcStep
     DEF TypeOK, ScalarsTypes, CellsTypes, StatesTypes, BooleansTypes, WritersTypes, ReadersTypes,
         FramesTypes, PCs

-----------------------------------------------------------------------------
(* The theorems. *)

LEMMA InitIInv == Init => IInv
<1> SUFFICES ASSUME Init PROVE IInv
  BY Zenon
<1> USE ConstantsAssumption
<1>1. TypeOK
  <2>1. ScalarsTypes /\ CellsTypes /\ StatesTypes /\ BooleansTypes
    BY SMTT(90) DEF Init, ScalarsTypes, CellsTypes, StatesTypes, BooleansTypes
  <2>2. WritersTypes
    BY SMTT(90) DEF Init, WritersTypes
  <2>3. ReadersTypes
    BY SMTT(90) DEF Init, ReadersTypes, Unused
  <2>4. FramesTypes
    BY SMTT(30) DEF Init, FramesTypes
  <2>5. pc \in [Slots -> PCs]
    BY Zenon DEF Init, PCs
  <2> QED
    BY Zenon, <2>1, <2>2, <2>3, <2>4, <2>5 DEF TypeOK, ScalarsTypes, CellsTypes, StatesTypes, BooleansTypes,
       WritersTypes, ReadersTypes, FramesTypes, PCs
<1>2. Locking /\ Connected
  BY Zenon, SlotFacts DEF Init, Locking, Connected, At, Receiving
<1>3. Counters /\ Flags /\ Positions
  <2>1. Counters
    BY SMTT(90) DEF Init, Counters, Reading, At
  <2>2. Flags
    BY SMTT(30) DEF Init, Flags, Listening, At
  <2>3. Positions
    BY SMTT(90) DEF Init, Positions, PositionOK, Listening, At
  <2> QED
    BY Zenon, <2>1, <2>2, <2>3
<1>4. Ring
  BY SMTT(30) DEF Init, Ring, At
<1>5. Arrays
  BY SMTT(90) DEF Init, Arrays, ArrayOK, Left
<1>6. Calls /\ Goals
  BY SMTT(90) DEF Init, Calls, CallOK, Receiving, Goals, Depths, At
<1> QED
  BY Zenon, <1>1, <1>2, <1>3, <1>4, <1>5, <1>6 DEF IInv

LEMMA StutterIInv == IInv /\ UNCHANGED vars => IInv'
<1> SUFFICES ASSUME IInv, UNCHANGED vars PROVE IInv'
  BY Zenon
<1> USE DEF vars, seg, writing, reading
<1>1. TypeOK'
  BY Zenon DEF IInv, TypeOK
<1>2. Locking' /\ Connected' /\ Counters' /\ Ring'
  BY Zenon DEF IInv, Locking, Connected, Counters, Ring, At, Receiving, Reading, sendOnly
<1>3. Flags'
  BY Zenon DEF IInv, Flags, Listening, sendOnly, Told, At
<1>4. Arrays' /\ Positions'
  BY Zenon DEF IInv, Arrays, ArrayOK, Positions, PositionOK, Left, Listening, sendOnly, At
<1>5. Calls'
  <2>1. ASSUME NEW b \in Slots PROVE CallOK(b)'
    <3>1. CallOK(b)
      BY Zenon DEF IInv, Calls
    <3> QED
      BY Zenon, <3>1 DEF CallOK, Receiving, At
  <2> QED
    BY Zenon, <2>1 DEF Calls
<1>6. Goals'
  <2>1. ASSUME NEW b \in Slots, NEW d \in Depths, d <= depth[b] PROVE GoalOK(b, d)'
    <3>1. GoalOK(b, d)
      BY Zenon, <2>1 DEF IInv, Goals
    <3> QED
      BY Zenon, <3>1 DEF GoalOK, At, Left
  <2>2. depth' = depth
    BY Zenon
  <2> QED
    BY Zenon, <2>1, <2>2 DEF Goals
<1> QED
  BY Zenon, <1>1, <1>2, <1>3, <1>4, <1>5, <1>6 DEF IInv

LEMMA NextIInv == IInv /\ [Next]_vars => IInv'
<1>1. ASSUME IInv, Next PROVE IInv'
  <2>1. PICK b \in Slots : Action(b)
    BY Zenon, <1>1 DEF Next, Action
  <2> QED
    BY Zenon, <1>1, <2>1, TypeOKStep, LockingStep, ConnectedStep, CountersStep, RingStep, FlagsStep, ArraysStep,
       PositionsStep, CallsStep, GoalsStep DEF IInv
<1> QED
  BY Zenon, <1>1, StutterIInv

(***************************************************************************)
(* The queue's invariant: the locking of sinvaladt.c, the ring, the flags  *)
(* that tell backends of messages, sinval.c's static message array and the *)
(* nested calls over it are consistent in every reachable state.           *)
(***************************************************************************)
THEOREM Invariance == Spec => []IInv
  BY InitIInv, NextIInv, PTL DEF Spec

(***************************************************************************)
(* The counters, the procState slots and the static message array of       *)
(* sinval.c stay within their bounds, the fields nested calls share        *)
(* included.                                                               *)
(***************************************************************************)
THEOREM TypeCorrect == Spec => []TypeOK
  BY Invariance, PTL DEF IInv

(***************************************************************************)
(* SIInsertDataEntries and SICleanupQueue never lose a message that a      *)
(* backend has yet to read, across wraparound and with readers copying     *)
(* while a writer fills entries.                                           *)
(***************************************************************************)
THEOREM NoMessageLost == Spec => []UnreadInBuffer
<1>1. IInv => UnreadInBuffer
  <2> SUFFICES ASSUME IInv, NEW b \in Slots, Reading(b)
               PROVE  /\ nextMsgNum[b] <= maxMsgNum
                      /\ \A n \in nextMsgNum[b] .. maxMsgNum - 1 : buffer[n % MAXNUMMESSAGES] = n + base
    BY Zenon DEF UnreadInBuffer
  <2>1. minMsgNum <= nextMsgNum[b] /\ nextMsgNum[b] <= maxMsgNum
    BY Zenon DEF IInv, Counters
  <2>2. ASSUME NEW n \in nextMsgNum[b] .. maxMsgNum - 1 PROVE n \in minMsgNum .. maxMsgNum - 1
    <3>1. nextMsgNum[b] \in Int /\ minMsgNum \in Nat /\ maxMsgNum \in Nat
      BY Zenon, CounterTypes
    <3> QED
      BY <2>1, <2>2, <3>1
  <2> QED
    BY Zenon, <2>1, <2>2 DEF IInv, Ring
<1> QED
  BY <1>1, Invariance, PTL

(***************************************************************************)
(* "We guarantee to process all messages that had been queued before the   *)
(* routine was entered": ReceiveSharedInvalidMessages keeps this promise   *)
(* although it tests hasMessages without a lock, calls itself, and may be  *)
(* left by an error.                                                       *)
(***************************************************************************)
THEOREM GuaranteeKept == Spec => []QueuedProcessed
<1>1. IInv => QueuedProcessed
  <2> SUFFICES ASSUME IInv, NEW b \in Slots, pc[b] = "r_ret" PROVE seen[b] >= goal[b][depth[b]]
    BY Zenon DEF QueuedProcessed, At
  <2>1. depth[b] > 0
    BY Zenon DEF IInv, Calls, CallOK, Receiving
  <2>2. depth[b] \in Depths /\ depth[b] <= depth[b]
    BY <2>1, CallTypes DEF Depths
  <2>3. goal[b][depth[b]] <= seen[b]
    BY Zenon, <2>2 DEF IInv, Goals, GoalOK
  <2>4. goal[b][depth[b]] \in Int /\ seen[b] \in Int
    BY <2>2, CallTypes, ArrayTypes
  <2> QED
    BY Zenon, <2>3, <2>4
<1> QED
  BY <1>1, Invariance, PTL

(***************************************************************************)
(* A backend applies the messages one by one in the order of the queue,    *)
(* or resets: neither the nested use of sinval.c's static array nor an     *)
(* error in an invalidation callback makes it skip or repeat one.          *)
(***************************************************************************)
THEOREM AppliedInOrder == Spec => HandledInOrder
<1>1. ASSUME IInv, [Next]_vars
      PROVE  [\A b \in Slots :
                seen'[b] # seen[b] =>
                  \/ seen'[b] = seen[b] + 1
                  \/ At(b, "r_copy") /\ resetState[b] /\ seen'[b] > seen[b]
                  \/ At(b, "off") /\ seen'[b] = maxMsgNum + base]_vars
  <2> SUFFICES ASSUME Next, NEW c \in Slots, seen'[c] # seen[c]
               PROVE  \/ seen'[c] = seen[c] + 1
                      \/ At(c, "r_copy") /\ resetState[c] /\ seen'[c] > seen[c]
                      \/ At(c, "off") /\ seen'[c] = maxMsgNum + base
    BY Zenon, <1>1
  <2>1. PICK b \in Slots : Action(b)
    BY Zenon DEF Next, Action
  <2>2. c = b
    BY Zenon, <1>1, <2>1, OtherSlots
  <2>3. CASE Apply(b)
    BY Zenon, <1>1, <2>2, <2>3, ApplyFacts
  <2>4. CASE SharedInvalBackendInit(b)
    BY Zenon, <1>1, <2>2, <2>4, FreeIsOff, ArrayTypes DEF SharedInvalBackendInit, At
  <2>5. CASE GetReset(b)
    <3>1. pc[b] = "r_copy" /\ resetState[b] /\ seen'[b] = max[b] + base
      BY Zenon, <1>1, <2>5, ArrayTypes DEF GetReset, At
    <3>2. seen[b] <= max[b] + base
      BY Zenon, <1>1, <3>1 DEF IInv, Positions, PositionOK, Connected, Receiving, Listening, At
    <3>3. seen[b] \in Int /\ max[b] \in Int /\ base \in Int
      BY SMTT(30), <1>1, ArrayTypes, CounterTypes
    <3>5. max[b] + base # seen[b]
      BY Zenon, <2>2, <3>1
    <3>6. max[b] + base > seen[b]
      BY SMTT(30), <3>2, <3>3, <3>5
    <3>4. seen'[b] > seen[b]
      BY Zenon, <3>1, <3>6
    <3> QED
      BY Zenon, <2>2, <3>1, <3>4 DEF At
  <2>6. CASE ~ (Apply(b) \/ SharedInvalBackendInit(b) \/ GetReset(b))
    <3>1. seen' = seen
      BY Zenon, <2>1, <2>6 DEF Action, Step, CleanupInvalidationState, SendSharedInvalidMessages,
         ReceiveSharedInvalidMessages, InsertLock, InsertCleanup, InsertWrite, InsertPublish,
         InsertKick, InsertDone, LoopEnd, GetNothing, GetLock, GetMax, GetCopy, CaughtUp,
         ReceiveCleanup, ReceiveReturn, SendProcSignal, SICleanupQueue, reading
    <3> QED
      BY Zenon, <3>1
  <2> QED
    BY Zenon, <2>3, <2>4, <2>5, <2>6
<1> QED
  BY <1>1, Invariance, PTL DEF HandledInOrder, Spec

=============================================================================
