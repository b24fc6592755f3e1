--------------------------- MODULE MsgPort_proofs ---------------------------
(***************************************************************************)
(* Proofs about MsgPort, for every number of threads and every capacity.   *)
(***************************************************************************)
EXTENDS MsgPort, FiniteSetTheorems, TLAPS

ClaimedSteps  == {"lock", "copy", "count"}
UnpostedSteps == {"unlock", "post"}

Bit(b) == IF b THEN 1 ELSE 0

(* A sum within twice the capacity is reduced by at most one subtraction.  *)
LEMMA ModReduce ==
  ASSUME NEW n \in Nat \ {0}, NEW x \in 0 .. 2 * n - 1
  PROVE  x % n = IF x < n THEN x ELSE x - n
  <1>1. x % n \in 0 .. n - 1 /\ x = n * (x \div n) + (x % n) /\ x \div n \in Int
    BY SMT
  <1>2. CASE x < n
    <2>1. x \div n = 0
      BY <1>1, <1>2, SMT
    <2>2. QED
      BY <1>1, <1>2, <2>1, SMT
  <1>3. CASE ~(x < n)
    <2>1. x \div n = 1
      BY <1>1, <1>3, SMT
    <2>2. QED
      BY <1>1, <1>3, <2>1, SMT
  <1>4. QED
    BY <1>2, <1>3

(* Two finite sets that differ at most in t differ in size accordingly.    *)
LEMMA DifferInOne ==
  ASSUME NEW A, NEW B, NEW t, IsFiniteSet(A), A \ {t} = B \ {t}
  PROVE  Cardinality(B) = Cardinality(A) + Bit(t \in B) - Bit(t \in A)
  <1>1. IsFiniteSet(A \ {t}) /\ IsFiniteSet(B \ {t})
    BY FS_RemoveElement
  <1>2. IsFiniteSet(B)
    <2>1. IsFiniteSet((B \ {t}) \cup {t})
      BY <1>1, FS_AddElement
    <2>2. B \subseteq (B \ {t}) \cup {t}
      OBVIOUS
    <2>3. QED
      BY <2>1, <2>2, FS_Subset
  <1>3. Cardinality(A \ {t}) = IF t \in A THEN Cardinality(A) - 1 ELSE Cardinality(A)
    BY FS_RemoveElement
  <1>4. Cardinality(B \ {t}) = IF t \in B THEN Cardinality(B) - 1 ELSE Cardinality(B)
    BY <1>2, FS_RemoveElement
  <1>5. Cardinality(A) \in Nat /\ Cardinality(B) \in Nat
    BY <1>2, FS_CardinalityType
  <1>6. QED
    BY <1>3, <1>4, <1>5 DEF Bit

(* One thread's step changes the counts of the semaphore balance by what   *)
(* the step's two ends say.                                                *)
LEMMA StepCounts ==
  ASSUME TypeOK, NEW S \in SUBSET Threads, IsFiniteSet(S),
         NEW t \in Threads, NEW from \in Steps, NEW to \in Steps,
         Goto(t, from, to)
  PROVE  /\ Cardinality(Claimed(S))' =
              Cardinality(Claimed(S)) + Bit(t \in S /\ to \in ClaimedSteps)
                                      - Bit(t \in S /\ from \in ClaimedSteps)
         /\ Cardinality(Unposted(S))' =
              Cardinality(Unposted(S)) + Bit(t \in S /\ to \in UnpostedSteps)
                                       - Bit(t \in S /\ from \in UnpostedSteps)
  <1>1. /\ pc[t] = from
        /\ pc'[t] = to
        /\ \A u \in S : u # t => pc'[u] = pc[u]
    BY DEF Goto, TypeOK
  <1>2. IsFiniteSet(Claimed(S)) /\ IsFiniteSet(Unposted(S))
    BY FS_Subset DEF Claimed, Unposted
  <1>3. Claimed(S) \ {t} = Claimed(S)' \ {t} /\ Unposted(S) \ {t} = Unposted(S)' \ {t}
    BY <1>1 DEF Claimed, Unposted
  <1>4. /\ (t \in Claimed(S)) <=> (t \in S /\ from \in ClaimedSteps)
        /\ (t \in Claimed(S)') <=> (t \in S /\ to \in ClaimedSteps)
        /\ (t \in Unposted(S)) <=> (t \in S /\ from \in UnpostedSteps)
        /\ (t \in Unposted(S)') <=> (t \in S /\ to \in UnpostedSteps)
    BY <1>1 DEF Claimed, Unposted, ClaimedSteps, UnpostedSteps
  <1>5. Cardinality(Claimed(S)') =
          Cardinality(Claimed(S)) + Bit(t \in Claimed(S)') - Bit(t \in Claimed(S))
    BY <1>2, <1>3, DifferInOne
  <1>6. Cardinality(Unposted(S)') =
          Cardinality(Unposted(S)) + Bit(t \in Unposted(S)') - Bit(t \in Unposted(S))
    BY <1>2, <1>3, DifferInOne
  <1>7. QED
    BY <1>4, <1>5, <1>6 DEF Bit

-----------------------------------------------------------------------------
(* The inductive invariant: the three parts need one another.  The bounds  *)
(* in TypeOK come from the balance, and the balance survives a step only   *)
(* because the thread that changes `used' is alone inside the mutex.       *)
IInv == TypeOK /\ MutualExclusion /\ SemaphoreBalance

(* The cardinalities in the balance are numbers, and a producer that has   *)
(* claimed a slot or a consumer that has claimed a message is counted.     *)
LEMMA Counted ==
  ASSUME TypeOK
  PROVE  /\ \A S \in {Producers, Consumers} :
               /\ Cardinality(Claimed(S)) \in Nat
               /\ Cardinality(Unposted(S)) \in Nat
               /\ \A t \in S :
                    /\ pc[t] \in ClaimedSteps => Cardinality(Claimed(S)) > 0
                    /\ pc[t] \in UnpostedSteps => Cardinality(Unposted(S)) > 0
  <1>1. ASSUME NEW S \in {Producers, Consumers}
        PROVE  /\ IsFiniteSet(Claimed(S)) /\ IsFiniteSet(Unposted(S))
               /\ Cardinality(Claimed(S)) \in Nat
               /\ Cardinality(Unposted(S)) \in Nat
    BY PortAssumption, FS_Subset, FS_CardinalityType DEF Claimed, Unposted
  <1>2. ASSUME NEW S \in {Producers, Consumers}, NEW t \in S
        PROVE  /\ pc[t] \in ClaimedSteps => Cardinality(Claimed(S)) > 0
               /\ pc[t] \in UnpostedSteps => Cardinality(Unposted(S)) > 0
    <2>1. pc[t] \in ClaimedSteps => Claimed(S) # {}
      BY DEF Claimed, ClaimedSteps
    <2>2. pc[t] \in UnpostedSteps => Unposted(S) # {}
      BY DEF Unposted, UnpostedSteps
    <2>3. QED
      BY <1>1, <2>1, <2>2, FS_EmptySet
  <1>3. QED
    BY <1>1, <1>2

(* What one thread's step does to the four counts.                         *)
LEMMA PortCounts ==
  ASSUME TypeOK, NEW t \in Threads, NEW from \in Steps, NEW to \in Steps,
         Goto(t, from, to)
  PROVE  \A S \in {Producers, Consumers} :
           /\ Cardinality(Claimed(S))' =
                Cardinality(Claimed(S)) + Bit(t \in S /\ to \in ClaimedSteps)
                                        - Bit(t \in S /\ from \in ClaimedSteps)
           /\ Cardinality(Unposted(S))' =
                Cardinality(Unposted(S)) + Bit(t \in S /\ to \in UnpostedSteps)
                                         - Bit(t \in S /\ from \in UnpostedSteps)
  BY StepCounts, PortAssumption DEF Threads

LEMMA InitIInv == Init => IInv
  <1> SUFFICES ASSUME Init PROVE IInv
    OBVIOUS
  <1>1. TypeOK
    BY PortAssumption DEF Init, TypeOK, Threads, Steps
  <1>2. MutualExclusion
    BY PortAssumption DEF Init, MutualExclusion, Inside, Threads
  <1>3. /\ Claimed(Producers) = {} /\ Claimed(Consumers) = {}
        /\ Unposted(Producers) = {} /\ Unposted(Consumers) = {}
    BY DEF Init, Claimed, Unposted, Threads
  <1>4. SemaphoreBalance
    BY <1>3, FS_EmptySet, PortAssumption
       DEF Init, SemaphoreBalance, ReaderBalance, WriterBalance
  <1>5. QED
    BY <1>1, <1>2, <1>4 DEF IInv

(* No step breaks mutual exclusion.                                        *)
LEMMA StepMutex ==
  ASSUME TypeOK, MutualExclusion, [Next]_vars
  PROVE  MutualExclusion'
  <1> USE DEF MutualExclusion, Inside, TypeOK, Goto, Threads
  <1>1. ASSUME NEW p \in Producers, NEW m \in Msgs, CallPush(p, m)
        PROVE  MutualExclusion'
    BY <1>1 DEF CallPush
  <1>2. ASSUME NEW p \in Producers, Push(p)
        PROVE  MutualExclusion'
    BY <1>2, PortAssumption
       DEF Push, WaitWriter, Lock, CopyIn, CountIn, Unlock, PostReader
  <1>3. ASSUME NEW c \in Consumers, CallConsumer(c)
        PROVE  MutualExclusion'
    BY <1>3 DEF CallConsumer, CallPop, CallPoll
  <1>4. ASSUME NEW c \in Consumers, Pop(c)
        PROVE  MutualExclusion'
    BY <1>4, PortAssumption
       DEF Pop, WaitReader, TimeOut, Lock, CopyOut, CountOut, Unlock, PostWriter
  <1>5. CASE UNCHANGED vars
    BY <1>5 DEF vars
  <1>6. QED
    BY <1>1, <1>2, <1>3, <1>4, <1>5 DEF Next

(* Every step keeps the balance, and with it the bounds in TypeOK.         *)
Counts(t, from, to) ==
  \A S \in {Producers, Consumers} :
    /\ Cardinality(Claimed(S))' =
         Cardinality(Claimed(S)) + Bit(t \in S /\ to \in ClaimedSteps)
                                 - Bit(t \in S /\ from \in ClaimedSteps)
    /\ Cardinality(Unposted(S))' =
         Cardinality(Unposted(S)) + Bit(t \in S /\ to \in UnpostedSteps)
                                  - Bit(t \in S /\ from \in UnpostedSteps)

(* A step that leaves the counters alone and moves nobody in or out of the *)
(* counted steps keeps the balance.                                        *)
LEMMA QuietStep ==
  ASSUME IInv, NEW t \in Threads, NEW from \in Steps, NEW to \in Steps,
         Goto(t, from, to), UNCHANGED <<used, reader, writer>>,
         from \in ClaimedSteps <=> to \in ClaimedSteps,
         from \in UnpostedSteps <=> to \in UnpostedSteps
  PROVE  SemaphoreBalance'
  <1>1. \A S \in {Producers, Consumers} :
          /\ Cardinality(Claimed(S))' = Cardinality(Claimed(S))
          /\ Cardinality(Unposted(S))' = Cardinality(Unposted(S))
    BY PortCounts, Counted DEF IInv, Bit
  <1>2. QED
    BY <1>1 DEF IInv, SemaphoreBalance, ReaderBalance, WriterBalance

LEMMA StepBalance ==
  ASSUME IInv, [Next]_vars
  PROVE  TypeOK' /\ SemaphoreBalance'
  <1> DEFINE CP == Cardinality(Claimed(Producers))
             UP == Cardinality(Unposted(Producers))
             CC == Cardinality(Claimed(Consumers))
             UC == Cardinality(Unposted(Consumers))
  <1>a. /\ CP \in Nat /\ UP \in Nat /\ CC \in Nat /\ UC \in Nat
        /\ used \in Nat /\ reader \in Nat /\ writer \in Nat /\ Avail \in Nat
        /\ used = reader + CC + UP
        /\ Avail = used + writer + CP + UC
    BY Counted, PortAssumption
       DEF IInv, TypeOK, SemaphoreBalance, ReaderBalance, WriterBalance
  <1>1. ASSUME NEW p \in Producers, NEW m \in Msgs, CallPush(p, m)
        PROVE  TypeOK' /\ SemaphoreBalance'
    <2>1. TypeOK'
      BY <1>1, PortAssumption DEF CallPush, IInv, TypeOK, Goto, Steps, Threads, ring, sems
    <2>2. SemaphoreBalance'
      BY <1>1, QuietStep
         DEF CallPush, Threads, Steps, ClaimedSteps, UnpostedSteps, ring, sems
    <2>3. QED
      BY <2>1, <2>2
  <1>2. ASSUME NEW p \in Producers, WaitWriter(p)
        PROVE  TypeOK' /\ SemaphoreBalance'
    <2>1. Goto(p, "wait", "lock") /\ p \in Threads /\ p \notin Consumers
      BY <1>2, PortAssumption DEF WaitWriter, Threads
    <2>2. Counts(p, "wait", "lock")
      BY <2>1, PortCounts DEF Counts, Steps, IInv
    <2>3. CP' = CP + 1 /\ UP' = UP /\ CC' = CC /\ UC' = UC
      BY <1>a, <2>1, <2>2 DEF Counts, Bit, ClaimedSteps, UnpostedSteps
    <2>5. writer > 0 /\ writer' = writer - 1 /\ used' = used /\ reader' = reader
      BY <1>2 DEF WaitWriter, ring, sems
    <2>6. SemaphoreBalance' /\ used' \in 0 .. Avail /\ reader' \in 0 .. Avail /\ writer' \in 0 .. Avail
      BY <1>a, <2>3, <2>5 DEF SemaphoreBalance, ReaderBalance, WriterBalance
    <2>7. TypeOK'
      BY <1>2, <2>6, PortAssumption DEF WaitWriter, TypeOK, IInv, Goto, Steps, ring, sems, Threads
    <2>8. QED
      BY <2>6, <2>7
  <1>3. ASSUME NEW t \in Threads, Lock(t)
        PROVE  TypeOK' /\ SemaphoreBalance'
    <2>1. TypeOK'
      BY <1>3, PortAssumption DEF Lock, IInv, TypeOK, Goto, Steps, Threads, ring, sems
    <2>2. SemaphoreBalance'
      BY <1>3, QuietStep
         DEF Lock, Threads, Steps, ClaimedSteps, UnpostedSteps, ring, sems
    <2>3. QED
      BY <2>1, <2>2
  <1>4. ASSUME NEW p \in Producers, CopyIn(p)
        PROVE  TypeOK' /\ SemaphoreBalance'
    <2>1. TypeOK'
      BY <1>4, PortAssumption DEF CopyIn, IInv, TypeOK, Goto, Steps, Threads, ring, sems, Slot
    <2>2. SemaphoreBalance'
      BY <1>4, QuietStep
         DEF CopyIn, Threads, Steps, ClaimedSteps, UnpostedSteps, ring, sems
    <2>3. QED
      BY <2>1, <2>2
  <1>5. ASSUME NEW p \in Producers, CountIn(p)
        PROVE  TypeOK' /\ SemaphoreBalance'
    <2>1. Goto(p, "count", "unlock") /\ p \in Threads /\ p \notin Consumers
      BY <1>5, PortAssumption DEF CountIn, Threads
    <2>2. Counts(p, "count", "unlock")
      BY <2>1, PortCounts DEF Counts, Steps, IInv
    <2>3. CP' = CP - 1 /\ UP' = UP + 1 /\ CC' = CC /\ UC' = UC
      BY <1>a, <2>1, <2>2 DEF Counts, Bit, ClaimedSteps, UnpostedSteps
    <2>4. CP > 0
      BY <2>1, Counted DEF IInv, Goto, ClaimedSteps
    <2>5. used' = used + 1 /\ reader' = reader /\ writer' = writer
      BY <1>5 DEF CountIn, ring, sems
    <2>6. SemaphoreBalance' /\ used' \in 0 .. Avail /\ reader' \in 0 .. Avail /\ writer' \in 0 .. Avail
      BY <1>a, <2>3, <2>4, <2>5 DEF SemaphoreBalance, ReaderBalance, WriterBalance
    <2>7. TypeOK'
      BY <1>5, <2>6, PortAssumption DEF CountIn, TypeOK, IInv, Goto, Steps, ring, sems, Threads
    <2>8. QED
      BY <2>6, <2>7
  <1>6. ASSUME NEW t \in Threads, Unlock(t)
        PROVE  TypeOK' /\ SemaphoreBalance'
    <2>1. TypeOK'
      BY <1>6, PortAssumption DEF Unlock, IInv, TypeOK, Goto, Steps, Threads, ring, sems
    <2>2. SemaphoreBalance'
      BY <1>6, QuietStep
         DEF Unlock, Threads, Steps, ClaimedSteps, UnpostedSteps, ring, sems
    <2>3. QED
      BY <2>1, <2>2
  <1>7. ASSUME NEW p \in Producers, PostReader(p)
        PROVE  TypeOK' /\ SemaphoreBalance'
    <2>1. Goto(p, "post", "idle") /\ p \in Threads /\ p \notin Consumers
      BY <1>7, PortAssumption DEF PostReader, Threads
    <2>2. Counts(p, "post", "idle")
      BY <2>1, PortCounts DEF Counts, Steps, IInv
    <2>3. UP' = UP - 1 /\ CP' = CP /\ CC' = CC /\ UC' = UC
      BY <1>a, <2>1, <2>2 DEF Counts, Bit, ClaimedSteps, UnpostedSteps
    <2>4. UP > 0
      BY <2>1, Counted DEF IInv, Goto, UnpostedSteps
    <2>5. reader' = reader + 1 /\ used' = used /\ writer' = writer
      BY <1>7 DEF PostReader, ring, sems
    <2>6. SemaphoreBalance' /\ used' \in 0 .. Avail /\ reader' \in 0 .. Avail /\ writer' \in 0 .. Avail
      BY <1>a, <2>3, <2>4, <2>5 DEF SemaphoreBalance, ReaderBalance, WriterBalance
    <2>7. TypeOK'
      BY <1>7, <2>6, PortAssumption DEF PostReader, TypeOK, IInv, Goto, Steps, ring, sems, Threads
    <2>8. QED
      BY <2>6, <2>7
  <1>8. ASSUME NEW c \in Consumers, NEW d \in BOOLEAN, CallPop(c, d)
        PROVE  TypeOK' /\ SemaphoreBalance'
    <2>1. TypeOK'
      BY <1>8, PortAssumption DEF CallPop, IInv, TypeOK, Goto, Steps, Threads, ring, sems
    <2>2. SemaphoreBalance'
      BY <1>8, QuietStep
         DEF CallPop, Threads, Steps, ClaimedSteps, UnpostedSteps, ring, sems
    <2>3. QED
      BY <2>1, <2>2
  <1>9. ASSUME NEW c \in Consumers, CallPoll(c)
        PROVE  TypeOK' /\ SemaphoreBalance'
    <2>1. TypeOK'
      BY <1>9, PortAssumption DEF CallPoll, IInv, TypeOK, Goto, Steps, Threads, ring, sems
    <2>2. SemaphoreBalance'
      BY <1>9, QuietStep
         DEF CallPoll, Threads, Steps, ClaimedSteps, UnpostedSteps, ring, sems
    <2>3. QED
      BY <2>1, <2>2
  <1>10. ASSUME NEW c \in Consumers, WaitReader(c)
        PROVE  TypeOK' /\ SemaphoreBalance'
    <2>1. Goto(c, "wait", "lock") /\ c \in Threads /\ c \notin Producers
      BY <1>10, PortAssumption DEF WaitReader, Threads
    <2>2. Counts(c, "wait", "lock")
      BY <2>1, PortCounts DEF Counts, Steps, IInv
    <2>3. CC' = CC + 1 /\ CP' = CP /\ UP' = UP /\ UC' = UC
      BY <1>a, <2>1, <2>2 DEF Counts, Bit, ClaimedSteps, UnpostedSteps
    <2>5. reader > 0 /\ reader' = reader - 1 /\ used' = used /\ writer' = writer
      BY <1>10 DEF WaitReader, ring, sems
    <2>6. SemaphoreBalance' /\ used' \in 0 .. Avail /\ reader' \in 0 .. Avail /\ writer' \in 0 .. Avail
      BY <1>a, <2>3, <2>5 DEF SemaphoreBalance, ReaderBalance, WriterBalance
    <2>7. TypeOK'
      BY <1>10, <2>6, PortAssumption DEF WaitReader, TypeOK, IInv, Goto, Steps, ring, sems, Threads
    <2>8. QED
      BY <2>6, <2>7
  <1>11. ASSUME NEW c \in Consumers, TimeOut(c)
        PROVE  TypeOK' /\ SemaphoreBalance'
    <2>1. TypeOK'
      BY <1>11, PortAssumption DEF TimeOut, IInv, TypeOK, Goto, Steps, Threads, ring, sems
    <2>2. SemaphoreBalance'
      BY <1>11, QuietStep
         DEF TimeOut, Threads, Steps, ClaimedSteps, UnpostedSteps, ring, sems
    <2>3. QED
      BY <2>1, <2>2
  <1>12. ASSUME NEW c \in Consumers, CopyOut(c)
        PROVE  TypeOK' /\ SemaphoreBalance'
    <2>1. TypeOK'
      BY <1>12, PortAssumption DEF CopyOut, IInv, TypeOK, Goto, Steps, Threads, ring, sems
    <2>2. SemaphoreBalance'
      BY <1>12, QuietStep
         DEF CopyOut, Threads, Steps, ClaimedSteps, UnpostedSteps, ring, sems
    <2>3. QED
      BY <2>1, <2>2
  <1>13. ASSUME NEW c \in Consumers, CountOut(c)
        PROVE  TypeOK' /\ SemaphoreBalance'
    <2>1. Goto(c, "count", "unlock") /\ c \in Threads /\ c \notin Producers
      BY <1>13, PortAssumption DEF CountOut, Threads
    <2>2. Counts(c, "count", "unlock")
      BY <2>1, PortCounts DEF Counts, Steps, IInv
    <2>3. CC' = CC - 1 /\ UC' = UC + 1 /\ CP' = CP /\ UP' = UP
      BY <1>a, <2>1, <2>2 DEF Counts, Bit, ClaimedSteps, UnpostedSteps
    <2>4. CC > 0
      BY <2>1, Counted DEF IInv, Goto, ClaimedSteps
    <2>5. used' = used - 1 /\ reader' = reader /\ writer' = writer
      BY <1>13 DEF CountOut, ring, sems
    <2>6. SemaphoreBalance' /\ used' \in 0 .. Avail /\ reader' \in 0 .. Avail /\ writer' \in 0 .. Avail
      BY <1>a, <2>3, <2>4, <2>5 DEF SemaphoreBalance, ReaderBalance, WriterBalance
    <2>7. TypeOK'
      BY <1>13, <2>6, PortAssumption DEF CountOut, TypeOK, IInv, Goto, Steps, ring, sems, Threads
    <2>8. QED
      BY <2>6, <2>7
  <1>14. ASSUME NEW c \in Consumers, PostWriter(c)
        PROVE  TypeOK' /\ SemaphoreBalance'
    <2>1. PICK to \in {"wait", "idle"} : Goto(c, "post", to)
      BY <1>14 DEF PostWriter
    <2>2. Counts(c, "post", to) /\ c \notin Producers
      BY <2>1, PortCounts, PortAssumption DEF Counts, Steps, IInv, Threads
    <2>3. UC' = UC - 1 /\ CP' = CP /\ UP' = UP /\ CC' = CC
      BY <1>a, <2>1, <2>2 DEF Counts, Bit, ClaimedSteps, UnpostedSteps
    <2>4. UC > 0
      BY <2>1, Counted DEF IInv, Goto, UnpostedSteps
    <2>5. writer' = writer + 1 /\ used' = used /\ reader' = reader
      BY <1>14 DEF PostWriter, ring, sems
    <2>6. SemaphoreBalance' /\ used' \in 0 .. Avail /\ reader' \in 0 .. Avail /\ writer' \in 0 .. Avail
      BY <1>a, <2>3, <2>4, <2>5 DEF SemaphoreBalance, ReaderBalance, WriterBalance
    <2>7. TypeOK'
      BY <1>14, <2>6, PortAssumption DEF PostWriter, TypeOK, IInv, Goto, Steps, ring, sems, Threads
    <2>8. QED
      BY <2>6, <2>7
  <1>15. CASE UNCHANGED vars
    BY <1>15 DEF vars, IInv, TypeOK, SemaphoreBalance, ReaderBalance, WriterBalance,
                 Claimed, Unposted
  <1>16. QED
    BY <1>1, <1>2, <1>3, <1>4, <1>5, <1>6, <1>7, <1>8, <1>9, <1>10, <1>11, <1>12, <1>13, <1>14, <1>15
       DEF Next, Push, Pop, CallConsumer, Threads

(* The invariant holds in every reachable state.                           *)
LEMMA Invariance == Spec => []IInv
  <1>1. IInv /\ [Next]_vars => IInv'
    BY StepMutex, StepBalance DEF IInv
  <1>2. QED
    BY InitIInv, <1>1, PTL DEF Spec

THEOREM TypeCorrect == Spec => []TypeOK
  BY Invariance, PTL DEF IInv

(* At most one thread is inside the mutex, and it is the recorded holder.  *)
THEOREM MutexCorrect == Spec => []MutualExclusion
  BY Invariance, PTL DEF IInv

(* The semaphores account for every message and every free slot.           *)
THEOREM BalanceCorrect == Spec => []SemaphoreBalance
  BY Invariance, PTL DEF IInv

(* The assertion in tmsg_push never fails: the producer that holds the     *)
(* mutex has claimed a slot, so the balance leaves room for its message;   *)
(* nor does the one in tmsg_pop, for the same reason on the other side.    *)
LEMMA AssertionsFollow == IInv => PushAssertion /\ PopAssertion
  <1>1. ASSUME IInv, NEW p \in Producers, pc[p] = "copy"
        PROVE  used < Avail
    <2>1. Cardinality(Claimed(Producers)) > 0
      BY <1>1, Counted DEF IInv, ClaimedSteps
    <2>2. QED
      BY <1>1, <2>1, Counted, PortAssumption
         DEF IInv, TypeOK, SemaphoreBalance, WriterBalance
  <1>2. ASSUME IInv, NEW c \in Consumers, pc[c] \in {"copy", "count"}
        PROVE  used > 0
    <2>1. Cardinality(Claimed(Consumers)) > 0
      BY <1>2, Counted DEF IInv, ClaimedSteps
    <2>2. QED
      BY <1>2, <2>1, Counted DEF IInv, TypeOK, SemaphoreBalance, ReaderBalance
  <1>3. QED
    BY <1>1, <1>2 DEF PushAssertion, PopAssertion

THEOREM PushAssertionHolds == Spec => []PushAssertion
  BY Invariance, AssertionsFollow, PTL

(* assert(mp->used >= 0) in tmsg_pop never fails.                          *)
THEOREM PopAssertionHolds == Spec => []PopAssertion
  BY Invariance, AssertionsFollow, PTL

(* The critical sections find the port as they expect it: MutualExclusion  *)
(* and the two assertions together.                                        *)
THEOREM CriticalSectionsAreSafe == Spec => []PortAssertions
  <1>1. IInv => PortAssertions
    BY AssertionsFollow DEF PortAssertions, IInv
  <1>2. QED
    BY <1>1, Invariance, PTL

-----------------------------------------------------------------------------
(* The port implements the channel.  First, the slots of the ring.         *)
LEMMA SlotValue ==
  ASSUME TypeOK, NEW k \in 0 .. Avail
  PROVE  /\ Slot(k) = IF tail + k < Avail THEN tail + k ELSE tail + k - Avail
         /\ Slot(k) \in 0 .. Avail - 1
  <1>1. tail \in 0 .. Avail - 1 /\ Avail \in Nat \ {0}
    BY PortAssumption DEF TypeOK
  <1>2. PICK x \in 0 .. 2 * Avail - 1 : x = tail + k
    BY <1>1
  <1>3. x % Avail = IF x < Avail THEN x ELSE x - Avail
    BY <1>1, ModReduce
  <1>4. QED
    BY <1>1, <1>2, <1>3 DEF Slot

LEMMA SlotDistinct ==
  ASSUME TypeOK, NEW i \in 0 .. Avail - 1, NEW j \in 0 .. Avail - 1, i # j
  PROVE  Slot(i) # Slot(j)
  <1>1. tail \in 0 .. Avail - 1 /\ Avail \in Nat \ {0}
    BY PortAssumption DEF TypeOK
  <1>2. /\ Slot(i) = IF tail + i < Avail THEN tail + i ELSE tail + i - Avail
        /\ Slot(j) = IF tail + j < Avail THEN tail + j ELSE tail + j - Avail
    BY <1>1, SlotValue
  <1>3. QED
    BY <1>1, <1>2

(* A producer inside a call carries a message, and once it has copied the  *)
(* message the slot behind the last one holds it.                          *)
Carried ==
  \A p \in Producers :
    /\ pc[p] # "idle" => msg[p] \in Msgs
    /\ pc[p] = "count" => buf[Slot(used)] = msg[p]

RInv == IInv /\ PushAssertion /\ PopAssertion /\ Carried

(* Nobody else touches the ring while a thread is inside the mutex.        *)
LEMMA StepCarried ==
  ASSUME RInv, [Next]_vars
  PROVE  Carried'
  <1> USE PortAssumption DEF RInv, IInv, TypeOK, Carried, Goto, Threads
  <1>1. ASSUME NEW p \in Producers, NEW m \in Msgs, CallPush(p, m)
        PROVE  Carried'
    BY <1>1 DEF CallPush, Slot, ring
  <1>2. ASSUME NEW p \in Producers, CopyIn(p)
        PROVE  Carried'
    <2>1. Slot(used) \in 0 .. Avail - 1
      BY SlotValue
    <2>2. \A q \in Producers : q # p => pc[q] # "count"
      BY <1>2 DEF CopyIn, MutualExclusion, Inside
    <2>3. QED
      BY <1>2, <2>1, <2>2 DEF CopyIn, Slot, sems
  <1>3. ASSUME NEW p \in Producers, CountIn(p)
        PROVE  Carried'
    <2>1. \A q \in Producers : q # p => pc[q] # "count"
      BY <1>3 DEF CountIn, MutualExclusion, Inside
    <2>2. QED
      BY <1>3, <2>1 DEF CountIn
  <1>4. ASSUME NEW c \in Consumers, CountOut(c)
        PROVE  Carried'
    <2>1. \A q \in Producers : pc[q] # "count"
      BY <1>4 DEF CountOut, MutualExclusion, Inside
    <2>2. QED
      BY <1>4, <2>1 DEF CountOut
  <1>5. ASSUME NEW p \in Producers, WaitWriter(p) \/ Lock(p) \/ Unlock(p) \/ PostReader(p)
        PROVE  Carried'
    BY <1>5 DEF WaitWriter, Lock, Unlock, PostReader, Slot, ring
  <1>6. ASSUME NEW c \in Consumers,
               \/ CallConsumer(c) \/ WaitReader(c) \/ TimeOut(c) \/ Lock(c)
               \/ CopyOut(c) \/ Unlock(c) \/ PostWriter(c)
        PROVE  Carried'
    <2>1. CASE CallConsumer(c)
      <3>1. pc[c] = "idle" /\ pc' = [pc EXCEPT ![c] = "wait"] /\ UNCHANGED <<buf, used, tail, msg>>
        BY <2>1 DEF CallConsumer, CallPop, CallPoll, ring
      <3>2. QED
        BY <3>1 DEF Slot
    <2>2. CASE WaitReader(c) \/ TimeOut(c)
      BY <2>2 DEF WaitReader, TimeOut, Slot, ring
    <2>3. CASE Lock(c) \/ Unlock(c) \/ PostWriter(c)
      BY <2>3 DEF Lock, Unlock, PostWriter, Slot, ring
    <2>4. CASE CopyOut(c)
      BY <2>4 DEF CopyOut, Slot, ring
    <2>5. QED
      BY <1>6, <2>1, <2>2, <2>3, <2>4
  <1>7. CASE UNCHANGED vars
    BY <1>7 DEF vars, Slot
  <1>8. QED
    BY <1>1, <1>2, <1>3, <1>4, <1>5, <1>6, <1>7 DEF Next, Push, Pop

LEMMA CarriedInvariance == Spec => []RInv
  <1>1. Init => Carried
    BY DEF Init, Carried, Threads
  <1>2. RInv /\ [Next]_vars => Carried'
    BY StepCarried
  <1>3. QED
    BY <1>1, <1>2, Invariance, AssertionsFollow, PTL DEF RInv, Spec

(* At most one consumer is between copying a message and counting it out.  *)
LEMMA OneDeparts ==
  ASSUME RInv, NEW c \in Consumers, pc[c] = "count"
  PROVE  /\ \A d \in Consumers : pc[d] = "count" => d = c
         /\ Gone = 1
  BY DEF RInv, IInv, MutualExclusion, Inside, Threads, Departing, Gone

(* A step outside the ring, by a thread that does not start or stop        *)
(* departing, is invisible to the channel.                                 *)
LEMMA HiddenStep ==
  ASSUME UNCHANGED <<buf, used, tail>>,
         \A c \in Consumers : msg'[c] = msg[c] /\ (pc'[c] = "count" <=> pc[c] = "count")
  PROVE  UNCHANGED Channel!channelVars
  BY DEF Channel!channelVars, PortQueue, PortTaken, Gone, Departing, Slot

LEMMA CopyInHidden ==
  ASSUME RInv, NEW p \in Producers, CopyIn(p)
  PROVE  UNCHANGED Channel!channelVars
  <1>1. /\ used < Avail
        /\ used \in Nat
        /\ \A c \in Consumers : pc[c] # "count" /\ pc'[c] = pc[c]
    BY PortAssumption
       DEF CopyIn, RInv, IInv, TypeOK, PushAssertion, MutualExclusion, Inside, Goto, Threads
  <1>2. Gone = 0 /\ Gone' = 0
    BY <1>1 DEF Gone, Departing
  <1>3. ASSUME NEW i \in 1 .. used PROVE buf'[Slot(i - 1)] = buf[Slot(i - 1)]
    <2>1. Slot(i - 1) # Slot(used) /\ Slot(i - 1) \in 0 .. Avail - 1
      BY <1>1, SlotDistinct, SlotValue, PortAssumption DEF RInv, IInv
    <2>2. QED
      BY <2>1 DEF CopyIn, RInv, IInv, TypeOK
  <1>4. PortQueue' = PortQueue
    BY <1>1, <1>2, <1>3 DEF PortQueue, CopyIn, Slot
  <1>5. QED
    BY <1>4 DEF Channel!channelVars, PortTaken, CopyIn

LEMMA CountInPuts ==
  ASSUME RInv, NEW p \in Producers, CountIn(p)
  PROVE  Channel!Put(msg[p]) /\ msg[p] \in Msgs
  <1>1. /\ used < Avail
        /\ used \in Nat
        /\ buf[Slot(used)] = msg[p] /\ msg[p] \in Msgs
        /\ \A c \in Consumers : pc[c] # "count" /\ pc'[c] = pc[c]
    <2>1. used < Avail
      <3>1. pc[p] = "count" /\ used \in Nat /\ writer \in Nat
        BY DEF CountIn, Goto, RInv, IInv, TypeOK
      <3>2. /\ Cardinality(Claimed(Producers)) \in Nat \ {0}
            /\ Cardinality(Unposted(Consumers)) \in Nat
        BY <3>1, Counted DEF RInv, IInv, ClaimedSteps
      <3>3. QED
        BY <3>1, <3>2, PortAssumption DEF RInv, IInv, SemaphoreBalance, WriterBalance
    <2>2. QED
      BY <2>1, PortAssumption
         DEF CountIn, Goto, RInv, IInv, TypeOK, Carried, MutualExclusion, Inside, Threads
  <1>2. Gone = 0 /\ Gone' = 0
    BY <1>1 DEF Gone, Departing
  <1>3. /\ PortQueue = [i \in 1 .. used |-> buf[Slot(i - 1)]]
        /\ PortQueue' = [i \in 1 .. used + 1 |-> buf[Slot(i - 1)]]
    BY <1>1, <1>2 DEF PortQueue, CountIn, Slot
  <1>4. Len(PortQueue) = used
    BY <1>1, <1>3
  <1>5. PortQueue' = Append(PortQueue, msg[p])
    BY <1>1, <1>3, <1>4
  <1>6. PortTaken' = PortTaken
    BY DEF CountIn, PortTaken
  <1>7. QED
    BY <1>1, <1>4, <1>5, <1>6 DEF Channel!Put

LEMMA CopyOutTakes ==
  ASSUME RInv, NEW c \in Consumers, CopyOut(c)
  PROVE  Channel!Take(c)
  <1>1. /\ used > 0
        /\ used \in Nat
        /\ tail \in 0 .. Avail - 1
        /\ \A d \in Consumers : pc[d] # "count"
        /\ pc'[c] = "count"
    BY PortAssumption
       DEF CopyOut, RInv, IInv, TypeOK, PopAssertion, MutualExclusion, Inside, Goto, Threads
  <1>2. Gone = 0 /\ Gone' = 1
    BY <1>1 DEF Gone, Departing
  <1>3. /\ PortQueue = [i \in 1 .. used |-> buf[Slot(i - 1)]]
        /\ PortQueue' = [i \in 1 .. used - 1 |-> buf[Slot(i)]]
    BY <1>1, <1>2 DEF PortQueue, CopyOut, Slot, ring
  <1>4. Slot(0) = tail
    BY <1>1, SlotValue, PortAssumption DEF RInv, IInv
  <1>5. PortQueue # <<>> /\ Head(PortQueue) = buf[tail]
    BY <1>1, <1>3, <1>4
  <1>6. PortQueue' = Tail(PortQueue)
    BY <1>1, <1>3
  <1>7. PortTaken' = [PortTaken EXCEPT ![c] = Head(PortQueue)]
    BY <1>5 DEF PortTaken, CopyOut, RInv, IInv, TypeOK, Threads
  <1>8. QED
    BY <1>5, <1>6, <1>7 DEF Channel!Take

LEMMA CountOutHidden ==
  ASSUME RInv, NEW c \in Consumers, CountOut(c)
  PROVE  UNCHANGED Channel!channelVars
  <1>1. /\ used > 0 /\ used \in Nat /\ used <= Avail
        /\ tail \in 0 .. Avail - 1
        /\ pc[c] = "count" /\ pc'[c] = "unlock"
        /\ \A d \in Consumers : d # c => pc'[d] = pc[d]
    BY PortAssumption DEF CountOut, RInv, IInv, TypeOK, PopAssertion, Goto, Threads
  <1>2. Gone = 1 /\ Gone' = 0
    BY <1>1, OneDeparts DEF Gone, Departing
  <1>3. tail' = (IF tail + 1 < Avail THEN tail + 1 ELSE 0)
    BY <1>1, ModReduce, PortAssumption DEF CountOut
  <1>4. ASSUME NEW i \in 1 .. used - 1
        PROVE  Slot(i - 1)' = Slot(i)
    <2>1. PICK x \in 0 .. 2 * Avail - 1 : x = tail' + (i - 1)
      BY <1>1, <1>3, PortAssumption
    <2>2. x % Avail = IF x < Avail THEN x ELSE x - Avail
      BY ModReduce, PortAssumption
    <2>3. i \in 0 .. Avail
      BY <1>1, PortAssumption
    <2>4. Slot(i) = IF tail + i < Avail THEN tail + i ELSE tail + i - Avail
      BY <2>3, SlotValue DEF RInv, IInv
    <2>5. QED
      BY <1>1, <1>3, <2>1, <2>2, <2>4, PortAssumption DEF Slot
  <1>5. /\ PortQueue = [i \in 1 .. used - 1 |-> buf[Slot(i)]]
        /\ PortQueue' = [i \in 1 .. used - 1 |-> buf[Slot(i - 1)']]
    BY <1>1, <1>2 DEF PortQueue, CountOut
  <1>6. QED
    BY <1>4, <1>5 DEF Channel!channelVars, PortTaken, CountOut

(* The port is the bounded FIFO channel of MsgChannel, for every number of *)
(* threads, every capacity and every set of messages.                      *)
THEOREM PortImplementsChannel == Spec => ImplementsChannel
  <1>1. Init => Channel!ChannelInit
    <2> SUFFICES ASSUME Init PROVE Channel!ChannelInit
      OBVIOUS
    <2>1. used = 0 /\ Gone = 0
      BY DEF Init, Gone, Departing, Threads
    <2>2. PortQueue = <<>>
      <3>1. 1 .. used - Gone = {}
        BY <2>1
      <3>2. QED
        BY <3>1 DEF PortQueue
    <2>3. PortTaken = [c \in Consumers |-> NoMsg]
      BY DEF Init, PortTaken, Threads
    <2>4. QED
      BY <2>2, <2>3 DEF Channel!ChannelInit
  <1>2. RInv /\ [Next]_vars => [Channel!ChannelNext]_(Channel!channelVars)
    <2> SUFFICES ASSUME RInv, [Next]_vars
                 PROVE  Channel!ChannelNext \/ UNCHANGED Channel!channelVars
      OBVIOUS
    <2> USE PortAssumption DEF Threads
    <2>1. ASSUME NEW p \in Producers, NEW m \in Msgs, CallPush(p, m)
          PROVE  UNCHANGED Channel!channelVars
      BY <2>1, HiddenStep DEF CallPush, Goto, ring, RInv, IInv, TypeOK
    <2>2. ASSUME NEW t \in Threads, Lock(t) \/ Unlock(t)
          PROVE  UNCHANGED Channel!channelVars
      BY <2>2, HiddenStep DEF Lock, Unlock, Goto, ring, RInv, IInv, TypeOK
    <2>3. ASSUME NEW p \in Producers, WaitWriter(p) \/ PostReader(p)
          PROVE  UNCHANGED Channel!channelVars
      BY <2>3, HiddenStep DEF WaitWriter, PostReader, Goto, ring, RInv, IInv, TypeOK
    <2>4. ASSUME NEW c \in Consumers,
                 CallConsumer(c) \/ WaitReader(c) \/ TimeOut(c) \/ PostWriter(c)
          PROVE  UNCHANGED Channel!channelVars
      BY <2>4, HiddenStep
         DEF CallConsumer, CallPop, CallPoll, WaitReader, TimeOut, PostWriter, Goto, ring,
             RInv, IInv, TypeOK
    <2>5. ASSUME NEW p \in Producers, CopyIn(p)
          PROVE  UNCHANGED Channel!channelVars
      BY <2>5, CopyInHidden
    <2>6. ASSUME NEW p \in Producers, CountIn(p)
          PROVE  Channel!ChannelNext
      BY <2>6, CountInPuts DEF Channel!ChannelNext
    <2>7. ASSUME NEW c \in Consumers, CopyOut(c)
          PROVE  Channel!ChannelNext
      BY <2>7, CopyOutTakes DEF Channel!ChannelNext
    <2>8. ASSUME NEW c \in Consumers, CountOut(c)
          PROVE  UNCHANGED Channel!channelVars
      BY <2>8, CountOutHidden
    <2>9. CASE UNCHANGED vars
      BY <2>9, HiddenStep DEF vars
    <2>10. QED
      BY <2>1, <2>2, <2>3, <2>4, <2>5, <2>6, <2>7, <2>8, <2>9 DEF Next, Push, Pop
  <1>3. QED
    BY <1>1, <1>2, CarriedInvariance, PTL DEF Spec, ImplementsChannel, Channel!ChannelSpec

=============================================================================
