------------------------------ MODULE MsgPort -------------------------------
(***************************************************************************)
(* support/tmsg.c: a message port is a ring of Avail slots guarded by a    *)
(* mutex and two counting semaphores: `reader' counts messages that may be *)
(* popped, `writer' counts free slots.  Any thread may push; the audio     *)
(* thread pops the command port, with or without a deadline, and the       *)
(* application pops the signal port, blocking (faun_waitSignal) or after   *)
(* asking tmsg_used how many messages there are (faun_pollSignals).        *)
(*                                                                         *)
(* A thread goes through the steps of tmsg_push or tmsg_pop one at a time; *)
(* pc[t] names the step it is about to take.                               *)
(***************************************************************************)
EXTENDS Integers, Sequences, FiniteSets

CONSTANTS Producers,    \* threads that call tmsg_push
          Consumers,    \* threads that call tmsg_pop and its variants
          Avail,        \* MsgPort.avail, the capacity
          Msgs,         \* the messages pushed
          NoMsg,        \* what a slot or a caller's buffer holds at first
          NoThread,     \* the mutex is free
          PollMax       \* the `count' given to faun_pollSignals

ASSUME PortAssumption ==
  /\ Avail \in Nat \ {0}                    \* assert in tmsg_create
  /\ PollMax \in Nat
  /\ IsFiniteSet(Producers) /\ IsFiniteSet(Consumers)
  /\ Producers \cap Consumers = {}
  /\ NoThread \notin Producers \cup Consumers
  /\ NoMsg \notin Msgs

Threads == Producers \cup Consumers

VARIABLES buf,          \* the ring
          used,         \* number of messages in it (atomic: read unlocked)
          tail,         \* slot of the oldest message
          mutex,        \* the thread that holds the mutex
          reader,       \* semaphore: messages available
          writer,       \* semaphore: slots free
          pc,           \* pc[t]: the next step of thread t
          msg,          \* msg[t]: the caller's message
          timed,        \* timed[c]: c is in tmsg_popTimespec
          want          \* want[c]: messages c still has to pop in this call

ring  == <<buf, used, tail>>
sems  == <<reader, writer>>
vars  == <<buf, used, tail, mutex, reader, writer, pc, msg, timed, want>>

Steps == {"idle", "wait", "lock", "copy", "count", "unlock", "post"}

Slot(i) == (tail + i) % Avail

TypeOK ==
  /\ buf \in [0 .. Avail - 1 -> Msgs \cup {NoMsg}]
  /\ used \in 0 .. Avail
  /\ tail \in 0 .. Avail - 1
  /\ mutex \in Threads \cup {NoThread}
  /\ reader \in 0 .. Avail
  /\ writer \in 0 .. Avail
  /\ pc \in [Threads -> Steps]
  /\ msg \in [Threads -> Msgs \cup {NoMsg}]
  /\ timed \in [Consumers -> BOOLEAN]
  /\ want \in [Consumers -> Nat]
  /\ \A c \in Consumers : pc[c] = "idle" <=> want[c] = 0

Init ==                                              \* tmsg_create
  /\ buf = [i \in 0 .. Avail - 1 |-> NoMsg]
  /\ used = 0
  /\ tail = 0
  /\ mutex = NoThread
  /\ reader = 0
  /\ writer = Avail
  /\ pc = [t \in Threads |-> "idle"]
  /\ msg = [t \in Threads |-> NoMsg]
  /\ timed = [c \in Consumers |-> FALSE]
  /\ want = [c \in Consumers |-> 0]

Goto(t, from, to) == pc[t] = from /\ pc' = [pc EXCEPT ![t] = to]

-----------------------------------------------------------------------------
(* Steps common to push and pop.                                           *)

\* Mutant: the mutex does not exclude.
LockAnyway(t) ==
  /\ Goto(t, "lock", "copy")
  /\ mutex' = t
  /\ UNCHANGED <<ring, sems, msg, timed, want>>

Lock(t) ==
  /\ Goto(t, "lock", "copy")
  /\ mutex = NoThread
  /\ mutex' = t
  /\ UNCHANGED <<ring, sems, msg, timed, want>>

Unlock(t) ==
  /\ Goto(t, "unlock", "post")
  /\ mutex' = NoThread
  /\ UNCHANGED <<ring, sems, msg, timed, want>>

-----------------------------------------------------------------------------
(* tmsg_push                                                               *)

CallPush(p, m) ==
  /\ Goto(p, "idle", "wait")
  /\ msg' = [msg EXCEPT ![p] = m]
  /\ UNCHANGED <<ring, mutex, sems, timed, want>>

\* Mutant: an interrupted wait is taken for a free slot.
WaitWriterOnce(p) ==
  /\ Goto(p, "wait", "lock")
  /\ writer' = IF writer > 0 THEN writer - 1 ELSE 0
  /\ UNCHANGED <<ring, mutex, reader, msg, timed, want>>

WaitWriter(p) ==
  /\ Goto(p, "wait", "lock")
  /\ writer > 0
  /\ writer' = writer - 1
  /\ UNCHANGED <<ring, mutex, reader, msg, timed, want>>

CopyIn(p) ==
  /\ Goto(p, "copy", "count")
  /\ buf' = [buf EXCEPT ![Slot(used)] = msg[p]]
  /\ UNCHANGED <<used, tail, mutex, sems, msg, timed, want>>

CountIn(p) ==
  /\ Goto(p, "count", "unlock")
  /\ used' = used + 1
  /\ UNCHANGED <<buf, tail, mutex, sems, msg, timed, want>>

\* Mutant: the message is not announced.
PostReaderLost(p) ==
  /\ Goto(p, "post", "idle")
  /\ UNCHANGED <<ring, mutex, reader, writer, msg, timed, want>>

PostReader(p) ==
  /\ Goto(p, "post", "idle")
  /\ reader' = reader + 1
  /\ UNCHANGED <<ring, mutex, writer, msg, timed, want>>

Push(p) ==
  \/ WaitWriter(p) \/ Lock(p) \/ CopyIn(p)
  \/ CountIn(p) \/ Unlock(p) \/ PostReader(p)

-----------------------------------------------------------------------------
(* tmsg_pop, tmsg_popTimespec, and the loop of faun_pollSignals            *)

CallPop(c, deadline) ==
  /\ Goto(c, "idle", "wait")
  /\ timed' = [timed EXCEPT ![c] = deadline]
  /\ want' = [want EXCEPT ![c] = 1]
  /\ UNCHANGED <<ring, mutex, sems, msg>>

(* faun_pollSignals: tmsg_used is read without the mutex, and that many    *)
(* messages, at most PollMax, are then popped with tmsg_pop, which blocks. *)
CallPoll(c) ==
  LET n == IF used > PollMax THEN PollMax ELSE used IN
  /\ n > 0
  /\ Goto(c, "idle", "wait")
  /\ timed' = [timed EXCEPT ![c] = FALSE]
  /\ want' = [want EXCEPT ![c] = n]
  /\ UNCHANGED <<ring, mutex, sems, msg>>

\* Mutant: an interrupted wait is taken for a message.
WaitReaderOnce(c) ==
  /\ Goto(c, "wait", "lock")
  /\ reader' = IF reader > 0 THEN reader - 1 ELSE 0
  /\ UNCHANGED <<ring, mutex, writer, msg, timed, want>>

WaitReader(c) ==
  /\ Goto(c, "wait", "lock")
  /\ reader > 0
  /\ reader' = reader - 1
  /\ UNCHANGED <<ring, mutex, writer, msg, timed, want>>

\* Mutant: the deadline is retried like an interruption.
TimeOutRetried(c) == timed[c] /\ reader = 0 /\ Goto(c, "wait", "wait") /\ UNCHANGED vars

(* sem_timedwait fails only when it cannot take the semaphore at once.     *)
TimeOut(c) ==
  /\ timed[c]
  /\ reader = 0
  /\ Goto(c, "wait", "idle")
  /\ want' = [want EXCEPT ![c] = 0]
  /\ UNCHANGED <<ring, mutex, sems, msg, timed>>

\* Mutant: the newest message is copied.
CopyOutNewest(c) ==
  /\ Goto(c, "copy", "count")
  /\ msg' = [msg EXCEPT ![c] = buf[Slot(used - 1)]]
  /\ UNCHANGED <<ring, mutex, sems, timed, want>>

CopyOut(c) ==
  /\ Goto(c, "copy", "count")
  /\ msg' = [msg EXCEPT ![c] = buf[tail]]
  /\ UNCHANGED <<ring, mutex, sems, timed, want>>

CountOut(c) ==
  /\ Goto(c, "count", "unlock")
  /\ used' = used - 1
  /\ tail' = (tail + 1) % Avail
  /\ UNCHANGED <<buf, mutex, sems, msg, timed, want>>

\* Mutant: the slot is not given back when more messages are wanted.
PostWriterLast(c) ==
  /\ Goto(c, "post", IF want[c] > 1 THEN "wait" ELSE "idle")
  /\ writer' = IF want[c] > 1 THEN writer ELSE writer + 1
  /\ want' = [want EXCEPT ![c] = want[c] - 1]
  /\ UNCHANGED <<ring, mutex, reader, msg, timed>>

PostWriter(c) ==
  /\ Goto(c, "post", IF want[c] > 1 THEN "wait" ELSE "idle")
  /\ writer' = writer + 1
  /\ want' = [want EXCEPT ![c] = want[c] - 1]
  /\ UNCHANGED <<ring, mutex, reader, msg, timed>>

Pop(c) ==
  \/ WaitReader(c) \/ TimeOut(c) \/ Lock(c) \/ CopyOut(c)
  \/ CountOut(c) \/ Unlock(c) \/ PostWriter(c)

-----------------------------------------------------------------------------

CallConsumer(c) == (\E deadline \in BOOLEAN : CallPop(c, deadline)) \/ CallPoll(c)

Next ==
  \/ \E p \in Producers : (\E m \in Msgs : CallPush(p, m)) \/ Push(p)
  \/ \E c \in Consumers : CallConsumer(c) \/ Pop(c)

Spec == Init /\ [][Next]_vars

(* Threads inside a call are scheduled, and the consumer calls again: the  *)
(* audio thread pops its command port on every turn of its loop.  Nothing  *)
(* makes a producer push.                                                  *)
Fairness ==
  /\ \A p \in Producers : WF_vars(Push(p))
  /\ \A c \in Consumers : WF_vars(CallConsumer(c)) /\ WF_vars(Pop(c))

FairSpec == Spec /\ Fairness

-----------------------------------------------------------------------------
(* Properties                                                              *)

Inside(t) == pc[t] \in {"copy", "count", "unlock"}

(* The mutex does its work: at most one thread is between mutexLock and    *)
(* mutexUnlock, and it is the holder.                                      *)
MutualExclusion == \A t \in Threads : Inside(t) <=> mutex = t

(* assert(mp->used < mp->avail) in tmsg_push: a producer that took the     *)
(* writer semaphore always finds a free slot once it holds the mutex.      *)
PushAssertion == \A p \in Producers : pc[p] = "copy" => used < Avail

(* assert(mp->used >= 0) in tmsg_pop: a consumer that took the reader      *)
(* semaphore always finds a message once it holds the mutex.               *)
PopAssertion == \A c \in Consumers : pc[c] \in {"copy", "count"} => used > 0

(* The critical sections of tmsg_push and tmsg_pop find the port as they   *)
(* expect it.                                                              *)
PortAssertions == MutualExclusion /\ PushAssertion /\ PopAssertion

(* Neither semaphore loses or invents a unit: every message is either      *)
(* announced by `reader', about to be announced, or claimed by a consumer; *)
(* every free slot is likewise accounted for by `writer'.                  *)
Claimed(S)   == {t \in S : pc[t] \in {"lock", "copy", "count"}}
Unposted(S)  == {t \in S : pc[t] \in {"unlock", "post"}}

ReaderBalance ==
  used = reader + Cardinality(Claimed(Consumers))
                + Cardinality(Unposted(Producers))

WriterBalance ==
  Avail = used + writer + Cardinality(Claimed(Producers))
                        + Cardinality(Unposted(Consumers))

SemaphoreBalance == ReaderBalance /\ WriterBalance

(* The port implements the bounded FIFO channel: a message is put when     *)
(* `used' is raised, and taken when it is copied to the caller.            *)
Departing == \E c \in Consumers : pc[c] = "count"
Gone == IF Departing THEN 1 ELSE 0

PortQueue == [i \in 1 .. used - Gone |-> buf[Slot(Gone + i - 1)]]
PortTaken == [c \in Consumers |-> msg[c]]

Channel == INSTANCE MsgChannel WITH queue <- PortQueue, taken <- PortTaken

ImplementsChannel == Channel!ChannelSpec

(* A thread that is inside tmsg_push returns, unless other pushes overtake *)
(* it for ever: neither the semaphores nor the mutex strand it, but no     *)
(* pthread mutex promises it a turn.                                       *)
PushReturns ==
  \A p \in Producers :
    pc[p] # "idle" ~> pc[p] = "idle" \/ \E q \in Producers \ {p} : pc[q] = "post"

(* The one consumer of a port never waits without end where it must not:   *)
(* tmsg_popTimespec returns with a message or at its deadline, and         *)
(* faun_pollSignals pops the messages tmsg_used reported, which may not be *)
(* posted yet, without waiting for another push.                           *)
PopReturns ==
  \A c \in Consumers :
    pc[c] = "wait" /\ (timed[c] \/ want[c] > 1) ~> pc[c] = "idle"

=============================================================================
