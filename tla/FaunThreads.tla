----------------------------- MODULE FaunThreads ----------------------------
(***************************************************************************)
(* The threads of a program that uses faun: application threads that make  *)
(* API calls, and the audio thread, joined by the command port and the     *)
(* signal port.  Both ports are the bounded FIFO channel that MsgPort is   *)
(* shown to implement.  One application thread starts the library up and   *)
(* shuts it down; the others are outside the library while it does.        *)
(*                                                                         *)
(* What the audio thread plays is reduced to the signals it still owes;    *)
(* FaunVoice has the sources.  The memory of samples is followed from the  *)
(* load in an application thread to its release.                           *)
(***************************************************************************)
EXTENDS Integers, Sequences, FiniteSets, SequencesExt

CONSTANTS Apps,         \* application threads
          Main,         \* the one that calls faun_startup and faun_shutdown
          Sources,      \* source identifiers
          NoSource,     \* in a FaunSignal that was never written
          Buffers,      \* buffer identifiers
          Blocks,       \* blocks of sample memory
          NoBlock,      \* NULL
          CmdAvail,     \* capacity of the command port
          SigAvail,     \* capacity of the signal port
          SigLimit,     \* signals the application lets be outstanding
          PollMax       \* the `count' given to faun_pollSignals

ASSUME ThreadsAssumption ==
  /\ Main \in Apps
  /\ NoSource \notin Sources
  /\ NoBlock \notin Blocks
  /\ CmdAvail \in Nat \ {0} /\ SigAvail \in Nat \ {0}
  /\ SigLimit \in Nat /\ PollMax \in Nat

VARIABLES audioUp,      \* _audioUp: the ports and the audio thread exist
          cmd,          \* the command port
          sig,          \* the signal port
          pc,           \* pc[t]: where thread t is in the API
          out,          \* out[t]: the command it is pushing
          want,         \* want[t]: signals it still has to pop
          got,          \* got[t]: its FaunSignal
          audio,        \* where the audio thread is
          todo,         \* signals of this cycle it still has to push
          suspended,    \* sleepTime < 0
          corked,       \* sysaudio_stopVoice was the last of start and stop
          due,          \* signals that playing sources and programs owe
          buffer,       \* buffer[b]: its sample memory
          heap,         \* blocks allocated
          held,         \* what faun_startup has acquired and not released
          refused       \* history: sysaudio_allocVoice failed since a shutdown

ports == <<cmd, sig>>
app   == <<pc, out, want, got>>
voice == <<suspended, corked, due>>
memory == <<buffer, heap>>
system == <<held, refused>>
vars  == <<audioUp, ports, app, audio, todo, voice, memory, system>>

Events  == {"done", "prog"}
Signals == [id : Sources, signal : Events]
Unwritten == [id |-> NoSource, signal |-> "none"]

NoCmd   == [op |-> "none"]
Quit    == [op |-> "quit"]
Suspend == [op |-> "suspend"]
Resume  == [op |-> "resume"]
Commands ==
  {Quit, Suspend, Resume}
  \cup [op : {"set_buffer"}, buf : Buffers, block : Blocks]
  \cup [op : {"buffers_free"}, bufs : SUBSET Buffers]
  \cup [op : {"play_source", "program"}, src : Sources]

Init ==
  /\ audioUp = FALSE
  /\ cmd = <<>> /\ sig = <<>>
  /\ pc = [t \in Apps |-> "idle"]
  /\ out = [t \in Apps |-> NoCmd]
  /\ want = [t \in Apps |-> 0]
  /\ got = [t \in Apps |-> Unwritten]
  /\ audio = "none"
  /\ todo = <<>>
  /\ suspended = FALSE /\ corked = FALSE
  /\ due = {}
  /\ buffer = [b \in Buffers |-> NoBlock]
  /\ heap = {}
  /\ held = {} /\ refused = FALSE

-----------------------------------------------------------------------------
(* Application threads                                                     *)

Issued(S) == {t \in Apps : pc[t] = "push" /\ out[t].op \in S}
InPort(S) == {i \in 1 .. Len(cmd) : cmd[i].op \in S}

(* Signals that may yet arrive in, or lie unread in, the signal port.      *)
Outstanding ==
  Len(sig) + Len(todo) + Cardinality(due)
    + Cardinality(InPort({"play_source", "program"}))
    + Cardinality(Issued({"play_source", "program"}))

ShuttingDown == pc[Main] = "join" \/ Issued({"quit"}) # {}

(* An API call that sends command c.                                       *)
Call(t, c) ==
  /\ audioUp
  /\ pc[t] = "idle"
  /\ ~ShuttingDown
  /\ pc' = [pc EXCEPT ![t] = "push"]
  /\ out' = [out EXCEPT ![t] = c]
  /\ UNCHANGED <<audioUp, ports, want, got, audio, todo, voice, system>>

(* faun_loadBuffer and its kin: the samples are read in this thread and    *)
(* their memory is handed over in the message.                             *)
LoadBuffer(t, b) ==
  \E m \in Blocks \ heap :
    /\ heap' = heap \cup {m}
    /\ Call(t, [op |-> "set_buffer", buf |-> b, block |-> m])
    /\ UNCHANGED buffer

FreeBuffers(t, B) == Call(t, [op |-> "buffers_free", bufs |-> B]) /\ UNCHANGED memory

(* faun_playSource with FAUN_SIGNAL_DONE, and faun_program with FO_SIGNAL. *)
AskSignal(t, op, s) ==
  /\ Outstanding < SigLimit
  /\ Call(t, [op |-> op, src |-> s])
  /\ UNCHANGED memory

SuspendOrResume(t, c) == Call(t, c) /\ UNCHANGED memory

(* faun_startup acquires one resource after the other; what it has when a  *)
(* step fails is released by the code that step goes to.                   *)
Resources == {"context", "arrays", "mix", "stream", "cmd", "sig", "thread"}

CloseSystem(h) == h \ {"context"}                    \* sysaudio_close
FreeVoice(h)   == h \ {"stream"}                     \* sysaudio_freeVoice

StartupStep(from, to, h) ==
  /\ pc[Main] = from
  /\ pc' = [pc EXCEPT ![Main] = to]
  /\ held' = h
  /\ UNCHANGED <<ports, out, want, got, todo, due, memory>>

Proceed(from, to, rs) ==
  /\ StartupStep(from, to, held \cup rs)
  /\ UNCHANGED <<audioUp, audio, suspended, corked, refused>>

Fail(from, h) ==
  /\ StartupStep(from, "idle", h)
  /\ UNCHANGED <<audioUp, audio, suspended, corked>>

Startup == ~audioUp /\ Proceed("idle", "open", {})

OpenSystem ==                                        \* sysaudio_open
  \/ Proceed("open", "arrays", {"context"})
  \/ Fail("open", held) /\ UNCHANGED refused

(* The mix buffer of an earlier attempt is freed, its arrays are not.      *)
AllocArrays ==
  \/ Proceed("arrays", "voice", {"arrays", "mix"})
  \/ Fail("arrays", CloseSystem(held)) /\ UNCHANGED refused

(* The stream may exist when its connection fails.                         *)
AllocVoice ==                                        \* sysaudio_allocVoice
  \/ Proceed("voice", "cmd", {"stream"})
  \/ \E made \in SUBSET {"stream"} :
       Fail("voice", CloseSystem(held) \cup made) /\ refused' = TRUE

(* What faun_shutdown releases after the ports and the thread.             *)
Released(h) == CloseSystem(FreeVoice(h \ {"arrays", "mix"}))

\* Mutant: the command port is left when the signal port fails.
CreatePortsLeft ==
  \/ Proceed("cmd", "sig", {"cmd"})
  \/ Proceed("sig", "thread", {"sig"})
  \/ Fail("cmd", Released(held)) /\ refused' = FALSE
  \/ Fail("sig", Released(held)) /\ refused' = FALSE

CreatePorts ==
  \/ Proceed("cmd", "sig", {"cmd"})
  \/ Proceed("sig", "thread", {"sig"})
  \/ Fail("cmd", Released(held)) /\ refused' = FALSE
  \/ Fail("sig", Released(held \ {"cmd"})) /\ refused' = FALSE

CreateThread ==
  \/ /\ StartupStep("thread", "idle", held \cup {"thread"})
     /\ audioUp' = TRUE
     /\ audio' = "wait"
     /\ suspended' = FALSE /\ corked' = FALSE
     /\ refused' = FALSE
  \/ Fail("thread", Released(held \ {"sig", "cmd"})) /\ refused' = FALSE

StartupSteps ==
  OpenSystem \/ AllocArrays \/ AllocVoice \/ CreatePorts \/ CreateThread

(* faun_shutdown                                                           *)
Shutdown ==
  /\ \A t \in Apps : pc[t] = "idle"
  /\ Call(Main, Quit)
  /\ UNCHANGED memory

\* Mutant: the push does not wait for room.
PushCommandAnyway(t) ==
  /\ pc[t] = "push"
  /\ cmd' = Append(cmd, out[t])
  /\ pc' = [pc EXCEPT ![t] = IF out[t] = Quit THEN "join" ELSE "idle"]
  /\ out' = [out EXCEPT ![t] = NoCmd]
  /\ UNCHANGED <<audioUp, sig, want, got, audio, todo, voice, memory, system>>

\* Mutant: the command goes before those already in the port.
PushCommandFirst(t) ==
  /\ pc[t] = "push"
  /\ Len(cmd) < CmdAvail
  /\ cmd' = <<out[t]>> \o cmd
  /\ pc' = [pc EXCEPT ![t] = IF out[t] = Quit THEN "join" ELSE "idle"]
  /\ out' = [out EXCEPT ![t] = NoCmd]
  /\ UNCHANGED <<audioUp, sig, want, got, audio, todo, voice, memory, system>>

PushCommand(t) ==
  /\ pc[t] = "push"
  /\ Len(cmd) < CmdAvail
  /\ cmd' = Append(cmd, out[t])
  /\ pc' = [pc EXCEPT ![t] = IF out[t] = Quit THEN "join" ELSE "idle"]
  /\ out' = [out EXCEPT ![t] = NoCmd]
  /\ UNCHANGED <<audioUp, sig, want, got, audio, todo, voice, memory, system>>

(* threadJoin returns; the ports and every buffer are freed.               *)
Join ==
  /\ pc[Main] = "join"
  /\ audio = "exited"
  /\ cmd' = <<>> /\ sig' = <<>>
  /\ heap' = heap \ {buffer[b] : b \in Buffers}
  /\ buffer' = [b \in Buffers |-> NoBlock]
  /\ due' = {}
  /\ audioUp' = FALSE
  /\ audio' = "none"
  /\ pc' = [pc EXCEPT ![Main] = "idle"]
  /\ held' = Released(held \ {"thread", "cmd", "sig"})
  /\ refused' = FALSE
  /\ UNCHANGED <<out, want, got, todo, suspended, corked>>

(* faun_waitSignal (one signal) and faun_pollSignals (those in the port).  *)
AskSignals(t, n) ==
  /\ audioUp
  /\ pc[t] = "idle"
  /\ ~ShuttingDown
  /\ n > 0
  /\ pc' = [pc EXCEPT ![t] = "pop"]
  /\ want' = [want EXCEPT ![t] = n]
  /\ UNCHANGED <<audioUp, ports, out, got, audio, todo, voice, memory, system>>

WaitSignal(t)  == AskSignals(t, 1)
PollSignals(t) == AskSignals(t, IF Len(sig) > PollMax THEN PollMax ELSE Len(sig))

(* A message of SIG_SIZE bytes holds the id of a FaunSignal, not `signal'. *)
PopSignal(t) ==
  /\ pc[t] = "pop"
  /\ sig # <<>>
  /\ got' = [got EXCEPT ![t].id = Head(sig).id]
  /\ sig' = Tail(sig)
  /\ want' = [want EXCEPT ![t] = @ - 1]
  /\ pc' = [pc EXCEPT ![t] = IF want[t] > 1 THEN "pop" ELSE "idle"]
  /\ UNCHANGED <<audioUp, cmd, out, audio, todo, voice, memory, system>>

-----------------------------------------------------------------------------
(* The audio thread                                                        *)

Receive(op) ==
  /\ audio = "wait"
  /\ cmd # <<>>
  /\ Head(cmd).op = op
  /\ cmd' = Tail(cmd)
  /\ UNCHANGED <<audioUp, sig, app, todo, system>>

\* Mutant: a suspended thread does not look at it.
ReceiveQuitAwake ==
  /\ ~suspended
  /\ Receive("quit")
  /\ audio' = "exited"
  /\ UNCHANGED <<voice, memory>>

ReceiveQuit ==
  /\ Receive("quit")
  /\ audio' = "exited"
  /\ UNCHANGED <<voice, memory>>

StopVoice  == corked' = TRUE                         \* sysaudio_stopVoice
StartVoice == corked' = FALSE                        \* sysaudio_startVoice

ReceiveSuspend ==
  /\ Receive("suspend")
  /\ suspended' = TRUE
  /\ StopVoice
  /\ UNCHANGED <<audio, due, memory>>

\* Mutant: the voice is not started again.
ReceiveResumeCorked ==
  /\ Receive("resume")
  /\ suspended' = FALSE
  /\ UNCHANGED <<audio, corked, due, memory>>

ReceiveResume ==
  /\ Receive("resume")
  /\ suspended' = FALSE
  /\ StartVoice
  /\ UNCHANGED <<audio, due, memory>>

\* Mutant: the old samples are not freed.
ReceiveSetBufferOver ==
  LET c == Head(cmd) IN
  /\ Receive("set_buffer")
  /\ buffer' = [buffer EXCEPT ![c.buf] = c.block]
  /\ UNCHANGED <<audio, voice, heap>>

ReceiveSetBuffer ==
  LET c == Head(cmd) IN
  /\ Receive("set_buffer")
  /\ heap' = heap \ {buffer[c.buf]}
  /\ buffer' = [buffer EXCEPT ![c.buf] = c.block]
  /\ UNCHANGED <<audio, voice>>

(* Sources that play a freed buffer are stopped and signal nothing.        *)
ReceiveBuffersFree ==
  LET c == Head(cmd) IN
  /\ Receive("buffers_free")
  /\ heap' = heap \ {buffer[b] : b \in c.bufs}
  /\ buffer' = [b \in Buffers |-> IF b \in c.bufs THEN NoBlock ELSE buffer[b]]
  /\ \E D \in SUBSET due :
       /\ \A x \in D : x.signal = "done"
       /\ due' = due \ D
  /\ UNCHANGED <<audio, suspended, corked>>

ReceiveAsk(op, event) ==
  /\ Receive(op)
  /\ due' = due \cup {[id |-> Head(cmd).src, signal |-> event]}
  /\ UNCHANGED <<audio, suspended, corked, memory>>

ReceivePlay    == ReceiveAsk("play_source", "done")
ReceiveProgram == ReceiveAsk("program", "prog")

ReceiveAny ==
  \/ ReceiveQuit \/ ReceiveSuspend \/ ReceiveResume
  \/ ReceiveSetBuffer \/ ReceiveBuffersFree
  \/ ReceivePlay \/ ReceiveProgram

\* Mutant: a program that has signalled is run again.
UpdateRepeats(finished) ==
  LET progs == {x \in due : x.signal = "prog"} IN
  /\ audio = "wait"
  /\ ~suspended
  /\ finished \subseteq due \ progs
  /\ todo' = SetToSeq(progs) \o SetToSeq(finished)
  /\ due' = due \ finished
  /\ audio' = "mix"
  /\ UNCHANGED <<audioUp, ports, app, suspended, corked, memory, system>>

(* The deadline passes.  Programs signal first, then the sources that      *)
(* finish in this cycle; a suspended thread waits without a deadline.      *)
(* A message may be in the port but not yet posted to its semaphore.       *)
Update(finished) ==
  LET progs == {x \in due : x.signal = "prog"} IN
  /\ audio = "wait"
  /\ ~suspended
  /\ finished \subseteq due \ progs
  /\ todo' = SetToSeq(progs) \o SetToSeq(finished)
  /\ due' = due \ (progs \cup finished)
  /\ audio' = "mix"
  /\ UNCHANGED <<audioUp, ports, app, suspended, corked, memory, system>>

(* signalDone and FO_SIGNAL push and so wait while the port is full.       *)
PushSignal ==
  /\ audio = "mix"
  /\ todo # <<>>
  /\ Len(sig) < SigAvail
  /\ sig' = Append(sig, Head(todo))
  /\ todo' = Tail(todo)
  /\ UNCHANGED <<audioUp, cmd, app, audio, voice, memory, system>>

(* sysaudio_write waits for room, and a corked stream makes none.          *)
HasRoom == ~corked

Write ==
  /\ audio = "mix"
  /\ todo = <<>>
  /\ HasRoom
  /\ audio' = "wait"
  /\ UNCHANGED <<audioUp, ports, app, todo, voice, memory, system>>

-----------------------------------------------------------------------------

CallApi(t) ==
  \/ \E b \in Buffers : LoadBuffer(t, b)
  \/ \E B \in SUBSET Buffers : B # {} /\ FreeBuffers(t, B)
  \/ \E s \in Sources : AskSignal(t, "play_source", s) \/ AskSignal(t, "program", s)
  \/ SuspendOrResume(t, Suspend) \/ SuspendOrResume(t, Resume)
  \/ WaitSignal(t) \/ PollSignals(t)

AppStep == \E t \in Apps : CallApi(t) \/ PushCommand(t) \/ PopSignal(t)

AudioThread ==
  ReceiveAny \/ (\E F \in SUBSET due : Update(F)) \/ PushSignal \/ Write

Next == Startup \/ StartupSteps \/ Shutdown \/ Join \/ AppStep \/ AudioThread

Spec == Init /\ [][Next]_vars

(* Threads inside the library run.  The audio thread takes a message that  *)
(* is there before it looks at its deadline (sem_timedwait).  Nothing      *)
(* makes the application call, a source finish, or the semaphore of a port *)
(* pick one waiter over another.                                           *)
FairSpec ==
  /\ Spec
  /\ \A t \in Apps : WF_vars(PushCommand(t)) /\ WF_vars(PopSignal(t))
  /\ WF_vars(Join)
  /\ SF_vars(ReceiveAny) /\ WF_vars(PushSignal) /\ WF_vars(Write)

-----------------------------------------------------------------------------
(* Properties                                                              *)

TypeOK ==
  /\ audioUp \in BOOLEAN
  /\ cmd \in Seq(Commands) /\ Len(cmd) <= CmdAvail
  /\ sig \in Seq(Signals) /\ Len(sig) <= SigAvail
  /\ pc \in [Apps -> {"idle", "push", "pop", "join",
                     "open", "arrays", "voice", "cmd", "sig", "thread"}]
  /\ out \in [Apps -> Commands \cup {NoCmd}]
  /\ want \in [Apps -> Nat]
  /\ got \in [Apps -> [id : Sources \cup {NoSource}, signal : Events \cup {"none"}]]
  /\ audio \in {"none", "wait", "mix", "exited"}
  /\ todo \in Seq(Signals)
  /\ suspended \in BOOLEAN /\ corked \in BOOLEAN
  /\ due \subseteq Signals
  /\ buffer \in [Buffers -> Blocks \cup {NoBlock}]
  /\ heap \subseteq Blocks
  /\ held \subseteq Resources
  /\ refused \in BOOLEAN

(* Each block of sample memory has exactly one owner: a buffer, a message  *)
(* in the port, or a thread about to push one.  So none is lost and none   *)
(* is freed twice, by whatever threads loads, frees and shutdown are made. *)
BufferOwners(m) == {b \in Buffers : buffer[b] = m}
PortOwners(m)   == {i \in InPort({"set_buffer"}) : cmd[i].block = m}
AppOwners(m)    == {t \in Issued({"set_buffer"}) : out[t].block = m}

OneOwner ==
  \A m \in Blocks :
    Cardinality(BufferOwners(m)) + Cardinality(PortOwners(m))
      + Cardinality(AppOwners(m)) = IF m \in heap THEN 1 ELSE 0

(* Every command issued before faun_shutdown has been carried out when the *)
(* audio thread leaves, so shutdown abandons nothing in the port.          *)
NothingAbandoned == audio = "exited" => cmd = <<>>

(* The audio thread finds room for every signal of a cycle and is not held *)
(* up by an application that keeps at most SigAvail signals outstanding.   *)
SignalsFit == audio = "mix" => Len(sig) + Len(todo) <= SigAvail

(* Nothing is written to a voice that is stopped; the PulseAudio backend   *)
(* would wait for room in a corked stream for ever.                        *)
WritesOnlyWhenStarted == audio = "mix" => ~corked

(* The library is up with everything it needs, or down with nothing left   *)
(* of it, at whatever step a startup failed and whatever failed before;    *)
(* only what a refused voice leaves behind (the arrays, the mix buffer and *)
(* perhaps a stream) stays, until a later startup comes past that point.   *)
AllOrNothing ==
  /\ audioUp => held = Resources
  /\ ~audioUp /\ pc[Main] = "idle" =>
       held \subseteq IF refused THEN {"arrays", "mix", "stream"} ELSE {}

(* The audio thread never leaves the command port full for ever, so API    *)
(* calls that wait for room get some.                                      *)
PortDrains == Len(cmd) = CmdAvail ~> Len(cmd) < CmdAvail

(* faun_shutdown returns, whatever is queued in either port, and whether   *)
(* or not the library is suspended.                                        *)
ShutdownReturns == ShuttingDown ~> ~audioUp

(* FaunSignal::signal: "This is the FaunPlayMode event (FAUN_SIGNAL_DONE,  *)
(* FAUN_SIGNAL_PROG) which occurred."                                      *)
SignalNamesEvent == \A t \in Apps : got[t].id # NoSource => got[t].signal \in Events

=============================================================================
