------------------------- MODULE FaunThreads_proofs -------------------------
(***************************************************************************)
(* Proofs about FaunThreads, for any number of application threads,        *)
(* sources, buffers and blocks of memory, and ports of any capacity.       *)
(***************************************************************************)
EXTENDS FaunThreads, FiniteSetTheorems, SequenceTheorems, TLAPS

(* SetToSeq lists a finite set, each element once.                         *)
LEMMA Listed ==
  ASSUME NEW T, NEW S \in SUBSET T, IsFiniteSet(S)
  PROVE  SetToSeq(S) \in Seq(T) /\ Len(SetToSeq(S)) = Cardinality(S)
  <1> DEFINE n == Cardinality(S)
  <1>1. n \in Nat /\ ExistsBijection(1 .. n, S)
    BY FS_CardinalityType
  <1>2. \E f \in [1 .. n -> S] : IsInjective(f)
    BY <1>1 DEF ExistsBijection, Bijection, Injection
  <1>3. SetToSeq(S) \in [1 .. n -> S]
    BY <1>2 DEF SetToSeq
  <1>4. SetToSeq(S) \in Seq(S)
    BY <1>1, <1>3, SeqDef
  <1>5. SetToSeq(S) \in Seq(T)
    BY <1>4, SeqMonotonic
  <1>6. DOMAIN SetToSeq(S) = 1 .. Len(SetToSeq(S)) /\ Len(SetToSeq(S)) \in Nat
    BY <1>4, LenProperties
  <1>7. 1 .. n = 1 .. Len(SetToSeq(S))
    BY <1>3, <1>6
  <1>8. QED
    BY <1>1, <1>5, <1>6, <1>7

(* The order of what a cycle signals does not matter here.                 *)
Progs == {x \in due : x.signal = "prog"}

LEMMA UpdateLists ==
  ASSUME TypeOK, IsFiniteSet(due), NEW F \in SUBSET due, Update(F)
  PROVE  /\ todo' \in Seq(Signals)
         /\ F \cap Progs = {}
         /\ Len(todo') = Cardinality(Progs) + Cardinality(F)
  <1>1. Progs \subseteq due /\ due \subseteq Signals /\ F \cap Progs = {}
    BY DEF Update, Progs, TypeOK
  <1>2. IsFiniteSet(Progs) /\ IsFiniteSet(F)
    BY <1>1, FS_Subset
  <1>3. todo' = SetToSeq(Progs) \o SetToSeq(F)
    BY DEF Update, Progs
  <1>4. /\ SetToSeq(Progs) \in Seq(Signals) /\ Len(SetToSeq(Progs)) = Cardinality(Progs)
        /\ SetToSeq(F) \in Seq(Signals) /\ Len(SetToSeq(F)) = Cardinality(F)
    BY <1>1, <1>2, Listed
  <1>5. QED
    BY <1>1, <1>3, <1>4, ConcatProperties

-----------------------------------------------------------------------------
(* Types                                                                   *)

(* Also: who pushes has a command, who pops wants a signal, and the        *)
(* signals owed are finite.                                                *)
Typed ==
  /\ TypeOK
  /\ IsFiniteSet(due)
  /\ \A t \in Apps : pc[t] = "push" => out[t] \in Commands
  /\ \A t \in Apps : pc[t] = "pop" => want[t] > 0

LEMMA InitTyped == Init => Typed
  <1> SUFFICES ASSUME Init PROVE Typed
    OBVIOUS
  <1>1. <<>> \in Seq(Commands) /\ <<>> \in Seq(Signals) /\ Len(<<>>) = 0
    BY EmptySeq
  <1>2. IsFiniteSet(due)
    BY FS_EmptySet DEF Init
  <1>3. got \in [Apps -> [id : Sources \cup {NoSource}, signal : Events \cup {"none"}]]
    BY DEF Init, Unwritten
  <1>4. /\ cmd \in Seq(Commands) /\ Len(cmd) <= CmdAvail
        /\ sig \in Seq(Signals) /\ Len(sig) <= SigAvail
        /\ todo \in Seq(Signals)
    BY <1>1, ThreadsAssumption DEF Init
  <1>5. /\ pc \in [Apps -> {"idle"}] /\ out \in [Apps -> {NoCmd}] /\ want \in [Apps -> {0}]
        /\ buffer \in [Buffers -> {NoBlock}] /\ heap = {} /\ held = {} /\ due = {}
        /\ ~audioUp /\ audio = "none" /\ ~suspended /\ ~corked /\ ~refused
    BY DEF Init
  <1>6. TypeOK
    BY <1>3, <1>4, <1>5 DEF TypeOK, Init
  <1>7. QED
    BY <1>2, <1>5, <1>6 DEF Typed

LEMMA CommandsOf ==
  /\ Quit \in Commands /\ Suspend \in Commands \ {Quit} /\ Resume \in Commands \ {Quit}
  /\ \A b \in Buffers, m \in Blocks :
       [op |-> "set_buffer", buf |-> b, block |-> m] \in Commands \ {Quit}
  /\ \A B \in SUBSET Buffers : [op |-> "buffers_free", bufs |-> B] \in Commands \ {Quit}
  /\ \A o \in {"play_source", "program"}, s \in Sources :
       [op |-> o, src |-> s] \in Commands \ {Quit}
  <1>1. /\ Quit \in Commands /\ Suspend \in Commands /\ Resume \in Commands
        /\ \A b \in Buffers, m \in Blocks :
             [op |-> "set_buffer", buf |-> b, block |-> m] \in Commands
        /\ \A B \in SUBSET Buffers : [op |-> "buffers_free", bufs |-> B] \in Commands
        /\ \A o \in {"play_source", "program"}, s \in Sources : [op |-> o, src |-> s] \in Commands
    BY DEF Commands
  <1>2. Quit.op = "quit" /\ Suspend.op = "suspend" /\ Resume.op = "resume"
    BY DEF Quit, Suspend, Resume
  <1>3. QED
    BY <1>1, <1>2

(* What a command carries, by its name.                                    *)
LEMMA CommandParts ==
  ASSUME NEW c \in Commands
  PROVE  /\ c.op = "set_buffer" => c.buf \in Buffers /\ c.block \in Blocks
         /\ c.op = "buffers_free" => c.bufs \in SUBSET Buffers
         /\ c.op \in {"play_source", "program"} => c.src \in Sources
         /\ c.op = "quit" <=> c = Quit
         /\ c # NoCmd
  BY DEF Commands, Quit, Suspend, Resume, NoCmd

(* An API call sends one of the commands.                                  *)
LEMMA CallTyped ==
  ASSUME Typed, NEW t \in Apps, NEW c \in Commands, Call(t, c), heap' \subseteq Blocks,
         UNCHANGED buffer
  PROVE  Typed'
  BY DEF Typed, TypeOK, Call, ports, voice, system

(* So do the ends of the ports ...                                         *)
LEMMA PushTyped == ASSUME Typed, NEW t \in Apps, PushCommand(t) PROVE Typed'
  <1>1. out[t] \in Commands /\ cmd \in Seq(Commands)
    BY DEF Typed, TypeOK, PushCommand
  <1>2. cmd' \in Seq(Commands) /\ Len(cmd') <= CmdAvail
    BY <1>1, AppendProperties, LenProperties, ThreadsAssumption DEF Typed, TypeOK, PushCommand
  <1>3. QED
    BY <1>2 DEF Typed, TypeOK, PushCommand, voice, memory, system

LEMMA PopTyped == ASSUME Typed, NEW t \in Apps, PopSignal(t) PROVE Typed'
  <1>1. sig \in Seq(Signals) /\ sig # <<>>
    BY DEF Typed, TypeOK, PopSignal
  <1>2. Head(sig) \in Signals /\ sig' \in Seq(Signals) /\ Len(sig') <= SigAvail
    BY <1>1, HeadTailProperties, LenProperties, ThreadsAssumption DEF Typed, TypeOK, PopSignal
  <1>3. got' \in [Apps -> [id : Sources \cup {NoSource}, signal : Events \cup {"none"}]]
    BY <1>2 DEF Typed, TypeOK, PopSignal, Signals
  <1>4. want' \in [Apps -> Nat] /\ \A x \in Apps : pc'[x] = "pop" => want'[x] > 0
    BY DEF Typed, TypeOK, PopSignal
  <1>5. QED
    BY <1>2, <1>3, <1>4 DEF Typed, TypeOK, PopSignal, voice, memory, system

(* A command that is received leaves the port and the rest of the types.   *)
LEMMA Received ==
  ASSUME Typed, NEW op, Receive(op)
  PROVE  /\ Head(cmd) \in Commands /\ Head(cmd).op = op
         /\ cmd' \in Seq(Commands) /\ Len(cmd') <= CmdAvail /\ Len(cmd') = Len(cmd) - 1
         /\ \A i \in 1 .. Len(cmd') : cmd'[i] = cmd[i + 1]
  BY HeadTailProperties, LenProperties, ThreadsAssumption DEF Typed, TypeOK, Receive

LEMMA ReceiveTyped ==
  ASSUME Typed, NEW op, Receive(op), audio' \in {"wait", "exited"},
         suspended' \in BOOLEAN, corked' \in BOOLEAN,
         due' \subseteq Signals, IsFiniteSet(due'),
         buffer' \in [Buffers -> Blocks \cup {NoBlock}], heap' \subseteq Blocks
  PROVE  Typed'
  BY Received DEF Typed, TypeOK, Receive, app, system

LEMMA CallsTyped ==
  ASSUME Typed, NEW t \in Apps, CallApi(t)
  PROVE  Typed'
  <1>1. ASSUME NEW b \in Buffers, LoadBuffer(t, b) PROVE Typed'
    <2>1. PICK m \in Blocks \ heap :
            /\ heap' = heap \cup {m}
            /\ Call(t, [op |-> "set_buffer", buf |-> b, block |-> m])
            /\ UNCHANGED buffer
      BY <1>1 DEF LoadBuffer
    <2>2. heap' \subseteq Blocks
      BY <2>1 DEF Typed, TypeOK
    <2>3. QED
      BY <2>1, <2>2, CallTyped, CommandsOf
  <1>2. ASSUME NEW B \in SUBSET Buffers, FreeBuffers(t, B) PROVE Typed'
    BY <1>2, CallTyped, CommandsOf DEF FreeBuffers, memory, Typed, TypeOK
  <1>3. ASSUME NEW op \in {"play_source", "program"}, NEW s \in Sources, AskSignal(t, op, s)
        PROVE  Typed'
    BY <1>3, CallTyped, CommandsOf DEF AskSignal, memory, Typed, TypeOK
  <1>4. ASSUME NEW c \in {Suspend, Resume}, SuspendOrResume(t, c) PROVE Typed'
    BY <1>4, CallTyped, CommandsOf DEF SuspendOrResume, memory, Typed, TypeOK
  <1>5. ASSUME NEW n \in Nat, AskSignals(t, n) PROVE Typed'
    BY <1>5 DEF AskSignals, Typed, TypeOK, ports, voice, memory, system
  <1>6. ASSUME PollSignals(t) PROVE Typed'
    <2>1. Len(sig) \in Nat /\ PollMax \in Nat
      BY LenProperties, ThreadsAssumption DEF Typed, TypeOK
    <2>2. QED
      BY <1>5, <1>6, <2>1 DEF PollSignals
  <1>7. QED
    BY <1>1, <1>2, <1>3, <1>4, <1>5, <1>6 DEF CallApi, WaitSignal

LEMMA StartupTyped ==
  ASSUME Typed, Startup \/ StartupSteps
  PROVE  Typed'
  <1> USE ThreadsAssumption DEF Typed, TypeOK, StartupStep, ports, memory
  <1>1. ASSUME NEW from, NEW to, NEW rs \in SUBSET Resources, Proceed(from, to, rs),
               to \in {"open", "arrays", "voice", "cmd", "sig", "thread"}
        PROVE  Typed'
    BY <1>1 DEF Proceed
  <1>2. ASSUME NEW from, NEW h \in SUBSET Resources, Fail(from, h), refused' \in BOOLEAN
        PROVE  Typed'
    BY <1>2 DEF Fail
  <1>3. held \subseteq Resources /\ CloseSystem(held) \subseteq Resources
        /\ \A r : Released(held \ r) \subseteq Resources /\ Released(held) \subseteq Resources
    BY DEF CloseSystem, Released, FreeVoice
  <1>4. ASSUME CreateThread PROVE Typed'
    <2>1. CASE Fail("thread", Released(held \ {"sig", "cmd"})) /\ refused' = FALSE
      BY <1>2, <1>3, <2>1
    <2>2. CASE ~(Fail("thread", Released(held \ {"sig", "cmd"})) /\ refused' = FALSE)
      BY <1>4, <2>2 DEF CreateThread, Resources
    <2>3. QED
      BY <2>1, <2>2
  <1>5. CASE Startup
    BY <1>1, <1>5 DEF Startup
  <1>6. CASE OpenSystem
    BY <1>1, <1>2, <1>3, <1>6 DEF OpenSystem, Resources
  <1>7. CASE AllocArrays
    BY <1>1, <1>2, <1>3, <1>7 DEF AllocArrays, Resources
  <1>8. CASE AllocVoice
    <2>1. \A made \in SUBSET {"stream"} : CloseSystem(held) \cup made \subseteq Resources
      BY <1>3 DEF Resources
    <2>2. QED
      BY <1>1, <1>2, <1>8, <2>1 DEF AllocVoice, Resources
  <1>9. CASE CreatePorts
    BY <1>1, <1>2, <1>3, <1>9 DEF CreatePorts, Resources
  <1>10. QED
    BY <1>4, <1>5, <1>6, <1>7, <1>8, <1>9 DEF StartupSteps

LEMMA AudioTyped ==
  ASSUME Typed, AudioThread
  PROVE  Typed'
  <1> USE DEF voice, memory
  <1>1. CASE ReceiveQuit
    BY <1>1, ReceiveTyped DEF ReceiveQuit, Typed, TypeOK
  <1>2. CASE ReceiveSuspend
    BY <1>2, ReceiveTyped DEF ReceiveSuspend, StopVoice, Receive, Typed, TypeOK
  <1>3. CASE ReceiveResume
    BY <1>3, ReceiveTyped DEF ReceiveResume, StartVoice, Receive, Typed, TypeOK
  <1>4. CASE ReceiveSetBuffer
    <2>1. Head(cmd).buf \in Buffers /\ Head(cmd).block \in Blocks
      BY <1>4, Received, CommandParts DEF ReceiveSetBuffer
    <2>2. /\ heap' \subseteq Blocks
          /\ buffer' \in [Buffers -> Blocks \cup {NoBlock}]
          /\ UNCHANGED <<audio, suspended, corked, due>>
      BY <1>4, <2>1 DEF ReceiveSetBuffer, Typed, TypeOK
    <2>3. Receive("set_buffer")
      BY <1>4 DEF ReceiveSetBuffer
    <2>4. QED
      BY <2>2, <2>3, ReceiveTyped DEF Receive, Typed, TypeOK
  <1>5. CASE ReceiveBuffersFree
    <2>1. due' \subseteq due
      BY <1>5 DEF ReceiveBuffersFree
    <2>2. IsFiniteSet(due') /\ due' \subseteq Signals
      BY <2>1, FS_Subset DEF Typed, TypeOK
    <2>3. /\ heap' \subseteq Blocks
          /\ buffer' \in [Buffers -> Blocks \cup {NoBlock}]
          /\ UNCHANGED <<audio, suspended, corked>>
      BY <1>5 DEF ReceiveBuffersFree, Typed, TypeOK
    <2>4. Receive("buffers_free")
      BY <1>5 DEF ReceiveBuffersFree
    <2>5. QED
      BY <2>2, <2>3, <2>4, ReceiveTyped DEF Receive, Typed, TypeOK
  <1>6. ASSUME NEW op \in {"play_source", "program"}, NEW event \in Events, ReceiveAsk(op, event)
        PROVE  Typed'
    <2>1. Head(cmd).src \in Sources
      BY <1>6, Received, CommandParts DEF ReceiveAsk
    <2> DEFINE x == [id |-> Head(cmd).src, signal |-> event]
    <2>2. x \in Signals /\ due' = due \cup {x}
      BY <1>6, <2>1 DEF ReceiveAsk, Signals
    <2>3. due' \subseteq Signals
      BY <2>2 DEF Typed, TypeOK
    <2>4. IsFiniteSet(due')
      BY <2>2, FS_AddElement DEF Typed
    <2>5. QED
      BY <1>6, <2>3, <2>4, ReceiveTyped DEF ReceiveAsk, Receive, Typed, TypeOK
  <1>7. ASSUME NEW F \in SUBSET due, Update(F) PROVE Typed'
    <2>1. todo' \in Seq(Signals)
      BY <1>7, UpdateLists DEF Typed
    <2>2. due' \subseteq due
      BY <1>7 DEF Update
    <2>3. IsFiniteSet(due') /\ due' \subseteq Signals
      BY <2>2, FS_Subset DEF Typed, TypeOK
    <2>4. QED
      BY <1>7, <2>1, <2>3 DEF Update, Typed, TypeOK, ports, app, system
  <1>8. CASE PushSignal
    <2>1. /\ Head(todo) \in Signals /\ todo' \in Seq(Signals)
          /\ sig' \in Seq(Signals) /\ Len(sig') <= SigAvail
      BY <1>8, HeadTailProperties, AppendProperties, LenProperties, ThreadsAssumption
         DEF PushSignal, Typed, TypeOK
    <2>2. QED
      BY <1>8, <2>1 DEF PushSignal, Typed, TypeOK, app, system
  <1>9. CASE Write
    BY <1>9 DEF Write, Typed, TypeOK, ports, app, system
  <1>10. QED
    BY <1>1, <1>2, <1>3, <1>4, <1>5, <1>6, <1>7, <1>8, <1>9
       DEF AudioThread, ReceiveAny, ReceivePlay, ReceiveProgram, Events

LEMMA JoinTyped ==
  ASSUME Typed, Join
  PROVE  Typed'
  <1>1. /\ <<>> \in Seq(Commands) /\ <<>> \in Seq(Signals) /\ Len(<<>>) = 0
        /\ IsFiniteSet({}) /\ CmdAvail >= 0 /\ SigAvail >= 0
    BY EmptySeq, FS_EmptySet, ThreadsAssumption
  <1>2. held' \subseteq Resources
    BY DEF Join, Released, CloseSystem, FreeVoice, Typed, TypeOK
  <1>3. QED
    BY <1>1, <1>2, ThreadsAssumption DEF Join, Typed, TypeOK

LEMMA StepTyped == Typed /\ [Next]_vars => Typed'
  <1> SUFFICES ASSUME Typed, [Next]_vars PROVE Typed'
    OBVIOUS
  <1>1. CASE Shutdown
    BY <1>1, CallTyped, CommandsOf, ThreadsAssumption DEF Shutdown, memory, Typed, TypeOK
  <1>2. CASE AppStep
    BY <1>2, CallsTyped, PushTyped, PopTyped DEF AppStep
  <1>3. CASE UNCHANGED vars
    BY <1>3 DEF vars, ports, app, voice, memory, system, Typed, TypeOK
  <1>4. QED
    BY <1>1, <1>2, <1>3, StartupTyped, AudioTyped, JoinTyped DEF Next

(* Every variable keeps its range, for any number of threads and any       *)
(* capacity of the ports.                                                  *)
THEOREM TypeCorrect == Spec => []TypeOK
  <1>1. Typed => TypeOK
    BY DEF Typed
  <1>2. QED
    BY <1>1, InitTyped, StepTyped, PTL DEF Spec

-----------------------------------------------------------------------------
(* The life of the library                                                 *)

StartSteps == {"open", "arrays", "voice", "cmd", "sig", "thread"}
Places     == {"idle", "push", "pop", "join"} \cup StartSteps

(* While the library is down nobody is inside it but the thread that       *)
(* starts it.                                                              *)
Lifecycle ==
  /\ audioUp <=> audio # "none"
  /\ \A t \in Apps \ {Main} : pc[t] \in {"idle", "push", "pop"}
  /\ ~audioUp => /\ cmd = <<>>
                 /\ \A t \in Apps \ {Main} : pc[t] = "idle"
                 /\ pc[Main] \in {"idle"} \cup StartSteps
  /\ audioUp => pc[Main] \notin StartSteps

Closing == pc[Main] = "join" \/ (pc[Main] = "push" /\ out[Main] = Quit)

(* QUIT is the last command there is, and is only taken by leaving.        *)
QuitIsLast ==
  /\ \A t \in Apps : pc[t] = "push" /\ out[t] = Quit => t = Main
  /\ Closing => \A t \in Apps \ {Main} : pc[t] = "idle"
  /\ pc[Main] = "join" =>
       IF audio = "exited" THEN cmd = <<>> ELSE cmd # <<>> /\ cmd[Len(cmd)] = Quit
  /\ \A i \in 1 .. Len(cmd) : cmd[i] = Quit => i = Len(cmd) /\ pc[Main] = "join"
  /\ audio = "exited" => pc[Main] = "join"

(* The voice is corked just while the thread is suspended.                 *)
CorkedIsSuspended ==
  /\ corked = suspended
  /\ audio = "mix" => ~suspended
  /\ audio # "mix" => todo = <<>>

(* What is held at each step of a startup.                                 *)
LeftOver == IF refused THEN {"arrays", "mix", "stream"} ELSE {}
Base     == {"context", "arrays", "mix", "stream"}

Holding ==
  /\ audioUp => held = Resources
  /\ ~audioUp =>
       /\ pc[Main] \in {"idle", "open"} => held \subseteq LeftOver
       /\ pc[Main] = "arrays" => "context" \in held /\ held \ {"context"} \subseteq LeftOver
       /\ pc[Main] = "voice"  => {"context", "arrays", "mix"} \subseteq held /\ held \subseteq Base
       /\ pc[Main] = "cmd"    => held = Base
       /\ pc[Main] = "sig"    => held = Base \cup {"cmd"}
       /\ pc[Main] = "thread" => held = Base \cup {"cmd", "sig"}

IInv == Typed /\ Lifecycle /\ QuitIsLast /\ CorkedIsSuspended /\ Holding

LEMMA InitIInv == Init => IInv
  <1> SUFFICES ASSUME Init PROVE IInv
    OBVIOUS
  <1>1. Typed
    BY InitTyped
  <1>2. Lifecycle /\ CorkedIsSuspended
    BY ThreadsAssumption DEF Init, Lifecycle, CorkedIsSuspended
  <1>3. QuitIsLast
    BY ThreadsAssumption, EmptySeq DEF Init, QuitIsLast, Closing
  <1>4. Holding
    BY ThreadsAssumption DEF Init, Holding
  <1>5. QED
    BY <1>1, <1>2, <1>3, <1>4 DEF IInv

LEMMA ClosingIsShuttingDown == IInv => (Closing <=> ShuttingDown)
  BY CommandParts, ThreadsAssumption DEF IInv, Typed, QuitIsLast, Closing, ShuttingDown, Issued, Quit

(* A call changes nothing but the thread that makes it.                    *)
LEMMA StepCall ==
  ASSUME IInv, NEW t \in Apps, NEW c \in Commands, Call(t, c),
         c = Quit => t = Main /\ \A x \in Apps : pc[x] = "idle"
  PROVE  Lifecycle' /\ QuitIsLast' /\ CorkedIsSuspended' /\ Holding'
  <1>1. /\ audioUp /\ pc[t] = "idle" /\ ~Closing
        /\ pc' = [pc EXCEPT ![t] = "push"] /\ out' = [out EXCEPT ![t] = c]
        /\ UNCHANGED <<audioUp, cmd, audio, todo, suspended, corked, held, refused>>
    BY ClosingIsShuttingDown DEF Call, ports, voice, system
  <1>2. /\ pc \in [Apps -> Places] /\ pc' \in [Apps -> Places]
        /\ out \in [Apps -> Commands \cup {NoCmd}] /\ out' \in [Apps -> Commands \cup {NoCmd}]
    BY <1>1 DEF IInv, Typed, TypeOK, Places, StartSteps
  <1>3. Lifecycle'
    BY <1>1, <1>2 DEF IInv, Lifecycle, StartSteps
  <1>4. QuitIsLast'
    BY <1>1, <1>2, ThreadsAssumption DEF IInv, Typed, TypeOK, QuitIsLast, Closing
  <1>5. CorkedIsSuspended' /\ Holding'
    BY <1>1 DEF IInv, CorkedIsSuspended, Holding
  <1>6. QED
    BY <1>3, <1>4, <1>5

(* A push cannot follow QUIT, for there is nobody to make it.              *)
LEMMA StepPush ==
  ASSUME IInv, NEW t \in Apps, PushCommand(t)
  PROVE  Lifecycle' /\ QuitIsLast' /\ CorkedIsSuspended' /\ Holding'
  <1>1. /\ pc[t] = "push" /\ cmd' = Append(cmd, out[t])
        /\ pc' = [pc EXCEPT ![t] = IF out[t] = Quit THEN "join" ELSE "idle"]
        /\ out' = [out EXCEPT ![t] = NoCmd]
        /\ UNCHANGED <<audioUp, audio, todo, suspended, corked, held, refused>>
    BY DEF PushCommand, voice, system
  <1>2. out[t] \in Commands /\ cmd \in Seq(Commands) /\ pc \in [Apps -> Places]
        /\ (out[t] = Quit => t = Main)
    BY <1>1 DEF IInv, Typed, TypeOK, QuitIsLast, Places, StartSteps
  <1>3. /\ Len(cmd) \in Nat /\ Len(cmd') = Len(cmd) + 1 /\ cmd' # <<>>
        /\ \A i \in 1 .. Len(cmd) : cmd'[i] = cmd[i]
        /\ cmd'[Len(cmd) + 1] = out[t]
    BY <1>1, <1>2, AppendProperties, LenProperties
  <1>4. pc[Main] # "join"
    BY <1>1, ThreadsAssumption DEF IInv, QuitIsLast, Closing
  <1>5. audioUp /\ audio # "none" /\ audio # "exited"
    BY <1>1, <1>4 DEF IInv, Lifecycle, QuitIsLast, StartSteps
  <1>6. Lifecycle'
    BY <1>1, <1>2, <1>5 DEF IInv, Lifecycle, StartSteps
  <1>7. QuitIsLast'
    <2>1. \A i \in 1 .. Len(cmd) : cmd[i] # Quit
      BY <1>4 DEF IInv, QuitIsLast
    <2>2. \A i \in 1 .. Len(cmd') : cmd'[i] = Quit => i = Len(cmd') /\ out[t] = Quit
      BY <2>1, <1>3
    <2>3. \A x \in Apps \ {t} : pc'[x] = pc[x]
      BY <1>1, <1>2
    <2>4. pc'[t] = IF out[t] = Quit THEN "join" ELSE "idle"
      BY <1>1, <1>2
    <2>5. QED
      BY <1>1, <1>2, <1>3, <1>4, <1>5, <2>2, <2>3, <2>4, ThreadsAssumption
         DEF IInv, Typed, TypeOK, QuitIsLast, Closing
  <1>8. CorkedIsSuspended' /\ Holding'
    <2>1. Holding'
      BY <1>1, <1>5 DEF IInv, Holding
    <2>2. QED
      BY <1>1, <2>1 DEF IInv, CorkedIsSuspended
  <1>9. QED
    BY <1>6, <1>7, <1>8

LEMMA StepAsk ==
  ASSUME IInv, NEW t \in Apps, NEW n, AskSignals(t, n)
  PROVE  Lifecycle' /\ QuitIsLast' /\ CorkedIsSuspended' /\ Holding'
  <1>1. /\ audioUp /\ pc[t] = "idle" /\ ~Closing
        /\ pc' = [pc EXCEPT ![t] = "pop"]
        /\ UNCHANGED <<audioUp, cmd, out, audio, todo, suspended, corked, held, refused>>
    BY ClosingIsShuttingDown DEF AskSignals, ports, voice, system
  <1>2. pc \in [Apps -> Places]
    BY DEF IInv, Typed, TypeOK, Places, StartSteps
  <1>3. Lifecycle' /\ QuitIsLast'
    BY <1>1, <1>2, ThreadsAssumption DEF IInv, Lifecycle, StartSteps, QuitIsLast, Closing
  <1>4. CorkedIsSuspended' /\ Holding'
    BY <1>1 DEF IInv, CorkedIsSuspended, Holding
  <1>5. QED
    BY <1>3, <1>4

LEMMA StepPop ==
  ASSUME IInv, NEW t \in Apps, PopSignal(t)
  PROVE  Lifecycle' /\ QuitIsLast' /\ CorkedIsSuspended' /\ Holding'
  <1>1. /\ pc[t] = "pop" /\ pc' = [pc EXCEPT ![t] = IF want[t] > 1 THEN "pop" ELSE "idle"]
        /\ UNCHANGED <<audioUp, cmd, out, audio, todo, suspended, corked, held, refused>>
    BY DEF PopSignal, voice, system
  <1>2. pc \in [Apps -> Places] /\ audioUp
    BY <1>1 DEF IInv, Typed, TypeOK, Lifecycle, Places, StartSteps
  <1>3. \A x \in Apps : pc'[x] = pc[x] \/ (x = t /\ pc'[x] \in {"pop", "idle"})
    BY <1>1, <1>2
  <1>4. Lifecycle'
    BY <1>1, <1>2, <1>3, ThreadsAssumption DEF IInv, Lifecycle, StartSteps
  <1>5. QuitIsLast'
    <2>1. Closing' = Closing /\ (Closing => t = Main)
      BY <1>1, <1>2, <1>3, ThreadsAssumption DEF IInv, QuitIsLast, Closing
    <2>2. pc[Main] = "join" <=> pc'[Main] = "join"
      BY <1>1, <1>3, ThreadsAssumption
    <2>3. QED
      BY <1>1, <1>3, <2>1, <2>2, ThreadsAssumption DEF IInv, QuitIsLast
  <1>6. CorkedIsSuspended' /\ Holding'
    BY <1>1, <1>2 DEF IInv, CorkedIsSuspended, Holding
  <1>7. QED
    BY <1>4, <1>5, <1>6

LEMMA StepStartup ==
  ASSUME IInv, Startup \/ StartupSteps
  PROVE  Lifecycle' /\ QuitIsLast' /\ CorkedIsSuspended' /\ Holding'
  <1>0. pc \in [Apps -> Places] /\ Main \in Apps
    BY ThreadsAssumption DEF IInv, Typed, TypeOK, Places, StartSteps
  <1>1. ASSUME NEW from \in {"idle"} \cup StartSteps, NEW to \in {"idle"} \cup StartSteps,
               NEW h, StartupStep(from, to, h), from = "idle" => ~audioUp,
               UNCHANGED <<audioUp, audio, suspended, corked>>
        PROVE  /\ Lifecycle' /\ QuitIsLast' /\ CorkedIsSuspended'
               /\ pc[Main] = from /\ pc'[Main] = to /\ held' = h /\ ~audioUp /\ ~audioUp'
    <2>1. /\ pc[Main] = from /\ pc' = [pc EXCEPT ![Main] = to] /\ held' = h
          /\ UNCHANGED <<cmd, out, todo, audioUp, audio, suspended, corked>>
      BY <1>1 DEF StartupStep, ports
    <2>2. ~audioUp /\ audio = "none" /\ cmd = <<>>
      BY <1>1, <2>1 DEF IInv, Lifecycle, StartSteps
    <2>3. Lifecycle' /\ QuitIsLast' /\ CorkedIsSuspended'
      BY <1>0, <2>1, <2>2, EmptySeq DEF IInv, Lifecycle, QuitIsLast, Closing, CorkedIsSuspended, StartSteps
    <2>4. QED
      BY <1>0, <2>1, <2>2, <2>3
  <1>2. ASSUME NEW from \in {"idle"} \cup StartSteps, NEW to \in StartSteps, NEW rs,
               Proceed(from, to, rs), from = "idle" => ~audioUp
        PROVE  /\ Lifecycle' /\ QuitIsLast' /\ CorkedIsSuspended'
               /\ pc[Main] = from /\ pc'[Main] = to /\ held' = held \cup rs
               /\ ~audioUp /\ ~audioUp' /\ refused' = refused
    BY <1>1, <1>2 DEF Proceed
  <1>3. ASSUME NEW from \in StartSteps, NEW h, Fail(from, h)
        PROVE  /\ Lifecycle' /\ QuitIsLast' /\ CorkedIsSuspended'
               /\ pc[Main] = from /\ pc'[Main] = "idle" /\ held' = h
               /\ ~audioUp /\ ~audioUp'
    BY <1>1, <1>3 DEF Fail, StartSteps
  <1> USE DEF IInv, Holding, LeftOver, Base, StartSteps, CloseSystem, FreeVoice, Released
  <1>4. CASE Startup
    BY <1>2, <1>4 DEF Startup
  <1>5. CASE OpenSystem
    <2>1. CASE Proceed("open", "arrays", {"context"})
      BY <1>2, <2>1
    <2>2. CASE Fail("open", held) /\ UNCHANGED refused
      BY <1>3, <2>2
    <2>3. QED
      BY <1>5, <2>1, <2>2 DEF OpenSystem
  <1>6. CASE AllocArrays
    <2>1. CASE Proceed("arrays", "voice", {"arrays", "mix"})
      BY <1>2, <2>1
    <2>2. CASE Fail("arrays", CloseSystem(held)) /\ UNCHANGED refused
      BY <1>3, <2>2
    <2>3. QED
      BY <1>6, <2>1, <2>2 DEF AllocArrays
  <1>7. CASE AllocVoice
    <2>1. CASE Proceed("voice", "cmd", {"stream"})
      BY <1>2, <2>1
    <2>2. ASSUME NEW made \in SUBSET {"stream"}, Fail("voice", CloseSystem(held) \cup made),
                 refused' = TRUE
          PROVE  Lifecycle' /\ QuitIsLast' /\ CorkedIsSuspended' /\ Holding'
      <3>1. /\ Lifecycle' /\ QuitIsLast' /\ CorkedIsSuspended'
            /\ pc[Main] = "voice" /\ pc'[Main] = "idle" /\ ~audioUp /\ ~audioUp'
            /\ held' = CloseSystem(held) \cup made
        BY <1>3, <2>2
      <3>2. held' \subseteq {"arrays", "mix", "stream"}
        BY <3>1
      <3>3. QED
        BY <2>2, <3>1, <3>2
    <2>3. QED
      BY <1>7, <2>1, <2>2 DEF AllocVoice
  <1>8. CASE CreatePorts
    <2>1. CASE Proceed("cmd", "sig", {"cmd"})
      BY <1>2, <2>1
    <2>2. CASE Proceed("sig", "thread", {"sig"})
      BY <1>2, <2>2
    <2>3. CASE Fail("cmd", Released(held)) /\ refused' = FALSE
      BY <1>3, <2>3
    <2>4. CASE Fail("sig", Released(held \ {"cmd"})) /\ refused' = FALSE
      BY <1>3, <2>4
    <2>5. QED
      BY <1>8, <2>1, <2>2, <2>3, <2>4 DEF CreatePorts
  <1>9. CASE CreateThread
    <2>1. CASE Fail("thread", Released(held \ {"sig", "cmd"})) /\ refused' = FALSE
      BY <1>3, <2>1
    <2>2. CASE /\ StartupStep("thread", "idle", held \cup {"thread"})
               /\ audioUp' = TRUE /\ audio' = "wait"
               /\ suspended' = FALSE /\ corked' = FALSE
      <3>1. /\ pc[Main] = "thread" /\ pc' = [pc EXCEPT ![Main] = "idle"]
            /\ held' = held \cup {"thread"} /\ UNCHANGED <<cmd, out, todo>>
        BY <2>2 DEF StartupStep, ports
      <3>2. ~audioUp /\ cmd = <<>> /\ held = Base \cup {"cmd", "sig"}
        BY <3>1 DEF Lifecycle
      <3>3. Lifecycle' /\ QuitIsLast' /\ CorkedIsSuspended'
        BY <1>0, <2>2, <3>1, <3>2, EmptySeq DEF Lifecycle, QuitIsLast, Closing, CorkedIsSuspended
      <3>4. Holding'
        BY <2>2, <3>1, <3>2 DEF Resources
      <3>5. QED
        BY <3>3, <3>4
    <2>3. QED
      BY <1>9, <2>1, <2>2 DEF CreateThread
  <1>10. QED
    BY <1>4, <1>5, <1>6, <1>7, <1>8, <1>9 DEF StartupSteps

LEMMA StepReceive ==
  ASSUME IInv, NEW op, Receive(op)
  PROVE  /\ op # "quit" /\ audio' = audio => Lifecycle' /\ QuitIsLast' /\ Holding'
         /\ op = "quit" /\ audio' = "exited" => Lifecycle' /\ QuitIsLast' /\ Holding'
         /\ audio = "wait" /\ todo = <<>> /\ UNCHANGED todo
  <1>1. /\ audio = "wait" /\ cmd # <<>> /\ Head(cmd).op = op /\ cmd' = Tail(cmd)
        /\ UNCHANGED <<audioUp, pc, out, want, got, todo, held, refused>>
    BY DEF Receive, app, system
  <1>2. /\ cmd \in Seq(Commands) /\ cmd' \in Seq(Commands)
        /\ Head(cmd) \in Commands /\ Head(cmd) = cmd[1]
        /\ Len(cmd) \in Nat \ {0} /\ Len(cmd') = Len(cmd) - 1
        /\ \A i \in 1 .. Len(cmd') : cmd'[i] = cmd[i + 1]
    BY <1>1, Received, EmptySeq DEF IInv, Typed, TypeOK
  <1>3. audioUp /\ todo = <<>> /\ audioUp'
    BY <1>1 DEF IInv, Lifecycle, CorkedIsSuspended
  <1>4. op = "quit" <=> cmd[1] = Quit
    BY <1>1, <1>2, CommandParts
  <1>5. cmd' = <<>> <=> Len(cmd') = 0
    BY <1>2, EmptySeq
  <1>6. Holding'
    BY <1>1, <1>3 DEF IInv, Holding
  <1>7. ASSUME op # "quit", audio' = audio
        PROVE  Lifecycle' /\ QuitIsLast'
    <2>1. Lifecycle'
      BY <1>1, <1>3, <1>7 DEF IInv, Lifecycle
    <2>2. /\ pc[Main] = "join" => cmd[Len(cmd)] = Quit
          /\ \A i \in 1 .. Len(cmd) : cmd[i] = Quit => i = Len(cmd) /\ pc[Main] = "join"
      BY <1>1 DEF IInv, QuitIsLast
    <2>3. \A i \in 1 .. Len(cmd') : i + 1 \in 1 .. Len(cmd) /\ (i + 1 = Len(cmd) <=> i = Len(cmd'))
      BY <1>2
    <2>4. pc[Main] = "join" => Len(cmd') > 0 /\ cmd'[Len(cmd')] = Quit
      <3>1. CASE Len(cmd) = 1
        BY <1>4, <1>7, <2>2, <3>1
      <3>2. CASE Len(cmd) # 1
        <4>1. Len(cmd') \in 1 .. Len(cmd') /\ Len(cmd') + 1 = Len(cmd)
          BY <1>2, <3>2
        <4>2. QED
          BY <1>2, <2>2, <4>1
      <3>3. QED
        BY <3>1, <3>2
    <2>5. \A i \in 1 .. Len(cmd') : cmd'[i] = Quit => i = Len(cmd') /\ pc[Main] = "join"
      BY <1>2, <2>2, <2>3
    <2>6. QuitIsLast'
      <3>1. Closing' = Closing
        BY <1>1 DEF Closing
      <3>2. cmd' # <<>> <=> Len(cmd') # 0
        BY <1>5
      <3>3. pc[Main] = "join" => cmd' # <<>> /\ cmd'[Len(cmd')] = Quit
        BY <1>2, <2>4, <3>2
      <3>4. QED
        BY <1>1, <1>7, <2>5, <3>1, <3>3 DEF IInv, QuitIsLast
    <2>7. QED
      BY <2>1, <2>6
  <1>8. ASSUME op = "quit", audio' = "exited"
        PROVE  Lifecycle' /\ QuitIsLast'
    <2>1. Len(cmd) = 1 /\ pc[Main] = "join"
      BY <1>2, <1>4, <1>8 DEF IInv, QuitIsLast
    <2>2. cmd' = <<>>
      BY <1>2, <1>5, <2>1
    <2>3. QED
      BY <1>1, <1>3, <1>8, <2>1, <2>2, EmptySeq DEF IInv, Lifecycle, QuitIsLast, Closing
  <1>9. QED
    BY <1>1, <1>3, <1>6, <1>7, <1>8

LEMMA StepAudio ==
  ASSUME IInv, AudioThread
  PROVE  Lifecycle' /\ QuitIsLast' /\ CorkedIsSuspended' /\ Holding'
  <1> USE DEF voice
  <1>1. ASSUME ReceiveQuit
        PROVE  Lifecycle' /\ QuitIsLast' /\ CorkedIsSuspended' /\ Holding'
    BY <1>1, StepReceive DEF ReceiveQuit, IInv, CorkedIsSuspended
  <1>2. ASSUME ReceiveSuspend
        PROVE  Lifecycle' /\ QuitIsLast' /\ CorkedIsSuspended' /\ Holding'
    BY <1>2, StepReceive DEF ReceiveSuspend, StopVoice, IInv, CorkedIsSuspended
  <1>3. ASSUME ReceiveResume
        PROVE  Lifecycle' /\ QuitIsLast' /\ CorkedIsSuspended' /\ Holding'
    <2>1. Receive("resume") /\ suspended' = FALSE /\ corked' = FALSE /\ audio' = audio
      BY <1>3 DEF ReceiveResume, StartVoice
    <2>2. Lifecycle' /\ QuitIsLast' /\ Holding' /\ audio = "wait" /\ todo' = <<>>
      BY <2>1, StepReceive
    <2>3. CorkedIsSuspended'
      BY <2>1, <2>2 DEF CorkedIsSuspended
    <2>4. QED
      BY <2>2, <2>3
  <1>4. ASSUME NEW op, op # "quit", Receive(op), UNCHANGED <<audio, suspended, corked>>
        PROVE  Lifecycle' /\ QuitIsLast' /\ CorkedIsSuspended' /\ Holding'
    BY <1>4, StepReceive DEF IInv, CorkedIsSuspended
  <1>5. ASSUME ReceiveSetBuffer \/ ReceiveBuffersFree \/ ReceivePlay \/ ReceiveProgram
        PROVE  Lifecycle' /\ QuitIsLast' /\ CorkedIsSuspended' /\ Holding'
    BY <1>4, <1>5 DEF ReceiveSetBuffer, ReceiveBuffersFree, ReceivePlay, ReceiveProgram, ReceiveAsk
  <1>6. ASSUME NEW F \in SUBSET due, Update(F)
        PROVE  Lifecycle' /\ QuitIsLast' /\ CorkedIsSuspended' /\ Holding'
    BY <1>6 DEF Update, ports, app, memory, system, IInv, Lifecycle, QuitIsLast, Closing,
                CorkedIsSuspended, Holding, LeftOver
  <1>7. ASSUME PushSignal \/ Write
        PROVE  Lifecycle' /\ QuitIsLast' /\ CorkedIsSuspended' /\ Holding'
    BY <1>7 DEF PushSignal, Write, ports, app, memory, system, IInv, Lifecycle, QuitIsLast, Closing,
                CorkedIsSuspended, Holding, LeftOver
  <1>8. QED
    BY <1>1, <1>2, <1>3, <1>5, <1>6, <1>7 DEF AudioThread, ReceiveAny

LEMMA StepJoin ==
  ASSUME IInv, Join
  PROVE  Lifecycle' /\ QuitIsLast' /\ CorkedIsSuspended' /\ Holding'
  <1>1. /\ pc[Main] = "join" /\ audio = "exited" /\ pc' = [pc EXCEPT ![Main] = "idle"]
        /\ cmd' = <<>> /\ ~audioUp' /\ audio' = "none" /\ ~refused'
        /\ held' = Released(held \ {"thread", "cmd", "sig"})
        /\ UNCHANGED <<out, todo, suspended, corked>>
    BY DEF Join
  <1>2. pc \in [Apps -> Places] /\ Main \in Apps
    BY ThreadsAssumption DEF IInv, Typed, TypeOK, Places, StartSteps
  <1>3. audioUp /\ held = Resources /\ \A t \in Apps \ {Main} : pc[t] = "idle"
    BY <1>1 DEF IInv, Lifecycle, Holding, QuitIsLast, Closing
  <1>4. held' = {}
    BY <1>1, <1>3 DEF Released, CloseSystem, FreeVoice, Resources
  <1>5. Holding'
    BY <1>1, <1>2, <1>4 DEF Holding
  <1>6. Lifecycle' /\ QuitIsLast' /\ CorkedIsSuspended'
    BY <1>1, <1>2, <1>3, EmptySeq DEF IInv, Lifecycle, QuitIsLast, Closing, CorkedIsSuspended
  <1>7. QED
    BY <1>5, <1>6

(* Every step keeps the invariant: the calls of the application, the ends  *)
(* of the ports, a startup, the audio thread, and the end of a shutdown.   *)
LEMMA StepIInv == IInv /\ [Next]_vars => IInv'
  <1> SUFFICES ASSUME IInv, [Next]_vars PROVE Lifecycle' /\ QuitIsLast' /\ CorkedIsSuspended' /\ Holding'
    BY StepTyped DEF IInv
  <1>1. ASSUME NEW t \in Apps, CallApi(t)
        PROVE  Lifecycle' /\ QuitIsLast' /\ CorkedIsSuspended' /\ Holding'
    <2>1. ASSUME NEW c \in Commands, c # Quit, Call(t, c)
          PROVE  Lifecycle' /\ QuitIsLast' /\ CorkedIsSuspended' /\ Holding'
      BY <2>1, StepCall
    <2>2. CASE \E b \in Buffers : LoadBuffer(t, b)
      <3>1. PICK b \in Buffers, m \in Blocks :
              Call(t, [op |-> "set_buffer", buf |-> b, block |-> m])
        BY <2>2 DEF LoadBuffer
      <3>2. QED
        BY <2>1, <3>1, CommandsOf
    <2>3. CASE \E B \in SUBSET Buffers : FreeBuffers(t, B)
      BY <2>1, <2>3, CommandsOf DEF FreeBuffers
    <2>4. CASE \E s \in Sources : AskSignal(t, "play_source", s) \/ AskSignal(t, "program", s)
      BY <2>1, <2>4, CommandsOf DEF AskSignal
    <2>5. CASE SuspendOrResume(t, Suspend) \/ SuspendOrResume(t, Resume)
      BY <2>1, <2>5, CommandsOf DEF SuspendOrResume
    <2>6. CASE WaitSignal(t) \/ PollSignals(t)
      BY <2>6, StepAsk DEF WaitSignal, PollSignals
    <2>7. QED
      BY <1>1, <2>2, <2>3, <2>4, <2>5, <2>6 DEF CallApi
  <1>2. CASE AppStep
    BY <1>1, <1>2, StepPush, StepPop DEF AppStep
  <1>3. CASE Shutdown
    BY <1>3, StepCall, CommandsOf, ThreadsAssumption DEF Shutdown
  <1>4. CASE UNCHANGED vars
    BY <1>4 DEF vars, ports, app, voice, system, IInv, Lifecycle, QuitIsLast, Closing,
                CorkedIsSuspended, Holding, LeftOver
  <1>5. QED
    BY <1>2, <1>3, <1>4, StepStartup, StepAudio, StepJoin DEF Next

LEMMA Invariance == Spec => []IInv
  BY InitIInv, StepIInv, PTL DEF Spec

(* Shutdown abandons no command: QUIT is the last in the port, because no  *)
(* other thread is inside the library when it is sent.                     *)
THEOREM ShutdownTakesAll == Spec => []NothingAbandoned
  <1>1. IInv => NothingAbandoned
    BY DEF IInv, QuitIsLast, NothingAbandoned
  <1>2. QED
    BY <1>1, Invariance, PTL

(* The audio thread never writes to a stopped voice, in whatever order     *)
(* suspend, resume and shutdown arrive.                                    *)
THEOREM WritesAreHeard == Spec => []WritesOnlyWhenStarted
  <1>1. IInv => WritesOnlyWhenStarted
    BY DEF IInv, CorkedIsSuspended, WritesOnlyWhenStarted
  <1>2. QED
    BY <1>1, Invariance, PTL

(* A startup that fails at any step, after any history of startups and     *)
(* shutdowns, leaves nothing but what a refused voice leaves.              *)
THEOREM StartupIsAllOrNothing == Spec => []AllOrNothing
  <1>1. IInv => AllOrNothing
    BY DEF IInv, Holding, LeftOver, AllOrNothing
  <1>2. QED
    BY <1>1, Invariance, PTL

-----------------------------------------------------------------------------
(* The memory of samples                                                   *)

Carries(i, m) == cmd[i].op = "set_buffer" /\ cmd[i].block = m
Brings(t, m)  == pc[t] = "push" /\ out[t].op = "set_buffer" /\ out[t].block = m

(* OneOwner without cardinalities: no place holds a block twice, no two    *)
(* places hold it together, and it is allocated just while one does.       *)
OwnedOnce(m) ==
  /\ \A b, d \in Buffers : buffer[b] = m /\ buffer[d] = m => b = d
  /\ \A i, j \in 1 .. Len(cmd) : Carries(i, m) /\ Carries(j, m) => i = j
  /\ \A t, u \in Apps : Brings(t, m) /\ Brings(u, m) => t = u
  /\ \A b \in Buffers, i \in 1 .. Len(cmd) : ~(buffer[b] = m /\ Carries(i, m))
  /\ \A b \in Buffers, t \in Apps : ~(buffer[b] = m /\ Brings(t, m))
  /\ \A i \in 1 .. Len(cmd), t \in Apps : ~(Carries(i, m) /\ Brings(t, m))
  /\ m \in heap <=> \/ \E b \in Buffers : buffer[b] = m
                    \/ \E i \in 1 .. Len(cmd) : Carries(i, m)
                    \/ \E t \in Apps : Brings(t, m)

Ownership == \A m \in Blocks : OwnedOnce(m)

LEMMA AtMostOne ==
  ASSUME NEW S, \A x, y \in S : x = y
  PROVE  Cardinality(S) = IF S = {} THEN 0 ELSE 1
  <1>1. CASE S = {}
    BY <1>1, FS_EmptySet
  <1>2. CASE S # {}
    <2>1. PICK x \in S : S = {x}
      BY <1>2
    <2>2. QED
      BY <1>2, <2>1, FS_Singleton
  <1>3. QED
    BY <1>1, <1>2

LEMMA OwnershipFollows == Ownership => OneOwner
  <1> SUFFICES ASSUME Ownership, NEW m \in Blocks
               PROVE  Cardinality(BufferOwners(m)) + Cardinality(PortOwners(m))
                        + Cardinality(AppOwners(m)) = IF m \in heap THEN 1 ELSE 0
    BY DEF OneOwner
  <1>1. OwnedOnce(m)
    BY DEF Ownership
  <1> DEFINE B == BufferOwners(m)
             P == PortOwners(m)
             A == AppOwners(m)
  <1>2. /\ \A b : b \in B <=> b \in Buffers /\ buffer[b] = m
        /\ \A i : i \in P <=> i \in 1 .. Len(cmd) /\ Carries(i, m)
        /\ \A t : t \in A <=> t \in Apps /\ Brings(t, m)
    BY DEF BufferOwners, PortOwners, AppOwners, InPort, Issued, Carries, Brings
  <1> HIDE DEF B, P, A
  <1>3. /\ \A x, y \in B : x = y
        /\ \A x, y \in P : x = y
        /\ \A x, y \in A : x = y
    BY <1>1, <1>2 DEF OwnedOnce
  <1>4. /\ B = {} \/ P = {}
        /\ B = {} \/ A = {}
        /\ P = {} \/ A = {}
        /\ m \in heap <=> ~(B = {} /\ P = {} /\ A = {})
    BY <1>1, <1>2 DEF OwnedOnce
  <1>5. /\ Cardinality(B) = IF B = {} THEN 0 ELSE 1
        /\ Cardinality(P) = IF P = {} THEN 0 ELSE 1
        /\ Cardinality(A) = IF A = {} THEN 0 ELSE 1
    BY <1>3, AtMostOne
  <1>6. Cardinality(B) + Cardinality(P) + Cardinality(A) = IF m \in heap THEN 1 ELSE 0
    BY <1>4, <1>5
  <1>7. QED
    BY <1>6 DEF B, P, A

LEMMA InitOwnership == Init => Ownership
  <1> SUFFICES ASSUME Init, NEW m \in Blocks PROVE OwnedOnce(m)
    BY DEF Ownership
  <1>1. /\ \A b \in Buffers : buffer[b] # m
        /\ 1 .. Len(cmd) = {} /\ heap = {}
        /\ \A t \in Apps : ~Brings(t, m)
    BY ThreadsAssumption, EmptySeq DEF Init, Brings
  <1>2. QED
    BY <1>1 DEF OwnedOnce

(* Steps that touch neither the memory nor the command port, and bring     *)
(* nothing more.                                                           *)
LEMMA OwnersKept ==
  ASSUME Ownership, UNCHANGED <<cmd, memory>>,
         \A t \in Apps, m \in Blocks : Brings(t, m)' <=> Brings(t, m)
  PROVE  Ownership'
  <1> SUFFICES ASSUME NEW m \in Blocks PROVE OwnedOnce(m)'
    BY DEF Ownership
  <1>1. /\ UNCHANGED <<cmd, buffer, heap>>
        /\ \A t \in Apps : Brings(t, m)' <=> Brings(t, m)
        /\ \A i : Carries(i, m)' <=> Carries(i, m)
    BY DEF memory, Carries
  <1>2. QED
    BY <1>1 DEF Ownership, OwnedOnce

(* A block that is loaded was free, and goes to the thread that loads it.  *)
LEMMA OwnersLoad ==
  ASSUME IInv, Ownership, NEW t \in Apps, NEW b \in Buffers, LoadBuffer(t, b)
  PROVE  Ownership'
  <1> SUFFICES ASSUME NEW m \in Blocks PROVE OwnedOnce(m)'
    BY DEF Ownership
  <1>1. PICK n \in Blocks \ heap :
          /\ heap' = heap \cup {n}
          /\ Call(t, [op |-> "set_buffer", buf |-> b, block |-> n])
          /\ UNCHANGED buffer
    BY DEF LoadBuffer
  <1>2. /\ pc \in [Apps -> Places] /\ out \in [Apps -> Commands \cup {NoCmd}]
        /\ pc[t] = "idle" /\ pc' = [pc EXCEPT ![t] = "push"]
        /\ out' = [out EXCEPT ![t] = [op |-> "set_buffer", buf |-> b, block |-> n]]
        /\ cmd' = cmd
    BY <1>1 DEF IInv, Typed, TypeOK, Places, StartSteps, Call, ports
  <1>3. /\ \A u \in Apps : Brings(u, m)' <=> Brings(u, m) \/ (u = t /\ m = n)
        /\ ~Brings(t, m)
        /\ \A i : Carries(i, m)' <=> Carries(i, m)
    BY <1>2 DEF Brings, Carries
  <1>4. QED
    BY <1>1, <1>2, <1>3 DEF Ownership, OwnedOnce

(* A push hands the block over to the port.                                *)
LEMMA OwnersPush ==
  ASSUME IInv, Ownership, NEW t \in Apps, PushCommand(t)
  PROVE  Ownership'
  <1> SUFFICES ASSUME NEW m \in Blocks PROVE OwnedOnce(m)'
    BY DEF Ownership
  <1>1. /\ pc[t] = "push" /\ cmd' = Append(cmd, out[t])
        /\ pc' = [pc EXCEPT ![t] = IF out[t] = Quit THEN "join" ELSE "idle"]
        /\ out' = [out EXCEPT ![t] = NoCmd]
        /\ UNCHANGED <<buffer, heap>>
    BY DEF PushCommand, memory
  <1>2. /\ out[t] \in Commands /\ cmd \in Seq(Commands)
        /\ pc \in [Apps -> Places] /\ out \in [Apps -> Commands \cup {NoCmd}]
    BY <1>1 DEF IInv, Typed, TypeOK, Places, StartSteps
  <1>3. /\ Len(cmd) \in Nat /\ Len(cmd') = Len(cmd) + 1
        /\ \A i \in 1 .. Len(cmd) : cmd'[i] = cmd[i]
        /\ cmd'[Len(cmd) + 1] = out[t]
    BY <1>1, <1>2, AppendProperties, LenProperties
  <1>4. PICK k \in Nat : k = Len(cmd) + 1
    BY <1>3
  <1>5. \A u \in Apps : Brings(u, m)' <=> Brings(u, m) /\ u # t
    BY <1>1, <1>2 DEF Brings
  <1>6. /\ \A i \in 1 .. Len(cmd) : Carries(i, m)' <=> Carries(i, m)
        /\ Carries(k, m)' <=> Brings(t, m)
    BY <1>1, <1>3, <1>4 DEF Carries, Brings
  <1>7. \A i : i \in 1 .. Len(cmd') <=> i \in 1 .. Len(cmd) \/ i = k
    BY <1>3, <1>4
  <1>8. k \notin 1 .. Len(cmd)
    BY <1>3, <1>4
  <1>9. OwnedOnce(m)
    BY DEF Ownership
  <1>10. QED
    BY <1>1, <1>5, <1>6, <1>7, <1>8, <1>9 DEF OwnedOnce

(* What is received was at the head of the port; the rest moves up.        *)
LEMMA PortShifts ==
  ASSUME IInv, NEW op, Receive(op)
  PROVE  /\ UNCHANGED <<pc, out>> /\ Len(cmd) \in Nat \ {0} /\ Len(cmd') = Len(cmd) - 1
         /\ Head(cmd) = cmd[1] /\ Head(cmd) \in Commands /\ Head(cmd).op = op
         /\ \A i \in 1 .. Len(cmd') : cmd'[i] = cmd[i + 1]
         /\ \A i \in 1 .. Len(cmd) : i = 1 \/ \E j \in 1 .. Len(cmd') : i = j + 1
         /\ \A j \in 1 .. Len(cmd') : j + 1 \in 1 .. Len(cmd)
         /\ 1 \in 1 .. Len(cmd) /\ \A j \in 1 .. Len(cmd') : j + 1 # 1
  <1>1. cmd \in Seq(Commands) /\ cmd # <<>> /\ UNCHANGED <<pc, out>>
    BY DEF IInv, Typed, TypeOK, Receive, app
  <1>2. Len(cmd) \in Nat \ {0} /\ Head(cmd) = cmd[1]
    BY <1>1, EmptySeq, HeadTailProperties, LenProperties
  <1>3. /\ Head(cmd) \in Commands /\ Head(cmd).op = op /\ Len(cmd') = Len(cmd) - 1
        /\ \A i \in 1 .. Len(cmd') : cmd'[i] = cmd[i + 1]
    BY Received DEF IInv
  <1>4. \A i \in 1 .. Len(cmd) : i = 1 \/ \E j \in 1 .. Len(cmd') : i = j + 1
    <2> SUFFICES ASSUME NEW i \in 1 .. Len(cmd), i # 1
                 PROVE  \E j \in 1 .. Len(cmd') : i = j + 1
      OBVIOUS
    <2>1. i - 1 \in 1 .. Len(cmd') /\ i = (i - 1) + 1
      BY <1>2, <1>3
    <2>2. QED
      BY <2>1
  <1>5. /\ \A j \in 1 .. Len(cmd') : j + 1 \in 1 .. Len(cmd) /\ j + 1 # 1
        /\ 1 \in 1 .. Len(cmd)
    BY <1>2, <1>3
  <1>6. QED
    BY <1>1, <1>2, <1>3, <1>4, <1>5

(* What the audio thread takes from the port, it holds in a buffer or it   *)
(* was no block; what a buffer held before is freed.                       *)
LEMMA OwnersReceive ==
  ASSUME IInv, Ownership, NEW op, Receive(op), NEW B \in SUBSET Buffers,
         \A b \in Buffers \ B : buffer'[b] = buffer[b],
         \A b \in B : buffer'[b] = IF op = "set_buffer" THEN Head(cmd).block ELSE NoBlock,
         op = "set_buffer" => \E b \in Buffers : B = {b},
         heap' = heap \ {buffer[b] : b \in B}
  PROVE  Ownership'
  <1> SUFFICES ASSUME NEW m \in Blocks PROVE OwnedOnce(m)'
    BY DEF Ownership
  <1> DEFINE first == op = "set_buffer" /\ Head(cmd).block = m
  <1>1. first <=> Carries(1, m)
    BY PortShifts DEF Carries
  <1>2. /\ \A t \in Apps : Brings(t, m)' <=> Brings(t, m)
        /\ \A j \in 1 .. Len(cmd') : Carries(j, m)' <=> Carries(j + 1, m)
    BY PortShifts DEF Brings, Carries
  <1>3. \A b \in Buffers : buffer'[b] = m <=> IF b \in B THEN first ELSE buffer[b] = m
    BY ThreadsAssumption
  <1>4. m \in heap' <=> m \in heap /\ \A b \in B : buffer[b] # m
    OBVIOUS
  <1>5. first => \E b \in Buffers : B = {b}
    OBVIOUS
  <1>6. OwnedOnce(m)
    BY DEF Ownership
  <1> HIDE DEF first
  <1>7. first => /\ \A b \in Buffers : buffer[b] # m
                 /\ \A j \in 1 .. Len(cmd') : ~Carries(j, m)'
                 /\ \A t \in Apps : ~Brings(t, m)
                 /\ m \in heap
    BY <1>1, <1>2, <1>6, PortShifts DEF OwnedOnce
  <1>8. CASE first
    BY <1>2, <1>3, <1>4, <1>5, <1>7, <1>8 DEF OwnedOnce
  <1>9. CASE ~first
    <2>1. \A b \in Buffers : buffer'[b] = m <=> b \notin B /\ buffer[b] = m
      BY <1>3, <1>9
    <2>2. \A i, j \in 1 .. Len(cmd') : Carries(i, m)' /\ Carries(j, m)' => i = j
      <3> SUFFICES ASSUME NEW i \in 1 .. Len(cmd'), NEW j \in 1 .. Len(cmd'),
                          Carries(i, m)', Carries(j, m)'
                   PROVE  i = j
        OBVIOUS
      <3>1. i + 1 = j + 1
        BY <1>2, <1>6, PortShifts DEF OwnedOnce
      <3>2. QED
        BY <3>1
    <2>3. (\E i \in 1 .. Len(cmd) : Carries(i, m)) <=> (\E j \in 1 .. Len(cmd') : Carries(j, m)')
      BY <1>1, <1>2, <1>9, PortShifts
    <2>4. \A b \in Buffers, j \in 1 .. Len(cmd') : ~(buffer[b] = m /\ Carries(j, m)')
      BY <1>2, <1>6, PortShifts DEF OwnedOnce
    <2>5. \A j \in 1 .. Len(cmd'), t \in Apps : ~(Carries(j, m)' /\ Brings(t, m))
      BY <1>2, <1>6, PortShifts DEF OwnedOnce
    <2>6. \A b, d \in Buffers : buffer[b] = m /\ buffer[d] = m => b = d
      BY <1>6 DEF OwnedOnce
    <2>7. \A b \in Buffers, t \in Apps : ~(buffer[b] = m /\ Brings(t, m))
      BY <1>6 DEF OwnedOnce
    <2>8. \A t, u \in Apps : Brings(t, m) /\ Brings(u, m) => t = u
      BY <1>6 DEF OwnedOnce
    <2>9. m \in heap' <=> \/ \E b \in Buffers : buffer'[b] = m
                          \/ \E i \in 1 .. Len(cmd') : Carries(i, m)'
                          \/ \E t \in Apps : Brings(t, m)'
      BY <1>2, <1>4, <1>6, <2>1, <2>3, <2>4, <2>6, <2>7 DEF OwnedOnce
    <2>10. QED
      BY <1>2, <2>1, <2>2, <2>4, <2>5, <2>6, <2>7, <2>8, <2>9 DEF OwnedOnce
  <1>10. QED
    BY <1>8, <1>9

LEMMA OwnersAudio ==
  ASSUME IInv, Ownership, AudioThread
  PROVE  Ownership'
  <1>1. ASSUME NEW op, op # "set_buffer", Receive(op), UNCHANGED memory
        PROVE  Ownership'
    <2> DEFINE B == {}
    <2>1. heap' = heap \ {buffer[b] : b \in B} /\ UNCHANGED buffer /\ B \in SUBSET Buffers
      BY <1>1 DEF memory
    <2>2. QED
      BY <1>1, <2>1, OwnersReceive
  <1>2. CASE ReceiveSetBuffer
    <2> DEFINE c == Head(cmd)
               B == {c.buf}
    <2>1. Receive("set_buffer") /\ c \in Commands /\ c.op = "set_buffer"
      BY <1>2, PortShifts DEF ReceiveSetBuffer
    <2>2. c.buf \in Buffers
      BY <2>1, CommandParts
    <2>3. /\ buffer' = [buffer EXCEPT ![c.buf] = c.block]
          /\ heap' = heap \ {buffer[c.buf]}
          /\ buffer \in [Buffers -> Blocks \cup {NoBlock}]
      BY <1>2 DEF ReceiveSetBuffer, IInv, Typed, TypeOK
    <2> HIDE DEF c
    <2>4. /\ \A b \in Buffers \ B : buffer'[b] = buffer[b]
          /\ \A b \in B : buffer'[b] = c.block
          /\ heap' = heap \ {buffer[b] : b \in B}
          /\ B \in SUBSET Buffers /\ \E b \in Buffers : B = {b}
      BY <2>2, <2>3
    <2>5. QED
      BY <2>1, <2>4, OwnersReceive DEF c
  <1>3. CASE ReceiveBuffersFree
    <2> DEFINE B == Head(cmd).bufs
    <2>1. Receive("buffers_free") /\ Head(cmd) \in Commands /\ Head(cmd).op = "buffers_free"
      BY <1>3, PortShifts DEF ReceiveBuffersFree
    <2>2. B \in SUBSET Buffers
      BY <2>1, CommandParts
    <2>3. /\ buffer' = [b \in Buffers |-> IF b \in B THEN NoBlock ELSE buffer[b]]
          /\ heap' = heap \ {buffer[b] : b \in B}
      BY <1>3 DEF ReceiveBuffersFree
    <2> HIDE DEF B
    <2>4. /\ \A b \in Buffers \ B : buffer'[b] = buffer[b]
          /\ \A b \in B : buffer'[b] = NoBlock
      BY <2>2, <2>3
    <2>5. QED
      BY <2>1, <2>2, <2>3, <2>4, OwnersReceive
  <1>4. CASE ReceiveQuit \/ ReceiveSuspend \/ ReceiveResume \/ ReceivePlay \/ ReceiveProgram
    BY <1>1, <1>4 DEF ReceiveQuit, ReceiveSuspend, ReceiveResume, ReceivePlay,
                      ReceiveProgram, ReceiveAsk
  <1>5. CASE (\E F \in SUBSET due : Update(F)) \/ PushSignal \/ Write
    <2>1. UNCHANGED <<cmd, pc, out, memory>>
      BY <1>5 DEF Update, PushSignal, Write, ports, app
    <2>2. QED
      BY <2>1, OwnersKept DEF Brings
  <1>6. QED
    BY <1>2, <1>3, <1>4, <1>5 DEF AudioThread, ReceiveAny

(* At the end of a shutdown the port is empty, and all buffers are freed.  *)
LEMMA OwnersJoin ==
  ASSUME IInv, Ownership, Join
  PROVE  Ownership'
  <1> SUFFICES ASSUME NEW m \in Blocks PROVE OwnedOnce(m)'
    BY DEF Ownership
  <1>1. /\ cmd = <<>> /\ cmd' = <<>> /\ 1 .. Len(cmd) = {} /\ 1 .. Len(cmd') = {}
        /\ pc[Main] = "join"
    BY EmptySeq DEF Join, IInv, QuitIsLast
  <1>2. \A t \in Apps : Brings(t, m)' <=> Brings(t, m)
    <2>1. pc' = [pc EXCEPT ![Main] = "idle"] /\ out' = out /\ pc \in [Apps -> Places]
      BY DEF Join, IInv, Typed, TypeOK, Places, StartSteps
    <2>2. QED
      BY <1>1, <2>1, ThreadsAssumption DEF Brings
  <1>3. /\ \A b \in Buffers : buffer'[b] # m
        /\ m \in heap' <=> m \in heap /\ \A b \in Buffers : buffer[b] # m
    BY ThreadsAssumption DEF Join
  <1>4. QED
    BY <1>1, <1>2, <1>3 DEF Ownership, OwnedOnce

LEMMA StepOwnership == IInv /\ Ownership /\ [Next]_vars => Ownership'
  <1> SUFFICES ASSUME IInv, Ownership, [Next]_vars PROVE Ownership'
    OBVIOUS
  <1>1. pc \in [Apps -> Places] /\ out \in [Apps -> Commands \cup {NoCmd}] /\ Main \in Apps
    BY ThreadsAssumption DEF IInv, Typed, TypeOK, Places, StartSteps
  <1>2. ASSUME NEW t \in Apps, NEW c, c.op # "set_buffer", Call(t, c), UNCHANGED memory
        PROVE  Ownership'
    <2>1. /\ pc[t] = "idle" /\ pc' = [pc EXCEPT ![t] = "push"] /\ out' = [out EXCEPT ![t] = c]
          /\ cmd' = cmd
      BY <1>2 DEF Call, ports
    <2>2. \A u \in Apps, m \in Blocks : Brings(u, m)' <=> Brings(u, m)
      BY <1>1, <1>2, <2>1 DEF Brings
    <2>3. QED
      BY <1>2, <2>1, <2>2, OwnersKept
  <1>3. ASSUME NEW t \in Apps, CallApi(t) PROVE Ownership'
    <2>1. CASE \E b \in Buffers : LoadBuffer(t, b)
      BY <2>1, OwnersLoad
    <2>2. CASE \E B \in SUBSET Buffers : FreeBuffers(t, B)
      BY <1>2, <2>2 DEF FreeBuffers
    <2>3. CASE \E s \in Sources : AskSignal(t, "play_source", s) \/ AskSignal(t, "program", s)
      BY <1>2, <2>3 DEF AskSignal
    <2>4. CASE SuspendOrResume(t, Suspend) \/ SuspendOrResume(t, Resume)
      BY <1>2, <2>4 DEF SuspendOrResume, Suspend, Resume
    <2>5. ASSUME NEW n, AskSignals(t, n) PROVE Ownership'
      <3>1. /\ pc[t] = "idle" /\ pc' = [pc EXCEPT ![t] = "pop"]
            /\ UNCHANGED <<cmd, out, memory>>
        BY <2>5 DEF AskSignals, ports
      <3>2. \A u \in Apps, m \in Blocks : Brings(u, m)' <=> Brings(u, m)
        BY <1>1, <3>1 DEF Brings
      <3>3. QED
        BY <3>1, <3>2, OwnersKept
    <2>6. QED
      BY <1>3, <2>1, <2>2, <2>3, <2>4, <2>5 DEF CallApi, WaitSignal, PollSignals
  <1>4. ASSUME NEW t \in Apps, PopSignal(t) PROVE Ownership'
    <2>1. /\ pc[t] = "pop" /\ pc' = [pc EXCEPT ![t] = IF want[t] > 1 THEN "pop" ELSE "idle"]
          /\ UNCHANGED <<cmd, out, memory>>
      BY <1>4 DEF PopSignal
    <2>2. \A u \in Apps, m \in Blocks : Brings(u, m)' <=> Brings(u, m)
      BY <1>1, <2>1 DEF Brings
    <2>3. QED
      BY <2>1, <2>2, OwnersKept
  <1>5. CASE Shutdown
    BY <1>1, <1>2, <1>5 DEF Shutdown, Quit
  <1>6. CASE Startup \/ StartupSteps
    <2>1. ASSUME NEW from \in {"idle"} \cup StartSteps, NEW to \in {"idle"} \cup StartSteps,
                 NEW h, StartupStep(from, to, h)
          PROVE  Ownership'
      <3>1. /\ pc[Main] = from /\ pc' = [pc EXCEPT ![Main] = to]
            /\ UNCHANGED <<cmd, out, memory>>
        BY <2>1 DEF StartupStep, ports
      <3>2. \A u \in Apps, m \in Blocks : Brings(u, m)' <=> Brings(u, m)
        BY <1>1, <3>1 DEF Brings, StartSteps
      <3>3. QED
        BY <3>1, <3>2, OwnersKept
    <2>2. ASSUME NEW from \in StartSteps, NEW to \in StartSteps, NEW rs, Proceed(from, to, rs)
          PROVE  Ownership'
      BY <2>1, <2>2 DEF Proceed
    <2>3. ASSUME NEW from \in StartSteps, NEW h, Fail(from, h) PROVE Ownership'
      BY <2>1, <2>3 DEF Fail
    <2>4. CASE Startup
      BY <2>1, <2>4 DEF Startup, Proceed, StartSteps
    <2>5. CASE OpenSystem \/ AllocArrays \/ AllocVoice \/ CreatePorts
      BY <2>2, <2>3, <2>5 DEF OpenSystem, AllocArrays, AllocVoice, CreatePorts, StartSteps
    <2>6. CASE CreateThread
      BY <2>1, <2>3, <2>6 DEF CreateThread, StartSteps
    <2>7. QED
      BY <1>6, <2>4, <2>5, <2>6 DEF StartupSteps
  <1>7. CASE UNCHANGED vars
    <2>1. UNCHANGED <<cmd, pc, out, memory>>
      BY <1>7 DEF vars, ports, app
    <2>2. QED
      BY <2>1, OwnersKept DEF Brings
  <1>8. QED
    BY <1>3, <1>4, <1>5, <1>6, <1>7, OwnersPush, OwnersAudio, OwnersJoin DEF Next, AppStep

(* Whatever the threads load, free and shut down, and in whatever order,   *)
(* every block of sample memory that is allocated is in one buffer, one    *)
(* message or one thread, and a free block in none: nothing is lost and    *)
(* nothing is freed twice.                                                 *)
THEOREM MemoryHasOneOwner == Spec => []OneOwner
  <1>1. Spec => []Ownership
    BY InitOwnership, StepOwnership, Invariance, PTL DEF Spec
  <1>2. QED
    BY <1>1, OwnershipFollows, PTL

-----------------------------------------------------------------------------
(* The room for signals                                                    *)

Asks == {"play_source", "program"}

(* Calls that ask for a signal are only made within the limit.             *)
Within == IsFiniteSet(Issued(Asks)) /\ Outstanding <= SigLimit

Counted ==
  /\ Len(sig) \in Nat /\ Len(todo) \in Nat /\ Cardinality(due) \in Nat
  /\ IsFiniteSet(InPort(Asks)) /\ Cardinality(InPort(Asks)) \in Nat
  /\ Cardinality(Issued(Asks)) \in Nat
  /\ Outstanding = Len(sig) + Len(todo) + Cardinality(due)
                     + Cardinality(InPort(Asks)) + Cardinality(Issued(Asks))

LEMMA Counts == Typed /\ IsFiniteSet(Issued(Asks)) => Counted
  <1> SUFFICES ASSUME Typed, IsFiniteSet(Issued(Asks)) PROVE Counted
    OBVIOUS
  <1>1. Len(sig) \in Nat /\ Len(todo) \in Nat /\ Len(cmd) \in Nat
    BY LenProperties DEF Typed, TypeOK
  <1>2. IsFiniteSet(1 .. Len(cmd)) /\ InPort(Asks) \subseteq 1 .. Len(cmd)
    BY <1>1, FS_Interval DEF InPort
  <1>3. IsFiniteSet(InPort(Asks))
    BY <1>2, FS_Subset
  <1>4. QED
    BY <1>1, <1>3, FS_CardinalityType DEF Typed, Outstanding, Asks, Counted

LEMMA CountsNext == Typed' /\ IsFiniteSet(Issued(Asks))' => Counted'
  BY Counts, PTL

LEMMA InitWithin == Init => Within
  <1> SUFFICES ASSUME Init PROVE Within
    OBVIOUS
  <1>1. Issued(Asks) = {} /\ InPort(Asks) = {} /\ due = {} /\ Len(sig) = 0 /\ Len(todo) = 0
    BY EmptySeq DEF Init, Issued, InPort
  <1>2. IsFiniteSet(Issued(Asks))
    BY <1>1, FS_EmptySet
  <1>3. Outstanding = 0
    BY <1>1, <1>2, InitTyped, FS_EmptySet, Counts DEF Counted
  <1>4. QED
    BY <1>2, <1>3, ThreadsAssumption DEF Within

(* Steps that only move or drop what is outstanding.                       *)
LEMMA WithinKept ==
  ASSUME Typed, Typed', Within, Issued(Asks)' \subseteq Issued(Asks),
         Cardinality(InPort(Asks)') <= Cardinality(InPort(Asks)),
         Len(sig') + Len(todo') + Cardinality(due') <= Len(sig) + Len(todo) + Cardinality(due)
  PROVE  Within'
  <1>1. /\ IsFiniteSet(Issued(Asks)')
        /\ Cardinality(Issued(Asks)') <= Cardinality(Issued(Asks))
    BY FS_Subset DEF Within
  <1>2. Counted /\ Counted'
    BY <1>1, Counts, CountsNext DEF Within
  <1>3. /\ Len(sig') \in Nat /\ Len(todo') \in Nat /\ Cardinality(due') \in Nat
        /\ Cardinality(InPort(Asks)') \in Nat /\ Cardinality(Issued(Asks)') \in Nat
        /\ Outstanding' = Len(sig') + Len(todo') + Cardinality(due')
                            + Cardinality(InPort(Asks)') + Cardinality(Issued(Asks)')
    BY <1>2 DEF Counted
  <1>4. /\ Len(sig) \in Nat /\ Len(todo) \in Nat /\ Cardinality(due) \in Nat
        /\ Cardinality(InPort(Asks)) \in Nat /\ Cardinality(Issued(Asks)) \in Nat
        /\ Outstanding = Len(sig) + Len(todo) + Cardinality(due)
                           + Cardinality(InPort(Asks)) + Cardinality(Issued(Asks))
    BY <1>2 DEF Counted
  <1>5. Outstanding <= SigLimit /\ SigLimit \in Nat
    BY ThreadsAssumption DEF Within
  <1>6. Outstanding' <= SigLimit
    <2>1. PICK m \in Nat : m = Len(sig) + Len(todo) + Cardinality(due)
      BY <1>4
    <2>2. PICK n \in Nat : n = Len(sig') + Len(todo') + Cardinality(due')
      BY <1>3
    <2> DEFINE p == Cardinality(InPort(Asks))
               q == Cardinality(InPort(Asks)')
               i == Cardinality(Issued(Asks))
               j == Cardinality(Issued(Asks)')
    <2>3. /\ p \in Nat /\ q \in Nat /\ i \in Nat /\ j \in Nat
          /\ n <= m /\ q <= p /\ j <= i
      BY <1>1, <1>3, <1>4, <2>1, <2>2
    <2>4. Outstanding = m + p + i
      BY <1>4, <2>1
    <2>5. Outstanding' = n + q + j
      BY <1>3, <2>2
    <2> HIDE DEF p, q, i, j
    <2>6. n + q + j <= m + p + i
      BY <2>3
    <2>7. QED
      BY <1>5, <2>3, <2>4, <2>5, <2>6
  <1>7. QED
    BY <1>1, <1>6 DEF Within

(* Receiving takes one command from the port, and what asked in it.        *)
LEMMA PortLoses ==
  ASSUME IInv, NEW op, Receive(op), IsFiniteSet(InPort(Asks))
  PROVE  /\ Cardinality(InPort(Asks)') <= Cardinality(InPort(Asks))
         /\ op \in Asks => Cardinality(InPort(Asks)') <= Cardinality(InPort(Asks)) - 1
  <1> DEFINE P == InPort(Asks)
             Q == {i \in 1 .. Len(cmd') : cmd'[i].op \in Asks}
             f == [i \in Q |-> i + 1]
  <1>1. Q = InPort(Asks)'
    BY DEF InPort, Asks
  <1>2. f \in [Q -> P \ {1}]
    BY PortShifts DEF InPort
  <1>3. \A i, j \in Q : f[i] = f[j] => i = j
    BY PortShifts
  <1>4. f \in Injection(Q, P \ {1})
    BY <1>2, <1>3 DEF Injection, IsInjective
  <1>5. /\ IsFiniteSet(P \ {1})
        /\ Cardinality(P \ {1}) = IF 1 \in P THEN Cardinality(P) - 1 ELSE Cardinality(P)
    BY FS_RemoveElement
  <1>6. Cardinality(Q) <= Cardinality(P \ {1})
    BY <1>4, <1>5, FS_Injection
  <1>7. op \in Asks => 1 \in P
    BY PortShifts DEF InPort
  <1>8. Cardinality(Q) \in Nat /\ Cardinality(P) \in Nat
    BY <1>4, <1>5, FS_Injection, FS_CardinalityType
  <1> HIDE DEF P, Q, f
  <1>9. Cardinality(Q) <= Cardinality(P) /\ (op \in Asks => Cardinality(Q) <= Cardinality(P) - 1)
    BY <1>5, <1>6, <1>7, <1>8
  <1>10. QED
    BY <1>1, <1>9 DEF P

(* A call that asks for a signal finds the limit not reached.              *)
LEMMA WithinAsk ==
  ASSUME IInv, Typed', Within, NEW t \in Apps, NEW op \in Asks, NEW src, AskSignal(t, op, src)
  PROVE  Within'
  <1>1. /\ pc[t] = "idle" /\ pc' = [pc EXCEPT ![t] = "push"]
        /\ out' = [out EXCEPT ![t] = [op |-> op, src |-> src]]
        /\ UNCHANGED <<cmd, sig, todo, due>> /\ Outstanding < SigLimit
    BY DEF AskSignal, Call, ports, voice
  <1>2. Issued(Asks)' = Issued(Asks) \cup {t} /\ t \notin Issued(Asks)
    BY <1>1 DEF Issued, IInv, Typed, TypeOK
  <1>3. /\ IsFiniteSet(Issued(Asks)')
        /\ Cardinality(Issued(Asks)') = Cardinality(Issued(Asks)) + 1
    BY <1>2, FS_AddElement DEF Within
  <1>4. InPort(Asks)' = InPort(Asks)
    BY <1>1 DEF InPort
  <1>5. Counted /\ Counted'
    BY <1>3, Counts, CountsNext DEF Within, IInv
  <1>6. Outstanding' = Outstanding + 1 /\ Outstanding \in Nat
    <2>0. Len(sig) \in Nat /\ Len(todo) \in Nat /\ Cardinality(due) \in Nat
      BY <1>5 DEF Counted
    <2>1. PICK m \in Nat : m = Len(sig) + Len(todo) + Cardinality(due)
      BY <2>0
    <2>2. Outstanding = m + Cardinality(InPort(Asks)) + Cardinality(Issued(Asks))
      BY <1>5, <2>1 DEF Counted
    <2>3. Outstanding' = m + Cardinality(InPort(Asks)) + Cardinality(Issued(Asks)')
      BY <1>1, <1>4, <1>5, <2>1 DEF Counted
    <2> DEFINE p == Cardinality(InPort(Asks))
               i == Cardinality(Issued(Asks))
    <2>4. p \in Nat /\ i \in Nat
      BY <1>5 DEF Counted
    <2>5. Outstanding = m + p + i /\ Outstanding' = m + p + (i + 1)
      BY <1>3, <2>2, <2>3
    <2> HIDE DEF p, i
    <2>6. QED
      BY <2>4, <2>5
  <1>7. QED
    BY <1>1, <1>3, <1>6, ThreadsAssumption DEF Within

(* A push moves what asks from the thread to the port.                     *)
LEMMA WithinPush ==
  ASSUME IInv, Typed', Within, NEW t \in Apps, PushCommand(t)
  PROVE  Within'
  <1>1. /\ pc[t] = "push" /\ cmd' = Append(cmd, out[t])
        /\ pc' = [pc EXCEPT ![t] = IF out[t] = Quit THEN "join" ELSE "idle"]
        /\ out' = [out EXCEPT ![t] = NoCmd]
        /\ UNCHANGED <<sig, todo, due>>
    BY DEF PushCommand, voice
  <1>2. /\ cmd \in Seq(Commands) /\ out[t] \in Commands
        /\ pc \in [Apps -> Places] /\ out \in [Apps -> Commands \cup {NoCmd}]
    BY <1>1 DEF IInv, Typed, TypeOK, Places, StartSteps
  <1>3. /\ Len(cmd) \in Nat /\ Len(cmd') = Len(cmd) + 1
        /\ \A i \in 1 .. Len(cmd) : cmd'[i] = cmd[i]
        /\ cmd'[Len(cmd) + 1] = out[t]
    BY <1>1, <1>2, AppendProperties, LenProperties
  <1>4. Issued(Asks)' = Issued(Asks) \ {t} /\ (t \in Issued(Asks) <=> out[t].op \in Asks)
    BY <1>1, <1>2 DEF Issued
  <1>5. PICK k \in Nat : k = Len(cmd) + 1
    BY <1>3
  <1>6. /\ \A i : i \in 1 .. Len(cmd') <=> i \in 1 .. Len(cmd) \/ i = k
        /\ k \notin 1 .. Len(cmd)
    BY <1>3, <1>5
  <1>7. /\ InPort(Asks)' = IF out[t].op \in Asks THEN InPort(Asks) \cup {k} ELSE InPort(Asks)
        /\ k \notin InPort(Asks)
    BY <1>3, <1>5, <1>6 DEF InPort
  <1>8. Counted /\ IsFiniteSet(Issued(Asks))
    BY Counts DEF Within, IInv
  <1>9. CASE out[t].op \notin Asks
    <2>1. Issued(Asks)' \subseteq Issued(Asks) /\ InPort(Asks)' = InPort(Asks)
      BY <1>4, <1>7, <1>9
    <2>2. Cardinality(InPort(Asks)') <= Cardinality(InPort(Asks))
      BY <1>8, <2>1 DEF Counted
    <2>3. Len(sig') + Len(todo') + Cardinality(due') <= Len(sig) + Len(todo) + Cardinality(due)
      BY <1>1, <1>8 DEF Counted
    <2>4. QED
      BY <2>1, <2>2, <2>3, WithinKept DEF IInv
  <1>10. CASE out[t].op \in Asks
    <2>1. /\ IsFiniteSet(Issued(Asks)')
          /\ Cardinality(Issued(Asks)') = Cardinality(Issued(Asks)) - 1
      BY <1>4, <1>8, <1>10, FS_RemoveElement
    <2>2. Cardinality(InPort(Asks)') = Cardinality(InPort(Asks)) + 1
      BY <1>7, <1>8, <1>10, FS_AddElement DEF Counted
    <2>3. Counted'
      BY <2>1, CountsNext
    <2>4. PICK m \in Nat : m = Len(sig) + Len(todo) + Cardinality(due)
      BY <1>8 DEF Counted
    <2>5. Outstanding = m + Cardinality(InPort(Asks)) + Cardinality(Issued(Asks))
      BY <1>8, <2>4 DEF Counted
    <2>6. Outstanding' = m + Cardinality(InPort(Asks)') + Cardinality(Issued(Asks)')
      BY <1>1, <2>3, <2>4 DEF Counted
    <2> DEFINE p == Cardinality(InPort(Asks))
               i == Cardinality(Issued(Asks))
    <2>7. p \in Nat /\ i \in Nat /\ Outstanding = m + p + i /\ Outstanding' = m + (p + 1) + (i - 1)
      BY <1>8, <2>1, <2>2, <2>5, <2>6 DEF Counted
    <2> HIDE DEF p, i
    <2>8. Outstanding' = Outstanding
      BY <2>7
    <2>9. QED
      BY <2>1, <2>8 DEF Within
  <1>11. QED
    BY <1>9, <1>10

(* What the audio thread does for a command, and in a cycle.               *)
LEMMA WithinAudio ==
  ASSUME IInv, Typed', Within, AudioThread
  PROVE  Within'
  <1>1. /\ Counted /\ IsFiniteSet(due) /\ due \subseteq Signals
        /\ Len(sig) \in Nat /\ Len(todo) \in Nat /\ Cardinality(due) \in Nat
        /\ IsFiniteSet(InPort(Asks)) /\ Cardinality(InPort(Asks)) \in Nat
    BY Counts DEF Within, IInv, Typed, TypeOK, Counted
  <1>2. /\ IsFiniteSet(due') /\ Cardinality(due') \in Nat
    BY FS_CardinalityType DEF Typed
  <1>3. ASSUME NEW op, Receive(op), due' \subseteq due PROVE Within'
    <2>1. Cardinality(due') <= Cardinality(due)
      BY <1>1, <1>3, FS_Subset
    <2>2. Issued(Asks)' = Issued(Asks) /\ UNCHANGED <<sig, todo>>
      BY <1>3 DEF Receive, Issued, app
    <2>3. Len(sig') + Len(todo') + Cardinality(due') <= Len(sig) + Len(todo) + Cardinality(due)
      BY <1>1, <1>2, <2>1, <2>2
    <2>4. Cardinality(InPort(Asks)') <= Cardinality(InPort(Asks))
      BY <1>1, <1>3, PortLoses
    <2>5. QED
      BY <2>2, <2>3, <2>4, WithinKept DEF IInv
  <1>4. ASSUME NEW op \in Asks, NEW event, ReceiveAsk(op, event) PROVE Within'
    <2>1. /\ Receive(op) /\ due' = due \cup {[id |-> Head(cmd).src, signal |-> event]}
          /\ Issued(Asks)' = Issued(Asks) /\ UNCHANGED <<sig, todo>>
      BY <1>4 DEF ReceiveAsk, Receive, Issued, app
    <2>2. Cardinality(due') <= Cardinality(due) + 1
      <3>1. PICK x : due' = due \cup {x}
        BY <2>1
      <3>2. Cardinality(due \cup {x}) = IF x \in due THEN Cardinality(due) ELSE Cardinality(due) + 1
        BY <1>1, FS_AddElement
      <3>3. QED
        BY <1>1, <3>1, <3>2
    <2>3. Cardinality(InPort(Asks)') <= Cardinality(InPort(Asks)) - 1
      BY <1>1, <2>1, PortLoses
    <2>4. Counted' /\ IsFiniteSet(Issued(Asks)')
      BY <2>1, CountsNext DEF Within
    <2> DEFINE s == Len(sig) + Len(todo)
               p == Cardinality(InPort(Asks))
               q == Cardinality(InPort(Asks)')
               i == Cardinality(Issued(Asks))
               d == Cardinality(due)
               e == Cardinality(due')
    <2>5. Cardinality(Issued(Asks)) \in Nat /\ Cardinality(InPort(Asks)') \in Nat
      BY <1>1, <2>4 DEF Counted
    <2>6. Outstanding = s + d + p + i
      BY <1>1 DEF Counted
    <2>7. Outstanding' = s + e + q + i
      BY <2>1, <2>4 DEF Counted
    <2>8. /\ s \in Nat /\ d \in Nat /\ e \in Nat /\ p \in Nat /\ q \in Nat /\ i \in Nat
          /\ e <= d + 1 /\ q <= p - 1
      BY <1>1, <1>2, <2>2, <2>3, <2>5
    <2> HIDE DEF s, p, q, i, d, e
    <2>9. s + e + q + i <= s + d + p + i
      BY <2>8
    <2>10. Outstanding <= SigLimit /\ SigLimit \in Nat
      BY ThreadsAssumption DEF Within
    <2>11. Outstanding' <= SigLimit
      BY <2>6, <2>7, <2>8, <2>9, <2>10
    <2>12. QED
      BY <2>4, <2>11 DEF Within
  <1>5. ASSUME NEW F \in SUBSET due, Update(F) PROVE Within'
    <2>1. /\ Len(todo') = Cardinality(Progs) + Cardinality(F) /\ F \cap Progs = {}
          /\ due' = due \ (Progs \cup F) /\ todo = <<>> /\ UNCHANGED <<cmd, sig, pc, out>>
      BY <1>5, UpdateLists DEF Update, Progs, ports, app, IInv, Typed, CorkedIsSuspended
    <2>2. Progs \subseteq due
      BY DEF Progs
    <2>3. IsFiniteSet(Progs) /\ IsFiniteSet(F)
      BY <1>1, <2>2, FS_Subset
    <2>4. /\ IsFiniteSet(Progs \cup F)
          /\ Cardinality(Progs \cup F) = Cardinality(Progs) + Cardinality(F) - Cardinality({})
      BY <2>1, <2>3, FS_Union
    <2>5. Cardinality(due') = Cardinality(due) - Cardinality(Progs \cup F)
      <3>1. Cardinality(due \ (Progs \cup F))
              = Cardinality(due) - Cardinality(due \cap (Progs \cup F))
        BY <1>1, FS_Difference
      <3>2. due \cap (Progs \cup F) = Progs \cup F
        BY <2>2
      <3>3. QED
        BY <2>1, <3>1, <3>2
    <2>6. /\ Cardinality({}) = 0 /\ Len(todo) = 0
          /\ Cardinality(Progs) \in Nat /\ Cardinality(F) \in Nat
      BY <2>1, <2>3, FS_EmptySet, FS_CardinalityType, EmptySeq
    <2>7. Len(todo') + Cardinality(due') = Len(todo) + Cardinality(due)
      BY <1>1, <2>1, <2>4, <2>5, <2>6
    <2>8. Len(todo') \in Nat
      BY LenProperties DEF Typed, TypeOK
    <2>9. Len(sig') + Len(todo') + Cardinality(due') <= Len(sig) + Len(todo) + Cardinality(due)
      BY <1>1, <1>2, <2>1, <2>7, <2>8
    <2>10. Issued(Asks)' = Issued(Asks) /\ InPort(Asks)' = InPort(Asks)
      BY <2>1 DEF Issued, InPort
    <2>11. Cardinality(InPort(Asks)') <= Cardinality(InPort(Asks))
      BY <1>1, <2>10
    <2>12. QED
      BY <2>9, <2>10, <2>11, WithinKept DEF IInv
  <1>6. CASE PushSignal \/ Write
    <2>1. /\ UNCHANGED <<cmd, pc, out, due>>
          /\ \/ todo # <<>> /\ sig' = Append(sig, Head(todo)) /\ todo' = Tail(todo)
             \/ UNCHANGED <<sig, todo>>
      BY <1>6 DEF PushSignal, Write, ports, app, voice
    <2>2. sig \in Seq(Signals) /\ todo \in Seq(Signals)
      BY DEF IInv, Typed, TypeOK
    <2>3. Len(sig') + Len(todo') = Len(sig) + Len(todo)
      <3>1. CASE UNCHANGED <<sig, todo>>
        BY <3>1
      <3>2. CASE todo # <<>> /\ sig' = Append(sig, Head(todo)) /\ todo' = Tail(todo)
        <4>1. Head(todo) \in Signals /\ Len(todo') = Len(todo) - 1
          BY <2>2, <3>2, HeadTailProperties
        <4>2. Len(sig') = Len(sig) + 1
          BY <2>2, <3>2, <4>1, AppendProperties
        <4>3. QED
          BY <1>1, <4>1, <4>2
      <3>3. QED
        BY <2>1, <3>1, <3>2
    <2>4. Len(sig') \in Nat /\ Len(todo') \in Nat
      BY LenProperties DEF Typed, TypeOK
    <2>5. Len(sig') + Len(todo') + Cardinality(due') <= Len(sig) + Len(todo) + Cardinality(due)
      BY <1>1, <2>1, <2>3, <2>4
    <2>6. Issued(Asks)' = Issued(Asks) /\ InPort(Asks)' = InPort(Asks)
      BY <2>1 DEF Issued, InPort
    <2>7. Cardinality(InPort(Asks)') <= Cardinality(InPort(Asks))
      BY <1>1, <2>6
    <2>8. QED
      BY <2>5, <2>6, <2>7, WithinKept DEF IInv
  <1>7. CASE ReceiveAny
    BY <1>3, <1>4, <1>7 DEF ReceiveAny, ReceiveQuit, ReceiveSuspend, ReceiveResume,
      ReceiveSetBuffer, ReceiveBuffersFree, ReceivePlay, ReceiveProgram, voice, Asks
  <1>8. QED
    BY <1>5, <1>6, <1>7 DEF AudioThread

LEMMA StepWithin == IInv /\ Typed' /\ Within /\ [Next]_vars => Within'
  <1> SUFFICES ASSUME IInv, Typed', Within, [Next]_vars PROVE Within'
    OBVIOUS
  <1>1. /\ Len(sig) \in Nat /\ Len(todo) \in Nat /\ Cardinality(due) \in Nat
        /\ Cardinality(InPort(Asks)) \in Nat
        /\ pc \in [Apps -> Places] /\ out \in [Apps -> Commands \cup {NoCmd}] /\ Main \in Apps
    BY Counts, ThreadsAssumption DEF Within, IInv, Counted, Typed, TypeOK, Places, StartSteps
  <1>2. ASSUME Issued(Asks)' \subseteq Issued(Asks), UNCHANGED <<cmd, sig, todo, due>>
        PROVE  Within'
    <2>1. InPort(Asks)' = InPort(Asks)
      BY <1>2 DEF InPort
    <2>2. Cardinality(InPort(Asks)') <= Cardinality(InPort(Asks))
      BY <1>1, <2>1
    <2>3. Len(sig') + Len(todo') + Cardinality(due') <= Len(sig) + Len(todo) + Cardinality(due)
      BY <1>1, <1>2
    <2>4. QED
      BY <1>2, <2>2, <2>3, WithinKept DEF IInv
  <1>3. ASSUME NEW t \in Apps, NEW c, c.op \notin Asks, Call(t, c) PROVE Within'
    <2>1. /\ pc' = [pc EXCEPT ![t] = "push"] /\ out' = [out EXCEPT ![t] = c]
          /\ UNCHANGED <<cmd, sig, todo, due>>
      BY <1>3 DEF Call, ports, voice
    <2>2. Issued(Asks)' \subseteq Issued(Asks)
      BY <1>1, <1>3, <2>1 DEF Issued
    <2>3. QED
      BY <1>2, <2>1, <2>2
  <1>4. ASSUME NEW t \in Apps, CallApi(t) PROVE Within'
    <2>1. CASE \E b \in Buffers : LoadBuffer(t, b)
      BY <1>3, <2>1 DEF LoadBuffer, Asks
    <2>2. CASE \E B \in SUBSET Buffers : FreeBuffers(t, B)
      BY <1>3, <2>2 DEF FreeBuffers, Asks
    <2>3. CASE \E s \in Sources : AskSignal(t, "play_source", s) \/ AskSignal(t, "program", s)
      BY <2>3, WithinAsk DEF Asks
    <2>4. CASE SuspendOrResume(t, Suspend) \/ SuspendOrResume(t, Resume)
      BY <1>3, <2>4 DEF SuspendOrResume, Suspend, Resume, Asks
    <2>5. ASSUME NEW n, AskSignals(t, n) PROVE Within'
      <3>1. /\ pc' = [pc EXCEPT ![t] = "pop"] /\ UNCHANGED <<cmd, sig, todo, due, out>>
        BY <2>5 DEF AskSignals, ports, voice
      <3>2. Issued(Asks)' \subseteq Issued(Asks)
        BY <1>1, <3>1 DEF Issued
      <3>3. QED
        BY <1>2, <3>1, <3>2
    <2>6. QED
      BY <1>4, <2>1, <2>2, <2>3, <2>4, <2>5 DEF CallApi, WaitSignal, PollSignals
  <1>5. ASSUME NEW t \in Apps, PopSignal(t) PROVE Within'
    <2>1. /\ pc[t] = "pop" /\ pc' = [pc EXCEPT ![t] = IF want[t] > 1 THEN "pop" ELSE "idle"]
          /\ sig # <<>> /\ sig' = Tail(sig) /\ UNCHANGED <<cmd, out, todo, due>>
      BY <1>5 DEF PopSignal, voice
    <2>2. Issued(Asks)' = Issued(Asks) /\ InPort(Asks)' = InPort(Asks)
      BY <1>1, <2>1 DEF Issued, InPort
    <2>3. Len(sig') = Len(sig) - 1
      BY <2>1, HeadTailProperties DEF IInv, Typed, TypeOK
    <2>4. Len(sig') + Len(todo') + Cardinality(due') <= Len(sig) + Len(todo) + Cardinality(due)
      BY <1>1, <2>1, <2>3
    <2>5. Cardinality(InPort(Asks)') <= Cardinality(InPort(Asks))
      BY <1>1, <2>2
    <2>6. QED
      BY <2>2, <2>4, <2>5, WithinKept DEF IInv
  <1>6. CASE Shutdown
    BY <1>1, <1>3, <1>6 DEF Shutdown, Quit, Asks
  <1>7. CASE Startup \/ StartupSteps
    <2>1. ASSUME NEW from \in {"idle"} \cup StartSteps, NEW to \in {"idle"} \cup StartSteps,
                 NEW h, StartupStep(from, to, h)
          PROVE  Within'
      <3>1. pc' = [pc EXCEPT ![Main] = to] /\ UNCHANGED <<cmd, sig, todo, due, out>>
        BY <2>1 DEF StartupStep, ports
      <3>2. Issued(Asks)' \subseteq Issued(Asks)
        BY <1>1, <3>1 DEF Issued, StartSteps
      <3>3. QED
        BY <1>2, <3>1, <3>2
    <2>2. ASSUME NEW from \in StartSteps, NEW to \in StartSteps, NEW rs, Proceed(from, to, rs)
          PROVE  Within'
      BY <2>1, <2>2 DEF Proceed
    <2>3. ASSUME NEW from \in StartSteps, NEW h, Fail(from, h) PROVE Within'
      BY <2>1, <2>3 DEF Fail
    <2>4. CASE Startup
      BY <2>1, <2>4 DEF Startup, Proceed, StartSteps
    <2>5. CASE OpenSystem \/ AllocArrays \/ AllocVoice \/ CreatePorts
      BY <2>2, <2>3, <2>5 DEF OpenSystem, AllocArrays, AllocVoice, CreatePorts, StartSteps
    <2>6. CASE CreateThread
      BY <2>1, <2>3, <2>6 DEF CreateThread, StartSteps
    <2>7. QED
      BY <1>7, <2>4, <2>5, <2>6 DEF StartupSteps
  <1>8. CASE Join
    <2>1. /\ pc' = [pc EXCEPT ![Main] = "idle"] /\ cmd' = <<>> /\ sig' = <<>> /\ due' = {}
          /\ UNCHANGED <<out, todo>>
      BY <1>8 DEF Join
    <2>2. Issued(Asks)' \subseteq Issued(Asks)
      BY <1>1, <2>1 DEF Issued
    <2>3. InPort(Asks)' = {} /\ Len(sig') = 0
      BY <2>1, EmptySeq DEF InPort
    <2>4. Cardinality(InPort(Asks)') <= Cardinality(InPort(Asks)) /\ Cardinality(due') = 0
      BY <1>1, <2>1, <2>3, FS_EmptySet
    <2>5. Len(sig') + Len(todo') + Cardinality(due') <= Len(sig) + Len(todo) + Cardinality(due)
      BY <1>1, <2>1, <2>3, <2>4
    <2>6. QED
      BY <2>2, <2>4, <2>5, WithinKept DEF IInv
  <1>9. CASE UNCHANGED vars
    <2>1. UNCHANGED <<cmd, sig, todo, due, pc, out>>
      BY <1>9 DEF vars, ports, app, voice
    <2>2. QED
      BY <1>2, <2>1 DEF Issued
  <1>10. QED
    BY <1>4, <1>5, <1>6, <1>7, <1>8, <1>9, WithinPush, WithinAudio DEF Next, AppStep

(* An application that lets no more signals be outstanding than the port   *)
(* holds never makes the audio thread wait for it.                         *)
THEOREM SignalsHaveRoom == Spec => [](SigLimit <= SigAvail => SignalsFit)
  <1>1. Spec => []Within
    BY InitWithin, StepWithin, Invariance, PTL DEF Spec, IInv
  <1>2. IInv /\ Within => (SigLimit <= SigAvail => SignalsFit)
    <2> SUFFICES ASSUME IInv, Within, SigLimit <= SigAvail
                 PROVE  Len(sig) + Len(todo) <= SigAvail
      BY DEF SignalsFit
    <2>1. Counted
      BY Counts DEF IInv, Within
    <2> DEFINE d == Cardinality(due)
               p == Cardinality(InPort(Asks))
               i == Cardinality(Issued(Asks))
    <2>2. /\ Len(sig) \in Nat /\ Len(todo) \in Nat /\ d \in Nat /\ p \in Nat /\ i \in Nat
          /\ Outstanding = Len(sig) + Len(todo) + d + p + i
      BY <2>1 DEF Counted
    <2>3. Outstanding <= SigLimit /\ SigLimit \in Nat /\ SigAvail \in Nat
      BY ThreadsAssumption DEF Within
    <2> HIDE DEF d, p, i
    <2>4. QED
      BY <2>2, <2>3
  <1>3. QED
    BY <1>1, <1>2, Invariance, PTL

=============================================================================
