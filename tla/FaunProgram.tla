----------------------------- MODULE FaunProgram ----------------------------
(***************************************************************************)
(* Programs: faun_program cuts the bytecode of a program into messages for *)
(* the command port, the audio thread assembles them in the code buffer of *)
(* an execution unit, and faun_evalProg runs every unit once in each       *)
(* update cycle, up to a FO_WAIT or the end.                               *)
(*                                                                         *)
(* The audio thread executes one instruction per step here, so each fetch  *)
(* can be looked at; what the instructions do to a source is in FaunVoice. *)
(* The command port is the FIFO channel of MsgChannel.                     *)
(***************************************************************************)
EXTENDS Integers, Sequences, FiniteSets

CONSTANTS Units,        \* execution units, 0 .. _pexecLimit - 1
          Owner,        \* Owner[e]: the application thread that programs e
          Programs,     \* bytecode of the programs the application sends
          ProgramMax,   \* FAUN_PROGRAM_MAX
          PayloadMax,   \* bytes of code in one message
          PortAvail,    \* capacity of the command port
          SourceLimit,  \* stream identifiers begin here
          Tenth,        \* frames in a tenth of a second, 4410
          MixLen,       \* frames per update cycle
          Wrap,         \* modulus of uint32_t
          Replaces      \* the application replaces programs that still run

ASSUME ProgramAssumption ==
  /\ Units \in SUBSET Nat /\ IsFiniteSet(Units)
  /\ Programs \subseteq Seq(0 .. 255)
  /\ ProgramMax \in Nat /\ SourceLimit \in Nat \ {0}
  /\ PayloadMax \in Nat \ {0} /\ PortAvail \in Nat \ {0}
  /\ Tenth \in Nat \ {0} /\ MixLen \in Nat \ {0} /\ Wrap \in Nat \ {0}
  /\ Replaces \in BOOLEAN

Threads == {Owner[e] : e \in Units}

VARIABLES prog,         \* prog[e]: the FaunProgram of unit e
          port,         \* program messages in the command port
          out,          \* out[t]: messages thread t has still to push
          turn,         \* unit being run in this cycle; Idle between cycles
          ip,           \* `pc' of faun_evalProg
          clock,        \* totalMixed
          heard,        \* units whose last program has signalled
          given,        \* history: the program last loaded whole in a unit
          fresh,        \* history: units that have not run since the load
          owed,         \* history: frames a FO_WAIT has still to let pass
          straddles     \* history: waitPos of the unit has wrapped

history == <<given, fresh, owed, straddles>>
vars == <<prog, port, out, turn, ip, clock, heard, history>>

FO_END == 0
FO_WAIT == 1
FO_SOURCE == 2
FO_QUEUE == 3
FO_PLAY_BUF == 4
FO_SIGNAL == 15
FO_COUNT == 17

(* Operand bytes of an opcode, as the comments of faun.h list them.        *)
Operands(op) ==
  CASE op \in {FO_WAIT, FO_SOURCE, FO_QUEUE} \cup 7 .. 10 -> 1
    [] op = FO_PLAY_BUF -> 2
    [] OTHER -> 0

(* Offsets of a program at which an instruction begins: where its first    *)
(* one does, and where one ends that is not the last.                      *)
After(p, i) == i + 1 + Operands(p[i + 1])
Offsets(p)  == 0 .. Len(p) - 1
Follows(p, S) == 0 \in S /\ \A i \in S : After(p, i) < Len(p) => After(p, i) \in S
Starts ==
  [p \in Programs |->
     {i \in Offsets(p) : \A S \in SUBSET Offsets(p) : Follows(p, S) => i \in S}]

(* Programs are code: no instruction but FO_END is the last, FO_SIGNAL     *)
(* tells that the next is FO_END, and sources are selected, not streams.   *)
Ends == {FO_END} \cup FO_COUNT .. 255
WellFormed(p) ==
  /\ p # <<>>
  /\ \A i \in Starts[p] :
       /\ p[i + 1] \notin Ends => After(p, i) < Len(p)
       /\ p[i + 1] = FO_SIGNAL => p[i + 2] \in Ends
       /\ p[i + 1] = FO_SOURCE => p[i + 2] < SourceLimit

ASSUME ProgramsAreCode == \A p \in Programs : WellFormed(p)

Idle   == -1             \* values of turn between cycles ...
Mixing == -2             \* ... and when every unit has run
Bytes(p, from, n) == SubSeq(p, from + 1, from + n)
UnitsAfter(e) == {f \in Units : f > e}

Init ==
  /\ prog = [e \in Units |-> [code |-> [i \in 0 .. ProgramMax - 1 |-> 0], pc |-> 0,
                              used |-> 0, running |-> FALSE, si |-> 0, waitPos |-> 0]]
  /\ port = <<>>
  /\ out = [t \in Threads |-> <<>>]
  /\ turn = Idle
  /\ ip = 0
  /\ clock = 0
  /\ heard = Units
  /\ given = [e \in Units |-> <<>>]
  /\ fresh = {}
  /\ owed = [e \in Units |-> 0]
  /\ straddles = {}

-----------------------------------------------------------------------------
(* faun_program                                                            *)

(* The messages of one call: PROGRAM, or BEG, MIDs and END.  The program   *)
(* and the number of the message are kept with them for the history.       *)
Messages(e, p) ==
  LET n == (Len(p) + PayloadMax - 1) \div PayloadMax
      Clen(i) == IF i = n THEN Len(p) - (n - 1) * PayloadMax ELSE PayloadMax
      Op(i) == IF i = 1 THEN (IF n = 1 THEN "program" ELSE "beg")
                        ELSE (IF i = n THEN "end" ELSE "mid")
  IN [i \in 1 .. n |-> [op |-> Op(i), exec |-> e,
                        code |-> Bytes(p, (i - 1) * PayloadMax, Clen(i)),
                        whole |-> p, part |-> i]]

(* A program ends with FO_SIGNAL, so its thread can tell when it is over.  *)
CallProgram(e, p) ==
  /\ out[Owner[e]] = <<>>
  /\ e \in heard \/ Replaces
  /\ Len(p) <= ProgramMax /\ p[Len(p)] = FO_END
  /\ out' = [out EXCEPT ![Owner[e]] = Messages(e, p)]
  /\ heard' = heard \ {e}
  /\ UNCHANGED <<prog, port, turn, ip, clock, history>>

\* Mutant: the push does not wait for room.
PushMessageAnyway(t) ==
  /\ out[t] # <<>>
  /\ port' = Append(port, Head(out[t]))
  /\ out' = [out EXCEPT ![t] = Tail(@)]
  /\ UNCHANGED <<prog, turn, ip, clock, heard, history>>

PushMessage(t) ==
  /\ out[t] # <<>>
  /\ Len(port) < PortAvail
  /\ port' = Append(port, Head(out[t]))
  /\ out' = [out EXCEPT ![t] = Tail(@)]
  /\ UNCHANGED <<prog, turn, ip, clock, heard, history>>

-----------------------------------------------------------------------------
(* CMD_PROGRAM, CMD_PROGRAM_BEG, _MID and _END                             *)

Started(u, op) ==
  CASE op = "program" -> [u EXCEPT !.used = 0, !.running = TRUE]
    [] op = "beg"     -> [u EXCEPT !.used = 0, !.running = FALSE]
    [] op = "mid"     -> u
    [] op = "end"     -> [u EXCEPT !.running = TRUE]

\* Mutant: the code is copied to the start of the buffer.
AppendCodeFirst(u, code) ==
  IF u.used + Len(code) > ProgramMax THEN [u EXCEPT !.running = FALSE]
  ELSE [u EXCEPT !.code = [i \in DOMAIN u.code |->
                             IF i < Len(code) THEN code[i + 1] ELSE u.code[i]],
                 !.used = u.used + Len(code)]

(* read_prog                                                               *)
AppendCode(u, code) ==
  IF u.used + Len(code) > ProgramMax THEN [u EXCEPT !.running = FALSE]
  ELSE [u EXCEPT !.code = [i \in DOMAIN u.code |->
                             IF i - u.used \in 0 .. Len(code) - 1
                             THEN code[i - u.used + 1] ELSE u.code[i]],
                 !.used = u.used + Len(code)]

ReceiveMessage ==
  LET m == Head(port)
      e == m.exec IN
  /\ turn = Idle
  /\ port # <<>>
  /\ port' = Tail(port)
  /\ prog' = [prog EXCEPT ![e] = AppendCode(Started(@, m.op), m.code)]
  /\ IF m.op \in {"program", "end"}
     THEN given' = [given EXCEPT ![e] = m.whole] /\ fresh' = fresh \cup {e}
     ELSE UNCHANGED <<given, fresh>>
  /\ UNCHANGED <<out, turn, ip, clock, heard, owed, straddles>>

-----------------------------------------------------------------------------
(* The update cycle: faun_evalProg for each unit, then the mix.            *)

\* Mutant: the frames of the coming cycle are counted too.
WaitingLess(u) == u.waitPos # 0 /\ clock + MixLen < u.waitPos

(* The unit is skipped, or its execution begins at its pc.                 *)
Waiting(u) == u.waitPos # 0 /\ clock < u.waitPos
Runs(e) == prog[e].running /\ ~Waiting(prog[e])

(* Turn to the first of units S that runs, or to the mix.                  *)
TurnTo(S) ==
  LET able == {e \in S : Runs(e)} IN
  IF able = {} THEN turn' = Mixing /\ ip' = 0
  ELSE LET e == CHOOSE e \in able : \A f \in able : e <= f
       IN turn' = e /\ ip' = prog[e].pc

Update ==
  /\ turn = Idle
  /\ TurnTo(Units)
  /\ UNCHANGED <<prog, port, out, clock, heard, history>>

(* The byte at offset i; past the code buffer, whatever follows it.        *)
ByteAt(e, i) == IF i < ProgramMax THEN {prog[e].code[i]} ELSE 0 .. 255

(* The instruction at ip is one of the given opcodes.  A wait is over.     *)
Executes(e, ops) ==
  /\ turn = e
  /\ ByteAt(e, ip) \cap ops # {}
  /\ fresh' = fresh \ {e}
  /\ UNCHANGED <<port, out, clock, given>>

(* faun_evalProg returns and leaves unit e as u; its wait, if any, is over. *)
Ran(e) == [prog[e] EXCEPT !.waitPos = 0]
Leave(e, u) ==
  /\ prog' = [prog EXCEPT ![e] = u]
  /\ TurnTo(UnitsAfter(e))

(* Its loop goes on at offset i, unless that is the end of the code.       *)
GoOn(e, i) ==
  IF i = prog[e].used
  THEN Leave(e, [Ran(e) EXCEPT !.pc = 0, !.used = 0])
  ELSE /\ prog' = [prog EXCEPT ![e] = Ran(e)]
       /\ ip' = i
       /\ UNCHANGED turn

\* Mutant: the place of the last wait is kept.
EndKeepsPc(e) ==
  /\ Executes(e, Ends)
  /\ Leave(e, [Ran(e) EXCEPT !.used = 0, !.running = FALSE])
  /\ UNCHANGED <<heard, owed, straddles>>

\* Mutant: the place of the wait is not kept.
WaitKeepsPc(e) ==
  \E n \in ByteAt(e, ip + 1) :
    LET until == (clock + n * Tenth) % Wrap IN
    /\ Executes(e, {FO_WAIT})
    /\ Leave(e, [Ran(e) EXCEPT !.waitPos = until])
    /\ owed' = [owed EXCEPT ![e] = n * Tenth]
    /\ straddles' = IF until < clock THEN straddles \cup {e} ELSE straddles \ {e}
    /\ UNCHANGED heard

\* Mutant: the operand is not skipped.
QueueShort(e) ==
  /\ Executes(e, {FO_QUEUE})
  /\ GoOn(e, ip + 1)
  /\ UNCHANGED <<heard, owed, straddles>>

(* FO_END and the opcodes that are not valid                               *)
End(e) ==
  /\ Executes(e, Ends)
  /\ Leave(e, [Ran(e) EXCEPT !.pc = 0, !.used = 0, !.running = FALSE])
  /\ UNCHANGED <<heard, owed, straddles>>

Wait(e) ==
  \E n \in ByteAt(e, ip + 1) :
    LET until == (clock + n * Tenth) % Wrap IN
    /\ Executes(e, {FO_WAIT})
    /\ Leave(e, [Ran(e) EXCEPT !.waitPos = until, !.pc = ip + 2])
    /\ owed' = [owed EXCEPT ![e] = n * Tenth]
    /\ straddles' = IF until < clock THEN straddles \cup {e} ELSE straddles \ {e}
    /\ UNCHANGED heard

Source(e) ==
  \E s \in ByteAt(e, ip + 1) :
    /\ Executes(e, {FO_SOURCE})
    /\ prog' = [prog EXCEPT ![e] = [Ran(e) EXCEPT !.si = s]]
    /\ ip' = ip + 2
    /\ UNCHANGED <<turn, heard, owed, straddles>>

(* The operand is read only when a source is selected, not a stream.       *)
Queue(e) ==
  /\ Executes(e, {FO_QUEUE})
  /\ GoOn(e, IF prog[e].si < SourceLimit THEN ip + 2 ELSE ip + 1)
  /\ UNCHANGED <<heard, owed, straddles>>

Signal(e) ==
  /\ Executes(e, {FO_SIGNAL})
  /\ heard' = heard \cup {e}
  /\ GoOn(e, ip + 1)
  /\ UNCHANGED <<owed, straddles>>

(* The other opcodes act on the selected source or stream and no more.     *)
Act(e) ==
  \E op \in FO_PLAY_BUF .. FO_COUNT - 1 :
    /\ op # FO_SIGNAL
    /\ Executes(e, {op})
    /\ GoOn(e, ip + 1 + Operands(op))
    /\ UNCHANGED <<heard, owed, straddles>>

(* The cycle is mixed and written.                                         *)
Mix ==
  /\ turn = Mixing
  /\ turn' = Idle
  /\ clock' = (clock + MixLen) % Wrap
  /\ owed' = [e \in Units |-> IF owed[e] > MixLen THEN owed[e] - MixLen ELSE 0]
  /\ UNCHANGED <<prog, port, out, ip, heard, given, fresh, straddles>>

-----------------------------------------------------------------------------

Evaluate(e) == End(e) \/ Wait(e) \/ Source(e) \/ Queue(e) \/ Signal(e) \/ Act(e)

Cycle == Update \/ (\E e \in Units : Evaluate(e)) \/ Mix

Next ==
  \/ \E e \in Units, p \in Programs : CallProgram(e, p)
  \/ \E t \in Threads : PushMessage(t)
  \/ ReceiveMessage
  \/ Cycle

Spec == Init /\ [][Next]_vars

(* The audio thread runs, and takes a message that is there before it      *)
(* looks at its deadline; a thread in faun_program goes on pushing.        *)
FairSpec ==
  /\ Spec
  /\ \A t \in Threads : SF_vars(PushMessage(t))
  /\ SF_vars(ReceiveMessage) /\ WF_vars(Cycle)

-----------------------------------------------------------------------------
(* Properties                                                              *)

Messaged == [op : {"program", "beg", "mid", "end"}, exec : Units,
             code : Seq(0 .. 255), whole : Programs, part : Nat \ {0}]

TypeOK ==
  /\ prog \in [Units -> [code : [0 .. ProgramMax - 1 -> 0 .. 255], pc : Nat,
                         used : 0 .. ProgramMax, running : BOOLEAN,
                         si : 0 .. 255, waitPos : 0 .. Wrap - 1]]
  /\ port \in Seq(Messaged) /\ Len(port) <= PortAvail
  /\ out \in [Threads -> Seq(Messaged)]
  /\ turn \in Units \cup {Idle, Mixing}
  /\ ip \in Nat
  /\ clock \in 0 .. Wrap - 1
  /\ heard \subseteq Units

(* What a unit runs is one program of one call, whole: not a part of it,   *)
(* and nothing of the messages of other threads or of the program before.  *)
RunsWholeProgram ==
  \A e \in Units :
    prog[e].running =>
      /\ prog[e].used = Len(given[e])
      /\ \A i \in 1 .. Len(given[e]) : prog[e].code[i - 1] = given[e][i]

(* Every fetch is at the beginning of an instruction of that program, by   *)
(* the operands that faun.h lists, so no operand is taken for an opcode.   *)
FetchesInstructions == turn \in Units => ip \in Starts[given[turn]]

(* faun_program: "Any currently running program on the execution unit will *)
(* be halted and replaced."  A program that was loaded and has not run yet *)
(* will begin at its beginning, and at once.                               *)
BeginsAtBeginning == \A e \in fresh : prog[e].pc = 0 /\ prog[e].waitPos = 0

(* A FO_WAIT whose waitPos does not wrap lets its whole time pass.         *)
WaitHolds == turn \in Units \ straddles => owed[turn] = 0

(* A program that is not replaced comes to its end, through its waits and  *)
(* the wrapping of the clock.                                              *)
ProgramEnds == \A e \in Units : prog[e].running ~> ~prog[e].running

=============================================================================
