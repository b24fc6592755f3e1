------------------------- MODULE FaunProgram_proofs -------------------------
(***************************************************************************)
(* Proofs about FaunProgram.                                               *)
(***************************************************************************)
EXTENDS FaunProgram, SequenceTheorems, WellFoundedInduction, TLAPS

UnitType == [code : [0 .. ProgramMax - 1 -> 0 .. 255], pc : Nat,
             used : 0 .. ProgramMax, running : BOOLEAN,
             si : 0 .. 255, waitPos : 0 .. Wrap - 1]

(* Every thread has at most one program out, for a unit it owns.           *)
Owned ==
  \A t \in Threads : \A i \in 1 .. Len(out[t]) :
    Owner[out[t][i].exec] = t /\ out[t][i].exec = out[t][1].exec

(* The first n bytes of p are in the code buffer of unit e.                *)
Matches(e, p, n) ==
  /\ prog[e].used = n
  /\ \A i \in 1 .. n : prog[e].code[i - 1] = p[i]

(* A unit, as the audio thread finds it.                                   *)
UnitSound(e) ==
  /\ prog[e].si < SourceLimit
  /\ IF prog[e].running
     THEN /\ given[e] \in Programs
          /\ Matches(e, given[e], Len(given[e]))
          /\ prog[e].pc \in Starts[given[e]]
          /\ e \in heard => turn = e
     ELSE prog[e].pc = 0 /\ prog[e].waitPos = 0
  /\ turn = e => /\ prog[e].running
                 /\ ip \in Starts[given[e]]
                 /\ e \in heard => given[e][ip + 1] \in Ends
  /\ e \in fresh => /\ prog[e].running /\ e \notin heard
                    /\ prog[e].pc = 0 /\ prog[e].waitPos = 0

NMessages(p) == (Len(p) + PayloadMax - 1) \div PayloadMax

(* Of the program p sent to unit e, the messages from the one after k up   *)
(* to the one before q are in the port, in order ...                       *)
InPort(e, p, k, q) ==
  /\ \A j \in 1 .. Len(port) : port[j].exec = e =>
       port[j].part \in k + 1 .. q - 1 /\ port[j] = Messages(e, p)[port[j].part]
  /\ \A i, j \in 1 .. Len(port) :
       i < j /\ port[i].exec = e /\ port[j].exec = e => port[i].part < port[j].part
  /\ \A r \in k + 1 .. q - 1 :
       \E j \in 1 .. Len(port) : port[j].exec = e /\ port[j].part = r

(* ... and the others, from q on, with its thread.                         *)
NotOut(e) == \A i \in 1 .. Len(out[Owner[e]]) : out[Owner[e]][i].exec # e
InOut(e, p, q) ==
  IF q > NMessages(p) THEN NotOut(e)
  ELSE /\ Len(out[Owner[e]]) = NMessages(p) - q + 1
       /\ \A i \in 1 .. Len(out[Owner[e]]) :
            out[Owner[e]][i] = Messages(e, p)[q + i - 1]

(* Nothing for unit e is on its way, or one program of which it has k      *)
(* messages.  The program before is over, but for its last instruction.    *)
Quiet(e) == NotOut(e) /\ \A j \in 1 .. Len(port) : port[j].exec # e
Sending(e, p, k, q) ==
  /\ Len(p) <= ProgramMax
  /\ e \notin heard \cup fresh
  /\ InPort(e, p, k, q) /\ InOut(e, p, q)
  /\ k > 0 => ~prog[e].running /\ Matches(e, p, k * PayloadMax)
  /\ prog[e].running => turn = e /\ given[e][ip + 1] \in Ends
Sent(e) ==
  \/ Quiet(e)
  \/ \E p \in Programs : \E k \in 0 .. NMessages(p) - 1 :
     \E q \in k + 1 .. NMessages(p) + 1 : Sending(e, p, k, q)

ProgramInv == Owned /\ \A e \in Units : UnitSound(e) /\ Sent(e)

(* A wait that has frames left, and does not straddle the wrapping of the  *)
(* clock, ends no sooner than those.                                       *)
WaitInv ==
  \A e \in Units \ straddles :
    /\ owed[e] > 0 => prog[e].waitPos >= clock + owed[e]
    /\ turn = e => owed[e] = 0

HistoryOK ==
  /\ given \in [Units -> Programs \cup {<<>>}]
  /\ fresh \subseteq Units
  /\ owed \in [Units -> Nat]
  /\ straddles \subseteq Units

Typed == TypeOK /\ HistoryOK

-----------------------------------------------------------------------------
(* Lemmas on the operators                                                 *)

(* A set of natural numbers that is not empty has a least element.         *)
LEMMA Least ==
  ASSUME NEW S \in SUBSET Nat, S # {}
  PROVE  \E m \in S : \A n \in S : m <= n
<1> DEFINE R == OpToRel(<, Nat)
<1>1. IsWellFoundedOn(R, Nat)
  BY NatLessThanWellFounded
<1>2. \A m, n \in Nat : m < n => <<m, n>> \in R
  BY DEF OpToRel
<1> HIDE DEF R
<1>3. PICK m \in S : \A n \in S : ~(<<n, m>> \in R)
  BY <1>1, WFMin
<1>4. \A n \in S : m <= n
  <2> TAKE n \in S
  <2>1. m \in Nat /\ n \in Nat
    OBVIOUS
  <2>2. ~(n < m)
    BY <1>2, <1>3, <2>1
  <2> QED BY <2>1, <2>2
<1> QED BY <1>4

(* The turn goes to a unit of S that runs, at its pc, or to the mix.       *)
LEMMA TurnsTo ==
  ASSUME NEW S \in SUBSET Units, TurnTo(S)
  PROVE  \/ turn' = Mixing /\ ip' = 0
         \/ turn' \in S /\ Runs(turn') /\ ip' = prog[turn'].pc
<1> DEFINE able == {e \in S : Runs(e)}
<1>1. CASE able = {}
  BY <1>1 DEF TurnTo
<1>2. CASE able # {}
  <2>1. able \in SUBSET Nat
    BY ProgramAssumption
  <2>2. \E m \in able : \A n \in able : m <= n
    BY <1>2, <2>1, Least
  <2> DEFINE e == CHOOSE e \in able : \A f \in able : e <= f
  <2>3. e \in able
    BY <2>2
  <2>4. turn' = e /\ ip' = prog[e].pc
    BY <1>2 DEF TurnTo
  <2> QED BY <2>3, <2>4
<1> QED BY <1>1, <1>2

(* There are units and the two values that are none.                       *)
LEMMA UnitsAreNaturals == Units \subseteq Nat /\ Idle \notin Units /\ Mixing \notin Units
BY ProgramAssumption DEF Idle, Mixing

(* What the code buffer holds, or what follows it, is a byte.              *)
LEMMA BytesFetched ==
  ASSUME TypeOK, NEW e \in Units, NEW i \in Nat
  PROVE  ByteAt(e, i) \subseteq 0 .. 255
<1>1. CASE i < ProgramMax
  <2>1. i \in 0 .. ProgramMax - 1
    BY <1>1, ProgramAssumption
  <2>2. prog[e] \in UnitType
    BY DEF TypeOK, UnitType
  <2>3. prog[e].code[i] \in 0 .. 255
    BY <2>1, <2>2 DEF UnitType
  <2> QED BY <1>1, <2>3 DEF ByteAt
<1>2. CASE ~(i < ProgramMax)
  BY <1>2 DEF ByteAt
<1> QED BY <1>1, <1>2

LEMMA OperandsAre == \A op : Operands(op) \in 0 .. 2
BY DEF Operands

(* The clock is a uint32_t.                                                *)
LEMMA Wraps == \A n \in Nat : n % Wrap \in 0 .. Wrap - 1
BY ProgramAssumption

-----------------------------------------------------------------------------
(* The messages of a program                                               *)

(* The program is cut in parts that are full, but for the last one.        *)
LEMMA Cut ==
  ASSUME NEW p \in Programs, p # <<>>
  PROVE  /\ Len(p) \in Nat \ {0} /\ NMessages(p) \in Nat \ {0}
         /\ (NMessages(p) - 1) * PayloadMax < Len(p)
         /\ Len(p) <= NMessages(p) * PayloadMax
<1>1. p \in Seq(0 .. 255) /\ PayloadMax \in Nat \ {0}
  BY ProgramAssumption
<1>2. PICK L \in Nat \ {0} : L = Len(p)
  BY <1>1
<1>3. PICK P \in Nat \ {0} : P = PayloadMax
  BY <1>1
<1>4. PICK x \in Nat : x = L + P - 1
  OBVIOUS
<1>5. x \div P \in Nat /\ x = P * (x \div P) + (x % P) /\ x % P \in 0 .. P - 1
  OBVIOUS
<1>6. PICK n \in Nat : n = NMessages(p)
  BY <1>2, <1>3, <1>4, <1>5 DEF NMessages
<1>7. n = x \div P
  BY <1>2, <1>3, <1>4, <1>6 DEF NMessages
<1>8. x < P * n + P /\ x >= P * n
  BY <1>5, <1>7
<1>9. L <= n * P /\ n # 0
  BY <1>8, <1>4
<1>10. (n - 1) * P < L
  <2>1. (n - 1) * P = P * n - P
    BY <1>9
  <2> QED BY <1>8, <1>4, <2>1
<1> QED BY <1>2, <1>3, <1>6, <1>9, <1>10

(* What message number i of program p says, and the bytes it carries.      *)
IsPart(m, e, p, i) ==
  /\ m \in Messaged /\ m.exec = e /\ m.whole = p /\ m.part = i
  /\ m.op = IF i = 1 THEN IF NMessages(p) = 1 THEN "program" ELSE "beg"
            ELSE IF NMessages(p) = i THEN "end" ELSE "mid"
  /\ (i - 1) * PayloadMax \in Nat
  /\ (i - 1) * PayloadMax + Len(m.code) =
       IF NMessages(p) = i THEN Len(p) ELSE i * PayloadMax
  /\ (i - 1) * PayloadMax + Len(m.code) <= Len(p)
  /\ \A j \in 1 .. Len(m.code) : m.code[j] = p[(i - 1) * PayloadMax + j]

LEMMA MessagesAre ==
  ASSUME NEW e \in Units, NEW p \in Programs, p # <<>>
  PROVE  /\ Messages(e, p) \in Seq(Messaged)
         /\ Len(Messages(e, p)) = NMessages(p)
         /\ \A i \in 1 .. NMessages(p) : IsPart(Messages(e, p)[i], e, p, i)
<1>1. PICK P \in Nat \ {0} : P = PayloadMax
  BY ProgramAssumption
<1>2. p \in Seq(0 .. 255)
  BY ProgramAssumption
<1>3. PICK L \in Nat \ {0} : L = Len(p)
  BY Cut
<1>4. PICK n \in Nat \ {0} : n = NMessages(p)
  BY Cut
<1>5. (n - 1) * P < L /\ L <= n * P
  BY <1>1, <1>3, <1>4, Cut
<1> DEFINE Clen(i) == IF i = n THEN L - (n - 1) * P ELSE P
           Op(i) == IF i = 1 THEN (IF n = 1 THEN "program" ELSE "beg")
                             ELSE (IF i = n THEN "end" ELSE "mid")
           M == [i \in 1 .. n |-> [op |-> Op(i), exec |-> e,
                        code |-> Bytes(p, (i - 1) * P, Clen(i)),
                        whole |-> p, part |-> i]]
<1>6. Messages(e, p) = M
  BY <1>1, <1>3, <1>4 DEF Messages, NMessages
<1>7. ASSUME NEW i \in 1 .. n
      PROVE  /\ (i - 1) * P \in Nat
             /\ Clen(i) \in Nat /\ (i - 1) * P + Clen(i) <= L
             /\ i # n => (i - 1) * P + Clen(i) = i * P
  <2>1. CASE i = n
    <3>1. (n - 1) * P \in Nat
      OBVIOUS
    <3> QED BY <2>1, <3>1, <1>5
  <2>2. CASE i # n
    <3>1. PICK d \in Nat : n - 1 = i + d
      BY <2>2
    <3>2. (n - 1) * P = i * P + d * P /\ i * P \in Nat /\ d * P \in Nat
      BY <3>1
    <3>3. (i - 1) * P = i * P - P /\ (i - 1) * P \in Nat
      OBVIOUS
    <3> QED BY <2>2, <3>2, <3>3, <1>5
  <2> QED BY <2>1, <2>2
<1> DEFINE C(i) == Bytes(p, (i - 1) * P, Clen(i))
<1>8. ASSUME NEW i \in 1 .. n
      PROVE  /\ C(i) \in Seq(0 .. 255) /\ Len(C(i)) = Clen(i)
             /\ \A j \in 1 .. Clen(i) : C(i)[j] = p[(i - 1) * P + j]
  <2> HIDE DEF Clen
  <2>1. PICK f \in Nat : f = (i - 1) * P
    BY <1>7
  <2>2. PICK c \in Nat : c = Clen(i)
    BY <1>7
  <2>3. f + c <= L
    BY <1>7, <2>1, <2>2
  <2>4. C(i) = SubSeq(p, f + 1, f + c)
    BY <2>1, <2>2 DEF Bytes
  <2>5. ASSUME NEW j \in f + 1 .. f + c PROVE p[j] \in 0 .. 255
    <3>1. j \in 1 .. L
      BY <2>3
    <3> QED BY <3>1, <1>2, <1>3
  <2>6. /\ SubSeq(p, f + 1, f + c) \in Seq(0 .. 255)
        /\ Len(SubSeq(p, f + 1, f + c)) = IF f + 1 <= f + c THEN f + c - (f + 1) + 1 ELSE 0
        /\ \A j \in 1 .. f + c - (f + 1) + 1 : SubSeq(p, f + 1, f + c)[j] = p[f + 1 + j - 1]
    BY <2>5, SubSeqProperties
  <2>7. f + c - (f + 1) + 1 = c /\ \A j \in 1 .. c : f + 1 + j - 1 = f + j
    OBVIOUS
  <2>8. /\ SubSeq(p, f + 1, f + c) \in Seq(0 .. 255)
        /\ Len(SubSeq(p, f + 1, f + c)) = c
        /\ \A j \in 1 .. c : SubSeq(p, f + 1, f + c)[j] = p[f + j]
    BY <2>6, <2>7
  <2> HIDE DEF C
  <2> QED BY <2>1, <2>2, <2>4, <2>8
<1> HIDE DEF C, Clen
<1>9. \A i \in 1 .. n : Op(i) \in {"program", "beg", "mid", "end"}
  OBVIOUS
<1>10. M = [i \in 1 .. n |-> [op |-> Op(i), exec |-> e, code |-> C(i),
                             whole |-> p, part |-> i]]
  BY DEF C
<1> HIDE DEF Op
<1>11. ASSUME NEW i \in 1 .. n
       PROVE  /\ M[i].exec = e /\ M[i].whole = p /\ M[i].part = i
              /\ M[i].op = Op(i) /\ M[i].code = C(i) /\ M[i] \in Messaged
  <2>1. PICK c : c = C(i)
    OBVIOUS
  <2>2. PICK o : o = Op(i)
    OBVIOUS
  <2>3. M[i] = [op |-> o, exec |-> e, code |-> c, whole |-> p, part |-> i]
    BY <1>10, <2>1, <2>2
  <2>4. c \in Seq(0 .. 255) /\ o \in {"program", "beg", "mid", "end"}
    BY <1>8, <1>9, <2>1, <2>2
  <2>5. i \in Nat \ {0}
    OBVIOUS
  <2> HIDE DEF M
  <2>6. M[i] \in Messaged
    BY <2>3, <2>4, <2>5 DEF Messaged
  <2> QED BY <2>1, <2>2, <2>3, <2>6
<1>12. M = [i \in 1 .. n |-> M[i]]
  BY <1>10
<1> HIDE DEF M
<1>13. M \in Seq(Messaged) /\ Len(M) = n /\ DOMAIN M = 1 .. n
  BY <1>11, <1>12
<1>14. ASSUME NEW i \in 1 .. n
       PROVE  IsPart(M[i], e, p, i)
  <2>1. PICK f \in Nat : f = (i - 1) * P
    BY <1>7
  <2>2. PICK c \in Nat : c = Clen(i)
    BY <1>7
  <2>3. f + c = (IF i = n THEN L ELSE i * P) /\ f + c <= L
    BY <1>7, <2>1, <2>2 DEF Clen
  <2>4. PICK m : m = M[i]
    OBVIOUS
  <2>5. Len(m.code) = c /\ \A j \in 1 .. c : m.code[j] = p[f + j]
    BY <1>8, <1>11, <2>1, <2>2, <2>4
  <2>6. /\ m \in Messaged /\ m.exec = e /\ m.whole = p /\ m.part = i
        /\ m.op = IF i = 1 THEN IF n = 1 THEN "program" ELSE "beg"
                  ELSE IF n = i THEN "end" ELSE "mid"
    BY <1>11, <2>4 DEF Op
  <2>7. IsPart(m, e, p, i)
    BY <1>1, <1>3, <1>4, <2>1, <2>3, <2>5, <2>6 DEF IsPart
  <2> QED BY <2>4, <2>7
<1> QED BY <1>4, <1>6, <1>13, <1>14

(* The offsets of the instructions of a program.                           *)
LEMMA StartsAre ==
  ASSUME NEW p \in Programs, p # <<>>
  PROVE  /\ Starts[p] \subseteq 0 .. Len(p) - 1
         /\ 0 \in Starts[p]
         /\ \A i \in Starts[p] : After(p, i) < Len(p) => After(p, i) \in Starts[p]
<1> DEFINE St == {i \in Offsets(p) : \A S \in SUBSET Offsets(p) : Follows(p, S) => i \in S}
<1>1. Starts[p] = St
  BY DEF Starts
<1>2. 0 \in Offsets(p)
  <2>1. Len(p) \in Nat \ {0}
    BY Cut
  <2> QED BY <2>1 DEF Offsets
<1>3. 0 \in St
  BY <1>2 DEF Follows
<1>4. ASSUME NEW i \in St, After(p, i) < Len(p)
      PROVE  After(p, i) \in St
  <2>1. After(p, i) \in Offsets(p)
    <3>1. PICK d \in 0 .. 2 : d = Operands(p[i + 1])
      BY OperandsAre
    <3>2. Len(p) \in Nat /\ i \in 0 .. Len(p) - 1
      BY Cut DEF Offsets
    <3> QED BY <3>1, <3>2, <1>4 DEF After, Offsets
  <2>2. \A S \in SUBSET Offsets(p) : Follows(p, S) => After(p, i) \in S
    BY <1>4 DEF Follows
  <2> QED BY <2>1, <2>2
<1>5. St \subseteq 0 .. Len(p) - 1
  BY DEF Offsets
<1> QED BY <1>1, <1>3, <1>4, <1>5

-----------------------------------------------------------------------------
(* Type correctness                                                        *)

LEMMA UnitsTyped == ASSUME TypeOK, NEW e \in Units PROVE prog[e] \in UnitType
BY DEF TypeOK, UnitType

LEMMA RanTyped == ASSUME TypeOK, NEW e \in Units PROVE Ran(e) \in UnitType
<1>1. prog[e] \in UnitType /\ 0 \in 0 .. Wrap - 1
  BY UnitsTyped, ProgramAssumption
<1> QED BY <1>1 DEF Ran, UnitType

(* faun_evalProg returns, or goes on.                                      *)
LEMMA LeaveTyped ==
  ASSUME TypeOK, NEW e \in Units, NEW u \in UnitType, Leave(e, u)
  PROVE  prog' \in [Units -> UnitType] /\ turn' \in Units \cup {Mixing} /\ ip' \in Nat
<1>1. prog \in [Units -> UnitType]
  BY DEF TypeOK, UnitType
<1>2. prog' \in [Units -> UnitType]
  BY <1>1 DEF Leave
<1>3. UnitsAfter(e) \in SUBSET Units /\ TurnTo(UnitsAfter(e))
  BY DEF Leave, UnitsAfter
<1>4. turn' \in Units \cup {Mixing} /\ ip' \in Nat
  <2>1. CASE turn' = Mixing /\ ip' = 0
    BY <2>1
  <2>2. CASE turn' \in UnitsAfter(e) /\ ip' = prog[turn'].pc
    BY <2>2, <1>1, <1>3 DEF UnitType
  <2> QED BY <1>3, <2>1, <2>2, TurnsTo
<1> QED BY <1>2, <1>4

LEMMA GoOnTyped ==
  ASSUME TypeOK, NEW e \in Units, NEW i \in Nat, turn = e, GoOn(e, i)
  PROVE  prog' \in [Units -> UnitType] /\ turn' \in Units \cup {Mixing} /\ ip' \in Nat
<1>1. Ran(e) \in UnitType
  BY RanTyped
<1>2. CASE i = prog[e].used
  <2>1. PICK u \in UnitType : u = Ran(e)
    BY <1>1
  <2>2. [u EXCEPT !.pc = 0, !.used = 0] \in UnitType
    <3>1. 0 \in 0 .. ProgramMax
      BY ProgramAssumption
    <3> QED BY <3>1 DEF UnitType
  <2> QED BY <1>2, <2>1, <2>2, LeaveTyped DEF GoOn
<1>3. CASE i # prog[e].used
  <2>1. prog \in [Units -> UnitType]
    BY DEF TypeOK, UnitType
  <2> QED BY <1>1, <1>3, <2>1 DEF GoOn
<1> QED BY <1>2, <1>3

(* What a message does to a unit: the operation ...                        *)
LEMMA StartedIs ==
  ASSUME NEW u \in UnitType, NEW op \in {"program", "beg", "mid", "end"}
  PROVE  LET v == Started(u, op) IN
         /\ v \in UnitType
         /\ v.pc = u.pc /\ v.waitPos = u.waitPos /\ v.si = u.si /\ v.code = u.code
         /\ v.used = IF op \in {"program", "beg"} THEN 0 ELSE u.used
         /\ v.running = IF op = "mid" THEN u.running ELSE op # "beg"
<1>1. 0 \in 0 .. ProgramMax
  BY ProgramAssumption
<1>2. PICK v : v = Started(u, op)
  OBVIOUS
<1> DEFINE Is(used, running) ==
      /\ v \in UnitType
      /\ v.pc = u.pc /\ v.waitPos = u.waitPos /\ v.si = u.si /\ v.code = u.code
      /\ v.used = used /\ v.running = running
<1>3. CASE op = "program"
  <2>1. v = [u EXCEPT !.used = 0, !.running = TRUE]
    BY <1>2, <1>3 DEF Started
  <2>2. Is(0, TRUE)
    BY <1>1, <2>1 DEF UnitType
  <2> HIDE DEF Is
  <2> QED BY <1>2, <1>3, <2>2 DEF Is
<1>4. CASE op = "beg"
  <2>1. v = [u EXCEPT !.used = 0, !.running = FALSE]
    BY <1>2, <1>4 DEF Started
  <2>2. Is(0, FALSE)
    BY <1>1, <2>1 DEF UnitType
  <2> HIDE DEF Is
  <2> QED BY <1>2, <1>4, <2>2 DEF Is
<1>5. CASE op = "mid"
  <2>1. v = u
    BY <1>2, <1>5 DEF Started
  <2> QED BY <1>2, <1>5, <2>1
<1>6. CASE op = "end"
  <2>1. v = [u EXCEPT !.running = TRUE]
    BY <1>2, <1>6 DEF Started
  <2>2. Is(u.used, TRUE)
    BY <2>1 DEF UnitType
  <2> HIDE DEF Is
  <2> QED BY <1>2, <1>6, <2>2 DEF Is
<1> QED BY <1>3, <1>4, <1>5, <1>6

(* ... and the code it carries.                                            *)
LEMMA AppendIs ==
  ASSUME NEW v \in UnitType, NEW c \in Seq(0 .. 255)
  PROVE  LET w == AppendCode(v, c) IN
         /\ w \in UnitType
         /\ w.pc = v.pc /\ w.waitPos = v.waitPos /\ w.si = v.si
         /\ v.used + Len(c) <= ProgramMax =>
              /\ w.running = v.running /\ w.used = v.used + Len(c)
              /\ \A i \in 0 .. v.used - 1 : w.code[i] = v.code[i]
              /\ \A j \in 1 .. Len(c) : w.code[v.used + j - 1] = c[j]
<1>0. PICK w : w = AppendCode(v, c)
  OBVIOUS
<1>1. CASE v.used + Len(c) > ProgramMax
  <2>1. w = [v EXCEPT !.running = FALSE]
    BY <1>0, <1>1 DEF AppendCode
  <2>2. PICK n \in Nat : n = v.used + Len(c)
    BY DEF UnitType
  <2>3. ~(v.used + Len(c) <= ProgramMax)
    BY <1>1, <2>2, ProgramAssumption
  <2>4. w \in UnitType /\ w.pc = v.pc /\ w.waitPos = v.waitPos /\ w.si = v.si
    BY <2>1 DEF UnitType
  <2> QED BY <1>0, <2>3, <2>4
<1>2. CASE ~(v.used + Len(c) > ProgramMax)
  <2>1. /\ v.used \in 0 .. ProgramMax /\ v.code \in [0 .. ProgramMax - 1 -> 0 .. 255]
        /\ DOMAIN v.code = 0 .. ProgramMax - 1
    BY DEF UnitType
  <2> DEFINE code == [i \in 0 .. ProgramMax - 1 |->
                        IF i - v.used \in 0 .. Len(c) - 1
                        THEN c[i - v.used + 1] ELSE v.code[i]]
  <2>2. PICK n \in 0 .. ProgramMax : n = v.used
    BY <2>1
  <2>3. n + Len(c) <= ProgramMax /\ Len(c) \in Nat
    BY <1>2, <2>2, ProgramAssumption
  <2>4. code = [i \in 0 .. ProgramMax - 1 |->
                  IF i - n \in 0 .. Len(c) - 1 THEN c[i - n + 1] ELSE v.code[i]]
    BY <2>2
  <2>5. w = [v EXCEPT !.code = code, !.used = n + Len(c)]
    BY <1>0, <1>2, <2>1, <2>2 DEF AppendCode
  <2> HIDE DEF code
  <2>6. ASSUME NEW j \in 1 .. Len(c)
        PROVE  code[n + j - 1] = c[j] /\ n + j - 1 \in 0 .. ProgramMax - 1
    <3>1. PICK i \in 0 .. ProgramMax - 1 : i = n + j - 1
      BY <2>3, ProgramAssumption
    <3>2. i - n \in 0 .. Len(c) - 1 /\ i - n + 1 = j
      BY <3>1, <2>3
    <3> QED BY <3>1, <3>2, <2>4
  <2>7. ASSUME NEW i \in 0 .. ProgramMax - 1, ~(i - n \in 0 .. Len(c) - 1)
        PROVE  code[i] = v.code[i]
    BY <2>4, <2>7
  <2>8. ASSUME NEW i \in 0 .. n - 1
        PROVE  code[i] = v.code[i]
    <3>1. i \in 0 .. ProgramMax - 1 /\ ~(i - n \in 0 .. Len(c) - 1)
      BY ProgramAssumption
    <3> QED BY <3>1, <2>7
  <2>9. ASSUME NEW i \in 0 .. ProgramMax - 1
        PROVE  code[i] \in 0 .. 255
    <3>1. CASE i - n \in 0 .. Len(c) - 1
      <4>1. PICK j \in 1 .. Len(c) : j = i - n + 1 /\ i = n + j - 1
        BY <3>1, <2>3
      <4>2. c[j] \in 0 .. 255
        BY ElementOfSeq
      <4>3. code[n + j - 1] = c[j]
        BY <2>6
      <4> QED BY <4>1, <4>2, <4>3
    <3>2. CASE ~(i - n \in 0 .. Len(c) - 1)
      <4>1. code[i] = v.code[i]
        BY <3>2, <2>7
      <4>2. v.code[i] \in 0 .. 255
        BY <2>1
      <4> QED BY <4>1, <4>2
    <3> QED BY <3>1, <3>2
  <2>10. code \in [0 .. ProgramMax - 1 -> 0 .. 255]
    BY <2>4, <2>9 DEF code
  <2>11. n + Len(c) \in 0 .. ProgramMax
    BY <2>3, ProgramAssumption
  <2>12. PICK L \in 0 .. ProgramMax, cd \in [0 .. ProgramMax - 1 -> 0 .. 255] :
           L = n + Len(c) /\ cd = code
    BY <2>10, <2>11
  <2>13. w = [v EXCEPT !.code = cd, !.used = L]
    BY <2>5, <2>12
  <2>14. /\ w \in UnitType /\ w.pc = v.pc /\ w.waitPos = v.waitPos /\ w.si = v.si
         /\ w.running = v.running /\ w.used = L /\ w.code = cd
    BY <2>13 DEF UnitType
  <2> QED BY <1>0, <2>2, <2>6, <2>8, <2>12, <2>14
<1> QED BY <1>1, <1>2

LEMMA AppendTyped ==
  ASSUME NEW u \in UnitType, NEW m \in Messaged
  PROVE  /\ AppendCode(Started(u, m.op), m.code) \in UnitType
         /\ AppendCode(Started(u, m.op), m.code).waitPos = u.waitPos
<1>1. m.op \in {"program", "beg", "mid", "end"} /\ m.code \in Seq(0 .. 255)
  BY DEF Messaged
<1>2. Started(u, m.op) \in UnitType /\ Started(u, m.op).waitPos = u.waitPos
  BY <1>1, StartedIs
<1> QED BY <1>1, <1>2, AppendIs

(* What every instruction of unit e does and does not.                     *)
LEMMA Executed ==
  ASSUME NEW e \in Units, Evaluate(e)
  PROVE  /\ turn = e /\ fresh' = fresh \ {e}
         /\ UNCHANGED <<port, out, clock, given>>
<1> USE DEF Executes
<1>1. CASE End(e)
  BY <1>1 DEF End
<1>2. CASE Wait(e)
  BY <1>2 DEF Wait
<1>3. CASE Source(e)
  BY <1>3 DEF Source
<1>4. CASE Queue(e)
  BY <1>4 DEF Queue
<1>5. CASE Signal(e)
  BY <1>5 DEF Signal
<1>6. CASE Act(e)
  BY <1>6 DEF Act
<1> QED BY <1>1, <1>2, <1>3, <1>4, <1>5, <1>6 DEF Evaluate

(* Each step preserves the types of what the program has and of the history. *)
LEMMA TypedStep == Typed /\ [Next]_vars => Typed'
<1> SUFFICES ASSUME Typed, [Next]_vars PROVE Typed'
  OBVIOUS
<1> USE DEF Typed
<1>1. /\ prog \in [Units -> UnitType] /\ turn \in Units \cup {Idle, Mixing}
      /\ out \in [Threads -> Seq(Messaged)] /\ port \in Seq(Messaged)
  BY DEF TypeOK, UnitType
<1>2. ASSUME NEW e \in Units, NEW p \in Programs, CallProgram(e, p)
      PROVE  Typed'
  <2>1. Owner[e] \in Threads
    BY DEF Threads
  <2>2. p # <<>>
    BY ProgramsAreCode DEF WellFormed
  <2>3. Messages(e, p) \in Seq(Messaged)
    BY <2>2, MessagesAre
  <2>4. out' \in [Threads -> Seq(Messaged)]
    BY <1>1, <1>2, <2>1, <2>3 DEF CallProgram
  <2>5. heard' \subseteq Units
    BY <1>2 DEF CallProgram, TypeOK
  <2> QED BY <1>2, <2>4, <2>5 DEF CallProgram, TypeOK, HistoryOK, history
<1>3. ASSUME NEW t \in Threads, PushMessage(t)
      PROVE  Typed'
  <2>1. out[t] \in Seq(Messaged) /\ out[t] # <<>>
    BY <1>1, <1>3 DEF PushMessage
  <2>2. Head(out[t]) \in Messaged /\ Tail(out[t]) \in Seq(Messaged)
    BY <2>1
  <2>3. out' \in [Threads -> Seq(Messaged)]
    BY <1>1, <1>3, <2>2 DEF PushMessage
  <2>4. port' \in Seq(Messaged) /\ Len(port') <= PortAvail
    BY <1>1, <1>3, <2>2, ProgramAssumption DEF PushMessage
  <2> QED BY <1>3, <2>3, <2>4 DEF PushMessage, TypeOK, HistoryOK, history
<1>4. CASE ReceiveMessage
  <2>1. PICK m \in Messaged : m = Head(port)
    BY <1>1, <1>4 DEF ReceiveMessage
  <2>2. m.exec \in Units /\ m.whole \in Programs
    BY DEF Messaged
  <2>3. AppendCode(Started(prog[m.exec], m.op), m.code) \in UnitType
    BY <1>1, <2>2, AppendTyped
  <2>4. prog' \in [Units -> UnitType]
    BY <1>1, <1>4, <2>1, <2>2, <2>3 DEF ReceiveMessage
  <2>5. port' \in Seq(Messaged) /\ Len(port') <= PortAvail
    BY <1>1, <1>4, ProgramAssumption DEF ReceiveMessage, TypeOK
  <2>6. given' \in [Units -> Programs \cup {<<>>}] /\ fresh' \subseteq Units
    <3>1. \/ given' = [given EXCEPT ![m.exec] = m.whole] /\ fresh' = fresh \cup {m.exec}
          \/ UNCHANGED <<given, fresh>>
      BY <1>4, <2>1 DEF ReceiveMessage
    <3> QED BY <2>2, <3>1 DEF HistoryOK
  <2> QED BY <1>4, <2>4, <2>5, <2>6 DEF ReceiveMessage, TypeOK, HistoryOK, UnitType
<1>5. CASE Update
  <2>1. TurnTo(Units)
    BY <1>5 DEF Update
  <2>2. turn' \in Units \cup {Mixing} /\ ip' \in Nat
    <3>1. CASE turn' \in Units /\ ip' = prog[turn'].pc
      BY <3>1, <1>1 DEF UnitType
    <3> QED BY <2>1, <3>1, TurnsTo
  <2> QED BY <1>5, <2>2 DEF Update, TypeOK, HistoryOK, history
<1>6. ASSUME NEW e \in Units, Evaluate(e)
      PROVE  Typed'
  <2>1. /\ turn = e /\ fresh' = fresh \ {e}
        /\ UNCHANGED <<port, out, clock, given>>
    BY <1>6, Executed
  <2>2. ip \in Nat /\ ip + 1 \in Nat /\ ip + 2 \in Nat
    BY DEF TypeOK
  <2>3. PICK u \in UnitType : u = Ran(e)
    BY RanTyped
  <2> DEFINE Control == prog' \in [Units -> UnitType]
                        /\ turn' \in Units \cup {Mixing} /\ ip' \in Nat
             Kept    == UNCHANGED <<heard, owed, straddles>>
  <2>4. ASSUME Control, heard' \subseteq Units, owed' \in [Units -> Nat],
               straddles' \subseteq Units
        PROVE  Typed'
    BY <2>1, <2>4 DEF TypeOK, HistoryOK, UnitType
  <2>5. ASSUME Control, Kept
        PROVE  Typed'
    BY <2>4, <2>5 DEF TypeOK, HistoryOK
  <2> HIDE DEF Control
  <2>6. CASE End(e)
    <3>1. [u EXCEPT !.pc = 0, !.used = 0, !.running = FALSE] \in UnitType
      <4>1. 0 \in 0 .. ProgramMax
        BY ProgramAssumption
      <4> QED BY <4>1 DEF UnitType
    <3>2. Control
      BY <2>3, <2>6, <3>1, LeaveTyped DEF End, Control
    <3> QED BY <2>5, <2>6, <3>2 DEF End
  <2>7. CASE Wait(e)
    <3>1. PICK n \in ByteAt(e, ip + 1) :
            LET until == (clock + n * Tenth) % Wrap IN
            /\ Executes(e, {FO_WAIT})
            /\ Leave(e, [Ran(e) EXCEPT !.waitPos = until, !.pc = ip + 2])
            /\ owed' = [owed EXCEPT ![e] = n * Tenth]
            /\ straddles' = IF until < clock THEN straddles \cup {e} ELSE straddles \ {e}
            /\ UNCHANGED heard
      BY ONLY <2>7, Zenon DEF Wait
    <3>2. n \in 0 .. 255
      BY <2>2, <3>1, BytesFetched
    <3>3. n * Tenth \in Nat /\ clock + n * Tenth \in Nat
      <4>1. Tenth \in Nat /\ clock \in Nat /\ n \in Nat
        BY <3>2, ProgramAssumption DEF TypeOK
      <4>2. n * Tenth \in Nat
        BY <4>1
      <4> QED BY <4>1, <4>2
    <3>4. PICK w \in 0 .. Wrap - 1 : w = (clock + n * Tenth) % Wrap
      BY <3>3, Wraps
    <3>5. [u EXCEPT !.waitPos = w, !.pc = ip + 2] \in UnitType
      BY <2>2 DEF UnitType
    <3>6. Control
      BY <2>3, <3>1, <3>4, <3>5, LeaveTyped DEF Control
    <3> QED BY <2>4, <3>1, <3>3, <3>6 DEF TypeOK, HistoryOK
  <2>8. CASE Source(e)
    <3>1. PICK s \in ByteAt(e, ip + 1) :
            /\ prog' = [prog EXCEPT ![e] = [Ran(e) EXCEPT !.si = s]]
            /\ ip' = ip + 2 /\ Kept /\ UNCHANGED turn
      BY <2>8 DEF Source
    <3>2. s \in 0 .. 255
      BY <2>2, <3>1, BytesFetched
    <3>3. [u EXCEPT !.si = s] \in UnitType
      BY <3>2 DEF UnitType
    <3>4. Control
      BY <1>1, <2>1, <2>2, <2>3, <3>1, <3>3 DEF Control
    <3> QED BY <2>5, <3>1, <3>4
  <2>9. CASE Queue(e)
    <3>1. Control
      BY <2>1, <2>2, <2>9, GoOnTyped DEF Queue, Control
    <3> QED BY <2>5, <2>9, <3>1 DEF Queue
  <2>10. CASE Signal(e)
    <3>1. Control
      BY <2>1, <2>2, <2>10, GoOnTyped DEF Signal, Control
    <3>2. heard' \subseteq Units
      BY <2>10 DEF Signal, TypeOK
    <3> QED BY <2>4, <2>10, <3>1, <3>2 DEF Signal, HistoryOK
  <2>11. CASE Act(e)
    <3>1. PICK op : GoOn(e, ip + 1 + Operands(op)) /\ Kept
      BY <2>11 DEF Act
    <3>2. ip + 1 + Operands(op) \in Nat
      BY <2>2, OperandsAre
    <3>3. Control
      BY <2>1, <3>1, <3>2, GoOnTyped DEF Control
    <3> QED BY <2>5, <3>1, <3>3
  <2> QED BY <1>6, <2>6, <2>7, <2>8, <2>9, <2>10, <2>11 DEF Evaluate
<1>7. CASE Mix
  <2>1. clock + MixLen \in Nat
    BY ProgramAssumption DEF TypeOK
  <2>2. clock' \in 0 .. Wrap - 1
    BY <1>7, <2>1, Wraps DEF Mix
  <2>3. \A e \in Units : (IF owed[e] > MixLen THEN owed[e] - MixLen ELSE 0) \in Nat
    BY ProgramAssumption DEF HistoryOK
  <2>4. owed' \in [Units -> Nat]
    BY <1>7, <2>3 DEF Mix
  <2> QED BY <1>7, <2>2, <2>4 DEF Mix, TypeOK, HistoryOK
<1>8. CASE UNCHANGED vars
  BY <1>8 DEF vars, history, TypeOK, HistoryOK
<1> QED
  BY <1>2, <1>3, <1>4, <1>5, <1>6, <1>7, <1>8 DEF Next, Cycle

LEMMA TypedInit == Init => Typed
<1> SUFFICES ASSUME Init PROVE Typed
  OBVIOUS
<1>1. 0 \in 0 .. ProgramMax /\ 0 \in 0 .. Wrap - 1
  BY ProgramAssumption
<1>2. prog \in [Units -> UnitType]
  BY <1>1 DEF Init, UnitType
<1>3. port \in Seq(Messaged) /\ Len(port) <= PortAvail
  BY ProgramAssumption DEF Init
<1> QED BY <1>1, <1>2, <1>3 DEF Init, Typed, TypeOK, HistoryOK, UnitType

(* The program state keeps its types: positions stay in the code buffer,   *)
(* the operands are bytes and the times are of a uint32_t.                 *)
THEOREM TypeCorrect == Spec => []TypeOK
<1>1. Typed => TypeOK
  BY DEF Typed
<1> QED BY <1>1, TypedInit, TypedStep, PTL DEF Spec

LEMMA AlwaysTyped == Spec => []Typed
BY TypedInit, TypedStep, PTL DEF Spec

-----------------------------------------------------------------------------
(* The waits                                                               *)

(* When faun_evalProg returns, the turn goes to another unit, which runs.  *)
LEMMA LeaveMoves ==
  ASSUME NEW e \in Units, NEW u, Leave(e, u)
  PROVE  /\ prog' = [prog EXCEPT ![e] = u]
         /\ turn' \in Units => turn' # e /\ Runs(turn') /\ ip' = prog[turn'].pc
<1>1. UnitsAfter(e) \in SUBSET Units /\ e \notin UnitsAfter(e)
  BY ProgramAssumption DEF UnitsAfter
<1>2. \/ turn' = Mixing
      \/ turn' \in UnitsAfter(e) /\ Runs(turn') /\ ip' = prog[turn'].pc
  BY <1>1, TurnsTo DEF Leave
<1> QED BY <1>1, <1>2, UnitsAreNaturals DEF Leave

(* Its turn is the only one that changes a unit; a turn that moves goes to *)
(* a unit that runs.                                                       *)
LEMMA Moves ==
  ASSUME Typed, NEW e \in Units, Evaluate(e)
  PROVE  /\ \A f \in Units \ {e} : prog'[f] = prog[f]
         /\ turn' \in Units \ {e} => Runs(turn') /\ ip' = prog[turn'].pc
         /\ Wait(e) => turn' # e
<1> DEFINE Good == /\ \A f \in Units \ {e} : prog'[f] = prog[f]
                   /\ turn' \in Units \ {e} => Runs(turn') /\ ip' = prog[turn'].pc
<1>1. ASSUME NEW u, Leave(e, u) PROVE Good /\ turn' # e
  <2>1. prog' = [prog EXCEPT ![e] = u]
    BY <1>1, LeaveMoves
  <2>2. turn' \in Units => turn' # e /\ Runs(turn') /\ ip' = prog[turn'].pc
    BY <1>1, LeaveMoves
  <2>3. prog \in [Units -> UnitType]
    BY DEF Typed, TypeOK, UnitType
  <2> QED BY <2>1, <2>2, <2>3
<1>2. ASSUME NEW i, GoOn(e, i) PROVE Good
  <2>1. turn = e /\ prog \in [Units -> UnitType]
    BY Executed DEF Typed, TypeOK, UnitType
  <2>2. CASE i = prog[e].used
    <3>1. PICK u : Leave(e, u)
      BY <1>2, <2>2 DEF GoOn
    <3> QED BY <3>1, <1>1
  <2>3. CASE i # prog[e].used
    <3>1. prog' = [prog EXCEPT ![e] = Ran(e)] /\ turn' = turn
      BY <1>2, <2>3 DEF GoOn
    <3> QED BY <2>1, <3>1
  <2> QED BY <2>2, <2>3
<1> HIDE DEF Good
<1>3. CASE End(e)
  <2>1. PICK u : Leave(e, u)
    BY <1>3 DEF End
  <2> QED BY <2>1, <1>1 DEF Good
<1>4. CASE Wait(e)
  <2>1. PICK u : Leave(e, u)
    BY ONLY <1>4, Zenon DEF Wait
  <2> QED BY <2>1, <1>1 DEF Good
<1>5. ASSUME Source(e) PROVE Good
  <2>1. PICK u : prog' = [prog EXCEPT ![e] = u]
    BY ONLY <1>5, Zenon DEF Source
  <2>2. turn' = e
    BY <1>5, Executed DEF Source
  <2>3. prog \in [Units -> UnitType]
    BY DEF Typed, TypeOK, UnitType
  <2> QED BY <2>1, <2>2, <2>3 DEF Good
<1>6. ASSUME Queue(e) PROVE Good
  BY <1>2, <1>6 DEF Queue
<1>7. ASSUME Signal(e) PROVE Good
  BY <1>2, <1>7 DEF Signal
<1>8. ASSUME Act(e) PROVE Good
  BY <1>2, <1>8 DEF Act
<1> QED BY <1>3, <1>4, <1>5, <1>6, <1>7, <1>8 DEF Evaluate, Good

LEMMA WaitStep ==
  ASSUME 255 * Tenth < Wrap, Typed, WaitInv, [Next]_vars
  PROVE  WaitInv'
<1> DEFINE Holds(e) == /\ owed[e] > 0 => prog[e].waitPos >= clock + owed[e]
                       /\ turn = e => owed[e] = 0
<1>1. SUFFICES ASSUME NEW e \in Units, e \notin straddles'
               PROVE  Holds(e)'
  BY DEF WaitInv
<1>2. /\ prog[e] \in UnitType /\ prog[e].waitPos \in Nat /\ owed[e] \in Nat
      /\ clock \in Nat /\ turn \in Units \cup {Idle, Mixing}
  BY DEF Typed, TypeOK, HistoryOK, UnitType
<1>3. e \notin straddles => Holds(e)
  BY DEF WaitInv
<1>4. ASSUME Runs(e), owed[e] > 0, Holds(e) PROVE FALSE
  <2>1. prog[e].waitPos > clock /\ prog[e].waitPos # 0
    BY <1>2, <1>4
  <2> QED BY <1>2, <1>4, <2>1 DEF Runs, Waiting
<1>5. ASSUME UNCHANGED <<clock, owed, straddles, turn>>, prog'[e].waitPos = prog[e].waitPos
      PROVE  Holds(e)'
  BY <1>1, <1>3, <1>5
<1> HIDE DEF Holds
<1>6. ASSUME NEW f \in Units, NEW p \in Programs, CallProgram(f, p)
      PROVE  Holds(e)'
  BY <1>5, <1>6 DEF CallProgram, history
<1>7. ASSUME NEW t \in Threads, PushMessage(t)
      PROVE  Holds(e)'
  BY <1>5, <1>7 DEF PushMessage, history
<1>8. CASE ReceiveMessage
  <2>1. PICK m \in Messaged : m = Head(port)
    BY <1>8 DEF ReceiveMessage, Typed, TypeOK
  <2>2. m.exec \in Units /\ prog \in [Units -> UnitType]
    BY DEF Messaged, Typed, TypeOK, UnitType
  <2>3. prog' = [prog EXCEPT ![m.exec] = AppendCode(Started(prog[m.exec], m.op), m.code)]
    BY <1>8, <2>1 DEF ReceiveMessage
  <2>4. prog'[e].waitPos = prog[e].waitPos
    BY <2>2, <2>3, AppendTyped
  <2> QED BY <1>5, <1>8, <2>4 DEF ReceiveMessage
<1>9. CASE Update
  <2>1. UNCHANGED <<prog, clock, owed, straddles>> /\ TurnTo(Units)
    BY <1>9 DEF Update, history
  <2>2. turn' = e => Runs(e)
    BY <2>1, TurnsTo, UnitsAreNaturals
  <2>3. Holds(e) /\ (turn' = e => owed[e] = 0)
    BY <1>1, <1>2, <1>3, <1>4, <2>1, <2>2
  <2> QED BY <2>1, <2>3 DEF Holds
<1>10. ASSUME NEW f \in Units, Evaluate(f)
       PROVE  Holds(e)'
  <2>1. turn = f /\ clock' = clock
    BY <1>10, Executed
  <2>2. /\ \A g \in Units \ {f} : prog'[g] = prog[g]
        /\ turn' \in Units \ {f} => Runs(turn')
        /\ Wait(f) => turn' # f
    BY <1>10, Moves
  <2>3. CASE e # f
    <3>1. owed'[e] = owed[e] /\ (e \in straddles' <=> e \in straddles)
      <4>1. CASE Wait(f)
        <5>1. PICK n, S : owed' = [owed EXCEPT ![f] = n * Tenth]
                          /\ (straddles' = straddles \cup {f} \/ straddles' = straddles \ {f})
          BY ONLY <4>1, Zenon DEF Wait
        <5> QED BY <5>1, <2>3 DEF Typed, HistoryOK
      <4>2. CASE ~Wait(f)
        BY <1>10, <4>2 DEF Evaluate, End, Source, Queue, Signal, Act
      <4> QED BY <4>1, <4>2
    <3>2. prog'[e] = prog[e] /\ (turn' = e => Runs(e))
      BY <2>2, <2>3
    <3>3. Holds(e) /\ (turn' = e => owed[e] = 0)
      BY <1>1, <1>2, <1>3, <1>4, <3>1, <3>2
    <3> QED BY <2>1, <3>1, <3>2, <3>3 DEF Holds
  <2>4. CASE e = f /\ ~Wait(f)
    <3>1. UNCHANGED <<owed, straddles>>
      BY <1>10, <2>4 DEF Evaluate, End, Source, Queue, Signal, Act
    <3>2. owed'[e] = 0
      BY <1>1, <1>3, <2>1, <2>4, <3>1 DEF Holds
    <3> QED BY <3>2 DEF Holds
  <2>5. CASE e = f /\ Wait(f)
    <3>1. PICK n, w :
            /\ n \in ByteAt(e, ip + 1)
            /\ w = (clock + n * Tenth) % Wrap
            /\ Leave(e, [Ran(e) EXCEPT !.waitPos = w, !.pc = ip + 2])
            /\ owed' = [owed EXCEPT ![e] = n * Tenth]
            /\ straddles' = IF w < clock THEN straddles \cup {e} ELSE straddles \ {e}
      <4>1. Wait(e)
        BY <2>5
      <4> QED BY ONLY <4>1, Zenon DEF Wait
    <3>2. n \in 0 .. 255
      <4>1. ip + 1 \in Nat /\ TypeOK
        BY DEF Typed, TypeOK
      <4> QED BY <3>1, <4>1, BytesFetched
    <3>3. PICK x \in Nat : x = n * Tenth /\ x < Wrap
      <4>1. PICK T \in Nat \ {0} : T = Tenth
        BY ProgramAssumption
      <4>2. n * T \in Nat /\ n * T <= 255 * T
        BY <3>2
      <4>3. 255 * T < Wrap
        BY <4>1
      <4> QED BY <4>1, <4>2, <4>3, ProgramAssumption
    <3>4. ~(w < clock)
      BY <1>1, <3>1
    <3>5. w = clock + x
      <4>1. PICK W \in Nat \ {0} : W = Wrap
        BY ProgramAssumption
      <4>2. clock < W /\ w = (clock + x) % W
        BY <3>1, <3>3, <4>1 DEF Typed, TypeOK
      <4>3. CASE clock + x < W
        BY <1>2, <4>2, <4>3
      <4>4. CASE clock + x >= W
        <5>1. PICK y \in Nat : clock + x = W + y /\ y < W /\ y < clock
          BY <1>2, <3>3, <4>1, <4>2, <4>4
        <5>2. w = y
          BY <4>2, <5>1
        <5> QED BY <3>4, <5>1, <5>2
      <4> QED BY <1>2, <4>3, <4>4
    <3>6. prog'[e].waitPos = w
      <4>1. PICK u : Leave(e, u) /\ u = [Ran(e) EXCEPT !.waitPos = w, !.pc = ip + 2]
        BY ONLY <3>1, Zenon
      <4>2. prog' = [prog EXCEPT ![e] = u]
        BY <4>1, LeaveMoves
      <4>3. PICK r \in UnitType : r = Ran(e)
        BY RanTyped DEF Typed
      <4>4. u = [r EXCEPT !.waitPos = w, !.pc = ip + 2]
        BY ONLY <4>1, <4>3, Zenon
      <4>5. u.waitPos = w
        BY <4>4 DEF UnitType
      <4> QED BY <4>2, <4>5 DEF Typed, TypeOK
    <3>7. owed'[e] = x /\ turn' # e
      BY <2>2, <2>5, <3>1, <3>3 DEF Typed, HistoryOK
    <3> QED BY <1>2, <2>1, <3>3, <3>5, <3>6, <3>7 DEF Holds
  <2> QED BY <2>3, <2>4, <2>5
<1>11. CASE Mix
  <2>1. UNCHANGED <<prog, straddles>> /\ clock' = (clock + MixLen) % Wrap /\ turn' # e
    BY <1>11, UnitsAreNaturals DEF Mix
  <2>2. owed'[e] = IF owed[e] > MixLen THEN owed[e] - MixLen ELSE 0
    BY <1>11 DEF Mix
  <2>3. CASE owed[e] > MixLen
    <3>1. prog[e].waitPos >= clock + owed[e] /\ prog[e].waitPos < Wrap
      BY <1>1, <1>2, <1>3, <2>1, <2>3, ProgramAssumption DEF Holds, UnitType
    <3>2. PICK x \in Nat : x = clock + MixLen /\ x < Wrap
      BY <1>2, <2>3, <3>1, ProgramAssumption
    <3>3. clock' = x
      BY <2>1, <3>2, ProgramAssumption
    <3> QED BY <1>2, <2>1, <2>2, <2>3, <3>1, <3>2, <3>3, ProgramAssumption DEF Holds
  <2>4. CASE ~(owed[e] > MixLen)
    BY <2>1, <2>2, <2>4 DEF Holds
  <2> QED BY <2>3, <2>4
<1>12. CASE UNCHANGED vars
  BY <1>5, <1>12 DEF vars, history
<1> QED
  BY <1>6, <1>7, <1>8, <1>9, <1>10, <1>11, <1>12 DEF Next, Cycle

(* A FO_WAIT lets its whole time pass, on a clock that no wait can outrun  *)
(* (255 tenths of a second are less than 2^32 frames), also when programs  *)
(* are replaced while they run; but for the wait that straddles its wrap.  *)
THEOREM WaitsHold == ASSUME 255 * Tenth < Wrap PROVE Spec => []WaitHolds
<1>1. Init => WaitInv
  <2> SUFFICES ASSUME Init PROVE WaitInv
    OBVIOUS
  <2>1. \A e \in Units : owed[e] = 0 /\ turn # e
    BY UnitsAreNaturals DEF Init
  <2> QED BY <2>1 DEF WaitInv
<1>2. Typed /\ WaitInv /\ [Next]_vars => WaitInv'
  BY WaitStep
<1>3. WaitInv => WaitHolds
  BY DEF WaitInv, WaitHolds
<1> QED BY <1>1, <1>2, <1>3, AlwaysTyped, PTL DEF Spec

-----------------------------------------------------------------------------
(* The programs: how the messages travel                                   *)

LEMMA NotEmpty == ASSUME NEW p \in Programs PROVE p # <<>>
BY ProgramsAreCode DEF WellFormed

(* One step of faun_program or of the mix leaves a unit as it is.          *)
LEMMA UnitKept ==
  ASSUME NEW e \in Units, UnitSound(e), prog'[e] = prog[e], given'[e] = given[e],
         UNCHANGED <<turn, ip>>, e \in heard' => e \in heard, e \in fresh' => e \in fresh
  PROVE  UnitSound(e)'
BY DEF UnitSound, Matches

(* faun_program is called for unit f.                                      *)
LEMMA CallSent ==
  ASSUME ~Replaces, Typed, ProgramInv,
         NEW f \in Units, NEW p \in Programs, CallProgram(f, p), NEW e \in Units
  PROVE  Sent(e)'
<1>1. /\ out[Owner[f]] = <<>> /\ f \in heard /\ Len(p) <= ProgramMax
      /\ out' = [out EXCEPT ![Owner[f]] = Messages(f, p)]
      /\ heard' = heard \ {f}
      /\ UNCHANGED <<prog, port, turn, ip, given, fresh>>
  BY DEF CallProgram, history
<1>2. Owner[e] \in Threads /\ Owner[f] \in Threads /\ DOMAIN out = Threads
  BY DEF Threads, Typed, TypeOK
<1>3. /\ Messages(f, p) \in Seq(Messaged) /\ Len(Messages(f, p)) = NMessages(p)
      /\ \A i \in 1 .. NMessages(p) : IsPart(Messages(f, p)[i], f, p, i)
  BY NotEmpty, MessagesAre
<1>4. NMessages(p) \in Nat \ {0}
  BY NotEmpty, Cut
<1>5. out'[Owner[f]] = Messages(f, p)
  BY <1>1, <1>2
<1>6. UnitSound(e) /\ Sent(e)
  BY DEF ProgramInv
<1>7. CASE e # f
  <2>1. NotOut(e) => NotOut(e)'
    <3>1. CASE Owner[e] = Owner[f]
      <4>1. \A i \in 1 .. NMessages(p) : Messages(f, p)[i].exec # e
        BY <1>3, <1>7 DEF IsPart
      <4> QED BY <1>3, <1>5, <3>1, <4>1 DEF NotOut
    <3>2. CASE Owner[e] # Owner[f]
      BY <1>1, <1>2, <3>2 DEF NotOut
    <3> QED BY <3>1, <3>2
  <2>2. CASE Quiet(e)
    BY <1>1, <2>1, <2>2 DEF Quiet, Sent
  <2>3. ASSUME NEW g \in Programs, NEW k \in 0 .. NMessages(g) - 1,
               NEW q \in k + 1 .. NMessages(g) + 1, Sending(e, g, k, q)
        PROVE  Sent(e)'
    <3>1. InOut(e, g, q) => InOut(e, g, q)'
      <4>1. CASE q > NMessages(g)
        BY <2>1, <4>1 DEF InOut
      <4>2. CASE ~(q > NMessages(g)) /\ Owner[e] # Owner[f]
        BY <1>1, <1>2, <4>2 DEF InOut
      <4>3. CASE ~(q > NMessages(g)) /\ Owner[e] = Owner[f]
        <5>1. Len(out[Owner[e]]) = 0
          BY <1>1, <4>3
        <5>2. NMessages(g) \in Nat
          BY NotEmpty, Cut
        <5>3. NMessages(g) - q + 1 # 0
          BY <4>3, <5>2
        <5> QED BY <4>3, <5>1, <5>3 DEF InOut
      <4> QED BY <4>1, <4>2, <4>3
    <3>2. Sending(e, g, k, q)'
      BY <1>1, <2>3, <3>1 DEF Sending, InPort, Matches
    <3> QED BY <2>3, <3>2 DEF Sent
  <2> QED BY <1>6, <2>2, <2>3 DEF Sent
<1>8. CASE e = f
  <2>1. Quiet(e)
    BY <1>1, <1>6, <1>8 DEF Sent, Sending
  <2>2. InPort(e, p, 0, 1)'
    BY <1>1, <2>1 DEF InPort, Quiet
  <2>3. InOut(e, p, 1)'
    <3>1. Len(out'[Owner[e]]) = NMessages(p) - 1 + 1
      BY <1>3, <1>4, <1>5, <1>8
    <3>2. \A i \in 1 .. Len(out'[Owner[e]]) : out'[Owner[e]][i] = Messages(e, p)[1 + i - 1]
      BY <1>4, <1>5, <1>8, <3>1
    <3>3. ~(1 > NMessages(p))
      BY <1>4
    <3> QED BY <3>1, <3>2, <3>3 DEF InOut
  <2>4. e \notin heard' \cup fresh'
    BY <1>1, <1>6, <1>8 DEF UnitSound
  <2>5. prog'[e].running => turn' = e /\ given'[e][ip' + 1] \in Ends
    BY <1>1, <1>6, <1>8 DEF UnitSound
  <2>6. Sending(e, p, 0, 1)'
    BY <1>1, <2>2, <2>3, <2>4, <2>5 DEF Sending
  <2>7. 0 \in 0 .. NMessages(p) - 1 /\ 1 \in 0 + 1 .. NMessages(p) + 1
    BY <1>4
  <2> QED BY <2>6, <2>7 DEF Sent
<1> QED BY <1>7, <1>8

(* A thread pushes the first of its messages.                              *)
LEMMA PushSent ==
  ASSUME Typed, ProgramInv, NEW t \in Threads, PushMessage(t), NEW e \in Units
  PROVE  Sent(e)'
<1>1. /\ out[t] # <<>> /\ port' = Append(port, Head(out[t]))
      /\ out' = [out EXCEPT ![t] = Tail(out[t])]
      /\ UNCHANGED <<prog, turn, ip, heard, given, fresh>>
  BY DEF PushMessage, history
<1>2. port \in Seq(Messaged) /\ out \in [Threads -> Seq(Messaged)] /\ Owner[e] \in Threads
  BY DEF Typed, TypeOK, Threads
<1>3. PICK o \in Seq(Messaged) : o = out[t] /\ o # <<>> /\ Len(o) \in Nat \ {0}
  BY <1>1, <1>2
<1>4. PICK m \in Messaged : m = o[1] /\ m = Head(out[t])
  BY <1>3
<1>5. PICK n \in Nat : n = Len(port)
  BY <1>2
<1>6. /\ Len(port') = n + 1 /\ port'[n + 1] = m
      /\ \A j \in 1 .. n : port'[j] = port[j]
  BY <1>1, <1>2, <1>4, <1>5
<1>7. Len(Tail(o)) = Len(o) - 1 /\ \A i \in 1 .. Len(o) - 1 : Tail(o)[i] = o[i + 1]
  BY <1>3
<1>8. out'[t] = Tail(o) /\ \A u \in Threads \ {t} : out'[u] = out[u]
  BY <1>1, <1>2, <1>3
<1>9. Sent(e)
  BY DEF ProgramInv
<1>10. Owner[m.exec] = t /\ \A i \in 1 .. Len(o) : o[i].exec = m.exec
  BY <1>3, <1>4 DEF ProgramInv, Owned
<1>11. CASE e # m.exec
  <2>1. NotOut(e) => NotOut(e)'
    <3>1. CASE Owner[e] = t
      <4>1. ASSUME NotOut(e), NEW i \in 1 .. Len(o) - 1
            PROVE  Tail(o)[i].exec # e
        <5>1. i + 1 \in 1 .. Len(o)
          BY <1>3
        <5> QED BY <1>3, <1>7, <3>1, <4>1, <5>1 DEF NotOut
      <4> QED BY <1>7, <1>8, <3>1, <4>1 DEF NotOut
    <3>2. CASE Owner[e] # t
      BY <1>2, <1>8, <3>2 DEF NotOut
    <3> QED BY <3>1, <3>2
  <2>2. CASE Quiet(e)
    <3>1. \A j \in 1 .. Len(port') : port'[j].exec # e
      BY <1>5, <1>6, <1>11, <2>2 DEF Quiet
    <3> QED BY <2>1, <2>2, <3>1 DEF Quiet, Sent
  <2>3. ASSUME NEW p \in Programs, NEW k \in 0 .. NMessages(p) - 1,
               NEW q \in k + 1 .. NMessages(p) + 1, Sending(e, p, k, q)
        PROVE  Sent(e)'
    <3>1. InPort(e, p, k, q)'
      <4>1. ASSUME NEW j \in 1 .. Len(port'), port'[j].exec = e
            PROVE  j \in 1 .. n /\ port'[j] = port[j]
        BY <1>6, <1>11, <4>1
      <4>2. \A r \in k + 1 .. q - 1 : \E j \in 1 .. n : port[j].exec = e /\ port[j].part = r
        BY <1>5, <2>3 DEF Sending, InPort
      <4>3. ASSUME NEW r \in k + 1 .. q - 1
            PROVE  \E j \in 1 .. Len(port') : port'[j].exec = e /\ port'[j].part = r
        <5>1. PICK j \in 1 .. n : port[j].exec = e /\ port[j].part = r
          BY <4>2
        <5>2. j \in 1 .. Len(port') /\ port'[j] = port[j]
          BY <1>6
        <5> QED BY <5>1, <5>2
      <4> QED BY <1>5, <2>3, <4>1, <4>3 DEF Sending, InPort
    <3>2. InOut(e, p, q)'
      <4>1. CASE q > NMessages(p)
        BY <2>1, <2>3, <4>1 DEF Sending, InOut
      <4>2. CASE ~(q > NMessages(p)) /\ Owner[e] # t
        BY <1>2, <1>8, <2>3, <4>2 DEF Sending, InOut
      <4>3. CASE ~(q > NMessages(p)) /\ Owner[e] = t
        <5>1. o[1] = Messages(e, p)[q + 1 - 1]
          BY <1>3, <2>3, <4>3 DEF Sending, InOut
        <5>2. q \in 1 .. NMessages(p) /\ q + 1 - 1 = q
          BY <4>3, NotEmpty, Cut
        <5>3. o[1].exec = e
          BY <5>1, <5>2, NotEmpty, MessagesAre DEF IsPart
        <5> QED BY <1>4, <1>11, <5>3
      <4> QED BY <4>1, <4>2, <4>3
    <3>3. Sending(e, p, k, q)'
      BY <1>1, <2>3, <3>1, <3>2 DEF Sending, Matches
    <3> QED BY <2>3, <3>3 DEF Sent
  <2> QED BY <1>9, <2>2, <2>3 DEF Sent
<1>12. CASE e = m.exec
  <2>1. Owner[e] = t /\ ~NotOut(e)
    BY <1>3, <1>4, <1>10, <1>12 DEF NotOut
  <2>2. PICK p \in Programs : \E k \in 0 .. NMessages(p) - 1 :
          \E q \in k + 1 .. NMessages(p) + 1 : Sending(e, p, k, q)
    BY <1>9, <2>1 DEF Sent, Quiet
  <2>3. PICK N \in Nat \ {0} : N = NMessages(p)
    BY NotEmpty, Cut
  <2>4. PICK k \in 0 .. N - 1 : \E q \in k + 1 .. N + 1 : Sending(e, p, k, q)
    BY <2>2, <2>3
  <2>5. PICK q \in k + 1 .. N + 1 : Sending(e, p, k, q)
    BY <2>4
  <2>6. q <= N /\ Len(o) = N - q + 1 /\ \A i \in 1 .. Len(o) : o[i] = Messages(e, p)[q + i - 1]
    BY <1>3, <2>1, <2>3, <2>5 DEF Sending, InOut
  <2>7. m = Messages(e, p)[q] /\ m.part = q
    <3>1. m = Messages(e, p)[q + 1 - 1] /\ q + 1 - 1 = q /\ q \in 1 .. N
      BY <1>3, <1>4, <2>6
    <3> QED BY <2>3, <3>1, NotEmpty, MessagesAre DEF IsPart
  <2>8. InPort(e, p, k, q + 1)'
    <3>1. ASSUME NEW j \in 1 .. Len(port'), port'[j].exec = e
          PROVE  /\ port'[j].part \in k + 1 .. q
                 /\ port'[j] = Messages(e, p)[port'[j].part]
                 /\ j \in 1 .. n => port'[j].part < q
      <4>1. CASE j = n + 1
        BY <1>6, <2>7, <4>1
      <4>2. CASE j \in 1 .. n
        <5>1. port[j].part \in k + 1 .. q - 1 /\ port[j] = Messages(e, p)[port[j].part]
          BY <1>5, <1>6, <2>5, <3>1, <4>2 DEF Sending, InPort
        <5> QED BY <1>6, <4>2, <5>1
      <4> QED BY <1>6, <4>1, <4>2
    <3>2. ASSUME NEW i \in 1 .. Len(port'), NEW j \in 1 .. Len(port'),
                 i < j, port'[i].exec = e, port'[j].exec = e
          PROVE  port'[i].part < port'[j].part
      <4>1. i \in 1 .. n /\ port'[i] = port[i]
        BY <1>6, <3>2
      <4>2. CASE j = n + 1
        BY <1>6, <2>7, <3>1, <3>2, <4>1, <4>2
      <4>3. CASE j \in 1 .. n
        BY <1>5, <1>6, <2>5, <3>2, <4>1, <4>3 DEF Sending, InPort
      <4> QED BY <1>6, <4>2, <4>3
    <3>3. ASSUME NEW r \in k + 1 .. q
          PROVE  \E j \in 1 .. Len(port') : port'[j].exec = e /\ port'[j].part = r
      <4>1. CASE r = q
        BY <1>6, <1>12, <2>7, <4>1
      <4>2. CASE r # q
        <5>1. PICK j \in 1 .. n : port[j].exec = e /\ port[j].part = r
          BY <1>5, <2>5, <4>2 DEF Sending, InPort
        <5> QED BY <1>6, <5>1
      <4> QED BY <4>1, <4>2
    <3>4. q + 1 - 1 = q
      OBVIOUS
    <3> DEFINE x == q + 1
    <3>5. x - 1 = q
      BY <3>4
    <3> HIDE DEF x
    <3>6. InPort(e, p, k, x)'
      BY <3>1, <3>2, <3>3, <3>5 DEF InPort
    <3> QED BY <3>6 DEF x
  <2>9. InOut(e, p, q + 1)'
    <3>1. CASE q = N
      <4>1. Len(Tail(o)) = 0
        BY <1>7, <2>6, <3>1
      <4>2. q + 1 > NMessages(p)
        BY <2>3, <3>1
      <4>3. NotOut(e)'
        <5>1. out'[Owner[e]] = Tail(o)
          BY <1>8, <2>1
        <5>2. \A i \in 1 .. Len(out'[Owner[e]]) : FALSE
          BY <4>1, <5>1
        <5> QED BY <5>2 DEF NotOut
      <4> QED BY <4>2, <4>3 DEF InOut
    <3>2. CASE q # N
      <4>1. Len(Tail(o)) = N - (q + 1) + 1 /\ ~(q + 1 > N)
        <5>1. PICK L \in Nat : L = Len(o) /\ L = N - q + 1
          BY <1>3, <2>6
        <5>2. q < N
          BY <2>6, <3>2
        <5> QED BY <1>7, <5>1, <5>2
      <4>2. ASSUME NEW i \in 1 .. Len(Tail(o))
            PROVE  Tail(o)[i] = Messages(e, p)[q + 1 + i - 1]
        <5>1. Tail(o)[i] = o[i + 1] /\ i + 1 \in 1 .. Len(o)
          BY <1>3, <1>7, <4>1
        <5>2. q + (i + 1) - 1 = q + 1 + i - 1
          BY <1>3, <1>7
        <5> QED BY <2>6, <5>1, <5>2
      <4> QED BY <1>8, <2>1, <2>3, <4>1, <4>2 DEF InOut
    <3> QED BY <3>1, <3>2
  <2>10. Sending(e, p, k, q + 1)'
    BY <1>1, <2>5, <2>8, <2>9 DEF Sending, Matches
  <2>11. q + 1 \in k + 1 .. N + 1
    BY <2>6
  <2> QED BY <2>3, <2>10, <2>11 DEF Sent
<1> QED BY <1>11, <1>12

(* The audio thread takes a message: what its unit is then ...             *)
LEMMA ReceiveSound ==
  ASSUME Typed, ProgramInv, ReceiveMessage, NEW e \in Units, e = Head(port).exec
  PROVE  UnitSound(e)' /\ Sent(e)'
<1>1. port \in Seq(Messaged) /\ port # <<>> /\ turn = Idle /\ port' = Tail(port)
  BY DEF ReceiveMessage, Typed, TypeOK
<1>2. PICK m \in Messaged : m = port[1] /\ m = Head(port)
  BY <1>1
<1>3. PICK n \in Nat : n = Len(port) - 1 /\ n + 1 = Len(port)
  BY <1>1
<1>4. Len(port') = n /\ \A j \in 1 .. n : port'[j] = port[j + 1]
  BY <1>1, <1>3
<1>5. /\ prog' = [prog EXCEPT ![e] = AppendCode(Started(prog[e], m.op), m.code)]
      /\ IF m.op \in {"program", "end"}
         THEN given' = [given EXCEPT ![e] = m.whole] /\ fresh' = fresh \cup {e}
         ELSE UNCHANGED <<given, fresh>>
      /\ UNCHANGED <<out, turn, ip, heard>>
  BY <1>2 DEF ReceiveMessage
<1>6. e = m.exec /\ turn # e /\ turn' # e
  BY <1>1, <1>2, <1>5, UnitsAreNaturals
<1>7. UnitSound(e) /\ Sent(e) /\ ~Quiet(e)
  BY <1>2, <1>3, <1>6 DEF ProgramInv, Quiet
<1>8. PICK p \in Programs : \E k \in 0 .. NMessages(p) - 1 :
        \E q \in k + 1 .. NMessages(p) + 1 : Sending(e, p, k, q)
  BY <1>7 DEF Sent
<1>9. PICK N \in Nat \ {0} : N = NMessages(p)
  BY NotEmpty, Cut
<1>10. PICK k \in 0 .. N - 1 : \E q \in k + 1 .. N + 1 : Sending(e, p, k, q)
  BY <1>8, <1>9
<1>11. PICK q \in k + 1 .. N + 1 : Sending(e, p, k, q)
  BY <1>10
<1>12. /\ \A j \in 1 .. n + 1 : port[j].exec = e =>
             port[j].part \in k + 1 .. q - 1 /\ port[j] = Messages(e, p)[port[j].part]
       /\ \A i, j \in 1 .. n + 1 :
             i < j /\ port[i].exec = e /\ port[j].exec = e => port[i].part < port[j].part
       /\ \A r \in k + 1 .. q - 1 : \E j \in 1 .. n + 1 : port[j].exec = e /\ port[j].part = r
  BY <1>3, <1>11 DEF Sending, InPort
<1>13. m.part = k + 1 /\ m = Messages(e, p)[k + 1] /\ q \in k + 2 .. N + 1
  <2>1. 1 \in 1 .. n + 1 /\ m.part \in k + 1 .. q - 1 /\ m = Messages(e, p)[m.part]
    BY <1>2, <1>6, <1>12
  <2>2. k + 1 \in k + 1 .. q - 1
    BY <2>1
  <2>3. PICK j \in 1 .. n + 1 : port[j].exec = e /\ port[j].part = k + 1
    BY <1>12, <2>2
  <2>4. j = 1
    <3>1. ASSUME j # 1 PROVE FALSE
      <4>1. 1 < j
        BY <3>1
      <4>2. port[1].part < port[j].part
        BY <1>2, <1>6, <1>12, <2>1, <2>3, <4>1
      <4> QED BY <1>2, <2>1, <2>3, <4>2
    <3> QED BY <3>1
  <2> QED BY <1>2, <2>1, <2>3, <2>4
<1>14. IsPart(m, e, p, k + 1)
  <2>1. k + 1 \in 1 .. N
    OBVIOUS
  <2> QED BY <1>9, <1>13, <2>1, NotEmpty, MessagesAre
<1>15. ~prog[e].running /\ prog[e].pc = 0 /\ prog[e].waitPos = 0 /\ prog[e].si < SourceLimit
  BY <1>6, <1>7, <1>11 DEF Sending, UnitSound
<1>16. PICK f \in Nat : f = k * PayloadMax
  BY ProgramAssumption
<1>17. PICK c \in Seq(0 .. 255) : c = m.code
  BY DEF Messaged
<1>18. PICK L \in Nat \ {0} : L = Len(p) /\ L <= ProgramMax
  BY <1>11, NotEmpty, Cut DEF Sending
<1>19. /\ m.op = IF k = 0 THEN IF N = 1 THEN "program" ELSE "beg"
                 ELSE IF N = k + 1 THEN "end" ELSE "mid"
       /\ f + Len(c) = IF N = k + 1 THEN L ELSE (k + 1) * PayloadMax
       /\ f + Len(c) <= L
       /\ \A j \in 1 .. Len(c) : c[j] = p[f + j]
       /\ m.whole = p
  <2>1. k + 1 - 1 = k /\ (k + 1 = 1 <=> k = 0)
    OBVIOUS
  <2> QED BY <1>9, <1>14, <1>16, <1>17, <1>18, <2>1 DEF IsPart
<1>20. PICK u \in UnitType : u = prog[e]
  BY UnitsTyped DEF Typed
<1>21. PICK v \in UnitType :
         /\ v = Started(prog[e], m.op)
         /\ v.pc = 0 /\ v.waitPos = 0 /\ v.si = u.si /\ v.code = u.code
         /\ v.used = f /\ (v.running <=> N = k + 1)
  <2>1. m.op \in {"program", "beg", "mid", "end"}
    BY DEF Messaged
  <2>2. PICK v \in UnitType :
          /\ v = Started(u, m.op)
          /\ v.pc = u.pc /\ v.waitPos = u.waitPos /\ v.si = u.si /\ v.code = u.code
          /\ v.used = IF m.op \in {"program", "beg"} THEN 0 ELSE u.used
          /\ v.running = IF m.op = "mid" THEN u.running ELSE m.op # "beg"
    BY <2>1, StartedIs
  <2>3. CASE k = 0
    <3>1. f = 0
      BY <1>16, <2>3, ProgramAssumption
    <3>2. m.op = IF N = k + 1 THEN "program" ELSE "beg"
      BY <1>19, <2>3
    <3>3. v.used = f /\ (v.running <=> N = k + 1)
      BY <2>2, <3>1, <3>2
    <3> QED BY <1>15, <1>20, <2>2, <3>3
  <2>4. CASE k # 0
    <3>1. u.used = f
      BY <1>11, <1>16, <1>20, <2>4 DEF Sending, Matches
    <3> QED BY <1>15, <1>19, <1>20, <2>2, <2>4, <3>1
  <2> QED BY <2>3, <2>4
<1>22. PICK w \in UnitType :
         /\ w = AppendCode(v, c)
         /\ w.pc = 0 /\ w.waitPos = 0 /\ w.si = u.si
         /\ (w.running <=> N = k + 1) /\ w.used = f + Len(c)
         /\ \A i \in 0 .. f - 1 : w.code[i] = u.code[i]
         /\ \A j \in 1 .. Len(c) : w.code[f + j - 1] = c[j]
  <2>1. v.used + Len(c) <= ProgramMax
    BY <1>18, <1>19, <1>21, ProgramAssumption
  <2>2. PICK w \in UnitType :
          /\ w = AppendCode(v, c)
          /\ w.pc = v.pc /\ w.waitPos = v.waitPos /\ w.si = v.si
          /\ w.running = v.running /\ w.used = v.used + Len(c)
          /\ \A i \in 0 .. v.used - 1 : w.code[i] = v.code[i]
          /\ \A j \in 1 .. Len(c) : w.code[v.used + j - 1] = c[j]
    BY <2>1, AppendIs
  <2>3. /\ w.pc = 0 /\ w.waitPos = 0 /\ w.si = u.si
        /\ (w.running <=> N = k + 1) /\ w.used = f + Len(c)
    BY <1>21, <2>2
  <2>4. v.used = f /\ v.code = u.code
    BY <1>21
  <2>5. /\ \A i \in 0 .. f - 1 : w.code[i] = u.code[i]
        /\ \A j \in 1 .. Len(c) : w.code[f + j - 1] = c[j]
    BY ONLY <2>2, <2>4
  <2> QED BY <2>2, <2>3, <2>5
<1>23. prog'[e] = w
  BY <1>5, <1>17, <1>21, <1>22 DEF Typed, TypeOK
<1>24. \A i \in 1 .. f + Len(c) : w.code[i - 1] = p[i]
  <2> SUFFICES ASSUME NEW i \in 1 .. f + Len(c) PROVE w.code[i - 1] = p[i]
    OBVIOUS
  <2>1. CASE i <= f
    <3>1. k > 0
      BY <1>16, <2>1, ProgramAssumption
    <3>2. u.code[i - 1] = p[i]
      BY <1>11, <1>16, <1>20, <2>1, <3>1 DEF Sending, Matches
    <3>3. i - 1 \in 0 .. f - 1
      BY <2>1
    <3> QED BY <1>22, <3>2, <3>3
  <2>2. CASE ~(i <= f)
    <3>1. PICK j \in 1 .. Len(c) : i = f + j
      BY <2>2
    <3>2. f + j - 1 = i - 1
      BY <3>1
    <3> QED BY <1>19, <1>22, <3>1, <3>2
  <2> QED BY <2>1, <2>2
<1>25. e \notin heard' /\ e \notin fresh /\ (e \in fresh' => N = k + 1)
  <2>1. e \notin heard /\ e \notin fresh
    BY <1>11 DEF Sending
  <2>2. CASE N = k + 1
    BY <1>5, <2>1, <2>2
  <2>3. CASE N # k + 1
    BY <1>5, <1>19, <2>1, <2>3
  <2> QED BY <2>2, <2>3
<1>26. CASE N = k + 1
  <2>1. given'[e] = p
    BY <1>5, <1>19, <1>26 DEF Typed, HistoryOK
  <2>2. Matches(e, p, Len(p))'
    BY <1>18, <1>19, <1>22, <1>23, <1>24, <1>26 DEF Matches
  <2>3. 0 \in Starts[p]
    BY NotEmpty, StartsAre
  <2>4. UnitSound(e)'
    BY <1>6, <1>15, <1>20, <1>22, <1>23, <1>25, <1>26, <2>1, <2>2, <2>3 DEF UnitSound
  <2>5. \A j \in 1 .. n : port[j + 1].exec # e
    <3>1. ASSUME NEW j \in 1 .. n, port[j + 1].exec = e PROVE FALSE
      <4>1. 1 \in 1 .. n + 1 /\ j + 1 \in 1 .. n + 1 /\ 1 < j + 1
        OBVIOUS
      <4>2. port[1].part < port[j + 1].part /\ port[j + 1].part \in k + 1 .. q - 1
        BY <1>2, <1>6, <1>12, <3>1, <4>1
      <4> QED BY <1>2, <1>13, <1>26, <4>2
    <3> QED BY <3>1
  <2>6. NotOut(e)'
    <3>1. q > NMessages(p)
      BY <1>9, <1>13, <1>26
    <3>2. NotOut(e)
      BY <1>11, <3>1 DEF Sending, InOut
    <3> QED BY <1>5, <3>2 DEF NotOut
  <2> QED BY <1>4, <2>4, <2>5, <2>6 DEF Quiet, Sent
<1>27. CASE N # k + 1
  <2>1. UnitSound(e)'
    BY <1>6, <1>15, <1>20, <1>22, <1>23, <1>25, <1>27 DEF UnitSound
  <2>2. Matches(e, p, (k + 1) * PayloadMax)' /\ ~prog'[e].running
    BY <1>19, <1>22, <1>23, <1>24, <1>27 DEF Matches
  <2>3. InPort(e, p, k + 1, q)'
    <3> DEFINE x == k + 1
    <3>1. ASSUME NEW j \in 1 .. n, port'[j].exec = e
          PROVE  /\ port'[j].part \in x + 1 .. q - 1
                 /\ port'[j] = Messages(e, p)[port'[j].part]
      <4>1. 1 \in 1 .. n + 1 /\ j + 1 \in 1 .. n + 1 /\ 1 < j + 1 /\ port'[j] = port[j + 1]
        BY <1>4
      <4>2. /\ port[1].part < port[j + 1].part /\ port[j + 1].part \in k + 1 .. q - 1
            /\ port[j + 1] = Messages(e, p)[port[j + 1].part]
        BY <1>2, <1>6, <1>12, <3>1, <4>1
      <4>3. PICK r \in k + 1 .. q - 1 : r = port[j + 1].part
        BY <4>2
      <4>4. k + 1 < r
        BY <1>2, <1>13, <4>2, <4>3
      <4>5. r \in x + 1 .. q - 1
        BY <4>4
      <4> QED BY <4>1, <4>2, <4>3, <4>5
    <3>2. ASSUME NEW i \in 1 .. n, NEW j \in 1 .. n,
                 i < j, port'[i].exec = e, port'[j].exec = e
          PROVE  port'[i].part < port'[j].part
      <4>1. /\ i + 1 \in 1 .. n + 1 /\ j + 1 \in 1 .. n + 1 /\ i + 1 < j + 1
            /\ port'[i] = port[i + 1] /\ port'[j] = port[j + 1]
        BY <1>4, <3>2
      <4>2. port[i + 1].part < port[j + 1].part
        BY <1>12, <3>2, <4>1
      <4> QED BY <4>1, <4>2
    <3>3. ASSUME NEW r \in x + 1 .. q - 1
          PROVE  \E j \in 1 .. n : port'[j].exec = e /\ port'[j].part = r
      <4>1. r \in k + 1 .. q - 1 /\ r # k + 1
        OBVIOUS
      <4>2. PICK j \in 1 .. n + 1 : port[j].exec = e /\ port[j].part = r
        BY <1>12, <4>1
      <4>3. j # 1
        BY <1>2, <1>13, <4>1, <4>2
      <4>4. PICK i \in 1 .. n : j = i + 1
        BY <4>3
      <4> QED BY <1>4, <4>2, <4>4
    <3> HIDE DEF x
    <3>4. InPort(e, p, x, q)'
      BY <1>4, <3>1, <3>2, <3>3 DEF InPort
    <3> QED BY <3>4 DEF x
  <2>4. InOut(e, p, q)'
    BY <1>5, <1>11 DEF Sending, InOut, NotOut
  <2>5. Sending(e, p, k + 1, q)'
    BY <1>11, <1>25, <1>27, <2>2, <2>3, <2>4 DEF Sending
  <2>6. k + 1 \in 0 .. N - 1 /\ q \in k + 1 + 1 .. N + 1
    BY <1>13, <1>27
  <2> QED BY <1>9, <2>1, <2>5, <2>6 DEF Sent
<1> QED BY <1>26, <1>27

(* ... and the others.                                                     *)
LEMMA ReceiveOther ==
  ASSUME Typed, ProgramInv, ReceiveMessage, NEW e \in Units, e # Head(port).exec
  PROVE  UnitSound(e)' /\ Sent(e)'
<1>1. port \in Seq(Messaged) /\ port # <<>> /\ port' = Tail(port)
  BY DEF ReceiveMessage, Typed, TypeOK
<1>2. PICK m \in Messaged : m = port[1] /\ m = Head(port)
  BY <1>1
<1>3. PICK n \in Nat : n = Len(port) - 1 /\ n + 1 = Len(port)
  BY <1>1
<1>4. Len(port') = n /\ \A j \in 1 .. n : port'[j] = port[j + 1] /\ j + 1 \in 1 .. n + 1
  BY <1>1, <1>3
<1>5. /\ prog' = [prog EXCEPT ![m.exec] = AppendCode(Started(prog[m.exec], m.op), m.code)]
      /\ \/ given' = [given EXCEPT ![m.exec] = m.whole] /\ fresh' = fresh \cup {m.exec}
         \/ UNCHANGED <<given, fresh>>
      /\ UNCHANGED <<out, turn, ip, heard>>
  BY <1>2 DEF ReceiveMessage
<1>6. /\ prog'[e] = prog[e] /\ given'[e] = given[e]
      /\ e \in fresh' <=> e \in fresh
  BY <1>2, <1>5 DEF Typed, TypeOK, HistoryOK
<1>7. UnitSound(e) /\ Sent(e)
  BY DEF ProgramInv
<1>8. UnitSound(e)'
  BY <1>5, <1>6, <1>7, UnitKept
<1>9. CASE Quiet(e)
  <2>1. \A j \in 1 .. Len(port') : port'[j].exec # e
    BY <1>3, <1>4, <1>9 DEF Quiet
  <2>2. NotOut(e)'
    BY <1>5, <1>9 DEF Quiet, NotOut
  <2> QED BY <1>8, <2>1, <2>2 DEF Quiet, Sent
<1>10. ASSUME NEW p \in Programs, NEW k \in 0 .. NMessages(p) - 1,
              NEW q \in k + 1 .. NMessages(p) + 1, Sending(e, p, k, q)
       PROVE  Sent(e)'
  <2>1. InPort(e, p, k, q)'
    <3>1. /\ \A j \in 1 .. n + 1 : port[j].exec = e =>
                port[j].part \in k + 1 .. q - 1 /\ port[j] = Messages(e, p)[port[j].part]
          /\ \A i, j \in 1 .. n + 1 :
                i < j /\ port[i].exec = e /\ port[j].exec = e => port[i].part < port[j].part
          /\ \A r \in k + 1 .. q - 1 :
                \E j \in 1 .. n + 1 : port[j].exec = e /\ port[j].part = r
      BY <1>3, <1>10 DEF Sending, InPort
    <3>2. ASSUME NEW j \in 1 .. n, port'[j].exec = e
          PROVE  port'[j].part \in k + 1 .. q - 1 /\ port'[j] = Messages(e, p)[port'[j].part]
      BY <1>4, <3>1, <3>2
    <3>3. ASSUME NEW i \in 1 .. n, NEW j \in 1 .. n,
                 i < j, port'[i].exec = e, port'[j].exec = e
          PROVE  port'[i].part < port'[j].part
      <4>1. i + 1 < j + 1
        BY <3>3
      <4>2. port[i + 1].part < port[j + 1].part
        BY <1>4, <3>1, <3>3, <4>1
      <4> QED BY <1>4, <4>2
    <3>4. ASSUME NEW r \in k + 1 .. q - 1
          PROVE  \E j \in 1 .. n : port'[j].exec = e /\ port'[j].part = r
      <4>1. PICK j \in 1 .. n + 1 : port[j].exec = e /\ port[j].part = r
        BY <3>1
      <4>2. j # 1
        BY <1>2, <4>1
      <4>3. PICK i \in 1 .. n : j = i + 1
        BY <4>2
      <4> QED BY <1>4, <4>1, <4>3
    <3> QED BY <1>4, <3>2, <3>3, <3>4 DEF InPort
  <2>2. InOut(e, p, q)'
    BY <1>5, <1>10 DEF Sending, InOut, NotOut
  <2>3. Sending(e, p, k, q)'
    BY <1>5, <1>6, <1>10, <2>1, <2>2 DEF Sending, Matches
  <2> QED BY <1>10, <2>3 DEF Sent
<1> QED BY <1>7, <1>8, <1>9, <1>10 DEF Sent

-----------------------------------------------------------------------------
(* The programs: how they run                                              *)

(* A step of the update cycle that is not of unit e.                       *)
LEMMA TurnedSound ==
  ASSUME Typed, ProgramInv, NEW e \in Units, turn # e,
         UNCHANGED <<port, out>>, prog'[e] = prog[e], given'[e] = given[e],
         e \in heard' <=> e \in heard, e \in fresh' <=> e \in fresh,
         turn' = e => Runs(e) /\ ip' = prog[e].pc
  PROVE  UnitSound(e)' /\ Sent(e)'
<1>1. UnitSound(e) /\ Sent(e)
  BY DEF ProgramInv
<1>2. UnitSound(e)'
  BY <1>1 DEF UnitSound, Matches, Runs
<1>3. CASE Quiet(e)
  BY <1>2, <1>3 DEF Quiet, NotOut, Sent
<1>4. ASSUME NEW p \in Programs, NEW k \in 0 .. NMessages(p) - 1,
             NEW q \in k + 1 .. NMessages(p) + 1, Sending(e, p, k, q)
      PROVE  Sent(e)'
  <2>1. InPort(e, p, k, q)' /\ InOut(e, p, q)'
    BY <1>4 DEF Sending, InPort, InOut, NotOut
  <2>2. Sending(e, p, k, q)'
    BY <1>4, <2>1 DEF Sending, Matches
  <2> QED BY <1>4, <2>2 DEF Sent
<1> QED BY <1>1, <1>2, <1>3, <1>4 DEF Sent

(* The instruction that a unit is at, and its operand.                     *)
LEMMA Fetched ==
  ASSUME Typed, ProgramInv, NEW e \in Units, turn = e
  PROVE  LET g == given[e] IN
         /\ g \in Programs /\ ip \in Starts[g] /\ ip \in Nat
         /\ ByteAt(e, ip) = {g[ip + 1]}
         /\ g[ip + 1] \notin Ends =>
              /\ After(g, ip) \in Starts[g]
              /\ After(g, ip) # prog[e].used
              /\ ByteAt(e, ip + 1) = {g[ip + 2]}
              /\ e \notin heard /\ Quiet(e)
<1>1. UnitSound(e) /\ Sent(e)
  BY DEF ProgramInv
<1>2. PICK g \in Programs : g = given[e] /\ ip \in Starts[g] /\ Matches(e, g, Len(g))
  BY <1>1 DEF UnitSound
<1>3. PICK L \in Nat \ {0} : L = Len(g) /\ Starts[g] \subseteq 0 .. L - 1
  BY NotEmpty, Cut, StartsAre
<1>4. ip \in 0 .. L - 1 /\ L <= ProgramMax
  <2>1. prog[e].used = L /\ prog[e].used \in 0 .. ProgramMax
    BY <1>2, <1>3, UnitsTyped DEF Matches, Typed, UnitType
  <2> QED BY <1>2, <1>3, <2>1, ProgramAssumption
<1>5. ASSUME NEW i \in 0 .. L - 1
      PROVE  ByteAt(e, i) = {g[i + 1]}
  <2>1. i + 1 \in 1 .. L /\ i + 1 - 1 = i /\ i < ProgramMax
    BY <1>4, ProgramAssumption
  <2>2. prog[e].code[i] = g[i + 1]
    BY <1>2, <1>3, <2>1 DEF Matches
  <2> QED BY <2>1, <2>2 DEF ByteAt
<1>6. ASSUME g[ip + 1] \notin Ends
      PROVE  /\ After(g, ip) \in Starts[g] /\ After(g, ip) # prog[e].used
             /\ ByteAt(e, ip + 1) = {g[ip + 2]}
             /\ e \notin heard /\ Quiet(e)
  <2>1. After(g, ip) < Len(g)
    BY <1>2, <1>6, ProgramsAreCode DEF WellFormed
  <2>2. PICK d \in 0 .. 2 : d = Operands(g[ip + 1])
    BY OperandsAre
  <2>3. After(g, ip) = ip + 1 + d
    BY <2>2 DEF After
  <2>4. ip + 1 \in 0 .. L - 1 /\ ip + 1 + 1 = ip + 2
    BY <1>3, <1>4, <2>1, <2>3
  <2>5. After(g, ip) # prog[e].used
    BY <1>2, <1>3, <1>4, <2>1, <2>3 DEF Matches
  <2>6. After(g, ip) \in Starts[g]
    BY <1>2, <2>1, NotEmpty, StartsAre
  <2>7. e \notin heard /\ Quiet(e)
    BY <1>1, <1>2, <1>6 DEF UnitSound, Sent, Sending
  <2> QED BY <1>5, <2>4, <2>5, <2>6, <2>7
<1> QED BY <1>2, <1>4, <1>5, <1>6

(* The unit goes on at the next instruction: after the signal, at the last. *)
LEMMA GoesOn ==
  ASSUME Typed, ProgramInv, NEW e \in Units, turn = e, NEW i \in Nat, NEW u,
         given[e][ip + 1] \notin Ends, i = After(given[e], ip),
         prog' = [prog EXCEPT ![e] = u], turn' = e, ip' = i,
         u.si < SourceLimit, u.running = prog[e].running, u.pc = prog[e].pc,
         u.code = prog[e].code, u.used = prog[e].used,
         fresh' = fresh \ {e}, UNCHANGED <<port, out, given>>,
         e \in heard' => given[e][i + 1] \in Ends
  PROVE  UnitSound(e)' /\ Sent(e)'
<1>1. prog'[e] = u
  BY DEF Typed, TypeOK
<1>2. UnitSound(e)
  BY DEF ProgramInv
<1>3. i \in Starts[given[e]] /\ Quiet(e)
  BY Fetched
<1>4. UnitSound(e)'
  BY <1>1, <1>2, <1>3 DEF UnitSound, Matches
<1>5. Quiet(e)'
  BY <1>3 DEF Quiet, NotOut
<1> QED BY <1>4, <1>5 DEF Sent

(* The instruction that unit e executes.                                   *)
LEMMA EvaluateSound ==
  ASSUME Typed, ProgramInv, NEW e \in Units, Evaluate(e)
  PROVE  UnitSound(e)' /\ Sent(e)'
<1>1. turn = e /\ fresh' = fresh \ {e} /\ UNCHANGED <<port, out, clock, given>>
  BY Executed
<1>2. PICK g \in Programs :
        /\ g = given[e] /\ ip \in Starts[g] /\ ip \in Nat
        /\ ByteAt(e, ip) = {g[ip + 1]}
        /\ g[ip + 1] \notin Ends =>
             /\ After(g, ip) \in Starts[g] /\ After(g, ip) # prog[e].used
             /\ ByteAt(e, ip + 1) = {g[ip + 2]}
             /\ e \notin heard /\ Quiet(e)
  BY <1>1, Fetched
<1>3. UnitSound(e) /\ Sent(e) /\ prog[e].running
  BY <1>1 DEF ProgramInv, UnitSound
<1>4. PICK r \in UnitType :
        /\ r = Ran(e)
        /\ r.waitPos = 0 /\ r.si = prog[e].si /\ r.running = prog[e].running
        /\ r.pc = prog[e].pc /\ r.code = prog[e].code /\ r.used = prog[e].used
  <2>1. prog[e] \in UnitType /\ Ran(e) \in UnitType
    BY UnitsTyped, RanTyped DEF Typed
  <2>2. Ran(e) = [prog[e] EXCEPT !.waitPos = 0]
    BY DEF Ran
  <2> QED BY <2>1, <2>2 DEF UnitType
<1>5. PICK op : op = g[ip + 1]
  OBVIOUS
<1>6. After(g, ip) = ip + 1 + Operands(op)
  BY <1>5 DEF After
<1>7. ASSUME NEW i \in Nat, i = After(g, ip), op \notin Ends, GoOn(e, i),
             e \in heard' => g[i + 1] \in Ends
      PROVE  UnitSound(e)' /\ Sent(e)'
  <2>1. prog' = [prog EXCEPT ![e] = r] /\ ip' = i /\ turn' = e
    BY <1>1, <1>2, <1>4, <1>5, <1>7 DEF GoOn
  <2>2. r.si < SourceLimit
    BY <1>3, <1>4 DEF UnitSound
  <2> QED BY <1>1, <1>2, <1>4, <1>5, <1>7, <2>1, <2>2, GoesOn
<1>8. CASE End(e)
  <2>1. op \in Ends
    BY <1>2, <1>5, <1>8 DEF End, Executes
  <2>2. PICK u : Leave(e, u) /\ u = [Ran(e) EXCEPT !.pc = 0, !.used = 0, !.running = FALSE]
    BY ONLY <1>8, Zenon DEF End
  <2>3. u = [r EXCEPT !.pc = 0, !.used = 0, !.running = FALSE]
    BY ONLY <1>4, <2>2, Zenon
  <2>4. u.si = prog[e].si /\ u.running = FALSE /\ u.pc = 0 /\ u.waitPos = 0
    BY <1>4, <2>3 DEF UnitType
  <2>5. prog' = [prog EXCEPT ![e] = u] /\ turn' # e
    BY <2>2, LeaveMoves
  <2>6. prog'[e] = u
    BY <2>5 DEF Typed, TypeOK
  <2>7. UnitSound(e)'
    BY <1>1, <1>3, <2>4, <2>5, <2>6 DEF UnitSound
  <2>8. CASE Quiet(e)
    BY <1>1, <2>7, <2>8 DEF Quiet, NotOut, Sent
  <2>9. ASSUME NEW p \in Programs, NEW k \in 0 .. NMessages(p) - 1,
               NEW q \in k + 1 .. NMessages(p) + 1, Sending(e, p, k, q)
        PROVE  Sent(e)'
    <3>1. InPort(e, p, k, q)' /\ InOut(e, p, q)'
      BY <1>1, <2>9 DEF Sending, InPort, InOut, NotOut
    <3>2. ~(k > 0)
      BY <1>3, <2>9 DEF Sending
    <3>3. e \notin heard' \cup fresh'
      BY <1>1, <1>8, <2>9 DEF Sending, End
    <3>4. Sending(e, p, k, q)'
      BY <2>4, <2>6, <2>9, <3>1, <3>2, <3>3 DEF Sending
    <3> QED BY <2>9, <3>4 DEF Sent
  <2> QED BY <1>3, <2>7, <2>8, <2>9 DEF Sent
<1>9. CASE Wait(e)
  <2>1. PICK n, w :
          /\ n \in ByteAt(e, ip + 1)
          /\ Executes(e, {FO_WAIT})
          /\ Leave(e, [Ran(e) EXCEPT !.waitPos = w, !.pc = ip + 2])
          /\ UNCHANGED heard
    BY ONLY <1>9, Zenon DEF Wait
  <2>2. op = FO_WAIT /\ op \notin Ends
    BY <1>2, <1>5, <2>1 DEF Executes, FO_WAIT, Ends, FO_END, FO_COUNT
  <2>3. Operands(op) = 1
    BY <2>2 DEF Operands, FO_WAIT, FO_SOURCE, FO_QUEUE, FO_PLAY_BUF
  <2>4. PICK i \in Nat : i = ip + 2 /\ i = After(g, ip)
    BY <1>2, <1>6, <2>3
  <2>5. PICK u : Leave(e, u) /\ u = [Ran(e) EXCEPT !.waitPos = w, !.pc = ip + 2]
    BY ONLY <2>1, Zenon
  <2>6. u = [r EXCEPT !.waitPos = w, !.pc = i]
    BY ONLY <1>4, <2>4, <2>5, Zenon
  <2>7. /\ u.si = prog[e].si /\ u.running = prog[e].running /\ u.pc = i
        /\ u.code = prog[e].code /\ u.used = prog[e].used
    BY <1>4, <2>6 DEF UnitType
  <2>8. prog' = [prog EXCEPT ![e] = u] /\ turn' # e
    BY <2>5, LeaveMoves
  <2>9. prog'[e] = u
    BY <2>8 DEF Typed, TypeOK
  <2>10. i \in Starts[g] /\ e \notin heard' /\ Quiet(e)
    BY <1>2, <1>5, <2>1, <2>2, <2>4
  <2>11. UnitSound(e)'
    <3>1. prog[e].si < SourceLimit /\ Matches(e, g, Len(g)) /\ given'[e] = g
      BY <1>1, <1>2, <1>3 DEF UnitSound
    <3>2. Matches(e, g, Len(g))'
      BY <2>7, <2>9, <3>1 DEF Matches
    <3>3. prog'[e].si < SourceLimit /\ prog'[e].running /\ prog'[e].pc \in Starts[given'[e]]
      BY <1>3, <2>7, <2>9, <2>10, <3>1
    <3>4. e \notin fresh' /\ e \notin heard' /\ turn' # e
      BY <1>1, <2>8, <2>10
    <3> QED BY <3>1, <3>2, <3>3, <3>4 DEF UnitSound
  <2> QED BY <1>1, <2>10, <2>11 DEF Quiet, NotOut, Sent
<1>10. CASE Source(e)
  <2>1. PICK s, u :
          /\ s \in ByteAt(e, ip + 1)
          /\ Executes(e, {FO_SOURCE})
          /\ u = [Ran(e) EXCEPT !.si = s]
          /\ prog' = [prog EXCEPT ![e] = u]
          /\ ip' = ip + 2
          /\ UNCHANGED <<turn, heard, owed, straddles>>
    BY ONLY <1>10, Zenon DEF Source
  <2>2. op = FO_SOURCE /\ op \notin Ends
    BY <1>2, <1>5, <2>1 DEF Executes, FO_SOURCE, Ends, FO_END, FO_COUNT
  <2>3. Operands(op) = 1
    BY <2>2 DEF Operands, FO_WAIT, FO_SOURCE, FO_QUEUE, FO_PLAY_BUF
  <2>4. PICK i \in Nat : i = ip + 2 /\ i = After(g, ip)
    BY <1>2, <1>6, <2>3
  <2>5. s = g[ip + 2] /\ s < SourceLimit
    <3>1. s = g[ip + 2]
      BY <1>2, <1>5, <2>1, <2>2
    <3>2. g[ip + 1] = FO_SOURCE => g[ip + 2] < SourceLimit
      BY <1>2, ProgramsAreCode DEF WellFormed
    <3> QED BY <1>5, <2>2, <3>1, <3>2
  <2>6. u = [r EXCEPT !.si = s]
    BY ONLY <1>4, <2>1, Zenon
  <2>7. /\ u.si = s /\ u.running = prog[e].running /\ u.pc = prog[e].pc
        /\ u.code = prog[e].code /\ u.used = prog[e].used
    BY <1>4, <2>6 DEF UnitType
  <2>8. e \notin heard'
    BY <1>2, <1>5, <2>1, <2>2
  <2> QED BY <1>1, <1>2, <1>5, <2>1, <2>2, <2>4, <2>5, <2>7, <2>8, GoesOn
<1>11. CASE Queue(e)
  <2>1. op = FO_QUEUE /\ op \notin Ends
    BY <1>2, <1>5, <1>11 DEF Queue, Executes, FO_QUEUE, Ends, FO_END, FO_COUNT
  <2>2. Operands(op) = 1
    BY <2>1 DEF Operands, FO_WAIT, FO_SOURCE, FO_QUEUE, FO_PLAY_BUF
  <2>3. PICK i \in Nat : i = ip + 2 /\ i = After(g, ip)
    BY <1>2, <1>6, <2>2
  <2>4. GoOn(e, i) /\ e \notin heard'
    BY <1>2, <1>3, <1>5, <1>11, <2>1, <2>3 DEF Queue, UnitSound
  <2> QED BY <1>7, <2>1, <2>3, <2>4
<1>12. CASE Signal(e)
  <2>1. op = FO_SIGNAL /\ op \notin Ends
    BY <1>2, <1>5, <1>12 DEF Signal, Executes, FO_SIGNAL, Ends, FO_END, FO_COUNT
  <2>2. Operands(op) = 0
    BY <2>1 DEF Operands, FO_WAIT, FO_SOURCE, FO_QUEUE, FO_PLAY_BUF, FO_SIGNAL
  <2>3. PICK i \in Nat : i = ip + 1 /\ i = After(g, ip) /\ i + 1 = ip + 2
    BY <1>2, <1>6, <2>2
  <2>4. g[i + 1] \in Ends
    BY <1>2, <1>5, <2>1, <2>3, ProgramsAreCode DEF WellFormed
  <2> QED BY <1>7, <1>12, <2>1, <2>3, <2>4 DEF Signal
<1>13. CASE Act(e)
  <2>1. PICK o \in FO_PLAY_BUF .. FO_COUNT - 1 :
          /\ o # FO_SIGNAL /\ Executes(e, {o})
          /\ GoOn(e, ip + 1 + Operands(o)) /\ UNCHANGED heard
    BY <1>13 DEF Act
  <2>2. op = o /\ op \notin Ends
    BY <1>2, <1>5, <2>1 DEF Executes, FO_PLAY_BUF, Ends, FO_END, FO_COUNT
  <2>3. PICK d \in 0 .. 2 : d = Operands(op)
    BY OperandsAre
  <2>4. PICK i \in Nat : i = ip + 1 + d
    BY <1>2
  <2>5. i = After(g, ip) /\ GoOn(e, i) /\ e \notin heard'
    BY <1>2, <1>5, <1>6, <2>1, <2>2, <2>3, <2>4
  <2> QED BY <1>7, <2>2, <2>5
<1> QED BY <1>8, <1>9, <1>10, <1>11, <1>12, <1>13 DEF Evaluate

(* One instruction changes nothing of the other units.                     *)
LEMMA EvaluateOthers ==
  ASSUME Typed, NEW f \in Units, Evaluate(f), NEW e \in Units \ {f}
  PROVE  e \in heard' <=> e \in heard
<1>1. CASE Wait(f)
  <2>1. UNCHANGED heard
    BY ONLY <1>1, Zenon DEF Wait
  <2> QED BY <2>1
<1>2. CASE Source(f)
  <2>1. UNCHANGED heard
    BY ONLY <1>2, Zenon DEF Source
  <2> QED BY <2>1
<1>3. CASE End(f)
  BY <1>3 DEF End
<1>4. CASE Queue(f)
  BY <1>4 DEF Queue
<1>5. CASE Signal(f)
  BY <1>5 DEF Signal
<1>6. CASE Act(f)
  BY <1>6 DEF Act
<1> QED BY <1>1, <1>2, <1>3, <1>4, <1>5, <1>6 DEF Evaluate

LEMMA OwnedStep ==
  ASSUME Typed, ProgramInv, [Next]_vars
  PROVE  Owned'
<1>1. Owned /\ out \in [Threads -> Seq(Messaged)]
  BY DEF ProgramInv, Typed, TypeOK
<1>2. ASSUME UNCHANGED out PROVE Owned'
  BY <1>1, <1>2 DEF Owned
<1>3. ASSUME NEW f \in Units, NEW p \in Programs, CallProgram(f, p)
      PROVE  Owned'
  <2>1. out' = [out EXCEPT ![Owner[f]] = Messages(f, p)] /\ Owner[f] \in Threads
    BY <1>3 DEF CallProgram, Threads
  <2>2. PICK M \in Seq(Messaged) : M = Messages(f, p) /\ \A i \in 1 .. Len(M) : M[i].exec = f
    BY NotEmpty, MessagesAre DEF IsPart
  <2>3. ASSUME NEW t \in Threads, NEW i \in 1 .. Len(out'[t])
        PROVE  Owner[out'[t][i].exec] = t /\ out'[t][i].exec = out'[t][1].exec
    <3>1. CASE t = Owner[f]
      <4>1. out'[t] = M
        BY <1>1, <2>1, <2>2, <3>1
      <4>2. 1 \in 1 .. Len(M)
        BY <4>1
      <4> QED BY <2>2, <3>1, <4>1, <4>2
    <3>2. CASE t # Owner[f]
      BY <1>1, <2>1, <3>2 DEF Owned
    <3> QED BY <3>1, <3>2
  <2> QED BY <2>3 DEF Owned
<1>4. ASSUME NEW u \in Threads, PushMessage(u)
      PROVE  Owned'
  <2>1. out' = [out EXCEPT ![u] = Tail(out[u])]
    BY <1>4 DEF PushMessage
  <2>2. PICK o \in Seq(Messaged) : o = out[u] /\ o # <<>> /\ Len(o) \in Nat \ {0}
    BY <1>1, <1>4 DEF PushMessage
  <2>3. Len(Tail(o)) = Len(o) - 1 /\ \A i \in 1 .. Len(o) - 1 : Tail(o)[i] = o[i + 1]
    BY <2>2
  <2>4. ASSUME NEW t \in Threads, NEW i \in 1 .. Len(out'[t])
        PROVE  Owner[out'[t][i].exec] = t /\ out'[t][i].exec = out'[t][1].exec
    <3>1. CASE t = u
      <4>1. out'[t] = Tail(o)
        BY <1>1, <2>1, <2>2, <3>1
      <4>2. i + 1 \in 1 .. Len(o) /\ 1 \in 1 .. Len(o) - 1 /\ 1 + 1 \in 1 .. Len(o)
        BY <2>2, <2>3, <4>1
      <4>3. Tail(o)[i] = o[i + 1] /\ Tail(o)[1] = o[1 + 1]
        BY <2>3, <4>1, <4>2
      <4> QED BY <1>1, <2>2, <3>1, <4>1, <4>2, <4>3 DEF Owned
    <3>2. CASE t # u
      BY <1>1, <2>1, <3>2 DEF Owned
    <3> QED BY <3>1, <3>2
  <2> QED BY <2>4 DEF Owned
<1>5. ASSUME NEW e \in Units, Evaluate(e) PROVE Owned'
  BY <1>2, <1>5, Executed
<1> QED
  BY <1>2, <1>3, <1>4, <1>5 DEF Next, Cycle, ReceiveMessage, Update, Mix, vars

LEMMA ProgramStep ==
  ASSUME ~Replaces, Typed, ProgramInv, [Next]_vars
  PROVE  ProgramInv'
<1>1. SUFFICES ASSUME NEW e \in Units PROVE UnitSound(e)' /\ Sent(e)'
  BY OwnedStep DEF ProgramInv
<1>2. UnitSound(e)
  BY DEF ProgramInv
<1>3. ASSUME NEW f \in Units, NEW p \in Programs, CallProgram(f, p)
      PROVE  UnitSound(e)' /\ Sent(e)'
  <2>1. UnitSound(e)'
    BY <1>2, <1>3, UnitKept DEF CallProgram, history
  <2> QED BY <1>3, <2>1, CallSent
<1>4. ASSUME NEW t \in Threads, PushMessage(t)
      PROVE  UnitSound(e)' /\ Sent(e)'
  <2>1. UnitSound(e)'
    BY <1>2, <1>4, UnitKept DEF PushMessage, history
  <2> QED BY <1>4, <2>1, PushSent
<1>5. CASE ReceiveMessage
  BY <1>5, ReceiveSound, ReceiveOther
<1>6. CASE Update
  <2>1. turn = Idle /\ TurnTo(Units) /\ UNCHANGED <<prog, port, out, heard, given, fresh>>
    BY <1>6 DEF Update, history
  <2>2. turn # e /\ (turn' = e => Runs(e) /\ ip' = prog[e].pc)
    BY <2>1, TurnsTo, UnitsAreNaturals
  <2> QED BY <2>1, <2>2, TurnedSound
<1>7. ASSUME NEW f \in Units, Evaluate(f)
      PROVE  UnitSound(e)' /\ Sent(e)'
  <2>1. CASE e = f
    BY <1>7, <2>1, EvaluateSound
  <2>2. CASE e # f
    <3>1. turn # e /\ fresh' = fresh \ {f} /\ UNCHANGED <<port, out, given>>
      BY <1>7, <2>2, Executed
    <3>2. prog'[e] = prog[e] /\ (turn' = e => Runs(e) /\ ip' = prog[e].pc)
      BY <1>7, <2>2, Moves
    <3>3. e \in heard' <=> e \in heard
      BY <1>7, <2>2, EvaluateOthers
    <3> QED BY <2>2, <3>1, <3>2, <3>3, TurnedSound
  <2> QED BY <2>1, <2>2
<1>8. CASE Mix
  BY <1>8, UnitsAreNaturals, TurnedSound DEF Mix
<1>9. CASE UNCHANGED vars
  <2>1. UnitSound(e)'
    BY <1>2, <1>9, UnitKept DEF vars, history
  <2>2. Sent(e)'
    <3>1. Sent(e)
      BY DEF ProgramInv
    <3> QED BY <1>9, <3>1 DEF vars, history, Sent, Quiet, NotOut, Sending, InPort, InOut, Matches
  <2> QED BY <2>1, <2>2
<1> QED
  BY <1>3, <1>4, <1>5, <1>6, <1>7, <1>8, <1>9 DEF Next, Cycle

LEMMA ProgramInit == Init => ProgramInv
<1> SUFFICES ASSUME Init PROVE ProgramInv
  OBVIOUS
<1>1. ASSUME NEW e \in Units PROVE UnitSound(e) /\ Quiet(e)
  <2>1. prog[e].si = 0 /\ ~prog[e].running /\ prog[e].pc = 0 /\ prog[e].waitPos = 0
    BY DEF Init
  <2>2. turn # e /\ fresh = {} /\ port = <<>>
    BY UnitsAreNaturals DEF Init
  <2>3. out[Owner[e]] = <<>>
    BY DEF Init, Threads
  <2> QED BY <2>1, <2>2, <2>3, ProgramAssumption DEF UnitSound, Quiet, NotOut
<1>2. Owned
  BY DEF Init, Owned
<1> QED BY <1>1, <1>2 DEF ProgramInv, Sent

LEMMA ProgramAlways == ASSUME ~Replaces PROVE Spec => []ProgramInv
<1>1. Typed /\ ProgramInv /\ [Next]_vars => ProgramInv'
  BY ProgramStep
<1> QED BY <1>1, ProgramInit, AlwaysTyped, PTL DEF Spec

(* A unit that runs has one whole program of one call, however the calls   *)
(* of the threads and their messages interleave.                           *)
THEOREM WholePrograms == ASSUME ~Replaces PROVE Spec => []RunsWholeProgram
<1>1. ProgramInv => RunsWholeProgram
  BY DEF ProgramInv, UnitSound, Matches, RunsWholeProgram
<1> QED BY <1>1, ProgramAlways, PTL

(* Of a well-formed program only instructions are fetched, never operands. *)
THEOREM InstructionsFetched == ASSUME ~Replaces PROVE Spec => []FetchesInstructions
<1>1. ProgramInv => FetchesInstructions
  BY DEF ProgramInv, UnitSound, FetchesInstructions
<1> QED BY <1>1, ProgramAlways, PTL

(* A program that is loaded when the one before is over begins at its      *)
(* beginning and at once.                                                  *)
THEOREM BeginningsFirst == ASSUME ~Replaces PROVE Spec => []BeginsAtBeginning
<1>1. Typed /\ ProgramInv => BeginsAtBeginning
  BY DEF ProgramInv, UnitSound, BeginsAtBeginning, Typed, HistoryOK
<1> QED BY <1>1, AlwaysTyped, ProgramAlways, PTL
=============================================================================
