----------------------------- MODULE MsgChannel -----------------------------
(***************************************************************************)
(* What a message port promises to the threads that share it: a bounded    *)
(* first-in first-out queue, each message handed to exactly one consumer.  *)
(* MsgPort (support/tmsg.c) is shown to implement this specification, and  *)
(* FaunThreads uses it for the two ports between application and mixer.    *)
(***************************************************************************)
EXTENDS Integers, Sequences

CONSTANTS Consumers,    \* threads that take messages
          Avail,        \* capacity of the port, in messages
          Msgs,         \* the messages
          NoMsg         \* what a consumer holds before its first message

VARIABLES queue,        \* messages put and not yet taken, oldest first
          taken         \* taken[c]: the message last handed to consumer c

channelVars == <<queue, taken>>

ChannelInit ==
  /\ queue = <<>>
  /\ taken = [c \in Consumers |-> NoMsg]

Put(m) ==
  /\ Len(queue) < Avail
  /\ queue' = Append(queue, m)
  /\ UNCHANGED taken

Take(c) ==
  /\ queue # <<>>
  /\ taken' = [taken EXCEPT ![c] = Head(queue)]
  /\ queue' = Tail(queue)

ChannelNext ==
  \/ \E m \in Msgs : Put(m)
  \/ \E c \in Consumers : Take(c)

ChannelSpec == ChannelInit /\ [][ChannelNext]_channelVars

=============================================================================
