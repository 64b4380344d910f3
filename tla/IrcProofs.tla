----------------------------- MODULE IrcProofs ------------------------------
(***************************************************************************)
(* The parts of crates/irc, which share no state: what the client does     *)
(* with the messages send_msg accepted, proved for any server and any      *)
(* capacities; the slot of the request layer, for every number of calls    *)
(* and of messages from the server; and the event sink of a room, which    *)
(* implements Broadcast for any set of listeners, any capacities and any   *)
(* number of events.                                                       *)
(***************************************************************************)
EXTENDS IrcClient, IrcRpc, RoomEvents, SequenceTheorems, TLAPS

----------------------------------------------------------------------------
(* The client: client.rs. *)

JoinMessage == [cmd : {"JOIN"}, n : Nat]
OutMessage ==
    {Cap("LS", 2, <<"302">>)}
      \cup [cmd : {"CAP"}, sub : {"REQ", "END"}, args : {1, 2},
            list : Seq(STRING)]
      \cup [cmd : {"PASS", "NICK"}] \cup JoinMessage

ClientTypeOK ==
    /\ phase \in {"ls", "ack", "welcome", "run", "error", "panic"}
    /\ caps \in Seq(STRING)
    /\ incoming \in Seq(ServerMessages)
    /\ seen \in Seq(ServerMessages)
    /\ serverOpen \in BOOLEAN
    /\ written \in Seq(OutMessage)
    /\ input \in Seq(JoinMessage)
    /\ accepted \in Seq(JoinMessage)
    /\ inputLoop \in {"select", "ended"}
    /\ outputLoop \in {"read", "flush", "ended"}
    /\ caller \in {"none", "open", "closing", "closed", "panic"}

(* How much the handshake has written, and that no message of the caller   *)
(* is accepted before its end.                                             *)
Handshake ==
    /\ phase = "ls" => Len(written) = 1
    /\ phase = "ack" => Len(written) = 2
    /\ phase = "welcome" => Len(written) = Greeting
    /\ phase \in {"ls", "ack", "welcome"} => caller = "none"
    /\ phase = "run" => caller # "none"
    /\ caller = "none" => /\ Len(written) <= Greeting
                          /\ accepted = <<>> /\ input = <<>>
                          /\ inputLoop = "select" /\ outputLoop = "read"
    /\ caller # "none" => Len(written) >= Greeting

(* How many of the caller's messages are written.                          *)
Count == Len(written) - Greeting

InAcceptedOrder ==
    \A i \in 1..Count :
        i <= Len(accepted) /\ written[Greeting + i] = accepted[i]

(* The channel holds what is accepted and not written, until the input     *)
(* loop drops it.                                                          *)
RestIsInChannel ==
    /\ inputLoop = "select" /\ caller # "none" =>
         /\ Len(accepted) = Count + Len(input)
         /\ \A i \in 1..Len(input) : input[i] = accepted[Count + i]
    /\ inputLoop = "ended" => input = <<>>

OnlyPings == \A i \in DOMAIN seen : seen[i].cmd = "PING"

(* Why a loop has ended: the server closed or sent something else than a   *)
(* ping, or there was no more to write.                                    *)
EndsForACause ==
    phase = "run" /\ serverOpen /\ OnlyPings =>
        /\ inputLoop = "ended" => Len(accepted) = Count
        /\ outputLoop = "ended" => inputLoop = "ended"

ClientIInv ==
    /\ ClientTypeOK /\ Handshake /\ InAcceptedOrder /\ RestIsInChannel
    /\ EndsForACause

----------------------------------------------------------------------------
(* Lemma: lengths are numbers.                                             *)
LEMMA ClientLengths ==
    ASSUME ClientTypeOK
    PROVE  /\ Len(written) \in Nat /\ Len(input) \in Nat
           /\ Len(accepted) \in Nat /\ Count \in Int
           /\ DOMAIN seen = 1..Len(seen) /\ Len(seen) \in Nat
BY LenProperties DEF ClientTypeOK, Count, Greeting

(* Lemma: a new connection has written CAP LS and nothing else.            *)
LEMMA ClientInitIInv == ClientInit => ClientIInv
<1> SUFFICES ASSUME ClientInit PROVE ClientIInv
  OBVIOUS
<1>1. Cap("LS", 2, <<"302">>) \in OutMessage
  BY DEF OutMessage
<1>2. written \in Seq(OutMessage) /\ Len(written) = 1
  BY <1>1 DEF ClientInit
<1>3. ClientTypeOK
  BY <1>2, EmptySeq DEF ClientInit, ClientTypeOK
<1> QED
  BY <1>2, <1>3
     DEF ClientInit, ClientIInv, Handshake, InAcceptedOrder, Count, Greeting,
         RestIsInChannel, EndsForACause

(* Lemma: reading takes the oldest message of the server.                  *)
LEMMA ReadProperties ==
    ASSUME ClientTypeOK, NEW m \in ServerMessages, Read(m)
    PROVE  incoming' \in Seq(ServerMessages)
BY HeadTailProperties DEF ClientTypeOK, Read

(* Lemma: the handshake goes on, or fails, with at most the messages of    *)
(* its phase written.                                                      *)
LEMMA HandshakeGoesOn ==
    ASSUME ClientIInv, caller = "none",
           caps' \in Seq(STRING), incoming' \in Seq(ServerMessages),
           written' \in Seq(OutMessage), Len(written') <= Greeting,
           phase' \in {"ls", "ack", "welcome", "error", "panic"},
           phase' = "ls" => Len(written') = 1,
           phase' = "ack" => Len(written') = 2,
           phase' = "welcome" => Len(written') = Greeting,
           UNCHANGED <<seen, serverOpen, taskVars, callerVars>>
    PROVE  ClientIInv'
<1>1. ClientTypeOK' /\ Handshake'
  BY DEF ClientIInv, ClientTypeOK, Handshake, taskVars, callerVars
<1>2. 1..Count' = {}
  BY <1>1, ClientLengths DEF Count, Greeting, ClientTypeOK
<1>3. InAcceptedOrder'
  BY <1>2 DEF InAcceptedOrder
<1>4. RestIsInChannel' /\ EndsForACause'
  BY DEF ClientIInv, Handshake, RestIsInChannel, EndsForACause, taskVars,
         callerVars
<1> QED
  BY <1>1, <1>3, <1>4 DEF ClientIInv

(* Lemma: a step of the capability negotiation.                            *)
LEMMA ReadCapsStep ==
    ASSUME ClientIInv, ReadLs \/ ReadAck
    PROVE  ClientIInv'
<1> USE DEF ClientIInv
<1>1. PICK fp, sub, tp :
        /\ <<fp, sub, tp>> \in {<<"ls", "LS", "ack">>,
                               <<"ack", "ACK", "welcome">>}
        /\ ReadCaps(fp, sub, tp)
  BY DEF ReadLs, ReadAck
<1>2. /\ phase = fp /\ fp \in {"ls", "ack"} /\ caller = "none"
      /\ UNCHANGED <<seen, serverOpen, taskVars, callerVars>>
  <2>1. fp \in {"ls", "ack"}
    BY <1>1
  <2>2. phase = fp /\ UNCHANGED <<seen, serverOpen, taskVars, callerVars>>
    BY <1>1 DEF ReadCaps
  <2> QED
    BY <2>1, <2>2 DEF Handshake
<1>3. PICK m \in ServerMessages :
         /\ Read(m)
         /\ \/ phase' = "error" /\ UNCHANGED <<caps, written>>
            \/ phase' = "panic" /\ UNCHANGED <<caps, written>>
            \/ /\ m.cmd = "CAP"
               /\ \/ caps' = caps \o m.list /\ UNCHANGED <<phase, written>>
                  \/ /\ phase' = tp /\ caps' = <<>>
                     /\ written' = written \o CapsReply(sub, caps \o m.list)
  BY <1>1 DEF ReadCaps
<1>4. incoming' \in Seq(ServerMessages)
  BY <1>3, ReadProperties
<1>5. CASE phase' \in {"error", "panic"} /\ UNCHANGED <<caps, written>>
  BY <1>2, <1>4, <1>5, HandshakeGoesOn DEF ClientTypeOK, Handshake
<1>6. CASE /\ m.cmd = "CAP"
           /\ caps' = caps \o m.list /\ UNCHANGED <<phase, written>>
  <2>1. caps' \in Seq(STRING)
    BY <1>6, ClientAssumption, ConcatProperties DEF ClientTypeOK
  <2> QED
    BY <1>1, <1>2, <1>4, <1>6, <2>1, HandshakeGoesOn
       DEF ClientTypeOK, Handshake
<1>7. CASE /\ m.cmd = "CAP" /\ phase' = tp /\ caps' = <<>>
           /\ written' = written \o CapsReply(sub, caps \o m.list)
  <2> DEFINE list == caps \o m.list
             reply == CapsReply(sub, list)
  <2>1. list \in Seq(STRING)
    BY <1>7, ClientAssumption, ConcatProperties DEF ClientTypeOK
  <2> HIDE DEF list
  <2>2. /\ Cap("REQ", 2, list) \in OutMessage
        /\ Simple("PASS") \in OutMessage /\ Simple("NICK") \in OutMessage
        /\ Cap("END", 1, <<>>) \in OutMessage
    BY <2>1, EmptySeq DEF Cap, Simple, OutMessage
  <2>3. CASE sub = "LS"
    <3>1. reply \in Seq(OutMessage) /\ Len(reply) = 1
      BY <2>2, <2>3 DEF CapsReply
    <3> HIDE DEF reply
    <3>2. written' = written \o reply
      BY <1>7 DEF reply, list
    <3>3. written' \in Seq(OutMessage) /\ Len(written') = Len(written) + 1
      <4>1. written \in Seq(OutMessage)
        BY DEF ClientTypeOK
      <4>2. /\ written \o reply \in Seq(OutMessage)
            /\ Len(written \o reply) = Len(written) + Len(reply)
        BY <3>1, <4>1, ConcatProperties
      <4> QED
        BY <3>1, <3>2, <4>2
    <3>4. Len(written) = 1 /\ phase' = "ack"
      BY <1>1, <1>2, <1>7, <2>3 DEF Handshake
    <3> QED
      BY <1>2, <1>4, <1>7, <3>3, <3>4, EmptySeq, HandshakeGoesOn
         DEF Greeting
  <2>4. CASE sub = "ACK"
    <3>1. reply \in Seq(OutMessage) /\ Len(reply) = 3
      BY <2>2, <2>4 DEF CapsReply
    <3> HIDE DEF reply
    <3>2. written' = written \o reply
      BY <1>7 DEF reply, list
    <3>3. written' \in Seq(OutMessage) /\ Len(written') = Len(written) + 3
      <4>1. written \in Seq(OutMessage)
        BY DEF ClientTypeOK
      <4>2. /\ written \o reply \in Seq(OutMessage)
            /\ Len(written \o reply) = Len(written) + Len(reply)
        BY <3>1, <4>1, ConcatProperties
      <4> QED
        BY <3>1, <3>2, <4>2
    <3>4. Len(written) = 2 /\ phase' = "welcome"
      BY <1>1, <1>2, <1>7, <2>4 DEF Handshake
    <3> QED
      BY <1>2, <1>4, <1>7, <3>3, <3>4, EmptySeq, HandshakeGoesOn
         DEF Greeting
  <2> QED
    BY <1>1, <2>3, <2>4
<1> QED
  BY <1>3, <1>5, <1>6, <1>7

(* Lemma: the end of the message of the day starts the task, with nothing  *)
(* accepted and nothing but the handshake written.                         *)
LEMMA ReadWelcomeStep ==
    ASSUME ClientIInv, ReadWelcome
    PROVE  ClientIInv'
<1> USE DEF ClientIInv
<1>1. PICK m \in ServerMessages :
         /\ Read(m)
         /\ \/ phase' \in {phase, "error"} /\ caller' = caller
            \/ phase' = "run" /\ caller' = "open"
  BY DEF ReadWelcome
<1>2. /\ phase = "welcome" /\ caller = "none"
      /\ UNCHANGED <<caps, seen, serverOpen, written, taskVars, accepted>>
  BY DEF ReadWelcome, Handshake
<1>3. incoming' \in Seq(ServerMessages)
  BY <1>1, ReadProperties
<1>4. CASE phase' \in {phase, "error"} /\ caller' = caller
  BY <1>2, <1>3, <1>4, HandshakeGoesOn
     DEF ClientTypeOK, Handshake, callerVars, Greeting
<1>5. CASE phase' = "run" /\ caller' = "open"
  <2>1. ClientTypeOK' /\ Handshake'
    BY <1>2, <1>3, <1>5
       DEF ClientTypeOK, Handshake, taskVars, Greeting
  <2>2. /\ Count' = 0 /\ input' = <<>> /\ accepted' = <<>>
        /\ inputLoop' = "select" /\ outputLoop' = "read"
    BY <1>2 DEF Handshake, Count, Greeting, taskVars
  <2> QED
    BY <1>5, <2>1, <2>2, EmptySeq
       DEF InAcceptedOrder, RestIsInChannel, EndsForACause
<1> QED
  BY <1>1, <1>4, <1>5

(* Lemma: a step that neither accepts, writes nor drops a message.         *)
LEMMA Undisturbed ==
    ASSUME ClientIInv, ClientTypeOK', EndsForACause',
           UNCHANGED <<phase, written, input, inputLoop, accepted>>,
           (caller' = "none") <=> (caller = "none"),
           caller = "none" => outputLoop' = outputLoop
    PROVE  ClientIInv'
<1>1. Handshake'
  BY DEF ClientIInv, Handshake
<1>2. InAcceptedOrder' /\ RestIsInChannel'
  BY DEF ClientIInv, InAcceptedOrder, RestIsInChannel, Count
<1> QED
  BY <1>1, <1>2 DEF ClientIInv

(* Lemma: the input loop is left, with the receiver of the channel.        *)
LEMMA InputLeft ==
    ASSUME ClientIInv, LeaveInput, phase = "run", phase' \in {"run", "panic"},
           ClientTypeOK', EndsForACause',
           UNCHANGED <<written, accepted, caller>>
    PROVE  ClientIInv'
<1>1. caller # "none" /\ input' = <<>> /\ inputLoop' = "ended"
  BY DEF ClientIInv, Handshake, LeaveInput
<1>2. Handshake'
  BY <1>1 DEF ClientIInv, Handshake
<1>3. InAcceptedOrder' /\ RestIsInChannel'
  BY <1>1 DEF ClientIInv, InAcceptedOrder, RestIsInChannel, Count
<1> QED
  BY <1>2, <1>3 DEF ClientIInv

(* Lemma: the input loop ends with everything written, or because the      *)
(* server closed or sent something else than a ping.                       *)
LEMMA InputEndsStep ==
    ASSUME ClientIInv,
           \/ WriteInput /\ LeaveInput /\ ~serverOpen /\ written' = written
           \/ InputEnds \/ PingsEnd
    PROVE  ClientIInv'
<1>1. /\ phase = "run" /\ inputLoop = "select" /\ LeaveInput /\ phase' = phase
      /\ UNCHANGED <<caps, incoming, seen, serverOpen, written, outputLoop,
                     accepted, caller>>
  BY DEF WriteInput, InputEnds, PingsEnd, Selecting, callerVars
<1>2. ClientTypeOK' /\ caller # "none"
  BY <1>1, EmptySeq DEF ClientIInv, ClientTypeOK, LeaveInput, Handshake
<1>3. ~serverOpen \/ ~OnlyPings \/ input = <<>>
  BY <1>1 DEF InputEnds, PingsEnd, ClientIInv, EndsForACause
<1>4. ASSUME input = <<>> PROVE Len(accepted) = Count
  <2>1. Len(accepted) = Count + Len(input)
    BY <1>1, <1>2 DEF ClientIInv, RestIsInChannel
  <2> QED
    BY <1>4, <2>1, EmptySeq, ClientLengths DEF ClientIInv
<1>5. EndsForACause'
  BY <1>1, <1>3, <1>4 DEF EndsForACause, OnlyPings, Count, LeaveInput
<1> QED
  BY <1>1, <1>2, <1>5, InputLeft

(* Lemma: the input loop writes the oldest message of the channel.         *)
LEMMA WriteInputStep ==
    ASSUME ClientIInv, WriteInput,
           written' = Append(written, Head(input)), input' = Tail(input),
           UNCHANGED inputLoop
    PROVE  ClientIInv'
<1> USE DEF ClientIInv
<1>1. /\ phase = "run" /\ inputLoop = "select" /\ input # <<>>
      /\ caller # "none"
      /\ UNCHANGED <<phase, caps, incoming, seen, serverOpen, outputLoop,
                     accepted, caller>>
  BY DEF WriteInput, Selecting, callerVars, Handshake
<1>2. /\ input' \in Seq(JoinMessage) /\ Head(input) \in JoinMessage
      /\ Head(input) = input[1] /\ Len(input) >= 1
      /\ Len(input') = Len(input) - 1
      /\ \A i \in 1..Len(input') : input'[i] = input[i + 1]
  BY <1>1, HeadTailProperties, EmptySeq DEF ClientTypeOK
<1>3. /\ written' \in Seq(OutMessage) /\ Len(written') = Len(written) + 1
      /\ \A i \in 1..Len(written) : written'[i] = written[i]
      /\ written'[Len(written) + 1] = Head(input)
  <2>1. Head(input) \in OutMessage /\ written \in Seq(OutMessage)
    BY <1>2 DEF OutMessage, ClientTypeOK
  <2> QED
    BY <2>1, AppendProperties
<1>4. Count' = Count + 1 /\ Count \in Nat
  BY <1>1, <1>3, ClientLengths DEF Count, Greeting, Handshake
<1>5. /\ Len(accepted) = Count + Len(input)
      /\ \A i \in 1..Len(input) : input[i] = accepted[Count + i]
  BY <1>1 DEF RestIsInChannel
<1>6. ClientTypeOK' /\ Handshake'
  BY <1>1, <1>2, <1>3, ClientLengths DEF ClientTypeOK, Handshake, Greeting
<1>7. InAcceptedOrder'
  <2> SUFFICES ASSUME NEW i \in 1..Count'
               PROVE  /\ i <= Len(accepted)
                      /\ written'[Greeting + i] = accepted[i]
    BY <1>1 DEF InAcceptedOrder
  <2>1. CASE i \in 1..Count
    <3>1. Greeting + i \in 1..Len(written)
      BY <2>1, ClientLengths DEF Count, Greeting
    <3> QED
      BY <1>3, <2>1, <3>1 DEF InAcceptedOrder
  <2>2. CASE i = Count + 1
    <3>1. Greeting + i = Len(written) + 1
      BY <2>2, ClientLengths DEF Count, Greeting
    <3>2. input[1] = accepted[Count + 1] /\ 1 <= Len(input)
      BY <1>2, <1>5, ClientLengths
    <3> QED
      BY <1>2, <1>3, <1>4, <1>5, <2>2, <3>1, <3>2, ClientLengths
  <2>3. i \in 1..Count \/ i = Count + 1
    BY <1>4
  <2> QED
    BY <2>1, <2>2, <2>3, Zenon
<1>8. RestIsInChannel'
  <2>1. Len(accepted') = Count' + Len(input')
    BY <1>1, <1>2, <1>4, <1>5, ClientLengths
  <2>2. ASSUME NEW i \in 1..Len(input') PROVE input'[i] = accepted'[Count' + i]
    <3>1. i + 1 \in 1..Len(input) /\ Count' + i = Count + (i + 1)
      BY <1>2, <1>4, ClientLengths
    <3> QED
      BY <1>1, <1>2, <1>5, <3>1
  <2> QED
    BY <1>1, <2>1, <2>2 DEF RestIsInChannel
<1>9. EndsForACause'
  BY <1>1 DEF EndsForACause, OnlyPings
<1> QED
  BY <1>6, <1>7, <1>8, <1>9

(* Lemma: a message that send_msg accepts waits at the end of the channel. *)
LEMMA SendMsgStep ==
    ASSUME ClientIInv, SendMsg
    PROVE  ClientIInv'
<1> USE DEF ClientIInv
<1> DEFINE m == [cmd |-> "JOIN", n |-> Len(accepted) + 1]
<1>1. /\ caller = "open" /\ inputLoop = "select"
      /\ input' = Append(input, m) /\ accepted' = Append(accepted, m)
      /\ UNCHANGED <<phase, caps, incoming, seen, serverOpen, written,
                     inputLoop, outputLoop, caller>>
  BY DEF SendMsg
<1>2. m \in JoinMessage
  BY ClientLengths DEF JoinMessage
<1> HIDE DEF m
<1>3. /\ input' \in Seq(JoinMessage) /\ Len(input') = Len(input) + 1
      /\ \A i \in 1..Len(input) : input'[i] = input[i]
      /\ input'[Len(input) + 1] = m
  BY <1>1, <1>2, AppendProperties DEF ClientTypeOK
<1>4. /\ accepted' \in Seq(JoinMessage) /\ Len(accepted') = Len(accepted) + 1
      /\ \A i \in 1..Len(accepted) : accepted'[i] = accepted[i]
      /\ accepted'[Len(accepted) + 1] = m
  BY <1>1, <1>2, AppendProperties DEF ClientTypeOK
<1>5. /\ Len(accepted) = Count + Len(input)
      /\ \A i \in 1..Len(input) : input[i] = accepted[Count + i]
      /\ Count' = Count /\ Count \in Nat
  BY <1>1, ClientLengths DEF RestIsInChannel, Count, Greeting, Handshake
<1>6. ClientTypeOK' /\ Handshake'
  BY <1>1, <1>3, <1>4 DEF ClientTypeOK, Handshake
<1>7. InAcceptedOrder'
  BY <1>1, <1>4, <1>5, ClientLengths DEF InAcceptedOrder
<1>8. RestIsInChannel'
  <2>1. Len(accepted') = Count' + Len(input')
    BY <1>3, <1>4, <1>5, ClientLengths
  <2>2. ASSUME NEW i \in 1..Len(input') PROVE input'[i] = accepted'[Count' + i]
    <3>1. CASE i \in 1..Len(input)
      BY <1>3, <1>4, <1>5, <3>1, ClientLengths
    <3>2. CASE i = Len(input) + 1
      BY <1>3, <1>4, <1>5, <3>2, ClientLengths
    <3> QED
      BY <1>3, <3>1, <3>2, ClientLengths
  <2> QED
    BY <1>1, <2>1, <2>2 DEF RestIsInChannel
<1>9. EndsForACause'
  BY <1>1 DEF EndsForACause, OnlyPings
<1> QED
  BY <1>6, <1>7, <1>8, <1>9

(* Lemma: reading a message.  The output loop ends on anything but a ping, *)
(* or on a ping that nobody receives any more.                             *)
LEMMA ReadMessageStep ==
    ASSUME ClientIInv, ReadMessage
    PROVE  ClientIInv'
<1>1. PICK m \in ServerMessages :
        /\ Read(m) /\ seen' = Append(seen, m)
        /\ \/ /\ m.cmd = "BARE" /\ phase' = "panic"
              /\ outputLoop' = "ended" /\ LeaveInput
           \/ /\ m.cmd = "PING" /\ outputLoop' \in {"read", "flush"}
              /\ UNCHANGED <<phase, inputLoop, input>>
           \/ /\ m.cmd = "PING" => inputLoop # "select"
              /\ outputLoop' = "ended" /\ UNCHANGED <<phase, inputLoop, input>>
  BY DEF ReadMessage
<1>2. /\ phase = "run"
      /\ UNCHANGED <<caps, serverOpen, written, caller, accepted>>
  BY DEF ReadMessage, callerVars
<1>3. /\ incoming' \in Seq(ServerMessages) /\ seen' \in Seq(ServerMessages)
      /\ Len(seen') = Len(seen) + 1 /\ Len(seen) \in Nat
      /\ DOMAIN seen = 1..Len(seen) /\ DOMAIN seen' = 1..Len(seen')
      /\ \A i \in 1..Len(seen) : seen'[i] = seen[i]
      /\ seen'[Len(seen) + 1] = m
  BY <1>1, ReadProperties, AppendProperties, LenProperties
     DEF ClientIInv, ClientTypeOK
<1>4. OnlyPings' => OnlyPings /\ m.cmd = "PING"
  <2>1. \A i \in DOMAIN seen : i \in DOMAIN seen' /\ seen'[i] = seen[i]
    BY <1>3
  <2>2. Len(seen) + 1 \in DOMAIN seen' /\ seen'[Len(seen) + 1] = m
    BY <1>3
  <2> QED
    BY <2>1, <2>2 DEF OnlyPings
<1>5. caller # "none" /\ inputLoop \in {"select", "ended"}
  BY <1>2 DEF ClientIInv, ClientTypeOK, Handshake
<1>6. CASE /\ phase' = "panic" /\ outputLoop' = "ended" /\ LeaveInput
  <2>1. ClientTypeOK' /\ EndsForACause'
    BY <1>2, <1>3, <1>6, EmptySeq
       DEF ClientIInv, ClientTypeOK, EndsForACause, LeaveInput
  <2> QED
    BY <1>2, <1>6, <2>1, InputLeft
<1>7. CASE /\ outputLoop' \in {"read", "flush", "ended"}
           /\ outputLoop' = "ended" /\ m.cmd = "PING" => inputLoop = "ended"
           /\ UNCHANGED <<phase, inputLoop, input>>
  <2>1. ClientTypeOK'
    BY <1>2, <1>3, <1>7 DEF ClientIInv, ClientTypeOK
  <2>2. EndsForACause'
    BY <1>2, <1>4, <1>7 DEF ClientIInv, EndsForACause, Count
  <2> QED
    BY <1>2, <1>5, <1>7, <2>1, <2>2, Undisturbed
<1> QED
  BY <1>1, <1>5, <1>6, <1>7

(* Lemma: the other steps of the output loop, of the caller and of the     *)
(* server.                                                                 *)
LEMMA OtherStep ==
    ASSUME ClientIInv,
           \/ TakePing \/ PingFlushed \/ OutputEnds
           \/ Close \/ CloseReturns \/ DropClient
           \/ ServerSends \/ ServerCloses
    PROVE  ClientIInv'
<1>1. UNCHANGED <<phase, caps, seen, written, input, inputLoop, accepted>>
  BY DEF TakePing, PingFlushed, OutputEnds, Close, CloseReturns, DropClient,
         ServerSends, ServerCloses, callerVars, taskVars
<1>2. /\ incoming' \in Seq(ServerMessages)
      /\ serverOpen' \in BOOLEAN /\ (serverOpen' => serverOpen)
      /\ outputLoop' \in {"read", "flush", "ended"}
      /\ caller' \in {"none", "open", "closing", "closed", "panic"}
      /\ (caller' = "none") <=> (caller = "none")
      /\ caller = "none" => outputLoop' = outputLoop
      /\ outputLoop' = "ended" => outputLoop = "ended" \/ ~serverOpen
  <2>1. CASE TakePing \/ PingFlushed \/ OutputEnds
    BY <2>1
       DEF TakePing, PingFlushed, OutputEnds, callerVars, ClientIInv,
           ClientTypeOK, Handshake, Selecting
  <2>2. CASE Close \/ CloseReturns \/ DropClient
    BY <2>2
       DEF Close, CloseReturns, DropClient, taskVars, ClientIInv,
           ClientTypeOK
  <2>3. CASE ServerSends
    BY <2>3, AppendProperties
       DEF ServerSends, taskVars, callerVars, ClientIInv, ClientTypeOK
  <2>4. CASE ServerCloses
    BY <2>4
       DEF ServerCloses, taskVars, callerVars, ClientIInv, ClientTypeOK
  <2> QED
    BY <2>1, <2>2, <2>3, <2>4
<1>3. ClientTypeOK'
  BY <1>1, <1>2 DEF ClientIInv, ClientTypeOK
<1>4. EndsForACause'
  BY <1>1, <1>2 DEF ClientIInv, EndsForACause, OnlyPings, Count
<1> QED
  BY <1>1, <1>2, <1>3, <1>4, Undisturbed

(* Lemma: the invariant is inductive.                                      *)
LEMMA ClientStep == ClientIInv /\ [ClientNext]_clientVars => ClientIInv'
<1> SUFFICES ASSUME ClientIInv, [ClientNext]_clientVars PROVE ClientIInv'
  OBVIOUS
<1>1. CASE ReadLs \/ ReadAck
  BY <1>1, ReadCapsStep
<1>2. CASE ReadWelcome
  BY <1>2, ReadWelcomeStep
<1>3. CASE HandshakeEnds
  <2>1. /\ phase \in {"ls", "ack", "welcome"} /\ phase' = "error"
        /\ UNCHANGED <<caps, incoming, seen, serverOpen, written, taskVars,
                       callerVars>>
    BY <1>3 DEF HandshakeEnds
  <2>2. caller = "none" /\ Len(written) <= Greeting
    BY <2>1 DEF ClientIInv, Handshake
  <2> QED
    BY <2>1, <2>2, HandshakeGoesOn DEF ClientIInv, ClientTypeOK
<1>4. CASE WriteInput
  <2>1. \/ /\ written' = Append(written, Head(input))
           /\ input' = Tail(input) /\ UNCHANGED inputLoop
        \/ ~serverOpen /\ LeaveInput /\ written' = written
    BY <1>4 DEF WriteInput
  <2> QED
    BY <1>4, <2>1, WriteInputStep, InputEndsStep
<1>5. CASE InputEnds \/ PingsEnd
  BY <1>5, InputEndsStep
<1>6. CASE ReadMessage
  BY <1>6, ReadMessageStep
<1>7. CASE SendMsg
  BY <1>7, SendMsgStep
<1>8. CASE \/ TakePing \/ PingFlushed \/ OutputEnds
           \/ Close \/ CloseReturns \/ DropClient
           \/ ServerSends \/ ServerCloses
  BY <1>8, OtherStep
<1>9. CASE UNCHANGED clientVars
  BY <1>9
     DEF clientVars, ClientIInv, ClientTypeOK, Handshake, InAcceptedOrder,
         RestIsInChannel, EndsForACause, OnlyPings, Count
<1> QED
  BY <1>1, <1>2, <1>3, <1>4, <1>5, <1>6, <1>7, <1>8, <1>9 DEF ClientNext

(* Lemma: the invariant gives the property: what was written after the     *)
(* handshake, followed by what the channel holds, is what was accepted.    *)
LEMMA ClientIInvImplies == ClientIInv => AcceptedIsWritten
<1> SUFFICES ASSUME ClientIInv PROVE AcceptedIsWritten
  OBVIOUS
<1> USE DEF ClientIInv
<1>1. /\ Len(written) \in Nat /\ Len(input) \in Nat /\ Len(accepted) \in Nat
      /\ Count \in Int
  BY ClientLengths
<1> DEFINE c == IF Count >= 0 THEN Count ELSE 0
<1>2. /\ Len(Joins) = c /\ c \in Nat /\ c <= Len(accepted)
      /\ \A i \in 1..c : Joins[i] = accepted[i]
      /\ \A i \in 1..c : accepted[i] \in JoinMessage
      /\ Joins \in Seq(JoinMessage)
  <2>1. /\ c \in Nat /\ c <= Len(accepted)
        /\ \A i \in 1..c : written[Greeting + i] = accepted[i]
    <3>1. CASE Count <= 0
      BY <1>1, <3>1
    <3>2. CASE Count > 0
      BY <1>1, <3>2 DEF InAcceptedOrder
    <3> QED
      BY <1>1, <3>1, <3>2
  <2>2. \A i \in 1..c : accepted[i] \in JoinMessage
    BY <1>1, <2>1 DEF ClientTypeOK
  <2>3. \A i \in (Greeting + 1)..Len(written) : written[i] \in JoinMessage
    <3> SUFFICES ASSUME NEW i \in (Greeting + 1)..Len(written)
                 PROVE  written[i] \in JoinMessage
      OBVIOUS
    <3>1. i - Greeting \in 1..c /\ Greeting + (i - Greeting) = i
      BY <1>1 DEF Count, Greeting
    <3> QED
      BY <2>1, <2>2, <3>1
  <2>4. /\ Joins \in Seq(JoinMessage) /\ Len(Joins) = c
        /\ \A i \in 1..c : Joins[i] = written[Greeting + i]
    <3>1. Greeting + 1 \in Int /\ Len(written) \in Int
      BY <1>1 DEF Greeting
    <3>2. /\ Joins \in Seq(JoinMessage)
          /\ Len(Joins) = IF Greeting + 1 <= Len(written)
                            THEN Len(written) - (Greeting + 1) + 1 ELSE 0
          /\ \A i \in 1..(Len(written) - (Greeting + 1) + 1) :
               Joins[i] = written[(Greeting + 1) + i - 1]
      BY <2>3, <3>1, SubSeqProperties DEF Joins
    <3> QED
      BY <1>1, <3>2 DEF Count, Greeting
  <2> QED
    BY <2>1, <2>2, <2>4
<1> HIDE DEF c
<1>3. IsPrefix(Joins, accepted)
  <2>1. SubSeq(Joins, 1, Len(Joins)) = SubSeq(accepted, 1, Len(Joins))
    <3>1. /\ SubSeq(Joins, 1, c) \in Seq(JoinMessage)
          /\ SubSeq(accepted, 1, c) \in Seq(JoinMessage)
          /\ Len(SubSeq(Joins, 1, c)) = c
          /\ Len(SubSeq(accepted, 1, c)) = c
          /\ \A i \in 1..c : SubSeq(Joins, 1, c)[i] = Joins[i]
          /\ \A i \in 1..c : SubSeq(accepted, 1, c)[i] = accepted[i]
      <4>1. \A i \in 1..c : Joins[i] \in JoinMessage
        BY <1>2
      <4> QED
        BY <1>2, <4>1, SubSeqProperties
    <3> QED
      BY <1>2, <3>1, SeqEqual
  <2> QED
    BY <1>2, <2>1 DEF IsPrefix
<1>4. ASSUME phase = "run", serverOpen, OnlyPings
      PROVE  accepted = Joins \o input
  <2>1. /\ Len(accepted) = Count + Len(input) /\ c = Count
        /\ \A i \in 1..Len(input) : input[i] = accepted[c + i]
    <3>1. caller # "none" /\ c = Count
      BY <1>1, <1>4 DEF Handshake, c, Count, Greeting
    <3>2. CASE inputLoop = "select"
      BY <3>1, <3>2 DEF RestIsInChannel
    <3>3. CASE inputLoop = "ended"
      BY <1>1, <1>4, <3>1, <3>3, EmptySeq DEF RestIsInChannel, EndsForACause
    <3> QED
      BY <3>2, <3>3 DEF ClientTypeOK
  <2>2. /\ Joins \o input \in Seq(JoinMessage)
        /\ Len(Joins \o input) = c + Len(input)
        /\ \A i \in 1..c + Len(input) : (Joins \o input)[i] =
             IF i <= c THEN Joins[i] ELSE input[i - c]
    <3>1. input \in Seq(JoinMessage)
      BY DEF ClientTypeOK
    <3> QED
      BY <1>2, <3>1, ConcatProperties
  <2>3. ASSUME NEW i \in 1..Len(accepted)
        PROVE  accepted[i] = (Joins \o input)[i]
    <3>1. CASE i <= c
      BY <1>1, <1>2, <2>1, <2>2, <3>1
    <3>2. CASE i > c
      <4>1. i - c \in 1..Len(input) /\ c + (i - c) = i
        BY <1>1, <1>2, <2>1, <3>2
      <4>2. i \in 1..c + Len(input) /\ ~(i <= c)
        BY <1>1, <1>2, <2>1, <3>2
      <4>3. (Joins \o input)[i] = input[i - c]
        BY <2>2, <4>2
      <4>4. input[i - c] = accepted[c + (i - c)]
        BY <2>1, <4>1
      <4> QED
        BY <4>1, <4>3, <4>4
    <3>3. i <= c \/ i > c
      BY <1>2
    <3> QED
      BY <3>1, <3>2, <3>3, Zenon
  <2>4. accepted \in Seq(JoinMessage) /\ Len(accepted) = Len(Joins \o input)
    BY <2>1, <2>2 DEF ClientTypeOK
  <2> QED
    BY <2>2, <2>3, <2>4, SeqEqual
<1> QED
  BY <1>3, <1>4 DEF AcceptedIsWritten, OnlyPings

(* Theorem: messages reach the server in the order send_msg accepted them, *)
(* none twice, and against a server that sends only pings and does not     *)
(* close first, what is not written is still in the channel.               *)
THEOREM AcceptedIsWrittenThm == ClientSpec => []AcceptedIsWritten
BY ClientInitIInv, ClientStep, ClientIInvImplies, PTL DEF ClientSpec

----------------------------------------------------------------------------
(* The request layer: rpc.rs. *)

Class == {"next", "skip", "end", "fail"}
CallState == Running \cup Abandoned \cup {"idle", "ok", "error", "panic"}
Answer == {NoAnswer, [kind |-> "error"]}
            \cup [kind : {"ok"}, messages : Seq(Class)]

RpcTypeOK ==
    /\ slot \in {0} \cup Calls
    /\ responses \in Seq(Class)
    /\ answer \in [Calls -> Answer]
    /\ call \in [Calls -> CallState]
    /\ task \in {"read", "handle", "ended"}
    /\ stream \in Seq(Class)
    /\ streamed \in Nat

(* Calls begin in order, so that a call in the slot is not after the one   *)
(* that finds it there.                                                    *)
InOrder == \A j, k \in Calls : j < k /\ call[j] = "idle" => call[k] = "idle"

(* A call has no answer before it begins.                                  *)
NoEarlyAnswer == \A k \in Calls : call[k] = "idle" => answer[k] = NoAnswer

RpcIInv == RpcTypeOK /\ InOrder /\ NoEarlyAnswer /\ SlotIsHeldForACause

----------------------------------------------------------------------------
(* Lemma: a new connection has an empty slot and no call.                  *)
LEMMA RpcInitIInv == RpcInit => RpcIInv
BY RpcBounds, EmptySeq
   DEF RpcInit, RpcIInv, RpcTypeOK, InOrder, NoEarlyAnswer,
       SlotIsHeldForACause, Answer, CallState, Running, Abandoned, Calls

(* Lemma: a running call may end or go on; one that still holds the slot   *)
(* ends only by being abandoned.                                           *)
LEMMA Moves ==
    ASSUME RpcIInv, NEW k \in Calls, NEW r \in CallState \ {"idle", "panic"},
           call[k] \in Running, call' = [call EXCEPT ![k] = r],
           slot = k => r \in Running \cup Abandoned,
           UNCHANGED <<slot, responses, answer, task, stream, streamed>>
    PROVE  RpcIInv'
<1> USE RpcBounds DEF RpcIInv, Calls
<1>1. RpcTypeOK' /\ InOrder' /\ NoEarlyAnswer'
  BY DEF RpcTypeOK, InOrder, NoEarlyAnswer, Running
<1>2. \A j \in Calls : call'[j] \in Running =>
          (slot' = j) = (answer'[j] = NoAnswer)
  BY DEF RpcTypeOK, SlotIsHeldForACause
<1>3. slot' # 0 => call'[slot'] \in Running \cup Abandoned
  BY DEF RpcTypeOK, SlotIsHeldForACause
<1>4. \A i \in Calls : call'[i] = "panic" =>
          \E j \in 1..(i - 1) : call'[j] \in Abandoned
  BY DEF RpcTypeOK, SlotIsHeldForACause, Running, Abandoned
<1> QED
  BY <1>1, <1>2, <1>3, <1>4 DEF SlotIsHeldForACause

(* Lemma: the step of a caller keeps the invariant.  Call fails its        *)
(* assertion only when the slot is held by an earlier call, and that one   *)
(* was abandoned, since a running one would still borrow the connection.   *)
LEMMA CallerStep ==
    ASSUME RpcIInv, NEW k \in Calls,
           Call(k) \/ Send(k) \/ DropCall(k) \/ Return(k)
    PROVE  RpcIInv'
<1> USE RpcBounds DEF RpcIInv, Calls
<1>1. CASE Call(k)
  <2>1. RpcTypeOK'
    BY <1>1, EmptySeq DEF Call, RpcTypeOK, CallState, Running
  <2>2. InOrder' /\ NoEarlyAnswer'
    BY <1>1 DEF Call, Current, InOrder, NoEarlyAnswer, RpcTypeOK, Running
  <2>3. SlotIsHeldForACause'
    <3>1. CASE slot = 0
      BY <1>1, <3>1
         DEF Call, Current, NoEarlyAnswer, RpcTypeOK, SlotIsHeldForACause,
             Running, Abandoned
    <3>2. CASE slot # 0
      <4>1. slot \in Calls /\ slot < k /\ call[slot] \in Abandoned
        BY <1>1, <3>2
           DEF Call, Current, InOrder, RpcTypeOK, SlotIsHeldForACause,
               Running, Abandoned
      <4>2. /\ slot' = slot /\ answer' = answer
            /\ call' = [call EXCEPT ![k] = "panic"]
        BY <1>1, <3>2 DEF Call
      <4> QED
        BY <1>1, <4>1, <4>2
           DEF Call, Current, RpcTypeOK, SlotIsHeldForACause, Running,
               Abandoned
    <3> QED
      BY <3>1, <3>2
  <2> QED
    BY <2>1, <2>2, <2>3
<1>2. CASE Send(k)
  BY <1>2, Moves DEF Send, CallState, Running, Abandoned
<1>3. CASE DropCall(k)
  BY <1>3, Moves DEF DropCall, CallState, Abandoned
<1>4. CASE Return(k)
  <2>1. answer[k].kind \in {"ok", "error"}
    BY <1>4 DEF Return, RpcTypeOK, Answer
  <2>2. slot # k
    BY <1>4 DEF Return, SlotIsHeldForACause, Running
  <2> QED
    BY <1>4, <2>1, <2>2, Moves DEF Return, CallState, Running
<1> QED
  BY <1>1, <1>2, <1>3, <1>4

(* Lemma: reading a message keeps the invariant: the slot is emptied in    *)
(* the step that answers the call in it.                                   *)
LEMMA ReadStep ==
    ASSUME RpcIInv, ReadStream
    PROVE  RpcIInv'
<1> USE RpcBounds DEF RpcIInv, Calls
<1> DEFINE m == Head(stream)
<1>1. m \in Class /\ stream' \in Seq(Class)
  BY HeadTailProperties DEF ReadStream, RpcTypeOK
<1>2. Handle(m) /\ call' = call /\ streamed' = streamed /\ task = "read"
  BY DEF ReadStream
<1> HIDE DEF m
<1>3. CASE slot = 0 \/ m = "skip"
  <2>1. /\ task' = "handle" /\ slot' = slot
        /\ responses' = responses /\ answer' = answer
    BY <1>2, <1>3 DEF Handle
  <2>2. RpcTypeOK'
    BY <1>1, <1>2, <2>1 DEF RpcTypeOK
  <2>3. InOrder' /\ NoEarlyAnswer'
    BY <1>2, <2>1 DEF InOrder, NoEarlyAnswer
  <2>4. SlotIsHeldForACause'
    BY <1>2, <2>1 DEF SlotIsHeldForACause
  <2> QED
    BY <2>2, <2>3, <2>4
<1>4. CASE slot # 0 /\ m = "next"
  <2>1. /\ responses' = Append(responses, m)
        /\ task' = task /\ slot' = slot /\ answer' = answer
    BY <1>2, <1>4 DEF Handle
  <2>2. RpcTypeOK'
    BY <1>1, <1>2, <2>1, AppendProperties DEF RpcTypeOK
  <2> QED
    BY <1>2, <2>1, <2>2 DEF InOrder, NoEarlyAnswer, SlotIsHeldForACause
<1>5. CASE slot # 0 /\ m \in {"end", "fail"}
  <2> DEFINE a == IF m = "end"
                  THEN [kind |-> "ok", messages |-> Append(responses, m)]
                  ELSE [kind |-> "error"]
  <2>1. a \in Answer /\ a # NoAnswer
    <3>1. Append(responses, m) \in Seq(Class)
      BY <1>1, AppendProperties DEF RpcTypeOK
    <3> QED
      BY <3>1 DEF Answer, NoAnswer
  <2>2. /\ slot' = 0 /\ responses' = <<>> /\ task' = task
        /\ answer' = [answer EXCEPT ![slot] = a]
    BY <1>2, <1>5 DEF Handle
  <2> HIDE DEF a
  <2>3. RpcTypeOK' /\ InOrder'
    BY <1>1, <1>2, <2>1, <2>2, EmptySeq DEF RpcTypeOK, InOrder
  <2>4. NoEarlyAnswer' /\ SlotIsHeldForACause'
    BY <1>2, <1>5, <2>1, <2>2
       DEF RpcTypeOK, NoEarlyAnswer, SlotIsHeldForACause, Running, Abandoned
  <2> QED
    BY <2>3, <2>4
<1> QED
  BY <1>1, <1>3, <1>4, <1>5 DEF Class

(* Lemma: the invariant is inductive.                                      *)
LEMMA RpcStep == RpcIInv /\ [RpcNext]_rpcVars => RpcIInv'
<1> SUFFICES ASSUME RpcIInv, [RpcNext]_rpcVars PROVE RpcIInv'
  OBVIOUS
<1>1. CASE \E k \in Calls : Call(k) \/ Send(k) \/ DropCall(k) \/ Return(k)
  BY <1>1, CallerStep
<1>2. CASE ReadStream
  BY <1>2, ReadStep
<1>3. CASE Handled \/ StreamEnds
  BY <1>3
     DEF Handled, StreamEnds, RpcIInv, RpcTypeOK, InOrder, NoEarlyAnswer,
         SlotIsHeldForACause
<1>4. CASE Arrive
  BY <1>4, AppendProperties
     DEF Arrive, RpcIInv, RpcTypeOK, InOrder, NoEarlyAnswer,
         SlotIsHeldForACause, Class
<1>5. CASE UNCHANGED rpcVars
  BY <1>5
     DEF rpcVars, RpcIInv, RpcTypeOK, InOrder, NoEarlyAnswer,
         SlotIsHeldForACause
<1> QED
  BY <1>1, <1>2, <1>3, <1>4, <1>5 DEF RpcNext

(* Theorem: the slot is held by a call that waits for its answer or was    *)
(* abandoned, no answer is lost between slot and oneshot, and the          *)
(* assertion in call fails only after an abandoned call.                   *)
THEOREM SlotHeldForACause == RpcSpec => []SlotIsHeldForACause
<1>1. RpcIInv => SlotIsHeldForACause
  BY DEF RpcIInv
<1> QED
  BY <1>1, RpcInitIInv, RpcStep, PTL DEF RpcSpec

----------------------------------------------------------------------------
(* The room and its event sink: room_state.rs, event_sink.rs. *)

RoomEvent == Lists \cup {Talk}
Sender == [to : Listeners,
           state : {"todo", "flush", "done", "disconnected"}]

RoomTypeOK ==
    /\ queue \in Seq(RoomEvent)
    /\ log \in Seq(RoomEvent)
    /\ sinks \in Seq(Listeners)
    /\ sending \in [event : RoomEvent \cup {Nothing}, senders : Seq(Sender)]
    /\ inbox \in [Listeners -> Seq(RoomEvent)]
    /\ read \in [Listeners -> Seq(RoomEvent)]
    /\ listener \in [Listeners -> {"new", "listening", "dropped"}]
    /\ from \in [Listeners -> Int]

(* The channel to the task holds the end of the log, and a round is about  *)
(* the last event taken from it.                                           *)
QueueIsSuffix ==
    /\ Len(queue) <= Len(log)
    /\ \A i \in 1..Len(queue) : queue[i] = log[Taken + i]
    /\ sending.event = Nothing => sending = Idle
    /\ sending.event # Nothing => Taken > 0 /\ sending.event = log[Taken]

(* A listener's sender is in one place: in the list or in the round.       *)
Once ==
    /\ \A j, k \in 1..Len(sinks) : sinks[j] = sinks[k] => j = k
    /\ \A j, k \in 1..Len(sending.senders) :
         sending.senders[j].to = sending.senders[k].to => j = k
    /\ \A j \in 1..Len(sinks), k \in 1..Len(sending.senders) :
         sinks[j] # sending.senders[k].to

(* Listener l was sent the log from where it joined up to place n.         *)
UpTo(l, n) ==
    /\ listener[l] # "new"
    /\ from[l] >= 0
    /\ from[l] + Len(read[l]) + Len(inbox[l]) = n

(* Where the listeners stand: those in the list have all that was taken    *)
(* from the channel, those the round still has to serve all but the event  *)
(* of the round.                                                           *)
InList(k) == UpTo(sinks[k], Taken)
InRound(k) ==
    /\ listener[sending.senders[k].to] # "new"
    /\ sending.senders[k].state = "todo" =>
         UpTo(sending.senders[k].to, Taken - 1)
    /\ sending.senders[k].state \in {"flush", "done"} =>
         UpTo(sending.senders[k].to, Taken)
Position ==
    /\ \A k \in 1..Len(sinks) : InList(k)
    /\ \A k \in 1..Len(sending.senders) : InRound(k)

NewHasNothing ==
    \A l \in Listeners : listener[l] = "new" =>
        from[l] = -1 /\ read[l] = <<>> /\ inbox[l] = <<>>

RoomIInv == RoomTypeOK /\ QueueIsSuffix /\ Once /\ Position /\ NewHasNothing

AbstractStep == [Abstract!Next]_(Abstract!vars)

----------------------------------------------------------------------------
(* Lemma: a room's event is not the mark of an idle sink.                  *)
LEMMA EventIsSomething == Nothing \notin RoomEvent
BY ZenonT(30) DEF Nothing, RoomEvent, Lists, UserList, Lots, Talk

(* Lemma: taking an event from the channel into the history leaves what a  *)
(* listener was sent as it was.                                            *)
LEMMA MoveHead ==
    ASSUME NEW S, NEW r \in Seq(S), NEW q \in Seq(S), q # <<>>
    PROVE  /\ Append(r, Head(q)) \o Tail(q) = r \o q
           /\ Append(r, Head(q)) \in Seq(S) /\ Tail(q) \in Seq(S)
           /\ Len(Append(r, Head(q))) = Len(r) + 1
           /\ Len(Tail(q)) = Len(q) - 1
<1>1. /\ Head(q) \in S /\ Tail(q) \in Seq(S)
      /\ Len(Tail(q)) = Len(q) - 1
      /\ \A i \in 1..Len(Tail(q)) : Tail(q)[i] = q[i + 1]
      /\ Head(q) = q[1] /\ Len(q) \in Nat /\ Len(q) >= 1 /\ Len(r) \in Nat
  BY HeadTailProperties, EmptySeq, LenProperties
<1> DEFINE a == Append(r, Head(q))
<1>2. /\ a \in Seq(S) /\ Len(a) = Len(r) + 1
      /\ \A i \in 1..Len(r) : a[i] = r[i]
      /\ a[Len(r) + 1] = Head(q)
  BY <1>1, AppendProperties
<1> HIDE DEF a
<1> DEFINE t == Tail(q)
<1>7. t \in Seq(S) /\ Len(t) = Len(q) - 1
  BY <1>1
<1>3. /\ a \o t \in Seq(S)
      /\ Len(a \o t) = Len(r) + Len(q)
      /\ \A i \in 1..Len(r) + Len(q) : (a \o t)[i] =
           IF i <= Len(r) + 1 THEN a[i] ELSE t[i - (Len(r) + 1)]
  <2>1. /\ a \o t \in Seq(S) /\ Len(a \o t) = Len(a) + Len(t)
        /\ \A i \in 1..Len(a) + Len(t) : (a \o t)[i] =
             IF i <= Len(a) THEN a[i] ELSE t[i - Len(a)]
    BY <1>7, <1>2, ConcatProperties
  <2>2. Len(a) + Len(t) = Len(r) + Len(q)
    BY <1>1, <1>2, <1>7
  <2> QED
    BY <2>1, <2>2, <1>2
<1>4. /\ r \o q \in Seq(S) /\ Len(r \o q) = Len(r) + Len(q)
      /\ \A i \in 1..Len(r) + Len(q) : (r \o q)[i] =
           IF i <= Len(r) THEN r[i] ELSE q[i - Len(r)]
  BY ConcatProperties
<1>5. ASSUME NEW i \in 1..Len(r) + Len(q)
      PROVE  (a \o t)[i] = (r \o q)[i]
  <2>1. CASE i <= Len(r)
    BY <2>1, <1>1, <1>2, <1>3, <1>4
  <2>2. CASE i = Len(r) + 1
    BY <2>2, <1>1, <1>2, <1>3, <1>4
  <2>3. CASE i > Len(r) + 1
    <3>1. i - (Len(r) + 1) \in 1..Len(Tail(q))
      BY <2>3, <1>1
    <3>2. Tail(q)[i - (Len(r) + 1)] = q[i - Len(r)]
      BY <3>1, <1>1
    <3> QED
      BY <2>3, <3>2, <1>1, <1>3, <1>4
  <2>4. i <= Len(r) \/ i = Len(r) + 1 \/ i > Len(r) + 1
    BY <1>1
  <2> QED
    BY <2>1, <2>2, <2>3, <2>4, Zenon
<1>6. a \o Tail(q) = r \o q
  BY <1>3, <1>4, <1>5, SeqEqual
<1> QED
  BY <1>1, <1>2, <1>6 DEF a

(* Lemma: an append to the second part is an append to the whole.          *)
LEMMA ConcatAppend ==
    ASSUME NEW S, NEW r \in Seq(S), NEW q \in Seq(S), NEW e \in S
    PROVE  r \o Append(q, e) = Append(r \o q, e)
<1>1. Append(q, e) = q \o <<e>> /\ <<e>> \in Seq(S)
  BY AppendIsConcat
<1>2. r \o q \in Seq(S)
  BY ConcatProperties
<1>3. Append(r \o q, e) = (r \o q) \o <<e>>
  BY <1>2, AppendIsConcat
<1> QED
  BY <1>1, <1>3, ConcatAssociative

(* Lemma: a new room satisfies the invariant and is a new broadcast.       *)
LEMMA RoomInitIInv == RoomInit => RoomIInv /\ Abstract!Init
<1> SUFFICES ASSUME RoomInit PROVE RoomIInv /\ Abstract!Init
  OBVIOUS
<1>1. <<>> \in Seq(RoomEvent) /\ <<>> \in Seq(Listeners)
      /\ <<>> \in Seq(Sender) /\ Len(<<>>) = 0
  BY EmptySeq
<1>2. RoomIInv
  BY <1>1
     DEF RoomInit, RoomIInv, RoomTypeOK, QueueIsSuffix, Once, Position,
         NewHasNothing, Idle, Taken
<1>3. \A l \in Listeners : Sent(l) = <<>>
  BY <1>1, ConcatEmptySeq DEF RoomInit, Sent
<1> QED
  BY <1>2, <1>3 DEF RoomInit, Abstract!Init

(* Lemma: what was sent is a sequence of events, as long as its two parts. *)
LEMMA SentLen ==
    ASSUME RoomTypeOK, NEW l \in Listeners
    PROVE  /\ Sent(l) \in Seq(RoomEvent)
           /\ Len(Sent(l)) = Len(read[l]) + Len(inbox[l])
           /\ Len(read[l]) \in Nat /\ Len(inbox[l]) \in Nat
BY ConcatProperties, LenProperties DEF Sent, RoomTypeOK

(* Lemma: lengths are numbers, and senders are of listeners.               *)
LEMMA Lengths ==
    ASSUME RoomTypeOK
    PROVE  /\ Len(queue) \in Nat /\ Len(log) \in Nat /\ Len(sinks) \in Nat
           /\ Len(sending.senders) \in Nat
           /\ DOMAIN sending.senders = 1..Len(sending.senders)
           /\ Taken \in Int
           /\ \A k \in 1..Len(sinks) : sinks[k] \in Listeners
           /\ \A k \in 1..Len(sending.senders) :
                /\ sending.senders[k] \in Sender
                /\ sending.senders[k].to \in Listeners
<1>1. /\ Len(queue) \in Nat /\ Len(log) \in Nat /\ Len(sinks) \in Nat
      /\ sending.senders \in Seq(Sender) /\ sinks \in Seq(Listeners)
  BY LenProperties DEF RoomTypeOK
<1>2. /\ Len(sending.senders) \in Nat
      /\ DOMAIN sending.senders = 1..Len(sending.senders)
      /\ \A k \in 1..Len(sending.senders) : sending.senders[k] \in Sender
      /\ \A k \in 1..Len(sinks) : sinks[k] \in Listeners
  BY <1>1, LenProperties
<1> QED
  BY <1>1, <1>2 DEF Taken, Sender

(* Lemma: an event of the room is published and waits in the channel.      *)
LEMMA NotifyStep ==
    ASSUME RoomIInv, Notify
    PROVE  RoomIInv' /\ AbstractStep
<1> USE DEF RoomIInv
<1>1. PICK e \in RoomEvent : queue' = Append(queue, e) /\ log' = Append(log, e)
  BY DEF Notify, RoomEvent
<1>2. /\ queue' \in Seq(RoomEvent) /\ log' \in Seq(RoomEvent)
      /\ Len(queue') = Len(queue) + 1 /\ Len(log') = Len(log) + 1
      /\ \A i \in 1..Len(queue) : queue'[i] = queue[i]
      /\ \A i \in 1..Len(log) : log'[i] = log[i]
      /\ queue'[Len(queue) + 1] = e /\ log'[Len(log) + 1] = e
  BY <1>1, AppendProperties DEF RoomTypeOK
<1>3. /\ sinks' = sinks /\ sending' = sending /\ inbox' = inbox
      /\ read' = read /\ listener' = listener /\ from' = from
  BY DEF Notify
<1>4. Taken' = Taken
  BY <1>2, Lengths DEF Taken
<1>5. RoomTypeOK'
  BY <1>2, <1>3 DEF RoomTypeOK
<1>6. QueueIsSuffix'
  <2>1. \A i \in 1..Len(queue') : queue'[i] = log'[Taken' + i]
    <3> SUFFICES ASSUME NEW i \in 1..Len(queue')
                 PROVE  queue'[i] = log'[Taken + i]
      BY <1>4
    <3>1. CASE i = Len(queue) + 1
      BY <3>1, <1>2, Lengths DEF Taken
    <3>2. CASE i \in 1..Len(queue)
      <4>1. Taken + i \in 1..Len(log)
        BY <3>2, Lengths DEF Taken, QueueIsSuffix
      <4> QED
        BY <3>2, <4>1, <1>2 DEF QueueIsSuffix
    <3> QED
      BY <3>1, <3>2, <1>2, Lengths
  <2>2. sending.event # Nothing => Taken \in 1..Len(log)
    BY Lengths DEF Taken, QueueIsSuffix
  <2> QED
    BY <2>1, <2>2, <1>2, <1>3, <1>4, Lengths DEF QueueIsSuffix
<1>7. Once' /\ NewHasNothing'
  BY <1>3 DEF Once, NewHasNothing
<1>8. Position'
  BY <1>3, <1>4 DEF Position, InList, InRound, UpTo
<1>9. Abstract!Publish
  BY <1>1, <1>3 DEF Abstract!Publish, RoomEvent, Sent
<1> QED
  BY <1>5, <1>6, <1>7, <1>8, <1>9 DEF AbstractStep, Abstract!Next

(* Lemma: a listener that is added joins the broadcast where the task      *)
(* stands.                                                                 *)
LEMMA AddListenerStep ==
    ASSUME RoomIInv, NEW l \in Listeners, AddListener(l)
    PROVE  RoomIInv' /\ AbstractStep
<1> USE DEF RoomIInv
<1>1. /\ queue' = queue /\ log' = log /\ sending' = sending
      /\ inbox' = inbox /\ read' = read /\ listener[l] = "new"
      /\ listener' = [listener EXCEPT ![l] = "listening"]
      /\ Taken' = Taken
  BY DEF AddListener, Taken
<1>2. /\ from[l] = -1 /\ read[l] = <<>> /\ inbox[l] = <<>>
      /\ Len(read[l]) = 0 /\ Len(inbox[l]) = 0
  BY <1>1, EmptySeq DEF NewHasNothing
<1>3. /\ \A k \in 1..Len(sinks) : sinks[k] # l
      /\ \A k \in 1..Len(sending.senders) : sending.senders[k].to # l
  BY <1>1 DEF Position, InList, InRound, UpTo
<1>4. Taken \in 0..Len(log)
  BY Lengths DEF Taken, QueueIsSuffix
<1>5. CASE members = Unknown
  <2>1. /\ sinks' = Append(sinks, l)
        /\ from' = [from EXCEPT ![l] = Taken]
    BY <1>5 DEF AddListener
  <2>2. /\ sinks' \in Seq(Listeners) /\ Len(sinks') = Len(sinks) + 1
        /\ \A k \in 1..Len(sinks) : sinks'[k] = sinks[k]
        /\ sinks'[Len(sinks) + 1] = l
    BY <2>1, AppendProperties DEF RoomTypeOK
  <2>3. RoomTypeOK' /\ QueueIsSuffix' /\ NewHasNothing'
    BY <1>1, <1>4, <2>1, <2>2, Lengths
       DEF RoomTypeOK, QueueIsSuffix, NewHasNothing
  <2>4. Once'
    <3>1. \A k \in 1..Len(sinks') : k \in 1..Len(sinks) \/ k = Len(sinks) + 1
      BY <2>2, Lengths
    <3> QED
      <4>1. \A j, k \in 1..Len(sinks') : sinks'[j] = sinks'[k] => j = k
        BY <1>3, <2>2, <3>1, Lengths DEF Once
      <4>2. \A j \in 1..Len(sinks'), k \in 1..Len(sending.senders) :
              sinks'[j] # sending.senders[k].to
        BY <1>3, <2>2, <3>1, Lengths DEF Once
      <4> QED
        BY <1>1, <4>1, <4>2 DEF Once
  <2>5. Position'
    <3>1. UpTo(l, Taken)'
      BY <1>1, <1>2, <1>4, <2>1 DEF UpTo, RoomTypeOK
    <3>2. \A m \in Listeners \ {l} : \A n \in Int : UpTo(m, n) => UpTo(m, n)'
      BY <1>1, <2>1 DEF UpTo, RoomTypeOK
    <3>3. ASSUME NEW k \in 1..Len(sinks') PROVE InList(k)'
      <4>1. CASE k = Len(sinks) + 1
        BY <4>1, <2>2, <3>1 DEF InList, UpTo
      <4>2. CASE k \in 1..Len(sinks)
        BY <4>2, <1>1, <1>3, <2>2, <3>2, Lengths, SMTT(20)
          DEF Position, InList, UpTo
      <4> QED
        BY <4>1, <4>2, <2>2, Lengths
    <3>4. ASSUME NEW k \in 1..Len(sending.senders) PROVE InRound(k)'
      <4>1. sending.senders[k].to \in Listeners \ {l}
        BY <1>3, Lengths
      <4>2. InRound(k)
        BY DEF Position
      <4> QED
        BY <1>1, <3>2, <4>1, <4>2, Lengths, SMTT(20)
          DEF InRound, UpTo, RoomTypeOK
    <3> QED
      BY <1>1, <3>3, <3>4 DEF Position
  <2>6. Abstract!Join(l)
    BY <1>1, <1>2, <1>4, <2>1 DEF Abstract!Join, Sent
  <2> QED
    BY <2>3, <2>4, <2>5, <2>6 DEF AbstractStep, Abstract!Next
<1>6. CASE members # Unknown
  <2>1. sinks' = sinks /\ from' = from
    BY <1>6 DEF AddListener
  <2>2. RoomTypeOK' /\ QueueIsSuffix' /\ Once' /\ NewHasNothing'
    BY <1>1, <2>1 DEF RoomTypeOK, QueueIsSuffix, Once, NewHasNothing
  <2>3. Position'
    BY <1>1, <1>3, <2>1, SMTT(20)
      DEF Position, InList, InRound, UpTo, RoomTypeOK
  <2>4. UNCHANGED Abstract!vars
    BY <1>1, <2>1 DEF Abstract!vars, Sent
  <2> QED
    BY <2>2, <2>3, <2>4 DEF AbstractStep
<1> QED
  BY <1>5, <1>6

(* Lemma: reading from its channel moves an event between the two parts of *)
(* what a listener was sent.                                               *)
LEMMA ReceiveStep ==
    ASSUME RoomIInv, NEW l \in Listeners, Receive(l)
    PROVE  RoomIInv' /\ AbstractStep
<1> USE DEF RoomIInv
<1>1. /\ queue' = queue /\ log' = log /\ sending' = sending
      /\ sinks' = sinks /\ listener' = listener /\ from' = from
      /\ Taken' = Taken /\ listener[l] # "new"
      /\ inbox[l] # <<>>
      /\ read' = [read EXCEPT ![l] = Append(read[l], Head(inbox[l]))]
      /\ inbox' = [inbox EXCEPT ![l] = Tail(inbox[l])]
  BY DEF Receive, Taken
<1>2. /\ read[l] \in Seq(RoomEvent) /\ inbox[l] \in Seq(RoomEvent)
      /\ Len(read[l]) \in Nat /\ Len(inbox[l]) \in Nat
  BY LenProperties DEF RoomTypeOK
<1> DEFINE r == Append(read[l], Head(inbox[l]))
           t == Tail(inbox[l])
<1>3. /\ r \o t = read[l] \o inbox[l]
      /\ r \in Seq(RoomEvent) /\ t \in Seq(RoomEvent)
      /\ Len(r) = Len(read[l]) + 1 /\ Len(t) = Len(inbox[l]) - 1
  BY <1>1, <1>2, MoveHead
<1>4. read' = [read EXCEPT ![l] = r] /\ inbox' = [inbox EXCEPT ![l] = t]
  BY <1>1
<1> HIDE DEF r, t
<1>5. RoomTypeOK' /\ QueueIsSuffix' /\ Once' /\ NewHasNothing'
  BY <1>1, <1>3, <1>4 DEF RoomTypeOK, QueueIsSuffix, Once, NewHasNothing
<1>6. ASSUME NEW m \in Listeners
      PROVE  from'[m] + Len(read'[m]) + Len(inbox'[m])
               = from[m] + Len(read[m]) + Len(inbox[m])
  <2>1. from'[m] = from[m] /\ from[m] \in Int
    BY <1>1 DEF RoomTypeOK
  <2>2. CASE m = l
    <3>1. read'[m] = r /\ inbox'[m] = t
      BY <1>4, <2>2 DEF RoomTypeOK
    <3>2. ASSUME NEW f \in Int, NEW a \in Nat, NEW b \in Nat
          PROVE  f + (a + 1) + (b - 1) = f + a + b
      OBVIOUS
    <3>3. from[m] + Len(r) + Len(t)
            = from[m] + Len(read[l]) + Len(inbox[l])
      BY <1>2, <1>3, <2>1, <3>2
    <3> QED
      BY <2>1, <2>2, <3>1, <3>3
  <2>3. CASE m # l
    BY <1>4, <2>1, <2>3 DEF RoomTypeOK
  <2> QED
    BY <2>2, <2>3
<1>7. Position'
  <2>1. ASSUME NEW k \in 1..Len(sinks) PROVE InList(k)'
    BY <1>1, <1>6, Lengths DEF Position, InList, UpTo
  <2>2. ASSUME NEW k \in 1..Len(sending.senders) PROVE InRound(k)'
    <3>1. InRound(k) /\ sending.senders[k].to \in Listeners
      BY Lengths DEF Position
    <3> QED
      BY <1>1, <1>6, <3>1, Lengths DEF InRound, UpTo
  <2> QED
    BY <1>1, <2>1, <2>2 DEF Position
<1>8. UNCHANGED Abstract!vars
  <2>1. \A m \in Listeners : read'[m] \o inbox'[m] = read[m] \o inbox[m]
    BY <1>3, <1>4 DEF RoomTypeOK
  <2> QED
    BY <1>1, <2>1 DEF Abstract!vars, Sent
<1> QED
  BY <1>5, <1>7, <1>8 DEF AbstractStep

(* Lemma: a dropped receiver and the return of notify change nothing that  *)
(* is broadcast.                                                           *)
LEMMA QuietStep ==
    ASSUME RoomIInv,
           NotifyReturns \/ \E l \in Listeners : DropReceiver(l)
    PROVE  RoomIInv' /\ AbstractStep
<1> USE DEF RoomIInv
<1>1. /\ queue' = queue /\ log' = log /\ sending' = sending
      /\ sinks' = sinks /\ inbox' = inbox /\ read' = read /\ from' = from
      /\ Taken' = Taken
  BY DEF NotifyReturns, DropReceiver, Taken
<1>2. /\ listener' \in [Listeners -> {"new", "listening", "dropped"}]
      /\ \A m \in Listeners :
           (listener'[m] = "new") <=> (listener[m] = "new")
  BY DEF NotifyReturns, DropReceiver, RoomTypeOK
<1>3. RoomTypeOK' /\ QueueIsSuffix' /\ Once' /\ NewHasNothing'
  BY <1>1, <1>2 DEF RoomTypeOK, QueueIsSuffix, Once, NewHasNothing
<1>4. Position'
  <2>1. ASSUME NEW k \in 1..Len(sinks) PROVE InList(k)'
    BY <1>1, <1>2, Lengths DEF Position, InList, UpTo
  <2>2. ASSUME NEW k \in 1..Len(sending.senders) PROVE InRound(k)'
    <3>1. InRound(k) /\ sending.senders[k].to \in Listeners
      BY Lengths DEF Position
    <3> QED
      BY <1>1, <1>2, <3>1 DEF InRound, UpTo
  <2> QED
    BY <1>1, <2>1, <2>2 DEF Position
<1>5. UNCHANGED Abstract!vars
  BY <1>1 DEF Abstract!vars, Sent
<1> QED
  BY <1>3, <1>4, <1>5 DEF AbstractStep

(* Lemma: with the next event taken, those in the list are one behind,     *)
(* and all of them are in the round.                                       *)
LEMMA TakeEventStep ==
    ASSUME RoomIInv, TakeEvent
    PROVE  RoomIInv' /\ AbstractStep
<1> USE DEF RoomIInv
<1>1. /\ queue # <<>> /\ queue' = Tail(queue) /\ log' = log
      /\ sinks' = <<>> /\ inbox' = inbox /\ read' = read
      /\ from' = from /\ listener' = listener
      /\ sending' = Round(Head(queue), sinks)
  BY DEF TakeEvent
<1>2. /\ queue' \in Seq(RoomEvent) /\ Head(queue) \in RoomEvent
      /\ Head(queue) = queue[1] /\ Len(queue) >= 1
      /\ Len(queue') = Len(queue) - 1
      /\ \A i \in 1..Len(queue') : queue'[i] = queue[i + 1]
  BY <1>1, HeadTailProperties, EmptySeq DEF RoomTypeOK
<1>3. Taken' = Taken + 1
  BY <1>1, <1>2, Lengths DEF Taken
<1>4. /\ sending'.event = Head(queue)
      /\ sending'.senders = [i \in 1..Len(sinks) |->
                               [to |-> sinks[i], state |-> "todo"]]
      /\ sending'.senders \in Seq(Sender)
      /\ sending' \in [event : RoomEvent \cup {Nothing}, senders : Seq(Sender)]
      /\ Len(sending'.senders) = Len(sinks)
      /\ \A k \in 1..Len(sinks) :
           /\ sending'.senders[k].to = sinks[k]
           /\ sending'.senders[k].state = "todo"
  <2> DEFINE ss == [i \in 1..Len(sinks) |->
                      [to |-> sinks[i], state |-> "todo"]]
  <2>1. DOMAIN sinks = 1..Len(sinks)
    BY LenProperties DEF RoomTypeOK
  <2>2. sending' = [event |-> Head(queue), senders |-> ss]
    BY <1>1, <2>1 DEF Round
  <2>3. \A k \in 1..Len(sinks) : ss[k] \in Sender
    BY Lengths DEF Sender
  <2>4. ss \in Seq(Sender) /\ Len(ss) = Len(sinks)
    BY <2>3, Lengths
  <2> QED
    BY <1>2, <2>2, <2>4
<1>5. Len(sinks') = 0
  BY <1>1, EmptySeq
<1>6. RoomTypeOK'
  BY <1>1, <1>2, <1>4, EmptySeq DEF RoomTypeOK
<1>7. QueueIsSuffix'
  <2>1. Len(queue') <= Len(log') /\ Taken' > 0
    BY <1>1, <1>2, <1>3, Lengths DEF QueueIsSuffix, Taken
  <2>2. ASSUME NEW i \in 1..Len(queue') PROVE queue'[i] = log'[Taken' + i]
    <3>1. i + 1 \in 1..Len(queue) /\ Taken' + i = Taken + (i + 1)
      BY <1>2, <1>3, Lengths
    <3> QED
      BY <1>1, <1>2, <3>1 DEF QueueIsSuffix
  <2>3. sending'.event # Nothing /\ sending'.event = log'[Taken']
    BY <1>1, <1>2, <1>3, <1>4, EventIsSomething, Lengths DEF QueueIsSuffix
  <2> QED
    BY <2>1, <2>2, <2>3 DEF QueueIsSuffix
<1>8. Once' /\ NewHasNothing'
  BY <1>1, <1>4, <1>5 DEF Once, NewHasNothing
<1>9. Position'
  <2>1. ASSUME NEW k \in 1..Len(sinks) PROVE InRound(k)'
    <3>1. InList(k)
      BY DEF Position
    <3> QED
      BY <1>1, <1>3, <1>4, <3>1, Lengths DEF InList, InRound, UpTo
  <2> QED
    BY <1>4, <1>5, <2>1 DEF Position
<1>10. UNCHANGED Abstract!vars
  BY <1>1 DEF Abstract!vars, Sent
<1> QED
  BY <1>6, <1>7, <1>8, <1>9, <1>10 DEF AbstractStep

(* Lemma: a sender of the round goes on; the others stay as they are.      *)
LEMMA BecameProperties ==
    ASSUME RoomTypeOK, NEW i \in 1..Len(sending.senders),
           NEW st \in {"todo", "flush", "done", "disconnected"}, Became(i, st)
    PROVE  /\ sending' \in [event : RoomEvent \cup {Nothing},
                             senders : Seq(Sender)]
           /\ sending'.event = sending.event
           /\ Len(sending'.senders) = Len(sending.senders)
           /\ \A k \in 1..Len(sending.senders) :
                /\ sending'.senders[k].to = sending.senders[k].to
                /\ sending'.senders[k].state =
                     IF k = i THEN st ELSE sending.senders[k].state
<1> DEFINE old == sending.senders
           new == [old EXCEPT ![i] = [old[i] EXCEPT !.state = st]]
<1>1. old \in Seq(Sender) /\ Len(old) \in Nat /\ old[i] \in Sender
  BY Lengths DEF RoomTypeOK
<1>2. sending' = [sending EXCEPT !.senders = new]
  BY DEF Became
<1>3. [old[i] EXCEPT !.state = st] \in Sender
  BY <1>1 DEF Sender
<1>4. new \in Seq(Sender) /\ Len(new) = Len(old)
      /\ \A k \in 1..Len(old) : new[k] =
           IF k = i THEN [old[i] EXCEPT !.state = st] ELSE old[k]
  BY <1>1, <1>3, ExceptSeq
<1>5. \A k \in 1..Len(old) :
        /\ new[k].to = old[k].to
        /\ new[k].state = IF k = i THEN st ELSE old[k].state
  BY <1>1, <1>4, Lengths DEF Sender
<1> HIDE DEF new
<1>6. /\ sending' \in [event : RoomEvent \cup {Nothing},
                        senders : Seq(Sender)]
      /\ sending'.event = sending.event /\ sending'.senders = new
  BY <1>2, <1>4 DEF RoomTypeOK
<1> QED
  BY <1>4, <1>5, <1>6

(* Lemma: a send of the round that has room, or nobody to wait for.        *)
LEMMA FlushedStep ==
    ASSUME RoomIInv, NEW i \in DOMAIN sending.senders, Flushed(i)
    PROVE  RoomIInv' /\ AbstractStep
<1> USE DEF RoomIInv
<1>1. i \in 1..Len(sending.senders) /\ sending.senders[i].state = "flush"
  BY Lengths DEF Flushed
<1>2. /\ queue' = queue /\ log' = log /\ sinks' = sinks /\ inbox' = inbox
      /\ read' = read /\ from' = from /\ listener' = listener
      /\ Taken' = Taken /\ Became(i, "done")
  BY DEF Flushed, Taken
<1>3. /\ sending' \in [event : RoomEvent \cup {Nothing},
                        senders : Seq(Sender)]
      /\ sending'.event = sending.event
      /\ Len(sending'.senders) = Len(sending.senders)
      /\ \A k \in 1..Len(sending.senders) :
           /\ sending'.senders[k].to = sending.senders[k].to
           /\ sending'.senders[k].state =
                IF k = i THEN "done" ELSE sending.senders[k].state
  BY <1>1, <1>2, BecameProperties
<1>4. RoomTypeOK' /\ Once' /\ NewHasNothing'
  BY <1>2, <1>3 DEF RoomTypeOK, Once, NewHasNothing
<1>5. QueueIsSuffix'
  <2>1. sending # Idle /\ sending.event # Nothing
    BY <1>1, EmptySeq DEF QueueIsSuffix, Idle
  <2> QED
    BY <1>2, <1>3, <2>1 DEF QueueIsSuffix
<1>6. Position'
  <2>1. ASSUME NEW k \in 1..Len(sending.senders) PROVE InRound(k)'
    <3>1. InRound(k)
      BY DEF Position
    <3> QED
      BY <1>1, <1>2, <1>3, <3>1 DEF InRound, UpTo
  <2>2. ASSUME NEW k \in 1..Len(sinks) PROVE InList(k)'
    BY <1>2 DEF Position, InList, UpTo
  <2> QED
    BY <1>2, <1>3, <2>1, <2>2 DEF Position
<1>7. UNCHANGED Abstract!vars
  BY <1>2 DEF Abstract!vars, Sent
<1> QED
  BY <1>4, <1>5, <1>6, <1>7 DEF AbstractStep

(* Lemma: a send of the round delivers the event of the log that its       *)
(* listener is due, or finds the receiver dropped.                         *)
LEMMA SendToStep ==
    ASSUME RoomIInv, NEW i \in DOMAIN sending.senders, SendTo(i)
    PROVE  RoomIInv' /\ AbstractStep
<1> USE DEF RoomIInv
<1>0. PICK l \in Listeners : l = sending.senders[i].to
  BY Lengths
<1> DEFINE st == IF listener[l] = "dropped" THEN "disconnected" ELSE "flush"
<1>1. /\ i \in 1..Len(sending.senders) /\ sending.senders[i].state = "todo"
      /\ l = sending.senders[i].to
  BY <1>0, Lengths DEF SendTo
<1>2. /\ queue' = queue /\ log' = log /\ sinks' = sinks
      /\ read' = read /\ from' = from /\ listener' = listener
      /\ Taken' = Taken /\ Became(i, st)
  BY <1>1 DEF SendTo, Taken
<1>3. /\ sending' \in [event : RoomEvent \cup {Nothing},
                        senders : Seq(Sender)]
      /\ sending'.event = sending.event
      /\ Len(sending'.senders) = Len(sending.senders)
      /\ \A k \in 1..Len(sending.senders) :
           /\ sending'.senders[k].to = sending.senders[k].to
           /\ sending'.senders[k].state =
                IF k = i THEN st ELSE sending.senders[k].state
  BY <1>1, <1>2, BecameProperties
<1>4. /\ sending.event # Nothing /\ sending.event \in RoomEvent
      /\ Taken > 0 /\ sending.event = log[Taken]
  BY <1>1, EmptySeq DEF QueueIsSuffix, Idle, RoomTypeOK
<1>5. QueueIsSuffix' /\ Once'
  <2>1. QueueIsSuffix'
    BY <1>2, <1>3, <1>4 DEF QueueIsSuffix
  <2>2. Once'
    BY <1>2, <1>3 DEF Once
  <2> QED
    BY <2>1, <2>2
<1>6. CASE listener[l] = "dropped"
  <2>1. inbox' = inbox /\ st = "disconnected"
    BY <1>1, <1>6 DEF SendTo
  <2>2. RoomTypeOK' /\ NewHasNothing'
    BY <1>2, <1>3, <2>1 DEF RoomTypeOK, NewHasNothing
  <2>3. Position'
    <3>1. ASSUME NEW k \in 1..Len(sending.senders) PROVE InRound(k)'
      <4>1. InRound(k)
        BY DEF Position
      <4> QED
        BY <1>1, <1>2, <1>3, <2>1, <4>1 DEF InRound, UpTo
    <3>2. ASSUME NEW k \in 1..Len(sinks) PROVE InList(k)'
      BY <1>2, <2>1 DEF Position, InList, UpTo
    <3> QED
      BY <1>2, <1>3, <3>1, <3>2 DEF Position
  <2>4. UNCHANGED Abstract!vars
    BY <1>2, <2>1 DEF Abstract!vars, Sent
  <2> QED
    BY <1>5, <2>2, <2>3, <2>4 DEF AbstractStep
<1>7. CASE listener[l] # "dropped"
  <2> DEFINE box == Append(inbox[l], sending.event)
  <2>1. inbox' = [inbox EXCEPT ![l] = box] /\ st = "flush"
    BY <1>1, <1>7 DEF SendTo
  <2>2. inbox[l] \in Seq(RoomEvent) /\ Len(inbox[l]) \in Nat
        /\ box \in Seq(RoomEvent) /\ Len(box) = Len(inbox[l]) + 1
    BY <1>1, <1>4, AppendProperties, LenProperties DEF RoomTypeOK
  <2>3. UpTo(l, Taken - 1)
    BY <1>1 DEF Position, InRound
  <2> HIDE DEF box
  <2>4. RoomTypeOK'
    BY <1>1, <1>2, <1>3, <2>1, <2>2 DEF RoomTypeOK
  <2>5. NewHasNothing'
    BY <1>1, <1>2, <2>1, <2>3 DEF RoomTypeOK, NewHasNothing, UpTo
  <2>6. \A m \in Listeners \ {l} : inbox'[m] = inbox[m]
    BY <2>1 DEF RoomTypeOK
  <2>7. /\ listener'[l] # "new" /\ from'[l] >= 0
        /\ from'[l] + Len(read'[l]) + Len(inbox'[l]) = Taken'
    <3>1. inbox'[l] = box /\ from[l] \in Int /\ Len(read[l]) \in Nat
      BY <1>1, <2>1, LenProperties DEF RoomTypeOK
    <3>2. /\ from[l] \in Int /\ Taken \in Int
          /\ Len(read[l]) \in Nat /\ Len(inbox[l]) \in Nat
      BY <2>2, <3>1, Lengths
    <3>3. from[l] + Len(read[l]) + Len(inbox[l]) = Taken - 1
      BY <2>3 DEF UpTo
    <3>4. from[l] + Len(read[l]) + (Len(inbox[l]) + 1) = Taken
      BY <3>2, <3>3
    <3>5. listener[l] # "new" /\ from[l] >= 0
      BY <2>3 DEF UpTo
    <3>6. Len(inbox'[l]) = Len(inbox[l]) + 1
      BY <2>2, <3>1
    <3> QED
      BY <1>2, <3>4, <3>5, <3>6
  <2>8. Position'
    <3>1. ASSUME NEW k \in 1..Len(sending.senders) PROVE InRound(k)'
      <4>1. InRound(k)
        BY DEF Position
      <4>2. CASE k = i
        BY <1>1, <1>2, <1>3, <2>1, <2>7, <4>2 DEF InRound, UpTo
      <4>3. CASE k # i
        <5>1. sending.senders[k].to \in Listeners \ {l}
          BY <1>1, <4>3, Lengths DEF Once
        <5> QED
          BY <1>2, <1>3, <2>6, <4>1, <4>3, <5>1 DEF InRound, UpTo
      <4> QED
        BY <4>2, <4>3
    <3>2. ASSUME NEW k \in 1..Len(sinks) PROVE InList(k)'
      <4>1. sinks[k] \in Listeners \ {l}
        BY <1>1, Lengths DEF Once
      <4> QED
        BY <1>2, <2>6, <4>1 DEF Position, InList, UpTo
    <3> QED
      BY <1>2, <1>3, <3>1, <3>2 DEF Position
  <2>9. Abstract!Deliver(l)
    <3>1. /\ from[l] >= 0 /\ from[l] + Len(Sent(l)) = Taken - 1
          /\ Taken - 1 < Len(log)
      <4>1. Len(Sent(l)) = Len(read[l]) + Len(inbox[l])
            /\ Len(read[l]) \in Nat /\ from[l] \in Int
        BY <1>1, SentLen DEF RoomTypeOK
      <4>2. ASSUME NEW f \in Int, NEW a \in Nat, NEW b \in Nat
            PROVE  f + a + b = f + (a + b)
        OBVIOUS
      <4>3. Taken - 1 < Len(log)
        BY Lengths DEF Taken
      <4> QED
        BY <2>2, <2>3, <4>1, <4>2, <4>3 DEF UpTo
    <3>2. sending.event = log[from[l] + Len(Sent(l)) + 1]
      BY <1>4, <3>1, Lengths
    <3>3. Sent(l)' = Append(Sent(l), sending.event)
      <4>1. inbox'[l] = box /\ read'[l] = read[l]
        BY <1>1, <1>2, <2>1 DEF RoomTypeOK
      <4>2. /\ read[l] \in Seq(RoomEvent) /\ inbox[l] \in Seq(RoomEvent)
            /\ sending.event \in RoomEvent
        BY <1>1, <1>4 DEF RoomTypeOK
      <4>3. read[l] \o box = Append(read[l] \o inbox[l], sending.event)
        <5>1. \A r, q \in Seq(RoomEvent), e \in RoomEvent :
                r \o Append(q, e) = Append(r \o q, e)
          BY ConcatAppend
        <5> QED
          BY <4>2, <5>1, Zenon DEF box
      <4>4. Sent(l)' = read'[l] \o inbox'[l] /\ Sent(l) = read[l] \o inbox[l]
        BY DEF Sent
      <4> QED
        BY <4>1, <4>3, <4>4, Zenon
    <3>4. \A m \in Listeners \ {l} : read'[m] \o inbox'[m]
                                      = read[m] \o inbox[m]
      BY <1>2, <2>6
    <3> QED
      BY <1>1, <1>2, <3>1, <3>2, <3>3, <3>4 DEF Abstract!Deliver, Sent
  <2> QED
    BY <1>1, <1>5, <2>4, <2>5, <2>8, <2>9 DEF AbstractStep, Abstract!Next
<1> QED
  BY <1>6, <1>7

(* Lemma: the connected senders of a round go back into the list, each     *)
(* once, before those added meanwhile; all of them have the event of the   *)
(* round.                                                                  *)
LEMMA EndRoundStep ==
    ASSUME RoomIInv, EndRound
    PROVE  RoomIInv' /\ AbstractStep
<1> USE DEF RoomIInv
<1>1. /\ queue' = queue /\ log' = log /\ inbox' = inbox
      /\ read' = read /\ from' = from /\ listener' = listener
      /\ Taken' = Taken /\ sending' = Idle
  BY DEF EndRound, Taken
<1>2. PICK n \in 0..Len(sending.senders) :
        \E at \in [1..n -> DOMAIN sending.senders] :
          /\ Retained(at)
          /\ sinks' = [k \in 1..n |-> sending.senders[at[k]].to] \o sinks
  BY DEF EndRound, PutBack
<1>3. PICK at \in [1..n -> 1..Len(sending.senders)] :
          /\ Retained(at)
          /\ sinks' = [k \in 1..n |-> sending.senders[at[k]].to] \o sinks
  BY <1>2, Lengths
<1> DEFINE kept == [k \in 1..n |-> sending.senders[at[k]].to]
<1>4. kept \in Seq(Listeners) /\ Len(kept) = n /\ n \in Nat
  <2>1. n \in Nat
    BY <1>2, Lengths
  <2>2. kept \in [1..n -> Listeners]
    BY Lengths
  <2> HIDE DEF kept
  <2> QED
    BY <2>1, <2>2, LenProperties, SeqDef
<1>5. \A k \in 1..n : /\ at[k] \in 1..Len(sending.senders)
                      /\ kept[k] = sending.senders[at[k]].to
                      /\ sending.senders[at[k]].state = "done"
  <2>1. \A k \in 1..n : \E j \in DOMAIN at : at[j] = at[k]
    OBVIOUS
  <2> QED
    BY <1>3, <2>1, Lengths DEF Retained
<1>6. \A j, k \in 1..n : kept[j] = kept[k] => j = k
  <2> SUFFICES ASSUME NEW j \in 1..n, NEW k \in 1..n, kept[j] = kept[k]
               PROVE  j = k
    BY Zenon
  <2>1. at[j] = at[k] /\ at[j] \in Int
    BY <1>5, SMTT(20) DEF Once
  <2>2. ~(j < k) /\ ~(k < j)
    BY <1>3, <2>1 DEF Retained
  <2> QED
    BY <1>4, <2>2
<1> HIDE DEF kept
<1>7. /\ sinks' = kept \o sinks
      /\ sinks' \in Seq(Listeners) /\ Len(sinks') = n + Len(sinks)
      /\ \A k \in 1..n + Len(sinks) :
           sinks'[k] = IF k <= n THEN kept[k] ELSE sinks[k - n]
  <2>1. sinks' = kept \o sinks /\ sinks \in Seq(Listeners)
    BY <1>3 DEF kept, RoomTypeOK
  <2>2. /\ kept \o sinks \in Seq(Listeners)
        /\ Len(kept \o sinks) = Len(kept) + Len(sinks)
        /\ \A k \in 1..Len(kept) + Len(sinks) : (kept \o sinks)[k] =
             IF k <= Len(kept) THEN kept[k] ELSE sinks[k - Len(kept)]
    BY <1>4, <2>1, ConcatProperties
  <2> QED
    BY <1>4, <2>1, <2>2
<1>8. \A k \in 1..Len(sinks') :
        \/ k \in 1..n /\ sinks'[k] = kept[k]
        \/ k - n \in 1..Len(sinks) /\ sinks'[k] = sinks[k - n]
  BY <1>4, <1>7, Lengths
<1>9. sending'.event = Nothing /\ sending'.senders = <<>>
      /\ Len(sending'.senders) = 0
  BY <1>1, EmptySeq DEF Idle
<1>10. RoomTypeOK' /\ QueueIsSuffix' /\ NewHasNothing'
  BY <1>1, <1>7, <1>9, EmptySeq
     DEF RoomTypeOK, QueueIsSuffix, NewHasNothing, Idle
<1>11. Once'
  <2>1. ASSUME NEW j \in 1..Len(sinks'), NEW k \in 1..Len(sinks'),
               sinks'[j] = sinks'[k]
        PROVE  j = k
    <3>1. CASE j \in 1..n /\ k \in 1..n
      BY <1>4, <1>6, <1>7, <2>1, <3>1, Lengths
    <3>2. CASE j - n \in 1..Len(sinks) /\ k - n \in 1..Len(sinks)
      <4>1. /\ j \in 1..(n + Len(sinks)) /\ ~ (j <= n)
            /\ k \in 1..(n + Len(sinks)) /\ ~ (k <= n)
        BY <1>4, <3>2, Lengths
      <4>2. sinks'[j] = sinks[j - n] /\ sinks'[k] = sinks[k - n]
        BY <1>4, <1>7, <4>1
      <4>3. sinks[j - n] = sinks[k - n]
        BY <2>1, <4>2
      <4> QED
        BY <1>4, <3>2, <4>3, Lengths, SMTT(20) DEF Once
    <3>3. ASSUME NEW a \in 1..n, NEW b \in 1..Len(sinks)
          PROVE  kept[a] # sinks[b]
      <4>1. /\ at[a] \in 1..Len(sending.senders)
            /\ kept[a] = sending.senders[at[a]].to
        BY <1>5
      <4>2. \A i \in 1..Len(sending.senders) : sinks[b] # sending.senders[i].to
        BY DEF Once
      <4> QED
        BY <4>1, <4>2
    <3> QED
      BY <1>8, <2>1, <3>1, <3>2, <3>3
  <2>2. 1..Len(sending'.senders) = {}
    BY <1>9
  <2> QED
    BY <2>1, <2>2 DEF Once
<1>12. Position'
  <2>1. ASSUME NEW k \in 1..Len(sinks') PROVE InList(k)'
    <3>1. CASE k \in 1..n /\ sinks'[k] = kept[k]
      <4>1. InRound(at[k]) /\ sending.senders[at[k]].state = "done"
        BY <1>5, <3>1 DEF Position
      <4>2. sinks'[k] = sending.senders[at[k]].to
        BY <1>5, <3>1
      <4> QED
        BY <1>1, <4>1, <4>2 DEF InRound, InList, UpTo
    <3>2. CASE k - n \in 1..Len(sinks) /\ sinks'[k] = sinks[k - n]
      <4>1. InList(k - n)
        BY <3>2 DEF Position
      <4> QED
        BY <1>1, <3>2, <4>1 DEF InList, UpTo
    <3> QED
      BY <1>8, <3>1, <3>2
  <2> QED
    BY <1>9, <2>1 DEF Position
<1>13. UNCHANGED Abstract!vars
  BY <1>1 DEF Abstract!vars, Sent
<1> QED
  BY <1>10, <1>11, <1>12, <1>13 DEF AbstractStep

(* Lemma: every step of the room keeps the invariant and is a step of the  *)
(* broadcast, or none.                                                     *)
LEMMA RoomStep == RoomIInv /\ [RoomNext]_roomVars => RoomIInv' /\ AbstractStep
<1> SUFFICES ASSUME RoomIInv, [RoomNext]_roomVars
             PROVE  RoomIInv' /\ AbstractStep
  OBVIOUS
<1>1. CASE Notify
  BY <1>1, NotifyStep
<1>2. CASE \E l \in Listeners : AddListener(l)
  BY <1>2, AddListenerStep
<1>3. CASE \E l \in Listeners : Receive(l)
  BY <1>3, ReceiveStep
<1>4. CASE NotifyReturns \/ \E l \in Listeners : DropReceiver(l)
  BY <1>4, QuietStep
<1>5. CASE TakeEvent
  BY <1>5, TakeEventStep
<1>6. CASE EndRound
  BY <1>6, EndRoundStep
<1>7. CASE \E i \in DOMAIN sending.senders : SendTo(i)
  BY <1>7, SendToStep
<1>8. CASE \E i \in DOMAIN sending.senders : Flushed(i)
  BY <1>8, FlushedStep
<1>9. CASE UNCHANGED roomVars
  <2>1. /\ queue' = queue /\ log' = log /\ sending' = sending
        /\ sinks' = sinks /\ inbox' = inbox /\ read' = read
        /\ from' = from /\ listener' = listener
    BY <1>9 DEF roomVars
  <2>2. RoomIInv'
    BY <2>1
       DEF RoomIInv, RoomTypeOK, QueueIsSuffix, Once, Position, InList,
           InRound, UpTo, NewHasNothing, Taken
  <2>3. UNCHANGED Abstract!vars
    BY <2>1 DEF Abstract!vars, Sent
  <2> QED
    BY <2>2, <2>3 DEF AbstractStep
<1> QED
  BY <1>1, <1>2, <1>3, <1>4, <1>5, <1>6, <1>7, <1>8, <1>9 DEF RoomNext

(* Theorem: a sender is in the list or in the round of Inner::send, never  *)
(* in both and never twice, and its listener has been sent exactly what it *)
(* is due there.                                                           *)
THEOREM RoomInvariant == RoomSpec => []RoomIInv
BY RoomInitIInv, RoomStep, PTL DEF RoomSpec

(* Theorem: the room's event sink implements Broadcast: each listener is   *)
(* sent the log from where it joined on, without a gap, a repeat or a      *)
(* reordering.                                                             *)
THEOREM RoomImplementsBroadcast == RoomSpec => RoomIsABroadcast
<1>1. RoomIInv /\ [RoomNext]_roomVars => [Abstract!Next]_(Abstract!vars)
  BY RoomStep DEF AbstractStep
<1> QED
  BY <1>1, RoomInitIInv, RoomInvariant, PTL
     DEF RoomSpec, RoomIsABroadcast, Abstract!Spec
=============================================================================
