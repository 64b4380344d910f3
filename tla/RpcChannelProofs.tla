-------------------------- MODULE RpcChannelProofs --------------------------
(***************************************************************************)
(* The command channel, proved for any number of commands, responses and   *)
(* ids, any capacities, and either kind of endpoint; delivery for what an  *)
(* endpoint submits under ids that are free.                               *)
(***************************************************************************)
EXTENDS RpcChannel, SequenceTheorems, TLAPS

(* What a broker that is about to send holds.                              *)
BrokerHolds ==
  \A p \in Peers :
    /\ broker[p].pc = "sendCommand" =>
         /\ broker[p].cmd \in Cmds /\ broker[p].id \in Ids
         /\ owner[broker[p].cmd] = p
    /\ broker[p].pc \in {"sendRefusal", "sendReject", "sendStray"} =>
         broker[p].id \in Ids

(* An endpoint registers the sinks of its own commands.                    *)
SinksAreOwn ==
  \A p \in Peers, i \in Ids :
    incoming_streams[p][i] # None => owner[incoming_streams[p][i]] = p

(* A response waits for its application only while the broker waits too.   *)
SlotIsFlushed ==
  \A c \in Cmds :
    slot[c] # <<>> => /\ broker[owner[c]].pc = "flush"
                      /\ broker[owner[c]].cmd = c

(* An output closes only once one of the two brokers is down.              *)
ClosedForACause ==
  \A p \in Peers : ~output_open[p] => ~Up(p) \/ ~Up(Other(p))

LoopsHaveIds == \A c \in Cmds : Running(c) => stream[c].id \in Ids

RpcIInv ==
  /\ TypeOK /\ BrokerHolds /\ SinksAreOwn /\ SlotIsFlushed
  /\ ClosedForACause /\ LoopsHaveIds /\ PanicNeedsDrop

-----------------------------------------------------------------------------
(* Lemma: there are two endpoints.                                         *)
LEMMA TwoPeers ==
  ASSUME NEW p \in Peers
  PROVE  /\ Other(p) \in Peers /\ Other(p) # p
         /\ \A q \in Peers : q = p \/ q = Other(p)
         /\ Other(Other(p)) = p
<1>1. PICK a \in Peers, b \in Peers : a # b /\ Peers = {a, b}
  BY RpcAssumption
<1>2. \E q \in Peers : q # p
  BY <1>1
<1>3. Other(p) \in Peers /\ Other(p) # p
  BY <1>2 DEF Other
<1>4. \A q \in Peers : q = p \/ q = Other(p)
  BY <1>1, <1>3
<1>5. \E q \in Peers : q # Other(p)
  BY <1>3
<1>6. Other(Other(p)) \in Peers /\ Other(Other(p)) # Other(p)
  BY <1>5 DEF Other
<1> QED
  BY <1>3, <1>4, <1>6

(* Lemma: what each message carries.                                       *)
LEMMA MessageShape ==
  \A m \in Message : /\ m.id \in Ids
                     /\ m.type = "cmd" => m.cmd \in Cmds
                     /\ m.type = "resp" => m.payload \in Response
BY DEF Message

(* Lemma: the oldest message in flight and what it leaves.                 *)
LEMMA TakeType ==
  ASSUME NEW w \in [Peers -> Seq(Message)],
         \A q \in Peers : Len(w[q]) <= WireCapacity,
         NEW p \in Peers, w[p] # <<>>
  PROVE  /\ Head(w[p]) \in Message
         /\ [w EXCEPT ![p] = Tail(@)] \in [Peers -> Seq(Message)]
         /\ \A q \in Peers : Len([w EXCEPT ![p] = Tail(@)][q])
                               <= WireCapacity
<1>1. /\ Head(w[p]) \in Message /\ Tail(w[p]) \in Seq(Message)
      /\ Len(Tail(w[p])) = Len(w[p]) - 1
  BY HeadTailProperties
<1>2. Len(w[p]) \in Nat /\ WireCapacity \in Nat
  BY LenProperties, RpcAssumption
<1>3. Len(Tail(w[p])) <= WireCapacity
  BY <1>1, <1>2
<1> QED
  BY <1>1, <1>3

(* Lemma: a message sent while there is room.                              *)
LEMMA SendType ==
  ASSUME NEW w \in [Peers -> Seq(Message)],
         \A q \in Peers : Len(w[q]) <= WireCapacity,
         NEW p \in Peers, Len(w[p]) < WireCapacity, NEW m \in Message
  PROVE  /\ [w EXCEPT ![p] = Append(@, m)] \in [Peers -> Seq(Message)]
         /\ \A q \in Peers : Len([w EXCEPT ![p] = Append(@, m)][q])
                               <= WireCapacity
<1>1. /\ Append(w[p], m) \in Seq(Message)
      /\ Len(Append(w[p], m)) = Len(w[p]) + 1
  BY AppendProperties
<1>2. Len(w[p]) \in Nat /\ WireCapacity \in Nat
  BY LenProperties, RpcAssumption
<1>3. Len(Append(w[p], m)) <= WireCapacity
  BY <1>1, <1>2
<1> QED
  BY <1>1, <1>3

(* Lemma: a panic keeps a prefix of what had not left the endpoint.        *)
LEMMA LoseType ==
  ASSUME NEW w \in [Peers -> Seq(Message)],
         \A q \in Peers : Len(w[q]) <= WireCapacity,
         NEW p \in Peers, LosePart(w, p)
  PROVE  /\ wire' \in [Peers -> Seq(Message)]
         /\ \A q \in Peers : Len(wire'[q]) <= WireCapacity
<1>1. PICK k \in 0..Len(w[p]) : wire' = [w EXCEPT ![p] = SubSeq(@, 1, k)]
  BY DEF LosePart
<1>2. Len(w[p]) \in Nat /\ WireCapacity \in Nat /\ k \in Nat /\ k <= Len(w[p])
  BY LenProperties, RpcAssumption
<1>3. SubSeq(w[p], 1, k) \in Seq(Message) /\ Len(SubSeq(w[p], 1, k)) = k
  BY <1>2
<1>4. k <= WireCapacity
  BY <1>2
<1> QED
  BY <1>1, <1>3, <1>4

(* Lemma: nothing has happened yet.                                        *)
LEMMA RpcInit == Init => RpcIInv
<1> SUFFICES ASSUME Init PROVE RpcIInv
  OBVIOUS
<1>1. 1 \in Ids /\ MaxResponses \in Nat /\ WireCapacity \in Nat
  BY RpcAssumption DEF Ids
<1>2. /\ broker \in [Peers -> BrokerState]
      /\ incoming_streams \in [Peers -> [Ids -> Cmds \cup {None}]]
      /\ outgoing_streams \in [Peers -> [Ids -> Cmds \cup {None}]]
      /\ stream \in [Cmds -> LoopState]
  BY DEF Init, Idle, BrokerState, NoStreams, NoLoop, LoopState
<1>3. /\ wire \in [Peers -> Seq(Message)]
      /\ \A p \in Peers : Len(wire[p]) <= WireCapacity
      /\ slot \in [Cmds -> Seq(Response)] /\ got \in [Cmds -> Seq(Response)]
      /\ \A c \in Cmds : Len(slot[c]) <= 1
  BY <1>1, EmptySeq DEF Init
<1>4. \A c \in Cmds : /\ stream[c].sent <= stream[c].emitted
                      /\ stream[c].emitted <= MaxResponses
  BY <1>1 DEF Init, NoLoop
<1>5. TypeOK
  BY <1>1, <1>2, <1>3, <1>4 DEF Init, TypeOK
<1>6. \A p \in Peers : broker[p].pc = "idle"
  BY DEF Init, Idle
<1>7. BrokerHolds /\ SinksAreOwn /\ SlotIsFlushed
  BY <1>6 DEF Init, BrokerHolds, SinksAreOwn, SlotIsFlushed, NoStreams
<1>8. ClosedForACause /\ LoopsHaveIds /\ PanicNeedsDrop
  BY <1>6 DEF Init, ClosedForACause, LoopsHaveIds, PanicNeedsDrop, Running,
         NoLoop
<1> QED
  BY <1>5, <1>7, <1>8 DEF RpcIInv

-----------------------------------------------------------------------------
Down == {"stopped", "panicked"}

(* Broker state b that endpoint p, up, may move to and stay up.            *)
MayHold(p, b, o) ==
  /\ b.pc \notin Down
  /\ b.pc = "sendCommand" => b.cmd \in Cmds /\ b.id \in Ids /\ o[b.cmd] = p
  /\ b.pc \in {"sendRefusal", "sendReject", "sendStray"} => b.id \in Ids

(* Lemma: a step in which no broker goes down.                             *)
LEMMA UpStep ==
  ASSUME RpcIInv, TypeOK', UNCHANGED <<owner, output_open>>,
         \A p \in Peers : \/ broker'[p] = broker[p]
                          \/ Up(p) /\ MayHold(p, broker'[p], owner),
         \A c \in Cmds : client[c] = "dropped" => client'[c] = "dropped",
         \A p \in Peers : channel[p] = "dropped" => channel'[p] = "dropped",
         SinksAreOwn', SlotIsFlushed', LoopsHaveIds'
  PROVE  RpcIInv'
<1> USE DEF RpcIInv
<1>1. BrokerHolds'
  BY DEF BrokerHolds, MayHold
<1>2. \A p \in Peers :
        /\ broker[p].pc \in Down <=> broker'[p].pc \in Down
        /\ broker'[p].pc = "panicked" => broker[p].pc = "panicked"
  BY DEF MayHold, Up, Down
<1>3. ClosedForACause'
  BY <1>2, TwoPeers DEF ClosedForACause, Up, Down
<1>4. PanicNeedsDrop'
  <2> SUFFICES ASSUME NEW p \in Peers, broker'[p].pc = "panicked"
               PROVE  \/ \E c \in Cmds : /\ owner[c] = p
                                         /\ client'[c] = "dropped"
                      \/ channel'[p] = "dropped"
                      \/ broker'[Other(p)].pc \in Down
    BY DEF PanicNeedsDrop, Up, Down
  <2>1. \/ \E c \in Cmds : owner[c] = p /\ client[c] = "dropped"
        \/ channel[p] = "dropped"
        \/ broker[Other(p)].pc \in Down
    BY <1>2 DEF PanicNeedsDrop, Up, Down
  <2> QED
    BY <1>2, <2>1, TwoPeers
<1> QED
  BY <1>1, <1>3, <1>4

(* Lemma: a broker ends, by a return or by a panic.                        *)
LEMMA DownStep ==
  ASSUME RpcIInv, NEW p \in Peers, Up(p), broker[p].pc # "flush",
         NEW d \in Down, Goto(p, d, None, None), Release(p),
         d = "panicked" =>
           \/ \E c \in Cmds : owner[c] = p /\ client[c] = "dropped"
           \/ channel[p] = "dropping"
           \/ ~Up(Other(p)),
         \/ output_open' = output_open
         \/ output_open' = [output_open EXCEPT ![p] = FALSE],
         wire' \in [Peers -> Seq(Message)],
         \A q \in Peers : Len(wire'[q]) <= WireCapacity,
         UNCHANGED <<owner, clean_end, cancel_sent, stream>>
  PROVE  RpcIInv'
<1> USE DEF RpcIInv
<1>1. /\ broker' \in [Peers -> BrokerState]
      /\ broker'[p].pc = d
      /\ \A q \in Peers \ {p} : broker'[q] = broker[q]
  BY DEF Goto, TypeOK, BrokerState, Down
<1>2. NoStreams \in [Ids -> Cmds \cup {None}]
  BY DEF NoStreams
<1>3. /\ incoming_streams' \in [Peers -> [Ids -> Cmds \cup {None}]]
      /\ outgoing_streams' \in [Peers -> [Ids -> Cmds \cup {None}]]
      /\ incoming_streams'[p] = NoStreams
      /\ \A q \in Peers \ {p} : incoming_streams'[q] = incoming_streams[q]
      /\ UNCHANGED <<next_id, slot, got>>
  BY <1>2 DEF Release, TypeOK
<1>4. /\ client' \in [Cmds -> {"idle", "queued", "open", "ended",
                               "dropped", "failed"}]
      /\ \A c \in Cmds : client[c] = "dropped" => client'[c] = "dropped"
  BY DEF Release, TypeOK
<1>5. /\ channel' \in [Peers -> {"open", "dropping", "dropped"}]
      /\ channel[p] \in {"dropping", "dropped"} => channel'[p] = "dropped"
      /\ \A q \in Peers \ {p} : channel'[q] = channel[q]
  BY DEF Release, TypeOK
<1>6. output_open' \in [Peers -> BOOLEAN]
  BY DEF TypeOK
<1>7. TypeOK'
  BY <1>1, <1>3, <1>4, <1>5, <1>6 DEF TypeOK
<1>8. BrokerHolds'
  BY <1>1 DEF BrokerHolds, Down
<1>9. SinksAreOwn'
  <2>1. \A q \in Peers, i \in Ids :
          \/ incoming_streams'[q][i] = None
          \/ incoming_streams'[q][i] = incoming_streams[q][i]
    BY <1>3 DEF NoStreams
  <2>2. \A q \in Peers, i \in Ids :
          incoming_streams'[q][i] # None => owner[incoming_streams'[q][i]] = q
    BY <2>1 DEF SinksAreOwn
  <2> QED
    BY <2>2 DEF SinksAreOwn
<1>10. SlotIsFlushed'
  <2>1. \A c \in Cmds : owner[c] \in Peers
    BY RpcAssumption DEF TypeOK
  <2> QED
    BY <1>1, <1>3, <2>1, ZenonT(30) DEF SlotIsFlushed
<1>11. ClosedForACause'
  BY <1>1, TwoPeers DEF ClosedForACause, Up, Down, TypeOK
<1>12. PanicNeedsDrop'
  <2> SUFFICES ASSUME NEW q \in Peers, broker'[q].pc = "panicked"
               PROVE  \/ \E c \in Cmds : /\ owner[c] = q
                                         /\ client'[c] = "dropped"
                      \/ channel'[q] = "dropped"
                      \/ broker'[Other(q)].pc \in Down
    BY DEF PanicNeedsDrop, Up, Down
  <2>1. CASE q = p
    <3>1. Other(p) \in Peers /\ Other(p) # p
      BY TwoPeers
    <3> QED
      BY <1>1, <1>4, <1>5, <2>1, <3>1 DEF Up, Down
  <2>2. CASE q # p
    <3>1. Other(q) = p
      BY <2>2, TwoPeers
    <3> QED
      BY <1>1, <3>1 DEF Down
  <2> QED
    BY <2>1, <2>2
<1>13. LoopsHaveIds'
  BY DEF LoopsHaveIds, Running
<1> QED
  BY <1>7, <1>8, <1>9, <1>10, <1>11, <1>12, <1>13

-----------------------------------------------------------------------------
(* Lemma: the applications submit, give up and drop their channel.         *)
LEMMA ApplicationStep ==
  ASSUME RpcIInv,
         \/ \E c \in Cmds : SubmitCommand(c) \/ ClientSeesEnd(c)
         \/ \E p \in Peers : DropChannel(p)
  PROVE  RpcIInv'
<1> USE DEF RpcIInv
<1>1. /\ UNCHANGED <<owner, broker, tableVars, wireVars, slot, got,
                     clean_end, cancel_sent, stream>>
      /\ client' \in [Cmds -> {"idle", "queued", "open", "ended",
                               "dropped", "failed"}]
      /\ \A c \in Cmds : client[c] = "dropped" => client'[c] = "dropped"
      /\ channel' \in [Peers -> {"open", "dropping", "dropped"}]
      /\ \A p \in Peers : channel[p] = "dropped" => channel'[p] = "dropped"
  <2>1. CASE \E c \in Cmds : SubmitCommand(c)
    BY <2>1 DEF SubmitCommand, TypeOK
  <2>2. CASE \E c \in Cmds : ClientSeesEnd(c)
    BY <2>2 DEF ClientSeesEnd, TypeOK
  <2>3. CASE \E p \in Peers : DropChannel(p)
    BY <2>3 DEF DropChannel, TypeOK
  <2> QED
    BY <2>1, <2>2, <2>3
<1>2. TypeOK'
  BY <1>1 DEF TypeOK, tableVars, wireVars
<1>3. SinksAreOwn' /\ SlotIsFlushed' /\ LoopsHaveIds'
  BY <1>1 DEF SinksAreOwn, SlotIsFlushed, LoopsHaveIds, Running, tableVars
<1> QED
  BY <1>1, <1>2, <1>3, UpStep DEF tableVars, wireVars

(* Lemma: the application takes a response, or drops its stream; either    *)
(* lets the broker that waits for it go on.                                *)
LEMMA StreamStep ==
  ASSUME RpcIInv, NEW c \in Cmds, ClientReads(c) \/ ClientDrops(c)
  PROVE  RpcIInv'
<1> USE DEF RpcIInv
<1> DEFINE b == IF broker[owner[c]].pc = "flush" /\ broker[owner[c]].cmd = c
                THEN Idle ELSE broker[owner[c]]
<1>1. /\ UNCHANGED <<owner, tableVars, wireVars, channel, clean_end,
                     cancel_sent, stream>>
      /\ broker' = [broker EXCEPT ![owner[c]] = b]
  BY DEF ClientReads, ClientDrops, Unblock
<1>2. owner[c] \in Peers /\ \A d \in Cmds : owner[d] \in Peers
  BY RpcAssumption DEF TypeOK
<1>3. b \in BrokerState
  BY <1>2 DEF TypeOK, Idle, BrokerState
<1>4. /\ broker' \in [Peers -> BrokerState] /\ broker'[owner[c]] = b
      /\ \A p \in Peers \ {owner[c]} : broker'[p] = broker[p]
  <2> HIDE DEF b
  <2> QED
    BY <1>1, <1>2, <1>3 DEF TypeOK
<1>5. b = broker[owner[c]] \/ (Up(owner[c]) /\ MayHold(owner[c], b, owner))
  BY DEF Up, MayHold, Idle, Down
<1>6. /\ slot' \in [Cmds -> Seq(Response)]
      /\ got' \in [Cmds -> Seq(Response)]
      /\ slot'[c] = <<>> /\ \A d \in Cmds \ {c} : slot'[d] = slot[d]
      /\ client' \in [Cmds -> {"idle", "queued", "open", "ended",
                               "dropped", "failed"}]
      /\ \A d \in Cmds : client[d] = "dropped" => client'[d] = "dropped"
  <2>1. CASE ClientReads(c)
    <3>1. /\ slot[c] \in Seq(Response) /\ slot[c] # <<>>
          /\ Len(slot[c]) <= 1 /\ got[c] \in Seq(Response)
      BY <2>1 DEF ClientReads, TypeOK
    <3>2. /\ Head(slot[c]) \in Response /\ Tail(slot[c]) \in Seq(Response)
          /\ Len(Tail(slot[c])) = Len(slot[c]) - 1
          /\ Len(slot[c]) \in Nat
      BY <3>1, HeadTailProperties, LenProperties
    <3>3. Len(Tail(slot[c])) \in Nat
      BY <3>2, LenProperties
    <3>4. Len(Tail(slot[c])) = 0
      <4>1. \A k, m \in Nat : k <= 1 /\ m = k - 1 => m = 0
        OBVIOUS
      <4> QED
        BY <3>1, <3>2, <3>3, <4>1, Zenon
    <3>5. Tail(slot[c]) = <<>>
      BY <3>2, <3>4, EmptySeq
    <3>6. Append(got[c], Head(slot[c])) \in Seq(Response)
      BY <3>1, <3>2, AppendProperties
    <3> QED
      BY <2>1, <3>2, <3>5, <3>6 DEF ClientReads, TypeOK
  <2>2. CASE ClientDrops(c)
    BY <2>2, EmptySeq DEF ClientDrops, TypeOK
  <2> QED
    BY <2>1, <2>2
<1> HIDE DEF b
<1>7. \A d \in Cmds : Len(slot'[d]) <= 1
  <2>1. Len(slot'[c]) <= 1
    BY <1>6, EmptySeq
  <2> QED
    BY <1>6, <2>1 DEF TypeOK
<1>8. TypeOK'
  BY <1>1, <1>4, <1>6, <1>7 DEF TypeOK, tableVars, wireVars
<1>9. SlotIsFlushed'
  <2> SUFFICES ASSUME NEW d \in Cmds, slot'[d] # <<>>
               PROVE  /\ broker'[owner[d]].pc = "flush"
                      /\ broker'[owner[d]].cmd = d
    BY <1>1 DEF SlotIsFlushed
  <2>1. d # c /\ slot[d] # <<>>
    BY <1>6
  <2>2. broker[owner[d]].pc = "flush" /\ broker[owner[d]].cmd = d
    BY <2>1 DEF SlotIsFlushed
  <2>3. broker'[owner[d]] = broker[owner[d]]
    BY <1>2, <1>4, <2>1, <2>2 DEF b
  <2> QED
    BY <2>2, <2>3
<1>10. SinksAreOwn' /\ LoopsHaveIds'
  BY <1>1 DEF SinksAreOwn, LoopsHaveIds, Running, tableVars
<1> QED
  BY <1>1, <1>4, <1>5, <1>6, <1>8, <1>9, <1>10, UpStep
     DEF tableVars, wireVars

-----------------------------------------------------------------------------
(* Lemma: the handler of c and its sender loop, and a cancel message: only *)
(* the wire of one endpoint and the loop of c change.                      *)
LEMMA LoopFrame ==
  ASSUME RpcIInv, wire' \in [Peers -> Seq(Message)],
         \A q \in Peers : Len(wire'[q]) <= WireCapacity,
         stream' \in [Cmds -> LoopState],
         \A c \in Cmds : /\ stream'[c].sent <= stream'[c].emitted
                         /\ stream'[c].emitted <= MaxResponses
                         /\ stream'[c].id = stream[c].id
                         /\ stream'[c].loop = "running" => Running(c),
         cancel_sent' \in [Cmds -> BOOLEAN],
         UNCHANGED <<owner, broker, tableVars, output_open, clientVars,
                     clean_end>>
  PROVE  RpcIInv'
<1> USE DEF RpcIInv
<1>1. TypeOK'
  BY DEF TypeOK, tableVars, clientVars
<1>2. SinksAreOwn' /\ SlotIsFlushed'
  BY DEF SinksAreOwn, SlotIsFlushed, tableVars, clientVars
<1>3. LoopsHaveIds'
  BY DEF LoopsHaveIds, Running
<1> QED
  BY <1>1, <1>2, <1>3, UpStep DEF clientVars

(* Lemma: a handler produces a response, or closes, and its sender loop    *)
(* fails, or sends.                                                        *)
LEMMA ServeStep ==
  ASSUME RpcIInv, NEW c \in Cmds,
         HandlerEmits(c) \/ HandlerCloses(c) \/ LoopStep(c)
  PROVE  RpcIInv'
<1> USE DEF RpcIInv
<1>1. /\ Running(c) /\ stream[c] \in LoopState /\ stream[c].id \in Ids
      /\ wire \in [Peers -> Seq(Message)]
      /\ \A q \in Peers : Len(wire[q]) <= WireCapacity
      /\ UNCHANGED <<owner, broker, tableVars, output_open, clientVars,
                     clean_end, cancel_sent>>
      /\ cancel_sent \in [Cmds -> BOOLEAN]
  BY DEF HandlerEmits, HandlerCloses, LoopStep, LoopSendsResponse,
         LoopSendsEnd, LoopFails, LoopsHaveIds, TypeOK, wireVars
<1>2. /\ stream[c].sent \in Nat /\ stream[c].emitted \in Nat
      /\ stream[c].sent <= stream[c].emitted
      /\ stream[c].emitted <= MaxResponses /\ MaxResponses \in Nat
  BY <1>1, RpcAssumption DEF TypeOK, LoopState
<1>3. Server(c) \in Peers
  <2>1. owner[c] \in Peers
    BY RpcAssumption DEF TypeOK
  <2> QED
    BY <2>1, TwoPeers DEF Server
<1>4. ASSUME NEW t \in LoopState, stream' = [stream EXCEPT ![c] = t],
             t.id = stream[c].id, t.sent <= t.emitted,
             t.emitted <= MaxResponses
      PROVE  /\ stream' \in [Cmds -> LoopState]
             /\ \A d \in Cmds : /\ stream'[d].sent <= stream'[d].emitted
                                /\ stream'[d].emitted <= MaxResponses
                                /\ stream'[d].id = stream[d].id
                                /\ stream'[d].loop = "running" => Running(d)
  <2>1. \A d \in Cmds : stream'[d] = IF d = c THEN t ELSE stream[d]
    BY <1>4 DEF TypeOK
  <2> QED
    BY <1>1, <1>4, <2>1 DEF TypeOK, Running
<1>5. CASE HandlerEmits(c)
  <2> DEFINE t == [stream[c] EXCEPT !.emitted = @ + 1]
  <2>1. /\ stream' = [stream EXCEPT ![c] = t] /\ wire' = wire
        /\ stream[c].emitted < MaxResponses
    BY <1>5 DEF HandlerEmits, wireVars
  <2>2. t \in LoopState /\ t.id = stream[c].id /\ t.sent = stream[c].sent
        /\ t.emitted = stream[c].emitted + 1
    BY <1>1, SMTT(20) DEF LoopState
  <2> HIDE DEF t
  <2>3. t.sent <= t.emitted /\ t.emitted <= MaxResponses
    BY <1>2, <2>1, <2>2
  <2> QED
    BY <1>1, <1>4, <2>1, <2>2, <2>3, LoopFrame
<1>6. CASE HandlerCloses(c)
  <2> DEFINE t == [stream[c] EXCEPT !.closed = TRUE]
  <2>1. stream' = [stream EXCEPT ![c] = t] /\ wire' = wire
    BY <1>6 DEF HandlerCloses, wireVars
  <2>2. t \in LoopState /\ t.id = stream[c].id /\ t.sent = stream[c].sent
        /\ t.emitted = stream[c].emitted
    BY <1>1 DEF LoopState
  <2> HIDE DEF t
  <2> QED
    BY <1>1, <1>2, <1>4, <2>1, <2>2, LoopFrame
<1>7. CASE LoopFails(c)
  <2> DEFINE t == [stream[c] EXCEPT !.loop = "done"]
  <2>1. stream' = [stream EXCEPT ![c] = t] /\ wire' = wire
    BY <1>7 DEF LoopFails, wireVars
  <2>2. t \in LoopState /\ t.id = stream[c].id /\ t.sent = stream[c].sent
        /\ t.emitted = stream[c].emitted
    BY <1>1 DEF LoopState
  <2> HIDE DEF t
  <2> QED
    BY <1>1, <1>2, <1>4, <2>1, <2>2, LoopFrame
<1>8. CASE LoopSendsEnd(c)
  <2> DEFINE t == [stream[c] EXCEPT !.loop = "done"]
             m == [type |-> "end", id |-> stream[c].id]
  <2>1. /\ stream' = [stream EXCEPT ![c] = t] /\ Len(wire[Server(c)])
                                                   < WireCapacity
        /\ wire' = [wire EXCEPT ![Server(c)] = Append(@, m)]
    BY <1>8 DEF LoopSendsEnd, CanSend
  <2>2. t \in LoopState /\ t.id = stream[c].id /\ t.sent = stream[c].sent
        /\ t.emitted = stream[c].emitted
    BY <1>1 DEF LoopState
  <2>3. m \in Message
    BY <1>1 DEF Message
  <2> HIDE DEF t, m
  <2>4. /\ wire' \in [Peers -> Seq(Message)]
        /\ \A q \in Peers : Len(wire'[q]) <= WireCapacity
    BY <1>1, <1>3, <2>1, <2>3, SendType
  <2> QED
    BY <1>1, <1>2, <1>4, <2>1, <2>2, <2>4, LoopFrame
<1>9. CASE LoopSendsResponse(c)
  <2> DEFINE t == [stream[c] EXCEPT !.sent = @ + 1]
             m == [type |-> "resp", id |-> stream[c].id,
                   payload |-> <<c, stream[c].sent + 1>>]
  <2>1. /\ stream' = [stream EXCEPT ![c] = t] /\ Len(wire[Server(c)])
                                                   < WireCapacity
        /\ wire' = [wire EXCEPT ![Server(c)] = Append(@, m)]
        /\ stream[c].sent < stream[c].emitted
    BY <1>9 DEF LoopSendsResponse, CanSend
  <2>2. t \in LoopState /\ t.id = stream[c].id /\ t.sent = stream[c].sent + 1
        /\ t.emitted = stream[c].emitted
    BY <1>1, <1>2 DEF LoopState
  <2>3. stream[c].sent + 1 \in 1..MaxResponses
    BY <1>2, <2>1
  <2>4. m \in Message
    BY <1>1, <2>3 DEF Message, Response
  <2> HIDE DEF t, m
  <2>5. /\ wire' \in [Peers -> Seq(Message)]
        /\ \A q \in Peers : Len(wire'[q]) <= WireCapacity
    BY <1>1, <1>3, <2>1, <2>4, SendType
  <2>6. t.sent <= t.emitted /\ t.emitted <= MaxResponses
    BY <1>2, <2>1, <2>2
  <2> QED
    BY <1>1, <1>4, <2>1, <2>2, <2>5, <2>6, LoopFrame
<1> QED
  BY <1>5, <1>6, <1>7, <1>8, <1>9 DEF LoopStep

(* Lemma: a peer that implements the cancel message sends one.             *)
LEMMA CancelStep ==
  ASSUME RpcIInv, NEW p \in Peers, NEW i \in Ids, SendCancel(p, i)
  PROVE  RpcIInv'
<1> USE DEF RpcIInv
<1> DEFINE m == [type |-> "cancel", id |-> i]
<1>1. /\ Len(wire[p]) < WireCapacity
      /\ wire' = [wire EXCEPT ![p] = Append(@, m)]
      /\ UNCHANGED <<owner, broker, tableVars, output_open, clientVars,
                     clean_end, stream>>
      /\ cancel_sent' = [cancel_sent EXCEPT ![incoming_streams[p][i]] = TRUE]
  BY DEF SendCancel, CanSend
<1>2. m \in Message
  BY DEF Message
<1> HIDE DEF m
<1>3. /\ wire' \in [Peers -> Seq(Message)]
      /\ \A q \in Peers : Len(wire'[q]) <= WireCapacity
  BY <1>1, <1>2, SendType DEF TypeOK
<1>4. cancel_sent' \in [Cmds -> BOOLEAN]
  BY <1>1 DEF TypeOK
<1>5. /\ stream' \in [Cmds -> LoopState]
      /\ \A c \in Cmds : /\ stream'[c].sent <= stream'[c].emitted
                         /\ stream'[c].emitted <= MaxResponses
                         /\ stream'[c].id = stream[c].id
                         /\ stream'[c].loop = "running" => Running(c)
  BY <1>1 DEF TypeOK, Running
<1> QED
  BY <1>1, <1>3, <1>4, <1>5, LoopFrame

(* Lemma: the pipes to a broker that is down fail, back to the output of   *)
(* the other endpoint.                                                     *)
LEMMA PipesStep ==
  ASSUME RpcIInv, NEW p \in Peers, PipesBreak(p)
  PROVE  RpcIInv'
<1> USE DEF RpcIInv
<1>1. /\ broker[Other(p)].pc \in Down
      /\ wire' = [wire EXCEPT ![p] = <<>>]
      /\ output_open' = [output_open EXCEPT ![p] = FALSE]
      /\ UNCHANGED <<owner, broker, tableVars, clientVars, clean_end,
                     cancel_sent, stream>>
  BY DEF PipesBreak, Up, Down
<1>2. /\ wire' \in [Peers -> Seq(Message)]
      /\ \A q \in Peers : Len(wire'[q]) <= WireCapacity
  <2>1. WireCapacity \in Nat
    BY RpcAssumption
  <2>2. <<>> \in Seq(Message) /\ Len(<<>>) <= WireCapacity
    BY <2>1, EmptySeq
  <2> QED
    BY <1>1, <2>2 DEF TypeOK
<1>3. TypeOK'
  BY <1>1, <1>2 DEF TypeOK, tableVars, clientVars
<1>4. BrokerHolds' /\ SinksAreOwn' /\ SlotIsFlushed' /\ LoopsHaveIds'
  BY <1>1 DEF BrokerHolds, SinksAreOwn, SlotIsFlushed, LoopsHaveIds,
         Running, tableVars, clientVars
<1>5. ClosedForACause'
  BY <1>1 DEF ClosedForACause, Up, Down, TypeOK
<1>6. PanicNeedsDrop'
  BY <1>1 DEF PanicNeedsDrop, Up, clientVars
<1> QED
  BY <1>3, <1>4, <1>5, <1>6

-----------------------------------------------------------------------------
(* Lemma: the broker of p moves and stays up, and no response waits.       *)
LEMMA BrokerFrame ==
  ASSUME RpcIInv, NEW p \in Peers, Up(p), broker[p].pc # "flush",
         NEW b \in BrokerState, MayHold(p, b, owner),
         broker' = [broker EXCEPT ![p] = b],
         wire' \in [Peers -> Seq(Message)],
         \A q \in Peers : Len(wire'[q]) <= WireCapacity,
         next_id' \in [Peers -> Ids],
         incoming_streams' \in [Peers -> [Ids -> Cmds \cup {None}]],
         outgoing_streams' \in [Peers -> [Ids -> Cmds \cup {None}]],
         client' \in [Cmds -> {"idle", "queued", "open", "ended", "dropped",
                               "failed"}],
         \A c \in Cmds : client[c] = "dropped" => client'[c] = "dropped",
         clean_end' \in [Cmds -> BOOLEAN],
         stream' \in [Cmds -> LoopState],
         \A c \in Cmds : /\ stream'[c].sent <= stream'[c].emitted
                         /\ stream'[c].emitted <= MaxResponses,
         SinksAreOwn', LoopsHaveIds',
         UNCHANGED <<owner, output_open, channel, slot, got, cancel_sent>>
  PROVE  RpcIInv'
<1> USE DEF RpcIInv
<1>1. /\ broker' \in [Peers -> BrokerState] /\ broker'[p] = b
      /\ \A q \in Peers \ {p} : broker'[q] = broker[q]
  BY DEF TypeOK
<1>2. TypeOK'
  BY <1>1 DEF TypeOK
<1>3. SlotIsFlushed'
  <2>1. \A c \in Cmds : owner[c] \in Peers
    BY RpcAssumption DEF TypeOK
  <2> QED
    BY <1>1, <2>1 DEF SlotIsFlushed
<1> QED
  BY <1>1, <1>2, <1>3, UpStep

(* Lemma: the broker takes a command of its application.                   *)
LEMMA StartCommandStep ==
  ASSUME RpcIInv, NEW p \in Peers, NEW c \in Cmds, TakeStartCommand(p, c)
  PROVE  RpcIInv'
<1> USE DEF RpcIInv
<1>1. /\ broker[p].pc = "idle" /\ owner[c] = p /\ client[c] = "queued"
      /\ client' = [client EXCEPT ![c] = "open"]
      /\ UNCHANGED <<owner, incoming_streams, outgoing_streams, wire,
                     output_open, channel, slot, got, clean_end,
                     cancel_sent, stream>>
  BY DEF TakeStartCommand, IsIdle, wireVars
<1>2. PICK i \in Ids :
        /\ broker' = [broker EXCEPT ![p] =
                        [pc |-> "sendCommand", cmd |-> c, id |-> i]]
        /\ next_id' \in [Peers -> Ids]
  <2>1. CASE p \notin Conforming
    <3>1. /\ next_id' = [next_id EXCEPT ![p] = take_new_id(@).next]
          /\ Goto(p, "sendCommand", c, take_new_id(next_id[p]).id)
      BY <2>1 DEF TakeStartCommand
    <3>2. next_id[p] \in Ids /\ 1 \in Ids
      BY RpcAssumption DEF TypeOK, Ids
    <3>3. /\ take_new_id(next_id[p]).id \in Ids
          /\ take_new_id(next_id[p]).next \in Ids
      BY <3>2 DEF take_new_id
    <3> QED
      BY <3>1, <3>3 DEF Goto, TypeOK
  <2>2. CASE p \in Conforming
    BY <2>2 DEF TakeStartCommand, FreeIds, Goto, TypeOK
  <2> QED
    BY <2>1, <2>2
<1> DEFINE b == [pc |-> "sendCommand", cmd |-> c, id |-> i]
<1>3. b \in BrokerState /\ MayHold(p, b, owner)
  BY <1>1 DEF BrokerState, MayHold, Down
<1>4. SinksAreOwn' /\ LoopsHaveIds'
  BY <1>1 DEF SinksAreOwn, LoopsHaveIds, Running
<1>5. /\ client' \in [Cmds -> {"idle", "queued", "open", "ended", "dropped",
                               "failed"}]
      /\ \A d \in Cmds : client[d] = "dropped" => client'[d] = "dropped"
  BY <1>1 DEF TypeOK
<1>6. Up(p) /\ broker[p].pc # "flush"
  BY <1>1 DEF Up
<1>7. broker' = [broker EXCEPT ![p] = b]
  BY <1>2
<1> HIDE DEF b
<1> QED
  BY <1>1, <1>2, <1>3, <1>4, <1>5, <1>6, <1>7, BrokerFrame DEF TypeOK

(* Lemma: the command message is out, or lost, or the broker returns.      *)
LEMMA SendCommandStep ==
  ASSUME RpcIInv, NEW p \in Peers, SendCommand(p) \/ SendCommandClosed(p)
  PROVE  RpcIInv'
<1> USE DEF RpcIInv
<1>1. /\ broker[p].pc = "sendCommand" /\ Up(p) /\ broker[p].pc # "flush"
      /\ broker[p].cmd \in Cmds /\ broker[p].id \in Ids
      /\ owner[broker[p].cmd] = p
  BY DEF SendCommand, SendCommandClosed, BrokerHolds, Up
<1>2. ASSUME Register(p), owner' = owner
      PROVE  /\ incoming_streams' \in [Peers -> [Ids -> Cmds \cup {None}]]
             /\ SinksAreOwn'
  <2>1. incoming_streams' \in [Peers -> [Ids -> Cmds \cup {None}]]
    BY <1>1, <1>2 DEF Register, TypeOK
  <2>2. \A q \in Peers, i \in Ids :
          \/ incoming_streams'[q][i] = incoming_streams[q][i]
          \/ q = p /\ incoming_streams'[q][i] = broker[p].cmd
    BY <1>1, <1>2 DEF Register, TypeOK
  <2>3. \A q \in Peers, i \in Ids :
          incoming_streams'[q][i] # None => owner[incoming_streams'[q][i]] = q
    BY <1>1, <2>2 DEF SinksAreOwn
  <2> QED
    BY <1>2, <2>1, <2>3 DEF SinksAreOwn
<1>3. Idle \in BrokerState /\ MayHold(p, Idle, owner)
  BY DEF Idle, BrokerState, MayHold, Down
<1>4. CASE SendCommand(p)
  <2> DEFINE m == [type |-> "cmd", id |-> broker[p].id,
                   cmd |-> broker[p].cmd]
  <2>1. /\ Len(wire[p]) < WireCapacity
        /\ wire' = [wire EXCEPT ![p] = Append(@, m)]
        /\ Register(p) /\ broker' = [broker EXCEPT ![p] = Idle]
        /\ UNCHANGED <<owner, next_id, outgoing_streams, output_open,
                       channel, client, slot, got, clean_end, cancel_sent,
                       stream>>
    BY <1>4 DEF SendCommand, CanSend, Goto, Idle, clientVars
  <2>2. m \in Message
    BY <1>1 DEF Message
  <2> HIDE DEF m
  <2>3. /\ wire' \in [Peers -> Seq(Message)]
        /\ \A q \in Peers : Len(wire'[q]) <= WireCapacity
    BY <2>1, <2>2, SendType DEF TypeOK
  <2>4. LoopsHaveIds'
    BY <2>1 DEF LoopsHaveIds, Running
  <2> QED
    BY <1>1, <1>2, <1>3, <2>1, <2>3, <2>4, BrokerFrame DEF TypeOK
<1>5. CASE SendCommandClosed(p)
  <2>1. UNCHANGED <<owner, wire, output_open, clean_end, cancel_sent, stream>>
    BY <1>5 DEF SendCommandClosed, wireVars
  <2>2. CASE Stop(p)
    BY <1>1, <2>1, <2>2, DownStep DEF Stop, TypeOK, Down
  <2>3. CASE ~Stop(p)
    <3>1. /\ Register(p) /\ broker' = [broker EXCEPT ![p] = Idle]
          /\ UNCHANGED <<next_id, outgoing_streams, channel, client, slot,
                         got>>
      BY <1>5, <2>3 DEF SendCommandClosed, Goto, Idle, clientVars
    <3>2. LoopsHaveIds'
      BY <2>1 DEF LoopsHaveIds, Running
    <3> QED
      BY <1>1, <1>2, <1>3, <2>1, <3>1, <3>2, BrokerFrame DEF TypeOK
  <2> QED
    BY <2>2, <2>3
<1> QED
  BY <1>4, <1>5

(* Lemma: the terminate event meets todo!(), or an error message ends the  *)
(* channel.                                                                *)
LEMMA TerminateStep ==
  ASSUME RpcIInv, NEW p \in Peers, TakeTerminate(p) \/ TakeError(p)
  PROVE  RpcIInv'
<1> USE DEF RpcIInv
<1>1. /\ Up(p) /\ broker[p].pc # "flush"
      /\ UNCHANGED <<owner, clean_end, cancel_sent, stream>>
  BY DEF TakeTerminate, TakeError, CanTake, IsIdle, Up
<1>2. CASE TakeTerminate(p)
  <2>1. /\ wire' \in [Peers -> Seq(Message)]
        /\ \A q \in Peers : Len(wire'[q]) <= WireCapacity
    BY <1>2, LoseType DEF TakeTerminate, TypeOK
  <2> QED
    BY <1>1, <1>2, <2>1, DownStep DEF TakeTerminate, Panic, Down
<1>3. CASE TakeError(p)
  <2>1. /\ wire[Other(p)] # <<>> /\ Other(p) \in Peers
        /\ wire' = [wire EXCEPT ![Other(p)] = Tail(@)]
        /\ output_open' = output_open
    BY <1>3, TwoPeers DEF TakeError, CanTake, Take, WireAfterTake
  <2>2. /\ wire' \in [Peers -> Seq(Message)]
        /\ \A q \in Peers : Len(wire'[q]) <= WireCapacity
    BY <2>1, TakeType DEF TypeOK
  <2> QED
    BY <1>1, <1>3, <2>1, <2>2, DownStep DEF TakeError, Stop, Down
<1> QED
  BY <1>2, <1>3

(* Lemma: an error message is sent, or cannot be; a failed send is         *)
(* unwrapped only once the other endpoint is down.                         *)
LEMMA ErrorStep ==
  ASSUME RpcIInv, NEW p \in Peers, SendError(p) \/ SendErrorClosed(p)
  PROVE  RpcIInv'
<1> USE DEF RpcIInv
<1>1. /\ broker[p].pc \in {"sendRefusal", "sendReject", "sendStray"}
      /\ Up(p) /\ broker[p].pc # "flush" /\ broker[p].id \in Ids
      /\ UNCHANGED <<owner, clean_end, cancel_sent, stream>>
  BY DEF SendError, SendErrorClosed, BrokerHolds, Up
<1>2. Idle \in BrokerState /\ MayHold(p, Idle, owner)
  BY DEF Idle, BrokerState, MayHold, Down
<1>3. LoopsHaveIds'
  BY <1>1 DEF LoopsHaveIds, Running
<1>4. ASSUME wire' \in [Peers -> Seq(Message)],
             \A q \in Peers : Len(wire'[q]) <= WireCapacity,
             Goto(p, "idle", None, None), output_open' = output_open,
             UNCHANGED <<tableVars, clientVars>>
      PROVE  RpcIInv'
  <2>1. /\ broker' = [broker EXCEPT ![p] = Idle]
        /\ UNCHANGED <<next_id, incoming_streams, outgoing_streams, channel,
                       client, slot, got>>
    BY <1>4 DEF Goto, Idle, tableVars, clientVars
  <2>2. SinksAreOwn'
    BY <1>1, <2>1 DEF SinksAreOwn
  <2> QED
    BY <1>1, <1>2, <1>3, <1>4, <2>1, <2>2, BrokerFrame DEF TypeOK
<1>5. CASE SendError(p)
  <2> DEFINE m == [type |-> "error", id |-> broker[p].id]
  <2>1. /\ Len(wire[p]) < WireCapacity /\ output_open' = output_open
        /\ wire' = [wire EXCEPT ![p] = Append(@, m)]
    BY <1>5 DEF SendError, CanSend
  <2>2. m \in Message
    BY <1>1 DEF Message
  <2> HIDE DEF m
  <2>3. /\ wire' \in [Peers -> Seq(Message)]
        /\ \A q \in Peers : Len(wire'[q]) <= WireCapacity
    BY <2>1, <2>2, SendType DEF TypeOK
  <2>4. CASE Stop(p)
    BY <1>1, <2>1, <2>3, <2>4, DownStep DEF Stop, Down
  <2>5. CASE ~Stop(p)
    BY <1>4, <1>5, <2>1, <2>3, <2>5 DEF SendError
  <2> QED
    BY <2>4, <2>5
<1>6. CASE SendErrorClosed(p)
  <2>1. ~Up(Other(p))
    BY <1>1, <1>6 DEF SendErrorClosed, ClosedForACause
  <2>2. CASE Panic(p) /\ LosePart(wire, p)
    <3>1. /\ wire' \in [Peers -> Seq(Message)]
          /\ \A q \in Peers : Len(wire'[q]) <= WireCapacity
      BY <2>2, LoseType DEF TypeOK
    <3> QED
      BY <1>1, <2>1, <2>2, <3>1, DownStep DEF Panic, Down
  <2>3. CASE Stop(p) /\ UNCHANGED wireVars
    BY <1>1, <2>3, DownStep DEF Stop, Down, wireVars, TypeOK
  <2>4. CASE /\ Goto(p, "idle", None, None)
             /\ UNCHANGED <<tableVars, clientVars, wireVars>>
    BY <1>4, <2>4 DEF wireVars, TypeOK
  <2> QED
    BY <1>6, <2>2, <2>3, <2>4 DEF SendErrorClosed
<1> QED
  BY <1>5, <1>6

-----------------------------------------------------------------------------
(* Lemma: what a broker that takes a message finds and leaves.             *)
LEMMA Taken ==
  ASSUME RpcIInv, NEW p \in Peers, NEW type, CanTake(p, type)
  PROVE  /\ Up(p) /\ broker[p].pc # "flush" /\ broker[p].pc = "idle"
         /\ Incoming(p) \in Message /\ Incoming(p).type = type
         /\ WireAfterTake(p) \in [Peers -> Seq(Message)]
         /\ \A q \in Peers : Len(WireAfterTake(p)[q]) <= WireCapacity
         /\ \A q \in Peers : MayHold(q, broker[p], owner)
         /\ broker[p] \in BrokerState
         /\ broker = [broker EXCEPT ![p] = broker[p]]
<1>1. /\ broker[p].pc = "idle" /\ wire[Other(p)] # <<>>
      /\ Incoming(p).type = type /\ Other(p) \in Peers
  BY TwoPeers DEF CanTake, IsIdle
<1>2. /\ Incoming(p) \in Message
      /\ WireAfterTake(p) \in [Peers -> Seq(Message)]
      /\ \A q \in Peers : Len(WireAfterTake(p)[q]) <= WireCapacity
  BY <1>1, TakeType DEF RpcIInv, TypeOK, Incoming, WireAfterTake
<1>3. broker[p] \in BrokerState /\ broker = [broker EXCEPT ![p] = broker[p]]
  BY DEF RpcIInv, TypeOK
<1> QED
  BY <1>1, <1>2, <1>3 DEF Up, MayHold, Down

(* Lemma: a command is refused, rejected or served.                        *)
LEMMA TakeCommandStep ==
  ASSUME RpcIInv, NEW p \in Peers, TakeCommand(p)
  PROVE  RpcIInv'
<1> USE DEF RpcIInv
<1> DEFINE i == Incoming(p).id
           c == Incoming(p).cmd
<1>1. CanTake(p, "cmd")
  BY DEF TakeCommand
<1>2. /\ Up(p) /\ broker[p].pc # "flush"
      /\ i \in Ids /\ c \in Cmds
      /\ MayHold(p, broker[p], owner) /\ broker[p] \in BrokerState
      /\ broker = [broker EXCEPT ![p] = broker[p]]
  BY <1>1, Taken, MessageShape
<1>3. /\ wire' = WireAfterTake(p)
      /\ UNCHANGED <<owner, next_id, incoming_streams, output_open, channel,
                     client, slot, got, clean_end, cancel_sent>>
  BY DEF TakeCommand, Take, clientVars
<1>4. /\ wire' \in [Peers -> Seq(Message)]
      /\ \A q \in Peers : Len(wire'[q]) <= WireCapacity
  BY <1>1, <1>3, Taken
<1>5. SinksAreOwn'
  BY <1>3 DEF SinksAreOwn
<1>6. ASSUME NEW pc \in {"sendRefusal", "sendReject"},
             Goto(p, pc, None, i), UNCHANGED <<outgoing_streams, stream>>
      PROVE  RpcIInv'
  <2> DEFINE b == [pc |-> pc, cmd |-> None, id |-> i]
  <2>1. b \in BrokerState /\ MayHold(p, b, owner)
    BY <1>2 DEF BrokerState, MayHold, Down
  <2>2. broker' = [broker EXCEPT ![p] = b]
    BY <1>6 DEF Goto
  <2>3. LoopsHaveIds'
    BY <1>6 DEF LoopsHaveIds, Running
  <2> HIDE DEF b, i
  <2> QED
    BY <1>2, <1>3, <1>4, <1>5, <1>6, <2>1, <2>2, <2>3, BrokerFrame
       DEF TypeOK
<1>7. ASSUME outgoing_streams' = [outgoing_streams EXCEPT ![p][i] = c],
             stream' = [stream EXCEPT ![c] =
                          [NoLoop EXCEPT !.loop = "running", !.id = i]],
             broker' = broker
      PROVE  RpcIInv'
  <2> DEFINE t == [NoLoop EXCEPT !.loop = "running", !.id = i]
  <2>1. /\ t \in LoopState /\ t.id = i /\ t.sent <= t.emitted
        /\ t.emitted <= MaxResponses
    <3> HIDE DEF i
    <3>1. t.sent = 0 /\ t.emitted = 0 /\ MaxResponses \in Nat
      BY RpcAssumption DEF NoLoop
    <3>2. t \in LoopState /\ t.id = i
      BY <1>2 DEF NoLoop, LoopState
    <3> HIDE DEF t
    <3> QED
      BY <3>1, <3>2
  <2> HIDE DEF t, i, c
  <2>2. outgoing_streams' \in [Peers -> [Ids -> Cmds \cup {None}]]
    BY <1>2, <1>7 DEF TypeOK
  <2>3. stream' = [stream EXCEPT ![c] = t]
    BY <1>7 DEF t, i
  <2>4. /\ stream' \in [Cmds -> LoopState]
        /\ stream'[c] = t /\ \A d \in Cmds \ {c} : stream'[d] = stream[d]
    BY <1>2, <2>1, <2>3 DEF TypeOK
  <2>5. \A d \in Cmds : /\ stream'[d].sent <= stream'[d].emitted
                        /\ stream'[d].emitted <= MaxResponses
    BY <2>1, <2>4 DEF TypeOK
  <2>6. LoopsHaveIds'
    BY <1>2, <2>1, <2>4 DEF LoopsHaveIds, Running
  <2> QED
    BY <1>2, <1>3, <1>4, <1>5, <1>7, <2>2, <2>4, <2>5, <2>6, BrokerFrame
       DEF TypeOK
<1> QED
  BY <1>6, <1>7 DEF TakeCommand

(* Lemma: a cancel message drops a cancel handle.                          *)
LEMMA TakeCancelStep ==
  ASSUME RpcIInv, NEW p \in Peers, TakeCancel(p)
  PROVE  RpcIInv'
<1> USE DEF RpcIInv
<1>1. CanTake(p, "cancel")
  BY DEF TakeCancel
<1>2. /\ Up(p) /\ broker[p].pc # "flush" /\ Incoming(p).id \in Ids
      /\ MayHold(p, broker[p], owner) /\ broker[p] \in BrokerState
      /\ broker = [broker EXCEPT ![p] = broker[p]]
  BY <1>1, Taken, MessageShape
<1>3. /\ wire' = WireAfterTake(p)
      /\ outgoing_streams' =
           [outgoing_streams EXCEPT ![p][Incoming(p).id] = None]
      /\ UNCHANGED <<owner, broker, next_id, incoming_streams, output_open,
                     channel, client, slot, got, clean_end, cancel_sent,
                     stream>>
  BY DEF TakeCancel, Take, clientVars
<1>4. /\ wire' \in [Peers -> Seq(Message)]
      /\ \A q \in Peers : Len(wire'[q]) <= WireCapacity
  BY <1>1, <1>3, Taken
<1>5. outgoing_streams' \in [Peers -> [Ids -> Cmds \cup {None}]]
  BY <1>2, <1>3 DEF TypeOK
<1>6. SinksAreOwn' /\ LoopsHaveIds'
  BY <1>3 DEF SinksAreOwn, LoopsHaveIds, Running
<1> QED
  BY <1>2, <1>3, <1>4, <1>5, <1>6, BrokerFrame DEF TypeOK

(* Lemma: an end message drops a sink, or is stray.                        *)
LEMMA TakeEndStep ==
  ASSUME RpcIInv, NEW p \in Peers, TakeEnd(p)
  PROVE  RpcIInv'
<1> USE DEF RpcIInv
<1> DEFINE i == Incoming(p).id
           c == incoming_streams[p][i]
<1>1. CanTake(p, "end")
  BY DEF TakeEnd
<1>2. /\ Up(p) /\ broker[p].pc # "flush" /\ i \in Ids
      /\ MayHold(p, broker[p], owner) /\ broker[p] \in BrokerState
      /\ broker = [broker EXCEPT ![p] = broker[p]]
  BY <1>1, Taken, MessageShape
<1>3. /\ wire' = WireAfterTake(p)
      /\ UNCHANGED <<owner, next_id, outgoing_streams, output_open, channel,
                     client, slot, got, cancel_sent, stream>>
  BY DEF TakeEnd, Take, clientVars
<1>4. /\ wire' \in [Peers -> Seq(Message)]
      /\ \A q \in Peers : Len(wire'[q]) <= WireCapacity
  BY <1>1, <1>3, Taken
<1>5. LoopsHaveIds'
  BY <1>3 DEF LoopsHaveIds, Running
<1>6. CASE c = None
  <2> DEFINE b == [pc |-> "sendStray", cmd |-> None, id |-> i]
  <2>1. /\ broker' = [broker EXCEPT ![p] = b]
        /\ UNCHANGED <<incoming_streams, clean_end>>
    BY <1>6 DEF TakeEnd, Goto
  <2>2. b \in BrokerState /\ MayHold(p, b, owner)
    BY <1>2 DEF BrokerState, MayHold, Down
  <2>3. SinksAreOwn'
    BY <1>3, <2>1 DEF SinksAreOwn
  <2> HIDE DEF b, i
  <2> QED
    BY <1>2, <1>3, <1>4, <1>5, <2>1, <2>2, <2>3, BrokerFrame DEF TypeOK
<1>7. CASE c # None
  <2>1. /\ incoming_streams' = [incoming_streams EXCEPT ![p][i] = None]
        /\ clean_end' = [clean_end EXCEPT ![c] = TRUE] /\ broker' = broker
    BY <1>7 DEF TakeEnd
  <2> HIDE DEF i, c
  <2>2. /\ incoming_streams' \in [Peers -> [Ids -> Cmds \cup {None}]]
        /\ clean_end' \in [Cmds -> BOOLEAN]
    BY <1>2, <2>1 DEF TypeOK
  <2>3. \A q \in Peers, j \in Ids :
          \/ incoming_streams'[q][j] = None
          \/ incoming_streams'[q][j] = incoming_streams[q][j]
    BY <1>2, <2>1 DEF TypeOK
  <2>4. \A q \in Peers, j \in Ids :
          incoming_streams'[q][j] # None => owner[incoming_streams'[q][j]] = q
    BY <2>3 DEF SinksAreOwn
  <2>5. SinksAreOwn'
    BY <1>3, <2>4 DEF SinksAreOwn
  <2> QED
    BY <1>2, <1>3, <1>4, <1>5, <2>1, <2>2, <2>5, BrokerFrame DEF TypeOK
<1> QED
  BY <1>6, <1>7

(* Lemma: a response goes to its sink, or is stray, or finds the stream    *)
(* dropped.                                                                *)
LEMMA TakeResponseStep ==
  ASSUME RpcIInv, NEW p \in Peers, TakeResponse(p)
  PROVE  RpcIInv'
<1> USE DEF RpcIInv
<1> DEFINE i == Incoming(p).id
           c == incoming_streams[p][i]
<1>1. CanTake(p, "resp")
  BY DEF TakeResponse
<1>2. /\ Up(p) /\ broker[p].pc # "flush" /\ broker[p].pc = "idle"
      /\ i \in Ids /\ Incoming(p).payload \in Response
      /\ WireAfterTake(p) \in [Peers -> Seq(Message)]
      /\ \A q \in Peers : Len(WireAfterTake(p)[q]) <= WireCapacity
  BY <1>1, Taken, MessageShape
<1>3. UNCHANGED <<owner, clean_end, cancel_sent, stream>>
  BY DEF TakeResponse
<1>4. LoopsHaveIds'
  BY <1>3 DEF LoopsHaveIds, Running
<1>5. c \in Cmds \cup {None} /\ None \notin Cmds
  BY <1>2, RpcAssumption DEF TypeOK
<1>6. CASE /\ c \in Cmds /\ client[c] = "dropped" /\ Panic(p)
           /\ LosePart(WireAfterTake(p), p)
  <2>1. owner[c] = p
    BY <1>2, <1>5, <1>6 DEF SinksAreOwn
  <2> HIDE DEF c
  <2>2. PICK w : w = WireAfterTake(p)
    OBVIOUS
  <2>3. /\ wire' \in [Peers -> Seq(Message)]
        /\ \A q \in Peers : Len(wire'[q]) <= WireCapacity
    BY <1>2, <1>6, <2>2, LoseType
  <2> QED
    BY <1>2, <1>3, <1>6, <2>1, <2>3, DownStep DEF Panic, Down
<1>7. CASE /\ c = None /\ Take(p) /\ Goto(p, "sendStray", None, i)
           /\ UNCHANGED <<slot, tableVars, output_open, channel, client, got>>
  <2> DEFINE b == [pc |-> "sendStray", cmd |-> None, id |-> i]
  <2>1. /\ broker' = [broker EXCEPT ![p] = b] /\ wire' = WireAfterTake(p)
        /\ UNCHANGED <<next_id, incoming_streams, outgoing_streams>>
    BY <1>7 DEF Take, Goto, tableVars
  <2>2. b \in BrokerState /\ MayHold(p, b, owner)
    BY <1>2 DEF BrokerState, MayHold, Down
  <2>3. SinksAreOwn'
    BY <1>3, <2>1 DEF SinksAreOwn
  <2>4. /\ wire' \in [Peers -> Seq(Message)]
        /\ \A q \in Peers : Len(wire'[q]) <= WireCapacity
    BY <1>2, <2>1
  <2> HIDE DEF b, i
  <2> QED
    BY <1>2, <1>3, <1>4, <1>7, <2>1, <2>2, <2>3, <2>4, BrokerFrame
       DEF TypeOK
<1>8. CASE /\ c \in Cmds /\ Take(p) /\ Goto(p, "flush", c, None)
           /\ slot' = [slot EXCEPT ![c] = Append(@, Incoming(p).payload)]
           /\ UNCHANGED <<tableVars, output_open, channel, client, got>>
  <2> DEFINE b == [pc |-> "flush", cmd |-> c, id |-> None]
  <2>1. /\ broker' = [broker EXCEPT ![p] = b] /\ wire' = WireAfterTake(p)
        /\ UNCHANGED <<next_id, incoming_streams, outgoing_streams>>
    BY <1>8 DEF Take, Goto, tableVars
  <2>2. b \in BrokerState /\ MayHold(p, b, owner)
    BY <1>8 DEF BrokerState, MayHold, Down
  <2>3. owner[c] = p /\ \A d \in Cmds : owner[d] \in Peers
    <3>1. \A d \in Cmds : owner[d] \in Peers
      BY RpcAssumption DEF TypeOK
    <3>2. owner[c] = p
      BY <1>2, <1>5, <1>8 DEF SinksAreOwn
    <3> QED
      BY <3>1, <3>2
  <2>4. /\ broker' \in [Peers -> BrokerState] /\ broker'[p] = b
        /\ \A q \in Peers \ {p} : broker'[q] = broker[q]
    <3> HIDE DEF b
    <3> QED
      BY <2>1, <2>2 DEF TypeOK
  <2>5. b.pc = "flush" /\ b.cmd = c
    OBVIOUS
  <2> HIDE DEF b, c
  <2>6. slot[c] = <<>>
    BY <1>2, <1>8, <2>3 DEF SlotIsFlushed
  <2>7. /\ Append(slot[c], Incoming(p).payload) \in Seq(Response)
        /\ Len(Append(slot[c], Incoming(p).payload)) <= 1
    <3>1. /\ Append(slot[c], Incoming(p).payload) \in Seq(Response)
          /\ Len(Append(slot[c], Incoming(p).payload)) = Len(slot[c]) + 1
      BY <1>2, <1>8, AppendProperties DEF TypeOK
    <3>2. Len(slot[c]) = 0
      BY <2>6, EmptySeq
    <3> QED
      BY <3>1, <3>2
  <2>8. /\ slot' \in [Cmds -> Seq(Response)]
        /\ \A d \in Cmds : Len(slot'[d]) <= 1
        /\ \A d \in Cmds \ {c} : slot'[d] = slot[d]
    BY <1>8, <2>7 DEF TypeOK
  <2>9. TypeOK'
    BY <1>2, <1>3, <1>8, <2>1, <2>4, <2>8 DEF TypeOK
  <2>10. SlotIsFlushed'
    BY <1>2, <1>3, <2>3, <2>4, <2>5, <2>8 DEF SlotIsFlushed
  <2>11. SinksAreOwn'
    BY <1>3, <2>1 DEF SinksAreOwn
  <2> QED
    BY <1>2, <1>3, <1>4, <1>8, <2>2, <2>4, <2>9, <2>10, <2>11, UpStep
<1>9. \/ /\ c \in Cmds /\ client[c] = "dropped" /\ Panic(p)
         /\ LosePart(WireAfterTake(p), p)
      \/ /\ c = None /\ Take(p) /\ Goto(p, "sendStray", None, i)
         /\ UNCHANGED <<slot, tableVars, output_open, channel, client, got>>
      \/ /\ c \in Cmds /\ Take(p) /\ Goto(p, "flush", c, None)
         /\ slot' = [slot EXCEPT ![c] = Append(@, Incoming(p).payload)]
         /\ UNCHANGED <<tableVars, output_open, channel, client, got>>
  BY <1>5 DEF TakeResponse
<1> QED
  BY <1>6, <1>7, <1>8, <1>9, Zenon

-----------------------------------------------------------------------------
(* Lemma: no step breaks the invariant.                                    *)
LEMMA RpcStep == RpcIInv /\ [Next]_vars => RpcIInv'
<1> SUFFICES ASSUME RpcIInv, [Next]_vars PROVE RpcIInv'
  OBVIOUS
<1>1. ASSUME NEW p \in Peers, BrokerStep(p) PROVE RpcIInv'
  BY <1>1, StartCommandStep, SendCommandStep, TerminateStep, ErrorStep,
     TakeCommandStep, TakeCancelStep, TakeResponseStep, TakeEndStep
     DEF BrokerStep
<1>2. CASE UNCHANGED vars
  BY <1>2 DEF vars, tableVars, wireVars, clientVars, RpcIInv, TypeOK,
         BrokerHolds, SinksAreOwn, SlotIsFlushed, ClosedForACause,
         LoopsHaveIds, PanicNeedsDrop, Up, Running
<1> QED
  BY <1>1, <1>2, ApplicationStep, StreamStep, ServeStep, CancelStep,
     PipesStep DEF Next, ClientStep

(* The invariant holds in every behaviour of the channel.                  *)
THEOREM RpcInvariant == Spec => []RpcIInv
BY RpcInit, RpcStep, PTL DEF Spec

(* However many commands, ids and responses: no response channel ever      *)
(* holds two responses, no wire more than its capacity, and every id and   *)
(* counter stays in its range.                                             *)
THEOREM TypeCorrect == Spec => []TypeOK
<1>1. RpcIInv => TypeOK
  BY DEF RpcIInv
<1> QED
  BY <1>1, RpcInvariant, PTL

(* A broker panics only after its application dropped a response stream or *)
(* its channel, or once the other endpoint is down.                        *)
THEOREM PanicNeedsDropThm == Spec => []PanicNeedsDrop
<1>1. RpcIInv => PanicNeedsDrop
  BY DEF RpcIInv
<1> QED
  BY <1>1, RpcInvariant, PTL

-----------------------------------------------------------------------------
(* Delivery: responses arrive once, in order, at the command they answer.  *)

(* An endpoint that does not look for a free id submits one command:       *)
(* take_new_id of this code never moves on, so that its second command     *)
(* would take the id of the first.                                         *)
OneCommandPerId ==
  \A a \in Assignments : \A c, d \in Cmds :
    a[c] = a[d] /\ a[c] \notin Conforming => c = d

(* Message m is the n-th response to c; one is among the first k of w.     *)
IsResp(m, c, n) == m.type = "resp" /\ m.payload = <<c, n>>
Carries(w, k, c, n) == \E j \in 1..k : IsResp(w[j], c, n)

(* The commands in wire w of endpoint p are p's own, have no loop yet, and *)
(* share no id with each other or with a loop that serves p.               *)
OutOK(w, p, st, o) ==
  \A j \in 1..Len(w) : w[j].type = "cmd" =>
    /\ o[w[j].cmd] = p
    /\ st[w[j].cmd] = NoLoop
    /\ \A k \in 1..Len(w) :
         w[k].type = "cmd" /\ (w[k].id = w[j].id \/ w[k].cmd = w[j].cmd)
           => k = j
    /\ \A c \in Cmds :
         o[c] = p /\ st[c].loop = "running" => st[c].id # w[j].id

NoCmd(w, c) ==
  \A j \in 1..Len(w) : ~(w[j].type = "cmd" /\ w[j].cmd = c)

(* The sinks of the commands in flight are registered.                     *)
OutReg(w, inc) ==
  \A j \in 1..Len(w) : w[j].type = "cmd" => inc[w[j].id] = w[j].cmd

(* The n-th response to c, j-th in wire w, meets the sink of c; it was     *)
(* sent, is there once, and follows the one before it, of which del[c]     *)
(* have been delivered.                                                    *)
RespOK(w, j, c, n, inc, st, cl, del) ==
  /\ inc[w[j].id] = c
  /\ n <= st[c].sent
  /\ \A k \in 1..Len(w) : IsResp(w[k], c, n) => k = j
  /\ cl[c] # "dropped" =>
       /\ del[c] < n
       /\ n = del[c] + 1 \/ Carries(w, j - 1, c, n - 1)

(* The end of c, j-th in wire w: its loop is done and had sent all, what   *)
(* is not delivered is ahead of the end, and nothing behind it has its id. *)
EndOK(w, j, c, st, cl, del) ==
  /\ st[c].loop = "done" /\ st[c].sent = st[c].emitted
  /\ \A k \in 1..Len(w) :
       k > j /\ w[k].type \in {"resp", "end"} => w[k].id # w[j].id
  /\ cl[c] # "dropped" =>
       \A n \in 1..MaxResponses :
         del[c] < n /\ n <= st[c].sent => Carries(w, j - 1, c, n)

InOK(w, inc, st, cl, del) ==
  /\ \A j \in 1..Len(w), c \in Cmds, n \in 1..MaxResponses :
       IsResp(w[j], c, n) => RespOK(w, j, c, n, inc, st, cl, del)
  /\ \A j \in 1..Len(w) : w[j].type = "end" =>
       /\ inc[w[j].id] \in Cmds
       /\ EndOK(w, j, inc[w[j].id], st, cl, del)

(* Everything sent to p and not delivered is still in wire w.              *)
InAll(w, p, st, cl, del, o) ==
  \A c \in Cmds, n \in 1..MaxResponses :
    o[c] = p /\ cl[c] # "dropped" /\ del[c] < n /\ n <= st[c].sent
      => Carries(w, Len(w), c, n)

(* Responses handed to the application of each command.                    *)
Del == [c \in Cmds |-> Len(got[c]) + Len(slot[c])]

(* Command c is nowhere in the connection yet.                             *)
NotSent(c, st, inc, w) ==
  /\ st[c] = NoLoop
  /\ \A i \in Ids : inc[i] # c
  /\ NoCmd(w, c)

Unsent ==
  \A c \in Cmds : client[c] \in {"idle", "queued"} =>
    NotSent(c, stream, incoming_streams[owner[c]], wire[owner[c]])

(* A broker about to send a command has taken a free id for it.            *)
Sending ==
  \A p \in Peers : broker[p].pc = "sendCommand" =>
    /\ NotSent(broker[p].cmd, stream, incoming_streams[p], wire[p])
    /\ client[broker[p].cmd] \notin {"idle", "queued", "ended"}
    /\ incoming_streams[p][broker[p].id] = None

Outbound ==
  \A p \in Peers :
    /\ OutOK(wire[p], p, stream, owner)
    /\ Up(p) => OutReg(wire[p], incoming_streams[p])

(* Loops that run have their sink registered and ids of their own.         *)
Loops ==
  /\ \A c \in Cmds :
       /\ stream[c].loop = "none" => stream[c] = NoLoop
       /\ Running(c) /\ Up(owner[c]) =>
            incoming_streams[owner[c]][stream[c].id] = c
  /\ \A c, d \in Cmds : Running(c) /\ Running(d) /\ owner[c] = owner[d]
       /\ stream[c].id = stream[d].id => c = d

(* What is on its way to a broker that is up.                              *)
Inbound ==
  \A p \in Peers : Up(p) =>
    /\ InOK(wire[Other(p)], incoming_streams[p], stream, client, Del)
    /\ output_open[Other(p)] =>
         InAll(wire[Other(p)], p, stream, client, Del, owner)

(* What has arrived: the first Del[c] responses, in order.                 *)
Got ==
  \A c \in Cmds :
    /\ \A j \in 1..Len(got[c]) : got[c][j] = <<c, j>>
    /\ slot[c] # <<>> => Head(slot[c]) = <<c, Len(got[c]) + 1>>
    /\ Del[c] <= stream[c].sent

Clean ==
  \A c \in Cmds : clean_end[c] =>
    /\ stream[c].loop = "done"
    /\ client[c] # "dropped" => Del[c] = stream[c].emitted

Ended ==
  \A c \in Cmds : client[c] = "ended" =>
    /\ slot[c] = <<>>
    /\ \A i \in Ids : incoming_streams[owner[c]][i] # c

NoStray == \A p \in Peers : broker[p].pc # "sendStray"

Delivery ==
  /\ Unsent /\ Sending /\ Outbound /\ Loops /\ Inbound /\ Got /\ Clean
  /\ Ended /\ NoStray

-----------------------------------------------------------------------------
(* Lemma: messages taken from either end of a wire leave commands in       *)
(* flight that are what they were.                                         *)
LEMMA OutSub ==
  ASSUME NEW w \in Seq(Message), NEW v \in Seq(Message), NEW s \in Nat,
         \A j \in 1..Len(v) : j + s \in 1..Len(w) /\ v[j] = w[j + s],
         NEW p, NEW st, NEW o, NEW inc, OutOK(w, p, st, o)
  PROVE  /\ OutOK(v, p, st, o)
         /\ OutReg(w, inc) => OutReg(v, inc)
         /\ \A c : NoCmd(w, c) => NoCmd(v, c)
<1>1. Len(v) \in Nat /\ Len(w) \in Nat
  BY LenProperties
<1>2. ASSUME NEW j \in 1..Len(v), NEW k \in 1..Len(v), j + s = k + s
      PROVE  j = k
  BY <1>1, <1>2
<1>3. OutOK(v, p, st, o)
  <2> SUFFICES ASSUME NEW j \in 1..Len(v), v[j].type = "cmd"
               PROVE  /\ o[v[j].cmd] = p
                      /\ st[v[j].cmd] = NoLoop
                      /\ \A k \in 1..Len(v) :
                           v[k].type = "cmd" /\ (v[k].id = v[j].id
                                                  \/ v[k].cmd = v[j].cmd)
                             => k = j
                      /\ \A c \in Cmds :
                           o[c] = p /\ st[c].loop = "running"
                             => st[c].id # v[j].id
    BY Zenon DEF OutOK
  <2>1. j + s \in 1..Len(w) /\ v[j] = w[j + s]
    OBVIOUS
  <2>2. /\ o[v[j].cmd] = p
        /\ st[v[j].cmd] = NoLoop
        /\ \A k \in 1..Len(w) :
             w[k].type = "cmd" /\ (w[k].id = v[j].id \/ w[k].cmd = v[j].cmd)
               => k = j + s
        /\ \A c \in Cmds :
             o[c] = p /\ st[c].loop = "running" => st[c].id # v[j].id
    BY <2>1, ZenonT(30) DEF OutOK
  <2>3. ASSUME NEW k \in 1..Len(v), v[k].type = "cmd",
               v[k].id = v[j].id \/ v[k].cmd = v[j].cmd
        PROVE  k = j
    <3>1. k + s \in 1..Len(w) /\ v[k] = w[k + s]
      OBVIOUS
    <3>2. k + s = j + s
      BY <2>2, <2>3, <3>1, Zenon
    <3> QED
      BY <1>2, <3>2, Zenon
  <2> QED
    BY <2>2, <2>3, Zenon
<1>4. ASSUME OutReg(w, inc) PROVE OutReg(v, inc)
  BY <1>4, Zenon DEF OutReg
<1>5. ASSUME NEW c, NoCmd(w, c) PROVE NoCmd(v, c)
  BY <1>5, Zenon DEF NoCmd
<1> QED
  BY <1>3, <1>4, <1>5, Zenon

(* Lemma: a message that is no command changes nothing about the commands  *)
(* in flight.                                                              *)
LEMMA OutAppend ==
  ASSUME NEW w \in Seq(Message), NEW m \in Message, m.type # "cmd",
         NEW p, NEW st, NEW o, NEW inc, OutOK(w, p, st, o)
  PROVE  /\ OutOK(Append(w, m), p, st, o)
         /\ OutReg(w, inc) => OutReg(Append(w, m), inc)
         /\ \A c : NoCmd(w, c) => NoCmd(Append(w, m), c)
<1> DEFINE v == Append(w, m)
<1>1. /\ Len(w) \in Nat /\ Len(v) = Len(w) + 1
      /\ \A j \in 1..Len(w) : v[j] = w[j]
      /\ v[Len(w) + 1] = m
  BY LenProperties, AppendProperties
<1> HIDE DEF v
<1>2. \A j \in 1..Len(v) : v[j].type = "cmd" =>
        j \in 1..Len(w) /\ v[j] = w[j]
  BY <1>1
<1>3. OutOK(v, p, st, o)
  BY <1>2, ZenonT(30) DEF OutOK
<1>4. OutReg(w, inc) => OutReg(v, inc)
  BY <1>2, Zenon DEF OutReg
<1>5. \A c : NoCmd(w, c) => NoCmd(v, c)
  BY <1>2, Zenon DEF NoCmd
<1> QED
  BY <1>3, <1>4, <1>5 DEF v

(* Lemma: a command with a new id and no loop yet joins the commands in    *)
(* flight.                                                                 *)
LEMMA OutAppendCmd ==
  ASSUME NEW w \in Seq(Message), NEW m \in Message, m.type = "cmd",
         NEW p, NEW st, NEW o, OutOK(w, p, st, o),
         o[m.cmd] = p, st[m.cmd] = NoLoop,
         \A k \in 1..Len(w) : w[k].type = "cmd" =>
           w[k].id # m.id /\ w[k].cmd # m.cmd,
         \A c \in Cmds :
           o[c] = p /\ st[c].loop = "running" => st[c].id # m.id
  PROVE  OutOK(Append(w, m), p, st, o)
<1> DEFINE v == Append(w, m)
<1>1. /\ Len(w) \in Nat /\ Len(v) = Len(w) + 1
      /\ \A j \in 1..Len(w) : v[j] = w[j]
      /\ v[Len(w) + 1] = m
  BY LenProperties, AppendProperties
<1> HIDE DEF v
<1>2. \A j \in 1..Len(v) : \/ j \in 1..Len(w) /\ v[j] = w[j]
                           \/ j = Len(w) + 1 /\ v[j] = m
  BY <1>1
<1>3. ASSUME NEW j \in 1..Len(v), v[j].type = "cmd"
      PROVE  /\ o[v[j].cmd] = p
             /\ st[v[j].cmd] = NoLoop
             /\ \A c \in Cmds :
                  o[c] = p /\ st[c].loop = "running" => st[c].id # v[j].id
  <2>1. CASE j \in 1..Len(w) /\ v[j] = w[j]
    BY <1>3, <2>1, Zenon DEF OutOK
  <2>2. CASE j = Len(w) + 1 /\ v[j] = m
    BY <2>2
  <2> QED
    BY <1>2, <2>1, <2>2
<1>4. ASSUME NEW j \in 1..Len(v), v[j].type = "cmd",
             NEW k \in 1..Len(v), v[k].type = "cmd",
             v[k].id = v[j].id \/ v[k].cmd = v[j].cmd
      PROVE  k = j
  <2>1. CASE j \in 1..Len(w) /\ v[j] = w[j]
    <3>1. k \in 1..Len(w) /\ v[k] = w[k]
      BY <1>2, <1>4, <2>1, Zenon
    <3> QED
      BY <1>4, <2>1, <3>1, Zenon DEF OutOK
  <2>2. CASE j = Len(w) + 1 /\ v[j] = m
    BY <1>2, <1>4, <2>2, Zenon
  <2> QED
    BY <1>2, <2>1, <2>2
<1>5. OutOK(v, p, st, o)
  BY <1>3, <1>4, Zenon DEF OutOK
<1> QED
  BY <1>5 DEF v

(* Lemma: other loops do not concern the commands in flight.               *)
LEMMA OutFrame ==
  ASSUME NEW w \in Seq(Message), NEW p, NEW st, NEW st2, NEW o,
         OutOK(w, p, st, o),
         \A j \in 1..Len(w) : w[j].type = "cmd" =>
           st2[w[j].cmd] = st[w[j].cmd],
         \A c \in Cmds : o[c] = p /\ st2[c].loop = "running" =>
           \/ st[c].loop = "running" /\ st2[c].id = st[c].id
           \/ \A j \in 1..Len(w) : w[j].type = "cmd" => w[j].id # st2[c].id
  PROVE  OutOK(w, p, st2, o)
<1>1. ASSUME NEW j \in 1..Len(w), w[j].type = "cmd"
      PROVE  /\ o[w[j].cmd] = p /\ st2[w[j].cmd] = NoLoop
             /\ \A k \in 1..Len(w) :
                  w[k].type = "cmd"
                    /\ (w[k].id = w[j].id \/ w[k].cmd = w[j].cmd) => k = j
  BY <1>1, Zenon DEF OutOK
<1>2. ASSUME NEW j \in 1..Len(w), w[j].type = "cmd", NEW c \in Cmds,
             o[c] = p, st2[c].loop = "running"
      PROVE  st2[c].id # w[j].id
  <2>1. st[c].loop = "running" => st[c].id # w[j].id
    BY <1>2, Zenon DEF OutOK
  <2> QED
    BY <1>2, <2>1, Zenon
<1> QED
  BY <1>1, <1>2, Zenon DEF OutOK

-----------------------------------------------------------------------------
(* Lemma: a response behind the oldest message is still there once that is *)
(* taken.                                                                  *)
LEMMA CarriesTail ==
  ASSUME NEW w, NEW v, NEW h \in Nat,
         \A j \in 1..h : v[j] = w[j + 1],
         NEW c, NEW n, ~IsResp(w[1], c, n), NEW k \in 1..(h + 1),
         Carries(w, k, c, n)
  PROVE  Carries(v, k - 1, c, n)
<1>1. PICK j \in 1..k : IsResp(w[j], c, n)
  BY Zenon DEF Carries
<1>2. j # 1
  BY <1>1
<1>3. j - 1 \in 1..(k - 1) /\ j - 1 \in 1..h /\ (j - 1) + 1 = j
  BY <1>2
<1>4. v[j - 1] = w[j]
  BY <1>3
<1> QED
  BY <1>1, <1>3, <1>4, Zenon DEF Carries

(* Lemma: the front of a wire does not change with what is behind it.      *)
LEMMA CarriesSame ==
  ASSUME NEW w, NEW v, NEW k \in Int, \A j \in 1..k : v[j] = w[j],
         NEW c, NEW n, Carries(w, k, c, n)
  PROVE  Carries(v, k, c, n)
BY Zenon DEF Carries

(* Lemma: one message more.                                                *)
LEMMA CarriesMore ==
  ASSUME NEW w, NEW k \in Nat, NEW h \in Nat, k <= h,
         NEW c, NEW n, Carries(w, k, c, n)
  PROVE  Carries(w, h, c, n)
<1>1. PICK j \in 1..k : IsResp(w[j], c, n)
  BY Zenon DEF Carries
<1>2. j \in 1..h
  OBVIOUS
<1> QED
  BY <1>1, <1>2, Zenon DEF Carries

(* Lemma: what a response in flight is the response of.                    *)
LEMMA RespShape ==
  ASSUME NEW m \in Message, NEW c, NEW n, IsResp(m, c, n)
  PROVE  /\ c \in Cmds /\ n \in 1..MaxResponses
         /\ \A d, k : IsResp(m, d, k) => d = c /\ k = n
<1>1. m.payload = <<c, n>> /\ <<c, n>> \in Response
  BY MessageShape DEF IsResp
<1>2. c \in Cmds /\ n \in 1..MaxResponses
  BY <1>1 DEF Response
<1>3. \A d, k : <<d, k>> = <<c, n>> => d = c /\ k = n
  OBVIOUS
<1> QED
  BY <1>1, <1>2, <1>3, Zenon DEF IsResp

(* What a broker that takes message m may make of what was delivered.      *)
Handed(m, cl, del, del2) ==
  \A c \in Cmds : cl[c] # "dropped" =>
    \/ \E n \in 1..MaxResponses : IsResp(m, c, n) /\ del2[c] = n
    \/ /\ \A n \in 1..MaxResponses : ~IsResp(m, c, n)
       /\ del2[c] = del[c]

(* Lemma: the next response to a command is the oldest undelivered one.    *)
LEMMA TakenIsNext ==
  ASSUME NEW w, NEW inc, NEW st, NEW cl, NEW del,
         1 \in 1..Len(w), InOK(w, inc, st, cl, del)
  PROVE  \A c \in Cmds, n \in 1..MaxResponses :
           cl[c] # "dropped" /\ IsResp(w[1], c, n) =>
             n = del[c] + 1 /\ inc[w[1].id] = c /\ n <= st[c].sent
<1> SUFFICES ASSUME NEW c \in Cmds, NEW n \in 1..MaxResponses,
                    cl[c] # "dropped", IsResp(w[1], c, n)
             PROVE  n = del[c] + 1 /\ inc[w[1].id] = c /\ n <= st[c].sent
  BY Zenon
<1>1. RespOK(w, 1, c, n, inc, st, cl, del)
  BY Zenon DEF InOK
<1>2. ~Carries(w, 1 - 1, c, n - 1)
  <2>1. 1..(1 - 1) = {}
    OBVIOUS
  <2> QED
    BY <2>1 DEF Carries
<1> QED
  BY <1>1, <1>2, Zenon DEF RespOK

(* Lemma: the broker takes the oldest message of a wire.                   *)
LEMMA InTail ==
  ASSUME NEW w \in Seq(Message), NEW v \in Seq(Message),
         Len(w) = Len(v) + 1, \A j \in 1..Len(v) : v[j] = w[j + 1],
         NEW inc, NEW inc2, NEW st \in [Cmds -> LoopState], NEW cl,
         NEW del \in [Cmds -> Nat], NEW del2 \in [Cmds -> Nat],
         InOK(w, inc, st, cl, del), Handed(w[1], cl, del, del2),
         \A j \in 1..Len(v) : v[j].type \in {"resp", "end"} =>
           inc2[v[j].id] = inc[v[j].id]
  PROVE  InOK(v, inc2, st, cl, del2)
<1>1. /\ Len(v) \in Nat /\ Len(w) > 0 /\ 1 \in 1..Len(w)
      /\ \A j \in 1..Len(v) : j + 1 \in 1..Len(w) /\ (j + 1) - 1 = j
                                /\ j \in 1..(Len(v) + 1)
      /\ \A j \in 1..Len(v) : j + 1 # 1
      /\ \A j, k \in 1..Len(v) : /\ j + 1 = k + 1 => j = k
                                 /\ k > j => k + 1 > j + 1
  BY LenProperties
<1>next. ASSUME NEW c \in Cmds, NEW n \in 1..MaxResponses,
                cl[c] # "dropped", IsResp(w[1], c, n)
         PROVE  n = del[c] + 1
  <2>1. \A x \in Cmds, k \in 1..MaxResponses :
          cl[x] # "dropped" /\ IsResp(w[1], x, k) =>
            k = del[x] + 1 /\ inc[w[1].id] = x /\ k <= st[x].sent
    BY <1>1, TakenIsNext
  <2> QED
    BY <1>next, <2>1, Zenon
<1>2. ASSUME NEW j \in 1..Len(v), NEW c \in Cmds,
             NEW n \in 1..MaxResponses, IsResp(v[j], c, n)
      PROVE  RespOK(v, j, c, n, inc2, st, cl, del2)
  <2>1. RespOK(w, j + 1, c, n, inc, st, cl, del) /\ v[j] = w[j + 1]
    BY <1>1, <1>2, Zenon DEF InOK
  <2>2. inc2[v[j].id] = c /\ n <= st[c].sent
    BY <1>2, <2>1, Zenon DEF RespOK, IsResp
  <2>3. \A k \in 1..Len(v) : IsResp(v[k], c, n) => k = j
    BY <1>1, <2>1, Zenon DEF RespOK
  <2>4. ~IsResp(w[1], c, n)
    BY <1>1, <2>1, Zenon DEF RespOK
  <2>5. ASSUME cl[c] # "dropped"
        PROVE  del2[c] < n /\ (n = del2[c] + 1 \/ Carries(v, j - 1, c, n - 1))
    <3>1. /\ del[c] < n /\ del[c] \in Nat /\ del2[c] \in Nat /\ n \in Nat
          /\ n = del[c] + 1 \/ Carries(w, j, c, n - 1)
      BY <1>1, <2>1, <2>5 DEF RespOK
    <3>2. CASE \E m \in 1..MaxResponses : IsResp(w[1], c, m) /\ del2[c] = m
      <4>1. PICK m \in 1..MaxResponses : IsResp(w[1], c, m) /\ del2[c] = m
        BY <3>2
      <4>2. m = del[c] + 1
        BY <1>next, <2>5, <4>1, Zenon
      <4>3. m # n
        BY <2>4, <4>1
      <4>4. n > del2[c] /\ n # del[c] + 1 /\ (n - 1 = m => n = del2[c] + 1)
        BY <3>1, <4>1, <4>2, <4>3
      <4>5. ASSUME n - 1 # m PROVE Carries(v, j - 1, c, n - 1)
        <5>1. ~IsResp(w[1], c, n - 1)
          BY <1>1, <4>1, <4>5, RespShape, ElementOfSeq
        <5> QED
          BY <1>1, <3>1, <4>4, <5>1, CarriesTail, Zenon
      <4> QED
        BY <4>4, <4>5
    <3>3. CASE /\ \A m \in 1..MaxResponses : ~IsResp(w[1], c, m)
               /\ del2[c] = del[c]
      <4>1. ASSUME Carries(w, j, c, n - 1) PROVE Carries(v, j - 1, c, n - 1)
        <5>1. ~IsResp(w[1], c, n - 1)
          BY <1>1, <3>3, RespShape, ElementOfSeq
        <5> QED
          BY <1>1, <4>1, <5>1, CarriesTail, Zenon
      <4> QED
        BY <3>1, <3>3, <4>1
    <3> QED
      BY <2>5, <3>2, <3>3, Zenon DEF Handed
  <2> QED
    BY <2>2, <2>3, <2>5, Zenon DEF RespOK
<1>3. ASSUME NEW j \in 1..Len(v), v[j].type = "end"
      PROVE  inc2[v[j].id] \in Cmds /\ EndOK(v, j, inc2[v[j].id], st, cl, del2)
  <2>0. v[j] = w[j + 1] /\ j + 1 \in 1..Len(w)
    BY <1>1
  <2>1. /\ inc[v[j].id] \in Cmds /\ v[j] = w[j + 1]
        /\ EndOK(w, j + 1, inc[v[j].id], st, cl, del)
    BY <1>3, <2>0, Zenon DEF InOK
  <2>2. inc2[v[j].id] = inc[v[j].id]
    BY <1>3, Zenon
  <2> DEFINE c == inc[v[j].id]
  <2>3. st[c].loop = "done" /\ st[c].sent = st[c].emitted
    BY <2>1, Zenon DEF EndOK
  <2>4. \A k \in 1..Len(v) :
          k > j /\ v[k].type \in {"resp", "end"} => v[k].id # v[j].id
    <3>1. \A k \in 1..Len(w) :
            k > j + 1 /\ w[k].type \in {"resp", "end"} => w[k].id # v[j].id
      BY <2>1, Zenon DEF EndOK
    <3>2. ASSUME NEW k \in 1..Len(v), k > j
          PROVE  k + 1 \in 1..Len(w) /\ k + 1 > j + 1 /\ v[k] = w[k + 1]
      BY <1>1, <3>2
    <3> QED
      BY <3>1, <3>2, Zenon
  <2>5. ASSUME cl[c] # "dropped", NEW n \in 1..MaxResponses,
               del2[c] < n, n <= st[c].sent
        PROVE  Carries(v, j - 1, c, n)
    <3>1. del[c] < n => Carries(w, j, c, n)
      BY <1>1, <2>1, <2>5, Zenon DEF EndOK
    <3>2. del[c] \in Nat /\ del2[c] \in Nat
      BY <2>1
    <3>3. CASE \E m \in 1..MaxResponses : IsResp(w[1], c, m) /\ del2[c] = m
      <4>1. PICK m \in 1..MaxResponses : IsResp(w[1], c, m) /\ del2[c] = m
        BY <3>3
      <4>2. m = del[c] + 1
        BY <1>next, <2>1, <2>5, <4>1, Zenon
      <4>3. m # n /\ del[c] < n
        BY <2>5, <3>2, <4>1, <4>2
      <4>4. ~IsResp(w[1], c, n)
        BY <1>1, <4>1, <4>3, RespShape, ElementOfSeq
      <4> HIDE DEF c
      <4> QED
        BY <1>1, <3>1, <4>3, <4>4, CarriesTail, Zenon
    <3>4. CASE /\ \A m \in 1..MaxResponses : ~IsResp(w[1], c, m)
               /\ del2[c] = del[c]
      <4> HIDE DEF c
      <4> QED
        BY <1>1, <2>5, <3>1, <3>4, CarriesTail, Zenon
    <3> QED
      BY <2>1, <2>5, <3>3, <3>4, Zenon DEF Handed
  <2> QED
    BY <2>1, <2>2, <2>3, <2>4, <2>5, Zenon DEF EndOK
<1> QED
  BY <1>2, <1>3, Zenon DEF InOK

(* Lemma: the same for the responses that are all still there.             *)
LEMMA InAllTail ==
  ASSUME NEW w \in Seq(Message), NEW v \in Seq(Message),
         Len(w) = Len(v) + 1, \A j \in 1..Len(v) : v[j] = w[j + 1],
         NEW inc, NEW st \in [Cmds -> LoopState], NEW cl, NEW p, NEW o,
         NEW del \in [Cmds -> Nat], NEW del2 \in [Cmds -> Nat],
         InOK(w, inc, st, cl, del), Handed(w[1], cl, del, del2),
         InAll(w, p, st, cl, del, o)
  PROVE  InAll(v, p, st, cl, del2, o)
<1> SUFFICES ASSUME NEW c \in Cmds, NEW n \in 1..MaxResponses, o[c] = p,
                    cl[c] # "dropped", del2[c] < n, n <= st[c].sent
             PROVE  Carries(v, Len(v), c, n)
  BY Zenon DEF InAll
<1>1. /\ Len(v) \in Nat /\ 1 \in 1..Len(w) /\ Len(w) \in 1..(Len(v) + 1)
      /\ Len(w) - 1 = Len(v)
  BY LenProperties
<1>2. del[c] < n => Carries(w, Len(w), c, n)
  BY Zenon DEF InAll
<1>3. del[c] \in Nat /\ del2[c] \in Nat
  OBVIOUS
<1>4. ASSUME ~IsResp(w[1], c, n), Carries(w, Len(w), c, n)
      PROVE  Carries(v, Len(w) - 1, c, n)
  BY <1>1, <1>4, CarriesTail, Zenon
<1>5. CASE \E m \in 1..MaxResponses : IsResp(w[1], c, m) /\ del2[c] = m
  <2>1. PICK m \in 1..MaxResponses : IsResp(w[1], c, m) /\ del2[c] = m
    BY <1>5
  <2>2. \A x \in Cmds, k \in 1..MaxResponses :
          cl[x] # "dropped" /\ IsResp(w[1], x, k) =>
            k = del[x] + 1 /\ inc[w[1].id] = x /\ k <= st[x].sent
    BY <1>1, TakenIsNext
  <2>3. m = del[c] + 1
    BY <2>1, <2>2, Zenon
  <2>4. m # n /\ del[c] < n
    BY <1>3, <2>1, <2>3
  <2>5. ~IsResp(w[1], c, n)
    BY <1>1, <2>1, <2>4, RespShape, ElementOfSeq
  <2> QED
    BY <1>1, <1>2, <1>4, <2>4, <2>5
<1>6. CASE /\ \A m \in 1..MaxResponses : ~IsResp(w[1], c, m)
           /\ del2[c] = del[c]
  BY <1>1, <1>2, <1>4, <1>6
<1> QED
  BY <1>5, <1>6, Zenon DEF Handed

(* Lemma: a wire does not care for what the tables, loops and streams do   *)
(* elsewhere: sinks registered under free ids, loops that were not done,   *)
(* streams that are dropped.                                               *)
LEMMA InFrame ==
  ASSUME NEW w \in Seq(Message), NEW inc \in [Ids -> Cmds \cup {None}],
         NEW inc2, NEW st, NEW st2, NEW cl, NEW cl2, NEW del, NEW del2,
         InOK(w, inc, st, cl, del),
         \A i \in Ids : inc[i] # None => inc2[i] = inc[i],
         \A c \in Cmds, n \in 1..MaxResponses :
           n <= st[c].sent => n <= st2[c].sent,
         \A c \in Cmds : st[c].loop = "done" => st2[c] = st[c],
         \A c \in Cmds : cl2[c] # "dropped" => cl[c] # "dropped",
         \A c \in Cmds : cl2[c] # "dropped" =>
           del2[c] = del[c] \/ \A i \in Ids : inc[i] # c
  PROVE  InOK(w, inc2, st2, cl2, del2)
<1>1. None \notin Cmds
  BY RpcAssumption
<1>2. \A j \in 1..Len(w) : w[j].id \in Ids
  BY MessageShape, ElementOfSeq
<1>3. ASSUME NEW j \in 1..Len(w), NEW c \in Cmds,
             NEW n \in 1..MaxResponses, IsResp(w[j], c, n)
      PROVE  RespOK(w, j, c, n, inc2, st2, cl2, del2)
  <2>1. RespOK(w, j, c, n, inc, st, cl, del)
    BY <1>3, Zenon DEF InOK
  <2>2. inc2[w[j].id] = c
    BY <1>1, <1>2, <2>1, Zenon DEF RespOK
  <2>3. n <= st2[c].sent
    BY <2>1, Zenon DEF RespOK
  <2>a. cl2[c] # "dropped" => del2[c] = del[c]
    BY <1>2, <2>1, Zenon DEF RespOK
  <2>4. cl2[c] # "dropped" => del2[c] < n
          /\ (n = del2[c] + 1 \/ Carries(w, j - 1, c, n - 1))
    BY <2>1, <2>a, Zenon DEF RespOK
  <2> QED
    BY <2>1, <2>2, <2>3, <2>4, Zenon DEF RespOK
<1>4. ASSUME NEW j \in 1..Len(w), w[j].type = "end"
      PROVE  /\ inc2[w[j].id] \in Cmds
             /\ EndOK(w, j, inc2[w[j].id], st2, cl2, del2)
  <2>1. inc[w[j].id] \in Cmds /\ EndOK(w, j, inc[w[j].id], st, cl, del)
    BY <1>4, Zenon DEF InOK
  <2>2. inc2[w[j].id] = inc[w[j].id]
    BY <1>1, <1>2, <2>1, Zenon
  <2>3. PICK c \in Cmds : c = inc[w[j].id]
    BY <2>1
  <2>4. EndOK(w, j, c, st, cl, del)
    BY <2>1, <2>3
  <2>a. cl2[c] # "dropped" => del2[c] = del[c]
    BY <1>2, <2>3, Zenon
  <2>5. EndOK(w, j, c, st2, cl2, del2)
    BY <2>4, <2>a, Zenon DEF EndOK
  <2> QED
    BY <2>2, <2>3, <2>5
<1> QED
  BY <1>3, <1>4, Zenon DEF InOK

(* Lemma: the same for the responses that are all still there.             *)
LEMMA InAllFrame ==
  ASSUME NEW w, NEW p, NEW o, NEW st, NEW st2, NEW cl, NEW cl2,
         NEW del, NEW del2, InAll(w, p, st, cl, del, o),
         \A c \in Cmds : o[c] = p => st2[c].sent = st[c].sent,
         \A c \in Cmds : o[c] = p /\ cl2[c] # "dropped" =>
           cl[c] # "dropped" /\ del2[c] = del[c]
  PROVE  InAll(w, p, st2, cl2, del2, o)
BY Zenon DEF InAll

(* Lemma: a panic may take the newest messages from a wire.                *)
LEMMA InPrefix ==
  ASSUME NEW w \in Seq(Message), NEW v \in Seq(Message), Len(v) <= Len(w),
         \A j \in 1..Len(v) : v[j] = w[j],
         NEW inc, NEW st, NEW cl, NEW del, InOK(w, inc, st, cl, del)
  PROVE  InOK(v, inc, st, cl, del)
<1>1. /\ \A j \in 1..Len(v) : j \in 1..Len(w) /\ j - 1 \in Int
      /\ \A j \in 1..Len(v) : \A k \in 1..(j - 1) : k \in 1..Len(v)
  BY LenProperties
<1>2. ASSUME NEW j \in 1..Len(v), NEW c, NEW n, Carries(w, j - 1, c, n)
      PROVE  Carries(v, j - 1, c, n)
  BY <1>1, <1>2, Zenon DEF Carries
<1>3. ASSUME NEW j \in 1..Len(v), NEW c \in Cmds,
             NEW n \in 1..MaxResponses, IsResp(v[j], c, n)
      PROVE  RespOK(v, j, c, n, inc, st, cl, del)
  <2>1. RespOK(w, j, c, n, inc, st, cl, del) /\ v[j] = w[j]
    BY <1>1, <1>3, Zenon DEF InOK
  <2>2. \A k \in 1..Len(v) : IsResp(v[k], c, n) => k = j
    BY <1>1, <2>1, Zenon DEF RespOK
  <2> QED
    BY <1>2, <2>1, <2>2, Zenon DEF RespOK
<1>4. ASSUME NEW j \in 1..Len(v), v[j].type = "end"
      PROVE  inc[v[j].id] \in Cmds /\ EndOK(v, j, inc[v[j].id], st, cl, del)
  <2>1. v[j] = w[j] /\ j \in 1..Len(w)
    BY <1>1
  <2>2. inc[v[j].id] \in Cmds /\ EndOK(w, j, inc[v[j].id], st, cl, del)
    BY <1>4, <2>1, Zenon DEF InOK
  <2>3. PICK c \in Cmds : c = inc[v[j].id]
    BY <2>2
  <2>4. EndOK(w, j, c, st, cl, del)
    BY <2>2, <2>3
  <2>5. \A k \in 1..Len(v) :
          k > j /\ v[k].type \in {"resp", "end"} => v[k].id # v[j].id
    BY <1>1, <2>1, <2>4, Zenon DEF EndOK
  <2>6. EndOK(v, j, c, st, cl, del)
    BY <1>2, <2>4, <2>5, Zenon DEF EndOK
  <2> QED
    BY <2>2, <2>3, <2>6
<1> QED
  BY <1>3, <1>4, Zenon DEF InOK

(* Lemma: the next message goes to the end of a wire: the response after   *)
(* the last one sent, or an end behind all responses.                      *)
LEMMA InAppend ==
  ASSUME NEW w \in Seq(Message), NEW m \in Message, NEW inc,
         NEW st \in [Cmds -> LoopState], NEW st2 \in [Cmds -> LoopState],
         NEW cl, NEW del \in [Cmds -> Nat], InOK(w, inc, st, cl, del),
         \A c \in Cmds : st[c].sent <= st2[c].sent,
         \A c \in Cmds : st[c].loop = "done" => st2[c] = st[c],
         m.type \in {"resp", "end"} =>
           inc[m.id] \in Cmds /\ st[inc[m.id]].loop # "done",
         \A c \in Cmds, n \in 1..MaxResponses : IsResp(m, c, n) =>
           /\ inc[m.id] = c /\ st[c].sent < n /\ n <= st2[c].sent
           /\ cl[c] # "dropped" =>
                /\ del[c] < n
                /\ n = del[c] + 1 \/ Carries(w, Len(w), c, n - 1),
         m.type = "end" =>
           /\ st2[inc[m.id]].loop = "done"
           /\ st2[inc[m.id]].sent = st2[inc[m.id]].emitted
           /\ cl[inc[m.id]] # "dropped" =>
                \A n \in 1..MaxResponses :
                  del[inc[m.id]] < n /\ n <= st2[inc[m.id]].sent
                    => Carries(w, Len(w), inc[m.id], n)
  PROVE  InOK(Append(w, m), inc, st2, cl, del)
<1> DEFINE v == Append(w, m)
           h == Len(w) + 1
<1>1. /\ Len(w) \in Nat /\ Len(v) = h
      /\ \A j \in 1..Len(w) : v[j] = w[j]
      /\ v[h] = m
  BY LenProperties, AppendProperties
<1> HIDE DEF v
<1>2. /\ \A j \in 1..Len(v) : \/ j \in 1..Len(w) /\ v[j] = w[j]
                              \/ j = h /\ v[j] = m
      /\ h - 1 = Len(w) /\ h \notin 1..Len(w)
      /\ \A k \in 1..Len(v) : ~(k > h)
      /\ \A j \in 1..Len(w) : \A k \in 1..(j - 1) : k \in 1..Len(w)
  BY <1>1
<1> HIDE DEF h
<1>3. ASSUME NEW c, NEW n, NEW j \in 1..Len(w), Carries(w, j - 1, c, n)
      PROVE  Carries(v, j - 1, c, n)
  BY <1>1, <1>2, <1>3, Zenon DEF Carries
<1>4. ASSUME NEW c, NEW n, Carries(w, Len(w), c, n)
      PROVE  Carries(v, h - 1, c, n)
  BY <1>1, <1>2, <1>4, Zenon DEF Carries
<1>5. ASSUME NEW j \in 1..Len(w), NEW c \in Cmds,
             NEW n \in 1..MaxResponses, IsResp(w[j], c, n)
      PROVE  /\ RespOK(w, j, c, n, inc, st, cl, del)
             /\ n <= st2[c].sent
             /\ ~IsResp(m, c, n)
  <2>1. RespOK(w, j, c, n, inc, st, cl, del)
    BY <1>5, Zenon DEF InOK
  <2>2. n <= st[c].sent /\ n \in Nat
    BY <2>1 DEF RespOK
  <2>3. st[c].sent \in Nat /\ st2[c].sent \in Nat /\ st[c].sent <= st2[c].sent
    BY DEF LoopState
  <2>4. n <= st2[c].sent /\ ~(st[c].sent < n)
    BY <2>2, <2>3
  <2> QED
    BY <2>1, <2>4, Zenon
<1>6. ASSUME NEW j \in 1..Len(v), NEW c \in Cmds,
             NEW n \in 1..MaxResponses, IsResp(v[j], c, n)
      PROVE  RespOK(v, j, c, n, inc, st2, cl, del)
  <2>1. CASE j \in 1..Len(w) /\ v[j] = w[j]
    <3>1. /\ RespOK(w, j, c, n, inc, st, cl, del)
          /\ n <= st2[c].sent
          /\ ~IsResp(m, c, n)
      BY <1>5, <1>6, <2>1, Zenon
    <3>2. \A k \in 1..Len(v) : IsResp(v[k], c, n) => k = j
      BY <1>2, <3>1, Zenon DEF RespOK
    <3> QED
      BY <1>3, <2>1, <3>1, <3>2, Zenon DEF RespOK
  <2>2. CASE j = h /\ v[j] = m
    <3>1. \A k \in 1..Len(v) : IsResp(v[k], c, n) => k = j
      BY <1>2, <1>5, <1>6, <2>2, Zenon
    <3>2. /\ inc[m.id] = c /\ n <= st2[c].sent
          /\ cl[c] # "dropped" =>
                /\ del[c] < n
                /\ n = del[c] + 1 \/ Carries(v, h - 1, c, n - 1)
      BY <1>4, <1>6, <2>2, Zenon
    <3> QED
      BY <2>2, <3>1, <3>2, Zenon DEF RespOK
  <2> QED
    BY <1>2, <2>1, <2>2, Zenon
<1>7. ASSUME NEW j \in 1..Len(v), v[j].type = "end"
      PROVE  inc[v[j].id] \in Cmds /\ EndOK(v, j, inc[v[j].id], st2, cl, del)
  <2>1. CASE j \in 1..Len(w) /\ v[j] = w[j]
    <3>1. inc[v[j].id] \in Cmds /\ EndOK(w, j, inc[v[j].id], st, cl, del)
      BY <1>7, <2>1, Zenon DEF InOK
    <3>2. PICK c \in Cmds : c = inc[v[j].id]
      BY <3>1
    <3>3. EndOK(w, j, c, st, cl, del)
      BY <3>1, <3>2
    <3>4. st2[c] = st[c] /\ st[c].loop = "done"
      BY <3>3, Zenon DEF EndOK
    <3>5. m.type \in {"resp", "end"} => m.id # v[j].id
      BY <3>2, <3>4, Zenon
    <3>6. \A k \in 1..Len(v) :
            k > j /\ v[k].type \in {"resp", "end"} => v[k].id # v[j].id
      BY <1>2, <2>1, <3>3, <3>5, Zenon DEF EndOK
    <3>7. EndOK(v, j, c, st2, cl, del)
      BY <1>3, <2>1, <3>3, <3>4, <3>6, Zenon DEF EndOK
    <3> QED
      BY <3>1, <3>2, <3>7
  <2>2. CASE j = h /\ v[j] = m
    <3>1. PICK c \in Cmds : c = inc[m.id]
      BY <1>7, <2>2
    <3>2. EndOK(v, j, c, st2, cl, del)
      BY <1>2, <1>4, <1>7, <2>2, <3>1, Zenon DEF EndOK
    <3> QED
      BY <2>2, <3>1, <3>2
  <2> QED
    BY <1>2, <2>1, <2>2, Zenon
<1>8. InOK(v, inc, st2, cl, del)
  BY <1>6, <1>7, Zenon DEF InOK
<1> QED
  BY <1>8 DEF v

(* Lemma: what is sent is there until it is taken.                         *)
LEMMA InAllAppend ==
  ASSUME NEW w \in Seq(Message), NEW m \in Message,
         NEW st \in [Cmds -> LoopState], NEW st2 \in [Cmds -> LoopState],
         NEW cl, NEW del, NEW p, NEW o, InAll(w, p, st, cl, del, o),
         \A c \in Cmds, n \in 1..MaxResponses :
           o[c] = p /\ n <= st2[c].sent =>
             n <= st[c].sent \/ IsResp(m, c, n)
  PROVE  InAll(Append(w, m), p, st2, cl, del, o)
<1> DEFINE v == Append(w, m)
<1>1. /\ Len(w) \in Nat /\ Len(v) = Len(w) + 1
      /\ \A j \in 1..Len(w) : v[j] = w[j]
      /\ v[Len(w) + 1] = m
  BY LenProperties, AppendProperties
<1> HIDE DEF v
<1>2. \A j \in 1..Len(w) : j \in 1..Len(v)
  BY <1>1
<1>3. Len(v) \in 1..Len(v) /\ v[Len(v)] = m
  BY <1>1
<1>4. ASSUME NEW c, NEW n, Carries(w, Len(w), c, n)
      PROVE  Carries(v, Len(v), c, n)
  BY <1>1, <1>2, <1>4, Zenon DEF Carries
<1>5. ASSUME NEW c, NEW n, IsResp(m, c, n) PROVE Carries(v, Len(v), c, n)
  BY <1>3, <1>5, Zenon DEF Carries
<1>6. InAll(v, p, st2, cl, del, o)
  BY <1>4, <1>5, Zenon DEF InAll
<1> QED
  BY <1>6 DEF v

-----------------------------------------------------------------------------
(* Lemma: what is delivered is counted.                                    *)
LEMMA DelType == TypeOK => Del \in [Cmds -> Nat]
<1> SUFFICES ASSUME TypeOK, NEW c \in Cmds
             PROVE  Len(got[c]) + Len(slot[c]) \in Nat
  BY DEF Del
<1>1. got[c] \in Seq(Response) /\ slot[c] \in Seq(Response)
  BY DEF TypeOK
<1>2. Len(got[c]) \in Nat /\ Len(slot[c]) \in Nat
  BY <1>1, LenProperties
<1>3. \A a, b \in Nat : a + b \in Nat
  OBVIOUS
<1> QED
  BY <1>2, <1>3, Zenon

(* Endpoint q may send command c under id i.                               *)
MaySend(q, c, i) ==
  /\ c \in Cmds /\ NotSent(c, stream, incoming_streams[q], wire[q])
  /\ incoming_streams[q][i] = None

(* Lemma: every command is submitted by one of the endpoints.              *)
LEMMA OwnersArePeers == TypeOK => \A c \in Cmds : owner[c] \in Peers
BY RpcAssumption DEF TypeOK

(* Lemma: a step that starts, serves and delivers nothing keeps the        *)
(* invariant if what is left in the wires is in order.                     *)
LEMMA DeliveryFrame ==
  ASSUME RpcIInv, RpcIInv', Delivery, UNCHANGED <<owner, stream, clean_end>>,
         \A q \in Peers : Up(q)' =>
           Up(q) /\ incoming_streams'[q] = incoming_streams[q],
         \A q \in Peers : \/ incoming_streams'[q] = incoming_streams[q]
                          \/ incoming_streams'[q] = NoStreams,
         \A q \in Peers :
           /\ broker'[q].pc # "sendStray"
           /\ broker'[q].pc = "sendCommand" =>
                \/ broker'[q] = broker[q]
                \/ /\ MaySend(q, broker'[q].cmd, broker'[q].id)
                   /\ client'[broker'[q].cmd] = "open"
                   /\ incoming_streams'[q] = incoming_streams[q],
         \A c \in Cmds :
           /\ client'[c] \in {"idle", "queued"} =>
                client[c] \in {"idle", "queued"}
           /\ client'[c] = "ended" =>
                client[c] = "ended" \/ (slot[c] = <<>> /\ ~SinkAlive(c))
           /\ client'[c] # "dropped" =>
                client[c] # "dropped" /\ Del'[c] = Del[c]
           /\ slot[c] = <<>> => slot'[c] = <<>>,
         Got',
         \A q \in Peers :
           /\ OutOK(wire'[q], q, stream, owner)
           /\ Up(q)' => OutReg(wire'[q], incoming_streams[q])
           /\ \A c \in Cmds : NoCmd(wire[q], c) => NoCmd(wire'[q], c),
         \A q \in Peers : Up(q)' =>
           /\ InOK(wire'[Other(q)], incoming_streams[q], stream, client, Del)
           /\ output_open'[Other(q)] =>
                InAll(wire'[Other(q)], q, stream, client, Del, owner)
  PROVE  Delivery'
<1> USE DEF Delivery
<1>1. /\ TypeOK /\ TypeOK' /\ BrokerHolds /\ BrokerHolds' /\ LoopsHaveIds
      /\ \A c \in Cmds : owner[c] \in Peers
      /\ \A q \in Peers : Other(q) \in Peers
  BY OwnersArePeers, TwoPeers, Zenon DEF RpcIInv
<1>2. \A q \in Peers, i \in Ids, c \in Cmds :
        incoming_streams[q][i] # c => incoming_streams'[q][i] # c
  BY RpcAssumption DEF NoStreams
<1>3. \A q \in Peers, c \in Cmds :
        NotSent(c, stream, incoming_streams[q], wire[q]) =>
          NotSent(c, stream', incoming_streams'[q], wire'[q])
  <2> SUFFICES ASSUME NEW q \in Peers, NEW c \in Cmds,
                      NotSent(c, stream, incoming_streams[q], wire[q])
               PROVE  NotSent(c, stream', incoming_streams'[q], wire'[q])
    BY Zenon
  <2>1. /\ stream'[c] = NoLoop
        /\ \A i \in Ids : incoming_streams[q][i] # c
        /\ NoCmd(wire'[q], c)
    BY Zenon DEF NotSent
  <2> QED
    BY <1>2, <2>1, ZenonT(30) DEF NotSent
<1>4. Unsent'
  BY <1>1, <1>3, Zenon DEF Unsent
<1>5. Sending'
  <2> SUFFICES ASSUME NEW q \in Peers, broker'[q].pc = "sendCommand"
               PROVE  /\ NotSent(broker'[q].cmd, stream',
                                 incoming_streams'[q], wire'[q])
                      /\ client'[broker'[q].cmd]
                           \notin {"idle", "queued", "ended"}
                      /\ incoming_streams'[q][broker'[q].id] = None
    BY Zenon DEF Sending
  <2>1. CASE broker'[q] = broker[q]
    <3>1. /\ broker'[q] = broker[q]
          /\ broker[q].cmd \in Cmds /\ broker[q].id \in Ids
      BY <1>1, <2>1 DEF BrokerHolds
    <3>2. PICK c \in Cmds : c = broker[q].cmd
      BY <3>1
    <3>3. /\ NotSent(c, stream, incoming_streams[q], wire[q])
          /\ client[c] \notin {"idle", "queued", "ended"}
          /\ incoming_streams[q][broker[q].id] = None
      BY <3>1, <3>2 DEF Sending
    <3>4. SinkAlive(c)
      BY <1>1, <3>1, <3>2 DEF SinkAlive, BrokerHolds
    <3>5. /\ NotSent(c, stream', incoming_streams'[q], wire'[q])
          /\ client'[c] \notin {"idle", "queued", "ended"}
      BY <1>3, <3>3, <3>4, Zenon
    <3>6. incoming_streams'[q][broker[q].id] = None
      BY <3>1, <3>3 DEF NoStreams
    <3> QED
      BY <3>1, <3>2, <3>5, <3>6, Zenon
  <2>2. CASE /\ MaySend(q, broker'[q].cmd, broker'[q].id)
             /\ client'[broker'[q].cmd] = "open"
             /\ incoming_streams'[q] = incoming_streams[q]
    BY <1>3, <2>2, Zenon DEF MaySend
  <2> QED
    BY <2>1, <2>2, Zenon
<1>6. Outbound'
  BY <1>1, Zenon DEF Outbound
<1>7. Loops'
  BY <1>1, ZenonT(30) DEF Loops, Running
<1>8. Inbound'
  <2> SUFFICES ASSUME NEW q \in Peers, Up(q)'
               PROVE  /\ InOK(wire'[Other(q)], incoming_streams'[q], stream',
                              client', Del')
                      /\ output_open'[Other(q)] =>
                           InAll(wire'[Other(q)], q, stream', client', Del',
                                 owner')
    BY Zenon DEF Inbound
  <2>1. /\ wire'[Other(q)] \in Seq(Message)
        /\ incoming_streams[q] \in [Ids -> Cmds \cup {None}]
    BY <1>1 DEF TypeOK
  <2>2. /\ InOK(wire'[Other(q)], incoming_streams[q], stream, client, Del)
        /\ output_open'[Other(q)] =>
                InAll(wire'[Other(q)], q, stream, client, Del, owner)
        /\ incoming_streams'[q] = incoming_streams[q]
    BY Zenon
  <2>3. InOK(wire'[Other(q)], incoming_streams[q], stream, client', Del')
    BY <2>1, <2>2, InFrame
  <2>4. output_open'[Other(q)] =>
          InAll(wire'[Other(q)], q, stream, client', Del', owner)
    BY <2>2, InAllFrame
  <2> QED
    BY <2>2, <2>3, <2>4
<1>9. Clean'
  BY Zenon DEF Clean
<1>10. Ended'
  <2> SUFFICES ASSUME NEW c \in Cmds, client'[c] = "ended"
               PROVE  /\ slot'[c] = <<>>
                      /\ \A i \in Ids : incoming_streams'[owner[c]][i] # c
    BY Zenon DEF Ended
  <2>1. /\ slot[c] = <<>> /\ slot'[c] = <<>>
        /\ \A i \in Ids : incoming_streams[owner[c]][i] # c
    BY DEF Ended, SinkAlive
  <2> QED
    BY <1>1, <1>2, <2>1, Zenon
<1>11. NoStray'
  BY Zenon DEF NoStray
<1> QED
  BY <1>4, <1>5, <1>6, <1>7, <1>8, <1>9, <1>10, <1>11

-----------------------------------------------------------------------------
(* The commands in flight in w, which were in flight before.               *)
OutKept(w) ==
  \A q \in Peers :
    /\ OutOK(w[q], q, stream, owner)
    /\ Up(q) => OutReg(w[q], incoming_streams[q])
    /\ \A c \in Cmds : NoCmd(wire[q], c) => NoCmd(w[q], c)

(* The responses and ends on their way to endpoint q in wire v, the output *)
(* of the other endpoint being open or not.                                *)
InKept(q, v, open) ==
  /\ InOK(v, incoming_streams[q], stream, client, Del)
  /\ open => InAll(v, q, stream, client, Del, owner)

(* Lemma: the oldest message of a wire and the rest.                       *)
LEMMA TailShape ==
  ASSUME NEW w \in Seq(Message), w # <<>>
  PROVE  /\ Tail(w) \in Seq(Message) /\ Len(w) = Len(Tail(w)) + 1
         /\ \A j \in 1..Len(Tail(w)) : /\ Tail(w)[j] = w[j + 1]
                                       /\ j + 1 \in 1..Len(w)
         /\ Head(w) = w[1] /\ Head(w) \in Message /\ 1 \in 1..Len(w)
<1>1. /\ Head(w) \in Message /\ Tail(w) \in Seq(Message)
      /\ Len(Tail(w)) = Len(w) - 1
      /\ \A j \in 1..Len(Tail(w)) : Tail(w)[j] = w[j + 1]
  BY HeadTailProperties
<1>2. Len(w) \in Nat /\ Len(w) # 0
  BY LenProperties, EmptySeq
<1>3. Head(w) = w[1]
  OBVIOUS
<1> QED
  BY <1>1, <1>2, <1>3

(* Lemma: the commands in flight when a message is taken.                  *)
LEMMA OutTaken ==
  ASSUME TypeOK, Outbound, NEW p \in Peers, wire[Other(p)] # <<>>
  PROVE  OutKept(WireAfterTake(p))
<1>1. wire \in [Peers -> Seq(Message)] /\ Other(p) \in Peers
  BY TwoPeers DEF TypeOK
<1>2. PICK s \in Peers : s = Other(p)
  BY <1>1
<1>3. PICK w \in Seq(Message) : w = wire[s]
  BY <1>1
<1>4. PICK v \in Seq(Message) : v = Tail(w)
  BY <1>2, <1>3, TailShape
<1>5. \A j \in 1..Len(v) : j + 1 \in 1..Len(w) /\ v[j] = w[j + 1]
  BY <1>2, <1>3, <1>4, TailShape
<1>6. /\ WireAfterTake(p)[s] = v
      /\ \A q \in Peers \ {s} : WireAfterTake(p)[q] = wire[q]
  BY <1>1, <1>2, <1>3, <1>4 DEF WireAfterTake
<1>7. OutOK(w, s, stream, owner) /\ (Up(s) => OutReg(w, incoming_streams[s]))
  BY <1>3, Zenon DEF Outbound
<1>8. /\ OutOK(v, s, stream, owner)
      /\ OutReg(w, incoming_streams[s]) => OutReg(v, incoming_streams[s])
      /\ \A c : NoCmd(w, c) => NoCmd(v, c)
  <2>1. 1 \in Nat
    OBVIOUS
  <2> QED
    BY <1>5, <1>7, <2>1, OutSub, Zenon
<1>9. ASSUME NEW q \in Peers
      PROVE  /\ OutOK(WireAfterTake(p)[q], q, stream, owner)
             /\ Up(q) => OutReg(WireAfterTake(p)[q], incoming_streams[q])
             /\ \A c \in Cmds :
                  NoCmd(wire[q], c) => NoCmd(WireAfterTake(p)[q], c)
  <2>1. CASE q = s
    BY <1>3, <1>6, <1>7, <1>8, <2>1
  <2>2. CASE q # s
    BY <1>6, <2>2 DEF Outbound
  <2> QED
    BY <2>1, <2>2
<1> QED
  BY <1>9, Zenon DEF OutKept

(* Lemma: the commands in flight when a panic takes the newest messages.   *)
LEMMA OutLost ==
  ASSUME NEW w \in [Peers -> Seq(Message)], OutKept(w), NEW p \in Peers,
         NEW x, LosePart(w, p), x = wire'
  PROVE  /\ OutKept(x)
         /\ x[p] \in Seq(Message) /\ Len(x[p]) <= Len(w[p])
         /\ \A j \in 1..Len(x[p]) : x[p][j] = w[p][j]
<1>1. PICK k \in 0..Len(w[p]) : x = [w EXCEPT ![p] = SubSeq(@, 1, k)]
  BY DEF LosePart
<1>2. Len(w[p]) \in Nat /\ k \in Nat /\ k <= Len(w[p]) /\ w[p] \in Seq(Message)
  BY LenProperties
<1>3. PICK u \in Seq(Message) : u = w[p]
  BY <1>2
<1>4. /\ SubSeq(u, 1, k) \in Seq(Message) /\ Len(SubSeq(u, 1, k)) = k
      /\ \A j \in 1..k : SubSeq(u, 1, k)[j] = u[j]
  BY <1>2, <1>3
<1> DEFINE v == SubSeq(u, 1, k)
<1>v. /\ v \in Seq(Message) /\ Len(v) = k
      /\ \A j \in 1..Len(v) : j \in 1..Len(w[p]) /\ v[j] = w[p][j]
  BY <1>2, <1>3, <1>4
<1>5. x[p] = v /\ \A q \in Peers \ {p} : x[q] = w[q]
  BY <1>1, <1>3
<1> HIDE DEF v
<1>6. \A j \in 1..Len(v) : j + 0 \in 1..Len(w[p]) /\ v[j] = w[p][j + 0]
  BY <1>v
<1>7. /\ OutOK(w[p], p, stream, owner)
      /\ Up(p) => OutReg(w[p], incoming_streams[p])
      /\ \A c \in Cmds : NoCmd(wire[p], c) => NoCmd(w[p], c)
  BY Zenon DEF OutKept
<1>8. /\ OutOK(v, p, stream, owner)
      /\ OutReg(w[p], incoming_streams[p]) => OutReg(v, incoming_streams[p])
      /\ \A c : NoCmd(w[p], c) => NoCmd(v, c)
  <2>1. 0 \in Nat
    OBVIOUS
  <2> QED
    BY <1>2, <1>v, <1>6, <1>7, <2>1, OutSub, Zenon
<1>9. ASSUME NEW q \in Peers
      PROVE  /\ OutOK(x[q], q, stream, owner)
             /\ Up(q) => OutReg(x[q], incoming_streams[q])
             /\ \A c \in Cmds : NoCmd(wire[q], c) => NoCmd(x[q], c)
  <2>1. CASE q = p
    BY <1>5, <1>7, <1>8, <2>1
  <2>2. CASE q # p
    BY <1>5, <2>2 DEF OutKept
  <2> QED
    BY <2>1, <2>2
<1>10. OutKept(x)
  BY <1>9, Zenon DEF OutKept
<1> QED
  BY <1>2, <1>v, <1>5, <1>10

(* Lemma: the commands in flight when another kind of message is sent.     *)
LEMMA OutSent ==
  ASSUME TypeOK, Outbound, NEW p \in Peers, NEW m \in Message,
         m.type # "cmd"
  PROVE  OutKept([wire EXCEPT ![p] = Append(@, m)])
<1>1. wire \in [Peers -> Seq(Message)]
  BY DEF TypeOK
<1>2. PICK w \in Seq(Message) : w = wire[p]
  BY <1>1
<1>3. PICK x : x = [wire EXCEPT ![p] = Append(@, m)]
  OBVIOUS
<1>4. x[p] = Append(w, m) /\ \A q \in Peers \ {p} : x[q] = wire[q]
  BY <1>1, <1>2, <1>3
<1>5. OutOK(w, p, stream, owner) /\ (Up(p) => OutReg(w, incoming_streams[p]))
  BY <1>2, Zenon DEF Outbound
<1>6. /\ OutOK(Append(w, m), p, stream, owner)
      /\ OutReg(w, incoming_streams[p])
           => OutReg(Append(w, m), incoming_streams[p])
      /\ \A c : NoCmd(w, c) => NoCmd(Append(w, m), c)
  BY <1>5, OutAppend, Zenon
<1>7. ASSUME NEW q \in Peers
      PROVE  /\ OutOK(x[q], q, stream, owner)
             /\ Up(q) => OutReg(x[q], incoming_streams[q])
             /\ \A c \in Cmds : NoCmd(wire[q], c) => NoCmd(x[q], c)
  <2>1. CASE q = p
    BY <1>2, <1>4, <1>5, <1>6, <2>1
  <2>2. CASE q # p
    BY <1>4, <2>2 DEF Outbound
  <2> QED
    BY <2>1, <2>2
<1> QED
  BY <1>3, <1>7, Zenon DEF OutKept

(* Lemma: what is on its way stays on its way.                             *)
LEMMA InSame ==
  ASSUME Delivery, NEW q \in Peers, Up(q)
  PROVE  InKept(q, wire[Other(q)], output_open[Other(q)])
BY DEF Delivery, Inbound, InKept

(* Lemma: a command, a cancel or an error is taken.                        *)
LEMMA InTakenOther ==
  ASSUME RpcIInv, Delivery, NEW p \in Peers, NEW type, CanTake(p, type),
         type \notin {"resp", "end"}
  PROVE  InKept(p, Tail(wire[Other(p)]), output_open[Other(p)])
<1>1. /\ TypeOK /\ Other(p) \in Peers /\ Up(p)
      /\ wire[Other(p)] \in Seq(Message) /\ wire[Other(p)] # <<>>
      /\ stream \in [Cmds -> LoopState]
  BY TwoPeers DEF RpcIInv, TypeOK, CanTake, IsIdle, Up
<1>2. PICK w \in Seq(Message) : w = wire[Other(p)]
  BY <1>1
<1>3. /\ Tail(w) \in Seq(Message) /\ Len(w) = Len(Tail(w)) + 1
      /\ \A j \in 1..Len(Tail(w)) : Tail(w)[j] = w[j + 1]
      /\ w[1].type = type
  BY <1>1, <1>2, TailShape DEF CanTake, Incoming
<1>4. Del \in [Cmds -> Nat]
  BY <1>1, DelType
<1>5. Handed(w[1], client, Del, Del)
  BY <1>3 DEF Handed, IsResp
<1>6. InKept(p, w, output_open[Other(p)])
  BY <1>1, <1>2, InSame
<1>7. InOK(w, incoming_streams[p], stream, client, Del)
  BY <1>6 DEF InKept
<1>8. InOK(Tail(w), incoming_streams[p], stream, client, Del)
  BY <1>1, <1>3, <1>4, <1>5, <1>7, InTail, Zenon
<1>9. output_open[Other(p)] => InAll(Tail(w), p, stream, client, Del, owner)
  BY <1>1, <1>3, <1>4, <1>5, <1>6, <1>7, InAllTail, Zenon DEF InKept
<1> QED
  BY <1>2, <1>8, <1>9 DEF InKept

(* Lemma: a command, a cancel or an error is sent.                         *)
LEMMA InSentOther ==
  ASSUME RpcIInv, Delivery, NEW q \in Peers, Up(q), NEW m \in Message,
         m.type \notin {"resp", "end"}
  PROVE  InKept(q, Append(wire[Other(q)], m), output_open[Other(q)])
<1>1. /\ TypeOK /\ Other(q) \in Peers
      /\ wire[Other(q)] \in Seq(Message)
      /\ stream \in [Cmds -> LoopState]
  BY TwoPeers DEF RpcIInv, TypeOK
<1>2. PICK w \in Seq(Message) : w = wire[Other(q)]
  BY <1>1
<1>3. /\ Del \in [Cmds -> Nat]
      /\ \A c, n : ~IsResp(m, c, n)
      /\ \A c \in Cmds : stream[c].sent <= stream[c].sent
  BY <1>1, DelType DEF IsResp, LoopState
<1>4. InKept(q, w, output_open[Other(q)])
  BY <1>1, <1>2, InSame
<1>5. InOK(w, incoming_streams[q], stream, client, Del)
  BY <1>4 DEF InKept
<1>6. m.type # "end"
  OBVIOUS
<1>7. InOK(Append(w, m), incoming_streams[q], stream, client, Del)
  BY <1>1, <1>3, <1>5, <1>6, InAppend, Zenon
<1>8. output_open[Other(q)]
        => InAll(Append(w, m), q, stream, client, Del, owner)
  BY <1>1, <1>4, InAllAppend, Zenon DEF InKept
<1> QED
  BY <1>2, <1>7, <1>8 DEF InKept

(* Lemma: the newest messages are lost with the output.                    *)
LEMMA InLost ==
  ASSUME RpcIInv, Delivery, NEW q \in Peers, Up(q), NEW v \in Seq(Message),
         Len(v) <= Len(wire[Other(q)]),
         \A j \in 1..Len(v) : v[j] = wire[Other(q)][j]
  PROVE  InKept(q, v, FALSE)
<1>1. wire[Other(q)] \in Seq(Message)
  BY TwoPeers DEF RpcIInv, TypeOK
<1>2. InOK(wire[Other(q)], incoming_streams[q], stream, client, Del)
  BY InSame DEF InKept
<1> QED
  BY <1>1, <1>2, InPrefix, Zenon DEF InKept

(* Lemma: a broker goes down.                                              *)
LEMMA DeliveryDown ==
  ASSUME RpcIInv, RpcIInv', Delivery, NEW p \in Peers, Release(p),
         UNCHANGED <<owner, stream, clean_end>>,
         broker'[p].pc \in Down,
         \A q \in Peers \ {p} : broker'[q] = broker[q],
         NEW w, w = wire', OutKept(w),
         NEW open, open = output_open'[p],
         Up(Other(p)) => InKept(Other(p), w[p], open)
  PROVE  Delivery'
<1>1. TypeOK /\ TypeOK' /\ \A c \in Cmds : owner[c] \in Peers
  BY RpcAssumption DEF RpcIInv, TypeOK
<1>2. \A q \in Peers : q = p \/ (q = Other(p) /\ Other(q) = p /\ q # p)
  BY TwoPeers
<1>3. \A q \in Peers : Up(q)' => Up(q) /\ q # p
  BY DEF Up, Down
<1>4. /\ incoming_streams'[p] = NoStreams
      /\ \A q \in Peers \ {p} : incoming_streams'[q] = incoming_streams[q]
      /\ slot' = slot /\ got' = got
  BY <1>1 DEF Release, TypeOK
<1>5. \A q \in Peers :
        /\ broker'[q].pc # "sendStray"
        /\ broker'[q].pc = "sendCommand" => broker'[q] = broker[q]
  BY DEF Delivery, NoStray, Down
<1>6. \A c \in Cmds :
        client'[c] = client[c]
          \/ (client[c] = "queued" /\ client'[c] = "open")
  BY <1>1 DEF Release, TypeOK
<1>7. Del' = Del
  BY <1>4 DEF Del
<1>8. Got'
  BY <1>4, <1>7, Zenon DEF Delivery, Got
<1>9. \A q \in Peers :
        /\ OutOK(wire'[q], q, stream, owner)
        /\ Up(q)' => OutReg(wire'[q], incoming_streams[q])
        /\ \A c \in Cmds : NoCmd(wire[q], c) => NoCmd(wire'[q], c)
  BY <1>3, Zenon DEF OutKept
<1>10. ASSUME NEW q \in Peers, Up(q)'
       PROVE  /\ InOK(wire'[Other(q)], incoming_streams[q], stream, client,
                      Del)
              /\ output_open'[Other(q)] =>
                   InAll(wire'[Other(q)], q, stream, client, Del, owner)
  <2>1. q = Other(p) /\ Other(q) = p /\ Up(Other(p))
    BY <1>2, <1>3, <1>10
  <2>2. InKept(q, wire'[Other(q)], output_open'[Other(q)])
    BY <2>1
  <2> QED
    BY <2>2, Zenon DEF InKept
<1>11. \A c \in Cmds :
        /\ client'[c] \in {"idle", "queued"} =>
             client[c] \in {"idle", "queued"}
        /\ client'[c] = "ended" =>
             client[c] = "ended" \/ (slot[c] = <<>> /\ ~SinkAlive(c))
        /\ client'[c] # "dropped" =>
             client[c] # "dropped" /\ Del'[c] = Del[c]
        /\ slot[c] = <<>> => slot'[c] = <<>>
  BY <1>4, <1>6, <1>7
<1>12. \A q \in Peers : Up(q)' =>
         Up(q) /\ incoming_streams'[q] = incoming_streams[q]
  BY <1>3, <1>4, Zenon
<1>13. \A q \in Peers : \/ incoming_streams'[q] = incoming_streams[q]
                        \/ incoming_streams'[q] = NoStreams
  BY <1>4, Zenon
<1> QED
  BY <1>5, <1>8, <1>9, <1>10, <1>11, <1>12, <1>13, DeliveryFrame, Zenon

(* Lemma: a step that changes at most the wires and what the brokers wait  *)
(* for.                                                                    *)
LEMMA DeliveryQuiet ==
  ASSUME RpcIInv, RpcIInv', Delivery,
         UNCHANGED <<owner, stream, clean_end, incoming_streams, client,
                     slot, got>>,
         \A q \in Peers :
           /\ Up(q)' => Up(q)
           /\ broker'[q].pc # "sendStray"
           /\ broker'[q].pc = "sendCommand" => broker'[q] = broker[q],
         NEW w, w = wire', OutKept(w), NEW open, open = output_open',
         \A q \in Peers : Up(q) => InKept(q, w[Other(q)], open[Other(q)])
  PROVE  Delivery'
<1>1. Del' = Del
  BY DEF Del
<1>2. Got'
  BY <1>1, Zenon DEF Delivery, Got
<1>3. \A q \in Peers :
        /\ OutOK(wire'[q], q, stream, owner)
        /\ Up(q)' => OutReg(wire'[q], incoming_streams[q])
        /\ \A c \in Cmds : NoCmd(wire[q], c) => NoCmd(wire'[q], c)
  BY Zenon DEF OutKept
<1>4. ASSUME NEW q \in Peers, Up(q)'
      PROVE  /\ InOK(wire'[Other(q)], incoming_streams[q], stream, client,
                     Del)
             /\ output_open'[Other(q)] =>
                  InAll(wire'[Other(q)], q, stream, client, Del, owner)
  BY <1>4, Zenon DEF InKept
<1>5. \A c \in Cmds :
        /\ client'[c] \in {"idle", "queued"} =>
             client[c] \in {"idle", "queued"}
        /\ client'[c] = "ended" =>
             client[c] = "ended" \/ (slot[c] = <<>> /\ ~SinkAlive(c))
        /\ client'[c] # "dropped" =>
             client[c] # "dropped" /\ Del'[c] = Del[c]
        /\ slot[c] = <<>> => slot'[c] = <<>>
  BY <1>1, Zenon
<1>6. \A q \in Peers :
        /\ Up(q)' => Up(q) /\ incoming_streams'[q] = incoming_streams[q]
        /\ \/ incoming_streams'[q] = incoming_streams[q]
           \/ incoming_streams'[q] = NoStreams
  BY Zenon
<1> QED
  BY <1>2, <1>3, <1>4, <1>5, <1>6, DeliveryFrame, Zenon

(* Lemma: a step of an application that changes its streams only.          *)
LEMMA DeliveryApplication ==
  ASSUME RpcIInv, RpcIInv', Delivery,
         UNCHANGED <<owner, stream, clean_end, incoming_streams, wire,
                     output_open>>,
         \A q \in Peers :
           /\ Up(q)' => Up(q)
           /\ broker'[q].pc # "sendStray"
           /\ broker'[q].pc = "sendCommand" =>
                \/ broker'[q] = broker[q]
                \/ /\ MaySend(q, broker'[q].cmd, broker'[q].id)
                   /\ client'[broker'[q].cmd] = "open",
         \A c \in Cmds :
           /\ client'[c] \in {"idle", "queued"} =>
                client[c] \in {"idle", "queued"}
           /\ client'[c] = "ended" =>
                client[c] = "ended" \/ (slot[c] = <<>> /\ ~SinkAlive(c))
           /\ client'[c] # "dropped" =>
                client[c] # "dropped" /\ Del'[c] = Del[c]
           /\ slot[c] = <<>> => slot'[c] = <<>>,
         Got'
  PROVE  Delivery'
<1>1. \A q \in Peers :
        /\ OutOK(wire'[q], q, stream, owner)
        /\ Up(q)' => OutReg(wire'[q], incoming_streams[q])
        /\ \A c \in Cmds : NoCmd(wire[q], c) => NoCmd(wire'[q], c)
  BY Zenon DEF Delivery, Outbound
<1>2. ASSUME NEW q \in Peers, Up(q)'
      PROVE  /\ InOK(wire'[Other(q)], incoming_streams[q], stream, client,
                     Del)
             /\ output_open'[Other(q)] =>
                  InAll(wire'[Other(q)], q, stream, client, Del, owner)
  BY <1>2, Zenon DEF Delivery, Inbound
<1>3. \A q \in Peers :
        /\ Up(q)' => Up(q) /\ incoming_streams'[q] = incoming_streams[q]
        /\ \/ incoming_streams'[q] = incoming_streams[q]
           \/ incoming_streams'[q] = NoStreams
  BY Zenon
<1> QED
  BY <1>1, <1>2, <1>3, DeliveryFrame, Zenon

(* Lemma: a stream is submitted, seen to end or dropped.                   *)
LEMMA DeliverySubmit ==
  ASSUME RpcIInv, RpcIInv', Delivery, NEW c \in Cmds,
         SubmitCommand(c) \/ ClientSeesEnd(c) \/ ClientDrops(c)
  PROVE  Delivery'
<1>1. /\ UNCHANGED <<owner, stream, clean_end, incoming_streams, wire,
                     output_open, got>>
      /\ TypeOK
  BY DEF SubmitCommand, ClientSeesEnd, ClientDrops, tableVars, wireVars,
         RpcIInv
<1>2. /\ client' = [client EXCEPT ![c] = client'[c]]
      /\ \/ client[c] = "idle" /\ client'[c] \in {"queued", "failed"}
         \/ client'[c] = "ended" /\ slot[c] = <<>> /\ ~SinkAlive(c)
              /\ client[c] = "open"
         \/ client'[c] = "dropped"
      /\ client'[c] # "dropped" => slot' = slot
  BY <1>1 DEF SubmitCommand, ClientSeesEnd, ClientDrops, TypeOK
<1>3. slot'[c] \in {slot[c], <<>>} /\ \A d \in Cmds \ {c} : slot'[d] = slot[d]
  BY <1>1 DEF SubmitCommand, ClientSeesEnd, ClientDrops, TypeOK
<1>4. \A d \in Cmds \ {c} : client'[d] = client[d] /\ Del'[d] = Del[d]
  BY <1>1, <1>2, <1>3 DEF TypeOK, Del
<1>5. client'[c] # "dropped" => Del'[c] = Del[c]
  BY <1>1, <1>2 DEF Del
<1>6. \A q \in Peers :
        /\ broker'[q] = broker[q] \/ broker'[q] = Idle
        /\ Up(q)' => Up(q)
  BY <1>1 DEF SubmitCommand, ClientSeesEnd, ClientDrops, Unblock, TypeOK, Up,
              Idle
<1>7. \A q \in Peers :
        /\ broker'[q].pc # "sendStray"
        /\ broker'[q].pc = "sendCommand" => broker'[q] = broker[q]
  BY <1>6 DEF Delivery, NoStray, Idle
<1>8. ASSUME NEW d \in Cmds
      PROVE  /\ client'[d] \in {"idle", "queued"} =>
                  client[d] \in {"idle", "queued"}
             /\ client'[d] = "ended" =>
                  client[d] = "ended" \/ (slot[d] = <<>> /\ ~SinkAlive(d))
             /\ client'[d] # "dropped" =>
                  client[d] # "dropped" /\ Del'[d] = Del[d]
             /\ slot[d] = <<>> => slot'[d] = <<>>
  <2>1. CASE d = c
    BY <1>2, <1>3, <1>5, <2>1
  <2>2. CASE d # c
    BY <1>3, <1>4, <2>2
  <2> QED
    BY <2>1, <2>2
<1>9. Got'
  <2> SUFFICES ASSUME NEW d \in Cmds
               PROVE  /\ \A j \in 1..Len(got[d]) : got[d][j] = <<d, j>>
                      /\ slot'[d] # <<>> =>
                           Head(slot'[d]) = <<d, Len(got[d]) + 1>>
                      /\ Del'[d] <= stream[d].sent
    BY <1>1, Zenon DEF Got
  <2>1. /\ \A j \in 1..Len(got[d]) : got[d][j] = <<d, j>>
        /\ slot[d] # <<>> => Head(slot[d]) = <<d, Len(got[d]) + 1>>
        /\ Del[d] <= stream[d].sent
        /\ slot'[d] = slot[d] \/ slot'[d] = <<>>
    BY <1>3, Zenon DEF Delivery, Got
  <2>2. /\ Del'[d] = Len(got[d]) + Len(slot'[d])
        /\ Del[d] = Len(got[d]) + Len(slot[d])
    BY <1>1 DEF Del
  <2>3. /\ Len(got[d]) \in Nat /\ Len(slot[d]) \in Nat /\ Len(<<>>) = 0
        /\ stream[d].sent \in Nat
    BY <1>1, LenProperties, EmptySeq DEF TypeOK, LoopState
  <2>4. Del'[d] <= stream[d].sent
    <3>1. Len(slot'[d]) = Len(slot[d]) \/ Len(slot'[d]) = 0
      BY <2>1, <2>3, Zenon
    <3>2. \A a, b, s \in Nat : a + b <= s => a + 0 <= s
      OBVIOUS
    <3>3. Len(got[d]) + Len(slot[d]) <= stream[d].sent
      BY <2>1, <2>2
    <3>4. Len(got[d]) + 0 <= stream[d].sent
      BY <2>3, <3>2, <3>3, Zenon
    <3>5. Len(got[d]) + Len(slot'[d]) <= stream[d].sent
      BY <3>1, <3>3, <3>4, Zenon
    <3> QED
      BY <2>2, <3>5, Zenon
  <2> QED
    BY <2>1, <2>4, Zenon
<1> QED
  BY <1>1, <1>6, <1>7, <1>8, <1>9, DeliveryApplication, Zenon

(* Lemma: the application reads the response in its channel: delivered as  *)
(* before, and in order.                                                   *)
LEMMA DeliveryReads ==
  ASSUME RpcIInv, RpcIInv', Delivery, NEW c \in Cmds, ClientReads(c)
  PROVE  Delivery'
<1>1. /\ UNCHANGED <<owner, stream, clean_end, incoming_streams, wire,
                     output_open, client>>
      /\ TypeOK
  BY DEF ClientReads, tableVars, wireVars, RpcIInv
<1>2. /\ slot[c] \in Seq(Response) /\ slot[c] # <<>>
      /\ Len(slot[c]) <= 1 /\ got[c] \in Seq(Response)
  BY <1>1 DEF ClientReads, TypeOK
<1>3. /\ Head(slot[c]) \in Response /\ Tail(slot[c]) \in Seq(Response)
      /\ Len(Tail(slot[c])) = Len(slot[c]) - 1
      /\ Len(slot[c]) \in Nat /\ Len(got[c]) \in Nat /\ Len(slot[c]) # 0
  BY <1>2, HeadTailProperties, LenProperties, EmptySeq
<1>4. Len(slot[c]) = 1 /\ Len(Tail(slot[c])) = 0
  <2>1. \A k \in Nat : k <= 1 /\ k # 0 => k = 1
    OBVIOUS
  <2>2. Len(slot[c]) = 1
    BY <1>2, <1>3, <2>1, Zenon
  <2> QED
    BY <1>3, <2>2
<1>5. /\ slot'[c] = <<>> /\ \A d \in Cmds \ {c} : slot'[d] = slot[d]
      /\ got'[c] = Append(got[c], Head(slot[c]))
      /\ \A d \in Cmds \ {c} : got'[d] = got[d]
  <2>1. Tail(slot[c]) = <<>>
    BY <1>3, <1>4, EmptySeq
  <2> QED
    BY <1>1, <2>1 DEF ClientReads, TypeOK
<1>6. /\ Len(got'[c]) = Len(got[c]) + 1
      /\ \A j \in 1..Len(got[c]) : got'[c][j] = got[c][j]
      /\ got'[c][Len(got[c]) + 1] = Head(slot[c])
      /\ Len(slot'[c]) = 0
  BY <1>2, <1>3, <1>5, AppendProperties, EmptySeq
<1>7. \A d \in Cmds : Del'[d] = Del[d]
  <2>1. Del'[c] = Del[c]
    <3>1. /\ Del'[c] = Len(got'[c]) + Len(slot'[c])
          /\ Del[c] = Len(got[c]) + Len(slot[c])
      BY DEF Del
    <3> QED
      BY <1>3, <1>4, <1>6, <3>1
  <2>2. \A d \in Cmds \ {c} : Del'[d] = Del[d]
    BY <1>5 DEF Del
  <2> QED
    BY <2>1, <2>2
<1>8. \A q \in Peers :
        /\ broker'[q] = broker[q] \/ broker'[q] = Idle
        /\ Up(q)' => Up(q)
  BY <1>1 DEF ClientReads, Unblock, TypeOK, Up, Idle
<1>9. \A q \in Peers :
        /\ broker'[q].pc # "sendStray"
        /\ broker'[q].pc = "sendCommand" => broker'[q] = broker[q]
  BY <1>8 DEF Delivery, NoStray, Idle
<1>10. \A d \in Cmds :
         /\ client'[d] \in {"idle", "queued"} =>
              client[d] \in {"idle", "queued"}
         /\ client'[d] = "ended" =>
              client[d] = "ended" \/ (slot[d] = <<>> /\ ~SinkAlive(d))
         /\ client'[d] # "dropped" =>
              client[d] # "dropped" /\ Del'[d] = Del[d]
         /\ slot[d] = <<>> => slot'[d] = <<>>
  BY <1>1, <1>5, <1>7, Zenon
<1>11. Got'
  <2> SUFFICES ASSUME NEW d \in Cmds
               PROVE  /\ \A j \in 1..Len(got'[d]) : got'[d][j] = <<d, j>>
                      /\ slot'[d] # <<>> =>
                           Head(slot'[d]) = <<d, Len(got'[d]) + 1>>
                      /\ Del'[d] <= stream[d].sent
    BY <1>1, Zenon DEF Got
  <2>1. /\ \A j \in 1..Len(got[d]) : got[d][j] = <<d, j>>
        /\ slot[d] # <<>> => Head(slot[d]) = <<d, Len(got[d]) + 1>>
        /\ Del[d] <= stream[d].sent
    BY Zenon DEF Delivery, Got
  <2>2. CASE d = c
    <3>1. ASSUME NEW j \in 1..Len(got'[c]) PROVE got'[c][j] = <<c, j>>
      <4>1. j \in 1..Len(got[c]) \/ j = Len(got[c]) + 1
        BY <1>3, <1>6
      <4> QED
        BY <1>2, <1>6, <2>1, <2>2, <4>1
    <3> QED
      BY <1>5, <1>7, <2>1, <2>2, <3>1
  <2>3. CASE d # c
    BY <1>5, <1>7, <2>1, <2>3
  <2> QED
    BY <2>2, <2>3
<1> QED
  BY <1>1, <1>8, <1>9, <1>10, <1>11, DeliveryApplication, Zenon

(* Lemma: the ClientChannel is dropped.                                    *)
LEMMA DeliveryDropChannel ==
  ASSUME RpcIInv, RpcIInv', Delivery, NEW p \in Peers, DropChannel(p)
  PROVE  Delivery'
<1>1. UNCHANGED <<owner, stream, clean_end, incoming_streams, wire,
                  output_open, client, slot, got, broker>>
  BY DEF DropChannel, tableVars, wireVars
<1>2. OutKept(wire)
  BY DEF OutKept, Delivery, Outbound
<1>3. \A q \in Peers : /\ Up(q)' => Up(q)
                       /\ broker'[q].pc # "sendStray"
  BY <1>1 DEF Up, Delivery, NoStray
<1>4. \A q \in Peers :
        Up(q) => InKept(q, wire[Other(q)], output_open[Other(q)])
  BY InSame
<1> QED
  BY <1>1, <1>2, <1>3, <1>4, DeliveryQuiet, Zenon

(* Lemma: the wires after a broker has taken a command, cancel or error.   *)
LEMMA TakeKept ==
  ASSUME RpcIInv, Delivery, NEW p \in Peers,
         NEW type \in {"cmd", "cancel", "error"}, CanTake(p, type),
         NEW w, w = WireAfterTake(p)
  PROVE  /\ OutKept(w)
         /\ \A q \in Peers :
              Up(q) => InKept(q, w[Other(q)], output_open[Other(q)])
<1>1. /\ TypeOK /\ Outbound /\ wire \in [Peers -> Seq(Message)]
      /\ Other(p) \in Peers /\ wire[Other(p)] # <<>>
  BY TwoPeers DEF RpcIInv, TypeOK, CanTake, Delivery
<1>2. OutKept(w)
  BY <1>1, OutTaken
<1>3. /\ w[Other(p)] = Tail(wire[Other(p)])
      /\ \A q \in Peers : q # Other(p) => w[q] = wire[q]
  BY <1>1 DEF WireAfterTake
<1>4. ASSUME NEW q \in Peers, Up(q)
      PROVE  InKept(q, w[Other(q)], output_open[Other(q)])
  <2>1. CASE q = p
    <3>1. InKept(p, Tail(wire[Other(p)]), output_open[Other(p)])
      BY InTakenOther
    <3> QED
      BY <1>3, <2>1, <3>1
  <2>2. CASE q # p
    <3>1. Other(q) = p /\ Other(p) # p
      BY <2>2, TwoPeers
    <3>2. w[Other(q)] = wire[Other(q)]
      BY <1>3, <3>1
    <3>3. InKept(q, wire[Other(q)], output_open[Other(q)])
      BY <1>4, InSame
    <3> QED
      BY <3>2, <3>3
  <2> QED
    BY <2>1, <2>2
<1> QED
  BY <1>2, <1>4

(* Lemma: the wires after an error or a cancel was sent.                   *)
LEMMA SendKept ==
  ASSUME RpcIInv, Delivery, NEW p \in Peers, NEW m \in Message,
         m.type \in {"cancel", "error"},
         NEW w, w = [wire EXCEPT ![p] = Append(@, m)]
  PROVE  /\ OutKept(w)
         /\ \A q \in Peers :
              Up(q) => InKept(q, w[Other(q)], output_open[Other(q)])
<1>1. TypeOK /\ Outbound /\ wire \in [Peers -> Seq(Message)]
  BY DEF RpcIInv, TypeOK, Delivery
<1>2. OutKept(w)
  BY <1>1, OutSent
<1>3. /\ w[p] = Append(wire[p], m)
      /\ \A q \in Peers : q # p => w[q] = wire[q]
  BY <1>1
<1>4. ASSUME NEW q \in Peers, Up(q)
      PROVE  InKept(q, w[Other(q)], output_open[Other(q)])
  <2>1. CASE Other(q) = p
    <3>1. InKept(q, Append(wire[Other(q)], m), output_open[Other(q)])
      BY <1>4, InSentOther
    <3> QED
      BY <1>3, <2>1, <3>1
  <2>2. CASE Other(q) # p
    <3>1. w[Other(q)] = wire[Other(q)]
      BY <1>3, <2>2, TwoPeers
    <3>2. InKept(q, wire[Other(q)], output_open[Other(q)])
      BY <1>4, InSame
    <3> QED
      BY <3>1, <3>2
  <2> QED
    BY <2>1, <2>2
<1> QED
  BY <1>2, <1>4

(* Lemma: a broker panics, having taken a message or not.                  *)
LEMMA DeliveryPanic ==
  ASSUME RpcIInv, RpcIInv', Delivery, NEW p \in Peers, Panic(p),
         UNCHANGED <<owner, stream, clean_end>>,
         \/ LosePart(wire, p)
         \/ wire[Other(p)] # <<>> /\ LosePart(WireAfterTake(p), p)
  PROVE  Delivery'
<1>1. /\ TypeOK /\ Outbound /\ wire \in [Peers -> Seq(Message)]
      /\ Other(p) \in Peers /\ Other(p) # p /\ Other(Other(p)) = p
  BY TwoPeers DEF RpcIInv, TypeOK, Delivery
<1>2. PICK w \in [Peers -> Seq(Message)] :
        LosePart(w, p) /\ OutKept(w) /\ w[p] = wire[p]
  <2>1. CASE LosePart(wire, p)
    <3>1. OutKept(wire)
      BY <1>1 DEF OutKept, Outbound
    <3> QED
      BY <1>1, <2>1, <3>1
  <2>2. CASE wire[Other(p)] # <<>> /\ LosePart(WireAfterTake(p), p)
    <3>1. OutKept(WireAfterTake(p))
      BY <1>1, <2>2, OutTaken
    <3>2. Tail(wire[Other(p)]) \in Seq(Message)
      BY <1>1, <2>2, TailShape
    <3>3. /\ WireAfterTake(p) \in [Peers -> Seq(Message)]
          /\ WireAfterTake(p)[p] = wire[p]
      BY <1>1, <3>2 DEF WireAfterTake
    <3> QED
      BY <2>2, <3>1, <3>3
  <2> QED
    BY <2>1, <2>2
<1>3. PICK x : x = wire'
  OBVIOUS
<1>4. /\ OutKept(x)
      /\ x[p] \in Seq(Message) /\ Len(x[p]) <= Len(w[p])
      /\ \A j \in 1..Len(x[p]) : x[p][j] = w[p][j]
  BY <1>2, <1>3, OutLost
<1>5. Up(Other(p)) => InKept(Other(p), x[p], FALSE)
  <2> SUFFICES ASSUME Up(Other(p)) PROVE InKept(Other(p), x[p], FALSE)
    OBVIOUS
  <2>1. PICK q \in Peers : q = Other(p) /\ Up(q) /\ Other(q) = p
    BY <1>1
  <2>2. /\ Len(x[p]) <= Len(wire[Other(q)])
        /\ \A j \in 1..Len(x[p]) : x[p][j] = wire[Other(q)][j]
    BY <1>2, <1>4, <2>1
  <2>3. InKept(q, x[p], FALSE)
    BY <1>4, <2>1, <2>2, InLost, Zenon
  <2> QED
    BY <2>1, <2>3
<1>6. /\ Release(p) /\ output_open'[p] = FALSE
      /\ broker'[p].pc \in Down
      /\ \A q \in Peers \ {p} : broker'[q] = broker[q]
  BY <1>1 DEF Panic, Goto, Down, TypeOK
<1> QED
  BY <1>3, <1>4, <1>5, <1>6, DeliveryDown, Zenon

(* Lemma: a broker stops.                                                  *)
LEMMA DeliveryStop ==
  ASSUME RpcIInv, RpcIInv', Delivery, NEW p \in Peers, Stop(p),
         UNCHANGED <<owner, stream, clean_end, output_open>>,
         NEW w, w = wire', OutKept(w),
         \A q \in Peers :
           Up(q) => InKept(q, w[Other(q)], output_open[Other(q)])
  PROVE  Delivery'
<1>1. Other(p) \in Peers /\ Other(Other(p)) = p
  BY TwoPeers
<1>2. /\ Release(p) /\ broker'[p].pc \in Down
      /\ \A q \in Peers \ {p} : broker'[q] = broker[q]
  BY DEF Stop, Goto, Down, RpcIInv, TypeOK
<1>3. Up(Other(p)) => InKept(Other(p), w[p], output_open'[p])
  BY <1>1
<1> QED
  BY <1>2, <1>3, DeliveryDown, Zenon

(* Lemma: nothing in the wires changes.                                    *)
LEMMA SameKept ==
  ASSUME Delivery
  PROVE  /\ OutKept(wire)
         /\ \A q \in Peers :
              Up(q) => InKept(q, wire[Other(q)], output_open[Other(q)])
BY InSame DEF OutKept, Delivery, Outbound

(* Lemma: the terminate event, and an error from the peer.                 *)
LEMMA DeliveryTerminate ==
  ASSUME RpcIInv, RpcIInv', Delivery, NEW p \in Peers,
         TakeTerminate(p) \/ TakeError(p)
  PROVE  Delivery'
<1>1. CASE TakeTerminate(p)
  BY <1>1, DeliveryPanic DEF TakeTerminate
<1>2. CASE TakeError(p)
  <2>1. /\ CanTake(p, "error") /\ wire' = WireAfterTake(p) /\ Stop(p)
        /\ UNCHANGED <<owner, stream, clean_end, output_open>>
    BY <1>2 DEF TakeError, Take
  <2>2. PICK w : w = WireAfterTake(p)
    OBVIOUS
  <2>3. /\ OutKept(w)
        /\ \A q \in Peers :
             Up(q) => InKept(q, w[Other(q)], output_open[Other(q)])
    BY <2>1, <2>2, TakeKept
  <2>4. w = wire'
    BY <2>1, <2>2
  <2> QED
    BY <2>1, <2>3, <2>4, DeliveryStop, Zenon
<1> QED
  BY <1>1, <1>2

(* Lemma: a refused command, and an error message.                         *)
LEMMA DeliveryError ==
  ASSUME RpcIInv, RpcIInv', Delivery, NEW p \in Peers,
         SendError(p) \/ SendErrorClosed(p)
  PROVE  Delivery'
<1>1. /\ TypeOK /\ broker \in [Peers -> BrokerState]
      /\ UNCHANGED <<owner, stream, clean_end>>
  BY DEF SendError, SendErrorClosed, RpcIInv, TypeOK
<1>2. PICK w : w = wire'
  OBVIOUS
<1>3. ASSUME OutKept(w), output_open' = output_open,
             \A q \in Peers :
               Up(q) => InKept(q, w[Other(q)], output_open[Other(q)]),
             \/ Stop(p)
             \/ /\ Goto(p, "idle", None, None)
                /\ UNCHANGED <<tableVars, clientVars>>
      PROVE  Delivery'
  <2>1. CASE Stop(p)
    BY <1>1, <1>2, <1>3, <2>1, DeliveryStop, Zenon
  <2>2. CASE Goto(p, "idle", None, None) /\ UNCHANGED <<tableVars, clientVars>>
    <3>1. /\ broker'[p].pc = "idle"
          /\ \A q \in Peers \ {p} : broker'[q] = broker[q]
      BY <1>1, <2>2 DEF Goto
    <3>2. Up(p)
      BY DEF SendError, SendErrorClosed, Up
    <3>3. \A q \in Peers :
            /\ Up(q)' => Up(q)
            /\ broker'[q].pc # "sendStray"
            /\ broker'[q].pc = "sendCommand" => broker'[q] = broker[q]
      BY <3>1, <3>2 DEF Up, Delivery, NoStray
    <3>4. UNCHANGED <<incoming_streams, client, slot, got>>
      BY <2>2 DEF tableVars, clientVars
    <3> QED
      BY <1>1, <1>2, <1>3, <3>3, <3>4, DeliveryQuiet, Zenon
  <2> QED
    BY <1>3, <2>1, <2>2
<1>4. CASE SendError(p)
  <2>1. PICK m : m = [type |-> "error", id |-> broker[p].id]
    OBVIOUS
  <2>2. m \in Message /\ m.type = "error"
    BY <1>4, <2>1 DEF SendError, RpcIInv, BrokerHolds, Message
  <2>3. w = [wire EXCEPT ![p] = Append(@, m)]
    BY <1>2, <1>4, <2>1 DEF SendError
  <2>4. /\ OutKept(w)
        /\ \A q \in Peers :
             Up(q) => InKept(q, w[Other(q)], output_open[Other(q)])
    BY <2>2, <2>3, SendKept
  <2>5. /\ output_open' = output_open
        /\ \/ Stop(p)
           \/ /\ Goto(p, "idle", None, None)
              /\ UNCHANGED <<tableVars, clientVars>>
    BY <1>4, Zenon DEF SendError
  <2> QED
    BY <1>3, <2>4, <2>5, Zenon
<1>5. CASE SendErrorClosed(p)
  <2>1. CASE Panic(p) /\ LosePart(wire, p)
    BY <1>1, <2>1, DeliveryPanic
  <2>2. CASE /\ UNCHANGED wireVars
             /\ \/ Stop(p)
                \/ /\ Goto(p, "idle", None, None)
                   /\ UNCHANGED <<tableVars, clientVars>>
    <3>1. w = wire /\ output_open' = output_open
      BY <1>2, <2>2 DEF wireVars
    <3>2. /\ OutKept(w)
          /\ \A q \in Peers :
               Up(q) => InKept(q, w[Other(q)], output_open[Other(q)])
      BY <3>1, SameKept
    <3> QED
      BY <1>3, <2>2, <3>1, <3>2, Zenon
  <2> QED
    BY <1>5, <2>1, <2>2, Zenon DEF SendErrorClosed
<1> QED
  BY <1>4, <1>5

(* Lemma: a cancel is sent or taken, pipes break.                          *)
LEMMA DeliveryCancel ==
  ASSUME RpcIInv, RpcIInv', Delivery, NEW p \in Peers,
         TakeCancel(p) \/ PipesBreak(p) \/ \E i \in Ids : SendCancel(p, i)
  PROVE  Delivery'
<1>1. /\ UNCHANGED <<owner, stream, clean_end, incoming_streams, client,
                     slot, got, broker>>
      /\ TypeOK /\ wire \in [Peers -> Seq(Message)]
  BY DEF TakeCancel, PipesBreak, SendCancel, tableVars, clientVars, RpcIInv,
         TypeOK
<1>2. \A q \in Peers :
        /\ Up(q)' => Up(q)
        /\ broker'[q].pc # "sendStray"
        /\ broker'[q].pc = "sendCommand" => broker'[q] = broker[q]
  BY <1>1 DEF Up, Delivery, NoStray
<1>3. PICK w : w = wire'
  OBVIOUS
<1>4. PICK open : open = output_open'
  OBVIOUS
<1>5. ASSUME OutKept(w), \A q \in Peers :
               Up(q) => InKept(q, w[Other(q)], open[Other(q)])
      PROVE  Delivery'
  BY <1>1, <1>2, <1>3, <1>4, <1>5, DeliveryQuiet, Zenon
<1>6. CASE TakeCancel(p)
  <2>1. /\ CanTake(p, "cancel") /\ w = WireAfterTake(p)
        /\ open = output_open
    BY <1>3, <1>4, <1>6 DEF TakeCancel, Take
  <2>2. /\ OutKept(w)
        /\ \A q \in Peers :
             Up(q) => InKept(q, w[Other(q)], output_open[Other(q)])
    BY <2>1, TakeKept
  <2> QED
    BY <1>5, <2>1, <2>2, Zenon
<1>7. CASE \E i \in Ids : SendCancel(p, i)
  <2>1. PICK i \in Ids : SendCancel(p, i)
    BY <1>7
  <2>2. PICK m : m = [type |-> "cancel", id |-> i]
    OBVIOUS
  <2>3. m \in Message /\ m.type = "cancel"
    BY <2>2 DEF Message
  <2>4. w = [wire EXCEPT ![p] = Append(@, m)] /\ open = output_open
    BY <1>3, <1>4, <2>1, <2>2 DEF SendCancel
  <2>5. /\ OutKept(w)
        /\ \A q \in Peers :
             Up(q) => InKept(q, w[Other(q)], output_open[Other(q)])
    BY <2>3, <2>4, SendKept
  <2> QED
    BY <1>5, <2>4, <2>5, Zenon
<1>8. CASE PipesBreak(p)
  <2>1. /\ ~Up(Other(p)) /\ w[p] = <<>>
        /\ \A q \in Peers \ {p} : w[q] = wire[q] /\ open[q] = output_open[q]
    BY <1>1, <1>3, <1>4, <1>8 DEF PipesBreak, TypeOK
  <2>2. 1..Len(w[p]) = {}
    BY <2>1, EmptySeq
  <2>3. ASSUME NEW q \in Peers
        PROVE  /\ OutOK(w[q], q, stream, owner)
               /\ Up(q) => OutReg(w[q], incoming_streams[q])
               /\ \A c \in Cmds : NoCmd(wire[q], c) => NoCmd(w[q], c)
    <3>1. CASE q = p
      BY <2>2, <3>1 DEF OutOK, OutReg, NoCmd
    <3>2. CASE q # p
      BY <2>1, <3>2 DEF Delivery, Outbound
    <3> QED
      BY <3>1, <3>2
  <2>4. OutKept(w)
    BY <2>3, Zenon DEF OutKept
  <2>5. ASSUME NEW q \in Peers, Up(q)
        PROVE  InKept(q, w[Other(q)], open[Other(q)])
    <3>1. Other(q) \in Peers \ {p}
      BY <2>1, <2>5, TwoPeers
    <3>2. InKept(q, wire[Other(q)], output_open[Other(q)])
      BY <2>5, InSame
    <3> QED
      BY <2>1, <3>1, <3>2
  <2> QED
    BY <1>5, <2>4, <2>5, Zenon
<1> QED
  BY <1>6, <1>7, <1>8

-----------------------------------------------------------------------------
(* Lemma: the broker takes a command of its application and gives it an id *)
(* that is free: a conforming endpoint looks for one, and an endpoint with *)
(* one command has none in use.                                            *)
LEMMA DeliveryStart ==
  ASSUME OneCommandPerId, RpcIInv, RpcIInv', Delivery, NEW p \in Peers,
         NEW c \in Cmds, TakeStartCommand(p, c)
  PROVE  Delivery'
<1>1. /\ UNCHANGED <<owner, stream, clean_end, incoming_streams, wire,
                     output_open, slot, got>>
      /\ TypeOK /\ BrokerHolds' /\ SinksAreOwn
      /\ owner[c] = p /\ client[c] = "queued" /\ owner \in Assignments
  BY DEF TakeStartCommand, wireVars, RpcIInv, TypeOK
<1>2. client' = [client EXCEPT ![c] = "open"] /\ broker[p].pc = "idle"
  BY DEF TakeStartCommand, IsIdle
<1>3. PICK i : /\ broker' = [broker EXCEPT ![p] =
                               [pc |-> "sendCommand", cmd |-> c, id |-> i]]
               /\ p \in Conforming => incoming_streams[p][i] = None
  BY DEF TakeStartCommand, Goto, FreeIds
<1>4. /\ broker'[p] = [pc |-> "sendCommand", cmd |-> c, id |-> i]
      /\ \A q \in Peers \ {p} : broker'[q] = broker[q]
  BY <1>1, <1>3 DEF TypeOK
<1>5. broker'[p].pc = "sendCommand" /\ broker'[p].cmd = c /\ broker'[p].id = i
  BY <1>4
<1>6. i \in Ids
  BY <1>1, <1>5 DEF BrokerHolds
<1>7. NotSent(c, stream, incoming_streams[p], wire[p])
  BY <1>1 DEF Delivery, Unsent
<1>8. incoming_streams[p][i] = None
  <2> SUFFICES ASSUME p \notin Conforming, incoming_streams[p][i] # None
               PROVE  FALSE
    BY <1>3
  <2>1. PICK d \in Cmds : d = incoming_streams[p][i]
    BY <1>1, <1>6 DEF TypeOK
  <2>2. owner[d] = p
    BY <1>1, <1>6, <2>1 DEF SinksAreOwn
  <2>3. d = c
    BY <1>1, <2>2 DEF OneCommandPerId
  <2> QED
    BY <1>6, <1>7, <2>1, <2>3, Zenon DEF NotSent
<1>9. \A q \in Peers :
        /\ Up(q)' => Up(q)
        /\ broker'[q].pc # "sendStray"
        /\ broker'[q].pc = "sendCommand" =>
             \/ broker'[q] = broker[q]
             \/ /\ MaySend(q, broker'[q].cmd, broker'[q].id)
                /\ client'[broker'[q].cmd] = "open"
  <2>1. client'[c] = "open"
    BY <1>1, <1>2 DEF TypeOK
  <2>2. MaySend(p, c, i)
    BY <1>7, <1>8 DEF MaySend
  <2>3. /\ Up(p) /\ broker'[p].pc # "sendStray"
        /\ MaySend(p, broker'[p].cmd, broker'[p].id)
        /\ client'[broker'[p].cmd] = "open"
    BY <1>2, <1>5, <2>1, <2>2 DEF Up
  <2>4. \A q \in Peers \ {p} : /\ broker'[q].pc # "sendStray"
                               /\ Up(q)' => Up(q)
    BY <1>4 DEF Delivery, NoStray, Up
  <2> QED
    BY <1>4, <2>3, <2>4, Zenon
<1>10. Del' = Del
  BY <1>1 DEF Del
<1>11. Got'
  BY <1>1, <1>10, Zenon DEF Delivery, Got
<1>12. \A d \in Cmds : client'[d] = client[d]
                         \/ (client[d] = "queued" /\ client'[d] = "open")
  BY <1>1, <1>2 DEF TypeOK
<1>13. \A d \in Cmds :
         /\ client'[d] \in {"idle", "queued"} =>
              client[d] \in {"idle", "queued"}
         /\ client'[d] = "ended" =>
              client[d] = "ended" \/ (slot[d] = <<>> /\ ~SinkAlive(d))
         /\ client'[d] # "dropped" =>
              client[d] # "dropped" /\ Del'[d] = Del[d]
         /\ slot[d] = <<>> => slot'[d] = <<>>
  BY <1>1, <1>10, <1>12
<1> QED
  BY <1>1, <1>9, <1>11, <1>13, DeliveryApplication, Zenon

(* Lemma: the command is out, or lost with the output, and its sink is     *)
(* registered.                                                             *)
LEMMA DeliveryRegister ==
  ASSUME RpcIInv, RpcIInv', Delivery, NEW p \in Peers,
         broker[p].pc = "sendCommand", Register(p),
         Goto(p, "idle", None, None),
         UNCHANGED <<owner, output_open, clientVars, clean_end, stream>>,
         NEW m, m = [type |-> "cmd", id |-> broker[p].id,
                     cmd |-> broker[p].cmd],
         wire' = wire \/ wire' = [wire EXCEPT ![p] = Append(@, m)]
  PROVE  Delivery'
<1>1. PICK c \in Cmds, i \in Ids : c = broker[p].cmd /\ i = broker[p].id
  BY DEF RpcIInv, BrokerHolds
<1>2. /\ owner[c] = p /\ TypeOK /\ TypeOK' /\ LoopsHaveIds /\ Up(p)
      /\ \A d \in Cmds : owner[d] \in Peers
      /\ \A q \in Peers : Other(q) \in Peers
      /\ wire \in [Peers -> Seq(Message)]
      /\ incoming_streams \in [Peers -> [Ids -> Cmds \cup {None}]]
      /\ stream \in [Cmds -> LoopState]
  BY <1>1, RpcAssumption, TwoPeers, SMTT(20)
     DEF RpcIInv, BrokerHolds, TypeOK, Up
<1>3. /\ NotSent(c, stream, incoming_streams[p], wire[p])
      /\ client[c] \notin {"idle", "queued", "ended"}
      /\ incoming_streams[p][i] = None
  BY <1>1, Zenon DEF Delivery, Sending
<1>4. /\ m \in Message /\ m.type = "cmd" /\ m.id = i /\ m.cmd = c
  BY <1>1 DEF Message
<1>5. /\ incoming_streams'[p][i] = c
      /\ \A k \in Ids \ {i} :
           incoming_streams'[p][k] = incoming_streams[p][k]
      /\ \A q \in Peers \ {p} : incoming_streams'[q] = incoming_streams[q]
  BY <1>1, <1>2 DEF Register
<1>6. /\ broker'[p].pc = "idle"
      /\ \A q \in Peers \ {p} : broker'[q] = broker[q]
      /\ \A q \in Peers : Up(q)' => Up(q)
  BY <1>2 DEF Goto, TypeOK, Up
<1>7. client' = client /\ slot' = slot /\ got' = got /\ Del' = Del
  BY DEF clientVars, Del
<1>8. /\ wire'[p] = wire[p] \/ wire'[p] = Append(wire[p], m)
      /\ \A q \in Peers \ {p} : wire'[q] = wire[q]
  BY <1>2
<1>9. None \notin Cmds
  BY RpcAssumption
<1>10. \A d \in Cmds : d # c /\ NoCmd(wire[p], d) => NoCmd(wire'[p], d)
  <2> SUFFICES ASSUME NEW d \in Cmds, d # c, NoCmd(wire[p], d),
                      wire'[p] = Append(wire[p], m)
               PROVE  NoCmd(wire'[p], d)
    BY <1>8, Zenon
  <2>1. /\ Len(wire[p]) \in Nat /\ Len(wire'[p]) = Len(wire[p]) + 1
        /\ \A j \in 1..Len(wire[p]) : wire'[p][j] = wire[p][j]
        /\ wire'[p][Len(wire[p]) + 1] = m
    BY <1>2, <1>4, LenProperties, AppendProperties
  <2>2. \A j \in 1..Len(wire'[p]) :
          \/ j \in 1..Len(wire[p]) /\ wire'[p][j] = wire[p][j]
          \/ wire'[p][j] = m
    BY <2>1
  <2> QED
    BY <1>4, <2>2, Zenon DEF NoCmd
<1>11. ASSUME NEW q \in Peers, NEW d \in Cmds, d # c,
              NotSent(d, stream, incoming_streams[q], wire[q])
       PROVE  NotSent(d, stream', incoming_streams'[q], wire'[q])
  <2>1. /\ stream'[d] = NoLoop /\ NoCmd(wire[q], d)
        /\ \A k \in Ids : incoming_streams[q][k] # d
    BY <1>11, Zenon DEF NotSent
  <2>2. \A k \in Ids : incoming_streams'[q][k] # d
    BY <1>5, <1>11, <2>1
  <2>3. NoCmd(wire'[q], d)
    BY <1>8, <1>10, <1>11, <2>1
  <2> QED
    BY <2>1, <2>2, <2>3, Zenon DEF NotSent
<1>12. Unsent'
  <2> SUFFICES ASSUME NEW d \in Cmds, client[d] \in {"idle", "queued"}
               PROVE  NotSent(d, stream', incoming_streams'[owner[d]],
                              wire'[owner[d]])
    BY <1>7, Zenon DEF Unsent
  <2>1. d # c /\ NotSent(d, stream, incoming_streams[owner[d]],
                         wire[owner[d]])
    BY <1>3, Zenon DEF Delivery, Unsent
  <2> QED
    BY <1>2, <1>11, <2>1, Zenon
<1>13. Sending'
  <2> SUFFICES ASSUME NEW q \in Peers, broker'[q].pc = "sendCommand"
               PROVE  /\ NotSent(broker'[q].cmd, stream',
                                 incoming_streams'[q], wire'[q])
                      /\ client'[broker'[q].cmd]
                           \notin {"idle", "queued", "ended"}
                      /\ incoming_streams'[q][broker'[q].id] = None
    BY Zenon DEF Sending
  <2>1. q # p /\ broker'[q] = broker[q]
    BY <1>6
  <2>2. /\ incoming_streams'[q] = incoming_streams[q] /\ wire'[q] = wire[q]
        /\ stream' = stream /\ client' = client
    BY <1>5, <1>7, <1>8, <2>1
  <2> QED
    BY <2>1, <2>2 DEF Delivery, Sending
<1>14. \A k \in Ids : incoming_streams[p][k] # None => k # i
  BY <1>3
<1>15. /\ \A j \in 1..Len(wire[p]) : wire[p][j].type = "cmd" =>
            wire[p][j].id # i /\ wire[p][j].cmd # c
       /\ \A d \in Cmds : owner[d] = p /\ stream[d].loop = "running" =>
            stream[d].id # i
  <2>1. \A j \in 1..Len(wire[p]) : wire[p][j].type = "cmd" =>
          /\ incoming_streams[p][wire[p][j].id] = wire[p][j].cmd
          /\ wire[p][j].cmd # c
    BY <1>2, <1>3, Zenon DEF Delivery, Outbound, OutReg, NotSent, NoCmd
  <2>2. \A j \in 1..Len(wire[p]) : wire[p][j].type = "cmd" =>
          wire[p][j].cmd \in Cmds
    BY <1>2, MessageShape, ElementOfSeq
  <2>3. \A d \in Cmds : owner[d] = p /\ stream[d].loop = "running" =>
          incoming_streams[p][stream[d].id] = d
    BY <1>2, Zenon DEF Delivery, Loops, Running
  <2> QED
    BY <1>3, <1>9, <2>1, <2>2, <2>3, Zenon
<1>16. Outbound'
  <2> SUFFICES ASSUME NEW q \in Peers
               PROVE  /\ OutOK(wire'[q], q, stream, owner)
                      /\ Up(q)' => OutReg(wire'[q], incoming_streams'[q])
    BY Zenon DEF Outbound
  <2>1. OutOK(wire[q], q, stream, owner)
        /\ (Up(q) => OutReg(wire[q], incoming_streams[q]))
    BY Zenon DEF Delivery, Outbound
  <2>2. CASE q # p
    <3>1. incoming_streams'[q] = incoming_streams[q] /\ wire'[q] = wire[q]
      BY <1>5, <1>8, <2>2
    <3> QED
      BY <1>6, <2>1, <3>1
  <2>3. CASE q = p
    <3>1. ASSUME wire'[p] = Append(wire[p], m)
          PROVE  OutOK(wire'[p], p, stream, owner)
      <4>1. OutOK(wire[p], p, stream, owner) /\ wire[p] \in Seq(Message)
        BY <1>2, <2>1, <2>3
      <4>2. owner[m.cmd] = p /\ stream[m.cmd] = NoLoop
        BY <1>2, <1>3, <1>4 DEF NotSent
      <4>3. /\ \A k \in 1..Len(wire[p]) : wire[p][k].type = "cmd" =>
                 wire[p][k].id # m.id /\ wire[p][k].cmd # m.cmd
            /\ \A d \in Cmds : owner[d] = p /\ stream[d].loop = "running" =>
                 stream[d].id # m.id
        BY <1>4, <1>15, Zenon
      <4>4. OutOK(Append(wire[p], m), p, stream, owner)
        BY <1>4, <4>1, <4>2, <4>3, OutAppendCmd, Zenon
      <4> QED
        BY <3>1, <4>4
    <3>2. OutReg(wire'[p], incoming_streams'[p])
      <4>1. \A j \in 1..Len(wire[p]) : wire[p][j].type = "cmd" =>
              incoming_streams'[p][wire[p][j].id] = wire[p][j].cmd
        <5>1. \A j \in 1..Len(wire[p]) : wire[p][j].id \in Ids
          BY <1>2, MessageShape, ElementOfSeq
        <5>2. OutReg(wire[p], incoming_streams[p])
          BY <1>2, <2>1, <2>3
        <5> QED
          BY <1>5, <1>15, <5>1, <5>2 DEF OutReg
      <4>2. CASE wire'[p] = wire[p]
        BY <4>1, <4>2 DEF OutReg
      <4>3. CASE wire'[p] = Append(wire[p], m)
        <5>1. /\ Len(wire[p]) \in Nat /\ Len(wire'[p]) = Len(wire[p]) + 1
              /\ \A j \in 1..Len(wire[p]) : wire'[p][j] = wire[p][j]
              /\ wire'[p][Len(wire[p]) + 1] = m
          BY <1>2, <1>4, <4>3, LenProperties, AppendProperties
        <5>2. \A j \in 1..Len(wire'[p]) :
                \/ j \in 1..Len(wire[p]) /\ wire'[p][j] = wire[p][j]
                \/ wire'[p][j] = m
          BY <5>1
        <5>3. incoming_streams'[p][m.id] = m.cmd
          BY <1>4, <1>5
        <5> QED
          BY <4>1, <5>2, <5>3, Zenon DEF OutReg
      <4> QED
        BY <1>8, <4>2, <4>3
    <3> QED
      BY <1>8, <2>1, <2>3, <3>1, <3>2, Zenon
  <2> QED
    BY <2>2, <2>3
<1>17. Loops'
  <2>1. ASSUME NEW d \in Cmds, Running(d), Up(owner[d])'
        PROVE  incoming_streams'[owner[d]][stream[d].id] = d
    <3>1. /\ owner[d] \in Peers /\ stream[d].id \in Ids
          /\ incoming_streams[owner[d]][stream[d].id] = d
      BY <1>2, <1>6, <2>1 DEF Delivery, Loops, LoopsHaveIds
    <3>2. owner[d] = p => stream[d].id # i
      BY <1>15, <2>1 DEF Running
    <3> QED
      BY <1>5, <3>1, <3>2
  <2> QED
    BY <2>1, Zenon DEF Delivery, Loops, Running
<1>18. Inbound'
  <2> SUFFICES ASSUME NEW q \in Peers, Up(q)'
               PROVE  /\ InOK(wire'[Other(q)], incoming_streams'[q], stream,
                              client, Del)
                      /\ output_open[Other(q)] =>
                           InAll(wire'[Other(q)], q, stream, client, Del,
                                 owner)
    BY <1>7, Zenon DEF Inbound
  <2>1. Up(q)
    BY <1>6
  <2>2. CASE q = p
    <3>1. wire'[Other(q)] = wire[Other(q)]
      BY <1>8, <2>2, TwoPeers
    <3>2. \A k \in Ids : incoming_streams[p][k] # None =>
            incoming_streams'[p][k] = incoming_streams[p][k]
      BY <1>5, <1>14, Zenon
    <3>3. /\ InOK(wire[Other(q)], incoming_streams[p], stream, client, Del)
          /\ output_open[Other(q)] =>
               InAll(wire[Other(q)], q, stream, client, Del, owner)
      BY <2>1, <2>2 DEF Delivery, Inbound
    <3>4. /\ wire[Other(q)] \in Seq(Message)
          /\ incoming_streams[p] \in [Ids -> Cmds \cup {None}]
      BY <1>2
    <3>5. InOK(wire[Other(q)], incoming_streams'[p], stream, client, Del)
      BY <3>2, <3>3, <3>4, InFrame
    <3> QED
      BY <2>2, <3>1, <3>3, <3>5
  <2>3. CASE q # p
    <3>1. Other(q) = p /\ incoming_streams'[q] = incoming_streams[q]
      BY <1>5, <2>3, TwoPeers
    <3>2. InKept(q, wire[Other(q)], output_open[Other(q)])
      BY <2>1, InSame
    <3>3. InKept(q, Append(wire[Other(q)], m), output_open[Other(q)])
      BY <1>4, <2>1, InSentOther
    <3>4. InKept(q, wire'[Other(q)], output_open[Other(q)])
      BY <1>8, <3>1, <3>2, <3>3
    <3> QED
      BY <3>1, <3>4 DEF InKept
  <2> QED
    BY <2>2, <2>3
<1>19. Got' /\ Clean' /\ NoStray'
  BY <1>6, <1>7 DEF Delivery, Got, Clean, NoStray
<1>20. Ended'
  <2> SUFFICES ASSUME NEW d \in Cmds, client[d] = "ended"
               PROVE  /\ slot[d] = <<>>
                      /\ \A k \in Ids : incoming_streams'[owner[d]][k] # d
    BY <1>7, Zenon DEF Ended
  <2>1. /\ slot[d] = <<>> /\ d # c
        /\ \A k \in Ids : incoming_streams[owner[d]][k] # d
    BY <1>3 DEF Delivery, Ended
  <2>2. CASE owner[d] = p
    BY <1>5, <2>1, <2>2
  <2>3. CASE owner[d] # p
    <3>1. owner[d] \in Peers \ {p}
      BY <1>2, <2>3
    <3>2. incoming_streams'[owner[d]] = incoming_streams[owner[d]]
      BY <1>5, <3>1, Zenon
    <3> QED
      BY <2>1, <3>2
  <2> QED
    BY <2>1, <2>2, <2>3
<1> QED
  BY <1>12, <1>13, <1>16, <1>17, <1>18, <1>19, <1>20 DEF Delivery

(* Lemma: the broker sends a command.                                      *)
LEMMA DeliverySend ==
  ASSUME RpcIInv, RpcIInv', Delivery, NEW p \in Peers,
         SendCommand(p) \/ SendCommandClosed(p)
  PROVE  Delivery'
<1>1. PICK m : m = [type |-> "cmd", id |-> broker[p].id,
                    cmd |-> broker[p].cmd]
  OBVIOUS
<1>2. CASE SendCommand(p)
  BY <1>1, <1>2, DeliveryRegister DEF SendCommand
<1>3. CASE SendCommandClosed(p)
  <2>1. UNCHANGED <<owner, wire, output_open, clean_end, stream>>
    BY <1>3 DEF SendCommandClosed, wireVars
  <2>2. CASE Stop(p)
    <3>1. PICK w : w = wire'
      OBVIOUS
    <3>2. /\ OutKept(w)
          /\ \A q \in Peers :
               Up(q) => InKept(q, w[Other(q)], output_open[Other(q)])
      BY <2>1, <3>1, SameKept
    <3> QED
      BY <2>1, <2>2, <3>1, <3>2, DeliveryStop, Zenon
  <2>3. CASE Register(p) /\ Goto(p, "idle", None, None) /\ UNCHANGED clientVars
    BY <1>1, <1>3, <2>1, <2>3, DeliveryRegister DEF SendCommandClosed
  <2> QED
    BY <1>3, <2>2, <2>3 DEF SendCommandClosed
<1> QED
  BY <1>2, <1>3

-----------------------------------------------------------------------------
(* Lemma: a handler or its loop goes on, and at most a response or an end  *)
(* is sent.                                                                *)
LEMMA DeliveryStream ==
  ASSUME RpcIInv, RpcIInv', Delivery, NEW c \in Cmds, Running(c),
         UNCHANGED <<owner, broker, incoming_streams, output_open, client,
                     slot, got, clean_end>>,
         NEW st, st = stream',
         \A d \in Cmds \ {c} : st[d] = stream[d],
         \/ st[c].loop = "done"
         \/ st[c].loop = "running" /\ st[c].id = stream[c].id,
         stream[c].sent <= st[c].sent,
         NEW w, w = wire', OutKept(w),
         \A q \in Peers : Up(q) =>
           /\ InOK(w[Other(q)], incoming_streams[q], st, client, Del)
           /\ output_open[Other(q)] =>
                InAll(w[Other(q)], q, st, client, Del, owner)
  PROVE  Delivery'
<1>1. /\ TypeOK /\ TypeOK' /\ BrokerHolds /\ LoopsHaveIds
      /\ \A d \in Cmds : owner[d] \in Peers
      /\ \A q \in Peers : w[q] \in Seq(Message)
      /\ stream \in [Cmds -> LoopState] /\ st \in [Cmds -> LoopState]
  BY RpcAssumption DEF RpcIInv, TypeOK
<1>2. Del' = Del
  BY DEF Del
<1>3. \A d \in Cmds : stream[d] = NoLoop => d # c /\ st[d] = NoLoop
  BY DEF Running, NoLoop
<1>4. ASSUME NEW q \in Peers, NEW d \in Cmds,
             NotSent(d, stream, incoming_streams[q], wire[q])
      PROVE  NotSent(d, stream', incoming_streams'[q], wire'[q])
  BY <1>3, <1>4, Zenon DEF NotSent, OutKept
<1>5. Unsent'
  BY <1>1, <1>4, Zenon DEF Delivery, Unsent
<1>6. Sending'
  <2> SUFFICES ASSUME NEW q \in Peers, broker[q].pc = "sendCommand"
               PROVE  /\ NotSent(broker[q].cmd, stream',
                                 incoming_streams'[q], wire'[q])
                      /\ client[broker[q].cmd]
                           \notin {"idle", "queued", "ended"}
                      /\ incoming_streams[q][broker[q].id] = None
    BY Zenon DEF Sending
  <2>1. broker[q].cmd \in Cmds
    BY <1>1 DEF BrokerHolds
  <2> QED
    BY <1>4, <2>1, Zenon DEF Delivery, Sending
<1>7. Outbound'
  <2> SUFFICES ASSUME NEW q \in Peers
               PROVE  /\ OutOK(w[q], q, st, owner)
                      /\ Up(q) => OutReg(w[q], incoming_streams[q])
    BY Zenon DEF Outbound, Up
  <2>1. /\ OutOK(w[q], q, stream, owner)
        /\ Up(q) => OutReg(w[q], incoming_streams[q])
    BY Zenon DEF OutKept
  <2>2. \A j \in 1..Len(w[q]) : w[q][j].type = "cmd" =>
          w[q][j].cmd \in Cmds
    BY <1>1, MessageShape, ElementOfSeq
  <2>3. \A j \in 1..Len(w[q]) : w[q][j].type = "cmd" =>
          st[w[q][j].cmd] = stream[w[q][j].cmd]
    BY <1>3, <2>1, <2>2, Zenon DEF OutOK
  <2>4. \A d \in Cmds : owner[d] = q /\ st[d].loop = "running" =>
          \/ stream[d].loop = "running" /\ st[d].id = stream[d].id
          \/ \A j \in 1..Len(w[q]) : w[q][j].type = "cmd" =>
               w[q][j].id # st[d].id
    BY DEF Running
  <2>5. OutOK(w[q], q, st, owner)
    <3>1. PICK v \in Seq(Message) : v = w[q]
      BY <1>1
    <3>2. /\ OutOK(v, q, stream, owner)
          /\ \A j \in 1..Len(v) : v[j].type = "cmd" =>
               st[v[j].cmd] = stream[v[j].cmd]
          /\ \A d \in Cmds : owner[d] = q /\ st[d].loop = "running" =>
               \/ stream[d].loop = "running" /\ st[d].id = stream[d].id
               \/ \A j \in 1..Len(v) : v[j].type = "cmd" =>
                    v[j].id # st[d].id
      BY <2>1, <2>3, <2>4, <3>1
    <3>3. OutOK(v, q, st, owner)
      BY <3>2, OutFrame, ZenonT(30)
    <3> QED
      BY <3>1, <3>3
  <2> QED
    BY <2>1, <2>5, Zenon
<1>8. Loops'
  <2>1. \A d \in Cmds : st[d].loop = "running" =>
          stream[d].loop = "running" /\ st[d].id = stream[d].id
    BY DEF Running
  <2>2. \A d \in Cmds : st[d].loop = "none" => st[d] = NoLoop
    <3>1. \A d \in Cmds : st[d].loop = "none" => d # c
      BY <1>1
    <3> QED
      BY <3>1 DEF Delivery, Loops
  <2>3. ASSUME NEW d \in Cmds, st[d].loop = "running", Up(owner[d])
        PROVE  incoming_streams[owner[d]][st[d].id] = d
    BY <2>1, <2>3 DEF Delivery, Loops, Running
  <2>4. ASSUME NEW d \in Cmds, NEW e \in Cmds, st[d].loop = "running",
               st[e].loop = "running", owner[d] = owner[e],
               st[d].id = st[e].id
        PROVE  d = e
    BY <2>1, <2>4 DEF Delivery, Loops, Running
  <2> QED
    BY <2>2, <2>3, <2>4, Zenon DEF Loops, Running, Up
<1>9. Inbound'
  BY <1>2, Zenon DEF Inbound, Up
<1>10. Got'
  <2>1. ASSUME NEW d \in Cmds PROVE Del[d] <= st[d].sent
    <3>1. /\ Del[d] \in Nat /\ stream[d].sent \in Nat /\ st[d].sent \in Nat
      BY <1>1, DelType DEF LoopState
    <3>2. Del[d] <= stream[d].sent
      BY Zenon DEF Delivery, Got
    <3>3. stream[d].sent <= st[d].sent
      BY <3>1
    <3>4. \A x, y, z \in Nat : x <= y /\ y <= z => x <= z
      OBVIOUS
    <3> QED
      BY <3>1, <3>2, <3>3, <3>4, Zenon
  <2> QED
    BY <1>2, <2>1, Zenon DEF Delivery, Got
<1>11. Clean'
  <2>1. \A d \in Cmds : clean_end[d] => d # c /\ st[d] = stream[d]
    BY DEF Delivery, Clean, Running
  <2> QED
    BY <1>2, <2>1, Zenon DEF Delivery, Clean
<1>12. Ended' /\ NoStray'
  BY Zenon DEF Delivery, Ended, NoStray
<1> QED
  BY <1>5, <1>6, <1>7, <1>8, <1>9, <1>10, <1>11, <1>12 DEF Delivery

(* Lemma: a handler produces a response or closes its stream, or its loop  *)
(* meets a closed output.                                                  *)
LEMMA DeliveryServe ==
  ASSUME RpcIInv, RpcIInv', Delivery, NEW c \in Cmds,
         HandlerEmits(c) \/ HandlerCloses(c) \/ LoopFails(c)
  PROVE  Delivery'
<1>1. /\ UNCHANGED <<owner, broker, incoming_streams, output_open, client,
                     slot, got, clean_end, wire>>
      /\ TypeOK /\ stream \in [Cmds -> LoopState] /\ Running(c)
      /\ incoming_streams \in [Peers -> [Ids -> Cmds \cup {None}]]
      /\ \A q \in Peers : wire[Other(q)] \in Seq(Message)
  BY TwoPeers DEF HandlerEmits, HandlerCloses, LoopFails, tableVars, wireVars,
                  clientVars, RpcIInv, TypeOK
<1>2. PICK st : st = stream'
  OBVIOUS
<1>3. PICK w : w = wire'
  OBVIOUS
<1>4. /\ \A d \in Cmds \ {c} : st[d] = stream[d]
      /\ \/ st[c].loop = "done"
         \/ st[c].loop = "running" /\ st[c].id = stream[c].id
      /\ st[c].sent = stream[c].sent
  BY <1>1, <1>2 DEF HandlerEmits, HandlerCloses, LoopFails, LoopState, Running
<1>5. OutKept(w)
  BY <1>1, <1>3, SameKept
<1>6. /\ \A d \in Cmds : st[d].sent = stream[d].sent
      /\ \A d \in Cmds : stream[d].loop = "done" => st[d] = stream[d]
      /\ stream[c].sent <= st[c].sent
  BY <1>1, <1>4, SMTT(20) DEF Running, LoopState
<1>7. ASSUME NEW q \in Peers, Up(q)
      PROVE  /\ InOK(w[Other(q)], incoming_streams[q], st, client, Del)
             /\ output_open[Other(q)] =>
                  InAll(w[Other(q)], q, st, client, Del, owner)
  <2>1. /\ InOK(wire[Other(q)], incoming_streams[q], stream, client, Del)
        /\ output_open[Other(q)] =>
             InAll(wire[Other(q)], q, stream, client, Del, owner)
    BY <1>7, InSame DEF InKept
  <2>2. InOK(wire[Other(q)], incoming_streams[q], st, client, Del)
    <3>1. /\ wire[Other(q)] \in Seq(Message)
          /\ incoming_streams[q] \in [Ids -> Cmds \cup {None}]
      BY <1>1
    <3>2. \A d \in Cmds, n \in 1..MaxResponses :
            n <= stream[d].sent => n <= st[d].sent
      BY <1>6, Zenon
    <3> QED
      BY <1>6, <2>1, <3>1, <3>2, InFrame
  <2>3. output_open[Other(q)] =>
          InAll(wire[Other(q)], q, st, client, Del, owner)
    BY <1>6, <2>1, InAllFrame
  <2> QED
    BY <1>1, <1>3, <2>2, <2>3
<1> QED
  BY <1>1, <1>2, <1>3, <1>4, <1>5, <1>6, <1>7, DeliveryStream, Zenon

(* Lemma: a loop sends the next response, or the end behind the last one.  *)
LEMMA DeliveryLoop ==
  ASSUME RpcIInv, RpcIInv', Delivery, NEW c \in Cmds,
         LoopSendsResponse(c) \/ LoopSendsEnd(c)
  PROVE  Delivery'
<1>1. /\ UNCHANGED <<owner, broker, incoming_streams, output_open, client,
                     slot, got, clean_end>>
      /\ TypeOK /\ TypeOK' /\ Running(c) /\ LoopsHaveIds
      /\ stream \in [Cmds -> LoopState] /\ stream' \in [Cmds -> LoopState]
      /\ incoming_streams \in [Peers -> [Ids -> Cmds \cup {None}]]
      /\ wire \in [Peers -> Seq(Message)]
      /\ \A q \in Peers : wire[Other(q)] \in Seq(Message)
  BY TwoPeers DEF LoopSendsResponse, LoopSendsEnd, tableVars, clientVars,
                  RpcIInv, TypeOK
<1>2. PICK s \in Peers, o \in Peers :
        /\ s = Server(c) /\ o = owner[c] /\ s = Other(o) /\ o = Other(s)
        /\ s # o /\ \A q \in Peers : q # o => Other(q) # s
  <2>1. owner[c] \in Peers
    BY <1>1, RpcAssumption DEF TypeOK
  <2>2. /\ Other(owner[c]) \in Peers /\ Other(Other(owner[c])) = owner[c]
        /\ Other(owner[c]) # owner[c]
    BY <2>1, TwoPeers
  <2>3. \A q \in Peers : q # owner[c] => Other(q) # Other(owner[c])
    BY <2>1, TwoPeers
  <2> QED
    BY <2>1, <2>2, <2>3 DEF Server
<1>3. PICK st \in [Cmds -> LoopState] : st = stream'
  BY <1>1
<1>4. PICK w : w = wire'
  OBVIOUS
<1>5. output_open[s]
  BY <1>2 DEF LoopSendsResponse, LoopSendsEnd, CanSend
<1>6. /\ stream[c].loop = "running" /\ stream[c].id \in Ids
      /\ stream[c].sent \in Nat /\ stream[c].emitted \in Nat
      /\ stream[c].emitted <= MaxResponses /\ MaxResponses \in Nat
      /\ Del[c] \in Nat /\ Del[c] <= stream[c].sent
  BY <1>1, DelType, RpcAssumption DEF TypeOK, LoopState, LoopsHaveIds,
     Running, Delivery, Got
<1>7. Up(o) => incoming_streams[o][stream[c].id] = c
  BY <1>1, <1>2 DEF Delivery, Loops
<1>8. PICK m \in Message :
        /\ m.type \in {"resp", "end"} /\ m.id = stream[c].id
        /\ w = [wire EXCEPT ![s] = Append(@, m)]
        /\ m.type = "resp" => /\ m.payload = <<c, stream[c].sent + 1>>
                              /\ stream[c].sent < stream[c].emitted
                              /\ st = [stream EXCEPT ![c].sent = @ + 1]
        /\ m.type = "end" => /\ stream[c].sent = stream[c].emitted
                             /\ st = [stream EXCEPT ![c].loop = "done"]
  <2>1. CASE LoopSendsResponse(c)
    <3>1. PICK m : m = [type |-> "resp", id |-> stream[c].id,
                        payload |-> <<c, stream[c].sent + 1>>]
      OBVIOUS
    <3>2. stream[c].sent < stream[c].emitted
      BY <2>1 DEF LoopSendsResponse
    <3>3. stream[c].sent + 1 \in 1..MaxResponses
      BY <1>6, <3>2
    <3>4. m \in Message
      BY <1>6, <3>1, <3>3 DEF Message, Response
    <3> QED
      BY <1>2, <1>3, <1>4, <2>1, <3>1, <3>2, <3>4 DEF LoopSendsResponse
  <2>2. CASE LoopSendsEnd(c)
    <3>1. PICK m : m = [type |-> "end", id |-> stream[c].id]
      OBVIOUS
    <3>2. m \in Message
      BY <1>6, <3>1 DEF Message
    <3> QED
      BY <1>2, <1>3, <1>4, <2>2, <3>1, <3>2 DEF LoopSendsEnd
  <2> QED
    BY <2>1, <2>2
<1>9. /\ \A d \in Cmds \ {c} : st[d] = stream[d]
      /\ \/ st[c].loop = "done"
         \/ st[c].loop = "running" /\ st[c].id = stream[c].id
      /\ m.type = "end" => st[c].loop = "done" /\ st[c].sent = stream[c].sent
                             /\ st[c].emitted = stream[c].emitted
      /\ m.type = "resp" => st[c].sent = stream[c].sent + 1
      /\ m.type = "end" \/ m.type = "resp"
  BY <1>1, <1>6, <1>8 DEF LoopState
<1>10. /\ stream[c].sent <= st[c].sent
       /\ \A d \in Cmds : stream[d].sent <= st[d].sent
       /\ \A d \in Cmds, n \in 1..MaxResponses :
            n <= stream[d].sent => n <= st[d].sent
       /\ \A d \in Cmds : stream[d].loop = "done" => st[d] = stream[d]
  <2>1. st[c].sent = stream[c].sent \/ st[c].sent = stream[c].sent + 1
    BY <1>9
  <2>2. ASSUME NEW d \in Cmds PROVE stream[d].sent <= st[d].sent
    <3>1. stream[d].sent \in Nat
      BY <1>1 DEF LoopState
    <3> QED
      BY <1>9, <2>1, <3>1
  <2>3. ASSUME NEW d \in Cmds, NEW n \in 1..MaxResponses, n <= stream[d].sent
        PROVE  n <= st[d].sent
    <3>1. /\ stream[d].sent \in Nat /\ st[d].sent \in Nat /\ n \in Nat
          /\ stream[d].sent <= st[d].sent
      BY <1>1, <2>2 DEF LoopState
    <3> QED
      BY <2>3, <3>1
  <2>4. \A d \in Cmds : stream[d].loop = "done" => st[d] = stream[d]
    BY <1>6, <1>9
  <2> QED
    BY <2>2, <2>3, <2>4
<1>11. OutKept(w)
  <2>1. m.type # "cmd"
    BY <1>8
  <2> QED
    BY <1>1, <1>8, <2>1, OutSent DEF Delivery
<1>12. /\ w[s] = Append(wire[s], m)
       /\ \A q \in Peers : q # s => w[q] = wire[q]
  BY <1>1, <1>8
<1>13. ASSUME NEW q \in Peers, Up(q)
       PROVE  /\ InOK(wire[Other(q)], incoming_streams[q], stream, client, Del)
              /\ output_open[Other(q)] =>
                   InAll(wire[Other(q)], q, stream, client, Del, owner)
  BY <1>13, InSame DEF InKept
<1>14. ASSUME Up(o)
       PROVE  /\ InOK(w[s], incoming_streams[o], st, client, Del)
              /\ InAll(w[s], o, st, client, Del, owner)
  <2>1. PICK v \in Seq(Message) : v = wire[s]
    BY <1>1
  <2>2. PICK inc : inc = incoming_streams[o] /\ inc[m.id] = c
    BY <1>7, <1>8, <1>14
  <2>3. /\ InOK(v, inc, stream, client, Del)
        /\ InAll(v, o, stream, client, Del, owner)
    BY <1>2, <1>5, <1>13, <1>14, <2>1, <2>2
  <2>4. Del \in [Cmds -> Nat]
    BY <1>1, DelType
  <2>5. \A n \in 1..MaxResponses :
          client[c] # "dropped" /\ Del[c] < n /\ n <= stream[c].sent
            => Carries(v, Len(v), c, n)
    BY <1>2, <2>3, Zenon DEF InAll
  <2>6. \A d, n : IsResp(m, d, n) =>
          d = c /\ n = stream[c].sent + 1 /\ m.type = "resp"
    <3>1. \A d, n : <<d, n>> = <<c, stream[c].sent + 1>> =>
            d = c /\ n = stream[c].sent + 1
      OBVIOUS
    <3> QED
      BY <1>8, <3>1, Zenon DEF IsResp
  <2>7. ASSUME NEW d \in Cmds, NEW n \in 1..MaxResponses, IsResp(m, d, n)
        PROVE  /\ inc[m.id] = d /\ stream[d].sent < n /\ n <= st[d].sent
               /\ client[d] # "dropped" =>
                    /\ Del[d] < n
                    /\ n = Del[d] + 1 \/ Carries(v, Len(v), d, n - 1)
    <3>1. d = c /\ n = stream[c].sent + 1 /\ m.type = "resp"
      BY <2>6, <2>7, Zenon
    <3>2. /\ stream[c].sent < n /\ n <= st[c].sent /\ Del[c] < n
          /\ n = Del[c] + 1
               \/ (/\ n - 1 \in 1..MaxResponses /\ Del[c] < n - 1
                   /\ n - 1 <= stream[c].sent)
      BY <1>6, <1>9, <3>1
    <3> QED
      BY <2>2, <2>5, <3>1, <3>2, Zenon
  <2>8. /\ m.type \in {"resp", "end"} =>
             inc[m.id] \in Cmds /\ stream[inc[m.id]].loop # "done"
        /\ m.type = "end" =>
             /\ st[inc[m.id]].loop = "done"
             /\ st[inc[m.id]].sent = st[inc[m.id]].emitted
             /\ client[inc[m.id]] # "dropped" =>
                  \A n \in 1..MaxResponses :
                    Del[inc[m.id]] < n /\ n <= st[inc[m.id]].sent
                      => Carries(v, Len(v), inc[m.id], n)
    BY <1>6, <1>8, <1>9, <2>2, <2>5
  <2>9. InOK(Append(v, m), inc, st, client, Del)
    BY <1>1, <1>10, <2>3, <2>4, <2>7, <2>8, InAppend, Zenon
  <2>10. ASSUME NEW d \in Cmds, NEW n \in 1..MaxResponses, n <= st[d].sent
         PROVE  n <= stream[d].sent \/ IsResp(m, d, n)
    <3>1. CASE d = c /\ m.type = "resp"
      <4>1. n <= stream[c].sent \/ n = stream[c].sent + 1
        BY <1>6, <1>9, <2>10, <3>1
      <4> QED
        BY <1>8, <3>1, <4>1 DEF IsResp
    <3>2. CASE d # c \/ m.type = "end"
      BY <1>9, <2>10, <3>2
    <3> QED
      BY <1>9, <3>1, <3>2
  <2>11. InAll(Append(v, m), o, st, client, Del, owner)
    BY <1>1, <2>3, <2>10, InAllAppend, Zenon
  <2> QED
    BY <1>12, <2>1, <2>2, <2>9, <2>11
<1>15. ASSUME NEW q \in Peers, Up(q)
       PROVE  /\ InOK(w[Other(q)], incoming_streams[q], st, client, Del)
              /\ output_open[Other(q)] =>
                   InAll(w[Other(q)], q, st, client, Del, owner)
  <2>1. CASE q = o
    BY <1>2, <1>14, <1>15, <2>1
  <2>2. CASE q # o
    <3>1. PICK v \in Seq(Message) : v = wire[Other(q)]
      BY <1>1
    <3>2. w[Other(q)] = v
      BY <1>2, <1>12, <2>2, <3>1, TwoPeers
    <3>3. PICK inc \in [Ids -> Cmds \cup {None}] : inc = incoming_streams[q]
      BY <1>1
    <3>4. /\ InOK(v, inc, stream, client, Del)
          /\ output_open[Other(q)] =>
               InAll(v, q, stream, client, Del, owner)
      BY <1>13, <1>15, <3>1, <3>3
    <3>5. InOK(v, inc, st, client, Del)
      BY <1>10, <3>4, InFrame
    <3>6. \A d \in Cmds : owner[d] = q => st[d].sent = stream[d].sent
      BY <1>2, <1>9, <2>2
    <3>7. output_open[Other(q)] => InAll(v, q, st, client, Del, owner)
      BY <3>4, <3>6, InAllFrame
    <3> QED
      BY <3>2, <3>3, <3>5, <3>7
  <2> QED
    BY <2>1, <2>2
<1>16. /\ UNCHANGED <<owner, broker, incoming_streams, output_open, client,
                      slot, got, clean_end>>
       /\ Running(c) /\ stream[c].sent <= st[c].sent
       /\ \A d \in Cmds \ {c} : st[d] = stream[d]
       /\ \/ st[c].loop = "done"
          \/ st[c].loop = "running" /\ st[c].id = stream[c].id
  BY <1>1, <1>9, <1>10, Zenon
<1> QED
  BY <1>3, <1>4, <1>11, <1>15, <1>16, DeliveryStream, Zenon

-----------------------------------------------------------------------------
(* Lemma: a command arrives: it is refused, rejected, or its loop starts   *)
(* under an id no other loop of the endpoint has.                          *)
LEMMA DeliveryTakeCommand ==
  ASSUME RpcIInv, RpcIInv', Delivery, NEW p \in Peers, TakeCommand(p)
  PROVE  Delivery'
<1>1. /\ UNCHANGED <<owner, incoming_streams, output_open, client, slot, got,
                     clean_end>>
      /\ CanTake(p, "cmd") /\ IsIdle(p)
      /\ TypeOK /\ TypeOK' /\ BrokerHolds /\ LoopsHaveIds
      /\ wire \in [Peers -> Seq(Message)] /\ wire' = WireAfterTake(p)
      /\ stream \in [Cmds -> LoopState] /\ stream' \in [Cmds -> LoopState]
      /\ incoming_streams \in [Peers -> [Ids -> Cmds \cup {None}]]
      /\ broker \in [Peers -> BrokerState]
      /\ \A d \in Cmds : owner[d] \in Peers
  BY RpcAssumption DEF TakeCommand, Take, CanTake, clientVars, RpcIInv, TypeOK
<1>2. PICK w : w = wire' /\ w = WireAfterTake(p)
  BY <1>1
<1>3. /\ OutKept(w)
      /\ \A q \in Peers :
           Up(q) => InKept(q, w[Other(q)], output_open[Other(q)])
  BY <1>1, <1>2, TakeKept
<1>4. CASE /\ stream' = stream
           /\ \E pc \in {"sendRefusal", "sendReject"} :
                Goto(p, pc, None, Incoming(p).id)
  <2>1. /\ broker'[p].pc \in {"sendRefusal", "sendReject"}
        /\ \A q \in Peers \ {p} : broker'[q] = broker[q]
    BY <1>1, <1>4 DEF Goto
  <2>2. \A q \in Peers :
          /\ Up(q)' => Up(q)
          /\ broker'[q].pc # "sendStray"
          /\ broker'[q].pc = "sendCommand" => broker'[q] = broker[q]
    BY <1>1, <2>1 DEF Up, Delivery, NoStray, IsIdle
  <2>3. PICK open : open = output_open' /\ open = output_open
    BY <1>1
  <2>4. UNCHANGED <<owner, stream, clean_end, incoming_streams, client,
                    slot, got>>
    BY <1>1, <1>4
  <2> QED
    BY <1>2, <1>3, <2>2, <2>3, <2>4, DeliveryQuiet, Zenon
<1>5. CASE /\ broker' = broker
           /\ stream' = [stream EXCEPT ![Incoming(p).cmd] =
                [NoLoop EXCEPT !.loop = "running", !.id = Incoming(p).id]]
  <2>1. PICK s \in Peers : s = Other(p) /\ s # p /\ Other(s) = p
    BY TwoPeers
  <2>2. PICK u \in Seq(Message) : u = wire[s] /\ u # <<>>
    BY <1>1, <2>1 DEF CanTake
  <2>3. PICK v \in Seq(Message) : v = Tail(u)
    BY <2>2, TailShape
  <2>4. /\ \A j \in 1..Len(v) : /\ v[j] = u[j + 1] /\ j + 1 \in 1..Len(u)
                                /\ j + 1 # 1
        /\ Head(u) = u[1] /\ u[1] \in Message /\ 1 \in 1..Len(u)
    <3>1. \A j \in 1..Len(v) : j + 1 # 1
      OBVIOUS
    <3> QED
      BY <2>2, <2>3, <3>1, TailShape
  <2>5. w[s] = v /\ \A q \in Peers \ {s} : w[q] = wire[q]
    BY <1>1, <1>2, <2>1, <2>2, <2>3 DEF WireAfterTake
  <2>6. PICK c \in Cmds, i \in Ids :
          /\ u[1].type = "cmd" /\ u[1].cmd = c /\ u[1].id = i
          /\ c = Incoming(p).cmd /\ i = Incoming(p).id
    BY <1>1, <2>1, <2>2, <2>4, MessageShape DEF CanTake, Incoming
  <2>7. /\ owner[c] = s /\ stream[c] = NoLoop
        /\ \A k \in 1..Len(u) :
             u[k].type = "cmd" /\ (u[k].id = i \/ u[k].cmd = c) => k = 1
        /\ \A d \in Cmds :
             owner[d] = s /\ stream[d].loop = "running" => stream[d].id # i
        /\ Up(s) => incoming_streams[s][i] = c
    <3>1. /\ OutOK(u, s, stream, owner)
          /\ Up(s) => OutReg(u, incoming_streams[s])
      BY <2>2, Zenon DEF Delivery, Outbound
    <3> QED
      BY <2>4, <2>6, <3>1, ZenonT(30) DEF OutOK, OutReg
  <2>8. PICK st \in [Cmds -> LoopState] : st = stream'
    BY <1>1
  <2>9. /\ st[c].loop = "running" /\ st[c].id = i /\ st[c].sent = 0
        /\ \A d \in Cmds \ {c} : st[d] = stream[d]
    BY <1>1, <1>5, <2>6, <2>8 DEF NoLoop
  <2>10. stream[c].loop = "none" /\ stream[c].sent = 0
    BY <2>7 DEF NoLoop
  <2>11. \A j \in 1..Len(v) : v[j].type = "cmd" =>
           v[j].cmd # c /\ v[j].id # i
    BY <2>4, <2>7, Zenon
  <2>12. ASSUME NEW d \in Cmds,
                NotSent(d, stream, incoming_streams[owner[d]],
                        wire[owner[d]])
         PROVE  NotSent(d, stream', incoming_streams'[owner[d]],
                        wire'[owner[d]])
    <3>1. d # c
      <4>1. SUFFICES ASSUME d = c PROVE FALSE
        OBVIOUS
      <4>2. NoCmd(u, c)
        BY <2>2, <2>7, <2>12, <4>1 DEF NotSent
      <4> QED
        BY <2>4, <2>6, <4>2, Zenon DEF NoCmd
    <3>2. /\ st[d] = NoLoop
          /\ \A k \in Ids : incoming_streams[owner[d]][k] # d
          /\ NoCmd(w[owner[d]], d)
      BY <1>1, <1>3, <2>9, <2>12, <3>1 DEF NotSent, OutKept
    <3> QED
      BY <1>1, <1>2, <2>8, <3>2, Zenon DEF NotSent
  <2>13. Unsent'
    BY <1>1, <2>12, Zenon DEF Delivery, Unsent
  <2>14. Sending'
    <3> SUFFICES ASSUME NEW q \in Peers, broker[q].pc = "sendCommand"
                 PROVE  /\ NotSent(broker[q].cmd, stream',
                                   incoming_streams'[q], wire'[q])
                        /\ client[broker[q].cmd]
                             \notin {"idle", "queued", "ended"}
                        /\ incoming_streams[q][broker[q].id] = None
      BY <1>1, <1>5, Zenon DEF Sending
    <3>1. broker[q].cmd \in Cmds /\ owner[broker[q].cmd] = q
      BY <1>1 DEF BrokerHolds
    <3>2. /\ NotSent(broker[q].cmd, stream, incoming_streams[q], wire[q])
          /\ client[broker[q].cmd] \notin {"idle", "queued", "ended"}
          /\ incoming_streams[q][broker[q].id] = None
      BY DEF Delivery, Sending
    <3>3. NotSent(broker[q].cmd, stream', incoming_streams'[q], wire'[q])
      BY <2>12, <3>1, <3>2, Zenon
    <3> QED
      BY <3>2, <3>3, Zenon
  <2>15. \A q \in Peers : Up(q)' <=> Up(q)
    BY <1>5 DEF Up
  <2>16. Outbound'
    <3> SUFFICES ASSUME NEW q \in Peers
                 PROVE  /\ OutOK(w[q], q, st, owner)
                        /\ Up(q) => OutReg(w[q], incoming_streams[q])
      BY <1>1, <1>2, <2>8, <2>15, Zenon DEF Outbound
    <3>1. /\ OutOK(w[q], q, stream, owner)
          /\ Up(q) => OutReg(w[q], incoming_streams[q])
      BY <1>3, Zenon DEF OutKept
    <3>2. PICK x \in Seq(Message) : x = w[q]
      BY <1>1, <2>5
    <3>3. \A j \in 1..Len(x) : x[j].type = "cmd" =>
            /\ x[j].cmd \in Cmds /\ owner[x[j].cmd] = q
      <4>1. \A j \in 1..Len(x) : x[j].type = "cmd" => x[j].cmd \in Cmds
        BY MessageShape, ElementOfSeq
      <4> QED
        BY <3>1, <3>2, <4>1, Zenon DEF OutOK
    <3>4. \A j \in 1..Len(x) : x[j].type = "cmd" =>
            st[x[j].cmd] = stream[x[j].cmd]
      <4>1. \A j \in 1..Len(x) : x[j].type = "cmd" => x[j].cmd # c
        <5>1. CASE q = s
          BY <2>5, <2>11, <3>2, <5>1
        <5>2. CASE q # s
          BY <2>7, <3>3, <5>2
        <5> QED
          BY <5>1, <5>2
      <4> QED
        BY <2>9, <3>3, <4>1
    <3>5. ASSUME NEW d \in Cmds, owner[d] = q, st[d].loop = "running"
          PROVE  \/ stream[d].loop = "running" /\ st[d].id = stream[d].id
                 \/ \A j \in 1..Len(x) : x[j].type = "cmd" =>
                      x[j].id # st[d].id
      <4>1. CASE d = c
        <5>1. x = v /\ st[d].id = i
          BY <2>5, <2>7, <2>9, <3>2, <3>5, <4>1
        <5> QED
          BY <2>11, <5>1, Zenon
      <4>2. CASE d # c
        BY <2>9, <3>5, <4>2
      <4> QED
        BY <4>1, <4>2
    <3>6. OutOK(x, q, stream, owner)
      BY <3>1, <3>2
    <3>7. OutOK(x, q, st, owner)
      BY <3>4, <3>5, <3>6, OutFrame, Zenon
    <3> QED
      BY <3>1, <3>2, <3>7
  <2>17. Loops'
    <3>1. ASSUME NEW d \in Cmds, st[d].loop = "none" PROVE st[d] = NoLoop
      BY <2>9, <3>1 DEF Delivery, Loops
    <3>2. ASSUME NEW d \in Cmds, st[d].loop = "running", Up(owner[d])
          PROVE  incoming_streams[owner[d]][st[d].id] = d
      <4>1. CASE d = c
        BY <2>7, <2>9, <3>2, <4>1
      <4>2. CASE d # c
        BY <2>9, <3>2, <4>2 DEF Delivery, Loops, Running
      <4> QED
        BY <4>1, <4>2
    <3>3. ASSUME NEW d \in Cmds, NEW e \in Cmds, st[d].loop = "running",
                 st[e].loop = "running", owner[d] = owner[e],
                 st[d].id = st[e].id
          PROVE  d = e
      <4>1. CASE d = c
        BY <2>7, <2>9, <3>3, <4>1
      <4>2. CASE e = c
        BY <2>7, <2>9, <3>3, <4>2
      <4>3. CASE d # c /\ e # c
        BY <2>9, <3>3, <4>3 DEF Delivery, Loops, Running
      <4> QED
        BY <4>1, <4>2, <4>3
    <3>4. \A d \in Cmds : Up(owner[d])' <=> Up(owner[d])
      BY <1>1, <1>5 DEF Up
    <3> QED
      BY <1>1, <2>8, <3>1, <3>2, <3>3, <3>4, Zenon DEF Loops, Running
  <2>18. Del' = Del
    BY <1>1 DEF Del
  <2>19. /\ \A d \in Cmds : st[d].sent = stream[d].sent
         /\ \A d \in Cmds : stream[d].loop = "done" => st[d] = stream[d]
    BY <2>9, <2>10
  <2>20. Inbound'
    <3> SUFFICES ASSUME NEW q \in Peers, Up(q)
                 PROVE  /\ InOK(w[Other(q)], incoming_streams[q], st, client,
                                Del)
                        /\ output_open[Other(q)] =>
                             InAll(w[Other(q)], q, st, client, Del, owner)
      BY <1>1, <1>2, <2>8, <2>15, <2>18, Zenon DEF Inbound
    <3>1. Other(q) \in Peers
      BY TwoPeers
    <3>2. PICK x \in Seq(Message) : x = w[Other(q)]
      BY <1>1, <2>5, <3>1
    <3>3. /\ InOK(x, incoming_streams[q], stream, client, Del)
          /\ output_open[Other(q)] =>
               InAll(x, q, stream, client, Del, owner)
      BY <1>3, <3>2, Zenon DEF InKept
    <3>4. incoming_streams[q] \in [Ids -> Cmds \cup {None}]
      BY <1>1
    <3>5. \A d \in Cmds, n \in 1..MaxResponses :
            n <= stream[d].sent => n <= st[d].sent
      BY <2>19, Zenon
    <3>6. InOK(x, incoming_streams[q], st, client, Del)
      BY <2>19, <3>3, <3>4, <3>5, InFrame
    <3>7. output_open[Other(q)] => InAll(x, q, st, client, Del, owner)
      BY <2>19, <3>3, InAllFrame
    <3> QED
      BY <3>2, <3>6, <3>7, Zenon
  <2>21. Got'
    BY <1>1, <2>8, <2>18, <2>19, Zenon DEF Delivery, Got
  <2>22. Clean'
    <3>1. \A d \in Cmds : clean_end[d] => st[d] = stream[d]
      BY <2>19, Zenon DEF Delivery, Clean
    <3> QED
      BY <1>1, <2>8, <2>18, <3>1, Zenon DEF Delivery, Clean
  <2>23. Ended' /\ NoStray'
    BY <1>1, <1>5, Zenon DEF Delivery, Ended, NoStray
  <2> QED
    BY <2>13, <2>14, <2>16, <2>17, <2>20, <2>21, <2>22, <2>23 DEF Delivery
<1> QED
  BY <1>4, <1>5 DEF TakeCommand

-----------------------------------------------------------------------------
(* Lemma: a command that was not sent is still not when a response or an   *)
(* end is taken.                                                           *)
LEMMA NotSentKept ==
  ASSUME RpcIInv, Delivery, UNCHANGED <<owner, stream, client>>,
         NEW w, w = wire', OutKept(w),
         \A q \in Peers, k \in Ids : \/ incoming_streams'[q][k] = None
                                     \/ incoming_streams'[q][k]
                                          = incoming_streams[q][k],
         \A q \in Peers : broker'[q].pc = "sendCommand" =>
                            broker'[q] = broker[q]
  PROVE  Unsent' /\ Sending'
<1>1. /\ BrokerHolds /\ None \notin Cmds
      /\ \A d \in Cmds : owner[d] \in Peers
  BY RpcAssumption DEF RpcIInv, TypeOK
<1>2. ASSUME NEW q \in Peers, NEW d \in Cmds,
             NotSent(d, stream, incoming_streams[q], wire[q])
      PROVE  NotSent(d, stream', incoming_streams'[q], wire'[q])
  <2>1. /\ stream[d] = NoLoop /\ NoCmd(wire[q], d)
        /\ \A k \in Ids : incoming_streams[q][k] # d
    BY <1>2, Zenon DEF NotSent
  <2>2. \A k \in Ids : incoming_streams'[q][k] # d
    BY <1>1, <2>1
  <2>3. NoCmd(wire'[q], d)
    BY <2>1, Zenon DEF OutKept
  <2> QED
    BY <2>1, <2>2, <2>3, Zenon DEF NotSent
<1>3. Unsent'
  BY <1>1, <1>2, Zenon DEF Delivery, Unsent
<1>4. Sending'
  <2> SUFFICES ASSUME NEW q \in Peers, broker'[q].pc = "sendCommand"
               PROVE  /\ NotSent(broker'[q].cmd, stream',
                                 incoming_streams'[q], wire'[q])
                      /\ client'[broker'[q].cmd]
                           \notin {"idle", "queued", "ended"}
                      /\ incoming_streams'[q][broker'[q].id] = None
    BY Zenon DEF Sending
  <2>1. /\ broker'[q] = broker[q] /\ broker[q].pc = "sendCommand"
        /\ broker[q].cmd \in Cmds /\ broker[q].id \in Ids
    BY <1>1 DEF BrokerHolds
  <2>2. /\ NotSent(broker[q].cmd, stream, incoming_streams[q], wire[q])
        /\ client[broker[q].cmd] \notin {"idle", "queued", "ended"}
        /\ incoming_streams[q][broker[q].id] = None
    BY <2>1 DEF Delivery, Sending
  <2>3. NotSent(broker[q].cmd, stream', incoming_streams'[q], wire'[q])
    BY <1>2, <2>1, <2>2, Zenon
  <2>4. incoming_streams'[q][broker[q].id] = None
    BY <2>1, <2>2
  <2> QED
    BY <2>1, <2>2, <2>3, <2>4
<1> QED
  BY <1>3, <1>4

(* Lemma: a response is handed to its application: it is the next one of   *)
(* the command whose sink is registered under its id.                      *)
LEMMA DeliveryTakeResponse ==
  ASSUME RpcIInv, RpcIInv', Delivery, NEW p \in Peers, TakeResponse(p)
  PROVE  Delivery'
<1>0. UNCHANGED <<owner, stream, clean_end>> /\ CanTake(p, "resp")
  BY DEF TakeResponse
<1>1. /\ UNCHANGED <<owner, stream, clean_end>>
      /\ CanTake(p, "resp") /\ IsIdle(p) /\ Up(p)
      /\ TypeOK /\ TypeOK' /\ SinksAreOwn /\ SlotIsFlushed
      /\ wire \in [Peers -> Seq(Message)]
      /\ stream \in [Cmds -> LoopState]
      /\ incoming_streams \in [Peers -> [Ids -> Cmds \cup {None}]]
      /\ broker \in [Peers -> BrokerState]
      /\ slot \in [Cmds -> Seq(Response)]
      /\ None \notin Cmds /\ \A d \in Cmds : owner[d] \in Peers
  BY <1>0, RpcAssumption DEF CanTake, IsIdle, Up, RpcIInv, TypeOK
<1>2. PICK s \in Peers : s = Other(p) /\ s # p /\ Other(s) = p
                           /\ \A q \in Peers : q = p \/ q = s
  BY TwoPeers
<1>3. PICK u \in Seq(Message) : u = wire[s] /\ u # <<>>
  BY <1>1, <1>2 DEF CanTake
<1>4. PICK v \in Seq(Message) : v = Tail(u)
  BY <1>3, TailShape
<1>5. /\ Len(u) = Len(v) + 1 /\ \A j \in 1..Len(v) : v[j] = u[j + 1]
      /\ Head(u) = u[1] /\ u[1] \in Message /\ 1 \in 1..Len(u)
  BY <1>3, <1>4, TailShape
<1>6. PICK inc \in [Ids -> Cmds \cup {None}] : inc = incoming_streams[p]
  BY <1>1
<1>7. /\ InOK(u, inc, stream, client, Del)
      /\ output_open[s] => InAll(u, p, stream, client, Del, owner)
  BY <1>1, <1>2, <1>3, <1>6 DEF Delivery, Inbound
<1>8. u[1] = Incoming(p) /\ u[1].type = "resp" /\ u[1].id \in Ids
  BY <1>1, <1>2, <1>3, <1>5, MessageShape DEF CanTake, Incoming
<1>9. PICK c \in Cmds, n \in 1..MaxResponses : u[1].payload = <<c, n>>
  <2>1. u[1].payload \in Cmds \X (1..MaxResponses)
    BY <1>5, <1>8, MessageShape DEF Response
  <2> QED
    BY <2>1
<1>10. IsResp(u[1], c, n)
  BY <1>8, <1>9 DEF IsResp
<1>11. /\ inc[u[1].id] = c /\ incoming_streams[p][Incoming(p).id] = c
       /\ owner[c] = p
  <2>1. RespOK(u, 1, c, n, inc, stream, client, Del)
    BY <1>5, <1>7, <1>10, Zenon DEF InOK
  <2>2. inc[u[1].id] = c
    BY <2>1, Zenon DEF RespOK
  <2> QED
    BY <1>1, <1>6, <1>8, <2>2 DEF SinksAreOwn
<1>12. CASE Panic(p) /\ LosePart(WireAfterTake(p), p)
  BY <1>1, <1>2, <1>3, <1>12, DeliveryPanic
<1>13. CASE /\ wire' = WireAfterTake(p) /\ client[c] # "dropped"
            /\ slot' = [slot EXCEPT ![c] = Append(@, u[1].payload)]
            /\ Goto(p, "flush", c, None)
            /\ UNCHANGED <<incoming_streams, output_open, client, got>>
  <2>1. PICK w : w = wire' /\ w = WireAfterTake(p)
    BY <1>13
  <2>2. w[s] = v /\ \A q \in Peers \ {s} : w[q] = wire[q]
    BY <1>1, <1>2, <1>3, <1>4, <2>1 DEF WireAfterTake
  <2>3. OutKept(w)
    BY <1>1, <1>2, <1>3, <2>1, OutTaken DEF Delivery
  <2>4. /\ broker'[p].pc = "flush"
        /\ \A q \in Peers \ {p} : broker'[q] = broker[q]
        /\ \A q \in Peers : Up(q)' <=> Up(q)
    BY <1>1, <1>13 DEF Goto, Up
  <2>5. Unsent' /\ Sending'
    <3>1. \A q \in Peers : broker'[q].pc = "sendCommand" =>
            broker'[q] = broker[q]
      BY <2>4
    <3>2. \A q \in Peers, k \in Ids :
            \/ incoming_streams'[q][k] = None
            \/ incoming_streams'[q][k] = incoming_streams[q][k]
      BY <1>13
    <3> QED
      BY <1>1, <1>13, <2>1, <2>3, <3>1, <3>2, NotSentKept, Zenon
  <2>6. slot[c] = <<>>
    BY <1>1, <1>11 DEF SlotIsFlushed, IsIdle
  <2>7. n = Del[c] + 1 /\ n <= stream[c].sent
    <3>1. \A d \in Cmds, k \in 1..MaxResponses :
            client[d] # "dropped" /\ IsResp(u[1], d, k) =>
              k = Del[d] + 1 /\ inc[u[1].id] = d /\ k <= stream[d].sent
      BY <1>5, <1>7, TakenIsNext
    <3> QED
      BY <1>10, <1>13, <3>1, Zenon
  <2>8. /\ slot'[c] # <<>> /\ Head(slot'[c]) = <<c, n>> /\ Len(slot'[c]) = 1
        /\ \A d \in Cmds \ {c} : slot'[d] = slot[d]
    <3>1. slot'[c] = Append(<<>>, <<c, n>>)
      BY <1>1, <1>9, <1>13, <2>6
    <3>2. slot'[c] = << <<c, n>> >>
      BY <3>1
    <3>3. /\ slot'[c] # <<>> /\ Head(slot'[c]) = <<c, n>>
          /\ Len(slot'[c]) = 1
      BY <3>2
    <3>4. \A d \in Cmds \ {c} : slot'[d] = slot[d]
      BY <1>1, <1>13
    <3> QED
      BY <3>3, <3>4
  <2>9. /\ Len(got[c]) \in Nat /\ Del[c] = Len(got[c])
        /\ Del'[c] = Len(got[c]) + 1
    <3>1. Len(got[c]) \in Nat /\ Len(slot[c]) = 0
      BY <1>1, <2>6, LenProperties, EmptySeq DEF TypeOK
    <3>2. /\ Del[c] = Len(got[c]) + Len(slot[c])
          /\ Del'[c] = Len(got[c]) + Len(slot'[c])
      BY <1>13 DEF Del
    <3> QED
      BY <2>8, <3>1, <3>2
  <2>10. Del'[c] = n /\ \A d \in Cmds \ {c} : Del'[d] = Del[d]
    <3>1. Del'[c] = n
      BY <2>7, <2>9, Zenon
    <3>2. ASSUME NEW d \in Cmds \ {c} PROVE Del'[d] = Del[d]
      <4>1. slot'[d] = slot[d] /\ got'[d] = got[d]
        BY <1>13, <2>8
      <4> QED
        BY <4>1 DEF Del
    <3> QED
      BY <3>1, <3>2
  <2>11. Outbound'
    BY <1>1, <1>13, <2>1, <2>3, <2>4, Zenon DEF Outbound, OutKept
  <2>12. Loops'
    <3>1. \A d \in Cmds : Up(owner[d])' <=> Up(owner[d])
      BY <1>1, <2>4 DEF Up
    <3> QED
      BY <1>1, <1>13, <3>1, Zenon DEF Delivery, Loops, Running
  <2>13. PICK del \in [Cmds -> Nat] : del = Del'
    <3>1. Del' \in [Cmds -> Nat]
      <4>1. Del' = [d \in Cmds |-> Del'[d]]
        BY DEF Del
      <4>2. Del \in [Cmds -> Nat]
        BY <1>1, DelType
      <4>3. \A d \in Cmds : Del'[d] \in Nat
        BY <2>10, <4>2
      <4> QED
        BY <4>1, <4>3, Zenon
    <3> QED
      BY <3>1
  <2>14. /\ InOK(v, inc, stream, client, del)
         /\ output_open[s] => InAll(v, p, stream, client, del, owner)
    <3>1. Del \in [Cmds -> Nat]
      BY <1>1, DelType
    <3>2. Handed(u[1], client, Del, del)
      <4> SUFFICES ASSUME NEW d \in Cmds
                   PROVE  \/ \E k \in 1..MaxResponses :
                               IsResp(u[1], d, k) /\ del[d] = k
                          \/ /\ \A k \in 1..MaxResponses :
                                  ~IsResp(u[1], d, k)
                             /\ del[d] = Del[d]
        BY Zenon DEF Handed
      <4>1. CASE d = c
        BY <1>10, <2>10, <2>13, <4>1
      <4>2. CASE d # c
        <5>1. \A k \in 1..MaxResponses : ~IsResp(u[1], d, k)
          BY <1>5, <1>10, <4>2, RespShape, Zenon
        <5> QED
          BY <2>10, <2>13, <4>2, <5>1
      <4> QED
        BY <4>1, <4>2
    <3>3. InOK(v, inc, stream, client, del)
      BY <1>1, <1>5, <1>7, <3>1, <3>2, InTail, Zenon
    <3>4. output_open[s] => InAll(v, p, stream, client, del, owner)
      BY <1>1, <1>5, <1>7, <3>1, <3>2, InAllTail, Zenon
    <3> QED
      BY <3>3, <3>4
  <2>15. ASSUME Up(s)
         PROVE  /\ InOK(wire[p], incoming_streams[s], stream, client, del)
                /\ output_open[p] =>
                     InAll(wire[p], s, stream, client, del, owner)
    <3>1. /\ InOK(wire[p], incoming_streams[s], stream, client, Del)
          /\ output_open[p] =>
               InAll(wire[p], s, stream, client, Del, owner)
      BY <1>2, <2>15 DEF Delivery, Inbound
    <3>2. \A i \in Ids : incoming_streams[s][i] # c
      <4> SUFFICES ASSUME NEW i \in Ids, incoming_streams[s][i] = c
                   PROVE  FALSE
        OBVIOUS
      <4>1. incoming_streams[s][i] # None
        BY <1>1
      <4>2. owner[incoming_streams[s][i]] = s
        BY <1>1, <4>1, Zenon DEF SinksAreOwn
      <4> QED
        BY <1>2, <1>11, <4>2
    <3>3. \A d \in Cmds : del[d] = Del[d]
                            \/ \A i \in Ids : incoming_streams[s][i] # d
      BY <2>10, <2>13, <3>2
    <3>4. /\ incoming_streams[s] \in [Ids -> Cmds \cup {None}]
          /\ wire[p] \in Seq(Message)
      BY <1>1
    <3>5. InOK(wire[p], incoming_streams[s], stream, client, del)
      <4>1. PICK x \in Seq(Message) : x = wire[p]
        BY <3>4
      <4>2. PICK y \in [Ids -> Cmds \cup {None}] : y = incoming_streams[s]
        BY <3>4
      <4>3. /\ InOK(x, y, stream, client, Del)
            /\ \A d \in Cmds : del[d] = Del[d] \/ \A i \in Ids : y[i] # d
        BY <3>1, <3>3, <4>1, <4>2
      <4>4. InOK(x, y, stream, client, del)
        BY <4>3, InFrame
      <4> QED
        BY <4>1, <4>2, <4>4
    <3>6. \A d \in Cmds : owner[d] = s => del[d] = Del[d]
      BY <1>2, <1>11, <2>10, <2>13
    <3>7. output_open[p] => InAll(wire[p], s, stream, client, del, owner)
      BY <3>1, <3>6, InAllFrame
    <3> QED
      BY <3>5, <3>7
  <2>16. Inbound'
    <3> SUFFICES ASSUME NEW q \in Peers, Up(q)
                 PROVE  /\ InOK(w[Other(q)], incoming_streams[q], stream,
                                client, del)
                        /\ output_open[Other(q)] =>
                             InAll(w[Other(q)], q, stream, client, del, owner)
      BY <1>1, <1>13, <2>1, <2>4, <2>13, Zenon DEF Inbound
    <3>1. CASE q = p
      BY <1>2, <1>6, <2>2, <2>14, <3>1
    <3>2. CASE q = s
      BY <1>2, <2>2, <2>15, <3>2
    <3> QED
      BY <1>2, <3>1, <3>2
  <2>17. Got'
    <3> SUFFICES ASSUME NEW d \in Cmds
                 PROVE  /\ \A j \in 1..Len(got[d]) : got[d][j] = <<d, j>>
                        /\ slot'[d] # <<>> =>
                             Head(slot'[d]) = <<d, Len(got[d]) + 1>>
                        /\ Del'[d] <= stream[d].sent
      BY <1>1, <1>13, Zenon DEF Got
    <3>1. /\ \A j \in 1..Len(got[d]) : got[d][j] = <<d, j>>
          /\ slot[d] # <<>> => Head(slot[d]) = <<d, Len(got[d]) + 1>>
          /\ Del[d] <= stream[d].sent
      BY Zenon DEF Delivery, Got
    <3>2. CASE d = c
      BY <2>7, <2>8, <2>9, <2>10, <3>1, <3>2
    <3>3. CASE d # c
      BY <2>8, <2>10, <3>1, <3>3
    <3> QED
      BY <3>2, <3>3
  <2>18. Clean'
    <3>1. ~clean_end[c]
      <4>1. /\ stream[c].sent \in Nat /\ stream[c].emitted \in Nat
            /\ stream[c].sent <= stream[c].emitted
        BY <1>1 DEF TypeOK, LoopState
      <4>2. Del[c] # stream[c].emitted
        BY <2>7, <2>9, <4>1
      <4> QED
        BY <1>13, <4>2 DEF Delivery, Clean
    <3>2. \A d \in Cmds : clean_end[d] => Del'[d] = Del[d]
      BY <2>10, <3>1
    <3> QED
      BY <1>1, <1>13, <3>2, Zenon DEF Delivery, Clean
  <2>19. Ended'
    <3>1. client[c] # "ended"
      BY <1>8, <1>11 DEF Delivery, Ended
    <3>2. \A d \in Cmds : client[d] = "ended" => slot'[d] = slot[d]
      BY <2>8, <3>1
    <3> QED
      BY <1>1, <1>13, <3>2, Zenon DEF Delivery, Ended
  <2>20. NoStray'
    BY <2>4 DEF Delivery, NoStray
  <2> QED
    BY <2>5, <2>11, <2>12, <2>16, <2>17, <2>18, <2>19, <2>20 DEF Delivery
<1>14. QED
  BY <1>1, <1>8, <1>11, <1>12, <1>13 DEF TakeResponse, Take, tableVars

(* Lemma: an end is taken: everything the handler sent was delivered, and  *)
(* nothing in flight concerns the id that is free again.                   *)
LEMMA DeliveryTakeEnd ==
  ASSUME RpcIInv, RpcIInv', Delivery, NEW p \in Peers, TakeEnd(p)
  PROVE  Delivery'
<1>0. /\ UNCHANGED <<owner, stream, client, slot, got, output_open>>
      /\ CanTake(p, "end") /\ wire' = WireAfterTake(p)
  BY DEF TakeEnd, Take, clientVars
<1>1. /\ IsIdle(p) /\ Up(p) /\ TypeOK /\ LoopsHaveIds
      /\ wire \in [Peers -> Seq(Message)]
      /\ stream \in [Cmds -> LoopState]
      /\ incoming_streams \in [Peers -> [Ids -> Cmds \cup {None}]]
      /\ clean_end \in [Cmds -> BOOLEAN]
      /\ MaxResponses \in Nat
      /\ None \notin Cmds /\ \A d \in Cmds : owner[d] \in Peers
  BY <1>0, RpcAssumption DEF CanTake, IsIdle, Up, RpcIInv, TypeOK
<1>2. PICK s \in Peers : s = Other(p) /\ s # p /\ Other(s) = p
                           /\ \A q \in Peers : q = p \/ q = s
  BY TwoPeers
<1>3. PICK u \in Seq(Message) : u = wire[s] /\ u # <<>>
  BY <1>0, <1>1, <1>2 DEF CanTake
<1>4. PICK v \in Seq(Message) : v = Tail(u)
  BY <1>3, TailShape
<1>5. /\ Len(u) = Len(v) + 1 /\ \A j \in 1..Len(v) : v[j] = u[j + 1]
      /\ \A j \in 1..Len(v) : j + 1 \in 1..Len(u) /\ j + 1 > 1
      /\ Head(u) = u[1] /\ u[1] \in Message /\ 1 \in 1..Len(u)
  <2>1. \A j \in 1..Len(v) : j + 1 > 1
    OBVIOUS
  <2> QED
    BY <1>3, <1>4, <2>1, TailShape
<1>6. PICK inc \in [Ids -> Cmds \cup {None}] : inc = incoming_streams[p]
  BY <1>1
<1>7. /\ InOK(u, inc, stream, client, Del)
      /\ output_open[s] => InAll(u, p, stream, client, Del, owner)
  BY <1>1, <1>2, <1>3, <1>6 DEF Delivery, Inbound
<1>8. PICK i \in Ids : /\ i = u[1].id /\ u[1].type = "end"
                       /\ i = Incoming(p).id
  BY <1>0, <1>2, <1>3, <1>5, MessageShape DEF CanTake, Incoming
<1>9. PICK c \in Cmds : c = inc[i] /\ EndOK(u, 1, c, stream, client, Del)
  BY <1>5, <1>7, <1>8 DEF InOK
<1>10. /\ stream[c].loop = "done" /\ stream[c].sent = stream[c].emitted
       /\ \A k \in 1..Len(u) :
            k > 1 /\ u[k].type \in {"resp", "end"} => u[k].id # i
  BY <1>8, <1>9, Zenon DEF EndOK
<1>11. client[c] # "dropped" => Del[c] = stream[c].emitted
  <2> SUFFICES ASSUME client[c] # "dropped" PROVE Del[c] = stream[c].emitted
    OBVIOUS
  <2>1. /\ Del[c] \in Nat /\ stream[c].sent \in Nat
        /\ Del[c] <= stream[c].sent
        /\ stream[c].sent <= MaxResponses
    BY <1>1, <1>10, DelType DEF TypeOK, LoopState, Delivery, Got
  <2>2. \A n \in 1..MaxResponses : ~(Del[c] < n /\ n <= stream[c].sent)
    <3>1. \A n : ~Carries(u, 1 - 1, c, n)
      <4>1. 1..(1 - 1) = {}
        OBVIOUS
      <4> QED
        BY <4>1 DEF Carries
    <3> QED
      BY <1>9, <3>1, Zenon DEF EndOK
  <2>3. ASSUME Del[c] < stream[c].sent PROVE FALSE
    <3>1. /\ stream[c].sent \in 1..MaxResponses
          /\ stream[c].sent <= stream[c].sent
      BY <1>1, <2>1, <2>3
    <3> QED
      BY <2>2, <2>3, <3>1, Zenon
  <2> QED
    BY <1>10, <2>1, <2>3
<1>12. /\ broker' = broker
       /\ incoming_streams' = [incoming_streams EXCEPT ![p][i] = None]
       /\ clean_end' = [clean_end EXCEPT ![c] = TRUE]
  <2>1. incoming_streams[p][Incoming(p).id] = c /\ c # None
    BY <1>1, <1>6, <1>8, <1>9
  <2> QED
    BY <1>8, <2>1 DEF TakeEnd
<1>13. /\ incoming_streams'[p][i] = None
       /\ \A k \in Ids \ {i} : incoming_streams'[p][k] = inc[k]
       /\ incoming_streams'[s] = incoming_streams[s]
  BY <1>1, <1>2, <1>6, <1>12
<1>14. PICK w : w = wire' /\ w = WireAfterTake(p)
  BY <1>0
<1>15. w[s] = v /\ w[p] = wire[p]
  BY <1>1, <1>2, <1>3, <1>4, <1>14 DEF WireAfterTake
<1>16. OutKept(w)
  BY <1>1, <1>2, <1>3, <1>14, OutTaken DEF Delivery
<1>17. \A q \in Peers, k \in Ids :
         \/ incoming_streams'[q][k] = None
         \/ incoming_streams'[q][k] = incoming_streams[q][k]
  BY <1>1, <1>12
<1>18. Unsent' /\ Sending'
  BY <1>0, <1>12, <1>14, <1>16, <1>17, NotSentKept
<1>19. /\ \A q \in Peers : Up(q)' <=> Up(q)
       /\ \A d \in Cmds : Up(owner[d])' <=> Up(owner[d])
  BY <1>0, <1>12 DEF Up
<1>20. Del' = Del
  BY <1>0 DEF Del
<1>21. Outbound'
  <2> SUFFICES ASSUME NEW q \in Peers
               PROVE  /\ OutOK(w[q], q, stream, owner)
                      /\ Up(q) => OutReg(w[q], incoming_streams'[q])
    BY <1>0, <1>14, <1>19, Zenon DEF Outbound
  <2>1. /\ OutOK(w[q], q, stream, owner)
        /\ Up(q) => OutReg(w[q], incoming_streams[q])
    BY <1>16, Zenon DEF OutKept
  <2>2. CASE q = p
    <3>1. PICK x \in Seq(Message) : x = w[p]
      BY <1>1, <1>15
    <3>2. OutOK(x, p, stream, owner) /\ OutReg(x, inc)
      BY <1>1, <1>6, <2>1, <2>2, <3>1
    <3>3. ASSUME NEW j \in 1..Len(x), x[j].type = "cmd"
          PROVE  incoming_streams'[p][x[j].id] = x[j].cmd
      <4>1. inc[x[j].id] = x[j].cmd /\ stream[x[j].cmd] = NoLoop
        BY <3>2, <3>3, Zenon DEF OutOK, OutReg
      <4>2. x[j].cmd # c
        BY <1>10, <4>1 DEF NoLoop
      <4>3. x[j].id \in Ids \ {i}
        <5>1. x[j].id \in Ids
          BY MessageShape, ElementOfSeq
        <5> QED
          BY <1>9, <4>1, <4>2, <5>1
      <4> QED
        BY <1>13, <4>1, <4>3
    <3>4. OutReg(x, incoming_streams'[p])
      BY <3>3, Zenon DEF OutReg
    <3> QED
      BY <2>1, <2>2, <3>1, <3>4
  <2>3. CASE q = s
    BY <1>13, <2>1, <2>3
  <2> QED
    BY <1>2, <2>2, <2>3
<1>22. Loops'
  <2>1. ASSUME NEW d \in Cmds, Running(d), Up(owner[d])
        PROVE  incoming_streams'[owner[d]][stream[d].id] = d
    <3>1. /\ incoming_streams[owner[d]][stream[d].id] = d
          /\ stream[d].id \in Ids /\ d # c
      BY <1>1, <1>10, <2>1 DEF Delivery, Loops, LoopsHaveIds, Running
    <3>2. CASE owner[d] = p
      <4>1. stream[d].id # i
        BY <1>6, <1>9, <3>1, <3>2
      <4> QED
        BY <1>6, <1>13, <3>1, <3>2, <4>1
    <3>3. CASE owner[d] = s
      BY <1>13, <3>1, <3>3
    <3> QED
      BY <1>1, <1>2, <3>2, <3>3
  <2> QED
    BY <1>0, <1>19, <2>1, Zenon DEF Delivery, Loops, Running
<1>23. Inbound'
  <2> SUFFICES ASSUME NEW q \in Peers, Up(q)
               PROVE  /\ InOK(w[Other(q)], incoming_streams'[q], stream,
                              client, Del)
                      /\ output_open[Other(q)] =>
                           InAll(w[Other(q)], q, stream, client, Del, owner)
    BY <1>0, <1>14, <1>19, <1>20, Zenon DEF Inbound
  <2>1. CASE q = p
    <3>1. PICK inc2 : inc2 = incoming_streams'[p]
      OBVIOUS
    <3>2. \A j \in 1..Len(v) : v[j].type \in {"resp", "end"} =>
            inc2[v[j].id] = inc[v[j].id]
      <4> SUFFICES ASSUME NEW j \in 1..Len(v), v[j].type \in {"resp", "end"}
                   PROVE  inc2[v[j].id] = inc[v[j].id]
        OBVIOUS
      <4>1. v[j].id \in Ids
        BY MessageShape, ElementOfSeq
      <4>2. v[j].id # i
        BY <1>5, <1>10
      <4> QED
        BY <1>13, <3>1, <4>1, <4>2
    <3>3. Del \in [Cmds -> Nat]
      BY <1>1, DelType
    <3>4. Handed(u[1], client, Del, Del)
      BY <1>8 DEF Handed, IsResp
    <3>5. InOK(v, inc2, stream, client, Del)
      BY <1>1, <1>5, <1>7, <3>2, <3>3, <3>4, InTail, Zenon
    <3>6. output_open[s] => InAll(v, p, stream, client, Del, owner)
      BY <1>1, <1>5, <1>7, <3>3, <3>4, InAllTail, Zenon
    <3> QED
      BY <1>2, <1>15, <2>1, <3>1, <3>5, <3>6
  <2>2. CASE q = s
    <3>1. /\ InOK(wire[p], incoming_streams[s], stream, client, Del)
          /\ output_open[p] =>
               InAll(wire[p], s, stream, client, Del, owner)
      BY <1>2, <2>2 DEF Delivery, Inbound
    <3> QED
      BY <1>2, <1>13, <1>15, <2>2, <3>1
  <2> QED
    BY <1>2, <2>1, <2>2
<1>24. Got' /\ NoStray'
  BY <1>0, <1>12, <1>20, Zenon DEF Delivery, Got, NoStray
<1>25. Clean'
  <2> SUFFICES ASSUME NEW d \in Cmds, clean_end'[d]
               PROVE  /\ stream[d].loop = "done"
                      /\ client[d] # "dropped" => Del[d] = stream[d].emitted
    BY <1>0, <1>20, Zenon DEF Clean
  <2>1. CASE d = c
    BY <1>10, <1>11, <2>1
  <2>2. CASE d # c
    BY <1>1, <1>12, <2>2 DEF Delivery, Clean
  <2> QED
    BY <2>1, <2>2
<1>26. Ended'
  <2> SUFFICES ASSUME NEW d \in Cmds, client[d] = "ended"
               PROVE  /\ slot[d] = <<>>
                      /\ \A k \in Ids : incoming_streams'[owner[d]][k] # d
    BY <1>0, Zenon DEF Ended
  <2>1. /\ slot[d] = <<>> /\ owner[d] \in Peers
        /\ \A k \in Ids : incoming_streams[owner[d]][k] # d
    BY <1>1 DEF Delivery, Ended
  <2>2. \A k \in Ids : incoming_streams'[owner[d]][k] # d
    BY <1>1, <1>17, <2>1
  <2> QED
    BY <2>1, <2>2
<1> QED
  BY <1>18, <1>21, <1>22, <1>23, <1>24, <1>25, <1>26 DEF Delivery

-----------------------------------------------------------------------------
(* Lemma: nothing is on its way yet.                                       *)
LEMMA DeliveryInit == Init => Delivery
<1> SUFFICES ASSUME Init PROVE Delivery
  OBVIOUS
<1>1. /\ None \notin Cmds /\ Len(<<>>) = 0 /\ 1..0 = {}
      /\ \A d \in Cmds : owner[d] \in Peers
      /\ \A q \in Peers : Other(q) \in Peers
  BY RpcAssumption, TwoPeers, EmptySeq DEF Init
<1>2. \A q \in Peers : wire[q] = <<>> /\ 1..Len(wire[q]) = {}
  BY <1>1 DEF Init
<1>3. /\ \A q \in Peers, i \in Ids : incoming_streams[q][i] = None
      /\ \A q \in Peers : broker[q].pc = "idle"
      /\ \A d \in Cmds : /\ stream[d] = NoLoop /\ client[d] = "idle"
                         /\ slot[d] = <<>> /\ got[d] = <<>>
                         /\ ~clean_end[d]
  BY DEF Init, NoStreams, Idle
<1>4. \A d \in Cmds : Del[d] = 0 /\ stream[d].sent = 0
                        /\ stream[d].loop = "none"
  <2> SUFFICES ASSUME NEW d \in Cmds
               PROVE  Del[d] = 0 /\ stream[d].sent = 0
                        /\ stream[d].loop = "none"
    OBVIOUS
  <2>1. Del[d] = Len(got[d]) + Len(slot[d])
    BY DEF Del
  <2>2. Len(got[d]) = 0 /\ Len(slot[d]) = 0
    BY <1>1, <1>3
  <2>3. stream[d].sent = 0 /\ stream[d].loop = "none"
    BY <1>3 DEF NoLoop
  <2> QED
    BY <2>1, <2>2, <2>3
<1>5. Unsent
  BY <1>1, <1>2, <1>3 DEF Unsent, NotSent, NoCmd
<1>6. Sending /\ Ended /\ NoStray
  BY <1>1, <1>3 DEF Sending, Ended, NoStray
<1>7. Outbound
  BY <1>2 DEF Outbound, OutOK, OutReg
<1>8. Loops
  BY <1>3, <1>4 DEF Loops, Running
<1>9. Inbound
  <2> SUFFICES ASSUME NEW q \in Peers
               PROVE  /\ InOK(wire[Other(q)], incoming_streams[q], stream,
                              client, Del)
                      /\ InAll(wire[Other(q)], q, stream, client, Del, owner)
    BY DEF Inbound
  <2>1. 1..Len(wire[Other(q)]) = {}
    BY <1>1, <1>2
  <2>2. InOK(wire[Other(q)], incoming_streams[q], stream, client, Del)
    BY <2>1 DEF InOK
  <2>3. \A d \in Cmds, n \in 1..MaxResponses : ~(n <= stream[d].sent)
    <3>1. \A n \in 1..MaxResponses : ~(n <= 0)
      OBVIOUS
    <3> QED
      BY <1>4, <3>1
  <2> QED
    BY <2>2, <2>3, Zenon DEF InAll
<1>10. Got
  BY <1>1, <1>3, <1>4 DEF Got
<1>11. Clean
  BY <1>3 DEF Clean
<1> QED
  BY <1>5, <1>6, <1>7, <1>8, <1>9, <1>10, <1>11 DEF Delivery

(* Lemma: every step keeps the delivery invariant.                         *)
LEMMA DeliveryStep ==
  ASSUME OneCommandPerId
  PROVE  RpcIInv /\ Delivery /\ [Next]_vars => Delivery'
<1> SUFFICES ASSUME RpcIInv, Delivery, [Next]_vars PROVE Delivery'
  OBVIOUS
<1>1. RpcIInv'
  BY RpcStep
<1>2. ASSUME NEW p \in Peers, BrokerStep(p) PROVE Delivery'
  <2>1. CASE \E c \in Cmds : TakeStartCommand(p, c)
    BY <1>1, <2>1, DeliveryStart
  <2>2. CASE SendCommand(p) \/ SendCommandClosed(p)
    BY <1>1, <2>2, DeliverySend
  <2>3. CASE TakeTerminate(p) \/ TakeError(p)
    BY <1>1, <2>3, DeliveryTerminate
  <2>4. CASE SendError(p) \/ SendErrorClosed(p)
    BY <1>1, <2>4, DeliveryError
  <2>5. CASE TakeCommand(p)
    BY <1>1, <2>5, DeliveryTakeCommand
  <2>6. CASE TakeCancel(p)
    BY <1>1, <2>6, DeliveryCancel
  <2>7. CASE TakeResponse(p)
    BY <1>1, <2>7, DeliveryTakeResponse
  <2>8. CASE TakeEnd(p)
    BY <1>1, <2>8, DeliveryTakeEnd
  <2> QED
    BY <1>2, <2>1, <2>2, <2>3, <2>4, <2>5, <2>6, <2>7, <2>8 DEF BrokerStep
<1>3. ASSUME NEW p \in Peers,
             \/ DropChannel(p) \/ PipesBreak(p)
             \/ \E i \in Ids : SendCancel(p, i)
      PROVE  Delivery'
  BY <1>1, <1>3, DeliveryDropChannel, DeliveryCancel
<1>4. ASSUME NEW c \in Cmds, ClientStep(c) PROVE Delivery'
  BY <1>1, <1>4, DeliverySubmit, DeliveryReads DEF ClientStep
<1>5. ASSUME NEW c \in Cmds,
             HandlerEmits(c) \/ HandlerCloses(c) \/ LoopStep(c)
      PROVE  Delivery'
  BY <1>1, <1>5, DeliveryServe, DeliveryLoop DEF LoopStep
<1>6. CASE UNCHANGED vars
  <2>1. UNCHANGED <<owner, broker, incoming_streams, wire, output_open,
                    client, slot, got, clean_end, stream>>
    BY <1>6 DEF vars, tableVars, wireVars, clientVars
  <2>2. Del' = Del
    BY <2>1 DEF Del
  <2>3. Unsent' /\ Sending'
    BY <2>1 DEF Delivery, Unsent, Sending
  <2>4. Outbound' /\ Loops'
    BY <2>1 DEF Delivery, Outbound, Loops, Up, Running
  <2>5. Inbound' /\ Got' /\ Clean'
    BY <2>1, <2>2 DEF Delivery, Inbound, Got, Clean, Up
  <2>6. Ended' /\ NoStray'
    BY <2>1 DEF Delivery, Ended, NoStray
  <2> QED
    BY <2>3, <2>4, <2>5, <2>6 DEF Delivery
<1> QED
  BY <1>2, <1>3, <1>4, <1>5, <1>6 DEF Next

(* The delivery invariant holds in every behaviour in which the endpoints  *)
(* that run this code, whose take_new_id always returns the same id,       *)
(* submit one command each.                                                *)
THEOREM DeliveryInvariant ==
  ASSUME OneCommandPerId
  PROVE  Spec => [](RpcIInv /\ Delivery)
<1>1. Init => RpcIInv /\ Delivery
  BY RpcInit, DeliveryInit
<1>2. RpcIInv /\ Delivery /\ [Next]_vars => (RpcIInv /\ Delivery)'
  BY RpcStep, DeliveryStep
<1> QED
  BY <1>1, <1>2, PTL DEF Spec

(* What an application reads of a command is a gapless prefix of what its  *)
(* handler produced, in order, whatever goes down on the way.              *)
THEOREM DeliveredIsPrefixThm ==
  ASSUME OneCommandPerId
  PROVE  Spec => []DeliveredIsPrefix
<1>1. RpcIInv /\ Delivery => DeliveredIsPrefix
  <2> SUFFICES ASSUME RpcIInv, Delivery, NEW c \in Cmds
               PROVE  /\ Len(got[c]) <= stream[c].sent
                      /\ \A i \in DOMAIN got[c] : got[c][i] = <<c, i>>
    BY Zenon DEF DeliveredIsPrefix
  <2>1. /\ got[c] \in Seq(Response) /\ slot[c] \in Seq(Response)
        /\ stream[c].sent \in Nat
    BY DEF RpcIInv, TypeOK, LoopState
  <2>2. /\ Len(got[c]) \in Nat /\ Len(slot[c]) \in Nat
        /\ DOMAIN got[c] = 1..Len(got[c])
    BY <2>1, LenProperties
  <2>3. /\ \A j \in 1..Len(got[c]) : got[c][j] = <<c, j>>
        /\ Del[c] <= stream[c].sent
    BY Zenon DEF Delivery, Got
  <2>4. Del[c] = Len(got[c]) + Len(slot[c])
    BY DEF Del
  <2>5. Len(got[c]) <= stream[c].sent
    <3>1. \A x, y, z \in Nat : x + y <= z => x <= z
      OBVIOUS
    <3>2. Len(got[c]) + Len(slot[c]) <= stream[c].sent
      BY <2>3, <2>4
    <3> QED
      BY <2>1, <2>2, <3>1, <3>2, Zenon
  <2> QED
    BY <2>2, <2>3, <2>5, Zenon
<1> QED
  BY <1>1, DeliveryInvariant, PTL

(* A stream that ended with an end message delivered all its handler       *)
(* produced.                                                               *)
THEOREM CleanEndIsCompleteThm ==
  ASSUME OneCommandPerId
  PROVE  Spec => []CleanEndIsComplete
<1>1. RpcIInv /\ Delivery => CleanEndIsComplete
  <2> SUFFICES ASSUME RpcIInv, Delivery, NEW c \in Cmds,
                      client[c] = "ended", clean_end[c]
               PROVE  /\ stream[c].loop = "done"
                      /\ Len(got[c]) = stream[c].emitted
    BY Zenon DEF CleanEndIsComplete
  <2>1. /\ stream[c].loop = "done" /\ Del[c] = stream[c].emitted
        /\ slot[c] = <<>>
    BY DEF Delivery, Clean, Ended
  <2>2. Len(got[c]) \in Nat /\ Len(slot[c]) = 0
    BY <2>1, LenProperties, EmptySeq DEF RpcIInv, TypeOK
  <2>3. Del[c] = Len(got[c]) + Len(slot[c])
    BY DEF Del
  <2> QED
    BY <2>1, <2>2, <2>3
<1> QED
  BY <1>1, DeliveryInvariant, PTL

(* No broker meets a response or an end it has no sink for, and no two     *)
(* loops of an endpoint share an id.                                       *)
THEOREM NoStrayMessageThm ==
  ASSUME OneCommandPerId
  PROVE  Spec => []NoStrayMessage
<1>1. RpcIInv /\ Delivery => NoStrayMessage
  <2> SUFFICES ASSUME RpcIInv, Delivery PROVE NoStrayMessage
    OBVIOUS
  <2>1. \A d \in Cmds : owner[d] \in Peers
    BY RpcAssumption DEF RpcIInv, TypeOK
  <2>2. \A d, e \in Cmds : Server(d) = Server(e) => owner[d] = owner[e]
    <3> SUFFICES ASSUME NEW d \in Cmds, NEW e \in Cmds,
                        Other(owner[d]) = Other(owner[e])
                 PROVE  owner[d] = owner[e]
      BY Zenon DEF Server
    <3>1. /\ Other(Other(owner[d])) = owner[d]
          /\ Other(Other(owner[e])) = owner[e]
      BY <2>1, TwoPeers
    <3> QED
      BY <3>1
  <2>3. LoopsHaveDistinctIds
    BY <2>2, Zenon DEF LoopsHaveDistinctIds, Delivery, Loops
  <2> QED
    BY <2>3 DEF NoStrayMessage, Delivery, NoStray
<1> QED
  BY <1>1, DeliveryInvariant, PTL

(* What an application reads of a command answers that command.            *)
THEOREM ResponsesMatchCommandThm ==
  ASSUME OneCommandPerId
  PROVE  Spec => []ResponsesMatchCommand
<1>1. DeliveredIsPrefix => ResponsesMatchCommand
  BY DEF DeliveredIsPrefix, ResponsesMatchCommand
<1> QED
  BY <1>1, DeliveredIsPrefixThm, PTL

-----------------------------------------------------------------------------
(* Cancels: a handler is cancelled only on request.                        *)

(* The token of a handler resolves because its own command was cancelled   *)
(* or its broker went down, never through a cancel that was meant for an   *)
(* earlier command on the same id and comes late.                          *)
CancelHasACause ==
  \A c \in Cmds : Cancelled(c) => cancel_sent[c] \/ ~Up(Server(c))

(* A cancel in wire w of endpoint p is for the loop that runs on its id,   *)
(* and for the command ahead of it that has the id.                        *)
CancelOK(w, k, p, st, o, sent) ==
  /\ \A c \in Cmds :
       o[c] = p /\ st[c].loop = "running" /\ st[c].id = w[k].id => sent[c]
  /\ \A j \in 1..Len(w) :
       j < k /\ w[j].type = "cmd" /\ w[j].id = w[k].id => sent[w[j].cmd]

CancelsOK(w, p, st, o, sent) ==
  \A k \in 1..Len(w) :
    w[k].type = "cancel" => CancelOK(w, k, p, st, o, sent)

Cancels ==
  /\ CancelHasACause
  /\ \A p \in Peers : CancelsOK(wire[p], p, stream, owner, cancel_sent)

(* Lemma: messages taken from either end of a wire.                        *)
LEMMA CancelsSub ==
  ASSUME NEW w \in Seq(Message), NEW v \in Seq(Message), NEW s \in Nat,
         \A j \in 1..Len(v) : j + s \in 1..Len(w) /\ v[j] = w[j + s],
         NEW p, NEW st, NEW o, NEW sent, CancelsOK(w, p, st, o, sent)
  PROVE  CancelsOK(v, p, st, o, sent)
<1> SUFFICES ASSUME NEW k \in 1..Len(v), v[k].type = "cancel"
             PROVE  CancelOK(v, k, p, st, o, sent)
  BY Zenon DEF CancelsOK
<1>1. /\ k + s \in 1..Len(w) /\ v[k] = w[k + s]
      /\ CancelOK(w, k + s, p, st, o, sent)
  BY Zenon DEF CancelsOK
<1>2. ASSUME NEW j \in 1..Len(v), j < k PROVE j + s < k + s
  BY <1>2
<1>3. ASSUME NEW j \in 1..Len(v), j < k, v[j].type = "cmd", v[j].id = v[k].id
      PROVE  sent[v[j].cmd]
  <2>1. /\ j + s \in 1..Len(w) /\ v[j] = w[j + s] /\ j + s < k + s
    BY <1>2, <1>3
  <2> QED
    BY <1>1, <1>3, <2>1, Zenon DEF CancelOK
<1> QED
  BY <1>1, <1>3, Zenon DEF CancelOK

(* Lemma: a message is sent; a cancel is for the loop and the command that *)
(* have its id.                                                            *)
LEMMA CancelsAppend ==
  ASSUME NEW w \in Seq(Message), NEW m \in Message,
         NEW p, NEW st, NEW o, NEW sent, CancelsOK(w, p, st, o, sent),
         m.type = "cancel" =>
           /\ \A c \in Cmds :
                o[c] = p /\ st[c].loop = "running" /\ st[c].id = m.id
                  => sent[c]
           /\ \A j \in 1..Len(w) :
                w[j].type = "cmd" /\ w[j].id = m.id => sent[w[j].cmd]
  PROVE  CancelsOK(Append(w, m), p, st, o, sent)
<1> DEFINE v == Append(w, m)
<1>1. /\ Len(w) \in Nat /\ Len(v) = Len(w) + 1
      /\ \A j \in 1..Len(w) : v[j] = w[j]
      /\ v[Len(w) + 1] = m
  BY LenProperties, AppendProperties
<1> HIDE DEF v
<1>2. \A j, k \in 1..Len(v) : j < k => j \in 1..Len(w) /\ v[j] = w[j]
  BY <1>1
<1>3. \A k \in 1..Len(v) : \/ k \in 1..Len(w) /\ v[k] = w[k]
                           \/ v[k] = m
  BY <1>1
<1>4. ASSUME NEW k \in 1..Len(v), v[k].type = "cancel"
      PROVE  CancelOK(v, k, p, st, o, sent)
  <2>1. CASE k \in 1..Len(w) /\ v[k] = w[k]
    <3>1. CancelOK(w, k, p, st, o, sent)
      BY <1>4, <2>1, Zenon DEF CancelsOK
    <3> QED
      BY <1>2, <2>1, <3>1, Zenon DEF CancelOK
  <2>2. CASE v[k] = m
    BY <1>2, <1>4, <2>2, Zenon DEF CancelOK
  <2> QED
    BY <1>3, <2>1, <2>2
<1> QED
  BY <1>4, Zenon DEF CancelsOK, v

(* Lemma: loops start only for commands that are cancelled already, if a   *)
(* cancel with their id is in flight.                                      *)
LEMMA CancelsFrame ==
  ASSUME NEW w \in Seq(Message), NEW p, NEW st, NEW st2, NEW o, NEW sent,
         NEW sent2, CancelsOK(w, p, st, o, sent),
         \A c \in Cmds : sent[c] => sent2[c],
         \A c \in Cmds : o[c] = p /\ st2[c].loop = "running" =>
           \/ st[c].loop = "running" /\ st2[c].id = st[c].id
           \/ \A k \in 1..Len(w) :
                w[k].type = "cancel" /\ w[k].id = st2[c].id => sent[c]
  PROVE  CancelsOK(w, p, st2, o, sent2)
<1> SUFFICES ASSUME NEW k \in 1..Len(w), w[k].type = "cancel"
             PROVE  CancelOK(w, k, p, st2, o, sent2)
  BY Zenon DEF CancelsOK
<1>1. CancelOK(w, k, p, st, o, sent)
  BY Zenon DEF CancelsOK
<1>2. \A m \in Message : m.type = "cmd" => m.cmd \in Cmds
  BY MessageShape
<1>3. \A j \in 1..Len(w) : w[j] \in Message
  BY ElementOfSeq
<1>4. ASSUME NEW c \in Cmds, o[c] = p, st2[c].loop = "running",
             st2[c].id = w[k].id
      PROVE  sent2[c]
  BY <1>1, <1>4, Zenon DEF CancelOK
<1>5. ASSUME NEW j \in 1..Len(w), j < k, w[j].type = "cmd",
             w[j].id = w[k].id
      PROVE  sent2[w[j].cmd]
  BY <1>1, <1>2, <1>3, <1>5, Zenon DEF CancelOK
<1> QED
  BY <1>4, <1>5, Zenon DEF CancelOK

(* Wire v is what is left of w, or w and a message that is no cancel.      *)
Fewer(w, v) ==
  /\ v \in Seq(Message)
  /\ \E s \in Nat : \A j \in 1..Len(v) :
       j + s \in 1..Len(w) /\ v[j] = w[j + s]

OneMore(w, v) ==
  \E m \in Message : m.type # "cancel" /\ v = Append(w, m)

(* No cancel is sent, no handle is put in or taken out by a broker that    *)
(* stays up, and no loop starts.                                           *)
WiresQuiet == \A q \in Peers : Fewer(wire[q], wire'[q])
                                 \/ OneMore(wire[q], wire'[q])
HandlesQuiet ==
  \A q \in Peers : Up(q)' =>
    Up(q) /\ outgoing_streams'[q] = outgoing_streams[q]
LoopsQuiet ==
  \A c \in Cmds : stream'[c].loop = "running" =>
    stream[c].loop = "running" /\ stream'[c].id = stream[c].id

(* Lemma: a step that does not touch cancels.                              *)
LEMMA CancelsQuiet ==
  ASSUME TypeOK, Cancels, UNCHANGED <<owner, cancel_sent>>,
         WiresQuiet, HandlesQuiet, LoopsQuiet
  PROVE  Cancels'
<1>1. wire \in [Peers -> Seq(Message)] /\ \A c \in Cmds : owner[c] \in Peers
  BY RpcAssumption DEF TypeOK
<1>2. CancelHasACause'
  <2> SUFFICES ASSUME NEW c \in Cmds, Cancelled(c)', Up(Server(c))'
               PROVE  cancel_sent[c]
    BY DEF CancelHasACause
  <2>1. PICK q \in Peers : q = Server(c) /\ Server(c)' = q
    BY <1>1, TwoPeers DEF Server
  <2>2. /\ Running(c) /\ stream'[c].id = stream[c].id
        /\ Up(q) /\ outgoing_streams'[q] = outgoing_streams[q]
    BY <2>1 DEF LoopsQuiet, HandlesQuiet, Cancelled, Running
  <2>3. Cancelled(c)
    BY <2>1, <2>2 DEF Cancelled
  <2> QED
    BY <2>1, <2>2, <2>3 DEF Cancels, CancelHasACause
<1>3. ASSUME NEW q \in Peers
      PROVE  CancelsOK(wire'[q], q, stream', owner', cancel_sent')
  <2>1. PICK w \in Seq(Message) : w = wire[q]
    BY <1>1
  <2>2. CancelsOK(w, q, stream, owner, cancel_sent)
    BY <2>1, Zenon DEF Cancels
  <2>3. CancelsOK(w, q, stream', owner, cancel_sent)
    BY <2>2, CancelsFrame, Zenon DEF LoopsQuiet
  <2>4. PICK v : v = wire'[q]
    OBVIOUS
  <2>5. CASE Fewer(w, v)
    <3>1. PICK s \in Nat : \A j \in 1..Len(v) :
                             j + s \in 1..Len(w) /\ v[j] = w[j + s]
      BY <2>5 DEF Fewer
    <3>2. v \in Seq(Message)
      BY <2>5 DEF Fewer
    <3>3. CancelsOK(v, q, stream', owner, cancel_sent)
      BY <2>3, <3>1, <3>2, CancelsSub, Zenon
    <3> QED
      BY <2>4, <3>3
  <2>6. CASE OneMore(w, v)
    <3>1. PICK m \in Message : m.type # "cancel" /\ v = Append(w, m)
      BY <2>6 DEF OneMore
    <3>2. CancelsOK(Append(w, m), q, stream', owner, cancel_sent)
      BY <2>3, <3>1, CancelsAppend, Zenon
    <3> QED
      BY <2>4, <3>1, <3>2
  <2> QED
    BY <2>1, <2>4, <2>5, <2>6 DEF WiresQuiet
<1> QED
  BY <1>2, <1>3 DEF Cancels

(* Lemma: the ways a step leaves the wires without a new cancel.           *)
LEMMA WiresSame ==
  ASSUME TypeOK, wire' = wire
  PROVE  WiresQuiet
<1>1. ASSUME NEW q \in Peers PROVE Fewer(wire[q], wire'[q])
  <2>1. wire[q] \in Seq(Message)
    BY DEF TypeOK
  <2>2. 0 \in Nat /\ \A j \in 1..Len(wire[q]) : j + 0 = j
    OBVIOUS
  <2> QED
    BY <2>1, <2>2, Zenon DEF Fewer
<1> QED
  BY <1>1 DEF WiresQuiet

(* Lemma: the oldest message is taken.                                     *)
LEMMA FewerTail ==
  ASSUME NEW w \in Seq(Message), w # <<>>
  PROVE  Fewer(w, Tail(w))
<1>1. 1 \in Nat
  OBVIOUS
<1> QED
  BY <1>1, TailShape, Zenon DEF Fewer

(* Lemma: the newest messages are lost.                                    *)
LEMMA FewerSub ==
  ASSUME NEW w \in Seq(Message), NEW k \in 0..Len(w)
  PROVE  Fewer(w, SubSeq(w, 1, k))
<1>1. Len(w) \in Nat /\ k \in Nat /\ k <= Len(w)
  BY LenProperties
<1>2. PICK v : v = SubSeq(w, 1, k)
  OBVIOUS
<1>3. /\ v \in Seq(Message) /\ Len(v) = k
      /\ \A j \in 1..k : v[j] = w[j]
  BY <1>1, <1>2
<1>4. 0 \in Nat /\ \A j \in 1..k : j + 0 = j /\ j \in 1..Len(w)
  BY <1>1
<1>5. Fewer(w, v)
  BY <1>3, <1>4, Zenon DEF Fewer
<1> QED
  BY <1>2, <1>5

(* Lemma: a broker takes a message.                                        *)
LEMMA WiresTaken ==
  ASSUME TypeOK, NEW p \in Peers, wire[Other(p)] # <<>>,
         wire' = WireAfterTake(p)
  PROVE  WiresQuiet
<1>1. wire \in [Peers -> Seq(Message)] /\ Other(p) \in Peers
  BY TwoPeers DEF TypeOK
<1>2. /\ wire'[Other(p)] = Tail(wire[Other(p)])
      /\ \A q \in Peers \ {Other(p)} : wire'[q] = wire[q]
  BY <1>1 DEF WireAfterTake
<1>3. Fewer(wire[Other(p)], wire'[Other(p)])
  BY <1>1, <1>2, FewerTail
<1>4. ASSUME NEW q \in Peers \ {Other(p)} PROVE Fewer(wire[q], wire'[q])
  <2>1. 0 \in Nat /\ \A j \in 1..Len(wire[q]) : j + 0 = j
    OBVIOUS
  <2> QED
    BY <1>1, <1>2, <2>1, Zenon DEF Fewer
<1> QED
  BY <1>3, <1>4 DEF WiresQuiet

(* Lemma: another kind of message is sent.                                 *)
LEMMA WiresSent ==
  ASSUME TypeOK, NEW p \in Peers, NEW m \in Message, m.type # "cancel",
         wire' = [wire EXCEPT ![p] = Append(@, m)]
  PROVE  WiresQuiet
<1>1. wire \in [Peers -> Seq(Message)]
  BY DEF TypeOK
<1>2. /\ wire'[p] = Append(wire[p], m)
      /\ \A q \in Peers \ {p} : wire'[q] = wire[q]
  BY <1>1
<1>3. OneMore(wire[p], wire'[p])
  BY <1>2 DEF OneMore
<1>4. ASSUME NEW q \in Peers \ {p} PROVE Fewer(wire[q], wire'[q])
  <2>1. 0 \in Nat /\ \A j \in 1..Len(wire[q]) : j + 0 = j
    OBVIOUS
  <2> QED
    BY <1>1, <1>2, <2>1, Zenon DEF Fewer
<1> QED
  BY <1>3, <1>4 DEF WiresQuiet

(* Lemma: a broker panics, having taken a message or not.                  *)
LEMMA WiresLost ==
  ASSUME TypeOK, NEW p \in Peers,
         \/ LosePart(wire, p)
         \/ wire[Other(p)] # <<>> /\ LosePart(WireAfterTake(p), p)
  PROVE  WiresQuiet
<1>1. /\ wire \in [Peers -> Seq(Message)] /\ Other(p) \in Peers
      /\ Other(p) # p /\ \A q \in Peers : q = p \/ q = Other(p)
  BY TwoPeers DEF TypeOK
<1>2. Fewer(wire[Other(p)], wire[Other(p)])
  <2>1. 0 \in Nat /\ \A j \in 1..Len(wire[Other(p)]) : j + 0 = j
    OBVIOUS
  <2> QED
    BY <1>1, <2>1, Zenon DEF Fewer
<1>3. CASE LosePart(wire, p)
  <2>1. PICK k \in 0..Len(wire[p]) :
          wire' = [wire EXCEPT ![p] = SubSeq(@, 1, k)]
    BY <1>3 DEF LosePart
  <2>2. /\ wire'[p] = SubSeq(wire[p], 1, k)
        /\ wire'[Other(p)] = wire[Other(p)]
    BY <1>1, <2>1
  <2>3. Fewer(wire[p], wire'[p])
    BY <1>1, <2>2, FewerSub
  <2> QED
    BY <1>1, <1>2, <2>2, <2>3 DEF WiresQuiet
<1>4. CASE wire[Other(p)] # <<>> /\ LosePart(WireAfterTake(p), p)
  <2>1. /\ WireAfterTake(p)[p] = wire[p]
        /\ WireAfterTake(p)[Other(p)] = Tail(wire[Other(p)])
        /\ DOMAIN WireAfterTake(p) = Peers
    BY <1>1 DEF WireAfterTake
  <2>2. PICK x : x = WireAfterTake(p)
    OBVIOUS
  <2>3. PICK k \in 0..Len(x[p]) :
          wire' = [x EXCEPT ![p] = SubSeq(@, 1, k)]
    BY <1>4, <2>2 DEF LosePart
  <2>4. /\ wire'[p] = SubSeq(wire[p], 1, k) /\ k \in 0..Len(wire[p])
        /\ wire'[Other(p)] = Tail(wire[Other(p)])
    BY <1>1, <2>1, <2>2, <2>3
  <2>5. Fewer(wire[p], wire'[p])
    BY <1>1, <2>4, FewerSub
  <2>6. Fewer(wire[Other(p)], wire'[Other(p)])
    BY <1>1, <1>4, <2>4, FewerTail
  <2> QED
    BY <1>1, <2>5, <2>6 DEF WiresQuiet
<1> QED
  BY <1>3, <1>4

(* Lemma: a broker ends.                                                   *)
LEMMA HandlesDown ==
  ASSUME TypeOK, NEW p \in Peers, Stop(p) \/ Panic(p)
  PROVE  HandlesQuiet
<1>1. ~Up(p)'
  BY DEF Stop, Panic, Goto, TypeOK, Up
<1>2. \A q \in Peers \ {p} : /\ broker'[q] = broker[q]
                             /\ outgoing_streams'[q] = outgoing_streams[q]
  BY DEF Stop, Panic, Goto, TypeOK, Release
<1> QED
  BY <1>1, <1>2 DEF HandlesQuiet, Up

(* Lemma: a broker goes on.                                                *)
LEMMA HandlesSame ==
  ASSUME UNCHANGED outgoing_streams,
         \A q \in Peers : Up(q)' => Up(q)
  PROVE  HandlesQuiet
BY DEF HandlesQuiet

(* Lemma: a broker that waits for its output, or is idle, is up whatever   *)
(* it does next.                                                           *)
LEMMA StaysUp ==
  ASSUME TypeOK, NEW p \in Peers, Up(p),
         NEW pc, NEW c, NEW i, Goto(p, pc, c, i)
  PROVE  \A q \in Peers : Up(q)' => Up(q)
<1>1. \A q \in Peers \ {p} : broker'[q] = broker[q]
  BY DEF Goto, TypeOK
<1> QED
  BY <1>1 DEF Up

(* Lemma: the broker's steps other than those on cancels and the start of  *)
(* a loop.                                                                 *)
LEMMA CancelsBroker ==
  ASSUME RpcIInv, Cancels, NEW p \in Peers,
         \/ \E c \in Cmds : TakeStartCommand(p, c)
         \/ SendCommand(p) \/ SendCommandClosed(p) \/ TakeTerminate(p)
         \/ SendError(p) \/ SendErrorClosed(p)
         \/ TakeResponse(p) \/ TakeEnd(p) \/ TakeError(p)
  PROVE  Cancels'
<1>1. TypeOK
  BY DEF RpcIInv
<1>2. UNCHANGED <<owner, cancel_sent, stream>>
  BY DEF TakeStartCommand, SendCommand, SendCommandClosed, TakeTerminate,
         SendError, SendErrorClosed, TakeResponse, TakeEnd, TakeError
<1>3. LoopsQuiet
  BY <1>2 DEF LoopsQuiet
<1>4. SUFFICES WiresQuiet /\ HandlesQuiet
  BY <1>1, <1>2, <1>3, CancelsQuiet
<1>5. CASE \E c \in Cmds : TakeStartCommand(p, c)
  <2>1. PICK c \in Cmds : TakeStartCommand(p, c)
    BY <1>5
  <2>2. wire' = wire /\ outgoing_streams' = outgoing_streams /\ Up(p)
    BY <2>1 DEF TakeStartCommand, wireVars, IsIdle, Up
  <2>3. \E pc, d, i : Goto(p, pc, d, i)
    BY <2>1 DEF TakeStartCommand
  <2> QED
    BY <1>1, <2>2, <2>3, WiresSame, StaysUp, HandlesSame
<1>6. CASE SendCommand(p)
  <2>1. PICK m : m = [type |-> "cmd", id |-> broker[p].id,
                      cmd |-> broker[p].cmd]
    OBVIOUS
  <2>2. m \in Message /\ m.type # "cancel"
    BY <1>6, <2>1 DEF SendCommand, RpcIInv, BrokerHolds, Message
  <2>3. /\ wire' = [wire EXCEPT ![p] = Append(@, m)]
        /\ outgoing_streams' = outgoing_streams
        /\ Goto(p, "idle", None, None) /\ Up(p)
    BY <1>6, <2>1 DEF SendCommand, Up
  <2> QED
    BY <1>1, <2>2, <2>3, WiresSent, StaysUp, HandlesSame
<1>7. CASE SendCommandClosed(p)
  <2>1. wire' = wire /\ Up(p)
    BY <1>7 DEF SendCommandClosed, wireVars, Up
  <2>2. \/ Stop(p)
        \/ /\ outgoing_streams' = outgoing_streams
           /\ Goto(p, "idle", None, None)
    BY <1>7, Zenon DEF SendCommandClosed
  <2> QED
    BY <1>1, <2>1, <2>2, WiresSame, StaysUp, HandlesSame, HandlesDown
<1>8. CASE TakeTerminate(p)
  BY <1>1, <1>8, WiresLost, HandlesDown DEF TakeTerminate
<1>9. CASE SendError(p)
  <2>1. PICK m : m = [type |-> "error", id |-> broker[p].id]
    OBVIOUS
  <2>2. m \in Message /\ m.type # "cancel"
    BY <1>9, <2>1 DEF SendError, RpcIInv, BrokerHolds, Message
  <2>3. wire' = [wire EXCEPT ![p] = Append(@, m)] /\ Up(p)
    BY <1>9, <2>1 DEF SendError, Up
  <2>4. \/ Stop(p)
        \/ /\ outgoing_streams' = outgoing_streams
           /\ Goto(p, "idle", None, None)
    BY <1>9, Zenon DEF SendError, tableVars
  <2> QED
    BY <1>1, <2>2, <2>3, <2>4, WiresSent, StaysUp, HandlesSame, HandlesDown
<1>10. CASE SendErrorClosed(p)
  <2>1. Up(p)
    BY <1>10 DEF SendErrorClosed, Up
  <2>2. \/ Panic(p) /\ LosePart(wire, p)
        \/ Stop(p) /\ wire' = wire
        \/ /\ outgoing_streams' = outgoing_streams /\ wire' = wire
           /\ Goto(p, "idle", None, None)
    BY <1>10, Zenon DEF SendErrorClosed, tableVars, wireVars
  <2> QED
    BY <1>1, <2>1, <2>2, WiresSame, WiresLost, StaysUp, HandlesSame,
       HandlesDown
<1>11. CASE TakeResponse(p)
  <2>1. wire[Other(p)] # <<>> /\ Up(p)
    BY <1>11 DEF TakeResponse, CanTake, IsIdle, Up
  <2>2. \/ Panic(p) /\ LosePart(WireAfterTake(p), p)
        \/ /\ wire' = WireAfterTake(p)
           /\ outgoing_streams' = outgoing_streams
           /\ \E pc, c, i : Goto(p, pc, c, i)
    BY <1>11 DEF TakeResponse, Take, tableVars
  <2> QED
    BY <1>1, <2>1, <2>2, WiresTaken, WiresLost, StaysUp, HandlesSame,
       HandlesDown
<1>12. CASE TakeEnd(p)
  <2>1. /\ wire[Other(p)] # <<>> /\ Up(p) /\ wire' = WireAfterTake(p)
        /\ outgoing_streams' = outgoing_streams
    BY <1>12 DEF TakeEnd, Take, CanTake, IsIdle, Up
  <2>2. broker' = broker \/ \E pc, c, i : Goto(p, pc, c, i)
    BY <1>12 DEF TakeEnd
  <2>3. \A q \in Peers : Up(q)' => Up(q)
    BY <1>1, <2>1, <2>2, StaysUp DEF Up
  <2> QED
    BY <1>1, <2>1, <2>3, WiresTaken, HandlesSame
<1>13. CASE TakeError(p)
  BY <1>1, <1>13, WiresTaken, HandlesDown DEF TakeError, Take, CanTake
<1> QED
  BY <1>5, <1>6, <1>7, <1>8, <1>9, <1>10, <1>11, <1>12, <1>13

(* Lemma: the steps of an endpoint outside its broker.                     *)
LEMMA CancelsOutside ==
  ASSUME RpcIInv, Cancels,
         \/ \E p \in Peers : DropChannel(p) \/ PipesBreak(p)
         \/ UNCHANGED vars
  PROVE  Cancels'
<1>1. TypeOK /\ wire \in [Peers -> Seq(Message)]
  BY DEF RpcIInv, TypeOK
<1>2. UNCHANGED <<owner, cancel_sent, outgoing_streams, broker, stream>>
  BY DEF DropChannel, PipesBreak, tableVars, vars
<1>3. LoopsQuiet /\ HandlesQuiet
  BY <1>2 DEF LoopsQuiet, HandlesQuiet, Up
<1>4. WiresQuiet
  <2>1. CASE wire' = wire
    BY <1>1, <2>1, WiresSame
  <2>2. ASSUME NEW p \in Peers, PipesBreak(p) PROVE WiresQuiet
    <3>1. /\ wire'[p] = <<>>
          /\ \A q \in Peers \ {p} : wire'[q] = wire[q]
      BY <1>1, <2>2 DEF PipesBreak
    <3>2. 0 \in Nat /\ \A j \in Int : j + 0 = j
      OBVIOUS
    <3>3. /\ <<>> \in Seq(Message)
          /\ \A j \in 1..Len(<<>>) : FALSE
      BY EmptySeq
    <3>4. Fewer(wire[p], <<>>)
      BY <3>2, <3>3 DEF Fewer
    <3>5. ASSUME NEW q \in Peers \ {p} PROVE Fewer(wire[q], wire'[q])
      <4>1. \A j \in 1..Len(wire[q]) : j + 0 = j
        OBVIOUS
      <4> QED
        BY <1>1, <3>1, <3>2, <4>1, Zenon DEF Fewer
    <3> QED
      BY <3>1, <3>4, <3>5 DEF WiresQuiet
  <2> QED
    BY <2>1, <2>2 DEF DropChannel, wireVars, vars
<1> QED
  BY <1>1, <1>2, <1>3, <1>4, CancelsQuiet

(* Lemma: the steps of a command's client, handler and loop.               *)
LEMMA CancelsCommand ==
  ASSUME RpcIInv, Cancels, NEW c \in Cmds,
         \/ ClientStep(c) \/ HandlerEmits(c) \/ HandlerCloses(c)
         \/ LoopStep(c)
  PROVE  Cancels'
<1>1. TypeOK /\ wire \in [Peers -> Seq(Message)] /\ owner[c] \in Peers
  BY RpcAssumption DEF RpcIInv, TypeOK
<1>2. Server(c) \in Peers
  BY <1>1, TwoPeers DEF Server
<1>3. UNCHANGED <<owner, cancel_sent, outgoing_streams>>
  BY DEF ClientStep, SubmitCommand, ClientReads,
         ClientSeesEnd, ClientDrops, HandlerEmits, HandlerCloses, LoopStep,
         LoopSendsResponse, LoopSendsEnd, LoopFails, tableVars
<1>4. LoopsQuiet
  <2>1. \/ stream' = stream
        \/ HandlerEmits(c) \/ HandlerCloses(c) \/ LoopStep(c)
    BY DEF ClientStep, SubmitCommand, ClientReads,
           ClientSeesEnd, ClientDrops
  <2>2. stream \in [Cmds -> LoopState]
    BY <1>1 DEF TypeOK
  <2>3. CASE stream' = stream
    BY <2>3 DEF LoopsQuiet
  <2>4. CASE HandlerEmits(c) \/ HandlerCloses(c) \/ LoopStep(c)
    <3>1. /\ Running(c)
          /\ \A d \in Cmds \ {c} : stream'[d] = stream[d]
          /\ stream'[c].id = stream[c].id
      BY <2>2, <2>4
         DEF HandlerEmits, HandlerCloses, LoopStep, LoopSendsResponse,
             LoopSendsEnd, LoopFails, LoopState
    <3> QED
      BY <3>1 DEF LoopsQuiet, Running
  <2> QED
    BY <2>1, <2>3, <2>4
<1>5. HandlesQuiet
  <2>1. \/ broker' = broker
        \/ Unblock(c)
    BY DEF ClientStep, SubmitCommand, ClientReads,
           ClientSeesEnd, ClientDrops, HandlerEmits, HandlerCloses,
           LoopStep, LoopSendsResponse, LoopSendsEnd, LoopFails
  <2>2. \A q \in Peers : Up(q)' => Up(q)
    BY <1>1, <2>1 DEF Unblock, Up, TypeOK
  <2> QED
    BY <1>3, <2>2, HandlesSame
<1>6. WiresQuiet
  <2>1. CASE wire' = wire
    BY <1>1, <2>1, WiresSame
  <2>2. CASE LoopSendsResponse(c)
    <3>1. PICK m : m = [type |-> "resp", id |-> stream[c].id,
                        payload |-> <<c, stream[c].sent + 1>>]
      OBVIOUS
    <3>2. m \in Message /\ m.type # "cancel"
      <4>1. /\ stream[c].sent \in Nat /\ stream[c].emitted \in Nat
            /\ stream[c].emitted <= MaxResponses
            /\ stream[c].sent < stream[c].emitted
            /\ stream[c].id \in Ids /\ MaxResponses \in Nat
        BY <2>2, RpcAssumption
           DEF LoopSendsResponse, RpcIInv, LoopsHaveIds, TypeOK, LoopState
      <4>2. stream[c].sent + 1 \in 1..MaxResponses
        BY <4>1
      <4> QED
        BY <3>1, <4>1, <4>2 DEF Message, Response
    <3>3. wire' = [wire EXCEPT ![Server(c)] = Append(@, m)]
      BY <2>2, <3>1 DEF LoopSendsResponse
    <3> QED
      BY <1>1, <1>2, <3>2, <3>3, WiresSent
  <2>3. CASE LoopSendsEnd(c)
    <3>1. PICK m : m = [type |-> "end", id |-> stream[c].id]
      OBVIOUS
    <3>2. m \in Message /\ m.type # "cancel"
      BY <2>3, <3>1 DEF LoopSendsEnd, RpcIInv, LoopsHaveIds, Message
    <3>3. wire' = [wire EXCEPT ![Server(c)] = Append(@, m)]
      BY <2>3, <3>1 DEF LoopSendsEnd
    <3> QED
      BY <1>1, <1>2, <3>2, <3>3, WiresSent
  <2>4. wire' = wire \/ LoopSendsResponse(c) \/ LoopSendsEnd(c)
    BY DEF ClientStep, SubmitCommand, ClientReads,
           ClientSeesEnd, ClientDrops, HandlerEmits, HandlerCloses,
           LoopStep, LoopFails, wireVars
  <2> QED
    BY <2>1, <2>2, <2>3, <2>4
<1> QED
  BY <1>1, <1>3, <1>4, <1>5, <1>6, CancelsQuiet

(* Lemma: a command is taken.  If its loop starts, the cancels with its id *)
(* are all behind it: its own.                                             *)
LEMMA CancelsTakeCommand ==
  ASSUME RpcIInv, Delivery, Cancels, NEW p \in Peers, TakeCommand(p)
  PROVE  Cancels'
<1>1. /\ TypeOK /\ wire \in [Peers -> Seq(Message)]
      /\ stream \in [Cmds -> LoopState]
      /\ Other(p) \in Peers /\ Other(p) # p /\ Other(Other(p)) = p
      /\ \A q \in Peers : q = p \/ q = Other(p)
      /\ \A d \in Cmds : owner[d] \in Peers
  BY TwoPeers, RpcAssumption DEF RpcIInv, TypeOK
<1>2. /\ wire[Other(p)] # <<>> /\ Up(p) /\ wire' = WireAfterTake(p)
      /\ Incoming(p).type = "cmd" /\ UNCHANGED <<owner, cancel_sent>>
  BY DEF TakeCommand, CanTake, IsIdle, Up, Take
<1>3. PICK w \in Seq(Message) : w = wire[Other(p)] /\ w # <<>>
  BY <1>1, <1>2
<1>4. PICK m \in Message : m = Head(w) /\ m = Incoming(p)
  BY <1>3, TailShape DEF Incoming
<1>5. m.type = "cmd" /\ m.id \in Ids /\ m.cmd \in Cmds
  BY <1>2, <1>4, MessageShape
<1>6. CASE /\ UNCHANGED <<outgoing_streams, stream>>
           /\ \E pc, i : Goto(p, pc, None, i)
  <2>1. WiresQuiet
    BY <1>1, <1>2, WiresTaken
  <2>2. HandlesQuiet
    BY <1>1, <1>2, <1>6, StaysUp, HandlesSame
  <2>3. LoopsQuiet
    BY <1>6 DEF LoopsQuiet
  <2> QED
    BY <1>1, <1>2, <2>1, <2>2, <2>3, CancelsQuiet
<1>7. CASE /\ outgoing_streams[p][m.id] = None
           /\ outgoing_streams' =
                [outgoing_streams EXCEPT ![p][m.id] = m.cmd]
           /\ stream' = [stream EXCEPT ![m.cmd] =
                           [NoLoop EXCEPT !.loop = "running", !.id = m.id]]
           /\ UNCHANGED broker
  <2>1. PICK v \in Seq(Message) : v = Tail(w)
    BY <1>3, TailShape
  <2>2. /\ Len(w) = Len(v) + 1 /\ w[1] = m /\ 1 \in 1..Len(w)
        /\ \A j \in 1..Len(v) : v[j] = w[j + 1] /\ j + 1 \in 1..Len(w)
    BY <1>3, <1>4, <2>1, TailShape
  <2>3. CancelsOK(w, Other(p), stream, owner, cancel_sent)
    BY <1>1, <1>3 DEF Cancels
  <2>4. owner[m.cmd] = Other(p)
    <3>1. OutOK(w, Other(p), stream, owner)
      BY <1>1, <1>3 DEF Delivery, Outbound
    <3> QED
      BY <1>5, <2>2, <3>1 DEF OutOK
  <2>5. /\ stream'[m.cmd].loop = "running" /\ stream'[m.cmd].id = m.id
        /\ \A d \in Cmds \ {m.cmd} : stream'[d] = stream[d]
    BY <1>1, <1>5, <1>7 DEF NoLoop
  <2>6. CancelsOK(v, Other(p), stream, owner, cancel_sent)
    <3>1. 1 \in Nat
      OBVIOUS
    <3> QED
      BY <2>2, <2>3, <3>1, CancelsSub, Zenon
  <2>7. ASSUME NEW k \in 1..Len(v), v[k].type = "cancel", v[k].id = m.id
        PROVE  cancel_sent[m.cmd]
    <3>1. /\ k + 1 \in 1..Len(w) /\ w[k + 1] = v[k] /\ 1 < k + 1
      BY <2>2
    <3>2. CancelOK(w, k + 1, Other(p), stream, owner, cancel_sent)
      BY <2>3, <2>7, <3>1, Zenon DEF CancelsOK
    <3> QED
      BY <1>5, <2>2, <2>7, <3>1, <3>2, Zenon DEF CancelOK
  <2>8. CancelsOK(v, Other(p), stream', owner, cancel_sent)
    <3>1. ASSUME NEW d \in Cmds, stream'[d].loop = "running"
          PROVE  \/ stream[d].loop = "running" /\ stream'[d].id = stream[d].id
                 \/ \A k \in 1..Len(v) :
                      v[k].type = "cancel" /\ v[k].id = stream'[d].id
                        => cancel_sent[d]
      BY <2>5, <2>7, <3>1
    <3> QED
      BY <2>6, <3>1, CancelsFrame, Zenon
  <2>9. CancelsOK(wire[p], p, stream', owner, cancel_sent)
    <3>1. CancelsOK(wire[p], p, stream, owner, cancel_sent)
      BY DEF Cancels
    <3>2. \A d \in Cmds : owner[d] = p /\ stream'[d].loop = "running" =>
            stream[d].loop = "running" /\ stream'[d].id = stream[d].id
      BY <1>1, <2>4, <2>5
    <3>3. wire[p] \in Seq(Message)
      BY <1>1
    <3> QED
      BY <3>1, <3>2, <3>3, CancelsFrame, Zenon
  <2>10. wire'[Other(p)] = v /\ wire'[p] = wire[p]
    BY <1>1, <1>2, <1>3, <2>1 DEF WireAfterTake
  <2>11. \A q \in Peers :
           CancelsOK(wire'[q], q, stream', owner', cancel_sent')
    BY <1>1, <1>2, <2>8, <2>9, <2>10
  <2>12. CancelHasACause'
    <3> SUFFICES ASSUME NEW d \in Cmds, Cancelled(d)', Up(Server(d))'
                 PROVE  cancel_sent[d]
      BY <1>2 DEF CancelHasACause
    <3>1. PICK q \in Peers : q = Server(d) /\ Server(d)' = q /\ Up(q)
      BY <1>1, <1>2, <1>7, TwoPeers DEF Server, Up
    <3>2. outgoing_streams \in [Peers -> [Ids -> Cmds \cup {None}]]
      BY <1>1 DEF TypeOK
    <3>3. CASE d = m.cmd
      <4>1. q = p
        BY <1>1, <2>4, <3>1, <3>3 DEF Server
      <4>2. outgoing_streams'[p][m.id] = m.cmd
        BY <1>5, <1>7, <3>2
      <4> QED
        BY <2>5, <3>1, <3>3, <4>1, <4>2 DEF Cancelled
    <3>4. CASE d # m.cmd
      <4>1. stream'[d] = stream[d] /\ Running(d) /\ stream[d].id \in Ids
        BY <2>5, <3>4 DEF Cancelled, Running, RpcIInv, LoopsHaveIds
      <4>2. PICK i \in Ids : i = stream[d].id
        BY <4>1
      <4>3. outgoing_streams[q][i] # d
        <5>1. outgoing_streams'[q][i] # d
          BY <3>1, <4>1, <4>2 DEF Cancelled
        <5>2. \/ outgoing_streams'[q][i] = outgoing_streams[q][i]
              \/ outgoing_streams[q][i] = None
          BY <1>5, <1>7, <3>2
        <5>3. d # None
          BY RpcAssumption
        <5> QED
          BY <5>1, <5>2, <5>3
      <4>4. Cancelled(d)
        BY <3>1, <4>1, <4>2, <4>3 DEF Cancelled
      <4> QED
        BY <3>1, <4>4 DEF Cancels, CancelHasACause
    <3> QED
      BY <3>3, <3>4
  <2> QED
    BY <2>11, <2>12 DEF Cancels
<1> QED
  BY <1>4, <1>6, <1>7 DEF TakeCommand

(* Lemma: a cancel is taken: it is for the loop that runs on its id.       *)
LEMMA CancelsTakeCancel ==
  ASSUME RpcIInv, Cancels, NEW p \in Peers, TakeCancel(p)
  PROVE  Cancels'
<1>1. /\ TypeOK /\ wire \in [Peers -> Seq(Message)]
      /\ Other(p) \in Peers
      /\ \A d \in Cmds : owner[d] \in Peers
      /\ outgoing_streams \in [Peers -> [Ids -> Cmds \cup {None}]]
  BY TwoPeers, RpcAssumption DEF RpcIInv, TypeOK
<1>2. /\ wire[Other(p)] # <<>> /\ wire' = WireAfterTake(p)
      /\ UNCHANGED <<owner, cancel_sent, stream, broker>>
  BY DEF TakeCancel, CanTake, Take
<1>3. PICK w \in Seq(Message) : w = wire[Other(p)] /\ w # <<>>
  BY <1>1, <1>2
<1>4. PICK m \in Message :
        /\ m = Head(w) /\ m = Incoming(p) /\ m.type = "cancel"
        /\ outgoing_streams' = [outgoing_streams EXCEPT ![p][m.id] = None]
  BY <1>3, TailShape DEF Incoming, TakeCancel, CanTake
<1>5. ASSUME NEW q \in Peers
      PROVE  CancelsOK(wire'[q], q, stream', owner', cancel_sent')
  <2>1. CancelsOK(wire[q], q, stream, owner, cancel_sent)
    BY DEF Cancels
  <2>2. PICK u, x :
        u = wire[q] /\ x = wire'[q] /\ u \in Seq(Message)
    BY <1>1
  <2>3. CASE q = Other(p)
    <3>1. x = Tail(w) /\ u = w
      BY <1>1, <1>2, <1>3, <2>2, <2>3 DEF WireAfterTake
    <3>2. /\ x \in Seq(Message)
          /\ \A j \in 1..Len(x) : j + 1 \in 1..Len(u) /\ x[j] = u[j + 1]
      BY <1>3, <3>1, TailShape
    <3>3. 1 \in Nat
      OBVIOUS
    <3>4. CancelsOK(x, q, stream, owner, cancel_sent)
      BY <2>1, <2>2, <3>2, <3>3, CancelsSub, Zenon
    <3> QED
      BY <1>2, <2>2, <3>4
  <2>4. CASE q # Other(p)
    <3>1. wire'[q] = wire[q]
      BY <1>1, <1>2, <2>4 DEF WireAfterTake
    <3> QED
      BY <1>2, <2>1, <3>1
  <2> QED
    BY <2>3, <2>4
<1>6. CancelHasACause'
  <2> SUFFICES ASSUME NEW d \in Cmds, Cancelled(d)', Up(Server(d))'
               PROVE  cancel_sent[d]
    BY <1>2 DEF CancelHasACause
  <2>1. PICK q \in Peers : q = Server(d) /\ Server(d)' = q /\ Up(q)
    BY <1>1, <1>2, TwoPeers DEF Server, Up
  <2>2. Running(d) /\ stream'[d] = stream[d]
    BY <1>2 DEF Cancelled, Running
  <2>3. CASE q = p /\ stream[d].id = m.id
    <3>1. owner[d] = Other(p)
      BY <1>1, <2>1, <2>3, TwoPeers DEF Server
    <3>2. /\ CancelsOK(w, Other(p), stream, owner, cancel_sent)
          /\ 1 \in 1..Len(w) /\ w[1] = m
      BY <1>1, <1>3, <1>4, TailShape DEF Cancels
    <3>3. CancelOK(w, 1, Other(p), stream, owner, cancel_sent)
      BY <1>4, <3>2, Zenon DEF CancelsOK
    <3> QED
      BY <2>2, <2>3, <3>1, <3>2, <3>3 DEF CancelOK, Running
  <2>4. CASE ~(q = p /\ stream[d].id = m.id)
    <3>1. outgoing_streams'[q][stream[d].id]
            = outgoing_streams[q][stream[d].id]
      BY <1>1, <1>4, <2>2, <2>4 DEF RpcIInv, LoopsHaveIds
    <3>2. Cancelled(d)
      BY <2>1, <2>2, <3>1 DEF Cancelled
    <3> QED
      BY <2>1, <3>2 DEF Cancels, CancelHasACause
  <2> QED
    BY <2>3, <2>4
<1> QED
  BY <1>5, <1>6 DEF Cancels

(* Lemma: a cancel is sent: the sink on its id is the one of the loop that *)
(* runs on it, and of the command in flight that has it.                   *)
LEMMA CancelsSend ==
  ASSUME RpcIInv, Delivery, Cancels, NEW p \in Peers, NEW i \in Ids,
         SendCancel(p, i)
  PROVE  Cancels'
<1>1. /\ wire \in [Peers -> Seq(Message)]
      /\ incoming_streams \in [Peers -> [Ids -> Cmds \cup {None}]]
      /\ cancel_sent \in [Cmds -> BOOLEAN]
  BY DEF RpcIInv, TypeOK
<1>2. PICK c \in Cmds :
        /\ c = incoming_streams[p][i]
        /\ cancel_sent' = [cancel_sent EXCEPT ![c] = TRUE]
  BY <1>1 DEF SendCancel
<1>3. PICK m \in Message : m = [type |-> "cancel", id |-> i]
  BY DEF Message
<1>4. /\ wire' = [wire EXCEPT ![p] = Append(@, m)] /\ Up(p)
      /\ UNCHANGED <<owner, stream, broker, outgoing_streams>>
  BY <1>3 DEF SendCancel, IsIdle, Up, tableVars
<1>5. /\ cancel_sent'[c] /\ \A d \in Cmds : cancel_sent[d] => cancel_sent'[d]
  BY <1>1, <1>2
<1>6. CancelHasACause'
  <2>1. \A d \in Cmds : Cancelled(d)' = Cancelled(d)
    BY <1>4 DEF Cancelled, Running, Server
  <2>2. \A d \in Cmds : Up(Server(d))' = Up(Server(d))
    BY <1>4 DEF Server, Up
  <2> QED
    BY <1>5, <2>1, <2>2 DEF Cancels, CancelHasACause
<1>7. ASSUME NEW q \in Peers
      PROVE  CancelsOK(wire[q], q, stream, owner, cancel_sent')
  <2>1. CancelsOK(wire[q], q, stream, owner, cancel_sent)
    BY DEF Cancels
  <2>2. wire[q] \in Seq(Message)
    BY <1>1
  <2> QED
    BY <1>5, <2>1, <2>2, CancelsFrame, Zenon
<1>8. CancelsOK(wire'[p], p, stream, owner, cancel_sent')
  <2>1. PICK w \in Seq(Message) : w = wire[p]
    BY <1>1
  <2>2. ASSUME NEW d \in Cmds, owner[d] = p, stream[d].loop = "running",
               stream[d].id = m.id
        PROVE  cancel_sent'[d]
    <3>1. incoming_streams[p][i] = d
      BY <1>3, <1>4, <2>2 DEF Delivery, Loops, Running
    <3> QED
      BY <1>2, <1>5, <3>1
  <2>3. ASSUME NEW j \in 1..Len(w), w[j].type = "cmd", w[j].id = m.id
        PROVE  cancel_sent'[w[j].cmd]
    <3>1. incoming_streams[p][i] = w[j].cmd
      BY <1>3, <1>4, <2>1, <2>3 DEF Delivery, Outbound, OutReg
    <3> QED
      BY <1>2, <1>5, <3>1
  <2>4. CancelsOK(w, p, stream, owner, cancel_sent')
    BY <1>7, <2>1
  <2>5. CancelsOK(Append(w, m), p, stream, owner, cancel_sent')
    BY <2>2, <2>3, <2>4, CancelsAppend, Zenon
  <2>6. wire'[p] = Append(w, m)
    BY <1>1, <1>4, <2>1
  <2> QED
    BY <2>5, <2>6
<1>9. \A q \in Peers \ {p} : wire'[q] = wire[q]
  BY <1>1, <1>4
<1>10. \A q \in Peers : CancelsOK(wire'[q], q, stream', owner', cancel_sent')
  BY <1>4, <1>7, <1>8, <1>9
<1> QED
  BY <1>6, <1>10 DEF Cancels

(* No handler is told to stop before its own command was cancelled or its  *)
(* broker went down, however late a cancel arrives and however soon the id *)
(* it names is used again.                                                 *)
THEOREM CancelHasACauseThm ==
  ASSUME OneCommandPerId
  PROVE  Spec => []CancelHasACause
<1>1. Init => Cancels
  <2> SUFFICES ASSUME Init PROVE Cancels
    OBVIOUS
  <2>1. \A c \in Cmds : stream[c].loop = "none"
    BY DEF Init, NoLoop
  <2>2. CancelHasACause
    BY <2>1 DEF CancelHasACause, Cancelled, Running
  <2>3. \A q \in Peers : wire[q] = <<>>
    BY DEF Init
  <2>4. \A j \in 1..Len(<<>>) : FALSE
    BY EmptySeq
  <2>5. \A q \in Peers : CancelsOK(wire[q], q, stream, owner, cancel_sent)
    BY <2>3, <2>4 DEF CancelsOK
  <2> QED
    BY <2>2, <2>5 DEF Cancels
<1>2. RpcIInv /\ Delivery /\ Cancels /\ [Next]_vars => Cancels'
  <2> SUFFICES ASSUME RpcIInv, Delivery, Cancels, [Next]_vars
               PROVE  Cancels'
    OBVIOUS
  <2>1. ASSUME NEW p \in Peers, BrokerStep(p) PROVE Cancels'
    BY <2>1, CancelsBroker, CancelsTakeCommand, CancelsTakeCancel
       DEF BrokerStep
  <2>2. ASSUME NEW p \in Peers, NEW i \in Ids, SendCancel(p, i)
        PROVE  Cancels'
    BY <2>2, CancelsSend
  <2>3. ASSUME NEW p \in Peers, DropChannel(p) \/ PipesBreak(p)
        PROVE  Cancels'
    BY <2>3, CancelsOutside
  <2>4. ASSUME NEW c \in Cmds,
               \/ ClientStep(c) \/ HandlerEmits(c) \/ HandlerCloses(c)
               \/ LoopStep(c)
        PROVE  Cancels'
    BY <2>4, CancelsCommand
  <2>5. CASE UNCHANGED vars
    BY <2>5, CancelsOutside
  <2> QED
    BY <2>1, <2>2, <2>3, <2>4, <2>5 DEF Next
<1>3. Cancels => CancelHasACause
  BY DEF Cancels
<1> QED
  BY <1>1, <1>2, <1>3, DeliveryInvariant, PTL DEF Spec
=============================================================================
