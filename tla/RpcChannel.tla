----------------------------- MODULE RpcChannel -----------------------------
(***************************************************************************)
(* The command channel of crates/common/src/net/rpc: two endpoints that    *)
(* multiplex commands and streams of responses over one connection.        *)
(*                                                                         *)
(* Each endpoint runs a broker task (broker.rs), a pipe in and a pipe out  *)
(* (mod.rs, new_message_channel), one sender loop per command it serves    *)
(* and a ClientChannel through which the application submits commands.     *)
(* The channel(0) between a broker and its output pipe, the pipes and the  *)
(* transport are one bounded FIFO, wire[p]: what p sent and the broker of  *)
(* the other endpoint has not taken yet.  A response is the pair of the    *)
(* command whose handler produced it and its place in that stream.         *)
(***************************************************************************)
EXTENDS Naturals, Sequences

CONSTANTS
  Peers,          \* the two endpoints of the connection
  Cmds,           \* the commands the applications submit, one call each
  Assignments,    \* who submits what: owner is one of these functions
  Conforming,     \* the endpoints that implement the documented protocol
                  \* (they pick free ids and may cancel), not this code
  MaxId,          \* stands for u32::max_value()
  MaxResponses,   \* bound: responses one handler produces
  HandlerBuffer,  \* stands for the mpsc::channel(10) of a handler
  WireCapacity,   \* bound: messages in flight in one direction
  None            \* absent entry

ASSUME RpcAssumption ==
  /\ \E a, b \in Peers : a # b /\ Peers = {a, b}
  /\ Assignments \subseteq [Cmds -> Peers]
  /\ Conforming \subseteq Peers
  /\ MaxId \in Nat \ {0}
  /\ MaxResponses \in Nat
  /\ HandlerBuffer \in Nat \ {0}
  /\ WireCapacity \in Nat \ {0}
  /\ None \notin Cmds \cup Nat

VARIABLES
  owner,            \* owner[c]: whose application submits c; never changes
  broker,           \* where the broker task of each endpoint stands
  next_id,          \* Broker.next_id
  incoming_streams, \* id -> command whose response sink is registered
  outgoing_streams, \* id -> command whose cancel handle is registered
  wire,             \* messages sent by the endpoint, in flight
  output_open,      \* the receiver of the endpoint's output channel exists
  channel,          \* the ClientChannel of the endpoint
  client,           \* send_command and the response stream it returned
  slot,             \* the channel(0) between broker and response stream
  got,              \* history: responses the application has read
  clean_end,        \* history: the stream was closed by an end message
  cancel_sent,      \* history: the owner has sent a cancel message
  stream            \* handler and sender loop serving each command

clientVars == <<channel, client, slot, got>>
tableVars  == <<next_id, incoming_streams, outgoing_streams>>
wireVars   == <<wire, output_open>>
vars == <<owner, broker, tableVars, wireVars, clientVars, clean_end,
          cancel_sent, stream>>

-----------------------------------------------------------------------------
Ids == 1..MaxId
Other(p) == CHOOSE q \in Peers : q # p
Server(c) == Other(owner[c])

(* The messages of msg.rs; "cmd" carries the command it stands for, "resp" *)
(* the response.                                                           *)
Response == Cmds \X (1..MaxResponses)
Message ==
  [type : {"cmd"}, id : Ids, cmd : Cmds]
    \cup [type : {"resp"}, id : Ids, payload : Response]
    \cup [type : {"cancel", "end", "error"}, id : Ids]

NoStreams == [i \in Ids |-> None]
Idle == [pc |-> "idle", cmd |-> None, id |-> None]
BrokerState ==
  [pc : {"idle", "sendCommand", "sendRefusal", "sendReject", "sendStray",
         "flush", "stopped", "panicked"},
   cmd : Cmds \cup {None}, id : Ids \cup {None}]
LoopState ==
  [loop : {"none", "running", "done"}, id : Ids \cup {None}, emitted : Nat,
   sent : Nat, closed : BOOLEAN]
NoLoop == [loop |-> "none", id |-> None, emitted |-> 0, sent |-> 0,
           closed |-> FALSE]

Up(p) == broker[p].pc \notin {"stopped", "panicked"}
IsIdle(p) == broker[p].pc = "idle"
(* Mutant: an output without back pressure.                                *)
CanSendUnbounded(p) == output_open[p] /\ Len(wire[p]) <= WireCapacity
CanSend(p) == output_open[p] /\ Len(wire[p]) < WireCapacity
Running(c) == stream[c].loop = "running"
Goto(p, pc, c, i) ==
  broker' = [broker EXCEPT ![p] = [pc |-> pc, cmd |-> c, id |-> i]]

(* The application's side of the response sink still exists: in the event  *)
(* queue, in the broker's hands or in incoming_streams.                    *)
SinkAlive(c) ==
  LET p == owner[c]
  IN \/ client[c] = "queued"
     \/ broker[p].pc = "sendCommand" /\ broker[p].cmd = c
     \/ \E i \in Ids : incoming_streams[p][i] = c

(* The handler's CancelToken resolves once its CancelHandle is dropped.    *)
Cancelled(c) ==
  Running(c) /\ outgoing_streams[Server(c)][stream[c].id] # c

-----------------------------------------------------------------------------
(* Mutant: the cancel handles outlive the broker.                          *)
ReleaseKeepsHandles(p) ==
  /\ incoming_streams' = [incoming_streams EXCEPT ![p] = NoStreams]
  /\ client' = [c \in Cmds |->
                  IF owner[c] = p /\ client[c] = "queued" THEN "open"
                                                          ELSE client[c]]
  /\ channel' = [channel EXCEPT ![p] = IF @ = "dropping" THEN "dropped" ELSE @]
  /\ UNCHANGED <<next_id, outgoing_streams, slot, got>>

(* The broker task of p ends: its event receiver (with the queued events), *)
(* its sinks and its cancel handles are dropped.                           *)
Release(p) ==
  /\ incoming_streams' = [incoming_streams EXCEPT ![p] = NoStreams]
  /\ outgoing_streams' = [outgoing_streams EXCEPT ![p] = NoStreams]
  /\ client' = [c \in Cmds |->
                  IF owner[c] = p /\ client[c] = "queued" THEN "open"
                                                          ELSE client[c]]
  /\ channel' = [channel EXCEPT ![p] = IF @ = "dropping" THEN "dropped" ELSE @]
  /\ UNCHANGED <<next_id, slot, got>>

(* start returns after an error; the pipes of the endpoint live on.        *)
Stop(p) ==
  /\ Goto(p, "stopped", None, None)
  /\ Release(p)

(* A panic takes the whole joined task, pipes and output receiver          *)
(* included: what had not left the endpoint yet is lost.                   *)
Panic(p) ==
  /\ Goto(p, "panicked", None, None)
  /\ Release(p)
  /\ output_open' = [output_open EXCEPT ![p] = FALSE]

LosePart(w, p) ==
  \E k \in 0..Len(w[p]) : wire' = [w EXCEPT ![p] = SubSeq(@, 1, k)]

-----------------------------------------------------------------------------
(* The application.                                                        *)

(* send_command: the event is queued if the broker still listens.  The     *)
(* call borrows the ClientChannel, so an endpoint has one in progress.     *)
SubmitCommand(c) ==
  /\ client[c] = "idle"
  /\ channel[owner[c]] = "open"
  /\ \A d \in Cmds : owner[d] = owner[c] => client[d] # "queued"
  /\ client' = [client EXCEPT ![c] = IF Up(owner[c]) THEN "queued"
                                                     ELSE "failed"]
  /\ UNCHANGED <<owner, broker, tableVars, wireVars, channel, slot, got,
                 clean_end, cancel_sent, stream>>

(* Taking or dropping the value in the channel(0) lets the broker's        *)
(* sink.send(..).await complete.                                           *)
Unblock(c) ==
  broker' = [broker EXCEPT ![owner[c]] =
               IF @.pc = "flush" /\ @.cmd = c THEN Idle ELSE @]

ClientReads(c) ==
  /\ client[c] = "open"
  /\ slot[c] # <<>>
  /\ got' = [got EXCEPT ![c] = Append(@, Head(slot[c]))]
  /\ slot' = [slot EXCEPT ![c] = Tail(@)]
  /\ Unblock(c)
  /\ UNCHANGED <<owner, tableVars, wireVars, channel, client, clean_end,
                 cancel_sent, stream>>

ClientSeesEnd(c) ==
  /\ client[c] = "open"
  /\ slot[c] = <<>>
  /\ ~SinkAlive(c)
  /\ client' = [client EXCEPT ![c] = "ended"]
  /\ UNCHANGED <<owner, broker, tableVars, wireVars, channel, slot, got,
                 clean_end, cancel_sent, stream>>

(* The application drops the response stream before its end.               *)
ClientDrops(c) ==
  /\ client[c] = "open"
  /\ client' = [client EXCEPT ![c] = "dropped"]
  /\ slot' = [slot EXCEPT ![c] = <<>>]
  /\ Unblock(c)
  /\ UNCHANGED <<owner, tableVars, wireVars, channel, got, clean_end,
                 cancel_sent, stream>>

(* Drop for ClientChannel: a task sends the terminate event.               *)
DropChannel(p) ==
  /\ channel[p] = "open"
  /\ \A c \in Cmds : owner[c] = p => client[c] # "queued"
  /\ channel' = [channel EXCEPT ![p] = IF Up(p) THEN "dropping"
                                                ELSE "dropped"]
  /\ UNCHANGED <<owner, broker, tableVars, wireVars, client, slot, got,
                 clean_end, cancel_sent, stream>>

-----------------------------------------------------------------------------
(* The broker: events of its own application.                              *)

(* take_new_id: the id and the new value of next_id.                       *)
take_new_id(n) == [id |-> n, next |-> IF n = MaxId THEN 1 ELSE n]

FreeIds(p) == {i \in Ids : incoming_streams[p][i] = None}

TakeStartCommand(p, c) ==
  /\ IsIdle(p)
  /\ owner[c] = p
  /\ client[c] = "queued"
  /\ client' = [client EXCEPT ![c] = "open"]
  /\ \/ /\ p \notin Conforming
        /\ next_id' = [next_id EXCEPT ![p] = take_new_id(@).next]
        /\ Goto(p, "sendCommand", c, take_new_id(next_id[p]).id)
     \/ /\ p \in Conforming
        /\ \E i \in FreeIds(p) : Goto(p, "sendCommand", c, i)
        /\ UNCHANGED next_id
  /\ UNCHANGED <<owner, incoming_streams, outgoing_streams, wireVars, channel,
                 slot, got, clean_end, cancel_sent, stream>>

Register(p) ==
  incoming_streams' =
    [incoming_streams EXCEPT ![p][broker[p].id] = broker[p].cmd]

(* handle_start_command, from client_send.send on: the sink is registered  *)
(* once the command message is out.                                        *)
SendCommand(p) ==
  /\ broker[p].pc = "sendCommand"
  /\ CanSend(p)
  /\ wire' = [wire EXCEPT ![p] =
                Append(@, [type |-> "cmd", id |-> broker[p].id,
                           cmd |-> broker[p].cmd])]
  /\ Register(p)
  /\ Goto(p, "idle", None, None)
  /\ UNCHANGED <<owner, next_id, outgoing_streams, output_open, clientVars,
                 clean_end, cancel_sent, stream>>

(* The output receiver is gone: send fails if it had not queued the        *)
(* message, and succeeds with the message lost if it had.                  *)
SendCommandClosed(p) ==
  /\ broker[p].pc = "sendCommand"
  /\ ~output_open[p]
  /\ \/ Stop(p)
     \/ /\ Register(p)
        /\ Goto(p, "idle", None, None)
        /\ UNCHANGED <<next_id, outgoing_streams, clientVars>>
  /\ UNCHANGED <<owner, wireVars, clean_end, cancel_sent, stream>>

(* The terminate event meets todo!().                                      *)
TakeTerminate(p) ==
  /\ IsIdle(p)
  /\ channel[p] = "dropping"
  /\ Panic(p)
  /\ LosePart(wire, p)
  /\ UNCHANGED <<owner, clean_end, cancel_sent, stream>>

-----------------------------------------------------------------------------
(* The broker: handle_message.  p takes the oldest message of the other    *)
(* endpoint.                                                               *)
Incoming(p) == Head(wire[Other(p)])
CanTake(p, type) ==
  /\ IsIdle(p)
  /\ wire[Other(p)] # <<>>
  /\ Incoming(p).type = type
WireAfterTake(p) == [wire EXCEPT ![Other(p)] = Tail(@)]
Take(p) == wire' = WireAfterTake(p)

(* A command on an id in outgoing_streams is refused and the channel goes  *)
(* on; a handler may reject it, which ends the channel; otherwise its      *)
(* cancel handle is registered and its sender loop spawned.                *)
TakeCommand(p) ==
  LET i == Incoming(p).id
      c == Incoming(p).cmd
  IN /\ CanTake(p, "cmd")
     /\ Take(p)
     /\ \/ /\ outgoing_streams[p][i] # None
           /\ Goto(p, "sendRefusal", None, i)
           /\ UNCHANGED <<outgoing_streams, stream>>
        \/ /\ outgoing_streams[p][i] = None
           /\ Goto(p, "sendReject", None, i)
           /\ UNCHANGED <<outgoing_streams, stream>>
        \/ /\ outgoing_streams[p][i] = None
           /\ outgoing_streams' = [outgoing_streams EXCEPT ![p][i] = c]
           /\ stream' = [stream EXCEPT ![c] =
                           [NoLoop EXCEPT !.loop = "running", !.id = i]]
           /\ UNCHANGED broker
     /\ UNCHANGED <<owner, next_id, incoming_streams, output_open, clientVars,
                    clean_end, cancel_sent>>

(* The error messages of handle_message.  Only the refusal of a running id *)
(* keeps the broker going.                                                 *)
SendError(p) ==
  /\ broker[p].pc \in {"sendRefusal", "sendReject", "sendStray"}
  /\ CanSend(p)
  /\ wire' = [wire EXCEPT ![p] =
                Append(@, [type |-> "error", id |-> broker[p].id])]
  /\ \/ /\ broker[p].pc = "sendRefusal"
        /\ Goto(p, "idle", None, None)
        /\ UNCHANGED <<tableVars, clientVars>>
     \/ /\ broker[p].pc # "sendRefusal"
        /\ Stop(p)
  /\ UNCHANGED <<owner, output_open, clean_end, cancel_sent, stream>>

(* With the output receiver gone the send fails, on which two of the three *)
(* places unwrap, or succeeds with the message lost.                       *)
SendErrorClosed(p) ==
  /\ broker[p].pc \in {"sendRefusal", "sendReject", "sendStray"}
  /\ ~output_open[p]
  /\ \/ /\ broker[p].pc \in {"sendRefusal", "sendReject"}
        /\ Panic(p)
        /\ LosePart(wire, p)
     \/ /\ broker[p].pc = "sendRefusal"
        /\ Goto(p, "idle", None, None)
        /\ UNCHANGED <<tableVars, clientVars, wireVars>>
     \/ /\ broker[p].pc # "sendRefusal"
        /\ Stop(p)
        /\ UNCHANGED wireVars
  /\ UNCHANGED <<owner, clean_end, cancel_sent, stream>>

(* Mutants: the cancel is ignored; it hits the table of the broker's own   *)
(* commands.                                                               *)
TakeCancelIgnored(p) ==
  /\ CanTake(p, "cancel")
  /\ Take(p)
  /\ UNCHANGED <<owner, broker, tableVars, output_open, clientVars,
                 clean_end, cancel_sent, stream>>

TakeCancelWrongTable(p) ==
  /\ CanTake(p, "cancel")
  /\ Take(p)
  /\ incoming_streams' =
       [incoming_streams EXCEPT ![p][Incoming(p).id] = None]
  /\ UNCHANGED <<owner, broker, next_id, outgoing_streams, output_open,
                 clientVars, clean_end, cancel_sent, stream>>

(* Removing the entry drops the cancel handle; an absent id is ignored.    *)
TakeCancel(p) ==
  /\ CanTake(p, "cancel")
  /\ Take(p)
  /\ outgoing_streams' =
       [outgoing_streams EXCEPT ![p][Incoming(p).id] = None]
  /\ UNCHANGED <<owner, broker, next_id, incoming_streams, output_open,
                 clientVars, clean_end, cancel_sent, stream>>

(* Mutant: the broker does not wait for the application (the newest        *)
(* response replaces one not yet read).                                    *)
TakeResponseNewest(p) ==
  LET c == incoming_streams[p][Incoming(p).id]
  IN /\ CanTake(p, "resp")
     /\ Take(p)
     /\ c \in Cmds
     /\ slot' = [slot EXCEPT ![c] = <<Incoming(p).payload>>]
     /\ UNCHANGED <<owner, broker, tableVars, output_open, channel, client,
                    got, clean_end, cancel_sent, stream>>

(* A response goes to the registered sink: the broker waits until the      *)
(* application has taken it, and panics if the stream was dropped.  A      *)
(* response to an unallocated id is a protocol error.                      *)
TakeResponse(p) ==
  LET i == Incoming(p).id
      c == incoming_streams[p][i]
  IN /\ CanTake(p, "resp")
     /\ \/ /\ c \in Cmds
           /\ client[c] = "dropped"
           /\ Panic(p)
           /\ LosePart(WireAfterTake(p), p)
        \/ /\ Take(p)
           /\ IF c = None
                THEN /\ Goto(p, "sendStray", None, i)
                     /\ UNCHANGED slot
                ELSE /\ client[c] # "dropped"
                     /\ slot' = [slot EXCEPT ![c] =
                                   Append(@, Incoming(p).payload)]
                     /\ Goto(p, "flush", c, None)
           /\ UNCHANGED <<tableVars, output_open, channel, client, got>>
     /\ UNCHANGED <<owner, clean_end, cancel_sent, stream>>

(* An end message drops the sink, which ends the application's stream.     *)
TakeEnd(p) ==
  LET i == Incoming(p).id
      c == incoming_streams[p][i]
  IN /\ CanTake(p, "end")
     /\ Take(p)
     /\ IF c = None
          THEN /\ Goto(p, "sendStray", None, i)
               /\ UNCHANGED <<incoming_streams, clean_end>>
          ELSE /\ incoming_streams' = [incoming_streams EXCEPT ![p][i] = None]
               /\ clean_end' = [clean_end EXCEPT ![c] = TRUE]
               /\ UNCHANGED broker
     /\ UNCHANGED <<owner, next_id, outgoing_streams, output_open, clientVars,
                    cancel_sent, stream>>

(* Mutant: an error from the peer is unwrapped.                            *)
TakeErrorPanics(p) ==
  /\ CanTake(p, "error")
  /\ Panic(p)
  /\ LosePart(WireAfterTake(p), p)
  /\ UNCHANGED <<owner, clean_end, cancel_sent, stream>>

(* An error from the peer terminates the channel.                          *)
TakeError(p) ==
  /\ CanTake(p, "error")
  /\ Take(p)
  /\ Stop(p)
  /\ UNCHANGED <<owner, output_open, clean_end, cancel_sent, stream>>

-----------------------------------------------------------------------------
(* The serving side: a handler and its stream_sender_loop.                 *)

HandlerEmits(c) ==
  /\ Running(c)
  /\ ~stream[c].closed
  /\ stream[c].emitted < MaxResponses
  /\ stream[c].emitted - stream[c].sent < HandlerBuffer
  /\ stream' = [stream EXCEPT ![c].emitted = @ + 1]
  /\ UNCHANGED <<owner, broker, tableVars, wireVars, clientVars, clean_end,
                 cancel_sent>>

HandlerCloses(c) ==
  /\ Running(c)
  /\ ~stream[c].closed
  /\ stream' = [stream EXCEPT ![c].closed = TRUE]
  /\ UNCHANGED <<owner, broker, tableVars, wireVars, clientVars, clean_end,
                 cancel_sent>>

LoopSendsResponse(c) ==
  LET s == Server(c)
  IN /\ Running(c)
     /\ stream[c].sent < stream[c].emitted
     /\ CanSend(s)
     /\ wire' = [wire EXCEPT ![s] =
                   Append(@, [type |-> "resp", id |-> stream[c].id,
                              payload |-> <<c, stream[c].sent + 1>>])]
     /\ stream' = [stream EXCEPT ![c].sent = @ + 1]
     /\ UNCHANGED <<owner, broker, tableVars, output_open, clientVars,
                    clean_end, cancel_sent>>

(* Mutant: the end message overtakes the responses still queued.           *)
LoopSendsEndEarly(c) ==
  LET s == Server(c)
  IN /\ Running(c)
     /\ stream[c].closed
     /\ CanSend(s)
     /\ wire' = [wire EXCEPT ![s] =
                   Append(@, [type |-> "end", id |-> stream[c].id])]
     /\ stream' = [stream EXCEPT ![c].loop = "done"]
     /\ UNCHANGED <<owner, broker, tableVars, output_open, clientVars,
                    clean_end, cancel_sent>>

(* End follows the last response.  The id stays in outgoing_streams.       *)
LoopSendsEnd(c) ==
  LET s == Server(c)
  IN /\ Running(c)
     /\ stream[c].closed
     /\ stream[c].sent = stream[c].emitted
     /\ CanSend(s)
     /\ wire' = [wire EXCEPT ![s] =
                   Append(@, [type |-> "end", id |-> stream[c].id])]
     /\ stream' = [stream EXCEPT ![c].loop = "done"]
     /\ UNCHANGED <<owner, broker, tableVars, output_open, clientVars,
                    clean_end, cancel_sent>>

(* The output receiver is gone: the loop returns the send error, and the   *)
(* handler's channel closes.                                               *)
LoopFails(c) ==
  /\ Running(c)
  /\ \/ stream[c].sent < stream[c].emitted
     \/ stream[c].closed
  /\ ~output_open[Server(c)]
  /\ stream' = [stream EXCEPT ![c].loop = "done"]
  /\ UNCHANGED <<owner, broker, tableVars, wireVars, clientVars, clean_end,
                 cancel_sent>>

-----------------------------------------------------------------------------
(* The transport and the protocol peer.                                    *)

(* A message that reaches an endpoint whose broker is gone makes the pipes *)
(* fail one after the other, back to the sender's output receiver.         *)
PipesBreak(p) ==
  /\ ~Up(Other(p))
  /\ output_open[p]
  /\ wire[p] # <<>>
  /\ wire' = [wire EXCEPT ![p] = <<>>]
  /\ output_open' = [output_open EXCEPT ![p] = FALSE]
  /\ UNCHANGED <<owner, broker, tableVars, clientVars, clean_end, cancel_sent,
                 stream>>

(* A peer that implements the cancel message cancels one of its commands.  *)
SendCancel(p, i) ==
  LET c == incoming_streams[p][i]
  IN /\ p \in Conforming
     /\ IsIdle(p)
     /\ CanSend(p)
     /\ c # None
     /\ ~cancel_sent[c]
     /\ cancel_sent' = [cancel_sent EXCEPT ![c] = TRUE]
     /\ wire' = [wire EXCEPT ![p] = Append(@, [type |-> "cancel", id |-> i])]
     /\ UNCHANGED <<owner, broker, tableVars, output_open, clientVars,
                    clean_end, stream>>

-----------------------------------------------------------------------------
Init ==
  /\ owner \in Assignments
  /\ broker = [p \in Peers |-> Idle]
  /\ next_id = [p \in Peers |-> 1]
  /\ incoming_streams = [p \in Peers |-> NoStreams]
  /\ outgoing_streams = [p \in Peers |-> NoStreams]
  /\ wire = [p \in Peers |-> <<>>]
  /\ output_open = [p \in Peers |-> TRUE]
  /\ channel = [p \in Peers |-> "open"]
  /\ client = [c \in Cmds |-> "idle"]
  /\ slot = [c \in Cmds |-> <<>>]
  /\ got = [c \in Cmds |-> <<>>]
  /\ clean_end = [c \in Cmds |-> FALSE]
  /\ cancel_sent = [c \in Cmds |-> FALSE]
  /\ stream = [c \in Cmds |-> NoLoop]

BrokerStep(p) ==
  \/ \E c \in Cmds : TakeStartCommand(p, c)
  \/ SendCommand(p)
  \/ SendCommandClosed(p)
  \/ TakeTerminate(p)
  \/ TakeCommand(p)
  \/ SendError(p)
  \/ SendErrorClosed(p)
  \/ TakeCancel(p)
  \/ TakeResponse(p)
  \/ TakeEnd(p)
  \/ TakeError(p)

LoopStep(c) == LoopSendsResponse(c) \/ LoopSendsEnd(c) \/ LoopFails(c)

ClientStep(c) ==
  \/ SubmitCommand(c)
  \/ ClientReads(c)
  \/ ClientSeesEnd(c)
  \/ ClientDrops(c)

Next ==
  \/ \E p \in Peers : BrokerStep(p) \/ DropChannel(p) \/ PipesBreak(p)
  \/ \E p \in Peers, i \in Ids : SendCancel(p, i)
  \/ \E c \in Cmds : ClientStep(c) \/ HandlerEmits(c) \/ HandlerCloses(c)
  \/ \E c \in Cmds : LoopStep(c)

(* The steps somebody has to take: the executor runs the tasks that can    *)
(* run, an application keeps reading the streams it holds, and a handler   *)
(* honours its cancel token.  A handler need not end otherwise, and nobody *)
(* has to submit or drop anything.                                         *)
Progress ==
  \/ \E p \in Peers : BrokerStep(p) \/ PipesBreak(p)
  \/ \E c \in Cmds : \/ LoopStep(c)
                     \/ ClientReads(c)
                     \/ ClientSeesEnd(c)
                     \/ Cancelled(c) /\ HandlerCloses(c)

(* Every step uses up something bounded (a command, a response, a message, *)
(* a client's stream), so fairness of the whole is fairness of each part.  *)
Spec == Init /\ [][Next]_vars /\ WF_vars(Progress)

-----------------------------------------------------------------------------
(* Properties.                                                             *)

(* Every variable has its type: at most one value in a response channel of *)
(* capacity 0, at most WireCapacity messages in flight.                    *)
TypeOK ==
  /\ owner \in Assignments
  /\ broker \in [Peers -> BrokerState]
  /\ next_id \in [Peers -> Ids]
  /\ incoming_streams \in [Peers -> [Ids -> Cmds \cup {None}]]
  /\ outgoing_streams \in [Peers -> [Ids -> Cmds \cup {None}]]
  /\ wire \in [Peers -> Seq(Message)]
  /\ \A p \in Peers : Len(wire[p]) <= WireCapacity
  /\ output_open \in [Peers -> BOOLEAN]
  /\ channel \in [Peers -> {"open", "dropping", "dropped"}]
  /\ client \in [Cmds -> {"idle", "queued", "open", "ended", "dropped",
                          "failed"}]
  /\ slot \in [Cmds -> Seq(Response)]
  /\ \A c \in Cmds : Len(slot[c]) <= 1
  /\ got \in [Cmds -> Seq(Response)]
  /\ clean_end \in [Cmds -> BOOLEAN]
  /\ cancel_sent \in [Cmds -> BOOLEAN]
  /\ stream \in [Cmds -> LoopState]
  /\ \A c \in Cmds : /\ stream[c].sent <= stream[c].emitted
                     /\ stream[c].emitted <= MaxResponses

(* A response stream only carries responses to its own command ("an ID     *)
(* indicating which command this is in response to", mod.rs).              *)
ResponsesMatchCommand ==
  \A c \in Cmds : \A i \in DOMAIN got[c] : got[c][i][1] = c

(* What the application has read is a gapless, duplicate-free prefix of    *)
(* what its command's handler produced, in the order it produced it, over  *)
(* handler channel, sender loop, connection, peer broker and response      *)
(* channel, whatever fails on the way.                                     *)
DeliveredIsPrefix ==
  \A c \in Cmds :
    /\ Len(got[c]) <= stream[c].sent
    /\ \A i \in DOMAIN got[c] : got[c][i] = <<c, i>>

(* A stream the application saw end after an end message has delivered     *)
(* everything the handler produced: a clean end is never a truncation.     *)
CleanEndIsComplete ==
  \A c \in Cmds :
    client[c] = "ended" /\ clean_end[c] =>
      /\ stream[c].loop = "done"
      /\ Len(got[c]) = stream[c].emitted

(* Two sender loops of one endpoint never share an id, cancelled commands  *)
(* (whose entry in outgoing_streams is gone while they run) included.      *)
LoopsHaveDistinctIds ==
  \A c, d \in Cmds :
    Running(c) /\ Running(d) /\ Server(c) = Server(d)
      /\ stream[c].id = stream[d].id => c = d

(* No broker ever meets a response or an end for an id it has not          *)
(* allocated, although handle_start_command registers the sink only after  *)
(* the command is on its way, and although ids are freed and reused while  *)
(* the loop of a cancelled command still runs.                             *)
NoStrayMessage ==
  /\ \A p \in Peers : broker[p].pc # "sendStray"
  /\ LoopsHaveDistinctIds

(* A broker panics only because its own application dropped a response     *)
(* stream or its ClientChannel, or because the other endpoint is down:     *)
(* never while both applications hold on to what they were given.          *)
PanicNeedsDrop ==
  \A p \in Peers :
    broker[p].pc = "panicked" =>
      \/ \E c \in Cmds : owner[c] = p /\ client[c] = "dropped"
      \/ channel[p] = "dropped"
      \/ ~Up(Other(p))

(* A refused command met a command that is still running on its id: "Once  *)
(* B sends an end message, that ID is considered free once again" (mod.rs) *)
RefusedOnlyWhileRunning ==
  \A p \in Peers :
    broker[p].pc = "sendRefusal" =>
      \E c \in Cmds : /\ Server(c) = p
                      /\ Running(c)
                      /\ stream[c].id = broker[p].id

(* Both brokers wait for room in a full output while neither takes what    *)
(* the other has sent: nothing but a new failure gets them out of it.      *)
Gridlock ==
  \A p \in Peers : /\ broker[p].pc \in {"sendCommand", "sendRefusal",
                                        "sendReject", "sendStray"}
                   /\ Len(wire[p]) = WireCapacity

(* A cancelled command's stream comes to its end, unless a broker goes     *)
(* down or the two brokers block each other.                               *)
CancelTakesEffect ==
  \A c \in Cmds :
    cancel_sent[c] ~> \/ client[c] # "open"
                      \/ \E p \in Peers : ~Up(p)
                      \/ Gridlock

(* Once an endpoint's broker is down, the applications that wait on it do  *)
(* not hang and its handlers and sender loops all come to an end: no task  *)
(* of the endpoint is leaked.                                              *)
DownReleasesTasks ==
  \A c \in Cmds :
    /\ ~Up(Server(c)) ~> ~Running(c)
    /\ ~Up(owner[c]) ~> client[c] \notin {"queued", "open"}

=============================================================================
