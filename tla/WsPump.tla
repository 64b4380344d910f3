------------------------------- MODULE WsPump -------------------------------
(***************************************************************************)
(* The WebSocket pump of a channel: start_websocket_rpc of net/mod.rs,     *)
(* handle_websocket_message_stream of net/ws.rs and the combinators of     *)
(* future/pipe.rs they are built from.  Every combinator spawns a task     *)
(* that takes from bounded channels and sends into others.  Nobody tells   *)
(* a task to stop: it ends when its input is over, when its function says  *)
(* so, or when it finds its receiver dropped, and then drops its own ends, *)
(* which the tasks next to it notice in their turn.                        *)
(*                                                                         *)
(*   wire -> on_error -ok-> on_close -open-> split                         *)
(*   split -msg-> on_binary -text-> the application                        *)
(*   split -keep_alive-> pings -pong-> merge                               *)
(*   the application -out-> merge -merged-> send -> socket                 *)
(*                                                                         *)
(* A task that only hands on (map, wrap, connect, map_before) is part of   *)
(* the channel it ends: it adds to what the channel holds, and it may take *)
(* one more item before it finds the far end dropped.                      *)
(***************************************************************************)
EXTENDS Naturals, Sequences

CONSTANTS
  Scripts,   \* what the WebSocket stream may yield: sequences of Kinds
  MaxSends   \* texts the application sends in a behaviour

\* What the WebSocket stream yields: the frames of tungstenite, and errors.
Kinds == {"text", "binary", "ping", "pong", "close", "error"}

ASSUME PumpAssumption ==
  /\ Scripts \subseteq Seq(Kinds)
  /\ MaxSends \in Nat

\* The channels a stage takes from and sends into.
Ins == [on_error |-> {"wire"}, on_close |-> {"ok"}, split |-> {"open"},
        on_binary |-> {"msg"}, pings |-> {"keep_alive"},
        merge |-> {"out", "pong"}, send |-> {"merged"}]

Outs == [on_error |-> {"ok"}, on_close |-> {"open"},
         split |-> {"msg", "keep_alive"}, on_binary |-> {"text"},
         pings |-> {"pong"}, merge |-> {"merged"}, send |-> {"socket"}]

Stages == DOMAIN Ins

\* What a channel holds with the tasks that hand on along it.  A channel(0)
\* has one place.  A loop around `send(item).await` goes on when its item
\* was taken; run_pipe (send_all) reads one item ahead, and so does the
\* with_flat_map of map_before: `ok`, `open`, `text` and `pong` are one
\* place, and a place and an item in hand behind it; `out` is three pipes.
Cap == [wire |-> 0, ok |-> 3, open |-> 3, msg |-> 1, keep_alive |-> 1,
        text |-> 3, pong |-> 3, out |-> 7, merged |-> 4, socket |-> 0]

Channels == DOMAIN Cap

\* The channels with a task that hands on between their ends.
HandedOn == {"ok", "open", "text", "pong", "out", "merged"}

VARIABLES
  chan,     \* [Channels -> Seq]: sent and not yet taken; socket: written
  running,  \* the stages whose task has not ended
  frames,   \* what the WebSocket stream yields
  inOpen,   \* it has not ended after that
  sinkOk,   \* the WebSocket sink still takes frames
  reader,   \* the application's read side: reading, stalled or gone
  sender,   \* the application still has the PipeStart
  sent,     \* texts the application has sent
  got       \* what the application has read

vars == <<chan, running, frames, inOpen, sinkOk, reader, sender, sent, got>>
outside == <<frames, inOpen, sinkOk, reader, sender, sent, got>>

Item(kind, n) == [kind |-> kind, n |-> n]

Init ==
  /\ frames \in {[i \in DOMAIN f |-> Item(f[i], i)] : f \in Scripts}
  /\ chan = [c \in Channels |-> IF c = "wire" THEN frames ELSE <<>>]
  /\ running = Stages
  /\ inOpen = TRUE /\ sinkOk = TRUE
  /\ reader = "reading" /\ sender = TRUE /\ sent = 0 /\ got = <<>>

-----------------------------------------------------------------------------
(* Channels.                                                               *)

\* The receiver of c exists.
Live(c) ==
  CASE c = "text" -> reader # "gone"
    [] c = "socket" -> sinkOk
    [] OTHER -> \E s \in running : c \in Ins[s]

\* A sender of c exists.
Open(c) ==
  CASE c = "wire" -> inOpen
    [] c = "out" -> sender
    [] OTHER -> \E s \in running : c \in Outs[s]

\* A stage takes its next item only when it got rid of the last: there is
\* room, or nobody is there to receive and the send returns at once.
Ready(c) == c = "socket" \/ Len(chan[c]) < Cap[c] \/ ~Live(c)

\* A dropped receiver takes with it what the channel holds.
Dropped(ch, cs) == [c \in Channels |-> IF c \in cs THEN <<>> ELSE ch[c]]

\* The task of stage s ends: its receivers and senders are dropped.
Stops(s, ch) ==
  /\ running' = running \ {s}
  /\ chan' = Dropped(ch, Ins[s])

-----------------------------------------------------------------------------
(* What a stage does with an item: where it goes, if anywhere.             *)

\* either_split of ws.rs: application messages left, keep-alives right.
SplitTo(item) ==
  IF item.kind \in {"text", "binary"} THEN "msg" ELSE "keep_alive"

\* The break of end_on_error, and the None of the two end_map functions.
Ends(s, item) ==
  \/ s = "on_error" /\ item.kind = "error"
  \/ s = "on_close" /\ item.kind = "close"
  \/ s = "on_binary" /\ item.kind = "binary"

\* The None of the filter_map function: a pong is dropped.
Skips(s, item) == s = "pings" /\ item.kind = "pong"

\* The map behind filter_map turns a ping into its answer, on the way to
\* the merge; the other maps rename and keep kind and payload apart.
Mapped(s, item) ==
  IF s = "pings" THEN [item EXCEPT !.kind = "reply"] ELSE item

Target(s, item) ==
  IF s = "split" THEN SplitTo(item) ELSE CHOOSE c \in Outs[s] : TRUE

-----------------------------------------------------------------------------
(* The steps of a stage.                                                   *)

\* What Take does with the head of channel c.
Pass(s, c) ==
  LET item == Head(chan[c])
      rest == [chan EXCEPT ![c] = Tail(@)]
      to == Target(s, item)
      passes == ~Ends(s, item) /\ ~Skips(s, item)
  IN \/ Ends(s, item) /\ Stops(s, rest)
     \/ /\ Skips(s, item) \/ (passes /\ ~Live(to) /\ to \in HandedOn)
        /\ chan' = rest /\ UNCHANGED running
     \/ passes /\ ~Live(to) /\ Stops(s, rest)
     \/ /\ passes /\ Live(to)
        /\ chan' = [rest EXCEPT ![to] = Append(@, Mapped(s, item))]
        /\ UNCHANGED running

\* Mutant: the answers are chained behind the application's messages.
TakeChained(s, c) ==
  /\ s \in running /\ chan[c] # <<>>
  /\ c = "pong" => ~Open("out") /\ chan["out"] = <<>>
  /\ \A d \in Outs[s] : Ready(d)
  /\ Pass(s, c)
  /\ UNCHANGED outside

\* A loop, or send_all, takes an item from channel c and passes it on.  With
\* the receiver gone the send fails and the task ends, unless a task that
\* hands on takes the item and finds out itself.
Take(s, c) ==
  /\ s \in running /\ chan[c] # <<>>
  /\ \A d \in Outs[s] : Ready(d)
  /\ Pass(s, c)
  /\ UNCHANGED outside

\* The pipe behind the merge had an item in hand when its receiver went.
MergeFails ==
  /\ "merge" \in running /\ ~Live("merged")
  /\ Stops("merge", chan)
  /\ UNCHANGED outside

\* Mutant: a merged stream ends with the first of its two inputs.
FinishEarly(s) ==
  /\ s \in running
  /\ \E c \in Ins[s] : ~Open(c) /\ chan[c] = <<>>
  /\ \A d \in Outs[s] : Ready(d)
  /\ Stops(s, chan)
  /\ UNCHANGED outside

\* Mutant: the loop of either_split waits on after the end of its input.
FinishButSplit(s) ==
  /\ s \in running /\ s # "split"
  /\ \A c \in Ins[s] : ~Open(c) /\ chan[c] = <<>>
  /\ \A d \in Outs[s] : Ready(d)
  /\ Stops(s, chan)
  /\ UNCHANGED outside

\* All inputs of s are over; what it sent stays in the channel.
Finish(s) ==
  /\ s \in running
  /\ \A c \in Ins[s] : ~Open(c) /\ chan[c] = <<>>
  /\ \A d \in Outs[s] : Ready(d)
  /\ Stops(s, chan)
  /\ UNCHANGED outside

StageStep(s) == (\E c \in Ins[s] : Take(s, c)) \/ Finish(s)

-----------------------------------------------------------------------------
(* The peer, the socket and the application.                               *)

\* The stream yields no more, after what is still in it.
StreamEnds ==
  /\ inOpen /\ inOpen' = FALSE
  /\ UNCHANGED <<chan, running, frames, sinkOk, reader, sender, sent, got>>

\* The socket refuses what is written to it from now on.
SinkBreaks ==
  /\ sinkOk /\ sinkOk' = FALSE
  /\ UNCHANGED <<chan, running, frames, inOpen, reader, sender, sent, got>>

\* The RPC channel's pipe takes a text from the stream it was given.
AppReads ==
  /\ reader = "reading" /\ chan["text"] # <<>>
  /\ got' = Append(got, Head(chan["text"]))
  /\ chan' = [chan EXCEPT !["text"] = Tail(@)]
  /\ UNCHANGED <<running, frames, inOpen, sinkOk, reader, sender, sent>>

\* Its broker is stuck and takes no more, or has ended and dropped it.
AppStalls ==
  /\ reader = "reading" /\ reader' = "stalled"
  /\ UNCHANGED <<chan, running, frames, inOpen, sinkOk, sender, sent, got>>

AppLeaves ==
  /\ reader # "gone" /\ reader' = "gone"
  /\ chan' = Dropped(chan, {"text"})
  /\ UNCHANGED <<running, frames, inOpen, sinkOk, sender, sent, got>>

AppSends ==
  /\ sender /\ sent < MaxSends /\ Ready("out")
  /\ sent' = sent + 1
  /\ chan' = IF Live("out")
             THEN [chan EXCEPT !["out"] = Append(@, Item("send", sent + 1))]
             ELSE chan
  /\ UNCHANGED <<running, frames, inOpen, sinkOk, reader, sender, got>>

\* The sender goes: the RPC channel ended, or a send failed.
AppCloses ==
  /\ sender /\ sender' = FALSE
  /\ UNCHANGED <<chan, running, frames, inOpen, sinkOk, reader, sent, got>>

Next ==
  \/ \E s \in Stages : StageStep(s)
  \/ MergeFails \/ StreamEnds \/ SinkBreaks
  \/ AppReads \/ AppStalls \/ AppLeaves \/ AppSends \/ AppCloses

\* The runtime polls every woken task; the RPC channel reads until it is
\* stuck.  Neither the peer nor the application owes anybody a step.
Fairness == (\A s \in Stages : WF_vars(StageStep(s))) /\ WF_vars(AppReads)

Spec == Init /\ [][Next]_vars /\ Fairness

-----------------------------------------------------------------------------
(* Properties.                                                             *)

\* The numbers of the items of one kind in a sequence, which are in it in
\* ascending order.
Numbers(seq, kind) ==
  {seq[i].n : i \in {j \in DOMAIN seq : seq[j].kind = kind}}

Ascending(seq, kind) ==
  \A i, j \in DOMAIN seq :
    i < j /\ seq[i].kind = kind /\ seq[j].kind = kind => seq[i].n < seq[j].n

\* The items of this kind are the first of all, none is left out.
FirstOf(seq, kind, all) ==
  /\ Ascending(seq, kind)
  /\ Numbers(seq, kind) \subseteq all
  /\ \A m \in all, n \in Numbers(seq, kind) :
       m < n => m \in Numbers(seq, kind)

\* The numbers of the frames of a kind before the first of some others.
Before(kinds, kind) ==
  {i \in DOMAIN frames : /\ frames[i].kind = kind
                         /\ \A j \in 1..i : frames[j].kind \notin kinds}

AllTexts == Before({"close", "error", "binary"}, "text")
AllPings == Before({"close", "error"}, "ping")

\* Nothing but the ends of its inputs stopped the pump.
CleanEnd ==
  /\ running = {} /\ sinkOk /\ reader # "gone"
  /\ Before({"close", "error"}, "binary") = {}

\* Across tasks that stop at different times, the application reads
\* the peer's texts in order and nothing after a close frame, an error or a
\* binary frame; the socket gets the answers to the pings in order, none
\* after a close or an error, and the application's texts in order.  A pump
\* that was not cut short has lost nothing of either direction.
RelaysInOrder ==
  LET socket == chan["socket"] IN
  /\ FirstOf(got, "text", AllTexts)
  /\ \A i \in DOMAIN got : got[i].kind = "text"
  /\ FirstOf(socket, "reply", AllPings)
  /\ FirstOf(socket, "send", 1..sent)
  /\ CleanEnd =>
       /\ Numbers(got, "text") \cup Numbers(chan["text"], "text") = AllTexts
       /\ Numbers(socket, "reply") = AllPings
       /\ Numbers(socket, "send") = 1..sent

\* Once the stream is over and the application has dropped its sender, every
\* task of the pump ends, whatever order they find out in, unless the
\* application keeps the receiver and does not read.
EveryStageEnds ==
  ~inOpen /\ ~sender ~> running = {} \/ reader = "stalled"

\* Every ping before a close or an error is answered although application
\* messages share the way to either_split, as long as the application reads
\* them, the socket works and no earlier binary frame made on_binary stop.
\* The application need not keep its sender for that.
PingsAreAnswered ==
  <>(\/ ~sinkOk \/ reader # "reading"
     \/ \A n \in AllPings :
          \/ n \in Numbers(chan["socket"], "reply")
          \/ \E i \in 1..(n - 1) : frames[i].kind = "binary")
=============================================================================
