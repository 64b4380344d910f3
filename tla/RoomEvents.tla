----------------------------- MODULE RoomEvents -----------------------------
(***************************************************************************)
(* A chat room (crates/irc/src/room_state/room_state.rs) and the event     *)
(* sink that copies its events to the listeners                            *)
(* (futures_util/event_sink.rs, simple_sender.rs).                         *)
(*                                                                         *)
(* An event is a member list, or another event, which RoomState only       *)
(* passes on.  The room's methods take &mut self, so the next begins after *)
(* the one before has returned; the event sink runs in a task of its own.  *)
(***************************************************************************)
EXTENDS Integers, Sequences

CONSTANTS
    Listeners,
    Users,      \* names a member list may hold
    QueueCap,   \* mpsc::channel(3) of RoomState::new
    InboxCap,   \* capacity of a listener's channel
    MaxEvents   \* bound: events of the room

VARIABLES
    members,    \* the members; its kind is "unknown" before the first list
    notifying,  \* the event whose send has not returned, if any
    broken,     \* add_listener reached MembersState::to_list
    queue,      \* the channel of events to the event sink's task
    log,        \* history: every event put into that channel
    sinks,      \* Inner::sinks
    sending,    \* the round of Inner::send: its event, the senders taken
                \* out and what each has done
    inbox,      \* inbox[l]: the channel of listener l
    read,       \* history: what listener l has taken from it
    listener,   \* listener[l]: "new", "listening", "dropped"
    from        \* history: events the task had taken when l was added

roomVars == <<members, notifying, broken, queue, log, sinks, sending, inbox,
              read, listener, from>>

Unknown == [kind |-> "unknown"]
Nothing == [kind |-> "nothing"]
UserList(S) == [kind |-> "users", users |-> S]
Lots(n) == [kind |-> "lots", number |-> n]
Lists == {UserList(S) : S \in SUBSET Users} \cup {Lots(1000)}
Talk == [kind |-> "talk"]

Idle == [event |-> Nothing, senders |-> <<>>]
Taken == Len(log) - Len(queue)

RoomInit ==
    /\ members = Unknown /\ notifying = Nothing /\ broken = FALSE
    /\ queue = <<>> /\ log = <<>>
    /\ sinks = <<>> /\ sending = Idle
    /\ inbox = [l \in Listeners |-> <<>>]
    /\ read = [l \in Listeners |-> <<>>]
    /\ listener = [l \in Listeners |-> "new"]
    /\ from = [l \in Listeners |-> -1]

----------------------------------------------------------------------------
(* RoomState *)

Free == notifying = Nothing /\ ~broken

\* MembersState::update: a list replaces the members, keeping what is known
\* of those that stay; a list too long to keep leaves only its number.
Update(state, list) ==
    IF list.kind = "users" /\ state.kind = "users"
    THEN LET dropped == state.users \ list.users
         IN  UserList((state.users \cup list.users) \ dropped)
    ELSE list

\* notify_members_list, notify_join_room, notify_part_room, notify_message:
\* the event goes into the channel, which takes one more than its capacity.
Notify ==
    /\ Free /\ Len(log) < MaxEvents
    /\ \E e \in Lists \cup {Talk} :
         /\ notifying' = e
         /\ queue' = Append(queue, e) /\ log' = Append(log, e)
    /\ UNCHANGED <<members, broken, sinks, sending, inbox, read, listener,
                   from>>

\* The send returns once there is room again, and a list is then stored.
NotifyReturns ==
    /\ notifying # Nothing /\ Len(queue) <= QueueCap
    /\ notifying' = Nothing
    /\ members' = IF notifying = Talk THEN members
                  ELSE Update(members, notifying)
    /\ UNCHANGED <<broken, queue, log, sinks, sending, inbox, read, listener,
                   from>>

\* add_listener: with known members it would send their list, which is not
\* written yet (todo!), and panics.
AddListener(l) ==
    /\ Free /\ listener[l] = "new"
    /\ listener' = [listener EXCEPT ![l] = "listening"]
    /\ IF members = Unknown
       THEN /\ sinks' = Append(sinks, l)
            /\ from' = [from EXCEPT ![l] = Taken]
            /\ UNCHANGED broken
       ELSE broken' = TRUE /\ UNCHANGED <<sinks, from>>
    /\ UNCHANGED <<members, notifying, queue, log, sending, inbox, read>>

----------------------------------------------------------------------------
(* EventSink *)

Round(e, senders) == [event |-> e,
                      senders |-> [i \in DOMAIN senders |->
                                     [to |-> senders[i], state |-> "todo"]]]

\* Mutant: the senders are copied, not taken out.
TakeEventCopies ==
    /\ sending = Idle /\ queue # <<>>
    /\ sending' = Round(Head(queue), sinks)
    /\ queue' = Tail(queue)
    /\ UNCHANGED <<members, notifying, broken, log, sinks, inbox, read,
                   listener, from>>

\* The task takes an event, and send takes all senders out of the list.
TakeEvent ==
    /\ sending = Idle /\ queue # <<>>
    /\ sending' = Round(Head(queue), sinks)
    /\ sinks' = <<>>
    /\ queue' = Tail(queue)
    /\ UNCHANGED <<members, notifying, broken, log, inbox, read, listener,
                   from>>

Became(i, s) == sending' = [sending EXCEPT !.senders[i].state = s]

\* One SimpleSender::send of the round: the event is in the channel, or the
\* receiver is gone and the sender disconnected.
SendTo(i) ==
    /\ sending.senders[i].state = "todo"
    /\ LET l == sending.senders[i].to
       IN  IF listener[l] = "dropped"
           THEN Became(i, "disconnected") /\ UNCHANGED inbox
           ELSE /\ Became(i, "flush")
                /\ inbox' = [inbox EXCEPT ![l] = Append(@, sending.event)]
    /\ UNCHANGED <<members, notifying, broken, queue, log, sinks, read,
                   listener, from>>

\* The send returns: there is room again, or nobody to wait for.
Flushed(i) ==
    /\ sending.senders[i].state = "flush"
    /\ LET l == sending.senders[i].to
       IN  Len(inbox[l]) <= InboxCap \/ listener[l] = "dropped"
    /\ Became(i, "done")
    /\ UNCHANGED <<members, notifying, broken, queue, log, sinks, inbox,
                   read, listener, from>>

AllSent == \A i \in DOMAIN sending.senders :
               sending.senders[i].state \in {"done", "disconnected"}

\* retain(is_connected) of the senders that were taken out: at lists the
\* places of those still connected, in order, and they go before the rest.
Retained(at) ==
    /\ \A j, k \in DOMAIN at : j < k => at[j] < at[k]
    /\ \A i \in DOMAIN sending.senders :
         (\E k \in DOMAIN at : at[k] = i)
           <=> sending.senders[i].state = "done"

PutBack(rest) ==
    \E n \in 0..Len(sending.senders) :
      \E at \in [1..n -> DOMAIN sending.senders] :
        /\ Retained(at)
        /\ sinks' = [k \in 1..n |-> sending.senders[at[k]].to] \o rest

\* Mutant: the list is overwritten, not extended.
EndRoundForgets ==
    /\ sending # Idle /\ AllSent
    /\ PutBack(<<>>) /\ sending' = Idle
    /\ UNCHANGED <<members, notifying, broken, queue, log, inbox, read,
                   listener, from>>

\* join_all is over: connected senders go back, before those added meanwhile.
EndRound ==
    /\ sending # Idle /\ AllSent
    /\ PutBack(sinks) /\ sending' = Idle
    /\ UNCHANGED <<members, notifying, broken, queue, log, inbox, read,
                   listener, from>>

----------------------------------------------------------------------------
(* The listeners. *)

Receive(l) ==
    /\ listener[l] = "listening" /\ inbox[l] # <<>>
    /\ read' = [read EXCEPT ![l] = Append(@, Head(inbox[l]))]
    /\ inbox' = [inbox EXCEPT ![l] = Tail(@)]
    /\ UNCHANGED <<members, notifying, broken, queue, log, sinks, sending,
                   listener, from>>

DropReceiver(l) ==
    /\ listener[l] = "listening"
    /\ listener' = [listener EXCEPT ![l] = "dropped"]
    /\ UNCHANGED <<members, notifying, broken, queue, log, sinks, sending,
                   inbox, read, from>>

RoomNext ==
    \/ Notify \/ NotifyReturns
    \/ \E l \in Listeners : AddListener(l) \/ Receive(l) \/ DropReceiver(l)
    \/ TakeEvent \/ EndRound
    \/ \E i \in DOMAIN sending.senders : SendTo(i) \/ Flushed(i)

RoomSpec == RoomInit /\ [][RoomNext]_roomVars

\* The runtime polls the room's caller and the event sink's task, and a
\* listener reads what is in its channel unless it drops it.
RoomFairness ==
    /\ WF_roomVars(NotifyReturns)
    /\ WF_roomVars(TakeEvent) /\ WF_roomVars(EndRound)
    /\ WF_roomVars(\E i \in DOMAIN sending.senders : SendTo(i) \/ Flushed(i))
    /\ \A l \in Listeners : WF_roomVars(Receive(l))

----------------------------------------------------------------------------
(* What a listener was sent: what it has read and what waits for it.       *)
Sent(l) == read[l] \o inbox[l]

Abstract == INSTANCE Broadcast WITH
    Events <- Lists \cup {Talk},
    got <- [l \in Listeners |-> Sent(l)]

(* The room's event sink implements Broadcast: each listener is sent the   *)
(* log from where it joined on, without a gap, a repeat or a reordering,   *)
(* although Inner::send takes the senders out of the list while it waits   *)
(* for slow listeners and others are added or dropped meanwhile.           *)
RoomIsABroadcast == Abstract!Spec

(* A listener that joined and does not leave catches up with the log again *)
(* and again: the one added while a round is under way is not forgotten    *)
(* when the senders are put back, and no wait in the round is for ever.    *)
ListenersCatchUp ==
    \A l \in Listeners :
        from[l] >= 0 ~> \/ listener[l] = "dropped"
                        \/ from[l] + Len(read[l]) = Len(log)
=============================================================================
