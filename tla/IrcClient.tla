----------------------------- MODULE IrcClient -----------------------------
(***************************************************************************)
(* The IRC client of crates/irc/src/client.rs: the handshake that connect  *)
(* runs on a new connection, the task with its input and output loops, and *)
(* the caller that sends messages and closes.                              *)
(*                                                                         *)
(* A channel(n) of futures::mpsc with one sender takes n + 1 messages, and *)
(* the send that fills the last place waits until one is taken.            *)
(***************************************************************************)
EXTENDS Integers, Sequences, SequencesExt

CONSTANTS
    ServerMessages, \* messages the server may send
    MaxFlight,      \* bound: messages from the server not yet read
    MaxCaps,        \* bound: capabilities the server lists
    MaxSeen,        \* bound: messages the task reads
    MaxInput,       \* bound: messages the caller sends
    InputCap,       \* mpsc::channel(3) of Client::new
    PingCap         \* mpsc::channel(1) of Client::new

\* Capabilities are words.
ASSUME ClientAssumption ==
    \A m \in ServerMessages : m.cmd = "CAP" => m.list \in Seq(STRING)

VARIABLES
    phase,      \* "ls", "ack", "welcome": the handshake; "run": the task;
                \* "error": connect failed; "panic": an assertion failed
    caps,       \* capabilities collected so far
    incoming,   \* messages from the server not yet read
    seen,       \* history: what the output loop has read
    serverOpen, \* the server has not closed its side
    written,    \* what the client has written, in order
    input,      \* the channel from the caller to the input loop
    inputLoop,  \* "select", "ended"
    pingArmed,  \* ping_read_op has not yet completed
    pings,      \* the channel from the output loop to the input loop
    outputLoop, \* "read", "flush": inside ping_sink.send; "ended"
    caller,     \* "none": no Client yet; "open"; "closing": inside close;
                \* "closed"; "panic": dropped without close
    accepted    \* history: messages whose send_msg returned Ok

clientVars == <<phase, caps, incoming, seen, serverOpen, written,
                input, inputLoop, pingArmed, pings, outputLoop, caller,
                accepted>>
taskVars == <<input, inputLoop, pingArmed, pings, outputLoop>>
callerVars == <<caller, accepted>>

Cap(cmd, args, list) == [cmd |-> "CAP", sub |-> cmd, args |-> args,
                         list |-> list]
Simple(cmd) == [cmd |-> cmd]

ClientInit ==
    /\ phase = "ls" /\ caps = <<>>
    /\ incoming = <<>> /\ seen = <<>> /\ serverOpen = TRUE
    /\ written = <<Cap("LS", 2, <<"302">>)>>
    /\ input = <<>> /\ inputLoop = "select" /\ pingArmed = TRUE
    /\ pings = <<>> /\ outputLoop = "read"
    /\ caller = "none" /\ accepted = <<>>

----------------------------------------------------------------------------
(* initialize_irc_channel *)

Read(m) == incoming # <<>> /\ m = Head(incoming) /\ incoming' = Tail(incoming)

\* A complete LS list is requested; an acknowledged one leads to the login.
CapsReply(sub, list) ==
    IF sub = "LS" THEN <<Cap("REQ", 2, list)>>
    ELSE <<Simple("PASS"), Simple("NICK"), Cap("END", 1, <<>>)>>

\* One message of a capability list: two parameters add to it, three (with
\* a star first) add to it and end it, anything else fails an assertion.
\* The reply may fail when the server has closed.
ReadCaps(from_phase, sub, to_phase) ==
    /\ phase = from_phase
    /\ \E m \in ServerMessages :
         /\ Read(m)
         /\ IF m.cmd = "BAD"
            THEN phase' = "error" /\ UNCHANGED <<caps, written>>
            ELSE IF m.cmd # "CAP" \/ m.sub # sub \/ m.args \notin {2, 3}
            THEN phase' = "panic" /\ UNCHANGED <<caps, written>>
            ELSE IF m.args = 2
            THEN caps' = caps \o m.list /\ UNCHANGED <<phase, written>>
            ELSE \/ /\ phase' = to_phase /\ caps' = <<>>
                    /\ written' = written \o CapsReply(sub, caps \o m.list)
                 \/ /\ ~serverOpen /\ phase' = "error"
                    /\ UNCHANGED <<caps, written>>
    /\ UNCHANGED <<seen, serverOpen, taskVars, callerVars>>

ReadLs == ReadCaps("ls", "LS", "ack")

ReadAck == ReadCaps("ack", "ACK", "welcome")

\* Everything before the end of the message of the day (376) is discarded;
\* then Client::new starts the task.
ReadWelcome ==
    /\ phase = "welcome"
    /\ \E m \in ServerMessages :
         /\ Read(m)
         /\ phase' = IF m.cmd = "BAD" THEN "error"
                     ELSE IF m.cmd = "376" THEN "run" ELSE phase
         /\ caller' = IF m.cmd = "376" THEN "open" ELSE caller
    /\ UNCHANGED <<caps, seen, serverOpen, written, taskVars, accepted>>

\* ok_or(UnexpectedEnd)
HandshakeEnds ==
    /\ phase \in {"ls", "ack", "welcome"} /\ incoming = <<>> /\ ~serverOpen
    /\ phase' = "error"
    /\ UNCHANGED <<caps, incoming, seen, serverOpen, written, taskVars,
                   callerVars>>

----------------------------------------------------------------------------
(* run_input_loop *)

Selecting == phase = "run" /\ inputLoop = "select"

\* The loop is left: its receivers and the write half go with it.
LeaveInput == inputLoop' = "ended" /\ input' = <<>> /\ pings' = <<>>

WriteInput ==
    /\ Selecting /\ input # <<>>
    /\ \/ /\ written' = Append(written, Head(input))
          /\ input' = Tail(input)
          /\ UNCHANGED <<inputLoop, pings>>
       \/ ~serverOpen /\ LeaveInput /\ UNCHANGED written
    /\ UNCHANGED <<phase, caps, incoming, seen, serverOpen, pingArmed,
                   outputLoop, callerVars>>

\* Mutant: the loop ends when the caller is gone, whatever it had sent.
InputEndsEarly ==
    /\ Selecting /\ caller # "open"
    /\ LeaveInput
    /\ UNCHANGED <<phase, caps, incoming, seen, serverOpen, written,
                   pingArmed, outputLoop, callerVars>>

\* The caller's sender is gone and everything it sent was taken.
InputEnds ==
    /\ Selecting /\ input = <<>> /\ caller # "open"
    /\ LeaveInput
    /\ UNCHANGED <<phase, caps, incoming, seen, serverOpen, written,
                   pingArmed, outputLoop, callerVars>>

\* The PONG is built and dropped, and ping_read_op is not renewed.
TakePing ==
    /\ Selecting /\ pingArmed /\ pings # <<>>
    /\ pings' = Tail(pings) /\ pingArmed' = FALSE
    /\ UNCHANGED <<phase, caps, incoming, seen, serverOpen, written,
                   input, inputLoop, outputLoop, callerVars>>

\* A ping channel that ends before its first ping ends the loop.
PingsEnd ==
    /\ Selecting /\ pingArmed /\ pings = <<>> /\ outputLoop = "ended"
    /\ LeaveInput
    /\ UNCHANGED <<phase, caps, incoming, seen, serverOpen, written,
                   pingArmed, outputLoop, callerVars>>

----------------------------------------------------------------------------
(* run_output_loop *)

\* A PING goes to the ping channel; its sender waits when it filled the last
\* place.  A PING without a parameter fails an index check and takes the
\* task, with both loops, down.  Anything else ends the loop: an unreadable
\* line is an error, and a message finds the output receiver dropped.
ReadMessage ==
    /\ phase = "run" /\ outputLoop = "read"
    /\ \E m \in ServerMessages :
         /\ Read(m) /\ seen' = Append(seen, m)
         /\ IF m.cmd = "BARE"
            THEN /\ phase' = "panic"
                 /\ outputLoop' = "ended" /\ LeaveInput
            ELSE IF m.cmd = "PING" /\ inputLoop = "select"
            THEN /\ pings' = Append(pings, m)
                 /\ outputLoop' = IF Len(pings) < PingCap THEN "read"
                                  ELSE "flush"
                 /\ UNCHANGED <<phase, inputLoop, input>>
            ELSE outputLoop' = "ended"
                 /\ UNCHANGED <<phase, pings, inputLoop, input>>
    /\ UNCHANGED <<caps, serverOpen, written, pingArmed, callerVars>>

\* Mutant: the send waits for room although nobody receives any more.
PingFlushedByReceiver ==
    /\ phase = "run" /\ outputLoop = "flush"
    /\ inputLoop = "select" /\ Len(pings) <= PingCap
    /\ outputLoop' = "read"
    /\ UNCHANGED <<phase, caps, incoming, seen, serverOpen, written,
                   input, inputLoop, pingArmed, pings, callerVars>>

\* ping_sink.send returns when there is room again or no receiver.
PingFlushed ==
    /\ phase = "run" /\ outputLoop = "flush"
    /\ inputLoop = "ended" \/ Len(pings) <= PingCap
    /\ outputLoop' = "read"
    /\ UNCHANGED <<phase, caps, incoming, seen, serverOpen, written,
                   input, inputLoop, pingArmed, pings, callerVars>>

OutputEnds ==
    /\ phase = "run" /\ outputLoop = "read"
    /\ incoming = <<>> /\ ~serverOpen
    /\ outputLoop' = "ended"
    /\ UNCHANGED <<phase, caps, incoming, seen, serverOpen, written,
                   input, inputLoop, pingArmed, pings, callerVars>>

----------------------------------------------------------------------------
(* The caller. *)

\* send_msg: the message is in the channel, or the receiver was dropped and
\* AlreadyClosed is returned.
SendMsg ==
    /\ caller = "open" /\ Len(accepted) < MaxInput
    /\ inputLoop = "select" /\ Len(input) <= InputCap
    /\ LET m == [cmd |-> "JOIN", n |-> Len(accepted) + 1]
       IN  input' = Append(input, m) /\ accepted' = Append(accepted, m)
    /\ UNCHANGED <<phase, caps, incoming, seen, serverOpen, written,
                   inputLoop, pingArmed, pings, outputLoop, caller>>

Close ==
    /\ caller = "open" /\ caller' = "closing"
    /\ UNCHANGED <<phase, caps, incoming, seen, serverOpen, written,
                   taskVars, accepted>>

\* Dropped without close: the assertion of its Drop fails in the caller,
\* and the task goes on without it.
DropClient ==
    /\ caller = "open" /\ caller' = "panic"
    /\ UNCHANGED <<phase, caps, incoming, seen, serverOpen, written,
                   taskVars, accepted>>

\* handle.await: the task has ended, or panicked.
CloseReturns ==
    /\ caller = "closing" /\ inputLoop = "ended" /\ outputLoop = "ended"
    /\ caller' = "closed"
    /\ UNCHANGED <<phase, caps, incoming, seen, serverOpen, written,
                   taskVars, accepted>>

----------------------------------------------------------------------------
(* The server. *)

\* Any message at any time, expected in this phase or not.
ServerSends ==
    /\ serverOpen /\ phase \notin {"error", "panic"}
    /\ Len(incoming) < MaxFlight
    /\ Len(incoming) + Len(seen) < MaxSeen
    /\ \E m \in ServerMessages :
         /\ m.cmd = "CAP" => phase \in {"ls", "ack"} /\ Len(caps) < MaxCaps
         /\ incoming' = Append(incoming, m)
    /\ UNCHANGED <<phase, caps, seen, serverOpen, written, taskVars,
                   callerVars>>

\* The write half is shut down when the input loop drops it.
SawEof == phase = "run" /\ inputLoop = "ended"

ServerCloses ==
    /\ serverOpen /\ serverOpen' = FALSE
    /\ UNCHANGED <<phase, caps, incoming, seen, written, taskVars,
                   callerVars>>

ClientNext ==
    \/ ReadLs \/ ReadAck \/ ReadWelcome \/ HandshakeEnds
    \/ WriteInput \/ InputEnds \/ TakePing \/ PingsEnd
    \/ ReadMessage \/ PingFlushed \/ OutputEnds
    \/ SendMsg \/ Close \/ CloseReturns \/ DropClient
    \/ ServerSends \/ ServerCloses

ClientSpec == ClientInit /\ [][ClientNext]_clientVars

\* The task is polled while it can move, the throttle lets each message
\* through after a while, and a server that sees the end of the client's
\* stream closes its own.
ClientFairness ==
    /\ WF_clientVars(WriteInput) /\ WF_clientVars(InputEnds)
    /\ WF_clientVars(TakePing) /\ WF_clientVars(PingsEnd)
    /\ WF_clientVars(ReadMessage) /\ WF_clientVars(PingFlushed)
    /\ WF_clientVars(OutputEnds) /\ WF_clientVars(CloseReturns)
    /\ WF_clientVars(SawEof /\ ServerCloses)

----------------------------------------------------------------------------
(* What the client wrote after the five messages of a handshake: CAP LS,   *)
(* CAP REQ, PASS, NICK and CAP END.                                        *)
Greeting == 5
Joins == SubSeq(written, Greeting + 1, Len(written))

(* Messages reach the server in the order send_msg accepted them, none     *)
(* twice and nothing between them; and against a server that sent only     *)
(* pings and did not close first, none is lost: what is not written is     *)
(* still in the channel, so that close returns only after everything       *)
(* accepted was written.                                                   *)
AcceptedIsWritten ==
    /\ IsPrefix(Joins, accepted)
    /\ phase = "run" /\ serverOpen
         /\ (\A i \in DOMAIN seen : seen[i].cmd = "PING")
       => accepted = Joins \o input

(* close returns: the input loop drains and ends, dropping the ping        *)
(* channel that the output loop may be waiting on, and the output loop     *)
(* ends when the server closes.                                            *)
CloseCompletes == caller = "closing" ~> caller = "closed"
=============================================================================
