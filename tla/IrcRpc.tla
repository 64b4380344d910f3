------------------------------- MODULE IrcRpc -------------------------------
(***************************************************************************)
(* The request and response layer of crates/irc/src/rpc.rs: one slot that  *)
(* holds the running call, the task that reads the stream and classifies   *)
(* each message with the filter of the call in the slot, and callers that  *)
(* may drop the future of a call at any await.                             *)
(*                                                                         *)
(* A message is how the filter of the call would class it ("next", "skip", *)
(* "end", or "fail" when the filter returns an error); with no call in the *)
(* slot it goes to the message handler whatever it is.                     *)
(***************************************************************************)
EXTENDS Integers, Sequences

CONSTANTS
    MaxCalls,   \* bound: calls made on the connection
    MaxStream   \* bound: messages the server sends

ASSUME RpcBounds == MaxCalls \in Nat /\ MaxStream \in Nat

VARIABLES
    slot,       \* 0 or the call held by stream_state
    responses,  \* response_messages of the call in the slot
    answer,     \* answer[k]: what the oneshot of call k holds
    call,       \* call[k]: "idle", "sending", "waiting", or how it ended
    task,       \* "read", "handle": awaiting msg_handler with the lock
                \* held; "ended"
    stream,     \* messages not yet read
    streamed    \* history: messages the server has sent

rpcVars == <<slot, responses, answer, call, task, stream, streamed>>

Calls == 1..MaxCalls
Running == {"sending", "waiting"}
Abandoned == {"dropped", "send_error"}
NoAnswer == [kind |-> "none"]

RpcInit ==
    /\ slot = 0 /\ responses = <<>>
    /\ answer = [k \in Calls |-> NoAnswer]
    /\ call = [k \in Calls |-> "idle"]
    /\ task = "read" /\ stream = <<>> /\ streamed = 0

\* call is &mut self: one at a time, in order.
Current(k) ==
    /\ call[k] = "idle"
    /\ \A j \in Calls : (j < k => call[j] \notin Running \cup {"idle"})
    /\ \A j \in Calls : call[j] # "panic"

\* The lock is taken and the slot must be empty.
Call(k) ==
    /\ Current(k) /\ task # "handle"
    /\ IF slot = 0
       THEN /\ slot' = k /\ responses' = <<>>
            /\ call' = [call EXCEPT ![k] = "sending"]
       ELSE /\ call' = [call EXCEPT ![k] = "panic"]
            /\ UNCHANGED <<slot, responses>>
    /\ UNCHANGED <<answer, task, stream, streamed>>

\* send_all: it succeeds, or fails and leaves the slot as it is.
Send(k) ==
    /\ call[k] = "sending"
    /\ \E r \in {"waiting", "send_error"} : call' = [call EXCEPT ![k] = r]
    /\ UNCHANGED <<slot, responses, answer, task, stream, streamed>>

DropCall(k) ==
    /\ call[k] \in Running
    /\ call' = [call EXCEPT ![k] = "dropped"]
    /\ UNCHANGED <<slot, responses, answer, task, stream, streamed>>

Return(k) ==
    /\ call[k] = "waiting" /\ answer[k] # NoAnswer
    /\ call' = [call EXCEPT ![k] = answer[k].kind]
    /\ UNCHANGED <<slot, responses, answer, task, stream, streamed>>

\* Mutant: the End branch answers with a copy and leaves the call there.
HandleKeepsSlot(m) ==
    IF slot = 0 \/ m = "skip"
    THEN task' = "handle" /\ UNCHANGED <<slot, responses, answer>>
    ELSE /\ UNCHANGED <<task, slot>>
         /\ responses' = Append(responses, m)
         /\ answer' = IF m = "next" THEN answer
                      ELSE [answer EXCEPT ![slot] =
                              [kind |-> IF m = "end" THEN "ok" ELSE "error",
                               messages |-> responses']]

\* What the task does with a message, under the lock.
Handle(m) ==
    IF slot = 0 \/ m = "skip"
    THEN task' = "handle" /\ UNCHANGED <<slot, responses, answer>>
    ELSE IF m = "next"
    THEN /\ responses' = Append(responses, m)
         /\ UNCHANGED <<task, slot, answer>>
    ELSE /\ slot' = 0 /\ responses' = <<>> /\ UNCHANGED task
         /\ answer' = [answer EXCEPT ![slot] =
              IF m = "end"
              THEN [kind |-> "ok", messages |-> Append(responses, m)]
              ELSE [kind |-> "error"]]

ReadStream ==
    /\ task = "read" /\ stream # <<>>
    /\ stream' = Tail(stream)
    /\ Handle(Head(stream))
    /\ UNCHANGED <<call, streamed>>

\* msg_handler returns; its error ends the task.
Handled ==
    /\ task = "handle" /\ task' \in {"read", "ended"}
    /\ UNCHANGED <<slot, responses, answer, call, stream, streamed>>

\* The stream ends or fails.  The slot, shared with the connection, stays.
StreamEnds ==
    /\ task = "read" /\ stream = <<>> /\ task' = "ended"
    /\ UNCHANGED <<slot, responses, answer, call, stream, streamed>>

Arrive ==
    /\ streamed < MaxStream /\ streamed' = streamed + 1
    /\ \E m \in {"next", "skip", "end", "fail"} : stream' = Append(stream, m)
    /\ UNCHANGED <<slot, responses, answer, call, task>>

RpcNext ==
    \/ \E k \in Calls : Call(k) \/ Send(k) \/ DropCall(k) \/ Return(k)
    \/ ReadStream \/ Handled \/ StreamEnds \/ Arrive

RpcSpec == RpcInit /\ [][RpcNext]_rpcVars

----------------------------------------------------------------------------
(* A call that has not returned either still holds the slot or has its     *)
(* answer, so that no answer is lost between the two; the slot is held by  *)
(* nothing else, save a call that was dropped or could not send; and so    *)
(* the assertion of call that the slot is empty fails only after such an   *)
(* abandoned call, whose last response has not come.                       *)
SlotIsHeldForACause ==
    /\ \A k \in Calls : call[k] \in Running =>
           (slot = k) = (answer[k] = NoAnswer)
    /\ slot # 0 => call[slot] \in Running \cup Abandoned
    /\ \A k \in Calls : call[k] = "panic" =>
           \E j \in 1..(k - 1) : call[j] \in Abandoned
=============================================================================
