------------------------------- MODULE MCIrc -------------------------------
(* The parts of crates/irc that share no state, each checked by itself.     *)
EXTENDS IrcClient, IrcRpc, RoomEvents

VARIABLE part
vars == <<part, clientVars, rpcVars, roomVars>>

MCServerMessages ==
    {Cap("LS", 2, <<"x">>), Cap("LS", 3, <<"y">>), Cap("LS", 4, <<"y">>),
     Cap("ACK", 2, <<"x">>), Cap("ACK", 3, <<"y">>)}
    \cup {Simple(c) : c \in {"376", "PING", "BARE", "BAD"}}

Init == part \in {"client", "rpc", "room"}
        /\ ClientInit /\ RpcInit /\ RoomInit

Next ==
    \/ part = "client" /\ ClientNext /\ UNCHANGED <<part, rpcVars, roomVars>>
    \/ part = "rpc" /\ RpcNext /\ UNCHANGED <<part, clientVars, roomVars>>
    \/ part = "room" /\ RoomNext /\ UNCHANGED <<part, clientVars, rpcVars>>

Spec == Init /\ [][Next]_vars
        /\ (part = "client" => ClientFairness)
        /\ (part = "room" => RoomFairness)
=============================================================================
