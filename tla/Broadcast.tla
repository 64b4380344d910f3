----------------------------- MODULE Broadcast -----------------------------
(***************************************************************************)
(* What an event sink promises: one log of events, and listeners that each *)
(* receive, from some place on, every event of the log in order.           *)
(***************************************************************************)
EXTENDS Integers, Sequences

CONSTANTS Listeners, Events

VARIABLES
    log,    \* everything published
    from,   \* from[l]: how much of the log was over before l joined; -1 if
            \* it has not joined
    got     \* got[l]: what l was sent

vars == <<log, from, got>>

Init ==
    /\ log = <<>>
    /\ from = [l \in Listeners |-> -1]
    /\ got = [l \in Listeners |-> <<>>]

Publish ==
    /\ \E e \in Events : log' = Append(log, e)
    /\ UNCHANGED <<from, got>>

Join(l) ==
    /\ from[l] = -1
    /\ \E n \in 0..Len(log) : from' = [from EXCEPT ![l] = n]
    /\ UNCHANGED <<log, got>>

Deliver(l) ==
    /\ from[l] >= 0 /\ from[l] + Len(got[l]) < Len(log)
    /\ got' = [got EXCEPT
                 ![l] = Append(@, log[from[l] + Len(got[l]) + 1])]
    /\ UNCHANGED <<log, from>>

Next == Publish \/ \E l \in Listeners : Join(l) \/ Deliver(l)

Spec == Init /\ [][Next]_vars
=============================================================================
