------------------------------- MODULE MCWire -------------------------------
EXTENDS IrcWire

MCBytes == Digits \cup Letters \cup DOMAIN Escape
             \cup {":", "@", "!", "=", BAD}

Texts(alphabet, n) == UNION {[1..k -> alphabet] : k \in 0..n}
Line(prefix, words, suffix) ==
    {prefix \o w \o suffix \o MSG_TERM : w \in words}

MCStreams ==
    Texts({"a", CR, LF}, 6)
    \cup Line(<<"@">>, Texts({"a", "=", ";", BSLASH, ":"}, 4), <<SP, "a">>)
    \cup Line(<<"@">>, Texts({"a", "=", BSLASH, BAD}, 3), <<SP, "a">>)
    \cup Line(<<":">>, Texts({"a", "!", "@"}, 4), <<SP, "1", "0", "0">>)
    \cup Line(<<>>, Texts({"0", "1", "a"}, 4), <<>>)
    \cup Line(<<"a">>, Texts({SP, ":", "a"}, 5), <<>>)
    \cup Line(<<"@", "a", "=", "1", ";", "n", SP, ":", "a", "!", "a", SP>>,
              Texts({"a", SP, ":"}, 3), <<>>)

MCBuilt ==
    {from_command_params([name |-> <<"a">>], <<>>)}
    \cup {from_command_params([num |-> 101], <<p, q>>) :
            p \in Texts({"a", SP, ":"}, 1),
            q \in Texts({"a", CR, LF}, 2)}
=============================================================================
