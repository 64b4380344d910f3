------------------------------ MODULE IrcCodec ------------------------------
(***************************************************************************)
(* The IRC codec of crates/irc-raw/src/codec.rs, which cuts a byte stream  *)
(* into lines, and the framing that drives it.                             *)
(*                                                                         *)
(* A byte is a one-character string.  How a message is read from a line    *)
(* and written to one is a parameter: IrcWire gives messages.rs for it.    *)
(***************************************************************************)
EXTENDS Integers, Sequences

CONSTANTS
    Bytes,          \* the bytes that occur
    Streams,        \* the byte streams a peer may send
    Built,          \* messages the program builds itself and encodes
    MaxSends,       \* bound: how many of them are encoded in one behaviour
    ReadBytes(_),   \* what Message::read_bytes makes of a line
    WriteBytes(_)   \* all that Message::write_bytes may make of a message

Ok(v) == [kind |-> "Ok", value |-> v]
Err == [kind |-> "Err"]
Panic == [kind |-> "Panic"]

CR == "\r"
LF == "\n"
MSG_TERM == <<CR, LF>>

ASSUME WireAssumption ==
    /\ {CR, LF} \subseteq Bytes
    /\ Streams \subseteq Seq(Bytes)
    /\ \A m \in Built : \A out \in WriteBytes(m) :
         out.kind = "Ok" => out.value \in Seq(Bytes)

VARIABLES
    wire,       \* bytes sent and not yet read
    data,       \* the decoder's buffer
    taken,      \* history: every byte read so far
    items,      \* what the stream of messages has yielded so far
    sent,       \* history: messages given to the encoder
    budget,     \* messages this program may still encode onto the wire; 0
                \* when the peer is another program
    phase       \* "read": the decoder asked for bytes; "decode": it has a
                \* buffer to look at; "end", "panic": the stream is over

vars == <<wire, data, taken, items, sent, budget, phase>>

From(s, i) == SubSeq(s, i, Len(s))

TermAt(s) ==
    {i \in 1..(Len(s) - 1) : s[i] = CR /\ s[i + 1] = LF}

\* Mutant: the last terminator in the buffer ends the line.
LastTerm(s) == CHOOSE i \in TermAt(s) : \A j \in TermAt(s) : j <= i
FirstTerm(s) == CHOOSE i \in TermAt(s) : \A j \in TermAt(s) : i <= j

\* One pass of the loop of IrcCodec::decode.  Without a terminator the
\* framing is asked for bytes; an empty line is skipped; another one is
\* read and handed on, and the framing calls decode again.  A panic takes
\* the task that polls the stream with it.
NeedsBytes ==
    /\ TermAt(data) = {}
    /\ phase' = "read"
    /\ UNCHANGED <<data, items>>

TakesLine ==
    /\ TermAt(data) # {}
    /\ LET pos == FirstTerm(data)
           item == ReadBytes(SubSeq(data, 1, pos - 1))
       IN  /\ data' = From(data, pos + Len(MSG_TERM))
           /\ items' = IF pos = 1 THEN items ELSE Append(items, item)
           /\ phase' = IF pos > 1 /\ item = Panic THEN "panic" ELSE phase

Decode ==
    /\ phase = "decode"
    /\ NeedsBytes \/ TakesLine
    /\ UNCHANGED <<wire, taken, sent, budget>>

\* A read returns any non-empty part of what has been sent.
Read ==
    /\ phase = "read" /\ wire # <<>>
    /\ \E n \in 1..Len(wire) :
         /\ data' = data \o SubSeq(wire, 1, n)
         /\ taken' = taken \o SubSeq(wire, 1, n)
         /\ wire' = From(wire, n + 1)
    /\ phase' = "decode"
    /\ UNCHANGED <<items, sent, budget>>

\* The peer closes: bytes left over are an error, and the stream is over.
End ==
    /\ phase = "read" /\ wire = <<>>
    /\ items' = IF data = <<>> THEN items ELSE Append(items, Err)
    /\ phase' = "end"
    /\ UNCHANGED <<wire, data, taken, sent, budget>>

\* Mutant: the terminator is a line feed alone.
EncodeLineFeed(m) ==
    /\ budget > 0 /\ phase # "end"
    /\ budget' = budget - 1
    /\ \E out \in WriteBytes(m) :
         /\ out.kind = "Ok"
         /\ wire' = wire \o out.value \o <<LF>>
    /\ sent' = Append(sent, m)
    /\ UNCHANGED <<data, taken, items, phase>>

\* IrcCodec::encode of a message the program built.
Encode(m) ==
    /\ budget > 0 /\ phase # "end"
    /\ budget' = budget - 1
    /\ \E out \in WriteBytes(m) :
         /\ out.kind = "Ok"
         /\ wire' = wire \o out.value \o MSG_TERM
    /\ sent' = Append(sent, m)
    /\ UNCHANGED <<data, taken, items, phase>>

Init ==
    /\ \/ wire \in Streams /\ budget = 0
       \/ wire = <<>> /\ budget = MaxSends
    /\ data = <<>> /\ taken = <<>> /\ items = <<>> /\ sent = <<>>
    /\ phase = "read"

Next == Decode \/ Read \/ End \/ \E m \in Built : Encode(m)

Spec == Init /\ [][Next]_vars

----------------------------------------------------------------------------
(* Where the line that ends at terminator t begins: after the terminator   *)
(* before it.                                                              *)
TermsBefore(s, t) == {u \in TermAt(s) : u < t}
Greatest(S) == CHOOSE u \in S : \A v \in S : v <= u
Begin(s, t) == IF TermsBefore(s, t) = {} THEN 1
               ELSE Greatest(TermsBefore(s, t)) + Len(MSG_TERM)
LineBefore(s, t) == SubSeq(s, Begin(s, t), t - 1)

(* The terminators of the lines that are not empty.                        *)
LineEnds(s) == {t \in TermAt(s) : Begin(s, t) < t}

(* However the bytes were cut into reads (a terminator split between two   *)
(* reads included), the stream yields one item for each non-empty line of  *)
(* what was read, in order: what IrcCodec::decode returns does not depend  *)
(* on how the network chunks the stream.                                   *)
FramesDoNotDependOnReads ==
    phase = "read" =>
        \E end \in [1..Len(items) -> LineEnds(taken)] :
          /\ \A i, j \in 1..Len(items) : i < j => end[i] < end[j]
          /\ \A t \in LineEnds(taken) : \E i \in 1..Len(items) : end[i] = t
          /\ \A i \in 1..Len(items) :
               items[i] = ReadBytes(LineBefore(taken, end[i]))

=============================================================================
