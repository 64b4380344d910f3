------------------------------ MODULE IrcWire ------------------------------
(***************************************************************************)
(* The IRC wire format of crates/irc-raw: the codec reading and writing    *)
(* the messages of messages.rs.                                            *)
(*                                                                         *)
(* BAD stands for a byte that is not UTF-8.  The nick, user or host that   *)
(* messages.rs keeps as None is the empty text here, since none_if_empty   *)
(* never leaves an empty Some.                                             *)
(***************************************************************************)
EXTENDS IrcCodec, FiniteSets, SequencesExt

SP == " "
BAD == "xFF"
BSLASH == "\\"
Digits == {"0", "1"}
Letters == {"a", "n", "r", "s"}

Utf8(s) == BAD \notin Range(s)
Position(s, c) == SelectInSeq(s, LAMBDA x : x = c)

----------------------------------------------------------------------------
(* Reading: messages.rs, ReadBytes. *)

eat_space(text) ==
    LET i == SelectInSeq(text, LAMBDA c : c # SP)
    IN  IF i = 0 THEN <<>> ELSE From(text, i)

\* The word before the first space, and the text after that run of spaces.
until_space(text) ==
    LET i == Position(text, SP)
    IN  IF i = 0 THEN [word |-> text, rest |-> <<>>]
        ELSE [word |-> SubSeq(text, 1, i - 1),
              rest |-> eat_space(From(text, i))]

Unescape ==
    (BSLASH :> BSLASH) @@ (":" :> ";") @@ ("r" :> CR) @@ ("n" :> LF)
        @@ ("s" :> SP)

RECURSIVE UnescapeFrom(_)
UnescapeFrom(v) ==
    IF v = <<>> \/ v = <<BSLASH>> THEN Ok(<<>>)
    ELSE LET n == IF v[1] = BSLASH THEN 2 ELSE 1
             more == UnescapeFrom(From(v, n + 1))
         IN  IF more = Err \/ (n = 2 /\ v[2] \notin DOMAIN Unescape) THEN Err
             ELSE Ok(<<IF n = 2 THEN Unescape[v[2]] ELSE v[1]>> \o more.value)

unescape_tag_value(v) == IF Utf8(v) THEN UnescapeFrom(v) ELSE Err

RECURSIVE SplitTerms(_)
SplitTerms(word) ==
    LET i == Position(word, ";")
    IN  IF i = 0 THEN <<word>>
        ELSE <<SubSeq(word, 1, i - 1)>> \o SplitTerms(From(word, i + 1))

TagKey(term) ==
    LET p == Position(term, "=")
    IN  IF p = 0 THEN term ELSE SubSeq(term, 1, p - 1)
TagValue(term) ==
    LET p == Position(term, "=")
    IN  unescape_tag_value(IF p = 0 THEN <<>> ELSE From(term, p + 1))

\* A repeated key keeps its last value, as HashMap::insert does.
parse_tags(word) ==
    LET terms == SplitTerms(word)
        LastOf(k) == CHOOSE i \in DOMAIN terms :
                       /\ TagKey(terms[i]) = k
                       /\ \A j \in DOMAIN terms :
                              TagKey(terms[j]) = k => j <= i
    IN  IF \E t \in Range(terms) : TagValue(t) = Err \/ ~Utf8(TagKey(t))
        THEN Err
        ELSE Ok([k \in {TagKey(t) : t \in Range(terms)} |->
                    TagValue(terms[LastOf(k)]).value])

DigitValue(c) == IF c = "1" THEN 1 ELSE 0

\* CommandNumber::new asserts its range, so a wire command 000 panics.
ReadCommand(buf) ==
    IF buf = <<>> THEN Err
    ELSE IF buf[1] \in Digits
    THEN IF Len(buf) # 3 \/ ~(Range(buf) \subseteq Digits) THEN Err
         ELSE LET n == 100 * DigitValue(buf[1]) + 10 * DigitValue(buf[2])
                         + DigitValue(buf[3])
              IN  IF n = 0 THEN Panic ELSE Ok([num |-> n])
    ELSE IF Range(buf) \subseteq Letters THEN Ok([name |-> buf]) ELSE Err

ReadSource(buf) ==
    LET bang == Position(buf, "!")
        at == Position(buf, "@")
        Parts(n, u, h) == IF Utf8(n) /\ Utf8(u)
                          THEN Ok([nick |-> n, user |-> u, host |-> h])
                          ELSE Err
        Until(i) == SubSeq(buf, 1, i - 1)
    IN  IF bang = 0 /\ at = 0 THEN Parts(<<>>, <<>>, buf)
        ELSE IF at = 0 THEN Parts(Until(bang), From(buf, bang + 1), <<>>)
        ELSE IF bang = 0 THEN Parts(Until(at), <<>>, From(buf, at + 1))
        ELSE IF bang > at THEN Err
        ELSE Parts(Until(bang), SubSeq(buf, bang + 1, at - 1),
                   From(buf, at + 1))

RECURSIVE ReadParams(_)
ReadParams(text) ==
    IF text = <<>> THEN <<>>
    ELSE IF text[1] = ":" THEN <<Tail(text)>>
    ELSE LET w == until_space(text) IN <<w.word>> \o ReadParams(w.rest)

NoTags == [k \in {} |-> <<>>]

\* Message::read_bytes.  The tags and the source are optional words, each
\* introduced by its own character; source is a sequence of at most one.
Message_read_bytes(buf) ==
    LET Has(c, text) == text # <<>> /\ text[1] = c
        tagged == Has("@", buf)
        t == until_space(Tail(buf))
        text1 == IF tagged THEN t.rest ELSE buf
        tags == IF tagged THEN parse_tags(t.word) ELSE Ok(NoTags)
        sourced == Has(":", text1)
        s == until_space(Tail(text1))
        text2 == IF sourced THEN s.rest ELSE text1
        source == ReadSource(s.word)
        c == until_space(text2)
        command == ReadCommand(c.word)
    IN  IF buf = <<>> \/ (tagged /\ text1 = <<>>) \/ tags = Err THEN Err
        ELSE IF sourced /\ (text2 = <<>> \/ source = Err) THEN Err
        ELSE IF command.kind # "Ok" THEN command
        ELSE Ok([tags |-> tags.value,
                 source |-> IF sourced THEN <<source.value>> ELSE <<>>,
                 command |-> command.value,
                 params |-> ReadParams(c.rest)])

----------------------------------------------------------------------------
(* Writing: messages.rs, WriteBytes. *)

Escape ==
    (BSLASH :> <<BSLASH, BSLASH>>) @@ (";" :> <<BSLASH, ":">>)
        @@ (CR :> <<BSLASH, "r">>) @@ (LF :> <<BSLASH, "n">>)
        @@ (SP :> <<BSLASH, "s">>)

\* Mutant: the separator of tags is not escaped.
EscapeKeepsSemicolon(v) ==
    FlattenSeq([i \in DOMAIN v |->
        IF v[i] \in DOMAIN Escape \ {";"} THEN Escape[v[i]] ELSE <<v[i]>>])
escape_tag_value(v) ==
    FlattenSeq([i \in DOMAIN v |->
        IF v[i] \in DOMAIN Escape THEN Escape[v[i]] ELSE <<v[i]>>])

NoSource(s) == s.nick = <<>> /\ s.user = <<>> /\ s.host = <<>>

WriteSource(s) ==
    IF NoSource(s) THEN Panic
    ELSE IF s.nick = <<>> /\ s.user = <<>> THEN Ok(s.host)
    ELSE Ok(s.nick \o <<"!">> \o s.user
              \o IF s.host = <<>> THEN <<>> ELSE <<"@">> \o s.host)

Number(n) ==
    LET D(i) == IF i = 1 THEN "1" ELSE "0"
    IN  <<D(n \div 100), D((n \div 10) % 10), D(n % 10)>>

WriteCommand(c) == IF "num" \in DOMAIN c THEN Number(c.num) ELSE c.name

WriteTags(tags, order) ==
    IF order = <<>> THEN <<>>
    ELSE <<"@">> \o
         FlattenSeq([i \in DOMAIN order |->
             (IF i = 1 THEN <<>> ELSE <<";">>) \o order[i] \o
             IF tags[order[i]] = <<>> THEN <<>>
             ELSE <<"=">> \o escape_tag_value(tags[order[i]])]) \o <<SP>>

WriteParams(params) ==
    IF params = <<>> THEN <<>>
    ELSE FlattenSeq([i \in 1..(Len(params) - 1) |-> params[i] \o <<SP>>])
           \o <<":">> \o params[Len(params)]

\* Message::write_bytes: all its outcomes, one for each order in which the
\* HashMap of tags may be walked.
Message_write_bytes(m) ==
    LET written == [i \in DOMAIN m.source |-> WriteSource(m.source[i])]
    IN  IF <<>> \in DOMAIN m.tags \/ Panic \in Range(written) THEN {Panic}
        ELSE {Ok(WriteTags(m.tags, order)
                   \o (IF written = <<>> THEN <<>>
                       ELSE <<":">> \o written[1].value \o <<SP>>)
                   \o WriteCommand(m.command) \o <<SP>>
                   \o WriteParams(m.params)) :
              order \in SetToSeqs(DOMAIN m.tags)}

\* Message::from_command_params and from_command (no parameters).
from_command_params(cmd, params) ==
    [tags |-> NoTags, source |-> <<>>, command |-> cmd, params |-> params]

----------------------------------------------------------------------------
(* A source that is all host, with a separator inside it: written bare it  *)
(* is read back as a nick or a user.                                       *)
Ambiguous(s) ==
    s.nick = <<>> /\ s.user = <<>> /\ Range(s.host) \cap {"!", "@"} # {}

(* Writing a message that was read either panics, which happens exactly    *)
(* for an empty tag key or an empty source, or gives one line that reads   *)
(* back as the same message, whatever order its tags are written in; the   *)
(* bare host with a separator in it is the one exception.                  *)
DecodedReadsBack ==
    \A i \in DOMAIN items : items[i].kind = "Ok" =>
        LET m == items[i].value
            source == Range(m.source)
        IN  \A out \in Message_write_bytes(m) :
              IF <<>> \in DOMAIN m.tags \/ \E s \in source : NoSource(s)
              THEN out = Panic
              ELSE /\ out # Panic /\ TermAt(out.value) = {}
                   /\ (Message_read_bytes(out.value) = Ok(m))
                        = (\A s \in source : ~Ambiguous(s))

(* What a parameter list must be to survive the wire.                      *)
Plain(m) ==
    /\ \A p \in Range(m.params) : TermAt(p) = {}
    /\ \A i \in 1..(Len(m.params) - 1) :
          LET p == m.params[i]
          IN  p # <<>> /\ SP \notin Range(p) /\ p[1] # ":"

(* Messages built by from_command_params arrive unchanged and in order     *)
(* exactly when their parameters are plain: from_command_params checks     *)
(* nothing, so what the writer cannot express is changed on the way.       *)
BuiltArrives ==
    phase = "read" /\ wire = <<>> /\ sent # <<>> =>
        (items = [i \in DOMAIN sent |-> Ok(sent[i])])
            = (\A m \in Range(sent) : Plain(m))

=============================================================================
