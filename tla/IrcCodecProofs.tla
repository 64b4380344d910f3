--------------------------- MODULE IrcCodecProofs ---------------------------
(***************************************************************************)
(* The codec cuts the stream into the same lines however it is read,       *)
(* proved for every stream, every way to cut it into reads and whatever    *)
(* the messages on the lines are read as.                                  *)
(***************************************************************************)
EXTENDS IrcCodec, SequenceTheorems, WellFoundedInduction, TLAPS

CodecTypeOK ==
    /\ wire \in Seq(Bytes) /\ data \in Seq(Bytes) /\ taken \in Seq(Bytes)
    /\ phase \in {"read", "decode", "end", "panic"}

(* How many bytes have left the buffer: whole lines with their ends.       *)
Cut == Len(taken) - Len(data)

BufferIsTheRest(s, d, c) ==
    /\ c \in Nat /\ c + Len(d) = Len(s)
    /\ \A i \in 1..Len(d) : d[i] = s[c + i]
    /\ c = 0 \/ c - 1 \in TermAt(s)

(* The ends before place c of lines that are not empty, and that the items *)
(* are what those lines are read as.                                       *)
Ends(s, c) == {t \in LineEnds(s) : t < c}
Framed(s, c, read, n, end) ==
    /\ end \in [1..n -> Ends(s, c)]
    /\ \A i, j \in 1..n : i < j => end[i] < end[j]
    /\ \A t \in Ends(s, c) : \E i \in 1..n : end[i] = t
    /\ read = [i \in 1..n |-> ReadBytes(LineBefore(s, end[i]))]
IsFramed(s, c, read) ==
    \E n \in Nat : \E end \in [1..n -> Ends(s, c)] : Framed(s, c, read, n, end)

CodecIInv ==
    /\ CodecTypeOK
    /\ BufferIsTheRest(taken, data, Cut)
    /\ phase = "read" => TermAt(data) = {}
    /\ phase # "end" => IsFramed(taken, Cut, items)

----------------------------------------------------------------------------
(* Lemma: a set of numbers that is not empty has a least one.              *)
LEMMA LeastNumber ==
    ASSUME NEW S, S \subseteq Nat, S # {}
    PROVE  \E i \in S : \A j \in S : i <= j
<1>1. /\ IsWellFoundedOn(OpToRel(<, Nat), Nat)
      /\ \A x, y \in Nat : x < y => <<x, y>> \in OpToRel(<, Nat)
  BY NatLessThanWellFounded DEF OpToRel
<1>2. PICK R : /\ IsWellFoundedOn(R, Nat)
               /\ \A x, y \in Nat : x < y => <<x, y>> \in R
  BY <1>1
<1>3. PICK i \in S : \A j \in S : ~(<<j, i>> \in R)
  <2>1. IsWellFoundedOn(R, Nat)
    BY <1>2
  <2> QED
    BY <2>1, WFMin, Zenon
<1>4. \A j \in S : ~(j < i)
  BY <1>2, <1>3, Zenon
<1> QED
  BY <1>4

(* Lemma: a set of numbers that is not empty and has a bound has a         *)
(* greatest one.                                                           *)
LEMMA GreatestNumber ==
    ASSUME NEW S, S \subseteq Nat, S # {},
           NEW n \in Nat, \A u \in S : u <= n
    PROVE  Greatest(S) \in S /\ \A u \in S : u <= Greatest(S)
<1> DEFINE T == {x \in Nat : \A u \in S : u <= x}
<1>1. T \subseteq Nat /\ n \in T
  OBVIOUS
<1>2. PICK m \in T : \A x \in T : m <= x
  BY <1>1, LeastNumber
<1>3. m \in S
  <2> SUFFICES ASSUME m \notin S PROVE FALSE
    OBVIOUS
  <2>1. \A u \in S : u <= m - 1
    BY <1>2
  <2>2. m - 1 \in Nat
    <3>1. PICK u \in S : u <= m - 1
      BY <2>1
    <3> QED
      BY <3>1
  <2>3. m - 1 \in T
    BY <2>1, <2>2
  <2> QED
    BY <1>2, <2>3
<1>4. \E u \in S : \A v \in S : v <= u
  BY <1>2, <1>3
<1> QED
  BY <1>4 DEF Greatest

(* Lemma: a terminator is two bytes.                                       *)
LEMMA MsgTerm == MSG_TERM \in Seq(Bytes) /\ Len(MSG_TERM) = 2
<1>1. CR \in Bytes /\ LF \in Bytes
  BY WireAssumption
<1> QED
  BY <1>1 DEF MSG_TERM

(* Lemma: a terminator is a place in the text, and two are not next to     *)
(* each other.                                                             *)
LEMMA Terms ==
    ASSUME NEW s \in Seq(Bytes)
    PROVE  /\ TermAt(s) \subseteq Nat \ {0}
           /\ \A t \in TermAt(s) : t < Len(s) /\ t + 1 \notin TermAt(s)
BY DEF TermAt, CR, LF

(* Lemma: the first terminator is one, and none is before it.              *)
LEMMA FirstTermIsFirst ==
    ASSUME NEW s \in Seq(Bytes), TermAt(s) # {}
    PROVE  /\ FirstTerm(s) \in TermAt(s)
           /\ \A j \in TermAt(s) : FirstTerm(s) <= j
BY LeastNumber, Terms DEF FirstTerm

(* Lemma: texts that agree from one place to another have that part in     *)
(* common.                                                                 *)
LEMMA SamePart ==
    ASSUME NEW S, NEW s, NEW r, NEW m \in Int, NEW n \in Int,
           \A i \in m..n : s[i] \in S /\ r[i] = s[i]
    PROVE  SubSeq(s, m, n) = SubSeq(r, m, n)
<1> DEFINE p == SubSeq(s, m, n)
           q == SubSeq(r, m, n)
<1>1. /\ p \in Seq(S) /\ Len(p) = IF m <= n THEN n - m + 1 ELSE 0
      /\ \A i \in 1..(n - m + 1) : p[i] = s[m + i - 1]
  BY SubSeqProperties
<1>2. /\ q \in Seq(S) /\ Len(q) = IF m <= n THEN n - m + 1 ELSE 0
      /\ \A i \in 1..(n - m + 1) : q[i] = r[m + i - 1]
  <2>1. \A i \in m..n : r[i] \in S
    OBVIOUS
  <2> QED
    BY <2>1, SubSeqProperties
<1> HIDE DEF p, q
<1>3. Len(p) = Len(q)
  BY <1>1, <1>2
<1>4. ASSUME NEW i \in 1..Len(p) PROVE p[i] = q[i]
  <2>1. i \in 1..(n - m + 1) /\ m + i - 1 \in m..n
    BY <1>1
  <2> QED
    BY <1>1, <1>2, <2>1
<1>5. p = q
  BY <1>1, <1>2, <1>3, <1>4, SeqEqual
<1> QED
  BY <1>5 DEF p, q

(* Lemma: bytes that follow change nothing in the lines before them.       *)
LEMMA GrowKeepsLines ==
    ASSUME NEW s \in Seq(Bytes), NEW more \in Seq(Bytes),
           NEW c \in Nat, c <= Len(s)
    PROVE  /\ \A t \in Nat : t < c =>
                (t \in TermAt(s \o more) <=> t \in TermAt(s))
           /\ Ends(s \o more, c) = Ends(s, c)
           /\ \A t \in Ends(s, c) :
                LineBefore(s \o more, t) = LineBefore(s, t)
<1>1. /\ s \o more \in Seq(Bytes)
      /\ Len(s \o more) = Len(s) + Len(more)
      /\ \A i \in 1..Len(s) : (s \o more)[i] = s[i]
  BY ConcatProperties
<1>2. ASSUME NEW t \in Nat, t < c
      PROVE  t \in TermAt(s \o more) <=> t \in TermAt(s)
  BY <1>1, <1>2 DEF TermAt
<1>3. ASSUME NEW t \in Nat, t < c
      PROVE  Begin(s \o more, t) = Begin(s, t)
  <2>1. TermAt(s \o more) \subseteq Nat /\ TermAt(s) \subseteq Nat
    BY <1>1, Terms
  <2>2. TermsBefore(s \o more, t) = TermsBefore(s, t)
    BY <1>2, <1>3, <2>1 DEF TermsBefore
  <2> QED
    BY <2>2 DEF Begin
<1>4. ASSUME NEW t \in Nat, t < c
      PROVE  t \in Ends(s \o more, c) <=> t \in Ends(s, c)
  BY <1>2, <1>3, <1>4 DEF Ends, LineEnds
<1>5. Ends(s \o more, c) = Ends(s, c)
  BY <1>1, <1>4, Terms DEF Ends, LineEnds
<1>6. ASSUME NEW t \in Ends(s, c)
      PROVE  LineBefore(s \o more, t) = LineBefore(s, t)
  <2>1. /\ t \in Nat /\ t < c /\ t < Len(s)
        /\ Begin(s, t) < t /\ Begin(s \o more, t) = Begin(s, t)
    BY <1>3, Terms DEF Ends, LineEnds
  <2>2. Begin(s, t) \in Nat \ {0}
    <3>1. /\ TermsBefore(s, t) \subseteq Nat
          /\ \A u \in TermsBefore(s, t) : u <= t
      BY <2>1, Terms DEF TermsBefore
    <3>2. Len(MSG_TERM) = 2
      BY DEF MSG_TERM
    <3>3. TermsBefore(s, t) # {} => Greatest(TermsBefore(s, t)) \in Nat
      BY <2>1, <3>1, GreatestNumber
    <3> QED
      BY <3>2, <3>3 DEF Begin
  <2> QED
    <3>1. PICK b \in Int, e \in Int : b = Begin(s, t) /\ e = t - 1
      BY <2>1, <2>2
    <3>2. \A i \in b..e : i \in 1..Len(s)
      BY <2>1, <2>2, <3>1
    <3>3. \A i \in b..e : s[i] \in Bytes /\ (s \o more)[i] = s[i]
      BY <1>1, <3>2
    <3>4. SubSeq(s, b, e) = SubSeq(s \o more, b, e)
      <4>1. PICK r : r = s \o more
        OBVIOUS
      <4>2. \A i \in b..e : s[i] \in Bytes /\ r[i] = s[i]
        BY <3>3, <4>1
      <4>3. SubSeq(s, b, e) = SubSeq(r, b, e)
        BY <4>2, SamePart
      <4> QED
        BY <4>1, <4>3
    <3> QED
      BY <2>1, <3>1, <3>4 DEF LineBefore
<1> QED
  BY <1>2, <1>5, <1>6

(* Lemma: the text after the buffer's cut has no terminator but those of   *)
(* the buffer.                                                             *)
LEMMA TermsOfTheBuffer ==
    ASSUME NEW s \in Seq(Bytes), NEW d \in Seq(Bytes), NEW c \in Nat,
           BufferIsTheRest(s, d, c)
    PROVE  \A t \in Nat : t >= c =>
             (t \in TermAt(s) <=> t - c \in TermAt(d))
<1> SUFFICES ASSUME NEW t \in Nat, t >= c
             PROVE  t \in TermAt(s) <=> t - c \in TermAt(d)
  OBVIOUS
<1>1. c + Len(d) = Len(s) /\ \A i \in 1..Len(d) : d[i] = s[c + i]
  BY DEF BufferIsTheRest
<1>2. CASE t = c
  <2>1. t \notin TermAt(s)
    <3>1. c = 0 \/ c - 1 \in TermAt(s)
      BY DEF BufferIsTheRest
    <3>2. (c - 1) + 1 = c
      OBVIOUS
    <3>3. 0 \notin TermAt(s)
      BY Terms
    <3> QED
      BY <1>2, <3>1, <3>2, <3>3, Terms
  <2>2. t - c \notin TermAt(d)
    BY <1>2 DEF TermAt
  <2> QED
    BY <2>1, <2>2
<1>3. CASE t > c
  <2> DEFINE i == t - c
  <2>1. i \in Nat /\ i > 0 /\ t = c + i /\ t + 1 = c + (i + 1)
    BY <1>3
  <2>2. t \in 1..(Len(s) - 1) <=> i \in 1..(Len(d) - 1)
    BY <1>1, <2>1
  <2>3. ASSUME i \in 1..(Len(d) - 1)
        PROVE  d[i] = s[t] /\ d[i + 1] = s[t + 1]
    <3>1. i \in 1..Len(d) /\ i + 1 \in 1..Len(d)
      BY <2>3
    <3> QED
      BY <1>1, <2>1, <3>1
  <2> HIDE DEF i
  <2>4. t \in TermAt(s) <=> i \in TermAt(d)
    BY <2>2, <2>3 DEF TermAt
  <2> QED
    BY <2>4 DEF i
<1> QED
  BY <1>2, <1>3

(* Lemma: when the buffer holds no terminator every line has been cut off. *)
LEMMA NoTermLeft ==
    ASSUME NEW s \in Seq(Bytes), NEW d \in Seq(Bytes), NEW c \in Nat,
           BufferIsTheRest(s, d, c), TermAt(d) = {}
    PROVE  Ends(s, c) = LineEnds(s)
<1>1. ASSUME NEW t \in TermAt(s) PROVE t < c
  BY Terms, TermsOfTheBuffer
<1> QED
  BY <1>1 DEF Ends, LineEnds

(* Lemma: the first line of the buffer is the next line of the text.       *)
LEMMA NextLine ==
    ASSUME NEW s \in Seq(Bytes), NEW d \in Seq(Bytes), NEW c \in Nat,
           BufferIsTheRest(s, d, c), TermAt(d) # {},
           NEW pos, pos = FirstTerm(d)
    PROVE  /\ pos \in Nat \ {0} /\ pos < Len(d)
           /\ LineBefore(s, c + pos) = SubSeq(d, 1, pos - 1)
           /\ Ends(s, c + pos + 1) =
                Ends(s, c) \cup IF pos = 1 THEN {} ELSE {c + pos}
           /\ BufferIsTheRest(s, From(d, pos + 2), c + pos + 1)
           /\ From(d, pos + 2) \in Seq(Bytes)
           /\ Len(From(d, pos + 2)) = Len(d) - (pos + 1)
<1>1. /\ pos \in TermAt(d) /\ pos \in Nat \ {0} /\ pos < Len(d)
      /\ \A j \in TermAt(d) : pos <= j
  BY FirstTermIsFirst, Terms
<1>2. /\ c + Len(d) = Len(s) /\ \A i \in 1..Len(d) : d[i] = s[c + i]
      /\ c = 0 \/ c - 1 \in TermAt(s)
  BY DEF BufferIsTheRest
<1>3. /\ TermAt(s) \subseteq Nat \ {0}
      /\ \A t \in TermAt(s) : t < Len(s) /\ t + 1 \notin TermAt(s)
  BY Terms
<1>4. /\ c + pos \in TermAt(s) /\ c + pos \in Nat
      /\ \A t \in TermAt(s) : t < c + pos => t < c
  <2>1. (c + pos) - c = pos /\ c + pos >= c /\ c + pos \in Nat
    BY <1>1
  <2>2. c + pos \in TermAt(s)
    BY <1>1, <2>1, TermsOfTheBuffer
  <2>3. ASSUME NEW t \in TermAt(s), t < c + pos, t >= c
        PROVE  FALSE
    <3>1. t - c \in TermAt(d) /\ t \in Nat
      BY <1>3, <2>3, TermsOfTheBuffer
    <3> QED
      BY <1>1, <2>3, <3>1
  <2> QED
    BY <1>3, <2>1, <2>2, <2>3
<1>5. Begin(s, c + pos) = c + 1
  <2>1. Len(MSG_TERM) = 2
    BY DEF MSG_TERM
  <2>2. CASE c = 0
    <3>1. TermsBefore(s, c + pos) = {}
      BY <1>3, <1>4, <2>2 DEF TermsBefore
    <3> QED
      BY <2>2, <3>1 DEF Begin
  <2>3. CASE c # 0
    <3> DEFINE B == TermsBefore(s, c + pos)
    <3>1. c - 1 \in B /\ B \subseteq Nat /\ \A u \in B : u <= c - 1
      BY <1>1, <1>2, <1>3, <1>4, <2>3 DEF TermsBefore
    <3>2. c - 1 \in Nat
      BY <2>3
    <3>3. Greatest(B) \in B /\ \A u \in B : u <= Greatest(B)
      BY <3>1, <3>2, GreatestNumber
    <3>4. Greatest(B) = c - 1
      BY <3>1, <3>3
    <3>5. B # {}
      BY <3>1
    <3> QED
      BY <2>1, <3>4, <3>5 DEF Begin
  <2> QED
    BY <2>2, <2>3
<1>6. LineBefore(s, c + pos) = SubSeq(d, 1, pos - 1)
  <2>1. /\ Len(SubSeq(s, c + 1, c + pos - 1)) = pos - 1
        /\ SubSeq(s, c + 1, c + pos - 1) \in Seq(Bytes)
        /\ \A i \in 1..(pos - 1) :
             SubSeq(s, c + 1, c + pos - 1)[i] = s[c + i]
    <3>1. PICK m \in Int, n \in Int : m = c + 1 /\ n = c + pos - 1
      BY <1>1
    <3>2. \A i \in m..n : s[i] \in Bytes
      <4>1. \A i \in m..n : i \in 1..Len(s)
        BY <1>1, <1>2, <3>1
      <4> QED
        BY <4>1
    <3>3. /\ SubSeq(s, m, n) \in Seq(Bytes)
          /\ Len(SubSeq(s, m, n)) = IF m <= n THEN n - m + 1 ELSE 0
          /\ \A i \in 1..(n - m + 1) :
               SubSeq(s, m, n)[i] = s[m + i - 1]
      BY <3>2, SubSeqProperties
    <3>4. /\ n - m + 1 = pos - 1
          /\ (IF m <= n THEN n - m + 1 ELSE 0) = pos - 1
          /\ \A i \in 1..(pos - 1) : m + i - 1 = c + i
      BY <1>1, <3>1
    <3> QED
      BY <3>1, <3>3, <3>4
  <2>2. /\ Len(SubSeq(d, 1, pos - 1)) = pos - 1
        /\ SubSeq(d, 1, pos - 1) \in Seq(Bytes)
        /\ \A i \in 1..(pos - 1) : SubSeq(d, 1, pos - 1)[i] = d[i]
    BY <1>1, SubSeqProperties
  <2>3. \A i \in 1..(pos - 1) : d[i] = s[c + i]
    BY <1>1, <1>2
  <2>4. SubSeq(s, c + 1, c + pos - 1) = SubSeq(d, 1, pos - 1)
    <3>1. ASSUME NEW i \in 1..(pos - 1)
          PROVE  SubSeq(s, c + 1, c + pos - 1)[i] = SubSeq(d, 1, pos - 1)[i]
      BY <2>1, <2>2, <2>3
    <3> QED
      BY <2>1, <2>2, <3>1, SeqEqual
  <2>5. LineBefore(s, c + pos) = SubSeq(s, c + 1, c + pos - 1)
    <3>1. (c + pos) - 1 = c + pos - 1
      BY <1>1
    <3>2. LineBefore(s, c + pos) = SubSeq(s, c + 1, (c + pos) - 1)
      BY <1>5, Zenon DEF LineBefore
    <3> QED
      BY <3>1, <3>2, Zenon
  <2> QED
    BY <2>4, <2>5
<1>7. Ends(s, c + pos + 1) =
        Ends(s, c) \cup IF pos = 1 THEN {} ELSE {c + pos}
  <2>1. c + pos \in LineEnds(s) <=> pos # 1
    BY <1>1, <1>4, <1>5 DEF LineEnds
  <2>2. \A t \in TermAt(s) : t < c + pos + 1 <=> (t < c \/ t = c + pos)
    BY <1>1, <1>3, <1>4
  <2>3. c + pos \notin Ends(s, c)
    BY <1>1 DEF Ends
  <2> QED
    BY <2>1, <2>2, <2>3 DEF Ends, LineEnds
<1>8. /\ From(d, pos + 2) \in Seq(Bytes)
      /\ Len(From(d, pos + 2)) = Len(d) - (pos + 1)
      /\ \A i \in 1..(Len(d) - (pos + 1)) :
           From(d, pos + 2)[i] = d[pos + 1 + i]
  BY <1>1, SubSeqProperties DEF From
<1>9. BufferIsTheRest(s, From(d, pos + 2), c + pos + 1)
  <2>1. ASSUME NEW i \in 1..(Len(d) - (pos + 1))
        PROVE  d[pos + 1 + i] = s[c + pos + 1 + i]
    <3>0. pos \in Nat /\ i \in Nat /\ i > 0 /\ Len(d) \in Nat
      BY <1>1
    <3>1. pos + 1 + i \in Nat /\ pos + 1 + i > 0
      BY <3>0
    <3>2. pos + 1 + i <= Len(d)
      BY <3>0
    <3>3. c + (pos + 1 + i) = c + pos + 1 + i
      BY <3>0
    <3> QED
      BY <1>2, <3>1, <3>2, <3>3
  <2>2. (c + pos + 1) - 1 = c + pos
    BY <1>1
  <2> QED
    <3> DEFINE e == From(d, pos + 2)
               k == c + pos + 1
    <3>1. k \in Nat /\ k + Len(e) = Len(s)
      <4>1. Len(d) \in Nat
        OBVIOUS
      <4>2. k + (Len(d) - (pos + 1)) = c + Len(d)
        BY <1>1, <4>1
      <4>3. k \in Nat
        BY <1>1
      <4> QED
        BY <1>2, <1>8, <4>2, <4>3
    <3>2. k - 1 \in TermAt(s)
      BY <1>4, <2>2
    <3>3. \A i \in 1..Len(e) : e[i] = s[k + i]
      BY <1>8, <2>1
    <3> HIDE DEF e, k
    <3> QED
      BY <3>1, <3>2, <3>3 DEF BufferIsTheRest, e, k
<1> QED
  BY <1>1, <1>6, <1>7, <1>8, <1>9

(* Lemma: no more lines.                                                   *)
LEMMA SameLines ==
    ASSUME NEW s, NEW c, NEW k, NEW read, IsFramed(s, c, read),
           Ends(s, k) = Ends(s, c)
    PROVE  IsFramed(s, k, read)
BY DEF IsFramed, Framed

(* Lemma: one more line and what it is read as.                            *)
LEMMA OneMoreItem ==
    ASSUME NEW s, NEW c \in Nat, NEW k, NEW t \in Nat, t >= c,
           NEW read, IsFramed(s, c, read), Ends(s, c) \subseteq Nat,
           Ends(s, k) = Ends(s, c) \cup {t}
    PROVE  IsFramed(s, k, Append(read, ReadBytes(LineBefore(s, t))))
<1> DEFINE item(p) == ReadBytes(LineBefore(s, p))
<1>0. PICK n \in Nat : \E end \in [1..n -> Ends(s, c)] :
             Framed(s, c, read, n, end)
  BY DEF IsFramed
<1>1. PICK end \in [1..n -> Ends(s, c)] : Framed(s, c, read, n, end)
  BY <1>0
<1> DEFINE last == [i \in 1..(n + 1) |-> IF i = n + 1 THEN t ELSE end[i]]
           more == [i \in 1..(n + 1) |-> item(last[i])]
<1>2. /\ \A i, j \in 1..n : i < j => end[i] < end[j]
      /\ \A u \in Ends(s, c) : \E i \in 1..n : end[i] = u
      /\ read = [i \in 1..n |-> item(end[i])]
      /\ \A i \in 1..n : end[i] \in Ends(s, c)
  BY <1>1 DEF Framed
<1>3. /\ n + 1 \in 1..(n + 1)
      /\ \A i \in 1..(n + 1) : i # n + 1 <=> i \in 1..n
  OBVIOUS
<1>4. last \in [1..(n + 1) -> Ends(s, k)]
  BY <1>2, <1>3
<1>5. \A i, j \in 1..(n + 1) : i < j => last[i] < last[j]
  <2> SUFFICES ASSUME NEW i \in 1..(n + 1), NEW j \in 1..(n + 1), i < j
               PROVE  last[i] < last[j]
    OBVIOUS
  <2>1. i \in 1..n /\ last[i] = end[i]
    OBVIOUS
  <2>2. CASE j = n + 1
    <3>1. end[i] < c
      BY <1>2, <2>1 DEF Ends
    <3>2. end[i] \in Nat /\ last[j] = t
      BY <1>2, <2>1, <2>2
    <3> QED
      BY <2>1, <3>1, <3>2
  <2>3. CASE j # n + 1
    <3>1. j \in 1..n /\ last[j] = end[j]
      BY <2>3
    <3> QED
      BY <1>2, <2>1, <3>1
  <2> QED
    BY <2>2, <2>3
<1>6. \A u \in Ends(s, k) : \E i \in 1..(n + 1) : last[i] = u
  <2>1. last[n + 1] = t /\ \A i \in 1..n : last[i] = end[i]
    BY <1>3
  <2>2. \A i \in 1..n : i \in 1..(n + 1)
    OBVIOUS
  <2> QED
    BY <1>2, <1>3, <2>1, <2>2
<1>7. Append(read, item(t)) = more
  <2> DEFINE All == {item(p) : p \in Ends(s, k)}
  <2>1. \A i \in 1..n : item(end[i]) \in All
    BY <1>2
  <2>2. item(t) \in All
    OBVIOUS
  <2>3. read \in Seq(All) /\ Len(read) = n
    <3> HIDE DEF item, All
    <3> QED
      BY <1>2, <2>1
  <2>4. more \in Seq(All) /\ Len(more) = n + 1
    <3>1. \A i \in 1..(n + 1) : item(last[i]) \in All
      BY <1>4
    <3> HIDE DEF item, All, last
    <3> QED
      BY <3>1
  <2>5. /\ Append(read, item(t)) \in Seq(All)
        /\ Len(Append(read, item(t))) = n + 1
        /\ \A i \in 1..n : Append(read, item(t))[i] = read[i]
        /\ Append(read, item(t))[n + 1] = item(t)
    <3> HIDE DEF item, All
    <3> QED
      BY <2>2, <2>3, AppendProperties
  <2>6. ASSUME NEW i \in 1..(n + 1)
        PROVE  Append(read, item(t))[i] = more[i]
    <3>1. CASE i = n + 1
      <4>1. last[i] = t
        BY <3>1
      <4> HIDE DEF last, item
      <4> QED
        BY <2>5, <3>1, <4>1
    <3>2. CASE i # n + 1
      <4>1. i \in 1..n /\ last[i] = end[i]
        BY <3>2
      <4> HIDE DEF last, item
      <4> QED
        BY <1>2, <2>5, <4>1
    <3> QED
      BY <3>1, <3>2
  <2> HIDE DEF item, All, more
  <2> QED
    BY <2>4, <2>5, <2>6, SeqEqual
<1>8. Framed(s, k, Append(read, item(t)), n + 1, last)
  BY <1>4, <1>5, <1>6, <1>7 DEF Framed
<1> HIDE DEF last
<1> QED
  BY <1>4, <1>8 DEF IsFramed

----------------------------------------------------------------------------
(* Lemma: nothing has been read yet.                                       *)
LEMMA CodecInitIInv == Init => CodecIInv
<1> SUFFICES ASSUME Init PROVE CodecIInv
  OBVIOUS
<1>1. wire \in Seq(Bytes) /\ <<>> \in Seq(Bytes) /\ Len(<<>>) = 0
  BY WireAssumption, EmptySeq DEF Init
<1>2. CodecTypeOK
  BY <1>1 DEF Init, CodecTypeOK
<1>3. Cut = 0 /\ BufferIsTheRest(taken, data, Cut)
  BY <1>1 DEF Init, Cut, BufferIsTheRest
<1>4. TermAt(<<>>) = {} /\ Ends(<<>>, 0) = {}
  BY <1>1 DEF TermAt, Ends, LineEnds
<1>5. IsFramed(<<>>, 0, <<>>)
  <2> DEFINE end == [i \in 1..0 |-> 0]
  <2>1. end \in [1..0 -> Ends(<<>>, 0)]
    OBVIOUS
  <2>2. <<>> = [i \in 1..0 |-> ReadBytes(LineBefore(<<>>, end[i]))]
    OBVIOUS
  <2>3. Framed(<<>>, 0, <<>>, 0, end)
    BY <1>4, <2>1, <2>2 DEF Framed
  <2> QED
    BY <2>1, <2>3 DEF IsFramed
<1> QED
  BY <1>2, <1>3, <1>4, <1>5 DEF Init, CodecIInv

(* Lemma: a read adds bytes behind all that was read.                      *)
LEMMA ReadStep == CodecIInv /\ Read => CodecIInv'
<1> SUFFICES ASSUME CodecIInv, Read PROVE CodecIInv'
  OBVIOUS
<1>1. /\ wire \in Seq(Bytes) /\ data \in Seq(Bytes)
      /\ taken \in Seq(Bytes)
      /\ BufferIsTheRest(taken, data, Cut) /\ IsFramed(taken, Cut, items)
  BY DEF Read, CodecIInv, CodecTypeOK
<1>0. PICK c \in Nat : c = Cut
  BY <1>1 DEF BufferIsTheRest
<1>2. PICK n \in 1..Len(wire) :
         /\ data' = data \o SubSeq(wire, 1, n)
         /\ taken' = taken \o SubSeq(wire, 1, n)
         /\ wire' = From(wire, n + 1)
  BY DEF Read
<1> DEFINE more == SubSeq(wire, 1, n)
<1>3. more \in Seq(Bytes) /\ wire' \in Seq(Bytes)
  BY <1>1, <1>2, SubSeqProperties DEF From
<1> HIDE DEF more
<1>4. /\ data' \in Seq(Bytes) /\ Len(data') = Len(data) + Len(more)
      /\ \A i \in 1..Len(data) : data'[i] = data[i]
      /\ \A i \in (Len(data) + 1)..(Len(data) + Len(more)) :
           data'[i] = more[i - Len(data)]
  BY <1>1, <1>2, <1>3, ConcatProperties DEF more
<1>5. /\ taken' \in Seq(Bytes) /\ Len(taken') = Len(taken) + Len(more)
      /\ \A i \in 1..Len(taken) : taken'[i] = taken[i]
      /\ \A i \in (Len(taken) + 1)..(Len(taken) + Len(more)) :
           taken'[i] = more[i - Len(taken)]
  BY <1>1, <1>2, <1>3, ConcatProperties DEF more
<1>6. /\ c \in Nat /\ c + Len(data) = Len(taken) /\ c <= Len(taken)
      /\ \A i \in 1..Len(data) : data[i] = taken[c + i]
      /\ c = 0 \/ c - 1 \in TermAt(taken)
      /\ BufferIsTheRest(taken, data, c) /\ IsFramed(taken, c, items)
  BY <1>0, <1>1 DEF BufferIsTheRest
<1>len. /\ Len(data) \in Nat /\ Len(more) \in Nat /\ Len(taken) \in Nat
        /\ Len(data') = Len(data) + Len(more)
        /\ Len(taken') = Len(taken) + Len(more)
        /\ c \in Nat /\ c + Len(data) = Len(taken)
  BY <1>1, <1>3, <1>4, <1>5, <1>6
<1>7. Cut' = c
  BY <1>len DEF Cut
<1>8. /\ \A t \in Nat : t < c => (t \in TermAt(taken') <=> t \in TermAt(taken))
      /\ Ends(taken', c) = Ends(taken, c)
      /\ \A t \in Ends(taken, c) :
           LineBefore(taken', t) = LineBefore(taken, t)
  <2>1. taken' = taken \o more
    BY <1>2 DEF more
  <2> QED
    BY <1>1, <1>3, <1>6, <2>1, GrowKeepsLines, Zenon
<1>9. BufferIsTheRest(taken', data', c)
  <2>1. ASSUME NEW i \in 1..Len(data') PROVE data'[i] = taken'[c + i]
    <3>1. CASE i \in 1..Len(data)
      <4>1. c + i \in 1..Len(taken)
        BY <1>6, <3>1
      <4> QED
        BY <1>4, <1>5, <1>6, <3>1, <4>1
    <3>2. CASE i \notin 1..Len(data)
      <4>1. /\ i \in (Len(data) + 1)..(Len(data) + Len(more))
            /\ c + i \in (Len(taken) + 1)..(Len(taken) + Len(more))
            /\ (c + i) - Len(taken) = i - Len(data)
        <5>1. /\ i \in Nat /\ i > Len(data)
              /\ i <= Len(data) + Len(more)
          BY <1>len, <3>2
        <5> QED
          BY <1>len, <5>1
      <4> QED
        BY <1>4, <1>5, <4>1
    <3> QED
      BY <3>1, <3>2
  <2>2. c = 0 \/ c - 1 \in TermAt(taken')
    <3>1. c # 0 => c - 1 \in Nat /\ c - 1 < c
      BY <1>6
    <3> QED
      BY <1>6, <1>8, <3>1
  <2>3. c + Len(data') = Len(taken')
    BY <1>len
  <2> QED
    BY <1>6, <2>1, <2>2, <2>3 DEF BufferIsTheRest
<1>10. IsFramed(taken', c, items)
  <2>0. PICK k \in Nat : \E end \in [1..k -> Ends(taken, c)] :
          Framed(taken, c, items, k, end)
    BY <1>6 DEF IsFramed
  <2>1. PICK end \in [1..k -> Ends(taken, c)] :
          Framed(taken, c, items, k, end)
    BY <2>0
  <2>2. [i \in 1..k |-> ReadBytes(LineBefore(taken', end[i]))]
          = [i \in 1..k |-> ReadBytes(LineBefore(taken, end[i]))]
    <3>1. \A i \in 1..k : end[i] \in Ends(taken, c)
      OBVIOUS
    <3>2. \A i \in 1..k : ReadBytes(LineBefore(taken', end[i]))
                            = ReadBytes(LineBefore(taken, end[i]))
      BY <1>8, <3>1
    <3> QED
      BY <3>2
  <2>3. Framed(taken', c, items, k, end)
    BY <1>8, <2>1, <2>2 DEF Framed
  <2> QED
    BY <1>8, <2>3 DEF IsFramed
<1>11. phase' = "decode" /\ items' = items
  BY DEF Read
<1> QED
  BY <1>3, <1>4, <1>5, <1>7, <1>9, <1>10, <1>11 DEF CodecIInv, CodecTypeOK

(* Lemma: a pass of the loop of decode cuts off the next line, if there is *)
(* one, and adds what it is read as.                                       *)
LEMMA DecodeStep == CodecIInv /\ Decode => CodecIInv'
<1> SUFFICES ASSUME CodecIInv, Decode PROVE CodecIInv'
  OBVIOUS
<1>1. /\ wire \in Seq(Bytes) /\ data \in Seq(Bytes)
      /\ taken \in Seq(Bytes) /\ phase = "decode"
      /\ BufferIsTheRest(taken, data, Cut) /\ IsFramed(taken, Cut, items)
      /\ wire' = wire /\ taken' = taken
  BY DEF Decode, CodecIInv, CodecTypeOK
<1>0. PICK c \in Nat : c = Cut
  BY <1>1 DEF BufferIsTheRest
<1>4. BufferIsTheRest(taken, data, c) /\ IsFramed(taken, c, items)
  BY <1>0, <1>1
<1>2. CASE NeedsBytes
  <2>1. data' = data /\ items' = items /\ phase' = "read" /\ TermAt(data) = {}
    BY <1>2 DEF NeedsBytes
  <2>2. Cut' = Cut
    BY <1>1, <2>1 DEF Cut
  <2> QED
    BY <1>1, <2>1, <2>2 DEF CodecIInv, CodecTypeOK
<1>3. CASE TakesLine
  <2>0. PICK pos : pos = FirstTerm(data)
    OBVIOUS
  <2> DEFINE t == c + pos
             item == ReadBytes(SubSeq(data, 1, pos - 1))
  <2>1. /\ TermAt(data) # {}
        /\ data' = From(data, pos + Len(MSG_TERM))
        /\ items' = IF pos = 1 THEN items ELSE Append(items, item)
        /\ phase' \in {"panic", "decode"}
    BY <1>1, <1>3, <2>0 DEF TakesLine
  <2>2. c \in Nat /\ c = Len(taken) - Len(data)
    BY <1>0 DEF Cut
  <2>3. /\ pos \in Nat \ {0} /\ pos < Len(data)
        /\ LineBefore(taken, t) = SubSeq(data, 1, pos - 1)
        /\ Ends(taken, t + 1) =
             Ends(taken, c) \cup IF pos = 1 THEN {} ELSE {t}
        /\ BufferIsTheRest(taken, From(data, pos + 2), t + 1)
        /\ From(data, pos + 2) \in Seq(Bytes)
        /\ Len(From(data, pos + 2)) = Len(data) - (pos + 1)
    <3>1. data \in Seq(Bytes) /\ taken \in Seq(Bytes) /\ TermAt(data) # {}
      BY <1>1, <2>1
    <3> HIDE DEF item
    <3> QED
      BY <1>4, <2>0, <3>1, NextLine
  <2>4. data' = From(data, pos + 2)
    BY <2>1, MsgTerm
  <2>5. Cut' = t + 1
    <3>1. Len(data') = Len(data) - (pos + 1) /\ Len(data) \in Nat
      BY <1>1, <2>3, <2>4
    <3>2. Cut' = Len(taken) - Len(data')
      BY <1>1 DEF Cut
    <3>3. Len(taken) \in Nat
      BY <1>1
    <3> QED
      BY <2>2, <2>3, <3>1, <3>2, <3>3
  <2>6. IsFramed(taken, t + 1, items')
    <3>1. CASE pos = 1
      <4>1. Ends(taken, t + 1) = Ends(taken, c) /\ items' = items
        BY <2>1, <2>3, <3>1
      <4> QED
        BY <1>4, <4>1, SameLines
    <3>2. CASE pos # 1
      <4>1. /\ items' = Append(items, ReadBytes(LineBefore(taken, t)))
            /\ Ends(taken, t + 1) = Ends(taken, c) \cup {t}
        BY <2>1, <2>3, <3>2
      <4>2. t \in Nat /\ t >= c
        BY <2>2, <2>3
      <4>3. Ends(taken, c) \subseteq Nat
        BY <1>1, Terms DEF Ends, LineEnds
      <4> HIDE DEF t
      <4> QED
        BY <1>4, <4>1, <4>2, <4>3, OneMoreItem
    <3> QED
      BY <3>1, <3>2
  <2> HIDE DEF t
  <2> QED
    BY <1>1, <2>1, <2>3, <2>4, <2>5, <2>6 DEF CodecIInv, CodecTypeOK
<1> QED
  BY <1>2, <1>3 DEF Decode

(* Lemma: encoding touches the wire alone, and so does no step at all.     *)
LEMMA EncodeStep ==
    CodecIInv /\ (UNCHANGED vars \/ \E m \in Built : Encode(m)) => CodecIInv'
<1> SUFFICES ASSUME CodecIInv, UNCHANGED vars \/ \E m \in Built : Encode(m)
             PROVE  CodecIInv'
  OBVIOUS
<1>1. UNCHANGED <<data, taken, items, phase>>
  BY DEF Encode, vars
<1>2. wire' \in Seq(Bytes)
  <2>1. CASE UNCHANGED vars
    BY <2>1 DEF vars, CodecIInv, CodecTypeOK
  <2>2. CASE \E m \in Built : Encode(m)
    <3>1. PICK m \in Built : Encode(m)
      BY <2>2
    <3>2. PICK out \in WriteBytes(m) :
            out.kind = "Ok" /\ wire' = wire \o out.value \o MSG_TERM
      BY <3>1 DEF Encode
    <3>3. out.value \in Seq(Bytes)
      BY <3>2, WireAssumption, Zenon
    <3>4. wire \in Seq(Bytes)
      BY DEF CodecIInv, CodecTypeOK
    <3> QED
      BY <3>2, <3>3, <3>4, MsgTerm, ConcatProperties
  <2> QED
    BY <2>1, <2>2
<1>3. Cut' = Cut
  BY <1>1 DEF Cut
<1> QED
  BY <1>1, <1>2, <1>3 DEF CodecIInv, CodecTypeOK

(* Lemma: every step keeps the invariant.                                  *)
LEMMA CodecStep == CodecIInv /\ [Next]_vars => CodecIInv'
<1>1. CodecIInv /\ End => CodecIInv'
  <2> SUFFICES ASSUME CodecIInv, End PROVE CodecIInv'
    OBVIOUS
  <2>1. UNCHANGED <<wire, data, taken>> /\ phase' = "end"
    BY DEF End
  <2>2. Cut' = Cut
    BY <2>1 DEF Cut
  <2> QED
    BY <2>1, <2>2 DEF CodecIInv, CodecTypeOK
<1> QED
  BY <1>1, ReadStep, DecodeStep, EncodeStep DEF Next

(* Lemma: when the decoder asks for bytes it has cut off every line.       *)
LEMMA CodecIInvImplies == CodecIInv => FramesDoNotDependOnReads
<1> SUFFICES ASSUME CodecIInv, phase = "read"
             PROVE  FramesDoNotDependOnReads
  BY DEF FramesDoNotDependOnReads
<1>1. /\ taken \in Seq(Bytes) /\ data \in Seq(Bytes)
      /\ TermAt(data) = {} /\ BufferIsTheRest(taken, data, Cut)
      /\ IsFramed(taken, Cut, items) /\ Cut \in Nat
  BY DEF CodecIInv, CodecTypeOK, BufferIsTheRest
<1>2. Ends(taken, Cut) = LineEnds(taken)
  BY <1>1, NoTermLeft
<1>3. PICK n \in Nat : \E end \in [1..n -> Ends(taken, Cut)] :
        Framed(taken, Cut, items, n, end)
  BY <1>1 DEF IsFramed
<1>4. PICK end \in [1..n -> Ends(taken, Cut)] :
        Framed(taken, Cut, items, n, end)
  BY <1>3
<1>5. Len(items) = n /\ \A i \in 1..n : items[i] =
                          ReadBytes(LineBefore(taken, end[i]))
  <2> DEFINE item(p) == ReadBytes(LineBefore(taken, p))
             All == {item(p) : p \in Ends(taken, Cut)}
  <2>1. items = [i \in 1..n |-> item(end[i])]
    BY <1>4 DEF Framed
  <2>2. \A i \in 1..n : item(end[i]) \in All
    OBVIOUS
  <2> HIDE DEF item, All
  <2>3. Len(items) = n /\ \A i \in 1..n : items[i] = item(end[i])
    BY <2>1, <2>2
  <2> QED
    BY <2>3 DEF item
<1> QED
  BY <1>2, <1>4, <1>5 DEF FramesDoNotDependOnReads, Framed

(* Theorem: for every stream, every way it is cut into reads and whatever  *)
(* messages the lines hold, what IrcCodec::decode has handed on when it    *)
(* asks for bytes is one item for each non-empty line read, in order.      *)
THEOREM CodecCutsLines == Spec => []FramesDoNotDependOnReads
<1>1. CodecIInv /\ [Next]_vars => CodecIInv'
  BY CodecStep
<1>2. CodecIInv => FramesDoNotDependOnReads
  BY CodecIInvImplies
<1> QED
  BY <1>1, <1>2, CodecInitIInv, PTL DEF Spec

=============================================================================
