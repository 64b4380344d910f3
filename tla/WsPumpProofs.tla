---------------------------- MODULE WsPumpProofs ----------------------------
(***************************************************************************)
(* The WebSocket pump relays in order and loses nothing, proved for every  *)
(* script of the peer and any number of texts sent by the application.     *)
(*                                                                         *)
(* Frames of the peer and texts of the application go three ways through   *)
(* the pump.  Along each way the items further down have the lower         *)
(* numbers, and an item that is nowhere on its way was lost in front of a  *)
(* dropped receiver that nothing numbered higher has passed.               *)
(***************************************************************************)
EXTENDS WsPump, SequenceTheorems, TLAPS

ItemType == [kind : Kinds \cup {"reply", "send"}, n : Nat]

PumpTypeOK ==
  /\ frames \in Seq(ItemType)
  /\ \A i \in DOMAIN frames : frames[i].n = i /\ frames[i].kind \in Kinds
  /\ chan \in [Channels -> Seq(ItemType)]
  /\ running \subseteq Stages
  /\ inOpen \in BOOLEAN /\ sinkOk \in BOOLEAN /\ sender \in BOOLEAN
  /\ reader \in {"reading", "stalled", "gone"}
  /\ sent \in Nat
  /\ got \in Seq(ItemType)

(* The places an item may be in: the channels, and the application.        *)
Places == Channels \cup {"got"}
Held == [d \in Places |-> IF d = "got" THEN got ELSE chan[d]]

(* The three ways, and how far down them a place is.                       *)
Way == [text |-> {"wire", "ok", "open", "msg", "text", "got"},
        ping |-> {"wire", "ok", "open", "keep_alive", "pong", "merged",
                  "socket"},
        send |-> {"out", "merged", "socket"}]
Flows == {"text", "ping", "send"}

Depth == [wire |-> 1, ok |-> 2, open |-> 3, msg |-> 4, keep_alive |-> 4,
          text |-> 5, pong |-> 5, out |-> 5, got |-> 6, merged |-> 6,
          socket |-> 7]

(* The kinds of items a place may hold.                                    *)
Carries == [wire |-> Kinds, ok |-> Kinds \ {"error"},
            open |-> Kinds \ {"error", "close"}, msg |-> {"text", "binary"},
            keep_alive |-> {"ping", "pong"}, text |-> {"text"},
            pong |-> {"reply"}, out |-> {"send"}, got |-> {"text"},
            merged |-> {"reply", "send"}, socket |-> {"reply", "send"}]

(* The numbers of the items of flow k in a sequence.                       *)
Own(k, item) == (item.kind = "send") <=> (k = "send")
Nums(q, k) == {q[i].n : i \in {j \in DOMAIN q : Own(k, q[j])}}
Sorted(q, k) ==
  \A i, j \in DOMAIN q :
    i < j /\ Own(k, q[i]) /\ Own(k, q[j]) => q[i].n < q[j].n

(* Items are frames of the peer, or their answers, or texts sent.          *)
ItemOK(f, sends, c, x) ==
  /\ x.kind \in Carries[c]
  /\ x.kind = "send" => x.n \in 1..sends
  /\ x.kind # "send" =>
       /\ x.n \in DOMAIN f
       /\ \/ x.kind = f[x.n].kind
          \/ x.kind = "reply" /\ f[x.n].kind = "ping"

Contents(h, f, sends) ==
  \A d \in Places : \A i \in DOMAIN h[d] : ItemOK(f, sends, d, h[d][i])

DeadEmpty == \A c \in Channels \ {"socket"} : ~Live(c) => chan[c] = <<>>

(* Along every way, in a place and between places.                         *)
Ordered(h) ==
  \A k \in Flows :
    /\ \A d \in Way[k] : Sorted(h[d], k)
    /\ \A d, e \in Way[k] : Depth[d] > Depth[e] =>
         \A x \in Nums(h[d], k), y \in Nums(h[e], k) : x < y

(* What is to be found on a way, and how far an item may get on it.        *)
DueKinds == [text |-> Kinds \ {"ping", "pong"},
             ping |-> Kinds \ {"text", "binary", "pong"}, send |-> {}]
Due(f, sends, k) ==
  IF k = "send" THEN 1..sends
  ELSE {p \in DOMAIN f : f[p].kind \in DueKinds[k]}
KindReach == [text |-> 7, ping |-> 7, pong |-> 7, error |-> 1, close |-> 2,
              binary |-> 4]
Reach(f, k, p) == IF k = "send" THEN 7 ELSE KindReach[f[p].kind]

OnTheWay(h, k, p) == \E d \in Way[k] : p \in Nums(h[d], k)

(* Where a way ends; an item is lost in front of a place before that.      *)
EndsOfWays == {"got", "socket"}

(* Item p can have been lost at place c: it gets there, and nothing after  *)
(* it got further.                                                         *)
LostAt(h, f, k, p, c) ==
  /\ Depth[c] <= Reach(f, k, p)
  /\ \A d \in Way[k] : Depth[d] > Depth[c] =>
       \A x \in Nums(h[d], k) : x < p

Accounted ==
  \A k \in Flows : \A p \in Due(frames, sent, k) :
    \/ OnTheWay(Held, k, p)
    \/ \E c \in Way[k] \ EndsOfWays : ~Live(c) /\ LostAt(Held, frames, k, p, c)

(* Frame p is before a close or an error; the frames of a way that are to  *)
(* arrive; a script no binary frame of which makes on_binary end.          *)
Early(f, p) == \A j \in 1..p : f[j].kind \notin {"close", "error"}
Wanted(f, sends, k) ==
  CASE k = "text" -> {p \in DOMAIN f : /\ f[p].kind = "text"
                                       /\ \A j \in 1..p : f[j].kind \notin
                                            {"close", "error", "binary"}}
    [] k = "ping" -> {p \in DOMAIN f : f[p].kind = "ping" /\ Early(f, p)}
    [] OTHER -> 1..sends
NoBinary(f) == \A p \in DOMAIN f : f[p].kind = "binary" => ~Early(f, p)

(* Nothing but the ends of its inputs will stop the pump.                  *)
Sound == sinkOk /\ reader # "gone" /\ NoBinary(frames)

(* Then its stages end in order, and nothing is lost.                      *)
EndsInOrder ==
  Sound =>
    /\ "send" \notin running => "merge" \notin running
    /\ "merge" \notin running => ~sender /\ "pings" \notin running
    /\ "pings" \notin running => "split" \notin running
    /\ "on_binary" \notin running => "split" \notin running
    /\ "split" \notin running => "on_close" \notin running
    /\ "on_close" \notin running =>
         \A p \in Nums(Held["wire"], "text") : ~Early(frames, p)

NothingLost ==
  Sound =>
    \A k \in Flows : \A p \in Wanted(frames, sent, k) : OnTheWay(Held, k, p)

PumpIInv ==
  /\ PumpTypeOK /\ Contents(Held, frames, sent) /\ DeadEmpty /\ Ordered(Held)
  /\ Accounted /\ EndsInOrder /\ NothingLost

----------------------------------------------------------------------------
(* The shape of the pump.                                                  *)

(* Lemma: the tables, spelled out.                                         *)
LEMMA Shape ==
    /\ Stages = {"on_error", "on_close", "split", "on_binary", "pings",
                 "merge", "send"}
    /\ Channels = {"wire", "ok", "open", "msg", "keep_alive", "text", "pong",
                   "out", "merged", "socket"}
    /\ \A k \in Flows : Way[k] \subseteq Places
    /\ \A d \in Places : Depth[d] \in 1..7
    /\ \A k \in Flows : \A d, e \in Way[k] : Depth[d] = Depth[e] => d = e
    /\ \A s \in Stages : Ins[s] \subseteq Channels
                         /\ Outs[s] \subseteq Channels
<1>1. /\ Stages = {"on_error", "on_close", "split", "on_binary", "pings",
                   "merge", "send"}
      /\ Channels = {"wire", "ok", "open", "msg", "keep_alive", "text",
                     "pong", "out", "merged", "socket"}
  BY DEF Stages, Ins, Channels, Cap
<1>2. \A k \in Flows : Way[k] \subseteq Places
  BY <1>1 DEF Flows, Way, Places
<1>3. \A d \in Places : Depth[d] \in 1..7
  BY <1>1 DEF Places, Depth
<1>4. \A d, e \in Way["text"] : Depth[d] = Depth[e] => d = e
  BY DEF Way, Depth
<1>5. \A d, e \in Way["ping"] : Depth[d] = Depth[e] => d = e
  BY DEF Way, Depth
<1>6. \A d, e \in Way["send"] : Depth[d] = Depth[e] => d = e
  BY DEF Way, Depth
<1>7. \A s \in Stages :
          Ins[s] \subseteq Channels /\ Outs[s] \subseteq Channels
  BY <1>1 DEF Ins, Outs
<1> QED
  BY <1>1, <1>2, <1>3, <1>4, <1>5, <1>6, <1>7 DEF Flows

(* Lemma: an item that a stage passes on goes one place down every way it  *)
(* is due on; it leaves a way only where its kind is not wanted on it.     *)
LEMMA Route ==
    ASSUME NEW s \in Stages, NEW c \in Ins[s], NEW x \in ItemType,
           x.kind \in Carries[c], ~Ends(s, x), ~Skips(s, x),
           NEW k \in Flows
    PROVE  /\ Target(s, x) \in Outs[s] /\ Target(s, x) # c
           /\ Mapped(s, x) \in ItemType /\ Mapped(s, x).n = x.n
           /\ Mapped(s, x).kind \in Carries[Target(s, x)]
           /\ \/ Mapped(s, x).kind = x.kind
              \/ Mapped(s, x).kind = "reply" /\ x.kind = "ping"
           /\ Own(k, Mapped(s, x)) <=> Own(k, x)
           /\ Target(s, x) \in Way[k] /\ Own(k, x) =>
                c \in Way[k] /\ Depth[Target(s, x)] = Depth[c] + 1
           /\ c \in Way[k] /\ Own(k, x) /\ Target(s, x) \notin Way[k] =>
                k # "send" /\ x.kind \in Kinds \ DueKinds[k]
<1> USE DEF Ins, Outs, Carries, Ends, Skips, Target, SplitTo, Mapped, Own,
        Way, Depth, DueKinds, Kinds, ItemType, Flows
<1>1. CASE s = "on_error"
  BY <1>1
<1>2. CASE s = "on_close"
  BY <1>2
<1>3. CASE s = "split"
  BY <1>3
<1>4. CASE s = "on_binary"
  BY <1>4
<1>5. CASE s = "pings"
  BY <1>5
<1>6. CASE s = "merge"
  BY <1>6
<1>7. CASE s = "send"
  BY <1>7
<1> QED
  BY <1>1, <1>2, <1>3, <1>4, <1>5, <1>6, <1>7, Shape

----------------------------------------------------------------------------
(* Items in a sequence.                                                    *)

(* Lemma: what taking the head of a channel does to its numbers.           *)
LEMMA HeadNums ==
    ASSUME NEW q \in Seq(ItemType), q # <<>>, NEW k \in Flows
    PROVE  /\ Head(q) \in ItemType /\ Tail(q) \in Seq(ItemType)
           /\ \A x : x \in Nums(q, k) <=>
                \/ x \in Nums(Tail(q), k)
                \/ Own(k, Head(q)) /\ x = Head(q).n
           /\ Sorted(q, k) =>
                /\ Sorted(Tail(q), k)
                /\ Own(k, Head(q)) =>
                     \A x \in Nums(Tail(q), k) : Head(q).n < x
<1> DEFINE t == Tail(q)
<1>1. /\ Head(q) = q[1] /\ q[1] \in ItemType /\ t \in Seq(ItemType)
      /\ Len(q) \in Nat /\ Len(q) >= 1 /\ Len(t) = Len(q) - 1
      /\ \A i \in 1..Len(t) : t[i] = q[i + 1]
      /\ DOMAIN q = 1..Len(q) /\ DOMAIN t = 1..Len(t)
  BY HeadTailProperties, EmptySeq, LenProperties
<1> HIDE DEF t
<1>2. \A x : x \in Nums(t, k) => x \in Nums(q, k)
  BY <1>1 DEF Nums
<1>3. \A x : x \in Nums(q, k) =>
          x \in Nums(t, k) \/ (Own(k, q[1]) /\ x = q[1].n)
  <2> SUFFICES ASSUME NEW i \in 1..Len(q), Own(k, q[i])
               PROVE  q[i].n \in Nums(t, k)
                        \/ (Own(k, q[1]) /\ q[i].n = q[1].n)
    BY <1>1 DEF Nums
  <2>1. CASE i = 1
    BY <2>1
  <2>2. CASE i # 1
    <3>1. i - 1 \in 1..Len(t) /\ t[i - 1] = q[i]
      BY <1>1, <2>2
    <3> QED
      BY <1>1, <3>1 DEF Nums
  <2> QED
    BY <2>1, <2>2
<1>4. Own(k, q[1]) => q[1].n \in Nums(q, k)
  BY <1>1 DEF Nums
<1>5. ASSUME Sorted(q, k) PROVE Sorted(t, k)
  <2> SUFFICES ASSUME NEW i \in 1..Len(t), NEW j \in 1..Len(t), i < j,
                      Own(k, t[i]), Own(k, t[j])
               PROVE  t[i].n < t[j].n
    BY <1>1 DEF Sorted
  <2>1. /\ i + 1 \in 1..Len(q) /\ j + 1 \in 1..Len(q) /\ i + 1 < j + 1
        /\ t[i] = q[i + 1] /\ t[j] = q[j + 1]
    BY <1>1
  <2> QED
    BY <1>1, <1>5, <2>1 DEF Sorted
<1>6. ASSUME Sorted(q, k), Own(k, q[1]), NEW x \in Nums(t, k)
      PROVE  q[1].n < x
  BY <1>1, <1>6 DEF Sorted, Nums
<1> QED
  BY <1>1, <1>2, <1>3, <1>4, <1>5, <1>6 DEF t

(* Lemma: what sending an item does to the numbers of a channel.           *)
LEMMA AppendNums ==
    ASSUME NEW q \in Seq(ItemType), NEW m \in ItemType, NEW k \in Flows
    PROVE  /\ Append(q, m) \in Seq(ItemType)
           /\ \A x : x \in Nums(Append(q, m), k) <=>
                x \in Nums(q, k) \/ (Own(k, m) /\ x = m.n)
           /\ Sorted(q, k) /\ (Own(k, m) => \A x \in Nums(q, k) : x < m.n) =>
                Sorted(Append(q, m), k)
<1> DEFINE a == Append(q, m)
<1>1. /\ a \in Seq(ItemType) /\ Len(q) \in Nat
      /\ DOMAIN q = 1..Len(q) /\ DOMAIN a = 1..(Len(q) + 1)
      /\ \A i \in 1..Len(q) : a[i] = q[i]
      /\ a[Len(q) + 1] = m
  BY AppendProperties, LenProperties
<1> HIDE DEF a
<1>2. \A i \in 1..(Len(q) + 1) : i \in 1..Len(q) \/ i = Len(q) + 1
  BY <1>1
<1>3. \A x : x \in Nums(a, k) <=> x \in Nums(q, k) \/ (Own(k, m) /\ x = m.n)
  BY <1>1, <1>2 DEF Nums
<1>4. ASSUME Sorted(q, k), Own(k, m) => \A x \in Nums(q, k) : x < m.n
      PROVE  Sorted(a, k)
  <2> SUFFICES ASSUME NEW i \in 1..(Len(q) + 1), NEW j \in 1..(Len(q) + 1),
                      i < j, Own(k, a[i]), Own(k, a[j])
               PROVE  a[i].n < a[j].n
    BY <1>1 DEF Sorted
  <2>1. i \in 1..Len(q)
    BY <1>1
  <2>2. CASE j \in 1..Len(q)
    BY <1>1, <1>4, <2>1, <2>2 DEF Sorted
  <2>3. CASE j = Len(q) + 1
    <3>1. a[i].n \in Nums(q, k)
      BY <1>1, <2>1 DEF Nums
    <3> QED
      BY <1>1, <1>4, <2>3, <3>1
  <2> QED
    BY <1>2, <2>2, <2>3
<1> QED
  BY <1>1, <1>3, <1>4 DEF a

(* Lemma: the items behind the head are those of the channel.              *)
LEMMA TailItems ==
    ASSUME NEW q \in Seq(ItemType), q # <<>>, NEW i \in DOMAIN Tail(q)
    PROVE  i + 1 \in DOMAIN q /\ Tail(q)[i] = q[i + 1]
BY HeadTailProperties, LenProperties

(* Lemma: after a send the items are those of the channel and the new one. *)
LEMMA AppendItems ==
    ASSUME NEW q \in Seq(ItemType), NEW m, NEW i \in DOMAIN Append(q, m)
    PROVE  (i \in DOMAIN q /\ Append(q, m)[i] = q[i]) \/ Append(q, m)[i] = m
BY AppendProperties, LenProperties

(* Lemma: an empty channel has no numbers.                                 *)
LEMMA NoNums ==
    ASSUME NEW k \in Flows
    PROVE  Nums(<<>>, k) = {} /\ Sorted(<<>>, k)
BY DEF Nums, Sorted

----------------------------------------------------------------------------
(* The order along the ways.                                               *)

Holding == [Places -> Seq(ItemType)]

(* What dropping items, from the front or all of them, leaves.             *)
Shrinks(h, g) ==
  \A d \in Places : \/ g[d] = h[d] \/ g[d] = <<>>
                    \/ h[d] # <<>> /\ g[d] = Tail(h[d])

(* Lemma: dropping items adds no numbers and keeps the order.              *)
LEMMA Shrunk ==
    ASSUME NEW h \in Holding, NEW g \in Holding, Shrinks(h, g),
           NEW f, NEW sends
    PROVE  /\ \A k \in Flows, d \in Places :
                Nums(g[d], k) \subseteq Nums(h[d], k)
           /\ Ordered(h) => Ordered(g)
           /\ Contents(h, f, sends) => Contents(g, f, sends)
<1>1. ASSUME NEW k \in Flows, NEW d \in Places
      PROVE  /\ Nums(g[d], k) \subseteq Nums(h[d], k)
             /\ Sorted(h[d], k) => Sorted(g[d], k)
  <2>1. h[d] \in Seq(ItemType)
    BY DEF Holding
  <2>2. CASE g[d] = h[d]
    BY <2>2
  <2>3. CASE g[d] = <<>>
    BY <2>3, NoNums
  <2>4. CASE h[d] # <<>> /\ g[d] = Tail(h[d])
    BY <2>1, <2>4, HeadNums
  <2> QED
    BY <2>2, <2>3, <2>4 DEF Shrinks
<1>2. ASSUME Ordered(h) PROVE Ordered(g)
  BY <1>1, <1>2, Shape DEF Ordered
<1>3. ASSUME Contents(h, f, sends), NEW d \in Places, NEW i \in DOMAIN g[d]
      PROVE  ItemOK(f, sends, d, g[d][i])
  <2>1. h[d] \in Seq(ItemType)
    BY DEF Holding
  <2>2. CASE g[d] = h[d]
    BY <1>3, <2>2 DEF Contents
  <2>3. CASE g[d] = <<>>
    BY <1>3, <2>3
  <2>4. CASE h[d] # <<>> /\ g[d] = Tail(h[d])
    <3>1. i + 1 \in DOMAIN h[d] /\ g[d][i] = h[d][i + 1]
      BY <1>3, <2>1, <2>4, TailItems
    <3> QED
      BY <1>3, <3>1 DEF Contents
  <2> QED
    BY <2>2, <2>3, <2>4 DEF Shrinks
<1> QED
  BY <1>1, <1>2, <1>3 DEF Contents

(* Item m goes from the head of place c to the end of place e.             *)
MovesItem(h, g, c, e, m) ==
  /\ h[c] # <<>> /\ c # e
  /\ m.n = Head(h[c]).n
  /\ \A k \in Flows : Own(k, m) <=> Own(k, Head(h[c]))
  /\ \A k \in Flows : e \in Way[k] /\ Own(k, m) =>
       c \in Way[k] /\ Depth[e] = Depth[c] + 1
  /\ g = [h EXCEPT ![c] = Tail(@), ![e] = Append(@, m)]

(* Where the numbers of flow k are after a move.                           *)
NumsMove(h, g, c, e, m, k) ==
  /\ \A d \in Places \ {c, e} : g[d] = h[d]
  /\ \A x : x \in Nums(h[c], k) <=>
       x \in Nums(g[c], k) \/ (Own(k, m) /\ x = m.n)
  /\ \A x : x \in Nums(g[e], k) <=>
       x \in Nums(h[e], k) \/ (Own(k, m) /\ x = m.n)

(* Lemma: a move takes the number of its item from place to place.         *)
LEMMA MovedNums ==
    ASSUME NEW h \in Holding, NEW g, NEW c \in Places, NEW e \in Places,
           NEW m \in ItemType, MovesItem(h, g, c, e, m), NEW k \in Flows
    PROVE  /\ g \in Holding
           /\ NumsMove(h, g, c, e, m, k)
<1>1. h[c] \in Seq(ItemType) /\ h[e] \in Seq(ItemType)
  BY DEF Holding
<1>2. /\ g[c] = Tail(h[c]) /\ g[e] = Append(h[e], m)
      /\ \A d \in Places \ {c, e} : g[d] = h[d]
  BY DEF MovesItem, Holding
<1>3. g \in Holding
  <2>1. Tail(h[c]) \in Seq(ItemType) /\ Append(h[e], m) \in Seq(ItemType)
    BY <1>1, HeadNums, AppendNums DEF MovesItem
  <2> QED
    BY <2>1 DEF MovesItem, Holding
<1>4. /\ \A x : x \in Nums(h[c], k) <=>
           x \in Nums(g[c], k) \/ (Own(k, m) /\ x = m.n)
  BY <1>1, <1>2, HeadNums DEF MovesItem
<1>5. /\ \A x : x \in Nums(g[e], k) <=>
           x \in Nums(h[e], k) \/ (Own(k, m) /\ x = m.n)
  BY <1>1, <1>2, AppendNums
<1> QED
  BY <1>2, <1>3, <1>4, <1>5 DEF NumsMove

(* Lemma: a move down the way keeps the order.                             *)
LEMMA OrderedMoves ==
    ASSUME NEW h \in Holding, NEW g, NEW c \in Places, NEW e \in Places,
           NEW m \in ItemType, MovesItem(h, g, c, e, m), Ordered(h)
    PROVE  Ordered(g)
<1> SUFFICES ASSUME NEW k \in Flows
             PROVE  /\ \A d \in Way[k] : Sorted(g[d], k)
                    /\ \A d, f \in Way[k] : Depth[d] > Depth[f] =>
                         \A x \in Nums(g[d], k), y \in Nums(g[f], k) : x < y
  BY DEF Ordered
<1>1. /\ \A d \in Places \ {c, e} : g[d] = h[d]
      /\ \A x : x \in Nums(h[c], k) <=>
           x \in Nums(g[c], k) \/ (Own(k, m) /\ x = m.n)
      /\ \A x : x \in Nums(g[e], k) <=>
           x \in Nums(h[e], k) \/ (Own(k, m) /\ x = m.n)
  <2>1. NumsMove(h, g, c, e, m, k)
    BY MovedNums
  <2> QED
    BY <2>1 DEF NumsMove
<1>2. /\ \A d \in Way[k] : Sorted(h[d], k)
      /\ \A d, f \in Way[k] : Depth[d] > Depth[f] =>
           \A x \in Nums(h[d], k), y \in Nums(h[f], k) : x < y
  BY DEF Ordered
<1>3. /\ Way[k] \subseteq Places
      /\ \A d \in Way[k] : Depth[d] \in 1..7
      /\ \A d, f \in Way[k] : Depth[d] = Depth[f] => d = f
  BY Shape
<1>4. e \in Way[k] /\ Own(k, m) => c \in Way[k] /\ Depth[e] = Depth[c] + 1
  BY DEF MovesItem
<1>5. /\ h[c] \in Seq(ItemType) /\ h[e] \in Seq(ItemType)
      /\ h[c] # <<>> /\ c # e
      /\ g[c] = Tail(h[c]) /\ g[e] = Append(h[e], m)
      /\ m.n = Head(h[c]).n /\ (Own(k, m) <=> Own(k, Head(h[c])))
  BY DEF MovesItem, Holding
<1>6. c \in Way[k] =>
        /\ Sorted(g[c], k)
        /\ Own(k, m) => \A x \in Nums(g[c], k) : m.n < x
  BY <1>2, <1>5, HeadNums
<1>7. ASSUME e \in Way[k] PROVE Sorted(g[e], k)
  <2>1. Own(k, m) => \A x \in Nums(h[e], k) : x < m.n
    BY <1>1, <1>2, <1>3, <1>4, <1>7
  <2> QED
    BY <1>2, <1>5, <1>7, <2>1, AppendNums
<1>8. \A d \in Way[k] : Sorted(g[d], k)
  BY <1>1, <1>2, <1>3, <1>6, <1>7
<1>9. ASSUME NEW d \in Way[k], NEW f \in Way[k], Depth[d] > Depth[f],
             NEW x \in Nums(g[d], k), NEW y \in Nums(g[f], k)
      PROVE  x < y
  <2>1. x \in Nums(h[d], k) \/ (d = e /\ Own(k, m) /\ x = m.n)
    BY <1>1, <1>3
  <2>2. y \in Nums(h[f], k) \/ (f = e /\ Own(k, m) /\ y = m.n)
    BY <1>1, <1>3
  <2>3. CASE x \in Nums(h[d], k) /\ y \in Nums(h[f], k)
    BY <1>2, <1>9, <2>3
  <2>4. CASE d = e /\ Own(k, m) /\ x = m.n
    <3>1. c \in Way[k] /\ Depth[e] = Depth[c] + 1 /\ f # e
      BY <1>3, <1>4, <1>9, <2>4
    <3>2. CASE f = c
      BY <1>6, <1>9, <2>4, <3>1, <3>2
    <3>3. CASE f # c
      <4>1. Depth[c] > Depth[f]
        BY <1>3, <1>9, <2>4, <3>1, <3>3
      <4>2. m.n \in Nums(h[c], k) /\ y \in Nums(h[f], k)
        BY <1>1, <2>2, <2>4, <3>1
      <4> QED
        BY <1>2, <2>4, <3>1, <4>1, <4>2
    <3> QED
      BY <3>2, <3>3
  <2>5. CASE f = e /\ Own(k, m) /\ y = m.n
    <3>1. c \in Way[k] /\ Depth[e] = Depth[c] + 1 /\ d # e
      BY <1>3, <1>4, <1>9, <2>5
    <3>2. Depth[d] > Depth[c]
      BY <1>3, <1>9, <2>5, <3>1
    <3>3. m.n \in Nums(h[c], k) /\ x \in Nums(h[d], k)
      BY <1>1, <2>1, <2>5, <3>1
    <3> QED
      BY <1>2, <2>5, <3>1, <3>2, <3>3
  <2> QED
    BY <2>1, <2>2, <2>3, <2>4, <2>5
<1> QED
  BY <1>8, <1>9

----------------------------------------------------------------------------
(* The steps.                                                              *)

(* Lemma: what the pump holds.                                             *)
LEMMA HeldType ==
    ASSUME PumpTypeOK
    PROVE  /\ Held \in Holding
           /\ Held["got"] = got
           /\ \A c \in Channels : Held[c] = chan[c]
BY Shape DEF PumpTypeOK, Held, Holding, Places

(* Lemma: what is wanted is due.                                           *)
LEMMA WantedIsDue ==
    ASSUME NEW f, NEW sends, NEW k \in Flows
    PROVE  Wanted(f, sends, k) \subseteq Due(f, sends, k)
BY DEF Wanted, Due, DueKinds, Kinds, Flows

(* Lemma: a dropped receiver does not come back.                           *)
LEMMA DeadStays ==
    ASSUME running' \subseteq running, sinkOk' => sinkOk,
           reader = "gone" => reader' = "gone", NEW c, ~Live(c)
    PROVE  ~Live(c)'
BY DEF Live

(* Lemma: a step that moves one item a place down keeps the invariant.     *)
LEMMA MoveStep ==
    ASSUME PumpIInv,
           UNCHANGED <<frames, sent, running, sinkOk, reader, sender, inOpen>>,
           chan' \in [Channels -> Seq(ItemType)], got' \in Seq(ItemType),
           NEW g, g = Held', NEW c \in Channels, NEW e \in Places,
           NEW m \in ItemType, MovesItem(Held, g, c, e, m),
           e # "wire", ItemOK(frames, sent, e, m), e = "got" \/ Live(e),
           \A k \in Flows : c \in Way[k] /\ Own(k, m) /\ e \notin Way[k] =>
             m.n \notin Due(frames, sent, k)
    PROVE  PumpIInv'
<1>1. PumpTypeOK'
  BY DEF PumpIInv, PumpTypeOK
<1>2. /\ Held \in Holding /\ \A d \in Channels : Held[d] = chan[d]
      /\ g \in Holding /\ \A d \in Channels : g[d] = chan'[d]
      /\ c \in Places
  <2>1. Held \in Holding /\ \A d \in Channels : Held[d] = chan[d]
    BY HeldType DEF PumpIInv
  <2>2. g \in Holding /\ \A d \in Channels : g[d] = chan'[d]
    BY <1>1, Shape DEF PumpTypeOK, Held, Holding, Places
  <2> QED
    BY <2>1, <2>2 DEF Places
<1>3. \A k \in Flows : NumsMove(Held, g, c, e, m, k)
  BY <1>2, MovedNums
<1>4. Ordered(g)
  BY <1>2, OrderedMoves DEF PumpIInv
<1>5. Contents(g, frames, sent)
  <2> SUFFICES ASSUME NEW d \in Places, NEW i \in DOMAIN g[d]
               PROVE  ItemOK(frames, sent, d, g[d][i])
    BY DEF Contents
  <2>1. /\ Held[c] # <<>> /\ c # e
        /\ g = [Held EXCEPT ![c] = Tail(@), ![e] = Append(@, m)]
    BY DEF MovesItem
  <2>2. CASE d = c
    <3>1. Held[c] \in Seq(ItemType) /\ g[c] = Tail(Held[c])
      BY <1>2, <2>1 DEF Holding
    <3>2. i + 1 \in DOMAIN Held[c] /\ g[c][i] = Held[c][i + 1]
      BY <2>1, <2>2, <3>1, TailItems
    <3> QED
      BY <2>2, <3>2 DEF PumpIInv, Contents
  <2>3. CASE d = e
    <3>1. Held[e] \in Seq(ItemType) /\ g[e] = Append(Held[e], m)
      BY <1>2, <2>1 DEF Holding
    <3>2. (i \in DOMAIN Held[e] /\ g[e][i] = Held[e][i]) \/ g[e][i] = m
      BY <2>3, <3>1, AppendItems
    <3> QED
      BY <2>3, <3>2 DEF PumpIInv, Contents
  <2>4. CASE d \notin {c, e}
    BY <1>2, <2>1, <2>4 DEF PumpIInv, Contents, Holding
  <2> QED
    BY <2>2, <2>3, <2>4
<1>6. \A d : Live(d)' <=> Live(d)
  BY DEF Live
<1>7. DeadEmpty'
  <2>1. \A d \in Channels \ {"socket"} : ~Live(d) => chan[d] = <<>>
    BY DEF PumpIInv, DeadEmpty
  <2>2. /\ \A d \in Channels \ {c, e} : chan'[d] = chan[d]
        /\ chan[c] # <<>>
    BY <1>2 DEF MovesItem, Holding, Places
  <2>3. "got" \notin Channels
    BY Shape
  <2> QED
    BY <1>6, <2>1, <2>2, <2>3 DEF DeadEmpty
<1>8. ASSUME NEW k \in Flows, NEW p \in Due(frames, sent, k),
             OnTheWay(Held, k, p)
      PROVE  OnTheWay(g, k, p)
  <2>1. PICK d \in Way[k] : p \in Nums(Held[d], k)
    BY <1>8 DEF OnTheWay
  <2>2. /\ \A a \in Places \ {c, e} : g[a] = Held[a]
        /\ \A x : x \in Nums(Held[c], k) <=>
             x \in Nums(g[c], k) \/ (Own(k, m) /\ x = m.n)
        /\ \A x : x \in Nums(g[e], k) <=>
             x \in Nums(Held[e], k) \/ (Own(k, m) /\ x = m.n)
    BY <1>3 DEF NumsMove
  <2>3. Way[k] \subseteq Places
    BY Shape
  <2> QED
    BY <2>1, <2>2, <2>3 DEF OnTheWay
<1>9. ASSUME NEW k \in Flows, NEW p \in Due(frames, sent, k),
             NEW a \in Way[k] \ EndsOfWays, ~Live(a),
             LostAt(Held, frames, k, p, a)
      PROVE  LostAt(g, frames, k, p, a)
  <2> SUFFICES ASSUME NEW d \in Way[k], Depth[d] > Depth[a],
                      NEW x \in Nums(g[d], k)
               PROVE  x < p
    BY <1>9 DEF LostAt
  <2>1. \A y \in Nums(Held[d], k) : y < p
    BY <1>9 DEF LostAt
  <2>2. x \in Nums(Held[d], k) \/ (d = e /\ Own(k, m) /\ x = m.n)
    BY <1>3, Shape DEF NumsMove
  <2>3. CASE d = e /\ Own(k, m) /\ x = m.n
    <3>1. c \in Way[k] /\ Depth[e] = Depth[c] + 1
      BY <2>3 DEF MovesItem
    <3>2. m.n \in Nums(Held[c], k)
      BY <1>3, <2>3 DEF NumsMove
    <3>3. c # a
      <4>1. Depth["socket"] = 7 /\ Depth[e] \in 1..7 /\ Depth[c] \in 1..7
        BY <1>2, Shape DEF Depth
      <4>2. c # "socket"
        BY <3>1, <4>1
      <4>3. chan[c] # <<>>
        BY <1>2 DEF MovesItem
      <4> QED
        BY <1>9, <4>2, <4>3 DEF PumpIInv, DeadEmpty
    <3>4. Depth[c] > Depth[a]
      <4>1. Depth[a] \in 1..7 /\ Depth[c] \in 1..7 /\ Depth[a] # Depth[c]
        BY <3>1, <3>3, Shape
      <4> QED
        BY <2>3, <3>1, <4>1
    <3> QED
      BY <1>9, <2>3, <3>1, <3>2, <3>4 DEF LostAt
  <2> QED
    BY <2>1, <2>2, <2>3
<1>10. Accounted'
  BY <1>6, <1>8, <1>9 DEF PumpIInv, Accounted
<1>11. EndsInOrder'
  <2>1. Nums(g["wire"], "text") \subseteq Nums(Held["wire"], "text")
    BY <1>3, Shape DEF NumsMove, Flows, Places
  <2> QED
    BY <2>1 DEF PumpIInv, EndsInOrder, Sound
<1>12. NothingLost'
  BY <1>8, WantedIsDue DEF PumpIInv, NothingLost, Sound
<1> QED
  BY <1>1, <1>4, <1>5, <1>7, <1>10, <1>11, <1>12 DEF PumpIInv

(* Lemma: an item is nowhere its kind does not get to.                     *)
LEMMA WithinReach ==
    ASSUME NEW f, NEW sends, \A i \in DOMAIN f : f[i].kind \in Kinds,
           NEW k \in Flows, NEW d \in Way[k], NEW x,
           ItemOK(f, sends, d, x), Own(k, x)
    PROVE  Depth[d] <= Reach(f, k, x.n)
<1>1. ASSUME NEW a \in Way["text"] \cup Way["ping"], NEW kind,
             NEW of \in Kinds, kind \in Carries[a], kind # "send",
             kind = of \/ (kind = "reply" /\ of = "ping")
      PROVE  Depth[a] <= KindReach[of]
  <2> USE DEF KindReach, Carries, Depth, Kinds
  <2>1. CASE a = "wire"
    BY <1>1, <2>1
  <2>2. CASE a = "ok"
    BY <1>1, <2>2
  <2>3. CASE a = "open"
    BY <1>1, <2>3
  <2>4. CASE a \in {"msg", "keep_alive"}
    BY <1>1, <2>4
  <2>5. CASE a \in {"text", "pong", "got", "merged", "socket"}
    BY <1>1, <2>5
  <2> QED
    BY <2>1, <2>2, <2>3, <2>4, <2>5 DEF Way
<1>2. CASE k = "send"
  <2>1. Depth[d] \in 1..7
    BY Shape
  <2> QED
    BY <1>2, <2>1 DEF Reach
<1>3. CASE k # "send"
  <2>1. d \in Way["text"] \cup Way["ping"]
    BY <1>3 DEF Flows
  <2> QED
    BY <1>1, <1>3, <2>1 DEF Reach, ItemOK, Own
<1> QED
  BY <1>2, <1>3

(* Lemma: the same for a number.                                           *)
LEMMA NumWithinReach ==
    ASSUME PumpIInv, NEW k \in Flows, NEW d \in Way[k],
           NEW p \in Nums(Held[d], k)
    PROVE  /\ p \in Nat /\ Depth[d] <= Reach(frames, k, p)
           /\ k # "send" => p \in DOMAIN frames
<1>1. PICK i \in DOMAIN Held[d] : Own(k, Held[d][i]) /\ p = Held[d][i].n
  BY DEF Nums
<1>2. d \in Places
  BY Shape
<1>3. ItemOK(frames, sent, d, Held[d][i])
  BY <1>2 DEF PumpIInv, Contents
<1>4. Held[d] \in Seq(ItemType)
  BY <1>2, HeldType DEF PumpIInv, Holding
<1>5. PICK x \in ItemType : x = Held[d][i]
  BY <1>4
<1> QED
  BY <1>1, <1>3, <1>5, WithinReach
     DEF PumpIInv, PumpTypeOK, ItemType, ItemOK, Own

(* Lemma: a step that only drops items keeps the invariant when what it    *)
(* drops was in front of a dropped receiver, and not wanted unless the     *)
(* pump is cut short.                                                      *)
LEMMA ShrinkStep ==
    ASSUME PumpIInv, UNCHANGED <<frames, sent>>, PumpTypeOK',
           running' \subseteq running, sinkOk' => sinkOk,
           reader = "gone" => reader' = "gone",
           NEW g, g = Held', Shrinks(Held, g),
           DeadEmpty', EndsInOrder',
           \A k \in Flows : \A d \in Way[k] :
             \A p \in Nums(Held[d], k) \ Nums(g[d], k) :
               p \in Due(frames, sent, k) =>
                 \E a \in Way[k] \ EndsOfWays :
                   /\ ~Live(a)' /\ Depth[a] >= Depth[d]
                   /\ Depth[a] <= Reach(frames, k, p),
           Sound' => \A k \in Flows : \A d \in Way[k] :
             \A p \in Nums(Held[d], k) \ Nums(g[d], k) :
               p \notin Wanted(frames, sent, k)
    PROVE  PumpIInv'
<1>1. Held \in Holding /\ g \in Holding
  BY HeldType, Shape DEF PumpIInv, PumpTypeOK, Held, Holding, Places
<1>2. /\ \A k \in Flows, d \in Places :
           Nums(g[d], k) \subseteq Nums(Held[d], k)
      /\ Ordered(g) /\ Contents(g, frames, sent)
  BY <1>1, Shrunk DEF PumpIInv
<1>3. Ordered(Held)' /\ Contents(Held, frames, sent)'
  BY <1>2
<1>4. ASSUME NEW k \in Flows, NEW p, NEW a \in Way[k] \ EndsOfWays,
             LostAt(Held, frames, k, p, a)
      PROVE  LostAt(g, frames, k, p, a)
  BY <1>2, <1>4, Shape DEF LostAt
<1>5. Accounted'
  <2> SUFFICES ASSUME NEW k \in Flows, NEW p \in Due(frames, sent, k)
               PROVE  \/ OnTheWay(g, k, p)
                      \/ \E a \in Way[k] \ EndsOfWays :
                           ~Live(a)' /\ LostAt(g, frames, k, p, a)
    BY DEF Accounted
  <2>1. CASE OnTheWay(Held, k, p)
    <3>1. PICK d \in Way[k] : p \in Nums(Held[d], k)
      BY <2>1 DEF OnTheWay
    <3>2. CASE p \in Nums(g[d], k)
      BY <3>2 DEF OnTheWay
    <3>3. CASE p \notin Nums(g[d], k)
      <4>1. PICK a \in Way[k] \ EndsOfWays :
                   /\ ~Live(a)' /\ Depth[a] >= Depth[d]
                   /\ Depth[a] <= Reach(frames, k, p)
        BY <3>1, <3>3
      <4>2. ASSUME NEW b \in Way[k], Depth[b] > Depth[a],
                   NEW x \in Nums(g[b], k)
            PROVE  x < p
        <5>1. Depth[b] > Depth[d]
          <6>1. Depth[a] \in 1..7 /\ Depth[b] \in 1..7 /\ Depth[d] \in 1..7
            BY Shape
          <6> QED
            BY <4>1, <4>2, <6>1
        <5>2. x \in Nums(Held[b], k)
          BY <1>2, <4>2, Shape
        <5> QED
          BY <3>1, <5>1, <5>2 DEF PumpIInv, Ordered
      <4> QED
        BY <4>1, <4>2 DEF LostAt
    <3> QED
      BY <3>2, <3>3
  <2>2. CASE ~OnTheWay(Held, k, p)
    <3>1. PICK a \in Way[k] \ EndsOfWays :
            ~Live(a) /\ LostAt(Held, frames, k, p, a)
      BY <2>2 DEF PumpIInv, Accounted
    <3>2. ~Live(a)'
      BY <3>1, DeadStays
    <3> QED
      BY <1>4, <3>1, <3>2
  <2> QED
    BY <2>1, <2>2
<1>6. NothingLost'
  <2> SUFFICES ASSUME Sound', NEW k \in Flows,
                      NEW p \in Wanted(frames, sent, k)
               PROVE  OnTheWay(g, k, p)
    BY DEF NothingLost
  <2>1. Sound
    BY DEF Sound
  <2>2. PICK d \in Way[k] : p \in Nums(Held[d], k)
    BY <2>1 DEF PumpIInv, NothingLost, OnTheWay
  <2> QED
    BY <2>2 DEF OnTheWay
<1> QED
  BY <1>3, <1>5, <1>6 DEF PumpIInv

(* Lemma: nothing is beyond where an earlier item of its way can get.      *)
LEMMA Past ==
    ASSUME PumpIInv, NEW k \in Flows, NEW d \in Way[k],
           NEW y \in Nums(Held[d], k), NEW j \in Due(frames, sent, k),
           Depth[d] > Reach(frames, k, j), Reach(frames, k, j) \in Nat
    PROVE  y < j
<1>1. ASSUME NEW a \in Way[k], Depth[a] <= Reach(frames, k, j)
      PROVE  Depth[d] > Depth[a]
  <2>1. Depth[a] \in 1..7 /\ Depth[d] \in 1..7
    BY Shape
  <2> QED
    BY <1>1, <2>1
<1>2. CASE OnTheWay(Held, k, j)
  <2>1. PICK a \in Way[k] : j \in Nums(Held[a], k)
    BY <1>2 DEF OnTheWay
  <2>2. Depth[d] > Depth[a]
    BY <1>1, <2>1, NumWithinReach
  <2> QED
    BY <2>1, <2>2 DEF PumpIInv, Ordered
<1>3. CASE ~OnTheWay(Held, k, j)
  <2>1. PICK a \in Way[k] \ EndsOfWays : LostAt(Held, frames, k, j, a)
    BY <1>3 DEF PumpIInv, Accounted
  <2> QED
    BY <1>1, <2>1 DEF LostAt
<1> QED
  BY <1>2, <1>3

(* Lemma: whose receivers and senders a channel has.                       *)
LEMMA EndsOfChannels ==
    ASSUME running \subseteq Stages
    PROVE  /\ Live("wire") <=> "on_error" \in running
           /\ Live("ok") <=> "on_close" \in running
           /\ Live("open") <=> "split" \in running
           /\ Live("msg") <=> "on_binary" \in running
           /\ Live("keep_alive") <=> "pings" \in running
           /\ Live("text") <=> reader # "gone"
           /\ Live("pong") <=> "merge" \in running
           /\ Live("out") <=> "merge" \in running
           /\ Live("merged") <=> "send" \in running
           /\ Live("socket") <=> sinkOk
           /\ Open("ok") <=> "on_error" \in running
           /\ Open("open") <=> "on_close" \in running
           /\ Open("msg") <=> "split" \in running
           /\ Open("keep_alive") <=> "split" \in running
           /\ Open("pong") <=> "pings" \in running
           /\ Open("out") <=> sender
           /\ Open("merged") <=> "merge" \in running
<1>1. \A s \in running : s \in Stages
  OBVIOUS
<1>2. Live("wire") <=> "on_error" \in running
  BY <1>1, Shape DEF Live, Ins
<1>3. Live("ok") <=> "on_close" \in running
  BY <1>1, Shape DEF Live, Ins
<1>4. Live("open") <=> "split" \in running
  BY <1>1, Shape DEF Live, Ins
<1>5. Live("msg") <=> "on_binary" \in running
  BY <1>1, Shape DEF Live, Ins
<1>6. Live("keep_alive") <=> "pings" \in running
  BY <1>1, Shape DEF Live, Ins
<1>7. Live("text") <=> reader # "gone"
  BY <1>1, Shape DEF Live, Ins
<1>8. Live("pong") <=> "merge" \in running
  BY <1>1, Shape DEF Live, Ins
<1>9. Live("out") <=> "merge" \in running
  BY <1>1, Shape DEF Live, Ins
<1>10. Live("merged") <=> "send" \in running
  BY <1>1, Shape DEF Live, Ins
<1>11. Live("socket") <=> sinkOk
  BY <1>1, Shape DEF Live, Ins
<1>12. Open("ok") <=> "on_error" \in running
  BY <1>1, Shape DEF Open, Outs
<1>13. Open("open") <=> "on_close" \in running
  BY <1>1, Shape DEF Open, Outs
<1>14. Open("msg") <=> "split" \in running
  BY <1>1, Shape DEF Open, Outs
<1>15. Open("keep_alive") <=> "split" \in running
  BY <1>1, Shape DEF Open, Outs
<1>16. Open("pong") <=> "pings" \in running
  BY <1>1, Shape DEF Open, Outs
<1>17. Open("out") <=> sender
  BY <1>1, Shape DEF Open, Outs
<1>18. Open("merged") <=> "merge" \in running
  BY <1>1, Shape DEF Open, Outs
<1> QED
  BY <1>2, <1>3, <1>4, <1>5, <1>6, <1>7, <1>8, <1>9, <1>10, <1>11, <1>12,
     <1>13, <1>14, <1>15, <1>16, <1>17, <1>18

(* What a stage may end for in a pump that is not cut short: nothing that  *)
(* is wanted is left in its inputs, and those before it have ended.        *)
EndsWell(s) ==
  /\ \A k \in Flows : \A c \in Ins[s] \cap Way[k] :
       \A p \in Nums(Held[c], k) : p \notin Wanted(frames, sent, k)
  /\ s = "send" => "merge" \notin running
  /\ s = "merge" => ~sender /\ "pings" \notin running
  /\ s \in {"pings", "on_binary"} => "split" \notin running
  /\ s = "split" => "on_close" \notin running
  /\ s = "on_close" =>
       \A p \in Nums(Held["wire"], "text") : ~Early(frames, p)

(* Lemma: the end of a task keeps the invariant.                           *)
LEMMA StopStep ==
    ASSUME PumpIInv, NEW s \in running, running' = running \ {s},
           chan' = Dropped(chan, Ins[s]), UNCHANGED outside,
           Sound => EndsWell(s)
    PROVE  PumpIInv'
<1>1. s \in Stages /\ running \subseteq Stages /\ running' \subseteq Stages
  BY DEF PumpIInv, PumpTypeOK
<1>2. /\ UNCHANGED <<frames, sent, sinkOk, reader, sender, inOpen, got>>
      /\ \A c \in Channels :
           chan'[c] = IF c \in Ins[s] THEN <<>> ELSE chan[c]
  BY DEF outside, Dropped
<1>3. PumpTypeOK'
  <2>1. chan' \in [Channels -> Seq(ItemType)]
    BY EmptySeq DEF PumpIInv, PumpTypeOK, Dropped
  <2> QED
    BY <1>1, <1>2, <2>1 DEF PumpIInv, PumpTypeOK
<1>4. PICK g : g = Held'
  OBVIOUS
<1>5. /\ Held["got"] = got /\ \A c \in Channels : Held[c] = chan[c]
      /\ g["got"] = got' /\ \A c \in Channels : g[c] = chan'[c]
      /\ "got" \notin Channels
  <2>1. Held["got"] = got /\ \A c \in Channels : Held[c] = chan[c]
    BY HeldType DEF PumpIInv
  <2>2. g["got"] = got' /\ \A c \in Channels : g[c] = chan'[c]
    BY <1>4, Shape DEF Held, Places
  <2> QED
    BY <2>1, <2>2, Shape
<1>6. \A d \in Places : g[d] = IF d \in Ins[s] THEN <<>> ELSE Held[d]
  <2>1. Ins[s] \subseteq Channels
    BY <1>1, Shape
  <2> QED
    BY <1>2, <1>5, <2>1 DEF Places
<1>7. Shrinks(Held, g)
  BY <1>6 DEF Shrinks
<1>8. \A c \in Channels : c \in Ins[s] => ~Live(c)'
  <2> SUFFICES ASSUME NEW c \in Channels, c \in Ins[s] PROVE ~Live(c)'
    OBVIOUS
  <2>1. \A r \in Stages \ {s} : c \notin Ins[r]
    BY <1>1, Shape DEF Ins
  <2>2. c \notin {"text", "socket"}
    BY <1>1, Shape DEF Ins
  <2> QED
    BY <1>1, <2>1, <2>2 DEF Live
<1>9. \A c \in Channels : c \notin Ins[s] => (Live(c)' <=> Live(c))
  BY <1>2 DEF Live
<1>10. DeadEmpty'
  BY <1>2, <1>8, <1>9 DEF PumpIInv, DeadEmpty
<1>11. \A k \in Flows : \A d \in Way[k] :
         \A p \in Nums(Held[d], k) \ Nums(g[d], k) : d \in Ins[s]
  BY <1>6, Shape
<1>12. \A k \in Flows : \A d \in Way[k] :
          \A p \in Nums(Held[d], k) \ Nums(g[d], k) :
            p \in Due(frames, sent, k) =>
              \E a \in Way[k] \ EndsOfWays :
                /\ ~Live(a)' /\ Depth[a] >= Depth[d]
                /\ Depth[a] <= Reach(frames, k, p)
  <2> SUFFICES ASSUME NEW k \in Flows, NEW d \in Way[k],
                      NEW p \in Nums(Held[d], k) \ Nums(g[d], k)
               PROVE  /\ d \notin EndsOfWays /\ ~Live(d)'
                      /\ Depth[d] >= Depth[d]
                      /\ Depth[d] <= Reach(frames, k, p)
    OBVIOUS
  <2>1. d \in Ins[s] /\ d \in Channels /\ Depth[d] \in Nat
    BY <1>1, <1>11, Shape
  <2>2. d # "socket"
    BY <1>1, <2>1, Shape DEF Ins
  <2> QED
    BY <1>5, <1>8, <2>1, <2>2, NumWithinReach DEF EndsOfWays
<1>13. Sound' => \A k \in Flows : \A d \in Way[k] :
          \A p \in Nums(Held[d], k) \ Nums(g[d], k) :
            p \notin Wanted(frames, sent, k)
  BY <1>2, <1>11 DEF Sound, EndsWell
<1>14. EndsInOrder'
  <2> SUFFICES ASSUME Sound'
               PROVE  /\ "send" \notin running' => "merge" \notin running'
                      /\ "merge" \notin running' =>
                           ~sender' /\ "pings" \notin running'
                      /\ "pings" \notin running' => "split" \notin running'
                      /\ "on_binary" \notin running' =>
                           "split" \notin running'
                      /\ "split" \notin running' => "on_close" \notin running'
                      /\ "on_close" \notin running' =>
                           \A p \in Nums(g["wire"], "text") :
                             ~Early(frames', p)
    BY <1>4 DEF EndsInOrder
  <2>1. Sound
    BY <1>2 DEF Sound
  <2>2. \A p :
          p \in Nums(g["wire"], "text") => p \in Nums(Held["wire"], "text")
    BY <1>6, Shape, NoNums DEF Places, Flows
  <2> QED
    BY <1>2, <2>1, <2>2 DEF PumpIInv, EndsInOrder, EndsWell
<1> QED
  BY <1>2, <1>3, <1>4, <1>7, <1>10, <1>12, <1>13, <1>14, ShrinkStep

(* Lemma: in a pump that is not cut short only on_error finds its receiver *)
(* gone, and what it holds then is not wanted.                             *)
LEMMA DeadTarget ==
    ASSUME PumpIInv, Sound, NEW s \in running, NEW e \in Outs[s], ~Live(e)
    PROVE  /\ s = "on_error"
           /\ \A p \in Nums(Held["wire"], "text") : ~Early(frames, p)
<1>1. s \in Stages /\ running \subseteq Stages
  BY DEF PumpIInv, PumpTypeOK
<1>2. /\ "send" \notin running => "merge" \notin running
      /\ "merge" \notin running => "pings" \notin running
      /\ "pings" \notin running => "split" \notin running
      /\ "on_binary" \notin running => "split" \notin running
      /\ "split" \notin running => "on_close" \notin running
      /\ "on_close" \notin running =>
           \A p \in Nums(Held["wire"], "text") : ~Early(frames, p)
  BY DEF PumpIInv, EndsInOrder
<1>3. CASE s = "on_error"
  <2>1. e = "ok"
    BY <1>3 DEF Outs
  <2> QED
    BY <1>1, <1>2, <1>3, <2>1, EndsOfChannels
<1>4. CASE s = "on_close"
  <2>1. e = "open"
    BY <1>4 DEF Outs
  <2> QED
    BY <1>1, <1>2, <1>4, <2>1, EndsOfChannels
<1>5. CASE s = "split"
  <2>1. e = "msg" \/ e = "keep_alive"
    BY <1>5 DEF Outs
  <2> QED
    BY <1>1, <1>2, <1>5, <2>1, EndsOfChannels
<1>6. CASE s = "on_binary"
  <2>1. e = "text"
    BY <1>6 DEF Outs
  <2> QED
    BY <1>1, <2>1, EndsOfChannels DEF Sound
<1>7. CASE s = "pings"
  <2>1. e = "pong"
    BY <1>7 DEF Outs
  <2> QED
    BY <1>1, <1>2, <1>7, <2>1, EndsOfChannels
<1>8. CASE s = "merge"
  <2>1. e = "merged"
    BY <1>8 DEF Outs
  <2> QED
    BY <1>1, <1>2, <1>8, <2>1, EndsOfChannels
<1>9. CASE s = "send"
  <2>1. e = "socket"
    BY <1>9 DEF Outs
  <2> QED
    BY <1>1, <2>1, EndsOfChannels DEF Sound
<1> QED
  BY <1>1, <1>3, <1>4, <1>5, <1>6, <1>7, <1>8, <1>9, Shape

(* Lemma: the frames of both ways are the same where they are not split.   *)
LEMMA SameNums ==
    ASSUME NEW q
    PROVE  Nums(q, "ping") = Nums(q, "text")
BY DEF Nums, Own

(* Lemma: what comes after a close or an error is wanted on no way.        *)
LEMMA LateUnwanted ==
    ASSUME NEW k \in Flows \ {"send"}, NEW p, ~Early(frames, p)
    PROVE  p \notin Wanted(frames, sent, k)
BY DEF Flows, Wanted, Early

(* Lemma: a stage whose inputs are over has ended well.                    *)
LEMMA FinishWell ==
    ASSUME PumpIInv, NEW s \in Stages, Finish(s)
    PROVE  EndsWell(s)
<1>1. running \subseteq Stages /\ Ins[s] \subseteq Channels
  BY Shape DEF PumpIInv, PumpTypeOK
<1>2. \A c \in Channels : Held[c] = chan[c]
  BY HeldType DEF PumpIInv
<1>3. \A c \in Ins[s] : ~Open(c) /\ chan[c] = <<>>
  BY DEF Finish
<1>4. \A k \in Flows : \A c \in Ins[s] \cap Way[k] :
        \A p \in Nums(Held[c], k) : p \notin Wanted(frames, sent, k)
  BY <1>1, <1>2, <1>3, NoNums
<1>5. s = "send" => "merge" \notin running
  BY <1>1, <1>3, EndsOfChannels DEF Ins
<1>6. s = "merge" => ~sender /\ "pings" \notin running
  BY <1>1, <1>3, EndsOfChannels DEF Ins
<1>7. s \in {"pings", "on_binary"} => "split" \notin running
  BY <1>1, <1>3, EndsOfChannels DEF Ins
<1>8. s = "split" => "on_close" \notin running
  BY <1>1, <1>3, EndsOfChannels DEF Ins
<1>9. ASSUME s = "on_close"
      PROVE  \A p \in Nums(Held["wire"], "text") : ~Early(frames, p)
  <2>1. "on_error" \notin running
    BY <1>1, <1>3, <1>9, EndsOfChannels DEF Ins
  <2>2. chan["wire"] = <<>> /\ "wire" \in Channels
    BY <1>1, <2>1, EndsOfChannels, Shape DEF PumpIInv, DeadEmpty
  <2> QED
    BY <1>2, <2>2, NoNums DEF Flows
<1> QED
  BY <1>4, <1>5, <1>6, <1>7, <1>8, <1>9 DEF EndsWell

(* Lemma: a stage that finds its receiver gone has ended well.             *)
LEMMA FailWell ==
    ASSUME PumpIInv, Sound, NEW s \in running, NEW e \in Outs[s], ~Live(e)
    PROVE  EndsWell(s)
<1>1. /\ s = "on_error"
      /\ \A p \in Nums(Held["wire"], "text") : ~Early(frames, p)
  BY DeadTarget
<1>2. Ins[s] = {"wire"} /\ "wire" \notin Way["send"]
  BY <1>1 DEF Ins, Way
<1>3. \A k \in Flows \ {"send"} :
        \A p \in Nums(Held["wire"], k) : p \notin Wanted(frames, sent, k)
  BY <1>1, SameNums, LateUnwanted DEF Flows
<1> QED
  BY <1>1, <1>2, <1>3 DEF EndsWell

(* Lemma: the item at the head of a channel.                               *)
LEMMA HeadItem ==
    ASSUME PumpIInv, NEW c \in Channels, chan[c] # <<>>
    PROVE  /\ c \in Places /\ Held[c] = chan[c]
           /\ Head(chan[c]) \in ItemType
           /\ ItemOK(frames, sent, c, Head(chan[c]))
           /\ \A k \in Flows : Own(k, Head(chan[c])) =>
                Head(chan[c]).n \in Nums(Held[c], k)
           /\ \A k \in Flows : c \in Way[k] /\ Own(k, Head(chan[c])) =>
                \A p \in Nums(Held[c], k) : Head(chan[c]).n <= p
<1>1. c \in Places /\ Held[c] = chan[c] /\ Held[c] \in Seq(ItemType)
  BY HeldType DEF PumpIInv, Places, Holding
<1>2. /\ 1 \in DOMAIN Held[c] /\ Head(Held[c]) = Held[c][1]
      /\ Head(Held[c]) \in ItemType
  BY <1>1, HeadTailProperties, EmptySeq, LenProperties
<1>3. ItemOK(frames, sent, c, Head(chan[c]))
  BY <1>1, <1>2 DEF PumpIInv, Contents
<1>4. ASSUME NEW k \in Flows, Own(k, Head(chan[c]))
      PROVE  /\ Head(chan[c]).n \in Nums(Held[c], k)
             /\ c \in Way[k] =>
                  \A p \in Nums(Held[c], k) : Head(chan[c]).n <= p
  <2>1. /\ \A x : x \in Nums(Held[c], k) <=>
             \/ x \in Nums(Tail(Held[c]), k)
             \/ Own(k, Head(Held[c])) /\ x = Head(Held[c]).n
        /\ Sorted(Held[c], k) =>
             \A x \in Nums(Tail(Held[c]), k) : Head(Held[c]).n < x
    BY <1>1, <1>4, HeadNums
  <2>2. c \in Way[k] => Sorted(Held[c], k)
    BY DEF PumpIInv, Ordered
  <2>3. c \in Way[k] => \A p \in Nums(Held[c], k) : p \in Nat
    BY NumWithinReach
  <2>4. Head(chan[c]).n \in Nat
    BY <1>1, <1>2 DEF ItemType
  <2> QED
    BY <1>1, <1>4, <2>1, <2>2, <2>3, <2>4
<1> QED
  BY <1>1, <1>2, <1>3, <1>4

(* Lemma: a stage whose item ends it has ended well.  A binary frame that  *)
(* gets to on_binary is before every close and error, and so it cuts the   *)
(* pump short.                                                             *)
LEMMA LastItemWell ==
    ASSUME PumpIInv, Sound, NEW s \in running, NEW c \in Ins[s],
           chan[c] # <<>>, Ends(s, Head(chan[c]))
    PROVE  EndsWell(s)
<1>1. s \in Stages /\ c \in Channels
  BY Shape DEF PumpIInv, PumpTypeOK
<1>2. PICK x \in ItemType : x = Head(chan[c])
  BY <1>1, HeadItem
<1>3. /\ x.kind \in {"error", "close", "binary"} /\ x.n \in DOMAIN frames
      /\ frames[x.n].kind = x.kind
      /\ \A k \in Flows \ {"send"} : Own(k, x)
  BY <1>1, <1>2, HeadItem DEF Ends, ItemOK, Own
<1>4. DOMAIN frames \subseteq Nat \ {0}
  <2>1. frames \in Seq(ItemType)
    BY DEF PumpIInv, PumpTypeOK
  <2> QED
    BY <2>1, LenProperties
<1>5. ASSUME NEW k \in Flows \ {"send"}, c \in Way[k],
             x.kind \in {"error", "close"}, NEW p \in Nums(Held[c], k)
      PROVE  p \notin Wanted(frames, sent, k)
  <2>1. x.n <= p /\ p \in Nat
    BY <1>1, <1>2, <1>3, <1>5, HeadItem, NumWithinReach
  <2>2. ~Early(frames, p)
    BY <1>3, <1>4, <1>5, <2>1 DEF Early
  <2> QED
    BY <2>2, LateUnwanted
<1>6. CASE s = "on_error"
  <2>1. c = "wire" /\ Ins[s] = {"wire"} /\ x.kind = "error"
    BY <1>2, <1>6 DEF Ins, Ends
  <2>2. "wire" \notin Way["send"]
    BY DEF Way
  <2> QED
    BY <1>5, <1>6, <2>1, <2>2 DEF EndsWell
<1>7. CASE s = "on_close"
  <2>1. c = "ok" /\ Ins[s] = {"ok"} /\ x.kind = "close"
    BY <1>2, <1>7 DEF Ins, Ends
  <2>2. "ok" \notin Way["send"]
    BY DEF Way
  <2>3. ASSUME NEW p \in Nums(Held["wire"], "text")
        PROVE  ~Early(frames, p)
    <3>1. /\ "text" \in Flows \ {"send"} /\ "wire" \in Way["text"]
          /\ "ok" \in Way["text"] /\ Depth["ok"] > Depth["wire"]
      BY DEF Flows, Way, Depth
    <3>2. x.n \in Nums(Held["ok"], "text")
      BY <1>1, <1>2, <1>3, <2>1, <3>1, HeadItem
    <3>3. x.n < p /\ p \in Nat
      BY <2>3, <3>1, <3>2, NumWithinReach DEF PumpIInv, Ordered
    <3> QED
      BY <1>3, <1>4, <2>1, <3>3 DEF Early
  <2> QED
    BY <1>5, <1>7, <2>1, <2>2, <2>3 DEF EndsWell
<1>8. CASE s = "on_binary"
  <2>1. c = "msg" /\ x.kind = "binary"
    BY <1>2, <1>8 DEF Ins, Ends
  <2>2. ~Early(frames, x.n)
    BY <1>3, <2>1 DEF Sound, NoBinary
  <2>3. PICK j \in 1..x.n : frames[j].kind \in {"close", "error"}
    BY <2>2 DEF Early
  <2>4. /\ "text" \in Flows \ {"send"} /\ "msg" \in Way["text"]
        /\ Depth["msg"] = 4
    BY DEF Flows, Way, Depth
  <2>5. x.n \in Nums(Held["msg"], "text")
    BY <1>1, <1>2, <1>3, <2>1, <2>4, HeadItem
  <2>6. j \in Due(frames, sent, "text")
    <3>1. j \in DOMAIN frames
      <4>1. frames \in Seq(ItemType)
        BY DEF PumpIInv, PumpTypeOK
      <4> QED
        BY <1>3, <2>3, <4>1, LenProperties
    <3> QED
      BY <2>3, <3>1 DEF Due, DueKinds, Kinds
  <2>7. Reach(frames, "text", j) \in {1, 2}
    BY <2>3 DEF Reach, KindReach
  <2>8. x.n < j
    BY <2>4, <2>5, <2>6, <2>7, Past
  <2>9. x.n \in Nat
    BY DEF ItemType
  <2> QED
    BY <2>3, <2>8, <2>9
<1> QED
  BY <1>2, <1>6, <1>7, <1>8 DEF Ends

(* Lemma: an item of the pump is due only as what it was sent as.          *)
LEMMA DueKindOf ==
    ASSUME PumpIInv, NEW c \in Places, NEW x, ItemOK(frames, sent, c, x),
           NEW k \in Flows \ {"send"}, Own(k, x),
           x.kind \in Kinds \ DueKinds[k]
    PROVE  x.n \notin Due(frames, sent, k)
BY DEF ItemOK, Due, Own, Kinds

(* Lemma: an item that a stage drops and goes on, because it filters it or *)
(* because a task that hands on finds its receiver gone.                   *)
LEMMA DropStep ==
    ASSUME PumpIInv, NEW s \in running, NEW c \in Ins[s], chan[c] # <<>>,
           NEW x, x = Head(chan[c]),
           \/ Skips(s, x)
           \/ /\ ~Ends(s, x) /\ ~Skips(s, x)
              /\ ~Live(Target(s, x)) /\ Target(s, x) \in HandedOn,
           chan' = [chan EXCEPT ![c] = Tail(@)],
           UNCHANGED running, UNCHANGED outside
    PROVE  PumpIInv'
<1>1. s \in Stages /\ running \subseteq Stages /\ c \in Channels
  BY Shape DEF PumpIInv, PumpTypeOK
<1>2. UNCHANGED <<frames, sent, sinkOk, reader, sender, inOpen, got, running>>
  BY DEF outside
<1>3. /\ chan \in [Channels -> Seq(ItemType)] /\ chan[c] \in Seq(ItemType)
      /\ Tail(chan[c]) \in Seq(ItemType)
      /\ chan'[c] = Tail(chan[c])
      /\ \A d \in Channels \ {c} : chan'[d] = chan[d]
  BY <1>1, HeadTailProperties DEF PumpIInv, PumpTypeOK
<1>4. PumpTypeOK'
  <2>1. chan' \in [Channels -> Seq(ItemType)]
    BY <1>3
  <2> QED
    BY <1>1, <1>2, <2>1 DEF PumpIInv, PumpTypeOK
<1>5. PICK g : g = Held'
  OBVIOUS
<1>6. /\ Held["got"] = got /\ \A d \in Channels : Held[d] = chan[d]
      /\ g["got"] = got' /\ \A d \in Channels : g[d] = chan'[d]
      /\ "got" \notin Channels
  <2>1. Held["got"] = got /\ \A d \in Channels : Held[d] = chan[d]
    BY HeldType DEF PumpIInv
  <2>2. g["got"] = got' /\ \A d \in Channels : g[d] = chan'[d]
    BY <1>5, Shape DEF Held, Places
  <2> QED
    BY <2>1, <2>2, Shape
<1>7. /\ g[c] = Tail(Held[c]) /\ Held[c] = chan[c]
      /\ \A d \in Places \ {c} : g[d] = Held[d]
  BY <1>1, <1>2, <1>3, <1>6 DEF Places
<1>8. Shrinks(Held, g)
  BY <1>6, <1>7, <1>1 DEF Shrinks
<1>9. \A d : Live(d)' <=> Live(d)
  BY <1>2 DEF Live
<1>10. DeadEmpty'
  <2>1. c # "socket"
    BY <1>1, Shape DEF Ins
  <2>2. Live(c)
    BY <1>1, <2>1 DEF PumpIInv, DeadEmpty
  <2> QED
    BY <1>3, <1>9, <2>2 DEF PumpIInv, DeadEmpty
<1>11. \A k \in Flows : \A d \in Way[k] :
         \A p \in Nums(Held[d], k) \ Nums(g[d], k) :
           d = c /\ Own(k, x) /\ p = x.n
  BY <1>3, <1>7, HeadNums, Shape
<1>12. EndsInOrder'
  <2>1. \A p :
          p \in Nums(g["wire"], "text") => p \in Nums(Held["wire"], "text")
    BY <1>3, <1>7, HeadNums, Shape DEF Places, Flows
  <2> QED
    BY <1>2, <1>5, <2>1 DEF PumpIInv, EndsInOrder, Sound
<1>13. /\ c \in Places /\ x \in ItemType /\ ItemOK(frames, sent, c, x)
       /\ \A k \in Flows : Own(k, x) => x.n \in Nums(Held[c], k)
  BY <1>1, HeadItem
<1>14. CASE Skips(s, x)
  <2>1. x.kind = "pong"
    BY <1>14 DEF Skips
  <2>2. \A k \in Flows : Own(k, x) => x.n \notin Due(frames, sent, k)
    BY <1>13, <2>1, DueKindOf DEF Flows, Own, Kinds, DueKinds
  <2>3. \A k \in Flows : Own(k, x) => x.n \notin Wanted(frames, sent, k)
    BY <2>2, WantedIsDue
  <2> QED
    BY <1>2, <1>4, <1>5, <1>8, <1>10, <1>11, <1>12, <2>2, <2>3, ShrinkStep
<1>15. CASE /\ ~Ends(s, x) /\ ~Skips(s, x)
            /\ ~Live(Target(s, x)) /\ Target(s, x) \in HandedOn
  <2>1. PICK e : e = Target(s, x)
    OBVIOUS
  <2>2. PICK m : m = Mapped(s, x)
    OBVIOUS
  <2>3. x.kind \in Carries[c]
    BY <1>13 DEF ItemOK
  <2>4. /\ e \in Outs[s] /\ e \in Channels /\ m.n = x.n
        /\ m.kind \in Carries[e]
        /\ m.kind = x.kind \/ (m.kind = "reply" /\ x.kind = "ping")
    BY <1>1, <1>13, <1>15, <2>1, <2>2, <2>3, Route, Shape DEF Flows
  <2>5. \A k \in Flows :
          /\ Own(k, m) <=> Own(k, x)
          /\ e \in Way[k] /\ Own(k, x) =>
               c \in Way[k] /\ Depth[e] = Depth[c] + 1
          /\ c \in Way[k] /\ Own(k, x) /\ e \notin Way[k] =>
               k # "send" /\ x.kind \in Kinds \ DueKinds[k]
    BY <1>1, <1>13, <1>15, <2>1, <2>2, <2>3, Route
  <2>6. ItemOK(frames, sent, e, m)
    BY <1>13, <2>4 DEF ItemOK
  <2>7. ASSUME NEW k \in Flows, c \in Way[k], Own(k, x),
               x.n \in Due(frames, sent, k)
        PROVE  /\ e \in Way[k] \ EndsOfWays
               /\ ~Live(e)' /\ Depth[e] >= Depth[c]
               /\ Depth[e] <= Reach(frames, k, x.n)
    <3>1. e \in Way[k]
      BY <1>13, <2>5, <2>7, DueKindOf
    <3>2. Depth[e] <= Reach(frames, k, x.n)
      BY <2>4, <2>5, <2>6, <2>7, <3>1, WithinReach DEF PumpIInv, PumpTypeOK
    <3>3. Depth[c] \in Nat /\ Depth[e] = Depth[c] + 1
      BY <1>13, <2>5, <2>7, <3>1, Shape
    <3> QED
      BY <1>6, <1>9, <1>15, <2>1, <2>4, <3>1, <3>2, <3>3
         DEF EndsOfWays, HandedOn
  <2>8. ASSUME Sound, NEW k \in Flows, c \in Way[k], Own(k, x)
        PROVE  x.n \notin Wanted(frames, sent, k)
    <3>1. EndsWell(s)
      BY <1>15, <2>1, <2>4, <2>8, FailWell
    <3> QED
      BY <1>13, <2>8, <3>1 DEF EndsWell
  <2>9. Sound' => Sound
    BY <1>2 DEF Sound
  <2>10. \A k \in Flows : \A d \in Way[k] :
           \A p \in Nums(Held[d], k) \ Nums(g[d], k) :
             p \in Due(frames, sent, k) =>
               \E a \in Way[k] \ EndsOfWays :
                 /\ ~Live(a)' /\ Depth[a] >= Depth[d]
                 /\ Depth[a] <= Reach(frames, k, p)
    BY <1>11, <2>7
  <2>11. Sound' => \A k \in Flows : \A d \in Way[k] :
           \A p \in Nums(Held[d], k) \ Nums(g[d], k) :
             p \notin Wanted(frames, sent, k)
    BY <1>11, <2>8, <2>9
  <2> QED
    BY <1>2, <1>4, <1>5, <1>8, <1>10, <1>12, <2>10, <2>11, ShrinkStep
<1> QED
  BY <1>14, <1>15

(* Lemma: the task of a stage takes an item.                               *)
LEMMA TakeStep ==
    ASSUME PumpIInv, NEW s \in Stages, NEW c \in Ins[s], Take(s, c)
    PROVE  PumpIInv'
<1>1. /\ s \in running /\ chan[c] # <<>> /\ Pass(s, c) /\ UNCHANGED outside
      /\ c \in Channels /\ running \subseteq Stages
  BY Shape DEF Take, PumpIInv, PumpTypeOK
<1>2. PICK x : x = Head(chan[c])
  OBVIOUS
<1>3. PICK e : e = Target(s, x)
  OBVIOUS
<1>4. PICK m : m = Mapped(s, x)
  OBVIOUS
<1>5. PICK rest : rest = [chan EXCEPT ![c] = Tail(@)]
  OBVIOUS
<1>6. /\ x \in ItemType /\ ItemOK(frames, sent, c, x)
      /\ c \in Places /\ Held[c] = chan[c]
  BY <1>1, <1>2, HeadItem
<1>7. CASE Ends(s, x) /\ Stops(s, rest)
  <2>1. running' = running \ {s} /\ chan' = Dropped(chan, Ins[s])
    BY <1>1, <1>5, <1>7 DEF Stops, Dropped, PumpIInv, PumpTypeOK
  <2>2. Sound => EndsWell(s)
    BY <1>1, <1>2, <1>7, LastItemWell
  <2> QED
    BY <1>1, <2>1, <2>2, StopStep
<1>8. CASE /\ ~Ends(s, x) /\ ~Skips(s, x) /\ ~Live(e)
           /\ Stops(s, rest)
  <2>1. running' = running \ {s} /\ chan' = Dropped(chan, Ins[s])
    BY <1>1, <1>5, <1>8 DEF Stops, Dropped, PumpIInv, PumpTypeOK
  <2>2. e \in Outs[s]
    BY <1>3, <1>6, <1>8, Route DEF Flows, ItemOK
  <2>3. Sound => EndsWell(s)
    BY <1>1, <1>8, <2>2, FailWell
  <2> QED
    BY <1>1, <2>1, <2>3, StopStep
<1>9. CASE /\ \/ Skips(s, x)
              \/ /\ ~Ends(s, x) /\ ~Skips(s, x)
                 /\ ~Live(e) /\ e \in HandedOn
           /\ chan' = rest /\ UNCHANGED running
  BY <1>1, <1>2, <1>3, <1>5, <1>9, DropStep
<1>10. CASE /\ ~Ends(s, x) /\ ~Skips(s, x) /\ Live(e)
            /\ chan' = [rest EXCEPT ![e] = Append(@, m)]
            /\ UNCHANGED running
  <2>1. x.kind \in Carries[c]
    BY <1>6 DEF ItemOK
  <2>2. /\ e \in Outs[s] /\ e \in Channels /\ e # c
        /\ m \in ItemType /\ m.n = x.n
        /\ m.kind \in Carries[e]
        /\ m.kind = x.kind \/ (m.kind = "reply" /\ x.kind = "ping")
    BY <1>3, <1>4, <1>6, <1>10, <2>1, Route, Shape DEF Flows
  <2>3. \A k \in Flows :
          /\ Own(k, m) <=> Own(k, x)
          /\ e \in Way[k] /\ Own(k, x) =>
               c \in Way[k] /\ Depth[e] = Depth[c] + 1
          /\ c \in Way[k] /\ Own(k, x) /\ e \notin Way[k] =>
               k # "send" /\ x.kind \in Kinds \ DueKinds[k]
    BY <1>3, <1>4, <1>6, <1>10, <2>1, Route
  <2>4. ItemOK(frames, sent, e, m)
    BY <1>6, <2>2 DEF ItemOK
  <2>5. \A k \in Flows : c \in Way[k] /\ Own(k, m) /\ e \notin Way[k] =>
          m.n \notin Due(frames, sent, k)
    BY <1>6, <2>2, <2>3, DueKindOf
  <2>6. e # "wire" /\ e \in Places
    BY <2>2, Shape DEF Outs, Places
  <2>7. UNCHANGED <<frames, sent, running, sinkOk, reader, sender, inOpen,
                    got>>
    BY <1>1, <1>10 DEF outside
  <2>8. /\ chan \in [Channels -> Seq(ItemType)] /\ chan[c] \in Seq(ItemType)
        /\ chan[e] \in Seq(ItemType) /\ got \in Seq(ItemType)
        /\ Tail(chan[c]) \in Seq(ItemType)
        /\ Append(chan[e], m) \in Seq(ItemType)
    BY <1>1, <2>2, HeadTailProperties, AppendProperties
       DEF PumpIInv, PumpTypeOK
  <2>9. chan' = [chan EXCEPT ![c] = Tail(@), ![e] = Append(@, m)]
    BY <1>1, <1>5, <1>10, <2>2
  <2>10. chan' \in [Channels -> Seq(ItemType)]
    BY <2>8, <2>9
  <2>11. PICK g : g = Held'
    OBVIOUS
  <2>12. g = [Held EXCEPT ![c] = Tail(@), ![e] = Append(@, m)]
    <3>1. "got" \notin Channels
      BY Shape
    <3>2. /\ Held \in [Places -> Seq(ItemType)]
          /\ Held["got"] = got /\ \A d \in Channels : Held[d] = chan[d]
      BY HeldType DEF PumpIInv, Holding
    <3>3. g = [d \in Places |-> IF d = "got" THEN got ELSE chan'[d]]
      BY <2>7, <2>11 DEF Held
    <3> QED
      BY <1>1, <2>2, <2>6, <2>8, <2>9, <3>1, <3>2, <3>3 DEF Places
  <2>13. MovesItem(Held, g, c, e, m)
    BY <1>1, <1>2, <1>6, <2>2, <2>3, <2>12 DEF MovesItem
  <2> QED
    BY <1>1, <1>10, <2>2, <2>4, <2>5, <2>6, <2>7, <2>8, <2>10, <2>11, <2>13,
       MoveStep
<1> QED
  BY <1>1, <1>2, <1>3, <1>4, <1>5, <1>7, <1>8, <1>9, <1>10 DEF Pass

(* Lemma: the other steps of the tasks.                                    *)
LEMMA EndStep ==
    ASSUME PumpIInv, MergeFails \/ \E s \in Stages : Finish(s)
    PROVE  PumpIInv'
<1>1. CASE MergeFails
  <2>1. /\ "merge" \in running /\ ~Live("merged") /\ "merged" \in Outs["merge"]
        /\ running' = running \ {"merge"}
        /\ chan' = Dropped(chan, Ins["merge"]) /\ UNCHANGED outside
    BY <1>1 DEF MergeFails, Stops, Outs
  <2> QED
    BY <2>1, FailWell, StopStep
<1>2. ASSUME NEW s \in Stages, Finish(s) PROVE PumpIInv'
  <2>1. /\ s \in running /\ running' = running \ {s}
        /\ chan' = Dropped(chan, Ins[s]) /\ UNCHANGED outside
    BY <1>2 DEF Finish, Stops
  <2> QED
    BY <1>2, <2>1, FinishWell, StopStep
<1> QED
  BY <1>1, <1>2

(* Lemma: the application reads a text.                                    *)
LEMMA ReadStep ==
    ASSUME PumpIInv, AppReads
    PROVE  PumpIInv'
<1>1. /\ "text" \in Channels /\ "got" \notin Channels /\ "got" \in Places
      /\ "text" \in Places
  BY Shape DEF Places
<1>2. /\ reader = "reading" /\ chan["text"] # <<>>
      /\ got' = Append(got, Head(chan["text"]))
      /\ chan' = [chan EXCEPT !["text"] = Tail(@)]
      /\ UNCHANGED <<frames, sent, running, sinkOk, reader, sender, inOpen>>
  BY DEF AppReads
<1>3. PICK m \in ItemType : m = Head(chan["text"])
  BY <1>1, <1>2, HeadItem
<1>4. Held["text"] = chan["text"] /\ ItemOK(frames, sent, "text", m)
  BY <1>1, <1>2, <1>3, HeadItem
<1>5. ItemOK(frames, sent, "got", m)
  BY <1>4 DEF ItemOK, Carries
<1>6. \A k \in Flows :
        /\ "got" \in Way[k] => "text" \in Way[k]
        /\ "text" \in Way[k] => "got" \in Way[k]
        /\ Depth["got"] = Depth["text"] + 1
  BY DEF Flows, Way, Depth
<1>7. /\ chan \in [Channels -> Seq(ItemType)] /\ chan["text"] \in Seq(ItemType)
      /\ got \in Seq(ItemType) /\ Tail(chan["text"]) \in Seq(ItemType)
      /\ Append(got, m) \in Seq(ItemType)
  BY <1>1, <1>2, HeadTailProperties, AppendProperties
     DEF PumpIInv, PumpTypeOK
<1>8. chan' \in [Channels -> Seq(ItemType)] /\ got' \in Seq(ItemType)
  BY <1>2, <1>3, <1>7
<1>9. PICK g : g = Held'
  OBVIOUS
<1>10. g = [Held EXCEPT !["text"] = Tail(@), !["got"] = Append(@, m)]
  <2>1. /\ Held \in [Places -> Seq(ItemType)]
        /\ Held["got"] = got /\ \A d \in Channels : Held[d] = chan[d]
    BY HeldType DEF PumpIInv, Holding
  <2>2. g = [d \in Places |-> IF d = "got" THEN got' ELSE chan'[d]]
    BY <1>9 DEF Held
  <2> QED
    BY <1>1, <1>2, <1>3, <1>7, <2>1, <2>2 DEF Places
<1>11. MovesItem(Held, g, "text", "got", m)
  BY <1>2, <1>3, <1>4, <1>6, <1>10 DEF MovesItem
<1> QED
  BY <1>1, <1>2, <1>5, <1>6, <1>8, <1>9, <1>11, MoveStep

(* Lemma: the application drops the stream it reads.                       *)
LEMMA LeaveStep ==
    ASSUME PumpIInv, AppLeaves
    PROVE  PumpIInv'
<1>1. /\ reader' = "gone" /\ chan' = Dropped(chan, {"text"})
      /\ UNCHANGED <<frames, sent, running, sinkOk, sender, inOpen, got>>
  BY DEF AppLeaves
<1>2. PumpTypeOK'
  <2>1. chan' \in [Channels -> Seq(ItemType)]
    BY <1>1, EmptySeq DEF PumpIInv, PumpTypeOK, Dropped
  <2> QED
    BY <1>1, <2>1 DEF PumpIInv, PumpTypeOK
<1>3. PICK g : g = Held'
  OBVIOUS
<1>4. /\ \A d \in Places : g[d] = IF d = "text" THEN <<>> ELSE Held[d]
      /\ \A c \in Channels : chan'[c] = IF c = "text" THEN <<>> ELSE chan[c]
  BY <1>1, <1>3, Shape DEF Held, Places, Dropped
<1>5. Shrinks(Held, g)
  BY <1>4 DEF Shrinks
<1>6. ~Live("text")' /\ \A c : c # "text" => (Live(c)' <=> Live(c))
  BY <1>1 DEF Live
<1>7. DeadEmpty'
  BY <1>4, <1>6 DEF PumpIInv, DeadEmpty
<1>8. ~Sound'
  BY <1>1 DEF Sound
<1>9. EndsInOrder'
  BY <1>8 DEF EndsInOrder
<1>10. \A k \in Flows : \A d \in Way[k] :
          \A p \in Nums(Held[d], k) \ Nums(g[d], k) :
            p \in Due(frames, sent, k) =>
              \E a \in Way[k] \ EndsOfWays :
                /\ ~Live(a)' /\ Depth[a] >= Depth[d]
                /\ Depth[a] <= Reach(frames, k, p)
  <2> SUFFICES ASSUME NEW k \in Flows, NEW d \in Way[k],
                      NEW p \in Nums(Held[d], k) \ Nums(g[d], k)
               PROVE  /\ d \notin EndsOfWays /\ ~Live(d)'
                      /\ Depth[d] >= Depth[d]
                      /\ Depth[d] <= Reach(frames, k, p)
    OBVIOUS
  <2>1. d = "text" /\ Depth[d] \in Nat
    BY <1>4, Shape
  <2> QED
    BY <1>6, <2>1, NumWithinReach DEF EndsOfWays
<1> QED
  BY <1>1, <1>2, <1>3, <1>5, <1>7, <1>8, <1>9, <1>10, ShrinkStep

(* Lemma: steps of the peer, the socket and the application that move no   *)
(* item.                                                                   *)
LEMMA IdleStep ==
    ASSUME PumpIInv,
           StreamEnds \/ SinkBreaks \/ AppStalls \/ AppCloses \/ UNCHANGED vars
    PROVE  PumpIInv'
<1>1. /\ UNCHANGED <<frames, sent, chan, got, running>>
      /\ sinkOk' => sinkOk
      /\ reader = "gone" <=> reader' = "gone"
      /\ sender' => sender
      /\ inOpen' \in BOOLEAN /\ sinkOk' \in BOOLEAN /\ sender' \in BOOLEAN
      /\ reader' \in {"reading", "stalled", "gone"}
  <2>1. /\ inOpen \in BOOLEAN /\ sinkOk \in BOOLEAN /\ sender \in BOOLEAN
        /\ reader \in {"reading", "stalled", "gone"}
    BY DEF PumpIInv, PumpTypeOK
  <2>2. CASE StreamEnds
    BY <2>1, <2>2 DEF StreamEnds
  <2>3. CASE SinkBreaks
    BY <2>1, <2>3 DEF SinkBreaks
  <2>4. CASE AppStalls
    BY <2>1, <2>4 DEF AppStalls
  <2>5. CASE AppCloses
    BY <2>1, <2>5 DEF AppCloses
  <2>6. CASE UNCHANGED vars
    BY <2>1, <2>6 DEF vars
  <2> QED
    BY <2>2, <2>3, <2>4, <2>5, <2>6
<1>2. PumpTypeOK'
  BY <1>1 DEF PumpIInv, PumpTypeOK
<1>3. PICK g : g = Held'
  OBVIOUS
<1>4. g = Held
  BY <1>1, <1>3 DEF Held
<1>5. Shrinks(Held, g)
  BY <1>4 DEF Shrinks
<1>6. DeadEmpty'
  BY <1>1 DEF PumpIInv, DeadEmpty, Live
<1>7. EndsInOrder'
  BY <1>1, <1>3, <1>4 DEF PumpIInv, EndsInOrder, Sound
<1> QED
  BY <1>1, <1>2, <1>3, <1>4, <1>5, <1>6, <1>7, ShrinkStep

(* Lemma: the application sends a text: it has the highest number, and is  *)
(* the last of its way or lost in front of it.                             *)
LEMMA SendStep ==
    ASSUME PumpIInv, AppSends
    PROVE  PumpIInv'
<1>1. /\ sender /\ sent' = sent + 1 /\ sent \in Nat
      /\ UNCHANGED <<frames, running, sinkOk, reader, sender, inOpen, got>>
      /\ "out" \in Channels /\ "out" \in Places /\ "got" \notin Channels
  BY Shape DEF AppSends, PumpIInv, PumpTypeOK, Places
<1>2. PICK m : m = Item("send", sent + 1)
  OBVIOUS
<1>3. m \in ItemType /\ m.n = sent + 1 /\ m.kind = "send"
  BY <1>1, <1>2 DEF Item, ItemType
<1>4. /\ Held \in Holding /\ Held["got"] = got
      /\ \A d \in Channels : Held[d] = chan[d]
  BY HeldType DEF PumpIInv
<1>5. PICK q \in Seq(ItemType) :
        q = IF Live("out") THEN Append(chan["out"], m) ELSE chan["out"]
  BY <1>1, <1>3, AppendProperties DEF PumpIInv, PumpTypeOK
<1>6. chan' = [chan EXCEPT !["out"] = q]
  BY <1>1, <1>2, <1>5 DEF AppSends, PumpIInv, PumpTypeOK
<1>7. PumpTypeOK'
  <2>1. chan' \in [Channels -> Seq(ItemType)]
    BY <1>6 DEF PumpIInv, PumpTypeOK
  <2> QED
    BY <1>1, <2>1 DEF PumpIInv, PumpTypeOK
<1>8. PICK g : g = Held'
  OBVIOUS
<1>9. /\ g \in Holding /\ g["out"] = q
      /\ \A d \in Places \ {"out"} : g[d] = Held[d]
  <2>1. g = [d \in Places |-> IF d = "got" THEN got ELSE chan'[d]]
    BY <1>1, <1>8 DEF Held
  <2>2. \A d \in Channels \ {"out"} : chan'[d] = chan[d]
    BY <1>6 DEF PumpIInv, PumpTypeOK
  <2>3. chan'["out"] = q
    BY <1>1, <1>6 DEF PumpIInv, PumpTypeOK
  <2>4. \A d \in Places : g[d] \in Seq(ItemType)
    BY <1>7, <2>1 DEF PumpTypeOK, Places, PumpIInv
  <2> QED
    BY <1>1, <1>4, <2>1, <2>2, <2>3, <2>4 DEF Places, Holding
<1>10. \A d : Live(d)' <=> Live(d)
  BY <1>1 DEF Live
<1>11. \A k \in Flows : "out" \in Way[k] => k = "send"
  BY DEF Flows, Way
<1>12. \A d \in Way["send"] : \A x \in Nums(Held[d], "send") :
         x < sent + 1
  <2> SUFFICES ASSUME NEW d \in Way["send"], NEW i \in DOMAIN Held[d],
                      Own("send", Held[d][i])
               PROVE  Held[d][i].n < sent + 1
    BY DEF Nums
  <2>1. d \in Places
    BY Shape DEF Flows
  <2>2. ItemOK(frames, sent, d, Held[d][i])
    BY <2>1 DEF PumpIInv, Contents
  <2>3. Held[d][i].n \in 1..sent
    BY <2>2 DEF ItemOK, Own
  <2> QED
    BY <1>1, <2>3
<1>13. /\ \A x : x \in Nums(q, "send") <=>
            x \in Nums(Held["out"], "send") \/ (Live("out") /\ x = sent + 1)
       /\ Sorted(Held["out"], "send") => Sorted(q, "send")
  <2>1. chan["out"] \in Seq(ItemType) /\ Held["out"] = chan["out"]
    BY <1>1, <1>4 DEF PumpIInv, PumpTypeOK
  <2>2. "send" \in Flows /\ Own("send", m) /\ "out" \in Way["send"]
    BY <1>3 DEF Flows, Own, Way
  <2>3. \A x \in Nums(Held["out"], "send") : x < m.n
    BY <1>1, <1>3, <1>12, <2>2
  <2>4. CASE Live("out")
    BY <1>3, <1>5, <2>1, <2>2, <2>3, <2>4, AppendNums
  <2>5. CASE ~Live("out")
    BY <1>5, <2>1, <2>5
  <2> QED
    BY <2>4, <2>5
<1>14. \A k \in Flows : \A d \in Way[k] : \A x :
         x \in Nums(g[d], k) <=>
           \/ x \in Nums(Held[d], k)
           \/ d = "out" /\ Live("out") /\ x = sent + 1
  BY <1>9, <1>11, <1>13, Shape
<1>15. Ordered(g)
  <2>1. \A k \in Flows : \A d \in Way[k] : Sorted(g[d], k)
    BY <1>9, <1>11, <1>13, Shape DEF PumpIInv, Ordered
  <2>2. ASSUME NEW k \in Flows, NEW d \in Way[k], NEW e \in Way[k],
               Depth[d] > Depth[e], NEW x \in Nums(g[d], k),
               NEW y \in Nums(g[e], k)
        PROVE  x < y
    <3>1. d # "out"
      BY <1>11, <2>2 DEF Way, Depth
    <3>2. x \in Nums(Held[d], k)
      BY <1>14, <3>1
    <3>3. CASE y \in Nums(Held[e], k)
      BY <2>2, <3>2, <3>3 DEF PumpIInv, Ordered
    <3>4. CASE e = "out" /\ y = sent + 1
      <4>1. k = "send"
        BY <1>11, <3>4
      <4> QED
        BY <1>12, <3>2, <3>4, <4>1
    <3> QED
      BY <1>14, <3>3, <3>4
  <2> QED
    BY <2>1, <2>2 DEF Ordered
<1>16. Contents(g, frames, sent + 1)
  <2> SUFFICES ASSUME NEW d \in Places, NEW i \in DOMAIN g[d]
               PROVE  ItemOK(frames, sent + 1, d, g[d][i])
    BY DEF Contents
  <2>1. \A c, x : ItemOK(frames, sent, c, x) => ItemOK(frames, sent + 1, c, x)
    BY <1>1 DEF ItemOK
  <2>2. \/ i \in DOMAIN Held[d] /\ g[d][i] = Held[d][i]
        \/ d = "out" /\ g[d][i] = m
    <3>1. chan["out"] \in Seq(ItemType)
      BY <1>1 DEF PumpIInv, PumpTypeOK
    <3>2. CASE d = "out" /\ Live("out")
      BY <1>1, <1>4, <1>5, <1>9, <3>1, <3>2, AppendItems
    <3>3. CASE ~(d = "out" /\ Live("out"))
      BY <1>1, <1>4, <1>5, <1>9, <3>3
    <3> QED
      BY <3>2, <3>3
  <2>3. ItemOK(frames, sent + 1, "out", m)
    BY <1>1, <1>3 DEF ItemOK, Carries
  <2> QED
    BY <2>1, <2>2, <2>3 DEF PumpIInv, Contents
<1>17. DeadEmpty'
  BY <1>1, <1>5, <1>6, <1>10 DEF PumpIInv, PumpTypeOK, DeadEmpty
<1>18. \A k \in Flows : \A p : OnTheWay(Held, k, p) => OnTheWay(g, k, p)
  BY <1>14 DEF OnTheWay
<1>19. \A k \in Flows :
         Due(frames, sent + 1, k) \subseteq
           Due(frames, sent, k) \cup IF k = "send" THEN {sent + 1} ELSE {}
  BY <1>1 DEF Due
<1>20. Live("out") => OnTheWay(g, "send", sent + 1)
  BY <1>14 DEF OnTheWay, Flows, Way
<1>21. ASSUME NEW k \in Flows, NEW p \in Due(frames, sent + 1, k)
       PROVE  \/ OnTheWay(g, k, p)
              \/ \E c \in Way[k] \ EndsOfWays :
                   ~Live(c) /\ LostAt(g, frames, k, p, c)
  <2>1. CASE p \in Due(frames, sent, k)
    <3>1. CASE OnTheWay(Held, k, p)
      BY <1>18, <3>1
    <3>2. CASE ~OnTheWay(Held, k, p)
      <4>1. PICK c \in Way[k] \ EndsOfWays :
              ~Live(c) /\ LostAt(Held, frames, k, p, c)
        BY <2>1, <3>2 DEF PumpIInv, Accounted
      <4>2. ASSUME NEW d \in Way[k], Depth[d] > Depth[c],
                   NEW x \in Nums(g[d], k)
            PROVE  x < p
        <5>1. d # "out"
          BY <1>11, <4>2 DEF Way, Depth
        <5> QED
          BY <1>14, <4>1, <4>2, <5>1 DEF LostAt
      <4> QED
        BY <4>1, <4>2 DEF LostAt
    <3> QED
      BY <3>1, <3>2
  <2>2. CASE k = "send" /\ p = sent + 1
    <3>1. CASE Live("out")
      BY <1>20, <2>2, <3>1
    <3>2. CASE ~Live("out")
      <4>1. "out" \in Way["send"] \ EndsOfWays /\ Depth["out"] = 5
        BY DEF Way, Depth, EndsOfWays
      <4>2. \A d \in Way["send"] : \A x \in Nums(g[d], "send") : x < p
        <5>1. \A d \in Way["send"] : \A x \in Nums(g[d], "send") :
                x \in Nums(Held[d], "send")
          BY <1>14, <3>2 DEF Flows
        <5> QED
          BY <1>12, <2>2, <5>1
      <4>3. LostAt(g, frames, "send", p, "out")
        BY <4>1, <4>2 DEF LostAt, Reach
      <4> QED
        BY <2>2, <3>2, <4>1, <4>3
    <3> QED
      BY <3>1, <3>2
  <2> QED
    BY <1>19, <2>1, <2>2
<1>22. Accounted'
  BY <1>1, <1>8, <1>10, <1>21 DEF Accounted
<1>23. EndsInOrder'
  <2>1. g["wire"] = Held["wire"]
    BY <1>9, Shape DEF Places
  <2> QED
    BY <1>1, <1>8, <2>1 DEF PumpIInv, EndsInOrder, Sound
<1>24. ASSUME Sound, NEW k \in Flows, NEW p \in Wanted(frames, sent + 1, k)
       PROVE  OnTheWay(g, k, p)
  <2>1. CASE p \in Wanted(frames, sent, k)
    BY <1>18, <1>24, <2>1 DEF PumpIInv, NothingLost
  <2>2. CASE k = "send" /\ p = sent + 1
    <3>1. Live("out")
      BY <1>1, <1>24, EndsOfChannels
         DEF PumpIInv, PumpTypeOK, EndsInOrder
    <3> QED
      BY <1>20, <2>2, <3>1
  <2> QED
    BY <1>1, <1>24, <2>1, <2>2 DEF Wanted, Flows
<1>25. NothingLost'
  BY <1>1, <1>8, <1>24 DEF NothingLost, Sound
<1>26. Ordered(Held)' /\ Contents(Held, frames, sent)'
  BY <1>1, <1>8, <1>15, <1>16
<1> QED
  BY <1>7, <1>17, <1>22, <1>23, <1>25, <1>26 DEF PumpIInv

(* Lemma: at first every frame is on the wire.                             *)
LEMMA PumpInit == Init => PumpIInv
<1> SUFFICES ASSUME Init PROVE PumpIInv
  OBVIOUS
<1>1. PICK script \in Scripts :
        frames = [i \in DOMAIN script |-> Item(script[i], i)]
  BY DEF Init
<1>2. script \in Seq(Kinds)
  BY PumpAssumption
<1>3. /\ Len(script) \in Nat /\ DOMAIN frames = 1..Len(script)
      /\ \A i \in 1..Len(script) :
           frames[i] = Item(script[i], i) /\ script[i] \in Kinds
  BY <1>1, <1>2, LenProperties
<1>4. /\ \A i \in DOMAIN frames : frames[i].n = i /\ frames[i].kind \in Kinds
      /\ \A i \in DOMAIN frames : frames[i] \in ItemType
  BY <1>3 DEF Item, ItemType
<1>5. frames \in Seq(ItemType)
  <2>1. frames \in [1..Len(script) -> ItemType]
    BY <1>1, <1>3, <1>4
  <2> QED
    BY <1>3, <2>1, IsASeq
<1>6. /\ chan = [c \in Channels |-> IF c = "wire" THEN frames ELSE <<>>]
      /\ running = Stages /\ inOpen = TRUE /\ sinkOk = TRUE
      /\ reader = "reading" /\ sender = TRUE /\ sent = 0 /\ got = <<>>
  BY DEF Init
<1>7. PumpTypeOK
  BY <1>4, <1>5, <1>6, EmptySeq DEF PumpTypeOK
<1>8. /\ Held["wire"] = frames
      /\ \A d \in Places \ {"wire"} : Held[d] = <<>>
      /\ "wire" \in Places /\ "got" \notin Channels
  BY <1>6, Shape DEF Held, Places
<1>9. \A i \in DOMAIN frames : frames[i].kind # "send"
  BY <1>4 DEF Kinds
<1>10. Contents(Held, frames, sent)
  <2> SUFFICES ASSUME NEW d \in Places, NEW i \in DOMAIN Held[d]
               PROVE  ItemOK(frames, sent, d, Held[d][i])
    BY DEF Contents
  <2>1. d = "wire" /\ i \in DOMAIN frames /\ Held[d][i] = frames[i]
    BY <1>8
  <2> QED
    BY <1>4, <1>9, <2>1 DEF ItemOK, Carries
<1>11. DeadEmpty
  <2>1. Live("wire")
    BY <1>6, EndsOfChannels, Shape
  <2> QED
    BY <1>6, <2>1 DEF DeadEmpty
<1>12. \A k \in Flows, d \in Places \ {"wire"} : Nums(Held[d], k) = {}
  BY <1>8, NoNums
<1>13. \A k \in Flows : Sorted(frames, k)
  BY <1>3, <1>4 DEF Sorted
<1>14. Ordered(Held)
  <2>1. \A k \in Flows : \A d \in Way[k] : Sorted(Held[d], k)
    BY <1>8, <1>13, NoNums, Shape
  <2>2. ASSUME NEW k \in Flows, NEW d \in Way[k], NEW e \in Way[k],
               Depth[d] > Depth[e], NEW x \in Nums(Held[d], k)
        PROVE  FALSE
    <3>1. d = "wire"
      BY <1>12, Shape
    <3>2. Depth[e] \in 1..7
      BY Shape
    <3> QED
      BY <2>2, <3>1, <3>2 DEF Depth
  <2> QED
    BY <2>1, <2>2 DEF Ordered
<1>15. ASSUME NEW k \in Flows, NEW p \in Due(frames, sent, k)
       PROVE  OnTheWay(Held, k, p)
  <2>1. k # "send" /\ p \in DOMAIN frames
    BY <1>6 DEF Due
  <2>2. "wire" \in Way[k]
    BY <2>1 DEF Way, Flows
  <2>3. Own(k, frames[p]) /\ frames[p].n = p
    BY <1>4, <1>9, <2>1 DEF Own
  <2> QED
    BY <1>8, <2>1, <2>2, <2>3 DEF OnTheWay, Nums
<1>16. Accounted
  BY <1>15 DEF Accounted
<1>17. EndsInOrder
  BY <1>6, Shape DEF EndsInOrder
<1>18. NothingLost
  BY <1>15, WantedIsDue DEF NothingLost
<1> QED
  BY <1>7, <1>10, <1>11, <1>14, <1>16, <1>17, <1>18 DEF PumpIInv

(* Lemma: the invariant is inductive.                                      *)
LEMMA PumpStep == PumpIInv /\ [Next]_vars => PumpIInv'
<1> SUFFICES ASSUME PumpIInv, [Next]_vars PROVE PumpIInv'
  OBVIOUS
<1>1. ASSUME NEW s \in Stages, NEW c \in Ins[s], Take(s, c) PROVE PumpIInv'
  BY <1>1, TakeStep
<1>2. CASE MergeFails \/ \E s \in Stages : Finish(s)
  BY <1>2, EndStep
<1>3. CASE StreamEnds \/ SinkBreaks \/ AppStalls \/ AppCloses
             \/ UNCHANGED vars
  BY <1>3, IdleStep
<1>4. CASE AppReads
  BY <1>4, ReadStep
<1>5. CASE AppLeaves
  BY <1>5, LeaveStep
<1>6. CASE AppSends
  BY <1>6, SendStep
<1> QED
  BY <1>1, <1>2, <1>3, <1>4, <1>5, <1>6 DEF Next, StageStep

----------------------------------------------------------------------------
(* What the invariant means for the ends of the pump.                      *)

(* Lemma: the items of one kind where a place carries one of a flow.       *)
LEMMA NumbersAreNums ==
    ASSUME PumpIInv, NEW k \in Flows, NEW d \in Places, NEW kind,
           \A i \in DOMAIN Held[d] :
             Held[d][i].kind = kind <=> Own(k, Held[d][i])
    PROVE  /\ Numbers(Held[d], kind) = Nums(Held[d], k)
           /\ Sorted(Held[d], k) => Ascending(Held[d], kind)
<1>1. Numbers(Held[d], kind) = Nums(Held[d], k)
  BY DEF Numbers, Nums
<1>2. ASSUME Sorted(Held[d], k) PROVE Ascending(Held[d], kind)
  BY <1>2 DEF Sorted, Ascending
<1> QED
  BY <1>1, <1>2

(* Lemma: what is at the end of a way are the first items that are due.    *)
LEMMA EndOfWay ==
    ASSUME PumpIInv, NEW k \in Flows, NEW d \in Way[k],
           d \in EndsOfWays, \A e \in Way[k] \ {d} : Depth[d] > Depth[e],
           NEW n \in Nums(Held[d], k), NEW m \in Due(frames, sent, k), m < n
    PROVE  m \in Nums(Held[d], k)
<1>1. m \in Nat /\ n \in Nat
  <2>1. n \in Nat
    BY NumWithinReach
  <2>2. DOMAIN frames \subseteq Nat
    <3>1. frames \in Seq(ItemType)
      BY DEF PumpIInv, PumpTypeOK
    <3> QED
      BY <3>1, LenProperties
  <2>3. sent \in Nat
    BY DEF PumpIInv, PumpTypeOK
  <2> QED
    BY <2>1, <2>2, <2>3 DEF Due
<1>2. CASE OnTheWay(Held, k, m)
  <2>1. PICK e \in Way[k] : m \in Nums(Held[e], k)
    BY <1>2 DEF OnTheWay
  <2>2. CASE e # d
    <3>1. n < m
      BY <2>1, <2>2 DEF PumpIInv, Ordered
    <3> QED
      BY <1>1, <3>1
  <2> QED
    BY <2>1, <2>2
<1>3. CASE ~OnTheWay(Held, k, m)
  <2>1. PICK c \in Way[k] \ EndsOfWays :
          ~Live(c) /\ LostAt(Held, frames, k, m, c)
    BY <1>3 DEF PumpIInv, Accounted
  <2>2. n < m
    BY <2>1 DEF LostAt
  <2> QED
    BY <1>1, <2>2
<1> QED
  BY <1>2, <1>3

(* Lemma: what gets past the three stages that end at an item is wanted.   *)
LEMMA PastIsWanted ==
    ASSUME PumpIInv
    PROVE  /\ \A d \in {"text", "got"} :
                Nums(Held[d], "text") \subseteq Wanted(frames, sent, "text")
           /\ Nums(Held["socket"], "ping")
                  \subseteq Wanted(frames, sent, "ping")
           /\ Nums(Held["socket"], "send")
                  \subseteq Wanted(frames, sent, "send")
<1>1. ASSUME NEW k \in Flows, NEW d \in Way[k], NEW n \in Nums(Held[d], k)
      PROVE  \E x : /\ x.n = n /\ Own(k, x) /\ d \in Places
                    /\ ItemOK(frames, sent, d, x)
  <2>1. d \in Places
    BY Shape
  <2> QED
    BY <1>1, <2>1 DEF Nums, PumpIInv, Contents
<1>2. /\ frames \in Seq(ItemType) /\ DOMAIN frames = 1..Len(frames)
      /\ Len(frames) \in Nat
      /\ \A i \in DOMAIN frames : frames[i].kind \in Kinds
  BY LenProperties DEF PumpIInv, PumpTypeOK
<1>3. ASSUME NEW d \in {"text", "got"}, NEW n \in Nums(Held[d], "text")
      PROVE  n \in Wanted(frames, sent, "text")
  <2>1. "text" \in Flows /\ d \in Way["text"] /\ Depth[d] > 4
    BY DEF Flows, Way, Depth
  <2>2. PICK x : x.n = n /\ Own("text", x) /\ ItemOK(frames, sent, d, x)
    BY <1>1, <1>3, <2>1
  <2>3. n \in DOMAIN frames /\ frames[n].kind = "text"
    BY <2>2 DEF Own, ItemOK, Carries
  <2>4. ASSUME NEW j \in 1..n, frames[j].kind \in {"close", "error", "binary"}
        PROVE  FALSE
    <3>1. j \in Due(frames, sent, "text")
      BY <1>2, <2>3, <2>4 DEF Due, DueKinds, Kinds
    <3>2. Reach(frames, "text", j) \in {1, 2, 4}
      BY <2>4 DEF Reach, KindReach
    <3>3. Depth[d] \in 5..6
      BY DEF Depth
    <3>4. n < j
      BY <1>3, <2>1, <3>1, <3>2, <3>3, Past
    <3> QED
      BY <1>2, <2>3, <3>4
  <2> QED
    BY <2>3, <2>4 DEF Wanted
<1>4. ASSUME NEW n \in Nums(Held["socket"], "ping")
      PROVE  n \in Wanted(frames, sent, "ping")
  <2>1. "ping" \in Flows /\ "socket" \in Way["ping"] /\ Depth["socket"] = 7
    BY DEF Flows, Way, Depth
  <2>2. PICK x : x.n = n /\ Own("ping", x) /\ ItemOK(frames, sent, "socket", x)
    BY <1>1, <1>4, <2>1
  <2>3. n \in DOMAIN frames /\ frames[n].kind = "ping"
    BY <1>2, <2>2 DEF Own, ItemOK, Carries, Kinds
  <2>4. ASSUME NEW j \in 1..n, frames[j].kind \in {"close", "error"}
        PROVE  FALSE
    <3>1. j \in Due(frames, sent, "ping")
      BY <1>2, <2>3, <2>4 DEF Due, DueKinds, Kinds
    <3>2. Reach(frames, "ping", j) \in {1, 2}
      BY <2>4 DEF Reach, KindReach
    <3>3. n < j
      BY <1>4, <2>1, <3>1, <3>2, Past
    <3> QED
      BY <1>2, <2>3, <3>3
  <2> QED
    BY <2>3, <2>4 DEF Wanted, Early
<1>5. ASSUME NEW n \in Nums(Held["socket"], "send")
      PROVE  n \in Wanted(frames, sent, "send")
  <2>1. "send" \in Flows /\ "socket" \in Way["send"]
    BY DEF Flows, Way
  <2>2. PICK x : x.n = n /\ Own("send", x) /\ ItemOK(frames, sent, "socket", x)
    BY <1>1, <1>5, <2>1
  <2> QED
    BY <2>2 DEF Own, ItemOK, Wanted
<1> QED
  BY <1>3, <1>4, <1>5

(* Lemma: the properties name what the invariant calls wanted.             *)
LEMMA AllIsWanted ==
    /\ AllTexts = Wanted(frames, sent, "text")
    /\ AllPings = Wanted(frames, sent, "ping")
    /\ 1..sent = Wanted(frames, sent, "send")
BY DEF AllTexts, AllPings, Before, Wanted, Early

(* Lemma: the end of a way has the first of the wanted items.              *)
LEMMA EndIsFirst ==
    ASSUME PumpIInv, NEW k \in Flows, NEW d \in Way[k], d \in EndsOfWays,
           \A e \in Way[k] \ {d} : Depth[d] > Depth[e],
           NEW kind,
           \A i \in DOMAIN Held[d] :
             Held[d][i].kind = kind <=> Own(k, Held[d][i]),
           Nums(Held[d], k) \subseteq Wanted(frames, sent, k)
    PROVE  FirstOf(Held[d], kind, Wanted(frames, sent, k))
<1>1. d \in Places /\ Sorted(Held[d], k)
  BY Shape DEF PumpIInv, Ordered
<1>2. Numbers(Held[d], kind) = Nums(Held[d], k) /\ Ascending(Held[d], kind)
  BY <1>1, NumbersAreNums
<1>3. \A m \in Wanted(frames, sent, k), n \in Nums(Held[d], k) :
        m < n => m \in Nums(Held[d], k)
  BY EndOfWay, WantedIsDue
<1> QED
  BY <1>2, <1>3 DEF FirstOf

(* Lemma: the invariant is what the pump promises.                         *)
LEMMA PumpIInvImplies == PumpIInv => RelaysInOrder
<1> SUFFICES ASSUME PumpIInv PROVE RelaysInOrder
  OBVIOUS
<1>1. /\ Held["got"] = got /\ Held["socket"] = chan["socket"]
      /\ Held["text"] = chan["text"]
      /\ {"got", "socket", "text"} \subseteq Places
  BY HeldType, Shape DEF PumpIInv, Places
<1>2. \A d \in {"got", "socket", "text"} : \A i \in DOMAIN Held[d] :
        Held[d][i].kind \in Carries[d]
  BY <1>1 DEF PumpIInv, Contents, ItemOK
<1>3. /\ \A i \in DOMAIN got : got[i].kind = "text"
      /\ \A i \in DOMAIN chan["text"] : chan["text"][i].kind = "text"
      /\ \A i \in DOMAIN chan["socket"] :
           chan["socket"][i].kind \in {"reply", "send"}
  BY <1>1, <1>2 DEF Carries
<1>4. FirstOf(got, "text", AllTexts)
  <2>1. /\ "text" \in Flows /\ "got" \in Way["text"] /\ "got" \in EndsOfWays
        /\ \A e \in Way["text"] \ {"got"} : Depth["got"] > Depth[e]
    BY DEF Flows, Way, EndsOfWays, Depth
  <2>2. \A i \in DOMAIN Held["got"] :
          Held["got"][i].kind = "text" <=> Own("text", Held["got"][i])
    BY <1>1, <1>3 DEF Own
  <2> QED
    BY <1>1, <2>1, <2>2, PastIsWanted, AllIsWanted, EndIsFirst
<1>5. FirstOf(chan["socket"], "reply", AllPings)
  <2>1. /\ "ping" \in Flows /\ "socket" \in Way["ping"]
        /\ "socket" \in EndsOfWays
        /\ \A e \in Way["ping"] \ {"socket"} : Depth["socket"] > Depth[e]
    BY DEF Flows, Way, EndsOfWays, Depth
  <2>2. \A i \in DOMAIN Held["socket"] :
          Held["socket"][i].kind = "reply" <=> Own("ping", Held["socket"][i])
    BY <1>1, <1>3 DEF Own
  <2> QED
    BY <1>1, <2>1, <2>2, PastIsWanted, AllIsWanted, EndIsFirst
<1>6. FirstOf(chan["socket"], "send", 1..sent)
  <2>1. /\ "send" \in Flows /\ "socket" \in Way["send"]
        /\ "socket" \in EndsOfWays
        /\ \A e \in Way["send"] \ {"socket"} : Depth["socket"] > Depth[e]
    BY DEF Flows, Way, EndsOfWays, Depth
  <2>2. \A i \in DOMAIN Held["socket"] :
          Held["socket"][i].kind = "send" <=> Own("send", Held["socket"][i])
    BY DEF Own
  <2> QED
    BY <1>1, <2>1, <2>2, PastIsWanted, AllIsWanted, EndIsFirst
<1>7. /\ Numbers(got, "text") = Nums(Held["got"], "text")
      /\ Numbers(chan["text"], "text") = Nums(Held["text"], "text")
      /\ Numbers(chan["socket"], "reply") = Nums(Held["socket"], "ping")
      /\ Numbers(chan["socket"], "send") = Nums(Held["socket"], "send")
  BY <1>1, <1>3 DEF Numbers, Nums, Own
<1>8. ASSUME CleanEnd
      PROVE  /\ Numbers(got, "text") \cup Numbers(chan["text"], "text")
                  = AllTexts
             /\ Numbers(chan["socket"], "reply") = AllPings
             /\ Numbers(chan["socket"], "send") = 1..sent
  <2>1. Sound
    BY <1>8 DEF CleanEnd, Sound, NoBinary, Before, Early
  <2>2. \A c \in Channels \ {"text", "socket"} : Held[c] = <<>>
    <3>1. \A c \in Channels \ {"text", "socket"} : ~Live(c)
      BY <1>8 DEF CleanEnd, Live
    <3> QED
      BY <3>1, HeldType DEF PumpIInv, DeadEmpty
  <2>3. ASSUME NEW k \in Flows, NEW p \in Wanted(frames, sent, k)
        PROVE  \E d \in Way[k] \cap {"text", "got", "socket"} :
                 p \in Nums(Held[d], k)
    <3>1. PICK d \in Way[k] : p \in Nums(Held[d], k)
      BY <2>1, <2>3 DEF PumpIInv, NothingLost, OnTheWay
    <3>2. d \in Places
      BY Shape
    <3> QED
      BY <2>2, <3>1, <3>2, NoNums DEF Places
  <2>4. AllTexts \subseteq Nums(Held["got"], "text")
                             \cup Nums(Held["text"], "text")
    BY <2>3, AllIsWanted DEF Flows, Way
  <2>5. AllPings \subseteq Nums(Held["socket"], "ping")
    BY <2>3, AllIsWanted DEF Flows, Way
  <2>6. 1..sent \subseteq Nums(Held["socket"], "send")
    BY <2>3, AllIsWanted DEF Flows, Way
  <2> QED
    BY <1>7, <2>4, <2>5, <2>6, PastIsWanted, AllIsWanted
<1> QED
  BY <1>3, <1>4, <1>5, <1>6, <1>8 DEF RelaysInOrder

(* Theorem: whatever order the tasks of the pump find out in that a        *)
(* receiver or a sender is gone, the application reads the texts and the   *)
(* socket gets the answers and the texts in order, each the first of those *)
(* due, and all of them when nothing cut the pump short.                   *)
THEOREM PumpRelaysInOrder == Spec => []RelaysInOrder
BY PumpInit, PumpStep, PumpIInvImplies, PTL DEF Spec
=============================================================================
