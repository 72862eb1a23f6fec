------------------------------- MODULE TcpProofs -------------------------------
(***************************************************************************)
(* Theorems about TCP, for every width of a sequence number, every segment *)
(* size, window and bound:                                                 *)
(*   - the arithmetic of sequence numbers and windows;                     *)
(*   - TypeOK, TimerRuns and NothingDropped of the whole connection.       *)
(*                                                                         *)
(* The inductive invariant for the last is Hosts: beside the types, HostOK *)
(* of each host by itself, whatever the network brings it.  A call of the  *)
(* stack is a chain of operators on a context; each operator has a lemma   *)
(* that says what it leaves alone:                                         *)
(*   Sends    sends, and moves segments between the queues;                *)
(*   Along    may drop what is queued or refused, too;                     *)
(*   Goes     may also give the application text that was refused, or free *)
(*            the pcb;                                                     *)
(*   Arrives  tcp_process: text is taken that the application has not seen;*)
(*   Handles  tcp_input: and now it has, or its host keeps it;             *)
(*   Leads    whatever a host does in an action.                           *)
(***************************************************************************)
EXTENDS Tcp, SequenceTheorems, WellFoundedInduction, TLAPS

Half == SeqSpace \div 2

LEMMA Sizes ==
    /\ SeqSpace \in Nat \ {0} /\ Half \in Nat /\ TcpWnd + 2 <= Half /\ 2 * Half <= SeqSpace
    /\ TcpWnd \in Nat /\ Mss \in Nat \ {0} /\ Mss <= TcpWnd
  BY TcpAssumption DEF Half

\* What the operator % does to a number that is off by at most one turn.
LEMMA Turn ==
    ASSUME NEW x \in (- SeqSpace) .. 2 * SeqSpace - 1
    PROVE  x % SeqSpace = IF x < 0 THEN x + SeqSpace
                          ELSE IF x < SeqSpace THEN x ELSE x - SeqSpace
  BY Sizes

LEMMA AddTurn ==
    ASSUME NEW a \in Seqs, NEW n \in 0 .. SeqSpace - 1
    PROVE  /\ Add(a, n) = IF a + n < SeqSpace THEN a + n ELSE a + n - SeqSpace
           /\ Add(a, n) \in Seqs
  <1>1. a + n \in (- SeqSpace) .. 2 * SeqSpace - 1
    BY Sizes DEF Seqs
  <1> DEFINE x == a + n
  <1>2. x \in (- SeqSpace) .. 2 * SeqSpace - 1 /\ Add(a, n) = x % SeqSpace /\ x >= 0
    BY <1>1 DEF Add, Seqs
  <1> HIDE DEF x
  <1>3. x % SeqSpace = IF x < SeqSpace THEN x ELSE x - SeqSpace
    BY <1>2, Turn
  <1> QED BY <1>2, <1>3, Sizes DEF x, Seqs

LEMMA DistanceTurn ==
    ASSUME NEW a \in Seqs, NEW b \in Seqs
    PROVE  /\ Distance(a, b) = IF a <= b THEN b - a ELSE b - a + SeqSpace
           /\ Distance(a, b) \in Seqs
  <1>1. b - a \in (- SeqSpace) .. 2 * SeqSpace - 1
    BY Sizes DEF Seqs
  <1> DEFINE x == b - a
  <1>2. x \in (- SeqSpace) .. 2 * SeqSpace - 1 /\ Distance(a, b) = x % SeqSpace
    BY <1>1 DEF Distance
  <1> HIDE DEF x
  <1>3. x % SeqSpace = IF x < 0 THEN x + SeqSpace
                       ELSE IF x < SeqSpace THEN x ELSE x - SeqSpace
    BY <1>2, Turn
  <1> QED BY <1>2, <1>3, Sizes DEF x, Seqs

LEMMA AddDistance ==
    ASSUME NEW a \in Seqs, NEW b \in Seqs
    PROVE  Add(a, Distance(a, b)) = b
  <1>1. Distance(a, b) \in 0 .. SeqSpace - 1
    BY DistanceTurn DEF Seqs
  <1>2. Distance(a, b) = IF a <= b THEN b - a ELSE b - a + SeqSpace
    BY DistanceTurn
  <1> DEFINE n == Distance(a, b)
  <1>3. Add(a, n) = IF a + n < SeqSpace THEN a + n ELSE a + n - SeqSpace
    BY <1>1, AddTurn
  <1> QED BY <1>1, <1>2, <1>3, Sizes DEF Seqs

\* TCP_SEQ_LT and TCP_SEQ_LEQ order two sequence numbers as the places in the
\* stream they stand for, across the wrap too, as long as the places are less
\* than half the space of sequence numbers apart.
THEOREM OrderAcrossTheWrap ==
    \A a \in Seqs, n \in 1 .. Half - 1 :
        LT(a, Add(a, n)) /\ ~LT(Add(a, n), a) /\ ~LEQ(Add(a, n), a)
<1> SUFFICES ASSUME NEW a \in Seqs, NEW n \in 1 .. Half - 1
             PROVE  LT(a, Add(a, n)) /\ ~LT(Add(a, n), a) /\ ~LEQ(Add(a, n), a)
  OBVIOUS
<1>1. n \in 0 .. SeqSpace - 1
  BY Sizes
<1> DEFINE b == Add(a, n)
<1>2. b \in Seqs /\ b = IF a + n < SeqSpace THEN a + n ELSE a + n - SeqSpace
  BY <1>1, AddTurn
<1> HIDE DEF b
<1>3. Distance(b, a) = SeqSpace - n /\ Distance(a, b) = n
  <2>1. Distance(b, a) = IF b <= a THEN a - b ELSE a - b + SeqSpace
    BY <1>2, DistanceTurn
  <2>2. Distance(a, b) = IF a <= b THEN b - a ELSE b - a + SeqSpace
    BY <1>2, DistanceTurn
  <2> QED BY <1>1, <1>2, <2>1, <2>2, Sizes DEF Seqs
<1>4. b # a
  BY <1>1, <1>2, Sizes DEF Seqs
<1>5. LT(a, b) /\ ~LT(b, a) /\ ~LEQ(b, a)
  BY <1>3, <1>4, Sizes DEF LT, LEQ, Half
<1> QED BY <1>5 DEF b

\* A place up to Half - 1 behind another is before it or the same.
LEMMA BehindIsBefore ==
    ASSUME NEW a \in Seqs, NEW b \in Seqs, Distance(a, b) <= Half - 1
    PROVE  LEQ(a, b) /\ (a # b => LT(a, b))
  <1>1. CASE Distance(a, b) = 0
    <2>1. Distance(a, b) = IF a <= b THEN b - a ELSE b - a + SeqSpace
      BY DistanceTurn
    <2>2. a = b
      BY <1>1, <2>1, Sizes DEF Seqs
    <2> QED BY <2>2 DEF LEQ
  <1>2. CASE Distance(a, b) # 0
    <2>1. Distance(a, b) \in 1 .. Half - 1
      BY <1>2, DistanceTurn, Sizes DEF Seqs
    <2>2. LT(a, Add(a, Distance(a, b)))
      BY <2>1, OrderAcrossTheWrap
    <2>3. LT(a, b)
      BY <2>2, AddDistance
    <2> QED BY <2>3 DEF LEQ
  <1> QED BY <1>1, <1>2

\* tcp_update_rcv_ann_wnd never announces more than the receive buffer has room
\* for, and never takes back a window announced before, wherever in the space of
\* sequence numbers it stands; the edge announced last may lag behind by up to
\* the window and a FIN.
THEOREM AnnouncedWindowRight ==
    ASSUME NEW p, {"rcv_nxt", "rcv_wnd", "rcv_ann_wnd", "edge"} \subseteq DOMAIN p,
           p.rcv_nxt \in Seqs, p.edge \in Seqs, p.rcv_wnd \in 0 .. TcpWnd,
           Distance(p.edge, RightEdge(p)) <= TcpWnd + 1
    PROVE  LET q == UpdateAnnWnd(p)
           IN  /\ q.rcv_ann_wnd \in 0 .. p.rcv_wnd
               /\ LEQ(p.edge, Add(q.rcv_nxt, q.rcv_ann_wnd))
<1> DEFINE v == IF WorthTelling(p) THEN p.rcv_wnd
                ELSE IF LT(p.edge, p.rcv_nxt) THEN 0
                ELSE Distance(p.rcv_nxt, p.edge)
<1>1. UpdateAnnWnd(p).rcv_ann_wnd = v /\ UpdateAnnWnd(p).rcv_nxt = p.rcv_nxt
  BY DEF UpdateAnnWnd
<1>2. p.rcv_wnd \in 0 .. SeqSpace - 1 /\ TcpWnd + 1 <= Half - 1
  BY Sizes
<1>3. /\ RightEdge(p) \in Seqs
      /\ RightEdge(p) = IF p.rcv_nxt + p.rcv_wnd < SeqSpace THEN p.rcv_nxt + p.rcv_wnd
                        ELSE p.rcv_nxt + p.rcv_wnd - SeqSpace
  BY <1>2, AddTurn DEF RightEdge
<1>4. LEQ(p.edge, RightEdge(p))
  <2>1. Distance(p.edge, RightEdge(p)) \in Seqs
    BY <1>3, DistanceTurn
  <2>2. Distance(p.edge, RightEdge(p)) <= Half - 1
    BY <1>2, <2>1, Sizes DEF Seqs
  <2> QED BY <1>3, <2>2, BehindIsBefore
<1>5. v \in 0 .. p.rcv_wnd /\ LEQ(p.edge, Add(p.rcv_nxt, v))
  <2>1. CASE WorthTelling(p)
    BY <2>1, <1>4 DEF RightEdge
  <2>2. CASE ~WorthTelling(p) /\ LT(p.edge, p.rcv_nxt)
    <3>1. Add(p.rcv_nxt, 0) = p.rcv_nxt
      BY AddTurn, Sizes DEF Seqs
    <3> QED BY <2>2, <3>1 DEF LEQ
  <2>3. CASE ~WorthTelling(p) /\ ~LT(p.edge, p.rcv_nxt)
    <3>1. Add(p.rcv_nxt, v) = p.edge
      BY <2>3, AddDistance
    <3>2. /\ Distance(p.rcv_nxt, p.edge) = IF p.rcv_nxt <= p.edge THEN p.edge - p.rcv_nxt
                                           ELSE p.edge - p.rcv_nxt + SeqSpace
          /\ Distance(p.edge, RightEdge(p)) =
                IF p.edge <= RightEdge(p) THEN RightEdge(p) - p.edge
                ELSE RightEdge(p) - p.edge + SeqSpace
          /\ Distance(p.edge, p.rcv_nxt) = IF p.edge <= p.rcv_nxt THEN p.rcv_nxt - p.edge
                                           ELSE p.rcv_nxt - p.edge + SeqSpace
      BY <1>3, DistanceTurn
    <3>3. p.edge # p.rcv_nxt => Distance(p.edge, p.rcv_nxt) > Half - 1
      BY <2>3, BehindIsBefore, <3>2, Sizes DEF Seqs
    <3>4. Distance(p.rcv_nxt, p.edge) \in 0 .. p.rcv_wnd
      BY <1>2, <1>3, <3>2, <3>3, Sizes DEF Seqs
    <3> QED BY <2>3, <3>1, <3>4 DEF LEQ
  <2> QED BY <2>1, <2>2, <2>3
<1> HIDE DEF v
<1> QED BY <1>1, <1>5

-----------------------------------------------------------------------------
(* The queues of segments.  Putting one in keeps a queue a queue, one by one *)
(* as tcp_output does.                                                      *)

\* Every set of naturals that is not empty has a least element.
LEMMA LeastElement ==
    ASSUME NEW T, T \subseteq Nat, T # {}
    PROVE  \E x \in T : \A y \in T : x <= y
  <1>1. \E x \in T : \A y \in T : ~ (<<y, x>> \in OpToRel(<, Nat))
    BY WFMin, NatLessThanWellFounded, Zenon
  <1>2. PICK x \in T : \A y \in T : ~ (<<y, x>> \in OpToRel(<, Nat))
    BY <1>1, Zenon
  <1>3. ASSUME NEW y \in T PROVE x <= y
    <2>1. <<y, x>> \notin OpToRel(<, Nat)
      BY <1>2, Zenon
    <2>2. <<y, x>> \notin {ss \in Nat \X Nat : ss[1] < ss[2]}
      BY <2>1, Zenon DEF OpToRel
    <2> QED BY <2>2
  <1> QED BY <1>3

\* What First picks.
LEMMA FirstIsFirst ==
    ASSUME NEW T, T \subseteq Nat, T # {}
    PROVE  First(T) \in T /\ \A y \in T : First(T) <= y
  BY LeastElement DEF First

\* A part of a sequence.
LEMMA SubSeqType ==
    ASSUME NEW S, NEW q \in Seq(S), NEW i \in Int, i >= 1, NEW j \in Int, j <= Len(q)
    PROVE  /\ SubSeq(q, i, j) \in Seq(S)
           /\ Len(SubSeq(q, i, j)) = IF i <= j THEN j - i + 1 ELSE 0
  BY SubSeqProperties

\* A queue stays a queue when a segment is put in, and so whole queues.
LEMMA InsertType ==
    ASSUME NEW S, NEW q \in Seq(S), NEW s \in S
    PROVE  Insert(q, s) \in Seq(S) /\ Insert(q, s) # <<>>
  <1> DEFINE after == {i \in DOMAIN q : ~LT(q[i].seq, s.seq)}
  <1>1. CASE after = {}
    <2>1. Insert(q, s) = Append(q, s)
      BY <1>1 DEF Insert
    <2> QED BY <2>1
  <1>2. CASE after # {}
    <2> DEFINE i == First(after)
    <2>1. i \in 1 .. Len(q)
      <3>1. after \subseteq Nat /\ after \subseteq 1 .. Len(q)
        OBVIOUS
      <3> HIDE DEF after
      <3> QED BY <1>2, <3>1, FirstIsFirst
    <2>2. Insert(q, s) = SubSeq(q, 1, i - 1) \o <<s>> \o SubSeq(q, i, Len(q))
      BY <1>2 DEF Insert, InsertAt
    <2> HIDE DEF i, after
    <2>3. SubSeq(q, 1, i - 1) \in Seq(S) /\ SubSeq(q, i, Len(q)) \in Seq(S)
      <3>1. i \in Int /\ i >= 1 /\ i - 1 \in Int /\ i - 1 <= Len(q) /\ Len(q) \in Int
        BY <2>1
      <3> QED BY <3>1, SubSeqType
    <2>4. <<s>> \in Seq(S)
      OBVIOUS
    <2>5. SubSeq(q, 1, i - 1) \o <<s>> \in Seq(S) /\ SubSeq(q, 1, i - 1) \o <<s>> # <<>>
      BY <2>3, <2>4
    <2> QED BY <2>2, <2>3, <2>5
  <1> QED BY <1>1, <1>2

LEMMA PlaceType ==
    ASSUME NEW S, NEW q \in Seq(S), NEW s \in S
    PROVE  Place(q, s) \in Seq(S) /\ Place(q, s) # <<>>
  <1>1. Append(q, s) \in Seq(S) /\ Append(q, s) # <<>>
    BY AppendProperties
  <1>2. Insert(q, s) \in Seq(S) /\ Insert(q, s) # <<>>
    BY InsertType
  <1>3. Place(q, s) = Insert(q, s) \/ Place(q, s) = Append(q, s)
    BY Zenon DEF Place
  <1> QED BY <1>1, <1>2, <1>3

\* What putting the first n segments into a queue one by one makes of it.
IsPlacing(f, q, sent, n) ==
    f = [i \in 0 .. n |-> IF i = 0 THEN q ELSE Place(f[i - 1], sent[i])]

LEMMA PlacedStep ==
    ASSUME NEW S, NEW q \in Seq(S), NEW sent \in Seq(S), NEW n \in Nat, n <= Len(sent)
    PROVE  \E f \in [0 .. n -> Seq(S)] : IsPlacing(f, q, sent, n)
  <1> DEFINE Good(m) == \E f \in [0 .. m -> Seq(S)] : IsPlacing(f, q, sent, m)
             Bad == {m \in Nat : m <= Len(sent) /\ ~Good(m)}
  <1>1. Good(0)
    <2> DEFINE f == [i \in 0 .. 0 |-> q]
    <2>1. f \in [0 .. 0 -> Seq(S)]
      OBVIOUS
    <2>2. IsPlacing(f, q, sent, 0)
      BY DEF IsPlacing
    <2> HIDE DEF f
    <2> QED BY <2>1, <2>2
  <1>2. ASSUME NEW m \in Nat, m + 1 <= Len(sent), Good(m) PROVE Good(m + 1)
    <2>1. PICK g \in [0 .. m -> Seq(S)] : IsPlacing(g, q, sent, m)
      BY <1>2
    <2> DEFINE last == Place(g[m], sent[m + 1])
               f == [i \in 0 .. m + 1 |-> IF i <= m THEN g[i] ELSE last]
    <2>2. last \in Seq(S)
      <3>1. g[m] \in Seq(S) /\ sent[m + 1] \in S
        BY <1>2
      <3> QED BY <3>1, PlaceType
    <2> HIDE DEF last
    <2>3. f \in [0 .. m + 1 -> Seq(S)]
      BY <2>2
    <2>4. ASSUME NEW i \in 0 .. m + 1
          PROVE  f[i] = IF i = 0 THEN q ELSE Place(f[i - 1], sent[i])
      <3>1. CASE i = 0
        BY <3>1, <2>1 DEF IsPlacing
      <3>2. CASE i \in 1 .. m
        <4>1. g[i] = Place(g[i - 1], sent[i])
          BY <3>2, <2>1 DEF IsPlacing
        <4>2. f[i] = g[i] /\ f[i - 1] = g[i - 1]
          BY <3>2
        <4> QED BY <3>2, <4>1, <4>2
      <3>3. CASE i = m + 1
        <4>1. f[i] = last /\ f[i - 1] = g[m]
          BY <3>3
        <4> QED BY <3>3, <4>1 DEF last
      <3> QED BY <3>1, <3>2, <3>3
    <2>5. IsPlacing(f, q, sent, m + 1)
      <3>1. f = [i \in 0 .. m + 1 |-> f[i]]
        OBVIOUS
      <3> HIDE DEF f
      <3> QED BY <2>4, <3>1 DEF IsPlacing
    <2> HIDE DEF f
    <2> QED BY <2>3, <2>5
  <1> HIDE DEF Good
  <1>3. Bad = {}
    <2> SUFFICES ASSUME Bad # {} PROVE FALSE
      OBVIOUS
    <2>1. PICK m \in Bad : \A k \in Bad : m <= k
      BY LeastElement
    <2>2. m # 0 /\ m \in Nat /\ m <= Len(sent) /\ ~Good(m)
      BY <1>1, <2>1
    <2>3. m - 1 \in Nat /\ m - 1 + 1 = m /\ m - 1 \notin Bad
      BY <2>1, <2>2
    <2>4. Good(m - 1)
      BY <2>2, <2>3
    <2> QED BY <1>2, <2>2, <2>3, <2>4
  <1> QED BY <1>3 DEF Good

LEMMA PlacedType ==
    ASSUME NEW S, NEW q \in Seq(S), NEW sent \in Seq(S)
    PROVE  Placed(q, sent) \in Seq(S) /\ (q # <<>> \/ sent # <<>> => Placed(q, sent) # <<>>)
  <1> DEFINE g == CHOOSE f : IsPlacing(f, q, sent, Len(sent))
  <1>1. Len(sent) \in Nat /\ Len(sent) <= Len(sent)
    OBVIOUS
  <1>2. Placed(q, sent) = g[Len(sent)]
    BY DEF Placed, IsPlacing
  <1>3. \E f \in [0 .. Len(sent) -> Seq(S)] : IsPlacing(f, q, sent, Len(sent))
    BY <1>1, PlacedStep, Zenon
  <1>4. IsPlacing(g, q, sent, Len(sent))
    BY <1>3
  <1> HIDE DEF g
  <1>5. /\ g[0] = q
        /\ \A i \in 1 .. Len(sent) : g[i] = Place(g[i - 1], sent[i])
    BY <1>1, <1>4 DEF IsPlacing
  <1> DEFINE Bad == {i \in 0 .. Len(sent) : g[i] \notin Seq(S)}
  <1>6. Bad = {}
    <2> SUFFICES ASSUME Bad # {} PROVE FALSE
      OBVIOUS
    <2>1. PICK m \in Bad : \A k \in Bad : m <= k
      <3>1. Bad \subseteq Nat
        OBVIOUS
      <3> HIDE DEF Bad
      <3> QED BY <3>1, LeastElement
    <2>2. m \in 1 .. Len(sent) /\ g[m] \notin Seq(S)
      BY <1>5, <2>1
    <2>3. m - 1 \in 0 .. Len(sent) /\ g[m - 1] \in Seq(S)
      BY <2>1, <2>2
    <2>4. g[m] = Place(g[m - 1], sent[m]) /\ sent[m] \in S
      BY <1>5, <2>2
    <2> QED BY <2>2, <2>3, <2>4, PlaceType
  <1>7. q # <<>> \/ sent # <<>> => g[Len(sent)] # <<>>
    <2>1. CASE Len(sent) = 0
      BY <1>5, <2>1
    <2>2. CASE Len(sent) # 0
      <3>1. Len(sent) \in 1 .. Len(sent) /\ Len(sent) - 1 \in 0 .. Len(sent)
        BY <1>1, <2>2
      <3>2. g[Len(sent)] = Place(g[Len(sent) - 1], sent[Len(sent)])
        BY <1>5, <3>1
      <3>3. g[Len(sent) - 1] \in Seq(S) /\ sent[Len(sent)] \in S
        BY <1>6, <3>1
      <3> QED BY <3>2, <3>3, PlaceType
    <2> QED BY <2>1, <2>2
  <1>8. g[Len(sent)] \in Seq(S)
    BY <1>1, <1>6
  <1> QED BY <1>2, <1>7, <1>8

\* The first segments that may go, up to the first that may not.
LEMMA SendableType ==
    ASSUME NEW p, Len(p.unsent) \in Nat
    PROVE  Sendable(p) \in 0 .. Len(p.unsent)
  <1> DEFINE n == Len(p.unsent)
             Goes(i) == Fits(p, p.unsent[i]) /\ Nagle(p, i)
             Stays == {i \in 1 .. n : ~Goes(i)}
             Is(k) == (\A i \in 1 .. k : Goes(i)) /\ (k < n => ~Goes(k + 1))
  <1>1. \E k \in 0 .. n : Is(k)
    <2>1. CASE Stays = {}
      <3>1. Is(n)
        BY <2>1
      <3> QED BY <3>1
    <2>2. CASE Stays # {}
      <3>1. \E i \in Stays : \A j \in Stays : i <= j
        <4>1. Stays \subseteq Nat
          OBVIOUS
        <4> HIDE DEF Stays
        <4> QED BY <2>2, <4>1, LeastElement
      <3>2. PICK i \in Stays : \A j \in Stays : i <= j
        BY <3>1
      <3>3. /\ i \in 1 .. n /\ ~Goes(i)
            /\ \A j \in 1 .. i - 1 : Goes(j)
        <4> HIDE DEF Goes
        <4> QED BY <3>2
      <3>4. Is(i - 1) /\ i - 1 \in 0 .. n
        <4> HIDE DEF Goes
        <4> QED BY <3>3
      <3> QED BY <3>4
    <2> QED BY <2>1, <2>2
  <1>2. Sendable(p) = CHOOSE k \in 0 .. n : Is(k)
    BY DEF Sendable
  <1>3. (CHOOSE k \in 0 .. n : Is(k)) \in 0 .. n
    <2> HIDE DEF Is, n
    <2> QED BY <1>1
  <1> QED BY <1>2, <1>3, Zenon

\* tcp_free_acked_segments.
LEMMA FreeAckedType ==
    ASSUME NEW S, NEW q \in Seq(S), NEW ack
    PROVE  FreeAcked(q, ack) \in Seq(S)
  <1> DEFINE left == {i \in DOMAIN q : ~LEQ(EndOf(q[i]), ack)}
  <1>1. FreeAcked(q, ack) = IF left = {} THEN <<>> ELSE SubSeq(q, First(left), Len(q))
    BY DEF FreeAcked
  <1>2. left \subseteq 1 .. Len(q)
    OBVIOUS
  <1> HIDE DEF left
  <1>3. CASE left = {}
    BY <1>1, <1>3
  <1>4. CASE left # {}
    <2>1. First(left) \in 1 .. Len(q)
      <3>1. left \subseteq Nat
        BY <1>2
      <3> QED BY <1>2, <1>4, <3>1, FirstIsFirst
    <2>2. First(left) \in Int /\ First(left) >= 1 /\ Len(q) \in Int /\ Len(q) <= Len(q)
      BY <2>1
    <2>3. SubSeq(q, First(left), Len(q)) \in Seq(S)
      BY <2>2, SubSeqType
    <2> QED BY <1>1, <1>4, <2>3
  <1> QED BY <1>3, <1>4

\* Text that is cut stays text of a segment.
LEMMA CutText ==
    ASSUME NEW t \in Texts, NEW i \in Int, i >= 1, NEW j \in Int, j <= Len(t)
    PROVE  SubSeq(t, i, j) \in Texts
  <1>1. t \in Seq(Nat) /\ Len(t) \in Nat /\ Len(t) <= Mss /\ Mss \in Nat
    BY TcpAssumption DEF Texts
  <1>2. /\ SubSeq(t, i, j) \in Seq(Nat)
        /\ Len(SubSeq(t, i, j)) = IF i <= j THEN j - i + 1 ELSE 0
    BY <1>1, SubSeqType
  <1> QED BY <1>1, <1>2 DEF Texts

LEMMA TextOf ==
    ASSUME NEW t \in Texts
    PROVE  t \in Seq(Nat) /\ Len(t) \in 0 .. Mss /\ SubSeq(t, 1, 0) \in Texts /\ <<>> \in Texts
  <1>1. t \in Seq(Nat) /\ Len(t) \in 0 .. Mss /\ Mss \in Nat
    BY TcpAssumption DEF Texts
  <1>2. <<>> \in Texts
    BY <1>1 DEF Texts
  <1>3. SubSeq(t, 1, 0) \in Texts
    BY <1>1, CutText
  <1> QED BY <1>1, <1>2, <1>3

\* Sums of sequence numbers.
LEMMA SeqNumber ==
    ASSUME NEW a \in Int, NEW b \in Int
    PROVE  Add(a, b) \in Seqs /\ Distance(a, b) \in Seqs
  BY TcpAssumption DEF Add, Distance, Seqs

LEMMA AddNothing == ASSUME NEW a \in Seqs PROVE Add(a, 0) = a
  BY TcpAssumption DEF Add, Seqs

-----------------------------------------------------------------------------
(* What sending does to a host: types and fields, the segments under way, and *)
(* the two timers that exclude each other.                                  *)

(* The records of the model as what is known of each field: membership in a  *)
(* set of records with so many fields is opaque to the provers.              *)

PcbFields == {"state", "snd_nxt", "lastack", "snd_lbb", "snd_wnd", "snd_wl1",
    "snd_wl2", "unacked", "unsent", "cwnd", "rtime", "nrtx", "dupacks", "persist",
    "probes", "rcv_nxt", "rcv_wnd", "rcv_ann_wnd", "edge", "refused", "ackDelay",
    "ackNow", "infr", "fin", "nagleMemErr", "rxClosed", "closePend", "backlogPend"}

IsPcb(p) ==
    /\ p = [f \in PcbFields |-> p[f]]
    /\ p.state \in States /\ p.snd_nxt \in Seqs /\ p.lastack \in Seqs
    /\ p.snd_lbb \in Seqs /\ p.snd_wnd \in Seqs /\ p.snd_wl1 \in Seqs
    /\ p.snd_wl2 \in Seqs /\ p.unacked \in Queues /\ p.unsent \in Queues
    /\ p.cwnd \in CongestionWindows /\ p.rtime \in BOOLEAN /\ p.nrtx \in Bytes
    /\ p.dupacks \in DupAcks /\ p.persist \in BOOLEAN /\ p.probes \in Probes
    /\ p.rcv_nxt \in Seqs /\ p.rcv_wnd \in Windows /\ p.rcv_ann_wnd \in Seqs
    /\ p.edge \in Seqs /\ p.refused \in Refusals /\ p.ackDelay \in BOOLEAN
    /\ p.ackNow \in BOOLEAN /\ p.infr \in BOOLEAN /\ p.fin \in BOOLEAN
    /\ p.nagleMemErr \in BOOLEAN /\ p.rxClosed \in BOOLEAN
    /\ p.closePend \in BOOLEAN /\ p.backlogPend \in BOOLEAN

\* The type of a pcb, field by field.
LEMMA PcbIs == \A p : p \in Pcbs <=> IsPcb(p)
  <1>1. ASSUME NEW p \in Pcbs PROVE IsPcb(p)
    BY DEF IsPcb, Pcbs, PcbFields
  <1>2. ASSUME NEW p, IsPcb(p) PROVE p \in Pcbs
    BY <1>2 DEF IsPcb, Pcbs, PcbFields
  <1> QED BY <1>1, <1>2

AppFields == {"use", "wrote", "got", "read", "eof", "err", "accepts"}

IsApp(a) ==
    /\ a = [f \in AppFields |-> a[f]]
    /\ a.use \in Uses /\ a.wrote \in Nat /\ a.got \in Seq(Nat) /\ a.read \in Nat
    /\ a.eof \in BOOLEAN /\ a.err \in BOOLEAN /\ a.accepts \in Nat

\* The type of an application.
LEMMA AppIs == \A a : a \in Apps <=> IsApp(a)
  <1>1. ASSUME NEW a \in Apps PROVE IsApp(a)
    BY DEF IsApp, Apps, AppFields
  <1>2. ASSUME NEW a, IsApp(a) PROVE a \in Apps
    BY <1>2 DEF IsApp, Apps, AppFields
  <1> QED BY <1>1, <1>2

ContextFields == {"p", "out", "app", "pending", "text", "freed", "down", "failed"}

IsContext(c) ==
    /\ c = [f \in ContextFields |-> c[f]]
    /\ IsPcb(c.p) /\ IsApp(c.app) /\ c.out \in Seq(Messages) /\ c.pending \in Int
    /\ c.text \in Refusals
    /\ c.freed \in BOOLEAN /\ c.down \in BOOLEAN /\ c.failed \in BOOLEAN

\* Nothing is in flight without the retransmission timer, which excludes the
\* persist timer.
Timed(p) == p.unacked # <<>> => p.rtime /\ ~p.persist

\* What sending leaves alone.
Unmoved(p, q) ==
    /\ Timed(p) => Timed(q)
    /\ q.state = p.state /\ q.rcv_nxt = p.rcv_nxt /\ q.refused = p.refused
    /\ q.rxClosed = p.rxClosed /\ q.closePend = p.closePend /\ q.backlogPend = p.backlogPend

Sends(c, d) ==
    /\ IsContext(d) /\ Unmoved(c.p, d.p)
    /\ d.app = c.app /\ d.pending = c.pending /\ d.text = c.text
    /\ d.freed = c.freed /\ d.down = c.down

LEMMA SendsTwice ==
    ASSUME NEW c, NEW d, NEW e, Sends(c, d), Sends(d, e)
    PROVE  Sends(c, e)
  BY DEF Sends, Unmoved

\* A change of the pcb alone.
LEMMA MovesPcb ==
    ASSUME NEW c, IsContext(c), NEW q, IsPcb(q), Unmoved(c.p, q)
    PROVE  Sends(c, [c EXCEPT !.p = q])
  BY DEF Sends, IsContext, ContextFields

\* Headers, and what goes to the layer below.
LEMMA SegmentType ==
    ASSUME NEW p, IsPcb(p), NEW seq \in Seqs, NEW data \in Texts,
           NEW syn \in BOOLEAN, NEW fin \in BOOLEAN
    PROVE  Segment(p, seq, data, syn, fin) \in Messages
  BY DEF IsPcb, Segment, Messages

LEMMA AnnounceType ==
    ASSUME NEW p, IsPcb(p)
    PROVE  /\ IsPcb(Announce(p)) /\ Unmoved(p, Announce(p))
           /\ Announce(p).unacked = p.unacked /\ Announce(p).unsent = p.unsent
           /\ Announce(p).persist = p.persist
  <1>1. Add(p.rcv_nxt, p.rcv_ann_wnd) \in Seqs
    BY SeqNumber DEF IsPcb, Seqs
  <1> QED BY <1>1 DEF IsPcb, PcbFields, Announce, Unmoved, Timed

LEMMA PassSends ==
    ASSUME NEW c, IsContext(c), NEW segments \in Seq(Messages)
    PROVE  Sends(c, Pass(c, segments)) /\ Pass(c, segments).p = c.p
  <1>1. c.out \o segments \in Seq(Messages)
    BY DEF IsContext
  <1> QED BY <1>1 DEF Pass, Sends, Unmoved, IsContext, ContextFields

LEMMA EmptyText == <<>> \in Texts
  BY TcpAssumption DEF Texts

LEMMA OneMessage ==
    ASSUME NEW m \in Messages PROVE <<m>> \in Seq(Messages)
  OBVIOUS

\* tcp_send_empty_ack, tcp_rst, and an acknowledgement that is due.
LEMMA SendEmptyAckSends ==
    ASSUME NEW c, IsContext(c)
    PROVE  /\ Sends(c, SendEmptyAck(c))
           /\ SendEmptyAck(c).p.unacked = c.p.unacked /\ SendEmptyAck(c).p.unsent = c.p.unsent
  <1> DEFINE s == Segment(c.p, c.p.snd_nxt, <<>>, FALSE, FALSE)
             d == Pass(c, <<s>>)
             q == [Announce(c.p) EXCEPT !.ackDelay = c.down, !.ackNow = c.down]
  <1>1. IsPcb(c.p) /\ c.p.snd_nxt \in Seqs /\ c.down \in BOOLEAN
    BY DEF IsContext, IsPcb
  <1>2. s \in Messages
    BY <1>1, SegmentType, EmptyText
  <1>3. Sends(c, d) /\ d.p = c.p
    <2>1. <<s>> \in Seq(Messages)
      BY <1>2, OneMessage
    <2> QED BY <2>1, PassSends
  <1>4. IsPcb(q) /\ Unmoved(c.p, q) /\ q.unacked = c.p.unacked /\ q.unsent = c.p.unsent
    <2> DEFINE a == Announce(c.p)
    <2>1. IsPcb(a) /\ Unmoved(c.p, a) /\ a.unacked = c.p.unacked /\ a.unsent = c.p.unsent
      BY <1>1, AnnounceType
    <2> HIDE DEF a
    <2>2. IsPcb([a EXCEPT !.ackDelay = c.down, !.ackNow = c.down])
      BY ZenonT(60), <1>1, <2>1 DEF IsPcb, PcbFields
    <2>3. /\ Unmoved(c.p, [a EXCEPT !.ackDelay = c.down, !.ackNow = c.down])
          /\ [a EXCEPT !.ackDelay = c.down, !.ackNow = c.down].unacked = c.p.unacked
          /\ [a EXCEPT !.ackDelay = c.down, !.ackNow = c.down].unsent = c.p.unsent
      BY <2>1 DEF IsPcb, PcbFields, Unmoved, Timed
    <2> QED BY <2>2, <2>3 DEF a
  <1>5. SendEmptyAck(c) = [d EXCEPT !.p = q]
    BY DEF SendEmptyAck
  <1> HIDE DEF d, q
  <1>6. Sends(d, [d EXCEPT !.p = q]) /\ [d EXCEPT !.p = q].p = q
    BY <1>3, <1>4, MovesPcb DEF Sends, IsContext, ContextFields
  <1>7. Sends(c, [d EXCEPT !.p = q])
    BY <1>3, <1>6, SendsTwice
  <1> QED BY <1>4, <1>5, <1>6, <1>7

LEMMA SendRstSends ==
    ASSUME NEW c, IsContext(c), NEW seq \in Seqs, NEW ack \in Seqs
    PROVE  Sends(c, SendRst(c, seq, ack)) /\ SendRst(c, seq, ack).p = c.p
  <1> DEFINE s == [seq |-> seq, data |-> <<>>, syn |-> FALSE, fin |-> FALSE, rst |-> TRUE,
                   isAck |-> TRUE, ack |-> ack, wnd |-> TcpWnd]
  <1>1. TcpWnd \in Seqs
    BY TcpAssumption DEF Seqs
  <1>2. s \in Messages
    BY <1>1, EmptyText DEF Messages
  <1>3. <<s>> \in Seq(Messages)
    BY <1>2, OneMessage
  <1>4. SendRst(c, seq, ack) = Pass(c, <<s>>)
    BY DEF SendRst
  <1> HIDE DEF s
  <1> QED BY <1>3, <1>4, PassSends

LEMMA AckNowSends ==
    ASSUME NEW c, IsContext(c)
    PROVE  Sends(c, AckNow(c))
  <1> DEFINE q == [c.p EXCEPT !.ackNow = TRUE]
  <1>1. IsPcb(q) /\ Unmoved(c.p, q)
    BY ZenonT(60) DEF IsContext, IsPcb, PcbFields, Unmoved, Timed
  <1>2. AckNow(c) = [c EXCEPT !.p = q]
    BY DEF AckNow
  <1> HIDE DEF q
  <1> QED BY <1>1, <1>2, MovesPcb

\* What is done to the queues of segments.
LEMMA QueueTypes ==
    /\ <<>> \in Queues
    /\ \A q \in Queues :
        /\ Len(q) \in Nat
        /\ \A i \in 1 .. Len(q) : q[i] \in Segments
        /\ q # <<>> => Len(q) > 0 /\ Head(q) \in Segments /\ Head(q) = q[1] /\ Tail(q) \in Queues
        /\ \A s \in Segments : Append(q, s) \in Queues /\ Insert(q, s) \in Queues
        /\ \A r \in Queues :
            /\ q \o r \in Queues /\ Placed(q, r) \in Queues
            /\ q # <<>> \/ r # <<>> => q \o r # <<>> /\ Placed(q, r) # <<>>
        /\ \A ack : FreeAcked(q, ack) \in Queues
        /\ \A i \in 1 .. Len(q) + 1, j \in 0 .. Len(q) : SubSeq(q, i, j) \in Queues
  <1>1. <<>> \in Queues
    BY DEF Queues
  <1>2. ASSUME NEW q \in Queues
        PROVE  /\ Len(q) \in Nat
               /\ \A i \in 1 .. Len(q) : q[i] \in Segments
               /\ q # <<>> =>
                     Len(q) > 0 /\ Head(q) \in Segments /\ Head(q) = q[1] /\ Tail(q) \in Queues
    BY DEF Queues
  <1>3. ASSUME NEW q \in Queues, NEW s \in Segments
        PROVE  Append(q, s) \in Queues /\ Insert(q, s) \in Queues
    BY InsertType DEF Queues
  <1>4. ASSUME NEW q \in Queues, NEW r \in Queues
        PROVE  /\ q \o r \in Queues /\ Placed(q, r) \in Queues
               /\ q # <<>> \/ r # <<>> => q \o r # <<>> /\ Placed(q, r) # <<>>
    <2>1. q \o r \in Queues /\ (q # <<>> \/ r # <<>> => q \o r # <<>>)
      BY DEF Queues
    <2>2. Placed(q, r) \in Queues /\ (q # <<>> \/ r # <<>> => Placed(q, r) # <<>>)
      BY PlacedType DEF Queues
    <2> QED BY <2>1, <2>2
  <1>5. ASSUME NEW q \in Queues, NEW ack PROVE FreeAcked(q, ack) \in Queues
    BY FreeAckedType DEF Queues
  <1>6. ASSUME NEW q \in Queues, NEW i \in 1 .. Len(q) + 1, NEW j \in 0 .. Len(q)
        PROVE  SubSeq(q, i, j) \in Queues
    <2>1. q \in Seq(Segments) /\ i \in Int /\ i >= 1 /\ j \in Int /\ j <= Len(q)
      BY <1>2 DEF Queues
    <2> QED BY <2>1, SubSeqType DEF Queues
  <1> QED BY <1>1, <1>2, <1>3, <1>4, <1>5, <1>6

\* The type of a segment.
LEMMA SegmentFields ==
    ASSUME NEW s \in Segments
    PROVE  /\ s.seq \in Seqs /\ s.data \in Texts /\ s.syn \in BOOLEAN /\ s.fin \in BOOLEAN
           /\ Len(s.data) \in 0 .. Mss
           /\ TcpLen(s) \in Nat /\ EndOf(s) \in Seqs
  <1>1. s.seq \in Seqs /\ s.data \in Texts /\ s.syn \in BOOLEAN /\ s.fin \in BOOLEAN
    BY DEF Segments
  <1>2. Len(s.data) \in 0 .. Mss
    BY <1>1, TextOf
  <1>3. TcpLen(s) \in Nat
    <2>1. Len(s.data) \in Nat
      BY <1>2
    <2> DEFINE one == IF s.syn \/ s.fin THEN 1 ELSE 0
    <2>2. one \in Nat
      OBVIOUS
    <2>3. TcpLen(s) = Len(s.data) + one
      BY DEF TcpLen
    <2> HIDE DEF one
    <2> QED BY <2>1, <2>2, <2>3
  <1>4. EndOf(s) \in Seqs
    <2>1. s.seq \in Int /\ TcpLen(s) \in Int
      BY <1>1, <1>3 DEF Seqs
    <2> QED BY <2>1, SeqNumber DEF EndOf
  <1> QED BY <1>1, <1>2, <1>3, <1>4

\* Something is queued, sent or not.
Waiting(p) == p.unacked # <<>> \/ p.unsent # <<>>

\* The loop of tcp_output: what it does with k segments.
LEMMA TransmitSends ==
    ASSUME NEW c, IsContext(c), NEW k \in 0 .. Len(c.p.unsent), ~c.p.persist
    PROVE  Sends(c, Transmit(c, k)) /\ (Waiting(c.p) => Waiting(Transmit(c, k).p))
  <1> DEFINE p == c.p
             sent == SubSeq(p.unsent, 1, k)
             out == [i \in 1 .. k |-> Segment(p, sent[i].seq, sent[i].data,
                                              sent[i].syn, sent[i].fin)]
             end == EndOf(sent[k])
             acked == p.state # "SYN_SENT"
             a == Announce(p)
             next == IF LT(p.snd_nxt, end) THEN end ELSE a.snd_nxt
             ackDelay == a.ackDelay /\ ~acked
             ackNow == a.ackNow /\ ~acked
             rest == SubSeq(p.unsent, k + 1, Len(p.unsent))
             more == Placed(p.unacked, sent)
             d == Pass(c, out)
             q0 == [p EXCEPT !.nagleMemErr = FALSE]
             q1 == [a EXCEPT !.rtime = TRUE, !.nagleMemErr = TRUE]
             q2 == [a EXCEPT !.nagleMemErr = FALSE, !.unsent = rest, !.unacked = more,
                             !.snd_nxt = next, !.rtime = TRUE,
                             !.ackDelay = ackDelay, !.ackNow = ackNow]
  <1>1. IsPcb(p) /\ p.unsent \in Queues /\ p.unacked \in Queues /\ Len(p.unsent) \in Nat
    BY QueueTypes DEF IsContext, IsPcb
  <1>2. /\ IsPcb(a) /\ Unmoved(p, a) /\ a.unacked = p.unacked /\ a.unsent = p.unsent
        /\ ~a.persist
    BY <1>1, AnnounceType
  <1>3. Transmit(c, k) = IF k = 0 THEN [c EXCEPT !.p = q0]
                         ELSE IF c.down THEN [d EXCEPT !.p = q1] ELSE [d EXCEPT !.p = q2]
    BY DEF Transmit
  <1>4. CASE k = 0
    <2>1. IsPcb(q0) /\ Unmoved(p, q0) /\ q0.unacked = p.unacked /\ q0.unsent = p.unsent
      BY <1>1 DEF IsPcb, PcbFields, Unmoved, Timed
    <2> HIDE DEF q0
    <2>2. Sends(c, [c EXCEPT !.p = q0]) /\ [c EXCEPT !.p = q0].p = q0
      BY <2>1, MovesPcb
    <2> QED BY <1>3, <1>4, <2>1, <2>2 DEF Waiting
  <1>5. CASE k # 0
    <2>1. sent \in Queues /\ Len(sent) = k /\ rest \in Queues
      <3>1. p.unsent \in Seq(Segments)
        BY <1>1 DEF Queues
      <3>2. /\ k \in Int /\ k > 0 /\ k <= Len(p.unsent) /\ 1 \in Int /\ 1 >= 1 /\ k + 1 \in Int
            /\ k + 1 >= 1 /\ Len(p.unsent) \in Int /\ Len(p.unsent) <= Len(p.unsent)
            /\ k - 1 + 1 = k /\ 1 <= k
        BY <1>1, <1>5
      <3> HIDE DEF p
      <3>3. sent \in Seq(Segments) /\ Len(sent) = IF 1 <= k THEN k - 1 + 1 ELSE 0
        BY <3>1, <3>2, SubSeqType
      <3>4. Len(sent) = k
        BY <3>2, <3>3
      <3>5. rest \in Seq(Segments)
        BY <3>1, <3>2, SubSeqType
      <3> QED BY <3>3, <3>4, <3>5 DEF Queues
    <2> HIDE DEF sent, rest
    <2>2. \A i \in 1 .. k : sent[i] \in Segments
      BY <2>1, QueueTypes
    <2>3. out \in Seq(Messages)
      <3>1. ASSUME NEW i \in 1 .. k
            PROVE  Segment(p, sent[i].seq, sent[i].data, sent[i].syn, sent[i].fin) \in Messages
        <4>1. /\ sent[i].seq \in Seqs /\ sent[i].data \in Texts
              /\ sent[i].syn \in BOOLEAN /\ sent[i].fin \in BOOLEAN
          BY <2>2, SegmentFields
        <4> HIDE DEF p
        <4> QED BY <1>1, <4>1, SegmentType
      <3>2. out \in [1 .. k -> Messages]
        BY <3>1
      <3> HIDE DEF out
      <3> QED BY <3>2, IsASeq
    <2>4. Sends(c, d) /\ d.p = p
      <3> HIDE DEF out
      <3> QED BY <2>3, PassSends
    <2>5. end \in Seqs
      <3>1. sent[k] \in Segments
        BY <1>5, <2>2
      <3> QED BY <3>1, SegmentFields
    <2>6. next \in Seqs
      BY <1>2, <2>5 DEF IsPcb
    <2>7. more \in Queues /\ more # <<>>
      <3>1. sent # <<>>
        BY <1>5, <2>1
      <3> QED BY <1>1, <2>1, <3>1, QueueTypes
    <2>8. ackDelay \in BOOLEAN /\ ackNow \in BOOLEAN
      OBVIOUS
    <2> HIDE DEF a, next, ackDelay, ackNow, more
    <2>9. IsPcb(q1) /\ Unmoved(p, q1) /\ q1.unacked = p.unacked /\ q1.unsent = p.unsent
      BY ZenonT(60), <1>2 DEF IsPcb, PcbFields, Unmoved, Timed
    <2>10. IsPcb(q2) /\ Unmoved(p, q2) /\ q2.unacked = more
      <3> DEFINE r == [a EXCEPT !.nagleMemErr = FALSE, !.unsent = rest, !.unacked = more]
                 s == [r EXCEPT !.snd_nxt = next, !.rtime = TRUE,
                                !.ackDelay = ackDelay, !.ackNow = ackNow]
      <3>1. q2 = s
        OBVIOUS
      <3> HIDE DEF q1, q2, out
      <3>2. /\ IsPcb(r) /\ r.unacked = more /\ r.persist = a.persist
            /\ r.state = a.state /\ r.rcv_nxt = a.rcv_nxt /\ r.refused = a.refused
            /\ r.rxClosed = a.rxClosed /\ r.closePend = a.closePend
            /\ r.backlogPend = a.backlogPend
        BY ZenonT(60), <1>2, <2>1, <2>7 DEF IsPcb, PcbFields
      <3> HIDE DEF r
      <3>3. /\ IsPcb(s) /\ s.unacked = r.unacked /\ s.persist = r.persist /\ s.rtime
            /\ s.state = r.state /\ s.rcv_nxt = r.rcv_nxt /\ s.refused = r.refused
            /\ s.rxClosed = r.rxClosed /\ s.closePend = r.closePend
            /\ s.backlogPend = r.backlogPend
        BY ZenonT(60), <2>6, <2>8, <3>2 DEF IsPcb, PcbFields
      <3> HIDE DEF s, p
      <3> QED BY <1>2, <3>1, <3>2, <3>3 DEF Unmoved, Timed
    <2> HIDE DEF d, q1, q2, p
    <2>11. Sends(d, [d EXCEPT !.p = q1]) /\ Sends(d, [d EXCEPT !.p = q2])
      BY <2>4, <2>9, <2>10, MovesPcb DEF Sends
    <2>12. Sends(c, [d EXCEPT !.p = q1]) /\ Sends(c, [d EXCEPT !.p = q2])
      BY <2>4, <2>11, SendsTwice
    <2>13. [d EXCEPT !.p = q1].p = q1 /\ [d EXCEPT !.p = q2].p = q2
      BY <2>4 DEF Sends, IsContext, ContextFields
    <2>14. (Waiting(p) => Waiting(q1)) /\ Waiting(q2)
      BY <2>7, <2>9, <2>10 DEF Waiting
    <2>15. Transmit(c, k) = [d EXCEPT !.p = q1] \/ Transmit(c, k) = [d EXCEPT !.p = q2]
      BY <1>3, <1>5
    <2>16. Waiting(p) => Waiting(Transmit(c, k).p)
      BY <2>13, <2>14, <2>15
    <2> QED BY <2>12, <2>15, <2>16 DEF p
  <1> QED BY <1>4, <1>5

\* tcp_output.
LEMMA OutputSends ==
    ASSUME NEW c, IsContext(c)
    PROVE  Sends(c, Output(c)) /\ (Waiting(c.p) => Waiting(Output(c).p))
  <1> DEFINE p == c.p
             q1 == [p EXCEPT !.persist = TRUE, !.probes = 0]
             q2 == [p EXCEPT !.persist = FALSE]
             blocked == [c EXCEPT !.p = q1]
             Done(d) == IF d.p.ackNow THEN SendEmptyAck(d)
                        ELSE [d EXCEPT !.p = [d.p EXCEPT !.nagleMemErr = FALSE]]
  <1>1. IsPcb(p)
    BY DEF IsContext
  <1>2. /\ IsPcb(q1) /\ (p.unacked = <<>> => Unmoved(p, q1))
        /\ q1.unsent = p.unsent /\ q1.unacked = p.unacked
        /\ IsPcb(q2) /\ Unmoved(p, q2) /\ q2.unsent = p.unsent /\ q2.unacked = p.unacked
        /\ ~q2.persist
    <2>1. 0 \in Probes
      BY TcpAssumption DEF Probes
    <2> QED BY ZenonT(60), <1>1, <2>1 DEF IsPcb, PcbFields, Unmoved, Timed
  <1> DEFINE Sent(d) == Sends(c, d) /\ (Waiting(p) => Waiting(d.p))
  <1>3. ASSUME NEW d, Sent(d) PROVE Sent(Done(d))
    <2> DEFINE q == [d.p EXCEPT !.nagleMemErr = FALSE]
    <2>1. /\ IsPcb(q) /\ Unmoved(d.p, q) /\ IsContext(d)
          /\ q.unsent = d.p.unsent /\ q.unacked = d.p.unacked
      BY ZenonT(60), <1>3 DEF Sends, IsContext, IsPcb, PcbFields, Unmoved, Timed
    <2> HIDE DEF q
    <2>2. /\ Sends(d, [d EXCEPT !.p = q]) /\ [d EXCEPT !.p = q].p = q
          /\ Sends(d, SendEmptyAck(d)) /\ (Waiting(d.p) => Waiting(SendEmptyAck(d).p))
      BY <2>1, MovesPcb, SendEmptyAckSends DEF Waiting, IsContext, ContextFields
    <2>3. Sends(c, [d EXCEPT !.p = q]) /\ Sends(c, SendEmptyAck(d))
      BY <1>3, <2>2, SendsTwice
    <2> QED BY <1>3, <2>1, <2>2, <2>3 DEF q, Waiting
  <1>4. Sent(c)
    BY DEF Sends, Unmoved
  <1>5. (p.unacked = <<>> => Sent(blocked)) /\ Sent([c EXCEPT !.p = q2])
    <2> HIDE DEF q1, q2
    <2>1. (p.unacked = <<>> => Sends(c, blocked)) /\ Sends(c, [c EXCEPT !.p = q2])
      BY <1>2, MovesPcb
    <2>2. blocked.p = q1 /\ [c EXCEPT !.p = q2].p = q2
      BY DEF IsContext, ContextFields
    <2> QED BY <1>2, <2>1, <2>2 DEF Waiting
  <1>6. Sent(Transmit([c EXCEPT !.p = q2], Sendable(p)))
    <2> DEFINE d == [c EXCEPT !.p = q2]
    <2>1. IsContext(d) /\ d.p = q2
      BY <1>5 DEF Sends, IsContext, ContextFields
    <2>2. Len(p.unsent) \in Nat
      BY <1>1, QueueTypes DEF IsPcb
    <2>3. Sendable(p) \in 0 .. Len(p.unsent)
      BY <2>2, SendableType
    <2>4. Sendable(p) \in 0 .. Len(d.p.unsent) /\ ~d.p.persist
      BY <1>2, <2>1, <2>3
    <2> HIDE DEF d
    <2>5. /\ Sends(d, Transmit(d, Sendable(p)))
          /\ Waiting(d.p) => Waiting(Transmit(d, Sendable(p)).p)
      BY <2>1, <2>4, TransmitSends
    <2>6. Sent(d)
      BY <1>5 DEF d
    <2> HIDE DEF p
    <2>7. Sent(Transmit(d, Sendable(p)))
      BY <2>5, <2>6, SendsTwice
    <2> QED BY <2>7 DEF d
  <1>7. \/ Output(c) = Done(c)
        \/ p.unacked = <<>> /\ Output(c) = Done(blocked)
        \/ Output(c) = Transmit([c EXCEPT !.p = q2], Sendable(p))
    <2> DEFINE starts == AtMost(p.snd_wnd, p.cwnd) = p.snd_wnd /\ p.unacked = <<>> /\ ~p.persist
    <2>2. starts => p.unacked = <<>>
      OBVIOUS
    <2> HIDE DEF starts
    <2>1. Output(c) =
            CASE p.unsent = <<>> -> Done(c)
              [] p.unsent # <<>> /\ ~Fits(p, Head(p.unsent)) -> Done(IF starts THEN blocked ELSE c)
              [] OTHER -> Transmit([c EXCEPT !.p = q2], Sendable(p))
      BY DEF Output, starts
    <2> HIDE DEF Done, blocked, q2, p
    <2> QED BY <2>1, <2>2
  <1>8. Sent(Output(c))
    <2> HIDE DEF Done, blocked, Sent
    <2> QED BY <1>3, <1>4, <1>5, <1>6, <1>7
  <1> QED BY <1>8

-----------------------------------------------------------------------------
(* Retransmission, and acknowledgements that are taken.                     *)

LEMMA SeqNat == \A x \in Seqs : x \in Nat /\ x \in Int
  BY DEF Seqs

\* tcp_enqueue_flags.
LEMMA EnqueueFlagsSends ==
    ASSUME NEW c, IsContext(c), NEW syn \in BOOLEAN, NEW fin \in BOOLEAN
    PROVE  Sends(c, EnqueueFlags(c, syn, fin))
  <1> DEFINE p == c.p
             s == [seq |-> p.snd_lbb, data |-> <<>>, syn |-> syn, fin |-> fin]
             unsent == Append(p.unsent, s)
             lbb == Add(p.snd_lbb, 1)
             f == p.fin \/ fin
             q == [p EXCEPT !.unsent = unsent, !.snd_lbb = lbb, !.fin = f]
  <1>1. IsPcb(p) /\ p.unsent \in Queues /\ p.snd_lbb \in Seqs
    BY DEF IsContext, IsPcb
  <1>2. s \in Segments
    BY <1>1, EmptyText DEF Segments
  <1>3. unsent \in Queues /\ lbb \in Seqs /\ f \in BOOLEAN
    <2>1. p.snd_lbb \in Int /\ 1 \in Int
      BY <1>1 DEF Seqs
    <2> HIDE DEF s
    <2> QED BY <1>1, <1>2, <2>1, QueueTypes, SeqNumber
  <1>4. EnqueueFlags(c, syn, fin) = [c EXCEPT !.p = q]
    BY DEF EnqueueFlags
  <1> HIDE DEF unsent, lbb, f
  <1>5. IsPcb(q) /\ Unmoved(p, q)
    BY ZenonT(60), <1>1, <1>3 DEF IsPcb, PcbFields, Unmoved, Timed
  <1> HIDE DEF q
  <1> QED BY <1>4, <1>5, MovesPcb

\* tcp_send_fin.
LEMMA SendFinSends ==
    ASSUME NEW c, IsContext(c)
    PROVE  Sends(c, SendFin(c))
  <1> DEFINE p == c.p
             n == Len(p.unsent)
             s == [p.unsent[n] EXCEPT !.fin = TRUE]
             unsent == [p.unsent EXCEPT ![n] = s]
             q == [p EXCEPT !.unsent = unsent, !.fin = TRUE]
  <1>1. IsPcb(p) /\ p.unsent \in Queues /\ n \in Nat
    BY QueueTypes DEF IsContext, IsPcb
  <1>2. CASE n > 0 /\ ~p.unsent[n].syn /\ ~p.unsent[n].fin
    <2>1. p.unsent[n] \in Segments
      BY <1>1, <1>2, QueueTypes
    <2>2. s \in Segments
      BY <2>1 DEF Segments
    <2> HIDE DEF s
    <2>3. unsent \in Queues
      BY <1>1, <1>2, <2>2 DEF Queues
    <2>4. SendFin(c) = [c EXCEPT !.p = q]
      BY <1>2 DEF SendFin, s
    <2> HIDE DEF unsent
    <2>5. IsPcb(q) /\ Unmoved(p, q)
      BY <1>1, <2>3 DEF IsPcb, PcbFields, Unmoved, Timed
    <2> HIDE DEF q
    <2> QED BY <2>4, <2>5, MovesPcb
  <1>3. CASE ~(n > 0 /\ ~p.unsent[n].syn /\ ~p.unsent[n].fin)
    <2>1. SendFin(c) = EnqueueFlags(c, FALSE, TRUE)
      BY <1>3 DEF SendFin
    <2> QED BY <2>1, EnqueueFlagsSends
  <1> QED BY <1>2, <1>3

LEMMA MoreType == ASSUME NEW n \in Bytes PROVE More(n) \in Bytes
  BY DEF More, AtMost, Bytes

\* tcp_rexmit_rto.
LEMMA RexmitRtoSends ==
    ASSUME NEW c, IsContext(c)
    PROVE  Sends(c, RexmitRto(c)) /\ (Waiting(c.p) => Waiting(RexmitRto(c).p))
  <1> DEFINE p == c.p
             unsent == p.unacked \o p.unsent
             nrtx == More(p.nrtx)
             q == [p EXCEPT !.unsent = unsent, !.unacked = <<>>, !.cwnd = Mss,
                            !.rtime = TRUE, !.nrtx = nrtx]
  <1>1. IsPcb(p)
    BY DEF IsContext
  <1>2. unsent \in Queues /\ <<>> \in Queues /\ nrtx \in Bytes /\ Mss \in CongestionWindows
    <2>1. Mss \in CongestionWindows
      BY TcpAssumption DEF CongestionWindows
    <2>2. p.unacked \in Queues /\ p.unsent \in Queues /\ p.nrtx \in Bytes
      BY <1>1 DEF IsPcb
    <2> QED BY <2>1, <2>2, QueueTypes, MoreType
  <1>3. RexmitRto(c) = Output([c EXCEPT !.p = q])
    BY DEF RexmitRto
  <1> HIDE DEF unsent, nrtx
  <1>4. IsPcb(q) /\ Unmoved(p, q)
    BY ZenonT(60), <1>1, <1>2 DEF IsPcb, PcbFields, Unmoved, Timed
  <1>8. Waiting(p) => Waiting(q)
    <2>1. p.unacked \in Queues /\ p.unsent \in Queues
      BY <1>1 DEF IsPcb
    <2>2. Waiting(p) => unsent # <<>>
      BY <2>1, QueueTypes DEF Waiting, unsent
    <2>3. q.unsent = unsent
      BY <1>1 DEF IsPcb, PcbFields
    <2> QED BY <2>2, <2>3 DEF Waiting
  <1> HIDE DEF q
  <1> DEFINE d == [c EXCEPT !.p = q]
  <1>5. Sends(c, d) /\ d.p = q
    BY <1>4, MovesPcb DEF IsContext, ContextFields
  <1>6. RexmitRto(c) = Output(d)
    BY <1>3
  <1> HIDE DEF d
  <1>7. Sends(d, Output(d)) /\ (Waiting(d.p) => Waiting(Output(d).p))
    BY <1>5, OutputSends DEF Sends
  <1> QED BY <1>8, <1>5, <1>6, <1>7, SendsTwice

\* A change of the pcb that sending may make.
Queued(p, q) == IsPcb(q) /\ Unmoved(p, q)

\* tcp_rexmit.
LEMMA RexmitQueued ==
    ASSUME NEW p, IsPcb(p)
    PROVE  Queued(p, Rexmit(p))
  <1> DEFINE unacked == Tail(p.unacked)
             nrtx == More(p.nrtx)
             unsent == Insert(p.unsent, Head(p.unacked))
             q == [p EXCEPT !.unacked = unacked, !.nrtx = nrtx, !.unsent = unsent]
  <1>1. CASE p.unacked = <<>>
    BY <1>1 DEF Rexmit, Queued, Unmoved
  <1>2. CASE p.unacked # <<>>
    <2>1. unacked \in Queues /\ nrtx \in Bytes /\ unsent \in Queues
      BY <1>2, QueueTypes, MoreType DEF IsPcb
    <2>2. Rexmit(p) = q
      BY <1>2 DEF Rexmit
    <2> HIDE DEF unacked, nrtx, unsent
    <2>3. IsPcb(q) /\ Unmoved(p, q)
      BY ZenonT(60), <1>2, <2>1 DEF IsPcb, PcbFields, Unmoved, Timed
    <2> QED BY <2>2, <2>3 DEF Queued
  <1> QED BY <1>1, <1>2

\* tcp_rexmit_fast: it starts the retransmission timer for what is left.
LEMMA RexmitFastQueued ==
    ASSUME NEW p, IsPcb(p)
    PROVE  Queued(p, RexmitFast(p))
  <1> DEFINE r == Rexmit(p)
             q == [r EXCEPT !.cwnd = TcpWnd, !.infr = TRUE, !.rtime = TRUE]
  <1>1. IsPcb(r) /\ Unmoved(p, r) /\ TcpWnd \in CongestionWindows
    BY RexmitQueued, TcpAssumption DEF Queued, CongestionWindows
  <1>2. RexmitFast(p) = p \/ RexmitFast(p) = q
    BY DEF RexmitFast
  <1> HIDE DEF r
  <1>3. IsPcb(q) /\ Unmoved(p, q)
    BY ZenonT(60), <1>1 DEF IsPcb, PcbFields, Unmoved, Timed
  <1>4. Queued(p, p)
    BY DEF Queued, Unmoved
  <1> HIDE DEF q
  <1> QED BY <1>2, <1>3, <1>4 DEF Queued

\* The type of a segment under way.
LEMMA MessageFields ==
    ASSUME NEW m \in Messages
    PROVE  /\ m.seq \in Seqs /\ m.data \in Texts /\ m.syn \in BOOLEAN /\ m.fin \in BOOLEAN
           /\ m.rst \in BOOLEAN /\ m.isAck \in BOOLEAN /\ m.ack \in Seqs /\ m.wnd \in Seqs
           /\ m.seq \in Int /\ m.ack \in Int
           /\ TcpLen(m) \in Nat /\ Len(m.data) \in 0 .. Mss
           /\ Add(m.seq, TcpLen(m)) \in Seqs
  <1>1. /\ m.seq \in Seqs /\ m.data \in Texts /\ m.syn \in BOOLEAN /\ m.fin \in BOOLEAN
        /\ m.rst \in BOOLEAN /\ m.isAck \in BOOLEAN /\ m.ack \in Seqs /\ m.wnd \in Seqs
    BY DEF Messages
  <1>2. m.seq \in Int /\ m.ack \in Int
    BY <1>1 DEF Seqs
  <1>3. TcpLen(m) \in Nat /\ Len(m.data) \in 0 .. Mss
    <2> DEFINE one == IF m.syn \/ m.fin THEN 1 ELSE 0
    <2>1. Len(m.data) \in 0 .. Mss
      BY <1>1, TextOf
    <2>2. one \in Nat /\ TcpLen(m) = Len(m.data) + one
      BY DEF TcpLen
    <2> HIDE DEF one
    <2> QED BY <2>1, <2>2
  <1>4. Add(m.seq, TcpLen(m)) \in Seqs
    BY <1>2, <1>3, SeqNumber
  <1> QED BY <1>1, <1>2, <1>3, <1>4

\* tcp_receive: the window, an old acknowledgement, a new one, and all of it.
LEMMA TakeWindowQueued ==
    ASSUME NEW p, IsPcb(p), NEW m \in Messages
    PROVE  Queued(p, TakeWindow(p, m))
  <1> DEFINE q == [p EXCEPT !.snd_wnd = m.wnd, !.snd_wl1 = m.seq, !.snd_wl2 = m.ack]
  <1>1. IsPcb(q) /\ Unmoved(p, q)
    BY ZenonT(60), MessageFields DEF IsPcb, PcbFields, Unmoved, Timed
  <1>2. Queued(p, p)
    BY DEF Queued, Unmoved
  <1>3. TakeWindow(p, m) = p \/ TakeWindow(p, m) = q
    BY DEF TakeWindow
  <1> HIDE DEF q
  <1> QED BY <1>1, <1>2, <1>3 DEF Queued

LEMMA TakeOldAckQueued ==
    ASSUME NEW p, IsPcb(p), NEW m \in Messages, NEW moved
    PROVE  Queued(p, TakeOldAck(p, m, moved))
  <1> DEFINE n == AtMost(p.dupacks + 1, DupAckThreshold)
             q == [p EXCEPT !.dupacks = n]
             r == [p EXCEPT !.dupacks = 0]
  <1>1. n \in DupAcks /\ 0 \in DupAcks
    BY TcpAssumption DEF IsPcb, DupAcks, AtMost
  <1>2. \/ TakeOldAck(p, m, moved) = RexmitFast(q)
        \/ TakeOldAck(p, m, moved) = q
        \/ TakeOldAck(p, m, moved) = r
    BY DEF TakeOldAck
  <1> HIDE DEF n
  <1>3. IsPcb(q) /\ Unmoved(p, q) /\ IsPcb(r) /\ Unmoved(p, r)
    BY ZenonT(60), <1>1 DEF IsPcb, PcbFields, Unmoved, Timed
  <1> HIDE DEF q, r
  <1>4. Queued(q, RexmitFast(q))
    BY <1>3, RexmitFastQueued
  <1> QED BY <1>2, <1>3, <1>4 DEF Queued, Unmoved

LEMMA TakeNewAckQueued ==
    ASSUME NEW p, IsPcb(p), NEW m \in Messages
    PROVE  Queued(p, TakeNewAck(p, m))
  <1> DEFINE unacked == FreeAcked(p.unacked, m.ack)
             unsent == FreeAcked(p.unsent, m.ack)
             acked == Distance(p.lastack, m.ack)
             cwnd == IF p.infr THEN TcpWnd
                     ELSE IF p.state \in Opening THEN p.cwnd
                     ELSE AtMost(p.cwnd + acked, TcpWnd)
             rtime == unacked # <<>>
             q == [p EXCEPT !.infr = FALSE, !.nrtx = 0, !.dupacks = 0, !.lastack = m.ack,
                            !.cwnd = cwnd, !.unacked = unacked, !.unsent = unsent,
                            !.rtime = rtime]
  <1>1. unacked \in Queues /\ unsent \in Queues /\ rtime \in BOOLEAN
    BY QueueTypes DEF IsPcb
  <1>6. unacked # <<>> => rtime /\ p.unacked # <<>>
    BY DEF FreeAcked
  <1>2. cwnd \in CongestionWindows
    <2>1. p.lastack \in Int /\ m.ack \in Int
      <3>1. p.lastack \in Seqs /\ m.ack \in Seqs
        BY MessageFields DEF IsPcb
      <3> QED BY <3>1 DEF Seqs
    <2>2. acked \in Nat
      BY <2>1, SeqNumber, SeqNat
    <2>3. p.cwnd \in CongestionWindows
      BY DEF IsPcb
    <2> HIDE DEF acked
    <2>4. AtMost(p.cwnd + acked, TcpWnd) \in CongestionWindows /\ TcpWnd \in CongestionWindows
      BY <2>2, <2>3, TcpAssumption DEF CongestionWindows, AtMost
    <2> QED BY <2>3, <2>4
  <1>3. 0 \in Bytes /\ 0 \in DupAcks /\ m.ack \in Seqs
    BY TcpAssumption, MessageFields DEF Bytes, DupAcks
  <1>4. TakeNewAck(p, m) = q
    BY DEF TakeNewAck
  <1> HIDE DEF unacked, unsent, cwnd, rtime
  <1>5. IsPcb(q) /\ Unmoved(p, q)
    <2> DEFINE r == [p EXCEPT !.infr = FALSE, !.nrtx = 0, !.dupacks = 0, !.lastack = m.ack]
    <2>1. IsPcb(r) /\ Unmoved(p, r) /\ r.unacked = p.unacked
      BY ZenonT(60), <1>3 DEF IsPcb, PcbFields, Unmoved, Timed
    <2>2. q = [r EXCEPT !.cwnd = cwnd, !.unacked = unacked, !.unsent = unsent, !.rtime = rtime]
      OBVIOUS
    <2> HIDE DEF q, r
    <2>3. IsPcb(q) /\ Unmoved(r, q)
      BY ZenonT(60), <1>1, <1>2, <1>6, <2>1, <2>2 DEF IsPcb, PcbFields, Unmoved, Timed
    <2> QED BY <2>1, <2>3 DEF Unmoved
  <1> QED BY <1>4, <1>5 DEF Queued

LEMMA TakeAckSends ==
    ASSUME NEW c, IsContext(c), NEW m \in Messages
    PROVE  Sends(c, TakeAck(c, m))
  <1> DEFINE p == TakeWindow(c.p, m)
             moved == Add(p.snd_wl2, p.snd_wnd) # Add(c.p.snd_wl2, c.p.snd_wnd)
             o == TakeOldAck(p, m, moved)
             n == TakeNewAck(p, m)
             d == [c EXCEPT !.p = p]
  <1>1. IsPcb(c.p)
    BY DEF IsContext
  <1>2. IsPcb(p) /\ Unmoved(c.p, p)
    BY <1>1, TakeWindowQueued DEF Queued
  <1>3. \/ TakeAck(c, m) = c
        \/ TakeAck(c, m) = [c EXCEPT !.p = o]
        \/ TakeAck(c, m) = [c EXCEPT !.p = n]
        \/ TakeAck(c, m) = SendEmptyAck(d)
    <2>1. TakeAck(c, m) =
            CASE ~m.isAck -> c
              [] m.isAck /\ LEQ(m.ack, p.lastack) -> [c EXCEPT !.p = o]
              [] m.isAck /\ ~LEQ(m.ack, p.lastack)
                   /\ Between(m.ack, Add(p.lastack, 1), p.snd_nxt) -> [c EXCEPT !.p = n]
              [] OTHER -> SendEmptyAck(d)
      BY DEF TakeAck
    <2> HIDE DEF o, n, d, p
    <2> QED BY <2>1
  <1> HIDE DEF p, moved
  <1>4. Queued(p, o) /\ Queued(p, n)
    BY <1>2, TakeOldAckQueued, TakeNewAckQueued
  <1>5. IsPcb(o) /\ Unmoved(c.p, o) /\ IsPcb(n) /\ Unmoved(c.p, n)
    BY <1>2, <1>4 DEF Queued, Unmoved
  <1>6. Sends(c, d)
    BY <1>2, MovesPcb
  <1> HIDE DEF o, n, d
  <1>7. Sends(d, SendEmptyAck(d))
    BY <1>6, SendEmptyAckSends DEF Sends
  <1>8. Sends(c, SendEmptyAck(d))
    BY <1>6, <1>7, SendsTwice
  <1>9. Sends(c, c)
    BY DEF Sends, Unmoved
  <1>10. Sends(c, [c EXCEPT !.p = o]) /\ Sends(c, [c EXCEPT !.p = n])
    BY <1>5, MovesPcb
  <1> QED BY <1>3, <1>8, <1>9, <1>10

-----------------------------------------------------------------------------
(* Text that is taken.                                                      *)

LEMMA WindowNat == \A n \in Windows : n \in Nat /\ n \in Int /\ n <= TcpWnd /\ n \in Seqs
  BY TcpAssumption DEF Windows, Seqs

\* tcp_update_rcv_ann_wnd.
LEMMA UpdateAnnWndQueued ==
    ASSUME NEW p, IsPcb(p)
    PROVE  /\ Queued(p, UpdateAnnWnd(p))
           /\ UpdateAnnWnd(p).ackNow = p.ackNow /\ UpdateAnnWnd(p).ackDelay = p.ackDelay
  <1> DEFINE v == IF WorthTelling(p) THEN p.rcv_wnd
                  ELSE IF LT(p.edge, p.rcv_nxt) THEN 0
                  ELSE Distance(p.rcv_nxt, p.edge)
             q == [p EXCEPT !.rcv_ann_wnd = v]
  <1>1. UpdateAnnWnd(p) = q
    BY DEF UpdateAnnWnd
  <1>2. v \in Seqs
    <2>1. p.rcv_wnd \in Seqs /\ 0 \in Seqs
      BY WindowNat, TcpAssumption DEF IsPcb, Seqs
    <2>2. p.rcv_nxt \in Int /\ p.edge \in Int
      BY SeqNat DEF IsPcb
    <2>3. Distance(p.rcv_nxt, p.edge) \in Seqs
      BY <2>2, SeqNumber
    <2> QED BY <2>1, <2>3
  <1> HIDE DEF v
  <1>3. IsPcb(q) /\ Unmoved(p, q) /\ q.ackNow = p.ackNow /\ q.ackDelay = p.ackDelay
    BY <1>2 DEF IsPcb, PcbFields, Unmoved, Timed
  <1> QED BY <1>1, <1>3 DEF Queued

\* How much of the stream a text is.
TextLen(t) == Len(t.data) + IF t.fin THEN 1 ELSE 0

LEMMA TextLenType ==
    ASSUME NEW t \in Refusals
    PROVE  /\ t.data \in Texts /\ t.fin \in BOOLEAN /\ Len(t.data) \in Nat /\ t.data \in Seq(Nat)
           /\ TextLen(t) \in Nat
           /\ TextLen(t) = IF t.fin THEN Len(t.data) + 1 ELSE Len(t.data)
  <1>1. t.data \in Texts /\ t.fin \in BOOLEAN
    BY DEF Refusals
  <1>2. Len(t.data) \in Nat /\ t.data \in Seq(Nat)
    BY <1>1, TextOf
  <1> DEFINE one == IF t.fin THEN 1 ELSE 0
  <1>3. TextLen(t) = Len(t.data) + one
    BY DEF TextLen
  <1>4. (t.fin => one = 1) /\ (~t.fin => one = 0)
    OBVIOUS
  <1> HIDE DEF one
  <1>5. (t.fin => TextLen(t) = Len(t.data) + 1) /\ (~t.fin => TextLen(t) = Len(t.data))
    BY <1>2, <1>3, <1>4
  <1> QED BY <1>1, <1>2, <1>5

LEMMA NothingType ==
    Nothing \in Refusals /\ Nothing.data = <<>> /\ Nothing.fin = FALSE /\ TextLen(Nothing) = 0
  <1>1. Nothing \in Refusals /\ Nothing.data = <<>> /\ Nothing.fin = FALSE
    BY EmptyText DEF Nothing, Refusals
  <1> QED BY <1>1, TextLenType

\* What a step of tcp_receive leaves alone, and what it takes: text, as far as it
\* moves rcv_nxt.
Leaves(c, d) ==
    /\ IsContext(d) /\ (Timed(c.p) => Timed(d.p))
    /\ d.p.state = c.p.state /\ d.p.refused = c.p.refused
    /\ d.p.rxClosed = c.p.rxClosed /\ d.p.closePend = c.p.closePend
    /\ d.p.backlogPend = c.p.backlogPend
    /\ d.app = c.app /\ d.pending = c.pending /\ d.freed = c.freed /\ d.down = c.down

TakesUpTo(c, d) == d.p.rcv_nxt = Add(c.p.rcv_nxt, TextLen(d.text))

LEMMA SendsLeaves ==
    ASSUME NEW c, NEW d, Sends(c, d)
    PROVE  Leaves(c, d) /\ d.text = c.text /\ d.p.rcv_nxt = c.p.rcv_nxt
  BY DEF Sends, Unmoved, Leaves

\* tcp_receive: text that begins at rcv_nxt is taken, and rcv_nxt moves by it.
LEMMA TakeInOrderTakes ==
    ASSUME NEW c, IsContext(c), NEW data \in Texts, NEW fin \in BOOLEAN
    PROVE  Leaves(c, TakeInOrder(c, data, fin)) /\ TakesUpTo(c, TakeInOrder(c, data, fin))
  <1> DEFINE p == c.p
             cut == Len(data) + (IF fin THEN 1 ELSE 0) > p.rcv_wnd
             text == IF cut THEN [data |-> SubSeq(data, 1, p.rcv_wnd), fin |-> FALSE]
                     ELSE [data |-> data, fin |-> fin]
             len == Len(text.data) + IF text.fin THEN 1 ELSE 0
             next == Add(p.rcv_nxt, len)
             wnd == p.rcv_wnd - len
             q == [p EXCEPT !.rcv_nxt = next, !.rcv_wnd = wnd]
             u == UpdateAnnWnd(q)
             ackNow == u.ackNow \/ p.ackDelay
             ackDelay == ~p.ackDelay
             r == [u EXCEPT !.ackNow = ackNow, !.ackDelay = ackDelay]
             d == [c EXCEPT !.text = text, !.p = r]
  <1>1. TakeInOrder(c, data, fin) = d
    BY DEF TakeInOrder
  <1>2. IsPcb(p) /\ p.rcv_wnd \in Nat /\ p.rcv_wnd \in Windows /\ p.rcv_nxt \in Int
    BY WindowNat, SeqNat DEF IsContext, IsPcb
  <1>3. data \in Seq(Nat) /\ Len(data) \in Nat
    BY TextOf
  <1>4. text \in Refusals /\ len = TextLen(text) /\ len \in 0 .. p.rcv_wnd
    <2>1. CASE cut
      <3>1. p.rcv_wnd \in Int /\ p.rcv_wnd <= Len(data)
        <4> DEFINE one == IF fin THEN 1 ELSE 0
        <4>1. one \in 0 .. 1 /\ Len(data) + one > p.rcv_wnd
          BY <2>1
        <4> HIDE DEF one
        <4> QED BY <1>2, <1>3, <4>1
      <3>2. SubSeq(data, 1, p.rcv_wnd) \in Texts
        BY <3>1, CutText
      <3>3. Len(SubSeq(data, 1, p.rcv_wnd)) = p.rcv_wnd
        BY <1>2, <1>3, <3>1, SubSeqType
      <3>4. text = [data |-> SubSeq(data, 1, p.rcv_wnd), fin |-> FALSE]
        BY <2>1
      <3> HIDE DEF text
      <3>5. text \in Refusals /\ text.fin = FALSE /\ Len(text.data) = p.rcv_wnd
        BY <3>2, <3>3, <3>4 DEF Refusals
      <3>6. len = TextLen(text)
        BY DEF TextLen
      <3> HIDE DEF len
      <3>7. TextLen(text) = Len(text.data)
        BY <3>5, TextLenType
      <3> QED BY <1>2, <3>5, <3>6, <3>7
    <2>2. CASE ~cut
      <3>1. text = [data |-> data, fin |-> fin]
        BY <2>2
      <3>2. len = TextLen(text)
        BY DEF TextLen
      <3> DEFINE one == IF fin THEN 1 ELSE 0
      <3>3. one \in 0 .. 1 /\ Len(data) + one <= p.rcv_wnd
        BY <1>2, <1>3, <2>2
      <3> HIDE DEF text
      <3>4. text \in Refusals /\ TextLen(text) = Len(data) + one
        BY <3>1 DEF Refusals, TextLen
      <3> HIDE DEF len, one
      <3> QED BY <1>2, <1>3, <3>2, <3>3, <3>4
    <2> QED BY <2>1, <2>2
  <1> HIDE DEF text, len, cut
  <1>5. next \in Seqs /\ wnd \in Windows
    <2>1. len \in Int
      BY <1>4
    <2>2. next \in Seqs
      BY <1>2, <2>1, SeqNumber
    <2>3. wnd \in Windows
      BY <1>2, <1>4, TcpAssumption DEF Windows
    <2> QED BY <2>2, <2>3
  <1> HIDE DEF next, wnd
  <1>6. /\ IsPcb(q) /\ q.rcv_nxt = next
        /\ q.state = p.state /\ q.refused = p.refused /\ q.rxClosed = p.rxClosed
        /\ q.closePend = p.closePend /\ q.backlogPend = p.backlogPend
        /\ Timed(p) => Timed(q)
    BY ZenonT(60), <1>2, <1>5 DEF IsPcb, PcbFields, Timed
  <1> HIDE DEF q
  <1>7. IsPcb(u) /\ Unmoved(q, u) /\ ackNow \in BOOLEAN /\ ackDelay \in BOOLEAN
    BY <1>6, UpdateAnnWndQueued DEF Queued
  <1> HIDE DEF u, ackNow, ackDelay
  <1>8. IsPcb(r) /\ Unmoved(u, r)
    BY ZenonT(60), <1>7 DEF IsPcb, PcbFields, Unmoved, Timed
  <1> HIDE DEF r
  <1>9. IsContext(d) /\ d.p = r /\ d.text = text /\ d.app = c.app /\ d.pending = c.pending
        /\ d.freed = c.freed /\ d.down = c.down
    BY <1>4, <1>8 DEF IsContext, ContextFields
  <1> HIDE DEF d
  <1>10. Leaves(c, d)
    BY <1>6, <1>7, <1>8, <1>9 DEF Leaves, Unmoved
  <1>11. TakesUpTo(c, d)
    BY <1>4, <1>6, <1>7, <1>8, <1>9 DEF TakesUpTo, Unmoved, next
  <1> QED BY <1>1, <1>10, <1>11

\* tcp_receive: text from anywhere.
LEMMA TakeTextTakes ==
    ASSUME NEW c, IsContext(c), NEW m \in Messages
    PROVE  /\ Leaves(c, TakeText(c, m))
           /\ \/ TakeText(c, m).text = c.text /\ TakeText(c, m).p.rcv_nxt = c.p.rcv_nxt
              \/ TcpLen(m) > 0 /\ c.p.state \in TakesText /\ TakesUpTo(c, TakeText(c, m))
  <1> DEFINE p == c.p
             old == IF Between(p.rcv_nxt, Add(m.seq, 1), Add(m.seq, TcpLen(m) - 1))
                    THEN Distance(m.seq, p.rcv_nxt) ELSE 0
             seq == Add(m.seq, old)
             d == IF old = 0 /\ LT(seq, p.rcv_nxt) THEN AckNow(c) ELSE c
             data == SubSeq(m.data, old + 1, Len(m.data))
  <1>1. \/ TcpLen(m) > 0 /\ p.state \in TakesText /\ TakeText(c, m) = TakeInOrder(d, data, m.fin)
        \/ TakeText(c, m) \in {SendEmptyAck(d), c, AckNow(c)}
    BY DEF TakeText
  <1>2. old \in Nat
    <2>1. p.rcv_nxt \in Int /\ m.seq \in Int
      BY SeqNat, MessageFields DEF IsContext, IsPcb
    <2>2. Distance(m.seq, p.rcv_nxt) \in Nat
      BY <2>1, SeqNumber, SeqNat
    <2> QED BY <2>2
  <1>3. data \in Texts
    <2>1. old + 1 \in Int /\ old + 1 >= 1
      BY <1>2
    <2>2. m.data \in Texts /\ Len(m.data) \in Int /\ Len(m.data) <= Len(m.data)
      BY MessageFields
    <2> HIDE DEF old
    <2> QED BY <2>1, <2>2, CutText
  <1>4. Sends(c, AckNow(c)) /\ Sends(c, c)
    BY AckNowSends DEF Sends, Unmoved
  <1>5. Sends(c, d)
    BY <1>4
  <1> HIDE DEF d, data
  <1>6. Sends(c, SendEmptyAck(d))
    <2>1. Sends(d, SendEmptyAck(d))
      BY <1>5, SendEmptyAckSends DEF Sends
    <2> QED BY <1>5, <2>1, SendsTwice
  <1>7. CASE TakeText(c, m) \in {SendEmptyAck(d), c, AckNow(c)}
    BY <1>4, <1>6, <1>7, SendsLeaves
  <1>8. CASE TcpLen(m) > 0 /\ p.state \in TakesText /\ TakeText(c, m) = TakeInOrder(d, data, m.fin)
    <2> DEFINE t == TakeInOrder(d, data, m.fin)
    <2>1. m.fin \in BOOLEAN /\ IsContext(d)
      BY <1>5, MessageFields DEF Sends
    <2>2. Leaves(d, t) /\ TakesUpTo(d, t)
      BY <1>3, <2>1, TakeInOrderTakes
    <2> HIDE DEF t
    <2>3. Leaves(c, t) /\ TakesUpTo(c, t)
      BY <1>5, <2>2 DEF Leaves, TakesUpTo, Sends, Unmoved
    <2> QED BY <1>8, <2>3 DEF t
  <1> QED BY <1>1, <1>7, <1>8

\* tcp_receive.
LEMMA ReceiveTakes ==
    ASSUME NEW c, IsContext(c), NEW m \in Messages
    PROVE  /\ Leaves(c, Receive(c, m))
           /\ \/ Receive(c, m).text = c.text /\ Receive(c, m).p.rcv_nxt = c.p.rcv_nxt
              \/ TcpLen(m) > 0 /\ c.p.state \in TakesText /\ TakesUpTo(c, Receive(c, m))
  <1> DEFINE a == TakeAck(c, m)
             d == TakeText(a, m)
  <1>1. Sends(c, a) /\ IsContext(a)
    BY TakeAckSends DEF Sends
  <1> HIDE DEF a
  <1>2. /\ Leaves(a, d)
        /\ \/ d.text = a.text /\ d.p.rcv_nxt = a.p.rcv_nxt
           \/ TcpLen(m) > 0 /\ a.p.state \in TakesText /\ TakesUpTo(a, d)
    BY <1>1, TakeTextTakes
  <1>3. Receive(c, m) = d
    BY DEF Receive, a
  <1> HIDE DEF d
  <1>4. /\ Leaves(c, d)
        /\ \/ d.text = c.text /\ d.p.rcv_nxt = c.p.rcv_nxt
           \/ TcpLen(m) > 0 /\ c.p.state \in TakesText /\ TakesUpTo(c, d)
    BY <1>1, <1>2 DEF Leaves, TakesUpTo, Sends, Unmoved
  <1> QED BY <1>3, <1>4

-----------------------------------------------------------------------------
(* A host: its pcb and the application above it.                            *)

Early == {"CLOSED", "SYN_SENT", "SYN_RCVD"}
Ending == {"FIN_WAIT_1", "FIN_WAIT_2", "CLOSING", "LAST_ACK", "TIME_WAIT"}

\* What holds of a host's pcb and its application together.
HostOK(e, p, a) ==
    /\ Timed(p)
    /\ p.state \in Ending => a.use \in {"shut", "closed"}
    /\ p.state \notin Early => a.use \in {"open", "shut", "closed"}
    /\ p.state = "SYN_SENT" => a.use = "connecting" /\ Waiting(p)
    /\ p.state \in {"CLOSED", "SYN_RCVD"} /\ a.use \in {"connecting", "open"} => a.err
    /\ a.use \in {"idle", "connecting"} => ~a.eof /\ a.got = <<>>
    /\ p.state \in {"ESTABLISHED", "FIN_WAIT_1", "FIN_WAIT_2"} => ~a.eof /\ ~p.refused.fin
    /\ p.state \in Early => p.refused = Nothing /\ ~p.closePend /\ ~p.rxClosed
    /\ e \notin Refusers => p.refused = Nothing
    /\ p.closePend => a.use \in {"shut", "closed"}
    /\ p.rxClosed => a.use = "closed"
    /\ p.backlogPend => e = Server /\ p.state = "SYN_RCVD"
    /\ a.read <= Len(a.got) /\ a.wrote <= MaxWrite[e]

\* accepts_pending without the pcb's own share.
Owed(c) == c.pending - IF c.p.backlogPend THEN 1 ELSE 0

Right(e, c) == IsContext(c) /\ HostOK(e, c.p, c.app)

Beside(c, d) == d.app = c.app /\ d.text = c.text /\ d.freed = c.freed /\ d.down = c.down

\* The pcb goes on in its state.
Along(c, d) ==
    /\ IsContext(d) /\ Beside(c, d) /\ Owed(d) = Owed(c) /\ (Timed(c.p) => Timed(d.p))
    /\ d.p.state = c.p.state /\ d.p.rcv_nxt = c.p.rcv_nxt
    /\ d.p.rxClosed = c.p.rxClosed /\ d.p.closePend = c.p.closePend

\* The same application, but for the error it is told.
SameApp(a, b) ==
    /\ b.use = a.use /\ b.wrote = a.wrote /\ b.got = a.got /\ b.read = a.read
    /\ b.eof = a.eof /\ b.accepts = a.accepts

LEMMA PcbChange ==
    ASSUME NEW c, IsContext(c), NEW q, IsPcb(q)
    PROVE  /\ IsContext([c EXCEPT !.p = q]) /\ [c EXCEPT !.p = q].p = q
           /\ Beside(c, [c EXCEPT !.p = q])
           /\ [c EXCEPT !.p = q].pending = c.pending
  BY DEF IsContext, ContextFields, Beside

LEMMA AppChange ==
    ASSUME NEW c, IsContext(c), NEW a, IsApp(a)
    PROVE  /\ IsContext([c EXCEPT !.app = a]) /\ [c EXCEPT !.app = a].app = a
           /\ [c EXCEPT !.app = a].p = c.p /\ [c EXCEPT !.app = a].pending = c.pending
           /\ [c EXCEPT !.app = a].text = c.text /\ [c EXCEPT !.app = a].freed = c.freed
           /\ [c EXCEPT !.app = a].down = c.down
  BY DEF IsContext, ContextFields

LEMMA SendsAlong ==
    ASSUME NEW c, NEW d, Sends(c, d)
    PROVE  /\ Along(c, d) /\ d.p.refused = c.p.refused /\ d.p.backlogPend = c.p.backlogPend
           /\ d.pending = c.pending
  BY DEF Sends, Unmoved, Along, Beside, Owed

\* What tcp_alloc makes.
LEMMA NewPcbType ==
    /\ IsPcb(NewPcb) /\ NewPcb.state = "CLOSED" /\ NewPcb.refused = Nothing
    /\ ~NewPcb.rxClosed /\ ~NewPcb.closePend /\ ~NewPcb.backlogPend /\ Timed(NewPcb)
    /\ NewPcb.unacked = <<>>
  <1>1. 0 \in Seqs /\ TcpWnd \in Seqs /\ TcpWnd \in Windows /\ 1 \in CongestionWindows
    BY TcpAssumption DEF Seqs, Windows, CongestionWindows
  <1>2. 0 \in DupAcks /\ 0 \in Probes /\ 0 \in Bytes
    BY TcpAssumption DEF DupAcks, Probes, Bytes
  <1>3. <<>> \in Queues /\ Nothing \in Refusals /\ "CLOSED" \in States
    BY QueueTypes, NothingType DEF States
  <1> HIDE DEF Nothing
  <1>4. /\ NewPcb.state = "CLOSED" /\ NewPcb.refused = Nothing
        /\ ~NewPcb.rxClosed /\ ~NewPcb.closePend /\ ~NewPcb.backlogPend /\ Timed(NewPcb)
        /\ NewPcb.unacked = <<>>
    BY DEF NewPcb, Timed
  <1>5. IsPcb(NewPcb)
    BY <1>1, <1>2, <1>3 DEF NewPcb, IsPcb, PcbFields
  <1> QED BY <1>4, <1>5

LEMMA NewAppType == IsApp(NewApp) /\ NewApp.use = "idle" /\ NewApp.got = <<>>
                    /\ NewApp.wrote = 0 /\ NewApp.read = 0 /\ ~NewApp.eof /\ ~NewApp.err
  BY DEF NewApp, IsApp, AppFields, Uses

LEMMA SendsRight ==
    ASSUME NEW e, NEW c, Right(e, c), NEW d, Sends(c, d),
           c.p.state = "SYN_SENT" => Waiting(d.p)
    PROVE  Right(e, d)
  BY DEF Right, HostOK, Sends, Unmoved

\* tcp_backlog_accepted takes the pcb's own share of accepts_pending away.
LEMMA BacklogAcceptedAlong ==
    ASSUME NEW c, IsContext(c)
    PROVE  /\ Along(c, BacklogAccepted(c)) /\ ~BacklogAccepted(c).p.backlogPend
           /\ BacklogAccepted(c).p.refused = c.p.refused
  <1> DEFINE q == [c.p EXCEPT !.backlogPend = FALSE]
             d == [c EXCEPT !.p = q]
             f == [d EXCEPT !.pending = c.pending - 1]
  <1>1. CASE c.p.backlogPend
    <2>1. BacklogAccepted(c) = f
      BY <1>1 DEF BacklogAccepted
    <2>2. /\ IsPcb(q) /\ ~q.backlogPend /\ q.refused = c.p.refused /\ q.state = c.p.state
          /\ q.rcv_nxt = c.p.rcv_nxt /\ q.rxClosed = c.p.rxClosed /\ q.closePend = c.p.closePend
          /\ Timed(c.p) => Timed(q)
      BY DEF IsContext, IsPcb, PcbFields, Timed
    <2> HIDE DEF q
    <2>3. IsContext(d) /\ d.p = q /\ Beside(c, d) /\ d.pending = c.pending /\ c.pending \in Int
      BY <2>2, PcbChange DEF IsContext
    <2> HIDE DEF d
    <2>4. IsContext(f) /\ f.p = q /\ Beside(c, f) /\ f.pending = c.pending - 1
      BY SMTT(30), <2>3 DEF IsContext, ContextFields, Beside
    <2> HIDE DEF f
    <2>5. Owed(f) = Owed(c)
      BY <1>1, <2>2, <2>3, <2>4 DEF Owed
    <2> QED BY <2>1, <2>2, <2>4, <2>5 DEF Along
  <1>2. CASE ~c.p.backlogPend
    BY <1>2 DEF BacklogAccepted, Along, Beside
  <1> QED BY <1>1, <1>2

\* tcp_pcb_purge.
LEMMA PurgeAlong ==
    ASSUME NEW c, IsContext(c)
    PROVE  /\ Along(c, Purge(c))
           /\ c.p.state \in {"CLOSED", "TIME_WAIT"} => Purge(c) = c
           /\ c.p.state \notin {"CLOSED", "TIME_WAIT"} =>
                 Purge(c).p.refused = Nothing /\ ~Purge(c).p.backlogPend
  <1> DEFINE b == BacklogAccepted(c)
             q == [b.p EXCEPT !.refused = Nothing, !.rtime = FALSE,
                              !.unsent = <<>>, !.unacked = <<>>]
             d == [b EXCEPT !.p = q]
  <1>1. CASE c.p.state \in {"CLOSED", "TIME_WAIT"}
    BY <1>1 DEF Purge, Along, Beside
  <1>2. CASE c.p.state \notin {"CLOSED", "TIME_WAIT"}
    <2>1. Purge(c) = d
      BY <1>2 DEF Purge
    <2>2. Along(c, b) /\ ~b.p.backlogPend /\ IsContext(b) /\ IsPcb(b.p)
      BY BacklogAcceptedAlong DEF Along, IsContext
    <2> HIDE DEF b
    <2>3. /\ IsPcb(q) /\ ~q.backlogPend /\ q.refused = Nothing /\ q.state = b.p.state
          /\ q.rcv_nxt = b.p.rcv_nxt /\ q.rxClosed = b.p.rxClosed /\ q.closePend = b.p.closePend
          /\ Timed(q)
      BY ZenonT(60), <2>2, NothingType, QueueTypes DEF IsPcb, PcbFields, Timed
    <2> HIDE DEF q
    <2>4. IsContext(d) /\ d.p = q /\ Beside(b, d) /\ d.pending = b.pending
      BY <2>2, <2>3, PcbChange
    <2> HIDE DEF d
    <2>5. Owed(d) = Owed(c)
      BY <2>2, <2>3, <2>4 DEF Owed, Along
    <2> QED BY <1>2, <2>1, <2>2, <2>3, <2>4, <2>5 DEF Along, Beside
  <1> QED BY <1>1, <1>2

\* tcp_free, and the error the application is told.
LEMMA FreeType ==
    ASSUME NEW c, IsContext(c)
    PROVE  /\ IsContext(Free(c)) /\ Free(c).p = NewPcb /\ Free(c).freed
           /\ Free(c).app = c.app /\ Free(c).pending = c.pending /\ Free(c).down = c.down
           /\ Free(c).text = c.text
           /\ ~c.p.backlogPend => Owed(Free(c)) = Owed(c)
  <1>1. /\ IsContext(Free(c)) /\ Free(c).p = NewPcb /\ Free(c).freed
        /\ Free(c).app = c.app /\ Free(c).pending = c.pending /\ Free(c).down = c.down
        /\ Free(c).text = c.text
    <2>1. IsPcb(NewPcb)
      BY NewPcbType
    <2> QED BY <2>1 DEF Free, IsContext, ContextFields
  <1>2. ~c.p.backlogPend => Owed(Free(c)) = Owed(c)
    BY <1>1, NewPcbType DEF Owed
  <1> QED BY <1>1, <1>2

LEMMA FailedType ==
    ASSUME NEW c, IsContext(c)
    PROVE  /\ IsContext(Failed(c)) /\ Failed(c).p = c.p /\ Failed(c).pending = c.pending
           /\ Failed(c).freed = c.freed /\ Failed(c).down = c.down /\ Failed(c).text = c.text
           /\ SameApp(c.app, Failed(c).app)
           /\ c.app.use \in {"connecting", "open"} => Failed(c).app.err
           /\ Owed(Failed(c)) = Owed(c)
  <1> DEFINE a == [c.app EXCEPT !.err = TRUE]
             d == [c EXCEPT !.app = a]
  <1>1. IsApp(a) /\ SameApp(c.app, a) /\ a.err
    BY DEF IsContext, IsApp, AppFields, SameApp
  <1> HIDE DEF a
  <1>2. /\ IsContext(d) /\ d.p = c.p /\ d.pending = c.pending /\ d.freed = c.freed
        /\ d.down = c.down /\ d.text = c.text /\ d.app = a
    BY <1>1, AppChange
  <1>3. Failed(c) = IF c.app.use \in {"connecting", "open", "shut"} THEN d ELSE c
    BY DEF Failed, a
  <1> HIDE DEF d
  <1>4. Owed(d) = Owed(c)
    BY <1>2 DEF Owed
  <1> QED BY <1>1, <1>2, <1>3, <1>4 DEF SameApp

AppOK(e, a) ==
    /\ a.use \in {"idle", "connecting"} => ~a.eof /\ a.got = <<>>
    /\ a.read <= Len(a.got) /\ a.wrote <= MaxWrite[e]

\* The pcb is freed, and an application that needs to be told is told.
Gone(e, c, d) ==
    /\ IsContext(d) /\ HostOK(e, d.p, d.app)
    /\ d.p = NewPcb /\ d.freed /\ d.down = c.down /\ d.text = c.text
    /\ d.app.use = c.app.use /\ Owed(d) = Owed(c)

\* What is left of a host whose pcb is freed.
LEMMA NewPcbOK ==
    ASSUME NEW e, NEW a, AppOK(e, a), a.use \in {"connecting", "open"} => a.err
    PROVE  HostOK(e, NewPcb, a)
  BY NewPcbType DEF HostOK, AppOK, Early, Ending

LEMMA RightAppOK == ASSUME NEW e, NEW c, Right(e, c) PROVE AppOK(e, c.app)
  BY DEF Right, HostOK, AppOK

\* The ways of a pcb to its end: tcp_free, with the error told, tcp_pcb_remove,
\* tcp_abandon.
LEMMA FreeGone ==
    ASSUME NEW e, NEW c, IsContext(c), AppOK(e, c.app), ~c.p.backlogPend,
           c.app.use \in {"connecting", "open"} => c.app.err
    PROVE  Gone(e, c, Free(c))
  <1>1. /\ IsContext(Free(c)) /\ Free(c).p = NewPcb /\ Free(c).freed
        /\ Free(c).app = c.app /\ Free(c).down = c.down /\ Owed(Free(c)) = Owed(c)
        /\ Free(c).text = c.text
    BY FreeType
  <1>2. HostOK(e, NewPcb, c.app)
    BY NewPcbOK
  <1> QED BY <1>1, <1>2 DEF Gone

LEMMA FailFreeGone ==
    ASSUME NEW e, NEW c, IsContext(c), AppOK(e, c.app), ~c.p.backlogPend
    PROVE  Gone(e, c, Failed(Free(c)))
  <1> DEFINE f == Free(c)
  <1>1. /\ IsContext(f) /\ f.p = NewPcb /\ f.freed
        /\ f.app = c.app /\ f.down = c.down /\ f.text = c.text /\ Owed(f) = Owed(c)
    BY FreeType
  <1> HIDE DEF f
  <1> DEFINE d == Failed(f)
  <1>2. /\ IsContext(d) /\ d.p = NewPcb /\ d.freed /\ d.down = c.down /\ Owed(d) = Owed(c)
        /\ d.text = c.text
        /\ SameApp(c.app, d.app) /\ (c.app.use \in {"connecting", "open"} => d.app.err)
    BY <1>1, FailedType
  <1> HIDE DEF d
  <1>3. AppOK(e, d.app) /\ (d.app.use \in {"connecting", "open"} => d.app.err)
    BY <1>2 DEF AppOK, SameApp
  <1>4. HostOK(e, NewPcb, d.app)
    BY <1>3, NewPcbOK
  <1>5. Gone(e, c, d)
    BY <1>2, <1>4 DEF Gone, SameApp
  <1> QED BY <1>5 DEF d, f

\* A pcb whose backlog was cleared, and what went before it.
LEMMA GoneAlong ==
    ASSUME NEW e, NEW c, NEW b, Along(c, b), NEW d, Gone(e, b, d)
    PROVE  Gone(e, c, d)
  BY DEF Gone, Along, Beside

\* Where tcp_pcb_purge is called the backlog has the pcb's own count only.
LEMMA PurgedIsAccepted ==
    ASSUME NEW c, IsContext(c), c.p.state \in {"CLOSED", "TIME_WAIT"} => ~c.p.backlogPend
    PROVE  Along(c, Purge(c)) /\ ~Purge(c).p.backlogPend
  BY PurgeAlong

LEMMA PurgeGone ==
    ASSUME NEW e, NEW c, IsContext(c), AppOK(e, c.app),
           c.p.state \in {"CLOSED", "TIME_WAIT"} => ~c.p.backlogPend
    PROVE  Gone(e, c, Failed(Free(Purge(c))))
  <1> DEFINE b == Purge(c)
  <1>1. Along(c, b) /\ ~b.p.backlogPend
    BY PurgedIsAccepted
  <1> HIDE DEF b
  <1>2. IsContext(b) /\ AppOK(e, b.app)
    BY <1>1 DEF Along, Beside
  <1>3. Gone(e, b, Failed(Free(b)))
    BY <1>1, <1>2, FailFreeGone
  <1>4. Gone(e, c, Failed(Free(b)))
    BY <1>1, <1>3, GoneAlong
  <1> QED BY <1>4 DEF b

\* tcp_pcb_remove.
LEMMA RemoveGone ==
    ASSUME NEW e, NEW c, IsContext(c), AppOK(e, c.app),
           c.app.use \in {"connecting", "open"} => c.app.err,
           c.p.state \in {"CLOSED", "TIME_WAIT"} => ~c.p.backlogPend
    PROVE  Gone(e, c, RemovePcb(c))
  <1> DEFINE b == Purge(c)
             o == Output(AckNow(b))
             d == IF b.p.state # "TIME_WAIT" /\ b.p.ackDelay THEN o ELSE b
  <1>1. Along(c, b) /\ ~b.p.backlogPend
    BY PurgedIsAccepted
  <1>2. RemovePcb(c) = Free(d)
    BY DEF RemovePcb
  <1> HIDE DEF b
  <1>3. Sends(b, o)
    <2>1. Sends(b, AckNow(b))
      BY <1>1, AckNowSends DEF Along
    <2>2. Sends(AckNow(b), o)
      BY <2>1, OutputSends DEF Sends
    <2> HIDE DEF o
    <2> QED BY <2>1, <2>2, SendsTwice
  <1> HIDE DEF o
  <1>4. Along(b, o) /\ o.p.backlogPend = b.p.backlogPend
    BY <1>3, SendsAlong
  <1>5. Along(c, d) /\ ~d.p.backlogPend
    BY <1>1, <1>4 DEF Along, Beside
  <1> HIDE DEF d
  <1>6. IsContext(d) /\ AppOK(e, d.app) /\ (d.app.use \in {"connecting", "open"} => d.app.err)
    BY <1>5 DEF Along, Beside
  <1>7. Gone(e, d, Free(d))
    BY <1>5, <1>6, FreeGone
  <1> QED BY <1>2, <1>5, <1>7, GoneAlong

\* tcp_abandon.
LEMMA ResetGone ==
    ASSUME NEW e, NEW c, IsContext(c), AppOK(e, c.app),
           c.p.state \in {"CLOSED", "TIME_WAIT"} => ~c.p.backlogPend,
           NEW seq \in Seqs, NEW ack \in Seqs
    PROVE  Gone(e, c, Failed(Free(SendRst(Purge(c), seq, ack))))
  <1> DEFINE b == Purge(c)
             d == SendRst(b, seq, ack)
  <1>1. Along(c, b) /\ ~b.p.backlogPend
    BY PurgedIsAccepted
  <1> HIDE DEF b
  <1>2. Sends(b, d)
    BY <1>1, SendRstSends DEF Along
  <1> HIDE DEF d
  <1>3. Along(b, d) /\ d.p.backlogPend = b.p.backlogPend
    BY <1>2, SendsAlong
  <1>4. Along(c, d) /\ ~d.p.backlogPend
    BY <1>1, <1>3 DEF Along, Beside
  <1>5. IsContext(d) /\ AppOK(e, d.app)
    BY <1>4 DEF Along, Beside
  <1>6. Gone(e, c, Failed(Free(d)))
    BY <1>4, <1>5, FailFreeGone, GoneAlong
  <1> QED BY <1>6 DEF b, d

LEMMA AbortGone ==
    ASSUME NEW e, NEW c, IsContext(c), AppOK(e, c.app),
           c.p.state \in {"CLOSED", "TIME_WAIT"} => ~c.p.backlogPend,
           c.p.state = "TIME_WAIT" /\ c.app.use \in {"connecting", "open"} => c.app.err
    PROVE  Gone(e, c, Abort(c))
  <1>1. c.p.snd_nxt \in Seqs /\ c.p.rcv_nxt \in Seqs
    BY DEF IsContext, IsPcb
  <1>2. Gone(e, c, Failed(Free(SendRst(Purge(c), c.p.snd_nxt, c.p.rcv_nxt))))
    BY <1>1, ResetGone
  <1>3. c.p.state = "TIME_WAIT" => Gone(e, c, Free(c))
    BY FreeGone
  <1> QED BY <1>2, <1>3 DEF Abort

\* Only the state changes.
Turns(c, d) ==
    /\ IsContext(d) /\ Beside(c, d) /\ d.pending = c.pending /\ Owed(d) = Owed(c)
    /\ Timed(c.p) => Timed(d.p)
    /\ d.p.rcv_nxt = c.p.rcv_nxt /\ d.p.refused = c.p.refused
    /\ d.p.rxClosed = c.p.rxClosed /\ d.p.closePend = c.p.closePend
    /\ d.p.backlogPend = c.p.backlogPend

LEMMA BecomeTurns ==
    ASSUME NEW c, IsContext(c), NEW s \in States
    PROVE  Turns(c, Become(c, s)) /\ Become(c, s).p.state = s
  <1> DEFINE q == [c.p EXCEPT !.state = s]
             d == [c EXCEPT !.p = q]
  <1>1. /\ IsPcb(q) /\ q.state = s /\ q.rcv_nxt = c.p.rcv_nxt /\ q.refused = c.p.refused
        /\ q.rxClosed = c.p.rxClosed /\ q.closePend = c.p.closePend
        /\ q.backlogPend = c.p.backlogPend /\ (Timed(c.p) => Timed(q))
    BY ZenonT(60) DEF IsContext, IsPcb, PcbFields, Timed
  <1> HIDE DEF q
  <1>2. IsContext(d) /\ d.p = q /\ Beside(c, d) /\ d.pending = c.pending
    BY <1>1, PcbChange
  <1> HIDE DEF d
  <1>3. Owed(d) = Owed(c)
    BY <1>1, <1>2 DEF Owed
  <1>4. Turns(c, d) /\ d.p.state = s
    BY <1>1, <1>2, <1>3 DEF Turns
  <1>5. Become(c, s) = d
    BY DEF Become, d, q
  <1> QED BY <1>4, <1>5

\* Refused text is all that a way to TIME_WAIT may drop.
LEMMA WaitsOut ==
    ASSUME NEW c, IsContext(c)
    PROVE  LET d == [Purge(c) EXCEPT !.p.state = "TIME_WAIT"]
           IN  /\ IsContext(d) /\ Beside(c, d) /\ Owed(d) = Owed(c)
               /\ d.p.state = "TIME_WAIT" /\ d.p.rcv_nxt = c.p.rcv_nxt
               /\ d.p.rxClosed = c.p.rxClosed /\ d.p.closePend = c.p.closePend
               /\ Timed(c.p) => Timed(d.p)
               /\ c.p.state \notin {"CLOSED", "TIME_WAIT"} =>
                     d.p.refused = Nothing /\ ~d.p.backlogPend
  <1> DEFINE b == Purge(c)
             d == Become(b, "TIME_WAIT")
  <1>1. Along(c, b) /\ IsContext(b)
    BY PurgeAlong DEF Along
  <1>2. c.p.state \notin {"CLOSED", "TIME_WAIT"} => b.p.refused = Nothing /\ ~b.p.backlogPend
    BY PurgeAlong
  <1>3. [Purge(c) EXCEPT !.p.state = "TIME_WAIT"] = d
    BY DEF Become
  <1> HIDE DEF b
  <1>4. Turns(b, d) /\ d.p.state = "TIME_WAIT"
    BY <1>1, BecomeTurns DEF States
  <1> HIDE DEF d
  <1> QED BY <1>1, <1>2, <1>3, <1>4 DEF Along, Turns, Beside

LEMMA TimeWaitType ==
    ASSUME NEW c, IsContext(c), c.p.state \notin {"CLOSED", "TIME_WAIT"}
    PROVE  /\ IsContext(TimeWait(c)) /\ Beside(c, TimeWait(c)) /\ Owed(TimeWait(c)) = Owed(c)
           /\ TimeWait(c).p.state = "TIME_WAIT" /\ TimeWait(c).p.rcv_nxt = c.p.rcv_nxt
           /\ TimeWait(c).p.rxClosed = c.p.rxClosed /\ TimeWait(c).p.closePend = c.p.closePend
           /\ TimeWait(c).p.refused = Nothing /\ ~TimeWait(c).p.backlogPend
           /\ Timed(c.p) => Timed(TimeWait(c).p)
  <1> DEFINE b == AckNow(c)
  <1>1. Sends(c, b)
    BY AckNowSends
  <1>2. TimeWait(c) = [Purge(b) EXCEPT !.p.state = "TIME_WAIT"]
    BY DEF TimeWait
  <1> HIDE DEF b
  <1>3. Along(c, b) /\ IsContext(b)
    BY <1>1, SendsAlong DEF Along
  <1> DEFINE d == [Purge(b) EXCEPT !.p.state = "TIME_WAIT"]
  <1>4. /\ IsContext(d) /\ Beside(b, d) /\ Owed(d) = Owed(b)
        /\ d.p.state = "TIME_WAIT" /\ d.p.rcv_nxt = b.p.rcv_nxt
        /\ d.p.rxClosed = b.p.rxClosed /\ d.p.closePend = b.p.closePend
        /\ Timed(b.p) => Timed(d.p)
        /\ b.p.state \notin {"CLOSED", "TIME_WAIT"} =>
              d.p.refused = Nothing /\ ~d.p.backlogPend
    BY <1>3, WaitsOut
  <1> HIDE DEF d
  <1> QED BY <1>2, <1>3, <1>4 DEF Along, Beside, d

-----------------------------------------------------------------------------
(* What a host holds for its application, and calls that leave it alone.    *)

\* What an application counts on (Counts), and what its host holds for it (Held).
CountsOn(e, a) == a.use = "open" \/ (a.use = "shut" /\ e \notin Refusers)
Holding(p, a) ==
    IF p.state \in Early THEN 0
    ELSE Len(a.got) + Len(p.refused.data) + IF a.eof \/ p.refused.fin THEN 1 ELSE 0

\* The states of a pcb that tcp_process has nothing to synchronize for.
Inactive == Early \cup {"TIME_WAIT"}

Passes(e, c, d) ==
    /\ Right(e, d) /\ Owed(d) = Owed(c) /\ d.down = c.down /\ d.text = c.text
    /\ d.app.use = c.app.use
    /\ c.freed => d.freed
    /\ c.p.state \notin Inactive => d.freed \/ d.p.state \notin Inactive

\* A connection that goes on holds what it held.
Stands(e, c, d) ==
    d.p.state \notin Early /\ CountsOn(e, c.app) =>
        /\ c.p.state \notin Early /\ d.p.rcv_nxt = c.p.rcv_nxt
        /\ Holding(d.p, d.app) = Holding(c.p, c.app)

Goes(e, c, d) == Passes(e, c, d) /\ Stands(e, c, d)

\* Steps of a connection that goes on can be put together.
LEMMA GoesTwice ==
    ASSUME NEW e, NEW c, NEW d, NEW f, Goes(e, c, d), Goes(e, d, f)
    PROVE  Goes(e, c, f)
  BY DEF Goes, Passes, Stands, CountsOn

LEMMA GoesNowhere == ASSUME NEW e, NEW c, Right(e, c) PROVE Goes(e, c, c)
  BY DEF Goes, Passes, Stands

LEMMA SendsGoes ==
    ASSUME NEW e, NEW c, Right(e, c), NEW d, Sends(c, d),
           c.p.state = "SYN_SENT" => Waiting(d.p)
    PROVE  Goes(e, c, d)
  <1>1. Right(e, d)
    BY SendsRight
  <1>2. Along(c, d) /\ d.p.refused = c.p.refused
    BY SendsAlong
  <1> QED BY <1>1, <1>2 DEF Goes, Passes, Stands, Along, Beside, Holding

LEMMA GoneGoes ==
    ASSUME NEW e, NEW c, NEW d, Gone(e, c, d)
    PROVE  Goes(e, c, d)
  BY NewPcbType DEF Gone, Goes, Passes, Stands, Right, Early

LEMMA OutputGoes ==
    ASSUME NEW e, NEW c, Right(e, c)
    PROVE  Goes(e, c, Output(c)) /\ Sends(c, Output(c))
  BY OutputSends, SendsGoes DEF Right, HostOK

LEMMA AckNowQueues ==
    ASSUME NEW c, IsContext(c)
    PROVE  Sends(c, AckNow(c)) /\ (Waiting(c.p) => Waiting(AckNow(c).p))
  <1> DEFINE q == [c.p EXCEPT !.ackNow = TRUE]
  <1>1. IsPcb(q) /\ q.unacked = c.p.unacked /\ q.unsent = c.p.unsent
    BY ZenonT(60) DEF IsContext, IsPcb, PcbFields
  <1>2. AckNow(c) = [c EXCEPT !.p = q]
    BY DEF AckNow
  <1> HIDE DEF q
  <1>3. AckNow(c).p = q
    BY <1>1, <1>2, PcbChange
  <1> QED BY <1>1, <1>3, AckNowSends DEF Waiting

LEMMA AckNowGoes ==
    ASSUME NEW e, NEW c, Right(e, c)
    PROVE  Goes(e, c, AckNow(c))
  BY AckNowQueues, SendsGoes DEF Right, HostOK

LEMMA SendEmptyAckGoes ==
    ASSUME NEW e, NEW c, Right(e, c)
    PROVE  Goes(e, c, SendEmptyAck(c))
  <1>1. IsContext(c) /\ (c.p.state = "SYN_SENT" => Waiting(c.p))
    BY DEF Right, HostOK
  <1>2. Sends(c, SendEmptyAck(c)) /\ (Waiting(c.p) => Waiting(SendEmptyAck(c).p))
    BY <1>1, SendEmptyAckSends DEF Waiting
  <1> QED BY <1>1, <1>2, SendsGoes

LEMMA SendRstGoes ==
    ASSUME NEW e, NEW c, Right(e, c), NEW seq \in Seqs, NEW ack \in Seqs
    PROVE  Goes(e, c, SendRst(c, seq, ack))
  <1>1. IsContext(c) /\ (c.p.state = "SYN_SENT" => Waiting(c.p))
    BY DEF Right, HostOK
  <1>2. Sends(c, SendRst(c, seq, ack)) /\ SendRst(c, seq, ack).p = c.p
    BY <1>1, SendRstSends
  <1> QED BY <1>1, <1>2, SendsGoes

LEMMA OutputAckNow ==
    ASSUME NEW c, IsContext(c)
    PROVE  Sends(c, Output(AckNow(c)))
  <1> DEFINE a == AckNow(c)
  <1>1. Sends(c, a)
    BY AckNowSends
  <1> HIDE DEF a
  <1>2. Sends(a, Output(a))
    BY <1>1, OutputSends DEF Sends
  <1>3. Sends(c, Output(a))
    BY <1>1, <1>2, SendsTwice
  <1> QED BY <1>3 DEF a

\* tcp_close_shutdown_fin.
LEMMA ShutdownFinGoes ==
    ASSUME NEW e, NEW c, Right(e, c), c.app.use \in {"shut", "closed"},
           c.p.state # "SYN_RCVD", NEW memory
    PROVE  Goes(e, c, ShutdownFin(c, memory))
  <1> DEFINE next == CASE c.p.state \in {"SYN_RCVD", "ESTABLISHED"} -> "FIN_WAIT_1"
                       [] c.p.state = "CLOSE_WAIT" -> "LAST_ACK"
                       [] OTHER -> "none"
             q == [c.p EXCEPT !.closePend = TRUE]
             later == [c EXCEPT !.p = q]
             d == SendFin(c)
             b == Become(d, next)
  <1>1. \/ ShutdownFin(c, memory) = c
        \/ next # "none" /\ ShutdownFin(c, memory) = later
        \/ next # "none" /\ ShutdownFin(c, memory) = Output(b)
    BY DEF ShutdownFin
  <1>2. next # "none" => \/ c.p.state = "ESTABLISHED" /\ next = "FIN_WAIT_1"
                         \/ c.p.state = "CLOSE_WAIT" /\ next = "LAST_ACK"
    OBVIOUS
  <1> HIDE DEF next
  <1>3. next # "none" => Goes(e, c, later)
    <2>1. /\ IsPcb(q) /\ q.state = c.p.state /\ q.rcv_nxt = c.p.rcv_nxt /\ q.refused = c.p.refused
          /\ q.rxClosed = c.p.rxClosed /\ q.closePend /\ q.backlogPend = c.p.backlogPend
          /\ Timed(c.p) => Timed(q)
      BY ZenonT(60) DEF Right, IsContext, IsPcb, PcbFields, Timed
    <2> HIDE DEF q
    <2>2. IsContext(later) /\ later.p = q /\ Beside(c, later) /\ later.pending = c.pending
      BY <2>1, PcbChange DEF Right
    <2> HIDE DEF later
    <2>3. next # "none" => HostOK(e, later.p, later.app)
      BY <1>2, <2>1, <2>2 DEF Right, HostOK, Early, Beside
    <2>4. Owed(later) = Owed(c)
      BY <2>1, <2>2 DEF Owed
    <2> QED BY <2>1, <2>2, <2>3, <2>4 DEF Goes, Passes, Stands, Right, Beside, Holding
  <1>4. next # "none" => Goes(e, c, Output(b))
    <2> SUFFICES ASSUME next # "none" PROVE Goes(e, c, Output(b))
      OBVIOUS
    <2>1. next \in States
      BY <1>2 DEF States
    <2>2. Sends(c, d)
      BY SendFinSends DEF Right
    <2> HIDE DEF d
    <2>3. Turns(d, b) /\ b.p.state = next
      BY <2>1, <2>2, BecomeTurns DEF Sends
    <2> HIDE DEF b
    <2>4. Along(c, d) /\ d.p.refused = c.p.refused /\ d.p.backlogPend = c.p.backlogPend
      BY <2>2, SendsAlong
    <2>5. /\ IsContext(b) /\ b.app = c.app /\ b.text = c.text /\ b.down = c.down
          /\ b.freed = c.freed
          /\ Owed(b) = Owed(c) /\ b.p.rcv_nxt = c.p.rcv_nxt /\ b.p.refused = c.p.refused
          /\ b.p.rxClosed = c.p.rxClosed /\ b.p.closePend = c.p.closePend
          /\ b.p.backlogPend = c.p.backlogPend /\ (Timed(c.p) => Timed(b.p))
      BY <2>3, <2>4 DEF Turns, Along, Beside
    <2>6. HostOK(e, b.p, b.app)
      BY <1>2, <2>3, <2>5 DEF Right, HostOK, Early, Ending
    <2>7. c.p.state \notin Early /\ b.p.state \notin Inactive /\ b.p.state \notin Early
      BY <1>2, <2>3 DEF Early, Inactive
    <2>8. Goes(e, c, b)
      BY <2>5, <2>6, <2>7 DEF Goes, Passes, Stands, Right, Holding
    <2>9. Goes(e, b, Output(b))
      BY <2>8, OutputGoes DEF Goes, Passes
    <2> QED BY <2>8, <2>9, GoesTwice
  <1>5. Goes(e, c, c)
    BY GoesNowhere
  <1> QED BY <1>1, <1>3, <1>4, <1>5

\* tcp_close_shutdown of a synchronized connection.
LEMMA ShutdownGoes ==
    ASSUME NEW e, NEW c, Right(e, c), c.app.use \in {"shut", "closed"},
           c.p.state \notin {"SYN_SENT", "SYN_RCVD"}, NEW rst, NEW memory
    PROVE  Goes(e, c, Shutdown(c, rst, memory))
  <1> DEFINE r == SendRst(c, c.p.snd_nxt, c.p.rcv_nxt)
             b == Purge(r)
  <1>1. \/ c.p.state \in {"ESTABLISHED", "CLOSE_WAIT"} /\ Shutdown(c, rst, memory) = Free(b)
        \/ Shutdown(c, rst, memory) = ShutdownFin(c, memory)
    BY DEF Shutdown
  <1>2. Goes(e, c, ShutdownFin(c, memory))
    BY ShutdownFinGoes
  <1>3. c.p.state \in {"ESTABLISHED", "CLOSE_WAIT"} => Goes(e, c, Free(b))
    <2>1. IsContext(c) /\ c.p.snd_nxt \in Seqs /\ c.p.rcv_nxt \in Seqs /\ AppOK(e, c.app)
      BY RightAppOK DEF Right, IsContext, IsPcb
    <2>2. Along(c, r)
      BY <2>1, SendRstSends, SendsAlong
    <2> HIDE DEF r
    <2>3. Along(r, b) /\ (c.p.state \in {"ESTABLISHED", "CLOSE_WAIT"} => ~b.p.backlogPend)
      BY <2>2, PurgeAlong DEF Along
    <2> HIDE DEF b
    <2>4. Along(c, b)
      BY <2>2, <2>3 DEF Along, Beside
    <2>5. IsContext(b) /\ b.app = c.app
      BY <2>4 DEF Along, Beside
    <2>6. c.p.state \in {"ESTABLISHED", "CLOSE_WAIT"} => Gone(e, b, Free(b))
      BY <2>1, <2>3, <2>5, FreeGone
    <2> QED BY <2>4, <2>6, GoneAlong, GoneGoes
  <1> QED BY <1>1, <1>2, <1>3

\* What is held is a number.
LEMMA HoldingType ==
    ASSUME NEW p, IsPcb(p), NEW a, IsApp(a)
    PROVE  /\ Len(a.got) \in Nat /\ Len(p.refused.data) \in Nat /\ p.refused.fin \in BOOLEAN
           /\ Holding(p, a) \in Nat
           /\ p.state \notin Early =>
                 /\ a.eof \/ p.refused.fin =>
                       Holding(p, a) = Len(a.got) + Len(p.refused.data) + 1
                 /\ ~a.eof /\ ~p.refused.fin => Holding(p, a) = Len(a.got) + Len(p.refused.data)
  <1> DEFINE one == IF a.eof \/ p.refused.fin THEN 1 ELSE 0
             x == Len(a.got)
             y == Len(p.refused.data)
  <1>1. x \in Nat /\ y \in Nat /\ p.refused.fin \in BOOLEAN
    BY TextLenType DEF IsPcb, IsApp
  <1>2. /\ one \in Nat /\ (a.eof \/ p.refused.fin => one = 1)
        /\ (~a.eof /\ ~p.refused.fin => one = 0)
    OBVIOUS
  <1>3. Holding(p, a) = IF p.state \in Early THEN 0 ELSE x + y + one
    BY DEF Holding
  <1> HIDE DEF one, x, y
  <1>4. Holding(p, a) \in Nat
    BY <1>1, <1>2, <1>3
  <1>5. p.state \notin Early /\ (a.eof \/ p.refused.fin) => Holding(p, a) = x + y + 1
    BY <1>2, <1>3
  <1>6. p.state \notin Early /\ ~a.eof /\ ~p.refused.fin => Holding(p, a) = x + y
    BY <1>1, <1>2, <1>3
  <1> QED BY <1>1, <1>4, <1>5, <1>6 DEF x, y

\* tcp_recved widens the window.
LEMMA WindowGrows ==
    ASSUME NEW p, IsPcb(p), NEW n \in Nat
    PROVE  /\ IsPcb([p EXCEPT !.rcv_wnd = AtMost(p.rcv_wnd + n, TcpWnd)])
           /\ Unmoved(p, [p EXCEPT !.rcv_wnd = AtMost(p.rcv_wnd + n, TcpWnd)])
           /\ [p EXCEPT !.rcv_wnd = AtMost(p.rcv_wnd + n, TcpWnd)].unacked = p.unacked
           /\ [p EXCEPT !.rcv_wnd = AtMost(p.rcv_wnd + n, TcpWnd)].unsent = p.unsent
  <1> DEFINE w == AtMost(p.rcv_wnd + n, TcpWnd)
  <1>1. p.rcv_wnd \in Nat /\ TcpWnd \in Nat
    BY WindowNat, TcpAssumption DEF IsPcb
  <1>2. w \in Windows
    BY <1>1 DEF Windows, AtMost
  <1> HIDE DEF w
  <1>3. /\ IsPcb([p EXCEPT !.rcv_wnd = w]) /\ Unmoved(p, [p EXCEPT !.rcv_wnd = w])
        /\ [p EXCEPT !.rcv_wnd = w].unacked = p.unacked
        /\ [p EXCEPT !.rcv_wnd = w].unsent = p.unsent
    BY <1>2 DEF IsPcb, PcbFields, Unmoved, Timed
  <1> QED BY <1>3 DEF w

\* tcp_recved.
LEMMA RecvedSends ==
    ASSUME NEW c, IsContext(c), NEW n \in Nat
    PROVE  Sends(c, Recved(c, n))
  <1> DEFINE q == [c.p EXCEPT !.rcv_wnd = AtMost(@ + n, TcpWnd)]
             u == UpdateAnnWnd(q)
             d == [c EXCEPT !.p = u]
  <1>1. IsPcb(q) /\ Unmoved(c.p, q)
    BY WindowGrows DEF IsContext
  <1>2. Recved(c, n) = d \/ Recved(c, n) = Output(AckNow(d))
    BY DEF Recved
  <1> HIDE DEF q
  <1>3. IsPcb(u) /\ Unmoved(q, u)
    BY <1>1, UpdateAnnWndQueued DEF Queued
  <1> HIDE DEF u
  <1>4. Unmoved(c.p, u)
    BY <1>1, <1>3 DEF Unmoved
  <1>5. Sends(c, d)
    BY <1>3, <1>4, MovesPcb
  <1> HIDE DEF d
  <1>6. Sends(d, Output(AckNow(d)))
    BY <1>5, OutputAckNow DEF Sends
  <1>7. Sends(c, Output(AckNow(d)))
    BY <1>5, <1>6, SendsTwice
  <1> QED BY <1>2, <1>5, <1>7

\* TCP_EVENT_RECV: the application is given text.
LEMMA TakeType ==
    ASSUME NEW e, NEW c, Right(e, c), c.p.state \notin Early,
           NEW data \in Seq(Nat)
    PROVE  /\ Passes(e, c, Take(c, data))
           /\ Take(c, data).p.state = c.p.state
           /\ Take(c, data).p.refused = c.p.refused
           /\ Take(c, data).p.rcv_nxt = c.p.rcv_nxt
           /\ c.app.use # "closed" =>
                 Take(c, data).app.got = c.app.got \o data /\ Take(c, data).app.eof = c.app.eof
           /\ Take(c, data).freed = c.freed
  <1> DEFINE got == c.app.got \o data
             a == [c.app EXCEPT !.got = got]
             d == [c EXCEPT !.app = a]
             r == Recved(c, Len(data))
  <1>1. CASE c.app.use = "closed"
    <2>1. Take(c, data) = r
      BY <1>1 DEF Take
    <2>2. Len(data) \in Nat
      OBVIOUS
    <2>3. Sends(c, r)
      BY <2>2, RecvedSends DEF Right
    <2> HIDE DEF r
    <2>4. Goes(e, c, r) /\ Along(c, r) /\ r.p.refused = c.p.refused
      BY <2>3, SendsGoes, SendsAlong DEF Early
    <2> QED BY <1>1, <2>1, <2>4 DEF Goes, Along, Beside
  <1>2. CASE c.app.use # "closed"
    <2>1. Take(c, data) = d
      BY <1>2 DEF Take
    <2>2. IsApp(c.app) /\ c.app.got \in Seq(Nat) /\ c.app.read \in Nat
      BY DEF Right, IsContext, IsApp
    <2>3. got \in Seq(Nat) /\ Len(got) = Len(c.app.got) + Len(data) /\ Len(data) \in Nat
          /\ Len(c.app.got) \in Nat
      BY <2>2
    <2> HIDE DEF got
    <2>4. /\ IsApp(a) /\ a.use = c.app.use /\ a.wrote = c.app.wrote /\ a.got = got
          /\ a.read = c.app.read /\ a.eof = c.app.eof /\ a.err = c.app.err
      BY <2>2, <2>3 DEF IsApp, AppFields
    <2> HIDE DEF a
    <2>5. /\ IsContext(d) /\ d.app = a /\ d.p = c.p /\ d.pending = c.pending
          /\ d.text = c.text /\ d.freed = c.freed /\ d.down = c.down
      BY <2>4, AppChange DEF Right
    <2> HIDE DEF d
    <2>6. a.read <= Len(a.got)
      BY <2>2, <2>3, <2>4 DEF Right, HostOK
    <2>7. c.app.use \in {"open", "shut", "closed"}
      BY DEF Right, HostOK
    <2>8. HostOK(e, d.p, d.app)
      BY <2>4, <2>5, <2>6, <2>7 DEF Right, HostOK, Early
    <2>9. Owed(d) = Owed(c)
      BY <2>5 DEF Owed
    <2>10. d.app.got = c.app.got \o data
      BY <2>4, <2>5 DEF got
    <2> QED BY <2>1, <2>4, <2>5, <2>8, <2>9, <2>10 DEF Passes, Right
  <1> QED BY <1>1, <1>2

\* TCP_EVENT_CLOSED.
LEMMA ClosedType ==
    ASSUME NEW e, NEW c, Right(e, c),
           c.p.state \notin Early \cup {"ESTABLISHED", "FIN_WAIT_1", "FIN_WAIT_2"}
    PROVE  /\ Passes(e, c, Closed(c))
           /\ c.app.use # "closed" =>
                 /\ Closed(c).p.state = c.p.state /\ Closed(c).p.refused = c.p.refused
                 /\ Closed(c).p.rcv_nxt = c.p.rcv_nxt
                 /\ Closed(c).app.got = c.app.got /\ Closed(c).app.eof
                 /\ Closed(c).freed = c.freed
  <1> DEFINE q == [c.p EXCEPT !.rcv_wnd = AtMost(@ + 1, TcpWnd)]
             d == [c EXCEPT !.p = q]
             a == [d.app EXCEPT !.eof = TRUE]
             f == [d EXCEPT !.app = a]
  <1>1. Closed(c) = IF c.app.use = "closed" THEN Shutdown(d, TRUE, TRUE) ELSE f
    BY DEF Closed
  <1>2. IsPcb(q) /\ Unmoved(c.p, q)
    BY WindowGrows DEF Right, IsContext
  <1> HIDE DEF q
  <1>3. Sends(c, d)
    BY <1>2, MovesPcb DEF Right
  <1> HIDE DEF d
  <1>4. Goes(e, c, d) /\ Along(c, d) /\ d.p.refused = c.p.refused
    BY <1>3, SendsGoes, SendsAlong DEF Early
  <1>5. CASE c.app.use = "closed"
    <2>1. Goes(e, d, Shutdown(d, TRUE, TRUE))
      <3>1. Right(e, d) /\ d.app.use = "closed" /\ d.p.state \notin {"SYN_SENT", "SYN_RCVD"}
        BY <1>4, <1>5 DEF Along, Beside, Goes, Passes, Early
      <3> QED BY <3>1, ShutdownGoes
    <2>2. Goes(e, c, Shutdown(d, TRUE, TRUE))
      BY <1>4, <2>1, GoesTwice
    <2> QED BY <1>1, <1>5, <2>2 DEF Goes
  <1>6. CASE c.app.use # "closed"
    <2>1. /\ IsApp(a) /\ a.use = c.app.use /\ a.wrote = c.app.wrote /\ a.got = c.app.got
          /\ a.read = c.app.read /\ a.eof /\ a.err = c.app.err
      BY <1>4 DEF Along, Beside, Right, IsContext, IsApp, AppFields
    <2> HIDE DEF a
    <2>2. /\ IsContext(f) /\ f.app = a /\ f.p = d.p /\ f.pending = d.pending
          /\ f.text = d.text /\ f.freed = d.freed /\ f.down = d.down
      BY <1>4, <2>1, AppChange DEF Along
    <2> HIDE DEF f
    <2>3. HostOK(e, d.p, d.app) /\ d.app = c.app /\ d.p.state = c.p.state
      BY <1>4 DEF Goes, Passes, Right, Along, Beside
    <2>4. HostOK(e, f.p, f.app)
      BY <2>1, <2>2, <2>3 DEF HostOK, Early
    <2>5. Owed(f) = Owed(c)
      BY <1>4, <2>2 DEF Owed, Along
    <2> QED BY <1>1, <1>4, <1>6, <2>1, <2>2, <2>4, <2>5 DEF Passes, Right, Along, Beside
  <1> QED BY <1>5, <1>6

\* tcp_process_refused_data.
LEMMA ProcessRefusedDataGoes ==
    ASSUME NEW e, NEW c, Right(e, c), NEW ok
    PROVE  Goes(e, c, ProcessRefusedData(c, ok))
  <1> DEFINE r == c.p.refused
             q == [c.p EXCEPT !.refused = Nothing]
             b == [c EXCEPT !.p = q]
             d == Take(b, r.data)
  <1>1. CASE r = Nothing \/ (~ok /\ c.app.use # "closed")
    BY <1>1, GoesNowhere DEF ProcessRefusedData
  <1>2. CASE ~(r = Nothing \/ (~ok /\ c.app.use # "closed"))
    <2>1. ProcessRefusedData(c, ok) = IF r.fin THEN Closed(d) ELSE d
      BY <1>2 DEF ProcessRefusedData
    <2>2. /\ r \in Refusals /\ c.p.state \notin Early
          /\ r.fin => c.p.state \notin Early \cup {"ESTABLISHED", "FIN_WAIT_1", "FIN_WAIT_2"}
      BY <1>2 DEF Right, HostOK, IsContext, IsPcb, Early
    <2>3. r.data \in Seq(Nat) /\ Len(r.data) \in Nat /\ r.fin \in BOOLEAN
      BY <2>2, TextLenType
    <2>4. /\ IsPcb(q) /\ q.refused = Nothing /\ q.state = c.p.state /\ q.rcv_nxt = c.p.rcv_nxt
          /\ q.rxClosed = c.p.rxClosed /\ q.closePend = c.p.closePend
          /\ q.backlogPend = c.p.backlogPend
          /\ Timed(c.p) => Timed(q)
      BY ZenonT(60), NothingType DEF Right, IsContext, IsPcb, PcbFields, Timed
    <2> HIDE DEF q
    <2>5. IsContext(b) /\ b.p = q /\ Beside(c, b) /\ b.pending = c.pending
      BY <2>4, PcbChange DEF Right
    <2> HIDE DEF b
    <2>6. Right(e, b) /\ Owed(b) = Owed(c)
      <3>1. HostOK(e, b.p, b.app)
        BY <2>2, <2>4, <2>5, NothingType DEF Right, HostOK, Early, Beside
      <3>2. Owed(b) = Owed(c)
        BY <2>4, <2>5 DEF Owed
      <3> QED BY <2>5, <3>1, <3>2 DEF Right
    <2> HIDE DEF r
    <2>7. /\ Passes(e, b, d) /\ d.p.state = c.p.state /\ d.p.refused = Nothing
          /\ d.p.rcv_nxt = c.p.rcv_nxt
          /\ c.app.use # "closed" =>
                d.app.got = c.app.got \o r.data /\ d.app.eof = c.app.eof
      <3>1. b.p.state \notin Early
        BY <2>2, <2>4, <2>5
      <3>2. /\ Passes(e, b, Take(b, r.data))
            /\ Take(b, r.data).p.state = b.p.state
            /\ Take(b, r.data).p.refused = b.p.refused
            /\ Take(b, r.data).p.rcv_nxt = b.p.rcv_nxt
            /\ b.app.use # "closed" =>
                  /\ Take(b, r.data).app.got = b.app.got \o r.data
                  /\ Take(b, r.data).app.eof = b.app.eof
        BY <2>3, <2>6, <3>1, TakeType
      <3>3. b.app = c.app
        BY <2>5 DEF Beside
      <3> QED BY <2>4, <2>5, <3>2, <3>3
    <2>8. Passes(e, c, d)
      BY <2>5, <2>6, <2>7 DEF Passes, Beside
    <2> HIDE DEF d
    <2>9. IsPcb(c.p) /\ IsApp(c.app) /\ IsPcb(d.p) /\ IsApp(d.app) /\ c.app.got \in Seq(Nat)
      BY <2>8 DEF Passes, Right, IsContext, IsApp
    <2>10. c.app.use # "closed" => Len(d.app.got) = Len(c.app.got) + Len(r.data)
      <3> SUFFICES ASSUME c.app.use # "closed"
                   PROVE  Len(d.app.got) = Len(c.app.got) + Len(r.data)
        OBVIOUS
      <3>1. d.app.got = c.app.got \o r.data
        BY <2>7
      <3>2. Len(c.app.got \o r.data) = Len(c.app.got) + Len(r.data)
        BY <2>3, <2>9
      <3> QED BY <3>1, <3>2
    <2>11. CASE ~r.fin
      <3>1. c.app.use # "closed" => Holding(d.p, d.app) = Holding(c.p, c.app)
        <4> SUFFICES ASSUME c.app.use # "closed" PROVE Holding(d.p, d.app) = Holding(c.p, c.app)
          OBVIOUS
        <4>1. ~c.p.refused.fin /\ c.p.state \notin Early /\ d.p.state \notin Early
              /\ Len(c.p.refused.data) = Len(r.data)
              /\ ~d.p.refused.fin /\ Len(d.p.refused.data) = 0
          BY <2>2, <2>7, <2>11, NothingType DEF r
        <4>2. Len(d.app.got) = Len(c.app.got) + Len(r.data) /\ d.app.eof = c.app.eof
          BY <2>7, <2>10
        <4> DEFINE x == Len(c.app.got)
                   y == Len(r.data)
                   one == IF c.app.eof THEN 1 ELSE 0
        <4>3. x \in Nat /\ y \in Nat /\ one \in Nat
          BY <2>3, <2>9, HoldingType
        <4>4. Holding(c.p, c.app) = x + y + one
          BY <4>1 DEF Holding
        <4>5. Holding(d.p, d.app) = (x + y) + 0 + one
          BY <4>1, <4>2 DEF Holding
        <4> HIDE DEF x, y, one
        <4> QED BY <4>3, <4>4, <4>5
      <3>2. Goes(e, c, d)
        BY <2>2, <2>7, <2>8, <3>1 DEF Goes, Stands, CountsOn
      <3> QED BY <2>1, <2>11, <3>2
    <2>12. CASE r.fin
      <3> DEFINE f == Closed(d)
      <3>1. d.p.state \notin Early \cup {"ESTABLISHED", "FIN_WAIT_1", "FIN_WAIT_2"}
        BY <2>2, <2>7, <2>12
      <3>2. /\ Passes(e, d, f)
            /\ c.app.use # "closed" =>
                 /\ f.p.state = d.p.state /\ f.p.refused = d.p.refused
                 /\ f.p.rcv_nxt = d.p.rcv_nxt /\ f.app.got = d.app.got /\ f.app.eof
        BY <2>8, <3>1, ClosedType DEF Passes
      <3> HIDE DEF f
      <3>3. Passes(e, c, f)
        BY <2>8, <3>2 DEF Passes
      <3>4. IsPcb(f.p) /\ IsApp(f.app)
        BY <3>3 DEF Passes, Right, IsContext
      <3>5. c.app.use # "closed" => Holding(f.p, f.app) = Holding(c.p, c.app)
        <4> SUFFICES ASSUME c.app.use # "closed" PROVE Holding(f.p, f.app) = Holding(c.p, c.app)
          OBVIOUS
        <4>1. /\ f.p.state = d.p.state /\ f.p.refused = d.p.refused
              /\ f.app.got = d.app.got /\ f.app.eof
          BY <3>2
        <4>2. c.p.refused.fin /\ c.p.state \notin Early /\ f.p.state \notin Early
              /\ Len(c.p.refused.data) = Len(r.data) /\ Len(f.p.refused.data) = 0
          BY <2>2, <2>7, <2>12, <4>1, NothingType DEF r
        <4>3. Len(f.app.got) = Len(c.app.got) + Len(r.data) /\ Len(c.app.got) \in Nat
          BY <2>9, <2>10, <4>1, HoldingType
        <4>4. f.app.eof \/ f.p.refused.fin
          BY <4>1
        <4> DEFINE x == Len(c.app.got)
                   y == Len(r.data)
        <4>5. x \in Nat /\ y \in Nat
          BY <2>3, <4>3
        <4>6. Holding(c.p, c.app) = x + y + 1
          BY <4>2 DEF Holding
        <4>7. Holding(f.p, f.app) = (x + y) + 0 + 1
          BY <4>2, <4>3, <4>4 DEF Holding
        <4> HIDE DEF x, y
        <4> QED BY <4>5, <4>6, <4>7
      <3>6. Goes(e, c, f)
        BY <2>2, <2>7, <3>2, <3>3, <3>5 DEF Goes, Stands, CountsOn
      <3> QED BY <2>1, <2>12, <3>6 DEF f
    <2> QED BY <2>11, <2>12
  <1> QED BY <1>1, <1>2

\* A segment with text or a FIN; what is held once nothing is refused.
LEMMA SomeText ==
    ASSUME NEW t \in Refusals
    PROVE  t = Nothing <=> t.data = <<>> /\ ~t.fin
  BY DEF Refusals, Nothing

LEMMA HoldingIs ==
    ASSUME NEW p, NEW a, NEW x \in Nat, Len(a.got) = x, p.refused = Nothing, p.state \notin Early
    PROVE  (a.eof => Holding(p, a) = x + 1) /\ (~a.eof => Holding(p, a) = x)
  <1>1. Len(p.refused.data) = 0 /\ ~p.refused.fin
    BY NothingType
  <1>2. a.eof => Holding(p, a) = x + 0 + 1
    BY <1>1 DEF Holding
  <1>3. ~a.eof => Holding(p, a) = x + 0 + 0
    BY <1>1 DEF Holding
  <1> QED BY <1>2, <1>3

\* What tcp_process has taken is new to the application.
Ready(c) ==
    /\ c.text # Nothing => c.p.state \notin Early /\ c.p.refused = Nothing /\ ~c.app.eof
    /\ c.text.fin => c.p.state \notin {"ESTABLISHED", "FIN_WAIT_1", "FIN_WAIT_2"}

\* d holds what c held, and the text.
Gets(e, c, t, d) ==
    /\ Right(e, d) /\ Owed(d) = Owed(c) /\ d.down = c.down /\ d.app.use = c.app.use
    /\ d.p.state \notin Early /\ CountsOn(e, c.app) =>
          /\ c.p.state \notin Early /\ d.p.rcv_nxt = c.p.rcv_nxt
          /\ Holding(d.p, d.app) = Holding(c.p, c.app) + TextLen(t)

LEMMA GetsOutput ==
    ASSUME NEW e, NEW c, NEW t, NEW d, Gets(e, c, t, d)
    PROVE  Gets(e, c, t, Output(d))
  BY OutputGoes DEF Gets, Goes, Passes, Stands, CountsOn

LEMMA GoneGets ==
    ASSUME NEW e, NEW c, NEW t, NEW d, Gone(e, c, d)
    PROVE  Gets(e, c, t, d)
  BY NewPcbType DEF Gone, Gets, Right, Early

\* The application refuses the text: tcp_input keeps it in refused_data.
LEMMA RefuseGets ==
    ASSUME NEW e, NEW c, Right(e, c), NEW t \in Refusals, c.p.refused = Nothing, ~c.app.eof,
           c.p.state \notin Early, e \in Refusers,
           t.fin => c.p.state \notin {"ESTABLISHED", "FIN_WAIT_1", "FIN_WAIT_2"}
    PROVE  Gets(e, c, t, [c EXCEPT !.p.refused = t])
  <1> DEFINE q == [c.p EXCEPT !.refused = t]
             d == [c EXCEPT !.p = q]
  <1>1. /\ IsPcb(q) /\ q.refused = t /\ q.state = c.p.state /\ q.rcv_nxt = c.p.rcv_nxt
        /\ q.rxClosed = c.p.rxClosed /\ q.closePend = c.p.closePend
        /\ q.backlogPend = c.p.backlogPend /\ (Timed(c.p) => Timed(q))
    BY ZenonT(60) DEF Right, IsContext, IsPcb, PcbFields, Timed
  <1> HIDE DEF q
  <1>2. IsContext(d) /\ d.p = q /\ Beside(c, d) /\ d.pending = c.pending
    BY <1>1, PcbChange DEF Right
  <1> HIDE DEF d
  <1>3. HostOK(e, d.p, d.app)
    BY <1>1, <1>2 DEF Right, HostOK, Early, Beside
  <1>4. Owed(d) = Owed(c)
    BY <1>1, <1>2 DEF Owed
  <1>5. Holding(d.p, d.app) = Holding(c.p, c.app) + TextLen(t)
    <2> DEFINE x == Len(c.app.got)
               y == Len(t.data)
               one == IF t.fin THEN 1 ELSE 0
    <2>1. x \in Nat /\ y \in Nat /\ one \in Nat
      BY HoldingType, TextLenType DEF Right, IsContext
    <2>2. Holding(c.p, c.app) = x + 0 + 0
      BY NothingType DEF Holding
    <2>3. Holding(d.p, d.app) = x + y + one
      BY <1>1, <1>2 DEF Holding, Beside
    <2>4. TextLen(t) = y + one
      BY DEF TextLen
    <2> HIDE DEF x, y, one
    <2> QED BY <2>1, <2>2, <2>3, <2>4
  <1>6. Gets(e, c, t, d)
    BY <1>1, <1>2, <1>3, <1>4, <1>5 DEF Gets, Right, Beside
  <1> QED BY <1>6 DEF d, q

\* The application takes the text, and the end of the stream if it comes with it.
LEMMA AcceptGets ==
    ASSUME NEW e, NEW c, Right(e, c), NEW t \in Refusals, c.p.refused = Nothing, ~c.app.eof,
           c.p.state \notin Early,
           t.fin => c.p.state \notin {"ESTABLISHED", "FIN_WAIT_1", "FIN_WAIT_2"}
    PROVE  /\ t.data = <<>> /\ t.fin => Gets(e, c, t, Closed(c))
           /\ t.fin => Gets(e, c, t, Closed(Take(c, t.data)))
           /\ ~t.fin => Gets(e, c, t, Take(c, t.data))
  <1> DEFINE x == Len(c.app.got)
             y == Len(t.data)
  <1>1. /\ x \in Nat /\ y \in Nat /\ t.data \in Seq(Nat) /\ c.app.got \in Seq(Nat)
        /\ (t.fin => TextLen(t) = y + 1) /\ (~t.fin => TextLen(t) = y)
        /\ Holding(c.p, c.app) = x + 0 + 0
    <2>1. x \in Nat /\ y \in Nat /\ t.data \in Seq(Nat) /\ c.app.got \in Seq(Nat)
      BY HoldingType, TextLenType DEF Right, IsContext, IsApp
    <2>2. (t.fin => TextLen(t) = y + 1) /\ (~t.fin => TextLen(t) = y)
      BY TextLenType
    <2>3. Holding(c.p, c.app) = x + 0 + 0
      BY NothingType DEF Holding
    <2> QED BY <2>1, <2>2, <2>3
  <1>2. CountsOn(e, c.app) => c.app.use # "closed"
    BY DEF CountsOn
  <1>3. ASSUME t.data = <<>>, t.fin PROVE Gets(e, c, t, Closed(c))
    <2> DEFINE f == Closed(c)
    <2>1. c.p.state \notin Early \cup {"ESTABLISHED", "FIN_WAIT_1", "FIN_WAIT_2"}
      BY <1>3
    <2>2. /\ Passes(e, c, f)
          /\ c.app.use # "closed" =>
                /\ f.p.state = c.p.state /\ f.p.refused = c.p.refused
                /\ f.p.rcv_nxt = c.p.rcv_nxt /\ f.app.got = c.app.got /\ f.app.eof
      BY <2>1, ClosedType
    <2> HIDE DEF f
    <2>3. c.app.use # "closed" => Holding(f.p, f.app) = x + 1
      <3>1. c.app.use # "closed" => /\ Len(f.app.got) = x /\ f.p.refused = Nothing
                                    /\ f.p.state \notin Early /\ f.app.eof
        BY <2>2
      <3> HIDE DEF x
      <3> QED BY <1>1, <3>1, HoldingIs
    <2>4. y = 0
      BY <1>3
    <2> HIDE DEF x, y
    <2>5. c.app.use # "closed" => Holding(f.p, f.app) = Holding(c.p, c.app) + TextLen(t)
      BY <1>1, <1>3, <2>3, <2>4
    <2>6. Gets(e, c, t, f)
      BY <1>2, <2>2, <2>5 DEF Gets, Passes
    <2> QED BY <2>6 DEF f
  <1> DEFINE d == Take(c, t.data)
  <1>4. /\ Passes(e, c, d) /\ d.p.state = c.p.state /\ d.p.refused = Nothing
        /\ d.p.rcv_nxt = c.p.rcv_nxt
        /\ c.app.use # "closed" => d.app.got = c.app.got \o t.data /\ d.app.eof = c.app.eof
    BY ZenonT(60), <1>1, TakeType
  <1> HIDE DEF d
  <1>5. c.app.use # "closed" => Len(d.app.got) = x + y
    <2>1. Len(c.app.got \o t.data) = x + y
      BY <1>1
    <2> QED BY <1>4, <2>1
  <1>6. ASSUME ~t.fin PROVE Gets(e, c, t, d)
    <2>1. c.app.use # "closed" => Holding(d.p, d.app) = x + y
      <3>1. c.app.use # "closed" => /\ Len(d.app.got) = x + y /\ d.p.refused = Nothing
                                    /\ d.p.state \notin Early /\ ~d.app.eof
        BY <1>4, <1>5
      <3> HIDE DEF x, y
      <3>2. x + y \in Nat
        BY <1>1
      <3> QED BY <3>1, <3>2, HoldingIs
    <2> HIDE DEF x, y
    <2>2. c.app.use # "closed" => Holding(d.p, d.app) = Holding(c.p, c.app) + TextLen(t)
      BY <1>1, <1>6, <2>1
    <2> QED BY <1>2, <1>4, <2>2 DEF Gets, Passes
  <1>7. ASSUME t.fin PROVE Gets(e, c, t, Closed(d))
    <2> DEFINE f == Closed(d)
    <2>1. d.p.state \notin Early \cup {"ESTABLISHED", "FIN_WAIT_1", "FIN_WAIT_2"}
      BY <1>4, <1>7
    <2>2. /\ Passes(e, d, f)
          /\ c.app.use # "closed" =>
                /\ f.p.state = d.p.state /\ f.p.refused = d.p.refused
                /\ f.p.rcv_nxt = d.p.rcv_nxt /\ f.app.got = d.app.got /\ f.app.eof
      BY <1>4, <2>1, ClosedType DEF Passes
    <2> HIDE DEF f
    <2>3. c.app.use # "closed" => Holding(f.p, f.app) = x + y + 1
      <3>1. c.app.use # "closed" => /\ Len(f.app.got) = x + y /\ f.p.refused = Nothing
                                    /\ f.p.state \notin Early /\ f.app.eof
        BY <1>4, <1>5, <2>2
      <3> HIDE DEF x, y
      <3>2. x + y \in Nat
        BY <1>1
      <3> QED BY <3>1, <3>2, HoldingIs
    <2> HIDE DEF x, y
    <2>4. c.app.use # "closed" => Holding(f.p, f.app) = Holding(c.p, c.app) + TextLen(t)
      BY <1>1, <1>7, <2>3
    <2>5. Gets(e, c, t, f)
      BY <1>2, <1>4, <2>2, <2>4 DEF Gets, Passes
    <2> QED BY <2>5 DEF f
  <1> QED BY <1>3, <1>6, <1>7 DEF d

\* tcp_input after tcp_process.
LEMMA DeliverGets ==
    ASSUME NEW e, NEW c, Right(e, c), Ready(c), ~c.freed, NEW ok \in BOOLEAN, ~ok => e \in Refusers
    PROVE  Gets(e, c, c.text, Deliver(c, ok))
  <1> DEFINE t == c.text
             refused == t.data # <<>> /\ ~ok
             d == CASE t.data = <<>> -> c
                    [] t.data # <<>> /\ ok -> Take(c, t.data)
                    [] OTHER -> [c EXCEPT !.p.refused = t]
             f == IF t.fin /\ ~refused THEN Closed(d) ELSE d
  <1>1. Deliver(c, ok) = IF t.data # <<>> /\ c.p.rxClosed THEN Abort(c)
                         ELSE IF f.freed THEN f ELSE Output(f)
    BY DEF Deliver
  <1>2. t \in Refusals /\ IsContext(c) /\ t.fin \in BOOLEAN
    BY TextLenType DEF Right, IsContext
  <1>3. Gets(e, c, t, f)
    <2>1. CASE t = Nothing
      <3>1. t.data = <<>> /\ ~t.fin
        BY <1>2, <2>1, SomeText
      <3>2. f = c
        BY <3>1
      <3>3. Holding(c.p, c.app) + TextLen(t) = Holding(c.p, c.app)
        <4>1. Holding(c.p, c.app) \in Nat /\ TextLen(t) = 0
          BY <2>1, NothingType, HoldingType DEF Right, IsContext
        <4> HIDE DEF t
        <4> QED BY <4>1
      <3> HIDE DEF f
      <3> QED BY <3>2, <3>3 DEF Gets
    <2>2. CASE t # Nothing
      <3>1. /\ c.p.refused = Nothing /\ ~c.app.eof /\ c.p.state \notin Early
            /\ t.fin => c.p.state \notin {"ESTABLISHED", "FIN_WAIT_1", "FIN_WAIT_2"}
        BY <2>2 DEF Ready
      <3>2. /\ t.data = <<>> /\ t.fin => Gets(e, c, t, Closed(c))
            /\ t.fin => Gets(e, c, t, Closed(Take(c, t.data)))
            /\ ~t.fin => Gets(e, c, t, Take(c, t.data))
        BY <1>2, <3>1, AcceptGets
      <3>3. refused => Gets(e, c, t, [c EXCEPT !.p.refused = t])
        BY <1>2, <3>1, RefuseGets
      <3>4. t.data = <<>> => t.fin
        BY <1>2, <2>2, SomeText
      <3> DEFINE g == Take(c, t.data)
                 h == [c EXCEPT !.p.refused = t]
      <3>5. \/ t.data = <<>> /\ t.fin /\ f = Closed(c)
            \/ t.data # <<>> /\ ok /\ t.fin /\ f = Closed(g)
            \/ t.data # <<>> /\ ok /\ ~t.fin /\ f = g
            \/ refused /\ f = h
        <4> HIDE DEF g, h
        <4>1. d = CASE t.data = <<>> -> c [] t.data # <<>> /\ ok -> g [] OTHER -> h
          BY DEF g, h
        <4> HIDE DEF d
        <4> QED BY <3>4, <4>1
      <3> HIDE DEF g, h, f, refused, t
      <3> QED BY <3>2, <3>3, <3>5 DEF g, h
    <2> QED BY <2>1, <2>2
  <1>4. t.data # <<>> /\ c.p.rxClosed => Gets(e, c, t, Abort(c))
    <2> SUFFICES ASSUME t.data # <<>>, c.p.rxClosed PROVE Gets(e, c, t, Abort(c))
      OBVIOUS
    <2>1. t # Nothing /\ c.p.state \notin Early
      BY <1>2, SomeText DEF Ready
    <2>2. c.app.use = "closed" /\ AppOK(e, c.app) /\ ~c.p.backlogPend
      BY <2>1, RightAppOK DEF Right, HostOK, Early
    <2>3. Gone(e, c, Abort(c))
      BY <1>2, <2>2, AbortGone
    <2> QED BY <2>3, GoneGets
  <1> HIDE DEF t, f
  <1>5. Gets(e, c, t, Output(f))
    BY <1>3, GetsOutput
  <1> QED BY <1>1, <1>3, <1>4, <1>5 DEF t

-----------------------------------------------------------------------------
(* tcp_process.                                                             *)

\* tcp_process moves rcv_nxt by what it takes, and the application sees nothing
\* of it yet.
Arrives(e, c, d) ==
    /\ Right(e, d) /\ Owed(d) = Owed(c) /\ d.down = c.down
    /\ d.freed => d.p.state \in Early
    /\ ~d.freed => Ready(d)
    /\ c.p.state \notin Early => d.app.use = c.app.use
    /\ d.p.state \notin Early /\ CountsOn(e, d.app) =>
          /\ Holding(d.p, d.app) = Holding(c.p, c.app)
          /\ c.p.state = "SYN_SENT" => TextLen(d.text) = 0 /\ Holding(c.p, c.app) = 0
          /\ c.p.state # "SYN_SENT" => d.p.rcv_nxt = Add(c.p.rcv_nxt, TextLen(d.text))

LEMMA GoesArrives ==
    ASSUME NEW e, NEW c, NEW d, IsContext(c), Goes(e, c, d), d.text = Nothing,
           d.freed => d.p.state \in Early
    PROVE  Arrives(e, c, d)
  <1>1. c.p.rcv_nxt \in Seqs
    BY DEF IsContext, IsPcb
  <1>2. Add(c.p.rcv_nxt, TextLen(d.text)) = c.p.rcv_nxt /\ TextLen(d.text) = 0
    BY <1>1, NothingType, AddNothing
  <1>3. Ready(d)
    BY NothingType DEF Ready
  <1>4. d.p.state \notin Early /\ CountsOn(e, d.app) =>
            c.p.state \notin Early /\ d.p.rcv_nxt = c.p.rcv_nxt
            /\ Holding(d.p, d.app) = Holding(c.p, c.app)
    BY DEF Goes, Passes, Stands, CountsOn
  <1> QED BY <1>2, <1>3, <1>4 DEF Arrives, Goes, Passes, Early

LEMMA GoneArrives ==
    ASSUME NEW e, NEW c, NEW d, Gone(e, c, d)
    PROVE  Arrives(e, c, d)
  BY NewPcbType DEF Gone, Arrives, Right, Early

\* TF_RESET.
LEMMA ProcessRstArrives ==
    ASSUME NEW e, NEW c, Right(e, c), c.text = Nothing, ~c.freed, NEW m \in Messages
    PROVE  Arrives(e, c, ProcessRst(c, m))
  <1> DEFINE g == Failed(Free(Purge(c)))
  <1>1. ProcessRst(c, m) \in {g, AckNow(c), c}
    BY DEF ProcessRst
  <1>2. Gone(e, c, g)
    <2>1. IsContext(c) /\ AppOK(e, c.app)
      BY RightAppOK DEF Right
    <2>2. c.p.state \in {"CLOSED", "TIME_WAIT"} => ~c.p.backlogPend
      BY DEF Right, HostOK
    <2> QED BY <2>1, <2>2, PurgeGone
  <1> HIDE DEF g
  <1>3. Arrives(e, c, c)
    BY GoesNowhere, GoesArrives DEF Right
  <1>4. Arrives(e, c, AckNow(c))
    <2>1. Goes(e, c, AckNow(c))
      BY AckNowGoes
    <2>2. Along(c, AckNow(c))
      BY AckNowSends, SendsAlong DEF Right
    <2>3. AckNow(c).text = Nothing /\ ~AckNow(c).freed
      BY <2>2 DEF Along, Beside
    <2> QED BY <2>1, <2>3, GoesArrives DEF Right
  <1> QED BY <1>1, <1>2, <1>3, <1>4, GoneArrives

\* The connection is there: what tcp_process does in SYN_SENT.
Connected(p, m, unacked, unsent, rtime, nrtx) ==
    [p EXCEPT !.state = "ESTABLISHED",
              !.rcv_nxt = Add(m.seq, 1), !.edge = Add(m.seq, 1),
              !.lastack = m.ack, !.snd_wnd = m.wnd,
              !.snd_wl1 = Add(m.seq, -1), !.cwnd = TcpWnd,
              !.unacked = unacked, !.unsent = unsent,
              !.rtime = rtime, !.nrtx = nrtx]

LEMMA ConnectedType ==
    ASSUME NEW p, IsPcb(p), NEW m \in Messages, NEW unacked \in Queues, NEW unsent \in Queues,
           NEW rtime \in BOOLEAN, NEW nrtx \in Bytes
    PROVE  /\ IsPcb(Connected(p, m, unacked, unsent, rtime, nrtx))
           /\ Connected(p, m, unacked, unsent, rtime, nrtx).state = "ESTABLISHED"
           /\ Connected(p, m, unacked, unsent, rtime, nrtx).refused = p.refused
           /\ Connected(p, m, unacked, unsent, rtime, nrtx).rxClosed = p.rxClosed
           /\ Connected(p, m, unacked, unsent, rtime, nrtx).closePend = p.closePend
           /\ Connected(p, m, unacked, unsent, rtime, nrtx).backlogPend = p.backlogPend
           /\ Connected(p, m, unacked, unsent, rtime, nrtx).unacked = unacked
           /\ Connected(p, m, unacked, unsent, rtime, nrtx).rtime = rtime
           /\ Connected(p, m, unacked, unsent, rtime, nrtx).persist = p.persist
  <1> DEFINE next == Add(m.seq, 1)
             wl1 == Add(m.seq, -1)
             q == [p EXCEPT !.state = "ESTABLISHED",
                              !.rcv_nxt = next, !.edge = next,
                              !.lastack = m.ack, !.snd_wnd = m.wnd,
                              !.snd_wl1 = wl1, !.cwnd = TcpWnd,
                              !.unacked = unacked, !.unsent = unsent,
                              !.rtime = rtime, !.nrtx = nrtx]
             r == [p EXCEPT !.state = "ESTABLISHED", !.rcv_nxt = next, !.edge = next,
                            !.lastack = m.ack, !.snd_wnd = m.wnd, !.snd_wl1 = wl1]
  <1>1. next \in Seqs /\ wl1 \in Seqs
    BY MessageFields, SeqNumber
  <1>2. TcpWnd \in CongestionWindows /\ "ESTABLISHED" \in States
    BY TcpAssumption DEF CongestionWindows, States
  <1> HIDE DEF next, wl1
  <1>3. /\ IsPcb(r) /\ r.state = "ESTABLISHED" /\ r.refused = p.refused
        /\ r.rxClosed = p.rxClosed /\ r.closePend = p.closePend
        /\ r.backlogPend = p.backlogPend /\ r.persist = p.persist
    BY ZenonT(60), <1>1, <1>2, MessageFields DEF IsPcb, PcbFields
  <1>4. q = [r EXCEPT !.cwnd = TcpWnd, !.unacked = unacked, !.unsent = unsent,
                      !.rtime = rtime, !.nrtx = nrtx]
    OBVIOUS
  <1> HIDE DEF q, r
  <1>5. /\ IsPcb(q) /\ q.state = "ESTABLISHED" /\ q.refused = p.refused
        /\ q.rxClosed = p.rxClosed /\ q.closePend = p.closePend
        /\ q.backlogPend = p.backlogPend /\ q.persist = p.persist
        /\ q.unacked = unacked /\ q.rtime = rtime
    BY ZenonT(60), <1>2, <1>3, <1>4 DEF IsPcb, PcbFields
  <1>6. Connected(p, m, unacked, unsent, rtime, nrtx) = q
    BY DEF Connected, q, next, wl1
  <1> QED BY <1>5, <1>6

\* tcp_process in SYN_SENT.
LEMMA ProcessSynSentArrives ==
    ASSUME NEW e, NEW c, Right(e, c), c.text = Nothing, ~c.freed, NEW m \in Messages,
           c.p.state = "SYN_SENT"
    PROVE  Arrives(e, c, ProcessSynSent(c, m))
  <1> DEFINE p == c.p
             unsent == IF p.unacked = <<>> THEN Tail(p.unsent) ELSE p.unsent
             unacked == IF p.unacked = <<>> THEN <<>> ELSE Tail(p.unacked)
             rtime == unacked # <<>>
             nrtx == IF unacked # <<>> THEN 0 ELSE p.nrtx
             q == Connected(p, m, unacked, unsent, rtime, nrtx)
             a == [c.app EXCEPT !.use = "open"]
             b == [c EXCEPT !.p = q]
             f == [b EXCEPT !.app = a]
             r == SendRst(c, m.ack, Add(m.seq, TcpLen(m)))
             again == [r.p EXCEPT !.unsent = p.unacked \o @, !.unacked = <<>>,
                                  !.nrtx = IF p.unacked # <<>> THEN More(@) ELSE @,
                                  !.rtime = TRUE]
             s == [r EXCEPT !.p = again]
  <1>1. ProcessSynSent(c, m) \in {AckNow(f), s, r, c}
    <2>1. [c EXCEPT !.p = q, !.app.use = "open"] = f
      <3>1. [c EXCEPT !.p = q, !.app.use = "open"] = [c EXCEPT !.p = q, !.app = a]
        BY Zenon DEF a
      <3> HIDE DEF q, a
      <3>2. [c EXCEPT !.p = q, !.app = a] = f
        BY DEF Right, IsContext, ContextFields
      <3> QED BY <3>1, <3>2
    <2>2. ProcessSynSent(c, m) =
            CASE m.isAck /\ m.syn /\ m.ack = Add(p.lastack, 1) ->
                    AckNow([c EXCEPT !.p = q, !.app.use = "open"])
              [] m.isAck /\ ~(m.syn /\ m.ack = Add(p.lastack, 1)) ->
                    IF p.nrtx < SynMaxRtx THEN s ELSE r
              [] OTHER -> c
      BY Zenon DEF ProcessSynSent, Connected
    <2> HIDE DEF f, s, r, q, p
    <2> QED BY <2>1, <2>2
  <1>2. IsContext(c) /\ IsPcb(p) /\ IsApp(c.app) /\ p.unacked \in Queues /\ p.unsent \in Queues
        /\ p.nrtx \in Bytes /\ p.rcv_nxt \in Seqs
    BY DEF Right, IsContext, IsPcb
  <1>3. /\ c.app.use = "connecting" /\ ~c.app.eof /\ c.app.got = <<>> /\ p.refused = Nothing
        /\ ~p.rxClosed /\ ~p.closePend /\ ~p.backlogPend /\ Waiting(p)
        /\ c.app.read <= Len(c.app.got) /\ c.app.wrote <= MaxWrite[e]
    BY DEF Right, HostOK, Early
  <1>4. unacked \in Queues /\ unsent \in Queues /\ rtime \in BOOLEAN /\ nrtx \in Bytes
    <2>1. unacked \in Queues /\ unsent \in Queues
      BY <1>2, <1>3, QueueTypes DEF Waiting
    <2>2. 0 \in Bytes
      BY DEF Bytes
    <2> HIDE DEF unacked, unsent, p
    <2> QED BY <1>2, <2>1, <2>2
  <1>5. Arrives(e, c, AckNow(f))
    <2> HIDE DEF unacked, unsent, rtime, nrtx
    <2>1. /\ IsPcb(q) /\ q.state = "ESTABLISHED" /\ q.refused = Nothing
          /\ ~q.rxClosed /\ ~q.closePend /\ ~q.backlogPend /\ Timed(q)
      <3>1. /\ IsPcb(q) /\ q.state = "ESTABLISHED" /\ q.refused = p.refused
            /\ q.rxClosed = p.rxClosed /\ q.closePend = p.closePend
            /\ q.backlogPend = p.backlogPend
            /\ q.unacked = unacked /\ q.rtime = rtime /\ q.persist = p.persist
        <4> HIDE DEF p
        <4> QED BY <1>2, <1>4, ConnectedType
      <3>2. Timed(p) /\ (unacked # <<>> => p.unacked # <<>>) /\ rtime = (unacked # <<>>)
        BY DEF Right, HostOK, unacked, rtime
      <3> HIDE DEF q, p
      <3> QED BY <1>3, <3>1, <3>2 DEF Timed
    <2> HIDE DEF q
    <2>2. IsContext(b) /\ b.p = q /\ Beside(c, b) /\ b.pending = c.pending
      BY <1>2, <2>1, PcbChange
    <2> HIDE DEF b
    <2>3. /\ IsApp(a) /\ a.use = "open" /\ a.got = <<>> /\ ~a.eof /\ a.read = c.app.read
          /\ a.wrote = c.app.wrote
      BY <1>2, <1>3 DEF IsApp, AppFields, Uses
    <2> HIDE DEF a
    <2>4. /\ IsContext(f) /\ f.p = q /\ f.app = a /\ f.pending = c.pending
          /\ f.text = Nothing /\ f.freed = c.freed /\ f.down = c.down
      BY <2>2, <2>3, AppChange DEF Beside
    <2> HIDE DEF f
    <2>5. Right(e, f)
      <3>1. ~q.refused.fin
        BY <2>1, NothingType
      <3>2. a.read <= Len(a.got) /\ a.wrote <= MaxWrite[e]
        BY <1>3, <2>3
      <3> QED BY <2>1, <2>3, <2>4, <3>1, <3>2 DEF Right, HostOK, Early, Ending
    <2>6. Owed(f) = Owed(c)
      BY <1>3, <2>1, <2>4 DEF Owed
    <2> DEFINE d == AckNow(f)
    <2>7. Goes(e, f, d)
      BY <2>5, AckNowGoes
    <2>8. Along(f, d) /\ d.p.refused = f.p.refused
      BY <2>4, AckNowSends, SendsAlong
    <2> HIDE DEF d
    <2>9. /\ Right(e, d) /\ Owed(d) = Owed(c) /\ d.down = c.down /\ ~d.freed
          /\ d.text = Nothing /\ d.p.state = "ESTABLISHED" /\ d.p.refused = Nothing
          /\ d.app = a
      BY <2>1, <2>4, <2>6, <2>7, <2>8 DEF Goes, Passes, Along, Beside
    <2>10. Holding(d.p, d.app) = 0 /\ Holding(c.p, c.app) = 0
      <3>1. Len(d.app.got) = 0 /\ d.p.state \notin Early /\ ~d.app.eof
        BY <2>3, <2>9 DEF Early
      <3>2. Holding(d.p, d.app) = 0
        BY <2>9, <3>1, HoldingIs
      <3> QED BY <3>2 DEF Holding, Early
    <2>11. Ready(d) /\ TextLen(d.text) = 0
      BY <2>9, NothingType DEF Ready
    <2> QED BY <2>9, <2>10, <2>11 DEF Arrives, d, Early
  <1>6. Goes(e, c, r) /\ r.text = Nothing /\ ~r.freed /\ r.p = p /\ IsContext(r)
    <2>1. m.ack \in Seqs /\ Add(m.seq, TcpLen(m)) \in Seqs
      BY MessageFields
    <2>2. Goes(e, c, r) /\ Sends(c, r) /\ r.p = p
      BY <1>2, <2>1, SendRstGoes, SendRstSends
    <2> HIDE DEF r
    <2>3. Along(c, r)
      BY <2>2, SendsAlong
    <2> QED BY <2>2, <2>3 DEF Along, Beside
  <1>7. Arrives(e, c, r)
    <2> HIDE DEF r
    <2> QED BY <1>2, <1>6, GoesArrives
  <1>8. Arrives(e, c, s)
    <2> HIDE DEF r
    <2> DEFINE u == p.unacked \o p.unsent
               n == IF p.unacked # <<>> THEN More(p.nrtx) ELSE p.nrtx
               k == [p EXCEPT !.unsent = u, !.unacked = <<>>, !.nrtx = n, !.rtime = TRUE]
    <2>1. u \in Queues /\ u # <<>> /\ n \in Bytes /\ <<>> \in Queues
      <3>1. u \in Queues /\ u # <<>>
        BY <1>2, <1>3, QueueTypes DEF Waiting
      <3>2. n \in Bytes
        BY <1>2, MoreType
      <3> QED BY <3>1, <3>2, QueueTypes
    <2>2. again = k
      BY <1>6
    <2> HIDE DEF u, n
    <2>3. IsPcb(k) /\ Unmoved(p, k) /\ Waiting(k)
      BY ZenonT(60), <1>2, <2>1 DEF IsPcb, PcbFields, Unmoved, Timed, Waiting
    <2> HIDE DEF k, again
    <2>4. Sends(r, s) /\ s.p = again
      <3>1. Unmoved(r.p, again) /\ IsPcb(again)
        BY <1>6, <2>2, <2>3
      <3> QED BY <1>6, <3>1, MovesPcb, PcbChange
    <2> HIDE DEF s
    <2>5. Goes(e, r, s)
      <3>1. Right(e, r) /\ Waiting(s.p)
        BY <1>6, <2>2, <2>3, <2>4 DEF Goes, Passes
      <3> QED BY <2>4, <3>1, SendsGoes
    <2>6. Along(r, s)
      BY <2>4, SendsAlong
    <2>7. Goes(e, c, s) /\ s.text = Nothing /\ ~s.freed
      BY <1>6, <2>5, <2>6, GoesTwice DEF Along, Beside
    <2> QED BY <1>2, <2>7, GoesArrives
  <1>9. Arrives(e, c, c)
    BY <1>2, GoesNowhere, GoesArrives
  <1> HIDE DEF f, s, r
  <1> QED BY <1>1, <1>5, <1>7, <1>8, <1>9

\* A pcb of which nothing but the pcb changed is freed.
LEMMA GoneFrom ==
    ASSUME NEW e, NEW c, NEW b, NEW d, Gone(e, b, d),
           b.down = c.down, b.text = c.text, b.app = c.app, Owed(b) = Owed(c)
    PROVE  Gone(e, c, d)
  BY DEF Gone

LEMMA TextOrNothing ==
    ASSUME NEW c, NEW d, IsContext(c), c.text = Nothing,
           \/ d.text = c.text /\ d.p.rcv_nxt = c.p.rcv_nxt
           \/ TakesUpTo(c, d)
    PROVE  d.p.rcv_nxt = Add(c.p.rcv_nxt, TextLen(d.text))
  <1>1. c.p.rcv_nxt \in Seqs
    BY DEF IsContext, IsPcb
  <1>2. Add(c.p.rcv_nxt, 0) = c.p.rcv_nxt /\ TextLen(Nothing) = 0
    BY <1>1, AddNothing, NothingType
  <1> QED BY <1>2 DEF TakesUpTo

\* The acknowledgement of the SYN, and an application that takes the connection.
LEMMA AcceptedArrives ==
    ASSUME NEW e, NEW c, Right(e, c), c.text = Nothing, ~c.freed, NEW m \in Messages,
           c.p.state = "SYN_RCVD",
           NEW b, Turns(c, b), b.p.state = "ESTABLISHED",
           NEW a, IsApp(a), a.use = "open", a.got = <<>>, ~a.eof, a.read = 0, a.wrote = 0,
           MaxWrite[e] \in Nat
    PROVE  LET accepted == BacklogAccepted(b)
               d == Receive([accepted EXCEPT !.app = a], m)
               f == [d EXCEPT !.p.cwnd = TcpWnd]
           IN  Arrives(e, c, IF f.text.fin THEN Become(AckNow(f), "CLOSE_WAIT") ELSE f)
  <1> DEFINE accepted == BacklogAccepted(b)
             g == [accepted EXCEPT !.app = a]
             d == Receive(g, m)
             q == [d.p EXCEPT !.cwnd = TcpWnd]
             f == [d EXCEPT !.p = q]
             h == Become(AckNow(f), "CLOSE_WAIT")
             r == IF f.text.fin THEN h ELSE f
  <1>1. /\ Along(b, accepted) /\ ~accepted.p.backlogPend /\ accepted.p.refused = b.p.refused
    BY BacklogAcceptedAlong DEF Turns
  <1> HIDE DEF accepted
  <1>2. /\ IsContext(g) /\ g.app = a /\ g.p = accepted.p /\ g.pending = accepted.pending
        /\ g.text = accepted.text /\ g.freed = accepted.freed /\ g.down = accepted.down
    BY <1>1, AppChange DEF Along
  <1> HIDE DEF g
  <1>3. /\ Owed(g) = Owed(c) /\ g.text = Nothing /\ ~g.freed /\ g.down = c.down
        /\ g.p.state = "ESTABLISHED" /\ g.p.rcv_nxt = c.p.rcv_nxt /\ g.p.refused = Nothing
        /\ ~g.p.rxClosed /\ ~g.p.closePend /\ ~g.p.backlogPend /\ Timed(g.p)
    <2>1. c.p.refused = Nothing /\ ~c.p.rxClosed /\ ~c.p.closePend /\ Timed(c.p)
      BY DEF Right, HostOK, Early
    <2>2. Owed(g) = Owed(c)
      BY <1>1, <1>2 DEF Owed, Along, Turns
    <2> QED BY <1>1, <1>2, <2>1, <2>2 DEF Along, Turns, Beside
  <1>4. /\ Leaves(g, d)
        /\ \/ d.text = g.text /\ d.p.rcv_nxt = g.p.rcv_nxt
           \/ TakesUpTo(g, d)
    BY <1>2, ReceiveTakes
  <1>5. d.p.rcv_nxt = Add(c.p.rcv_nxt, TextLen(d.text))
    <2> HIDE DEF d
    <2>1. d.p.rcv_nxt = Add(g.p.rcv_nxt, TextLen(d.text))
      BY <1>2, <1>3, <1>4, TextOrNothing
    <2> QED BY <1>3, <2>1
  <1> HIDE DEF d
  <1>6. /\ IsPcb(q) /\ q.state = "ESTABLISHED" /\ q.refused = Nothing /\ ~q.rxClosed
        /\ ~q.closePend /\ ~q.backlogPend /\ q.rcv_nxt = d.p.rcv_nxt /\ Timed(q)
    <2>1. TcpWnd \in CongestionWindows /\ IsPcb(d.p)
      BY SMTT(30), <1>4, TcpAssumption DEF CongestionWindows, Leaves, IsContext
    <2>2. /\ d.p.state = "ESTABLISHED" /\ d.p.refused = Nothing /\ ~d.p.rxClosed
          /\ ~d.p.closePend /\ ~d.p.backlogPend /\ Timed(d.p)
      BY <1>3, <1>4 DEF Leaves
    <2> QED BY <2>1, <2>2 DEF IsPcb, PcbFields, Timed
  <1> HIDE DEF q
  <1>7. IsContext(f) /\ f.p = q /\ Beside(d, f) /\ f.pending = d.pending
    BY <1>4, <1>6, PcbChange DEF Leaves
  <1> HIDE DEF f
  <1>8. /\ IsContext(f) /\ f.p = q /\ f.app = a /\ f.text = d.text /\ ~f.freed /\ f.down = c.down
        /\ f.text.fin \in BOOLEAN
    BY <1>2, <1>3, <1>4, <1>7, TextLenType DEF Leaves, Beside, IsContext
  <1>9. Owed(f) = Owed(c)
    BY <1>3, <1>4, <1>6, <1>7 DEF Owed, Leaves
  <1>10. Nothing.fin = FALSE /\ Len(Nothing.data) = 0
    BY NothingType
  <1>11. HostOK(e, q, a)
    <2>1. a.read <= Len(a.got) /\ a.wrote <= MaxWrite[e]
      OBVIOUS
    <2> QED BY <1>6, <1>10, <2>1 DEF HostOK, Early, Ending
  <1>12. CASE ~f.text.fin
    <2>1. Holding(q, a) = 0 /\ Holding(c.p, c.app) = 0
      <3>1. Len(a.got) = 0 /\ q.state \notin Early
        BY <1>6 DEF Early
      <3>2. Holding(q, a) = 0
        BY <1>6, <3>1, HoldingIs
      <3> QED BY <3>2 DEF Holding, Early
    <2>2. Ready(f)
      BY <1>6, <1>8, <1>12 DEF Ready, Early
    <2>3. r = f /\ Right(e, f)
      BY <1>8, <1>11, <1>12 DEF Right
    <2> HIDE DEF r
    <2> QED BY ZenonT(60), <1>5, <1>6, <1>8, <1>9, <2>1, <2>2, <2>3 DEF Arrives, Early, r, f, q, d, g, accepted
  <1>13. CASE f.text.fin
    <2> DEFINE k == AckNow(f)
    <2>1. Along(f, k) /\ k.p.refused = f.p.refused /\ k.p.backlogPend = f.p.backlogPend
      BY <1>8, AckNowSends, SendsAlong
    <2> HIDE DEF k
    <2>2. Turns(k, h) /\ h.p.state = "CLOSE_WAIT"
      BY <2>1, BecomeTurns DEF Along, States, k
    <2> HIDE DEF h
    <2>3. /\ IsContext(h) /\ h.app = a /\ h.text = d.text /\ ~h.freed /\ h.down = c.down
          /\ h.p.refused = Nothing /\ ~h.p.rxClosed /\ ~h.p.closePend /\ ~h.p.backlogPend
          /\ h.p.rcv_nxt = d.p.rcv_nxt /\ Owed(h) = Owed(c) /\ h.p.state = "CLOSE_WAIT"
          /\ Timed(h.p)
      BY <1>6, <1>8, <1>9, <2>1, <2>2 DEF Along, Turns, Beside
    <2>4. HostOK(e, h.p, a)
      BY <1>6, <1>11, <2>3 DEF HostOK, Early, Ending
    <2>5. Holding(h.p, a) = 0 /\ Holding(c.p, c.app) = 0
      <3>1. Len(a.got) = 0 /\ h.p.state \notin Early
        BY <2>3 DEF Early
      <3>2. Holding(h.p, a) = 0
        BY <2>3, <3>1, HoldingIs
      <3> QED BY <3>2 DEF Holding, Early
    <2>6. Ready(h)
      BY <2>3 DEF Ready, Early
    <2>7. r = h /\ Right(e, h)
      BY <1>13, <2>3, <2>4 DEF Right
    <2> HIDE DEF r
    <2> QED BY <1>5, <2>3, <2>5, <2>6, <2>7 DEF Arrives, Early, r, f, q, d, g, accepted, h, k
  <1> QED BY <1>12, <1>13

\* tcp_process in SYN_RCVD.
LEMMA ProcessSynRcvdArrives ==
    ASSUME NEW e, NEW c, Right(e, c), c.text = Nothing, ~c.freed, NEW m \in Messages,
           c.p.state = "SYN_RCVD", NEW ok, MaxWrite[e] \in Nat
    PROVE  Arrives(e, c, ProcessSynRcvd(c, m, ok))
  <1> DEFINE p == c.p
             b == Become(c, "ESTABLISHED")
             accepted == BacklogAccepted(b)
             a == [NewApp EXCEPT !.use = "open", !.accepts = c.app.accepts + 1]
             d == Receive([accepted EXCEPT !.app = a], m)
             f == [d EXCEPT !.p.cwnd = TcpWnd]
             g == IF f.text.fin THEN Become(AckNow(f), "CLOSE_WAIT") ELSE f
             r == SendRst(c, m.ack, Add(m.seq, TcpLen(m)))
             s == [c EXCEPT !.p = Rexmit(p)]
             k == Abort(accepted)
  <1>1. ProcessSynRcvd(c, m, ok) \in {k, g, r, s, c}
    <2>1. ProcessSynRcvd(c, m, ok) =
            CASE m.isAck /\ Between(m.ack, Add(p.lastack, 1), p.snd_nxt) ->
                    IF ~ok THEN k ELSE g
              [] m.isAck /\ ~Between(m.ack, Add(p.lastack, 1), p.snd_nxt) -> r
              [] ~m.isAck /\ m.syn /\ m.seq = Add(p.rcv_nxt, -1) -> s
              [] OTHER -> c
      BY Zenon DEF ProcessSynRcvd, Become
    <2> HIDE DEF k, g, r, s, p
    <2> QED BY <2>1
  <1>2. IsContext(c) /\ IsPcb(p) /\ IsApp(c.app) /\ AppOK(e, c.app)
    BY RightAppOK DEF Right, IsContext
  <1>3. Turns(c, b) /\ b.p.state = "ESTABLISHED"
    BY <1>2, BecomeTurns DEF States
  <1> HIDE DEF b
  <1>4. Arrives(e, c, g)
    <2>1. /\ IsApp(a) /\ a.use = "open" /\ a.got = <<>> /\ ~a.eof /\ a.read = 0 /\ a.wrote = 0
      <3> DEFINE n == c.app.accepts + 1
      <3>1. n \in Nat
        BY <1>2 DEF IsApp
      <3> HIDE DEF n
      <3>2. a = [NewApp EXCEPT !.use = "open", !.accepts = n]
        BY DEF n
      <3> HIDE DEF a
      <3>3. a = [use |-> "open", wrote |-> 0, got |-> <<>>, read |-> 0,
                 eof |-> FALSE, err |-> FALSE, accepts |-> n]
        BY <3>2 DEF NewApp
      <3>4. <<>> \in Seq(Nat)
        OBVIOUS
      <3> QED BY <3>1, <3>3, <3>4 DEF IsApp, AppFields, Uses
    <2> HIDE DEF a
    <2> QED BY <1>3, <2>1, AcceptedArrives
  <1>5. Arrives(e, c, k)
    <2>1. Along(b, accepted) /\ ~accepted.p.backlogPend
      BY <1>3, BacklogAcceptedAlong DEF Turns
    <2> HIDE DEF accepted
    <2>2. /\ IsContext(accepted) /\ accepted.app = c.app /\ accepted.text = c.text
          /\ accepted.down = c.down /\ Owed(accepted) = Owed(c)
          /\ accepted.p.state = "ESTABLISHED"
      BY <1>3, <2>1 DEF Along, Turns, Beside
    <2>3. Gone(e, accepted, k)
      BY <1>2, <2>2, AbortGone
    <2> HIDE DEF k
    <2>4. Gone(e, c, k)
      BY <2>2, <2>3, GoneFrom
    <2> QED BY <2>4, GoneArrives
  <1>6. Arrives(e, c, r)
    <2>1. m.ack \in Seqs /\ Add(m.seq, TcpLen(m)) \in Seqs
      BY MessageFields
    <2>2. Goes(e, c, r) /\ Sends(c, r)
      BY <1>2, <2>1, SendRstGoes, SendRstSends
    <2> HIDE DEF r
    <2>3. r.text = Nothing /\ ~r.freed
      BY <2>2, SendsAlong DEF Along, Beside
    <2> QED BY <1>2, <2>2, <2>3, GoesArrives
  <1>7. Arrives(e, c, s)
    <2>1. IsPcb(Rexmit(p)) /\ Unmoved(p, Rexmit(p))
      BY <1>2, RexmitQueued DEF Queued
    <2>2. Sends(c, s)
      BY <1>2, <2>1, MovesPcb
    <2> HIDE DEF s
    <2>3. Goes(e, c, s) /\ s.text = Nothing /\ ~s.freed
      BY <2>2, SendsGoes, SendsAlong DEF Along, Beside
    <2> QED BY <1>2, <2>3, GoesArrives
  <1>8. Arrives(e, c, c)
    BY <1>2, GoesNowhere, GoesArrives
  <1> HIDE DEF k, g, r, s
  <1> QED BY <1>1, <1>4, <1>5, <1>6, <1>7, <1>8

\* Where tcp_process may go with what tcp_receive has made of the pcb.
Reaches(c, d, g) ==
    /\ IsContext(g) /\ Beside(d, g) /\ Owed(g) = Owed(d) /\ (Timed(d.p) => Timed(g.p))
    /\ g.p.rcv_nxt = d.p.rcv_nxt /\ g.p.rxClosed = d.p.rxClosed
    /\ g.p.closePend = d.p.closePend /\ ~g.p.backlogPend
    /\ g.p.refused = d.p.refused \/ (g.p.refused = Nothing /\ g.p.state = "TIME_WAIT")
    /\ g.p.state \notin Early
    /\ g.p.state \in Ending => c.p.state \in Ending
    /\ g.p.state \in {"ESTABLISHED", "FIN_WAIT_1", "FIN_WAIT_2"} =>
          c.p.state \in {"ESTABLISHED", "FIN_WAIT_1", "FIN_WAIT_2"} /\ ~d.text.fin

\* Such a pcb, and what tcp_receive took, arrive.
LEMMA ReachesArrives ==
    ASSUME NEW e, NEW c, Right(e, c), c.text = Nothing, ~c.freed, c.p.state \notin Inactive,
           NEW m \in Messages, c.p.refused = Nothing \/ TcpLen(m) = 0,
           NEW g, Reaches(c, Receive(c, m), g)
    PROVE  Arrives(e, c, g)
  <1> DEFINE d == Receive(c, m)
  <1>1. IsContext(c)
    BY DEF Right
  <1>2. /\ Leaves(c, d)
        /\ \/ d.text = c.text /\ d.p.rcv_nxt = c.p.rcv_nxt
           \/ TcpLen(m) > 0 /\ c.p.state \in TakesText /\ TakesUpTo(c, d)
    BY <1>1, ReceiveTakes
  <1>3. Reaches(c, d, g)
    OBVIOUS
  <1> HIDE DEF d
  <1>4. d.p.rcv_nxt = Add(c.p.rcv_nxt, TextLen(d.text))
    BY <1>1, <1>2, TextOrNothing
  <1>5. /\ IsContext(g) /\ g.app = c.app /\ g.text = d.text /\ ~g.freed /\ g.down = c.down
        /\ g.p.rxClosed = c.p.rxClosed /\ g.p.closePend = c.p.closePend /\ ~g.p.backlogPend
        /\ g.p.refused = c.p.refused \/ (g.p.refused = Nothing /\ g.p.state = "TIME_WAIT")
        /\ Owed(d) = Owed(c) /\ Owed(g) = Owed(c) /\ g.p.rcv_nxt = d.p.rcv_nxt
        /\ (Timed(c.p) => Timed(g.p))
    BY <1>2, <1>3 DEF Reaches, Leaves, Beside, Owed
  <1>6. Right(e, g)
    <2>1. HostOK(e, g.p, g.app)
      BY <1>3, <1>5, NothingType DEF Right, HostOK, Reaches, Inactive, Early, Ending
    <2> QED BY <1>5, <2>1 DEF Right
  <1>7. d.text # Nothing => /\ c.p.state \in {"ESTABLISHED", "FIN_WAIT_1", "FIN_WAIT_2"}
                            /\ ~c.app.eof /\ c.p.refused = Nothing
    <2>1. d.text # Nothing => TcpLen(m) > 0 /\ c.p.state \in TakesText
      BY <1>2
    <2>2. TcpLen(m) > 0 => c.p.refused = Nothing
      BY MessageFields
    <2> QED BY <2>1, <2>2 DEF TakesText, Inactive, Early, Right, HostOK
  <1>8. Ready(g)
    BY <1>3, <1>5, <1>7 DEF Ready, Reaches
  <1>9. CountsOn(e, c.app) => g.p.refused = c.p.refused
    <2>1. g.p.state = "TIME_WAIT" => c.app.use \in {"shut", "closed"}
      BY <1>3 DEF Reaches, Ending, Right, HostOK
    <2>2. e \notin Refusers => c.p.refused = Nothing
      BY DEF Right, HostOK
    <2> QED BY <1>5, <2>1, <2>2 DEF CountsOn
  <1>10. CountsOn(e, c.app) => Holding(g.p, g.app) = Holding(c.p, c.app)
    BY <1>3, <1>5, <1>9 DEF Holding, Reaches, Inactive
  <1> QED BY <1>4, <1>5, <1>6, <1>8, <1>10 DEF Arrives, Inactive, Early

\* tcp_process from ESTABLISHED on.
LEMMA ProcessSynchronizedArrives ==
    ASSUME NEW e, NEW c, Right(e, c), c.text = Nothing, ~c.freed, c.p.state \notin Inactive,
           NEW m \in Messages, c.p.refused = Nothing \/ TcpLen(m) = 0
    PROVE  Arrives(e, c, ProcessSynchronized(c, m))
  <1> DEFINE d == Receive(c, m)
             acked == AllAcked(d, m)
             k == AckNow(d)
             w == [Purge(d) EXCEPT !.p.state = "TIME_WAIT"]
             g == Failed(Free(Purge(d)))
             P == ProcessSynchronized(c, m)
  <1> SUFFICES Arrives(e, c, P)
    OBVIOUS
  <1>1. /\ c.p.state \in {"ESTABLISHED", "CLOSE_WAIT"} =>
              P = IF d.text.fin THEN Become(k, "CLOSE_WAIT") ELSE d
        /\ c.p.state = "FIN_WAIT_1" =>
              P = IF d.text.fin
                  THEN IF acked THEN TimeWait(d) ELSE Become(k, "CLOSING")
                  ELSE IF acked THEN Become(d, "FIN_WAIT_2") ELSE d
        /\ c.p.state = "FIN_WAIT_2" => P = IF d.text.fin THEN TimeWait(d) ELSE d
        /\ c.p.state = "CLOSING" => P = IF acked THEN w ELSE d
        /\ c.p.state = "LAST_ACK" => P = IF acked THEN g ELSE d
    BY DEF ProcessSynchronized
  <1>2. /\ IsContext(c) /\ AppOK(e, c.app) /\ ~c.p.backlogPend
        /\ c.p.state \in {"ESTABLISHED", "CLOSE_WAIT", "FIN_WAIT_1", "FIN_WAIT_2", "CLOSING",
                          "LAST_ACK"}
    <2>1. IsContext(c) /\ AppOK(e, c.app) /\ ~c.p.backlogPend
      BY RightAppOK DEF Right, HostOK, Inactive, Early
    <2>2. c.p.state \in States
      BY DEF Right, IsContext, IsPcb
    <2> QED BY <2>1, <2>2 DEF States, Inactive, Early
  <1>3. Leaves(c, d)
    BY <1>2, ReceiveTakes
  <1>4. IsContext(d) /\ d.text.fin \in BOOLEAN /\ ~d.p.backlogPend /\ d.p.state = c.p.state
        /\ Owed(d) = Owed(c) /\ d.app = c.app /\ d.down = c.down
    BY <1>2, <1>3, TextLenType DEF Leaves, IsContext, Owed
  <1>5. ASSUME NEW h, Reaches(c, d, h) PROVE Arrives(e, c, h)
    BY <1>5, ReachesArrives
  <1> HIDE DEF d, acked, P
  <1>6. ~d.text.fin => Reaches(c, d, d)
    BY <1>2, <1>4 DEF Reaches, Beside, Early
  <1>7. c.p.state \notin {"ESTABLISHED", "FIN_WAIT_1", "FIN_WAIT_2"} => Reaches(c, d, d)
    BY <1>2, <1>4 DEF Reaches, Beside, Early
  <1>8. /\ IsContext(k) /\ Beside(d, k) /\ Owed(k) = Owed(d)
        /\ k.p.rcv_nxt = d.p.rcv_nxt /\ k.p.rxClosed = d.p.rxClosed
        /\ k.p.closePend = d.p.closePend /\ ~k.p.backlogPend /\ k.p.refused = d.p.refused
        /\ (Timed(d.p) => Timed(k.p))
    BY <1>4, AckNowSends, SendsAlong DEF Along
  <1> HIDE DEF k
  <1>9. Reaches(c, d, Become(k, "CLOSE_WAIT"))
    <2>1. Turns(k, Become(k, "CLOSE_WAIT")) /\ Become(k, "CLOSE_WAIT").p.state = "CLOSE_WAIT"
      BY <1>8, BecomeTurns DEF States
    <2> QED BY <1>8, <2>1 DEF Reaches, Turns, Beside, Early, Ending
  <1>10. c.p.state = "FIN_WAIT_1" => Reaches(c, d, Become(k, "CLOSING"))
    <2>1. Turns(k, Become(k, "CLOSING")) /\ Become(k, "CLOSING").p.state = "CLOSING"
      BY <1>8, BecomeTurns DEF States
    <2> QED BY <1>8, <2>1 DEF Reaches, Turns, Beside, Early, Ending
  <1>11. c.p.state = "FIN_WAIT_1" /\ ~d.text.fin => Reaches(c, d, Become(d, "FIN_WAIT_2"))
    <2>1. Turns(d, Become(d, "FIN_WAIT_2")) /\ Become(d, "FIN_WAIT_2").p.state = "FIN_WAIT_2"
      BY <1>4, BecomeTurns DEF States
    <2> QED BY <1>4, <2>1 DEF Reaches, Turns, Beside, Early, Ending
  <1>12. c.p.state \in {"FIN_WAIT_1", "FIN_WAIT_2"} => Reaches(c, d, TimeWait(d))
    <2> DEFINE h == TimeWait(d)
    <2>1. d.p.state \notin {"CLOSED", "TIME_WAIT"}
      BY <1>2, <1>4
    <2>2. /\ IsContext(h) /\ Beside(d, h) /\ Owed(h) = Owed(d)
          /\ h.p.state = "TIME_WAIT" /\ h.p.rcv_nxt = d.p.rcv_nxt
          /\ h.p.rxClosed = d.p.rxClosed /\ h.p.closePend = d.p.closePend
          /\ h.p.refused = Nothing /\ ~h.p.backlogPend /\ (Timed(d.p) => Timed(h.p))
      BY <1>4, <2>1, TimeWaitType
    <2> HIDE DEF h
    <2>3. c.p.state \in {"FIN_WAIT_1", "FIN_WAIT_2"} => Reaches(c, d, h)
      BY <2>2 DEF Reaches, Early, Ending
    <2> QED BY <2>3 DEF h
  <1>13. c.p.state = "CLOSING" => Reaches(c, d, w)
    <2>1. d.p.state \notin {"CLOSED", "TIME_WAIT"}
      BY <1>2, <1>4
    <2>2. /\ IsContext(w) /\ Beside(d, w) /\ Owed(w) = Owed(d)
          /\ w.p.state = "TIME_WAIT" /\ w.p.rcv_nxt = d.p.rcv_nxt
          /\ w.p.rxClosed = d.p.rxClosed /\ w.p.closePend = d.p.closePend
          /\ w.p.refused = Nothing /\ ~w.p.backlogPend /\ (Timed(d.p) => Timed(w.p))
      BY <1>4, <2>1, WaitsOut
    <2> HIDE DEF w
    <2> QED BY <2>2 DEF Reaches, Early, Ending
  <1>14. Arrives(e, c, g)
    <2>1. Gone(e, d, g)
      BY <1>2, <1>4, PurgeGone
    <2>2. /\ Right(e, g) /\ Owed(g) = Owed(c) /\ g.down = c.down /\ g.p.state \in Early
          /\ g.freed /\ g.app.use = c.app.use
      BY <1>4, <2>1, NewPcbType DEF Gone, Right, Early
    <2> QED BY <2>2 DEF Arrives
  <1> HIDE DEF w, g
  <1>15. CASE c.p.state \in {"ESTABLISHED", "CLOSE_WAIT"}
    BY <1>1, <1>5, <1>6, <1>9, <1>15
  <1>16. CASE c.p.state = "FIN_WAIT_1"
    BY <1>1, <1>5, <1>6, <1>10, <1>11, <1>12, <1>16
  <1>17. CASE c.p.state = "FIN_WAIT_2"
    BY <1>1, <1>5, <1>6, <1>12, <1>17
  <1>18. CASE c.p.state \in {"CLOSING", "LAST_ACK"}
    BY <1>1, <1>5, <1>7, <1>13, <1>14, <1>18
  <1> QED BY <1>2, <1>15, <1>16, <1>17, <1>18

-----------------------------------------------------------------------------
(* tcp_input.                                                               *)

LEMMA SameArrives ==
    ASSUME NEW e, NEW c, NEW b, Sends(c, b), NEW d, Arrives(e, b, d)
    PROVE  Arrives(e, c, d)
  <1>1. Along(c, b) /\ b.p.refused = c.p.refused
    BY SendsAlong
  <1>2. Holding(b.p, b.app) = Holding(c.p, c.app)
    BY <1>1 DEF Along, Beside, Holding
  <1> QED BY <1>1, <1>2 DEF Arrives, Along, Beside

\* tcp_process.
LEMMA ProcessArrives ==
    ASSUME NEW e, NEW c, Right(e, c), c.text = Nothing, ~c.freed,
           c.p.state \notin {"CLOSED", "TIME_WAIT"}, MaxWrite[e] \in Nat,
           NEW m \in Messages, c.p.refused = Nothing \/ TcpLen(m) = 0, NEW ok
    PROVE  Arrives(e, c, Process(c, m, ok))
  <1> DEFINE q == [c.p EXCEPT !.probes = 0]
             d == [c EXCEPT !.p = q]
  <1>1. /\ IsPcb(q) /\ Unmoved(c.p, q) /\ q.unacked = c.p.unacked /\ q.unsent = c.p.unsent
    <2>1. 0 \in Probes
      BY TcpAssumption DEF Probes
    <2> QED BY <2>1 DEF Right, IsContext, IsPcb, PcbFields, Unmoved, Timed
  <1>2. [c EXCEPT !.p.probes = 0] = d
    OBVIOUS
  <1> HIDE DEF q
  <1>3. Sends(c, d) /\ d.p = q
    BY <1>1, MovesPcb, PcbChange DEF Right
  <1>4. \/ m.rst /\ Process(c, m, ok) = ProcessRst(c, m)
        \/ c.p.state \notin Opening /\ Process(c, m, ok) = AckNow(c)
        \/ c.p.state = "SYN_SENT" /\ Process(c, m, ok) = ProcessSynSent(d, m)
        \/ c.p.state = "SYN_RCVD" /\ Process(c, m, ok) = ProcessSynRcvd(d, m, ok)
        \/ c.p.state \notin Opening /\ Process(c, m, ok) = ProcessSynchronized(d, m)
    <2>1. Process(c, m, ok) =
            CASE m.rst -> ProcessRst(c, m)
              [] ~m.rst /\ m.syn /\ c.p.state \notin Opening -> AckNow(c)
              [] ~m.rst /\ c.p.state = "SYN_SENT" -> ProcessSynSent(d, m)
              [] ~m.rst /\ c.p.state = "SYN_RCVD" -> ProcessSynRcvd(d, m, ok)
              [] OTHER -> ProcessSynchronized(d, m)
      BY <1>2, Zenon DEF Process
    <2> HIDE DEF d
    <2>2. CASE m.rst
      BY <2>1, <2>2
    <2>3. CASE ~m.rst /\ c.p.state \in Opening
      BY <2>1, <2>3 DEF Opening
    <2>4. CASE ~m.rst /\ c.p.state \notin Opening
      BY <2>1, <2>4 DEF Opening
    <2> QED BY <2>2, <2>3, <2>4
  <1> HIDE DEF d
  <1>5. /\ Right(e, d) /\ d.text = Nothing /\ ~d.freed /\ d.p.state = c.p.state
        /\ d.p.refused = c.p.refused
    <2>1. Waiting(c.p) => Waiting(d.p)
      BY <1>1, <1>3 DEF Waiting
    <2>2. Right(e, d)
      BY <1>3, <2>1, SendsRight DEF Right, HostOK
    <2> QED BY <1>3, <2>2, SendsAlong DEF Along, Beside
  <1>6. Arrives(e, c, ProcessRst(c, m))
    BY ProcessRstArrives
  <1>7. Arrives(e, c, AckNow(c))
    <2>1. Goes(e, c, AckNow(c))
      BY AckNowGoes
    <2>2. Along(c, AckNow(c))
      BY AckNowSends, SendsAlong DEF Right
    <2>3. AckNow(c).text = Nothing /\ ~AckNow(c).freed
      BY <2>2 DEF Along, Beside
    <2> QED BY <2>1, <2>3, GoesArrives DEF Right
  <1>8. c.p.state = "SYN_SENT" => Arrives(e, c, ProcessSynSent(d, m))
    BY <1>3, <1>5, ProcessSynSentArrives, SameArrives
  <1>9. c.p.state = "SYN_RCVD" => Arrives(e, c, ProcessSynRcvd(d, m, ok))
    BY <1>3, <1>5, ProcessSynRcvdArrives, SameArrives
  <1>10. c.p.state \notin Opening => Arrives(e, c, ProcessSynchronized(d, m))
    <2>1. c.p.state \notin Opening => d.p.state \notin Inactive
      BY <1>5 DEF Opening, Inactive, Early
    <2>2. d.p.refused = Nothing \/ TcpLen(m) = 0
      BY <1>5
    <2>3. c.p.state \notin Opening => Arrives(e, d, ProcessSynchronized(d, m))
      BY <1>5, <2>1, <2>2, ProcessSynchronizedArrives
    <2> QED BY <1>3, <2>3, SameArrives
  <1> QED BY <1>4, <1>6, <1>7, <1>8, <1>9, <1>10

\* What the application counts on is kept, and counted by rcv_nxt.
Keeps(e, c, f) ==
    f.p.state \notin Early /\ CountsOn(e, f.app) =>
        /\ Holding(f.p, f.app) >= Holding(c.p, c.app)
        /\ c.p.state = "SYN_SENT" => Holding(f.p, f.app) = 0
        /\ c.p.state # "SYN_SENT" =>
              f.p.rcv_nxt = Add(c.p.rcv_nxt, Holding(f.p, f.app) - Holding(c.p, c.app))

Handles(e, c, f) ==
    /\ Right(e, f) /\ Owed(f) = Owed(c) /\ f.down = c.down /\ Keeps(e, c, f)
    /\ c.p.state \notin Early => f.app.use = c.app.use

LEMMA RightHolding ==
    ASSUME NEW e, NEW c, Right(e, c)
    PROVE  Holding(c.p, c.app) \in Nat /\ c.p.rcv_nxt \in Seqs
  BY HoldingType DEF Right, IsContext, IsPcb

\* What goes on, or is freed, keeps what the application counts on.
LEMMA GoesHandles ==
    ASSUME NEW e, NEW c, Right(e, c), NEW f, Goes(e, c, f)
    PROVE  Handles(e, c, f)
  <1>1. Holding(c.p, c.app) \in Nat /\ Holding(c.p, c.app) - Holding(c.p, c.app) = 0
        /\ Holding(c.p, c.app) >= Holding(c.p, c.app)
    BY RightHolding
  <1>2. Add(c.p.rcv_nxt, 0) = c.p.rcv_nxt
    BY RightHolding, AddNothing
  <1>3. Keeps(e, c, f)
    BY <1>1, <1>2 DEF Keeps, Goes, Passes, Stands, CountsOn, Early
  <1> QED BY <1>3 DEF Handles, Goes, Passes

\* First refused data is given up, then a segment is handled.
LEMMA GoesThenHandles ==
    ASSUME NEW e, NEW c, NEW d, NEW f, Goes(e, c, d), Handles(e, d, f),
           d.p.state \notin Early, c.p.state \notin Early
    PROVE  Handles(e, c, f)
  <1>1. f.p.state \notin Early /\ CountsOn(e, f.app) =>
            Holding(d.p, d.app) = Holding(c.p, c.app) /\ d.p.rcv_nxt = c.p.rcv_nxt
    BY DEF Goes, Passes, Stands, Handles, CountsOn
  <1>2. Keeps(e, c, f)
    BY <1>1 DEF Keeps, Handles, Early
  <1> QED BY <1>2 DEF Handles, Goes, Passes

\* tcp_process and what tcp_input does after it.
LEMMA DeliverHandles ==
    ASSUME NEW e, NEW c, Right(e, c), NEW d, Arrives(e, c, d),
           NEW ok \in BOOLEAN, ~ok => e \in Refusers
    PROVE  Handles(e, c, Deliver(d, ok))
  <1> DEFINE f == Deliver(d, ok)
  <1>1. CASE d.freed
    <2>1. f = d
      BY <1>1 DEF Deliver
    <2> HIDE DEF f
    <2>2. Handles(e, c, d)
      BY <1>1 DEF Arrives, Handles, Keeps
    <2> QED BY <2>1, <2>2 DEF f
  <1>2. CASE ~d.freed
    <2>1. Gets(e, d, d.text, f)
      BY <1>2, DeliverGets DEF Arrives
    <2> HIDE DEF f
    <2> DEFINE x == Holding(c.p, c.app)
               n == TextLen(d.text)
    <2>2. x \in Nat /\ n \in Nat
      <3>1. d.text \in Refusals
        BY DEF Arrives, Right, IsContext
      <3> QED BY <3>1, RightHolding, TextLenType
    <2>3. f.p.state \notin Early /\ CountsOn(e, f.app) =>
            /\ Holding(f.p, f.app) = x + n
            /\ c.p.state = "SYN_SENT" => n = 0 /\ x = 0
            /\ c.p.state # "SYN_SENT" => f.p.rcv_nxt = Add(c.p.rcv_nxt, n)
      BY <2>1 DEF Gets, Arrives, CountsOn
    <2>4. Keeps(e, c, f)
      <3> SUFFICES ASSUME f.p.state \notin Early, CountsOn(e, f.app)
                   PROVE  /\ Holding(f.p, f.app) >= x
                          /\ c.p.state = "SYN_SENT" => Holding(f.p, f.app) = 0
                          /\ c.p.state # "SYN_SENT" =>
                                f.p.rcv_nxt = Add(c.p.rcv_nxt, Holding(f.p, f.app) - x)
        BY DEF Keeps
      <3> HIDE DEF x, n
      <3>1. Holding(f.p, f.app) = x + n
        BY <2>3
      <3>2. x + n >= x /\ (x + n) - x = n /\ (n = 0 /\ x = 0 => x + n = 0)
        BY <2>2
      <3> QED BY <2>3, <3>1, <3>2
    <2>5. Handles(e, c, f)
      BY <2>1, <2>4 DEF Gets, Arrives, Handles
    <2> QED BY <2>5 DEF f
  <1> QED BY <1>1, <1>2

\* tcp_input for a pcb in tcp_active_pcbs.
LEMMA ActiveInputHandles ==
    ASSUME NEW e, NEW c, Right(e, c), c.text = Nothing, ~c.freed,
           c.p.state \notin {"CLOSED", "TIME_WAIT"}, MaxWrite[e] \in Nat,
           NEW m \in Messages, NEW ok \in BOOLEAN, ~ok => e \in Refusers
    PROVE  Handles(e, c, ActiveInput(c, m, ok))
  <1> DEFINE d == ProcessRefusedData(c, ok)
             a == SendEmptyAck(d)
             P == Process(d, m, ok)
             f == Deliver(P, ok)
  <1>1. Goes(e, c, d)
    BY ProcessRefusedDataGoes
  <1>2. Right(e, d) /\ d.text = Nothing
    BY <1>1 DEF Goes, Passes
  <1>3. \/ ActiveInput(c, m, ok) = d
        \/ ActiveInput(c, m, ok) = a
        \/ /\ ~d.freed /\ (d.p.refused = Nothing \/ ~(TcpLen(m) > 0))
           /\ ActiveInput(c, m, ok) = f
    BY DEF ActiveInput
  <1>4. /\ c.p.refused = Nothing => d = c
        /\ c.p.refused # Nothing => c.p.state \notin Inactive
    <2>1. c.p.refused = Nothing => d = c
      BY DEF ProcessRefusedData
    <2>2. c.p.refused # Nothing => c.p.state \notin Inactive
      BY DEF Right, HostOK, Inactive, Early
    <2> QED BY <2>1, <2>2
  <1> HIDE DEF d
  <1>5. Handles(e, c, d) /\ Handles(e, c, a)
    <2>1. Goes(e, d, a)
      BY <1>2, SendEmptyAckGoes
    <2> HIDE DEF a
    <2> QED BY <1>1, <2>1, GoesTwice, GoesHandles
  <1>6. ASSUME ~d.freed, d.p.refused = Nothing \/ ~(TcpLen(m) > 0) PROVE Handles(e, c, f)
    <2>1. c.p.refused # Nothing => c.p.state \notin Early /\ d.p.state \notin Inactive
      BY <1>1, <1>4, <1>6 DEF Goes, Passes, Inactive
    <2>2. d.p.state \notin {"CLOSED", "TIME_WAIT"}
      BY <1>4, <2>1 DEF Inactive, Early
    <2>3. d.p.refused = Nothing \/ TcpLen(m) = 0
      BY <1>6, MessageFields
    <2>4. Arrives(e, d, P)
      BY <1>2, <1>6, <2>2, <2>3, ProcessArrives
    <2> HIDE DEF P
    <2>5. Handles(e, d, f)
      BY <1>2, <2>4, DeliverHandles
    <2> HIDE DEF f
    <2>6. c.p.refused # Nothing => Handles(e, c, f)
      BY <1>1, <2>1, <2>5, GoesThenHandles DEF Inactive
    <2> QED BY <1>4, <2>5, <2>6
  <1> HIDE DEF a, f
  <1> QED BY <1>3, <1>5, <1>6

\* tcp_timewait_input.
LEMMA TimeWaitInputHandles ==
    ASSUME NEW e, NEW c, Right(e, c), NEW m \in Messages
    PROVE  Handles(e, c, TimeWaitInput(c, m))
  <1> DEFINE r == SendRst(c, m.ack, Add(m.seq, TcpLen(m)))
             a == AckNow(c)
             o == Output(a)
  <1>1. \/ TimeWaitInput(c, m) = c
        \/ TimeWaitInput(c, m) = r
        \/ TimeWaitInput(c, m) = o
    BY DEF TimeWaitInput
  <1>2. Goes(e, c, c)
    BY GoesNowhere
  <1>3. Goes(e, c, r)
    BY MessageFields, SendRstGoes
  <1>4. Goes(e, c, o)
    <2>1. Goes(e, c, a)
      BY AckNowGoes
    <2> HIDE DEF a
    <2>2. Goes(e, a, o)
      BY <2>1, OutputGoes DEF Goes, Passes
    <2> HIDE DEF o
    <2> QED BY <2>1, <2>2, GoesTwice
  <1> HIDE DEF r, o
  <1> QED BY <1>1, <1>2, <1>3, <1>4, GoesHandles

\* The pcb of a SYN that a listener takes.
Accepting(m, iss) ==
    [NewPcb EXCEPT
        !.state = "SYN_RCVD", !.backlogPend = TRUE,
        !.rcv_nxt = Add(m.seq, 1), !.edge = Add(m.seq, 1),
        !.snd_nxt = iss, !.lastack = iss,
        !.snd_lbb = iss, !.snd_wl2 = iss,
        !.snd_wl1 = Add(m.seq, -1), !.snd_wnd = m.wnd]

LEMMA AcceptingType ==
    ASSUME NEW m \in Messages, NEW iss \in Seqs
    PROVE  LET p == Accepting(m, iss)
           IN  /\ IsPcb(p) /\ p.state = "SYN_RCVD" /\ p.refused = Nothing
               /\ p.backlogPend /\ ~p.rxClosed /\ ~p.closePend /\ p.unacked = <<>>
  <1> DEFINE n == Add(m.seq, 1)
             w == Add(m.seq, -1)
             q == [NewPcb EXCEPT !.state = "SYN_RCVD", !.backlogPend = TRUE,
                                 !.rcv_nxt = n, !.edge = n, !.snd_nxt = iss]
             p == [q EXCEPT !.lastack = iss, !.snd_lbb = iss, !.snd_wl2 = iss,
                            !.snd_wl1 = w, !.snd_wnd = m.wnd]
  <1>1. n \in Seqs /\ w \in Seqs /\ m.wnd \in Seqs
    BY MessageFields, SeqNumber
  <1>2. Accepting(m, iss) = p
    BY DEF Accepting
  <1> HIDE DEF n, w
  <1>3. /\ IsPcb(q) /\ q.state = "SYN_RCVD" /\ q.refused = Nothing
        /\ q.backlogPend /\ ~q.rxClosed /\ ~q.closePend /\ q.unacked = <<>>
    <2> DEFINE z == NewPcb
    <2>1. /\ IsPcb(z) /\ z.refused = Nothing /\ ~z.rxClosed /\ ~z.closePend /\ z.unacked = <<>>
      BY NewPcbType
    <2> HIDE DEF z
    <2>2. "SYN_RCVD" \in States
      BY DEF States
    <2> SUFFICES LET y == [z EXCEPT !.state = "SYN_RCVD", !.backlogPend = TRUE,
                                    !.rcv_nxt = n, !.edge = n, !.snd_nxt = iss]
                 IN  /\ IsPcb(y) /\ y.state = "SYN_RCVD" /\ y.refused = Nothing
                     /\ y.backlogPend /\ ~y.rxClosed /\ ~y.closePend /\ y.unacked = <<>>
      BY DEF z
    <2> QED BY ZenonT(60), <1>1, <2>1, <2>2 DEF IsPcb, PcbFields
  <1> HIDE DEF q
  <1>4. /\ IsPcb(p) /\ p.state = "SYN_RCVD" /\ p.refused = Nothing
        /\ p.backlogPend /\ ~p.rxClosed /\ ~p.closePend /\ p.unacked = <<>>
    BY ZenonT(60), <1>1, <1>3 DEF IsPcb, PcbFields
  <1> HIDE DEF p
  <1> QED BY <1>2, <1>4

\* A SYN is queued and sent.
LEMMA EnqueueAndOutput ==
    ASSUME NEW c, IsContext(c), NEW syn \in BOOLEAN, NEW fin \in BOOLEAN
    PROVE  /\ Sends(c, Output(EnqueueFlags(c, syn, fin)))
           /\ Waiting(Output(EnqueueFlags(c, syn, fin)).p)
  <1> DEFINE f == EnqueueFlags(c, syn, fin)
  <1>1. Sends(c, f)
    BY EnqueueFlagsSends
  <1>2. f.p.unsent # <<>>
    <2> DEFINE s == [seq |-> c.p.snd_lbb, data |-> <<>>, syn |-> syn, fin |-> fin]
               u == Append(c.p.unsent, s)
    <2>1. u # <<>>
      <3>1. c.p.unsent \in Queues /\ s \in Segments
        BY EmptyText DEF IsContext, IsPcb, Segments
      <3> HIDE DEF s
      <3> QED BY <3>1, AppendProperties DEF Queues
    <2> DEFINE q == [c.p EXCEPT !.unsent = u, !.snd_lbb = Add(@, 1), !.fin = @ \/ fin]
    <2>2. f = [c EXCEPT !.p = q]
      BY DEF EnqueueFlags
    <2>3. q.unsent = u
      <3> HIDE DEF u
      <3> QED BY DEF IsContext, IsPcb, PcbFields
    <2> HIDE DEF u, q
    <2>4. f.p = q
      BY <2>2 DEF IsContext, ContextFields
    <2> QED BY <2>1, <2>3, <2>4
  <1> HIDE DEF f
  <1>3. Sends(f, Output(f)) /\ Waiting(Output(f).p)
    BY <1>1, <1>2, OutputSends DEF Sends, Waiting
  <1>4. Sends(c, Output(f))
    BY <1>1, <1>3, SendsTwice
  <1> QED BY <1>3, <1>4 DEF f

\* tcp_listen_input.
LEMMA ListenInputHandles ==
    ASSUME NEW c, Right(Server, c), c.p.state = "CLOSED",
           NEW m \in Messages, NEW iss \in Seqs
    PROVE  Handles(Server, c, ListenInput(c, m, iss))
  <1> DEFINE r == SendRst(c, m.ack, Add(m.seq, TcpLen(m)))
             q == Accepting(m, iss)
             b == [c EXCEPT !.pending = @ + 1]
             d == [b EXCEPT !.p = q]
             o == Output(EnqueueFlags(d, TRUE, FALSE))
  <1>1. \/ ListenInput(c, m, iss) = c
        \/ ListenInput(c, m, iss) = r
        \/ ListenInput(c, m, iss) = o
    <2>1. ListenInput(c, m, iss) =
             CASE m.rst -> c
               [] ~m.rst /\ m.isAck -> r
               [] ~m.rst /\ ~m.isAck /\ m.syn -> o
               [] OTHER -> c
      BY DEF ListenInput, Accepting
    <2> HIDE DEF r, o
    <2> QED BY <2>1
  <1>2. Handles(Server, c, c)
    BY GoesNowhere, GoesHandles
  <1>3. Handles(Server, c, r)
    BY MessageFields, SendRstGoes, GoesHandles
  <1>4. Handles(Server, c, o)
    <2>1. /\ IsPcb(q) /\ q.state = "SYN_RCVD" /\ q.refused = Nothing
          /\ q.backlogPend /\ ~q.rxClosed /\ ~q.closePend /\ q.unacked = <<>>
      BY AcceptingType
    <2> HIDE DEF q
    <2>2. ~c.p.backlogPend /\ c.pending \in Int /\ IsContext(c)
      BY DEF Right, HostOK, IsContext
    <2>3. IsContext(b) /\ Beside(c, b) /\ b.pending = c.pending + 1
      BY <2>2 DEF IsContext, ContextFields, Beside
    <2> HIDE DEF b
    <2>4. IsContext(d) /\ d.p = q /\ Beside(b, d) /\ d.pending = c.pending + 1
      BY <2>1, <2>3, PcbChange
    <2> HIDE DEF d
    <2>5. d.app = c.app /\ d.down = c.down /\ Owed(d) = Owed(c)
      BY <2>1, <2>2, <2>3, <2>4 DEF Beside, Owed
    <2>6. HostOK(Server, d.p, d.app)
      BY <2>1, <2>4, <2>5 DEF Right, HostOK, Early, Ending, Timed
    <2>7. Sends(d, o)
      BY <2>4, EnqueueAndOutput
    <2> HIDE DEF o
    <2>8. Right(Server, o)
      BY <2>1, <2>4, <2>6, <2>7, SendsRight DEF Right
    <2>9. Along(d, o) /\ o.p.state = "SYN_RCVD"
      BY <2>1, <2>4, <2>7, SendsAlong DEF Along
    <2> QED BY <2>5, <2>8, <2>9 DEF Handles, Keeps, Along, Beside, Early
  <1> HIDE DEF r, o
  <1> QED BY <1>1, <1>2, <1>3, <1>4

\* tcp_input.
LEMMA InputHandles ==
    ASSUME NEW e \in Ends, NEW c, Right(e, c), c.text = Nothing, ~c.freed,
           MaxWrite[e] \in Nat, NEW m \in Messages, NEW ok \in BOOLEAN, ~ok => e \in Refusers,
           NEW iss \in Seqs
    PROVE  Handles(e, c, Input(c, m, ok, e = Server, iss))
  <1> DEFINE listening == (e = Server)
             r == SendRst(c, m.ack, Add(m.seq, TcpLen(m)))
             w == TimeWaitInput(c, m)
             l == ListenInput(c, m, iss)
             a == ActiveInput(c, m, ok)
             i == Input(c, m, ok, e = Server, iss)
  <1>1. \/ c.p.state = "TIME_WAIT" /\ i = w
        \/ c.p.state = "CLOSED" /\ listening /\ i = l
        \/ i = c
        \/ i = r
        \/ c.p.state \notin {"TIME_WAIT", "CLOSED"} /\ i = a
    <2>1. i = CASE c.p.state = "TIME_WAIT" -> w
                [] c.p.state = "CLOSED" /\ listening -> l
                [] c.p.state = "CLOSED" /\ ~listening -> IF m.rst THEN c ELSE r
                [] OTHER -> a
      BY DEF Input
    <2> HIDE DEF w, l, r, a, i, listening
    <2>2. CASE c.p.state = "TIME_WAIT"
      BY <2>1, <2>2
    <2>3. CASE c.p.state = "CLOSED" /\ listening
      BY <2>1, <2>3
    <2>4. CASE c.p.state = "CLOSED" /\ ~listening
      BY <2>1, <2>4
    <2>5. CASE c.p.state \notin {"TIME_WAIT", "CLOSED"}
      BY <2>1, <2>5
    <2> QED BY <2>2, <2>3, <2>4, <2>5
  <1>2. Handles(e, c, c) /\ Handles(e, c, r)
    BY GoesNowhere, MessageFields, SendRstGoes, GoesHandles
  <1>3. Handles(e, c, w)
    BY TimeWaitInputHandles
  <1>4. c.p.state = "CLOSED" /\ listening => Handles(e, c, l)
    BY ListenInputHandles
  <1>5. c.p.state \notin {"TIME_WAIT", "CLOSED"} => Handles(e, c, a)
    BY ActiveInputHandles
  <1> HIDE DEF w, l, r, a, i, listening
  <1>6. Handles(e, c, i)
    BY <1>1, <1>2, <1>3, <1>4, <1>5
  <1> QED BY <1>6 DEF i

-----------------------------------------------------------------------------
(* The timers, and tcp_write.                                               *)

\* tcp_split_unsent_seg.
LEMMA SplitUnsentQueued ==
    ASSUME NEW p, IsPcb(p), p.unsent # <<>>, NEW n \in Seqs
    PROVE  Queued(p, SplitUnsent(p, n)) /\ SplitUnsent(p, n).unsent # <<>>
  <1> DEFINE s == Head(p.unsent)
             a == [s EXCEPT !.data = SubSeq(@, 1, n)]
             b == [s EXCEPT !.data = SubSeq(@, n + 1, Len(@)), !.seq = Add(@, n)]
             unsent == <<a, b>> \o Tail(p.unsent)
             q == [p EXCEPT !.unsent = unsent]
  <1>1. p.unsent \in Queues /\ s \in Segments /\ Tail(p.unsent) \in Queues
    BY QueueTypes DEF IsPcb
  <1>2. CASE Len(s.data) <= n
    BY <1>2 DEF SplitUnsent, Queued, Unmoved
  <1>3. CASE ~(Len(s.data) <= n)
    <2>1. SplitUnsent(p, n) = q
      BY <1>3 DEF SplitUnsent
    <2>2. n \in Nat /\ n < Len(s.data) /\ Len(s.data) \in Nat /\ s.data \in Texts /\ s.seq \in Int
      BY <1>1, <1>3, SegmentFields, SeqNat
    <2> HIDE DEF s
    <2>3. SubSeq(s.data, 1, n) \in Texts /\ SubSeq(s.data, n + 1, Len(s.data)) \in Texts
      <3> DEFINE x == Len(s.data)
      <3>1. 1 \in Int /\ 1 >= 1 /\ n \in Int /\ n <= x /\ n + 1 \in Int /\ n + 1 >= 1
            /\ x \in Int /\ x <= x
        BY <2>2
      <3> QED BY <2>2, <3>1, CutText
    <2>4. Add(s.seq, n) \in Seqs
      BY <2>2, SeqNumber
    <2>5. a \in Segments /\ b \in Segments
      BY <1>1, <2>3, <2>4 DEF Segments
    <2> HIDE DEF a, b
    <2>6. <<a, b>> \in Queues /\ <<a, b>> # <<>>
      BY <2>5 DEF Queues
    <2>7. unsent \in Queues /\ unsent # <<>>
      <3> DEFINE two == <<a, b>>
      <3> HIDE DEF two
      <3>1. two \in Queues /\ two # <<>>
        BY <2>6 DEF two
      <3>2. two \o Tail(p.unsent) \in Queues /\ two \o Tail(p.unsent) # <<>>
        BY <1>1, <3>1, QueueTypes
      <3> QED BY <3>2 DEF two
    <2> HIDE DEF unsent
    <2>8. Queued(p, q) /\ q.unsent = unsent
      BY <2>7 DEF Queued, IsPcb, PcbFields, Unmoved, Timed
    <2> QED BY <2>1, <2>7, <2>8
  <1> QED BY <1>2, <1>3

\* tcp_zero_window_probe.
LEMMA ZeroWindowProbeSends ==
    ASSUME NEW c, IsContext(c), c.p.unsent # <<>>, c.p.probes < MaxRtx
    PROVE  /\ Sends(c, ZeroWindowProbe(c))
           /\ ZeroWindowProbe(c).p.unsent = c.p.unsent
  <1> DEFINE p == c.p
             s == Head(p.unsent)
             isFin == s.fin /\ s.data = <<>>
             next == Add(s.seq, 1)
             byte == SubSeq(s.data, 1, AtMost(1, Len(s.data)))
             seg == Segment(p, s.seq, byte, FALSE, isFin)
             d == Pass(c, <<seg>>)
             a == Announce(p)
             snd_nxt == IF LT(a.snd_nxt, next) THEN next ELSE a.snd_nxt
             probes == a.probes + 1
             q == [a EXCEPT !.probes = probes, !.snd_nxt = snd_nxt]
  <1>1. IsPcb(p) /\ p.unsent \in Queues /\ s \in Segments
    BY QueueTypes DEF IsContext, IsPcb
  <1>2. s.seq \in Seqs /\ s.data \in Texts /\ s.fin \in BOOLEAN /\ Len(s.data) \in Nat
    BY <1>1, SegmentFields
  <1>3. ZeroWindowProbe(c) = [d EXCEPT !.p = q]
    BY DEF ZeroWindowProbe
  <1> HIDE DEF s
  <1>4. byte \in Texts /\ isFin \in BOOLEAN
    <2> DEFINE x == Len(s.data)
               j == AtMost(1, x)
    <2>1. 1 \in Int /\ 1 >= 1 /\ j \in Int /\ j <= x
      BY <1>2 DEF AtMost
    <2> HIDE DEF j
    <2>2. SubSeq(s.data, 1, j) \in Texts
      BY <1>2, <2>1, CutText
    <2> QED BY <1>2, <2>2 DEF j
  <1>5. next \in Seqs
    <2>1. s.seq \in Int /\ 1 \in Int
      BY <1>2, SeqNat
    <2> QED BY <2>1, SeqNumber
  <1> HIDE DEF byte, isFin, next
  <1>6. Sends(c, d) /\ d.p = p
    <2>1. seg \in Messages
      <3> HIDE DEF p
      <3> QED BY <1>1, <1>2, <1>4, SegmentType
    <2> HIDE DEF seg
    <2>2. <<seg>> \in Seq(Messages)
      BY <2>1, OneMessage
    <2> QED BY <2>2, PassSends
  <1> HIDE DEF d
  <1>7. /\ IsPcb(a) /\ Unmoved(p, a) /\ a.unsent = p.unsent
        /\ a.probes = p.probes
    <2>1. a.probes = p.probes
      BY <1>1 DEF Announce, IsPcb, PcbFields
    <2> QED BY <1>1, <2>1, AnnounceType
  <1> HIDE DEF a
  <1>8. snd_nxt \in Seqs /\ probes \in Probes
    BY SMTT(30), <1>5, <1>7, TcpAssumption DEF IsPcb, Probes
  <1> HIDE DEF snd_nxt, probes
  <1>9. IsPcb(q) /\ Unmoved(a, q) /\ q.unsent = a.unsent
    BY ZenonT(60), <1>7, <1>8 DEF IsPcb, PcbFields, Unmoved, Timed
  <1> HIDE DEF q
  <1>10. Unmoved(d.p, q)
    BY <1>6, <1>7, <1>9 DEF Unmoved
  <1>11. Sends(d, [d EXCEPT !.p = q]) /\ [d EXCEPT !.p = q].p = q
    BY <1>6, <1>9, <1>10, MovesPcb, PcbChange DEF Sends
  <1> DEFINE f == [d EXCEPT !.p = q]
  <1>12. Sends(c, f) /\ f.p.unsent = p.unsent
    <2>1. Sends(d, f) /\ f.p = q
      BY <1>11
    <2> HIDE DEF f
    <2> QED BY <1>6, <1>7, <1>9, <2>1, SendsTwice
  <1> HIDE DEF f
  <1> QED BY <1>3, <1>12 DEF f

\* tcp_slowtmr when one of the pcb's two timers has run out.
LEMMA ExpiredSends ==
    ASSUME NEW c, IsContext(c), PersistSends(c.p), ~GivesUp(c.p)
    PROVE  Sends(c, Expired(c)) /\ (Waiting(c.p) => Waiting(Expired(c).p))
  <1> DEFINE r == RexmitRto(c)
             z == ZeroWindowProbe(c)
             u == SplitUnsent(c.p, c.p.snd_wnd)
             d == [c EXCEPT !.p = u]
             o == Output(d)
  <1>1. \/ ~c.p.persist /\ Expired(c) = r
        \/ c.p.persist /\ Expired(c) = z
        \/ c.p.persist /\ Expired(c) = o
    <2>1. Expired(c) = CASE ~c.p.persist -> r
                         [] c.p.persist /\ c.p.snd_wnd = 0 -> z
                         [] OTHER -> o
      BY DEF Expired
    <2> HIDE DEF r, z, o
    <2> QED BY <2>1
  <1>2. Sends(c, r) /\ (Waiting(c.p) => Waiting(r.p))
    BY RexmitRtoSends
  <1>3. c.p.persist => c.p.unsent # <<>> /\ c.p.probes < MaxRtx
    <2>1. c.p.probes \in Nat /\ MaxRtx \in Nat
      BY TcpAssumption DEF IsContext, IsPcb, Probes
    <2> QED BY <2>1 DEF PersistSends, GivesUp
  <1>4. c.p.persist => Sends(c, z) /\ Waiting(z.p)
    BY <1>3, ZeroWindowProbeSends DEF Waiting
  <1>5. c.p.persist => Sends(c, o) /\ Waiting(o.p)
    <2> SUFFICES ASSUME c.p.persist PROVE Sends(c, o) /\ Waiting(o.p)
      OBVIOUS
    <2>1. c.p.snd_wnd \in Seqs /\ IsPcb(c.p)
      BY DEF IsContext, IsPcb
    <2>2. Queued(c.p, u) /\ u.unsent # <<>>
      BY <1>3, <2>1, SplitUnsentQueued
    <2> HIDE DEF u
    <2>3. Sends(c, d) /\ d.p = u
      BY <2>2, MovesPcb, PcbChange DEF Queued
    <2> HIDE DEF d
    <2>4. Sends(d, o) /\ Waiting(o.p)
      BY <2>2, <2>3, OutputSends DEF Sends, Waiting
    <2> HIDE DEF o
    <2> QED BY <2>3, <2>4, SendsTwice
  <1> HIDE DEF r, z, o
  <1> QED BY <1>1, <1>2, <1>4, <1>5

\* tcp_write.
LEMMA EnqueueQueued ==
    ASSUME NEW p, IsPcb(p), NEW data \in Seq(Nat)
    PROVE  Queued(p, Enqueue(p, data))
  <1> DEFINE n == Len(p.unsent)
             room == IF n > 0 THEN AtMost(Mss - Len(p.unsent[n].data), Len(data)) ELSE 0
             more == p.unsent[n].data \o SubSeq(data, 1, room)
             filled == IF room = 0 THEN p.unsent ELSE [p.unsent EXCEPT ![n].data = more]
             left == Len(data) - room
             Text(i) == SubSeq(data, room + (i - 1) * Mss + 1, AtMost(room + i * Mss, Len(data)))
             k == (left + Mss - 1) \div Mss
             new == [i \in 1 .. k |->
                       [seq |-> Add(p.snd_lbb, room + (i - 1) * Mss), data |-> Text(i),
                        syn |-> FALSE, fin |-> FALSE]]
             unsent == filled \o new
             lbb == Add(p.snd_lbb, Len(data))
             q == [p EXCEPT !.unsent = unsent, !.snd_lbb = lbb]
  <1>1. /\ p.unsent \in Queues /\ n \in Nat /\ p.snd_lbb \in Int /\ Len(data) \in Nat
        /\ Mss \in Nat /\ Mss > 0
    <2>1. p.unsent \in Queues /\ p.snd_lbb \in Seqs /\ Len(data) \in Nat
      BY DEF IsPcb
    <2>2. n \in Nat
      BY <2>1, QueueTypes
    <2> HIDE DEF n
    <2> QED BY <2>1, <2>2, SeqNat, TcpAssumption
  <1>2. n > 0 => /\ n \in 1 .. n /\ p.unsent[n] \in Segments /\ p.unsent[n].data \in Texts
                 /\ Len(p.unsent[n].data) \in 0 .. Mss
    BY <1>1, QueueTypes, SegmentFields
  <1>3. /\ room \in 0 .. Len(data)
        /\ n > 0 => Len(p.unsent[n].data) + room <= Mss
    <2> DEFINE x == Len(p.unsent[n].data)
               y == Len(data)
    <2>1. y \in Nat /\ (n > 0 => x \in 0 .. Mss)
      BY <1>1, <1>2
    <2>2. room = IF n > 0 THEN AtMost(Mss - x, y) ELSE 0
      OBVIOUS
    <2> HIDE DEF x, y, room
    <2>3. room \in 0 .. y /\ (n > 0 => x + room <= Mss)
      BY <1>1, <2>1, <2>2 DEF AtMost
    <2> QED BY <2>3 DEF x, y
  <1>4. room = 0 \/ n > 0
    OBVIOUS
  <1> HIDE DEF room
  <1>5. n > 0 => more \in Texts
    <2> SUFFICES ASSUME n > 0 PROVE more \in Texts
      OBVIOUS
    <2> DEFINE t == p.unsent[n].data
               u == SubSeq(data, 1, room)
    <2>1. t \in Seq(Nat) /\ Len(t) \in Nat
      BY <1>2, TextOf
    <2>2. u \in Seq(Nat) /\ Len(u) = room
      <3>1. 1 \in Int /\ 1 >= 1 /\ room \in Int /\ room <= Len(data)
        BY <1>1, <1>3
      <3>2. u \in Seq(Nat) /\ Len(u) = IF 1 <= room THEN room - 1 + 1 ELSE 0
        BY <3>1, SubSeqType
      <3> HIDE DEF u
      <3> QED BY <1>1, <1>3, <3>2
    <2>3. Len(t) + room <= Mss
      BY <1>3
    <2> HIDE DEF t, u
    <2>4. t \o u \in Seq(Nat) /\ Len(t \o u) = Len(t) + Len(u)
      BY <2>1, <2>2, ConcatProperties
    <2>5. t \o u \in Texts
      BY <2>2, <2>3, <2>4 DEF Texts
    <2> QED BY <2>5 DEF t, u
  <1> HIDE DEF more
  <1>6. filled \in Queues
    <2>1. CASE room = 0
      BY <1>1, <2>1
    <2>2. CASE room # 0
      <3> DEFINE s == [p.unsent[n] EXCEPT !.data = more]
      <3>1. s \in Segments
        BY <1>2, <1>4, <1>5, <2>2 DEF Segments
      <3>2. filled = [p.unsent EXCEPT ![n] = s]
        BY <2>2
      <3> HIDE DEF s
      <3>3. [p.unsent EXCEPT ![n] = s] \in Queues
        BY <1>1, <1>2, <1>4, <2>2, <3>1 DEF Queues
      <3> QED BY <3>2, <3>3
    <2> QED BY <2>1, <2>2
  <1> HIDE DEF filled
  <1>7. k \in Nat
    <2>1. left \in Nat
      BY <1>1, <1>3
    <2> HIDE DEF left
    <2> QED BY <1>1, <2>1
  <1>8. ASSUME NEW i \in 1 .. k
        PROVE  [seq |-> Add(p.snd_lbb, room + (i - 1) * Mss), data |-> Text(i),
                syn |-> FALSE, fin |-> FALSE] \in Segments
    <2> DEFINE x == (i - 1) * Mss
               y == i * Mss
               first == room + x + 1
               last == AtMost(room + y, Len(data))
               t == SubSeq(data, first, last)
    <2>1. i \in Nat /\ i - 1 \in Nat
      BY <1>7
    <2>2. x \in Nat
      BY <1>1, <2>1
    <2>3. y = x + Mss
      BY <1>1, <2>1
    <2>4. Text(i) = t
      OBVIOUS
    <2>5. Add(p.snd_lbb, room + (i - 1) * Mss) = Add(p.snd_lbb, room + x)
      OBVIOUS
    <2> HIDE DEF x, y, Text
    <2>6. /\ room + x \in Int /\ first \in Int /\ first >= 1 /\ last \in Int /\ last <= Len(data)
          /\ last - first + 1 <= Mss
      <3> DEFINE w == Len(data)
      <3>1. w \in Nat
        BY <1>1
      <3>2. last = AtMost(room + y, w)
        OBVIOUS
      <3> HIDE DEF w, last
      <3>3. last \in Int /\ last <= w /\ last - (room + x + 1) + 1 <= Mss
        BY <1>1, <1>3, <2>2, <2>3, <3>1, <3>2 DEF AtMost, w
      <3> QED BY <1>1, <1>3, <2>2, <3>3 DEF w
    <2>7. Add(p.snd_lbb, room + x) \in Seqs
      BY <1>1, <2>6, SeqNumber
    <2>8. t \in Texts
      <3> HIDE DEF first, last
      <3>1. t \in Seq(Nat) /\ Len(t) = IF first <= last THEN last - first + 1 ELSE 0
        BY <2>6, SubSeqType
      <3> HIDE DEF t
      <3>2. Len(t) <= Mss
        BY <1>1, <2>6, <3>1
      <3> QED BY <3>1, <3>2 DEF Texts
    <2> HIDE DEF t
    <2> QED BY <2>4, <2>5, <2>7, <2>8 DEF Segments
  <1>9. new \in Queues
    <2>1. new \in [1 .. k -> Segments]
      BY <1>8
    <2> HIDE DEF new, k
    <2>2. new \in Seq(Segments)
      BY <1>7, <2>1, IsASeq
    <2> QED BY <2>2 DEF Queues
  <1> HIDE DEF new
  <1>10. unsent \in Queues /\ lbb \in Seqs
    <2>1. lbb \in Seqs
      <3> DEFINE w == Len(data)
      <3>1. p.snd_lbb \in Int /\ w \in Int
        BY <1>1
      <3> HIDE DEF w
      <3>2. Add(p.snd_lbb, w) \in Seqs
        BY <3>1, SeqNumber
      <3> QED BY <3>2 DEF w
    <2>2. unsent \in Queues
      BY <1>6, <1>9, QueueTypes
    <2> QED BY <2>1, <2>2
  <1>11. Enqueue(p, data) = q
    BY DEF Enqueue, new, filled, more, room
  <1> HIDE DEF unsent, lbb
  <1>12. Queued(p, q)
    BY ZenonT(60), <1>10 DEF Queued, IsPcb, PcbFields, Unmoved, Timed
  <1> HIDE DEF q
  <1> QED BY <1>11, <1>12

\* What an action needs of the context its host's step leads to.
Leads(e, c, f) == Right(e, f) /\ Owed(f) = Owed(c) /\ Keeps(e, c, f)

LEMMA HandlesLeads == ASSUME NEW e, NEW c, NEW f, Handles(e, c, f) PROVE Leads(e, c, f)
  BY DEF Handles, Leads

LEMMA GoesLeads ==
    ASSUME NEW e, NEW c, Right(e, c), NEW f, Goes(e, c, f) PROVE Leads(e, c, f)
  BY GoesHandles, HandlesLeads

LEMMA EarlyLeads ==
    ASSUME NEW e, NEW c, NEW f, Right(e, f), Owed(f) = Owed(c), f.p.state \in Early
    PROVE  Leads(e, c, f)
  BY DEF Leads, Keeps

LEMMA GoneLeads ==
    ASSUME NEW e, NEW c, NEW f, Gone(e, c, f) PROVE Leads(e, c, f)
  BY NewPcbType, EarlyLeads DEF Gone, Right, Early

-----------------------------------------------------------------------------
\* tcp_fasttmr: a delayed acknowledgement goes out.
FastAcked(c) ==
    IF c.p.ackDelay
    THEN [Output(AckNow(c)) EXCEPT !.p.ackDelay = FALSE, !.p.ackNow = FALSE]
    ELSE c

LEMMA FastAckedGoes ==
    ASSUME NEW e, NEW c, Right(e, c)
    PROVE  Goes(e, c, FastAcked(c))
  <1> DEFINE a == AckNow(c)
             o == Output(a)
             q == [o.p EXCEPT !.ackDelay = FALSE, !.ackNow = FALSE]
             d == [o EXCEPT !.p = q]
  <1>1. FastAcked(c) = IF c.p.ackDelay THEN d ELSE c
    <2>1. [o EXCEPT !.p.ackDelay = FALSE, !.p.ackNow = FALSE] = d
      <3> HIDE DEF o
      <3> QED BY DEF d, q
    <2> HIDE DEF d
    <2> QED BY <2>1 DEF FastAcked
  <1>2. Goes(e, c, o) /\ IsContext(o)
    <2>1. Goes(e, c, a)
      BY AckNowGoes
    <2> HIDE DEF a
    <2>2. Goes(e, a, o)
      BY <2>1, OutputGoes DEF Goes, Passes
    <2> HIDE DEF o
    <2> QED BY <2>1, <2>2, GoesTwice DEF Goes, Passes, Right
  <1> HIDE DEF o
  <1>3. /\ IsPcb(q) /\ Unmoved(o.p, q) /\ (Waiting(o.p) => Waiting(q))
    BY ZenonT(60), <1>2 DEF IsContext, IsPcb, PcbFields, Unmoved, Timed, Waiting
  <1> HIDE DEF q
  <1>4. Sends(o, d) /\ d.p = q
    BY <1>2, <1>3, MovesPcb, PcbChange
  <1> HIDE DEF d
  <1>5. Goes(e, o, d)
    <2>1. Right(e, o)
      BY <1>2 DEF Goes, Passes
    <2>2. o.p.state = "SYN_SENT" => Waiting(d.p)
      BY <1>3, <1>4, <2>1 DEF Right, HostOK
    <2> QED BY <1>4, <2>1, <2>2, SendsGoes
  <1> QED BY <1>1, <1>2, <1>5, GoesTwice, GoesNowhere

\* tcp_fasttmr: a FIN that found no memory is tried again.
FastFinned(c) ==
    IF c.p.closePend THEN ShutdownFin([c EXCEPT !.p.closePend = FALSE], TRUE) ELSE c

LEMMA FastFinnedGoes ==
    ASSUME NEW e, NEW c, Right(e, c)
    PROVE  Goes(e, c, FastFinned(c))
  <1> DEFINE q == [c.p EXCEPT !.closePend = FALSE]
             d == [c EXCEPT !.p = q]
             f == ShutdownFin(d, TRUE)
  <1>1. FastFinned(c) = IF c.p.closePend THEN f ELSE c
    BY DEF FastFinned
  <1>2. /\ IsPcb(q) /\ q.state = c.p.state /\ q.rcv_nxt = c.p.rcv_nxt /\ q.refused = c.p.refused
        /\ q.rxClosed = c.p.rxClosed /\ ~q.closePend /\ q.backlogPend = c.p.backlogPend
        /\ (Waiting(c.p) => Waiting(q)) /\ (Timed(c.p) => Timed(q))
    BY DEF Right, IsContext, IsPcb, PcbFields, Waiting, Timed
  <1> HIDE DEF q
  <1>3. IsContext(d) /\ d.p = q /\ Beside(c, d) /\ d.pending = c.pending
    BY <1>2, PcbChange DEF Right
  <1> HIDE DEF d
  <1>4. Goes(e, c, d)
    <2>1. HostOK(e, d.p, d.app)
      BY <1>2, <1>3 DEF Right, HostOK, Beside
    <2>2. Owed(d) = Owed(c)
      BY <1>2, <1>3 DEF Owed
    <2> QED BY <1>2, <1>3, <2>1, <2>2 DEF Goes, Passes, Stands, Right, Beside, Holding
  <1>5. c.p.closePend => Goes(e, d, f)
    <2>1. c.p.closePend => c.app.use \in {"shut", "closed"} /\ c.p.state \notin Early
      BY DEF Right, HostOK
    <2>2. c.p.closePend => d.app.use \in {"shut", "closed"} /\ d.p.state # "SYN_RCVD"
      BY <1>2, <1>3, <2>1 DEF Beside, Early
    <2> QED BY <1>4, <2>2, ShutdownFinGoes DEF Goes, Passes
  <1> HIDE DEF f
  <1> QED BY <1>1, <1>4, <1>5, GoesTwice, GoesNowhere

LEMMA FastTimerLeads ==
    ASSUME NEW e, NEW c, Right(e, c), NEW ok
    PROVE  Leads(e, c, ProcessRefusedData(FastFinned(FastAcked(c)), ok))
  <1> DEFINE a == FastAcked(c)
             f == FastFinned(a)
             r == ProcessRefusedData(f, ok)
  <1>1. Goes(e, c, a) /\ Right(e, a)
    BY FastAckedGoes DEF Goes, Passes
  <1> HIDE DEF a
  <1>2. Goes(e, a, f) /\ Right(e, f)
    BY <1>1, FastFinnedGoes DEF Goes, Passes
  <1> HIDE DEF f
  <1>3. Goes(e, f, r)
    BY <1>2, ProcessRefusedDataGoes
  <1> HIDE DEF r
  <1>4. Leads(e, c, r)
    BY <1>1, <1>2, <1>3, GoesTwice, GoesLeads
  <1> QED BY <1>4 DEF r, f, a

\* tcp_slowtmr of an active pcb: what a timer that ran out does, and then that
\* the pcb is given up or polled.
LEMMA SlowTimerLeads ==
    ASSUME NEW e, NEW c, Right(e, c), c.p.state \notin {"CLOSED", "TIME_WAIT"},
           NEW d, d = c \/ (Sends(c, d) /\ (Waiting(c.p) => Waiting(d.p)))
    PROVE  /\ Leads(e, c, Failed(Free(Purge(d))))
           /\ Leads(e, c, Output(d)) /\ Leads(e, c, d)
  <1>1. Goes(e, c, d)
    BY GoesNowhere, SendsGoes DEF Right, HostOK
  <1>2. Right(e, d) /\ Along(c, d) /\ IsContext(d)
    <2>1. Sends(c, d) => Along(c, d)
      BY SendsAlong
    <2>2. d = c => Along(c, d)
      BY DEF Along, Beside, Right
    <2> QED BY <1>1, <2>1, <2>2 DEF Goes, Passes, Along
  <1>3. Gone(e, c, Failed(Free(Purge(d))))
    <2>1. Gone(e, d, Failed(Free(Purge(d))))
      BY <1>2, RightAppOK, PurgeGone DEF Along
    <2> QED BY <1>2, <2>1, GoneAlong
  <1>4. Goes(e, c, Output(d))
    BY <1>1, <1>2, OutputGoes, GoesTwice
  <1> QED BY <1>1, <1>3, <1>4, GoneLeads, GoesLeads

\* tcp_slowtmr of a pcb in TIME_WAIT.
LEMMA TimeWaitTimerLeads ==
    ASSUME NEW e, NEW c, Right(e, c), c.p.state = "TIME_WAIT"
    PROVE  Leads(e, c, Free(c))
  <1>1. IsContext(c) /\ AppOK(e, c.app) /\ ~c.p.backlogPend /\ c.app.use \in {"shut", "closed"}
    BY RightAppOK DEF Right, HostOK, Ending
  <1> QED BY <1>1, FreeGone, GoneLeads

-----------------------------------------------------------------------------
\* The application's calls.

LEMMA UseChange ==
    ASSUME NEW a, IsApp(a), NEW u \in Uses
    PROVE  LET b == [a EXCEPT !.use = u]
           IN  /\ IsApp(b) /\ b.use = u
               /\ b.wrote = a.wrote /\ b.got = a.got /\ b.read = a.read
               /\ b.eof = a.eof /\ b.err = a.err
  BY DEF IsApp, AppFields

LEMMA WroteChange ==
    ASSUME NEW a, IsApp(a), NEW w \in Nat
    PROVE  LET b == [a EXCEPT !.wrote = w]
           IN  /\ IsApp(b) /\ b.wrote = w
               /\ b.use = a.use /\ b.got = a.got /\ b.read = a.read
               /\ b.eof = a.eof /\ b.err = a.err
  BY DEF IsApp, AppFields

LEMMA ReadChange ==
    ASSUME NEW a, IsApp(a), NEW r \in Nat
    PROVE  LET b == [a EXCEPT !.read = r]
           IN  /\ IsApp(b) /\ b.read = r
               /\ b.use = a.use /\ b.wrote = a.wrote /\ b.got = a.got
               /\ b.eof = a.eof /\ b.err = a.err
  BY DEF IsApp, AppFields

\* tcp_write and tcp_output.
LEMMA WriteLeads ==
    ASSUME NEW e, NEW c, Right(e, c), c.p.state \notin Early, NEW data \in Seq(Nat),
           NEW n \in Nat, c.app.wrote + n <= MaxWrite[e]
    PROVE  Leads(e, c, Output([c EXCEPT !.p = Enqueue(@, data), !.app.wrote = @ + n]))
  <1> DEFINE q == Enqueue(c.p, data)
             a == [c.app EXCEPT !.wrote = c.app.wrote + n]
             d == [c EXCEPT !.p = q]
             f == [d EXCEPT !.app = a]
             o == Output(f)
  <1>1. [c EXCEPT !.p = Enqueue(@, data), !.app.wrote = @ + n] = f
    <2> HIDE DEF q
    <2>1. [c EXCEPT !.p = Enqueue(@, data), !.app.wrote = @ + n]
             = [c EXCEPT !.p = q, !.app = a]
      BY DEF Right, IsContext, ContextFields, q
    <2> HIDE DEF a
    <2>2. [c EXCEPT !.p = q, !.app = a] = f
      BY DEF Right, IsContext, ContextFields
    <2> HIDE DEF f
    <2> QED BY <2>1, <2>2
  <1>2. IsPcb(q) /\ Unmoved(c.p, q)
    BY EnqueueQueued DEF Queued, Right, IsContext
  <1> HIDE DEF q
  <1>3. Sends(c, d)
    BY <1>2, MovesPcb DEF Right
  <1>4. Goes(e, c, d)
    BY <1>3, SendsGoes DEF Early
  <1>5. d.app = c.app /\ d.p.state \notin Early
    BY <1>3 DEF Sends, Unmoved
  <1> HIDE DEF d
  <1>6. c.app.wrote + n \in Nat /\ IsApp(c.app)
    BY DEF Right, IsContext, IsApp
  <1>7. /\ IsApp(a) /\ a.use = c.app.use /\ a.wrote = c.app.wrote + n /\ a.got = c.app.got
        /\ a.read = c.app.read /\ a.eof = c.app.eof /\ a.err = c.app.err
    <2> DEFINE w == c.app.wrote + n
    <2>1. w \in Nat
      BY <1>6
    <2> HIDE DEF w
    <2> QED BY <1>6, <2>1, WroteChange
  <1> HIDE DEF a
  <1>8. /\ IsContext(f) /\ f.app = a /\ f.p = d.p /\ f.pending = d.pending
        /\ f.text = d.text /\ f.freed = d.freed /\ f.down = d.down
    BY <1>4, <1>7, AppChange DEF Goes, Passes, Right
  <1> HIDE DEF f
  <1>9. Goes(e, d, f)
    <2>1. HostOK(e, f.p, f.app)
      BY <1>4, <1>5, <1>7, <1>8 DEF Goes, Passes, Right, HostOK
    <2>2. Owed(f) = Owed(d)
      BY <1>8 DEF Owed
    <2>3. Holding(f.p, f.app) = Holding(d.p, d.app)
      BY <1>5, <1>7, <1>8 DEF Holding
    <2> QED BY <1>5, <1>7, <1>8, <2>1, <2>2, <2>3 DEF Goes, Passes, Stands, Right, CountsOn
  <1>10. Goes(e, f, o)
    BY <1>9, OutputGoes DEF Goes, Passes
  <1> HIDE DEF o
  <1>11. Leads(e, c, o)
    BY <1>4, <1>9, <1>10, GoesTwice, GoesLeads
  <1> QED BY <1>1, <1>11 DEF o

\* The application reads: it may do so of a connection that is gone.
LEMMA ReadRight ==
    ASSUME NEW e, NEW c, Right(e, c), NEW n \in Nat, c.app.read + n <= Len(c.app.got)
    PROVE  Goes(e, c, [c EXCEPT !.app.read = @ + n])
  <1> DEFINE r == c.app.read + n
             a == [c.app EXCEPT !.read = r]
             f == [c EXCEPT !.app = a]
  <1>1. [c EXCEPT !.app.read = @ + n] = f
    OBVIOUS
  <1>2. r \in Nat /\ IsApp(c.app) /\ r <= Len(c.app.got)
    BY DEF Right, IsContext, IsApp
  <1> HIDE DEF r
  <1>3. /\ IsApp(a) /\ a.use = c.app.use /\ a.wrote = c.app.wrote /\ a.got = c.app.got
        /\ a.read = r /\ a.eof = c.app.eof /\ a.err = c.app.err
    BY <1>2, ReadChange
  <1> HIDE DEF a
  <1>4. /\ IsContext(f) /\ f.app = a /\ f.p = c.p /\ f.pending = c.pending
        /\ f.text = c.text /\ f.freed = c.freed /\ f.down = c.down
    BY <1>3, AppChange DEF Right
  <1> HIDE DEF f
  <1>5. HostOK(e, f.p, f.app)
    BY <1>2, <1>3, <1>4 DEF Right, HostOK
  <1>6. Owed(f) = Owed(c)
    BY <1>4 DEF Owed
  <1>7. Holding(f.p, f.app) = Holding(c.p, c.app)
    BY <1>3, <1>4 DEF Holding
  <1> QED BY <1>1, <1>3, <1>4, <1>5, <1>6, <1>7 DEF Goes, Passes, Stands, Right, CountsOn

\* tcp_recved.
LEMMA ReadLeads ==
    ASSUME NEW e, NEW c, Right(e, c), NEW n \in Nat, c.app.read + n <= Len(c.app.got),
           c.app.use \in {"open", "shut"}
    PROVE  Leads(e, c, Recved([c EXCEPT !.app.read = @ + n], n))
  <1> DEFINE d == [c EXCEPT !.app.read = @ + n]
             f == Recved(d, n)
  <1>1. Goes(e, c, d) /\ Right(e, d) /\ d.app.use = c.app.use
    BY ReadRight DEF Goes, Passes
  <1> HIDE DEF d
  <1>2. Sends(d, f)
    BY <1>1, RecvedSends DEF Right
  <1> HIDE DEF f
  <1>3. Goes(e, d, f)
    BY <1>1, <1>2, SendsGoes DEF Right, HostOK
  <1>4. Leads(e, c, f)
    BY <1>1, <1>3, GoesTwice, GoesLeads
  <1> QED BY <1>4 DEF f, d

\* The application goes on in another way; it counts on no more than before.
LEMMA UseLeads ==
    ASSUME NEW e, NEW c, Right(e, c), NEW d, Right(e, d), Owed(d) = Owed(c),
           d.p.state = c.p.state, d.p.rcv_nxt = c.p.rcv_nxt, d.p.refused = c.p.refused,
           d.app.got = c.app.got, d.app.eof = c.app.eof,
           NEW f, Goes(e, d, f)
    PROVE  Leads(e, c, f)
  <1>1. Leads(e, d, f)
    BY GoesLeads
  <1>2. Holding(d.p, d.app) = Holding(c.p, c.app)
    BY DEF Holding
  <1> QED BY <1>1, <1>2 DEF Leads, Keeps

\* tcp_shutdown of the sending side.
LEMMA ShutLeads ==
    ASSUME NEW e, NEW c, Right(e, c), c.p.state \in {"ESTABLISHED", "CLOSE_WAIT"},
           c.app.use = "open", NEW rst, NEW memory
    PROVE  Leads(e, c, Shutdown([c EXCEPT !.app.use = "shut"], rst, memory))
  <1> DEFINE a == [c.app EXCEPT !.use = "shut"]
             d == [c EXCEPT !.app = a]
             f == Shutdown(d, rst, memory)
  <1>1. [c EXCEPT !.app.use = "shut"] = d
    OBVIOUS
  <1>2. /\ IsApp(a) /\ a.use = "shut" /\ a.wrote = c.app.wrote /\ a.got = c.app.got
        /\ a.read = c.app.read /\ a.eof = c.app.eof /\ a.err = c.app.err
    <2>1. "shut" \in Uses /\ IsApp(c.app)
      BY DEF Uses, Right, IsContext
    <2> QED BY <2>1, UseChange
  <1> HIDE DEF a
  <1>3. IsContext(d) /\ d.app = a /\ d.p = c.p /\ d.pending = c.pending
    BY <1>2, AppChange DEF Right
  <1> HIDE DEF d
  <1>4. Right(e, d) /\ Owed(d) = Owed(c)
    BY <1>2, <1>3 DEF Right, HostOK, Early, Owed
  <1>5. Goes(e, d, f)
    BY <1>2, <1>3, <1>4, ShutdownGoes
  <1> HIDE DEF f
  <1>6. Leads(e, c, f)
    BY <1>2, <1>3, <1>4, <1>5, UseLeads
  <1> QED BY <1>1, <1>6 DEF f

\* tcp_close.
LEMMA CloseLeads ==
    ASSUME NEW e, NEW c, Right(e, c), c.p.state \notin {"CLOSED", "SYN_RCVD"}, NEW memory
    PROVE  Leads(e, c, Shutdown([c EXCEPT !.app.use = "closed", !.p.rxClosed = TRUE],
                                TRUE, memory))
  <1> DEFINE a == [c.app EXCEPT !.use = "closed"]
             q == [c.p EXCEPT !.rxClosed = TRUE]
             b == [c EXCEPT !.app = a]
             d == [b EXCEPT !.p = q]
             f == Shutdown(d, TRUE, memory)
  <1>1. [c EXCEPT !.app.use = "closed", !.p.rxClosed = TRUE] = d
    <2>1. [c EXCEPT !.app.use = "closed", !.p.rxClosed = TRUE] = [c EXCEPT !.app = a, !.p = q]
      BY DEF Right, IsContext, ContextFields
    <2> HIDE DEF a, q
    <2>2. [c EXCEPT !.app = a, !.p = q] = d
      BY DEF Right, IsContext, ContextFields
    <2> HIDE DEF d
    <2> QED BY <2>1, <2>2
  <1>2. /\ IsApp(a) /\ a.use = "closed" /\ a.wrote = c.app.wrote /\ a.got = c.app.got
        /\ a.read = c.app.read /\ a.eof = c.app.eof /\ a.err = c.app.err
    <2>1. "closed" \in Uses /\ IsApp(c.app)
      BY DEF Uses, Right, IsContext
    <2> QED BY <2>1, UseChange
  <1> HIDE DEF a
  <1>3. /\ IsPcb(q) /\ q.state = c.p.state /\ q.rcv_nxt = c.p.rcv_nxt /\ q.refused = c.p.refused
        /\ q.rxClosed /\ q.closePend = c.p.closePend /\ q.backlogPend = c.p.backlogPend
        /\ (Timed(c.p) => Timed(q))
    BY ZenonT(60) DEF Right, IsContext, IsPcb, PcbFields, Timed
  <1> HIDE DEF q
  <1>4. IsContext(b) /\ b.app = a /\ b.p = c.p /\ b.pending = c.pending
    BY <1>2, AppChange DEF Right
  <1> HIDE DEF b
  <1>5. IsContext(d) /\ d.app = a /\ d.p = q /\ d.pending = c.pending
    BY <1>3, <1>4, PcbChange DEF Beside
  <1> HIDE DEF d
  <1>6. Owed(d) = Owed(c)
    BY <1>3, <1>5 DEF Owed
  <1>7. CASE c.p.state = "SYN_SENT"
    <2>1. f = RemovePcb(d)
      BY <1>3, <1>5, <1>7 DEF Shutdown
    <2> HIDE DEF f
    <2>2. AppOK(e, d.app)
      BY <1>2, <1>5, RightAppOK DEF AppOK
    <2>3. Gone(e, d, RemovePcb(d))
      BY <1>2, <1>3, <1>5, <1>7, <2>2, RemoveGone
    <2>4. Leads(e, d, RemovePcb(d))
      BY <2>3, GoneLeads
    <2>5. f.p.state \in Early
      BY <2>1, <2>3, NewPcbType DEF Gone, Early
    <2>6. Leads(e, c, f)
      BY <1>6, <2>1, <2>4, <2>5, EarlyLeads DEF Leads
    <2> QED BY <1>1, <2>6 DEF f
  <1>8. CASE c.p.state # "SYN_SENT"
    <2>1. c.p.state \notin Early /\ c.p.state # "CLOSED"
      BY <1>8 DEF Early
    <2>2. Right(e, d)
      BY <1>2, <1>3, <1>5, <2>1 DEF Right, HostOK
    <2>3. Goes(e, d, f)
      BY <1>2, <1>3, <1>5, <2>1, <2>2, ShutdownGoes DEF Early
    <2> HIDE DEF f
    <2>4. Leads(e, c, f)
      BY <1>2, <1>3, <1>5, <1>6, <2>2, <2>3, UseLeads
    <2> QED BY <1>1, <2>4 DEF f
  <1> QED BY <1>7, <1>8

\* The pcb of a tcp_connect.
Connecting(iss) ==
    [NewPcb EXCEPT !.state = "SYN_SENT", !.snd_nxt = iss,
                   !.lastack = Add(iss, -1), !.snd_lbb = Add(iss, -1),
                   !.snd_wl2 = Add(iss, -1)]

LEMMA ConnectingType ==
    ASSUME NEW iss \in Seqs
    PROVE  LET p == Connecting(iss)
           IN  /\ IsPcb(p) /\ p.state = "SYN_SENT" /\ p.refused = Nothing
               /\ ~p.backlogPend /\ ~p.rxClosed /\ ~p.closePend /\ p.unacked = <<>>
  <1> DEFINE n == Add(iss, -1)
             z == NewPcb
             p == [z EXCEPT !.state = "SYN_SENT", !.snd_nxt = iss,
                            !.lastack = n, !.snd_lbb = n, !.snd_wl2 = n]
  <1>1. n \in Seqs
    BY SeqNumber, SeqNat
  <1>2. Connecting(iss) = p
    BY DEF Connecting
  <1> HIDE DEF n
  <1>3. /\ IsPcb(z) /\ z.refused = Nothing /\ ~z.rxClosed /\ ~z.closePend /\ ~z.backlogPend
        /\ z.unacked = <<>>
    BY NewPcbType
  <1> HIDE DEF z
  <1>4. "SYN_SENT" \in States
    BY DEF States
  <1>5. /\ IsPcb(p) /\ p.state = "SYN_SENT" /\ p.refused = Nothing
        /\ ~p.backlogPend /\ ~p.rxClosed /\ ~p.closePend /\ p.unacked = <<>>
    BY ZenonT(60), <1>1, <1>3, <1>4 DEF IsPcb, PcbFields
  <1> HIDE DEF p
  <1> QED BY <1>2, <1>5

\* tcp_connect.
LEMMA ConnectLeads ==
    ASSUME NEW c, Right(Client, c), c.app.use = "idle", NEW iss \in Seqs
    PROVE  Leads(Client, c,
                 Output(EnqueueFlags([c EXCEPT !.p = Connecting(iss), !.app.use = "connecting"],
                                     TRUE, FALSE)))
  <1> DEFINE a == [c.app EXCEPT !.use = "connecting"]
             q == Connecting(iss)
             b == [c EXCEPT !.app = a]
             d == [b EXCEPT !.p = q]
             f == Output(EnqueueFlags(d, TRUE, FALSE))
  <1>1. [c EXCEPT !.p = Connecting(iss), !.app.use = "connecting"] = d
    <2> HIDE DEF q
    <2>1. [c EXCEPT !.p = q, !.app.use = "connecting"] = [c EXCEPT !.p = q, !.app = a]
      BY DEF Right, IsContext, ContextFields
    <2> HIDE DEF a
    <2>2. [c EXCEPT !.p = q, !.app = a] = d
      BY DEF Right, IsContext, ContextFields
    <2>3. [c EXCEPT !.p = Connecting(iss), !.app.use = "connecting"]
             = [c EXCEPT !.p = q, !.app.use = "connecting"]
      BY DEF q
    <2> HIDE DEF d
    <2> QED BY <2>1, <2>2, <2>3
  <1>2. /\ IsApp(a) /\ a.use = "connecting" /\ a.wrote = c.app.wrote /\ a.got = c.app.got
        /\ a.read = c.app.read /\ a.eof = c.app.eof /\ a.err = c.app.err
    <2>1. "connecting" \in Uses /\ IsApp(c.app)
      BY DEF Uses, Right, IsContext
    <2> QED BY <2>1, UseChange
  <1> HIDE DEF a
  <1>3. /\ IsPcb(q) /\ q.state = "SYN_SENT" /\ q.refused = Nothing
        /\ ~q.backlogPend /\ ~q.rxClosed /\ ~q.closePend /\ q.unacked = <<>>
    BY ConnectingType
  <1> HIDE DEF q
  <1>4. IsContext(b) /\ b.app = a /\ b.p = c.p /\ b.pending = c.pending
    BY <1>2, AppChange DEF Right
  <1> HIDE DEF b
  <1>5. IsContext(d) /\ d.app = a /\ d.p = q /\ d.pending = c.pending
    BY <1>3, <1>4, PcbChange DEF Beside
  <1> HIDE DEF d
  <1>6. ~c.p.backlogPend
    BY TcpAssumption DEF Right, HostOK
  <1>7. Owed(d) = Owed(c)
    BY <1>3, <1>5, <1>6 DEF Owed
  <1>8. Sends(d, f) /\ Waiting(f.p)
    BY <1>5, EnqueueAndOutput
  <1> HIDE DEF f
  <1>9. Along(d, f) /\ f.p.state = "SYN_SENT" /\ f.p.refused = Nothing /\ ~f.p.backlogPend
        /\ f.app = a
    BY <1>3, <1>5, <1>8, SendsAlong DEF Along, Beside
  <1>10. HostOK(Client, f.p, f.app)
    BY <1>2, <1>3, <1>5, <1>8, <1>9 DEF HostOK, Right, Early, Ending, Along, Timed
  <1>11. Leads(Client, c, f)
    BY <1>7, <1>9, <1>10, EarlyLeads DEF Along, Right, Early
  <1> QED BY <1>1, <1>11 DEF f

-----------------------------------------------------------------------------
(* Both hosts and the network between them.                                 *)

\* What holds of the hosts and of the network between them.
Hosts ==
    /\ pcb \in [Ends -> Pcbs]
    /\ app \in [Ends -> Apps]
    /\ net \in [Ends -> Seq(Messages)]
    /\ \A e \in Ends : Len(net[e]) <= NetMax
    /\ \A e \in Ends : HostOK(e, pcb[e], app[e])
    /\ pending = IF pcb[Server].backlogPend THEN 1 ELSE 0

Counters ==
    /\ nextIss \in [Ends -> Seqs]
    /\ faults \in 0 .. MaxFaults

\* A host after a step of its own or of another keeps what it held.
HostKept(e, p, a, q, b) ==
    q.state \notin Early /\ CountsOn(e, b) =>
        /\ Holding(q, b) >= Holding(p, a)
        /\ p.state = "SYN_SENT" => Holding(q, b) = 0
        /\ p.state # "SYN_SENT" =>
              q.rcv_nxt = Add(p.rcv_nxt, Holding(q, b) - Holding(p, a))

AllKept == \A e \in Ends : HostKept(e, pcb[e], app[e], pcb'[e], app'[e])

LEMMA TwoEnds ==
    /\ Client \in Ends /\ Server \in Ends /\ Client # Server
    /\ \A e \in Ends : Peer(e) \in Ends /\ Peer(e) # e /\ \A f \in Ends : f = e \/ f = Peer(e)
  BY TcpAssumption DEF Ends, Peer

LEMMA Constants ==
    /\ NetMax \in Nat /\ NetMax > 0 /\ MaxFaults \in Nat
    /\ \A e \in Ends : MaxWrite[e] \in Nat
  BY TcpAssumption

\* Hosts, taken apart.
LEMMA HostTypes ==
    ASSUME Hosts, NEW e \in Ends
    PROVE  /\ IsPcb(pcb[e]) /\ IsApp(app[e]) /\ HostOK(e, pcb[e], app[e])
           /\ net[e] \in Seq(Messages) /\ Len(net[e]) <= NetMax
           /\ pending \in Int
  <1>1. pcb[e] \in Pcbs /\ app[e] \in Apps
    BY DEF Hosts
  <1>2. IsPcb(pcb[e]) /\ IsApp(app[e])
    BY <1>1, PcbIs, AppIs
  <1> QED BY <1>2 DEF Hosts

\* The context a host's step begins with.
LEMMA ContextRight ==
    ASSUME Hosts, NEW e \in Ends, NEW down \in BOOLEAN
    PROVE  /\ Right(e, Context(e, down))
           /\ Context(e, down).p = pcb[e] /\ Context(e, down).app = app[e]
           /\ Context(e, down).text = Nothing /\ ~Context(e, down).freed
           /\ Owed(Context(e, down)) = IF e = Server THEN 0 ELSE pending
  <1> DEFINE c == Context(e, down)
  <1>1. /\ IsPcb(pcb[e]) /\ IsApp(app[e]) /\ HostOK(e, pcb[e], app[e]) /\ pending \in Int
    BY HostTypes
  <1>2. /\ c.p = pcb[e] /\ c.app = app[e] /\ c.text = Nothing /\ ~c.freed /\ c.pending = pending
    BY DEF Context
  <1>3. IsContext(c)
    <2>1. <<>> \in Seq(Messages) /\ Nothing \in Refusals
      BY NothingType
    <2> HIDE DEF Nothing
    <2> QED BY <1>1, <2>1 DEF Context, IsContext, ContextFields
  <1> HIDE DEF c
  <1>4. Owed(c) = IF e = Server THEN 0 ELSE pending
    <2>1. e # Server => ~pcb[e].backlogPend
      BY <1>1 DEF HostOK
    <2>2. pending = IF pcb[Server].backlogPend THEN 1 ELSE 0
      BY DEF Hosts
    <2> QED BY <1>1, <1>2, <2>1, <2>2 DEF Owed
  <1> QED BY <1>1, <1>2, <1>3, <1>4 DEF Right, c

LEMMA KeepsIsKept ==
    ASSUME NEW e, NEW c, NEW f, Keeps(e, c, f)
    PROVE  HostKept(e, c.p, c.app, f.p, f.app)
  BY DEF Keeps, HostKept

LEMMA NothingHappens ==
    ASSUME NEW e, NEW p, IsPcb(p), NEW a, IsApp(a)
    PROVE  HostKept(e, p, a, p, a)
  <1>1. Holding(p, a) \in Nat /\ p.rcv_nxt \in Seqs
    BY HoldingType DEF IsPcb
  <1>2. Holding(p, a) - Holding(p, a) = 0 /\ Holding(p, a) >= Holding(p, a)
    BY <1>1
  <1>3. Add(p.rcv_nxt, 0) = p.rcv_nxt
    BY <1>1, AddNothing
  <1> QED BY <1>2, <1>3 DEF HostKept, Early

\* A host's step leaves the other host alone; what it sends fits the network.
LEMMA CommitOK ==
    ASSUME Hosts, NEW e \in Ends, NEW down \in BOOLEAN, NEW f, Leads(e, Context(e, down), f),
           NEW atHost \in Seq(Messages), Len(atHost) <= NetMax,
           Commit(e, f, net[Peer(e)], atHost)
    PROVE  Hosts' /\ AllKept
  <1> DEFINE c == Context(e, down)
  <1>1. /\ IsContext(f) /\ HostOK(e, f.p, f.app) /\ Owed(f) = Owed(c) /\ Keeps(e, c, f)
        /\ c.p = pcb[e] /\ c.app = app[e]
        /\ Owed(c) = IF e = Server THEN 0 ELSE pending
    BY ContextRight DEF Leads, Right
  <1> HIDE DEF c
  <1>2. /\ f.p \in Pcbs /\ f.app \in Apps /\ f.out \in Seq(Messages) /\ f.pending \in Int
    BY <1>1, PcbIs, AppIs DEF IsContext
  <1>3. /\ pcb' = [pcb EXCEPT ![e] = f.p]
        /\ app' = [app EXCEPT ![e] = f.app]
        /\ pending' = f.pending
    BY DEF Commit
  <1>4. /\ pcb' \in [Ends -> Pcbs] /\ app' \in [Ends -> Apps]
        /\ pcb'[e] = f.p /\ app'[e] = f.app
        /\ \A g \in Ends : g # e => pcb'[g] = pcb[g] /\ app'[g] = app[g]
    BY <1>2, <1>3 DEF Hosts
  <1>5. net' \in [Ends -> Seq(Messages)] /\ \A g \in Ends : Len(net'[g]) <= NetMax
    <2> DEFINE all == net[Peer(e)] \o f.out
               fits == SubSeq(all, 1, AtMost(Len(all), NetMax))
    <2>1. net' = [net EXCEPT ![e] = atHost, ![Peer(e)] = fits]
      BY DEF Commit
    <2>2. all \in Seq(Messages) /\ Len(all) \in Nat
      <3>1. net[Peer(e)] \in Seq(Messages)
        BY TwoEnds, HostTypes
      <3>2. all \in Seq(Messages)
        BY <1>2, <3>1, ConcatProperties
      <3> HIDE DEF all
      <3> QED BY <3>2
    <2>3. fits \in Seq(Messages) /\ Len(fits) <= NetMax
      <3> DEFINE n == Len(all)
                 j == AtMost(n, NetMax)
      <3>1. n \in Nat /\ NetMax \in Nat
        BY <2>2, Constants
      <3>2. j \in Nat /\ j <= n /\ j <= NetMax
        <4> HIDE DEF n
        <4> QED BY <3>1 DEF AtMost
      <3> HIDE DEF j, all
      <3>3. 1 \in Int /\ 1 >= 1 /\ j \in Int /\ j <= Len(all)
        BY <3>2
      <3>4. /\ SubSeq(all, 1, j) \in Seq(Messages)
            /\ Len(SubSeq(all, 1, j)) = IF 1 <= j THEN j - 1 + 1 ELSE 0
        BY <2>2, <3>3, SubSeqType
      <3>5. Len(SubSeq(all, 1, j)) <= NetMax
        BY <3>1, <3>2, <3>4
      <3> QED BY <3>4, <3>5 DEF j
    <2> HIDE DEF fits
    <2>4. net \in [Ends -> Seq(Messages)]
      BY DEF Hosts
    <2>5. net' \in [Ends -> Seq(Messages)]
      BY <2>1, <2>3, <2>4
    <2>6. net'[e] = atHost /\ net'[Peer(e)] = fits
      BY <2>1, <2>4, TwoEnds
    <2> QED BY <2>3, <2>5, <2>6, TwoEnds
  <1>6. \A g \in Ends : HostOK(g, pcb'[g], app'[g])
    BY <1>1, <1>4 DEF Hosts
  <1>7. pending' = IF pcb'[Server].backlogPend THEN 1 ELSE 0
    <2>1. pcb'[e].backlogPend => e = Server
      BY <1>1, <1>4 DEF HostOK
    <2>2. pending = IF pcb[Server].backlogPend THEN 1 ELSE 0
      BY DEF Hosts
    <2>3. f.pending - (IF f.p.backlogPend THEN 1 ELSE 0) = IF e = Server THEN 0 ELSE pending
      BY <1>1 DEF Owed
    <2>4. CASE e = Server
      BY <1>2, <1>3, <1>4, <2>3, <2>4
    <2>5. CASE e # Server
      BY <1>2, <1>3, <1>4, <2>1, <2>2, <2>3, <2>5, TwoEnds
    <2> QED BY <2>4, <2>5
  <1>8. Hosts'
    BY <1>4, <1>5, <1>6, <1>7 DEF Hosts
  <1>9. AllKept
    <2>1. HostKept(e, pcb[e], app[e], pcb'[e], app'[e])
      BY <1>1, <1>4, KeepsIsKept
    <2>2. ASSUME NEW g \in Ends, g # e
          PROVE  HostKept(g, pcb[g], app[g], pcb'[g], app'[g])
      <3>1. HostKept(g, pcb[g], app[g], pcb[g], app[g])
        BY HostTypes, NothingHappens
      <3> QED BY <1>4, <2>2, <3>1
    <2> QED BY <2>1, <2>2 DEF AllKept
  <1> QED BY <1>8, <1>9

LEMMA StepOK ==
    ASSUME Hosts, NEW e \in Ends, NEW down \in BOOLEAN, NEW f, Leads(e, Context(e, down), f),
           Step(e, f)
    PROVE  Hosts' /\ AllKept
  <1>1. net[e] \in Seq(Messages) /\ Len(net[e]) <= NetMax
    BY HostTypes
  <1>2. Commit(e, f, net[Peer(e)], net[e])
    BY DEF Step
  <1> QED BY <1>1, <1>2, CommitOK

\* The hosts stand still.
LEMMA StillOK ==
    ASSUME Hosts, UNCHANGED <<pcb, app, pending>>,
           net' \in [Ends -> Seq(Messages)], \A e \in Ends : Len(net'[e]) <= NetMax
    PROVE  Hosts' /\ AllKept
  <1>1. Hosts'
    BY DEF Hosts
  <1>2. ASSUME NEW e \in Ends PROVE HostKept(e, pcb[e], app[e], pcb'[e], app'[e])
    <2>1. HostKept(e, pcb[e], app[e], pcb[e], app[e])
      BY HostTypes, NothingHappens
    <2> QED BY <2>1
  <1> QED BY <1>1, <1>2 DEF AllKept

\* The counters of initial sequence numbers and of faults.
LEMMA CountersKept ==
    ASSUME Counters, NEW b, FaultIf(b) PROVE faults' \in 0 .. MaxFaults
  BY Constants DEF Counters, FaultIf, Fault

LEMMA NextIssKept ==
    ASSUME Counters, NEW e \in Ends,
           nextIss' = [nextIss EXCEPT ![e] = Add(@, IssStep)] \/ nextIss' = nextIss
    PROVE  nextIss' \in [Ends -> Seqs] /\ nextIss[e] \in Seqs
  <1>1. nextIss \in [Ends -> Seqs] /\ nextIss[e] \in Seqs
    BY DEF Counters
  <1>2. Add(nextIss[e], IssStep) \in Seqs
    <2>1. nextIss[e] \in Int /\ IssStep \in Int
      BY <1>1, SeqNat, TcpAssumption
    <2> QED BY <2>1, SeqNumber
  <1> QED BY <1>1, <1>2

\* The actions, one by one.
LEMMA ConnectOK ==
    ASSUME Hosts, Counters, Connect
    PROVE  Hosts' /\ Counters' /\ AllKept
  <1> DEFINE iss == nextIss[Client]
             c == Context(Client, FALSE)
             d == [c EXCEPT !.p = Connecting(iss), !.app.use = "connecting"]
             f == Output(EnqueueFlags(d, TRUE, FALSE))
  <1>1. /\ app[Client].use = "idle" /\ Step(Client, f)
        /\ nextIss' = [nextIss EXCEPT ![Client] = Add(@, IssStep)] /\ faults' = faults
    BY DEF Connect, Connecting
  <1>2. Client \in Ends
    BY TwoEnds
  <1>3. Counters' /\ iss \in Seqs
    BY <1>1, <1>2, NextIssKept DEF Counters
  <1>4. Right(Client, c) /\ c.app = app[Client]
    BY <1>2, ContextRight
  <1>5. Leads(Client, c, f)
    <2> HIDE DEF c, iss
    <2> QED BY <1>1, <1>3, <1>4, ConnectLeads
  <1> HIDE DEF f
  <1>6. Hosts' /\ AllKept
    BY <1>1, <1>2, <1>5, StepOK
  <1> QED BY <1>3, <1>6

LEMMA ReceivesOK ==
    ASSUME Hosts, Counters, NEW e \in Ends, Receives(e)
    PROVE  Hosts' /\ Counters' /\ AllKept
  <1> DEFINE m == Head(net[e])
  <1>1. /\ net[e] # <<>>
        /\ \E ok \in Answers(e, m), down \in Downs(e) :
              LET c == Input(Context(e, down), m, ok, e = Server, nextIss[e])
              IN  SendFault(c, FALSE) /\ Commit(e, c, net[Peer(e)], Tail(net[e]))
        /\ nextIss' = [nextIss EXCEPT ![e] = Add(@, IssStep)] \/ nextIss' = nextIss
    BY DEF Receives
  <1>2. m \in Messages /\ Tail(net[e]) \in Seq(Messages) /\ Len(Tail(net[e])) <= NetMax
    <2>1. net[e] \in Seq(Messages) /\ Len(net[e]) <= NetMax
      BY HostTypes
    <2>2. /\ Head(net[e]) \in Messages /\ Tail(net[e]) \in Seq(Messages)
          /\ Len(Tail(net[e])) = Len(net[e]) - 1 /\ Len(net[e]) \in Nat
      BY <1>1, <2>1
    <2> QED BY <2>1, <2>2, Constants
  <1> HIDE DEF m
  <1>3. PICK ok \in Answers(e, m), down \in Downs(e) :
              LET c == Input(Context(e, down), m, ok, e = Server, nextIss[e])
              IN  SendFault(c, FALSE) /\ Commit(e, c, net[Peer(e)], Tail(net[e]))
    BY <1>1
  <1> DEFINE c == Context(e, down)
             f == Input(c, m, ok, e = Server, nextIss[e])
  <1>4. ok \in BOOLEAN /\ (~ok => e \in Refusers) /\ down \in BOOLEAN
    BY DEF Answers, Downs
  <1>5. Right(e, c) /\ c.text = Nothing /\ ~c.freed
    BY <1>4, ContextRight
  <1>6. nextIss' \in [Ends -> Seqs] /\ nextIss[e] \in Seqs
    BY <1>1, NextIssKept
  <1>7. Handles(e, c, f)
    <2> HIDE DEF c
    <2>1. MaxWrite[e] \in Nat
      BY Constants
    <2> QED BY <1>2, <1>4, <1>5, <1>6, <2>1, InputHandles
  <1>8. FaultIf(FALSE \/ f.down) /\ Commit(e, f, net[Peer(e)], Tail(net[e]))
    BY <1>3 DEF SendFault
  <1> HIDE DEF f
  <1>9. Leads(e, Context(e, down), f)
    BY <1>7, HandlesLeads
  <1>10. Hosts' /\ AllKept
    BY <1>2, <1>4, <1>8, <1>9, CommitOK
  <1>11. Counters'
    BY <1>6, <1>8, CountersKept DEF Counters
  <1> QED BY <1>10, <1>11

LEMMA WriteOK ==
    ASSUME Hosts, Counters, NEW e \in Ends, NEW n \in Nat, Write(e, n)
    PROVE  Hosts' /\ Counters' /\ AllKept
  <1> DEFINE text == [i \in 1 .. n |-> app[e].wrote + i]
             Done(down) ==
                Output([Context(e, down) EXCEPT !.p = Enqueue(@, text), !.app.wrote = @ + n])
  <1>1. /\ pcb[e].state \in {"ESTABLISHED", "CLOSE_WAIT"}
        /\ app[e].wrote + n <= MaxWrite[e]
        /\ \E down \in Downs(e) : SendFault(Done(down), FALSE) /\ Step(e, Done(down))
        /\ nextIss' = nextIss
    BY DEF Write
  <1>2. text \in Seq(Nat)
    <2>1. app[e].wrote \in Nat
      BY HostTypes DEF IsApp
    <2>2. text \in [1 .. n -> Nat]
      BY <2>1
    <2> HIDE DEF text
    <2> QED BY <2>2, IsASeq
  <1> HIDE DEF text
  <1>3. PICK down \in Downs(e) : SendFault(Done(down), FALSE) /\ Step(e, Done(down))
    BY <1>1
  <1> DEFINE c == Context(e, down)
             f == Done(down)
  <1>4. down \in BOOLEAN
    BY DEF Downs
  <1>5. Right(e, c) /\ c.p = pcb[e] /\ c.app = app[e]
    BY <1>4, ContextRight
  <1>6. Leads(e, c, f)
    <2>1. f = Output([c EXCEPT !.p = Enqueue(@, text), !.app.wrote = @ + n])
      OBVIOUS
    <2> HIDE DEF c, f
    <2> QED BY <1>1, <1>2, <1>5, <2>1, WriteLeads DEF Early
  <1>7. FaultIf(FALSE \/ f.down) /\ Step(e, f)
    BY <1>3 DEF SendFault
  <1> HIDE DEF f
  <1>8. Hosts' /\ AllKept
    BY <1>4, <1>6, <1>7, StepOK
  <1>9. Counters'
    BY <1>1, <1>7, CountersKept DEF Counters
  <1> QED BY <1>8, <1>9

LEMMA ReadOK ==
    ASSUME Hosts, Counters, NEW e \in Ends, NEW n \in Nat, Read(e, n)
    PROVE  Hosts' /\ Counters' /\ AllKept
  <1> DEFINE c == Context(e, FALSE)
             d == [c EXCEPT !.app.read = @ + n]
             f == Recved(d, n)
  <1>1. /\ app[e].use \in {"open", "shut"} /\ app[e].read + n = Len(app[e].got)
        /\ nextIss' = nextIss /\ faults' = faults
    BY DEF Read
  <1>2. \/ Step(e, f)
        \/ app' = [app EXCEPT ![e].read = @ + n] /\ UNCHANGED <<pcb, net, pending>>
    BY DEF Read
  <1>3. Right(e, c) /\ c.p = pcb[e] /\ c.app = app[e]
    BY ContextRight
  <1>4. c.app.read + n <= Len(c.app.got)
    <2>1. app[e].got \in Seq(Nat)
      BY HostTypes DEF IsApp
    <2> DEFINE x == Len(app[e].got)
    <2>2. x \in Nat /\ app[e].read + n = x
      BY <1>1, <2>1
    <2> HIDE DEF x, c
    <2>3. app[e].read + n <= x
      BY <2>2
    <2> QED BY <1>3, <2>3 DEF x
  <1>5. Leads(e, c, f)
    <2> HIDE DEF c
    <2> QED BY <1>1, <1>3, <1>4, ReadLeads
  <1>6. Goes(e, c, d)
    <2> HIDE DEF c
    <2> QED BY <1>3, <1>4, ReadRight
  <1>7. d.app = [app[e] EXCEPT !.read = @ + n] /\ d.p = pcb[e]
    BY DEF Context
  <1> HIDE DEF f
  <1>8. CASE Step(e, f)
    BY <1>1, <1>5, <1>8, StepOK DEF Counters
  <1>9. CASE app' = [app EXCEPT ![e].read = @ + n] /\ UNCHANGED <<pcb, net, pending>>
    <2>1. Right(e, d) /\ Leads(e, c, d)
      BY <1>3, <1>6, GoesLeads DEF Goes, Passes
    <2> HIDE DEF d, c
    <2>2. d.app \in Apps /\ HostOK(e, pcb[e], d.app)
      BY <1>7, <2>1, AppIs DEF Right, IsContext
    <2>3. app' = [app EXCEPT ![e] = d.app]
      BY <1>7, <1>9
    <2>4. app' \in [Ends -> Apps] /\ app'[e] = d.app /\ \A g \in Ends : g # e => app'[g] = app[g]
      BY <2>2, <2>3 DEF Hosts
    <2>5. Hosts'
      BY <1>9, <2>2, <2>4 DEF Hosts
    <2>6. AllKept
      <3>1. HostKept(e, pcb[e], app[e], pcb'[e], app'[e])
        <4>1. HostKept(e, c.p, c.app, d.p, d.app)
          BY <2>1, KeepsIsKept DEF Leads
        <4> QED BY <1>3, <1>7, <1>9, <2>4, <4>1
      <3>2. ASSUME NEW g \in Ends, g # e
            PROVE  HostKept(g, pcb[g], app[g], pcb'[g], app'[g])
        <4>1. HostKept(g, pcb[g], app[g], pcb[g], app[g])
          BY HostTypes, NothingHappens
        <4> QED BY <1>9, <2>4, <3>2, <4>1
      <3> QED BY <3>1, <3>2 DEF AllKept
    <2> QED BY <1>1, <2>5, <2>6 DEF Counters
  <1> QED BY <1>2, <1>8, <1>9

LEMMA ShutOK ==
    ASSUME Hosts, Counters, NEW e \in Ends, NEW memory \in BOOLEAN, Shut(e, memory)
    PROVE  Hosts' /\ Counters' /\ AllKept
  <1> DEFINE Done(down) == Shutdown([Context(e, down) EXCEPT !.app.use = "shut"], FALSE, memory)
  <1>1. /\ app[e].use = "open" /\ pcb[e].state \in {"ESTABLISHED", "CLOSE_WAIT"}
        /\ \E down \in Downs(e) : SendFault(Done(down), ~memory) /\ Step(e, Done(down))
        /\ nextIss' = nextIss
    BY DEF Shut
  <1>2. PICK down \in Downs(e) : SendFault(Done(down), ~memory) /\ Step(e, Done(down))
    BY <1>1
  <1> DEFINE c == Context(e, down)
             f == Done(down)
  <1>3. down \in BOOLEAN
    BY DEF Downs
  <1>4. Right(e, c) /\ c.p = pcb[e] /\ c.app = app[e]
    BY <1>3, ContextRight
  <1>5. Leads(e, c, f)
    <2>1. f = Shutdown([c EXCEPT !.app.use = "shut"], FALSE, memory)
      OBVIOUS
    <2> HIDE DEF c, f
    <2> QED BY <1>1, <1>4, <2>1, ShutLeads
  <1>6. FaultIf(~memory \/ f.down) /\ Step(e, f)
    BY <1>2 DEF SendFault
  <1> HIDE DEF f
  <1>7. Hosts' /\ AllKept
    BY <1>3, <1>5, <1>6, StepOK
  <1>8. Counters'
    BY <1>1, <1>6, CountersKept DEF Counters
  <1> QED BY <1>7, <1>8

LEMMA CloseOK ==
    ASSUME Hosts, Counters, NEW e \in Ends, NEW memory \in BOOLEAN, Close(e, memory)
    PROVE  Hosts' /\ Counters' /\ AllKept
  <1> DEFINE Done(down) ==
                Shutdown([Context(e, down) EXCEPT !.app.use = "closed", !.p.rxClosed = TRUE],
                         TRUE, memory)
  <1>1. /\ pcb[e].state \notin {"CLOSED", "SYN_RCVD"}
        /\ \E down \in Downs(e) : SendFault(Done(down), ~memory) /\ Step(e, Done(down))
        /\ nextIss' = nextIss
    BY DEF Close
  <1>2. PICK down \in Downs(e) : SendFault(Done(down), ~memory) /\ Step(e, Done(down))
    BY <1>1
  <1> DEFINE c == Context(e, down)
             f == Done(down)
  <1>3. down \in BOOLEAN
    BY DEF Downs
  <1>4. Right(e, c) /\ c.p = pcb[e]
    BY <1>3, ContextRight
  <1>5. Leads(e, c, f)
    <2>1. f = Shutdown([c EXCEPT !.app.use = "closed", !.p.rxClosed = TRUE], TRUE, memory)
      OBVIOUS
    <2> HIDE DEF c, f
    <2> QED BY <1>1, <1>4, <2>1, CloseLeads
  <1>6. FaultIf(~memory \/ f.down) /\ Step(e, f)
    BY <1>2 DEF SendFault
  <1> HIDE DEF f
  <1>7. Hosts' /\ AllKept
    BY <1>3, <1>5, <1>6, StepOK
  <1>8. Counters'
    BY <1>1, <1>6, CountersKept DEF Counters
  <1> QED BY <1>7, <1>8

\* The timers.
LEMMA FastTimerOK ==
    ASSUME Hosts, Counters, NEW e \in Ends, FastTimer(e)
    PROVE  Hosts' /\ Counters' /\ AllKept
  <1> DEFINE Done(down, ok) == ProcessRefusedData(FastFinned(FastAcked(Context(e, down))), ok)
  <1>1. /\ \E ok \in {TRUE, e \notin Refusers}, down \in Downs(e) :
              SendFault(Done(down, ok), ~Quiet) /\ Step(e, Done(down, ok))
        /\ nextIss' = nextIss
    BY DEF FastTimer, FastAcked, FastFinned
  <1>2. PICK ok \in {TRUE, e \notin Refusers}, down \in Downs(e) :
              SendFault(Done(down, ok), ~Quiet) /\ Step(e, Done(down, ok))
    BY <1>1
  <1> DEFINE c == Context(e, down)
             f == Done(down, ok)
  <1>3. down \in BOOLEAN
    BY DEF Downs
  <1>4. Right(e, c)
    BY <1>3, ContextRight
  <1>5. Leads(e, c, f)
    <2>1. f = ProcessRefusedData(FastFinned(FastAcked(c)), ok)
      OBVIOUS
    <2> HIDE DEF c, f
    <2> QED BY <1>4, <2>1, FastTimerLeads
  <1>6. FaultIf(~Quiet \/ f.down) /\ Step(e, f)
    BY <1>2 DEF SendFault
  <1> HIDE DEF f
  <1>7. Hosts' /\ AllKept
    BY <1>3, <1>5, <1>6, StepOK
  <1>8. Counters'
    BY <1>1, <1>6, CountersKept DEF Counters
  <1> QED BY <1>7, <1>8

LEMMA SlowTimerOK ==
    ASSUME Hosts, Counters, NEW e \in Ends, SlowTimer(e)
    PROVE  Hosts' /\ Counters' /\ AllKept
  <1> DEFINE p == pcb[e]
             Checked(down, expired) == IF expired THEN Expired(Context(e, down))
                                       ELSE Context(e, down)
             Done(down, expired, late, poll) ==
                IF GivesUp(p) \/ late THEN Failed(Free(Purge(Checked(down, expired))))
                ELSE IF poll THEN Output(Checked(down, expired)) ELSE Checked(down, expired)
  <1>1. /\ p.state \notin {"CLOSED", "TIME_WAIT"}
        /\ p.nrtx >= MaxRtx \/ PersistSends(p)
        /\ \E expired, late, poll \in BOOLEAN, down \in Downs(e) :
              /\ expired => Runs(p) /\ ~GivesUp(p)
              /\ SendFault(Done(down, expired, late, poll), ~Quiet)
              /\ Step(e, Done(down, expired, late, poll))
        /\ nextIss' = nextIss
    BY DEF SlowTimer
  <1>2. PICK expired \in BOOLEAN, late \in BOOLEAN, poll \in BOOLEAN, down \in Downs(e) :
              /\ expired => Runs(p) /\ ~GivesUp(p)
              /\ SendFault(Done(down, expired, late, poll), ~Quiet)
              /\ Step(e, Done(down, expired, late, poll))
    BY <1>1
  <1> DEFINE c == Context(e, down)
             d == Checked(down, expired)
             f == Done(down, expired, late, poll)
  <1>3. down \in BOOLEAN
    BY DEF Downs
  <1>4. Right(e, c) /\ c.p = p
    BY <1>3, ContextRight
  <1>5. d = c \/ (Sends(c, d) /\ (Waiting(c.p) => Waiting(d.p)))
    <2>1. CASE ~expired
      BY <2>1
    <2>2. CASE expired
      <3>1. d = Expired(c)
        BY <2>2
      <3>2. PersistSends(p) /\ ~GivesUp(p)
        BY <1>1, <1>2, <2>2 DEF GivesUp
      <3> HIDE DEF c, d, p
      <3> QED BY <1>4, <3>1, <3>2, ExpiredSends DEF Right
    <2> QED BY <2>1, <2>2
  <1>6. \/ f = Failed(Free(Purge(d)))
        \/ f = Output(d)
        \/ f = d
    OBVIOUS
  <1> HIDE DEF d, c
  <1>7. FaultIf(~Quiet \/ f.down) /\ Step(e, f)
    BY <1>2 DEF SendFault
  <1> HIDE DEF f
  <1>8. Leads(e, c, f)
    BY <1>1, <1>4, <1>5, <1>6, SlowTimerLeads
  <1>9. Hosts' /\ AllKept
    BY <1>3, <1>7, <1>8, StepOK DEF c
  <1>10. Counters'
    BY <1>1, <1>7, CountersKept DEF Counters
  <1> QED BY <1>9, <1>10

LEMMA TimeWaitTimerOK ==
    ASSUME Hosts, Counters, NEW e \in Ends, TimeWaitTimer(e)
    PROVE  Hosts' /\ Counters' /\ AllKept
  <1> DEFINE c == Context(e, FALSE)
             f == Free(c)
  <1>1. /\ pcb[e].state = "TIME_WAIT" /\ Step(e, f)
        /\ FaultIf(~Quiet) /\ nextIss' = nextIss
    BY DEF TimeWaitTimer
  <1>2. Right(e, c) /\ c.p = pcb[e]
    BY ContextRight
  <1>3. Leads(e, c, f)
    <2> HIDE DEF c
    <2> QED BY <1>1, <1>2, TimeWaitTimerLeads
  <1> HIDE DEF f
  <1>4. Hosts' /\ AllKept
    BY <1>1, <1>3, StepOK
  <1>5. Counters'
    BY <1>1, CountersKept DEF Counters
  <1> QED BY <1>4, <1>5

\* Segments are lost, copied and delayed.
LEMMA NetworkFaultOK ==
    ASSUME Hosts, Counters, NEW e \in Ends, NetworkFault(e)
    PROVE  Hosts' /\ Counters' /\ AllKept
  <1>1. UNCHANGED <<pcb, app, pending, nextIss>> /\ faults < MaxFaults /\ faults' = faults + 1
    BY DEF NetworkFault, Fault
  <1> DEFINE q == net[e]
  <1>2. net \in [Ends -> Seq(Messages)] /\ q \in Seq(Messages) /\ Len(q) <= NetMax
    BY DEF Hosts
  <1>3. \E r \in Seq(Messages) : Len(r) <= NetMax /\ net' = [net EXCEPT ![e] = r]
    <2>1. CASE Lose(e)
      <3>1. q # <<>> /\ net' = [net EXCEPT ![e] = Tail(q)]
        BY <2>1 DEF Lose
      <3> HIDE DEF q
      <3>2. Tail(q) \in Seq(Messages) /\ Len(Tail(q)) = Len(q) - 1 /\ Len(q) \in Nat
        BY <1>2, <3>1
      <3>3. Len(Tail(q)) <= NetMax
        BY <1>2, <3>2, Constants
      <3> QED BY <3>1, <3>2, <3>3
    <2>2. CASE Duplicate(e)
      <3>1. q # <<>> /\ Len(q) < NetMax /\ net' = [net EXCEPT ![e] = Append(q, Head(q))]
        BY <2>2 DEF Duplicate
      <3> HIDE DEF q
      <3>2. Head(q) \in Messages /\ Len(q) \in Nat
        BY <1>2, <3>1
      <3>3. Append(q, Head(q)) \in Seq(Messages) /\ Len(Append(q, Head(q))) = Len(q) + 1
        BY <1>2, <3>2, AppendProperties
      <3>4. Len(Append(q, Head(q))) <= NetMax
        BY <3>1, <3>2, <3>3, Constants
      <3> QED BY <3>1, <3>3, <3>4
    <2>3. CASE Delay(e)
      <3>1. Len(q) > 1 /\ net' = [net EXCEPT ![e] = Append(Tail(q), Head(q))]
        BY <2>3 DEF Delay
      <3> HIDE DEF q
      <3>2. q # <<>>
        BY <1>2, <3>1
      <3>3. /\ Head(q) \in Messages /\ Len(q) \in Nat
            /\ Tail(q) \in Seq(Messages) /\ Len(Tail(q)) = Len(q) - 1
        BY <1>2, <3>2
      <3>4. /\ Append(Tail(q), Head(q)) \in Seq(Messages)
            /\ Len(Append(Tail(q), Head(q))) = Len(Tail(q)) + 1
        BY <3>3, AppendProperties
      <3>5. Len(Append(Tail(q), Head(q))) <= NetMax
        BY <1>2, <3>3, <3>4, Constants
      <3> QED BY <3>1, <3>4, <3>5
    <2> QED BY <2>1, <2>2, <2>3 DEF NetworkFault
  <1>4. PICK r \in Seq(Messages) : Len(r) <= NetMax /\ net' = [net EXCEPT ![e] = r]
    BY <1>3
  <1>5. net' \in [Ends -> Seq(Messages)] /\ \A g \in Ends : Len(net'[g]) <= NetMax
    BY <1>2, <1>4 DEF Hosts
  <1>6. Hosts' /\ AllKept
    BY <1>1, <1>5, StillOK
  <1>7. Counters'
    BY <1>1, Constants DEF Counters
  <1> QED BY <1>6, <1>7

\* The invariant holds at first, and every step keeps it.
LEMMA InitHosts ==
    ASSUME Init PROVE Hosts /\ Counters
  <1>1. /\ pcb = [e \in Ends |-> NewPcb] /\ app = [e \in Ends |-> NewApp]
        /\ net = [e \in Ends |-> <<>>] /\ pending = 0 /\ nextIss = Iss /\ faults = 0
    BY DEF Init
  <1>2. NewPcb \in Pcbs /\ NewApp \in Apps
    BY PcbIs, AppIs, NewPcbType, NewAppType
  <1>3. \A e \in Ends : HostOK(e, NewPcb, NewApp)
    <2> SUFFICES ASSUME NEW e \in Ends PROVE HostOK(e, NewPcb, NewApp)
      OBVIOUS
    <2>1. AppOK(e, NewApp)
      BY NewAppType, Constants DEF AppOK
    <2> QED BY <2>1, NewAppType, NewPcbOK
  <1>4. ~NewPcb.backlogPend
    BY NewPcbType
  <1> DEFINE z == NewPcb
             a == NewApp
  <1> HIDE DEF z, a
  <1>5. pcb = [e \in Ends |-> z] /\ app = [e \in Ends |-> a]
    BY <1>1 DEF z, a
  <1>6. Hosts
    <2>1. pcb \in [Ends -> Pcbs] /\ app \in [Ends -> Apps]
      BY <1>2, <1>5 DEF z, a
    <2>2. net \in [Ends -> Seq(Messages)] /\ \A e \in Ends : Len(net[e]) <= NetMax
      BY <1>1, Constants
    <2>3. \A e \in Ends : HostOK(e, pcb[e], app[e])
      BY <1>3, <1>5 DEF z, a
    <2>4. ~pcb[Server].backlogPend
      BY <1>4, <1>5, TwoEnds DEF z
    <2> QED BY <1>1, <2>1, <2>2, <2>3, <2>4 DEF Hosts
  <1>7. Counters
    BY <1>1, Constants, TcpAssumption DEF Counters, Seqs
  <1> QED BY <1>6, <1>7

LEMMA NextHosts ==
    ASSUME Hosts, Counters, [Next]_vars
    PROVE  Hosts' /\ Counters' /\ AllKept
  <1>1. CASE Connect
    BY <1>1, ConnectOK
  <1>2. ASSUME NEW e \in Ends, Receives(e) PROVE Hosts' /\ Counters' /\ AllKept
    BY <1>2, ReceivesOK
  <1>3. ASSUME NEW e \in Ends, NEW n \in 1 .. 2 * Mss, Write(e, n)
        PROVE  Hosts' /\ Counters' /\ AllKept
    <2>1. n \in Nat
      BY TcpAssumption
    <2> QED BY <1>3, <2>1, WriteOK
  <1>4. ASSUME NEW e \in Ends, NEW n \in 1 .. TcpWnd, Read(e, n)
        PROVE  Hosts' /\ Counters' /\ AllKept
    <2>1. n \in Nat
      BY TcpAssumption
    <2> QED BY <1>4, <2>1, ReadOK
  <1>5. ASSUME NEW e \in Ends, NEW memory \in BOOLEAN, Shut(e, memory)
        PROVE  Hosts' /\ Counters' /\ AllKept
    BY <1>5, ShutOK
  <1>6. ASSUME NEW e \in Ends, NEW memory \in BOOLEAN, Close(e, memory)
        PROVE  Hosts' /\ Counters' /\ AllKept
    BY <1>6, CloseOK
  <1>7. ASSUME NEW e \in Ends, FastTimer(e) PROVE Hosts' /\ Counters' /\ AllKept
    BY <1>7, FastTimerOK
  <1>8. ASSUME NEW e \in Ends, SlowTimer(e) PROVE Hosts' /\ Counters' /\ AllKept
    BY <1>8, SlowTimerOK
  <1>9. ASSUME NEW e \in Ends, TimeWaitTimer(e) PROVE Hosts' /\ Counters' /\ AllKept
    BY <1>9, TimeWaitTimerOK
  <1>10. ASSUME NEW e \in Ends, NetworkFault(e) PROVE Hosts' /\ Counters' /\ AllKept
    BY <1>10, NetworkFaultOK
  <1>11. CASE UNCHANGED vars
    <2>1. UNCHANGED <<pcb, app, pending>> /\ net' = net /\ nextIss' = nextIss /\ faults' = faults
      BY <1>11 DEF vars
    <2>2. net' \in [Ends -> Seq(Messages)] /\ \A e \in Ends : Len(net'[e]) <= NetMax
      BY <2>1 DEF Hosts
    <2>3. Hosts' /\ AllKept
      BY <2>1, <2>2, StillOK
    <2> QED BY <2>1, <2>3 DEF Counters
  <1> QED
    BY <1>1, <1>2, <1>3, <1>4, <1>5, <1>6, <1>7, <1>8, <1>9, <1>10, <1>11 DEF Next

-----------------------------------------------------------------------------
\* The invariant types every variable.
LEMMA HostsType ==
    ASSUME Hosts, Counters PROVE TypeOK
  <1>1. ASSUME NEW e \in Ends
        PROVE  /\ Len(net[e]) <= NetMax
               /\ app[e].wrote <= MaxWrite[e] /\ app[e].read <= Len(app[e].got)
               /\ pcb[e].backlogPend => e = Server /\ pcb[e].state = "SYN_RCVD"
    BY DEF Hosts, HostOK
  <1> QED BY <1>1 DEF Hosts, Counters, TypeOK

\* Types and limits of every variable, through every call, segment, timer and fault:
\* no segment longer than Mss, no window or count out of its range, and
\* accepts_pending is the number of connections that wait for their accept.
THEOREM TypeCorrect == Spec => []TypeOK
  <1>1. Init => Hosts /\ Counters
    BY InitHosts
  <1>2. Hosts /\ Counters /\ [Next]_vars => (Hosts /\ Counters)'
    BY NextHosts
  <1>3. Hosts /\ Counters => TypeOK
    BY HostsType
  <1> QED BY <1>1, <1>2, <1>3, PTL DEF Spec

\* While a segment is unacknowledged the retransmission timer runs and the persist
\* timer does not, through every step of tcp_output, tcp_receive, tcp_process, the
\* retransmissions and the timers, and whatever the layer below fails to send.
THEOREM TimersRun == Spec => []TimerRuns
  <1>1. Init => Hosts /\ Counters
    BY InitHosts
  <1>2. Hosts /\ Counters /\ [Next]_vars => (Hosts /\ Counters)'
    BY NextHosts
  <1>3. Hosts => TimerRuns
    BY DEF Hosts, HostOK, Timed, TimerRuns
  <1> QED BY <1>1, <1>2, <1>3, PTL DEF Spec

KeptThrough == \A e \in Ends :
    Synchronized(e)' /\ Counts(e)' =>
        /\ Held(e)' >= Held(e)
        /\ pcb[e].state = "SYN_SENT" => Held(e)' = 0
        /\ pcb[e].state # "SYN_SENT" =>
              pcb'[e].rcv_nxt = Add(pcb[e].rcv_nxt, Held(e)' - Held(e))
ToldOfTheEnd == \A e \in Ends :
    pcb[e].state = "CLOSED" /\ app[e].use \in {"connecting", "open"} => app[e].err

\* A step that keeps every host's share is what NothingDropped asks of it.
LEMMA AllKeptIs == ASSUME AllKept PROVE KeptThrough
  <1> SUFFICES ASSUME NEW e \in Ends, Synchronized(e)', Counts(e)'
               PROVE  /\ Held(e)' >= Held(e)
                      /\ pcb[e].state = "SYN_SENT" => Held(e)' = 0
                      /\ pcb[e].state # "SYN_SENT" =>
                            pcb'[e].rcv_nxt = Add(pcb[e].rcv_nxt, Held(e)' - Held(e))
    BY DEF KeptThrough
  <1>1. Held(e) = Holding(pcb[e], app[e])
    BY DEF Held, Synchronized, Holding, Early
  <1>2. Held(e)' = Holding(pcb'[e], app'[e])
    BY DEF Held, Synchronized, Holding, Early
  <1>3. pcb'[e].state \notin Early /\ CountsOn(e, app'[e])
    BY DEF Synchronized, Counts, CountsOn, Early
  <1>4. HostKept(e, pcb[e], app[e], pcb'[e], app'[e])
    BY DEF AllKept
  <1> QED BY <1>1, <1>2, <1>3, <1>4 DEF HostKept

\* As far as a host moves rcv_nxt its application holds the text and the FIN or
\* refused_data does, each once, and an application that has shut down nothing is
\* told when its pcb is freed (tcp_input, tcp_process_refused_data, tcp_pcb_purge,
\* TCP_EVENT_ERR), whatever the network brings.
THEOREM NothingIsDropped == Spec => NothingDropped
  <1>1. Init => Hosts /\ Counters
    BY InitHosts
  <1>2. Hosts /\ Counters /\ [Next]_vars => (Hosts /\ Counters)' /\ KeptThrough
    BY NextHosts, AllKeptIs
  <1>3. Hosts => ToldOfTheEnd
    BY DEF Hosts, HostOK, ToldOfTheEnd
  <1>4. Spec => [][KeptThrough]_vars /\ []ToldOfTheEnd
    BY <1>1, <1>2, <1>3, PTL DEF Spec
  <1> QED BY <1>4 DEF NothingDropped, KeptThrough, ToldOfTheEnd
===============================================================================
