----------------------- MODULE AllreduceSystemProofs -----------------------
(***************************************************************************)
(* Proofs about allreduce, for any number of clients, any window, any      *)
(* chunk size and any calls, also after losses unless said otherwise.      *)
(*                                                                         *)
(* First the ring and the queues of the queue pair: every request that has *)
(* been announced in the status of a ring entry is in exactly one place:   *)
(* still to be posted, in its queue, or in the completion queue.  RingInv  *)
(* says so; it needs nothing of the fabric, and nothing of what packets    *)
(* contain.                                                                *)
(*                                                                         *)
(* Then clients and fabric together: what the ring does is what the fabric *)
(* expects of its clients, and without losses every call that has returned *)
(* has returned the exact sums.  The chunks of a client are numbered       *)
(* across its calls, and the requests of each kind are posted, worked on   *)
(* and completed in that order.  So the queues of the queue pair hold      *)
(* consecutive chunks, and PSNs follow from lengths of queues: SendsDone   *)
(* chunks have been sent, RecvsDone have been received.  At most Window    *)
(* receive requests are posted, hence the window of the fabric is kept.    *)
(***************************************************************************)
EXTENDS AllreduceSystem, AggregationFabricProofs, FiniteSetTheorems,
        WellFoundedInduction, TLAPS

Completion == [kind : {"send", "recv"}, entry : Ring]

Wc(kind, i) == [kind |-> kind, entry |-> i]

In(q, x) == \E k \in 1 .. Len(q) : q[k] = x

Distinct(q) == \A k, l \in 1 .. Len(q) : q[k] = q[l] => k = l

\* Has entry i a send (receive) request that was posted and not polled?
SendHeld(c, i) == In(sq[c], i) \/ In(cq[c], Wc("send", i))

RecvHeld(c, i) == In(rq[c], i) \/ In(cq[c], Wc("recv", i))

One(b) == IF b THEN 1 ELSE 0

Unposted(c, i) == IF i = ringPos[c] THEN Len(posting[c]) ELSE 0

-----------------------------------------------------------------------------
(* The inductive invariant. *)

\* Which chunks the entries name is of no importance here.
RingShape == \E Chunk : ring \in [Clients -> [Ring -> [status : Int, chunk : Chunk]]]

RingTypes ==
    /\ RingShape
    /\ ringPos \in [Clients -> Ring]
    /\ outstanding \in [Clients -> Int]
    /\ posting \in [Clients -> {<<>>, <<"send">>, <<"recv", "send">>}]
    /\ sq \in [Clients -> Seq(Ring)]
    /\ rq \in [Clients -> Seq(Ring)]
    /\ cq \in [Clients -> Seq(Completion)]

\* No request is in two places.
PlacesInv(c) ==
    /\ Distinct(sq[c]) /\ Distinct(rq[c]) /\ Distinct(cq[c])
    /\ \A i \in Ring :
          /\ ~(In(sq[c], i) /\ In(cq[c], Wc("send", i)))
          /\ ~(In(rq[c], i) /\ In(cq[c], Wc("recv", i)))
    /\ posting[c] # <<>> => ~SendHeld(c, ringPos[c])
    /\ Len(posting[c]) = 2 => ~RecvHeld(c, ringPos[c])

\* The status of an entry counts its requests, outstanding_reqs counts all.
CountsInv(c) ==
    /\ \A i \in Ring :
          ring[c][i].status = One(SendHeld(c, i)) + One(RecvHeld(c, i)) + Unposted(c, i)
    /\ outstanding[c] = Len(sq[c]) + Len(rq[c]) + Len(cq[c]) + Len(posting[c])

RingInv == RingTypes /\ \A c \in Clients : PlacesInv(c) /\ CountsInv(c)

-----------------------------------------------------------------------------
(* Queues without repetition. *)

\* A new element at the end.
LEMMA AppendIn ==
    ASSUME NEW S, NEW q \in Seq(S), NEW x \in S
    PROVE  /\ Append(q, x) \in Seq(S)
           /\ Len(Append(q, x)) = Len(q) + 1
           /\ \A y : In(Append(q, x), y) <=> In(q, y) \/ y = x
           /\ Distinct(q) /\ ~In(q, x) => Distinct(Append(q, x))
<1> DEFINE r == Append(q, x)
<1>1. /\ r \in Seq(S) /\ Len(q) \in Nat /\ Len(r) = Len(q) + 1
      /\ r[Len(q) + 1] = x
      /\ \A k \in 1 .. Len(q) : r[k] = q[k]
  OBVIOUS
<1>2. ASSUME NEW y PROVE In(r, y) <=> In(q, y) \/ y = x
  <2> HIDE DEF r
  <2>1. In(r, y) => In(q, y) \/ y = x
    BY <1>1 DEF In
  <2>2. In(q, y) => In(r, y)
    BY <1>1 DEF In
  <2>3. y = x => In(r, y)
    BY <1>1 DEF In
  <2> QED BY <2>1, <2>2, <2>3
<1>3. ASSUME Distinct(q), ~In(q, x) PROVE Distinct(r)
  <2> HIDE DEF r
  <2> QED BY <1>1, <1>3 DEF Distinct, In
<1> QED BY <1>1, <1>2, <1>3

\* The first element is taken.
LEMMA TailIn ==
    ASSUME NEW S, NEW q \in Seq(S), q # <<>>
    PROVE  /\ Head(q) \in S
           /\ Tail(q) \in Seq(S)
           /\ Len(Tail(q)) = Len(q) - 1
           /\ In(q, Head(q))
           /\ Distinct(q) => Distinct(Tail(q))
           /\ Distinct(q) => \A y : In(Tail(q), y) <=> In(q, y) /\ y # Head(q)
<1> DEFINE r == Tail(q)
<1>1. /\ r \in Seq(S) /\ Len(q) \in Nat \ {0} /\ Len(r) = Len(q) - 1
      /\ Head(q) = q[1] /\ Head(q) \in S
      /\ \A k \in 1 .. Len(r) : r[k] = q[k + 1]
  OBVIOUS
<1>2. In(q, Head(q))
  BY <1>1 DEF In
<1>3. ASSUME Distinct(q) PROVE Distinct(r)
  <2> HIDE DEF r
  <2> QED BY <1>1, <1>3 DEF Distinct
<1>4. ASSUME Distinct(q), NEW y PROVE In(r, y) <=> In(q, y) /\ y # Head(q)
  <2> HIDE DEF r
  <2>1. ASSUME In(r, y) PROVE In(q, y) /\ y # Head(q)
    <3>1. PICK k \in 1 .. Len(r) : r[k] = y
      BY <2>1 DEF In
    <3>2. k + 1 \in 1 .. Len(q) /\ q[k + 1] = y /\ 1 \in 1 .. Len(q) /\ k + 1 # 1
      BY <1>1, <3>1
    <3> QED BY <1>1, <1>4, <3>2 DEF In, Distinct
  <2>2. ASSUME In(q, y), y # Head(q) PROVE In(r, y)
    <3>1. PICK k \in 1 .. Len(q) : q[k] = y
      BY <2>2 DEF In
    <3>2. k - 1 \in 1 .. Len(r) /\ r[k - 1] = y
      BY <1>1, <2>2, <3>1
    <3> QED BY <3>2 DEF In
  <2> QED BY <2>1, <2>2
<1> QED BY <1>1, <1>2, <1>3, <1>4

\* An empty queue holds nothing.
LEMMA EmptyIn == Distinct(<<>>) /\ \A y : ~In(<<>>, y)
BY DEF Distinct, In

\* A queue without elements is the empty one.
LEMMA NoLength ==
    ASSUME NEW S, NEW q \in Seq(S)
    PROVE  Len(q) \in Nat /\ (Len(q) = 0 <=> q = <<>>)
OBVIOUS

-----------------------------------------------------------------------------
(* The steps. *)

\* The numbers that occur: a window has a next entry.
LEMMA NextInRing ==
    ASSUME NEW r \in Ring
    PROVE  (r + 1) % Window \in Ring
BY SystemAssumption DEF Ring

\* The call has not begun: nothing is posted (SystemInit).
LEMMA InitRing == SystemInit => RingInv
<1> SUFFICES ASSUME SystemInit PROVE RingInv
  OBVIOUS
<1>1. 0 \in Ring /\ <<>> \in Seq(Ring) /\ <<>> \in Seq(Completion)
  BY SystemAssumption DEF Ring
<1>2. RingTypes
  <2>1. ring \in [Clients -> [Ring -> [status : Int, chunk : {NoChunk}]]]
    BY DEF SystemInit, FreshRing
  <2>2. RingShape
    BY <2>1 DEF RingShape
  <2> QED BY <1>1, <2>2 DEF SystemInit, RingTypes
<1>3. ASSUME NEW c \in Clients PROVE PlacesInv(c)
  BY EmptyIn DEF SystemInit, PlacesInv, SendHeld, RecvHeld
<1>4. ASSUME NEW c \in Clients PROVE CountsInv(c)
  BY EmptyIn DEF SystemInit, CountsInv, SendHeld, RecvHeld, One, Unposted, FreshRing
<1> QED BY <1>2, <1>3, <1>4 DEF RingInv

\* A client of whose ring and queues nothing changes keeps its invariant.
LEMMA UnchangedClient ==
    ASSUME NEW d \in Clients, PlacesInv(d), CountsInv(d),
           ring'[d] = ring[d], ringPos'[d] = ringPos[d],
           outstanding'[d] = outstanding[d], posting'[d] = posting[d],
           sq'[d] = sq[d], rq'[d] = rq[d], cq'[d] = cq[d]
    PROVE  PlacesInv(d)' /\ CountsInv(d)'
BY DEF PlacesInv, CountsInv, SendHeld, RecvHeld, One, Unposted

\* Steps of the switch, losses and stuttering leave ring and queues alone.
LEMMA UnchangedRing ==
    ASSUME RingInv,
           UNCHANGED <<ring, ringPos, outstanding, posting, sq, rq, cq>>
    PROVE  RingInv'
<1>1. RingTypes'
  BY DEF RingInv, RingTypes, RingShape
<1>2. ASSUME NEW d \in Clients PROVE PlacesInv(d)' /\ CountsInv(d)'
  BY UnchangedClient DEF RingInv
<1> QED BY <1>1, <1>2 DEF RingInv

\* Fill (allreduce, "Fill ring with new WRs"): the entry is free, so that both of
\* its requests are announced for the first time.
LEMMA FillRing ==
    ASSUME RingInv, NEW c \in Clients, Fill(c)
    PROVE  RingInv'
<1> DEFINE next == NextEntry(c)
<1>1. /\ next \in Ring /\ ringPos[c] \in Ring
      /\ posting[c] = <<>> /\ ring[c][next].status = 0
      /\ ringPos' = [ringPos EXCEPT ![c] = next]
      /\ \E ch : ring' = [ring EXCEPT ![c][next] = [status |-> 2, chunk |-> ch]]
      /\ outstanding' = [outstanding EXCEPT ![c] = @ + 2]
      /\ posting' = [posting EXCEPT ![c] = <<"recv", "send">>]
      /\ UNCHANGED <<sq, rq, cq>>
  BY NextInRing
     DEF Fill, InLoop, EntryFree, NextEntry, PostOrder, RingInv, RingTypes, adapterVars
<1>2. PICK ch : ring' = [ring EXCEPT ![c][next] = [status |-> 2, chunk |-> ch]]
  BY <1>1
<1>0. PICK Chunk : ring \in [Clients -> [Ring -> [status : Int, chunk : Chunk]]]
  BY DEF RingInv, RingTypes, RingShape
<1> HIDE DEF next
<1>3. RingTypes'
  <2>2. ring' \in [Clients -> [Ring -> [status : Int, chunk : Chunk \cup {ch}]]]
    BY <1>0, <1>1, <1>2
  <2>3. RingShape'
    BY <2>2 DEF RingShape
  <2> QED BY <1>1, <2>3 DEF RingInv, RingTypes
<1>4. ASSUME NEW d \in Clients, d # c PROVE PlacesInv(d)' /\ CountsInv(d)'
  <2>1. /\ ring'[d] = ring[d] /\ ringPos'[d] = ringPos[d]
        /\ outstanding'[d] = outstanding[d] /\ posting'[d] = posting[d]
        /\ sq'[d] = sq[d] /\ rq'[d] = rq[d] /\ cq'[d] = cq[d]
    BY <1>0, <1>1, <1>2, <1>4 DEF RingInv, RingTypes
  <2> QED BY <2>1, UnchangedClient DEF RingInv
<1>5. /\ ringPos'[c] = next /\ posting'[c] = <<"recv", "send">>
      /\ outstanding'[c] = outstanding[c] + 2 /\ outstanding[c] \in Int
      /\ ring'[c][next].status = 2
      /\ \A i \in Ring : i # next => ring'[c][i] = ring[c][i]
      /\ sq'[c] = sq[c] /\ rq'[c] = rq[c] /\ cq'[c] = cq[c]
      /\ sq[c] \in Seq(Ring) /\ rq[c] \in Seq(Ring) /\ cq[c] \in Seq(Completion)
  BY <1>0, <1>1, <1>2 DEF RingInv, RingTypes
<1>6. PlacesInv(c) /\ CountsInv(c)
  BY DEF RingInv
<1>7. ~SendHeld(c, next) /\ ~RecvHeld(c, next)
  BY <1>1, <1>6 DEF CountsInv, One, Unposted
<1>8. PlacesInv(c)'
  BY <1>5, <1>6, <1>7 DEF PlacesInv, SendHeld, RecvHeld
<1>9. CountsInv(c)'
  <2>1. ASSUME NEW i \in Ring
        PROVE  (SendHeld(c, i)' <=> SendHeld(c, i)) /\ (RecvHeld(c, i)' <=> RecvHeld(c, i))
    BY <1>5 DEF SendHeld, RecvHeld
  <2>2. ASSUME NEW i \in Ring
        PROVE  ring'[c][i].status = One(SendHeld(c, i))' + One(RecvHeld(c, i))'
                                    + Unposted(c, i)'
    <3>1. CASE i = next
      BY <1>5, <1>7, <2>1, <3>1 DEF One, Unposted
    <3>2. CASE i # next
      <4>1. Unposted(c, i) = 0 /\ Unposted(c, i)' = 0
        BY <1>1, <1>5, <3>2 DEF Unposted
      <4>2. One(SendHeld(c, i))' = One(SendHeld(c, i))
        BY <2>1 DEF One
      <4>3. One(RecvHeld(c, i))' = One(RecvHeld(c, i))
        BY <2>1 DEF One
      <4> QED BY <1>5, <1>6, <3>2, <4>1, <4>2, <4>3 DEF CountsInv
    <3> QED BY <3>1, <3>2
  <2>3. outstanding'[c] = Len(sq'[c]) + Len(rq'[c]) + Len(cq'[c]) + Len(posting'[c])
    <3>1. Len(posting[c]) = 0 /\ Len(posting'[c]) = 2
      BY <1>1, <1>5
    <3>2. outstanding[c] = Len(sq[c]) + Len(rq[c]) + Len(cq[c]) + Len(posting[c])
      BY <1>6 DEF CountsInv
    <3>3. Len(sq[c]) \in Nat /\ Len(rq[c]) \in Nat /\ Len(cq[c]) \in Nat
      BY <1>5
    <3> QED BY <1>5, <3>1, <3>2, <3>3
  <2> QED BY <2>2, <2>3 DEF CountsInv
<1> QED BY <1>3, <1>4, <1>8, <1>9 DEF RingInv

\* PostRequest (ibv_post_recv, ibv_post_send): a request moves from the loop to its
\* queue.
LEMMA PostRing ==
    ASSUME RingInv, NEW c \in Clients, PostRequest(c)
    PROVE  RingInv'
<1> DEFINE e == ringPos[c]
<1>1. /\ RingTypes /\ PlacesInv(c) /\ CountsInv(c) /\ e \in Ring
      /\ sq[c] \in Seq(Ring) /\ rq[c] \in Seq(Ring) /\ cq[c] \in Seq(Completion)
      /\ outstanding[c] \in Int
      /\ Len(sq[c]) \in Nat /\ Len(rq[c]) \in Nat /\ Len(cq[c]) \in Nat
  BY DEF RingInv, RingTypes
<1>2. /\ UNCHANGED <<ring, ringPos, outstanding, cq>>
      /\ posting[c] # <<>>
      /\ posting' = [posting EXCEPT ![c] = Tail(@)]
  BY DEF PostRequest
<1>3. CASE posting[c] = <<"recv", "send">>
  <2>1. /\ rq' = [rq EXCEPT ![c] = Append(@, e)] /\ UNCHANGED sq
        /\ posting' = [posting EXCEPT ![c] = <<"send">>]
        /\ Len(posting[c]) = 2
    BY <1>2, <1>3 DEF PostRequest
  <2>2. RingTypes'
    <3>1. Append(rq[c], e) \in Seq(Ring)
      BY <1>1, AppendIn
    <3>2. rq' \in [Clients -> Seq(Ring)]
      BY <1>1, <2>1, <3>1 DEF RingTypes
    <3>3. posting' \in [Clients -> {<<>>, <<"send">>, <<"recv", "send">>}]
      BY <1>1, <2>1 DEF RingTypes
    <3>4. RingShape'
      BY <1>1, <1>2 DEF RingTypes, RingShape
    <3>5. /\ ringPos' \in [Clients -> Ring] /\ outstanding' \in [Clients -> Int]
          /\ sq' \in [Clients -> Seq(Ring)] /\ cq' \in [Clients -> Seq(Completion)]
      BY <1>1, <1>2, <2>1 DEF RingTypes
    <3> QED BY <3>2, <3>3, <3>4, <3>5 DEF RingTypes
  <2>3. /\ rq'[c] = Append(rq[c], e) /\ sq'[c] = sq[c] /\ cq'[c] = cq[c]
        /\ posting'[c] = <<"send">> /\ Len(posting'[c]) = 1 /\ ringPos'[c] = e
    <3>1. rq'[c] = Append(rq[c], e)
      BY <1>1, <2>1 DEF RingTypes
    <3>2. posting'[c] = <<"send">>
      BY <1>1, <2>1 DEF RingTypes
    <3>3. sq'[c] = sq[c] /\ cq'[c] = cq[c] /\ ringPos'[c] = e
      BY <1>2, <2>1
    <3> QED BY <3>1, <3>2, <3>3
  <2>4. ~SendHeld(c, e) /\ ~RecvHeld(c, e)
    BY <1>1, <1>3, <2>1 DEF PlacesInv
  <2>5. /\ Len(rq'[c]) = Len(rq[c]) + 1
        /\ Distinct(rq'[c])
        /\ \A y : In(rq'[c], y) <=> In(rq[c], y) \/ y = e
    BY <1>1, <2>3, <2>4, AppendIn DEF PlacesInv, RecvHeld
  <2>6. PlacesInv(c)'
    BY <1>1, <2>3, <2>4, <2>5 DEF PlacesInv, SendHeld, RecvHeld
  <2>7. ASSUME NEW i \in Ring
        PROVE  /\ One(SendHeld(c, i))' = One(SendHeld(c, i))
               /\ One(RecvHeld(c, i))' + Unposted(c, i)'
                    = One(RecvHeld(c, i)) + Unposted(c, i)
    <3>1. SendHeld(c, i)' <=> SendHeld(c, i)
      BY <2>3 DEF SendHeld
    <3>2. RecvHeld(c, i)' <=> RecvHeld(c, i) \/ i = e
      BY <2>3, <2>5 DEF RecvHeld
    <3>3. CASE i = e
      <4>1. ~RecvHeld(c, i) /\ RecvHeld(c, i)'
        BY <2>4, <3>2, <3>3
      <4>2. Unposted(c, i) = 2 /\ Unposted(c, i)' = 1
        BY <2>1, <2>3, <3>3 DEF Unposted
      <4>3. One(RecvHeld(c, i)) = 0 /\ One(RecvHeld(c, i))' = 1
        BY <4>1 DEF One
      <4>4. One(SendHeld(c, i))' = One(SendHeld(c, i))
        BY <3>1 DEF One
      <4> QED BY <4>2, <4>3, <4>4
    <3>4. CASE i # e
      BY <2>3, <3>1, <3>2, <3>4 DEF One, Unposted
    <3> QED BY <3>3, <3>4
  <2>8. CountsInv(c)'
    <3>1. ASSUME NEW i \in Ring
          PROVE  ring'[c][i].status = One(SendHeld(c, i))' + One(RecvHeld(c, i))'
                                      + Unposted(c, i)'
      <4> DEFINE a == One(SendHeld(c, i))
                 b == One(RecvHeld(c, i))
                 u == Unposted(c, i)
                 b2 == One(RecvHeld(c, i))'
                 u2 == Unposted(c, i)'
      <4>1. /\ a \in Int /\ b \in Int /\ u \in Int /\ b2 \in Int /\ u2 \in Int
        BY <2>1, <2>3 DEF One, Unposted
      <4>2. ring'[c][i].status = a + b + u
        BY <1>1, <1>2 DEF CountsInv
      <4>3. b2 + u2 = b + u /\ One(SendHeld(c, i))' = a
        BY <2>7
      <4> HIDE DEF a, b, u, b2, u2
      <4>4. ring'[c][i].status = a + b2 + u2
        BY <4>1, <4>2, <4>3
      <4> QED BY <4>3, <4>4 DEF b2, u2
    <3>2. outstanding'[c] = Len(sq'[c]) + Len(rq'[c]) + Len(cq'[c]) + Len(posting'[c])
      <4>1. outstanding[c] = Len(sq[c]) + Len(rq[c]) + Len(cq[c]) + Len(posting[c])
        BY <1>1 DEF CountsInv
      <4>2. outstanding'[c] = outstanding[c]
        BY <1>2
      <4>3. Len(cq'[c]) = Len(cq[c]) /\ Len(sq'[c]) = Len(sq[c]) /\ Len(rq'[c]) = Len(rq[c]) + 1
        BY <2>3, <2>5
      <4>4. /\ Len(sq[c]) \in Nat /\ Len(rq[c]) \in Nat /\ Len(cq[c]) \in Nat
            /\ Len(posting[c]) = 2 /\ Len(posting'[c]) = 1
        BY <1>1, <2>1, <2>3
      <4> DEFINE n == Len(sq[c])
                 m == Len(rq[c])
                 l == Len(cq[c])
      <4>5. n \in Nat /\ m \in Nat /\ l \in Nat
        BY <4>4
      <4>6. outstanding[c] = n + m + l + 2
        BY <4>1, <4>4
      <4>7. Len(sq'[c]) + Len(rq'[c]) + Len(cq'[c]) + Len(posting'[c]) = n + (m + 1) + l + 1
        BY <4>3, <4>4
      <4> HIDE DEF n, m, l
      <4>8. n + m + l + 2 = n + (m + 1) + l + 1
        BY <4>5
      <4> QED BY <4>2, <4>6, <4>7, <4>8
    <3> QED BY <3>1, <3>2 DEF CountsInv
  <2>9. ASSUME NEW d \in Clients, d # c PROVE PlacesInv(d)' /\ CountsInv(d)'
    <3>1. /\ ring'[d] = ring[d] /\ ringPos'[d] = ringPos[d]
          /\ outstanding'[d] = outstanding[d] /\ posting'[d] = posting[d]
          /\ sq'[d] = sq[d] /\ rq'[d] = rq[d] /\ cq'[d] = cq[d]
      BY <1>1, <1>2, <2>1, <2>9 DEF RingTypes
    <3> QED BY <3>1, UnchangedClient DEF RingInv
  <2> QED BY <2>2, <2>6, <2>8, <2>9 DEF RingInv
<1>4. CASE posting[c] = <<"send">>
  <2>1. /\ sq' = [sq EXCEPT ![c] = Append(@, e)] /\ UNCHANGED rq
        /\ posting' = [posting EXCEPT ![c] = <<>>]
        /\ Len(posting[c]) = 1
    BY <1>2, <1>4 DEF PostRequest
  <2>2. RingTypes'
    BY <1>1, <1>2, <2>1, AppendIn DEF RingTypes, RingShape
  <2>3. /\ sq'[c] = Append(sq[c], e) /\ rq'[c] = rq[c] /\ cq'[c] = cq[c]
        /\ posting'[c] = <<>> /\ Len(posting'[c]) = 0 /\ ringPos'[c] = e
    BY <1>1, <1>2, <2>1 DEF RingTypes
  <2>4. ~SendHeld(c, e)
    BY <1>1, <1>4, <2>1 DEF PlacesInv
  <2>5. /\ Len(sq'[c]) = Len(sq[c]) + 1
        /\ Distinct(sq'[c])
        /\ \A y : In(sq'[c], y) <=> In(sq[c], y) \/ y = e
    BY <1>1, <2>3, <2>4, AppendIn DEF PlacesInv, SendHeld
  <2>6. PlacesInv(c)'
    BY <1>1, <2>3, <2>4, <2>5 DEF PlacesInv, SendHeld, RecvHeld
  <2>7. ASSUME NEW i \in Ring
        PROVE  /\ One(RecvHeld(c, i))' = One(RecvHeld(c, i))
               /\ One(SendHeld(c, i))' + Unposted(c, i)'
                    = One(SendHeld(c, i)) + Unposted(c, i)
    <3>1. RecvHeld(c, i)' <=> RecvHeld(c, i)
      BY <2>3 DEF RecvHeld
    <3>2. SendHeld(c, i)' <=> SendHeld(c, i) \/ i = e
      BY <2>3, <2>5 DEF SendHeld
    <3>3. CASE i = e
      BY <2>1, <2>3, <2>4, <3>1, <3>2, <3>3 DEF One, Unposted
    <3>4. CASE i # e
      BY <2>3, <3>1, <3>2, <3>4 DEF One, Unposted
    <3> QED BY <3>3, <3>4
  <2>8. CountsInv(c)'
    <3>1. ASSUME NEW i \in Ring
          PROVE  ring'[c][i].status = One(SendHeld(c, i))' + One(RecvHeld(c, i))'
                                      + Unposted(c, i)'
      <4> DEFINE a == One(SendHeld(c, i))
                 b == One(RecvHeld(c, i))
                 u == Unposted(c, i)
                 a2 == One(SendHeld(c, i))'
                 u2 == Unposted(c, i)'
      <4>1. /\ a \in Int /\ b \in Int /\ u \in Int /\ a2 \in Int /\ u2 \in Int
        BY <2>1, <2>3 DEF One, Unposted
      <4>2. ring'[c][i].status = a + b + u
        BY <1>1, <1>2 DEF CountsInv
      <4>3. a2 + u2 = a + u /\ One(RecvHeld(c, i))' = b
        BY <2>7
      <4> HIDE DEF a, b, u, a2, u2
      <4>4. ring'[c][i].status = a2 + b + u2
        BY <4>1, <4>2, <4>3
      <4> QED BY <4>3, <4>4 DEF a2, u2
    <3>2. outstanding'[c] = Len(sq'[c]) + Len(rq'[c]) + Len(cq'[c]) + Len(posting'[c])
      <4>1. outstanding[c] = Len(sq[c]) + Len(rq[c]) + Len(cq[c]) + Len(posting[c])
        BY <1>1 DEF CountsInv
      <4>2. outstanding'[c] = outstanding[c]
        BY <1>2
      <4>3. Len(cq'[c]) = Len(cq[c]) /\ Len(sq'[c]) = Len(sq[c]) + 1 /\ Len(rq'[c]) = Len(rq[c])
        BY <2>3, <2>5
      <4>4. /\ Len(sq[c]) \in Nat /\ Len(rq[c]) \in Nat /\ Len(cq[c]) \in Nat
            /\ Len(posting[c]) = 1 /\ Len(posting'[c]) = 0
        BY <1>1, <2>1, <2>3
      <4> DEFINE n == Len(sq[c])
                 m == Len(rq[c])
                 l == Len(cq[c])
      <4>5. n \in Nat /\ m \in Nat /\ l \in Nat
        BY <4>4
      <4>6. outstanding[c] = n + m + l + 1
        BY <4>1, <4>4
      <4>7. Len(sq'[c]) + Len(rq'[c]) + Len(cq'[c]) + Len(posting'[c]) = (n + 1) + m + l + 0
        BY <4>3, <4>4
      <4> HIDE DEF n, m, l
      <4>8. n + m + l + 1 = (n + 1) + m + l + 0
        BY <4>5
      <4> QED BY <4>2, <4>6, <4>7, <4>8
    <3> QED BY <3>1, <3>2 DEF CountsInv
  <2>9. ASSUME NEW d \in Clients, d # c PROVE PlacesInv(d)' /\ CountsInv(d)'
    <3>1. /\ ring'[d] = ring[d] /\ ringPos'[d] = ringPos[d]
          /\ outstanding'[d] = outstanding[d] /\ posting'[d] = posting[d]
          /\ sq'[d] = sq[d] /\ rq'[d] = rq[d] /\ cq'[d] = cq[d]
      BY <1>1, <1>2, <2>1, <2>9 DEF RingTypes
    <3> QED BY <3>1, UnchangedClient DEF RingInv
  <2> QED BY <2>2, <2>6, <2>8, <2>9 DEF RingInv
<1> QED BY <1>1, <1>2, <1>3, <1>4 DEF RingTypes

\* The adapter has sent the last packet of a request (Transmit): it moves from its
\* queue to the completion queue.
LEMMA FinishSend ==
    ASSUME RingInv, NEW c \in Clients, sq[c] # <<>>,
           sq' = [sq EXCEPT ![c] = Tail(@)],
           cq' = [cq EXCEPT ![c] = Append(@, Wc("send", Head(sq[c])))],
           UNCHANGED <<ring, ringPos, outstanding, posting, rq>>
    PROVE  RingInv'
<1> DEFINE e == Head(sq[c])
           w == Wc("send", e)
<1>1. /\ RingTypes /\ PlacesInv(c) /\ CountsInv(c)
      /\ sq[c] \in Seq(Ring) /\ rq[c] \in Seq(Ring) /\ cq[c] \in Seq(Completion)
  BY DEF RingInv, RingTypes
<1>2. /\ e \in Ring /\ In(sq[c], e)
      /\ Tail(sq[c]) \in Seq(Ring) /\ Len(Tail(sq[c])) = Len(sq[c]) - 1
      /\ Distinct(Tail(sq[c]))
      /\ \A y : In(Tail(sq[c]), y) <=> In(sq[c], y) /\ y # e
  BY <1>1, TailIn DEF PlacesInv
<1>3. w \in Completion /\ \A i : w = Wc("send", i) <=> i = e
  BY <1>2 DEF Wc, Completion
<1>4. \A i : w # Wc("recv", i)
  BY DEF Wc
<1>5. ~In(cq[c], w)
  BY <1>1, <1>2 DEF PlacesInv
<1>6. /\ Append(cq[c], w) \in Seq(Completion) /\ Len(Append(cq[c], w)) = Len(cq[c]) + 1
      /\ Distinct(Append(cq[c], w))
      /\ \A y : In(Append(cq[c], w), y) <=> In(cq[c], y) \/ y = w
  BY <1>1, <1>3, <1>5, AppendIn DEF PlacesInv
<1> HIDE DEF e, w
<1>7. sq' = [sq EXCEPT ![c] = Tail(sq[c])] /\ cq' = [cq EXCEPT ![c] = Append(cq[c], w)]
  BY DEF e, w
<1>8. sq'[c] = Tail(sq[c]) /\ cq'[c] = Append(cq[c], w)
  BY <1>1, <1>7 DEF RingTypes
<1>9. RingTypes'
  <2>1. sq' \in [Clients -> Seq(Ring)] /\ cq' \in [Clients -> Seq(Completion)]
    BY <1>1, <1>2, <1>6, <1>7 DEF RingTypes
  <2>2. RingShape'
    BY <1>1 DEF RingTypes, RingShape
  <2> QED BY <1>1, <2>1, <2>2 DEF RingTypes
<1>10. ASSUME NEW i \in Ring
       PROVE  /\ In(sq[c], i)' <=> In(sq[c], i) /\ i # e
              /\ In(cq[c], Wc("send", i))' <=> In(cq[c], Wc("send", i)) \/ i = e
              /\ In(rq[c], i)' <=> In(rq[c], i)
              /\ In(cq[c], Wc("recv", i))' <=> In(cq[c], Wc("recv", i))
  BY <1>2, <1>3, <1>4, <1>6, <1>8
<1>11. ASSUME NEW i \in Ring
       PROVE  /\ SendHeld(c, i)' <=> SendHeld(c, i)
              /\ RecvHeld(c, i)' <=> RecvHeld(c, i)
  BY <1>2, <1>10 DEF SendHeld, RecvHeld
<1>12. PlacesInv(c)'
  <2>1. Distinct(sq[c])' /\ Distinct(rq[c])' /\ Distinct(cq[c])'
    BY <1>1, <1>2, <1>6, <1>8 DEF PlacesInv
  <2>2. ASSUME NEW i \in Ring
        PROVE  /\ ~(In(sq[c], i) /\ In(cq[c], Wc("send", i)))'
               /\ ~(In(rq[c], i) /\ In(cq[c], Wc("recv", i)))'
    BY <1>1, <1>10 DEF PlacesInv
  <2>3. ringPos[c] \in Ring
    BY <1>1 DEF RingTypes
  <2>4. /\ (posting[c] # <<>> => ~SendHeld(c, ringPos[c]))'
        /\ (Len(posting[c]) = 2 => ~RecvHeld(c, ringPos[c]))'
    BY <1>1, <1>11, <2>3 DEF PlacesInv
  <2> QED BY <2>1, <2>2, <2>4 DEF PlacesInv
<1>13. CountsInv(c)'
  <2>1. ASSUME NEW i \in Ring
        PROVE  ring'[c][i].status = One(SendHeld(c, i))' + One(RecvHeld(c, i))'
                                    + Unposted(c, i)'
    <3>1. /\ One(SendHeld(c, i))' = One(SendHeld(c, i))
          /\ One(RecvHeld(c, i))' = One(RecvHeld(c, i))
          /\ Unposted(c, i)' = Unposted(c, i)
      BY <1>11 DEF One, Unposted
    <3>2. ring'[c][i].status = One(SendHeld(c, i)) + One(RecvHeld(c, i)) + Unposted(c, i)
      BY <1>1 DEF CountsInv
    <3> QED BY <3>1, <3>2
  <2>2. outstanding'[c] = Len(sq'[c]) + Len(rq'[c]) + Len(cq'[c]) + Len(posting'[c])
    <3> DEFINE n == Len(sq[c])
               m == Len(rq[c])
               l == Len(cq[c])
               k == Len(posting[c])
    <3>1. n \in Nat /\ m \in Nat /\ l \in Nat /\ k \in Nat
      <4>1. k \in Nat
        BY <1>1 DEF RingTypes
      <4> QED BY <1>1, <4>1
    <3>2. outstanding'[c] = Len(sq[c]) + Len(rq[c]) + l + k
      BY <1>1 DEF CountsInv
    <3>3. /\ Len(sq'[c]) = n - 1 /\ Len(cq'[c]) = l + 1
          /\ Len(rq'[c]) = m /\ Len(posting'[c]) = k
      BY <1>2, <1>6, <1>8
    <3> HIDE DEF n, m, l, k
    <3>4. (n - 1) + m + (l + 1) + k = n + m + l + k /\ n + m = m + n
          /\ (n - 1) + m = m + (n - 1)
      BY <3>1
    <3> QED BY <3>2, <3>3, <3>4 DEF n, m
  <2> QED BY <2>1, <2>2 DEF CountsInv
<1>14. ASSUME NEW d \in Clients, d # c PROVE PlacesInv(d)' /\ CountsInv(d)'
  <2>1. sq'[d] = sq[d] /\ cq'[d] = cq[d]
    BY <1>1, <1>7, <1>14 DEF RingTypes
  <2> QED BY <2>1, UnchangedClient DEF RingInv
<1> QED BY <1>9, <1>12, <1>13, <1>14 DEF RingInv

\* The adapter has received the last packet of a message (Receive), likewise.
LEMMA FinishRecv ==
    ASSUME RingInv, NEW c \in Clients, rq[c] # <<>>,
           rq' = [rq EXCEPT ![c] = Tail(@)],
           cq' = [cq EXCEPT ![c] = Append(@, Wc("recv", Head(rq[c])))],
           UNCHANGED <<ring, ringPos, outstanding, posting, sq>>
    PROVE  RingInv'
<1> DEFINE e == Head(rq[c])
           w == Wc("recv", e)
<1>1. /\ RingTypes /\ PlacesInv(c) /\ CountsInv(c)
      /\ sq[c] \in Seq(Ring) /\ rq[c] \in Seq(Ring) /\ cq[c] \in Seq(Completion)
  BY DEF RingInv, RingTypes
<1>2. /\ e \in Ring /\ In(rq[c], e)
      /\ Tail(rq[c]) \in Seq(Ring) /\ Len(Tail(rq[c])) = Len(rq[c]) - 1
      /\ Distinct(Tail(rq[c]))
      /\ \A y : In(Tail(rq[c]), y) <=> In(rq[c], y) /\ y # e
  BY <1>1, TailIn DEF PlacesInv
<1>3. w \in Completion /\ \A i : w = Wc("recv", i) <=> i = e
  BY <1>2 DEF Wc, Completion
<1>4. \A i : w # Wc("send", i)
  BY DEF Wc
<1>5. ~In(cq[c], w)
  BY <1>1, <1>2 DEF PlacesInv
<1>6. /\ Append(cq[c], w) \in Seq(Completion) /\ Len(Append(cq[c], w)) = Len(cq[c]) + 1
      /\ Distinct(Append(cq[c], w))
      /\ \A y : In(Append(cq[c], w), y) <=> In(cq[c], y) \/ y = w
  BY <1>1, <1>3, <1>5, AppendIn DEF PlacesInv
<1> HIDE DEF e, w
<1>7. rq' = [rq EXCEPT ![c] = Tail(rq[c])] /\ cq' = [cq EXCEPT ![c] = Append(cq[c], w)]
  BY DEF e, w
<1>8. rq'[c] = Tail(rq[c]) /\ cq'[c] = Append(cq[c], w)
  BY <1>1, <1>7 DEF RingTypes
<1>9. RingTypes'
  <2>1. rq' \in [Clients -> Seq(Ring)] /\ cq' \in [Clients -> Seq(Completion)]
    BY <1>1, <1>2, <1>6, <1>7 DEF RingTypes
  <2>2. RingShape'
    BY <1>1 DEF RingTypes, RingShape
  <2> QED BY <1>1, <2>1, <2>2 DEF RingTypes
<1>10. ASSUME NEW i \in Ring
       PROVE  /\ In(rq[c], i)' <=> In(rq[c], i) /\ i # e
              /\ In(cq[c], Wc("recv", i))' <=> In(cq[c], Wc("recv", i)) \/ i = e
              /\ In(sq[c], i)' <=> In(sq[c], i)
              /\ In(cq[c], Wc("send", i))' <=> In(cq[c], Wc("send", i))
  BY <1>2, <1>3, <1>4, <1>6, <1>8
<1>11. ASSUME NEW i \in Ring
       PROVE  /\ SendHeld(c, i)' <=> SendHeld(c, i)
              /\ RecvHeld(c, i)' <=> RecvHeld(c, i)
  BY <1>2, <1>10 DEF SendHeld, RecvHeld
<1>12. PlacesInv(c)'
  <2>1. Distinct(sq[c])' /\ Distinct(rq[c])' /\ Distinct(cq[c])'
    BY <1>1, <1>2, <1>6, <1>8 DEF PlacesInv
  <2>2. ASSUME NEW i \in Ring
        PROVE  /\ ~(In(sq[c], i) /\ In(cq[c], Wc("send", i)))'
               /\ ~(In(rq[c], i) /\ In(cq[c], Wc("recv", i)))'
    BY <1>1, <1>10 DEF PlacesInv
  <2>3. ringPos[c] \in Ring
    BY <1>1 DEF RingTypes
  <2>4. /\ (posting[c] # <<>> => ~SendHeld(c, ringPos[c]))'
        /\ (Len(posting[c]) = 2 => ~RecvHeld(c, ringPos[c]))'
    BY <1>1, <1>11, <2>3 DEF PlacesInv
  <2> QED BY <2>1, <2>2, <2>4 DEF PlacesInv
<1>13. CountsInv(c)'
  <2>1. ASSUME NEW i \in Ring
        PROVE  ring'[c][i].status = One(SendHeld(c, i))' + One(RecvHeld(c, i))'
                                    + Unposted(c, i)'
    <3>1. /\ One(SendHeld(c, i))' = One(SendHeld(c, i))
          /\ One(RecvHeld(c, i))' = One(RecvHeld(c, i))
          /\ Unposted(c, i)' = Unposted(c, i)
      BY <1>11 DEF One, Unposted
    <3>2. ring'[c][i].status = One(SendHeld(c, i)) + One(RecvHeld(c, i)) + Unposted(c, i)
      BY <1>1 DEF CountsInv
    <3> QED BY <3>1, <3>2
  <2>2. outstanding'[c] = Len(sq'[c]) + Len(rq'[c]) + Len(cq'[c]) + Len(posting'[c])
    <3> DEFINE n == Len(rq[c])
               m == Len(sq[c])
               l == Len(cq[c])
               k == Len(posting[c])
    <3>1. n \in Nat /\ m \in Nat /\ l \in Nat /\ k \in Nat
      <4>1. k \in Nat
        BY <1>1 DEF RingTypes
      <4> QED BY <1>1, <4>1
    <3>2. outstanding'[c] = Len(sq[c]) + Len(rq[c]) + l + k
      BY <1>1 DEF CountsInv
    <3>3. /\ Len(rq'[c]) = n - 1 /\ Len(cq'[c]) = l + 1
          /\ Len(sq'[c]) = m /\ Len(posting'[c]) = k
      BY <1>2, <1>6, <1>8
    <3> HIDE DEF n, m, l, k
    <3>4. (n - 1) + m + (l + 1) + k = n + m + l + k /\ n + m = m + n
          /\ (n - 1) + m = m + (n - 1)
      BY <3>1
    <3> QED BY <3>2, <3>3, <3>4 DEF n, m
  <2> QED BY <2>1, <2>2 DEF CountsInv
<1>14. ASSUME NEW d \in Clients, d # c PROVE PlacesInv(d)' /\ CountsInv(d)'
  <2>1. rq'[d] = rq[d] /\ cq'[d] = cq[d]
    BY <1>1, <1>7, <1>14 DEF RingTypes
  <2> QED BY <2>1, UnchangedClient DEF RingInv
<1> QED BY <1>9, <1>12, <1>13, <1>14 DEF RingInv

\* Transmit: a request is completed with its last packet, or nothing changes here.
LEMMA TransmitRing ==
    ASSUME RingInv, NEW c \in Clients, Transmit(c)
    PROVE  RingInv'
<1>1. /\ sq[c] # <<>>
      /\ UNCHANGED <<ring, ringPos, outstanding, posting, rq>>
      /\ \/ /\ sq' = [sq EXCEPT ![c] = Tail(@)]
            /\ cq' = [cq EXCEPT ![c] = Append(@, Wc("send", Head(sq[c])))]
         \/ UNCHANGED <<sq, cq>>
  BY DEF Transmit, callVars, Wc
<1> QED BY <1>1, FinishSend, UnchangedRing

\* Receive: only a packet that ends an accepted message completes a request.
LEMMA ReceiveRing ==
    ASSUME RingInv, NEW c \in Clients, Receive(c)
    PROVE  RingInv'
<1>1. /\ UNCHANGED <<ring, ringPos, outstanding, posting, sq>>
      /\ \/ /\ rq[c] # <<>>
            /\ rq' = [rq EXCEPT ![c] = Tail(@)]
            /\ cq' = [cq EXCEPT ![c] = Append(@, Wc("recv", Head(rq[c])))]
         \/ UNCHANGED <<rq, cq>>
  BY DEF Receive, callVars, Wc
<1> QED BY <1>1, FinishRecv, UnchangedRing

\* Poll ("Process completed WRs"): the completed request is in no place any more, and
\* the status of its entry counts one less.
LEMMA PollRing ==
    ASSUME RingInv, NEW c \in Clients, Poll(c)
    PROVE  RingInv'
<1> DEFINE w == Head(cq[c])
           e == w.entry
<1>0. PICK Chunk : ring \in [Clients -> [Ring -> [status : Int, chunk : Chunk]]]
  BY DEF RingInv, RingTypes, RingShape
<1>1. /\ RingTypes /\ PlacesInv(c) /\ CountsInv(c)
      /\ sq[c] \in Seq(Ring) /\ rq[c] \in Seq(Ring) /\ cq[c] \in Seq(Completion)
      /\ cq[c] # <<>> /\ posting[c] = <<>> /\ outstanding[c] \in Int
      /\ UNCHANGED <<ringPos, posting, sq, rq>>
  BY DEF RingInv, RingTypes, Poll, InLoop
<1>2. /\ w \in Completion /\ e \in Ring /\ In(cq[c], w)
      /\ Tail(cq[c]) \in Seq(Completion) /\ Len(Tail(cq[c])) = Len(cq[c]) - 1
      /\ Distinct(Tail(cq[c]))
      /\ \A y : In(Tail(cq[c]), y) <=> In(cq[c], y) /\ y # w
      /\ w = Wc(w.kind, e)
  <2>1. Distinct(cq[c])
    BY <1>1 DEF PlacesInv
  <2>2. /\ w \in Completion /\ In(cq[c], w)
        /\ Tail(cq[c]) \in Seq(Completion) /\ Len(Tail(cq[c])) = Len(cq[c]) - 1
        /\ Distinct(Tail(cq[c]))
        /\ \A y : In(Tail(cq[c]), y) <=> In(cq[c], y) /\ y # w
    BY <1>1, <2>1, TailIn
  <2>3. e \in Ring /\ w = Wc(w.kind, e)
    BY <2>2 DEF Completion, Wc
  <2> QED BY <2>2, <2>3
<1>3. /\ cq' = [cq EXCEPT ![c] = Tail(@)]
      /\ ring' = [ring EXCEPT ![c][e].status = @ - 1]
      /\ outstanding' = [outstanding EXCEPT ![c] = @ - 1]
  BY DEF Poll
<1> HIDE DEF w, e
<1>4. RingTypes'
  <2>1. ring' \in [Clients -> [Ring -> [status : Int, chunk : Chunk]]]
    <3> DEFINE entry == [ring[c][e] EXCEPT !.status = ring[c][e].status - 1]
    <3>1. ring[c][e] \in [status : Int, chunk : Chunk]
      BY <1>0, <1>2
    <3>2. entry \in [status : Int, chunk : Chunk]
      BY <3>1
    <3>3. ring' = [ring EXCEPT ![c] = [ring[c] EXCEPT ![e] = entry]]
      BY <1>3
    <3> HIDE DEF entry
    <3>4. [ring[c] EXCEPT ![e] = entry] \in [Ring -> [status : Int, chunk : Chunk]]
      BY <1>0, <1>2, <3>2
    <3> QED BY <1>0, <3>3, <3>4
  <2>2. RingShape'
    BY <2>1 DEF RingShape
  <2>3. cq' \in [Clients -> Seq(Completion)] /\ outstanding' \in [Clients -> Int]
    BY <1>1, <1>2, <1>3 DEF RingTypes
  <2> QED BY <1>1, <2>2, <2>3 DEF RingTypes
<1>5. ASSUME NEW d \in Clients, d # c PROVE PlacesInv(d)' /\ CountsInv(d)'
  <2>1. ring'[d] = ring[d]
    BY <1>0, <1>3, <1>5
  <2>2. cq'[d] = cq[d] /\ outstanding'[d] = outstanding[d]
    BY <1>1, <1>3, <1>5 DEF RingTypes
  <2> QED BY <1>1, <2>1, <2>2, UnchangedClient DEF RingInv
<1>6. /\ cq'[c] = Tail(cq[c]) /\ outstanding'[c] = outstanding[c] - 1
      /\ sq'[c] = sq[c] /\ rq'[c] = rq[c] /\ posting'[c] = <<>>
  BY <1>1, <1>3 DEF RingTypes
<1>7. /\ ring'[c][e].status = ring[c][e].status - 1
      /\ \A i \in Ring : i # e => ring'[c][i].status = ring[c][i].status
  BY <1>0, <1>2, <1>3
<1>8. PlacesInv(c)'
  <2>1. Distinct(sq[c])' /\ Distinct(rq[c])' /\ Distinct(cq[c])'
    BY <1>1, <1>2, <1>6 DEF PlacesInv
  <2>2. ASSUME NEW i \in Ring
        PROVE  /\ ~(In(sq[c], i) /\ In(cq[c], Wc("send", i)))'
               /\ ~(In(rq[c], i) /\ In(cq[c], Wc("recv", i)))'
    <3>1. \A y : In(cq'[c], y) => In(cq[c], y)
      BY <1>2, <1>6
    <3> QED BY <1>1, <1>6, <3>1 DEF PlacesInv
  <2>3. posting'[c] = <<>> /\ Len(posting'[c]) = 0
    BY <1>6
  <2> QED BY <2>1, <2>2, <2>3 DEF PlacesInv
<1>9. ASSUME NEW i \in Ring
      PROVE  ring[c][i].status = One(SendHeld(c, i)) + One(RecvHeld(c, i))
  BY <1>1 DEF CountsInv, Unposted, One
<1>10. ASSUME w.kind = "send", NEW j \in Ring
       PROVE  ring'[c][j].status = One(SendHeld(c, j))' + One(RecvHeld(c, j))'
  <2>1. w = Wc("send", e) /\ \A i : w # Wc("recv", i)
    <3>1. w = Wc("send", e)
      BY <1>2, <1>10
    <3> QED BY <3>1 DEF Wc
  <2>2. \A i : w = Wc("send", i) <=> i = e
    BY <2>1 DEF Wc
  <2>3. ASSUME NEW i \in Ring
        PROVE  /\ SendHeld(c, i)' <=> SendHeld(c, i) /\ i # e
               /\ RecvHeld(c, i)' <=> RecvHeld(c, i)
    <3>1. ~In(sq[c], e)
      BY <1>1, <1>2, <2>1 DEF PlacesInv
    <3> QED BY <1>2, <1>6, <2>1, <2>2, <3>1 DEF SendHeld, RecvHeld
  <2>4. SendHeld(c, e)
    BY <1>2, <2>1 DEF SendHeld
  <2>5. ASSUME NEW i \in Ring
        PROVE  ring'[c][i].status = One(SendHeld(c, i))' + One(RecvHeld(c, i))'
    <3>1. ring[c][i].status = One(SendHeld(c, i)) + One(RecvHeld(c, i))
      BY <1>9
    <3>2. CASE i = e
      BY <1>7, <2>3, <2>4, <3>1, <3>2 DEF One
    <3>3. CASE i # e
      BY <1>7, <2>3, <3>1, <3>3 DEF One
    <3> QED BY <3>2, <3>3
  <2> QED BY <2>5
<1>11. ASSUME w.kind = "recv", NEW j \in Ring
       PROVE  ring'[c][j].status = One(SendHeld(c, j))' + One(RecvHeld(c, j))'
  <2>1. w = Wc("recv", e) /\ \A i : w # Wc("send", i)
    <3>1. w = Wc("recv", e)
      BY <1>2, <1>11
    <3> QED BY <3>1 DEF Wc
  <2>2. \A i : w = Wc("recv", i) <=> i = e
    BY <2>1 DEF Wc
  <2>3. ASSUME NEW i \in Ring
        PROVE  /\ RecvHeld(c, i)' <=> RecvHeld(c, i) /\ i # e
               /\ SendHeld(c, i)' <=> SendHeld(c, i)
    <3>1. ~In(rq[c], e)
      BY <1>1, <1>2, <2>1 DEF PlacesInv
    <3> QED BY <1>2, <1>6, <2>1, <2>2, <3>1 DEF SendHeld, RecvHeld
  <2>4. RecvHeld(c, e)
    BY <1>2, <2>1 DEF RecvHeld
  <2>5. ASSUME NEW i \in Ring
        PROVE  ring'[c][i].status = One(SendHeld(c, i))' + One(RecvHeld(c, i))'
    <3>1. ring[c][i].status = One(SendHeld(c, i)) + One(RecvHeld(c, i))
      BY <1>9
    <3>2. CASE i = e
      BY <1>7, <2>3, <2>4, <3>1, <3>2 DEF One
    <3>3. CASE i # e
      BY <1>7, <2>3, <3>1, <3>3 DEF One
    <3> QED BY <3>2, <3>3
  <2> QED BY <2>5
<1>12. CountsInv(c)'
  <2>1. ASSUME NEW i \in Ring
        PROVE  ring'[c][i].status = One(SendHeld(c, i))' + One(RecvHeld(c, i))'
                                    + Unposted(c, i)'
    <3>1. w.kind = "send" \/ w.kind = "recv"
      BY <1>2 DEF Completion
    <3>2. ring'[c][i].status = One(SendHeld(c, i))' + One(RecvHeld(c, i))'
      BY <1>10, <1>11, <3>1
    <3>3. Unposted(c, i)' = 0
      BY <1>6 DEF Unposted
    <3>4. One(SendHeld(c, i))' \in Int /\ One(RecvHeld(c, i))' \in Int
      BY DEF One
    <3> QED BY <3>2, <3>3, <3>4
  <2>2. outstanding'[c] = Len(sq'[c]) + Len(rq'[c]) + Len(cq'[c]) + Len(posting'[c])
    <3>1. outstanding[c] = Len(sq[c]) + Len(rq[c]) + Len(cq[c]) + Len(posting[c])
      BY <1>1 DEF CountsInv
    <3>2. /\ Len(sq[c]) \in Nat /\ Len(rq[c]) \in Nat /\ Len(cq[c]) \in Nat
          /\ Len(posting[c]) = 0 /\ Len(posting'[c]) = 0
      BY <1>1, <1>6
    <3>3. Len(sq'[c]) = Len(sq[c]) /\ Len(rq'[c]) = Len(rq[c]) /\ Len(cq'[c]) = Len(cq[c]) - 1
      BY <1>2, <1>6
    <3> DEFINE n == Len(sq[c])
               m == Len(rq[c])
               l == Len(cq[c])
    <3>4. n \in Nat /\ m \in Nat /\ l \in Nat
      BY <3>2
    <3>5. outstanding'[c] = n + m + l + 0 - 1
      BY <1>6, <3>1, <3>2
    <3>6. Len(sq'[c]) + Len(rq'[c]) + Len(cq'[c]) + Len(posting'[c]) = n + m + (l - 1) + 0
      BY <3>2, <3>3
    <3> HIDE DEF n, m, l
    <3>7. n + m + l + 0 - 1 = n + m + (l - 1) + 0
      BY <3>4
    <3> QED BY <3>5, <3>6, <3>7
  <2> QED BY <2>1, <2>2 DEF CountsInv
<1> QED BY <1>4, <1>5, <1>8, <1>12 DEF RingInv

\* When outstanding_reqs is zero, no request is in any queue.
LEMMA NothingOutstanding ==
    ASSUME RingInv, NEW c \in Clients, posting[c] = <<>>, outstanding[c] = 0
    PROVE  sq[c] = <<>> /\ rq[c] = <<>> /\ cq[c] = <<>>
<1>1. /\ CountsInv(c)
      /\ sq[c] \in Seq(Ring) /\ rq[c] \in Seq(Ring) /\ cq[c] \in Seq(Completion)
  BY DEF RingInv, RingTypes
<1>2. Len(sq[c]) + Len(rq[c]) + Len(cq[c]) + Len(posting[c]) = 0 /\ Len(posting[c]) = 0
  BY <1>1 DEF CountsInv
<1>3. Len(sq[c]) \in Nat /\ Len(rq[c]) \in Nat /\ Len(cq[c]) \in Nat
  BY <1>1
<1>4. Len(sq[c]) = 0 /\ Len(rq[c]) = 0 /\ Len(cq[c]) = 0
  <2> DEFINE n == Len(sq[c])
             m == Len(rq[c])
             l == Len(cq[c])
  <2>1. n \in Nat /\ m \in Nat /\ l \in Nat /\ n + m + l + 0 = 0
    BY <1>2, <1>3
  <2> HIDE DEF n, m, l
  <2>2. n = 0 /\ m = 0 /\ l = 0
    BY <2>1
  <2> QED BY <2>2 DEF n, m, l
<1> QED BY <1>1, <1>4, NoLength

\* Return: outstanding_reqs is zero, so that no request is in any place when the next
\* call starts with a fresh ring.
LEMMA ReturnRing ==
    ASSUME RingInv, NEW c \in Clients, Return(c)
    PROVE  RingInv'
<1>0. PICK Chunk : ring \in [Clients -> [Ring -> [status : Int, chunk : Chunk]]]
  BY DEF RingInv, RingTypes, RingShape
<1>1. /\ RingTypes /\ PlacesInv(c) /\ CountsInv(c)
      /\ sq[c] \in Seq(Ring) /\ rq[c] \in Seq(Ring) /\ cq[c] \in Seq(Completion)
      /\ posting[c] = <<>> /\ outstanding[c] = 0
      /\ UNCHANGED <<outstanding, posting, sq, rq, cq>>
      /\ ringPos' = [ringPos EXCEPT ![c] = 0]
      /\ ring' = [ring EXCEPT ![c] = FreshRing]
  BY DEF RingInv, RingTypes, Return, InLoop, Done, adapterVars
<1>2. sq[c] = <<>> /\ rq[c] = <<>> /\ cq[c] = <<>>
  BY <1>1, NothingOutstanding
<1>3. RingTypes'
  <2>1. 0 \in Ring
    BY SystemAssumption DEF Ring
  <2>2. ring' \in [Clients -> [Ring -> [status : Int, chunk : Chunk \cup {NoChunk}]]]
    BY <1>0, <1>1 DEF FreshRing
  <2>3. RingShape'
    BY <2>2 DEF RingShape
  <2>4. ringPos' \in [Clients -> Ring]
    BY <1>1, <2>1 DEF RingTypes
  <2> QED BY <1>1, <2>3, <2>4 DEF RingTypes
<1>4. ASSUME NEW d \in Clients, d # c PROVE PlacesInv(d)' /\ CountsInv(d)'
  <2>1. ring'[d] = ring[d] /\ ringPos'[d] = ringPos[d]
    BY <1>0, <1>1, <1>4 DEF RingTypes
  <2> QED BY <1>1, <2>1, UnchangedClient DEF RingInv
<1>5. ASSUME NEW i \in Ring PROVE ~SendHeld(c, i)' /\ ~RecvHeld(c, i)'
  BY <1>1, <1>2, EmptyIn DEF SendHeld, RecvHeld
<1>6. PlacesInv(c)'
  <2>1. posting'[c] = <<>> /\ Len(posting'[c]) = 0
    BY <1>1
  <2>2. sq'[c] = <<>> /\ rq'[c] = <<>> /\ cq'[c] = <<>>
    BY <1>1, <1>2
  <2> QED BY <2>1, <2>2, EmptyIn DEF PlacesInv
<1>7. CountsInv(c)'
  <2>1. ASSUME NEW i \in Ring PROVE ring'[c][i].status = 0
    BY <1>0, <1>1 DEF FreshRing
  <2>2. ASSUME NEW i \in Ring PROVE Unposted(c, i)' = 0
    BY <1>1 DEF Unposted
  <2>3. outstanding'[c] = Len(sq'[c]) + Len(rq'[c]) + Len(cq'[c]) + Len(posting'[c])
    BY <1>1 DEF CountsInv
  <2> QED BY <1>5, <2>1, <2>2, <2>3 DEF CountsInv, One
<1> QED BY <1>3, <1>4, <1>6, <1>7 DEF RingInv

-----------------------------------------------------------------------------
(* The theorems. *)

\* RingInv is an invariant of clients, adapters and switch, with any losses.
THEOREM RingInvariance == SystemSpec => []RingInv
<1>1. RingInv /\ [SystemNext]_systemVars => RingInv'
  <2> SUFFICES ASSUME RingInv, [SystemNext]_systemVars PROVE RingInv'
    OBVIOUS
  <2>1. CASE SwitchStep
    BY <2>1, UnchangedRing DEF SwitchStep, callVars, adapterVars
  <2>2. ASSUME NEW c \in Clients, Fill(c) PROVE RingInv'
    BY <2>2, FillRing
  <2>3. ASSUME NEW c \in Clients, PostRequest(c) PROVE RingInv'
    BY <2>3, PostRing
  <2>4. ASSUME NEW c \in Clients, Poll(c) PROVE RingInv'
    BY <2>4, PollRing
  <2>5. ASSUME NEW c \in Clients, Return(c) PROVE RingInv'
    BY <2>5, ReturnRing
  <2>6. ASSUME NEW c \in Clients, Transmit(c) PROVE RingInv'
    BY <2>6, TransmitRing
  <2>7. ASSUME NEW c \in Clients, Receive(c) PROVE RingInv'
    BY <2>7, ReceiveRing
  <2>8. ASSUME NEW c \in Clients, Lose(c) PROVE RingInv'
    BY <2>8, UnchangedRing DEF Lose, callVars, adapterVars
  <2>9. CASE AllReturned
    BY <2>9, UnchangedRing DEF AllReturned, systemVars, callVars, adapterVars
  <2>10. CASE UNCHANGED systemVars
    BY <2>10, UnchangedRing DEF systemVars, callVars, adapterVars
  <2> QED BY <2>1, <2>2, <2>3, <2>4, <2>5, <2>6, <2>7, <2>8, <2>9, <2>10 DEF SystemNext
<1> QED BY <1>1, InitRing, PTL DEF SystemSpec

-----------------------------------------------------------------------------
(* What RingInv means for the properties of the runs. *)

\* In a queue without repetition an element has at most one place.
LEMMA OnePlace ==
    ASSUME NEW S, NEW q \in Seq(S), NEW x, Distinct(q),
           NEW P, P = {k \in 1 .. Len(q) : q[k] = x}
    PROVE  Cardinality(P) = One(In(q, x))
<1>1. CASE In(q, x)
  <2>1. PICK k \in 1 .. Len(q) : q[k] = x
    BY <1>1 DEF In
  <2>2. P = {k}
    BY <2>1 DEF Distinct
  <2> QED BY <1>1, <2>2, FS_Singleton DEF One
<1>2. CASE ~In(q, x)
  <2>1. P = {}
    BY <1>2 DEF In
  <2> QED BY <1>2, <2>1, FS_EmptySet DEF One
<1> QED BY <1>1, <1>2

\* The status of an entry counts its requests, each kind at most once
\* (aggregation ring of allreduce).
THEOREM StatusIsCount == SystemSpec => []StatusCounts
<1>1. RingInv => StatusCounts
  <2> SUFFICES ASSUME RingInv, NEW c \in Clients, NEW i \in Ring
      PROVE  LET sends == Cardinality(Posted(sq[c], i)) + Cardinality(Unpolled(c, "send", i))
                 recvs == Cardinality(Posted(rq[c], i)) + Cardinality(Unpolled(c, "recv", i))
                 unposted == IF i = ringPos[c] THEN Len(posting[c]) ELSE 0
             IN  /\ sends <= 1 /\ recvs <= 1
                 /\ ring[c][i].status = sends + recvs + unposted
    BY DEF StatusCounts
  <2>1. /\ PlacesInv(c) /\ CountsInv(c)
        /\ sq[c] \in Seq(Ring) /\ rq[c] \in Seq(Ring) /\ cq[c] \in Seq(Completion)
        /\ posting[c] \in {<<>>, <<"send">>, <<"recv", "send">>}
    BY DEF RingInv, RingTypes
  <2>2. Distinct(sq[c]) /\ Distinct(rq[c]) /\ Distinct(cq[c])
    BY <2>1 DEF PlacesInv
  <2>3. Cardinality(Posted(sq[c], i)) = One(In(sq[c], i))
    BY <2>1, <2>2, OnePlace DEF Posted
  <2>4. Cardinality(Posted(rq[c], i)) = One(In(rq[c], i))
    BY <2>1, <2>2, OnePlace DEF Posted
  <2>5. Cardinality(Unpolled(c, "send", i)) = One(In(cq[c], Wc("send", i)))
    BY <2>1, <2>2, OnePlace DEF Unpolled, Wc
  <2>6. Cardinality(Unpolled(c, "recv", i)) = One(In(cq[c], Wc("recv", i)))
    BY <2>1, <2>2, OnePlace DEF Unpolled, Wc
  <2>7. /\ ~(In(sq[c], i) /\ In(cq[c], Wc("send", i)))
        /\ ~(In(rq[c], i) /\ In(cq[c], Wc("recv", i)))
    BY <2>1 DEF PlacesInv
  <2>8. /\ One(In(sq[c], i)) + One(In(cq[c], Wc("send", i))) = One(SendHeld(c, i))
        /\ One(In(rq[c], i)) + One(In(cq[c], Wc("recv", i))) = One(RecvHeld(c, i))
    BY <2>7 DEF One, SendHeld, RecvHeld
  <2>9. One(SendHeld(c, i)) <= 1 /\ One(RecvHeld(c, i)) <= 1
    BY DEF One
  <2>10. ring[c][i].status = One(SendHeld(c, i)) + One(RecvHeld(c, i)) + Unposted(c, i)
    BY <2>1 DEF CountsInv
  <2> QED BY <2>3, <2>4, <2>5, <2>6, <2>8, <2>9, <2>10 DEF Unposted
<1> QED BY <1>1, RingInvariance, PTL

\* The requests of one kind: as the ring has only Window entries, there are no more
\* of them, posted and completed ones together.
LEMMA KindFits ==
    ASSUME NEW q \in Seq(Ring), NEW d \in Seq(Completion), NEW kind,
           Distinct(q), Distinct(d),
           \A i \in Ring : ~(In(q, i) /\ In(d, Wc(kind, i))),
           NEW D, D = {k \in 1 .. Len(d) : d[k].kind = kind}
    PROVE  Cardinality(D) \in Nat /\ Len(q) + Cardinality(D) <= Window
<1> DEFINE Q == 1 .. Len(q)
           A == {q[k] : k \in Q}
           B == {d[k].entry : k \in D}
           f == [k \in Q |-> q[k]]
           g == [k \in D |-> d[k].entry]
<1>1. /\ Len(q) \in Nat /\ Len(d) \in Nat
      /\ \A k \in Q : q[k] \in Ring
      /\ D \in SUBSET (1 .. Len(d))
      /\ \A k \in D : d[k] \in Completion /\ d[k].kind = kind
  <2>1. Len(q) \in Nat /\ Len(d) \in Nat /\ \A k \in Q : q[k] \in Ring
    OBVIOUS
  <2>2. \A k \in 1 .. Len(d) : d[k] \in Completion
    OBVIOUS
  <2>3. D \in SUBSET (1 .. Len(d)) /\ \A k \in D : d[k].kind = kind
    OBVIOUS
  <2> QED BY <2>1, <2>2, <2>3
<1>2. /\ IsFiniteSet(Q) /\ Cardinality(Q) = Len(q)
      /\ IsFiniteSet(1 .. Len(d))
  <2>1. ASSUME NEW n \in Nat PROVE IsFiniteSet(1 .. n) /\ Cardinality(1 .. n) = n
    <3>1. /\ IsFiniteSet(1 .. n)
          /\ Cardinality(1 .. n) = IF 1 > n THEN 0 ELSE n - 1 + 1
      BY FS_Interval
    <3> QED BY <3>1
  <2> QED BY <1>1, <2>1
<1>3. IsFiniteSet(D)
  BY <1>1, <1>2, FS_Subset
<1>4. IsFiniteSet(A) /\ Cardinality(A) = Len(q)
  <2>1. f \in [Q -> A] /\ \A k, l \in Q : f[k] = f[l] => k = l
    BY DEF Distinct
  <2>2. \A x \in A : \E k \in Q : f[k] = x
    OBVIOUS
  <2> HIDE DEF f, Q, A
  <2>3. f \in Bijection(Q, A)
    BY <2>1, <2>2 DEF Bijection, Injection, IsInjective, Surjection
  <2>4. ExistsBijection(Q, A)
    BY <2>3 DEF ExistsBijection
  <2> QED BY <1>2, <2>4, FS_Bijection
<1>5. IsFiniteSet(B) /\ Cardinality(B) = Cardinality(D)
  <2>1. ASSUME NEW k \in D, NEW l \in D, d[k].entry = d[l].entry
        PROVE  k = l
    <3>1. d[k] = d[l]
      BY <1>1, <2>1 DEF Completion
    <3>2. k \in 1 .. Len(d) /\ l \in 1 .. Len(d)
      BY <1>1
    <3> QED BY <3>1, <3>2 DEF Distinct
  <2>2. g \in [D -> B] /\ \A k, l \in D : g[k] = g[l] => k = l
    BY <2>1
  <2>3. \A x \in B : \E k \in D : g[k] = x
    OBVIOUS
  <2> HIDE DEF g, B
  <2>4. g \in Bijection(D, B)
    BY <2>2, <2>3 DEF Bijection, Injection, IsInjective, Surjection
  <2>5. ExistsBijection(D, B)
    BY <2>4 DEF ExistsBijection
  <2> QED BY <1>3, <2>5, FS_Bijection
<1>6. A \cap B = {}
  <2> SUFFICES ASSUME NEW k \in Q, NEW l \in D, q[k] = d[l].entry
      PROVE  FALSE
    OBVIOUS
  <2>1. In(q, q[k]) /\ q[k] \in Ring
    BY <1>1 DEF In
  <2>2. d[l] = Wc(kind, q[k])
    BY <1>1 DEF Completion, Wc
  <2>3. In(d, Wc(kind, q[k]))
    BY <2>2 DEF In
  <2> QED BY <2>1, <2>3
<1>7. IsFiniteSet(Ring) /\ Cardinality(Ring) = Window
  <2>1. Window - 1 \in Int /\ 0 \in Int /\ ~(0 > Window - 1) /\ Window - 1 - 0 + 1 = Window
    BY SystemAssumption
  <2> QED BY <2>1, FS_Interval DEF Ring
<1>8. A \cup B \in SUBSET Ring
  BY <1>1 DEF Completion
<1> HIDE DEF Q, A, B
<1>9. Cardinality(A \cup B) <= Window
  BY <1>7, <1>8, FS_Subset
<1>10. Cardinality(A \cup B) = Cardinality(A) + Cardinality(B) - Cardinality(A \cap B)
  BY <1>4, <1>5, FS_Union
<1>11. Cardinality(A \cap B) = 0
  BY <1>6, FS_EmptySet
<1>12. Cardinality(D) \in Nat
  BY <1>3, FS_CardinalityType
<1> QED BY <1>1, <1>4, <1>5, <1>9, <1>10, <1>11, <1>12, SystemAssumption

\* A completion is of one of the two kinds.
LEMMA KindsSplit ==
    ASSUME NEW d \in Seq(Completion),
           NEW S, S = {k \in 1 .. Len(d) : d[k].kind = "send"},
           NEW R, R = {k \in 1 .. Len(d) : d[k].kind = "recv"}
    PROVE  Len(d) = Cardinality(S) + Cardinality(R)
<1>0. Len(d) \in Nat /\ \A k \in 1 .. Len(d) : d[k] \in Completion
  OBVIOUS
<1>1. S \cup R = 1 .. Len(d) /\ S \cap R = {}
  BY <1>0 DEF Completion
<1>2. IsFiniteSet(1 .. Len(d)) /\ Cardinality(1 .. Len(d)) = Len(d)
  BY <1>0, FS_Interval
<1>3. S \in SUBSET (1 .. Len(d)) /\ R \in SUBSET (1 .. Len(d))
  OBVIOUS
<1>4. IsFiniteSet(S) /\ IsFiniteSet(R)
  BY <1>2, <1>3, FS_Subset
<1>5. Cardinality(S) \in Nat /\ Cardinality(R) \in Nat
  BY <1>4, FS_CardinalityType
<1>6. Cardinality(S \cup R) = Cardinality(S) + Cardinality(R) - Cardinality(S \cap R)
  BY <1>4, FS_Union
<1>7. Cardinality(S \cap R) = 0
  BY <1>1, FS_EmptySet
<1>8. Cardinality(S) + Cardinality(R) - 0 = Cardinality(S) + Cardinality(R)
  BY <1>5
<1> QED BY <1>1, <1>2, <1>6, <1>7, <1>8

\* Neither the queue pair nor the completion queue overflows, although allreduce
\* never asks for room.
THEOREM QueuesNeverOverflow == SystemSpec => []QueuesFit
<1>1. RingInv => QueuesFit
  <2> SUFFICES ASSUME RingInv, NEW c \in Clients
      PROVE  LET completed(kind) == UNION {Unpolled(c, kind, i) : i \in Ring}
             IN  /\ Len(sq[c]) + Cardinality(completed("send")) <= Window
                 /\ Len(rq[c]) + Cardinality(completed("recv")) <= Window
                 /\ Len(cq[c]) <= 2 * Window
    BY DEF QueuesFit
  <2> DEFINE completed(kind) == UNION {Unpolled(c, kind, i) : i \in Ring}
             S == {k \in 1 .. Len(cq[c]) : cq[c][k].kind = "send"}
             R == {k \in 1 .. Len(cq[c]) : cq[c][k].kind = "recv"}
  <2>1. /\ PlacesInv(c)
        /\ sq[c] \in Seq(Ring) /\ rq[c] \in Seq(Ring) /\ cq[c] \in Seq(Completion)
    BY DEF RingInv, RingTypes
  <2>2. /\ Distinct(sq[c]) /\ Distinct(rq[c]) /\ Distinct(cq[c])
        /\ \A i \in Ring : ~(In(sq[c], i) /\ In(cq[c], Wc("send", i)))
        /\ \A i \in Ring : ~(In(rq[c], i) /\ In(cq[c], Wc("recv", i)))
    BY <2>1 DEF PlacesInv
  <2>3. \A k \in 1 .. Len(cq[c]) : cq[c][k] \in Completion
    BY <2>1
  <2>4. completed("send") = S
    <3>1. ASSUME NEW k \in S PROVE k \in completed("send")
      <4>1. cq[c][k].entry \in Ring
        BY <2>3 DEF Completion
      <4>2. cq[c][k] = [kind |-> "send", entry |-> cq[c][k].entry]
        BY <2>3 DEF Completion
      <4>3. k \in Unpolled(c, "send", cq[c][k].entry)
        BY <4>2 DEF Unpolled
      <4> QED BY <4>1, <4>3
    <3>2. ASSUME NEW k \in completed("send") PROVE k \in S
      <4>1. PICK i \in Ring : k \in Unpolled(c, "send", i)
        OBVIOUS
      <4> QED BY <4>1 DEF Unpolled
    <3> HIDE DEF completed, S, R
    <3> QED BY <3>1, <3>2
  <2>5. completed("recv") = R
    <3>1. ASSUME NEW k \in R PROVE k \in completed("recv")
      <4>1. cq[c][k].entry \in Ring
        BY <2>3 DEF Completion
      <4>2. cq[c][k] = [kind |-> "recv", entry |-> cq[c][k].entry]
        BY <2>3 DEF Completion
      <4>3. k \in Unpolled(c, "recv", cq[c][k].entry)
        BY <4>2 DEF Unpolled
      <4> QED BY <4>1, <4>3
    <3>2. ASSUME NEW k \in completed("recv") PROVE k \in R
      <4>1. PICK i \in Ring : k \in Unpolled(c, "recv", i)
        OBVIOUS
      <4> QED BY <4>1 DEF Unpolled
    <3> HIDE DEF completed, S, R
    <3> QED BY <3>1, <3>2
  <2>6. Cardinality(S) \in Nat /\ Len(sq[c]) + Cardinality(S) <= Window
    BY <2>1, <2>2, KindFits
  <2>7. Cardinality(R) \in Nat /\ Len(rq[c]) + Cardinality(R) <= Window
    BY <2>1, <2>2, KindFits
  <2>8. Len(cq[c]) = Cardinality(S) + Cardinality(R)
    BY <2>1, KindsSplit
  <2>9. Len(sq[c]) \in Nat /\ Len(rq[c]) \in Nat
    BY <2>1
  <2> HIDE DEF S, R
  <2>10. Len(cq[c]) <= 2 * Window
    <3> DEFINE a == Cardinality(S)
               b == Cardinality(R)
               x == Len(sq[c])
               y == Len(rq[c])
    <3>1. /\ a \in Nat /\ b \in Nat /\ x \in Nat /\ y \in Nat
          /\ x + a <= Window /\ y + b <= Window /\ Len(cq[c]) = a + b
      BY <2>6, <2>7, <2>8, <2>9
    <3> HIDE DEF a, b, x, y
    <3> QED BY <3>1, SystemAssumption
  <2> QED BY <2>4, <2>5, <2>6, <2>7, <2>10
<1> QED BY <1>1, RingInvariance, PTL

-----------------------------------------------------------------------------
(* ChunksBefore: the recursive function obeys its equation. *)

\* A set of natural numbers has a least element.
LEMMA LeastElement ==
    ASSUME NEW T \in SUBSET Nat, T # {}
    PROVE  \E x \in T : \A y \in T : x <= y
<1>1. \E x \in T : \A y \in T : ~(<<y, x>> \in OpToRel(<, Nat))
  BY NatLessThanWellFounded, WFMin
<1>2. PICK x \in T : \A y \in T : ~(<<y, x>> \in OpToRel(<, Nat))
  BY <1>1
<1>3. ASSUME NEW y \in T PROVE x <= y
  <2>1. y \in Nat /\ x \in Nat
    OBVIOUS
  <2>2. <<y, x>> \in OpToRel(<, Nat) <=> y < x
    BY <2>1 DEF OpToRel
  <2>3. ~(y < x)
    BY <1>2, <2>2
  <2> QED BY <2>1, <2>3
<1> QED BY <1>2, <1>3

\* The number of chunks before each of the first n calls and the one after them.
CountsChunks(f, n) ==
    /\ f \in [0 .. n -> Nat]
    /\ f[0] = 0
    /\ \A k \in 1 .. n : f[k] = f[k - 1] + Calls[k]

\* There is such a function; the shortest sequence without one would have a
\* predecessor that has none either.
LEMMA CountExists == \E f : CountsChunks(f, Len(Calls))
<1> DEFINE Bad == {n \in 0 .. Len(Calls) : ~\E f : CountsChunks(f, n)}
<1>0. Len(Calls) \in Nat /\ \A k \in 1 .. Len(Calls) : Calls[k] \in Nat \ {0}
  BY SystemAssumption
<1>1. Bad = {}
  <2> SUFFICES ASSUME Bad # {} PROVE FALSE
    OBVIOUS
  <2>1. PICK n \in Bad : \A m \in Bad : n <= m
    <3>1. Bad \in SUBSET Nat
      OBVIOUS
    <3> HIDE DEF Bad
    <3> QED BY LeastElement, <3>1
  <2>2. n # 0
    <3>1. CountsChunks([k \in 0 .. 0 |-> 0], 0)
      BY DEF CountsChunks
    <3> QED BY <2>1, <3>1
  <2>3. PICK f : CountsChunks(f, n - 1)
    BY <1>0, <2>1, <2>2
  <2>4. CountsChunks([k \in 0 .. n |-> IF k = n THEN f[n - 1] + Calls[n] ELSE f[k]], n)
    BY <1>0, <2>1, <2>2, <2>3 DEF CountsChunks
  <2> QED BY <2>1, <2>4
<1> QED BY <1>0, <1>1

\* ChunksBefore is that function.
LEMMA ChunksBeforeDef ==
    /\ ChunksBefore \in [0 .. Len(Calls) -> Nat]
    /\ ChunksBefore[0] = 0
    /\ \A k \in 1 .. Len(Calls) : ChunksBefore[k] = ChunksBefore[k - 1] + Calls[k]
<1>0. Len(Calls) \in Nat /\ \A k \in 1 .. Len(Calls) : Calls[k] \in Nat \ {0}
  BY SystemAssumption
<1>1. PICK f : CountsChunks(f, Len(Calls))
  BY CountExists
<1>2. f = [k \in 0 .. Len(Calls) |-> IF k = 0 THEN 0 ELSE f[k - 1] + Calls[k]]
  BY <1>0, <1>1 DEF CountsChunks
<1>3. ChunksBefore =
        [k \in 0 .. Len(Calls) |-> IF k = 0 THEN 0 ELSE ChunksBefore[k - 1] + Calls[k]]
  BY <1>2 DEF ChunksBefore
<1>4. ChunksBefore[0] = 0 /\ f[0] = 0
  BY <1>0, <1>1, <1>3 DEF CountsChunks
<1>5. \A k \in 1 .. Len(Calls) : ChunksBefore[k] = ChunksBefore[k - 1] + Calls[k]
  BY <1>0, <1>3
\* Both functions agree at every number of calls.
<1> DEFINE Bad == {n \in 0 .. Len(Calls) : ChunksBefore[n] # f[n]}
<1>6. Bad = {}
  <2> SUFFICES ASSUME Bad # {} PROVE FALSE
    OBVIOUS
  <2>1. PICK n \in Bad : \A m \in Bad : n <= m
    <3>1. Bad \in SUBSET Nat
      OBVIOUS
    <3> HIDE DEF Bad
    <3> QED BY LeastElement, <3>1
  <2>2. n \in 1 .. Len(Calls)
    BY <1>0, <1>4, <2>1
  <2>3. ChunksBefore[n - 1] = f[n - 1]
    BY <1>0, <2>1, <2>2
  <2> QED BY <1>1, <1>5, <2>1, <2>2, <2>3 DEF CountsChunks
<1>7. ChunksBefore \in [0 .. Len(Calls) -> Nat]
  BY <1>1, <1>3, <1>6 DEF CountsChunks
<1> QED BY <1>4, <1>5, <1>7

\* The chunks of a call lie between those before it and all of them.
LEMMA ChunksOfCall ==
    ASSUME NEW k \in 1 .. Len(Calls)
    PROVE  /\ Calls[k] \in Nat \ {0}
           /\ ChunksBefore[k - 1] \in Nat
           /\ ChunksBefore[k] \in Nat
           /\ ChunksBefore[k] = ChunksBefore[k - 1] + Calls[k]
           /\ ChunksBefore[k] <= TotalChunks
<1>0. Len(Calls) \in Nat /\ \A n \in 1 .. Len(Calls) : Calls[n] \in Nat \ {0}
  BY SystemAssumption
<1>1. /\ \A n \in 0 .. Len(Calls) : ChunksBefore[n] \in Nat
      /\ \A n \in 1 .. Len(Calls) : ChunksBefore[n] = ChunksBefore[n - 1] + Calls[n]
  BY ChunksBeforeDef
\* The sums grow from call to call.
<1> DEFINE Bad == {n \in 0 .. Len(Calls) : n >= k /\ ChunksBefore[k] > ChunksBefore[n]}
<1>2. Bad = {}
  <2> SUFFICES ASSUME Bad # {} PROVE FALSE
    OBVIOUS
  <2>1. PICK n \in Bad : \A m \in Bad : n <= m
    <3>1. Bad \in SUBSET Nat
      OBVIOUS
    <3> HIDE DEF Bad
    <3> QED BY LeastElement, <3>1
  <2>2. n > k /\ n \in 1 .. Len(Calls) /\ n - 1 \in 0 .. Len(Calls) /\ n - 1 >= k
    BY <1>0, <1>1, <2>1
  <2>3. ChunksBefore[k] <= ChunksBefore[n - 1]
    <3>1. n - 1 \notin Bad
      <4>1. ~(n <= n - 1)
        BY <2>2
      <4> HIDE DEF Bad
      <4> QED BY <2>1, <4>1
    <3>2. ~(ChunksBefore[k] > ChunksBefore[n - 1])
      BY <2>2, <3>1
    <3>3. ChunksBefore[n - 1] \in Nat /\ ChunksBefore[k] \in Nat
      BY <1>0, <1>1, <2>2
    <3> QED BY <3>2, <3>3
  <2>4. ChunksBefore[n] = ChunksBefore[n - 1] + Calls[n]
    BY <1>1, <2>2
  <2>5. ChunksBefore[n - 1] \in Nat /\ ChunksBefore[k] \in Nat /\ Calls[n] \in Nat
    BY <1>0, <1>1, <2>2
  <2>6. ChunksBefore[k] > ChunksBefore[n]
    BY <2>1
  <2> HIDE DEF Bad
  <2> QED BY <2>3, <2>4, <2>5, <2>6
<1>3. k - 1 \in 0 .. Len(Calls) /\ k \in 0 .. Len(Calls)
  BY <1>0
<1>4. ChunksBefore[k] <= ChunksBefore[Len(Calls)]
  BY <1>0, <1>1, <1>2, <1>3
<1>5. TotalChunks = ChunksBefore[Len(Calls)]
  BY DEF TotalChunks
<1> QED BY <1>0, <1>1, <1>3, <1>4, <1>5

-----------------------------------------------------------------------------
(* The inductive invariant, with any losses. *)

\* Chunks of all calls that the client has begun to post, and those of which the
\* send and the receive request are posted; then the ones that are also done.
Filled(c) == ChunksBefore[call[c] - 1] + sendPos[c]

SendsPosted(c) == IF posting[c] = <<>> THEN Filled(c) ELSE Filled(c) - 1

RecvsPosted(c) == IF Len(posting[c]) = 2 THEN Filled(c) - 1 ELSE Filled(c)

SendsDone(c) == SendsPosted(c) - Len(sq[c])

RecvsDone(c) == RecvsPosted(c) - Len(rq[c])

\* Packets of the message under way that have been accepted.
Progress(c) == IF dropping[c] THEN 0 ELSE expectedPsn[c] % PktsPerChunk

Buffers == [Offsets -> [low : Payloads, high : Payloads]]

ClientTypes ==
    /\ call \in [Clients -> 1 .. Len(Calls) + 1]
    /\ sendPos \in [Clients -> Nat]
    /\ ring \in [Clients -> [Ring -> [status : Int, chunk : Chunks \cup {NoChunk}]]]
    /\ sendBuf \in [Clients -> [Ring -> Chunks \cup {NoChunk}]]
    /\ recvBuf \in [Clients -> [Ring -> Buffers]]
    /\ dbuf \in [Clients -> [Chunks -> Buffers]]
    /\ expectedPsn \in [Clients -> 0 .. MaxPsn]
    /\ dropping \in [Clients -> BOOLEAN]
    /\ losses \in 0 .. MaxLosses

\* How far the client is in its calls.
CallInv(c) == IF InCall(c) THEN sendPos[c] <= Calls[call[c]] ELSE sendPos[c] = 0

\* The send queue holds consecutive chunks, the next one first, and the next PSN
\* belongs to it.
SendInv(c) ==
    /\ PktsPerChunk * SendsDone(c) <= sent[c]
    /\ sent[c] < PktsPerChunk * (SendsDone(c) + 1)
    /\ sq[c] = <<>> => sent[c] = PktsPerChunk * SendsDone(c)
    /\ \A k \in 1 .. Len(sq[c]) : sendBuf[c][sq[c][k]] = SendsDone(c) + k - 1
    /\ posting[c] # <<>> => sendBuf[c][ringPos[c]] = Filled(c) - 1

\* So does the receive queue; a message is complete only after all of its packets.
RecvInv(c) ==
    /\ RecvsDone(c) >= 0
    /\ PktsPerChunk * RecvsDone(c) + Progress(c) <= Len(result[c])
    /\ \A k \in 1 .. Len(rq[c]) : ring[c][rq[c][k]].chunk = RecvsDone(c) + k - 1
    /\ Len(posting[c]) = 2 => ring[c][ringPos[c]].chunk = Filled(c) - 1

ClientsInv ==
    /\ ClientTypes
    /\ \A c \in Clients : CallInv(c) /\ SendInv(c) /\ RecvInv(c)

PsnInv == TypeOK /\ ClientsInv

\* Multiples of the chunk size.
LEMMA ChunkMultiples ==
    /\ PktsPerChunk \in Nat \ {0}
    /\ \A a \in Int : PktsPerChunk * a \in Int
    /\ \A a, b \in Int : PktsPerChunk * (a + b) = PktsPerChunk * a + PktsPerChunk * b
    /\ \A a, b \in Int : a <= b => PktsPerChunk * a <= PktsPerChunk * b
    /\ PktsPerChunk * 0 = 0 /\ PktsPerChunk * 1 = PktsPerChunk
<1>1. PktsPerChunk \in Nat \ {0}
  BY SystemAssumption
<1>2. ASSUME NEW p \in Nat \ {0}
      PROVE  /\ \A a \in Int : p * a \in Int
             /\ \A a, b \in Int : p * (a + b) = p * a + p * b
             /\ \A a, b \in Int : a <= b => p * a <= p * b
             /\ p * 0 = 0 /\ p * 1 = p
  <2>1. \A a, b \in Int : p * (a + b) = p * a + p * b
    OBVIOUS
  <2>2. ASSUME NEW a \in Int, NEW b \in Int, a <= b PROVE p * a <= p * b
    <3>1. p * (b - a) >= 0
      BY <2>2
    <3>2. p * (b - a) = p * b - p * a
      OBVIOUS
    <3> QED BY <3>1, <3>2
  <2> QED BY <2>1, <2>2
<1> QED BY <1>1, <1>2

\* All chunks together.
LEMMA TotalFacts ==
    /\ TotalChunks \in Nat
    /\ TotalChunks = ChunksBefore[Len(Calls)]
    /\ MaxPsn = PktsPerChunk * TotalChunks
<1>1. TotalChunks = ChunksBefore[Len(Calls)]
  BY DEF TotalChunks
<1>2. Len(Calls) \in Nat
  BY SystemAssumption
<1>3. TotalChunks \in Nat
  BY <1>1, <1>2, ChunksBeforeDef
<1>4. MaxPsn = TotalChunks * PktsPerChunk /\ PktsPerChunk \in Nat
  BY SystemAssumption
<1> QED BY <1>1, <1>3, <1>4

\* The chunks begun are chunks of the calls.
LEMMA FilledFacts ==
    ASSUME ClientTypes, NEW c \in Clients, CallInv(c)
    PROVE  /\ Filled(c) \in Nat
           /\ Filled(c) <= TotalChunks
           /\ InCall(c) => /\ call[c] \in 1 .. Len(Calls)
                           /\ ChunksBefore[call[c]] = ChunksBefore[call[c] - 1] + Calls[call[c]]
           /\ InCall(c) /\ sendPos[c] < Calls[call[c]] => Filled(c) \in Chunks
<1>1. /\ call[c] \in 1 .. Len(Calls) + 1 /\ sendPos[c] \in Nat /\ Len(Calls) \in Nat
  BY SystemAssumption DEF ClientTypes
<1>2. CASE InCall(c)
  <2>1. call[c] \in 1 .. Len(Calls) /\ sendPos[c] <= Calls[call[c]]
    BY <1>1, <1>2 DEF InCall, CallInv
  <2>2. /\ Calls[call[c]] \in Nat \ {0} /\ ChunksBefore[call[c] - 1] \in Nat
        /\ ChunksBefore[call[c]] \in Nat
        /\ ChunksBefore[call[c]] = ChunksBefore[call[c] - 1] + Calls[call[c]]
        /\ ChunksBefore[call[c]] <= TotalChunks
    BY <2>1, ChunksOfCall
  <2> QED BY <1>1, <2>1, <2>2, TotalFacts DEF Filled, Chunks
<1>3. CASE ~InCall(c)
  <2>1. call[c] = Len(Calls) + 1 /\ sendPos[c] = 0
    BY <1>1, <1>3 DEF InCall, CallInv
  <2>2. Filled(c) = TotalChunks
    BY <1>1, <2>1, TotalFacts DEF Filled
  <2> QED BY <1>3, <2>2, TotalFacts
<1> QED BY <1>2, <1>3

\* A client whose part of the state does not change keeps its invariants.
LEMMA CallKept ==
    ASSUME NEW c \in Clients, call'[c] = call[c], sendPos'[c] = sendPos[c]
    PROVE  Filled(c)' = Filled(c) /\ (CallInv(c) => CallInv(c)')
BY DEF Filled, CallInv, InCall

\* The same for the send requests.
LEMMA SendKept ==
    ASSUME NEW c \in Clients, SendInv(c), Filled(c)' = Filled(c), sent'[c] = sent[c],
           posting'[c] = posting[c], ringPos'[c] = ringPos[c], sq'[c] = sq[c],
           sendBuf'[c] = sendBuf[c]
    PROVE  SendInv(c)'
BY DEF SendInv, SendsDone, SendsPosted

\* The same for the receive requests.
LEMMA RecvKept ==
    ASSUME NEW c \in Clients, RecvInv(c), Filled(c)' = Filled(c), result'[c] = result[c],
           posting'[c] = posting[c], ringPos'[c] = ringPos[c], rq'[c] = rq[c],
           \A i \in Ring : ring'[c][i].chunk = ring[c][i].chunk,
           rq[c] \in Seq(Ring), ringPos[c] \in Ring,
           expectedPsn'[c] = expectedPsn[c], dropping'[c] = dropping[c]
    PROVE  RecvInv(c)' /\ RecvsDone(c)' = RecvsDone(c)
<1>1. RecvsDone(c)' = RecvsDone(c) /\ Progress(c)' = Progress(c)
  BY DEF RecvsDone, RecvsPosted, Progress
<1>2. \A k \in 1 .. Len(rq[c]) : rq[c][k] \in Ring
  OBVIOUS
<1> QED BY <1>1, <1>2 DEF RecvInv

\* What RingInv says of the queues of one client.
LEMMA RingFacts ==
    ASSUME RingInv, NEW c \in Clients
    PROVE  /\ ringPos[c] \in Ring
           /\ posting[c] \in {<<>>, <<"send">>, <<"recv", "send">>}
           /\ sq[c] \in Seq(Ring) /\ rq[c] \in Seq(Ring) /\ cq[c] \in Seq(Completion)
           /\ Len(sq[c]) \in Nat /\ Len(rq[c]) \in Nat /\ Len(cq[c]) \in Nat
           /\ \A k \in 1 .. Len(sq[c]) : sq[c][k] \in Ring
           /\ \A k \in 1 .. Len(rq[c]) : rq[c][k] \in Ring
           /\ \A k \in 1 .. Len(cq[c]) : cq[c][k] \in Completion
<1>1. /\ ringPos[c] \in Ring
      /\ posting[c] \in {<<>>, <<"send">>, <<"recv", "send">>}
      /\ sq[c] \in Seq(Ring) /\ rq[c] \in Seq(Ring) /\ cq[c] \in Seq(Completion)
  BY DEF RingInv, RingTypes
<1>2. ASSUME NEW S, NEW q \in Seq(S)
      PROVE  Len(q) \in Nat /\ \A k \in 1 .. Len(q) : q[k] \in S
  OBVIOUS
<1> QED BY <1>1, <1>2

\* An entry that is free has no request, so that its buffers may be used again.
LEMMA FreeEntry ==
    ASSUME RingInv, NEW c \in Clients, NEW i \in Ring, ring[c][i].status = 0
    PROVE  ~SendHeld(c, i) /\ ~RecvHeld(c, i)
<1>1. ring[c][i].status = One(SendHeld(c, i)) + One(RecvHeld(c, i)) + Unposted(c, i)
  BY DEF RingInv, CountsInv
<1>2. Unposted(c, i) \in Nat
  BY DEF RingInv, RingTypes, Unposted
<1> QED BY <1>1, <1>2 DEF One

-----------------------------------------------------------------------------
(* The loop of allreduce preserves it. *)

\* Fill: the next chunk goes into an entry without requests.
LEMMA FillPsn ==
    ASSUME RingInv, ClientsInv, NEW c \in Clients, Fill(c)
    PROVE  ClientsInv' /\ RecvsDone(c)' = RecvsDone(c)
<1> DEFINE next == NextEntry(c)
           chunk == ChunksBefore[call[c] - 1] + sendPos[c]
<1>1. /\ posting[c] = <<>> /\ InCall(c) /\ sendPos[c] < Calls[call[c]]
      /\ ring[c][next].status = 0
      /\ ringPos' = [ringPos EXCEPT ![c] = next]
      /\ ring' = [ring EXCEPT ![c][next] = [status |-> 2, chunk |-> chunk]]
      /\ sendBuf' = [sendBuf EXCEPT ![c][next] = chunk]
      /\ sendPos' = [sendPos EXCEPT ![c] = @ + 1]
      /\ posting' = [posting EXCEPT ![c] = <<"recv", "send">>]
      /\ UNCHANGED <<call, dbuf, recvBuf, sq, rq, cq, expectedPsn, dropping, losses>>
      /\ UNCHANGED <<sent, result>>
  BY DEF Fill, InLoop, EntryFree, PostOrder, adapterVars, fabricVars
<1>2. next \in Ring
  BY RingFacts, NextInRing DEF NextEntry
<1>3. /\ ClientTypes /\ CallInv(c) /\ SendInv(c) /\ RecvInv(c)
  BY DEF ClientsInv
<1>4. /\ chunk = Filled(c) /\ Filled(c) \in Chunks /\ Filled(c) \in Nat
      /\ call[c] \in 1 .. Len(Calls)
  BY <1>1, <1>3, FilledFacts DEF Filled
<1> HIDE DEF next, chunk
<1>5. ClientTypes'
  <2>1. sendPos' \in [Clients -> Nat]
    BY <1>1, <1>3 DEF ClientTypes
  <2>2. ring' \in [Clients -> [Ring -> [status : Int, chunk : Chunks \cup {NoChunk}]]]
    BY <1>1, <1>2, <1>3, <1>4 DEF ClientTypes
  <2>3. sendBuf' \in [Clients -> [Ring -> Chunks \cup {NoChunk}]]
    BY <1>1, <1>2, <1>3, <1>4 DEF ClientTypes
  <2> QED BY <1>1, <1>3, <2>1, <2>2, <2>3 DEF ClientTypes
<1>6. ASSUME NEW d \in Clients, d # c PROVE CallInv(d)' /\ SendInv(d)' /\ RecvInv(d)'
  <2>1. /\ ring'[d] = ring[d] /\ ringPos'[d] = ringPos[d] /\ sendBuf'[d] = sendBuf[d]
        /\ sendPos'[d] = sendPos[d] /\ posting'[d] = posting[d]
    BY <1>1, <1>3, <1>6, RingFacts DEF ClientTypes, RingInv, RingTypes
  <2>2. CallInv(d) /\ SendInv(d) /\ RecvInv(d)
    BY DEF ClientsInv
  <2> QED BY <1>1, <2>1, <2>2, CallKept, SendKept, RecvKept, RingFacts
<1>7. /\ sendPos'[c] = sendPos[c] + 1 /\ posting'[c] = <<"recv", "send">>
      /\ ringPos'[c] = next /\ ring'[c][next].chunk = chunk /\ sendBuf'[c][next] = chunk
      /\ \A i \in Ring \ {next} : ring'[c][i] = ring[c][i] /\ sendBuf'[c][i] = sendBuf[c][i]
  BY <1>1, <1>2, <1>3 DEF ClientTypes, RingInv, RingTypes
<1>8. /\ Filled(c)' = Filled(c) + 1
      /\ SendsPosted(c)' = SendsPosted(c) /\ RecvsPosted(c)' = RecvsPosted(c)
      /\ SendsDone(c)' = SendsDone(c) /\ RecvsDone(c)' = RecvsDone(c)
      /\ Progress(c)' = Progress(c)
  <2>1. Filled(c)' = Filled(c) + 1
    <3>1. ChunksBefore[call[c] - 1] \in Nat /\ sendPos[c] \in Nat
      BY <1>3, <1>4, ChunksOfCall DEF ClientTypes
    <3> QED BY <1>1, <1>7, <3>1 DEF Filled
  <2>2. SendsPosted(c)' = SendsPosted(c) /\ RecvsPosted(c)' = RecvsPosted(c)
    <3>1. Len(<<"recv", "send">>) = 2 /\ Len(<<>>) # 2 /\ <<"recv", "send">> # <<>>
      OBVIOUS
    <3>2. Filled(c)' - 1 = Filled(c)
      BY <1>4, <2>1
    <3> QED BY <1>1, <1>7, <3>1, <3>2 DEF SendsPosted, RecvsPosted
  <2> QED BY <1>1, <2>1, <2>2 DEF SendsDone, RecvsDone, Progress
<1>9. ~SendHeld(c, next) /\ ~RecvHeld(c, next)
  BY <1>1, <1>2, FreeEntry
<1>10. CallInv(c)'
  <2>1. sendPos[c] \in Nat /\ Calls[call[c]] \in Nat
    BY <1>3, <1>4, ChunksOfCall DEF ClientTypes
  <2> QED BY <1>1, <1>7, <2>1 DEF CallInv, InCall
<1>11. SendInv(c)'
  <2>1. \A k \in 1 .. Len(sq[c]) : sq[c][k] \in Ring \ {next}
    BY <1>9, RingFacts DEF SendHeld, In
  <2>2. \A k \in 1 .. Len(sq[c]) : sendBuf'[c][sq[c][k]] = SendsDone(c)' + k - 1
    BY <1>3, <1>7, <1>8, <2>1 DEF SendInv
  <2>3. sendBuf'[c][ringPos'[c]] = Filled(c)' - 1
    BY <1>4, <1>7, <1>8
  <2> QED BY <1>1, <1>3, <1>8, <2>2, <2>3 DEF SendInv
<1>12. RecvInv(c)'
  <2>1. \A k \in 1 .. Len(rq[c]) : rq[c][k] \in Ring \ {next}
    BY <1>9, RingFacts DEF RecvHeld, In
  <2>2. \A k \in 1 .. Len(rq[c]) : ring'[c][rq[c][k]].chunk = RecvsDone(c)' + k - 1
    BY <1>3, <1>7, <1>8, <2>1 DEF RecvInv
  <2>3. ring'[c][ringPos'[c]].chunk = Filled(c)' - 1
    BY <1>4, <1>7, <1>8
  <2> QED BY <1>1, <1>3, <1>8, <2>2, <2>3 DEF RecvInv
<1> QED BY <1>5, <1>6, <1>8, <1>10, <1>11, <1>12 DEF ClientsInv

\* PostRequest: the request of the newest chunk joins the end of its queue.
LEMMA PostPsn ==
    ASSUME RingInv, ClientsInv, NEW c \in Clients, PostRequest(c)
    PROVE  ClientsInv' /\ RecvsDone(c)' = RecvsDone(c)
<1>1. /\ posting[c] # <<>>
      /\ posting' = [posting EXCEPT ![c] = Tail(@)]
      /\ IF Head(posting[c]) = "recv"
         THEN rq' = [rq EXCEPT ![c] = Append(@, ringPos[c])] /\ UNCHANGED sq
         ELSE sq' = [sq EXCEPT ![c] = Append(@, ringPos[c])] /\ UNCHANGED rq
      /\ UNCHANGED <<call, sendPos, ringPos, ring, sendBuf, dbuf, recvBuf, cq, expectedPsn,
                     dropping, losses>>
      /\ UNCHANGED <<sent, result>>
  BY DEF PostRequest, fabricVars
<1>2. /\ ClientTypes /\ CallInv(c) /\ SendInv(c) /\ RecvInv(c)
  BY DEF ClientsInv
<1>3. ClientTypes'
  BY <1>1, <1>2 DEF ClientTypes
<1>4. /\ posting \in [Clients -> {<<>>, <<"send">>, <<"recv", "send">>}]
      /\ sq \in [Clients -> Seq(Ring)] /\ rq \in [Clients -> Seq(Ring)]
  BY DEF RingInv, RingTypes
<1>5. ASSUME NEW d \in Clients, d # c PROVE CallInv(d)' /\ SendInv(d)' /\ RecvInv(d)'
  <2>1. posting'[d] = posting[d] /\ sq'[d] = sq[d] /\ rq'[d] = rq[d]
    BY <1>1, <1>4, <1>5
  <2>2. CallInv(d) /\ SendInv(d) /\ RecvInv(d)
    BY DEF ClientsInv
  <2> QED BY <1>1, <2>1, <2>2, CallKept, SendKept, RecvKept, RingFacts
<1>6. /\ CallInv(c)' /\ Filled(c)' = Filled(c) /\ Filled(c) \in Nat
      /\ Progress(c)' = Progress(c)
  BY <1>1, <1>2, CallKept, FilledFacts DEF Progress
<1>7. ASSUME posting[c] = <<"recv", "send">>
      PROVE  SendInv(c)' /\ RecvInv(c)' /\ RecvsDone(c)' = RecvsDone(c)
  <2>1. /\ posting'[c] = <<"send">> /\ sq'[c] = sq[c]
        /\ rq'[c] = Append(rq[c], ringPos[c])
    BY <1>1, <1>4, <1>7
  <2>2. /\ Len(rq'[c]) = Len(rq[c]) + 1 /\ rq'[c][Len(rq[c]) + 1] = ringPos[c]
        /\ \A k \in 1 .. Len(rq[c]) : rq'[c][k] = rq[c][k]
    BY <2>1, AppendFacts, RingFacts
  <2>3. RecvsPosted(c) = Filled(c) - 1 /\ RecvsPosted(c)' = Filled(c)
    BY <1>6, <1>7, <2>1 DEF RecvsPosted
  <2>4. RecvsDone(c)' = RecvsDone(c) /\ RecvsDone(c) + Len(rq[c]) = Filled(c) - 1
        /\ RecvsDone(c) \in Int
    <3>1. /\ RecvsDone(c) = Filled(c) - 1 - Len(rq[c])
          /\ RecvsDone(c)' = Filled(c) - (Len(rq[c]) + 1)
      BY <2>2, <2>3 DEF RecvsDone
    <3>2. Len(rq[c]) \in Nat
      BY RingFacts
    <3> QED BY <1>6, <3>1, <3>2
  <2>5. SendInv(c)'
    <3>1. SendsDone(c)' = SendsDone(c)
      BY <1>6, <1>7, <2>1 DEF SendsDone, SendsPosted
    <3> QED BY <1>1, <1>2, <1>6, <1>7, <2>1, <3>1 DEF SendInv
  <2>6. RecvInv(c)'
    <3>1. ASSUME NEW k \in 1 .. Len(rq'[c])
          PROVE  ring'[c][rq'[c][k]].chunk = RecvsDone(c)' + k - 1
      <4>1. CASE k \in 1 .. Len(rq[c])
        BY <1>1, <1>2, <2>2, <2>4, <4>1 DEF RecvInv
      <4>2. CASE k = Len(rq[c]) + 1
        <5>1. ring[c][ringPos[c]].chunk = Filled(c) - 1
          BY <1>2, <1>7 DEF RecvInv
        <5>2. Filled(c) - 1 = RecvsDone(c) + k - 1
          BY <2>4, <4>2, RingFacts
        <5> QED BY <1>1, <2>2, <2>4, <4>2, <5>1, <5>2
      <4> QED BY <2>2, <4>1, <4>2, RingFacts
    <3>2. Len(posting'[c]) # 2
      BY <2>1
    <3> QED BY <1>1, <1>2, <1>6, <2>4, <3>1, <3>2 DEF RecvInv
  <2> QED BY <2>4, <2>5, <2>6
<1>8. ASSUME posting[c] = <<"send">>
      PROVE  SendInv(c)' /\ RecvInv(c)' /\ RecvsDone(c)' = RecvsDone(c)
  <2>1. /\ posting'[c] = <<>> /\ rq'[c] = rq[c]
        /\ sq'[c] = Append(sq[c], ringPos[c])
    BY <1>1, <1>4, <1>8
  <2>2. /\ Len(sq'[c]) = Len(sq[c]) + 1 /\ sq'[c][Len(sq[c]) + 1] = ringPos[c]
        /\ \A k \in 1 .. Len(sq[c]) : sq'[c][k] = sq[c][k]
    BY <2>1, AppendFacts, RingFacts
  <2>3. SendsPosted(c) = Filled(c) - 1 /\ SendsPosted(c)' = Filled(c)
    BY <1>6, <1>8, <2>1 DEF SendsPosted
  <2>4. SendsDone(c)' = SendsDone(c) /\ SendsDone(c) + Len(sq[c]) = Filled(c) - 1
        /\ SendsDone(c) \in Int
    <3>1. /\ SendsDone(c) = Filled(c) - 1 - Len(sq[c])
          /\ SendsDone(c)' = Filled(c) - (Len(sq[c]) + 1)
      BY <2>2, <2>3 DEF SendsDone
    <3>2. Len(sq[c]) \in Nat
      BY RingFacts
    <3> QED BY <1>6, <3>1, <3>2
  <2>5. RecvInv(c)'
    <3>1. RecvsDone(c)' = RecvsDone(c) /\ Len(posting'[c]) # 2
      BY <1>6, <1>8, <2>1 DEF RecvsDone, RecvsPosted
    <3> QED BY <1>1, <1>2, <1>6, <2>1, <3>1 DEF RecvInv
  <2>6. SendInv(c)'
    <3>1. ASSUME NEW k \in 1 .. Len(sq'[c])
          PROVE  sendBuf'[c][sq'[c][k]] = SendsDone(c)' + k - 1
      <4>1. CASE k \in 1 .. Len(sq[c])
        BY <1>1, <1>2, <2>2, <2>4, <4>1 DEF SendInv
      <4>2. CASE k = Len(sq[c]) + 1
        <5>1. sendBuf[c][ringPos[c]] = Filled(c) - 1
          BY <1>1, <1>2 DEF SendInv
        <5>2. Filled(c) - 1 = SendsDone(c) + k - 1
          BY <2>4, <4>2, RingFacts
        <5> QED BY <1>1, <2>2, <2>4, <4>2, <5>1, <5>2
      <4> QED BY <2>2, <4>1, <4>2, RingFacts
    <3>2. sq'[c] # <<>>
      <4>1. Len(sq'[c]) # 0
        BY <2>2, RingFacts
      <4> QED BY <4>1
    <3> QED BY <1>1, <1>2, <2>1, <2>4, <3>1, <3>2 DEF SendInv
  <2>7. RecvsDone(c)' = RecvsDone(c)
    BY <1>6, <1>8, <2>1 DEF RecvsDone, RecvsPosted
  <2> QED BY <2>5, <2>6, <2>7
<1> QED BY <1>1, <1>3, <1>4, <1>5, <1>6, <1>7, <1>8 DEF ClientsInv

\* Poll: a completion touches no request that is still in a queue.
LEMMA PollPsn ==
    ASSUME RingInv, ClientsInv, NEW c \in Clients, Poll(c)
    PROVE  /\ ClientsInv'
           /\ \A d \in Clients, i \in Ring : ring'[d][i].chunk = ring[d][i].chunk
<1> DEFINE wc == Head(cq[c])
           entry == ring[c][wc.entry]
<1>1. /\ cq[c] # <<>>
      /\ ring' = [ring EXCEPT ![c][wc.entry].status = @ - 1]
      /\ dbuf' = IF wc.kind = "recv"
                 THEN [dbuf EXCEPT ![c][entry.chunk] = recvBuf[c][wc.entry]]
                 ELSE dbuf
      /\ UNCHANGED <<call, sendPos, ringPos, posting, sendBuf, recvBuf, sq, rq, expectedPsn,
                     dropping, losses>>
      /\ UNCHANGED <<sent, result>>
  BY DEF Poll, fabricVars
<1>2. ClientTypes
  BY DEF ClientsInv
<1>3. wc \in Completion /\ wc.entry \in Ring
  <2>1. cq[c] \in Seq(Completion)
    BY RingFacts
  <2>2. wc \in Completion
    BY <1>1, <2>1, HeadTail
  <2> QED BY <2>2 DEF Completion
<1> HIDE DEF wc
<1>4. ring' \in [Clients -> [Ring -> [status : Int, chunk : Chunks \cup {NoChunk}]]]
      /\ \A d \in Clients, i \in Ring : ring'[d][i].chunk = ring[d][i].chunk
  <2>1. ring \in [Clients -> [Ring -> [status : Int, chunk : Chunks \cup {NoChunk}]]]
    BY <1>2 DEF ClientTypes
  <2>2. ring' = [ring EXCEPT ![c] = [ring[c] EXCEPT ![wc.entry] =
                   [ring[c][wc.entry] EXCEPT !.status = @ - 1]]]
    BY <1>1
  <2>3. ring[c][wc.entry] \in [status : Int, chunk : Chunks \cup {NoChunk}]
    BY <1>3, <2>1
  <2> DEFINE e == [ring[c][wc.entry] EXCEPT !.status = @ - 1]
  <2>4. /\ e \in [status : Int, chunk : Chunks \cup {NoChunk}]
        /\ e.chunk = ring[c][wc.entry].chunk
    BY <2>3
  <2> HIDE DEF e
  <2>5. ring' = [ring EXCEPT ![c] = [ring[c] EXCEPT ![wc.entry] = e]]
    BY <2>2 DEF e
  <2>6. ASSUME NEW d \in Clients, NEW i \in Ring
        PROVE  ring'[d][i] = IF d = c /\ i = wc.entry THEN e ELSE ring[d][i]
    BY <1>3, <2>1, <2>5
  <2> QED BY <1>3, <2>1, <2>4, <2>5, <2>6
<1>5. dbuf' \in [Clients -> [Chunks -> Buffers]]
  <2>1. recvBuf[c][wc.entry] \in Buffers
    BY <1>2, <1>3 DEF ClientTypes
  <2>2. dbuf[c] \in [Chunks -> Buffers]
    BY <1>2 DEF ClientTypes
  <2>3. [dbuf[c] EXCEPT ![entry.chunk] = recvBuf[c][wc.entry]] \in [Chunks -> Buffers]
    BY <2>1, <2>2
  <2> QED BY <1>1, <1>2, <2>3 DEF ClientTypes
<1>6. ClientTypes'
  BY <1>1, <1>2, <1>4, <1>5 DEF ClientTypes
<1>7. ASSUME NEW d \in Clients PROVE CallInv(d)' /\ SendInv(d)' /\ RecvInv(d)'
  <2>1. CallInv(d) /\ SendInv(d) /\ RecvInv(d)
    BY DEF ClientsInv
  <2> QED BY <1>1, <1>4, <2>1, CallKept, SendKept, RecvKept, RingFacts
<1> QED BY <1>4, <1>6, <1>7 DEF ClientsInv

\* Return: all chunks of the call are done, the next call continues their numbers.
LEMMA ReturnPsn ==
    ASSUME RingInv, ClientsInv, NEW c \in Clients, Return(c)
    PROVE  ClientsInv' /\ Filled(c)' = Filled(c)
<1>1. /\ posting[c] = <<>> /\ InCall(c) /\ sendPos[c] >= Calls[call[c]] /\ outstanding[c] = 0
      /\ call' = [call EXCEPT ![c] = @ + 1]
      /\ sendPos' = [sendPos EXCEPT ![c] = 0]
      /\ ringPos' = [ringPos EXCEPT ![c] = 0]
      /\ ring' = [ring EXCEPT ![c] = FreshRing]
      /\ UNCHANGED <<posting, sendBuf, dbuf, recvBuf, sq, rq, expectedPsn, dropping, losses>>
      /\ UNCHANGED <<sent, result>>
  BY DEF Return, InLoop, Done, adapterVars, fabricVars
<1>2. /\ ClientTypes /\ CallInv(c) /\ SendInv(c) /\ RecvInv(c)
  BY DEF ClientsInv
<1>3. sq[c] = <<>> /\ rq[c] = <<>>
  BY <1>1, NothingOutstanding
<1>4. /\ call[c] \in 1 .. Len(Calls) /\ call'[c] = call[c] + 1 /\ Len(Calls) \in Nat
      /\ sendPos'[c] = 0
  BY <1>1, <1>2, SystemAssumption DEF InCall, ClientTypes
<1>5. ClientTypes'
  <2>1. call' \in [Clients -> 1 .. Len(Calls) + 1]
    BY <1>1, <1>2, <1>4 DEF ClientTypes
  <2>2. FreshRing \in [Ring -> [status : Int, chunk : Chunks \cup {NoChunk}]]
    BY DEF FreshRing
  <2>3. ring' \in [Clients -> [Ring -> [status : Int, chunk : Chunks \cup {NoChunk}]]]
    BY <1>1, <1>2, <2>2 DEF ClientTypes
  <2>4. sendPos' \in [Clients -> Nat]
    BY <1>1, <1>2 DEF ClientTypes
  <2> QED BY <1>1, <1>2, <2>1, <2>3, <2>4 DEF ClientTypes
<1>6. ASSUME NEW d \in Clients, d # c PROVE CallInv(d)' /\ SendInv(d)' /\ RecvInv(d)'
  <2>1. /\ ring'[d] = ring[d] /\ ringPos'[d] = ringPos[d] /\ call'[d] = call[d]
        /\ sendPos'[d] = sendPos[d]
    BY <1>1, <1>2, <1>6 DEF ClientTypes, RingInv, RingTypes
  <2>2. CallInv(d) /\ SendInv(d) /\ RecvInv(d)
    BY DEF ClientsInv
  <2> QED BY <1>1, <2>1, <2>2, CallKept, SendKept, RecvKept, RingFacts
<1>7. Filled(c)' = Filled(c)
  <2>1. /\ sendPos[c] = Calls[call[c]]
        /\ ChunksBefore[call[c]] = ChunksBefore[call[c] - 1] + Calls[call[c]]
        /\ ChunksBefore[call[c]] \in Nat
    <3>1. sendPos[c] <= Calls[call[c]] /\ sendPos[c] \in Nat
      BY <1>1, <1>2 DEF CallInv, ClientTypes
    <3>2. Calls[call[c]] \in Nat
      BY <1>4, ChunksOfCall
    <3> QED BY <1>1, <1>4, <3>1, <3>2, ChunksOfCall
  <2>2. call'[c] - 1 = call[c]
    BY <1>4
  <2> QED BY <1>4, <2>1, <2>2 DEF Filled
<1>8. CallInv(c)'
  <2>1. InCall(c)' => call'[c] \in 1 .. Len(Calls)
    BY <1>4 DEF InCall
  <2>2. InCall(c)' => Calls[call'[c]] \in Nat
    BY <2>1, ChunksOfCall
  <2> QED BY <1>4, <2>2 DEF CallInv
<1>9. SendInv(c)'
  <2>1. SendsDone(c)' = SendsDone(c)
    BY <1>1, <1>7 DEF SendsDone, SendsPosted
  <2>2. Len(<<>>) = 0
    OBVIOUS
  <2> QED BY <1>1, <1>2, <1>3, <2>1, <2>2 DEF SendInv
<1>10. RecvInv(c)'
  <2>1. RecvsDone(c)' = RecvsDone(c) /\ Progress(c)' = Progress(c)
    BY <1>1, <1>7 DEF RecvsDone, RecvsPosted, Progress
  <2>2. Len(posting'[c]) # 2 /\ \A k \in 1 .. Len(rq'[c]) : FALSE
    BY <1>1, <1>3
  <2>3. RecvsDone(c) >= 0 /\ PktsPerChunk * RecvsDone(c) + Progress(c) <= Len(result[c])
    BY <1>2 DEF RecvInv
  <2> QED BY <1>1, <2>1, <2>2, <2>3 DEF RecvInv
<1> QED BY <1>5, <1>6, <1>7, <1>8, <1>9, <1>10 DEF ClientsInv

-----------------------------------------------------------------------------
(* So does the adapter. *)

\* Where the next PSN lies in the chunk at the head of the send queue.
LEMMA NextPsn ==
    ASSUME TypeOK, RingInv, ClientsInv, NEW c \in Clients
    PROVE  /\ SendsDone(c) \in Nat /\ sent[c] \in Nat
           /\ sent[c] = PktsPerChunk * SendsDone(c) + (sent[c] % PktsPerChunk)
           /\ sent[c] % PktsPerChunk \in Offsets
<1>1. /\ SendInv(c) /\ ClientTypes /\ CallInv(c)
  BY DEF ClientsInv
<1>2. Filled(c) \in Nat
  BY <1>1, FilledFacts
<1>3. SendsDone(c) \in Int
  BY <1>2, RingFacts DEF SendsDone, SendsPosted
<1>4. sent[c] \in Nat
  BY FabricAssumption DEF TypeOK
<1> DEFINE p == PktsPerChunk
           n == SendsDone(c)
           s == sent[c]
<1>5. p \in Nat \ {0} /\ n \in Int /\ s \in Nat /\ p * n <= s /\ s < p * (n + 1)
      /\ p * (n + 1) = p * n + p /\ p * n \in Int
  BY <1>1, <1>3, <1>4, ChunkMultiples DEF SendInv
<1> HIDE DEF p, n, s
<1>6. s - p * n \in 0 .. p - 1 /\ s = p * n + (s - p * n)
  BY <1>5
<1>7. s % p = s - p * n
  <2> DEFINE u == s - p * n
  <2>1. u \in 0 .. p - 1 /\ s = p * n + u
    BY <1>6
  <2> HIDE DEF u
  <2>2. s % p = u
    BY <1>5, <2>1, ModOf
  <2> QED BY <2>2 DEF u
<1>8. n \in Nat
  <2>1. CASE n < 0
    <3>1. n + 1 <= 0 /\ n + 1 \in Int
      BY <1>5, <2>1
    <3>2. p * (n + 1) <= p * 0 /\ p * 0 = 0
      BY <3>1, ChunkMultiples DEF p
    <3> QED BY <1>5, <3>2
  <2> QED BY <1>5, <2>1
<1> QED BY <1>5, <1>6, <1>7, <1>8 DEF p, n, s, Offsets

\* Transmit: PSNs go on; the last one of a chunk takes it from the queue.
LEMMA TransmitPsn ==
    ASSUME TypeOK, RingInv, ClientsInv, NEW c \in Clients, Transmit(c)
    PROVE  ClientsInv'
<1> DEFINE offset == sent[c] % PktsPerChunk
<1>1. /\ sq[c] # <<>>
      /\ sent' = [sent EXCEPT ![c] = @ + 1]
      /\ IF offset = PktsPerChunk - 1
         THEN sq' = [sq EXCEPT ![c] = Tail(@)]
         ELSE UNCHANGED sq
      /\ UNCHANGED <<call, sendPos, ringPos, ring, posting, sendBuf, dbuf, recvBuf, rq,
                     expectedPsn, dropping, losses>>
      /\ UNCHANGED result
  BY DEF Transmit, Send, callVars
<1>2. /\ ClientTypes /\ CallInv(c) /\ SendInv(c) /\ RecvInv(c)
  BY DEF ClientsInv
<1>3. sent \in [Clients -> 0 .. MaxPsn] /\ sq \in [Clients -> Seq(Ring)]
  BY DEF TypeOK, RingInv, RingTypes
<1>4. ClientTypes'
  BY <1>1, <1>2 DEF ClientTypes
<1>5. ASSUME NEW d \in Clients PROVE CallInv(d)' /\ RecvInv(d)' /\ Filled(d)' = Filled(d)
  <2>1. CallInv(d) /\ RecvInv(d)
    BY DEF ClientsInv
  <2> QED BY <1>1, <2>1, CallKept, RecvKept, RingFacts
<1>6. ASSUME NEW d \in Clients, d # c PROVE SendInv(d)'
  <2>1. sent'[d] = sent[d] /\ sq'[d] = sq[d]
    BY <1>1, <1>3, <1>6
  <2>2. SendInv(d) /\ Filled(d)' = Filled(d)
    BY <1>5 DEF ClientsInv
  <2> QED BY <1>1, <2>1, <2>2, SendKept
<1> DEFINE n == SendsDone(c)
<1>7. /\ n \in Nat /\ sent[c] \in Nat /\ sent[c] = PktsPerChunk * n + offset
      /\ offset \in 0 .. PktsPerChunk - 1 /\ sent'[c] = sent[c] + 1
  BY <1>1, <1>3, NextPsn DEF Offsets
<1>8. SendsPosted(c)' = SendsPosted(c) /\ SendsPosted(c) = n + Len(sq[c])
  <2>1. SendsPosted(c) \in Int /\ Len(sq[c]) \in Nat
    BY <1>2, FilledFacts, RingFacts DEF SendsPosted
  <2> QED BY <1>1, <1>5, <2>1 DEF SendsPosted, SendsDone
<1>9. /\ PktsPerChunk \in Nat \ {0} /\ PktsPerChunk * n \in Int
      /\ PktsPerChunk * (n + 1) = PktsPerChunk * n + PktsPerChunk
      /\ PktsPerChunk * (n + 1 + 1) = PktsPerChunk * (n + 1) + PktsPerChunk
  <2> HIDE DEF n
  <2> QED BY <1>7, ChunkMultiples
<1> HIDE DEF offset
<1>10. CASE offset = PktsPerChunk - 1
  <2>1. sq'[c] = Tail(sq[c])
    BY <1>1, <1>3, <1>10
  <2>2. /\ Len(sq[c]) \in Nat \ {0} /\ Len(sq'[c]) = Len(sq[c]) - 1
        /\ \A k \in 1 .. Len(sq'[c]) : sq'[c][k] = sq[c][k + 1]
    BY <1>1, <2>1, RingFacts, HeadTail
  <2>3. SendsDone(c)' = n + 1
    <3> DEFINE posted == SendsPosted(c)'
               left == Len(sq'[c])
               l == Len(sq[c])
    <3>1. SendsDone(c)' = posted - left
      BY DEF SendsDone
    <3>2. posted = n + l /\ left = l - 1 /\ l \in Nat /\ n \in Nat
      BY <1>7, <1>8, <2>2
    <3> HIDE DEF n, posted, left, l
    <3> QED BY <3>1, <3>2
  <2>4. sent'[c] = PktsPerChunk * (n + 1)
    <3> HIDE DEF n
    <3> QED BY <1>7, <1>9, <1>10
  <2>5. sent'[c] < PktsPerChunk * (n + 1 + 1) /\ PktsPerChunk * (n + 1) \in Int
    <3> HIDE DEF n
    <3> QED BY <1>7, <1>9, <2>4
  <2>6. ASSUME NEW k \in 1 .. Len(sq'[c])
        PROVE  sendBuf'[c][sq'[c][k]] = (n + 1) + k - 1
    <3>1. k + 1 \in 1 .. Len(sq[c])
      BY <2>2
    <3>2. sendBuf[c][sq[c][k + 1]] = n + (k + 1) - 1
      BY <1>2, <3>1 DEF SendInv
    <3> HIDE DEF n
    <3>3. n + (k + 1) - 1 = (n + 1) + k - 1
      BY <1>7, <3>1
    <3> QED BY <1>1, <2>2, <3>2, <3>3
  <2> HIDE DEF n
  <2>7. PktsPerChunk * (n + 1) <= sent'[c] /\ sent'[c] < PktsPerChunk * (n + 1 + 1)
    BY <2>4, <2>5
  <2>8. posting'[c] # <<>> => sendBuf'[c][ringPos'[c]] = Filled(c)' - 1
    BY <1>1, <1>2, <1>5 DEF SendInv
  <2>9. SendInv(c)'
    BY <2>3, <2>4, <2>6, <2>7, <2>8 DEF SendInv
  <2> QED BY <1>4, <1>5, <1>6, <2>9 DEF ClientsInv
<1>11. CASE offset # PktsPerChunk - 1
  <2>1. sq'[c] = sq[c] /\ SendsDone(c)' = n
    BY <1>1, <1>8, <1>11 DEF SendsDone
  <2>2. PktsPerChunk * n <= sent'[c] /\ sent'[c] < PktsPerChunk * (n + 1)
    <3> HIDE DEF n
    <3> QED BY <1>7, <1>9, <1>11
  <2>3. \A k \in 1 .. Len(sq[c]) : sendBuf'[c][sq[c][k]] = n + k - 1
    BY <1>1, <1>2 DEF SendInv
  <2>4. posting'[c] # <<>> => sendBuf'[c][ringPos'[c]] = Filled(c)' - 1
    BY <1>1, <1>2, <1>5 DEF SendInv
  <2> HIDE DEF n
  <2>5. SendInv(c)'
    BY <1>1, <2>1, <2>2, <2>3, <2>4 DEF SendInv
  <2> QED BY <1>4, <1>5, <1>6, <2>5 DEF ClientsInv
<1> QED BY <1>10, <1>11

\* The offset that follows.
LEMMA NextOffset ==
    ASSUME NEW n \in Nat
    PROVE  /\ n % PktsPerChunk \in Offsets
           /\ n % PktsPerChunk = PktsPerChunk - 1 => (n + 1) % PktsPerChunk = 0
           /\ n % PktsPerChunk # PktsPerChunk - 1 =>
                 (n + 1) % PktsPerChunk = (n % PktsPerChunk) + 1
<1> DEFINE p == PktsPerChunk
           u == n % p
           q == n \div p
<1>1. p \in Nat \ {0}
  BY SystemAssumption
<1>2. q \in Int /\ u \in 0 .. p - 1 /\ n = p * q + u
  BY <1>1, DivisionFacts
<1>3. p * q \in Int /\ p * (q + 1) = p * q + p
  BY <1>2, ChunkMultiples
<1> HIDE DEF p, u, q
<1>4. ASSUME u = p - 1 PROVE (n + 1) % p = 0
  <2>1. n + 1 \in Nat /\ n + 1 = p * (q + 1) + 0 /\ 0 \in 0 .. p - 1 /\ q + 1 \in Int
    BY <1>1, <1>2, <1>3, <1>4
  <2> DEFINE k == q + 1
             m == n + 1
             z == 0
  <2>2. m \in Nat /\ m = p * k + z /\ z \in 0 .. p - 1 /\ k \in Int
    BY <2>1
  <2> HIDE DEF k, m, z
  <2>3. m % p = z
    BY <1>1, <2>2, ModOf
  <2> QED BY <2>3 DEF m, z
<1>5. ASSUME u # p - 1 PROVE (n + 1) % p = u + 1
  <2> DEFINE m == n + 1
             z == u + 1
  <2>1. m \in Nat /\ m = p * q + z /\ z \in 0 .. p - 1
    BY <1>1, <1>2, <1>3, <1>5
  <2> HIDE DEF m, z
  <2>2. m % p = z
    BY <1>1, <1>2, <2>1, ModOf
  <2> QED BY <2>2 DEF m, z
<1> QED BY <1>2, <1>4, <1>5 DEF p, u, Offsets

\* What the adapter has accepted of a message is at most what has arrived of it.
LEMMA AcceptedOffset ==
    ASSUME NEW c \in Clients, RecvInv(c), NEW psn \in Nat, Accepts(c, psn),
           RecvsDone(c) \in Int, Len(result[c]) \in Nat, expectedPsn[c] \in Nat
    PROVE  PktsPerChunk * RecvsDone(c) + (psn % PktsPerChunk) <= Len(result[c])
<1>1. PktsPerChunk * RecvsDone(c) + Progress(c) <= Len(result[c])
  BY DEF RecvInv
<1>2. CASE ~dropping[c] /\ psn = expectedPsn[c]
  BY <1>1, <1>2 DEF Progress
<1>3. CASE psn % PktsPerChunk = 0
  <2>1. Progress(c) \in Nat
    BY NextOffset DEF Progress, Offsets
  <2>2. PktsPerChunk * RecvsDone(c) \in Int
    BY ChunkMultiples
  <2> QED BY <1>1, <1>3, <2>1, <2>2
<1> QED BY <1>2, <1>3 DEF Accepts

\* Receive: a result fills the buffer at the head of the receive queue, the last
\* one of a message takes it from the queue.
LEMMA ReceivePsn ==
    ASSUME TypeOK, RingInv, ClientsInv, NEW c \in Clients, Receive(c)
    PROVE  ClientsInv'
<1> DEFINE pkt == Head(down[c])
           psn == pkt.psn
           offset == psn % PktsPerChunk
           entry == Head(rq[c])
           takes == Accepts(c, psn) /\ rq[c] # <<>>
<1>1. /\ down[c] # <<>>
      /\ result' = [result EXCEPT ![c] = Append(@, pkt)]
      /\ dropping' = [dropping EXCEPT ![c] = ~takes]
      /\ IF takes
         THEN /\ recvBuf' = [recvBuf EXCEPT ![c][entry][offset] =
                                [low |-> pkt.low, high |-> pkt.high]]
              /\ expectedPsn' = [expectedPsn EXCEPT ![c] = psn + 1]
         ELSE UNCHANGED <<recvBuf, expectedPsn>>
      /\ IF takes /\ offset = PktsPerChunk - 1
         THEN rq' = [rq EXCEPT ![c] = Tail(@)]
         ELSE UNCHANGED rq
      /\ UNCHANGED <<call, sendPos, ringPos, ring, posting, sendBuf, dbuf, sq, losses>>
      /\ UNCHANGED sent
  BY DEF Receive, Deliver, callVars
<1>2. /\ ClientTypes /\ CallInv(c) /\ SendInv(c) /\ RecvInv(c)
  BY DEF ClientsInv
<1>3. /\ pkt \in Packets /\ psn \in 0 .. MaxPsn - 1 /\ psn \in Nat
      /\ pkt.low \in Payloads /\ pkt.high \in Payloads
      /\ MaxPsn \in Nat
  <2>1. down[c] \in Seq(Packets)
    BY DEF TypeOK
  <2>2. pkt \in Packets
    BY <1>1, <2>1, HeadTail
  <2> HIDE DEF pkt
  <2> QED BY <2>2, FabricAssumption DEF Packets, Psns
<1>4. /\ offset \in Offsets
      /\ offset = PktsPerChunk - 1 => (psn + 1) % PktsPerChunk = 0
      /\ offset # PktsPerChunk - 1 => (psn + 1) % PktsPerChunk = offset + 1
  <2> HIDE DEF pkt
  <2> QED BY <1>3, NextOffset
<1> HIDE DEF pkt, psn, offset
<1>5. takes => entry \in Ring
  <2>1. rq[c] \in Seq(Ring)
    BY RingFacts
  <2> QED BY <2>1, HeadTail
<1>6. ClientTypes'
  <2>1. recvBuf' \in [Clients -> [Ring -> Buffers]]
    <3>1. CASE takes
      <4> DEFINE data == [low |-> pkt.low, high |-> pkt.high]
      <4>1. data \in [low : Payloads, high : Payloads]
        BY <1>3
      <4>2. recvBuf[c] \in [Ring -> Buffers] /\ recvBuf[c][entry] \in Buffers
        BY <1>2, <1>5, <3>1 DEF ClientTypes
      <4> HIDE DEF data
      <4>3. [recvBuf[c][entry] EXCEPT ![offset] = data] \in Buffers
        BY <4>1, <4>2 DEF Buffers
      <4>4. [recvBuf[c] EXCEPT ![entry] = [recvBuf[c][entry] EXCEPT ![offset] = data]]
              \in [Ring -> Buffers]
        BY <4>2, <4>3
      <4>5. recvBuf' = [recvBuf EXCEPT ![c] =
              [recvBuf[c] EXCEPT ![entry] = [recvBuf[c][entry] EXCEPT ![offset] = data]]]
        BY <1>1, <3>1 DEF data
      <4>6. recvBuf \in [Clients -> [Ring -> Buffers]]
        BY <1>2 DEF ClientTypes
      <4> QED BY <4>4, <4>5, <4>6
    <3>2. CASE ~takes
      BY <1>1, <1>2, <3>2 DEF ClientTypes
    <3> QED BY <3>1, <3>2
  <2>2. expectedPsn' \in [Clients -> 0 .. MaxPsn]
    <3>1. psn + 1 \in 0 .. MaxPsn
      BY <1>3
    <3> QED BY <1>1, <1>2, <3>1 DEF ClientTypes
  <2>3. dropping' \in [Clients -> BOOLEAN]
    BY <1>1, <1>2 DEF ClientTypes, Accepts
  <2> QED BY <1>1, <1>2, <2>1, <2>2, <2>3 DEF ClientTypes
<1>7. ASSUME NEW d \in Clients PROVE CallInv(d)' /\ SendInv(d)' /\ Filled(d)' = Filled(d)
  <2>1. CallInv(d) /\ SendInv(d)
    BY DEF ClientsInv
  <2> QED BY <1>1, <2>1, CallKept, SendKept
<1>8. ASSUME NEW d \in Clients, d # c PROVE RecvInv(d)'
  <2>1. /\ result'[d] = result[d] /\ dropping'[d] = dropping[d]
        /\ rq'[d] = rq[d] /\ expectedPsn'[d] = expectedPsn[d]
    <3>1. result'[d] = result[d]
      BY <1>1, <1>8 DEF TypeOK
    <3>2. rq'[d] = rq[d]
      BY <1>1, <1>8 DEF RingInv, RingTypes
    <3>3. dropping'[d] = dropping[d] /\ expectedPsn'[d] = expectedPsn[d]
      BY <1>1, <1>2, <1>8 DEF ClientTypes
    <3> QED BY <3>1, <3>2, <3>3
  <2>2. RecvInv(d) /\ Filled(d)' = Filled(d)
    BY <1>7 DEF ClientsInv
  <2> QED BY <1>1, <2>1, <2>2, RecvKept, RingFacts
<1> DEFINE n == RecvsDone(c)
           l == Len(result[c])
<1>9. /\ l \in Nat /\ Len(result'[c]) = l + 1
  <2>1. result[c] \in Seq(Packets) /\ result'[c] = Append(result[c], pkt)
    BY <1>1 DEF TypeOK
  <2> QED BY <1>3, <2>1, AppendFacts, LenProperties
<1>10. /\ RecvsPosted(c)' = RecvsPosted(c) /\ RecvsPosted(c) = n + Len(rq[c])
       /\ n \in Nat /\ Len(rq[c]) \in Nat
  <2>1. Filled(c) \in Nat /\ Len(rq[c]) \in Nat
    BY <1>2, FilledFacts, RingFacts
  <2>2. RecvsPosted(c) \in Int
    BY <2>1 DEF RecvsPosted
  <2>3. RecvsPosted(c)' = RecvsPosted(c)
    BY <1>1, <1>7 DEF RecvsPosted
  <2>4. n = RecvsPosted(c) - Len(rq[c])
    BY DEF RecvsDone
  <2>5. n >= 0
    BY <1>2 DEF RecvInv
  <2> HIDE DEF n
  <2> QED BY <2>1, <2>2, <2>3, <2>4, <2>5
<1>11. /\ PktsPerChunk \in Nat \ {0} /\ PktsPerChunk * n \in Int
       /\ PktsPerChunk * (n + 1) = PktsPerChunk * n + PktsPerChunk
  <2> HIDE DEF n
  <2> QED BY <1>10, ChunkMultiples
<1>12. takes => PktsPerChunk * n + offset <= l
  <2>1. expectedPsn[c] \in Nat
    BY <1>2, <1>3 DEF ClientTypes
  <2> QED BY <1>2, <1>3, <1>9, <1>10, <2>1, AcceptedOffset DEF offset
<1>13. PktsPerChunk * n <= l
  <2>1. PktsPerChunk * n + Progress(c) <= l /\ Progress(c) \in Nat
    <3>1. expectedPsn[c] \in Nat
      BY <1>2, <1>3 DEF ClientTypes
    <3> QED BY <1>2, <3>1, NextOffset DEF RecvInv, Progress, Offsets
  <2> HIDE DEF n, l
  <2> QED BY <1>9, <1>11, <2>1
<1>14. posting'[c] = posting[c] /\ ring' = ring /\ ringPos'[c] = ringPos[c]
  BY <1>1
<1>15. CASE takes /\ offset = PktsPerChunk - 1
  <2>1. rq'[c] = Tail(rq[c]) /\ rq[c] # <<>>
    BY <1>1, <1>15 DEF RingInv, RingTypes
  <2>2. /\ Len(rq[c]) \in Nat \ {0} /\ Len(rq'[c]) = Len(rq[c]) - 1
        /\ \A k \in 1 .. Len(rq'[c]) : rq'[c][k] = rq[c][k + 1]
    BY <2>1, RingFacts, HeadTail
  <2>3. RecvsDone(c)' = n + 1
    <3> DEFINE posted == RecvsPosted(c)'
               left == Len(rq'[c])
               r == Len(rq[c])
    <3>1. RecvsDone(c)' = posted - left
      BY DEF RecvsDone
    <3>2. posted = n + r /\ left = r - 1 /\ r \in Nat /\ n \in Nat
      BY <1>10, <2>2
    <3> HIDE DEF n, posted, left, r
    <3> QED BY <3>1, <3>2
  <2>4. Progress(c)' = 0
    <3>1. expectedPsn'[c] = psn + 1 /\ (psn + 1) % PktsPerChunk = 0
      BY <1>1, <1>2, <1>4, <1>15 DEF ClientTypes
    <3> QED BY <3>1 DEF Progress
  <2>5. PktsPerChunk * (n + 1) + 0 <= l + 1
    <3> HIDE DEF n, l
    <3> QED BY <1>9, <1>10, <1>11, <1>12, <1>15
  <2>6. ASSUME NEW k \in 1 .. Len(rq'[c])
        PROVE  ring'[c][rq'[c][k]].chunk = (n + 1) + k - 1
    <3>1. k + 1 \in 1 .. Len(rq[c])
      BY <2>2
    <3>2. ring[c][rq[c][k + 1]].chunk = n + (k + 1) - 1
      BY <1>2, <3>1 DEF RecvInv
    <3> HIDE DEF n
    <3>3. n + (k + 1) - 1 = (n + 1) + k - 1
      BY <1>10, <3>1
    <3> QED BY <1>14, <2>2, <3>2, <3>3
  <2>7. Len(posting'[c]) = 2 => ring'[c][ringPos'[c]].chunk = Filled(c)' - 1
    BY <1>2, <1>7, <1>14 DEF RecvInv
  <2>8. n + 1 >= 0
    <3> HIDE DEF n
    <3> QED BY <1>10
  <2> HIDE DEF n, l
  <2>9. RecvInv(c)'
    BY <1>9, <2>3, <2>4, <2>5, <2>6, <2>7, <2>8 DEF RecvInv
  <2> QED BY <1>6, <1>7, <1>8, <2>9 DEF ClientsInv
<1>16. CASE ~(takes /\ offset = PktsPerChunk - 1)
  <2>1. rq'[c] = rq[c] /\ RecvsDone(c)' = n
    BY <1>1, <1>10, <1>16 DEF RecvsDone
  <2>2. ASSUME takes PROVE PktsPerChunk * n + Progress(c)' <= l + 1
    <3>1. offset # PktsPerChunk - 1
      BY <1>16, <2>2
    <3>2. Progress(c)' = offset + 1
      <4>1. expectedPsn'[c] = psn + 1 /\ dropping'[c] = FALSE
        BY <1>1, <1>2, <2>2 DEF ClientTypes
      <4> QED BY <1>4, <3>1, <4>1 DEF Progress
    <3>3. PktsPerChunk * n + (offset + 1) <= l + 1
      <4>1. offset \in Nat
        BY <1>4 DEF Offsets
      <4> HIDE DEF n, l
      <4> QED BY <1>9, <1>11, <1>12, <2>2, <4>1
    <3> QED BY <3>2, <3>3
  <2>3. ASSUME ~takes PROVE PktsPerChunk * n + Progress(c)' <= l + 1
    <3>1. Progress(c)' = 0
      <4>1. dropping'[c] = TRUE
        BY <1>1, <1>2, <2>3 DEF ClientTypes
      <4> QED BY <4>1 DEF Progress
    <3>2. PktsPerChunk * n + 0 <= l + 1
      <4> HIDE DEF n, l
      <4> QED BY <1>9, <1>11, <1>13
    <3> QED BY <3>1, <3>2
  <2>4. PktsPerChunk * n + Progress(c)' <= l + 1
    BY <2>2, <2>3
  <2>5. \A k \in 1 .. Len(rq'[c]) : ring'[c][rq'[c][k]].chunk = n + k - 1
    BY <1>2, <1>14, <2>1 DEF RecvInv
  <2>6. Len(posting'[c]) = 2 => ring'[c][ringPos'[c]].chunk = Filled(c)' - 1
    BY <1>2, <1>7, <1>14 DEF RecvInv
  <2>7. n >= 0
    BY <1>2 DEF RecvInv
  <2> HIDE DEF n, l
  <2>8. RecvInv(c)'
    BY <1>9, <2>1, <2>4, <2>5, <2>6, <2>7 DEF RecvInv
  <2> QED BY <1>6, <1>7, <1>8, <2>8 DEF ClientsInv
<1> QED BY <1>15, <1>16

-----------------------------------------------------------------------------
(* What the clients do is what the fabric allows them. *)

\* A client's requests fit the window: so do its packets without a result.
LEMMA WindowKept ==
    ASSUME RingInv, ClientsInv, TypeOK, NEW c \in Clients
    PROVE  /\ SendsPosted(c) \in Int
           /\ SendsPosted(c) <= TotalChunks
           /\ SendsPosted(c) <= RecvsDone(c) + Len(rq[c])
           /\ PktsPerChunk * SendsPosted(c) <= MaxPsn
           /\ PktsPerChunk * SendsPosted(c) <= Len(result[c]) + Slots
           /\ RecvsDone(c) \in Nat
           /\ PktsPerChunk * RecvsDone(c) <= Len(result[c])
<1>1. /\ ClientTypes /\ CallInv(c) /\ RecvInv(c)
  BY DEF ClientsInv
<1>2. Filled(c) \in Nat /\ Filled(c) <= TotalChunks
  BY <1>1, FilledFacts
<1>3. posting[c] \in {<<>>, <<"send">>, <<"recv", "send">>} /\ Len(rq[c]) \in Nat
  BY RingFacts
<1>4. SendsPosted(c) \in Int /\ RecvsPosted(c) \in Int /\ SendsPosted(c) <= Filled(c)
  BY <1>2 DEF SendsPosted, RecvsPosted
<1>5. SendsPosted(c) <= RecvsPosted(c)
  <2>1. CASE posting[c] = <<>>
    <3>1. Len(posting[c]) = 0
      BY <2>1
    <3> QED BY <1>2, <2>1, <3>1 DEF SendsPosted, RecvsPosted
  <2>2. CASE posting[c] # <<>>
    BY <1>2, <2>2 DEF SendsPosted, RecvsPosted
  <2> QED BY <2>1, <2>2
<1>6. RecvsDone(c) \in Nat /\ RecvsPosted(c) = RecvsDone(c) + Len(rq[c])
  <2>1. RecvsDone(c) = RecvsPosted(c) - Len(rq[c]) /\ RecvsDone(c) >= 0
    BY <1>1 DEF RecvsDone, RecvInv
  <2> DEFINE done == RecvsDone(c)
             total == RecvsPosted(c)
  <2>2. done = total - Len(rq[c]) /\ done >= 0 /\ total \in Int
    BY <1>4, <2>1
  <2> HIDE DEF done, total
  <2>3. done \in Nat /\ total = done + Len(rq[c])
    BY <1>3, <2>2
  <2> QED BY <2>3 DEF done, total
<1>7. Len(rq[c]) <= Window
  <2>1. /\ rq[c] \in Seq(Ring) /\ cq[c] \in Seq(Completion)
        /\ PlacesInv(c)
    BY RingFacts DEF RingInv
  <2>2. Cardinality({k \in 1 .. Len(cq[c]) : cq[c][k].kind = "recv"}) \in Nat
        /\ Len(rq[c]) + Cardinality({k \in 1 .. Len(cq[c]) : cq[c][k].kind = "recv"}) <= Window
    BY <2>1, KindFits DEF PlacesInv
  <2> QED BY <1>3, <2>2, SystemAssumption
<1>8. PktsPerChunk * RecvsDone(c) <= Len(result[c])
  <2>1. PktsPerChunk * RecvsDone(c) + Progress(c) <= Len(result[c])
    BY <1>1 DEF RecvInv
  <2>2. Progress(c) \in Nat
    <3>1. expectedPsn[c] \in Nat
      BY <1>1, FabricAssumption DEF ClientTypes
    <3> QED BY <3>1, NextOffset DEF Progress, Offsets
  <2>3. Len(result[c]) \in Nat /\ PktsPerChunk * RecvsDone(c) \in Int
    BY <1>6, ChunkMultiples DEF TypeOK
  <2> QED BY <2>1, <2>2, <2>3
<1> DEFINE p == PktsPerChunk
           posted == SendsPosted(c)
           done == RecvsDone(c)
           l == Len(result[c])
<1>9. p * posted <= MaxPsn
  <2>1. posted <= TotalChunks /\ posted \in Int
    BY <1>2, <1>4, TotalFacts
  <2> HIDE DEF posted
  <2>2. p * posted <= p * TotalChunks
    BY <2>1, TotalFacts, ChunkMultiples
  <2> QED BY <2>2, TotalFacts
<1>10. p * posted <= l + Slots
  <2>1. /\ posted <= done + Window /\ Window \in Nat
        /\ posted \in Int /\ done \in Nat
    BY <1>3, <1>4, <1>5, <1>6, <1>7, SystemAssumption
  <2>2. p * posted <= p * (done + Window) /\ p * (done + Window) = p * done + p * Window
        /\ p * posted \in Int /\ p * done \in Int /\ p * Window \in Int
    <3> HIDE DEF posted, done
    <3> QED BY <2>1, ChunkMultiples
  <2>3. p * Window <= Slots /\ Slots \in Nat
    BY SystemAssumption, FabricAssumption
  <2>4. l \in Nat
    BY DEF TypeOK
  <2> HIDE DEF p, posted, done, l
  <2> QED BY <1>8, <2>2, <2>3, <2>4 DEF p, done, l
<1> QED BY <1>2, <1>4, <1>5, <1>6, <1>8, <1>9, <1>10, TotalFacts

\* A packet that leaves a send buffer is the one the fabric expects: the next of
\* the client, with its contribution, inside the window.
LEMMA TransmitInject ==
    ASSUME TypeOK, RingInv, ClientsInv, NEW c \in Clients, Transmit(c)
    PROVE  Inject(c)
<1> DEFINE entry == Head(sq[c])
           term == sendBuf[c][entry] * PktsPerChunk + (sent[c] % PktsPerChunk)
           pkt == [Partial({c}, term) EXCEPT !.psn = sent[c]]
           n == SendsDone(c)
           p == PktsPerChunk
           s == sent[c]
<1>1. sq[c] # <<>> /\ Send(c, pkt)
  BY DEF Transmit
<1>2. SendInv(c)
  BY DEF ClientsInv
<1>3. /\ n \in Nat /\ s \in Nat /\ s = p * n + (s % p)
  BY NextPsn
<1>4. Len(sq[c]) \in Nat \ {0} /\ entry = sq[c][1]
  BY <1>1, RingFacts, HeadTail
<1>5. sendBuf[c][entry] = n
  <2>1. 1 \in 1 .. Len(sq[c])
    BY <1>4
  <2>2. sendBuf[c][sq[c][1]] = n + 1 - 1
    BY <1>2, <2>1 DEF SendInv
  <2> HIDE DEF n, entry
  <2> QED BY <1>3, <1>4, <2>2
<1>6. pkt = Partial({c}, s)
  <2>1. n * p = p * n
    <3> HIDE DEF n
    <3> QED BY <1>3, SystemAssumption DEF p
  <2>2. term = s
    BY <1>3, <1>5, <2>1
  <2>3. pkt = [Partial({c}, s) EXCEPT !.psn = s]
    BY <2>2
  <2> HIDE DEF pkt, s
  <2> QED BY <2>3 DEF Partial
<1>7. s < MaxPsn /\ s < Len(result[c]) + Slots
  <2> DEFINE posted == SendsPosted(c)
             l == Len(result[c])
  <2>1. posted \in Int /\ p * posted <= MaxPsn /\ p * posted <= l + Slots
    BY WindowKept
  <2>2. n = posted - Len(sq[c])
    BY DEF SendsDone
  <2>3. s < p * (n + 1)
    BY <1>2 DEF SendInv
  <2>4. l \in Nat /\ Slots \in Nat /\ MaxPsn \in Nat
    BY FabricAssumption DEF TypeOK
  <2> HIDE DEF n, posted, l
  <2>5. n + 1 <= posted
    BY <1>3, <1>4, <2>1, <2>2
  <2>6. p * (n + 1) <= p * posted /\ p * (n + 1) \in Int /\ p * posted \in Int
    BY <1>3, <2>1, <2>5, ChunkMultiples
  <2> HIDE DEF p, s
  <2>7. s < MaxPsn /\ s < l + Slots
    BY <1>3, <2>1, <2>3, <2>4, <2>6
  <2> QED BY <2>7 DEF l
<1> QED BY <1>1, <1>6, <1>7 DEF Inject, CanSend


\* The switch and the losses touch nothing of the clients.
LEMMA ClientsUntouched ==
    ASSUME ClientsInv, RingInv, losses' \in 0 .. MaxLosses,
           UNCHANGED <<sent, result, callVars, adapterVars>>
    PROVE  ClientsInv'
<1>1. UNCHANGED <<sent, result, call, sendPos, ringPos, ring, posting, sendBuf, dbuf,
                  recvBuf, sq, rq, cq, expectedPsn, dropping>>
  BY DEF callVars, adapterVars
<1>2. ClientTypes'
  BY <1>1 DEF ClientTypes, ClientsInv
<1>3. ASSUME NEW d \in Clients PROVE CallInv(d)' /\ SendInv(d)' /\ RecvInv(d)'
  <2>1. CallInv(d) /\ SendInv(d) /\ RecvInv(d)
    BY DEF ClientsInv
  <2> QED BY <1>1, <2>1, CallKept, SendKept, RecvKept, RingFacts
<1> QED BY <1>2, <1>3 DEF ClientsInv

\* A step that loses nothing is a step of the fabric, or none.
LEMMA StepOfFabric ==
    ASSUME PsnInv, RingInv, [SystemNext]_systemVars, losses' = losses
    PROVE  [FabricNext]_fabricVars
<1>1. CASE SwitchStep
  BY <1>1 DEF SwitchStep, FabricNext
<1>2. ASSUME NEW c \in Clients, Transmit(c) PROVE [FabricNext]_fabricVars
  BY <1>2, TransmitInject DEF PsnInv, FabricNext
<1>3. ASSUME NEW c \in Clients, Receive(c) PROVE [FabricNext]_fabricVars
  BY <1>3 DEF Receive, FabricNext
<1>4. ASSUME NEW c \in Clients, Fill(c) \/ PostRequest(c) \/ Poll(c) \/ Return(c)
      PROVE  [FabricNext]_fabricVars
  BY <1>4 DEF Fill, PostRequest, Poll, Return
<1>5. ASSUME NEW c \in Clients, Lose(c) PROVE FALSE
  BY <1>5 DEF Lose, ClientTypes, PsnInv, ClientsInv
<1>6. CASE AllReturned \/ UNCHANGED systemVars
  BY <1>6 DEF AllReturned, systemVars
<1> QED BY <1>1, <1>2, <1>3, <1>4, <1>5, <1>6 DEF SystemNext

\* A lost packet leaves the types of the fabric.
LEMMA LoseType ==
    ASSUME TypeOK, NEW c \in Clients, Lose(c)
    PROVE  TypeOK'
<1>1. CASE link[c] # <<>> /\ link' = [link EXCEPT ![c] = Tail(@)] /\ UNCHANGED down
  <2>1. link[c] \in Seq(Packets)
    BY DEF TypeOK, Inputs
  <2>2. Tail(link[c]) \in Seq(Packets)
    BY <1>1, <2>1, HeadTail
  <2> QED BY <1>1, <2>2 DEF TypeOK, Lose
<1>2. CASE down[c] # <<>> /\ down' = [down EXCEPT ![c] = Tail(@)] /\ UNCHANGED link
  <2>1. down[c] \in Seq(Packets)
    BY DEF TypeOK
  <2>2. Tail(down[c]) \in Seq(Packets)
    BY <1>2, <2>1, HeadTail
  <2> QED BY <1>2, <2>2 DEF TypeOK, Lose
<1> QED BY <1>1, <1>2 DEF Lose

\* Every step keeps the invariant.
LEMMA PsnStep ==
    ASSUME PsnInv, RingInv, [SystemNext]_systemVars
    PROVE  PsnInv'
<1> USE DEF PsnInv
<1>1. CASE SwitchStep
  <2>1. losses' = losses /\ UNCHANGED <<sent, result, callVars, adapterVars>>
    BY <1>1 DEF SwitchStep, Switch, Aggregate, Clear
  <2>2. ClientsInv'
    BY <2>1, ClientsUntouched DEF ClientsInv, ClientTypes
  <2> QED BY <2>1, <2>2, StepOfFabric, TypeStep
<1>2. ASSUME NEW c \in Clients, Lose(c) PROVE PsnInv'
  <2>1. losses' \in 0 .. MaxLosses /\ UNCHANGED <<sent, result, callVars, adapterVars>>
    BY <1>2, SystemAssumption DEF Lose, ClientsInv, ClientTypes
  <2> QED BY <1>2, <2>1, ClientsUntouched, LoseType
<1>3. ASSUME NEW c \in Clients,
             Fill(c) \/ PostRequest(c) \/ Poll(c) \/ Return(c) \/ Transmit(c) \/ Receive(c)
      PROVE  PsnInv'
  <2>1. losses' = losses
    BY <1>3 DEF Fill, PostRequest, Poll, Return, Transmit, Receive
  <2> QED BY <1>3, <2>1, StepOfFabric, TypeStep, FillPsn, PostPsn, PollPsn, ReturnPsn,
             TransmitPsn, ReceivePsn
<1>4. CASE AllReturned \/ UNCHANGED systemVars
  <2>1. losses' = losses /\ UNCHANGED fabricVars
        /\ UNCHANGED <<sent, result, callVars, adapterVars>>
    BY <1>4 DEF AllReturned, systemVars, fabricVars
  <2>2. ClientsInv'
    BY <2>1, ClientsUntouched DEF ClientsInv, ClientTypes
  <2> QED BY <2>1, <2>2, TypeStep
<1> QED BY <1>1, <1>2, <1>3, <1>4 DEF SystemNext

\* No chunk has been begun: SystemInit.
LEMMA InitPsn == SystemInit => PsnInv
<1> SUFFICES ASSUME SystemInit PROVE PsnInv
  OBVIOUS
<1>1. TypeOK
  BY TypeInit DEF SystemInit
<1>2. ClientTypes
  <2>1. NoData \in [low : Payloads, high : Payloads]
    BY DEF NoData, Zero, Payloads
  <2>2. FreshBuffer \in Buffers
    BY <2>1 DEF FreshBuffer, Buffers
  <2>3. recvBuf \in [Clients -> [Ring -> Buffers]] /\ dbuf \in [Clients -> [Chunks -> Buffers]]
    BY <2>2 DEF SystemInit
  <2>4. FreshRing \in [Ring -> [status : Int, chunk : Chunks \cup {NoChunk}]]
    BY DEF FreshRing
  <2>5. Len(Calls) \in Nat /\ MaxPsn \in Nat /\ MaxLosses \in Nat
    BY SystemAssumption, FabricAssumption
  <2>6. /\ call \in [Clients -> 1 .. Len(Calls) + 1]
        /\ sendPos \in [Clients -> Nat]
        /\ ring \in [Clients -> [Ring -> [status : Int, chunk : Chunks \cup {NoChunk}]]]
    BY <2>4, <2>5 DEF SystemInit
  <2>7. /\ sendBuf \in [Clients -> [Ring -> Chunks \cup {NoChunk}]]
        /\ expectedPsn \in [Clients -> 0 .. MaxPsn]
        /\ dropping \in [Clients -> BOOLEAN]
        /\ losses \in 0 .. MaxLosses
    BY <2>5 DEF SystemInit
  <2> QED BY <2>3, <2>6, <2>7 DEF ClientTypes
<1>3. ASSUME NEW c \in Clients PROVE CallInv(c) /\ SendInv(c) /\ RecvInv(c)
  <2>1. /\ call[c] = 1 /\ sendPos[c] = 0 /\ posting[c] = <<>> /\ sq[c] = <<>> /\ rq[c] = <<>>
        /\ expectedPsn[c] = 0 /\ dropping[c] = FALSE /\ sent[c] = 0 /\ result[c] = <<>>
    BY DEF SystemInit, FabricInit
  <2>2. Filled(c) = 0
    BY <2>1, ChunksBeforeDef DEF Filled
  <2>3. SendsDone(c) = 0 /\ RecvsDone(c) = 0
    <3>1. Len(posting[c]) = 0 /\ Len(sq[c]) = 0 /\ Len(rq[c]) = 0
      BY <2>1
    <3>2. SendsPosted(c) = 0
      BY <2>1, <2>2 DEF SendsPosted
    <3>3. RecvsPosted(c) = 0
      BY <2>2, <3>1 DEF RecvsPosted
    <3> QED BY <3>1, <3>2, <3>3 DEF SendsDone, RecvsDone
  <2>4. 0 % PktsPerChunk = 0
    BY SystemAssumption
  <2>5. Progress(c) = 0
    BY <2>1, <2>4 DEF Progress
  <2>6. PktsPerChunk * 0 = 0 /\ 0 < PktsPerChunk * (0 + 1)
    BY ChunkMultiples
  <2>7. CallInv(c)
    <3>1. InCall(c) => call[c] \in 1 .. Len(Calls)
      BY <2>1, SystemAssumption DEF InCall
    <3>2. InCall(c) => Calls[call[c]] \in Nat
      BY <3>1, ChunksOfCall
    <3> QED BY <2>1, <3>2 DEF CallInv
  <2>8. SendInv(c)
    BY <2>1, <2>3, <2>6 DEF SendInv
  <2>9. RecvInv(c)
    BY <2>1, <2>3, <2>5, <2>6 DEF RecvInv
  <2> QED BY <2>7, <2>8, <2>9
<1> QED BY <1>1, <1>2, <1>3 DEF PsnInv, ClientsInv

\* The queues hold consecutive chunks and PSNs continue over all calls, whatever
\* is lost.
THEOREM PsnsAreConsecutive == SystemSpec => []PsnInv
BY RingInvariance, InitPsn, PsnStep, PTL DEF SystemSpec

\* The client library is an implementation of what the fabric expects of clients:
\* every packet is the next one, with the client's own contribution, and there
\* are never more than Slots packets without a result - in every step that is
\* not itself a loss, whatever was lost before (allreduce's ring, req_in_flight).
THEOREM ClientsImplementFabric == SystemSpec => ImplementsFabric
<1>1. PsnInv /\ RingInv /\ [SystemNext]_systemVars
        => [losses' = losses => FabricNext]_fabricVars
  BY StepOfFabric
<1>2. SystemInit => FabricInit
  BY DEF SystemInit
<1> QED BY <1>1, <1>2, PsnsAreConsecutive, RingInvariance, PTL
        DEF SystemSpec, ImplementsFabric

-----------------------------------------------------------------------------
(* Types. *)

\* What is posted, completed or to be posted fits the ring, twice.
LEMMA OutstandingFits ==
    ASSUME RingInv, NEW c \in Clients
    PROVE  outstanding[c] \in 0 .. 2 * Window
<1> DEFINE S == {k \in 1 .. Len(cq[c]) : cq[c][k].kind = "send"}
           R == {k \in 1 .. Len(cq[c]) : cq[c][k].kind = "recv"}
<1>1. /\ PlacesInv(c) /\ CountsInv(c)
      /\ sq[c] \in Seq(Ring) /\ rq[c] \in Seq(Ring) /\ cq[c] \in Seq(Completion)
      /\ Len(sq[c]) \in Nat /\ Len(rq[c]) \in Nat /\ ringPos[c] \in Ring
      /\ posting[c] \in {<<>>, <<"send">>, <<"recv", "send">>}
  BY RingFacts DEF RingInv
<1>2. Len(cq[c]) = Cardinality(S) + Cardinality(R)
  BY <1>1, KindsSplit
<1>3. /\ Distinct(sq[c]) /\ Distinct(rq[c]) /\ Distinct(cq[c])
      /\ \A i \in Ring : ~(In(sq[c], i) /\ In(cq[c], Wc("send", i)))
      /\ \A i \in Ring : ~(In(rq[c], i) /\ In(cq[c], Wc("recv", i)))
  BY <1>1 DEF PlacesInv
<1>4. /\ Cardinality(S) \in Nat /\ Len(sq[c]) + Cardinality(S) <= Window
      /\ Cardinality(R) \in Nat /\ Len(rq[c]) + Cardinality(R) <= Window
  BY <1>1, <1>3, KindFits
\* The requests to be posted would fit, too.
<1>5. ASSUME posting[c] # <<>> PROVE Len(sq[c]) + 1 + Cardinality(S) <= Window
  <2> DEFINE q == Append(sq[c], ringPos[c])
  <2>1. ~In(sq[c], ringPos[c]) /\ ~In(cq[c], Wc("send", ringPos[c]))
    BY <1>1, <1>5 DEF PlacesInv, SendHeld
  <2>2. q \in Seq(Ring) /\ Distinct(q) /\ Len(q) = Len(sq[c]) + 1
        /\ \A i \in Ring : ~(In(q, i) /\ In(cq[c], Wc("send", i)))
    BY <1>1, <1>3, <2>1, AppendIn
  <2> HIDE DEF q
  <2>3. Len(q) + Cardinality(S) <= Window
    BY <1>1, <1>3, <2>2, KindFits
  <2> QED BY <2>2, <2>3
<1>6. ASSUME Len(posting[c]) = 2 PROVE Len(rq[c]) + 1 + Cardinality(R) <= Window
  <2> DEFINE q == Append(rq[c], ringPos[c])
  <2>1. ~In(rq[c], ringPos[c]) /\ ~In(cq[c], Wc("recv", ringPos[c]))
    BY <1>1, <1>6 DEF PlacesInv, RecvHeld
  <2>2. q \in Seq(Ring) /\ Distinct(q) /\ Len(q) = Len(rq[c]) + 1
        /\ \A i \in Ring : ~(In(q, i) /\ In(cq[c], Wc("recv", i)))
    BY <1>1, <1>3, <2>1, AppendIn
  <2> HIDE DEF q
  <2>3. Len(q) + Cardinality(R) <= Window
    BY <1>1, <1>3, <2>2, KindFits
  <2> QED BY <2>2, <2>3
<1>7. outstanding[c] = Len(sq[c]) + Len(rq[c]) + Len(cq[c]) + Len(posting[c])
  BY <1>1 DEF CountsInv
<1> DEFINE s == Len(sq[c])
           r == Len(rq[c])
           a == Cardinality(S)
           b == Cardinality(R)
           o == outstanding[c]
<1>8. /\ s \in Nat /\ r \in Nat /\ a \in Nat /\ b \in Nat /\ Window \in Nat
      /\ s + a <= Window /\ r + b <= Window /\ o = s + r + (a + b) + Len(posting[c])
  BY <1>1, <1>2, <1>4, <1>7, SystemAssumption
<1>9. CASE posting[c] = <<>>
  <2>1. Len(posting[c]) = 0
    BY <1>9
  <2> HIDE DEF s, r, a, b, o
  <2> QED BY <1>8, <2>1 DEF o
<1>10. CASE posting[c] = <<"send">>
  <2>1. Len(posting[c]) = 1 /\ s + 1 + a <= Window
    BY <1>5, <1>10
  <2> HIDE DEF s, r, a, b, o
  <2> QED BY <1>8, <2>1 DEF o
<1>11. CASE posting[c] = <<"recv", "send">>
  <2>1. Len(posting[c]) = 2 /\ s + 1 + a <= Window /\ r + 1 + b <= Window
    BY <1>5, <1>6, <1>11
  <2> HIDE DEF s, r, a, b, o
  <2> QED BY <1>8, <2>1 DEF o
<1> QED BY <1>1, <1>9, <1>10, <1>11

\* The status of an entry counts at most its two requests.
LEMMA StatusType ==
    ASSUME RingInv, NEW c \in Clients, NEW i \in Ring
    PROVE  ring[c][i].status \in 0 .. 2
<1>1. /\ PlacesInv(c) /\ ringPos[c] \in Ring
      /\ posting[c] \in {<<>>, <<"send">>, <<"recv", "send">>}
      /\ ring[c][i].status = One(SendHeld(c, i)) + One(RecvHeld(c, i)) + Unposted(c, i)
  BY RingFacts DEF RingInv, CountsInv
<1>2. One(SendHeld(c, i)) \in 0 .. 1 /\ One(RecvHeld(c, i)) \in 0 .. 1
  BY DEF One
<1>3. CASE Unposted(c, i) = 0
  BY <1>1, <1>2, <1>3
<1>4. CASE i = ringPos[c] /\ posting[c] = <<"send">>
  <2>1. Unposted(c, i) = 1 /\ One(SendHeld(c, i)) = 0
    BY <1>1, <1>4 DEF Unposted, PlacesInv, One
  <2> QED BY <1>1, <1>2, <2>1
<1>5. CASE i = ringPos[c] /\ posting[c] = <<"recv", "send">>
  <2>1. Unposted(c, i) = 2 /\ One(SendHeld(c, i)) = 0 /\ One(RecvHeld(c, i)) = 0
    BY <1>1, <1>5 DEF Unposted, PlacesInv, One
  <2> QED BY <1>1, <2>1
<1>6. CASE i = ringPos[c] /\ posting[c] = <<>>
  <2>1. Len(posting[c]) = 0
    BY <1>6
  <2> QED BY <1>3, <1>6, <2>1 DEF Unposted
<1>7. CASE i # ringPos[c]
  BY <1>3, <1>7 DEF Unposted
<1> QED BY <1>1, <1>4, <1>5, <1>6, <1>7

\* Type correctness of clients, adapters and fabric, whatever is lost: no counter
\* of the client library leaves its range, and no chunk outside the calls is ever
\* named by the ring or a buffer.
THEOREM SystemTypes == SystemSpec => []SystemTypeOK
<1>1. PsnInv /\ RingInv => SystemTypeOK
  <2> SUFFICES ASSUME PsnInv, RingInv PROVE SystemTypeOK
    OBVIOUS
  <2>1. TypeOK /\ ClientTypes /\ RingTypes
    BY DEF PsnInv, ClientsInv, RingInv
  <2>2. sendPos \in [Clients -> 0 .. TotalChunks]
    <3>1. ASSUME NEW c \in Clients PROVE sendPos[c] \in 0 .. TotalChunks
      <4>1. CallInv(c) /\ Filled(c) <= TotalChunks /\ TotalChunks \in Nat
        BY <2>1, FilledFacts, TotalFacts DEF PsnInv, ClientsInv
      <4>2. call[c] - 1 \in 0 .. Len(Calls) /\ sendPos[c] \in Nat
        BY <2>1, SystemAssumption DEF ClientTypes
      <4>3. ChunksBefore[call[c] - 1] \in Nat
        BY <4>2, ChunksBeforeDef
      <4> QED BY <4>1, <4>2, <4>3 DEF Filled
    <3> QED BY <2>1, <3>1 DEF ClientTypes
  <2>3. outstanding \in [Clients -> 0 .. 2 * Window]
    BY <2>1, OutstandingFits DEF RingTypes
  <2>4. ring \in [Clients -> [Ring -> [status : 0 .. 2, chunk : Chunks \cup {NoChunk}]]]
    <3>1. ASSUME NEW c \in Clients
          PROVE  ring[c] \in [Ring -> [status : 0 .. 2, chunk : Chunks \cup {NoChunk}]]
      <4>1. ring[c] \in [Ring -> [status : Int, chunk : Chunks \cup {NoChunk}]]
        BY <2>1 DEF ClientTypes
      <4>2. \A i \in Ring : ring[c][i].status \in 0 .. 2
        BY StatusType
      <4> QED BY <4>1, <4>2
    <3> QED BY <2>1, <3>1 DEF ClientTypes
  <2>5. posting \in [Clients -> Seq({"recv", "send"})]
    <3>1. {<<>>, <<"send">>, <<"recv", "send">>} \in SUBSET Seq({"recv", "send"})
      OBVIOUS
    <3> QED BY <2>1, <3>1 DEF RingTypes
  <2>6. /\ ringPos \in [Clients -> Ring]
        /\ sq \in [Clients -> Seq(Ring)] /\ rq \in [Clients -> Seq(Ring)]
        /\ cq \in [Clients -> Seq([kind : {"send", "recv"}, entry : Ring])]
    BY <2>1 DEF RingTypes, Completion
  <2>7. /\ call \in [Clients -> 1 .. Len(Calls) + 1]
        /\ sendBuf \in [Clients -> [Ring -> Chunks \cup {NoChunk}]]
        /\ recvBuf \in [Clients -> [Ring -> [Offsets -> [low : Payloads, high : Payloads]]]]
        /\ dbuf \in [Clients -> [Chunks -> [Offsets -> [low : Payloads, high : Payloads]]]]
        /\ expectedPsn \in [Clients -> 0 .. MaxPsn]
        /\ dropping \in [Clients -> BOOLEAN]
        /\ losses \in 0 .. MaxLosses
    BY <2>1 DEF ClientTypes, Buffers
  <2> QED BY <2>1, <2>2, <2>3, <2>4, <2>5, <2>6, <2>7 DEF SystemTypeOK
<1> QED BY <1>1, PsnsAreConsecutive, RingInvariance, PTL

-----------------------------------------------------------------------------
(* Without a loss: clients, adapters and fabric stay in step, and data are exact. *)

ExactData(n) == [low |-> Sum(Clients, n, "low"), high |-> Sum(Clients, n, "high")]

ExactChunk(buf, g) == \A j \in Offsets : buf[j] = ExactData(PktsPerChunk * g + j)

\* The adapter has accepted every result, all of them for the chunks of the
\* receive requests in their order.
InStep(c) ==
    /\ dropping[c] = FALSE
    /\ expectedPsn[c] = Len(result[c])
    /\ Len(result[c]) < PktsPerChunk * (RecvsDone(c) + 1)

\* The chunk under way is exact as far as it has come; one whose completion has
\* not been polled is exact in the receive buffer, any other in the caller's.
PartialExact(c) ==
    rq[c] # <<>> =>
        \A j \in Offsets : PktsPerChunk * RecvsDone(c) + j < Len(result[c]) =>
            recvBuf[c][Head(rq[c])][j] = ExactData(PktsPerChunk * RecvsDone(c) + j)

CompletedExact(c) ==
    \A k \in 1 .. Len(cq[c]) : cq[c][k].kind = "recv" =>
        ExactChunk(recvBuf[c][cq[c][k].entry], ring[c][cq[c][k].entry].chunk)

Waiting(c, g) ==
    \E k \in 1 .. Len(cq[c]) : cq[c][k].kind = "recv" /\ ring[c][cq[c][k].entry].chunk = g

DoneExact(c) ==
    \A g \in 0 .. RecvsDone(c) - 1 : ExactChunk(dbuf[c][g], g) \/ Waiting(c, g)

CallsExact(c) ==
    \A g \in 0 .. ChunksBefore[call[c] - 1] - 1 : ExactChunk(dbuf[c][g], g)

DataInv(c) == PartialExact(c) /\ CompletedExact(c) /\ DoneExact(c) /\ CallsExact(c)

LossFreeInv == losses = 0 => IInv /\ \A c \in Clients : InStep(c) /\ DataInv(c)

\* A client whose part of the state does not change, but for entries of the ring
\* without a completion.
LEMMA DataKept ==
    ASSUME NEW c \in Clients, InStep(c), DataInv(c), RecvsDone(c)' = RecvsDone(c),
           result'[c] = result[c], rq'[c] = rq[c], cq'[c] = cq[c], dbuf'[c] = dbuf[c],
           recvBuf'[c] = recvBuf[c], call'[c] = call[c],
           expectedPsn'[c] = expectedPsn[c], dropping'[c] = dropping[c],
           \A k \in 1 .. Len(cq[c]) : cq[c][k].kind = "recv" =>
               ring'[c][cq[c][k].entry].chunk = ring[c][cq[c][k].entry].chunk
    PROVE  InStep(c)' /\ DataInv(c)'
<1>1. InStep(c)'
  BY DEF InStep
<1>2. PartialExact(c)' /\ CallsExact(c)'
  BY DEF DataInv, PartialExact, CallsExact, ExactChunk, ExactData
<1>3. CompletedExact(c)'
  BY DEF DataInv, CompletedExact, ExactChunk, ExactData
<1>4. DoneExact(c)'
  <2>1. ASSUME NEW g PROVE Waiting(c, g) => Waiting(c, g)'
    BY DEF Waiting
  <2> QED BY <2>1 DEF DataInv, DoneExact, ExactChunk, ExactData
<1> QED BY <1>1, <1>2, <1>3, <1>4 DEF DataInv

\* Nothing that has arrived belongs to a chunk without a receive request.
LEMMA ArrivedPosted ==
    ASSUME PsnInv, RingInv, IInv, NEW c \in Clients
    PROVE  /\ Len(result[c]) \in Nat /\ Len(down[c]) \in Nat
           /\ Len(result[c]) + Len(down[c]) <= PktsPerChunk * (RecvsDone(c) + Len(rq[c]))
<1> DEFINE p == PktsPerChunk
           posted == SendsPosted(c)
           n == SendsDone(c)
           m == RecvsDone(c) + Len(rq[c])
           s == sent[c]
           l == Len(result[c]) + Len(down[c])
<1>1. Len(result[c]) \in Nat /\ Len(down[c]) \in Nat /\ s \in Nat /\ l <= s
  BY ResultsWereSent
<1>2. posted \in Int /\ posted <= m /\ m \in Nat
  BY WindowKept, RingFacts DEF PsnInv
<1>3. /\ SendInv(c) /\ n \in Nat /\ n = posted - Len(sq[c]) /\ Len(sq[c]) \in Nat
  BY NextPsn, RingFacts DEF PsnInv, ClientsInv, SendsDone
<1>4. s <= p * posted
  <2>1. CASE sq[c] = <<>>
    <3>1. Len(sq[c]) = 0 /\ s = p * n
      BY <1>3, <2>1 DEF SendInv
    <3> HIDE DEF n, posted, p, s
    <3>2. n = posted
      BY <1>2, <1>3, <3>1
    <3>3. p * n = p * posted /\ p * n \in Int
      BY <1>3, <3>2, ChunkMultiples DEF p
    <3> QED BY <3>1, <3>3
  <2>2. CASE sq[c] # <<>>
    <3>1. s < p * (n + 1)
      BY <1>3 DEF SendInv
    <3>2. Len(sq[c]) # 0
      BY <2>2, RingFacts, EmptySeq
    <3> HIDE DEF n, posted, p, s
    <3>3. n + 1 <= posted /\ n + 1 \in Int
      BY <1>2, <1>3, <3>2
    <3>4. p * (n + 1) <= p * posted /\ p * (n + 1) \in Int /\ p * posted \in Int
      BY <1>2, <3>3, ChunkMultiples DEF p
    <3> QED BY <1>1, <3>1, <3>4
  <2> QED BY <2>1, <2>2
<1>5. p * posted <= p * m /\ p * posted \in Int /\ p * m \in Int
  <2> HIDE DEF posted, m
  <2> QED BY <1>2, ChunkMultiples
<1>6. l \in Nat
  <2> DEFINE a == Len(result[c])
             b == Len(down[c])
  <2>1. a \in Nat /\ b \in Nat
    BY <1>1
  <2> HIDE DEF a, b
  <2>2. a + b \in Nat
    BY <2>1
  <2> QED BY <2>2 DEF a, b
<1> HIDE DEF p, posted, n, m, s, l
<1>7. l <= p * m
  BY <1>1, <1>4, <1>5, <1>6
<1> QED BY <1>1, <1>7 DEF p, m, l

\* So a result always finds one.
LEMMA ResultFindsRequest ==
    ASSUME PsnInv, RingInv, IInv, NEW c \in Clients, down[c] # <<>>
    PROVE  rq[c] # <<>>
<1> DEFINE p == PktsPerChunk
           done == RecvsDone(c)
           l == Len(result[c])
           w == Len(down[c])
<1>1. SUFFICES ASSUME rq[c] = <<>> PROVE FALSE
  OBVIOUS
<1>2. /\ l \in Nat /\ w \in Nat /\ l + w <= p * (done + Len(rq[c]))
      /\ done \in Nat /\ p * done <= l
  BY ArrivedPosted, WindowKept DEF PsnInv
<1>3. w # 0
  BY EmptySeq DEF PsnInv, TypeOK
<1>4. Len(rq[c]) = 0
  BY <1>1
<1> HIDE DEF done, l, w
<1>5. done + Len(rq[c]) = done /\ p * done \in Int
  BY <1>2, <1>4, ChunkMultiples
<1> HIDE DEF p
<1> QED BY <1>2, <1>3, <1>5

\* Only Receive moves the count of the chunks that have been received.
LEMMA DoneKept ==
    ASSUME NEW d \in Clients, Filled(d)' = Filled(d), posting'[d] = posting[d], rq'[d] = rq[d]
    PROVE  RecvsDone(d)' = RecvsDone(d)
BY DEF RecvsDone, RecvsPosted

Sync == \A c \in Clients : InStep(c) /\ DataInv(c)

\* Fill: the new chunk has an entry of the ring that has no completion.
LEMMA FillData ==
    ASSUME PsnInv, RingInv, Sync, NEW c \in Clients, Fill(c)
    PROVE  Sync'
<1> DEFINE next == NextEntry(c)
           chunk == ChunksBefore[call[c] - 1] + sendPos[c]
<1>1. /\ ring[c][next].status = 0
      /\ ring' = [ring EXCEPT ![c][next] = [status |-> 2, chunk |-> chunk]]
      /\ sendPos' = [sendPos EXCEPT ![c] = @ + 1]
      /\ posting' = [posting EXCEPT ![c] = PostOrder]
      /\ UNCHANGED <<call, dbuf, recvBuf, rq, cq, expectedPsn, dropping, result>>
  BY DEF Fill, EntryFree, adapterVars, fabricVars
<1> HIDE DEF chunk
<1>2. next \in Ring /\ ClientTypes /\ RingTypes
  BY RingFacts, NextInRing DEF NextEntry, PsnInv, ClientsInv, RingInv
<1>3. ~RecvHeld(c, next)
  BY <1>1, <1>2, FreeEntry
<1> HIDE DEF next
<1>4. ASSUME NEW d \in Clients PROVE InStep(d)' /\ DataInv(d)'
  <2>1. RecvsDone(d)' = RecvsDone(d)
    <3>1. CASE d = c
      BY <3>1, FillPsn DEF PsnInv
    <3>2. CASE d # c
      <4>1. sendPos'[d] = sendPos[d] /\ posting'[d] = posting[d]
        BY <1>1, <1>2, <3>2 DEF ClientTypes, RingTypes
      <4> QED BY <1>1, <4>1, CallKept, DoneKept
    <3> QED BY <3>1, <3>2
  <2>2. ASSUME NEW k \in 1 .. Len(cq[d]), cq[d][k].kind = "recv"
        PROVE  ring'[d][cq[d][k].entry] = ring[d][cq[d][k].entry]
    <3>1. cq[d][k] \in Completion
      BY RingFacts
    <3>2. d = c => cq[d][k].entry # next
      BY <1>3, <2>2, <3>1 DEF RecvHeld, In, Completion, Wc
    <3>3. cq[d][k].entry \in Ring
      BY <3>1 DEF Completion
    <3>4. ring[c] \in [Ring -> [status : Int, chunk : Chunks \cup {NoChunk}]]
      BY <1>2 DEF ClientTypes
    <3> QED BY <1>1, <1>2, <3>2, <3>3, <3>4 DEF ClientTypes
  <2>3. InStep(d) /\ DataInv(d)
    BY DEF Sync
  <2> QED BY <1>1, <2>1, <2>2, <2>3, DataKept
<1> QED BY <1>4 DEF Sync

\* PostRequest: nothing has arrived yet for a new receive request.
LEMMA PostData ==
    ASSUME PsnInv, RingInv, IInv, Sync, NEW c \in Clients, PostRequest(c)
    PROVE  Sync'
<1>1. /\ posting' = [posting EXCEPT ![c] = Tail(@)]
      /\ \/ rq' = [rq EXCEPT ![c] = Append(@, ringPos[c])]
         \/ UNCHANGED rq
      /\ UNCHANGED <<call, sendPos, dbuf, recvBuf, ring, cq, expectedPsn, dropping, result>>
  BY DEF PostRequest, fabricVars
<1>2. ASSUME NEW d \in Clients PROVE RecvsDone(d)' = RecvsDone(d)
  <2>1. CASE d = c
    BY <2>1, PostPsn DEF PsnInv
  <2>2. CASE d # c
    <3>1. rq'[d] = rq[d] /\ posting'[d] = posting[d]
      BY <1>1, <2>2 DEF RingTypes, RingInv
    <3> QED BY <1>1, <3>1, CallKept, DoneKept
  <2> QED BY <2>1, <2>2
<1>3. ASSUME NEW d \in Clients, rq'[d] = rq[d] PROVE InStep(d)' /\ DataInv(d)'
  BY <1>1, <1>2, <1>3, DataKept DEF Sync
<1>4. ASSUME rq'[c] = Append(rq[c], ringPos[c]) PROVE InStep(c)' /\ DataInv(c)'
  <2>1. InStep(c) /\ DataInv(c) /\ RecvsDone(c)' = RecvsDone(c)
    BY <1>2 DEF Sync
  <2>2. InStep(c)'
    BY <1>1, <2>1 DEF InStep
  <2>3. CompletedExact(c)' /\ CallsExact(c)'
    BY <1>1, <2>1 DEF DataInv, CompletedExact, CallsExact, ExactChunk, ExactData
  <2>4. DoneExact(c)'
    <3>1. ASSUME NEW g PROVE Waiting(c, g) => Waiting(c, g)'
      BY <1>1 DEF Waiting
    <3> QED BY <1>1, <2>1, <3>1 DEF DataInv, DoneExact, ExactChunk, ExactData
  <2>5. PartialExact(c)'
    <3>1. CASE rq[c] = <<>>
      <4> DEFINE p == PktsPerChunk
                 n == RecvsDone(c)
                 l == Len(result[c])
      <4>1. /\ l \in Nat /\ Len(down[c]) \in Nat /\ n \in Nat
            /\ l + Len(down[c]) <= p * (n + Len(rq[c]))
        BY ArrivedPosted, WindowKept DEF PsnInv
      <4>2. Len(rq[c]) = 0
        BY <3>1
      <4>3. p * n \in Int
        BY <4>1, ChunkMultiples
      <4>4. ASSUME NEW j \in Offsets PROVE ~(p * n + j < l)
        <5>1. j \in Nat
          BY DEF Offsets
        <5> HIDE DEF n, l
        <5>2. n + Len(rq[c]) = n
          BY <4>1, <4>2
        <5>3. l <= p * n
          <6> HIDE DEF p
          <6> QED BY <4>1, <4>3, <5>2
        <5> HIDE DEF p
        <5> QED BY <4>1, <4>3, <5>1, <5>3
      <4> QED BY <1>1, <2>1, <4>4 DEF PartialExact
    <3>2. CASE rq[c] # <<>>
      <4>1. Head(rq'[c]) = Head(rq[c])
        <5>1. rq[c] \in Seq(Ring) /\ ringPos[c] \in Ring
          BY RingFacts
        <5> QED BY <1>4, <3>2, <5>1
      <4> QED BY <1>1, <2>1, <3>2, <4>1 DEF DataInv, PartialExact, ExactData
    <3> QED BY <3>1, <3>2
  <2> QED BY <2>2, <2>3, <2>4, <2>5 DEF DataInv
<1>5. ASSUME NEW d \in Clients PROVE rq'[d] = rq[d] \/ (d = c /\ rq'[c] = Append(rq[c], ringPos[c]))
  BY <1>1 DEF RingTypes, RingInv
<1> QED BY <1>3, <1>4, <1>5 DEF Sync

\* Poll: a chunk goes from its receive buffer to the caller's.
LEMMA PollData ==
    ASSUME PsnInv, RingInv, Sync, NEW c \in Clients, Poll(c)
    PROVE  Sync'
<1> DEFINE wc == Head(cq[c])
           chunk == ring[c][wc.entry].chunk
           buf == recvBuf[c][wc.entry]
<1>1. /\ cq[c] # <<>>
      /\ cq' = [cq EXCEPT ![c] = Tail(@)]
      /\ dbuf' = IF wc.kind = "recv" THEN [dbuf EXCEPT ![c][chunk] = buf] ELSE dbuf
      /\ UNCHANGED <<call, sendPos, posting, recvBuf, rq, expectedPsn, dropping, result>>
  BY DEF Poll, fabricVars
<1>2. \A d \in Clients, i \in Ring : ring'[d][i].chunk = ring[d][i].chunk
  BY PollPsn DEF PsnInv
<1>3. ASSUME NEW d \in Clients PROVE RecvsDone(d)' = RecvsDone(d)
  BY <1>1, CallKept, DoneKept
<1>4. ClientTypes /\ cq \in [Clients -> Seq(Completion)]
  BY DEF PsnInv, ClientsInv, RingInv, RingTypes
<1>5. ASSUME NEW d \in Clients, d # c PROVE InStep(d)' /\ DataInv(d)'
  <2>1. cq'[d] = cq[d] /\ dbuf'[d] = dbuf[d]
    BY <1>1, <1>4, <1>5 DEF ClientTypes
  <2>2. \A k \in 1 .. Len(cq[d]) : cq[d][k].entry \in Ring
    BY RingFacts DEF Completion
  <2>3. InStep(d) /\ DataInv(d)
    BY DEF Sync
  <2> QED BY <1>1, <1>2, <1>3, <2>1, <2>2, <2>3, DataKept
<1>6. InStep(c) /\ DataInv(c) /\ RecvsDone(c)' = RecvsDone(c)
  BY <1>3 DEF Sync
<1>7. InStep(c)' /\ PartialExact(c)'
  BY <1>1, <1>6 DEF InStep, DataInv, PartialExact, ExactData
<1>8. /\ cq'[c] = Tail(cq[c]) /\ wc = cq[c][1] /\ wc \in Completion
      /\ Len(cq[c]) \in Nat \ {0} /\ Len(cq'[c]) = Len(cq[c]) - 1
      /\ \A k \in 1 .. Len(cq'[c]) : cq'[c][k] = cq[c][k + 1] /\ k + 1 \in 1 .. Len(cq[c])
  <2>1. cq'[c] = Tail(cq[c]) /\ cq[c] \in Seq(Completion)
    BY <1>1, <1>4
  <2>2. /\ wc = cq[c][1] /\ wc \in Completion
        /\ Len(cq[c]) \in Nat \ {0} /\ Len(cq'[c]) = Len(cq[c]) - 1
        /\ \A k \in 1 .. Len(cq'[c]) : cq'[c][k] = cq[c][k + 1]
    BY <1>1, <2>1, HeadTail
  <2> QED BY <2>1, <2>2
<1> HIDE DEF wc
<1>9. /\ \A k \in 1 .. Len(cq[c]) : cq[c][k].entry \in Ring
      /\ wc.entry \in Ring
  BY <1>8, RingFacts DEF Completion
<1>10. CompletedExact(c)'
  <2> SUFFICES ASSUME NEW k \in 1 .. Len(cq'[c]), cq'[c][k].kind = "recv"
               PROVE  ExactChunk(recvBuf'[c][cq'[c][k].entry], ring'[c][cq'[c][k].entry].chunk)
    BY DEF CompletedExact, ExactChunk, ExactData
  <2> DEFINE m == k + 1
  <2>1. m \in 1 .. Len(cq[c]) /\ cq'[c][k] = cq[c][m]
    BY <1>8
  <2> HIDE DEF m
  <2>2. ExactChunk(recvBuf[c][cq[c][m].entry], ring[c][cq[c][m].entry].chunk)
    BY <1>6, <2>1 DEF DataInv, CompletedExact
  <2> QED BY <1>1, <1>2, <1>9, <2>1, <2>2
\* The chunk of the completion is exact in the receive buffer.
<1>11. wc.kind = "recv" => ExactChunk(buf, chunk)
  <2>1. 1 \in 1 .. Len(cq[c])
    BY <1>8
  <2> QED BY <1>6, <1>8, <2>1 DEF DataInv, CompletedExact
<1> HIDE DEF buf, chunk
<1>12. ASSUME NEW g \in Chunks, ExactChunk(dbuf[c][g], g) PROVE ExactChunk(dbuf'[c][g], g)
  <2>1. CASE wc.kind = "recv" /\ chunk = g
    <3>1. dbuf'[c][g] = buf
      BY <1>1, <1>4, <2>1 DEF ClientTypes
    <3> QED BY <1>11, <2>1, <3>1
  <2>2. CASE ~(wc.kind = "recv" /\ chunk = g)
    <3>1. dbuf'[c][g] = dbuf[c][g]
      BY <1>1, <1>4, <2>2 DEF ClientTypes
    <3> QED BY <1>12, <3>1
  <2> QED BY <2>1, <2>2
<1>13. RecvsDone(c) \in Nat /\ RecvsDone(c) <= TotalChunks
  <2> DEFINE done == RecvsDone(c)
             posted == RecvsPosted(c)
  <2>1. done \in Nat /\ Filled(c) \in Nat /\ Filled(c) <= TotalChunks /\ TotalChunks \in Nat
        /\ Len(rq[c]) \in Nat
    BY WindowKept, FilledFacts, TotalFacts, RingFacts DEF PsnInv, ClientsInv
  <2>2. posted <= Filled(c) /\ posted \in Int
    BY <2>1 DEF RecvsPosted
  <2>3. done = posted - Len(rq[c])
    BY DEF RecvsDone
  <2> HIDE DEF done, posted
  <2>4. done <= TotalChunks
    <3> DEFINE r == Len(rq[c])
               f == Filled(c)
    <3>1. r \in Nat /\ f \in Nat /\ f <= TotalChunks /\ TotalChunks \in Nat /\ posted <= f
          /\ done = posted - r /\ posted \in Int
      BY <2>1, <2>2, <2>3
    <3> HIDE DEF r, f
    <3> QED BY <3>1
  <2> QED BY <2>1, <2>4 DEF done
<1>14. DoneExact(c)'
  <2> SUFFICES ASSUME NEW g \in 0 .. RecvsDone(c) - 1
               PROVE  ExactChunk(dbuf'[c][g], g) \/ Waiting(c, g)'
    BY <1>6 DEF DoneExact, ExactChunk, ExactData
  <2>1. g \in Chunks
    BY <1>13, TotalFacts DEF Chunks
  <2>2. CASE ExactChunk(dbuf[c][g], g)
    BY <1>12, <2>1, <2>2
  <2>3. CASE wc.kind = "recv" /\ chunk = g
    <3>1. dbuf'[c][g] = buf
      BY <1>1, <1>4, <2>1, <2>3 DEF ClientTypes
    <3> QED BY <1>11, <2>3, <3>1
  <2>4. CASE Waiting(c, g) /\ ~(wc.kind = "recv" /\ chunk = g)
    <3>1. PICK k \in 1 .. Len(cq[c]) : /\ cq[c][k].kind = "recv"
                                       /\ ring[c][cq[c][k].entry].chunk = g
      BY <2>4 DEF Waiting
    <3>2. k # 1
      BY <1>8, <2>4, <3>1 DEF chunk
    <3> DEFINE m == k - 1
    <3>3. m \in 1 .. Len(cq'[c]) /\ m + 1 = k
      BY <1>8, <3>1, <3>2
    <3> HIDE DEF m
    <3>4. cq'[c][m] = cq[c][k]
      BY <1>8, <3>3
    <3> QED BY <1>2, <1>9, <3>1, <3>3, <3>4 DEF Waiting
  <2> QED BY <1>6, <2>2, <2>3, <2>4 DEF DataInv, DoneExact
<1>15. CallsExact(c)'
  <2> SUFFICES ASSUME NEW g \in 0 .. ChunksBefore[call[c] - 1] - 1
               PROVE  ExactChunk(dbuf'[c][g], g)
    BY <1>1 DEF CallsExact, ExactChunk, ExactData
  <2>1. g \in Chunks
    <3>1. /\ Filled(c) <= TotalChunks /\ sendPos[c] \in Nat
          /\ call[c] - 1 \in 0 .. Len(Calls)
      BY FilledFacts, SystemAssumption DEF PsnInv, ClientsInv, ClientTypes
    <3>2. ChunksBefore[call[c] - 1] \in Nat
      BY <3>1, ChunksBeforeDef
    <3> QED BY <3>1, <3>2, TotalFacts DEF Filled, Chunks
  <2>2. ExactChunk(dbuf[c][g], g)
    BY <1>6 DEF DataInv, CallsExact
  <2> QED BY <1>12, <2>1, <2>2
<1> QED BY <1>5, <1>6, <1>7, <1>10, <1>14, <1>15 DEF Sync, DataInv

\* Return: a call ends only when every chunk of it has been taken over.
LEMMA ReturnData ==
    ASSUME PsnInv, RingInv, Sync, NEW c \in Clients, Return(c)
    PROVE  Sync'
<1>1. /\ posting[c] = <<>> /\ outstanding[c] = 0 /\ InCall(c)
      /\ call' = [call EXCEPT ![c] = @ + 1]
      /\ sendPos' = [sendPos EXCEPT ![c] = 0]
      /\ ring' = [ring EXCEPT ![c] = FreshRing]
      /\ UNCHANGED <<posting, dbuf, recvBuf, rq, cq, expectedPsn, dropping, result>>
  BY DEF Return, InLoop, Done, adapterVars, fabricVars
<1>2. ClientTypes
  BY DEF PsnInv, ClientsInv
<1>3. ASSUME NEW d \in Clients PROVE RecvsDone(d)' = RecvsDone(d)
  <2>1. CASE d = c
    BY <1>1, <2>1, ReturnPsn, DoneKept DEF PsnInv
  <2>2. CASE d # c
    <3>1. call'[d] = call[d] /\ sendPos'[d] = sendPos[d]
      BY <1>1, <1>2, <2>2 DEF ClientTypes
    <3> QED BY <1>1, <3>1, CallKept, DoneKept
  <2> QED BY <2>1, <2>2
<1>4. ASSUME NEW d \in Clients, d # c PROVE InStep(d)' /\ DataInv(d)'
  <2>1. call'[d] = call[d] /\ ring'[d] = ring[d]
    BY <1>1, <1>2, <1>4 DEF ClientTypes
  <2>2. InStep(d) /\ DataInv(d)
    BY DEF Sync
  <2> QED BY <1>1, <1>3, <2>1, <2>2, DataKept
<1>5. rq[c] = <<>> /\ cq[c] = <<>>
  BY <1>1, NothingOutstanding
<1>6. InStep(c) /\ DataInv(c) /\ RecvsDone(c)' = RecvsDone(c)
  BY <1>3 DEF Sync
<1>7. \A k \in 1 .. Len(cq[c]) : FALSE
  BY <1>5
<1>8. InStep(c)' /\ PartialExact(c)' /\ CompletedExact(c)'
  BY <1>1, <1>5, <1>6, <1>7 DEF InStep, PartialExact, CompletedExact
<1>9. ASSUME NEW g \in 0 .. RecvsDone(c) - 1 PROVE ExactChunk(dbuf[c][g], g)
  BY <1>6, <1>7 DEF DataInv, DoneExact, Waiting
<1>10. DoneExact(c)'
  BY <1>1, <1>6, <1>9 DEF DoneExact, ExactChunk, ExactData
<1>11. ChunksBefore[call'[c] - 1] = RecvsDone(c)
  <2>1. call'[c] = call[c] + 1 /\ sendPos'[c] = 0 /\ call[c] \in 1 .. Len(Calls)
    BY <1>1, <1>2, SystemAssumption DEF ClientTypes, InCall
  <2>2. Filled(c)' = Filled(c) /\ Filled(c) \in Nat
    BY ReturnPsn, FilledFacts DEF PsnInv, ClientsInv
  <2>3. RecvsDone(c) = Filled(c)
    <3>1. Len(posting[c]) = 0 /\ Len(rq[c]) = 0
      BY <1>1, <1>5
    <3>2. RecvsPosted(c) = Filled(c)
      BY <3>1 DEF RecvsPosted
    <3>3. RecvsDone(c) = Filled(c) - 0
      BY <3>1, <3>2 DEF RecvsDone
    <3> DEFINE f == Filled(c)
    <3>4. RecvsDone(c) = f - 0 /\ f \in Nat
      BY <2>2, <3>3
    <3> HIDE DEF f
    <3>5. RecvsDone(c) = f
      BY <3>4
    <3> QED BY <3>5 DEF f
  <2>4. Filled(c)' = ChunksBefore[call'[c] - 1]
    <3>1. call'[c] - 1 = call[c]
      BY <2>1
    <3>2. ChunksBefore[call[c]] \in Nat
      BY <2>1, ChunksOfCall
    <3> QED BY <2>1, <3>1, <3>2 DEF Filled
  <2> QED BY <2>2, <2>3, <2>4
<1>12. CallsExact(c)'
  BY <1>1, <1>9, <1>11 DEF CallsExact, ExactChunk, ExactData
<1> QED BY <1>4, <1>8, <1>10, <1>12 DEF Sync, DataInv

\* Transmit: the completion of a send holds no data.
LEMMA TransmitData ==
    ASSUME PsnInv, RingInv, Sync, NEW c \in Clients, Transmit(c)
    PROVE  Sync'
<1> DEFINE wc == [kind |-> "send", entry |-> Head(sq[c])]
<1>1. /\ \/ cq' = [cq EXCEPT ![c] = Append(@, wc)] /\ sq[c] # <<>>
         \/ UNCHANGED cq
      /\ UNCHANGED <<call, sendPos, posting, ring, dbuf, recvBuf, rq, expectedPsn, dropping,
                     result>>
  BY DEF Transmit, Send, callVars
<1>2. ASSUME NEW d \in Clients PROVE RecvsDone(d)' = RecvsDone(d)
  BY <1>1, CallKept, DoneKept
<1>3. ASSUME NEW d \in Clients, cq'[d] = cq[d] PROVE InStep(d)' /\ DataInv(d)'
  BY <1>1, <1>2, <1>3, DataKept DEF Sync
<1>4. ASSUME cq'[c] = Append(cq[c], wc), sq[c] # <<>> PROVE InStep(c)' /\ DataInv(c)'
  <2>1. InStep(c) /\ DataInv(c) /\ RecvsDone(c)' = RecvsDone(c)
    BY <1>2 DEF Sync
  <2>2. wc \in Completion /\ wc.kind = "send"
    <3>1. sq[c] \in Seq(Ring)
      BY RingFacts
    <3>2. Head(sq[c]) \in Ring
      BY <1>4, <3>1, HeadTail
    <3> QED BY <3>2 DEF Completion
  <2> HIDE DEF wc
  <2>3. /\ Len(cq[c]) \in Nat /\ Len(cq'[c]) = Len(cq[c]) + 1
        /\ \A k \in 1 .. Len(cq[c]) : cq'[c][k] = cq[c][k]
        /\ cq'[c][Len(cq[c]) + 1] = wc
    BY <1>4, <2>2, RingFacts, AppendFacts
  <2>4. ASSUME NEW k \in 1 .. Len(cq'[c]), cq'[c][k].kind = "recv"
        PROVE  k \in 1 .. Len(cq[c]) /\ cq'[c][k] = cq[c][k]
    <3>1. k # Len(cq[c]) + 1
      BY <2>2, <2>3, <2>4
    <3> QED BY <2>3, <3>1
  <2>5. InStep(c)' /\ PartialExact(c)' /\ CallsExact(c)'
    BY <1>1, <2>1 DEF InStep, DataInv, PartialExact, CallsExact, ExactChunk, ExactData
  <2>6. CompletedExact(c)'
    BY <1>1, <2>1, <2>4 DEF DataInv, CompletedExact, ExactChunk, ExactData
  <2>7. DoneExact(c)'
    <3>1. ASSUME NEW g, Waiting(c, g) PROVE Waiting(c, g)'
      <4>1. PICK k \in 1 .. Len(cq[c]) : /\ cq[c][k].kind = "recv"
                                         /\ ring[c][cq[c][k].entry].chunk = g
        BY <3>1 DEF Waiting
      <4>2. k \in 1 .. Len(cq'[c]) /\ cq'[c][k] = cq[c][k]
        BY <2>3
      <4> QED BY <1>1, <4>1, <4>2 DEF Waiting
    <3> QED BY <1>1, <2>1, <3>1 DEF DataInv, DoneExact, ExactChunk, ExactData
  <2> QED BY <2>5, <2>6, <2>7 DEF DataInv
<1>5. ASSUME NEW d \in Clients
      PROVE  \/ cq'[d] = cq[d]
             \/ d = c /\ cq'[c] = Append(cq[c], wc) /\ sq[c] # <<>>
  BY <1>1 DEF RingTypes, RingInv
<1> QED BY <1>3, <1>4, <1>5 DEF Sync

\* A result that arrives is the one of the next PSN, and a request waits for it.
LEMMA NextResult ==
    ASSUME PsnInv, RingInv, IInv, Sync, NEW c \in Clients, down[c] # <<>>
    PROVE  /\ Head(down[c]) = Exact(Len(result[c]))
           /\ rq[c] # <<>>
           /\ Accepts(c, Head(down[c]).psn)
<1>1. Len(down[c]) \in Nat \ {0} /\ Head(down[c]) = down[c][1] /\ Len(result[c]) \in Nat
  <2>1. down[c] \in Seq(Packets) /\ result[c] \in Seq(Packets)
    BY DEF PsnInv, TypeOK
  <2> QED BY <2>1, HeadTail
<1>2. down[c][1] = Exact(Len(result[c]) + 1 - 1)
  <2>1. \A i \in 1 .. Len(down[c]) : down[c][i] = Exact(Len(result[c]) + i - 1)
    BY DEF IInv, DownInv
  <2>2. 1 \in 1 .. Len(down[c])
    BY <1>1
  <2> QED BY <2>1, <2>2
<1>3. Head(down[c]) = Exact(Len(result[c]))
  <2> DEFINE l == Len(result[c])
  <2>1. l \in Nat /\ Head(down[c]) = Exact(l + 1 - 1)
    BY <1>1, <1>2
  <2> HIDE DEF l
  <2>2. l + 1 - 1 = l
    BY <2>1
  <2>3. Head(down[c]) = Exact(l)
    BY <2>1, <2>2
  <2> QED BY <2>3 DEF l
<1>4. Head(down[c]).psn = Len(result[c])
  BY <1>3 DEF Exact, Partial
<1>5. ~dropping[c] /\ expectedPsn[c] = Len(result[c])
  BY DEF Sync, InStep
<1> QED BY <1>3, <1>4, <1>5, ResultFindsRequest DEF Accepts

\* Receive: the result is the next packet of the chunk at the head of the queue.
LEMMA ReceiveData ==
    ASSUME PsnInv, RingInv, IInv, Sync, NEW c \in Clients, Receive(c)
    PROVE  Sync'
<1> DEFINE l == Len(result[c])
           n == RecvsDone(c)
           p == PktsPerChunk
           offset == l % PktsPerChunk
           entry == Head(rq[c])
           wc == [kind |-> "recv", entry |-> entry]
           pkt == Head(down[c])
<1>1. down[c] # <<>>
  BY DEF Receive, Deliver
<1>2. /\ pkt.psn = l /\ pkt.low = Sum(Clients, l, "low") /\ pkt.high = Sum(Clients, l, "high")
      /\ rq[c] # <<>> /\ Accepts(c, pkt.psn)
  <2>1. pkt = Exact(l) /\ rq[c] # <<>> /\ Accepts(c, pkt.psn)
    BY <1>1, NextResult
  <2> HIDE DEF pkt, l
  <2> QED BY <2>1 DEF Exact, Partial
<1>3. /\ result' = [result EXCEPT ![c] = Append(@, pkt)]
      /\ dropping' = [dropping EXCEPT ![c] = FALSE]
      /\ recvBuf' = [recvBuf EXCEPT ![c][entry][offset] = ExactData(l)]
      /\ expectedPsn' = [expectedPsn EXCEPT ![c] = l + 1]
      /\ IF offset = PktsPerChunk - 1
         THEN /\ rq' = [rq EXCEPT ![c] = Tail(@)]
              /\ cq' = [cq EXCEPT ![c] = Append(@, wc)]
         ELSE UNCHANGED <<rq, cq>>
      /\ UNCHANGED <<call, sendPos, ring, posting, dbuf>>
  <2>1. /\ Deliver(c)
        /\ dropping' = [dropping EXCEPT ![c] = FALSE]
        /\ recvBuf' = [recvBuf EXCEPT ![c][entry][pkt.psn % PktsPerChunk] =
                          [low |-> pkt.low, high |-> pkt.high]]
        /\ expectedPsn' = [expectedPsn EXCEPT ![c] = pkt.psn + 1]
        /\ IF pkt.psn % PktsPerChunk = PktsPerChunk - 1
           THEN /\ rq' = [rq EXCEPT ![c] = Tail(@)]
                /\ cq' = [cq EXCEPT ![c] = Append(@, wc)]
           ELSE UNCHANGED <<rq, cq>>
        /\ UNCHANGED callVars
    BY <1>2 DEF Receive
  <2>2. result' = [result EXCEPT ![c] = Append(@, pkt)]
    BY <2>1 DEF Deliver
  <2> HIDE DEF pkt, wc, entry
  <2> QED BY <1>2, <2>1, <2>2 DEF callVars, ExactData
<1>4. ClientTypes
  BY DEF PsnInv, ClientsInv
<1>5. ASSUME NEW d \in Clients, d # c PROVE InStep(d)' /\ DataInv(d)'
  <2>1. rq'[d] = rq[d] /\ cq'[d] = cq[d]
    BY <1>3, <1>5 DEF RingTypes, RingInv
  <2>2. result'[d] = result[d]
    BY <1>3, <1>5 DEF PsnInv, TypeOK
  <2>3. recvBuf'[d] = recvBuf[d] /\ expectedPsn'[d] = expectedPsn[d] /\ dropping'[d] = dropping[d]
    BY <1>3, <1>4, <1>5 DEF ClientTypes
  <2>4. RecvsDone(d)' = RecvsDone(d)
    BY <1>3, <2>1, CallKept, DoneKept
  <2>5. InStep(d) /\ DataInv(d)
    BY DEF Sync
  <2> QED BY <1>3, <2>1, <2>2, <2>3, <2>4, <2>5, DataKept
<1>6. InStep(c) /\ DataInv(c) /\ RecvInv(c)
  BY DEF Sync, PsnInv, ClientsInv
\* Where the packet lies in its chunk.
<1>7. /\ p \in Nat \ {0} /\ n \in Nat /\ l \in Nat /\ p * n \in Int
      /\ p * n <= l /\ l < p * (n + 1) /\ p * (n + 1) = p * n + p
  <2>1. l < p * (n + 1)
    BY <1>6 DEF InStep
  <2>2. n \in Nat /\ p * n <= l
    BY WindowKept DEF PsnInv
  <2>3. l \in Nat
    BY DEF PsnInv, TypeOK
  <2> HIDE DEF n, l
  <2> QED BY <2>1, <2>2, <2>3, ChunkMultiples
<1>8. l = p * n + offset /\ offset \in 0 .. p - 1
  <2> DEFINE u == l - p * n
  <2> HIDE DEF n, l, p
  <2>1. u \in 0 .. p - 1 /\ l = p * n + u
    BY <1>7
  <2> HIDE DEF u
  <2>2. l % p = u
    BY <1>7, <2>1, ModOf
  <2> QED BY <2>1, <2>2 DEF p
<1>9. offset \in Offsets
  BY <1>8 DEF Offsets
<1>10. /\ rq[c] \in Seq(Ring) /\ cq[c] \in Seq(Completion) /\ entry \in Ring
       /\ Len(rq[c]) \in Nat \ {0} /\ entry = rq[c][1]
  <2>1. rq[c] \in Seq(Ring) /\ cq[c] \in Seq(Completion)
    BY RingFacts
  <2> QED BY <1>2, <2>1, HeadTail
<1>11. Len(result'[c]) = l + 1
  <2>1. result'[c] = Append(result[c], pkt) /\ result[c] \in Seq(Packets)
    BY <1>3 DEF PsnInv, TypeOK
  <2>2. down[c] \in Seq(Packets)
    BY DEF PsnInv, TypeOK
  <2>3. pkt \in Packets
    BY <1>1, <2>2, HeadTail
  <2> HIDE DEF pkt
  <2> QED BY <2>1, <2>3, AppendFacts
<1>12. dropping'[c] = FALSE /\ expectedPsn'[c] = l + 1
  BY <1>3, <1>4 DEF ClientTypes
<1> HIDE DEF offset, entry, pkt
<1>13. /\ recvBuf'[c][entry][offset] = ExactData(l)
       /\ \A j \in Offsets \ {offset} : recvBuf'[c][entry][j] = recvBuf[c][entry][j]
       /\ \A i \in Ring \ {entry} : recvBuf'[c][i] = recvBuf[c][i]
  <2>1. recvBuf \in [Clients -> [Ring -> Buffers]]
    BY <1>4 DEF ClientTypes
  <2>2. recvBuf[c] \in [Ring -> Buffers] /\ recvBuf[c][entry] \in Buffers
    BY <1>10, <2>1
  <2> DEFINE b == [recvBuf[c][entry] EXCEPT ![offset] = ExactData(l)]
  <2>3. b[offset] = ExactData(l) /\ \A j \in Offsets \ {offset} : b[j] = recvBuf[c][entry][j]
    BY <1>9, <2>2 DEF Buffers
  <2>4. recvBuf' = [recvBuf EXCEPT ![c] = [recvBuf[c] EXCEPT ![entry] = b]]
    BY <1>3
  <2> HIDE DEF b
  <2>5. recvBuf'[c] = [recvBuf[c] EXCEPT ![entry] = b]
    BY <2>1, <2>4
  <2>6. recvBuf'[c][entry] = b /\ \A i \in Ring \ {entry} : recvBuf'[c][i] = recvBuf[c][i]
    BY <1>10, <2>2, <2>5
  <2> QED BY <2>3, <2>6
\* The head's buffer is exact up to and with this packet.
<1>14. ASSUME NEW j \in Offsets, p * n + j < l + 1
       PROVE  recvBuf'[c][entry][j] = ExactData(p * n + j)
  <2>1. j \in Nat
    BY DEF Offsets
  <2>2. CASE j = offset
    <3>1. p * n + j = l
      BY <1>8, <2>2
    <3> HIDE DEF n, l
    <3> QED BY <1>13, <2>2, <3>1
  <2>3. CASE j # offset
    <3>1. p * n + j < l
      <4> HIDE DEF n, l, p
      <4>1. p * n + j # l
        BY <1>7, <1>8, <2>1, <2>3
      <4> QED BY <1>7, <1>14, <2>1, <4>1
    <3>2. recvBuf[c][entry][j] = ExactData(p * n + j)
      BY <1>2, <1>6, <3>1 DEF DataInv, PartialExact, entry
    <3> QED BY <1>13, <2>3, <3>2
  <2> QED BY <2>2, <2>3
\* Completions that wait are of other entries.
<1>15. ASSUME NEW k \in 1 .. Len(cq[c]), cq[c][k].kind = "recv"
       PROVE  cq[c][k].entry \in Ring \ {entry}
  <2>1. cq[c][k] \in Completion
    BY RingFacts
  <2>2. In(rq[c], entry)
    BY <1>10 DEF In
  <2>3. ~In(cq[c], Wc("recv", entry))
    BY <1>10, <2>2 DEF RingInv, PlacesInv
  <2> QED BY <1>15, <2>1, <2>3 DEF In, Completion, Wc
<1>16. CASE offset # PktsPerChunk - 1
  <2>1. rq' = rq /\ cq' = cq /\ RecvsDone(c)' = n
    BY <1>3, <1>16, CallKept, DoneKept
  <2>2. InStep(c)'
    <3>1. l + 1 < p * (n + 1)
      <4> HIDE DEF n, l, p
      <4> QED BY <1>7, <1>8, <1>16 DEF p
    <3> HIDE DEF n, l
    <3> QED BY <1>11, <1>12, <2>1, <3>1 DEF InStep
  <2>3. PartialExact(c)'
    <3> HIDE DEF n, l
    <3> QED BY <1>11, <1>14, <2>1 DEF PartialExact, ExactData, entry
  <2>4. CompletedExact(c)'
    BY <1>3, <1>6, <1>13, <1>15, <2>1 DEF DataInv, CompletedExact, ExactChunk, ExactData
  <2>5. DoneExact(c)' /\ CallsExact(c)'
    <3>1. ASSUME NEW g PROVE Waiting(c, g) => Waiting(c, g)'
      BY <1>3, <2>1 DEF Waiting
    <3> QED BY <1>3, <1>6, <2>1, <3>1 DEF DataInv, DoneExact, CallsExact, ExactChunk, ExactData
  <2> QED BY <1>5, <2>2, <2>3, <2>4, <2>5 DEF Sync, DataInv
<1>17. CASE offset = PktsPerChunk - 1
  <2>1. rq'[c] = Tail(rq[c]) /\ cq'[c] = Append(cq[c], wc) /\ wc \in Completion
    BY <1>3, <1>10, <1>17 DEF RingTypes, RingInv, Completion
  <2> HIDE DEF wc
  <2>2. /\ Len(cq[c]) \in Nat /\ Len(cq'[c]) = Len(cq[c]) + 1
        /\ \A k \in 1 .. Len(cq[c]) : cq'[c][k] = cq[c][k]
        /\ cq'[c][Len(cq[c]) + 1] = wc
    BY <1>10, <2>1, RingFacts, AppendFacts
  <2>3. RecvsDone(c)' = n + 1
    <3> DEFINE posted == RecvsPosted(c)
               left == Len(rq'[c])
               r == Len(rq[c])
    <3>1. RecvsPosted(c)' = posted
      BY <1>3, CallKept DEF RecvsPosted
    <3>2. RecvsDone(c)' = posted - left
      BY <3>1 DEF RecvsDone
    <3>3. posted \in Int
      BY FilledFacts DEF RecvsPosted, PsnInv, ClientsInv
    <3>4. n = posted - r /\ left = r - 1 /\ r \in Nat
      BY <1>2, <1>10, <2>1, HeadTail DEF RecvsDone
    <3> HIDE DEF n, posted, left, r
    <3> QED BY <3>2, <3>3, <3>4
  <2>4. p * (n + 1) = l + 1 /\ l + 1 < p * (n + 1 + 1)
    <3> HIDE DEF n, l
    <3>1. p * (n + 1 + 1) = p * (n + 1) + p
      BY <1>7, ChunkMultiples
    <3> HIDE DEF p
    <3> QED BY <1>7, <1>8, <1>17, <3>1 DEF p
  <2>5. InStep(c)'
    <3> HIDE DEF n, l
    <3> QED BY <1>11, <1>12, <2>3, <2>4 DEF InStep
  <2>6. PartialExact(c)'
    <3>1. ASSUME NEW j \in Offsets PROVE ~(p * (n + 1) + j < l + 1)
      <4>1. j \in Nat /\ p * (n + 1) \in Int
        BY <1>7 DEF Offsets
      <4> HIDE DEF n, l, p
      <4> QED BY <1>7, <2>4, <4>1
    <3> HIDE DEF n, l
    <3> QED BY <1>11, <2>3, <3>1 DEF PartialExact
  \* The chunk that is complete now.
  <2>7. ring[c][entry].chunk = n
    <3>1. 1 \in 1 .. Len(rq[c])
      BY <1>10
    <3>2. ring[c][rq[c][1]].chunk = n + 1 - 1
      BY <1>6, <3>1 DEF RecvInv
    <3> HIDE DEF n
    <3> QED BY <1>7, <1>10, <3>2
  <2>8. ExactChunk(recvBuf'[c][entry], n)
    <3>1. ASSUME NEW j \in Offsets PROVE p * n + j < l + 1
      <4>1. j \in 0 .. p - 1
        BY DEF Offsets
      <4> HIDE DEF n, l, p
      <4> QED BY <1>7, <2>4, <4>1
    <3> HIDE DEF n, l
    <3> QED BY <1>14, <3>1 DEF ExactChunk
  <2>9. wc.kind = "recv" /\ wc.entry = entry
    BY DEF wc
  <2>10. CompletedExact(c)'
    <3> SUFFICES ASSUME NEW k \in 1 .. Len(cq'[c]), cq'[c][k].kind = "recv"
                 PROVE  ExactChunk(recvBuf'[c][cq'[c][k].entry], ring[c][cq'[c][k].entry].chunk)
      BY <1>3 DEF CompletedExact, ExactChunk, ExactData
    <3>1. CASE k \in 1 .. Len(cq[c])
      <4>1. ExactChunk(recvBuf[c][cq[c][k].entry], ring[c][cq[c][k].entry].chunk)
        BY <1>6, <2>2, <3>1 DEF DataInv, CompletedExact
      <4>2. recvBuf'[c][cq[c][k].entry] = recvBuf[c][cq[c][k].entry]
        BY <1>13, <1>15, <2>2, <3>1
      <4> QED BY <2>2, <3>1, <4>1, <4>2
    <3>2. CASE k = Len(cq[c]) + 1
      BY <2>2, <2>7, <2>8, <2>9, <3>2
    <3> QED BY <2>2, <3>1, <3>2
  <2>11. ASSUME NEW g PROVE Waiting(c, g) => Waiting(c, g)'
    <3> SUFFICES ASSUME Waiting(c, g) PROVE Waiting(c, g)'
      OBVIOUS
    <3>1. PICK k \in 1 .. Len(cq[c]) : /\ cq[c][k].kind = "recv"
                                       /\ ring[c][cq[c][k].entry].chunk = g
      BY DEF Waiting
    <3>2. k \in 1 .. Len(cq'[c]) /\ cq'[c][k] = cq[c][k]
      BY <2>2
    <3> QED BY <1>3, <3>1, <3>2 DEF Waiting
  <2>12. ASSUME NEW g, g = n PROVE Waiting(c, g)'
    <3>1. Len(cq[c]) + 1 \in 1 .. Len(cq'[c])
      BY <2>2
    <3> QED BY <1>3, <2>2, <2>7, <2>9, <2>12, <3>1 DEF Waiting
  <2>13. DoneExact(c)'
    <3> SUFFICES ASSUME NEW g \in 0 .. n
                 PROVE  ExactChunk(dbuf[c][g], g) \/ Waiting(c, g)'
      <4>1. (n + 1) - 1 = n
        <5> HIDE DEF n
        <5> QED BY <1>7
      <4> HIDE DEF n
      <4> QED BY <1>3, <2>3, <4>1 DEF DoneExact, ExactChunk, ExactData
    <3>1. CASE g = n
      BY <2>12, <3>1
    <3>2. CASE g \in 0 .. n - 1
      BY <1>6, <2>11, <3>2 DEF DataInv, DoneExact
    <3>3. g = n \/ g \in 0 .. n - 1
      <4> HIDE DEF n
      <4> QED BY <1>7
    <3> QED BY <3>1, <3>2, <3>3
  <2>14. CallsExact(c)'
    BY <1>3, <1>6 DEF DataInv, CallsExact, ExactChunk, ExactData
  <2> QED BY <1>5, <2>5, <2>6, <2>10, <2>13, <2>14 DEF Sync, DataInv
<1> QED BY <1>16, <1>17

\* Every step that loses nothing keeps clients and fabric in step.
LEMMA LossFreeStep ==
    ASSUME PsnInv, RingInv, LossFreeInv, [SystemNext]_systemVars
    PROVE  LossFreeInv'
<1> SUFFICES ASSUME losses' = 0 PROVE IInv' /\ Sync'
  BY DEF LossFreeInv, Sync, InStep, DataInv, PartialExact, CompletedExact, DoneExact,
         CallsExact, Waiting, ExactChunk, ExactData
<1>1. losses = 0 /\ losses' = losses
  <2>1. losses \in Nat
    BY SystemAssumption DEF PsnInv, ClientsInv, ClientTypes
  <2>2. losses' = losses \/ losses' = losses + 1
    BY DEF SystemNext, SwitchStep, Fill, PostRequest, Poll, Return, Transmit, Receive, Lose,
           AllReturned, systemVars
  <2> QED BY <2>1, <2>2
<1>2. IInv /\ Sync
  BY <1>1 DEF LossFreeInv, Sync
<1>3. IInv'
  BY <1>1, <1>2, StepOfFabric, InvariantStep
<1>4. ASSUME UNCHANGED <<call, sendPos, ring, posting, rq, cq, dbuf, recvBuf, expectedPsn,
                         dropping, result>>
      PROVE  Sync'
  BY <1>2, <1>4, CallKept, DoneKept, DataKept DEF Sync
<1>5. ASSUME SwitchStep PROVE Sync'
  <2>1. UNCHANGED <<result, callVars, adapterVars>>
    BY <1>5 DEF SwitchStep, Switch, Aggregate, Clear
  <2> QED BY <1>4, <2>1 DEF callVars, adapterVars
<1>6. ASSUME AllReturned \/ UNCHANGED systemVars PROVE Sync'
  <2>1. UNCHANGED <<result, callVars, adapterVars>>
    BY <1>6 DEF AllReturned, systemVars, fabricVars
  <2> QED BY <1>4, <2>1 DEF callVars, adapterVars
<1>7. ASSUME NEW c \in Clients, Lose(c) PROVE FALSE
  BY <1>1, <1>7 DEF Lose
<1>8. ASSUME NEW c \in Clients,
             Fill(c) \/ PostRequest(c) \/ Poll(c) \/ Return(c) \/ Transmit(c) \/ Receive(c)
      PROVE  Sync'
  BY <1>2, <1>8, FillData, PostData, PollData, ReturnData, TransmitData, ReceiveData
<1> QED BY <1>3, <1>5, <1>6, <1>7, <1>8 DEF SystemNext

\* Nothing has arrived and no call has returned: SystemInit.
LEMMA InitLossFree == SystemInit => LossFreeInv
<1> SUFFICES ASSUME SystemInit PROVE IInv /\ Sync
  BY DEF LossFreeInv, Sync
<1>1. IInv
  BY InitIInv DEF SystemInit
<1>2. ASSUME NEW c \in Clients PROVE InStep(c) /\ DataInv(c)
  <2>1. /\ call[c] = 1 /\ rq[c] = <<>> /\ cq[c] = <<>> /\ posting[c] = <<>> /\ sendPos[c] = 0
        /\ expectedPsn[c] = 0 /\ dropping[c] = FALSE /\ result[c] = <<>>
    BY DEF SystemInit, FabricInit
  <2>2. ChunksBefore[call[c] - 1] = 0
    BY <2>1, ChunksBeforeDef
  <2>3. RecvsDone(c) = 0
    <3>1. Len(posting[c]) = 0 /\ Len(rq[c]) = 0
      BY <2>1
    <3>2. RecvsPosted(c) = 0
      BY <2>1, <2>2, <3>1 DEF RecvsPosted, Filled
    <3> QED BY <3>1, <3>2 DEF RecvsDone
  <2>4. Len(result[c]) = 0 /\ \A k \in 1 .. Len(cq[c]) : FALSE
    BY <2>1
  <2>5. 0 < PktsPerChunk * (0 + 1)
    BY ChunkMultiples
  <2>6. InStep(c)
    BY <2>1, <2>3, <2>4, <2>5 DEF InStep
  <2>7. PartialExact(c) /\ CompletedExact(c) /\ DoneExact(c) /\ CallsExact(c)
    BY <2>1, <2>2, <2>3, <2>4 DEF PartialExact, CompletedExact, DoneExact, CallsExact
  <2> QED BY <2>6, <2>7 DEF DataInv
<1> QED BY <1>1, <1>2 DEF Sync

\* As long as no packet is lost, clients and fabric stay in step.
THEOREM StaysInStep == SystemSpec => []LossFreeInv
BY InitLossFree, LossFreeStep, PsnsAreConsecutive, RingInvariance, PTL DEF SystemSpec

\* Without a loss no result reaches an adapter that has no receive request for it
\* (allreduce posts the receive before the send, and in the same order).
THEOREM ResultsFindRequests == SystemSpec => [](losses = 0 => ReceivePosted)
<1>1. PsnInv /\ RingInv /\ LossFreeInv => (losses = 0 => ReceivePosted)
  BY ResultFindsRequest DEF LossFreeInv, ReceivePosted
<1> QED BY <1>1, StaysInStep, PsnsAreConsecutive, RingInvariance, PTL

\* Without a loss the destination buffer of every call that has returned holds the
\* exact sums of all of its chunks, whichever buffers of the ring, slots of the
\* switch and PSNs they went through (AggregationGroup::allreduce).
THEOREM CallsReturnExact == SystemSpec => [](losses = 0 => ReturnedExact)
<1>1. PsnInv /\ LossFreeInv => (losses = 0 => ReturnedExact)
  <2> SUFFICES ASSUME PsnInv, LossFreeInv, losses = 0, NEW c \in Clients,
                      NEW g \in 0 .. ChunksBefore[call[c] - 1] - 1, NEW j \in Offsets
               PROVE  dbuf[c][g][j] = [low |-> Sum(Clients, g * PktsPerChunk + j, "low"),
                                       high |-> Sum(Clients, g * PktsPerChunk + j, "high")]
    BY DEF ReturnedExact
  <2>1. dbuf[c][g][j] = ExactData(PktsPerChunk * g + j)
    BY DEF LossFreeInv, DataInv, CallsExact, ExactChunk
  <2>2. g \in Int
    OBVIOUS
  <2>3. PktsPerChunk * g = g * PktsPerChunk
    BY <2>2, SystemAssumption
  <2> QED BY <2>1, <2>3 DEF ExactData
<1> QED BY <1>1, StaysInStep, PsnsAreConsecutive, PTL

\* A run without losses is a run of the fabric: clients, adapters and switch
\* together implement the abstract collective operation.
THEOREM SystemImplementsAllreduce == SystemSpec /\ [](losses = 0) => ImplementsAllreduce
<1>1. /\ PsnInv /\ RingInv /\ [SystemNext]_systemVars /\ losses = 0 /\ (losses = 0)'
      => [FabricNext]_fabricVars
  BY StepOfFabric
<1>2. SystemInit => FabricInit
  BY DEF SystemInit
<1>3. SystemSpec /\ [](losses = 0) => FabricSpec
  BY <1>1, <1>2, PsnsAreConsecutive, RingInvariance, PTL DEF SystemSpec, FabricSpec
<1> QED BY <1>3, Refinement, PTL
=============================================================================
