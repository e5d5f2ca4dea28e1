----------------------- MODULE AggregationFabricProofs -----------------------
(***************************************************************************)
(* Type correctness, the inductive invariant and the safety properties of  *)
(* AggregationFabric, and its refinement of Allreduce.                     *)
(*                                                                         *)
(* The argument counts packets.  Arrived(m) is how many packets of input m *)
(* its pipe has added, Triggered(p) how many slots of pipe p have become   *)
(* complete, cleared[p] how many of those it has cleared; for the inputs m *)
(* of p, cleared[p] <= Triggered(p) <= Arrived(m) <= cleared[p] + Slots    *)
(* (SentInWindow).  So the PSNs a pipe deals with lie in a window of Slots *)
(* consecutive numbers, on which Slot is injective (SlotFacts), and each   *)
(* register can be described by the one PSN that owns it (RegisterInv).    *)
(***************************************************************************)
EXTENDS AggregationFabric, SequenceTheorems, TLAPS

-----------------------------------------------------------------------------
(* Arithmetic of slots. *)

\* The only multiple of S strictly between -S and S is 0.
LEMMA SmallMultiple ==
    ASSUME NEW S \in Nat \ {0}, NEW d \in Int, S * d < S, -S < S * d
    PROVE  d = 0
<1>1. CASE d >= 1
  BY <1>1, SMTT(20)
<1>2. CASE d <= -1
  BY <1>2, SMTT(20)
<1> QED BY <1>1, <1>2

\* Quotient and remainder of a natural number (psn[7:0] is the remainder).
LEMMA DivisionFacts ==
    ASSUME NEW S \in Nat \ {0}, NEW a \in Nat
    PROVE  /\ a \div S \in Int
           /\ a % S \in 0 .. S - 1
           /\ a = S * (a \div S) + (a % S)
OBVIOUS

\* A quotient and a remainder determine the remainder.
LEMMA ModOf ==
    ASSUME NEW S \in Nat \ {0}, NEW q \in Int, NEW u \in 0 .. S - 1,
           NEW a \in Nat, a = S * q + u
    PROVE  a % S = u
<1> DEFINE r == a \div S
           v == a % S
<1>1. r \in Int /\ v \in 0 .. S - 1 /\ a = S * r + v
  BY DivisionFacts
<1>0. SUFFICES v = u
  OBVIOUS
<1> HIDE DEF r, v
<1>2. S * (q - r) = v - u
  BY <1>1
<1>3. q - r = 0
  BY <1>1, <1>2, SmallMultiple
<1> QED BY <1>1, <1>3

\* Two PSNs less than S apart with the same remainder are the same PSN: inside
\* a window of S packets a slot belongs to one PSN.
LEMMA ModUnique ==
    ASSUME NEW S \in Nat \ {0}, NEW a \in Nat, NEW b \in Nat,
           a < b + S, b < a + S, a % S = b % S
    PROVE  a = b
<1> DEFINE q == a \div S
           r == b \div S
<1>1. q \in Int /\ r \in Int /\ a = S * q + (a % S) /\ b = S * r + (b % S)
  BY DivisionFacts
<1> HIDE DEF q, r
<1>2. a - b = S * (q - r)
  BY <1>1
<1>3. q - r = 0
  BY <1>1, <1>2, SmallMultiple
<1> QED BY <1>1, <1>2, <1>3

\* A PSN and the one S later select the same slot.
LEMMA ModPeriod ==
    ASSUME NEW S \in Nat \ {0}, NEW a \in Nat
    PROVE  (a + S) % S = a % S
<1> DEFINE q == a \div S
           u == a % S
<1>1. q \in Int /\ u \in 0 .. S - 1 /\ a = S * q + u
  BY DivisionFacts
<1> HIDE DEF q, u
<1>2. a + S = S * (q + 1) + u /\ a + S \in Nat /\ q + 1 \in Int
  BY <1>1
<1>3. (a + S) % S = u
  BY <1>1, <1>2, ModOf
<1> QED BY <1>3 DEF u

\* select_agg_unit: what the slot of a PSN is, and when two PSNs share it.
LEMMA SlotFacts ==
    ASSUME NEW a \in Nat
    PROVE  /\ Slot(a) \in 0 .. Slots - 1
           /\ Slot(a + Slots) = Slot(a)
           /\ \A b \in Nat : a < b + Slots /\ b < a + Slots /\ Slot(a) = Slot(b)
                                => a = b
<1>1. Slot(a) \in 0 .. Slots - 1
  BY FabricAssumption, DivisionFacts DEF Slot
<1>2. Slot(a + Slots) = Slot(a)
  BY FabricAssumption, ModPeriod DEF Slot
<1>3. ASSUME NEW b \in Nat, a < b + Slots, b < a + Slots, Slot(a) = Slot(b)
      PROVE  a = b
  BY <1>3, FabricAssumption, ModUnique DEF Slot
<1> QED BY <1>1, <1>2, <1>3

-----------------------------------------------------------------------------
(* Payloads. *)

\* Sums over clients are payloads, and the sum over no client is what the clear
\* actions write.
LEMMA SumFacts ==
    ASSUME NEW C, NEW n, NEW half
    PROVE  /\ Sum(C, n, half) \in Payloads
           /\ Sum({}, n, half) = Zero
           /\ Zero \in Payloads
<1>1. \A t \in Terms : (IF t[1] \in C /\ t[2] = n /\ t[3] = half THEN 1 ELSE 0) \in Nat
  OBVIOUS
<1>2. \A t \in Terms : (IF t[1] \in {} /\ t[2] = n /\ t[3] = half THEN 1 ELSE 0) = 0
  OBVIOUS
<1> QED BY <1>1, <1>2 DEF Sum, Zero, Payloads

\* Register addition (value_add) stays within payloads.
LEMMA PlusType ==
    ASSUME NEW a \in Payloads, NEW b \in Payloads
    PROVE  Plus(a, b) \in Payloads
BY DEF Plus, Payloads

\* Adding the sums of disjoint sets of clients gives the sum of their union.
LEMMA SumUnion ==
    ASSUME NEW C, NEW D, NEW n, NEW half, C \cap D = {}
    PROVE  Plus(Sum(C, n, half), Sum(D, n, half)) = Sum(C \cup D, n, half)
<1> SUFFICES ASSUME NEW t \in Terms
             PROVE  Sum(C, n, half)[t] + Sum(D, n, half)[t] =
                      IF t[1] \in C \cup D /\ t[2] = n /\ t[3] = half THEN 1 ELSE 0
  BY DEF Plus, Sum
<1>1. Sum(C, n, half)[t] = IF t[1] \in C /\ t[2] = n /\ t[3] = half THEN 1 ELSE 0
  BY DEF Sum
<1>2. Sum(D, n, half)[t] = IF t[1] \in D /\ t[2] = n /\ t[3] = half THEN 1 ELSE 0
  BY DEF Sum
<1> QED BY <1>1, <1>2

\* A packet with partial sums is a packet.
LEMMA PartialType ==
    ASSUME NEW C, NEW n \in Psns
    PROVE  Partial(C, n) \in Packets
BY SumFacts DEF Partial, Packets

-----------------------------------------------------------------------------
(* The shape of the aggregation tree. *)

\* What on_st_repo_channels installs: every input has its pipe, every pipe has
\* inputs, and exactly one pipe distributes results.
LEMMA TreeFacts ==
    /\ ActivePipes \subseteq {0, 3}
    /\ Upstream \subseteq {0}
    /\ Upstream \subseteq ActivePipes
    /\ Upstream \cap Clients = {}
    /\ \A m \in Inputs : PipeAt(m) \in ActivePipes /\ m \in FullBitmap(PipeAt(m))
    /\ \A p \in ActivePipes : FullBitmap(p) # {}
    /\ \A p, q \in ActivePipes \ Upstream : p = q
    /\ \E p \in ActivePipes : p \notin Upstream
BY FabricAssumption DEF ActivePipes, Upstream, Connected, Inputs, PipeAt, FullBitmap, Pipes

\* A pipe that does not distribute sends its sums to the pipe that does, which
\* counts it as one of its inputs; its own inputs are clients.
LEMMA UpstreamFeedsRoot ==
    ASSUME NEW p \in Upstream
    PROVE  /\ p \in Inputs /\ p \notin Clients
           /\ PipeAt(p) \in ActivePipes \ Upstream
           /\ FullBitmap(p) \subseteq Clients
           /\ \A r \in ActivePipes \ Upstream : p \in FullBitmap(r)
BY FabricAssumption
   DEF ActivePipes, Upstream, Connected, Inputs, PipeAt, FullBitmap, Pipes

\* The full bitmap of the distributing pipe stands for every client.
LEMMA RootCovers ==
    ASSUME NEW p \in ActivePipes \ Upstream
    PROVE  Covered(FullBitmap(p)) = Clients
BY FabricAssumption
   DEF ActivePipes, Upstream, Connected, Inputs, PipeAt, FullBitmap, Pipes, Covered, Under

\* The full bitmap of an upstream pipe stands for the clients on its ports.
LEMMA UpstreamCovers ==
    ASSUME NEW p \in Upstream
    PROVE  /\ Covered(FullBitmap(p)) = Under(p)
           /\ p \notin FullBitmap(p)
BY FabricAssumption
   DEF ActivePipes, Upstream, Connected, Inputs, PipeAt, FullBitmap, Pipes, Covered, Under

\* The inputs of one pipe stand for disjoint sets of clients.
LEMMA CoveredAdd ==
    ASSUME NEW m \in Inputs, NEW B \in SUBSET FullBitmap(PipeAt(m)), m \notin B
    PROVE  /\ Covered(B) \cap Under(m) = {}
           /\ Covered(B \cup {m}) = Covered(B) \cup Under(m)
<1>1. Covered(B \cup {m}) = Covered(B) \cup Under(m)
  BY DEF Covered
<1>2. ASSUME NEW x \in B PROVE Under(x) \cap Under(m) = {}
  BY <1>2, FabricAssumption
     DEF Upstream, ActivePipes, Inputs, PipeAt, FullBitmap, Pipes, Under
<1> QED BY <1>1, <1>2 DEF Covered

-----------------------------------------------------------------------------
(* Queues. *)

\* Head and tail of a queue, element by element.
LEMMA HeadTail ==
    ASSUME NEW S, NEW q \in Seq(S), q # <<>>
    PROVE  /\ Len(q) \in Nat \ {0}
           /\ Head(q) = q[1]
           /\ Head(q) \in S
           /\ Tail(q) \in Seq(S)
           /\ Len(Tail(q)) = Len(q) - 1
           /\ \A i \in 1 .. Len(Tail(q)) : Tail(q)[i] = q[i + 1]
BY HeadTailProperties, EmptySeq

-----------------------------------------------------------------------------
(* Type correctness. *)

\* The cleared switch has well-typed state.
LEMMA TypeInit == FabricInit => TypeOK
<1> SUFFICES ASSUME FabricInit PROVE TypeOK
  OBVIOUS
<1>1. <<>> \in Seq(Packets)
  OBVIOUS
<1>2. Zero \in Payloads
  BY SumFacts
<1> QED BY <1>1, <1>2, FabricAssumption DEF FabricInit, TypeOK

\* A step of clients or switch keeps all types.
LEMMA TypeStep == TypeOK /\ [FabricNext]_fabricVars => TypeOK'
<1> SUFFICES ASSUME TypeOK, [FabricNext]_fabricVars PROVE TypeOK'
  OBVIOUS
<1>1. ASSUME NEW c \in Clients, Inject(c) PROVE TypeOK'
  <2>1. sent[c] \in 0 .. MaxPsn /\ sent[c] < MaxPsn /\ MaxPsn \in Nat /\ c \in Inputs
    BY <1>1, FabricAssumption DEF TypeOK, Inject, CanSend, Inputs
  <2>2. sent[c] \in Psns
    BY <2>1 DEF Psns
  <2>3. Partial({c}, sent[c]) \in Packets
    BY <2>2, PartialType
  <2>4. Append(link[c], Partial({c}, sent[c])) \in Seq(Packets)
    BY <2>1, <2>3, AppendProperties DEF TypeOK
  <2> QED BY <1>1, <2>1, <2>4 DEF TypeOK, Inject, Send
<1>2. ASSUME NEW m \in Inputs, Aggregate(m) PROVE TypeOK'
  <2> DEFINE p == PipeAt(m)
             pkt == Head(link[m])
             s == Slot(pkt.psn)
             newBitmap == bitmap[p][s] \cup {m}
             newLow == Plus(values[p][s].low, pkt.low)
             newHigh == Plus(values[p][s].high, pkt.high)
  <2>1. pkt \in Packets /\ Tail(link[m]) \in Seq(Packets)
    BY <1>2, HeadTail DEF TypeOK, Aggregate
  <2>2. p \in ActivePipes
    BY TreeFacts
  <2>3. s \in 0 .. Slots - 1
    <3>1. pkt.psn \in Nat
      BY <2>1, FabricAssumption DEF Packets, Psns
    <3> QED BY <3>1, SlotFacts
  <2> HIDE DEF p, pkt, s
  <2>4. newBitmap \in SUBSET Inputs
    <3>1. bitmap[p] \in [0 .. Slots - 1 -> SUBSET Inputs]
      BY <2>2 DEF TypeOK
    <3>2. bitmap[p][s] \in SUBSET Inputs
      BY <2>3, <3>1, Zenon
    <3> QED BY <3>2, Zenon
  <2>5. newLow \in Payloads /\ newHigh \in Payloads
    <3>1. values[p][s] \in [low : Payloads, high : Payloads]
      BY <2>2, <2>3 DEF TypeOK
    <3> QED BY <3>1, <2>1, PlusType DEF Packets
  <2> HIDE DEF newBitmap, newLow, newHigh
  <2>6. [pkt EXCEPT !.low = newLow] \in Packets
    BY <2>1, <2>5 DEF Packets
  <2>7. Append(recirc[p], [pkt EXCEPT !.low = newLow]) \in Seq(Packets)
    BY <2>2, <2>6, AppendProperties DEF TypeOK
  <2>8. /\ link' = [link EXCEPT ![m] = Tail(@)]
        /\ bitmap' = [bitmap EXCEPT ![p][s] = newBitmap]
        /\ values' = [values EXCEPT ![p][s] = [low |-> newLow, high |-> newHigh]]
        /\ \/ recirc' = recirc
           \/ recirc' = [recirc EXCEPT ![p] = Append(@, [pkt EXCEPT !.low = newLow])]
        /\ UNCHANGED <<sent, cleared, down, result>>
    BY <1>2 DEF Aggregate, p, pkt, s, newBitmap, newLow, newHigh
  <2> QED BY <2>1, <2>2, <2>3, <2>4, <2>5, <2>7, <2>8 DEF TypeOK
<1>3. ASSUME NEW p \in ActivePipes, Clear(p) PROVE TypeOK'
  <2> DEFINE pkt == Head(recirc[p])
             s == Slot(pkt.psn)
             out == [pkt EXCEPT !.high = values[p][s].high]
  <2>1. pkt \in Packets /\ Tail(recirc[p]) \in Seq(Packets)
    BY <1>3, HeadTail DEF TypeOK, Clear
  <2>2. s \in 0 .. Slots - 1
    <3>1. pkt.psn \in Nat
      BY <2>1, FabricAssumption DEF Packets, Psns
    <3> QED BY <3>1, SlotFacts
  <2> HIDE DEF pkt, s
  <2>3. out \in Packets
    <3>1. values[p][s] \in [low : Payloads, high : Payloads]
      BY <2>2 DEF TypeOK
    <3> QED BY <3>1, <2>1 DEF Packets
  <2>4. Zero \in Payloads
    BY SumFacts
  <2>5. \A q \in Seq(Packets) : Append(q, out) \in Seq(Packets)
    BY <2>3, AppendProperties
  <2> HIDE DEF out
  <2>6. /\ recirc' = [recirc EXCEPT ![p] = Tail(@)]
        /\ cleared' = [cleared EXCEPT ![p] = @ + 1]
        /\ bitmap' = [bitmap EXCEPT ![p][s] = {}]
        /\ values' = [values EXCEPT ![p][s] = [low |-> Zero, high |-> Zero]]
        /\ \/ link' = [link EXCEPT ![p] = Append(@, out)] /\ UNCHANGED down
           \/ down' = [c \in Clients |-> Append(down[c], out)] /\ UNCHANGED link
        /\ UNCHANGED <<sent, result>>
    BY <1>3 DEF Clear, pkt, s, out
  <2>7. link' \in [Inputs -> Seq(Packets)] /\ down' \in [Clients -> Seq(Packets)]
    BY <2>5, <2>6 DEF TypeOK
  <2>8. recirc' \in [ActivePipes -> Seq(Packets)] /\ cleared' \in [ActivePipes -> Nat]
    BY <2>1, <2>6 DEF TypeOK
  <2>9. bitmap' \in [ActivePipes -> [0 .. Slots - 1 -> SUBSET Inputs]]
    BY <2>2, <2>6 DEF TypeOK
  <2>10. values' \in [ActivePipes ->
                       [0 .. Slots - 1 -> [low : Payloads, high : Payloads]]]
    BY <2>2, <2>4, <2>6 DEF TypeOK
  <2> QED BY <2>6, <2>7, <2>8, <2>9, <2>10 DEF TypeOK
<1>4. ASSUME NEW c \in Clients, Deliver(c) PROVE TypeOK'
  <2>1. Head(down[c]) \in Packets /\ Tail(down[c]) \in Seq(Packets)
    BY <1>4, HeadTail DEF TypeOK, Deliver
  <2>2. Append(result[c], Head(down[c])) \in Seq(Packets)
    BY <2>1, AppendProperties DEF TypeOK
  <2> QED BY <1>4, <2>1, <2>2 DEF TypeOK, Deliver
<1>5. CASE UNCHANGED fabricVars
  BY <1>5 DEF TypeOK, fabricVars
<1> QED BY <1>1, <1>2, <1>3, <1>4, <1>5 DEF FabricNext, Switch, Finished

\* Type correctness: no queue, register or bitmap of the channel ever leaves its
\* domain; in particular no packet carries a PSN that no client sent.
THEOREM TypeCorrect == FabricSpec => []TypeOK
BY TypeInit, TypeStep, PTL DEF FabricSpec

-----------------------------------------------------------------------------
(* The inductive invariant. *)

\* The types of the counters the invariant is made of.
LEMMA CounterTypes ==
    ASSUME TypeOK
    PROVE  /\ \A m \in Inputs : /\ Len(link[m]) \in Nat
                                /\ SentBy(m) \in Nat
                                /\ Arrived(m) \in Int
           /\ \A p \in ActivePipes : /\ cleared[p] \in Nat
                                     /\ Len(recirc[p]) \in Nat
                                     /\ Triggered(p) \in Nat
           /\ \A c \in Clients : /\ sent[c] \in Nat
                                 /\ Len(result[c]) \in Nat
                                 /\ Len(down[c]) \in Nat
<1>1. \A m \in Inputs : Len(link[m]) \in Nat
  BY LenProperties DEF TypeOK
<1>2. \A p \in ActivePipes : cleared[p] \in Nat /\ Len(recirc[p]) \in Nat
  BY LenProperties DEF TypeOK
<1>3. \A c \in Clients : /\ sent[c] \in Nat
                         /\ Len(result[c]) \in Nat
                         /\ Len(down[c]) \in Nat
  BY LenProperties, FabricAssumption DEF TypeOK
<1>4. \A m \in Inputs : SentBy(m) \in Nat
  <2> SUFFICES ASSUME NEW m \in Inputs PROVE SentBy(m) \in Nat
    OBVIOUS
  <2>1. CASE m \in Clients
    BY <2>1, <1>3, FabricAssumption DEF SentBy
  <2>2. CASE m \notin Clients
    <3>1. m \in ActivePipes
      BY <2>2, TreeFacts DEF Inputs
    <3> QED BY <2>2, <3>1, <1>2 DEF SentBy
  <2> QED BY <2>1, <2>2
<1>5. \A m \in Inputs : Arrived(m) \in Int
  BY <1>1, <1>4 DEF Arrived
<1>6. \A p \in ActivePipes : Triggered(p) \in Nat
  BY <1>2 DEF Triggered
<1> QED BY <1>1, <1>2, <1>3, <1>4, <1>5, <1>6

\* No pipe is ahead of the pipe its sums go to by more than that pipe lacks.
LEMMA RootIsLast ==
    ASSUME IInv, NEW r \in ActivePipes \ Upstream, NEW p \in ActivePipes
    PROVE  cleared[r] <= cleared[p]
<1> USE DEF IInv
<1>1. CASE p \notin Upstream
  BY <1>1, TreeFacts, CounterTypes
<1>2. CASE p \in Upstream
  <2>1. p \in FullBitmap(r) /\ p \in Inputs /\ p \notin Clients
    BY <1>2, UpstreamFeedsRoot
  <2>2. Triggered(r) <= Arrived(p)
    BY <2>1 DEF TriggerInv
  <2>3. Arrived(p) <= cleared[p]
    BY <2>1, CounterTypes DEF Arrived, SentBy
  <2>4. cleared[r] <= Triggered(r)
    BY CounterTypes DEF Triggered
  <2> QED BY <2>1, <2>2, <2>3, <2>4, CounterTypes
<1> QED BY <1>1, <1>2

\* Everything sent towards a pipe lies in the window of that pipe.
LEMMA SentInWindow ==
    ASSUME IInv, NEW m \in Inputs
    PROVE  /\ PipeAt(m) \in ActivePipes
           /\ cleared[PipeAt(m)] <= Triggered(PipeAt(m))
           /\ Triggered(PipeAt(m)) <= Arrived(m)
           /\ Arrived(m) <= SentBy(m)
           /\ SentBy(m) <= cleared[PipeAt(m)] + Slots
<1> DEFINE p == PipeAt(m)
<1> USE DEF IInv
<1>1. p \in ActivePipes /\ m \in FullBitmap(p)
  BY TreeFacts
<1>2. cleared[p] <= Triggered(p)
  BY <1>1, CounterTypes DEF Triggered
<1>3. Triggered(p) <= Arrived(m)
  BY <1>1 DEF TriggerInv
<1>4. Arrived(m) <= SentBy(m)
  BY CounterTypes DEF Arrived
<1>5. PICK r \in ActivePipes : r \notin Upstream
  BY TreeFacts
<1>6. \A c \in Clients : sent[c] <= cleared[r] + Slots
  <2> SUFFICES ASSUME NEW c \in Clients PROVE sent[c] <= cleared[r] + Slots
    OBVIOUS
  <2>1. sent[c] <= Len(result[c]) + Slots
    BY DEF WindowInv
  <2>2. Len(result[c]) + Len(down[c]) = cleared[r]
    BY <1>5 DEF DownInv
  <2>3. /\ sent[c] \in Nat /\ Len(result[c]) \in Nat /\ Len(down[c]) \in Nat
        /\ cleared[r] \in Nat /\ Slots \in Nat
    BY <1>5, CounterTypes, FabricAssumption
  <2>4. \A a, b, k, l, w \in Nat : a <= l + w /\ l + b = k => a <= k + w
    OBVIOUS
  <2> QED BY <2>1, <2>2, <2>3, <2>4
<1>7. SentBy(m) <= cleared[p] + Slots
  <2>1. CASE m \in Clients
    <3>1. cleared[r] <= cleared[p]
      BY <1>1, <1>5, RootIsLast
    <3>2. SentBy(m) = sent[m] /\ sent[m] <= cleared[r] + Slots
      BY <2>1, <1>6 DEF SentBy
    <3> HIDE DEF p
    <3> QED BY <2>1, <3>1, <3>2, <1>1, <1>5, CounterTypes, FabricAssumption
  <2>2. CASE m \in Upstream
    <3>1. PICK c \in Clients : c \in FullBitmap(m)
      BY <2>2, TreeFacts, UpstreamFeedsRoot
    <3>2. Triggered(m) <= Arrived(c) /\ m \in ActivePipes
      BY <2>2, <3>1, TreeFacts DEF TriggerInv
    <3>3. Arrived(c) <= sent[c]
      BY <3>1, CounterTypes DEF Arrived, SentBy, Inputs
    <3>4. cleared[m] <= Triggered(m)
      BY <3>2, CounterTypes DEF Triggered
    <3>5. p = r
      BY <2>2, <1>5, TreeFacts, UpstreamFeedsRoot
    <3>6. SentBy(m) = cleared[m]
      BY <2>2, UpstreamFeedsRoot DEF SentBy
    <3>7. c \in Inputs
      BY DEF Inputs
    <3> QED BY <1>1, <1>5, <1>6, <3>1, <3>2, <3>3, <3>4, <3>5, <3>6, <3>7,
               CounterTypes, FabricAssumption
  <2> QED BY <2>1, <2>2 DEF Inputs
<1> QED BY <1>1, <1>2, <1>3, <1>4, <1>7

\* What Append does to a queue, element by element.
LEMMA AppendFacts ==
    ASSUME NEW S, NEW q \in Seq(S), NEW e \in S
    PROVE  /\ Append(q, e) \in Seq(S)
           /\ Len(Append(q, e)) = Len(q) + 1
           /\ \A i \in 1 .. Len(q) : Append(q, e)[i] = q[i]
           /\ Append(q, e)[Len(q) + 1] = e
BY AppendProperties, LenProperties

\* A client that sends within its window preserves the invariant.
LEMMA InjectStep ==
    ASSUME IInv, TypeOK', NEW c \in Clients, Inject(c)
    PROVE  IInv'
<1> USE DEF IInv
<1> DEFINE pkt == Partial({c}, sent[c])
<1>1. /\ sent' = [sent EXCEPT ![c] = @ + 1]
      /\ link' = [link EXCEPT ![c] = Append(@, pkt)]
      /\ UNCHANGED <<bitmap, values, recirc, cleared, down, result>>
      /\ sent[c] < Len(result[c]) + Slots
      /\ sent[c] \in Psns
  <2>1. sent[c] \in Psns
    BY CounterTypes, FabricAssumption DEF Inject, CanSend, Psns
  <2> QED BY <2>1 DEF Inject, CanSend, Send
<1>2. c \in Inputs /\ Under(c) = {c} /\ c \notin Upstream
  BY TreeFacts DEF Inputs, Under
<1>3. pkt \in Packets /\ link[c] \in Seq(Packets)
  BY <1>1, <1>2, PartialType DEF TypeOK
<1>4. /\ Len(link[c]') = Len(link[c]) + 1
      /\ \A i \in 1 .. Len(link[c]) : link[c]'[i] = link[c][i]
      /\ link[c]'[Len(link[c]) + 1] = pkt
  <2>1. link[c]' = Append(link[c], pkt)
    BY <1>1, <1>2 DEF TypeOK
  <2> HIDE DEF pkt
  <2> QED BY <2>1, <1>3, AppendFacts
<1>5. \A m \in Inputs : m # c => link[m]' = link[m]
  BY <1>1, <1>2 DEF TypeOK
<1>6. sent[c]' = sent[c] + 1 /\ \A d \in Clients : d # c => sent[d]' = sent[d]
  BY <1>1 DEF TypeOK
<1>7. \A m \in Inputs : Arrived(m)' = Arrived(m)
  <2>1. Arrived(c)' = Arrived(c)
    <3>1. SentBy(c)' = SentBy(c) + 1
      BY <1>6 DEF SentBy
    <3>2. SentBy(c) \in Nat /\ Len(link[c]) \in Nat
      BY <1>2, CounterTypes
    <3> QED BY <3>1, <3>2, <1>4 DEF Arrived
  <2>2. ASSUME NEW m \in Inputs, m # c PROVE Arrived(m)' = Arrived(m)
    <3>1. SentBy(m)' = SentBy(m)
      BY <2>2, <1>1, <1>6 DEF SentBy
    <3> QED BY <2>2, <3>1, <1>5 DEF Arrived
  <2> QED BY <2>1, <2>2
<1>8. \A p \in ActivePipes : Triggered(p)' = Triggered(p)
  BY <1>1 DEF Triggered
<1>9. LinkInv'
  <2> SUFFICES ASSUME NEW m \in Inputs
               PROVE  /\ Arrived(m) >= 0
                      /\ \A i \in 1 .. Len(link[m]') :
                            link[m]'[i] = Partial(Under(m), Arrived(m) + i - 1)
    BY <1>7 DEF LinkInv
  <2>1. Arrived(m) >= 0 /\ \A i \in 1 .. Len(link[m]) :
                              link[m][i] = Partial(Under(m), Arrived(m) + i - 1)
    BY DEF LinkInv
  <2>2. CASE m # c
    BY <2>1, <2>2, <1>5
  <2>3. CASE m = c
    <3>1. Arrived(c) + (Len(link[c]) + 1) - 1 = sent[c]
      BY <1>2, CounterTypes DEF Arrived, SentBy
    <3>2. link[c]'[Len(link[c]) + 1] =
            Partial(Under(c), Arrived(c) + (Len(link[c]) + 1) - 1)
      BY <1>2, <1>4, <3>1
    <3>3. Len(link[c]) \in Nat
      BY <1>2, CounterTypes
    <3>4. \A i \in 1 .. Len(link[c]) + 1 : i \in 1 .. Len(link[c]) \/ i = Len(link[c]) + 1
      BY <3>3
    <3> QED BY <2>1, <2>3, <3>2, <3>4, <1>4
  <2> QED BY <2>2, <2>3
<1>10. WindowInv'
  <2> SUFFICES ASSUME NEW d \in Clients PROVE sent[d]' <= Len(result[d]) + Slots
    BY <1>1 DEF WindowInv
  <2>1. CASE d # c
    BY <2>1, <1>6 DEF WindowInv
  <2>2. CASE d = c
    <3>1. sent[c] \in Nat /\ Len(result[c]) \in Nat /\ Slots \in Nat
      BY CounterTypes, FabricAssumption
    <3>2. \A a, b, w \in Nat : a < b + w => a + 1 <= b + w
      OBVIOUS
    <3> QED BY <2>2, <3>1, <3>2, <1>1, <1>6
  <2> QED BY <2>1, <2>2
<1>11. RecircInv' /\ DownInv' /\ ResultsExact'
  BY <1>1 DEF RecircInv, DownInv, ResultsExact
<1>12. TriggerInv'
  BY <1>7, <1>8 DEF TriggerInv, FullBitmap
<1>13. RegisterInv'
  <2> SUFFICES ASSUME NEW p \in ActivePipes,
                      NEW n \in cleared[p] .. cleared[p] + Slots - 1
               PROVE  LET here == {m \in FullBitmap(p) : Arrived(m)' > n}
                      IN  /\ bitmap[p][Slot(n)] = here
                          /\ values[p][Slot(n)] =
                               [low |-> Sum(Covered(here), n, "low"),
                                high |-> Sum(Covered(here), n, "high")]
    BY <1>1 DEF RegisterInv
  <2>1. {m \in FullBitmap(p) : Arrived(m)' > n} = {m \in FullBitmap(p) : Arrived(m) > n}
    BY <1>7 DEF FullBitmap
  <2> QED BY <2>1 DEF RegisterInv
<1> QED BY <1>9, <1>10, <1>11, <1>12, <1>13

\* A step that leaves the queues into the pipes alone preserves the parts of
\* the invariant that are about pipes.
LEMMA PipesUnchanged ==
    ASSUME IInv, UNCHANGED <<sent, link, bitmap, values, recirc, cleared>>
    PROVE  LinkInv' /\ RecircInv' /\ TriggerInv' /\ RegisterInv'
<1>1. \A m \in Inputs : Arrived(m)' = Arrived(m)
  BY DEF Arrived, SentBy
<1>2. \A p \in ActivePipes : Triggered(p)' = Triggered(p)
  BY DEF Triggered
<1>3. LinkInv' /\ RecircInv'
  BY <1>1 DEF IInv, LinkInv, RecircInv
<1>4. TriggerInv'
  BY <1>1, <1>2 DEF IInv, TriggerInv, FullBitmap
<1>5. ASSUME NEW p \in ActivePipes, NEW n \in cleared[p] .. cleared[p] + Slots - 1
      PROVE  {m \in FullBitmap(p) : Arrived(m)' > n} = {m \in FullBitmap(p) : Arrived(m) > n}
  BY <1>1 DEF FullBitmap
<1>6. RegisterInv'
  BY <1>5 DEF IInv, RegisterInv
<1> QED BY <1>3, <1>4, <1>6

\* An adapter that takes a result preserves the invariant.
LEMMA DeliverStep ==
    ASSUME IInv, TypeOK', NEW c \in Clients, Deliver(c)
    PROVE  IInv'
<1> USE DEF IInv
<1>1. /\ down[c] # <<>>
      /\ result' = [result EXCEPT ![c] = Append(@, Head(down[c]))]
      /\ down' = [down EXCEPT ![c] = Tail(@)]
      /\ UNCHANGED <<sent, link, bitmap, values, recirc, cleared>>
  BY DEF Deliver
<1>2. /\ Len(down[c]) \in Nat \ {0}
      /\ Head(down[c]) = down[c][1] /\ Head(down[c]) \in Packets
      /\ Len(down[c]') = Len(down[c]) - 1
      /\ \A i \in 1 .. Len(down[c]') : down[c]'[i] = down[c][i + 1]
  <2>1. down[c]' = Tail(down[c]) /\ down[c] \in Seq(Packets)
    BY <1>1 DEF TypeOK
  <2> QED BY <1>1, <2>1, HeadTail
<1>3. /\ Len(result[c]') = Len(result[c]) + 1
      /\ \A i \in 1 .. Len(result[c]) : result[c]'[i] = result[c][i]
      /\ result[c]'[Len(result[c]) + 1] = down[c][1]
  <2>1. result[c]' = Append(result[c], Head(down[c])) /\ result[c] \in Seq(Packets)
    BY <1>1 DEF TypeOK
  <2> QED BY <2>1, <1>2, AppendFacts
<1>4. \A d \in Clients : d # c => result[d]' = result[d] /\ down[d]' = down[d]
  BY <1>1 DEF TypeOK
<1>5. Len(result[c]) \in Nat /\ sent[c] \in Nat /\ Slots \in Nat
  BY CounterTypes, FabricAssumption
<1>6. \A i \in 1 .. Len(down[c]) : down[c][i] = Exact(Len(result[c]) + i - 1)
  BY DEF DownInv
<1>7. LinkInv' /\ RecircInv' /\ TriggerInv' /\ RegisterInv'
  BY <1>1, PipesUnchanged
<1>8. DownInv'
  <2> SUFFICES ASSUME NEW d \in Clients
               PROVE  /\ \A p \in ActivePipes \ Upstream :
                            Len(result[d]') + Len(down[d]') = cleared[p]
                      /\ \A i \in 1 .. Len(down[d]') :
                            down[d]'[i] = Exact(Len(result[d]') + i - 1)
    BY <1>1 DEF DownInv
  <2>1. CASE d # c
    BY <2>1, <1>4 DEF DownInv
  <2>2. CASE d = c
    <3>1. Len(result[c]') + Len(down[c]') = Len(result[c]) + Len(down[c])
      <4>1. \A a \in Nat, b \in Nat \ {0} : (a + 1) + (b - 1) = a + b
        OBVIOUS
      <4> QED BY <4>1, <1>2, <1>3, <1>5
    <3>2. ASSUME NEW i \in 1 .. Len(down[c]')
          PROVE  down[c]'[i] = Exact(Len(result[c]') + i - 1)
      <4>1. i + 1 \in 1 .. Len(down[c]) /\ i \in Nat
        BY <1>2
      <4>2. Len(result[c]) + (i + 1) - 1 = Len(result[c]') + i - 1
        BY <1>3, <1>5, <4>1
      <4> QED BY <1>2, <1>6, <4>1, <4>2
    <3> QED BY <2>2, <3>1, <3>2 DEF DownInv
  <2> QED BY <2>1, <2>2
<1>9. WindowInv'
  <2>1. \A a, b, w \in Nat : a <= b + w => a <= (b + 1) + w
    OBVIOUS
  <2> QED BY <2>1, <1>1, <1>3, <1>4, <1>5 DEF WindowInv
<1>10. ResultsExact'
  <2> SUFFICES ASSUME NEW d \in Clients, NEW i \in 1 .. Len(result[d]')
               PROVE  result[d]'[i] = Exact(i - 1)
    BY DEF ResultsExact
  <2>1. CASE d # c
    BY <2>1, <1>4 DEF ResultsExact
  <2>2. CASE d = c
    <3>1. down[c][1] = Exact((Len(result[c]) + 1) - 1)
      <4>1. 1 \in 1 .. Len(down[c]) /\ Len(result[c]) + 1 - 1 = (Len(result[c]) + 1) - 1
        BY <1>2, <1>5
      <4> QED BY <1>6, <4>1
    <3>2. i \in 1 .. Len(result[c]) \/ i = Len(result[c]) + 1
      BY <2>2, <1>3, <1>5
    <3> QED BY <2>2, <3>1, <3>2, <1>3 DEF ResultsExact
  <2> QED BY <2>1, <2>2
<1> QED BY <1>7, <1>8, <1>9, <1>10

\* The first pass (value_add, set_bitmap, check_complete) preserves the invariant.
LEMMA AggregateStep ==
    ASSUME IInv, TypeOK', NEW m \in Inputs, Aggregate(m)
    PROVE  IInv'
<1> USE DEF IInv
<1> DEFINE p == PipeAt(m)
           n == Arrived(m)
           pkt == Head(link[m])
           B == {x \in FullBitmap(p) : Arrived(x) > n}
           NB == B \cup {m}
           low == Sum(Covered(NB), n, "low")
           high == Sum(Covered(NB), n, "high")
\* The packet at the head of the link is the next one of its input.
<1>1. /\ Len(link[m]) \in Nat \ {0}
      /\ pkt = Partial(Under(m), n) /\ pkt \in Packets
      /\ Len(link[m]') = Len(link[m]) - 1
      /\ \A i \in 1 .. Len(link[m]') : link[m]'[i] = link[m][i + 1]
  <2>1. link[m] \in Seq(Packets) /\ link[m] # <<>> /\ link[m]' = Tail(link[m])
    BY DEF TypeOK, Aggregate
  <2>2. /\ Len(link[m]) \in Nat \ {0} /\ pkt = link[m][1] /\ pkt \in Packets
        /\ Len(link[m]') = Len(link[m]) - 1
        /\ \A i \in 1 .. Len(link[m]') : link[m]'[i] = link[m][i + 1]
    BY <2>1, HeadTail
  <2>3. link[m][1] = Partial(Under(m), n)
    <3>1. 1 \in 1 .. Len(link[m]) /\ n + 1 - 1 = n
      BY <2>2, CounterTypes
    <3> HIDE DEF n
    <3>2. link[m][1] = Partial(Under(m), n + 1 - 1)
      BY <3>1 DEF LinkInv, n
    <3> QED BY <3>1, <3>2
  <2> QED BY <2>2, <2>3
\* Its PSN lies in the window of the pipe.
<1>2. /\ p \in ActivePipes /\ m \in FullBitmap(p)
      /\ cleared[p] \in Nat /\ n \in Nat /\ Triggered(p) \in Nat /\ Slots \in Nat
      /\ cleared[p] <= Triggered(p) /\ Triggered(p) <= n
      /\ n < cleared[p] + Slots
  <2>1. /\ p \in ActivePipes /\ m \in FullBitmap(p) /\ cleared[p] \in Nat
        /\ Triggered(p) \in Nat /\ n \in Int /\ SentBy(m) \in Nat /\ Slots \in Nat
    BY TreeFacts, CounterTypes, FabricAssumption
  <2>2. /\ cleared[p] <= Triggered(p) /\ Triggered(p) <= n
        /\ SentBy(m) <= cleared[p] + Slots
    BY SentInWindow
  <2>3. n = SentBy(m) - Len(link[m])
    BY DEF Arrived
  <2> HIDE DEF p, n
  <2>4. \A a, w \in Nat, l \in Nat \ {0} : a <= w => a - l < w
    OBVIOUS
  <2> QED BY <2>1, <2>2, <2>3, <2>4, <1>1
<1>3. /\ B \in SUBSET FullBitmap(p) /\ m \notin B
      /\ bitmap[p][Slot(n)] = B
      /\ values[p][Slot(n)] = [low |-> Sum(Covered(B), n, "low"),
                               high |-> Sum(Covered(B), n, "high")]
  <2>1. n \in cleared[p] .. cleared[p] + Slots - 1
    BY <1>2
  <2>2. m \notin B
    BY <1>2
  <2> HIDE DEF n
  <2> QED BY <2>1, <2>2, <1>2 DEF RegisterInv
<1>4. /\ Plus(values[p][Slot(n)].low, pkt.low) = low
      /\ Plus(values[p][Slot(n)].high, pkt.high) = high
      /\ pkt.psn = n
  <2>1. Covered(B) \cap Under(m) = {} /\ Covered(NB) = Covered(B) \cup Under(m)
    BY <1>3, CoveredAdd
  <2>2. /\ Plus(Sum(Covered(B), n, "low"), Sum(Under(m), n, "low")) = low
        /\ Plus(Sum(Covered(B), n, "high"), Sum(Under(m), n, "high")) = high
    BY <2>1, SumUnion
  <2> QED BY <2>2, <1>1, <1>3 DEF Partial
<1>5. /\ link' = [link EXCEPT ![m] = Tail(@)]
      /\ bitmap' = [bitmap EXCEPT ![p][Slot(n)] = NB]
      /\ values' = [values EXCEPT ![p][Slot(n)] = [low |-> low, high |-> high]]
      /\ recirc' = IF NB = FullBitmap(p)
                   THEN [recirc EXCEPT ![p] = Append(@, [pkt EXCEPT !.low = low])]
                   ELSE recirc
      /\ UNCHANGED <<sent, cleared, down, result>>
  BY <1>3, <1>4 DEF Aggregate
<1> HIDE DEF p, n, pkt, B, NB, low, high
<1>6. /\ Arrived(m)' = n + 1
      /\ \A x \in Inputs : x # m => Arrived(x)' = Arrived(x) /\ link[x]' = link[x]
  <2>1. \A x \in Inputs : SentBy(x)' = SentBy(x)
    BY <1>5 DEF SentBy
  <2>2. \A a \in Nat, l \in Nat : a - (l - 1) = (a - l) + 1
    OBVIOUS
  <2>3. Arrived(m)' = n + 1
    BY <1>1, <2>1, <2>2, CounterTypes DEF Arrived, n
  <2>4. ASSUME NEW x \in Inputs, x # m PROVE Arrived(x)' = Arrived(x) /\ link[x]' = link[x]
    BY <2>1, <2>4, <1>5 DEF Arrived, TypeOK
  <2> QED BY <2>3, <2>4
<1>7. LinkInv'
  <2> SUFFICES ASSUME NEW x \in Inputs
               PROVE  /\ Arrived(x)' >= 0
                      /\ \A i \in 1 .. Len(link[x]') :
                            link[x]'[i] = Partial(Under(x), Arrived(x)' + i - 1)
    BY DEF LinkInv
  <2>1. CASE x # m
    BY <2>1, <1>6 DEF LinkInv
  <2>2. CASE x = m
    <3>1. Arrived(m)' >= 0
      BY <1>2, <1>6
    <3>2. ASSUME NEW i \in 1 .. Len(link[m]')
          PROVE  link[m]'[i] = Partial(Under(m), Arrived(m)' + i - 1)
      <4>1. i \in Nat /\ i + 1 \in 1 .. Len(link[m])
        BY <1>1
      <4>2. n + (i + 1) - 1 = Arrived(m)' + i - 1
        BY <1>2, <1>6, <4>1
      <4>3. link[m][i + 1] = Partial(Under(m), n + (i + 1) - 1)
        BY <4>1 DEF LinkInv, n
      <4> QED BY <1>1, <4>2, <4>3
    <3> QED BY <2>2, <3>1, <3>2
  <2> QED BY <2>1, <2>2
<1>8. DownInv' /\ WindowInv' /\ ResultsExact'
  BY <1>5 DEF DownInv, WindowInv, ResultsExact
\* The packet that fills a bitmap carries the PSN the pipe is to complete next.
<1>9. NB = FullBitmap(p) => n = Triggered(p)
  <2> SUFFICES ASSUME NB = FullBitmap(p) PROVE n = Triggered(p)
    OBVIOUS
  <2>1. PICK x \in FullBitmap(p) : Arrived(x) <= Triggered(p)
    BY <1>2 DEF TriggerInv
  <2>2. x \in Inputs /\ Arrived(x) \in Int
    BY CounterTypes DEF FullBitmap
  <2>3. CASE x = m
    BY <2>1, <2>3, <1>2 DEF n
  <2>4. CASE x # m
    <3>1. Arrived(x) > n
      BY <2>4 DEF NB, B
    <3> QED BY <3>1, <2>1, <2>2, <1>2
  <2> QED BY <2>3, <2>4
<1>10. ASSUME NB = FullBitmap(p) PROVE RecircInv' /\ TriggerInv'
  <2> DEFINE pkt2 == [pkt EXCEPT !.low = low]
  <2>1. /\ recirc'[p] = Append(recirc[p], pkt2) /\ recirc[p] \in Seq(Packets)
        /\ \A q \in ActivePipes : q # p => recirc'[q] = recirc[q]
    BY <1>2, <1>5, <1>10 DEF TypeOK
  <2>2. pkt2 \in Packets /\ pkt2.psn = n
        /\ pkt2.low = Sum(Covered(FullBitmap(p)), n, "low")
    <3>1. low \in Payloads
      BY SumFacts DEF low
    <3> QED BY <3>1, <1>1, <1>4, <1>10 DEF low, Packets
  <2> HIDE DEF pkt2
  <2>3. /\ Len(recirc'[p]) = Len(recirc[p]) + 1
        /\ \A i \in 1 .. Len(recirc[p]) : recirc'[p][i] = recirc[p][i]
        /\ recirc'[p][Len(recirc[p]) + 1] = pkt2
    BY <2>1, <2>2, AppendFacts
  <2>4. Len(recirc[p]) \in Nat /\ n = cleared[p] + Len(recirc[p])
    BY <1>2, <1>9, <1>10, CounterTypes DEF Triggered
  <2>5. /\ Triggered(p)' = n + 1
        /\ \A q \in ActivePipes : q # p => Triggered(q)' = Triggered(q)
    <3>1. cleared' = cleared
      BY <1>5
    <3>2. \A a, b \in Nat : a + (b + 1) = (a + b) + 1
      OBVIOUS
    <3>3. Triggered(p)' = cleared[p] + (Len(recirc[p]) + 1)
      BY <2>3, <3>1 DEF Triggered
    <3>4. Triggered(p)' = n + 1
      BY <2>4, <3>2, <3>3, <1>2
    <3>5. \A q \in ActivePipes : q # p => Triggered(q)' = Triggered(q)
      BY <2>1, <3>1 DEF Triggered
    <3> QED BY <3>4, <3>5
  <2>6. RecircInv'
    <3> SUFFICES ASSUME NEW q \in ActivePipes, NEW i \in 1 .. Len(recirc'[q])
                 PROVE  /\ recirc'[q][i].psn = cleared[q] + i - 1
                        /\ recirc'[q][i].low =
                             Sum(Covered(FullBitmap(q)), cleared[q] + i - 1, "low")
      BY <1>5 DEF RecircInv
    <3>1. CASE q # p
      BY <3>1, <2>1 DEF RecircInv
    <3>2. CASE q = p
      <4>1. i \in 1 .. Len(recirc[p]) \/ i = Len(recirc[p]) + 1
        BY <3>2, <2>3, <2>4
      <4>2. cleared[p] + (Len(recirc[p]) + 1) - 1 = n
        BY <2>4, <1>2
      <4>3. CASE i \in 1 .. Len(recirc[p])
        BY <3>2, <4>3, <2>3 DEF RecircInv
      <4>4. CASE i = Len(recirc[p]) + 1
        BY <3>2, <4>2, <4>4, <2>2, <2>3
      <4> QED BY <4>1, <4>3, <4>4
    <3> QED BY <3>1, <3>2
  <2>7. TriggerInv'
    <3> SUFFICES ASSUME NEW q \in ActivePipes
                 PROVE  /\ \A x \in FullBitmap(q) : Triggered(q)' <= Arrived(x)'
                        /\ \E x \in FullBitmap(q) : Arrived(x)' <= Triggered(q)'
      BY DEF TriggerInv, FullBitmap
    <3>1. CASE q # p
      <4>1. \A x \in FullBitmap(q) : x # m /\ x \in Inputs
        BY <3>1 DEF FullBitmap, p
      <4> QED BY <3>1, <4>1, <1>6, <2>5 DEF TriggerInv
    <3>2. CASE q = p
      <4>1. ASSUME NEW x \in FullBitmap(p) PROVE n + 1 <= Arrived(x)'
        <5>1. x \in Inputs /\ Arrived(x) \in Int
          BY CounterTypes DEF FullBitmap
        <5>2. CASE x = m
          BY <5>2, <1>2, <1>6
        <5>3. CASE x # m
          <6>1. Arrived(x) > n
            BY <5>3, <1>10 DEF NB, B
          <6> QED BY <6>1, <5>1, <5>3, <1>2, <1>6
        <5> QED BY <5>2, <5>3
      <4>2. Arrived(m)' <= n + 1
        BY <1>2, <1>6
      <4> QED BY <3>2, <4>1, <4>2, <2>5, <1>2
    <3> QED BY <3>1, <3>2
  <2> QED BY <2>6, <2>7
<1>11. ASSUME NB # FullBitmap(p) PROVE RecircInv' /\ TriggerInv'
  <2>1. recirc' = recirc /\ cleared' = cleared
    BY <1>5, <1>11
  <2>2. \A q \in ActivePipes : Triggered(q)' = Triggered(q)
    BY <2>1 DEF Triggered
  <2>3. RecircInv'
    BY <2>1 DEF RecircInv
  <2>4. TriggerInv'
    <3> SUFFICES ASSUME NEW q \in ActivePipes
                 PROVE  /\ \A x \in FullBitmap(q) : Triggered(q) <= Arrived(x)'
                        /\ \E x \in FullBitmap(q) : Arrived(x)' <= Triggered(q)
      BY <2>2 DEF TriggerInv, FullBitmap
    <3>1. CASE q # p
      <4>1. \A x \in FullBitmap(q) : x # m /\ x \in Inputs
        BY <3>1 DEF FullBitmap, p
      <4> QED BY <3>1, <4>1, <1>6 DEF TriggerInv
    <3>2. CASE q = p
      <4>1. ASSUME NEW x \in FullBitmap(p) PROVE Triggered(p) <= Arrived(x)'
        <5>1. x \in Inputs
          BY DEF FullBitmap
        <5>2. CASE x = m
          BY <5>2, <1>2, <1>6
        <5>3. CASE x # m
          BY <5>1, <5>3, <1>2, <1>6 DEF TriggerInv
        <5> QED BY <5>2, <5>3
      <4>2. PICK x \in FullBitmap(p) : Arrived(x) <= Triggered(p)
        BY <1>2 DEF TriggerInv
      <4>3. \E y \in FullBitmap(p) : Arrived(y)' <= Triggered(p)
        <5>1. CASE x # m
          <6>1. x \in Inputs
            BY DEF FullBitmap
          <6> QED BY <6>1, <5>1, <4>2, <1>6
        <5>2. CASE x = m
          <6>1. n = Triggered(p)
            BY <5>2, <4>2, <1>2 DEF n
          <6>2. PICK y \in FullBitmap(p) : y \notin NB
            BY <1>2, <1>3, <1>11 DEF NB
          <6>3. y \in Inputs /\ y # m /\ ~(Arrived(y) > n) /\ Arrived(y) \in Int
            BY <6>2, CounterTypes DEF NB, B, FullBitmap
          <6> QED BY <6>1, <6>3, <1>2, <1>6
        <5> QED BY <5>1, <5>2
      <4> QED BY <3>2, <4>1, <4>3
    <3> QED BY <3>1, <3>2
  <2> QED BY <2>3, <2>4
<1>12. RegisterInv'
  <2> SUFFICES ASSUME NEW q \in ActivePipes,
                      NEW k \in cleared[q] .. cleared[q] + Slots - 1
               PROVE  LET here == {x \in FullBitmap(q) : Arrived(x)' > k}
                      IN  /\ bitmap'[q][Slot(k)] = here
                          /\ values'[q][Slot(k)] =
                               [low |-> Sum(Covered(here), k, "low"),
                                high |-> Sum(Covered(here), k, "high")]
    BY <1>5 DEF RegisterInv, FullBitmap
  <2> DEFINE before == {x \in FullBitmap(q) : Arrived(x) > k}
             after == {x \in FullBitmap(q) : Arrived(x)' > k}
  <2>1. /\ bitmap[q][Slot(k)] = before
        /\ values[q][Slot(k)] = [low |-> Sum(Covered(before), k, "low"),
                                 high |-> Sum(Covered(before), k, "high")]
    BY DEF RegisterInv
  <2>2. k \in Nat /\ Slot(k) \in 0 .. Slots - 1 /\ Slot(n) \in 0 .. Slots - 1
    <3>1. k \in Nat
      BY CounterTypes
    <3> QED BY <3>1, <1>2, SlotFacts
  <2>3. CASE q = p /\ k = n
    <3>1. after = NB
      <4>1. ASSUME NEW x \in FullBitmap(p) PROVE Arrived(x)' > n <=> x \in NB
        <5>1. CASE x = m
          BY <5>1, <1>2, <1>6 DEF NB
        <5>2. CASE x # m
          BY <5>2, <1>6 DEF NB, B, FullBitmap
        <5> QED BY <5>1, <5>2
      <4> QED BY <4>1, <2>3, <1>2 DEF NB, B
    <3>2. bitmap'[p][Slot(n)] = NB /\ values'[p][Slot(n)] = [low |-> low, high |-> high]
      BY <1>2, <1>5, <2>2 DEF TypeOK
    <3> QED BY <2>3, <3>1, <3>2 DEF low, high
  <2>4. CASE ~(q = p /\ k = n)
    <3>1. after = before
      <4>1. ASSUME NEW x \in FullBitmap(q) PROVE Arrived(x)' > k <=> Arrived(x) > k
        <5>1. CASE x = m
          <6>1. q = p /\ k # n
            BY <5>1, <2>4 DEF FullBitmap, p
          <6>2. \A a, b \in Nat : b # a => (a + 1 > b <=> a > b)
            OBVIOUS
          <6> QED BY <5>1, <6>1, <6>2, <1>2, <1>6, <2>2 DEF n
        <5>2. CASE x # m
          BY <5>2, <1>6 DEF FullBitmap
        <5> QED BY <5>1, <5>2
      <4> QED BY <4>1
    <3>2. q = p => Slot(k) # Slot(n)
      <4> SUFFICES ASSUME q = p, Slot(k) = Slot(n) PROVE FALSE
        OBVIOUS
      <4>1. k < n + Slots /\ n < k + Slots
        <5>1. cleared[p] <= k /\ k < cleared[p] + Slots
          BY <1>2
        <5>2. \A a, b, c, w \in Nat : a <= b /\ b < a + w /\ a <= c /\ c < a + w
                                         => b < c + w /\ c < b + w
          OBVIOUS
        <5>3. cleared[p] <= n
          BY <1>2
        <5> QED BY <5>1, <5>2, <5>3, <1>2, <2>2
      <4>2. k = n
        BY <4>1, <2>2, <1>2, SlotFacts
      <4> QED BY <4>2, <2>4
    <3>3. bitmap'[q][Slot(k)] = bitmap[q][Slot(k)] /\ values'[q][Slot(k)] = values[q][Slot(k)]
      BY <3>2, <1>2, <1>5, <2>2 DEF TypeOK
    <3> QED BY <2>1, <3>1, <3>3
  <2> QED BY <2>3, <2>4
<1> QED BY <1>7, <1>8, <1>10, <1>11, <1>12

\* The second pass (clear actions, distribution or transfer to pipe 3) preserves
\* the invariant.
LEMMA ClearStep ==
    ASSUME IInv, TypeOK', NEW p \in ActivePipes, Clear(p)
    PROVE  IInv'
<1> USE DEF IInv
<1> DEFINE n == cleared[p]
           pkt == Head(recirc[p])
           F == FullBitmap(p)
           out == Partial(Covered(F), n)
\* The packet at the head of the recirculation queue completes PSN n.
<1>1. /\ Len(recirc[p]) \in Nat \ {0}
      /\ pkt.psn = n /\ pkt.low = Sum(Covered(F), n, "low") /\ pkt \in Packets
      /\ Len(Tail(recirc[p])) = Len(recirc[p]) - 1
      /\ \A i \in 1 .. Len(Tail(recirc[p])) : Tail(recirc[p])[i] = recirc[p][i + 1]
  <2>1. recirc[p] \in Seq(Packets) /\ recirc[p] # <<>>
    BY DEF TypeOK, Clear
  <2>2. /\ Len(recirc[p]) \in Nat \ {0} /\ pkt = recirc[p][1] /\ pkt \in Packets
        /\ Len(Tail(recirc[p])) = Len(recirc[p]) - 1
        /\ \A i \in 1 .. Len(Tail(recirc[p])) : Tail(recirc[p])[i] = recirc[p][i + 1]
    BY <2>1, HeadTail
  <2>3. 1 \in 1 .. Len(recirc[p]) /\ n + 1 - 1 = n
    BY <2>2, CounterTypes
  <2>4. /\ recirc[p][1].psn = n + 1 - 1
        /\ recirc[p][1].low = Sum(Covered(F), n + 1 - 1, "low")
    BY <2>3 DEF RecircInv
  <2> HIDE DEF n, pkt, F
  <2> QED BY <2>2, <2>3, <2>4
<1>2. n \in Nat /\ Slots \in Nat \ {0} /\ Slot(n) \in 0 .. Slots - 1
  BY CounterTypes, FabricAssumption, SlotFacts
\* Every input has delivered PSN n, so the slot holds the complete sums.
<1>3. \A x \in F : x \in Inputs /\ Arrived(x) > n /\ Arrived(x) <= n + Slots
  <2> SUFFICES ASSUME NEW x \in F
               PROVE  x \in Inputs /\ Arrived(x) > n /\ Arrived(x) <= n + Slots
    OBVIOUS
  <2>1. x \in Inputs /\ PipeAt(x) = p
    BY DEF FullBitmap
  <2>2. /\ Triggered(p) <= Arrived(x) /\ Arrived(x) <= SentBy(x)
        /\ SentBy(x) <= n + Slots
    BY <2>1, SentInWindow
  <2>3. Triggered(p) = n + Len(recirc[p])
    BY DEF Triggered
  <2>4. Arrived(x) \in Int /\ SentBy(x) \in Nat
    BY <2>1, CounterTypes
  <2> HIDE DEF n
  <2>5. \A a, s \in Int, b, w \in Nat, l \in Nat \ {0} :
           b + l <= a /\ a <= s /\ s <= b + w => a > b /\ a <= b + w
    OBVIOUS
  <2> QED BY <2>1, <2>2, <2>3, <2>4, <2>5, <1>1, <1>2
<1>4. values[p][Slot(n)].high = Sum(Covered(F), n, "high")
  <2>1. n \in n .. n + Slots - 1
    BY <1>2
  <2>2. {x \in F : Arrived(x) > n} = F
    BY <1>3
  <2> HIDE DEF n, F
  <2>3. values[p][Slot(n)] =
          LET here == {x \in FullBitmap(p) : Arrived(x) > n}
          IN  [low |-> Sum(Covered(here), n, "low"), high |-> Sum(Covered(here), n, "high")]
    BY <2>1 DEF RegisterInv, n
  <2>4. {x \in FullBitmap(p) : Arrived(x) > n} = F
    BY <2>2 DEF F
  <2> QED BY <2>3, <2>4
<1>5. [pkt EXCEPT !.high = values[p][Slot(n)].high] = out
  <2> HIDE DEF n, F, pkt
  <2> QED BY <1>1, <1>4 DEF Partial, Packets
<1>6. /\ recirc' = [recirc EXCEPT ![p] = Tail(@)]
      /\ cleared' = [cleared EXCEPT ![p] = @ + 1]
      /\ bitmap' = [bitmap EXCEPT ![p][Slot(n)] = {}]
      /\ values' = [values EXCEPT ![p][Slot(n)] = [low |-> Zero, high |-> Zero]]
      /\ IF p \in Upstream
         THEN link' = [link EXCEPT ![p] = Append(@, out)] /\ UNCHANGED down
         ELSE down' = [c \in Clients |-> Append(down[c], out)] /\ UNCHANGED link
      /\ UNCHANGED <<sent, result>>
  BY <1>1, <1>5 DEF Clear
<1>7. out \in Packets
  <2>1. n \in Psns
    BY <1>1 DEF Packets
  <2> QED BY <2>1, PartialType
<1> HIDE DEF n, pkt, F, out
<1>8. /\ cleared'[p] = n + 1
      /\ \A q \in ActivePipes : q # p => cleared'[q] = cleared[q] /\ recirc'[q] = recirc[q]
      /\ Len(recirc'[p]) = Len(recirc[p]) - 1
      /\ \A i \in 1 .. Len(recirc'[p]) : recirc'[p][i] = recirc[p][i + 1]
  <2>1. recirc'[p] = Tail(recirc[p])
    BY <1>6 DEF TypeOK
  <2> QED BY <2>1, <1>1, <1>6 DEF TypeOK, n
<1>9. \A q \in ActivePipes : Triggered(q)' = Triggered(q)
  <2>1. \A a \in Nat, l \in Nat \ {0} : (a + 1) + (l - 1) = a + l
    OBVIOUS
  <2>2. Triggered(p)' = (n + 1) + (Len(recirc[p]) - 1)
    BY <1>8 DEF Triggered
  <2>3. Triggered(p) = n + Len(recirc[p])
    BY DEF Triggered, n
  <2>4. Triggered(p)' = Triggered(p)
    BY <2>1, <2>2, <2>3, <1>1, <1>2
  <2> QED BY <2>4, <1>8 DEF Triggered
\* What leaves an upstream pipe is on the link to pipe 3.
<1>10. ASSUME p \in Upstream
       PROVE  /\ p \in Inputs /\ p \notin Clients
              /\ Len(link'[p]) = Len(link[p]) + 1
              /\ \A i \in 1 .. Len(link[p]) : link'[p][i] = link[p][i]
              /\ link'[p][Len(link[p]) + 1] = out
              /\ \A x \in Inputs : x # p => link'[x] = link[x]
  <2>1. p \in Inputs /\ p \notin Clients
    BY <1>10, UpstreamFeedsRoot
  <2>2. link[p] \in Seq(Packets) /\ link'[p] = Append(link[p], out)
    BY <1>6, <1>10, <2>1 DEF TypeOK
  <2>3. \A x \in Inputs : x # p => link'[x] = link[x]
    BY <1>6, <1>10 DEF TypeOK
  <2> QED BY <2>1, <2>2, <2>3, <1>7, AppendFacts
<1>11. \A x \in Inputs : Arrived(x)' = Arrived(x)
  <2> SUFFICES ASSUME NEW x \in Inputs PROVE Arrived(x)' = Arrived(x)
    OBVIOUS
  <2>1. CASE p \in Upstream /\ x = p
    <3>1. SentBy(x)' = n + 1 /\ SentBy(x) = n
      BY <2>1, <1>8, <1>10 DEF SentBy, n
    <3>2. \A a, l \in Nat : (a + 1) - (l + 1) = a - l
      OBVIOUS
    <3>3. Arrived(p)' = (n + 1) - (Len(link[p]) + 1) /\ Arrived(p) = n - Len(link[p])
      BY <2>1, <3>1, <1>10 DEF Arrived
    <3>4. Len(link[p]) \in Nat
      BY <2>1, CounterTypes
    <3> QED BY <2>1, <3>2, <3>3, <3>4, <1>2
  <2>2. CASE ~(p \in Upstream /\ x = p)
    <3>1. SentBy(x)' = SentBy(x)
      <4>1. CASE x \in Clients
        BY <4>1, <1>6 DEF SentBy
      <4>2. CASE x \notin Clients
        <5>1. x \in Upstream /\ x \in ActivePipes /\ x # p
          BY <4>2, <2>2, TreeFacts DEF Inputs
        <5> QED BY <4>2, <5>1, <1>8 DEF SentBy
      <4> QED BY <4>1, <4>2
    <3>2. link'[x] = link[x]
      BY <2>2, <1>6, <1>10
    <3> QED BY <3>1, <3>2 DEF Arrived
  <2> QED BY <2>1, <2>2
<1>12. LinkInv'
  <2> SUFFICES ASSUME NEW x \in Inputs
               PROVE  /\ Arrived(x) >= 0
                      /\ \A i \in 1 .. Len(link'[x]) :
                            link'[x][i] = Partial(Under(x), Arrived(x) + i - 1)
    BY <1>11 DEF LinkInv
  <2>1. Arrived(x) >= 0 /\ \A i \in 1 .. Len(link[x]) :
                              link[x][i] = Partial(Under(x), Arrived(x) + i - 1)
    BY DEF LinkInv
  <2>2. CASE ~(p \in Upstream /\ x = p)
    <3>1. link'[x] = link[x]
      BY <2>2, <1>6, <1>10
    <3> QED BY <2>1, <3>1
  <2>3. CASE p \in Upstream /\ x = p
    <3>1. Len(link[p]) \in Nat /\ p \in Inputs
      BY <2>3, CounterTypes
    <3>2. Arrived(p) + (Len(link[p]) + 1) - 1 = n
      <4>1. Arrived(p) = n - Len(link[p])
        BY <2>3, <1>10 DEF Arrived, SentBy, n
      <4> QED BY <4>1, <3>1, <1>2
    <3>3. Covered(F) = Under(p)
      BY <2>3, UpstreamCovers DEF F
    <3>4. \A i \in 1 .. Len(link[p]) + 1 : i \in 1 .. Len(link[p]) \/ i = Len(link[p]) + 1
      BY <3>1
    <3>5. link'[p][Len(link[p]) + 1] = Partial(Under(p), Arrived(p) + (Len(link[p]) + 1) - 1)
      BY <2>3, <3>2, <3>3, <1>10 DEF out
    <3> QED BY <2>1, <2>3, <3>4, <3>5, <1>10
  <2> QED BY <2>2, <2>3
<1>13. RecircInv'
  <2> SUFFICES ASSUME NEW q \in ActivePipes, NEW i \in 1 .. Len(recirc'[q])
               PROVE  /\ recirc'[q][i].psn = cleared'[q] + i - 1
                      /\ recirc'[q][i].low =
                           Sum(Covered(FullBitmap(q)), cleared'[q] + i - 1, "low")
    BY DEF RecircInv
  <2>1. CASE q # p
    BY <2>1, <1>8 DEF RecircInv
  <2>2. CASE q = p
    <3>1. i \in Nat /\ i + 1 \in 1 .. Len(recirc[p])
      BY <2>2, <1>1, <1>8
    <3>2. n + (i + 1) - 1 = cleared'[p] + i - 1
      BY <3>1, <1>2, <1>8
    <3>3. /\ recirc[p][i + 1].psn = n + (i + 1) - 1
          /\ recirc[p][i + 1].low = Sum(Covered(FullBitmap(p)), n + (i + 1) - 1, "low")
      BY <3>1 DEF RecircInv, n
    <3> QED BY <2>2, <3>2, <3>3, <1>8
  <2> QED BY <2>1, <2>2
<1>14. DownInv'
  <2>1. CASE p \in Upstream
    <3>1. \A q \in ActivePipes \ Upstream : cleared'[q] = cleared[q]
      BY <2>1, <1>8
    <3> QED BY <2>1, <3>1, <1>6 DEF DownInv
  <2>2. CASE p \notin Upstream
    <3> SUFFICES ASSUME NEW c \in Clients
                 PROVE  /\ \A q \in ActivePipes \ Upstream :
                              Len(result[c]) + Len(down'[c]) = cleared'[q]
                        /\ \A i \in 1 .. Len(down'[c]) :
                              down'[c][i] = Exact(Len(result[c]) + i - 1)
      BY <1>6 DEF DownInv
    <3>1. \A q \in ActivePipes \ Upstream : q = p
      BY <2>2, TreeFacts
    <3>2. /\ Len(down'[c]) = Len(down[c]) + 1
          /\ \A i \in 1 .. Len(down[c]) : down'[c][i] = down[c][i]
          /\ down'[c][Len(down[c]) + 1] = out
      <4>1. down'[c] = Append(down[c], out) /\ down[c] \in Seq(Packets)
        BY <2>2, <1>6 DEF TypeOK
      <4> QED BY <4>1, <1>7, AppendFacts
    <3>3. Len(result[c]) + Len(down[c]) = n
      BY <2>2 DEF DownInv, n
    <3>4. Len(result[c]) \in Nat /\ Len(down[c]) \in Nat
      BY CounterTypes
    <3>5. Len(result[c]) + Len(down'[c]) = n + 1
      <4>1. \A a, b \in Nat : a + (b + 1) = (a + b) + 1
        OBVIOUS
      <4> QED BY <4>1, <3>2, <3>3, <3>4
    <3>6. out = Exact(Len(result[c]) + (Len(down[c]) + 1) - 1)
      <4>1. Len(result[c]) + (Len(down[c]) + 1) - 1 = n
        <5>1. \A a, b \in Nat : a + (b + 1) - 1 = a + b
          OBVIOUS
        <5> QED BY <5>1, <3>3, <3>4
      <4>2. Covered(F) = Clients
        BY <2>2, RootCovers DEF F
      <4> QED BY <4>1, <4>2 DEF out, Exact
    <3>7. \A i \in 1 .. Len(down[c]) + 1 : i \in 1 .. Len(down[c]) \/ i = Len(down[c]) + 1
      BY <3>4
    <3> QED BY <3>1, <3>2, <3>5, <3>6, <3>7, <1>8 DEF DownInv
  <2> QED BY <2>1, <2>2
<1>15. TriggerInv'
  BY <1>9, <1>11 DEF TriggerInv, FullBitmap
<1>16. WindowInv' /\ ResultsExact'
  BY <1>6 DEF WindowInv, ResultsExact
<1>17. RegisterInv'
  <2> SUFFICES ASSUME NEW q \in ActivePipes,
                      NEW k \in cleared'[q] .. cleared'[q] + Slots - 1
               PROVE  LET here == {x \in FullBitmap(q) : Arrived(x)' > k}
                      IN  /\ bitmap'[q][Slot(k)] = here
                          /\ values'[q][Slot(k)] =
                               [low |-> Sum(Covered(here), k, "low"),
                                high |-> Sum(Covered(here), k, "high")]
    BY DEF RegisterInv, FullBitmap
  <2>1. {x \in FullBitmap(q) : Arrived(x)' > k} = {x \in FullBitmap(q) : Arrived(x) > k}
    BY <1>11 DEF FullBitmap
  <2> DEFINE here == {x \in FullBitmap(q) : Arrived(x) > k}
  <2>2. CASE q # p
    <3>1. bitmap'[q] = bitmap[q] /\ values'[q] = values[q] /\ cleared'[q] = cleared[q]
      BY <2>2, <1>6, <1>8 DEF TypeOK
    <3> QED BY <2>1, <3>1 DEF RegisterInv
  <2>3. CASE q = p /\ k = n + Slots
    <3>1. Slot(k) = Slot(n)
      BY <2>3, <1>2, SlotFacts
    <3>2. bitmap'[p][Slot(n)] = {} /\ values'[p][Slot(n)] = [low |-> Zero, high |-> Zero]
      BY <1>2, <1>6 DEF TypeOK
    <3>3. here = {}
      <4> SUFFICES ASSUME NEW x \in F, Arrived(x) > n + Slots PROVE FALSE
        BY <2>3 DEF F
      <4>1. Arrived(x) <= n + Slots /\ Arrived(x) \in Int
        BY <1>3, CounterTypes
      <4> QED BY <4>1, <1>2
    <3>4. Covered({}) = {}
      BY DEF Covered
    <3>5. Sum({}, k, "low") = Zero /\ Sum({}, k, "high") = Zero
      BY SumFacts
    <3> QED BY <2>1, <2>3, <3>1, <3>2, <3>3, <3>4, <3>5
  <2>4. CASE q = p /\ k # n + Slots
    <3>1. k \in n .. n + Slots - 1 /\ k \in Nat /\ k # n
      BY <2>4, <1>2, <1>8
    <3>2. Slot(k) # Slot(n)
      <4> SUFFICES ASSUME Slot(k) = Slot(n) PROVE FALSE
        OBVIOUS
      <4>1. k < n + Slots /\ n < k + Slots
        BY <3>1, <1>2
      <4> QED BY <4>1, <3>1, <1>2, SlotFacts
    <3>3. bitmap'[p][Slot(k)] = bitmap[p][Slot(k)] /\ values'[p][Slot(k)] = values[p][Slot(k)]
      <4>1. Slot(k) \in 0 .. Slots - 1
        BY <3>1, SlotFacts
      <4> QED BY <3>2, <4>1, <1>2, <1>6 DEF TypeOK
    <3> QED BY <2>1, <2>4, <3>1, <3>3 DEF RegisterInv, n
  <2> QED BY <2>2, <2>3, <2>4
<1> QED BY <1>12, <1>13, <1>14, <1>15, <1>16, <1>17

\* The cleared switch satisfies the invariant.
LEMMA InitIInv == FabricInit => IInv
<1> SUFFICES ASSUME FabricInit PROVE IInv
  OBVIOUS
<1>1. TypeOK
  BY TypeInit
<1>0. Len(<<>>) = 0
  OBVIOUS
<1>2. \A m \in Inputs : Arrived(m) = 0 /\ Len(link[m]) = 0
  <2> SUFFICES ASSUME NEW m \in Inputs PROVE Arrived(m) = 0 /\ Len(link[m]) = 0
    OBVIOUS
  <2>1. Len(link[m]) = 0
    BY <1>0 DEF FabricInit
  <2>2. CASE m \in Clients
    <3>1. SentBy(m) = 0
      BY <2>2 DEF FabricInit, SentBy
    <3> QED BY <2>1, <3>1 DEF Arrived
  <2>3. CASE m \notin Clients
    <3>1. SentBy(m) = 0
      <4>1. m \in ActivePipes
        BY <2>3, TreeFacts DEF Inputs
      <4> QED BY <2>3, <4>1 DEF FabricInit, SentBy
    <3> QED BY <2>1, <3>1 DEF Arrived
  <2> QED BY <2>2, <2>3
<1>3. \A p \in ActivePipes : Triggered(p) = 0 /\ Len(recirc[p]) = 0 /\ cleared[p] = 0
  BY <1>0 DEF FabricInit, Triggered
<1>4. \A c \in Clients : Len(result[c]) = 0 /\ Len(down[c]) = 0 /\ sent[c] = 0
  BY <1>0 DEF FabricInit
<1>5. LinkInv /\ RecircInv /\ DownInv /\ ResultsExact
  <2>0. 1 .. 0 = {}
    OBVIOUS
  <2>1. LinkInv
    BY <1>2, <2>0 DEF LinkInv
  <2>2. RecircInv
    BY <1>3 DEF RecircInv
  <2>3. DownInv
    <3> SUFFICES ASSUME NEW c \in Clients
                 PROVE  /\ \A p \in ActivePipes \ Upstream :
                              Len(result[c]) + Len(down[c]) = cleared[p]
                        /\ \A i \in 1 .. Len(down[c]) :
                              down[c][i] = Exact(Len(result[c]) + i - 1)
      BY DEF DownInv
    <3>1. Len(result[c]) = 0 /\ Len(down[c]) = 0 /\ 0 + 0 = 0
      BY <1>4
    <3>2. \A p \in ActivePipes \ Upstream : cleared[p] = 0
      BY <1>3
    <3> QED BY <3>1, <3>2, <2>0
  <2>4. ResultsExact
    BY <1>4 DEF ResultsExact
  <2> QED BY <2>1, <2>2, <2>3, <2>4
<1>6. TriggerInv
  <2>1. \A p \in ActivePipes : FullBitmap(p) # {} /\ FullBitmap(p) \subseteq Inputs
    BY TreeFacts DEF FullBitmap
  <2> QED BY <1>2, <1>3, <2>1 DEF TriggerInv
<1>7. WindowInv
  <2>1. \A c \in Clients : sent[c] = 0 /\ Len(result[c]) = 0
    BY <1>4
  <2>2. 0 <= 0 + Slots
    BY FabricAssumption
  <2> QED BY <2>1, <2>2 DEF WindowInv
<1>8. RegisterInv
  <2> SUFFICES ASSUME NEW p \in ActivePipes, NEW n \in 0 .. Slots - 1
               PROVE  LET here == {m \in FullBitmap(p) : Arrived(m) > n}
                      IN  /\ bitmap[p][Slot(n)] = here
                          /\ values[p][Slot(n)] =
                               [low |-> Sum(Covered(here), n, "low"),
                                high |-> Sum(Covered(here), n, "high")]
    BY <1>3, FabricAssumption DEF RegisterInv
  <2>1. {m \in FullBitmap(p) : Arrived(m) > n} = {}
    BY <1>2, FabricAssumption DEF FullBitmap
  <2>2. Slot(n) \in 0 .. Slots - 1
    BY SlotFacts, FabricAssumption
  <2>3. Covered({}) = {} /\ Sum({}, n, "low") = Zero /\ Sum({}, n, "high") = Zero
    BY SumFacts DEF Covered
  <2> QED BY <2>1, <2>2, <2>3 DEF FabricInit
<1> QED BY <1>1, <1>5, <1>6, <1>7, <1>8 DEF IInv

\* A step of clients or switch keeps the invariant.
LEMMA InvariantStep == IInv /\ [FabricNext]_fabricVars => IInv'
<1> SUFFICES ASSUME IInv, [FabricNext]_fabricVars, TypeOK' PROVE IInv'
  BY TypeStep DEF IInv
<1>1. CASE UNCHANGED fabricVars
  <2>1. LinkInv' /\ RecircInv' /\ TriggerInv' /\ RegisterInv'
    BY <1>1, PipesUnchanged DEF fabricVars
  <2>2. DownInv' /\ WindowInv' /\ ResultsExact'
    BY <1>1 DEF fabricVars, IInv, DownInv, WindowInv, ResultsExact
  <2> QED BY <2>1, <2>2 DEF IInv
<1> QED BY <1>1, InjectStep, AggregateStep, ClearStep, DeliverStep
        DEF FabricNext, Switch, Finished

\* The inductive invariant: packets are consecutive on every queue, each slot of a
\* pipe belongs to the one PSN of the pipe's window that selects it and holds
\* exactly the sums of the inputs that have delivered that PSN.
THEOREM Invariance == FabricSpec => []IInv
BY InitIInv, InvariantStep, PTL DEF FabricSpec

-----------------------------------------------------------------------------
(* What the inductive invariant gives: every safety property, and that the  *)
(* switch implements the abstract collective.                               *)

\* Every slot of a pipe is selected by some PSN of the pipe's window.
LEMMA SlotCover ==
    ASSUME NEW a \in Nat, NEW s \in 0 .. Slots - 1
    PROVE  \E n \in a .. a + Slots - 1 : Slot(n) = s
<1> DEFINE q == a \div Slots
           u == a % Slots
<1>1. /\ Slots \in Nat \ {0} /\ q \in Int /\ u \in 0 .. Slots - 1
      /\ a = Slots * q + u
  BY FabricAssumption, DivisionFacts
<1> HIDE DEF q, u
<1>2. CASE s >= u
  <2>1. /\ a + (s - u) \in Nat /\ a + (s - u) \in a .. a + Slots - 1
        /\ a + (s - u) = Slots * q + s
    BY <1>1, <1>2
  <2>2. Slot(a + (s - u)) = s
    BY <1>1, <2>1, ModOf DEF Slot
  <2> QED BY <2>1, <2>2
<1>3. CASE s < u
  <2>1. /\ a + (s - u) + Slots \in Nat /\ a + (s - u) + Slots \in a .. a + Slots - 1
        /\ a + (s - u) + Slots = Slots * (q + 1) + s /\ q + 1 \in Int
    BY <1>1, <1>3
  <2>2. Slot(a + (s - u) + Slots) = s
    BY <1>1, <2>1, ModOf DEF Slot
  <2> QED BY <2>1, <2>2
<1> QED BY <1>1, <1>2, <1>3

\* A pipe completes a PSN only after every client below it has sent it.
LEMMA TriggeredWasSent ==
    ASSUME IInv, NEW p \in ActivePipes, NEW c \in Covered(FullBitmap(p))
    PROVE  c \in Clients /\ cleared[p] <= Triggered(p) /\ Triggered(p) <= sent[c]
<1> USE DEF IInv
<1>1. c \in Clients
  BY DEF Covered, Under
<1>2. cleared[p] <= Triggered(p)
  BY CounterTypes DEF Triggered
<1>3. ASSUME NEW q \in ActivePipes, c \in FullBitmap(q) PROVE Triggered(q) <= sent[c]
  <2>1. Triggered(q) <= Arrived(c)
    BY <1>3 DEF TriggerInv
  <2>2. Arrived(c) = sent[c] - Len(link[c])
    BY <1>1 DEF Arrived, SentBy
  <2>3. c \in Inputs
    BY <1>3 DEF FullBitmap
  <2>4. \A a, b, l \in Nat : a <= b - l => a <= b
    OBVIOUS
  <2> QED BY <1>1, <2>1, <2>2, <2>3, <2>4, CounterTypes
<1>4. CASE c \in FullBitmap(p)
  BY <1>1, <1>2, <1>3, <1>4
<1>5. CASE c \notin FullBitmap(p)
  <2>1. PICK x \in FullBitmap(p) : c \in Under(x)
    BY DEF Covered
  <2>2. x \in Inputs /\ PipeAt(x) = p
    BY DEF FullBitmap
  <2>3. x \in Upstream /\ x \in ActivePipes /\ c \in FullBitmap(x)
    <3>1. x \notin Clients
      BY <1>5, <2>1, <2>2 DEF Under
    <3>2. x \in Upstream /\ x \in ActivePipes
      BY <3>1, <2>2, TreeFacts DEF Inputs
    <3>3. PipeOf[c] = x
      BY <2>1, <3>1 DEF Under
    <3> QED BY <1>1, <3>2, <3>3 DEF FullBitmap, PipeAt, Inputs
  <2>4. Triggered(x) <= sent[c]
    BY <2>3, <1>3
  <2>5. Triggered(p) <= Arrived(x) /\ Arrived(x) <= SentBy(x)
    BY <2>1, <2>2, SentInWindow
  <2>6. SentBy(x) = cleared[x] /\ cleared[x] <= Triggered(x)
    BY <2>3, TreeFacts, CounterTypes, UpstreamFeedsRoot DEF SentBy, Triggered
  <2>7. Triggered(p) \in Nat /\ Arrived(x) \in Int /\ cleared[x] \in Nat
        /\ Triggered(x) \in Nat /\ sent[c] \in Nat
    BY <1>1, <2>2, <2>3, CounterTypes
  <2> QED BY <1>1, <1>2, <2>4, <2>5, <2>6, <2>7
<1> QED BY <1>4, <1>5

\* Whatever a client has received or is about to receive, every client has sent.
LEMMA ResultsWereSent ==
    ASSUME IInv, NEW c \in Clients, NEW d \in Clients
    PROVE  /\ Len(result[c]) \in Nat /\ Len(down[c]) \in Nat /\ sent[d] \in Nat
           /\ Len(result[c]) + Len(down[c]) <= sent[d]
<1>1. PICK r \in ActivePipes : r \notin Upstream
  BY TreeFacts
<1>2. d \in Covered(FullBitmap(r))
  BY <1>1, RootCovers
<1>3. cleared[r] <= Triggered(r) /\ Triggered(r) <= sent[d]
  BY <1>2, TriggeredWasSent
<1>4. Len(result[c]) + Len(down[c]) = cleared[r]
  BY <1>1 DEF IInv, DownInv
<1>5. /\ cleared[r] \in Nat /\ Triggered(r) \in Nat /\ sent[d] \in Nat
      /\ Len(result[c]) \in Nat /\ Len(down[c]) \in Nat
  BY CounterTypes DEF IInv
<1>6. \A k, t, b \in Nat : k <= t /\ t <= b => k <= b
  OBVIOUS
<1> QED BY <1>3, <1>4, <1>5, <1>6

\* What a slot of a pipe holds, by the PSN of the window that selects it.
LEMMA SlotContents ==
    ASSUME IInv, NEW p \in ActivePipes, NEW s \in 0 .. Slots - 1
    PROVE  \E n \in cleared[p] .. cleared[p] + Slots - 1 :
              LET here == {m \in FullBitmap(p) : Arrived(m) > n}
              IN  /\ Slot(n) = s /\ n \in Nat
                  /\ bitmap[p][s] = here
                  /\ values[p][s] = [low |-> Sum(Covered(here), n, "low"),
                                     high |-> Sum(Covered(here), n, "high")]
<1>1. cleared[p] \in Nat
  BY CounterTypes DEF IInv
<1>2. PICK n \in cleared[p] .. cleared[p] + Slots - 1 : Slot(n) = s
  BY <1>1, SlotCover
<1>3. n \in Nat
  BY <1>1
<1> QED BY <1>2, <1>3 DEF IInv, RegisterInv

\* A slot is full exactly when one packet of its pipe's recirculation queue is
\* about to clear it.
LEMMA FullIffWaiting ==
    ASSUME IInv
    PROVE  FullIffRecirculating
<1> USE DEF IInv
<1> SUFFICES ASSUME NEW p \in ActivePipes, NEW s \in 0 .. Slots - 1
             PROVE  LET waiting == {i \in 1 .. Len(recirc[p]) : Slot(recirc[p][i].psn) = s}
                    IN  /\ bitmap[p][s] = FullBitmap(p) <=> waiting # {}
                        /\ \A i, j \in waiting : i = j
  BY DEF FullIffRecirculating
<1> DEFINE waiting == {i \in 1 .. Len(recirc[p]) : Slot(recirc[p][i].psn) = s}
<1>1. PICK n \in cleared[p] .. cleared[p] + Slots - 1 :
             /\ Slot(n) = s /\ n \in Nat
             /\ bitmap[p][s] = {m \in FullBitmap(p) : Arrived(m) > n}
  BY SlotContents
<1>2. /\ cleared[p] \in Nat /\ Len(recirc[p]) \in Nat /\ Slots \in Nat
      /\ Triggered(p) = cleared[p] + Len(recirc[p]) /\ Triggered(p) \in Nat
  BY CounterTypes, FabricAssumption DEF Triggered
\* The bitmap is full exactly when the pipe has completed PSN n.
<1>3. bitmap[p][s] = FullBitmap(p) <=> n < Triggered(p)
  <2>1. \A m \in FullBitmap(p) : m \in Inputs /\ Arrived(m) \in Int
    BY CounterTypes DEF FullBitmap
  <2>2. ASSUME n < Triggered(p) PROVE bitmap[p][s] = FullBitmap(p)
    <3>1. \A m \in FullBitmap(p) : Arrived(m) > n
      <4> SUFFICES ASSUME NEW m \in FullBitmap(p) PROVE Arrived(m) > n
        OBVIOUS
      <4>1. Triggered(p) <= Arrived(m)
        BY DEF TriggerInv
      <4> QED BY <4>1, <2>1, <2>2, <1>1, <1>2
    <3> QED BY <3>1, <1>1
  <2>3. ASSUME bitmap[p][s] = FullBitmap(p) PROVE n < Triggered(p)
    <3>1. PICK m \in FullBitmap(p) : Arrived(m) <= Triggered(p)
      BY DEF TriggerInv
    <3>2. Arrived(m) > n
      BY <1>1, <2>3
    <3> QED BY <3>1, <3>2, <2>1, <1>1, <1>2
  <2> QED BY <2>2, <2>3
<1>4. \A i \in 1 .. Len(recirc[p]) : recirc[p][i].psn = cleared[p] + i - 1
  BY DEF RecircInv
\* No more than Slots clears are pending, so their slots differ.
<1>5. Triggered(p) <= cleared[p] + Slots
  <2>1. PICK m \in FullBitmap(p) : TRUE
    BY TreeFacts
  <2>2. m \in Inputs /\ PipeAt(m) = p
    BY DEF FullBitmap
  <2>3. /\ Triggered(p) <= Arrived(m) /\ Arrived(m) <= SentBy(m)
        /\ SentBy(m) <= cleared[p] + Slots
    BY <2>2, SentInWindow
  <2>4. Arrived(m) \in Int /\ SentBy(m) \in Nat
    BY <2>2, CounterTypes
  <2> QED BY <2>3, <2>4, <1>2
<1>6. \A i \in waiting : n = cleared[p] + i - 1
  <2> SUFFICES ASSUME NEW i \in waiting PROVE n = cleared[p] + i - 1
    OBVIOUS
  <2>1. i \in Nat \ {0} /\ i <= Slots /\ cleared[p] + i - 1 \in Nat
    BY <1>2, <1>5
  <2>2. Slot(cleared[p] + i - 1) = Slot(n)
    BY <1>1, <1>4
  <2>3. n < (cleared[p] + i - 1) + Slots /\ cleared[p] + i - 1 < n + Slots
    BY <2>1, <1>1, <1>2
  <2> QED BY <2>1, <2>2, <2>3, <1>1, SlotFacts
<1>7. waiting # {} <=> n < Triggered(p)
  <2>1. ASSUME NEW i \in waiting PROVE n < Triggered(p)
    <3>1. n = cleared[p] + i - 1 /\ i \in 1 .. Len(recirc[p])
      BY <1>6
    <3> QED BY <3>1, <1>2
  <2>2. ASSUME n < Triggered(p) PROVE waiting # {}
    <3>1. PICK i \in 1 .. Len(recirc[p]) : cleared[p] + i - 1 = n
      <4>1. \A a, l, k \in Nat : a <= k /\ k < a + l =>
               \E i \in 1 .. l : a + i - 1 = k
        <5> SUFFICES ASSUME NEW a \in Nat, NEW l \in Nat, NEW k \in Nat,
                            a <= k, k < a + l
                     PROVE  \E i \in 1 .. l : a + i - 1 = k
          OBVIOUS
        <5>1. k - a + 1 \in 1 .. l /\ a + (k - a + 1) - 1 = k
          OBVIOUS
        <5> QED BY <5>1
      <4>2. cleared[p] <= n /\ n < cleared[p] + Len(recirc[p])
        BY <1>1, <1>2, <2>2
      <4> QED BY <4>1, <4>2, <1>1, <1>2
    <3>2. recirc[p][i].psn = n
      BY <1>4, <3>1
    <3>3. i \in waiting
      BY <1>1, <3>1, <3>2
    <3> QED BY <3>3
  <2> QED BY <2>1, <2>2
<1>8. \A i, j \in waiting : i = j
  <2> SUFFICES ASSUME NEW i \in waiting, NEW j \in waiting PROVE i = j
    OBVIOUS
  <2>1. n = cleared[p] + i - 1 /\ n = cleared[p] + j - 1
    BY <1>6
  <2>2. i \in Nat /\ j \in Nat
    OBVIOUS
  <2> QED BY <2>1, <2>2, <1>2
<1> QED BY <1>3, <1>7, <1>8

-----------------------------------------------------------------------------
(* The theorems. *)

\* Every result a client receives is the exact sum for the next PSN
\* (collectives.p4, both passes over the registers, in one pipe or two).
THEOREM ResultsAreExact == FabricSpec => []ResultsExact
<1>1. IInv => ResultsExact
  BY DEF IInv
<1> QED BY <1>1, Invariance, PTL

\* No slot ever mixes PSNs or counts an input twice, although the PSNs of a
\* channel share Slots registers (select_agg_unit).
THEOREM SlotsKeepIntegrity == FabricSpec => []SlotIntegrity
<1>1. ASSUME IInv PROVE SlotIntegrity
  <2> USE <1>1
  <2> SUFFICES ASSUME NEW p \in ActivePipes, NEW s \in 0 .. Slots - 1
               PROVE  \E k \in Psns :
                        values[p][s] = [low |-> Sum(Covered(bitmap[p][s]), k, "low"),
                                        high |-> Sum(Covered(bitmap[p][s]), k, "high")]
    BY DEF SlotIntegrity
  <2>1. PICK n \in cleared[p] .. cleared[p] + Slots - 1 :
               /\ n \in Nat
               /\ bitmap[p][s] = {m \in FullBitmap(p) : Arrived(m) > n}
               /\ values[p][s] = [low |-> Sum(Covered(bitmap[p][s]), n, "low"),
                                  high |-> Sum(Covered(bitmap[p][s]), n, "high")]
    BY SlotContents
  <2>2. CASE bitmap[p][s] = {}
    <3>1. Covered({}) = {} /\ 0 \in Psns
      BY FabricAssumption DEF Covered, Psns
    <3>2. \A k : Sum({}, k, "low") = Zero /\ Sum({}, k, "high") = Zero
      BY SumFacts
    <3> QED BY <2>1, <2>2, <3>1, <3>2
  <2>3. CASE bitmap[p][s] # {}
    <3>1. PICK m \in FullBitmap(p) : Arrived(m) > n
      BY <2>1, <2>3
    <3>2. m \in Inputs /\ Arrived(m) <= SentBy(m)
      BY SentInWindow DEF FullBitmap
    <3>3. SentBy(m) <= MaxPsn
      <4>1. CASE m \in Clients
        BY <4>1, FabricAssumption DEF IInv, TypeOK, SentBy
      <4>2. CASE m \notin Clients
        <5>1. m \in Upstream /\ m \in ActivePipes
          BY <3>2, <4>2, TreeFacts DEF Inputs
        <5>2. PICK c \in Clients : c \in FullBitmap(m)
          BY <5>1, TreeFacts, UpstreamFeedsRoot
        <5>3. c \in Covered(FullBitmap(m))
          BY <5>2 DEF Covered, Under
        <5>4. cleared[m] <= Triggered(m) /\ Triggered(m) <= sent[c]
          BY <5>1, <5>3, TriggeredWasSent
        <5>5. sent[c] <= MaxPsn /\ sent[c] \in Nat /\ MaxPsn \in Nat
          BY FabricAssumption DEF IInv, TypeOK
        <5>6. cleared[m] \in Nat /\ Triggered(m) \in Nat
          BY <5>1, CounterTypes DEF IInv
        <5> QED BY <4>2, <5>4, <5>5, <5>6 DEF SentBy
      <4> QED BY <4>1, <4>2
    <3>4. Arrived(m) \in Int /\ SentBy(m) \in Nat
      BY <3>2, CounterTypes DEF IInv
    <3>5. n \in Psns
      BY <2>1, <3>1, <3>2, <3>3, <3>4, FabricAssumption DEF Psns
    <3> QED BY <2>1, <3>5
  <2> QED BY <2>2, <2>3
<1> QED BY <1>1, Invariance, PTL

\* A completed slot waits for exactly one clear pass (check_complete_true).
THEOREM FullMeansRecirculating == FabricSpec => []FullIffRecirculating
<1>1. IInv => FullIffRecirculating
  BY FullIffWaiting
<1> QED BY <1>1, Invariance, PTL

\* The clients' window bounds every queue of the switch (mpitofino.h).
THEOREM QueuesAreBounded == FabricSpec => []QueuesBounded
<1>1. ASSUME IInv PROVE QueuesBounded
  <2> USE <1>1 DEF IInv
  <2>0. Slots \in Nat
    BY FabricAssumption
  <2>1. \A m \in Inputs : Len(link[m]) <= Slots
    <3> SUFFICES ASSUME NEW m \in Inputs PROVE Len(link[m]) <= Slots
      OBVIOUS
    <3>1. /\ cleared[PipeAt(m)] <= Triggered(PipeAt(m)) /\ Triggered(PipeAt(m)) <= Arrived(m)
          /\ SentBy(m) <= cleared[PipeAt(m)] + Slots /\ PipeAt(m) \in ActivePipes
      BY SentInWindow
    <3>2. Arrived(m) = SentBy(m) - Len(link[m])
      BY DEF Arrived
    <3>3. \A a, t, b, l, w \in Nat : a <= t /\ t <= b - l /\ b <= a + w => l <= w
      OBVIOUS
    <3>4. /\ cleared[PipeAt(m)] \in Nat /\ Triggered(PipeAt(m)) \in Nat
          /\ SentBy(m) \in Nat /\ Len(link[m]) \in Nat
      BY <3>1, CounterTypes
    <3> QED BY <3>1, <3>2, <3>3, <3>4, <2>0
  <2>2. \A p \in ActivePipes : Len(recirc[p]) <= Slots
    <3> SUFFICES ASSUME NEW p \in ActivePipes PROVE Len(recirc[p]) <= Slots
      OBVIOUS
    <3>1. PICK m \in Inputs : PipeAt(m) = p
      BY TreeFacts DEF FullBitmap
    <3>2. /\ Triggered(p) <= Arrived(m) /\ Arrived(m) <= SentBy(m)
          /\ SentBy(m) <= cleared[p] + Slots
      BY <3>1, SentInWindow
    <3>3. Triggered(p) = cleared[p] + Len(recirc[p])
      BY DEF Triggered
    <3>4. \A a, b, l, w \in Nat, x \in Int :
             a + l <= x /\ x <= b /\ b <= a + w => l <= w
      OBVIOUS
    <3>5. /\ cleared[p] \in Nat /\ Len(recirc[p]) \in Nat
          /\ SentBy(m) \in Nat /\ Arrived(m) \in Int
      BY CounterTypes
    <3> QED BY <3>2, <3>3, <3>4, <3>5, <2>0
  <2>3. \A c \in Clients : Len(down[c]) <= Slots
    <3> SUFFICES ASSUME NEW c \in Clients PROVE Len(down[c]) <= Slots
      OBVIOUS
    <3>1. PICK r \in ActivePipes : r \notin Upstream
      BY TreeFacts
    <3>2. cleared[r] <= Triggered(r) /\ Triggered(r) <= sent[c]
      <4>1. c \in Covered(FullBitmap(r))
        BY <3>1, RootCovers
      <4> QED BY <4>1, TriggeredWasSent
    <3>3. Len(result[c]) + Len(down[c]) = cleared[r] /\ sent[c] <= Len(result[c]) + Slots
      BY <3>1 DEF DownInv, WindowInv
    <3>4. \A a, l, k, t, b, w \in Nat :
             a + l = k /\ k <= t /\ t <= b /\ b <= a + w => l <= w
      OBVIOUS
    <3>5. /\ Len(result[c]) \in Nat /\ Len(down[c]) \in Nat /\ cleared[r] \in Nat
          /\ Triggered(r) \in Nat /\ sent[c] \in Nat
      BY CounterTypes
    <3> QED BY <3>2, <3>3, <3>4, <3>5, <2>0
  <2> QED BY <2>1, <2>2, <2>3 DEF QueuesBounded
<1> QED BY <1>1, Invariance, PTL

\* A channel whose clients have all their results has zero registers, as the
\* next operation on it requires (the clear actions of collectives.p4).
THEOREM QuiescentMeansZero == FabricSpec => []QuiescentRegistersZero
<1>1. ASSUME IInv PROVE QuiescentRegistersZero
  <2> USE <1>1 DEF IInv
  <2> SUFFICES ASSUME \A c, d \in Clients : Len(result[c]) = sent[d],
                      NEW p \in ActivePipes, NEW s \in 0 .. Slots - 1
               PROVE  /\ bitmap[p][s] = {}
                      /\ values[p][s] = [low |-> Zero, high |-> Zero]
    BY DEF QuiescentRegistersZero
  <2>1. PICK c \in Clients : TRUE
    BY FabricAssumption
  <2> DEFINE k == sent[c]
  <2>2. k \in Nat /\ \A d \in Clients : sent[d] = k /\ Len(result[d]) = k
    BY CounterTypes
  <2>3. PICK r \in ActivePipes : r \notin Upstream
    BY TreeFacts
  <2> HIDE DEF k
  \* Every pipe has cleared exactly the k packets every client has sent.
  <2>4. k <= cleared[r]
    <3>1. Len(result[c]) + Len(down[c]) = cleared[r]
      BY <2>3 DEF DownInv
    <3>2. Len(result[c]) = k /\ Len(down[c]) \in Nat
      BY <2>2, CounterTypes
    <3> QED BY <3>1, <3>2, <2>2
  <2>5. \A q \in ActivePipes : cleared[q] \in Nat /\ cleared[q] <= k /\ k <= cleared[q]
    <3> SUFFICES ASSUME NEW q \in ActivePipes
                 PROVE  cleared[q] \in Nat /\ cleared[q] <= k /\ k <= cleared[q]
      OBVIOUS
    <3>1. cleared[q] \in Nat /\ cleared[r] \in Nat /\ Triggered(q) \in Nat
      BY CounterTypes
    <3>2. cleared[r] <= cleared[q]
      BY <2>3, RootIsLast
    <3>3. PICK d \in Covered(FullBitmap(q)) : TRUE
      <4>1. CASE q \in Upstream
        <5>1. PICK d \in Clients : d \in FullBitmap(q)
          BY <4>1, TreeFacts, UpstreamFeedsRoot
        <5> QED BY <5>1 DEF Covered, Under
      <4>2. CASE q \notin Upstream
        BY <4>2, <2>1, RootCovers
      <4> QED BY <4>1, <4>2
    <3>4. cleared[q] <= Triggered(q) /\ Triggered(q) <= k
      BY <3>3, <2>2, TriggeredWasSent
    <3> QED BY <3>1, <3>2, <3>4, <2>2, <2>4
  <2>6. \A m \in Inputs : Arrived(m) <= k
    <3> SUFFICES ASSUME NEW m \in Inputs PROVE Arrived(m) <= k
      OBVIOUS
    <3>1. Arrived(m) <= SentBy(m)
      BY SentInWindow
    <3>2. SentBy(m) <= k
      <4>1. CASE m \in Clients
        BY <4>1, <2>2 DEF SentBy
      <4>2. CASE m \notin Clients
        <5>1. m \in ActivePipes
          BY <4>2, TreeFacts DEF Inputs
        <5> QED BY <4>2, <5>1, <2>5 DEF SentBy
      <4> QED BY <4>1, <4>2
    <3>3. Arrived(m) \in Int /\ SentBy(m) \in Nat
      BY CounterTypes
    <3> QED BY <3>1, <3>2, <3>3, <2>2
  <2>7. PICK n \in cleared[p] .. cleared[p] + Slots - 1 :
               LET here == {m \in FullBitmap(p) : Arrived(m) > n}
               IN  /\ n \in Nat
                   /\ bitmap[p][s] = here
                   /\ values[p][s] = [low |-> Sum(Covered(here), n, "low"),
                                      high |-> Sum(Covered(here), n, "high")]
    BY SlotContents
  <2>8. {m \in FullBitmap(p) : Arrived(m) > n} = {}
    <3> SUFFICES ASSUME NEW m \in FullBitmap(p), Arrived(m) > n PROVE FALSE
      OBVIOUS
    <3>1. m \in Inputs /\ Arrived(m) \in Int /\ Arrived(m) <= k
      BY <2>6, CounterTypes DEF FullBitmap
    <3>2. k <= n
      BY <2>2, <2>5, <2>7
    <3> QED BY <3>1, <3>2, <2>2, <2>7
  <2>9. Covered({}) = {} /\ Sum({}, n, "low") = Zero /\ Sum({}, n, "high") = Zero
    BY SumFacts DEF Covered
  <2> QED BY <2>7, <2>8, <2>9
<1> QED BY <1>1, Invariance, PTL

\* A clear pass only ever empties a complete slot (clear_bitmap, value_clear).
THEOREM ClearsAreComplete == FabricSpec => NoPartialWipe
<1>1. ASSUME IInv, [FabricNext]_fabricVars
      PROVE  \A p \in ActivePipes, s \in 0 .. Slots - 1 :
               \/ bitmap[p][s] \subseteq bitmap'[p][s]
               \/ bitmap[p][s] = FullBitmap(p) /\ bitmap'[p][s] = {}
  <2> USE <1>1 DEF IInv
  <2> SUFFICES ASSUME NEW p \in ActivePipes, NEW s \in 0 .. Slots - 1
               PROVE  \/ bitmap[p][s] \subseteq bitmap'[p][s]
                      \/ bitmap[p][s] = FullBitmap(p) /\ bitmap'[p][s] = {}
    OBVIOUS
  <2>1. ASSUME NEW m \in Inputs, Aggregate(m) PROVE bitmap[p][s] \subseteq bitmap'[p][s]
    <3> DEFINE b == PipeAt(m)
               t == Slot(Head(link[m]).psn)
    <3>1. bitmap' = [bitmap EXCEPT ![b][t] = bitmap[b][t] \cup {m}]
      BY <2>1 DEF Aggregate
    <3> HIDE DEF b, t
    <3>2. CASE b = p /\ t = s
      <4>1. bitmap'[p][s] = bitmap[p][s] \cup {m}
        BY <3>1, <3>2 DEF TypeOK
      <4> QED BY <4>1
    <3>3. CASE ~(b = p /\ t = s)
      <4>1. bitmap'[p][s] = bitmap[p][s]
        BY <3>1, <3>3 DEF TypeOK
      <4> QED BY <4>1
    <3> QED BY <3>2, <3>3
  <2>2. ASSUME NEW q \in ActivePipes, Clear(q)
        PROVE  \/ bitmap[p][s] \subseteq bitmap'[p][s]
               \/ bitmap[p][s] = FullBitmap(p) /\ bitmap'[p][s] = {}
    <3> DEFINE t == Slot(Head(recirc[q]).psn)
    <3>1. bitmap' = [bitmap EXCEPT ![q][t] = {}] /\ recirc[q] # <<>>
      BY <2>2 DEF Clear
    <3>2. CASE q = p /\ t = s
      \* The head of the recirculation queue waits for this slot: it is full.
      <4>1. recirc[p] \in Seq(Packets) /\ recirc[p] # <<>>
        BY <3>1, <3>2 DEF TypeOK
      <4>2. Len(recirc[p]) \in Nat \ {0} /\ Head(recirc[p]) = recirc[p][1]
        BY <4>1, HeadTail
      <4>3. 1 \in 1 .. Len(recirc[p]) /\ Slot(recirc[p][1].psn) = s
        BY <3>2, <4>2
      <4>4. bitmap[p][s] = FullBitmap(p)
        BY <4>3, FullIffWaiting DEF FullIffRecirculating
      <4> HIDE DEF t
      <4>5. bitmap'[p][s] = {}
        BY <3>1, <3>2 DEF TypeOK
      <4> QED BY <4>4, <4>5
    <3>3. CASE ~(q = p /\ t = s)
      <4> HIDE DEF t
      <4>1. bitmap'[p][s] = bitmap[p][s]
        BY <3>1, <3>3 DEF TypeOK
      <4> QED BY <4>1
    <3> QED BY <3>2, <3>3
  <2>3. ASSUME UNCHANGED bitmap PROVE bitmap[p][s] \subseteq bitmap'[p][s]
    BY <2>3
  <2> QED BY <2>1, <2>2, <2>3
          DEF FabricNext, Switch, Inject, Send, Deliver, Finished, fabricVars
<1> QED BY <1>1, Invariance, PTL DEF FabricSpec, NoPartialWipe

\* The switch implements the abstract collective: what a client obtains is the
\* total of contributions that have all been made.
THEOREM Refinement == FabricSpec => ImplementsAllreduce
<1>1. FabricInit => Abstract!Init
  BY DEF FabricInit, Abstract!Init
<1>2. ASSUME IInv, [FabricNext]_fabricVars
      PROVE  [Abstract!Next]_Abstract!vars
  <2> USE <1>2 DEF IInv
  <2>1. ASSUME NEW c \in Clients, Inject(c) PROVE Abstract!Contribute(c)
    BY <2>1 DEF Inject, CanSend, Send, Abstract!Contribute
  <2>2. ASSUME NEW c \in Clients, Deliver(c) PROVE Abstract!Obtain(c)
    <3>1. /\ down[c] \in Seq(Packets) /\ down[c] # <<>>
          /\ result' = [result EXCEPT ![c] = Append(@, Head(down[c]))]
          /\ UNCHANGED sent
      BY <2>2 DEF Deliver, TypeOK
    <3>2. Len(down[c]) \in Nat \ {0} /\ Head(down[c]) = down[c][1]
      BY <3>1, HeadTail
    <3>3. Len(result[c]) \in Nat
      BY CounterTypes
    <3>4. Head(down[c]) = Exact(Len(result[c]))
      <4>1. 1 \in 1 .. Len(down[c]) /\ Len(result[c]) + 1 - 1 = Len(result[c])
        BY <3>2, <3>3
      <4>2. down[c][1] = Exact(Len(result[c]) + 1 - 1)
        BY <4>1 DEF DownInv
      <4> QED BY <3>2, <4>1, <4>2
    <3>5. ASSUME NEW d \in Clients PROVE sent[d] > Len(result[c])
      <4>1. \A a, b \in Nat, l \in Nat \ {0} : a + l <= b => b > a
        OBVIOUS
      <4> QED BY <3>2, <3>3, <4>1, ResultsWereSent
    <3>6. [result EXCEPT ![c] = Append(@, Head(down[c]))] =
            [result EXCEPT ![c] = Append(@, Exact(Len(@)))]
      BY <3>4
    <3> QED BY <3>1, <3>5, <3>6 DEF Abstract!Obtain
  <2>3. ASSUME UNCHANGED <<sent, result>> PROVE UNCHANGED Abstract!vars
    BY <2>3 DEF Abstract!vars
  <2> QED BY <2>1, <2>2, <2>3
          DEF FabricNext, Switch, Aggregate, Clear, Finished, fabricVars, Abstract!Next
<1> QED BY <1>1, <1>2, Invariance, PTL DEF FabricSpec, ImplementsAllreduce, Abstract!Spec
=============================================================================
