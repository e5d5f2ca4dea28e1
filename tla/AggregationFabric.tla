-------------------------- MODULE AggregationFabric --------------------------
(***************************************************************************)
(* The in-network aggregation of one collective channel: the P4 program's  *)
(* Collectives control (p4/collectives.p4) as the switch daemon configures *)
(* it for one aggregation unit (sd/asic_driver.cc, on_st_repo_channels).   *)
(*                                                                         *)
(* Clients sit on the ports of pipe 0 or pipe 3 of the switch.  A packet   *)
(* of a client is added to the registers of the slot its PSN selects; the  *)
(* packet that completes a slot's bitmap is sent through the pipe a second *)
(* time and clears the slot; what comes out is distributed to all clients, *)
(* or, when both pipes have clients, sent from pipe 0 to pipe 3, where it  *)
(* counts as one more participant.                                         *)
(*                                                                         *)
(* A packet's payload has two halves: AggregationUnit can output only one  *)
(* word of its register pair per pass, so the low half of the sum leaves   *)
(* in the first pass and the high half in the second.  A 32-bit sum is     *)
(* abstracted to how often each contribution was added to it.              *)
(***************************************************************************)
EXTENDS Integers, Sequences

CONSTANTS
    Clients,   \* the participants of the channel
    PipeOf,    \* the pipe each client's switch port belongs to
    Slots,     \* registers per aggregation unit (256 on the switch: psn[7:0])
    MaxPsn     \* bound: how many packets each client sends

Pipes == {0, 3}

ASSUME FabricAssumption ==
    /\ Clients # {}
    /\ Clients \cap Pipes = {}
    /\ PipeOf \in [Clients -> Pipes]
    /\ Slots \in Nat \ {0}
    /\ MaxPsn \in Nat \ {0}

-----------------------------------------------------------------------------
(* What on_st_repo_channels installs for the channel. *)

ActivePipes == {PipeOf[c] : c \in Clients}

Connected == \E c, d \in Clients : PipeOf[c] # PipeOf[d]

\* Faulty variants: the pipes are not connected, or pipe 3 feeds itself.
UpstreamNone == {}

UpstreamAll == IF Connected THEN ActivePipes ELSE {}

\* Pipes that send their sum on to pipe 3 instead of distributing it.
Upstream == IF Connected THEN ActivePipes \ {3} ELSE {}

\* Whoever owns a bit in some pipe's bitmap: clients, and upstream pipes at pipe 3.
Inputs == Clients \cup Upstream

PipeAt(m) == IF m \in Clients THEN PipeOf[m] ELSE 3

\* Faulty variant: pipe 3 does not wait for pipe 0.
FullBitmapClients(p) == {c \in Clients : PipeOf[c] = p}

\* The bitmap of a pipe when all its inputs have arrived (full_bitmap_low/high).
FullBitmap(p) == {m \in Inputs : PipeAt(m) = p}

-----------------------------------------------------------------------------
(* Payloads: formal sums over the contributions of the clients. *)

Psns == 0 .. MaxPsn - 1

Terms == Clients \X Psns \X {"low", "high"}

Payloads == [Terms -> Nat]

\* The sum of one half of the n-th packets of the clients in C.
Sum(C, n, half) ==
    [t \in Terms |-> IF t[1] \in C /\ t[2] = n /\ t[3] = half THEN 1 ELSE 0]

Zero == [t \in Terms |-> 0]

Plus(a, b) == [t \in Terms |-> a[t] + b[t]]

\* A packet with PSN n that holds the sums of the clients in C.
Partial(C, n) ==
    [psn |-> n, low |-> Sum(C, n, "low"), high |-> Sum(C, n, "high")]

Packets == [psn : Psns, low : Payloads, high : Payloads]

\* select_agg_unit: agg_unit ++ psn[7:0]
Slot(psn) == psn % Slots

-----------------------------------------------------------------------------
VARIABLES
    sent,      \* sent[c]: packets client c has put on the wire; PSN of its next one
    link,      \* link[m]: packets from input m on their way to its pipe
    bitmap,    \* bitmap[p][s]: inputs that have been added to the slot
    values,    \* values[p][s]: the slot's registers, summed over value_pair_t
    recirc,    \* recirc[p]: packets on the recirculation port of p
    cleared,   \* cleared[p]: clear passes of p so far (history variable)
    down,      \* down[c]: multicast copies on their way to client c
    result     \* result[c]: packets client c has received, in order

fabricVars == <<sent, link, bitmap, values, recirc, cleared, down, result>>

FabricInit ==
    /\ sent = [c \in Clients |-> 0]
    /\ link = [m \in Inputs |-> <<>>]
    /\ bitmap = [p \in ActivePipes |-> [s \in 0 .. Slots - 1 |-> {}]]
    /\ values = [p \in ActivePipes |->
                    [s \in 0 .. Slots - 1 |-> [low |-> Zero, high |-> Zero]]]
    /\ recirc = [p \in ActivePipes |-> <<>>]
    /\ cleared = [p \in ActivePipes |-> 0]
    /\ down = [c \in Clients |-> <<>>]
    /\ result = [c \in Clients |-> <<>>]

\* A packet of client c enters the link to its switch port.
Send(c, pkt) ==
    /\ sent' = [sent EXCEPT ![c] = @ + 1]
    /\ link' = [link EXCEPT ![c] = Append(@, pkt)]
    /\ UNCHANGED <<bitmap, values, recirc, cleared, down, result>>

\* Faulty variants: no window, and a window that is one packet too large.
CanSendAlways(c) == sent[c] < MaxPsn

CanSendOneMore(c) == sent[c] < MaxPsn /\ sent[c] <= Len(result[c]) + Slots

\* The contract of the client library: no more than Slots packets whose
\* results are outstanding (mpitofino.h: chunk_size * req_in_flight).
CanSend(c) == sent[c] < MaxPsn /\ sent[c] < Len(result[c]) + Slots

\* Faulty variant: the first PSN of the queue pair is 1 (sq_psn).
InjectFromOne(c) == CanSend(c) /\ Send(c, Partial({c}, sent[c] + 1))

Inject(c) == CanSend(c) /\ Send(c, Partial({c}, sent[c]))

\* Faulty variant: check_complete reads the bitmap before the packet's bit is set.
AggregateChecksFirst(m) ==
    LET p == PipeAt(m)
        pkt == Head(link[m])
        s == Slot(pkt.psn)
    IN  /\ link[m] # <<>>
        /\ link' = [link EXCEPT ![m] = Tail(@)]
        /\ bitmap' = [bitmap EXCEPT ![p][s] = @ \cup {m}]
        /\ values' = [values EXCEPT ![p][s] = [low |-> Plus(@.low, pkt.low),
                                              high |-> Plus(@.high, pkt.high)]]
        /\ recirc' = IF bitmap[p][s] = FullBitmap(p)
                     THEN [recirc EXCEPT ![p] = Append(@, pkt)]
                     ELSE recirc
        /\ UNCHANGED <<sent, cleared, down, result>>

\* First pass: set the input's bit, add both halves to the registers, and
\* recirculate the packet, now with the low sums, if the bitmap is full.
Aggregate(m) ==
    LET p == PipeAt(m)
        pkt == Head(link[m])
        s == Slot(pkt.psn)
        newBitmap == bitmap[p][s] \cup {m}
        newLow == Plus(values[p][s].low, pkt.low)
        newHigh == Plus(values[p][s].high, pkt.high)
    IN  /\ link[m] # <<>>
        /\ link' = [link EXCEPT ![m] = Tail(@)]
        /\ bitmap' = [bitmap EXCEPT ![p][s] = newBitmap]
        /\ values' = [values EXCEPT ![p][s] = [low |-> newLow, high |-> newHigh]]
        /\ recirc' = IF newBitmap = FullBitmap(p)
                     THEN [recirc EXCEPT ![p] = Append(@, [pkt EXCEPT !.low = newLow])]
                     ELSE recirc
        /\ UNCHANGED <<sent, cleared, down, result>>

\* Faulty variant: the second pass zeroes only the low halves of a slot.
ClearKeepsHigh(p) ==
    LET pkt == Head(recirc[p])
        s == Slot(pkt.psn)
        out == [pkt EXCEPT !.high = values[p][s].high]
    IN  /\ recirc[p] # <<>>
        /\ recirc' = [recirc EXCEPT ![p] = Tail(@)]
        /\ cleared' = [cleared EXCEPT ![p] = @ + 1]
        /\ bitmap' = [bitmap EXCEPT ![p][s] = {}]
        /\ values' = [values EXCEPT ![p][s].low = Zero]
        /\ IF p \in Upstream
           THEN link' = [link EXCEPT ![p] = Append(@, out)] /\ UNCHANGED down
           ELSE down' = [c \in Clients |-> Append(down[c], out)] /\ UNCHANGED link
        /\ UNCHANGED <<sent, result>>

\* Second pass, of a packet from the recirculation port: take the high sums
\* out, zero the slot, and send the packet on to pipe 3 or to all clients.
Clear(p) ==
    LET pkt == Head(recirc[p])
        s == Slot(pkt.psn)
        out == [pkt EXCEPT !.high = values[p][s].high]
    IN  /\ recirc[p] # <<>>
        /\ recirc' = [recirc EXCEPT ![p] = Tail(@)]
        /\ cleared' = [cleared EXCEPT ![p] = @ + 1]
        /\ bitmap' = [bitmap EXCEPT ![p][s] = {}]
        /\ values' = [values EXCEPT ![p][s] = [low |-> Zero, high |-> Zero]]
        /\ IF p \in Upstream
           THEN /\ link' = [link EXCEPT ![p] = Append(@, out)]
                /\ UNCHANGED down
           ELSE /\ down' = [c \in Clients |-> Append(down[c], out)]
                /\ UNCHANGED link
        /\ UNCHANGED <<sent, result>>

\* A client's network adapter takes the next packet off the wire.
Deliver(c) ==
    /\ down[c] # <<>>
    /\ result' = [result EXCEPT ![c] = Append(@, Head(down[c]))]
    /\ down' = [down EXCEPT ![c] = Tail(@)]
    /\ UNCHANGED <<sent, link, bitmap, values, recirc, cleared>>

Switch ==
    \/ \E m \in Inputs : Aggregate(m)
    \/ \E p \in ActivePipes : Clear(p)

\* Every client has all its results; nothing is left to do.
Finished ==
    /\ \A c \in Clients : Len(result[c]) = MaxPsn
    /\ UNCHANGED fabricVars

FabricNext ==
    \/ Switch
    \/ \E c \in Clients : Inject(c) \/ Deliver(c)
    \/ Finished

FabricSpec == FabricInit /\ [][FabricNext]_fabricVars

\* The switch forwards whatever is queued, and clients that may send do so.
FabricFairness ==
    /\ \A m \in Inputs : WF_fabricVars(Aggregate(m))
    /\ \A p \in ActivePipes : WF_fabricVars(Clear(p))
    /\ \A c \in Clients : WF_fabricVars(Inject(c)) /\ WF_fabricVars(Deliver(c))

FairFabricSpec == FabricSpec /\ FabricFairness
-----------------------------------------------------------------------------
(* Properties. *)

\* Types: PSNs, payloads and bitmaps stay in their domains in every queue and
\* register of the channel, and bits are set only by a pipe's own inputs.
TypeOK ==
    /\ sent \in [Clients -> 0 .. MaxPsn]
    /\ link \in [Inputs -> Seq(Packets)]
    /\ bitmap \in [ActivePipes -> [0 .. Slots - 1 -> SUBSET Inputs]]
    /\ values \in [ActivePipes ->
                     [0 .. Slots - 1 -> [low : Payloads, high : Payloads]]]
    /\ recirc \in [ActivePipes -> Seq(Packets)]
    /\ cleared \in [ActivePipes -> Nat]
    /\ down \in [Clients -> Seq(Packets)]
    /\ result \in [Clients -> Seq(Packets)]

\* The n-th result every client must see: each client's n-th packet added
\* exactly once, in both halves.
Exact(n) == Partial(Clients, n)

\* Every packet a client receives carries the next PSN of its connection and
\* the exact sums for that PSN, although low and high half leave the registers
\* in different passes, other PSNs share the slot, and with two pipes the sum
\* is formed in two places (collectives.p4: add, clear and check_complete).
ResultsExact ==
    \A c \in Clients : \A i \in 1 .. Len(result[c]) : result[c][i] = Exact(i - 1)

\* The clients whose contributions reach a pipe through input m.
Under(m) == IF m \in Clients THEN {m} ELSE {c \in Clients : PipeOf[c] = m}

Covered(B) == UNION {Under(m) : m \in B}

\* A slot never mixes PSNs or counts an input twice: its registers are the sum,
\* for one PSN, of the inputs its bitmap names.  A client that runs ahead into
\* a slot that is complete but not yet cleared would break it.
SlotIntegrity ==
    \A p \in ActivePipes, s \in 0 .. Slots - 1 :
        \E n \in Psns :
            values[p][s] = [low |-> Sum(Covered(bitmap[p][s]), n, "low"),
                            high |-> Sum(Covered(bitmap[p][s]), n, "high")]

\* A full slot is exactly one that has a packet on the recirculation port: no
\* completed slot is forgotten, and none is cleared twice, which would wipe the
\* contributions of the next PSN (check_complete_true and the clear actions).
FullIffRecirculating ==
    \A p \in ActivePipes, s \in 0 .. Slots - 1 :
        LET waiting == {i \in 1 .. Len(recirc[p]) : Slot(recirc[p][i].psn) = s}
        IN  /\ bitmap[p][s] = FullBitmap(p) <=> waiting # {}
            /\ \A i, j \in waiting : i = j

\* No queue of the fabric ever holds more than Slots packets of the channel:
\* the clients' window bounds what the switch has to buffer.
QueuesBounded ==
    /\ \A m \in Inputs : Len(link[m]) <= Slots
    /\ \A p \in ActivePipes : Len(recirc[p]) <= Slots
    /\ \A c \in Clients : Len(down[c]) <= Slots

\* When every client has received a result for everything that was sent, all
\* registers of the channel are zero again: the next operation on the channel
\* starts from them without any initialisation.
QuiescentRegistersZero ==
    (\A c, d \in Clients : Len(result[c]) = sent[d]) =>
        \A p \in ActivePipes, s \in 0 .. Slots - 1 :
            /\ bitmap[p][s] = {}
            /\ values[p][s] = [low |-> Zero, high |-> Zero]

\* A slot loses bits only when it is complete, and then all of them: a clear
\* pass never wipes out what a faster client has already put into the slot for
\* a later PSN.
NoPartialWipe ==
    [][\A p \in ActivePipes, s \in 0 .. Slots - 1 :
         \/ bitmap[p][s] \subseteq bitmap'[p][s]
         \/ bitmap[p][s] = FullBitmap(p) /\ bitmap'[p][s] = {}
      ]_fabricVars

\* The switch implements the abstract collective: sent and result are the
\* abstract state, and the n-th total is the exact result.
Abstract == INSTANCE Allreduce WITH Total <- Exact

ImplementsAllreduce == Abstract!Spec

\* If the switch keeps forwarding and the clients keep sending, every client
\* gets all its results: no slot waits for a clear that never comes.
AllComplete == \A c \in Clients : <>(Len(result[c]) = MaxPsn)
-----------------------------------------------------------------------------
(* The inductive invariant behind the theorems of AggregationFabricProofs. *)

SentBy(m) == IF m \in Clients THEN sent[m] ELSE cleared[m]

\* Packets of input m that its pipe has aggregated.
Arrived(m) == SentBy(m) - Len(link[m])

\* PSNs of pipe p whose bitmap has become full.
Triggered(p) == cleared[p] + Len(recirc[p])

\* A link carries consecutive PSNs, the next one first, with the sums of the
\* clients below its sender.
LinkInv ==
    \A m \in Inputs :
        /\ Arrived(m) >= 0
        /\ \A i \in 1 .. Len(link[m]) :
              link[m][i] = Partial(Under(m), Arrived(m) + i - 1)

\* The recirculation port carries consecutive PSNs with complete low sums.
RecircInv ==
    \A p \in ActivePipes : \A i \in 1 .. Len(recirc[p]) :
        /\ recirc[p][i].psn = cleared[p] + i - 1
        /\ recirc[p][i].low =
              Sum(Covered(FullBitmap(p)), cleared[p] + i - 1, "low")

\* What the root pipe has cleared is on its way to every client or received.
DownInv ==
    \A c \in Clients :
        /\ \A p \in ActivePipes \ Upstream :
              Len(result[c]) + Len(down[c]) = cleared[p]
        /\ \A i \in 1 .. Len(down[c]) : down[c][i] = Exact(Len(result[c]) + i - 1)

\* A pipe has completed the PSNs all of its inputs have delivered, no others.
TriggerInv ==
    \A p \in ActivePipes :
        /\ \A m \in FullBitmap(p) : Triggered(p) <= Arrived(m)
        /\ \E m \in FullBitmap(p) : Arrived(m) <= Triggered(p)

\* No client has more than Slots packets without a result.
WindowInv == \A c \in Clients : sent[c] <= Len(result[c]) + Slots

\* Each slot belongs to the one PSN of the window of its pipe that selects it,
\* and holds the sums of the inputs that have delivered that PSN.
RegisterInv ==
    \A p \in ActivePipes : \A n \in cleared[p] .. cleared[p] + Slots - 1 :
        LET here == {m \in FullBitmap(p) : Arrived(m) > n}
        IN  /\ bitmap[p][Slot(n)] = here
            /\ values[p][Slot(n)] = [low |-> Sum(Covered(here), n, "low"),
                                     high |-> Sum(Covered(here), n, "high")]

IInv ==
    /\ TypeOK
    /\ LinkInv
    /\ RecircInv
    /\ DownInv
    /\ TriggerInv
    /\ WindowInv
    /\ RegisterInv
    /\ ResultsExact
=============================================================================
