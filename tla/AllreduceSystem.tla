--------------------------- MODULE AllreduceSystem ---------------------------
(***************************************************************************)
(* Clients that run AggregationGroup::allreduce                            *)
(* (client_lib/mpitofino.cc) over one collective channel of the switch.    *)
(*                                                                         *)
(* A call cuts its vector into chunks of PktsPerChunk packets and keeps at *)
(* most Window of them in flight in a ring of buffers.  Every client has   *)
(* one unreliable-connected queue pair: its adapter transmits posted send  *)
(* requests from the send buffers, writes arriving results into the        *)
(* buffers of posted receive requests in order, and reports both on one    *)
(* completion queue, which the client polls.                               *)
(*                                                                         *)
(* The fabric of AggregationFabric is between the clients; this module     *)
(* replaces the window guard of its Inject by what the client library      *)
(* really does.                                                            *)
(***************************************************************************)
EXTENDS AggregationFabric, FiniteSets

CONSTANTS
    Window,         \* req_in_flight: entries of the ring
    PktsPerChunk,   \* chunk_size over the path MTU
    Calls,          \* the chunks of each call; every client makes the same calls
    MaxLosses       \* bound: packets lost on the clients' cables

\* How many chunks the first k calls have together.
ChunksBefore[k \in 0 .. Len(Calls)] ==
    IF k = 0 THEN 0 ELSE ChunksBefore[k - 1] + Calls[k]

TotalChunks == ChunksBefore[Len(Calls)]

\* The buffers of a channel fit the switch: "must not exceed the per-channel
\* buffer capacity of the switch" (mpitofino.h:88).
ASSUME SystemAssumption ==
    /\ Window \in Nat \ {0}
    /\ PktsPerChunk \in Nat \ {0}
    /\ Window * PktsPerChunk <= Slots
    /\ Calls \in Seq(Nat \ {0})
    /\ MaxPsn = TotalChunks * PktsPerChunk
    /\ MaxLosses \in Nat

Ring == 0 .. Window - 1

Chunks == 0 .. TotalChunks - 1

Offsets == 0 .. PktsPerChunk - 1

NoChunk == -1      \* an unused entry of the ring

NoData == [low |-> Zero, high |-> Zero]    \* the contents of a fresh buffer

VARIABLES
    call,         \* call[c]: the call client c is in; Len(Calls) + 1 after the last
    sendPos,      \* sendPos[c]: chunks of the call that have been posted
    outstanding,  \* outstanding[c]: outstanding_reqs
    ringPos,      \* ringPos[c]: ring_pos
    ring,         \* ring[c][i]: status and chunk (offset) of entry i
    posting,      \* posting[c]: requests for entry ring_pos still to be posted
    sendBuf,      \* sendBuf[c][i]: the chunk converted into send buffer i
    recvBuf,      \* recvBuf[c][i][j]: the j-th packet's payload in receive buffer i
    dbuf,         \* dbuf[c][g][j]: what the caller gets for chunk g
    sq,           \* sq[c]: entries with a posted send request, oldest first
    rq,           \* rq[c]: entries with a posted receive request, oldest first
    cq,           \* cq[c]: completions that have not been polled
    expectedPsn,  \* expectedPsn[c]: next PSN the queue pair accepts
    dropping,     \* dropping[c]: the adapter skips the rest of a message
    losses        \* how many packets have been lost

callVars == <<call, sendPos, outstanding, ringPos, ring, posting, sendBuf, dbuf>>
adapterVars == <<recvBuf, sq, rq, cq, expectedPsn, dropping>>
systemVars == <<fabricVars, callVars, adapterVars, losses>>

FreshRing == [i \in Ring |-> [status |-> 0, chunk |-> NoChunk]]

FreshBuffer == [j \in Offsets |-> NoData]

SystemInit ==
    /\ FabricInit
    /\ call = [c \in Clients |-> 1]
    /\ sendPos = [c \in Clients |-> 0]
    /\ outstanding = [c \in Clients |-> 0]
    /\ ringPos = [c \in Clients |-> 0]
    /\ ring = [c \in Clients |-> FreshRing]
    /\ posting = [c \in Clients |-> <<>>]
    /\ sendBuf = [c \in Clients |-> [i \in Ring |-> NoChunk]]
    /\ recvBuf = [c \in Clients |-> [i \in Ring |-> FreshBuffer]]
    /\ dbuf = [c \in Clients |-> [g \in Chunks |-> FreshBuffer]]
    /\ sq = [c \in Clients |-> <<>>]
    /\ rq = [c \in Clients |-> <<>>]
    /\ cq = [c \in Clients |-> <<>>]
    /\ expectedPsn = [c \in Clients |-> 0]
    /\ dropping = [c \in Clients |-> FALSE]
    /\ losses = 0

-----------------------------------------------------------------------------
(* The loop of allreduce.  One iteration posts at most one chunk and polls  *)
(* whatever completions are visible; since completions become visible one   *)
(* by one, the loop is a sequence of Fill, PostRequest and Poll steps.      *)

InCall(c) == call[c] <= Len(Calls)

\* The loop is between the top of an iteration and the end of its polling.
InLoop(c) == InCall(c) /\ posting[c] = <<>>

NextEntry(c) == (ringPos[c] + 1) % Window

\* Faulty variants: an entry counts as free when one of its requests is done,
\* or always.
EntryHalfFree(c, i) == ring[c][i].status < 2

EntryAlwaysFree(c, i) == i \in Ring

EntryFree(c, i) == ring[c][i].status = 0

\* Faulty variant: the send request first.
PostOrderSwapped == <<"send", "recv">>

PostOrder == <<"recv", "send">>

\* "Fill ring with new WRs": convert the next chunk into the send buffer of the
\* next entry, if that one is free.
Fill(c) ==
    LET next == NextEntry(c)
        chunk == ChunksBefore[call[c] - 1] + sendPos[c]
    IN  /\ InLoop(c)
        /\ sendPos[c] < Calls[call[c]]
        /\ EntryFree(c, next)
        /\ ringPos' = [ringPos EXCEPT ![c] = next]
        /\ ring' = [ring EXCEPT ![c][next] = [status |-> 2, chunk |-> chunk]]
        /\ outstanding' = [outstanding EXCEPT ![c] = @ + 2]
        /\ sendBuf' = [sendBuf EXCEPT ![c][next] = chunk]
        /\ sendPos' = [sendPos EXCEPT ![c] = @ + 1]
        /\ posting' = [posting EXCEPT ![c] = PostOrder]
        /\ UNCHANGED <<fabricVars, call, dbuf, adapterVars, losses>>

\* ibv_post_recv or ibv_post_send: the adapter may use the request from now on.
PostRequest(c) ==
    /\ posting[c] # <<>>
    /\ posting' = [posting EXCEPT ![c] = Tail(@)]
    /\ IF Head(posting[c]) = "recv"
       THEN rq' = [rq EXCEPT ![c] = Append(@, ringPos[c])] /\ UNCHANGED sq
       ELSE sq' = [sq EXCEPT ![c] = Append(@, ringPos[c])] /\ UNCHANGED rq
    /\ UNCHANGED <<fabricVars, call, sendPos, outstanding, ringPos, ring, sendBuf,
                   dbuf, recvBuf, cq, expectedPsn, dropping, losses>>

\* Faulty variant: a completion does not count against outstanding_reqs.
PollNotCounting(c) ==
    /\ InLoop(c)
    /\ cq[c] # <<>>
    /\ cq' = [cq EXCEPT ![c] = Tail(@)]
    /\ ring' = [ring EXCEPT ![c][Head(cq[c]).entry].status = @ - 1]
    /\ UNCHANGED <<fabricVars, call, sendPos, outstanding, ringPos, posting, sendBuf,
                   dbuf, recvBuf, sq, rq, expectedPsn, dropping, losses>>

\* "Process completed WRs": a send only frees its half of the entry, a receive
\* also converts the result into the caller's buffer.
Poll(c) ==
    LET wc == Head(cq[c])
        entry == ring[c][wc.entry]
    IN  /\ InLoop(c)
        /\ cq[c] # <<>>
        /\ cq' = [cq EXCEPT ![c] = Tail(@)]
        /\ ring' = [ring EXCEPT ![c][wc.entry].status = @ - 1]
        /\ outstanding' = [outstanding EXCEPT ![c] = @ - 1]
        /\ dbuf' = IF wc.kind = "recv"
                   THEN [dbuf EXCEPT ![c][entry.chunk] = recvBuf[c][wc.entry]]
                   ELSE dbuf
        /\ UNCHANGED <<fabricVars, call, sendPos, ringPos, posting, sendBuf, recvBuf,
                       sq, rq, expectedPsn, dropping, losses>>

\* Faulty variants: the loop ends with the last chunk posted, or needs one more
\* completion than there are.
DoneWhenPosted(c) == sendPos[c] >= Calls[call[c]]

DoneNever(c) == sendPos[c] > Calls[call[c]]

\* The condition of the loop, negated.
Done(c) == sendPos[c] >= Calls[call[c]] /\ outstanding[c] = 0

\* The loop ends; the ring is local to a call, so the next one starts afresh.
Return(c) ==
    /\ InLoop(c)
    /\ Done(c)
    /\ call' = [call EXCEPT ![c] = @ + 1]
    /\ sendPos' = [sendPos EXCEPT ![c] = 0]
    /\ ringPos' = [ringPos EXCEPT ![c] = 0]
    /\ ring' = [ring EXCEPT ![c] = FreshRing]
    /\ UNCHANGED <<fabricVars, outstanding, posting, sendBuf, dbuf, adapterVars, losses>>

-----------------------------------------------------------------------------
(* The network adapter. *)

\* Send one packet of the oldest send request, reading the buffer only now; the
\* last packet of a message completes the request.
Transmit(c) ==
    LET entry == Head(sq[c])
        offset == sent[c] % PktsPerChunk
        term == sendBuf[c][entry] * PktsPerChunk + offset
        pkt == [Partial({c}, term) EXCEPT !.psn = sent[c]]
    IN  /\ sq[c] # <<>>
        /\ Send(c, pkt)
        /\ IF offset = PktsPerChunk - 1
           THEN /\ sq' = [sq EXCEPT ![c] = Tail(@)]
                /\ cq' = [cq EXCEPT ![c] = Append(@, [kind |-> "send", entry |-> entry])]
           ELSE UNCHANGED <<sq, cq>>
        /\ UNCHANGED <<callVars, recvBuf, rq, expectedPsn, dropping, losses>>

\* A packet is part of a message the queue pair accepts if it starts one, or
\* continues the current one without a gap.
Accepts(c, psn) ==
    \/ psn % PktsPerChunk = 0
    \/ ~dropping[c] /\ psn = expectedPsn[c]

\* A result arrives.  An unreliable connection drops, without any report, a
\* message that has a gap or finds no receive request; the request stays posted
\* for the next message.
Receive(c) ==
    LET pkt == Head(down[c])
        offset == pkt.psn % PktsPerChunk
        entry == Head(rq[c])
        takes == Accepts(c, pkt.psn) /\ rq[c] # <<>>
    IN  /\ Deliver(c)
        /\ dropping' = [dropping EXCEPT ![c] = ~takes]
        /\ IF takes
           THEN /\ recvBuf' = [recvBuf EXCEPT ![c][entry][offset] =
                                  [low |-> pkt.low, high |-> pkt.high]]
                /\ expectedPsn' = [expectedPsn EXCEPT ![c] = pkt.psn + 1]
           ELSE UNCHANGED <<recvBuf, expectedPsn>>
        /\ IF takes /\ offset = PktsPerChunk - 1
           THEN /\ rq' = [rq EXCEPT ![c] = Tail(@)]
                /\ cq' = [cq EXCEPT ![c] = Append(@, [kind |-> "recv", entry |-> entry])]
           ELSE UNCHANGED <<rq, cq>>
        /\ UNCHANGED <<callVars, sq, losses>>

\* A packet is lost between a client and the switch.
Lose(c) ==
    /\ losses < MaxLosses
    /\ losses' = losses + 1
    /\ \/ /\ link[c] # <<>>
          /\ link' = [link EXCEPT ![c] = Tail(@)]
          /\ UNCHANGED down
       \/ /\ down[c] # <<>>
          /\ down' = [down EXCEPT ![c] = Tail(@)]
          /\ UNCHANGED link
    /\ UNCHANGED <<sent, bitmap, values, recirc, cleared, result, callVars, adapterVars>>

SwitchStep == Switch /\ UNCHANGED <<callVars, adapterVars, losses>>

\* Every client has returned from its last call.
AllReturned ==
    /\ \A c \in Clients : ~InCall(c)
    /\ UNCHANGED systemVars

SystemNext ==
    \/ SwitchStep
    \/ \E c \in Clients :
          \/ Fill(c) \/ PostRequest(c) \/ Poll(c) \/ Return(c)
          \/ Transmit(c) \/ Receive(c) \/ Lose(c)
    \/ AllReturned

SystemSpec == SystemInit /\ [][SystemNext]_systemVars

\* The client polls in a loop, the adapter and the switch forward what they have.
SystemFairness ==
    /\ \A m \in Inputs : WF_systemVars(Aggregate(m) /\ SwitchStep)
    /\ \A p \in ActivePipes : WF_systemVars(Clear(p) /\ SwitchStep)
    /\ \A c \in Clients :
          /\ WF_systemVars(Fill(c)) /\ WF_systemVars(PostRequest(c))
          /\ WF_systemVars(Poll(c)) /\ WF_systemVars(Return(c))
          /\ WF_systemVars(Transmit(c)) /\ WF_systemVars(Receive(c))

FairSystemSpec == SystemSpec /\ SystemFairness

-----------------------------------------------------------------------------
(* Properties. *)

\* Types of the clients' and adapters' state; the fabric's is TypeOK.
SystemTypeOK ==
    /\ TypeOK
    /\ call \in [Clients -> 1 .. Len(Calls) + 1]
    /\ sendPos \in [Clients -> 0 .. TotalChunks]
    /\ outstanding \in [Clients -> 0 .. 2 * Window]
    /\ ringPos \in [Clients -> Ring]
    /\ ring \in [Clients -> [Ring -> [status : 0 .. 2, chunk : Chunks \cup {NoChunk}]]]
    /\ posting \in [Clients -> Seq({"recv", "send"})]
    /\ sendBuf \in [Clients -> [Ring -> Chunks \cup {NoChunk}]]
    /\ recvBuf \in [Clients -> [Ring -> [Offsets -> [low : Payloads, high : Payloads]]]]
    /\ dbuf \in [Clients -> [Chunks -> [Offsets -> [low : Payloads, high : Payloads]]]]
    /\ sq \in [Clients -> Seq(Ring)]
    /\ rq \in [Clients -> Seq(Ring)]
    /\ cq \in [Clients -> Seq([kind : {"send", "recv"}, entry : Ring])]
    /\ expectedPsn \in [Clients -> 0 .. MaxPsn]
    /\ dropping \in [Clients -> BOOLEAN]
    /\ losses \in 0 .. MaxLosses

Unpolled(c, kind, i) == {k \in 1 .. Len(cq[c]) : cq[c][k] = [kind |-> kind, entry |-> i]}

Posted(q, i) == {k \in 1 .. Len(q) : q[k] = i}

\* The queue pair and the completion queue never overflow: setup_ib_qp creates
\* them for Window requests of each kind and 2 * Window completions, and
\* allreduce posts without asking for free space.
QueuesFit ==
    \A c \in Clients :
        LET completed(kind) == UNION {Unpolled(c, kind, i) : i \in Ring}
        IN  /\ Len(sq[c]) + Cardinality(completed("send")) <= Window
            /\ Len(rq[c]) + Cardinality(completed("recv")) <= Window
            /\ Len(cq[c]) <= 2 * Window

\* The status of a ring entry counts what is to be posted, posted and completed
\* of it but not polled yet, each kind at most once: a free entry is really free, so no buffer
\* is reused while the adapter may read or write it.
StatusCounts ==
    \A c \in Clients, i \in Ring :
        LET sends == Cardinality(Posted(sq[c], i)) + Cardinality(Unpolled(c, "send", i))
            recvs == Cardinality(Posted(rq[c], i)) + Cardinality(Unpolled(c, "recv", i))
            unposted == IF i = ringPos[c] THEN Len(posting[c]) ELSE 0
        IN  /\ sends <= 1 /\ recvs <= 1
            /\ ring[c][i].status = sends + recvs + unposted

\* One packet of a chunk is still in step with the fabric everywhere.  After more
\* losses a faster client can complete a slot a second time before it is cleared
\* (check_complete compares the bitmap only with the full one), and the results
\* in excess make up for the ones that are missing.
FewLosses == losses < PktsPerChunk

\* No result reaches an adapter that has no receive request for it; it would be
\* dropped without anybody noticing (allreduce posts the receive first).
ReceivePosted == FewLosses => \A c \in Clients : down[c] # <<>> => rq[c] # <<>>

\* When a call has returned, its destination buffer holds the exact sums of all
\* of its chunks - also if packets were lost, fewer than a chunk has: the protocol
\* has no sequence numbers above the queue pair, so a loss shifts later results
\* into earlier entries of the ring, but then the call never ends.
ReturnedExact ==
    FewLosses => \A c \in Clients : \A g \in 0 .. ChunksBefore[call[c] - 1] - 1, j \in Offsets :
        dbuf[c][g][j] = [low |-> Sum(Clients, g * PktsPerChunk + j, "low"),
                         high |-> Sum(Clients, g * PktsPerChunk + j, "high")]

\* The ring of the client library keeps the contract the fabric relies on: clients
\* and adapters are an implementation of the window guard and the payloads of
\* AggregationFabric, in every step that is not itself a loss, and also after one.
ImplementsFabric == FabricInit /\ [][losses' = losses => FabricNext]_fabricVars

\* Without loss every call of every client returns.
CallsReturn == \A c \in Clients : <>(~InCall(c))
=============================================================================
