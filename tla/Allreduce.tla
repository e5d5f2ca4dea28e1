------------------------------ MODULE Allreduce ------------------------------
(***************************************************************************)
(* What the system promises its clients.  The clients of an aggregation    *)
(* group contribute the same number of packets, in order, and every client *)
(* obtains, in the same order, one result per position.  A result may be   *)
(* obtained once every client has contributed that position, and it is the *)
(* sum of those contributions.                                             *)
(*                                                                         *)
(* AggregationFabric implements this specification with the switch's       *)
(* registers and queues.                                                   *)
(***************************************************************************)
EXTENDS Naturals, Sequences

CONSTANTS
    Clients,   \* the clients of the aggregation group
    MaxPsn,    \* how many packets every client contributes
    Total(_)   \* Total(n): the sum of every client's n-th contribution

VARIABLES
    sent,      \* sent[c]: how many packets client c has contributed
    result     \* result[c]: the results client c has obtained, in order

vars == <<sent, result>>

Init ==
    /\ sent = [c \in Clients |-> 0]
    /\ result = [c \in Clients |-> <<>>]

Contribute(c) ==
    /\ sent[c] < MaxPsn
    /\ sent' = [sent EXCEPT ![c] = @ + 1]
    /\ UNCHANGED result

Obtain(c) ==
    /\ \A d \in Clients : sent[d] > Len(result[c])
    /\ result' = [result EXCEPT ![c] = Append(@, Total(Len(@)))]
    /\ UNCHANGED sent

Next == \E c \in Clients : Contribute(c) \/ Obtain(c)

Spec == Init /\ [][Next]_vars
=============================================================================
