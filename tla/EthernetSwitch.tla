--------------------------- MODULE EthernetSwitch ---------------------------
(***************************************************************************)
(* The learning Ethernet switch: the two tables of the data plane          *)
(* (p4/mpitofino.p4, switching_table and switching_table_src) and the      *)
(* driver's callbacks that fill and age them (sd/asic_driver.cc).          *)
(*                                                                         *)
(* A frame from an address that is not known at its port raises a digest;  *)
(* the learn callback enters the address into both tables.  An entry that  *)
(* no frame has matched for five seconds raises an idle notification; the  *)
(* idle callback deletes it from both.  A mutex makes the callbacks        *)
(* exclude each other, but not the data plane, which forwards frames       *)
(* between the two writes of a callback.                                   *)
(*                                                                         *)
(* Left out: the capacity of the tables, and frames that arrive from the   *)
(* recirculation and inter-pipe ports, which belong to the aggregation.    *)
(***************************************************************************)
EXTENDS Naturals, Sequences

CONSTANTS
    Host,          \* MAC addresses of the nodes
    Port,          \* front-panel ports (0, 4, ..., 60 and 384, 388, ..., 444)
    OwnMac,        \* MAC address of the collectives module
    Strange,       \* source addresses of frames that are not their sender's
    MaxDigests     \* bound: digests that wait for the driver

Bcast == "ff:ff:ff:ff:ff:ff"

CpuPort == "cpu"   \* port 64

Mac == Host \cup {OwnMac, Bcast} \cup Strange

\* What the switch may learn.
Sources == (Host \cup Strange) \ {OwnMac}

ASSUME SwitchAssumption ==
    /\ OwnMac \notin Host /\ Bcast \notin Host /\ OwnMac # Bcast
    /\ Port \cap {CpuPort, "flood", "bcast", "collective"} = {}
    /\ MaxDigests \in Nat

VARIABLES
    srcTable,      \* learned entries of switching_table_src: <<address, port>>
    dstTable,      \* dstTable[a]: what switching_table does with frames to a
    digests,       \* digests for the learn callback
    expired,       \* entries whose idle notification waits for the idle callback
    callback,      \* the callback that holds the mutex, between its two writes
    failed         \* a table operation has failed: the daemon has ended

switchVars == <<srcTable, dstTable, digests, expired, callback, failed>>

Free == <<"free">>

\* initial_setup.  "flood" is the default action: no entry.
SwitchInit ==
    /\ srcTable = {}
    /\ dstTable = [a \in Mac |-> IF a = Bcast THEN "bcast"
                                 ELSE IF a = OwnMac THEN "collective" ELSE "flood"]
    /\ digests = <<>>
    /\ expired = {}
    /\ callback = Free
    /\ failed = FALSE

-----------------------------------------------------------------------------
(* The data plane. *)

\* Faulty variant: a frame returns to the port it came from.
FloodPortsAll(in) == Port

\* The multicast groups; the port a frame came from is excluded.
FloodPorts(in) == Port \ {in}

BcastPorts(in) == (Port \cup {CpuPort}) \ {in}

\* Faulty variant: the switch's own address is learned.
KnownSourceNoOwn(src, in) == in = CpuPort \/ <<src, in>> \in srcTable

\* switching_table_src: static entries for the CPU port and the own address.  Any
\* other source is learned, the broadcast address too.
KnownSource(src, in) == in = CpuPort \/ src = OwnMac \/ <<src, in>> \in srcTable

\* switching_table: where a frame leaves.  What is addressed to the collectives
\* module and is no aggregate and no ACK goes to the CPU.
OutPorts(dst, in) ==
    CASE dstTable[dst] = "flood" -> FloodPorts(in)
      [] dstTable[dst] = "bcast" -> BcastPorts(in)
      [] dstTable[dst] = "collective" -> {CpuPort}
      [] OTHER -> {dstTable[dst]}

\* A frame passes the data plane: all it changes is the queue of digests.
Frame(src, in) ==
    /\ Len(digests) < MaxDigests
    /\ digests' = IF KnownSource(src, in) THEN digests ELSE Append(digests, <<src, in>>)
    /\ UNCHANGED <<srcTable, dstTable, expired, callback, failed>>

\* No frame has matched an entry for its time to live.
Expire(entry) ==
    /\ entry \in srcTable \ expired
    /\ expired' = expired \cup {entry}
    /\ UNCHANGED <<srcTable, dstTable, digests, callback, failed>>

-----------------------------------------------------------------------------
(* The driver. *)

\* eth_switch_learn_cb, for one digest: first the source table,
LearnSource ==
    /\ ~failed /\ callback = Free
    /\ digests # <<>>
    /\ srcTable' = srcTable \cup {Head(digests)}
    /\ digests' = Tail(digests)
    /\ callback' = <<"learn", Head(digests)>>
    /\ UNCHANGED <<dstTable, expired, failed>>

\* Faulty variant: the switching table is not updated.
LearnNoDestination ==
    /\ callback[1] = "learn"
    /\ callback' = Free
    /\ UNCHANGED <<srcTable, dstTable, digests, expired, failed>>

\* then update_switching_table.
LearnDestination ==
    /\ callback[1] = "learn"
    /\ dstTable' = [dstTable EXCEPT ![callback[2][1]] = callback[2][2]]
    /\ callback' = Free
    /\ UNCHANGED <<srcTable, digests, expired, failed>>

\* eth_switch_idle_cb: delete the entry of the source table,
ForgetSource(entry) ==
    /\ ~failed /\ callback = Free
    /\ entry \in expired
    /\ srcTable' = srcTable \ {entry}
    /\ expired' = expired \ {entry}
    /\ callback' = <<"idle", entry>>
    /\ UNCHANGED <<dstTable, digests, failed>>

\* Faulty variant: the entry of the switching table stays.
ForgetNoDestination ==
    /\ callback[1] = "idle"
    /\ callback' = Free
    /\ UNCHANGED <<srcTable, dstTable, digests, expired, failed>>

\* then the address's entry of the switching table, whatever its port; the
\* exception for one that does not exist ends the daemon.
ForgetDestination ==
    LET addr == callback[2][1]
    IN  /\ callback[1] = "idle"
        /\ failed' = (dstTable[addr] = "flood")
        /\ dstTable' = [dstTable EXCEPT ![addr] = "flood"]
        /\ callback' = Free
        /\ UNCHANGED <<srcTable, digests, expired>>

Driver ==
    \/ LearnSource \/ LearnDestination \/ ForgetDestination
    \/ \E entry \in srcTable : ForgetSource(entry)
=============================================================================
