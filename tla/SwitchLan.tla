------------------------------ MODULE SwitchLan ------------------------------
(***************************************************************************)
(* The switch as a member of its own network: nodes on the ports of the    *)
(* Ethernet switch (EthernetSwitch), the switch daemon's packet processor  *)
(* behind the CPU port (sd/packet_processor.cc), which answers ARP and     *)
(* echo requests and announces the switch to the nodes, and the part of    *)
(* the node daemon that listens for the announcements (nd, on_tdp_fd).     *)
(*                                                                         *)
(* Each node is on a port of its own: nodes are connected by direct        *)
(* cables (README).  Cables may be moved.                                  *)
(***************************************************************************)
EXTENDS EthernetSwitch

CONSTANTS
    MaxMoves,    \* bound: how often a cable is moved
    QuickMoves,  \* TRUE: moved even while the switch remembers the node's port
    MaxRequests  \* bound: frames that wait for the packet processor

ASSUME LanAssumption ==
    /\ MaxMoves \in Nat /\ QuickMoves \in BOOLEAN /\ MaxRequests \in Nat
    /\ Port \cap {"down", "listening"} = {}

VARIABLES
    at,          \* at[h]: the port node h is connected to
    moves,       \* how many cables have been moved
    toCpu,       \* requests that wait at the CPU interface: <<sender, destination>>
    asked,       \* asked[h]: h waits for the reply to its ARP or echo request
    beacons,     \* beacons on cables: [on: the port, port: the announced port]
    switchPort   \* switchPort[h]: the node daemon's switch_port, or a state before

nodeVars == <<at, moves, asked>>
lanVars == <<switchVars, nodeVars, toCpu, beacons, switchPort>>

LanInit ==
    /\ SwitchInit
    /\ at \in [Host -> Port]
    /\ \A g, h \in Host : g # h => at[g] # at[h]
    /\ moves = 0
    /\ toCpu = <<>>
    /\ asked = [h \in Host |-> FALSE]
    /\ beacons = {}
    /\ switchPort = [h \in Host |-> "down"]

-----------------------------------------------------------------------------
(* Nodes. *)

\* A node sends an ordinary frame; `strange' ones carry an address not its own.
Send(h, src) ==
    /\ Frame(src, at[h])
    /\ UNCHANGED <<nodeVars, toCpu, beacons, switchPort>>

\* An ARP request (broadcast) or an echo request (to the switch).
Ask(h, dst) ==
    /\ ~asked[h]
    /\ Len(toCpu) < MaxRequests
    /\ Frame(h, at[h])
    /\ asked' = [asked EXCEPT ![h] = TRUE]
    /\ toCpu' = IF CpuPort \in OutPorts(dst, at[h])
                THEN Append(toCpu, <<h, dst>>) ELSE toCpu
    /\ UNCHANGED <<at, moves, beacons, switchPort>>

\* Neither the tables nor a message under way remember where h is connected.
Forgotten(h) ==
    /\ \A p \in Port : <<h, p>> \notin srcTable
    /\ \A i \in 1 .. Len(digests) : digests[i][1] # h
    /\ callback # Free => callback[2][1] # h
    /\ ~asked[h]

Move(h, port) ==
    /\ moves < MaxMoves
    /\ \A g \in Host : at[g] # port
    /\ QuickMoves \/ Forgotten(h)
    /\ moves' = moves + 1
    /\ at' = [at EXCEPT ![h] = port]
    /\ UNCHANGED <<switchVars, asked, toCpu, beacons, switchPort>>

-----------------------------------------------------------------------------
(* The packet processor. *)

\* Faulty variant: the reply is directed to a port instead of to the sender.
ReplyPortsFixed(h) == {CHOOSE p \in Port : TRUE}

\* The header of the CPU's frames says 65535: use the switching table.
ReplyPorts(h) == OutPorts(h, CpuPort)

\* on_com_fd_data: the next request from the CPU interface is answered to the MAC
\* address it came from.
Answer ==
    LET h == Head(toCpu)[1]
    IN  /\ ~failed
        /\ toCpu' = Tail(toCpu)
        /\ asked' = [asked EXCEPT ![h] = @ /\ at[h] \notin ReplyPorts(h)]
        /\ UNCHANGED <<switchVars, at, moves, beacons, switchPort>>

\* parse_packet_arp: who has the switch's IP address?
AnswerArp == toCpu # <<>> /\ Head(toCpu)[2] = Bcast /\ Answer

\* parse_packet_ipv4_icmp.
AnswerEcho == toCpu # <<>> /\ Head(toCpu)[2] = OwnMac /\ Answer

\* Faulty variant: beacons are broadcast.
BeaconPortsBcast(port) == OutPorts(Bcast, CpuPort)

\* The header names a port: it overrides all tables.
BeaconPorts(port) == {port}

\* Faulty variant: the loop over the ports ends too early.
AnnouncedPortsButOne == Port \ {CHOOSE p \in Port : TRUE}

\* 16 ports of each of pipes 0 and 3: all that can be flooded to.
AnnouncedPorts == Port

\* on_discovery_protocol_timer: one beacon for each port, a broadcast frame.
Announce ==
    /\ ~failed
    /\ beacons' = UNION {[on : BeaconPorts(p), port : {p}] : p \in AnnouncedPorts}
    /\ UNCHANGED <<switchVars, nodeVars, toCpu, switchPort>>

-----------------------------------------------------------------------------
(* Node daemons. *)

\* initialize_tdp.
Listen(h) ==
    /\ switchPort[h] = "down"
    /\ switchPort' = [switchPort EXCEPT ![h] = "listening"]
    /\ UNCHANGED <<switchVars, nodeVars, toCpu, beacons>>

\* A beacon of the switch that is known already is ignored, whatever its port.
TakesPort(h) == switchPort[h] = "listening"

\* on_tdp_fd.  A beacon on a port without a listening daemon is lost.
Hear(beacon) ==
    /\ beacon \in beacons
    /\ beacons' = beacons \ {beacon}
    /\ switchPort' = [h \in Host |-> IF at[h] = beacon.on /\ TakesPort(h)
                                     THEN beacon.port ELSE switchPort[h]]
    /\ UNCHANGED <<switchVars, nodeVars, toCpu>>

-----------------------------------------------------------------------------
Switch ==
    /\ Driver \/ \E entry \in srcTable : Expire(entry)
    /\ UNCHANGED <<nodeVars, toCpu, beacons, switchPort>>

LanNext ==
    \/ \E h \in Host :
          \/ \E src \in {h} \cup Strange : Send(h, src)
          \/ \E dst \in {OwnMac, Bcast} : Ask(h, dst)
          \/ \E port \in Port : Move(h, port)
          \/ Listen(h)
    \/ Switch \/ AnswerArp \/ AnswerEcho \/ Announce
    \/ \E beacon \in [on : Port, port : Port] : Hear(beacon)

LanSpec == LanInit /\ [][LanNext]_lanVars

\* The event loop and the timer of the switch daemon run, and so does the node
\* daemon; beacons arrive.  Nothing is assumed of nodes, cables and idle timers.
LanFairness ==
    /\ WF_lanVars(AnswerArp \/ AnswerEcho) /\ WF_lanVars(Announce)
    /\ \A on \in Port : WF_lanVars(\E port \in Port : Hear([on |-> on, port |-> port]))

FairLanSpec == LanSpec /\ LanFairness

-----------------------------------------------------------------------------
(* Properties. *)

LanTypeOK ==
    /\ srcTable \subseteq Sources \X Port
    /\ dstTable \in [Mac -> Port \cup {"flood", "bcast", "collective"}]
    /\ digests \in Seq(Sources \X Port)
    /\ expired \subseteq srcTable
    /\ callback \in {Free} \cup ({"learn", "idle"} \X (Sources \X Port))
    /\ failed \in BOOLEAN
    /\ at \in [Host -> Port]
    /\ moves \in 0 .. MaxMoves
    /\ toCpu \in Seq(Host \X {OwnMac, Bcast})
    /\ asked \in [Host -> BOOLEAN]
    /\ beacons \subseteq [on : Port, port : Port]
    /\ switchPort \in [Host -> Port \cup {"down", "listening"}]

\* A frame to any node reaches it and does not return to where it came from: in
\* every state, also between the two writes of a callback, the tables send it to
\* the node's port or everywhere.
NodesReachable ==
    \A g, h \in Host :
        g # h => at[h] \in OutPorts(h, at[g]) /\ at[g] \notin OutPorts(h, at[g])

\* Outside the callbacks the two tables say the same: an address is steered to a
\* port exactly as long as it is known there.  An entry of the switching table
\* alone would never age; one of the source table alone would let its node send
\* for ever without being learned again.
TablesAgree ==
    callback = Free =>
        \A h \in Host, p \in Port : dstTable[h] = p <=> <<h, p>> \in srcTable

\* Whatever source addresses frames have ("`strange' ethernet frames",
\* initial_setup) and whatever is learned, aged and moved, frames to the collectives
\* module reach it; and so do broadcasts, unless a frame has the broadcast address
\* as its source: the callbacks would overwrite, and then delete, its static entry.
ModuleReachable ==
    \A h \in Host :
        /\ OutPorts(OwnMac, at[h]) = {CpuPort}
        /\ Bcast \notin Strange => OutPorts(Bcast, at[h]) = BcastPorts(at[h])

\* "Failed to delete table entry" (eth_switch_idle_cb): the entry the idle
\* callback deletes exists.  The exception would leave a callback of the SDE and
\* end the daemon.
DeletesSucceed == ~failed

\* The port a node daemon adopts, and later sends with its requests, is the one
\* its node is connected to, although beacons are broadcast frames.
AdoptsOwnPort ==
    [][\A h \in Host :
          switchPort'[h] # switchPort[h] /\ switchPort'[h] \in Port
              => switchPort'[h] = at[h] /\ switchPort[h] \notin Port]_lanVars

\* Requests to the switch are answered, however the tables change meanwhile.
EchoesAnswered == \A h \in Host : asked[h] ~> ~asked[h]

\* Every node daemon that listens gets to know its switch.
SwitchDiscovered ==
    \A h \in Host : switchPort[h] = "listening" ~> switchPort[h] \in Port
=============================================================================
