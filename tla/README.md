# A verification model of mpitofino

mpitofino performs MPI allreduce inside an Intel Tofino switch. Clients send
the packets of their vectors to the switch over RoCE; the switch adds packets
with the same sequence number and multicasts the sums. This directory holds TLA+
models of the system, TLC configurations that check them, and TLAPS proofs. All
paths below are relative to `src/projects/mpitofino/`.

## 1. Inventory

| Component | State | Operations |
|---|---|---|
| Data plane (`p4/collectives.p4`, `collectives_distributor.p4`, `mpitofino.p4`) | per slot two bitmap registers and 32 value register pairs | aggregate (first pass), clear (second pass, after recirculation), inter-pipe transfer, multicast |
| Client library, `allreduce` (`client_lib/mpitofino.cc`) | ring, send and receive buffers, queue pair, completion queue | fill ring, post receive and send, poll completions |
| Client library, `get_channel` | channel cache, connection to the node daemon | request, reply |
| Client library, `convert_endianess_32` | - | byte order conversion, vectorised |
| Node daemon (`nd/node_daemon.cc`) | clients with their channels and pending replies, the switch | client connects, asks, disconnects; response or end of file of the switch; beacon |
| Control plane agent (`sd/distributed_control_plane_agent.cc`) | node daemons with the channels they own, held responses | get channel, unreference, disconnect |
| State repository (`sd/state_repository.cc`) | channels, next QP number | add, update participant, remove, allocate |
| ASIC driver, channels (`sd/asic_driver.cc`, `bfrt_tools.h`) | the tables and registers of the aggregation | `on_st_repo_channels`: write, delete, clear |
| ASIC driver, Ethernet (`sd/asic_driver.cc`, `p4/mpitofino.p4`) | the switching table and its source table | learn callback, idle callback |
| Packet processor (`sd/packet_processor.cc`) | none | replies to ARP and echo requests, beacons |
| `common/`: framing, event loop, buffer pool | message buffers, callbacks by descriptor, free list | send, receive; dispatch; get and return a buffer |

How they interact: the client calls `get_channel`, which sends a datagram to the
node daemon and blocks. The node daemon forwards it over TCP to the agent. The agent
changes the repository, which calls the ASIC driver synchronously. The agent holds
its responses until as many have come as the channel has participants; they go
back the same way. Then clients and switch exchange packets without any daemon. When a
process ends, its node daemon unreferences the channels that no other client of the
node uses; the agent removes the channels no node daemon owns. Apart from that the switch
is an ordinary learning Ethernet switch for the nodes, with its own daemon as one more
station behind the CPU port; the beacons the daemon sends through it tell each node
daemon the switch port the node is connected to.

What is hard, and the property that answers it:

- A fast client runs ahead into a slot that others have not finished
  (`SlotIntegrity`, `NoPartialWipe`). Nothing in the switch prevents it; the window
  of the client library does (`ImplementsFabric`).
- Completing and clearing a slot are two passes with other packets in between
  (`FullIffRecirculating`); a sum leaves in two halves, and with clients on two pipes
  it is formed in two places (`ResultsExact`, `ImplementsAllreduce`).
- Registers are never initialised between operations (`QuiescentRegistersZero`).
- Queue pairs are unreliable: a lost packet is never reported (`ReturnedExact`).
- Posting never asks for room (`QueuesFit`, `StatusCounts`, `ReceivePosted`).
- A reply allows a client to send at once, although configuring the switch takes a
  request of every client (`HeldChannelsWork`, `HoldsReplies`).
- Reference counts at two levels, with requests and disconnects of several nodes
  interleaved (`OwnersMatchUsers`, `NothingLeftBehind`, `SdSurvives`).
- Replies without a tag, pending entries that are never erased (`RepliesAreCurrent`),
  and SIGPIPE (`NodeDaemonsSurvive`).
- Channels of several applications in the same tables and registers, which are updated
  table by table while packets arrive (`ServiceUndisturbed`, `NothingAfterClear`,
  `ImplementsTables`, `ChannelsDistribute`).
- Callbacks of two threads write two tables one after the other while the data plane
  forwards with both (`NodesReachable`, `TablesAgree`, `DeletesSucceed`).
- Beacons are broadcast frames, but each must reach one node (`AdoptsOwnPort`,
  `SwitchDiscovered`); replies go where a changing table says (`EchoesAnswered`).
- Vectorised loops write more words than they have (`ResultConverted`, `WritesOwnLines`).

`PROJECT.json` lists all hazards with their lines.

## 2. Modules

| Module | Models | State |
|---|---|---|
| `Allreduce` | what clients are promised | `sent`, `result` |
| `AggregationFabric` | the data plane of one channel | links, registers, recirculation port, multicast copies |
| `AllreduceSystem` | `allreduce` and its queue pair, composed with the fabric | ring, buffers, queues of the adapter |
| `StateRepository` | operators for the repository and the agent's QP numbers | (none) |
| `ASICDriver` | `on_st_repo_channels` as an operator from tables to tables | (none) |
| `ControlPlane` | client processes, node daemons and agent | processes, message queues, owners, held responses, channels, tables |
| `ChannelTables` | channels of several applications | channels, tables, who has sums in which registers |
| `TableUpdates` | `ChannelTables` with updates in steps; implements it | the update under way |
| `EthernetSwitch` | the learning switch: data plane and callbacks | the two tables, digests, notifications, the callback in progress |
| `SwitchLan` | `EthernetSwitch` with nodes, packet processor and discovery | cables, requests, beacons, the port each node daemon knows |
| `EndianConversion` | `convert_endianess_32` over the chunks of a call | vector, loop variable |
| `*Proofs` | proofs; `OrderlyJobsProofs` goes on where `ControlPlaneProofs` ends | |
| `MC*` | instances for TLC | |

### AggregationFabric

`Inject` is a client that sends the next packet, `Aggregate` the first pass
through `Collectives` (with the bit set, both halves added, the low half read and the
completion test), `Clear` the second, `Deliver` the end of a multicast copy's way.
`Inputs`, `FullBitmap` and `Upstream` are what the ASIC driver installs. A payload
is abstracted to how often each contribution was added to it, so that an omission, a
duplicate and a mix of PSNs all differ; 32-bit addition is therefore exact. One
input's packets stay in order, as on a cable and in a pipe; those of different inputs
interleave freely. The window in `CanSend` is the contract with the client library.

### AllreduceSystem

`Fill`, `PostRequest`, `Poll` and `Return` are the loop of `allreduce`. An iteration
polls whatever has completed, and completions become visible one at a time, so the loop
is these steps in any order its conditions permit. `Transmit` and `Receive`
are the adapter (external, from how the code sets up the UC queue pair). A send
buffer is read only on transmission, so a buffer reused too early shows.
`Lose` drops a packet on a client's cable. `ImplementsFabric` says that ring and queues keep
the fabric's window also after a loss; only the loss itself is not a step of the fabric.
`ReceivePosted` and `ReturnedExact` are stated for fewer losses than a chunk has packets
(`FewLosses`, see section 4).

### ControlPlane, StateRepository, ASICDriver

A message is an element of a queue, a callback an action: `NdClientEvent`
(`on_client_fd`), `NdSwitchEvent` (`on_switch_fd`), `Discover` (`on_tdp_fd`),
`SdEvent` (`Agent::on_client_fd`). A process runs `Start`, `GetChannel`, `ReadReply`,
`Exit` and, in some runs, `Kill`. It goes on to its next channel or its end only when
everybody has its last one, as allreduce on it returns only then. A daemon
that throws or receives SIGPIPE is down for the rest of the behaviour. These decisions need
a reason:

- Events of one node's clients are handled in the order in which they occurred:
  epoll's ready list is a queue. Without that assumption a new job's request
  could overtake the end of the previous job on the same node.
- When the end of a node daemon's connection and messages are left together, the agent handles
  one message and then the end (`on_client_fd`); the others are lost (`AfterOne`).
- A response held for a node daemon that has gone is a pointer to a deleted object;
  forwarding it either ends the agent or does nothing (`Respond`).

`SdGetChannel` notifies the driver once although the code does so for
`add_channel` too: that first time no additional channel is known, so that
nothing would change. `Reconfigure` computes the tables after a change; the code first
writes and then deletes, never the same entry. `UpdateFails` is when the driver throws on the
way: too many clients on a pipe, or registers to be cleared that do not exist (units from 64
on). The exception leaves the agent's callback as those of the repository do; the agent is then down
(`Refused` and `SdFails` for a request, `RemoveUnowned` for the removal of a channel). The tables keep what an earlier registration left
behind while the unit stays in use, as the code does.

### ChannelTables

The operators of `StateRepository` and `ASICDriver` under arbitrary orders of adding,
registering and removing channels of different groups. Of the registers it keeps
only whose unfinished sums they hold.

### TableUpdates

The same, but `Reconfigure` is taken apart into the loops of `on_st_repo_channels`:
five writes per known channel in the order of the tags (`WriteStep`, one table at a time; the code
alternates between selector and output entries, participant by participant), then per pipe the
selector, bitmap and output entries that are in excess (`DeleteStep`), then the multicast
tables (`MulticastStep`) and the registers of the units that lost selector entries
(`ClearStep`). `update` holds the writes and the number of the delete step that are left.
A client of a channel may send once the update that made it known has ended, as the
responses leave after it; packets of a channel that is being removed may still
arrive (`AggregateLate`). The refinement mapping of `ImplementsTables` completes the
update under way in one step, so that `ChannelTables` is a justified abstraction, and
with it the single step of `ControlPlane`. That the iterator goes on correctly behind
a deleted entry is assumed (the code has a TODO about it).

### EthernetSwitch and SwitchLan

`Frame` is a frame in the data plane, which raises a digest when its source is not known
at its port. `LearnSource`, `LearnDestination`, `ForgetSource` and
`ForgetDestination` are the two writes of each callback; `callback` is the holder of
the mutex. `Expire` may happen to any entry at any time: how long nodes
are silent is their own affair. `SwitchLan` adds nodes that send frames
(`Send`), ask (`Ask`) and are moved (`Move`), the
packet processor (`AnswerArp`, `AnswerEcho`, `Announce`) and the node daemon's
`on_tdp_fd` (`Hear`). `Strange` is the set of source addresses that any node may use besides its
own: the switch's, another node's, or the broadcast address. The driver has a static entry
against learning its own address only. In the runs, and as a hypothesis of most theorems,
`Strange` is just that address: with another node's address as source a frame moves that
node's entries as if it had been moved there, and with the broadcast address it replaces the static entry that
broadcasts follow, which ageing then deletes. TLC shows both (`NodesReachable`, `DeletesSucceed`
and, without its premise, the broadcast half of `ModuleReachable` are violated). Only the first half,
that frames to the collectives module reach it, holds whatever sources there are. With `QuickMoves = FALSE` a cable is moved only when no table entry
and no message under way names the node's old port.

### EndianConversion

One step per word of the scalar loops and one per line of the vectorised loop. What a
word of memory holds is reduced to: untouched, its own result, something foreign.
The end of one chunk and the beginning of the next share a line unless vector and
chunks are aligned; that is where the loops could destroy each other's results.

## 3. Runs

| Run | Shows | Bounds |
|---|---|---|
| `fabric_two_pipes` | all safety properties of the fabric, that it implements `Allreduce`, and that every client gets every result | 3 clients on 2 pipes, 3 slots, 5 packets each |
| `system_safety` | ring, queues and buffers; the library keeps the fabric's contract; a call that returns is exact although one of a chunk's two packets was lost | 2 clients, window 2 of 2-packet chunks, calls of 3 and 1 chunks, at most 1 loss |
| `system_liveness` | calls return without loss | 2 clients on 2 pipes, calls of 3 and 1 chunks |
| `control_jobs` | replies imply a configured switch; replies, reference counts and clean-up over jobs and groups that are created again; every request is answered | 3 clients on 2 nodes (2 + 1), tags 1, 2, 1; 2 jobs |
| `control_abort` | reference counts and clean-up when processes are killed and a switch is discovered late | 1 channel, first of 2 jobs may be killed |
| `tables_shared` | channels do not disturb each other's aggregation while tables are updated step by step; the steps implement `ChannelTables` | 3 groups on 3 nodes and 2 pipes, 2 units |
| `lan` | reachability, agreement of the tables, adopted ports; every request is answered and every node daemon finds the switch | 2 nodes, 3 ports, 1 digest waiting, 1 move after a silence, `Strange` the switch's address |
| `conversion` | all results converted, no foreign word left | all vectors of up to 40 words, all alignments, chunks of 16 |
| `control_qps`, `control_hold`, `tables_multicast`, `lan_move` | see Findings | as above |

Why the bounds are enough: three slots and five packets make slots wrap
with every relation between fast and slow clients that the window permits, and the
theorems cover the rest. Three clients on two pipes use each branch of the pipe
configuration: a pipe with several clients, one that feeds another, one that
waits for it. A window of two is the smallest ring in which entries differ; a
call of three chunks reuses an entry, the next call starts with a fresh ring on used
buffers. Two nodes, one with two clients, are the smallest system in which both levels of
reference counting and the per-node numbers matter; two jobs let messages of
one meet the state of the other. With `MaxUnits` = 2 and `MaxCommon` = 2 or 3
units and numbers run out and wrap. In the LAN a digest can wait while its address is
being learned from another one, and a node can be moved into every relation
to its old entries. Vectors of up to three chunks, the last one of any
length, contain every way in which chunks and 32-byte lines can overlap. Counters of the
code are bounded by `MaxPsn`, `MaxRuns`, `MaxLosses`, `MaxDigests`, `MaxRequests`, `MaxMoves`,
`MaxWords` and the length of `Program` and `Calls`.

`CHECK_DEADLOCK FALSE` stands only where the system really may stop: `system_safety` (after a
loss nothing retransmits), `control_abort` and `control_hold` (after killed
processes others wait for ever). Where a program ends regularly, the end is a step of its own
(`AllReturned`, `Returned`).

### Fairness

Weak fairness of single steps. Switch and adapters forward whatever is queued;
clients poll in a loop without blocking; the daemons' level-triggered event loops handle what
is ready; the processes of a job make their next call. Nothing is assumed about
losses or kills: liveness is checked only without them, because the code has no time-outs
and promises nothing after them. `control_jobs` starts with the switch known
to every node daemon: requests made earlier are dropped
(`nd/node_daemon.cc:260` says so).

`FairLanSpec` assumes that the event loop and the timer of the switch daemon run and that a
node daemon reads what arrives; nothing is assumed of nodes, cables, callbacks and
idle timers. A beacon that reaches a port before the daemon there listens is lost; `SwitchDiscovered`
holds because the timer sends the next one.

## 4. Findings

Four runs expect a violation; each is a behaviour of the code that contradicts
a comment or an error check of the repository.

- `control_qps`: `get_next_fabric_qp` counts the asking client's own old entry. When two
  clients of a node create their group again while the channel exists, both get
  number 2 of the node, and their packets set the same bit of the bitmap.
- `control_hold`: the agent counts held responses instead of known participants. A client
  that is killed and asks again counts twice, so a reply leaves before the last
  participant is known and the switch configured.
- `tables_multicast`: multicast node ids are shared by eight units
  (`agg_unit / 8` in `sd/asic_driver.cc:528`), so a second channel redirects the
  results of the first to its own ports.
- `lan_move`: an address seen at a second port has two entries in the source table but one in
  the switching table. When the first of the two ages out, the idle callback deletes the entry that
  steers to the new port; when the second does, `Failed to delete table entry`
  (`sd/asic_driver.cc:429`) is thrown out of a callback and ends the daemon. It takes a node
  that is connected to another port within the time to live of its old entry.

Not a finding, as no text of the repository promises anything after a loss, but a limit of the protocol:
with as many losses as a chunk has packets, a faster client can complete a slot a second time
before its clear pass (`check_complete` compares the bitmap only with the full one). The result
in excess makes up for one that is missing; a call then returns with wrong sums, and a
result can find no receive request. TLC shows both with chunks of one packet and one
loss. Hence the condition `FewLosses` of `ReturnedExact` and `ReceivePosted`.

Because of the findings some properties are checked only where they can hold:
`HeldChannelsWork` for the first use of a tag (`FirstUse`), `HoldsReplies` without
killed processes (`control_jobs`), `tables_shared` has no property about where
results of concurrent channels go, and `lan` moves nodes only after a silence.

## 5. Proofs

All proofs are for every value of the constants. No theorem depends on a bound of a run.

### The data plane

`AggregationFabricProofs` proves, for any number of
clients on either pipe, any number of slots and any number of packets (the only
assumption is `FabricAssumption`: at least one client, each on pipe 0 or 3, at least one slot and
packet):

| Theorem | Property |
|---|---|
| `TypeCorrect` | `TypeOK` |
| `Invariance` | `IInv` (inductive) |
| `ResultsAreExact` | `ResultsExact` |
| `SlotsKeepIntegrity` | `SlotIntegrity` |
| `FullMeansRecirculating` | `FullIffRecirculating` |
| `QueuesAreBounded` | `QueuesBounded` |
| `QuiescentMeansZero` | `QuiescentRegistersZero` |
| `ClearsAreComplete` | `NoPartialWipe` |
| `Refinement` | `ImplementsAllreduce` |

The argument counts packets. For an input `m` of pipe `p` let `Arrived(m)` be what the
pipe has added of it, `Triggered(p)` the completed slots and `cleared[p]` the cleared
ones. Then

    cleared[p] <= Triggered(p) <= Arrived(m) <= cleared[p] + Slots

The last bound is the clients' window, carried along the path of a result back
to its client. So all PSNs a pipe works on lie in a window of `Slots` numbers, on which
`Slot` is injective, and `RegisterInv` can describe each register by the one PSN that
owns it. None of the properties is inductive on its own: `ResultsExact`, for instance, needs the
contents of the multicast copies (`DownInv`), those need the low sums on the
recirculation port (`RecircInv`) and the high sums in the registers (`RegisterInv`), which
need the sums on the links (`LinkInv`) and the window. `IInv` is their conjunction.

### Ring and queues of the client library

`AllreduceSystemProofs` proves, for any number of clients, any window, chunk size and
sequence of calls, and with any losses:

| Theorem | Property |
|---|---|
| `RingInvariance` | `RingInv` (inductive) |
| `StatusIsCount` | `StatusCounts` |
| `QueuesNeverOverflow` | `QueuesFit` |

`StatusCounts` alone is not inductive: that a free entry has no request in any queue
must be known for *each place* a request can be in. `RingInv` says that a request which was
announced in a ring entry is still to be posted, or in its queue, or in the completion queue, in
exactly one of them and there once (`PlacesInv`), and that `outstanding_reqs` is the sum of the
lengths (`CountsInv`); hence at the end of a call, when it is zero, all queues are empty
and the next call may start with a fresh ring. The sizes of the queues then follow by
counting entries: requests of one kind map injectively into the ring (`KindFits`). Nothing of
the fabric is used; the argument holds for any order in which the adapter works.

### Client library and data plane together

`AllreduceSystemProofs` then joins the two: for any number of clients, window, chunk size with
`Slots = Window * PktsPerChunk` (`SystemAssumption`) and sequence of calls,

| Theorem | Property | Losses |
|---|---|---|
| `SystemTypes` | `SystemTypeOK` | any |
| `PsnsAreConsecutive` | `PsnInv` (inductive, with `RingInv`) | any |
| `ClientsImplementFabric` | `ImplementsFabric` | any |
| `StaysInStep` | `LossFreeInv` (inductive, with the above) | none |
| `ResultsFindRequests` | `ReceivePosted` | none |
| `CallsReturnExact` | `ReturnedExact` | none |
| `SystemImplementsAllreduce` | `ImplementsAllreduce` | none |

The protocol has no sequence numbers above the queue pair: that the k-th packet of a client
belongs to the right chunk follows only from everybody counting alike. The proof makes the counts
explicit. Chunks are numbered over all calls; `SendsDone(c)` and `RecvsDone(c)` are the
chunks whose send or receive request has completed in the adapter. `PsnInv` says that send
and receive queue hold the chunks behind these in order, that the next PSN belongs to the chunk at the head
of the send queue (`SendInv`), and that as many results as `RecvsDone(c)` chunks need have arrived
(`RecvInv`). So what the adapter sends next is what `FabricNext` expects of the
client; and as a receive request is posted before the send and the ring has `Window` entries, no more than
`Window` chunks lack results: this is the fabric's window. Losses do not matter for that: they only make
results fewer.

Without losses `LossFreeInv` adds the other direction: the results a client has received are
the first `RecvsDone(c) * PktsPerChunk + j` ones of its cable, so a result's PSN, by `IInv` of the fabric, is
that of the receive request it fills, and every chunk completed, then copied to the user's vector, then returned
is exact. `ChunksBefore`, a recursive function, enters through its defining equation only; where it must be
monotonic a least counterexample refutes the contrary (`LeastElement`).

### Tables and their updates

`TableUpdatesProofs`, from lemmas about repository and driver in `ASICDriverProofs`, proves
for any groups, ports, numbers of units and of common parts:

| Theorem | Property |
|---|---|
| `TablesInvariance` | `UInv` (inductive) |
| `TablesTypes` | `TablesTypeOK` |
| `ClearedUnitsStayClear` | `NothingAfterClear` |
| `ServiceStaysUndisturbed` | `ServiceUndisturbed` (with `NumbersInv`) |
| `UpdatesAreAtomic` | `ImplementsTables` |

`TablesAssumption` says what the code relies on: tags and client ids are numbers, a group
has a client and finitely many of them, node ports are on pipes 0 and 3, addresses are not
0.0.0.0, and at most 256 clients share a node (the driver throws before: 64 on pipe 0, 61 on pipe 3).

What is allocated is free (`AllocatesFree`), so no two channels share a unit or a common part
(`ChannelsInv`). Selector keys contain the common part and all other keys the unit; hence
entries of different channels have different keys and no channel overwrites another
(`EntriesDisjoint`). `UInv` then describes a table in the middle of an update
(`Between`): each entry is that of a known channel, or belongs to the unit that is being given
up and a delete step for its table and pipe is still to come (`Left`); and the entries of
channels that are done, above all those in service, are there. Without the second half
`NothingAfterClear` could not be kept: it follows because at the clear step nothing is left to
delete, so every unit given up has lost an entry (`LostInv`, `ClearedAreLost`) and nothing selects it any
more. For `ServiceUndisturbed` a channel's clients must also have different keys: the
numbers of those on a node are below the number of clients known there (`NumbersInv`), so the
next one is new.

`UpdatesAreAtomic` is a refinement: each step leaves unchanged what the rest of the update leads
to (`WriteLeads`, `DeleteLeads`), since it touches only entries that are written in any case or belong to
no unit in use; between updates the tables are those their channels lead to
(`IdleLeads`), so the next change starts from the same tables in both models. The operators of the
instance are shown to be the same first (`SameReconfigure`).

### The control plane

`ControlPlaneProofs`, with the lemmas of `ASICDriverProofs` about the tables, proves for any clients,
nodes, programs, numbers of jobs, units and common parts, and **whichever jobs are killed**:

| Theorem | Property |
|---|---|
| `ControlTypes` | `ControlTypeOK` |
| `TwoLevelsAgree` | `OwnersMatchUsers` |
| `JobsLeaveNothing` | `NothingLeftBehind` |

The only assumption is `ControlPlaneAssumption`: client ids are numbers, there are finitely many of them, node
ports are on pipes 0 and 3, and no node is named 0.0.0.0 or after the recirculation port.

The inductive invariants, each used by those after it:

- `TypesInv` adds to the types the contents of every queue.
- `ConnsInv` relates a node daemon's connections, the events in its inbox and the processes: a connection is
  that of a living process, or its end is in the inbox and nothing of that process behind it. Only with it
  do `ConnOf` and `remove_client` find exactly one connection.
- `OwnersInv` is `OwnersMatchUsers` for a single channel (`WillKeep`). It is inductive because a request makes the
  daemon an owner in the end (`KeepsRequested`), an unreference ends exactly one channel
  (`KeepsNotEnded`), and handling the first message changes nothing in the end
  (`KeepsHandled`), also when messages are lost in front of the end of a connection. `OwnedInv`: the
  channels of the repository are those with an owner. That they agree only from one level to the
  next is why the removal of a channel never fails (`RemovesUnowned`).
- `MsgsInv`: an unreference under way of a channel that a connection uses has that connection's request behind it.
- `ReposInv`: units and common parts are not shared (`ChannelsOk`), every table entry is that of a known
  channel and every known channel has its entries (`TablesOk`, kept by every
  `Reconfigure` that follows a legal change: `ReconfigureFits`).

`JobsLeaveNothing` then follows from all of them (`QuietIsEmpty`): no process and no event, hence no
connection; hence no user; hence, with no message, no owner; hence no channel; hence no entry.

For **orderly jobs**, whose processes end only when they have returned from their last allreduce
(the hypothesis `Aborts = {}`), `OrderlyJobsProofs` proves five more:

| Theorem | Property | Further hypothesis |
|---|---|---|
| `DaemonsSurviveOrderlyJobs` | `NodeDaemonsSurvive` | |
| `RepliesStayCurrent` | `RepliesAreCurrent` | |
| `RepliesAreHeld` | `HoldsReplies` | |
| `AgentSurvivesOrderlyJobs` | `SdSurvives` | no more tags than units, common parts and units with registers (64); at most 64 clients on pipe 0 and 61 on pipe 3 |
| `ClientsMaySendAtOnce` | `HeldChannelsWork` | no tag twice in a row, at most 256 clients |

`control_hold` refutes `HoldsReplies` with killed processes, and `Aborts = {}` is a constant that any
number of jobs, clients and repeated tags is compatible with. The hypotheses of `AgentSurvivesOrderlyJobs` are the
code's own limits: the repository throws when units or common parts are used up, the driver when a pipe
has more clients than bits, or when registers of a unit above 63 are to be cleared. So is the
number of clients of `ClientsMaySendAtOnce`: 8 bits of a QP number tell those of a node apart (`get_next_fabric_qp`). "Twice in a row" is
`Program[k] = Program[k + 1]`, a group that is destroyed and created again with no other channel in
between. Then a client that is a call ahead registers again while another one still uses its first
reply, and the number it is given may be that of somebody else: with the program `<<1, 1>>` of
`control_qps` TLC refutes `HeldChannelsWork` too. Two such calls further apart, as in
`control_jobs`, are harmless to the first use.

None of the five is inductive: a reply that is current now says nothing of the response behind it that
makes the next one. `RequestsInv` follows a request along its whole way. A client that waits has
its request in the inbox of the node daemon, in a message to the agent, held there as a
response, in a response on its way back or in a reply, in *one* of them and there once
(`InInbox`, `AtSd`, `Held`, `FromSd`, `Replied`); a client that does not wait has it nowhere; and once the
agent has handled the request its registration stays (`Registered`: connection, ownership, channel and the
participant's queue pair) until the client obtains the next channel or ends. From it:

- every response has a connection that waits for it, of a living process, so no daemon dies;
- as each client's response is held once, as many held responses as a channel has participants
  are those of all of them (`CompleteIsAll`); when one leaves, each client has been registered;
- an agent that fails has no unit or number left, which with fewer channels than there are of each
  cannot be (`EnoughToAllocate`), or removes a channel that is not there, which `OwnedInv` excludes, or
  is stopped by the driver (`UpdateAccepted`): a channel has only its group's clients, and as the lowest free unit is
  handed out (`LowestUnit`), all units in use are smaller than the number of tags (`UnitsInv`).

`HeldChannelsWork` relates what one client has been told to everybody's registrations and to five tables. It
takes three more inductive invariants:

- `StepInv`: clients are in step. Two processes at work are in the same job, none has obtained a channel
  the other has not asked for, and once *one* is answered *all* have asked (`Answered`, `Asked`,
  `InStep`). It rests on `CompleteHoldsAll`: a complete channel holds a response for every client.
- `KnownInv`: the channel of an answer under way, and the one obtained last, has all its participants.
  It is kept as a channel somebody still owns is neither removed nor ever loses a participant
  (`StaysKnown`).
- `OnceInv`: for a tag that nobody has asked for twice (`Fresh`), who has registered has no further
  request on its way, and the numbers given out on a node are smaller than the number of clients known
  there and different (`NumbersFit`). So a request finds its client unregistered (`NumbersRegistered`), and the next number,
  which is that number, is new (`NextNumberFits`). Without the hypothesis about 256 clients it would wrap.

In the state of `HeldChannelsWork` all processes are in the first job and at most one call ahead of the
client (`StepInv`), hence its tag is `Fresh` (`FirstUseFresh`), hence the numbers fit. `TablesWork` does the rest for any
tables that fit the repository: selector keys of a channel are different, so each
client has its own bit (`TablesAggregate`); and the multicast rows, which all channels share, say the same
in each of them because every channel has the same clients (`RowInTables`), so each client gets one copy of
a result, at its port and with its queue pair (`TablesDistribute`).

### The LAN

`SwitchLanProofs` proves, for any nodes, ports and bounds:

| Theorem | Property | Cables | Foreign sources |
|---|---|---|---|
| `LanTypes` | `LanTypeOK` | moved at any time | any |
| `PortsAreOwn` | `AdoptsOwnPort` | moved at any time | any |
| `LanInvariance` | `LInv` (inductive) | moved after a silence | the switch's |
| `TablesStayConsistent` | `TablesAgree` | moved after a silence | the switch's |
| `DeletesAlwaysSucceed` | `DeletesSucceed` | moved after a silence | the switch's |
| `AllNodesReachable` | `NodesReachable` | moved after a silence | the switch's |
| `ModuleStaysReachable` | `ModuleReachable` (broadcasts: if no frame has that source) | moved at any time | any |

"After a silence" is the hypothesis `~QuickMoves`: nothing in the switch names the node's
old port any more. `lan_move` shows that it cannot be dropped. "The switch's" is `Strange \subseteq {OwnMac}`;
section 2 says what happens otherwise. `ModuleStaysReachable` rests on `StaticInv` alone: the switch's
own address is in no digest, entry or callback, and the broadcast address is in none if it is nobody's
source. `LInv` consists of what the switch
remembers of a node being where the node is (`MemoryInv`: entries, digests and the
callback in progress) and of how far the two tables may differ during a callback
(`EntryInv`); `TablesAgree` is its special case outside callbacks and says nothing about the
digests that will become entries, which is why it is not inductive.

### The conversion

`EndianConversionProofs` proves `ConversionTypeOK` (`ConversionTypes`),
`ResultConverted` (`ResultsAreConverted`) and `WritesOwnLines` (`LinesAreOwn`) for any chunk size,
vector length and alignment. The inductive invariant `CInv` (`ConversionInvariance`) adds where
each loop can be (`LoopInv`: the second loop ends less than a line behind the chunk and
then has done at least one line, so that going back eight words stays inside it), that
everything behind the loop variable is converted (`DoneInv`), and that nothing is written
behind the last line of the vector (`EndInv`).

### Only model-checked

Of `AllreduceSystem` what `ReceivePosted` and `ReturnedExact` say after a loss (the theorems are for
runs without); of the control plane what `HeldChannelsWork` says in programs that ask for a tag twice in a
row, where it is false; where the results of concurrent channels go (`tables_multicast` refutes
it); liveness everywhere: `AllComplete`, `CallsReturn`, `RequestsAnswered`, `EchoesAnswered` and
`SwitchDiscovered`. Liveness under fairness and ENABLED are out of the prover's reach. Every other property of
a passing run is a theorem.

## 6. Not modelled

- The RoCE ACK reflector (the queue pairs never acknowledge), ICRC and address rewriting:
  no state, or no influence on what is checked. The driver's entries for the reflector and for the
  clear pass (the same for every unit) are left out of the tables.
- The contents of ARP, ICMP and beacon packets; the capacity of the switch's tables.
- Whether an SDK iterator may be continued behind an entry that was deleted: assumed
  (`sd/asic_driver.cc:1027` asks the same question).
- That units 64 and above share registers with units 0 to 63: there are registers for 64 units, but the
  repository hands out 256. It follows from the two numbers; a model would only repeat it. That clearing such
  registers ends the agent is modelled (`UpdateFails`).
- What a failed update has written before the exception: the agent is down, and no client has a reply for
  the channel.
- The alternation of selector and output entries per participant within a channel's writes: a
  channel is not in service, and its last entries not complete, until all of them are written.
- A connection that is reset because its client ended with a reply unread: the node daemon's `read` then
  fails and it ends (`check_syscall`). `End` has only the clean end of file. Daemons also die otherwise in the
  model (`NdDies`), so the agent meets their end in any case.
- Reads of `convert_endianess_32` behind the end of the send vector. Its writes are modelled:
  up to seven words behind the receive vector, in its last line, are overwritten. No text
  of the repository promises otherwise, so that it is noted here and not a finding.
- The buffer pool (`common/dynamic_buffer.h`): nothing in the repository uses it.
- Half a message on a connection: daemons and clients block until the rest arrives.
- Daemons that restart, a switch that changes, the end of a node daemon's connection to the
  switch: the code throws. Once the agent is down the models do not follow the others.
- Clients that write to a node daemon that has died.
- A switch port on pipe 1 or 2: the driver would install no multicast copy for it.
- Start-up, configuration files, choice of the RDMA device and GID, encoding of messages.
- The C wrapper, the OpenMPI component, examples and benchmarks.

## 7. Plan

Done, in this order: data plane, client library, proofs of the data plane, control plane,
tables, Ethernet switch and discovery, updates of the tables, conversion, proofs of the LAN, the
conversion and the ring, proofs of the client library together with the data plane, proofs of the
tables and their updates, proofs of the control plane for jobs that may be killed and for orderly ones.

What is left:

1. `ReturnedExact` after fewer losses than a chunk has packets: an account of the slots whose
   bitmap stays incomplete.
2. Framing: the messages of `ControlPlane` as bytes on a stream that arrive in parts.
