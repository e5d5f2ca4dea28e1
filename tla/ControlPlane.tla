---------------------------- MODULE ControlPlane ----------------------------
(***************************************************************************)
(* How clients obtain collective channels: client processes (client_lib,   *)
(* get_channel), one node daemon per node (nd), and the switch daemon's    *)
(* control plane agent (sd), which owns the state repository and through   *)
(* it the tables of the switch.                                            *)
(*                                                                         *)
(* The processes of a job run one program: they obtain the channels        *)
(* Program[1], Program[2], ... in order and perform allreduce on each      *)
(* before the next.  A tag that occurs twice is one whose aggregation      *)
(* group was destroyed and created again in between.  When all processes   *)
(* of a job have ended, the next job may start with the same client ids    *)
(* and tags: the OpenMPI component derives them from ranks and the command *)
(* line.  A job in Aborts may be killed, process by process, at any time.  *)
(*                                                                         *)
(* Daemons handle one event at a time.  The events of a node's clients are *)
(* handled in the order in which they occurred (the ready list of a level- *)
(* triggered epoll is a queue); those of different nodes, and messages of  *)
(* the other daemon, in any order.                                         *)
(***************************************************************************)
EXTENDS ASICDriver, SequencesExt

CONSTANTS
    Clients,      \* client ids of a job (ranks)
    Nodes,        \* nodes, each with one node daemon
    NodeOf,       \* NodeOf[c]: the node client c runs on
    Program,      \* the tags of the channels every client obtains, in order
    MaxRuns,      \* bound: how many jobs run, one after the other
    Aborts,       \* the jobs whose processes may be killed
    Discovered    \* the nodes whose daemon knows the switch from the start

ASSUME ControlPlaneAssumption ==
    /\ Clients \subseteq Nat /\ IsFiniteSet(Clients) /\ Clients # {}
    /\ NodeOf \in [Clients -> Nodes]
    /\ {Unknown.node, "recirculated"} \cap Nodes = {}
    /\ PortOf \in [Nodes -> 0 .. 127 \cup 384 .. 511]
    /\ Program \in Seq(Nat) /\ Program # <<>>
    /\ MaxRuns \in Nat \ {0}
    /\ Aborts \subseteq 1 .. MaxRuns
    /\ Discovered \subseteq Nodes

VARIABLES
    proc,       \* proc[c]: the client process: state, job, channels obtained, fabric QP
    toClient,   \* toClient[c]: fabric QPs in datagrams from the node daemon
    nd,         \* nd[n]: node daemon: alive, knows the switch, its client connections
    inbox,      \* inbox[n]: events of the node's clients that nd has not handled
    toSd,       \* toSd[n]: messages from nd to sd
    fromSd,     \* fromSd[n]: responses from sd to nd
    sdUp,       \* the switch daemon is alive
    owns,       \* owns[n]: the channels of nd's connection at the agent
    pending,    \* pending[tag]: responses the agent holds back
    channels,   \* the state repository
    nextCommon, \* next_coll_qp_common
    tables      \* the tables of the switch

clientVars == <<proc, toClient>>
ndVars == <<nd, inbox>>
sdVars == <<sdUp, owns, pending, channels, nextCommon, tables>>
controlVars == <<clientVars, ndVars, toSd, fromSd, sdVars>>

AllTags == {Program[k] : k \in 1 .. Len(Program)}

\* The elements of a finite set of numbers in ascending order (SetToSortSeq, in a
\* form that can be reasoned about).
Ascending(S) ==
    [k \in 1 .. Cardinality(S) |->
        CHOOSE x \in S : Cardinality({y \in S : y <= x}) = k]

ControlInit ==
    /\ proc = [c \in Clients |-> [state |-> "down", run |-> 0, got |-> 0, fqp |-> NoFabricQp]]
    /\ toClient = [c \in Clients |-> <<>>]
    /\ nd = [n \in Nodes |-> [up |-> TRUE, known |-> n \in Discovered, conns |-> <<>>]]
    /\ inbox = [n \in Nodes |-> <<>>]
    /\ toSd = [n \in Nodes |-> <<>>]
    /\ fromSd = [n \in Nodes |-> <<>>]
    /\ sdUp = TRUE
    /\ owns = [n \in Nodes |-> {}]
    /\ pending = [t \in AllTags |-> <<>>]
    /\ channels = NoChannels
    /\ nextCommon = 0
    /\ tables = NoTables

-----------------------------------------------------------------------------
(* Client processes. *)

Id(c) == [client |-> c, run |-> proc[c].run]

\* The tag of the channel a client is obtaining or obtained last.
Tag(c) == Program[proc[c].got + (IF proc[c].state = "waiting" THEN 1 ELSE 0)]

\* The number of the queue pair that a client creates for its k-th channel.
QpNum(run, k) == <<run, k>>

\* The allreduce on the last channel has returned: everybody contributed to it.
Synchronised(c) ==
    \A d \in Clients : proc[d].run = proc[c].run /\ proc[d].got >= proc[c].got

\* A job starts when the one before has ended.  The process connects to its node
\* daemon, which accepts the connection before it handles events of it.
Start(c) ==
    LET n == NodeOf[c]
        next == proc[c].run + 1
    IN  /\ proc[c].state = "down"
        /\ next <= MaxRuns
        /\ \A d \in Clients :
              proc[d].run = next \/ (proc[d].run = proc[c].run /\ proc[d].state = "down")
        /\ nd[n].up
        /\ proc' = [proc EXCEPT ![c] = [state |-> "ready", run |-> next, got |-> 0,
                                        fqp |-> NoFabricQp]]
        /\ toClient' = [toClient EXCEPT ![c] = <<>>]
        /\ nd' = [nd EXCEPT ![n].conns = Append(@,
                     [client |-> c, run |-> next, tags |-> {}, pending |-> {}])]
        /\ UNCHANGED <<inbox, toSd, fromSd, sdVars>>

\* get_channel: create a queue pair and send the request.
GetChannel(c) ==
    LET k == proc[c].got + 1
        n == NodeOf[c]
    IN  /\ proc[c].state = "ready"
        /\ k <= Len(Program)
        /\ Synchronised(c)
        /\ nd[n].up
        /\ proc' = [proc EXCEPT ![c].state = "waiting"]
        /\ inbox' = [inbox EXCEPT ![n] = Append(@,
                        [kind |-> "get", from |-> Id(c), tag |-> Program[k],
                         qp |-> QpNum(proc[c].run, k)])]
        /\ UNCHANGED <<toClient, nd, toSd, fromSd, sdVars>>

\* get_channel: the next datagram is taken for the reply; end of file, too, reads
\* as one, whose fields are all 0.
ReadReply(c) ==
    /\ proc[c].state = "waiting"
    /\ toClient[c] # <<>>
    /\ proc' = [proc EXCEPT ![c] = [state |-> "ready", run |-> @.run, got |-> @.got + 1,
                                    fqp |-> Head(toClient[c])]]
    /\ toClient' = [toClient EXCEPT ![c] = Tail(@)]
    /\ UNCHANGED <<ndVars, toSd, fromSd, sdVars>>

\* The process ends, in whatever way; the kernel closes its connection.  Left out: if
\* it is killed with a reply unread, the node daemon's read fails with ECONNRESET, and
\* the exception (check_syscall) ends the daemon; here, daemons die in NdDies only.
End(c) ==
    /\ proc' = [proc EXCEPT ![c].state = "down"]
    /\ inbox' = IF nd[NodeOf[c]].up
                THEN [inbox EXCEPT ![NodeOf[c]] = Append(@, [kind |-> "eof", from |-> Id(c)])]
                ELSE inbox
    /\ UNCHANGED <<toClient, nd, toSd, fromSd, sdVars>>

Exit(c) ==
    /\ proc[c].state = "ready"
    /\ proc[c].got = Len(Program)
    /\ Synchronised(c)
    /\ End(c)

Kill(c) ==
    /\ proc[c].state # "down"
    /\ proc[c].run \in Aborts
    /\ End(c)

-----------------------------------------------------------------------------
(* Node daemons. *)

\* A beacon of the switch arrives; nd connects to the switch daemon.
Discover(n) ==
    /\ nd[n].up /\ ~nd[n].known
    /\ nd' = [nd EXCEPT ![n].known = TRUE]
    /\ UNCHANGED <<clientVars, inbox, toSd, fromSd, sdVars>>

ConnOf(n, id) ==
    CHOOSE i \in 1 .. Len(nd[n].conns) :
        nd[n].conns[i].client = id.client /\ nd[n].conns[i].run = id.run

\* on_client_get_channel; ignored while the switch is not known.
NdGetChannel(n, event) ==
    LET i == ConnOf(n, event.from)
    IN  IF nd[n].known
        THEN /\ nd' = [nd EXCEPT ![n].conns[i] =
                         [client |-> @.client, run |-> @.run,
                          tags |-> @.tags \cup {event.tag},
                          pending |-> @.pending \cup {event.tag}]]
             /\ toSd' = [toSd EXCEPT ![n] = Append(@,
                           [kind |-> "get", client |-> event.from.client,
                            tag |-> event.tag, qp |-> event.qp])]
        ELSE UNCHANGED <<nd, toSd>>

\* Faulty variant: a channel is unreferenced although other clients use it.
UnusedAll(conns, i) == conns[i].tags

\* The channels of a connection that no other connection uses.
Unused(conns, i) ==
    conns[i].tags \ UNION {conns[j].tags : j \in 1 .. Len(conns) \ {i}}

\* Faulty variant: the connection stays in the list.
NdRemoveNothing(n, id) == UNCHANGED <<nd, toSd>>

\* on_client_fd, remove_client.
NdRemoveClient(n, id) ==
    LET i == ConnOf(n, id)
        unused == Unused(nd[n].conns, i)
        unrefs == [k \in 1 .. Cardinality(unused) |->
                     [kind |-> "unref", tag |-> Ascending(unused)[k]]]
    IN  /\ nd' = [nd EXCEPT ![n].conns = RemoveAt(@, i)]
        /\ toSd' = [toSd EXCEPT ![n] = @ \o unrefs]

NdClientEvent(n) ==
    LET event == Head(inbox[n])
    IN  /\ nd[n].up
        /\ inbox[n] # <<>>
        /\ inbox' = [inbox EXCEPT ![n] = Tail(@)]
        /\ IF event.kind = "get"
           THEN NdGetChannel(n, event)
           ELSE NdRemoveClient(n, event.from)
        /\ UNCHANGED <<clientVars, fromSd, sdVars>>

\* Faulty variant: the client id is not part of the key.
WaitingByTag(n, resp) ==
    {i \in 1 .. Len(nd[n].conns) : resp.tag \in nd[n].conns[i].pending}

\* The connections that wait for a response, entries of answered requests included.
Waiting(n, resp) ==
    {i \in 1 .. Len(nd[n].conns) :
        nd[n].conns[i].client = resp.client /\ resp.tag \in nd[n].conns[i].pending}

Connected(conn) ==
    proc[conn.client].state # "down" /\ proc[conn.client].run = conn.run

\* nd is killed (SIGPIPE): all its connections close, the one to sd with a reset if
\* responses are left unread.
NdDies(n) ==
    /\ nd' = [nd EXCEPT ![n] = [up |-> FALSE, known |-> @.known, conns |-> <<>>]]
    /\ inbox' = [inbox EXCEPT ![n] = <<>>]
    /\ toSd' = [toSd EXCEPT ![n] = Append(@,
                    [kind |-> IF Tail(fromSd[n]) = <<>> THEN "eof" ELSE "reset"])]
    /\ toClient' = [c \in Clients |->
                       IF \E i \in 1 .. Len(nd[n].conns) :
                             nd[n].conns[i].client = c /\ Connected(nd[n].conns[i])
                       THEN Append(toClient[c], NoFabricQp)
                       ELSE toClient[c]]

\* on_switch_fd: forward the response to the first connection with a request for
\* it.  Writing to a client that is gone raises SIGPIPE, which nothing handles.
NdSwitchEvent(n) ==
    LET resp == Head(fromSd[n])
        conn == nd[n].conns[Min(Waiting(n, resp))]
    IN  /\ nd[n].up
        /\ fromSd[n] # <<>>
        /\ fromSd' = [fromSd EXCEPT ![n] = Tail(@)]
        /\ IF Waiting(n, resp) = {}
           THEN UNCHANGED <<toClient, ndVars, toSd>>
           ELSE IF Connected(conn)
                THEN /\ toClient' = [toClient EXCEPT ![conn.client] = Append(@, resp.fqp)]
                     /\ UNCHANGED <<ndVars, toSd>>
                ELSE NdDies(n)
        /\ UNCHANGED <<proc, sdVars>>

-----------------------------------------------------------------------------
(* The switch daemon's agent. *)

\* Faulty variants: a response does not wait for the others, or all of them wait
\* for one more.
CompleteAtOnce(held, channel) == held # <<>>

CompleteNever(held, channel) == Len(held) > Cardinality(Ids(channel))

\* "Check if all clients have responded": one held response per participant.
Complete(held, channel) == Len(held) = Cardinality(Ids(channel))

\* The held responses for a node, in their order.
ResponsesFor(n, held) ==
    LET at == {k \in 1 .. Len(held) : held[k].node = n}
    IN  [k \in 1 .. Cardinality(at) |-> held[Ascending(at)[k]]]

\* Forward the held responses.  If a daemon they are for is gone, the agent reads
\* a deleted Client or writes to a closed connection: it may die.
Respond(held) ==
    /\ fromSd' = [n \in Nodes |-> fromSd[n] \o ResponsesFor(n, held)]
    /\ sdUp' \in IF \A k \in 1 .. Len(held) : nd[held[k].node].up
                 THEN {TRUE} ELSE BOOLEAN

\* The channels with that of a request, which may be new,
AddedFor(msg) ==
    IF msg.tag \notin Tags(channels)
    THEN AddChannel(channels, msg.tag, NewChannel(channels, nextCommon, Clients))
    ELSE channels

FqpFor(n, msg) == NextFabricQp(AddedFor(msg)[msg.tag], n)

\* with its client as a participant,
UpdatedFor(n, msg) ==
    UpdateParticipant(AddedFor(msg), msg.tag, msg.client,
                      [node |-> n, qp |-> msg.qp, fqp |-> FqpFor(n, msg)])

\* and the responses that are held then.
HeldFor(n, msg) ==
    Append(IF msg.tag \notin Tags(channels) THEN <<>> ELSE pending[msg.tag],
           [node |-> n, client |-> msg.client, tag |-> msg.tag, fqp |-> FqpFor(n, msg)])

\* on_client_get_channel.  add_channel and update_channel_participant each notify
\* the ASIC driver; the first time no channel has become known, so that nothing
\* changes before the second.
SdGetChannel(n, msg) ==
    LET tag == msg.tag
        updated == UpdatedFor(n, msg)
        held == HeldFor(n, msg)
    IN  /\ nextCommon' = IF tag \notin Tags(channels)
                         THEN After(AddedFor(msg)[tag].common) ELSE nextCommon
        /\ owns' = [owns EXCEPT ![n] = @ \cup {tag}]
        /\ channels' = updated
        /\ tables' = IF updated # channels THEN Reconfigure(tables, channels') ELSE tables
        /\ IF Complete(held, updated[tag])
           THEN /\ pending' = [pending EXCEPT ![tag] = <<>>]
                /\ Respond(held)
           ELSE /\ pending' = [pending EXCEPT ![tag] = held]
                /\ UNCHANGED <<fromSd, sdUp>>

\* The exceptions on the way: no free unit or QP number, or those of the driver.
Refused(n, msg) ==
    IF msg.tag \in Tags(channels) \/ CanAllocate(channels)
    THEN UpdatedFor(n, msg) # channels /\ UpdateFails(tables, UpdatedFor(n, msg))
    ELSE TRUE

\* An exception in on_client_get_channel, or a connection that was reset, ends the
\* daemon.  What the driver has written of a channel by then is left out: no client
\* has a reply for it.
SdFails ==
    /\ sdUp' = FALSE
    /\ UNCHANGED <<fromSd, owns, pending, channels, nextCommon, tables>>

\* Faulty variant: owners are not counted.
UnownedAll(tags, owners) == tags

Unowned(tags, owners) == {t \in tags : \A n \in Nodes : t \notin owners[n]}

\* check_remove_channel: remove the channels among tags that nobody owns any more;
\* removing one that does not exist throws, and so may the driver.
RemoveUnowned(tags) ==
    LET unowned == Unowned(tags, owns')
    IN  /\ channels' = RemoveChannels(channels, unowned)
        /\ tables' = IF unowned = {} THEN tables ELSE Reconfigure(tables, channels')
        /\ sdUp' = /\ unowned \subseteq Tags(channels)
                   /\ unowned # {} => ~UpdateFails(tables, channels')
        /\ UNCHANGED <<fromSd, pending, nextCommon>>

\* on_client_unref_channel; a channel the connection does not own is ignored.
SdUnrefChannel(n, tag) ==
    IF tag \in owns[n]
    THEN /\ owns' = [owns EXCEPT ![n] = @ \ {tag}]
         /\ RemoveUnowned({tag})
    ELSE UNCHANGED <<fromSd, sdVars>>

\* on_client_fd, disconnect.  Responses held for the connection stay.
SdDisconnect(n) ==
    /\ owns' = [owns EXCEPT ![n] = {}]
    /\ RemoveUnowned(owns[n])

\* on_client_fd reads one message per event, and disconnects after it if the end of
\* the connection has arrived meanwhile: the messages in between are lost.
AfterOne(msgs) ==
    {Tail(msgs)} \cup
        IF Len(msgs) > 1 /\ Last(msgs).kind \in {"eof", "reset"}
        THEN {<<[kind |-> "eof"]>>} ELSE {}

SdEvent(n) ==
    LET msg == Head(toSd[n])
    IN  /\ sdUp
        /\ toSd[n] # <<>>
        /\ \E rest \in AfterOne(toSd[n]) : toSd' = [toSd EXCEPT ![n] = rest]
        /\ \/ msg.kind = "get" /\ ~Refused(n, msg) /\ SdGetChannel(n, msg)
           \/ msg.kind = "get" /\ Refused(n, msg) /\ SdFails
           \/ msg.kind = "reset" /\ SdFails
           \/ msg.kind = "unref" /\ SdUnrefChannel(n, msg.tag)
           \/ msg.kind = "eof" /\ SdDisconnect(n)
        /\ UNCHANGED <<clientVars, ndVars>>

-----------------------------------------------------------------------------
\* All jobs have ended and every daemon is idle.
AllEnded ==
    /\ \A c \in Clients : proc[c].state = "down" /\ proc[c].run = MaxRuns
    /\ \A n \in Nodes : inbox[n] = <<>> /\ toSd[n] = <<>> /\ fromSd[n] = <<>>
    /\ UNCHANGED controlVars

ControlNext ==
    \/ \E c \in Clients :
          Start(c) \/ GetChannel(c) \/ ReadReply(c) \/ Exit(c) \/ Kill(c)
    \/ \E n \in Nodes :
          Discover(n) \/ NdClientEvent(n) \/ NdSwitchEvent(n) \/ SdEvent(n)
    \/ AllEnded

ControlSpec == ControlInit /\ [][ControlNext]_controlVars

\* The daemons' event loops handle what arrives; the processes of a job run.
ControlFairness ==
    /\ \A c \in Clients :
          /\ WF_controlVars(Start(c)) /\ WF_controlVars(GetChannel(c))
          /\ WF_controlVars(ReadReply(c)) /\ WF_controlVars(Exit(c))
    /\ \A n \in Nodes :
          /\ WF_controlVars(NdClientEvent(n)) /\ WF_controlVars(NdSwitchEvent(n))
          /\ WF_controlVars(SdEvent(n))

FairControlSpec == ControlSpec /\ ControlFairness

-----------------------------------------------------------------------------
(* Properties. *)

FabricQps == (0 .. MaxCommon) \X (0 .. 255)

QpNums == (1 .. MaxRuns) \X (1 .. Len(Program))

\* Types; common parts and units stay in their ranges.
ControlTypeOK ==
    /\ proc \in [Clients -> [state : {"down", "ready", "waiting"}, run : 0 .. MaxRuns,
                             got : 0 .. Len(Program), fqp : FabricQps]]
    /\ \A c \in Clients : toClient[c] \in Seq(FabricQps)
    /\ \A n \in Nodes :
          /\ nd[n].up \in BOOLEAN /\ nd[n].known \in BOOLEAN
          /\ nd[n].conns \in Seq([client : Clients, run : 1 .. MaxRuns,
                                  tags : SUBSET AllTags, pending : SUBSET AllTags])
          /\ fromSd[n] \in Seq([node : {n}, client : Clients, tag : AllTags, fqp : FabricQps])
    /\ sdUp \in BOOLEAN
    /\ owns \in [Nodes -> SUBSET AllTags]
    /\ Tags(channels) \subseteq AllTags
    /\ \A t \in Tags(channels) :
          /\ channels[t].common \in 1 .. MaxCommon
          /\ channels[t].unit \in 0 .. MaxUnits - 1
          /\ channels[t].parts \in
                [Clients -> {Unknown} \cup [node : Nodes, qp : QpNums, fqp : FabricQps]]
    /\ nextCommon \in 0 .. MaxCommon

\* The channel obtained last has a tag that was not used before.
FirstUse(c) ==
    proc[c].run = 1 /\ \A k \in 1 .. proc[c].got - 1 : Program[k] # Tag(c)

\* Whoever has a reply to the first use of a tag may send at once: the switch is
\* configured for all clients of the channel, each with the queue pair it has
\* just created, and the QP number in the reply selects the client's own bit.
\* The tables are written from several requests, in any order, while other
\* channels come and go.
HeldChannelsWork ==
    \A c \in Clients :
        proc[c].state = "ready" /\ proc[c].got > 0 /\ FirstUse(c) =>
            LET t == Tag(c)
            IN  /\ t \in Tags(channels)
                /\ Working(tables, channels[t])
                /\ channels[t].parts[c] = [node |-> NodeOf[c], fqp |-> proc[c].fqp,
                                           qp |-> QpNum(proc[c].run, proc[c].got)]

\* "Hold reply until all clients are known" (on_client_get_channel): a response
\* leaves the agent only when every participant of its channel has registered.
HoldsReplies ==
    [][\A n \in Nodes : \A k \in Len(fromSd[n]) + 1 .. Len(fromSd'[n]) :
          AllKnown(channels'[fromSd'[n][k].tag])]_controlVars

\* A datagram for a client answers the request the client is waiting with: it
\* carries the QP number registered with the client's newest queue pair, and
\* there is never a second one, which the next request would take for its own.
RepliesAreCurrent ==
    \A c \in Clients :
        toClient[c] # <<>> =>
            /\ proc[c].state = "waiting"
            /\ channels[Tag(c)].parts[c] = [node |-> NodeOf[c], fqp |-> Head(toClient[c]),
                                            qp |-> QpNum(proc[c].run, proc[c].got + 1)]
            /\ Len(toClient[c]) = 1

\* The channels that the connected clients of a node use.
Users(n) == UNION {nd[n].conns[i].tags : i \in 1 .. Len(nd[n].conns)}

\* The channels that the agent will count a node daemon as an owner of when it has
\* handled the messages under way: those it is or becomes an owner of and that no
\* later message ends.
Ends(msg, t) == msg.kind \in {"eof", "reset"} \/ (msg.kind = "unref" /\ msg.tag = t)

Lasts(msgs, k, t) == \A j \in k .. Len(msgs) : ~Ends(msgs[j], t)

WillOwn(n) ==
    {t \in owns[n] : Lasts(toSd[n], 1, t)} \cup
        {toSd[n][k].tag : k \in {j \in 1 .. Len(toSd[n]) :
                                    toSd[n][j].kind = "get"
                                        /\ Lasts(toSd[n], j + 1, toSd[n][j].tag)}}

\* The two levels of reference counting agree: with the messages under way, the
\* agent counts a node daemon as an owner of exactly the channels its connected
\* clients use.
OwnersMatchUsers == sdUp => \A n \in Nodes : WillOwn(n) = Users(n)

\* When no process is left and every message has been handled, neither the
\* repository nor the switch remembers any channel.
NothingLeftBehind ==
    /\ sdUp
    /\ \A c \in Clients : proc[c].state = "down"
    /\ \A n \in Nodes : inbox[n] = <<>> /\ toSd[n] = <<>>
    => channels = NoChannels /\ tables = NoTables

\* No request, unreference or disconnect ends the agent, in whatever order those of
\* the nodes arrive: it never removes a channel that does not exist (remove_channel
\* throws), there are units and numbers for every channel, and the driver accepts
\* every update.
SdSurvives == sdUp

\* No node daemon writes to a client that is gone, as long as clients end only
\* after their requests have been answered.
NodeDaemonsSurvive == \A n \in Nodes : nd[n].up

\* "Fabric QP is composed of (bit<16> id, bit<8> per-node id)"
\* (state_repository.h): participants of a channel on one node have different
\* fabric QP numbers, or the switch takes the packets of one for the other's.
DistinctFabricQps ==
    \A t \in Tags(channels) :
        LET parts == channels[t].parts
        IN  AllKnown(channels[t]) =>
                \A i, j \in Clients :
                    i # j /\ parts[i].node = parts[j].node => parts[i].fqp # parts[j].fqp

\* Every request is answered, once all participants ask for the channel and all
\* node daemons know the switch.
RequestsAnswered ==
    \A c \in Clients : proc[c].state = "waiting" ~> proc[c].state = "ready"
=============================================================================
