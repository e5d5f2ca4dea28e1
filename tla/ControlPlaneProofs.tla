------------------------- MODULE ControlPlaneProofs -------------------------
(***************************************************************************)
(* Proofs about ControlPlane, for any clients, nodes, program and number   *)
(* of jobs.                                                                *)
(***************************************************************************)
EXTENDS ControlPlane, ASICDriverProofs, SequenceTheorems

-----------------------------------------------------------------------------
(* Sequences. *)

LEMMA JoinFacts ==
    ASSUME NEW S, NEW s \in Seq(S), NEW u \in Seq(S)
    PROVE  /\ s \o u \in Seq(S)
           /\ Len(s \o u) = Len(s) + Len(u)
           /\ \A j \in 1 .. Len(s) : (s \o u)[j] = s[j]
           /\ \A j \in 1 .. Len(u) : (s \o u)[Len(s) + j] = u[j]
  OBVIOUS

LEMMA RemoveAtFacts ==
    ASSUME NEW S, NEW s \in Seq(S), NEW i \in 1 .. Len(s)
    PROVE  /\ RemoveAt(s, i) \in Seq(S)
           /\ Len(RemoveAt(s, i)) = Len(s) - 1
           /\ \A j \in 1 .. Len(s) - 1 :
                 RemoveAt(s, i)[j] = IF j < i THEN s[j] ELSE s[j + 1]
<1> DEFINE a == SubSeq(s, 1, i - 1)
           b == SubSeq(s, i + 1, Len(s))
<1>1. a \in Seq(S) /\ Len(a) = i - 1 /\ \A j \in 1 .. i - 1 : a[j] = s[j]
  OBVIOUS
<1>2. b \in Seq(S) /\ Len(b) = Len(s) - i /\ \A j \in 1 .. Len(s) - i : b[j] = s[i + j]
  OBVIOUS
<1> HIDE DEF a, b
<1>3. RemoveAt(s, i) = a \o b
  BY DEF RemoveAt, a, b
<1>0. Len(s) \in Nat /\ i \in Nat
  OBVIOUS
<1>a. /\ a \o b \in Seq(S) /\ Len(a \o b) = Len(a) + Len(b)
      /\ \A j \in 1 .. Len(a) : (a \o b)[j] = a[j]
      /\ \A j \in 1 .. Len(b) : (a \o b)[Len(a) + j] = b[j]
  <2>1. a \in Seq(S) /\ b \in Seq(S)
    BY <1>1, <1>2
  <2> QED BY <2>1, JoinFacts
<1>4. /\ a \o b \in Seq(S) /\ Len(a \o b) = Len(s) - 1
      /\ \A j \in 1 .. Len(a) : (a \o b)[j] = a[j]
      /\ \A j \in 1 .. Len(b) : (a \o b)[Len(a) + j] = b[j]
  BY <1>a, <1>1, <1>2, <1>0
<1>5. ASSUME NEW j \in 1 .. Len(s) - 1
      PROVE  (a \o b)[j] = IF j < i THEN s[j] ELSE s[j + 1]
  <2>1. CASE j < i
    BY <2>1, <1>1, <1>4
  <2>2. CASE j >= i
    <3>1. j - (i - 1) \in 1 .. Len(b) /\ Len(a) + (j - (i - 1)) = j /\ i + (j - (i - 1)) = j + 1
      BY <2>2, <1>1, <1>2
    <3>2. (a \o b)[j] = b[j - (i - 1)]
      BY <3>1, <1>4
    <3>3. b[j - (i - 1)] = s[j + 1]
      BY <3>1, <1>2
    <3> QED BY <2>2, <3>2, <3>3
  <2>3. j \in Nat
    BY <1>0
  <2>4. j < i \/ j >= i
    BY <2>3, <1>0
  <2> QED BY <2>1, <2>2, <2>4
<1> QED BY <1>3, <1>4, <1>5

LEMMA TailFacts ==
    ASSUME NEW S, NEW s \in Seq(S), s # <<>>
    PROVE  /\ Tail(s) \in Seq(S)
           /\ Len(Tail(s)) = Len(s) - 1
           /\ \A j \in 1 .. Len(s) - 1 : Tail(s)[j] = s[j + 1]
           /\ Head(s) = s[1]
           /\ 1 \in 1 .. Len(s)
  OBVIOUS

\* Every element of a finite set of numbers has a rank, and each rank is that of one.
LEMMA AscendingFacts ==
    ASSUME NEW S \in SUBSET Nat, IsFiniteSet(S)
    PROVE  /\ Cardinality(S) \in Nat
           /\ \A k \in 1 .. Cardinality(S) : Ascending(S)[k] \in S
           /\ \A x \in S : \E k \in 1 .. Cardinality(S) : Ascending(S)[k] = x
           /\ \A j, k \in 1 .. Cardinality(S) : Ascending(S)[j] = Ascending(S)[k] => j = k
           /\ \A k \in 1 .. Cardinality(S) :
                 Cardinality({y \in S : y <= Ascending(S)[k]}) = k
<1> DEFINE below(x) == {y \in S : y <= x}
           rank == [x \in S |-> Cardinality(below(x))]
<1>1. ASSUME NEW x \in S
      PROVE  /\ IsFiniteSet(below(x))
             /\ Cardinality(below(x)) \in 1 .. Cardinality(S)
  <2>1. below(x) \in SUBSET S /\ below(x) # {}
    OBVIOUS
  <2>2. IsFiniteSet(below(x)) /\ Cardinality(below(x)) <= Cardinality(S)
    BY <2>1, FS_Subset
  <2>3. Cardinality(below(x)) # 0
    BY <2>1, <2>2, FS_EmptySet
  <2>4. Cardinality(below(x)) \in Nat /\ Cardinality(S) \in Nat
    BY <2>2, FS_CardinalityType
  <2> QED BY <2>2, <2>3, <2>4
<1>2. ASSUME NEW x \in S, NEW y \in S, x < y
      PROVE  Cardinality(below(x)) # Cardinality(below(y))
  <2>1. below(x) \in SUBSET below(y) /\ y \in below(y) /\ y \notin below(x)
    <3>1. x \in Nat /\ y \in Nat
      OBVIOUS
    <3>2. \A z \in S : z <= x => z <= y
      BY <3>1, <1>2
    <3>3. ~(y <= x)
      BY <3>1, <1>2
    <3>4. x \in below(x) /\ y \in below(y) /\ y \notin below(x)
      BY <3>1, <3>3
    <3>5. below(x) \subseteq below(y)
      BY <3>2
    <3> HIDE DEF below
    <3> QED BY <3>4, <3>5
  <2>2. IsFiniteSet(below(y))
    BY <1>1
  <2> HIDE DEF below
  <2> QED BY <2>1, <2>2, FS_Subset
<1> HIDE DEF below
<1>3. Cardinality(S) \in Nat /\ IsFiniteSet(1 .. Cardinality(S))
      /\ Cardinality(1 .. Cardinality(S)) = Cardinality(S)
  BY FS_CardinalityType, FS_Interval
<1>4. \A x, y \in S : rank[x] = rank[y] => x = y
  BY <1>2
<1>5. rank \in Injection(S, 1 .. Cardinality(S))
  BY <1>1, <1>4 DEF Injection, IsInjective
<1>6. rank \in Surjection(S, 1 .. Cardinality(S))
  BY <1>3, <1>5, FS_Injection
<1>7. \A k \in 1 .. Cardinality(S) : \E x \in S : rank[x] = k
  BY <1>6 DEF Surjection
<1>8. \A k \in 1 .. Cardinality(S) :
        Ascending(S)[k] = CHOOSE x \in S : rank[x] = k
  BY DEF Ascending, below
<1>9. \A k \in 1 .. Cardinality(S) : Ascending(S)[k] \in S /\ rank[Ascending(S)[k]] = k
  BY <1>7, <1>8
<1>10. ASSUME NEW x \in S
       PROVE  \E k \in 1 .. Cardinality(S) : Ascending(S)[k] = x
  BY <1>1, <1>4, <1>9
<1>11. \A k \in 1 .. Cardinality(S) : Cardinality({y \in S : y <= Ascending(S)[k]}) = k
  BY <1>9 DEF below
<1> QED BY <1>3, <1>9, <1>10, <1>11

\* The greatest element of a finite set is an element.
LEMMA MaxIsElement ==
    ASSUME NEW S \in SUBSET Nat, IsFiniteSet(S), S # {}
    PROVE  Max(S) \in S /\ \A y \in S : y <= Max(S)
<1> DEFINE N == Cardinality(S)
           x == Ascending(S)[N]
           below == {y \in S : y <= x}
<1>1. N \in Nat /\ N # 0
  BY FS_CardinalityType, FS_EmptySet
<1>2. N \in 1 .. N
  BY <1>1
<1>3. x \in S /\ Cardinality(below) = N
  BY <1>2, AscendingFacts
<1>4. below \in SUBSET S
  OBVIOUS
<1>5. below = S
  <2> HIDE DEF below, x
  <2> QED BY <1>3, <1>4, FS_Subset
<1>6. \A y \in S : y <= x
  BY <1>5
<1>7. x \in S /\ \A y \in S : x >= y
  BY <1>3, <1>6
<1> HIDE DEF x
<1>8. Max(S) \in S /\ \A y \in S : Max(S) >= y
  BY <1>7 DEF Max
<1> QED BY <1>8

-----------------------------------------------------------------------------
(* Types, those of the messages included. *)

Processes == [state : {"down", "ready", "waiting"}, run : 0 .. MaxRuns,
              got : 0 .. Len(Program), fqp : FabricQps]

ClientIds == [client : Clients, run : 1 .. MaxRuns]

Conns == [client : Clients, run : 1 .. MaxRuns, tags : SUBSET AllTags, pending : SUBSET AllTags]

Daemons == [up : BOOLEAN, known : BOOLEAN, conns : Seq(Conns)]

Events ==
    [kind : {"get"}, from : ClientIds, tag : AllTags, qp : QpNums] \cup
    [kind : {"eof"}, from : ClientIds]

Messages ==
    [kind : {"get"}, client : Clients, tag : AllTags, qp : QpNums] \cup
    [kind : {"unref"}, tag : AllTags] \cup [kind : {"eof", "reset"}]

Responses(nodes, tags) == [node : nodes, client : Clients, tag : tags, fqp : FabricQps]

Participants == {Unknown} \cup [node : Nodes, qp : QpNums, fqp : FabricQps]

Channels ==
    [common : 1 .. MaxCommon, unit : 0 .. MaxUnits - 1, parts : [Clients -> Participants]]

ClientTypes ==
    /\ proc \in [Clients -> Processes]
    /\ \A c \in Clients :
          /\ proc[c].state # "down" => proc[c].run # 0
          /\ proc[c].state = "waiting" => proc[c].got < Len(Program)
    /\ toClient \in [Clients -> Seq(FabricQps)]

NdTypes ==
    /\ nd \in [Nodes -> Daemons]
    /\ inbox \in [Nodes -> Seq(Events)]
    /\ toSd \in [Nodes -> Seq(Messages)]

SdTypes ==
    /\ DOMAIN fromSd = Nodes
    /\ \A n \in Nodes : fromSd[n] \in Seq(Responses({n}, AllTags))
    /\ sdUp \in BOOLEAN
    /\ owns \in [Nodes -> SUBSET AllTags]
    /\ DOMAIN pending = AllTags
    /\ \A t \in AllTags : pending[t] \in Seq(Responses(Nodes, {t}))
    /\ Tags(channels) \subseteq AllTags
    /\ channels \in [Tags(channels) -> Channels]
    /\ nextCommon \in 0 .. MaxCommon

TypesInv == ClientTypes /\ NdTypes /\ SdTypes

-----------------------------------------------------------------------------
(* The connections of a node daemon, the events in its inbox and its        *)
(* processes, as predicates of their values.                                *)

Same(a, b) == a.client = b.client /\ a.run = b.run

Has(conns, id) == \E i \in 1 .. Len(conns) : Same(conns[i], id)

Closing(events, id) ==
    \E k \in 1 .. Len(events) : events[k].kind = "eof" /\ Same(events[k].from, id)

Lives(procs, id) == procs[id.client].state # "down" /\ procs[id.client].run = id.run

UniqueConns(conns) == \A i, j \in 1 .. Len(conns) : Same(conns[i], conns[j]) => i = j

\* A connection is one of a process that lives, or its end is in the inbox.
LiveOrClosing(n, conns, events, procs) ==
    \A i \in 1 .. Len(conns) :
        /\ NodeOf[conns[i].client] = n
        /\ conns[i].run <= procs[conns[i].client].run
        /\ Lives(procs, conns[i]) <=> ~Closing(events, conns[i])

\* Events belong to connections, and nothing follows the end of one.
EventsOfConns(conns, events) ==
    \A k \in 1 .. Len(events) :
        /\ Has(conns, events[k].from)
        /\ events[k].kind = "eof" =>
              \A j \in k + 1 .. Len(events) : ~Same(events[j].from, events[k].from)

ProcessesHaveConns(n, conns, procs) ==
    \A c \in Clients :
        NodeOf[c] = n /\ procs[c].state # "down" =>
            Has(conns, [client |-> c, run |-> procs[c].run])

ConnsOk(n, conns, events, procs) ==
    /\ UniqueConns(conns)
    /\ LiveOrClosing(n, conns, events, procs)
    /\ EventsOfConns(conns, events)
    /\ ProcessesHaveConns(n, conns, procs)

ConnsInv ==
    \A n \in Nodes : IF nd[n].up THEN ConnsOk(n, nd[n].conns, inbox[n], proc)
                                 ELSE nd[n].conns = <<>> /\ inbox[n] = <<>>

-----------------------------------------------------------------------------
(* Single operations. *)

LEMMA ConstantTypes ==
    /\ NoFabricQp \in FabricQps
    /\ IsFiniteSet(Clients)
    /\ AllTags \subseteq Nat
    /\ Len(Program) \in Nat
    /\ \A k \in 1 .. Len(Program) : Program[k] \in AllTags
    /\ \A c \in Clients : NodeOf[c] \in Nodes
    /\ MaxRuns \in Nat
BY ControlPlaneAssumption, RepositoryAssumption DEF NoFabricQp, FabricQps, AllTags

LEMMA ConnOfFacts ==
    ASSUME NEW n \in Nodes, NEW id, Has(nd[n].conns, id)
    PROVE  /\ ConnOf(n, id) \in 1 .. Len(nd[n].conns)
           /\ Same(nd[n].conns[ConnOf(n, id)], id)
BY DEF Has, Same, ConnOf

\* Applied messages have the fields of their kind.
LEMMA MessageKinds ==
    ASSUME NEW m \in Messages
    PROVE  /\ m.kind \in {"get", "unref", "eof", "reset"}
           /\ m.kind = "get" => m.client \in Clients /\ m.tag \in AllTags /\ m.qp \in QpNums
           /\ m.kind = "unref" => m.tag \in AllTags
BY DEF Messages

LEMMA EventKinds ==
    ASSUME NEW e \in Events
    PROVE  /\ e.kind \in {"get", "eof"}
           /\ e.from \in ClientIds
           /\ e.kind = "get" => e.tag \in AllTags /\ e.qp \in QpNums
BY DEF Events

\* The QP number the agent hands out (get_next_fabric_qp).
LEMMA NextFabricQpType ==
    ASSUME NEW ch \in Channels, NEW n
    PROVE  /\ NextFabricQp(ch, n) \in FabricQps
           /\ NextFabricQp(ch, n) =
                 <<ch.common, Cardinality({i \in Clients : ch.parts[i].node = n}) % 256>>
           /\ Cardinality({i \in Clients : ch.parts[i].node = n}) \in Nat
<1>1. DOMAIN ch.parts = Clients /\ ch.common \in 0 .. MaxCommon
  BY RepositoryAssumption DEF Channels
<1> DEFINE same == {i \in Clients : ch.parts[i].node = n}
<1>2. Cardinality(same) \in Nat
  <2>1. same \in SUBSET Clients
    OBVIOUS
  <2> QED BY <2>1, ConstantTypes, FS_Subset, FS_CardinalityType
<1>3. NextFabricQp(ch, n) = <<ch.common, Cardinality(same) % 256>>
  BY <1>1 DEF NextFabricQp
<1> HIDE DEF same
<1>4. Cardinality(same) % 256 \in 0 .. 255
  BY <1>2
<1>5. NextFabricQp(ch, n) \in FabricQps
  BY <1>1, <1>3, <1>4 DEF FabricQps
<1> QED BY <1>2, <1>3, <1>5 DEF same

-----------------------------------------------------------------------------
(* The values that on_client_get_channel computes. *)

LEMMA SdGetParts ==
    ASSUME NEW n, NEW msg, SdGetChannel(n, msg)
    PROVE  /\ nextCommon' = IF msg.tag \notin Tags(channels)
                            THEN After(AddedFor(msg)[msg.tag].common) ELSE nextCommon
           /\ owns' = [owns EXCEPT ![n] = @ \cup {msg.tag}]
           /\ channels' = UpdatedFor(n, msg)
           /\ tables' = IF UpdatedFor(n, msg) # channels
                        THEN Reconfigure(tables, channels') ELSE tables
           /\ \/ /\ Complete(HeldFor(n, msg), UpdatedFor(n, msg)[msg.tag])
                 /\ pending' = [pending EXCEPT ![msg.tag] = <<>>]
                 /\ Respond(HeldFor(n, msg))
              \/ /\ ~Complete(HeldFor(n, msg), UpdatedFor(n, msg)[msg.tag])
                 /\ pending' = [pending EXCEPT ![msg.tag] = HeldFor(n, msg)]
                 /\ UNCHANGED <<fromSd, sdUp>>
BY DEF SdGetChannel, AddedFor, FqpFor, UpdatedFor, HeldFor

\* A new channel gets a unit and a common part of its own; its participants are
\* unknown.
LEMMA AddingTypes ==
    ASSUME SdTypes, NEW msg, msg.tag \in AllTags,
           msg.tag \in Tags(channels) \/ CanAllocate(channels)
    PROVE  /\ AddedFor(msg) \in [Tags(channels) \cup {msg.tag} -> Channels]
           /\ \A t \in Tags(channels) : AddedFor(msg)[t] = channels[t]
           /\ msg.tag \notin Tags(channels) =>
                 /\ AddedFor(msg)[msg.tag].parts = [i \in Clients |-> Unknown]
                 /\ \A t \in Tags(channels) :
                       /\ channels[t].unit # AddedFor(msg)[msg.tag].unit
                       /\ channels[t].common # AddedFor(msg)[msg.tag].common
<1>1. CASE msg.tag \in Tags(channels)
  BY <1>1 DEF AddedFor, SdTypes, Tags
<1>2. CASE msg.tag \notin Tags(channels)
  <2> DEFINE ch == NewChannel(channels, nextCommon, Clients)
  <2>1. /\ ch.unit \in 0 .. MaxUnits - 1 /\ ch.common \in 1 .. MaxCommon
        /\ ch = [common |-> ch.common, unit |-> ch.unit, parts |-> ch.parts]
        /\ ch.parts = [i \in Clients |-> Unknown]
        /\ \A t \in Tags(channels) :
              channels[t].unit # ch.unit /\ channels[t].common # ch.common
    BY <1>2, AllocatesFree DEF NewChannel
  <2>2. ch.parts \in [Clients -> Participants]
    BY <2>1 DEF Participants
  <2>3. ch \in Channels
    BY <2>1, <2>2 DEF Channels
  <2> HIDE DEF ch
  <2>4. AddedFor(msg) = AddChannel(channels, msg.tag, ch)
    BY <1>2 DEF AddedFor, ch
  <2> QED BY <1>2, <2>1, <2>3, <2>4 DEF AddChannel, SdTypes, Tags
<1> QED BY <1>1, <1>2

\* The request of a client changes its own entry of its own channel.
LEMMA RegisteringTypes ==
    ASSUME SdTypes, NEW n \in Nodes, NEW msg \in Messages, msg.kind = "get",
           msg.tag \in Tags(channels) \/ CanAllocate(channels)
    PROVE  /\ UpdatedFor(n, msg) \in [Tags(channels) \cup {msg.tag} -> Channels]
           /\ FqpFor(n, msg) \in FabricQps
           /\ \A t \in Tags(channels) : t # msg.tag => UpdatedFor(n, msg)[t] = channels[t]
           /\ UpdatedFor(n, msg)[msg.tag].unit = AddedFor(msg)[msg.tag].unit
           /\ UpdatedFor(n, msg)[msg.tag].common = AddedFor(msg)[msg.tag].common
           /\ UpdatedFor(n, msg)[msg.tag].parts[msg.client]
                 = [node |-> n, qp |-> msg.qp, fqp |-> FqpFor(n, msg)]
           /\ \A d \in Clients : d # msg.client =>
                 UpdatedFor(n, msg)[msg.tag].parts[d] = AddedFor(msg)[msg.tag].parts[d]
<1> DEFINE tag == msg.tag
           c == msg.client
           part == [node |-> n, qp |-> msg.qp, fqp |-> FqpFor(n, msg)]
           old == AddedFor(msg)
           new == UpdatedFor(n, msg)
<1>1. c \in Clients /\ tag \in AllTags /\ msg.qp \in QpNums
  BY MessageKinds
<1>2. old \in [Tags(channels) \cup {tag} -> Channels]
      /\ \A t \in Tags(channels) : old[t] = channels[t]
  BY <1>1, AddingTypes
<1>3. old[tag] \in Channels
  BY <1>2
<1>4. FqpFor(n, msg) \in FabricQps
  BY <1>3, NextFabricQpType DEF FqpFor
<1>5. part \in Participants
  BY <1>1, <1>4 DEF Participants
<1>6. new = [old EXCEPT ![tag].parts[c] = part]
  BY DEF UpdatedFor, UpdateParticipant
<1> HIDE DEF tag, c, part, old, new
<1>7. /\ new = [t \in Tags(channels) \cup {tag} |->
                  IF t = tag THEN [old[tag] EXCEPT !.parts = [@ EXCEPT ![c] = part]] ELSE old[t]]
  BY <1>2, <1>6
<1>8. [old[tag] EXCEPT !.parts = [@ EXCEPT ![c] = part]] \in Channels
  BY <1>1, <1>3, <1>5 DEF Channels
<1>9. /\ new[tag].unit = old[tag].unit /\ new[tag].common = old[tag].common
      /\ new[tag].parts = [old[tag].parts EXCEPT ![c] = part]
  BY <1>3, <1>7 DEF Channels
<1>10. old[tag].parts \in [Clients -> Participants]
  BY <1>3 DEF Channels
<1>11. new[tag].parts[c] = part
       /\ \A d \in Clients : d # c => new[tag].parts[d] = old[tag].parts[d]
  BY <1>1, <1>9, <1>10
<1>12. new \in [Tags(channels) \cup {tag} -> Channels]
  BY <1>2, <1>7, <1>8
<1>13. \A t \in Tags(channels) : t # tag => new[t] = channels[t]
  BY <1>2, <1>7
<1> QED BY <1>4, <1>9, <1>11, <1>12, <1>13 DEF tag, c, part, old, new

LEMMA HoldingTypes ==
    ASSUME SdTypes, NEW n \in Nodes, NEW msg \in Messages, msg.kind = "get",
           msg.tag \in Tags(channels) \/ CanAllocate(channels)
    PROVE  HeldFor(n, msg) \in Seq(Responses(Nodes, {msg.tag}))
<1>1. msg.client \in Clients /\ msg.tag \in AllTags
  BY MessageKinds
<1>2. FqpFor(n, msg) \in FabricQps
  BY RegisteringTypes
<1>3. pending[msg.tag] \in Seq(Responses(Nodes, {msg.tag}))
  BY <1>1 DEF SdTypes
<1>4. [node |-> n, client |-> msg.client, tag |-> msg.tag, fqp |-> FqpFor(n, msg)]
        \in Responses(Nodes, {msg.tag})
  BY <1>1, <1>2 DEF Responses
<1> DEFINE first == IF msg.tag \notin Tags(channels) THEN <<>> ELSE pending[msg.tag]
<1>5. first \in Seq(Responses(Nodes, {msg.tag}))
  BY <1>3
<1> HIDE DEF first
<1>6. HeldFor(n, msg) = Append(first, [node |-> n, client |-> msg.client, tag |-> msg.tag,
                                       fqp |-> FqpFor(n, msg)])
  BY DEF HeldFor, first
<1> QED BY <1>4, <1>5, <1>6

\* Responses go to their nodes, each once.
LEMMA ResponsesForFacts ==
    ASSUME NEW n \in Nodes, NEW tags, NEW held \in Seq(Responses(Nodes, tags))
    PROVE  /\ ResponsesFor(n, held) \in Seq(Responses({n}, tags))
           /\ \A j \in 1 .. Len(ResponsesFor(n, held)) :
                 \E k \in 1 .. Len(held) : held[k].node = n /\ ResponsesFor(n, held)[j] = held[k]
           /\ \A i, j \in 1 .. Len(ResponsesFor(n, held)) : i # j =>
                 \E k, l \in 1 .. Len(held) :
                    /\ k # l
                    /\ ResponsesFor(n, held)[i] = held[k] /\ ResponsesFor(n, held)[j] = held[l]
           /\ \A k \in 1 .. Len(held) : held[k].node = n =>
                 \E j \in 1 .. Len(ResponsesFor(n, held)) : ResponsesFor(n, held)[j] = held[k]
<1> DEFINE at == {k \in 1 .. Len(held) : held[k].node = n}
<1>1. at \in SUBSET Nat /\ IsFiniteSet(at)
  <2>1. Len(held) \in Nat /\ IsFiniteSet(1 .. Len(held)) /\ at \in SUBSET (1 .. Len(held))
    BY FS_Interval
  <2>2. at \in SUBSET Nat
    BY <2>1
  <2> QED BY <2>1, <2>2, FS_Subset
<1>2. ResponsesFor(n, held) = [k \in 1 .. Cardinality(at) |-> held[Ascending(at)[k]]]
  BY DEF ResponsesFor
<1>3. \A k \in 1 .. Len(held) : k \in at <=> held[k].node = n
  OBVIOUS
<1>4. at \subseteq 1 .. Len(held)
  OBVIOUS
<1> HIDE DEF at
<1>5. /\ Cardinality(at) \in Nat
      /\ \A k \in 1 .. Cardinality(at) : Ascending(at)[k] \in at
      /\ \A x \in at : \E k \in 1 .. Cardinality(at) : Ascending(at)[k] = x
      /\ \A j, k \in 1 .. Cardinality(at) : Ascending(at)[j] = Ascending(at)[k] => j = k
  BY <1>1, AscendingFacts
<1>6. ASSUME NEW k \in at
      PROVE  held[k] \in Responses({n}, tags)
  <2>1. held[k] \in Responses(Nodes, tags) /\ held[k].node = n
    BY <1>3, <1>4
  <2> QED BY <2>1 DEF Responses
<1> DEFINE N == Cardinality(at)
           order == Ascending(at)
           resp == ResponsesFor(n, held)
<1>a. N \in Nat /\ resp = [k \in 1 .. N |-> held[order[k]]]
  BY <1>2, <1>5
<1>b. \A k \in 1 .. N : order[k] \in at
  BY <1>5
<1>c. \A x \in at : \E k \in 1 .. N : order[k] = x
  BY <1>5
<1>d. \A j, k \in 1 .. N : order[j] = order[k] => j = k
  BY <1>5
<1> HIDE DEF N, order, resp
<1>7. resp \in Seq(Responses({n}, tags)) /\ Len(resp) = N
  <2>1. \A k \in 1 .. N : held[order[k]] \in Responses({n}, tags)
    BY <1>b, <1>6
  <2> DEFINE R == Responses({n}, tags)
  <2>2. \A k \in 1 .. N : held[order[k]] \in R
    BY <2>1
  <2> HIDE DEF R
  <2>3. resp \in [1 .. N -> R]
    BY <1>a, <2>2
  <2>4. resp \in Seq(R) /\ Len(resp) = N
    BY <1>a, <2>3
  <2> QED BY <2>4 DEF R
<1>8. ASSUME NEW j \in 1 .. N
      PROVE  \E k \in 1 .. Len(held) : held[k].node = n /\ resp[j] = held[k]
  <2>1. order[j] \in 1 .. Len(held) /\ held[order[j]].node = n /\ resp[j] = held[order[j]]
    BY <1>a, <1>b, <1>3, <1>4
  <2> QED BY <2>1
<1>9. ASSUME NEW i \in 1 .. N, NEW j \in 1 .. N, i # j
      PROVE  \E k, l \in 1 .. Len(held) : k # l /\ resp[i] = held[k] /\ resp[j] = held[l]
  <2>1. /\ order[i] \in 1 .. Len(held) /\ resp[i] = held[order[i]]
        /\ order[j] \in 1 .. Len(held) /\ resp[j] = held[order[j]]
        /\ order[i] # order[j]
    BY <1>9, <1>a, <1>b, <1>d, <1>4
  <2> QED BY <2>1
<1>10. ASSUME NEW k \in 1 .. Len(held), held[k].node = n
       PROVE  \E j \in 1 .. N : resp[j] = held[k]
  <2>1. PICK j \in 1 .. N : order[j] = k
    BY <1>10, <1>3, <1>c
  <2> QED BY <2>1, <1>a
<1> QED BY <1>7, <1>8, <1>9, <1>10 DEF resp

-----------------------------------------------------------------------------
(* Types are preserved. *)

LEMMA TypesInit ==
    ASSUME ControlInit
    PROVE  TypesInv
<1>1. ClientTypes
  BY ConstantTypes DEF ControlInit, ClientTypes, Processes
<1>2. NdTypes
  BY DEF ControlInit, NdTypes, Daemons
<1>3. SdTypes
  BY RepositoryAssumption DEF ControlInit, SdTypes, NoChannels, Tags
<1> QED BY <1>1, <1>2, <1>3 DEF TypesInv

LEMMA ProcessFields ==
    ASSUME ClientTypes, NEW c \in Clients
    PROVE  /\ proc[c] = [state |-> proc[c].state, run |-> proc[c].run, got |-> proc[c].got,
                         fqp |-> proc[c].fqp]
           /\ proc[c].state \in {"down", "ready", "waiting"}
           /\ proc[c].run \in 0 .. MaxRuns
           /\ proc[c].got \in 0 .. Len(Program)
           /\ proc[c].fqp \in FabricQps
           /\ proc[c].state # "down" => proc[c].run \in 1 .. MaxRuns
           /\ proc[c].state = "waiting" => proc[c].got + 1 \in 1 .. Len(Program)
           /\ toClient[c] \in Seq(FabricQps)
<1>1. proc[c] \in Processes
  BY DEF ClientTypes
<1>2. /\ proc[c].state \in {"down", "ready", "waiting"}
      /\ proc[c].run \in 0 .. MaxRuns
      /\ proc[c].got \in 0 .. Len(Program)
      /\ proc[c].fqp \in FabricQps
      /\ proc[c] = [state |-> proc[c].state, run |-> proc[c].run, got |-> proc[c].got,
                    fqp |-> proc[c].fqp]
  BY <1>1 DEF Processes
<1>3. /\ proc[c].state # "down" => proc[c].run # 0
      /\ proc[c].state = "waiting" => proc[c].got < Len(Program)
      /\ toClient[c] \in Seq(FabricQps)
  BY DEF ClientTypes
<1> QED BY <1>2, <1>3, ConstantTypes

\* One process changes its state.
LEMMA StateStep ==
    ASSUME ClientTypes, NEW c \in Clients, NEW state,
           proc' = [proc EXCEPT ![c].state = state]
    PROVE  proc' = [proc EXCEPT ![c] = [state |-> state, run |-> proc[c].run,
                                        got |-> proc[c].got, fqp |-> proc[c].fqp]]
<1>1. proc[c] \in Processes /\ c \in DOMAIN proc
  BY DEF ClientTypes
<1>2. [proc[c] EXCEPT !.state = state] = [state |-> state, run |-> proc[c].run,
                                         got |-> proc[c].got, fqp |-> proc[c].fqp]
  BY <1>1 DEF Processes
<1> QED BY <1>1, <1>2

\* One process changes.
LEMMA ProcessStep ==
    ASSUME ClientTypes, NEW c \in Clients, NEW p \in Processes,
           p.state # "down" => p.run # 0,
           p.state = "waiting" => p.got < Len(Program),
           proc' = [proc EXCEPT ![c] = p],
           toClient' \in [Clients -> Seq(FabricQps)]
    PROVE  ClientTypes'
<1>1. proc' \in [Clients -> Processes]
  BY DEF ClientTypes
<1>2. \A d \in Clients : proc'[d] = IF d = c THEN p ELSE proc[d]
  BY DEF ClientTypes
<1> QED BY <1>1, <1>2 DEF ClientTypes

LEMMA TypesStart ==
    ASSUME TypesInv, NEW c \in Clients, Start(c)
    PROVE  TypesInv'
<1> DEFINE next == proc[c].run + 1
           conn == [client |-> c, run |-> next, tags |-> {}, pending |-> {}]
           n == NodeOf[c]
<1>1. n \in Nodes /\ proc[c] \in Processes /\ nd[n] \in Daemons
  BY ConstantTypes DEF TypesInv, ClientTypes, NdTypes
<1>2. next \in 1 .. MaxRuns /\ MaxRuns \in Nat
  BY <1>1, ConstantTypes DEF Start, Processes
<1>3. ClientTypes'
  <2> DEFINE p == [state |-> "ready", run |-> next, got |-> 0, fqp |-> NoFabricQp]
  <2>1. p \in Processes /\ p.state = "ready" /\ p.run # 0
    BY <1>2, ConstantTypes DEF Processes
  <2>2. proc' = [proc EXCEPT ![c] = p]
    BY DEF Start
  <2>3. toClient' \in [Clients -> Seq(FabricQps)]
    BY DEF Start, TypesInv, ClientTypes
  <2> HIDE DEF p
  <2> QED BY <2>1, <2>2, <2>3, ProcessStep DEF TypesInv
<1>4. conn \in Conns
  BY <1>2 DEF Conns
<1> HIDE DEF next, conn, n
<1>5. nd' = [nd EXCEPT ![n].conns = Append(@, conn)] /\ inbox' = inbox /\ toSd' = toSd
  BY DEF Start, next, conn, n
<1>6. [nd[n] EXCEPT !.conns = Append(@, conn)] \in Daemons
  BY <1>1, <1>4 DEF Daemons
<1>7. NdTypes'
  BY <1>1, <1>5, <1>6 DEF TypesInv, NdTypes
<1>8. SdTypes'
  BY DEF Start, TypesInv, SdTypes, sdVars
<1> QED BY <1>3, <1>7, <1>8 DEF TypesInv

LEMMA TypesGetChannel ==
    ASSUME TypesInv, NEW c \in Clients, GetChannel(c)
    PROVE  TypesInv'
<1> DEFINE k == proc[c].got + 1
           n == NodeOf[c]
           e == [kind |-> "get", from |-> Id(c), tag |-> Program[k],
                 qp |-> QpNum(proc[c].run, k)]
           p == [state |-> "waiting", run |-> proc[c].run, got |-> proc[c].got,
                 fqp |-> proc[c].fqp]
<1>1. /\ proc[c] = [state |-> proc[c].state, run |-> proc[c].run, got |-> proc[c].got,
                    fqp |-> proc[c].fqp]
      /\ proc[c].state = "ready" /\ proc[c].run \in 1 .. MaxRuns
      /\ proc[c].got \in 0 .. Len(Program) /\ proc[c].fqp \in FabricQps
      /\ proc[c].got + 1 <= Len(Program)
  BY ProcessFields DEF TypesInv, GetChannel
<1>2. /\ k \in 1 .. Len(Program) /\ proc[c].got < Len(Program) /\ proc[c].run # 0
      /\ n \in Nodes /\ inbox[n] \in Seq(Events)
  BY <1>1, ConstantTypes DEF TypesInv, NdTypes
<1>3. ClientTypes'
  <2>1. p \in Processes /\ p.run # 0 /\ p.got < Len(Program)
    BY <1>1, <1>2, ConstantTypes DEF Processes
  <2>2. proc' = [proc EXCEPT ![c].state = "waiting"] /\ toClient' = toClient
    BY DEF GetChannel
  <2>3. proc' = [proc EXCEPT ![c] = p]
    BY <2>2, StateStep DEF TypesInv
  <2> HIDE DEF p
  <2> QED BY <2>1, <2>2, <2>3, ProcessStep DEF TypesInv, ClientTypes
<1>4. e \in Events
  <2>1. Id(c) \in ClientIds
    BY <1>1 DEF Id, ClientIds
  <2>2. QpNum(proc[c].run, k) \in QpNums
    BY <1>1, <1>2 DEF QpNum, QpNums
  <2> QED BY <1>2, <2>1, <2>2, ConstantTypes DEF Events
<1> HIDE DEF k, n, e
<1>5. inbox' = [inbox EXCEPT ![n] = Append(@, e)] /\ nd' = nd /\ toSd' = toSd
  BY DEF GetChannel, n, e, k
<1>6. inbox' \in [Nodes -> Seq(Events)]
  BY <1>2, <1>4, <1>5 DEF TypesInv, NdTypes
<1>8. NdTypes'
  BY <1>5, <1>6 DEF TypesInv, NdTypes
<1>7. SdTypes'
  BY DEF GetChannel, TypesInv, SdTypes, sdVars
<1> QED BY <1>3, <1>7, <1>8 DEF TypesInv

LEMMA TypesReadReply ==
    ASSUME TypesInv, NEW c \in Clients, ReadReply(c)
    PROVE  TypesInv'
<1> DEFINE p == [state |-> "ready", run |-> proc[c].run, got |-> proc[c].got + 1,
                 fqp |-> Head(toClient[c])]
<1>1. /\ proc[c] = [state |-> proc[c].state, run |-> proc[c].run, got |-> proc[c].got,
                    fqp |-> proc[c].fqp]
      /\ proc[c].run \in 1 .. MaxRuns /\ proc[c].got + 1 \in 1 .. Len(Program)
      /\ toClient[c] \in Seq(FabricQps) /\ toClient[c] # <<>>
  BY ProcessFields DEF TypesInv, ReadReply
<1>2. Tail(toClient[c]) \in Seq(FabricQps) /\ Head(toClient[c]) \in FabricQps
  BY <1>1
<1>3. p \in Processes /\ p.state = "ready" /\ p.run # 0
  BY <1>1, <1>2, ConstantTypes DEF Processes
<1>4. toClient' = [toClient EXCEPT ![c] = Tail(@)]
  BY DEF ReadReply
<1>5. proc' = [proc EXCEPT ![c] = p]
  BY DEF ReadReply
<1> HIDE DEF p
<1>6. toClient' \in [Clients -> Seq(FabricQps)]
  BY <1>2, <1>4 DEF TypesInv, ClientTypes
<1>7. ClientTypes'
  BY <1>3, <1>5, <1>6, ProcessStep DEF TypesInv
<1>8. NdTypes' /\ SdTypes'
  BY DEF ReadReply, TypesInv, NdTypes, SdTypes, ndVars, sdVars
<1> QED BY <1>7, <1>8 DEF TypesInv

LEMMA TypesEnd ==
    ASSUME TypesInv, NEW c \in Clients, End(c), proc[c].state # "down"
    PROVE  TypesInv'
<1> DEFINE n == NodeOf[c]
           e == [kind |-> "eof", from |-> Id(c)]
           p == [state |-> "down", run |-> proc[c].run, got |-> proc[c].got,
                 fqp |-> proc[c].fqp]
<1>1. /\ proc[c] = [state |-> proc[c].state, run |-> proc[c].run, got |-> proc[c].got,
                    fqp |-> proc[c].fqp]
      /\ proc[c].run \in 1 .. MaxRuns
      /\ proc[c].got \in 0 .. Len(Program) /\ proc[c].fqp \in FabricQps
      /\ n \in Nodes /\ inbox[n] \in Seq(Events)
  BY ProcessFields, ConstantTypes DEF TypesInv, NdTypes
<1>2. ClientTypes'
  <2>1. p \in Processes /\ p.state = "down"
    BY <1>1, ConstantTypes DEF Processes
  <2>2. proc' = [proc EXCEPT ![c].state = "down"] /\ toClient' = toClient
    BY DEF End
  <2>3. proc' = [proc EXCEPT ![c] = p]
    BY <2>2, StateStep DEF TypesInv
  <2> HIDE DEF p
  <2> QED BY <2>1, <2>2, <2>3, ProcessStep DEF TypesInv, ClientTypes
<1>3. e \in Events
  <2>1. Id(c) \in ClientIds
    BY <1>1 DEF Id, ClientIds
  <2> QED BY <2>1 DEF Events
<1> HIDE DEF n, e
<1>4. inbox' \in [Nodes -> Seq(Events)]
  <2>1. inbox' = IF nd[n].up THEN [inbox EXCEPT ![n] = Append(@, e)] ELSE inbox
    BY DEF End, n, e
  <2> QED BY <1>1, <1>3, <2>1 DEF TypesInv, NdTypes
<1>5. NdTypes' /\ SdTypes'
  BY <1>4 DEF End, TypesInv, NdTypes, SdTypes, sdVars
<1> QED BY <1>2, <1>5 DEF TypesInv

LEMMA TypesDiscover ==
    ASSUME TypesInv, NEW n \in Nodes, Discover(n)
    PROVE  TypesInv'
<1>1. nd[n] \in Daemons /\ nd' = [nd EXCEPT ![n].known = TRUE]
  BY DEF Discover, TypesInv, NdTypes
<1>2. [nd[n] EXCEPT !.known = TRUE] \in Daemons
  BY <1>1 DEF Daemons
<1>3. nd' \in [Nodes -> Daemons]
  BY <1>1, <1>2 DEF TypesInv, NdTypes
<1> QED BY <1>3 DEF Discover, TypesInv, ClientTypes, NdTypes, SdTypes, clientVars, sdVars

-----------------------------------------------------------------------------
(* What the handlers of a node daemon do to its connections and messages. *)

LEMMA AllTagsFinite == IsFiniteSet(AllTags)
<1> DEFINE f == [k \in 1 .. Len(Program) |-> Program[k]]
<1>1. IsFiniteSet(1 .. Len(Program))
  BY ConstantTypes, FS_Interval
<1>2. f \in Surjection(1 .. Len(Program), AllTags)
  BY DEF AllTags, Surjection
<1> HIDE DEF f
<1> QED BY <1>1, <1>2, FS_Surjection

UnrefsFor(unused) ==
    [k \in 1 .. Cardinality(unused) |-> [kind |-> "unref", tag |-> Ascending(unused)[k]]]

LEMMA UnrefsForFacts ==
    ASSUME NEW unused \in SUBSET AllTags
    PROVE  /\ UnrefsFor(unused) \in Seq(Messages)
           /\ \A k \in 1 .. Len(UnrefsFor(unused)) :
                 UnrefsFor(unused)[k].kind = "unref" /\ UnrefsFor(unused)[k].tag \in unused
           /\ \A t \in unused : \E k \in 1 .. Len(UnrefsFor(unused)) :
                 UnrefsFor(unused)[k].tag = t
<1> DEFINE N == Cardinality(unused)
           order == Ascending(unused)
           unrefs == UnrefsFor(unused)
<1>1. unused \in SUBSET Nat /\ IsFiniteSet(unused)
  BY AllTagsFinite, ConstantTypes, FS_Subset
<1>2. N \in Nat
  BY <1>1, AscendingFacts
<1>3. \A k \in 1 .. N : order[k] \in unused
  BY <1>1, AscendingFacts
<1>4. \A t \in unused : \E k \in 1 .. N : order[k] = t
  BY <1>1, AscendingFacts
<1>5. unrefs = [k \in 1 .. N |-> [kind |-> "unref", tag |-> order[k]]]
  BY DEF UnrefsFor
<1> HIDE DEF N, order, unrefs
<1>6. \A k \in 1 .. N : [kind |-> "unref", tag |-> order[k]] \in Messages
  BY <1>3 DEF Messages
<1>7. unrefs \in [1 .. N -> Messages]
  BY <1>5, <1>6
<1>8. unrefs \in Seq(Messages) /\ Len(unrefs) = N
  BY <1>2, <1>7
<1>9. \A k \in 1 .. N : unrefs[k].kind = "unref" /\ unrefs[k].tag = order[k]
  BY <1>5
<1> QED BY <1>3, <1>4, <1>8, <1>9 DEF unrefs

\* A request: the connection it came from is marked, the request is passed on.
LEMMA NdGetChannelStep ==
    ASSUME NdTypes, NEW n \in Nodes, NEW e \in Events, e.kind = "get", Has(nd[n].conns, e.from),
           nd[n].known, NdGetChannel(n, e)
    PROVE  LET i == ConnOf(n, e.from)
               m == [kind |-> "get", client |-> e.from.client, tag |-> e.tag, qp |-> e.qp]
           IN  /\ i \in 1 .. Len(nd[n].conns) /\ Same(nd[n].conns[i], e.from)
               /\ nd' \in [Nodes -> Daemons]
               /\ \A x \in Nodes : nd'[x].up = nd[x].up /\ nd'[x].known = nd[x].known
               /\ \A x \in Nodes : x # n => nd'[x].conns = nd[x].conns
               /\ Len(nd'[n].conns) = Len(nd[n].conns)
               /\ \A j \in 1 .. Len(nd[n].conns) : j # i => nd'[n].conns[j] = nd[n].conns[j]
               /\ nd'[n].conns[i] = [client |-> nd[n].conns[i].client,
                                     run |-> nd[n].conns[i].run,
                                     tags |-> nd[n].conns[i].tags \cup {e.tag},
                                     pending |-> nd[n].conns[i].pending \cup {e.tag}]
               /\ m \in Messages
               /\ toSd' = [toSd EXCEPT ![n] = Append(@, m)]
<1> DEFINE i == ConnOf(n, e.from)
           m == [kind |-> "get", client |-> e.from.client, tag |-> e.tag, qp |-> e.qp]
           old == nd[n].conns[i]
           new == [client |-> old.client, run |-> old.run,
                   tags |-> old.tags \cup {e.tag}, pending |-> old.pending \cup {e.tag}]
<1>1. i \in 1 .. Len(nd[n].conns) /\ Same(nd[n].conns[i], e.from)
  BY ConnOfFacts
<1>2. nd[n] \in Daemons /\ nd[n].conns \in Seq(Conns) /\ nd \in [Nodes -> Daemons]
  BY DEF NdTypes, Daemons
<1>3. old \in Conns
  BY <1>1, <1>2
<1>4. e.tag \in AllTags /\ e.qp \in QpNums /\ e.from.client \in Clients
  BY EventKinds DEF ClientIds
<1>5. new \in Conns
  BY <1>3, <1>4 DEF Conns
<1>6. m \in Messages
  BY <1>4 DEF Messages
<1>7. nd' = [nd EXCEPT ![n].conns[i] = new] /\ toSd' = [toSd EXCEPT ![n] = Append(@, m)]
  BY DEF NdGetChannel
<1> HIDE DEF i, m, old, new
<1> DEFINE conns == [nd[n].conns EXCEPT ![i] = new]
<1>8. /\ conns \in Seq(Conns) /\ Len(conns) = Len(nd[n].conns)
      /\ \A j \in 1 .. Len(nd[n].conns) : j # i => conns[j] = nd[n].conns[j]
      /\ conns[i] = new
  BY <1>1, <1>2, <1>5
<1>9. nd' = [nd EXCEPT ![n] = [nd[n] EXCEPT !.conns = conns]]
  BY <1>7
<1> HIDE DEF conns
<1>10. [nd[n] EXCEPT !.conns = conns] \in Daemons
       /\ [nd[n] EXCEPT !.conns = conns].up = nd[n].up
       /\ [nd[n] EXCEPT !.conns = conns].known = nd[n].known
       /\ [nd[n] EXCEPT !.conns = conns].conns = conns
  BY <1>2, <1>8 DEF Daemons
<1>11. nd' \in [Nodes -> Daemons]
  BY <1>2, <1>9, <1>10
<1>12. nd'[n] = [nd[n] EXCEPT !.conns = conns] /\ \A x \in Nodes : x # n => nd'[x] = nd[x]
  BY <1>2, <1>9
<1> HIDE DEF new
<1> QED
  <2>1. new = [client |-> nd[n].conns[i].client, run |-> nd[n].conns[i].run,
               tags |-> nd[n].conns[i].tags \cup {e.tag},
               pending |-> nd[n].conns[i].pending \cup {e.tag}]
    BY DEF new, old
  <2>2. \A x \in Nodes : nd'[x].up = nd[x].up /\ nd'[x].known = nd[x].known
    BY <1>10, <1>12
  <2>3. nd'[n].conns = conns
    BY <1>10, <1>12
  <2> QED BY <1>1, <1>6, <1>7, <1>8, <1>11, <1>12, <2>1, <2>2, <2>3 DEF i, m

\* The end of a connection: it leaves the list, and the channels that only it used
\* are unreferenced.
LEMMA NdRemoveClientStep ==
    ASSUME NdTypes, NEW n \in Nodes, NEW id, Has(nd[n].conns, id), NdRemoveClient(n, id)
    PROVE  LET i == ConnOf(n, id)
               unused == Unused(nd[n].conns, i)
           IN  /\ i \in 1 .. Len(nd[n].conns) /\ Same(nd[n].conns[i], id)
               /\ nd' \in [Nodes -> Daemons]
               /\ \A x \in Nodes : nd'[x].up = nd[x].up /\ nd'[x].known = nd[x].known
               /\ \A x \in Nodes : x # n => nd'[x].conns = nd[x].conns
               /\ nd'[n].conns = RemoveAt(nd[n].conns, i)
               /\ unused \in SUBSET AllTags
               /\ toSd' = [toSd EXCEPT ![n] = @ \o UnrefsFor(unused)]
<1> DEFINE i == ConnOf(n, id)
           unused == Unused(nd[n].conns, i)
<1>1. i \in 1 .. Len(nd[n].conns) /\ Same(nd[n].conns[i], id)
  BY ConnOfFacts
<1>2. nd[n] \in Daemons /\ nd[n].conns \in Seq(Conns) /\ nd \in [Nodes -> Daemons]
  BY DEF NdTypes, Daemons
<1>3. unused \in SUBSET AllTags
  <2>1. nd[n].conns[i] \in Conns
    BY <1>1, <1>2
  <2>2. nd[n].conns[i].tags \in SUBSET AllTags
    BY <2>1 DEF Conns
  <2> QED BY <2>2 DEF Unused
<1>4. /\ nd' = [nd EXCEPT ![n].conns = RemoveAt(@, i)]
      /\ toSd' = [toSd EXCEPT ![n] = @ \o UnrefsFor(unused)]
  BY DEF NdRemoveClient, UnrefsFor
<1> HIDE DEF i, unused
<1> DEFINE conns == RemoveAt(nd[n].conns, i)
<1>5. conns \in Seq(Conns)
  BY <1>1, <1>2, RemoveAtFacts
<1>6. nd' = [nd EXCEPT ![n] = [nd[n] EXCEPT !.conns = conns]]
  BY <1>4
<1> HIDE DEF conns
<1>7. [nd[n] EXCEPT !.conns = conns] \in Daemons
      /\ [nd[n] EXCEPT !.conns = conns].up = nd[n].up
      /\ [nd[n] EXCEPT !.conns = conns].known = nd[n].known
      /\ [nd[n] EXCEPT !.conns = conns].conns = conns
  BY <1>2, <1>5 DEF Daemons
<1>8. nd' \in [Nodes -> Daemons]
  BY <1>2, <1>6, <1>7
<1>9. nd'[n] = [nd[n] EXCEPT !.conns = conns] /\ \A x \in Nodes : x # n => nd'[x] = nd[x]
  BY <1>2, <1>6
<1>10. nd'[n].conns = conns
  BY <1>7, <1>9
<1>11. \A x \in Nodes : nd'[x].up = nd[x].up /\ nd'[x].known = nd[x].known
  BY <1>7, <1>9
<1> QED BY <1>1, <1>3, <1>4, <1>8, <1>9, <1>10, <1>11 DEF conns, i, unused

\* A daemon dies: its connections close.
LEMMA NdDiesStep ==
    ASSUME NdTypes, ClientTypes, NEW n \in Nodes, NdDies(n)
    PROVE  /\ nd' \in [Nodes -> Daemons]
           /\ \A x \in Nodes : x # n => nd'[x] = nd[x] /\ inbox'[x] = inbox[x]
           /\ ~nd'[n].up /\ nd'[n].conns = <<>> /\ inbox'[n] = <<>>
           /\ inbox' \in [Nodes -> Seq(Events)]
           /\ \E kind \in {"eof", "reset"} :
                 /\ [kind |-> kind] \in Messages
                 /\ toSd' = [toSd EXCEPT ![n] = Append(@, [kind |-> kind])]
           /\ toClient' \in [Clients -> Seq(FabricQps)]
<1>1. nd[n] \in Daemons /\ nd \in [Nodes -> Daemons] /\ inbox \in [Nodes -> Seq(Events)]
  BY DEF NdTypes
<1> DEFINE dead == [up |-> FALSE, known |-> nd[n].known, conns |-> <<>>]
<1>2. dead \in Daemons /\ ~dead.up /\ dead.conns = <<>>
  BY <1>1 DEF Daemons
<1>3. nd' = [nd EXCEPT ![n] = dead] /\ inbox' = [inbox EXCEPT ![n] = <<>>]
  BY DEF NdDies
<1> HIDE DEF dead
<1>4. /\ nd' \in [Nodes -> Daemons] /\ ~nd'[n].up /\ nd'[n].conns = <<>>
      /\ \A x \in Nodes : x # n => nd'[x] = nd[x]
  BY <1>1, <1>2, <1>3
<1>5. /\ inbox' \in [Nodes -> Seq(Events)] /\ inbox'[n] = <<>>
      /\ \A x \in Nodes : x # n => inbox'[x] = inbox[x]
  BY <1>1, <1>3
<1>6. \E kind \in {"eof", "reset"} :
         /\ [kind |-> kind] \in Messages
         /\ toSd' = [toSd EXCEPT ![n] = Append(@, [kind |-> kind])]
  <2>1. \A kind \in {"eof", "reset"} : [kind |-> kind] \in Messages
    BY DEF Messages
  <2> QED BY <2>1 DEF NdDies
<1>7. toClient' \in [Clients -> Seq(FabricQps)]
  <2>1. \A c \in Clients : toClient[c] \in Seq(FabricQps)
                           /\ Append(toClient[c], NoFabricQp) \in Seq(FabricQps)
    BY ConstantTypes DEF ClientTypes
  <2> QED BY <2>1 DEF NdDies
<1> QED BY <1>4, <1>5, <1>6, <1>7

\* A response is dropped, passed on to the first connection that waits for it, or
\* ends the daemon.
LEMMA NdSwitchEventStep ==
    ASSUME TypesInv, NEW n \in Nodes, NdSwitchEvent(n)
    PROVE  LET resp == Head(fromSd[n])
               i == Min(Waiting(n, resp))
               conn == nd[n].conns[i]
           IN  /\ nd[n].up /\ fromSd[n] # <<>>
               /\ fromSd' = [fromSd EXCEPT ![n] = Tail(@)]
               /\ resp \in Responses({n}, AllTags)
               /\ Tail(fromSd[n]) \in Seq(Responses({n}, AllTags))
               /\ proc' = proc /\ UNCHANGED sdVars
               /\ \/ Waiting(n, resp) = {} /\ UNCHANGED <<toClient, nd, inbox, toSd>>
                  \/ /\ i \in 1 .. Len(nd[n].conns) /\ conn.client = resp.client
                     /\ conn \in Conns /\ resp.tag \in conn.pending
                     /\ \/ /\ Connected(conn)
                           /\ toClient' = [toClient EXCEPT ![conn.client] = Append(@, resp.fqp)]
                           /\ toClient' \in [Clients -> Seq(FabricQps)]
                           /\ UNCHANGED <<nd, inbox, toSd>>
                        \/ ~Connected(conn) /\ NdDies(n)
<1> DEFINE resp == Head(fromSd[n])
           i == Min(Waiting(n, resp))
           conn == nd[n].conns[i]
<1>1. fromSd[n] \in Seq(Responses({n}, AllTags)) /\ fromSd[n] # <<>>
  BY DEF NdSwitchEvent, TypesInv, SdTypes
<1>2. resp \in Responses({n}, AllTags) /\ Tail(fromSd[n]) \in Seq(Responses({n}, AllTags))
  BY <1>1
<1>3. nd[n].conns \in Seq(Conns)
  BY DEF TypesInv, NdTypes, Daemons
<1>4. CASE Waiting(n, resp) = {}
  BY <1>1, <1>2, <1>4 DEF NdSwitchEvent, ndVars
<1>5. CASE Waiting(n, resp) # {}
  <2>1. Waiting(n, resp) \in SUBSET Nat
    BY <1>3 DEF Waiting
  <2>2. i \in Waiting(n, resp)
    BY <1>5, <2>1, MinIsElement
  <2>3. /\ i \in 1 .. Len(nd[n].conns) /\ conn.client = resp.client
        /\ resp.tag \in conn.pending
    BY <2>2 DEF Waiting
  <2>4. conn \in Conns
    BY <1>3, <2>3
  <2>5. IF Connected(conn)
        THEN /\ toClient' = [toClient EXCEPT ![conn.client] = Append(@, resp.fqp)]
             /\ UNCHANGED <<ndVars, toSd>>
        ELSE NdDies(n)
    BY <1>5 DEF NdSwitchEvent
  <2>6. Append(toClient[conn.client], resp.fqp) \in Seq(FabricQps) /\ conn.client \in Clients
    BY <1>2, <2>4 DEF Conns, Responses, TypesInv, ClientTypes
  <2>7. Connected(conn) => toClient' \in [Clients -> Seq(FabricQps)]
    BY <2>5, <2>6 DEF TypesInv, ClientTypes
  <2>8. /\ nd[n].up /\ fromSd' = [fromSd EXCEPT ![n] = Tail(@)]
        /\ proc' = proc /\ UNCHANGED sdVars
    BY DEF NdSwitchEvent
  <2> HIDE DEF resp, i, conn
  <2>9. \/ /\ Connected(conn)
           /\ toClient' = [toClient EXCEPT ![conn.client] = Append(@, resp.fqp)]
           /\ toClient' \in [Clients -> Seq(FabricQps)]
           /\ UNCHANGED <<nd, inbox, toSd>>
        \/ ~Connected(conn) /\ NdDies(n)
    BY <2>5, <2>7 DEF ndVars
  <2> QED BY <1>1, <1>2, <2>3, <2>4, <2>8, <2>9 DEF resp, i, conn
<1> QED BY <1>4, <1>5

LEMMA TypesNdSwitchEvent ==
    ASSUME TypesInv, NEW n \in Nodes, NdSwitchEvent(n)
    PROVE  TypesInv'
<1> DEFINE rs == Responses({n}, AllTags)
<1>1. /\ fromSd' = [fromSd EXCEPT ![n] = Tail(@)] /\ Tail(fromSd[n]) \in Seq(rs)
      /\ proc' = proc /\ UNCHANGED sdVars
  BY NdSwitchEventStep
<1>2. SdTypes'
  BY <1>1 DEF TypesInv, SdTypes, sdVars
<1>3. \/ UNCHANGED <<toClient, nd, inbox, toSd>>
      \/ toClient' \in [Clients -> Seq(FabricQps)] /\ UNCHANGED <<nd, inbox, toSd>>
      \/ NdDies(n)
  BY NdSwitchEventStep
<1>4. toClient' \in [Clients -> Seq(FabricQps)] /\ NdTypes'
  <2>1. CASE UNCHANGED <<toClient, nd, inbox, toSd>>
    BY <2>1 DEF TypesInv, NdTypes, ClientTypes
  <2>2. CASE toClient' \in [Clients -> Seq(FabricQps)] /\ UNCHANGED <<nd, inbox, toSd>>
    BY <2>2 DEF TypesInv, NdTypes
  <2>3. CASE NdDies(n)
    <3>1. PICK kind \in {"eof", "reset"} :
             /\ [kind |-> kind] \in Messages
             /\ toSd' = [toSd EXCEPT ![n] = Append(@, [kind |-> kind])]
      BY <2>3, NdDiesStep DEF TypesInv
    <3> DEFINE m == [kind |-> kind]
    <3>2. toSd' = [toSd EXCEPT ![n] = Append(@, m)] /\ m \in Messages
      BY <3>1
    <3> HIDE DEF m
    <3>3. toSd' \in [Nodes -> Seq(Messages)]
      BY <3>2 DEF TypesInv, NdTypes
    <3>4. /\ nd' \in [Nodes -> Daemons] /\ inbox' \in [Nodes -> Seq(Events)]
          /\ toClient' \in [Clients -> Seq(FabricQps)]
      BY <2>3, NdDiesStep DEF TypesInv
    <3> QED BY <3>3, <3>4 DEF NdTypes
  <2> QED BY <1>3, <2>1, <2>2, <2>3
<1>5. ClientTypes'
  BY <1>1, <1>4 DEF TypesInv, ClientTypes
<1> QED BY <1>2, <1>4, <1>5 DEF TypesInv

LEMMA TypesNdClientEvent ==
    ASSUME TypesInv, NEW n \in Nodes, NdClientEvent(n), EventsOfConns(nd[n].conns, inbox[n])
    PROVE  TypesInv'
<1> DEFINE e == Head(inbox[n])
<1>1. inbox[n] \in Seq(Events) /\ inbox[n] # <<>> /\ inbox' = [inbox EXCEPT ![n] = Tail(@)]
  BY DEF NdClientEvent, TypesInv, NdTypes
<1>2. e \in Events /\ Tail(inbox[n]) \in Seq(Events) /\ e = inbox[n][1] /\ 1 \in 1 .. Len(inbox[n])
  BY <1>1
<1>3. Has(nd[n].conns, e.from)
  BY <1>2 DEF EventsOfConns
<1>4. inbox' \in [Nodes -> Seq(Events)]
  BY <1>1, <1>2 DEF TypesInv, NdTypes
<1>5. \/ e.kind = "get" /\ nd[n].known /\ NdGetChannel(n, e)
      \/ e.kind = "get" /\ UNCHANGED <<nd, toSd>>
      \/ NdRemoveClient(n, e.from)
  BY <1>2, EventKinds DEF NdClientEvent, NdGetChannel
<1> HIDE DEF e
<1>6. nd' \in [Nodes -> Daemons] /\ toSd' \in [Nodes -> Seq(Messages)]
  <2>1. CASE e.kind = "get" /\ nd[n].known /\ NdGetChannel(n, e)
    <3> DEFINE m == [kind |-> "get", client |-> e.from.client, tag |-> e.tag, qp |-> e.qp]
    <3>0. NdTypes /\ e.kind = "get" /\ nd[n].known /\ NdGetChannel(n, e)
      BY <2>1 DEF TypesInv
    <3>a. e \in Events /\ Has(nd[n].conns, e.from)
      BY <1>2, <1>3
    <3>b. nd' \in [Nodes -> Daemons]
      BY <3>0, <3>a, NdGetChannelStep
    <3>c. m \in Messages
      BY <3>0, <3>a, NdGetChannelStep
    <3>d. toSd' = [toSd EXCEPT ![n] = Append(@, m)]
      BY <3>0, <3>a, NdGetChannelStep
    <3>1. nd' \in [Nodes -> Daemons] /\ m \in Messages
          /\ toSd' = [toSd EXCEPT ![n] = Append(@, m)]
      BY <3>b, <3>c, <3>d
    <3> HIDE DEF m
    <3>2. toSd' \in [Nodes -> Seq(Messages)]
      BY <3>1 DEF TypesInv, NdTypes
    <3> QED BY <3>1, <3>2
  <2>2. CASE UNCHANGED <<nd, toSd>>
    BY <2>2 DEF TypesInv, NdTypes
  <2>3. CASE NdRemoveClient(n, e.from)
    <3> DEFINE unused == Unused(nd[n].conns, ConnOf(n, e.from))
    <3>1. /\ nd' \in [Nodes -> Daemons] /\ unused \in SUBSET AllTags
          /\ toSd' = [toSd EXCEPT ![n] = @ \o UnrefsFor(unused)]
      BY <1>3, <2>3, NdRemoveClientStep DEF TypesInv
    <3> HIDE DEF unused
    <3>2. UnrefsFor(unused) \in Seq(Messages)
      BY <3>1, UnrefsForFacts
    <3>3. toSd' \in [Nodes -> Seq(Messages)]
      BY <3>1, <3>2 DEF TypesInv, NdTypes
    <3> QED BY <3>1, <3>3
  <2> QED BY <1>5, <2>1, <2>2, <2>3
<1>7. NdTypes'
  BY <1>4, <1>6 DEF NdTypes
<1>8. ClientTypes' /\ SdTypes'
  BY DEF NdClientEvent, TypesInv, ClientTypes, SdTypes, clientVars, sdVars
<1> QED BY <1>7, <1>8 DEF TypesInv

-----------------------------------------------------------------------------
(* What the handlers of the agent do. *)

\* The messages that are left after one has been handled.
LEMMA AfterOneFacts ==
    ASSUME NEW msgs \in Seq(Messages), msgs # <<>>, NEW rest \in AfterOne(msgs)
    PROVE  /\ rest \in Seq(Messages)
           /\ \/ rest = Tail(msgs)
              \/ /\ Len(rest) = 1 /\ rest[1].kind = "eof"
                 /\ Len(msgs) > 1 /\ msgs[Len(msgs)].kind \in {"eof", "reset"}
<1>1. CASE rest = Tail(msgs)
  BY <1>1
<1>2. CASE rest # Tail(msgs)
  <2>1. /\ Len(msgs) > 1 /\ msgs[Len(msgs)].kind \in {"eof", "reset"}
        /\ rest = <<[kind |-> "eof"]>>
    BY <1>2 DEF AfterOne, Last
  <2>2. [kind |-> "eof"] \in Messages
    BY DEF Messages
  <2> QED BY <2>1, <2>2
<1> QED BY <1>1, <1>2

LEMMA SdEventStep ==
    ASSUME TypesInv, NEW n \in Nodes, SdEvent(n)
    PROVE  LET msg == Head(toSd[n])
           IN  /\ sdUp /\ toSd[n] # <<>> /\ toSd[n] \in Seq(Messages)
               /\ msg \in Messages /\ msg = toSd[n][1] /\ 1 \in 1 .. Len(toSd[n])
               /\ toSd' \in [Nodes -> Seq(Messages)]
               /\ toSd'[n] \in AfterOne(toSd[n])
               /\ \A x \in Nodes : x # n => toSd'[x] = toSd[x]
               /\ UNCHANGED <<proc, toClient, nd, inbox>>
               /\ \/ /\ msg.kind = "get"
                     /\ msg.tag \in Tags(channels) \/ CanAllocate(channels)
                     /\ SdGetChannel(n, msg)
                  \/ msg.kind = "get" /\ Refused(n, msg) /\ SdFails
                  \/ msg.kind = "reset" /\ SdFails
                  \/ msg.kind = "unref" /\ SdUnrefChannel(n, msg.tag)
                  \/ msg.kind = "eof" /\ SdDisconnect(n)
<1>1. sdUp /\ toSd[n] # <<>> /\ toSd[n] \in Seq(Messages) /\ toSd \in [Nodes -> Seq(Messages)]
  BY DEF SdEvent, TypesInv, NdTypes
<1>2. PICK rest \in AfterOne(toSd[n]) : toSd' = [toSd EXCEPT ![n] = rest]
  BY DEF SdEvent
<1>3. rest \in Seq(Messages)
  BY <1>1, <1>2, AfterOneFacts
<1>4. /\ toSd' \in [Nodes -> Seq(Messages)] /\ toSd'[n] \in AfterOne(toSd[n])
      /\ \A x \in Nodes : x # n => toSd'[x] = toSd[x]
  BY <1>1, <1>2, <1>3
<1>5. Head(toSd[n]) \in Messages /\ Head(toSd[n]) = toSd[n][1] /\ 1 \in 1 .. Len(toSd[n])
  BY <1>1
<1>6. UNCHANGED <<proc, toClient, nd, inbox>>
  BY DEF SdEvent, clientVars, ndVars
<1>7. ~Refused(n, Head(toSd[n])) =>
          Head(toSd[n]).tag \in Tags(channels) \/ CanAllocate(channels)
  BY DEF Refused
<1> QED BY <1>1, <1>4, <1>5, <1>6, <1>7 DEF SdEvent

LEMMA TypesRespond ==
    ASSUME SdTypes, NEW t \in AllTags, NEW held \in Seq(Responses(Nodes, {t})), Respond(held)
    PROVE  /\ DOMAIN fromSd' = Nodes
           /\ \A n \in Nodes : fromSd'[n] \in Seq(Responses({n}, AllTags))
           /\ sdUp' \in BOOLEAN
           /\ \A n \in Nodes : fromSd'[n] = fromSd[n] \o ResponsesFor(n, held)
<1>1. fromSd' = [n \in Nodes |-> fromSd[n] \o ResponsesFor(n, held)] /\ sdUp' \in BOOLEAN
  BY DEF Respond
<1>2. ASSUME NEW n \in Nodes
      PROVE  fromSd[n] \o ResponsesFor(n, held) \in Seq(Responses({n}, AllTags))
  <2>1. fromSd[n] \in Seq(Responses({n}, AllTags))
    BY DEF SdTypes
  <2>2. ResponsesFor(n, held) \in Seq(Responses({n}, {t}))
    BY ResponsesForFacts
  <2>3. Responses({n}, {t}) \subseteq Responses({n}, AllTags)
    BY DEF Responses
  <2> DEFINE R == Responses({n}, AllTags)
             S == Responses({n}, {t})
             u == ResponsesFor(n, held)
  <2>4. u \in Seq(S) /\ S \subseteq R /\ fromSd[n] \in Seq(R)
    BY <2>1, <2>2, <2>3
  <2> HIDE DEF R, S, u
  <2>5. u \in Seq(R)
    BY <2>4
  <2> QED BY <2>4, <2>5 DEF R, u
<1> QED BY <1>1, <1>2

LEMMA TypesSdGetChannel ==
    ASSUME SdTypes, NEW n \in Nodes, NEW msg \in Messages, msg.kind = "get",
           msg.tag \in Tags(channels) \/ CanAllocate(channels), SdGetChannel(n, msg)
    PROVE  SdTypes'
<1> DEFINE t == msg.tag
           held == HeldFor(n, msg)
           updated == UpdatedFor(n, msg)
<1>1. t \in AllTags
  BY MessageKinds
<1>2. held \in Seq(Responses(Nodes, {t}))
  BY HoldingTypes
<1>3. updated \in [Tags(channels) \cup {t} -> Channels]
  BY RegisteringTypes
<1>4. AddedFor(msg)[t] \in Channels
  BY <1>1, AddingTypes
<1>5. /\ nextCommon' = IF t \notin Tags(channels) THEN After(AddedFor(msg)[t].common)
                                                  ELSE nextCommon
      /\ owns' = [owns EXCEPT ![n] = @ \cup {t}]
      /\ channels' = updated
      /\ \/ pending' = [pending EXCEPT ![t] = <<>>] /\ Respond(held)
         \/ pending' = [pending EXCEPT ![t] = held] /\ UNCHANGED <<fromSd, sdUp>>
  BY SdGetParts
<1> HIDE DEF t, held, updated
<1>6. nextCommon' \in 0 .. MaxCommon
  <2>1. AddedFor(msg)[t].common \in 1 .. MaxCommon
    BY <1>4 DEF Channels
  <2>2. After(AddedFor(msg)[t].common) \in 0 .. MaxCommon
    BY <2>1, AfterInRange
  <2> QED BY <1>5, <2>2 DEF SdTypes
<1>7. owns' \in [Nodes -> SUBSET AllTags]
  BY <1>1, <1>5 DEF SdTypes
<1>8. Tags(channels)' \subseteq AllTags /\ channels' \in [Tags(channels)' -> Channels]
  BY <1>1, <1>3, <1>5 DEF SdTypes, Tags
<1>9. /\ DOMAIN fromSd' = Nodes /\ sdUp' \in BOOLEAN
      /\ \A x \in Nodes : fromSd'[x] \in Seq(Responses({x}, AllTags))
  <2>1. CASE Respond(held)
    BY <1>1, <1>2, <2>1, TypesRespond
  <2>2. CASE UNCHANGED <<fromSd, sdUp>>
    BY <2>2 DEF SdTypes
  <2> QED BY <1>5, <2>1, <2>2
<1>10. /\ DOMAIN pending' = AllTags
       /\ \A x \in AllTags : pending'[x] \in Seq(Responses(Nodes, {x}))
  <2>1. \A x \in AllTags : pending[x] \in Seq(Responses(Nodes, {x}))
    BY DEF SdTypes
  <2>2. DOMAIN pending = AllTags
    BY DEF SdTypes
  <2>3. /\ DOMAIN pending' = AllTags
        /\ \A x \in AllTags : x # t => pending'[x] = pending[x]
        /\ pending'[t] = <<>> \/ pending'[t] = held
    BY <1>1, <1>5, <2>2
  <2>4. pending'[t] \in Seq(Responses(Nodes, {t}))
    <3>1. CASE pending'[t] = <<>>
      BY <3>1
    <3>2. CASE pending'[t] = held
      BY <3>2, <1>2
    <3> QED BY <2>3, <3>1, <3>2
  <2> QED BY <2>1, <2>3, <2>4
<1> QED BY <1>6, <1>7, <1>8, <1>9, <1>10 DEF SdTypes

LEMMA TypesRemoveUnowned ==
    ASSUME SdTypes, NEW tags, RemoveUnowned(tags), owns' \in [Nodes -> SUBSET AllTags]
    PROVE  SdTypes'
<1> DEFINE unowned == Unowned(tags, owns')
<1>1. /\ channels' = [t \in Tags(channels) \ unowned |-> channels[t]]
      /\ sdUp' \in BOOLEAN
      /\ UNCHANGED <<fromSd, pending, nextCommon>>
  BY DEF RemoveUnowned, RemoveChannels, Restrict
<1> HIDE DEF unowned
<1>2. Tags(channels)' \subseteq AllTags /\ channels' \in [Tags(channels)' -> Channels]
  BY <1>1 DEF SdTypes, Tags
<1> QED BY <1>1, <1>2 DEF SdTypes

LEMMA TypesSdEvent ==
    ASSUME TypesInv, NEW n \in Nodes, SdEvent(n)
    PROVE  TypesInv'
<1> DEFINE msg == Head(toSd[n])
<1>1. /\ msg \in Messages /\ toSd' \in [Nodes -> Seq(Messages)]
      /\ UNCHANGED <<proc, toClient, nd, inbox>>
      /\ \/ /\ msg.kind = "get"
            /\ msg.tag \in Tags(channels) \/ CanAllocate(channels)
            /\ SdGetChannel(n, msg)
         \/ SdFails
         \/ msg.kind = "unref" /\ SdUnrefChannel(n, msg.tag)
         \/ SdDisconnect(n)
  BY SdEventStep
<1> HIDE DEF msg
<1>2. ClientTypes' /\ NdTypes'
  BY <1>1 DEF TypesInv, ClientTypes, NdTypes
<1>3. SdTypes
  BY DEF TypesInv
<1>4. owns \in [Nodes -> SUBSET AllTags]
  BY <1>3 DEF SdTypes
<1>5. CASE /\ msg.kind = "get"
           /\ msg.tag \in Tags(channels) \/ CanAllocate(channels)
           /\ SdGetChannel(n, msg)
  <2>1. msg \in Messages /\ msg.kind = "get" /\ SdGetChannel(n, msg)
        /\ (msg.tag \in Tags(channels) \/ CanAllocate(channels))
    BY <1>1, <1>5
  <2>2. SdTypes'
    BY <1>3, <2>1, TypesSdGetChannel
  <2> QED BY <1>2, <2>2 DEF TypesInv
<1>6. CASE SdFails
  BY <1>2, <1>3, <1>6 DEF SdFails, TypesInv, SdTypes
<1>7. CASE msg.kind = "unref" /\ SdUnrefChannel(n, msg.tag)
  <2>1. CASE msg.tag \in owns[n]
    <3>1. RemoveUnowned({msg.tag}) /\ owns' = [owns EXCEPT ![n] = @ \ {msg.tag}]
      BY <1>7, <2>1 DEF SdUnrefChannel
    <3>2. owns' \in [Nodes -> SUBSET AllTags]
      BY <1>4, <3>1
    <3> QED BY <1>2, <1>3, <3>1, <3>2, TypesRemoveUnowned DEF TypesInv
  <2>2. CASE msg.tag \notin owns[n]
    BY <1>2, <1>3, <1>7, <2>2 DEF SdUnrefChannel, sdVars, TypesInv, SdTypes
  <2> QED BY <2>1, <2>2
<1>8. CASE SdDisconnect(n)
  <2>1. RemoveUnowned(owns[n]) /\ owns' = [owns EXCEPT ![n] = {}]
    BY <1>8 DEF SdDisconnect
  <2>2. owns' \in [Nodes -> SUBSET AllTags]
    BY <1>4, <2>1
  <2> QED BY <1>2, <1>3, <2>1, <2>2, TypesRemoveUnowned DEF TypesInv
<1> QED BY <1>1, <1>5, <1>6, <1>7, <1>8

-----------------------------------------------------------------------------
(* Connections and processes stay in step. *)

LEMMA ConnsStart ==
    ASSUME NEW n, NEW conns \in Seq(Conns), NEW events \in Seq(Events),
           NEW procs \in [Clients -> Processes], ConnsOk(n, conns, events, procs),
           NEW c \in Clients, NodeOf[c] = n, procs[c].state = "down",
           NEW new, new.client = c, new.run = procs[c].run + 1,
           NEW p, p.state = "ready", p.run = procs[c].run + 1
    PROVE  ConnsOk(n, Append(conns, new), events, [procs EXCEPT ![c] = p])
<1> DEFINE L == Len(conns)
           conns2 == Append(conns, new)
           procs2 == [procs EXCEPT ![c] = p]
<1>1. /\ L \in Nat /\ Len(conns2) = L + 1 /\ conns2[L + 1] = new
      /\ \A i \in 1 .. L : conns2[i] = conns[i]
  OBVIOUS
<1>2. \A i \in 1 .. L : conns[i].client \in Clients /\ conns[i].run \in Nat
  <2>1. \A i \in 1 .. L : conns[i] \in Conns
    OBVIOUS
  <2> QED BY <2>1 DEF Conns
<1>3. procs2[c] = p /\ \A d \in Clients : d # c => procs2[d] = procs[d]
  OBVIOUS
<1>4. procs[c].run \in Nat
  <2>1. procs[c] \in Processes
    OBVIOUS
  <2> QED BY <2>1, ConstantTypes DEF Processes
<1> HIDE DEF conns2, procs2
<1>5. \A i \in 1 .. L : conns[i].client = c => conns[i].run <= procs[c].run
  BY DEF ConnsOk, LiveOrClosing
<1>6. \A i \in 1 .. L : ~Same(conns[i], new)
  BY <1>2, <1>4, <1>5 DEF Same
<1>7. \A id : Has(conns2, id) <=> Has(conns, id) \/ Same(new, id)
  <2>1. ASSUME NEW id, Has(conns2, id)
        PROVE  Has(conns, id) \/ Same(new, id)
    <3>1. PICK i \in 1 .. L + 1 : Same(conns2[i], id)
      BY <2>1, <1>1 DEF Has
    <3>2. CASE i = L + 1
      BY <1>1, <3>1, <3>2
    <3>3. CASE i \in 1 .. L
      BY <1>1, <3>1, <3>3 DEF Has
    <3> QED BY <1>1, <3>2, <3>3
  <2>2. ASSUME NEW id, Has(conns, id)
        PROVE  Has(conns2, id)
    <3>1. PICK i \in 1 .. L : Same(conns[i], id)
      BY <2>2 DEF Has
    <3>2. i \in 1 .. Len(conns2) /\ conns2[i] = conns[i]
      BY <1>1
    <3> QED BY <3>1, <3>2 DEF Has
  <2>3. ASSUME NEW id, Same(new, id)
        PROVE  Has(conns2, id)
    <3>1. L + 1 \in 1 .. Len(conns2)
      BY <1>1
    <3> QED BY <2>3, <1>1, <3>1 DEF Has
  <2> QED BY <2>1, <2>2, <2>3
<1>8. ~Closing(events, new)
  <2>1. SUFFICES ASSUME NEW k \in 1 .. Len(events), Same(events[k].from, new)
                 PROVE  FALSE
    BY DEF Closing
  <2>2. Has(conns, events[k].from)
    BY DEF ConnsOk, EventsOfConns
  <2> QED BY <1>6, <2>1, <2>2 DEF Has, Same
<1>9. UniqueConns(conns2)
  <2>1. SUFFICES ASSUME NEW i \in 1 .. L + 1, NEW j \in 1 .. L + 1, Same(conns2[i], conns2[j])
                 PROVE  i = j
    BY <1>1 DEF UniqueConns
  <2>2. CASE i \in 1 .. L /\ j \in 1 .. L
    BY <1>1, <2>1, <2>2 DEF ConnsOk, UniqueConns
  <2>3. CASE i = L + 1 /\ j \in 1 .. L
    BY <1>1, <1>6, <2>1, <2>3 DEF Same
  <2>4. CASE j = L + 1 /\ i \in 1 .. L
    BY <1>1, <1>6, <2>1, <2>4 DEF Same
  <2> QED BY <1>1, <2>2, <2>3, <2>4
<1>10. LiveOrClosing(n, conns2, events, procs2)
  <2>1. SUFFICES ASSUME NEW i \in 1 .. L + 1
                 PROVE  /\ NodeOf[conns2[i].client] = n
                        /\ conns2[i].run <= procs2[conns2[i].client].run
                        /\ Lives(procs2, conns2[i]) <=> ~Closing(events, conns2[i])
    BY <1>1 DEF LiveOrClosing
  <2>2. CASE i = L + 1
    BY <1>1, <1>3, <1>4, <1>8, <2>2 DEF Lives
  <2>3. CASE i \in 1 .. L
    <3> DEFINE conn == conns[i]
    <3>1. /\ conns2[i] = conn /\ conn.client \in Clients /\ conn.run \in Nat
          /\ NodeOf[conn.client] = n /\ conn.run <= procs[conn.client].run
          /\ Lives(procs, conn) <=> ~Closing(events, conn)
      BY <1>1, <1>2, <2>3 DEF ConnsOk, LiveOrClosing
    <3> HIDE DEF conn
    <3>2. CASE conn.client = c
      BY <1>3, <1>4, <3>1, <3>2 DEF Lives
    <3>3. CASE conn.client # c
      BY <1>3, <3>1, <3>3 DEF Lives
    <3> QED BY <3>2, <3>3
  <2> QED BY <1>1, <2>2, <2>3
<1>11. EventsOfConns(conns2, events)
  BY <1>7 DEF ConnsOk, EventsOfConns
<1>12. ProcessesHaveConns(n, conns2, procs2)
  <2>1. SUFFICES ASSUME NEW d \in Clients, NodeOf[d] = n, procs2[d].state # "down"
                 PROVE  Has(conns2, [client |-> d, run |-> procs2[d].run])
    BY DEF ProcessesHaveConns
  <2>2. CASE d = c
    BY <1>3, <1>7, <2>2 DEF Same
  <2>3. CASE d # c
    BY <1>3, <1>7, <2>1, <2>3 DEF ConnsOk, ProcessesHaveConns
  <2> QED BY <2>2, <2>3
<1> QED BY <1>9, <1>10, <1>11, <1>12 DEF ConnsOk, conns2, procs2

\* A process that lives sends a request or ends: one more event.
LEMMA ConnsEvent ==
    ASSUME NEW n, NEW conns \in Seq(Conns), NEW events \in Seq(Events),
           NEW procs \in [Clients -> Processes], ConnsOk(n, conns, events, procs),
           NEW c \in Clients, NodeOf[c] = n, procs[c].state # "down",
           NEW e, e.from = [client |-> c, run |-> procs[c].run],
           NEW p, p.run = procs[c].run,
           IF e.kind = "eof" THEN p.state = "down" ELSE p.state # "down"
    PROVE  ConnsOk(n, conns, Append(events, e), [procs EXCEPT ![c] = p])
<1> DEFINE L == Len(events)
           events2 == Append(events, e)
           procs2 == [procs EXCEPT ![c] = p]
           id0 == [client |-> c, run |-> procs[c].run]
<1>1. /\ L \in Nat /\ Len(events2) = L + 1 /\ events2[L + 1] = e
      /\ \A i \in 1 .. L : events2[i] = events[i]
  OBVIOUS
<1>2. \A i \in 1 .. Len(conns) : conns[i].client \in Clients
  <2>1. \A i \in 1 .. Len(conns) : conns[i] \in Conns
    OBVIOUS
  <2> QED BY <2>1 DEF Conns
<1>3. procs2[c] = p /\ \A d \in Clients : d # c => procs2[d] = procs[d]
  OBVIOUS
<1>4. id0.client = c /\ id0.run = procs[c].run /\ e.from = id0 /\ p.run = procs[c].run
  OBVIOUS
<1> HIDE DEF events2, procs2, id0
<1>5. Has(conns, id0)
  BY DEF ConnsOk, ProcessesHaveConns, id0
<1>6. ~Closing(events, id0)
  <2>1. PICK i \in 1 .. Len(conns) : Same(conns[i], id0)
    BY <1>5 DEF Has
  <2>2. Lives(procs, conns[i])
    BY <1>4, <2>1 DEF Same, Lives
  <2>3. ~Closing(events, conns[i])
    BY <2>2 DEF ConnsOk, LiveOrClosing
  <2> QED BY <2>1, <2>3 DEF Closing, Same
<1>7. \A id : Closing(events2, id) <=> Closing(events, id) \/ (e.kind = "eof" /\ Same(id0, id))
  <2>1. ASSUME NEW id, Closing(events2, id)
        PROVE  Closing(events, id) \/ (e.kind = "eof" /\ Same(id0, id))
    <3>1. PICK k \in 1 .. L + 1 : events2[k].kind = "eof" /\ Same(events2[k].from, id)
      BY <2>1, <1>1 DEF Closing
    <3>2. CASE k = L + 1
      BY <1>1, <1>4, <3>1, <3>2
    <3>3. CASE k \in 1 .. L
      BY <1>1, <3>1, <3>3 DEF Closing
    <3> QED BY <1>1, <3>2, <3>3
  <2>2. ASSUME NEW id, Closing(events, id)
        PROVE  Closing(events2, id)
    <3>1. PICK k \in 1 .. L : events[k].kind = "eof" /\ Same(events[k].from, id)
      BY <2>2 DEF Closing
    <3>2. k \in 1 .. Len(events2) /\ events2[k] = events[k]
      BY <1>1
    <3> QED BY <3>1, <3>2 DEF Closing
  <2>3. ASSUME NEW id, e.kind = "eof", Same(id0, id)
        PROVE  Closing(events2, id)
    <3>1. L + 1 \in 1 .. Len(events2) /\ Same(events2[L + 1].from, id)
      BY <1>1, <1>4, <2>3
    <3> QED BY <2>3, <1>1, <3>1 DEF Closing
  <2> QED BY <2>1, <2>2, <2>3
<1>8. LiveOrClosing(n, conns, events2, procs2)
  <2>1. SUFFICES ASSUME NEW i \in 1 .. Len(conns)
                 PROVE  /\ NodeOf[conns[i].client] = n
                        /\ conns[i].run <= procs2[conns[i].client].run
                        /\ Lives(procs2, conns[i]) <=> ~Closing(events2, conns[i])
    BY DEF LiveOrClosing
  <2> DEFINE conn == conns[i]
  <2>2. /\ conn.client \in Clients
        /\ NodeOf[conn.client] = n /\ conn.run <= procs[conn.client].run
        /\ Lives(procs, conn) <=> ~Closing(events, conn)
    BY <1>2 DEF ConnsOk, LiveOrClosing
  <2> HIDE DEF conn
  <2>3. CASE Same(id0, conn)
    BY <1>3, <1>4, <1>6, <1>7, <2>2, <2>3 DEF Lives, Same, Closing, conn
  <2>4. CASE ~Same(id0, conn) /\ conn.client = c
    BY <1>3, <1>4, <1>7, <2>2, <2>4 DEF Lives, Same, conn
  <2>5. CASE conn.client # c
    BY <1>3, <1>4, <1>7, <2>2, <2>5 DEF Lives, Same, conn
  <2> QED BY <2>3, <2>4, <2>5 DEF conn
<1>9. EventsOfConns(conns, events2)
  <2>1. SUFFICES ASSUME NEW k \in 1 .. L + 1
                 PROVE  /\ Has(conns, events2[k].from)
                        /\ events2[k].kind = "eof" =>
                              \A j \in k + 1 .. L + 1 : ~Same(events2[j].from, events2[k].from)
    BY <1>1 DEF EventsOfConns
  <2>2. CASE k = L + 1
    BY <1>1, <1>4, <1>5, <2>2
  <2>3. CASE k \in 1 .. L
    <3>1. /\ events2[k] = events[k] /\ Has(conns, events[k].from)
          /\ events[k].kind = "eof" =>
                \A j \in k + 1 .. L : ~Same(events[j].from, events[k].from)
      BY <1>1, <2>3 DEF ConnsOk, EventsOfConns
    <3>2. events[k].kind = "eof" => ~Same(id0, events[k].from)
      BY <1>6, <2>3 DEF Closing, Same
    <3>3. ASSUME events[k].kind = "eof", NEW j \in k + 1 .. L + 1
          PROVE  ~Same(events2[j].from, events[k].from)
      <4>1. CASE j = L + 1
        BY <1>1, <1>4, <3>2, <3>3, <4>1
      <4>2. CASE j \in k + 1 .. L
        <5>1. j \in 1 .. L
          BY <1>1, <4>2, <2>3
        <5> QED BY <1>1, <3>1, <3>3, <4>2, <5>1
      <4>0. L \in Int /\ k \in Int
        BY <1>1
      <4> HIDE DEF L
      <4>3. j = L + 1 \/ j \in k + 1 .. L
        BY <4>0
      <4> QED BY <4>1, <4>2, <4>3
    <3> QED BY <3>1, <3>3
  <2> QED BY <1>1, <2>2, <2>3
<1>10. ProcessesHaveConns(n, conns, procs2)
  <2>1. SUFFICES ASSUME NEW d \in Clients, NodeOf[d] = n, procs2[d].state # "down"
                 PROVE  Has(conns, [client |-> d, run |-> procs2[d].run])
    BY DEF ProcessesHaveConns
  <2>2. CASE d = c
    BY <1>3, <1>4, <1>5, <2>2 DEF id0
  <2>3. CASE d # c
    BY <1>3, <2>1, <2>3 DEF ConnsOk, ProcessesHaveConns
  <2> QED BY <2>2, <2>3
<1> QED BY <1>8, <1>9, <1>10 DEF ConnsOk, events2, procs2

\* A request has been handled; it may have changed what a connection uses.
LEMMA ConnsRequest ==
    ASSUME NEW n, NEW conns \in Seq(Conns), NEW events \in Seq(Events), NEW procs,
           ConnsOk(n, conns, events, procs), events # <<>>, events[1].kind # "eof",
           NEW conns2, Len(conns2) = Len(conns),
           \A i \in 1 .. Len(conns) : Same(conns2[i], conns[i])
    PROVE  ConnsOk(n, conns2, Tail(events), procs)
<1> DEFINE L == Len(events)
           events2 == Tail(events)
<1>1. /\ L \in Nat /\ Len(events2) = L - 1 /\ 1 \in 1 .. L
      /\ \A i \in 1 .. L - 1 : events2[i] = events[i + 1] /\ i + 1 \in 1 .. L
  OBVIOUS
<1>2. /\ Len(conns2) = Len(conns)
      /\ \A i \in 1 .. Len(conns) : /\ conns2[i].client = conns[i].client
                                    /\ conns2[i].run = conns[i].run
  BY DEF Same
<1> HIDE DEF L, events2
<1>3. \A id : Has(conns2, id) <=> Has(conns, id)
  BY <1>2 DEF Has, Same
<1>4. \A id : Closing(events2, id) <=> Closing(events, id)
  <2>1. ASSUME NEW id, Closing(events2, id)
        PROVE  Closing(events, id)
    <3>1. PICK k \in 1 .. L - 1 : events2[k].kind = "eof" /\ Same(events2[k].from, id)
      BY <2>1, <1>1 DEF Closing
    <3> QED BY <3>1, <1>1 DEF Closing, L
  <2>2. ASSUME NEW id, Closing(events, id)
        PROVE  Closing(events2, id)
    <3>1. PICK k \in 1 .. L : events[k].kind = "eof" /\ Same(events[k].from, id)
      BY <2>2 DEF Closing, L
    <3>2. k # 1
      BY <3>1
    <3>3. k - 1 \in 1 .. L - 1 /\ (k - 1) + 1 = k
      BY <3>2, <1>1
    <3>4. events2[k - 1] = events[k]
      BY <3>3, <1>1
    <3> QED BY <3>1, <3>3, <3>4, <1>1 DEF Closing
  <2> QED BY <2>1, <2>2
<1>5. \A i \in 1 .. Len(conns) : /\ Closing(events2, conns2[i]) <=> Closing(events, conns[i])
                                 /\ Lives(procs, conns2[i]) <=> Lives(procs, conns[i])
  BY <1>2, <1>4 DEF Closing, Lives, Same
<1>6. UniqueConns(conns2)
  BY <1>2 DEF ConnsOk, UniqueConns, Same
<1>7. LiveOrClosing(n, conns2, events2, procs)
  BY <1>2, <1>5 DEF ConnsOk, LiveOrClosing
<1>8. EventsOfConns(conns2, events2)
  <2>1. SUFFICES ASSUME NEW k \in 1 .. L - 1
                 PROVE  /\ Has(conns2, events2[k].from)
                        /\ events2[k].kind = "eof" =>
                              \A j \in k + 1 .. L - 1 : ~Same(events2[j].from, events2[k].from)
    BY <1>1 DEF EventsOfConns
  <2>2. events2[k] = events[k + 1] /\ k + 1 \in 1 .. L
    BY <1>1
  <2>3. /\ Has(conns, events[k + 1].from)
        /\ events[k + 1].kind = "eof" =>
              \A j \in (k + 1) + 1 .. L : ~Same(events[j].from, events[k + 1].from)
    BY <2>2 DEF ConnsOk, EventsOfConns, L
  <2>4. \A j \in k + 1 .. L - 1 : /\ events2[j] = events[j + 1]
                                  /\ j + 1 \in (k + 1) + 1 .. L
    BY <1>1
  <2> QED BY <1>3, <2>2, <2>3, <2>4
<1>9. ProcessesHaveConns(n, conns2, procs)
  BY <1>3 DEF ConnsOk, ProcessesHaveConns
<1> QED BY <1>6, <1>7, <1>8, <1>9 DEF ConnsOk, events2

\* The connections that are left when one has been removed.
LEMMA HasAfterRemoval ==
    ASSUME NEW conns \in Seq(Conns), UniqueConns(conns), NEW i \in 1 .. Len(conns)
    PROVE  /\ \A id : Has(RemoveAt(conns, i), id) <=> Has(conns, id) /\ ~Same(conns[i], id)
           /\ \A k \in 1 .. Len(RemoveAt(conns, i)) : \E j \in 1 .. Len(conns) :
                 j # i /\ RemoveAt(conns, i)[k] = conns[j]
           /\ \A j \in 1 .. Len(conns) : j # i =>
                 \E k \in 1 .. Len(RemoveAt(conns, i)) : RemoveAt(conns, i)[k] = conns[j]
           /\ UniqueConns(RemoveAt(conns, i))
<1> DEFINE L == Len(conns)
           left == RemoveAt(conns, i)
<1>1. /\ L \in Nat /\ i \in 1 .. L /\ Len(left) = L - 1
      /\ \A j \in 1 .. L - 1 : left[j] = IF j < i THEN conns[j] ELSE conns[j + 1]
  <2>1. /\ Len(left) = L - 1
        /\ \A j \in 1 .. L - 1 : left[j] = IF j < i THEN conns[j] ELSE conns[j + 1]
    BY RemoveAtFacts
  <2> HIDE DEF left
  <2>2. L \in Nat /\ i \in 1 .. L
    OBVIOUS
  <2> QED BY <2>1, <2>2
<1>2. UniqueConns(conns) /\ L = Len(conns)
  OBVIOUS
<1> HIDE DEF L, left
<1>3. ASSUME NEW k \in 1 .. L - 1
      PROVE  \E j \in 1 .. L : j # i /\ left[k] = conns[j] /\ j = (IF k < i THEN k ELSE k + 1)
  <2>1. CASE k < i
    BY <1>1, <2>1
  <2>2. CASE ~(k < i)
    <3>1. k + 1 \in 1 .. L /\ k + 1 # i
      BY <1>1, <2>2
    <3> QED BY <1>1, <2>2, <3>1
  <2> QED BY <2>1, <2>2
<1>4. ASSUME NEW j \in 1 .. L, j # i
      PROVE  \E k \in 1 .. L - 1 : left[k] = conns[j]
  <2>1. CASE j < i
    <3>1. j \in 1 .. L - 1 /\ left[j] = conns[j]
      BY <1>1, <2>1
    <3> QED BY <3>1
  <2>2. CASE j > i
    <3>1. j - 1 \in 1 .. L - 1 /\ ~(j - 1 < i) /\ (j - 1) + 1 = j
      BY <1>1, <2>2
    <3>2. left[j - 1] = conns[j]
      BY <1>1, <3>1
    <3> QED BY <3>1, <3>2
  <2> QED BY <1>1, <1>4, <2>1, <2>2
<1>5. ASSUME NEW id
      PROVE  Has(left, id) <=> Has(conns, id) /\ ~Same(conns[i], id)
  <2>1. ASSUME Has(left, id)
        PROVE  Has(conns, id) /\ ~Same(conns[i], id)
    <3>1. PICK k \in 1 .. L - 1 : Same(left[k], id)
      BY <1>1, <2>1 DEF Has
    <3>2. PICK j \in 1 .. L : j # i /\ left[k] = conns[j]
      BY <1>3
    <3> QED BY <1>1, <1>2, <3>1, <3>2 DEF Has, UniqueConns, Same
  <2>2. ASSUME Has(conns, id), ~Same(conns[i], id)
        PROVE  Has(left, id)
    <3>1. PICK j \in 1 .. L : Same(conns[j], id)
      BY <1>2, <2>2 DEF Has
    <3>2. PICK k \in 1 .. L - 1 : left[k] = conns[j]
      BY <1>4, <2>2, <3>1
    <3> QED BY <1>1, <3>1, <3>2 DEF Has
  <2> QED BY <2>1, <2>2
<1>6. UniqueConns(left)
  <2>1. SUFFICES ASSUME NEW k \in 1 .. L - 1, NEW m \in 1 .. L - 1, Same(left[k], left[m])
                 PROVE  k = m
    BY <1>1 DEF UniqueConns
  <2>2. PICK j \in 1 .. L : left[k] = conns[j] /\ j = (IF k < i THEN k ELSE k + 1)
    BY <1>3
  <2>3. PICK l \in 1 .. L : left[m] = conns[l] /\ l = (IF m < i THEN m ELSE m + 1)
    BY <1>3
  <2>4. j = l
    BY <1>2, <2>1, <2>2, <2>3 DEF UniqueConns
  <2> QED BY <1>1, <2>2, <2>3, <2>4
<1> QED BY <1>1, <1>3, <1>4, <1>5, <1>6 DEF left, L

\* The end of a connection has been handled.
LEMMA ConnsRemoved ==
    ASSUME NEW n, NEW conns \in Seq(Conns), NEW events \in Seq(Events), NEW procs,
           ConnsOk(n, conns, events, procs), events # <<>>, events[1].kind = "eof",
           NEW i \in 1 .. Len(conns), Same(conns[i], events[1].from)
    PROVE  ConnsOk(n, RemoveAt(conns, i), Tail(events), procs)
<1> DEFINE L == Len(events)
           events2 == Tail(events)
           left == RemoveAt(conns, i)
<1>1. /\ L \in Nat /\ Len(events2) = L - 1 /\ 1 \in 1 .. L /\ L = Len(events)
      /\ \A k \in 1 .. L - 1 : events2[k] = events[k + 1] /\ k + 1 \in 1 .. L
  OBVIOUS
<1>2. UniqueConns(conns)
  BY DEF ConnsOk
<1>3. /\ \A id : Has(left, id) <=> Has(conns, id) /\ ~Same(conns[i], id)
      /\ \A k \in 1 .. Len(left) : \E j \in 1 .. Len(conns) : j # i /\ left[k] = conns[j]
      /\ UniqueConns(left)
  BY <1>2, HasAfterRemoval
<1> HIDE DEF L, events2, left
<1>4. \A k \in 2 .. L : ~Same(events[k].from, events[1].from)
  BY <1>1 DEF ConnsOk, EventsOfConns
<1>5. ASSUME NEW id, ~Same(conns[i], id)
      PROVE  Closing(events2, id) <=> Closing(events, id)
  <2>1. ASSUME Closing(events2, id)
        PROVE  Closing(events, id)
    <3>1. PICK k \in 1 .. L - 1 : events2[k].kind = "eof" /\ Same(events2[k].from, id)
      BY <2>1, <1>1 DEF Closing
    <3> QED BY <3>1, <1>1 DEF Closing
  <2>2. ASSUME Closing(events, id)
        PROVE  Closing(events2, id)
    <3>1. PICK k \in 1 .. L : events[k].kind = "eof" /\ Same(events[k].from, id)
      BY <2>2, <1>1 DEF Closing
    <3>2. k # 1
      BY <1>5, <3>1 DEF Same
    <3>3. k - 1 \in 1 .. L - 1 /\ (k - 1) + 1 = k
      BY <3>2, <1>1
    <3>4. events2[k - 1] = events[k]
      BY <3>3, <1>1
    <3> QED BY <3>1, <3>3, <3>4, <1>1 DEF Closing
  <2> QED BY <2>1, <2>2
<1>6. LiveOrClosing(n, left, events2, procs)
  <2>1. SUFFICES ASSUME NEW k \in 1 .. Len(left)
                 PROVE  /\ NodeOf[left[k].client] = n
                        /\ left[k].run <= procs[left[k].client].run
                        /\ Lives(procs, left[k]) <=> ~Closing(events2, left[k])
    BY DEF LiveOrClosing
  <2>2. PICK j \in 1 .. Len(conns) : j # i /\ left[k] = conns[j]
    BY <1>3
  <2>3. ~Same(conns[i], conns[j])
    BY <1>2, <2>2 DEF UniqueConns
  <2> QED BY <1>5, <2>2, <2>3 DEF ConnsOk, LiveOrClosing
<1>7. EventsOfConns(left, events2)
  <2>1. SUFFICES ASSUME NEW k \in 1 .. L - 1
                 PROVE  /\ Has(left, events2[k].from)
                        /\ events2[k].kind = "eof" =>
                              \A j \in k + 1 .. L - 1 : ~Same(events2[j].from, events2[k].from)
    BY <1>1 DEF EventsOfConns
  <2>2. events2[k] = events[k + 1] /\ k + 1 \in 1 .. L /\ k + 1 \in 2 .. L
    BY <1>1
  <2>3. /\ Has(conns, events[k + 1].from)
        /\ events[k + 1].kind = "eof" =>
              \A j \in (k + 1) + 1 .. L : ~Same(events[j].from, events[k + 1].from)
    BY <1>1, <2>2 DEF ConnsOk, EventsOfConns
  <2>4. \A j \in k + 1 .. L - 1 : /\ events2[j] = events[j + 1]
                                  /\ j + 1 \in (k + 1) + 1 .. L
    BY <1>1
  <2>5. ~Same(conns[i], events[k + 1].from)
    BY <1>4, <2>2 DEF Same
  <2> QED BY <1>3, <2>2, <2>3, <2>4, <2>5
<1>8. ProcessesHaveConns(n, left, procs)
  <2>1. SUFFICES ASSUME NEW d \in Clients, NodeOf[d] = n, procs[d].state # "down"
                 PROVE  Has(left, [client |-> d, run |-> procs[d].run])
    BY DEF ProcessesHaveConns
  <2>2. Has(conns, [client |-> d, run |-> procs[d].run])
    BY <2>1 DEF ConnsOk, ProcessesHaveConns
  <2>3. Closing(events, conns[i])
    BY <1>1 DEF Closing, Same
  <2>4. ~Lives(procs, conns[i])
    BY <2>3 DEF ConnsOk, LiveOrClosing
  <2>5. ~Same(conns[i], [client |-> d, run |-> procs[d].run])
    BY <2>1, <2>4 DEF Lives, Same
  <2> QED BY <1>3, <2>2, <2>5
<1> QED BY <1>3, <1>6, <1>7, <1>8 DEF ConnsOk, events2, left

LEMMA ConnsInit ==
    ASSUME ControlInit
    PROVE  ConnsInv
BY DEF ControlInit, ConnsInv, ConnsOk, UniqueConns, LiveOrClosing, EventsOfConns,
       ProcessesHaveConns

\* A node whose connections, inbox and processes stay as they are.
LEMMA ConnsFrame ==
    ASSUME NEW n, NEW conns \in Seq(Conns), NEW events, NEW procs, NEW procs2,
           ConnsOk(n, conns, events, procs),
           \A c \in Clients : NodeOf[c] = n =>
               /\ procs2[c].run = procs[c].run
               /\ procs2[c].state = "down" <=> procs[c].state = "down"
    PROVE  ConnsOk(n, conns, events, procs2)
<1>1. \A i \in 1 .. Len(conns) : conns[i].client \in Clients
  <2>1. \A i \in 1 .. Len(conns) : conns[i] \in Conns
    OBVIOUS
  <2> QED BY <2>1 DEF Conns
<1>2. \A i \in 1 .. Len(conns) : Lives(procs2, conns[i]) <=> Lives(procs, conns[i])
  BY <1>1 DEF ConnsOk, LiveOrClosing, Lives
<1>3. LiveOrClosing(n, conns, events, procs2)
  BY <1>1, <1>2 DEF ConnsOk, LiveOrClosing
<1>4. ProcessesHaveConns(n, conns, procs2)
  BY DEF ConnsOk, ProcessesHaveConns
<1> QED BY <1>3, <1>4 DEF ConnsOk

LEMMA ConnsUnchanged ==
    ASSUME NdTypes, ConnsInv, UNCHANGED <<nd, inbox>>,
           \A c \in Clients : /\ proc'[c].run = proc[c].run
                              /\ proc'[c].state = "down" <=> proc[c].state = "down"
    PROVE  ConnsInv'
<1>1. \A n \in Nodes : nd[n].conns \in Seq(Conns)
  BY DEF NdTypes, Daemons
<1>2. ASSUME NEW n \in Nodes, ConnsOk(n, nd[n].conns, inbox[n], proc)
      PROVE  ConnsOk(n, nd[n].conns, inbox[n], proc')
  BY <1>1, <1>2, ConnsFrame
<1> QED BY <1>2 DEF ConnsInv

LEMMA ConnsNextClient ==
    ASSUME TypesInv, ConnsInv, NEW c \in Clients,
           Start(c) \/ GetChannel(c) \/ ReadReply(c) \/ Exit(c) \/ Kill(c)
    PROVE  ConnsInv'
<1> DEFINE m == NodeOf[c]
<1>1. /\ m \in Nodes /\ nd[m] \in Daemons /\ nd[m].conns \in Seq(Conns)
      /\ inbox[m] \in Seq(Events) /\ proc \in [Clients -> Processes]
      /\ nd \in [Nodes -> Daemons] /\ inbox \in [Nodes -> Seq(Events)]
  BY ConstantTypes DEF TypesInv, NdTypes, Daemons, ClientTypes
<1>a. \A n \in Nodes : nd[n].conns \in Seq(Conns)
  BY DEF TypesInv, NdTypes, Daemons
<1>2. ASSUME NEW p, proc' = [proc EXCEPT ![c] = p], NEW n \in Nodes, n # m,
             nd'[n] = nd[n], inbox'[n] = inbox[n]
      PROVE  IF nd'[n].up THEN ConnsOk(n, nd'[n].conns, inbox'[n], proc')
                          ELSE nd'[n].conns = <<>> /\ inbox'[n] = <<>>
  <2>1. \A d \in Clients : NodeOf[d] = n => proc'[d] = proc[d]
    BY <1>1, <1>2
  <2>2. ConnsOk(n, nd[n].conns, inbox[n], proc) => ConnsOk(n, nd[n].conns, inbox[n], proc')
    BY <1>a, <2>1, ConnsFrame
  <2> QED BY <1>2, <2>2 DEF ConnsInv
<1>3. CASE Start(c)
  <2> DEFINE new == [client |-> c, run |-> proc[c].run + 1, tags |-> {}, pending |-> {}]
             p == [state |-> "ready", run |-> proc[c].run + 1, got |-> 0, fqp |-> NoFabricQp]
  <2>1. /\ proc[c].state = "down" /\ nd[m].up /\ proc' = [proc EXCEPT ![c] = p]
        /\ inbox' = inbox /\ nd' = [nd EXCEPT ![m].conns = Append(@, new)]
    BY <1>3 DEF Start
  <2>2. new.client = c /\ new.run = proc[c].run + 1 /\ p.state = "ready"
        /\ p.run = proc[c].run + 1
    OBVIOUS
  <2> HIDE DEF new, p
  <2>3. ConnsOk(m, Append(nd[m].conns, new), inbox[m], [proc EXCEPT ![c] = p])
    BY <1>1, <2>1, <2>2, ConnsStart DEF ConnsInv
  <2>4. nd'[m].up /\ nd'[m].conns = Append(nd[m].conns, new)
        /\ \A n \in Nodes : n # m => nd'[n] = nd[n]
    BY <1>1, <2>1 DEF Daemons
  <2>5. ASSUME NEW n \in Nodes
        PROVE  IF nd'[n].up THEN ConnsOk(n, nd'[n].conns, inbox'[n], proc')
                            ELSE nd'[n].conns = <<>> /\ inbox'[n] = <<>>
    <3>1. CASE n = m
      BY <2>1, <2>3, <2>4, <3>1
    <3>2. CASE n # m
      BY <1>2, <2>1, <2>4, <3>2
    <3> QED BY <3>1, <3>2
  <2> QED BY <2>5 DEF ConnsInv
<1>4. CASE GetChannel(c)
  <2> DEFINE e == [kind |-> "get", from |-> Id(c), tag |-> Program[proc[c].got + 1],
                   qp |-> QpNum(proc[c].run, proc[c].got + 1)]
             p == [state |-> "waiting", run |-> proc[c].run, got |-> proc[c].got,
                   fqp |-> proc[c].fqp]
  <2>1. /\ proc[c].state = "ready" /\ nd[m].up /\ nd' = nd
        /\ inbox' = [inbox EXCEPT ![m] = Append(@, e)]
    BY <1>4 DEF GetChannel
  <2>2. proc' = [proc EXCEPT ![c] = p]
    BY <1>4, StateStep DEF GetChannel, TypesInv
  <2>3. e.kind = "get" /\ e.from = [client |-> c, run |-> proc[c].run]
        /\ p.state = "waiting" /\ p.run = proc[c].run
    BY DEF Id
  <2> HIDE DEF e, p
  <2>4. ConnsOk(m, nd[m].conns, Append(inbox[m], e), [proc EXCEPT ![c] = p])
    BY <1>1, <2>1, <2>3, ConnsEvent DEF ConnsInv
  <2>5. inbox'[m] = Append(inbox[m], e) /\ \A n \in Nodes : n # m => inbox'[n] = inbox[n]
    BY <1>1, <2>1
  <2>6. ASSUME NEW n \in Nodes
        PROVE  IF nd'[n].up THEN ConnsOk(n, nd'[n].conns, inbox'[n], proc')
                            ELSE nd'[n].conns = <<>> /\ inbox'[n] = <<>>
    <3>1. CASE n = m
      BY <2>1, <2>2, <2>4, <2>5, <3>1
    <3>2. CASE n # m
      BY <1>2, <2>1, <2>2, <2>5, <3>2
    <3> QED BY <3>1, <3>2
  <2> QED BY <2>6 DEF ConnsInv
<1>5. CASE ReadReply(c)
  <2> DEFINE p == [state |-> "ready", run |-> proc[c].run, got |-> proc[c].got + 1,
                   fqp |-> Head(toClient[c])]
  <2>1. proc[c].state = "waiting" /\ UNCHANGED <<nd, inbox>> /\ proc' = [proc EXCEPT ![c] = p]
    BY <1>5 DEF ReadReply, ndVars
  <2>2. \A d \in Clients : /\ proc'[d].run = proc[d].run
                           /\ proc'[d].state = "down" <=> proc[d].state = "down"
    BY <1>1, <2>1
  <2> QED BY <2>1, <2>2, ConnsUnchanged DEF TypesInv
<1>6. CASE Exit(c) \/ Kill(c)
  <2> DEFINE e == [kind |-> "eof", from |-> Id(c)]
             p == [state |-> "down", run |-> proc[c].run, got |-> proc[c].got,
                   fqp |-> proc[c].fqp]
  <2>1. /\ proc[c].state # "down" /\ nd' = nd
        /\ inbox' = IF nd[m].up THEN [inbox EXCEPT ![m] = Append(@, e)] ELSE inbox
    BY <1>6 DEF Exit, Kill, End
  <2>2. proc' = [proc EXCEPT ![c] = p]
    BY <1>6, StateStep DEF Exit, Kill, End, TypesInv
  <2>3. e.kind = "eof" /\ e.from = [client |-> c, run |-> proc[c].run]
        /\ p.state = "down" /\ p.run = proc[c].run
    BY DEF Id
  <2> HIDE DEF e, p
  <2>4. \A n \in Nodes : n # m => inbox'[n] = inbox[n]
    BY <1>1, <2>1
  <2>5. CASE nd[m].up
    <3>1. ConnsOk(m, nd[m].conns, Append(inbox[m], e), [proc EXCEPT ![c] = p])
      BY <1>1, <2>1, <2>3, <2>5, ConnsEvent DEF ConnsInv
    <3>2. inbox'[m] = Append(inbox[m], e)
      BY <1>1, <2>1, <2>5
    <3>3. ASSUME NEW n \in Nodes
          PROVE  IF nd'[n].up THEN ConnsOk(n, nd'[n].conns, inbox'[n], proc')
                              ELSE nd'[n].conns = <<>> /\ inbox'[n] = <<>>
      <4>1. CASE n = m
        BY <2>1, <2>2, <2>5, <3>1, <3>2, <4>1
      <4>2. CASE n # m
        BY <1>2, <2>1, <2>2, <2>4, <4>2
      <4> QED BY <4>1, <4>2
    <3> QED BY <3>3 DEF ConnsInv
  <2>6. CASE ~nd[m].up
    <3>1. ASSUME NEW n \in Nodes
          PROVE  IF nd'[n].up THEN ConnsOk(n, nd'[n].conns, inbox'[n], proc')
                              ELSE nd'[n].conns = <<>> /\ inbox'[n] = <<>>
      <4>1. CASE n = m
        BY <2>1, <2>6, <4>1 DEF ConnsInv
      <4>2. CASE n # m
        BY <1>2, <2>1, <2>2, <2>4, <4>2
      <4> QED BY <4>1, <4>2
    <3> QED BY <3>1 DEF ConnsInv
  <2> QED BY <2>5, <2>6
<1> QED BY <1>3, <1>4, <1>5, <1>6

LEMMA ConnsNextDaemon ==
    ASSUME TypesInv, ConnsInv, NEW n \in Nodes,
           Discover(n) \/ NdClientEvent(n) \/ NdSwitchEvent(n) \/ SdEvent(n)
    PROVE  ConnsInv'
<1>1. /\ nd \in [Nodes -> Daemons] /\ inbox \in [Nodes -> Seq(Events)]
      /\ nd[n] \in Daemons /\ nd[n].conns \in Seq(Conns) /\ inbox[n] \in Seq(Events)
  BY DEF TypesInv, NdTypes, Daemons
<1>2. CASE Discover(n)
  <2>1. /\ nd' = [nd EXCEPT ![n].known = TRUE] /\ inbox' = inbox /\ proc' = proc
    BY <1>2 DEF Discover, clientVars
  <2>2. \A x \in Nodes : nd'[x].up = nd[x].up /\ nd'[x].conns = nd[x].conns
    BY <1>1, <2>1 DEF Daemons
  <2> QED BY <2>1, <2>2 DEF ConnsInv
<1>3. CASE NdClientEvent(n)
  <2> DEFINE e == Head(inbox[n])
  <2>1. /\ nd[n].up /\ inbox[n] # <<>> /\ inbox' = [inbox EXCEPT ![n] = Tail(@)]
        /\ proc' = proc
    BY <1>3 DEF NdClientEvent, clientVars
  <2>2. e \in Events /\ e = inbox[n][1] /\ 1 \in 1 .. Len(inbox[n])
    BY <1>1, <2>1
  <2>3. ConnsOk(n, nd[n].conns, inbox[n], proc)
    BY <2>1 DEF ConnsInv
  <2>4. Has(nd[n].conns, e.from)
    BY <2>2, <2>3 DEF ConnsOk, EventsOfConns
  <2>5. inbox'[n] = Tail(inbox[n]) /\ \A x \in Nodes : x # n => inbox'[x] = inbox[x]
    BY <1>1, <2>1
  <2>6. \/ e.kind = "get" /\ nd[n].known /\ NdGetChannel(n, e)
        \/ e.kind = "get" /\ nd' = nd
        \/ e.kind = "eof" /\ NdRemoveClient(n, e.from)
    BY <1>3, <2>2, EventKinds DEF NdClientEvent, NdGetChannel
  <2> HIDE DEF e
  <2>7. CASE e.kind = "get" /\ nd[n].known /\ NdGetChannel(n, e)
    <3> DEFINE i == ConnOf(n, e.from)
    <3>0. NdTypes /\ e.kind = "get" /\ nd[n].known /\ NdGetChannel(n, e)
      BY <2>7 DEF TypesInv
    <3>1. /\ \A x \in Nodes : nd'[x].up = nd[x].up
          /\ \A x \in Nodes : x # n => nd'[x].conns = nd[x].conns
      BY <2>2, <2>4, <3>0, NdGetChannelStep
    <3>2. /\ Len(nd'[n].conns) = Len(nd[n].conns)
          /\ \A j \in 1 .. Len(nd[n].conns) : j # i => nd'[n].conns[j] = nd[n].conns[j]
      BY <2>2, <2>4, <3>0, NdGetChannelStep
    <3>3. /\ nd'[n].conns[i].client = nd[n].conns[i].client
          /\ nd'[n].conns[i].run = nd[n].conns[i].run
      <4>1. nd'[n].conns[i] = [client |-> nd[n].conns[i].client,
                               run |-> nd[n].conns[i].run,
                               tags |-> nd[n].conns[i].tags \cup {e.tag},
                               pending |-> nd[n].conns[i].pending \cup {e.tag}]
        BY <2>2, <2>4, <3>0, NdGetChannelStep
      <4> QED BY <4>1
    <3> HIDE DEF i
    <3>4. \A j \in 1 .. Len(nd[n].conns) : Same(nd'[n].conns[j], nd[n].conns[j])
      BY <3>2, <3>3 DEF Same
    <3>5. ConnsOk(n, nd'[n].conns, Tail(inbox[n]), proc)
      <4>1. inbox[n][1].kind # "eof"
        BY <2>2, <3>0
      <4> QED BY <1>1, <2>1, <2>3, <3>2, <3>4, <4>1, ConnsRequest
    <3> QED BY <2>1, <2>5, <3>1, <3>5 DEF ConnsInv
  <2>8. CASE e.kind = "get" /\ nd' = nd
    <3>1. ConnsOk(n, nd[n].conns, Tail(inbox[n]), proc)
      <4>1. \A j \in 1 .. Len(nd[n].conns) : Same(nd[n].conns[j], nd[n].conns[j])
        BY DEF Same
      <4>2. inbox[n][1].kind # "eof"
        BY <2>2, <2>8
      <4> QED BY <1>1, <2>1, <2>3, <4>1, <4>2, ConnsRequest
    <3> QED BY <2>1, <2>5, <2>8, <3>1 DEF ConnsInv
  <2>9. CASE e.kind = "eof" /\ NdRemoveClient(n, e.from)
    <3> DEFINE i == ConnOf(n, e.from)
    <3>1. /\ i \in 1 .. Len(nd[n].conns) /\ Same(nd[n].conns[i], e.from)
          /\ \A x \in Nodes : nd'[x].up = nd[x].up
          /\ \A x \in Nodes : x # n => nd'[x].conns = nd[x].conns
          /\ nd'[n].conns = RemoveAt(nd[n].conns, i)
      BY <2>4, <2>9, NdRemoveClientStep DEF TypesInv
    <3> HIDE DEF i
    <3>2. ConnsOk(n, RemoveAt(nd[n].conns, i), Tail(inbox[n]), proc)
      BY <1>1, <2>1, <2>2, <2>3, <2>9, <3>1, ConnsRemoved
    <3> QED BY <2>1, <2>5, <3>1, <3>2 DEF ConnsInv
  <2> QED BY <2>6, <2>7, <2>8, <2>9
<1>4. CASE NdSwitchEvent(n)
  <2>1. proc' = proc /\ (UNCHANGED <<nd, inbox>> \/ NdDies(n))
    BY <1>4, NdSwitchEventStep
  <2>2. CASE UNCHANGED <<nd, inbox>>
    BY <2>1, <2>2 DEF ConnsInv
  <2>3. CASE NdDies(n)
    <3>1. /\ \A x \in Nodes : x # n => nd'[x] = nd[x] /\ inbox'[x] = inbox[x]
          /\ ~nd'[n].up /\ nd'[n].conns = <<>> /\ inbox'[n] = <<>>
      BY <2>3, NdDiesStep DEF TypesInv
    <3> QED BY <2>1, <3>1 DEF ConnsInv
  <2> QED BY <2>1, <2>2, <2>3
<1>5. CASE SdEvent(n)
  <2>1. UNCHANGED <<proc, nd, inbox>>
    BY <1>5, SdEventStep
  <2> QED BY <2>1 DEF ConnsInv
<1> QED BY <1>2, <1>3, <1>4, <1>5

-----------------------------------------------------------------------------
(* The inductive invariant of the types. *)

LEMMA TypesNext ==
    ASSUME TypesInv, ConnsInv, [ControlNext]_controlVars
    PROVE  TypesInv' /\ ConnsInv'
<1>1. ASSUME NEW c \in Clients,
             Start(c) \/ GetChannel(c) \/ ReadReply(c) \/ Exit(c) \/ Kill(c)
      PROVE  TypesInv' /\ ConnsInv'
  <2>1. ConnsInv'
    BY <1>1, ConnsNextClient
  <2>2. TypesInv'
    <3>1. CASE Start(c)
      BY <3>1, TypesStart
    <3>2. CASE GetChannel(c)
      BY <3>2, TypesGetChannel
    <3>3. CASE ReadReply(c)
      BY <3>3, TypesReadReply
    <3>4. CASE Exit(c)
      <4>1. End(c) /\ proc[c].state # "down"
        BY <3>4 DEF Exit
      <4> QED BY <4>1, TypesEnd
    <3>5. CASE Kill(c)
      <4>1. End(c) /\ proc[c].state # "down"
        BY <3>5 DEF Kill
      <4> QED BY <4>1, TypesEnd
    <3> QED BY <1>1, <3>1, <3>2, <3>3, <3>4, <3>5
  <2> QED BY <2>1, <2>2
<1>2. ASSUME NEW n \in Nodes,
             Discover(n) \/ NdClientEvent(n) \/ NdSwitchEvent(n) \/ SdEvent(n)
      PROVE  TypesInv' /\ ConnsInv'
  <2>1. ConnsInv'
    BY <1>2, ConnsNextDaemon
  <2>2. TypesInv'
    <3>1. CASE Discover(n)
      BY <3>1, TypesDiscover
    <3>2. CASE NdClientEvent(n)
      <4>1. EventsOfConns(nd[n].conns, inbox[n])
        BY <3>2 DEF NdClientEvent, ConnsInv, ConnsOk
      <4> QED BY <3>2, <4>1, TypesNdClientEvent
    <3>3. CASE NdSwitchEvent(n)
      BY <3>3, TypesNdSwitchEvent
    <3>4. CASE SdEvent(n)
      BY <3>4, TypesSdEvent
    <3> QED BY <1>2, <3>1, <3>2, <3>3, <3>4
  <2> QED BY <2>1, <2>2
<1>3. ASSUME UNCHANGED controlVars
      PROVE  TypesInv' /\ ConnsInv'
  BY <1>3 DEF controlVars, clientVars, ndVars, sdVars, TypesInv, ClientTypes, NdTypes, SdTypes,
              ConnsInv
<1> QED BY <1>1, <1>2, <1>3 DEF ControlNext, AllEnded

LEMMA TypesHold == ControlSpec => [](TypesInv /\ ConnsInv)
<1>1. ControlInit => TypesInv /\ ConnsInv
  BY TypesInit, ConnsInit
<1>2. TypesInv /\ ConnsInv /\ [ControlNext]_controlVars => (TypesInv /\ ConnsInv)'
  BY TypesNext
<1> QED BY <1>1, <1>2, PTL DEF ControlSpec

LEMMA TypesImply ==
    ASSUME TypesInv
    PROVE  ControlTypeOK
<1>1. /\ proc \in [Clients -> Processes]
      /\ \A c \in Clients : toClient[c] \in Seq(FabricQps)
  BY DEF TypesInv, ClientTypes
<1>2. ASSUME NEW n \in Nodes
      PROVE  /\ nd[n].up \in BOOLEAN /\ nd[n].known \in BOOLEAN
             /\ nd[n].conns \in Seq(Conns)
             /\ fromSd[n] \in Seq(Responses({n}, AllTags))
  BY DEF TypesInv, NdTypes, SdTypes, Daemons
<1>3. /\ sdUp \in BOOLEAN /\ owns \in [Nodes -> SUBSET AllTags]
      /\ Tags(channels) \subseteq AllTags /\ nextCommon \in 0 .. MaxCommon
  BY DEF TypesInv, SdTypes
<1>4. ASSUME NEW t \in Tags(channels)
      PROVE  /\ channels[t].common \in 1 .. MaxCommon
             /\ channels[t].unit \in 0 .. MaxUnits - 1
             /\ channels[t].parts \in
                   [Clients -> {Unknown} \cup [node : Nodes, qp : QpNums, fqp : FabricQps]]
  <2>1. channels[t] \in Channels
    BY DEF TypesInv, SdTypes
  <2> QED BY <2>1 DEF Channels, Participants
<1> QED BY <1>1, <1>2, <1>3, <1>4 DEF ControlTypeOK, Processes, Conns, Responses

\* Types; common parts and units stay in their ranges, whatever happens to
\* processes and daemons.
THEOREM ControlTypes == ControlSpec => []ControlTypeOK
<1>1. TypesInv => ControlTypeOK
  BY TypesImply
<1> QED BY <1>1, TypesHold, PTL

-----------------------------------------------------------------------------
(* What the agent will count a node daemon as an owner of.                  *)

IsGet(msg, t) == msg.kind = "get" /\ msg.tag = t

WillKeep(own, msgs, t) ==
    \/ t \in own /\ Lasts(msgs, 1, t)
    \/ \E k \in 1 .. Len(msgs) : IsGet(msgs[k], t) /\ Lasts(msgs, k + 1, t)

LEMMA WillOwnKeeps ==
    ASSUME NEW n \in Nodes, NEW t
    PROVE  t \in WillOwn(n) <=> WillKeep(owns[n], toSd[n], t)
BY DEF WillOwn, WillKeep, IsGet

\* A request makes the daemon an owner in the end.
LEMMA KeepsRequested ==
    ASSUME NEW own, NEW msgs \in Seq(Messages), NEW m \in Messages, m.kind = "get", NEW t
    PROVE  WillKeep(own, Append(msgs, m), t) <=> WillKeep(own, msgs, t) \/ m.tag = t
<1> DEFINE L == Len(msgs)
           msgs2 == Append(msgs, m)
<1>1. /\ L \in Nat /\ Len(msgs2) = L + 1 /\ msgs2[L + 1] = m /\ L = Len(msgs)
      /\ \A i \in 1 .. L : msgs2[i] = msgs[i]
  OBVIOUS
<1>2. ~Ends(m, t)
  BY DEF Ends
<1> HIDE DEF L, msgs2
<1>3. \A k \in 1 .. L + 1 : Lasts(msgs2, k, t) <=> Lasts(msgs, k, t)
  <2>1. SUFFICES ASSUME NEW k \in 1 .. L + 1
                 PROVE  Lasts(msgs2, k, t) <=> Lasts(msgs, k, t)
    OBVIOUS
  <2>2. \A j \in k .. L : j \in 1 .. L /\ j \in k .. L + 1
    BY <1>1
  <2>3. \A j \in k .. L + 1 : j = L + 1 \/ j \in k .. L
    BY <1>1
  <2> QED BY <1>1, <1>2, <2>2, <2>3 DEF Lasts
<1>4. Lasts(msgs2, L + 2, t)
  BY <1>1 DEF Lasts
<1>5. WillKeep(own, msgs2, t) => WillKeep(own, msgs, t) \/ m.tag = t
  <2>1. ASSUME NEW k \in 1 .. L + 1, IsGet(msgs2[k], t), Lasts(msgs2, k + 1, t), m.tag # t
        PROVE  WillKeep(own, msgs, t)
    <3>1. k \in 1 .. L
      BY <1>1, <2>1 DEF IsGet
    <3>2. k + 1 \in 1 .. L + 1
      BY <1>1, <3>1
    <3> QED BY <1>1, <1>3, <2>1, <3>1, <3>2 DEF WillKeep
  <2>2. 1 \in 1 .. L + 1
    BY <1>1
  <2> QED BY <1>1, <1>3, <2>1, <2>2 DEF WillKeep
<1>6. m.tag = t => WillKeep(own, msgs2, t)
  <2>1. L + 1 \in 1 .. L + 1 /\ (L + 1) + 1 = L + 2
    BY <1>1
  <2> QED BY <1>1, <1>4, <2>1 DEF WillKeep, IsGet
<1>7. WillKeep(own, msgs, t) => WillKeep(own, msgs2, t)
  <2>1. ASSUME NEW k \in 1 .. L, IsGet(msgs[k], t), Lasts(msgs, k + 1, t)
        PROVE  WillKeep(own, msgs2, t)
    <3>1. k + 1 \in 1 .. L + 1 /\ k \in 1 .. L + 1
      BY <1>1
    <3> QED BY <1>1, <1>3, <2>1, <3>1 DEF WillKeep
  <2>2. 1 \in 1 .. L + 1
    BY <1>1
  <2> QED BY <1>1, <1>3, <2>1, <2>2 DEF WillKeep
<1> QED BY <1>5, <1>6, <1>7 DEF msgs2

\* Messages that request nothing: what they end is owned no more.
LEMMA KeepsNotEnded ==
    ASSUME NEW own, NEW msgs \in Seq(Messages), NEW more \in Seq(Messages), NEW t,
           \A k \in 1 .. Len(more) : more[k].kind # "get"
    PROVE  WillKeep(own, msgs \o more, t) <=> WillKeep(own, msgs, t) /\ Lasts(more, 1, t)
<1> DEFINE L == Len(msgs)
           M == Len(more)
           msgs2 == msgs \o more
<1>1. /\ L \in Nat /\ M \in Nat /\ L = Len(msgs) /\ M = Len(more)
  OBVIOUS
<1>2. /\ Len(msgs2) = L + M
      /\ \A i \in 1 .. L : msgs2[i] = msgs[i]
      /\ \A i \in 1 .. M : msgs2[L + i] = more[i]
  OBVIOUS
<1> HIDE DEF L, M, msgs2
<1>3. ASSUME NEW k \in 1 .. L + 1
      PROVE  Lasts(msgs2, k, t) <=> Lasts(msgs, k, t) /\ Lasts(more, 1, t)
  <2>1. \A j \in k .. L : j \in 1 .. L /\ j \in k .. L + M
    BY <1>1
  <2>2. \A j \in 1 .. M : L + j \in k .. L + M
    BY <1>1
  <2>3. ASSUME NEW j \in k .. L + M
        PROVE  j \in k .. L \/ \E i \in 1 .. M : j = L + i
    <3>1. CASE j <= L
      BY <1>1, <3>1
    <3>2. CASE j > L
      <4>1. j - L \in 1 .. M /\ j = L + (j - L)
        BY <1>1, <3>2
      <4> QED BY <4>1
    <3> QED BY <1>1, <3>1, <3>2
  <2>4. Lasts(msgs2, k, t) => Lasts(msgs, k, t) /\ Lasts(more, 1, t)
    BY <1>1, <1>2, <2>1, <2>2 DEF Lasts
  <2>5. Lasts(msgs, k, t) /\ Lasts(more, 1, t) => Lasts(msgs2, k, t)
    <3>1. SUFFICES ASSUME Lasts(msgs, k, t), Lasts(more, 1, t), NEW j \in k .. L + M
                   PROVE  ~Ends(msgs2[j], t)
      BY <1>2 DEF Lasts
    <3>2. CASE j \in k .. L
      <4>1. msgs2[j] = msgs[j]
        BY <1>2, <2>1, <3>2
      <4> QED BY <1>1, <3>1, <3>2, <4>1 DEF Lasts
    <3>3. CASE \E i \in 1 .. M : j = L + i
      BY <1>1, <1>2, <3>1, <3>3 DEF Lasts
    <3> QED BY <2>3, <3>2, <3>3
  <2> QED BY <2>4, <2>5
<1>4. \A k \in 1 .. L + M : IsGet(msgs2[k], t) => k \in 1 .. L
  <2>1. SUFFICES ASSUME NEW k \in 1 .. L + M, k \notin 1 .. L
                 PROVE  ~IsGet(msgs2[k], t)
    OBVIOUS
  <2>2. k - L \in 1 .. M /\ L + (k - L) = k
    BY <1>1, <2>1
  <2>3. msgs2[k] = more[k - L]
    BY <1>2, <2>2
  <2> QED BY <1>1, <2>2, <2>3 DEF IsGet
<1>5. WillKeep(own, msgs2, t) => WillKeep(own, msgs, t) /\ Lasts(more, 1, t)
  <2>1. ASSUME NEW k \in 1 .. L, IsGet(msgs2[k], t), Lasts(msgs2, k + 1, t)
        PROVE  WillKeep(own, msgs, t) /\ Lasts(more, 1, t)
    <3>1. k + 1 \in 1 .. L + 1
      BY <1>1
    <3> QED BY <1>1, <1>2, <1>3, <2>1, <3>1 DEF WillKeep
  <2>2. 1 \in 1 .. L + 1
    BY <1>1
  <2> QED BY <1>1, <1>2, <1>3, <1>4, <2>1, <2>2 DEF WillKeep
<1>6. WillKeep(own, msgs, t) /\ Lasts(more, 1, t) => WillKeep(own, msgs2, t)
  <2>1. ASSUME NEW k \in 1 .. L, IsGet(msgs[k], t), Lasts(msgs, k + 1, t), Lasts(more, 1, t)
        PROVE  WillKeep(own, msgs2, t)
    <3>1. k + 1 \in 1 .. L + 1 /\ k \in 1 .. L + M
      BY <1>1
    <3> QED BY <1>1, <1>2, <1>3, <2>1, <3>1 DEF WillKeep
  <2>2. 1 \in 1 .. L + 1
    BY <1>1
  <2> QED BY <1>1, <1>3, <2>1, <2>2 DEF WillKeep
<1> QED BY <1>5, <1>6 DEF msgs2

\* Handling a message makes what it says come true.
LEMMA KeepsHandled ==
    ASSUME NEW own, NEW own2, NEW msgs \in Seq(Messages), msgs # <<>>,
           NEW rest \in AfterOne(msgs), NEW t,
           t \in own2 <=> IsGet(msgs[1], t) \/ (t \in own /\ ~Ends(msgs[1], t))
    PROVE  WillKeep(own2, rest, t) <=> WillKeep(own, msgs, t)
<1> DEFINE L == Len(msgs)
<1>0. L \in Nat /\ L = Len(msgs) /\ 1 \in 1 .. L
  OBVIOUS
<1>a. /\ rest \in Seq(Messages)
      /\ \/ rest = Tail(msgs)
         \/ Len(rest) = 1 /\ rest[1].kind = "eof" /\ L > 1 /\ msgs[L].kind \in {"eof", "reset"}
  BY AfterOneFacts
<1> HIDE DEF L
<1>1. CASE rest = Tail(msgs)
  <2>1. Len(rest) = L - 1 /\ \A j \in 1 .. L - 1 : rest[j] = msgs[j + 1]
    BY <1>0, <1>1
  <2>2. ASSUME NEW k \in 1 .. L
        PROVE  Lasts(rest, k, t) <=> Lasts(msgs, k + 1, t)
    <3>1. \A j \in k .. L - 1 : j + 1 \in k + 1 .. L /\ j \in 1 .. L - 1
      BY <1>0
    <3>2. \A j \in k + 1 .. L : j - 1 \in k .. L - 1 /\ (j - 1) + 1 = j /\ j - 1 \in 1 .. L - 1
      BY <1>0
    <3>3. Lasts(msgs, k + 1, t) => Lasts(rest, k, t)
      BY <1>0, <2>1, <3>1 DEF Lasts
    <3>4. ASSUME Lasts(rest, k, t), NEW j \in k + 1 .. L
          PROVE  ~Ends(msgs[j], t)
      <4>1. rest[j - 1] = msgs[j]
        BY <2>1, <3>2
      <4> QED BY <1>0, <2>1, <3>2, <3>4, <4>1 DEF Lasts
    <3> QED BY <1>0, <3>3, <3>4 DEF Lasts
  <2>3. Lasts(msgs, 1, t) <=> ~Ends(msgs[1], t) /\ Lasts(msgs, 2, t)
    <3>1. \A j \in 1 .. L : j = 1 \/ j \in 2 .. L
      BY <1>0
    <3>2. \A j \in 2 .. L : j \in 1 .. L
      BY <1>0
    <3> QED BY <1>0, <3>1, <3>2 DEF Lasts
  <2>4. Lasts(rest, 1, t) <=> Lasts(msgs, 2, t)
    BY <1>0, <2>2
  <2>5. (\E k \in 1 .. L : IsGet(msgs[k], t) /\ Lasts(msgs, k + 1, t))
          <=> \/ IsGet(msgs[1], t) /\ Lasts(msgs, 2, t)
              \/ \E k \in 1 .. L - 1 : IsGet(rest[k], t) /\ Lasts(rest, k + 1, t)
    <3>1. ASSUME NEW k \in 1 .. L, IsGet(msgs[k], t), Lasts(msgs, k + 1, t), k # 1
          PROVE  \E j \in 1 .. L - 1 : IsGet(rest[j], t) /\ Lasts(rest, j + 1, t)
      <4>1. k - 1 \in 1 .. L - 1 /\ (k - 1) + 1 = k
        BY <1>0, <3>1
      <4>2. rest[k - 1] = msgs[k] /\ Lasts(rest, k, t)
        BY <2>1, <2>2, <3>1, <4>1
      <4> QED BY <3>1, <4>1, <4>2
    <3>2. ASSUME NEW k \in 1 .. L - 1, IsGet(rest[k], t), Lasts(rest, k + 1, t)
          PROVE  \E j \in 1 .. L : IsGet(msgs[j], t) /\ Lasts(msgs, j + 1, t)
      <4>1. k + 1 \in 1 .. L
        BY <1>0
      <4> QED BY <2>1, <2>2, <3>2, <4>1
    <3>3. 1 + 1 = 2
      OBVIOUS
    <3> QED BY <1>0, <3>1, <3>2, <3>3
  <2>6. WillKeep(own2, rest, t) <=>
          \/ t \in own2 /\ Lasts(rest, 1, t)
          \/ \E k \in 1 .. L - 1 : IsGet(rest[k], t) /\ Lasts(rest, k + 1, t)
    BY <2>1 DEF WillKeep
  <2>7. WillKeep(own, msgs, t) <=>
          \/ t \in own /\ Lasts(msgs, 1, t)
          \/ \E k \in 1 .. L : IsGet(msgs[k], t) /\ Lasts(msgs, k + 1, t)
    BY <1>0 DEF WillKeep
  <2> QED BY <2>3, <2>4, <2>5, <2>6, <2>7
<1>2. CASE Len(rest) = 1 /\ rest[1].kind = "eof" /\ L > 1 /\ msgs[L].kind \in {"eof", "reset"}
  <2>1. ~WillKeep(own2, rest, t)
    BY <1>2 DEF WillKeep, Lasts, Ends, IsGet
  <2>2. Ends(msgs[L], t) /\ ~IsGet(msgs[L], t)
    BY <1>2 DEF Ends, IsGet
  <2>3. ~Lasts(msgs, 1, t)
    BY <1>0, <2>2 DEF Lasts
  <2>4. ASSUME NEW k \in 1 .. L, IsGet(msgs[k], t)
        PROVE  ~Lasts(msgs, k + 1, t)
    <3>1. L \in k + 1 .. L
      BY <1>0, <2>2, <2>4
    <3> QED BY <1>0, <2>2, <3>1 DEF Lasts
  <2> QED BY <1>0, <2>1, <2>3, <2>4 DEF WillKeep
<1> QED BY <1>a, <1>1, <1>2

\* The agent's side: what a daemon is an owner of, and which channels there are.
OwnersInv ==
    sdUp => \A n \in Nodes : \A t : t \in Users(n) <=> WillKeep(owns[n], toSd[n], t)

OwnedInv == sdUp => \A t : t \in Tags(channels) <=> \E n \in Nodes : t \in owns[n]

\* A node daemon whose connections use what they used.
LEMMA SameUsers ==
    ASSUME NEW n, NEW t, Len(nd'[n].conns) = Len(nd[n].conns),
           \A i \in 1 .. Len(nd[n].conns) : nd'[n].conns[i].tags = nd[n].conns[i].tags
    PROVE  t \in Users(n)' <=> t \in Users(n)
BY DEF Users

LEMMA UsersAre ==
    ASSUME NEW n, NEW t
    PROVE  t \in Users(n) <=> \E i \in 1 .. Len(nd[n].conns) : t \in nd[n].conns[i].tags
BY DEF Users

\* check_remove_channel: what it removes exists, and what is left is owned.
LEMMA RemovesUnowned ==
    ASSUME SdTypes, sdUp, OwnedInv, NEW n \in Nodes, NEW tags \in SUBSET owns[n],
           owns' = [owns EXCEPT ![n] = @ \ tags], RemoveUnowned(tags)
    PROVE  /\ ~UpdateFails(tables, channels') => sdUp'
           /\ OwnedInv'
           /\ \A t : t \in Tags(channels)' => t \in Tags(channels) /\ channels'[t] = channels[t]
<1> DEFINE unowned == Unowned(tags, owns')
<1>1. /\ channels' = [t \in Tags(channels) \ unowned |-> channels[t]]
      /\ unowned \subseteq Tags(channels) /\ ~UpdateFails(tables, channels') => sdUp'
  BY DEF RemoveUnowned, RemoveChannels, Restrict
<1>2. /\ owns'[n] = owns[n] \ tags
      /\ \A x \in Nodes : x # n => owns'[x] = owns[x]
  BY DEF SdTypes
<1>3. \A t : t \in unowned <=> t \in tags /\ \A x \in Nodes : t \notin owns'[x]
  BY DEF Unowned
<1> HIDE DEF unowned
<1>4. unowned \subseteq Tags(channels)
  BY <1>3 DEF OwnedInv
<1>5. \A t : t \in Tags(channels)' <=> t \in Tags(channels) /\ t \notin unowned
  BY <1>1 DEF Tags
<1>6. ASSUME NEW t
      PROVE  t \in Tags(channels)' <=> \E x \in Nodes : t \in owns'[x]
  <2>1. ASSUME t \in Tags(channels), t \notin unowned
        PROVE  \E x \in Nodes : t \in owns'[x]
    <3>1. PICK x \in Nodes : t \in owns[x]
      BY <2>1 DEF OwnedInv
    <3> QED BY <1>2, <1>3, <2>1, <3>1
  <2>2. ASSUME NEW x \in Nodes, t \in owns'[x]
        PROVE  t \in Tags(channels) /\ t \notin unowned
    <3>1. t \in owns[x]
      BY <1>2, <2>2
    <3> QED BY <1>3, <2>2, <3>1 DEF OwnedInv
  <2> QED BY <1>5, <2>1, <2>2
<1>7. ~UpdateFails(tables, channels') => sdUp'
  BY <1>1, <1>4
<1>8. OwnedInv'
  BY <1>6 DEF OwnedInv
<1> QED BY <1>1, <1>5, <1>7, <1>8

\* What an event of the agent does to owners and channels.
LEMMA SdEventOwners ==
    ASSUME TypesInv, OwnedInv, NEW n \in Nodes, SdEvent(n), sdUp'
    PROVE  /\ OwnedInv'
           /\ \A x \in Nodes : x # n => owns'[x] = owns[x]
           /\ \A t : t \in owns'[n] <=>
                 IsGet(toSd[n][1], t) \/ (t \in owns[n] /\ ~Ends(toSd[n][1], t))
<1> DEFINE msg == Head(toSd[n])
<1>1. /\ sdUp /\ msg \in Messages /\ msg = toSd[n][1]
      /\ \/ /\ msg.kind = "get"
            /\ msg.tag \in Tags(channels) \/ CanAllocate(channels)
            /\ SdGetChannel(n, msg)
         \/ SdFails
         \/ msg.kind = "unref" /\ SdUnrefChannel(n, msg.tag)
         \/ msg.kind = "eof" /\ SdDisconnect(n)
  BY SdEventStep
<1> HIDE DEF msg
<1>2. SdTypes /\ owns \in [Nodes -> SUBSET AllTags]
  BY DEF TypesInv, SdTypes
<1>3. ~SdFails
  BY DEF SdFails
<1>4. CASE /\ msg.kind = "get"
           /\ msg.tag \in Tags(channels) \/ CanAllocate(channels)
           /\ SdGetChannel(n, msg)
  <2>0. msg.kind = "get" /\ (msg.tag \in Tags(channels) \/ CanAllocate(channels))
    BY <1>4
  <2>1. owns' = [owns EXCEPT ![n] = @ \cup {msg.tag}] /\ channels' = UpdatedFor(n, msg)
    BY <1>4, SdGetParts
  <2>2. UpdatedFor(n, msg) \in [Tags(channels) \cup {msg.tag} -> Channels]
    BY <1>1, <1>2, <2>0, RegisteringTypes
  <2>3. \A t : t \in Tags(channels)' <=> t \in Tags(channels) \/ t = msg.tag
    BY <2>1, <2>2 DEF Tags
  <2>4. /\ \A t : t \in owns'[n] <=> t \in owns[n] \/ t = msg.tag
        /\ \A x \in Nodes : x # n => owns'[x] = owns[x]
    BY <1>2, <2>1
  <2>5. OwnedInv'
    <3>1. ASSUME NEW t
          PROVE  t \in Tags(channels)' <=> \E x \in Nodes : t \in owns'[x]
      <4>1. t \in Tags(channels) <=> \E x \in Nodes : t \in owns[x]
        BY <1>1 DEF OwnedInv
      <4> QED BY <2>3, <2>4, <4>1
    <3> QED BY <3>1 DEF OwnedInv
  <2> QED BY <1>1, <1>4, <2>4, <2>5 DEF IsGet, Ends
<1>5. CASE msg.kind = "unref" /\ SdUnrefChannel(n, msg.tag)
  <2>1. CASE msg.tag \in owns[n]
    <3> DEFINE tags == {msg.tag}
    <3>1. owns' = [owns EXCEPT ![n] = @ \ tags] /\ RemoveUnowned(tags) /\ tags \in SUBSET owns[n]
      BY <1>5, <2>1 DEF SdUnrefChannel
    <3>2. \A t : t \in tags <=> t = msg.tag
      OBVIOUS
    <3> HIDE DEF tags
    <3>3. OwnedInv'
      BY <1>1, <1>2, <3>1, RemovesUnowned
    <3>4. /\ \A t : t \in owns'[n] <=> t \in owns[n] /\ t # msg.tag
          /\ \A x \in Nodes : x # n => owns'[x] = owns[x]
      BY <1>2, <3>1, <3>2
    <3> QED BY <1>1, <1>5, <3>3, <3>4 DEF IsGet, Ends
  <2>2. CASE msg.tag \notin owns[n]
    <3>1. UNCHANGED <<sdUp, owns, channels>>
      BY <1>5, <2>2 DEF SdUnrefChannel, sdVars
    <3> QED BY <1>1, <1>5, <2>2, <3>1 DEF IsGet, Ends, OwnedInv, Tags
  <2> QED BY <2>1, <2>2
<1>6. CASE msg.kind = "eof" /\ SdDisconnect(n)
  <2>1. /\ owns' = [owns EXCEPT ![n] = {}] /\ RemoveUnowned(owns[n])
        /\ owns' = [owns EXCEPT ![n] = @ \ owns[n]] /\ owns[n] \in SUBSET owns[n]
    BY <1>6 DEF SdDisconnect
  <2>2. OwnedInv'
    BY <1>1, <1>2, <2>1, RemovesUnowned
  <2>3. owns'[n] = {} /\ \A x \in Nodes : x # n => owns'[x] = owns[x]
    BY <1>2, <2>1
  <2> QED BY <1>1, <1>6, <2>2, <2>3 DEF IsGet, Ends
<1> QED BY <1>1, <1>3, <1>4, <1>5, <1>6

\* Where nobody's channels nor messages change, nothing changes.
LEMMA OwnersFrame ==
    ASSUME OwnersInv, UNCHANGED <<sdUp, owns, toSd>>,
           sdUp => \A n \in Nodes : \A t : t \in Users(n)' <=> t \in Users(n)
    PROVE  OwnersInv'
<1>1. SUFFICES ASSUME sdUp', NEW n \in Nodes, NEW t
               PROVE  t \in Users(n)' <=> WillKeep(owns'[n], toSd'[n], t)
  BY DEF OwnersInv
<1>2. t \in Users(n) <=> WillKeep(owns[n], toSd[n], t)
  BY <1>1 DEF OwnersInv
<1>3. t \in Users(n)' <=> t \in Users(n)
  BY <1>1
<1> QED BY <1>2, <1>3

\* Where one node daemon changes.
LEMMA OwnersOfOne ==
    ASSUME OwnersInv, NEW n \in Nodes, UNCHANGED <<sdUp, owns>>,
           \A x \in Nodes : x # n => nd'[x].conns = nd[x].conns /\ toSd'[x] = toSd[x],
           \A t : t \in Users(n)' <=> WillKeep(owns[n], toSd'[n], t)
    PROVE  OwnersInv'
<1>1. SUFFICES ASSUME sdUp', NEW x \in Nodes, NEW t
               PROVE  t \in Users(x)' <=> WillKeep(owns'[x], toSd'[x], t)
  BY DEF OwnersInv
<1>2. CASE x = n
  BY <1>2
<1>3. CASE x # n
  <2>1. t \in Users(x) <=> WillKeep(owns[x], toSd[x], t)
    BY <1>1 DEF OwnersInv
  <2>2. t \in Users(x)' <=> t \in Users(x)
    BY <1>3 DEF Users
  <2> QED BY <1>3, <2>1, <2>2
<1> QED BY <1>2, <1>3

\* The channels that the end of a connection leaves without a user.
LEMMA UsersAfterRemoval ==
    ASSUME NEW conns \in Seq(Conns), UniqueConns(conns), NEW i \in 1 .. Len(conns), NEW t
    PROVE  (\E j \in 1 .. Len(RemoveAt(conns, i)) : t \in RemoveAt(conns, i)[j].tags)
              <=> (\E j \in 1 .. Len(conns) : t \in conns[j].tags) /\ t \notin Unused(conns, i)
<1> DEFINE left == RemoveAt(conns, i)
<1>1. /\ \A k \in 1 .. Len(left) : \E j \in 1 .. Len(conns) : j # i /\ left[k] = conns[j]
      /\ \A j \in 1 .. Len(conns) : j # i => \E k \in 1 .. Len(left) : left[k] = conns[j]
  BY HasAfterRemoval
<1> HIDE DEF left
<1>2. t \in Unused(conns, i) <=>
        t \in conns[i].tags /\ \A j \in 1 .. Len(conns) : j # i => t \notin conns[j].tags
  BY DEF Unused
<1>3. (\E j \in 1 .. Len(left) : t \in left[j].tags)
        <=> \E j \in 1 .. Len(conns) : j # i /\ t \in conns[j].tags
  BY <1>1
<1> QED BY <1>2, <1>3 DEF left

LEMMA OwnersClientEvent ==
    ASSUME TypesInv, ConnsInv, OwnersInv, NEW n \in Nodes, NdClientEvent(n), sdUp
    PROVE  OwnersInv'
<1> DEFINE e == Head(inbox[n])
<1>1. /\ nd[n].up /\ inbox[n] # <<>> /\ UNCHANGED <<sdUp, owns>>
      /\ inbox[n] \in Seq(Events) /\ nd[n].conns \in Seq(Conns)
      /\ toSd[n] \in Seq(Messages) /\ toSd \in [Nodes -> Seq(Messages)]
  BY DEF NdClientEvent, sdVars, TypesInv, NdTypes, Daemons
<1>2. e \in Events /\ e = inbox[n][1] /\ 1 \in 1 .. Len(inbox[n])
  BY <1>1
<1>3. ConnsOk(n, nd[n].conns, inbox[n], proc)
  BY <1>1 DEF ConnsInv
<1>4. Has(nd[n].conns, e.from) /\ UniqueConns(nd[n].conns)
  BY <1>2, <1>3 DEF ConnsOk, EventsOfConns
<1>5. \/ e.kind = "get" /\ nd[n].known /\ NdGetChannel(n, e)
      \/ UNCHANGED <<nd, toSd>>
      \/ NdRemoveClient(n, e.from)
  BY <1>2, EventKinds DEF NdClientEvent, NdGetChannel
<1> HIDE DEF e
<1>6. CASE e.kind = "get" /\ nd[n].known /\ NdGetChannel(n, e)
  <2> DEFINE i == ConnOf(n, e.from)
             m == [kind |-> "get", client |-> e.from.client, tag |-> e.tag, qp |-> e.qp]
  <2>0. NdTypes /\ e.kind = "get" /\ nd[n].known /\ NdGetChannel(n, e) /\ e \in Events
        /\ Has(nd[n].conns, e.from)
    BY <1>2, <1>4, <1>6 DEF TypesInv
  <2>1. \A x \in Nodes : x # n => nd'[x].conns = nd[x].conns
    BY <2>0, NdGetChannelStep
  <2>2. i \in 1 .. Len(nd[n].conns)
    BY <2>0, NdGetChannelStep
  <2>3. /\ Len(nd'[n].conns) = Len(nd[n].conns)
        /\ \A j \in 1 .. Len(nd[n].conns) : j # i => nd'[n].conns[j] = nd[n].conns[j]
    BY <2>0, NdGetChannelStep
  <2>4. nd'[n].conns[i].tags = nd[n].conns[i].tags \cup {e.tag}
    <3>1. nd'[n].conns[i] = [client |-> nd[n].conns[i].client,
                             run |-> nd[n].conns[i].run,
                             tags |-> nd[n].conns[i].tags \cup {e.tag},
                             pending |-> nd[n].conns[i].pending \cup {e.tag}]
      BY <2>0, NdGetChannelStep
    <3> QED BY <3>1
  <2>5. m \in Messages /\ m.kind = "get" /\ m.tag = e.tag
    BY <2>0, NdGetChannelStep
  <2>6. toSd' = [toSd EXCEPT ![n] = Append(@, m)]
    BY <2>0, NdGetChannelStep
  <2> HIDE DEF i, m
  <2>7. toSd'[n] = Append(toSd[n], m) /\ \A x \in Nodes : x # n => toSd'[x] = toSd[x]
    BY <1>1, <2>6
  <2>8. ASSUME NEW t
        PROVE  t \in Users(n)' <=> WillKeep(owns[n], toSd'[n], t)
    <3>1. t \in Users(n) <=> WillKeep(owns[n], toSd[n], t)
      BY <1>1 DEF OwnersInv
    <3>2. t \in Users(n) <=> \E j \in 1 .. Len(nd[n].conns) : t \in nd[n].conns[j].tags
      BY DEF Users
    <3>3. t \in Users(n)' <=> \E j \in 1 .. Len(nd'[n].conns) : t \in nd'[n].conns[j].tags
      BY DEF Users
    <3>4. t \in Users(n)' <=> t \in Users(n) \/ t = e.tag
      BY <2>2, <2>3, <2>4, <3>2, <3>3
    <3>5. WillKeep(owns[n], toSd'[n], t) <=> WillKeep(owns[n], toSd[n], t) \/ m.tag = t
      BY <1>1, <2>5, <2>7, KeepsRequested
    <3> QED BY <2>5, <3>1, <3>4, <3>5
  <2> QED BY <1>1, <2>1, <2>7, <2>8, OwnersOfOne
<1>7. CASE UNCHANGED <<nd, toSd>>
  <2>1. \A x \in Nodes : \A t : t \in Users(x)' <=> t \in Users(x)
    BY <1>7 DEF Users
  <2> QED BY <1>1, <1>7, <2>1, OwnersFrame
<1>8. CASE NdRemoveClient(n, e.from)
  <2> DEFINE i == ConnOf(n, e.from)
             unused == Unused(nd[n].conns, i)
             unrefs == UnrefsFor(unused)
  <2>0. NdTypes /\ NdRemoveClient(n, e.from) /\ Has(nd[n].conns, e.from)
    BY <1>4, <1>8 DEF TypesInv
  <2>1. /\ i \in 1 .. Len(nd[n].conns)
        /\ \A x \in Nodes : x # n => nd'[x].conns = nd[x].conns
        /\ nd'[n].conns = RemoveAt(nd[n].conns, i)
    BY <2>0, NdRemoveClientStep
  <2>2. unused \in SUBSET AllTags
    BY <2>0, NdRemoveClientStep
  <2>3. toSd' = [toSd EXCEPT ![n] = @ \o unrefs]
    BY <2>0, NdRemoveClientStep
  <2> HIDE DEF i
  <2>4. unused = Unused(nd[n].conns, i)
    OBVIOUS
  <2> HIDE DEF unused
  <2>5. /\ unrefs \in Seq(Messages)
        /\ \A k \in 1 .. Len(unrefs) : unrefs[k].kind = "unref" /\ unrefs[k].tag \in unused
        /\ \A t \in unused : \E k \in 1 .. Len(unrefs) : unrefs[k].tag = t
    BY <2>2, UnrefsForFacts
  <2> HIDE DEF unrefs
  <2>6. toSd'[n] = toSd[n] \o unrefs /\ \A x \in Nodes : x # n => toSd'[x] = toSd[x]
    BY <1>1, <2>3
  <2>7. ASSUME NEW t
        PROVE  t \in Users(n)' <=> WillKeep(owns[n], toSd'[n], t)
    <3>1. t \in Users(n) <=> WillKeep(owns[n], toSd[n], t)
      BY <1>1 DEF OwnersInv
    <3>2. t \in Users(n) <=> \E j \in 1 .. Len(nd[n].conns) : t \in nd[n].conns[j].tags
      BY DEF Users
    <3>3. t \in Users(n)' <=> \E j \in 1 .. Len(nd'[n].conns) : t \in nd'[n].conns[j].tags
      BY DEF Users
    <3>4. t \in Users(n)' <=> t \in Users(n) /\ t \notin unused
      <4> DEFINE conns == nd[n].conns
      <4>1. conns \in Seq(Conns) /\ UniqueConns(conns) /\ i \in 1 .. Len(conns)
            /\ unused = Unused(conns, i) /\ nd'[n].conns = RemoveAt(conns, i)
        BY <1>1, <1>4, <2>1, <2>4
      <4> HIDE DEF conns
      <4>2. (\E j \in 1 .. Len(RemoveAt(conns, i)) : t \in RemoveAt(conns, i)[j].tags)
              <=> (\E j \in 1 .. Len(conns) : t \in conns[j].tags) /\ t \notin Unused(conns, i)
        BY <4>1, UsersAfterRemoval
      <4> QED BY <3>2, <3>3, <4>1, <4>2 DEF conns
    <3>5. Lasts(unrefs, 1, t) <=> t \notin unused
      BY <2>5 DEF Lasts, Ends
    <3>6. WillKeep(owns[n], toSd'[n], t) <=>
             WillKeep(owns[n], toSd[n], t) /\ Lasts(unrefs, 1, t)
      <4>1. \A k \in 1 .. Len(unrefs) : unrefs[k].kind # "get"
        BY <2>5
      <4> QED BY <1>1, <2>5, <2>6, <4>1, KeepsNotEnded
    <3> QED BY <3>1, <3>4, <3>5, <3>6
  <2> QED BY <1>1, <2>1, <2>6, <2>7, OwnersOfOne
<1> QED BY <1>5, <1>6, <1>7, <1>8

LEMMA OwnersSwitchEvent ==
    ASSUME TypesInv, OwnersInv, NEW n \in Nodes, NdSwitchEvent(n), sdUp
    PROVE  OwnersInv'
<1>1. /\ UNCHANGED <<sdUp, owns>> /\ (UNCHANGED <<nd, toSd>> \/ NdDies(n))
  BY NdSwitchEventStep DEF sdVars
<1>2. CASE UNCHANGED <<nd, toSd>>
  <2>1. \A x \in Nodes : \A t : t \in Users(x)' <=> t \in Users(x)
    BY <1>2 DEF Users
  <2> QED BY <1>1, <1>2, <2>1, OwnersFrame
<1>3. CASE NdDies(n)
  <2>1. /\ \A x \in Nodes : x # n => nd'[x] = nd[x]
        /\ nd'[n].conns = <<>>
    BY <1>3, NdDiesStep DEF TypesInv
  <2>2. PICK kind \in {"eof", "reset"} :
          /\ [kind |-> kind] \in Messages
          /\ toSd' = [toSd EXCEPT ![n] = Append(@, [kind |-> kind])]
    BY <1>3, NdDiesStep DEF TypesInv
  <2> DEFINE m == [kind |-> kind]
  <2>3. m \in Messages /\ m.kind \in {"eof", "reset"} /\ toSd' = [toSd EXCEPT ![n] = Append(@, m)]
    BY <2>2
  <2> HIDE DEF m
  <2>4. toSd \in [Nodes -> Seq(Messages)] /\ toSd[n] \in Seq(Messages)
    BY DEF TypesInv, NdTypes
  <2>a. toSd'[n] = Append(toSd[n], m) /\ \A x \in Nodes : x # n => toSd'[x] = toSd[x]
    BY <2>3, <2>4
  <2>b. Append(toSd[n], m) = toSd[n] \o <<m>>
    BY <2>3, <2>4, AppendIsConcat
  <2>5. toSd'[n] = toSd[n] \o <<m>> /\ \A x \in Nodes : x # n => toSd'[x] = toSd[x]
    BY <2>a, <2>b
  <2>6. ASSUME NEW t
        PROVE  t \in Users(n)' <=> WillKeep(owns[n], toSd'[n], t)
    <3>1. t \notin Users(n)'
      BY <2>1 DEF Users
    <3> DEFINE last == <<m>>
    <3>2. last \in Seq(Messages) /\ Len(last) = 1 /\ last[1] = m
      BY <2>3
    <3> HIDE DEF last
    <3>3. ~Lasts(last, 1, t)
      BY <2>3, <3>2 DEF Lasts, Ends
    <3>4. WillKeep(owns[n], toSd[n] \o last, t) <=>
             WillKeep(owns[n], toSd[n], t) /\ Lasts(last, 1, t)
      <4>1. \A k \in 1 .. Len(last) : last[k].kind # "get"
        BY <2>3, <3>2
      <4> QED BY <2>4, <3>2, <4>1, KeepsNotEnded
    <3> QED BY <2>5, <3>1, <3>3, <3>4 DEF last
  <2> QED BY <1>1, <2>1, <2>5, <2>6, OwnersOfOne
<1> QED BY <1>1, <1>2, <1>3

LEMMA OwnersSdEvent ==
    ASSUME TypesInv, OwnersInv, OwnedInv, NEW n \in Nodes, SdEvent(n)
    PROVE  OwnersInv'
<1>1. SUFFICES ASSUME sdUp', NEW x \in Nodes, NEW t
               PROVE  t \in Users(x)' <=> WillKeep(owns'[x], toSd'[x], t)
  BY DEF OwnersInv
<1>2. /\ sdUp /\ toSd[n] # <<>> /\ toSd[n] \in Seq(Messages)
      /\ toSd'[n] \in AfterOne(toSd[n])
      /\ \A y \in Nodes : y # n => toSd'[y] = toSd[y]
      /\ nd' = nd
  BY SdEventStep
<1>3. /\ \A y \in Nodes : y # n => owns'[y] = owns[y]
      /\ \A u : u \in owns'[n] <=>
            IsGet(toSd[n][1], u) \/ (u \in owns[n] /\ ~Ends(toSd[n][1], u))
  BY <1>1, SdEventOwners
<1>4. t \in Users(x)' <=> t \in Users(x)
  BY <1>2 DEF Users
<1>5. t \in Users(x) <=> WillKeep(owns[x], toSd[x], t)
  BY <1>2 DEF OwnersInv
<1>6. WillKeep(owns'[x], toSd'[x], t) <=> WillKeep(owns[x], toSd[x], t)
  <2>1. CASE x = n
    <3>1. t \in owns'[n] <=> IsGet(toSd[n][1], t) \/ (t \in owns[n] /\ ~Ends(toSd[n][1], t))
      BY <1>3
    <3>2. WillKeep(owns'[n], toSd'[n], t) <=> WillKeep(owns[n], toSd[n], t)
      BY <1>2, <3>1, KeepsHandled
    <3> QED BY <2>1, <3>2
  <2>2. CASE x # n
    BY <1>2, <1>3, <2>2
  <2> QED BY <2>1, <2>2
<1> QED BY <1>4, <1>5, <1>6

LEMMA OwnersStart ==
    ASSUME TypesInv, OwnersInv, NEW c \in Clients, Start(c)
    PROVE  OwnersInv'
<1> DEFINE m == NodeOf[c]
           new == [client |-> c, run |-> proc[c].run + 1, tags |-> {}, pending |-> {}]
<1>1. /\ m \in Nodes /\ nd[m].conns \in Seq(Conns) /\ nd \in [Nodes -> Daemons]
  BY ConstantTypes DEF TypesInv, NdTypes, Daemons
<1>2. /\ UNCHANGED <<sdUp, owns, toSd>>
      /\ nd' = [nd EXCEPT ![m].conns = Append(@, new)] /\ new.tags = {}
  BY DEF Start, sdVars
<1> HIDE DEF m, new
<1>3. nd'[m].conns = Append(nd[m].conns, new) /\ \A x \in Nodes : x # m => nd'[x] = nd[x]
  BY <1>1, <1>2 DEF Daemons
<1>4. ASSUME NEW x \in Nodes, NEW t
      PROVE  t \in Users(x)' <=> t \in Users(x)
  <2>1. CASE x = m
    <3>1. t \in Users(m) <=> \E j \in 1 .. Len(nd[m].conns) : t \in nd[m].conns[j].tags
      BY DEF Users
    <3>2. t \in Users(m)' <=> \E j \in 1 .. Len(nd'[m].conns) : t \in nd'[m].conns[j].tags
      BY DEF Users
    <3>3. /\ Len(nd'[m].conns) = Len(nd[m].conns) + 1 /\ Len(nd[m].conns) \in Nat
          /\ nd'[m].conns[Len(nd[m].conns) + 1] = new
          /\ \A j \in 1 .. Len(nd[m].conns) : nd'[m].conns[j] = nd[m].conns[j]
      BY <1>1, <1>3
    <3>4. t \in Users(m)' => t \in Users(m)
      <4>1. \A j \in 1 .. Len(nd[m].conns) + 1 : j \in 1 .. Len(nd[m].conns)
                                               \/ j = Len(nd[m].conns) + 1
        BY <3>3
      <4> QED BY <1>2, <3>1, <3>2, <3>3, <4>1
    <3>5. t \in Users(m) => t \in Users(m)'
      <4>1. \A j \in 1 .. Len(nd[m].conns) : j \in 1 .. Len(nd'[m].conns)
        BY <3>3
      <4> QED BY <3>1, <3>2, <3>3, <4>1
    <3> QED BY <2>1, <3>4, <3>5
  <2>2. CASE x # m
    BY <1>3, <2>2 DEF Users
  <2> QED BY <2>1, <2>2
<1> QED BY <1>2, <1>4, OwnersFrame

\* The switch daemon that is down stays down.
LEMMA SdStaysDown ==
    ASSUME [ControlNext]_controlVars, sdUp'
    PROVE  sdUp
<1>1. ASSUME NEW c \in Clients,
             Start(c) \/ GetChannel(c) \/ ReadReply(c) \/ Exit(c) \/ Kill(c)
      PROVE  sdUp
  BY <1>1 DEF Start, GetChannel, ReadReply, Exit, Kill, End, sdVars
<1>2. ASSUME NEW n \in Nodes,
             Discover(n) \/ NdClientEvent(n) \/ NdSwitchEvent(n) \/ SdEvent(n)
      PROVE  sdUp
  BY <1>2 DEF Discover, NdClientEvent, NdSwitchEvent, SdEvent, sdVars
<1>3. CASE UNCHANGED controlVars
  BY <1>3 DEF controlVars, sdVars
<1> QED BY <1>1, <1>2, <1>3 DEF ControlNext, AllEnded

LEMMA OwnersNext ==
    ASSUME TypesInv, ConnsInv, OwnersInv, OwnedInv, [ControlNext]_controlVars
    PROVE  OwnersInv' /\ OwnedInv'
<1>0. CASE ~sdUp'
  BY <1>0 DEF OwnersInv, OwnedInv
<1>1. ASSUME NEW c \in Clients, Start(c)
      PROVE  OwnersInv' /\ OwnedInv'
  BY <1>1, OwnersStart DEF Start, sdVars, OwnedInv, Tags
<1>2. ASSUME NEW c \in Clients, GetChannel(c) \/ ReadReply(c) \/ Exit(c) \/ Kill(c)
      PROVE  OwnersInv' /\ OwnedInv'
  <2>1. UNCHANGED <<nd, toSd, sdUp, owns, channels>>
    BY <1>2 DEF GetChannel, ReadReply, Exit, Kill, End, ndVars, sdVars
  <2>2. \A n \in Nodes : \A t : t \in Users(n)' <=> t \in Users(n)
    BY <2>1 DEF Users
  <2> QED BY <2>1, <2>2, OwnersFrame DEF OwnedInv, Tags
<1>3. ASSUME NEW n \in Nodes, Discover(n)
      PROVE  OwnersInv' /\ OwnedInv'
  <2>1. UNCHANGED <<toSd, sdUp, owns, channels>> /\ nd' = [nd EXCEPT ![n].known = TRUE]
    BY <1>3 DEF Discover, sdVars
  <2>2. \A x \in Nodes : nd'[x].conns = nd[x].conns
    BY <2>1 DEF TypesInv, NdTypes, Daemons
  <2>3. \A x \in Nodes : \A t : t \in Users(x)' <=> t \in Users(x)
    BY <2>2 DEF Users
  <2> QED BY <2>1, <2>3, OwnersFrame DEF OwnedInv, Tags
<1>4. ASSUME NEW n \in Nodes, NdClientEvent(n), sdUp
      PROVE  OwnersInv' /\ OwnedInv'
  BY <1>4, OwnersClientEvent DEF NdClientEvent, sdVars, OwnedInv, Tags
<1>5. ASSUME NEW n \in Nodes, NdSwitchEvent(n), sdUp
      PROVE  OwnersInv' /\ OwnedInv'
  BY <1>5, OwnersSwitchEvent DEF NdSwitchEvent, sdVars, OwnedInv, Tags
<1>6. ASSUME NEW n \in Nodes, SdEvent(n), sdUp'
      PROVE  OwnersInv' /\ OwnedInv'
  BY <1>6, OwnersSdEvent, SdEventOwners
<1>7. CASE UNCHANGED controlVars
  BY <1>7 DEF controlVars, ndVars, sdVars, OwnersInv, OwnedInv, Users, Tags
<1> QED BY <1>0, <1>1, <1>2, <1>3, <1>4, <1>5, <1>6, <1>7, SdStaysDown DEF ControlNext, AllEnded

LEMMA OwnersInit ==
    ASSUME ControlInit
    PROVE  OwnersInv /\ OwnedInv
<1>1. OwnersInv
  BY DEF ControlInit, OwnersInv, Users, WillKeep
<1>2. OwnedInv
  BY DEF ControlInit, OwnedInv, NoChannels, Tags
<1> QED BY <1>1, <1>2

LEMMA OwnersHold == ControlSpec => [](OwnersInv /\ OwnedInv)
<1>1. ControlInit => OwnersInv /\ OwnedInv
  BY OwnersInit
<1>2. /\ TypesInv /\ ConnsInv /\ OwnersInv /\ OwnedInv /\ [ControlNext]_controlVars
      => (OwnersInv /\ OwnedInv)'
  BY OwnersNext
<1> QED BY <1>1, <1>2, TypesHold, PTL DEF ControlSpec

\* The two levels of reference counting (node_daemon.cc:remove_client and the
\* agent's connections) agree, whoever ends, is killed, connects late or dies: with
\* the messages under way, the agent counts a node daemon as an owner of exactly
\* the channels its connected clients use.
THEOREM TwoLevelsAgree == ControlSpec => []OwnersMatchUsers
<1>1. OwnersInv => OwnersMatchUsers
  <2>1. SUFFICES ASSUME OwnersInv, sdUp, NEW n \in Nodes
                 PROVE  WillOwn(n) = Users(n)
    BY DEF OwnersMatchUsers
  <2>2. \A t : t \in WillOwn(n) <=> t \in Users(n)
    BY <2>1, WillOwnKeeps DEF OwnersInv
  <2> QED BY <2>2
<1> QED BY <1>1, OwnersHold, PTL

-----------------------------------------------------------------------------
(* The tables: every entry is one of a known channel, and a known channel   *)
(* has its entries.                                                         *)

\* Nobody shares a unit or a common part, and participants are what their requests
\* said.
ChannelsOk(chs) ==
    /\ Tags(chs) \subseteq AllTags
    /\ chs \in [Tags(chs) -> Channels]
    /\ \A s, t \in Tags(chs) : s # t =>
          chs[s].unit # chs[t].unit /\ chs[s].common # chs[t].common
    /\ \A t \in Tags(chs) : \A i \in Clients : chs[t].parts[i] # Unknown =>
          chs[t].parts[i].node = NodeOf[i] /\ chs[t].parts[i].fqp[1] = chs[t].common

Fits(T, chs) ==
    /\ T = [selector |-> T.selector, complete |-> T.complete, output |-> T.output,
            mcNode |-> T.mcNode, mcGroup |-> T.mcGroup]
    /\ IsTable(T.selector) /\ IsTable(T.output)
    /\ T.mcNode = Written(KeptNodes(NoTables, chs), NodeRows(chs))
    /\ T.mcGroup = Written(KeptGroups(NoTables, chs), Groups(chs))
    /\ \A k \in DOMAIN T.selector : \E t \in Known(chs) :
          T.selector[k].unit = chs[t].unit /\ CommonOfKey(k) = chs[t].common
    /\ \A k \in DOMAIN T.output : \E t \in Known(chs) : k \in DOMAIN OutputEntries(chs[t])
    /\ \A e \in T.complete : \E t \in Known(chs) : e \in CompleteEntries(chs[t])

Serves(T, ch) ==
    /\ \A k \in DOMAIN SelectorEntries(ch) :
          k \in DOMAIN T.selector /\ T.selector[k] = SelectorEntries(ch)[k]
    /\ \A k \in DOMAIN OutputEntries(ch) :
          k \in DOMAIN T.output /\ T.output[k] = OutputEntries(ch)[k]
    /\ CompleteEntries(ch) \subseteq T.complete

TablesOk(T, chs) == Fits(T, chs) /\ \A t \in Known(chs) : Serves(T, chs[t])

LEMMA KnownFacts ==
    ASSUME NEW chs, ChannelsOk(chs), NEW t \in Known(chs)
    PROVE  /\ t \in Tags(chs) /\ t \in Nat /\ chs[t] \in Channels
           /\ Ids(chs[t]) = Clients
           /\ \A i \in Clients : /\ chs[t].parts[i] # Unknown
                                 /\ chs[t].parts[i].node = NodeOf[i]
                                 /\ chs[t].parts[i].fqp[1] = chs[t].common
           /\ WellFormed(chs[t])
<1>1. t \in Tags(chs) /\ t \in Nat /\ chs[t] \in Channels /\ AllKnown(chs[t])
  BY ConstantTypes DEF Known, ChannelsOk
<1>2. DOMAIN chs[t].parts = Clients
  BY <1>1 DEF Channels
<1>3. \A i \in Clients : /\ chs[t].parts[i] # Unknown
                         /\ chs[t].parts[i].node = NodeOf[i]
                         /\ chs[t].parts[i].fqp[1] = chs[t].common
  BY <1>1, <1>2 DEF AllKnown, ChannelsOk
<1>4. \A i \in Clients : NodeOf[i] # "recirculated" /\ PipeOfNode(NodeOf[i]) \in {0, 3}
  <2>1. SUFFICES ASSUME NEW i \in Clients
                 PROVE  NodeOf[i] # "recirculated" /\ PipeOfNode(NodeOf[i]) \in {0, 3}
    OBVIOUS
  <2>2. NodeOf[i] \in Nodes /\ NodeOf[i] # "recirculated"
    BY ControlPlaneAssumption
  <2>3. PortOf[NodeOf[i]] \in 0 .. 127 \cup 384 .. 511
    BY <2>2, ControlPlaneAssumption
  <2> QED BY <2>2, <2>3 DEF PipeOfNode
<1>5. Clients # {}
  BY ControlPlaneAssumption
<1>6. WellFormed(chs[t])
  BY <1>2, <1>3, <1>4, <1>5 DEF WellFormed, Ids
<1> QED BY <1>1, <1>2, <1>3, <1>6 DEF Ids

\* The keys of a known channel do not depend on its queue pairs.
LEMMA SameShape ==
    ASSUME NEW ch, NEW ch2, Ids(ch) = Ids(ch2), ch.unit = ch2.unit,
           \A i \in Ids(ch) : ch.parts[i].node = ch2.parts[i].node
    PROVE  /\ CompleteEntries(ch) = CompleteEntries(ch2)
           /\ DOMAIN OutputEntries(ch) = DOMAIN OutputEntries(ch2)
<1>1. \A pipe : OnPipe(ch, pipe) = OnPipe(ch2, pipe)
  BY DEF OnPipe
<1>2. BothPipes(ch) <=> BothPipes(ch2)
  BY <1>1 DEF BothPipes
<1>3. \A pipe : FullBits(ch, pipe) = FullBits(ch2, pipe)
  BY <1>1, <1>2 DEF FullBits
<1>4. CompleteEntries(ch) = CompleteEntries(ch2)
  BY <1>1, <1>3 DEF CompleteEntries
<1>5. \A i \in Ids(ch) : Position(ch, i) = Position(ch2, i)
  BY DEF Position
<1>6. DOMAIN OutputEntries(ch) = {<<PipeOfNode(ch.parts[i].node), ch.unit, Position(ch, i)>> : i \in Ids(ch)}
      /\ DOMAIN OutputEntries(ch2)
            = {<<PipeOfNode(ch2.parts[i].node), ch2.unit, Position(ch2, i)>> : i \in Ids(ch2)}
  BY DEF OutputEntries
<1>7. DOMAIN OutputEntries(ch) = DOMAIN OutputEntries(ch2)
  BY <1>5, <1>6
<1> QED BY <1>4, <1>7

\* The last writer of an entry is one of its writers.
Writers(entries, k) == {t \in DOMAIN entries : k \in DOMAIN entries[t]}

LEMMA LastWriter ==
    ASSUME NEW entries, DOMAIN entries \subseteq Nat, IsFiniteSet(DOMAIN entries),
           NEW k, Writers(entries, k) # {}
    PROVE  Max(Writers(entries, k)) \in Writers(entries, k)
<1>1. Writers(entries, k) \in SUBSET DOMAIN entries /\ Writers(entries, k) \in SUBSET Nat
  BY DEF Writers
<1>2. IsFiniteSet(Writers(entries, k))
  BY <1>1, FS_Subset
<1> QED BY <1>1, <1>2, MaxIsElement

LEMMA WrittenIs ==
    ASSUME NEW f, NEW entries
    PROVE  Written(f, entries) =
              [k \in DOMAIN f \cup Keys(entries) |->
                  IF Writers(entries, k) = {} THEN f[k]
                                              ELSE entries[Max(Writers(entries, k))][k]]
BY DEF Written, Keys, Writers

\* What a table holds after some entries have been written.
LEMMA WrittenOrigin ==
    ASSUME NEW f, NEW entries, DOMAIN entries \subseteq Nat, IsFiniteSet(DOMAIN entries),
           NEW k \in DOMAIN Written(f, entries)
    PROVE  \/ k \in DOMAIN f /\ Written(f, entries)[k] = f[k]
           \/ \E t \in DOMAIN entries :
                 k \in DOMAIN entries[t] /\ Written(f, entries)[k] = entries[t][k]
<1>1. CASE Writers(entries, k) = {}
  <2>1. k \notin Keys(entries)
    BY <1>1 DEF Keys, Writers
  <2> QED BY <1>1, <2>1, WrittenIs
<1>2. CASE Writers(entries, k) # {}
  <2> DEFINE t == Max(Writers(entries, k))
  <2>1. t \in Writers(entries, k)
    BY <1>2, LastWriter
  <2>2. Written(f, entries)[k] = entries[t][k]
    BY <1>2, WrittenIs
  <2> HIDE DEF t
  <2> QED BY <2>1, <2>2 DEF Writers
<1> QED BY <1>1, <1>2

LEMMA WrittenHas ==
    ASSUME NEW f, NEW entries, DOMAIN entries \subseteq Nat, IsFiniteSet(DOMAIN entries),
           NEW t \in DOMAIN entries, NEW k \in DOMAIN entries[t],
           \A s \in DOMAIN entries : k \in DOMAIN entries[s] => s = t
    PROVE  k \in DOMAIN Written(f, entries) /\ Written(f, entries)[k] = entries[t][k]
<1>1. Writers(entries, k) # {} /\ \A s \in Writers(entries, k) : s = t
  BY DEF Writers
<1>2. Max(Writers(entries, k)) = t
  BY <1>1, LastWriter
<1>3. k \in Keys(entries)
  BY DEF Keys
<1> QED BY <1>1, <1>2, <1>3, WrittenIs

\* The entries of known channels have keys of their own.
LEMMA EntriesOwn ==
    ASSUME NEW chs, ChannelsOk(chs)
    PROVE  /\ DOMAIN Selectors(chs) = Known(chs) /\ DOMAIN Outputs(chs) = Known(chs)
           /\ Known(chs) \subseteq Nat /\ IsFiniteSet(Known(chs))
           /\ \A t \in Known(chs) :
                 /\ Selectors(chs)[t] = SelectorEntries(chs[t])
                 /\ Outputs(chs)[t] = OutputEntries(chs[t])
                 /\ \A k \in DOMAIN SelectorEntries(chs[t]) :
                       /\ CommonOfKey(k) = chs[t].common
                       /\ SelectorEntries(chs[t])[k].unit = chs[t].unit
                 /\ \A k \in DOMAIN OutputEntries(chs[t]) : k[2] = chs[t].unit
                 /\ \A e \in CompleteEntries(chs[t]) : e[1] = chs[t].unit
           /\ \A s, t \in Known(chs) :
                 chs[s].unit = chs[t].unit \/ chs[s].common = chs[t].common => s = t
<1>1. ASSUME NEW t \in Known(chs)
      PROVE  /\ \A k \in DOMAIN SelectorEntries(chs[t]) :
                   /\ CommonOfKey(k) = chs[t].common
                   /\ SelectorEntries(chs[t])[k].unit = chs[t].unit
             /\ \A k \in DOMAIN OutputEntries(chs[t]) : k[2] = chs[t].unit
             /\ \A e \in CompleteEntries(chs[t]) : e[1] = chs[t].unit
  <2>1. WellFormed(chs[t])
    BY KnownFacts
  <2> QED BY <2>1, SelectorEntriesOwn, OtherEntriesOwn
<1>2. Known(chs) \in SUBSET AllTags /\ Known(chs) \subseteq Tags(chs)
  BY DEF Known, ChannelsOk
<1>3. Known(chs) \subseteq Nat /\ IsFiniteSet(Known(chs))
  BY <1>2, ConstantTypes, AllTagsFinite, FS_Subset
<1>4. \A s, t \in Known(chs) :
         chs[s].unit = chs[t].unit \/ chs[s].common = chs[t].common => s = t
  BY <1>2 DEF ChannelsOk
<1> QED BY <1>1, <1>3, <1>4 DEF Selectors, Outputs

\* A unit is not handed on from one channel to another in one step.
Follows(chs, chs2) ==
    \A s \in Known(chs), t \in Known(chs2) :
        chs[s].unit = chs2[t].unit => s = t /\ chs[s].common = chs2[t].common

LEMMA ReconfigureFits ==
    ASSUME NEW T, NEW chs, NEW chs2, ChannelsOk(chs), ChannelsOk(chs2), Follows(chs, chs2),
           TablesOk(T, chs)
    PROVE  TablesOk(Reconfigure(T, chs2), chs2)
<1> DEFINE S == Written(KeptSelectors(T, chs2), Selectors(chs2))
           O == Written(KeptOutputs(T, chs2), Outputs(chs2))
           C == KeptCompletes(T, chs2) \cup Completes(chs2)
           N == Written(KeptNodes(T, chs2), NodeRows(chs2))
           G == Written(KeptGroups(T, chs2), Groups(chs2))
           R == Reconfigure(T, chs2)
<1>1. R = [selector |-> S, complete |-> C, output |-> O, mcNode |-> N, mcGroup |-> G]
  BY ReconfigureParts
<1>2. /\ N = Written(KeptNodes(NoTables, chs2), NodeRows(chs2))
      /\ G = Written(KeptGroups(NoTables, chs2), Groups(chs2))
  BY MulticastRebuilt
<1>3. /\ DOMAIN Selectors(chs2) = Known(chs2) /\ DOMAIN Outputs(chs2) = Known(chs2)
      /\ Known(chs2) \subseteq Nat /\ IsFiniteSet(Known(chs2))
      /\ \A t \in Known(chs2) :
            /\ Selectors(chs2)[t] = SelectorEntries(chs2[t])
            /\ Outputs(chs2)[t] = OutputEntries(chs2[t])
            /\ \A k \in DOMAIN SelectorEntries(chs2[t]) :
                  /\ CommonOfKey(k) = chs2[t].common
                  /\ SelectorEntries(chs2[t])[k].unit = chs2[t].unit
            /\ \A k \in DOMAIN OutputEntries(chs2[t]) : k[2] = chs2[t].unit
            /\ \A e \in CompleteEntries(chs2[t]) : e[1] = chs2[t].unit
      /\ \A s, t \in Known(chs2) :
            chs2[s].unit = chs2[t].unit \/ chs2[s].common = chs2[t].common => s = t
  BY EntriesOwn
<1>4. \A t \in Known(chs) :
          /\ \A k \in DOMAIN OutputEntries(chs[t]) : k[2] = chs[t].unit
          /\ \A e \in CompleteEntries(chs[t]) : e[1] = chs[t].unit
  BY EntriesOwn
<1>5. ASSUME NEW s \in Known(chs), NEW t \in Known(chs2), chs[s].unit = chs2[t].unit
      PROVE  /\ s = t
             /\ CompleteEntries(chs[s]) = CompleteEntries(chs2[t])
             /\ DOMAIN OutputEntries(chs[s]) = DOMAIN OutputEntries(chs2[t])
  <2>1. s = t
    BY <1>5 DEF Follows
  <2>2. Ids(chs[s]) = Clients /\ \A i \in Clients : chs[s].parts[i].node = NodeOf[i]
    BY KnownFacts
  <2>3. Ids(chs2[t]) = Clients /\ \A i \in Clients : chs2[t].parts[i].node = NodeOf[i]
    BY KnownFacts
  <2>4. /\ CompleteEntries(chs[s]) = CompleteEntries(chs2[t])
        /\ DOMAIN OutputEntries(chs[s]) = DOMAIN OutputEntries(chs2[t])
    BY <1>5, <2>2, <2>3, SameShape
  <2> QED BY <2>1, <2>4
<1>6. \A u : u \in UnitsInUse(chs2) <=> \E t \in Known(chs2) : u = chs2[t].unit
  BY DEF UnitsInUse
<1> HIDE DEF N, G
<1>7. /\ IsTable(S)
      /\ \A k \in DOMAIN S :
            \/ k \in DOMAIN KeptSelectors(T, chs2) /\ S[k] = KeptSelectors(T, chs2)[k]
            \/ \E t \in Known(chs2) : k \in DOMAIN Selectors(chs2)[t] /\ S[k] = Selectors(chs2)[t][k]
      /\ \A t \in Known(chs2) : \A k \in DOMAIN Selectors(chs2)[t] :
            (\A s \in Known(chs2) : k \in DOMAIN Selectors(chs2)[s] => s = t) =>
               k \in DOMAIN S /\ S[k] = Selectors(chs2)[t][k]
  <2> DEFINE f == KeptSelectors(T, chs2)
             entries == Selectors(chs2)
  <2>1. /\ DOMAIN entries = Known(chs2) /\ DOMAIN entries \subseteq Nat
        /\ IsFiniteSet(DOMAIN entries)
    BY <1>3
  <2> HIDE DEF f, entries
  <2>2. IsTable(Written(f, entries))
    BY WrittenIs DEF IsTable
  <2>3. \A k \in DOMAIN Written(f, entries) :
           \/ k \in DOMAIN f /\ Written(f, entries)[k] = f[k]
           \/ \E t \in DOMAIN entries :
                 k \in DOMAIN entries[t] /\ Written(f, entries)[k] = entries[t][k]
    BY <2>1, WrittenOrigin
  <2>4. \A t \in DOMAIN entries : \A k \in DOMAIN entries[t] :
           (\A s \in DOMAIN entries : k \in DOMAIN entries[s] => s = t) =>
              k \in DOMAIN Written(f, entries) /\ Written(f, entries)[k] = entries[t][k]
    BY <2>1, WrittenHas
  <2> QED BY <2>1, <2>2, <2>3, <2>4 DEF f, entries
<1>8. /\ IsTable(O)
      /\ \A k \in DOMAIN O :
            \/ k \in DOMAIN KeptOutputs(T, chs2) /\ O[k] = KeptOutputs(T, chs2)[k]
            \/ \E t \in Known(chs2) : k \in DOMAIN Outputs(chs2)[t] /\ O[k] = Outputs(chs2)[t][k]
      /\ \A t \in Known(chs2) : \A k \in DOMAIN Outputs(chs2)[t] :
            (\A s \in Known(chs2) : k \in DOMAIN Outputs(chs2)[s] => s = t) =>
               k \in DOMAIN O /\ O[k] = Outputs(chs2)[t][k]
  <2> DEFINE f == KeptOutputs(T, chs2)
             entries == Outputs(chs2)
  <2>1. /\ DOMAIN entries = Known(chs2) /\ DOMAIN entries \subseteq Nat
        /\ IsFiniteSet(DOMAIN entries)
    BY <1>3
  <2> HIDE DEF f, entries
  <2>2. IsTable(Written(f, entries))
    BY WrittenIs DEF IsTable
  <2>3. \A k \in DOMAIN Written(f, entries) :
           \/ k \in DOMAIN f /\ Written(f, entries)[k] = f[k]
           \/ \E t \in DOMAIN entries :
                 k \in DOMAIN entries[t] /\ Written(f, entries)[k] = entries[t][k]
    BY <2>1, WrittenOrigin
  <2>4. \A t \in DOMAIN entries : \A k \in DOMAIN entries[t] :
           (\A s \in DOMAIN entries : k \in DOMAIN entries[s] => s = t) =>
              k \in DOMAIN Written(f, entries) /\ Written(f, entries)[k] = entries[t][k]
    BY <2>1, WrittenHas
  <2> QED BY <2>1, <2>2, <2>3, <2>4 DEF f, entries
<1>9. \A e \in C : \/ e \in T.complete /\ e[1] \in UnitsInUse(chs2)
                   \/ \E t \in Known(chs2) : e \in CompleteEntries(chs2[t])
  BY DEF KeptCompletes, Completes
<1>10. \A t \in Known(chs2) : CompleteEntries(chs2[t]) \subseteq C
  BY DEF Completes
<1> HIDE DEF S, O, C
<1>11. ASSUME NEW k \in DOMAIN S
       PROVE  \E t \in Known(chs2) : S[k].unit = chs2[t].unit /\ CommonOfKey(k) = chs2[t].common
  <2>1. CASE k \in DOMAIN KeptSelectors(T, chs2) /\ S[k] = KeptSelectors(T, chs2)[k]
    <3>1. /\ k \in DOMAIN T.selector /\ S[k] = T.selector[k]
          /\ T.selector[k].unit \in UnitsInUse(chs2)
      BY <2>1 DEF KeptSelectors, Restrict
    <3>2. PICK t \in Known(chs2) : T.selector[k].unit = chs2[t].unit
      BY <1>6, <3>1
    <3>3. PICK s \in Known(chs) : T.selector[k].unit = chs[s].unit /\ CommonOfKey(k) = chs[s].common
      BY <3>1 DEF TablesOk, Fits
    <3> QED BY <3>1, <3>2, <3>3 DEF Follows
  <2>2. ASSUME NEW t \in Known(chs2), k \in DOMAIN Selectors(chs2)[t], S[k] = Selectors(chs2)[t][k]
        PROVE  S[k].unit = chs2[t].unit /\ CommonOfKey(k) = chs2[t].common
    BY <1>3, <2>2
  <2> QED BY <1>7, <2>1, <2>2
<1>12. ASSUME NEW k \in DOMAIN O
       PROVE  \E t \in Known(chs2) : k \in DOMAIN OutputEntries(chs2[t])
  <2>1. CASE k \in DOMAIN KeptOutputs(T, chs2)
    <3>1. k \in DOMAIN T.output /\ k[2] \in UnitsInUse(chs2)
      BY <2>1 DEF KeptOutputs, Restrict
    <3>2. PICK t \in Known(chs2) : k[2] = chs2[t].unit
      BY <1>6, <3>1
    <3>3. PICK s \in Known(chs) : k \in DOMAIN OutputEntries(chs[s])
      BY <3>1 DEF TablesOk, Fits
    <3>4. chs[s].unit = chs2[t].unit
      BY <1>4, <3>2, <3>3
    <3> QED BY <1>5, <3>3, <3>4
  <2>2. CASE \E t \in Known(chs2) : k \in DOMAIN Outputs(chs2)[t]
    BY <1>3, <2>2
  <2> QED BY <1>8, <2>1, <2>2
<1>13. ASSUME NEW e \in C
       PROVE  \E t \in Known(chs2) : e \in CompleteEntries(chs2[t])
  <2>1. CASE e \in T.complete /\ e[1] \in UnitsInUse(chs2)
    <3>2. PICK t \in Known(chs2) : e[1] = chs2[t].unit
      BY <1>6, <2>1
    <3>3. PICK s \in Known(chs) : e \in CompleteEntries(chs[s])
      BY <2>1 DEF TablesOk, Fits
    <3>4. chs[s].unit = chs2[t].unit
      BY <1>4, <3>2, <3>3
    <3> QED BY <1>5, <3>3, <3>4
  <2> QED BY <1>9, <2>1
<1>14. ASSUME NEW t \in Known(chs2)
       PROVE  /\ \A k \in DOMAIN SelectorEntries(chs2[t]) :
                    k \in DOMAIN S /\ S[k] = SelectorEntries(chs2[t])[k]
              /\ \A k \in DOMAIN OutputEntries(chs2[t]) :
                    k \in DOMAIN O /\ O[k] = OutputEntries(chs2[t])[k]
  <2>1. ASSUME NEW k \in DOMAIN SelectorEntries(chs2[t]), NEW s \in Known(chs2),
               k \in DOMAIN Selectors(chs2)[s]
        PROVE  s = t
    BY <1>3, <2>1
  <2>2. ASSUME NEW k \in DOMAIN OutputEntries(chs2[t]), NEW s \in Known(chs2),
               k \in DOMAIN Outputs(chs2)[s]
        PROVE  s = t
    BY <1>3, <2>2
  <2>3. /\ Selectors(chs2)[t] = SelectorEntries(chs2[t])
        /\ Outputs(chs2)[t] = OutputEntries(chs2[t])
    BY <1>3
  <2>4. \A k \in DOMAIN SelectorEntries(chs2[t]) :
           k \in DOMAIN S /\ S[k] = SelectorEntries(chs2[t])[k]
    BY <1>7, <2>1, <2>3
  <2>5. \A k \in DOMAIN OutputEntries(chs2[t]) :
           k \in DOMAIN O /\ O[k] = OutputEntries(chs2[t])[k]
    BY <1>8, <2>2, <2>3
  <2> QED BY <2>4, <2>5
<1> HIDE DEF R
<1>a. /\ R.selector = S /\ R.complete = C /\ R.output = O /\ R.mcNode = N /\ R.mcGroup = G
      /\ R = [selector |-> R.selector, complete |-> R.complete, output |-> R.output,
              mcNode |-> R.mcNode, mcGroup |-> R.mcGroup]
  BY <1>1
<1>15. Fits(R, chs2)
  BY <1>a, <1>2, <1>7, <1>8, <1>11, <1>12, <1>13 DEF Fits
<1>16. \A t \in Known(chs2) : Serves(R, chs2[t])
  BY <1>a, <1>10, <1>14 DEF Serves
<1> QED BY <1>15, <1>16 DEF TablesOk, R

LEMMA NothingFits == TablesOk(NoTables, NoChannels)
<1>1. Known(NoChannels) = {}
  BY DEF Known, NoChannels, Tags
<1>2. NoTables.mcNode = Written(KeptNodes(NoTables, NoChannels), NodeRows(NoChannels))
  BY <1>1 DEF NoTables, Written, KeptNodes, NodeRows, Restrict
<1>3. NoTables.mcGroup = Written(KeptGroups(NoTables, NoChannels), Groups(NoChannels))
  BY <1>1 DEF NoTables, Written, KeptGroups, Groups, Restrict
<1>4. Fits(NoTables, NoChannels)
  BY <1>2, <1>3 DEF Fits, NoTables, IsTable
<1> QED BY <1>1, <1>4 DEF TablesOk

\* Without known channels the tables are empty.
LEMMA FitsNothing ==
    ASSUME NEW T, NEW chs, Known(chs) = {}, Fits(T, chs)
    PROVE  T = NoTables
<1>1. DOMAIN T.selector = {} /\ DOMAIN T.output = {} /\ T.complete = {}
  BY DEF Fits
<1>2. T.selector = <<>> /\ T.output = <<>>
  BY <1>1 DEF Fits, IsTable
<1>3. T.mcNode = <<>> /\ T.mcGroup = <<>>
  <2>1. Written(KeptNodes(NoTables, chs), NodeRows(chs)) = <<>>
    BY DEF NoTables, Written, KeptNodes, NodeRows, Restrict
  <2>2. Written(KeptGroups(NoTables, chs), Groups(chs)) = <<>>
    BY DEF NoTables, Written, KeptGroups, Groups, Restrict
  <2> QED BY <2>1, <2>2 DEF Fits
<1> QED BY <1>1, <1>2, <1>3 DEF Fits, NoTables

-----------------------------------------------------------------------------
(* The messages of a node daemon: requests of its own clients, nothing      *)
(* after its end, and no unreference of a channel that a connection uses    *)
(* without that connection's request behind it.                             *)

MsgsOk(n, up, conns, msgs) ==
    \A k \in 1 .. Len(msgs) :
        /\ msgs[k].kind \in {"eof", "reset"} => ~up
        /\ msgs[k].kind = "get" => NodeOf[msgs[k].client] = n
        /\ msgs[k].kind = "unref" =>
              \A i \in 1 .. Len(conns) : msgs[k].tag \in conns[i].tags =>
                  \E j \in k + 1 .. Len(msgs) :
                      IsGet(msgs[j], msgs[k].tag) /\ msgs[j].client = conns[i].client

MsgsInv == \A n \in Nodes : MsgsOk(n, nd[n].up, nd[n].conns, toSd[n])

LEMMA MsgsRequested ==
    ASSUME NEW n, NEW up, NEW conns, NEW conns2, NEW msgs \in Seq(Messages), NEW m \in Messages,
           NEW c \in 1 .. Len(conns), MsgsOk(n, up, conns, msgs),
           m.kind = "get", NodeOf[m.client] = n, Len(conns2) = Len(conns),
           conns2[c].client = m.client, conns2[c].client = conns[c].client,
           conns2[c].tags = conns[c].tags \cup {m.tag},
           \A i \in 1 .. Len(conns) : i # c => conns2[i] = conns[i]
    PROVE  MsgsOk(n, up, conns2, Append(msgs, m))
<1> DEFINE L == Len(msgs)
           msgs2 == Append(msgs, m)
<1>1. /\ L \in Nat /\ Len(msgs2) = L + 1 /\ msgs2[L + 1] = m /\ L = Len(msgs)
      /\ \A k \in 1 .. L : msgs2[k] = msgs[k]
  OBVIOUS
<1> HIDE DEF L, msgs2
<1> SUFFICES MsgsOk(n, up, conns2, msgs2)
  BY DEF msgs2
<1>2. SUFFICES ASSUME NEW k \in 1 .. L + 1
      PROVE  /\ msgs2[k].kind \in {"eof", "reset"} => ~up
             /\ msgs2[k].kind = "get" => NodeOf[msgs2[k].client] = n
             /\ msgs2[k].kind = "unref" =>
                   \A i \in 1 .. Len(conns) : msgs2[k].tag \in conns2[i].tags =>
                       \E j \in k + 1 .. L + 1 :
                           IsGet(msgs2[j], msgs2[k].tag) /\ msgs2[j].client = conns2[i].client
  <2>1. Len(msgs2) = L + 1 /\ Len(conns2) = Len(conns)
    BY <1>1
  <2> QED BY <2>1 DEF MsgsOk
<1>3. CASE k = L + 1
  <2>1. msgs2[k] = m
    BY <1>1, <1>3
  <2>2. msgs2[k].kind = "get" /\ NodeOf[msgs2[k].client] = n
    BY <2>1
  <2> QED BY <2>2
<1>4. CASE k \in 1 .. L
  <2>1. msgs2[k] = msgs[k]
    BY <1>1, <1>4
  <2>2. /\ msgs[k].kind \in {"eof", "reset"} => ~up
        /\ msgs[k].kind = "get" => NodeOf[msgs[k].client] = n
    BY <1>1, <1>4 DEF MsgsOk
  <2>3. ASSUME msgs[k].kind = "unref", NEW i \in 1 .. Len(conns), msgs[k].tag \in conns2[i].tags
        PROVE  \E j \in k + 1 .. L + 1 :
                  IsGet(msgs2[j], msgs[k].tag) /\ msgs2[j].client = conns2[i].client
    <3>1. CASE msgs[k].tag \in conns[i].tags
      <4>1. PICK j \in k + 1 .. L :
               IsGet(msgs[j], msgs[k].tag) /\ msgs[j].client = conns[i].client
        BY <1>1, <1>4, <2>3, <3>1 DEF MsgsOk
      <4>2. j \in k + 1 .. L + 1 /\ j \in 1 .. L
        BY <1>1, <1>4
      <4>3. conns2[i].client = conns[i].client
        OBVIOUS
      <4> QED BY <1>1, <4>1, <4>2, <4>3
    <3>2. CASE msgs[k].tag \notin conns[i].tags
      <4>1. i = c /\ m.tag = msgs[k].tag
        BY <2>3, <3>2
      <4>2. L + 1 \in k + 1 .. L + 1
        BY <1>1, <1>4
      <4> QED BY <1>1, <4>1, <4>2 DEF IsGet
    <3> QED BY <3>1, <3>2
  <2> QED BY <2>1, <2>2, <2>3
<1> QED BY <1>1, <1>3, <1>4

LEMMA MsgsUnreferenced ==
    ASSUME NEW n, NEW up, NEW conns \in Seq(Conns), UniqueConns(conns),
           NEW msgs \in Seq(Messages), MsgsOk(n, up, conns, msgs),
           NEW i \in 1 .. Len(conns), NEW unrefs \in Seq(Messages),
           \A k \in 1 .. Len(unrefs) : unrefs[k].kind = "unref" /\ unrefs[k].tag \in Unused(conns, i)
    PROVE  MsgsOk(n, up, RemoveAt(conns, i), msgs \o unrefs)
<1> DEFINE L == Len(msgs)
           M == Len(unrefs)
           msgs2 == msgs \o unrefs
           left == RemoveAt(conns, i)
<1>1. L \in Nat /\ M \in Nat /\ L = Len(msgs) /\ M = Len(unrefs)
  OBVIOUS
<1>2. /\ Len(msgs2) = L + M
      /\ \A k \in 1 .. L : msgs2[k] = msgs[k]
      /\ \A k \in 1 .. M : msgs2[L + k] = unrefs[k]
  OBVIOUS
<1>3. \A k \in 1 .. Len(left) : \E j \in 1 .. Len(conns) : j # i /\ left[k] = conns[j]
  BY HasAfterRemoval
<1> HIDE DEF L, M, msgs2, left
<1>4. ASSUME NEW k \in 1 .. L + M
      PROVE  /\ msgs2[k].kind \in {"eof", "reset"} => ~up
             /\ msgs2[k].kind = "get" => NodeOf[msgs2[k].client] = n
             /\ msgs2[k].kind = "unref" =>
                   \A c \in 1 .. Len(left) : msgs2[k].tag \in left[c].tags =>
                       \E j \in k + 1 .. L + M :
                           IsGet(msgs2[j], msgs2[k].tag) /\ msgs2[j].client = left[c].client
  <2>1. CASE k > L
    <3>1. k - L \in 1 .. M /\ L + (k - L) = k
      BY <1>1, <2>1
    <3>2. msgs2[k] = unrefs[k - L]
      BY <1>2, <3>1
    <3>3. msgs2[k].kind = "unref" /\ msgs2[k].tag \in Unused(conns, i)
      BY <1>1, <3>1, <3>2
    <3>4. ASSUME NEW c \in 1 .. Len(left), msgs2[k].tag \in left[c].tags
          PROVE  FALSE
      <4>1. PICK j \in 1 .. Len(conns) : j # i /\ left[c] = conns[j]
        BY <1>3
      <4> QED BY <3>3, <3>4, <4>1 DEF Unused
    <3> QED BY <3>3, <3>4
  <2>2. CASE k \in 1 .. L
    <3>1. msgs2[k] = msgs[k]
      BY <1>2, <2>2
    <3>2. /\ msgs[k].kind \in {"eof", "reset"} => ~up
          /\ msgs[k].kind = "get" => NodeOf[msgs[k].client] = n
      BY <1>1, <2>2 DEF MsgsOk
    <3>3. ASSUME msgs[k].kind = "unref", NEW c \in 1 .. Len(left), msgs[k].tag \in left[c].tags
          PROVE  \E j \in k + 1 .. L + M :
                    IsGet(msgs2[j], msgs[k].tag) /\ msgs2[j].client = left[c].client
      <4>1. PICK x \in 1 .. Len(conns) : left[c] = conns[x]
        BY <1>3
      <4>2. PICK j \in k + 1 .. L : IsGet(msgs[j], msgs[k].tag) /\ msgs[j].client = conns[x].client
        BY <1>1, <2>2, <3>3, <4>1 DEF MsgsOk
      <4>3. j \in k + 1 .. L + M /\ j \in 1 .. L
        BY <1>1, <2>2
      <4> QED BY <1>2, <4>1, <4>2, <4>3
    <3> QED BY <3>1, <3>2, <3>3
  <2> QED BY <1>1, <2>1, <2>2
<1>5. MsgsOk(n, up, left, msgs2)
  BY <1>2, <1>4 DEF MsgsOk
<1> QED BY <1>5 DEF left, msgs2

LEMMA MsgsHandled ==
    ASSUME NEW n, NEW up, NEW conns, NEW msgs \in Seq(Messages), MsgsOk(n, up, conns, msgs),
           msgs # <<>>, NEW rest \in AfterOne(msgs)
    PROVE  MsgsOk(n, up, conns, rest)
<1> DEFINE L == Len(msgs)
<1>1. /\ L \in Nat /\ L = Len(msgs) /\ 1 \in 1 .. L
  OBVIOUS
<1>2. \/ rest = Tail(msgs)
      \/ /\ Len(rest) = 1 /\ rest[1].kind = "eof"
         /\ L > 1 /\ msgs[L].kind \in {"eof", "reset"}
  BY AfterOneFacts
<1> HIDE DEF L
<1>3. CASE rest = Tail(msgs)
  <2>1. Len(rest) = L - 1 /\ \A k \in 1 .. L - 1 : rest[k] = msgs[k + 1] /\ k + 1 \in 1 .. L
    BY <1>1, <1>3
  <2>2. SUFFICES ASSUME NEW k \in 1 .. L - 1
        PROVE  /\ rest[k].kind \in {"eof", "reset"} => ~up
               /\ rest[k].kind = "get" => NodeOf[rest[k].client] = n
               /\ rest[k].kind = "unref" =>
                     \A i \in 1 .. Len(conns) : rest[k].tag \in conns[i].tags =>
                         \E j \in k + 1 .. L - 1 :
                             IsGet(rest[j], rest[k].tag) /\ rest[j].client = conns[i].client
    BY <2>1 DEF MsgsOk
  <2>3. rest[k] = msgs[k + 1] /\ k + 1 \in 1 .. L
    BY <2>1
  <2>4. /\ msgs[k + 1].kind \in {"eof", "reset"} => ~up
        /\ msgs[k + 1].kind = "get" => NodeOf[msgs[k + 1].client] = n
    BY <1>1, <2>3 DEF MsgsOk
  <2>5. ASSUME msgs[k + 1].kind = "unref", NEW i \in 1 .. Len(conns),
               msgs[k + 1].tag \in conns[i].tags
        PROVE  \E j \in k + 1 .. L - 1 :
                  IsGet(rest[j], rest[k].tag) /\ rest[j].client = conns[i].client
    <3>1. PICK j \in (k + 1) + 1 .. L :
             IsGet(msgs[j], msgs[k + 1].tag) /\ msgs[j].client = conns[i].client
      BY <1>1, <2>3, <2>5 DEF MsgsOk
    <3>2. j - 1 \in k + 1 .. L - 1 /\ (j - 1) + 1 = j /\ j - 1 \in 1 .. L - 1
      BY <1>1
    <3>3. rest[j - 1] = msgs[j]
      BY <2>1, <3>2
    <3> QED BY <2>3, <3>1, <3>2, <3>3
  <2> QED BY <2>3, <2>4, <2>5
<1>4. CASE Len(rest) = 1 /\ rest[1].kind = "eof" /\ L > 1 /\ msgs[L].kind \in {"eof", "reset"}
  <2>1. ~up
    BY <1>1, <1>4 DEF MsgsOk
  <2> QED BY <1>4, <2>1 DEF MsgsOk
<1> QED BY <1>2, <1>3, <1>4

\* Messages when only the connections of one node daemon and its messages change.
LEMMA MsgsOfOne ==
    ASSUME MsgsInv, NEW n \in Nodes,
           \A x \in Nodes : x # n => nd'[x].up = nd[x].up /\ nd'[x].conns = nd[x].conns
                                     /\ toSd'[x] = toSd[x],
           NEW up, NEW conns, NEW msgs, nd'[n].up = up, nd'[n].conns = conns, toSd'[n] = msgs,
           MsgsOk(n, up, conns, msgs)
    PROVE  MsgsInv'
<1>1. ASSUME NEW x \in Nodes
      PROVE  MsgsOk(x, nd'[x].up, nd'[x].conns, toSd'[x])
  <2>1. CASE x = n
    BY <2>1
  <2>2. CASE x # n
    <3>1. MsgsOk(x, nd[x].up, nd[x].conns, toSd[x])
      BY DEF MsgsInv
    <3>2. nd'[x].up = nd[x].up /\ nd'[x].conns = nd[x].conns /\ toSd'[x] = toSd[x]
      BY <2>2
    <3> QED BY <3>1, <3>2
  <2> QED BY <2>1, <2>2
<1> QED BY <1>1 DEF MsgsInv, MsgsOk

LEMMA MsgsFrame ==
    ASSUME MsgsInv, \A n \in Nodes : /\ nd'[n].up = nd[n].up /\ nd'[n].conns = nd[n].conns
                                     /\ toSd'[n] = toSd[n]
    PROVE  MsgsInv'
<1>1. ASSUME NEW n \in Nodes
      PROVE  MsgsOk(n, nd'[n].up, nd'[n].conns, toSd'[n])
  <2>1. MsgsOk(n, nd[n].up, nd[n].conns, toSd[n])
    BY DEF MsgsInv
  <2> QED BY <2>1
<1> QED BY <1>1 DEF MsgsInv, MsgsOk

\* A new connection, which uses nothing.
LEMMA MsgsConnected ==
    ASSUME NEW n, NEW up, NEW conns \in Seq(Conns), NEW msgs, MsgsOk(n, up, conns, msgs),
           NEW conn \in Conns, conn.tags = {}
    PROVE  MsgsOk(n, up, Append(conns, conn), msgs)
<1> DEFINE L == Len(conns)
           conns2 == Append(conns, conn)
<1>1. /\ L \in Nat /\ Len(conns2) = L + 1 /\ conns2[L + 1] = conn
      /\ L = Len(conns) /\ \A i \in 1 .. L : conns2[i] = conns[i]
  OBVIOUS
<1> HIDE DEF L, conns2
<1>2. ASSUME NEW i \in 1 .. Len(conns2), NEW t \in conns2[i].tags
      PROVE  i \in 1 .. Len(conns) /\ conns2[i] = conns[i]
  BY <1>1
<1>3. MsgsOk(n, up, conns2, msgs)
  BY <1>2 DEF MsgsOk
<1> QED BY <1>3 DEF conns2

\* The end of a daemon.
LEMMA MsgsEnded ==
    ASSUME NEW n, NEW up, NEW conns, NEW msgs \in Seq(Messages), MsgsOk(n, up, conns, msgs),
           NEW m \in Messages, m.kind \in {"eof", "reset"}
    PROVE  MsgsOk(n, FALSE, <<>>, Append(msgs, m))
<1> DEFINE L == Len(msgs)
           msgs2 == Append(msgs, m)
<1>1. /\ L \in Nat /\ Len(msgs2) = L + 1 /\ msgs2[L + 1] = m /\ L = Len(msgs)
      /\ \A k \in 1 .. L : msgs2[k] = msgs[k]
  OBVIOUS
<1> HIDE DEF L, msgs2
<1>2. ASSUME NEW k \in 1 .. L + 1
      PROVE  msgs2[k].kind = "get" => NodeOf[msgs2[k].client] = n
  BY <1>1 DEF MsgsOk
<1>3. MsgsOk(n, FALSE, <<>>, msgs2)
  BY <1>1, <1>2 DEF MsgsOk
<1> QED BY <1>3 DEF msgs2

LEMMA MsgsClientEvent ==
    ASSUME TypesInv, ConnsInv, MsgsInv, NEW n \in Nodes, NdClientEvent(n)
    PROVE  MsgsInv'
<1> DEFINE e == Head(inbox[n])
<1>1. /\ nd[n].up /\ inbox[n] # <<>>
      /\ inbox[n] \in Seq(Events) /\ nd[n].conns \in Seq(Conns)
      /\ toSd[n] \in Seq(Messages) /\ toSd \in [Nodes -> Seq(Messages)]
      /\ nd \in [Nodes -> Daemons]
  BY DEF NdClientEvent, TypesInv, NdTypes, Daemons
<1>2. e \in Events /\ e = inbox[n][1] /\ 1 \in 1 .. Len(inbox[n])
  BY <1>1
<1>3. ConnsOk(n, nd[n].conns, inbox[n], proc)
  BY <1>1 DEF ConnsInv
<1>4. Has(nd[n].conns, e.from) /\ UniqueConns(nd[n].conns)
  BY <1>2, <1>3 DEF ConnsOk, EventsOfConns
<1>5. \/ e.kind = "get" /\ nd[n].known /\ NdGetChannel(n, e)
      \/ UNCHANGED <<nd, toSd>>
      \/ NdRemoveClient(n, e.from)
  BY <1>2, EventKinds DEF NdClientEvent, NdGetChannel
<1>6. MsgsOk(n, nd[n].up, nd[n].conns, toSd[n])
  BY DEF MsgsInv
<1> HIDE DEF e
<1>7. CASE e.kind = "get" /\ nd[n].known /\ NdGetChannel(n, e)
  <2> DEFINE i == ConnOf(n, e.from)
             m == [kind |-> "get", client |-> e.from.client, tag |-> e.tag, qp |-> e.qp]
  <2>0. NdTypes /\ e.kind = "get" /\ nd[n].known /\ NdGetChannel(n, e) /\ e \in Events
        /\ Has(nd[n].conns, e.from)
    BY <1>2, <1>4, <1>7 DEF TypesInv
  <2>1. \A x \in Nodes : nd'[x].up = nd[x].up /\ nd'[x].known = nd[x].known
    BY <2>0, NdGetChannelStep
  <2>a. \A x \in Nodes : x # n => nd'[x].conns = nd[x].conns
    BY <2>0, NdGetChannelStep
  <2>2. i \in 1 .. Len(nd[n].conns) /\ Same(nd[n].conns[i], e.from)
    BY <2>0, NdGetChannelStep
  <2>3. /\ Len(nd'[n].conns) = Len(nd[n].conns)
        /\ \A j \in 1 .. Len(nd[n].conns) : j # i => nd'[n].conns[j] = nd[n].conns[j]
    BY <2>0, NdGetChannelStep
  <2>4. nd'[n].conns[i].tags = nd[n].conns[i].tags \cup {e.tag}
        /\ nd'[n].conns[i].client = nd[n].conns[i].client
    <3>1. nd'[n].conns[i] = [client |-> nd[n].conns[i].client,
                             run |-> nd[n].conns[i].run,
                             tags |-> nd[n].conns[i].tags \cup {e.tag},
                             pending |-> nd[n].conns[i].pending \cup {e.tag}]
      BY <2>0, NdGetChannelStep
    <3> QED BY <3>1
  <2>5. m \in Messages /\ m.kind = "get" /\ m.tag = e.tag /\ m.client = e.from.client
    BY <2>0, NdGetChannelStep
  <2>6. toSd' = [toSd EXCEPT ![n] = Append(@, m)]
    BY <2>0, NdGetChannelStep
  <2> HIDE DEF i, m
  <2>7. toSd'[n] = Append(toSd[n], m) /\ \A x \in Nodes : x # n => toSd'[x] = toSd[x]
    BY <1>1, <2>6
  <2>8. nd[n].conns[i].client = m.client /\ NodeOf[m.client] = n
    BY <1>3, <2>2, <2>5 DEF ConnsOk, LiveOrClosing, Same
  <2> DEFINE conns == nd[n].conns
             conns2 == nd'[n].conns
             msgs == toSd[n]
             up == nd[n].up
  <2>9. MsgsOk(n, up, conns2, Append(msgs, m))
    <3>1. /\ msgs \in Seq(Messages) /\ MsgsOk(n, up, conns, msgs)
          /\ m \in Messages /\ m.kind = "get" /\ NodeOf[m.client] = n
          /\ Len(conns2) = Len(conns) /\ i \in 1 .. Len(conns)
          /\ conns2[i].client = m.client
          /\ \A j \in 1 .. Len(conns) : j # i => conns2[j] = conns[j]
          /\ conns2[i].client = conns[i].client
          /\ conns2[i].tags = conns[i].tags \cup {m.tag}
      BY <1>1, <1>6, <2>2, <2>3, <2>4, <2>5, <2>8
    <3> HIDE DEF conns, conns2, msgs, up
    <3> QED BY <3>1, MsgsRequested
  <2>10. nd'[n].up = up /\ toSd'[n] = Append(msgs, m)
    BY <2>1, <2>7
  <2> HIDE DEF up, msgs
  <2> QED BY <2>1, <2>a, <2>7, <2>9, <2>10, MsgsOfOne
<1>8. CASE UNCHANGED <<nd, toSd>>
  BY <1>8, MsgsFrame
<1>9. CASE NdRemoveClient(n, e.from)
  <2> DEFINE i == ConnOf(n, e.from)
             unused == Unused(nd[n].conns, i)
             unrefs == UnrefsFor(unused)
  <2>0. NdTypes /\ NdRemoveClient(n, e.from) /\ Has(nd[n].conns, e.from)
    BY <1>4, <1>9 DEF TypesInv
  <2>1. /\ i \in 1 .. Len(nd[n].conns)
        /\ \A x \in Nodes : x # n => nd'[x].conns = nd[x].conns
        /\ nd'[n].conns = RemoveAt(nd[n].conns, i)
    BY <2>0, NdRemoveClientStep
  <2>a. \A x \in Nodes : nd'[x].up = nd[x].up /\ nd'[x].known = nd[x].known
    BY <2>0, NdRemoveClientStep
  <2>2. unused \in SUBSET AllTags
    BY <2>0, NdRemoveClientStep
  <2>3. toSd' = [toSd EXCEPT ![n] = @ \o unrefs]
    BY <2>0, NdRemoveClientStep
  <2> HIDE DEF i
  <2>4. unused = Unused(nd[n].conns, i)
    OBVIOUS
  <2> HIDE DEF unused
  <2>5. /\ unrefs \in Seq(Messages)
        /\ \A k \in 1 .. Len(unrefs) : unrefs[k].kind = "unref" /\ unrefs[k].tag \in unused
    BY <2>2, UnrefsForFacts
  <2> HIDE DEF unrefs
  <2>6. toSd'[n] = toSd[n] \o unrefs /\ \A x \in Nodes : x # n => toSd'[x] = toSd[x]
    BY <1>1, <2>3
  <2> DEFINE conns == nd[n].conns
             msgs == toSd[n]
             up == nd[n].up
  <2>7. MsgsOk(n, up, RemoveAt(conns, i), msgs \o unrefs)
    <3>1. /\ conns \in Seq(Conns) /\ UniqueConns(conns) /\ msgs \in Seq(Messages)
          /\ MsgsOk(n, up, conns, msgs) /\ i \in 1 .. Len(conns) /\ unrefs \in Seq(Messages)
          /\ \A k \in 1 .. Len(unrefs) :
                unrefs[k].kind = "unref" /\ unrefs[k].tag \in Unused(conns, i)
      BY <1>1, <1>4, <1>6, <2>1, <2>4, <2>5
    <3> HIDE DEF conns, msgs, up
    <3> QED BY <3>1, MsgsUnreferenced
  <2>8. nd'[n].up = up /\ nd'[n].conns = RemoveAt(conns, i) /\ toSd'[n] = msgs \o unrefs
    BY <2>1, <2>a, <2>6
  <2> HIDE DEF conns, msgs, up
  <2> QED BY <2>1, <2>a, <2>6, <2>7, <2>8, MsgsOfOne
<1> QED BY <1>5, <1>7, <1>8, <1>9

LEMMA MsgsNext ==
    ASSUME TypesInv, ConnsInv, MsgsInv, [ControlNext]_controlVars
    PROVE  MsgsInv'
<1>1. ASSUME NEW c \in Clients, Start(c)
      PROVE  MsgsInv'
  <2> DEFINE m == NodeOf[c]
             new == [client |-> c, run |-> proc[c].run + 1, tags |-> {}, pending |-> {}]
             conns == nd[m].conns
  <2>1. /\ m \in Nodes /\ conns \in Seq(Conns) /\ nd \in [Nodes -> Daemons]
        /\ MsgsOk(m, nd[m].up, conns, toSd[m])
    BY ConstantTypes DEF TypesInv, NdTypes, Daemons, MsgsInv
  <2>2. new \in Conns /\ new.tags = {}
    <3>1. proc[c].run + 1 \in 1 .. MaxRuns
      BY <1>1, ConstantTypes DEF Start, TypesInv, ClientTypes, Processes
    <3> QED BY <3>1 DEF Conns
  <2>3. toSd' = toSd /\ nd' = [nd EXCEPT ![m].conns = Append(@, new)]
    BY <1>1 DEF Start
  <2> HIDE DEF m, new
  <2>4. /\ nd'[m].conns = Append(conns, new) /\ nd'[m].up = nd[m].up
        /\ \A x \in Nodes : x # m => nd'[x] = nd[x]
    BY <2>1, <2>3 DEF Daemons
  <2>5. MsgsOk(m, nd[m].up, Append(conns, new), toSd[m])
    <3> HIDE DEF conns
    <3> QED BY <2>1, <2>2, MsgsConnected
  <2> HIDE DEF conns
  <2> QED BY <2>1, <2>3, <2>4, <2>5, MsgsOfOne
<1>2. ASSUME NEW c \in Clients, GetChannel(c) \/ ReadReply(c) \/ Exit(c) \/ Kill(c)
      PROVE  MsgsInv'
  <2>1. UNCHANGED <<nd, toSd>>
    BY <1>2 DEF GetChannel, ReadReply, Exit, Kill, End, ndVars
  <2> QED BY <2>1, MsgsFrame
<1>3. ASSUME NEW n \in Nodes, Discover(n)
      PROVE  MsgsInv'
  <2>1. toSd' = toSd /\ nd' = [nd EXCEPT ![n].known = TRUE]
    BY <1>3 DEF Discover
  <2>2. \A x \in Nodes : nd'[x].conns = nd[x].conns /\ nd'[x].up = nd[x].up
    BY <2>1 DEF TypesInv, NdTypes, Daemons
  <2> QED BY <2>1, <2>2, MsgsFrame
<1>4. ASSUME NEW n \in Nodes, NdSwitchEvent(n)
      PROVE  MsgsInv'
  <2>1. UNCHANGED <<nd, toSd>> \/ NdDies(n)
    BY <1>4, NdSwitchEventStep
  <2>2. CASE UNCHANGED <<nd, toSd>>
    BY <2>2, MsgsFrame
  <2>3. CASE NdDies(n)
    <3>1. /\ \A x \in Nodes : x # n => nd'[x] = nd[x]
          /\ nd'[n].conns = <<>> /\ ~nd'[n].up /\ nd' \in [Nodes -> Daemons]
      BY <2>3, NdDiesStep DEF TypesInv
    <3>2. PICK kind \in {"eof", "reset"} :
            /\ [kind |-> kind] \in Messages
            /\ toSd' = [toSd EXCEPT ![n] = Append(@, [kind |-> kind])]
      BY <2>3, NdDiesStep DEF TypesInv
    <3> DEFINE m == [kind |-> kind]
               msgs == Append(toSd[n], m)
    <3>3. m \in Messages /\ m.kind \in {"eof", "reset"} /\ toSd' = [toSd EXCEPT ![n] = Append(@, m)]
      BY <3>2
    <3> HIDE DEF m
    <3>4. /\ toSd \in [Nodes -> Seq(Messages)] /\ toSd[n] \in Seq(Messages)
          /\ MsgsOk(n, nd[n].up, nd[n].conns, toSd[n])
      BY DEF TypesInv, NdTypes, MsgsInv
    <3>5. toSd'[n] = msgs /\ \A x \in Nodes : x # n => toSd'[x] = toSd[x]
      BY <3>3, <3>4
    <3>6. MsgsOk(n, FALSE, <<>>, msgs)
      BY <3>3, <3>4, MsgsEnded
    <3>7. nd'[n].up = FALSE
      BY <3>1 DEF Daemons
    <3> HIDE DEF msgs
    <3> QED BY <3>1, <3>5, <3>6, <3>7, MsgsOfOne
  <2> QED BY <2>1, <2>2, <2>3
<1>5. ASSUME NEW n \in Nodes, SdEvent(n)
      PROVE  MsgsInv'
  <2>1. /\ toSd[n] # <<>> /\ toSd[n] \in Seq(Messages)
        /\ toSd'[n] \in AfterOne(toSd[n])
        /\ \A x \in Nodes : x # n => toSd'[x] = toSd[x]
        /\ nd' = nd
    BY <1>5, SdEventStep
  <2>2. MsgsOk(n, nd[n].up, nd[n].conns, toSd[n])
    BY DEF MsgsInv
  <2> DEFINE rest == toSd'[n]
             msgs == toSd[n]
  <2>3. MsgsOk(n, nd[n].up, nd[n].conns, rest)
    <3>1. msgs \in Seq(Messages) /\ msgs # <<>> /\ rest \in AfterOne(msgs)
          /\ MsgsOk(n, nd[n].up, nd[n].conns, msgs)
      BY <2>1, <2>2
    <3> HIDE DEF rest, msgs
    <3> QED BY <3>1, MsgsHandled
  <2>4. nd'[n].up = nd[n].up /\ nd'[n].conns = nd[n].conns /\ toSd'[n] = rest
    BY <2>1
  <2> HIDE DEF rest
  <2> QED BY <2>1, <2>3, <2>4, MsgsOfOne
<1>6. CASE UNCHANGED controlVars
  BY <1>6, MsgsFrame DEF controlVars, ndVars
<1> QED BY <1>1, <1>2, <1>3, <1>4, <1>5, <1>6, MsgsClientEvent DEF ControlNext, AllEnded

LEMMA MsgsInit ==
    ASSUME ControlInit
    PROVE  MsgsInv
BY DEF ControlInit, MsgsInv, MsgsOk

-----------------------------------------------------------------------------
(* The channels and the tables after the agent's handlers. *)

LEMMA ChannelsRegistered ==
    ASSUME NEW n \in Nodes, NEW msg \in Messages, SdTypes, ChannelsOk(channels),
           msg.kind = "get", NodeOf[msg.client] = n,
           msg.tag \in Tags(channels) \/ CanAllocate(channels)
    PROVE  /\ ChannelsOk(UpdatedFor(n, msg))
           /\ Follows(channels, UpdatedFor(n, msg))
<1> DEFINE tag == msg.tag
           c == msg.client
           old == AddedFor(msg)
           new == UpdatedFor(n, msg)
<1>1. c \in Clients /\ tag \in AllTags
  BY MessageKinds
<1>2. /\ old \in [Tags(channels) \cup {tag} -> Channels]
      /\ \A t \in Tags(channels) : old[t] = channels[t]
  BY <1>1, AddingTypes
<1>3. tag \notin Tags(channels) =>
         /\ old[tag].parts = [i \in Clients |-> Unknown]
         /\ \A t \in Tags(channels) : /\ channels[t].unit # old[tag].unit
                                      /\ channels[t].common # old[tag].common
  BY <1>1, AddingTypes
<1>4. /\ new \in [Tags(channels) \cup {tag} -> Channels]
      /\ \A t \in Tags(channels) : t # tag => new[t] = channels[t]
      /\ new[tag].unit = old[tag].unit /\ new[tag].common = old[tag].common
  BY RegisteringTypes
<1>5. new[tag].parts[c] = [node |-> n, qp |-> msg.qp, fqp |-> FqpFor(n, msg)]
  BY RegisteringTypes
<1>6. \A d \in Clients : d # c => new[tag].parts[d] = old[tag].parts[d]
  BY RegisteringTypes
<1>7. FqpFor(n, msg)[1] = old[tag].common
  <2>1. old[tag] \in Channels
    BY <1>2
  <2>2. NextFabricQp(old[tag], n)
          = <<old[tag].common, Cardinality({i \in Clients : old[tag].parts[i].node = n}) % 256>>
    BY <2>1, NextFabricQpType
  <2>3. FqpFor(n, msg) = NextFabricQp(old[tag], n)
    BY DEF FqpFor
  <2> HIDE DEF old
  <2> QED BY <2>2, <2>3
<1>8. NodeOf[c] = n
  OBVIOUS
<1> HIDE DEF tag, c, old, new
<1>9. Tags(new) = Tags(channels) \cup {tag}
  BY <1>4 DEF Tags
<1>10. \A s, t \in Tags(new) : s # t => new[s].unit # new[t].unit /\ new[s].common # new[t].common
  <2>1. \A s, t \in Tags(channels) : s # t =>
           channels[s].unit # channels[t].unit /\ channels[s].common # channels[t].common
    BY DEF ChannelsOk
  <2>2. \A t \in Tags(channels) : new[t].unit = channels[t].unit /\ new[t].common = channels[t].common
    BY <1>2, <1>4
  <2>3. \A t \in Tags(channels) : t # tag =>
           new[t].unit # new[tag].unit /\ new[t].common # new[tag].common
    <3>1. CASE tag \in Tags(channels)
      BY <2>1, <2>2, <3>1
    <3>2. CASE tag \notin Tags(channels)
      BY <1>3, <1>4, <2>2, <3>2
    <3> QED BY <3>1, <3>2
  <2> QED BY <1>9, <2>1, <2>2, <2>3
<1>11. ASSUME NEW t \in Tags(new), NEW i \in Clients, new[t].parts[i] # Unknown
       PROVE  new[t].parts[i].node = NodeOf[i] /\ new[t].parts[i].fqp[1] = new[t].common
  <2>1. CASE t = tag /\ i = c
    BY <1>4, <1>5, <1>7, <1>8, <2>1
  <2>2. CASE t = tag /\ i # c
    <3>1. new[t].parts[i] = old[tag].parts[i] /\ tag \in Tags(channels)
      BY <1>3, <1>6, <1>11, <2>2
    <3>2. old[tag] = channels[tag]
      BY <1>2, <3>1
    <3> QED BY <1>4, <1>11, <2>2, <3>1, <3>2 DEF ChannelsOk
  <2>3. CASE t # tag
    <3>1. t \in Tags(channels) /\ new[t] = channels[t]
      BY <1>4, <1>9, <2>3
    <3> QED BY <1>11, <3>1 DEF ChannelsOk
  <2> QED BY <2>1, <2>2, <2>3
<1>12. ChannelsOk(new)
  <2>1. Tags(new) \subseteq AllTags /\ new \in [Tags(new) -> Channels]
    BY <1>1, <1>4, <1>9 DEF ChannelsOk
  <2> QED BY <1>10, <1>11, <2>1 DEF ChannelsOk
<1>13. Follows(channels, new)
  <2>1. SUFFICES ASSUME NEW s \in Known(channels), NEW t \in Known(new),
                        channels[s].unit = new[t].unit
                 PROVE  s = t /\ channels[s].common = new[t].common
    BY DEF Follows
  <2>2. s \in Tags(new) /\ t \in Tags(new) /\ s \in Tags(channels)
    BY <1>9 DEF Known
  <2>3. new[s].unit = channels[s].unit /\ new[s].common = channels[s].common
    BY <1>2, <1>4, <2>2
  <2> QED BY <1>10, <2>1, <2>2, <2>3
<1> QED BY <1>12, <1>13 DEF new

LEMMA ChannelsRemoved ==
    ASSUME NEW chs, NEW tags, ChannelsOk(chs)
    PROVE  /\ ChannelsOk(RemoveChannels(chs, tags))
           /\ Follows(chs, RemoveChannels(chs, tags))
<1> DEFINE new == RemoveChannels(chs, tags)
<1>1. new = [t \in Tags(chs) \ tags |-> chs[t]]
  BY DEF RemoveChannels, Restrict
<1> HIDE DEF new
<1>2. Tags(new) = Tags(chs) \ tags /\ \A t \in Tags(new) : t \in Tags(chs) /\ new[t] = chs[t]
  BY <1>1 DEF Tags
<1>3. Tags(new) \subseteq AllTags /\ new \in [Tags(new) -> Channels]
  BY <1>1, <1>2 DEF ChannelsOk
<1>4. ChannelsOk(new)
  BY <1>2, <1>3 DEF ChannelsOk
<1>5. Follows(chs, new)
  BY <1>2 DEF Follows, Known, ChannelsOk
<1> QED BY <1>4, <1>5 DEF new

ReposInv == ChannelsOk(channels) /\ TablesOk(tables, channels)

\* check_remove_channel leaves the tables with what the remaining channels need.
LEMMA ReposRemoved ==
    ASSUME NEW tags, SdTypes, ReposInv, RemoveUnowned(tags)
    PROVE  ReposInv'
<1> DEFINE unowned == Unowned(tags, owns')
<1>1. /\ channels' = RemoveChannels(channels, unowned)
      /\ tables' = IF unowned = {} THEN tables ELSE Reconfigure(tables, channels')
  BY DEF RemoveUnowned
<1> HIDE DEF unowned
<1>2. ChannelsOk(channels) /\ TablesOk(tables, channels)
  BY DEF ReposInv
<1> DEFINE chs2 == channels'
<1>3. ChannelsOk(chs2) /\ Follows(channels, chs2)
  BY <1>1, <1>2, ChannelsRemoved
<1>4. CASE unowned = {}
  <2>1. RemoveChannels(channels, unowned) = [t \in Tags(channels) |-> channels[t]]
    BY <1>4 DEF RemoveChannels, Restrict
  <2>2. channels = [t \in Tags(channels) |-> channels[t]]
    BY DEF SdTypes
  <2> QED BY <1>1, <1>2, <1>4, <2>1, <2>2 DEF ReposInv, ChannelsOk, TablesOk, Fits, Serves, Tags, Known
<1>5. CASE unowned # {}
  <2>1. tables' = Reconfigure(tables, chs2)
    BY <1>1, <1>5
  <2> HIDE DEF chs2
  <2>2. TablesOk(Reconfigure(tables, chs2), chs2)
    BY <1>2, <1>3, ReconfigureFits
  <2>3. chs2 = channels'
    BY DEF chs2
  <2> QED BY <1>3, <2>1, <2>2, <2>3 DEF ReposInv
<1> QED BY <1>4, <1>5

\* So does a request that is registered.
LEMMA ReposRegistered ==
    ASSUME NEW n \in Nodes, NEW msg \in Messages, SdTypes, ReposInv,
           msg.kind = "get", NodeOf[msg.client] = n,
           msg.tag \in Tags(channels) \/ CanAllocate(channels), SdGetChannel(n, msg)
    PROVE  ReposInv'
<1> DEFINE chs2 == UpdatedFor(n, msg)
<1>1. ChannelsOk(channels) /\ TablesOk(tables, channels)
  BY DEF ReposInv
<1>2. ChannelsOk(chs2) /\ Follows(channels, chs2)
  BY <1>1, ChannelsRegistered
<1>3. /\ channels' = chs2
      /\ tables' = IF chs2 # channels THEN Reconfigure(tables, channels') ELSE tables
  BY SdGetParts
<1> HIDE DEF chs2
<1>4. TablesOk(Reconfigure(tables, chs2), chs2)
  BY <1>1, <1>2, ReconfigureFits
<1>5. TablesOk(tables', channels')
  BY <1>1, <1>3, <1>4
<1> QED BY <1>2, <1>3, <1>5 DEF ReposInv

LEMMA ReposSdEvent ==
    ASSUME TypesInv, MsgsInv, ReposInv, NEW n \in Nodes, SdEvent(n)
    PROVE  ReposInv'
<1> DEFINE msg == Head(toSd[n])
<1>1. /\ sdUp /\ msg \in Messages /\ msg = toSd[n][1] /\ 1 \in 1 .. Len(toSd[n])
      /\ \/ /\ msg.kind = "get"
            /\ msg.tag \in Tags(channels) \/ CanAllocate(channels)
            /\ SdGetChannel(n, msg)
         \/ SdFails
         \/ msg.kind = "unref" /\ SdUnrefChannel(n, msg.tag)
         \/ msg.kind = "eof" /\ SdDisconnect(n)
  BY SdEventStep
<1> HIDE DEF msg
<1>2. SdTypes
  BY DEF TypesInv
<1>3. CASE UNCHANGED <<channels, tables>>
  <2>1. channels' = channels /\ tables' = tables
    BY <1>3
  <2> QED BY <2>1 DEF ReposInv
<1>4. CASE /\ msg.kind = "get"
           /\ msg.tag \in Tags(channels) \/ CanAllocate(channels)
           /\ SdGetChannel(n, msg)
  <2>1. NodeOf[msg.client] = n
    BY <1>1, <1>4 DEF MsgsInv, MsgsOk
  <2> QED BY <1>1, <1>2, <1>4, <2>1, ReposRegistered
<1>5. CASE msg.kind = "unref" /\ SdUnrefChannel(n, msg.tag)
  <2>1. RemoveUnowned({msg.tag}) \/ UNCHANGED <<channels, tables>>
    BY <1>5 DEF SdUnrefChannel, sdVars
  <2> QED BY <1>2, <1>3, <2>1, ReposRemoved
<1>6. CASE msg.kind = "eof" /\ SdDisconnect(n)
  BY <1>2, <1>6, ReposRemoved DEF SdDisconnect
<1> QED BY <1>1, <1>3, <1>4, <1>5, <1>6 DEF SdFails

LEMMA ReposNext ==
    ASSUME TypesInv, MsgsInv, ReposInv, [ControlNext]_controlVars
    PROVE  ReposInv'
<1>1. CASE UNCHANGED <<channels, tables>>
  <2>1. channels' = channels /\ tables' = tables
    BY <1>1
  <2> QED BY <2>1 DEF ReposInv
<1>2. ASSUME NEW c \in Clients,
             Start(c) \/ GetChannel(c) \/ ReadReply(c) \/ Exit(c) \/ Kill(c)
      PROVE  UNCHANGED <<channels, tables>>
  BY <1>2 DEF Start, GetChannel, ReadReply, Exit, Kill, End, sdVars
<1>3. ASSUME NEW n \in Nodes, Discover(n) \/ NdClientEvent(n) \/ NdSwitchEvent(n)
      PROVE  UNCHANGED <<channels, tables>>
  BY <1>3 DEF Discover, NdClientEvent, NdSwitchEvent, sdVars
<1>4. CASE UNCHANGED controlVars
  BY <1>1, <1>4 DEF controlVars, sdVars
<1> QED BY <1>1, <1>2, <1>3, <1>4, ReposSdEvent DEF ControlNext, AllEnded

LEMMA ReposInit ==
    ASSUME ControlInit
    PROVE  ReposInv
<1>1. channels = NoChannels /\ tables = NoTables
  BY DEF ControlInit
<1>2. ChannelsOk(NoChannels)
  BY DEF ChannelsOk, NoChannels, Tags
<1> QED BY <1>1, <1>2, NothingFits DEF ReposInv

LEMMA ReposHold == ControlSpec => [](MsgsInv /\ ReposInv)
<1>1. ControlInit => MsgsInv /\ ReposInv
  BY MsgsInit, ReposInit
<1>2. /\ TypesInv /\ ConnsInv /\ MsgsInv /\ ReposInv /\ [ControlNext]_controlVars
      => (MsgsInv /\ ReposInv)'
  BY MsgsNext, ReposNext
<1> QED BY <1>1, <1>2, TypesHold, PTL DEF ControlSpec

-----------------------------------------------------------------------------
\* When nobody is left and every message has been handled, nothing is left: no
\* connection, so no user, so no owner, so no channel, so no entry of a table.
LEMMA QuietIsEmpty ==
    ASSUME TypesInv, ConnsInv, OwnersInv, OwnedInv, ReposInv
    PROVE  NothingLeftBehind
<1>1. SUFFICES ASSUME sdUp, \A c \in Clients : proc[c].state = "down",
                      \A n \in Nodes : inbox[n] = <<>> /\ toSd[n] = <<>>
               PROVE  channels = NoChannels /\ tables = NoTables
  BY DEF NothingLeftBehind
<1>2. ASSUME NEW n \in Nodes
      PROVE  nd[n].conns = <<>>
  <2>1. CASE ~nd[n].up
    BY <2>1 DEF ConnsInv
  <2>2. CASE nd[n].up
    <3>1. LiveOrClosing(n, nd[n].conns, inbox[n], proc)
      BY <2>2 DEF ConnsInv, ConnsOk
    <3>2. nd[n].conns \in Seq(Conns)
      BY DEF TypesInv, NdTypes, Daemons
    <3>3. ASSUME NEW i \in 1 .. Len(nd[n].conns)
          PROVE  FALSE
      <4>0. nd[n].conns[i] \in Conns
        BY <3>2, <3>3
      <4>1. nd[n].conns[i].client \in Clients
        BY <4>0 DEF Conns
      <4>2. ~Lives(proc, nd[n].conns[i])
        BY <1>1, <4>1 DEF Lives
      <4>3. ~Closing(inbox[n], nd[n].conns[i])
        BY <1>1 DEF Closing
      <4> QED BY <3>1, <3>3, <4>2, <4>3 DEF LiveOrClosing
    <3> QED BY <3>2, <3>3
  <2> QED BY <2>1, <2>2
<1>3. ASSUME NEW n \in Nodes, NEW t \in owns[n]
      PROVE  FALSE
  <2>1. t \notin Users(n)
    BY <1>2 DEF Users
  <2>2. WillKeep(owns[n], toSd[n], t)
    BY <1>1, <1>3 DEF WillKeep, Lasts
  <2> QED BY <1>1, <2>1, <2>2 DEF OwnersInv
<1>4. Tags(channels) = {}
  BY <1>1, <1>3 DEF OwnedInv
<1>5. channels = NoChannels
  BY <1>4 DEF TypesInv, SdTypes, NoChannels, Tags
<1>6. Known(channels) = {} /\ Fits(tables, channels)
  BY <1>4 DEF Known, ReposInv, TablesOk
<1>7. tables = NoTables
  BY <1>6, FitsNothing
<1> QED BY <1>5, <1>7

\* A job leaves nothing behind (remove_client, check_remove_channel and the clean-up
\* of on_st_repo_channels): whatever happened before, once every process has ended
\* and all messages have been handled, there is no channel in the repository and no
\* entry in the tables of the switch.
THEOREM JobsLeaveNothing == ControlSpec => []NothingLeftBehind
<1>1. TypesInv /\ ConnsInv /\ OwnersInv /\ OwnedInv /\ ReposInv => NothingLeftBehind
  BY QuietIsEmpty
<1> QED BY <1>1, TypesHold, OwnersHold, ReposHold, PTL
=============================================================================
