----------------------------- MODULE ASICDriver -----------------------------
(***************************************************************************)
(* How the switch daemon turns the repository's channels into entries of   *)
(* the switch's tables: on_st_repo_channels (sd/asic_driver.cc).  It runs  *)
(* inside every change of the repository, adds or overwrites the entries   *)
(* of every channel whose participants are all known, in the order of      *)
(* their tags, and then deletes the entries of units that no such channel  *)
(* uses.  Entries of a unit that stays in use are never deleted.           *)
(*                                                                         *)
(* An update that throws has written and deleted some entries by then; as  *)
(* the daemon ends, Reconfigure is never used for one.                     *)
(*                                                                         *)
(* Left out: the ACK reflector (the queue pairs are unreliable and never   *)
(* acknowledge), choose_action and the entries of the clear pass (the same *)
(* for every unit).                                                        *)
(***************************************************************************)
EXTENDS StateRepository, SequencesExt

CONSTANT PortOf   \* PortOf[n]: the switch port of node n

\* Node ports are on pipes 0 and 3; pipes 1 and 2 serve them for recirculation.
PipeOfNode(n) == PortOf[n] \div 128

NoTables ==
    [selector |-> <<>>,    \* unit_selector: <<source, fabric QP>> -> unit, bit
     complete |-> {},      \* check_complete: <<unit, pipe, full bitmap>>
     output |-> <<>>,      \* output_address: <<pipe, unit, rid>> -> node, QP
     mcNode |-> <<>>,      \* pre.node: node id -> port, rid
     mcGroup |-> <<>>]     \* pre.mgid: unit -> node ids

-----------------------------------------------------------------------------
(* The entries of one channel.  Participants are visited by client id.      *)

Ids(ch) == DOMAIN ch.parts

OnPipe(ch, pipe) == {i \in Ids(ch) : PipeOfNode(ch.parts[i].node) = pipe}

\* pos of a participant, and its bit among those on its pipe.
Position(ch, i) == Cardinality({j \in Ids(ch) : j <= i})

Bit(ch, i) ==
    Cardinality({j \in OnPipe(ch, PipeOfNode(ch.parts[i].node)) : j <= i})

BothPipes(ch) == OnPipe(ch, 0) # {} /\ OnPipe(ch, 3) # {}

\* The key of a participant's packets, and of those from pipe 0 at pipe 3.
SelectorKey(p) == <<p.node, p.fqp>>

RecircKey(ch) == <<"recirculated", ch.common>>

PipeOfKey(key) == IF key[1] = "recirculated" THEN 3 ELSE PipeOfNode(key[1])

SelectorEntries(ch) ==
    LET keys == {SelectorKey(ch.parts[i]) : i \in Ids(ch)}
        last(k) == Max({i \in Ids(ch) : SelectorKey(ch.parts[i]) = k})
        recirc == IF BothPipes(ch) THEN {RecircKey(ch)} ELSE {}
    IN  [k \in keys \cup recirc |->
            [unit |-> ch.unit,
             bit |-> IF k \in recirc THEN Cardinality(OnPipe(ch, 3)) + 1
                                     ELSE Bit(ch, last(k))]]

\* The full bitmap of a pipe: its clients, and at pipe 3 one bit for pipe 0.
FullBits(ch, pipe) ==
    1 .. Cardinality(OnPipe(ch, pipe)) + (IF pipe = 3 /\ BothPipes(ch) THEN 1 ELSE 0)

CompleteEntries(ch) ==
    {<<ch.unit, pipe, FullBits(ch, pipe)>> : pipe \in {x \in {0, 3} : OnPipe(ch, x) # {}}}

OutputEntries(ch) ==
    LET key(i) == <<PipeOfNode(ch.parts[i].node), ch.unit, Position(ch, i)>>
        at(k) == CHOOSE i \in Ids(ch) : key(i) = k
    IN  [k \in {key(i) : i \in Ids(ch)} |->
            [node |-> ch.parts[at(k)].node, qp |-> ch.parts[at(k)].qp]]

\* Eight units share a block of node ids.
McNodeId(ch, pos) == <<ch.unit \div 8, pos - 1>>

McNodes(ch) == {McNodeId(ch, pos) : pos \in 1 .. Cardinality(Ids(ch))}

McNodeEntries(ch) ==
    LET at(x) == CHOOSE i \in Ids(ch) : McNodeId(ch, Position(ch, i)) = x
    IN  [x \in McNodes(ch) |->
            [port |-> PortOf[ch.parts[at(x)].node], rid |-> Position(ch, at(x))]]

McGroupEntries(ch) == [unit \in {ch.unit} |-> McNodes(ch)]

-----------------------------------------------------------------------------
(* All channels.  The code writes the entries of all known channels and then *)
(* deletes those of unused units; as no written entry is deleted, the order  *)
(* makes no difference.                                                      *)

Known(channels) == {t \in Tags(channels) : AllKnown(channels[t])}

UnitsInUse(channels) == {channels[t].unit : t \in Known(channels)}

McNodesInUse(channels) == UNION {McNodes(channels[t]) : t \in Known(channels)}

\* table_add_or_mod for some entries of a table.
Put(entries, table) ==
    [k \in DOMAIN entries \cup DOMAIN table |->
        IF k \in DOMAIN entries THEN entries[k] ELSE table[k]]

\* The entries of every known channel.
All(Entries(_), channels) == [t \in Known(channels) |-> Entries(channels[t])]

\* Entries are written in the order of the tags: the last writer of a key wins.
Written(table, entries) ==
    LET writers(k) == {t \in DOMAIN entries : k \in DOMAIN entries[t]}
    IN  [k \in DOMAIN table \cup UNION {DOMAIN entries[t] : t \in DOMAIN entries} |->
            IF writers(k) = {} THEN table[k] ELSE entries[Max(writers(k))][k]]

Keep(table, Wanted(_)) == Restrict(table, {k \in DOMAIN table : Wanted(k)})

\* Faulty variant: nothing is deleted.
ReconfigureNoDelete(tables, channels) ==
    [selector |-> Written(tables.selector, All(SelectorEntries, channels)),
     complete |-> tables.complete \cup
                      UNION {CompleteEntries(channels[t]) : t \in Known(channels)},
     output |-> Written(tables.output, All(OutputEntries, channels)),
     mcNode |-> Written(tables.mcNode, All(McNodeEntries, channels)),
     mcGroup |-> Written(tables.mcGroup, All(McGroupEntries, channels))]

Reconfigure(tables, channels) ==
    LET used(unit) == unit \in UnitsInUse(channels)
    IN  [selector |-> Written(Keep(tables.selector, LAMBDA k : used(tables.selector[k].unit)),
                              All(SelectorEntries, channels)),
         complete |-> {e \in tables.complete : used(e[1])} \cup
                          UNION {CompleteEntries(channels[t]) : t \in Known(channels)},
         output |-> Written(Keep(tables.output, LAMBDA k : used(k[2])),
                            All(OutputEntries, channels)),
         mcNode |-> Written(Keep(tables.mcNode, LAMBDA x : x \in McNodesInUse(channels)),
                            All(McNodeEntries, channels)),
         mcGroup |-> Written(Keep(tables.mcGroup, used), All(McGroupEntries, channels))]

\* The clients that the 64 bits of a pipe's bitmap are enough for; the check keeps
\* bits of pipe 3 back.
PipeLimit(pipe) == IF pipe = 3 THEN 61 ELSE 64

\* There are registers of 64 units; those of others, which are to be cleared when
\* they lose selector entries, do not exist.
RegisterUnits == 64

\* The exceptions of an update, which end the daemon: "Too many clients per pipe",
\* and "Clear values register failed".
UpdateFails(tables, channels) ==
    \/ \E t \in Known(channels), pipe \in {0, 3} :
          Cardinality(OnPipe(channels[t], pipe)) > PipeLimit(pipe)
    \/ \E k \in DOMAIN tables.selector :
          /\ tables.selector[k].unit >= RegisterUnits
          /\ k \notin DOMAIN Reconfigure(tables, channels).selector

-----------------------------------------------------------------------------
(* What the tables do with a channel's packets. *)

\* The copies of a result of a unit that leave the switch: port and address.
Copies(tables, unit) ==
    LET copy(x) == LET at == tables.mcNode[x]
                   IN  <<at.port, tables.output[<<at.port \div 128, unit, at.rid>>]>>
        made == {x \in tables.mcGroup[unit] :
                    LET at == tables.mcNode[x]
                    IN  <<at.port \div 128, unit, at.rid>> \in DOMAIN tables.output}
    IN  {copy(x) : x \in made}

\* Every client's packets set its own bit in the channel's unit, and the bits of
\* a pipe make up the only full bitmap of the unit there.
Aggregates(tables, ch) ==
    /\ \A i \in Ids(ch) :
          tables.selector[SelectorKey(ch.parts[i])] = [unit |-> ch.unit, bit |-> Bit(ch, i)]
    /\ \A pipe \in {0, 3} :
          {e \in tables.complete : e[1] = ch.unit /\ e[2] = pipe} =
              IF OnPipe(ch, pipe) = {} THEN {} ELSE {<<ch.unit, pipe, FullBits(ch, pipe)>>}

\* Each client gets one copy of every result.
Distributes(tables, ch) ==
    Copies(tables, ch.unit) =
        {<<PortOf[ch.parts[i].node], [node |-> ch.parts[i].node, qp |-> ch.parts[i].qp]>>
            : i \in Ids(ch)}

Working(tables, ch) ==
    AllKnown(ch) /\ Aggregates(tables, ch) /\ Distributes(tables, ch)
=============================================================================
