---------------------------- MODULE ChannelTables ----------------------------
(***************************************************************************)
(* Channels of several applications at once, as the switch sees them: they *)
(* are added, get to know their participants and are removed in any order  *)
(* (state_repository.cc), each change rewrites the switch's tables         *)
(* (asic_driver.cc), and meanwhile known channels aggregate.  ControlPlane *)
(* shows how requests lead to such changes for the channels of one job, and *)
(* TableUpdates how a change reaches the switch step by step.              *)
(*                                                                         *)
(* Of the registers of a unit only this is kept: the channels that have    *)
(* unfinished sums in them.  There are registers for 64 units only, and    *)
(* the index of a larger unit is cut off (collectives.p4, (bit<14>)        *)
(* meta.agg_unit): the model is of the units below.                        *)
(***************************************************************************)
EXTENDS ASICDriver

CONSTANT Group   \* Group[t][i]: the node of client i of the channel with tag t

\* Tags and client ids are numbers; the client that asks for a channel is one of
\* its participants; node ports are on pipes 0 and 3.  More than 256 clients on a
\* node are too many for its pipe (on_st_repo_channels throws after 61).
ASSUME TablesAssumption ==
    /\ DOMAIN Group \subseteq Nat
    /\ \A t \in DOMAIN Group :
          /\ DOMAIN Group[t] \subseteq Nat
          /\ DOMAIN Group[t] # {} /\ IsFiniteSet(DOMAIN Group[t])
          /\ \A i \in DOMAIN Group[t] :
                /\ Group[t][i] \notin {Unknown.node, "recirculated"}
                /\ PipeOfNode(Group[t][i]) \in {0, 3}
                /\ Cardinality({j \in DOMAIN Group[t] : Group[t][j] = Group[t][i]}) <= 256

VARIABLES channels, nextCommon, tables, registers

tableVars == <<channels, nextCommon, tables, registers>>

TablesInit ==
    /\ channels = NoChannels
    /\ nextCommon = 0
    /\ tables = NoTables
    /\ registers = [u \in 0 .. MaxUnits - 1 |-> {}]

\* The first request for a tag; a daemon without a free unit or number ends.
Add(t) ==
    /\ t \notin Tags(channels)
    /\ CanAllocate(channels)
    /\ channels' = AddChannel(channels, t, NewChannel(channels, nextCommon, DOMAIN Group[t]))
    /\ nextCommon' = After(channels'[t].common)
    /\ tables' = Reconfigure(tables, channels')
    /\ UNCHANGED registers

\* A participant's request.
Register(t, i) ==
    /\ channels[t].parts[i] = Unknown
    /\ channels' = UpdateParticipant(channels, t, i,
                       [node |-> Group[t][i], qp |-> <<t, i>>,
                        fqp |-> NextFabricQp(channels[t], Group[t][i])])
    /\ tables' = Reconfigure(tables, channels')
    /\ UNCHANGED <<nextCommon, registers>>

\* The units whose registers are cleared: those that lose selector entries.
ClearedUnits(old, new) ==
    {old.selector[k].unit : k \in DOMAIN old.selector \ DOMAIN new.selector}

\* The last owner has gone.
RemoveChannel(t) ==
    /\ channels' = RemoveChannels(channels, {t})
    /\ tables' = Reconfigure(tables, channels')
    /\ registers' = [u \in DOMAIN registers |->
                        IF u \in ClearedUnits(tables, tables') THEN {} ELSE registers[u]]
    /\ UNCHANGED nextCommon

\* A packet is added; some slot of the unit is now incomplete.
Aggregate(t) ==
    /\ AllKnown(channels[t])
    /\ registers' = [registers EXCEPT ![channels[t].unit] = @ \cup {t}]
    /\ UNCHANGED <<channels, nextCommon, tables>>

\* All slots with sums of a channel have been completed and cleared.
Quiesce(t) ==
    /\ t \in registers[channels[t].unit]
    /\ registers' = [registers EXCEPT ![channels[t].unit] = @ \ {t}]
    /\ UNCHANGED <<channels, nextCommon, tables>>

TablesNext ==
    \/ \E t \in DOMAIN Group : Add(t)
    \/ \E t \in Tags(channels) :
          \/ \E i \in DOMAIN Group[t] : Register(t, i)
          \/ RemoveChannel(t) \/ Aggregate(t) \/ Quiesce(t)

TablesSpec == TablesInit /\ [][TablesNext]_tableVars

-----------------------------------------------------------------------------
(* Properties. *)

\* Types; units and common parts stay in their ranges.
TablesTypeOK ==
    /\ Tags(channels) \subseteq DOMAIN Group
    /\ \A t \in Tags(channels) :
          /\ channels[t].common \in 1 .. MaxCommon
          /\ channels[t].unit \in 0 .. MaxUnits - 1
    /\ nextCommon \in 0 .. MaxCommon
    /\ registers \in [0 .. MaxUnits - 1 -> SUBSET DOMAIN Group]

\* Applications run "concurrently on the cluster" (the OpenMPI component): the
\* results of every known channel go to the ports of its own clients.
ChannelsDistribute ==
    \A t \in Known(channels) : Distributes(tables, channels[t])
=============================================================================
