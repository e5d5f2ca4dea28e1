--------------------------- MODULE StateRepository ---------------------------
(***************************************************************************)
(* The switch daemon's state repository (sd/state_repository.cc): the      *)
(* collective channels by tag, and how their identifiers are allocated.    *)
(* The daemon changes the repository synchronously inside one callback, so *)
(* its operations are operators from one value of the repository to the    *)
(* next; ControlPlane makes actions of them.                               *)
(*                                                                         *)
(* An IP address is named by the node that has it, and a node's switch     *)
(* port is PortOf[node] (ASICDriver): both reach the repository together.  *)
(***************************************************************************)
EXTENDS Integers, FiniteSets, FiniteSetsExt, Functions, TLC

CONSTANTS
    MaxUnits,   \* aggregation units that can be allocated (256)
    MaxCommon   \* largest common part of a fabric QP number (0xffff)

ASSUME RepositoryAssumption == MaxUnits \in Nat \ {0} /\ MaxCommon \in Nat \ {0}

\* A participant whose request has not arrived (its ip is 0.0.0.0).
Unknown == [node |-> "0.0.0.0"]

NoChannels == <<>>

Tags(channels) == DOMAIN channels

-----------------------------------------------------------------------------
\* A counter that skips common parts in use and 0, and wraps after MaxCommon.
\* {} when everything is taken: the call throws.
FreeCommons(channels) == 1 .. MaxCommon \ {channels[t].common : t \in Tags(channels)}

NextCommon(channels, next) ==
    LET free == FreeCommons(channels)
        ahead == {q \in free : q >= next}
    IN  Min(IF ahead = {} THEN free ELSE ahead)

\* Faulty variant: no wrap.
AfterNoWrap(common) == common + 1

\* next_coll_qp_common++ in 16 bits; 0 makes the next call start again at 1.
After(common) == (common + 1) % (MaxCommon + 1)

FreeUnits(channels) ==
    0 .. MaxUnits - 1 \ {channels[t].unit : t \in Tags(channels)}

NextUnit(channels) == Min(FreeUnits(channels))

CanAllocate(channels) == FreeUnits(channels) # {} /\ FreeCommons(channels) # {}

\* A channel as the agent adds it: all participants are still unknown.
NewChannel(channels, next, ids) ==
    [common |-> NextCommon(channels, next),
     unit |-> NextUnit(channels),
     parts |-> [i \in ids |-> Unknown]]

AddChannel(channels, tag, channel) ==
    [t \in Tags(channels) \cup {tag} |-> IF t = tag THEN channel ELSE channels[t]]

UpdateParticipant(channels, tag, id, part) ==
    [channels EXCEPT ![tag].parts[id] = part]

RemoveChannels(channels, tags) == Restrict(channels, Tags(channels) \ tags)

-----------------------------------------------------------------------------
(* The fabric QP numbers the agent hands out (get_next_fabric_qp). *)

\* Faulty variant: the participants of a node are not told apart.
NextFabricQpZero(channel, node) == <<channel.common, 0>>

NextFabricQp(channel, node) ==
    LET same == {i \in DOMAIN channel.parts : channel.parts[i].node = node}
    IN  <<channel.common, Cardinality(same) % 256>>

NoFabricQp == <<0, 0>>

AllKnown(channel) == \A i \in DOMAIN channel.parts : channel.parts[i] # Unknown
=============================================================================
