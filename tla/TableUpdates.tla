---------------------------- MODULE TableUpdates ----------------------------
(***************************************************************************)
(* ChannelTables in more detail: how a change of the repository reaches    *)
(* the switch.  on_st_repo_channels (sd/asic_driver.cc) writes and deletes *)
(* one table after the other, on one pipe after the other, and clears      *)
(* registers at last; meanwhile packets arrive, and those of a job that    *)
(* was killed may still be under way when its channel is removed.          *)
(*                                                                         *)
(* The daemon has one thread: the repository changes only between updates. *)
(* All entries that one loop writes or deletes change in one step: it ends *)
(* when every entry has been visited (table_iterator, sd/bfrt_tools.h,     *)
(* visits as many entries as the table had at first; that it continues     *)
(* behind an entry that was deleted is up to the switch's SDK, and the     *)
(* comment at asic_driver.cc:1027 leaves it open).  The first loop writes   *)
(* the selector and output entries of one participant after the other; the *)
(* model writes those of a channel table by table.                         *)
(***************************************************************************)
EXTENDS ChannelTables

VARIABLE update    \* the update under way

updateVars == <<tableVars, update>>

-----------------------------------------------------------------------------
(* The steps of an update. *)

\* First every known channel is written anew, in the order of the tags and, for
\* each of them, of these tables.
WriteSteps == <<"mcNode", "mcGroup", "selector", "output", "complete">>

\* Faulty variants: registers are cleared before pipe 3 has been handled; one of the
\* pipes is forgotten; full bitmaps stay.
DeleteStepsClearEarly ==
    <<<<"selector", 0>>, <<"complete", 0>>, <<"output", 0>>, <<"clear", 0>>,
      <<"selector", 3>>, <<"complete", 3>>, <<"output", 3>>,
      <<"groups", 0>>, <<"nodes", 0>>>>

DeleteStepsPipe0 ==
    <<<<"selector", 0>>, <<"complete", 0>>, <<"output", 0>>,
      <<"groups", 0>>, <<"nodes", 0>>, <<"clear", 0>>>>

DeleteStepsKeepComplete ==
    <<<<"selector", 0>>, <<"output", 0>>,
      <<"selector", 3>>, <<"output", 3>>,
      <<"groups", 0>>, <<"nodes", 0>>, <<"clear", 0>>>>

\* for (pipe = 0; pipe < 4; pipe += 3), then the multicast tables and registers,
\* which have no pipe.
DeleteSteps ==
    <<<<"selector", 0>>, <<"complete", 0>>, <<"output", 0>>,
      <<"selector", 3>>, <<"complete", 3>>, <<"output", 3>>,
      <<"groups", 0>>, <<"nodes", 0>>, <<"clear", 0>>>>

\* writes: tags and write steps that are left; next: the next delete step;
\* served: the tags of channels whose clients may send; leaving: tag and unit of
\* a channel that is being removed; lost: units that have lost selector entries
\* (agg_units_to_clear).
NoUpdate == [writes |-> {}, next |-> Len(DeleteSteps) + 1,
             served |-> {}, leaving |-> {}, lost |-> {}]

Idle == update.writes = {} /\ update.next > Len(DeleteSteps)

\* A change of the repository starts an update.
Begin(leaving) ==
    update' = [writes |-> Known(channels') \X DOMAIN WriteSteps, next |-> 1,
               served |-> update.served \ {l.tag : l \in leaving},
               leaving |-> leaving, lost |-> {}]

\* After the last step the responses can be sent.
Advance(lost) ==
    update' = IF update.next = Len(DeleteSteps)
              THEN [NoUpdate EXCEPT !.served = Known(channels)]
              ELSE [update EXCEPT !.next = @ + 1, !.lost = @ \cup lost]

Used(unit) == unit \in UnitsInUse(channels)

\* Whether a write comes before all others that are left.
IsNextWrite(t, k) ==
    \A w \in update.writes : t < w[1] \/ (t = w[1] /\ k <= w[2])

\* All entries of a channel in one table.
WriteStep(t, k) ==
    LET ch == channels[t]
        table == WriteSteps[k]
    IN  /\ IsNextWrite(t, k)
        /\ \/ /\ table = "mcNode"
              /\ tables' = [tables EXCEPT !.mcNode = Put(McNodeEntries(ch), @)]
           \/ /\ table = "mcGroup"
              /\ tables' = [tables EXCEPT !.mcGroup = Put(McGroupEntries(ch), @)]
           \/ /\ table = "selector"
              /\ tables' = [tables EXCEPT !.selector = Put(SelectorEntries(ch), @)]
           \/ /\ table = "output"
              /\ tables' = [tables EXCEPT !.output = Put(OutputEntries(ch), @)]
           \/ /\ table = "complete"
              /\ tables' = [tables EXCEPT !.complete = @ \cup CompleteEntries(ch)]
        /\ update' = [update EXCEPT !.writes = @ \ {<<t, k>>}]
        /\ UNCHANGED <<channels, nextCommon, registers>>

\* The entries at one pipe of units that no known channel uses.
DeleteStep(table, pipe) ==
    LET excess == {k \in DOMAIN tables.selector :
                      PipeOfKey(k) = pipe /\ ~Used(tables.selector[k].unit)}
    IN  /\ \/ /\ table = "selector"
              /\ tables' = [tables EXCEPT !.selector = Restrict(@, DOMAIN @ \ excess)]
              /\ Advance({tables.selector[k].unit : k \in excess})
           \/ /\ table = "complete"
              /\ tables' = [tables EXCEPT !.complete = {e \in @ : e[2] = pipe => Used(e[1])}]
              /\ Advance({})
           \/ /\ table = "output"
              /\ tables' = [tables EXCEPT !.output =
                               Restrict(@, {k \in DOMAIN @ : k[1] = pipe => Used(k[2])})]
              /\ Advance({})
        /\ UNCHANGED <<channels, nextCommon, registers>>

\* Groups that are not in use, then the nodes that no remaining group has.
MulticastStep(table) ==
    /\ \/ /\ table = "groups"
          /\ tables' = [tables EXCEPT !.mcGroup = Keep(@, Used)]
       \/ /\ table = "nodes"
          /\ tables' = [tables EXCEPT !.mcNode =
                           Restrict(@, DOMAIN @ \cap UNION Range(tables.mcGroup))]
    /\ Advance({})
    /\ UNCHANGED <<channels, nextCommon, registers>>

ClearStep ==
    /\ registers' = [u \in DOMAIN registers |->
                        IF u \in update.lost THEN {} ELSE registers[u]]
    /\ Advance({})
    /\ UNCHANGED <<channels, nextCommon, tables>>

UpdateStep ==
    \/ \E w \in update.writes : WriteStep(w[1], w[2])
    \/ /\ ~Idle /\ update.writes = {}
       /\ LET step == DeleteSteps[update.next]
          IN  \/ DeleteStep(step[1], step[2])
              \/ MulticastStep(step[1])
              \/ step[1] = "clear" /\ ClearStep

-----------------------------------------------------------------------------
UpdatesInit == TablesInit /\ update = NoUpdate

\* add_channel, update_channel_participant and remove_channel notify the driver.
BeginAdd(t) ==
    /\ Idle
    /\ t \notin Tags(channels)
    /\ CanAllocate(channels)
    /\ channels' = AddChannel(channels, t, NewChannel(channels, nextCommon, DOMAIN Group[t]))
    /\ nextCommon' = After(channels'[t].common)
    /\ Begin({})
    /\ UNCHANGED <<tables, registers>>

BeginRegister(t, i) ==
    /\ Idle
    /\ channels[t].parts[i] = Unknown
    /\ channels' = UpdateParticipant(channels, t, i,
                       [node |-> Group[t][i], qp |-> <<t, i>>,
                        fqp |-> NextFabricQp(channels[t], Group[t][i])])
    /\ Begin({})
    /\ UNCHANGED <<nextCommon, tables, registers>>

BeginRemove(t) ==
    /\ Idle
    /\ channels' = RemoveChannels(channels, {t})
    /\ Begin(IF t \in Known(channels)
             THEN {[tag |-> t, unit |-> channels[t].unit]} ELSE {})
    /\ UNCHANGED <<nextCommon, tables, registers>>

\* A packet that has been under way since before its channel was removed: counted
\* as long as an entry selects the unit.
AggregateLate(t, unit) ==
    /\ \E k \in DOMAIN tables.selector : tables.selector[k].unit = unit
    /\ registers' = [registers EXCEPT ![unit] = @ \cup {t}]
    /\ UNCHANGED <<channels, nextCommon, tables, update>>

UpdatesNext ==
    \/ UpdateStep
    \/ \E t \in DOMAIN Group : BeginAdd(t)
    \/ \E t \in Tags(channels) :
          \/ \E i \in DOMAIN Group[t] : BeginRegister(t, i)
          \/ BeginRemove(t)
    \/ \E t \in update.served : (Aggregate(t) \/ Quiesce(t)) /\ UNCHANGED update
    \/ \E l \in update.leaving : AggregateLate(l.tag, l.unit)

UpdatesSpec == UpdatesInit /\ [][UpdatesNext]_updateVars

-----------------------------------------------------------------------------
(* Properties. *)

\* While the daemon writes and deletes for other channels, table by table, the
\* packets of every channel in service select its own unit and bits, and complete
\* when all of its clients have sent.
ServiceUndisturbed ==
    \A t \in update.served : Aggregates(tables, channels[t])

\* No packet reaches the registers of a unit after they have been cleared for the
\* next channel, although packets of the old one may arrive during the update.
NothingAfterClear ==
    \A u \in DOMAIN registers : \A t \in registers[u] :
        \/ t \in Known(channels) /\ channels[t].unit = u
        \/ [tag |-> t, unit |-> u] \in update.leaving

\* To the rest of the daemon an update is one step: whatever has been done of it,
\* the rest leads to the same tables.  This is what ChannelTables and ControlPlane
\* are built on.
Atomic ==
    INSTANCE ChannelTables WITH
        tables <- Reconfigure(tables, channels),
        registers <- [u \in DOMAIN registers |->
                         IF \E l \in update.leaving : l.unit = u THEN {} ELSE registers[u]]

ImplementsTables == Atomic!TablesSpec
=============================================================================
