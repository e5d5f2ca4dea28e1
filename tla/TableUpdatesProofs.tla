------------------------- MODULE TableUpdatesProofs -------------------------
(***************************************************************************)
(* Updates of the switch, for any channels, numbers and ports: what an     *)
(* update has written and what it has still to delete, and that its steps  *)
(* together are one step of ChannelTables.                                 *)
(*                                                                         *)
(* The argument: no two channels have the same unit or common part, so the *)
(* entries of different channels have different keys.  In every state a    *)
(* table holds exactly the entries of known channels that have been        *)
(* written, and entries of the channel that is being removed, which an     *)
(* update has a step left to delete.                                       *)
(***************************************************************************)
EXTENDS TableUpdates, ASICDriverProofs

-----------------------------------------------------------------------------
(* The inductive invariant. *)

IsChannel(ch, t) ==
    /\ ch = [common |-> ch.common, unit |-> ch.unit, parts |-> ch.parts]
    /\ ch.common \in 1 .. MaxCommon
    /\ ch.unit \in 0 .. MaxUnits - 1
    /\ ch.parts = [i \in DOMAIN Group[t] |-> ch.parts[i]]
    /\ \A i \in DOMAIN Group[t] : ch.parts[i] # Unknown =>
          ch.parts[i].node = Group[t][i] /\ ch.parts[i].fqp[1] = ch.common

\* No two channels share an identifier.
ChannelsInv ==
    /\ IsTable(channels)
    /\ Tags(channels) \subseteq DOMAIN Group
    /\ \A t \in Tags(channels) : IsChannel(channels[t], t)
    /\ \A s, t \in Tags(channels) : s # t =>
          channels[s].common # channels[t].common /\ channels[s].unit # channels[t].unit
    /\ nextCommon \in 0 .. MaxCommon

LeavingUnits == {l.unit : l \in update.leaving}

UpdateInv ==
    /\ update = [writes |-> update.writes, next |-> update.next, served |-> update.served,
                 leaving |-> update.leaving, lost |-> update.lost]
    /\ update.next \in 1 .. Len(DeleteSteps) + 1
    /\ update.writes \subseteq Known(channels) \X DOMAIN WriteSteps
    /\ update.writes # {} => update.next = 1
    /\ update.served \subseteq Known(channels)
    /\ Idle => update.leaving = {}
    /\ \A l \in update.leaving :
          /\ l = [tag |-> l.tag, unit |-> l.unit]
          /\ l.tag \in DOMAIN Group
          /\ l.unit \in 0 .. MaxUnits - 1
          /\ \A t \in Tags(channels) : channels[t].unit # l.unit

\* A delete step that the update has not done yet.
Left(table, pipe) ==
    \E n \in update.next .. Len(DeleteSteps) : DeleteSteps[n] = <<table, pipe>>

\* The channels whose entries have been written.
Done(k) == {t \in Known(channels) : t \in update.served \/ <<t, k>> \notin update.writes}

\* A table that has entries of the channels, all of those that are done, and otherwise
\* only excess ones.
Between(table, entries, done, excess) ==
    /\ IsTable(table)
    /\ \A k \in DOMAIN table :
          \/ \E t \in DOMAIN entries : k \in DOMAIN entries[t] /\ table[k] = entries[t][k]
          \/ k \in excess /\ k \notin Keys(entries)
    /\ \A t \in done : DOMAIN entries[t] \subseteq DOMAIN table

ExcessSelectors ==
    {k \in DOMAIN tables.selector : /\ tables.selector[k].unit \in LeavingUnits
                                    /\ Left("selector", PipeOfKey(k))}

ExcessOutputs ==
    {k \in DOMAIN tables.output : k[2] \in LeavingUnits /\ Left("output", k[1])}

ExcessCompletes ==
    {e \in tables.complete : e[1] \in LeavingUnits /\ Left("complete", e[2])}

SelectorInv == Between(tables.selector, Selectors(channels), Done(3), ExcessSelectors)

OutputInv == Between(tables.output, Outputs(channels), Done(4), ExcessOutputs)

CompleteInv ==
    /\ tables.complete \subseteq Completes(channels) \cup ExcessCompletes
    /\ \A t \in Done(5) : CompleteEntries(channels[t]) \subseteq tables.complete

\* Every unit that is given up has an entry to lose, or has lost one.
LostInv ==
    /\ update.lost \subseteq LeavingUnits
    /\ \A u \in LeavingUnits \ update.lost :
          \E k \in DOMAIN tables.selector : tables.selector[k].unit = u

TablesInv ==
    /\ tables = [selector |-> tables.selector, complete |-> tables.complete,
                 output |-> tables.output, mcNode |-> tables.mcNode,
                 mcGroup |-> tables.mcGroup]
    /\ SelectorInv /\ OutputInv /\ CompleteInv /\ LostInv

RegistersInv ==
    /\ registers \in [0 .. MaxUnits - 1 -> SUBSET DOMAIN Group]
    /\ NothingAfterClear

UInv == ChannelsInv /\ UpdateInv /\ TablesInv /\ RegistersInv

-----------------------------------------------------------------------------
(* Tables between two updates. *)

EntriesDisjoint(entries) ==
    \A s, t \in DOMAIN entries : \A k \in DOMAIN entries[t] :
        k \in DOMAIN entries[s] => s = t

\* Fewer entries that must be there, or more that may.
LEMMA BetweenWeaker ==
    ASSUME NEW f, NEW entries, NEW done, NEW excess, Between(f, entries, done, excess),
           NEW fewer \in SUBSET done, NEW more,
           \A k \in excess : k \in DOMAIN f /\ k \notin Keys(entries) => k \in more
    PROVE  Between(f, entries, fewer, more)
BY DEF Between

\* A write of the entries of one channel.
LEMMA BetweenPut ==
    ASSUME NEW f, NEW entries, NEW done, NEW excess, Between(f, entries, done, excess),
           NEW t \in DOMAIN entries
    PROVE  Between(Put(entries[t], f), entries, done \cup {t}, excess)
<1> DEFINE g == Put(entries[t], f)
<1>1. /\ IsTable(g)
      /\ DOMAIN g = DOMAIN entries[t] \cup DOMAIN f
      /\ \A k \in DOMAIN entries[t] : g[k] = entries[t][k]
      /\ \A k \in DOMAIN f \ DOMAIN entries[t] : g[k] = f[k]
  BY DEF Put, IsTable
<1> HIDE DEF g
<1>2. \A k \in DOMAIN g :
          \/ \E s \in DOMAIN entries : k \in DOMAIN entries[s] /\ g[k] = entries[s][k]
          \/ k \in excess /\ k \notin Keys(entries)
  BY <1>1 DEF Between
<1>3. \A s \in done \cup {t} : DOMAIN entries[s] \subseteq DOMAIN g
  BY <1>1 DEF Between
<1>4. Between(g, entries, done \cup {t}, excess)
  BY <1>1, <1>2, <1>3 DEF Between
<1> QED BY <1>4 DEF g

\* A deletion of keys that no channel writes.
LEMMA BetweenRestrict ==
    ASSUME NEW f, NEW entries, NEW done \in SUBSET DOMAIN entries, NEW excess,
           Between(f, entries, done, excess),
           NEW D, D \cap Keys(entries) = {}
    PROVE  Between(Restrict(f, DOMAIN f \ D), entries, done, excess \ D)
<1> DEFINE g == Restrict(f, DOMAIN f \ D)
<1>1. /\ IsTable(g) /\ DOMAIN g = DOMAIN f \ D
      /\ \A k \in DOMAIN g : g[k] = f[k]
  BY DEF Restrict, IsTable
<1>2. \A t \in done : DOMAIN entries[t] \subseteq Keys(entries)
  BY DEF Keys
<1> HIDE DEF g
<1>3. Between(g, entries, done, excess \ D)
  BY <1>1, <1>2 DEF Between
<1> QED BY <1>3 DEF g

\* A channel more.
LEMMA BetweenGrows ==
    ASSUME NEW f, NEW entries, NEW done, Between(f, entries, done, {}),
           NEW more, NEW fewer \in SUBSET done, done \subseteq DOMAIN entries,
           \A t \in DOMAIN entries : t \in DOMAIN more /\ more[t] = entries[t]
    PROVE  Between(f, more, fewer, {})
BY DEF Between

\* A channel less: its entries become excess ones.
LEMMA BetweenShrinks ==
    ASSUME NEW f, NEW entries, NEW done, Between(f, entries, done, {}),
           EntriesDisjoint(entries), done \subseteq DOMAIN entries, NEW t,
           NEW less, DOMAIN less = DOMAIN entries \ {t},
           \A s \in DOMAIN less : less[s] = entries[s],
           NEW fewer \in SUBSET (done \ {t}), NEW excess,
           t \in DOMAIN entries => DOMAIN f \cap DOMAIN entries[t] \subseteq excess
    PROVE  Between(f, less, fewer, excess)
<1>1. ASSUME NEW k \in DOMAIN f
      PROVE  \/ \E s \in DOMAIN less : k \in DOMAIN less[s] /\ f[k] = less[s][k]
             \/ k \in excess /\ k \notin Keys(less)
  <2>1. PICK s \in DOMAIN entries : k \in DOMAIN entries[s] /\ f[k] = entries[s][k]
    BY DEF Between
  <2>2. CASE s # t
    BY <2>1, <2>2
  <2>3. CASE s = t
    <3>1. k \in excess
      BY <2>1, <2>3
    <3>2. k \notin Keys(less)
      BY <2>1, <2>3 DEF Keys, EntriesDisjoint
    <3> QED BY <3>1, <3>2
  <2> QED BY <2>2, <2>3
<1>2. \A s \in fewer : DOMAIN less[s] \subseteq DOMAIN f
  BY DEF Between
<1> QED BY <1>1, <1>2 DEF Between

\* A table without excess entries that has all entries of its channels.
LEMMA ExactTable ==
    ASSUME NEW f, NEW entries, Between(f, entries, DOMAIN entries, {}),
           EntriesDisjoint(entries)
    PROVE  /\ IsTable(f) /\ DOMAIN f = Keys(entries)
           /\ \A t \in DOMAIN entries : \A k \in DOMAIN entries[t] :
                 k \in DOMAIN f /\ f[k] = entries[t][k]
<1>1. IsTable(f) /\ DOMAIN f = Keys(entries)
  BY DEF Between, Keys
<1>2. ASSUME NEW t \in DOMAIN entries, NEW k \in DOMAIN entries[t]
      PROVE  k \in DOMAIN f /\ f[k] = entries[t][k]
  <2>1. k \in DOMAIN f
    BY DEF Between
  <2>2. PICK s \in DOMAIN entries : k \in DOMAIN entries[s] /\ f[k] = entries[s][k]
    BY <2>1 DEF Between
  <2>3. s = t
    BY <2>2 DEF EntriesDisjoint
  <2> QED BY <2>1, <2>2, <2>3
<1> QED BY <1>1, <1>2

-----------------------------------------------------------------------------
(* Channels and steps. *)

\* The participants of a known channel have numbers of it and proper ports.
LEMMA KnownWellFormed ==
    ASSUME ChannelsInv, NEW t \in Known(channels)
    PROVE  WellFormed(channels[t]) /\ Ids(channels[t]) = DOMAIN Group[t]
<1>1. t \in Tags(channels) /\ t \in DOMAIN Group /\ IsChannel(channels[t], t)
  BY DEF ChannelsInv, Known
<1>2. DOMAIN channels[t].parts = DOMAIN Group[t]
  BY <1>1 DEF IsChannel
<1>3. \A i \in DOMAIN Group[t] : /\ channels[t].parts[i].node = Group[t][i]
                                 /\ channels[t].parts[i].fqp[1] = channels[t].common
  BY <1>1, <1>2 DEF IsChannel, Known, AllKnown
<1>4. /\ DOMAIN Group[t] # {}
      /\ \A i \in DOMAIN Group[t] : Group[t][i] # "recirculated" /\ PipeOfNode(Group[t][i]) \in {0, 3}
  BY <1>1, TablesAssumption
<1> QED BY <1>2, <1>3, <1>4 DEF WellFormed, Ids

\* Entries of different channels have different keys: of the selector by the
\* common parts, of the others by the units.
LEMMA KnownEntries ==
    ASSUME ChannelsInv
    PROVE  /\ EntriesDisjoint(Selectors(channels))
           /\ EntriesDisjoint(Outputs(channels))
           /\ DOMAIN Selectors(channels) = Known(channels)
           /\ DOMAIN Outputs(channels) = Known(channels)
           /\ \A t \in Known(channels) :
                 /\ DOMAIN Selectors(channels)[t] # {}
                 /\ \A k \in DOMAIN Selectors(channels)[t] :
                       /\ Selectors(channels)[t][k].unit = channels[t].unit
                       /\ PipeOfKey(k) \in {0, 3}
                 /\ \A k \in DOMAIN Outputs(channels)[t] :
                       k[1] \in {0, 3} /\ k[2] = channels[t].unit
                 /\ \A e \in CompleteEntries(channels[t]) :
                       e[1] \in {channels[t].unit} /\ e[2] \in {0, 3}
<1>1. ASSUME NEW t \in Known(channels)
      PROVE  /\ DOMAIN Selectors(channels)[t] # {}
             /\ \A k \in DOMAIN Selectors(channels)[t] :
                   /\ Selectors(channels)[t][k].unit = channels[t].unit
                   /\ PipeOfKey(k) \in {0, 3}
                   /\ CommonOfKey(k) = channels[t].common
             /\ \A k \in DOMAIN Outputs(channels)[t] :
                   k[1] \in {0, 3} /\ k[2] = channels[t].unit
             /\ \A e \in CompleteEntries(channels[t]) :
                   e[1] \in {channels[t].unit} /\ e[2] \in {0, 3}
  <2>1. WellFormed(channels[t])
    BY KnownWellFormed
  <2>2. Selectors(channels)[t] = SelectorEntries(channels[t])
        /\ Outputs(channels)[t] = OutputEntries(channels[t])
    BY DEF Selectors, Outputs
  <2> QED BY <2>1, <2>2, SelectorEntriesOwn, OtherEntriesOwn
<1>2. DOMAIN Selectors(channels) = Known(channels) /\ DOMAIN Outputs(channels) = Known(channels)
  BY DEF Selectors, Outputs
<1>3. \A s, t \in Known(channels) : s # t =>
          channels[s].common # channels[t].common /\ channels[s].unit # channels[t].unit
  BY DEF ChannelsInv, Known
<1>4. EntriesDisjoint(Selectors(channels))
  BY <1>1, <1>2, <1>3 DEF EntriesDisjoint
<1>5. EntriesDisjoint(Outputs(channels))
  BY <1>1, <1>2, <1>3 DEF EntriesDisjoint
<1> QED BY <1>1, <1>2, <1>4, <1>5

\* The steps of an update by their numbers.
LEMMA StepNames ==
    /\ Len(DeleteSteps) = 9
    /\ DeleteSteps[1] = <<"selector", 0>> /\ DeleteSteps[2] = <<"complete", 0>>
    /\ DeleteSteps[3] = <<"output", 0>> /\ DeleteSteps[4] = <<"selector", 3>>
    /\ DeleteSteps[5] = <<"complete", 3>> /\ DeleteSteps[6] = <<"output", 3>>
    /\ DeleteSteps[7] = <<"groups", 0>> /\ DeleteSteps[8] = <<"nodes", 0>>
    /\ DeleteSteps[9] = <<"clear", 0>>
    /\ DOMAIN WriteSteps = 1 .. 5
    /\ WriteSteps[1] = "mcNode" /\ WriteSteps[2] = "mcGroup" /\ WriteSteps[3] = "selector"
    /\ WriteSteps[4] = "output" /\ WriteSteps[5] = "complete"
BY DEF DeleteSteps, WriteSteps

\* At first everything is left, at last nothing.
LEMMA LeftAtEnds ==
    /\ update.next = 1 => \A pipe \in {0, 3} :
          Left("selector", pipe) /\ Left("output", pipe) /\ Left("complete", pipe)
    /\ update.next \in {9, 10} => \A pipe :
          ~Left("selector", pipe) /\ ~Left("output", pipe) /\ ~Left("complete", pipe)
<1>1. ASSUME update.next = 1, NEW pipe \in {0, 3}
      PROVE  Left("selector", pipe) /\ Left("output", pipe) /\ Left("complete", pipe)
  BY <1>1, StepNames DEF Left
<1>2. ASSUME update.next \in {9, 10}, NEW pipe
      PROVE  ~Left("selector", pipe) /\ ~Left("output", pipe) /\ ~Left("complete", pipe)
  <2>1. \A n \in update.next .. 9 : n = 9
    BY <1>2
  <2>2. <<"clear", 0>>[1] = "clear" /\ <<"selector", pipe>>[1] = "selector"
        /\ <<"output", pipe>>[1] = "output" /\ <<"complete", pipe>>[1] = "complete"
    OBVIOUS
  <2>3. /\ <<"clear", 0>> # <<"selector", pipe>> /\ <<"clear", 0>> # <<"output", pipe>>
        /\ <<"clear", 0>> # <<"complete", pipe>>
    BY <2>2
  <2> QED BY <2>1, <2>3, StepNames DEF Left
<1> QED BY <1>1, <1>2

\* What a delete step does to the update itself.
LEMMA AdvanceStep ==
    ASSUME UpdateInv, ~Idle, update.writes = {}, channels' = channels,
           NEW lost, Advance(lost)
    PROVE  /\ UpdateInv'
           /\ \A k : Done(k) = Known(channels) /\ Done(k)' = Known(channels)
           /\ update.next \in 1 .. 9
           /\ update.next # 9 => /\ LeavingUnits' = LeavingUnits
                                 /\ update'.leaving = update.leaving
                                 /\ update'.lost = update.lost \cup lost
           /\ update.next = 9 => LeavingUnits' = {} /\ update'.lost = {} /\ update'.leaving = {}
           /\ \A table, pipe : Left(table, pipe) /\ DeleteSteps[update.next] # <<table, pipe>> =>
                 update.next # 9 /\ Left(table, pipe)'
<1>1. update.next \in 1 .. 9
  BY StepNames DEF UpdateInv, Idle
<1>2. CASE update.next = 9
  <2>1. update' = [writes |-> {}, next |-> 10, served |-> Known(channels),
                   leaving |-> {}, lost |-> {}]
    BY <1>2, StepNames DEF Advance, NoUpdate
  <2>2. UpdateInv'
    BY <2>1, StepNames DEF UpdateInv, Idle, Known
  <2>3. \A table, pipe : Left(table, pipe) => DeleteSteps[update.next] = <<table, pipe>>
    BY <1>2, StepNames DEF Left
  <2>4. \A k : Done(k) = Known(channels) /\ Done(k)' = Known(channels)
    BY <2>1 DEF Done, Known
  <2> QED BY <1>1, <1>2, <2>1, <2>2, <2>3, <2>4 DEF LeavingUnits
<1>3. CASE update.next # 9
  <2>1. update' = [update EXCEPT !.next = @ + 1, !.lost = @ \cup lost]
    BY <1>3, StepNames DEF Advance
  <2>2. /\ update'.writes = update.writes /\ update'.next = update.next + 1
        /\ update'.served = update.served /\ update'.leaving = update.leaving
        /\ update'.lost = update.lost \cup lost
        /\ update' = [writes |-> update'.writes, next |-> update'.next, served |-> update'.served,
                      leaving |-> update'.leaving, lost |-> update'.lost]
    BY <2>1 DEF UpdateInv
  <2>3. UpdateInv'
    BY <1>1, <1>3, <2>2, StepNames DEF UpdateInv, Idle, Known
  <2>4. \A k : Done(k) = Known(channels) /\ Done(k)' = Known(channels)
    BY <2>2 DEF Done, Known
  <2>5. ASSUME NEW table, NEW pipe, Left(table, pipe), DeleteSteps[update.next] # <<table, pipe>>
        PROVE  Left(table, pipe)'
    <3>1. PICK n \in update.next .. 9 : DeleteSteps[n] = <<table, pipe>>
      BY <2>5, StepNames DEF Left
    <3>2. n \in update'.next .. 9
      BY <1>1, <2>2, <2>5, <3>1
    <3> QED BY <3>1, <3>2, StepNames DEF Left
  <2> QED BY <1>1, <1>3, <2>2, <2>3, <2>4, <2>5 DEF LeavingUnits
<1> QED BY <1>2, <1>3

-----------------------------------------------------------------------------
(* Changes of the repository. *)

\* Between updates the tables hold exactly the entries of the known channels.
LEMMA IdleTables ==
    ASSUME UInv, Idle
    PROVE  /\ update.leaving = {} /\ update.lost = {} /\ LeavingUnits = {}
           /\ \A k : Done(k) = Known(channels)
           /\ Between(tables.selector, Selectors(channels), Known(channels), {})
           /\ Between(tables.output, Outputs(channels), Known(channels), {})
           /\ tables.complete = Completes(channels)
<1>1. update.leaving = {} /\ LeavingUnits = {} /\ update.lost = {}
  BY DEF UInv, UpdateInv, TablesInv, LostInv, LeavingUnits
<1>2. \A k : Done(k) = Known(channels)
  BY DEF Idle, Done
<1>3. ExcessSelectors = {} /\ ExcessOutputs = {} /\ ExcessCompletes = {}
  BY <1>1 DEF ExcessSelectors, ExcessOutputs, ExcessCompletes
<1>4. /\ Between(tables.selector, Selectors(channels), Known(channels), {})
      /\ Between(tables.output, Outputs(channels), Known(channels), {})
  BY <1>2, <1>3 DEF UInv, TablesInv, SelectorInv, OutputInv
<1>5. tables.complete = Completes(channels)
  BY <1>2, <1>3 DEF UInv, TablesInv, CompleteInv, Completes
<1> QED BY <1>1, <1>2, <1>4, <1>5

\* A known channel does not change, and an update starts that removes nothing.
LEMMA BeginKeeps ==
    ASSUME UInv, Idle, ChannelsInv', Known(channels) \subseteq Known(channels'),
           \A s \in Known(channels) : channels'[s] = channels[s],
           Begin({}), UNCHANGED <<tables, registers>>
    PROVE  UInv'
<1>1. /\ update.leaving = {} /\ update.lost = {} /\ LeavingUnits = {}
      /\ Between(tables.selector, Selectors(channels), Known(channels), {})
      /\ Between(tables.output, Outputs(channels), Known(channels), {})
      /\ tables.complete = Completes(channels)
  BY IdleTables
<1>2. update' = [writes |-> Known(channels') \X DOMAIN WriteSteps, next |-> 1,
                 served |-> update.served, leaving |-> {}, lost |-> {}]
  BY DEF Begin
<1>3. update.served \subseteq Known(channels)
  BY DEF UInv, UpdateInv
<1>4. UpdateInv'
  BY <1>2, <1>3, StepNames DEF UpdateInv, Idle
<1>5. ASSUME NEW k \in 1 .. 5 PROVE Done(k)' = update.served
  BY <1>2, <1>3, StepNames DEF Done
<1>6. LeavingUnits' = {} /\ ExcessSelectors' = {} /\ ExcessOutputs' = {} /\ ExcessCompletes' = {}
  BY <1>2 DEF LeavingUnits, ExcessSelectors, ExcessOutputs, ExcessCompletes
<1>7. SelectorInv'
  <2>1. Between(tables.selector, Selectors(channels'), update.served, {})
    <3>1. /\ Known(channels) \subseteq DOMAIN Selectors(channels)
          /\ update.served \in SUBSET Known(channels)
          /\ \A t \in DOMAIN Selectors(channels) :
                t \in DOMAIN Selectors(channels') /\ Selectors(channels')[t] = Selectors(channels)[t]
      BY <1>3 DEF Selectors
    <3> QED BY <1>1, <3>1, BetweenGrows
  <2> QED BY <1>5, <1>6, <2>1 DEF SelectorInv
<1>8. OutputInv'
  <2>1. Between(tables.output, Outputs(channels'), update.served, {})
    <3>1. /\ Known(channels) \subseteq DOMAIN Outputs(channels)
          /\ update.served \in SUBSET Known(channels)
          /\ \A t \in DOMAIN Outputs(channels) :
                t \in DOMAIN Outputs(channels') /\ Outputs(channels')[t] = Outputs(channels)[t]
      BY <1>3 DEF Outputs
    <3> QED BY <1>1, <3>1, BetweenGrows
  <2> QED BY <1>5, <1>6, <2>1 DEF OutputInv
<1>9. CompleteInv'
  <2>1. Completes(channels) \subseteq Completes(channels')
    BY DEF Completes
  <2>2. \A t \in update.served : CompleteEntries(channels'[t]) \subseteq tables.complete
    BY <1>1, <1>3 DEF Completes
  <2> QED BY <1>1, <1>5, <1>6, <2>1, <2>2 DEF CompleteInv
<1>10. LostInv'
  BY <1>2, <1>6 DEF LostInv
<1>11. TablesInv'
  BY <1>7, <1>8, <1>9, <1>10 DEF UInv, TablesInv
<1>12. RegistersInv'
  BY <1>1 DEF UInv, RegistersInv, NothingAfterClear
<1> QED BY <1>4, <1>11, <1>12 DEF UInv

\* A new channel has a unit and a common part of its own, and no participant yet.
LEMMA AddStep ==
    ASSUME UInv, NEW t \in DOMAIN Group, BeginAdd(t)
    PROVE  /\ UInv'
           /\ Known(channels') = Known(channels)
           /\ \A s \in Known(channels) : channels'[s] = channels[s]
<1> DEFINE ch == NewChannel(channels, nextCommon, DOMAIN Group[t])
<1>1. /\ Tags(channels') = Tags(channels) \cup {t} /\ t \notin Tags(channels)
      /\ channels'[t] = ch
      /\ \A s \in Tags(channels) : channels'[s] = channels[s]
      /\ IsTable(channels')
  BY DEF BeginAdd, AddChannel, Tags, IsTable
<1>2. /\ ch.unit \in 0 .. MaxUnits - 1 /\ ch.common \in 1 .. MaxCommon
      /\ ch = [common |-> ch.common, unit |-> ch.unit, parts |-> ch.parts]
      /\ ch.parts = [i \in DOMAIN Group[t] |-> Unknown]
      /\ \A s \in Tags(channels) : channels[s].unit # ch.unit /\ channels[s].common # ch.common
  BY AllocatesFree DEF BeginAdd, NewChannel
<1>3. ~AllKnown(ch)
  BY <1>2, TablesAssumption DEF AllKnown
<1> HIDE DEF ch
<1>4. Known(channels') = Known(channels)
  BY <1>1, <1>3 DEF Known
<1>5. \A s \in Known(channels) : channels'[s] = channels[s]
  BY <1>1 DEF Known
<1>6. nextCommon' \in 0 .. MaxCommon
  BY <1>1, <1>2, AfterInRange DEF BeginAdd
<1>7. IsChannel(ch, t)
  BY <1>2 DEF IsChannel
<1>8. ChannelsInv'
  <2>1. Tags(channels') \subseteq DOMAIN Group
    BY <1>1 DEF UInv, ChannelsInv
  <2>2. \A s \in Tags(channels') : IsChannel(channels'[s], s)
    BY <1>1, <1>7 DEF UInv, ChannelsInv
  <2>3. \A r, s \in Tags(channels') : r # s =>
          channels'[r].common # channels'[s].common /\ channels'[r].unit # channels'[s].unit
    BY <1>1, <1>2 DEF UInv, ChannelsInv
  <2> QED BY <1>1, <1>6, <2>1, <2>2, <2>3 DEF ChannelsInv
<1>9. UInv'
  BY <1>4, <1>5, <1>8, BeginKeeps DEF BeginAdd
<1> QED BY <1>4, <1>5, <1>9

\* A participant's request: only its own entry of its own channel changes.
LEMMA RegisterStep ==
    ASSUME UInv, NEW t \in Tags(channels), NEW i \in DOMAIN Group[t], BeginRegister(t, i)
    PROVE  /\ UInv'
           /\ Known(channels) \subseteq Known(channels')
           /\ \A s \in Known(channels) : channels'[s] = channels[s]
<1> DEFINE part == [node |-> Group[t][i], qp |-> <<t, i>>,
                    fqp |-> NextFabricQp(channels[t], Group[t][i])]
           ch == [common |-> channels[t].common, unit |-> channels[t].unit,
                  parts |-> [channels[t].parts EXCEPT ![i] = part]]
<1>1. ChannelsInv /\ IsChannel(channels[t], t)
  BY DEF UInv, ChannelsInv
<1>2. channels' = [channels EXCEPT ![t] = ch]
  <2>1. channels' = [channels EXCEPT ![t].parts[i] = part]
    BY DEF BeginRegister, UpdateParticipant
  <2>2. ch = [channels[t] EXCEPT !.parts = [channels[t].parts EXCEPT ![i] = part]]
    BY <1>1 DEF IsChannel
  <2> HIDE DEF ch, part
  <2> QED BY <2>1, <2>2
<1>3. /\ part.node = Group[t][i] /\ part.fqp[1] = channels[t].common
  BY DEF NextFabricQp
<1>4. IsChannel(ch, t)
  <2>1. /\ ch = [common |-> ch.common, unit |-> ch.unit, parts |-> ch.parts]
        /\ ch.common = channels[t].common /\ ch.unit = channels[t].unit
        /\ ch.parts = [channels[t].parts EXCEPT ![i] = part]
    OBVIOUS
  <2> HIDE DEF ch, part
  <2>2. /\ ch.parts = [j \in DOMAIN Group[t] |-> ch.parts[j]]
        /\ ch.parts[i] = part
        /\ \A j \in DOMAIN Group[t] \ {i} : ch.parts[j] = channels[t].parts[j]
    BY <1>1, <2>1 DEF IsChannel
  <2> QED BY <1>1, <1>3, <2>1, <2>2 DEF IsChannel
<1>5. ch.common = channels[t].common /\ ch.unit = channels[t].unit
  OBVIOUS
<1>6. t \notin Known(channels)
  BY <1>1 DEF Known, AllKnown, BeginRegister, IsChannel
<1> HIDE DEF ch, part
<1>7. /\ Tags(channels') = Tags(channels) /\ channels'[t] = ch
      /\ \A s \in Tags(channels) \ {t} : channels'[s] = channels[s]
      /\ IsTable(channels')
  BY <1>1, <1>2 DEF Tags, ChannelsInv, IsTable
<1>8. \A s \in Known(channels) : s \in Known(channels') /\ channels'[s] = channels[s]
  BY <1>6, <1>7 DEF Known
<1>9. ChannelsInv'
  <2>1. \A s \in Tags(channels') : IsChannel(channels'[s], s)
    BY <1>1, <1>4, <1>7 DEF ChannelsInv
  <2>2. \A r, s \in Tags(channels') : r # s =>
          channels'[r].common # channels'[s].common /\ channels'[r].unit # channels'[s].unit
    BY <1>1, <1>5, <1>7 DEF ChannelsInv
  <2>3. nextCommon' = nextCommon
    BY DEF BeginRegister
  <2> QED BY <1>1, <1>7, <2>1, <2>2, <2>3 DEF ChannelsInv
<1>10. UInv'
  BY <1>8, <1>9, BeginKeeps DEF BeginRegister
<1> QED BY <1>8, <1>10

\* A channel is removed: its entries and sums become those of a unit that leaves.
LEMMA RemoveStep ==
    ASSUME UInv, NEW t \in Tags(channels), BeginRemove(t)
    PROVE  /\ UInv'
           /\ Known(channels') = Known(channels) \ {t}
           /\ \A s \in Known(channels') : channels'[s] = channels[s]
<1> DEFINE gone == IF t \in Known(channels)
                   THEN {[tag |-> t, unit |-> channels[t].unit]} ELSE {}
<1>1. /\ Tags(channels') = Tags(channels) \ {t}
      /\ \A s \in Tags(channels') : channels'[s] = channels[s]
      /\ IsTable(channels')
  BY DEF BeginRemove, RemoveChannels, Restrict, Tags, IsTable
<1>2. /\ Known(channels') = Known(channels) \ {t}
      /\ \A s \in Known(channels') : channels'[s] = channels[s]
  BY <1>1 DEF Known
<1>3. Idle /\ UNCHANGED <<nextCommon, tables, registers>> /\ Begin(gone)
  BY DEF BeginRemove
<1>4. ChannelsInv /\ ChannelsInv'
  BY <1>1, <1>3 DEF UInv, ChannelsInv
<1>5. /\ update.leaving = {} /\ LeavingUnits = {}
      /\ Between(tables.selector, Selectors(channels), Known(channels), {})
      /\ Between(tables.output, Outputs(channels), Known(channels), {})
      /\ tables.complete = Completes(channels)
  BY <1>3, IdleTables
<1>6. /\ channels[t].unit \in 0 .. MaxUnits - 1 /\ t \in DOMAIN Group
      /\ \A s \in Tags(channels') : channels'[s].unit # channels[t].unit
  <2>1. channels[t].unit \in 0 .. MaxUnits - 1 /\ t \in DOMAIN Group
    BY <1>4 DEF ChannelsInv, IsChannel
  <2>2. ASSUME NEW s \in Tags(channels') PROVE channels'[s].unit # channels[t].unit
    <3>1. s \in Tags(channels) /\ s # t /\ channels'[s] = channels[s]
      BY <1>1
    <3> QED BY <1>4, <3>1 DEF ChannelsInv
  <2> QED BY <2>1, <2>2
<1> DEFINE left == update.served \ {l.tag : l \in gone}
<1>7. left \subseteq Known(channels) \ {t}
  BY DEF UInv, UpdateInv
<1>8. /\ update' = [writes |-> Known(channels') \X DOMAIN WriteSteps, next |-> 1,
                    served |-> left, leaving |-> gone, lost |-> {}]
      /\ update'.next = 1 /\ update'.leaving = gone
  BY <1>3 DEF Begin
<1>9. /\ \A l \in gone : l = [tag |-> t, unit |-> channels[t].unit] /\ l.tag = t
                         /\ l.unit = channels[t].unit
      /\ IF t \in Known(channels)
         THEN [tag |-> t, unit |-> channels[t].unit] \in gone ELSE gone = {}
  OBVIOUS
<1> HIDE DEF gone, left
<1>10. UpdateInv'
  BY <1>2, <1>6, <1>7, <1>8, <1>9, StepNames DEF UpdateInv, Idle
<1>11. ASSUME NEW k \in 1 .. 5 PROVE Done(k)' = left
  BY <1>2, <1>7, <1>8, StepNames DEF Done
<1>12. LeavingUnits' = IF t \in Known(channels) THEN {channels[t].unit} ELSE {}
  <2>1. LeavingUnits' = {l.unit : l \in gone}
    BY <1>8 DEF LeavingUnits
  <2>2. CASE t \in Known(channels)
    BY <1>9, <2>1, <2>2
  <2>3. CASE t \notin Known(channels)
    BY <1>9, <2>1, <2>3
  <2> QED BY <2>2, <2>3
<1>13. \A pipe \in {0, 3} :
          Left("selector", pipe)' /\ Left("output", pipe)' /\ Left("complete", pipe)'
  BY <1>8, StepNames DEF Left
<1>14. SelectorInv'
  <2> DEFINE sels == Selectors(channels)
             less == Selectors(channels')
  <2>1. /\ DOMAIN sels = Known(channels) /\ DOMAIN less = Known(channels) \ {t}
        /\ \A s \in DOMAIN less : less[s] = sels[s]
    BY <1>2 DEF Selectors
  <2>2. t \in DOMAIN sels => DOMAIN tables.selector \cap DOMAIN sels[t] \subseteq ExcessSelectors'
    <3> SUFFICES ASSUME t \in Known(channels), NEW k \in DOMAIN tables.selector,
                        k \in DOMAIN sels[t]
                 PROVE  k \in ExcessSelectors'
      BY <2>1
    <3>1. PipeOfKey(k) \in {0, 3} /\ sels[t][k].unit = channels[t].unit
      BY <1>4, KnownEntries
    <3>2. tables.selector[k] = sels[t][k]
      <4>1. PICK s \in DOMAIN sels : k \in DOMAIN sels[s] /\ tables.selector[k] = sels[s][k]
        BY <1>5 DEF Between
      <4>2. s = t
        BY <1>4, <2>1, <4>1, KnownEntries DEF EntriesDisjoint
      <4> QED BY <4>1, <4>2
    <3>3. tables' = tables
      BY <1>3
    <3> QED BY <1>12, <1>13, <3>1, <3>2, <3>3 DEF ExcessSelectors
  <2>3. EntriesDisjoint(sels)
    BY <1>4, KnownEntries
  <2>4. left \in SUBSET (Known(channels) \ {t})
    BY <1>7
  <2> HIDE DEF sels, less
  <2>5. Between(tables.selector, sels, Known(channels), {})
    BY <1>5 DEF sels
  <2>6. ASSUME NEW X, X = ExcessSelectors' PROVE Between(tables.selector, less, left, X)
    <3>1. /\ t \in DOMAIN sels => DOMAIN tables.selector \cap DOMAIN sels[t] \subseteq X
          /\ Known(channels) \subseteq DOMAIN sels /\ DOMAIN less = DOMAIN sels \ {t}
      BY <2>1, <2>2, <2>6
    <3> QED BY <2>1, <2>3, <2>4, <2>5, <3>1, BetweenShrinks
  <2> QED BY <1>3, <1>11, <2>6 DEF SelectorInv, less
<1>15. OutputInv'
  <2> DEFINE outs == Outputs(channels)
             less == Outputs(channels')
  <2>1. /\ DOMAIN outs = Known(channels) /\ DOMAIN less = Known(channels) \ {t}
        /\ \A s \in DOMAIN less : less[s] = outs[s]
    BY <1>2 DEF Outputs
  <2>2. t \in DOMAIN outs => DOMAIN tables.output \cap DOMAIN outs[t] \subseteq ExcessOutputs'
    <3> SUFFICES ASSUME t \in Known(channels), NEW k \in DOMAIN tables.output,
                        k \in DOMAIN outs[t]
                 PROVE  k \in ExcessOutputs'
      BY <2>1
    <3>1. k[1] \in {0, 3} /\ k[2] = channels[t].unit
      BY <1>4, KnownEntries
    <3> QED BY <1>3, <1>12, <1>13, <3>1 DEF ExcessOutputs
  <2>3. EntriesDisjoint(outs)
    BY <1>4, KnownEntries
  <2>4. left \in SUBSET (Known(channels) \ {t})
    BY <1>7
  <2> HIDE DEF outs, less
  <2>5. Between(tables.output, outs, Known(channels), {})
    BY <1>5 DEF outs
  <2>6. ASSUME NEW X, X = ExcessOutputs' PROVE Between(tables.output, less, left, X)
    <3>1. /\ t \in DOMAIN outs => DOMAIN tables.output \cap DOMAIN outs[t] \subseteq X
          /\ Known(channels) \subseteq DOMAIN outs /\ DOMAIN less = DOMAIN outs \ {t}
      BY <2>1, <2>2, <2>6
    <3> QED BY <2>1, <2>3, <2>4, <2>5, <3>1, BetweenShrinks
  <2> QED BY <1>3, <1>11, <2>6 DEF OutputInv, less
<1>16. CompleteInv'
  <2>1. ASSUME NEW e \in tables.complete PROVE e \in Completes(channels') \cup ExcessCompletes'
    <3>1. PICK s \in Known(channels) : e \in CompleteEntries(channels[s])
      BY <1>5 DEF Completes
    <3>2. CASE s # t
      BY <1>2, <3>1, <3>2 DEF Completes
    <3>3. CASE s = t
      <4>1. e[1] = channels[t].unit /\ e[2] \in {0, 3}
        BY <1>4, <3>1, <3>3, KnownEntries
      <4> QED BY <1>3, <1>12, <1>13, <3>1, <3>3, <4>1 DEF ExcessCompletes
    <3> QED BY <3>2, <3>3
  <2>2. \A s \in left : CompleteEntries(channels'[s]) \subseteq tables.complete
    BY <1>2, <1>5, <1>7 DEF Completes
  <2> QED BY <1>3, <1>11, <2>1, <2>2 DEF CompleteInv
<1>17. LostInv'
  <2>1. ASSUME t \in Known(channels)
        PROVE  \E k \in DOMAIN tables.selector : tables.selector[k].unit = channels[t].unit
    <3> DEFINE sels == Selectors(channels)
    <3>1. /\ DOMAIN sels[t] # {} /\ DOMAIN sels = Known(channels)
          /\ \A k \in DOMAIN sels[t] : sels[t][k].unit = channels[t].unit
          /\ EntriesDisjoint(sels)
      BY <1>4, <2>1, KnownEntries
    <3> HIDE DEF sels
    <3>2. PICK k \in DOMAIN sels[t] : k \in DOMAIN tables.selector
      BY <1>5, <2>1, <3>1 DEF Between, sels
    <3>3. PICK s \in DOMAIN sels : k \in DOMAIN sels[s] /\ tables.selector[k] = sels[s][k]
      BY <1>5, <3>2 DEF Between, sels
    <3>4. s = t
      BY <2>1, <3>1, <3>2, <3>3 DEF EntriesDisjoint
    <3> QED BY <3>1, <3>2, <3>3, <3>4
  <2>2. update'.lost = {} /\ tables' = tables
    BY <1>3, <1>8
  <2> QED BY <1>12, <2>1, <2>2 DEF LostInv
<1>18. TablesInv'
  BY <1>3, <1>14, <1>15, <1>16, <1>17 DEF UInv, TablesInv
<1>19. RegistersInv'
  <2>1. ASSUME NEW u \in DOMAIN registers, NEW s \in registers[u]
        PROVE  \/ s \in Known(channels') /\ channels'[s].unit = u
               \/ [tag |-> s, unit |-> u] \in gone
    <3>1. s \in Known(channels) /\ channels[s].unit = u
      BY <1>5 DEF UInv, RegistersInv, NothingAfterClear
    <3> QED BY <1>2, <1>9, <3>1
  <2> QED BY <1>3, <1>8, <2>1 DEF UInv, RegistersInv, NothingAfterClear
<1> QED BY <1>2, <1>4, <1>10, <1>18, <1>19 DEF UInv

-----------------------------------------------------------------------------
(* Writes. *)

\* A write is done after it; the rest of the update stays as it is.
LEMMA WriteAdvances ==
    ASSUME UInv, NEW t, NEW k, <<t, k>> \in update.writes, WriteStep(t, k)
    PROVE  /\ t \in Known(channels) /\ k \in 1 .. 5
           /\ channels' = channels /\ nextCommon' = nextCommon /\ registers' = registers
           /\ ~Idle
           /\ ChannelsInv' /\ UpdateInv' /\ RegistersInv'
           /\ LeavingUnits' = LeavingUnits /\ update'.lost = update.lost
           /\ \A table, pipe : Left(table, pipe) => Left(table, pipe)'
           /\ \A j \in 1 .. 5 \ {k} : Done(j)' \subseteq Done(j)
           /\ Done(k)' \subseteq Done(k) \cup {t}
<1>1. /\ update' = [update EXCEPT !.writes = @ \ {<<t, k>>}]
      /\ channels' = channels /\ nextCommon' = nextCommon /\ registers' = registers
  BY DEF WriteStep
<1>2. ChannelsInv /\ UpdateInv /\ RegistersInv
  BY DEF UInv
<1>3. /\ update'.writes = update.writes \ {<<t, k>>} /\ update'.next = update.next
      /\ update'.served = update.served /\ update'.leaving = update.leaving
      /\ update'.lost = update.lost
      /\ update' = [writes |-> update'.writes, next |-> update'.next, served |-> update'.served,
                    leaving |-> update'.leaving, lost |-> update'.lost]
  BY <1>1, <1>2 DEF UpdateInv
<1>4. t \in Known(channels) /\ k \in 1 .. 5 /\ update.next = 1 /\ ~Idle
  BY <1>2, StepNames DEF UpdateInv, Idle
<1>5. UpdateInv'
  <2>1. /\ update'.writes \subseteq Known(channels') \X DOMAIN WriteSteps
        /\ update'.writes # {} => update'.next = 1
        /\ update'.served \subseteq Known(channels')
        /\ update'.next \in 1 .. Len(DeleteSteps) + 1
    BY <1>1, <1>2, <1>3 DEF UpdateInv
  <2>2. ~Idle'
    BY <1>3, <1>4, StepNames DEF Idle
  <2>3. \A l \in update'.leaving :
            /\ l = [tag |-> l.tag, unit |-> l.unit]
            /\ l.tag \in DOMAIN Group
            /\ l.unit \in 0 .. MaxUnits - 1
            /\ \A s \in Tags(channels') : channels'[s].unit # l.unit
    BY <1>1, <1>2, <1>3 DEF UpdateInv
  <2> QED BY <1>3, <2>1, <2>2, <2>3 DEF UpdateInv
<1>6. ChannelsInv'
  BY <1>1, <1>2 DEF ChannelsInv
<1>7. RegistersInv'
  BY <1>1, <1>2, <1>3 DEF RegistersInv, NothingAfterClear
<1>8. LeavingUnits' = LeavingUnits
  BY <1>3 DEF LeavingUnits
<1>9. \A table, pipe : Left(table, pipe) => Left(table, pipe)'
  BY <1>3 DEF Left
<1>10. \A j \in 1 .. 5 \ {k} : Done(j)' \subseteq Done(j)
  <2> SUFFICES ASSUME NEW j \in 1 .. 5 \ {k}, NEW s \in Done(j)' PROVE s \in Done(j)
    OBVIOUS
  <2>1. <<s, j>> # <<t, k>>
    OBVIOUS
  <2> QED BY <1>1, <1>3, <2>1 DEF Done
<1>11. Done(k)' \subseteq Done(k) \cup {t}
  <2> SUFFICES ASSUME NEW s \in Done(k)', s # t PROVE s \in Done(k)
    OBVIOUS
  <2>1. <<s, k>> # <<t, k>>
    OBVIOUS
  <2> QED BY <1>1, <1>3, <2>1 DEF Done
<1> QED BY <1>1, <1>3, <1>4, <1>5, <1>6, <1>7, <1>8, <1>9, <1>10, <1>11

\* Tables that are not touched by a step that deletes nothing of them.
LEMMA SelectorUntouched ==
    ASSUME SelectorInv, channels' = channels, tables'.selector = tables.selector,
           Done(3)' \subseteq Done(3),
           \A k \in DOMAIN tables.selector : k \in ExcessSelectors => k \in ExcessSelectors'
    PROVE  SelectorInv'
<1>1. ASSUME NEW done, done = Done(3)', NEW more, more = ExcessSelectors'
      PROVE  Between(tables.selector, Selectors(channels), done, more)
  <2>1. done \in SUBSET Done(3) /\ \A k \in ExcessSelectors : k \in more
    BY <1>1 DEF ExcessSelectors
  <2> QED BY <2>1, BetweenWeaker DEF SelectorInv
<1> QED BY <1>1 DEF SelectorInv

\* The same for output_address
LEMMA OutputUntouched ==
    ASSUME OutputInv, channels' = channels, tables'.output = tables.output,
           Done(4)' \subseteq Done(4),
           \A k \in DOMAIN tables.output : k \in ExcessOutputs => k \in ExcessOutputs'
    PROVE  OutputInv'
<1>1. ASSUME NEW done, done = Done(4)', NEW more, more = ExcessOutputs'
      PROVE  Between(tables.output, Outputs(channels), done, more)
  <2>1. done \in SUBSET Done(4) /\ \A k \in ExcessOutputs : k \in more
    BY <1>1 DEF ExcessOutputs
  <2> QED BY <2>1, BetweenWeaker DEF OutputInv
<1> QED BY <1>1 DEF OutputInv

\* and check_complete.
LEMMA CompleteUntouched ==
    ASSUME CompleteInv, channels' = channels, tables'.complete = tables.complete,
           Done(5)' \subseteq Done(5), ExcessCompletes \subseteq ExcessCompletes'
    PROVE  CompleteInv'
BY DEF CompleteInv

\* An entry of a unit that leaves is none that a known channel writes.
LEMMA LeavingKeys ==
    ASSUME ChannelsInv, UpdateInv, SelectorInv, NEW k \in DOMAIN tables.selector
    PROVE  \/ /\ tables.selector[k].unit \in UnitsInUse(channels)
              /\ tables.selector[k].unit \notin LeavingUnits
              /\ k \in Keys(Selectors(channels))
           \/ /\ tables.selector[k].unit \notin UnitsInUse(channels)
              /\ k \in ExcessSelectors
              /\ k \notin Keys(Selectors(channels))
<1>1. ASSUME NEW u \in UnitsInUse(channels) PROVE u \notin LeavingUnits
  BY DEF UpdateInv, UnitsInUse, LeavingUnits, Known
<1>2. CASE \E t \in Known(channels) : /\ k \in DOMAIN Selectors(channels)[t]
                                      /\ tables.selector[k] = Selectors(channels)[t][k]
  <2>1. PICK t \in Known(channels) : /\ k \in DOMAIN Selectors(channels)[t]
                                     /\ tables.selector[k] = Selectors(channels)[t][k]
    BY <1>2
  <2>2. tables.selector[k].unit = channels[t].unit
    BY <2>1, KnownEntries
  <2>3. k \in Keys(Selectors(channels))
    BY <2>1 DEF Keys, Selectors
  <2>4. tables.selector[k].unit \in UnitsInUse(channels)
    BY <2>1, <2>2 DEF UnitsInUse
  <2> QED BY <1>1, <2>3, <2>4
<1>3. CASE k \in ExcessSelectors /\ k \notin Keys(Selectors(channels))
  <2>1. tables.selector[k].unit \in LeavingUnits
    BY <1>3 DEF ExcessSelectors
  <2> QED BY <1>1, <1>3, <2>1
<1>4. DOMAIN Selectors(channels) = Known(channels)
  BY DEF Selectors
<1> QED BY <1>2, <1>3, <1>4 DEF SelectorInv, Between

\* Every write keeps the invariant.
LEMMA WriteKeeps ==
    ASSUME UInv, NEW t, NEW k, <<t, k>> \in update.writes, WriteStep(t, k)
    PROVE  UInv'
<1>1. /\ t \in Known(channels) /\ k \in 1 .. 5
      /\ channels' = channels
      /\ ChannelsInv' /\ UpdateInv' /\ RegistersInv'
      /\ LeavingUnits' = LeavingUnits /\ update'.lost = update.lost
      /\ \A table, pipe : Left(table, pipe) => Left(table, pipe)'
      /\ \A j \in 1 .. 5 \ {k} : Done(j)' \subseteq Done(j)
      /\ Done(k)' \subseteq Done(k) \cup {t}
  BY WriteAdvances
<1> DEFINE ch == channels[t]
<1>2. /\ ChannelsInv /\ UpdateInv
      /\ SelectorInv /\ OutputInv /\ CompleteInv /\ LostInv
      /\ tables = [selector |-> tables.selector, complete |-> tables.complete,
                   output |-> tables.output, mcNode |-> tables.mcNode,
                   mcGroup |-> tables.mcGroup]
  BY DEF UInv, TablesInv
<1>3. \/ k = 1 /\ tables' = [tables EXCEPT !.mcNode = Put(McNodeEntries(ch), @)]
      \/ k = 2 /\ tables' = [tables EXCEPT !.mcGroup = Put(McGroupEntries(ch), @)]
      \/ k = 3 /\ tables' = [tables EXCEPT !.selector = Put(SelectorEntries(ch), @)]
      \/ k = 4 /\ tables' = [tables EXCEPT !.output = Put(OutputEntries(ch), @)]
      \/ k = 5 /\ tables' = [tables EXCEPT !.complete = @ \cup CompleteEntries(ch)]
  BY <1>1, StepNames DEF WriteStep
<1> HIDE DEF ch
<1>4. tables' = [selector |-> tables'.selector, complete |-> tables'.complete,
                 output |-> tables'.output, mcNode |-> tables'.mcNode,
                 mcGroup |-> tables'.mcGroup]
  BY <1>2, <1>3
<1>5. /\ tables'.selector = IF k = 3 THEN Put(SelectorEntries(ch), tables.selector)
                                     ELSE tables.selector
      /\ tables'.output = IF k = 4 THEN Put(OutputEntries(ch), tables.output) ELSE tables.output
      /\ tables'.complete = IF k = 5 THEN tables.complete \cup CompleteEntries(ch)
                                     ELSE tables.complete
  <2>1. CASE k \in {1, 2}
    BY <1>2, <1>3, <2>1
  <2>2. CASE k = 3
    BY <1>2, <1>3, <2>2
  <2>3. CASE k = 4
    BY <1>2, <1>3, <2>3
  <2>4. CASE k = 5
    BY <1>2, <1>3, <2>4
  <2> QED BY <1>1, <2>1, <2>2, <2>3, <2>4
<1>6. SelectorInv' /\ LostInv'
  <2>1. CASE k # 3
    <3>1. \A key \in DOMAIN tables.selector : key \in ExcessSelectors => key \in ExcessSelectors'
      BY <1>1, <1>5, <2>1 DEF ExcessSelectors
    <3>2. SelectorInv'
      BY <1>1, <1>2, <1>5, <2>1, <3>1, SelectorUntouched
    <3>3. LostInv'
      BY <1>1, <1>2, <1>5, <2>1 DEF LostInv
    <3> QED BY <3>2, <3>3
  <2>2. CASE k = 3
    <3> DEFINE sels == Selectors(channels)
               table == Put(sels[t], tables.selector)
    <3>1. t \in DOMAIN sels /\ tables'.selector = table
      BY <1>1, <1>5, <2>2 DEF Selectors, ch
    <3>2. \A key : key \in DOMAIN tables.selector /\ key \notin Keys(sels) =>
              key \in DOMAIN table /\ table[key] = tables.selector[key]
      BY <3>1 DEF Put, Keys
    <3>3. Between(tables.selector, sels, Done(3), ExcessSelectors)
      BY <1>2 DEF SelectorInv
    <3> HIDE DEF sels
    <3>4. Between(table, sels, Done(3) \cup {t}, ExcessSelectors)
      BY <3>1, <3>3, BetweenPut
    <3> HIDE DEF table
    <3>5. ASSUME NEW done, done = Done(3)', NEW more, more = ExcessSelectors'
          PROVE  Between(table, sels, done, more)
      <4>1. done \in SUBSET (Done(3) \cup {t})
        BY <1>1, <2>2, <3>5
      <4>2. \A key \in ExcessSelectors : key \in DOMAIN table /\ key \notin Keys(sels) => key \in more
        BY <1>1, <3>1, <3>2, <3>5 DEF ExcessSelectors
      <4> QED BY <3>4, <4>1, <4>2, BetweenWeaker
    <3>6. SelectorInv'
      BY <1>1, <3>1, <3>5 DEF SelectorInv, sels
    <3>7. ASSUME NEW u \in LeavingUnits \ update.lost
          PROVE  \E key \in DOMAIN table : table[key].unit = u
      <4>1. PICK key \in DOMAIN tables.selector : tables.selector[key].unit = u
        BY <1>2, <3>7 DEF LostInv
      <4>2. key \notin Keys(sels)
        BY <1>2, <3>7, <4>1, LeavingKeys DEF sels
      <4> QED BY <3>2, <4>1, <4>2
    <3>8. LostInv'
      BY <1>1, <1>2, <3>1, <3>7 DEF LostInv
    <3> QED BY <3>6, <3>8
  <2> QED BY <2>1, <2>2
<1>7. OutputInv'
  <2>1. CASE k # 4
    <3>1. \A key \in DOMAIN tables.output : key \in ExcessOutputs => key \in ExcessOutputs'
      BY <1>1, <1>5, <2>1 DEF ExcessOutputs
    <3> QED BY <1>1, <1>2, <1>5, <2>1, <3>1, OutputUntouched
  <2>2. CASE k = 4
    <3> DEFINE outs == Outputs(channels)
               table == Put(outs[t], tables.output)
    <3>1. t \in DOMAIN outs /\ tables'.output = table
      BY <1>1, <1>5, <2>2 DEF Outputs, ch
    <3>2. Between(tables.output, outs, Done(4), ExcessOutputs)
      BY <1>2 DEF OutputInv
    <3>3. DOMAIN tables.output \subseteq DOMAIN table
      BY DEF Put
    <3> HIDE DEF outs
    <3>4. Between(table, outs, Done(4) \cup {t}, ExcessOutputs)
      BY <3>1, <3>2, BetweenPut
    <3> HIDE DEF table
    <3>5. ASSUME NEW done, done = Done(4)', NEW more, more = ExcessOutputs'
          PROVE  Between(table, outs, done, more)
      <4>1. done \in SUBSET (Done(4) \cup {t})
        BY <1>1, <2>2, <3>5
      <4>2. \A key \in ExcessOutputs : key \in more
        BY <1>1, <3>1, <3>3, <3>5 DEF ExcessOutputs
      <4> QED BY <3>4, <4>1, <4>2, BetweenWeaker
    <3> QED BY <1>1, <3>1, <3>5 DEF OutputInv, outs
  <2> QED BY <2>1, <2>2
<1>8. CompleteInv'
  <2>1. ExcessCompletes \subseteq ExcessCompletes'
    BY <1>1, <1>5 DEF ExcessCompletes
  <2>2. CASE k # 5
    BY <1>1, <1>2, <1>5, <2>1, <2>2, CompleteUntouched
  <2>3. CASE k = 5
    <3>1. CompleteEntries(ch) \subseteq Completes(channels)
      BY <1>1 DEF Completes, ch
    <3>2. Completes(channels') = Completes(channels)
      BY <1>1
    <3>3. tables'.complete \subseteq Completes(channels') \cup ExcessCompletes'
      BY <1>2, <1>5, <2>1, <2>3, <3>1, <3>2 DEF CompleteInv
    <3>4. \A s \in Done(5)' : CompleteEntries(channels'[s]) \subseteq tables'.complete
      BY <1>1, <1>2, <1>5, <2>3 DEF CompleteInv, ch
    <3> QED BY <3>3, <3>4 DEF CompleteInv
  <2> QED BY <2>2, <2>3
<1> QED BY <1>1, <1>4, <1>6, <1>7, <1>8 DEF UInv, TablesInv

-----------------------------------------------------------------------------
(* Deletions. *)

\* What a delete step has not deleted stays to be deleted.
LEMMA StillLeft ==
    ASSUME UInv, ~Idle, update.writes = {}, channels' = channels, NEW lost, Advance(lost),
           NEW table, NEW pipe, DeleteSteps[update.next] = <<table, pipe>>
    PROVE  /\ \A k \in DOMAIN tables.selector :
                 /\ k \in ExcessSelectors /\ k \in DOMAIN tables'.selector
                 /\ tables'.selector[k] = tables.selector[k]
                 /\ (table = "selector" => PipeOfKey(k) # pipe)
                 => k \in ExcessSelectors'
           /\ \A k \in DOMAIN tables.output :
                 /\ k \in ExcessOutputs /\ k \in DOMAIN tables'.output
                 /\ (table = "output" => k[1] # pipe)
                 => k \in ExcessOutputs'
           /\ \A e \in tables.complete :
                 /\ e \in ExcessCompletes /\ e \in tables'.complete
                 /\ (table = "complete" => e[2] # pipe)
                 => e \in ExcessCompletes'
<1>1. UpdateInv
  BY DEF UInv
<1>2. /\ \A tb, p : Left(tb, p) /\ <<table, pipe>> # <<tb, p>> => update.next # 9 /\ Left(tb, p)'
      /\ update.next # 9 => LeavingUnits' = LeavingUnits
  BY <1>1, AdvanceStep
<1>3. \A tb, p : (table = tb => p # pipe) => <<table, pipe>> # <<tb, p>>
  OBVIOUS
<1>4. \A tb, p : Left(tb, p) /\ (table = tb => p # pipe) => LeavingUnits' = LeavingUnits /\ Left(tb, p)'
  BY <1>2, <1>3
<1> QED BY <1>4 DEF ExcessSelectors, ExcessOutputs, ExcessCompletes

\* Entries of units that are not in use are deleted at one pipe.
LEMMA DeleteKeeps ==
    ASSUME UInv, ~Idle, update.writes = {}, NEW table, NEW pipe,
           DeleteSteps[update.next] = <<table, pipe>>, DeleteStep(table, pipe)
    PROVE  UInv'
<1> DEFINE D == {k \in DOMAIN tables.selector :
                    PipeOfKey(k) = pipe /\ ~Used(tables.selector[k].unit)}
           lost == IF table = "selector" THEN {tables.selector[k].unit : k \in D} ELSE {}
<1>1. /\ ChannelsInv /\ UpdateInv /\ RegistersInv
      /\ SelectorInv /\ OutputInv /\ CompleteInv /\ LostInv
      /\ tables = [selector |-> tables.selector, complete |-> tables.complete,
                   output |-> tables.output, mcNode |-> tables.mcNode,
                   mcGroup |-> tables.mcGroup]
  BY DEF UInv, TablesInv
<1>2. /\ channels' = channels /\ nextCommon' = nextCommon /\ registers' = registers
      /\ Advance(lost)
  BY DEF DeleteStep
<1>3. \/ /\ table = "selector"
         /\ tables' = [tables EXCEPT !.selector = Restrict(@, DOMAIN @ \ D)]
      \/ /\ table = "complete"
         /\ tables' = [tables EXCEPT !.complete = {e \in @ : e[2] = pipe => Used(e[1])}]
      \/ /\ table = "output"
         /\ tables' = [tables EXCEPT !.output =
                          Restrict(@, {k \in DOMAIN @ : k[1] = pipe => Used(k[2])})]
  BY DEF DeleteStep
<1> DEFINE selector == IF table = "selector"
                       THEN Restrict(tables.selector, DOMAIN tables.selector \ D)
                       ELSE tables.selector
           complete == IF table = "complete"
                       THEN {e \in tables.complete : e[2] = pipe => Used(e[1])}
                       ELSE tables.complete
           output == IF table = "output"
                     THEN Restrict(tables.output,
                              {k \in DOMAIN tables.output : k[1] = pipe => Used(k[2])})
                     ELSE tables.output
<1>4. /\ tables' = [selector |-> tables'.selector, complete |-> tables'.complete,
                    output |-> tables'.output, mcNode |-> tables'.mcNode,
                    mcGroup |-> tables'.mcGroup]
      /\ tables'.selector = selector /\ tables'.complete = complete /\ tables'.output = output
  <2>1. CASE table = "selector"
    BY <1>1, <1>3, <2>1
  <2>2. CASE table = "complete"
    BY <1>1, <1>3, <2>2
  <2>3. CASE table = "output"
    BY <1>1, <1>3, <2>3
  <2> QED BY <1>3, <2>1, <2>2, <2>3
<1> HIDE DEF D, lost
<1>5. /\ UpdateInv'
      /\ \A k : Done(k) = Known(channels) /\ Done(k)' = Known(channels)
  BY <1>1, <1>2, AdvanceStep
<1>6. update.next # 9
  <2>1. <<table, pipe>>[1] \in {"selector", "complete", "output"} /\ <<"clear", 0>>[1] = "clear"
    BY <1>3
  <2> QED BY <2>1, StepNames
<1>7. /\ LeavingUnits' = LeavingUnits /\ update'.leaving = update.leaving
      /\ update'.lost = update.lost \cup lost
  BY <1>1, <1>2, <1>6, AdvanceStep
<1>8. /\ \A k \in DOMAIN tables.selector :
            /\ k \in ExcessSelectors /\ k \in DOMAIN tables'.selector
            /\ tables'.selector[k] = tables.selector[k]
            /\ (table = "selector" => PipeOfKey(k) # pipe)
            => k \in ExcessSelectors'
      /\ \A k \in DOMAIN tables.output :
            /\ k \in ExcessOutputs /\ k \in DOMAIN tables'.output
            /\ (table = "output" => k[1] # pipe)
            => k \in ExcessOutputs'
      /\ \A e \in tables.complete :
            /\ e \in ExcessCompletes /\ e \in tables'.complete
            /\ (table = "complete" => e[2] # pipe)
            => e \in ExcessCompletes'
  BY <1>2, StillLeft
<1>9. ChannelsInv' /\ RegistersInv'
  BY <1>1, <1>2, <1>7 DEF ChannelsInv, RegistersInv, NothingAfterClear
<1>10. SelectorInv' /\ LostInv'
  <2>1. CASE table # "selector"
    <3>1. tables'.selector = tables.selector /\ update'.lost = update.lost
      BY <1>4, <1>7, <2>1 DEF lost
    <3>2. \A k \in DOMAIN tables.selector : k \in ExcessSelectors => k \in ExcessSelectors'
      BY <1>8, <2>1, <3>1
    <3>3. SelectorInv'
      BY <1>1, <1>2, <1>5, <3>1, <3>2, SelectorUntouched
    <3>4. LostInv'
      BY <1>1, <1>7, <3>1 DEF LostInv
    <3> QED BY <3>3, <3>4
  <2>2. CASE table = "selector"
    <3>1. /\ tables'.selector = Restrict(tables.selector, DOMAIN tables.selector \ D)
          /\ DOMAIN tables'.selector = DOMAIN tables.selector \ D
          /\ \A k \in DOMAIN tables'.selector : tables'.selector[k] = tables.selector[k]
      BY <1>4, <2>2 DEF Restrict
    <3>2. \A k \in D : /\ k \in DOMAIN tables.selector /\ PipeOfKey(k) = pipe
                       /\ tables.selector[k].unit \notin UnitsInUse(channels)
                       /\ k \notin Keys(Selectors(channels)) /\ k \in ExcessSelectors
      <4> SUFFICES ASSUME NEW k \in D
                   PROVE  /\ k \in DOMAIN tables.selector /\ PipeOfKey(k) = pipe
                          /\ tables.selector[k].unit \notin UnitsInUse(channels)
                          /\ k \notin Keys(Selectors(channels)) /\ k \in ExcessSelectors
        OBVIOUS
      <4>1. k \in DOMAIN tables.selector /\ PipeOfKey(k) = pipe
            /\ tables.selector[k].unit \notin UnitsInUse(channels)
        BY DEF D, Used
      <4> QED BY <1>1, <4>1, LeavingKeys
    <3> DEFINE sels == Selectors(channels)
    <3>3. D \cap Keys(sels) = {}
      BY <3>2
    <3>4. Known(channels) \in SUBSET DOMAIN sels
      BY DEF Selectors
    <3>5. Between(tables.selector, sels, Known(channels), ExcessSelectors)
      BY <1>1, <1>5 DEF SelectorInv
    <3> HIDE DEF sels
    <3>6. Between(tables'.selector, sels, Known(channels), ExcessSelectors \ D)
      <4>1. Between(Restrict(tables.selector, DOMAIN tables.selector \ D), sels,
                    Known(channels), ExcessSelectors \ D)
        BY <3>3, <3>4, <3>5, BetweenRestrict
      <4> QED BY <3>1, <4>1
    <3>7. ASSUME NEW k \in ExcessSelectors \ D PROVE k \in ExcessSelectors'
      <4>1. k \in DOMAIN tables.selector /\ tables.selector[k].unit \in LeavingUnits
        BY DEF ExcessSelectors
      <4>2. tables.selector[k].unit \notin UnitsInUse(channels)
        BY <1>1, <4>1, LeavingKeys
      <4>3. PipeOfKey(k) # pipe
        BY <4>1, <4>2 DEF D, Used
      <4> QED BY <1>8, <3>1, <4>1, <4>3
    <3>8. ASSUME NEW f, f = tables'.selector, NEW more, more = ExcessSelectors'
          PROVE  Between(f, sels, Known(channels), more)
      <4>1. Between(f, sels, Known(channels), ExcessSelectors \ D)
        BY <3>6, <3>8
      <4>2. \A k \in ExcessSelectors \ D : k \in more
        BY <3>7, <3>8
      <4>3. Known(channels) \in SUBSET Known(channels)
        OBVIOUS
      <4> QED BY <4>1, <4>2, <4>3, BetweenWeaker
    <3>9. SelectorInv'
      BY <1>2, <1>5, <3>8 DEF SelectorInv, sels
    <3>10. lost = {tables.selector[k].unit : k \in D} /\ lost \subseteq LeavingUnits
      BY <2>2, <3>2 DEF lost, ExcessSelectors
    <3>11. ASSUME NEW u \in LeavingUnits \ (update.lost \cup lost)
           PROVE  \E k \in DOMAIN tables'.selector : tables'.selector[k].unit = u
      <4>1. PICK k \in DOMAIN tables.selector : tables.selector[k].unit = u
        BY <1>1, <3>11 DEF LostInv
      <4>2. k \notin D
        BY <3>10, <3>11, <4>1
      <4> QED BY <3>1, <4>1, <4>2
    <3>12. LostInv'
      BY <1>1, <1>7, <3>10, <3>11 DEF LostInv
    <3> QED BY <3>9, <3>12
  <2> QED BY <2>1, <2>2
<1>11. OutputInv'
  <2>1. CASE table # "output"
    <3>1. tables'.output = tables.output
      BY <1>4, <2>1
    <3>2. \A k \in DOMAIN tables.output : k \in ExcessOutputs => k \in ExcessOutputs'
      BY <1>8, <2>1, <3>1
    <3> QED BY <1>1, <1>2, <1>5, <3>1, <3>2, OutputUntouched
  <2>2. CASE table = "output"
    <3> DEFINE outs == Outputs(channels)
               E == {k \in DOMAIN tables.output : k[1] = pipe /\ ~Used(k[2])}
    <3>1. /\ tables'.output = Restrict(tables.output, DOMAIN tables.output \ E)
          /\ DOMAIN tables'.output = DOMAIN tables.output \ E
      <4>1. {k \in DOMAIN tables.output : k[1] = pipe => Used(k[2])} = DOMAIN tables.output \ E
        OBVIOUS
      <4> HIDE DEF E
      <4> QED BY <1>4, <2>2, <4>1 DEF Restrict
    <3>2. E \cap Keys(outs) = {}
      <4> SUFFICES ASSUME NEW k \in E, k \in Keys(outs) PROVE FALSE
        OBVIOUS
      <4>1. PICK t \in Known(channels) : k \in DOMAIN outs[t]
        BY DEF Keys, Outputs
      <4>2. k[2] = channels[t].unit
        BY <1>1, <4>1, KnownEntries
      <4> QED BY <4>1, <4>2 DEF Used, UnitsInUse
    <3>3. Known(channels) \in SUBSET DOMAIN outs
      BY DEF Outputs
    <3>4. Between(tables.output, outs, Known(channels), ExcessOutputs)
      BY <1>1, <1>5 DEF OutputInv
    <3>5. \A k \in DOMAIN tables.output : k \notin E => (k[1] = pipe => Used(k[2]))
      OBVIOUS
    <3> HIDE DEF outs, E
    <3>6. Between(tables'.output, outs, Known(channels), ExcessOutputs \ E)
      <4>1. Between(Restrict(tables.output, DOMAIN tables.output \ E), outs,
                    Known(channels), ExcessOutputs \ E)
        BY <3>2, <3>3, <3>4, BetweenRestrict
      <4> QED BY <3>1, <4>1
    <3>7. ASSUME NEW k \in ExcessOutputs \ E PROVE k \in ExcessOutputs'
      <4>1. k \in DOMAIN tables.output /\ k[2] \in LeavingUnits
        BY DEF ExcessOutputs
      <4>2. ~Used(k[2])
        BY <1>1, <4>1 DEF Used, UnitsInUse, UpdateInv, LeavingUnits, Known
      <4>3. k[1] # pipe
        BY <3>5, <4>1, <4>2
      <4> QED BY <1>8, <3>1, <4>1, <4>3
    <3>8. ASSUME NEW f, f = tables'.output, NEW more, more = ExcessOutputs'
          PROVE  Between(f, outs, Known(channels), more)
      <4>1. Between(f, outs, Known(channels), ExcessOutputs \ E)
        BY <3>6, <3>8
      <4>2. \A k \in ExcessOutputs \ E : k \in more
        BY <3>7, <3>8
      <4>3. Known(channels) \in SUBSET Known(channels)
        OBVIOUS
      <4> QED BY <4>1, <4>2, <4>3, BetweenWeaker
    <3> QED BY <1>2, <1>5, <3>8 DEF OutputInv, outs
  <2> QED BY <2>1, <2>2
<1>12. CompleteInv'
  <2>1. tables'.complete \subseteq tables.complete
    BY <1>4
  <2>2. ASSUME NEW e \in tables'.complete PROVE e \in Completes(channels) \cup ExcessCompletes'
    <3>1. CASE e \in Completes(channels)
      BY <3>1
    <3>2. CASE e \in ExcessCompletes
      <4>1. e[1] \in LeavingUnits /\ e \in tables.complete
        BY <3>2 DEF ExcessCompletes
      <4>2. ~Used(e[1])
        BY <1>1, <4>1 DEF Used, UnitsInUse, UpdateInv, LeavingUnits, Known
      <4>3. table = "complete" => e[2] # pipe
        BY <1>4, <2>2, <4>2
      <4> QED BY <1>8, <2>2, <3>2, <4>1, <4>3
    <3> QED BY <1>1, <2>1, <2>2, <3>1, <3>2 DEF CompleteInv
  <2>3. ASSUME NEW t \in Known(channels), NEW e \in CompleteEntries(channels[t])
        PROVE  e \in tables'.complete
    <3>1. e \in tables.complete
      BY <1>1, <1>5, <2>3 DEF CompleteInv
    <3>2. Used(e[1])
      <4>1. e[1] = channels[t].unit
        BY <1>1, <2>3, KnownEntries
      <4> QED BY <2>3, <4>1 DEF Used, UnitsInUse
    <3> QED BY <1>4, <3>1, <3>2
  <2>4. \A t \in Done(5)' : CompleteEntries(channels[t]) \subseteq tables'.complete
    BY <1>5, <2>3
  <2> QED BY <1>2, <2>2, <2>4 DEF CompleteInv
<1> QED BY <1>4, <1>5, <1>9, <1>10, <1>11, <1>12 DEF UInv, TablesInv

\* When registers are cleared, every unit that is given up has lost its entries.
LEMMA ClearedAreLost == ASSUME UInv, update.next = 9 PROVE LeavingUnits = update.lost
<1>1. ChannelsInv /\ UpdateInv /\ SelectorInv /\ LostInv
  BY DEF UInv, TablesInv
<1>2. ASSUME NEW u \in LeavingUnits, u \notin update.lost PROVE FALSE
  <2>1. PICK k \in DOMAIN tables.selector : tables.selector[k].unit = u
    BY <1>1, <1>2 DEF LostInv
  <2>2. k \in ExcessSelectors
    BY <1>1, <1>2, <2>1, LeavingKeys
  <2> QED BY <2>2, LeftAtEnds DEF ExcessSelectors
<1> QED BY <1>1, <1>2 DEF LostInv

\* The multicast tables and registers come last.
LEMMA LastStepsKeep ==
    ASSUME UInv, ~Idle, update.writes = {}, NEW table, NEW pipe,
           DeleteSteps[update.next] = <<table, pipe>>,
           MulticastStep(table) \/ (table = "clear" /\ ClearStep)
    PROVE  UInv'
<1>1. /\ ChannelsInv /\ UpdateInv /\ RegistersInv
      /\ SelectorInv /\ OutputInv /\ CompleteInv /\ LostInv
      /\ tables = [selector |-> tables.selector, complete |-> tables.complete,
                   output |-> tables.output, mcNode |-> tables.mcNode,
                   mcGroup |-> tables.mcGroup]
  BY DEF UInv, TablesInv
<1>2. channels' = channels /\ nextCommon' = nextCommon /\ Advance({})
  BY DEF MulticastStep, ClearStep
<1>3. /\ tables'.selector = tables.selector /\ tables'.complete = tables.complete
      /\ tables'.output = tables.output
      /\ tables' = [selector |-> tables'.selector, complete |-> tables'.complete,
                    output |-> tables'.output, mcNode |-> tables'.mcNode,
                    mcGroup |-> tables'.mcGroup]
  BY <1>1 DEF MulticastStep, ClearStep
<1>4. table \in {"groups", "nodes", "clear"}
  BY DEF MulticastStep
<1>5. /\ UpdateInv'
      /\ \A k : Done(k) = Known(channels) /\ Done(k)' = Known(channels)
      /\ update.next # 9 => /\ LeavingUnits' = LeavingUnits
                            /\ update'.leaving = update.leaving
                            /\ update'.lost = update.lost \cup {}
      /\ update.next = 9 => LeavingUnits' = {} /\ update'.lost = {} /\ update'.leaving = {}
  BY <1>1, <1>2, AdvanceStep
<1>6. /\ \A k \in DOMAIN tables.selector : k \in ExcessSelectors => k \in ExcessSelectors'
      /\ \A k \in DOMAIN tables.output : k \in ExcessOutputs => k \in ExcessOutputs'
      /\ \A e \in tables.complete : e \in ExcessCompletes => e \in ExcessCompletes'
  <2>1. table # "selector" /\ table # "output" /\ table # "complete"
    BY <1>4
  <2>2. /\ \A k \in DOMAIN tables.selector :
              /\ k \in ExcessSelectors /\ k \in DOMAIN tables'.selector
              /\ tables'.selector[k] = tables.selector[k]
              /\ (table = "selector" => PipeOfKey(k) # pipe)
              => k \in ExcessSelectors'
        /\ \A k \in DOMAIN tables.output :
              /\ k \in ExcessOutputs /\ k \in DOMAIN tables'.output
              /\ (table = "output" => k[1] # pipe)
              => k \in ExcessOutputs'
        /\ \A e \in tables.complete :
              /\ e \in ExcessCompletes /\ e \in tables'.complete
              /\ (table = "complete" => e[2] # pipe)
              => e \in ExcessCompletes'
    BY <1>2, StillLeft
  <2> QED BY <1>3, <2>1, <2>2
<1>7. SelectorInv'
  BY <1>1, <1>2, <1>3, <1>5, <1>6, SelectorUntouched
<1>8. OutputInv'
  BY <1>1, <1>2, <1>3, <1>5, <1>6, OutputUntouched
<1>9. CompleteInv'
  <2>1. ExcessCompletes \subseteq ExcessCompletes'
    BY <1>6 DEF ExcessCompletes
  <2> QED BY <1>1, <1>2, <1>3, <1>5, <2>1, CompleteUntouched
<1>10. LostInv'
  BY <1>1, <1>3, <1>5 DEF LostInv
<1>11. ChannelsInv'
  BY <1>1, <1>2 DEF ChannelsInv
<1>12. RegistersInv'
  <2>1. CASE MulticastStep(table)
    <3>1. registers' = registers /\ table \in {"groups", "nodes"}
      BY <2>1 DEF MulticastStep
    <3>2. update.next # 9
      <4>1. <<table, pipe>>[1] \in {"groups", "nodes"} /\ <<"clear", 0>>[1] = "clear"
        BY <3>1
      <4> QED BY <4>1, StepNames
    <3> QED BY <1>1, <1>2, <1>5, <3>1, <3>2 DEF RegistersInv, NothingAfterClear
  <2>2. CASE table = "clear" /\ ClearStep
    <3>1. update.next = 9
      <4>1. update.next \in 1 .. 9
        BY <1>1, StepNames DEF UpdateInv, Idle
      <4>2. <<table, pipe>>[1] = "clear" /\ <<"selector", 0>>[1] # "clear"
            /\ <<"complete", 0>>[1] # "clear" /\ <<"output", 0>>[1] # "clear"
            /\ <<"selector", 3>>[1] # "clear" /\ <<"complete", 3>>[1] # "clear"
            /\ <<"output", 3>>[1] # "clear" /\ <<"groups", 0>>[1] # "clear"
            /\ <<"nodes", 0>>[1] # "clear"
        BY <2>2
      <4> QED BY <4>1, <4>2, StepNames
    <3>2. LeavingUnits \subseteq update.lost
      BY <3>1, ClearedAreLost
    <3>3. registers' = [u \in DOMAIN registers |->
                           IF u \in update.lost THEN {} ELSE registers[u]]
      BY <2>2 DEF ClearStep
    <3>4. ASSUME NEW u \in DOMAIN registers, NEW t \in registers'[u]
          PROVE  t \in Known(channels) /\ channels[t].unit = u
      <4>1. u \notin update.lost /\ t \in registers[u]
        BY <3>3, <3>4
      <4>2. [tag |-> t, unit |-> u] \notin update.leaving
        <5>1. [tag |-> t, unit |-> u].unit = u
          OBVIOUS
        <5> QED BY <3>2, <4>1, <5>1 DEF LeavingUnits
      <4> QED BY <1>1, <4>1, <4>2 DEF RegistersInv, NothingAfterClear
    <3>5. registers' \in [0 .. MaxUnits - 1 -> SUBSET DOMAIN Group]
      BY <1>1, <3>3 DEF RegistersInv
    <3>6. DOMAIN registers' = DOMAIN registers
      BY <3>3
    <3> QED BY <1>2, <3>4, <3>5, <3>6 DEF RegistersInv, NothingAfterClear
  <2> QED BY <2>1, <2>2
<1> QED BY <1>3, <1>5, <1>7, <1>8, <1>9, <1>10, <1>11, <1>12 DEF UInv, TablesInv

-----------------------------------------------------------------------------
(* Packets. *)

\* Packets of channels in service, and those that are still under way, change
\* the registers only.
LEMMA TrafficKeeps ==
    ASSUME UInv, UNCHANGED <<channels, nextCommon, tables, update>>, RegistersInv'
    PROVE  UInv'
<1>1. \A j : Done(j)' = Done(j)
  BY DEF Done
<1>2. /\ ExcessSelectors' = ExcessSelectors /\ ExcessOutputs' = ExcessOutputs
      /\ ExcessCompletes' = ExcessCompletes /\ LeavingUnits' = LeavingUnits
  BY DEF ExcessSelectors, ExcessOutputs, ExcessCompletes, LeavingUnits, Left
<1>3. ChannelsInv' /\ UpdateInv'
  BY DEF UInv, ChannelsInv, UpdateInv, Idle
<1>4. SelectorInv' /\ OutputInv'
  BY <1>1, <1>2 DEF UInv, TablesInv, SelectorInv, OutputInv
<1>5. CompleteInv' /\ LostInv'
  BY <1>1, <1>2 DEF UInv, TablesInv, CompleteInv, LostInv
<1> QED BY <1>3, <1>4, <1>5 DEF UInv, TablesInv

\* A packet of a channel in service enters or leaves its own registers.
LEMMA AggregateStep ==
    ASSUME UInv, NEW t \in update.served, Aggregate(t) \/ Quiesce(t), UNCHANGED update
    PROVE  UInv'
<1>1. RegistersInv
  BY DEF UInv
<1>2. t \in Known(channels) /\ t \in DOMAIN Group
  BY DEF UInv, UpdateInv, ChannelsInv, Known
<1>3. \E s \in SUBSET DOMAIN Group :
        /\ registers' = [registers EXCEPT ![channels[t].unit] = s]
        /\ s \subseteq registers[channels[t].unit] \cup {t}
  <2>1. channels[t].unit \in 0 .. MaxUnits - 1
    BY <1>2 DEF UInv, ChannelsInv, IsChannel, Known
  <2>2. registers[channels[t].unit] \in SUBSET DOMAIN Group
    BY <1>1, <2>1 DEF RegistersInv
  <2>3. CASE Aggregate(t)
    BY <1>2, <2>2, <2>3 DEF Aggregate
  <2>4. CASE Quiesce(t)
    BY <1>2, <2>2, <2>4 DEF Quiesce
  <2> QED BY <2>3, <2>4
<1>4. UNCHANGED <<channels, nextCommon, tables, update>>
  BY DEF Aggregate, Quiesce
<1>5. PICK s \in SUBSET DOMAIN Group :
        /\ registers' = [registers EXCEPT ![channels[t].unit] = s]
        /\ s \subseteq registers[channels[t].unit] \cup {t}
  BY <1>3
<1>6. registers \in [0 .. MaxUnits - 1 -> SUBSET DOMAIN Group] /\ NothingAfterClear
  BY <1>1 DEF RegistersInv
<1>7. registers' \in [0 .. MaxUnits - 1 -> SUBSET DOMAIN Group]
  BY <1>5, <1>6
<1>8. DOMAIN registers' = DOMAIN registers
  BY <1>5
<1>9. ASSUME NEW u \in DOMAIN registers, NEW x \in registers'[u]
      PROVE  \/ x \in Known(channels) /\ channels[x].unit = u
             \/ [tag |-> x, unit |-> u] \in update.leaving
  <2>1. CASE x \in registers[u]
    BY <1>6, <2>1 DEF NothingAfterClear
  <2>2. CASE x \notin registers[u]
    <3>1. u = channels[t].unit /\ x = t
      BY <1>5, <1>9, <2>2
    <3> QED BY <1>2, <3>1
  <2> QED BY <2>1, <2>2
<1>10. RegistersInv'
  <2>1. NothingAfterClear'
    BY <1>4, <1>8, <1>9 DEF NothingAfterClear, Known, Tags
  <2> QED BY <1>7, <2>1 DEF RegistersInv
<1> QED BY <1>4, <1>10, TrafficKeeps

\* A packet that was under way enters the registers of the unit that leaves.
LEMMA LateStep ==
    ASSUME UInv, NEW l \in update.leaving, AggregateLate(l.tag, l.unit)
    PROVE  UInv'
<1>1. RegistersInv
  BY DEF UInv
<1>2. /\ l.tag \in DOMAIN Group /\ l.unit \in 0 .. MaxUnits - 1
      /\ [tag |-> l.tag, unit |-> l.unit] \in update.leaving
  BY DEF UInv, UpdateInv
<1>3. /\ registers' = [registers EXCEPT ![l.unit] = @ \cup {l.tag}]
      /\ UNCHANGED <<channels, nextCommon, tables, update>>
  BY DEF AggregateLate
<1>4. RegistersInv'
  BY <1>1, <1>2, <1>3 DEF RegistersInv, NothingAfterClear
<1> QED BY <1>3, <1>4, TrafficKeeps

-----------------------------------------------------------------------------
(* The invariant. *)

\* At first there is nothing.
LEMMA InitTables == UpdatesInit => UInv
<1> SUFFICES ASSUME UpdatesInit PROVE UInv
  OBVIOUS
<1>1. /\ channels = <<>> /\ nextCommon = 0 /\ tables = NoTables
      /\ registers = [u \in 0 .. MaxUnits - 1 |-> {}]
      /\ update = [writes |-> {}, next |-> 10, served |-> {}, leaving |-> {}, lost |-> {}]
  BY StepNames DEF UpdatesInit, TablesInit, NoChannels, NoUpdate
<1>2. DOMAIN channels = {} /\ IsTable(channels)
  BY <1>1 DEF IsTable
<1>3. Known(channels) = {}
  BY <1>2 DEF Known, Tags
<1>4. ChannelsInv
  BY <1>1, <1>2, RepositoryAssumption DEF ChannelsInv, Tags
<1>5. UpdateInv
  BY <1>1, StepNames DEF UpdateInv, Idle
<1>6. /\ tables.selector = <<>> /\ tables.output = <<>> /\ tables.complete = {}
      /\ tables = [selector |-> tables.selector, complete |-> tables.complete,
                   output |-> tables.output, mcNode |-> tables.mcNode,
                   mcGroup |-> tables.mcGroup]
  BY <1>1 DEF NoTables
<1>7. \A k : Done(k) = {}
  BY <1>3 DEF Done
<1>8. SelectorInv /\ OutputInv
  BY <1>6, <1>7 DEF SelectorInv, OutputInv, Between, IsTable
<1>9. CompleteInv /\ LostInv
  BY <1>1, <1>6, <1>7 DEF CompleteInv, LostInv, LeavingUnits
<1>10. RegistersInv
  BY <1>1 DEF RegistersInv, NothingAfterClear
<1> QED BY <1>4, <1>5, <1>6, <1>8, <1>9, <1>10 DEF UInv, TablesInv

\* Every step of an update keeps the invariant,
LEMMA UpdateStepKeeps == ASSUME UInv, UpdateStep PROVE UInv'
<1>1. ASSUME NEW w \in update.writes, WriteStep(w[1], w[2]) PROVE UInv'
  <2>1. w = <<w[1], w[2]>>
    BY DEF UInv, UpdateInv
  <2> QED BY <1>1, <2>1, WriteKeeps
<1>2. ASSUME ~Idle, update.writes = {}, NEW step, step = DeleteSteps[update.next],
             \/ DeleteStep(step[1], step[2])
             \/ MulticastStep(step[1])
             \/ step[1] = "clear" /\ ClearStep
      PROVE  UInv'
  <2>1. update.next \in 1 .. 9
    BY <1>2, StepNames DEF UInv, UpdateInv, Idle
  <2>2. DeleteSteps[update.next] = <<step[1], step[2]>>
    BY <1>2, <2>1, StepNames
  <2> QED BY <1>2, <2>2, DeleteKeeps, LastStepsKeep
<1> QED BY <1>1, <1>2 DEF UpdateStep

\* and so does every other step.
LEMMA StepKeeps == UInv /\ [UpdatesNext]_updateVars => UInv'
<1> SUFFICES ASSUME UInv, [UpdatesNext]_updateVars PROVE UInv'
  OBVIOUS
<1>1. CASE UpdateStep
  BY <1>1, UpdateStepKeeps
<1>2. ASSUME NEW t \in DOMAIN Group, BeginAdd(t) PROVE UInv'
  BY <1>2, AddStep
<1>3. ASSUME NEW t \in Tags(channels), NEW i \in DOMAIN Group[t], BeginRegister(t, i)
      PROVE  UInv'
  BY <1>3, RegisterStep
<1>4. ASSUME NEW t \in Tags(channels), BeginRemove(t) PROVE UInv'
  BY <1>4, RemoveStep
<1>5. ASSUME NEW t \in update.served, Aggregate(t) \/ Quiesce(t), UNCHANGED update
      PROVE  UInv'
  BY <1>5, AggregateStep
<1>6. ASSUME NEW l \in update.leaving, AggregateLate(l.tag, l.unit) PROVE UInv'
  BY <1>6, LateStep
<1>7. CASE UNCHANGED updateVars
  <2>1. UNCHANGED <<channels, nextCommon, tables, update>> /\ registers' = registers
    BY <1>7 DEF updateVars, tableVars
  <2>2. RegistersInv'
    BY <2>1 DEF UInv, RegistersInv, NothingAfterClear
  <2> QED BY <2>1, <2>2, TrafficKeeps
<1> QED BY <1>1, <1>2, <1>3, <1>4, <1>5, <1>6, <1>7 DEF UpdatesNext

\* At any time the tables hold the entries of known channels that have been written
\* and what the update under way has still to delete, and no unit is given up that
\* would not be cleared (on_st_repo_channels).
THEOREM TablesInvariance == UpdatesSpec => []UInv
BY InitTables, StepKeeps, PTL DEF UpdatesSpec

\* Tags, common parts, units and registers stay in their ranges, for any number of
\* units and numbers: the allocation skips what is taken (state_repository.cc).
THEOREM TablesTypes == UpdatesSpec => []TablesTypeOK
<1>1. UInv => TablesTypeOK
  BY DEF UInv, ChannelsInv, IsChannel, RegistersInv, TablesTypeOK
<1> QED BY <1>1, TablesInvariance, PTL

\* Registers are cleared only when no packet of the old channel can reach them any
\* more (agg_units_to_clear, handled last).
THEOREM ClearedUnitsStayClear == UpdatesSpec => []NothingAfterClear
<1>1. UInv => NothingAfterClear
  BY DEF UInv, RegistersInv
<1> QED BY <1>1, TablesInvariance, PTL

-----------------------------------------------------------------------------
(* The numbers of the participants. *)

NumbersInv == \A t \in Tags(channels) : NumbersFit(channels[t])

\* A request is the only step that gives a number.
LEMMA NumbersKept ==
    ASSUME UInv, NumbersInv, [UpdatesNext]_updateVars
    PROVE  NumbersInv'
<1>1. CASE channels' = channels
  BY <1>1 DEF NumbersInv, Tags
<1>2. ASSUME NEW t \in DOMAIN Group, BeginAdd(t) PROVE NumbersInv'
  <2> DEFINE ch == NewChannel(channels, nextCommon, DOMAIN Group[t])
  <2>1. /\ Tags(channels') = Tags(channels) \cup {t}
        /\ channels'[t] = ch
        /\ \A s \in Tags(channels) : channels'[s] = channels[s]
    BY <1>2 DEF BeginAdd, AddChannel, Tags
  <2>2. NumbersFit(ch)
    BY DEF NewChannel, NumbersFit, Ids
  <2> QED BY <2>1, <2>2 DEF NumbersInv
<1>3. ASSUME NEW t \in Tags(channels), NEW i \in DOMAIN Group[t], BeginRegister(t, i)
      PROVE  NumbersInv'
  <2> DEFINE part == [node |-> Group[t][i], qp |-> <<t, i>>,
                      fqp |-> NextFabricQp(channels[t], Group[t][i])]
             ch == channels[t]
             new == [ch EXCEPT !.parts[i] = part]
  <2>1. ChannelsInv /\ IsChannel(ch, t) /\ t \in DOMAIN Group /\ NumbersFit(ch)
    BY DEF UInv, ChannelsInv, NumbersInv
  <2>2. Ids(ch) = DOMAIN Group[t] /\ new.parts = [ch.parts EXCEPT ![i] = part]
    BY <2>1 DEF IsChannel, Ids
  <2>3. /\ Tags(channels') = Tags(channels) /\ channels'[t] = new
        /\ \A s \in Tags(channels) \ {t} : channels'[s] = channels[s]
    BY <1>3, <2>1 DEF BeginRegister, UpdateParticipant, Tags, ChannelsInv, IsTable
  <2>4. /\ IsFiniteSet(Ids(ch)) /\ Group[t][i] # Unknown.node
        /\ \A j \in Ids(ch) : ch.parts[j] # Unknown => ch.parts[j].node # Unknown.node
    <3>1. /\ IsFiniteSet(DOMAIN Group[t])
          /\ \A j \in DOMAIN Group[t] : Group[t][j] # Unknown.node
      BY <2>1, TablesAssumption
    <3>2. \A j \in Ids(ch) : ch.parts[j] # Unknown => ch.parts[j].node = Group[t][j]
      BY <2>1, <2>2 DEF IsChannel
    <3> QED BY <2>2, <3>1, <3>2
  <2>5. ch.parts[i] = Unknown
    BY <1>3 DEF BeginRegister
  <2>6. Cardinality(OnNode(ch, Group[t][i])) < 256
    <3> DEFINE all == {j \in DOMAIN Group[t] : Group[t][j] = Group[t][i]}
    <3>1. all \in SUBSET DOMAIN Group[t] /\ IsFiniteSet(DOMAIN Group[t])
          /\ Cardinality(all) <= 256
      BY <2>1, TablesAssumption
    <3>2. OnNode(ch, Group[t][i]) \in SUBSET all /\ i \notin OnNode(ch, Group[t][i]) /\ i \in all
      BY <2>1, <2>2, <2>4, <2>5 DEF OnNode, IsChannel
    <3> HIDE DEF all
    <3>3. IsFiniteSet(all) /\ IsFiniteSet(OnNode(ch, Group[t][i]))
      BY <3>1, <3>2, FS_Subset
    <3>4. /\ Cardinality(OnNode(ch, Group[t][i])) <= Cardinality(all)
          /\ Cardinality(OnNode(ch, Group[t][i])) # Cardinality(all)
      BY <3>2, <3>3, FS_Subset
    <3>5. Cardinality(OnNode(ch, Group[t][i])) \in Nat /\ Cardinality(all) \in Nat
      BY <3>3, FS_CardinalityType
    <3> QED BY <3>1, <3>4, <3>5
  <2>7. /\ part = [node |-> part.node, qp |-> part.qp, fqp |-> part.fqp]
        /\ part.node = Group[t][i] /\ part.fqp = NextFabricQp(ch, Group[t][i])
    OBVIOUS
  <2> HIDE DEF part, ch, new
  <2>8. NumbersFit(new)
    BY <2>1, <2>2, <2>4, <2>5, <2>6, <2>7, NextNumberFits
  <2> QED BY <2>3, <2>8 DEF NumbersInv
<1>4. ASSUME NEW t \in Tags(channels), BeginRemove(t) PROVE NumbersInv'
  <2>1. /\ Tags(channels') = Tags(channels) \ {t}
        /\ \A s \in Tags(channels') : channels'[s] = channels[s]
    BY <1>4 DEF BeginRemove, RemoveChannels, Restrict, Tags
  <2> QED BY <2>1 DEF NumbersInv
<1>5. ASSUME UpdateStep PROVE channels' = channels
  BY <1>5 DEF UpdateStep, WriteStep, DeleteStep, MulticastStep, ClearStep
<1>6. ASSUME NEW t, Aggregate(t) \/ Quiesce(t) PROVE channels' = channels
  BY <1>6 DEF Aggregate, Quiesce
<1>7. ASSUME NEW l, AggregateLate(l.tag, l.unit) PROVE channels' = channels
  BY <1>7 DEF AggregateLate
<1>8. ASSUME UNCHANGED updateVars PROVE channels' = channels
  BY <1>8 DEF updateVars, tableVars
<1> QED BY <1>1, <1>2, <1>3, <1>4, <1>5, <1>6, <1>7, <1>8 DEF UpdatesNext

\* Packets of a channel in service select its unit and their own bits, and the
\* bits of each pipe complete it.
LEMMA ServedAggregates ==
    ASSUME UInv, NumbersInv, NEW t \in update.served
    PROVE  Aggregates(tables, channels[t])
<1> DEFINE ch == channels[t]
           sels == Selectors(channels)
<1>1. /\ ChannelsInv /\ t \in Known(channels) /\ t \in Tags(channels) /\ IsChannel(ch, t)
      /\ \A k : t \in Done(k)
  BY DEF UInv, UpdateInv, ChannelsInv, Known, Done
<1>2. WellFormed(ch) /\ Ids(ch) \subseteq Nat
  BY <1>1, KnownWellFormed, TablesAssumption DEF ChannelsInv
<1>3. ASSUME NEW i \in Ids(ch), NEW j \in Ids(ch),
             SelectorKey(ch.parts[j]) = SelectorKey(ch.parts[i])
      PROVE  j = i
  <2>1. ch.parts[i] # Unknown /\ ch.parts[j] # Unknown
    BY <1>1 DEF Known, AllKnown, Ids
  <2>2. ch.parts[j].node = ch.parts[i].node /\ ch.parts[j].fqp = ch.parts[i].fqp
    BY <1>3 DEF SelectorKey
  <2> QED BY <1>1, <2>1, <2>2 DEF NumbersInv, NumbersFit
<1>4. ASSUME NEW k \in DOMAIN sels[t] PROVE tables.selector[k] = sels[t][k]
  <2>1. Between(tables.selector, sels, Done(3), ExcessSelectors)
    BY DEF UInv, TablesInv, SelectorInv
  <2>2. EntriesDisjoint(sels) /\ DOMAIN sels = Known(channels)
    BY <1>1, KnownEntries
  <2> HIDE DEF sels
  <2>3. k \in DOMAIN tables.selector /\ k \in Keys(sels)
    BY <1>1, <1>4, <2>1, <2>2 DEF Between, Keys
  <2>4. PICK s \in DOMAIN sels : k \in DOMAIN sels[s] /\ tables.selector[k] = sels[s][k]
    BY <2>1, <2>3 DEF Between
  <2>5. s = t
    BY <1>1, <1>4, <2>2, <2>4 DEF EntriesDisjoint
  <2> QED BY <2>4, <2>5
<1>5. ASSUME NEW i \in Ids(ch)
      PROVE  tables.selector[SelectorKey(ch.parts[i])] = [unit |-> ch.unit, bit |-> Bit(ch, i)]
  <2>1. sels[t] = SelectorEntries(ch)
    BY <1>1 DEF Selectors
  <2> HIDE DEF ch, sels
  <2> QED BY <1>2, <1>3, <1>4, <1>5, <2>1, SelectorBits
<1>6. ASSUME NEW e \in tables.complete, e[1] = ch.unit PROVE e \in CompleteEntries(ch)
  <2>1. CompleteInv
    BY DEF UInv, TablesInv
  <2>2. e \notin ExcessCompletes
    BY <1>1, <1>6 DEF ExcessCompletes, LeavingUnits, UInv, UpdateInv
  <2>3. PICK s \in Known(channels) : e \in CompleteEntries(channels[s])
    BY <2>1, <2>2 DEF CompleteInv, Completes
  <2>4. s = t
    BY <1>1, <1>6, <2>3, KnownEntries DEF ChannelsInv, Known
  <2> QED BY <2>3, <2>4
<1>7. CompleteEntries(ch) \subseteq tables.complete
  BY <1>1 DEF UInv, TablesInv, CompleteInv
<1>8. ASSUME NEW pipe \in {0, 3}
      PROVE  {e \in tables.complete : e[1] = ch.unit /\ e[2] = pipe} =
                IF OnPipe(ch, pipe) = {} THEN {} ELSE {<<ch.unit, pipe, FullBits(ch, pipe)>>}
  <2>1. {e \in tables.complete : e[1] = ch.unit /\ e[2] = pipe}
          = {e \in CompleteEntries(ch) : e[1] = ch.unit /\ e[2] = pipe}
    BY <1>6, <1>7
  <2>2. CompleteEntries(ch) =
          {<<ch.unit, p, FullBits(ch, p)>> : p \in {x \in {0, 3} : OnPipe(ch, x) # {}}}
    BY DEF CompleteEntries
  <2> HIDE DEF ch
  <2> QED BY <2>1, <2>2
<1> QED BY <1>5, <1>8 DEF Aggregates

\* Whatever the daemon writes and deletes for other channels, in whatever state the
\* update is: every channel in service aggregates (on_st_repo_channels).
THEOREM ServiceStaysUndisturbed == UpdatesSpec => []ServiceUndisturbed
<1>1. UpdatesInit => NumbersInv
  BY DEF UpdatesInit, TablesInit, NoChannels, NumbersInv, Tags
<1>2. UInv /\ NumbersInv => ServiceUndisturbed
  BY ServedAggregates DEF ServiceUndisturbed
<1>3. UInv /\ NumbersInv /\ [UpdatesNext]_updateVars => NumbersInv'
  BY NumbersKept
<1> QED BY <1>1, <1>2, <1>3, TablesInvariance, PTL DEF UpdatesSpec

-----------------------------------------------------------------------------
(* The operators of ChannelTables in the instance. *)

\* The operators of StateRepository mean the same in the instance.
LEMMA SameRepository ==
    /\ \A S : /\ Atomic!Cardinality(S) = Cardinality(S)
              /\ Atomic!Min(S) = Min(S) /\ Atomic!Max(S) = Max(S)
    /\ Atomic!Unknown = Unknown /\ Atomic!NoChannels = NoChannels
    /\ \A chs : /\ Atomic!Tags(chs) = Tags(chs)
                /\ Atomic!CanAllocate(chs) <=> CanAllocate(chs)
    /\ \A chs, next, ids : Atomic!NewChannel(chs, next, ids) = NewChannel(chs, next, ids)
    /\ \A chs, t, ch : Atomic!AddChannel(chs, t, ch) = AddChannel(chs, t, ch)
    /\ \A chs, t, i, p :
          Atomic!UpdateParticipant(chs, t, i, p) = UpdateParticipant(chs, t, i, p)
    /\ \A chs, ts : Atomic!RemoveChannels(chs, ts) = RemoveChannels(chs, ts)
    /\ \A ch, n : Atomic!NextFabricQp(ch, n) = NextFabricQp(ch, n)
    /\ \A ch : Atomic!AllKnown(ch) <=> AllKnown(ch)
    /\ \A n : Atomic!After(n) = After(n)
<1>1. \A S : Atomic!Cardinality(S) = Cardinality(S)
  BY DEF Cardinality, Atomic!Cardinality, IsFiniteSet, Atomic!IsFiniteSet
<1>2. \A S : Atomic!Min(S) = Min(S) /\ Atomic!Max(S) = Max(S)
  BY DEF Min, Max, Atomic!Min, Atomic!Max
<1>3. /\ \A chs : /\ Atomic!FreeUnits(chs) = FreeUnits(chs)
                  /\ Atomic!FreeCommons(chs) = FreeCommons(chs)
      /\ \A chs : Atomic!Tags(chs) = Tags(chs)
  BY DEF Tags, Atomic!Tags, FreeUnits, Atomic!FreeUnits, FreeCommons, Atomic!FreeCommons
<1>4. \A chs : Atomic!NextUnit(chs) = NextUnit(chs)
  BY <1>2, <1>3 DEF NextUnit, Atomic!NextUnit
<1>5. \A chs, next : Atomic!NextCommon(chs, next) = NextCommon(chs, next)
  BY <1>2, <1>3 DEF NextCommon, Atomic!NextCommon
<1>6. Atomic!Unknown = Unknown /\ Atomic!NoChannels = NoChannels
  BY DEF Unknown, Atomic!Unknown, NoChannels, Atomic!NoChannels
<1>7. \A chs, next, ids : Atomic!NewChannel(chs, next, ids) = NewChannel(chs, next, ids)
  BY <1>4, <1>5, <1>6 DEF NewChannel, Atomic!NewChannel
<1>8. \A chs, t, ch : Atomic!AddChannel(chs, t, ch) = AddChannel(chs, t, ch)
  BY <1>3 DEF AddChannel, Atomic!AddChannel
<1>9. \A chs, t, i, p :
          Atomic!UpdateParticipant(chs, t, i, p) = UpdateParticipant(chs, t, i, p)
  BY DEF UpdateParticipant, Atomic!UpdateParticipant
<1>10. \A chs, ts : Atomic!RemoveChannels(chs, ts) = RemoveChannels(chs, ts)
  BY <1>3 DEF RemoveChannels, Atomic!RemoveChannels, Restrict, Atomic!Restrict
<1>11. \A ch, n : Atomic!NextFabricQp(ch, n) = NextFabricQp(ch, n)
  BY <1>1 DEF NextFabricQp, Atomic!NextFabricQp
<1>12. \A ch : Atomic!AllKnown(ch) <=> AllKnown(ch)
  BY <1>6 DEF AllKnown, Atomic!AllKnown
<1>13. \A n : Atomic!After(n) = After(n)
  BY DEF After, Atomic!After
<1>14. \A chs : Atomic!CanAllocate(chs) <=> CanAllocate(chs)
  BY <1>3 DEF CanAllocate, Atomic!CanAllocate
<1> QED BY <1>1, <1>2, <1>3, <1>6, <1>7, <1>8, <1>9, <1>10, <1>11, <1>12, <1>13, <1>14

\* So do those of ASICDriver: the entries of a channel,
LEMMA SameEntries ==
    \A ch : /\ Atomic!SelectorEntries(ch) = SelectorEntries(ch)
            /\ Atomic!CompleteEntries(ch) = CompleteEntries(ch)
            /\ Atomic!OutputEntries(ch) = OutputEntries(ch)
            /\ Atomic!McNodes(ch) = McNodes(ch)
            /\ Atomic!McNodeEntries(ch) = McNodeEntries(ch)
            /\ Atomic!McGroupEntries(ch) = McGroupEntries(ch)
<1>1. /\ \A ch : Atomic!Ids(ch) = Ids(ch)
      /\ \A n : Atomic!PipeOfNode(n) = PipeOfNode(n)
      /\ \A p : Atomic!SelectorKey(p) = SelectorKey(p)
      /\ \A ch : Atomic!RecircKey(ch) = RecircKey(ch)
      /\ \A ch, pos : Atomic!McNodeId(ch, pos) = McNodeId(ch, pos)
  BY DEF Ids, Atomic!Ids, PipeOfNode, Atomic!PipeOfNode, SelectorKey, Atomic!SelectorKey,
         RecircKey, Atomic!RecircKey, McNodeId, Atomic!McNodeId
<1>2. \A ch, pipe : Atomic!OnPipe(ch, pipe) = OnPipe(ch, pipe)
  BY <1>1 DEF OnPipe, Atomic!OnPipe
<1>3. \A ch : Atomic!BothPipes(ch) <=> BothPipes(ch)
  BY <1>2 DEF BothPipes, Atomic!BothPipes
<1>4. \A ch, i : Atomic!Bit(ch, i) = Bit(ch, i)
  BY <1>1, <1>2, SameRepository DEF Bit, Atomic!Bit
<1>5. \A ch, i : Atomic!Position(ch, i) = Position(ch, i)
  BY <1>1, SameRepository DEF Position, Atomic!Position
<1>6. \A ch, pipe : Atomic!FullBits(ch, pipe) = FullBits(ch, pipe)
  BY <1>2, <1>3, SameRepository DEF FullBits, Atomic!FullBits
<1>7. \A ch : Atomic!SelectorEntries(ch) = SelectorEntries(ch)
  BY <1>1, <1>2, <1>3, <1>4, SameRepository DEF SelectorEntries, Atomic!SelectorEntries
<1>8. \A ch : Atomic!CompleteEntries(ch) = CompleteEntries(ch)
  BY <1>2, <1>6 DEF CompleteEntries, Atomic!CompleteEntries
<1>9. \A ch : Atomic!OutputEntries(ch) = OutputEntries(ch)
  BY <1>1, <1>5 DEF OutputEntries, Atomic!OutputEntries
<1>10. \A ch : Atomic!McNodes(ch) = McNodes(ch)
  BY <1>1, SameRepository DEF McNodes, Atomic!McNodes
<1>11. \A ch : Atomic!McNodeEntries(ch) = McNodeEntries(ch)
  BY <1>1, <1>5, <1>10 DEF McNodeEntries, Atomic!McNodeEntries
<1>12. \A ch : Atomic!McGroupEntries(ch) = McGroupEntries(ch)
  BY <1>10 DEF McGroupEntries, Atomic!McGroupEntries
<1> QED BY <1>7, <1>8, <1>9, <1>10, <1>11, <1>12

\* and the tables that they lead to.
LEMMA SameReconfigure == \A T, chs : Atomic!Reconfigure(T, chs) = Reconfigure(T, chs)
<1> SUFFICES ASSUME NEW T, NEW chs PROVE Atomic!Reconfigure(T, chs) = Reconfigure(T, chs)
  OBVIOUS
<1>1. Atomic!Known(chs) = Known(chs)
  BY SameRepository DEF Known, Atomic!Known
<1>2. /\ Atomic!UnitsInUse(chs) = UnitsInUse(chs)
      /\ Atomic!McNodesInUse(chs) = McNodesInUse(chs)
  BY <1>1, SameEntries DEF UnitsInUse, Atomic!UnitsInUse, McNodesInUse, Atomic!McNodesInUse
<1>3. \A f, e : Atomic!Written(f, e) = Written(f, e)
  BY SameRepository DEF Written, Atomic!Written
<1>4. \A f, D : Atomic!Restrict(f, D) = Restrict(f, D)
  BY DEF Restrict, Atomic!Restrict
<1>5. /\ [t \in Atomic!Known(chs) |-> Atomic!SelectorEntries(chs[t])] = Selectors(chs)
      /\ [t \in Atomic!Known(chs) |-> Atomic!OutputEntries(chs[t])] = Outputs(chs)
      /\ [t \in Atomic!Known(chs) |-> Atomic!McNodeEntries(chs[t])] = NodeRows(chs)
      /\ [t \in Atomic!Known(chs) |-> Atomic!McGroupEntries(chs[t])] = Groups(chs)
      /\ UNION {Atomic!CompleteEntries(chs[t]) : t \in Atomic!Known(chs)} = Completes(chs)
  BY <1>1, SameEntries DEF Selectors, Outputs, NodeRows, Groups, Completes
<1>6. Atomic!Reconfigure(T, chs) =
        [selector |-> Atomic!Written(
             Atomic!Restrict(T.selector,
                 {k \in DOMAIN T.selector : T.selector[k].unit \in Atomic!UnitsInUse(chs)}),
             [t \in Atomic!Known(chs) |-> Atomic!SelectorEntries(chs[t])]),
         complete |-> {e \in T.complete : e[1] \in Atomic!UnitsInUse(chs)} \cup
                          UNION {Atomic!CompleteEntries(chs[t]) : t \in Atomic!Known(chs)},
         output |-> Atomic!Written(
             Atomic!Restrict(T.output,
                 {k \in DOMAIN T.output : k[2] \in Atomic!UnitsInUse(chs)}),
             [t \in Atomic!Known(chs) |-> Atomic!OutputEntries(chs[t])]),
         mcNode |-> Atomic!Written(
             Atomic!Restrict(T.mcNode,
                 {x \in DOMAIN T.mcNode : x \in Atomic!McNodesInUse(chs)}),
             [t \in Atomic!Known(chs) |-> Atomic!McNodeEntries(chs[t])]),
         mcGroup |-> Atomic!Written(
             Atomic!Restrict(T.mcGroup,
                 {u \in DOMAIN T.mcGroup : u \in Atomic!UnitsInUse(chs)}),
             [t \in Atomic!Known(chs) |-> Atomic!McGroupEntries(chs[t])])]
  BY DEF Atomic!Reconfigure, Atomic!Keep, Atomic!All
<1> QED BY <1>2, <1>3, <1>4, <1>5, <1>6, ReconfigureParts
        DEF KeptSelectors, KeptOutputs, KeptCompletes, KeptNodes, KeptGroups

-----------------------------------------------------------------------------
(* The updates implement ChannelTables. *)

\* Registers that a removed channel leaves behind count as cleared.
MappedRegisters ==
    [u \in DOMAIN registers |->
        IF \E l \in update.leaving : l.unit = u THEN {} ELSE registers[u]]

\* Tables that agree outside the entries of known channels and those of units not in
\* use lead to the same tables.
LEMMA AgreeingTables ==
    ASSUME NEW S, NEW T, NEW chs,
           \A k : k \notin Keys(Selectors(chs)) =>
               /\ k \in DOMAIN S.selector /\ S.selector[k].unit \in UnitsInUse(chs) =>
                      k \in DOMAIN T.selector /\ T.selector[k] = S.selector[k]
               /\ k \in DOMAIN T.selector /\ T.selector[k].unit \in UnitsInUse(chs) =>
                      k \in DOMAIN S.selector /\ S.selector[k] = T.selector[k],
           \A k : k \notin Keys(Outputs(chs)) /\ k[2] \in UnitsInUse(chs) =>
               /\ k \in DOMAIN S.output <=> k \in DOMAIN T.output
               /\ k \in DOMAIN S.output => S.output[k] = T.output[k],
           \A e : e \notin Completes(chs) /\ e[1] \in UnitsInUse(chs) =>
               (e \in S.complete <=> e \in T.complete)
    PROVE  Reconfigure(S, chs) = Reconfigure(T, chs)
<1>1. \A k : k \notin Keys(Selectors(chs)) =>
          /\ k \in DOMAIN KeptSelectors(S, chs) <=> k \in DOMAIN KeptSelectors(T, chs)
          /\ k \in DOMAIN KeptSelectors(S, chs) => S.selector[k] = T.selector[k]
  BY DEF KeptSelectors, Restrict
<1>2. \A k : k \notin Keys(Outputs(chs)) =>
          /\ k \in DOMAIN KeptOutputs(S, chs) <=> k \in DOMAIN KeptOutputs(T, chs)
          /\ k \in DOMAIN KeptOutputs(S, chs) => S.output[k] = T.output[k]
  BY DEF KeptOutputs, Restrict
<1>3. \A e : e \notin Completes(chs) =>
          (e \in KeptCompletes(S, chs) <=> e \in KeptCompletes(T, chs))
  BY DEF KeptCompletes
<1> QED BY <1>1, <1>2, <1>3, ReconfigureAlike

\* A write changes no entry but those of a known channel.
LEMMA WriteLeads ==
    ASSUME UInv, NEW t, NEW k, <<t, k>> \in update.writes, WriteStep(t, k)
    PROVE  /\ Reconfigure(tables', channels) = Reconfigure(tables, channels)
           /\ MappedRegisters' = MappedRegisters
<1>1. /\ t \in Known(channels) /\ k \in 1 .. 5 /\ registers' = registers
      /\ update'.leaving = update.leaving
  <2>1. update' = [update EXCEPT !.writes = @ \ {<<t, k>>}]
    BY DEF WriteStep
  <2>2. update'.leaving = update.leaving
    BY <2>1 DEF UInv, UpdateInv
  <2> QED BY <2>2, WriteAdvances
<1> DEFINE ch == channels[t]
<1>2. tables = [selector |-> tables.selector, complete |-> tables.complete,
                output |-> tables.output, mcNode |-> tables.mcNode,
                mcGroup |-> tables.mcGroup]
  BY DEF UInv, TablesInv
<1>3. \/ k = 1 /\ tables' = [tables EXCEPT !.mcNode = Put(McNodeEntries(ch), @)]
      \/ k = 2 /\ tables' = [tables EXCEPT !.mcGroup = Put(McGroupEntries(ch), @)]
      \/ k = 3 /\ tables' = [tables EXCEPT !.selector = Put(SelectorEntries(ch), @)]
      \/ k = 4 /\ tables' = [tables EXCEPT !.output = Put(OutputEntries(ch), @)]
      \/ k = 5 /\ tables' = [tables EXCEPT !.complete = @ \cup CompleteEntries(ch)]
  BY <1>1, StepNames DEF WriteStep
<1>4. /\ DOMAIN SelectorEntries(ch) \subseteq Keys(Selectors(channels))
      /\ DOMAIN OutputEntries(ch) \subseteq Keys(Outputs(channels))
      /\ CompleteEntries(ch) \subseteq Completes(channels)
  BY <1>1 DEF Keys, Selectors, Outputs, Completes
<1> HIDE DEF ch
<1>5. \/ tables'.selector = tables.selector
      \/ tables'.selector = Put(SelectorEntries(ch), tables.selector)
  BY <1>2, <1>3
<1>6. \/ tables'.output = tables.output
      \/ tables'.output = Put(OutputEntries(ch), tables.output)
  BY <1>2, <1>3
<1>7. \/ tables'.complete = tables.complete
      \/ tables'.complete = tables.complete \cup CompleteEntries(ch)
  BY <1>2, <1>3
<1>8. ASSUME NEW T, T = tables'
      PROVE  Reconfigure(tables, channels) = Reconfigure(T, channels)
  <2>1. \A key : key \notin Keys(Selectors(channels)) =>
            /\ key \in DOMAIN T.selector <=> key \in DOMAIN tables.selector
            /\ key \in DOMAIN T.selector => T.selector[key] = tables.selector[key]
    BY <1>4, <1>5, <1>8 DEF Put
  <2>2. \A key : key \notin Keys(Outputs(channels)) =>
            /\ key \in DOMAIN T.output <=> key \in DOMAIN tables.output
            /\ key \in DOMAIN T.output => T.output[key] = tables.output[key]
    BY <1>4, <1>6, <1>8 DEF Put
  <2>3. \A e : e \notin Completes(channels) => (e \in T.complete <=> e \in tables.complete)
    BY <1>4, <1>7, <1>8
  <2> QED BY <2>1, <2>2, <2>3, AgreeingTables
<1> QED BY <1>1, <1>8 DEF MappedRegisters

\* A deletion changes no entry of a unit in use, and clears what counts as cleared.
LEMMA DeleteLeads ==
    ASSUME UInv, ~Idle, update.writes = {}, NEW table, NEW pipe,
           DeleteSteps[update.next] = <<table, pipe>>,
           \/ DeleteStep(table, pipe)
           \/ MulticastStep(table)
           \/ table = "clear" /\ ClearStep
    PROVE  /\ Reconfigure(tables', channels) = Reconfigure(tables, channels)
           /\ MappedRegisters' = MappedRegisters
<1>1. /\ UpdateInv /\ TablesInv /\ channels' = channels
      /\ update.next \in 1 .. 9
      /\ tables = [selector |-> tables.selector, complete |-> tables.complete,
                   output |-> tables.output, mcNode |-> tables.mcNode,
                   mcGroup |-> tables.mcGroup]
  <2>1. UpdateInv /\ TablesInv
    BY DEF UInv
  <2>2. update.next \in 1 .. 9
    BY <2>1, StepNames DEF UpdateInv, Idle
  <2>3. channels' = channels
    BY DEF DeleteStep, MulticastStep, ClearStep
  <2> QED BY <2>1, <2>2, <2>3 DEF TablesInv
<1>2. PICK lost : Advance(lost)
  BY DEF DeleteStep, MulticastStep, ClearStep
<1>3. /\ update.next # 9 => LeavingUnits' = LeavingUnits
      /\ update.next = 9 => LeavingUnits' = {}
  BY <1>1, <1>2, AdvanceStep
<1>4. MappedRegisters = [u \in DOMAIN registers |->
                            IF u \in LeavingUnits THEN {} ELSE registers[u]]
  BY DEF MappedRegisters, LeavingUnits
<1>5. MappedRegisters' = [u \in DOMAIN registers' |->
                             IF u \in LeavingUnits' THEN {} ELSE registers'[u]]
  BY DEF MappedRegisters, LeavingUnits
<1>6. CASE DeleteStep(table, pipe) \/ MulticastStep(table)
  <2>1. registers' = registers /\ table # "clear"
    BY <1>6 DEF DeleteStep, MulticastStep
  <2>2. update.next # 9
    <3>1. <<table, pipe>>[1] = table /\ <<"clear", 0>>[1] = "clear"
      OBVIOUS
    <3> QED BY <2>1, <3>1, StepNames
  <2>3. MappedRegisters' = MappedRegisters
    BY <1>3, <1>4, <1>5, <2>1, <2>2
  <2>4. /\ tables'.selector = tables.selector \/
             \E D \in SUBSET {k \in DOMAIN tables.selector : ~Used(tables.selector[k].unit)} :
                 tables'.selector = Restrict(tables.selector, DOMAIN tables.selector \ D)
        /\ tables'.output = tables.output \/
             \E D \in SUBSET {k \in DOMAIN tables.output : ~Used(k[2])} :
                 tables'.output = Restrict(tables.output, DOMAIN tables.output \ D)
        /\ tables'.complete = tables.complete \/
             \E D \in SUBSET {e \in tables.complete : ~Used(e[1])} :
                 tables'.complete = tables.complete \ D
    <3>1. CASE MulticastStep(table)
      BY <1>1, <3>1 DEF MulticastStep
    <3>2. CASE DeleteStep(table, pipe)
      <4> DEFINE D == {k \in DOMAIN tables.selector :
                          PipeOfKey(k) = pipe /\ ~Used(tables.selector[k].unit)}
                 O == {k \in DOMAIN tables.output : k[1] = pipe /\ ~Used(k[2])}
                 C == {e \in tables.complete : e[2] = pipe /\ ~Used(e[1])}
      <4>1. \/ tables' = [tables EXCEPT !.selector = Restrict(@, DOMAIN @ \ D)]
            \/ tables' = [tables EXCEPT !.complete = {e \in @ : e[2] = pipe => Used(e[1])}]
            \/ tables' = [tables EXCEPT !.output =
                             Restrict(@, {k \in DOMAIN @ : k[1] = pipe => Used(k[2])})]
        BY <3>2 DEF DeleteStep
      <4>2. /\ {e \in tables.complete : e[2] = pipe => Used(e[1])} = tables.complete \ C
            /\ {k \in DOMAIN tables.output : k[1] = pipe => Used(k[2])} = DOMAIN tables.output \ O
        OBVIOUS
      <4>3. /\ D \in SUBSET {k \in DOMAIN tables.selector : ~Used(tables.selector[k].unit)}
            /\ O \in SUBSET {k \in DOMAIN tables.output : ~Used(k[2])}
            /\ C \in SUBSET {e \in tables.complete : ~Used(e[1])}
        OBVIOUS
      <4> HIDE DEF D, O, C
      <4> QED BY <1>1, <4>1, <4>2, <4>3
    <3> QED BY <1>6, <3>1, <3>2
  <2>5. ASSUME NEW T, T = tables'
        PROVE  Reconfigure(tables, channels) = Reconfigure(T, channels)
    <3>1. \A key : /\ key \in DOMAIN T.selector => /\ key \in DOMAIN tables.selector
                                                   /\ T.selector[key] = tables.selector[key]
                   /\ key \in DOMAIN tables.selector /\ Used(tables.selector[key].unit) =>
                          key \in DOMAIN T.selector
      BY <2>4, <2>5 DEF Restrict
    <3>2. \A key : /\ key \in DOMAIN T.output => /\ key \in DOMAIN tables.output
                                                 /\ T.output[key] = tables.output[key]
                   /\ key \in DOMAIN tables.output /\ Used(key[2]) => key \in DOMAIN T.output
      BY <2>4, <2>5 DEF Restrict
    <3>3. \A e : /\ e \in T.complete => e \in tables.complete
                 /\ e \in tables.complete /\ Used(e[1]) => e \in T.complete
      BY <2>4, <2>5
    <3> QED BY <3>1, <3>2, <3>3, AgreeingTables DEF Used
  <2> QED BY <2>3, <2>5
<1>7. CASE table = "clear" /\ ClearStep
  <2>1. tables' = tables
    BY <1>7 DEF ClearStep
  <2>2. update.next = 9
    <3>1. <<table, pipe>>[1] = "clear" /\ <<"selector", 0>>[1] # "clear"
          /\ <<"complete", 0>>[1] # "clear" /\ <<"output", 0>>[1] # "clear"
          /\ <<"selector", 3>>[1] # "clear" /\ <<"complete", 3>>[1] # "clear"
          /\ <<"output", 3>>[1] # "clear" /\ <<"groups", 0>>[1] # "clear"
          /\ <<"nodes", 0>>[1] # "clear"
      BY <1>7
    <3> QED BY <1>1, <3>1, StepNames
  <2>3. LeavingUnits = update.lost
    BY <2>2, ClearedAreLost
  <2>4. registers' = [u \in DOMAIN registers |->
                         IF u \in update.lost THEN {} ELSE registers[u]]
    BY <1>7 DEF ClearStep
  <2>5. MappedRegisters' = [u \in DOMAIN registers' |-> registers'[u]]
    BY <1>3, <1>5, <2>2
  <2>6. MappedRegisters' = MappedRegisters
    BY <1>4, <2>3, <2>4, <2>5
  <2> QED BY <2>1, <2>6
<1> QED BY <1>6, <1>7

\* Between updates the tables are what their channels lead to, as far as later
\* updates see them.
LEMMA IdleLeads ==
    ASSUME UInv, Idle
    PROVE  /\ Reconfigure(tables, channels).selector = tables.selector
           /\ \A chs : Reconfigure(Reconfigure(tables, channels), chs) = Reconfigure(tables, chs)
           /\ MappedRegisters = registers
<1>1. /\ update.leaving = {}
      /\ Between(tables.selector, Selectors(channels), Known(channels), {})
      /\ Between(tables.output, Outputs(channels), Known(channels), {})
      /\ tables.complete = Completes(channels)
  BY IdleTables
<1>2. ChannelsInv /\ RegistersInv
  BY DEF UInv
<1>3. /\ DOMAIN Selectors(channels) \subseteq Nat /\ DOMAIN Outputs(channels) \subseteq Nat
      /\ EntriesDisjoint(Selectors(channels)) /\ EntriesDisjoint(Outputs(channels))
  BY <1>2, KnownEntries, TablesAssumption DEF ChannelsInv, Known
<1> DEFINE R == Reconfigure(tables, channels)
<1>4. R = [selector |-> Written(KeptSelectors(tables, channels), Selectors(channels)),
           complete |-> KeptCompletes(tables, channels) \cup Completes(channels),
           output |-> Written(KeptOutputs(tables, channels), Outputs(channels)),
           mcNode |-> Written(KeptNodes(tables, channels), NodeRows(channels)),
           mcGroup |-> Written(KeptGroups(tables, channels), Groups(channels))]
  BY ReconfigureParts
<1>5. R.selector = tables.selector
  <2> DEFINE f == tables.selector
             entries == Selectors(channels)
  <2>1. IsTable(f) /\ DOMAIN f = Keys(entries)
        /\ \A t \in DOMAIN entries : \A k \in DOMAIN entries[t] :
              k \in DOMAIN f /\ f[k] = entries[t][k]
    <3>1. DOMAIN entries = Known(channels) /\ Between(f, entries, DOMAIN entries, {})
          /\ EntriesDisjoint(entries)
      BY <1>1, <1>3 DEF Selectors
    <3> HIDE DEF f, entries
    <3> QED BY <3>1, ExactTable
  <2>2. KeptSelectors(tables, channels) = f
    <3>1. \A k \in DOMAIN f : f[k].unit \in UnitsInUse(channels)
      <4> SUFFICES ASSUME NEW k \in DOMAIN f PROVE f[k].unit \in UnitsInUse(channels)
        OBVIOUS
      <4>1. PICK t \in Known(channels) : k \in DOMAIN entries[t]
        BY <2>1 DEF Keys, Selectors
      <4>2. f[k] = entries[t][k] /\ entries[t][k].unit = channels[t].unit
        BY <1>2, <2>1, <4>1, KnownEntries DEF Selectors
      <4> QED BY <4>1, <4>2 DEF UnitsInUse
    <3> QED BY <2>1, <3>1 DEF KeptSelectors, Restrict, IsTable
  <2>3. Written(f, entries) = f
    <3>1. \A s, t \in DOMAIN entries : \A k \in DOMAIN entries[t] : k \in DOMAIN entries[s] => s = t
      BY <1>3 DEF EntriesDisjoint
    <3>2. DOMAIN entries \subseteq Nat
      BY <1>3
    <3> HIDE DEF f, entries
    <3> QED BY <2>1, <3>1, <3>2, WrittenAgain
  <2> QED BY <1>4, <2>2, <2>3
<1>6. R.output = tables.output
  <2> DEFINE f == tables.output
             entries == Outputs(channels)
  <2>1. IsTable(f) /\ DOMAIN f = Keys(entries)
        /\ \A t \in DOMAIN entries : \A k \in DOMAIN entries[t] :
              k \in DOMAIN f /\ f[k] = entries[t][k]
    <3>1. DOMAIN entries = Known(channels) /\ Between(f, entries, DOMAIN entries, {})
          /\ EntriesDisjoint(entries)
      BY <1>1, <1>3 DEF Outputs
    <3> HIDE DEF f, entries
    <3> QED BY <3>1, ExactTable
  <2>2. KeptOutputs(tables, channels) = f
    <3>1. \A k \in DOMAIN f : k[2] \in UnitsInUse(channels)
      <4> SUFFICES ASSUME NEW k \in DOMAIN f PROVE k[2] \in UnitsInUse(channels)
        OBVIOUS
      <4>1. PICK t \in Known(channels) : k \in DOMAIN entries[t]
        BY <2>1 DEF Keys, Outputs
      <4>2. k[2] = channels[t].unit
        BY <1>2, <4>1, KnownEntries
      <4> QED BY <4>1, <4>2 DEF UnitsInUse
    <3> QED BY <2>1, <3>1 DEF KeptOutputs, Restrict, IsTable
  <2>3. Written(f, entries) = f
    <3>1. \A s, t \in DOMAIN entries : \A k \in DOMAIN entries[t] : k \in DOMAIN entries[s] => s = t
      BY <1>3 DEF EntriesDisjoint
    <3>2. DOMAIN entries \subseteq Nat
      BY <1>3
    <3> HIDE DEF f, entries
    <3> QED BY <2>1, <3>1, <3>2, WrittenAgain
  <2> QED BY <1>4, <2>2, <2>3
<1>7. R.complete = tables.complete
  BY <1>1, <1>4 DEF KeptCompletes
<1> HIDE DEF R
<1>8. ASSUME NEW chs PROVE Reconfigure(R, chs) = Reconfigure(tables, chs)
  BY <1>5, <1>6, <1>7, AgreeingTables
<1>9. MappedRegisters = registers
  BY <1>1, <1>2 DEF MappedRegisters, RegistersInv
<1> QED BY <1>5, <1>8, <1>9 DEF R

\* A change of the repository between updates is a change of ChannelTables.
LEMMA AddLeads ==
    ASSUME UInv, NEW t \in DOMAIN Group, BeginAdd(t)
    PROVE  Atomic!Add(t)
<1>1. Idle /\ UNCHANGED <<tables, registers>> /\ Begin({})
  BY DEF BeginAdd
<1>2. Atomic!Reconfigure(Reconfigure(tables, channels), channels') = Reconfigure(tables', channels')
  BY <1>1, IdleLeads, SameReconfigure
<1>3. MappedRegisters' = MappedRegisters
  BY <1>1, IdleLeads DEF MappedRegisters, Begin
<1>4. /\ t \notin Atomic!Tags(channels) /\ Atomic!CanAllocate(channels)
      /\ channels' = Atomic!AddChannel(channels, t,
                         Atomic!NewChannel(channels, nextCommon, DOMAIN Group[t]))
      /\ nextCommon' = Atomic!After(channels'[t].common)
  BY SameRepository DEF BeginAdd
<1> QED BY <1>2, <1>3, <1>4 DEF Atomic!Add, MappedRegisters

\* So is a participant's request.
LEMMA RegisterLeads ==
    ASSUME UInv, NEW t \in Tags(channels), NEW i \in DOMAIN Group[t], BeginRegister(t, i)
    PROVE  Atomic!Register(t, i)
<1>1. Idle /\ UNCHANGED <<tables, registers>> /\ Begin({})
  BY DEF BeginRegister
<1>2. Atomic!Reconfigure(Reconfigure(tables, channels), channels') = Reconfigure(tables', channels')
  BY <1>1, IdleLeads, SameReconfigure
<1>3. MappedRegisters' = MappedRegisters
  BY <1>1, IdleLeads DEF MappedRegisters, Begin
<1>4. /\ channels[t].parts[i] = Atomic!Unknown
      /\ channels' = Atomic!UpdateParticipant(channels, t, i,
                         [node |-> Group[t][i], qp |-> <<t, i>>,
                          fqp |-> Atomic!NextFabricQp(channels[t], Group[t][i])])
      /\ nextCommon' = nextCommon
  BY SameRepository DEF BeginRegister
<1> QED BY <1>2, <1>3, <1>4 DEF Atomic!Register, MappedRegisters

\* The units that lose selector entries are that of the channel that is removed, if
\* it had any.
LEMMA RemoveLeads ==
    ASSUME UInv, NEW t \in Tags(channels), BeginRemove(t)
    PROVE  Atomic!RemoveChannel(t)
<1> DEFINE gone == IF t \in Known(channels)
                   THEN {[tag |-> t, unit |-> channels[t].unit]} ELSE {}
           R == Reconfigure(tables, channels)
           N == Reconfigure(tables', channels')
<1>1. Idle /\ UNCHANGED <<nextCommon, tables, registers>> /\ Begin(gone)
  BY DEF BeginRemove
<1>2. Atomic!Reconfigure(R, channels') = N
  BY <1>1, IdleLeads, SameReconfigure
<1>3. /\ UInv'
      /\ Known(channels') = Known(channels) \ {t}
      /\ \A s \in Known(channels') : channels'[s] = channels[s]
  BY RemoveStep
<1>4. R.selector = tables.selector /\ MappedRegisters = registers
  BY <1>1, IdleLeads
<1>5. N.selector = Written(KeptSelectors(tables, channels'), Selectors(channels'))
  BY <1>1, ReconfigureParts
<1>6. /\ ChannelsInv
      /\ DOMAIN tables.selector = Keys(Selectors(channels))
      /\ \A s \in Known(channels) : \A k \in DOMAIN Selectors(channels)[s] :
            tables.selector[k] = Selectors(channels)[s][k]
  <2> DEFINE entries == Selectors(channels)
             f == tables.selector
  <2>1. DOMAIN entries = Known(channels) /\ Between(f, entries, DOMAIN entries, {})
        /\ EntriesDisjoint(entries) /\ ChannelsInv
    BY <1>1, IdleTables, KnownEntries DEF UInv
  <2>2. Between(f, entries, DOMAIN entries, {}) /\ EntriesDisjoint(entries)
    BY <2>1
  <2> HIDE DEF entries, f
  <2>3. DOMAIN f = Keys(entries)
        /\ \A s \in DOMAIN entries : \A k \in DOMAIN entries[s] : f[k] = entries[s][k]
    BY <2>2, ExactTable
  <2> QED BY <2>1, <2>3 DEF entries, f
<1>7. DOMAIN N.selector = DOMAIN KeptSelectors(tables, channels') \cup Keys(Selectors(channels'))
  <2>1. \A f, e : DOMAIN Written(f, e) = DOMAIN f \cup Keys(e)
    BY DEF Written, Keys
  <2> QED BY <1>5, <2>1
<1>8. \A s \in Known(channels') : Selectors(channels')[s] = Selectors(channels)[s]
  BY <1>3 DEF Selectors
<1>9. ASSUME NEW k \in DOMAIN tables.selector
      PROVE  k \notin DOMAIN N.selector <=>
                 t \in Known(channels) /\ k \in DOMAIN Selectors(channels)[t]
  <2>1. PICK s \in Known(channels) : k \in DOMAIN Selectors(channels)[s]
    BY <1>6 DEF Keys, Selectors
  <2>2. \A r \in Known(channels) : k \in DOMAIN Selectors(channels)[r] => r = s
    BY <1>6, <2>1, KnownEntries DEF EntriesDisjoint
  <2>3. tables.selector[k].unit = channels[s].unit
    BY <1>6, <2>1, KnownEntries
  <2>4. CASE s # t
    <3>1. k \in Keys(Selectors(channels'))
      BY <1>3, <1>8, <2>1, <2>4 DEF Keys, Selectors
    <3> QED BY <1>7, <2>2, <2>4, <3>1
  <2>5. CASE s = t
    <3>1. k \notin Keys(Selectors(channels'))
      <4>1. \A r \in Known(channels') : k \notin DOMAIN Selectors(channels')[r]
        BY <1>3, <1>8, <2>2, <2>5
      <4> QED BY <4>1 DEF Keys, Selectors
    <3>2. tables.selector[k].unit \notin UnitsInUse(channels')
      BY <1>3, <1>6, <2>1, <2>3, <2>5 DEF UnitsInUse, ChannelsInv, Known
    <3>3. k \notin DOMAIN KeptSelectors(tables, channels')
      BY <3>2 DEF KeptSelectors, Restrict
    <3> QED BY <1>7, <2>1, <2>5, <3>1, <3>3
  <2> QED BY <2>4, <2>5
<1>10. Atomic!ClearedUnits(R, N) = IF t \in Known(channels) THEN {channels[t].unit} ELSE {}
  <2>1. Atomic!ClearedUnits(R, N) =
          {tables.selector[k].unit : k \in DOMAIN tables.selector \ DOMAIN N.selector}
    BY <1>4 DEF Atomic!ClearedUnits
  <2>2. CASE t \in Known(channels)
    <3>1. DOMAIN tables.selector \ DOMAIN N.selector = DOMAIN Selectors(channels)[t]
      <4>1. DOMAIN Selectors(channels)[t] \subseteq DOMAIN tables.selector
        BY <1>6, <2>2 DEF Keys, Selectors
      <4> HIDE DEF N
      <4> QED BY <1>9, <2>2, <4>1
    <3>2. DOMAIN Selectors(channels)[t] # {}
          /\ \A k \in DOMAIN Selectors(channels)[t] : tables.selector[k].unit = channels[t].unit
      BY <1>6, <2>2, KnownEntries
    <3> HIDE DEF N, R
    <3> QED BY <2>1, <2>2, <3>1, <3>2
  <2>3. CASE t \notin Known(channels)
    <3>1. DOMAIN tables.selector \ DOMAIN N.selector = {}
      BY <1>9, <2>3
    <3> HIDE DEF N, R
    <3> QED BY <2>1, <2>3, <3>1
  <2> QED BY <2>2, <2>3
<1>11. MappedRegisters' = [u \in DOMAIN MappedRegisters |->
           IF u \in Atomic!ClearedUnits(R, N) THEN {} ELSE MappedRegisters[u]]
  <2>1. update'.leaving = gone /\ registers' = registers
    BY <1>1 DEF Begin
  <2>2. \A u : (\E l \in gone : l.unit = u) <=> t \in Known(channels) /\ u = channels[t].unit
    <3>1. [tag |-> t, unit |-> channels[t].unit].unit = channels[t].unit
      OBVIOUS
    <3>2. CASE t \in Known(channels)
      <4>1. gone = {[tag |-> t, unit |-> channels[t].unit]}
        BY <3>2
      <4> HIDE DEF gone
      <4> QED BY <3>1, <3>2, <4>1
    <3>3. CASE t \notin Known(channels)
      BY <3>3
    <3> QED BY <3>2, <3>3
  <2>3. MappedRegisters' = [u \in DOMAIN registers |->
            IF \E l \in gone : l.unit = u THEN {} ELSE registers[u]]
    BY <2>1 DEF MappedRegisters
  <2> HIDE DEF gone, N, R
  <2> QED BY <1>4, <1>10, <2>2, <2>3
<1>12. channels' = Atomic!RemoveChannels(channels, {t}) /\ nextCommon' = nextCommon
  BY SameRepository DEF BeginRemove
<1> QED BY <1>2, <1>11, <1>12 DEF Atomic!RemoveChannel, MappedRegisters

\* Packets of a channel in service, of which no unit is given up.
LEMMA TrafficLeads ==
    ASSUME UInv, NEW t \in update.served, Aggregate(t) \/ Quiesce(t), UNCHANGED update
    PROVE  /\ Aggregate(t) => Atomic!Aggregate(t)
           /\ Quiesce(t) => Atomic!Quiesce(t)
<1>1. /\ t \in Tags(channels) /\ channels[t].unit \in 0 .. MaxUnits - 1
      /\ \A l \in update.leaving : l.unit # channels[t].unit
      /\ registers \in [0 .. MaxUnits - 1 -> SUBSET DOMAIN Group]
  BY DEF UInv, UpdateInv, ChannelsInv, IsChannel, Known, RegistersInv
<1>2. /\ MappedRegisters[channels[t].unit] = registers[channels[t].unit]
      /\ channels[t].unit \in DOMAIN registers
  BY <1>1 DEF MappedRegisters
<1>3. UNCHANGED <<channels, nextCommon, tables>> /\ update'.leaving = update.leaving
  BY DEF Aggregate, Quiesce
<1>4. ASSUME NEW s, registers' = [registers EXCEPT ![channels[t].unit] = s]
      PROVE  MappedRegisters' = [MappedRegisters EXCEPT ![channels[t].unit] = s]
  BY <1>1, <1>2, <1>3, <1>4 DEF MappedRegisters
<1>5. ASSUME Aggregate(t) PROVE Atomic!Aggregate(t)
  <2>1. /\ Atomic!AllKnown(channels[t])
        /\ registers' = [registers EXCEPT ![channels[t].unit] = registers[channels[t].unit] \cup {t}]
    BY <1>5, SameRepository DEF Aggregate
  <2>2. MappedRegisters' = [MappedRegisters EXCEPT ![channels[t].unit] = @ \cup {t}]
    BY <1>2, <1>4, <2>1
  <2> QED BY <1>3, <2>1, <2>2 DEF Atomic!Aggregate, MappedRegisters
<1>6. ASSUME Quiesce(t) PROVE Atomic!Quiesce(t)
  <2>1. /\ t \in registers[channels[t].unit]
        /\ registers' = [registers EXCEPT ![channels[t].unit] = registers[channels[t].unit] \ {t}]
    BY <1>6 DEF Quiesce
  <2>2. MappedRegisters' = [MappedRegisters EXCEPT ![channels[t].unit] = @ \ {t}]
    BY <1>2, <1>4, <2>1
  <2> QED BY <1>2, <1>3, <2>1, <2>2 DEF Atomic!Quiesce, MappedRegisters
<1> QED BY <1>5, <1>6

\* A packet that was under way goes to registers that count as cleared.
LEMMA LateLeads ==
    ASSUME UInv, NEW l \in update.leaving, AggregateLate(l.tag, l.unit)
    PROVE  MappedRegisters' = MappedRegisters
BY DEF AggregateLate, MappedRegisters

\* Every step is one of ChannelTables or changes nothing there.
LEMMA StepLeads == UInv /\ [UpdatesNext]_updateVars => [Atomic!TablesNext]_(Atomic!tableVars)
<1> SUFFICES ASSUME UInv, [UpdatesNext]_updateVars
             PROVE  Atomic!TablesNext \/ UNCHANGED Atomic!tableVars
  OBVIOUS
<1>1. ASSUME UNCHANGED <<channels, nextCommon>>,
             Reconfigure(tables', channels) = Reconfigure(tables, channels),
             MappedRegisters' = MappedRegisters
      PROVE  UNCHANGED Atomic!tableVars
  BY <1>1 DEF Atomic!tableVars, MappedRegisters
<1>2. CASE UpdateStep
  <2>1. UNCHANGED <<channels, nextCommon>>
    BY <1>2 DEF UpdateStep, WriteStep, DeleteStep, MulticastStep, ClearStep
  <2>2. ASSUME NEW w \in update.writes, WriteStep(w[1], w[2])
        PROVE  /\ Reconfigure(tables', channels) = Reconfigure(tables, channels)
               /\ MappedRegisters' = MappedRegisters
    <3>1. w = <<w[1], w[2]>>
      BY DEF UInv, UpdateInv
    <3> QED BY <2>2, <3>1, WriteLeads
  <2>3. ASSUME ~Idle, update.writes = {}, NEW step, step = DeleteSteps[update.next],
               \/ DeleteStep(step[1], step[2])
               \/ MulticastStep(step[1])
               \/ step[1] = "clear" /\ ClearStep
        PROVE  /\ Reconfigure(tables', channels) = Reconfigure(tables, channels)
               /\ MappedRegisters' = MappedRegisters
    <3>1. update.next \in 1 .. 9
      BY <2>3, StepNames DEF UInv, UpdateInv, Idle
    <3>2. DeleteSteps[update.next] = <<step[1], step[2]>>
      BY <2>3, <3>1, StepNames
    <3> QED BY <2>3, <3>2, DeleteLeads
  <2> QED BY <1>1, <1>2, <2>1, <2>2, <2>3 DEF UpdateStep
<1>3. ASSUME NEW t \in DOMAIN Group, BeginAdd(t) PROVE Atomic!TablesNext
  BY <1>3, AddLeads DEF Atomic!TablesNext
<1>4. ASSUME NEW t \in Tags(channels), NEW i \in DOMAIN Group[t], BeginRegister(t, i)
      PROVE  Atomic!TablesNext
  BY <1>4, RegisterLeads, SameRepository DEF Atomic!TablesNext
<1>5. ASSUME NEW t \in Tags(channels), BeginRemove(t) PROVE Atomic!TablesNext
  BY <1>5, RemoveLeads, SameRepository DEF Atomic!TablesNext
<1>6. ASSUME NEW t \in update.served, Aggregate(t) \/ Quiesce(t), UNCHANGED update
      PROVE  Atomic!TablesNext
  <2>1. t \in Atomic!Tags(channels)
    BY SameRepository DEF UInv, UpdateInv, Known
  <2> QED BY <1>6, <2>1, TrafficLeads DEF Atomic!TablesNext
<1>7. ASSUME NEW l \in update.leaving, AggregateLate(l.tag, l.unit)
      PROVE  UNCHANGED Atomic!tableVars
  <2>1. UNCHANGED <<channels, nextCommon, tables>>
    BY <1>7 DEF AggregateLate
  <2> QED BY <1>1, <1>7, <2>1, LateLeads
<1>8. CASE UNCHANGED updateVars
  <2>1. UNCHANGED <<channels, nextCommon, tables, registers, update>>
    BY <1>8 DEF updateVars, tableVars
  <2>2. MappedRegisters' = MappedRegisters
    BY <2>1 DEF MappedRegisters
  <2> QED BY <1>1, <2>1, <2>2
<1> QED BY <1>2, <1>3, <1>4, <1>5, <1>6, <1>7, <1>8 DEF UpdatesNext

\* The initial states are those of ChannelTables.
LEMMA InitLeads == UpdatesInit => Atomic!TablesInit
<1> SUFFICES ASSUME UpdatesInit PROVE Atomic!TablesInit
  OBVIOUS
<1>1. /\ channels = <<>> /\ nextCommon = 0 /\ tables = NoTables
      /\ registers = [u \in 0 .. MaxUnits - 1 |-> {}]
      /\ update.leaving = {}
  BY DEF UpdatesInit, TablesInit, NoChannels, NoUpdate
<1>2. Known(channels) = {}
  BY <1>1 DEF Known, Tags
<1>3. \A f, e : DOMAIN f = {} /\ DOMAIN e = {} => Written(f, e) = <<>>
  <2> SUFFICES ASSUME NEW f, NEW e, DOMAIN f = {}, DOMAIN e = {} PROVE Written(f, e) = <<>>
    OBVIOUS
  <2>1. Written(f, e) = [k \in DOMAIN Written(f, e) |-> Written(f, e)[k]] /\ DOMAIN Written(f, e) = {}
    BY DEF Written
  <2> QED BY <2>1
<1>4. /\ UnitsInUse(channels) = {} /\ Completes(channels) = {} /\ McNodesInUse(channels) = {}
      /\ DOMAIN Selectors(channels) = {} /\ DOMAIN Outputs(channels) = {}
      /\ DOMAIN NodeRows(channels) = {} /\ DOMAIN Groups(channels) = {}
  BY <1>2 DEF UnitsInUse, Completes, McNodesInUse, Selectors, Outputs, NodeRows, Groups
<1>5. /\ DOMAIN KeptSelectors(tables, channels) = {} /\ DOMAIN KeptOutputs(tables, channels) = {}
      /\ DOMAIN KeptNodes(tables, channels) = {} /\ DOMAIN KeptGroups(tables, channels) = {}
      /\ KeptCompletes(tables, channels) = {}
  BY <1>4 DEF KeptSelectors, KeptOutputs, KeptNodes, KeptGroups, KeptCompletes, Restrict
<1>6. Reconfigure(tables, channels) = NoTables
  BY <1>3, <1>4, <1>5, ReconfigureParts DEF NoTables
<1>7. Atomic!NoTables = NoTables
  BY DEF NoTables, Atomic!NoTables
<1>8. MappedRegisters = [u \in 0 .. MaxUnits - 1 |-> {}]
  BY <1>1 DEF MappedRegisters
<1> QED BY <1>1, <1>6, <1>7, <1>8, SameRepository
        DEF Atomic!TablesInit, MappedRegisters, NoChannels

\* To the rest of the daemon an update is one step, however packets arrive in the
\* meantime: what is left of it leads to the same tables from every state, and the
\* registers of a unit that is given up are cleared before it ends.
THEOREM UpdatesAreAtomic == UpdatesSpec => ImplementsTables
<1>1. UInv /\ [UpdatesNext]_updateVars => [Atomic!TablesNext]_(Atomic!tableVars)
  BY StepLeads
<1>2. UpdatesInit => Atomic!TablesInit
  BY InitLeads
<1> QED BY <1>1, <1>2, TablesInvariance, PTL DEF UpdatesSpec, ImplementsTables, Atomic!TablesSpec

=============================================================================
