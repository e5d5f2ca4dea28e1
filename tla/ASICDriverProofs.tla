-------------------------- MODULE ASICDriverProofs --------------------------
(***************************************************************************)
(* Facts about the operators of StateRepository and ASICDriver: what is    *)
(* allocated is free, and the entries of a channel name no other channel.  *)
(***************************************************************************)
EXTENDS ASICDriver, FiniteSetTheorems, WellFoundedInduction, TLAPS

-----------------------------------------------------------------------------
(* The repository. *)

\* The least element of a set of numbers is an element, and none is less.
LEMMA MinIsElement ==
    ASSUME NEW T \in SUBSET Nat, T # {}
    PROVE  Min(T) \in T /\ \A y \in T : Min(T) <= y
<1>1. \E x \in T : \A y \in T : ~(<<y, x>> \in OpToRel(<, Nat))
  BY NatLessThanWellFounded, WFMin
<1>2. PICK x \in T : \A y \in T : ~(<<y, x>> \in OpToRel(<, Nat))
  BY <1>1
<1>3. ASSUME NEW y \in T PROVE x <= y
  <2>1. y \in Nat /\ x \in Nat
    OBVIOUS
  <2>2. <<y, x>> \in OpToRel(<, Nat) <=> y < x
    BY <2>1 DEF OpToRel
  <2>3. ~(y < x)
    BY <1>2, <2>2
  <2> QED BY <2>1, <2>3
<1> QED BY <1>2, <1>3 DEF Min

\* A single number is the greatest one.
LEMMA MaxOfOne == \A x \in Nat : Max({x}) = x
BY DEF Max

\* What is allocated is in its range and nobody else's (allocate_agg_unit and
\* allocate_fabric_qp_common, whose counter wraps).
LEMMA AllocatesFree ==
    ASSUME NEW chs, NEW next, CanAllocate(chs)
    PROVE  /\ NextUnit(chs) \in 0 .. MaxUnits - 1
           /\ NextCommon(chs, next) \in 1 .. MaxCommon
           /\ \A t \in Tags(chs) : /\ chs[t].unit # NextUnit(chs)
                                   /\ chs[t].common # NextCommon(chs, next)
<1>1. FreeUnits(chs) \in SUBSET Nat /\ FreeUnits(chs) # {}
  BY RepositoryAssumption DEF CanAllocate, FreeUnits
<1>2. NextUnit(chs) \in FreeUnits(chs)
  BY <1>1, MinIsElement DEF NextUnit
<1>3. FreeCommons(chs) \in SUBSET Nat /\ FreeCommons(chs) # {}
  BY RepositoryAssumption DEF CanAllocate, FreeCommons
<1> DEFINE ahead == {q \in FreeCommons(chs) : q >= next}
           candidates == IF ahead = {} THEN FreeCommons(chs) ELSE ahead
<1>4. candidates \in SUBSET Nat /\ candidates # {} /\ candidates \subseteq FreeCommons(chs)
  BY <1>3
<1>5. NextCommon(chs, next) = Min(candidates)
  BY DEF NextCommon
<1>6. NextCommon(chs, next) \in FreeCommons(chs)
  <2> HIDE DEF candidates
  <2> QED BY <1>4, <1>5, MinIsElement
<1> QED BY <1>2, <1>6 DEF FreeUnits, FreeCommons

\* The counter stays in its range.
LEMMA AfterInRange == \A n \in 1 .. MaxCommon : After(n) \in 0 .. MaxCommon
BY RepositoryAssumption DEF After

-----------------------------------------------------------------------------
(* The entries of a channel. *)

\* A channel all of whose participants are known: numbers of the channel, nodes
\* on pipes 0 and 3.
WellFormed(ch) ==
    /\ Ids(ch) # {}
    /\ \A i \in Ids(ch) :
          /\ ch.parts[i].fqp[1] = ch.common
          /\ ch.parts[i].node # "recirculated"
          /\ PipeOfNode(ch.parts[i].node) \in {0, 3}

\* The common part of the fabric QP numbers an entry of unit_selector matches.
CommonOfKey(k) == IF k[1] = "recirculated" THEN k[2] ELSE k[2][1]

\* Entries of unit_selector belong to the channel by their key and by their unit.
LEMMA SelectorEntriesOwn ==
    ASSUME NEW ch, WellFormed(ch)
    PROVE  /\ DOMAIN SelectorEntries(ch) # {}
           /\ SelectorEntries(ch) =
                 [k \in DOMAIN SelectorEntries(ch) |-> SelectorEntries(ch)[k]]
           /\ \A k \in DOMAIN SelectorEntries(ch) :
                 /\ CommonOfKey(k) = ch.common
                 /\ PipeOfKey(k) \in {0, 3}
                 /\ SelectorEntries(ch)[k].unit = ch.unit
<1> DEFINE keys == {SelectorKey(ch.parts[i]) : i \in Ids(ch)}
           recirc == IF BothPipes(ch) THEN {RecircKey(ch)} ELSE {}
<1>1. /\ DOMAIN SelectorEntries(ch) = keys \cup recirc
      /\ SelectorEntries(ch) =
            [k \in DOMAIN SelectorEntries(ch) |-> SelectorEntries(ch)[k]]
      /\ \A k \in keys \cup recirc : SelectorEntries(ch)[k].unit = ch.unit
  BY DEF SelectorEntries
<1>2. \A k \in keys : /\ k[1] # "recirculated" /\ k[2][1] = ch.common
                      /\ PipeOfNode(k[1]) \in {0, 3}
  BY DEF WellFormed, SelectorKey
<1>3. \A k \in recirc : k[1] = "recirculated" /\ k[2] = ch.common
  BY DEF RecircKey
<1>4. keys # {}
  BY DEF WellFormed
<1> HIDE DEF keys, recirc
<1> QED BY <1>1, <1>2, <1>3, <1>4 DEF CommonOfKey, PipeOfKey

\* Entries of output_address and check_complete are keyed by the unit.
LEMMA OtherEntriesOwn ==
    ASSUME NEW ch, WellFormed(ch)
    PROVE  /\ \A k \in DOMAIN OutputEntries(ch) : k[1] \in {0, 3} /\ k[2] = ch.unit
           /\ \A e \in CompleteEntries(ch) : e[1] = ch.unit /\ e[2] \in {0, 3}
<1>1. \A k \in DOMAIN OutputEntries(ch) : k[1] \in {0, 3} /\ k[2] = ch.unit
  BY DEF OutputEntries, WellFormed
<1>2. \A e \in CompleteEntries(ch) : e[1] = ch.unit /\ e[2] \in {0, 3}
  BY DEF CompleteEntries
<1> QED BY <1>1, <1>2

\* Clients whose QP numbers differ, or whose nodes do, select their own bits.
LEMMA SelectorBits ==
    ASSUME NEW ch, WellFormed(ch), Ids(ch) \subseteq Nat, NEW i \in Ids(ch),
           \A j \in Ids(ch) : SelectorKey(ch.parts[j]) = SelectorKey(ch.parts[i]) => j = i
    PROVE  /\ SelectorKey(ch.parts[i]) \in DOMAIN SelectorEntries(ch)
           /\ SelectorEntries(ch)[SelectorKey(ch.parts[i])] =
                 [unit |-> ch.unit, bit |-> Bit(ch, i)]
<1> DEFINE keys == {SelectorKey(ch.parts[j]) : j \in Ids(ch)}
           recirc == IF BothPipes(ch) THEN {RecircKey(ch)} ELSE {}
           last(k) == Max({j \in Ids(ch) : SelectorKey(ch.parts[j]) = k})
           key == SelectorKey(ch.parts[i])
<1>1. key \in keys /\ key \notin recirc
  BY DEF WellFormed, SelectorKey, RecircKey
<1>2. {j \in Ids(ch) : SelectorKey(ch.parts[j]) = key} = {i}
  OBVIOUS
<1>3. last(key) = i
  <2>1. i \in Nat
    OBVIOUS
  <2> QED BY <1>2, <2>1, MaxOfOne
<1>4. SelectorEntries(ch) =
        [k \in keys \cup recirc |->
            [unit |-> ch.unit,
             bit |-> IF k \in recirc THEN Cardinality(OnPipe(ch, 3)) + 1
                                     ELSE Bit(ch, last(k))]]
  BY DEF SelectorEntries
<1>5. key \in DOMAIN SelectorEntries(ch)
      /\ SelectorEntries(ch)[key] = [unit |-> ch.unit, bit |-> Bit(ch, last(key))]
  <2> HIDE DEF keys, recirc, last, key
  <2> QED BY <1>1, <1>4
<1> QED BY <1>3, <1>5

-----------------------------------------------------------------------------
(* The numbers of the participants. *)

OnNode(ch, node) == {j \in Ids(ch) : ch.parts[j].node = node}

\* The participants on a node that have asked so far have the first numbers there.
NumbersFit(ch) ==
    \A i \in Ids(ch) : ch.parts[i] # Unknown =>
        /\ ch.parts[i].fqp[2] \in Nat
        /\ ch.parts[i].fqp[2] < Cardinality(OnNode(ch, ch.parts[i].node))
        /\ \A j \in Ids(ch) \ {i} :
              ch.parts[j] # Unknown /\ ch.parts[j].node = ch.parts[i].node =>
                  ch.parts[j].fqp[2] # ch.parts[i].fqp[2]

\* A new participant's number is the number of those that were there before: not
\* one of theirs, as there are at most 256 (get_next_fabric_qp).
LEMMA NextNumberFits ==
    ASSUME NEW ch, NumbersFit(ch), IsFiniteSet(Ids(ch)), NEW node, node # Unknown.node,
           \A j \in Ids(ch) : ch.parts[j] # Unknown => ch.parts[j].node # Unknown.node,
           NEW part, NEW i \in Ids(ch), ch.parts[i] = Unknown,
           part = [node |-> part.node, qp |-> part.qp, fqp |-> part.fqp],
           part.node = node, part.fqp = NextFabricQp(ch, node),
           Cardinality(OnNode(ch, node)) < 256,
           NEW new, new.parts = [ch.parts EXCEPT ![i] = part]
    PROVE  NumbersFit(new)
<1>1. /\ Ids(new) = Ids(ch) /\ new.parts[i] = part
      /\ \A j \in Ids(ch) \ {i} : new.parts[j] = ch.parts[j]
  BY DEF Ids
<1>2. ch.parts[i].node = Unknown.node /\ i \notin OnNode(ch, node)
  BY DEF OnNode
<1>3. IsFiniteSet(OnNode(ch, node)) /\ Cardinality(OnNode(ch, node)) \in Nat
  <2>1. OnNode(ch, node) \in SUBSET Ids(ch)
    BY DEF OnNode
  <2> QED BY <2>1, FS_Subset, FS_CardinalityType
<1>4. part.fqp[2] = Cardinality(OnNode(ch, node))
  <2>1. part.fqp[2] = Cardinality(OnNode(ch, node)) % 256
    BY DEF NextFabricQp, OnNode, Ids
  <2> QED BY <1>3, <2>1
<1>5. OnNode(new, node) = OnNode(ch, node) \cup {i}
  BY <1>1 DEF OnNode
<1>6. Cardinality(OnNode(new, node)) = Cardinality(OnNode(ch, node)) + 1
  BY <1>2, <1>3, <1>5, FS_AddElement
<1>7. ASSUME NEW n, n # node, n # Unknown.node PROVE OnNode(new, n) = OnNode(ch, n)
  BY <1>1, <1>2, <1>7 DEF OnNode
<1>8. ASSUME NEW j \in Ids(new), new.parts[j] # Unknown,
             NEW k \in Ids(new) \ {j}, new.parts[k] # Unknown,
             new.parts[k].node = new.parts[j].node
      PROVE  new.parts[k].fqp[2] # new.parts[j].fqp[2]
  <2>1. CASE j # i /\ k # i
    BY <1>1, <1>8, <2>1 DEF NumbersFit
  <2>2. ASSUME NEW x \in Ids(ch) \ {i}, ch.parts[x] # Unknown, ch.parts[x].node = node
        PROVE  ch.parts[x].fqp[2] # part.fqp[2]
    BY <1>3, <1>4, <2>2 DEF NumbersFit
  <2> QED BY <1>1, <1>8, <2>1, <2>2
<1>9. ASSUME NEW j \in Ids(new), new.parts[j] # Unknown
      PROVE  /\ new.parts[j].fqp[2] \in Nat
             /\ new.parts[j].fqp[2] < Cardinality(OnNode(new, new.parts[j].node))
  <2>1. CASE j = i
    BY <1>1, <1>3, <1>4, <1>6, <2>1
  <2>2. CASE j # i /\ ch.parts[j].node = node
    BY <1>1, <1>3, <1>6, <1>9, <2>2 DEF NumbersFit
  <2>3. CASE j # i /\ ch.parts[j].node # node
    <3>1. ch.parts[j] # Unknown /\ new.parts[j] = ch.parts[j] /\ j \in Ids(ch)
      BY <1>1, <1>9, <2>3
    <3>2. OnNode(new, ch.parts[j].node) = OnNode(ch, ch.parts[j].node)
      BY <1>7, <2>3, <3>1
    <3> QED BY <3>1, <3>2 DEF NumbersFit
  <2> QED BY <1>1, <2>1, <2>2, <2>3
<1> QED BY <1>8, <1>9 DEF NumbersFit

-----------------------------------------------------------------------------
(* Changes of the tables. *)

IsTable(f) == f = [k \in DOMAIN f |-> f[k]]

Keys(entries) == UNION {DOMAIN entries[t] : t \in DOMAIN entries}

\* What is written does not depend on what was there.
LEMMA WrittenAlike ==
    ASSUME NEW f, NEW g, NEW entries,
           \A k : k \notin Keys(entries) =>
               /\ k \in DOMAIN f <=> k \in DOMAIN g
               /\ k \in DOMAIN f => f[k] = g[k]
    PROVE  Written(f, entries) = Written(g, entries)
<1> DEFINE writers(k) == {t \in DOMAIN entries : k \in DOMAIN entries[t]}
<1>1. \A k : k \in Keys(entries) <=> writers(k) # {}
  BY DEF Keys
<1>2. DOMAIN f \cup Keys(entries) = DOMAIN g \cup Keys(entries)
  OBVIOUS
<1>3. \A k \in DOMAIN f \cup Keys(entries) :
        (IF writers(k) = {} THEN f[k] ELSE entries[Max(writers(k))][k])
          = (IF writers(k) = {} THEN g[k] ELSE entries[Max(writers(k))][k])
  BY <1>1
<1>4. /\ Written(f, entries) =
            [k \in DOMAIN f \cup Keys(entries) |->
                IF writers(k) = {} THEN f[k] ELSE entries[Max(writers(k))][k]]
      /\ Written(g, entries) =
            [k \in DOMAIN g \cup Keys(entries) |->
                IF writers(k) = {} THEN g[k] ELSE entries[Max(writers(k))][k]]
  BY DEF Written, Keys
<1> HIDE DEF writers
<1> QED BY <1>2, <1>3, <1>4

\* A table that has all entries stays as it is.
LEMMA WrittenAgain ==
    ASSUME NEW f, IsTable(f), NEW entries, DOMAIN entries \subseteq Nat,
           \A t \in DOMAIN entries : \A k \in DOMAIN entries[t] :
               k \in DOMAIN f /\ f[k] = entries[t][k],
           \A s, t \in DOMAIN entries : \A k \in DOMAIN entries[t] :
               k \in DOMAIN entries[s] => s = t
    PROVE  Written(f, entries) = f
<1> DEFINE writers(k) == {t \in DOMAIN entries : k \in DOMAIN entries[t]}
<1>1. Keys(entries) \subseteq DOMAIN f
  BY DEF Keys
<1>2. ASSUME NEW k, writers(k) # {}
      PROVE  entries[Max(writers(k))][k] = f[k]
  <2>1. PICK t \in DOMAIN entries : k \in DOMAIN entries[t]
    BY <1>2
  <2>2. writers(k) = {t}
    BY <2>1
  <2>3. Max({t}) = t
    BY <2>1, MaxOfOne
  <2> QED BY <2>1, <2>2, <2>3
<1>3. Written(f, entries) =
        [k \in DOMAIN f \cup Keys(entries) |->
            IF writers(k) = {} THEN f[k] ELSE entries[Max(writers(k))][k]]
  BY DEF Written, Keys
<1>4. DOMAIN f \cup Keys(entries) = DOMAIN f
  BY <1>1
<1> HIDE DEF writers
<1> QED BY <1>2, <1>3, <1>4 DEF IsTable

Selectors(chs) == [t \in Known(chs) |-> SelectorEntries(chs[t])]
Outputs(chs) == [t \in Known(chs) |-> OutputEntries(chs[t])]
Completes(chs) == UNION {CompleteEntries(chs[t]) : t \in Known(chs)}
NodeRows(chs) == [t \in Known(chs) |-> McNodeEntries(chs[t])]
Groups(chs) == [t \in Known(chs) |-> McGroupEntries(chs[t])]

\* What an update keeps of the tables.
KeptSelectors(T, chs) ==
    Restrict(T.selector, {k \in DOMAIN T.selector : T.selector[k].unit \in UnitsInUse(chs)})
KeptOutputs(T, chs) ==
    Restrict(T.output, {k \in DOMAIN T.output : k[2] \in UnitsInUse(chs)})
KeptCompletes(T, chs) == {e \in T.complete : e[1] \in UnitsInUse(chs)}
KeptNodes(T, chs) ==
    Restrict(T.mcNode, {x \in DOMAIN T.mcNode : x \in McNodesInUse(chs)})
KeptGroups(T, chs) ==
    Restrict(T.mcGroup, {u \in DOMAIN T.mcGroup : u \in UnitsInUse(chs)})

\* Reconfigure in these terms.
LEMMA ReconfigureParts ==
    ASSUME NEW T, NEW chs
    PROVE  Reconfigure(T, chs) =
              [selector |-> Written(KeptSelectors(T, chs), Selectors(chs)),
               complete |-> KeptCompletes(T, chs) \cup Completes(chs),
               output |-> Written(KeptOutputs(T, chs), Outputs(chs)),
               mcNode |-> Written(KeptNodes(T, chs), NodeRows(chs)),
               mcGroup |-> Written(KeptGroups(T, chs), Groups(chs))]
BY DEF Reconfigure, Keep, All, Selectors, Outputs, Completes, NodeRows, Groups,
       KeptSelectors, KeptOutputs, KeptCompletes, KeptNodes, KeptGroups

\* The multicast tables are a function of the channels: nothing but their entries
\* is left after an update.
LEMMA MulticastRebuilt ==
    ASSUME NEW S, NEW T, NEW chs
    PROVE  /\ Written(KeptNodes(S, chs), NodeRows(chs)) = Written(KeptNodes(T, chs), NodeRows(chs))
           /\ Written(KeptGroups(S, chs), Groups(chs)) = Written(KeptGroups(T, chs), Groups(chs))
<1>1. \A k : k \notin Keys(NodeRows(chs)) =>
          k \notin DOMAIN KeptNodes(S, chs) /\ k \notin DOMAIN KeptNodes(T, chs)
  <2>1. McNodesInUse(chs) \subseteq Keys(NodeRows(chs))
    BY DEF McNodesInUse, Keys, NodeRows, McNodeEntries
  <2> QED BY <2>1 DEF KeptNodes, Restrict
<1>2. \A k : k \notin Keys(Groups(chs)) =>
          k \notin DOMAIN KeptGroups(S, chs) /\ k \notin DOMAIN KeptGroups(T, chs)
  <2>1. UnitsInUse(chs) \subseteq Keys(Groups(chs))
    BY DEF UnitsInUse, Keys, Groups, McGroupEntries
  <2> QED BY <2>1 DEF KeptGroups, Restrict
<1>3. Written(KeptNodes(S, chs), NodeRows(chs)) = Written(KeptNodes(T, chs), NodeRows(chs))
  BY <1>1, WrittenAlike
<1>4. Written(KeptGroups(S, chs), Groups(chs)) = Written(KeptGroups(T, chs), Groups(chs))
  BY <1>2, WrittenAlike
<1> QED BY <1>3, <1>4

\* Two tables lead to the same ones if they agree in the entries of units in use
\* that an update does not write.
LEMMA ReconfigureAlike ==
    ASSUME NEW S, NEW T, NEW chs,
           \A k : k \notin Keys(Selectors(chs)) =>
               /\ k \in DOMAIN KeptSelectors(S, chs) <=> k \in DOMAIN KeptSelectors(T, chs)
               /\ k \in DOMAIN KeptSelectors(S, chs) => S.selector[k] = T.selector[k],
           \A k : k \notin Keys(Outputs(chs)) =>
               /\ k \in DOMAIN KeptOutputs(S, chs) <=> k \in DOMAIN KeptOutputs(T, chs)
               /\ k \in DOMAIN KeptOutputs(S, chs) => S.output[k] = T.output[k],
           \A e : e \notin Completes(chs) =>
               (e \in KeptCompletes(S, chs) <=> e \in KeptCompletes(T, chs))
    PROVE  Reconfigure(S, chs) = Reconfigure(T, chs)
<1>1. Written(KeptSelectors(S, chs), Selectors(chs)) = Written(KeptSelectors(T, chs), Selectors(chs))
  <2>1. \A k : k \notin Keys(Selectors(chs)) /\ k \in DOMAIN KeptSelectors(S, chs) =>
          KeptSelectors(S, chs)[k] = KeptSelectors(T, chs)[k]
    BY DEF KeptSelectors, Restrict
  <2> QED BY <2>1, WrittenAlike
<1>2. Written(KeptOutputs(S, chs), Outputs(chs)) = Written(KeptOutputs(T, chs), Outputs(chs))
  <2>1. \A k : k \notin Keys(Outputs(chs)) /\ k \in DOMAIN KeptOutputs(S, chs) =>
          KeptOutputs(S, chs)[k] = KeptOutputs(T, chs)[k]
    BY DEF KeptOutputs, Restrict
  <2> QED BY <2>1, WrittenAlike
<1>3. KeptCompletes(S, chs) \cup Completes(chs) = KeptCompletes(T, chs) \cup Completes(chs)
  OBVIOUS
<1>4. /\ Written(KeptNodes(S, chs), NodeRows(chs)) = Written(KeptNodes(T, chs), NodeRows(chs))
      /\ Written(KeptGroups(S, chs), Groups(chs)) = Written(KeptGroups(T, chs), Groups(chs))
  BY MulticastRebuilt
<1> QED BY <1>1, <1>2, <1>3, <1>4, ReconfigureParts

=============================================================================
