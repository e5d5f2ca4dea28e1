--------------------------- MODULE SwitchLanProofs ---------------------------
(***************************************************************************)
(* The Ethernet switch for any nodes and ports.  The static entry of the   *)
(* switch's own address stays whatever frames nodes send; that of the      *)
(* broadcast address as long as none has it as its source.  As long as no  *)
(* frame has the source address of another node, or the broadcast address, *)
(* and a node is only moved when the switch has forgotten it, whatever the *)
(* switch remembers of a node, in tables, digests and callbacks, names the *)
(* port it is connected to, and the two tables say the same.               *)
(***************************************************************************)
EXTENDS SwitchLan, TLAPS

\* Nodes are on ports of their own.
PlaceInv == \A g, h \in Host : at[g] = at[h] => g = h

\* What is remembered of a node is where it is.
MemoryInv ==
    /\ \A h \in Host, p \in Port : <<h, p>> \in srcTable => p = at[h]
    /\ \A n \in 1 .. Len(digests) : digests[n][2] = at[digests[n][1]]
    /\ callback # Free => callback[2][2] = at[callback[2][1]]

\* The static entries of the switching table.
StaticInv ==
    /\ dstTable[OwnMac] = "collective"
    /\ Bcast \notin Strange => dstTable[Bcast] = "bcast"

\* The node a callback has written about in one table only.
Subject(h) == callback # Free /\ callback[2][1] = h

\* What the switching table says of node h, between callbacks and during one.
EntryInv(h) ==
    /\ dstTable[h] \in {"flood", at[h]}
    /\ ~Subject(h) => (dstTable[h] = at[h] <=> <<h, at[h]>> \in srcTable)
    /\ Subject(h) /\ callback[1] = "learn" => <<h, at[h]>> \in srcTable
    /\ Subject(h) /\ callback[1] = "idle" =>
          <<h, at[h]>> \notin srcTable /\ dstTable[h] = at[h]

LInv ==
    /\ LanTypeOK /\ PlaceInv /\ MemoryInv /\ StaticInv
    /\ \A h \in Host : EntryInv(h)
    /\ failed = FALSE
    /\ Strange \subseteq {OwnMac}

\* Beacons are on the cable of the port they name.
BeaconInv == \A b \in beacons : b.on = b.port

-----------------------------------------------------------------------------

\* Ports are not the names of actions.
LEMMA PortNames ==
    ASSUME NEW p \in Port
    PROVE  /\ p \notin {"flood", "bcast", "collective", CpuPort, "down", "listening"}
BY SwitchAssumption, LanAssumption

\* A callback is free or has an entry and a kind.
LEMMA CallbackCases ==
    ASSUME LanTypeOK
    PROVE  \/ callback = Free /\ callback[1] = "free"
           \/ /\ callback # Free /\ callback[1] \in {"learn", "idle"}
              /\ callback = <<callback[1], callback[2]>>
              /\ callback[2] \in Sources \X Port
              /\ callback[2][1] \in Sources /\ callback[2][2] \in Port
              /\ callback[2] = <<callback[2][1], callback[2][2]>>
BY DEF LanTypeOK, Free

\* The rest of a queue that is not empty.
LEMMA TailOfQueue ==
    ASSUME NEW S, NEW q \in Seq(S), q # <<>>
    PROVE  Head(q) \in S /\ Tail(q) \in Seq(S)
OBVIOUS

\* The first digest, and what is left without it.
LEMMA DigestQueue ==
    ASSUME LanTypeOK, digests # <<>>
    PROVE  /\ Head(digests) = digests[1] /\ Head(digests) \in Sources \X Port
           /\ 1 \in 1 .. Len(digests)
           /\ Tail(digests) \in Seq(Sources \X Port)
           /\ Len(Tail(digests)) = Len(digests) - 1
           /\ \A n \in 1 .. Len(Tail(digests)) :
                 n + 1 \in 1 .. Len(digests) /\ Tail(digests)[n] = digests[n + 1]
BY DEF LanTypeOK

\* One more digest.
LEMMA DigestAdded ==
    ASSUME LanTypeOK, NEW d \in Sources \X Port
    PROVE  /\ Append(digests, d) \in Seq(Sources \X Port)
           /\ Len(Append(digests, d)) = Len(digests) + 1
           /\ Append(digests, d)[Len(digests) + 1] = d
           /\ \A n \in 1 .. Len(digests) : Append(digests, d)[n] = digests[n]
BY DEF LanTypeOK

\* The switch learns addresses it has an entry for, never its own; those of nodes
\* only, if frames have no other source than their sender or the switch itself.
LEMMA SourceFacts ==
    /\ Sources \subseteq Mac /\ Host \subseteq Sources /\ OwnMac \notin Sources
    /\ Bcast \notin Strange => Bcast \notin Sources
    /\ Strange \subseteq {OwnMac} => Sources = Host
BY SwitchAssumption DEF Sources, Mac

-----------------------------------------------------------------------------
(* Types. *)

\* A freshly set-up switch (initial_setup) has the types of LanTypeOK.
LEMMA InitType == LanInit => LanTypeOK
<1> SUFFICES ASSUME LanInit PROVE LanTypeOK
  OBVIOUS
<1> USE SwitchAssumption, LanAssumption DEF LanInit, SwitchInit
<1>1. dstTable \in [Mac -> Port \cup {"flood", "bcast", "collective"}]
  OBVIOUS
<1>2. /\ digests \in Seq(Sources \X Port) /\ toCpu \in Seq(Host \X {OwnMac, Bcast})
      /\ srcTable \subseteq Sources \X Port /\ expired \subseteq srcTable
      /\ beacons \subseteq [on : Port, port : Port]
  OBVIOUS
<1>3. /\ at \in [Host -> Port] /\ moves \in 0 .. MaxMoves
      /\ asked \in [Host -> BOOLEAN]
      /\ switchPort \in [Host -> Port \cup {"down", "listening"}]
  OBVIOUS
<1>4. callback = Free /\ failed \in BOOLEAN
  OBVIOUS
<1> QED BY <1>1, <1>2, <1>3, <1>4 DEF LanTypeOK

\* The part of the types that is the switch's own.
SwitchType ==
    /\ srcTable \subseteq Sources \X Port
    /\ digests \in Seq(Sources \X Port)
    /\ callback \in {Free} \cup ({"learn", "idle"} \X (Sources \X Port))
    /\ expired \subseteq srcTable
    /\ dstTable \in [Mac -> Port \cup {"flood", "bcast", "collective"}]
    /\ failed \in BOOLEAN

\* A frame raises at most one digest, with the port it came from.
LEMMA FrameType ==
    ASSUME LanTypeOK, NEW src \in Host \cup Strange, NEW in \in Port, Frame(src, in)
    PROVE  /\ digests' \in Seq(Sources \X Port)
           /\ UNCHANGED <<srcTable, dstTable, expired, callback, failed>>
           /\ \/ digests' = digests
              \/ src # OwnMac /\ digests' = Append(digests, <<src, in>>)
<1>0. src # OwnMac => src \in Sources
  BY DEF Sources
<1>1. CASE src # OwnMac /\ digests' = Append(digests, <<src, in>>)
  BY <1>0, <1>1 DEF Frame, LanTypeOK
<1>2. CASE digests' = digests
  BY <1>2 DEF Frame, LanTypeOK
<1> QED BY <1>1, <1>2 DEF Frame, KnownSource

\* Every step preserves the types.
LEMMA NextType ==
    ASSUME LanTypeOK, [LanNext]_lanVars
    PROVE  LanTypeOK'
<1> USE SwitchAssumption, LanAssumption
<1>1. ASSUME NEW h \in Host, NEW src \in {h} \cup Strange, Send(h, src)
      PROVE  LanTypeOK'
  <2>1. at[h] \in Port /\ Frame(src, at[h])
    BY <1>1 DEF Send, LanTypeOK
  <2>2. /\ digests' \in Seq(Sources \X Port)
        /\ UNCHANGED <<srcTable, dstTable, expired, callback, failed>>
    BY <2>1, FrameType
  <2> QED BY <1>1, <2>2 DEF Send, nodeVars, LanTypeOK
<1>2. ASSUME NEW h \in Host, NEW dst \in {OwnMac, Bcast}, Ask(h, dst)
      PROVE  LanTypeOK'
  <2>1. at[h] \in Port /\ Frame(h, at[h])
    BY <1>2 DEF Ask, LanTypeOK
  <2>2. /\ digests' \in Seq(Sources \X Port)
        /\ UNCHANGED <<srcTable, dstTable, expired, callback, failed>>
    BY <2>1, FrameType
  <2>3. toCpu' \in Seq(Host \X {OwnMac, Bcast})
    BY <1>2 DEF Ask, LanTypeOK
  <2>4. asked' \in [Host -> BOOLEAN]
    BY <1>2 DEF Ask, LanTypeOK
  <2> QED BY <1>2, <2>2, <2>3, <2>4 DEF Ask, LanTypeOK
<1>3. ASSUME NEW h \in Host, NEW port \in Port, Move(h, port)
      PROVE  LanTypeOK'
  <2>1. at' \in [Host -> Port] /\ moves' \in 0 .. MaxMoves
    BY <1>3 DEF Move, LanTypeOK
  <2> QED BY <1>3, <2>1 DEF Move, switchVars, LanTypeOK
<1>4. ASSUME NEW h \in Host, Listen(h)
      PROVE  LanTypeOK'
  <2>1. switchPort' \in [Host -> Port \cup {"down", "listening"}]
    BY <1>4 DEF Listen, LanTypeOK
  <2> QED BY <1>4, <2>1 DEF Listen, switchVars, nodeVars, LanTypeOK
<1>5. ASSUME Switch
      PROVE  LanTypeOK'
  <2>1. SwitchType'
    <3>1. CASE LearnSource
      BY <3>1, DigestQueue DEF LearnSource, LanTypeOK, SwitchType
    <3>2. CASE LearnDestination
      <4>1. callback[2][1] \in Mac /\ callback[2][2] \in Port
        BY <3>2, CallbackCases, SourceFacts DEF LearnDestination
      <4>2. dstTable' \in [Mac -> Port \cup {"flood", "bcast", "collective"}]
        BY <3>2, <4>1 DEF LearnDestination, LanTypeOK, SwitchType
      <4> QED BY <3>2, <4>2 DEF LearnDestination, LanTypeOK, SwitchType
    <3>3. CASE ForgetDestination
      <4>1. callback[2][1] \in Mac
        BY <3>3, CallbackCases, SourceFacts DEF ForgetDestination
      <4>2. dstTable' \in [Mac -> Port \cup {"flood", "bcast", "collective"}]
        BY <3>3, <4>1 DEF ForgetDestination, LanTypeOK, SwitchType
      <4> QED BY <3>3, <4>2 DEF ForgetDestination, LanTypeOK, SwitchType
    <3>4. ASSUME NEW entry \in srcTable, ForgetSource(entry)
          PROVE  SwitchType'
      BY <3>4 DEF ForgetSource, LanTypeOK, SwitchType
    <3>5. ASSUME NEW entry \in srcTable, Expire(entry)
          PROVE  SwitchType'
      BY <3>5 DEF Expire, LanTypeOK, SwitchType
    <3> QED BY <1>5, <3>1, <3>2, <3>3, <3>4, <3>5 DEF Switch, Driver
  <2> QED BY <1>5, <2>1 DEF Switch, nodeVars, LanTypeOK, SwitchType
<1>6. ASSUME AnswerArp \/ AnswerEcho
      PROVE  LanTypeOK'
  <2>0. toCpu # <<>> /\ toCpu' = Tail(toCpu)
    BY <1>6 DEF AnswerArp, AnswerEcho, Answer
  <2>1. toCpu' \in Seq(Host \X {OwnMac, Bcast})
    BY <2>0, TailOfQueue DEF LanTypeOK
  <2>2. asked' \in [Host -> BOOLEAN]
    BY <1>6 DEF AnswerArp, AnswerEcho, Answer, LanTypeOK
  <2> QED BY <1>6, <2>1, <2>2 DEF AnswerArp, AnswerEcho, Answer, switchVars, LanTypeOK
<1>7. ASSUME Announce
      PROVE  LanTypeOK'
  BY <1>7 DEF Announce, AnnouncedPorts, BeaconPorts, switchVars, nodeVars, LanTypeOK
<1>8. ASSUME NEW beacon \in [on : Port, port : Port], Hear(beacon)
      PROVE  LanTypeOK'
  <2>1. switchPort' \in [Host -> Port \cup {"down", "listening"}]
    BY <1>8 DEF Hear, LanTypeOK
  <2> QED BY <1>8, <2>1 DEF Hear, switchVars, nodeVars, LanTypeOK
<1>9. CASE UNCHANGED lanVars
  BY <1>9 DEF lanVars, switchVars, nodeVars, LanTypeOK
<1> QED BY <1>1, <1>2, <1>3, <1>4, <1>5, <1>6, <1>7, <1>8, <1>9 DEF LanNext

\* All state keeps its types, for any nodes, ports and bounds.
THEOREM LanTypes == LanSpec => []LanTypeOK
<1> QED BY InitType, NextType, PTL DEF LanSpec

-----------------------------------------------------------------------------
(* The invariant. *)

\* Nothing is learned, waiting or announced after initial_setup: LInv holds.
LEMMA InitLInv ==
    ASSUME LanInit, Strange \subseteq {OwnMac}
    PROVE  LInv
<1>1. LanTypeOK
  BY InitType
<1>2. PlaceInv /\ failed = FALSE
  BY DEF LanInit, SwitchInit, PlaceInv
<1>3. MemoryInv
  BY DEF LanInit, SwitchInit, MemoryInv
<1>4. StaticInv
  BY SwitchAssumption DEF LanInit, SwitchInit, StaticInv, Mac
<1>5. ASSUME NEW h \in Host PROVE EntryInv(h)
  <2>1. h \in Mac /\ h # OwnMac /\ h # Bcast
    BY SwitchAssumption DEF Mac
  <2>2. dstTable[h] = "flood" /\ callback = Free /\ srcTable = {}
    BY <2>1 DEF LanInit, SwitchInit
  <2>3. at[h] \in Port
    BY <1>1 DEF LanTypeOK
  <2> QED BY <2>2, <2>3, PortNames DEF EntryInv, Subject
<1> QED BY <1>1, <1>2, <1>3, <1>4, <1>5 DEF LInv

\* A frame is digested with the port its sender is on.
LEMMA FrameKeepsLInv ==
    ASSUME LInv, LanTypeOK', NEW h \in Host, NEW src \in {h} \cup Strange,
           Frame(src, at[h]), at' = at
    PROVE  LInv'
<1>0. LanTypeOK /\ at[h] \in Port /\ src \in {h, OwnMac} /\ h \in Sources
  BY SourceFacts DEF LInv, LanTypeOK
<1>1. /\ UNCHANGED <<srcTable, dstTable, expired, callback, failed>>
      /\ \/ digests' = digests
         \/ src = h /\ digests' = Append(digests, <<h, at[h]>>)
  BY <1>0, FrameType
<1>2. \A n \in 1 .. Len(digests') : digests'[n][2] = at[digests'[n][1]]
  <2>1. CASE digests' = digests
    BY <2>1 DEF LInv, MemoryInv
  <2>2. CASE digests' = Append(digests, <<h, at[h]>>)
    <3>1. \A n \in 1 .. Len(digests') : n = Len(digests) + 1 \/ n \in 1 .. Len(digests)
      BY <1>0, <2>2, DigestAdded DEF LanTypeOK
    <3> QED BY <1>0, <2>2, <3>1, DigestAdded DEF LInv, MemoryInv
  <2> QED BY <1>1, <2>1, <2>2
<1>3. MemoryInv'
  BY <1>1, <1>2 DEF LInv, MemoryInv
<1> QED BY <1>1, <1>3 DEF LInv, PlaceInv, StaticInv, EntryInv, Subject

\* A node that nothing is remembered of is moved.
LEMMA MoveKeepsLInv ==
    ASSUME LInv, LanTypeOK', NEW h \in Host, NEW port \in Port, Move(h, port), ~QuickMoves
    PROVE  LInv'
<1>0. LanTypeOK /\ Forgotten(h) /\ UNCHANGED switchVars
  BY DEF LInv, Move
<1>1. /\ at'[h] = port /\ \A g \in Host : g # h => at'[g] = at[g]
      /\ \A g \in Host : at[g] # port /\ at[g] \in Port
  BY <1>0 DEF Move, LanTypeOK
<1>2. /\ \A p \in Port : <<h, p>> \notin srcTable
      /\ \A n \in 1 .. Len(digests) : digests[n][1] # h
      /\ ~Subject(h)
  BY <1>0 DEF Forgotten, Subject
<1>3. PlaceInv'
  BY <1>1 DEF LInv, PlaceInv
<1>4. MemoryInv'
  <2>1. \A n \in 1 .. Len(digests) : digests[n] \in Host \X Port
    BY <1>0, SourceFacts DEF LanTypeOK, LInv
  <2>2. \A n \in 1 .. Len(digests) : digests[n][2] = at'[digests[n][1]]
    BY <1>1, <1>2, <2>1 DEF LInv, MemoryInv
  <2>3. callback # Free => callback[2][2] = at'[callback[2][1]]
    BY <1>0, <1>1, <1>2, CallbackCases, SourceFacts DEF LInv, MemoryInv, Subject
  <2>4. \A g \in Host, p \in Port : <<g, p>> \in srcTable => p = at'[g]
    BY <1>1, <1>2 DEF LInv, MemoryInv
  <2> QED BY <1>0, <2>2, <2>3, <2>4 DEF MemoryInv, switchVars
<1>5. ASSUME NEW g \in Host PROVE EntryInv(g)'
  <2>1. CASE g = h
    <3>1. dstTable[h] = "flood"
      BY <1>1, <1>2, PortNames DEF LInv, EntryInv
    <3> QED BY <1>0, <1>1, <1>2, <2>1, <3>1, PortNames DEF EntryInv, Subject, switchVars
  <2>2. CASE g # h
    BY <1>0, <1>1, <2>2 DEF LInv, EntryInv, Subject, switchVars
  <2> QED BY <2>1, <2>2
<1> QED BY <1>0, <1>3, <1>4, <1>5 DEF LInv, StaticInv, switchVars

\* The first write of the learn callback.
LEMMA LearnSourceKeepsLInv ==
    ASSUME LInv, LanTypeOK', LearnSource, at' = at
    PROVE  LInv'
<1>0. LanTypeOK /\ callback = Free /\ callback[1] = "free"
  BY DEF LInv, LearnSource, Free
<1>1. PICK m \in Host : Head(digests) = <<m, at[m]>>
  BY <1>0, DigestQueue, SourceFacts DEF LearnSource, LInv, MemoryInv
<1>2. /\ srcTable' = srcTable \cup {<<m, at[m]>>}
      /\ digests' = Tail(digests) /\ callback' = <<"learn", <<m, at[m]>>>>
      /\ UNCHANGED <<dstTable, expired, failed>>
  BY <1>1 DEF LearnSource
<1>3. MemoryInv'
  <2>1. \A n \in 1 .. Len(digests') : digests'[n][2] = at[digests'[n][1]]
    BY <1>0, <1>2, DigestQueue DEF LInv, MemoryInv, LearnSource
  <2>2. \A g \in Host, p \in Port : <<g, p>> \in srcTable' => p = at[g]
    BY <1>2 DEF LInv, MemoryInv
  <2> QED BY <1>2, <2>1, <2>2 DEF MemoryInv
<1>4. ASSUME NEW g \in Host PROVE EntryInv(g)'
  <2>1. callback' # Free /\ callback'[1] = "learn" /\ callback'[2][1] = m
    BY <1>2 DEF Free
  <2>2. EntryInv(g) /\ ~Subject(g)
    BY <1>0 DEF LInv, Subject
  <2>3. CASE g = m
    BY <1>2, <2>1, <2>2, <2>3 DEF EntryInv, Subject
  <2>4. CASE g # m
    <3>1. <<g, at[g]>> \in srcTable' <=> <<g, at[g]>> \in srcTable
      BY <1>2, <2>4
    <3> QED BY <1>2, <2>1, <2>2, <2>4, <3>1 DEF EntryInv, Subject
  <2> QED BY <2>3, <2>4
<1> QED BY <1>2, <1>3, <1>4 DEF LInv, PlaceInv, StaticInv

\* The first write of the idle callback.
LEMMA ForgetSourceKeepsLInv ==
    ASSUME LInv, LanTypeOK', NEW entry \in srcTable, ForgetSource(entry), at' = at
    PROVE  LInv'
<1>0. LanTypeOK /\ callback = Free /\ callback[1] = "free"
  BY DEF LInv, ForgetSource, Free
<1>1. PICK m \in Host : entry = <<m, at[m]>>
  BY <1>0, SourceFacts DEF LanTypeOK, LInv, MemoryInv
<1>2. /\ srcTable' = srcTable \ {<<m, at[m]>>} /\ <<m, at[m]>> \in srcTable
      /\ callback' = <<"idle", <<m, at[m]>>>>
      /\ UNCHANGED <<dstTable, digests, failed>>
  BY <1>1 DEF ForgetSource
<1>3. MemoryInv'
  BY <1>2 DEF LInv, MemoryInv
<1>4. ASSUME NEW g \in Host PROVE EntryInv(g)'
  <2>1. callback' # Free /\ callback'[1] = "idle" /\ callback'[2][1] = m
    BY <1>2 DEF Free
  <2>2. EntryInv(g) /\ ~Subject(g)
    BY <1>0 DEF LInv, Subject
  <2>3. CASE g = m
    BY <1>2, <2>1, <2>2, <2>3 DEF EntryInv, Subject
  <2>4. CASE g # m
    <3>1. <<g, at[g]>> \in srcTable' <=> <<g, at[g]>> \in srcTable
      BY <1>2, <2>4
    <3> QED BY <1>2, <2>1, <2>2, <2>4, <3>1 DEF EntryInv, Subject
  <2> QED BY <2>3, <2>4
<1> QED BY <1>2, <1>3, <1>4 DEF LInv, PlaceInv, StaticInv

\* What a callback's second write does to the entries of the switching table.
LEMMA SecondWrite ==
    ASSUME LInv, callback # Free, UNCHANGED <<srcTable, digests, at>>, callback' = Free,
           NEW what, dstTable' = [dstTable EXCEPT ![callback[2][1]] = what],
           LET m == callback[2][1]
           IN  \/ callback[1] = "learn" /\ what = at[m]
               \/ callback[1] = "idle" /\ what = "flood"
    PROVE  MemoryInv' /\ StaticInv' /\ \A g \in Host : EntryInv(g)'
<1> DEFINE m == callback[2][1]
<1>0. LanTypeOK /\ m \in Host /\ m \in Mac /\ at[m] \in Port
  BY CallbackCases, SourceFacts DEF LInv, LanTypeOK, Mac
<1>1. \A a \in Mac : dstTable'[a] = IF a = m THEN what ELSE dstTable[a]
  BY <1>0 DEF LanTypeOK
<1>2. MemoryInv'
  BY DEF LInv, MemoryInv
<1>3. StaticInv'
  BY <1>0, <1>1, SwitchAssumption DEF LInv, StaticInv, Mac
<1>4. ASSUME NEW g \in Host PROVE EntryInv(g)'
  <2>1. EntryInv(g) /\ g \in Mac /\ ~Subject(g)' /\ at'[g] = at[g] /\ srcTable' = srcTable
    BY DEF LInv, Mac, Subject
  <2>2. CASE g = m
    <3>1. Subject(g) /\ dstTable'[g] = what
      BY <1>1, <2>1, <2>2 DEF Subject
    <3> QED BY <1>0, <2>1, <2>2, <3>1, PortNames DEF EntryInv
  <2>3. CASE g # m
    <3>1. ~Subject(g) /\ dstTable'[g] = dstTable[g]
      BY <1>1, <2>1, <2>3 DEF Subject
    <3> QED BY <2>1, <3>1 DEF EntryInv
  <2> QED BY <2>2, <2>3
<1> QED BY <1>2, <1>3, <1>4

\* The second write of the learn callback.
LEMMA LearnDestinationKeepsLInv ==
    ASSUME LInv, LanTypeOK', LearnDestination, at' = at
    PROVE  LInv'
<1>1. callback # Free /\ callback[2][2] = at[callback[2][1]]
  BY CallbackCases DEF LInv, LearnDestination, MemoryInv
<1>2. MemoryInv' /\ StaticInv' /\ \A g \in Host : EntryInv(g)'
  BY <1>1, SecondWrite DEF LearnDestination
<1> QED BY <1>2 DEF LearnDestination, LInv, PlaceInv

\* The second write of the idle callback; the entry exists.
LEMMA ForgetDestinationKeepsLInv ==
    ASSUME LInv, LanTypeOK', ForgetDestination, at' = at
    PROVE  LInv'
<1>1. callback # Free /\ callback[2][1] \in Host
  BY CallbackCases, SourceFacts DEF LInv, ForgetDestination
<1>2. MemoryInv' /\ StaticInv' /\ \A g \in Host : EntryInv(g)'
  BY <1>1, SecondWrite DEF ForgetDestination
<1>3. failed' = FALSE
  <2>1. dstTable[callback[2][1]] = at[callback[2][1]] /\ at[callback[2][1]] \in Port
    BY <1>1 DEF ForgetDestination, LInv, EntryInv, Subject, LanTypeOK
  <2> QED BY <2>1, PortNames DEF ForgetDestination
<1> QED BY <1>2, <1>3 DEF ForgetDestination, LInv, PlaceInv

\* Steps that touch neither the switch nor the cables.
LEMMA OthersKeepLInv ==
    ASSUME LInv, LanTypeOK', UNCHANGED <<switchVars, at>>
    PROVE  LInv'
BY DEF LInv, switchVars, PlaceInv, MemoryInv, StaticInv, EntryInv, Subject

\* LInv is an invariant if cables are moved only after a silence and no frame has
\* another source address than its sender's or the switch's.
THEOREM LanInvariance ==
    ASSUME ~QuickMoves, Strange \subseteq {OwnMac}
    PROVE  LanSpec => []LInv
<1>1. ASSUME LInv, LanTypeOK', [LanNext]_lanVars
      PROVE  LInv'
  <2> USE <1>1
  <2>1. ASSUME NEW h \in Host, NEW src \in {h} \cup Strange, Send(h, src)
        PROVE  LInv'
    BY <2>1, FrameKeepsLInv DEF Send, nodeVars
  <2>2. ASSUME NEW h \in Host, NEW dst \in {OwnMac, Bcast}, Ask(h, dst)
        PROVE  LInv'
    BY <2>2, FrameKeepsLInv DEF Ask
  <2>3. ASSUME NEW h \in Host, NEW port \in Port, Move(h, port)
        PROVE  LInv'
    BY <2>3, MoveKeepsLInv
  <2>4. ASSUME NEW h \in Host, Listen(h)
        PROVE  LInv'
    BY <2>4, OthersKeepLInv DEF Listen, nodeVars
  <2>5. ASSUME Switch
        PROVE  LInv'
    <3>1. at' = at
      BY <2>5 DEF Switch, nodeVars
    <3>2. CASE LearnSource
      BY <3>1, <3>2, LearnSourceKeepsLInv
    <3>3. CASE LearnDestination
      BY <3>1, <3>3, LearnDestinationKeepsLInv
    <3>4. CASE ForgetDestination
      BY <3>1, <3>4, ForgetDestinationKeepsLInv
    <3>5. ASSUME NEW entry \in srcTable, ForgetSource(entry)
          PROVE  LInv'
      BY <3>1, <3>5, ForgetSourceKeepsLInv
    <3>6. ASSUME NEW entry \in srcTable, Expire(entry)
          PROVE  LInv'
      BY <3>1, <3>6 DEF Expire, LInv, PlaceInv, MemoryInv, StaticInv, EntryInv, Subject
    <3> QED BY <2>5, <3>2, <3>3, <3>4, <3>5, <3>6 DEF Switch, Driver
  <2>6. ASSUME AnswerArp \/ AnswerEcho
        PROVE  LInv'
    BY <2>6, OthersKeepLInv DEF AnswerArp, AnswerEcho, Answer
  <2>7. ASSUME Announce
        PROVE  LInv'
    BY <2>7, OthersKeepLInv DEF Announce, nodeVars
  <2>8. ASSUME NEW beacon \in [on : Port, port : Port], Hear(beacon)
        PROVE  LInv'
    BY <2>8, OthersKeepLInv DEF Hear, nodeVars
  <2>9. CASE UNCHANGED lanVars
    BY <2>9, OthersKeepLInv DEF lanVars, nodeVars
  <2> QED BY <2>1, <2>2, <2>3, <2>4, <2>5, <2>6, <2>7, <2>8, <2>9 DEF LanNext
<1> QED BY <1>1, InitLInv, LanTypes, PTL DEF LanSpec

\* The two tables say the same of every node outside the callbacks.
THEOREM TablesStayConsistent ==
    ASSUME ~QuickMoves, Strange \subseteq {OwnMac}
    PROVE  LanSpec => []TablesAgree
<1>1. LInv => TablesAgree
  <2> SUFFICES ASSUME LInv, callback = Free, NEW h \in Host, NEW p \in Port
               PROVE  dstTable[h] = p <=> <<h, p>> \in srcTable
    BY DEF TablesAgree
  <2>1. EntryInv(h) /\ ~Subject(h)
    BY DEF LInv, Subject
  <2>2. CASE p = at[h]
    BY <2>1, <2>2 DEF EntryInv
  <2>3. CASE p # at[h]
    BY <2>1, <2>3, PortNames DEF EntryInv, LInv, MemoryInv
  <2> QED BY <2>2, <2>3
<1> QED BY <1>1, LanInvariance, PTL

\* The idle callback always finds the entry it deletes.
THEOREM DeletesAlwaysSucceed ==
    ASSUME ~QuickMoves, Strange \subseteq {OwnMac}
    PROVE  LanSpec => []DeletesSucceed
<1>1. LInv => DeletesSucceed
  BY DEF LInv, DeletesSucceed
<1> QED BY <1>1, LanInvariance, PTL

\* Every node is reachable from every other at any time.
THEOREM AllNodesReachable ==
    ASSUME ~QuickMoves, Strange \subseteq {OwnMac}
    PROVE  LanSpec => []NodesReachable
<1>1. LInv => NodesReachable
  <2> SUFFICES ASSUME LInv, NEW g \in Host, NEW h \in Host, g # h
               PROVE  at[h] \in OutPorts(h, at[g]) /\ at[g] \notin OutPorts(h, at[g])
    BY DEF NodesReachable
  <2>1. at[g] \in Port /\ at[h] \in Port /\ at[g] # at[h]
    BY DEF LInv, LanTypeOK, PlaceInv
  <2>2. CASE dstTable[h] = "flood"
    BY <2>1, <2>2 DEF OutPorts, FloodPorts
  <2>3. CASE dstTable[h] = at[h]
    BY <2>1, <2>3, PortNames DEF OutPorts
  <2> QED BY <2>2, <2>3 DEF LInv, EntryInv
<1> QED BY <1>1, LanInvariance, PTL

-----------------------------------------------------------------------------

\* The static entries stay: the callbacks write about learned addresses only.
LEMMA StaticStays ==
    ASSUME LanTypeOK, StaticInv, [LanNext]_lanVars
    PROVE  StaticInv'
<1>1. \/ UNCHANGED dstTable
      \/ LearnDestination
      \/ ForgetDestination
  BY DEF LanNext, lanVars, switchVars, Send, Ask, Move, Listen, Switch, Driver, Frame, Expire,
         LearnSource, ForgetSource, AnswerArp, AnswerEcho, Answer, Announce, Hear
<1>2. CASE UNCHANGED dstTable
  BY <1>2 DEF StaticInv
<1>3. CASE LearnDestination \/ ForgetDestination
  <2>1. callback[2][1] \in Sources
    BY <1>3, CallbackCases DEF LearnDestination, ForgetDestination
  <2>2. \A a \in Mac \ Sources : dstTable'[a] = dstTable[a]
    BY <1>3, <2>1 DEF LearnDestination, ForgetDestination, LanTypeOK
  <2>3. OwnMac \in Mac /\ Bcast \in Mac
    BY DEF Mac
  <2> QED BY <2>2, <2>3, SourceFacts DEF StaticInv
<1> QED BY <1>1, <1>2, <1>3

\* Whatever source addresses frames have, and however cables are moved, the
\* collectives module is reachable (the static entries of OwnMac), and broadcasts
\* are as long as no frame has the broadcast address as its source.
THEOREM ModuleStaysReachable == LanSpec => []ModuleReachable
<1>1. LanInit => StaticInv
  BY SwitchAssumption DEF LanInit, SwitchInit, StaticInv, Mac
<1>2. StaticInv => ModuleReachable
  BY DEF StaticInv, ModuleReachable, OutPorts
<1>3. LanSpec => []StaticInv
  BY <1>1, StaticStays, LanTypes, PTL DEF LanSpec
<1> QED BY <1>2, <1>3, PTL

-----------------------------------------------------------------------------

\* A node daemon adopts the port its node is connected to, and only once; also if
\* cables are moved at any time.
THEOREM PortsAreOwn == LanSpec => AdoptsOwnPort
<1> DEFINE BInv == LanTypeOK /\ BeaconInv
           Adopts == \A h \in Host :
                        switchPort'[h] # switchPort[h] /\ switchPort'[h] \in Port
                            => switchPort'[h] = at[h] /\ switchPort[h] \notin Port
<1>1. LanInit => BeaconInv
  BY DEF LanInit, BeaconInv
<1>2. ASSUME BInv, [LanNext]_lanVars
      PROVE  BeaconInv'
  <2>1. beacons' \subseteq beacons \/ Announce
    BY <1>2 DEF LanNext, lanVars, Send, Ask, Move, Listen, Switch, Answer, AnswerArp,
                AnswerEcho, Hear
  <2>2. CASE Announce
    BY <2>2 DEF Announce, BeaconPorts, BeaconInv
  <2>3. CASE beacons' \subseteq beacons
    BY <1>2, <2>3 DEF BeaconInv
  <2> QED BY <2>1, <2>2, <2>3
<1>3. ASSUME BInv, [LanNext]_lanVars
      PROVE  Adopts
  <2> SUFFICES ASSUME NEW h \in Host, switchPort'[h] # switchPort[h], switchPort'[h] \in Port
               PROVE  switchPort'[h] = at[h] /\ switchPort[h] \notin Port
    OBVIOUS
  <2>1. \/ UNCHANGED switchPort
        \/ \E g \in Host : Listen(g)
        \/ \E beacon \in [on : Port, port : Port] : Hear(beacon)
    BY <1>3 DEF LanNext, lanVars, Send, Ask, Move, Switch, Answer, AnswerArp, AnswerEcho,
                Announce
  <2>2. ASSUME NEW g \in Host, Listen(g)
        PROVE  FALSE
    BY <1>3, <2>2, PortNames DEF Listen, LanTypeOK
  <2>3. ASSUME NEW beacon \in [on : Port, port : Port], Hear(beacon)
        PROVE  switchPort'[h] = at[h] /\ switchPort[h] \notin Port
    <3>1. at[h] = beacon.on /\ TakesPort(h) /\ switchPort'[h] = beacon.port
      BY <2>3 DEF Hear
    <3>2. beacon.on = beacon.port
      BY <1>3, <2>3 DEF Hear, BeaconInv
    <3> QED BY <3>1, <3>2, PortNames DEF TakesPort
  <2> QED BY <2>1, <2>2, <2>3
<1>4. LanSpec => [][Adopts]_lanVars
  BY <1>1, <1>2, <1>3, LanTypes, PTL DEF LanSpec
<1> QED BY <1>4 DEF AdoptsOwnPort
=============================================================================
