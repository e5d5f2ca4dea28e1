-------------------------- MODULE OrderlyJobsProofs --------------------------
(***************************************************************************)
(* What orderly jobs can rely on, whose processes end only when they have  *)
(* returned from their last allreduce (Aborts = {}), for any clients,      *)
(* nodes, program and number of jobs.                                      *)
(*                                                                         *)
(* The argument: the request of a client is in one place at a time, from   *)
(* the inbox of its node daemon to the reply (RequestsInv); no client is   *)
(* answered before all the others have asked (StepInv, KnownInv); so that  *)
(* nobody registers twice with a channel whose tag is used once, and the   *)
(* numbers of its participants are different (OnceInv).  The tables of     *)
(* such a channel, which fit the repository (ReposInv), serve all of its   *)
(* participants as soon as one of them has its reply.                      *)
(***************************************************************************)
EXTENDS ControlPlaneProofs

-----------------------------------------------------------------------------
(* Orderly jobs: the request of a client is in one place at a time.         *)

\* A request is the one a process waits with.
Asks(p, tag, qp) ==
    p.state = "waiting" /\ tag = Program[p.got + 1] /\ qp = QpNum(p.run, p.got + 1)

\* No request of a client is among events or messages, no response to it among
\* responses.
Unsent(c, events) ==
    \A k \in 1 .. Len(events) : ~(events[k].kind = "get" /\ events[k].from.client = c)

Handled(c, msgs) ==
    \A k \in 1 .. Len(msgs) : ~(msgs[k].kind = "get" /\ msgs[k].client = c)

NoResponse(c, resps) == \A k \in 1 .. Len(resps) : resps[k].client # c

NotHeld(c, held) == \A t \in AllTags : NoResponse(c, held[t])

\* The node daemon expects a response for a client, on a connection that is open.
Sent(c, run, conns, tag) ==
    /\ \A i \in 1 .. Len(conns) : conns[i].client = c => conns[i].run = run
    /\ \E i \in 1 .. Len(conns) :
          conns[i].client = c /\ tag \in conns[i].tags /\ tag \in conns[i].pending

\* The agent has registered a client with the queue pair for its k-th channel.
Registered(c, run, k, fqp, conns, own, chs) ==
    /\ Sent(c, run, conns, Program[k])
    /\ Program[k] \in own
    /\ Program[k] \in Tags(chs)
    /\ chs[Program[k]].parts[c] = [node |-> NodeOf[c], qp |-> QpNum(run, k), fqp |-> fqp]

Granted(c, p, tag, fqp, conns, own, chs) ==
    /\ p.state = "waiting"
    /\ tag = Program[p.got + 1]
    /\ Registered(c, p.run, p.got + 1, fqp, conns, own, chs)

\* The request in the inbox, the last event of its client; at the agent; the
\* response held, and on its way back; and what has been obtained.
InInbox(c, p, events) ==
    \A k \in 1 .. Len(events) : events[k].kind = "get" /\ events[k].from.client = c =>
        /\ events[k].from.run = p.run
        /\ Asks(p, events[k].tag, events[k].qp)
        /\ \A j \in k + 1 .. Len(events) : events[j].from.client # c

AtSd(c, p, conns, events, msgs) ==
    \A k \in 1 .. Len(msgs) : msgs[k].kind = "get" /\ msgs[k].client = c =>
        /\ Asks(p, msgs[k].tag, msgs[k].qp)
        /\ Sent(c, p.run, conns, msgs[k].tag)
        /\ Unsent(c, events)
        /\ \A j \in 1 .. Len(msgs) : msgs[j].kind = "get" /\ msgs[j].client = c => j = k

Held(c, p, conns, own, chs, events, msgs, held) ==
    \A t \in AllTags : \A k \in 1 .. Len(held[t]) : held[t][k].client = c =>
        /\ held[t][k].node = NodeOf[c]
        /\ Granted(c, p, t, held[t][k].fqp, conns, own, chs)
        /\ Unsent(c, events) /\ Handled(c, msgs)
        /\ \A j \in 1 .. Len(held[t]) : held[t][j].client = c => j = k

FromSd(c, p, conns, own, chs, events, msgs, held, resps) ==
    \A k \in 1 .. Len(resps) : resps[k].client = c =>
        /\ Granted(c, p, resps[k].tag, resps[k].fqp, conns, own, chs)
        /\ Unsent(c, events) /\ Handled(c, msgs) /\ NotHeld(c, held)
        /\ \A j \in 1 .. Len(resps) : resps[j].client = c => j = k

Replied(c, p, conns, own, chs, events, msgs, held, resps, replies) ==
    replies # <<>> =>
        /\ Len(replies) = 1
        /\ Granted(c, p, Program[p.got + 1], replies[1], conns, own, chs)
        /\ Unsent(c, events) /\ Handled(c, msgs) /\ NotHeld(c, held) /\ NoResponse(c, resps)

Obtained(c, p, conns, own, chs) ==
    p.state = "ready" /\ p.got # 0 => Registered(c, p.run, p.got, p.fqp, conns, own, chs)

RequestOk(c) ==
    LET n == NodeOf[c]
    IN  /\ InInbox(c, proc[c], inbox[n])
        /\ AtSd(c, proc[c], nd[n].conns, inbox[n], toSd[n])
        /\ Held(c, proc[c], nd[n].conns, owns[n], channels, inbox[n], toSd[n], pending)
        /\ FromSd(c, proc[c], nd[n].conns, owns[n], channels, inbox[n], toSd[n], pending,
                  fromSd[n])
        /\ Replied(c, proc[c], nd[n].conns, owns[n], channels, inbox[n], toSd[n], pending,
                   fromSd[n], toClient[c])
        /\ Obtained(c, proc[c], nd[n].conns, owns[n], channels)

RequestsInv ==
    /\ \A n \in Nodes : nd[n].up
    /\ \A n \in Nodes : \A k \in 1 .. Len(fromSd[n]) : NodeOf[fromSd[n][k].client] = n
    /\ \A c \in Clients : RequestOk(c)


\* How a queue may change for a client that has nothing to do with it: its first
\* element is taken, or others are added.
EventsStep(c, s, s2) ==
    \/ Len(s2) = Len(s) - 1 /\ \A k \in 1 .. Len(s2) : s2[k] = s[k + 1]
    \/ /\ Len(s2) >= Len(s)
       /\ \A k \in 1 .. Len(s) : s2[k] = s[k]
       /\ \A k \in Len(s) + 1 .. Len(s2) : s2[k].from.client # c

MsgsStep(c, s, s2) ==
    \/ Len(s2) = Len(s) - 1 /\ \A k \in 1 .. Len(s2) : s2[k] = s[k + 1]
    \/ /\ Len(s2) >= Len(s)
       /\ \A k \in 1 .. Len(s) : s2[k] = s[k]
       /\ \A k \in Len(s) + 1 .. Len(s2) : ~(s2[k].kind = "get" /\ s2[k].client = c)

RespsStep(c, s, s2) ==
    \/ Len(s2) = Len(s) - 1 /\ \A k \in 1 .. Len(s2) : s2[k] = s[k + 1]
    \/ /\ Len(s2) >= Len(s)
       /\ \A k \in 1 .. Len(s) : s2[k] = s[k]
       /\ \A k \in Len(s) + 1 .. Len(s2) : s2[k].client # c
    \/ Len(s2) = 0

LEMMA EventsOfOthers ==
    ASSUME NEW c, NEW p, NEW s \in Seq(Events), NEW s2 \in Seq(Events), EventsStep(c, s, s2)
    PROVE  /\ Unsent(c, s) => Unsent(c, s2)
           /\ InInbox(c, p, s) => InInbox(c, p, s2)
<1>0. Len(s) \in Nat /\ Len(s2) \in Nat
  OBVIOUS
<1>1. CASE Len(s2) = Len(s) - 1 /\ \A k \in 1 .. Len(s2) : s2[k] = s[k + 1]
  <2>1. \A k \in 1 .. Len(s2) : k + 1 \in 1 .. Len(s) /\ s2[k] = s[k + 1]
    BY <1>0, <1>1
  <2>2. Unsent(c, s) => Unsent(c, s2)
    BY <2>1 DEF Unsent
  <2>3. ASSUME InInbox(c, p, s), NEW k \in 1 .. Len(s2), s2[k].kind = "get", s2[k].from.client = c
        PROVE  /\ s2[k].from.run = p.run
               /\ Asks(p, s2[k].tag, s2[k].qp)
               /\ \A j \in k + 1 .. Len(s2) : s2[j].from.client # c
    <3>1. s[k + 1].kind = "get" /\ s[k + 1].from.client = c /\ k + 1 \in 1 .. Len(s)
      BY <2>1, <2>3
    <3>2. /\ s[k + 1].from.run = p.run
          /\ Asks(p, s[k + 1].tag, s[k + 1].qp)
          /\ \A j \in k + 2 .. Len(s) : s[j].from.client # c
      BY <2>3, <3>1 DEF InInbox
    <3>3. \A j \in k + 1 .. Len(s2) : j + 1 \in k + 2 .. Len(s) /\ s2[j] = s[j + 1]
      BY <1>0, <1>1
    <3> QED BY <2>1, <3>2, <3>3
  <2> QED BY <2>2, <2>3 DEF InInbox
<1>2. CASE /\ Len(s2) >= Len(s)
           /\ \A k \in 1 .. Len(s) : s2[k] = s[k]
           /\ \A k \in Len(s) + 1 .. Len(s2) : s2[k].from.client # c
  <2>1. \A k \in 1 .. Len(s2) : s2[k].from.client = c => k \in 1 .. Len(s) /\ s2[k] = s[k]
    BY <1>0, <1>2
  <2>2. Unsent(c, s) => Unsent(c, s2)
    BY <2>1 DEF Unsent
  <2>3. ASSUME InInbox(c, p, s), NEW k \in 1 .. Len(s2), s2[k].kind = "get", s2[k].from.client = c
        PROVE  /\ s2[k].from.run = p.run
               /\ Asks(p, s2[k].tag, s2[k].qp)
               /\ \A j \in k + 1 .. Len(s2) : s2[j].from.client # c
    <3>1. s[k].kind = "get" /\ s[k].from.client = c /\ k \in 1 .. Len(s) /\ s2[k] = s[k]
      BY <2>1, <2>3
    <3>2. /\ s[k].from.run = p.run
          /\ Asks(p, s[k].tag, s[k].qp)
          /\ \A j \in k + 1 .. Len(s) : s[j].from.client # c
      BY <2>3, <3>1 DEF InInbox
    <3>3. ASSUME NEW j \in k + 1 .. Len(s2), s2[j].from.client = c
          PROVE  FALSE
      <4>1. j \in 1 .. Len(s2)
        BY <1>0
      <4>2. j \in k + 1 .. Len(s) /\ s2[j] = s[j]
        BY <1>0, <2>1, <3>3, <4>1
      <4> QED BY <3>2, <3>3, <4>2
    <3> QED BY <3>1, <3>2, <3>3
  <2> QED BY <2>2, <2>3 DEF InInbox
<1> QED BY <1>1, <1>2 DEF EventsStep

LEMMA MsgsOfOthers ==
    ASSUME NEW c, NEW s \in Seq(Messages), NEW s2 \in Seq(Messages), MsgsStep(c, s, s2)
    PROVE  /\ Handled(c, s) => Handled(c, s2)
           /\ \A k, l \in 1 .. Len(s2) :
                 /\ s2[k].kind = "get" /\ s2[k].client = c
                 /\ s2[l].kind = "get" /\ s2[l].client = c
                 => \E i, j \in 1 .. Len(s) : s2[k] = s[i] /\ s2[l] = s[j] /\ (i = j => k = l)
<1>0. Len(s) \in Nat /\ Len(s2) \in Nat
  OBVIOUS
<1>1. CASE Len(s2) = Len(s) - 1 /\ \A k \in 1 .. Len(s2) : s2[k] = s[k + 1]
  <2>1. \A k \in 1 .. Len(s2) : k + 1 \in 1 .. Len(s) /\ s2[k] = s[k + 1]
    BY <1>0, <1>1
  <2>2. \A k, l \in 1 .. Len(s2) : k + 1 = l + 1 => k = l
    BY <1>0
  <2> QED BY <2>1, <2>2 DEF Handled
<1>2. CASE /\ Len(s2) >= Len(s)
           /\ \A k \in 1 .. Len(s) : s2[k] = s[k]
           /\ \A k \in Len(s) + 1 .. Len(s2) : ~(s2[k].kind = "get" /\ s2[k].client = c)
  <2>1. \A k \in 1 .. Len(s2) : s2[k].kind = "get" /\ s2[k].client = c =>
            k \in 1 .. Len(s) /\ s2[k] = s[k]
    BY <1>0, <1>2
  <2> QED BY <2>1 DEF Handled
<1> QED BY <1>1, <1>2 DEF MsgsStep

LEMMA RespsOfOthers ==
    ASSUME NEW c, NEW s, NEW s2, Len(s) \in Nat, Len(s2) \in Nat, RespsStep(c, s, s2)
    PROVE  /\ NoResponse(c, s) => NoResponse(c, s2)
           /\ \A k, l \in 1 .. Len(s2) : s2[k].client = c /\ s2[l].client = c =>
                 \E i, j \in 1 .. Len(s) : s2[k] = s[i] /\ s2[l] = s[j] /\ (i = j => k = l)
<1>1. CASE Len(s2) = Len(s) - 1 /\ \A k \in 1 .. Len(s2) : s2[k] = s[k + 1]
  <2>1. \A k \in 1 .. Len(s2) : k + 1 \in 1 .. Len(s) /\ s2[k] = s[k + 1]
    BY <1>1
  <2>2. \A k, l \in 1 .. Len(s2) : k + 1 = l + 1 => k = l
    OBVIOUS
  <2> QED BY <2>1, <2>2 DEF NoResponse
<1>2. CASE /\ Len(s2) >= Len(s)
           /\ \A k \in 1 .. Len(s) : s2[k] = s[k]
           /\ \A k \in Len(s) + 1 .. Len(s2) : s2[k].client # c
  <2>1. \A k \in 1 .. Len(s2) : s2[k].client = c => k \in 1 .. Len(s) /\ s2[k] = s[k]
    BY <1>2
  <2> QED BY <2>1 DEF NoResponse
<1>3. CASE Len(s2) = 0
  BY <1>3 DEF NoResponse
<1> QED BY <1>1, <1>2, <1>3 DEF RespsStep

\* What a client has, it keeps, and it gets nothing, when a step does not concern it.
LEMMA RequestUnaffected ==
    ASSUME TypesInv, TypesInv', NEW c \in Clients, RequestOk(c),
           proc'[c] = proc[c], toClient'[c] = toClient[c],
           EventsStep(c, inbox[NodeOf[c]], inbox'[NodeOf[c]]),
           MsgsStep(c, toSd[NodeOf[c]], toSd'[NodeOf[c]]),
           \A t \in AllTags : RespsStep(c, pending[t], pending'[t]),
           RespsStep(c, fromSd[NodeOf[c]], fromSd'[NodeOf[c]]),
           proc[c].state # "down" =>
              /\ \A t : Sent(c, proc[c].run, nd[NodeOf[c]].conns, t)
                           => Sent(c, proc[c].run, nd'[NodeOf[c]].conns, t)
              /\ \A k, fqp :
                    /\ Handled(c, toSd[NodeOf[c]])
                    /\ Registered(c, proc[c].run, k, fqp, nd[NodeOf[c]].conns,
                                  owns[NodeOf[c]], channels)
                    => Registered(c, proc[c].run, k, fqp, nd'[NodeOf[c]].conns,
                                  owns'[NodeOf[c]], channels')
    PROVE  RequestOk(c)'
<1> DEFINE n == NodeOf[c]
           p == proc[c]
           conns == nd[n].conns
           conns2 == nd'[n].conns
           ev == inbox[n]
           ev2 == inbox'[n]
           ms == toSd[n]
           ms2 == toSd'[n]
           rs == fromSd[n]
           rs2 == fromSd'[n]
<1>1. n \in Nodes
  BY ConstantTypes
<1>2. /\ ev \in Seq(Events) /\ ev2 \in Seq(Events)
      /\ ms \in Seq(Messages) /\ ms2 \in Seq(Messages)
      /\ rs \in Seq(Responses({n}, AllTags)) /\ rs2 \in Seq(Responses({n}, AllTags))
      /\ \A t \in AllTags : /\ pending[t] \in Seq(Responses(Nodes, {t}))
                            /\ pending'[t] \in Seq(Responses(Nodes, {t}))
  BY <1>1 DEF TypesInv, NdTypes, SdTypes
<1>3. /\ Unsent(c, ev) => Unsent(c, ev2)
      /\ InInbox(c, p, ev) => InInbox(c, p, ev2)
  BY <1>2, EventsOfOthers
<1>4. /\ Handled(c, ms) => Handled(c, ms2)
      /\ \A k, l \in 1 .. Len(ms2) :
            /\ ms2[k].kind = "get" /\ ms2[k].client = c
            /\ ms2[l].kind = "get" /\ ms2[l].client = c
            => \E i, j \in 1 .. Len(ms) : ms2[k] = ms[i] /\ ms2[l] = ms[j] /\ (i = j => k = l)
  <2>1. ms \in Seq(Messages) /\ ms2 \in Seq(Messages) /\ MsgsStep(c, ms, ms2)
    BY <1>2
  <2> HIDE DEF ms, ms2
  <2> QED BY <2>1, MsgsOfOthers
<1>5. /\ NoResponse(c, rs) => NoResponse(c, rs2)
      /\ \A k, l \in 1 .. Len(rs2) : rs2[k].client = c /\ rs2[l].client = c =>
            \E i, j \in 1 .. Len(rs) : rs2[k] = rs[i] /\ rs2[l] = rs[j] /\ (i = j => k = l)
  <2> DEFINE R == Responses({n}, AllTags)
  <2>1. rs \in Seq(R) /\ rs2 \in Seq(R) /\ RespsStep(c, rs, rs2)
    BY <1>2
  <2> HIDE DEF R, rs, rs2
  <2>2. Len(rs) \in Nat /\ Len(rs2) \in Nat
    BY <2>1
  <2> QED BY <2>1, <2>2, RespsOfOthers
<1>6. ASSUME NEW t \in AllTags
      PROVE  /\ NoResponse(c, pending[t]) => NoResponse(c, pending'[t])
             /\ \A k, l \in 1 .. Len(pending'[t]) :
                   pending'[t][k].client = c /\ pending'[t][l].client = c =>
                      \E i, j \in 1 .. Len(pending[t]) :
                         /\ pending'[t][k] = pending[t][i] /\ pending'[t][l] = pending[t][j]
                         /\ (i = j => k = l)
  <2> DEFINE s == pending[t]
             s2 == pending'[t]
  <2>1. s \in Seq(Responses(Nodes, {t})) /\ s2 \in Seq(Responses(Nodes, {t})) /\ RespsStep(c, s, s2)
    BY <1>2
  <2>a. Len(s) \in Nat /\ Len(s2) \in Nat
    BY <2>1
  <2> HIDE DEF s, s2
  <2>2. /\ NoResponse(c, s) => NoResponse(c, s2)
        /\ \A k, l \in 1 .. Len(s2) : s2[k].client = c /\ s2[l].client = c =>
              \E i, j \in 1 .. Len(s) : s2[k] = s[i] /\ s2[l] = s[j] /\ (i = j => k = l)
    BY <2>1, <2>a, RespsOfOthers
  <2> QED BY <2>2 DEF s, s2
<1>7. NotHeld(c, pending) => NotHeld(c, pending')
  BY <1>6 DEF NotHeld
<1>8. /\ InInbox(c, p, ev)
      /\ AtSd(c, p, conns, ev, ms)
      /\ Held(c, p, conns, owns[n], channels, ev, ms, pending)
      /\ FromSd(c, p, conns, owns[n], channels, ev, ms, pending, rs)
      /\ Replied(c, p, conns, owns[n], channels, ev, ms, pending, rs, toClient[c])
      /\ Obtained(c, p, conns, owns[n], channels)
  BY DEF RequestOk
<1>9. /\ p.state # "down" => \A t : Sent(c, p.run, conns, t) => Sent(c, p.run, conns2, t)
      /\ p.state # "down" => \A k, fqp :
            Handled(c, ms) /\ Registered(c, p.run, k, fqp, conns, owns[n], channels)
               => Registered(c, p.run, k, fqp, conns2, owns'[n], channels')
  OBVIOUS
<1>10. proc'[c] = p /\ toClient'[c] = toClient[c]
  OBVIOUS
<1> HIDE DEF n, p, conns, conns2, ev, ev2, ms, ms2, rs, rs2
<1>11. \A tag, fqp : Handled(c, ms) /\ Granted(c, p, tag, fqp, conns, owns[n], channels)
                        => Granted(c, p, tag, fqp, conns2, owns'[n], channels')
  BY <1>9 DEF Granted
<1>12. AtSd(c, p, conns2, ev2, ms2)
  <2> SUFFICES ASSUME NEW k \in 1 .. Len(ms2), ms2[k].kind = "get", ms2[k].client = c
               PROVE  /\ Asks(p, ms2[k].tag, ms2[k].qp)
                      /\ Sent(c, p.run, conns2, ms2[k].tag)
                      /\ Unsent(c, ev2)
                      /\ \A j \in 1 .. Len(ms2) :
                            ms2[j].kind = "get" /\ ms2[j].client = c => j = k
    BY DEF AtSd
  <2>1. PICK i \in 1 .. Len(ms) : ms2[k] = ms[i]
    BY <1>4
  <2>2. /\ Asks(p, ms[i].tag, ms[i].qp)
        /\ Sent(c, p.run, conns, ms[i].tag)
        /\ Unsent(c, ev)
        /\ \A j \in 1 .. Len(ms) : ms[j].kind = "get" /\ ms[j].client = c => j = i
    BY <1>8, <2>1 DEF AtSd
  <2>3. p.state # "down"
    BY <2>2 DEF Asks
  <2>4. ASSUME NEW j \in 1 .. Len(ms2), ms2[j].kind = "get", ms2[j].client = c
        PROVE  j = k
    <3>1. PICK x, y \in 1 .. Len(ms) : ms2[k] = ms[x] /\ ms2[j] = ms[y] /\ (x = y => k = j)
      BY <1>4, <2>4
    <3>2. x = i /\ y = i
      BY <2>2, <2>4, <3>1
    <3> QED BY <3>1, <3>2
  <2> QED BY <1>3, <1>9, <2>1, <2>2, <2>3, <2>4
<1>13. Held(c, p, conns2, owns'[n], channels', ev2, ms2, pending')
  <2> SUFFICES ASSUME NEW t \in AllTags, NEW k \in 1 .. Len(pending'[t]),
                      pending'[t][k].client = c
               PROVE  /\ pending'[t][k].node = NodeOf[c]
                      /\ Granted(c, p, t, pending'[t][k].fqp, conns2, owns'[n], channels')
                      /\ Unsent(c, ev2) /\ Handled(c, ms2)
                      /\ \A j \in 1 .. Len(pending'[t]) : pending'[t][j].client = c => j = k
    BY DEF Held
  <2>1. PICK i \in 1 .. Len(pending[t]) : pending'[t][k] = pending[t][i]
    BY <1>6
  <2>2. /\ pending[t][i].node = NodeOf[c]
        /\ Granted(c, p, t, pending[t][i].fqp, conns, owns[n], channels)
        /\ Unsent(c, ev) /\ Handled(c, ms)
        /\ \A j \in 1 .. Len(pending[t]) : pending[t][j].client = c => j = i
    BY <1>8, <2>1 DEF Held
  <2>3. ASSUME NEW j \in 1 .. Len(pending'[t]), pending'[t][j].client = c
        PROVE  j = k
    <3>1. PICK x, y \in 1 .. Len(pending[t]) :
             pending'[t][k] = pending[t][x] /\ pending'[t][j] = pending[t][y] /\ (x = y => k = j)
      <4> DEFINE q == pending[t]
                 r == pending'[t]
      <4>1. k \in 1 .. Len(r) /\ j \in 1 .. Len(r) /\ r[k].client = c /\ r[j].client = c
        BY <2>3
      <4>2. \A a, b \in 1 .. Len(r) : r[a].client = c /\ r[b].client = c =>
               \E x, y \in 1 .. Len(q) : r[a] = q[x] /\ r[b] = q[y] /\ (x = y => a = b)
        BY <1>6
      <4> HIDE DEF q, r
      <4>3. \E x, y \in 1 .. Len(q) : r[k] = q[x] /\ r[j] = q[y] /\ (x = y => k = j)
        BY <4>1, <4>2
      <4> QED BY <4>3 DEF q, r
    <3>2. x = i /\ y = i
      BY <2>2, <2>3, <3>1
    <3> QED BY <3>1, <3>2
  <2> QED BY <1>3, <1>4, <1>11, <2>1, <2>2, <2>3
<1>14. FromSd(c, p, conns2, owns'[n], channels', ev2, ms2, pending', rs2)
  <2> SUFFICES ASSUME NEW k \in 1 .. Len(rs2), rs2[k].client = c
               PROVE  /\ Granted(c, p, rs2[k].tag, rs2[k].fqp, conns2, owns'[n], channels')
                      /\ Unsent(c, ev2) /\ Handled(c, ms2) /\ NotHeld(c, pending')
                      /\ \A j \in 1 .. Len(rs2) : rs2[j].client = c => j = k
    BY DEF FromSd
  <2>1. PICK i \in 1 .. Len(rs) : rs2[k] = rs[i]
    BY <1>5
  <2>2. /\ Granted(c, p, rs[i].tag, rs[i].fqp, conns, owns[n], channels)
        /\ Unsent(c, ev) /\ Handled(c, ms) /\ NotHeld(c, pending)
        /\ \A j \in 1 .. Len(rs) : rs[j].client = c => j = i
    BY <1>8, <2>1 DEF FromSd
  <2>3. ASSUME NEW j \in 1 .. Len(rs2), rs2[j].client = c
        PROVE  j = k
    <3>1. PICK x, y \in 1 .. Len(rs) : rs2[k] = rs[x] /\ rs2[j] = rs[y] /\ (x = y => k = j)
      BY <1>5, <2>3
    <3>2. x = i /\ y = i
      BY <2>2, <2>3, <3>1
    <3> QED BY <3>1, <3>2
  <2> QED BY <1>3, <1>4, <1>7, <1>11, <2>1, <2>2, <2>3
<1>15. Replied(c, p, conns2, owns'[n], channels', ev2, ms2, pending', rs2, toClient[c])
  BY <1>3, <1>4, <1>5, <1>7, <1>8, <1>11 DEF Replied
<1>16. Obtained(c, p, conns2, owns'[n], channels')
  <2>1. p.state = "ready" => Handled(c, ms)
    BY <1>8 DEF AtSd, Handled, Asks
  <2> QED BY <1>8, <1>9, <2>1 DEF Obtained
<1>17. InInbox(c, p, ev2)
  BY <1>3, <1>8
<1> QED
  BY <1>10, <1>12, <1>13, <1>14, <1>15, <1>16, <1>17
     DEF RequestOk, n, p, conns2, ev2, ms2, rs2

LEMMA QueueUnchanged ==
    ASSUME NEW S, NEW c, NEW s \in Seq(S)
    PROVE  EventsStep(c, s, s) /\ MsgsStep(c, s, s) /\ RespsStep(c, s, s)
<1>1. Len(s) \in Nat
  OBVIOUS
<1> QED BY <1>1 DEF EventsStep, MsgsStep, RespsStep

LEMMA EventAdded ==
    ASSUME NEW c, NEW s \in Seq(Events), NEW e \in Events, e.from.client # c
    PROVE  EventsStep(c, s, Append(s, e))
<1>1. /\ Len(s) \in Nat /\ Len(Append(s, e)) = Len(s) + 1 /\ Append(s, e)[Len(s) + 1] = e
      /\ \A k \in 1 .. Len(s) : Append(s, e)[k] = s[k]
  OBVIOUS
<1> QED BY <1>1 DEF EventsStep

\* A step of clients or node daemons: the agent's state stays.
LEMMA RequestUndisturbed ==
    ASSUME TypesInv, TypesInv', NEW c \in Clients, RequestOk(c),
           proc'[c] = proc[c], toClient'[c] = toClient[c],
           EventsStep(c, inbox[NodeOf[c]], inbox'[NodeOf[c]]),
           MsgsStep(c, toSd[NodeOf[c]], toSd'[NodeOf[c]]),
           RespsStep(c, fromSd[NodeOf[c]], fromSd'[NodeOf[c]]),
           owns' = owns, channels' = channels, pending' = pending,
           proc[c].state # "down" =>
              \A t : Sent(c, proc[c].run, nd[NodeOf[c]].conns, t)
                        => Sent(c, proc[c].run, nd'[NodeOf[c]].conns, t)
    PROVE  RequestOk(c)'
<1>1. \A t \in AllTags : RespsStep(c, pending[t], pending'[t])
  BY QueueUnchanged DEF TypesInv, SdTypes
<1>2. proc[c].state # "down" =>
         \A k, fqp :
            Registered(c, proc[c].run, k, fqp, nd[NodeOf[c]].conns, owns[NodeOf[c]], channels)
            => Registered(c, proc[c].run, k, fqp, nd'[NodeOf[c]].conns, owns'[NodeOf[c]],
                          channels')
  BY DEF Registered
<1> QED BY <1>1, <1>2, RequestUnaffected

\* Nothing is under way for a client that does not wait.
LEMMA NothingUnderWay ==
    ASSUME TypesInv, NEW c \in Clients, RequestOk(c), proc[c].state # "waiting"
    PROVE  /\ Unsent(c, inbox[NodeOf[c]]) /\ Handled(c, toSd[NodeOf[c]])
           /\ NotHeld(c, pending) /\ NoResponse(c, fromSd[NodeOf[c]])
           /\ toClient[c] = <<>>
<1> DEFINE n == NodeOf[c]
<1>1. Unsent(c, inbox[n])
  BY DEF RequestOk, InInbox, Asks, Unsent
<1>2. Handled(c, toSd[n])
  BY DEF RequestOk, AtSd, Asks, Handled
<1>3. NotHeld(c, pending)
  BY DEF RequestOk, Held, Granted, NotHeld, NoResponse
<1>4. NoResponse(c, fromSd[n])
  BY DEF RequestOk, FromSd, Granted, NoResponse
<1>5. toClient[c] = <<>>
  BY DEF RequestOk, Replied, Granted
<1> QED BY <1>1, <1>2, <1>3, <1>4, <1>5

LEMMA NothingStarted ==
    ASSUME NEW c,
           Unsent(c, inbox'[NodeOf[c]]), Handled(c, toSd'[NodeOf[c]]), NotHeld(c, pending'),
           NoResponse(c, fromSd'[NodeOf[c]]), toClient'[c] = <<>>,
           Obtained(c, proc'[c], nd'[NodeOf[c]].conns, owns'[NodeOf[c]], channels')
    PROVE  RequestOk(c)'
<1> DEFINE n == NodeOf[c]
<1>1. InInbox(c, proc'[c], inbox'[n])
  BY DEF InInbox, Unsent
<1>2. AtSd(c, proc'[c], nd'[n].conns, inbox'[n], toSd'[n])
  BY DEF AtSd, Handled
<1>3. Held(c, proc'[c], nd'[n].conns, owns'[n], channels', inbox'[n], toSd'[n], pending')
  BY DEF Held, NotHeld, NoResponse
<1>4. FromSd(c, proc'[c], nd'[n].conns, owns'[n], channels', inbox'[n], toSd'[n], pending',
             fromSd'[n])
  BY DEF FromSd, NoResponse
<1>5. Replied(c, proc'[c], nd'[n].conns, owns'[n], channels', inbox'[n], toSd'[n], pending',
              fromSd'[n], toClient'[c])
  BY DEF Replied
<1> QED BY <1>1, <1>2, <1>3, <1>4, <1>5 DEF RequestOk

LEMMA RequestsStart ==
    ASSUME TypesInv, TypesInv', RequestsInv, NEW d \in Clients, Start(d), NEW c \in Clients
    PROVE  RequestOk(c)'
<1> DEFINE n == NodeOf[c]
           new == [client |-> d, run |-> proc[d].run + 1, tags |-> {}, pending |-> {}]
<1>1. RequestOk(c) /\ n \in Nodes /\ d \in DOMAIN proc /\ d \in DOMAIN toClient
  BY ConstantTypes DEF RequestsInv, TypesInv, ClientTypes
<1>2. /\ proc[d].state = "down"
      /\ inbox' = inbox /\ toSd' = toSd /\ fromSd' = fromSd
      /\ owns' = owns /\ channels' = channels /\ pending' = pending
  BY DEF Start, sdVars
<1>3. CASE c = d
  <2>1. proc'[c].state = "ready" /\ proc'[c].got = 0 /\ toClient'[c] = <<>>
    BY <1>1, <1>3 DEF Start
  <2>2. Obtained(c, proc'[c], nd'[n].conns, owns'[n], channels')
    BY <2>1 DEF Obtained
  <2>3. /\ Unsent(c, inbox[n]) /\ Handled(c, toSd[n])
        /\ NotHeld(c, pending) /\ NoResponse(c, fromSd[n])
    BY <1>1, <1>2, <1>3, NothingUnderWay
  <2> QED BY <1>2, <2>1, <2>2, <2>3, NothingStarted
<1>4. CASE c # d
  <2>1. proc'[c] = proc[c] /\ toClient'[c] = toClient[c]
    BY <1>1, <1>4 DEF Start, TypesInv, ClientTypes
  <2>2. nd[n].conns \in Seq(Conns) /\ nd[NodeOf[d]].conns \in Seq(Conns)
    BY <1>1, ConstantTypes DEF TypesInv, NdTypes, Daemons
  <2>3. nd'[n].conns = nd[n].conns \/ nd'[n].conns = Append(nd[n].conns, new)
    <3>1. nd' = [nd EXCEPT ![NodeOf[d]].conns = Append(@, new)]
      BY DEF Start
    <3>2. nd \in [Nodes -> Daemons] /\ nd[n] \in Daemons
      BY <1>1 DEF TypesInv, NdTypes
    <3> QED BY <1>1, <3>1, <3>2 DEF Daemons
  <2>4. new.client # c
    BY <1>4
  <2> HIDE DEF new
  <2>5. ASSUME NEW t, Sent(c, proc[c].run, nd[n].conns, t),
               nd'[n].conns = Append(nd[n].conns, new)
        PROVE  Sent(c, proc[c].run, nd'[n].conns, t)
    <3> DEFINE s == nd[n].conns
    <3>1. /\ Len(s) \in Nat /\ Len(Append(s, new)) = Len(s) + 1
          /\ Append(s, new)[Len(s) + 1] = new /\ \A k \in 1 .. Len(s) : Append(s, new)[k] = s[k]
      BY <2>2
    <3>2. Sent(c, proc[c].run, s, t)
      BY <2>5
    <3> HIDE DEF s
    <3>3. Sent(c, proc[c].run, Append(s, new), t)
      BY <2>4, <3>1, <3>2 DEF Sent
    <3> QED BY <2>5, <3>3 DEF s
  <2>6. \A t : Sent(c, proc[c].run, nd[n].conns, t) => Sent(c, proc[c].run, nd'[n].conns, t)
    BY <2>3, <2>5
  <2>7. /\ EventsStep(c, inbox[n], inbox'[n]) /\ MsgsStep(c, toSd[n], toSd'[n])
        /\ RespsStep(c, fromSd[n], fromSd'[n])
    BY <1>1, <1>2, QueueUnchanged DEF TypesInv, NdTypes, SdTypes
  <2> QED BY <1>1, <1>2, <2>1, <2>6, <2>7, RequestUndisturbed
<1> QED BY <1>3, <1>4

\* A process does something of its own: the other clients are not concerned.
LEMMA RequestOfAnother ==
    ASSUME TypesInv, TypesInv', NEW c \in Clients, NEW d \in Clients, c # d, RequestOk(c),
           NEW p, proc' = [proc EXCEPT ![d] = p],
           toClient'[c] = toClient[c],
           \/ inbox' = inbox
           \/ \E e \in Events :
                 e.from.client = d /\ inbox' = [inbox EXCEPT ![NodeOf[d]] = Append(@, e)],
           nd' = nd, toSd' = toSd, fromSd' = fromSd, owns' = owns, channels' = channels,
           pending' = pending
    PROVE  RequestOk(c)'
<1> DEFINE n == NodeOf[c]
<1>1. n \in Nodes /\ NodeOf[d] \in Nodes /\ DOMAIN inbox = Nodes /\ inbox[n] \in Seq(Events)
  BY ConstantTypes DEF TypesInv, NdTypes
<1>2. EventsStep(c, inbox[n], inbox'[n])
  <2>1. CASE inbox' = inbox
    BY <1>1, <2>1, QueueUnchanged
  <2>2. CASE inbox' # inbox
    <3>1. PICK e \in Events :
             e.from.client = d /\ inbox' = [inbox EXCEPT ![NodeOf[d]] = Append(@, e)]
      BY <2>2
    <3>2. inbox'[n] = inbox[n] \/ inbox'[n] = Append(inbox[n], e)
      BY <1>1, <3>1
    <3>3. EventsStep(c, inbox[n], inbox[n]) /\ EventsStep(c, inbox[n], Append(inbox[n], e))
      BY <1>1, <3>1, QueueUnchanged, EventAdded
    <3> QED BY <3>2, <3>3
  <2> QED BY <2>1, <2>2
<1>3. proc'[c] = proc[c]
  BY DEF TypesInv, ClientTypes
<1>4. MsgsStep(c, toSd[n], toSd'[n]) /\ RespsStep(c, fromSd[n], fromSd'[n])
  BY <1>1, QueueUnchanged DEF TypesInv, NdTypes, SdTypes
<1>5. \A t : Sent(c, proc[c].run, nd[n].conns, t) => Sent(c, proc[c].run, nd'[n].conns, t)
  OBVIOUS
<1> QED BY <1>2, <1>3, <1>4, <1>5, RequestUndisturbed

LEMMA RequestsGetChannel ==
    ASSUME TypesInv, TypesInv', RequestsInv, NEW d \in Clients, GetChannel(d),
           NEW c \in Clients
    PROVE  RequestOk(c)'
<1> DEFINE n == NodeOf[d]
           k == proc[d].got + 1
           e == [kind |-> "get", from |-> Id(d), tag |-> Program[k],
                 qp |-> QpNum(proc[d].run, k)]
           p == [state |-> "waiting", run |-> proc[d].run, got |-> proc[d].got,
                 fqp |-> proc[d].fqp]
<1>1. /\ RequestOk(c) /\ RequestOk(d) /\ n \in Nodes /\ proc \in [Clients -> Processes]
      /\ inbox \in [Nodes -> Seq(Events)] /\ inbox[n] \in Seq(Events)
  BY ConstantTypes DEF RequestsInv, TypesInv, ClientTypes, NdTypes
<1>2. /\ proc[d].state = "ready" /\ proc' = [proc EXCEPT ![d] = p]
      /\ inbox' = [inbox EXCEPT ![n] = Append(@, e)]
      /\ toClient' = toClient /\ nd' = nd /\ toSd' = toSd /\ fromSd' = fromSd
      /\ owns' = owns /\ channels' = channels /\ pending' = pending
  BY StateStep DEF GetChannel, TypesInv, sdVars
<1>3. e.kind = "get" /\ e.from.client = d /\ e.from.run = p.run /\ Asks(p, e.tag, e.qp)
  BY DEF Id, Asks
<1>4. e \in Events
  <2>1. inbox'[n] = Append(inbox[n], e) /\ inbox'[n] \in Seq(Events)
    BY <1>1, <1>2 DEF TypesInv, NdTypes
  <2>2. Len(inbox[n]) \in Nat /\ Append(inbox[n], e)[Len(inbox[n]) + 1] = e
        /\ Len(Append(inbox[n], e)) = Len(inbox[n]) + 1
    BY <1>1
  <2>3. Len(inbox[n]) + 1 \in 1 .. Len(inbox'[n])
    BY <2>1, <2>2
  <2>4. inbox'[n][Len(inbox[n]) + 1] \in Events
    BY <2>1, <2>3
  <2> QED BY <2>1, <2>2, <2>4
<1> HIDE DEF e, p, k
<1>5. CASE c = d
  <2>1. /\ Unsent(c, inbox[n]) /\ Handled(c, toSd[n])
        /\ NotHeld(c, pending) /\ NoResponse(c, fromSd[n]) /\ toClient[c] = <<>>
    BY <1>1, <1>2, <1>5, NothingUnderWay
  <2>2. proc'[c] = p /\ inbox'[n] = Append(inbox[n], e)
    BY <1>1, <1>2, <1>5
  <2>3. InInbox(c, p, Append(inbox[n], e))
    <3> DEFINE s == inbox[n]
    <3>1. /\ Len(s) \in Nat /\ Len(Append(s, e)) = Len(s) + 1 /\ Append(s, e)[Len(s) + 1] = e
          /\ \A j \in 1 .. Len(s) : Append(s, e)[j] = s[j]
      BY <1>1
    <3>2. Unsent(c, s)
      BY <2>1
    <3> HIDE DEF s
    <3>3. ASSUME NEW j \in 1 .. Len(Append(s, e)), Append(s, e)[j].kind = "get",
                 Append(s, e)[j].from.client = c
          PROVE  j = Len(s) + 1
      BY <3>1, <3>2, <3>3 DEF Unsent
    <3>4. \A j \in Len(s) + 2 .. Len(Append(s, e)) : FALSE
      BY <3>1
    <3>5. InInbox(c, p, Append(s, e))
      BY <1>3, <3>1, <3>3, <3>4 DEF InInbox
    <3> QED BY <3>5 DEF s
  <2>4. AtSd(c, p, nd'[n].conns, inbox'[n], toSd'[n])
    BY <1>2, <2>1 DEF AtSd, Handled
  <2>5. Held(c, p, nd'[n].conns, owns'[n], channels', inbox'[n], toSd'[n], pending')
    BY <1>2, <2>1 DEF Held, NotHeld, NoResponse
  <2>6. FromSd(c, p, nd'[n].conns, owns'[n], channels', inbox'[n], toSd'[n], pending',
               fromSd'[n])
    BY <1>2, <2>1 DEF FromSd, NoResponse
  <2>7. Replied(c, p, nd'[n].conns, owns'[n], channels', inbox'[n], toSd'[n], pending',
                fromSd'[n], toClient'[c])
    BY <1>2, <2>1 DEF Replied
  <2>8. Obtained(c, p, nd'[n].conns, owns'[n], channels')
    BY DEF Obtained, p
  <2> QED BY <1>5, <2>2, <2>3, <2>4, <2>5, <2>6, <2>7, <2>8 DEF RequestOk
<1>6. CASE c # d
  <2>1. \E x \in Events : x.from.client = d /\ inbox' = [inbox EXCEPT ![n] = Append(@, x)]
    BY <1>2, <1>3, <1>4
  <2> QED BY <1>1, <1>2, <1>6, <2>1, RequestOfAnother
<1> QED BY <1>5, <1>6

LEMMA RequestsReadReply ==
    ASSUME TypesInv, TypesInv', RequestsInv, NEW d \in Clients, ReadReply(d),
           NEW c \in Clients
    PROVE  RequestOk(c)'
<1> DEFINE n == NodeOf[d]
           p == [state |-> "ready", run |-> proc[d].run, got |-> proc[d].got + 1,
                 fqp |-> Head(toClient[d])]
<1>1. /\ RequestOk(c) /\ RequestOk(d) /\ n \in Nodes /\ proc \in [Clients -> Processes]
      /\ toClient \in [Clients -> Seq(FabricQps)] /\ toClient[d] \in Seq(FabricQps)
  BY ConstantTypes DEF RequestsInv, TypesInv, ClientTypes
<1>2. /\ proc[d].state = "waiting" /\ proc' = [proc EXCEPT ![d] = p]
      /\ toClient[d] # <<>> /\ toClient' = [toClient EXCEPT ![d] = Tail(@)]
      /\ inbox' = inbox /\ nd' = nd /\ toSd' = toSd /\ fromSd' = fromSd
      /\ owns' = owns /\ channels' = channels /\ pending' = pending
  BY DEF ReadReply, ndVars, sdVars
<1>3. p.state = "ready" /\ p.run = proc[d].run /\ p.got = proc[d].got + 1
      /\ p.fqp = toClient[d][1]
  BY <1>1, <1>2
<1> HIDE DEF p
<1>4. CASE c = d
  <2>1. /\ Len(toClient[d]) = 1
        /\ Granted(d, proc[d], Program[proc[d].got + 1], toClient[d][1], nd[n].conns, owns[n],
                   channels)
        /\ Unsent(d, inbox[n]) /\ Handled(d, toSd[n]) /\ NotHeld(d, pending)
        /\ NoResponse(d, fromSd[n])
    BY <1>1, <1>2 DEF RequestOk, Replied
  <2>2. proc'[c] = p /\ toClient'[c] = <<>>
    BY <1>1, <1>2, <1>4, <2>1
  <2>3. Obtained(c, p, nd'[n].conns, owns'[n], channels')
    BY <1>2, <1>3, <1>4, <2>1 DEF Obtained, Granted
  <2> QED BY <1>2, <1>4, <2>1, <2>2, <2>3, NothingStarted
<1>5. CASE c # d
  <2>1. toClient'[c] = toClient[c]
    BY <1>1, <1>2, <1>5
  <2> QED BY <1>1, <1>2, <1>5, <2>1, RequestOfAnother
<1> QED BY <1>4, <1>5

LEMMA RequestsExit ==
    ASSUME TypesInv, TypesInv', RequestsInv, NEW d \in Clients, Exit(d), NEW c \in Clients
    PROVE  RequestOk(c)'
<1> DEFINE n == NodeOf[d]
           e == [kind |-> "eof", from |-> Id(d)]
           p == [state |-> "down", run |-> proc[d].run, got |-> proc[d].got,
                 fqp |-> proc[d].fqp]
<1>1. /\ RequestOk(c) /\ RequestOk(d) /\ n \in Nodes /\ nd[n].up
      /\ proc \in [Clients -> Processes]
      /\ inbox \in [Nodes -> Seq(Events)] /\ inbox[n] \in Seq(Events)
  BY ConstantTypes DEF RequestsInv, TypesInv, ClientTypes, NdTypes
<1>2. /\ proc[d].state = "ready" /\ proc' = [proc EXCEPT ![d] = p]
      /\ inbox' = [inbox EXCEPT ![n] = Append(@, e)]
      /\ toClient' = toClient /\ nd' = nd /\ toSd' = toSd /\ fromSd' = fromSd
      /\ owns' = owns /\ channels' = channels /\ pending' = pending
  BY <1>1, StateStep DEF Exit, End, TypesInv, sdVars
<1>3. e.kind = "eof" /\ e.from.client = d /\ p.state = "down"
  BY DEF Id
<1>4. e \in Events
  <2>1. Id(d) \in ClientIds
    BY <1>2, ProcessFields DEF Id, ClientIds, TypesInv
  <2> QED BY <2>1 DEF Events
<1> HIDE DEF e, p
<1>5. CASE c = d
  <2>1. /\ Unsent(c, inbox[n]) /\ Handled(c, toSd[n])
        /\ NotHeld(c, pending) /\ NoResponse(c, fromSd[n]) /\ toClient[c] = <<>>
    BY <1>1, <1>2, <1>5, NothingUnderWay
  <2>2. proc'[c] = p /\ inbox'[n] = Append(inbox[n], e)
    BY <1>1, <1>2, <1>5
  <2>3. Unsent(c, Append(inbox[n], e))
    <3> DEFINE s == inbox[n]
    <3>1. /\ Len(s) \in Nat /\ Len(Append(s, e)) = Len(s) + 1 /\ Append(s, e)[Len(s) + 1] = e
          /\ \A j \in 1 .. Len(s) : Append(s, e)[j] = s[j]
      BY <1>1
    <3>2. Unsent(c, s)
      BY <2>1
    <3> HIDE DEF s
    <3>3. Unsent(c, Append(s, e))
      BY <1>3, <3>1, <3>2 DEF Unsent
    <3> QED BY <3>3 DEF s
  <2>4. Obtained(c, p, nd'[n].conns, owns'[n], channels')
    BY <1>3 DEF Obtained
  <2> QED BY <1>2, <1>5, <2>1, <2>2, <2>3, <2>4, NothingStarted
<1>6. CASE c # d
  <2>1. \E x \in Events : x.from.client = d /\ inbox' = [inbox EXCEPT ![n] = Append(@, x)]
    BY <1>2, <1>3, <1>4
  <2> QED BY <1>1, <1>2, <1>6, <2>1, RequestOfAnother
<1> QED BY <1>5, <1>6

LEMMA EventTaken ==
    ASSUME NEW S, NEW c, NEW s \in Seq(S), s # <<>>
    PROVE  EventsStep(c, s, Tail(s)) /\ MsgsStep(c, s, Tail(s)) /\ RespsStep(c, s, Tail(s))
<1>1. Len(Tail(s)) = Len(s) - 1 /\ \A k \in 1 .. Len(s) - 1 : Tail(s)[k] = s[k + 1]
  BY TailFacts
<1> HIDE DEF EventsStep, MsgsStep, RespsStep
<1>2. \A k \in 1 .. Len(Tail(s)) : Tail(s)[k] = s[k + 1]
  BY <1>1
<1> DEFINE u == Tail(s)
<1>3. Len(u) = Len(s) - 1 /\ \A k \in 1 .. Len(u) : u[k] = s[k + 1]
  BY <1>1, <1>2
<1> HIDE DEF u
<1>4. EventsStep(c, s, u) /\ MsgsStep(c, s, u) /\ RespsStep(c, s, u)
  BY <1>3 DEF EventsStep, MsgsStep, RespsStep
<1> QED BY <1>4 DEF u

\* Connections that ask for more still ask for what they asked for.
LEMMA SentGrows ==
    ASSUME NEW c, NEW run, NEW t, NEW conns, NEW conns2, NEW i \in 1 .. Len(conns),
           Len(conns2) = Len(conns),
           \A j \in 1 .. Len(conns) : j # i => conns2[j] = conns[j],
           conns2[i].client = conns[i].client, conns2[i].run = conns[i].run,
           conns[i].tags \subseteq conns2[i].tags, conns[i].pending \subseteq conns2[i].pending,
           Sent(c, run, conns, t)
    PROVE  Sent(c, run, conns2, t)
<1>1. \A j \in 1 .. Len(conns) :
         /\ conns2[j].client = conns[j].client /\ conns2[j].run = conns[j].run
         /\ conns[j].tags \subseteq conns2[j].tags /\ conns[j].pending \subseteq conns2[j].pending
  <2>1. \A j \in 1 .. Len(conns) : j = i \/ conns2[j] = conns[j]
    OBVIOUS
  <2> QED BY <2>1
<1> QED BY <1>1 DEF Sent

LEMMA SentAfterRemoval ==
    ASSUME NEW c, NEW run, NEW t, NEW conns \in Seq(Conns), UniqueConns(conns),
           NEW i \in 1 .. Len(conns), ~(conns[i].client = c /\ conns[i].run = run),
           Sent(c, run, conns, t)
    PROVE  Sent(c, run, RemoveAt(conns, i), t)
<1> DEFINE conns2 == RemoveAt(conns, i)
<1>1. /\ \A k \in 1 .. Len(conns2) : \E j \in 1 .. Len(conns) : conns2[k] = conns[j]
      /\ \A j \in 1 .. Len(conns) : j # i =>
            \E k \in 1 .. Len(conns2) : conns2[k] = conns[j]
  BY HasAfterRemoval
<1> HIDE DEF conns2
<1>2. PICK j \in 1 .. Len(conns) :
         conns[j].client = c /\ t \in conns[j].tags /\ t \in conns[j].pending
  BY DEF Sent
<1>3. \A m \in 1 .. Len(conns) : conns[m].client = c => conns[m].run = run
  BY DEF Sent
<1>4. j # i
  BY <1>2, <1>3
<1>5. PICK k \in 1 .. Len(conns2) : conns2[k] = conns[j]
  BY <1>1, <1>4
<1>6. \A m \in 1 .. Len(conns2) : conns2[m].client = c => conns2[m].run = run
  BY <1>1, <1>3
<1>7. Sent(c, run, conns2, t)
  BY <1>2, <1>5, <1>6 DEF Sent
<1> QED BY <1>7 DEF conns2

\* An event of a node's client that changes neither connections nor messages for c.
LEMMA RequestAfterEvent ==
    ASSUME TypesInv, TypesInv', NEW c \in Clients, RequestOk(c), NEW n \in Nodes,
           inbox[n] # <<>>, inbox' = [inbox EXCEPT ![n] = Tail(@)],
           proc' = proc, toClient' = toClient, fromSd' = fromSd, owns' = owns,
           channels' = channels, pending' = pending,
           MsgsStep(c, toSd[NodeOf[c]], toSd'[NodeOf[c]]),
           proc[c].state # "down" =>
              \A t : Sent(c, proc[c].run, nd[NodeOf[c]].conns, t)
                        => Sent(c, proc[c].run, nd'[NodeOf[c]].conns, t)
    PROVE  RequestOk(c)'
<1> DEFINE m == NodeOf[c]
<1>1. m \in Nodes /\ inbox \in [Nodes -> Seq(Events)] /\ inbox[m] \in Seq(Events)
  BY ConstantTypes DEF TypesInv, NdTypes
<1>2. EventsStep(c, inbox[m], inbox'[m])
  <2>1. CASE m = n
    <3>1. inbox'[m] = Tail(inbox[m]) /\ inbox[m] # <<>>
      BY <1>1, <2>1
    <3> QED BY <1>1, <3>1, EventTaken
  <2>2. CASE m # n
    <3>1. inbox'[m] = inbox[m]
      BY <1>1, <2>2
    <3> QED BY <1>1, <3>1, QueueUnchanged
  <2> QED BY <2>1, <2>2
<1>3. RespsStep(c, fromSd[m], fromSd'[m])
  BY <1>1, QueueUnchanged DEF TypesInv, SdTypes
<1> QED BY <1>2, <1>3, RequestUndisturbed

\* on_client_get_channel of the node daemon: the request goes on to the agent.
LEMMA RequestForwarded ==
    ASSUME TypesInv, TypesInv', ConnsInv, RequestsInv, NEW n \in Nodes, NdClientEvent(n),
           inbox[n][1].kind = "get", nd[n].known, NEW c \in Clients
    PROVE  RequestOk(c)'
<1> DEFINE e == inbox[n][1]
           i == ConnOf(n, e.from)
           m == [kind |-> "get", client |-> e.from.client, tag |-> e.tag, qp |-> e.qp]
           conns == nd[n].conns
           conns2 == nd'[n].conns
<1>1. /\ nd[n].up /\ inbox[n] # <<>> /\ inbox' = [inbox EXCEPT ![n] = Tail(@)]
      /\ proc' = proc /\ toClient' = toClient /\ fromSd' = fromSd
      /\ owns' = owns /\ channels' = channels /\ pending' = pending
      /\ inbox[n] \in Seq(Events) /\ conns \in Seq(Conns)
      /\ toSd[n] \in Seq(Messages) /\ toSd \in [Nodes -> Seq(Messages)]
      /\ inbox \in [Nodes -> Seq(Events)] /\ nd \in [Nodes -> Daemons]
      /\ RequestOk(c)
  BY DEF NdClientEvent, clientVars, sdVars, TypesInv, NdTypes, Daemons, RequestsInv
<1>2. e \in Events /\ e = Head(inbox[n]) /\ 1 \in 1 .. Len(inbox[n]) /\ e.kind = "get"
      /\ NdGetChannel(n, e)
  BY <1>1 DEF NdClientEvent
<1>3. ConnsOk(n, conns, inbox[n], proc)
  BY <1>1 DEF ConnsInv
<1>4. Has(conns, e.from)
  BY <1>2, <1>3 DEF ConnsOk, EventsOfConns
<1>5. NdTypes /\ e \in Events /\ e.kind = "get" /\ Has(nd[n].conns, e.from) /\ nd[n].known
      /\ NdGetChannel(n, e)
  BY <1>2, <1>4 DEF TypesInv
<1> HIDE DEF e
<1>6. /\ i \in 1 .. Len(conns) /\ Same(conns[i], e.from)
      /\ \A x \in Nodes : x # n => nd'[x].conns = nd[x].conns
  BY <1>5, NdGetChannelStep
<1>7. /\ Len(conns2) = Len(conns)
      /\ \A j \in 1 .. Len(conns) : j # i => conns2[j] = conns[j]
  BY <1>5, NdGetChannelStep
<1>8. /\ conns2[i].client = conns[i].client /\ conns2[i].run = conns[i].run
      /\ conns2[i].tags = conns[i].tags \cup {e.tag}
      /\ conns2[i].pending = conns[i].pending \cup {e.tag}
  <2>1. conns2[i] = [client |-> conns[i].client, run |-> conns[i].run,
                     tags |-> conns[i].tags \cup {e.tag},
                     pending |-> conns[i].pending \cup {e.tag}]
    BY <1>5, NdGetChannelStep
  <2> QED BY <2>1
<1>9. m \in Messages /\ m.kind = "get" /\ m.client = e.from.client /\ m.tag = e.tag
      /\ m.qp = e.qp
  BY <1>5, NdGetChannelStep
<1>10. toSd' = [toSd EXCEPT ![n] = Append(@, m)]
  BY <1>5, NdGetChannelStep
<1> HIDE DEF i, m
<1>11. toSd'[n] = Append(toSd[n], m) /\ \A x \in Nodes : x # n => toSd'[x] = toSd[x]
  BY <1>1, <1>10
<1>12. /\ Len(toSd[n]) \in Nat /\ Len(Append(toSd[n], m)) = Len(toSd[n]) + 1
       /\ Append(toSd[n], m)[Len(toSd[n]) + 1] = m
       /\ \A k \in 1 .. Len(toSd[n]) : Append(toSd[n], m)[k] = toSd[n][k]
  BY <1>1, <1>9
<1>13. NodeOf[c] \in Nodes /\ toSd[NodeOf[c]] \in Seq(Messages)
  BY <1>1, ConstantTypes
<1>14. CASE c # e.from.client
  <2>1. MsgsStep(c, toSd[n], toSd'[n])
    BY <1>9, <1>11, <1>12, <1>14 DEF MsgsStep
  <2>2. MsgsStep(c, toSd[NodeOf[c]], toSd'[NodeOf[c]])
    BY <1>11, <1>13, <2>1, QueueUnchanged
  <2>3. ASSUME NEW t, Sent(c, proc[c].run, conns, t)
        PROVE  Sent(c, proc[c].run, conns2, t)
    <3> HIDE DEF conns, conns2
    <3>1. conns[i].tags \subseteq conns2[i].tags /\ conns[i].pending \subseteq conns2[i].pending
      BY <1>8
    <3> QED BY <1>6, <1>7, <1>8, <2>3, <3>1, SentGrows
  <2>4. \A t : Sent(c, proc[c].run, nd[NodeOf[c]].conns, t)
                  => Sent(c, proc[c].run, nd'[NodeOf[c]].conns, t)
    BY <1>6, <1>13, <2>3
  <2> QED BY <1>1, <2>2, <2>4, RequestAfterEvent
<1>15. CASE c = e.from.client
  <2> DEFINE p == proc[c]
             ev == inbox[n]
             ms == toSd[n]
  <2>1. NodeOf[c] = n
    BY <1>3, <1>6, <1>15 DEF ConnsOk, LiveOrClosing, Same
  <2>2. /\ e.from.run = p.run /\ Asks(p, e.tag, e.qp)
        /\ \A j \in 2 .. Len(ev) : ev[j].from.client # c
    <3>1. InInbox(c, p, ev)
      BY <1>1, <2>1 DEF RequestOk
    <3>2. 1 \in 1 .. Len(ev) /\ ev[1].kind = "get" /\ ev[1].from.client = c
      BY <1>2, <1>15 DEF e
    <3> HIDE DEF p, ev
    <3>3. /\ ev[1].from.run = p.run /\ Asks(p, ev[1].tag, ev[1].qp)
          /\ \A j \in 1 + 1 .. Len(ev) : ev[j].from.client # c
      BY <3>1, <3>2 DEF InInbox
    <3> QED BY <3>3 DEF e, ev
  <2>3. Unsent(c, Tail(ev))
    <3>1. Len(ev) \in Nat /\ Len(Tail(ev)) = Len(ev) - 1
          /\ \A k \in 1 .. Len(ev) - 1 : Tail(ev)[k] = ev[k + 1]
      BY <1>1
    <3> HIDE DEF ev
    <3>2. ASSUME NEW k \in 1 .. Len(Tail(ev)), Tail(ev)[k].from.client = c
          PROVE  FALSE
      <4>1. k + 1 \in 2 .. Len(ev) /\ Tail(ev)[k] = ev[k + 1]
        BY <3>1
      <4> QED BY <2>2, <3>2, <4>1
    <3> QED BY <3>2 DEF Unsent
  <2>4. Handled(c, ms)
    <3>1. ~Unsent(c, ev)
      BY <1>2, <1>15 DEF Unsent, e
    <3> QED BY <1>1, <2>1, <3>1 DEF RequestOk, AtSd, Handled
  <2>5. NotHeld(c, pending) /\ NoResponse(c, fromSd[n]) /\ toClient[c] = <<>>
    <3>1. ~Unsent(c, ev)
      BY <1>2, <1>15 DEF Unsent, e
    <3>2. NotHeld(c, pending)
      BY <1>1, <2>1, <3>1 DEF RequestOk, Held, NotHeld, NoResponse
    <3>3. NoResponse(c, fromSd[n])
      BY <1>1, <2>1, <3>1 DEF RequestOk, FromSd, NoResponse
    <3>4. toClient[c] = <<>>
      BY <1>1, <2>1, <3>1 DEF RequestOk, Replied
    <3> QED BY <3>2, <3>3, <3>4
  <2>6. Sent(c, p.run, conns2, e.tag)
    <3>1. ASSUME NEW j \in 1 .. Len(conns), conns[j].client = c, conns[j].run # p.run
          PROVE  FALSE
      <4>1. Closing(ev, conns[j])
        BY <1>3, <3>1 DEF ConnsOk, LiveOrClosing, Lives
      <4>2. PICK k \in 1 .. Len(ev) : ev[k].kind = "eof" /\ ev[k].from.client = c
        BY <3>1, <4>1 DEF Closing, Same
      <4>3. k # 1
        BY <1>2, <4>2 DEF e
      <4>4. k \in 2 .. Len(ev)
        BY <4>3
      <4> QED BY <2>2, <4>2, <4>4
    <3>2. \A j \in 1 .. Len(conns2) : conns2[j].client = c => conns2[j].run = p.run
      <4> HIDE DEF conns, conns2, p
      <4>1. \A j \in 1 .. Len(conns) :
               conns2[j].client = conns[j].client /\ conns2[j].run = conns[j].run
        BY <1>7, <1>8
      <4> QED BY <1>7, <3>1, <4>1
    <3>3. i \in 1 .. Len(conns2) /\ conns2[i].client = c
          /\ e.tag \in conns2[i].tags /\ e.tag \in conns2[i].pending
      BY <1>6, <1>7, <1>8, <1>15 DEF Same
    <3> HIDE DEF conns2, p
    <3> QED BY <3>2, <3>3 DEF Sent
  <2>7. inbox'[n] = Tail(ev)
    BY <1>1
  <2>8. InInbox(c, p, inbox'[n])
    BY <2>3, <2>7 DEF Unsent, InInbox
  <2>9. AtSd(c, p, conns2, inbox'[n], toSd'[n])
    <3> DEFINE ms2 == Append(ms, m)
    <3>1. \A k \in 1 .. Len(ms2) : ms2[k].kind = "get" /\ ms2[k].client = c =>
             k = Len(ms) + 1 /\ ms2[k] = m
      <4>1. \A k \in 1 .. Len(ms2) : k \in 1 .. Len(ms) \/ k = Len(ms) + 1
        BY <1>12
      <4> QED BY <1>12, <2>4, <4>1 DEF Handled
    <3>2. toSd'[n] = ms2
      BY <1>11
    <3> HIDE DEF ms2, conns2, p
    <3>3. Unsent(c, inbox'[n])
      BY <2>3, <2>7
    <3> QED BY <1>9, <2>2, <2>6, <3>1, <3>2, <3>3 DEF AtSd
  <2>10. Held(c, p, conns2, owns'[n], channels', inbox'[n], toSd'[n], pending')
    BY <1>1, <2>5 DEF Held, NotHeld, NoResponse
  <2>11. FromSd(c, p, conns2, owns'[n], channels', inbox'[n], toSd'[n], pending', fromSd'[n])
    BY <1>1, <2>5 DEF FromSd, NoResponse
  <2>12. Replied(c, p, conns2, owns'[n], channels', inbox'[n], toSd'[n], pending', fromSd'[n],
                 toClient'[c])
    BY <1>1, <2>5 DEF Replied
  <2>13. Obtained(c, p, conns2, owns'[n], channels')
    BY <2>2 DEF Obtained, Asks
  <2> QED BY <1>1, <2>1, <2>8, <2>9, <2>10, <2>11, <2>12, <2>13 DEF RequestOk
<1> QED BY <1>14, <1>15

\* remove_client: another process has ended.
LEMMA RequestAfterLeaving ==
    ASSUME TypesInv, TypesInv', ConnsInv, RequestsInv, NEW n \in Nodes, NdClientEvent(n),
           inbox[n][1].kind = "eof", NEW c \in Clients
    PROVE  RequestOk(c)'
<1> DEFINE e == inbox[n][1]
           i == ConnOf(n, e.from)
           unused == Unused(nd[n].conns, i)
           unrefs == UnrefsFor(unused)
           conns == nd[n].conns
           conns2 == nd'[n].conns
<1>1. /\ nd[n].up /\ inbox[n] # <<>> /\ inbox' = [inbox EXCEPT ![n] = Tail(@)]
      /\ proc' = proc /\ toClient' = toClient /\ fromSd' = fromSd
      /\ owns' = owns /\ channels' = channels /\ pending' = pending
      /\ inbox[n] \in Seq(Events) /\ conns \in Seq(Conns)
      /\ toSd[n] \in Seq(Messages) /\ toSd \in [Nodes -> Seq(Messages)]
      /\ RequestOk(c)
  BY DEF NdClientEvent, clientVars, sdVars, TypesInv, NdTypes, Daemons, RequestsInv
<1>2. e \in Events /\ e = Head(inbox[n]) /\ 1 \in 1 .. Len(inbox[n]) /\ e.kind = "eof"
      /\ NdRemoveClient(n, e.from)
  BY <1>1 DEF NdClientEvent
<1>3. ConnsOk(n, conns, inbox[n], proc)
  BY <1>1 DEF ConnsInv
<1>4. Has(conns, e.from) /\ UniqueConns(conns)
  BY <1>2, <1>3 DEF ConnsOk, EventsOfConns
<1>5. NdTypes /\ NdRemoveClient(n, e.from) /\ Has(nd[n].conns, e.from)
  BY <1>2, <1>4 DEF TypesInv
<1> HIDE DEF e
<1>6. /\ i \in 1 .. Len(conns) /\ Same(conns[i], e.from)
      /\ \A x \in Nodes : x # n => nd'[x].conns = nd[x].conns
      /\ conns2 = RemoveAt(conns, i)
  BY <1>5, NdRemoveClientStep
<1>7. unused \in SUBSET AllTags /\ toSd' = [toSd EXCEPT ![n] = @ \o unrefs]
  BY <1>5, NdRemoveClientStep
<1> HIDE DEF i, unused
<1>8. /\ unrefs \in Seq(Messages)
      /\ \A k \in 1 .. Len(unrefs) : unrefs[k].kind = "unref"
  BY <1>7, UnrefsForFacts
<1> HIDE DEF unrefs
<1>9. toSd'[n] = toSd[n] \o unrefs /\ \A x \in Nodes : x # n => toSd'[x] = toSd[x]
  BY <1>1, <1>7
<1>10. NodeOf[c] \in Nodes /\ toSd[NodeOf[c]] \in Seq(Messages)
  BY <1>1, ConstantTypes
<1>11. MsgsStep(c, toSd[n], toSd'[n])
  <2> DEFINE s == toSd[n]
             s2 == s \o unrefs
  <2>1. /\ Len(s2) = Len(s) + Len(unrefs)
        /\ \A j \in 1 .. Len(s) : s2[j] = s[j]
        /\ \A j \in 1 .. Len(unrefs) : s2[Len(s) + j] = unrefs[j]
    BY <1>1, <1>8, JoinFacts
  <2>2. Len(s) \in Nat /\ Len(unrefs) \in Nat
    BY <1>1, <1>8
  <2>3. s2 = toSd'[n]
    BY <1>9
  <2> HIDE DEF s, s2
  <2>4. ASSUME NEW k \in Len(s) + 1 .. Len(s2)
        PROVE  s2[k].kind # "get"
    <3>1. k - Len(s) \in 1 .. Len(unrefs) /\ Len(s) + (k - Len(s)) = k
      BY <2>1, <2>2
    <3>2. s2[k] = unrefs[k - Len(s)]
      BY <2>1, <3>1
    <3> QED BY <1>8, <3>1, <3>2
  <2>5. Len(s2) >= Len(s)
    BY <2>1, <2>2
  <2>6. MsgsStep(c, s, s2)
    BY <2>1, <2>4, <2>5 DEF MsgsStep
  <2> QED BY <2>3, <2>6 DEF s
<1>12. MsgsStep(c, toSd[NodeOf[c]], toSd'[NodeOf[c]])
  BY <1>9, <1>10, <1>11, QueueUnchanged
<1>13. ASSUME proc[c].state # "down", NEW t, Sent(c, proc[c].run, conns, t)
       PROVE  Sent(c, proc[c].run, conns2, t)
  <2>1. Closing(inbox[n], conns[i])
    BY <1>2, <1>6 DEF Closing, Same, e
  <2>2. ~Lives(proc, conns[i])
    BY <1>3, <1>6, <2>1 DEF ConnsOk, LiveOrClosing
  <2>3. ~(conns[i].client = c /\ conns[i].run = proc[c].run)
    BY <1>13, <2>2 DEF Lives
  <2>4. Sent(c, proc[c].run, RemoveAt(conns, i), t)
    BY <1>1, <1>4, <1>6, <1>13, <2>3, SentAfterRemoval
  <2> QED BY <1>6, <2>4
<1>14. proc[c].state # "down" =>
         \A t : Sent(c, proc[c].run, nd[NodeOf[c]].conns, t)
                   => Sent(c, proc[c].run, nd'[NodeOf[c]].conns, t)
  BY <1>6, <1>10, <1>13
<1> QED BY <1>1, <1>12, <1>14, RequestAfterEvent

LEMMA RequestsClientEvent ==
    ASSUME TypesInv, TypesInv', ConnsInv, RequestsInv, NEW n \in Nodes, NdClientEvent(n),
           NEW c \in Clients
    PROVE  RequestOk(c)'
<1> DEFINE e == inbox[n][1]
<1>1. /\ inbox[n] # <<>> /\ inbox[n] \in Seq(Events) /\ Head(inbox[n]) = e
  BY DEF NdClientEvent, TypesInv, NdTypes
<1>2. e \in Events
  BY <1>1
<1>3. CASE e.kind = "get" /\ nd[n].known
  BY <1>3, RequestForwarded
<1>4. CASE e.kind = "get" /\ ~nd[n].known
  <2>1. /\ inbox' = [inbox EXCEPT ![n] = Tail(@)] /\ nd' = nd /\ toSd' = toSd
        /\ proc' = proc /\ toClient' = toClient /\ fromSd' = fromSd
        /\ owns' = owns /\ channels' = channels /\ pending' = pending
        /\ RequestOk(c)
    BY <1>1, <1>4 DEF NdClientEvent, NdGetChannel, clientVars, sdVars, RequestsInv
  <2>2. MsgsStep(c, toSd[NodeOf[c]], toSd'[NodeOf[c]])
    BY <2>1, ConstantTypes, QueueUnchanged DEF TypesInv, NdTypes
  <2> QED BY <1>1, <2>1, <2>2, RequestAfterEvent
<1>5. CASE e.kind = "eof"
  BY <1>5, RequestAfterLeaving
<1>6. e.kind \in {"get", "eof"}
  BY <1>2, EventKinds
<1> QED BY <1>3, <1>4, <1>5, <1>6

\* The node daemon learns of the switch: no request is concerned.
LEMMA RequestsDiscover ==
    ASSUME TypesInv, TypesInv', RequestsInv, NEW n \in Nodes, Discover(n), NEW c \in Clients
    PROVE  RequestOk(c)'
<1> DEFINE m == NodeOf[c]
<1>1. /\ m \in Nodes /\ nd \in [Nodes -> Daemons] /\ RequestOk(c)
      /\ inbox[m] \in Seq(Events) /\ toSd[m] \in Seq(Messages)
      /\ fromSd[m] \in Seq(Responses({m}, AllTags))
  BY ConstantTypes DEF TypesInv, NdTypes, SdTypes, RequestsInv
<1>2. /\ inbox' = inbox /\ toSd' = toSd /\ proc' = proc /\ toClient' = toClient
      /\ fromSd' = fromSd /\ owns' = owns /\ channels' = channels /\ pending' = pending
      /\ nd' = [nd EXCEPT ![n].known = TRUE]
  BY DEF Discover, clientVars, sdVars
<1>3. nd'[m].conns = nd[m].conns
  BY <1>1, <1>2 DEF Daemons
<1>4. /\ EventsStep(c, inbox[m], inbox'[m]) /\ MsgsStep(c, toSd[m], toSd'[m])
      /\ RespsStep(c, fromSd[m], fromSd'[m])
  BY <1>1, <1>2, QueueUnchanged
<1> QED BY <1>1, <1>2, <1>3, <1>4, RequestUndisturbed

\* on_switch_fd: the response finds the open connection of the client that waits
\* with the request it answers, so that the node daemon survives and the client has
\* no other response.
LEMMA ResponseDelivered ==
    ASSUME TypesInv, RequestsInv, NEW n \in Nodes, NdSwitchEvent(n)
    PROVE  LET resp == Head(fromSd[n])
               d == resp.client
           IN  /\ d \in Clients /\ NodeOf[d] = n
               /\ toClient[d] = <<>>
               /\ Unsent(d, inbox[n]) /\ Handled(d, toSd[n]) /\ NotHeld(d, pending)
               /\ Granted(d, proc[d], resp.tag, resp.fqp, nd[n].conns, owns[n], channels)
               /\ NoResponse(d, Tail(fromSd[n]))
               /\ toClient' = [toClient EXCEPT ![d] = Append(@, resp.fqp)]
               /\ UNCHANGED <<nd, inbox, toSd>>
<1> DEFINE resp == Head(fromSd[n])
           d == resp.client
           i == Min(Waiting(n, resp))
           conns == nd[n].conns
           s == fromSd[n]
<1>1. /\ s # <<>> /\ s \in Seq(Responses({n}, AllTags)) /\ resp = s[1] /\ 1 \in 1 .. Len(s)
      /\ conns \in Seq(Conns)
  BY DEF NdSwitchEvent, TypesInv, SdTypes, NdTypes, Daemons
<1>2. resp \in Responses({n}, AllTags)
  BY <1>1
<1>3. d \in Clients
  BY <1>2 DEF Responses
<1>4. NodeOf[d] = n /\ nd[n].up
  BY <1>1 DEF RequestsInv
<1>5. /\ InInbox(d, proc[d], inbox[n])
      /\ FromSd(d, proc[d], conns, owns[n], channels, inbox[n], toSd[n], pending, s)
      /\ Replied(d, proc[d], conns, owns[n], channels, inbox[n], toSd[n], pending, s,
                 toClient[d])
  BY <1>3, <1>4 DEF RequestsInv, RequestOk
<1>6. /\ Granted(d, proc[d], resp.tag, resp.fqp, conns, owns[n], channels)
      /\ Unsent(d, inbox[n]) /\ Handled(d, toSd[n]) /\ NotHeld(d, pending)
      /\ \A j \in 1 .. Len(s) : s[j].client = d => j = 1
  <2>1. s[1].client = d /\ resp.tag = s[1].tag /\ resp.fqp = s[1].fqp
    BY <1>1
  <2> HIDE DEF s, d, resp, conns
  <2> QED BY <1>1, <1>5, <2>1 DEF FromSd
<1>7. NoResponse(d, Tail(s))
  <2>1. Len(Tail(s)) = Len(s) - 1 /\ \A k \in 1 .. Len(s) - 1 : Tail(s)[k] = s[k + 1]
    BY <1>1
  <2>2. Len(s) \in Nat
    BY <1>1
  <2> HIDE DEF s, d
  <2>3. ASSUME NEW k \in 1 .. Len(Tail(s)), Tail(s)[k].client = d
        PROVE  FALSE
    <3>1. k + 1 \in 1 .. Len(s) /\ k + 1 # 1 /\ Tail(s)[k] = s[k + 1]
      BY <2>1, <2>2
    <3> QED BY <1>6, <2>3, <3>1
  <2> QED BY <2>3 DEF NoResponse
<1>8. toClient[d] = <<>>
  <2>1. ~NoResponse(d, s)
    BY <1>1 DEF NoResponse
  <2> QED BY <1>5, <2>1 DEF Replied
<1>9. /\ \A j \in 1 .. Len(conns) : conns[j].client = d => conns[j].run = proc[d].run
      /\ \E j \in 1 .. Len(conns) : conns[j].client = d /\ resp.tag \in conns[j].pending
      /\ proc[d].state # "down"
  <2> HIDE DEF d, resp, conns
  <2> QED BY <1>6 DEF Granted, Registered, Sent
<1>10. Waiting(n, resp) # {}
  BY <1>9 DEF Waiting
<1>11. /\ i \in 1 .. Len(conns) /\ conns[i].client = d
       /\ \/ /\ Connected(conns[i])
             /\ toClient' = [toClient EXCEPT ![conns[i].client] = Append(@, resp.fqp)]
             /\ UNCHANGED <<nd, inbox, toSd>>
          \/ ~Connected(conns[i])
  BY <1>10, NdSwitchEventStep
<1>12. Connected(conns[i])
  BY <1>9, <1>11 DEF Connected
<1> QED BY <1>3, <1>4, <1>6, <1>7, <1>8, <1>11, <1>12

LEMMA RequestsSwitchEvent ==
    ASSUME TypesInv, TypesInv', RequestsInv, NEW n \in Nodes, NdSwitchEvent(n),
           NEW c \in Clients
    PROVE  RequestOk(c)'
<1> DEFINE resp == Head(fromSd[n])
           d == resp.client
           m == NodeOf[c]
<1>1. /\ d \in Clients /\ NodeOf[d] = n
      /\ toClient[d] = <<>>
      /\ Unsent(d, inbox[n]) /\ Handled(d, toSd[n]) /\ NotHeld(d, pending)
  BY ResponseDelivered
<1>2. Granted(d, proc[d], resp.tag, resp.fqp, nd[n].conns, owns[n], channels)
  BY ResponseDelivered
<1>3. NoResponse(d, Tail(fromSd[n]))
  BY ResponseDelivered
<1>4. /\ toClient' = [toClient EXCEPT ![d] = Append(@, resp.fqp)]
      /\ nd' = nd /\ inbox' = inbox /\ toSd' = toSd
  BY ResponseDelivered
<1>5. /\ fromSd[n] # <<>> /\ fromSd' = [fromSd EXCEPT ![n] = Tail(@)]
      /\ proc' = proc /\ owns' = owns /\ channels' = channels /\ pending' = pending
      /\ resp.fqp \in FabricQps
  BY NdSwitchEventStep DEF sdVars, Responses
<1>6. /\ m \in Nodes /\ RequestOk(c) /\ DOMAIN fromSd = Nodes
      /\ \A x \in Nodes : fromSd[x] \in Seq(Responses({x}, AllTags))
      /\ toClient \in [Clients -> Seq(FabricQps)]
      /\ inbox[m] \in Seq(Events) /\ toSd[m] \in Seq(Messages)
  BY ConstantTypes DEF TypesInv, ClientTypes, NdTypes, SdTypes, RequestsInv
<1> HIDE DEF resp, d
<1>7. CASE c = d
  <2> DEFINE p == proc[c]
             own == owns[n]
  <2>1. m = n /\ fromSd'[n] = Tail(fromSd[n]) /\ toClient'[c] = Append(<<>>, resp.fqp)
    BY <1>1, <1>4, <1>5, <1>6, <1>7
  <2>2. /\ Len(toClient'[c]) = 1 /\ toClient'[c][1] = resp.fqp
    BY <1>5, <2>1
  <2>3. resp.tag = Program[p.got + 1] /\ p.state = "waiting"
    BY <1>2, <1>7 DEF Granted
  <2>4. Replied(c, p, nd'[n].conns, owns'[n], channels', inbox'[n], toSd'[n], pending',
                fromSd'[n], toClient'[c])
    BY <1>1, <1>2, <1>3, <1>4, <1>5, <1>7, <2>1, <2>2, <2>3 DEF Replied
  <2>5. FromSd(c, p, nd'[n].conns, owns'[n], channels', inbox'[n], toSd'[n], pending',
               fromSd'[n])
    BY <1>3, <1>7, <2>1 DEF FromSd, NoResponse
  <2> QED BY <1>4, <1>5, <1>6, <2>1, <2>4, <2>5 DEF RequestOk
<1>8. CASE c # d
  <2>1. toClient'[c] = toClient[c]
    BY <1>4, <1>6, <1>8
  <2>2. RespsStep(c, fromSd[m], fromSd'[m])
    <3>1. CASE m = n
      <4>1. fromSd'[m] = Tail(fromSd[m]) /\ fromSd[m] # <<>>
        BY <1>5, <1>6, <3>1
      <4> QED BY <1>6, <4>1, EventTaken
    <3>2. CASE m # n
      <4>1. fromSd'[m] = fromSd[m]
        BY <1>5, <1>6, <3>2
      <4> QED BY <1>6, <4>1, QueueUnchanged
    <3> QED BY <3>1, <3>2
  <2>3. EventsStep(c, inbox[m], inbox'[m]) /\ MsgsStep(c, toSd[m], toSd'[m])
    BY <1>4, <1>6, QueueUnchanged
  <2> QED BY <1>4, <1>5, <1>6, <2>1, <2>2, <2>3, RequestUndisturbed
<1> QED BY <1>7, <1>8

\* As no node daemon ends, the agent loses no message.
LEMMA OrderlyMessages ==
    ASSUME TypesInv, MsgsInv, RequestsInv, NEW n \in Nodes, SdEvent(n)
    PROVE  /\ toSd[n] # <<>> /\ toSd[n] \in Seq(Messages)
           /\ toSd[n][1] \in Messages /\ toSd[n][1] = Head(toSd[n])
           /\ toSd'[n] = Tail(toSd[n])
           /\ \A x \in Nodes : x # n => toSd'[x] = toSd[x]
           /\ \A c \in Clients : MsgsStep(c, toSd[NodeOf[c]], toSd'[NodeOf[c]])
           /\ toSd[n][1].kind \in {"get", "unref"}
           /\ proc' = proc /\ toClient' = toClient /\ nd' = nd /\ inbox' = inbox
<1> DEFINE s == toSd[n]
<1>1. /\ s # <<>> /\ s \in Seq(Messages) /\ s[1] \in Messages /\ s[1] = Head(s)
      /\ 1 \in 1 .. Len(s) /\ toSd'[n] \in AfterOne(s)
      /\ \A x \in Nodes : x # n => toSd'[x] = toSd[x]
      /\ proc' = proc /\ toClient' = toClient /\ nd' = nd /\ inbox' = inbox
  BY SdEventStep
<1>2. \A k \in 1 .. Len(s) : s[k].kind \notin {"eof", "reset"}
  BY DEF MsgsInv, MsgsOk, RequestsInv
<1>3. toSd'[n] = Tail(s)
  <2>1. Len(s) \in Nat
    BY <1>1
  <2> HIDE DEF s
  <2>2. Len(s) \in 1 .. Len(s)
    BY <1>1, <2>1
  <2> QED BY <1>1, <1>2, <2>2, AfterOneFacts
<1>4. s[1].kind \in {"get", "unref"}
  BY <1>1, <1>2, MessageKinds
<1>5. ASSUME NEW c \in Clients
      PROVE  MsgsStep(c, toSd[NodeOf[c]], toSd'[NodeOf[c]])
  <2>1. NodeOf[c] \in Nodes /\ toSd[NodeOf[c]] \in Seq(Messages)
    BY ConstantTypes DEF TypesInv, NdTypes
  <2>2. CASE NodeOf[c] = n
    BY <1>1, <1>3, <2>2, EventTaken
  <2>3. CASE NodeOf[c] # n
    <3>1. toSd'[NodeOf[c]] = toSd[NodeOf[c]]
      BY <1>1, <2>1, <2>3
    <3> QED BY <2>1, <3>1, QueueUnchanged
  <2> QED BY <2>2, <2>3
<1> QED BY <1>1, <1>3, <1>4, <1>5

\* A step of the agent after which responses go nowhere and every client whose
\* request has been handled stays registered.
LEMMA RequestAtAgent ==
    ASSUME TypesInv, TypesInv', MsgsInv, RequestsInv, NEW n \in Nodes, SdEvent(n),
           NEW c \in Clients,
           \A t \in AllTags : RespsStep(c, pending[t], pending'[t]),
           RespsStep(c, fromSd[NodeOf[c]], fromSd'[NodeOf[c]]),
           \A k, fqp :
              /\ proc[c].state # "down" /\ Handled(c, toSd[NodeOf[c]])
              /\ Registered(c, proc[c].run, k, fqp, nd[NodeOf[c]].conns, owns[NodeOf[c]],
                            channels)
              => Registered(c, proc[c].run, k, fqp, nd[NodeOf[c]].conns, owns'[NodeOf[c]],
                            channels')
    PROVE  RequestOk(c)'
<1> DEFINE m == NodeOf[c]
<1>1. /\ proc' = proc /\ toClient' = toClient /\ nd' = nd /\ inbox' = inbox
      /\ MsgsStep(c, toSd[m], toSd'[m])
  BY OrderlyMessages
<1>2. RequestOk(c) /\ EventsStep(c, inbox[m], inbox'[m])
  BY <1>1, ConstantTypes, QueueUnchanged DEF TypesInv, NdTypes, RequestsInv
<1>3. proc[c].state # "down" =>
         /\ \A t : Sent(c, proc[c].run, nd[m].conns, t)
                      => Sent(c, proc[c].run, nd'[m].conns, t)
         /\ \A k, fqp :
               /\ Handled(c, toSd[m])
               /\ Registered(c, proc[c].run, k, fqp, nd[m].conns, owns[m], channels)
               => Registered(c, proc[c].run, k, fqp, nd'[m].conns, owns'[m], channels')
  BY <1>1
<1> QED BY <1>1, <1>2, <1>3, RequestUnaffected

\* on_client_unref_channel: a channel that a client has obtained has an owner.
LEMMA RequestsUnref ==
    ASSUME TypesInv, TypesInv', MsgsInv, RequestsInv, NEW n \in Nodes, SdEvent(n),
           toSd[n][1].kind = "unref", NEW c \in Clients
    PROVE  RequestOk(c)'
<1> DEFINE tag == toSd[n][1].tag
           m == NodeOf[c]
           s == toSd[n]
<1>1. /\ s # <<>> /\ s \in Seq(Messages) /\ s[1] = Head(s) /\ 1 \in 1 .. Len(s)
      /\ SdUnrefChannel(n, tag)
  BY SdEventStep
<1>2. m \in Nodes /\ owns \in [Nodes -> SUBSET AllTags]
  BY ConstantTypes DEF TypesInv, SdTypes
<1>3. pending' = pending /\ fromSd' = fromSd
  BY <1>1 DEF SdUnrefChannel, RemoveUnowned, sdVars
<1>4. /\ \A t \in AllTags : RespsStep(c, pending[t], pending'[t])
      /\ RespsStep(c, fromSd[m], fromSd'[m])
  BY <1>2, <1>3, QueueUnchanged DEF TypesInv, SdTypes
<1>5. ASSUME NEW k, NEW fqp, Handled(c, toSd[m]),
             Registered(c, proc[c].run, k, fqp, nd[m].conns, owns[m], channels)
      PROVE  Registered(c, proc[c].run, k, fqp, nd[m].conns, owns'[m], channels')
  <2> DEFINE t == Program[k]
             conns == nd[m].conns
  <2>1. /\ Sent(c, proc[c].run, conns, t) /\ t \in owns[m] /\ t \in Tags(channels)
        /\ channels[t].parts[c] = [node |-> m, qp |-> QpNum(proc[c].run, k), fqp |-> fqp]
    BY <1>5 DEF Registered
  <2>2. ~(m = n /\ t = tag)
    <3> SUFFICES ASSUME m = n, t = tag
                 PROVE  FALSE
      OBVIOUS
    <3>1. PICK i \in 1 .. Len(conns) : conns[i].client = c /\ t \in conns[i].tags
      BY <2>1 DEF Sent
    <3>2. \E j \in 2 .. Len(s) : IsGet(s[j], tag) /\ s[j].client = conns[i].client
      BY <1>1, <3>1 DEF MsgsInv, MsgsOk
    <3>3. PICK j \in 2 .. Len(s) : s[j].kind = "get" /\ s[j].client = c
      BY <3>1, <3>2 DEF IsGet
    <3>4. j \in 1 .. Len(s)
      BY <1>1, <3>3
    <3> QED BY <1>5, <3>3, <3>4 DEF Handled
  <2>3. t \in owns'[m] /\ t \in Tags(channels') /\ channels'[t] = channels[t]
    <3>1. CASE tag \notin owns[n]
      BY <1>1, <2>1, <3>1 DEF SdUnrefChannel, sdVars
    <3>2. CASE tag \in owns[n]
      <4>1. /\ owns' = [owns EXCEPT ![n] = @ \ {tag}]
            /\ channels' = RemoveChannels(channels, Unowned({tag}, owns'))
        BY <1>1, <3>2 DEF SdUnrefChannel, RemoveUnowned
      <4>2. t \in owns'[m]
        BY <1>2, <2>1, <2>2, <4>1
      <4>3. t \notin Unowned({tag}, owns')
        BY <1>2, <4>2 DEF Unowned
      <4> QED BY <2>1, <4>1, <4>2, <4>3 DEF RemoveChannels, Restrict, Tags
    <3> QED BY <3>1, <3>2
  <2> HIDE DEF t, conns
  <2>4. Registered(c, proc[c].run, k, fqp, conns, owns'[m], channels')
    BY <2>1, <2>3 DEF Registered, t
  <2> QED BY <2>4 DEF conns
<1> QED BY <1>4, <1>5, RequestAtAgent

-----------------------------------------------------------------------------
(* on_client_get_channel of the agent.                                      *)

\* What it does, and to whose request: that client waits with it and has nothing
\* else under way.
LEMMA RegisterFacts ==
    ASSUME TypesInv, MsgsInv, RequestsInv, NEW n \in Nodes, SdEvent(n),
           toSd[n][1].kind = "get", SdGetChannel(n, toSd[n][1]),
           NEW msg, msg = toSd[n][1], NEW tag, tag = msg.tag, NEW d, d = msg.client
    PROVE  /\ msg \in Messages /\ tag \in AllTags /\ d \in Clients /\ NodeOf[d] = n
           /\ tag \in Tags(channels) \/ CanAllocate(channels)
           /\ Asks(proc[d], tag, msg.qp) /\ Sent(d, proc[d].run, nd[n].conns, tag)
           /\ Unsent(d, inbox[n]) /\ Handled(d, toSd'[n])
           /\ NotHeld(d, pending) /\ NoResponse(d, fromSd[n]) /\ toClient[d] = <<>>
<1> DEFINE s == toSd[n]
<1>1. /\ s # <<>> /\ s \in Seq(Messages) /\ s[1] \in Messages /\ s[1] = Head(s)
      /\ toSd'[n] = Tail(s)
  BY OrderlyMessages
<1>2. 1 \in 1 .. Len(s)
  BY <1>1
<1>3. tag \in AllTags /\ d \in Clients /\ msg \in Messages
  BY <1>1, MessageKinds
<1>4. NodeOf[d] = n
  BY <1>2 DEF MsgsInv, MsgsOk
<1>5. tag \in Tags(channels) \/ CanAllocate(channels)
  <2>1. DOMAIN pending = AllTags
    BY DEF TypesInv, SdTypes
  <2>2. msg.tag \in Tags(channels) \/ CanAllocate(channels) \/ SdFails
    BY <1>1, SdEventStep
  <2>3. CASE SdFails /\ msg.tag \notin Tags(channels)
    <3>1. channels' = channels /\ channels' = UpdatedFor(n, msg)
      BY <2>3, SdGetParts DEF SdFails
    <3>2. msg.tag \in DOMAIN UpdatedFor(n, msg)
      BY <2>3 DEF UpdatedFor, UpdateParticipant, AddedFor, AddChannel
    <3> QED BY <2>3, <3>1, <3>2 DEF Tags
  <2> QED BY <2>2, <2>3
<1>6. AtSd(d, proc[d], nd[n].conns, inbox[n], s) /\ RequestOk(d)
  BY <1>3, <1>4 DEF RequestsInv, RequestOk
<1>7. /\ Asks(proc[d], tag, msg.qp) /\ Sent(d, proc[d].run, nd[n].conns, tag)
      /\ Unsent(d, inbox[n])
      /\ \A j \in 1 .. Len(s) : s[j].kind = "get" /\ s[j].client = d => j = 1
  <2> HIDE DEF s
  <2>1. s[1].kind = "get" /\ s[1].client = d /\ s[1].tag = tag /\ s[1].qp = msg.qp
    BY DEF s
  <2> QED BY <1>2, <1>6, <2>1 DEF AtSd
<1>8. Handled(d, toSd'[n])
  <2>1. Len(Tail(s)) = Len(s) - 1 /\ \A k \in 1 .. Len(s) - 1 : Tail(s)[k] = s[k + 1]
    BY <1>1
  <2>2. Len(s) \in Nat
    BY <1>1
  <2> HIDE DEF s
  <2>3. ASSUME NEW k \in 1 .. Len(Tail(s)), Tail(s)[k].kind = "get", Tail(s)[k].client = d
        PROVE  FALSE
    <3>1. k + 1 \in 1 .. Len(s) /\ k + 1 # 1 /\ Tail(s)[k] = s[k + 1]
      BY <2>1, <2>2
    <3> QED BY <1>7, <2>3, <3>1
  <2>4. Handled(d, Tail(s))
    BY <2>3 DEF Handled
  <2> QED BY <1>1, <2>4
<1>9. ~Handled(d, s)
  BY <1>2 DEF Handled
<1>10. NotHeld(d, pending)
  BY <1>4, <1>6, <1>9 DEF RequestOk, Held, NotHeld, NoResponse
<1>11. NoResponse(d, fromSd[n])
  BY <1>4, <1>6, <1>9 DEF RequestOk, FromSd, NoResponse
<1>12. toClient[d] = <<>>
  BY <1>4, <1>6, <1>9 DEF RequestOk, Replied
<1> QED BY <1>3, <1>4, <1>5, <1>7, <1>8, <1>10, <1>11, <1>12

\* Nothing is held for a channel that does not exist.
LEMMA HeldIsKnown ==
    ASSUME TypesInv, RequestsInv, NEW t \in AllTags, t \notin Tags(channels)
    PROVE  pending[t] = <<>>
<1>1. pending[t] \in Seq(Responses(Nodes, {t}))
  BY DEF TypesInv, SdTypes
<1>2. SUFFICES ASSUME pending[t] # <<>>
               PROVE  FALSE
  OBVIOUS
<1>3. 1 \in 1 .. Len(pending[t]) /\ pending[t][1] \in Responses(Nodes, {t})
  BY <1>1, <1>2
<1> DEFINE c == pending[t][1].client
<1>4. c \in Clients
  BY <1>3 DEF Responses
<1>5. Held(c, proc[c], nd[NodeOf[c]].conns, owns[NodeOf[c]], channels, inbox[NodeOf[c]],
           toSd[NodeOf[c]], pending)
  BY <1>4 DEF RequestsInv, RequestOk
<1> HIDE DEF c
<1>6. pending[t][1].client = c
  BY DEF c
<1>7. Granted(c, proc[c], t, pending[t][1].fqp, nd[NodeOf[c]].conns, owns[NodeOf[c]], channels)
  BY <1>3, <1>5, <1>6 DEF Held
<1> QED BY <1>7 DEF Granted, Registered

\* The responses held after the request: those held before, and its own.
LEMMA HeldWith ==
    ASSUME NEW n \in Nodes, NEW msg \in Messages, TypesInv, RequestsInv, msg.kind = "get",
           msg.tag \in Tags(channels) \/ CanAllocate(channels)
    PROVE  /\ HeldFor(n, msg) \in Seq(Responses(Nodes, {msg.tag}))
           /\ Len(pending[msg.tag]) \in Nat
           /\ Len(HeldFor(n, msg)) = Len(pending[msg.tag]) + 1
           /\ HeldFor(n, msg)[Len(pending[msg.tag]) + 1]
                 = [node |-> n, client |-> msg.client, tag |-> msg.tag, fqp |-> FqpFor(n, msg)]
           /\ \A k \in 1 .. Len(pending[msg.tag]) :
                 HeldFor(n, msg)[k] = pending[msg.tag][k]
<1> DEFINE held == HeldFor(n, msg)
           s == pending[msg.tag]
           r == [node |-> n, client |-> msg.client, tag |-> msg.tag, fqp |-> FqpFor(n, msg)]
<1>1. msg.tag \in AllTags
  BY MessageKinds
<1>2. held = Append(s, r)
  BY <1>1, HeldIsKnown DEF HeldFor
<1>3. held \in Seq(Responses(Nodes, {msg.tag})) /\ s \in Seq(Responses(Nodes, {msg.tag}))
  BY <1>1, HoldingTypes DEF TypesInv, SdTypes
<1> HIDE DEF held, s, r
<1>4. /\ held \in Seq(Responses(Nodes, {msg.tag}))
      /\ Len(s) \in Nat /\ Len(held) = Len(s) + 1 /\ held[Len(s) + 1] = r
      /\ \A k \in 1 .. Len(s) : held[k] = s[k]
  BY <1>2, <1>3
<1> QED BY <1>4 DEF held, s, r

\* Whoever was registered stays registered.
LEMMA StaysRegistered ==
    ASSUME TypesInv, MsgsInv, RequestsInv, NEW n \in Nodes, SdEvent(n),
           toSd[n][1].kind = "get", SdGetChannel(n, toSd[n][1]), NEW c \in Clients,
           c # toSd[n][1].client,
           NEW run, NEW k, NEW fqp, NEW conns,
           Registered(c, run, k, fqp, conns, owns[NodeOf[c]], channels)
    PROVE  Registered(c, run, k, fqp, conns, owns'[NodeOf[c]], channels')
<1> DEFINE msg == toSd[n][1]
           t == Program[k]
           m == NodeOf[c]
<1>1. /\ msg \in Messages /\ msg.tag \in AllTags /\ msg.kind = "get"
      /\ msg.tag \in Tags(channels) \/ CanAllocate(channels)
  BY RegisterFacts
<1>2. /\ owns' = [owns EXCEPT ![n] = @ \cup {msg.tag}]
      /\ channels' = UpdatedFor(n, msg)
  BY SdGetParts
<1> HIDE DEF msg
<1>3. /\ Sent(c, run, conns, t) /\ t \in owns[m] /\ t \in Tags(channels)
      /\ channels[t].parts[c] = [node |-> m, qp |-> QpNum(run, k), fqp |-> fqp]
  BY DEF Registered
<1>4. t \in owns'[m]
  BY <1>2, <1>3, ConstantTypes DEF TypesInv, SdTypes
<1>5. t \in Tags(channels') /\ channels'[t].parts[c] = channels[t].parts[c]
  <2>0. SdTypes
    BY DEF TypesInv
  <2>1. t \in Tags(channels')
    <3>1. UpdatedFor(n, msg) \in [Tags(channels) \cup {msg.tag} -> Channels]
      BY <1>1, <2>0, RegisteringTypes
    <3> QED BY <1>2, <1>3, <3>1 DEF Tags
  <2>2. CASE t # msg.tag
    <3>1. UpdatedFor(n, msg)[t] = channels[t]
      BY <1>1, <1>3, <2>0, <2>2, RegisteringTypes
    <3> QED BY <1>2, <2>1, <3>1
  <2>3. CASE t = msg.tag
    <3>1. UpdatedFor(n, msg)[msg.tag].parts[c] = AddedFor(msg)[msg.tag].parts[c]
      BY <1>1, <2>0, RegisteringTypes DEF msg
    <3>2. AddedFor(msg)[msg.tag] = channels[msg.tag]
      BY <1>3, <2>3 DEF AddedFor
    <3> QED BY <1>2, <2>1, <2>3, <3>1, <3>2
  <2> QED BY <2>1, <2>2, <2>3
<1> QED BY <1>3, <1>4, <1>5 DEF Registered, m, t

\* Everybody whose response is held, the newest one included, waits for it on an open
\* connection, and has nothing else under way.
LEMMA HeldAreGranted ==
    ASSUME NEW n \in Nodes, NEW msg, NEW tag, NEW held, NEW k \in 1 .. Len(held),
           NEW c \in Clients,
           TypesInv, TypesInv', MsgsInv, RequestsInv, SdEvent(n),
           toSd[n][1].kind = "get", SdGetChannel(n, toSd[n][1]),
           msg = toSd[n][1], tag = msg.tag, held = HeldFor(n, msg), held[k].client = c
    PROVE  /\ held[k].node = NodeOf[c]
           /\ Granted(c, proc[c], tag, held[k].fqp, nd[NodeOf[c]].conns, owns'[NodeOf[c]],
                      channels')
           /\ Unsent(c, inbox[NodeOf[c]]) /\ Handled(c, toSd'[NodeOf[c]])
           /\ \A j \in 1 .. Len(held) : held[j].client = c => j = k
           /\ NoResponse(c, fromSd[NodeOf[c]]) /\ toClient[c] = <<>>
           /\ \A t \in AllTags : t # tag => NoResponse(c, pending[t])
<1> DEFINE m == NodeOf[c]
           s == pending[tag]
           d == msg.client
           r == [node |-> n, client |-> d, tag |-> tag, fqp |-> FqpFor(n, msg)]
           conns == nd[m].conns
<1>1. /\ msg \in Messages /\ tag \in AllTags /\ d \in Clients /\ NodeOf[d] = n
      /\ tag \in Tags(channels) \/ CanAllocate(channels)
      /\ msg.kind = "get" /\ msg.tag = tag /\ m \in Nodes
  BY RegisterFacts, ConstantTypes
<1>2. /\ Asks(proc[d], tag, msg.qp) /\ Sent(d, proc[d].run, nd[n].conns, tag)
      /\ Unsent(d, inbox[n]) /\ Handled(d, toSd'[n])
      /\ NotHeld(d, pending) /\ NoResponse(d, fromSd[n]) /\ toClient[d] = <<>>
  BY RegisterFacts
<1>3. /\ Len(s) \in Nat /\ Len(held) = Len(s) + 1 /\ held[Len(s) + 1] = r
      /\ \A j \in 1 .. Len(s) : held[j] = s[j]
  <2>1. s = pending[msg.tag] /\ r = [node |-> n, client |-> msg.client, tag |-> msg.tag,
                                    fqp |-> FqpFor(n, msg)]
    BY <1>1
  <2>2. msg.tag \in Tags(channels) \/ CanAllocate(channels)
    BY <1>1
  <2> HIDE DEF r
  <2>3. /\ Len(pending[msg.tag]) \in Nat
        /\ Len(HeldFor(n, msg)) = Len(pending[msg.tag]) + 1
        /\ HeldFor(n, msg)[Len(pending[msg.tag]) + 1]
              = [node |-> n, client |-> msg.client, tag |-> msg.tag, fqp |-> FqpFor(n, msg)]
        /\ \A j \in 1 .. Len(pending[msg.tag]) :
              HeldFor(n, msg)[j] = pending[msg.tag][j]
    BY <1>1, <2>2, HeldWith
  <2> HIDE DEF s
  <2> QED BY <2>1, <2>3
<1>4. /\ RequestOk(c) /\ MsgsStep(c, toSd[m], toSd'[m])
      /\ Held(c, proc[c], conns, owns[m], channels, inbox[m], toSd[m], pending)
      /\ FromSd(c, proc[c], conns, owns[m], channels, inbox[m], toSd[m], pending, fromSd[m])
      /\ Replied(c, proc[c], conns, owns[m], channels, inbox[m], toSd[m], pending, fromSd[m],
                 toClient[c])
  BY OrderlyMessages DEF RequestsInv, RequestOk
<1>5. r.client = d /\ r.node = n /\ r.fqp = FqpFor(n, msg)
  OBVIOUS
<1>a. NoResponse(d, s)
  BY <1>1, <1>2 DEF NotHeld
<1>6. CASE k \in 1 .. Len(s)
  <2>1. s[k].client = c /\ held[k] = s[k]
    BY <1>3, <1>6
  <2> HIDE DEF s
  <2>2. /\ s[k].node = NodeOf[c]
        /\ Granted(c, proc[c], tag, s[k].fqp, conns, owns[m], channels)
        /\ Unsent(c, inbox[m]) /\ Handled(c, toSd[m])
        /\ \A j \in 1 .. Len(s) : s[j].client = c => j = k
    BY <1>1, <1>4, <1>6, <2>1 DEF Held, s
  <2>3. c # d
    BY <1>a, <1>6, <2>1 DEF NoResponse
  <2>4. Granted(c, proc[c], tag, s[k].fqp, conns, owns'[m], channels')
    <3>1. /\ proc[c].state = "waiting" /\ tag = Program[proc[c].got + 1]
          /\ Registered(c, proc[c].run, proc[c].got + 1, s[k].fqp, conns, owns[m], channels)
      BY <2>2 DEF Granted
    <3>2. Registered(c, proc[c].run, proc[c].got + 1, s[k].fqp, conns, owns'[m], channels')
      BY <2>3, <3>1, StaysRegistered
    <3> QED BY <3>1, <3>2 DEF Granted
  <2>5. Handled(c, toSd'[m])
    <3>1. toSd[m] \in Seq(Messages) /\ toSd'[m] \in Seq(Messages)
      BY <1>1 DEF TypesInv, NdTypes
    <3> QED BY <1>4, <2>2, <3>1, MsgsOfOthers
  <2>6. ASSUME NEW j \in 1 .. Len(held), held[j].client = c
        PROVE  j = k
    <3>1. j \in 1 .. Len(s) \/ j = Len(s) + 1
      BY <1>3
    <3> QED BY <1>3, <1>5, <2>2, <2>3, <2>6, <3>1
  <2>7. ~NotHeld(c, pending)
    BY <1>1, <1>6, <2>1 DEF NotHeld, NoResponse, s
  <2>8. NoResponse(c, fromSd[m])
    BY <1>4, <2>7 DEF FromSd, NoResponse
  <2>9. toClient[c] = <<>>
    BY <1>4, <2>7 DEF Replied
  <2>10. ASSUME NEW t \in AllTags, t # tag
         PROVE  NoResponse(c, pending[t])
    BY <1>4, <2>2, <2>10 DEF NoResponse, Held, Granted
  <2> QED BY <2>1, <2>2, <2>4, <2>5, <2>6, <2>8, <2>9, <2>10
<1>7. CASE k = Len(s) + 1
  <2>1. c = d /\ m = n /\ held[k] = r
    BY <1>1, <1>3, <1>5, <1>7
  <2>2. Granted(c, proc[c], tag, r.fqp, conns, owns'[m], channels')
    <3>1. /\ owns' = [owns EXCEPT ![n] = @ \cup {tag}]
          /\ channels' = UpdatedFor(n, msg)
      BY SdGetParts
    <3>2. tag \in owns'[n]
      BY <1>1, <2>1, <3>1 DEF TypesInv, SdTypes
    <3>a. SdTypes /\ msg \in Messages /\ msg.kind = "get"
          /\ (msg.tag \in Tags(channels) \/ CanAllocate(channels))
      BY <1>1 DEF TypesInv
    <3>3. UpdatedFor(n, msg) \in [Tags(channels) \cup {msg.tag} -> Channels]
      BY <3>a, RegisteringTypes
    <3>4. UpdatedFor(n, msg)[msg.tag].parts[msg.client]
             = [node |-> n, qp |-> msg.qp, fqp |-> FqpFor(n, msg)]
      BY <3>a, RegisteringTypes
    <3>5. tag \in Tags(channels') /\ channels'[tag].parts[c]
             = [node |-> NodeOf[c], qp |-> msg.qp, fqp |-> r.fqp]
      BY <1>1, <1>5, <2>1, <3>1, <3>3, <3>4 DEF Tags
    <3> HIDE DEF r, conns
    <3> QED BY <1>2, <2>1, <3>2, <3>5 DEF Granted, Registered, Asks, conns
  <2>3. ASSUME NEW j \in 1 .. Len(held), held[j].client = c
        PROVE  j = k
    <3>1. j \in 1 .. Len(s) \/ j = Len(s) + 1
      BY <1>3
    <3> QED BY <1>3, <1>7, <1>a, <2>1, <2>3, <3>1 DEF NoResponse
  <2>4. \A t \in AllTags : t # tag => NoResponse(c, pending[t])
    BY <1>2, <2>1 DEF NotHeld
  <2> QED BY <1>1, <1>2, <1>5, <2>1, <2>2, <2>3, <2>4
<1>8. k \in 1 .. Len(s) \/ k = Len(s) + 1
  BY <1>3
<1> QED BY <1>6, <1>7, <1>8

\* The places of the held responses for a node, and their order in the answer.
At(n, held) == {k \in 1 .. Len(held) : held[k].node = n}

LEMMA ForwardingOrder ==
    ASSUME NEW n, NEW held, Len(held) \in Nat
    PROVE  /\ Cardinality(At(n, held)) \in Nat
           /\ \A k \in 1 .. Cardinality(At(n, held)) :
                 /\ Ascending(At(n, held))[k] \in 1 .. Len(held)
                 /\ held[Ascending(At(n, held))[k]].node = n
                 /\ ResponsesFor(n, held)[k] = held[Ascending(At(n, held))[k]]
           /\ \A x \in 1 .. Len(held) : held[x].node = n =>
                 \E k \in 1 .. Cardinality(At(n, held)) : Ascending(At(n, held))[k] = x
           /\ \A j, k \in 1 .. Cardinality(At(n, held)) :
                 Ascending(At(n, held))[j] = Ascending(At(n, held))[k] => j = k
           /\ Len(ResponsesFor(n, held)) = Cardinality(At(n, held))
<1> DEFINE at == At(n, held)
<1>1. at \in SUBSET Nat /\ IsFiniteSet(at)
  <2>1. IsFiniteSet(1 .. Len(held)) /\ at \in SUBSET (1 .. Len(held))
    BY FS_Interval DEF At
  <2>2. at \in SUBSET Nat
    BY <2>1
  <2> QED BY <2>1, <2>2, FS_Subset
<1>2. ResponsesFor(n, held) = [k \in 1 .. Cardinality(at) |-> held[Ascending(at)[k]]]
  BY DEF ResponsesFor, At
<1>3. \A x : x \in at <=> x \in 1 .. Len(held) /\ held[x].node = n
  BY DEF At
<1> HIDE DEF at
<1>4. /\ Cardinality(at) \in Nat
      /\ \A k \in 1 .. Cardinality(at) : Ascending(at)[k] \in at
      /\ \A x \in at : \E k \in 1 .. Cardinality(at) : Ascending(at)[k] = x
      /\ \A j, k \in 1 .. Cardinality(at) : Ascending(at)[j] = Ascending(at)[k] => j = k
  BY <1>1, AscendingFacts
<1>5. Len(ResponsesFor(n, held)) = Cardinality(at)
  BY <1>2, <1>4
<1>6. \A k \in 1 .. Cardinality(at) :
         /\ Ascending(at)[k] \in 1 .. Len(held)
         /\ held[Ascending(at)[k]].node = n
         /\ ResponsesFor(n, held)[k] = held[Ascending(at)[k]]
  BY <1>2, <1>3, <1>4
<1>7. \A x \in 1 .. Len(held) : held[x].node = n =>
         \E k \in 1 .. Cardinality(at) : Ascending(at)[k] = x
  BY <1>3, <1>4
<1> QED BY <1>4, <1>5, <1>6, <1>7 DEF at

LEMMA ResponseIsHeld ==
    ASSUME NEW n, NEW held, NEW j \in 1 .. Len(ResponsesFor(n, held)), Len(held) \in Nat
    PROVE  \E k \in 1 .. Len(held) : held[k].node = n /\ ResponsesFor(n, held)[j] = held[k]
<1> DEFINE k == Ascending(At(n, held))[j]
<1>1. k \in 1 .. Len(held) /\ held[k].node = n /\ ResponsesFor(n, held)[j] = held[k]
  BY ForwardingOrder
<1> HIDE DEF k
<1> QED BY <1>1

\* The response to a client is forwarded once if it is held once.
LEMMA ResponseIsUnique ==
    ASSUME NEW n, NEW held, NEW c,
           NEW i \in 1 .. Len(ResponsesFor(n, held)), NEW j \in 1 .. Len(ResponsesFor(n, held)),
           Len(held) \in Nat,
           ResponsesFor(n, held)[i].client = c, ResponsesFor(n, held)[j].client = c,
           \A k, l \in 1 .. Len(held) : held[k].client = c /\ held[l].client = c => k = l
    PROVE  i = j
<1> DEFINE k == Ascending(At(n, held))[i]
           l == Ascending(At(n, held))[j]
           N == Cardinality(At(n, held))
<1>1. i \in 1 .. N /\ j \in 1 .. N
  BY ForwardingOrder
<1>2. k \in 1 .. Len(held) /\ ResponsesFor(n, held)[i] = held[k]
  BY <1>1, ForwardingOrder
<1>3. l \in 1 .. Len(held) /\ ResponsesFor(n, held)[j] = held[l]
  BY <1>1, ForwardingOrder
<1>4. k = l => i = j
  BY <1>1, ForwardingOrder
<1> HIDE DEF k, l, N
<1> QED BY <1>2, <1>3, <1>4

\* Responses are added behind others, one of them to a client that had none.
Joined(u, a, b) ==
    /\ Len(a) \in Nat /\ Len(b) \in Nat /\ Len(u) = Len(a) + Len(b)
    /\ \A j \in 1 .. Len(a) : u[j] = a[j]
    /\ \A j \in 1 .. Len(b) : u[Len(a) + j] = b[j]

LEMMA JoinedPlace ==
    ASSUME NEW u, NEW a, NEW b, NEW k \in 1 .. Len(u), NEW c,
           Joined(u, a, b), NoResponse(c, a), u[k].client = c
    PROVE  k - Len(a) \in 1 .. Len(b) /\ u[k] = b[k - Len(a)]
<1>1. k \notin 1 .. Len(a)
  BY DEF NoResponse, Joined
<1>2. k - Len(a) \in 1 .. Len(b) /\ Len(a) + (k - Len(a)) = k
  BY <1>1 DEF Joined
<1> QED BY <1>2 DEF Joined

LEMMA ResponseJoined ==
    ASSUME NEW u, NEW a, NEW b, NEW k \in 1 .. Len(u), NEW c, NEW r,
           Joined(u, a, b), NoResponse(c, a), u[k].client = c,
           \A j \in 1 .. Len(b) : b[j].client = c => b[j] = r
    PROVE  u[k] = r
<1>1. k - Len(a) \in 1 .. Len(b) /\ u[k] = b[k - Len(a)]
  BY JoinedPlace
<1> QED BY <1>1

LEMMA ResponseIsOnly ==
    ASSUME NEW u, NEW a, NEW b, NEW k \in 1 .. Len(u), NEW l \in 1 .. Len(u), NEW c,
           Joined(u, a, b), NoResponse(c, a), u[k].client = c, u[l].client = c,
           \A i, j \in 1 .. Len(b) : b[i].client = c /\ b[j].client = c => i = j
    PROVE  k = l
<1>1. k - Len(a) \in 1 .. Len(b) /\ u[k] = b[k - Len(a)]
  BY JoinedPlace
<1>2. l - Len(a) \in 1 .. Len(b) /\ u[l] = b[l - Len(a)]
  BY JoinedPlace
<1>3. k - Len(a) = l - Len(a)
  BY <1>1, <1>2
<1> QED BY <1>3 DEF Joined

LEMMA RequestsRegistered ==
    ASSUME TypesInv, TypesInv', MsgsInv, RequestsInv, NEW n \in Nodes, SdEvent(n),
           toSd[n][1].kind = "get", SdGetChannel(n, toSd[n][1]), NEW c \in Clients
    PROVE  RequestOk(c)'
<1> DEFINE msg == toSd[n][1]
           tag == msg.tag
           held == HeldFor(n, msg)
           m == NodeOf[c]
           s == pending[tag]
           p == proc[c]
<1>1. /\ msg \in Messages /\ tag \in AllTags /\ msg.client \in Clients
      /\ tag \in Tags(channels) \/ CanAllocate(channels)
      /\ msg.kind = "get" /\ m \in Nodes
  BY RegisterFacts, ConstantTypes
<1>2. /\ held \in Seq(Responses(Nodes, {tag}))
      /\ Len(s) \in Nat /\ Len(held) = Len(s) + 1
      /\ held[Len(s) + 1].client = msg.client
      /\ \A k \in 1 .. Len(s) : held[k] = s[k]
  <2>1. msg.tag \in Tags(channels) \/ CanAllocate(channels)
    BY <1>1
  <2> HIDE DEF msg
  <2>2. /\ HeldFor(n, msg) \in Seq(Responses(Nodes, {msg.tag}))
        /\ Len(pending[msg.tag]) \in Nat
        /\ Len(HeldFor(n, msg)) = Len(pending[msg.tag]) + 1
        /\ HeldFor(n, msg)[Len(pending[msg.tag]) + 1]
              = [node |-> n, client |-> msg.client, tag |-> msg.tag, fqp |-> FqpFor(n, msg)]
        /\ \A k \in 1 .. Len(pending[msg.tag]) :
              HeldFor(n, msg)[k] = pending[msg.tag][k]
    BY <1>1, <2>1, HeldWith
  <2> QED BY <2>2
<1>3. /\ DOMAIN pending = AllTags /\ DOMAIN fromSd = Nodes
      /\ \A t \in AllTags : pending[t] \in Seq(Responses(Nodes, {t}))
      /\ \A x \in Nodes : fromSd[x] \in Seq(Responses({x}, AllTags))
  BY DEF TypesInv, SdTypes
<1>4. \/ /\ pending' = [pending EXCEPT ![tag] = <<>>]
         /\ Respond(held)
      \/ /\ pending' = [pending EXCEPT ![tag] = held]
         /\ fromSd' = fromSd
  BY SdGetParts
<1>5. /\ proc' = proc /\ toClient' = toClient /\ nd' = nd /\ inbox' = inbox
      /\ RequestOk(c)
  BY OrderlyMessages DEF RequestsInv
<1>6. Respond(held) =>
         /\ fromSd'[m] = fromSd[m] \o ResponsesFor(m, held)
         /\ ResponsesFor(m, held) \in Seq(Responses({m}, {tag}))
         /\ fromSd[m] \in Seq(Responses({m}, AllTags))
  <2>1. Respond(held) => fromSd'[m] = fromSd[m] \o ResponsesFor(m, held)
    BY <1>1 DEF Respond
  <2> HIDE DEF held, tag
  <2>2. ResponsesFor(m, held) \in Seq(Responses({m}, {tag}))
    BY <1>1, <1>2, ResponsesForFacts
  <2> QED BY <1>1, <1>3, <2>1, <2>2
<1>7. CASE NoResponse(c, held)
  <2>1. c # msg.client
    <3>1. Len(s) + 1 \in 1 .. Len(held)
      BY <1>2
    <3> HIDE DEF held, s, msg
    <3> QED BY <1>2, <1>7, <3>1 DEF NoResponse
  <2>2. \A t \in AllTags : RespsStep(c, pending[t], pending'[t])
    <3>1. ASSUME NEW t \in AllTags, t # tag
          PROVE  RespsStep(c, pending[t], pending'[t])
      <4>1. pending'[t] = pending[t]
        BY <1>3, <1>4, <3>1
      <4> QED BY <1>3, <4>1, QueueUnchanged
    <3>2. RespsStep(c, s, <<>>)
      BY DEF RespsStep
    <3>3. RespsStep(c, s, held)
      <4> HIDE DEF held, s
      <4>1. \A k \in Len(s) + 1 .. Len(held) : k \in 1 .. Len(held)
        BY <1>2
      <4> QED BY <1>2, <1>7, <4>1 DEF RespsStep, NoResponse
    <3>4. pending'[tag] = <<>> \/ pending'[tag] = held
      BY <1>1, <1>3, <1>4
    <3> QED BY <3>1, <3>2, <3>3, <3>4
  <2>3. RespsStep(c, fromSd[m], fromSd'[m])
    <3>1. CASE fromSd' = fromSd
      BY <1>1, <1>3, <3>1, QueueUnchanged
    <3>2. CASE Respond(held)
      <4> DEFINE a == fromSd[m]
                 b == ResponsesFor(m, held)
      <4>1. \A j \in 1 .. Len(b) : b[j].client # c
        <5>1. \A j \in 1 .. Len(b) : \E k \in 1 .. Len(held) : b[j] = held[k]
          <6>1. Len(held) \in Nat
            BY <1>2
          <6> HIDE DEF held, b
          <6>2. ASSUME NEW j \in 1 .. Len(ResponsesFor(m, held))
                PROVE  \E k \in 1 .. Len(held) : ResponsesFor(m, held)[j] = held[k]
            BY <6>1, ResponseIsHeld
          <6> QED BY <6>2 DEF b
        <5> HIDE DEF held, b
        <5> QED BY <1>7, <5>1 DEF NoResponse
      <4>2. a \in Seq(Responses({m}, AllTags)) /\ b \in Seq(Responses({m}, AllTags))
        <5>1. b \in Seq(Responses({m}, {tag}))
          BY <1>6, <3>2
        <5>2. Responses({m}, {tag}) \subseteq Responses({m}, AllTags)
          BY <1>1 DEF Responses
        <5> DEFINE X == Responses({m}, {tag})
                   Y == Responses({m}, AllTags)
        <5>3. b \in Seq(X) /\ X \subseteq Y /\ a \in Seq(Y)
          BY <1>1, <1>3, <5>1, <5>2
        <5> HIDE DEF a, b, X, Y
        <5>4. b \in Seq(Y)
          BY <5>3
        <5> QED BY <5>3, <5>4 DEF Y
      <4>3. fromSd'[m] = a \o b
        BY <1>6, <3>2
      <4> HIDE DEF a, b
      <4> DEFINE u == a \o b
      <4>4. /\ Len(u) = Len(a) + Len(b)
            /\ \A j \in 1 .. Len(a) : u[j] = a[j]
            /\ \A j \in 1 .. Len(b) : u[Len(a) + j] = b[j]
        BY <4>2, JoinFacts
      <4>5. Len(a) \in Nat /\ Len(b) \in Nat
        BY <4>2
      <4> HIDE DEF u
      <4>6. ASSUME NEW k \in Len(a) + 1 .. Len(u)
            PROVE  u[k].client # c
        <5>1. k - Len(a) \in 1 .. Len(b) /\ Len(a) + (k - Len(a)) = k
          BY <4>4, <4>5
        <5>2. u[k] = b[k - Len(a)]
          BY <4>4, <5>1
        <5> QED BY <4>1, <5>1, <5>2
      <4>7. Len(u) >= Len(a)
        BY <4>4, <4>5
      <4>8. RespsStep(c, a, u)
        BY <4>4, <4>6, <4>7 DEF RespsStep
      <4> QED BY <4>3, <4>8 DEF a, u
    <3> QED BY <1>4, <3>1, <3>2
  <2>4. ASSUME NEW k, NEW fqp,
               Registered(c, p.run, k, fqp, nd[m].conns, owns[m], channels)
        PROVE  Registered(c, p.run, k, fqp, nd[m].conns, owns'[m], channels')
    BY <2>1, <2>4, StaysRegistered
  <2> QED BY <2>2, <2>3, <2>4, RequestAtAgent
<1>8. ASSUME NEW k \in 1 .. Len(held), held[k].client = c
      PROVE  RequestOk(c)'
  <2> DEFINE conns == nd[m].conns
             r == held[k]
  <2>1. msg = toSd[n][1] /\ tag = msg.tag /\ held = HeldFor(n, msg)
    OBVIOUS
  <2> HIDE DEF msg, tag, held
  <2>2. r.node = m
    BY <1>8, <2>1, HeldAreGranted
  <2>3. Granted(c, p, tag, r.fqp, conns, owns'[m], channels')
    BY <1>8, <2>1, HeldAreGranted
  <2>4. Unsent(c, inbox[m]) /\ Handled(c, toSd'[m])
    BY <1>8, <2>1, HeldAreGranted
  <2>5. \A j \in 1 .. Len(held) : held[j].client = c => j = k
    BY <1>8, <2>1, HeldAreGranted
  <2>6. NoResponse(c, fromSd[m]) /\ toClient[c] = <<>>
    BY <1>8, <2>1, HeldAreGranted
  <2>7. \A t \in AllTags : t # tag => NoResponse(c, pending[t])
    BY <1>8, <2>1, HeldAreGranted
  <2>8. pending'[tag] = <<>> \/ pending'[tag] = held
    BY <1>1, <1>3, <1>4
  <2>9. \A t \in AllTags : t # tag => pending'[t] = pending[t]
    BY <1>3, <1>4
  <2>10. r \in Responses(Nodes, {tag}) /\ r.tag = tag
    <3>1. r \in Responses(Nodes, {tag})
      BY <1>2, <1>8
    <3> QED BY <3>1 DEF Responses
  <2>11. \A j \in 1 .. Len(<<>>) : FALSE
    OBVIOUS
  <2>12. Held(c, p, conns, owns'[m], channels', inbox[m], toSd'[m], pending')
    <3> SUFFICES ASSUME NEW t \in AllTags, NEW j \in 1 .. Len(pending'[t]),
                        pending'[t][j].client = c
                 PROVE  /\ pending'[t][j].node = m
                        /\ Granted(c, p, t, pending'[t][j].fqp, conns, owns'[m], channels')
                        /\ \A i \in 1 .. Len(pending'[t]) : pending'[t][i].client = c => i = j
      BY <2>4 DEF Held
    <3>1. t = tag
      BY <2>7, <2>9 DEF NoResponse
    <3>2. pending'[t] = held
      BY <2>8, <2>11, <3>1
    <3>3. j = k
      BY <2>5, <3>2
    <3>4. pending'[t][j] = r
      BY <3>2, <3>3
    <3> HIDE DEF r
    <3>5. pending'[t][j].node = m /\ Granted(c, p, t, pending'[t][j].fqp, conns, owns'[m], channels')
      BY <2>2, <2>3, <3>1, <3>4
    <3> QED BY <2>5, <3>2, <3>3, <3>5
  <2>13. FromSd(c, p, conns, owns'[m], channels', inbox[m], toSd'[m], pending', fromSd'[m])
    <3>1. CASE fromSd' = fromSd
      BY <2>6, <3>1 DEF FromSd, NoResponse
    <3>2. CASE Respond(held) /\ pending' = [pending EXCEPT ![tag] = <<>>]
      <4> DEFINE a == fromSd[m]
                 b == ResponsesFor(m, held)
                 Y == Responses({m}, AllTags)
                 u == fromSd'[m]
      <4>1. fromSd'[m] = a \o b /\ b \in Seq(Responses({m}, {tag})) /\ a \in Seq(Y)
        BY <1>6, <3>2
      <4>2. b \in Seq(Y)
        <5> DEFINE X == Responses({m}, {tag})
        <5>1. b \in Seq(X) /\ X \subseteq Y
          BY <1>1, <4>1 DEF Responses
        <5> HIDE DEF b, X, Y
        <5> QED BY <5>1
      <4>3. Len(held) \in Nat
        BY <1>2
      <4>4. \A j \in 1 .. Len(b) : b[j].client = c => b[j] = r
        <5> SUFFICES ASSUME NEW j \in 1 .. Len(ResponsesFor(m, held)), b[j].client = c
                     PROVE  b[j] = r
          OBVIOUS
        <5>1. \E l \in 1 .. Len(held) : held[l].node = m /\ b[j] = held[l]
          BY <4>3, ResponseIsHeld
        <5> HIDE DEF b
        <5> QED BY <2>5, <5>1
      <4>5. \A i, j \in 1 .. Len(b) : b[i].client = c /\ b[j].client = c => i = j
        <5> SUFFICES ASSUME NEW i \in 1 .. Len(ResponsesFor(m, held)),
                            NEW j \in 1 .. Len(ResponsesFor(m, held)),
                            ResponsesFor(m, held)[i].client = c, ResponsesFor(m, held)[j].client = c
                     PROVE  i = j
          OBVIOUS
        <5>1. \A h, l \in 1 .. Len(held) : held[h].client = c /\ held[l].client = c => h = l
          BY <2>5
        <5> QED BY <4>3, <5>1, ResponseIsUnique
      <4>a. NoResponse(c, a)
        BY <2>6
      <4> HIDE DEF a, b, Y, r
      <4>b. a \in Seq(Y) /\ b \in Seq(Y)
        BY <4>1, <4>2
      <4>6. Joined(u, a, b)
        <5>1. /\ Len(a \o b) = Len(a) + Len(b)
              /\ \A j \in 1 .. Len(a) : (a \o b)[j] = a[j]
              /\ \A j \in 1 .. Len(b) : (a \o b)[Len(a) + j] = b[j]
          BY <4>b, JoinFacts
        <5>2. Len(a) \in Nat /\ Len(b) \in Nat
          BY <4>b
        <5> QED BY <4>1, <5>1, <5>2 DEF Joined
      <4> HIDE DEF u
      <4>7. /\ \A j \in 1 .. Len(u) : u[j].client = c => u[j] = r
            /\ \A i, j \in 1 .. Len(u) : u[i].client = c /\ u[j].client = c => i = j
        <5>1. ASSUME NEW j \in 1 .. Len(u), u[j].client = c
              PROVE  u[j] = r
          BY <4>a, <4>4, <4>6, <5>1, ResponseJoined
        <5>2. ASSUME NEW i \in 1 .. Len(u), NEW j \in 1 .. Len(u), u[i].client = c, u[j].client = c
              PROVE  i = j
          BY <4>a, <4>5, <4>6, <5>2, ResponseIsOnly
        <5> QED BY <5>1, <5>2
      <4>8. NotHeld(c, pending')
        BY <1>1, <1>3, <2>7, <2>9, <2>11, <3>2 DEF NotHeld, NoResponse
      <4>9. FromSd(c, p, conns, owns'[m], channels', inbox[m], toSd'[m], pending', u)
        BY <2>3, <2>4, <2>10, <4>7, <4>8 DEF FromSd
      <4> QED BY <4>9 DEF u
    <3> QED BY <1>4, <3>1, <3>2
  <2>14. InInbox(c, p, inbox[m]) /\ p.state = "waiting"
    BY <1>5, <2>3 DEF RequestOk, Granted
  <2>15. AtSd(c, p, conns, inbox[m], toSd'[m])
    BY <2>4 DEF AtSd, Handled
  <2>16. Replied(c, p, conns, owns'[m], channels', inbox[m], toSd'[m], pending', fromSd'[m],
                 toClient[c])
    BY <2>6 DEF Replied
  <2>17. Obtained(c, p, conns, owns'[m], channels')
    BY <2>14 DEF Obtained
  <2> HIDE DEF conns, p, m
  <2> QED BY <1>5, <2>12, <2>13, <2>14, <2>15, <2>16, <2>17 DEF RequestOk, conns, p, m
<1> QED BY <1>7, <1>8 DEF NoResponse

\* An exception that ends the agent changes no request.
LEMMA RequestsSdEvent ==
    ASSUME TypesInv, TypesInv', MsgsInv, RequestsInv, NEW n \in Nodes, SdEvent(n),
           NEW c \in Clients
    PROVE  RequestOk(c)'
<1> DEFINE msg == toSd[n][1]
           m == NodeOf[c]
<1>1. msg.kind \in {"get", "unref"} /\ msg = Head(toSd[n]) /\ m \in Nodes
  BY OrderlyMessages, ConstantTypes
<1>2. \/ msg.kind = "get" /\ SdGetChannel(n, msg)
      \/ SdFails
      \/ msg.kind = "unref"
  BY <1>1, SdEventStep
<1>3. CASE SdFails
  <2>1. fromSd' = fromSd /\ owns' = owns /\ pending' = pending /\ channels' = channels
    BY <1>3 DEF SdFails
  <2>2. /\ \A t \in AllTags : RespsStep(c, pending[t], pending'[t])
        /\ RespsStep(c, fromSd[m], fromSd'[m])
    BY <1>1, <2>1, QueueUnchanged DEF TypesInv, SdTypes
  <2> QED BY <2>1, <2>2, RequestAtAgent
<1> QED BY <1>2, <1>3, RequestsRegistered, RequestsUnref

\* The agent answers every node daemon for clients of its own node.
LEMMA ResponsesRouted ==
    ASSUME TypesInv, TypesInv', MsgsInv, RequestsInv, NEW n \in Nodes, SdEvent(n),
           NEW x \in Nodes, NEW k \in 1 .. Len(fromSd'[x])
    PROVE  NodeOf[fromSd'[x][k].client] = x
<1> DEFINE msg == toSd[n][1]
           held == HeldFor(n, msg)
           tag == msg.tag
<1>1. msg.kind \in {"get", "unref"} /\ msg = Head(toSd[n])
  BY OrderlyMessages
<1>2. \/ msg.kind = "get" /\ SdGetChannel(n, msg) /\ Respond(held)
      \/ fromSd' = fromSd
  BY <1>1, SdEventStep, SdGetParts DEF SdFails, SdUnrefChannel, RemoveUnowned, sdVars, SdDisconnect
<1>3. CASE fromSd' = fromSd
  BY <1>3 DEF RequestsInv
<1>4. CASE msg.kind = "get" /\ SdGetChannel(n, msg) /\ Respond(held)
  <2>1. msg \in Messages /\ (msg.tag \in Tags(channels) \/ CanAllocate(channels))
    BY <1>4, RegisterFacts
  <2>2. held \in Seq(Responses(Nodes, {tag}))
    BY <1>4, <2>1, HeldWith
  <2> DEFINE a == fromSd[x]
             b == ResponsesFor(x, held)
             u == fromSd'[x]
             X == Responses({x}, {tag})
             Y == Responses({x}, AllTags)
  <2>3. u = a \o b
    BY <1>4 DEF Respond
  <2>4. a \in Seq(Y)
    BY DEF TypesInv, SdTypes
  <2>5. X \subseteq Y
    BY <2>1, MessageKinds, <1>4 DEF Responses
  <2>6. b \in Seq(X)
    <3> HIDE DEF held, tag
    <3> QED BY <2>2, ResponsesForFacts
  <2>7. Len(held) \in Nat
    BY <2>2
  <2>8. \A j \in 1 .. Len(b) : NodeOf[b[j].client] = x
    <3> SUFFICES ASSUME NEW j \in 1 .. Len(ResponsesFor(x, held))
                 PROVE  NodeOf[ResponsesFor(x, held)[j].client] = x
      OBVIOUS
    <3>1. \E l \in 1 .. Len(held) : held[l].node = x /\ ResponsesFor(x, held)[j] = held[l]
      <4> HIDE DEF held
      <4> QED BY <2>7, ResponseIsHeld
    <3>2. PICK l \in 1 .. Len(held) : held[l].node = x /\ b[j] = held[l]
      BY <3>1
    <3> DEFINE c == held[l].client
    <3>3. c \in Clients
      <4>1. held[l] \in Responses(Nodes, {tag})
        <5> HIDE DEF held, tag
        <5> QED BY <2>2
      <4> HIDE DEF held
      <4> QED BY <4>1 DEF Responses
    <3>4. msg = toSd[n][1] /\ tag = msg.tag /\ held = HeldFor(n, msg) /\ held[l].client = c
      OBVIOUS
    <3> HIDE DEF msg, tag, held, c, b
    <3>5. held[l].node = NodeOf[c]
      BY <1>4, <3>3, <3>4, HeldAreGranted DEF msg
    <3> QED BY <3>2, <3>5 DEF c, b
  <2>9. \A j \in 1 .. Len(a) : NodeOf[a[j].client] = x
    BY DEF RequestsInv
  <2>10. Joined(u, a, b)
    <3> HIDE DEF a, b, u, X, Y
    <3>1. b \in Seq(Y)
      BY <2>5, <2>6
    <3>2. /\ Len(a \o b) = Len(a) + Len(b)
          /\ \A j \in 1 .. Len(a) : (a \o b)[j] = a[j]
          /\ \A j \in 1 .. Len(b) : (a \o b)[Len(a) + j] = b[j]
      BY <2>4, <3>1, JoinFacts
    <3>3. Len(a) \in Nat /\ Len(b) \in Nat
      BY <2>4, <3>1
    <3> QED BY <2>3, <3>2, <3>3 DEF Joined
  <2>11. k \in 1 .. Len(u)
    OBVIOUS
  <2> HIDE DEF a, b, u
  <2>12. CASE k \in 1 .. Len(a)
    BY <2>9, <2>10, <2>12 DEF Joined, u
  <2>13. CASE k \notin 1 .. Len(a)
    <3>1. k - Len(a) \in 1 .. Len(b) /\ Len(a) + (k - Len(a)) = k
      BY <2>10, <2>11, <2>13 DEF Joined
    <3>2. u[k] = b[k - Len(a)]
      BY <2>10, <3>1 DEF Joined
    <3> QED BY <2>8, <3>1, <3>2 DEF u
  <2> QED BY <2>12, <2>13
<1> QED BY <1>2, <1>3, <1>4

LEMMA RoutedNext ==
    ASSUME TypesInv, TypesInv', MsgsInv, RequestsInv, ControlNext,
           NEW x \in Nodes, NEW k \in 1 .. Len(fromSd'[x])
    PROVE  NodeOf[fromSd'[x][k].client] = x
<1>1. CASE fromSd' = fromSd
  BY <1>1 DEF RequestsInv
<1>2. ASSUME NEW c \in Clients,
             Start(c) \/ GetChannel(c) \/ ReadReply(c) \/ Exit(c) \/ Kill(c)
      PROVE  fromSd' = fromSd
  BY <1>2 DEF Start, GetChannel, ReadReply, Exit, Kill, End
<1>3. ASSUME NEW n \in Nodes, Discover(n) \/ NdClientEvent(n)
      PROVE  fromSd' = fromSd
  BY <1>3 DEF Discover, NdClientEvent
<1>4. ASSUME NEW n \in Nodes, NdSwitchEvent(n)
      PROVE  NodeOf[fromSd'[x][k].client] = x
  <2>1. /\ fromSd' = [fromSd EXCEPT ![n] = Tail(@)] /\ fromSd[n] # <<>>
        /\ fromSd[x] \in Seq(Responses({x}, AllTags)) /\ DOMAIN fromSd = Nodes
    BY <1>4, NdSwitchEventStep DEF TypesInv, SdTypes
  <2>2. CASE x = n
    <3> DEFINE S == Responses({x}, AllTags)
               s == fromSd[x]
    <3>1. s \in Seq(S) /\ s # <<>> /\ fromSd'[x] = Tail(s)
      BY <2>1, <2>2
    <3> HIDE DEF S, s
    <3>2. k + 1 \in 1 .. Len(s) /\ fromSd'[x][k] = s[k + 1]
      BY <3>1
    <3> QED BY <3>2 DEF RequestsInv, s
  <2>3. CASE x # n
    <3>1. fromSd'[x] = fromSd[x]
      BY <2>1, <2>3
    <3> QED BY <3>1 DEF RequestsInv
  <2> QED BY <2>2, <2>3
<1>5. ASSUME NEW n \in Nodes, SdEvent(n)
      PROVE  NodeOf[fromSd'[x][k].client] = x
  BY <1>5, ResponsesRouted
<1>6. CASE AllEnded
  BY <1>1, <1>6 DEF AllEnded, controlVars
<1> QED BY <1>1, <1>2, <1>3, <1>4, <1>5, <1>6 DEF ControlNext

LEMMA DaemonsStayUp ==
    ASSUME TypesInv, ConnsInv, RequestsInv, ControlNext, NEW x \in Nodes
    PROVE  nd'[x].up
<1>1. nd[x].up /\ nd \in [Nodes -> Daemons]
  BY DEF RequestsInv, TypesInv, NdTypes
<1>2. CASE nd' = nd
  BY <1>1, <1>2
<1>3. ASSUME NEW c \in Clients, Start(c)
      PROVE  nd'[x].up
  BY <1>1, <1>3 DEF Start, Daemons
<1>4. ASSUME NEW c \in Clients, GetChannel(c) \/ ReadReply(c) \/ Exit(c) \/ Kill(c)
      PROVE  nd' = nd
  BY <1>4 DEF GetChannel, ReadReply, Exit, Kill, End, ndVars
<1>5. ASSUME NEW n \in Nodes, Discover(n)
      PROVE  nd'[x].up
  BY <1>1, <1>5 DEF Discover, Daemons
<1>6. ASSUME NEW n \in Nodes, NdClientEvent(n)
      PROVE  nd'[x].up
  <2> DEFINE e == Head(inbox[n])
  <2>1. /\ nd[n].up /\ inbox[n] # <<>> /\ inbox[n] \in Seq(Events)
    BY <1>6 DEF NdClientEvent, TypesInv, NdTypes
  <2>2. e \in Events /\ e = inbox[n][1] /\ 1 \in 1 .. Len(inbox[n])
    BY <2>1
  <2>3. ConnsOk(n, nd[n].conns, inbox[n], proc)
    BY <2>1 DEF ConnsInv
  <2>4. Has(nd[n].conns, e.from) /\ NdTypes
    BY <2>2, <2>3 DEF ConnsOk, EventsOfConns, TypesInv
  <2>5. \/ e.kind = "get" /\ nd[n].known /\ NdGetChannel(n, e)
        \/ nd' = nd
        \/ NdRemoveClient(n, e.from)
    BY <1>6 DEF NdClientEvent, NdGetChannel
  <2> HIDE DEF e
  <2>6. CASE e.kind = "get" /\ nd[n].known /\ NdGetChannel(n, e)
    BY <1>1, <2>2, <2>4, <2>6, NdGetChannelStep
  <2>7. CASE NdRemoveClient(n, e.from)
    BY <1>1, <2>4, <2>7, NdRemoveClientStep
  <2> QED BY <1>2, <2>5, <2>6, <2>7
<1>7. ASSUME NEW n \in Nodes, NdSwitchEvent(n)
      PROVE  nd' = nd
  BY <1>7, ResponseDelivered
<1>8. ASSUME NEW n \in Nodes, SdEvent(n)
      PROVE  nd' = nd
  BY <1>8, SdEventStep
<1>9. CASE AllEnded
  BY <1>2, <1>9 DEF AllEnded, controlVars, ndVars
<1> QED BY <1>2, <1>3, <1>4, <1>5, <1>6, <1>7, <1>8, <1>9 DEF ControlNext

LEMMA RequestsNext ==
    ASSUME Aborts = {}, TypesInv, TypesInv', ConnsInv, MsgsInv, RequestsInv,
           [ControlNext]_controlVars
    PROVE  RequestsInv'
<1>1. CASE UNCHANGED controlVars
  <2>1. /\ proc' = proc /\ toClient' = toClient /\ nd' = nd /\ inbox' = inbox
        /\ toSd' = toSd /\ fromSd' = fromSd /\ owns' = owns /\ pending' = pending
        /\ channels' = channels
    BY <1>1 DEF controlVars, clientVars, ndVars, sdVars
  <2>2. \A c \in Clients : RequestOk(c) => RequestOk(c)'
    BY <2>1 DEF RequestOk
  <2> QED BY <2>1, <2>2 DEF RequestsInv
<1>2. CASE ControlNext
  <2>1. \A x \in Nodes : nd'[x].up
    BY <1>2, DaemonsStayUp
  <2>2. \A x \in Nodes : \A k \in 1 .. Len(fromSd'[x]) : NodeOf[fromSd'[x][k].client] = x
    BY <1>2, RoutedNext
  <2>3. ASSUME NEW c \in Clients
        PROVE  RequestOk(c)'
    <3>1. ASSUME NEW d \in Clients,
                 Start(d) \/ GetChannel(d) \/ ReadReply(d) \/ Exit(d) \/ Kill(d)
          PROVE  RequestOk(c)'
      <4>1. ~Kill(d)
        BY DEF Kill
      <4> QED BY <3>1, <4>1, RequestsStart, RequestsGetChannel, RequestsReadReply, RequestsExit
    <3>2. ASSUME NEW n \in Nodes,
                 Discover(n) \/ NdClientEvent(n) \/ NdSwitchEvent(n) \/ SdEvent(n)
          PROVE  RequestOk(c)'
      BY <3>2, RequestsDiscover, RequestsClientEvent, RequestsSwitchEvent, RequestsSdEvent
    <3>3. CASE AllEnded
      <4>1. /\ proc' = proc /\ toClient' = toClient /\ nd' = nd /\ inbox' = inbox
            /\ toSd' = toSd /\ fromSd' = fromSd /\ owns' = owns /\ pending' = pending
            /\ channels' = channels
        BY <3>3 DEF AllEnded, controlVars, clientVars, ndVars, sdVars
      <4> QED BY <4>1 DEF RequestsInv, RequestOk
    <3> QED BY <1>2, <3>1, <3>2, <3>3 DEF ControlNext
  <2> QED BY <2>1, <2>2, <2>3 DEF RequestsInv
<1> QED BY <1>1, <1>2

LEMMA RequestsInit ==
    ASSUME ControlInit
    PROVE  RequestsInv
<1>1. ASSUME NEW c \in Clients
      PROVE  RequestOk(c)
  <2> DEFINE n == NodeOf[c]
  <2>1. n \in Nodes
    BY ConstantTypes
  <2>2. /\ proc[c].state = "down" /\ toClient[c] = <<>> /\ inbox[n] = <<>> /\ toSd[n] = <<>>
        /\ fromSd[n] = <<>> /\ \A t \in AllTags : pending[t] = <<>>
    BY <2>1 DEF ControlInit
  <2>3. \A k \in 1 .. Len(<<>>) : FALSE
    OBVIOUS
  <2>4. InInbox(c, proc[c], inbox[n])
    BY <2>2, <2>3 DEF InInbox
  <2>5. AtSd(c, proc[c], nd[n].conns, inbox[n], toSd[n])
    BY <2>2, <2>3 DEF AtSd
  <2>6. Held(c, proc[c], nd[n].conns, owns[n], channels, inbox[n], toSd[n], pending)
    BY <2>2, <2>3 DEF Held
  <2>7. FromSd(c, proc[c], nd[n].conns, owns[n], channels, inbox[n], toSd[n], pending, fromSd[n])
    BY <2>2, <2>3 DEF FromSd
  <2>8. /\ Replied(c, proc[c], nd[n].conns, owns[n], channels, inbox[n], toSd[n], pending,
                   fromSd[n], toClient[c])
        /\ Obtained(c, proc[c], nd[n].conns, owns[n], channels)
    BY <2>2 DEF Replied, Obtained
  <2> QED BY <2>4, <2>5, <2>6, <2>7, <2>8 DEF RequestOk
<1>2. \A n \in Nodes : nd[n].up /\ fromSd[n] = <<>>
  BY DEF ControlInit
<1>3. \A k \in 1 .. Len(<<>>) : FALSE
  OBVIOUS
<1> QED BY <1>1, <1>2, <1>3 DEF RequestsInv

LEMMA RequestsHold ==
    ASSUME Aborts = {}
    PROVE  ControlSpec => []RequestsInv
<1>1. ControlInit => RequestsInv
  BY RequestsInit
<1>2. /\ TypesInv /\ TypesInv' /\ ConnsInv /\ MsgsInv /\ RequestsInv
      /\ [ControlNext]_controlVars
      => RequestsInv'
  BY RequestsNext
<1> QED BY <1>1, <1>2, TypesHold, ReposHold, PTL DEF ControlSpec

-----------------------------------------------------------------------------
(* What orderly jobs can rely on.                                           *)

\* A response is never forwarded to a client that is gone: node daemons survive
\* jobs that end in an orderly way (on_switch_fd, whose write would raise SIGPIPE).
THEOREM DaemonsSurviveOrderlyJobs ==
    ASSUME Aborts = {}
    PROVE  ControlSpec => []NodeDaemonsSurvive
<1>1. RequestsInv => NodeDaemonsSurvive
  BY DEF RequestsInv, NodeDaemonsSurvive
<1> QED BY <1>1, RequestsHold, PTL

\* A reply answers the request its client is waiting with, and is the only one
\* (get_channel takes whatever datagram comes next).
THEOREM RepliesStayCurrent ==
    ASSUME Aborts = {}
    PROVE  ControlSpec => []RepliesAreCurrent
<1>1. TypesInv /\ RequestsInv => RepliesAreCurrent
  <2> SUFFICES ASSUME TypesInv, RequestsInv, NEW c \in Clients, toClient[c] # <<>>
               PROVE  /\ proc[c].state = "waiting"
                      /\ channels[Tag(c)].parts[c]
                            = [node |-> NodeOf[c], fqp |-> Head(toClient[c]),
                               qp |-> QpNum(proc[c].run, proc[c].got + 1)]
                      /\ Len(toClient[c]) = 1
    BY DEF RepliesAreCurrent
  <2> DEFINE n == NodeOf[c]
  <2>1. Replied(c, proc[c], nd[n].conns, owns[n], channels, inbox[n], toSd[n], pending,
                fromSd[n], toClient[c])
    BY DEF RequestsInv, RequestOk
  <2>2. /\ Len(toClient[c]) = 1
        /\ Granted(c, proc[c], Program[proc[c].got + 1], toClient[c][1], nd[n].conns, owns[n],
                   channels)
    BY <2>1 DEF Replied
  <2>3. Head(toClient[c]) = toClient[c][1]
    BY DEF TypesInv, ClientTypes
  <2>4. proc[c].state = "waiting" /\ Tag(c) = Program[proc[c].got + 1]
    BY <2>2 DEF Granted, Tag
  <2> QED BY <2>2, <2>3, <2>4 DEF Granted, Registered
<1> QED BY <1>1, TypesHold, RequestsHold, PTL

\* "Check if all clients have responded": as every client's response is held once,
\* as many held responses as participants are those of all participants.
LEMMA CompleteHoldsAll ==
    ASSUME TypesInv, TypesInv', MsgsInv, RequestsInv, NEW n \in Nodes, SdEvent(n),
           toSd[n][1].kind = "get", SdGetChannel(n, toSd[n][1]),
           Complete(HeldFor(n, toSd[n][1]), UpdatedFor(n, toSd[n][1])[toSd[n][1].tag])
    PROVE  \A c \in Clients :
               Granted(c, proc[c], toSd[n][1].tag, channels'[toSd[n][1].tag].parts[c].fqp,
                       nd[NodeOf[c]].conns, owns'[NodeOf[c]], channels')
<1> DEFINE msg == toSd[n][1]
           tag == msg.tag
           held == HeldFor(n, msg)
           N == Len(held)
           f == [k \in 1 .. N |-> held[k].client]
<1>1. /\ msg \in Messages /\ (msg.tag \in Tags(channels) \/ CanAllocate(channels))
      /\ SdTypes /\ msg.kind = "get"
  BY RegisterFacts DEF TypesInv
<1>2. /\ channels'[tag] \in Channels /\ channels' = UpdatedFor(n, msg)
  <2>1. UpdatedFor(n, msg) \in [Tags(channels) \cup {msg.tag} -> Channels]
    <3> HIDE DEF msg
    <3> QED BY <1>1, RegisteringTypes
  <2> QED BY <2>1, SdGetParts
<1>3. DOMAIN channels'[tag].parts = Clients
  BY <1>2 DEF Channels
<1>4. N = Cardinality(Clients)
  BY <1>2, <1>3 DEF Complete, Ids
<1>5. held \in Seq(Responses(Nodes, {tag}))
  BY <1>1, HeldWith
<1>6. \A k \in 1 .. N : held[k].client \in Clients
  <2> DEFINE S == Responses(Nodes, {tag})
  <2>1. \A k \in 1 .. N : held[k] \in S
    <3> HIDE DEF held, S
    <3> QED BY <1>5 DEF S
  <2> HIDE DEF held
  <2> QED BY <2>1 DEF Responses
<1>7. msg = toSd[n][1] /\ tag = msg.tag /\ held = HeldFor(n, msg)
  OBVIOUS
<1> HIDE DEF msg, tag, held
<1>8. ASSUME NEW k \in 1 .. N, NEW l \in 1 .. N, held[k].client = held[l].client
      PROVE  k = l
  <2> DEFINE c == held[l].client
  <2>1. c \in Clients /\ held[l].client = c /\ held[k].client = c
    BY <1>6, <1>8
  <2> HIDE DEF c
  <2>2. \A j \in 1 .. Len(held) : held[j].client = c => j = l
    BY <1>1, <1>7, <2>1, HeldAreGranted DEF msg
  <2> QED BY <2>1, <2>2
<1>9. N \in Nat
  BY <1>5
<1>10. ASSUME NEW c \in Clients
       PROVE  \E k \in 1 .. N : held[k].client = c
  <2> HIDE DEF N
  <2>1. f \in [1 .. N -> Clients]
    BY <1>6
  <2>2. f \in Injection(1 .. N, Clients)
    BY <1>8, <2>1 DEF Injection, IsInjective
  <2>3. IsFiniteSet(Clients) /\ Cardinality(1 .. N) = Cardinality(Clients)
    BY <1>4, <1>9, FS_Interval, ConstantTypes
  <2> HIDE DEF f
  <2>4. f \in Surjection(1 .. N, Clients)
    BY <2>2, <2>3, FS_Injection
  <2>5. PICK k \in 1 .. N : f[k] = c
    BY <2>4 DEF Surjection
  <2> QED BY <2>5 DEF f
<1>11. ASSUME NEW c \in Clients
       PROVE  Granted(c, proc[c], tag, channels'[tag].parts[c].fqp, nd[NodeOf[c]].conns,
                      owns'[NodeOf[c]], channels')
  <2>1. PICK k \in 1 .. Len(held) : held[k].client = c
    BY <1>10
  <2>2. Granted(c, proc[c], tag, held[k].fqp, nd[NodeOf[c]].conns, owns'[NodeOf[c]], channels')
    BY <1>1, <1>7, <2>1, HeldAreGranted DEF msg
  <2>3. channels'[tag].parts[c].fqp = held[k].fqp
    BY <2>2 DEF Granted, Registered
  <2> QED BY <2>2, <2>3
<1> QED BY <1>11 DEF tag, msg

LEMMA CompleteIsAll ==
    ASSUME TypesInv, TypesInv', MsgsInv, RequestsInv, NEW n \in Nodes, SdEvent(n),
           toSd[n][1].kind = "get", SdGetChannel(n, toSd[n][1]),
           Complete(HeldFor(n, toSd[n][1]), UpdatedFor(n, toSd[n][1])[toSd[n][1].tag])
    PROVE  AllKnown(channels'[toSd[n][1].tag])
<1> DEFINE tag == toSd[n][1].tag
<1>1. ASSUME NEW c \in Clients
      PROVE  channels'[tag].parts[c] # Unknown
  <2>1. Granted(c, proc[c], tag, channels'[tag].parts[c].fqp, nd[NodeOf[c]].conns,
                owns'[NodeOf[c]], channels')
    BY CompleteHoldsAll
  <2>2. channels'[tag].parts[c].node = NodeOf[c]
    BY <2>1 DEF Granted, Registered
  <2> QED BY <2>2, ConstantTypes, ControlPlaneAssumption
<1>2. channels'[tag] \in Channels
  <2>1. /\ toSd[n][1] \in Messages /\ SdTypes
        /\ tag \in Tags(channels) \/ CanAllocate(channels)
    BY RegisterFacts DEF TypesInv
  <2>2. UpdatedFor(n, toSd[n][1]) \in [Tags(channels) \cup {tag} -> Channels]
    BY <2>1, RegisteringTypes
  <2> QED BY <2>2, SdGetParts
<1>3. DOMAIN channels'[tag].parts = Clients
  BY <1>2 DEF Channels
<1> QED BY <1>1, <1>3 DEF AllKnown

\* The responses that the agent forwards are for the channel of the request.
LEMMA ForwardedAreKnown ==
    ASSUME TypesInv, TypesInv', MsgsInv, RequestsInv, NEW n \in Nodes, SdEvent(n),
           NEW x \in Nodes, NEW k \in Len(fromSd[x]) + 1 .. Len(fromSd'[x])
    PROVE  AllKnown(channels'[fromSd'[x][k].tag])
<1> DEFINE msg == toSd[n][1]
           held == HeldFor(n, msg)
           tag == msg.tag
<1>1. msg.kind \in {"get", "unref"} /\ msg = Head(toSd[n])
  BY OrderlyMessages
<1>2. \/ /\ msg.kind = "get" /\ SdGetChannel(n, msg) /\ Respond(held)
         /\ Complete(held, UpdatedFor(n, msg)[msg.tag])
      \/ fromSd' = fromSd
  BY <1>1, SdEventStep, SdGetParts DEF SdFails, SdUnrefChannel, RemoveUnowned, sdVars, SdDisconnect
<1>3. fromSd[x] \in Seq(Responses({x}, AllTags)) /\ fromSd'[x] \in Seq(Responses({x}, AllTags))
  BY DEF TypesInv, SdTypes
<1>4. Len(fromSd[x]) \in Nat /\ Len(fromSd'[x]) \in Nat
  BY <1>3
<1>5. ~(fromSd' = fromSd)
  BY <1>4
<1>6. /\ msg.kind = "get" /\ SdGetChannel(n, msg) /\ Respond(held)
      /\ Complete(held, UpdatedFor(n, msg)[msg.tag])
  BY <1>2, <1>5
<1>7. AllKnown(channels'[tag])
  BY <1>6, CompleteIsAll
<1>8. msg \in Messages /\ (msg.tag \in Tags(channels) \/ CanAllocate(channels))
  BY <1>6, RegisterFacts
<1>9. held \in Seq(Responses(Nodes, {tag}))
  BY <1>6, <1>8, HeldWith
<1> DEFINE a == fromSd[x]
           b == ResponsesFor(x, held)
           u == fromSd'[x]
           X == Responses({x}, {tag})
           Y == Responses({x}, AllTags)
<1>10. u = a \o b
  BY <1>6 DEF Respond
<1>11. b \in Seq(X)
  <2> HIDE DEF held, tag
  <2> QED BY <1>9, ResponsesForFacts
<1>12. X \subseteq Y
  BY <1>6, <1>8, MessageKinds DEF Responses
<1>13. a \in Seq(Y)
  BY <1>3
<1>14. Joined(u, a, b)
  <2> HIDE DEF a, b, u, X, Y
  <2>1. b \in Seq(Y)
    BY <1>11, <1>12
  <2>2. /\ Len(a \o b) = Len(a) + Len(b)
        /\ \A j \in 1 .. Len(a) : (a \o b)[j] = a[j]
        /\ \A j \in 1 .. Len(b) : (a \o b)[Len(a) + j] = b[j]
    BY <1>13, <2>1, JoinFacts
  <2>3. Len(a) \in Nat /\ Len(b) \in Nat
    BY <1>13, <2>1
  <2> QED BY <1>10, <2>2, <2>3 DEF Joined
<1>15. k \in Len(a) + 1 .. Len(u)
  OBVIOUS
<1> HIDE DEF a, b, u, X
<1>16. u[k] \in X
  <2>1. k - Len(a) \in 1 .. Len(b) /\ Len(a) + (k - Len(a)) = k
    BY <1>14, <1>15 DEF Joined
  <2>2. u[k] = b[k - Len(a)]
    BY <1>14, <2>1 DEF Joined
  <2> QED BY <1>11, <2>1, <2>2
<1>17. u[k].tag = tag
  BY <1>16 DEF X, Responses
<1> QED BY <1>7, <1>17 DEF u

\* "Hold reply until all clients are known" (on_client_get_channel): it does, for
\* jobs that end in an orderly way.
THEOREM RepliesAreHeld ==
    ASSUME Aborts = {}
    PROVE  ControlSpec => HoldsReplies
<1> DEFINE Holds == \A n \in Nodes : \A k \in Len(fromSd[n]) + 1 .. Len(fromSd'[n]) :
                        AllKnown(channels'[fromSd'[n][k].tag])
<1>1. ASSUME TypesInv, TypesInv', MsgsInv, RequestsInv, [ControlNext]_controlVars
      PROVE  Holds
  <2> SUFFICES ASSUME NEW x \in Nodes, NEW k \in Len(fromSd[x]) + 1 .. Len(fromSd'[x])
               PROVE  AllKnown(channels'[fromSd'[x][k].tag])
    OBVIOUS
  <2>1. /\ fromSd[x] \in Seq(Responses({x}, AllTags)) /\ DOMAIN fromSd = Nodes
        /\ Len(fromSd[x]) \in Nat /\ Len(fromSd'[x]) \in Nat
    <3>1. fromSd[x] \in Seq(Responses({x}, AllTags)) /\ fromSd'[x] \in Seq(Responses({x}, AllTags))
          /\ DOMAIN fromSd = Nodes
      BY <1>1 DEF TypesInv, SdTypes
    <3> QED BY <3>1
  <2>2. Len(fromSd'[x]) > Len(fromSd[x])
    BY <2>1
  <2>3. fromSd'[x] # fromSd[x]
    BY <2>1, <2>2
  <2>4. ASSUME NEW c \in Clients,
               Start(c) \/ GetChannel(c) \/ ReadReply(c) \/ Exit(c) \/ Kill(c)
        PROVE  fromSd' = fromSd
    BY <2>4 DEF Start, GetChannel, ReadReply, Exit, Kill, End
  <2>5. ASSUME NEW n \in Nodes, Discover(n) \/ NdClientEvent(n)
        PROVE  fromSd' = fromSd
    BY <2>5 DEF Discover, NdClientEvent
  <2>6. ASSUME NEW n \in Nodes, NdSwitchEvent(n)
        PROVE  FALSE
    <3>1. fromSd' = [fromSd EXCEPT ![n] = Tail(@)] /\ fromSd[n] # <<>>
      BY <1>1, <2>6, NdSwitchEventStep
    <3>2. x = n /\ fromSd'[x] = Tail(fromSd[x])
      BY <2>1, <2>3, <3>1
    <3> DEFINE S == Responses({x}, AllTags)
               s == fromSd[x]
    <3>3. s \in Seq(S) /\ s # <<>> /\ fromSd'[x] = Tail(s)
      BY <2>1, <3>1, <3>2
    <3>4. Len(fromSd'[x]) > Len(s)
      BY <2>2
    <3> HIDE DEF S, s
    <3> QED BY <3>3, <3>4
  <2>7. ASSUME NEW n \in Nodes, SdEvent(n)
        PROVE  AllKnown(channels'[fromSd'[x][k].tag])
    BY <1>1, <2>7, ForwardedAreKnown
  <2>8. ASSUME UNCHANGED controlVars
        PROVE  fromSd' = fromSd
    BY <2>8 DEF controlVars
  <2> QED BY <1>1, <2>3, <2>4, <2>5, <2>6, <2>7, <2>8 DEF ControlNext, AllEnded
<1>2. ControlSpec => [][Holds]_controlVars
  BY <1>1, TypesHold, ReposHold, RequestsHold, PTL DEF ControlSpec
<1> QED BY <1>2 DEF HoldsReplies

\* Fewer names than things: one is left without a name.
LEMMA OneIsLeft ==
    ASSUME NEW S, NEW T, NEW g \in [T -> Nat],
           IsFiniteSet(S), IsFiniteSet(T), Cardinality(T) < Cardinality(S)
    PROVE  \E s \in S : \A t \in T : g[t] # s
<1> SUFFICES ASSUME \A s \in S : \E t \in T : g[t] = s
             PROVE  FALSE
  OBVIOUS
<1> DEFINE f == [s \in S |-> CHOOSE t \in T : g[t] = s]
<1>1. \A s \in S : f[s] \in T /\ g[f[s]] = s
  OBVIOUS
<1>2. f \in [S -> T]
  OBVIOUS
<1> HIDE DEF f
<1>3. \E x, y \in S : x # y /\ f[x] = f[y]
  BY <1>2, FS_PigeonHole
<1> QED BY <1>1, <1>3

\* There is a unit and a common part for a channel that does not exist if there are
\* enough for all tags that the clients use.
LEMMA EnoughToAllocate ==
    ASSUME TypesInv, Cardinality(AllTags) <= MaxUnits, Cardinality(AllTags) <= MaxCommon,
           NEW tag \in AllTags, tag \notin Tags(channels)
    PROVE  CanAllocate(channels)
<1> DEFINE T == Tags(channels)
           units == [t \in T |-> channels[t].unit]
           commons == [t \in T |-> channels[t].common]
<1>1. T \in SUBSET (AllTags \ {tag})
  BY DEF TypesInv, SdTypes, Tags
<1>2. IsFiniteSet(AllTags) /\ Cardinality(AllTags) \in Nat
  BY AllTagsFinite, FS_CardinalityType
<1>3. IsFiniteSet(AllTags \ {tag}) /\ Cardinality(AllTags \ {tag}) = Cardinality(AllTags) - 1
  BY <1>2, FS_RemoveElement
<1>4. IsFiniteSet(T) /\ Cardinality(T) <= Cardinality(AllTags) - 1
  BY <1>1, <1>3, FS_Subset
<1>5. MaxUnits \in Nat /\ MaxCommon \in Nat /\ Cardinality(T) \in Nat
  BY <1>4, FS_CardinalityType, RepositoryAssumption
<1> DEFINE U == 0 .. MaxUnits - 1
           Q == 1 .. MaxCommon
<1>6. /\ IsFiniteSet(U) /\ Cardinality(U) = MaxUnits
      /\ IsFiniteSet(Q) /\ Cardinality(Q) = MaxCommon
  <2>1. MaxUnits >= 1 /\ MaxCommon >= 1
    BY RepositoryAssumption
  <2> DEFINE last == MaxUnits - 1
  <2>a. U = 0 .. last /\ last \in Nat /\ last = MaxUnits - 1
    BY <1>5, <2>1
  <2> HIDE DEF last
  <2>b. IsFiniteSet(0 .. last) /\ Cardinality(0 .. last) = last + 1
    BY <2>a, FS_Interval
  <2>2. IsFiniteSet(U) /\ Cardinality(U) = last + 1
    BY <2>a, <2>b
  <2>3. IsFiniteSet(Q) /\ Cardinality(Q) = IF 1 > MaxCommon THEN 0 ELSE MaxCommon - 1 + 1
    BY <1>5, FS_Interval
  <2> HIDE DEF U, Q
  <2> QED BY <1>5, <2>1, <2>2, <2>3, <2>a
<1>7. Cardinality(T) < MaxUnits /\ Cardinality(T) < MaxCommon
  BY <1>2, <1>4, <1>5
<1>8. units \in [T -> Nat] /\ commons \in [T -> Nat]
  BY <1>1, RepositoryAssumption DEF TypesInv, SdTypes, Channels, Tags
<1> HIDE DEF T, units, commons, U, Q
<1>9. \E u \in U : \A t \in T : units[t] # u
  BY <1>4, <1>6, <1>7, <1>8, OneIsLeft
<1>10. \E q \in Q : \A t \in T : commons[t] # q
  BY <1>4, <1>6, <1>7, <1>8, OneIsLeft
<1> QED BY <1>9, <1>10 DEF CanAllocate, FreeUnits, FreeCommons, T, units, commons, U, Q

\* The unit of a new channel is the lowest free one: there are never more units in use
\* than other tags.
LEMMA LowestUnit ==
    ASSUME TypesInv, Cardinality(AllTags) <= MaxUnits,
           NEW tag \in AllTags, tag \notin Tags(channels)
    PROVE  NextUnit(channels) < Cardinality(AllTags)
<1> DEFINE T == Tags(channels)
           units == [t \in T |-> channels[t].unit]
           N == Cardinality(AllTags)
           last == N - 1
           U == 0 .. last
<1>1. T \in SUBSET (AllTags \ {tag})
  BY DEF TypesInv, SdTypes, Tags
<1>2. IsFiniteSet(AllTags) /\ N \in Nat
  BY AllTagsFinite, FS_CardinalityType
<1>3. IsFiniteSet(AllTags \ {tag}) /\ Cardinality(AllTags \ {tag}) = N - 1
  BY <1>2, FS_RemoveElement
<1>4. IsFiniteSet(T) /\ Cardinality(T) <= last /\ Cardinality(T) \in Nat
  BY <1>1, <1>3, FS_Subset, FS_CardinalityType
<1>5. last \in Nat /\ N = last + 1 /\ last <= MaxUnits - 1
  <2>1. Cardinality(AllTags \ {tag}) \in Nat
    BY <1>3, FS_CardinalityType
  <2> QED BY <1>2, <1>3, <2>1, RepositoryAssumption
<1>6. IsFiniteSet(U) /\ Cardinality(U) = last + 1
  <2> HIDE DEF last
  <2> QED BY <1>5, FS_Interval
<1>7. units \in [T -> Nat]
  BY <1>1, RepositoryAssumption DEF TypesInv, SdTypes, Channels, Tags
<1>8. PICK u \in U : \A t \in T : units[t] # u
  <2> HIDE DEF T, units, U, last, N
  <2>1. Cardinality(T) < Cardinality(U)
    BY <1>4, <1>5, <1>6
  <2> QED BY <1>4, <1>6, <1>7, <2>1, OneIsLeft
<1>9. u \in FreeUnits(channels) /\ FreeUnits(channels) \in SUBSET Nat
  BY <1>5, <1>8, RepositoryAssumption DEF FreeUnits
<1>10. NextUnit(channels) \in Nat /\ NextUnit(channels) <= u
  BY <1>9, MinIsElement DEF NextUnit
<1> QED BY <1>2, <1>5, <1>8, <1>10

\* How the repository changes with an event at the agent.
LEMMA RepositoryStep ==
    ASSUME TypesInv, MsgsInv, RequestsInv, NEW n \in Nodes, SdEvent(n)
    PROVE  \/ \A t \in Tags(channels') : t \in Tags(channels) /\ channels'[t] = channels[t]
           \/ toSd[n][1].kind = "get" /\ SdGetChannel(n, toSd[n][1])
<1> DEFINE msg == toSd[n][1]
<1>1. msg.kind \in {"get", "unref"} /\ msg = Head(toSd[n])
  BY OrderlyMessages
<1>2. \A tags : RemoveUnowned(tags) =>
          \A t \in Tags(channels') : t \in Tags(channels) /\ channels'[t] = channels[t]
  BY DEF RemoveUnowned, RemoveChannels, Restrict, Tags
<1> QED BY <1>1, <1>2, SdEventStep DEF SdFails, SdUnrefChannel, sdVars

\* Units in use are among the first ones, as many as there are tags.
UnitsInv == \A t \in Tags(channels) : channels[t].unit < Cardinality(AllTags)

LEMMA UnitsStep ==
    ASSUME Cardinality(AllTags) <= MaxUnits,
           TypesInv, MsgsInv, RequestsInv, UnitsInv, NEW n \in Nodes, SdEvent(n)
    PROVE  UnitsInv'
<1> DEFINE msg == toSd[n][1]
           tag == msg.tag
           new == UpdatedFor(n, msg)
<1>1. CASE \A t \in Tags(channels') : t \in Tags(channels) /\ channels'[t] = channels[t]
  BY <1>1 DEF UnitsInv, Tags
<1>2. CASE msg.kind = "get" /\ SdGetChannel(n, msg)
  <2>1. /\ msg \in Messages /\ SdTypes /\ tag \in AllTags
        /\ tag \in Tags(channels) \/ CanAllocate(channels)
    BY <1>2, RegisterFacts DEF TypesInv
  <2>2. /\ new \in [Tags(channels) \cup {tag} -> Channels]
        /\ \A t \in Tags(channels) : t # tag => new[t] = channels[t]
        /\ new[tag].unit = AddedFor(msg)[tag].unit
    BY <1>2, <2>1, RegisteringTypes
  <2>3. channels' = new
    BY <1>2, SdGetParts
  <2>4. new[tag].unit < Cardinality(AllTags)
    <3>1. CASE tag \in Tags(channels)
      BY <2>2, <3>1 DEF AddedFor, UnitsInv
    <3>2. CASE tag \notin Tags(channels)
      <4>1. AddedFor(msg)[tag].unit = NextUnit(channels)
        BY <3>2 DEF AddedFor, AddChannel, NewChannel
      <4> QED BY <2>1, <2>2, <3>2, <4>1, LowestUnit
    <3> QED BY <3>1, <3>2
  <2> HIDE DEF new, tag
  <2>5. ASSUME NEW t \in Tags(channels')
        PROVE  channels'[t].unit < Cardinality(AllTags)
    <3>1. t = tag \/ t \in Tags(channels)
      BY <2>2, <2>3 DEF Tags
    <3> QED BY <2>2, <2>3, <2>4, <3>1 DEF UnitsInv
  <2> QED BY <2>5 DEF UnitsInv, Tags
<1> QED BY <1>1, <1>2, RepositoryStep

\* The clients of a job whose nodes are on a pipe.
ClientsOn(pipe) == {c \in Clients : PipeOfNode(NodeOf[c]) = pipe}

\* The driver accepts an update if there are not too many clients and tags.
LEMMA UpdateAccepted ==
    ASSUME NEW chs, ChannelsOk(chs), ChannelsOk(channels), TablesOk(tables, channels), UnitsInv,
           Cardinality(AllTags) <= RegisterUnits,
           \A pipe \in {0, 3} : Cardinality(ClientsOn(pipe)) <= PipeLimit(pipe)
    PROVE  ~UpdateFails(tables, chs)
<1>1. ASSUME NEW t \in Known(chs), NEW pipe \in {0, 3}
      PROVE  ~(Cardinality(OnPipe(chs[t], pipe)) > PipeLimit(pipe))
  <2>1. OnPipe(chs[t], pipe) = ClientsOn(pipe)
    BY KnownFacts DEF OnPipe, ClientsOn
  <2>2. ClientsOn(pipe) \in SUBSET Clients
    BY DEF ClientsOn
  <2>3. Cardinality(ClientsOn(pipe)) \in Nat
    BY <2>2, ConstantTypes, FS_Subset, FS_CardinalityType
  <2> QED BY <2>1, <2>3 DEF PipeLimit
<1>2. ASSUME NEW k \in DOMAIN tables.selector
      PROVE  ~(tables.selector[k].unit >= RegisterUnits)
  <2>1. PICK t \in Known(channels) : tables.selector[k].unit = channels[t].unit
    BY DEF TablesOk, Fits
  <2>2. t \in Tags(channels) /\ channels[t] \in Channels
    BY KnownFacts
  <2>3. channels[t].unit \in Int /\ channels[t].unit < Cardinality(AllTags)
    BY <2>2, RepositoryAssumption DEF Channels, UnitsInv
  <2>4. Cardinality(AllTags) \in Nat
    BY AllTagsFinite, FS_CardinalityType
  <2> QED BY <2>1, <2>3, <2>4 DEF RegisterUnits
<1> QED BY <1>1, <1>2 DEF UpdateFails

\* The agent survives every event.
LEMMA AgentSurvives ==
    ASSUME Cardinality(AllTags) <= MaxUnits, Cardinality(AllTags) <= MaxCommon,
           Cardinality(AllTags) <= RegisterUnits,
           \A pipe \in {0, 3} : Cardinality(ClientsOn(pipe)) <= PipeLimit(pipe),
           TypesInv, TypesInv', MsgsInv, ReposInv, ReposInv', OwnedInv, RequestsInv, UnitsInv,
           sdUp, NEW n \in Nodes, SdEvent(n)
    PROVE  sdUp'
<1> DEFINE msg == toSd[n][1]
<1>1. msg.kind \in {"get", "unref"} /\ msg = Head(toSd[n]) /\ msg \in Messages
  BY OrderlyMessages
<1>2. SdTypes /\ owns \in [Nodes -> SUBSET AllTags]
  BY DEF TypesInv, SdTypes
<1>3. CASE msg.kind = "get" /\ SdGetChannel(n, msg)
  <2> DEFINE held == HeldFor(n, msg)
  <2>1. Respond(held) \/ sdUp' = sdUp
    BY <1>3, SdGetParts
  <2>2. msg.tag \in Tags(channels) \/ CanAllocate(channels)
    BY <1>3, RegisterFacts
  <2>3. held \in Seq(Responses(Nodes, {msg.tag}))
    BY <1>1, <1>3, <2>2, HeldWith
  <2>4. \A k \in 1 .. Len(held) : nd[held[k].node].up
    <3> DEFINE S == Responses(Nodes, {msg.tag})
    <3>1. \A k \in 1 .. Len(held) : held[k] \in S
      <4> HIDE DEF held, S
      <4> QED BY <2>3 DEF S
    <3>2. \A r \in S : r.node \in Nodes
      BY DEF Responses
    <3> HIDE DEF held, S
    <3> QED BY <3>1, <3>2 DEF RequestsInv
  <2> QED BY <2>1, <2>4 DEF Respond
<1>a. ChannelsOk(channels) /\ TablesOk(tables, channels)
  BY DEF ReposInv
<1>4. CASE msg.kind = "get" /\ Refused(n, msg)
  <2>1. msg.tag \in AllTags /\ NodeOf[msg.client] = n
    <3>1. 1 \in 1 .. Len(toSd[n])
      BY SdEventStep
    <3> QED BY <1>1, <1>4, <3>1, MessageKinds DEF MsgsInv, MsgsOk
  <2>2. msg.tag \in Tags(channels) \/ CanAllocate(channels)
    BY <2>1, EnoughToAllocate
  <2>3. ChannelsOk(UpdatedFor(n, msg))
    BY <1>1, <1>2, <1>4, <1>a, <2>1, <2>2, ChannelsRegistered
  <2>4. ~UpdateFails(tables, UpdatedFor(n, msg))
    BY <1>a, <2>3, UpdateAccepted
  <2> QED BY <1>4, <2>2, <2>4 DEF Refused
<1>5. CASE msg.kind = "unref" /\ SdUnrefChannel(n, msg.tag)
  <2>1. CASE msg.tag \in owns[n]
    <3> DEFINE tags == {msg.tag}
    <3>1. owns' = [owns EXCEPT ![n] = @ \ tags] /\ RemoveUnowned(tags) /\ tags \in SUBSET owns[n]
      BY <1>5, <2>1 DEF SdUnrefChannel
    <3> HIDE DEF tags
    <3>2. ~UpdateFails(tables, channels') => sdUp'
      BY <1>2, <3>1, RemovesUnowned
    <3>3. ChannelsOk(channels')
      BY DEF ReposInv
    <3> QED BY <1>a, <3>2, <3>3, UpdateAccepted
  <2>2. CASE msg.tag \notin owns[n]
    BY <1>5, <2>2 DEF SdUnrefChannel, sdVars
  <2> QED BY <2>1, <2>2
<1> QED BY <1>1, <1>3, <1>4, <1>5, SdEventStep

\* The switch daemon survives orderly jobs (SdSurvives) that use no more channels than
\* it can allocate and clear, 64, with no more clients on a pipe than the driver
\* accepts, 64 on pipe 0 and 61 on pipe 3: no request, in whatever order requests and
\* unreferences of the nodes arrive, makes it remove a channel that does not exist
\* (remove_channel throws), run out of units and numbers, or fail in an update of the
\* tables (on_st_repo_channels throws).
THEOREM AgentSurvivesOrderlyJobs ==
    ASSUME Aborts = {}, Cardinality(AllTags) <= MaxUnits, Cardinality(AllTags) <= MaxCommon,
           Cardinality(AllTags) <= RegisterUnits,
           \A pipe \in {0, 3} : Cardinality(ClientsOn(pipe)) <= PipeLimit(pipe)
    PROVE  ControlSpec => []SdSurvives
<1> DEFINE AInv == UnitsInv /\ sdUp
<1>1. ControlInit => AInv
  BY DEF ControlInit, UnitsInv, NoChannels, Tags
<1>2. ASSUME TypesInv, TypesInv', MsgsInv, ReposInv, ReposInv', OwnedInv, RequestsInv, AInv,
             [ControlNext]_controlVars
      PROVE  AInv'
  <2>1. ASSUME NEW c \in Clients,
               Start(c) \/ GetChannel(c) \/ ReadReply(c) \/ Exit(c) \/ Kill(c)
        PROVE  UNCHANGED <<sdUp, channels>>
    BY <2>1 DEF Start, GetChannel, ReadReply, Exit, Kill, End, sdVars
  <2>2. ASSUME NEW n \in Nodes, Discover(n) \/ NdClientEvent(n) \/ NdSwitchEvent(n)
        PROVE  UNCHANGED <<sdUp, channels>>
    BY <2>2 DEF Discover, NdClientEvent, NdSwitchEvent, sdVars
  <2>3. ASSUME NEW n \in Nodes, SdEvent(n)
        PROVE  AInv'
    <3>1. sdUp'
      BY <1>2, <2>3, AgentSurvives
    <3>2. UnitsInv'
      BY <1>2, <2>3, UnitsStep
    <3> QED BY <3>1, <3>2
  <2>4. ASSUME UNCHANGED controlVars
        PROVE  UNCHANGED <<sdUp, channels>>
    BY <2>4 DEF controlVars, sdVars
  <2>5. ASSUME UNCHANGED <<sdUp, channels>>
        PROVE  AInv'
    BY <1>2, <2>5 DEF UnitsInv, Tags
  <2> QED BY <1>2, <2>1, <2>2, <2>3, <2>4, <2>5 DEF ControlNext, AllEnded
<1>3. ControlSpec => []AInv
  BY <1>1, <1>2, TypesHold, ReposHold, OwnersHold, RequestsHold, PTL DEF ControlSpec
<1> QED BY <1>3, PTL DEF SdSurvives

-----------------------------------------------------------------------------
(* Clients in step: nobody is answered before everybody has asked.          *)

\* The reply to a client has left the agent.
Answered(c, resps, replies) ==
    replies # <<>> \/ \E k \in 1 .. Len(resps) : resps[k].client = c

\* How many channels a process has asked for.
Asked(p) == p.got + (IF p.state = "waiting" THEN 1 ELSE 0)

\* A process p that works on a job waits for a process q to start the job, and for its
\* last allreduce; and q has obtained no channel that p has not asked for.
InStep(p, q) ==
    /\ p.state # "down" => q.run <= p.run
    /\ p.state = "waiting" \/ p.got > 0 => p.run <= q.run /\ p.run # 0
    /\ p.state = "waiting" => p.got <= q.got
    /\ p.run = q.run => q.got <= Asked(p)

StepInv ==
    \A c, d \in Clients :
        /\ InStep(proc[c], proc[d])
        /\ Answered(d, fromSd[NodeOf[d]], toClient[d]) => proc[d].got < Asked(proc[c])

LEMMA AnsweredWaits ==
    ASSUME RequestsInv, NEW c \in Clients, Answered(c, fromSd[NodeOf[c]], toClient[c])
    PROVE  proc[c].state = "waiting"
<1>1. RequestOk(c)
  BY DEF RequestsInv
<1>2. CASE toClient[c] # <<>>
  BY <1>1, <1>2 DEF RequestOk, Replied, Granted
<1>3. CASE toClient[c] = <<>>
  <2>1. PICK k \in 1 .. Len(fromSd[NodeOf[c]]) : fromSd[NodeOf[c]][k].client = c
    BY <1>3 DEF Answered
  <2> QED BY <1>1, <2>1 DEF RequestOk, FromSd, Granted
<1> QED BY <1>2, <1>3

\* Processes as numbers.
LEMMA AskedType ==
    ASSUME NEW p \in Processes
    PROVE  /\ p.run \in Nat /\ p.got \in Nat /\ Asked(p) \in Nat
           /\ Asked(p) = IF p.state = "waiting" THEN p.got + 1 ELSE p.got
<1>1. p.run \in 0 .. MaxRuns /\ p.got \in 0 .. Len(Program)
  BY DEF Processes
<1>2. p.run \in Nat /\ p.got \in Nat
  BY <1>1
<1> QED BY <1>2 DEF Asked

\* One process changes, and is not answered afterwards unless it was before.
LEMMA StepOfOne ==
    ASSUME ClientTypes, ClientTypes', NEW c \in Clients, StepInv,
           \A d \in Clients : d # c => proc'[d] = proc[d],
           \A d \in Clients : d # c =>
               /\ InStep(proc'[c], proc[d]) /\ InStep(proc[d], proc'[c])
               /\ Answered(d, fromSd[NodeOf[d]], toClient[d]) => proc[d].got < Asked(proc'[c]),
           \A d \in Clients : Answered(d, fromSd'[NodeOf[d]], toClient'[d]) =>
               /\ Answered(d, fromSd[NodeOf[d]], toClient[d])
               /\ proc'[d].got = proc[d].got /\ Asked(proc'[d]) >= Asked(proc[d]),
           InStep(proc'[c], proc'[c])
    PROVE  StepInv'
<1>1. SUFFICES ASSUME NEW x \in Clients, NEW y \in Clients
               PROVE  /\ InStep(proc'[x], proc'[y])
                      /\ Answered(y, fromSd'[NodeOf[y]], toClient'[y]) =>
                            proc'[y].got < Asked(proc'[x])
  BY DEF StepInv
<1>2. InStep(proc'[x], proc'[y])
  BY DEF StepInv
<1>3. ASSUME Answered(y, fromSd'[NodeOf[y]], toClient'[y])
      PROVE  proc'[y].got < Asked(proc'[x])
  <2>1. /\ Answered(y, fromSd[NodeOf[y]], toClient[y])
        /\ proc'[y].got = proc[y].got /\ Asked(proc'[y]) >= Asked(proc[y])
    BY <1>3
  <2>2. proc[y].got < Asked(proc[x])
    BY <2>1 DEF StepInv
  <2>3. CASE x # c
    BY <2>1, <2>2, <2>3
  <2>4. CASE x = c /\ y # c
    BY <2>1, <2>4
  <2>5. CASE x = c /\ y = c
    <3>1. proc[c] \in Processes /\ proc'[c] \in Processes
      BY DEF ClientTypes
    <3>2. Asked(proc[c]) \in Nat /\ Asked(proc'[c]) \in Nat /\ proc[c].got \in Nat
      BY <3>1, AskedType
    <3> QED BY <2>1, <2>2, <2>5, <3>2
  <2> QED BY <2>3, <2>4, <2>5
<1> QED BY <1>2, <1>3

LEMMA StepStart ==
    ASSUME TypesInv, TypesInv', RequestsInv, StepInv, NEW c \in Clients, Start(c)
    PROVE  StepInv'
<1> DEFINE p == [state |-> "ready", run |-> proc[c].run + 1, got |-> 0, fqp |-> NoFabricQp]
<1>0. ClientTypes /\ ClientTypes' /\ proc \in [Clients -> Processes]
      /\ toClient \in [Clients -> Seq(FabricQps)]
  BY DEF TypesInv, ClientTypes
<1>1. /\ proc[c].state = "down" /\ proc' = [proc EXCEPT ![c] = p]
      /\ toClient' = [toClient EXCEPT ![c] = <<>>] /\ fromSd' = fromSd
      /\ \A d \in Clients : \/ proc[d].run = proc[c].run + 1
                            \/ proc[d].run = proc[c].run /\ proc[d].state = "down"
  BY DEF Start
<1>2. p.state = "ready" /\ p.run = proc[c].run + 1 /\ p.got = 0
  OBVIOUS
<1> HIDE DEF p
<1>3. proc'[c] = p /\ \A d \in Clients : d # c => proc'[d] = proc[d] /\ toClient'[d] = toClient[d]
  BY <1>0, <1>1
<1>4. Asked(p) = 0
  BY <1>2 DEF Asked
<1>5. \A d \in Clients : ~(proc[d].run = proc[c].run + 1 /\
                            (proc[d].state = "waiting" \/ proc[d].got > 0))
  <2> SUFFICES ASSUME NEW d \in Clients, proc[d].run = proc[c].run + 1,
                      proc[d].state = "waiting" \/ proc[d].got > 0
               PROVE  FALSE
    OBVIOUS
  <2>1. proc[d].run <= proc[c].run
    BY DEF StepInv, InStep
  <2> QED BY <1>0, <2>1, AskedType
<1>6. ~Answered(c, fromSd[NodeOf[c]], toClient[c])
  BY <1>1, AnsweredWaits
<1>7. ASSUME NEW d \in Clients, Answered(d, fromSd[NodeOf[d]], toClient[d])
      PROVE  FALSE
  <2>1. proc[d].state = "waiting"
    BY <1>7, AnsweredWaits
  <2> QED BY <1>1, <1>5, <2>1
<1>8. ASSUME NEW d \in Clients, Answered(d, fromSd'[NodeOf[d]], toClient'[d])
      PROVE  Answered(d, fromSd[NodeOf[d]], toClient[d])
  <2>1. CASE d = c
    <3>1. toClient'[c] = <<>>
      BY <1>0, <1>1
    <3> QED BY <1>1, <1>8, <2>1, <3>1 DEF Answered
  <2>2. CASE d # c
    BY <1>1, <1>3, <1>8, <2>2
  <2> QED BY <2>1, <2>2
<1>9. ASSUME NEW d \in Clients, d # c
      PROVE  InStep(p, proc[d]) /\ InStep(proc[d], p)
  <2>1. /\ proc[d].run = proc[c].run + 1 \/ (proc[d].run = proc[c].run /\ proc[d].state = "down")
        /\ proc[c].run \in Nat /\ proc[d].run \in Nat /\ proc[d].got \in Nat
        /\ Asked(proc[d]) \in Nat
    BY <1>0, <1>1, AskedType
  <2>2. InStep(proc[d], proc[c])
    BY DEF StepInv
  <2>3. InStep(p, proc[d])
    BY <1>2, <1>4, <1>5, <2>1 DEF InStep
  <2>4. InStep(proc[d], p)
    BY <1>2, <1>4, <1>5, <2>1, <2>2 DEF InStep
  <2> QED BY <2>3, <2>4
<1>10. InStep(p, p)
  BY <1>0, <1>2, <1>4, AskedType DEF InStep
<1> QED BY <1>0, <1>3, <1>7, <1>8, <1>9, <1>10, StepOfOne

\* The state of a process changes from ready to another one, and nothing else of it.
LEMMA StepGetChannel ==
    ASSUME TypesInv, TypesInv', RequestsInv, StepInv, NEW c \in Clients, GetChannel(c)
    PROVE  StepInv'
<1> DEFINE p == [state |-> "waiting", run |-> proc[c].run, got |-> proc[c].got,
                 fqp |-> proc[c].fqp]
<1>0. ClientTypes /\ ClientTypes' /\ proc \in [Clients -> Processes]
  BY DEF TypesInv, ClientTypes
<1>1. /\ proc[c].state = "ready" /\ proc' = [proc EXCEPT ![c] = p]
      /\ toClient' = toClient /\ fromSd' = fromSd
      /\ \A d \in Clients : proc[d].run = proc[c].run /\ proc[d].got >= proc[c].got
  BY <1>0, StateStep DEF GetChannel, Synchronised
<1>2. p.state = "waiting" /\ p.run = proc[c].run /\ p.got = proc[c].got
  OBVIOUS
<1> HIDE DEF p
<1>3. proc'[c] = p /\ \A d \in Clients : d # c => proc'[d] = proc[d]
  BY <1>0, <1>1
<1>4. proc[c] \in Processes /\ proc[c].run # 0
  BY <1>0, <1>1 DEF ClientTypes
<1>5. /\ Asked(p) = proc[c].got + 1 /\ Asked(proc[c]) = proc[c].got
      /\ proc[c].got \in Nat /\ proc[c].run \in Nat
  BY <1>1, <1>2, <1>4, AskedType DEF Asked
<1>6. \A d \in Clients : Answered(d, fromSd'[NodeOf[d]], toClient'[d]) =>
          Answered(d, fromSd[NodeOf[d]], toClient[d])
  BY <1>1
<1>7. ~Answered(c, fromSd[NodeOf[c]], toClient[c])
  BY <1>1, AnsweredWaits
<1>8. ASSUME NEW d \in Clients, d # c
      PROVE  /\ InStep(p, proc[d]) /\ InStep(proc[d], p)
             /\ Answered(d, fromSd[NodeOf[d]], toClient[d]) => proc[d].got < Asked(p)
  <2>1. InStep(proc[c], proc[d]) /\ InStep(proc[d], proc[c])
    BY DEF StepInv
  <2>2. Answered(d, fromSd[NodeOf[d]], toClient[d]) => proc[d].got < Asked(proc[c])
    BY DEF StepInv
  <2>3. proc[d] \in Processes
    BY <1>0
  <2>4. proc[d].run \in Nat /\ proc[d].got \in Nat /\ Asked(proc[d]) \in Nat
    BY <2>3, AskedType
  <2>5. InStep(p, proc[d])
    BY <1>1, <1>2, <1>4, <1>5, <2>1, <2>4 DEF InStep
  <2>6. InStep(proc[d], p)
    BY <1>1, <1>2, <1>5, <2>1, <2>4 DEF InStep
  <2>7. Answered(d, fromSd[NodeOf[d]], toClient[d]) => proc[d].got < Asked(p)
    BY <1>5, <2>2, <2>4
  <2> QED BY <2>5, <2>6, <2>7
<1>9. InStep(p, p)
  BY <1>2, <1>4, <1>5 DEF InStep
<1>10. ASSUME NEW d \in Clients, Answered(d, fromSd'[NodeOf[d]], toClient'[d])
       PROVE  /\ Answered(d, fromSd[NodeOf[d]], toClient[d])
              /\ proc'[d].got = proc[d].got /\ Asked(proc'[d]) >= Asked(proc[d])
  <2>1. Answered(d, fromSd[NodeOf[d]], toClient[d]) /\ d # c
    BY <1>6, <1>7, <1>10
  <2>2. proc'[d] = proc[d] /\ proc[d] \in Processes
    BY <1>0, <1>3, <2>1
  <2>3. Asked(proc[d]) \in Nat
    BY <2>2, AskedType
  <2> QED BY <2>1, <2>2, <2>3
<1> QED BY <1>0, <1>3, <1>8, <1>9, <1>10, StepOfOne

LEMMA StepExit ==
    ASSUME TypesInv, TypesInv', RequestsInv, StepInv, NEW c \in Clients, Exit(c)
    PROVE  StepInv'
<1> DEFINE p == [state |-> "down", run |-> proc[c].run, got |-> proc[c].got,
                 fqp |-> proc[c].fqp]
<1>0. ClientTypes /\ ClientTypes' /\ proc \in [Clients -> Processes]
  BY DEF TypesInv, ClientTypes
<1>1. /\ proc[c].state = "ready" /\ proc' = [proc EXCEPT ![c] = p]
      /\ toClient' = toClient /\ fromSd' = fromSd
  BY <1>0, StateStep DEF Exit, End
<1>2. p.state = "down" /\ p.run = proc[c].run /\ p.got = proc[c].got
  OBVIOUS
<1> HIDE DEF p
<1>3. proc'[c] = p /\ \A d \in Clients : d # c => proc'[d] = proc[d]
  BY <1>0, <1>1
<1>4. proc[c] \in Processes
  BY <1>0
<1>5. /\ Asked(p) = proc[c].got /\ Asked(proc[c]) = proc[c].got
      /\ proc[c].got \in Nat /\ proc[c].run \in Nat
  BY <1>1, <1>2, <1>4, AskedType DEF Asked
<1>6. \A d \in Clients : Answered(d, fromSd'[NodeOf[d]], toClient'[d]) =>
          Answered(d, fromSd[NodeOf[d]], toClient[d])
  BY <1>1
<1>7. ~Answered(c, fromSd[NodeOf[c]], toClient[c])
  BY <1>1, AnsweredWaits
<1>8. ASSUME NEW d \in Clients
      PROVE  /\ InStep(p, proc[d]) /\ InStep(proc[d], p)
             /\ Answered(d, fromSd[NodeOf[d]], toClient[d]) => proc[d].got < Asked(p)
  <2>1. /\ InStep(proc[c], proc[d]) /\ InStep(proc[d], proc[c])
        /\ Answered(d, fromSd[NodeOf[d]], toClient[d]) => proc[d].got < Asked(proc[c])
    BY DEF StepInv
  <2> QED BY <1>1, <1>2, <1>5, <2>1 DEF InStep
<1>9. InStep(p, p)
  <2>1. InStep(p, proc[c])
    BY <1>8
  <2> QED BY <1>2, <1>5, <2>1 DEF InStep
<1>10. ASSUME NEW d \in Clients, Answered(d, fromSd'[NodeOf[d]], toClient'[d])
       PROVE  /\ Answered(d, fromSd[NodeOf[d]], toClient[d])
              /\ proc'[d].got = proc[d].got /\ Asked(proc'[d]) >= Asked(proc[d])
  <2>1. Answered(d, fromSd[NodeOf[d]], toClient[d]) /\ d # c
    BY <1>6, <1>7, <1>10
  <2>2. proc'[d] = proc[d] /\ proc[d] \in Processes
    BY <1>0, <1>3, <2>1
  <2>3. Asked(proc[d]) \in Nat
    BY <2>2, AskedType
  <2> QED BY <2>1, <2>2, <2>3
<1> QED BY <1>0, <1>3, <1>8, <1>9, <1>10, StepOfOne

\* Whoever reads a reply was answered, so that everybody else has asked.
LEMMA StepReadReply ==
    ASSUME TypesInv, TypesInv', RequestsInv, StepInv, NEW c \in Clients, ReadReply(c)
    PROVE  StepInv'
<1> DEFINE p == [state |-> "ready", run |-> proc[c].run, got |-> proc[c].got + 1,
                 fqp |-> Head(toClient[c])]
           n == NodeOf[c]
<1>0. ClientTypes /\ ClientTypes' /\ proc \in [Clients -> Processes]
      /\ toClient \in [Clients -> Seq(FabricQps)] /\ toClient[c] \in Seq(FabricQps)
  BY DEF TypesInv, ClientTypes
<1>1. /\ proc[c].state = "waiting" /\ proc' = [proc EXCEPT ![c] = p] /\ toClient[c] # <<>>
      /\ toClient' = [toClient EXCEPT ![c] = Tail(@)] /\ fromSd' = fromSd
  BY DEF ReadReply, ndVars
<1>2. p.state = "ready" /\ p.run = proc[c].run /\ p.got = proc[c].got + 1
  OBVIOUS
<1> HIDE DEF p
<1>3. proc'[c] = p /\ \A d \in Clients : d # c => proc'[d] = proc[d] /\ toClient'[d] = toClient[d]
  BY <1>0, <1>1
<1>4. proc[c] \in Processes /\ proc[c].run # 0
  BY <1>0, <1>1 DEF ClientTypes
<1>5. /\ Asked(p) = proc[c].got + 1 /\ Asked(proc[c]) = proc[c].got + 1
      /\ proc[c].got \in Nat /\ proc[c].run \in Nat /\ p.got \in Nat
  BY <1>1, <1>2, <1>4, AskedType DEF Asked
<1>6. Answered(c, fromSd[n], toClient[c])
  BY <1>1 DEF Answered
<1>7. ~Answered(c, fromSd'[n], toClient'[c])
  <2>1. Len(toClient[c]) = 1 /\ NoResponse(c, fromSd[n])
    BY <1>1 DEF RequestsInv, RequestOk, Replied
  <2>2. toClient'[c] = <<>>
    BY <1>0, <1>1, <2>1
  <2> QED BY <1>1, <2>1, <2>2 DEF Answered, NoResponse
<1>8. ASSUME NEW d \in Clients, d # c
      PROVE  /\ InStep(p, proc[d]) /\ InStep(proc[d], p)
             /\ Answered(d, fromSd[NodeOf[d]], toClient[d]) => proc[d].got < Asked(p)
  <2>1. InStep(proc[c], proc[d]) /\ InStep(proc[d], proc[c])
    BY DEF StepInv
  <2>2. Answered(d, fromSd[NodeOf[d]], toClient[d]) => proc[d].got < Asked(proc[c])
    BY DEF StepInv
  <2>3. proc[c].got < Asked(proc[d])
    BY <1>6 DEF StepInv
  <2>4. proc[d] \in Processes
    BY <1>0
  <2>5. /\ proc[d].run \in Nat /\ proc[d].got \in Nat
        /\ Asked(proc[d]) = IF proc[d].state = "waiting" THEN proc[d].got + 1 ELSE proc[d].got
    BY <2>4, AskedType
  <2>6. InStep(p, proc[d])
    BY <1>1, <1>2, <1>4, <1>5, <2>1, <2>5 DEF InStep
  <2>7. InStep(proc[d], p)
    BY <1>1, <1>2, <1>5, <2>1, <2>3, <2>5 DEF InStep
  <2> QED BY <1>5, <2>2, <2>5, <2>6, <2>7
<1>9. InStep(p, p)
  BY <1>2, <1>4, <1>5 DEF InStep
<1>10. ASSUME NEW d \in Clients, Answered(d, fromSd'[NodeOf[d]], toClient'[d])
       PROVE  /\ Answered(d, fromSd[NodeOf[d]], toClient[d])
              /\ proc'[d].got = proc[d].got /\ Asked(proc'[d]) >= Asked(proc[d])
  <2>1. d # c
    BY <1>7, <1>10
  <2>2. Answered(d, fromSd[NodeOf[d]], toClient[d])
    BY <1>1, <1>3, <1>10, <2>1
  <2>3. proc'[d] = proc[d] /\ proc[d] \in Processes
    BY <1>0, <1>3, <2>1
  <2>4. Asked(proc[d]) \in Nat
    BY <2>3, AskedType
  <2> QED BY <2>2, <2>3, <2>4
<1> QED BY <1>0, <1>3, <1>8, <1>9, <1>10, StepOfOne

\* No process changes, and nobody is answered.
LEMMA StepUnmoved ==
    ASSUME StepInv, proc' = proc,
           \A d \in Clients : Answered(d, fromSd'[NodeOf[d]], toClient'[d]) =>
               Answered(d, fromSd[NodeOf[d]], toClient[d])
    PROVE  StepInv'
<1> QED BY DEF StepInv

\* A reply that a node daemon delivers has left the agent before.
LEMMA DeliveryAnswersNobody ==
    ASSUME TypesInv, TypesInv', RequestsInv, NEW n \in Nodes, NdSwitchEvent(n)
    PROVE  /\ proc' = proc
           /\ \A d \in Clients : Answered(d, fromSd'[NodeOf[d]], toClient'[d]) =>
                 Answered(d, fromSd[NodeOf[d]], toClient[d])
<1> DEFINE s == fromSd[n]
           e == Head(s).client
           S == Responses({n}, AllTags)
<1>1. /\ e \in Clients /\ NodeOf[e] = n
      /\ toClient' = [toClient EXCEPT ![e] = Append(@, Head(s).fqp)]
  BY ResponseDelivered
<1>2. proc' = proc /\ fromSd' = [fromSd EXCEPT ![n] = Tail(@)] /\ s # <<>>
  BY DEF NdSwitchEvent
<1>3. s \in Seq(S) /\ DOMAIN fromSd = Nodes /\ toClient \in [Clients -> Seq(FabricQps)]
  BY DEF TypesInv, SdTypes, ClientTypes
<1>4. /\ Len(Tail(s)) = Len(s) - 1 /\ Head(s) = s[1] /\ Len(s) \in Nat /\ Len(s) >= 1
      /\ \A j \in 1 .. Len(s) - 1 : Tail(s)[j] = s[j + 1]
  <2> HIDE DEF s, S
  <2>1. Len(s) \in Nat
    BY <1>3
  <2> QED BY <1>2, <1>3, <2>1, TailFacts
<1>5. fromSd'[n] = Tail(s) /\ \A x \in Nodes : x # n => fromSd'[x] = fromSd[x]
  BY <1>2, <1>3
<1>6. ASSUME NEW d \in Clients, Answered(d, fromSd'[NodeOf[d]], toClient'[d])
      PROVE  Answered(d, fromSd[NodeOf[d]], toClient[d])
  <2>1. CASE d = e
    <3>1. s[1].client = d /\ 1 \in 1 .. Len(s)
      BY <1>4, <2>1
    <3> QED BY <1>1, <2>1, <3>1 DEF Answered
  <2>2. CASE d # e
    <3>1. toClient'[d] = toClient[d]
      BY <1>1, <1>3, <2>2
    <3>2. CASE toClient[d] # <<>>
      BY <3>2 DEF Answered
    <3>3. ASSUME NEW k \in 1 .. Len(fromSd'[NodeOf[d]]), fromSd'[NodeOf[d]][k].client = d
          PROVE  \E j \in 1 .. Len(fromSd[NodeOf[d]]) : fromSd[NodeOf[d]][j].client = d
      <4>1. CASE NodeOf[d] = n
        <5>1. k \in 1 .. Len(Tail(s)) /\ Tail(s)[k].client = d
          BY <1>5, <3>3, <4>1
        <5>2. k + 1 \in 1 .. Len(s) /\ s[k + 1].client = d
          <6> HIDE DEF s
          <6> QED BY <1>4, <5>1
        <5> QED BY <4>1, <5>2
      <4>2. CASE NodeOf[d] # n
        BY <1>5, <3>3, <4>2, ConstantTypes
      <4> QED BY <4>1, <4>2
    <3> QED BY <1>6, <3>1, <3>2, <3>3 DEF Answered
  <2> QED BY <2>1, <2>2
<1> QED BY <1>2, <1>6

\* The agent answers all clients together, when all of them wait.
LEMMA AnsweredTogether ==
    ASSUME TypesInv, TypesInv', MsgsInv, RequestsInv, NEW n \in Nodes, SdEvent(n),
           fromSd' # fromSd
    PROVE  /\ toSd[n][1].kind = "get" /\ SdGetChannel(n, toSd[n][1])
           /\ \A c \in Clients :
                 Granted(c, proc[c], toSd[n][1].tag, channels'[toSd[n][1].tag].parts[c].fqp,
                         nd[NodeOf[c]].conns, owns'[NodeOf[c]], channels')
           /\ AllKnown(channels'[toSd[n][1].tag])
<1> DEFINE msg == toSd[n][1]
<1>1. msg.kind \in {"get", "unref"} /\ msg = Head(toSd[n])
  BY OrderlyMessages
<1>2. \/ /\ msg.kind = "get" /\ SdGetChannel(n, msg)
         /\ Complete(HeldFor(n, msg), UpdatedFor(n, msg)[msg.tag])
      \/ fromSd' = fromSd
  BY <1>1, SdEventStep, SdGetParts DEF SdFails, SdUnrefChannel, RemoveUnowned, sdVars
<1> QED BY <1>2, CompleteHoldsAll, CompleteIsAll

LEMMA StepSdEvent ==
    ASSUME TypesInv, TypesInv', MsgsInv, RequestsInv, StepInv, NEW n \in Nodes, SdEvent(n)
    PROVE  StepInv'
<1>1. proc' = proc /\ toClient' = toClient
  BY OrderlyMessages
<1>2. CASE fromSd' = fromSd
  BY <1>1, <1>2, StepUnmoved
<1>3. CASE fromSd' # fromSd
  <2>1. ASSUME NEW c \in Clients, NEW d \in Clients
        PROVE  proc[d].got < Asked(proc[c])
    <3>1. proc[c].state = "waiting" /\ proc[d].state = "waiting"
      BY <1>3, AnsweredTogether DEF Granted
    <3>2. proc[d].got <= proc[c].got
      BY <3>1 DEF StepInv, InStep
    <3>3. proc[c] \in Processes /\ proc[d] \in Processes
      BY DEF TypesInv, ClientTypes
    <3> QED BY <3>1, <3>2, <3>3, AskedType
  <2> QED BY <1>1, <2>1 DEF StepInv
<1> QED BY <1>2, <1>3

LEMMA StepInit ==
    ASSUME ControlInit
    PROVE  StepInv
<1> DEFINE p == [state |-> "down", run |-> 0, got |-> 0, fqp |-> NoFabricQp]
<1>1. \A c \in Clients : proc[c] = p /\ toClient[c] = <<>> /\ fromSd[NodeOf[c]] = <<>>
  BY ConstantTypes DEF ControlInit
<1>2. InStep(p, p)
  BY DEF InStep, Asked
<1>3. \A c \in Clients : ~Answered(c, fromSd[NodeOf[c]], toClient[c])
  BY <1>1 DEF Answered
<1> QED BY <1>1, <1>2, <1>3 DEF StepInv

LEMMA StepNext ==
    ASSUME Aborts = {}, TypesInv, TypesInv', MsgsInv, RequestsInv, StepInv,
           [ControlNext]_controlVars
    PROVE  StepInv'
<1>1. ASSUME NEW c \in Clients, Start(c)
      PROVE  StepInv'
  BY <1>1, StepStart
<1>2. ASSUME NEW c \in Clients, GetChannel(c)
      PROVE  StepInv'
  BY <1>2, StepGetChannel
<1>3. ASSUME NEW c \in Clients, ReadReply(c)
      PROVE  StepInv'
  BY <1>3, StepReadReply
<1>4. ASSUME NEW c \in Clients, Exit(c)
      PROVE  StepInv'
  BY <1>4, StepExit
<1>5. ASSUME NEW c \in Clients, Kill(c)
      PROVE  FALSE
  BY <1>5 DEF Kill
<1>6. ASSUME NEW n \in Nodes, NdSwitchEvent(n)
      PROVE  StepInv'
  BY <1>6, DeliveryAnswersNobody, StepUnmoved
<1>7. ASSUME NEW n \in Nodes, SdEvent(n)
      PROVE  StepInv'
  BY <1>7, StepSdEvent
<1>8. ASSUME NEW n \in Nodes, Discover(n) \/ NdClientEvent(n)
      PROVE  StepInv'
  <2>1. proc' = proc /\ toClient' = toClient /\ fromSd' = fromSd
    BY <1>8 DEF Discover, NdClientEvent, clientVars
  <2> QED BY <2>1, StepUnmoved
<1>9. ASSUME UNCHANGED controlVars
      PROVE  StepInv'
  <2>1. proc' = proc /\ toClient' = toClient /\ fromSd' = fromSd
    BY <1>9 DEF controlVars, clientVars
  <2> QED BY <2>1, StepUnmoved
<1> QED BY <1>1, <1>2, <1>3, <1>4, <1>5, <1>6, <1>7, <1>8, <1>9 DEF ControlNext, AllEnded

LEMMA StepHold ==
    ASSUME Aborts = {}
    PROVE  ControlSpec => []StepInv
<1> QED BY StepInit, StepNext, TypesHold, ReposHold, RequestsHold, PTL DEF ControlSpec

-----------------------------------------------------------------------------
(* What a client obtains is known: all participants have registered.        *)

KnownInv ==
    \A c \in Clients :
        /\ Answered(c, fromSd[NodeOf[c]], toClient[c]) =>
              AllKnown(channels[Program[proc[c].got + 1]])
        /\ proc[c].state = "ready" /\ proc[c].got # 0 =>
              AllKnown(channels[Program[proc[c].got]])

\* Whoever is answered waits, and the agent knows the client.
LEMMA AnsweredGranted ==
    ASSUME NEW c, NEW p, NEW conns, NEW own, NEW chs, NEW events, NEW msgs, NEW held,
           NEW resps, NEW replies,
           FromSd(c, p, conns, own, chs, events, msgs, held, resps),
           Replied(c, p, conns, own, chs, events, msgs, held, resps, replies),
           Answered(c, resps, replies)
    PROVE  p.state = "waiting" /\ Program[p.got + 1] \in Tags(chs)
<1>1. CASE replies # <<>>
  BY <1>1 DEF Replied, Granted, Registered
<1>2. CASE \E k \in 1 .. Len(resps) : resps[k].client = c
  BY <1>2 DEF FromSd, Granted, Registered
<1> QED BY <1>1, <1>2 DEF Answered

\* A channel stays known.
LEMMA StaysKnown ==
    ASSUME TypesInv, MsgsInv, RequestsInv, NEW n \in Nodes, SdEvent(n),
           NEW t \in Tags(channels), t \in Tags(channels'), AllKnown(channels[t])
    PROVE  AllKnown(channels'[t])
<1> DEFINE msg == toSd[n][1]
<1>1. CASE \A u \in Tags(channels') : u \in Tags(channels) /\ channels'[u] = channels[u]
  BY <1>1
<1>2. CASE msg.kind = "get" /\ SdGetChannel(n, msg)
  <2>1. /\ msg \in Messages /\ SdTypes
        /\ msg.tag \in Tags(channels) \/ CanAllocate(channels)
        /\ msg.client \in Clients
    BY <1>2, RegisterFacts DEF TypesInv
  <2>2. channels' = UpdatedFor(n, msg)
    BY <1>2, SdGetParts
  <2>3. CASE t # msg.tag
    <3>1. channels'[t] = channels[t]
      BY <1>2, <2>1, <2>2, <2>3, RegisteringTypes
    <3> QED BY <3>1
  <2>4. CASE t = msg.tag
    <3>1. AddedFor(msg)[t] = channels[t]
      BY <2>4 DEF AddedFor
    <3>2. /\ channels'[t] \in Channels
          /\ channels'[t].parts[msg.client] = [node |-> n, qp |-> msg.qp, fqp |-> FqpFor(n, msg)]
          /\ \A d \in Clients : d # msg.client => channels'[t].parts[d] = channels[t].parts[d]
      <4>1. t = msg.tag /\ msg.kind = "get"
        BY <1>2, <2>4
      <4> HIDE DEF msg
      <4> QED BY <2>1, <2>2, <3>1, <4>1, RegisteringTypes
    <3>3. channels[t] \in Channels
      BY DEF TypesInv, SdTypes
    <3>4. DOMAIN channels[t].parts = Clients /\ DOMAIN channels'[t].parts = Clients
      BY <3>2, <3>3 DEF Channels
    <3>5. [node |-> n, qp |-> msg.qp, fqp |-> FqpFor(n, msg)] # Unknown
      BY ControlPlaneAssumption
    <3> QED BY <3>2, <3>4, <3>5 DEF AllKnown
  <2> QED BY <2>3, <2>4
<1> QED BY <1>1, <1>2, RepositoryStep

LEMMA KnownStep ==
    ASSUME RequestsInv, RequestsInv', KnownInv,
           \A t \in Tags(channels) :
               t \in Tags(channels') /\ AllKnown(channels[t]) => AllKnown(channels'[t]),
           \A c \in Clients : Answered(c, fromSd'[NodeOf[c]], toClient'[c]) =>
               \/ AllKnown(channels'[Program[proc'[c].got + 1]])
               \/ proc'[c].got = proc[c].got /\ Answered(c, fromSd[NodeOf[c]], toClient[c]),
           \A c \in Clients : proc'[c].state = "ready" /\ proc'[c].got # 0 =>
               \/ proc'[c].got = proc[c].got /\ proc[c].state = "ready"
               \/ proc'[c].got = proc[c].got + 1 /\ Answered(c, fromSd[NodeOf[c]], toClient[c])
    PROVE  KnownInv'
<1> SUFFICES ASSUME NEW c \in Clients
             PROVE  /\ Answered(c, fromSd'[NodeOf[c]], toClient'[c]) =>
                           AllKnown(channels'[Program[proc'[c].got + 1]])
                    /\ proc'[c].state = "ready" /\ proc'[c].got # 0 =>
                           AllKnown(channels'[Program[proc'[c].got]])
  BY DEF KnownInv
<1> DEFINE n == NodeOf[c]
<1>1. Answered(c, fromSd[n], toClient[c]) => Program[proc[c].got + 1] \in Tags(channels)
  <2>1. /\ FromSd(c, proc[c], nd[n].conns, owns[n], channels, inbox[n], toSd[n], pending, fromSd[n])
        /\ Replied(c, proc[c], nd[n].conns, owns[n], channels, inbox[n], toSd[n], pending,
                   fromSd[n], toClient[c])
    BY DEF RequestsInv, RequestOk
  <2> QED BY <2>1, AnsweredGranted
<1>2. Answered(c, fromSd'[n], toClient'[c]) => Program[proc'[c].got + 1] \in Tags(channels')
  <2>1. /\ FromSd(c, proc'[c], nd'[n].conns, owns'[n], channels', inbox'[n], toSd'[n], pending',
                  fromSd'[n])
        /\ Replied(c, proc'[c], nd'[n].conns, owns'[n], channels', inbox'[n], toSd'[n], pending',
                   fromSd'[n], toClient'[c])
    BY DEF RequestsInv, RequestOk
  <2> QED BY <2>1, AnsweredGranted
<1>3. proc[c].state = "ready" /\ proc[c].got # 0 => Program[proc[c].got] \in Tags(channels)
  BY DEF RequestsInv, RequestOk, Obtained, Registered
<1>4. proc'[c].state = "ready" /\ proc'[c].got # 0 => Program[proc'[c].got] \in Tags(channels')
  BY DEF RequestsInv, RequestOk, Obtained, Registered
<1>5. /\ Answered(c, fromSd[n], toClient[c]) => AllKnown(channels[Program[proc[c].got + 1]])
      /\ proc[c].state = "ready" /\ proc[c].got # 0 => AllKnown(channels[Program[proc[c].got]])
  BY DEF KnownInv
<1> QED BY <1>1, <1>2, <1>3, <1>4, <1>5

LEMMA KnownNext ==
    ASSUME Aborts = {}, TypesInv, TypesInv', MsgsInv, RequestsInv, RequestsInv', KnownInv,
           [ControlNext]_controlVars
    PROVE  KnownInv'
<1>a. ASSUME NEW c \in Clients, Answered(c, fromSd'[NodeOf[c]], toClient'[c])
      PROVE  proc'[c].state = "waiting"
  <2> DEFINE n == NodeOf[c]
  <2>1. /\ FromSd(c, proc'[c], nd'[n].conns, owns'[n], channels', inbox'[n], toSd'[n], pending',
                  fromSd'[n])
        /\ Replied(c, proc'[c], nd'[n].conns, owns'[n], channels', inbox'[n], toSd'[n], pending',
                   fromSd'[n], toClient'[c])
    BY DEF RequestsInv, RequestOk
  <2> QED BY <1>a, <2>1, AnsweredGranted
<1>b. proc \in [Clients -> Processes] /\ toClient \in [Clients -> Seq(FabricQps)]
  BY DEF TypesInv, ClientTypes
<1>1. ASSUME NEW c \in Clients, Start(c)
      PROVE  KnownInv'
  <2>1. /\ proc' = [proc EXCEPT ![c] = [state |-> "ready", run |-> proc[c].run + 1, got |-> 0,
                                        fqp |-> NoFabricQp]]
        /\ toClient' = [toClient EXCEPT ![c] = <<>>] /\ fromSd' = fromSd /\ channels' = channels
    BY <1>1 DEF Start, sdVars
  <2>2. /\ proc'[c].state = "ready" /\ proc'[c].got = 0
        /\ \A d \in Clients : d # c => proc'[d] = proc[d] /\ toClient'[d] = toClient[d]
    BY <1>b, <2>1
  <2> QED BY <1>a, <2>1, <2>2, KnownStep
<1>2. ASSUME NEW c \in Clients, GetChannel(c)
      PROVE  KnownInv'
  <2>1. /\ proc' = [proc EXCEPT ![c] = [state |-> "waiting", run |-> proc[c].run,
                                        got |-> proc[c].got, fqp |-> proc[c].fqp]]
        /\ toClient' = toClient /\ fromSd' = fromSd /\ channels' = channels
    BY <1>2, StateStep DEF GetChannel, sdVars, TypesInv
  <2>2. /\ proc'[c].state = "waiting" /\ proc'[c].got = proc[c].got
        /\ \A d \in Clients : d # c => proc'[d] = proc[d]
    BY <1>b, <2>1
  <2> QED BY <2>1, <2>2, KnownStep
<1>3. ASSUME NEW c \in Clients, ReadReply(c)
      PROVE  KnownInv'
  <2>1. /\ proc' = [proc EXCEPT ![c] = [state |-> "ready", run |-> proc[c].run,
                                        got |-> proc[c].got + 1, fqp |-> Head(toClient[c])]]
        /\ toClient' = [toClient EXCEPT ![c] = Tail(@)] /\ fromSd' = fromSd
        /\ channels' = channels /\ toClient[c] # <<>>
    BY <1>3 DEF ReadReply, sdVars
  <2>2. /\ proc'[c].state = "ready" /\ proc'[c].got = proc[c].got + 1
        /\ \A d \in Clients : d # c => proc'[d] = proc[d] /\ toClient'[d] = toClient[d]
    BY <1>b, <2>1
  <2>3. Answered(c, fromSd[NodeOf[c]], toClient[c])
    BY <2>1 DEF Answered
  <2> QED BY <1>a, <2>1, <2>2, <2>3, KnownStep
<1>4. ASSUME NEW c \in Clients, Exit(c)
      PROVE  KnownInv'
  <2>1. /\ proc' = [proc EXCEPT ![c] = [state |-> "down", run |-> proc[c].run,
                                        got |-> proc[c].got, fqp |-> proc[c].fqp]]
        /\ toClient' = toClient /\ fromSd' = fromSd /\ channels' = channels
    BY <1>4, StateStep DEF Exit, End, sdVars, TypesInv
  <2>2. /\ proc'[c].state = "down" /\ proc'[c].got = proc[c].got
        /\ \A d \in Clients : d # c => proc'[d] = proc[d]
    BY <1>b, <2>1
  <2> QED BY <2>1, <2>2, KnownStep
<1>5. ASSUME NEW c \in Clients, Kill(c)
      PROVE  FALSE
  BY <1>5 DEF Kill
<1>6. ASSUME NEW n \in Nodes, NdSwitchEvent(n)
      PROVE  KnownInv'
  <2>1. channels' = channels
    BY <1>6 DEF NdSwitchEvent, sdVars
  <2> QED BY <1>6, <2>1, DeliveryAnswersNobody, KnownStep
<1>7. ASSUME NEW n \in Nodes, SdEvent(n)
      PROVE  KnownInv'
  <2>1. proc' = proc /\ toClient' = toClient
    BY <1>7, OrderlyMessages
  <2>2. \A t \in Tags(channels) :
            t \in Tags(channels') /\ AllKnown(channels[t]) => AllKnown(channels'[t])
    BY <1>7, StaysKnown
  <2>3. CASE fromSd' = fromSd
    BY <2>1, <2>2, <2>3, KnownStep
  <2>4. CASE fromSd' # fromSd
    <3> DEFINE tag == toSd[n][1].tag
    <3>1. \A c \in Clients : tag = Program[proc[c].got + 1]
      BY <1>7, <2>4, AnsweredTogether DEF Granted
    <3>2. AllKnown(channels'[tag])
      BY <1>7, <2>4, AnsweredTogether
    <3> QED BY <2>1, <2>2, <3>1, <3>2, KnownStep
  <2> QED BY <2>3, <2>4
<1>8. ASSUME NEW n \in Nodes, Discover(n) \/ NdClientEvent(n)
      PROVE  KnownInv'
  <2>1. proc' = proc /\ toClient' = toClient /\ fromSd' = fromSd /\ channels' = channels
    BY <1>8 DEF Discover, NdClientEvent, clientVars, sdVars
  <2> QED BY <2>1, KnownStep
<1>9. ASSUME UNCHANGED controlVars
      PROVE  KnownInv'
  <2>1. proc' = proc /\ toClient' = toClient /\ fromSd' = fromSd /\ channels' = channels
    BY <1>9 DEF controlVars, clientVars, sdVars
  <2> QED BY <2>1, KnownStep
<1> QED BY <1>1, <1>2, <1>3, <1>4, <1>5, <1>6, <1>7, <1>8, <1>9 DEF ControlNext, AllEnded

LEMMA KnownHold ==
    ASSUME Aborts = {}
    PROVE  ControlSpec => []KnownInv
<1>1. ASSUME ControlInit
      PROVE  KnownInv
  <2>1. \A c \in Clients : proc[c].state = "down" /\ toClient[c] = <<>> /\ fromSd[NodeOf[c]] = <<>>
    BY <1>1, ConstantTypes DEF ControlInit
  <2>2. \A c \in Clients : ~Answered(c, fromSd[NodeOf[c]], toClient[c])
    BY <2>1 DEF Answered
  <2> QED BY <2>1, <2>2 DEF KnownInv
<1> QED BY <1>1, KnownNext, TypesHold, ReposHold, RequestsHold, PTL DEF ControlSpec

-----------------------------------------------------------------------------
(* Tags used once: everybody registers once, and the numbers fit.           *)

\* The request of a client for a channel is on its way to the agent.
Asking(c, t, events, msgs) ==
    \/ \E k \in 1 .. Len(events) :
          events[k].kind = "get" /\ events[k].from.client = c /\ events[k].tag = t
    \/ \E k \in 1 .. Len(msgs) : msgs[k].kind = "get" /\ msgs[k].client = c /\ msgs[k].tag = t

AskedFor(p, t) == \E k \in 1 .. Asked(p) : Program[k] = t

\* A process has not asked twice for a channel, neither in its job nor in an earlier one.
AskedOnce(p, t) ==
    p.run <= 1 /\ \A j, k \in 1 .. Asked(p) : Program[j] = t /\ Program[k] = t => j = k

Fresh(t, procs) == \A c \in Clients : AskedOnce(procs[c], t)

\* Nobody has registered with a channel more than once: who has will not do so again,
\* and who has not is not counted for the next number.
OnceOk(t, ch, procs, events, msgs) ==
    Fresh(t, procs) =>
        /\ NumbersFit(ch)
        /\ \A c \in Clients : ch.parts[c] # Unknown =>
              AskedFor(procs[c], t) /\ ~Asking(c, t, events[NodeOf[c]], msgs[NodeOf[c]])

OnceInv == \A t \in Tags(channels) : OnceOk(t, channels[t], proc, inbox, toSd)

\* Processes ask for more, and no channel changes.
LEMMA OnceStep ==
    ASSUME NEW t, NEW ch, NEW procs, NEW procs2, NEW events, NEW events2, NEW msgs, NEW msgs2,
           OnceOk(t, ch, procs, events, msgs),
           Fresh(t, procs2) =>
               /\ Fresh(t, procs)
               /\ \A c \in Clients : AskedFor(procs[c], t) => AskedFor(procs2[c], t),
           \A c \in Clients : Asking(c, t, events2[NodeOf[c]], msgs2[NodeOf[c]]) =>
               \/ Asking(c, t, events[NodeOf[c]], msgs[NodeOf[c]])
               \/ ~AskedFor(procs[c], t)
               \/ ~Fresh(t, procs2)
    PROVE  OnceOk(t, ch, procs2, events2, msgs2)
<1> QED BY DEF OnceOk

\* Requests are passed on.
LEMMA OncePassed ==
    ASSUME OnceInv, proc' = proc, channels' = channels,
           \A c \in Clients, t \in Tags(channels) :
               Asking(c, t, inbox'[NodeOf[c]], toSd'[NodeOf[c]]) =>
                  Asking(c, t, inbox[NodeOf[c]], toSd[NodeOf[c]])
    PROVE  OnceInv'
<1> SUFFICES ASSUME NEW t \in Tags(channels)
             PROVE  OnceOk(t, channels[t], proc, inbox', toSd')
  BY DEF OnceInv, Tags
<1>1. OnceOk(t, channels[t], proc, inbox, toSd)
  BY DEF OnceInv
<1> QED BY <1>1, OnceStep

\* A process goes on in its job.
LEMMA AsksMore ==
    ASSUME NEW p \in Processes, NEW q \in Processes, NEW t, p.run <= q.run, Asked(p) <= Asked(q)
    PROVE  /\ AskedOnce(q, t) => AskedOnce(p, t)
           /\ AskedFor(p, t) => AskedFor(q, t)
<1>1. Asked(p) \in Nat /\ Asked(q) \in Nat /\ p.run \in Nat /\ q.run \in Nat
  BY AskedType
<1>2. 1 .. Asked(p) \subseteq 1 .. Asked(q)
  BY <1>1
<1>3. q.run <= 1 => p.run <= 1
  BY <1>1
<1> QED BY <1>2, <1>3 DEF AskedOnce, AskedFor

LEMMA OnceOfOne ==
    ASSUME ClientTypes, ClientTypes', OnceInv, NEW c \in Clients, channels' = channels,
           \A d \in Clients : d # c => proc'[d] = proc[d],
           \A t : AskedOnce(proc'[c], t) =>
               AskedOnce(proc[c], t) /\ (AskedFor(proc[c], t) => AskedFor(proc'[c], t)),
           \A d \in Clients : \A t :
               Asking(d, t, inbox'[NodeOf[d]], toSd'[NodeOf[d]]) =>
                  \/ Asking(d, t, inbox[NodeOf[d]], toSd[NodeOf[d]])
                  \/ d = c /\ ~(AskedFor(proc[c], t) /\ AskedOnce(proc'[c], t))
    PROVE  OnceInv'
<1> SUFFICES ASSUME NEW t \in Tags(channels)
             PROVE  OnceOk(t, channels[t], proc', inbox', toSd')
  BY DEF OnceInv, Tags
<1>1. OnceOk(t, channels[t], proc, inbox, toSd)
  BY DEF OnceInv
<1>2. Fresh(t, proc') => Fresh(t, proc)
  BY DEF Fresh
<1>3. Fresh(t, proc') => \A d \in Clients : AskedFor(proc[d], t) => AskedFor(proc'[d], t)
  BY DEF Fresh
<1>4. \A d \in Clients : Asking(d, t, inbox'[NodeOf[d]], toSd'[NodeOf[d]]) =>
          \/ Asking(d, t, inbox[NodeOf[d]], toSd[NodeOf[d]])
          \/ ~AskedFor(proc[d], t)
          \/ ~Fresh(t, proc')
  BY DEF Fresh
<1> QED BY <1>1, <1>2, <1>3, <1>4, OnceStep

LEMMA OnceStart ==
    ASSUME TypesInv, TypesInv', StepInv, OnceInv, NEW c \in Clients, Start(c)
    PROVE  OnceInv'
<1> DEFINE p == [state |-> "ready", run |-> proc[c].run + 1, got |-> 0, fqp |-> NoFabricQp]
<1>0. ClientTypes /\ ClientTypes' /\ proc \in [Clients -> Processes]
  BY DEF TypesInv, ClientTypes
<1>1. /\ proc[c].state = "down" /\ proc' = [proc EXCEPT ![c] = p]
      /\ inbox' = inbox /\ toSd' = toSd /\ channels' = channels
  BY DEF Start, sdVars
<1>2. proc'[c] = p /\ \A d \in Clients : d # c => proc'[d] = proc[d]
  BY <1>0, <1>1
<1>3. ASSUME NEW t, AskedOnce(p, t)
      PROVE  AskedOnce(proc[c], t) /\ ~AskedFor(proc[c], t)
  <2>1. proc[c].run \in Nat /\ proc[c].got \in Nat
    BY <1>0, AskedType
  <2>2. p.run = proc[c].run + 1
    OBVIOUS
  <2>3. p.run <= 1
    BY <1>3 DEF AskedOnce
  <2> HIDE DEF p
  <2>4. proc[c].run = 0
    BY <2>1, <2>2, <2>3
  <2>5. InStep(proc[c], proc[c])
    BY DEF StepInv
  <2>6. proc[c].got = 0
    BY <2>1, <2>4, <2>5 DEF InStep
  <2>7. Asked(proc[c]) = 0
    BY <1>1, <2>6 DEF Asked
  <2> QED BY <2>4, <2>7 DEF AskedOnce, AskedFor
<1> HIDE DEF p
<1> QED BY <1>0, <1>1, <1>2, <1>3, OnceOfOne

\* A process that goes on, and asks for nothing.
LEMMA OnceOfAnother ==
    ASSUME ClientTypes, ClientTypes', OnceInv, NEW c \in Clients, channels' = channels,
           toSd' = toSd, NEW p, proc' = [proc EXCEPT ![c] = p], p.run = proc[c].run,
           Asked(p) >= Asked(proc[c]),
           \A d \in Clients : \A t : Asking(d, t, inbox'[NodeOf[d]], toSd[NodeOf[d]]) =>
               \/ Asking(d, t, inbox[NodeOf[d]], toSd[NodeOf[d]])
               \/ d = c /\ ~(AskedFor(proc[c], t) /\ AskedOnce(p, t))
    PROVE  OnceInv'
<1>0. proc \in [Clients -> Processes] /\ proc' \in [Clients -> Processes]
  BY DEF ClientTypes
<1>1. proc'[c] = p /\ \A d \in Clients : d # c => proc'[d] = proc[d]
  BY <1>0
<1>2. proc[c] \in Processes /\ p \in Processes
  BY <1>0, <1>1
<1>3. proc[c].run <= p.run /\ Asked(proc[c]) <= Asked(p)
  BY <1>2, AskedType
<1>4. \A t : AskedOnce(p, t) =>
          AskedOnce(proc[c], t) /\ (AskedFor(proc[c], t) => AskedFor(p, t))
  BY <1>2, <1>3, AsksMore
<1> QED BY <1>1, <1>4, OnceOfOne

LEMMA OnceGetChannel ==
    ASSUME TypesInv, TypesInv', OnceInv, NEW c \in Clients, GetChannel(c)
    PROVE  OnceInv'
<1> DEFINE p == [state |-> "waiting", run |-> proc[c].run, got |-> proc[c].got,
                 fqp |-> proc[c].fqp]
           n == NodeOf[c]
           k == proc[c].got + 1
           e == [kind |-> "get", from |-> Id(c), tag |-> Program[k],
                 qp |-> QpNum(proc[c].run, k)]
<1>0. /\ ClientTypes /\ ClientTypes' /\ proc \in [Clients -> Processes] /\ n \in Nodes
      /\ inbox \in [Nodes -> Seq(Events)]
  BY ConstantTypes DEF TypesInv, ClientTypes, NdTypes
<1>1. /\ proc[c].state = "ready" /\ proc' = [proc EXCEPT ![c] = p]
      /\ inbox' = [inbox EXCEPT ![n] = Append(@, e)] /\ toSd' = toSd /\ channels' = channels
  BY <1>0, StateStep DEF GetChannel, sdVars
<1>2. /\ p.run = proc[c].run /\ proc[c].got \in Nat
      /\ Asked(p) = k /\ Asked(proc[c]) = proc[c].got /\ Asked(p) >= Asked(proc[c])
  <2>1. proc[c].got \in Nat
    BY <1>0, AskedType
  <2> QED BY <1>1, <2>1 DEF Asked
<1>3. e.from.client = c /\ e.tag = Program[k]
  BY DEF Id
<1>4. ASSUME NEW t, AskedOnce(p, t), AskedFor(proc[c], t)
      PROVE  Program[k] # t
  <2>1. PICK j \in 1 .. proc[c].got : Program[j] = t
    BY <1>2, <1>4 DEF AskedFor
  <2> HIDE DEF p
  <2>2. j \in 1 .. Asked(p) /\ k \in 1 .. Asked(p) /\ j # k
    BY <1>2
  <2> QED BY <1>4, <2>1, <2>2 DEF AskedOnce
<1> HIDE DEF p, e
<1>5. inbox'[n] = Append(inbox[n], e) /\ \A x \in Nodes : x # n => inbox'[x] = inbox[x]
  BY <1>0, <1>1
<1>6. \A j \in 1 .. Len(Append(inbox[n], e)) :
          \/ Append(inbox[n], e)[j] = e
          \/ j \in 1 .. Len(inbox[n]) /\ Append(inbox[n], e)[j] = inbox[n][j]
  <2>1. inbox[n] \in Seq(Events)
    BY <1>0
  <2> QED BY <2>1
<1>7. ASSUME NEW d \in Clients, NEW t, Asking(d, t, inbox'[NodeOf[d]], toSd[NodeOf[d]])
      PROVE  \/ Asking(d, t, inbox[NodeOf[d]], toSd[NodeOf[d]])
             \/ d = c /\ ~(AskedFor(proc[c], t) /\ AskedOnce(p, t))
  <2>1. CASE NodeOf[d] # n
    BY <1>5, <1>7, <2>1, ConstantTypes
  <2>2. CASE NodeOf[d] = n
    <3>1. ASSUME NEW j \in 1 .. Len(inbox'[n]), inbox'[n][j].from.client = d, inbox'[n][j].tag = t,
                 inbox'[n][j] = e
          PROVE  d = c /\ ~(AskedFor(proc[c], t) /\ AskedOnce(p, t))
      BY <1>3, <1>4, <3>1
    <3> QED BY <1>5, <1>6, <1>7, <2>2, <3>1 DEF Asking
  <2> QED BY <2>1, <2>2
<1> QED BY <1>0, <1>1, <1>2, <1>7, OnceOfAnother

LEMMA OnceReadReply ==
    ASSUME TypesInv, TypesInv', OnceInv, NEW c \in Clients, ReadReply(c)
    PROVE  OnceInv'
<1> DEFINE p == [state |-> "ready", run |-> proc[c].run, got |-> proc[c].got + 1,
                 fqp |-> Head(toClient[c])]
<1>0. ClientTypes /\ ClientTypes' /\ proc \in [Clients -> Processes]
  BY DEF TypesInv, ClientTypes
<1>1. /\ proc[c].state = "waiting" /\ proc' = [proc EXCEPT ![c] = p]
      /\ inbox' = inbox /\ toSd' = toSd /\ channels' = channels
  BY DEF ReadReply, ndVars, sdVars
<1>2. p.run = proc[c].run /\ Asked(p) >= Asked(proc[c])
  <2>1. proc[c].got \in Nat
    BY <1>0, AskedType
  <2> QED BY <1>1, <2>1 DEF Asked
<1> HIDE DEF p
<1> QED BY <1>0, <1>1, <1>2, OnceOfAnother

LEMMA OnceExit ==
    ASSUME TypesInv, TypesInv', OnceInv, NEW c \in Clients, Exit(c)
    PROVE  OnceInv'
<1> DEFINE p == [state |-> "down", run |-> proc[c].run, got |-> proc[c].got,
                 fqp |-> proc[c].fqp]
           n == NodeOf[c]
           e == [kind |-> "eof", from |-> Id(c)]
<1>0. /\ ClientTypes /\ ClientTypes' /\ proc \in [Clients -> Processes] /\ n \in Nodes
      /\ inbox \in [Nodes -> Seq(Events)]
  BY ConstantTypes DEF TypesInv, ClientTypes, NdTypes
<1>1. /\ proc[c].state = "ready" /\ proc' = [proc EXCEPT ![c] = p]
      /\ inbox' = inbox \/ inbox' = [inbox EXCEPT ![n] = Append(@, e)]
      /\ toSd' = toSd /\ channels' = channels
  BY <1>0, StateStep DEF Exit, End, sdVars
<1>2. p.run = proc[c].run /\ Asked(p) >= Asked(proc[c])
  <2>1. proc[c].got \in Nat
    BY <1>0, AskedType
  <2> QED BY <1>1, <2>1 DEF Asked
<1>3. e.kind # "get"
  OBVIOUS
<1> HIDE DEF p, e
<1>4. ASSUME NEW x \in Nodes, NEW j \in 1 .. Len(inbox'[x])
      PROVE  inbox'[x][j] = e \/ (j \in 1 .. Len(inbox[x]) /\ inbox'[x][j] = inbox[x][j])
  <2>1. inbox[x] \in Seq(Events)
    BY <1>0
  <2>2. inbox'[x] = inbox[x] \/ inbox'[x] = Append(inbox[x], e)
    BY <1>0, <1>1
  <2> QED BY <2>1, <2>2
<1>5. \A d \in Clients : \A t : Asking(d, t, inbox'[NodeOf[d]], toSd[NodeOf[d]]) =>
          Asking(d, t, inbox[NodeOf[d]], toSd[NodeOf[d]])
  BY <1>3, <1>4, ConstantTypes DEF Asking
<1> QED BY <1>0, <1>1, <1>2, <1>5, OnceOfAnother

\* A node daemon passes requests on, and adds none.
LEMMA AskingPassed ==
    ASSUME TypesInv, ConnsInv, RequestsInv, NEW n \in Nodes, NdClientEvent(n),
           NEW c \in Clients, NEW t, Asking(c, t, inbox'[NodeOf[c]], toSd'[NodeOf[c]])
    PROVE  Asking(c, t, inbox[NodeOf[c]], toSd[NodeOf[c]])
<1> DEFINE e == inbox[n][1]
           s == inbox[n]
           ms == toSd[n]
           m == [kind |-> "get", client |-> e.from.client, tag |-> e.tag, qp |-> e.qp]
           unrefs == UnrefsFor(Unused(nd[n].conns, ConnOf(n, e.from)))
<1>1. /\ nd[n].up /\ s # <<>> /\ inbox' = [inbox EXCEPT ![n] = Tail(@)]
      /\ s \in Seq(Events) /\ ms \in Seq(Messages)
      /\ inbox \in [Nodes -> Seq(Events)] /\ toSd \in [Nodes -> Seq(Messages)] /\ NdTypes
  BY DEF NdClientEvent, TypesInv, NdTypes
<1>2. /\ Head(s) = e /\ e \in Events /\ 1 \in 1 .. Len(s)
      /\ IF e.kind = "get" THEN NdGetChannel(n, e) ELSE NdRemoveClient(n, e.from)
  <2>1. Head(s) = e /\ e \in Events /\ 1 \in 1 .. Len(s)
    BY <1>1
  <2> QED BY <2>1 DEF NdClientEvent
<1>3. Has(nd[n].conns, e.from)
  <2>1. ConnsOk(n, nd[n].conns, s, proc)
    BY <1>1 DEF ConnsInv
  <2> QED BY <1>2, <2>1 DEF ConnsOk, EventsOfConns
<1>4. /\ inbox'[n] = Tail(s) /\ \A x \in Nodes : x # n => inbox'[x] = inbox[x]
  BY <1>1
<1>5. \A k \in 1 .. Len(Tail(s)) : k + 1 \in 1 .. Len(s) /\ Tail(s)[k] = s[k + 1]
  <2> HIDE DEF s
  <2>1. Len(Tail(s)) = Len(s) - 1 /\ \A k \in 1 .. Len(s) - 1 : Tail(s)[k] = s[k + 1]
    BY <1>1, TailFacts
  <2>2. Len(s) \in Nat
    BY <1>1
  <2> QED BY <2>1, <2>2
<1>6. \/ toSd' = toSd
      \/ e.kind = "get" /\ toSd' = [toSd EXCEPT ![n] = Append(@, m)] /\ m \in Messages
      \/ /\ toSd' = [toSd EXCEPT ![n] = @ \o unrefs] /\ unrefs \in Seq(Messages)
         /\ \A k \in 1 .. Len(unrefs) : unrefs[k].kind = "unref"
  <2> HIDE DEF e
  <2>1. CASE e.kind = "get" /\ nd[n].known
    BY <1>1, <1>2, <1>3, <2>1, NdGetChannelStep
  <2>2. CASE e.kind = "get" /\ ~nd[n].known
    BY <1>2, <2>2 DEF NdGetChannel
  <2>3. CASE e.kind # "get"
    <3> DEFINE unused == Unused(nd[n].conns, ConnOf(n, e.from))
    <3>1. unused \in SUBSET AllTags /\ toSd' = [toSd EXCEPT ![n] = @ \o UnrefsFor(unused)]
      BY <1>1, <1>2, <1>3, <2>3, NdRemoveClientStep
    <3> HIDE DEF unused
    <3>2. UnrefsFor(unused) \in Seq(Messages) /\ \A k \in 1 .. Len(UnrefsFor(unused)) :
              UnrefsFor(unused)[k].kind = "unref"
      BY <3>1, UnrefsForFacts
    <3> QED BY <3>1, <3>2 DEF unused
  <2> QED BY <2>1, <2>2, <2>3
<1>7. m.kind = "get" /\ m.client = e.from.client /\ m.tag = e.tag
  OBVIOUS
<1> HIDE DEF m, unrefs, e
<1>8. \A x \in Nodes : x # n => toSd'[x] = toSd[x]
  BY <1>1, <1>6
<1>9. ASSUME NEW k \in 1 .. Len(toSd'[n]), toSd'[n][k].kind = "get"
      PROVE  \/ \E j \in 1 .. Len(ms) : toSd'[n][k] = ms[j]
             \/ e.kind = "get" /\ toSd'[n][k] = m
  <2>1. CASE toSd' = toSd
    BY <1>9, <2>1
  <2>2. CASE e.kind = "get" /\ toSd' = [toSd EXCEPT ![n] = Append(@, m)] /\ m \in Messages
    <3>1. toSd'[n] = Append(ms, m)
      BY <1>1, <2>2
    <3> HIDE DEF ms
    <3>2. /\ Len(Append(ms, m)) = Len(ms) + 1 /\ Append(ms, m)[Len(ms) + 1] = m
          /\ \A j \in 1 .. Len(ms) : Append(ms, m)[j] = ms[j]
      BY <1>1, <2>2
    <3>3. Len(ms) \in Nat
      BY <1>1
    <3>4. k \in 1 .. Len(ms) \/ k = Len(ms) + 1
      BY <3>1, <3>2, <3>3
    <3> QED BY <2>2, <3>1, <3>2, <3>4
  <2>3. CASE /\ toSd' = [toSd EXCEPT ![n] = @ \o unrefs] /\ unrefs \in Seq(Messages)
             /\ \A j \in 1 .. Len(unrefs) : unrefs[j].kind = "unref"
    <3>1. toSd'[n] = ms \o unrefs
      BY <1>1, <2>3
    <3> HIDE DEF ms
    <3>2. /\ Len(ms \o unrefs) = Len(ms) + Len(unrefs)
          /\ \A j \in 1 .. Len(ms) : (ms \o unrefs)[j] = ms[j]
          /\ \A j \in 1 .. Len(unrefs) : (ms \o unrefs)[Len(ms) + j] = unrefs[j]
      BY <1>1, <2>3, JoinFacts
    <3>3. Len(ms) \in Nat /\ Len(unrefs) \in Nat
      BY <1>1, <2>3
    <3>4. CASE k \in 1 .. Len(ms)
      BY <3>1, <3>2, <3>4
    <3>5. CASE k \notin 1 .. Len(ms)
      <4>1. k - Len(ms) \in 1 .. Len(unrefs) /\ Len(ms) + (k - Len(ms)) = k
        BY <1>9, <3>1, <3>2, <3>3, <3>5
      <4>2. toSd'[n][k] = unrefs[k - Len(ms)]
        BY <3>1, <3>2, <4>1
      <4> QED BY <1>9, <2>3, <4>1, <4>2
    <3> QED BY <3>4, <3>5
  <2> QED BY <1>6, <2>1, <2>2, <2>3
<1>10. CASE NodeOf[c] # n
  BY <1>4, <1>8, <1>10, ConstantTypes
<1>11. CASE NodeOf[c] = n
  <2>1. Asking(c, t, Tail(s), toSd'[n])
    BY <1>4, <1>11
  <2>2. ASSUME NEW k \in 1 .. Len(Tail(s)), Tail(s)[k].kind = "get", Tail(s)[k].from.client = c,
               Tail(s)[k].tag = t
        PROVE  Asking(c, t, s, ms)
    BY <1>5, <2>2 DEF Asking
  <2>3. ASSUME NEW k \in 1 .. Len(toSd'[n]), toSd'[n][k].kind = "get", toSd'[n][k].client = c,
               toSd'[n][k].tag = t
        PROVE  Asking(c, t, s, ms)
    <3>1. CASE \E j \in 1 .. Len(ms) : toSd'[n][k] = ms[j]
      BY <2>3, <3>1 DEF Asking
    <3>2. CASE e.kind = "get" /\ toSd'[n][k] = m
      <4>1. s[1].kind = "get" /\ s[1].from.client = c /\ s[1].tag = t
        BY <1>7, <2>3, <3>2 DEF e
      <4> QED BY <1>2, <4>1 DEF Asking
    <3> QED BY <1>9, <2>3, <3>1, <3>2
  <2>4. Asking(c, t, s, ms)
    BY <2>1, <2>2, <2>3 DEF Asking
  <2> QED BY <1>11, <2>4
<1> QED BY <1>10, <1>11

\* The agent takes requests, and adds none.
LEMMA AskingTaken ==
    ASSUME TypesInv, TypesInv', MsgsInv, RequestsInv, NEW n \in Nodes, SdEvent(n),
           NEW c \in Clients, NEW t, Asking(c, t, inbox'[NodeOf[c]], toSd'[NodeOf[c]])
    PROVE  Asking(c, t, inbox[NodeOf[c]], toSd[NodeOf[c]])
<1> DEFINE s == toSd[NodeOf[c]]
           s2 == toSd'[NodeOf[c]]
<1>1. inbox' = inbox
  BY OrderlyMessages
<1>2. s \in Seq(Messages) /\ s2 \in Seq(Messages) /\ MsgsStep(c, s, s2)
  BY ConstantTypes, OrderlyMessages DEF TypesInv, NdTypes
<1>3. Asking(c, t, inbox[NodeOf[c]], s2)
  BY <1>1
<1> HIDE DEF s, s2
<1>4. \A k \in 1 .. Len(s2) : s2[k].kind = "get" /\ s2[k].client = c =>
          \E i \in 1 .. Len(s) : s2[k] = s[i]
  <2>1. Len(s) \in Nat /\ Len(s2) \in Nat
    BY <1>2
  <2>2. CASE Len(s2) = Len(s) - 1 /\ \A k \in 1 .. Len(s2) : s2[k] = s[k + 1]
    <3>1. \A k \in 1 .. Len(s2) : k + 1 \in 1 .. Len(s) /\ s2[k] = s[k + 1]
      BY <2>1, <2>2
    <3> QED BY <3>1
  <2>3. CASE /\ Len(s2) >= Len(s)
             /\ \A k \in 1 .. Len(s) : s2[k] = s[k]
             /\ \A k \in Len(s) + 1 .. Len(s2) : ~(s2[k].kind = "get" /\ s2[k].client = c)
    <3>1. \A k \in 1 .. Len(s2) : k \in 1 .. Len(s) \/ k \in Len(s) + 1 .. Len(s2)
      BY <2>1
    <3> QED BY <2>3, <3>1
  <2> QED BY <1>2, <2>2, <2>3 DEF MsgsStep
<1>5. Asking(c, t, inbox[NodeOf[c]], s)
  BY <1>3, <1>4 DEF Asking
<1> QED BY <1>5 DEF s

\* The number for a client that has not registered.
LEMMA NumbersRegistered ==
    ASSUME Cardinality(Clients) <= 256, SdTypes, ChannelsOk(channels),
           NEW n \in Nodes, NEW msg \in Messages, msg.kind = "get",
           msg.tag \in Tags(channels) \/ CanAllocate(channels),
           AddedFor(msg)[msg.tag].parts[msg.client] = Unknown,
           NumbersFit(AddedFor(msg)[msg.tag])
    PROVE  NumbersFit(UpdatedFor(n, msg)[msg.tag])
<1> DEFINE ch == AddedFor(msg)[msg.tag]
           new == UpdatedFor(n, msg)[msg.tag]
           part == [node |-> n, qp |-> msg.qp, fqp |-> FqpFor(n, msg)]
           i == msg.client
<1>1. msg.tag \in AllTags /\ i \in Clients
  BY MessageKinds
<1>2. ch \in Channels /\ new \in Channels
  BY <1>1, AddingTypes, RegisteringTypes
<1>3. /\ ch.parts \in [Clients -> Participants] /\ new.parts \in [Clients -> Participants]
      /\ Ids(ch) = Clients /\ IsFiniteSet(Clients)
  BY <1>2, ConstantTypes DEF Channels, Ids
<1>4. new.parts[i] = part /\ \A d \in Clients : d # i => new.parts[d] = ch.parts[d]
  BY <1>1, RegisteringTypes
<1>5. /\ part = [node |-> part.node, qp |-> part.qp, fqp |-> part.fqp]
      /\ part.node = n /\ part.fqp = NextFabricQp(ch, n)
  BY DEF FqpFor
<1>6. \A j \in Clients : ch.parts[j] # Unknown => ch.parts[j].node \in Nodes
  BY <1>3 DEF Participants
<1> HIDE DEF ch, new, part, i
<1>7. new.parts = [ch.parts EXCEPT ![i] = part]
  BY <1>1, <1>3, <1>4
<1>8. /\ n # Unknown.node
      /\ \A j \in Clients : ch.parts[j] # Unknown => ch.parts[j].node # Unknown.node
  BY <1>6, ControlPlaneAssumption
<1>9. ch.parts[i] = Unknown /\ NumbersFit(ch)
  BY DEF ch, i
<1>10. Cardinality(OnNode(ch, n)) < 256
  <2>1. OnNode(ch, n) \in SUBSET (Clients \ {i})
    BY <1>3, <1>8, <1>9 DEF OnNode
  <2>2. IsFiniteSet(Clients \ {i}) /\ Cardinality(Clients \ {i}) = Cardinality(Clients) - 1
        /\ Cardinality(Clients) \in Nat
    BY <1>1, <1>3, FS_RemoveElement, FS_CardinalityType
  <2>3. IsFiniteSet(OnNode(ch, n)) /\ Cardinality(OnNode(ch, n)) <= Cardinality(Clients \ {i})
    BY <2>1, <2>2, FS_Subset
  <2>4. Cardinality(OnNode(ch, n)) \in Nat
    BY <2>3, FS_CardinalityType
  <2> QED BY <2>2, <2>3, <2>4
<1>11. NumbersFit(new)
  BY <1>1, <1>3, <1>5, <1>7, <1>8, <1>9, <1>10, NextNumberFits
<1> QED BY <1>11 DEF new

\* A request for a tag used once is the first one of its client.
LEMMA OnceRegistered ==
    ASSUME Cardinality(Clients) <= 256, TypesInv, TypesInv', MsgsInv, ReposInv, RequestsInv,
           OnceInv, NEW n \in Nodes, SdEvent(n),
           toSd[n][1].kind = "get", SdGetChannel(n, toSd[n][1]),
           NEW msg, msg = toSd[n][1], NEW t, t = msg.tag
    PROVE  OnceOk(t, channels'[t], proc', inbox', toSd')
<1> DEFINE d == msg.client
           ch == AddedFor(msg)[t]
<1>1. /\ msg \in Messages /\ t \in AllTags /\ d \in Clients /\ NodeOf[d] = n
      /\ t \in Tags(channels) \/ CanAllocate(channels)
      /\ Asks(proc[d], t, msg.qp) /\ Unsent(d, inbox[n]) /\ Handled(d, toSd'[n])
  BY RegisterFacts
<1>2. /\ proc' = proc /\ inbox' = inbox /\ toSd[n] # <<>> /\ 1 \in 1 .. Len(toSd[n])
  <2>1. toSd[n] # <<>> /\ toSd[n] \in Seq(Messages) /\ proc' = proc /\ inbox' = inbox
    BY OrderlyMessages
  <2> QED BY <2>1
<1>3. SdTypes /\ channels' = UpdatedFor(n, msg) /\ msg.kind = "get"
  BY SdGetParts DEF TypesInv
<1>4. /\ channels'[t].parts[d] = [node |-> n, qp |-> msg.qp, fqp |-> FqpFor(n, msg)]
      /\ \A c \in Clients : c # d => channels'[t].parts[c] = ch.parts[c]
  BY <1>1, <1>3, RegisteringTypes
<1>5. t \notin Tags(channels) => ch.parts = [i \in Clients |-> Unknown]
  BY <1>1, <1>3, AddingTypes
<1>6. t \in Tags(channels) => ch = channels[t] /\ OnceOk(t, channels[t], proc, inbox, toSd)
  BY DEF AddedFor, OnceInv
<1>7. Asking(d, t, inbox[n], toSd[n])
  BY <1>2 DEF Asking
<1> SUFFICES ASSUME Fresh(t, proc)
             PROVE  /\ NumbersFit(channels'[t])
                    /\ \A c \in Clients : channels'[t].parts[c] # Unknown =>
                          /\ AskedFor(proc[c], t)
                          /\ ~Asking(c, t, inbox'[NodeOf[c]], toSd'[NodeOf[c]])
  BY <1>2 DEF OnceOk
<1>8. /\ NumbersFit(ch)
      /\ \A c \in Clients : ch.parts[c] # Unknown =>
            AskedFor(proc[c], t) /\ ~Asking(c, t, inbox[NodeOf[c]], toSd[NodeOf[c]])
  <2>1. CASE t \in Tags(channels)
    BY <1>6, <2>1 DEF OnceOk
  <2>2. CASE t \notin Tags(channels)
    <3>1. DOMAIN ch.parts = Clients /\ \A c \in Clients : ch.parts[c] = Unknown
      BY <1>5, <2>2
    <3> HIDE DEF ch
    <3> QED BY <3>1 DEF NumbersFit, Ids
  <2> QED BY <2>1, <2>2
<1>9. ch.parts[d] = Unknown
  BY <1>1, <1>7, <1>8
<1>10. NumbersFit(channels'[t])
  <2>1. ChannelsOk(channels)
    BY DEF ReposInv
  <2> QED BY <1>1, <1>3, <1>8, <1>9, <2>1, NumbersRegistered
<1>11. AskedFor(proc[d], t)
  <2>1. proc[d] \in Processes
    BY <1>1 DEF TypesInv, ClientTypes
  <2>2. Asked(proc[d]) = proc[d].got + 1 /\ proc[d].got \in Nat
    BY <1>1, <2>1, AskedType DEF Asks
  <2>3. t = Program[proc[d].got + 1]
    BY <1>1 DEF Asks
  <2> DEFINE k == proc[d].got + 1
  <2>4. k \in 1 .. Asked(proc[d]) /\ Program[k] = t
    BY <2>2, <2>3
  <2> HIDE DEF k
  <2> QED BY <2>4 DEF AskedFor
<1>12. ~Asking(d, t, inbox'[NodeOf[d]], toSd'[NodeOf[d]])
  BY <1>1, <1>2 DEF Asking, Unsent, Handled
<1>13. ASSUME NEW c \in Clients, c # d, channels'[t].parts[c] # Unknown
       PROVE  AskedFor(proc[c], t) /\ ~Asking(c, t, inbox'[NodeOf[c]], toSd'[NodeOf[c]])
  BY <1>4, <1>8, <1>13, AskingTaken
<1> QED BY <1>10, <1>11, <1>12, <1>13

LEMMA OnceSdEvent ==
    ASSUME Cardinality(Clients) <= 256, TypesInv, TypesInv', MsgsInv, ReposInv, RequestsInv,
           OnceInv, NEW n \in Nodes, SdEvent(n)
    PROVE  OnceInv'
<1> DEFINE msg == toSd[n][1]
<1> SUFFICES ASSUME NEW t \in Tags(channels')
             PROVE  OnceOk(t, channels'[t], proc', inbox', toSd')
  BY DEF OnceInv
<1>1. proc' = proc
  BY OrderlyMessages
<1>2. ASSUME t \in Tags(channels), channels'[t] = channels[t]
      PROVE  OnceOk(t, channels'[t], proc', inbox', toSd')
  <2>1. OnceOk(t, channels[t], proc, inbox, toSd)
    BY <1>2 DEF OnceInv
  <2>2. \A c \in Clients : Asking(c, t, inbox'[NodeOf[c]], toSd'[NodeOf[c]]) =>
            Asking(c, t, inbox[NodeOf[c]], toSd[NodeOf[c]])
    BY AskingTaken
  <2> QED BY <1>1, <1>2, <2>1, <2>2, OnceStep
<1>3. CASE \A u \in Tags(channels') : u \in Tags(channels) /\ channels'[u] = channels[u]
  BY <1>2, <1>3
<1>4. CASE msg.kind = "get" /\ SdGetChannel(n, msg)
  <2>1. CASE t = msg.tag
    BY <1>4, <2>1, OnceRegistered
  <2>2. CASE t # msg.tag
    <3>1. /\ msg \in Messages /\ SdTypes
          /\ msg.tag \in Tags(channels) \/ CanAllocate(channels)
      BY <1>4, RegisterFacts DEF TypesInv
    <3>2. channels' = UpdatedFor(n, msg)
      BY <1>4, SdGetParts
    <3>3. msg.kind = "get"
      BY <1>4
    <3> HIDE DEF msg
    <3>4. UpdatedFor(n, msg) \in [Tags(channels) \cup {msg.tag} -> Channels]
      BY <3>1, <3>3, RegisteringTypes
    <3>5. t \in Tags(channels)
      BY <2>2, <3>2, <3>4 DEF Tags
    <3>6. channels'[t] = channels[t]
      BY <2>2, <3>1, <3>2, <3>3, <3>5, RegisteringTypes
    <3> QED BY <1>2, <3>5, <3>6
  <2> QED BY <2>1, <2>2
<1> QED BY <1>3, <1>4, RepositoryStep

LEMMA OnceNext ==
    ASSUME Aborts = {}, Cardinality(Clients) <= 256, TypesInv, TypesInv', ConnsInv, MsgsInv,
           ReposInv, RequestsInv, StepInv, OnceInv, [ControlNext]_controlVars
    PROVE  OnceInv'
<1>1. ASSUME NEW c \in Clients, Start(c)
      PROVE  OnceInv'
  BY <1>1, OnceStart
<1>2. ASSUME NEW c \in Clients, GetChannel(c)
      PROVE  OnceInv'
  BY <1>2, OnceGetChannel
<1>3. ASSUME NEW c \in Clients, ReadReply(c)
      PROVE  OnceInv'
  BY <1>3, OnceReadReply
<1>4. ASSUME NEW c \in Clients, Exit(c)
      PROVE  OnceInv'
  BY <1>4, OnceExit
<1>5. ASSUME NEW c \in Clients, Kill(c)
      PROVE  FALSE
  BY <1>5 DEF Kill
<1>6. ASSUME NEW n \in Nodes, NdClientEvent(n)
      PROVE  OnceInv'
  <2>1. proc' = proc /\ channels' = channels
    BY <1>6 DEF NdClientEvent, clientVars, sdVars
  <2> QED BY <1>6, <2>1, AskingPassed, OncePassed
<1>7. ASSUME NEW n \in Nodes, NdSwitchEvent(n)
      PROVE  OnceInv'
  <2>1. proc' = proc /\ channels' = channels
    BY <1>7 DEF NdSwitchEvent, sdVars
  <2>2. inbox' = inbox /\ toSd' = toSd
    BY <1>7, ResponseDelivered
  <2> QED BY <2>1, <2>2, OncePassed
<1>8. ASSUME NEW n \in Nodes, SdEvent(n)
      PROVE  OnceInv'
  BY <1>8, OnceSdEvent
<1>9. ASSUME NEW n \in Nodes, Discover(n)
      PROVE  OnceInv'
  <2>1. proc' = proc /\ inbox' = inbox /\ toSd' = toSd /\ channels' = channels
    BY <1>9 DEF Discover, clientVars, sdVars
  <2> QED BY <2>1, OncePassed
<1>10. ASSUME UNCHANGED controlVars
       PROVE  OnceInv'
  <2>1. proc' = proc /\ inbox' = inbox /\ toSd' = toSd /\ channels' = channels
    BY <1>10 DEF controlVars, clientVars, ndVars, sdVars
  <2> QED BY <2>1, OncePassed
<1> QED BY <1>1, <1>2, <1>3, <1>4, <1>5, <1>6, <1>7, <1>8, <1>9, <1>10 DEF ControlNext, AllEnded

LEMMA OnceHold ==
    ASSUME Aborts = {}, Cardinality(Clients) <= 256
    PROVE  ControlSpec => []OnceInv
<1>1. ASSUME ControlInit
      PROVE  OnceInv
  BY <1>1 DEF ControlInit, OnceInv, Tags, NoChannels
<1> QED BY <1>1, OnceNext, TypesHold, ReposHold, RequestsHold, StepHold, PTL DEF ControlSpec

-----------------------------------------------------------------------------
(* The tables work for every known channel whose numbers fit.               *)

\* Participants have different positions, from 1 to their number; the same ones in
\* every channel.
LEMMA PositionFacts ==
    ASSUME NEW ch, Ids(ch) = Clients
    PROVE  /\ \A i \in Clients : Position(ch, i) \in 1 .. Cardinality(Clients)
           /\ \A i, j \in Clients : Position(ch, i) = Position(ch, j) => i = j
           /\ \A p \in 1 .. Cardinality(Clients) : \E i \in Clients : Position(ch, i) = p
           /\ \A i : Position(ch, i) = Cardinality({j \in Clients : j <= i})
<1> DEFINE asc(k) == Ascending(Clients)[k]
           N == Cardinality(Clients)
<1>1. Clients \in SUBSET Nat /\ IsFiniteSet(Clients)
  BY ControlPlaneAssumption
<1>2. \A i : Position(ch, i) = Cardinality({j \in Clients : j <= i})
  BY DEF Position
<1>3. /\ \A k \in 1 .. N : asc(k) \in Clients
      /\ \A k \in 1 .. N : Cardinality({j \in Clients : j <= asc(k)}) = k
      /\ \A i \in Clients : \E k \in 1 .. N : asc(k) = i
  <2> HIDE DEF asc
  <2>1. \A k \in 1 .. N : asc(k) \in Clients
    BY <1>1, AscendingFacts DEF asc
  <2>2. \A k \in 1 .. N : Cardinality({j \in Clients : j <= asc(k)}) = k
    BY <1>1, AscendingFacts DEF asc
  <2>3. \A i \in Clients : \E k \in 1 .. N : asc(k) = i
    BY <1>1, AscendingFacts DEF asc
  <2> QED BY <2>1, <2>2, <2>3
<1> HIDE DEF asc, N
<1>4. \A i \in Clients : \E k \in 1 .. N : asc(k) = i /\ Position(ch, i) = k
  BY <1>2, <1>3
<1>5. \A i \in Clients : Position(ch, i) \in 1 .. N
  BY <1>4
<1>6. \A i, j \in Clients : Position(ch, i) = Position(ch, j) => i = j
  BY <1>4
<1>7. \A p \in 1 .. N : \E i \in Clients : Position(ch, i) = p
  BY <1>2, <1>3
<1> QED BY <1>2, <1>5, <1>6, <1>7 DEF N

\* The row of the multicast tables for a participant.
LEMMA RowOfChannel ==
    ASSUME NEW chs, ChannelsOk(chs), NEW s \in Known(chs), NEW i \in Clients,
           NEW x, x = McNodeId(chs[s], Position(chs[s], i))
    PROVE  /\ x \in DOMAIN McNodeEntries(chs[s]) /\ x \in McNodes(chs[s])
           /\ McNodeEntries(chs[s])[x] =
                 [port |-> PortOf[NodeOf[i]], rid |-> Position(chs[s], i)]
<1> DEFINE ch == chs[s]
           at == CHOOSE j \in Ids(ch) : McNodeId(ch, Position(ch, j)) = x
<1>1. Ids(ch) = Clients /\ \A j \in Clients : ch.parts[j].node = NodeOf[j]
  BY KnownFacts
<1>2. x \in McNodes(ch)
  BY <1>1, PositionFacts DEF McNodes
<1>3. McNodeEntries(ch) =
        [y \in McNodes(ch) |->
            [port |-> PortOf[ch.parts[CHOOSE j \in Ids(ch) :
                                          McNodeId(ch, Position(ch, j)) = y].node],
             rid |-> Position(ch, CHOOSE j \in Ids(ch) :
                                      McNodeId(ch, Position(ch, j)) = y)]]
  BY DEF McNodeEntries
<1>4. /\ x \in DOMAIN McNodeEntries(ch)
      /\ McNodeEntries(ch)[x] = [port |-> PortOf[ch.parts[at].node], rid |-> Position(ch, at)]
  BY <1>2, <1>3
<1>5. at \in Clients /\ McNodeId(ch, Position(ch, at)) = x
  BY <1>1
<1>6. at = i
  <2> HIDE DEF at, ch
  <2>1. Position(ch, at) - 1 = Position(ch, i) - 1
    BY <1>5 DEF McNodeId, ch
  <2>2. /\ Position(ch, at) \in 1 .. Cardinality(Clients)
        /\ Position(ch, i) \in 1 .. Cardinality(Clients)
    BY <1>1, <1>5, PositionFacts
  <2>3. Cardinality(Clients) \in Nat
    BY ConstantTypes, FS_CardinalityType
  <2>4. Position(ch, at) = Position(ch, i)
    BY <2>1, <2>2, <2>3
  <2> QED BY <1>1, <1>5, <2>4, PositionFacts
<1> HIDE DEF at
<1> QED BY <1>1, <1>2, <1>4, <1>6

\* Channels may share rows: all of them write the same there.
LEMMA RowInTables ==
    ASSUME NEW T, NEW chs, ChannelsOk(chs), Fits(T, chs), NEW t \in Known(chs),
           NEW i \in Clients, NEW x, x = McNodeId(chs[t], Position(chs[t], i))
    PROVE  T.mcNode[x] = [port |-> PortOf[NodeOf[i]], rid |-> Position(chs[t], i)]
<1> DEFINE rows == NodeRows(chs)
           f == KeptNodes(NoTables, chs)
<1>1. T.mcNode = Written(f, rows) /\ DOMAIN f = {}
  BY DEF Fits, KeptNodes, NoTables, Restrict
<1>2. DOMAIN rows = Known(chs) /\ \A s \in Known(chs) : rows[s] = McNodeEntries(chs[s])
  BY DEF NodeRows
<1>3. Known(chs) \subseteq Nat /\ IsFiniteSet(Known(chs))
  BY EntriesOwn
<1>4. x \in DOMAIN rows[t]
  BY <1>2, RowOfChannel
<1> HIDE DEF rows, f
<1>5. x \in DOMAIN Written(f, rows)
  BY <1>2, <1>4, WrittenIs DEF Keys
<1>6. PICK s \in Known(chs) : x \in DOMAIN rows[s] /\ Written(f, rows)[x] = rows[s][x]
  BY <1>1, <1>2, <1>3, <1>5, WrittenOrigin
<1>7. x \in McNodes(chs[s])
  BY <1>2, <1>6 DEF McNodeEntries
<1>8. Ids(chs[s]) = Clients /\ Ids(chs[t]) = Clients
  BY KnownFacts
<1>9. PICK p \in 1 .. Cardinality(Clients) : x = McNodeId(chs[s], p)
  BY <1>7, <1>8 DEF McNodes
<1>10. Position(chs[t], i) = p
  <2>1. Position(chs[t], i) - 1 = p - 1
    BY <1>9 DEF McNodeId
  <2>2. Position(chs[t], i) \in 1 .. Cardinality(Clients) /\ Cardinality(Clients) \in Nat
    BY <1>8, PositionFacts, ConstantTypes, FS_CardinalityType
  <2> QED BY <2>1, <2>2
<1>11. Position(chs[s], i) = p
  BY <1>8, <1>10, PositionFacts
<1>12. rows[s][x] = [port |-> PortOf[NodeOf[i]], rid |-> p]
  BY <1>2, <1>9, <1>11, RowOfChannel
<1> QED BY <1>1, <1>6, <1>10, <1>12

\* The entry of output_address for a participant.
LEMMA OutputOfChannel ==
    ASSUME NEW T, NEW chs, NEW t, NEW i, NEW k, ChannelsOk(chs), t \in Known(chs),
           Serves(T, chs[t]), i \in Clients,
           k = <<PipeOfNode(NodeOf[i]), chs[t].unit, Position(chs[t], i)>>
    PROVE  /\ k \in DOMAIN T.output
           /\ T.output[k] = [node |-> chs[t].parts[i].node, qp |-> chs[t].parts[i].qp]
<1> DEFINE ch == chs[t]
           key(j) == <<PipeOfNode(ch.parts[j].node), ch.unit, Position(ch, j)>>
           at == CHOOSE j \in Ids(ch) : key(j) = k
<1>1. Ids(ch) = Clients /\ \A j \in Clients : ch.parts[j].node = NodeOf[j]
  BY KnownFacts
<1>2. key(i) = k
  BY <1>1
<1>3. OutputEntries(ch) =
        [y \in {key(j) : j \in Ids(ch)} |->
            [node |-> ch.parts[CHOOSE j \in Ids(ch) : key(j) = y].node,
             qp |-> ch.parts[CHOOSE j \in Ids(ch) : key(j) = y].qp]]
  BY DEF OutputEntries
<1>4. /\ k \in DOMAIN OutputEntries(ch)
      /\ OutputEntries(ch)[k] = [node |-> ch.parts[at].node, qp |-> ch.parts[at].qp]
  <2>1. k \in {key(j) : j \in Ids(ch)}
    BY <1>1, <1>2
  <2> HIDE DEF key, ch
  <2> QED BY <1>3, <2>1
<1>5. at \in Clients /\ key(at) = k
  BY <1>1, <1>2
<1>6. at = i
  <2>1. Position(ch, at) = Position(ch, i)
    BY <1>2, <1>5
  <2> HIDE DEF at, key, ch
  <2> QED BY <1>1, <1>5, <2>1, PositionFacts
<1> HIDE DEF at
<1> QED BY <1>4, <1>6 DEF Serves

\* A channel's result is sent to every participant once, with the queue pair of each.
LEMMA TablesDistribute ==
    ASSUME NEW T, NEW chs, ChannelsOk(chs), TablesOk(T, chs), NEW t \in Known(chs)
    PROVE  Distributes(T, chs[t])
<1> DEFINE ch == chs[t]
           unit == ch.unit
           N == Cardinality(Clients)
           row(i) == McNodeId(ch, Position(ch, i))
           made(x) == <<T.mcNode[x].port \div 128, unit, T.mcNode[x].rid>> \in DOMAIN T.output
           copy(x) == <<T.mcNode[x].port,
                        T.output[<<T.mcNode[x].port \div 128, unit, T.mcNode[x].rid>>]>>
           out(i) == <<PortOf[NodeOf[i]], [node |-> ch.parts[i].node, qp |-> ch.parts[i].qp]>>
<1>1. Fits(T, chs) /\ Serves(T, ch)
  BY DEF TablesOk
<1>2. Ids(ch) = Clients /\ \A j \in Clients : ch.parts[j].node = NodeOf[j]
  BY KnownFacts
<1>3. T.mcGroup[unit] = McNodes(ch)
  <2> DEFINE groups == Groups(chs)
             f == KeptGroups(NoTables, chs)
  <2>1. T.mcGroup = Written(f, groups)
    BY <1>1 DEF Fits
  <2>2. DOMAIN groups = Known(chs) /\ \A s \in Known(chs) : groups[s] = McGroupEntries(chs[s])
    BY DEF Groups
  <2>3. \A s \in Known(chs) : /\ DOMAIN groups[s] = {chs[s].unit}
                              /\ groups[s][chs[s].unit] = McNodes(chs[s])
    BY <2>2 DEF McGroupEntries
  <2>4. Known(chs) \subseteq Nat /\ IsFiniteSet(Known(chs))
        /\ \A s \in Known(chs) : chs[s].unit = chs[t].unit => s = t
    BY EntriesOwn
  <2> HIDE DEF groups, f
  <2>5. unit \in DOMAIN groups[t] /\ \A s \in DOMAIN groups : unit \in DOMAIN groups[s] => s = t
    BY <2>2, <2>3, <2>4
  <2>6. Written(f, groups)[unit] = groups[t][unit]
    BY <2>2, <2>4, <2>5, WrittenHas
  <2> QED BY <2>1, <2>3, <2>6
<1>4. \A i \in Clients : T.mcNode[row(i)] = [port |-> PortOf[NodeOf[i]], rid |-> Position(ch, i)]
  BY <1>1, RowInTables
<1>5. \A i \in Clients :
          /\ <<PipeOfNode(NodeOf[i]), unit, Position(ch, i)>> \in DOMAIN T.output
          /\ T.output[<<PipeOfNode(NodeOf[i]), unit, Position(ch, i)>>]
                = [node |-> ch.parts[i].node, qp |-> ch.parts[i].qp]
  <2> HIDE DEF row, made, copy, out, N
  <2> TAKE i \in Clients
  <2> DEFINE k == <<PipeOfNode(NodeOf[i]), unit, Position(ch, i)>>
  <2>1. k = <<PipeOfNode(NodeOf[i]), chs[t].unit, Position(chs[t], i)>>
    OBVIOUS
  <2> HIDE DEF k
  <2>2. Serves(T, chs[t])
    BY <1>1
  <2>3. /\ k \in DOMAIN T.output
        /\ T.output[k] = [node |-> chs[t].parts[i].node, qp |-> chs[t].parts[i].qp]
    <3> HIDE DEF ch
    <3> QED BY <2>1, <2>2, OutputOfChannel
  <2> QED BY <2>3 DEF k
<1>6. \A i \in Clients : PortOf[NodeOf[i]] \div 128 = PipeOfNode(NodeOf[i])
  BY DEF PipeOfNode
<1>7. \A i \in Clients : made(row(i)) /\ copy(row(i)) = out(i)
  <2> HIDE DEF row, out
  <2> SUFFICES ASSUME NEW i \in Clients
               PROVE  made(row(i)) /\ copy(row(i)) = out(i)
    OBVIOUS
  <2>1. T.mcNode[row(i)].port = PortOf[NodeOf[i]] /\ T.mcNode[row(i)].rid = Position(ch, i)
    <3> HIDE DEF ch, made, copy
    <3>1. T.mcNode[row(i)] = [port |-> PortOf[NodeOf[i]], rid |-> Position(ch, i)]
      BY <1>4 DEF row
    <3> QED BY <3>1
  <2> QED BY <1>5, <1>6, <2>1 DEF out
<1>8. McNodes(ch) = {row(i) : i \in Clients}
  <2>1. McNodes(ch) = {McNodeId(ch, p) : p \in 1 .. N}
    BY <1>2 DEF McNodes
  <2>2. \A i \in Clients : Position(ch, i) \in 1 .. N
    BY <1>2, PositionFacts
  <2>3. \A p \in 1 .. N : \E i \in Clients : Position(ch, i) = p
    BY <1>2, PositionFacts
  <2> HIDE DEF N, ch
  <2> QED BY <2>1, <2>2, <2>3
<1>9. Copies(T, unit) = {copy(x) : x \in {y \in T.mcGroup[unit] : made(y)}}
  BY DEF Copies
<1> HIDE DEF row, made, copy, out
<1>10. Copies(T, unit) = {out(i) : i \in Clients}
  BY <1>3, <1>7, <1>8, <1>9
<1>11. {out(i) : i \in Clients} =
          {<<PortOf[ch.parts[i].node], [node |-> ch.parts[i].node, qp |-> ch.parts[i].qp]>>
              : i \in Ids(ch)}
  BY <1>2 DEF out
<1> QED BY <1>10, <1>11 DEF Distributes

\* Packets of a channel select its unit and their own bits, and the bits of each pipe
\* complete it.
LEMMA TablesAggregate ==
    ASSUME NEW T, NEW chs, ChannelsOk(chs), TablesOk(T, chs), NEW t \in Known(chs),
           NumbersFit(chs[t])
    PROVE  Aggregates(T, chs[t])
<1> DEFINE ch == chs[t]
<1>1. Fits(T, chs) /\ Serves(T, ch)
  BY DEF TablesOk
<1>2. WellFormed(ch) /\ Ids(ch) = Clients /\ Ids(ch) \subseteq Nat
      /\ \A i \in Clients : ch.parts[i] # Unknown
  <2>1. WellFormed(ch) /\ Ids(ch) = Clients /\ AllKnown(ch)
    BY KnownFacts DEF Known
  <2> HIDE DEF ch
  <2>2. \A i \in Clients : ch.parts[i] # Unknown
    BY <2>1 DEF AllKnown, Ids
  <2> QED BY <2>1, <2>2, ControlPlaneAssumption
<1>3. ASSUME NEW i \in Ids(ch), NEW j \in Ids(ch),
             SelectorKey(ch.parts[j]) = SelectorKey(ch.parts[i])
      PROVE  j = i
  <2>1. ch.parts[i] # Unknown /\ ch.parts[j] # Unknown
    BY <1>2
  <2>2. ch.parts[j].node = ch.parts[i].node /\ ch.parts[j].fqp = ch.parts[i].fqp
    BY <1>3 DEF SelectorKey
  <2> QED BY <1>2, <2>1, <2>2 DEF NumbersFit
<1>4. ASSUME NEW i \in Ids(ch)
      PROVE  T.selector[SelectorKey(ch.parts[i])] = [unit |-> ch.unit, bit |-> Bit(ch, i)]
  <2>1. /\ SelectorKey(ch.parts[i]) \in DOMAIN SelectorEntries(ch)
        /\ SelectorEntries(ch)[SelectorKey(ch.parts[i])] = [unit |-> ch.unit, bit |-> Bit(ch, i)]
    <3> HIDE DEF ch
    <3> QED BY <1>2, <1>3, SelectorBits
  <2> QED BY <1>1, <2>1 DEF Serves
<1>5. ASSUME NEW e \in T.complete, e[1] = ch.unit
      PROVE  e \in CompleteEntries(ch)
  <2>1. PICK s \in Known(chs) : e \in CompleteEntries(chs[s])
    BY <1>1 DEF Fits
  <2>2. e[1] = chs[s].unit
    BY <2>1, EntriesOwn
  <2>3. s = t
    BY <1>5, <2>2, EntriesOwn
  <2> QED BY <2>1, <2>3
<1>6. CompleteEntries(ch) \subseteq T.complete
  BY <1>1 DEF Serves
<1>7. ASSUME NEW pipe \in {0, 3}
      PROVE  {e \in T.complete : e[1] = ch.unit /\ e[2] = pipe} =
                IF OnPipe(ch, pipe) = {} THEN {} ELSE {<<ch.unit, pipe, FullBits(ch, pipe)>>}
  <2>1. {e \in T.complete : e[1] = ch.unit /\ e[2] = pipe}
          = {e \in CompleteEntries(ch) : e[1] = ch.unit /\ e[2] = pipe}
    BY <1>5, <1>6
  <2>2. CompleteEntries(ch) =
          {<<ch.unit, p, FullBits(ch, p)>> : p \in {x \in {0, 3} : OnPipe(ch, x) # {}}}
    BY DEF CompleteEntries
  <2> HIDE DEF ch
  <2> QED BY <2>1, <2>2
<1> QED BY <1>4, <1>7 DEF Aggregates

LEMMA TablesWork ==
    ASSUME NEW T, NEW chs, ChannelsOk(chs), TablesOk(T, chs), NEW t \in Known(chs),
           NumbersFit(chs[t])
    PROVE  Working(T, chs[t])
<1>1. AllKnown(chs[t])
  BY DEF Known
<1> QED BY <1>1, TablesAggregate, TablesDistribute DEF Working

-----------------------------------------------------------------------------
(* Clients may send as soon as they have their reply.                       *)

\* While a client has no later channel, nobody has asked for its tag twice.
LEMMA FirstUseFresh ==
    ASSUME TypesInv, StepInv, \A k \in 1 .. Len(Program) - 1 : Program[k] # Program[k + 1],
           NEW c \in Clients, proc[c].state = "ready", proc[c].got > 0, FirstUse(c)
    PROVE  Fresh(Program[proc[c].got], proc)
<1> DEFINE t == Program[proc[c].got]
           got == proc[c].got
<1>1. ClientTypes /\ proc \in [Clients -> Processes]
  BY DEF TypesInv, ClientTypes
<1>2. Tag(c) = t
  BY <1>1 DEF Tag, Processes
<1>3. proc[c].run = 1 /\ \A k \in 1 .. got - 1 : Program[k] # t
  BY <1>2 DEF FirstUse
<1> SUFFICES ASSUME NEW d \in Clients
             PROVE  AskedOnce(proc[d], t)
  BY DEF Fresh
<1>4. InStep(proc[c], proc[d]) /\ InStep(proc[d], proc[c])
  BY DEF StepInv
<1>5. /\ proc[d].run \in Nat /\ proc[d].got \in Nat /\ got \in Nat
      /\ Len(Program) \in Nat
  BY <1>1, ConstantTypes DEF Processes
<1>6. proc[d].run = 1
  BY <1>3, <1>4, <1>5 DEF InStep
<1>7. proc[d].got <= got /\ (proc[d].state = "waiting" => proc[d].got <= got)
  BY <1>3, <1>4, <1>5, <1>6 DEF InStep, Asked
<1>8. Asked(proc[d]) \in Nat /\ Asked(proc[d]) <= got + 1 /\ Asked(proc[d]) <= Len(Program)
  BY <1>1, <1>5, <1>7 DEF ClientTypes, Processes, Asked
<1>9. \A k \in 1 .. Asked(proc[d]) : Program[k] = t => k = got
  <2> SUFFICES ASSUME NEW k \in 1 .. Asked(proc[d]), Program[k] = t, k # got
               PROVE  FALSE
    OBVIOUS
  <2>1. k \notin 1 .. got - 1
    BY <1>3
  <2>2. k = got + 1
    BY <1>5, <1>8, <2>1
  <2>3. got \in 1 .. Len(Program) - 1
    BY <1>5, <1>8, <2>2
  <2> HIDE DEF got
  <2> QED BY <2>2, <2>3 DEF got
<1> HIDE DEF t
<1> QED BY <1>6, <1>9 DEF AskedOnce

\* Whoever has a reply to the first use of a tag may send at once (HeldChannelsWork): the
\* channel has all its participants (KnownInv), their numbers are different (OnceInv),
\* so that the tables, which fit the repository (ReposInv), aggregate and distribute
\* for exactly them; and it holds what the client has been told (RequestsInv).
THEOREM ClientsMaySendAtOnce ==
    ASSUME Aborts = {}, Cardinality(Clients) <= 256,
           \A k \in 1 .. Len(Program) - 1 : Program[k] # Program[k + 1]
    PROVE  ControlSpec => []HeldChannelsWork
<1>1. TypesInv /\ ReposInv /\ RequestsInv /\ StepInv /\ KnownInv /\ OnceInv => HeldChannelsWork
  <2> SUFFICES ASSUME TypesInv, ReposInv, RequestsInv, StepInv, KnownInv, OnceInv,
                      NEW c \in Clients, proc[c].state = "ready", proc[c].got > 0, FirstUse(c)
               PROVE  /\ Tag(c) \in Tags(channels)
                      /\ Working(tables, channels[Tag(c)])
                      /\ channels[Tag(c)].parts[c] =
                            [node |-> NodeOf[c], fqp |-> proc[c].fqp,
                             qp |-> QpNum(proc[c].run, proc[c].got)]
    BY DEF HeldChannelsWork
  <2> DEFINE t == Program[proc[c].got]
  <2>1. Tag(c) = t /\ proc[c].got # 0
    BY DEF Tag, TypesInv, ClientTypes, Processes
  <2>2. Registered(c, proc[c].run, proc[c].got, proc[c].fqp, nd[NodeOf[c]].conns,
                   owns[NodeOf[c]], channels)
    BY <2>1 DEF RequestsInv, RequestOk, Obtained
  <2>3. /\ t \in Tags(channels)
        /\ channels[t].parts[c] = [node |-> NodeOf[c], fqp |-> proc[c].fqp,
                                   qp |-> QpNum(proc[c].run, proc[c].got)]
    BY <2>2 DEF Registered
  <2>4. t \in Known(channels)
    BY <2>1, <2>3 DEF KnownInv, Known
  <2>5. NumbersFit(channels[t])
    BY <2>3, FirstUseFresh DEF OnceInv, OnceOk
  <2> HIDE DEF t
  <2>6. Working(tables, channels[t])
    BY <2>4, <2>5, TablesWork DEF ReposInv
  <2> QED BY <2>1, <2>3, <2>6
<1> QED
  BY <1>1, TypesHold, ReposHold, RequestsHold, StepHold, KnownHold, OnceHold, PTL
=============================================================================
