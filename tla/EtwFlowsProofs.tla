--------------------------- MODULE EtwFlowsProofs ---------------------------
(***************************************************************************)
(* Theorems about EtwFlows for every set of processes and addresses, every *)
(* max_keys and every number of transfers.                                 *)
(***************************************************************************)
EXTENDS EtwFlows, FiniteSetTheorems, TLAPS

\* Every name that is known has a row, and every row the name that is known.
Aligned ==
    /\ \A k \in DOMAIN flows : k.pid \in DOMAIN names /\ names[k.pid] = k.name
    /\ \A p \in DOMAIN names : \E k \in DOMAIN flows : k.pid = p

\* Names and rows agree until the table is full; from then on, no row comes.
\* Only then can there be so many names that they are forgotten.
NameInv ==
    /\ limit \in Nat
    /\ IsFiniteSet(DOMAIN flows)
    /\ Cardinality(DOMAIN flows) <= limit
    /\ Aligned \/ (Cardinality(DOMAIN flows) = limit /\ OneNameEach)

\* While names and rows agree, there are no more names than rows.
LEMMA NamesFit ==
    ASSUME Aligned, IsFiniteSet(DOMAIN flows)
    PROVE  /\ IsFiniteSet(DOMAIN names)
           /\ Cardinality(DOMAIN names) <= Cardinality(DOMAIN flows)
  <1> DEFINE row == [p \in DOMAIN names |-> CHOOSE k \in DOMAIN flows : k.pid = p]
  <1>1. \A p \in DOMAIN names : row[p] \in DOMAIN flows /\ row[p].pid = p
    BY DEF Aligned
  <1>2. row \in Injection(DOMAIN names, DOMAIN flows)
    <2>1. row \in [DOMAIN names -> DOMAIN flows]
      BY <1>1
    <2>2. \A p, q \in DOMAIN names : row[p] = row[q] => p = q
      BY <1>1
    <2>3. QED
      BY <2>1, <2>2 DEF Injection, IsInjective
  <1>3. QED
    BY <1>2, FS_Injection

\* Rows that agree with the names have one name per pid.
LEMMA AlignedNames == ASSUME Aligned PROVE OneNameEach
  BY DEF Aligned, OneNameEach

LEMMA FeedKeepsNames ==
    ASSUME NameInv, Feed
    PROVE  NameInv'
  <1> DEFINE e == Head(queue)
  <1>1. PICK m \in {map, proc} :
          /\ names' = Known(e.pid, m)
          /\ flows' = Table([name |-> Known(e.pid, m)[e.pid], pid |-> e.pid,
                             ip |-> Remote(e)], Delta(e))
    BY DEF Feed
  <1> DEFINE p == e.pid
             k == [name |-> Known(p, m)[p], pid |-> p, ip |-> Remote(e)]
             card == Cardinality(DOMAIN flows)
  <1>2. limit' = limit /\ limit \in Nat
    BY DEF Feed, world, NameInv
  <1>3. card \in Nat /\ card <= limit
    BY FS_CardinalityType DEF NameInv
  <1>4. CASE Full(k)
    <2>1. flows' = flows /\ card = limit
      BY <1>1, <1>2, <1>3, <1>4 DEF Table, Full
    <2>2. OneNameEach
      BY AlignedNames DEF NameInv
    <2>3. OneNameEach'
      BY <2>1, <2>2 DEF OneNameEach
    <2>4. QED
      BY <2>1, <2>3, <1>2, <1>3 DEF NameInv
  <1>5. CASE ~Full(k) /\ k \in DOMAIN flows
    <2>1. DOMAIN flows' = DOMAIN flows
      BY <1>1, <1>5 DEF Table, With
    <2>2. CASE Aligned
      <3>1. names' = names
        BY <1>1, <1>5, <2>2 DEF Known, Aligned
      <3>2. Aligned'
        BY <3>1, <2>1, <2>2 DEF Aligned
      <3>3. QED
        BY <3>2, <2>1, <1>2 DEF NameInv
    <2>3. CASE card = limit /\ OneNameEach
      BY <2>1, <2>3, <1>2 DEF NameInv, OneNameEach
    <2>4. QED
      BY <2>2, <2>3 DEF NameInv
  <1>6. CASE ~Full(k) /\ k \notin DOMAIN flows
    <2>1. card < limit
      BY <1>2, <1>3, <1>6 DEF Full
    <2>2. Aligned
      BY <2>1, <1>2, <1>3 DEF NameInv
    <2>3. Cardinality(DOMAIN names) \in Nat /\ ~(Cardinality(DOMAIN names) > limit)
      BY <2>1, <2>2, <1>2, <1>3, NamesFit, FS_CardinalityType DEF NameInv
    <2>4. /\ DOMAIN names' = DOMAIN names \cup {p}
          /\ names'[p] = k.name
          /\ \A q \in DOMAIN names : names'[q] = names[q]
      <3>1. names' = IF p \in DOMAIN names THEN names ELSE With(names, p, m[p])
        BY <1>1, <2>3 DEF Known
      <3>2. k.name = names'[p]
        BY <1>1
      <3>3. CASE p \in DOMAIN names
        BY <3>1, <3>2, <3>3
      <3>4. CASE p \notin DOMAIN names
        BY <3>1, <3>2, <3>4 DEF With
      <3>5. QED
        BY <3>3, <3>4
    <2>5. DOMAIN flows' = DOMAIN flows \cup {k}
      BY <1>1, <1>6 DEF Table, With
    <2>6. Aligned'
      <3>1. k.pid = p
        OBVIOUS
      <3> HIDE DEF k, p
      <3>2. ASSUME NEW x \in DOMAIN flows'
            PROVE  x.pid \in DOMAIN names' /\ names'[x.pid] = x.name
        <4>1. CASE x = k
          BY <4>1, <3>1, <2>4
        <4>2. CASE x # k
          BY <4>2, <2>5, <2>2, <2>4 DEF Aligned
        <4>3. QED
          BY <4>1, <4>2
      <3>3. ASSUME NEW q \in DOMAIN names'
            PROVE  \E x \in DOMAIN flows' : x.pid = q
        BY <3>1, <2>2, <2>4, <2>5 DEF Aligned
      <3>4. QED
        BY <3>2, <3>3 DEF Aligned
    <2>7. IsFiniteSet(DOMAIN flows') /\ Cardinality(DOMAIN flows') = card + 1
      BY <2>5, <1>6, FS_AddElement DEF NameInv
    <2>8. QED
      BY <2>1, <2>6, <2>7, <1>2, <1>3 DEF NameInv
  <1>7. QED
    BY <1>4, <1>5, <1>6

LEMMA NameInvInductive == Spec => []NameInv
  <1>1. Init => NameInv
    <2> SUFFICES ASSUME Init PROVE NameInv
      OBVIOUS
    <2>1. DOMAIN flows = {} /\ DOMAIN names = {} /\ limit \in Nat
      BY EtwAssumption DEF Init, Empty
    <2>2. QED
      BY <2>1, FS_EmptySet DEF NameInv, Aligned
  <1>2. NameInv /\ [Next]_vars => NameInv'
    <2> SUFFICES ASSUME NameInv, [Next]_vars
                 PROVE  NameInv'
      OBVIOUS
    <2>1. CASE Feed
      BY <2>1, FeedKeepsNames
    <2>2. CASE UNCHANGED <<limit, flows, names>>
      BY <2>2 DEF NameInv, Aligned, OneNameEach
    <2>3. CASE Next /\ ~Feed
      <3>1. UNCHANGED <<limit, flows, names>>
        BY <2>3 DEF Next, Exit, Start, Taken, Move, FeedNothing, Tick, acc, world
      <3>2. QED
        BY <3>1, <2>2
    <2>4. CASE UNCHANGED vars
      BY <2>4, <2>2 DEF vars, acc, world
    <2>5. QED
      BY <2>1, <2>3, <2>4
  <1>3. QED
    BY <1>1, <1>2, PTL DEF Spec

(* The rows of one pid bear one name, whatever is forgotten, looked up     *)
(* late or in a stale map, or given out again: names are only forgotten    *)
(* when no row can come any more (FlowAccumulator.name_for and feed share  *)
(* max_keys).                                                              *)
THEOREM OneNameEachHolds == Spec => []OneNameEach
  <1>1. NameInv => OneNameEach
    BY AlignedNames DEF NameInv
  <1>2. QED
    BY <1>1, NameInvInductive, PTL

(* FlowAccumulator's memory is bounded: there are never more rows than     *)
(* max_keys.                                                               *)
THEOREM RowsBounded == Spec => [](Cardinality(DOMAIN flows) <= limit)
  <1>1. NameInv => Cardinality(DOMAIN flows) <= limit
    BY DEF NameInv
  <1>2. QED
    BY <1>1, NameInvInductive, PTL

-----------------------------------------------------------------------------
\* The process has exchanged bytes with the peer.
Real(went, p, ip) == ip \in Peer /\ p \in Pid /\ \E d \in Dir : went[<<p, ip, d>>] > 0

\* Events that count, and rows, are about real peers.
PeerInv ==
    /\ queue \in Seq(Event)
    /\ moved \in [Account -> Nat]
    /\ \A i \in 1 .. Len(queue) : Counts(queue[i]) => Real(moved, queue[i].pid, Remote(queue[i]))
    /\ \A k \in DOMAIN flows : Real(moved, k.pid, k.ip)

\* The events of a transfer that count name its process and its peer.
LEMMA EventsTrue ==
    ASSUME NEW t \in Transfers, NEW p \in Pid, NEW es \in Events(t, p)
    PROVE  /\ es \in Seq(Event)
           /\ \A i \in 1 .. Len(es) : Counts(es[i]) =>
                 /\ es[i].pid = p /\ Remote(es[i]) = t.ip
                 /\ t.ip \in Peer /\ t.size > 0
  <1> DEFINE Ev(id, src, dst) ==
               [id |-> id, pid |-> p, saddr |-> src, daddr |-> dst, size |-> t.size]
  <1>1. t.how \in {"send", "tcpRecv", "udpRecv"} /\ t.ip \in Ip /\ t.size \in Nat
    BY EtwAssumption DEF Transfers, Ip
  <1>2. t.how # "send" => t.ip \in Peer /\ t.size > 0
    <2>1. t.how # "send" => t.ip \in Peer /\ t.size \in Sizes \ {0}
      BY DEF Transfers
    <2>2. QED
      BY <2>1, <1>1
  <1>3. t.ip \in Peer \/ t.ip = Nowhere
    BY DEF Transfers
  <1>4. \A id \in Ids, src, dst \in Ip : Ev(id, src, dst) \in Event
    BY <1>1 DEF Event
  <1>5. CASE t.how = "send"
    <2>1. es = <<Ev("send", Here, t.ip)>>
      BY <1>5 DEF Events
    <2>2. Ev("send", Here, t.ip) \in Event
      BY <1>1, <1>4 DEF Ids, Ip
    <2>3. Counts(es[1]) => es[1].pid = p /\ Remote(es[1]) = t.ip /\ t.ip \in Peer /\ t.size > 0
      BY <2>1, <1>1, <1>3 DEF Counts, Remote
    <2>4. QED
      BY <2>1, <2>2, <2>3
  <1>6. CASE t.how = "tcpRecv"
    <2>1. es = <<Ev("tcpRecv", Here, t.ip), Ev("tcpCopy", Here, t.ip)>>
      BY <1>6 DEF Events
    <2>2. Ev("tcpRecv", Here, t.ip) \in Event /\ Ev("tcpCopy", Here, t.ip) \in Event
      BY <1>1, <1>4 DEF Ids, Ip
    <2>3. /\ es[1].pid = p /\ Remote(es[1]) = t.ip /\ t.ip \in Peer /\ t.size > 0
          /\ ~Counts(es[2])
      BY <2>1, <1>1, <1>2, <1>6 DEF Counts, Remote, SendIds, RecvIds
    <2>4. QED
      BY <2>1, <2>2, <2>3
  <1>7. CASE t.how = "udpRecv"
    <2>1. PICK to \in {Here, Nowhere} : es = <<Ev("udpRecv", t.ip, to)>>
      BY <1>7 DEF Events
    <2>2. Ev("udpRecv", t.ip, to) \in Event
      BY <1>1, <1>4 DEF Ids, Ip
    <2>3. es[1].pid = p /\ Remote(es[1]) = t.ip /\ t.ip \in Peer /\ t.size > 0
      BY <2>1, <1>1, <1>2, <1>7 DEF Remote
    <2>4. QED
      BY <2>1, <2>2, <2>3
  <1>8. QED
    BY <1>1, <1>5, <1>6, <1>7

\* Bytes that went stay known.
LEMMA MoveKeepsReal ==
    ASSUME PeerInv, NEW t \in Transfers, NEW p \in Pid, Move(t, p)
    PROVE  /\ moved' \in [Account -> Nat]
           /\ \A q, ip : Real(moved, q, ip) => Real(moved', q, ip)
           /\ (t.ip \in Peer /\ t.size > 0) => Real(moved', p, t.ip)
  <1>1. t.size \in Nat
    BY EtwAssumption DEF Transfers
  <1> DEFINE dir == IF t.how = "send" THEN "out" ELSE "inb"
  <1>2. moved' = [m \in Account |-> moved[m] + IF m = <<p, t.ip, dir>> THEN t.size ELSE 0]
    BY DEF Move
  <1>3. moved \in [Account -> Nat]
    BY DEF PeerInv
  <1>4. moved' \in [Account -> Nat] /\ \A m \in Account : moved'[m] >= moved[m]
    BY <1>1, <1>2, <1>3
  <1>5. ASSUME NEW q, NEW ip, Real(moved, q, ip)
        PROVE  Real(moved', q, ip)
    <2>1. PICK d \in Dir : moved[<<q, ip, d>>] > 0
      BY <1>5 DEF Real
    <2>2. <<q, ip, d>> \in Account
      BY <1>5 DEF Real, Account
    <2>3. moved'[<<q, ip, d>>] > 0
      BY <2>1, <2>2, <1>3, <1>4
    <2>4. QED
      BY <2>3, <1>5 DEF Real
  <1>6. ASSUME t.ip \in Peer, t.size > 0
        PROVE  Real(moved', p, t.ip)
    <2>1. <<p, t.ip, dir>> \in Account /\ dir \in Dir
      BY <1>6 DEF Account, Dir
    <2> HIDE DEF dir
    <2>2. moved'[<<p, t.ip, dir>>] = moved[<<p, t.ip, dir>>] + t.size
      BY <2>1, <1>2
    <2>3. moved'[<<p, t.ip, dir>>] > 0
      BY <2>1, <2>2, <1>1, <1>3, <1>6
    <2>4. QED
      BY <2>1, <2>3, <1>6 DEF Real
  <1>7. QED
    BY <1>4, <1>5, <1>6

LEMMA MoveKeepsPeers ==
    ASSUME PeerInv, NEW t \in Transfers, NEW p \in Pid, Move(t, p)
    PROVE  PeerInv'
  <1>1. PICK es \in Events(t, p) : queue' = queue \o es
    BY DEF Move
  <1>2. /\ es \in Seq(Event)
        /\ \A i \in 1 .. Len(es) : Counts(es[i]) =>
              /\ es[i].pid = p /\ Remote(es[i]) = t.ip
              /\ t.ip \in Peer /\ t.size > 0
    BY EventsTrue
  <1>3. queue \in Seq(Event)
    BY DEF PeerInv
  <1>0. /\ moved' \in [Account -> Nat]
        /\ \A q, ip : Real(moved, q, ip) => Real(moved', q, ip)
        /\ (t.ip \in Peer /\ t.size > 0) => Real(moved', p, t.ip)
    BY MoveKeepsReal
  <1>4. queue' \in Seq(Event) /\ Len(queue') = Len(queue) + Len(es)
    BY <1>1, <1>2, <1>3
  <1>5. ASSUME NEW i \in 1 .. Len(queue'), Counts(queue'[i])
        PROVE  Real(moved', queue'[i].pid, Remote(queue'[i]))
    <2>1. CASE i <= Len(queue)
      <3>1. queue'[i] = queue[i] /\ i \in 1 .. Len(queue)
        BY <2>1, <1>1, <1>2, <1>3
      <3>2. Real(moved, queue[i].pid, Remote(queue[i]))
        BY <3>1, <1>5 DEF PeerInv
      <3>3. QED
        BY <3>1, <3>2, <1>0
    <2>2. CASE i > Len(queue)
      <3>1. i - Len(queue) \in 1 .. Len(es) /\ queue'[i] = es[i - Len(queue)]
        BY <2>2, <1>1, <1>2, <1>3, <1>4
      <3>2. queue'[i].pid = p /\ Remote(queue'[i]) = t.ip /\ t.ip \in Peer /\ t.size > 0
        BY <3>1, <1>2, <1>5
      <3>3. QED
        BY <3>2, <1>0
    <2>3. QED
      BY <2>1, <2>2, <1>3, <1>4
  <1>6. flows' = flows
    BY DEF Move, acc
  <1>7. QED
    BY <1>0, <1>4, <1>5, <1>6 DEF PeerInv

LEMMA FeedsKeepPeers ==
    ASSUME PeerInv, Feed \/ FeedNothing
    PROVE  PeerInv'
  <1> DEFINE e == Head(queue)
  <1>1. queue \in Seq(Event) /\ queue # <<>> /\ queue' = Tail(queue)
    BY DEF PeerInv, Feed, FeedNothing
  <1>2. /\ queue' \in Seq(Event) /\ Len(queue') = Len(queue) - 1
        /\ \A i \in 1 .. Len(queue') : i + 1 \in 1 .. Len(queue) /\ queue'[i] = queue[i + 1]
    BY <1>1
  <1>3. moved' = moved
    BY DEF Feed, FeedNothing, world
  <1>4. ASSUME NEW i \in 1 .. Len(queue'), Counts(queue'[i])
        PROVE  Real(moved', queue'[i].pid, Remote(queue'[i]))
    BY <1>2, <1>3, <1>4 DEF PeerInv
  <1>5. ASSUME NEW x \in DOMAIN flows'
        PROVE  Real(moved', x.pid, x.ip)
    <2>1. CASE x \in DOMAIN flows
      BY <2>1, <1>3 DEF PeerInv
    <2>2. CASE x \notin DOMAIN flows
      <3>1. Feed
        BY <2>2 DEF FeedNothing, acc
      <3>2. PICK m \in {map, proc} :
              flows' = Table([name |-> Known(e.pid, m)[e.pid], pid |-> e.pid,
                              ip |-> Remote(e)], Delta(e))
        BY <3>1 DEF Feed
      <3>3. x = [name |-> Known(e.pid, m)[e.pid], pid |-> e.pid, ip |-> Remote(e)]
        BY <3>2, <2>2 DEF Table, With
      <3>4. x.pid = e.pid /\ x.ip = Remote(e)
        BY <3>3
      <3>5. Counts(e) /\ e = queue[1] /\ 1 \in 1 .. Len(queue)
        <4>1. Counts(e)
          BY <3>1, Zenon DEF Feed
        <4>2. e = queue[1] /\ 1 \in 1 .. Len(queue)
          BY <1>1
        <4>3. QED
          BY <4>1, <4>2
      <3>6. Real(moved, e.pid, Remote(e))
        BY <3>5 DEF PeerInv
      <3>7. QED
        BY <3>4, <3>6, <1>3
    <2>3. QED
      BY <2>1, <2>2
  <1>6. moved' \in [Account -> Nat]
    BY <1>3 DEF PeerInv
  <1>7. QED
    BY <1>2, <1>4, <1>5, <1>6 DEF PeerInv

LEMMA AlwaysPeers == Spec => []PeerInv
  <1>1. Init => PeerInv
    BY DEF Init, PeerInv, Zero, Empty
  <1>2. PeerInv /\ [Next]_vars => PeerInv'
    <2> SUFFICES ASSUME PeerInv, [Next]_vars
                 PROVE  PeerInv'
      OBVIOUS
    <2>1. ASSUME NEW t \in Transfers, NEW p \in Pid, Move(t, p)
          PROVE  PeerInv'
      BY <2>1, MoveKeepsPeers
    <2>2. CASE Feed \/ FeedNothing
      BY <2>2, FeedsKeepPeers
    <2>3. CASE UNCHANGED <<queue, moved, flows>>
      BY <2>3 DEF PeerInv
    <2>4. ASSUME NEW p \in Pid, Exit(p) \/ \E n \in Name : Start(p, n)
          PROVE  PeerInv'
      BY <2>3, <2>4 DEF Exit, Start, acc
    <2>5. CASE Taken \/ Tick \/ UNCHANGED vars
      BY <2>3, <2>5 DEF Taken, Tick, acc, world, vars
    <2>6. QED
      BY <2>1, <2>2, <2>4, <2>5 DEF Next
  <1>3. QED
    BY <1>1, <1>2, PTL DEF Spec

(* Rows name only addresses that the process has exchanged bytes with, for *)
(* every mix of transfers, ids, late events and full tables.               *)
THEOREM PeersAreRealHolds == Spec => []PeersAreReal
  <1>1. PeerInv => PeersAreReal
    BY DEF PeerInv, PeersAreReal, Real
  <1>2. QED
    BY <1>1, AlwaysPeers, PTL

-----------------------------------------------------------------------------
(* Where every byte is: charged, discarded, in a row, or on its way        *)

\* What an event, once fed, adds to an account.
Adds(e, m) == IF Counts(e) /\ e.pid = m[1] /\ Remote(e) = m[2] THEN Delta(e)[m[3]] ELSE 0

\* s is the way of an account's bytes: s[0] of them have reached the rows or
\* were refused, s[i] will have when the i-th event of the queue is fed.
Way(m, s) ==
    /\ s \in [0 .. Len(queue) -> Nat]
    /\ \A i \in 1 .. Len(queue) : s[i] = s[i - 1] + Adds(queue[i], m)
    /\ \A i \in 0 .. Len(queue) : s[i] <= moved[m]
    /\ s[Len(queue)] = moved[m]

\* n bytes of an account have been charged, discarded, refused, or wait in the
\* row, of which there is at most one.
Arrived(m, n) ==
    /\ Rows(m) = {} => n = counted[m] + lost[m]
    /\ \A k \in Rows(m) : n = counted[m] + lost[m] + (flows[k][m[3]] - Paid(k, m[3]))

RowInv ==
    /\ flows \in [DOMAIN flows -> Bytes] /\ base \in [DOMAIN base -> Bytes]
    /\ counted \in [Account -> Nat] /\ lost \in [Account -> Nat]
    /\ \A k \in DOMAIN flows : k = [name |-> k.name, pid |-> k.pid, ip |-> k.ip]
    /\ DOMAIN base \subseteq DOMAIN flows
    /\ \A k \in DOMAIN base : \A d \in Dir : base[k][d] <= flows[k][d]
    /\ warmup => DOMAIN base = {}
    /\ settled => base = flows
    /\ dropped \in Nat /\ (dropped = 0 => refused = {})

WayInv == \A m \in Account : \E s : Way(m, s) /\ Arrived(m, s[0])

ByteInv == PeerInv /\ RowInv /\ WayInv

-----------------------------------------------------------------------------
\* The sum over no row, and over the only one.
LEMMA SumNone == ASSUME NEW f, DOMAIN f = {} PROVE SumFunction(f) = 0
  <1> DEFINE body(g, s) == IF s = {} THEN 0
                           ELSE LET x == CHOOSE y \in s : TRUE IN f[x] + g[s \ {x}]
             iter[s \in SUBSET {}] == IF s = {} THEN 0
                           ELSE LET x == CHOOSE y \in s : TRUE IN f[x] + iter[s \ {x}]
  <1>1. SumFunction(f) = iter[{}]
    BY DEF SumFunction, SumFunctionOnSet, FoldFunctionOnSet, MapThenFoldSet
  <1>2. PICK g : g = [s \in SUBSET {} |-> 0]
    OBVIOUS
  <1>3. g = [s \in SUBSET {} |-> body(g, s)]
    BY <1>2
  <1>4. iter = [s \in SUBSET {} |-> body(iter, s)]
    BY <1>3 DEF iter
  <1>5. QED
    BY <1>1, <1>4

LEMMA SumOne ==
    ASSUME NEW f, NEW k, DOMAIN f = {k}, f[k] \in Nat
    PROVE  SumFunction(f) = f[k]
  <1> DEFINE body(g, s) == IF s = {} THEN 0
                           ELSE LET x == CHOOSE y \in s : TRUE IN f[x] + g[s \ {x}]
             iter[s \in SUBSET {k}] == IF s = {} THEN 0
                           ELSE LET x == CHOOSE y \in s : TRUE IN f[x] + iter[s \ {x}]
  <1>1. SumFunction(f) = iter[{k}]
    BY DEF SumFunction, SumFunctionOnSet, FoldFunctionOnSet, MapThenFoldSet
  <1>2. PICK g : g = [s \in SUBSET {k} |-> IF s = {} THEN 0 ELSE f[k]]
    OBVIOUS
  <1>3. \A s \in SUBSET {k} : s = {} \/ s = {k}
    OBVIOUS
  <1>4. (CHOOSE y \in {k} : TRUE) = k /\ {k} \ {k} = {} /\ {} \in SUBSET {k} /\ {k} \in SUBSET {k}
    OBVIOUS
  <1>5. ASSUME NEW h, h[{}] = 0
        PROVE  body(h, {}) = 0 /\ body(h, {k}) = f[k]
    BY <1>4, <1>5
  <1>6. g = [s \in SUBSET {k} |-> body(g, s)]
    <2>1. g[{}] = 0 /\ g[{k}] = f[k]
      BY <1>2, <1>4
    <2>2. body(g, {}) = 0 /\ body(g, {k}) = f[k]
      BY <2>1, <1>5
    <2> HIDE DEF body
    <2>3. ASSUME NEW s \in SUBSET {k}
          PROVE  g[s] = body(g, s)
      BY <2>1, <2>2, <1>3
    <2>4. g = [s \in SUBSET {k} |-> g[s]]
      BY <1>2
    <2>5. QED
      BY <2>3, <2>4, Zenon
  <1>7. iter = [s \in SUBSET {k} |-> body(iter, s)]
    BY <1>6, ZenonT(60) DEF iter
  <1>8. iter[{}] = 0
    BY <1>4, <1>7
  <1>9. iter[{k}] = body(iter, {k})
    BY <1>4, <1>7
  <1>10. QED
    BY <1>1, <1>5, <1>8, <1>9

-----------------------------------------------------------------------------
OneRowEach == \A m : \A k \in Rows(m) : Rows(m) = {k}

\* One name for each process is one row for each account.
LEMMA OneRow == NameInv /\ RowInv => OneRowEach
  <1> SUFFICES ASSUME NameInv, RowInv, NEW m, NEW k \in Rows(m), NEW l \in Rows(m)
               PROVE  l = k
    BY DEF OneRowEach
  <1>1. /\ k \in DOMAIN flows /\ l \in DOMAIN flows
        /\ k.pid = m[1] /\ l.pid = m[1] /\ k.ip = m[2] /\ l.ip = m[2]
    BY DEF Rows
  <1>2. k.name = l.name
    BY <1>1, AlignedNames DEF NameInv, OneNameEach
  <1>3. /\ k = [name |-> k.name, pid |-> k.pid, ip |-> k.ip]
        /\ l = [name |-> l.name, pid |-> l.pid, ip |-> l.ip]
    BY <1>1 DEF RowInv
  <1>4. QED
    BY <1>1, <1>2, <1>3

LEMMA AccountParts ==
    ASSUME NEW m \in Account
    PROVE  m[1] \in Pid /\ m[2] \in Peer /\ m[3] \in Dir /\ m = <<m[1], m[2], m[3]>>
  BY DEF Account

LEMMA AddsType ==
    ASSUME NEW e \in Event, NEW m \in Account
    PROVE  Adds(e, m) \in Nat
  BY AccountParts DEF Adds, Delta, Event

LEMMA InitBytes == Init => RowInv /\ WayInv
  <1> SUFFICES ASSUME Init
               PROVE  RowInv /\ WayInv
    OBVIOUS
  <1>1. DOMAIN flows = {} /\ DOMAIN base = {} /\ queue = <<>>
    BY DEF Init, Empty
  <1>2. \A m \in Account : counted[m] = 0 /\ lost[m] = 0 /\ moved[m] = 0
    BY DEF Init, Zero
  <1>3. RowInv
    <2>1. counted \in [Account -> Nat] /\ lost \in [Account -> Nat]
      BY DEF Init, Zero
    <2>2. flows \in [DOMAIN flows -> Bytes] /\ base \in [DOMAIN base -> Bytes]
      BY DEF Init, Empty
    <2>3. QED
      BY <1>1, <2>1, <2>2 DEF Init, RowInv
  <1>4. ASSUME NEW m \in Account
        PROVE  \E s : Way(m, s) /\ Arrived(m, s[0])
    <2>1. PICK s : s = [i \in 0 .. 0 |-> 0]
      OBVIOUS
    <2>2. s[0] = 0 /\ s \in [0 .. 0 -> Nat] /\ 0 .. 0 = {0} /\ 1 .. 0 = {} /\ Len(queue) = 0
      BY <2>1, <1>1
    <2>3. Way(m, s)
      BY <2>2, <1>2 DEF Way
    <2>4. Rows(m) = {}
      BY <1>1 DEF Rows
    <2>5. Arrived(m, s[0])
      BY <2>2, <2>4, <1>2 DEF Arrived
    <2>6. QED
      BY <2>3, <2>5
  <1>5. QED
    BY <1>3, <1>4 DEF WayInv

-----------------------------------------------------------------------------
\* The first event of a transfer adds its bytes to its account; the copy that
\* may come with it adds nothing.
LEMMA TransferAdds ==
    ASSUME NEW t \in Transfers, NEW p \in Pid, NEW es \in Events(t, p), NEW m \in Account,
           NEW n, n = IF m = <<p, t.ip, IF t.how = "send" THEN "out" ELSE "inb">>
                      THEN t.size ELSE 0
    PROVE  /\ n \in Nat /\ Len(es) \in {1, 2} /\ Adds(es[1], m) = n
           /\ Len(es) = 2 => Adds(es[2], m) = 0
  <1> DEFINE Ev(id, src, dst) ==
               [id |-> id, pid |-> p, saddr |-> src, daddr |-> dst, size |-> t.size]
  <1>1. t.how \in {"send", "tcpRecv", "udpRecv"} /\ t.size \in Nat
    BY EtwAssumption DEF Transfers
  <1>2. /\ t.how # "send" => t.ip \in Peer /\ t.size > 0
        /\ t.ip \in Peer \/ t.ip = Nowhere
    <2>1. t.how # "send" => t.ip \in Peer /\ t.size \in Sizes \ {0}
      BY DEF Transfers
    <2>2. t.ip \in Peer \/ t.ip = Nowhere
      BY DEF Transfers
    <2>3. QED
      BY <2>1, <2>2, <1>1
  <1>3. Nowhere \notin Peer /\ m[1] \in Pid /\ m[2] \in Peer /\ m[3] \in Dir /\ n \in Nat
    BY EtwAssumption, AccountParts, <1>1
  <1>4. m = <<p, t.ip, "out">> <=> m[1] = p /\ m[2] = t.ip /\ m[3] = "out"
    BY AccountParts
  <1>5. m = <<p, t.ip, "inb">> <=> m[1] = p /\ m[2] = t.ip /\ m[3] # "out"
    BY AccountParts DEF Dir
  <1>6. CASE t.how = "send"
    <2>1. PICK e : e = Ev("send", Here, t.ip) /\ es = <<e>>
      BY <1>6 DEF Events
    <2>2. /\ e.pid = p /\ e.size = t.size /\ e.id = "send" /\ Remote(e) = t.ip
      BY <2>1 DEF Remote
    <2>3. Delta(e)[m[3]] = IF m[3] = "out" THEN t.size ELSE 0
      BY <2>2, <1>3 DEF Delta, SendIds
    <2>4. Counts(e) <=> t.size > 0 /\ t.ip # Nowhere
      BY <2>2 DEF Counts, SendIds
    <2>5. Adds(e, m) = n
      BY <2>2, <2>3, <2>4, <1>1, <1>3, <1>4, <1>6 DEF Adds
    <2>6. Len(es) = 1 /\ es[1] = e
      BY <2>1
    <2>7. QED
      BY <2>5, <2>6, <1>3
  <1>7. CASE t.how = "tcpRecv"
    <2>1. PICK e, f : /\ e = Ev("tcpRecv", Here, t.ip) /\ f = Ev("tcpCopy", Here, t.ip)
                      /\ es = <<e, f>>
      BY <1>7 DEF Events
    <2>2. /\ e.pid = p /\ e.size = t.size /\ e.id = "tcpRecv" /\ Remote(e) = t.ip
          /\ f.id = "tcpCopy"
      BY <2>1 DEF Remote
    <2>3. Delta(e)[m[3]] = IF m[3] # "out" THEN t.size ELSE 0
      BY <2>2, <1>3 DEF Delta, SendIds
    <2>4. Counts(e) /\ ~Counts(f)
      BY <2>2, <1>2, <1>3, <1>7 DEF Counts, SendIds, RecvIds
    <2>5. Adds(e, m) = n /\ Adds(f, m) = 0
      BY <2>2, <2>3, <2>4, <1>1, <1>3, <1>5, <1>7 DEF Adds
    <2>6. Len(es) = 2 /\ es[1] = e /\ es[2] = f
      BY <2>1
    <2>7. QED
      BY <2>5, <2>6, <1>3
  <1>8. CASE t.how = "udpRecv"
    <2>1. PICK to \in {Here, Nowhere} : es = <<Ev("udpRecv", t.ip, to)>>
      BY <1>8 DEF Events
    <2>2. PICK e : e = Ev("udpRecv", t.ip, to) /\ es = <<e>>
      BY <2>1
    <2>3. /\ e.pid = p /\ e.size = t.size /\ e.id = "udpRecv" /\ Remote(e) = t.ip
      BY <2>2 DEF Remote
    <2>4. Delta(e)[m[3]] = IF m[3] # "out" THEN t.size ELSE 0
      BY <2>3, <1>3 DEF Delta, SendIds
    <2>5. Counts(e)
      BY <2>3, <1>2, <1>3, <1>8 DEF Counts, SendIds, RecvIds
    <2>6. Adds(e, m) = n
      BY <2>3, <2>4, <2>5, <1>1, <1>3, <1>5, <1>8 DEF Adds
    <2>7. Len(es) = 1 /\ es[1] = e
      BY <2>2
    <2>8. QED
      BY <2>6, <2>7, <1>3
  <1>9. QED
    BY <1>1, <1>6, <1>7, <1>8

\* What is said of the rows stays true while they and what was charged do.
LEMMA RowsStay ==
    ASSUME RowInv, UNCHANGED <<flows, base, counted, lost, warmup, dropped, refused>>,
           settled' \in {FALSE, settled}
    PROVE  /\ RowInv'
           /\ \A m, n : Arrived(m, n) => Arrived(m, n)'
  <1>1. RowInv'
    <2>1. settled' => base' = flows'
      <3>1. settled' => settled
        OBVIOUS
      <3>2. QED
        BY <3>1 DEF RowInv
    <2>2. warmup' => DOMAIN base' = {}
      BY Zenon DEF RowInv
    <2>3. /\ DOMAIN flows' = DOMAIN flows /\ flows' \in [DOMAIN flows' -> Bytes]
          /\ DOMAIN base' = DOMAIN base /\ base' \in [DOMAIN base' -> Bytes]
      BY Zenon DEF RowInv
    <2>4. QED
      BY <2>1, <2>2, <2>3 DEF RowInv
  <1>2. \A m : Rows(m)' = Rows(m)
    BY DEF Rows
  <1>3. \A k, d : Paid(k, d)' = Paid(k, d)
    BY DEF Paid
  <1>4. QED
    BY <1>1, <1>2, <1>3 DEF Arrived

LEMMA MoveBytes ==
    ASSUME ByteInv, NEW t \in Transfers, NEW p \in Pid, Move(t, p)
    PROVE  RowInv' /\ WayInv'
  <1>1. PICK es \in Events(t, p) : queue' = queue \o es
    BY DEF Move
  <1>2. /\ UNCHANGED <<flows, base, counted, lost, warmup, dropped, refused>>
        /\ settled' = FALSE
    BY DEF Move, acc, ticked
  <1>3. RowInv' /\ \A m, n : Arrived(m, n) => Arrived(m, n)'
    BY <1>2, RowsStay DEF ByteInv
  <1>4. ASSUME NEW m \in Account
        PROVE  \E s : Way(m, s)' /\ Arrived(m, s[0])'
    <2>1. PICK s : Way(m, s) /\ Arrived(m, s[0])
      BY DEF ByteInv, WayInv
    <2>2. PICK n : n = IF m = <<p, t.ip, IF t.how = "send" THEN "out" ELSE "inb">>
                       THEN t.size ELSE 0
      OBVIOUS
    <2>3. moved'[m] = moved[m] + n
      BY <2>2 DEF Move
    <2>4. /\ n \in Nat /\ Len(es) \in {1, 2} /\ Adds(es[1], m) = n
          /\ Len(es) = 2 => Adds(es[2], m) = 0
      BY <2>2, TransferAdds
    <2>5. queue \in Seq(Event) /\ es \in Seq(Event) /\ moved[m] \in Nat
      BY EventsTrue DEF ByteInv, PeerInv
    <2>6. PICK l : l = Len(queue) /\ l \in Nat
      BY <2>5
    <2>7. /\ Len(queue') = l + Len(es)
          /\ \A i \in 1 .. l : queue'[i] = queue[i]
          /\ queue'[l + 1] = es[1]
          /\ Len(es) = 2 => queue'[l + 2] = es[2]
      BY <1>1, <2>4, <2>5, <2>6
    <2>8. /\ s \in [0 .. l -> Nat] /\ s[l] = moved[m]
          /\ \A i \in 1 .. l : s[i] = s[i - 1] + Adds(queue[i], m)
          /\ \A i \in 0 .. l : s[i] <= moved[m]
      BY <2>1, <2>6 DEF Way
    <2>9. PICK h : h = Len(queue')
      OBVIOUS
    <2>10. h \in {l + 1, l + 2} /\ (h = l + 2 <=> Len(es) = 2)
      <3>1. CASE Len(es) = 1
        BY <3>1, <2>6, <2>7, <2>9
      <3>2. CASE Len(es) = 2
        BY <3>2, <2>6, <2>7, <2>9
      <3>3. QED
        BY <3>1, <3>2, <2>4
    <2>11. PICK w : w = [i \in 0 .. h |-> IF i <= l THEN s[i] ELSE s[l] + n]
      OBVIOUS
    <2>12. /\ \A i \in 0 .. l : i \in 0 .. h /\ w[i] = s[i]
           /\ w[l + 1] = s[l] + n /\ (h = l + 2 => w[l + 2] = s[l] + n)
      BY <2>6, <2>10, <2>11
    <2>13. w \in [0 .. h -> Nat]
      <3>1. ASSUME NEW i \in 0 .. h
            PROVE  (IF i <= l THEN s[i] ELSE s[l] + n) \in Nat
        BY <2>4, <2>6, <2>8, <2>10
      <3>2. QED
        BY <2>11, <3>1
    <2>14. \A i \in 0 .. h : i \in 0 .. l \/ i = l + 1 \/ (h = l + 2 /\ i = l + 2)
      BY <2>6, <2>10
    <2>15. \A i \in 0 .. h : w[i] <= moved'[m]
      <3>1. \A i \in 0 .. l : s[i] \in Nat /\ s[i] <= moved[m]
        BY <2>8
      <3>2. QED
        BY <3>1, <2>3, <2>4, <2>5, <2>8, <2>12, <2>14
    <2>16. ASSUME NEW i \in 1 .. h
           PROVE  w[i] = w[i - 1] + Adds(queue'[i], m)
      <3>1. CASE i \in 1 .. l
        <4>1. i - 1 \in 0 .. l /\ i \in 0 .. l
          BY <3>1, <2>6
        <4>2. w[i] = s[i] /\ w[i - 1] = s[i - 1] /\ queue'[i] = queue[i]
          BY <4>1, <3>1, <2>7, <2>12
        <4>3. QED
          BY <3>1, <4>2, <2>8
      <3>2. CASE i = l + 1
        <4>1. i - 1 = l /\ l \in 0 .. l
          BY <3>2, <2>6
        <4>2. w[i - 1] = s[l] /\ w[i] = s[l] + n /\ Adds(queue'[i], m) = n
          BY <3>2, <4>1, <2>4, <2>7, <2>12
        <4>3. QED
          BY <4>2
      <3>3. CASE h = l + 2 /\ i = l + 2
        <4>1. i - 1 = l + 1
          BY <3>3, <2>6
        <4>2. w[i - 1] = s[l] + n /\ w[i] = s[l] + n /\ Adds(queue'[i], m) = 0
          BY <3>3, <4>1, <2>4, <2>7, <2>10, <2>12
        <4>3. s[l] + n \in Nat
          BY <2>4, <2>6, <2>8
        <4>4. QED
          BY <4>2, <4>3
      <3>4. QED
        BY <3>1, <3>2, <3>3, <2>6, <2>14
    <2>17. w[h] = moved'[m]
      BY <2>3, <2>8, <2>10, <2>12
    <2>18. Way(m, w)'
      BY <2>9, <2>13, <2>15, <2>16, <2>17 DEF Way
    <2>19. Arrived(m, w[0])'
      <3>1. w[0] = s[0]
        BY <2>6, <2>12
      <3>2. QED
        BY <3>1, <1>3, <2>1
    <2>20. QED
      BY <2>18, <2>19
  <1>5. QED
    BY <1>3, <1>4 DEF WayInv

\* An event that leaves the queue has brought its bytes.
LEMMA Popped ==
    ASSUME PeerInv, queue # <<>>, queue' = Tail(queue), moved' = moved,
           NEW m \in Account, NEW s, Way(m, s)
    PROVE  \E w : Way(m, w)' /\ w[0] = s[0] + Adds(Head(queue), m)
  <1>1. /\ queue \in Seq(Event) /\ moved[m] \in Nat
    BY DEF PeerInv
  <1>2. PICK h : h = Len(queue') /\ h \in Nat
    BY <1>1
  <1>3. /\ Len(queue) = h + 1 /\ Head(queue) = queue[1]
        /\ \A i \in 1 .. h : queue'[i] = queue[i + 1]
    BY <1>1, <1>2
  <1>4. /\ s \in [0 .. h + 1 -> Nat]
        /\ \A i \in 1 .. h + 1 : s[i] = s[i - 1] + Adds(queue[i], m)
        /\ \A i \in 0 .. h + 1 : s[i] <= moved[m]
        /\ s[h + 1] = moved[m]
    BY <1>3 DEF Way
  <1>5. PICK w : w = [i \in 0 .. h |-> s[i + 1]]
    OBVIOUS
  <1>6. \A i \in 0 .. h : i + 1 \in 0 .. h + 1 /\ i + 1 \in 1 .. h + 1 /\ w[i] = s[i + 1]
    BY <1>2, <1>5
  <1>7. w \in [0 .. h -> Nat]
    BY <1>4, <1>5, <1>6
  <1>8. \A i \in 0 .. h : w[i] <= moved[m]
    BY <1>4, <1>6
  <1>9. ASSUME NEW i \in 1 .. h
        PROVE  w[i] = w[i - 1] + Adds(queue'[i], m)
    <2>1. i - 1 \in 0 .. h /\ i \in 0 .. h /\ (i - 1) + 1 = i /\ (i + 1) - 1 = i
          /\ i + 1 \in 1 .. h + 1
      BY <1>2
    <2>2. w[i - 1] = s[i] /\ w[i] = s[i + 1] /\ queue'[i] = queue[i + 1]
      BY <2>1, <1>3, <1>6
    <2>3. s[i + 1] = s[i] + Adds(queue[i + 1], m)
      BY <2>1, <1>4
    <2>4. QED
      BY <2>2, <2>3
  <1>10. h \in 0 .. h /\ 0 \in 0 .. h /\ 1 \in 1 .. h + 1
    BY <1>2
  <1>11. w[h] = moved[m] /\ w[0] = s[0] + Adds(queue[1], m)
    <2>1. w[h] = s[h + 1] /\ w[0] = s[1]
      BY <1>6, <1>10
    <2>2. s[1] = s[0] + Adds(queue[1], m)
      BY <1>4, <1>10
    <2>3. QED
      BY <2>1, <2>2, <1>4
  <1>12. Way(m, w)'
    BY <1>2, <1>7, <1>8, <1>9, <1>11 DEF Way
  <1>13. QED
    BY <1>3, <1>11, <1>12

\* The bytes that the fed event brings have arrived.
LEMMA FeedArrives ==
    ASSUME ByteInv, NameInv, Feed
    PROVE  /\ RowInv'
           /\ \A m \in Account : \A n \in Nat : \A a :
                 (Arrived(m, n) /\ a = n + Adds(Head(queue), m)) => Arrived(m, a)'
  <1> DEFINE e == Head(queue)
  <1>1. PICK mm \in {map, proc} :
          LET k == [name |-> Known(e.pid, mm)[e.pid], pid |-> e.pid, ip |-> Remote(e)]
          IN  /\ flows' = Table(k, Delta(e))
              /\ dropped' = IF Full(k) THEN dropped + 1 ELSE dropped
              /\ refused' = IF Full(k) THEN refused \cup {k} ELSE refused
              /\ lost' = IF Full(k) THEN Lose(e.pid, Remote(e), Delta(e)) ELSE lost
    BY DEF Feed
  <1>2. PICK k : k = [name |-> Known(e.pid, mm)[e.pid], pid |-> e.pid, ip |-> Remote(e)]
    OBVIOUS
  <1>3. /\ flows' = Table(k, Delta(e))
        /\ dropped' = IF Full(k) THEN dropped + 1 ELSE dropped
        /\ refused' = IF Full(k) THEN refused \cup {k} ELSE refused
        /\ lost' = IF Full(k) THEN Lose(e.pid, Remote(e), Delta(e)) ELSE lost
    BY <1>1, <1>2
  <1>4. /\ k.pid = e.pid /\ k.ip = Remote(e)
        /\ k = [name |-> k.name, pid |-> k.pid, ip |-> k.ip]
    BY <1>2
  <1>5. Counts(e) /\ UNCHANGED <<base, warmup, counted>> /\ settled' = FALSE
    BY DEF Feed, ticked
  <1>6. e \in Event
    BY DEF Feed, ByteInv, PeerInv
  <1>7. PICK b \in Bytes : b = Delta(e)
    BY <1>6 DEF Delta, Bytes, Event
  <1>8. \A m \in Account :
          /\ b[m[3]] \in Nat
          /\ Adds(e, m) = IF m[1] = k.pid /\ m[2] = k.ip THEN b[m[3]] ELSE 0
    BY <1>4, <1>5, <1>7, AccountParts DEF Adds, Bytes
  <1>9. \A m \in Account : counted[m] \in Nat /\ lost[m] \in Nat
    BY DEF ByteInv, RowInv
  <1>10. NameInv'
    BY FeedKeepsNames
  <1>11. CASE Full(k)
    <2>1. flows' = flows /\ dropped' # 0
      BY <1>3, <1>11 DEF Table, ByteInv, RowInv
    <2>2. ASSUME NEW m \in Account
          PROVE  lost'[m] = lost[m] + Adds(e, m)
      <3>1. lost'[m] = lost[m] + IF m[1] = k.pid /\ m[2] = k.ip THEN b[m[3]] ELSE 0
        BY <1>3, <1>4, <1>7, <1>11 DEF Lose
      <3>2. QED
        BY <3>1, <1>8
    <2>3. lost' \in [Account -> Nat]
      <3>1. lost' = [m \in Account |-> lost'[m]]
        BY <1>3, <1>11 DEF Lose
      <3>2. \A m \in Account : lost'[m] \in Nat
        BY <2>2, <1>8, <1>9
      <3>3. QED
        BY <3>1, <3>2
    <2>4. RowInv'
      BY <2>1, <2>3, <1>3, <1>5, <1>11 DEF ByteInv, RowInv
    <2>5. ASSUME NEW m \in Account, NEW n \in Nat, Arrived(m, n),
                 NEW a, a = n + Adds(e, m)
          PROVE  Arrived(m, a)'
      <3>1. Rows(m)' = Rows(m) /\ counted'[m] = counted[m] /\ Adds(e, m) \in Nat
        BY <2>1, <1>5, <1>6, AddsType DEF Rows
      <3>2. \A x \in Rows(m) : flows[x][m[3]] \in Nat /\ Paid(x, m[3]) \in Nat
        BY AccountParts DEF Rows, Paid, ByteInv, RowInv, Bytes
      <3>3. \A x, d : Paid(x, d)' = Paid(x, d)
        BY <1>5 DEF Paid
      <3>4. ASSUME Rows(m) = {}
            PROVE  n + Adds(e, m) = counted'[m] + lost'[m]
        BY <3>1, <3>4, <2>2, <2>5, <1>9 DEF Arrived
      <3>5. ASSUME NEW x \in Rows(m)
            PROVE  n + Adds(e, m) =
                     counted'[m] + lost'[m] + (flows'[x][m[3]] - Paid(x, m[3]))
        <4>1. n = counted[m] + lost[m] + (flows[x][m[3]] - Paid(x, m[3]))
          BY <2>5, <3>5 DEF Arrived
        <4>2. flows'[x][m[3]] = flows[x][m[3]]
          BY <2>1
        <4>3. QED
          BY <4>1, <4>2, <3>1, <3>2, <3>5, <2>2, <1>9
      <3>6. QED
        BY <3>1, <3>3, <3>4, <3>5, <2>5 DEF Arrived
    <2>6. QED
      BY <2>4, <2>5
  <1>12. CASE ~Full(k)
    <2>1. /\ lost' = lost /\ dropped' = dropped /\ refused' = refused
          /\ flows' = With(flows, k, [d \in Dir |-> b[d] + IF k \in DOMAIN flows
                                                          THEN flows[k][d] ELSE 0])
      BY <1>3, <1>7, <1>12 DEF Table
    <2>2. /\ DOMAIN flows' = DOMAIN flows \cup {k}
          /\ \A x \in DOMAIN flows : x # k => flows'[x] = flows[x]
          /\ flows' = [x \in DOMAIN flows' |-> flows'[x]]
      BY <2>1 DEF With
    <2>3. flows'[k] = [d \in Dir |-> b[d] + IF k \in DOMAIN flows THEN flows[k][d] ELSE 0]
      BY <2>1 DEF With
    <2>4. \A x \in DOMAIN flows : flows[x] \in Bytes
      BY DEF ByteInv, RowInv
    <2>5. \A d \in Dir : /\ flows'[k][d] = b[d] + IF k \in DOMAIN flows THEN flows[k][d] ELSE 0
                         /\ b[d] \in Nat
                         /\ k \in DOMAIN flows => flows[k][d] \in Nat
      BY <2>3, <2>4, <1>7 DEF Bytes
    <2>6. flows'[k] \in Bytes
      BY <2>3, <2>5 DEF Bytes
    <2>7. flows' \in [DOMAIN flows' -> Bytes]
      <3>1. \A x \in DOMAIN flows' : flows'[x] \in Bytes
        BY <2>2, <2>4, <2>6
      <3>2. QED
        BY <3>1, <2>2
    <2>8. \A x \in DOMAIN base : x \in DOMAIN flows /\ \A d \in Dir : base[x][d] <= flows[x][d]
      BY DEF ByteInv, RowInv
    <2>9. ASSUME NEW x \in DOMAIN base, NEW d \in Dir
          PROVE  base[x][d] <= flows'[x][d]
      <3>1. base[x][d] \in Nat /\ flows[x][d] \in Nat /\ base[x][d] <= flows[x][d]
        BY <2>4, <2>8 DEF ByteInv, RowInv, Bytes
      <3>2. CASE x = k
        BY <3>1, <3>2, <2>5, <2>8
      <3>3. CASE x # k
        BY <3>1, <3>3, <2>2, <2>8
      <3>4. QED
        BY <3>2, <3>3
    <2>10. RowInv'
      <3>1. base' \in [DOMAIN base' -> Bytes] /\ (warmup' => DOMAIN base' = {})
        BY <1>5 DEF ByteInv, RowInv
      <3>2. /\ counted' \in [Account -> Nat] /\ lost' \in [Account -> Nat]
            /\ dropped' \in Nat /\ (dropped' = 0 => refused' = {})
        BY <2>1, <1>5 DEF ByteInv, RowInv
      <3>3. \A x \in DOMAIN flows' : x = [name |-> x.name, pid |-> x.pid, ip |-> x.ip]
        BY <2>2, <1>4 DEF ByteInv, RowInv
      <3>4. DOMAIN base' \subseteq DOMAIN flows'
        BY <2>2, <2>8, <1>5
      <3>5. \A x \in DOMAIN base' : \A d \in Dir : base'[x][d] <= flows'[x][d]
        BY <2>9, <1>5
      <3>6. QED
        BY <3>1, <3>2, <3>3, <3>4, <3>5, <2>7, <1>5 DEF RowInv
    <2>11. OneRowEach'
      BY <2>10, <1>10, OneRow, PTL
    <2>12. ASSUME NEW m \in Account, NEW n \in Nat, Arrived(m, n),
                  NEW a, a = n + Adds(e, m)
           PROVE  Arrived(m, a)'
      <3>1. PICK d \in Dir : d = m[3]
        BY AccountParts
      <3>2. /\ counted[m] \in Nat /\ lost[m] \in Nat
            /\ counted'[m] = counted[m] /\ lost'[m] = lost[m]
        BY <2>1, <1>5, <1>9
      <3>3. \A x : Paid(x, d)' = Paid(x, d)
        BY <1>5 DEF Paid
      <3>4. CASE m[1] = k.pid /\ m[2] = k.ip
        <4>1. a = n + b[d] /\ b[d] \in Nat
          BY <3>1, <3>4, <2>12, <1>8
        <4>2. k \in Rows(m)'
          BY <3>4, <2>2 DEF Rows
        <4>3. Rows(m)' = {k}
          BY <4>2, <2>11 DEF OneRowEach
        <4>4. n + b[d] = counted[m] + lost[m] + (flows'[k][d] - Paid(k, d))
          <5>1. CASE k \in DOMAIN flows
            <6>1. k \in Rows(m)
              BY <5>1, <3>4 DEF Rows
            <6>2. n = counted[m] + lost[m] + (flows[k][d] - Paid(k, d))
              BY <6>1, <3>1, <2>12 DEF Arrived
            <6>3. Paid(k, d) \in Nat /\ flows[k][d] \in Nat /\ flows'[k][d] = b[d] + flows[k][d]
              BY <5>1, <2>5 DEF Paid, ByteInv, RowInv, Bytes
            <6>4. QED
              BY <6>2, <6>3, <4>1, <3>2
          <5>2. CASE k \notin DOMAIN flows
            <6>1. Rows(m) = {}
              <7>1. Rows(m) \subseteq Rows(m)' /\ k \notin Rows(m)
                BY <5>2, <2>2 DEF Rows
              <7>2. QED
                BY <7>1, <4>3
            <6>2. n = counted[m] + lost[m]
              BY <6>1, <2>12 DEF Arrived
            <6>3. Paid(k, d) = 0 /\ flows'[k][d] = b[d]
              BY <5>2, <4>1, <2>5, <2>8 DEF Paid
            <6>4. QED
              BY <6>2, <6>3, <4>1, <3>2
          <5>3. QED
            BY <5>1, <5>2
        <4>5. QED
          BY <4>1, <4>3, <4>4, <3>1, <3>2, <3>3 DEF Arrived
      <3>5. CASE ~(m[1] = k.pid /\ m[2] = k.ip)
        <4>1. a = n
          BY <3>5, <2>12, <1>8
        <4>2. Rows(m)' = Rows(m) /\ k \notin Rows(m)
          BY <3>5, <2>2 DEF Rows
        <4>3. \A x \in Rows(m) : flows'[x] = flows[x]
          BY <4>2, <2>2 DEF Rows
        <4>4. Arrived(m, n)'
          BY <4>2, <4>3, <3>1, <3>2, <3>3, <2>12 DEF Arrived
        <4>5. QED
          BY <4>1, <4>4
      <3>6. QED
        BY <3>4, <3>5
    <2>13. QED
      BY <2>10, <2>12
  <1>13. QED
    BY <1>11, <1>12

\* Either way an event leaves the queue, its bytes have arrived.
LEMMA FeedBytes ==
    ASSUME ByteInv, NameInv, Feed \/ FeedNothing
    PROVE  RowInv' /\ WayInv'
  <1>1. PeerInv /\ queue # <<>> /\ queue' = Tail(queue) /\ moved' = moved
    BY DEF ByteInv, Feed, FeedNothing, world
  <1>2. /\ RowInv'
        /\ \A m \in Account : \A n \in Nat : \A a :
              (Arrived(m, n) /\ a = n + Adds(Head(queue), m)) => Arrived(m, a)'
    <2>1. CASE Feed
      BY <2>1, FeedArrives
    <2>2. CASE FeedNothing
      <3>1. UNCHANGED <<flows, base, counted, lost, warmup, dropped, refused>>
            /\ settled' \in {FALSE, settled}
        BY <2>2 DEF FeedNothing, acc, ticked
      <3>2. RowInv' /\ \A m, n : Arrived(m, n) => Arrived(m, n)'
        BY <3>1, RowsStay DEF ByteInv
      <3>3. \A m : \A n \in Nat : n + Adds(Head(queue), m) = n
        BY <2>2 DEF FeedNothing, Adds
      <3>4. QED
        BY <3>2, <3>3
    <2>3. QED
      BY <2>1, <2>2
  <1>3. ASSUME NEW m \in Account
        PROVE  \E s : Way(m, s)' /\ Arrived(m, s[0])'
    <2>1. PICK s : Way(m, s) /\ Arrived(m, s[0])
      BY DEF ByteInv, WayInv
    <2>2. s[0] \in Nat
      BY <2>1, <1>1 DEF Way, PeerInv
    <2>3. PICK w : Way(m, w)' /\ w[0] = s[0] + Adds(Head(queue), m)
      BY <2>1, <1>1, Popped
    <2>4. QED
      BY <2>1, <2>2, <2>3, <1>2
  <1>4. QED
    BY <1>2, <1>3 DEF WayInv

-----------------------------------------------------------------------------
\* A tick charges or discards what waits in a row, and no byte twice.
LEMMA TickBytes ==
    ASSUME ByteInv, NameInv, Tick
    PROVE  RowInv' /\ WayInv'
  <1>1. /\ counted' = [m \in Account |-> counted[m] + SumFunction(Charges(m))]
        /\ lost' = [m \in Account |-> lost[m] + SumFunction(Losses(m))]
        /\ base' = [k \in DOMAIN base \cup DOMAIN flows |->
                       IF k \in DOMAIN flows THEN flows[k] ELSE base[k]]
        /\ warmup' = FALSE
        /\ UNCHANGED <<flows, queue, moved, dropped, refused>>
    BY DEF Tick, acc, world
  <1>2. base' = flows
    <2>1. DOMAIN base \cup DOMAIN flows = DOMAIN flows /\ flows = [k \in DOMAIN flows |-> flows[k]]
      BY DEF ByteInv, RowInv
    <2>2. QED
      BY <2>1, <1>1
  <1>3. OneRowEach
    BY OneRow DEF ByteInv
  <1>4. ASSUME NEW m \in Account
        PROVE  /\ counted'[m] \in Nat /\ lost'[m] \in Nat
               /\ \A n : Arrived(m, n) => Arrived(m, n)'
    <2>1. counted[m] \in Nat /\ lost[m] \in Nat
      BY DEF ByteInv, RowInv
    <2>2. /\ counted'[m] = counted[m] + SumFunction(Charges(m))
          /\ lost'[m] = lost[m] + SumFunction(Losses(m))
      BY <1>1
    <2>3. Rows(m)' = Rows(m)
      BY <1>1 DEF Rows
    <2>4. DOMAIN Charges(m) = Rows(m) /\ DOMAIN Losses(m) = Rows(m)
      BY DEF Charges, Losses
    <2>5. CASE Rows(m) = {}
      <3>1. SumFunction(Charges(m)) = 0 /\ SumFunction(Losses(m)) = 0
        BY <2>4, <2>5, SumNone
      <3>2. counted'[m] = counted[m] /\ lost'[m] = lost[m]
        BY <3>1, <2>1, <2>2
      <3>3. QED
        BY <3>2, <2>1, <2>3, <2>5 DEF Arrived
    <2>6. ASSUME NEW k \in Rows(m)
          PROVE  /\ counted'[m] \in Nat /\ lost'[m] \in Nat
                 /\ \A n : Arrived(m, n) => Arrived(m, n)'
      <3>1. Rows(m) = {k}
        BY <1>3 DEF OneRowEach
      <3>2. PICK d \in Dir : d = m[3]
        BY AccountParts
      <3>3. \A c \in Dir :
              /\ k \in DOMAIN flows /\ flows[k][c] \in Nat
              /\ k \in DOMAIN base => base[k][c] \in Nat /\ base[k][c] <= flows[k][c] /\ ~warmup
        BY DEF Rows, ByteInv, RowInv, Bytes
      <3>4. Charges(m)[k] = Charged(k, d) /\ Losses(m)[k] = GivenUp(k, d)
        BY <3>2 DEF Charges, Losses
      <3>5. \A c \in Dir : /\ Waiting(k, c) = flows[k][c] - Paid(k, c)
                          /\ Waiting(k, c) \in Nat /\ Paid(k, c) \in Nat
                          /\ Fresh(k, c) = IF warmup THEN 0 ELSE Waiting(k, c)
        BY <3>3 DEF Fresh, Waiting, Paid
      <3>6. /\ Charged(k, d) \in Nat /\ GivenUp(k, d) \in Nat
            /\ Charged(k, d) + GivenUp(k, d) = flows[k][d] - Paid(k, d)
        <4>1. d \in {"out", "inb"} /\ "out" \in Dir
          BY <3>2 DEF Dir
        <4>2. CASE warmup
          BY <4>1, <4>2, <3>5 DEF Charged, GivenUp
        <4>3. CASE ~warmup
          BY <4>1, <4>3, <3>5 DEF Charged, GivenUp
        <4>4. QED
          BY <4>2, <4>3
      <3>7. SumFunction(Charges(m)) = Charged(k, d) /\ SumFunction(Losses(m)) = GivenUp(k, d)
        BY <3>1, <3>4, <3>6, <2>4, SumOne
      <3>8. /\ counted'[m] + lost'[m] = counted[m] + lost[m] + (flows[k][d] - Paid(k, d))
            /\ counted'[m] \in Nat /\ lost'[m] \in Nat
        <4>1. /\ counted'[m] = counted[m] + Charged(k, d)
              /\ lost'[m] = lost[m] + GivenUp(k, d)
          BY <3>7, <2>2
        <4>2. QED
          BY <4>1, <3>5, <3>6, <2>1
      <3>9. flows'[k][d] - Paid(k, d)' = 0
        <4>1. Paid(k, d)' = flows[k][d] /\ flows' = flows
          BY <3>3, <1>1, <1>2 DEF Paid
        <4>2. QED
          BY <4>1, <3>3
      <3>10. ASSUME NEW n, Arrived(m, n)
             PROVE  Arrived(m, n)'
        <4>1. n = counted[m] + lost[m] + (flows[k][d] - Paid(k, d))
          BY <3>2, <3>10 DEF Arrived
        <4>2. n = counted'[m] + lost'[m] + (flows'[k][d] - Paid(k, d)')
          BY <4>1, <3>8, <3>9
        <4>3. QED
          BY <4>2, <3>1, <3>2, <2>3 DEF Arrived
      <3>11. QED
        BY <3>8, <3>10
    <2>7. QED
      BY <2>5, <2>6, <2>1, <2>2
  <1>5. RowInv'
    <2>1. counted' = [m \in Account |-> counted'[m]] /\ lost' = [m \in Account |-> lost'[m]]
      <3>1. lost = [m \in Account |-> lost[m]]
        BY DEF ByteInv, RowInv
      <3>2. QED
        BY <3>1, <1>1
    <2>2. counted' \in [Account -> Nat] /\ lost' \in [Account -> Nat]
      BY <2>1, <1>4
    <2>3. \A k \in DOMAIN flows : \A d \in Dir : flows[k][d] <= flows[k][d]
      BY DEF ByteInv, RowInv, Bytes
    <2>4. /\ flows \in [DOMAIN flows -> Bytes]
          /\ \A k \in DOMAIN flows : k = [name |-> k.name, pid |-> k.pid, ip |-> k.ip]
          /\ dropped \in Nat /\ (dropped = 0 => refused = {})
      BY DEF ByteInv, RowInv
    <2>5. flows' = flows /\ dropped' = dropped /\ refused' = refused
      BY <1>1
    <2>6. QED
      BY <2>2, <2>3, <2>4, <2>5, <1>1, <1>2 DEF RowInv
  <1>6. ASSUME NEW m \in Account
        PROVE  \E s : Way(m, s)' /\ Arrived(m, s[0])'
    <2>1. PICK s : Way(m, s) /\ Arrived(m, s[0])
      BY DEF ByteInv, WayInv
    <2>2. Way(m, s)'
      BY <2>1, <1>1 DEF Way
    <2>3. QED
      BY <2>1, <2>2, <1>4
  <1>7. QED
    BY <1>5, <1>6 DEF WayInv

\* The machine's other steps touch neither bytes nor rows.
LEMMA IdleBytes ==
    ASSUME ByteInv,
           UNCHANGED <<flows, base, counted, lost, warmup, dropped, refused, settled, queue, moved>>
    PROVE  RowInv' /\ WayInv'
  <1>1. RowInv' /\ \A m, n : Arrived(m, n) => Arrived(m, n)'
    BY RowsStay DEF ByteInv
  <1>2. \A m, s : Way(m, s) => Way(m, s)'
    BY DEF Way
  <1>3. QED
    BY <1>1, <1>2 DEF ByteInv, WayInv

LEMMA StepBytes ==
    ASSUME ByteInv, NameInv, [Next]_vars
    PROVE  RowInv' /\ WayInv'
  <1>1. ASSUME NEW t \in Transfers, NEW p \in Pid, Move(t, p)
        PROVE  RowInv' /\ WayInv'
    BY <1>1, MoveBytes
  <1>2. CASE Feed \/ FeedNothing
    BY <1>2, FeedBytes
  <1>3. CASE Tick
    BY <1>3, TickBytes
  <1>4. ASSUME NEW p \in Pid, Exit(p) \/ \E n \in Name : Start(p, n)
        PROVE  RowInv' /\ WayInv'
    BY <1>4, IdleBytes DEF Exit, Start, acc, ticked
  <1>5. CASE Taken \/ UNCHANGED vars
    BY <1>5, IdleBytes DEF Taken, acc, ticked, world, vars
  <1>6. QED
    BY <1>1, <1>2, <1>3, <1>4, <1>5 DEF Next

LEMMA AlwaysBytes == Spec => [](RowInv /\ WayInv)
  <1>1. Init => RowInv /\ WayInv
    BY InitBytes
  <1>2. RowInv /\ WayInv /\ PeerInv /\ NameInv /\ [Next]_vars => (RowInv /\ WayInv)'
    BY StepBytes DEF ByteInv
  <1>3. QED
    BY <1>1, <1>2, AlwaysPeers, NameInvInductive, PTL DEF Spec

(* Every byte between a process and a peer is charged or given up at most  *)
(* once, and just once when its event is delivered and a tick has come, in *)
(* every order of transfers, late events, forgotten names, full tables and *)
(* ticks (FlowAccumulator.feed and snapshot, aggregate_flows over their    *)
(* cumulative rows); given up are what the warm-up discards, what a full   *)
(* table refuses, and what a row receives in a tick in which it sends      *)
(* nothing.                                                                *)
THEOREM EachByteOnceHolds == Spec => []EachByteOnce
  <1>1. RowInv /\ WayInv /\ PeerInv /\ NameInv => EachByteOnce
    <2> SUFFICES ASSUME RowInv, WayInv, PeerInv, NameInv
                 PROVE  EachByteOnce
      OBVIOUS
    <2>1. ASSUME NEW p \in Pid, NEW ip \in Peer, NEW d \in Dir
          PROVE  LET n == counted[p, ip, d] + lost[p, ip, d]
                 IN  /\ n <= moved[p, ip, d]
                     /\ (settled /\ queue = <<>>) => n = moved[p, ip, d]
      <3>1. PICK m \in Account : m = <<p, ip, d>>
        BY DEF Account
      <3>2. m[3] = d
        BY <3>1
      <3>3. PICK s : Way(m, s) /\ Arrived(m, s[0])
        BY DEF WayInv
      <3>4. PICK l \in Nat : l = Len(queue)
        BY DEF PeerInv
      <3>5. /\ s[0] \in Nat /\ s[0] <= moved[m] /\ s[l] = moved[m]
        BY <3>3, <3>4 DEF Way
      <3>6. /\ counted[m] \in Nat /\ lost[m] \in Nat /\ moved[m] \in Nat
        BY DEF RowInv, PeerInv
      <3>7. PICK n \in Nat : n = counted[m] + lost[m]
        BY <3>6
      <3>8. n <= s[0] /\ (settled => n = s[0])
        <4>1. CASE Rows(m) = {}
          BY <4>1, <3>3, <3>5, <3>7 DEF Arrived
        <4>2. ASSUME NEW k \in Rows(m)
              PROVE  n <= s[0] /\ (settled => n = s[0])
          <5>1. s[0] = counted[m] + lost[m] + (flows[k][d] - Paid(k, d))
            BY <3>2, <3>3 DEF Arrived
          <5>2. /\ flows[k][d] \in Nat /\ Paid(k, d) \in Nat /\ Paid(k, d) <= flows[k][d]
            BY DEF Rows, Paid, RowInv, Bytes
          <5>3. settled => Paid(k, d) = flows[k][d]
            BY DEF Rows, Paid, RowInv
          <5>4. QED
            BY <5>1, <5>2, <5>3, <3>6, <3>7
        <4>3. QED
          BY <4>1, <4>2
      <3>9. n <= moved[m]
        BY <3>5, <3>6, <3>8
      <3>10. ASSUME settled, queue = <<>>
             PROVE  n = moved[m]
        <4>1. l = 0
          BY <3>4, <3>10
        <4>2. QED
          BY <4>1, <3>5, <3>8, <3>10
      <3>11. QED
        BY <3>1, <3>7, <3>9, <3>10
    <2>2. dropped = 0 => refused = {}
      BY DEF RowInv
    <2>3. QED
      BY <2>1, <2>2 DEF EachByteOnce
  <1>2. QED
    BY <1>1, AlwaysBytes, AlwaysPeers, NameInvInductive, PTL
=============================================================================
