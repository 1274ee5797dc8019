---------------------------- MODULE IntakeProofs ----------------------------
(***************************************************************************)
(* Theorems about the two things a tick takes in.                          *)
(*                                                                         *)
(* FlowAccounting, the traffic: for every set of connections, every Ttl,   *)
(* every depth of the pipe and every machine.                              *)
(*                                                                         *)
(* ActivityTail, the declarations: for every number of lines and of        *)
(* rotations.  The two share no state; each theorem is about one of them.  *)
(***************************************************************************)
EXTENDS FlowAccounting, ActivityTail, SequenceTheorems, WellFoundedInduction,
        FiniteSetTheorems, TLAPS

Counter == 0 .. MaxCounted
Entry   == [b : Counter, age : 0 .. Ttl + 1]

\* No counter exceeds what was there at the start and was sent since.
CounterInv ==
    /\ total \in [Conn -> Nat] /\ sent \in [Conn -> Nat]
    /\ pre \in [Conn -> Starts \cup {0}]
    /\ \A c \in Conn : sent[c] <= MaxSent /\ total[c] <= pre[c] + sent[c]

\* Rows on their way through pipe and snapshot hold counters.
RowInv == /\ pipe \in Seq([conn : Conn, b : Counter])
          /\ latest \in [Conn -> Entry \cup {Absent}]

\* Until the warm-up is over, there is no baseline.
BookInv == /\ base \in [Conn -> Entry \cup {Absent}]
           /\ counted \in [Conn -> Counter] /\ seed \in [Conn -> Nat]
           /\ warmup \in BOOLEAN
           /\ warmup => \A c \in Conn : base[c] = Absent
           /\ NothingSkipped

SkipInv == CounterInv /\ RowInv /\ BookInv

LEMMA Numbers == /\ Ttl \in Nat /\ MaxSent \in Nat /\ MaxCounted \in Nat
                 /\ Steps \subseteq Nat /\ Starts \subseteq Nat
                 /\ \A s \in Starts \cup {0} : s + MaxSent <= MaxCounted
                 /\ Absent \notin Entry
  BY FlowAssumption DEF Entry, Counter

LEMMA StartsCount ==
    ASSUME NEW s \in Starts \cup {0}
    PROVE  s \in Nat /\ s + MaxSent <= MaxCounted
  <1>1. s + MaxSent <= MaxCounted
    BY FlowAssumption, Zenon
  <1>2. s \in Nat
    BY Numbers
  <1>3. QED
    BY <1>1, <1>2

\* Every counter that can be read is one that the history tells apart.
LEMMA TotalsCount ==
    ASSUME CounterInv, NEW c \in Conn
    PROVE  total[c] \in Counter
  <1>1. pre[c] \in Starts \cup {0} /\ sent[c] \in Nat /\ total[c] \in Nat
    BY DEF CounterInv
  <1>2. pre[c] \in Nat /\ pre[c] + MaxSent <= MaxCounted
    BY <1>1, StartsCount
  <1>3. sent[c] <= MaxSent /\ total[c] <= pre[c] + sent[c]
    BY DEF CounterInv
  <1>4. QED
    BY <1>1, <1>2, <1>3, Numbers DEF Counter

\* Growing older changes nothing but the age.
LEMMA OlderType ==
    ASSUME NEW x \in Entry \cup {Absent}, NEW d \in Nat
    PROVE  /\ Older(x, d) \in Entry \cup {Absent}
           /\ Older(x, d) = Absent <=> x = Absent
           /\ x # Absent => Older(x, d).b = x.b
  <1>1. CASE x = Absent
    BY <1>1 DEF Older
  <1>2. CASE x # Absent
    <2>1. x \in Entry /\ x.age \in 0 .. Ttl + 1 /\ Ttl \in Nat
      BY <1>2, Numbers DEF Entry
    <2> DEFINE a == IF x.age + d > Ttl THEN Ttl + 1 ELSE x.age + d
    <2>2. a \in 0 .. Ttl + 1
      BY <2>1
    <2>3. Older(x, d) = [x EXCEPT !.age = a]
      BY <1>2 DEF Older
    <2>4. Older(x, d) \in Entry /\ Older(x, d).b = x.b
      BY <2>1, <2>2, <2>3 DEF Entry
    <2>5. QED
      BY <2>4, <1>2, Numbers
  <1>3. QED
    BY <1>1, <1>2

\* What a tick works on are counters of connections.
LEMMA FlowsType ==
    ASSUME CounterInv, RowInv, NEW flows \in Flows
    PROVE  \A c \in DOMAIN flows : c \in Conn /\ flows[c] \in Counter
  <1>1. CASE flows = [c \in Fresh |-> latest[c].b]
    <2>1. ASSUME NEW c \in Fresh
          PROVE  c \in Conn /\ latest[c].b \in Counter
      BY DEF Fresh, RowInv, Entry
    <2>2. QED
      BY <1>1, <2>1
  <1>2. CASE flows = OneShot
    BY <1>2, TotalsCount DEF OneShot
  <1>3. CASE flows = <<>>
    BY <1>3
  <1>4. QED
    BY <1>1, <1>2, <1>3 DEF Flows

\* A counter that is seen is covered by what is counted then, unless it is
\* the warm-up that sees it first.
LEMMA DeltaCovers ==
    ASSUME NEW prev \in Entry \cup {Absent}, NEW tot \in Counter,
           NEW cold \in BOOLEAN, NEW n \in Counter, NEW s \in Nat,
           prev # Absent => prev.b <= n + s
    PROVE  /\ Delta(prev, tot, cold) \in Nat
           /\ Saturated(n + Delta(prev, tot, cold)) \in Counter
           /\ Saturated(n + Delta(prev, tot, cold)) >= n
           /\ (prev # Absent \/ ~cold) => tot <= Saturated(n + Delta(prev, tot, cold)) + s
  <1>1. MaxCounted \in Nat /\ tot \in Nat /\ n \in Nat /\ tot <= MaxCounted /\ n <= MaxCounted
    BY Numbers DEF Counter
  <1>2. CASE prev = Absent
    BY <1>1, <1>2 DEF Delta, Saturated, Counter
  <1>3. CASE prev # Absent
    <2>1. prev.b \in Nat
      BY <1>3, <1>1 DEF Entry, Counter
    <2>2. QED
      BY <2>1, <1>1, <1>3 DEF Delta, Saturated, Counter
  <1>4. QED
    BY <1>2, <1>3

\* What Sleep and Elapse do to the entries keeps the books.
LEMMA AgeingKeeps ==
    ASSUME RowInv, BookInv, NEW d \in Nat,
           latest' = [c \in Conn |-> Older(latest[c], d)],
           base' = [c \in Conn |-> Older(base[c], d)],
           UNCHANGED <<pipe, warmup, counted, seed>>
    PROVE  RowInv' /\ BookInv'
  <1>1. \A c \in Conn : latest[c] \in Entry \cup {Absent} /\ base[c] \in Entry \cup {Absent}
    BY DEF RowInv, BookInv
  <1>2. RowInv'
    BY <1>1, OlderType DEF RowInv
  <1>3. base' \in [Conn -> Entry \cup {Absent}]
    BY <1>1, OlderType
  <1>4. \A c \in Conn : base'[c] # Absent => base[c] # Absent /\ base'[c].b = base[c].b
    BY <1>1, OlderType
  <1>5. \A c \in Conn : base[c] = Absent => base'[c] = Absent
    BY <1>1, OlderType
  <1>6. QED
    BY <1>2, <1>3, <1>4, <1>5 DEF BookInv, NothingSkipped

-----------------------------------------------------------------------------
LEMMA InitSkip == Init => SkipInv
  <1> SUFFICES ASSUME Init PROVE SkipInv
    OBVIOUS
  <1>1. CounterInv
    <2>1. /\ total \in [Conn -> Starts \cup {0}] /\ pre = total
          /\ sent = [c \in Conn |-> 0]
      BY DEF Init
    <2>2. \A c \in Conn : total[c] \in Nat
      BY <2>1, StartsCount
    <2>3. total \in [Conn -> Nat]
      BY <2>1, <2>2
    <2>4. QED
      BY <2>1, <2>2, <2>3, Numbers DEF CounterInv
  <1>2. RowInv
    BY DEF Init, RowInv
  <1>3. BookInv
    BY Numbers DEF Init, BookInv, Counter, NothingSkipped
  <1>4. QED
    BY <1>1, <1>2, <1>3 DEF SkipInv

\* The kernel's counters restart at 0 and grow by what is sent.
LEMMA SocketsKeep ==
    ASSUME SkipInv, NEW c \in Conn, Send(c) \/ Close(c) \/ Open(c)
    PROVE  SkipInv'
  <1>1. CounterInv'
    <2>1. total \in [Conn -> Nat] /\ sent \in [Conn -> Nat]
          /\ pre \in [Conn -> Starts \cup {0}] /\ pre' = pre
          /\ MaxSent \in Nat
      BY Numbers DEF SkipInv, CounterInv, Send, Close, Open
    <2>2. \A d \in Conn : /\ sent[d] \in Nat /\ total[d] \in Nat /\ pre[d] \in Nat
                          /\ sent[d] <= MaxSent /\ total[d] <= pre[d] + sent[d]
      BY <2>1, StartsCount DEF SkipInv, CounterInv
    <2>3. CASE Send(c)
      <3>1. /\ total' = [total EXCEPT ![c] = total[c] + 1]
            /\ sent' = [sent EXCEPT ![c] = sent[c] + 1] /\ sent[c] < MaxSent
        BY <2>3 DEF Send
      <3>2. total' \in [Conn -> Nat] /\ sent' \in [Conn -> Nat]
        BY <3>1, <2>1, <2>2
      <3>3. \A d \in Conn : sent'[d] <= MaxSent /\ total'[d] <= pre[d] + sent'[d]
        BY <3>1, <2>1, <2>2
      <3>4. QED
        BY <3>2, <3>3, <2>1 DEF CounterInv
    <2>4. CASE Close(c)
      <3>1. total' = [total EXCEPT ![c] = 0] /\ sent' = sent
        BY <2>4 DEF Close
      <3>2. \A d \in Conn : sent'[d] <= MaxSent /\ total'[d] <= pre[d] + sent'[d]
        BY <3>1, <2>1, <2>2
      <3>3. QED
        BY <3>1, <3>2, <2>1 DEF CounterInv
    <2>5. CASE Open(c)
      BY <2>5 DEF Open, SkipInv, CounterInv
    <2>6. QED
      BY <2>3, <2>4, <2>5
  <1>2. UNCHANGED <<pipe, latest, base, warmup, counted, seed>>
    BY DEF Send, Close, Open, book
  <1>3. QED
    BY <1>1, <1>2 DEF SkipInv, RowInv, BookInv, NothingSkipped

\* Rows that pass from the kernel to the pipe to the snapshot stay counters.
LEMMA RowsKeep ==
    ASSUME SkipInv, Feed \/ \E c \in Conn : Emit(c)
    PROVE  SkipInv'
  <1>1. UNCHANGED <<total, sent, pre, base, warmup, counted, seed>>
    BY DEF Emit, Feed, env, book
  <1>2. RowInv'
    <2>1. CASE Feed
      <3> DEFINE r == Head(pipe)
      <3>1. r \in [conn : Conn, b : Counter] /\ Tail(pipe) \in Seq([conn : Conn, b : Counter])
        <4> DEFINE Row == [conn : Conn, b : Counter]
        <4>1. pipe \in Seq(Row) /\ pipe # <<>>
          BY <2>1 DEF Feed, SkipInv, RowInv
        <4> HIDE DEF Row
        <4>2. Head(pipe) \in Row /\ Tail(pipe) \in Seq(Row)
          BY <4>1
        <4>3. QED
          BY <4>2 DEF Row
      <3>2. [b |-> r.b, age |-> 0] \in Entry
        BY <3>1, Numbers DEF Entry
      <3>3. latest' = [latest EXCEPT ![r.conn] = [b |-> r.b, age |-> 0]] /\ pipe' = Tail(pipe)
        BY <2>1 DEF Feed
      <3> HIDE DEF r
      <3>4. QED
        BY <3>1, <3>2, <3>3 DEF SkipInv, RowInv
    <2>2. ASSUME NEW c \in Conn, Emit(c) PROVE RowInv'
      <3>1. [conn |-> c, b |-> total[c]] \in [conn : Conn, b : Counter]
        BY TotalsCount DEF SkipInv
      <3>2. pipe' = Append(pipe, [conn |-> c, b |-> total[c]]) /\ latest' = latest
        BY <2>2 DEF Emit
      <3>3. QED
        BY <3>1, <3>2 DEF SkipInv, RowInv
    <2>3. QED
      BY <2>1, <2>2
  <1>3. QED
    BY <1>1, <1>2 DEF SkipInv, CounterInv, BookInv, NothingSkipped

LEMMA AgeingKeepsAll ==
    ASSUME SkipInv, Sleep \/ \E d \in Steps : Elapse(d)
    PROVE  SkipInv'
  <1>1. UNCHANGED <<total, sent, pre>>
    BY DEF Sleep, Elapse, env
  <1>2. CASE Sleep
    <2>1. Ttl + 1 \in Nat
      BY Numbers
    <2>2. RowInv' /\ BookInv'
      BY <1>2, <2>1, AgeingKeeps DEF Sleep, SkipInv
    <2>3. QED
      BY <1>1, <2>2 DEF SkipInv, CounterInv
  <1>3. ASSUME NEW d \in Steps, Elapse(d) PROVE SkipInv'
    <2>1. d \in Nat
      BY Numbers
    <2>2. RowInv' /\ BookInv'
      BY <1>3, <2>1, AgeingKeeps DEF Elapse, SkipInv
    <2>3. QED
      BY <1>1, <2>2 DEF SkipInv, CounterInv
  <1>4. QED
    BY <1>2, <1>3

-----------------------------------------------------------------------------
\* The snapshot deletes rows; the reader's side is as it was.
LEMMA SnapshotKeeps ==
    ASSUME SkipInv, UNCHANGED <<total, sent, pre, pipe>>,
           latest' = [c \in Conn |-> IF c \in Fresh THEN latest[c] ELSE Absent]
    PROVE  CounterInv' /\ RowInv'
  BY DEF SkipInv, CounterInv, RowInv

\* What is charged to a connection only ever adds to what was counted.
LEMMA ChargeAdds ==
    ASSUME SkipInv, NEW flows \in Flows, NEW c \in DOMAIN flows
    PROVE  LET n == Saturated(counted[c] + Charged(flows)[c])
           IN  /\ c \in Conn /\ flows[c] \in Counter
               /\ n \in Counter /\ n >= counted[c]
               /\ (base[c] # Absent \/ ~warmup) => flows[c] <= n + seed[c]
  <1>1. c \in Conn /\ flows[c] \in Counter
    BY FlowsType DEF SkipInv
  <1>2. /\ base[c] \in Entry \cup {Absent} /\ counted[c] \in Counter
        /\ seed[c] \in Nat /\ warmup \in BOOLEAN
        /\ base[c] # Absent => base[c].b <= counted[c] + seed[c]
    BY <1>1 DEF SkipInv, BookInv, NothingSkipped
  <1>3. Charged(flows)[c] = Delta(base[c], flows[c], warmup)
    BY DEF Charged
  <1>4. QED
    BY <1>1, <1>2, <1>3, DeltaCovers

\* A tick: flows it worked on are covered by what it counted, or by the seed
\* of the warm-up; the others keep entry, count and seed.
LEMMA TickKeeps == ASSUME SkipInv, Tick PROVE SkipInv'
  <1>1. CounterInv' /\ RowInv'
    BY SnapshotKeeps DEF Tick, env
  <1>2. PICK flows \in Flows :
           /\ counted' = [c \in Conn |->
                 IF c \in DOMAIN flows THEN Saturated(counted[c] + Charged(flows)[c])
                 ELSE counted[c]]
           /\ base' = Rebase(flows)
           /\ seed' = IF warmup
                      THEN [c \in Conn |-> IF c \in DOMAIN flows THEN flows[c] ELSE 0]
                      ELSE seed
    BY DEF Tick
  <1>3. warmup' = FALSE
    BY DEF Tick
  <1>4. /\ base \in [Conn -> Entry \cup {Absent}] /\ counted \in [Conn -> Counter]
        /\ seed \in [Conn -> Nat] /\ warmup \in BOOLEAN
        /\ warmup => \A c \in Conn : base[c] = Absent
        /\ \A c \in Conn : base[c] # Absent => base[c].b <= counted[c] + seed[c]
    BY DEF SkipInv, BookInv, NothingSkipped
  <1>5. Counter \subseteq Nat /\ 0 \in 0 .. Ttl + 1 /\ Absent \notin Entry
    BY Numbers DEF Counter
  <1>6. ASSUME NEW c \in Conn
        PROVE  /\ counted'[c] \in Counter /\ seed'[c] \in Nat
               /\ base'[c] \in Entry \cup {Absent}
               /\ base'[c] # Absent => base'[c].b <= counted'[c] + seed'[c]
    <2>1. CASE c \in DOMAIN flows
      <3> DEFINE n == Saturated(counted[c] + Charged(flows)[c])
      <3>1. /\ flows[c] \in Counter /\ n \in Counter
            /\ (base[c] # Absent \/ ~warmup) => flows[c] <= n + seed[c]
        BY <2>1, ChargeAdds
      <3>2. counted'[c] = n
        BY <1>2, <2>1
      <3>3. base'[c] = [b |-> flows[c], age |-> 0]
        BY <1>2, <2>1 DEF Rebase
      <3>4. base'[c] \in Entry /\ base'[c].b = flows[c]
        BY <3>1, <3>3, <1>5 DEF Entry
      <3>5. seed'[c] = IF warmup THEN flows[c] ELSE seed[c]
        BY <1>2, <2>1
      <3> HIDE DEF n
      <3>6. flows[c] <= n + seed'[c] /\ seed'[c] \in Nat
        <4>1. flows[c] \in Nat /\ n \in Nat /\ seed[c] \in Nat
          BY <3>1, <1>4, <1>5
        <4>2. QED
          BY <4>1, <3>1, <3>5, <1>4
      <3>7. QED
        BY <3>1, <3>2, <3>4, <3>6
    <2>2. CASE c \notin DOMAIN flows
      <3>1. counted'[c] = counted[c]
        BY <1>2, <2>2
      <3>2. base'[c] = Absent \/ base'[c] = base[c]
        BY <1>2, <2>2 DEF Rebase
      <3>3. seed'[c] = IF warmup THEN 0 ELSE seed[c]
        BY <1>2, <2>2
      <3>4. QED
        BY <3>1, <3>2, <3>3, <1>4
    <2>3. QED
      BY <2>1, <2>2
  <1>7. /\ base' \in [Conn -> Entry \cup {Absent}] /\ counted' \in [Conn -> Counter]
        /\ seed' \in [Conn -> Nat]
    <2>1. base' = [c \in Conn |-> base'[c]]
      BY <1>2 DEF Rebase
    <2>2. counted' = [c \in Conn |-> counted'[c]]
      BY <1>2
    <2>3. seed' = [c \in Conn |-> seed'[c]]
      BY <1>2, <1>4
    <2>4. QED
      BY <2>1, <2>2, <2>3, <1>6
  <1>8. BookInv'
    BY <1>3, <1>6, <1>7 DEF BookInv, NothingSkipped
  <1>9. QED
    BY <1>1, <1>8 DEF SkipInv

\* A tick that throws leaves the baseline behind what it counted.
LEMMA TickThrowsKeeps == ASSUME SkipInv, TickThrows PROVE SkipInv'
  <1>1. CounterInv' /\ RowInv'
    BY SnapshotKeeps DEF TickThrows, env
  <1>2. PICK flows \in Flows :
         \E reached \in SUBSET {c \in DOMAIN flows : Charged(flows)[c] > 0} :
           counted' = [c \in Conn |->
               IF c \in reached THEN Saturated(counted[c] + Charged(flows)[c])
               ELSE counted[c]]
    BY DEF TickThrows
  <1>3. PICK reached \in SUBSET {c \in DOMAIN flows : Charged(flows)[c] > 0} :
           counted' = [c \in Conn |->
               IF c \in reached THEN Saturated(counted[c] + Charged(flows)[c])
               ELSE counted[c]]
    BY <1>2
  <1>4. UNCHANGED <<base, warmup, seed>>
    BY DEF TickThrows
  <1>5. /\ base \in [Conn -> Entry \cup {Absent}] /\ counted \in [Conn -> Counter]
        /\ seed \in [Conn -> Nat] /\ warmup \in BOOLEAN
        /\ warmup => \A c \in Conn : base[c] = Absent
        /\ \A c \in Conn : base[c] # Absent => base[c].b <= counted[c] + seed[c]
    BY DEF SkipInv, BookInv, NothingSkipped
  <1>6. ASSUME NEW c \in Conn
        PROVE  counted'[c] \in Counter /\ counted'[c] >= counted[c]
    <2>1. CASE c \in reached
      <3>1. c \in DOMAIN flows
        BY <2>1
      <3>2. counted'[c] = Saturated(counted[c] + Charged(flows)[c])
        BY <1>3, <2>1
      <3>3. QED
        BY <3>1, <3>2, ChargeAdds
    <2>2. CASE c \notin reached
      BY <2>2, <1>3, <1>5, Numbers DEF Counter
    <2>3. QED
      BY <2>1, <2>2
  <1>7. counted' \in [Conn -> Counter]
    BY <1>3, <1>6
  <1>8. \A c \in Conn : base'[c] # Absent => base'[c].b <= counted'[c] + seed'[c]
    <2>1. SUFFICES ASSUME NEW c \in Conn, base[c] # Absent
                   PROVE  base[c].b <= counted'[c] + seed[c]
      BY <1>4
    <2>2. base[c].b \in Nat /\ counted[c] \in Nat /\ counted'[c] \in Nat /\ seed[c] \in Nat
      BY <2>1, <1>5, <1>6, Numbers DEF Entry, Counter
    <2>3. QED
      BY <2>1, <2>2, <1>5, <1>6
  <1>9. BookInv'
    BY <1>4, <1>5, <1>7, <1>8 DEF BookInv, NothingSkipped
  <1>10. QED
    BY <1>1, <1>9 DEF SkipInv

LEMMA NextSkip == ASSUME SkipInv, [Next]_vars PROVE SkipInv'
  <1>1. CASE \E c \in Conn : Send(c) \/ Close(c) \/ Open(c)
    BY <1>1, SocketsKeep
  <1>2. CASE Feed \/ \E c \in Conn : Emit(c)
    BY <1>2, RowsKeep
  <1>3. CASE Sleep \/ \E d \in Steps : Elapse(d)
    BY <1>3, AgeingKeepsAll
  <1>4. CASE Tick
    BY <1>4, TickKeeps
  <1>5. CASE TickThrows
    BY <1>5, TickThrowsKeeps
  <1>6. CASE UNCHANGED vars
    BY <1>6 DEF vars, env, book, SkipInv, CounterInv, RowInv, BookInv, NothingSkipped
  <1>7. QED
    BY <1>1, <1>2, <1>3, <1>4, <1>5, <1>6 DEF Next

LEMMA SkipInvariant == Spec => []SkipInv
  BY InitSkip, NextSkip, PTL DEF Spec

(* Whatever a tick throws, whatever the stream or the fallback miss: the    *)
(* books of NettopStream, aggregate_flows and _tick never run ahead of what *)
(* was counted, for every set of connections and every Ttl.                 *)
THEOREM NothingSkippedHolds == Spec => []NothingSkipped
  <1>1. SkipInv => NothingSkipped
    BY DEF SkipInv, BookInv
  <1>2. QED
    BY <1>1, SkipInvariant, PTL

-----------------------------------------------------------------------------
(* Exactly-once accounting.                                                *)

\* No sleep past the TTL and no tick that throws; if rows may come late, there
\* is no one-shot sample that they could come later than.
Orderly(m) == ~m.sleeps /\ ~m.throws /\ (m.prompt \/ m.fallback = {"fails"})

Pending(c) == {i \in DOMAIN pipe : pipe[i].conn = c}
Heard(c)   == open[c] \/ Pending(c) # {}
Recent(x, q) == x # Absent /\ x.age <= q

\* Counters of closed sockets are gone; open ones are printed in time.
SocketInv == /\ machine \in Machines /\ open \in [Conn -> BOOLEAN]
             /\ \A c \in Conn : ~open[c] => total[c] = 0
             /\ quiet \in [Conn -> 0 .. RowGap]

\* What is seen of a connection never exceeds what it has reached.
ReachedInv ==
    \A c \in Conn :
       LET reached == pre[c] + sent[c]
       IN  /\ \A i \in Pending(c) : pipe[i].b <= reached
           /\ latest[c] # Absent => latest[c].b <= reached
           /\ base[c] # Absent => base[c].b <= reached

\* What is seen of one socket comes in the order of its counter: baseline,
\* snapshot, pipe, kernel.
OrderInv(c) ==
    /\ \A i \in Pending(c) :
          /\ base[c] # Absent => base[c].b <= pipe[i].b
          /\ latest[c] # Absent => latest[c].b <= pipe[i].b
          /\ \A j \in Pending(c) : i < j => pipe[i].b <= pipe[j].b
          /\ open[c] => pipe[i].b <= total[c]
    /\ base[c] # Absent /\ latest[c] # Absent => base[c].b <= latest[c].b
    /\ open[c] /\ base[c] # Absent => base[c].b <= total[c]
    /\ open[c] /\ latest[c] # Absent => latest[c].b <= total[c]

\* As long as more may be heard of a connection, its baseline is kept: by a
\* row in the snapshot or by its own age, unless it says nothing.
KeptInv(c) ==
    /\ Heard(c) /\ base[c] # Absent =>
          base[c].b = 0 \/ Recent(latest[c], quiet[c]) \/ Recent(base[c], quiet[c])
    /\ (Heard(c) \/ latest[c] # Absent) /\ base[c] = Absent =>
          counted[c] = 0 /\ seed[c] = 0
    /\ counted[c] + seed[c] <= pre[c] + sent[c]

\* Nothing is counted before the warm-up is over.
WarmInv == warmup => \A c \in Conn : counted[c] = 0 /\ seed[c] = 0

PerSocketInv == \A c \in Conn \ reused : OrderInv(c) /\ KeptInv(c)

ExactInv == SocketInv /\ ReachedInv /\ WarmInv /\ PerSocketInv /\ CountedExactlyOnce

LEMMA Values ==
    ASSUME SkipInv, NEW c \in Conn
    PROVE  /\ total[c] \in Nat /\ sent[c] \in Nat /\ pre[c] \in Nat
           /\ counted[c] \in Nat /\ counted[c] <= MaxCounted /\ seed[c] \in Nat
           /\ total[c] <= pre[c] + sent[c] /\ pre[c] + sent[c] <= MaxCounted
           /\ \A i \in DOMAIN pipe : pipe[i].conn \in Conn /\ pipe[i].b \in Nat
           /\ latest[c] # Absent => /\ latest[c] \in Entry /\ latest[c].b \in Nat
                                    /\ latest[c].age \in 0 .. Ttl + 1
           /\ base[c] # Absent => /\ base[c] \in Entry /\ base[c].b \in Nat
                                  /\ base[c].age \in 0 .. Ttl + 1
  <1>1. /\ total[c] \in Nat /\ sent[c] \in Nat /\ pre[c] \in Nat
        /\ total[c] <= pre[c] + sent[c] /\ pre[c] + sent[c] <= MaxCounted
    <2>1. pre[c] \in Starts \cup {0} /\ sent[c] \in Nat /\ total[c] \in Nat
          /\ sent[c] <= MaxSent /\ total[c] <= pre[c] + sent[c]
      BY DEF SkipInv, CounterInv
    <2>2. pre[c] \in Nat /\ pre[c] + MaxSent <= MaxCounted
      BY <2>1, StartsCount
    <2>3. QED
      BY <2>1, <2>2, Numbers
  <1>2. counted[c] \in Nat /\ counted[c] <= MaxCounted /\ seed[c] \in Nat
    BY Numbers DEF SkipInv, BookInv, Counter
  <1>3. \A i \in DOMAIN pipe : pipe[i].conn \in Conn /\ pipe[i].b \in Nat
    <2> DEFINE Row == [conn : Conn, b : Counter]
    <2>1. pipe \in Seq(Row)
      BY DEF SkipInv, RowInv
    <2>2. \A r \in Row : r.conn \in Conn /\ r.b \in Nat
      BY DEF Counter
    <2> HIDE DEF Row
    <2>3. \A i \in DOMAIN pipe : pipe[i] \in Row
      BY <2>1
    <2>4. QED
      BY <2>2, <2>3
  <1>4. /\ latest[c] # Absent => /\ latest[c] \in Entry /\ latest[c].b \in Nat
                                 /\ latest[c].age \in 0 .. Ttl + 1
        /\ base[c] # Absent => /\ base[c] \in Entry /\ base[c].b \in Nat
                               /\ base[c].age \in 0 .. Ttl + 1
    BY DEF SkipInv, RowInv, BookInv, Entry, Counter
  <1>5. QED
    BY <1>1, <1>2, <1>3, <1>4

LEMMA InitExact == ASSUME Init PROVE ExactInv
  <1>1. SkipInv
    BY InitSkip
  <1>2. /\ pipe = <<>> /\ machine \in Machines /\ open \in [Conn -> BOOLEAN]
        /\ \A c \in Conn : open[c] \/ total[c] = 0
        /\ \A c \in Conn : /\ latest[c] = Absent /\ base[c] = Absent /\ quiet[c] = 0
                           /\ counted[c] = 0 /\ seed[c] = 0
        /\ quiet = [c \in Conn |-> 0]
    BY DEF Init
  <1>3. \A c \in Conn : Pending(c) = {}
    BY <1>2 DEF Pending
  <1>4. SocketInv
    BY <1>2, FlowAssumption DEF SocketInv
  <1>5. \A c \in Conn : counted[c] + seed[c] <= pre[c] + sent[c]
    BY <1>1, <1>2, Values
  <1>6. ReachedInv /\ WarmInv /\ PerSocketInv /\ CountedExactlyOnce
    BY <1>2, <1>3, <1>5 DEF ReachedInv, WarmInv, PerSocketInv, OrderInv, KeptInv, CountedExactlyOnce
  <1>7. QED
    BY <1>4, <1>6 DEF ExactInv

LEMMA SendExact ==
    ASSUME SkipInv, ExactInv, NEW c \in Conn, Send(c)
    PROVE  ExactInv'
  <1>1. /\ open[c] /\ UNCHANGED <<machine, open, pre, reused, pipe, quiet, latest,
                                  base, warmup, counted, seed>>
        /\ \A d \in Conn : /\ total'[d] = IF d = c THEN total[d] + 1 ELSE total[d]
                           /\ sent'[d] = IF d = c THEN sent[d] + 1 ELSE sent[d]
    BY DEF Send, book, SkipInv, CounterInv
  <1>2. SocketInv' /\ WarmInv' /\ CountedExactlyOnce'
    BY <1>1 DEF ExactInv, SocketInv, WarmInv, CountedExactlyOnce
  <1>3. ASSUME NEW d \in Conn
        PROVE  /\ Pending(d)' = Pending(d)
               /\ total'[d] >= total[d] /\ sent'[d] >= sent[d]
               /\ total'[d] \in Nat /\ sent'[d] \in Nat
    BY <1>1, Values DEF Pending
  <1>4. ReachedInv'
    <2> SUFFICES ASSUME NEW d \in Conn
                 PROVE  /\ \A i \in Pending(d) : pipe[i].b <= pre[d] + sent'[d]
                        /\ latest[d] # Absent => latest[d].b <= pre[d] + sent'[d]
                        /\ base[d] # Absent => base[d].b <= pre[d] + sent'[d]
      BY <1>1, <1>3 DEF ReachedInv
    <2>1. /\ \A i \in Pending(d) : pipe[i].b <= pre[d] + sent[d]
          /\ latest[d] # Absent => latest[d].b <= pre[d] + sent[d]
          /\ base[d] # Absent => base[d].b <= pre[d] + sent[d]
      BY DEF ExactInv, ReachedInv
    <2>2. \A i \in Pending(d) : pipe[i].b \in Nat
      BY Values DEF Pending
    <2>3. QED
      BY <2>1, <2>2, <1>3, Values
  <1>5. PerSocketInv'
    <2> SUFFICES ASSUME NEW d \in Conn \ reused PROVE OrderInv(d)' /\ KeptInv(d)'
      BY <1>1 DEF PerSocketInv
    <2>1. OrderInv(d) /\ KeptInv(d)
      BY DEF ExactInv, PerSocketInv
    <2>2. KeptInv(d)'
      BY <2>1, <1>1, <1>3, Values DEF KeptInv, Heard, Recent
    <2>3. \A i \in Pending(d) : pipe[i].b \in Nat
      BY Values DEF Pending
    <2>4. OrderInv(d)'
      BY <2>1, <2>3, <1>1, <1>3, Values DEF OrderInv
    <2>5. QED
      BY <2>2, <2>4
  <1>6. QED
    BY <1>2, <1>4, <1>5 DEF ExactInv

LEMMA CloseExact ==
    ASSUME SkipInv, ExactInv, NEW c \in Conn, Close(c)
    PROVE  ExactInv'
  <1>1. /\ open[c] /\ UNCHANGED <<machine, sent, pre, reused, pipe, quiet, latest,
                                  base, warmup, counted, seed>>
        /\ open' = [open EXCEPT ![c] = FALSE]
        /\ \A d \in Conn : total'[d] = IF d = c THEN 0 ELSE total[d]
    BY DEF Close, book, SkipInv, CounterInv
  <1>2. /\ open' \in [Conn -> BOOLEAN]
        /\ \A d \in Conn : open'[d] = IF d = c THEN FALSE ELSE open[d]
    BY <1>1 DEF ExactInv, SocketInv
  <1>3. SocketInv' /\ WarmInv' /\ CountedExactlyOnce'
    BY <1>1, <1>2 DEF ExactInv, SocketInv, WarmInv, CountedExactlyOnce
  <1>4. \A d \in Conn : Pending(d)' = Pending(d)
    BY <1>1 DEF Pending
  <1>5. ReachedInv'
    BY <1>1, <1>4 DEF ExactInv, ReachedInv
  <1>6. ASSUME NEW d \in Conn \ reused PROVE OrderInv(d)' /\ KeptInv(d)'
    <2>1. OrderInv(d) /\ KeptInv(d)
      BY DEF ExactInv, PerSocketInv
    <2>2. open'[d] => open[d] /\ total'[d] = total[d]
      BY <1>1, <1>2
    <2>3. QED
      BY <2>1, <2>2, <1>1, <1>4 DEF OrderInv, KeptInv, Heard
  <1>7. QED
    BY <1>1, <1>3, <1>5, <1>6 DEF ExactInv, PerSocketInv

\* A key is opened again for the same connection only if it never counted.
LEMMA OpenExact ==
    ASSUME SkipInv, ExactInv, NEW c \in Conn, Open(c)
    PROVE  ExactInv'
  <1>1. /\ ~open[c] /\ UNCHANGED <<machine, total, sent, pre, pipe, latest,
                                   base, warmup, counted, seed>>
        /\ reused' = IF pre[c] + sent[c] > 0 THEN reused \cup {c} ELSE reused
        /\ open' = [open EXCEPT ![c] = TRUE] /\ quiet' = [quiet EXCEPT ![c] = 0]
    BY DEF Open, book
  <1>2. /\ open' \in [Conn -> BOOLEAN] /\ quiet' \in [Conn -> 0 .. RowGap]
        /\ \A d \in Conn : /\ open'[d] = IF d = c THEN TRUE ELSE open[d]
                           /\ quiet'[d] = IF d = c THEN 0 ELSE quiet[d]
    BY <1>1, FlowAssumption DEF ExactInv, SocketInv
  <1>3. SocketInv' /\ WarmInv' /\ CountedExactlyOnce'
    <2>1. SocketInv' /\ WarmInv'
      BY <1>1, <1>2 DEF ExactInv, SocketInv, WarmInv
    <2>2. CountedExactlyOnce'
      BY <1>1 DEF ExactInv, CountedExactlyOnce
    <2>3. QED
      BY <2>1, <2>2
  <1>4. \A d \in Conn : Pending(d)' = Pending(d)
    BY <1>1 DEF Pending
  <1>5. ReachedInv'
    BY <1>1, <1>4 DEF ExactInv, ReachedInv
  <1>6. ASSUME NEW d \in Conn, d \notin reused' PROVE OrderInv(d)' /\ KeptInv(d)'
    <2>1. OrderInv(d) /\ KeptInv(d)
      BY <1>1, <1>6 DEF ExactInv, PerSocketInv
    <2>2. CASE d # c
      BY <2>1, <2>2, <1>1, <1>2, <1>4 DEF OrderInv, KeptInv, Heard
    <2>3. CASE d = c
      <3>1. pre[c] + sent[c] = 0 /\ total[c] = 0
        BY <2>3, <1>1, <1>6, Values DEF ExactInv, SocketInv
      <3>2. \A i \in Pending(c) : pipe[i].b = 0
        BY <3>1, Values DEF ExactInv, ReachedInv, Pending
      <3>3. /\ latest[c] # Absent => latest[c].b = 0
            /\ base[c] # Absent => base[c].b = 0
        BY <3>1, Values DEF ExactInv, ReachedInv
      <3>4. OrderInv(c)'
        BY <2>1, <2>3, <3>1, <3>2, <3>3, <1>1, <1>4 DEF OrderInv
      <3>5. counted[c] = 0 /\ seed[c] = 0
        BY <2>1, <2>3, <3>1, Values DEF KeptInv
      <3>6. KeptInv(c)'
        BY <2>1, <2>3, <3>3, <3>5, <1>1 DEF KeptInv
      <3>7. QED
        BY <2>3, <3>4, <3>6
    <2>4. QED
      BY <2>2, <2>3
  <1>7. QED
    BY <1>3, <1>5, <1>6 DEF ExactInv, PerSocketInv

LEMMA EmitExact ==
    ASSUME SkipInv, ExactInv, NEW c \in Conn, Emit(c)
    PROVE  ExactInv'
  <1> DEFINE n == Len(pipe) + 1
  <1>1. /\ open[c] /\ UNCHANGED <<machine, open, total, sent, pre, reused, quiet,
                                  latest, base, warmup, counted, seed>>
    BY DEF Emit, env, book
  <1>2. /\ pipe'[n] = [conn |-> c, b |-> total[c]] /\ n \in Nat /\ DOMAIN pipe' = 1 .. n
        /\ DOMAIN pipe = 1 .. n - 1 /\ \A i \in DOMAIN pipe : pipe'[i] = pipe[i]
    <2> DEFINE Row == [conn : Conn, b : Counter]
    <2>1. pipe \in Seq(Row) /\ [conn |-> c, b |-> total[c]] \in Row
      BY TotalsCount DEF SkipInv, RowInv
    <2>2. pipe' = Append(pipe, [conn |-> c, b |-> total[c]])
      BY DEF Emit
    <2> HIDE DEF Row
    <2>3. QED
      BY <2>1, <2>2
  <1>3. ASSUME NEW d \in Conn
        PROVE  Pending(d)' = Pending(d) \cup (IF d = c THEN {n} ELSE {})
    BY <1>2 DEF Pending
  <1>4. SocketInv' /\ WarmInv' /\ CountedExactlyOnce'
    BY <1>1 DEF ExactInv, SocketInv, WarmInv, CountedExactlyOnce
  <1>5. ReachedInv'
    <2> SUFFICES ASSUME NEW d \in Conn
                 PROVE  /\ \A i \in Pending(d)' : pipe'[i].b <= pre[d] + sent[d]
                        /\ latest[d] # Absent => latest[d].b <= pre[d] + sent[d]
                        /\ base[d] # Absent => base[d].b <= pre[d] + sent[d]
      BY <1>1 DEF ReachedInv
    <2>1. \A i \in Pending(d) : pipe'[i] = pipe[i] /\ pipe[i].b <= pre[d] + sent[d]
      BY <1>2 DEF ExactInv, ReachedInv, Pending
    <2>2. d = c => pipe'[n].b <= pre[d] + sent[d]
      BY <1>2, Values
    <2>3. QED
      BY <2>1, <2>2, <1>3 DEF ExactInv, ReachedInv
  <1>6. ASSUME NEW d \in Conn \ reused PROVE OrderInv(d)' /\ KeptInv(d)'
    <2>1. OrderInv(d) /\ KeptInv(d)
      BY DEF ExactInv, PerSocketInv
    <2>2. \A i \in Pending(d) : pipe'[i] = pipe[i] /\ i \in 1 .. n - 1
      BY <1>2 DEF Pending
    <2>3. CASE d # c
      BY <2>1, <2>2, <2>3, <1>1, <1>3 DEF OrderInv, KeptInv, Heard
    <2>4. CASE d = c
      <3>1. Pending(d)' = Pending(d) \cup {n} /\ pipe'[n].b = total[d] /\ open[d]
        BY <1>1, <1>2, <1>3, <2>4
      <3>2. \A i, j \in Pending(d)' : i < j => i \in Pending(d)
        BY <3>1, <2>2
      <3>3. OrderInv(d)'
        <4>1. \A i \in Pending(d) : /\ base[d] # Absent => base[d].b <= pipe[i].b
                                    /\ latest[d] # Absent => latest[d].b <= pipe[i].b
                                    /\ pipe[i].b <= total[d]
          BY <2>1, <3>1 DEF OrderInv
        <4>2. \A i, j \in Pending(d) : i < j => pipe[i].b <= pipe[j].b
          BY <2>1 DEF OrderInv
        <4>3. /\ base[d] # Absent => base[d].b <= total[d]
              /\ latest[d] # Absent => latest[d].b <= total[d]
              /\ base[d] # Absent /\ latest[d] # Absent => base[d].b <= latest[d].b
          BY <2>1, <3>1 DEF OrderInv
        <4>4. total[d] <= total[d]
          BY Values
        <4>5. \A i \in Pending(d)' : /\ base[d] # Absent => base[d].b <= pipe'[i].b
                                     /\ latest[d] # Absent => latest[d].b <= pipe'[i].b
                                     /\ pipe'[i].b <= total[d]
          BY <3>1, <4>1, <4>3, <4>4, <2>2
        <4>6. \A i, j \in Pending(d)' : i < j => pipe'[i].b <= pipe'[j].b
          BY <3>1, <3>2, <4>1, <4>2, <2>2
        <4>7. QED
          BY <4>3, <4>5, <4>6, <1>1 DEF OrderInv
      <3>4. KeptInv(d)'
        BY <2>1, <3>1, <1>1 DEF KeptInv, Heard
      <3>5. QED
        BY <3>3, <3>4
    <2>5. QED
      BY <2>3, <2>4
  <1>7. QED
    BY <1>1, <1>4, <1>5, <1>6 DEF ExactInv, PerSocketInv

\* What the reader thread does with the first row of the pipe, of c with
\* counter v; the other rows move up.
Fed(c, v) ==
    /\ UNCHANGED <<machine, open, total, sent, pre, reused, base, warmup, counted, seed>>
    /\ \A d \in Conn : /\ latest'[d] = IF d = c THEN [b |-> v, age |-> 0] ELSE latest[d]
                       /\ quiet'[d] = IF d = c THEN 0 ELSE quiet[d]
                       /\ \A i \in Pending(d)' : i + 1 \in Pending(d) /\ pipe'[i] = pipe[i + 1]
                                                /\ i \in Nat \ {0}
                       /\ d # c => \A i \in Pending(d) : i - 1 \in Pending(d)'
                       /\ d = c => 1 \in Pending(d) /\ pipe[1].b = v

LEMMA FeedFacts ==
    ASSUME SkipInv, SocketInv, Feed
    PROVE  /\ \E c \in Conn, v \in Counter : Fed(c, v)
           /\ SocketInv'
           /\ \A i \in DOMAIN pipe' : i + 1 \in DOMAIN pipe
  <1> DEFINE c == pipe[1].conn
             v == pipe[1].b
             n == Len(pipe)
  <1>1. /\ n \in Nat \ {0} /\ DOMAIN pipe = 1 .. n /\ DOMAIN pipe' = 1 .. n - 1
        /\ \A i \in 1 .. n - 1 : pipe'[i] = pipe[i + 1]
        /\ c \in Conn /\ v \in Counter /\ Head(pipe) = pipe[1]
    <2> DEFINE Row == [conn : Conn, b : Counter]
    <2>1. pipe \in Seq(Row) /\ pipe # <<>> /\ pipe' = Tail(pipe)
      BY DEF SkipInv, RowInv, Feed
    <2>2. \A r \in Row : r.conn \in Conn /\ r.b \in Counter
      OBVIOUS
    <2> HIDE DEF Row
    <2>3. n \in Nat \ {0} /\ DOMAIN pipe = 1 .. n /\ pipe[1] \in Row /\ Head(pipe) = pipe[1]
      BY <2>1
    <2>4. DOMAIN pipe' = 1 .. n - 1 /\ \A i \in 1 .. n - 1 : pipe'[i] = pipe[i + 1]
      BY <2>1
    <2>5. QED
      BY <2>2, <2>3, <2>4
  <1>2. /\ UNCHANGED <<machine, open, total, sent, pre, reused, base, warmup, counted, seed>>
        /\ latest' = [latest EXCEPT ![c] = [b |-> v, age |-> 0]]
        /\ quiet' = [quiet EXCEPT ![c] = 0]
    BY <1>1 DEF Feed, env, book
  <1> HIDE DEF c, v, n
  <1>3. /\ \A d \in Conn : /\ latest'[d] = IF d = c THEN [b |-> v, age |-> 0] ELSE latest[d]
                           /\ quiet'[d] = IF d = c THEN 0 ELSE quiet[d]
        /\ quiet' \in [Conn -> 0 .. RowGap]
    BY <1>1, <1>2, FlowAssumption DEF SkipInv, RowInv, SocketInv
  <1>4. ASSUME NEW d \in Conn
        PROVE  /\ \A i \in Pending(d)' : /\ i + 1 \in Pending(d) /\ pipe'[i] = pipe[i + 1]
                                         /\ i \in 1 .. n - 1
               /\ d # c => \A i \in Pending(d) : i - 1 \in Pending(d)'
               /\ d = c => 1 \in Pending(d) /\ pipe[1].b = v
    <2>1. \A i \in Pending(d)' : i \in 1 .. n - 1 /\ pipe'[i].conn = d
      BY <1>1 DEF Pending
    <2>2. \A i \in Pending(d) : i \in 1 .. n /\ pipe[i].conn = d
      BY <1>1 DEF Pending
    <2>3. \A i \in 1 .. n - 1 : i + 1 \in 1 .. n /\ pipe'[i] = pipe[i + 1]
      BY <1>1
    <2>4. d = c => 1 \in Pending(d) /\ pipe[1].b = v
      BY <1>1 DEF Pending, c, v
    <2>5. \A i \in Pending(d)' : i + 1 \in Pending(d)
      BY <2>1, <2>3, <1>1 DEF Pending
    <2>6. d # c => \A i \in Pending(d) : i - 1 \in Pending(d)'
      <3> SUFFICES ASSUME d # c, NEW i \in Pending(d) PROVE i - 1 \in Pending(d)'
        OBVIOUS
      <3>1. i \in 1 .. n /\ i # 1 /\ pipe[i].conn = d
        BY <2>2 DEF c
      <3>2. i - 1 \in 1 .. n - 1 /\ (i - 1) + 1 = i
        BY <3>1, <1>1
      <3>3. pipe'[i - 1] = pipe[i]
        BY <3>2, <2>3
      <3>4. QED
        BY <3>1, <3>2, <3>3, <1>1 DEF Pending
    <2>7. QED
      BY <2>1, <2>3, <2>4, <2>5, <2>6
  <1>5. \A i \in DOMAIN pipe' : i + 1 \in DOMAIN pipe
    BY <1>1
  <1>6. SocketInv'
    BY <1>2, <1>3 DEF SocketInv
  <1>7. Fed(c, v)
    <2>1. \A d \in Conn : \A i \in Pending(d)' : i \in Nat \ {0}
      BY <1>4, <1>1
    <2>2. QED
      BY <1>2, <1>3, <1>4, <2>1 DEF Fed
  <1>8. QED
    BY <1>1, <1>5, <1>6, <1>7

LEMMA FeedExact ==
    ASSUME SkipInv, ExactInv, Feed
    PROVE  ExactInv'
  <1>1. PICK c \in Conn, v \in Counter : Fed(c, v)
    BY FeedFacts DEF ExactInv
  <1>2. UNCHANGED <<machine, open, total, sent, pre, reused, base, warmup, counted, seed>>
    BY <1>1 DEF Fed
  <1>3. \A d \in Conn : /\ latest'[d] = IF d = c THEN [b |-> v, age |-> 0] ELSE latest[d]
                        /\ quiet'[d] = IF d = c THEN 0 ELSE quiet[d]
    BY <1>1 DEF Fed
  <1>4. ASSUME NEW d \in Conn
        PROVE  /\ \A i \in Pending(d)' : /\ i + 1 \in Pending(d) /\ pipe'[i] = pipe[i + 1]
                                         /\ i \in Nat \ {0}
               /\ d # c => \A i \in Pending(d) : i - 1 \in Pending(d)'
               /\ d = c => 1 \in Pending(d) /\ pipe[1].b = v
    BY <1>1 DEF Fed
  <1>5. SocketInv' /\ WarmInv' /\ CountedExactlyOnce'
    BY <1>2, FeedFacts DEF ExactInv, WarmInv, CountedExactlyOnce
  <1>6. ReachedInv'
    <2> SUFFICES ASSUME NEW d \in Conn
                 PROVE  /\ \A i \in Pending(d)' : pipe'[i].b <= pre[d] + sent[d]
                        /\ latest'[d] # Absent => latest'[d].b <= pre[d] + sent[d]
                        /\ base[d] # Absent => base[d].b <= pre[d] + sent[d]
      BY <1>2 DEF ReachedInv
    <2>1. /\ \A i \in Pending(d) : pipe[i].b <= pre[d] + sent[d]
          /\ latest[d] # Absent => latest[d].b <= pre[d] + sent[d]
          /\ base[d] # Absent => base[d].b <= pre[d] + sent[d]
      BY DEF ExactInv, ReachedInv
    <2>2. QED
      BY <2>1, <1>3, <1>4
  <1>7. ASSUME NEW d \in Conn \ reused PROVE OrderInv(d)' /\ KeptInv(d)'
    <2>1. OrderInv(d) /\ KeptInv(d)
      BY DEF ExactInv, PerSocketInv
    <2>2. \A i, j \in Pending(d)' : i < j => i + 1 < j + 1
      BY <1>4
    <2>3. OrderInv(d)'
      <3>1. \A i \in Pending(d)' : 1 < i + 1
        BY <1>4, <1>1
      <3>2. ASSUME NEW i \in Pending(d)'
            PROVE  /\ base[d] # Absent => base[d].b <= pipe'[i].b
                   /\ latest'[d] # Absent => latest'[d].b <= pipe'[i].b
                   /\ \A j \in Pending(d)' : i < j => pipe'[i].b <= pipe'[j].b
                   /\ open[d] => pipe'[i].b <= total[d]
        <4>1. i + 1 \in Pending(d) /\ pipe'[i] = pipe[i + 1]
          BY <1>4
        <4>2. d = c => v <= pipe[i + 1].b
          BY <2>1, <4>1, <3>1, <1>4 DEF OrderInv
        <4>3. QED
          BY <2>1, <2>2, <4>1, <4>2, <1>3, <1>4 DEF OrderInv
      <3>3. /\ base[d] # Absent /\ latest'[d] # Absent => base[d].b <= latest'[d].b
            /\ open[d] /\ latest'[d] # Absent => latest'[d].b <= total[d]
        BY <2>1, <1>3, <1>4 DEF OrderInv
      <3>4. QED
        BY <2>1, <3>2, <3>3, <1>2 DEF OrderInv
    <2>4. KeptInv(d)'
      <3>1. CASE d = c
        <4>1. latest'[d].age = 0 /\ quiet'[d] = 0
          BY <3>1, <1>3
        <4>2. Recent(latest[d], quiet[d])' \/ latest'[d] = Absent
          BY <4>1 DEF Recent
        <4>3. Heard(d)
          BY <3>1, <1>4 DEF Heard
        <4>4. latest'[d] # Absent
          BY <3>1, <1>3, <1>1, Numbers DEF Entry
        <4>5. QED
          BY <2>1, <4>2, <4>3, <4>4, <1>2 DEF KeptInv
      <3>2. CASE d # c
        <4>1. Heard(d)' <=> Heard(d)
          BY <3>2, <1>2, <1>4 DEF Heard
        <4>2. latest'[d] = latest[d] /\ quiet'[d] = quiet[d]
          BY <3>2, <1>3
        <4>3. QED
          BY <2>1, <4>1, <4>2, <1>2 DEF KeptInv, Recent
      <3>3. QED
        BY <3>1, <3>2
    <2>5. QED
      BY <2>3, <2>4
  <1>8. QED
    BY <1>2, <1>5, <1>6, <1>7 DEF ExactInv, PerSocketInv

LEMMA OlderAge ==
    ASSUME NEW x \in Entry, NEW d \in Nat, x.age + d <= Ttl
    PROVE  Older(x, d) # Absent /\ Older(x, d).age = x.age + d
  <1>1. x # Absent /\ x.age \in 0 .. Ttl + 1 /\ Ttl \in Nat
    BY Numbers DEF Entry
  <1>2. Older(x, d) = [x EXCEPT !.age = x.age + d]
    BY <1>1 DEF Older
  <1>3. QED
    BY <1>1, <1>2, OlderType DEF Entry

\* Time keeps what an open connection has, since its rows come often enough.
LEMMA ElapseFacts ==
    ASSUME SkipInv, SocketInv, RowGap <= Ttl, NEW d \in Steps, Elapse(d)
    PROVE  /\ SocketInv'
           /\ UNCHANGED <<machine, open, total, sent, pre, reused, pipe, warmup, counted, seed>>
           /\ \A c \in Conn :
                 /\ Pending(c) = {} /\ Pending(c)' = {}
                 /\ latest'[c] = Absent <=> latest[c] = Absent
                 /\ latest[c] # Absent => latest'[c].b = latest[c].b
                 /\ base'[c] = Absent <=> base[c] = Absent
                 /\ base[c] # Absent => base'[c].b = base[c].b
                 /\ open[c] /\ Recent(latest[c], quiet[c]) => Recent(latest'[c], quiet'[c])
                 /\ open[c] /\ Recent(base[c], quiet[c]) => Recent(base'[c], quiet'[c])
  <1>1. /\ pipe = <<>> /\ \A c \in Conn : open[c] => quiet[c] + d <= RowGap
        /\ quiet' = [c \in Conn |-> IF open[c] THEN quiet[c] + d ELSE 0]
        /\ latest' = [c \in Conn |-> Older(latest[c], d)]
        /\ base' = [c \in Conn |-> Older(base[c], d)]
        /\ UNCHANGED <<machine, open, total, sent, pre, reused, pipe, warmup, counted, seed>>
        /\ d \in Nat /\ RowGap \in Nat /\ Ttl \in Nat
    BY FlowAssumption DEF Elapse, env
  <1>2. \A c \in Conn : Pending(c) = {} /\ Pending(c)' = {}
    BY <1>1 DEF Pending
  <1>3. ASSUME NEW c \in Conn
        PROVE  /\ latest'[c] = Absent <=> latest[c] = Absent
               /\ latest[c] # Absent => latest'[c].b = latest[c].b
               /\ base'[c] = Absent <=> base[c] = Absent
               /\ base[c] # Absent => base'[c].b = base[c].b
               /\ quiet[c] \in 0 .. RowGap
    <2>1. latest[c] \in Entry \cup {Absent} /\ base[c] \in Entry \cup {Absent}
      BY DEF SkipInv, RowInv, BookInv
    <2>2. QED
      BY <1>1, <2>1, OlderType DEF SocketInv
  <1>4. ASSUME NEW c \in Conn, open[c], NEW x \in Entry \cup {Absent}, Recent(x, quiet[c])
        PROVE  Recent(Older(x, d), quiet'[c])
    <2>1. x \in Entry /\ x.age \in Nat /\ x.age <= quiet[c] /\ quiet[c] \in Nat
      BY <1>3, <1>4, <1>1 DEF Recent, Entry
    <2>2. x.age + d <= Ttl /\ quiet'[c] = quiet[c] + d
      BY <1>1, <1>4, <2>1
    <2>3. QED
      BY <2>1, <2>2, <1>1, OlderAge DEF Recent
  <1>5. SocketInv'
    <2>1. quiet' \in [Conn -> 0 .. RowGap]
      BY <1>1, <1>3
    <2>2. QED
      BY <2>1, <1>1 DEF SocketInv
  <1>6. ASSUME NEW c \in Conn, open[c]
        PROVE  /\ Recent(latest[c], quiet[c]) => Recent(latest'[c], quiet'[c])
               /\ Recent(base[c], quiet[c]) => Recent(base'[c], quiet'[c])
    <2>1. latest[c] \in Entry \cup {Absent} /\ base[c] \in Entry \cup {Absent}
      BY DEF SkipInv, RowInv, BookInv
    <2>2. latest'[c] = Older(latest[c], d) /\ base'[c] = Older(base[c], d)
      BY <1>1
    <2>3. QED
      BY <2>1, <2>2, <1>4, <1>6
  <1>7. QED
    BY <1>1, <1>2, <1>3, <1>5, <1>6

LEMMA ElapseExact ==
    ASSUME SkipInv, ExactInv, RowGap <= Ttl, NEW d \in Steps, Elapse(d)
    PROVE  ExactInv'
  <1>1. /\ UNCHANGED <<machine, open, total, sent, pre, reused, pipe, warmup, counted, seed>>
        /\ SocketInv'
    BY ElapseFacts DEF ExactInv
  <1>2. \A c \in Conn :
           /\ Pending(c) = {} /\ Pending(c)' = {}
           /\ latest'[c] = Absent <=> latest[c] = Absent
           /\ latest[c] # Absent => latest'[c].b = latest[c].b
           /\ base'[c] = Absent <=> base[c] = Absent
           /\ base[c] # Absent => base'[c].b = base[c].b
           /\ open[c] /\ Recent(latest[c], quiet[c]) => Recent(latest'[c], quiet'[c])
           /\ open[c] /\ Recent(base[c], quiet[c]) => Recent(base'[c], quiet'[c])
    BY ElapseFacts DEF ExactInv
  <1>3. WarmInv' /\ CountedExactlyOnce' /\ ReachedInv'
    BY <1>1, <1>2 DEF ExactInv, WarmInv, CountedExactlyOnce, ReachedInv
  <1>4. ASSUME NEW c \in Conn \ reused PROVE OrderInv(c)' /\ KeptInv(c)'
    <2>1. OrderInv(c) /\ KeptInv(c)
      BY DEF ExactInv, PerSocketInv
    <2>2. OrderInv(c)'
      BY <2>1, <1>1, <1>2 DEF OrderInv
    <2>3. Heard(c)' = open[c] /\ Heard(c) = open[c]
      BY <1>1, <1>2 DEF Heard, ExactInv, SocketInv
    <2>4. KeptInv(c)'
      BY <2>1, <2>3, <1>1, <1>2 DEF KeptInv
    <2>5. QED
      BY <2>2, <2>4
  <1>5. QED
    BY <1>1, <1>3, <1>4 DEF ExactInv, PerSocketInv

\* What a tick of an orderly machine works on: the rows that are fresh, or what
\* is open when none is and none is on its way.
LEMMA FlowsOrderly ==
    ASSUME SocketInv, Orderly(machine), machine.prompt => pipe = <<>>,
           NEW flows \in Flows, NEW c \in Conn
    PROVE  /\ c \in DOMAIN flows =>
                \/ c \in Fresh /\ flows[c] = latest[c].b
                \/ Fresh = {} /\ pipe = <<>> /\ open[c] /\ flows[c] = total[c]
           /\ c \notin DOMAIN flows => c \notin Fresh
  <1>1. CASE Fresh # {}
    <2>1. flows = [x \in Fresh |-> latest[x].b]
      BY <1>1 DEF Flows
    <2>2. QED
      BY <2>1
  <1>2. CASE Fresh = {} /\ flows = <<>>
    BY <1>2
  <1>3. CASE Fresh = {} /\ flows # <<>>
    <2>1. flows = OneShot /\ "sample" \in machine.fallback
      BY <1>3 DEF Flows
    <2>2. machine.prompt
      BY <2>1 DEF Orderly
    <2>3. QED
      BY <1>3, <2>1, <2>2 DEF OneShot
  <1>4. QED
    BY <1>1, <1>2, <1>3

\* A tick counts, of each connection it sees, what is new.
LEMMA TickExact ==
    ASSUME SkipInv, ExactInv, RowGap <= Ttl, Orderly(machine), Tick
    PROVE  ExactInv'
  <1>1. PICK flows \in Flows :
           /\ counted' = [c \in Conn |->
                 IF c \in DOMAIN flows THEN Saturated(counted[c] + Charged(flows)[c])
                 ELSE counted[c]]
           /\ base' = Rebase(flows)
           /\ seed' = IF warmup
                      THEN [c \in Conn |-> IF c \in DOMAIN flows THEN flows[c] ELSE 0]
                      ELSE seed
    BY DEF Tick
  <1>2. /\ warmup' = FALSE
        /\ machine.prompt => pipe = <<>>
        /\ latest' = [c \in Conn |-> IF c \in Fresh THEN latest[c] ELSE Absent]
        /\ UNCHANGED <<machine, open, total, sent, pre, reused, pipe, quiet>>
        /\ RowGap \in Nat /\ Ttl \in Nat
    BY FlowAssumption DEF Tick, env
  <1>3. \A c \in Conn : Pending(c)' = Pending(c)
    BY <1>2 DEF Pending
  <1>4. ASSUME NEW c \in Conn, c \in DOMAIN flows
        PROVE  /\ flows[c] \in Nat /\ flows[c] <= pre[c] + sent[c]
               /\ base'[c] = [b |-> flows[c], age |-> 0] /\ base'[c] # Absent
               /\ base'[c].b = flows[c] /\ base'[c].age = 0
    <2>1. flows[c] \in Counter
      BY <1>4, FlowsType DEF SkipInv
    <2>2. base'[c] = [b |-> flows[c], age |-> 0]
      BY <1>1, <1>4 DEF Rebase
    <2>3. base'[c] \in Entry
      BY <2>1, <2>2, <1>2 DEF Entry
    <2>4. \/ c \in Fresh /\ flows[c] = latest[c].b
          \/ flows[c] = total[c]
      BY <1>2, <1>4, FlowsOrderly DEF ExactInv
    <2>5. flows[c] <= pre[c] + sent[c]
      BY <2>4, Values DEF Fresh, ExactInv, ReachedInv
    <2>6. QED
      BY <2>1, <2>2, <2>3, <2>5, Numbers DEF Counter
  <1>5. ASSUME NEW c \in Conn, c \notin DOMAIN flows
        PROVE  /\ counted'[c] = counted[c] /\ latest'[c] = Absent /\ c \notin Fresh
               /\ seed'[c] = IF warmup THEN 0 ELSE seed[c]
               /\ base'[c] = IF base[c] # Absent /\ base[c].age > Ttl THEN Absent ELSE base[c]
    <2>1. c \notin Fresh
      BY <1>2, <1>5, FlowsOrderly DEF ExactInv
    <2>2. QED
      BY <2>1, <1>1, <1>2, <1>5 DEF Rebase
  <1>6. SocketInv' /\ WarmInv'
    BY <1>2 DEF ExactInv, SocketInv, WarmInv
  <1>7. ReachedInv'
    <2> SUFFICES ASSUME NEW c \in Conn
                 PROVE  /\ \A i \in Pending(c) : pipe[i].b <= pre[c] + sent[c]
                        /\ latest'[c] # Absent => latest'[c].b <= pre[c] + sent[c]
                        /\ base'[c] # Absent => base'[c].b <= pre[c] + sent[c]
      BY <1>2, <1>3 DEF ReachedInv
    <2>1. /\ \A i \in Pending(c) : pipe[i].b <= pre[c] + sent[c]
          /\ latest[c] # Absent => latest[c].b <= pre[c] + sent[c]
          /\ base[c] # Absent => base[c].b <= pre[c] + sent[c]
      BY DEF ExactInv, ReachedInv
    <2>2. latest'[c] # Absent => latest'[c] = latest[c]
      BY <1>2
    <2>3. base'[c] # Absent => base'[c].b <= pre[c] + sent[c]
      BY <2>1, <1>4, <1>5
    <2>4. QED
      BY <2>1, <2>2, <2>3
  <1>8. ASSUME NEW c \in Conn \ reused, c \in DOMAIN flows
        PROVE  OrderInv(c)' /\ KeptInv(c)' /\ base'[c].b = counted'[c] + seed'[c]
    <2>1. OrderInv(c) /\ KeptInv(c) /\ c \in Conn /\ flows[c] \in Nat
      BY <1>4, <1>8 DEF ExactInv, PerSocketInv
    <2>2. /\ base[c] # Absent => base[c].b <= flows[c]
          /\ base[c] = Absent => counted[c] = 0 /\ seed[c] = 0
          /\ \A i \in Pending(c) : flows[c] <= pipe[i].b
          /\ latest'[c] # Absent => flows[c] <= latest'[c].b
          /\ open[c] => flows[c] <= total[c]
      <3>1. CASE c \in Fresh /\ flows[c] = latest[c].b
        <4>1. latest[c] # Absent /\ latest'[c] = latest[c] /\ flows[c] <= flows[c]
          BY <3>1, <2>1, <1>2 DEF Fresh
        <4>2. QED
          BY <2>1, <3>1, <4>1 DEF OrderInv, KeptInv
      <3>2. CASE Fresh = {} /\ pipe = <<>> /\ open[c] /\ flows[c] = total[c]
        <4>1. latest'[c] = Absent /\ Pending(c) = {} /\ flows[c] <= total[c]
          BY <3>2, <2>1, <1>2 DEF Pending
        <4>2. QED
          BY <2>1, <3>2, <4>1 DEF OrderInv, KeptInv, Heard
      <3>3. QED
        BY <3>1, <3>2, <1>2, <1>8, FlowsOrderly DEF ExactInv
    <2>3. base'[c] # Absent /\ base'[c].b = flows[c] /\ base'[c].age = 0
      BY <1>4, <1>8
    <2>4. OrderInv(c)'
      <3>1. \A i \in Pending(c) :
              /\ latest'[c] # Absent => latest'[c].b <= pipe[i].b
              /\ \A j \in Pending(c) : i < j => pipe[i].b <= pipe[j].b
              /\ open[c] => pipe[i].b <= total[c]
        BY <2>1, <1>2 DEF OrderInv
      <3>2. open[c] /\ latest'[c] # Absent => latest'[c].b <= total[c]
        BY <2>1, <1>2 DEF OrderInv
      <3>3. QED
        BY <2>2, <2>3, <3>1, <3>2, <1>2, <1>3 DEF OrderInv
    <2>5. base'[c].b = counted'[c] + seed'[c]
      <3> DEFINE f == flows[c]
                 n == counted[c] + Charged(flows)[c]
      <3>1. counted'[c] = Saturated(n) /\ seed'[c] = IF warmup THEN f ELSE seed[c]
        BY <1>1, <1>8
      <3>2. /\ f \in Nat /\ f <= MaxCounted /\ MaxCounted \in Nat
            /\ counted[c] \in Nat /\ seed[c] \in Nat /\ warmup \in BOOLEAN
        <4>1. f \in Nat /\ f <= pre[c] + sent[c]
          BY <2>1, <1>4, <1>8
        <4>2. QED
          BY <2>1, <4>1, Values, Numbers DEF SkipInv, BookInv
      <3>3. Charged(flows)[c] = Delta(base[c], f, warmup)
        BY <1>8 DEF Charged
      <3> HIDE DEF f
      <3>4. CASE warmup
        <4>1. base[c] = Absent /\ n = 0
          BY <3>3, <3>4, <2>2 DEF Delta, SkipInv, BookInv
        <4>2. QED
          BY <3>1, <3>2, <3>4, <4>1, <2>3 DEF Saturated, f
      <3>5. CASE ~warmup /\ base[c] = Absent
        <4>1. n = f /\ seed[c] = 0
          BY <3>2, <3>3, <3>5, <2>2 DEF Delta
        <4>2. QED
          BY <3>1, <3>2, <3>5, <4>1, <2>3 DEF Saturated, f
      <3>6. CASE ~warmup /\ base[c] # Absent
        <4>1. base[c].b = counted[c] + seed[c] /\ base[c].b <= f
          BY <3>6, <2>2 DEF ExactInv, CountedExactlyOnce, f
        <4>2. Charged(flows)[c] = f - base[c].b
          BY <3>2, <3>3, <3>6, <4>1 DEF Delta
        <4>3. n + seed[c] = f
          BY <3>2, <4>1, <4>2
        <4>4. n \in Nat /\ n <= MaxCounted
          BY <3>2, <4>1, <4>2
        <4>5. QED
          BY <3>1, <3>6, <4>3, <4>4, <2>3, <3>2 DEF Saturated, f
      <3>7. QED
        BY <3>4, <3>5, <3>6, <3>2
    <2>6. KeptInv(c)'
      <3>1. Recent(base[c], quiet[c])'
        BY <2>3, <1>2 DEF Recent, ExactInv, SocketInv
      <3>2. counted'[c] + seed'[c] <= pre[c] + sent[c]
        BY <2>3, <2>5, <1>4, <1>8
      <3>3. QED
        BY <3>1, <3>2, <2>3, <1>2 DEF KeptInv
    <2>7. QED
      BY <2>4, <2>5, <2>6
  <1>9. ASSUME NEW c \in Conn \ reused, c \notin DOMAIN flows
        PROVE  /\ OrderInv(c)' /\ KeptInv(c)'
               /\ base'[c] # Absent => base'[c].b = counted'[c] + seed'[c]
    <2>1. OrderInv(c) /\ KeptInv(c) /\ (warmup => base[c] = Absent /\ seed[c] = 0)
      BY DEF ExactInv, PerSocketInv, WarmInv, SkipInv, BookInv
    <2>2. /\ counted'[c] = counted[c] /\ seed'[c] = seed[c] /\ latest'[c] = Absent
          /\ base'[c] = IF base[c] # Absent /\ base[c].age > Ttl THEN Absent ELSE base[c]
      BY <1>5, <1>9, <2>1
    <2>3. OrderInv(c)'
      BY <2>1, <2>2, <1>2, <1>3 DEF OrderInv
    <2>4. base'[c] # Absent => base'[c].b = counted'[c] + seed'[c]
      BY <2>2 DEF ExactInv, CountedExactlyOnce
    <2>5. KeptInv(c)'
      <3>1. quiet[c] \in 0 .. RowGap /\ ~Recent(latest[c], quiet[c])
        <4>1. quiet[c] \in 0 .. RowGap
          BY DEF ExactInv, SocketInv
        <4>2. latest[c] # Absent => latest[c].age \in Nat /\ latest[c].age > Ttl
          BY <1>5, <1>9, Values, <1>2 DEF Fresh
        <4>3. QED
          BY <4>1, <4>2, <1>2 DEF Recent
      <3>2. CASE base'[c] = base[c]
        BY <2>1, <2>2, <3>1, <3>2, <1>2, <1>3 DEF KeptInv, Heard, Recent
      <3>3. CASE base[c] # Absent /\ base[c].age > Ttl
        <4>1. ~Recent(base[c], quiet[c])
          BY <3>1, <3>3, <1>2, Values DEF Recent
        <4>2. Heard(c) => base[c].b = 0
          BY <2>1, <3>1, <3>3, <4>1 DEF KeptInv
        <4>3. Heard(c) => counted[c] = 0 /\ seed[c] = 0
          BY <4>2, <3>3, Values DEF ExactInv, CountedExactlyOnce
        <4>4. QED
          BY <2>1, <2>2, <3>3, <4>3, <1>2, <1>3 DEF KeptInv, Heard
      <3>4. QED
        BY <2>2, <3>2, <3>3
    <2>6. QED
      BY <2>3, <2>4, <2>5
  <1>10. \A c \in Conn \ reused : /\ OrderInv(c)' /\ KeptInv(c)'
                                  /\ base'[c] # Absent => base'[c].b = counted'[c] + seed'[c]
    BY <1>8, <1>9
  <1>11. QED
    BY <1>2, <1>6, <1>7, <1>10 DEF ExactInv, PerSocketInv, CountedExactlyOnce

LEMMA NextExact ==
    ASSUME SkipInv, ExactInv, RowGap <= Ttl, \A m \in Machines : Orderly(m), [Next]_vars
    PROVE  ExactInv'
  <1>1. SkipInv'
    BY NextSkip
  <1>2. Orderly(machine)
    BY DEF ExactInv, SocketInv
  <1>3. ASSUME NEW c \in Conn, Send(c) \/ Close(c) \/ Open(c) \/ Emit(c) PROVE ExactInv'
    BY <1>3, SendExact, CloseExact, OpenExact, EmitExact
  <1>4. ASSUME NEW d \in Steps, Elapse(d) PROVE ExactInv'
    BY <1>4, ElapseExact
  <1>5. CASE Feed
    BY <1>1, <1>5, FeedExact
  <1>6. CASE Tick
    BY <1>1, <1>2, <1>6, TickExact
  <1>7. CASE Sleep \/ TickThrows
    BY <1>2, <1>7 DEF Sleep, TickThrows, Orderly
  <1>8. CASE UNCHANGED vars
    BY <1>1, <1>8 DEF vars, env, book, ExactInv, SocketInv, ReachedInv, WarmInv, PerSocketInv,
                OrderInv, KeptInv, Heard, Pending, Recent, CountedExactlyOnce
  <1>9. QED
    BY <1>1, <1>3, <1>4, <1>5, <1>6, <1>7, <1>8 DEF Next

(* sentinel.py:441-456 and the baseline of _tick, every byte once: where the *)
(* machine stays awake, no tick throws, rows cannot be older than a sample, *)
(* and the TTL outlasts nettop's interval, a baseline is exactly what was   *)
(* counted and seeded, for every set of connections and every Ttl.          *)
THEOREM CountedExactlyOnceHolds ==
    ASSUME RowGap <= Ttl, \A m \in Machines : Orderly(m)
    PROVE  Spec => []CountedExactlyOnce
  <1>1. Init => SkipInv /\ ExactInv
    BY InitSkip, InitExact
  <1>2. SkipInv /\ ExactInv /\ [Next]_vars => SkipInv' /\ ExactInv'
    BY NextSkip, NextExact
  <1>3. ExactInv => CountedExactlyOnce
    BY DEF ExactInv
  <1>4. QED
    BY <1>1, <1>2, <1>3, PTL DEF Spec

-----------------------------------------------------------------------------
(* No manufactured egress.                                                 *)

\* When each reading of a counter was taken, in bytes sent under the key by
\* then: the history of a key needs no more than that such marks exist.
Mark == 0 .. MaxSent

\* What u adds to an earlier reading v was sent between the two.
Adds(v, u) == IF u < v THEN u ELSE u - v
Between(v, at, u, by) == at + Adds(v, u) <= by

\* Readings of one key, in the order in which they were taken: baseline (b),
\* snapshot (s), pipe (p), kernel.
ChainInv(c, b, s, p) ==
    /\ \A i \in Pending(c) :
          /\ base[c] # Absent => Between(base[c].b, b, pipe[i].b, p[i])
          /\ latest[c] # Absent => Between(latest[c].b, s, pipe[i].b, p[i])
          /\ \A j \in Pending(c) : i < j => Between(pipe[i].b, p[i], pipe[j].b, p[j])
          /\ open[c] => Between(pipe[i].b, p[i], total[c], sent[c])
          /\ p[i] <= sent[c]
    /\ base[c] # Absent /\ latest[c] # Absent => Between(base[c].b, b, latest[c].b, s)
    /\ open[c] /\ base[c] # Absent => Between(base[c].b, b, total[c], sent[c])
    /\ open[c] /\ latest[c] # Absent => Between(latest[c].b, s, total[c], sent[c])
    /\ base[c] # Absent => b <= sent[c]
    /\ latest[c] # Absent => s <= sent[c]

\* A baseline that a tick may drop is that of a socket which is gone: what is
\* still to be heard of its key was sent after it.
DropInv(c, b, p) ==
    base[c] # Absent =>
        /\ \A i \in Pending(c) :
              Recent(latest[c], RowGap) \/ Recent(base[c], RowGap) \/ b + pipe[i].b <= p[i]
        /\ open[c] =>
              Recent(latest[c], quiet[c]) \/ Recent(base[c], quiet[c]) \/ b + total[c] <= sent[c]

\* What was counted was sent before the baseline, or before all that is to come.
ChargeInv(c, b, s, p) ==
    c \notin Cold =>
        /\ counted[c] <= sent[c]
        /\ base[c] # Absent => counted[c] <= b
        /\ base[c] = Absent =>
              /\ latest[c] # Absent => counted[c] + latest[c].b <= s
              /\ \A i \in Pending(c) : counted[c] + pipe[i].b <= p[i]
              /\ open[c] => counted[c] + total[c] <= sent[c]

MarkedInv(b, s, p) ==
    \A c \in Conn : /\ ChainInv(c, b[c], s[c], p) /\ DropInv(c, b[c], p)
                    /\ ChargeInv(c, b[c], s[c], p)

EgressInv == /\ SocketInv /\ WarmInv
             /\ \E b, s \in [Conn -> Mark], p \in [DOMAIN pipe -> Mark] : MarkedInv(b, s, p)

LEMMA AddsFacts ==
    ASSUME NEW v \in Nat, NEW u \in Nat
    PROVE  /\ Adds(v, u) \in Nat /\ Adds(v, u) <= u
           /\ Adds(v, 0) = 0 /\ Adds(v, v) = 0
           /\ Adds(v, u + 1) \in Nat /\ Adds(v, u + 1) <= Adds(v, u) + 1
  BY DEF Adds

LEMMA MarkIsNat == Mark \subseteq Nat /\ 0 \in Mark
  BY Numbers DEF Mark

LEMMA InitEgress == ASSUME Init PROVE EgressInv
  <1>1. SkipInv /\ SocketInv /\ WarmInv
    BY InitSkip, InitExact DEF ExactInv
  <1> DEFINE b == [c \in Conn |-> 0]
             p == [i \in DOMAIN pipe |-> 0]
  <1>2. b \in [Conn -> Mark] /\ p \in [DOMAIN pipe -> Mark]
    BY MarkIsNat
  <1>3. \A c \in Conn : /\ latest[c] = Absent /\ base[c] = Absent /\ counted[c] = 0
                        /\ sent[c] = 0 /\ seed[c] = 0 /\ total[c] = pre[c] /\ Pending(c) = {}
    BY DEF Init, Pending
  <1>4. \A c \in Conn : c \notin Cold => total[c] = 0
    <2> SUFFICES ASSUME NEW c \in Conn, c \notin Cold PROVE total[c] = 0
      OBVIOUS
    <2>1. ~(0 < pre[c]) /\ pre[c] \in Nat
      BY <1>1, <1>3, Values DEF Cold
    <2>2. QED
      BY <2>1, <1>3
  <1>5. MarkedInv(b, b, p)
    BY <1>3, <1>4 DEF MarkedInv, ChainInv, DropInv, ChargeInv
  <1>6. QED
    BY <1>1, <1>2, <1>5 DEF EgressInv

LEMMA SendEgress ==
    ASSUME SkipInv, EgressInv, SocketInv', WarmInv', NEW c \in Conn, Send(c)
    PROVE  EgressInv'
  <1>1. PICK b, s \in [Conn -> Mark], p \in [DOMAIN pipe -> Mark] : MarkedInv(b, s, p)
    BY DEF EgressInv
  <1>2. /\ open[c] /\ UNCHANGED <<open, pre, pipe, quiet, latest, base, counted, seed>>
        /\ \A d \in Conn : /\ total'[d] = IF d = c THEN total[d] + 1 ELSE total[d]
                           /\ sent'[d] = IF d = c THEN sent[d] + 1 ELSE sent[d]
    BY DEF Send, book, SkipInv, CounterInv
  <1>3. Cold' = Cold /\ \A d \in Conn : Pending(d)' = Pending(d)
    BY <1>2 DEF Cold, Pending
  <1>4. ASSUME NEW d \in Conn
        PROVE  ChainInv(d, b[d], s[d], p)' /\ DropInv(d, b[d], p)' /\ ChargeInv(d, b[d], s[d], p)'
    <2>1. ChainInv(d, b[d], s[d], p) /\ DropInv(d, b[d], p) /\ ChargeInv(d, b[d], s[d], p)
      BY <1>1 DEF MarkedInv
    <2>2. /\ b[d] \in Nat /\ s[d] \in Nat
          /\ \A i \in Pending(d) : p[i] \in Nat /\ pipe[i].b \in Nat
          /\ total[d] \in Nat /\ sent[d] \in Nat /\ counted[d] \in Nat
      BY <1>1, MarkIsNat, Values DEF Pending
    <2>3. CASE d # c
      BY <2>1, <2>3, <1>2, <1>3 DEF ChainInv, DropInv, ChargeInv, Recent
    <2>4. CASE d = c
      <3>1. total'[d] = total[d] + 1 /\ sent'[d] = sent[d] + 1
        BY <2>4, <1>2
      <3>2. ASSUME NEW v \in Nat, NEW at \in Nat, Between(v, at, total[d], sent[d])
            PROVE  Between(v, at, total'[d], sent'[d])
        <4> DEFINE u == total[d]
        <4>1. u \in Nat
          BY <2>2
        <4> HIDE DEF u
        <4>2. Adds(v, u) \in Nat /\ Adds(v, u + 1) \in Nat /\ Adds(v, u + 1) <= Adds(v, u) + 1
          BY <4>1, AddsFacts
        <4>3. at + Adds(v, u) <= sent[d]
          BY <3>2 DEF Between, u
        <4>4. at + Adds(v, u + 1) <= sent[d] + 1
          BY <4>2, <4>3, <2>2
        <4>5. QED
          BY <4>4, <3>1 DEF Between, u
      <3>3. ChainInv(d, b[d], s[d], p)'
        <4>1. ASSUME NEW i \in Pending(d)
              PROVE  /\ open[d] => Between(pipe[i].b, p[i], total'[d], sent'[d])
                     /\ p[i] <= sent'[d]
          BY <2>1, <2>2, <3>1, <3>2 DEF ChainInv
        <4>2. /\ open[d] /\ base[d] # Absent => Between(base[d].b, b[d], total'[d], sent'[d])
              /\ open[d] /\ latest[d] # Absent => Between(latest[d].b, s[d], total'[d], sent'[d])
              /\ base[d] # Absent => b[d] <= sent'[d]
              /\ latest[d] # Absent => s[d] <= sent'[d]
          BY <2>1, <2>2, <3>1, <3>2, Values DEF ChainInv
        <4>3. QED
          BY <2>1, <4>1, <4>2, <1>2, <1>3 DEF ChainInv
      <3>4. DropInv(d, b[d], p)'
        BY <2>1, <2>2, <3>1, <1>2, <1>3 DEF DropInv, Recent
      <3>5. ChargeInv(d, b[d], s[d], p)'
        BY <2>1, <2>2, <3>1, <1>2, <1>3 DEF ChargeInv
      <3>6. QED
        BY <3>3, <3>4, <3>5
    <2>5. QED
      BY <2>3, <2>4
  <1>5. MarkedInv(b, s, p)'
    BY <1>4 DEF MarkedInv
  <1>6. QED
    BY <1>1, <1>2, <1>5 DEF EgressInv

LEMMA CloseEgress ==
    ASSUME SkipInv, EgressInv, SocketInv', WarmInv', NEW c \in Conn, Close(c)
    PROVE  EgressInv'
  <1>1. PICK b, s \in [Conn -> Mark], p \in [DOMAIN pipe -> Mark] : MarkedInv(b, s, p)
    BY DEF EgressInv
  <1>2. /\ UNCHANGED <<sent, pre, pipe, quiet, latest, base, counted, seed>>
        /\ \A d \in Conn : open'[d] => open[d] /\ total'[d] = total[d]
    BY DEF Close, book, SkipInv, CounterInv, EgressInv, SocketInv
  <1>3. Cold' = Cold /\ \A d \in Conn : Pending(d)' = Pending(d)
    BY <1>2 DEF Cold, Pending
  <1>4. ASSUME NEW d \in Conn
        PROVE  ChainInv(d, b[d], s[d], p)' /\ DropInv(d, b[d], p)' /\ ChargeInv(d, b[d], s[d], p)'
    <2>1. ChainInv(d, b[d], s[d], p) /\ DropInv(d, b[d], p) /\ ChargeInv(d, b[d], s[d], p)
      BY <1>1 DEF MarkedInv
    <2>2. QED
      BY <2>1, <1>2, <1>3 DEF ChainInv, DropInv, ChargeInv, Recent
  <1>5. MarkedInv(b, s, p)'
    BY <1>4 DEF MarkedInv
  <1>6. QED
    BY <1>1, <1>2, <1>5 DEF EgressInv

\* Whatever is under the key, the new socket has sent nothing yet.
LEMMA OpenEgress ==
    ASSUME SkipInv, EgressInv, SocketInv', WarmInv', NEW c \in Conn, Open(c)
    PROVE  EgressInv'
  <1>1. PICK b, s \in [Conn -> Mark], p \in [DOMAIN pipe -> Mark] : MarkedInv(b, s, p)
    BY DEF EgressInv
  <1>2. /\ UNCHANGED <<total, sent, pre, pipe, latest, base, counted, seed>>
        /\ ~open[c] /\ total[c] = 0
        /\ \A d \in Conn : d # c => open'[d] = open[d] /\ quiet'[d] = quiet[d]
    BY DEF Open, book, SkipInv, CounterInv, EgressInv, SocketInv
  <1>3. Cold' = Cold /\ \A d \in Conn : Pending(d)' = Pending(d)
    BY <1>2 DEF Cold, Pending
  <1>4. ASSUME NEW d \in Conn
        PROVE  ChainInv(d, b[d], s[d], p)' /\ DropInv(d, b[d], p)' /\ ChargeInv(d, b[d], s[d], p)'
    <2>1. ChainInv(d, b[d], s[d], p) /\ DropInv(d, b[d], p) /\ ChargeInv(d, b[d], s[d], p)
      BY <1>1 DEF MarkedInv
    <2>2. /\ b[d] \in Nat /\ s[d] \in Nat
          /\ \A i \in Pending(d) : p[i] \in Nat /\ pipe[i].b \in Nat
          /\ sent[d] \in Nat /\ counted[d] \in Nat
      BY <1>1, MarkIsNat, Values DEF Pending
    <2>3. CASE d # c
      BY <2>1, <2>3, <1>2, <1>3 DEF ChainInv, DropInv, ChargeInv, Recent
    <2>4. CASE d = c
      <3>1. total[d] = 0
        BY <2>4, <1>2
      <3>2. ASSUME NEW v \in Nat, NEW at \in Nat, at <= sent[d]
            PROVE  Between(v, at, total[d], sent[d])
        <4>1. Adds(v, 0) = 0
          BY AddsFacts
        <4>2. at + Adds(v, total[d]) <= sent[d]
          BY <4>1, <3>1, <3>2
        <4>3. QED
          BY <4>2 DEF Between
      <3>3. ChainInv(d, b[d], s[d], p)'
        <4>1. \A i \in Pending(d) : Between(pipe[i].b, p[i], total[d], sent[d])
          BY <2>1, <2>2, <3>2 DEF ChainInv
        <4>2. /\ base[d] # Absent => Between(base[d].b, b[d], total[d], sent[d])
              /\ latest[d] # Absent => Between(latest[d].b, s[d], total[d], sent[d])
          BY <2>1, <2>2, <3>2, Values DEF ChainInv
        <4>3. QED
          BY <2>1, <4>1, <4>2, <1>2, <1>3 DEF ChainInv
      <3>4. DropInv(d, b[d], p)'
        <4>1. base[d] # Absent => b[d] + total[d] <= sent[d]
          BY <2>1, <2>2, <3>1 DEF ChainInv
        <4>2. QED
          BY <2>1, <4>1, <1>2, <1>3 DEF DropInv, Recent
      <3>5. ChargeInv(d, b[d], s[d], p)'
        <4>1. d \notin Cold => counted[d] + total[d] <= sent[d]
          BY <2>1, <2>2, <3>1 DEF ChargeInv
        <4>2. QED
          BY <2>1, <4>1, <1>2, <1>3 DEF ChargeInv
      <3>6. QED
        BY <3>3, <3>4, <3>5
    <2>5. QED
      BY <2>3, <2>4
  <1>5. MarkedInv(b, s, p)'
    BY <1>4 DEF MarkedInv
  <1>6. QED
    BY <1>1, <1>2, <1>5 DEF EgressInv

LEMMA EmitEgress ==
    ASSUME SkipInv, EgressInv, SocketInv', WarmInv', NEW c \in Conn, Emit(c)
    PROVE  EgressInv'
  <1>1. PICK b, s \in [Conn -> Mark], p \in [DOMAIN pipe -> Mark] : MarkedInv(b, s, p)
    BY DEF EgressInv
  <1>2. /\ open[c]
        /\ UNCHANGED <<open, total, sent, pre, quiet, latest, base, counted, seed>>
    BY DEF Emit, env, book
  <1>3. PICK n \in Nat \ {0} :
           /\ pipe'[n] = [conn |-> c, b |-> total[c]] /\ DOMAIN pipe' = 1 .. n
           /\ DOMAIN pipe = 1 .. n - 1 /\ \A i \in DOMAIN pipe : pipe'[i] = pipe[i]
    <2> DEFINE Row == [conn : Conn, b : Counter]
    <2>1. pipe \in Seq(Row) /\ [conn |-> c, b |-> total[c]] \in Row
      BY TotalsCount DEF SkipInv, RowInv
    <2>2. pipe' = Append(pipe, [conn |-> c, b |-> total[c]])
      BY DEF Emit
    <2> HIDE DEF Row
    <2>3. WITNESS Len(pipe) + 1 \in Nat \ {0}
    <2>4. QED
      BY <2>1, <2>2
  <1>4. PICK q \in [1 .. n -> Mark] :
           q[n] = sent[c] /\ \A i \in DOMAIN pipe : q[i] = p[i] /\ i \in 1 .. n - 1
    <2>1. sent[c] \in Mark
      BY Values DEF SkipInv, CounterInv, Mark
    <2>2. \A i \in 1 .. n : i # n => i \in DOMAIN pipe
      BY <1>3
    <2>3. \A i \in DOMAIN pipe : i \in 1 .. n - 1 /\ i \in 1 .. n /\ i # n
      BY <1>3
    <2> DEFINE r == [i \in 1 .. n |-> IF i = n THEN sent[c] ELSE p[i]]
    <2>4. r \in [1 .. n -> Mark]
      BY <2>1, <2>2
    <2>5. r[n] = sent[c] /\ \A i \in DOMAIN pipe : r[i] = p[i]
      BY <2>3
    <2>6. QED
      BY <2>3, <2>4, <2>5
  <1>5. Cold' = Cold
    BY <1>2 DEF Cold
  <1>6. ASSUME NEW d \in Conn
        PROVE  Pending(d)' = Pending(d) \cup (IF d = c THEN {n} ELSE {})
    BY <1>3 DEF Pending
  <1>7. ASSUME NEW d \in Conn
        PROVE  ChainInv(d, b[d], s[d], q)' /\ DropInv(d, b[d], q)' /\ ChargeInv(d, b[d], s[d], q)'
    <2>1. ChainInv(d, b[d], s[d], p) /\ DropInv(d, b[d], p) /\ ChargeInv(d, b[d], s[d], p)
      BY <1>1 DEF MarkedInv
    <2>2. \A i \in Pending(d) : pipe'[i] = pipe[i] /\ q[i] = p[i] /\ i \in 1 .. n - 1
      BY <1>3, <1>4 DEF Pending
    <2>3. CASE d # c
      BY <2>1, <2>2, <2>3, <1>2, <1>5, <1>6 DEF ChainInv, DropInv, ChargeInv, Recent
    <2>4. CASE d = c
      <3>1. /\ Pending(d)' = Pending(d) \cup {n} /\ pipe'[n].b = total[d] /\ open[d]
            /\ q[n] = sent[d]
        BY <1>2, <1>3, <1>4, <1>6, <2>4
      <3>2. \A i, j \in Pending(d)' : i < j => i \in Pending(d)
        BY <3>1, <2>2, <1>3
      <3>3. Between(total[d], sent[d], total[d], sent[d]) /\ sent[d] <= sent[d]
        <4>1. total[d] \in Nat /\ sent[d] \in Nat
          BY Values
        <4>2. Adds(total[d], total[d]) = 0
          BY <4>1, AddsFacts
        <4>3. QED
          BY <4>1, <4>2 DEF Between
      <3>4. ChainInv(d, b[d], s[d], q)'
        <4>1. \A i \in Pending(d)' :
                 /\ base[d] # Absent => Between(base[d].b, b[d], pipe'[i].b, q[i])
                 /\ latest[d] # Absent => Between(latest[d].b, s[d], pipe'[i].b, q[i])
                 /\ Between(pipe'[i].b, q[i], total[d], sent[d])
                 /\ q[i] <= sent[d]
          BY <2>1, <2>2, <3>1, <3>3 DEF ChainInv
        <4>2. \A i \in Pending(d) : \A j \in Pending(d) : i < j =>
                 Between(pipe'[i].b, q[i], pipe'[j].b, q[j])
          BY <2>1, <2>2 DEF ChainInv
        <4>3. \A i, j \in Pending(d)' : i < j => Between(pipe'[i].b, q[i], pipe'[j].b, q[j])
          BY <3>1, <3>2, <4>1, <4>2
        <4>4. QED
          BY <2>1, <4>1, <4>3, <1>2 DEF ChainInv
      <3>5. DropInv(d, b[d], q)'
        <4>1. \A x : Recent(x, quiet[d]) => Recent(x, RowGap) \/ x \notin Entry
          BY FlowAssumption DEF Recent, Entry, EgressInv, SocketInv
        <4>2. base[d] # Absent =>
                Recent(latest[d], RowGap) \/ Recent(base[d], RowGap) \/ b[d] + total[d] <= sent[d]
          BY <2>1, <3>1, <4>1, Values DEF DropInv, Recent
        <4>3. QED
          BY <2>1, <2>2, <3>1, <4>2, <1>2 DEF DropInv, Recent
      <3>6. ChargeInv(d, b[d], s[d], q)'
        BY <2>1, <2>2, <3>1, <1>2, <1>5 DEF ChargeInv
      <3>7. QED
        BY <3>4, <3>5, <3>6
    <2>5. QED
      BY <2>3, <2>4
  <1>8. MarkedInv(b, s, q)'
    BY <1>7 DEF MarkedInv
  <1>9. QED
    BY <1>1, <1>3, <1>4, <1>8 DEF EgressInv

\* The reader thread moves a row and its mark from the pipe to the snapshot.
LEMMA FeedEgress ==
    ASSUME SkipInv, EgressInv, SocketInv', WarmInv', Feed
    PROVE  EgressInv'
  <1>1. PICK b, s \in [Conn -> Mark], p \in [DOMAIN pipe -> Mark] : MarkedInv(b, s, p)
    BY DEF EgressInv
  <1>2. PICK c \in Conn, v \in Counter : Fed(c, v)
    BY FeedFacts DEF EgressInv
  <1>3. UNCHANGED <<open, total, sent, pre, base, counted, seed>>
    BY <1>2 DEF Fed
  <1>4. ASSUME NEW d \in Conn
        PROVE  /\ latest'[d] = IF d = c THEN [b |-> v, age |-> 0] ELSE latest[d]
               /\ quiet'[d] = IF d = c THEN 0 ELSE quiet[d]
               /\ \A i \in Pending(d)' : i + 1 \in Pending(d) /\ pipe'[i] = pipe[i + 1]
                                         /\ i \in Nat \ {0}
               /\ d = c => 1 \in Pending(d) /\ pipe[1].b = v
    BY <1>2 DEF Fed
  <1>5. /\ latest'[c].b = v /\ latest'[c].age = 0 /\ latest'[c] # Absent
        /\ 1 \in DOMAIN pipe
    <2>1. latest'[c] = [b |-> v, age |-> 0]
      BY <1>4
    <2>2. latest'[c] \in Entry
      BY <2>1, Numbers DEF Entry
    <2>3. QED
      BY <2>1, <2>2, <1>4, Numbers DEF Pending
  <1>6. PICK t \in [Conn -> Mark] : \A d \in Conn : t[d] = IF d = c THEN p[1] ELSE s[d]
    <2>1. [d \in Conn |-> IF d = c THEN p[1] ELSE s[d]] \in [Conn -> Mark]
      BY <1>1, <1>5
    <2>2. QED
      BY <2>1
  <1>7. PICK q \in [DOMAIN pipe' -> Mark] : \A i \in DOMAIN pipe' : q[i] = p[i + 1]
    <2>1. [i \in DOMAIN pipe' |-> p[i + 1]] \in [DOMAIN pipe' -> Mark]
      BY <1>1, FeedFacts DEF EgressInv
    <2>2. QED
      BY <2>1
  <1>8. Cold' = Cold
    BY <1>3 DEF Cold
  <1>9. ASSUME NEW d \in Conn
        PROVE  ChainInv(d, b[d], t[d], q)' /\ DropInv(d, b[d], q)' /\ ChargeInv(d, b[d], t[d], q)'
    <2>1. ChainInv(d, b[d], s[d], p) /\ DropInv(d, b[d], p) /\ ChargeInv(d, b[d], s[d], p)
      BY <1>1 DEF MarkedInv
    <2>2. ASSUME NEW i \in Pending(d)'
          PROVE  i + 1 \in Pending(d) /\ pipe'[i] = pipe[i + 1] /\ q[i] = p[i + 1] /\ 1 < i + 1
      BY <1>4, <1>7 DEF Pending
    <2>3. \A i, j \in Pending(d)' : i < j => i + 1 < j + 1
      BY <1>4
    <2>4. CASE d # c
      <3>1. latest'[d] = latest[d] /\ quiet'[d] = quiet[d] /\ t[d] = s[d]
        BY <2>4, <1>4, <1>6
      <3>2. ChainInv(d, b[d], t[d], q)'
        BY <2>1, <2>2, <2>3, <3>1, <1>3 DEF ChainInv
      <3>3. DropInv(d, b[d], q)' /\ ChargeInv(d, b[d], t[d], q)'
        BY <2>1, <2>2, <3>1, <1>3, <1>8 DEF DropInv, ChargeInv, Recent
      <3>4. QED
        BY <3>2, <3>3
    <2>5. CASE d = c
      <3>1. /\ latest'[d].b = pipe[1].b /\ latest'[d] # Absent /\ t[d] = p[1]
            /\ latest'[d].age = 0 /\ quiet'[d] = 0 /\ 1 \in Pending(d)
        BY <2>5, <1>4, <1>5, <1>6
      <3>2. ChainInv(d, b[d], t[d], q)'
        <4>1. ASSUME NEW i \in Pending(d)'
              PROVE  /\ base[d] # Absent => Between(base[d].b, b[d], pipe'[i].b, q[i])
                     /\ Between(latest'[d].b, t[d], pipe'[i].b, q[i])
                     /\ \A j \in Pending(d)' : i < j => Between(pipe'[i].b, q[i], pipe'[j].b, q[j])
                     /\ open[d] => Between(pipe'[i].b, q[i], total[d], sent[d])
                     /\ q[i] <= sent[d]
          BY <2>1, <2>2, <2>3, <3>1 DEF ChainInv
        <4>2. /\ base[d] # Absent => Between(base[d].b, b[d], latest'[d].b, t[d])
              /\ open[d] => Between(latest'[d].b, t[d], total[d], sent[d])
              /\ t[d] <= sent[d]
          BY <2>1, <3>1 DEF ChainInv
        <4>3. QED
          BY <2>1, <4>1, <4>2, <1>3 DEF ChainInv
      <3>3. DropInv(d, b[d], q)'
        <4>1. Recent(latest'[d], quiet'[d]) /\ Recent(latest'[d], RowGap)
          BY <3>1, FlowAssumption DEF Recent
        <4>2. QED
          BY <4>1 DEF DropInv
      <3>4. ChargeInv(d, b[d], t[d], q)'
        BY <2>1, <2>2, <3>1, <1>3, <1>8 DEF ChargeInv
      <3>5. QED
        BY <3>2, <3>3, <3>4
    <2>6. QED
      BY <2>4, <2>5
  <1>10. MarkedInv(b, t, q)'
    BY <1>9 DEF MarkedInv
  <1>11. QED
    BY <1>1, <1>6, <1>7, <1>10 DEF EgressInv

LEMMA ElapseEgress ==
    ASSUME SkipInv, EgressInv, SocketInv', WarmInv', RowGap <= Ttl, NEW d \in Steps, Elapse(d)
    PROVE  EgressInv'
  <1>1. PICK b, s \in [Conn -> Mark], p \in [DOMAIN pipe -> Mark] : MarkedInv(b, s, p)
    BY DEF EgressInv
  <1>2. UNCHANGED <<open, total, sent, pre, pipe, counted, seed>>
    BY ElapseFacts DEF EgressInv
  <1>3. \A c \in Conn :
           /\ Pending(c) = {} /\ Pending(c)' = {}
           /\ latest'[c] = Absent <=> latest[c] = Absent
           /\ latest[c] # Absent => latest'[c].b = latest[c].b
           /\ base'[c] = Absent <=> base[c] = Absent
           /\ base[c] # Absent => base'[c].b = base[c].b
           /\ open[c] /\ Recent(latest[c], quiet[c]) => Recent(latest'[c], quiet'[c])
           /\ open[c] /\ Recent(base[c], quiet[c]) => Recent(base'[c], quiet'[c])
    BY ElapseFacts DEF EgressInv
  <1>4. Cold' = Cold
    BY <1>2 DEF Cold
  <1>5. ASSUME NEW c \in Conn
        PROVE  ChainInv(c, b[c], s[c], p)' /\ DropInv(c, b[c], p)' /\ ChargeInv(c, b[c], s[c], p)'
    <2>1. ChainInv(c, b[c], s[c], p) /\ DropInv(c, b[c], p) /\ ChargeInv(c, b[c], s[c], p)
      BY <1>1 DEF MarkedInv
    <2>2. ChainInv(c, b[c], s[c], p)'
      BY <2>1, <1>2, <1>3 DEF ChainInv
    <2>3. DropInv(c, b[c], p)'
      BY <2>1, <1>2, <1>3 DEF DropInv
    <2>4. ChargeInv(c, b[c], s[c], p)'
      BY <2>1, <1>2, <1>3, <1>4 DEF ChargeInv
    <2>5. QED
      BY <2>2, <2>3, <2>4
  <1>6. MarkedInv(b, s, p)'
    BY <1>5 DEF MarkedInv
  <1>7. QED
    BY <1>1, <1>2, <1>6 DEF EgressInv

\* A tick moves a mark from the snapshot, or from the kernel, to the baseline,
\* and counts no more than what lies between the two.
LEMMA TickEgress ==
    ASSUME SkipInv, EgressInv, SocketInv', WarmInv', RowGap <= Ttl, Orderly(machine), Tick
    PROVE  EgressInv'
  <1>1. PICK b, s \in [Conn -> Mark], p \in [DOMAIN pipe -> Mark] : MarkedInv(b, s, p)
    BY DEF EgressInv
  <1>2. PICK flows \in Flows :
           /\ counted' = [c \in Conn |->
                 IF c \in DOMAIN flows THEN Saturated(counted[c] + Charged(flows)[c])
                 ELSE counted[c]]
           /\ base' = Rebase(flows)
           /\ seed' = IF warmup
                      THEN [c \in Conn |-> IF c \in DOMAIN flows THEN flows[c] ELSE 0]
                      ELSE seed
    BY DEF Tick
  <1>3. /\ machine.prompt => pipe = <<>>
        /\ latest' = [c \in Conn |-> IF c \in Fresh THEN latest[c] ELSE Absent]
        /\ UNCHANGED <<open, total, sent, pre, pipe, quiet>>
        /\ RowGap \in Nat /\ Ttl \in Nat /\ MaxCounted \in Nat
    BY FlowAssumption DEF Tick, env
  <1>4. PICK m \in [Conn -> Mark] : \A c \in Conn :
           m[c] = IF c \in DOMAIN flows THEN (IF c \in Fresh THEN s[c] ELSE sent[c]) ELSE b[c]
    <2>1. \A c \in Conn : sent[c] \in Mark
      BY Values DEF SkipInv, CounterInv, Mark
    <2> DEFINE r == [c \in Conn |->
           IF c \in DOMAIN flows THEN (IF c \in Fresh THEN s[c] ELSE sent[c]) ELSE b[c]]
    <2>2. r \in [Conn -> Mark]
      BY <1>1, <2>1
    <2>3. QED
      BY <2>2
  <1>5. \A c \in Conn : Pending(c)' = Pending(c)
    BY <1>3 DEF Pending
  <1>6. ASSUME NEW c \in Conn, c \in DOMAIN flows
        PROVE  ChainInv(c, m[c], s[c], p)' /\ DropInv(c, m[c], p)' /\ ChargeInv(c, m[c], s[c], p)'
    <2> DEFINE v == flows[c]
    <2>1. ChainInv(c, b[c], s[c], p) /\ DropInv(c, b[c], p) /\ ChargeInv(c, b[c], s[c], p)
      BY <1>1 DEF MarkedInv
    <2>2. v \in Nat /\ v <= MaxCounted
      BY <1>6, FlowsType, Numbers DEF SkipInv, Counter
    <2>3. \/ c \in Fresh /\ v = latest[c].b /\ m[c] = s[c]
          \/ c \notin Fresh /\ pipe = <<>> /\ open[c] /\ v = total[c] /\ m[c] = sent[c]
      <3>1. \/ c \in Fresh /\ flows[c] = latest[c].b
            \/ Fresh = {} /\ pipe = <<>> /\ open[c] /\ flows[c] = total[c]
        BY <1>6, <1>3, FlowsOrderly DEF EgressInv
      <3>2. QED
        BY <3>1, <1>4, <1>6
    <2>4. base'[c] # Absent /\ base'[c].b = v /\ base'[c].age = 0
      <3>1. base'[c] = [b |-> v, age |-> 0]
        BY <1>2, <1>6 DEF Rebase
      <3>2. base'[c] \in Entry
        BY <3>1, <2>2, <1>3 DEF Entry, Counter
      <3>3. QED
        BY <3>1, <3>2, Numbers
    <2>5. /\ counted'[c] = Saturated(counted[c] + Delta(base[c], v, warmup))
          /\ seed'[c] = IF warmup THEN v ELSE seed[c]
      BY <1>2, <1>6 DEF Charged
    <2>6. /\ m[c] \in Nat /\ b[c] \in Nat /\ s[c] \in Nat /\ sent[c] \in Nat
          /\ counted[c] \in Nat /\ warmup \in BOOLEAN /\ seed[c] \in Nat /\ pre[c] \in Nat
          /\ total[c] \in Nat /\ (base[c] # Absent => base[c].b \in Nat)
      BY <1>1, <1>4, MarkIsNat, Values DEF SkipInv, BookInv
    <2> HIDE DEF v
    <2>7. Adds(v, v) = 0 /\ m[c] + 0 <= m[c]
      BY <2>2, <2>6, AddsFacts
    <2>8. m[c] <= sent[c]
      BY <2>1, <2>3, <2>6 DEF ChainInv, Fresh
    <2>9. ChainInv(c, m[c], s[c], p)'
      <3>1. CASE c \in Fresh /\ v = latest[c].b /\ m[c] = s[c]
        <4>1. latest'[c] = latest[c] /\ latest[c] # Absent
          BY <3>1, <1>3 DEF Fresh
        <4>2. Between(v, m[c], v, s[c])
          BY <3>1, <2>7 DEF Between
        <4>3. QED
          BY <2>1, <2>4, <2>8, <3>1, <4>1, <4>2, <1>3, <1>5 DEF ChainInv
      <3>2. CASE c \notin Fresh /\ pipe = <<>> /\ open[c] /\ v = total[c] /\ m[c] = sent[c]
        <4>1. latest'[c] = Absent /\ Pending(c) = {}
          BY <3>2, <1>3 DEF Pending
        <4>2. Between(v, m[c], total[c], sent[c])
          BY <3>2, <2>7 DEF Between
        <4>3. QED
          BY <2>4, <2>8, <4>1, <4>2, <1>3, <1>5 DEF ChainInv
      <3>3. QED
        BY <2>3, <3>1, <3>2
    <2>10. DropInv(c, m[c], p)'
      <3>1. quiet[c] \in Nat
        BY DEF EgressInv, SocketInv
      <3>2. Recent(base'[c], RowGap) /\ Recent(base'[c], quiet[c])
        BY <3>1, <2>4, <1>3 DEF Recent
      <3>3. QED
        BY <3>2, <1>3 DEF DropInv
    <2>11. ASSUME c \notin Cold' PROVE counted'[c] <= m[c]
      <3> DEFINE n == counted[c] + Delta(base[c], v, warmup)
      <3>1. CASE warmup
        <4>1. n = 0
          BY <3>1, <2>2 DEF EgressInv, WarmInv, SkipInv, BookInv, Delta
        <4>2. QED
          BY <4>1, <2>5, <2>6, <1>3 DEF Saturated
      <3>2. CASE ~warmup /\ base[c] = Absent
        <4>1. n = counted[c] + v /\ c \notin Cold
          BY <3>2, <2>5, <2>11, <1>3 DEF Delta, Cold
        <4>2. counted[c] + v <= m[c]
          BY <2>1, <2>3, <3>2, <4>1 DEF ChargeInv, Fresh
        <4>3. QED
          BY <4>1, <4>2, <2>2, <2>5, <2>6, <1>3 DEF Saturated
      <3>3. CASE ~warmup /\ base[c] # Absent
        <4>1. n = counted[c] + Adds(base[c].b, v) /\ c \notin Cold
          BY <3>3, <2>5, <2>11, <1>3 DEF Delta, Cold, Adds
        <4>2. Between(base[c].b, b[c], v, m[c])
          BY <2>1, <2>3, <3>3 DEF ChainInv, Fresh
        <4>3. counted[c] <= b[c]
          BY <2>1, <3>3, <4>1 DEF ChargeInv
        <4>4. Adds(base[c].b, v) \in Nat
          BY <2>2, <2>6, <3>3, AddsFacts
        <4>5. counted[c] + Adds(base[c].b, v) <= m[c]
          BY <4>2, <4>3, <4>4, <2>6 DEF Between
        <4>6. QED
          BY <4>1, <4>4, <4>5, <2>5, <2>6, <1>3 DEF Saturated
      <3>4. QED
        BY <3>1, <3>2, <3>3, <2>6
    <2>12. ChargeInv(c, m[c], s[c], p)'
      <3>1. counted'[c] \in Nat
        <4>1. Delta(base[c], v, warmup) \in Nat
          BY <2>2, <2>6 DEF Delta
        <4>2. QED
          BY <4>1, <2>5, <2>6, <1>3 DEF Saturated
      <3>2. c \notin Cold' => counted'[c] <= sent[c]
        BY <3>1, <2>6, <2>8, <2>11
      <3>3. QED
        BY <3>2, <2>4, <2>11, <1>3 DEF ChargeInv
    <2>13. QED
      BY <2>9, <2>10, <2>12
  <1>7. ASSUME NEW c \in Conn, c \notin DOMAIN flows
        PROVE  ChainInv(c, m[c], s[c], p)' /\ DropInv(c, m[c], p)' /\ ChargeInv(c, m[c], s[c], p)'
    <2>1. ChainInv(c, b[c], s[c], p) /\ DropInv(c, b[c], p) /\ ChargeInv(c, b[c], s[c], p)
      BY <1>1 DEF MarkedInv
    <2>2. c \notin Fresh
      BY <1>3, <1>7, FlowsOrderly DEF EgressInv
    <2>3. /\ counted'[c] = counted[c] /\ latest'[c] = Absent /\ m[c] = b[c]
          /\ base'[c] = IF base[c] # Absent /\ base[c].age > Ttl THEN Absent ELSE base[c]
      BY <2>2, <1>2, <1>3, <1>4, <1>7 DEF Rebase
    <2>4. c \in Cold' <=> c \in Cold
      <3>1. seed'[c] = seed[c]
        BY <1>2, <1>7 DEF EgressInv, WarmInv
      <3>2. QED
        BY <3>1, <1>3 DEF Cold
    <2>5. ~Recent(latest[c], RowGap) /\ ~Recent(latest[c], quiet[c]) /\ quiet[c] \in 0 .. RowGap
      <3>1. quiet[c] \in 0 .. RowGap
        BY DEF EgressInv, SocketInv
      <3>2. latest[c] # Absent => latest[c].age \in Nat /\ latest[c].age > Ttl
        BY <2>2, <1>3, Values DEF Fresh
      <3>3. QED
        BY <3>1, <3>2, <1>3 DEF Recent
    <2>6. ChainInv(c, m[c], s[c], p)'
      BY <2>1, <2>3, <1>3, <1>5 DEF ChainInv
    <2>7. DropInv(c, m[c], p)'
      <3>1. base'[c] # Absent => base'[c] = base[c]
        BY <2>3
      <3>2. QED
        BY <2>1, <2>3, <2>5, <3>1, <1>3, <1>5 DEF DropInv
    <2>8. ChargeInv(c, m[c], s[c], p)'
      <3>1. CASE base'[c] = base[c]
        BY <3>1, <2>1, <2>3, <2>4, <1>3, <1>5 DEF ChargeInv
      <3>2. CASE base[c] # Absent /\ base[c].age > Ttl
        <4>1. base'[c] = Absent /\ ~Recent(base[c], RowGap) /\ ~Recent(base[c], quiet[c])
          BY <3>2, <2>3, <2>5, <1>3, Values DEF Recent
        <4>2. \A i \in Pending(c) : b[c] + pipe[i].b <= p[i] /\ p[i] \in Nat /\ pipe[i].b \in Nat
          BY <2>1, <2>5, <3>2, <4>1, <1>1, MarkIsNat, Values DEF DropInv, Pending
        <4>3. open[c] => b[c] + total[c] <= sent[c]
          BY <2>1, <2>5, <3>2, <4>1 DEF DropInv
        <4>4. b[c] \in Nat /\ counted[c] \in Nat /\ total[c] \in Nat /\ sent[c] \in Nat
          BY <1>1, MarkIsNat, Values
        <4>5. c \notin Cold => counted[c] <= b[c] /\ counted[c] <= sent[c]
          BY <2>1, <3>2 DEF ChargeInv
        <4>6. c \notin Cold => /\ \A i \in Pending(c) : counted[c] + pipe[i].b <= p[i]
                               /\ open[c] => counted[c] + total[c] <= sent[c]
          BY <4>2, <4>3, <4>4, <4>5
        <4>7. QED
          BY <4>1, <4>5, <4>6, <2>3, <2>4, <1>3, <1>5 DEF ChargeInv
      <3>3. QED
        BY <2>3, <3>1, <3>2
    <2>9. QED
      BY <2>6, <2>7, <2>8
  <1>8. MarkedInv(m, s, p)'
    BY <1>6, <1>7 DEF MarkedInv
  <1>9. QED
    BY <1>1, <1>3, <1>4, <1>8 DEF EgressInv

(* sentinel.py:441-456, a connection must not "manufacture egress": through  *)
(* closing, ageing out, ports used again, stream and fallback, no key is    *)
(* charged with more than was sent under it, for every set of connections,  *)
(* every Ttl, and machines as in CountedExactlyOnceHolds.                   *)
THEOREM NoManufacturedEgressHolds ==
    ASSUME RowGap <= Ttl, \A m \in Machines : Orderly(m)
    PROVE  Spec => []NoManufacturedEgress
  <1> DEFINE Inv == SkipInv /\ ExactInv /\ EgressInv
  <1>1. Init => Inv
    BY InitSkip, InitExact, InitEgress
  <1>2. Inv /\ [Next]_vars => Inv'
    <2> SUFFICES ASSUME Inv, [Next]_vars PROVE EgressInv'
      BY NextSkip, NextExact
    <2>1. SkipInv'
      BY NextSkip
    <2>2. Orderly(machine)
      BY DEF EgressInv, SocketInv
    <2>3. SocketInv' /\ WarmInv'
      BY NextExact DEF ExactInv
    <2>4. ASSUME NEW c \in Conn, Send(c) \/ Close(c) \/ Open(c) \/ Emit(c) PROVE EgressInv'
      BY <2>3, <2>4, SendEgress, CloseEgress, OpenEgress, EmitEgress
    <2>5. ASSUME NEW d \in Steps, Elapse(d) PROVE EgressInv'
      BY <2>3, <2>5, ElapseEgress
    <2>6. CASE Feed
      BY <2>1, <2>3, <2>6, FeedEgress
    <2>7. CASE Tick
      BY <2>1, <2>2, <2>3, <2>7, TickEgress
    <2>8. CASE Sleep \/ TickThrows
      BY <2>2, <2>8 DEF Sleep, TickThrows, Orderly
    <2>9. CASE UNCHANGED vars
      <3>1. PICK b, s \in [Conn -> Mark], p \in [DOMAIN pipe -> Mark] : MarkedInv(b, s, p)
        BY DEF EgressInv
      <3>2. MarkedInv(b, s, p)'
        BY <3>1, <2>9 DEF vars, env, book, MarkedInv, ChainInv, DropInv, ChargeInv, Pending,
                          Recent, Cold
      <3>3. pipe' = pipe
        BY <2>9 DEF vars
      <3>4. QED
        BY <3>1, <3>2, <3>3, <2>1, <2>3 DEF EgressInv
    <2>10. QED
      BY <2>1, <2>4, <2>5, <2>6, <2>7, <2>8, <2>9 DEF Next
  <1>3. Inv => NoManufacturedEgress
    BY DEF EgressInv, MarkedInv, ChargeInv, NoManufacturedEgress
  <1>4. QED
    BY <1>1, <1>2, <1>3, PTL DEF Spec

-----------------------------------------------------------------------------
(* ActivityTail.  First, what an operator like Those makes of a sequence:  *)
(* it is a recursive function, so that these facts are proved by induction *)
(* over a set of numbers.                                                  *)

LEMMA Induction ==
    ASSUME NEW S \in SUBSET Nat, 0 \in S, \A n \in S : n + 1 \in S
    PROVE  S = Nat
  <1> SUFFICES ASSUME Nat \ S # {} PROVE FALSE
    OBVIOUS
  <1>1. PICK R : R = OpToRel(<, Nat)
    OBVIOUS
  <1>2. PICK n \in Nat \ S : \A m \in Nat \ S : ~ (<<m, n>> \in R)
    <2>1. IsWellFoundedOn(R, Nat)
      BY <1>1, NatLessThanWellFounded
    <2>2. Nat \ S \subseteq Nat
      OBVIOUS
    <2>3. QED
      BY <2>1, <2>2, WFMin
  <1>3. n # 0 /\ n - 1 \in Nat
    BY <1>2
  <1>4. <<n - 1, n>> \in R
    BY <1>1, <1>2, <1>3 DEF OpToRel
  <1>5. n - 1 \in S
    BY <1>2, <1>3, <1>4
  <1>6. (n - 1) + 1 = n
    BY <1>2
  <1>7. QED
    BY <1>2, <1>5, <1>6

\* What holds at 0 and is handed on, up to d.
LEMMA Upward ==
    ASSUME NEW d \in Nat, NEW S \in SUBSET Nat, 0 \in S,
           \A n \in Nat : n < d /\ n \in S => n + 1 \in S
    PROVE  \A n \in 0 .. d : n \in S
  <1>1. PICK T : T = {n \in Nat : n <= d => n \in S}
    OBVIOUS
  <1>2. T = Nat
    <2>1. T \in SUBSET Nat /\ 0 \in T /\ \A n \in T : n + 1 \in T
      BY <1>1
    <2>2. QED
      BY <2>1, Induction
  <1>3. QED
    BY <1>1, <1>2

\* f begins with a and goes on as G says.
Goes(f, a, G, d) == f = [n \in 0 .. d |-> IF n = 0 THEN a ELSE G[<<f[n - 1], n>>]]

LEMMA Recursion ==
    ASSUME NEW X, NEW a \in X, NEW G \in [X \X Nat -> X], NEW d \in Nat
    PROVE  \E f \in [0 .. d -> X] : Goes(f, a, G, d)
  <1> DEFINE Good == {k \in Nat : \E f \in [0 .. k -> X] : Goes(f, a, G, k)}
  <1>1. 0 \in Good
    <2>1. PICK f : f = [n \in 0 .. 0 |-> a]
      OBVIOUS
    <2>2. f \in [0 .. 0 -> X] /\ f = [n \in 0 .. 0 |-> IF n = 0 THEN a ELSE G[<<f[n - 1], n>>]]
      BY <2>1
    <2>3. QED
      BY <2>2 DEF Goes
  <1>2. ASSUME NEW k \in Good
        PROVE  k + 1 \in Good
    <2>1. PICK f \in [0 .. k -> X] : Goes(f, a, G, k)
      OBVIOUS
    <2>2. PICK g : g = [n \in 0 .. k + 1 |-> IF n <= k THEN f[n] ELSE G[<<f[k], k + 1>>]]
      OBVIOUS
    <2>3. k \in Nat /\ <<f[k], k + 1>> \in X \X Nat
      BY <2>1
    <2>4. g \in [0 .. k + 1 -> X]
      <3>1. \A n \in 0 .. k + 1 : (IF n <= k THEN f[n] ELSE G[<<f[k], k + 1>>]) \in X
        BY <2>1, <2>3
      <3>2. QED
        BY <2>2, <3>1
    <2>5. ASSUME NEW n \in 0 .. k + 1
          PROVE  g[n] = IF n = 0 THEN a ELSE G[<<g[n - 1], n>>]
      <3>1. CASE n = 0
        BY <2>1, <2>2, <2>3, <3>1 DEF Goes
      <3>2. CASE n \in 1 .. k
        <4>1. n \in 0 .. k /\ n - 1 \in 0 .. k /\ n # 0 /\ n \in 0 .. k + 1 /\ n - 1 \in 0 .. k + 1
          BY <2>3, <3>2
        <4>2. g[n] = f[n] /\ g[n - 1] = f[n - 1]
          BY <2>2, <4>1
        <4>3. f[n] = G[<<f[n - 1], n>>]
          BY <2>1, <4>1 DEF Goes
        <4>4. QED
          BY <4>1, <4>2, <4>3
      <3>3. CASE n = k + 1
        <4>1. g[k + 1] = G[<<f[k], k + 1>>] /\ g[k] = f[k] /\ n - 1 = k /\ n # 0
          BY <2>2, <2>3, <3>3
        <4>2. QED
          BY <3>3, <4>1
      <3>4. QED
        BY <2>3, <3>1, <3>2, <3>3
    <2>6. g = [n \in 0 .. k + 1 |-> g[n]]
      BY <2>4
    <2>7. Goes(g, a, G, k + 1)
      BY <2>5, <2>6, Zenon DEF Goes
    <2>8. QED
      BY <2>3, <2>4, <2>7
  <1>3. Good = Nat
    <2>1. Good \in SUBSET Nat
      OBVIOUS
    <2> HIDE DEF Good
    <2>2. QED
      BY <1>1, <1>2, <2>1, Induction
  <1>4. QED
    BY <1>3

\* A finite set of numbers that is not empty has a greatest one.
LEMMA Greatest ==
    ASSUME NEW n \in Nat, NEW T \in SUBSET (0 .. n), T # {}
    PROVE  Max(T) \in T /\ \A x \in T : x <= Max(T)
  <1>1. PICK R : R = OpToRel(<, Nat)
    OBVIOUS
  <1>2. PICK U : U = {n - x : x \in T}
    OBVIOUS
  <1>3. U \subseteq Nat /\ U # {}
    <2>1. \A x \in T : n - x \in Nat
      OBVIOUS
    <2>2. QED
      BY <1>2, <2>1
  <1>4. PICK m \in U : \A k \in U : ~ (<<k, m>> \in R)
    <2>1. IsWellFoundedOn(R, Nat)
      BY <1>1, NatLessThanWellFounded
    <2>2. QED
      BY <1>3, <2>1, WFMin
  <1>5. ASSUME NEW k \in U
        PROVE  m <= k
    <2>1. k \in Nat /\ m \in Nat /\ ~ (<<k, m>> \in R)
      BY <1>3, <1>4
    <2>2. k < m => <<k, m>> \in R
      BY <1>1, <2>1 DEF OpToRel
    <2>3. QED
      BY <2>1, <2>2
  <1>6. n - m \in T /\ \A x \in T : x <= n - m
    <2>1. PICK y \in T : m = n - y
      BY <1>2
    <2>2. \A x \in T : n - x \in U /\ m <= n - x
      BY <1>2, <1>5
    <2>3. QED
      BY <2>1, <2>2
  <1>7. \E x \in T : \A y \in T : x >= y
    BY <1>6
  <1>8. Max(T) \in T /\ \A y \in T : Max(T) >= y
    BY <1>7 DEF Max
  <1>9. QED
    BY <1>8

\* The piece of a sequence after place m, up to place n.
LEMMA Piece ==
    ASSUME NEW X, NEW s, NEW n \in Nat, NEW m \in 0 .. n, \A i \in m + 1 .. n : s[i] \in X,
           NEW t, t = SubSeq(s, m + 1, n)
    PROVE  /\ t \in Seq(X) /\ Len(t) = n - m
           /\ \A i \in 1 .. n - m : t[i] = s[i + m]
  <1>1. /\ t \in Seq(X) /\ Len(t) = (IF m + 1 <= n THEN n - (m + 1) + 1 ELSE 0)
        /\ \A i \in 1 .. n - (m + 1) + 1 : t[i] = s[m + 1 + i - 1]
    BY SubSeqProperties
  <1>2. Len(t) = n - m
    BY <1>1
  <1>3. ASSUME NEW i \in 1 .. n - m
        PROVE  t[i] = s[i + m]
    <2>1. i \in 1 .. n - (m + 1) + 1 /\ m + 1 + i - 1 = i + m
      OBVIOUS
    <2>2. QED
      BY <1>1, <2>1
  <1>4. QED
    BY <1>1, <1>2, <1>3

-----------------------------------------------------------------------------
(* The elements of a sequence at some places: Those.                       *)

Rising(s) == \A m, n \in 1 .. Len(s) : m < n => s[m] < s[n]

\* f goes through s as Those does.
Collects(f, s, D) ==
  f = [n \in 0 .. Len(s) |-> IF n = 0 THEN <<>>
                             ELSE IF n \in D THEN Append(f[n - 1], s[n]) ELSE f[n - 1]]

LEMMA CollectsExist ==
    ASSUME NEW X, NEW s \in Seq(X), NEW D
    PROVE  \E f : Collects(f, s, D)
  <1>0. PICK d \in Nat : d = Len(s)
    OBVIOUS
  <1>1. PICK G : G = [x \in Seq(X) \X Nat |->
                         IF x[2] \in D /\ x[2] \in 1 .. d THEN Append(x[1], s[x[2]]) ELSE x[1]]
    OBVIOUS
  <1>2. \A r \in Seq(X), n \in Nat :
           G[<<r, n>>] = IF n \in D /\ n \in 1 .. d THEN Append(r, s[n]) ELSE r
    BY <1>1
  <1>3. G \in [Seq(X) \X Nat -> Seq(X)]
    <2>1. ASSUME NEW r \in Seq(X), NEW n \in Nat
          PROVE  (IF n \in D /\ n \in 1 .. d THEN Append(r, s[n]) ELSE r) \in Seq(X)
      <3>1. CASE n \in 1 .. d
        <4>1. s[n] \in X
          BY <1>0, <3>1, ElementOfSeq
        <4>2. Append(r, s[n]) \in Seq(X)
          BY <4>1
        <4>3. QED
          BY <4>2
      <3>2. CASE n \notin 1 .. d
        BY <3>2
      <3>3. QED
        BY <3>1, <3>2
    <2>2. QED
      BY <1>1, <2>1
  <1>4. <<>> \in Seq(X)
    OBVIOUS
  <1>5. PICK f \in [0 .. d -> Seq(X)] : Goes(f, <<>>, G, d)
    BY <1>3, <1>4, Recursion
  <1>6. \A n \in 0 .. d : f[n] = IF n = 0 THEN <<>> ELSE G[<<f[n - 1], n>>]
    BY <1>5 DEF Goes
  <1>7. ASSUME NEW n \in 0 .. d
        PROVE  f[n] = IF n = 0 THEN <<>> ELSE IF n \in D THEN Append(f[n - 1], s[n]) ELSE f[n - 1]
    <2>1. n # 0 => n - 1 \in 0 .. d /\ n \in Nat /\ n \in 1 .. d
      OBVIOUS
    <2>2. n # 0 => f[n - 1] \in Seq(X)
      BY <1>5, <2>1
    <2>3. QED
      BY <1>2, <1>6, <2>1, <2>2
  <1>8. f = [n \in 0 .. d |-> f[n]]
    BY <1>5
  <1>9. Collects(f, s, D)
    BY <1>0, <1>7, <1>8, Zenon DEF Collects
  <1>10. QED
    BY <1>9

\* The places of the elements of r among the first n of s.
Picks(r, pos, s, D, n) ==
  /\ pos \in Seq(Nat) /\ Len(pos) = Len(r)
  /\ \A k \in 1 .. Len(r) : pos[k] \in 1 .. n /\ pos[k] \in D /\ r[k] = s[pos[k]]
  /\ Rising(pos)
  /\ \A i \in 1 .. n : i \in D => \E k \in 1 .. Len(r) : pos[k] = i

LEMMA PicksNext ==
    ASSUME NEW X, NEW s \in Seq(X), NEW D, NEW n \in Nat, n < Len(s),
           NEW r \in Seq(X), NEW pos, Picks(r, pos, s, D, n),
           NEW q, q = IF n + 1 \in D THEN Append(r, s[n + 1]) ELSE r
    PROVE  q \in Seq(X) /\ \E p : Picks(q, p, s, D, n + 1)
  <1>1. /\ pos \in Seq(Nat) /\ Len(pos) = Len(r) /\ Len(r) \in Nat
        /\ \A k \in 1 .. Len(r) : pos[k] \in 1 .. n /\ pos[k] \in D /\ r[k] = s[pos[k]]
        /\ \A i \in 1 .. n : i \in D => \E k \in 1 .. Len(r) : pos[k] = i
    BY DEF Picks
  <1>2. 1 .. n \subseteq 1 .. n + 1 /\ n + 1 \in 1 .. n + 1 /\ n + 1 \in Nat
    OBVIOUS
  <1>3. s[n + 1] \in X
    <2>1. n + 1 \in 1 .. Len(s)
      OBVIOUS
    <2>2. QED
      BY <2>1, ElementOfSeq
  <1>5. CASE n + 1 \in D
    <2>1. PICK p : p = Append(pos, n + 1)
      OBVIOUS
    <2>2. PICK l \in Nat : l = Len(r)
      BY <1>1
    <2>3. /\ p \in Seq(Nat) /\ Len(p) = l + 1 /\ p[l + 1] = n + 1
          /\ \A k \in 1 .. l : p[k] = pos[k]
      BY <1>1, <1>2, <2>1, <2>2
    <2>4. /\ q \in Seq(X) /\ Len(q) = l + 1 /\ q[l + 1] = s[n + 1]
          /\ \A k \in 1 .. l : q[k] = r[k]
      BY <1>3, <1>5, <2>2
    <2>5. ASSUME NEW k \in 1 .. l + 1
          PROVE  p[k] \in 1 .. n + 1 /\ p[k] \in D /\ q[k] = s[p[k]]
      <3>1. CASE k = l + 1
        BY <1>2, <1>5, <2>3, <2>4, <3>1
      <3>2. CASE k # l + 1
        <4>1. k \in 1 .. l
          BY <3>2
        <4>2. QED
          BY <1>1, <1>2, <2>2, <2>3, <2>4, <4>1
      <3>3. QED
        BY <3>1, <3>2
    <2>6. ASSUME NEW a \in 1 .. l + 1, NEW b \in 1 .. l + 1, a < b
          PROVE  p[a] < p[b]
      <3>1. a \in 1 .. l /\ p[a] = pos[a] /\ pos[a] \in 1 .. n
        <4>1. a \in 1 .. l
          BY <2>6
        <4>2. QED
          BY <1>1, <2>2, <2>3, <4>1
      <3>2. CASE b = l + 1
        BY <2>3, <3>1, <3>2
      <3>3. CASE b # l + 1
        <4>1. b \in 1 .. l
          BY <3>3
        <4>2. pos[a] < pos[b]
          BY <1>1, <2>2, <2>6, <3>1, <4>1 DEF Picks, Rising
        <4>3. QED
          BY <2>3, <3>1, <4>1, <4>2
      <3>4. QED
        BY <3>2, <3>3
    <2>7. ASSUME NEW i \in 1 .. n + 1, i \in D
          PROVE  \E k \in 1 .. l + 1 : p[k] = i
      <3>1. CASE i = n + 1
        <4>1. l + 1 \in 1 .. l + 1
          OBVIOUS
        <4>2. QED
          BY <2>3, <3>1, <4>1
      <3>2. CASE i # n + 1
        <4>1. i \in 1 .. n
          BY <3>2
        <4>2. PICK k \in 1 .. l : pos[k] = i
          BY <1>1, <2>2, <2>7, <4>1
        <4>3. k \in 1 .. l + 1 /\ p[k] = i
          BY <2>3, <4>2
        <4>4. QED
          BY <4>3
      <3>3. QED
        BY <3>1, <3>2
    <2>8. Picks(q, p, s, D, n + 1)
      BY <2>3, <2>4, <2>5, <2>6, <2>7 DEF Picks, Rising
    <2>9. QED
      BY <2>4, <2>8
  <1>6. CASE n + 1 \notin D
    <2>1. q = r
      BY <1>6
    <2>2. \A i \in 1 .. n + 1 : i \in D => i \in 1 .. n
      BY <1>6
    <2>3. Picks(q, pos, s, D, n + 1)
      BY <1>1, <1>2, <2>1, <2>2 DEF Picks
    <2>4. QED
      BY <2>1, <2>3
  <1>7. QED
    BY <1>5, <1>6

LEMMA ThoseFacts ==
    ASSUME NEW X, NEW s \in Seq(X), NEW D
    PROVE  Those(s, D) \in Seq(X) /\ \E pos : Picks(Those(s, D), pos, s, D, Len(s))
  <1>1. PICK f : Collects(f, s, D) /\ Those(s, D) = f[Len(s)]
    <2>1. PICK f : f = CHOOSE g : Collects(g, s, D)
      OBVIOUS
    <2>2. Collects(f, s, D)
      BY <2>1, CollectsExist
    <2>3. Those(s, D) = f[Len(s)]
      BY <2>1 DEF Those, Collects
    <2>4. QED
      BY <2>2, <2>3
  <1>2. PICK d \in Nat : d = Len(s)
    OBVIOUS
  <1>3. \A n \in 0 .. d : f[n] = IF n = 0 THEN <<>>
                                 ELSE IF n \in D THEN Append(f[n - 1], s[n]) ELSE f[n - 1]
    BY <1>1, <1>2 DEF Collects
  <1> DEFINE S == {n \in Nat : n <= d => f[n] \in Seq(X) /\ \E pos : Picks(f[n], pos, s, D, n)}
  <1>4. 0 \in S
    <2>1. f[0] = <<>> /\ 1 .. 0 = {}
      BY <1>3
    <2>2. PICK e : e = <<>>
      OBVIOUS
    <2>3. e \in Seq(Nat) /\ e \in Seq(X) /\ Len(e) = 0 /\ 1 .. Len(e) = {}
      BY <2>2
    <2>4. Picks(e, e, s, D, 0)
      BY <2>1, <2>3 DEF Picks, Rising
    <2>5. QED
      BY <2>1, <2>2, <2>3, <2>4
  <1>5. ASSUME NEW n \in Nat, n < d, n \in S
        PROVE  n + 1 \in S
    <2>1. PICK pos : Picks(f[n], pos, s, D, n)
      BY <1>5
    <2>2. n + 1 \in 0 .. d /\ n + 1 # 0 /\ (n + 1) - 1 = n /\ f[n] \in Seq(X) /\ n < Len(s)
      BY <1>2, <1>5
    <2>3. f[n + 1] = IF n + 1 \in D THEN Append(f[n], s[n + 1]) ELSE f[n]
      BY <1>3, <2>2
    <2>4. f[n + 1] \in Seq(X) /\ \E p : Picks(f[n + 1], p, s, D, n + 1)
      BY <2>1, <2>2, <2>3, PicksNext
    <2>5. QED
      BY <2>4
  <1>6. S \in SUBSET Nat
    OBVIOUS
  <1> HIDE DEF S
  <1>7. \A n \in 0 .. d : n \in S
    BY <1>4, <1>5, <1>6, Upward
  <1>8. d \in S
    BY <1>7
  <1>9. f[d] \in Seq(X) /\ \E pos : Picks(f[d], pos, s, D, d)
    BY <1>8 DEF S
  <1>10. QED
    BY <1>1, <1>2, <1>9

\* Two rising sequences of the same numbers are one.
Within(a, b)   == \A m \in 1 .. Len(a) : \E n \in 1 .. Len(b) : b[n] = a[m]
Agree(a, b, k) == \A i \in 1 .. k : i <= Len(a) => i <= Len(b) /\ a[i] = b[i]

LEMMA AgreeNext ==
    ASSUME NEW a \in Seq(Nat), NEW b \in Seq(Nat), Rising(a), Rising(b), Within(a, b),
           NEW k \in Nat, Agree(a, b, k), k + 1 <= Len(a)
    PROVE  k + 1 <= Len(b) /\ b[k + 1] <= a[k + 1]
  <1>1. k + 1 \in 1 .. Len(a) /\ Len(b) \in Nat /\ Len(a) \in Nat
    OBVIOUS
  <1>2. PICK n \in 1 .. Len(b) : b[n] = a[k + 1]
    BY <1>1 DEF Within
  <1>3. n > k
    <2>1. ASSUME n <= k PROVE FALSE
      <3>1. n \in 1 .. k /\ n \in 1 .. Len(a) /\ n < k + 1
        BY <1>1, <2>1
      <3>2. a[n] = b[n] /\ a[n] < a[k + 1]
        BY <1>1, <3>1 DEF Agree, Rising
      <3>3. a[n] \in Nat
        BY <3>1, ElementOfSeq
      <3>4. QED
        BY <1>2, <3>2, <3>3
    <2>2. QED
      BY <1>1, <2>1
  <1>4. k + 1 \in 1 .. Len(b)
    BY <1>1, <1>3
  <1>5. b[n] \in Nat /\ b[k + 1] \in Nat
    BY <1>4, ElementOfSeq
  <1>6. n = k + 1 \/ b[k + 1] < b[n]
    BY <1>3, <1>4 DEF Rising
  <1>7. QED
    BY <1>1, <1>2, <1>4, <1>5, <1>6

LEMMA RisingSame ==
    ASSUME NEW a \in Seq(Nat), NEW b \in Seq(Nat), Rising(a), Rising(b),
           Within(a, b), Within(b, a)
    PROVE  a = b
  <1> DEFINE S == {k \in Nat : Agree(a, b, k) /\ Agree(b, a, k)}
  <1>1. 0 \in S
    BY DEF Agree
  <1>2. ASSUME NEW k \in S
        PROVE  k + 1 \in S
    <2>1. k \in Nat /\ Agree(a, b, k) /\ Agree(b, a, k) /\ Len(a) \in Nat /\ Len(b) \in Nat
      OBVIOUS
    <2>2. k + 1 <= Len(a) => k + 1 <= Len(b) /\ b[k + 1] <= a[k + 1]
      BY <2>1, AgreeNext
    <2>3. k + 1 <= Len(b) => k + 1 <= Len(a) /\ a[k + 1] <= b[k + 1]
      BY <2>1, AgreeNext
    <2>4. k + 1 <= Len(a) => a[k + 1] = b[k + 1]
      <3>1. ASSUME k + 1 <= Len(a)
            PROVE  a[k + 1] = b[k + 1]
        <4>1. k + 1 \in 1 .. Len(a) /\ k + 1 \in 1 .. Len(b)
          BY <2>1, <2>2, <3>1
        <4>2. a[k + 1] \in Nat /\ b[k + 1] \in Nat
          BY <4>1, ElementOfSeq
        <4>3. QED
          BY <2>1, <2>2, <2>3, <3>1, <4>2
      <3>2. QED
        BY <3>1
    <2>5. \A i \in 1 .. k + 1 : i \in 1 .. k \/ i = k + 1
      BY <2>1
    <2>6. Agree(a, b, k + 1)
      BY <2>1, <2>2, <2>4, <2>5 DEF Agree
    <2>7. Agree(b, a, k + 1)
      BY <2>1, <2>2, <2>3, <2>4, <2>5 DEF Agree
    <2>8. QED
      BY <2>1, <2>6, <2>7
  <1>3. S = Nat
    <2>1. S \in SUBSET Nat
      OBVIOUS
    <2> HIDE DEF S
    <2>2. QED
      BY <1>1, <1>2, <2>1, Induction
  <1>4. Len(a) \in S /\ Len(b) \in S /\ Len(a) \in Nat /\ Len(b) \in Nat
    BY <1>3
  <1>5. Len(a) <= Len(b) /\ \A i \in 1 .. Len(a) : a[i] = b[i]
    <2>1. Agree(a, b, Len(a))
      BY <1>4
    <2>2. Len(a) = 0 \/ Len(a) \in 1 .. Len(a)
      BY <1>4
    <2>3. QED
      BY <1>4, <2>1, <2>2 DEF Agree
  <1>6. Len(b) <= Len(a)
    <2>1. Agree(b, a, Len(b))
      BY <1>4
    <2>2. Len(b) = 0 \/ Len(b) \in 1 .. Len(b)
      BY <1>4
    <2>3. QED
      BY <1>4, <2>1, <2>2 DEF Agree
  <1>7. Len(a) = Len(b)
    BY <1>4, <1>5, <1>6
  <1>8. QED
    BY <1>5, <1>7, SeqEqual

LEMMA Mapped ==
    ASSUME NEW n \in Nat, NEW Y, NEW t, t \in [1 .. n -> Y]
    PROVE  t \in Seq(Y) /\ Len(t) = n /\ DOMAIN t = 1 .. n
  <1>1. t \in Seq(Y)
    BY SeqDef
  <1>2. QED
    BY <1>1, LenProperties

\* All of s is s.
LEMMA ThoseAll ==
    ASSUME NEW X, NEW s \in Seq(X), NEW D, \A i \in 1 .. Len(s) : i \in D
    PROVE  Those(s, D) = s
  <1>1. PICK r, pos : r = Those(s, D) /\ r \in Seq(X) /\ Picks(r, pos, s, D, Len(s))
    BY ThoseFacts
  <1>2. PICK one : one = [i \in 1 .. Len(s) |-> i]
    OBVIOUS
  <1>3. one \in Seq(Nat) /\ Len(one) = Len(s) /\ \A i \in 1 .. Len(s) : one[i] = i
    <2>1. one \in [1 .. Len(s) -> Nat]
      BY <1>2
    <2>2. QED
      BY <1>2, <2>1, Mapped
  <1>4. Rising(one)
    BY <1>3 DEF Rising
  <1>5. pos \in Seq(Nat) /\ Rising(pos) /\ Len(pos) = Len(r)
    BY <1>1 DEF Picks
  <1>6. Within(pos, one)
    BY <1>1, <1>3, <1>5 DEF Within, Picks
  <1>7. Within(one, pos)
    BY <1>1, <1>3, <1>5 DEF Within, Picks
  <1>8. pos = one
    BY <1>3, <1>4, <1>5, <1>6, <1>7, RisingSame
  <1>9. Len(r) = Len(s) /\ \A k \in 1 .. Len(r) : r[k] = s[k]
    <2>1. Len(r) = Len(s)
      BY <1>3, <1>5, <1>8
    <2>2. \A k \in 1 .. Len(r) : r[k] = s[pos[k]]
      BY <1>1 DEF Picks
    <2>3. \A k \in 1 .. Len(r) : pos[k] = k
      BY <1>3, <1>8, <2>1
    <2>4. QED
      BY <2>1, <2>2, <2>3
  <1>10. QED
    BY <1>1, <1>9, SeqEqual

\* r holds what of ds is in the window.
InWindow(r, ds) ==
  /\ r \in Seq(Nat) /\ Rising(r)
  /\ \A k \in 1 .. Len(r) : r[k] > expired /\ \E i \in 1 .. Len(ds) : r[k] = ds[i]
  /\ \A i \in 1 .. Len(ds) : ds[i] > expired => \E k \in 1 .. Len(r) : r[k] = ds[i]

\* The window filter keeps the order.
LEMMA KeptFacts ==
    ASSUME NEW ds \in Seq(Nat), Rising(ds), NEW r, r = Kept(ds)
    PROVE  InWindow(r, ds)
  <1>1. PICK D : D = {n \in DOMAIN ds : ds[n] > expired}
    OBVIOUS
  <1>2. r = Those(ds, D) /\ DOMAIN ds = 1 .. Len(ds)
    BY <1>1 DEF Kept
  <1>3. PICK pos : r \in Seq(Nat) /\ Picks(r, pos, ds, D, Len(ds))
    BY <1>2, ThoseFacts
  <1>4. /\ Len(r) \in Nat /\ Len(pos) = Len(r)
        /\ \A k \in 1 .. Len(r) : pos[k] \in 1 .. Len(ds) /\ pos[k] \in D /\ r[k] = ds[pos[k]]
        /\ \A i \in 1 .. Len(ds) : i \in D => \E k \in 1 .. Len(r) : pos[k] = i
    BY <1>3 DEF Picks
  <1>5. Rising(r)
    <2>1. Rising(pos)
      BY <1>3, Zenon DEF Picks
    <2>2. ASSUME NEW a \in 1 .. Len(r), NEW b \in 1 .. Len(r), a < b
          PROVE  r[a] < r[b]
      <3>1. pos[a] < pos[b]
        BY <1>4, <2>1, <2>2 DEF Rising
      <3>2. PICK x, y \in 1 .. Len(ds) : x = pos[a] /\ y = pos[b] /\ r[a] = ds[x] /\ r[b] = ds[y]
        BY <1>4, <2>2
      <3>3. ds[x] < ds[y]
        BY <3>1, <3>2 DEF Rising
      <3>4. QED
        BY <3>2, <3>3
    <2>3. QED
      BY <2>2, Zenon DEF Rising
  <1>6. ASSUME NEW k \in 1 .. Len(r)
        PROVE  r[k] > expired /\ \E i \in 1 .. Len(ds) : r[k] = ds[i]
    <2>1. pos[k] \in 1 .. Len(ds) /\ pos[k] \in D /\ r[k] = ds[pos[k]]
      BY <1>4
    <2>2. ds[pos[k]] > expired
      BY <1>1, <2>1
    <2>3. r[k] > expired
      BY <2>1, <2>2
    <2>4. QED
      BY <2>1, <2>3
  <1>7. ASSUME NEW i \in 1 .. Len(ds), ds[i] > expired
        PROVE  \E k \in 1 .. Len(r) : r[k] = ds[i]
    <2>1. i \in D
      BY <1>1, <1>2, <1>7
    <2>2. PICK k \in 1 .. Len(r) : pos[k] = i
      BY <1>4, <2>1
    <2>3. QED
      BY <1>4, <2>2
  <1>8. QED
    BY <1>3, <1>5, <1>6, <1>7, Zenon DEF InWindow

-----------------------------------------------------------------------------
(* What a refresh makes of the text that it read.                          *)

Str == [id : Nat, part : Parts]
Rec == [id : Nat, as : {"nothing", "malformed", "raises", "declares"}]

\* A line ends before the next one begins.
LinesRise(bs) ==
  \A i, j \in 1 .. Len(bs) : i < j /\ bs[i].part = "nl" => bs[i].id < bs[j].id

LEMMA WholeFacts ==
    ASSUME NEW t \in Seq(Str), NEW w, w = Whole(t)
    PROVE  /\ w \in Seq(Str) /\ Len(w) <= Len(t) /\ \A i \in 1 .. Len(w) : w[i] = t[i]
           /\ Len(w) = 0 \/ w[Len(w)].part = "nl"
           /\ \A i \in 1 .. Len(t) : t[i].part = "nl" => i <= Len(w)
  <1>1. PICK d \in Nat : d = Len(t) /\ DOMAIN t = 1 .. d /\ \A i \in 1 .. d : t[i] \in Str
    BY ElementOfSeq
  <1>2. PICK T : T = {0} \cup Ends(t)
    OBVIOUS
  <1>3. T \in SUBSET (0 .. d) /\ T # {}
    BY <1>1, <1>2 DEF Ends
  <1>4. PICK m : m = Max(T) /\ m \in T /\ \A x \in T : x <= m
    BY <1>3, Greatest
  <1>5. m \in 0 .. d
    BY <1>3, <1>4
  <1>6. w = SubSeq(t, 0 + 1, m)
    BY <1>2, <1>4 DEF Whole
  <1>7. \A i \in 0 + 1 .. m : t[i] \in Str
    BY <1>1, <1>5
  <1>8. w \in Seq(Str) /\ Len(w) = m - 0 /\ \A i \in 1 .. m - 0 : w[i] = t[i + 0]
    <2>1. m \in Nat /\ 0 \in 0 .. m
      BY <1>5
    <2>2. QED
      BY <1>6, <1>7, <2>1, Piece
  <1>9. Len(w) = m /\ \A i \in 1 .. m : w[i] = t[i]
    BY <1>5, <1>8
  <1>10. m = 0 \/ (m \in 1 .. m /\ t[m].part = "nl")
    BY <1>2, <1>4, <1>5 DEF Ends
  <1>11. \A i \in 1 .. d : t[i].part = "nl" => i <= m
    BY <1>1, <1>2, <1>4 DEF Ends
  <1>12. QED
    BY <1>1, <1>5, <1>8, <1>9, <1>10, <1>11

\* Text that ends with a line: at[n] is where its n-th line ends.
Ended(t) == Len(t) = 0 \/ t[Len(t)].part = "nl"
Places(at, ls, t) ==
  /\ at \in Seq(Nat) /\ Len(at) = Len(ls) /\ Rising(at)
  /\ \A n \in 1 .. Len(ls) : /\ at[n] \in 1 .. Len(t) /\ t[at[n]].part = "nl"
                             /\ ls[n] = Line(t, at[n])
  /\ \A i \in 1 .. Len(t) : t[i].part = "nl" => \E n \in 1 .. Len(ls) : at[n] = i

LEMMA LineFacts ==
    ASSUME NEW t \in Seq(Str), NEW i \in 1 .. Len(t)
    PROVE  /\ Line(t, i) \in Rec /\ Line(t, i).id = t[i].id
           /\ Line(t, i).as = "raises" => kind[t[i].id] = "huge"
           /\ Line(t, i).as = "declares" <=> /\ ~Blank(t, i) /\ Entire(t, i)
                                             /\ kind[t[i].id] # "huge"
  <1>1. t[i] \in Str
    BY ElementOfSeq
  <1>2. t[i].id \in Nat
    BY <1>1 DEF Str
  <1>3. PICK a : a = IF Blank(t, i) THEN "nothing"
                     ELSE IF ~Entire(t, i) THEN "malformed"
                     ELSE IF kind[t[i].id] = "huge" THEN "raises"
                     ELSE "declares"
    OBVIOUS
  <1>4. PICK r : r = Line(t, i)
    OBVIOUS
  <1>5. r = [id |-> t[i].id, as |-> a]
    BY <1>3, <1>4 DEF Line
  <1>6. /\ a \in {"nothing", "malformed", "raises", "declares"}
        /\ a = "raises" => kind[t[i].id] = "huge"
        /\ a = "declares" <=> ~Blank(t, i) /\ Entire(t, i) /\ kind[t[i].id] # "huge"
    <2>1. CASE Blank(t, i)
      <3>1. a = "nothing"
        BY <1>3, <2>1
      <3>2. QED
        BY <2>1, <3>1
    <2>2. CASE ~Blank(t, i) /\ ~Entire(t, i)
      <3>1. a = "malformed"
        BY <1>3, <2>2
      <3>2. QED
        BY <2>2, <3>1
    <2>3. CASE ~Blank(t, i) /\ Entire(t, i) /\ kind[t[i].id] = "huge"
      <3>1. a = "raises"
        BY <1>3, <2>3
      <3>2. QED
        BY <2>3, <3>1
    <2>4. CASE ~Blank(t, i) /\ Entire(t, i) /\ kind[t[i].id] # "huge"
      <3>1. a = "declares"
        BY <1>3, <2>4
      <3>2. QED
        BY <2>4, <3>1
    <2>5. QED
      BY <2>1, <2>2, <2>3, <2>4
  <1>7. r.id = t[i].id /\ r.as = a
    BY <1>5
  <1>8. r \in Rec
    BY <1>2, <1>5, <1>6 DEF Rec
  <1>9. QED
    BY <1>4, <1>6, <1>7, <1>8, Zenon

LEMMA LinesFacts ==
    ASSUME NEW t \in Seq(Str), Ended(t), NEW ls, ls = Lines(t)
    PROVE  ls \in Seq(Rec) /\ \E at : Places(at, ls, t)
  <1>1. PICK d \in Nat : d = Len(t) /\ DOMAIN t = 1 .. d
    OBVIOUS
  <1>2. PICK one : one = [i \in 1 .. d |-> i]
    OBVIOUS
  <1>3. one \in Seq(Nat) /\ Len(one) = d /\ \A i \in 1 .. d : one[i] = i
    <2>1. one \in [1 .. d -> Nat]
      BY <1>2
    <2>2. QED
      BY <1>2, <2>1, Mapped
  <1>4. PICK E : E = Ends(t)
    OBVIOUS
  <1>5. PICK at, pos : at = Those(one, E) /\ at \in Seq(Nat) /\ Picks(at, pos, one, E, d)
    BY <1>3, ThoseFacts
  <1>6. PICK e \in Nat : e = Len(at) /\ DOMAIN at = 1 .. e
    BY <1>5
  <1>7. \A k \in 1 .. e : pos[k] \in 1 .. d /\ pos[k] \in E /\ at[k] = pos[k]
    BY <1>3, <1>5, <1>6 DEF Picks
  <1>8. ls = [n \in 1 .. e |-> Line(t, at[n])]
    <2>1. t # <<>> => Last(t).part = "nl"
      BY <1>1, EmptySeq DEF Ended, Last
    <2>2. ls = [n \in 1 .. e |-> Line(t, at[n])] \o <<>>
      <3>1. at = Those([i \in DOMAIN t |-> i], Ends(t))
        BY <1>1, <1>2, <1>4, <1>5
      <3>2. QED
        BY <1>6, <2>1, <3>1, Zenon DEF Lines
    <2>3. [n \in 1 .. e |-> Line(t, at[n])] \in Seq(Rec)
      <3>1. \A n \in 1 .. e : Line(t, at[n]) \in Rec
        BY <1>1, <1>7, LineFacts
      <3>2. [n \in 1 .. e |-> Line(t, at[n])] \in [1 .. e -> Rec]
        BY <3>1
      <3>3. QED
        BY <3>2, Mapped
    <2>4. QED
      BY <2>2, <2>3, ConcatEmptySeq
  <1>9. ls \in Seq(Rec) /\ Len(ls) = e /\ \A n \in 1 .. e : ls[n] = Line(t, at[n])
    <2>1. \A n \in 1 .. e : Line(t, at[n]) \in Rec
      BY <1>1, <1>7, LineFacts
    <2>2. ls \in [1 .. e -> Rec]
      BY <1>8, <2>1
    <2>3. QED
      BY <1>8, <2>2, Mapped
  <1>10. Rising(at)
    BY <1>5, <1>6, <1>7 DEF Picks, Rising
  <1>11. \A i \in 1 .. d : t[i].part = "nl" => \E n \in 1 .. e : at[n] = i
    <2>1. ASSUME NEW i \in 1 .. d, t[i].part = "nl"
          PROVE  \E n \in 1 .. e : at[n] = i
      <3>1. i \in E
        BY <1>1, <1>4, <2>1 DEF Ends
      <3>2. PICK n \in 1 .. e : pos[n] = i
        BY <1>5, <1>6, <3>1 DEF Picks
      <3>3. QED
        BY <1>7, <3>2
    <2>2. QED
      BY <2>1
  <1>12. \A n \in 1 .. e : at[n] \in 1 .. d /\ t[at[n]].part = "nl"
    BY <1>1, <1>4, <1>7 DEF Ends
  <1>13. Places(at, ls, t)
    BY <1>1, <1>5, <1>6, <1>9, <1>10, <1>11, <1>12 DEF Places
  <1>14. QED
    BY <1>9, <1>13

LEMMA Least ==
    ASSUME NEW T \in SUBSET Nat, T # {}
    PROVE  Min(T) \in T /\ \A x \in T : Min(T) <= x
  <1>1. PICK R : R = OpToRel(<, Nat)
    OBVIOUS
  <1>2. PICK m \in T : \A k \in T : ~ (<<k, m>> \in R)
    <2>1. IsWellFoundedOn(R, Nat)
      BY <1>1, NatLessThanWellFounded
    <2>2. QED
      BY <2>1, WFMin
  <1>3. ASSUME NEW k \in T
        PROVE  m <= k
    <2>1. k \in Nat /\ m \in Nat /\ ~ (<<k, m>> \in R)
      BY <1>2
    <2>2. k < m => <<k, m>> \in R
      BY <1>1, <2>1 DEF OpToRel
    <2>3. QED
      BY <2>1, <2>2
  <1>4. QED
    BY <1>2, <1>3 DEF Min

LEMMA ParsedFacts ==
    ASSUME NEW ls \in Seq(Rec), NEW ps, ps = Parsed(ls)
    PROVE  /\ ps \in Seq(Rec) /\ Len(ps) <= Len(ls)
           /\ \A n \in 1 .. Len(ps) : ps[n] = ls[n]
           /\ (\A n \in 1 .. Len(ls) : ls[n].as # "raises") => ps = ls
  <1>1. PICK r : r = {n \in DOMAIN ls : ls[n].as = "raises"}
    OBVIOUS
  <1>2. PICK d \in Nat : d = Len(ls) /\ DOMAIN ls = 1 .. d /\ \A n \in 1 .. d : ls[n] \in Rec
    BY ElementOfSeq
  <1>3. CASE r = {}
    <2>1. ps = ls
      BY <1>1, <1>3 DEF Parsed
    <2>2. QED
      BY <1>2, <2>1
  <1>4. CASE r # {}
    <2>1. r \in SUBSET Nat
      BY <1>1, <1>2
    <2>2. PICK m : m = Min(r) /\ m \in r
      BY <1>4, <2>1, Least
    <2>3. m \in 1 .. d /\ ls[m].as = "raises"
      BY <1>1, <1>2, <2>2
    <2>4. PICK k \in 0 .. d : k = m - 1
      BY <2>3
    <2>5. ps = SubSeq(ls, 0 + 1, k)
      <3>1. ps = SubSeq(ls, 1, Min(r) - 1)
        BY <1>1, <1>4, Zenon DEF Parsed
      <3>2. 0 + 1 = 1
        OBVIOUS
      <3>3. QED
        BY <2>2, <2>4, <3>1, <3>2, Zenon
    <2>6. ps \in Seq(Rec) /\ Len(ps) = k - 0 /\ \A n \in 1 .. k - 0 : ps[n] = ls[n + 0]
      <3>1. k \in Nat /\ 0 \in 0 .. k /\ \A n \in 0 + 1 .. k : ls[n] \in Rec
        BY <1>2, <2>4
      <3>2. QED
        BY <2>5, <3>1, Piece
    <2>7. Len(ps) = k /\ \A n \in 1 .. k : ps[n] = ls[n]
      BY <2>4, <2>6
    <2>8. ~ \A n \in 1 .. Len(ls) : ls[n].as # "raises"
      BY <1>2, <2>3
    <2>9. QED
      BY <1>2, <2>4, <2>6, <2>7, <2>8
  <1>5. QED
    BY <1>3, <1>4

Idents(ls) == [n \in DOMAIN ls |-> ls[n].id]

\* The line that ends at i is whole and declares something.
Declares(bs, i) == bs[i].part = "nl" /\ ~Blank(bs, i) /\ Entire(bs, i)

\* What a refresh gets of t, at most; and when it gets all, which
\* it does unless a size is refused.
Got(ns, t) ==
  /\ ns \in Seq(Nat) /\ Rising(ns)
  /\ \A k \in 1 .. Len(ns) : \E i \in 1 .. Len(t) : Declares(t, i) /\ ns[k] = t[i].id

Every(ns, t) ==
  \A i \in 1 .. Len(t) : Declares(t, i) => \E k \in 1 .. Len(ns) : ns[k] = t[i].id
Accepted(t) == \A i \in 1 .. Len(t) : kind[t[i].id] # "huge"

LEMMA RisingIs ==
    ASSUME NEW s, NEW e, Len(s) = e, \A a, b \in 1 .. e : a < b => s[a] < s[b]
    PROVE  Rising(s)
  BY DEF Rising

LEMMA NewFacts ==
    ASSUME NEW t \in Seq(Str), Ended(t), LinesRise(t), NEW ls, ls = Lines(t),
           NEW ps, ps = Parsed(ls), NEW new, new = Of(ps, "declares"),
           NEW ns, ns = Idents(new)
    PROVE  Got(ns, t) /\ (Accepted(t) => ps = ls /\ Every(ns, t))
  <1>1. PICK at : ls \in Seq(Rec) /\ Places(at, ls, t)
    BY LinesFacts
  <1>2. /\ ps \in Seq(Rec) /\ Len(ps) <= Len(ls)
        /\ \A n \in 1 .. Len(ps) : ps[n] = ls[n]
        /\ (\A n \in 1 .. Len(ls) : ls[n].as # "raises") => ps = ls
    BY <1>1, ParsedFacts
  <1>3. PICK D : D = {n \in DOMAIN ps : ps[n].as = "declares"}
    OBVIOUS
  <1>4. new = Those(ps, D)
    BY <1>3 DEF Of
  <1>5. PICK pos : new \in Seq(Rec) /\ Picks(new, pos, ps, D, Len(ps))
    BY <1>2, <1>4, ThoseFacts
  <1>6. PICK e \in Nat : e = Len(new) /\ DOMAIN new = 1 .. e
    BY <1>5
  <1>7. \A n \in 1 .. e : pos[n] \in 1 .. Len(ps) /\ pos[n] \in D /\ new[n] = ps[pos[n]]
    BY <1>5, <1>6 DEF Picks
  <1>8. Len(ls) \in Nat /\ Len(ps) \in Nat /\ DOMAIN ps = 1 .. Len(ps)
    BY <1>1, <1>2
  <1>9. ns \in Seq(Nat) /\ Len(ns) = e /\ \A n \in 1 .. e : ns[n] = new[n].id
    <2>1. \A n \in 1 .. e : new[n].id \in Nat
      <3>1. ASSUME NEW n \in 1 .. e
            PROVE  new[n].id \in Nat
        <4>1. new[n] \in Rec
          BY <1>5, <1>6, ElementOfSeq
        <4>2. QED
          BY <4>1 DEF Rec
      <3>2. QED
        BY <3>1
    <2>2. ns = [n \in 1 .. e |-> new[n].id]
      BY <1>6 DEF Idents
    <2>3. ns \in [1 .. e -> Nat]
      BY <2>1, <2>2
    <2>4. QED
      BY <2>2, <2>3, Mapped
  <1>10. ASSUME NEW n \in 1 .. e
         PROVE  /\ pos[n] \in 1 .. Len(ls) /\ at[pos[n]] \in 1 .. Len(t)
                /\ t[at[pos[n]]].part = "nl" /\ ns[n] = t[at[pos[n]]].id
                /\ Declares(t, at[pos[n]])
    <2>1. pos[n] \in 1 .. Len(ls) /\ new[n] = ls[pos[n]]
      BY <1>2, <1>7, <1>8
    <2>2. PICK i \in 1 .. Len(t) : i = at[pos[n]] /\ t[i].part = "nl" /\ new[n] = Line(t, i)
      BY <1>1, <2>1 DEF Places
    <2>3. Line(t, i).as = "declares"
      BY <1>3, <1>7, <2>2
    <2>4. ns[n] = t[i].id /\ Declares(t, i)
      <3>1. Line(t, i).id = t[i].id /\ ~Blank(t, i) /\ Entire(t, i)
        BY <2>3, LineFacts
      <3>2. ns[n] = new[n].id
        BY <1>9
      <3>3. QED
        BY <2>2, <3>1, <3>2, Zenon DEF Declares
    <2>5. QED
      BY <2>1, <2>2, <2>4
  <1>11. Rising(ns)
    <2>1. ASSUME NEW a \in 1 .. e, NEW b \in 1 .. e, a < b
          PROVE  ns[a] < ns[b]
      <3>1. pos[a] < pos[b]
        BY <1>5, <1>6, <2>1 DEF Picks, Rising
      <3>2. at[pos[a]] < at[pos[b]]
        BY <1>1, <1>10, <3>1 DEF Places, Rising
      <3>3. t[at[pos[a]]].id < t[at[pos[b]]].id
        BY <1>10, <3>2 DEF LinesRise
      <3>4. QED
        BY <1>10, <3>3
    <2>2. \A a, b \in 1 .. e : a < b => ns[a] < ns[b]
      BY <2>1, Zenon
    <2>3. 1 .. Len(ns) = 1 .. e
      BY <1>9, Zenon
    <2>4. \A a, b \in 1 .. Len(ns) : a < b => ns[a] < ns[b]
      BY <2>2, <2>3, Zenon
    <2>5. QED
      BY <2>4, Zenon DEF Rising
  <1>12. ASSUME Accepted(t)
         PROVE  ps = ls /\ Every(ns, t)
    <2>1. ps = ls
      <3>1. \A n \in 1 .. Len(ls) : at[n] \in 1 .. Len(t) /\ ls[n] = Line(t, at[n])
        BY <1>1 DEF Places
      <3>2. \A n \in 1 .. Len(ls) : ls[n].as # "raises"
        BY <1>12, <3>1, LineFacts DEF Accepted
      <3>3. QED
        BY <1>2, <3>2
    <2>2. ASSUME NEW i \in 1 .. Len(t), Declares(t, i)
          PROVE  \E n \in 1 .. Len(ns) : ns[n] = t[i].id
      <3>1. PICK k \in 1 .. Len(ls) : at[k] = i
        BY <1>1, <2>2 DEF Places, Declares
      <3>2. ls[k] = Line(t, i)
        BY <1>1, <3>1 DEF Places
      <3>3. ls[k].as = "declares" /\ ls[k].id = t[i].id
        BY <1>12, <2>2, <3>2, LineFacts DEF Declares, Accepted
      <3>4. k \in 1 .. Len(ps) /\ k \in D
        BY <1>3, <1>8, <2>1, <3>3
      <3>5. PICK n \in 1 .. e : pos[n] = k
        BY <1>5, <1>6, <3>4 DEF Picks
      <3>6. ns[n] = t[i].id
        <4>1. new[n] = ps[k] /\ ps[k] = ls[k]
          BY <1>7, <2>1, <3>5
        <4>2. ns[n] = new[n].id
          BY <1>9
        <4>3. QED
          BY <3>3, <4>1, <4>2
      <3>7. QED
        BY <1>9, <3>6
    <2>3. QED
      BY <2>1, <2>2, Zenon DEF Every
  <1>13. \A n \in 1 .. Len(ns) : \E i \in 1 .. Len(t) : Declares(t, i) /\ ns[n] = t[i].id
    BY <1>9, <1>10
  <1>14. QED
    BY <1>9, <1>11, <1>12, <1>13, Zenon DEF Got

-----------------------------------------------------------------------------
(* The file, what is held of it, and how both go on.                       *)

Half(bs) == Len(bs) # 0 /\ bs[Len(bs)].part = "first"

\* Of n lines begun so far, bs are what stands in the file, and odd says
\* whether there may be bytes that are not UTF-8.
FileOk(odd, n, bs) ==
  /\ bs \in Seq(Str) /\ LinesRise(bs)
  /\ \A i \in 1 .. Len(bs) : /\ bs[i].id <= n /\ bs[i].id # 0 /\ bs[i].part # "cr"
                             /\ bs[i].part = "odd" => odd
  /\ Half(bs) => bs[Len(bs)].id = n

\* What is held was read in its order, and comes before all that is not read.
HeldOk(n, bs, off, ds) ==
  /\ ds \in Seq(Nat) /\ Rising(ds)
  /\ \A k \in 1 .. Len(ds) : ds[k] <= n /\ (Half(bs) => ds[k] < n)
  /\ \A k \in 1 .. Len(ds), i \in 1 .. Len(bs) :
       i > off /\ bs[i].part = "nl" => ds[k] < bs[i].id

\* What is held is, within the window, what the file declares up to off.
In(d, ds) == \E k \in 1 .. Len(ds) : ds[k] = d
Said(d, bs, off) == \E i \in 1 .. off : Declares(bs, i) /\ bs[i].id = d
SyncOk(bs, off, ds, old) ==
  /\ off <= Len(bs)
  /\ off = 0 \/ bs[off].part = "nl"
  /\ \A d \in Nat : d > old => (In(d, ds) <=> Said(d, bs, off))

\* The bytes of a line that an append adds, or a part of them.
Addition(odd, cs, id) ==
  /\ cs \in Seq(Str) /\ Len(cs) # 0
  /\ \A i \in 1 .. Len(cs) : /\ cs[i].id = id /\ cs[i].part # "cr"
                             /\ cs[i].part = "odd" => odd
                             /\ cs[i].part = "nl" => i = Len(cs)

LEMMA ByteAt ==
    ASSUME NEW bs \in Seq(Str), NEW i \in 1 .. Len(bs)
    PROVE  bs[i].id \in Nat
  <1>1. bs[i] \in Str
    BY ElementOfSeq
  <1>2. QED
    BY <1>1 DEF Str

LEMMA Joined ==
    ASSUME NEW X, NEW bs \in Seq(X), NEW cs \in Seq(X), NEW r, r = bs \o cs
    PROVE  /\ r \in Seq(X) /\ Len(r) = Len(bs) + Len(cs)
           /\ \A i \in 1 .. Len(bs) : r[i] = bs[i]
           /\ \A i \in 1 .. Len(cs) : r[Len(bs) + i] = cs[i]
           /\ \A i \in 1 .. Len(r) : i \in 1 .. Len(bs) \/ i - Len(bs) \in 1 .. Len(cs)
  <1>1. PICK a, b \in Nat : a = Len(bs) /\ b = Len(cs)
    OBVIOUS
  <1>2. /\ r \in Seq(X) /\ Len(r) = a + b
        /\ \A i \in 1 .. a + b : r[i] = IF i <= a THEN bs[i] ELSE cs[i - a]
    BY <1>1, ConcatProperties
  <1>3. \A i \in 1 .. a : r[i] = bs[i]
    BY <1>2
  <1>4. ASSUME NEW i \in 1 .. b
        PROVE  r[a + i] = cs[i]
    <2>1. a + i \in 1 .. a + b /\ ~(a + i <= a) /\ (a + i) - a = i
      OBVIOUS
    <2>2. QED
      BY <1>2, <2>1
  <1>5. \A i \in 1 .. a + b : i \in 1 .. a \/ i - a \in 1 .. b
    OBVIOUS
  <1>6. QED
    BY <1>1, <1>2, <1>3, <1>4, <1>5

\* What is held, and every line of the file, comes before the line that grows.
LEMMA Before ==
    ASSUME NEW odd, NEW n \in Nat, NEW m \in Nat, n <= m, NEW bs, FileOk(odd, n, bs),
           n < m \/ Half(bs)
    PROVE  /\ \A i \in 1 .. Len(bs) : bs[i].part = "nl" => bs[i].id < m
           /\ \A off, ds : HeldOk(n, bs, off, ds) => \A k \in 1 .. Len(ds) : ds[k] < m
  <1>1. bs \in Seq(Str) /\ Len(bs) \in Nat
    BY DEF FileOk
  <1>2. ASSUME NEW i \in 1 .. Len(bs), bs[i].part = "nl"
        PROVE  bs[i].id < m
    <2>1. bs[i].id \in Nat /\ bs[i].id <= n
      BY <1>1, ByteAt DEF FileOk
    <2>2. CASE n < m
      BY <2>1, <2>2
    <2>3. CASE Half(bs)
      <3>1. PICK z \in 1 .. Len(bs) : z = Len(bs) /\ bs[z].part = "first" /\ bs[z].id = n
        BY <1>1, <2>3 DEF Half, FileOk
      <3>2. i < z
        BY <1>1, <1>2, <3>1
      <3>3. bs[i].id < bs[z].id
        BY <1>2, <3>2 DEF FileOk, LinesRise
      <3>4. QED
        BY <2>1, <3>1, <3>3
    <2>4. QED
      BY <2>2, <2>3
  <1>3. ASSUME NEW off, NEW ds, HeldOk(n, bs, off, ds), NEW k \in 1 .. Len(ds)
        PROVE  ds[k] < m
    <2>1. ds[k] \in Nat
      BY <1>3, ElementOfSeq DEF HeldOk
    <2>2. ds[k] <= n /\ (Half(bs) => ds[k] < n)
      BY <1>3 DEF HeldOk
    <2>3. QED
      BY <2>1, <2>2
  <1>4. QED
    BY <1>2, <1>3

LEMMA AppendOk ==
    ASSUME NEW odd, NEW n \in Nat, NEW m \in Nat, n <= m, NEW bs, FileOk(odd, n, bs),
           n < m \/ Half(bs), NEW cs, Addition(odd, cs, m), NEW r, r = bs \o cs
    PROVE  /\ FileOk(odd, m, r)
           /\ \A off \in Nat : \A ds : HeldOk(n, bs, off, ds) => HeldOk(m, r, off, ds)
           /\ \A off \in Nat : \A ds, old : SyncOk(bs, off, ds, old) => SyncOk(r, off, ds, old)
  <1>1. bs \in Seq(Str) /\ cs \in Seq(Str)
    BY DEF FileOk, Addition
  <1>2. PICK a, b \in Nat : a = Len(bs) /\ b = Len(cs) /\ b # 0
    <2>1. Len(cs) # 0
      BY Zenon DEF Addition
    <2>2. QED
      BY <1>1, <2>1
  <1>3. /\ r \in Seq(Str) /\ Len(r) = a + b
        /\ \A i \in 1 .. a : r[i] = bs[i]
        /\ \A i \in 1 .. b : r[a + i] = cs[i]
    BY <1>1, <1>2, Joined
  <1>4. /\ \A i \in 1 .. a : bs[i].id \in Nat /\ bs[i].id <= n /\ bs[i].id # 0
                             /\ bs[i].part # "cr" /\ (bs[i].part = "odd" => odd)
                             /\ (bs[i].part = "nl" => bs[i].id < m)
    BY <1>1, <1>2, ByteAt, Before DEF FileOk
  <1>5. ASSUME NEW i \in a + 1 .. a + b
        PROVE  /\ r[i].id = m /\ r[i].part # "cr" /\ (r[i].part = "odd" => odd)
               /\ r[i].part = "nl" => i = a + b
    <2>1. PICK j \in 1 .. b : i = a + j
      <3>1. i - a \in 1 .. b /\ i = a + (i - a)
        OBVIOUS
      <3>2. QED
        BY <3>1
    <2>2. r[i] = cs[j]
      BY <1>3, <2>1
    <2>3. /\ cs[j].id = m /\ cs[j].part # "cr" /\ (cs[j].part = "odd" => odd)
          /\ cs[j].part = "nl" => j = b
      BY <1>2 DEF Addition
    <2>4. QED
      BY <2>1, <2>2, <2>3
  <1>6. \A i \in 1 .. a + b : i \in 1 .. a \/ i \in a + 1 .. a + b
    OBVIOUS
  <1>0. m # 0
    <2>1. CASE n < m
      BY <2>1
    <2>2. CASE Half(bs)
      <3>1. a \in 1 .. a /\ bs[a].id = n
        BY <1>2, <2>2 DEF Half, FileOk
      <3>2. QED
        BY <1>4, <3>1
    <2>3. QED
      BY <2>1, <2>2
  <1>7. FileOk(odd, m, r)
    <2>1. ASSUME NEW i \in 1 .. a + b, NEW j \in 1 .. a + b, i < j, r[i].part = "nl"
          PROVE  r[i].id < r[j].id
      <3>1. i \in 1 .. a
        <4>1. i # a + b
          BY <2>1
        <4>2. QED
          BY <1>5, <1>6, <2>1, <4>1
      <3>2. r[i] = bs[i] /\ bs[i].part = "nl"
        BY <1>3, <2>1, <3>1
      <3>3. CASE j \in 1 .. a
        BY <1>2, <1>3, <2>1, <3>1, <3>2, <3>3 DEF FileOk, LinesRise
      <3>4. CASE j \in a + 1 .. a + b
        BY <1>4, <1>5, <3>1, <3>2, <3>4
      <3>5. QED
        BY <1>6, <3>3, <3>4
    <2>2. LinesRise(r)
      BY <1>3, <2>1 DEF LinesRise
    <2>3. ASSUME NEW i \in 1 .. a + b
          PROVE  r[i].id <= m /\ r[i].id # 0 /\ r[i].part # "cr" /\ (r[i].part = "odd" => odd)
      <3>1. CASE i \in 1 .. a
        <4>1. r[i] = bs[i]
          BY <1>3, <3>1
        <4>2. /\ bs[i].id \in Nat /\ bs[i].id <= n /\ bs[i].id # 0 /\ bs[i].part # "cr"
              /\ bs[i].part = "odd" => odd
          BY <1>4, <3>1
        <4>3. bs[i].id <= m
          BY <4>2
        <4>4. QED
          BY <4>1, <4>2, <4>3, Zenon
      <3>2. CASE i \in a + 1 .. a + b
        <4>1. r[i].id = m
          BY <1>5, <3>2, Zenon
        <4>2. r[i].id <= m /\ r[i].id # 0
          BY <1>0, <4>1
        <4>3. QED
          BY <1>5, <3>2, <4>2, Zenon
      <3>3. QED
        BY <1>6, <3>1, <3>2
    <2>4. r[a + b].id = m
      <3>1. a + b \in a + 1 .. a + b
        BY <1>2
      <3>2. QED
        BY <1>5, <3>1
    <2>5. QED
      BY <1>3, <2>2, <2>3, <2>4 DEF FileOk
  <1>8. ASSUME NEW off \in Nat, NEW ds, HeldOk(n, bs, off, ds)
        PROVE  HeldOk(m, r, off, ds)
    <2>1. \A k \in 1 .. Len(ds) : ds[k] < m /\ ds[k] \in Nat
      BY <1>8, Before, ElementOfSeq DEF HeldOk
    <2>2. ASSUME NEW k \in 1 .. Len(ds), NEW i \in 1 .. a + b, i > off, r[i].part = "nl"
          PROVE  ds[k] < r[i].id
      <3>1. CASE i \in 1 .. a
        BY <1>2, <1>3, <1>8, <2>2, <3>1 DEF HeldOk
      <3>2. CASE i \in a + 1 .. a + b
        BY <1>5, <2>1, <3>2
      <3>3. QED
        BY <1>6, <3>1, <3>2
    <2>3. \A k \in 1 .. Len(ds) : ds[k] <= m
      BY <2>1
    <2>4. ds \in Seq(Nat) /\ Rising(ds)
      BY <1>8 DEF HeldOk
    <2>5. QED
      BY <1>3, <2>1, <2>2, <2>3, <2>4 DEF HeldOk
  <1>9. ASSUME NEW off \in Nat, NEW ds, NEW old, SyncOk(bs, off, ds, old)
        PROVE  SyncOk(r, off, ds, old)
    <2>1. off <= a
      BY <1>2, <1>9 DEF SyncOk
    <2>2. off = 0 \/ r[off].part = "nl"
      BY <1>3, <1>9, <2>1 DEF SyncOk
    <2>3. \A i \in 1 .. off : Declares(r, i) <=> Declares(bs, i)
      <3>1. ASSUME NEW i \in 1 .. off
            PROVE  Declares(r, i) <=> Declares(bs, i)
        <4>1. r[i] = bs[i]
          BY <1>3, <2>1
        <4>2. i # 1 => r[i - 1] = bs[i - 1]
          <5>1. i # 1 => i - 1 \in 1 .. a
            BY <2>1
          <5>2. QED
            BY <1>3, <5>1
        <4>3. i > 2 => r[i - 2] = bs[i - 2]
          <5>1. i > 2 => i - 2 \in 1 .. a
            BY <2>1
          <5>2. QED
            BY <1>3, <5>1
        <4>4. QED
          BY <4>1, <4>2, <4>3 DEF Declares, Blank, Entire
      <3>2. QED
        BY <3>1
    <2>4. \A i \in 1 .. off : r[i] = bs[i]
      BY <1>3, <2>1
    <2>5. \A d : Said(d, r, off) <=> Said(d, bs, off)
      BY <2>3, <2>4, Zenon DEF Said
    <2>6. off <= Len(r)
      BY <1>3, <2>1
    <2>7. QED
      BY <1>9, <2>2, <2>5, <2>6 DEF SyncOk
  <1>10. QED
    BY <1>7, <1>8, <1>9

\* t are the whole lines in bs after off.
Unread(t, bs, off) ==
  /\ t \in Seq(Str) /\ Ended(t) /\ LinesRise(t)
  /\ \A i \in 1 .. Len(t) : off + i \in 1 .. Len(bs) /\ t[i] = bs[off + i]
  /\ \A j \in 1 .. Len(bs) : j > off /\ bs[j].part = "nl" => j - off \in 1 .. Len(t)

LEMMA UnreadIs ==
    ASSUME NEW odd, NEW n, NEW bs, FileOk(odd, n, bs), NEW off \in Nat,
           NEW t, t = Whole(Decoded(SubSeq(bs, off + 1, Len(bs))))
    PROVE  Unread(t, bs, off)
  <1>1. PICK d \in Nat : d = Len(bs) /\ bs \in Seq(Str) /\ \A i \in 1 .. d : bs[i] \in Str
    BY ElementOfSeq DEF FileOk
  <1>2. PICK x : x = SubSeq(bs, off + 1, d)
    OBVIOUS
  <1>3. /\ x \in Seq(Str)
        /\ \A i \in 1 .. Len(x) : off + i \in 1 .. d /\ x[i] = bs[off + i]
        /\ \A j \in 1 .. d : j > off => j - off \in 1 .. Len(x)
    <2>1. CASE off <= d
      <3>1. \A i \in off + 1 .. d : bs[i] \in Str
        BY <1>1
      <3>2. off \in 0 .. d
        BY <2>1
      <3>3. x \in Seq(Str) /\ Len(x) = d - off /\ \A i \in 1 .. d - off : x[i] = bs[i + off]
        BY <1>2, <3>1, <3>2, Piece
      <3>4. \A i \in 1 .. d - off : off + i \in 1 .. d /\ off + i = i + off
        BY <2>1
      <3>5. \A j \in 1 .. d : j > off => j - off \in 1 .. d - off
        BY <2>1
      <3>6. QED
        BY <3>3, <3>4, <3>5
    <2>2. CASE ~(off <= d)
      <3>1. \A i \in off + 1 .. d : bs[i] \in Str
        BY <2>2
      <3>2. x \in Seq(Str) /\ Len(x) = IF off + 1 <= d THEN d - (off + 1) + 1 ELSE 0
        BY <1>2, <3>1, SubSeqProperties
      <3>3. Len(x) = 0
        BY <2>2, <3>2
      <3>4. QED
        BY <2>2, <3>2, <3>3
    <2>3. QED
      BY <2>1, <2>2
  <1>4. Decoded(x) = x
    <2>1. PICK D : D = {i \in DOMAIN x : x[i].part # "cr"}
      OBVIOUS
    <2>2. \A i \in 1 .. Len(x) : i \in D
      <3>1. ASSUME NEW i \in 1 .. Len(x)
            PROVE  i \in D
        <4>1. off + i \in 1 .. d /\ x[i] = bs[off + i] /\ i \in DOMAIN x
          BY <1>3
        <4>2. bs[off + i].part # "cr"
          BY <1>1, <4>1 DEF FileOk
        <4>3. QED
          BY <2>1, <4>1, <4>2
      <3>2. QED
        BY <3>1
    <2>3. Those(x, D) = x
      BY <1>3, <2>2, ThoseAll
    <2>4. QED
      BY <2>1, <2>3 DEF Decoded
  <1>5. t = Whole(x)
    BY <1>1, <1>2, <1>4
  <1>6. /\ t \in Seq(Str) /\ Len(t) <= Len(x) /\ \A i \in 1 .. Len(t) : t[i] = x[i]
        /\ Len(t) = 0 \/ t[Len(t)].part = "nl"
        /\ \A i \in 1 .. Len(x) : x[i].part = "nl" => i <= Len(t)
    BY <1>3, <1>5, WholeFacts
  <1>7. PICK b \in Nat : b = Len(t) /\ Len(x) \in Nat
    BY <1>3, <1>6
  <1>8. \A i \in 1 .. b : i \in 1 .. Len(x) /\ off + i \in 1 .. d /\ t[i] = bs[off + i]
    <2>1. \A i \in 1 .. b : i \in 1 .. Len(x)
      BY <1>6, <1>7
    <2>2. QED
      BY <1>3, <1>6, <1>7, <2>1
  <1>9. LinesRise(t)
    <2>1. ASSUME NEW i \in 1 .. b, NEW j \in 1 .. b, i < j, t[i].part = "nl"
          PROVE  t[i].id < t[j].id
      <3>1. off + i < off + j /\ off + i \in 1 .. d /\ off + j \in 1 .. d
        BY <1>8, <2>1
      <3>2. t[i] = bs[off + i] /\ t[j] = bs[off + j]
        BY <1>8
      <3>3. bs[off + i].id < bs[off + j].id
        BY <1>1, <2>1, <3>1, <3>2 DEF FileOk, LinesRise
      <3>4. QED
        BY <3>2, <3>3
    <2>2. QED
      BY <1>7, <2>1 DEF LinesRise
  <1>10. ASSUME NEW j \in 1 .. d, j > off, bs[j].part = "nl"
         PROVE  j - off \in 1 .. b
    <2>1. j - off \in 1 .. Len(x) /\ off + (j - off) = j
      BY <1>3, <1>10
    <2>2. x[j - off] = bs[j]
      BY <1>3, <2>1
    <2>3. j - off <= Len(t)
      BY <1>6, <1>10, <2>1, <2>2
    <2>4. QED
      BY <1>7, <2>1, <2>3
  <1>11. QED
    BY <1>1, <1>6, <1>7, <1>8, <1>9, <1>10 DEF Unread, Ended

LEMMA ReadOk ==
    ASSUME NEW odd, NEW n \in Nat, NEW bs, FileOk(odd, n, bs), NEW off \in Nat, NEW ds,
           HeldOk(n, bs, off, ds), NEW t, Unread(t, bs, off), NEW ns, Got(ns, t),
           NEW gap \in Nat, gap >= Len(t), NEW all, all = ds \o ns
    PROVE  HeldOk(n, bs, off + gap, all)
  <1>1. ds \in Seq(Nat) /\ ns \in Seq(Nat) /\ Rising(ds) /\ Rising(ns) /\ bs \in Seq(Str)
    BY DEF HeldOk, Got, FileOk
  <1>2. PICK a, b, d \in Nat : a = Len(ds) /\ b = Len(ns) /\ d = Len(bs)
    BY <1>1
  <1>3. /\ all \in Seq(Nat) /\ Len(all) = a + b
        /\ \A k \in 1 .. a : all[k] = ds[k]
        /\ \A k \in 1 .. b : all[a + k] = ns[k]
        /\ \A k \in 1 .. a + b : k \in 1 .. a \/ k - a \in 1 .. b
    BY <1>1, <1>2, Joined
  <1>4. ASSUME NEW k \in 1 .. b
        PROVE  /\ ns[k] \in Nat /\ ns[k] <= n /\ (Half(bs) => ns[k] < n)
               /\ \A j \in 1 .. a : ds[j] < ns[k]
    <2>1. PICK i \in 1 .. Len(t) : Declares(t, i) /\ ns[k] = t[i].id
      BY <1>2 DEF Got
    <2>2. PICK p \in 1 .. d : p = off + i /\ t[i] = bs[p] /\ p > off
      <3>1. off + i \in 1 .. d /\ t[i] = bs[off + i] /\ off + i > off
        BY <1>2 DEF Unread
      <3>2. QED
        BY <3>1
    <2>3. bs[p].part = "nl" /\ ns[k] = bs[p].id
      BY <2>1, <2>2 DEF Declares
    <2>4. bs[p].id \in Nat /\ bs[p].id <= n
      BY <1>1, <1>2, ByteAt DEF FileOk
    <2>5. \A j \in 1 .. a : ds[j] < bs[p].id
      BY <1>2, <2>2, <2>3 DEF HeldOk
    <2>6. Half(bs) => bs[p].id < n
      <3>1. ASSUME Half(bs)
            PROVE  bs[p].id < n
        <4>1. PICK z \in 1 .. d : z = d /\ bs[z].part = "first" /\ bs[z].id = n
          BY <1>2, <3>1 DEF Half, FileOk
        <4>2. p < z
          BY <2>3, <4>1
        <4>3. bs[p].id < bs[z].id
          BY <1>2, <2>3, <4>2 DEF FileOk, LinesRise
        <4>4. QED
          BY <4>1, <4>3
      <3>2. QED
        BY <3>1
    <2>7. QED
      BY <2>3, <2>4, <2>5, <2>6
  <1>5. ASSUME NEW k \in 1 .. a
        PROVE  ds[k] \in Nat /\ ds[k] <= n /\ (Half(bs) => ds[k] < n)
    BY <1>1, <1>2, ElementOfSeq DEF HeldOk
  <1>6. ASSUME NEW k \in 1 .. a + b
        PROVE  all[k] <= n /\ (Half(bs) => all[k] < n)
    <2>1. CASE k \in 1 .. a
      BY <1>3, <1>5, <2>1
    <2>2. CASE k - a \in 1 .. b
      <3>1. PICK l \in 1 .. b : k = a + l
        BY <2>2
      <3>2. QED
        BY <1>3, <1>4, <3>1
    <2>3. QED
      BY <1>3, <2>1, <2>2
  <1>7. ASSUME NEW j \in 1 .. a + b, NEW k \in 1 .. a + b, j < k
        PROVE  all[j] < all[k]
    <2>1. CASE k \in 1 .. a
      <3>1. j \in 1 .. a
        BY <1>7, <2>1
      <3>2. QED
        BY <1>1, <1>2, <1>3, <1>7, <2>1, <3>1 DEF Rising
    <2>2. CASE k - a \in 1 .. b
      <3>1. PICK l \in 1 .. b : k = a + l /\ all[k] = ns[l]
        <4>1. PICK l \in 1 .. b : l = k - a
          BY <2>2
        <4>2. k = a + l
          BY <4>1
        <4>3. QED
          BY <1>3, <4>2
      <3>2. CASE j \in 1 .. a
        BY <1>3, <1>4, <3>1, <3>2
      <3>3. CASE j - a \in 1 .. b
        <4>1. PICK i \in 1 .. b : i = j - a
          BY <3>3
        <4>2. j = a + i /\ i < l
          BY <1>7, <3>1, <4>1
        <4>3. all[j] = ns[i] /\ ns[i] < ns[l]
          BY <1>1, <1>2, <1>3, <4>2 DEF Rising
        <4>4. QED
          BY <3>1, <4>3
      <3>4. QED
        BY <1>3, <3>2, <3>3
    <2>3. QED
      BY <1>3, <2>1, <2>2
  <1>8. \A i \in 1 .. d : ~(i > off + gap /\ bs[i].part = "nl")
    <2>1. ASSUME NEW i \in 1 .. d, i > off + gap, bs[i].part = "nl"
          PROVE  FALSE
      <3>1. i > off
        BY <2>1
      <3>2. i - off \in 1 .. Len(t)
        BY <1>2, <2>1, <3>1 DEF Unread
      <3>3. Len(t) \in Nat
        BY DEF Unread
      <3>4. QED
        BY <2>1, <3>2, <3>3
    <2>2. QED
      BY <2>1
  <1>9. Rising(all)
    BY <1>3, <1>7, RisingIs
  <1>10. QED
    BY <1>2, <1>3, <1>6, <1>8, <1>9 DEF HeldOk

LEMMA KeptOk ==
    ASSUME NEW n, NEW bs, NEW off, NEW ds, HeldOk(n, bs, off, ds), NEW r, r = Kept(ds)
    PROVE  /\ HeldOk(n, bs, off, r)
           /\ SyncOk(bs, off, ds, expired) => SyncOk(bs, off, r, expired)
           /\ \A k \in 1 .. Len(r) : r[k] > expired
           /\ ds = <<>> => r = <<>>
  <1>1. ds \in Seq(Nat) /\ Rising(ds)
    BY DEF HeldOk
  <1>2. /\ r \in Seq(Nat) /\ Rising(r)
        /\ \A k \in 1 .. Len(r) : r[k] > expired /\ \E i \in 1 .. Len(ds) : r[k] = ds[i]
        /\ \A i \in 1 .. Len(ds) : ds[i] > expired => \E k \in 1 .. Len(r) : r[k] = ds[i]
    <2>1. InWindow(r, ds)
      BY <1>1, KeptFacts
    <2>2. QED
      BY <2>1, Zenon DEF InWindow
  <1>3. HeldOk(n, bs, off, r)
    <2>1. \A k \in 1 .. Len(r) : r[k] <= n /\ (Half(bs) => r[k] < n)
      BY <1>2 DEF HeldOk
    <2>2. \A k \in 1 .. Len(r), i \in 1 .. Len(bs) :
            i > off /\ bs[i].part = "nl" => r[k] < bs[i].id
      BY <1>2 DEF HeldOk
    <2>3. QED
      BY <1>2, <2>1, <2>2 DEF HeldOk
  <1>4. ASSUME NEW d, d > expired
        PROVE  In(d, r) <=> In(d, ds)
    <2>1. ASSUME In(d, r)
          PROVE  In(d, ds)
      <3>1. PICK k \in 1 .. Len(r) : r[k] = d
        BY <2>1 DEF In
      <3>2. PICK i \in 1 .. Len(ds) : r[k] = ds[i]
        BY <1>2
      <3>3. QED
        BY <3>1, <3>2 DEF In
    <2>2. ASSUME In(d, ds)
          PROVE  In(d, r)
      <3>1. PICK i \in 1 .. Len(ds) : ds[i] = d
        BY <2>2 DEF In
      <3>2. PICK k \in 1 .. Len(r) : r[k] = ds[i]
        BY <1>2, <1>4, <3>1
      <3>3. QED
        BY <3>1, <3>2 DEF In
    <2>3. QED
      BY <2>1, <2>2
  <1>5. SyncOk(bs, off, ds, expired) => SyncOk(bs, off, r, expired)
    BY <1>4 DEF SyncOk
  <1>6. ds = <<>> => r = <<>>
    <2>1. ASSUME ds = <<>>
          PROVE  r = <<>>
      <3>1. 1 .. Len(ds) = {}
        BY <2>1
      <3>2. \A k \in 1 .. Len(r) : FALSE
        BY <1>2, <3>1
      <3>3. Len(r) \in Nat
        BY <1>2
      <3>4. Len(r) = 0
        <4>1. Len(r) # 0 => 1 \in 1 .. Len(r)
          BY <3>3
        <4>2. QED
          BY <3>2, <4>1
      <3>5. QED
        BY <1>2, <3>4, EmptySeq
    <2>2. QED
      BY <2>1
  <1>7. QED
    BY <1>2, <1>3, <1>5, <1>6

LEMMA SyncRead ==
    ASSUME NEW bs \in Seq(Str), NEW off \in Nat, NEW ds \in Seq(Nat), NEW old,
           SyncOk(bs, off, ds, old),
           NEW t, Unread(t, bs, off), NEW ns, Got(ns, t), NEW all, all = ds \o ns,
           Every(ns, t)
    PROVE  SyncOk(bs, off + Len(t), all, old)
  <1>1. PICK b \in Nat : b = Len(t) /\ t \in Seq(Str) /\ Ended(t)
    BY DEF Unread
  <1>2. \A i \in 1 .. b : off + i \in 1 .. Len(bs) /\ t[i] = bs[off + i]
    BY <1>1 DEF Unread
  <1>3. off + b <= Len(bs)
    <2>1. b = 0 \/ b \in 1 .. b
      BY <1>1
    <2>2. CASE b = 0
      <3>1. off <= Len(bs)
        BY DEF SyncOk
      <3>2. off + b = off
        BY <2>2
      <3>3. QED
        BY <3>1, <3>2, Zenon
    <2>3. CASE b \in 1 .. b
      <3>1. off + b \in 1 .. Len(bs)
        BY <1>2, <2>3, Zenon
      <3>2. QED
        BY <3>1
    <2>4. QED
      BY <2>1, <2>2, <2>3
  <1>4. off + b = 0 \/ bs[off + b].part = "nl"
    <2>1. b = 0 \/ b \in 1 .. b
      BY <1>1
    <2>2. CASE b = 0
      <3>1. off + b = off
        BY <2>2
      <3>2. QED
        BY <3>1 DEF SyncOk
    <2>3. CASE b \in 1 .. b
      BY <1>1, <1>2, <2>3 DEF Ended
    <2>4. QED
      BY <2>1, <2>2, <2>3
  <1>5. ASSUME NEW i \in 1 .. b
        PROVE  Declares(t, i) <=> Declares(bs, off + i)
    <2>1. t[i] = bs[off + i] /\ (off = 0 \/ bs[off].part = "nl")
      BY <1>2 DEF SyncOk
    <2>2. Blank(t, i) <=> Blank(bs, off + i)
      <3>1. CASE i = 1
        <4>1. (off + i) - 1 = off /\ (off = 0 => off + i = 1)
          BY <3>1
        <4>2. QED
          BY <2>1, <3>1, <4>1 DEF Blank
      <3>2. CASE i # 1
        <4>1. i - 1 \in 1 .. b /\ off + (i - 1) = (off + i) - 1 /\ off + i # 1
          BY <3>2
        <4>2. t[i - 1] = bs[(off + i) - 1]
          BY <1>2, <4>1
        <4>3. QED
          BY <3>2, <4>1, <4>2 DEF Blank
      <3>3. QED
        BY <3>1, <3>2
    <2>3. ~Blank(t, i) => (Entire(t, i) <=> Entire(bs, off + i))
      <3>1. CASE i = 1
        BY <3>1 DEF Blank
      <3>2. CASE i = 2
        <4>1. (off + i) - 2 = off /\ ~(i > 2) /\ (off = 0 => ~(off + i > 2))
          BY <3>2
        <4>2. QED
          BY <2>1, <4>1 DEF Entire
      <3>3. CASE i > 2
        <4>1. i - 2 \in 1 .. b /\ off + (i - 2) = (off + i) - 2 /\ off + i > 2
          BY <3>3
        <4>2. t[i - 2] = bs[(off + i) - 2]
          BY <1>2, <4>1
        <4>3. QED
          BY <3>3, <4>1, <4>2 DEF Entire
      <3>4. QED
        BY <3>1, <3>2, <3>3
    <2>4. QED
      BY <2>1, <2>2, <2>3 DEF Declares
  <1>6. ASSUME NEW d \in Nat
        PROVE  In(d, all) <=> In(d, ds) \/ In(d, ns)
    <2>1. ns \in Seq(Nat)
      BY DEF Got
    <2>2. /\ Len(all) = Len(ds) + Len(ns)
          /\ \A k \in 1 .. Len(ds) : all[k] = ds[k]
          /\ \A k \in 1 .. Len(ns) : all[Len(ds) + k] = ns[k]
          /\ \A k \in 1 .. Len(all) : k \in 1 .. Len(ds) \/ k - Len(ds) \in 1 .. Len(ns)
      BY <2>1, Joined
    <2>3. PICK a, e \in Nat : a = Len(ds) /\ e = Len(ns)
      BY <2>1
    <2>4. ASSUME In(d, all)
          PROVE  In(d, ds) \/ In(d, ns)
      <3>1. PICK k \in 1 .. Len(all) : all[k] = d
        BY <2>4 DEF In
      <3>2. CASE k \in 1 .. a
        BY <2>2, <2>3, <3>1, <3>2 DEF In
      <3>3. CASE k - a \in 1 .. e
        <4>1. PICK l \in 1 .. e : l = k - a
          BY <3>3
        <4>2. k = a + l
          BY <4>1
        <4>3. ns[l] = d
          BY <2>2, <2>3, <3>1, <4>2
        <4>4. QED
          BY <2>3, <4>3 DEF In
      <3>4. QED
        BY <2>2, <2>3, <3>1, <3>2, <3>3
    <2>5. ASSUME In(d, ds)
          PROVE  In(d, all)
      <3>1. PICK k \in 1 .. a : ds[k] = d
        BY <2>3, <2>5 DEF In
      <3>2. k \in 1 .. Len(all) /\ all[k] = d
        BY <2>2, <2>3, <3>1
      <3>3. QED
        BY <3>2 DEF In
    <2>6. ASSUME In(d, ns)
          PROVE  In(d, all)
      <3>1. PICK k \in 1 .. e : ns[k] = d
        BY <2>3, <2>6 DEF In
      <3>2. a + k \in 1 .. Len(all) /\ all[a + k] = d
        BY <2>2, <2>3, <3>1
      <3>3. QED
        BY <3>2 DEF In
    <2>7. QED
      BY <2>4, <2>5, <2>6
  <1>7. ASSUME NEW d \in Nat
        PROVE  In(d, ns) <=> \E i \in 1 .. b : Declares(bs, off + i) /\ bs[off + i].id = d
    <2>1. ASSUME In(d, ns)
          PROVE  \E i \in 1 .. b : Declares(bs, off + i) /\ bs[off + i].id = d
      <3>1. PICK k \in 1 .. Len(ns) : ns[k] = d
        BY <2>1 DEF In
      <3>2. PICK i \in 1 .. b : Declares(t, i) /\ ns[k] = t[i].id
        BY <1>1 DEF Got
      <3>3. QED
        BY <1>2, <1>5, <3>1, <3>2
    <2>2. ASSUME NEW i \in 1 .. b, Declares(bs, off + i), bs[off + i].id = d
          PROVE  In(d, ns)
      <3>1. Declares(t, i) /\ t[i].id = d
        BY <1>2, <1>5, <2>2
      <3>2. QED
        BY <1>1, <3>1 DEF In, Every
    <2>3. QED
      BY <2>1, <2>2
  <1>8. ASSUME NEW d \in Nat
        PROVE  Said(d, bs, off + b) <=>
                 \/ Said(d, bs, off)
                 \/ \E i \in 1 .. b : Declares(bs, off + i) /\ bs[off + i].id = d
    <2>1. ASSUME NEW j \in 1 .. off + b, Declares(bs, j), bs[j].id = d
          PROVE  \/ Said(d, bs, off)
                 \/ \E i \in 1 .. b : Declares(bs, off + i) /\ bs[off + i].id = d
      <3>1. CASE j \in 1 .. off
        BY <2>1, <3>1 DEF Said
      <3>2. CASE j \notin 1 .. off
        <4>1. PICK i \in 1 .. b : i = j - off
          BY <3>2
        <4>2. j = off + i
          BY <4>1
        <4>3. QED
          BY <2>1, <4>2
      <3>3. QED
        BY <3>1, <3>2
    <2>2. ASSUME Said(d, bs, off)
          PROVE  Said(d, bs, off + b)
      <3>1. \A i \in 1 .. off : i \in 1 .. off + b
        OBVIOUS
      <3>2. QED
        BY <2>2, <3>1 DEF Said
    <2>3. ASSUME NEW i \in 1 .. b, Declares(bs, off + i), bs[off + i].id = d
          PROVE  Said(d, bs, off + b)
      <3>1. off + i \in 1 .. off + b
        OBVIOUS
      <3>2. QED
        BY <2>3, <3>1 DEF Said
    <2>4. QED
      BY <2>1, <2>2, <2>3 DEF Said
  <1>9. \A d \in Nat : d > old => (In(d, all) <=> Said(d, bs, off + b))
    BY <1>6, <1>7, <1>8 DEF SyncOk
  <1>10. QED
    BY <1>1, <1>3, <1>4, <1>9 DEF SyncOk

-----------------------------------------------------------------------------
(* The tail's invariant.                                                   *)

Odd == "odd" \in setting.kinds
Unix == setting.eol = "lf"

TailBasic ==
  /\ setting \in Settings /\ kind \in Seq(setting.kinds)
  /\ file \in {Missing} \cup [ino : Nat, bytes : Seq(Str)]
  /\ inode \in {Unknown} \cup Nat /\ expired \in Nat
  /\ files \in Nat /\ since \in BOOLEAN /\ regrown \in BOOLEAN
  /\ inode = Unknown => pc = "idle"

FileInv == Unix => FileOk(Odd, Len(kind), Bytes)
HeldInv == Unix => offset \in Nat /\ HeldOk(Len(kind), Bytes, offset, decls)

\* Once it has seen the file, and unless that was rotated since, what it holds
\* is what the file declares up to the offset.
SyncInv ==
  Plain => /\ offset = 0 => decls = <<>>
           /\ inode = Unknown => offset = 0
           /\ inode # Unknown /\ ~since /\ ~regrown =>
                /\ file # Missing /\ file.ino = inode
                /\ SyncOk(Bytes, offset, decls, expired)

TailInv == TailBasic /\ FileInv /\ HeldInv /\ SyncInv

LEMMA Apart ==
    ASSUME NEW f \in [ino : Nat, bytes : Seq(Str)]
    PROVE  f # Missing /\ f.ino \in Nat /\ f.ino # Unknown /\ f.bytes \in Seq(Str)
  BY TailAssumption DEF Str

LEMMA BytesType ==
    ASSUME TailBasic
    PROVE  /\ Bytes \in Seq(Str)
           /\ file # Missing => file \in [ino : Nat, bytes : Seq(Str)] /\ Bytes = file.bytes
  <1>1. CASE file = Missing
    BY <1>1 DEF Bytes
  <1>2. CASE file # Missing
    BY <1>2, Apart DEF TailBasic, Bytes
  <1>3. QED
    BY <1>1, <1>2

LEMMA HalfIs ==
    ASSUME TailBasic
    PROVE  HalfWritten <=> Half(Bytes)
  <1>1. PICK bs : bs = Bytes /\ bs \in Seq(Str)
    BY BytesType
  <1>2. Len(bs) # 0 <=> bs # <<>>
    BY <1>1, EmptySeq
  <1>3. Last(bs) = bs[Len(bs)]
    BY DEF Last
  <1>4. QED
    BY <1>1, <1>2, <1>3 DEF HalfWritten, Half

LEMMA GrownFacts ==
    ASSUME TailBasic, NEW cs \in Seq(Str), file' \in Grown(cs)
    PROVE  /\ file' \in [ino : Nat, bytes : Seq(Str)] /\ file' # Missing
           /\ Bytes' = Bytes \o cs
           /\ file # Missing => file'.ino = file.ino
  <1>1. CASE file # Missing
    <2>1. file \in [ino : Nat, bytes : Seq(Str)] /\ Bytes = file.bytes
      BY <1>1, BytesType
    <2>2. file' = [file EXCEPT !.bytes = file.bytes \o cs]
      BY <1>1 DEF Grown
    <2>3. PICK r : r = file.bytes \o cs /\ r \in Seq(Str)
      BY <2>1, Joined, Apart
    <2>4. file' \in [ino : Nat, bytes : Seq(Str)] /\ file'.ino = file.ino /\ file'.bytes = r
      BY <2>1, <2>2, <2>3
    <2>5. file' # Missing
      BY <2>4, Apart
    <2>6. Bytes' = r
      BY <2>4, <2>5 DEF Bytes
    <2>7. QED
      BY <2>1, <2>3, <2>4, <2>5, <2>6
  <1>2. CASE file = Missing
    <2>1. file' \in [ino : {files} \cup (IF setting.reuse THEN {0} ELSE {}), bytes : {cs}]
      BY <1>2 DEF Grown
    <2>2. files \in Nat /\ 0 \in Nat
      BY DEF TailBasic
    <2>3. file' \in [ino : Nat, bytes : Seq(Str)] /\ file'.bytes = cs
      BY <2>1, <2>2
    <2>4. file' # Missing
      BY <2>3, Apart
    <2>5. Bytes' = cs
      BY <2>3, <2>4 DEF Bytes
    <2>6. Bytes \o cs = cs
      BY <1>2, ConcatEmptySeq DEF Bytes
    <2>7. QED
      BY <1>2, <2>3, <2>4, <2>5, <2>6
  <1>3. QED
    BY <1>1, <1>2

-----------------------------------------------------------------------------
(* The writers.                                                            *)

\* Bytes of line id, none of which ends it.
Unended(odd, cs, id) ==
  /\ cs \in Seq(Str)
  /\ \A i \in 1 .. Len(cs) : /\ cs[i].id = id /\ cs[i].part # "cr" /\ cs[i].part # "nl"
                             /\ cs[i].part = "odd" => odd

LEMMA UnendedEmpty ==
    ASSUME NEW odd, NEW id
    PROVE  Unended(odd, <<>>, id)
  <1>1. PICK e : e = <<>>
    OBVIOUS
  <1>2. e \in Seq(Str) /\ 1 .. Len(e) = {}
    BY <1>1
  <1>3. Unended(odd, e, id)
    BY <1>2 DEF Unended
  <1>4. QED
    BY <1>1, <1>3

LEMMA SingleByte ==
    ASSUME NEW odd, NEW id \in Nat, NEW p \in Parts, p # "cr", p = "odd" => odd,
           NEW cs, cs = <<[id |-> id, part |-> p]>>
    PROVE  /\ cs \in Seq(Str) /\ Addition(odd, cs, id)
           /\ p # "nl" => Unended(odd, cs, id)
  <1>1. PICK b \in Str : b = [id |-> id, part |-> p] /\ b.id = id /\ b.part = p
    BY DEF Str
  <1>2. cs = <<b>>
    BY <1>1
  <1>3. cs \in Seq(Str) /\ Len(cs) = 1 /\ cs[1] = b
    BY <1>2
  <1>4. \A i \in 1 .. Len(cs) : i = 1 /\ cs[i] = b
    BY <1>3
  <1>5. \A i \in 1 .. Len(cs) : i = Len(cs)
    BY <1>3
  <1>6. Len(cs) # 0
    BY <1>3
  <1>7. QED
    BY <1>1, <1>3, <1>4, <1>5, <1>6, Zenon DEF Addition, Unended

LEMMA UnendedThen ==
    ASSUME NEW odd, NEW id, NEW bs, Unended(odd, bs, id), NEW cs, Addition(odd, cs, id),
           NEW r, r = bs \o cs
    PROVE  Addition(odd, r, id)
  <1>1. bs \in Seq(Str) /\ cs \in Seq(Str)
    BY Zenon DEF Unended, Addition
  <1>2. Len(cs) # 0
    BY Zenon DEF Addition
  <1>3. PICK a, b \in Nat : a = Len(bs) /\ b = Len(cs) /\ b # 0
    BY <1>1, <1>2
  <1>4. /\ r \in Seq(Str) /\ Len(r) = a + b
        /\ \A i \in 1 .. a : r[i] = bs[i]
        /\ \A i \in 1 .. b : r[a + i] = cs[i]
        /\ \A i \in 1 .. a + b : i \in 1 .. a \/ i - a \in 1 .. b
    BY <1>1, <1>3, Joined
  <1>5. ASSUME NEW i \in 1 .. a + b
        PROVE  /\ r[i].id = id /\ r[i].part # "cr" /\ (r[i].part = "odd" => odd)
               /\ r[i].part = "nl" => i = a + b
    <2>1. CASE i \in 1 .. a
      <3>1. r[i] = bs[i]
        BY <1>4, <2>1
      <3>2. i \in 1 .. Len(bs)
        BY <1>3, <2>1
      <3>3. QED
        BY <3>1, <3>2, Zenon DEF Unended
    <2>2. CASE i - a \in 1 .. b
      <3>1. PICK j \in 1 .. b : j = i - a
        BY <2>2
      <3>2. i = a + j
        BY <3>1
      <3>3. r[i] = cs[j]
        BY <1>4, <3>2
      <3>4. j \in 1 .. Len(cs)
        BY <1>3
      <3>5. /\ cs[j].id = id /\ cs[j].part # "cr" /\ (cs[j].part = "odd" => odd)
            /\ cs[j].part = "nl" => j = Len(cs)
        BY <3>4, Zenon DEF Addition
      <3>6. j = Len(cs) => i = a + b
        BY <1>3, <3>2
      <3>7. QED
        BY <3>3, <3>5, <3>6, Zenon
    <2>3. QED
      BY <1>4, <2>1, <2>2, Zenon
  <1>6. Len(r) # 0
    BY <1>3, <1>4
  <1>7. Len(r) = a + b
    BY <1>4
  <1>8. QED
    BY <1>4, <1>5, <1>6, <1>7, Zenon DEF Addition

\* Bytes without a line's end may be bytes of an unfinished line too.
LEMMA RestFacts ==
    ASSUME NEW id \in Nat, NEW k
    PROVE  /\ Rest(id, k) \in Seq(Str) /\ Begun(id) \in Seq(Str)
           /\ Unended(Odd, Begun(id), id) /\ Addition(Odd, Begun(id), id)
           /\ Unix /\ (k = "odd" => Odd) => Addition(Odd, Rest(id, k), id)
  <1>1. PICK p \in Parts : /\ p = (IF k = "odd" THEN "odd" ELSE "last")
                           /\ p # "cr" /\ p # "nl" /\ (p = "odd" => k = "odd")
    BY DEF Parts
  <1>2. PICK one, cr, nl, none : /\ one = <<[id |-> id, part |-> p]>>
                                 /\ cr = <<[id |-> id, part |-> "cr"]>>
                                 /\ nl = <<[id |-> id, part |-> "nl"]>>
                                 /\ none = <<>>
    OBVIOUS
  <1>3. one \in Seq(Str) /\ cr \in Seq(Str) /\ none \in Seq(Str)
    <2>1. [id |-> id, part |-> "cr"] \in Str /\ [id |-> id, part |-> p] \in Str
      BY DEF Str, Parts
    <2>2. QED
      BY <1>2, <2>1
  <1>4. nl \in Seq(Str) /\ Addition(Odd, nl, id)
    <2>1. "nl" \in Parts /\ "nl" # "cr" /\ "nl" # "odd"
      BY DEF Parts
    <2>2. QED
      BY <1>2, <2>1, SingleByte
  <1>5. /\ Begun(id) \in Seq(Str)
        /\ Unended(Odd, Begun(id), id) /\ Addition(Odd, Begun(id), id)
    <2>1. "first" \in Parts /\ "first" # "cr" /\ "first" # "odd" /\ "first" # "nl"
      BY DEF Parts
    <2>2. QED
      BY <2>1, SingleByte DEF Begun
  <1>6. PICK x : x = (IF k = "bad" THEN none ELSE one) /\ x \in Seq(Str)
    BY <1>3
  <1>7. Rest(id, k) = (x \o (IF setting.eol = "crlf" THEN cr ELSE none)) \o nl
    BY <1>1, <1>2, <1>6, Zenon DEF Rest
  <1>8. Rest(id, k) \in Seq(Str)
    <2>1. PICK y : y = (IF setting.eol = "crlf" THEN cr ELSE none) /\ y \in Seq(Str)
      BY <1>3
    <2>2. x \o y \in Seq(Str)
      BY <1>6, <2>1
    <2>3. (x \o y) \o nl \in Seq(Str)
      BY <1>4, <2>2
    <2>4. QED
      BY <1>7, <2>1, <2>3
  <1>9. ASSUME Unix, k = "odd" => Odd
        PROVE  Addition(Odd, Rest(id, k), id)
    <2>1. Rest(id, k) = (x \o none) \o nl
      BY <1>7, <1>9 DEF Unix
    <2>2. x \o none = x
      BY <1>2, <1>6, ConcatEmptySeq
    <2>3. Unended(Odd, one, id)
      BY <1>1, <1>2, <1>9, SingleByte
    <2>4. Unended(Odd, none, id)
      BY <1>2, UnendedEmpty
    <2>5. Unended(Odd, x, id)
      BY <1>6, <2>3, <2>4
    <2>6. QED
      BY <1>4, <2>1, <2>2, <2>5, UnendedThen
  <1>10. QED
    BY <1>5, <1>8, <1>9

\* cs is appended to the file.
Grows(cs) ==
  /\ cs \in Seq(Str) /\ (Unix => Addition(Odd, cs, Len(kind')))
  /\ file' \in [ino : Nat, bytes : Seq(Str)] /\ file' # Missing
  /\ Bytes' = Bytes \o cs /\ (file # Missing => file'.ino = file.ino)
  /\ kind' \in Seq(setting.kinds) /\ Len(kind) <= Len(kind')
  /\ Len(kind) < Len(kind') \/ Half(Bytes)
  /\ UNCHANGED <<setting, expired, files, since, mine>>

LEMMA WriteGrows ==
    ASSUME TailBasic, NEW k \in setting.kinds, NEW whole \in BOOLEAN, Write(k, whole)
    PROVE  \E cs : Grows(cs)
  <1>1. kind \in Seq(setting.kinds)
    BY DEF TailBasic
  <1>2. PICK id \in Nat : id = Len(kind) + 1
    BY <1>1
  <1>3. PICK cs : cs = Begun(id) \o (IF whole THEN Rest(id, k) ELSE <<>>)
    OBVIOUS
  <1>4. /\ file' \in Grown(cs) /\ kind' = Append(kind, k)
        /\ UNCHANGED <<setting, expired, files, since, mine>>
    BY <1>2, <1>3 DEF Write
  <1>5. kind' \in Seq(setting.kinds) /\ Len(kind') = id /\ Len(kind) < id /\ Len(kind) <= id
    BY <1>1, <1>2, <1>4
  <1>6. cs \in Seq(Str) /\ (Unix => Addition(Odd, cs, id))
    <2>1. CASE whole
      <3>1. cs = Begun(id) \o Rest(id, k)
        BY <1>3, <2>1
      <3>2. /\ Rest(id, k) \in Seq(Str) /\ Begun(id) \in Seq(Str)
            /\ Unended(Odd, Begun(id), id) /\ (Unix => Addition(Odd, Rest(id, k), id))
        BY RestFacts DEF Odd
      <3>3. cs \in Seq(Str)
        BY <3>1, <3>2
      <3>4. Unix => Addition(Odd, cs, id)
        BY <3>1, <3>2, UnendedThen
      <3>5. QED
        BY <3>3, <3>4
    <2>2. CASE ~whole
      <3>1. Begun(id) \in Seq(Str) /\ Addition(Odd, Begun(id), id)
        BY RestFacts
      <3>2. cs = Begun(id)
        BY <1>3, <2>2, <3>1, ConcatEmptySeq
      <3>3. QED
        BY <3>1, <3>2
    <2>3. QED
      BY <2>1, <2>2
  <1>7. /\ file' \in [ino : Nat, bytes : Seq(Str)] /\ file' # Missing
        /\ Bytes' = Bytes \o cs /\ (file # Missing => file'.ino = file.ino)
    BY <1>4, <1>6, GrownFacts
  <1>8. Grows(cs)
    BY <1>4, <1>5, <1>6, <1>7 DEF Grows
  <1>9. QED
    BY <1>8

LEMMA FinishGrows ==
    ASSUME TailBasic, FileInv, Finish
    PROVE  \E cs : Grows(cs)
  <1>1. kind \in Seq(setting.kinds) /\ Half(Bytes) /\ Bytes \in Seq(Str)
    BY HalfIs, BytesType DEF TailBasic, Finish
  <1>2. PICK n \in Nat : n = Len(kind)
    BY <1>1
  <1>3. PICK cs : cs = Rest(n, kind[n]) /\ file' \in Grown(cs)
    BY <1>2 DEF Finish
  <1>4. kind' = kind /\ UNCHANGED <<setting, expired, files, since, mine>>
    BY DEF Finish
  <1>5. cs \in Seq(Str) /\ (Unix => Addition(Odd, cs, n))
    <2>1. Unix /\ kind[n] = "odd" => Odd
      <3>1. ASSUME Unix, kind[n] = "odd"
            PROVE  Odd
        <4>1. n # 0
          <5>1. PICK z \in 1 .. Len(Bytes) : z = Len(Bytes)
            BY <1>1 DEF Half
          <5>2. Bytes[z].id = n /\ Bytes[z].id # 0
            BY <1>1, <1>2, <3>1, <5>1 DEF FileInv, FileOk
          <5>3. QED
            BY <5>2
        <4>2. n \in 1 .. Len(kind)
          BY <1>2, <4>1
        <4>3. kind[n] \in setting.kinds
          BY <1>1, <4>2, ElementOfSeq
        <4>4. QED
          BY <3>1, <4>3 DEF Odd
      <3>2. QED
        BY <3>1
    <2>2. QED
      BY <1>3, <2>1, RestFacts
  <1>6. /\ file' \in [ino : Nat, bytes : Seq(Str)] /\ file' # Missing
        /\ Bytes' = Bytes \o cs /\ (file # Missing => file'.ino = file.ino)
    BY <1>3, <1>5, GrownFacts
  <1>7. Grows(cs)
    BY <1>1, <1>2, <1>4, <1>5, <1>6 DEF Grows
  <1>8. QED
    BY <1>7

LEMMA PlainIs ==
    ASSUME Plain
    PROVE  Unix /\ ~Odd /\ "huge" \notin setting.kinds
  BY DEF Plain, Unix, Odd

LEMMA GrowsInv ==
    ASSUME TailInv, NEW cs, Grows(cs)
    PROVE  TailInv'
  <1>1. /\ setting' = setting /\ expired' = expired /\ files' = files /\ since' = since
        /\ pc' = pc /\ inode' = inode /\ offset' = offset /\ decls' = decls /\ regrown' = regrown
    BY DEF Grows, mine
  <1>2. PICK n, m \in Nat : n = Len(kind) /\ m = Len(kind')
    BY DEF TailInv, TailBasic, Grows
  <1>3. PICK bs, r : bs = Bytes /\ r = Bytes' /\ r = bs \o cs
    BY DEF Grows
  <1>4. n <= m /\ (n < m \/ Half(bs)) /\ (Unix => Addition(Odd, cs, m))
    BY <1>2, <1>3 DEF Grows
  <1>5. (Unix' <=> Unix) /\ Odd' = Odd /\ (Plain' <=> Plain)
    BY <1>1 DEF Unix, Odd, Plain
  <1>6. TailBasic'
    BY <1>1 DEF TailInv, TailBasic, Grows
  <1>7. ASSUME Unix
        PROVE  /\ FileOk(Odd, m, r)
               /\ HeldOk(m, r, offset, decls) /\ offset \in Nat
               /\ SyncOk(bs, offset, decls, expired) => SyncOk(r, offset, decls, expired)
    <2>1. FileOk(Odd, n, bs) /\ HeldOk(n, bs, offset, decls) /\ offset \in Nat
      BY <1>2, <1>3, <1>7 DEF TailInv, FileInv, HeldInv
    <2>2. /\ FileOk(Odd, m, r)
          /\ \A off \in Nat : \A ds : HeldOk(n, bs, off, ds) => HeldOk(m, r, off, ds)
          /\ \A off \in Nat : \A ds, old : SyncOk(bs, off, ds, old) => SyncOk(r, off, ds, old)
      BY <1>3, <1>4, <1>7, <2>1, AppendOk
    <2>3. QED
      BY <2>1, <2>2
  <1>8. FileInv'
    BY <1>2, <1>3, <1>5, <1>7 DEF FileInv
  <1>9. HeldInv'
    BY <1>1, <1>2, <1>3, <1>5, <1>7 DEF HeldInv
  <1>10. SyncInv'
    <2> SUFFICES ASSUME Plain
                 PROVE  /\ offset = 0 => decls = <<>>
                        /\ inode = Unknown => offset = 0
                        /\ inode # Unknown /\ ~since /\ ~regrown =>
                             /\ file' # Missing /\ file'.ino = inode
                             /\ SyncOk(r, offset, decls, expired)
      BY <1>1, <1>3, <1>5 DEF SyncInv
    <2>1. /\ offset = 0 => decls = <<>>
          /\ inode = Unknown => offset = 0
      BY DEF TailInv, SyncInv
    <2>2. ASSUME inode # Unknown, ~since, ~regrown
          PROVE  /\ file' # Missing /\ file'.ino = inode
                 /\ SyncOk(r, offset, decls, expired)
      <3>1. file # Missing /\ file.ino = inode /\ SyncOk(bs, offset, decls, expired)
        BY <1>3, <2>2 DEF TailInv, SyncInv
      <3>2. Unix
        BY PlainIs
      <3>3. QED
        BY <1>7, <3>1, <3>2 DEF Grows
    <2>3. QED
      BY <2>1, <2>2
  <1>11. QED
    BY <1>6, <1>8, <1>9, <1>10 DEF TailInv

LEMMA RotateInv ==
    ASSUME TailInv, NEW how, Rotate(how)
    PROVE  TailInv'
  <1>1. /\ setting' = setting /\ kind' = kind /\ expired' = expired /\ since' = TRUE
        /\ pc' = pc /\ inode' = inode /\ offset' = offset /\ decls' = decls /\ regrown' = regrown
        /\ files' = files + 1 /\ file # Missing
        /\ file' = IF how = "truncate" THEN [file EXCEPT !.bytes = <<>>] ELSE Missing
    BY DEF Rotate, mine
  <1>2. file \in [ino : Nat, bytes : Seq(Str)]
    BY <1>1, BytesType DEF TailInv
  <1>3. file' \in {Missing} \cup [ino : Nat, bytes : Seq(Str)] /\ Bytes' = <<>>
    <2>1. CASE how = "truncate"
      <3>1. PICK e \in Seq(Str) : e = <<>>
        BY EmptySeq
      <3>2. file' = [file EXCEPT !.bytes = e]
        BY <1>1, <2>1, <3>1
      <3>3. file' \in [ino : Nat, bytes : Seq(Str)] /\ file'.bytes = e
        BY <1>2, <3>1, <3>2
      <3>4. file' # Missing
        BY <3>3, Apart
      <3>5. QED
        BY <3>1, <3>3, <3>4 DEF Bytes
    <2>2. CASE how # "truncate"
      BY <1>1, <2>2 DEF Bytes
    <2>3. QED
      BY <2>1, <2>2
  <1>4. TailBasic'
    BY <1>1, <1>3 DEF TailInv, TailBasic
  <1>10. PICK e \in Seq(Str) : e = <<>>
    BY EmptySeq
  <1>5. e = <<>> /\ Len(e) = 0 /\ 1 .. Len(e) = {}
    BY <1>10
  <1>6. FileInv'
    <2>1. ~Half(e) /\ LinesRise(e)
      BY <1>5 DEF Half, LinesRise
    <2>2. FileOk(Odd', Len(kind'), e)
      BY <1>5, <2>1 DEF FileOk
    <2>3. QED
      BY <1>3, <1>5, <2>2 DEF FileInv
  <1>7. HeldInv'
    <2>1. ASSUME Unix
          PROVE  offset \in Nat /\ HeldOk(Len(kind), e, offset, decls)
      <3>1. offset \in Nat /\ HeldOk(Len(kind), Bytes, offset, decls)
        BY <2>1 DEF TailInv, HeldInv
      <3>2. ~Half(e)
        BY <1>5 DEF Half
      <3>3. QED
        BY <1>5, <3>1, <3>2 DEF HeldOk
    <2>2. Unix' <=> Unix
      BY <1>1 DEF Unix
    <2>3. QED
      BY <1>1, <1>3, <1>5, <2>1, <2>2 DEF HeldInv
  <1>8. SyncInv'
    <2>1. Plain' <=> Plain
      BY <1>1 DEF Plain
    <2>2. QED
      BY <1>1, <2>1 DEF TailInv, SyncInv
  <1>9. QED
    BY <1>4, <1>6, <1>7, <1>8 DEF TailInv

LEMMA ExpireInv ==
    ASSUME TailInv, Expire
    PROVE  TailInv'
  <1>1. /\ setting' = setting /\ kind' = kind /\ file' = file /\ expired' = expired + 1
        /\ since' = since /\ files' = files
        /\ pc' = pc /\ inode' = inode /\ offset' = offset /\ decls' = decls /\ regrown' = regrown
    BY DEF Expire, mine
  <1>2. Bytes' = Bytes /\ (Unix' <=> Unix) /\ Odd' = Odd /\ (Plain' <=> Plain)
    BY <1>1 DEF Bytes, Unix, Odd, Plain
  <1>3. TailBasic' /\ FileInv' /\ HeldInv'
    <2>1. TailBasic'
      BY <1>1 DEF TailInv, TailBasic
    <2>2. FileInv' /\ HeldInv'
      BY <1>1, <1>2 DEF TailInv, FileInv, HeldInv
    <2>3. QED
      BY <2>1, <2>2
  <1>4. SyncOk(Bytes, offset, decls, expired) => SyncOk(Bytes, offset, decls, expired')
    <2>1. \A d \in Nat : d > expired' => d > expired
      BY <1>1 DEF TailInv, TailBasic
    <2>2. QED
      BY <2>1 DEF SyncOk
  <1>5. SyncInv'
    BY <1>1, <1>2, <1>4 DEF TailInv, SyncInv
  <1>6. QED
    BY <1>3, <1>5 DEF TailInv

-----------------------------------------------------------------------------
(* A refresh that ends has what the file declares.                         *)

\* Lines that are read where no size is refused.
LEMMA PlainNew ==
    ASSUME TailBasic, FileInv, Plain, NEW off \in Nat, NEW t, Unread(t, Bytes, off),
           NEW ls, ls = Lines(t), NEW ps, ps = Parsed(ls), NEW new, new = Of(ps, "declares"),
           NEW ns, ns = Idents(new)
    PROVE  ps = ls /\ Every(ns, t)
  <1>1. PICK bs : bs = Bytes /\ bs \in Seq(Str) /\ FileOk(Odd, Len(kind), bs)
    BY BytesType, PlainIs DEF FileInv
  <1>2. t \in Seq(Str) /\ Ended(t) /\ LinesRise(t)
    BY DEF Unread
  <1>3. ASSUME NEW i \in 1 .. Len(t)
        PROVE  kind[t[i].id] # "huge"
    <2>1. PICK p \in 1 .. Len(bs) : t[i] = bs[p]
      BY <1>1 DEF Unread
    <2>2. bs[p].id \in Nat /\ bs[p].id <= Len(kind) /\ bs[p].id # 0
      BY <1>1, ByteAt DEF FileOk
    <2>3. kind \in Seq(setting.kinds) /\ Len(kind) \in Nat
      BY DEF TailBasic
    <2>4. bs[p].id \in 1 .. Len(kind)
      BY <2>2, <2>3
    <2>5. kind[bs[p].id] \in setting.kinds
      BY <2>3, <2>4, ElementOfSeq
    <2>6. kind[bs[p].id] # "huge"
      BY <2>5, PlainIs
    <2>7. QED
      BY <2>1, <2>6, Zenon
  <1>4. Accepted(t)
    BY <1>3 DEF Accepted
  <1>5. QED
    BY <1>2, <1>4, NewFacts, Zenon

LEMMA WrittenFacts ==
    ASSUME TailBasic, FileInv, Plain
    PROVE  /\ Written \in Seq(Nat) /\ Rising(Written)
           /\ \A d \in Nat : In(d, Written) <=> d > expired /\ Said(d, Bytes, Len(Bytes))
  <1>1. PICK bs : bs = Bytes /\ bs \in Seq(Str) /\ Len(bs) \in Nat
    BY BytesType
  <1>2. FileOk(Odd, Len(kind), bs) /\ Unix
    BY <1>1, PlainIs DEF FileInv
  <1>3. PICK t : t = Whole(Decoded(bs))
    OBVIOUS
  <1>4. Unread(t, bs, 0)
    <2>1. SubSeq(bs, 0 + 1, Len(bs)) = bs
      <3>1. SubSeq(bs, 1, Len(bs)) = bs
        BY <1>1, SubSeqFull
      <3>2. 0 + 1 = 1
        OBVIOUS
      <3>3. QED
        BY <3>1, <3>2, Zenon
    <2>2. t = Whole(Decoded(SubSeq(bs, 0 + 1, Len(bs)))) /\ 0 \in Nat
      BY <1>3, <2>1, Zenon
    <2>3. QED
      BY <1>2, <2>2, UnreadIs
  <1>5. PICK ls, ps, new, ns : /\ ls = Lines(t) /\ ps = Parsed(ls) /\ new = Of(ps, "declares")
                               /\ ns = Idents(new)
    OBVIOUS
  <1>6. Got(ns, t)
    BY <1>4, <1>5, NewFacts, Zenon DEF Unread
  <1>7. ps = ls /\ Every(ns, t)
    BY <1>1, <1>4, <1>5, PlainNew
  <1>8. Written = Kept(ns)
    BY <1>1, <1>3, <1>5, <1>7, Zenon DEF Written, Idents
  <1>9. ns \in Seq(Nat) /\ Rising(ns)
    BY <1>6 DEF Got
  <1>10. PICK w : /\ w = Kept(ns) /\ w \in Seq(Nat) /\ Rising(w)
                  /\ \A k \in 1 .. Len(w) : w[k] > expired /\ \E i \in 1 .. Len(ns) : w[k] = ns[i]
                  /\ \A i \in 1 .. Len(ns) : ns[i] > expired => \E k \in 1 .. Len(w) : w[k] = ns[i]
    <2>1. PICK w : w = Kept(ns)
      OBVIOUS
    <2>2. InWindow(w, ns)
      BY <1>9, <2>1, KeptFacts
    <2>3. QED
      BY <2>1, <2>2, Zenon DEF InWindow
  <1>11. \A i \in 1 .. Len(t) : Declares(t, i) <=> Declares(bs, i)
    <2>1. \A i \in 1 .. Len(t) : 0 + i \in 1 .. Len(bs) /\ t[i] = bs[0 + i]
      BY <1>4 DEF Unread
    <2>2. \A i \in 1 .. Len(t) : i \in 1 .. Len(bs) /\ t[i] = bs[i]
      BY <2>1
    <2>3. ASSUME NEW i \in 1 .. Len(t)
          PROVE  Declares(t, i) <=> Declares(bs, i)
      <3>1. t[i] = bs[i]
        BY <2>2
      <3>2. Len(t) \in Nat
        BY <1>4 DEF Unread
      <3>3. i # 1 => t[i - 1] = bs[i - 1]
        <4>1. i # 1 => i - 1 \in 1 .. Len(t)
          BY <3>2
        <4>2. QED
          BY <2>2, <4>1
      <3>4. i > 2 => t[i - 2] = bs[i - 2]
        <4>1. i > 2 => i - 2 \in 1 .. Len(t)
          BY <3>2
        <4>2. QED
          BY <2>2, <4>1
      <3>5. QED
        BY <3>1, <3>3, <3>4 DEF Declares, Blank, Entire
    <2>4. QED
      BY <2>3
  <1>12. \A i \in 1 .. Len(t) : i \in 1 .. Len(bs) /\ t[i] = bs[i]
    <2>1. \A i \in 1 .. Len(t) : 0 + i \in 1 .. Len(bs) /\ t[i] = bs[0 + i]
      BY <1>4 DEF Unread
    <2>2. QED
      BY <2>1
  <1>13. \A i \in 1 .. Len(bs) : Declares(bs, i) => i \in 1 .. Len(t)
    <2>1. ASSUME NEW i \in 1 .. Len(bs), Declares(bs, i)
          PROVE  i \in 1 .. Len(t)
      <3>1. i > 0 /\ i - 0 = i
        OBVIOUS
      <3>2. i - 0 \in 1 .. Len(t)
        BY <1>4, <2>1, <3>1 DEF Unread, Declares
      <3>3. QED
        BY <3>1, <3>2
    <2>2. QED
      BY <2>1
  <1>14. ASSUME NEW d \in Nat
         PROVE  In(d, w) <=> d > expired /\ Said(d, bs, Len(bs))
    <2>1. ASSUME In(d, w)
          PROVE  d > expired /\ Said(d, bs, Len(bs))
      <3>1. PICK k \in 1 .. Len(w) : w[k] = d
        BY <2>1 DEF In
      <3>2. PICK j \in 1 .. Len(ns) : d > expired /\ ns[j] = d
        BY <1>10, <3>1
      <3>3. PICK i \in 1 .. Len(t) : Declares(t, i) /\ t[i].id = d
        BY <1>6, <3>2 DEF Got
      <3>4. i \in 1 .. Len(bs) /\ Declares(bs, i) /\ bs[i].id = d
        BY <1>11, <1>12, <3>3
      <3>5. QED
        BY <3>2, <3>4 DEF Said
    <2>2. ASSUME d > expired, Said(d, bs, Len(bs))
          PROVE  In(d, w)
      <3>1. PICK i \in 1 .. Len(bs) : Declares(bs, i) /\ bs[i].id = d
        BY <2>2 DEF Said
      <3>2. i \in 1 .. Len(t) /\ Declares(t, i) /\ t[i].id = d
        BY <1>11, <1>12, <1>13, <3>1
      <3>3. PICK j \in 1 .. Len(ns) : ns[j] = d
        BY <1>7, <3>2 DEF Every
      <3>4. PICK k \in 1 .. Len(w) : w[k] = d
        BY <1>10, <2>2, <3>3
      <3>5. QED
        BY <3>4 DEF In
    <2>3. QED
      BY <2>1, <2>2
  <1>15. QED
    BY <1>1, <1>8, <1>10, <1>14

\* In step with a file that is read to its last line.
LEMMA CaughtUp ==
    ASSUME TailBasic, FileInv, Plain, NEW off \in Nat, NEW ds \in Seq(Nat), Rising(ds),
           SyncOk(Bytes, off, ds, expired), \A k \in 1 .. Len(ds) : ds[k] > expired,
           \A i \in 1 .. Len(Bytes) : Bytes[i].part = "nl" => i <= off
    PROVE  ds = Written
  <1>1. PICK bs, w : bs = Bytes /\ w = Written /\ bs \in Seq(Str) /\ Len(bs) \in Nat
    BY BytesType
  <1>2. /\ w \in Seq(Nat) /\ Rising(w)
        /\ \A d \in Nat : In(d, w) <=> d > expired /\ Said(d, bs, Len(bs))
    BY <1>1, WrittenFacts
  <1>3. \A d : Said(d, bs, off) <=> Said(d, bs, Len(bs))
    <2>1. \A i \in 1 .. off : i \in 1 .. Len(bs)
      BY <1>1 DEF SyncOk
    <2>2. \A i \in 1 .. Len(bs) : Declares(bs, i) => i \in 1 .. off
      BY <1>1 DEF Declares
    <2>3. QED
      BY <2>1, <2>2 DEF Said
  <1>4. \A d \in Nat : In(d, ds) => In(d, w)
    <2>1. \A d \in Nat : In(d, ds) => d > expired
      BY DEF In
    <2>2. QED
      BY <1>1, <1>2, <1>3, <2>1 DEF SyncOk
  <1>5. \A d \in Nat : In(d, w) => In(d, ds)
    BY <1>1, <1>2, <1>3 DEF SyncOk
  <1>6. Within(ds, w)
    <2>1. ASSUME NEW m \in 1 .. Len(ds)
          PROVE  \E n \in 1 .. Len(w) : w[n] = ds[m]
      <3>1. ds[m] \in Nat /\ In(ds[m], ds)
        BY ElementOfSeq DEF In
      <3>2. QED
        BY <1>4, <3>1 DEF In
    <2>2. QED
      BY <2>1 DEF Within
  <1>7. Within(w, ds)
    <2>1. ASSUME NEW m \in 1 .. Len(w)
          PROVE  \E n \in 1 .. Len(ds) : ds[n] = w[m]
      <3>1. w[m] \in Nat /\ In(w[m], w)
        BY <1>2, ElementOfSeq DEF In
      <3>2. QED
        BY <1>5, <3>1 DEF In
    <2>2. QED
      BY <2>1 DEF Within
  <1>8. QED
    BY <1>1, <1>2, <1>6, <1>7, RisingSame

-----------------------------------------------------------------------------
(* stat, and the reading.                                                  *)

LEMMA StatInv ==
    ASSUME TailInv, Stat
    PROVE  TailInv' /\ (pc' = "idle" /\ Plain /\ ~since' /\ ~regrown' => decls' = Written)
  <1>1. /\ setting' = setting /\ kind' = kind /\ file' = file /\ expired' = expired
        /\ files' = files /\ since' = FALSE /\ inode' = file.ino /\ file # Missing
        /\ offset' = (IF Restarted THEN 0 ELSE offset)
        /\ decls' = (IF pc' = "read" THEN DeclsAfter ELSE Kept(DeclsAfter))
        /\ pc' = (IF Len(file.bytes) > offset' THEN "read" ELSE "idle")
        /\ regrown' = (regrown \/ (/\ since /\ offset > 0 /\ file.ino = inode
                                   /\ Len(file.bytes) >= offset))
    BY DEF Stat
  <1>2. /\ Bytes' = Bytes /\ (Unix' <=> Unix) /\ Odd' = Odd /\ (Plain' <=> Plain)
        /\ file \in [ino : Nat, bytes : Seq(Str)] /\ Bytes = file.bytes
    BY <1>1, BytesType DEF TailInv, Bytes, Unix, Odd, Plain
  <1>3. file.ino \in Nat /\ file.ino # Unknown
    BY <1>2, Apart
  <1>4. TailBasic'
    <2>1. regrown' \in BOOLEAN
      BY <1>1 DEF TailInv, TailBasic
    <2>2. QED
      BY <1>1, <1>3, <2>1 DEF TailInv, TailBasic
  <1>5. FileInv'
    BY <1>1, <1>2 DEF TailInv, FileInv
  <1>6. PICK n, bs, mid : n = Len(kind) /\ bs = Bytes /\ mid = DeclsAfter /\ bs \in Seq(Str)
    BY <1>2, Apart
  <1>7. ASSUME Unix
        PROVE  /\ offset' \in Nat /\ HeldOk(n, bs, offset', mid)
               /\ HeldOk(n, bs, offset', decls')
               /\ mid = <<>> => decls' = <<>>
               /\ pc' = "idle" => \A k \in 1 .. Len(decls') : decls'[k] > expired
               /\ SyncOk(bs, offset', mid, expired) => SyncOk(bs, offset', decls', expired)
    <2>1. offset \in Nat /\ HeldOk(n, bs, offset, decls)
      BY <1>6, <1>7 DEF TailInv, HeldInv
    <2>2. offset' \in Nat /\ HeldOk(n, bs, offset', mid)
      <3>1. CASE Restarted
        <4>1. offset' = 0 /\ mid = <<>>
          BY <1>1, <1>6, <3>1 DEF DeclsAfter
        <4>2. PICK e : e = <<>> /\ e = mid
          BY <4>1
        <4>3. e \in Seq(Nat) /\ 1 .. Len(e) = {}
          BY <4>2
        <4>4. HeldOk(n, bs, 0, e)
          BY <4>3 DEF HeldOk, Rising
        <4>5. QED
          BY <4>1, <4>2, <4>4
      <3>2. CASE ~Restarted
        BY <1>1, <1>6, <2>1, <3>2 DEF DeclsAfter
      <3>3. QED
        BY <3>1, <3>2
    <2>3. PICK o, kept : o = offset' /\ kept = Kept(mid)
      OBVIOUS
    <2>4. /\ HeldOk(n, bs, o, kept)
          /\ SyncOk(bs, o, mid, expired) => SyncOk(bs, o, kept, expired)
          /\ \A k \in 1 .. Len(kept) : kept[k] > expired
          /\ mid = <<>> => kept = <<>>
      BY <2>2, <2>3, KeptOk
    <2>5. decls' = mid \/ decls' = kept
      BY <1>1, <1>6, <2>3
    <2>6. pc' = "idle" => decls' = kept
      BY <1>1, <1>6, <2>3
    <2>7. QED
      BY <2>2, <2>3, <2>4, <2>5, <2>6, Zenon
  <1>8. HeldInv'
    BY <1>1, <1>2, <1>6, <1>7 DEF HeldInv
  <1>9. ASSUME Plain
        PROVE  /\ Unix /\ (offset' = 0 => decls' = <<>>)
               /\ ~regrown' => SyncOk(bs, offset', decls', expired)
    <2>1. Unix
      BY <1>9, PlainIs
    <2>2. offset \in Nat
      BY <2>1 DEF TailInv, HeldInv
    <2>3. Len(bs) \in Nat /\ bs = file.bytes
      BY <1>2, <1>6
    <2>4. ASSUME offset' = 0
          PROVE  mid = <<>> /\ SyncOk(bs, offset', mid, expired)
      <3>1. mid = <<>>
        <4>1. CASE Restarted
          BY <1>6, <4>1 DEF DeclsAfter
        <4>2. CASE ~Restarted
          <5>1. offset = 0 /\ mid = decls
            BY <1>1, <1>6, <2>4, <4>2 DEF DeclsAfter
          <5>2. QED
            BY <1>9, <5>1 DEF TailInv, SyncInv
        <4>3. QED
          BY <4>1, <4>2
      <3>2. PICK e : e = <<>>
        OBVIOUS
      <3>3. 1 .. Len(e) = {} /\ 1 .. 0 = {}
        BY <3>2
      <3>4. SyncOk(bs, 0, e, expired)
        BY <2>3, <3>3 DEF SyncOk, In, Said
      <3>5. QED
        BY <2>4, <3>1, <3>2, <3>4
    <2>5. ASSUME offset' # 0, ~regrown'
          PROVE  SyncOk(bs, offset', mid, expired)
      <3>1. ~Restarted /\ offset' = offset /\ mid = decls /\ offset # 0
        BY <1>1, <1>6, <2>5 DEF DeclsAfter
      <3>2. inode # Unknown
        BY <1>9, <3>1 DEF TailInv, SyncInv
      <3>3. file.ino = inode /\ ~(Len(file.bytes) < offset)
        BY <3>1, <3>2 DEF Restarted
      <3>4. Len(file.bytes) >= offset /\ offset > 0
        BY <2>2, <2>3, <3>1, <3>3
      <3>5. ~since /\ ~regrown
        BY <1>1, <2>5, <3>3, <3>4
      <3>6. SyncOk(bs, offset, decls, expired)
        BY <1>6, <1>9, <3>2, <3>5 DEF TailInv, SyncInv
      <3>7. QED
        BY <3>1, <3>6
    <2>6. QED
      BY <1>7, <2>1, <2>4, <2>5
  <1>10. SyncInv'
    BY <1>1, <1>2, <1>3, <1>6, <1>9 DEF SyncInv
  <1>11. ASSUME pc' = "idle", Plain, ~since', ~regrown'
         PROVE  decls' = Written
    <2>1. /\ offset' \in Nat /\ HeldOk(n, bs, offset', decls')
          /\ \A k \in 1 .. Len(decls') : decls'[k] > expired
          /\ SyncOk(bs, offset', decls', expired)
      BY <1>7, <1>9, <1>11
    <2>2. PICK o, ds : o = offset' /\ ds = decls'
      OBVIOUS
    <2>3. o \in Nat /\ ds \in Seq(Nat) /\ Rising(ds) /\ SyncOk(Bytes, o, ds, expired)
      BY <1>6, <2>1, <2>2 DEF HeldOk
    <2>4. \A i \in 1 .. Len(Bytes) : i <= o
      <3>1. ~(Len(file.bytes) > o)
        BY <1>1, <1>11, <2>2
      <3>2. Len(Bytes) \in Nat /\ Len(Bytes) = Len(file.bytes)
        BY <1>2, <1>6
      <3>3. QED
        BY <2>3, <3>1, <3>2
    <2>5. ds = Written
      BY <1>11, <2>1, <2>2, <2>3, <2>4, CaughtUp DEF TailInv
    <2>6. QED
      BY <2>2, <2>5
  <1>12. QED
    BY <1>4, <1>5, <1>8, <1>10, <1>11 DEF TailInv

LEMMA EncodedFacts ==
    ASSUME NEW t \in Seq(Str)
    PROVE  /\ Encoded(t) \in Nat /\ Encoded(t) >= Len(t)
           /\ (\A i \in 1 .. Len(t) : t[i].part # "odd") => Encoded(t) = Len(t)
  <1>1. PICK S : S = {i \in DOMAIN t : t[i].part = "odd"}
    OBVIOUS
  <1>2. PICK d \in Nat : d = Len(t) /\ DOMAIN t = 1 .. d
    OBVIOUS
  <1>3. IsFiniteSet(S)
    <2>1. IsFiniteSet(1 .. d)
      BY <1>2, FS_Interval
    <2>2. S \subseteq 1 .. d
      BY <1>1, <1>2
    <2>3. QED
      BY <2>1, <2>2, FS_Subset
  <1>4. PICK c \in Nat : c = Cardinality(S)
    BY <1>3, FS_CardinalityType
  <1>5. Encoded(t) = d + 2 * c
    BY <1>1, <1>2, <1>4 DEF Encoded
  <1>6. ASSUME \A i \in 1 .. d : t[i].part # "odd"
        PROVE  c = 0
    <2>1. S = {}
      BY <1>1, <1>2, <1>6
    <2>2. QED
      BY <1>3, <1>4, <2>1, FS_EmptySet
  <1>7. d + 2 * c >= d /\ d + 2 * c \in Nat /\ (c = 0 => d + 2 * c = d)
    OBVIOUS
  <1>8. QED
    BY <1>2, <1>5, <1>6, <1>7

LEMMA ReadInv ==
    ASSUME TailInv, Read
    PROVE  TailInv' /\ (Plain /\ ~since' /\ ~regrown' => decls' = Written)
  <1>1. PICK t, ls, ps, new, ns, all :
           /\ t = Whole(Text) /\ ls = Lines(t) /\ ps = Parsed(ls) /\ new = Of(ps, "declares")
           /\ ns = Idents(new) /\ all = decls \o ns
           /\ offset' = offset + Encoded(t)
           /\ decls' = IF ps = ls THEN Kept(all) ELSE all
    <2>1. PICK t \in {Whole(Text)} : \E ls \in {Lines(t)} : \E ps \in {Parsed(ls)} :
            /\ offset' = offset + Encoded(t)
            /\ decls' = IF ps = ls THEN Kept(decls \o Idents(Of(ps, "declares")))
                        ELSE decls \o Idents(Of(ps, "declares"))
      BY Zenon DEF Read, Idents
    <2>2. QED
      BY <2>1, Zenon
  <1>2. /\ setting' = setting /\ kind' = kind /\ file' = file /\ expired' = expired
        /\ files' = files /\ since' = since /\ inode' = inode /\ regrown' = regrown
        /\ pc' = "idle" /\ file # Missing /\ pc = "read"
    BY DEF Read, disk
  <1>3. Bytes' = Bytes /\ (Unix' <=> Unix) /\ Odd' = Odd /\ (Plain' <=> Plain)
    BY <1>2 DEF Bytes, Unix, Odd, Plain
  <1>4. PICK n \in Nat : n = Len(kind)
    BY DEF TailInv, TailBasic
  <1>5. PICK bs : bs = Bytes /\ bs \in Seq(Str)
    BY BytesType DEF TailInv
  <1>6. TailBasic' /\ FileInv'
    <2>1. TailBasic'
      BY <1>2 DEF TailInv, TailBasic
    <2>2. FileInv'
      BY <1>2, <1>3 DEF TailInv, FileInv
    <2>3. QED
      BY <2>1, <2>2
  <1>7. ASSUME Unix
        PROVE  /\ offset \in Nat /\ FileOk(Odd, n, bs) /\ decls \in Seq(Nat)
               /\ Unread(t, bs, offset) /\ Got(ns, t)
               /\ Encoded(t) \in Nat /\ Encoded(t) >= Len(t) /\ t \in Seq(Str)
               /\ offset' \in Nat /\ HeldOk(n, bs, offset', all) /\ HeldOk(n, bs, offset', decls')
    <2>1. offset \in Nat /\ FileOk(Odd, n, bs) /\ HeldOk(n, bs, offset, decls)
      BY <1>4, <1>5, <1>7 DEF TailInv, FileInv, HeldInv
    <2>2. Unread(t, bs, offset)
      <3>1. t = Whole(Decoded(SubSeq(bs, offset + 1, Len(bs))))
        BY <1>1, <1>5 DEF Text
      <3>2. QED
        BY <2>1, <3>1, UnreadIs
    <2>3. Got(ns, t)
      BY <1>1, <2>2, NewFacts, Zenon DEF Unread
    <2>4. t \in Seq(Str)
      BY <2>2 DEF Unread
    <2>5. Encoded(t) \in Nat /\ Encoded(t) >= Len(t)
      BY <2>4, EncodedFacts
    <2>6. offset' \in Nat
      BY <1>1, <2>1, <2>5
    <2>7. HeldOk(n, bs, offset', all)
      BY <1>1, <2>1, <2>2, <2>3, <2>5, ReadOk
    <2>8. PICK o, kept : o = offset' /\ kept = Kept(all)
      OBVIOUS
    <2>9. HeldOk(n, bs, o, kept)
      BY <2>7, <2>8, KeptOk
    <2>10. HeldOk(n, bs, offset', decls')
      BY <1>1, <2>7, <2>8, <2>9
    <2>11. decls \in Seq(Nat)
      BY <2>1 DEF HeldOk
    <2>12. QED
      BY <2>1, <2>2, <2>3, <2>4, <2>5, <2>6, <2>7, <2>10, <2>11
  <1>8. HeldInv'
    BY <1>2, <1>3, <1>4, <1>5, <1>7 DEF HeldInv
  <1>9. ASSUME Plain
        PROVE  ps = ls /\ Encoded(t) = Len(t)
               /\ decls' = Kept(all) /\ Every(ns, t)
    <2>1. Unix /\ ~Odd
      BY <1>9, PlainIs
    <2>2. ps = ls /\ Every(ns, t)
      <3>1. offset \in Nat /\ Unread(t, Bytes, offset)
        BY <1>5, <1>7, <2>1, Zenon
      <3>2. TailBasic /\ FileInv
        BY DEF TailInv
      <3>3. PICK off \in Nat : Unread(t, Bytes, off)
        BY <3>1, Zenon
      <3>4. ls = Lines(t) /\ ps = Parsed(ls) /\ new = Of(ps, "declares") /\ ns = Idents(new)
        BY <1>1, Zenon
      <3>5. QED
        BY <1>9, <3>2, <3>3, <3>4, PlainNew
    <2>3. \A i \in 1 .. Len(t) : t[i].part # "odd"
      <3>1. ASSUME NEW i \in 1 .. Len(t)
            PROVE  t[i].part # "odd"
        <4>1. PICK p \in 1 .. Len(bs) : t[i] = bs[p]
          BY <1>7, <2>1 DEF Unread
        <4>2. bs[p].part # "odd"
          BY <1>7, <2>1, Zenon DEF FileOk
        <4>3. QED
          BY <4>1, <4>2
      <3>2. QED
        BY <3>1
    <2>4. Encoded(t) = Len(t)
      BY <1>7, <2>1, <2>3, EncodedFacts
    <2>5. QED
      BY <1>1, <2>2, <2>4
  <1>10. ASSUME Plain, ~since, ~regrown
         PROVE  /\ file.ino = inode /\ SyncOk(bs, offset', decls', expired)
                /\ decls' = Written
    <2>1. Unix
      BY <1>10, PlainIs
    <2>2. inode # Unknown
      BY <1>2 DEF TailInv, TailBasic
    <2>3. file.ino = inode /\ SyncOk(bs, offset, decls, expired)
      BY <1>5, <1>10, <2>2 DEF TailInv, SyncInv
    <2>4. PICK o, ds : o = offset' /\ ds = decls'
      OBVIOUS
    <2>5. o = offset + Len(t) /\ ds = Kept(all) /\ o \in Nat
      BY <1>1, <1>7, <1>9, <1>10, <2>1, <2>4
    <2>6. SyncOk(bs, o, all, expired)
      BY <1>1, <1>5, <1>7, <1>9, <1>10, <2>1, <2>3, <2>5, SyncRead
    <2>7. HeldOk(n, bs, o, all)
      BY <1>7, <2>1, <2>4
    <2>8. /\ HeldOk(n, bs, o, ds) /\ SyncOk(bs, o, ds, expired)
          /\ \A k \in 1 .. Len(ds) : ds[k] > expired
      BY <2>5, <2>6, <2>7, KeptOk
    <2>9. ASSUME NEW i \in 1 .. Len(bs), bs[i].part = "nl"
          PROVE  i <= o
      <3>1. CASE i > offset
        <4>1. i - offset \in 1 .. Len(t)
          BY <1>7, <2>1, <2>9, <3>1 DEF Unread
        <4>2. Len(t) \in Nat /\ offset \in Nat
          BY <1>7, <2>1
        <4>3. QED
          BY <2>5, <4>1, <4>2
      <3>2. CASE ~(i > offset)
        <4>1. Len(t) \in Nat /\ offset \in Nat
          BY <1>7, <2>1
        <4>2. QED
          BY <2>5, <3>2, <4>1
      <3>3. QED
        BY <3>1, <3>2
    <2>10. ds \in Seq(Nat) /\ Rising(ds)
      BY <2>8 DEF HeldOk
    <2>11. ds = Written
      BY <1>5, <1>10, <2>5, <2>8, <2>9, <2>10, CaughtUp DEF TailInv
    <2>12. QED
      BY <2>3, <2>4, <2>8, <2>11
  <1>11. SyncInv'
    <2>1. ASSUME Plain, offset' = 0
          PROVE  decls' = <<>>
      <3>1. Unix
        BY <2>1, PlainIs
      <3>2. offset = 0 /\ Len(t) = 0
        <4>1. offset \in Nat /\ Len(t) \in Nat /\ offset' = offset + Len(t)
          BY <1>1, <1>7, <1>9, <2>1, <3>1
        <4>2. QED
          BY <2>1, <4>1
      <3>3. decls = <<>>
        BY <2>1, <3>2 DEF TailInv, SyncInv
      <3>4. ns = <<>>
        <4>1. 1 .. Len(t) = {}
          BY <3>2
        <4>2. ns \in Seq(Nat) /\ Len(ns) \in Nat /\ \A k \in 1 .. Len(ns) : FALSE
          <5>1. Got(ns, t)
            BY <1>7, <3>1, Zenon
          <5>2. ns \in Seq(Nat) /\ \A k \in 1 .. Len(ns) : FALSE
            BY <4>1, <5>1, Zenon DEF Got
          <5>3. QED
            BY <5>2
        <4>3. Len(ns) = 0
          <5>1. Len(ns) # 0 => 1 \in 1 .. Len(ns)
            BY <4>2
          <5>2. QED
            BY <4>2, <5>1
        <4>4. QED
          BY <4>2, <4>3, EmptySeq
      <3>5. all = <<>>
        BY <1>1, <1>7, <3>1, <3>3, <3>4, ConcatEmptySeq
      <3>6. PICK o : o = offset' /\ HeldOk(n, bs, o, all)
        BY <1>7, <3>1
      <3>7. QED
        BY <1>9, <2>1, <3>5, <3>6, KeptOk
    <2>2. inode # Unknown
      BY <1>2 DEF TailInv, TailBasic
    <2>3. QED
      BY <1>2, <1>3, <1>5, <1>10, <2>1, <2>2 DEF SyncInv
  <1>12. QED
    BY <1>2, <1>6, <1>8, <1>10, <1>11 DEF TailInv

LEMMA ReadFailsInv ==
    ASSUME TailInv, ReadFails
    PROVE  TailInv'
  <1>1. /\ setting' = setting /\ kind' = kind /\ file' = file /\ expired' = expired
        /\ files' = files /\ since' = since /\ inode' = inode /\ regrown' = regrown
        /\ offset' = offset /\ decls' = Kept(decls)
        /\ pc' = "idle" /\ file = Missing /\ pc = "read"
    BY DEF ReadFails, disk
  <1>2. Bytes' = Bytes /\ (Unix' <=> Unix) /\ Odd' = Odd /\ (Plain' <=> Plain)
    BY <1>1 DEF Bytes, Unix, Odd, Plain
  <1>3. TailBasic' /\ FileInv'
    <2>1. TailBasic'
      BY <1>1 DEF TailInv, TailBasic
    <2>2. FileInv'
      BY <1>1, <1>2 DEF TailInv, FileInv
    <2>3. QED
      BY <2>1, <2>2
  <1>4. PICK n, bs, ds, kept : /\ n = Len(kind) /\ bs = Bytes /\ ds = decls
                               /\ kept = Kept(ds) /\ kept = decls'
    BY <1>1
  <1>5. Unix => /\ offset \in Nat /\ HeldOk(n, bs, offset, kept)
                /\ ds = <<>> => kept = <<>>
    <2>1. ASSUME Unix
          PROVE  /\ offset \in Nat /\ HeldOk(n, bs, offset, kept)
                 /\ ds = <<>> => kept = <<>>
      <3>1. offset \in Nat /\ HeldOk(n, bs, offset, ds)
        BY <1>4, <2>1 DEF TailInv, HeldInv
      <3>2. QED
        BY <1>4, <3>1, KeptOk
    <2>2. QED
      BY <2>1
  <1>6. HeldInv'
    BY <1>1, <1>2, <1>4, <1>5 DEF HeldInv
  <1>7. SyncInv'
    <2>1. inode # Unknown
      BY <1>1 DEF TailInv, TailBasic
    <2>2. ASSUME Plain
          PROVE  since \/ regrown
      BY <1>1, <2>1, <2>2 DEF TailInv, SyncInv
    <2>3. ASSUME Plain, offset = 0
          PROVE  kept = <<>>
      BY <1>4, <1>5, <2>3, PlainIs DEF TailInv, SyncInv
    <2>4. QED
      BY <1>1, <1>2, <1>4, <2>1, <2>2, <2>3 DEF SyncInv
  <1>8. QED
    BY <1>3, <1>6, <1>7 DEF TailInv

-----------------------------------------------------------------------------
LEMMA TailStarts ==
    ASSUME TailInit
    PROVE  TailInv
  <1>1. /\ kind = <<>> /\ file = Missing /\ expired = 0 /\ files = 0 /\ since = FALSE
        /\ pc = "idle" /\ inode = Unknown /\ offset = 0 /\ decls = <<>> /\ regrown = FALSE
        /\ setting \in Settings
    BY DEF TailInit
  <1>10. PICK e : e = <<>>
    OBVIOUS
  <1>2. e = <<>> /\ e \in Seq(Str) /\ e \in Seq(Nat) /\ e \in Seq(setting.kinds)
    BY <1>10
  <1>3. Len(e) = 0 /\ 1 .. Len(e) = {} /\ Bytes = e /\ decls = e /\ kind = e
    BY <1>1, <1>2 DEF Bytes
  <1>4. ~Half(e) /\ LinesRise(e) /\ Rising(e)
    BY <1>3 DEF Half, LinesRise, Rising
  <1>5. TailBasic
    BY <1>1, <1>2, <1>3 DEF TailBasic
  <1>6. FileInv
    BY <1>2, <1>3, <1>4 DEF FileInv, FileOk
  <1>7. HeldInv
    BY <1>1, <1>2, <1>3, <1>4 DEF HeldInv, HeldOk
  <1>8. SyncInv
    BY <1>1 DEF SyncInv
  <1>9. QED
    BY <1>5, <1>6, <1>7, <1>8 DEF TailInv

LEMMA TailGoesOn ==
    ASSUME TailInv, [TailNext]_tailVars
    PROVE  TailInv' /\ ((Stat /\ pc' = "idle") \/ Read
                          => (Plain /\ ~since' /\ ~regrown' => decls' = Written))
  <1>1. TailInv'
    <2>1. CASE UNCHANGED tailVars
      <3>1. /\ setting' = setting /\ kind' = kind /\ file' = file /\ expired' = expired
            /\ since' = since /\ files' = files /\ pc' = pc /\ inode' = inode
            /\ offset' = offset /\ decls' = decls /\ regrown' = regrown
        BY <2>1 DEF tailVars, disk, mine
      <3>2. Bytes' = Bytes /\ (Unix' <=> Unix) /\ Odd' = Odd /\ (Plain' <=> Plain)
        BY <3>1 DEF Bytes, Unix, Odd, Plain
      <3>3. TailBasic'
        BY <3>1 DEF TailInv, TailBasic
      <3>4. FileInv' /\ HeldInv' /\ SyncInv'
        BY <3>1, <3>2 DEF TailInv, FileInv, HeldInv, SyncInv
      <3>5. QED
        BY <3>3, <3>4 DEF TailInv
    <2>2. ASSUME NEW k \in setting.kinds, NEW whole \in BOOLEAN, Write(k, whole)
          PROVE  TailInv'
      BY <2>2, WriteGrows, GrowsInv DEF TailInv
    <2>3. CASE Finish
      BY <2>3, FinishGrows, GrowsInv DEF TailInv
    <2>4. ASSUME NEW how \in setting.rotations, Rotate(how)
          PROVE  TailInv'
      BY <2>4, RotateInv
    <2>5. CASE Expire
      BY <2>5, ExpireInv
    <2>6. CASE StatFails
      BY <2>1, <2>6 DEF StatFails, tailVars
    <2>7. CASE Stat
      BY <2>7, StatInv
    <2>8. CASE Read
      BY <2>8, ReadInv
    <2>9. CASE ReadFails
      BY <2>9, ReadFailsInv
    <2>10. QED
      BY <2>1, <2>2, <2>3, <2>4, <2>5, <2>6, <2>7, <2>8, <2>9 DEF TailNext
  <1>2. Stat /\ pc' = "idle" => (Plain /\ ~since' /\ ~regrown' => decls' = Written)
    BY StatInv
  <1>3. Read => (Plain /\ ~since' /\ ~regrown' => decls' = Written)
    BY ReadInv
  <1>4. QED
    BY <1>1, <1>2, <1>3

\* No declaration is held twice, however appends, removals and restarts of the
\* file interleave with stat and read, however often they do.
THEOREM NothingTwiceHolds == TailSpec => []NothingTwice
  <1>1. TailInv => NothingTwice
    <2> SUFFICES ASSUME TailInv, Unix
                 PROVE  IsInjective(decls)
      BY DEF NothingTwice, Unix
    <2>1. decls \in Seq(Nat) /\ Rising(decls)
      BY DEF TailInv, HeldInv, HeldOk
    <2>2. DOMAIN decls = 1 .. Len(decls) /\ \A k \in 1 .. Len(decls) : decls[k] \in Nat
      BY <2>1, ElementOfSeq
    <2>3. ASSUME NEW a \in 1 .. Len(decls), NEW b \in 1 .. Len(decls), decls[a] = decls[b]
          PROVE  a = b
      <3>1. ~(a < b) /\ ~(b < a)
        BY <2>1, <2>2, <2>3 DEF Rising
      <3>2. QED
        BY <3>1
    <2>4. QED
      BY <2>2, <2>3 DEF IsInjective
  <1>2. TailInit => TailInv
    BY TailStarts
  <1>3. TailInv /\ [TailNext]_tailVars => TailInv'
    BY TailGoesOn
  <1>4. QED
    BY <1>1, <1>2, <1>3, PTL DEF TailSpec

\* A refresh that no rotation has overtaken ends with exactly what the file
\* declares, in its order, for every number of lines and rotations.
THEOREM RefreshCatchesUpHolds == TailSpec => RefreshCatchesUp
  <1>1. TailInit => TailInv
    BY TailStarts
  <1>2. TailInv /\ [TailNext]_tailVars => TailInv'
    BY TailGoesOn
  <1>3. TailInv /\ [TailNext]_tailVars
          => [(Stat /\ pc' = "idle") \/ Read
                => (Plain /\ ~since' /\ ~regrown' => decls' = Written)]_tailVars
    BY TailGoesOn
  <1>4. QED
    BY <1>1, <1>2, <1>3, PTL DEF TailSpec, RefreshCatchesUp

=============================================================================
