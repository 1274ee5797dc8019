---------------------------- MODULE HelloStream -----------------------------
(***************************************************************************)
(* Reassembly of ClientHellos, tlsparse.StreamAssembler: the sniffer gets  *)
(* the segments clients send to port 443 as they pass the interface, lost, *)
(* repeated or out of order, buffers them per stream and names a stream    *)
(* once.                                                                   *)
(*                                                                         *)
(* A hello is cut into segments 1 .. size; segment `at` holds its          *)
(* server_name; what the connection sends later is arbitrary bytes, here   *)
(* one segment, size + 1.  Lengths are counted in segments.  Buffers are    *)
(* bytes in the order they came, so a parse sees positions, not who sent   *)
(* them.                                                                   *)
(***************************************************************************)
EXTENDS Integers, FiniteSets, SequencesExt

CONSTANTS Hello,       \* connections, one hello each, in the order they are made
          HelloOf,     \* [Hello -> [src, dst, size, more, at, name]]
          MaxStreamBuf,  \* MAX_STREAM_BUF
          MaxStreams,    \* MAX_STREAMS
          MaxDone,       \* MAX_STREAMS * 4
          Disorder,    \* TRUE: segments may be lost or overtaken
          MaxRepeats,  \* bound: hello segments captured a second time
          NoName       \* a hello without server_name

ASSUME HelloAssumption ==
    /\ Hello \subseteq Nat
    /\ {MaxStreamBuf, MaxStreams, MaxDone, MaxRepeats} \subseteq Nat
    /\ MaxStreams > 0 /\ Disorder \in BOOLEAN
    /\ \A h \in Hello : /\ HelloOf[h].size \in 1 .. MaxStreamBuf
                        /\ HelloOf[h].more \in {0, 1}
                        /\ HelloOf[h].at \in 1 .. HelloOf[h].size

VARIABLES buf,      \* _buf, in order of insertion: stream, claimed length, segments
          done,     \* _done
          got,      \* segments of each hello captured so far
          repeats,  \* hello segments captured again so far
          found,    \* what the last feed returned: the hello fed, the name
          named,    \* history: hellos of which feed returned the name
          tidy,     \* history: hellos that came in order so far, each segment once
          told      \* history: streams feed returned since _done was last empty

helloVars == <<buf, done, got, repeats, found, named, tidy, told>>

Nothing == [of |-> NoName, name |-> NoName]

SamePorts(g, h) ==
    HelloOf[g].src = HelloOf[h].src /\ HelloOf[g].dst = HelloOf[h].dst

\* What connection h sends: the hello and perhaps more.
Segs(h) == 1 .. HelloOf[h].size + HelloOf[h].more

\* A buffer per destination, whatever the source.
Stream_ByDst(h) == HelloOf[h].dst

(* The key of a stream, (src, sport, dst, dport). *)
Stream(h) == <<HelloOf[h].src, HelloOf[h].dst>>

HelloInit == /\ buf = <<>> /\ done = {}
             /\ got = [h \in Hello |-> {}] /\ repeats = 0
             /\ found = Nothing /\ named = {} /\ told = {}
             /\ tidy = Hello

-----------------------------------------------------------------------------
(* parse_client_hello_sni(): the name, when the record is complete and     *)
(* every byte up to server_name stands where the record has it.            *)
Sni(b) ==
    LET first == b.segs[1][1]
        at == HelloOf[first].at
        inPlace == /\ \A i \in 1 .. at : b.segs[i][2] = i
                   /\ HelloOf[b.segs[at][1]].at = at
    IN  IF b.segs[1][2] = 1 /\ Len(b.segs) >= b.claim /\ inPlace
        THEN HelloOf[b.segs[at][1]].name ELSE NoName

\* The buffers without that of a stream, if it has one.
Without(bs, key) ==
    LET i == SelectInSeq(bs, LAMBDA b : b.key = key)
    IN  IF i = 0 THEN bs ELSE RemoveAt(bs, i)

\* A retirement that only drops the buffer.
Retired_Forgotten(s, key) == [s EXCEPT !.buf = Without(@, key)]

(* _retire(): drop the buffer; never look at the stream again, until there *)
(* are so many such streams that all are forgotten.                        *)
Retired(s, key) ==
    LET more == s.done \cup {key}
        full == Cardinality(more) > MaxDone
    IN  [buf |-> Without(s.buf, key),
         done |-> IF full THEN {} ELSE more,
         told |-> IF full THEN {} ELSE s.told]

Buffered(key) == \E i \in DOMAIN buf : buf[i].key = key

\* A buffer grown by a segment (sent as segment p of h); a new one's first
\* bytes say how long a record it begins.
Appended(key, h, p, claim) ==
    IF Buffered(key)
    THEN [i \in DOMAIN buf |-> IF buf[i].key = key
                               THEN [buf[i] EXCEPT !.segs = Append(@, <<h, p>>)]
                               ELSE buf[i]]
    ELSE Append(buf, [key |-> key, claim |-> claim, segs |-> <<<<h, p>>>>])

\* Too many buffers: the oldest is retired.
Evicted(s) == IF Len(s.buf) > MaxStreams THEN Retired(s, s.buf[1].key) ELSE s

\* A record taken for complete one segment too soon.
Over_Early(b) == b.claim = 0 \/ Len(b.segs) + 1 >= b.claim

\* Nothing more to wait for: no handshake, or a complete record.
Over(b) == b.claim = 0 \/ Len(b.segs) >= b.claim

\* No limit on the bytes of a buffer.
TooLong_Never(b) == FALSE

TooLong(b) == Len(b.segs) > MaxStreamBuf

\* How long a record segment p of h may seem to begin.  Bytes from the middle
\* of a stream begin none (0), or by chance one that just fits or never does.
\* (It does not matter for a segment that begins no buffer.)
Claims(h, p) == IF p = 1 \/ Buffered(Stream(h)) THEN {HelloOf[h].size}
                ELSE {0, MaxStreamBuf, MaxStreamBuf + 2}

(* feed(), given a segment that has grown buffer b among all, of a stream *)
(* not finished. *)
Fed(key, all, b) ==
    LET sni == IF TooLong(b) THEN NoName ELSE Sni(b)
        grown == [buf |-> all, done |-> done,
                  told |-> IF sni # NoName THEN told \cup {key} ELSE told]
        kept == IF TooLong(b) THEN grown ELSE Evicted(grown)
    IN  IF TooLong(b) \/ sni # NoName \/ Over(b) THEN Retired(kept, key) ELSE kept

Feed(h, p, claim) ==
    \E all \in {Appended(Stream(h), h, p, claim)} :
    \E b \in {x \in Range(all) : x.key = Stream(h)} :
    \E after \in {Fed(Stream(h), all, b)} :
        LET hit == ~TooLong(b) /\ Sni(b) # NoName
        IN  /\ buf' = after.buf /\ done' = after.done /\ told' = after.told
            /\ found' = IF hit THEN [of |-> h, name |-> Sni(b)] ELSE Nothing
            /\ named' = IF hit THEN named \cup {b.segs[HelloOf[b.segs[1][1]].at][1]}
                        ELSE named

(* feed(), the first return. *)
Ignored(key) == key \in done

\* Whether segment p of h can be the next to pass: no later connection has
\* taken the stream over, and order and repetition are as the network allows.
MayPass(h, p) ==
    /\ \A g \in Hello : SamePorts(g, h) /\ g > h => got[g] = {}
    /\ p \in got[h] => p > HelloOf[h].size \/ repeats < MaxRepeats
    /\ ~Disorder => 1 .. p - 1 \subseteq got[h]

\* The stream of h has had a connection before.
Used(h) == \E g \in Hello \ {h} : SamePorts(g, h) /\ got[g] # {}

(* run_sniffer(): a segment passes the interface. *)
Capture(h, p) ==
    /\ MayPass(h, p)
    /\ got' = [got EXCEPT ![h] = @ \cup {p}]
    /\ repeats' = IF p \in got[h] /\ p <= HelloOf[h].size THEN repeats + 1
                  ELSE repeats
    /\ tidy' = IF /\ got[h] = 1 .. p - 1 \/ p > HelloOf[h].size
                  /\ p = 1 => ~Used(h) THEN tidy ELSE tidy \ {h}
    /\ IF Ignored(Stream(h))
       THEN found' = Nothing /\ UNCHANGED <<buf, done, named, told>>
       ELSE \E claim \in Claims(h, p) : Feed(h, p, claim)

HelloNext == \E h \in Hello : \E p \in Segs(h) : Capture(h, p)

HelloSpec == HelloInit /\ [][HelloNext]_helloVars

-----------------------------------------------------------------------------
HelloTypeOK ==
    /\ \A b \in Range(buf) :
          /\ b.key \in {Stream(h) : h \in Hello}
          /\ b.claim \in 0 .. MaxStreamBuf + 2
          /\ Len(b.segs) >= 1
          /\ \A s \in Range(b.segs) : s[1] \in Hello /\ s[2] \in got[s[1]]
    /\ done \subseteq {Stream(h) : h \in Hello}
    /\ \A h \in Hello : got[h] \subseteq Segs(h)
    /\ repeats \in 0 .. MaxRepeats
    /\ found \in [of : Hello \cup {NoName}, name : {HelloOf[h].name : h \in Hello} \cup {NoName}]
    /\ named \subseteq Hello /\ tidy \subseteq Hello
    /\ told \subseteq {Stream(h) : h \in Hello}

(* "bound memory; oldest dropped first" and "keeps a bulk upload from      *)
(* being buffered forever after its handshake": whatever segments come in  *)
(* whatever order, the buffers, each one's bytes and the finished streams  *)
(* stay within their limits, even where arbitrary bytes claim a record     *)
(* longer than any; each stream has one buffer, no finished stream has     *)
(* one, and no buffer holds a record that is complete already.             *)
BuffersBounded ==
    /\ Len(buf) <= MaxStreams /\ Cardinality(done) <= MaxDone
    /\ \A i, j \in DOMAIN buf : buf[i].key = buf[j].key => i = j
    /\ \A b \in Range(buf) : /\ b.key \notin done
                            /\ Len(b.segs) < b.claim /\ Len(b.segs) <= MaxStreamBuf

(* The name given to a stream's address was sent on that stream, whole, by *)
(* one of the connections that had it, never on another one to the same    *)
(* address.                                                                *)
NoForeignName ==
    found # Nothing =>
        \E h \in Hello : /\ SamePorts(h, found.of)
                         /\ HelloOf[h].name = found.name
                         /\ HelloOf[h].at \in got[h]

(* "Returns (sni, dst_ip) once": hellos captured again, or of a later      *)
(* connection on the same ports, name no stream a second time, unless the  *)
(* set of finished streams was emptied in between.                         *)
OnceEachHello == [][found' # Nothing => Stream(found'.of) \notin told]_helloVars

(* What reassembly is for: a hello split into segments that come in order  *)
(* and once, between segments of as many other streams as the table holds, *)
(* on ports not used before, is named when the last of them has come, or   *)
(* else another stream has taken its place.                                *)
TidyHelloParses ==
    \A h \in tidy :
        HelloOf[h].name # NoName /\ 1 .. HelloOf[h].size \subseteq got[h]
            => h \in named \/ Cardinality({Stream(g) : g \in {x \in Hello : got[x] # {}}}) > MaxStreams

(* tlsparse.py:24-26: "a ClientHello split across any number of segments   *)
(* parses once its bytes have all arrived".                                *)
SplitHelloParses ==
    \A h \in Hello :
        HelloOf[h].name # NoName /\ 1 .. HelloOf[h].size \subseteq got[h]
            => h \in named
=============================================================================
