------------------------------- MODULE SniJoin ------------------------------
(***************************************************************************)
(* The join of connections to names.  The sniffer appends one record per   *)
(* ClientHello to sni.jsonl and rotates the file (sni_sniffer.run_sniffer);*)
(* the sampler looks up each flow's address in the file's tail             *)
(* (SNICache), and endpoints.Allowlist, reloaded when its file changes,    *)
(* decides whether the name is an AI endpoint, whose bytes no detector     *)
(* gets to see (sentinel.aggregate_flows and _tick's observe).             *)
(*                                                                         *)
(* The file is a sequence of lines: sizes in bytes are numbers of lines    *)
(* here.  A lookup is one step: one that overlaps a rotation sees some     *)
(* state of it.  A record carries its age, which stops counting past       *)
(* Window.                                                                 *)
(***************************************************************************)
EXTENDS Integers, Sequences, FiniteSets, SequencesExt

CONSTANTS Conn,        \* connections
          IpOf, NameOf,\* the address and the server name of each connection
          Lists,       \* what the allowlist file may list: exact names, and those
                       \* its patterns match; neither if it is empty or unreadable
          Mtimes,      \* its times of modification
          Fallback,    \* _FALLBACK_EXACT
          Window,      \* SNICache.window
          MaxFile,     \* MAX_BYTES
          Keep,        \* lines a rotation keeps
          TailLen,     \* lines at the end that a lookup reads
          MaxKnown,    \* bound: hellos within the window
          None,        \* "no name", "no connection"
          Torn, Junk   \* a line that lacks its end, and one that does not parse

Ip   == {IpOf[c] : c \in Conn}
Name == {NameOf[c] : c \in Conn}
Recs == [ip : Ip, name : Name, age : 0 .. Window + 1]

ASSUME SniAssumption ==
    /\ {Window, MaxFile, Keep, TailLen, MaxKnown} \subseteq Nat
    /\ 0 < Keep /\ Keep <= TailLen /\ Keep <= MaxFile
    /\ Mtimes \subseteq Nat \ {0} /\ Fallback # {} /\ None \notin Name \cup Conn
    /\ Torn # Junk /\ {Torn, Junk} \cap Recs = {}
    /\ Lists \subseteq [exact : SUBSET Name, pats : SUBSET Name]

VARIABLES file,     \* lines of sni.jsonl, oldest first
          pc,       \* the sniffer: "idle", "write" or "append" in a rotation, "down"
          tail,     \* what the rotation under way writes
          pending,  \* the connection whose hello is recorded after it, or None
          yaml,     \* the allowlist's file: what it lists, and its mtime (or None)
          allow,    \* Allowlist: _exact and _mtime
          known,    \* history: hellos within the window, oldest first, and
                    \* whether no rotation that was cut off can have lost them
          hurt,     \* history: a rotation was cut off, no hello recorded since
          sameTime  \* history: an edit of the list kept the file's mtime

sniffer == <<file, pc, tail, pending, known, hurt>>
list    == <<yaml, sameTime>>
sniVars == <<sniffer, list, allow>>

Rec(c) == [ip |-> IpOf[c], name |-> NameOf[c], age |-> 0]
NoList  == [exact |-> {}, pats |-> {}]
Files  == [names : Lists, mtime : Mtimes] \cup {[names |-> NoList, mtime |-> None]}
Newest(s, n) == IF Len(s) > n THEN SubSeq(s, Len(s) - n + 1, Len(s)) ELSE s

\* What a list stands for: without exact names, read or not, the built-in ones
\* are put in their place; its patterns count all the same.
Effective(l) == (IF l.exact = {} THEN Fallback ELSE l.exact) \cup l.pats

SniInit == /\ file = <<>> /\ pc = "idle" /\ tail = <<>> /\ pending = None
           /\ yaml \in Files
           /\ allow = [names |-> Effective(yaml.names),
                       mtime |-> IF yaml.mtime = None THEN 0 ELSE yaml.mtime]
           /\ known = <<>> /\ hurt = FALSE /\ sameTime = FALSE

-----------------------------------------------------------------------------
(* SNICache: _recent and domain_for_ip.                                    *)

\* Without the cut-off.
InWindow_All(lines) == {i \in DOMAIN lines : lines[i] \in Recs}

InWindow(lines) == {i \in DOMAIN lines : lines[i] \in Recs /\ lines[i].age <= Window}

\* The most recent name recorded for an address, or None.
Resolve(ip) ==
    LET seen == Newest(file, TailLen)
        hits == {i \in InWindow(seen) : seen[i].ip = ip}
    IN  IF hits = {} THEN None ELSE seen[Max(hits)].name

(* Allowlist.reload and matches.                                           *)

\* Reloading whenever the time is later.
Reloads_Later == yaml.mtime # None /\ yaml.mtime > allow.mtime

Reloads == yaml.mtime # None /\ yaml.mtime # allow.mtime

Reloaded == IF Reloads THEN [names |-> Effective(yaml.names), mtime |-> yaml.mtime]
            ELSE allow

(* aggregate_flows: what one flow with a positive delta is taken for.  The *)
(* ledger and the two other detectors get what is not "ai", under its name *)
(* ("dom") or its address ("ip").                                          *)
Kind(c) == LET n == Resolve(IpOf[c])
           IN  IF n = None THEN "ip"
               ELSE IF n \in Reloaded.names THEN "ai" ELSE "dom"

\* A flow is classified, which may reload the list.
Classify(c) ==
    /\ allow' = IF Resolve(IpOf[c]) = None THEN allow ELSE Reloaded
    /\ UNCHANGED <<sniffer, list>>

-----------------------------------------------------------------------------
(* run_sniffer                                                             *)

Known(r, sure) == [ip |-> r.ip, name |-> r.name, age |-> r.age, sure |-> sure]

\* A line that lacks its end takes the record that is appended to it along.
WithRecord(lines, c) ==
    IF lines # <<>> /\ Last(lines) = Torn THEN Append(Front(lines), Junk)
    ELSE Append(lines, Rec(c))

Recorded(c) ==
    /\ file' = WithRecord(file, c)
    /\ known' = Append(known, Known(Rec(c), ~hurt))
    /\ hurt' = FALSE

Oversize == Len(file) > MaxFile

\* The head of the file is kept instead.
TailKept_Head == SubSeq(file, 1, Keep)

\* read_text().splitlines()[-2000:], each line with an end again.
TailKept == LET t == Newest(file, Keep)
            IN  [i \in DOMAIN t |-> IF t[i] = Torn THEN Junk ELSE t[i]]

RecordHello(c) ==
    /\ pc = "idle" /\ ~Oversize /\ Len(known) < MaxKnown
    /\ Recorded(c)
    /\ UNCHANGED <<pc, tail, pending, list, allow>>

\* Any packet starts the rotation of a file that is too long: write_text
\* truncates it first.
Rotate(c) ==
    /\ pc = "idle" /\ Oversize /\ (c # None => Len(known) < MaxKnown)
    /\ tail' = TailKept /\ file' = <<>> /\ pending' = c
    /\ pc' = "write"
    /\ UNCHANGED <<known, hurt, list, allow>>

\* The kept lines reach the file block by block; a block may end in a line.
WriteBlock(n, cut) ==
    /\ pc = "write" /\ n < Len(tail) /\ Len(file) <= n
    /\ file' = SubSeq(tail, 1, n) \o (IF cut THEN <<Torn>> ELSE <<>>)
    /\ UNCHANGED <<pc, tail, pending, known, hurt, list, allow>>

WriteRest ==
    /\ pc = "write"
    /\ file' = tail /\ tail' = <<>>
    /\ pc' = IF pending = None THEN "idle" ELSE "append"
    /\ UNCHANGED <<pending, known, hurt, list, allow>>

\* What a rotation that stops halfway does to what was recorded.
CutOff == /\ tail' = <<>> /\ hurt' = TRUE
          /\ known' = [i \in DOMAIN known |-> Known(known[i], FALSE)]

\* Writing fails, of which the OSError is passed over.
WriteFails ==
    /\ pc = "write" /\ CutOff
    /\ pc' = IF pending = None THEN "idle" ELSE "append"
    /\ UNCHANGED <<file, pending, list, allow>>

AppendPending ==
    /\ pc = "append"
    /\ Recorded(pending)
    /\ pending' = None /\ pc' = "idle"
    /\ UNCHANGED <<tail, list, allow>>

\* The sniffer is killed, and started again.
Crash ==
    /\ pc # "down" /\ pc' = "down" /\ pending' = None
    /\ IF pc = "write" THEN CutOff ELSE UNCHANGED <<tail, known, hurt>>
    /\ UNCHANGED <<file, list, allow>>

Restart ==
    /\ pc = "down" /\ pc' = "idle"
    /\ UNCHANGED <<file, tail, pending, known, hurt, list, allow>>

-----------------------------------------------------------------------------
\* An edit of the list, or its removal (mtime None).  Its time is another
\* one, unless it falls within the resolution of the file system.
Edit(f) ==
    /\ f # yaml /\ yaml' = f
    /\ sameTime' = (sameTime \/ f.mtime \in {yaml.mtime, allow.mtime} \ {None})
    /\ UNCHANGED <<sniffer, allow>>

OlderRecord(r) == [r EXCEPT !.age = @ + 1]
Aged(s) == [i \in DOMAIN s |->
              IF s[i] \in Recs /\ s[i].age <= Window THEN OlderRecord(s[i]) ELSE s[i]]

\* The hellos that leave the window now; they are oldest first.
Leaving == Max({0} \cup {i \in DOMAIN known : known[i].age = Window})

AgeRecords ==
    /\ file' = Aged(file) /\ tail' = Aged(tail)
    /\ known' = SubSeq([i \in DOMAIN known |-> OlderRecord(known[i])], Leaving + 1, Len(known))
    /\ UNCHANGED <<pc, pending, hurt, list, allow>>

SniNext == \/ \E c \in Conn : Classify(c) \/ RecordHello(c)
           \/ \E c \in Conn \cup {None} : Rotate(c)
           \/ \E n \in 0 .. Keep, cut \in BOOLEAN : WriteBlock(n, cut)
           \/ WriteRest \/ WriteFails \/ AppendPending
           \/ Crash \/ Restart
           \/ \E f \in Files : Edit(f)
           \/ AgeRecords

SniSpec == SniInit /\ [][SniNext]_sniVars

-----------------------------------------------------------------------------
SniTypeOK ==
    /\ file \in Seq(Recs \cup {Torn, Junk}) /\ Len(file) <= MaxFile + 1
    /\ pc \in {"idle", "write", "append", "down"}
    /\ tail \in Seq(Recs \cup {Junk}) /\ Len(tail) <= Keep
    /\ pending \in Conn \cup {None}
    /\ yaml \in Files /\ allow.names \subseteq Name \cup Fallback
    /\ hurt \in BOOLEAN /\ sameTime \in BOOLEAN

At(ip, S) == {i \in S : known[i].ip = ip}

(* A name a flow is judged or reported by was really sent in a hello to    *)
(* its address within the window (sni_sniffer.py: "a correct accusation.   *)
(* Accuracy is the whole product"), whatever rotations, cut-off rotations  *)
(* and lines run into one another left in the file.                        *)
NameIsTrue ==
    \A ip \in Ip : Resolve(ip) # None =>
        \E i \in At(ip, DOMAIN known) : known[i].name = Resolve(ip)

(* No rotation and no restart costs a name that is still wanted: unless a  *)
(* rotation is writing, each address has its most recent name, as long as  *)
(* that is one of the last Keep hellos; only a rotation that is cut off    *)
(* loses names, those before it and one after it.                          *)
NewestNameUsed ==
    LET last == {i \in DOMAIN known : i > Len(known) - Keep}
    IN  pc # "write" =>
          \A ip \in Ip : At(ip, last) # {} =>
              LET k == known[Max(At(ip, last))]
              IN  k.sure => Resolve(ip) = k.name

\* What the allowlist's file says now, to which the built-in names come where
\* it lists no exact one; a file that is gone changes nothing.
Listed == IF yaml.mtime = None THEN allow.names
          ELSE yaml.names.exact \cup yaml.names.pats
               \cup {n \in Fallback : yaml.names.exact = {}}

(* Bytes are kept from the detectors only at an address that was named as  *)
(* an AI endpoint within the window, by the list as it stands in its file  *)
(* now: neither an old record nor an old list excuses egress.  A file that *)
(* lists no exact name, be it empty, unreadable or one of patterns only,   *)
(* excuses the built-in names too (endpoints.py:138).  Two edits that the  *)
(* file's mtime does not tell apart are excepted.                          *)
ExclusionIsListed ==
    \A c \in Conn : (Kind(c) = "ai" /\ ~sameTime) =>
        \E i \in At(IpOf[c], DOMAIN known) : known[i].name \in Listed

(* endpoints.py:12-13, "falls back to a built-in set if the file is        *)
(* unreadable": a file that was read and lists patterns excuses what it    *)
(* lists and nothing else.                                                 *)
FallbackIfUnreadable ==
    \A c \in Conn :
        (Kind(c) = "ai" /\ ~sameTime /\ yaml.mtime # None /\ yaml.names.pats # {}) =>
            \E i \in At(IpOf[c], DOMAIN known) :
                known[i].name \in yaml.names.exact \cup yaml.names.pats

(* sentinel.py:302, "big api.anthropic.com bytes are excluded": bytes  *)
(* at an address all of whose recorded names are on the list are.          *)
AiBytesExcluded ==
    \A c \in Conn :
        LET mine == {i \in DOMAIN file : file[i] \in Recs /\ file[i].ip = IpOf[c]}
        IN  (mine # {} /\ \A i \in mine : file[i].name \in Reloaded.names)
                => Kind(c) = "ai"
=============================================================================
