---------------------------- MODULE ActivityTail ----------------------------
(***************************************************************************)
(* How the sentinel tails activity.ndjson (activity.Reconciler.refresh):   *)
(* stat and read are two system calls, writers append lines in between,    *)
(* and the file may be removed, replaced or emptied at any time.  The file *)
(* is a sequence of bytes.  A line is a first byte, a last one and its end *)
(* of line (one that does not parse is only one byte and its end), and is  *)
(* appended in one write or in two.                                        *)
(*                                                                         *)
(* Reconciler takes a refresh for one step that reads complete lines, and  *)
(* has its freshness and the limit MAX_LINES; this module is about which   *)
(* lines a refresh really gets.                                            *)
(***************************************************************************)
EXTENDS Integers, Sequences, FiniteSets, SequencesExt

CONSTANTS MaxLines,    \* bound: lines ever written
          MaxFiles,    \* bound: times the file is removed or emptied
          Settings,    \* writers and rotations a behaviour may have, see setting
          Missing,     \* "there is no such file"
          Unknown      \* "no inode seen yet"

\* A line is read as bytes of these kinds, "odd" is one that is not UTF-8.
Parts == {"first", "last", "odd", "cr", "nl"}

ASSUME TailAssumption ==
    /\ MaxLines \in Nat /\ MaxFiles \in Nat /\ Unknown \notin Nat
    /\ Missing \notin [ino : Nat, bytes : Seq([id : Nat, part : Parts])]
    /\ Settings \subseteq [eol : {"lf", "crlf"},
                           kinds : SUBSET {"good", "bad", "odd", "huge"},
                           rotations : SUBSET {"remove", "truncate"},
                           reuse : BOOLEAN]

VARIABLES
    setting,   \* never changes: end of line, kinds of lines, kinds of rotation,
               \* and whether a new file may get the inode of an old one
    kind,      \* kind[id]: kind of each line ever begun, oldest first
    file,      \* [ino, bytes], or Missing
    expired,   \* lines 1 .. expired are older than WINDOW_SEC
    pc,        \* refresh: "idle", or "read" between stat and open
    inode,     \* Reconciler._inode
    offset,    \* Reconciler._offset
    decls,     \* Reconciler._decls, each by its line
    files,     \* history: how often the file was removed or emptied
    since,     \* history: it was removed or emptied since the last stat
    regrown,   \* history: it was once emptied and refilled unnoticed
    dropped    \* history: lines read together with a huge one before them

disk == <<setting, kind, file, expired, files, since>>
mine == <<pc, inode, offset, decls, regrown, dropped>>
tailVars == <<disk, mine>>

\* "good" parses; "odd" parses too, but holds a byte that is not UTF-8;
\* "bad" does not parse; the declared size of "huge" is infinite.
Kinds == {"good", "bad", "odd", "huge"}
Ids   == 1 .. MaxLines
Byte  == [id : Ids, part : Parts]

\* The elements of s at the places in D, in their order.
Those(s, D) ==
    LET upTo[n \in 0 .. Len(s)] ==
          IF n = 0 THEN <<>>
          ELSE IF n \in D THEN Append(upTo[n - 1], s[n]) ELSE upTo[n - 1]
    IN  upTo[Len(s)]

Begun(id) == <<[id |-> id, part |-> "first"]>>
Rest(id, k) ==
    (IF k = "bad" THEN <<>>
     ELSE <<[id |-> id, part |-> IF k = "odd" THEN "odd" ELSE "last"]>>)
    \o (IF setting.eol = "crlf" THEN <<[id |-> id, part |-> "cr"]>> ELSE <<>>)
    \o <<[id |-> id, part |-> "nl"]>>

-----------------------------------------------------------------------------
TailInit == /\ setting \in Settings
            /\ kind = <<>> /\ expired = 0
            /\ file = Missing /\ files = 0 /\ since = FALSE
            /\ pc = "idle" /\ inode = Unknown /\ offset = 0 /\ decls = <<>>
            /\ regrown = FALSE /\ dropped = {}

(* The writers, and whoever rotates the file.                              *)

Bytes == IF file = Missing THEN <<>> ELSE file.bytes
HalfWritten == Bytes # <<>> /\ Last(Bytes).part = "first"

\* What an append may make of the file; it creates one that is missing.
Grown(bs) ==
    IF file # Missing THEN {[file EXCEPT !.bytes = @ \o bs]}
    ELSE [ino : {files} \cup (IF setting.reuse THEN {0} ELSE {}), bytes : {bs}]

Write(k, whole) ==
    /\ ~HalfWritten /\ Len(kind) < MaxLines
    /\ kind' = Append(kind, k)
    /\ LET id == Len(kind) + 1
       IN  file' \in Grown(Begun(id) \o IF whole THEN Rest(id, k) ELSE <<>>)
    /\ UNCHANGED <<setting, expired, files, since, mine>>

Finish ==
    /\ HalfWritten
    /\ file' \in Grown(Rest(Len(kind), kind[Len(kind)]))
    /\ UNCHANGED <<setting, kind, expired, files, since, mine>>

\* Removal (a writer then makes a new file), or emptying in place.
Rotate(how) ==
    /\ file # Missing /\ ~HalfWritten /\ files < MaxFiles
    /\ file' = IF how = "truncate" THEN [file EXCEPT !.bytes = <<>>] ELSE Missing
    /\ files' = files + 1
    /\ since' = TRUE
    /\ UNCHANGED <<setting, kind, expired, mine>>

\* The oldest declaration leaves the window.
Expire ==
    /\ expired < Len(kind)
    /\ expired' = expired + 1
    /\ UNCHANGED <<setting, kind, file, files, since, mine>>

-----------------------------------------------------------------------------
(* refresh(now): stat.                                                     *)

\* Shrinking is noticed, another inode is not.
Restarted_BySize ==
    inode # Unknown /\ Len(file.bytes) < offset

\* Another inode, or fewer bytes than were read.
Restarted == inode # Unknown /\ (file.ino # inode \/ Len(file.bytes) < offset)

\* The offset restarts, the declarations stay.
DeclsAfter_Stay == decls

\* What was read from the previous file is forgotten with the offset.
DeclsAfter == IF Restarted THEN <<>> ELSE decls

\* The window filter that ends a refresh.
Kept(ds) == Those(ds, {n \in DOMAIN ds : ds[n] > expired})

StatFails ==
    /\ pc = "idle" /\ file = Missing
    /\ UNCHANGED <<disk, mine>>

Stat ==
    /\ pc = "idle" /\ file # Missing
    /\ inode' = file.ino
    /\ offset' = IF Restarted THEN 0 ELSE offset
    /\ pc' = IF Len(file.bytes) > offset' THEN "read" ELSE "idle"
    /\ decls' = IF pc' = "read" THEN DeclsAfter ELSE Kept(DeclsAfter)
    /\ regrown' = (regrown \/ (/\ since /\ offset > 0 /\ file.ino = inode
                               /\ Len(file.bytes) >= offset))
    /\ since' = FALSE
    /\ UNCHANGED <<setting, kind, file, expired, files, dropped>>

-----------------------------------------------------------------------------
(* refresh(now): open, seek, read, and the lines that come of it.          *)

\* What read() returns of bs: the end of a line is one character, and a byte
\* that does not decode is replaced.
Decoded(bs) == Those(bs, {i \in DOMAIN bs : bs[i].part # "cr"})

\* From the offset on.
Text == Decoded(SubSeq(Bytes, offset + 1, Len(Bytes)))

Ends(t) == {i \in DOMAIN t : t[i].part = "nl"}

\* The text up to its last end of line: a partial line waits.
Whole(t) == SubSeq(t, 1, Max({0} \cup Ends(t)))

\* The partial line that was left is passed over for good.
Encoded_All(t) == Len(Text)

\* len(data.encode("utf-8")): the replacement character takes three bytes.
Encoded(t) == Len(t) + 2 * Cardinality({i \in DOMAIN t : t[i].part = "odd"})

\* The line that ends at i was read from its first byte on.
Entire(t, i) == i > 2 /\ t[i - 2].part = "first"
Blank(t, i)  == i = 1 \/ t[i - 1].part = "nl"

\* What the parser makes of each line of t, one after the other.
Line(t, i) == [id |-> t[i].id,
               as |-> IF Blank(t, i) THEN "nothing"
                      ELSE IF ~Entire(t, i) THEN "malformed"
                      ELSE IF kind[t[i].id] = "huge" THEN "raises"
                      ELSE "declares"]
Lines(t) ==
    LET at == Those([i \in DOMAIN t |-> i], Ends(t))
        last == IF t # <<>> /\ Last(t).part # "nl" THEN <<[id |-> Last(t).id, as |-> "malformed"]>>
                ELSE <<>>
    IN  [n \in DOMAIN at |-> Line(t, at[n])] \o last

\* Lines before the one at which _parse raises, if any does.
Parsed(ls) ==
    LET r == {n \in DOMAIN ls : ls[n].as = "raises"}
    IN  IF r = {} THEN ls ELSE SubSeq(ls, 1, Min(r) - 1)

Of(ls, how) == Those(ls, {n \in DOMAIN ls : ls[n].as = how})

\* The exception passes through refresh and the tick; the window filter
\* waits for the next one.
Read ==
    /\ pc = "read" /\ file # Missing
    /\ \E t \in {Whole(Text)} : \E ls \in {Lines(t)} : \E ps \in {Parsed(ls)} :
         LET new == Of(ps, "declares")
             all == decls \o [n \in DOMAIN new |-> new[n].id]
         IN  /\ offset' = offset + Encoded(t)
             /\ decls' = IF ps = ls THEN Kept(all) ELSE all
             /\ dropped' = dropped \cup
                   {ls[n].id : n \in DOMAIN ls \ DOMAIN ps}
    /\ pc' = "idle"
    /\ UNCHANGED <<disk, inode, regrown>>

\* The file went away after stat: OSError is passed over.
ReadFails ==
    /\ pc = "read" /\ file = Missing
    /\ decls' = Kept(decls)
    /\ pc' = "idle"
    /\ UNCHANGED <<disk, inode, offset, regrown, dropped>>

TailNext == \/ \E k \in setting.kinds, whole \in BOOLEAN : Write(k, whole)
            \/ Finish
            \/ \E how \in setting.rotations : Rotate(how)
            \/ Expire
            \/ StatFails \/ Stat
            \/ Read \/ ReadFails

TailSpec == TailInit /\ [][TailNext]_tailVars

\* The sampler refreshes in every tick.
TailFairSpec == TailSpec /\ WF_tailVars(Stat) /\ WF_tailVars(Read \/ ReadFails)

-----------------------------------------------------------------------------
TailTypeOK ==
    /\ setting \in Settings
    /\ kind \in Seq(Kinds) /\ Len(kind) <= MaxLines
    /\ file \in {Missing} \cup [ino : 0 .. MaxFiles, bytes : Seq(Byte)]
    /\ expired \in 0 .. MaxLines
    /\ pc \in {"idle", "read"}
    /\ inode \in {Unknown} \cup 0 .. MaxFiles
    /\ offset \in Nat /\ decls \in Seq(Ids)
    /\ files \in 0 .. MaxFiles /\ since \in BOOLEAN
    /\ regrown \in BOOLEAN /\ dropped \subseteq Ids

\* Lines that are whole in the file, declare something and are in the window.
Written == LET new == Of(Lines(Whole(Decoded(Bytes))), "declares")
           IN  Kept([n \in DOMAIN new |-> new[n].id])

Plain == setting.eol = "lf" /\ setting.kinds \subseteq {"good", "bad"}

(* No declaration is held twice (_matches sums the sizes of all that it    *)
(* holds), through restarts of the offset, races of rotation with refresh, *)
(* drifting offsets and failed refreshes: each restart also empties what   *)
(* is held.                                                                *)
NothingTwice == setting.eol = "lf" => IsInjective(decls)

(* activity.py:309-312, refresh "tolerates truncation and rotation": one   *)
(* that was not overtaken by a rotation ends with exactly the declarations *)
(* that stand whole in the file and are in the window, in their order,     *)
(* unless the file was emptied and refilled between two refreshes; and a   *)
(* half-written last line is left for the next read "rather than counted   *)
(* as malformed".                                                          *)
RefreshCatchesUp ==
    [][(Stat /\ pc' = "idle") \/ Read
         => (Plain /\ ~since' /\ ~regrown' => decls' = Written)]_tailVars

Held(ids) == ids \subseteq ToSet(decls)

(* Once writers and rotations rest, every declaration that stands whole in *)
(* the file is held for as long as it is in the window, whatever was       *)
(* rotated before and raced with, unless the file was emptied and refilled *)
(* unnoticed; a size that int() refuses costs no more than the lines that  *)
(* were read together with it.                                             *)
EventuallyHeld ==
    <>[](Held(ToSet(Written) \ dropped) \/ regrown
         \/ setting.eol # "lf" \/ "odd" \in setting.kinds)

(* activity.py:309-310, "tolerates truncation and rotation" without the    *)
(* exception for files that are emptied and refilled between refreshes.    *)
AnyRotationTolerated == <>[](Held(ToSet(Written)) \/ ~Plain)

(* A line that cannot be used costs only itself: the others are held in    *)
(* the end.                                                                *)
OneBadLineCostsOne == <>[](Held(ToSet(Written)) \/ regrown)

(* No declaration is held twice, also where lines end as on Windows.       *)
NothingTwiceEver == IsInjective(decls)
=============================================================================
