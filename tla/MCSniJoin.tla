------------------------------ MODULE MCSniJoin -----------------------------
(* Instances of SniJoin for TLC. *)
EXTENDS SniJoin, TLC

CONSTANTS a, b, c, front, other, ai, tel

\* Two names behind one front address, and one elsewhere.
IpOf_Three   == (a :> front) @@ (b :> front) @@ (c :> other)
NameOf_Three == (a :> ai) @@ (b :> tel) @@ (c :> tel)
Listing(exact, pats) == [exact |-> exact, pats |-> pats]
Lists_Three  == {Listing({ai}, {}), Listing({}, {tel}), Listing({}, {})}
Lists_Pats   == {Listing({}, {tel})}
Fallback_Ai  == {ai}
=============================================================================
