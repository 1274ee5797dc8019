---------------------------- MODULE MCHelloStream ---------------------------
(* Instances of HelloStream for TLC: tables of hellos. *)
EXTENDS HelloStream

\* Two ports to one address, one to another; the last takes a port again.
Mixed == <<[src |-> "p", dst |-> "x", size |-> 2, more |-> 1, at |-> 1, name |-> "n1"],
           [src |-> "q", dst |-> "x", size |-> 1, more |-> 1, at |-> 1, name |-> "n2"],
           [src |-> "p", dst |-> "y", size |-> 2, more |-> 0, at |-> 1, name |-> NoName],
           [src |-> "p", dst |-> "x", size |-> 1, more |-> 1, at |-> 1, name |-> "n3"]>>

\* Three streams, one hello each, of one to three segments.
Apart == <<[src |-> "p", dst |-> "x", size |-> 3, more |-> 1, at |-> 2, name |-> "n1"],
           [src |-> "q", dst |-> "x", size |-> 2, more |-> 1, at |-> 2, name |-> "n2"],
           [src |-> "p", dst |-> "y", size |-> 3, more |-> 1, at |-> 1, name |-> "n3"]>>
=============================================================================
