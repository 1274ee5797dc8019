--------------------------- MODULE MCActivityTail ---------------------------
(* Instances of ActivityTail for TLC. *)
EXTENDS ActivityTail

Setting(eol, kinds, rotations, reuse) ==
    [eol |-> eol, kinds |-> kinds, rotations |-> rotations, reuse |-> reuse]

\* Plain lines under every rotation, and every line where files are emptied.
Settings_All == {Setting("lf", {"good", "bad"}, {"remove", "truncate"}, TRUE),
                 Setting("lf", {"good", "huge"}, {"truncate"}, FALSE),
                 Setting("lf", {"good", "odd"}, {}, FALSE)}

\* One way in which the tail may go wrong each.
Settings_Regrown == {Setting("lf", {"good"}, {"truncate"}, FALSE)}
Settings_Odd     == {Setting("lf", {"good", "odd"}, {}, FALSE)}
Settings_Huge    == {Setting("lf", {"good", "huge"}, {}, FALSE)}
Settings_Windows == {Setting("crlf", {"good"}, {}, FALSE)}
=============================================================================
