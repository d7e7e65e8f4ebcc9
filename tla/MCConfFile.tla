----------------------------- MODULE MCConfFile -----------------------------
(***************************************************************************)
(* Values of ConfFile's constants for TLC.                                 *)
(***************************************************************************)
EXTENDS ConfFileProps

\* A blank line, a comment, a name, and two pairs of different lengths.
Lines == {"blank", "//", "name", "k:v", "key:v"}
Kind == [l \in Lines |-> CASE l = "blank" -> "blank" [] l = "//" -> "comment"
                           [] l = "name" -> "other" [] OTHER -> "pair"]

\* The lengths, scaled down with Block.
Length == [l \in Lines |-> CASE l = "blank" -> 0 [] l = "name" -> 1
                             [] l = "key:v" -> 3 [] OTHER -> 2]
=============================================================================
