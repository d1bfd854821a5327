------------------------------- MODULE MCUsers -------------------------------
(***************************************************************************)
(* Instances of Users for TLC: two locales, a tag with a region, one of a  *)
(* language that is not translated.                                        *)
(***************************************************************************)
EXTENDS Users, TLC

CONSTANTS h1, h2, h3, h4

MCTag == {"en-US", "de"}
MCPrimary == "en-US" :> "en" @@ "de" :> "de"

Symmetry == Permutations(Handler)

=============================================================================
