--------------------------- MODULE MCPreviewFlow ---------------------------
(***************************************************************************)
(* Instances of PreviewFlow for TLC.  Extractor keys are "YouTube", as     *)
(* yt-dlp spells it, and "youtube", as policies do.  Updates are           *)
(* interchangeable.                                                        *)
(***************************************************************************)
EXTENDS PreviewFlow, TLC

CONSTANTS u1, u2, u3, u4, c1, c2

MCKey   == {"YouTube", "youtube"}
MCLower == [k \in MCKey |-> "youtube"]

Symmetry == Permutations(Update)

=============================================================================
