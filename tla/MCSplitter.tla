----------------------------- MODULE MCSplitter -----------------------------
(***************************************************************************)
(* Messages short enough for the stale bytes to reach back over a whole    *)
(* one after a few reads, and of different lengths.                        *)
(***************************************************************************)
EXTENDS Splitter, TLC

CONSTANTS c1, c2

OneFeed == {c1}
MCFeeds == {c1, c2}
MCSizes == c1 :> <<3, 1, 1, 2, 1, 1, 1>> @@ c2 :> <<1>>
OneSize == c1 :> MCSizes[c1]
=============================================================================
