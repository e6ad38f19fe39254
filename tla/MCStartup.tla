----------------------------- MODULE MCStartup ------------------------------
(***************************************************************************)
(* Two groups, as share/grind lays them out: a script per group, klass and *)
(* view, and one (groups/grind.lua) that defines everything at once.  The  *)
(* script of klass k1 defines its group again, on another port, which is   *)
(* ignored.                                                                *)
(***************************************************************************)
EXTENDS Startup, TLC

CONSTANTS g1, g2, f1, f2, k1, k2, v1, v2, v3

MCGroups == {g1, g2}
MCFormats == {f1, f2}
MCKlasses == {k1, k2}
MCViews == {v1, v2, v3}
MCPorts == 1..3

TidyScript ==
  "g1" :> <<GroupCall(g1, 1), SignatureCall(g1), FormatCall(g1, f1),
            ExtractorCall(g1, f1), FormatCall(g1, f2), ExtractorCall(g1, f2)>>
  @@ "g2" :> <<GroupCall(g2, 2), SignatureCall(g2), FormatCall(g2, f1),
               ExtractorCall(g2, f1), KlassCall(g2, k1, {f1}), ViewCall(g2, k1, v1)>>
  @@ "k1" :> <<GroupCall(g1, 3), KlassCall(g1, k1, {f1, f2})>>
  @@ "k2" :> <<KlassCall(g1, k2, {f1})>>
  @@ "v1" :> <<ViewCall(g1, k1, v1)>>
  @@ "v2" :> <<ViewCall(g1, k1, v2)>>
  @@ "v3" :> <<ViewCall(g1, k2, v3)>>
  @@ "v4" :> <<ViewCall(g2, k1, v2)>>
  @@ "v5" :> <<ViewCall(g2, k1, v3)>>

(* Scripts that define formats and klasses again, list a format of the     *)
(* other group, or ask for a port that is taken.                           *)
MCScript ==
  TidyScript
  @@ "again" :> <<FormatCall(g1, f1), KlassCall(g1, k1, {f2}), ViewCall(g1, k1, v3)>>
  @@ "wrong" :> <<KlassCall(g2, k2, {f2})>>
  @@ "taken" :> <<GroupCall(g2, 1)>>
  @@ "busy" :> <<GroupCall(g2, 3)>>
MCFiles == DOMAIN MCScript

(* All in one directory, as share/grind/config.lua has it; the tidy ones   *)
(* in a directory each for groups, klasses and views; the same with a      *)
(* script that defines again; with the directory that contains these       *)
(* three, or the one of the klasses or of a group, named once more.        *)
MCLayouts ==
  LET g == {"g1", "g2"}
      k == {"k1", "k2"}
      v == {"v1", "v2", "v3", "v4", "v5"}
  IN {<<MCFiles>>, <<g, k, v>>, <<g, k, {"again"} \cup v>>,
      <<g, {"taken"} \cup k>>, <<{"k2"} \cup g, v>>,
      <<g, k, v, k>>, <<g, k, g \cup k, v>>, <<g, k, {"v1", "v3", "v4"}, g \cup k \cup v>>}
=============================================================================
