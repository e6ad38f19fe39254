----------------------------- MODULE MCRegistry -----------------------------
(***************************************************************************)
(* A small topology for TLC: klass k1 lists both formats, as the klass     *)
(* "requests" of share/grind lists requests and apache; k2 lists one of    *)
(* them and a third, which MCRegistry.cfg leaves without an extractor.     *)
(* Views v1 and v2 share k1.                                               *)
(***************************************************************************)
EXTENDS Registry, TLC

CONSTANTS f1, f2, f3, k1, k2, v1, v2, v3

MCFormats == {f1, f2, f3}
MCKlasses == {k1, k2}
MCViews == {v1, v2, v3}
MCKlassOf == v1 :> k1 @@ v2 :> k1 @@ v3 :> k2
MCFormatsOf == k1 :> {f1, f2} @@ k2 :> {f1, f3}

(* An entry of two formats that makes one view commit, and may match f3,   *)
(* and an entry of the same formats that makes every view commit.          *)
Entry(hits, formats) == [hits |-> hits, bare |-> formats \cap Bare]
MCEntries == {Entry({f1, f2} \X {v1}, {f3}), Entry({f1, f2} \X MCViews, {})}
=============================================================================
