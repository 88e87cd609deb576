------------------------------ MODULE MCCatalog ------------------------------
(* Two editions of a catalogue of two pages for the run of Catalog. *)
EXTENDS CatalogProperties

Arm == [os |-> "darwin", arch |-> "arm64"]
Win == [os |-> "win32", arch |-> "x64"]

Dict(slug, order, archived) == [slug |-> slug, order |-> order, archived |-> archived]
Skill(category, systems) ==
  [category |-> category, needs |-> [systems |-> systems, os |-> {}]]
Plugin(category, min) ==
  [category |-> category, needs |-> [hostTargets |-> {}, minAppVersion |-> min]]

Plugins == [dict |-> <<Dict("a", 1, FALSE)>>, items |-> <<Plugin("a", None)>>]

MCEditions ==
  <<[skill |-> [dict |-> <<Dict("b", 2, FALSE), Dict("other", 1, FALSE), Dict("a", 1, FALSE)>>,
                items |-> <<Skill("a", {}), Skill("b", {Win}), Skill("z", {})>>],
     plugin |-> Plugins],
    [skill |-> [dict |-> <<Dict("a", 1, TRUE), Dict("b", 2, FALSE)>>,
                items |-> <<Skill("a", {}), Skill("b", {Arm})>>],
     plugin |-> Plugins]>>

Op(family, verb) ==
  [family |-> family, verb |-> verb, cc |-> [platform |-> Arm, version |-> None]]
MCOps == {Op("skill", "categories"), Op("plugin", "verdict")}
MCWarmOps == <<Op("skill", "categories")>>

MCHash == [what \in {"list", "dict", "page", "verdict"} |-> IF what = "page" THEN 1 ELSE 0]
=============================================================================
