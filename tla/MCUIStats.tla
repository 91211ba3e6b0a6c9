----------------------------- MODULE MCUIStats -----------------------------
(* Two characters of two regions, two windows of two days. *)
EXTENDS UIStats

Hierarchy == [Balmung |-> "Crystal", Ragnarok |-> "Chaos"]
Regions == [Crystal |-> "NA", Chaos |-> "EU"]

Row(world, dc, gender, joined, expansions) ==
    [world |-> world, datacenter |-> dc, region |-> RegionForDatacenter(dc),
     race |-> "Hyur", tribe |-> "Midlander", gender |-> gender,
     active |-> joined # NoDay, capped |-> FALSE, joined |-> joined,
     expansions |-> expansions]

\* c1 joined on the first day of the earlier window, c2 (who may move to c1's
\* world) on the last day of it.
Known ==
    [c1 |-> {Row("Balmung", "Crystal", "Male", Today - 3, {"ARR"})},
     c2 |-> {Row("Ragnarok", "Chaos", "Female", Today - 2, {}),
             Row("Balmung", "Crystal", "Female", Today, {"ARR"})}]

\* c1's profile names a datacenter the hierarchy does not know.
WithUnknown ==
    [c1 |-> {Row("Balmung", "Crystal", "Male", Today - 3, {"ARR"}),
             Row("Newworld", "Shadow", "Male", NoDay, {})},
     c2 |-> {}]

=============================================================================
