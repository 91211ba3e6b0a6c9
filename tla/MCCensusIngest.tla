-------------------------- MODULE MCCensusIngest --------------------------
(* Instances of CensusIngest for TLC.                                      *)
EXTENDS CensusIngest

CONSTANTS w1, w2

(* One consumer sweeps and checks achievements, another is dedicated to    *)
(* character-census.                                                       *)
Subscribed(w) ==
    IF w = w1 THEN {"id-sweep", "achievement-census"} ELSE {"character-census"}

(* One consumer of profiles; achievements are left to others.              *)
Profiles(w) == {"id-sweep", "character-census"}
=============================================================================
