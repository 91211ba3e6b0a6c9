--------------------------- MODULE StatsSnapshot ---------------------------
(***************************************************************************)
(* The statistics read model: what `refresh ui-stats` computes from the    *)
(* stored characters, what ValidateUIStatsSnapshot demands of it, and what *)
(* the pages read out of it.                                               *)
(*                                                                         *)
(* A view is what a query sees of the characters that are not deleted: a   *)
(* function from their ids to records with fields world, datacenter,       *)
(* region, race, tribe, gender, active, capped, joined (the day of the     *)
(* first-chocobo milestone, or NoDay) and expansions.  The empty string    *)
(* is the code's "", an unknown region, datacenter or world.               *)
(***************************************************************************)
EXTENDS Integers, FiniteSets, FiniteSetsExt

CONSTANTS
    worldDatacenters,   \* the world hierarchy: world -> datacenter
    datacenterRegion,   \* datacenter -> region
    Window,             \* days of the headline window (30 in the code)
    Lookback            \* newCharactersLookbackDays (60 in the code)

ASSUME WindowAssumption == Window \in Nat \ {0} /\ Lookback \in Nat

NoDay == -1
NoScope == [region |-> "", datacenter |-> "", world |-> ""]

RegionForDatacenter(dc) ==
    IF dc \in DOMAIN datacenterRegion THEN datacenterRegion[dc] ELSE ""

-----------------------------------------------------------------------------
(* readCharacterStats: the grouping sets cross a scope level (global or one  *)
(* of Levels) with a dimension (none or one of Dimensions).                  *)

Levels == {"region", "datacenter", "world"}
Dimensions == {"race", "tribe", "gender", "race_gender"}

ScopeAt(level, value) ==
    IF level = "global" THEN NoScope ELSE [NoScope EXCEPT ![level] = value]

ValueAt(c, level) == IF level = "global" THEN "" ELSE c[level]
KeyOf(c, dim) == IF dim = "race_gender" THEN <<c.race, c.gender>> ELSE <<c[dim]>>

Active(view, ids) == {i \in ids : view[i].active}

Group(view, level, scope, dim, key, ids) ==
    [level |-> level, scope |-> scope, dimension |-> dim, key |-> key,
     total |-> Cardinality(ids), active |-> Cardinality(Active(view, ids))]

Summary(view) ==
    [total |-> Cardinality(DOMAIN view),
     active |-> Cardinality(Active(view, DOMAIN view)),
     maxLevel |-> Cardinality({i \in DOMAIN view : view[i].capped})]

\* The rows without a dimension: the populations.  The world row "" is dropped.
Populations(view) ==
    {Group(view, r[1], NoScope, r[1], <<r[2]>>,
           {i \in DOMAIN view : view[i][r[1]] = r[2]}) :
       r \in {<<l, view[i][l]>> : l \in Levels, i \in DOMAIN view} \ {<<"world", "">>}}

\* The rows with a dimension.  Of the rows with an empty scope value only the
\* world ones are dropped; the others carry the scope their value spells.
Breakdowns(view) ==
    {Group(view, r[1], ScopeAt(r[1], r[2]), r[3], r[4],
           {i \in DOMAIN view : ValueAt(view[i], r[1]) = r[2] /\ KeyOf(view[i], r[3]) = r[4]}) :
       r \in {q \in {<<l, ValueAt(view[i], l), d, KeyOf(view[i], d)>> :
                       l \in Levels \union {"global"}, d \in Dimensions, i \in DOMAIN view} :
                q[1] = "world" => q[2] # ""}}

Groups(view) == Populations(view) \union Breakdowns(view)

-----------------------------------------------------------------------------
(* readMilestoneStats: global and per-world counts of the expansions' final  *)
(* quests, and of first chocobos on each day since the lookback.             *)

InWorld(view, world) ==
    IF world = "" THEN DOMAIN view ELSE {i \in DOMAIN view : view[i].world = world}

Worlds(view) == {""} \union {view[i].world : i \in DOMAIN view}

Expansions(view) ==
    {[scope |-> ScopeAt("world", r[1]), expansion |-> r[2],
      count |-> Cardinality({i \in InWorld(view, r[1]) : r[2] \in view[i].expansions})] :
       r \in UNION {{<<w, e>> : e \in UNION {view[i].expansions : i \in InWorld(view, w)}} :
                      w \in Worlds(view)}}

\* Mutant: the lookback starts a day late.
FirstDay_OneShort(today) == today - (Lookback - 2)

FirstDay(today) == today - (Lookback - 1)

\* The days the daily query reports for a world, with FirstDay(today) as cutoff.
ReportedDays(view, world, today) ==
    {view[i].joined : i \in {j \in InWorld(view, world) :
                               view[j].joined # NoDay /\ view[j].joined >= FirstDay(today)}}

NewCharacters(view, today) ==
    {[scope |-> ScopeAt("world", r[1]), day |-> r[2],
      count |-> Cardinality({i \in InWorld(view, r[1]) : view[i].joined = r[2]})] :
       r \in UNION {{<<w, d>> : d \in ReportedDays(view, w, today)} : w \in Worlds(view)}}

-----------------------------------------------------------------------------
(* ValidateUIStatsSnapshot, for the counts and the keys.                     *)

SameGroup(g, h) == g.scope = h.scope /\ g.dimension = h.dimension /\ g.key = h.key

ValidateUIStatsSnapshot(s) ==
    /\ s.summary.active <= s.summary.total
    /\ s.summary.maxLevel <= s.summary.total
    /\ \A g \in s.groups : g.active <= g.total
    /\ \A g, h \in s.groups : SameGroup(g, h) => g = h
    /\ \A e, f \in s.expansions : e.scope = f.scope /\ e.expansion = f.expansion => e = f
    /\ \A d, e \in s.newCharacters : d.scope = e.scope /\ d.day = e.day => d = e

-----------------------------------------------------------------------------
(* What the pages read: the new characters of a scope in the current window  *)
(* and in the one before it, summed over the worlds of the scope.            *)

WorldsForDatacenter(dc) ==
    {w \in DOMAIN worldDatacenters : worldDatacenters[w] = dc}

WorldsForRegion(region) ==
    {w \in DOMAIN worldDatacenters : RegionForDatacenter(worldDatacenters[w]) = region}

worldSet(scope) ==
    IF scope.world # "" THEN {scope.world}
    ELSE IF scope.datacenter # "" THEN WorldsForDatacenter(scope.datacenter)
    ELSE IF scope.region # "" THEN WorldsForRegion(scope.region) ELSE {}

Selected(day, scope) ==
    IF scope = NoScope THEN day.scope = NoScope
    ELSE day.scope.world # "" /\ day.scope.world \in worldSet(scope)

SumCounts(days) == MapThenSumSet(LAMBDA d : d.count, days)

NewCharactersWindow(s, scope, today) ==
    LET picked == {d \in s.newCharacters : Selected(d, scope)}
        currentStart == today - (Window - 1)
        previousStart == today - (2 * Window - 1)
    IN  [current |-> SumCounts({d \in picked : d.day >= currentStart /\ d.day <= today}),
         previous |-> SumCounts({d \in picked : d.day >= previousStart /\ d.day < currentStart})]

=============================================================================
