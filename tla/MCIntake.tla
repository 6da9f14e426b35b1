------------------------------ MODULE MCIntake ------------------------------
(***************************************************************************)
(* Orders of every path the schema accepts and all that differ from one of *)
(* them in one field, or in two; on sites below, at and above the limit.   *)
(* The limit is about 1 MW instead of 20 and the export cap 0.5 MW instead *)
(* of 10, so that orders of a few hundred GPUs cross them.                 *)
(***************************************************************************)
EXTENDS Intake

Terms(level, depth, duration, interval) ==
    [level |-> level, depth |-> depth, duration |-> duration, interval |-> interval,
     events |-> 40, notice |-> 600]
Presets == [light |-> Terms("light", 25, 2, 24), standard |-> Terms("standard", 50, 4, 20),
            heavy |-> Terms("heavy", 100, 4, 20)]
\* Terms that drifted from their preset, none at all, and a quick refill.
Drifted == Terms("standard", 50, 3, 20)
Empty == Terms("custom", 0, 4, 20)
Quick == Terms("custom", 50, 8, 2)

Ercot == [cap |-> 50000, programs |-> {"ercot_ader", "ercot_dgr"}, points |-> {"HB_NORTH"}]
Elsewhere == [cap |-> None, programs |-> {}, points |-> {}]
AFile(regions, levels) ==
    [limit |-> 103200, near |-> 90000,
     regions |-> [r \in regions |-> IF r = "ercot" THEN Ercot ELSE Elsewhere],
     levels |-> [l \in levels |-> Presets[l]]]
WholeFile == AFile(Regions, Levels)
MCRegionFiles == {None, WholeFile, AFile({"caiso"}, Levels), AFile(Regions, {"light", "heavy"})}

Firm(region) ==
    [OffGrid EXCEPT !.path = "firm", !.owner = TRUE, !.region = region, !.service = "firm"]
Flexible(fx) ==
    [Firm("ercot") EXCEPT !.path = "flexible", !.service = "flexible", !.flex = fx]
Revenue(export, limit, fx) ==
    [Flexible(fx) EXCEPT !.path = "grid_revenue", !.export = export, !.limit = limit,
                         !.service = IF fx = None THEN "firm" ELSE "flexible",
                         !.access = TRUE, !.program = "ercot_ader", !.point = "HB_NORTH"]
Shapes ==
    {OffGrid, Firm("ercot"), Firm("caiso"), Flexible(Presets.standard), Flexible(Quick),
     Revenue("limited_export", 40000, None), Revenue("export", None, Presets.heavy)}

Altered(g) ==
    UNION {{[g EXCEPT !.level = v] : v \in {None, "transmission"}},
           {[g EXCEPT !.owner = v] : v \in BOOLEAN}, {[g EXCEPT !.retail = v] : v \in BOOLEAN},
           {[g EXCEPT !.region = v] : v \in {None, "ercot", "caiso"}},
           {[g EXCEPT !.service = v] : v \in {None, "firm", "flexible"}},
           {[g EXCEPT !.flex = v] : v \in {None, Presets.standard, Drifted, Empty, Quick}},
           {[g EXCEPT !.export = v] : v \in {"non_export", "limited_export", "export"}},
           {[g EXCEPT !.limit = v] : v \in {None, 0, 50000, 50001}},
           {[g EXCEPT !.access = v] : v \in BOOLEAN},
           {[g EXCEPT !.program = v] : v \in {None, "ercot_ader", "other"}},
           {[g EXCEPT !.point = v] : v \in {None, "HB_NORTH", "other"}},
           {[g EXCEPT !.islanding = v] : v \in BOOLEAN}}

NoOnsite == [type |-> "none", capacity |-> None]
Nuclear(capacity) == [type |-> "nuclear", capacity |-> capacity]
APayload(variant, gpus, capacity, ride, coupling, onsite, grid) ==
    [context |-> "commercial", coupling |-> coupling, partition |-> "standard",
     variant |-> variant, gpus |-> gpus, capacity |-> capacity, ride |-> ride,
     located |-> TRUE, onsite |-> onsite, grid |-> grid]
\* 672 B200 draw 103200, at the limit; 673 are one server more.
OnSites(g) ==
    {APayload("B200", 672, 50000, 0, "dc_external_pcs", NoOnsite, g),
     APayload("B200", 673, 900000, 4, "dc_external_pcs", NoOnsite, g),
     APayload("B200", 673, 900000, 4, "dc_external_pcs", Nuclear(20000), g),
     APayload("B200", 8, 434526, 4, "dc_external_pcs", Nuclear(20000), g),
     APayload("H100_SXM", 1601, 800000, 4, "dc_integrated_pcs", NoOnsite, g),
     APayload("H100_SXM", 801, 300000, 1, "ac_coupled", [type |-> "solar", capacity |-> 9000], g),
     APayload("B200", 1600, 50000, 0, "dc_external_pcs", Nuclear(None), g),
     [APayload("B200", 600, 900000, 1, "ac_coupled", NoOnsite, g) EXCEPT !.located = FALSE]}
OneSite(g) == APayload("B200", 673, 900000, 4, "dc_external_pcs", NoOnsite, g)
Buyers(p) ==
    {[p EXCEPT !.context = c, !.coupling = k, !.partition = a] :
        c \in Contexts, k \in Couplings, a \in {"standard", "govcloud", "none"}}

\* To curtail 95 of 100 of a peak of 219579 takes two PCS and half a watt.
JustOver == APayload("B200", 1600, 220000, 0, "dc_external_pcs", Nuclear(26671),
                     Flexible(Terms("custom", 95, 1, 24)))

MCPayloads ==
    LET once == UNION {Altered(g) : g \in Shapes} IN
    {JustOver} \cup UNION {OnSites(g) : g \in once}
      \cup {OneSite(g) : g \in UNION {Altered(h) : h \in once}}
      \cup UNION {Buyers(OneSite(g)) : g \in Shapes}

\* Nothing known yet; the path only; a path without a utility.
MCDrafts ==
    LET nothing == [path |-> None, region |-> None, service |-> None, flex |-> None,
                    export |-> None, limit |-> None, islanding |-> FALSE]
    IN  {nothing, [nothing EXCEPT !.path = "flexible", !.region = "caiso"],
         [nothing EXCEPT !.path = "firm", !.export = "limited_export", !.islanding = TRUE]}

\* The shapes themselves are enough where only the file is at fault.
ShapePayloads == UNION {OnSites(g) : g \in Shapes}
=============================================================================
