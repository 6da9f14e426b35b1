------------------------------- MODULE Intake -------------------------------
(***************************************************************************)
(* How an order comes in: the regions file read at startup, the sizing     *)
(* previews a customer asks for while drafting, the rules an order is held *)
(* to when it is submitted, its resolution, and the sizing block its DTM   *)
(* carries (grid/, sizing/, module_resolver/, the configurator schemas,    *)
(* the head of JobsService.create, dtm_sizing.py).                         *)
(*                                                                         *)
(* Power is in units of 10 W and energy in units of 10 Wh, as in Sizing.   *)
(* What the code divides by an efficiency of 0.95 is kept as 95 times its  *)
(* value, and a power that is only compared is rounded up, so that every   *)
(* comparison comes out as over the reals.  What the PCS are counted for   *)
(* is first rounded as the code does.                                      *)
(***************************************************************************)
EXTENDS Integers

CONSTANTS Payloads,     \* what a customer may submit
          Programs, Points, \* market programs and settlement points
          Drafts,       \* SizingGridInput: what he may know of his grid before
          RegionFiles,  \* what config/grid_regions.yaml may hold; None: not valid
          None

VARIABLES config,   \* the regions loaded at startup, or None
          payload,  \* the ConfiguratorPayload of the customer
          preview,  \* the SizingPreview shown last, or None
          answer,   \* of the last request
          job,      \* the JobRecord created: payload, preview, resolution
          sizing    \* the sizing block of its DTM, or None

intakeVars == <<config, payload, preview, answer, job, sizing>>

Size == INSTANCE Sizing WITH MaxGpus <- 1, order <- payload, site <- job

AtLeastZero(x) == IF x < 0 THEN 0 ELSE x
Larger(a, b) == IF a < b THEN b ELSE a

Contexts == {"commercial", "sovereign_government", "defense_forward"}
Federal == {"sovereign_government", "defense_forward"}
Couplings == {"ac_coupled", "dc_external_pcs", "dc_integrated_pcs"}
GridPaths == {"off_grid", "firm", "flexible", "grid_revenue"}
Services == {"firm", "flexible"}
Exports == {"non_export", "limited_export", "export"}
Regions == {"ercot", "caiso", "miso", "pjm", "isone", "nyiso", "spp", "non_rto"}
Levels == {"light", "standard", "heavy"}
Interconnections == {"distribution", "transmission"}

FlexObligation == [level: Levels \cup {"custom"}, depth: Int, duration: Int,
                   interval: Int, events: Int, notice: Int]
Grid == [path: GridPaths, level: Interconnections \cup {None}, owner: BOOLEAN,
         retail: BOOLEAN, region: Regions \cup {None}, service: Services \cup {None},
         flex: FlexObligation \cup {None}, export: Exports, limit: Int \cup {None},
         access: BOOLEAN, program: Programs \cup {None}, point: Points \cup {None},
         islanding: BOOLEAN]
SizingGridInput ==
    [path: GridPaths \cup {None}, region: Regions \cup {None},
     service: Services \cup {None}, flex: FlexObligation \cup {None},
     export: Exports \cup {None}, limit: Int \cup {None}, islanding: BOOLEAN]
ConfiguratorPayload ==
    [context: Contexts, coupling: Couplings, partition: {"standard", "govcloud", "none"},
     variant: Size!GpuVariants, gpus: Int, capacity: Int, ride: Int, located: BOOLEAN,
     onsite: [type: {"none", "solar", "nuclear"}, capacity: Int \cup {None}], grid: Grid]

\* SizingPreview, ModuleResolution and what a JobRecord keeps of them.
FlagCodes ==
    {"transmission", "near_limit", "flex_shortfall", "recharge_headroom", "reserve_shortfall",
     "power_shortfall", "export_review", "export_unverified", "non_export_unverified",
     "islanding_review", "islanding_unverified"}
Previews ==
    [gridPeak: Nat, reserve: Nat, bessMin: Nat, level: Interconnections,
     path: {"off_grid", "flexible", None}, recharge: Nat, capped: BOOLEAN, capacity: Nat,
     flags: SUBSET FlagCodes]
Profiles == ({"commercial"} \X Couplings) \cup {<<"defense", "ac_coupled">>}
Resolutions ==
    [profile: Profiles, nodes: Nat \ {0}, compute: Nat \ {0}, grids: Nat \ {0}, pcs: Nat,
     variant: Size!GpuVariants, gpus: Nat \ {0}, capacity: Nat,
     onsite: [type: {"none", "solar", "nuclear"}, capacity: Int \cup {None}],
     ride: Nat, grid: Grid]
JobRecords == [payload: ConfiguratorPayload, preview: Previews, resolution: Resolutions]
SizingBlocks == [load: Nat, reserveFloor: Nat, readiness: Nat, recharge: Nat]

\* What GridRegionsConfig admits: any of the regions, any of the levels.
GridRegionsConfig(file) ==
    /\ file.limit \in Int /\ file.near \in Int
    /\ DOMAIN file.regions \subseteq Regions
    /\ \A r \in DOMAIN file.regions : file.regions[r].cap \in Int \cup {None}
    /\ DOMAIN file.levels \subseteq Levels \cup {"custom"}
    /\ \A l \in DOMAIN file.levels :
          file.levels[l] \in FlexObligation /\ file.levels[l].level = l

ASSUME IntakeAssumption ==
    /\ Payloads \subseteq ConfiguratorPayload
    /\ Drafts \subseteq SizingGridInput
    /\ \A file \in RegionFiles \ {None} : GridRegionsConfig(file)
ASSUME IntakeNone ==
    /\ None \notin GridPaths \cup Services \cup Exports \cup Regions \cup Interconnections
    /\ None \notin Int /\ None \notin FlexObligation /\ None \notin JobRecords

-----------------------------------------------------------------------------
(***************************************************************************)
(* The schema's validators.                                                *)
(***************************************************************************)
OffGrid == [path |-> "off_grid", level |-> None, owner |-> FALSE, retail |-> FALSE,
            region |-> None, service |-> None, flex |-> None, export |-> "non_export",
            limit |-> None, access |-> FALSE, program |-> None, point |-> None,
            islanding |-> FALSE]

\* The fields' own limits of a FlexObligation.
ObligationValid(fx) ==
    fx # None => /\ fx.depth \in 1 .. 100
                 /\ fx.duration > 0 /\ fx.interval > 0
                 /\ fx.events >= 0 /\ fx.notice >= 0

\* V2, V3.  Mutated: flexible service may come without its terms.
PathShapeWithoutTerms(g) ==
    g.path \in {"firm", "flexible"} =>
        /\ g.service = g.path
        /\ g.path = "firm" => g.flex = None
        /\ g.export = "non_export" /\ ~g.access /\ g.program = None
PathShape(g) ==
    g.path \in {"firm", "flexible"} =>
        /\ g.service = g.path
        /\ (g.flex # None) = (g.path = "flexible")
        /\ g.export = "non_export" /\ ~g.access /\ g.program = None

\* V4a
RevenueShape(g) ==
    g.path = "grid_revenue" =>
        /\ g.service \in {"firm", "flexible"}
        /\ (g.flex # None) = (g.service = "flexible")
        /\ g.export # "non_export" /\ g.access
        /\ g.program # None /\ g.point # None

\* V1, V2 to V4a, V5a, EX
GridValid(g) ==
    /\ ObligationValid(g.flex)
    /\ g.path = "off_grid" => g = OffGrid
    /\ PathShape(g) /\ RevenueShape(g)
    /\ g.path # "off_grid" => g.owner /\ g.region # None
    /\ (g.limit # None) = (g.export = "limited_export")
    /\ g.limit # None => g.limit > 0

\* V7
OnsiteValid(gen) ==
    IF gen.type = "none" THEN gen.capacity = None
    ELSE gen.capacity # None /\ gen.capacity > 0

\* Mutated: the battery of a federal site may be CATL.
ProcurableAnywhere(p) == TRUE
Procurable(p) == p.context \in Federal => p.coupling = "ac_coupled"

PayloadValid(p) ==
    /\ p.gpus >= 1 /\ p.capacity > 0 /\ p.ride >= 0
    /\ OnsiteValid(p.onsite) /\ GridValid(p.grid)
    /\ p.partition = "standard" => p.context = "commercial"
    /\ Procurable(p)
    /\ p.grid.islanding => p.ride > 0
    /\ p.grid.path # "off_grid" => p.located

-----------------------------------------------------------------------------
(***************************************************************************)
(* Rules that depend on the region.  A look-up of what the file does not   *)
(* have is a KeyError, which no handler takes for the client's: "500".     *)
(***************************************************************************)
Then(first, second) == IF first = "ok" THEN second ELSE first
Rule(holds) == IF holds THEN "ok" ELSE "422"
Known(key, table, verdict) == IF key \in DOMAIN table THEN verdict ELSE "500"

CheckMarketProgram(g) ==
    IF g.path # "grid_revenue" THEN "ok"
    ELSE Known(g.region, config.regions, Rule(g.program \in config.regions[g.region].programs))

CheckExportLimit(g) ==
    IF g.region # "ercot" \/ g.export # "limited_export" THEN "ok"
    ELSE Known("ercot", config.regions,
               Rule(config.regions.ercot.cap # None => g.limit <= config.regions.ercot.cap))

CheckSettlementPoint(g) ==
    IF g.point = None THEN "ok"
    ELSE IF g.region # "ercot" THEN "422"
    ELSE Known("ercot", config.regions, Rule(g.point \in config.regions.ercot.points))

CheckFlexPreset(fx) ==
    IF fx = None THEN "ok"
    ELSE IF fx.level = "custom" THEN "ok"
    ELSE Known(fx.level, config.levels, Rule(fx = config.levels[fx.level]))

ValidateAgainstRegions(g) ==
    Then(CheckMarketProgram(g),
    Then(CheckExportLimit(g),
    Then(CheckSettlementPoint(g), CheckFlexPreset(g.flex))))

-----------------------------------------------------------------------------
(***************************************************************************)
(* The sizing math.                                                        *)
(***************************************************************************)
SiteLoad(r) == Size!SitePeak(r.variant, Size!NodeCount(r.gpus))
FirmOnsite(gen) == IF gen.type = "nuclear" THEN gen.capacity ELSE 0
\* Mutated: a reactor larger than the site gives a negative peak.
GridPeakSigned(peak, gen) == peak - FirmOnsite(gen)
GridPeak(peak, gen) == AtLeastZero(peak - FirmOnsite(gen))

InterconnectionLevel(peak) ==
    IF peak <= config.limit THEN "distribution" ELSE "transmission"
\* Mutated: at the limit is over it.
LimitStateInclusive(peak) ==
    IF peak >= config.limit THEN "over"
    ELSE IF peak >= config.near THEN "near" ELSE "within"
LimitState(peak) ==
    IF peak > config.limit THEN "over"
    ELSE IF peak >= config.near THEN "near" ELSE "within"

Recommend(context, region, state) ==
    IF context = "defense_forward" \/ region = None THEN "off_grid"
    ELSE IF state # "over" THEN "flexible" ELSE None

EffectiveService(g) ==
    IF g.service # None THEN g.service
    ELSE IF g.path = "flexible" THEN "flexible" ELSE None

\* 95 times the energy, for an efficiency of 0.95.
Energy(capacity) == 95 * capacity
Reserve(ride, peak) == 100 * ride * peak
FlexEnergy(fx, peak) == IF fx = None THEN 0 ELSE fx.depth * peak * fx.duration

\* num / den, rounded up.  To be counted in units of a power, it is divided
\* by that and rounded to six digits before: what is less than half of a
\* digit above a whole unit falls away.  A unit of 0 is for no such count.
RoundedUp(num, den, unit) == Size!CeilDiv(num - (unit * den) \div 2000000, den)

\* E_flex / (0.95 * t_i), and d * P_g.
Recharge(fx, peak, unit) == RoundedUp(4 * FlexEnergy(fx, peak), 361 * fx.interval, unit)
Curtailed(fx, peak, unit) == RoundedUp(fx.depth * peak, 100, unit)

\* bess_covers_h < t_e: the GPUs are capped before the event ends.  Mutated:
\* the reserve is spent on it too.
CapsSpendingReserve(fx, peak, reserve, capacity) ==
    Energy(capacity) < FlexEnergy(fx, peak)
Caps(fx, peak, reserve, capacity) ==
    AtLeastZero(Energy(capacity) - reserve) < FlexEnergy(fx, peak)

\* GRD-PCS-001 and EXT-BESS-002
PCS == 104300
CATL_RACK == 37940

\* Whole units of 10 Wh are far from half a digit of a rack.
BessDcPower(capacity) == Size!CeilDiv(capacity, CATL_RACK) * CATL_RACK
\* Mutated: the refill before the next event is not counted.
FlexPowerOfEvent(fx, peak, unit) == IF fx = None THEN 0 ELSE Curtailed(fx, peak, unit)
FlexPower(fx, peak, unit) ==
    IF fx = None THEN 0 ELSE Larger(Curtailed(fx, peak, unit), Recharge(fx, peak, unit))
CarryPower(ride, g, peak) == IF ride > 0 \/ g.path = "off_grid" THEN peak ELSE 0
ExportPower(g, capacity) ==
    IF g.export = "limited_export" /\ g.limit # None THEN g.limit
    ELSE IF g.export = "export" THEN BessDcPower(capacity) ELSE 0
BessPowerNeed(r, g, fx, peak, unit) ==
    Larger(CarryPower(r.ride, g, peak),
           Larger(FlexPower(fx, peak, unit), ExportPower(g, r.capacity)))
PcsCount(need) == Larger(1, Size!CeilDiv(need, PCS))

-----------------------------------------------------------------------------
(***************************************************************************)
(* SizingService.preview.                                                  *)
(***************************************************************************)
\* _sizing_request
SizingGrid(g) ==
    [path |-> g.path, region |-> g.region, service |-> g.service, flex |-> g.flex,
     export |-> g.export, limit |-> g.limit, islanding |-> g.islanding]

\* The obligation in force.
InForce(g) ==
    IF EffectiveService(g) # "flexible" THEN None
    ELSE IF g.flex # None THEN g.flex ELSE config.levels.standard

\* The standard preset becomes an obligation, with the limits of one.
PreviewVerdict(g) ==
    Then(CheckFlexPreset(g.flex),
         IF EffectiveService(g) = "flexible" /\ g.flex = None
         THEN Known("standard", config.levels, Rule(ObligationValid(config.levels.standard)))
         ELSE "ok")

\* compute_flags.  Mutated: it is limited export that is warned of.
UnverifiedExportLimited(g) == g.region = "ercot" /\ g.export = "limited_export"
UnverifiedExport(g) == g.region = "ercot" /\ g.export = "export"
Flags(r, g, peak) ==
    LET fx == InForce(g)
        reserve == Reserve(r.ride, peak)
        connected == g.path \notin {None, "off_grid"}
        flexible == EffectiveService(g) = "flexible"
        fires ==
          [transmission |-> LimitState(peak) = "over" /\ connected,
           near_limit |-> LimitState(peak) = "near",
           flex_shortfall |->
             flexible /\ Energy(r.capacity) < reserve + FlexEnergy(fx, peak),
           recharge_headroom |-> flexible,
           reserve_shortfall |-> r.ride > 0 /\ Energy(r.capacity) < reserve,
           power_shortfall |->
             /\ r.coupling # "ac_coupled"
             /\ BessDcPower(r.capacity) < BessPowerNeed(r, g, fx, peak, 0),
           export_review |-> g.export \notin {None, "non_export"},
           export_unverified |-> UnverifiedExport(g),
           non_export_unverified |-> g.export = "non_export" /\ connected,
           islanding_review |-> g.islanding,
           islanding_unverified |-> g.islanding]
    IN  {code \in DOMAIN fires : fires[code]}

SizingPreview(r, g) ==
    LET peak == GridPeak(SiteLoad(r), r.onsite)
        fx == InForce(g)
        reserve == Reserve(r.ride, peak)
    IN  [gridPeak |-> peak, reserve |-> reserve,
         bessMin |-> reserve + FlexEnergy(fx, peak),
         level |-> InterconnectionLevel(peak),
         path |-> Recommend(r.context, g.region, LimitState(peak)),
         recharge |-> IF fx = None THEN 0 ELSE Recharge(fx, peak, 0),
         capped |-> fx # None /\ Caps(fx, peak, reserve, r.capacity),
         capacity |-> r.capacity,
         flags |-> Flags(r, g, peak)]

-----------------------------------------------------------------------------
(***************************************************************************)
(* ModuleResolverService.resolve.                                          *)
(***************************************************************************)
PROFILE ==
    [k \in ({"commercial"} \X Couplings) \cup (Federal \X {"ac_coupled"}) |->
        IF k[1] = "commercial" THEN k ELSE <<"defense", "ac_coupled">>]

PcsOf(p) ==
    IF p.coupling # "dc_external_pcs" THEN 0
    ELSE PcsCount(BessPowerNeed(p, p.grid, p.grid.flex, GridPeak(SiteLoad(p), p.onsite), PCS))

Resolution(p) ==
    LET nodes == Size!NodeCount(p.gpus)
    IN  [profile |-> PROFILE[<<p.context, p.coupling>>],
         nodes |-> nodes, compute |-> Size!ComputeContainers(nodes),
         grids |-> Size!GridContainers(SiteLoad(p)), pcs |-> PcsOf(p),
         variant |-> p.variant, gpus |-> nodes * Size!GPUS_PER_NODE,
         capacity |-> p.capacity, onsite |-> p.onsite, ride |-> p.ride, grid |-> p.grid]

\* The level is the server's.  Mutated: one the client sent is kept.
StampedUnlessSent(p, level) ==
    IF p.grid.path = "off_grid" \/ p.grid.level # None THEN p
    ELSE [p EXCEPT !.grid.level = level]
Stamped(p, level) ==
    IF p.grid.path = "off_grid" THEN p ELSE [p EXCEPT !.grid.level = level]

\* dtm_sizing.sizing
DtmSizing(s) ==
    LET peak == GridPeak(SiteLoad(s), s.onsite)
        fx == s.grid.flex
        reserve == Reserve(s.ride, peak)
    IN  [load |-> SiteLoad(s), reserveFloor |-> reserve,
         readiness |-> reserve + FlexEnergy(fx, peak),
         recharge |-> IF fx = None THEN 0 ELSE Recharge(fx, peak, 0)]

-----------------------------------------------------------------------------
IntakeInit ==
    /\ payload \in Payloads
    /\ config = None /\ preview = None /\ job = None /\ sizing = None
    /\ answer = "starting"

\* GridRegionsLoader.load; a failure keeps the service down.
Start ==
    /\ answer = "starting"
    /\ \E file \in RegionFiles :
          /\ config' = file
          /\ answer' = IF file = None THEN "down" ELSE "ready"
    /\ UNCHANGED <<payload, preview, job, sizing>>

Serving == config # None /\ job = None

\* POST /edp-api/sizing/preview
AskPreview(g) ==
    /\ Serving
    /\ LET valid == /\ payload.gpus >= 1 /\ payload.capacity >= 0 /\ payload.ride >= 0
                    /\ OnsiteValid(payload.onsite) /\ ObligationValid(g.flex)
           verdict == IF valid THEN PreviewVerdict(g) ELSE "422"
       IN  /\ answer' = IF verdict = "ok" THEN "200" ELSE verdict
           /\ preview' = IF verdict = "ok" THEN SizingPreview(payload, g) ELSE preview
    /\ UNCHANGED <<config, payload, job, sizing>>

\* POST /edp-api/jobs, up to the resolution that create pins on the job.
CreateVerdict(p) ==
    IF ~PayloadValid(p) THEN "422"
    ELSE Then(ValidateAgainstRegions(p.grid),
         Then(PreviewVerdict(SizingGrid(p.grid)),
              Known(<<p.context, p.coupling>>, PROFILE, "ok")))
Create ==
    /\ Serving
    /\ LET verdict == CreateVerdict(payload)
           seen == SizingPreview(payload, SizingGrid(payload.grid))
           stamped == Stamped(payload, seen.level)
       IN  IF verdict = "ok"
           THEN /\ job' = [payload |-> stamped, preview |-> seen,
                           resolution |-> Resolution(stamped)]
                /\ answer' = "202"
           ELSE answer' = verdict /\ UNCHANGED job
    /\ UNCHANGED <<config, payload, preview, sizing>>

EmitSizing ==
    /\ job # None /\ sizing = None
    /\ sizing' = DtmSizing(job.resolution)
    /\ UNCHANGED <<config, payload, preview, answer, job>>

IntakeNext ==
    \/ Start
    \/ \E g \in Drafts \cup {SizingGrid(payload.grid)} : AskPreview(g)
    \/ Create
    \/ EmitSizing

IntakeSpec == IntakeInit /\ [][IntakeNext]_intakeVars

-----------------------------------------------------------------------------
(***************************************************************************)
(* Properties.                                                             *)
(***************************************************************************)
\* Every number of a preview, of a resolution and of the DTM is a size,
\* however large the generation on site (grid_peak_mw) and whatever the
\* fallback obligation, there is at least one of each container, and each
\* stage has what it needs.
IntakeTypeOK ==
    /\ payload \in ConfiguratorPayload /\ config \in RegionFiles \cup {None}
    /\ preview \in Previews \cup {None} /\ job \in JobRecords \cup {None}
    /\ sizing \in SizingBlocks \cup {None}
    /\ answer \in {"starting", "down", "ready", "200", "202", "422", "500"}
    /\ (config = None) = (answer \in {"starting", "down"})
    /\ (job # None) = (answer = "202")
    /\ sizing # None => job # None

\* A regions file with every region and level.
Whole == DOMAIN config.regions = Regions /\ Levels \subseteq DOMAIN config.levels

\* With a whole regions file no request ends in a server error: whatever
\* passes the validators is in the profile table (PROFILE against
\* federal_excludes_dc_coupling, the look-ups of region_validation).
WholeFileServes == answer = "500" => ~Whole

\* grid_regions_loader.py: "raise on the first failure so drift surfaces at
\* app startup rather than at request time".
DriftSurfacesAtStartup == answer # "500"

\* The DTM reserves, keeps ready and recharges what the preview stored with
\* the job said: the preview reads the target and a fallback obligation, the
\* DTM the servers bought and the order's own (dtm_sizing.py, "both match
\* what the operator already saw in preview").
DtmMatchesPreview ==
    sizing # None =>
        /\ sizing.reserveFloor = job.preview.reserve
        /\ sizing.readiness = job.preview.bessMin
        /\ sizing.recharge = job.preview.recharge

\* No export enters unexamined: it is in ERCOT, at a settlement point and
\* under a program of the region, and within its cap unless the preview
\* kept with the job says that it was not verified (V4a, V4b, V6, SP and
\* compute_flags, each of which sees a part).
ExportCheckedOrFlagged ==
    job # None /\ job.payload.grid.export # "non_export" =>
        LET g == job.payload.grid  ercot == config.regions.ercot IN
        /\ g.region = "ercot" /\ g.program \in ercot.programs /\ g.point \in ercot.points
        /\ \/ g.limit # None /\ (ercot.cap # None => g.limit <= ercot.cap)
           \/ "export_unverified" \in job.preview.flags

\* The level of a job is the server's, whatever the client sent: none off
\* grid, and transmission exactly when the customer is told that someone
\* will engage (JobsService.create, rule IL, and compute_flags).
LevelIsTheServers ==
    job # None =>
        LET g == job.payload.grid IN
        /\ (g.level = None) = (g.path = "off_grid")
        /\ (g.level = "transmission") = ("transmission" \in job.preview.flags)
        /\ job.resolution.grid.level = g.level

\* The limit is read in three places, and a site at the limit falls on one
\* side of it in all (interconnection_level, limit_state, recommend).
OneReadingOfTheLimit ==
    preview # None =>
        /\ preview.path = "flexible" => preview.level = "distribution"
        /\ preview.path = None => preview.level = "transmission"
        /\ "near_limit" \in preview.flags => preview.level = "distribution"
        /\ "transmission" \in preview.flags => preview.level = "transmission"

\* bess_min_mwh is the least capacity at which neither shortfall is flagged,
\* and the GPUs are capped in an event exactly when the flexible one is
\* (bess_min_mwh, flex_preview and compute_flags, which compare three ways).
MinimumClearsShortfalls ==
    preview # None =>
        /\ (Energy(preview.capacity) >= preview.bessMin)
              = (preview.flags \cap {"flex_shortfall", "reserve_shortfall"} = {})
        /\ preview.capped = ("flex_shortfall" \in preview.flags)

\* A battery on external PCS, not flagged as short, can do each job the order
\* gives it, through its racks and through the PCS that are bought: carry
\* the site, ride a curtailment, refill before the next, export; the PCS to
\* within the half watt that their count rounds away.
BatteryDoesItsJobs ==
    job # None /\ job.payload.coupling = "dc_external_pcs"
               /\ "power_shortfall" \notin job.preview.flags =>
        LET p == job.payload
            fx == p.grid.flex
            peak == job.preview.gridPeak
            racks == BessDcPower(p.capacity)
            Does(power, unit) ==
                /\ p.ride > 0 \/ p.grid.path = "off_grid" => peak <= power
                /\ fx # None => /\ Curtailed(fx, peak, unit) <= power
                                /\ Recharge(fx, peak, unit) <= power
                /\ p.grid.limit # None => p.grid.limit <= power
                /\ p.grid.export = "export" => racks <= power
        IN  Does(job.resolution.pcs * PCS, PCS) /\ Does(racks, 0)
=============================================================================
