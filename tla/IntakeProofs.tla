---------------------------- MODULE IntakeProofs ----------------------------
(***************************************************************************)
(* Theorems about Intake, for orders of any size, any thresholds and any   *)
(* presets.  The argument is one inductive invariant: a job is what the    *)
(* rules let through, with the preview and the resolution of its own       *)
(* payload, and a preview shown is of a draft that passed (IntakeInv).     *)
(* What the properties say then follows from the rules alone.              *)
(***************************************************************************)
EXTENDS Intake, TLAPS

USE IntakeAssumption, IntakeNone
USE DEF Size!GPUS_PER_NODE, Size!NODES_PER_COMPUTE_CONTAINER, Size!GpuVariants

Drafted == Drafts \cup {SizingGrid(payload.grid)}

ASchemaRequest ==
    payload.capacity >= 0 /\ payload.ride >= 0 /\ payload.gpus >= 1 /\ OnsiteValid(payload.onsite)

\* The preview shown last was of a draft that passed.
ShownInv ==
    preview # None =>
        /\ ASchemaRequest
        /\ \E g \in Drafted : /\ ObligationValid(g.flex) /\ PreviewVerdict(g) = "ok"
                             /\ preview = SizingPreview(payload, g)

\* A job is of a payload that passed.
JobInv ==
    job # None =>
        /\ CreateVerdict(payload) = "ok"
        /\ LET seen == SizingPreview(payload, SizingGrid(payload.grid))
               stamped == Stamped(payload, seen.level)
           IN  job = [payload |-> stamped, preview |-> seen, resolution |-> Resolution(stamped)]

IntakeInv ==
    /\ payload \in Payloads /\ config \in RegionFiles \cup {None}
    /\ config = None => preview = None /\ job = None
    /\ (config = None) = (answer \in {"starting", "down"})
    /\ ShownInv /\ JobInv
    /\ sizing # None => job # None /\ sizing = DtmSizing(job.resolution)

\* What is read from the regions file is as long as the file is.
LEMMA SameFile ==
  ASSUME NEW r, NEW g, config' = config
  PROVE  /\ SizingPreview(r, g)' = SizingPreview(r, g)
         /\ PreviewVerdict(g)' = PreviewVerdict(g)
         /\ CreateVerdict(r)' = CreateVerdict(r)
<1>1. PreviewVerdict(g)' = PreviewVerdict(g)
  BY DEF PreviewVerdict, CheckFlexPreset, Known
<1>2. SizingPreview(r, g)' = SizingPreview(r, g)
  BY DEF SizingPreview, InForce, Flags, InterconnectionLevel, LimitState
<1>3. CreateVerdict(r)' = CreateVerdict(r)
  BY DEF CreateVerdict, ValidateAgainstRegions, CheckMarketProgram, CheckExportLimit,
         CheckSettlementPoint, CheckFlexPreset, PreviewVerdict, Known
<1> QED
  BY <1>1, <1>2, <1>3

LEMMA ShownStays ==
  ASSUME ShownInv, UNCHANGED <<config, payload, preview>>
  PROVE  ShownInv'
<1> SUFFICES ASSUME preview # None
             PROVE  /\ ASchemaRequest
                    /\ \E g \in Drafted :
                          /\ ObligationValid(g.flex) /\ PreviewVerdict(g)' = "ok"
                          /\ preview = SizingPreview(payload, g)'
  BY DEF ShownInv, ASchemaRequest, Drafted
<1>1. PICK g \in Drafted : /\ ObligationValid(g.flex) /\ PreviewVerdict(g) = "ok"
                          /\ preview = SizingPreview(payload, g)
  BY DEF ShownInv
<1>2. PreviewVerdict(g)' = "ok" /\ preview = SizingPreview(payload, g)'
  BY <1>1, SameFile
<1> QED
  BY <1>1, <1>2 DEF ShownInv

LEMMA JobStays ==
  ASSUME JobInv, UNCHANGED <<config, payload, job>>
  PROVE  JobInv'
<1> DEFINE seen == SizingPreview(payload, SizingGrid(payload.grid))
<1>1. seen' = seen /\ CreateVerdict(payload)' = CreateVerdict(payload)
  BY SameFile
<1> QED
  BY <1>1 DEF JobInv

LEMMA Verdicts ==
  ASSUME NEW g, NEW p
  PROVE  /\ PreviewVerdict(g) \in {"ok", "422", "500"}
         /\ CreateVerdict(p) \in {"ok", "422", "500"}
<1>1. \A fx : CheckFlexPreset(fx) \in {"ok", "422", "500"}
  BY DEF CheckFlexPreset, Known, Rule
<1>2. \A h : PreviewVerdict(h) \in {"ok", "422", "500"}
  BY <1>1 DEF PreviewVerdict, Then, Known, Rule
<1>3. \A h : ValidateAgainstRegions(h) \in {"ok", "422", "500"}
  BY <1>1 DEF ValidateAgainstRegions, CheckMarketProgram, CheckExportLimit,
              CheckSettlementPoint, Then, Known, Rule
<1> QED
  BY <1>2, <1>3 DEF CreateVerdict, Then, Known

LEMMA Stays ==
  ASSUME IntakeInv, [IntakeNext]_intakeVars
  PROVE  IntakeInv'
<1> USE DEF IntakeInv
<1>1. CASE Start
  <2>1. config = None /\ preview = None /\ job = None /\ sizing = None
    BY <1>1 DEF Start
  <2> QED
    BY <1>1, <2>1 DEF Start, ShownInv, JobInv
<1>2. ASSUME NEW g \in Drafted, AskPreview(g)
      PROVE  IntakeInv'
  <2>1. config # None /\ job = None /\ UNCHANGED <<config, payload, job, sizing>>
    BY <1>2 DEF AskPreview, Serving
  <2>2. answer' \in {"200", "422", "500"}
    BY <1>2, Verdicts DEF AskPreview
  <2>3. CASE preview' = preview
    BY <2>1, <2>2, <2>3, ShownStays, JobStays
  <2>4. CASE preview' # preview
    <3>1. /\ ASchemaRequest /\ ObligationValid(g.flex) /\ PreviewVerdict(g) = "ok"
          /\ preview' = SizingPreview(payload, g)
      BY <1>2, <2>4 DEF AskPreview, ASchemaRequest
    <3>2. PreviewVerdict(g)' = "ok" /\ preview' = SizingPreview(payload, g)'
      BY <2>1, <3>1, SameFile
    <3>3. ASchemaRequest' /\ Drafted' = Drafted
      BY <2>1, <3>1 DEF ASchemaRequest, Drafted
    <3>4. ShownInv'
      BY <3>1, <3>2, <3>3 DEF ShownInv
    <3> QED
      BY <2>1, <2>2, <3>4, JobStays
  <2> QED
    BY <2>3, <2>4
<1>3. CASE Create
  <2>1. config # None /\ job = None /\ UNCHANGED <<config, payload, preview, sizing>>
    BY <1>3 DEF Create, Serving
  <2>2. answer' \in {"202", "422", "500"} /\ sizing' = None
    BY <1>3, <2>1, Verdicts DEF Create
  <2> DEFINE seen == SizingPreview(payload, SizingGrid(payload.grid))
             stamped == Stamped(payload, seen.level)
  <2>3. seen' = seen /\ CreateVerdict(payload)' = CreateVerdict(payload)
    BY <2>1, SameFile
  <2>4. job' # None => /\ CreateVerdict(payload) = "ok"
                       /\ job' = [payload |-> stamped, preview |-> seen,
                                  resolution |-> Resolution(stamped)]
    BY <1>3, <2>1 DEF Create
  <2>5. JobInv'
    BY <2>1, <2>3, <2>4 DEF JobInv
  <2> QED
    BY <2>1, <2>2, <2>5, ShownStays
<1>4. CASE EmitSizing
  <2>1. job # None /\ UNCHANGED <<config, payload, preview, answer, job>>
          /\ sizing' = DtmSizing(job.resolution)
    BY <1>4 DEF EmitSizing
  <2> QED
    BY <2>1, ShownStays, JobStays
<1>5. CASE UNCHANGED intakeVars
  BY <1>5, ShownStays, JobStays DEF intakeVars
<1> QED
  BY <1>1, <1>2, <1>3, <1>4, <1>5 DEF IntakeNext, Drafted

THEOREM Invariance == IntakeSpec => []IntakeInv
<1>1. IntakeInit => IntakeInv
  BY DEF IntakeInit, IntakeInv, ShownInv, JobInv
<1> QED
  BY <1>1, Stays, PTL DEF IntakeSpec

-----------------------------------------------------------------------------
(***************************************************************************)
(* The numbers of the sizing.                                              *)
(***************************************************************************)
LEMMA CeilDivNat ==
  ASSUME NEW a \in Nat, NEW b \in Nat \ {0}
  PROVE  Size!CeilDiv(a, b) \in Nat /\ a <= Size!CeilDiv(a, b) * b
BY DEF Size!CeilDiv

\* Servers are sold whole: those of the target are those of the GPUs bought.
LEMMA ServersBought ==
  ASSUME NEW gpus \in Int
  PROVE  Size!NodeCount(Size!NodeCount(gpus) * 8) = Size!NodeCount(gpus)
BY DEF Size!NodeCount, Size!CeilDiv

LEMMA LoadIsNat ==
  ASSUME NEW r, r.gpus \in Nat, r.gpus >= 1, r.variant \in Size!GpuVariants
  PROVE  SiteLoad(r) \in Nat
<1> DEFINE nodes == Size!NodeCount(r.gpus)
           compute == Size!ComputeContainers(nodes)
<1>1. nodes \in Nat
  BY DEF Size!NodeCount, Size!CeilDiv
<1>2. compute \in Nat
  BY <1>1 DEF Size!ComputeContainers, Size!CeilDiv
<1> HIDE DEF nodes, compute
<1>3. /\ nodes * 1050 + compute * 1250 \in Nat
      /\ nodes * 794 + compute * 1302 \in Nat
  BY <1>1, <1>2
<1>4. Size!SitePeak(r.variant, nodes) \in Nat
  BY <1>3 DEF Size!SitePeak, Size!Overhead, Size!NodePower, Size!ContainerPower,
              Size!DryCoolerFan, compute
<1> QED
  BY <1>4 DEF SiteLoad, nodes

LEMMA PeakIsNat ==
  ASSUME NEW r, r.gpus \in Nat, r.gpus >= 1, r.variant \in Size!GpuVariants,
         OnsiteValid(r.onsite), r.onsite.capacity \in Int \cup {None},
         r.onsite.type \in {"none", "solar", "nuclear"}
  PROVE  GridPeak(SiteLoad(r), r.onsite) \in Nat
<1>1. SiteLoad(r) \in Nat
  BY LoadIsNat
<1>2. FirmOnsite(r.onsite) \in Int
  BY DEF OnsiteValid, FirmOnsite
<1> QED
  BY <1>1, <1>2 DEF GridPeak, AtLeastZero

\* Products of natural numbers, and when they are positive.
LEMMA Product ==
  ASSUME NEW a \in Nat, NEW b \in Nat
  PROVE  a * b \in Nat /\ (a > 0 /\ b > 0 => a * b > 0)
OBVIOUS

LEMMA EnergyIsNat ==
  ASSUME NEW fx \in FlexObligation \cup {None}, NEW peak \in Nat, ObligationValid(fx)
  PROVE  /\ FlexEnergy(fx, peak) \in Nat
         /\ peak = 0 \/ fx = None => FlexEnergy(fx, peak) = 0
         /\ peak > 0 /\ fx # None => FlexEnergy(fx, peak) > 0
<1>1. CASE fx = None
  BY <1>1 DEF FlexEnergy
<1>2. CASE fx # None
  <2>1. fx.depth \in Nat /\ fx.duration \in Nat /\ fx.depth > 0 /\ fx.duration > 0
    BY <1>2 DEF ObligationValid, FlexObligation
  <2>2. fx.depth * peak \in Nat /\ (peak > 0 => fx.depth * peak > 0)
    BY <2>1, Product
  <2>3. /\ fx.depth * peak * fx.duration \in Nat
        /\ fx.depth * peak > 0 => fx.depth * peak * fx.duration > 0
    BY <2>1, <2>2, Product
  <2>4. peak = 0 => fx.depth * peak * fx.duration = 0
    BY <2>1
  <2> QED
    BY <1>2, <2>2, <2>3, <2>4 DEF FlexEnergy
<1> QED
  BY <1>1, <1>2

LEMMA ReserveIsNat ==
  ASSUME NEW ride \in Nat, NEW peak \in Nat
  PROVE  /\ Reserve(ride, peak) \in Nat
         /\ ride = 0 \/ peak = 0 => Reserve(ride, peak) = 0
<1>1. 100 * ride \in Nat
  OBVIOUS
<1> QED
  BY <1>1, Product DEF Reserve

\* What an accepted payload satisfies.
LEMMA Accepted ==
  ASSUME IntakeInv, job # None
  PROVE  /\ payload \in ConfiguratorPayload /\ PayloadValid(payload)
         /\ ValidateAgainstRegions(payload.grid) = "ok"
         /\ GridRegionsConfig(config) /\ config # None
         /\ payload.grid \in Grid
         /\ GridPeak(SiteLoad(payload), payload.onsite) \in Nat
<1>1. CreateVerdict(payload) = "ok" /\ payload \in ConfiguratorPayload /\ config # None
  BY DEF IntakeInv, JobInv
<1>2. PayloadValid(payload) /\ ValidateAgainstRegions(payload.grid) = "ok"
  BY <1>1 DEF CreateVerdict, Then
<1>3. GridRegionsConfig(config)
  BY <1>1 DEF IntakeInv
<1>4. GridPeak(SiteLoad(payload), payload.onsite) \in Nat
  BY <1>1, <1>2, PeakIsNat DEF ConfiguratorPayload, PayloadValid
<1> QED
  BY <1>1, <1>2, <1>3, <1>4 DEF ConfiguratorPayload

\* The obligation of an order is the one in force: the fallback is for
\* previews only.
LEMMA OwnObligation ==
  ASSUME NEW g \in Grid, GridValid(g)
  PROVE  InForce(SizingGrid(g)) = g.flex
<1>1. EffectiveService(SizingGrid(g)) = IF g.service # None THEN g.service
           ELSE IF g.path = "flexible" THEN "flexible" ELSE None
  BY DEF EffectiveService, SizingGrid
<1>2. SizingGrid(g).flex = g.flex
  BY DEF SizingGrid
<1>3. g.path \in GridPaths /\ None # "flexible"
  BY DEF Grid, GridPaths, Services
<1>4. CASE g.path = "off_grid"
  BY <1>1, <1>2, <1>3, <1>4 DEF GridValid, OffGrid, InForce
<1>5. CASE g.path \in {"firm", "flexible"}
  BY <1>1, <1>2, <1>3, <1>5 DEF GridValid, PathShape, InForce
<1>6. CASE g.path = "grid_revenue"
  BY <1>1, <1>2, <1>3, <1>6 DEF GridValid, RevenueShape, InForce
<1> QED
  BY <1>3, <1>4, <1>5, <1>6 DEF GridPaths

-----------------------------------------------------------------------------
\* The DTM carries what the customer was shown, for every order accepted.
THEOREM DtmIsThePreview == IntakeSpec => []DtmMatchesPreview
<1>1. ASSUME IntakeInv, sizing # None
      PROVE  /\ sizing.reserveFloor = job.preview.reserve
             /\ sizing.readiness = job.preview.bessMin
             /\ sizing.recharge = job.preview.recharge
  <2> DEFINE seen == SizingPreview(payload, SizingGrid(payload.grid))
             stamped == Stamped(payload, seen.level)
             s == Resolution(stamped)
             peak == GridPeak(SiteLoad(payload), payload.onsite)
  <2>1. job # None /\ sizing = DtmSizing(job.resolution)
    BY <1>1 DEF IntakeInv
  <2>2. job.preview = seen /\ job.resolution = s
    BY <1>1, <2>1 DEF IntakeInv, JobInv
  <2>3. payload \in ConfiguratorPayload /\ GridValid(payload.grid) /\ payload.grid \in Grid
    BY <1>1, <2>1, Accepted DEF PayloadValid
  <2>4. /\ stamped.gpus = payload.gpus /\ stamped.variant = payload.variant
        /\ stamped.onsite = payload.onsite /\ stamped.ride = payload.ride
        /\ stamped.grid.flex = payload.grid.flex
    BY <2>3 DEF Stamped, ConfiguratorPayload, Grid
  <2>5. /\ s.variant = payload.variant /\ s.onsite = payload.onsite
        /\ s.ride = payload.ride /\ s.grid.flex = payload.grid.flex
        /\ s.gpus = Size!NodeCount(payload.gpus) * 8
    BY <2>4 DEF Resolution
  <2> HIDE DEF s, stamped
  <2>6. SiteLoad(s) = SiteLoad(payload)
    <3>1. payload.gpus \in Int
      BY <2>3 DEF ConfiguratorPayload
    <3> QED
      BY <2>5, <3>1, ServersBought DEF SiteLoad
  <2>7. InForce(SizingGrid(payload.grid)) = payload.grid.flex
    BY <2>3, OwnObligation
  <2>8. /\ seen.reserve = Reserve(payload.ride, peak)
        /\ seen.bessMin = Reserve(payload.ride, peak) + FlexEnergy(payload.grid.flex, peak)
        /\ seen.recharge = IF payload.grid.flex = None THEN 0
                           ELSE Recharge(payload.grid.flex, peak, 0)
    BY <2>7 DEF SizingPreview
  <2> HIDE DEF seen
  <2> QED
    BY <2>1, <2>2, <2>5, <2>6, <2>8 DEF DtmSizing
<1> QED
  BY <1>1, Invariance, PTL DEF DtmMatchesPreview

\* Three rows of the table of flags.
LEMMA Rows ==
  ASSUME NEW r, NEW g, NEW peak
  PROVE  /\ "transmission" \in Flags(r, g, peak) <=>
              LimitState(peak) = "over" /\ g.path \notin {None, "off_grid"}
         /\ "flex_shortfall" \in Flags(r, g, peak) <=>
              /\ EffectiveService(g) = "flexible"
              /\ Energy(r.capacity) < Reserve(r.ride, peak) + FlexEnergy(InForce(g), peak)
         /\ "reserve_shortfall" \in Flags(r, g, peak) <=>
              r.ride > 0 /\ Energy(r.capacity) < Reserve(r.ride, peak)
BY DEF Flags

\* The level pinned on a job is the server's and matches what the customer
\* is told.
THEOREM LevelIsOurs == IntakeSpec => []LevelIsTheServers
<1>1. ASSUME IntakeInv, job # None
      PROVE  LET g == job.payload.grid IN
             /\ (g.level = None) = (g.path = "off_grid")
             /\ (g.level = "transmission") = ("transmission" \in job.preview.flags)
             /\ job.resolution.grid.level = g.level
  <2> DEFINE seen == SizingPreview(payload, SizingGrid(payload.grid))
             stamped == Stamped(payload, seen.level)
             peak == GridPeak(SiteLoad(payload), payload.onsite)
             path == payload.grid.path
  <2>1. /\ job.preview = seen /\ job.payload = stamped
        /\ job.resolution = Resolution(stamped)
    BY <1>1 DEF IntakeInv, JobInv
  <2>2. /\ payload \in ConfiguratorPayload /\ GridValid(payload.grid) /\ payload.grid \in Grid
        /\ peak \in Nat /\ config.limit \in Int
    BY <1>1, Accepted DEF PayloadValid, GridRegionsConfig
  <2>3. seen.level = InterconnectionLevel(peak)
    BY DEF SizingPreview
  <2>4. ("transmission" \in seen.flags) =
           (LimitState(peak) = "over" /\ path \notin {None, "off_grid"})
    <3>1. seen.flags = Flags(payload, SizingGrid(payload.grid), peak)
      BY DEF SizingPreview
    <3>2. SizingGrid(payload.grid).path = path
      BY DEF SizingGrid
    <3> QED
      BY <3>1, <3>2, Rows
  <2>5. path # None
    BY <2>2 DEF Grid
  <2>6. (LimitState(peak) = "over") = (InterconnectionLevel(peak) = "transmission")
    BY <2>2 DEF LimitState, InterconnectionLevel
  <2>7. seen.level \in Interconnections
    BY <2>3 DEF InterconnectionLevel, Interconnections
  <2>8. CASE path = "off_grid"
    <3>1. payload.grid.level = None
      BY <2>2, <2>8 DEF GridValid, OffGrid
    <3> QED
      BY <2>1, <2>4, <2>8, <3>1 DEF Stamped, Resolution, Interconnections
  <2>9. CASE path # "off_grid"
    <3>1. stamped.grid.level = seen.level /\ stamped.grid.path = path
      BY <2>2, <2>9 DEF Stamped, ConfiguratorPayload, Grid
    <3> QED
      BY <2>1, <2>3, <2>4, <2>5, <2>6, <2>7, <2>9, <3>1 DEF Resolution
  <2> QED
    BY <2>8, <2>9
<1> QED
  BY <1>1, Invariance, PTL DEF LevelIsTheServers

\* What a preview shown is computed from.
LEMMA Shown ==
  ASSUME IntakeInv, preview # None
  PROVE  \E g \in SizingGridInput :
            /\ preview = SizingPreview(payload, g)
            /\ ObligationValid(g.flex) /\ ObligationValid(InForce(g))
            /\ InForce(g) \in FlexObligation \cup {None}
            /\ (InForce(g) # None) = (EffectiveService(g) = "flexible")
            /\ payload \in ConfiguratorPayload /\ payload.capacity >= 0 /\ payload.ride >= 0
            /\ GridPeak(SiteLoad(payload), payload.onsite) \in Nat
            /\ config.limit \in Int
<1>1. PICK g \in Drafted : /\ ObligationValid(g.flex) /\ PreviewVerdict(g) = "ok"
                          /\ preview = SizingPreview(payload, g)
  BY DEF IntakeInv, ShownInv
<1>2. /\ payload \in ConfiguratorPayload /\ ASchemaRequest
      /\ GridRegionsConfig(config)
  BY DEF IntakeInv, ShownInv
<1>3. g \in SizingGridInput
  BY <1>2 DEF Drafted, SizingGrid, SizingGridInput, ConfiguratorPayload, Grid
<1>4. GridPeak(SiteLoad(payload), payload.onsite) \in Nat
  BY <1>2, PeakIsNat DEF ConfiguratorPayload, ASchemaRequest
<1>5. /\ ObligationValid(InForce(g)) /\ InForce(g) \in FlexObligation \cup {None}
      /\ (InForce(g) # None) = (EffectiveService(g) = "flexible")
  <2>1. CASE EffectiveService(g) # "flexible"
    BY <2>1 DEF InForce, ObligationValid
  <2>2. CASE EffectiveService(g) = "flexible" /\ g.flex # None
    BY <1>1, <1>3, <2>2 DEF InForce, SizingGridInput
  <2>3. CASE EffectiveService(g) = "flexible" /\ g.flex = None
    <3>1. "standard" \in DOMAIN config.levels /\ ObligationValid(config.levels.standard)
      BY <1>1, <2>3 DEF PreviewVerdict, CheckFlexPreset, Then, Known, Rule
    <3>2. config.levels["standard"] \in FlexObligation
      BY <1>2, <3>1 DEF GridRegionsConfig
    <3> QED
      BY <2>3, <3>1, <3>2 DEF InForce
  <2> QED
    BY <2>1, <2>2, <2>3
<1> QED
  BY <1>1, <1>2, <1>3, <1>4, <1>5 DEF ASchemaRequest, GridRegionsConfig

\* A site at the limit is on one side of it wherever the limit is read.
THEOREM LimitReadOnce == IntakeSpec => []OneReadingOfTheLimit
<1>1. ASSUME IntakeInv, preview # None
      PROVE  /\ preview.path = "flexible" => preview.level = "distribution"
             /\ preview.path = None => preview.level = "transmission"
             /\ "near_limit" \in preview.flags => preview.level = "distribution"
             /\ "transmission" \in preview.flags => preview.level = "transmission"
  <2> DEFINE peak == GridPeak(SiteLoad(payload), payload.onsite)
  <2>1. PICK g \in SizingGridInput :
           preview = SizingPreview(payload, g) /\ peak \in Nat /\ config.limit \in Int
    BY <1>1, Shown
  <2>2. /\ preview.level = InterconnectionLevel(peak)
        /\ preview.path = Recommend(payload.context, g.region, LimitState(peak))
        /\ preview.flags = Flags(payload, g, peak)
    BY <2>1 DEF SizingPreview
  <2>3. /\ "near_limit" \in preview.flags => LimitState(peak) = "near"
        /\ "transmission" \in preview.flags => LimitState(peak) = "over"
    BY <2>2 DEF Flags
  <2>4. None \notin {"off_grid", "flexible"}
    BY DEF GridPaths
  <2> QED
    BY <2>1, <2>2, <2>3, <2>4 DEF LimitState, InterconnectionLevel, Recommend
<1> QED
  BY <1>1, Invariance, PTL DEF OneReadingOfTheLimit

\* The minimum capacity is where the shortfalls end, and where the cap does.
THEOREM MinimumIsEnough == IntakeSpec => []MinimumClearsShortfalls
<1>1. ASSUME IntakeInv, preview # None
      PROVE  /\ (Energy(preview.capacity) >= preview.bessMin)
                    = (preview.flags \cap {"flex_shortfall", "reserve_shortfall"} = {})
             /\ preview.capped = ("flex_shortfall" \in preview.flags)
  <2> DEFINE peak == GridPeak(SiteLoad(payload), payload.onsite)
             Reads(g) == /\ preview = SizingPreview(payload, g)
                         /\ ObligationValid(InForce(g))
                         /\ InForce(g) \in FlexObligation \cup {None}
                         /\ (InForce(g) # None) = (EffectiveService(g) = "flexible")
                         /\ payload.capacity \in Nat /\ payload.ride \in Nat /\ peak \in Nat
  <2>1. PICK g \in SizingGridInput : Reads(g)
    <3>1. payload \in ConfiguratorPayload /\ payload.capacity >= 0 /\ payload.ride >= 0
      BY <1>1, Shown
    <3>2. payload.capacity \in Nat /\ payload.ride \in Nat
      BY <3>1 DEF ConfiguratorPayload
    <3> QED
      BY <1>1, <3>2, Shown
  <2> DEFINE fx == InForce(g)
             reserve == Reserve(payload.ride, peak)
             flex == FlexEnergy(fx, peak)
             held == Energy(payload.capacity)
  <2>2. /\ reserve \in Nat /\ (payload.ride = 0 \/ peak = 0 => reserve = 0)
        /\ flex \in Nat /\ (peak = 0 \/ fx = None => flex = 0)
        /\ peak > 0 /\ fx # None => flex > 0
    BY <2>1, ReserveIsNat, EnergyIsNat
  <2>3. held \in Nat
    BY <2>1 DEF Energy
  <2>4. /\ preview.capacity = payload.capacity
        /\ preview.bessMin = reserve + flex
        /\ preview.capped = (fx # None /\ AtLeastZero(held - reserve) < flex)
        /\ preview.flags = Flags(payload, g, peak)
    BY <2>1 DEF SizingPreview, Caps
  <2>5. /\ ("flex_shortfall" \in preview.flags) = (fx # None /\ held < reserve + flex)
        /\ ("reserve_shortfall" \in preview.flags) = (payload.ride > 0 /\ held < reserve)
    BY <2>1, <2>4, Rows
  <2> HIDE DEF fx, reserve, flex, held, peak
  <2>6. AtLeastZero(held - reserve) = IF held < reserve THEN 0 ELSE held - reserve
    BY <2>2, <2>3 DEF AtLeastZero
  <2>7. peak = 0 \/ peak > 0
    BY <2>1
  <2>8. (fx # None /\ AtLeastZero(held - reserve) < flex) = (fx # None /\ held < reserve + flex)
    BY <2>2, <2>3, <2>6, <2>7
  <2>9. (held >= reserve + flex) = (/\ ~(fx # None /\ held < reserve + flex)
                                   /\ ~(payload.ride > 0 /\ held < reserve))
    BY <2>1, <2>2, <2>3
  <2>10. (preview.flags \cap {"flex_shortfall", "reserve_shortfall"} = {})
            = ("flex_shortfall" \notin preview.flags /\ "reserve_shortfall" \notin preview.flags)
    OBVIOUS
  <2>11. Energy(preview.capacity) = held
    BY <2>4 DEF held
  <2> QED
    BY <2>4, <2>5, <2>8, <2>9, <2>10, <2>11
<1> QED
  BY <1>1, Invariance, PTL DEF MinimumClearsShortfalls

\* Whatever passes the rules is in the tables: with a whole file, no server
\* error.
THEOREM NoServerError == IntakeSpec => []WholeFileServes
<1> DEFINE Inv == IntakeInv /\ WholeFileServes
<1>1. IntakeInit => WholeFileServes
  BY DEF IntakeInit, WholeFileServes
<1>2. ASSUME Inv, [IntakeNext]_intakeVars
      PROVE  WholeFileServes'
  <2>1. CASE UNCHANGED <<config, answer>>
    BY <1>2, <2>1 DEF WholeFileServes, Whole
  <2>2. CASE Start
    BY <2>2 DEF Start, WholeFileServes
  <2>3. ASSUME NEW g \in Drafted, AskPreview(g), Whole
        PROVE  answer' # "500"
    <3>1. g \in SizingGridInput
      BY <1>2 DEF Drafted, SizingGrid, SizingGridInput, ConfiguratorPayload, Grid, IntakeInv
    <3>2. PreviewVerdict(g) # "500"
      BY <2>3, <3>1 DEF PreviewVerdict, CheckFlexPreset, Then, Known, Rule, Whole, Levels,
         SizingGridInput, FlexObligation
    <3> QED
      BY <2>3, <3>2 DEF AskPreview
  <2>4. ASSUME Create, Whole
        PROVE  answer' # "500"
    <3> DEFINE g == payload.grid
    <3>1. payload \in ConfiguratorPayload /\ g \in Grid
      BY <1>2 DEF IntakeInv, ConfiguratorPayload
    <3>2. ASSUME PayloadValid(payload)
          PROVE  ValidateAgainstRegions(g) # "500"
      <4>1. g.path # "off_grid" => g.region \in Regions
        BY <3>1, <3>2 DEF PayloadValid, GridValid, Grid
      <4>2. CheckMarketProgram(g) # "500"
        BY <2>4, <4>1 DEF CheckMarketProgram, Known, Rule, Whole
      <4>3. CheckExportLimit(g) # "500" /\ CheckSettlementPoint(g) # "500"
        BY <2>4 DEF CheckExportLimit, CheckSettlementPoint, Known, Rule, Whole, Regions
      <4>4. CheckFlexPreset(g.flex) # "500"
        BY <2>4, <3>1 DEF CheckFlexPreset, Known, Rule, Whole, Grid, FlexObligation, Levels
      <4> QED
        BY <4>2, <4>3, <4>4 DEF ValidateAgainstRegions, Then
    <3>3. PreviewVerdict(SizingGrid(g)) # "500"
      <4>1. SizingGrid(g) \in SizingGridInput
        BY <3>1 DEF SizingGrid, SizingGridInput, Grid
      <4> QED
        BY <2>4, <4>1 DEF PreviewVerdict, CheckFlexPreset, Then, Known, Rule, Whole, Levels,
           SizingGridInput, FlexObligation
    <3>4. ASSUME PayloadValid(payload)
          PROVE  <<payload.context, payload.coupling>> \in DOMAIN PROFILE
      <4>1. payload.context \in Contexts /\ payload.coupling \in Couplings
        BY <3>1 DEF ConfiguratorPayload
      <4>2. payload.context \in Federal => payload.coupling = "ac_coupled"
        BY <3>4 DEF PayloadValid, Procurable
      <4>3. payload.context = "commercial" \/ payload.context \in Federal
        BY <4>1 DEF Contexts, Federal
      <4> QED
        BY <4>1, <4>2, <4>3 DEF PROFILE
    <3>5. CreateVerdict(payload) # "500"
      BY <3>2, <3>3, <3>4 DEF CreateVerdict, Then, Known
    <3> QED
      BY <2>4, <3>5 DEF Create
  <2>5. ASSUME Create \/ \E g \in Drafted : AskPreview(g)
        PROVE  Whole' = Whole
    BY <2>5 DEF AskPreview, Create, Whole
  <2> QED
    BY <1>2, <2>1, <2>2, <2>3, <2>4, <2>5
       DEF IntakeNext, Drafted, WholeFileServes, EmitSizing, intakeVars
<1>3. Inv /\ [IntakeNext]_intakeVars => Inv'
  BY <1>2, Stays
<1>4. IntakeInit => IntakeInv
  BY DEF IntakeInit, IntakeInv, ShownInv, JobInv
<1> QED
  BY <1>1, <1>3, <1>4, PTL DEF IntakeSpec

\* Every export of an accepted order was checked by some rule or is flagged.
THEOREM ExportsAreExamined == IntakeSpec => []ExportCheckedOrFlagged
<1>1. ASSUME IntakeInv, job # None, job.payload.grid.export # "non_export"
      PROVE  LET g == job.payload.grid  ercot == config.regions.ercot IN
             /\ g.region = "ercot" /\ g.program \in ercot.programs /\ g.point \in ercot.points
             /\ \/ g.limit # None /\ (ercot.cap # None => g.limit <= ercot.cap)
                \/ "export_unverified" \in job.preview.flags
  <2> DEFINE seen == SizingPreview(payload, SizingGrid(payload.grid))
             peak == GridPeak(SiteLoad(payload), payload.onsite)
             g == payload.grid
             ercot == config.regions.ercot
  <2>1. job.preview = seen /\ job.payload = Stamped(payload, seen.level)
    BY <1>1 DEF IntakeInv, JobInv
  <2>2. /\ payload \in ConfiguratorPayload /\ GridValid(g) /\ g \in Grid
        /\ ValidateAgainstRegions(g) = "ok"
    BY <1>1, Accepted DEF PayloadValid
  <2>3. LET h == job.payload.grid IN
        /\ h.export = g.export /\ h.region = g.region /\ h.program = g.program
        /\ h.point = g.point /\ h.limit = g.limit
    BY <2>1, <2>2 DEF Stamped, ConfiguratorPayload, Grid
  <2>4. g.path = "grid_revenue"
    BY <1>1, <2>2, <2>3 DEF GridValid, PathShape, OffGrid, Grid, GridPaths
  <2>5. g.program # None /\ g.point # None
    BY <2>2, <2>4 DEF GridValid, RevenueShape
  <2>6. /\ CheckMarketProgram(g) = "ok" /\ CheckExportLimit(g) = "ok"
        /\ CheckSettlementPoint(g) = "ok"
    BY <2>2 DEF ValidateAgainstRegions, Then
  <2>7. g.region = "ercot" /\ g.point \in ercot.points
    BY <2>5, <2>6 DEF CheckSettlementPoint, Known, Rule
  <2>8. g.program \in ercot.programs
    BY <2>4, <2>6, <2>7 DEF CheckMarketProgram, Known, Rule
  <2>9. CASE g.export = "limited_export"
    <3>1. g.limit # None
      BY <2>2, <2>9 DEF GridValid
    <3>2. ercot.cap # None => g.limit <= ercot.cap
      BY <2>6, <2>7, <2>9 DEF CheckExportLimit, Known, Rule
    <3> QED
      BY <2>3, <2>7, <2>8, <3>1, <3>2
  <2>10. CASE g.export = "export"
    <3>1. UnverifiedExport(SizingGrid(g))
      BY <2>7, <2>10 DEF UnverifiedExport, SizingGrid
    <3>2. "export_unverified" \in Flags(payload, SizingGrid(g), peak)
      BY <3>1 DEF Flags
    <3>3. "export_unverified" \in seen.flags
      BY <3>2 DEF SizingPreview
    <3> QED
      BY <2>1, <2>3, <2>7, <2>8, <3>3
  <2> QED
    BY <1>1, <2>2, <2>3, <2>9, <2>10 DEF Grid, Exports
<1> QED
  BY <1>1, Invariance, PTL DEF ExportCheckedOrFlagged

LEMMA Largest ==
  ASSUME NEW a \in Int, NEW b \in Int
  PROVE  Larger(a, b) \in Int /\ a <= Larger(a, b) /\ b <= Larger(a, b)
BY DEF Larger

\* Rounding takes less than one from what is rounded up.
LEMMA RoundedUpNat ==
  ASSUME NEW num \in Nat, NEW den \in Nat \ {0}, NEW unit \in {0, PCS}
  PROVE  RoundedUp(num, den, unit) \in Nat
<1> DEFINE off == (unit * den) \div 2000000
<1>1. off \in Nat /\ off < den
  BY DEF PCS
<1> HIDE DEF off
<1>2. num - off + den - 1 \in Nat
  BY <1>1
<1>3. PICK n \in Nat : n = num - off + den - 1
  BY <1>2
<1>4. n \div den \in Nat
  OBVIOUS
<1>5. RoundedUp(num, den, unit) = n \div den
  BY <1>3 DEF RoundedUp, Size!CeilDiv, off
<1> QED
  BY <1>4, <1>5

LEMMA PowersAreNat ==
  ASSUME NEW fx \in FlexObligation, NEW peak \in Nat, ObligationValid(fx), NEW unit \in {0, PCS}
  PROVE  Curtailed(fx, peak, unit) \in Nat /\ Recharge(fx, peak, unit) \in Nat
<1>1. /\ fx.depth \in Nat /\ fx.interval \in Nat \ {0}
      /\ FlexEnergy(fx, peak) \in Nat
  BY EnergyIsNat DEF ObligationValid, FlexObligation
<1>2. Curtailed(fx, peak, unit) \in Nat
  <2>1. fx.depth * peak \in Nat
    BY <1>1, Product
  <2> QED
    BY <2>1, RoundedUpNat DEF Curtailed
<1>3. Recharge(fx, peak, unit) \in Nat
  <2>1. 4 * FlexEnergy(fx, peak) \in Nat /\ 361 * fx.interval \in Nat \ {0}
    BY <1>1
  <2> QED
    BY <2>1, RoundedUpNat DEF Recharge
<1> QED
  BY <1>2, <1>3

\* The need is at least what each job takes.
LEMMA NeedCoversJobs ==
  ASSUME NEW p \in ConfiguratorPayload, GridValid(p.grid), NEW peak \in Nat,
         NEW unit \in {0, PCS}
  PROVE  LET fx == p.grid.flex
             need == BessPowerNeed(p, p.grid, fx, peak, unit)
         IN  /\ need \in Nat
             /\ p.ride > 0 \/ p.grid.path = "off_grid" => peak <= need
             /\ fx # None => /\ Curtailed(fx, peak, unit) <= need
                             /\ Recharge(fx, peak, unit) <= need
             /\ p.grid.limit # None => p.grid.limit <= need
             /\ p.grid.export = "export" => BessDcPower(p.capacity) <= need
<1> DEFINE g == p.grid
           fx == g.flex
           carry == CarryPower(p.ride, g, peak)
           flex == FlexPower(fx, peak, unit)
           sent == ExportPower(g, p.capacity)
           need == BessPowerNeed(p, g, fx, peak, unit)
<1>1. g \in Grid /\ fx \in FlexObligation \cup {None} /\ ObligationValid(fx) /\ p.capacity \in Int
  BY DEF ConfiguratorPayload, Grid, GridValid
<1>2. carry \in Nat /\ (p.ride > 0 \/ g.path = "off_grid" => carry = peak)
  BY DEF CarryPower
<1>3. /\ flex \in Int
      /\ fx # None => Curtailed(fx, peak, unit) <= flex /\ Recharge(fx, peak, unit) <= flex
  <2>1. CASE fx = None
    BY <2>1 DEF FlexPower
  <2>2. CASE fx # None
    <3>1. Curtailed(fx, peak, unit) \in Int /\ Recharge(fx, peak, unit) \in Int
      BY <1>1, <2>2, PowersAreNat
    <3> QED
      BY <2>2, <3>1, Largest DEF FlexPower
  <2> QED
    BY <2>1, <2>2
<1>4. /\ sent \in Int /\ (g.limit # None => sent = g.limit)
      /\ g.export = "export" => sent = BessDcPower(p.capacity)
  <2>1. BessDcPower(p.capacity) \in Int
    BY <1>1 DEF BessDcPower, Size!CeilDiv, CATL_RACK
  <2>2. g.limit \in Int \cup {None} /\ (g.limit # None) = (g.export = "limited_export")
    BY <1>1 DEF Grid, GridValid
  <2> QED
    BY <2>1, <2>2 DEF ExportPower
<1> HIDE DEF carry, flex, sent
<1>5. Larger(flex, sent) \in Int /\ flex <= Larger(flex, sent) /\ sent <= Larger(flex, sent)
  BY <1>3, <1>4, Largest
<1>6. need = Larger(carry, Larger(flex, sent))
  BY DEF BessPowerNeed, carry, flex, sent
<1>7. need \in Int /\ carry <= need /\ Larger(flex, sent) <= need
  BY <1>2, <1>5, <1>6, Largest
<1> HIDE DEF need
<1>8. need \in Nat /\ flex <= need /\ sent <= need
  BY <1>2, <1>3, <1>4, <1>5, <1>7
<1>9. fx # None => Curtailed(fx, peak, unit) <= need /\ Recharge(fx, peak, unit) <= need
  <2>1. fx # None => Curtailed(fx, peak, unit) \in Int /\ Recharge(fx, peak, unit) \in Int
    BY <1>1, PowersAreNat
  <2> QED
    BY <1>3, <1>8, <2>1
<1> QED
  BY <1>2, <1>4, <1>7, <1>8, <1>9 DEF need

\* Racks and PCS carry every job of an order that is not flagged as short.
THEOREM BatterySuffices == IntakeSpec => []BatteryDoesItsJobs
<1>1. ASSUME IntakeInv, job # None, job.payload.coupling = "dc_external_pcs",
             "power_shortfall" \notin job.preview.flags
      PROVE  LET p == job.payload
                 fx == p.grid.flex
                 peak == job.preview.gridPeak
                 racks == BessDcPower(p.capacity)
                 Does(power, unit) ==
                     /\ p.ride > 0 \/ p.grid.path = "off_grid" => peak <= power
                     /\ fx # None => /\ Curtailed(fx, peak, unit) <= power
                                     /\ Recharge(fx, peak, unit) <= power
                     /\ p.grid.limit # None => p.grid.limit <= power
                     /\ p.grid.export = "export" => racks <= power
             IN  Does(job.resolution.pcs * PCS, PCS) /\ Does(racks, 0)
  <2> DEFINE seen == SizingPreview(payload, SizingGrid(payload.grid))
             p == Stamped(payload, seen.level)
             g == payload.grid
             peak == GridPeak(SiteLoad(payload), payload.onsite)
             racks == BessDcPower(payload.capacity)
             need(unit) == BessPowerNeed(payload, g, g.flex, peak, unit)
  <2>1. job.preview = seen /\ job.payload = p /\ job.resolution = Resolution(p)
    BY <1>1 DEF IntakeInv, JobInv
  <2>2. /\ payload \in ConfiguratorPayload /\ GridValid(g) /\ g \in Grid /\ peak \in Nat
    BY <1>1, Accepted DEF PayloadValid
  <2>3. /\ p.gpus = payload.gpus /\ p.variant = payload.variant /\ p.onsite = payload.onsite
        /\ p.ride = payload.ride /\ p.capacity = payload.capacity /\ p.coupling = payload.coupling
        /\ p.grid.flex = g.flex /\ p.grid.path = g.path /\ p.grid.limit = g.limit
        /\ p.grid.export = g.export
    BY <2>2 DEF Stamped, ConfiguratorPayload, Grid
  <2>4. seen.gridPeak = peak
    BY DEF SizingPreview
  <2>5. InForce(SizingGrid(g)) = g.flex
    BY <2>2, OwnObligation
  <2>6. need(0) <= racks
    <3>1. BessPowerNeed(payload, SizingGrid(g), g.flex, peak, 0) = need(0)
      BY DEF BessPowerNeed, CarryPower, ExportPower, SizingGrid
    <3>2. seen.flags = Flags(payload, SizingGrid(g), peak)
      BY DEF SizingPreview
    <3>3. "power_shortfall" \notin Flags(payload, SizingGrid(g), peak)
      BY <1>1, <2>1, <3>2
    <3>4. payload.coupling # "ac_coupled"
      BY <1>1, <2>1, <2>3
    <3>5. ~(racks < need(0))
      BY <2>5, <3>1, <3>3, <3>4 DEF Flags
    <3>6. racks \in Int /\ need(0) \in Int
      BY <2>2, NeedCoversJobs DEF BessDcPower, Size!CeilDiv, CATL_RACK, ConfiguratorPayload
    <3> QED
      BY <3>5, <3>6
  <2>7. need(PCS) <= job.resolution.pcs * PCS /\ job.resolution.pcs * PCS \in Int
    <3>1. job.resolution.pcs = PcsCount(BessPowerNeed(p, p.grid, p.grid.flex,
                                             GridPeak(SiteLoad(p), p.onsite), PCS))
      BY <1>1, <2>1 DEF Resolution, PcsOf
    <3>2. GridPeak(SiteLoad(p), p.onsite) = peak
      BY <2>3 DEF SiteLoad
    <3>3. BessPowerNeed(p, p.grid, p.grid.flex, peak, PCS) = need(PCS)
      BY <2>3 DEF BessPowerNeed, CarryPower, ExportPower
    <3>4. PICK n \in Nat : n = need(PCS)
      BY <2>2, NeedCoversJobs
    <3> HIDE DEF need
    <3> DEFINE units == Size!CeilDiv(n, PCS)
    <3>5. units \in Nat
      BY <3>4, CeilDivNat DEF PCS
    <3>5a. n <= units * PCS
      BY <3>4, CeilDivNat DEF PCS
    <3>6. PcsCount(n) \in Int /\ units <= PcsCount(n)
      <4> HIDE DEF units
      <4>1. Larger(1, units) \in Int /\ units <= Larger(1, units)
        BY <3>5 DEF Larger
      <4> QED
        BY <4>1 DEF PcsCount, units
    <3>7. job.resolution.pcs = PcsCount(n)
      BY <3>1, <3>2, <3>3, <3>4 DEF need
    <3> HIDE DEF units
    <3> QED
      BY <3>4, <3>5, <3>5a, <3>6, <3>7 DEF PCS
  <2>8. ASSUME NEW unit \in {0, PCS}
        PROVE  /\ need(unit) \in Nat
               /\ payload.ride > 0 \/ g.path = "off_grid" => peak <= need(unit)
               /\ g.flex # None => /\ Curtailed(g.flex, peak, unit) <= need(unit)
                                   /\ Recharge(g.flex, peak, unit) <= need(unit)
               /\ g.limit # None => g.limit <= need(unit)
               /\ g.export = "export" => racks <= need(unit)
    BY <2>2, NeedCoversJobs
  <2>9. /\ racks \in Int /\ g.limit \in Int \cup {None}
        /\ \A unit \in {0, PCS} :
             g.flex # None => /\ Curtailed(g.flex, peak, unit) \in Int
                              /\ Recharge(g.flex, peak, unit) \in Int
    BY <2>2, PowersAreNat DEF BessDcPower, Size!CeilDiv, CATL_RACK, ConfiguratorPayload,
                              Grid, GridValid
  <2> HIDE DEF need, peak, racks
  <2>10. ASSUME NEW power \in Int, NEW unit \in {0, PCS}, need(unit) <= power
         PROVE  /\ payload.ride > 0 \/ g.path = "off_grid" => peak <= power
                /\ g.flex # None => /\ Curtailed(g.flex, peak, unit) <= power
                                    /\ Recharge(g.flex, peak, unit) <= power
                /\ g.limit # None => g.limit <= power
                /\ g.export = "export" => racks <= power
    BY <2>2, <2>8, <2>9, <2>10
  <2>11. /\ job.payload.ride = payload.ride /\ job.payload.grid.flex = g.flex
         /\ job.payload.grid.path = g.path /\ job.payload.grid.limit = g.limit
         /\ job.payload.grid.export = g.export /\ job.preview.gridPeak = peak
         /\ BessDcPower(job.payload.capacity) = racks
    BY <2>1, <2>3, <2>4 DEF racks
  <2> QED
    BY <2>6, <2>7, <2>9, <2>10, <2>11
<1> QED
  BY <1>1, Invariance, PTL DEF BatteryDoesItsJobs

-----------------------------------------------------------------------------
(***************************************************************************)
(* Types.                                                                  *)
(***************************************************************************)
\* Whoever asks within the schema's limits is shown sizes.
LEMMA PreviewIsTyped ==
  ASSUME NEW r \in ConfiguratorPayload, r.capacity >= 0, r.ride >= 0, NEW g,
         GridPeak(SiteLoad(r), r.onsite) \in Nat,
         InForce(g) \in FlexObligation \cup {None}, ObligationValid(InForce(g))
  PROVE  SizingPreview(r, g) \in Previews
<1> DEFINE peak == GridPeak(SiteLoad(r), r.onsite)
           fx == InForce(g)
           seen == SizingPreview(r, g)
<1>1. r.ride \in Nat /\ r.capacity \in Nat
  BY DEF ConfiguratorPayload
<1>2. Reserve(r.ride, peak) \in Nat /\ FlexEnergy(fx, peak) \in Nat
  BY <1>1, ReserveIsNat, EnergyIsNat
<1>3. fx # None => Recharge(fx, peak, 0) \in Nat
  BY PowersAreNat
<1>4. InterconnectionLevel(peak) \in Interconnections
  BY DEF InterconnectionLevel, Interconnections
<1>5. Recommend(r.context, g.region, LimitState(peak)) \in {"off_grid", "flexible", None}
  BY DEF Recommend
<1>6. Flags(r, g, peak) \in SUBSET FlagCodes
  BY DEF Flags, FlagCodes
<1>7. /\ seen = [gridPeak |-> peak, reserve |-> seen.reserve, bessMin |-> seen.bessMin,
                 level |-> seen.level, path |-> seen.path, recharge |-> seen.recharge,
                 capped |-> seen.capped, capacity |-> seen.capacity, flags |-> seen.flags]
      /\ seen.reserve = Reserve(r.ride, peak)
      /\ seen.bessMin = Reserve(r.ride, peak) + FlexEnergy(fx, peak)
      /\ seen.level = InterconnectionLevel(peak)
      /\ seen.path = Recommend(r.context, g.region, LimitState(peak))
      /\ seen.recharge = (IF fx = None THEN 0 ELSE Recharge(fx, peak, 0))
      /\ seen.capped \in BOOLEAN
      /\ seen.capacity = r.capacity /\ seen.flags = Flags(r, g, peak)
  BY DEF SizingPreview
<1> HIDE DEF peak, fx, seen
<1>8. seen.bessMin \in Nat /\ seen.recharge \in Nat
  BY <1>2, <1>3, <1>7
<1> QED
  BY <1>1, <1>2, <1>4, <1>5, <1>6, <1>7, <1>8 DEF Previews, peak, seen

\* An accepted payload is stamped, previewed and resolved to sizes.
LEMMA JobIsTyped ==
  ASSUME NEW p \in ConfiguratorPayload, CreateVerdict(p) = "ok"
  PROVE  LET seen == SizingPreview(p, SizingGrid(p.grid))
             stamped == Stamped(p, seen.level)
         IN  [payload |-> stamped, preview |-> seen, resolution |-> Resolution(stamped)]
                 \in JobRecords
<1> DEFINE seen == SizingPreview(p, SizingGrid(p.grid))
           stamped == Stamped(p, seen.level)
           g == p.grid
           made == Resolution(stamped)
<1>1. /\ PayloadValid(p) /\ GridValid(g) /\ g \in Grid /\ OnsiteValid(p.onsite)
      /\ p.gpus \in Nat /\ p.gpus >= 1 /\ p.capacity \in Nat /\ p.ride \in Nat
      /\ p.variant \in Size!GpuVariants /\ p.onsite.type \in {"none", "solar", "nuclear"}
      /\ p.onsite.capacity \in Int \cup {None}
  BY DEF CreateVerdict, Then, PayloadValid, ConfiguratorPayload
<1>2. GridPeak(SiteLoad(p), p.onsite) \in Nat
  BY <1>1, PeakIsNat
<1>3. /\ InForce(SizingGrid(g)) = g.flex /\ g.flex \in FlexObligation \cup {None}
      /\ ObligationValid(g.flex)
  BY <1>1, OwnObligation DEF Grid, GridValid
<1>4. seen \in Previews
  BY <1>1, <1>2, <1>3, PreviewIsTyped
<1>5. seen.level \in Interconnections
  BY <1>4 DEF Previews
<1> HIDE DEF seen
<1>6. /\ stamped \in ConfiguratorPayload
      /\ stamped.gpus = p.gpus /\ stamped.variant = p.variant /\ stamped.onsite = p.onsite
      /\ stamped.ride = p.ride /\ stamped.capacity = p.capacity
      /\ stamped.coupling = p.coupling /\ stamped.context = p.context
      /\ stamped.grid.flex = g.flex /\ stamped.grid.path = g.path
      /\ stamped.grid.limit = g.limit /\ stamped.grid.export = g.export
      /\ stamped.grid \in Grid
  <2>1. [g EXCEPT !.level = seen.level] \in Grid
    BY <1>1, <1>5 DEF Grid
  <2>2. ASSUME NEW h \in Grid PROVE [p EXCEPT !.grid = h] \in ConfiguratorPayload
    BY DEF ConfiguratorPayload
  <2>3. stamped = p \/ stamped = [p EXCEPT !.grid = [g EXCEPT !.level = seen.level]]
    BY DEF Stamped
  <2>4. stamped \in ConfiguratorPayload
    BY <2>1, <2>2, <2>3
  <2> QED
    BY <2>1, <2>3, <2>4, <1>1 DEF ConfiguratorPayload, Grid
<1>7. PcsOf(stamped) \in Nat
  <2> DEFINE need == BessPowerNeed(stamped, stamped.grid, stamped.grid.flex,
                                   GridPeak(SiteLoad(stamped), stamped.onsite), PCS)
  <2>1. GridPeak(SiteLoad(stamped), stamped.onsite) = GridPeak(SiteLoad(p), p.onsite)
    BY <1>6 DEF SiteLoad
  <2>2. BessPowerNeed(p, g, g.flex, GridPeak(SiteLoad(p), p.onsite), PCS) \in Nat
    BY <1>1, <1>2, NeedCoversJobs
  <2>3. need = BessPowerNeed(p, g, g.flex, GridPeak(SiteLoad(p), p.onsite), PCS)
    BY <1>6, <2>1 DEF BessPowerNeed, CarryPower, ExportPower
  <2>4. need \in Nat
    BY <2>2, <2>3
  <2> HIDE DEF need
  <2>5. Size!CeilDiv(need, PCS) \in Nat
    BY <2>4, CeilDivNat DEF PCS
  <2>6. PcsCount(need) \in Nat
    BY <2>5 DEF PcsCount, Larger
  <2> QED
    BY <2>6 DEF PcsOf, need
<1> DEFINE nodes == Size!NodeCount(p.gpus)
<1>8. /\ nodes \in Nat \ {0} /\ nodes * 8 \in Nat \ {0}
      /\ Size!ComputeContainers(nodes) \in Nat \ {0}
      /\ SiteLoad(p) \in Nat \ {0} /\ Size!GridContainers(SiteLoad(p)) \in Nat \ {0}
  <2>1. nodes \in Nat \ {0}
    BY <1>1 DEF Size!NodeCount, Size!CeilDiv
  <2>2. Size!ComputeContainers(nodes) \in Nat \ {0}
    BY <2>1 DEF Size!ComputeContainers, Size!CeilDiv
  <2> DEFINE compute == Size!ComputeContainers(nodes)
  <2> HIDE DEF nodes, compute
  <2>3. /\ nodes * 1050 + compute * 1250 \in Nat \ {0}
        /\ nodes * 794 + compute * 1302 \in Nat \ {0}
    BY <2>1, <2>2 DEF compute
  <2>4. Size!SitePeak(p.variant, nodes) \in Nat \ {0}
    BY <2>3 DEF Size!SitePeak, Size!Overhead, Size!NodePower, Size!ContainerPower,
                Size!DryCoolerFan, compute
  <2>5. SiteLoad(p) \in Nat \ {0}
    BY <2>4 DEF SiteLoad, nodes
  <2>6. Size!GridContainers(SiteLoad(p)) \in Nat \ {0}
    BY <2>5 DEF Size!GridContainers, Size!CeilDiv, Size!DesignLoad
  <2> QED
    BY <2>1, <2>2, <2>5, <2>6
<1>9. PROFILE[<<p.context, p.coupling>>] \in Profiles
  <2> DEFINE k == <<p.context, p.coupling>>
  <2>1. k \in ({"commercial"} \X Couplings) \cup (Federal \X {"ac_coupled"})
    BY DEF CreateVerdict, Then, Known, PROFILE
  <2>2. PROFILE[k] = IF k[1] = "commercial" THEN k ELSE <<"defense", "ac_coupled">>
    BY <2>1 DEF PROFILE
  <2>3. k[1] = "commercial" => k \in {"commercial"} \X Couplings
    BY <2>1 DEF Federal
  <2> HIDE DEF k
  <2>4. PROFILE[k] \in Profiles
    BY <2>2, <2>3 DEF Profiles
  <2> QED
    BY <2>4 DEF k
<1>10. made = [profile |-> PROFILE[<<p.context, p.coupling>>], nodes |-> nodes,
               compute |-> Size!ComputeContainers(nodes),
               grids |-> Size!GridContainers(SiteLoad(p)), pcs |-> PcsOf(stamped),
               variant |-> p.variant, gpus |-> nodes * 8, capacity |-> p.capacity,
               onsite |-> p.onsite, ride |-> p.ride, grid |-> stamped.grid]
  BY <1>6 DEF Resolution, SiteLoad
<1>11. p.onsite \in [type: {"none", "solar", "nuclear"}, capacity: Int \cup {None}]
  BY DEF ConfiguratorPayload
<1> HIDE DEF stamped, made, nodes
<1>12. made \in Resolutions
  BY <1>1, <1>6, <1>7, <1>8, <1>9, <1>10, <1>11 DEF Resolutions
<1>13. [payload |-> stamped, preview |-> seen, resolution |-> made] \in JobRecords
  BY <1>4, <1>6, <1>12 DEF JobRecords
<1> QED
  BY <1>13 DEF made, stamped, seen

\* The answer tells whether there is a job.
AnswerInv ==
    /\ answer \in {"starting", "down", "ready", "200", "202", "422", "500"}
    /\ (job # None) = (answer = "202")

LEMMA AnswerStays ==
  ASSUME IntakeInv, AnswerInv, [IntakeNext]_intakeVars
  PROVE  AnswerInv'
<1> USE DEF AnswerInv
<1>1. CASE Start
  BY <1>1 DEF Start, IntakeInv
<1>2. ASSUME NEW g \in Drafted, AskPreview(g) PROVE AnswerInv'
  BY <1>2, Verdicts DEF AskPreview, Serving
<1>3. CASE Create
  <2>1. job = None /\ payload \in ConfiguratorPayload /\ CreateVerdict(payload) \in {"ok", "422", "500"}
    BY <1>3, Verdicts DEF Create, Serving, IntakeInv
  <2>2. CASE CreateVerdict(payload) = "ok"
    <3>1. job' \in JobRecords
      BY <1>3, <2>1, <2>2, JobIsTyped DEF Create
    <3> QED
      BY <1>3, <2>2, <3>1 DEF Create
  <2>3. CASE CreateVerdict(payload) # "ok"
    BY <1>3, <2>1, <2>3 DEF Create
  <2> QED
    BY <2>2, <2>3
<1>4. CASE EmitSizing \/ UNCHANGED intakeVars
  BY <1>4 DEF EmitSizing, intakeVars
<1> QED
  BY <1>1, <1>2, <1>3, <1>4 DEF IntakeNext, Drafted

\* Every number shown, kept and emitted is a size, and each stage has what
\* it needs.
THEOREM IntakeTypeCorrect == IntakeSpec => []IntakeTypeOK
<1>1. IntakeInit => AnswerInv
  BY DEF IntakeInit, AnswerInv
<1>2. IntakeInv /\ AnswerInv => IntakeTypeOK
  <2> SUFFICES ASSUME IntakeInv, AnswerInv PROVE IntakeTypeOK
    OBVIOUS
  <2>1. preview \in Previews \cup {None}
    <3> SUFFICES ASSUME preview # None PROVE preview \in Previews
      OBVIOUS
    <3> QED
      BY Shown, PreviewIsTyped
  <2>2. job \in JobRecords \cup {None}
    BY JobIsTyped DEF IntakeInv, JobInv
  <2>3. sizing \in SizingBlocks \cup {None}
    <3> SUFFICES ASSUME sizing # None PROVE sizing \in SizingBlocks
      OBVIOUS
    <3> DEFINE s == job.resolution
               peak == GridPeak(SiteLoad(s), s.onsite)
               fx == s.grid.flex
    <3>1. job # None /\ sizing = DtmSizing(s) /\ s \in Resolutions
      BY <2>2 DEF IntakeInv, JobRecords
    <3>2. /\ s.gpus \in Nat /\ s.gpus >= 1 /\ s.variant \in Size!GpuVariants /\ s.ride \in Nat
          /\ s.onsite.type \in {"none", "solar", "nuclear"}
          /\ s.onsite.capacity \in Int \cup {None} /\ fx \in FlexObligation \cup {None}
      BY <3>1 DEF Resolutions, Grid
    <3>3. s.onsite = payload.onsite /\ fx = payload.grid.flex
      BY <3>1, Accepted DEF IntakeInv, JobInv, Resolution, Stamped, ConfiguratorPayload, Grid
    <3>4. OnsiteValid(s.onsite) /\ ObligationValid(fx)
      BY <3>1, <3>3, Accepted DEF PayloadValid, GridValid
    <3>5. SiteLoad(s) \in Nat /\ peak \in Nat
      BY <3>2, <3>4, LoadIsNat, PeakIsNat
    <3>6. Reserve(s.ride, peak) \in Nat /\ FlexEnergy(fx, peak) \in Nat
      BY <3>2, <3>4, <3>5, ReserveIsNat, EnergyIsNat
    <3>7. fx # None => Recharge(fx, peak, 0) \in Nat
      BY <3>2, <3>4, <3>5, PowersAreNat
    <3>8. sizing = [load |-> SiteLoad(s), reserveFloor |-> Reserve(s.ride, peak),
                    readiness |-> Reserve(s.ride, peak) + FlexEnergy(fx, peak),
                    recharge |-> IF fx = None THEN 0 ELSE Recharge(fx, peak, 0)]
      BY <3>1 DEF DtmSizing
    <3> HIDE DEF s, peak, fx
    <3> QED
      BY <3>5, <3>6, <3>7, <3>8 DEF SizingBlocks
  <2> QED
    BY <2>1, <2>2, <2>3 DEF IntakeInv, AnswerInv, IntakeTypeOK
<1> QED
  BY <1>1, <1>2, Invariance, AnswerStays, PTL DEF IntakeSpec
=============================================================================
