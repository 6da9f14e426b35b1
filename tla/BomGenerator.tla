---------------------------- MODULE BomGenerator ----------------------------
(***************************************************************************)
(* The bill of materials of an order: BomGeneratorService.generate, the    *)
(* live offers the pipeline merges into it, and what bom.xlsx sums up.     *)
(*                                                                         *)
(* A reference designator is a set of ranges [prefix, first, last, tags],  *)
(* as "C1-C10: NODE-1...7" is read by who installs it.  A part stands for  *)
(* its equipment id, plate or shell number, or cable type, which is also   *)
(* its key in the price list.  Money is whole dollars.                     *)
(***************************************************************************)
EXTENDS CableHose, FiniteSetsExt, Functions

VARIABLES book,   \* pricing.yaml: the quantity breaks of a part, lowest first
          market, \* distributors' offers by part, or None: no enrichment
          bom     \* the Bom: its lines and its budget, or None

\* PriceBook: every list of quantity breaks has one, or is none.
Breaks == [min: Nat \ {0}, usd: Nat \ {0}, source: {"quote", "distributor", "estimate"}]
IsPriceBook(prices) == \A part \in DOMAIN prices : prices[part] \in Seq(Breaks) \ {<<>>}
\* EnrichmentForMpn: what each distributor shows for a part.
AreOffers(shown) == \A part \in DOMAIN shown : shown[part] \subseteq [error: BOOLEAN, usd: Nat]

\* ProcurementPath, and what the customer buys.
PURCHASED == {"catalog", "engineered_to_order", "custom_fabrication", "field_supplied"}
Paths == PURCHASED \cup {"customer_supplied", "by_others"}
Sections == << "compute", "grid", "site", "field" >>

\* Requirement specs, whose vendor is TBD; the rest is bought by part number.
EngineeredToOrder == {"switchgear", "transformer", "lv_switchboard", "panelboard"}

RangeOf(prefix, first, last, tags) ==
    [prefix |-> prefix, first |-> first, last |-> last, tags |-> tags]
Whole == {<<Itself, 0>>}
Covers(ref) ==
    UNION {{Tag(r.prefix, n, t[1], t[2]) : n \in r.first .. r.last, t \in r.tags} : r \in ref}

Line(section, path, part, qty, ref) ==
    [section |-> section, path |-> path, part |-> part, qty |-> qty, ref |-> ref,
     note |-> None, unit |-> None, source |-> None]

-----------------------------------------------------------------------------
(***************************************************************************)
(* container_groups: which bom.yaml builds which containers.               *)
(***************************************************************************)
\* A bom.yaml lists the equipment of the same container as its
\* topology.yaml, parts that are no device, and its plates.
TagsOf(topology, template) ==
    {<<topology[i].name, topology[i].k>> :
        i \in {j \in DOMAIN topology : topology[j].template = template}}
BomYaml(topology, untagged, plates) ==
    [parts |-> {[part |-> t, qty |-> Cardinality(TagsOf(topology, t)), tags |-> TagsOf(topology, t)] :
                   t \in {topology[i].template : i \in DOMAIN topology}}
               \cup {[part |-> untagged, qty |-> 2, tags |-> {}]},
     plates |-> plates]
ComputeBom == BomYaml(ComputeTopology(order.variant), "cable_gland",
                      {[part |-> "CD", qty |-> 1], [part |-> "DLC", qty |-> 7],
                       [part |-> "CG", qty |-> 1]})
PrimaryBom == BomYaml(PrimaryTopology(FALSE), "cable_gland",
                      {[part |-> "CG", qty |-> 2], [part |-> "MV", qty |-> 1]})
FeederBom == BomYaml(FeederTopology, "cable_gland",
                     {[part |-> "CG", qty |-> 2], [part |-> "MV", qty |-> 1]})

Group(prefix, first, last, yaml) ==
    [prefix |-> prefix, first |-> first, last |-> last, yaml |-> yaml]
CountOf(g) == g.last - g.first + 1

\* bom.yaml with the dropped tags, and their quantity, taken out.
Without(yaml, drop) ==
    [yaml EXCEPT !.parts =
        {IF p.tags \cap drop = {} THEN p
         ELSE [p EXCEPT !.qty = Cardinality(p.tags \ drop), !.tags = @ \ drop] :
            p \in {q \in yaml.parts : q.tags = {} \/ ~(q.tags \subseteq drop)}}]

Partial == NodesIn(site.nodes, site.compute) < NODES_PER_COMPUTE_CONTAINER
\* Mutated: the last container always counts as full.
FullContainersAll == site.compute
FullContainers == IF Partial THEN site.compute - 1 ELSE site.compute

ComputeGroups ==
    LET dropped == DroppedTags(NodesIn(site.nodes, site.compute))
        full == FullContainers
    IN  {g \in {Group("C", 1, full, ComputeBom),
                Group("C", full + 1, site.compute, Without(ComputeBom, dropped))} :
            g.first <= g.last}
GridGroups ==
    IF ~release.primary THEN {}
    ELSE {Group("G", 1, 1, PrimaryBom)}
         \cup {g \in {Group("G", 2, site.grid, FeederBom)} : g.first <= g.last}

-----------------------------------------------------------------------------
(***************************************************************************)
(* section_lines: shell, parts and plates of a section's containers.       *)
(***************************************************************************)
Span(groups) ==
    {RangeOf((CHOOSE g \in groups : TRUE).prefix,
           Min({g.first : g \in groups}), Max({g.last : g \in groups}), Whole)}

\* ref_des: groups that hold the same tags merge into one range.
RefDes(held, tagsIn) ==
    LET tags == {tagsIn[g] : g \in held}
        ranges == IF Cardinality(tags) = 1
                  THEN {[r EXCEPT !.tags = CHOOSE t \in tags : TRUE] : r \in Span(held)}
                  ELSE {RangeOf(g.prefix, g.first, g.last, tagsIn[g]) : g \in held}
        named == {r \in ranges : r.tags # {}}
    IN  IF named = {} THEN Span(held) ELSE named

\* spec_to_catalog_line: a requirement spec is bought engineered to order.
PartLine(section, part, qty, ref) ==
    Line(section, IF part \in EngineeredToOrder THEN "engineered_to_order" ELSE "catalog",
         part, qty, ref)
\* A plate or a shell, cut to an ARCNODE drawing.
FabricatedLine(section, part, qty, ref) ==
    Line(section, "custom_fabrication", part, qty, ref)

SectionLines(section, shell, groups) ==
    LET total == SumFunction([g \in groups |-> CountOf(g)])
        With(part) == {g \in groups : \E p \in g.yaml.parts : p.part = part}
        PartIn(g, part) == CHOOSE p \in g.yaml.parts : p.part = part
        Plated(plate) == {g \in groups : \E p \in g.yaml.plates : p.part = plate}
        PlateIn(g, plate) == CHOOSE p \in g.yaml.plates : p.part = plate
    IN  IF groups = {} THEN {}
        ELSE {FabricatedLine(section, shell, total, Span(groups))}
             \cup {PartLine(section, part,
                       SumFunction([g \in With(part) |-> PartIn(g, part).qty * CountOf(g)]),
                       RefDes(With(part), [g \in With(part) |-> PartIn(g, part).tags])) :
                     part \in UNION {{p.part : p \in g.yaml.parts} : g \in groups}}
             \cup {FabricatedLine(section, plate,
                       SumFunction([g \in Plated(plate) |-> PlateIn(g, plate).qty * CountOf(g)]),
                       Span(Plated(plate))) :
                     plate \in UNION {{p.part : p \in g.yaml.plates} : g \in groups}}

\* with_partial_panel_note: servers and PDUs behind the panelboard of CN.
PanelNote(line) ==
    IF Partial /\ line.part = "panelboard"
    THEN LET held == NodesIn(site.nodes, site.compute)
         IN  [line EXCEPT !.note = [container |-> site.compute, servers |-> held,
                 pdus |-> 2 * PdusPerSide(NODES_PER_COMPUTE_CONTAINER)
                            - Cardinality({t \in DroppedTags(held) : t[1] # "NODE"})]]
    ELSE line

ByOthers(part, qty, ref) == Line("site", "by_others", part, qty, ref)
SiteLines ==
    LET here(name) == {RangeOf(name, 0, 0, Whole)}
        each == {RangeOf("C", 1, site.compute, Whole)}
    IN  {Line("site", "customer_supplied", "battery", 1, {RangeOf("BESS", 1, 1, Whole)}),
         ByOthers("site_mv", 1, here("SITE-MV")), ByOthers("poi_ct_pt", 1, here("POI-CT/PT")),
         ByOthers("ems_host", 1, here("EMS-GW")), ByOthers("pump", site.compute, each),
         ByOthers("tank", site.compute, each), ByOthers("step_up", 1, here("T-BESS")),
         ByOthers("mv_disconnect", 1, here("Q-BESS"))}

PcsLines ==
    IF options.coupling # "dc_external_pcs" THEN {}
    ELSE {PartLine("site", "pcs", options.pcs, {RangeOf("PCS", 1, options.pcs, Whole)})}

\* cable_hose_lines: one line for each cable or hose type, as many as runs.
FieldLines ==
    {Line("field", "field_supplied", kind, Cardinality(RunsOfKind(kind)), {}) :
        kind \in {r.kind : r \in cables \cup hoses}}

Lines ==
    {PanelNote(line) : line \in SectionLines("compute", "shell_compute", ComputeGroups)
                                  \cup SectionLines("grid", "shell_grid", GridGroups)}
    \cup SiteLines \cup PcsLines \cup FieldLines

-----------------------------------------------------------------------------
(***************************************************************************)
(* Prices and the budget.                                                  *)
(***************************************************************************)
QtyOf(lines) == SumFunction([line \in lines |-> line.qty])
OrderQty(lines, part) == QtyOf({line \in lines : line.part = part})

Listed(line) == line.path \in PURCHASED /\ line.part \in DOMAIN book
BreaksReached(part, qty) == {i \in DOMAIN book[part] : book[part][i].min <= qty}

\* Mutated: the break is that of the line's own quantity.
PriceQtyOfLine(lines, line) == line.qty
\* The whole order's quantity of the part picks the break.
PriceQty(lines, line) == OrderQty(lines, line.part)

BookPrice(lines, line) ==
    IF ~Listed(line) THEN line
    ELSE LET pick == book[line.part][Max(BreaksReached(line.part, PriceQty(lines, line)))]
         IN  [line EXCEPT !.unit = pick.usd, !.source = pick.source]

\* The part numbers enrich is asked for.
CatalogParts == {line.part : line \in {l \in bom.lines : l.path = "catalog"}}

\* live_price: an offer at 0 is none.
PricedOffers(part) == {o \in market[part] : ~o.error /\ o.usd # 0}
LivePrice(line) ==
    IF line.part \notin CatalogParts \cap DOMAIN market \/ PricedOffers(line.part) = {}
    THEN line
    ELSE [line EXCEPT !.unit = Min({o.usd : o \in PricedOffers(line.part)}),
                      !.source = "distributor"]

BAND == [quote |-> 10, distributor |-> 15, estimate |-> 40]
\* order_budget; low and high in hundredths of a dollar.
OrderBudget(lines) ==
    LET bought == {line \in lines : line.path \in PURCHASED}
        priced == {line \in bought : line.unit # None}
        Cost(line) == line.unit * line.qty
    IN  [total |-> SumFunction([p \in priced |-> Cost(p)]),
         low |-> SumFunction([p \in priced |-> Cost(p) * (100 - BAND[p.source])]),
         high |-> SumFunction([p \in priced |-> Cost(p) * (100 + BAND[p.source])]),
         quoted |-> SumFunction([p \in {q \in priced : q.source = "quote"} |-> Cost(p)]),
         unpriced |-> Cardinality(bought) - Cardinality(priced)]

\* _sections: the subtotal of a section's lines.
Subtotal(i) == OrderBudget({line \in bom.lines : line.section = Sections[i]}).total

\* rollup_sheet: one row for each part bought, priced as the part's first line.
SectionNo(line) == CHOOSE i \in DOMAIN Sections : Sections[i] = line.section
RollupRows(lines) ==
    LET bought == {line \in lines : line.path \in PURCHASED}
        First(part) == CHOOSE line \in bought :
                          /\ line.part = part
                          /\ \A l \in bought : l.part = part => SectionNo(line) <= SectionNo(l)
    IN  {[part |-> part, qty |-> OrderQty(bought, part), unit |-> First(part).unit] :
            part \in {line.part : line \in bought}}

-----------------------------------------------------------------------------
(***************************************************************************)
(* The steps of the pipeline.                                              *)
(***************************************************************************)
\* ValueError of part_line, KeyError of the PCS, IndexError of book_price.
NoSpec == \E line \in Lines : line.part \in release.unspecced
NoBreak ==
    \E line \in Lines : Listed(line) /\ BreaksReached(line.part, PriceQty(Lines, line)) = {}

GenerateBom ==
    /\ stage = "bom"
    /\ ~NoSpec /\ ~NoBreak
    /\ LET lines == {BookPrice(Lines, line) : line \in Lines}
       IN  bom' = [lines |-> lines, budget |-> OrderBudget(lines)]
    /\ stage' = "offers"
    /\ UNCHANGED <<order, site, options, release, devices, buses, counter, cables, hoses,
                   book, market>>

BomFails ==
    /\ stage = "bom"
    /\ NoSpec \/ NoBreak
    /\ stage' = "failed"
    /\ UNCHANGED <<order, site, options, release, devices, buses, counter, cables, hoses,
                   book, market, bom>>

\* attach_offers, if a distributor is configured.
AttachOffers ==
    /\ stage = "offers"
    /\ IF market = None THEN UNCHANGED bom
       ELSE LET lines == {LivePrice(line) : line \in bom.lines}
            IN  bom' = [lines |-> lines, budget |-> OrderBudget(lines)]
    /\ stage' = "drawings"
    /\ UNCHANGED <<order, site, options, release, devices, buses, counter, cables, hoses,
                   book, market>>
=============================================================================
