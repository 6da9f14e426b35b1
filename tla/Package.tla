------------------------------ MODULE Package -------------------------------
(***************************************************************************)
(* The package of one order, end to end: resolution, device manifest,      *)
(* cable and hose schedule, bill of materials, offers, drawings            *)
(* (PipelineService.run up to the uploads).  Each artifact is derived on   *)
(* its own from the order, the release and the artifacts before it; the    *)
(* properties say that they describe one and the same site.                *)
(***************************************************************************)
EXTENDS Drawings

CONSTANT Cases   \* the orders, releases and markets to begin with

ASSUME CasesAssumption ==
    \A c \in Cases :
        /\ c.order \in Orders /\ c.options \in Options /\ c.release \in Releases
        /\ IsPriceBook(c.book) /\ (c.market # None => AreOffers(c.market))

pkgVars == <<order, site, options, release, stage, devices, buses, counter,
             cables, hoses, book, market, bom, sheets>>

PkgInit ==
    /\ \E c \in Cases :
          /\ order = c.order /\ options = c.options /\ release = c.release
          /\ book = c.book /\ market = c.market
    /\ site = None
    /\ DtmInit
    /\ cables = {} /\ hoses = {}
    /\ bom = None /\ sheets = None

PkgNext ==
    \/ Generate /\ UNCHANGED <<cables, hoses, book, market, bom, sheets>>
    \/ (Schedule \/ ScheduleFails) /\ UNCHANGED <<book, market, bom, sheets>>
    \/ (GenerateBom \/ BomFails \/ AttachOffers) /\ UNCHANGED sheets
    \/ DrawSheets

PkgSpec == PkgInit /\ [][PkgNext]_pkgVars

-----------------------------------------------------------------------------
(***************************************************************************)
(* Properties.                                                             *)
(***************************************************************************)
Tags == {d.tag : d \in devices}

\* Shapes of the artifacts; no slug is beyond its counter, so the next one
\* is new (assign_slug).
PkgTypeOK ==
    /\ options \in Options /\ release \in Releases
    /\ stage \in {"order", "emit", "schedule", "bom", "offers", "drawings", "done", "failed"}
    /\ counter \in [SlugNames -> Nat]
    /\ \A d \in devices :
          /\ d \in Devices
          /\ d.id[1] = d.template /\ d.id[2] <= counter[d.template]
          /\ d.parent # None => d.parent \in {m.id : m \in {e \in devices : e.parent = None}}
    /\ \A b \in buses : b.members \subseteq {d.id : d \in devices}
    /\ \A r \in cables : r.kind \in CableKinds /\ r.port \in Nat
    /\ \A r \in hoses : r.kind \in HoseKinds
    /\ bom # None => \A line \in bom.lines : line.path \in Paths /\ line.qty \in Nat \ {0}

\* Every tag names one device: drawings, BOM, labels and device data of a
\* site of many like containers share the tags (emit_container).
TagsNameOneDevice == Cardinality(Tags) = Cardinality(devices)

\* A release has a topology.yaml for every variant it builds with.
Complete == release.topology = {"compute", "primary", "feeder"}
Leaves == {d \in devices : d.parent # None /\ d.template \notin {"bess_rack", "bess_catl"}}

\* What is billed is what is built: for each equipment the BOM's quantity and
\* reference designators are the devices the manifest has, the partial
\* container and the PCS included, and the note to the panel builder counts
\* the PDUs the last container has (container_groups against emit_container).
BomNamesTheDevices ==
    stage = "drawings" /\ Complete =>
        /\ \A t \in {d.template : d \in Leaves} :
              LET built == {d \in Leaves : d.template = t}
                  billed == {line \in bom.lines : line.part = t}
              IN  /\ QtyOf(billed) = Cardinality(built)
                  /\ UNION {Covers(line.ref) : line \in billed} = {d.tag : d \in built}
        /\ \A line \in {l \in bom.lines : l.note # None} :
              line.note.pdus = Cardinality({d \in devices :
                  d.template = "pdu" /\ d.tag[2] = line.note.container})

\* The one-line drawn by the LV buses of the manifest is the one the feeder
\* cables are pulled for: both split the containers over the switchboards,
\* each from its own list of containers (site_buses, power_cables).
FeedersAgree ==
    stage = "bom" /\ Complete =>
        \A k \in 1 .. site.grid, n \in 1 .. site.compute :
            (\E r \in cables : /\ r.kind = "feeder"
                               /\ r.from = Tag("G", k, "SWBD", 1)
                               /\ r.to = Tag("C", n, "PNL", 1))
              <=> \E b \in buses : /\ b.id[1] = "lv_main"
                                   /\ (CHOOSE d \in devices : d.tag = Tag("G", k, "SWBD", 1)).id
                                         \in b.members
                                   /\ ComputeModule(n) \in b.members

\* Every polled device has one run to a management switch, in its own
\* container or G1's for the battery, and no port of a switch takes two; and
\* both ends of every run and hose are devices, or the EMS gateway.
EveryRunLands ==
    stage = "bom" =>
        LET patches == {r \in cables : r.port # 0} IN
        /\ \A d \in {e \in devices : e.polled} :
              \E r \in patches :
                 /\ r.from = d.tag
                 /\ r.to[1] = IF d.tag[1] \in {"C", "G"} THEN d.tag[1] ELSE "G"
                 /\ r.to[2] = IF d.tag[1] \in {"C", "G"} THEN d.tag[2] ELSE 1
        /\ Cardinality({<<r.to, r.port>> : r \in patches}) = Cardinality(patches)
        /\ Cardinality(patches) = Cardinality({d \in devices : d.polled})
        /\ UNION {{r.from, r.to} : r \in cables \cup hoses}
             \subseteq Tags \cup {EmsGateway.tag}

\* Whatever its container was left with, a server is fed over an A and a B
\* path, and losing a path leaves no PDU with more servers than its circuits
\* carry (_compute_branches deals the servers, dropped_tags keeps the PDUs).
NodesDualFed ==
    stage = "bom" =>
        LET feeds == {r \in cables : r.kind = "node_cord"} IN
        /\ \A d \in {e \in devices : e.template \in NodeTemplates} :
              {r.from[3] : r \in {f \in feeds : f.to = d.tag}} = {"PDU-A", "PDU-B"}
        /\ \A pdu \in {r.from : r \in feeds} :
              Cardinality({r \in feeds : r.from = pdu}) <= NODES_PER_PDU

\* Whoever reads a sheet reads the site that is built: the sheets of one
\* container, drawn as typical, and the ranges of the sheets of the site name
\* the devices, switchboards, switches, coolers and plates that the schedule
\* has cables and hoses for, and the note on the last container its servers
\* and PDUs; no bus path of the HMI ends where it begins (_sld_site_sheet,
\* _comms_site_sheet, _comms_compute_sheet, _pid_kit, _svg and
\* partial_container_note, against the schedule and the manifest).
SheetsShowTheSite ==
    stage = "done" /\ Complete =>
        LET fed(grids) == {r.to[2] : r \in {c \in cables : c.kind = "feeder" /\ c.from[2] \in grids}}
            patched(box, no) == {r.from : r \in {c \in cables :
                                    c.port # 0 /\ c.to = Tag(box, no, "SW-MGMT", 1)}}
            hosed(kind, tag) == {h.to : h \in {g \in hoses : g.kind = kind /\ g.from = tag}}
            plates == sheets.coolant.plates
            last(templates) == {d.tag : d \in {e \in devices :
                                    e.tag[2] = site.compute /\ e.template \in templates}}
        IN  /\ sheets.oneLine.primary = fed({1})
            /\ sheets.oneLine.rest = fed(2 .. site.grid)
            /\ sheets.oneLine.pcs = Emitted({"pcs"})
            /\ sheets.network.primary \cup sheets.network.battery = patched("G", 1)
            /\ sheets.network.relays = UNION {patched("G", k) : k \in 2 .. site.grid}
            /\ {Tag(u[1], u[2], "SW-MGMT", 1) : u \in sheets.network.uplinks}
                  = {r.from : r \in {c \in cables : c.kind = "fiber"}}
            /\ sheets.container = patched("C", 1)
            /\ hosed("secondary", sheets.coolant.cdu.tag) = {plates[i].tag : i \in DOMAIN plates}
            /\ hosed("primary", sheets.coolant.cdu.tag) = {sheets.coolant.cooler.tag}
            /\ \A i \in DOMAIN plates : plates[i].tag = Tag("C", 1, "NODE", i)
            /\ \A p \in sheets.paths : p.from # p.to
            /\ IF sheets.partial = None
               THEN Cardinality(last(NodeTemplates)) = NODES_PER_COMPUTE_CONTAINER
               ELSE /\ sheets.partial.servers = Cardinality(last(NodeTemplates))
                    /\ sheets.partial.pdus = last({"pdu"})

\* Three sums of one order agree: the budget of bom.json, the purchase
\* roll-up by part, whose unit price is that of the part's first line, and
\* the total of the sections (book_price, live_price, rollup_sheet).
RollupIsTheBudget ==
    stage \in {"offers", "drawings"} =>
        LET rows == {r \in RollupRows(bom.lines) : r.unit # None}
        IN  /\ bom.budget = OrderBudget(bom.lines)
            /\ SumFunction([r \in rows |-> r.unit * r.qty]) = bom.budget.total
            /\ SumFunction([i \in DOMAIN Sections |-> Subtotal(i)]) = bom.budget.total

\* A release and a price list that are whole.
Sound ==
    /\ Complete /\ release.primary /\ release.feeder
    /\ ~release.newTemplate /\ release.unspecced = {}
    /\ \A part \in DOMAIN book : book[part][1].min = 1

\* Whatever the order, a run over a whole release and price list ends with a
\* package: the strict zips, look-ups and divisions of generate,
\* power_cables and book_price only fail for what a release lacks.
SoundOrdersAreServed == stage = "failed" => ~Sound
=============================================================================
