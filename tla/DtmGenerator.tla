---------------------------- MODULE DtmGenerator ----------------------------
(***************************************************************************)
(* The device topology manifest of an order: DtmGeneratorService.generate  *)
(* and its helpers.  Container by container the devices of the release's   *)
(* topology get their site-wide slugs and tags; then the battery pad, the  *)
(* utility's devices and the buses that join the containers.               *)
(*                                                                         *)
(* A device id is <<template, n>> for the slug "template_n", and a tag is  *)
(* <<"C", 2, "PDU-A", 3>> for C2-PDU-A3, <<"C", 2, Itself, 0>> for C2, and *)
(* <<"BESS", 1, "MP", 3>> for BESS-1-MP-3.                                 *)
(* Order and sizing come from Sizing; what a release says of a profile is  *)
(* a record of what it may lack.                                           *)
(***************************************************************************)
EXTENDS Sizing, Sequences

VARIABLES options,   \* the rest of the order: coupling, mwh, pcs, offGrid
          release,   \* what the manifest has for the order's profile
          stage,     \* where the run stands
          devices,   \* Dtm.devices
          buses,     \* Dtm.buses
          counter    \* slug_counter

dtmVars == <<options, release, stage, devices, buses, counter>>

Couplings == {"ac_coupled", "dc_integrated_pcs", "dc_external_pcs"}
\* pcs_count: at least one on dc_ext, none else.
Options ==
    {o \in [coupling: Couplings, mwh: Nat \ {0}, pcs: Nat, offGrid: BOOLEAN] :
        o.pcs # 0 <=> o.coupling = "dc_external_pcs"}

\* The templates of the catalog; a leaf is 1:1 with its equipment.
Templates ==
    {"compute_module", "compute_module_h100", "grid_module", "bess_module",
     "bess_module_dc", "gpu_node", "gpu_node_h100", "pdu", "panelboard", "rack",
     "cdu", "dc_external", "network_switch", "mgmt_switch", "switchgear",
     "poi_meter", "protective_relay", "transformer", "lv_switchboard",
     "grid_mgmt_switch", "bess_rack", "bess_catl", "pcs", "der_dispatch",
     "operating_envelope"}
SlugNames == Templates \cup {"new_template", "ac_main", "site_mv", "lv_main"}

\* grid_container, grid_feeder_container, the variants with a topology.yaml,
\* whether one of them uses a template the catalog does not have, and the
\* equipment without a spec.
Releases == [primary: BOOLEAN, feeder: BOOLEAN,
             topology: SUBSET {"compute", "primary", "feeder"},
             newTemplate: BOOLEAN, unspecced: SUBSET Templates]

-----------------------------------------------------------------------------
(***************************************************************************)
(* The topology.yaml of each assembly variant, in file order.              *)
(***************************************************************************)
EntryNames ==
    {"RACK", "PNL", "NODE", "CDU", "SW-DATA", "SW-MGMT", "PDU-A", "PDU-B", "DC",
     "SWG", "RLY", "T", "SWBD", "MTR-POI", "NEW"}
Entry(name, k, template, polled) ==
    [name |-> name, k |-> k, template |-> template, polled |-> polled]

NodeTemplate(v) == IF v = "B200" THEN "gpu_node" ELSE "gpu_node_h100"

ComputeTopology(v) ==
    << Entry("RACK", 1, "rack", FALSE), Entry("PNL", 1, "panelboard", FALSE) >>
    \o [i \in 1 .. NODES_PER_COMPUTE_CONTAINER |-> Entry("NODE", i, NodeTemplate(v), TRUE)]
    \o << Entry("CDU", 1, "cdu", TRUE), Entry("SW-DATA", 1, "network_switch", TRUE),
          Entry("SW-MGMT", 1, "mgmt_switch", FALSE) >>
    \o [i \in 1 .. 3 |-> Entry("PDU-A", i, "pdu", TRUE)]
    \o [i \in 1 .. 3 |-> Entry("PDU-B", i, "pdu", TRUE)]
    \o << Entry("DC", 1, "dc_external", TRUE) >>

FeederTopology ==
    << Entry("SWG", 1, "switchgear", FALSE), Entry("RLY", 1, "protective_relay", TRUE),
       Entry("T", 1, "transformer", FALSE), Entry("SWBD", 1, "lv_switchboard", FALSE),
       Entry("SW-MGMT", 1, "grid_mgmt_switch", FALSE) >>

PrimaryTopology(newTemplate) ==
    FeederTopology
    \o << Entry("MTR-POI", 0, "poi_meter", TRUE) >>
    \o IF newTemplate THEN << Entry("NEW", 1, "new_template", FALSE) >> ELSE <<>>

\* What fetch_topology parses; a variant without topology.yaml gives None.
FetchTopology(variant) ==
    IF variant \notin release.topology THEN None
    ELSE CASE variant = "compute" -> ComputeTopology(order.variant)
           [] variant = "primary" -> PrimaryTopology(release.newTemplate)
           [] variant = "feeder"  -> FeederTopology

\* Topology tags a container of `held` servers leaves out.
DroppedTags(held) ==
    {<<"NODE", i>> : i \in held + 1 .. NODES_PER_COMPUTE_CONTAINER}
    \cup {<<s, i>> : s \in {"PDU-A", "PDU-B"},
                     i \in PdusPerSide(held) + 1 .. PdusPerSide(NODES_PER_COMPUTE_CONTAINER)}

-----------------------------------------------------------------------------
(***************************************************************************)
(* generate: the containers, C1..CN and then G1..GM.                       *)
(***************************************************************************)
\* The name in the tag of a module, which has none but its container's.
Itself == "self"
Tag(box, no, name, k) == <<box, no, name, k>>

Device(id, tag, template, parent, polled) ==
    [id |-> id, tag |-> tag, template |-> template, parent |-> parent, polled |-> polled]

TagWords ==
    EntryNames \cup {"C", "G", "BESS", "PCS", "MP", "der_dispatch", "operating_envelope", Itself}
Devices ==
    [id: SlugNames \X Nat, tag: TagWords \X Nat \X TagWords \X Nat, template: SlugNames,
     parent: (SlugNames \X Nat) \cup {None}, polled: BOOLEAN]

\* None is no slug, no device and no topology.
ASSUME NoneAssumption ==
    /\ None \notin SlugNames \X Nat /\ None \notin Devices
    /\ None \notin Seq([name: EntryNames, k: Nat, template: SlugNames, polled: BOOLEAN])

\* devices is a dict: what has the id already is replaced.
Put(new) == {d \in devices : \A e \in new : e.id # d.id} \cup new

\* Mutated: a container takes one number of a template, whatever it holds.
TakenOnce(entries) ==
    [s \in SlugNames |-> IF \E d \in entries : d.id[1] = s THEN 1 ELSE 0]
Taken(entries) ==
    [s \in SlugNames |-> Cardinality({d \in entries : d.id[1] = s})]

ModuleTemplate(kind, topology) ==
    CASE kind = "grid" -> "grid_module"
      [] kind = "compute" /\ topology # None /\ order.variant = "H100_SXM"
           -> "compute_module_h100"
      [] OTHER -> "compute_module"

\* assign_slug: the nth of a template in what is being emitted.
AssignSlug(template, nth) == <<template, counter[template] + nth>>

\* The entries of a topology that stay, and the number of one among those
\* of its template.
Kept(topology, drop) ==
    IF topology = None THEN {}
    ELSE {i \in DOMAIN topology : <<topology[i].name, topology[i].k>> \notin drop}
Nth(topology, kept, i) ==
    Cardinality({j \in kept : j <= i /\ topology[j].template = topology[i].template})

ModuleDevice(kind, box, no, topology) ==
    LET template == ModuleTemplate(kind, topology)
    IN  Device(AssignSlug(template, 1), Tag(box, no, Itself, 0), template, None, FALSE)
Children(module, topology, kept) ==
    {LET entry == topology[i]
     IN  Device(AssignSlug(entry.template, Nth(topology, kept, i)),
                Tag(module.tag[1], module.tag[2], entry.name, entry.k),
                entry.template, module.id, entry.polled) : i \in kept}

\* emit_container: the module, its devices less the dropped tags, and its
\* feeder bus over its own devices only.
EmitContainer(kind, box, no, variant, drop) ==
    LET topology == FetchTopology(variant)
        module == ModuleDevice(kind, box, no, topology)
        children == Children(module, topology, Kept(topology, drop))
        main == [id |-> AssignSlug("ac_main", 1),
                 members |-> {d.id : d \in {c \in children :
                     c.template \in {"switchgear", "protective_relay", "transformer"}}}]
        feeder == IF kind = "grid" /\ topology # None THEN {main} ELSE {}
    IN  /\ devices' = Put({module} \cup children)
        /\ buses' = buses \cup feeder
        /\ counter' = [s \in SlugNames |->
                          counter[s] + Taken({module} \cup children \cup feeder)[s]]

Emitted(templates) == Cardinality({d \in devices : d.template \in templates})
ComputeModules == {"compute_module", "compute_module_h100"}

EmitCompute ==
    /\ stage = "emit"
    /\ Emitted(ComputeModules) < site.compute
    /\ LET n == Emitted(ComputeModules) + 1
       IN  EmitContainer("compute", "C", n, "compute", DroppedTags(NodesIn(site.nodes, n)))
    /\ UNCHANGED <<order, site, options, release, stage>>

\* The primary, if the profile has one, and a feeder for each further
\* transformer of load.  Mutated: one feeder for each grid container.
GridVariantsAllFeeders ==
    (IF release.primary THEN <<"primary">> ELSE <<>>)
    \o IF site.grid > 1 THEN [k \in 1 .. site.grid |-> "feeder"] ELSE <<>>
GridVariants ==
    (IF release.primary THEN <<"primary">> ELSE <<>>)
    \o [k \in 1 .. site.grid - 1 |-> "feeder"]

\* Mutated: the feeders are numbered among themselves.
GridNoOfVariant(k) == IF k = 1 THEN 1 ELSE k - 1
GridNo(k) == k

NoFeederVariant == site.grid > 1 /\ ~release.feeder

EmitGrid ==
    /\ stage = "emit"
    /\ Emitted(ComputeModules) = site.compute
    /\ ~NoFeederVariant
    /\ Emitted({"grid_module"}) < Len(GridVariants)
    /\ LET k == Emitted({"grid_module"}) + 1
       IN  EmitContainer("grid", "G", GridNo(k), GridVariants[k], {})
    /\ UNCHANGED <<order, site, options, release, stage>>

-----------------------------------------------------------------------------
(***************************************************************************)
(* The rest of generate, once the containers are out.                      *)
(***************************************************************************)
\* Megapacks of 3854 kWh that hold the ordered energy.
Megapacks == CeilDiv(options.mwh * 1000, 3854)

\* emit_battery.  The CATL bank is one device; on dc_ext the PCS stand by.
Pad ==
    LET ac == options.coupling = "ac_coupled"
        template == IF ac THEN "bess_module" ELSE "bess_module_dc"
        module == Device(<<template, 1>>, Tag("BESS", 0, Itself, 0), template, None, FALSE)
        leaf(t, n, tag) == Device(<<t, n>>, tag, t, module.id, TRUE)
    IN  {module}
        \cup (IF ac THEN {leaf("bess_rack", n, Tag("BESS", 1, "MP", n)) : n \in 1 .. Megapacks}
              ELSE {leaf("bess_catl", 1, Tag("BESS", 1, Itself, 0))})
        \cup (IF options.coupling = "dc_external_pcs"
              THEN {leaf("pcs", n, Tag("PCS", n, Itself, 0)) : n \in 1 .. options.pcs} ELSE {})

\* emit_utility_devices
Utility ==
    {Device(<<t, 0>>, Tag(t, 0, Itself, 0), t, None, FALSE) :
        t \in {u \in {"der_dispatch", "operating_envelope"} : ~options.offGrid}}

Ids(template) == {d.id : d \in {e \in devices : e.template = template}}

\* site_bus: the meter, each breaker and the battery module.
SiteBus(battery) ==
    [id |-> <<"site_mv", 1>>,
     members |-> Ids("poi_meter") \cup Ids("switchgear") \cup {battery}]

\* lv_main_buses: transformers, switchboards and feeds, each in its own
\* order, taken together one by one.
ComputeModule(n) ==
    (CHOOSE d \in devices : d.parent = None /\ d.tag = Tag("C", n, Itself, 0)).id
LvMain(k) ==
    [id |-> <<"lv_main", k>>,
     members |-> {<<"transformer", k>>, <<"lv_switchboard", k>>}
                   \cup {ComputeModule(n) : n \in site.feeds[k]}]
LvMainBuses ==
    IF counter["lv_switchboard"] = 0 THEN {} ELSE {LvMain(k) : k \in 1 .. site.grid}
\* zip(..., strict=True)
ZipFails ==
    /\ counter["lv_switchboard"] # 0
    /\ \/ counter["lv_switchboard"] # site.grid
       \/ counter["transformer"] # site.grid

ContainersOut ==
    /\ stage = "emit"
    /\ Emitted(ComputeModules) = site.compute
    /\ Emitted({"grid_module"}) = Len(GridVariants)

\* collect_templates_used
UnknownTemplate == \E d \in devices : d.template \notin Templates

Joining == LvMainBuses \cup {SiteBus((CHOOSE d \in Pad : d.parent = None).id)}
AllDevices == Put(Pad \cup Utility)

\* parent_chain_resolves and bus_members_resolve, the validators of Dtm.
Resolves(ds, bs) ==
    LET ids == {d.id : d \in ds}
    IN  /\ {d.parent : d \in ds} \subseteq ids \cup {None}
        /\ UNION {b.members : b \in bs} \subseteq ids

EmitSite ==
    /\ ContainersOut /\ ~NoFeederVariant
    /\ ~ZipFails /\ ~UnknownTemplate
    /\ Resolves(AllDevices, buses \cup Joining)
    /\ devices' = AllDevices
    /\ buses' = buses \cup Joining
    /\ counter' = [s \in SlugNames |-> counter[s] + Taken(Pad \cup Joining)[s]]
    /\ stage' = "schedule"
    /\ UNCHANGED <<order, site, options, release>>

\* The ValueErrors of generate, which fail the job.
GenerateFails ==
    /\ stage = "emit"
    /\ Emitted(ComputeModules) = site.compute
    /\ \/ NoFeederVariant
       \/ /\ ContainersOut
          /\ \/ ZipFails \/ UnknownTemplate
             \/ ~Resolves(AllDevices, buses \cup Joining)
    /\ stage' = "failed"
    /\ UNCHANGED <<order, site, options, release, devices, buses, counter>>

DtmInit ==
    /\ stage = "order"
    /\ devices = {} /\ buses = {} /\ counter = [s \in SlugNames |-> 0]

\* ModuleResolverService.resolve, in create.
Take ==
    /\ stage = "order"
    /\ Resolve
    /\ stage' = "emit"
    /\ UNCHANGED <<options, release, devices, buses, counter>>

Generate == Take \/ EmitCompute \/ EmitGrid \/ EmitSite \/ GenerateFails
=============================================================================
