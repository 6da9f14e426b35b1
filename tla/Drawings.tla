------------------------------ MODULE Drawings ------------------------------
(***************************************************************************)
(* What the drawings of an order say: the one-line (SLD), the coolant P&ID *)
(* and the management network, each two sheets whatever the order's size,  *)
(* and the bus paths of the HMI's one-line.  A sheet draws one container   *)
(* or one range of them as typical, from the device manifest or from the   *)
(* BOM alone.                                                              *)
(*                                                                         *)
(* A sheet is a record of what its labels name; symbols, geometry, title   *)
(* block and rendering are left out.                                       *)
(***************************************************************************)
EXTENDS BomGenerator

VARIABLE sheets   \* the drawings, or None

\* None is no note.
ASSUME NoNoteAssumption ==
    None \notin [servers: Nat, pdus: SUBSET (TagWords \X Nat \X TagWords \X Nat)]

\* A label "C1-C10", from the first to the last of a list, as it is read.
ComputeLabel(listed) == IF listed = {} THEN {} ELSE Min(listed) .. Max(listed)

-----------------------------------------------------------------------------
(***************************************************************************)
(* The one-line, from the BOM.                                             *)
(***************************************************************************)
\* draw_site_sheet: G1, then G2-GM drawn once.
SiteOneLine ==
    LET feeds == ComputeFeeds(site.compute, site.grid)
    IN  [primary |-> ComputeLabel(feeds[1]),
         rest |-> ComputeLabel(UNION {feeds[k] : k \in 2 .. site.grid}),
         pcs |-> IF options.coupling # "dc_external_pcs" THEN 0
                 ELSE QtyOf({line \in bom.lines : line.part = "pcs"})]

\* The GPUs of the order that the BOM states.  Mutated: those asked for.
GpusRequested == order.gpus
GpusDelivered == site.nodes * GPUS_PER_NODE

\* partial_container_note: how the last container differs from the typical.
PartialContainerNote ==
    LET n == site.compute
        last == NodesIn(GpusDelivered \div GPUS_PER_NODE, n)
    IN  IF last = NODES_PER_COMPUTE_CONTAINER THEN None
        ELSE [servers |-> last,
              pdus |-> {Tag("C", n, side, i) :
                           side \in {"PDU-A", "PDU-B"}, i \in 1 .. CeilDiv(last, NODES_PER_PDU)}]

-----------------------------------------------------------------------------
(***************************************************************************)
(* The management network and the P&ID, from the device manifest.          *)
(***************************************************************************)
\* networked_children
Networked(parent) == {d.tag : d \in {e \in devices : e.parent = parent /\ e.polled}}
BatteryModules == {d \in devices : Kind(d.template) = "bess"}

\* draw_site_sheet: what hangs on G1's switch, and what on the others.
SiteNetwork ==
    [primary |-> Networked(<<"grid_module", 1>>),
     battery |-> {d.tag : d \in {e \in devices : e.parent \in {m.id : m \in BatteryModules}}},
     relays |-> {Tag("G", k, "RLY", 1) : k \in 2 .. site.grid},
     uplinks |-> {<<"G", k>> : k \in 2 .. site.grid} \cup {<<"C", n>> : n \in 1 .. site.compute}]

\* The compute module of the lowest number, which is C1's.
FirstComputeModule ==
    CHOOSE d \in {e \in devices : e.template \in ComputeModules} :
        \A e \in devices : e.template = d.template => d.id[2] <= e.id[2]

ContainerNetwork == Networked(FirstComputeModule.id)

\* draw_rack_sheet and draw_facility_sheet: C1's loops; the plate of the
\* i-th node by slug is at temperature transmitter TT-(110 + i).
CoolantLoops ==
    LET nodes == Of(FirstComputeModule, NodeTemplates)
    IN  [cdu |-> One(FirstComputeModule, {"cdu"}),
         cooler |-> One(FirstComputeModule, DryCoolers),
         plates |-> Ranked(nodes, [d \in nodes |-> d.id[2]])]

-----------------------------------------------------------------------------
(***************************************************************************)
(* The bus paths of sld_hmi.svg.                                           *)
(***************************************************************************)
\* Templates with a measurement of MMXU.W.
MeasuresPower == {"poi_meter", "pcs", "bess_rack"}

\* The members of a bus in the order they are listed.
Listing == << "poi_meter", "switchgear", "protective_relay", "transformer", "lv_switchboard",
              "compute_module", "compute_module_h100", "bess_module", "bess_module_dc" >>
ListPlace(id) == CHOOSE i \in DOMAIN Listing : Listing[i] = id[1]
ListedBefore(a, b) ==
    \/ ListPlace(a) < ListPlace(b)
    \/ ListPlace(a) = ListPlace(b) /\ a[2] < b[2]
Members(bus) ==
    Ranked(bus.members, [id \in bus.members |->
        Cardinality({m \in bus.members : ListedBefore(m, id)})])

\* source_member_index
SourceIndex(members) ==
    LET measured == {i \in DOMAIN members : members[i][1] \in MeasuresPower}
    IN  IF measured = {} THEN 1 ELSE Min(measured)

\* _bus_path
BusPath(bus) ==
    LET members == Members(bus)
        from == SourceIndex(members)
        to == IF Len(members) = 2 THEN 3 - from ELSE Len(members)
    IN  [bus |-> bus.id, from |-> members[from], to |-> members[to]]

-----------------------------------------------------------------------------
\* The services of the drawings, each of the finished manifest and BOM.
DrawSheets ==
    /\ stage = "drawings"
    /\ sheets' = [oneLine |-> SiteOneLine, partial |-> PartialContainerNote,
                  network |-> SiteNetwork, container |-> ContainerNetwork,
                  coolant |-> CoolantLoops,
                  paths |-> {BusPath(bus) : bus \in buses}]
    /\ stage' = "done"
    /\ UNCHANGED <<order, site, options, release, devices, buses, counter, cables, hoses,
                   book, market, bom>>
=============================================================================
