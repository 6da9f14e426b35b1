----------------------------- MODULE CableHose ------------------------------
(***************************************************************************)
(* The cable and hose schedule, derived from the device manifest alone:    *)
(* the DTM seen as containers, then the power runs of the one-line, the    *)
(* management network and the coolant loops (cable_hose_schedule/).        *)
(*                                                                         *)
(* A run is [kind, from, to, port]; its kind names the cable or hose type, *)
(* its ends are tags, and port is that of a management switch, else 0.     *)
(***************************************************************************)
EXTENDS DtmGenerator

VARIABLES cables, hoses

scheduleVars == <<cables, hoses>>

NodeTemplates == {"gpu_node", "gpu_node_h100"}
DryCoolers == {"dc_external", "dc_external_dod"}
Switches == {"network_switch", "mgmt_switch"}
MgmtSwitches == {"mgmt_switch", "grid_mgmt_switch"}

CableKinds == {"feeder", "pcs_dc", "pdu_cord", "branch", "node_cord", "switch_cord",
               "copper", "fiber"}
HoseKinds == {"primary", "secondary"}

-----------------------------------------------------------------------------
(***************************************************************************)
(* The site index: modules in number order, and their children.            *)
(***************************************************************************)
Kind(template) ==
    CASE template \in ComputeModules -> "compute"
      [] template \in {"bess_module", "bess_module_dc"} -> "bess"
      [] template = "grid_module" -> "grid"
      [] OTHER -> "none"

\* _natural: C10 sorts after C9.  Mutated: tags sort as text (up to 99).
TextOrder(n) == IF n < 10 THEN 100 * n ELSE 100 * (n \div 10) + (n % 10) + 1
Natural(n) == n

\* The devices of S in the order of their ranks.
Ranked(S, rank) ==
    [i \in 1 .. Cardinality(S) |->
        CHOOSE d \in S : Cardinality({e \in S : rank[e] < rank[d]}) = i - 1]

Containers(kind) ==
    LET modules == {d \in devices : d.parent = None /\ Kind(d.template) = kind}
    IN  Ranked(modules, [d \in modules |-> Natural(d.tag[2])])

ChildrenOf(module) == {d \in devices : d.parent = module.id}
Of(module, templates) == {d \in ChildrenOf(module) : d.template \in templates}
\* The first child of these templates, in tag order.
One(module, templates) ==
    LET found == Of(module, templates)
    IN  IF found = {} THEN None
        ELSE CHOOSE d \in found : \A e \in found : d.tag[4] <= e.tag[4]
InTagOrder(S) == Ranked(S, [d \in S |-> d.tag[4]])

Run(kind, from, to) == [kind |-> kind, from |-> from.tag, to |-> to.tag, port |-> 0]

-----------------------------------------------------------------------------
(***************************************************************************)
(* power_cables.                                                           *)
(***************************************************************************)
\* From each switchboard to the panelboards its grid container feeds, taken
\* by their place among the compute containers.
FeederCables ==
    LET compute == Containers("compute")
        grids == Containers("grid")
        feeds == ComputeFeeds(Len(compute), Len(grids))
        swbd(k) == One(grids[k], {"lv_switchboard"})
        pnl(n) == One(compute[n], {"panelboard"})
    IN  UNION {{Run("feeder", swbd(k), pnl(n)) :
                    n \in {m \in feeds[k] : pnl(m) # None}} :
                  k \in {j \in DOMAIN grids : swbd(j) # None}}

PadCables ==
    UNION {{Run("pcs_dc", battery, pcs) : battery \in Of(pad, {"bess_catl"}),
                                          pcs \in Of(pad, {"pcs"})} :
              pad \in {d \in devices : d.parent = None /\ Kind(d.template) = "bess"}}

Path(module, side) == InTagOrder({d \in Of(module, {"pdu"}) : d.tag[3] = side})

\* Mutated: one server past the last PDU of a path stays on it.
NodeFeedUneven(path, i) == path[AtMost(i, Len(path))]
\* Servers take the PDUs of a path in turn.
NodeFeed(path, i) == path[1 + ((i - 1) % Len(path))]

BranchCables(module) ==
    LET pnl == One(module, {"panelboard"})
        nodes == InTagOrder(Of(module, NodeTemplates))
        paths == {Path(module, side) : side \in {"PDU-A", "PDU-B"}} \ {<<>>}
    IN  (IF pnl = None THEN {}
         ELSE {Run("pdu_cord", pnl, pdu) : pdu \in Of(module, {"pdu"})}
              \cup {Run("branch", pnl, load) : load \in Of(module, {"cdu"} \cup DryCoolers)})
        \cup {Run("node_cord", NodeFeed(path, i), nodes[i]) :
                 path \in paths, i \in DOMAIN nodes}
        \cup {Run("switch_cord", path[1], switch) :
                 path \in paths, switch \in Of(module, Switches)}

\* compute_feeds divides by the number of grid containers.
NoGrid == Containers("grid") = <<>>

-----------------------------------------------------------------------------
(***************************************************************************)
(* comms_cables.                                                           *)
(***************************************************************************)
G1 == IF NoGrid THEN None ELSE One(Containers("grid")[1], MgmtSwitches)
Modules == {d \in devices : d.parent = None /\ Kind(d.template) # "none"}
Polled(module) == {d \in ChildrenOf(module) : d.polled}
SwitchOf(module) ==
    IF Kind(module.template) = "bess" THEN G1 ELSE One(module, MgmtSwitches)

\* Tag order in a container: by name, then number.
Names == << "BESS", "CDU", "DC", "MTR-POI", "NODE", "PDU-A", "PDU-B", "RLY", "SW-DATA" >>
Order(d) ==
    LET name == IF d.tag[3] = Itself THEN "BESS" ELSE d.tag[3]
    IN  IF d.tag[1] = "PCS" THEN 100000 + d.tag[2]
        ELSE IF name = "MP" THEN d.tag[4]
        ELSE 100 * (CHOOSE i \in DOMAIN Names : Names[i] = name) + d.tag[4]

\* Mutated: the ports are counted container by container.
PortsBeforeOwn(module) == 0
\* Ports of its switch in use when the container's turn comes: the battery's
\* devices follow those of G1.
PortsBefore(module) ==
    IF Kind(module.template) = "bess"
    THEN Cardinality(Polled(Containers("grid")[1])) ELSE 0

PatchCables ==
    UNION {{[Run("copper", d, SwitchOf(module)) EXCEPT !.port =
                 PortsBefore(module)
                   + Cardinality({e \in Polled(module) : Order(e) <= Order(d)})] :
               d \in Polled(module)} : module \in {m \in Modules : SwitchOf(m) # None}}

EmsGateway == [tag |-> Tag("EMS-GW", 0, Itself, 0)]
Uplinks ==
    IF G1 = None THEN {}
    ELSE {Run("fiber", One(m, MgmtSwitches), G1) :
             m \in {n \in Modules : One(n, MgmtSwitches) \notin {None, G1}}}
         \cup {Run("copper", G1, EmsGateway)}

NowhereToPatch == \E m \in Modules : Polled(m) # {} /\ SwitchOf(m) = None

-----------------------------------------------------------------------------
(***************************************************************************)
(* hoses: the facility loop and the rack loop of each CDU.                 *)
(***************************************************************************)
Loops(cdu, cooler, nodes) ==
    (IF cooler = None THEN {} ELSE {Run("primary", cooler, cdu), Run("primary", cdu, cooler)})
    \cup UNION {{Run("secondary", cdu, node), Run("secondary", node, cdu)} : node \in nodes}

Hoses ==
    UNION {Loops(One(m, {"cdu"}), One(m, DryCoolers), Of(m, NodeTemplates)) :
              m \in {n \in Modules : One(n, {"cdu"}) # None}}

-----------------------------------------------------------------------------
Schedule ==
    /\ stage = "schedule"
    /\ ~NoGrid /\ ~NowhereToPatch
    /\ cables' = FeederCables \cup PadCables \cup PatchCables \cup Uplinks
                   \cup UNION {BranchCables(m) : m \in {n \in Modules : Kind(n.template) = "compute"}}
    /\ hoses' = Hoses
    /\ stage' = "bom"
    /\ UNCHANGED <<order, site, options, release, devices, buses, counter>>

\* ZeroDivisionError in compute_feeds, ValueError in comms_cables.
ScheduleFails ==
    /\ stage = "schedule"
    /\ NoGrid \/ NowhereToPatch
    /\ stage' = "failed"
    /\ UNCHANGED <<order, site, options, release, devices, buses, counter>>
    /\ UNCHANGED scheduleVars

\* Runs by cable or hose type, which the BOM takes for its field material.
RunsOfKind(kind) == {r \in cables \cup hoses : r.kind = kind}
=============================================================================
