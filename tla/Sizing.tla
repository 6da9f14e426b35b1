------------------------------- MODULE Sizing -------------------------------
(***************************************************************************)
(* From GPUs ordered to containers: how many servers and compute           *)
(* containers an order takes, what the site draws at peak, how many grid   *)
(* containers that needs, and which compute containers each of them feeds  *)
(* (compute_nodes.py, sizing_internals.py, compute_feeds.py, and           *)
(* ModuleResolverService, which resolves an order by them once).           *)
(*                                                                         *)
(* Power is in units of 10 W, in which every figure of the code is whole:  *)
(* 10.5 kW is 1050.  (Up to 60000 servers the floats of the code round to  *)
(* the same counts.)                                                       *)
(***************************************************************************)
EXTENDS Integers, FiniteSets

CONSTANTS MaxGpus,      \* bound on target_gpu_count
          None

ASSUME SizingAssumption == MaxGpus \in Nat \ {0}

GpuVariants == {"B200", "H100_SXM"}

GPUS_PER_NODE == 8
NODES_PER_COMPUTE_CONTAINER == 7
NODES_PER_PDU == 3

NodePower(v) == IF v = "B200" THEN 1050 ELSE 794
ContainerPower(v) == IF v = "B200" THEN 8000 ELSE 6260
DryCoolerFan == 600

\* GRD-XFM-001: 1000 kVA on the nameplate, loaded to 80% of it by design.
Nameplate == 100000
DesignLoad == 80000

\* math.ceil(a / b), for b > 0.
CeilDiv(a, b) == (a + b - 1) \div b
AtMost(a, b) == IF a <= b THEN a ELSE b

NodeCount(gpus) == CeilDiv(gpus, GPUS_PER_NODE)
\* Mutated: the remainder always gets a container of its own.
ComputeContainersPlusOne(nodes) == nodes \div NODES_PER_COMPUTE_CONTAINER + 1
ComputeContainers(nodes) == CeilDiv(nodes, NODES_PER_COMPUTE_CONTAINER)

\* Servers in container Cn: full, or what is left in the last.
NodesIn(nodes, n) ==
    AtMost(NODES_PER_COMPUTE_CONTAINER,
           nodes - NODES_PER_COMPUTE_CONTAINER * (n - 1))

\* PDUs a container of `held` servers keeps on each side.
PdusPerSide(held) == CeilDiv(held, NODES_PER_PDU)

\* Switches, CDU and PDUs of a container, whatever it holds, and its fans.
Overhead(v) ==
    ContainerPower(v) - NODES_PER_COMPUTE_CONTAINER * NodePower(v) + DryCoolerFan

SitePeak(v, nodes) ==
    nodes * NodePower(v) + ComputeContainers(nodes) * Overhead(v)

\* Mutated: one grid container per nameplate, without the 80%.
GridContainersByNameplate(peak) == CeilDiv(peak, Nameplate)
\* Mutated: rounded to the nearest count.
GridContainersRounded(peak) == (peak + DesignLoad \div 2) \div DesignLoad
GridContainers(peak) == CeilDiv(peak, DesignLoad)

\* Mutated: the share of a grid container is rounded down.
PerGridRoundedDown(compute, grid) == compute \div grid
PerGrid(compute, grid) == CeilDiv(compute, grid)

\* compute_feeds: grid container k feeds the next PerGrid in order; the
\* slices past the end are short or empty.
ComputeFeeds(compute, grid) ==
    [k \in 1 .. grid |->
        {n \in 1 .. compute : /\ (k - 1) * PerGrid(compute, grid) < n
                              /\ n <= k * PerGrid(compute, grid)}]

\* The container counts of ModuleResolverService.resolve, and the feeds that
\* the DTM, the cable schedule and the drawings derive from them.
Resolution(o) ==
    LET nodes == NodeCount(o.gpus)
        compute == ComputeContainers(nodes)
        grid == GridContainers(SitePeak(o.variant, nodes))
    IN  [nodes |-> nodes, compute |-> compute, grid |-> grid,
         feeds |-> ComputeFeeds(compute, grid)]

-----------------------------------------------------------------------------
VARIABLES order,    \* the gpu_variant and target_gpu_count ordered
          site      \* its ModuleResolution, or None

vars == <<order, site>>

Orders == [variant: GpuVariants, gpus: 1 .. MaxGpus]

TypeOK ==
    /\ order \in Orders
    /\ site # None =>
         /\ site.nodes \in Nat \ {0} /\ site.compute \in Nat \ {0}
         /\ site.grid \in Nat \ {0}
         /\ site.feeds \in [1 .. site.grid -> SUBSET (1 .. site.compute)]

Init == order \in Orders /\ site = None

Resolve ==
    /\ site = None
    /\ site' = Resolution(order)
    /\ UNCHANGED order

Next == Resolve

Spec == Init /\ [][Next]_vars

-----------------------------------------------------------------------------
(***************************************************************************)
(* Properties.                                                             *)
(***************************************************************************)
\* What one compute container draws, and all that grid container k feeds.
Draw(n) == NodesIn(site.nodes, n) * NodePower(order.variant)
             + Overhead(order.variant)
FeedLoad(k) ==
    IF site.feeds[k] = {} THEN 0
    ELSE LET full == Cardinality(site.feeds[k] \ {site.compute})
         IN  full * (NODES_PER_COMPUTE_CONTAINER * NodePower(order.variant)
                       + Overhead(order.variant))
               + IF site.compute \in site.feeds[k] THEN Draw(site.compute) ELSE 0

\* Every compute container hangs on exactly one grid container: the feeders,
\* LV buses and one-line diagrams built from the feeds leave none out and
\* wire none twice (compute_feeds, for any remainder of the division).
FedOnce ==
    site # None =>
        \A n \in 1 .. site.compute :
            Cardinality({k \in 1 .. site.grid : n \in site.feeds[k]}) = 1

\* The containers hold exactly the servers sold, none of them empty, and in
\* each the PDUs that stay can carry its servers on either side alone
\* (compute_nodes.py: nodes_in_container, dropped_tags).
ContainersHoldNodes ==
    site # None =>
        /\ \A n \in 1 .. site.compute :
             /\ NodesIn(site.nodes, n) \in 1 .. NODES_PER_COMPUTE_CONTAINER
             /\ NodesIn(site.nodes, n) <=
                  NODES_PER_PDU * PdusPerSide(NodesIn(site.nodes, n))
        /\ NODES_PER_COMPUTE_CONTAINER * (site.compute - 1)
             + NodesIn(site.nodes, site.compute) = site.nodes

\* The transformers of the site together carry its peak at their design
\* load, and one fewer would not (grid_container_count).
SiteWithinDesignLoad ==
    site # None =>
        LET peak == SitePeak(order.variant, site.nodes) IN
        /\ peak <= site.grid * DesignLoad
        /\ peak > (site.grid - 1) * DesignLoad

\* No transformer is fed beyond its 1000 kVA rating, uneven as the split may
\* be: the count comes from the whole site, the load from what each one is
\* fed (the promise of compute_feeds' docstring).
FeedsWithinNameplate ==
    site # None => \A k \in 1 .. site.grid : FeedLoad(k) <= Nameplate

\* sizing_internals.py: a transformer's continuous design load is 80% of its
\* nameplate, for it has no overhead margin in a closed container.
FeedsWithinDesignLoad ==
    site # None => \A k \in 1 .. site.grid : FeedLoad(k) <= DesignLoad
=============================================================================
