---------------------------- MODULE SizingProofs ----------------------------
(***************************************************************************)
(* Theorems about Sizing for orders of any size: the containers hold       *)
(* exactly the servers sold, every one of them is fed once, the grid       *)
(* containers carry the site at their design load, and none of them is fed *)
(* beyond its nameplate.  The last two pull against each other: the count  *)
(* is of the whole site, the load of a grid container is of a slice of it, *)
(* and a slice is rounded up.  FedShare shows by how much at most.         *)
(***************************************************************************)
EXTENDS Sizing, FiniteSetTheorems, TLAPS

USE SizingAssumption
USE DEF GPUS_PER_NODE, NODES_PER_COMPUTE_CONTAINER, NODES_PER_PDU, Nameplate,
        DesignLoad, GpuVariants

\* What a ceiling division returns.
LEMMA CeilDivBounds ==
  ASSUME NEW a \in Nat, NEW b \in Nat \ {0}
  PROVE  /\ CeilDiv(a, b) \in Nat
         /\ a <= b * CeilDiv(a, b)
         /\ b * (CeilDiv(a, b) - 1) < a
BY DEF CeilDiv

LEMMA CeilDivLeast ==
  ASSUME NEW a \in Nat, NEW b \in Nat \ {0}, NEW c \in Nat, a <= b * c
  PROVE  CeilDiv(a, b) <= c
BY DEF CeilDiv

\* Dividing both sides of an inequality by a positive number.
LEMMA Cancel ==
  ASSUME NEW a \in Int, NEW b \in Int, NEW q \in Nat \ {0}, q * a < q * b
  PROVE  a < b
<1> SUFFICES ASSUME b <= a PROVE FALSE
  OBVIOUS
<1>1. PICK d \in Nat : a = b + d
  <2>1. a - b \in Nat /\ a = b + (a - b)
    OBVIOUS
  <2> QED
    BY <2>1
<1>2. q * a = q * b + q * d
  BY <1>1
<1>3. q * d >= 0
  BY <1>1
<1>4. q * a \in Int /\ q * b \in Int /\ q * d \in Int
  BY <1>1
<1> QED
  BY <1>2, <1>3, <1>4

\* Servers and compute containers of an order.
LEMMA ContainersHold ==
  ASSUME NEW o \in Orders
  PROVE  LET n == NodeCount(o.gpus)
             c == ComputeContainers(n)
         IN  /\ n \in Nat \ {0} /\ c \in Nat \ {0}
             /\ n <= 7 * c
             /\ 7 * (c - 1) < n
<1>1. o.gpus \in Nat \ {0}
  BY DEF Orders
<1> DEFINE n == NodeCount(o.gpus)
           c == ComputeContainers(n)
<1>2. n \in Nat /\ o.gpus <= 8 * n
  BY <1>1, CeilDivBounds DEF NodeCount
<1>3. n \in Nat \ {0}
  BY <1>1, <1>2
<1> HIDE DEF n
<1>4. c \in Nat /\ n <= 7 * c /\ 7 * (c - 1) < n
  BY <1>3, CeilDivBounds DEF ComputeContainers
<1>5. c # 0
  BY <1>3, <1>4
<1> QED
  BY <1>3, <1>4, <1>5 DEF n

\* Power drawn by a server and by the rest of its container.
LEMMA Power ==
  ASSUME NEW v \in GpuVariants
  PROVE  \/ v = "B200" /\ NodePower(v) = 1050 /\ Overhead(v) = 1250
         \/ v = "H100_SXM" /\ NodePower(v) = 794 /\ Overhead(v) = 1302
BY DEF NodePower, Overhead, ContainerPower, DryCoolerFan

\* The grid containers of an order.
LEMMA GridsCarry ==
  ASSUME NEW o \in Orders
  PROVE  LET peak == SitePeak(o.variant, NodeCount(o.gpus))
             g == GridContainers(peak)
         IN  /\ peak \in Nat \ {0} /\ g \in Nat \ {0}
             /\ peak <= g * DesignLoad
             /\ peak > (g - 1) * DesignLoad
<1> DEFINE n == NodeCount(o.gpus)
           peak == SitePeak(o.variant, n)
           g == GridContainers(peak)
<1>1. n \in Nat \ {0} /\ ComputeContainers(n) \in Nat \ {0}
  BY ContainersHold
<1>2. o.variant \in GpuVariants
  BY DEF Orders
<1> HIDE DEF n
<1>3. peak \in Nat \ {0}
  BY <1>1, <1>2, Power DEF SitePeak
<1> HIDE DEF peak
<1>4. g \in Nat /\ peak <= 80000 * g /\ 80000 * (g - 1) < peak
  BY <1>3, CeilDivBounds DEF GridContainers
<1> QED
  BY <1>3, <1>4 DEF peak, n

\* The share of a grid container: at most 10 of the B200 compute containers,
\* 12 of the H100 ones.
LEMMA FedShare ==
  ASSUME NEW o \in Orders
  PROVE  LET r == Resolution(o)
             most == IF o.variant = "B200" THEN 10 ELSE 12
         IN  /\ PerGrid(r.compute, r.grid) \in 1 .. most
             /\ r.compute <= r.grid * PerGrid(r.compute, r.grid)
<1> DEFINE n == NodeCount(o.gpus)
           c == ComputeContainers(n)
           peak == SitePeak(o.variant, n)
           g == GridContainers(peak)
           most == IF o.variant = "B200" THEN 10 ELSE 12
<1>1. n \in Nat \ {0} /\ c \in Nat \ {0} /\ 7 * (c - 1) < n
  BY ContainersHold
<1>2. g \in Nat \ {0} /\ peak <= g * 80000
  BY GridsCarry
<1>3. o.variant \in GpuVariants
  BY DEF Orders
<1>4. Resolution(o).compute = c /\ Resolution(o).grid = g
  BY DEF Resolution
<1>5. peak = n * NodePower(o.variant) + c * Overhead(o.variant)
  BY DEF SitePeak
<1> HIDE DEF n, c, peak, g
<1>6. c <= g * most
  <2>1. CASE o.variant = "B200"
    <3>1. peak = n * 1050 + c * 1250
      BY <1>3, <1>5, <2>1, Power
    <3> QED
      BY <1>1, <1>2, <2>1, <3>1
  <2>2. CASE o.variant = "H100_SXM"
    <3>1. peak = n * 794 + c * 1302
      BY <1>3, <1>5, <2>2, Power
    <3> QED
      BY <1>1, <1>2, <2>2, <3>1
  <2> QED
    BY <1>3, <2>1, <2>2
<1>7. PerGrid(c, g) <= most
  BY <1>1, <1>2, <1>6, CeilDivLeast DEF PerGrid
<1>8. /\ PerGrid(c, g) \in Nat
      /\ c <= g * PerGrid(c, g)
  BY <1>1, <1>2, CeilDivBounds DEF PerGrid
<1>9. PerGrid(c, g) # 0
  BY <1>1, <1>2, <1>8
<1> QED
  BY <1>4, <1>7, <1>8, <1>9

\* The containers an order is fed through: each slice is an interval of at
\* most PerGrid containers.
LEMMA Slice ==
  ASSUME NEW c \in Nat \ {0}, NEW g \in Nat \ {0}, NEW k \in 1 .. g,
         PerGrid(c, g) \in Nat \ {0}
  PROVE  LET fed == ComputeFeeds(c, g)[k]
         IN  /\ fed \subseteq 1 .. c
             /\ IsFiniteSet(fed)
             /\ Cardinality(fed) <= PerGrid(c, g)
<1> DEFINE q == PerGrid(c, g)
           fed == ComputeFeeds(c, g)[k]
<1>1. fed = {n \in 1 .. c : (k - 1) * q < n /\ n <= k * q}
  BY DEF ComputeFeeds
<1> HIDE DEF fed, q
<1>2. q \in Nat \ {0} /\ k \in Nat \ {0}
  BY DEF q
<1>3. (k - 1) * q + q = k * q /\ (k - 1) * q \in Int /\ k * q \in Int
  BY <1>2
<1> DEFINE S == (k - 1) * q + 1 .. k * q
<1>4. fed \subseteq S
  BY <1>1, <1>3
<1>5. IsFiniteSet(S) /\ Cardinality(S) = q
  <2> DEFINE a == (k - 1) * q + 1
             b == k * q
  <2>1. a \in Int /\ b \in Int /\ b - a + 1 = q /\ a <= b
    BY <1>2, <1>3
  <2> HIDE DEF a, b
  <2>2. IsFiniteSet(a .. b) /\ Cardinality(a .. b) = b - a + 1
    <3>1. a \in Int /\ b \in Int
      BY <2>1
    <3>2. /\ IsFiniteSet(a .. b)
          /\ Cardinality(a .. b) = IF a > b THEN 0 ELSE b - a + 1
      BY <3>1, FS_Interval
    <3> QED
      BY <2>1, <3>2
  <2> QED
    BY <2>1, <2>2 DEF a, b
<1> HIDE DEF S
<1>6. IsFiniteSet(fed) /\ Cardinality(fed) <= q
  BY <1>4, <1>5, FS_Subset
<1> QED
  BY <1>1, <1>6 DEF fed, q

\* Every container is in one slice, and only one.
LEMMA SliceOfContainer ==
  ASSUME NEW c \in Nat \ {0}, NEW g \in Nat \ {0}, NEW n \in 1 .. c,
         PerGrid(c, g) \in Nat \ {0}, c <= g * PerGrid(c, g)
  PROVE  Cardinality({k \in 1 .. g : n \in ComputeFeeds(c, g)[k]}) = 1
<1> DEFINE q == PerGrid(c, g)
           k0 == CeilDiv(n, q)
<1>0. q \in Nat \ {0} /\ n \in Nat
  OBVIOUS
<1>1. k0 \in Nat /\ n <= q * k0 /\ q * (k0 - 1) < n
  <2> HIDE DEF q
  <2> QED
    BY <1>0, CeilDivBounds
<1>2. k0 <= g
  <2>1. n <= q * g
    BY DEF q
  <2> QED
    BY <2>1, CeilDivLeast
<1> HIDE DEF k0
<1>3. k0 \in 1 .. g
  BY <1>1, <1>2
<1>4. ASSUME NEW k \in 1 .. g
      PROVE  n \in ComputeFeeds(c, g)[k] <=> (k - 1) * q < n /\ n <= k * q
  BY DEF ComputeFeeds
<1> HIDE DEF q
<1>q. q \in Nat \ {0}
  BY DEF q
<1>5. ASSUME NEW k \in 1 .. g
      PROVE  n \in ComputeFeeds(c, g)[k] <=> k = k0
  <2>1. CASE k = k0
    <3>1. (k - 1) * q = q * (k0 - 1) /\ k * q = q * k0
      BY <1>1, <1>q, <2>1
    <3> QED
      BY <1>1, <1>4, <2>1, <3>1
  <2>2. CASE k # k0
    <3> SUFFICES ASSUME (k - 1) * q < n, n <= k * q PROVE FALSE
      BY <1>4, <2>2
    <3>1. q * (k - 1) < q * k0
      <4>1. q * (k - 1) = (k - 1) * q /\ q * (k - 1) \in Int /\ q * k0 \in Int
        BY <1>1, <1>q
      <4> QED
        BY <1>1, <4>1
    <3>2. q * (k0 - 1) < q * k
      <4>1. q * k = k * q /\ q * (k0 - 1) \in Int /\ q * k \in Int
        BY <1>1, <1>q
      <4> QED
        BY <1>1, <4>1
    <3>3. k - 1 < k0 /\ k0 - 1 < k
      BY <1>1, <1>q, <3>1, <3>2, Cancel
    <3> QED
      BY <1>1, <2>2, <3>3
  <2> QED
    BY <2>1, <2>2
<1>6. {k \in 1 .. g : n \in ComputeFeeds(c, g)[k]} = {k0}
  BY <1>3, <1>5
<1> QED
  BY <1>6, FS_Singleton

-----------------------------------------------------------------------------
\* A site that is resolved is the resolution of its order.
IInv == order \in Orders /\ site \in {None, Resolution(order)}

\* IInv is an invariant of the specification.
THEOREM Resolved == Spec => []IInv
<1>1. Init => IInv
  BY DEF Init, IInv
<1>2. IInv /\ [Next]_vars => IInv'
  BY DEF IInv, Next, Resolve, vars
<1> QED
  BY <1>1, <1>2, PTL DEF Spec

\* Type correctness for orders of any size.
THEOREM TypeCorrect == Spec => []TypeOK
<1>1. IInv => TypeOK
  <2> SUFFICES ASSUME IInv, site # None PROVE TypeOK
    BY DEF IInv, TypeOK
  <2>1. order \in Orders /\ site = Resolution(order)
    BY DEF IInv
  <2>2. /\ site.nodes \in Nat \ {0} /\ site.compute \in Nat \ {0}
        /\ site.grid \in Nat \ {0}
    BY <2>1, ContainersHold, GridsCarry DEF Resolution
  <2>3. site.feeds = ComputeFeeds(site.compute, site.grid)
    BY <2>1 DEF Resolution
  <2> QED
    BY <2>1, <2>2, <2>3 DEF TypeOK, ComputeFeeds
<1> QED
  BY <1>1, Resolved, PTL

\* Every compute container is fed by exactly one grid container, whatever
\* the remainder of the division (compute_feeds).
THEOREM EachFedOnce == Spec => []FedOnce
<1>1. IInv => FedOnce
  <2> SUFFICES ASSUME IInv, site # None, NEW n \in 1 .. site.compute
               PROVE  Cardinality({k \in 1 .. site.grid : n \in site.feeds[k]}) = 1
    BY DEF FedOnce
  <2>1. order \in Orders /\ site = Resolution(order)
    BY DEF IInv
  <2>2. site.compute \in Nat \ {0} /\ site.grid \in Nat \ {0}
    BY <2>1, ContainersHold, GridsCarry DEF Resolution
  <2>3. /\ PerGrid(site.compute, site.grid) \in Nat \ {0}
        /\ site.compute <= site.grid * PerGrid(site.compute, site.grid)
    BY <2>1, FedShare
  <2>4. site.feeds = ComputeFeeds(site.compute, site.grid)
    BY <2>1 DEF Resolution
  <2> QED
    BY <2>2, <2>3, <2>4, SliceOfContainer
<1> QED
  BY <1>1, Resolved, PTL

\* The containers hold exactly the servers sold, none empty, with enough
\* PDUs left on either side (nodes_in_container, dropped_tags).
THEOREM NodesAreHeld == Spec => []ContainersHoldNodes
<1>1. IInv => ContainersHoldNodes
  <2> SUFFICES ASSUME IInv, site # None PROVE ContainersHoldNodes
    BY DEF ContainersHoldNodes
  <2> DEFINE m == site.nodes
             c == site.compute
  <2>1. m \in Nat \ {0} /\ c \in Nat \ {0} /\ m <= 7 * c /\ 7 * (c - 1) < m
    <3>1. order \in Orders /\ site = Resolution(order)
      BY DEF IInv
    <3> QED
      BY <3>1, ContainersHold DEF Resolution
  <2> HIDE DEF m, c
  <2>2. ASSUME NEW n \in 1 .. c PROVE NodesIn(m, n) \in 1 .. 7
    BY <2>1 DEF NodesIn, AtMost
  <2>3. ASSUME NEW h \in 1 .. 7 PROVE h <= 3 * PdusPerSide(h)
    BY CeilDivBounds DEF PdusPerSide
  <2>4. 7 * (c - 1) + NodesIn(m, c) = m
    BY <2>1 DEF NodesIn, AtMost
  <2> QED
    BY <2>2, <2>3, <2>4 DEF ContainersHoldNodes, m, c
<1> QED
  BY <1>1, Resolved, PTL

\* The grid containers together carry the site at their design load, and
\* one fewer would not (grid_container_count).
THEOREM SiteIsCarried == Spec => []SiteWithinDesignLoad
<1>1. IInv => SiteWithinDesignLoad
  <2> SUFFICES ASSUME IInv, site # None PROVE SiteWithinDesignLoad
    BY DEF SiteWithinDesignLoad
  <2>1. order \in Orders /\ site = Resolution(order)
    BY DEF IInv
  <2> QED
    BY <2>1, GridsCarry DEF Resolution, SiteWithinDesignLoad
<1> QED
  BY <1>1, Resolved, PTL

\* No grid container is fed beyond its 1000 kVA nameplate: at most 860 kW
\* for B200 and 823.2 kW for H100 (compute_feeds, grid_container_count).
THEOREM WithinNameplate == Spec => []FeedsWithinNameplate
<1>1. IInv => FeedsWithinNameplate
  <2> SUFFICES ASSUME IInv, site # None, NEW k \in 1 .. site.grid
               PROVE  FeedLoad(k) <= Nameplate
    BY DEF FeedsWithinNameplate
  <2> DEFINE c == site.compute
             g == site.grid
             q == PerGrid(c, g)
             fed == site.feeds[k]
             full == Cardinality(fed \ {c})
             P == NodePower(order.variant)
             H == Overhead(order.variant)
  <2>1. order \in Orders /\ site = Resolution(order)
    BY DEF IInv
  <2>2. c \in Nat \ {0} /\ g \in Nat \ {0}
    BY <2>1, ContainersHold, GridsCarry DEF Resolution
  <2>3. q \in 1 .. (IF order.variant = "B200" THEN 10 ELSE 12)
    BY <2>1, FedShare
  <2>4. IsFiniteSet(fed) /\ Cardinality(fed) <= q /\ Cardinality(fed) \in Nat
    <3>1. fed = ComputeFeeds(c, g)[k]
      BY <2>1 DEF Resolution
    <3>2. q \in Nat \ {0}
      BY <2>3
    <3>3. IsFiniteSet(fed) /\ Cardinality(fed) <= q
      BY <2>2, <3>1, <3>2, Slice
    <3> QED
      BY <3>3, FS_CardinalityType
  <2>5. full \in Nat /\ full = IF c \in fed THEN Cardinality(fed) - 1
                               ELSE Cardinality(fed)
    BY <2>4, FS_RemoveElement, FS_CardinalityType
  <2>6. NodesIn(site.nodes, c) \in Int /\ NodesIn(site.nodes, c) <= 7
    BY <2>1, <2>2, ContainersHold DEF Resolution, NodesIn, AtMost
  <2>7. order.variant \in GpuVariants
    BY <2>1 DEF Orders
  <2>8. FeedLoad(k) = IF fed = {} THEN 0
                      ELSE full * (7 * P + H)
                             + IF c \in fed THEN NodesIn(site.nodes, c) * P + H
                               ELSE 0
    BY DEF FeedLoad, Draw
  <2> HIDE DEF c, g, q, fed, full
  <2>9. full + (IF c \in fed THEN 1 ELSE 0) <= q
    BY <2>3, <2>4, <2>5
  <2>10. CASE order.variant = "B200"
    <3>1. P = 1050 /\ H = 1250
      BY <2>7, <2>10, Power
    <3> HIDE DEF P, H
    <3> QED
      BY <2>3, <2>5, <2>6, <2>8, <2>9, <2>10, <3>1
  <2>11. CASE order.variant = "H100_SXM"
    <3>1. P = 794 /\ H = 1302
      BY <2>7, <2>11, Power
    <3> HIDE DEF P, H
    <3> QED
      BY <2>3, <2>5, <2>6, <2>8, <2>9, <2>11, <3>1
  <2> QED
    BY <2>7, <2>10, <2>11
<1> QED
  BY <1>1, Resolved, PTL

=============================================================================
