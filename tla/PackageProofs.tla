--------------------------- MODULE PackageProofs ----------------------------
(***************************************************************************)
(* Theorems about the artifacts of a package, for orders of any size: each *)
(* is derived on its own from the manifest, and the invariant of           *)
(* ManifestProofs says what they all read there.                           *)
(***************************************************************************)
EXTENDS ManifestProofs

-----------------------------------------------------------------------------
(***************************************************************************)
(* The site index of the schedule.                                         *)
(***************************************************************************)
\* What is numbered 1 to n by its ranks comes in that order.
Numbers(S, rank, n, f) ==
    /\ n \in Nat /\ DOMAIN f = 1 .. n /\ S = {f[i] : i \in 1 .. n}
    /\ \A i \in 1 .. n : rank[f[i]] = i

LEMMA RankedIs ==
  ASSUME NEW S, NEW rank, NEW n, NEW f, Numbers(S, rank, n, f)
  PROVE  Ranked(S, rank) = [i \in 1 .. n |-> f[i]]
<1> DEFINE Below(d) == {e \in S : rank[e] < rank[d]}
<1>0. /\ n \in Nat /\ DOMAIN f = 1 .. n /\ S = {f[i] : i \in 1 .. n}
      /\ \A i \in 1 .. n : rank[f[i]] = i
  BY DEF Numbers
<1>1. \A i, j \in 1 .. n : f[i] = f[j] => i = j
  <2>1. \A i, j \in 1 .. n : f[i] = f[j] => rank[f[i]] = rank[f[j]]
    OBVIOUS
  <2> QED
    BY <1>0, <2>1
<1>2. Cardinality(S) = n
  BY <1>0, <1>1, ListIsAsLong
<1>3. ASSUME NEW i \in 1 .. n
      PROVE  Cardinality(Below(f[i])) = i - 1
  <2> DEFINE g == [j \in 1 .. i - 1 |-> f[j]]
  <2>1. i - 1 \in Nat /\ \A j \in 1 .. i - 1 : j \in 1 .. n /\ j < i
    BY <1>0
  <2>2. \A j \in 1 .. n : j < i => j \in 1 .. i - 1
    BY <1>0
  <2>3. DOMAIN g = 1 .. i - 1 /\ \A j \in 1 .. i - 1 : g[j] = f[j]
    OBVIOUS
  <2> HIDE DEF g
  <2>4. Below(f[i]) = {g[j] : j \in 1 .. i - 1}
    <3>1. ASSUME NEW d \in Below(f[i])
          PROVE  \E j \in 1 .. i - 1 : d = g[j]
      <4>1. PICK j \in 1 .. n : d = f[j]
        BY <1>0
      <4>2. rank[d] = j /\ rank[f[i]] = i
        BY <1>0, <4>1
      <4>3. j < i
        BY <3>1, <4>2
      <4> QED
        BY <2>2, <2>3, <4>1, <4>3
    <3>2. ASSUME NEW j \in 1 .. i - 1
          PROVE  g[j] \in Below(f[i])
      <4>1. g[j] = f[j] /\ j \in 1 .. n /\ j < i
        BY <2>1, <2>3
      <4>2. f[j] \in S /\ rank[f[j]] = j /\ rank[f[i]] = i
        BY <1>0, <4>1
      <4> QED
        BY <4>1, <4>2
    <3> QED
      BY <3>1, <3>2
  <2>5. \A j, k \in 1 .. i - 1 : g[j] = g[k] => j = k
    BY <1>1, <2>1, <2>3
  <2> HIDE DEF Below
  <2> QED
    BY <2>1, <2>3, <2>4, <2>5, ListIsAsLong
<1>4. ASSUME NEW i \in 1 .. n
      PROVE  (CHOOSE d \in S : Cardinality(Below(d)) = i - 1) = f[i]
  <2>1. f[i] \in S /\ Cardinality(Below(f[i])) = i - 1
    BY <1>0, <1>3
  <2>2. ASSUME NEW d \in S, Cardinality(Below(d)) = i - 1
        PROVE  d = f[i]
    <3>1. PICK j \in 1 .. n : d = f[j]
      BY <1>0
    <3>2. Cardinality(Below(d)) = j - 1
      BY <1>3, <3>1
    <3>3. j = i
      BY <1>0, <2>2, <3>2
    <3> QED
      BY <3>1, <3>3
  <2> HIDE DEF Below
  <2> QED
    BY <2>1, <2>2
<1>5. Ranked(S, rank) = [i \in 1 .. n |-> CHOOSE d \in S : Cardinality(Below(d)) = i - 1]
  BY <1>2 DEF Ranked
<1> HIDE DEF Below
<1> QED
  BY <1>4, <1>5

\* Where a device of the site comes from.
IsModule(d) == \E box \in Boxes : \E no \in 1 .. counter[ModT(box)] : d = ModuleOf(box, no)
IsEntry(d) ==
    \E box \in Boxes : \E no \in 1 .. counter[ModT(box)] :
       \E e \in KeptEntries(box, no) : \E n \in 1 .. counter[e.template] :
          d = EntryDevice(box, no, e, n)
Placed(d) ==
    \/ IsModule(d) \/ IsEntry(d)
    \/ d = PadModule
    \/ d \in Pad /\ d.parent = PadModule.id
    \/ d \in Utility /\ d.template \in UtilityTemplates /\ d.parent = None

LEMMA DevicesPlaced ==
  ASSUME options \in Options, SiteInv
  PROVE  \A d \in devices : Placed(d)
<1> SUFFICES ASSUME NEW d \in devices PROVE Placed(d)
  OBVIOUS
<1>1. CASE d \in Boxed
  <2>1. PICK box \in Boxes : \E no \in 1 .. counter[ModT(box)] : Fits(d, box, no, counter)
    BY <1>1 DEF SiteInv, BoxInv, AllPlaced
  <2>2. PICK no \in 1 .. counter[ModT(box)] : Fits(d, box, no, counter)
    BY <2>1
  <2> QED
    BY <2>2 DEF Fits, Placed, IsModule, IsEntry
<1>2. CASE d \in Pad
  BY <1>2, PadDevices DEF Placed
<1>3. CASE d \in Utility
  BY <1>3, UtilityDevices DEF Placed
<1> QED
  BY <1>1, <1>2, <1>3 DEF SiteInv

\* The containers and what stays in them are devices of the site.
LEMMA PlacedAreDevices ==
  ASSUME options \in Options, SiteInv
  PROVE  /\ \A box \in Boxes : \A no \in 1 .. counter[ModT(box)] :
               /\ ModuleOf(box, no) \in devices
               /\ \A e \in KeptEntries(box, no) : \E n \in 1 .. counter[e.template] :
                     EntryDevice(box, no, e, n) \in devices
         /\ PadModule \in devices
         /\ counter \in [SlugNames -> Nat]
<1>1. Boxed \subseteq devices /\ Pad \subseteq devices
  BY DEF SiteInv
<1>2. AllBuilt(Boxed, counter) /\ counter \in [SlugNames -> Nat]
  BY DEF SiteInv, BoxInv
<1> QED
  BY <1>1, <1>2, PadDevices DEF AllBuilt

KindsAre ==
    /\ \A box \in Boxes : Kind(ModT(box)) = KindOf(box)
    /\ Kind(PadModule.template) = "bess"
    /\ \A t \in UtilityTemplates \cup LeafTemplates : Kind(t) = "none"

LEMMA KindsHold == KindsAre
<1>1. \A box \in Boxes : Kind(ModT(box)) = KindOf(box)
  <2>1. Kind(ModT("C")) = "compute" /\ Kind(ModT("G")) = "grid"
    <3>1. ModT("C") \in ComputeModules /\ ModT("G") = "grid_module"
      BY DEF ModT, ModuleTemplate, KindOf, ComputeModules
    <3> QED
      BY <3>1 DEF Kind, ComputeModules
  <2> QED
    BY <2>1 DEF KindOf, Boxes
<1>2. Kind(PadModule.template) = "bess"
  <2>1. PadModule.template \in {"bess_module", "bess_module_dc"}
    BY PadModuleFields
  <2> QED
    BY <2>1 DEF Kind, ComputeModules
<1>3. \A t \in UtilityTemplates \cup LeafTemplates : Kind(t) = "none"
  BY DEF Kind, ComputeModules, UtilityTemplates, LeafTemplates
<1> QED
  BY <1>1, <1>2, <1>3 DEF KindsAre

\* The modules of a kind, and what has no parent.
LEMMA ModulesAre ==
  ASSUME release \in Releases, options \in Options, SiteInv
  PROVE  /\ \A box \in Boxes :
               {d \in devices : d.parent = None /\ Kind(d.template) = KindOf(box)}
                 = {ModuleOf(box, no) : no \in 1 .. counter[ModT(box)]}
         /\ {d \in devices : d.parent = None /\ Kind(d.template) = "bess"} = {PadModule}
         /\ \A d \in devices : d.parent = None /\ Kind(d.template) # "none" =>
               IsModule(d) \/ d = PadModule
<1>1. \A box \in Boxes : \A no \in 1 .. counter[ModT(box)] : \A e, n :
         EntryDevice(box, no, e, n).parent # None
  <2>1. ASSUME NEW box \in Boxes, NEW no \in 1 .. counter[ModT(box)], NEW e, NEW n
        PROVE  EntryDevice(box, no, e, n).parent # None
    <3>1. EntryDevice(box, no, e, n).parent = <<ModT(box), no>>
      BY EntryFields
    <3>2. ModT(box) \in SlugNames /\ no \in Nat
      BY ModTIsIn, PlacedAreDevices
    <3>3. <<ModT(box), no>> \in SlugNames \X Nat
      BY <3>2
    <3> QED
      BY <3>1, <3>3, NoneAssumption
  <2> QED
    BY <2>1
<1>2. PadModule.id # None /\ PadModule.parent = None
  BY PadModuleFields, NoneAssumption
<1>3. \A d \in devices : d.parent = None =>
         \/ IsModule(d) \/ d = PadModule
         \/ d.template \in UtilityTemplates
  <2>1. \A d : IsEntry(d) => d.parent # None
    BY <1>1 DEF IsEntry
  <2> QED
    BY <1>2, <2>1, DevicesPlaced DEF Placed
<1>4. \A box \in Boxes : \A no : /\ ModuleOf(box, no).parent = None
                             /\ Kind(ModuleOf(box, no).template) = KindOf(box)
  BY ModuleFields, KindsHold DEF KindsAre
<1>5. KindOf("C") = "compute" /\ KindOf("G") = "grid"
  BY DEF KindOf
<1>6. ASSUME NEW box \in Boxes
      PROVE  {d \in devices : d.parent = None /\ Kind(d.template) = KindOf(box)}
               = {ModuleOf(box, no) : no \in 1 .. counter[ModT(box)]}
  <2>1. ASSUME NEW d \in devices, d.parent = None, Kind(d.template) = KindOf(box)
        PROVE  \E no \in 1 .. counter[ModT(box)] : d = ModuleOf(box, no)
    <3>1. d # PadModule /\ d.template \notin UtilityTemplates
      BY <1>5, <2>1, KindsHold DEF KindsAre, Boxes
    <3>2. PICK b \in Boxes : \E no \in 1 .. counter[ModT(b)] : d = ModuleOf(b, no)
      BY <1>3, <2>1, <3>1 DEF IsModule
    <3>3. b = box
      BY <1>4, <1>5, <2>1, <3>2 DEF Boxes
    <3> QED
      BY <3>2, <3>3
  <2>2. \A no \in 1 .. counter[ModT(box)] : ModuleOf(box, no) \in devices
    BY PlacedAreDevices
  <2> QED
    BY <1>4, <2>1, <2>2
<1>7. {d \in devices : d.parent = None /\ Kind(d.template) = "bess"} = {PadModule}
  <2>1. \A d : IsModule(d) => Kind(d.template) # "bess"
    BY <1>4, <1>5 DEF IsModule, Boxes
  <2>2. \A d : d.template \in UtilityTemplates => Kind(d.template) # "bess"
    BY KindsHold DEF KindsAre
  <2>3. PadModule \in devices /\ Kind(PadModule.template) = "bess"
    BY PlacedAreDevices, KindsHold DEF KindsAre
  <2> QED
    BY <1>2, <1>3, <2>1, <2>2, <2>3
<1>8. \A d : d.template \in UtilityTemplates => Kind(d.template) = "none"
  BY KindsHold DEF KindsAre
<1> QED
  BY <1>3, <1>6, <1>7, <1>8

LEMMA ContainersAre ==
  ASSUME release \in Releases, options \in Options, SiteInv
  PROVE  /\ Containers("compute") = [n \in 1 .. site.compute |-> ModuleOf("C", n)]
         /\ Containers("grid") = [k \in 1 .. Len(GridVariants) |-> ModuleOf("G", k)]
<1>1. ASSUME NEW box \in Boxes
      PROVE  Containers(KindOf(box)) = [no \in 1 .. counter[ModT(box)] |-> ModuleOf(box, no)]
  <2> DEFINE n == counter[ModT(box)]
             f == [no \in 1 .. n |-> ModuleOf(box, no)]
             S == {d \in devices : d.parent = None /\ Kind(d.template) = KindOf(box)}
             rank == [d \in S |-> Natural(d.tag[2])]
  <2>1. n \in Nat
    BY PlacedAreDevices, ModTIsIn
  <2>2. S = {ModuleOf(box, no) : no \in 1 .. n}
    BY ModulesAre
  <2>3. DOMAIN f = 1 .. n /\ \A no \in 1 .. n : f[no] = ModuleOf(box, no)
    OBVIOUS
  <2>4. \A d \in S : rank[d] = d.tag[2]
    BY DEF Natural
  <2>5. Containers(KindOf(box)) = Ranked(S, rank)
    BY DEF Containers
  <2> HIDE DEF S, n, rank
  <2>6. \A no \in 1 .. n : rank[f[no]] = no
    <3>1. \A no : ModuleOf(box, no).tag = <<box, no, Itself, 0>>
      BY ModuleFields
    <3>2. \A no : ModuleOf(box, no).tag[2] = no
      BY <3>1
    <3>3. \A no \in 1 .. n : ModuleOf(box, no) \in S
      BY <2>2
    <3> QED
      BY <2>3, <2>4, <3>2, <3>3
  <2> HIDE DEF f
  <2>7. S = {f[no] : no \in 1 .. n}
    BY <2>2, <2>3
  <2>8. Ranked(S, rank) = [no \in 1 .. n |-> f[no]]
    <3>1. Numbers(S, rank, n, f)
      BY <2>1, <2>3, <2>6, <2>7 DEF Numbers
    <3> QED
      BY <3>1, RankedIs
  <2>9. [no \in 1 .. n |-> f[no]] = [no \in 1 .. n |-> ModuleOf(box, no)]
    BY <2>3
  <2> QED
    BY <2>5, <2>8, <2>9 DEF n
<1>2. /\ KindOf("C") = "compute" /\ KindOf("G") = "grid" /\ ModT("G") = "grid_module"
  BY DEF KindOf, ModT, ModuleTemplate
<1>3. counter[ModT("C")] = site.compute /\ counter[ModT("G")] = Len(GridVariants)
  BY <1>2 DEF SiteInv
<1> QED
  BY <1>1, <1>2, <1>3 DEF Boxes

-----------------------------------------------------------------------------
(***************************************************************************)
(* The children of a container are its kept entries, found by their tags.  *)
(***************************************************************************)
Child(box, no, e) == CHOOSE d \in devices : d.tag = <<box, no, e.name, e.k>>
Holds(box, no) ==
    LET children == ChildrenOf(ModuleOf(box, no))
    IN  /\ \A e \in KeptEntries(box, no) :
              /\ Child(box, no, e) \in children
              /\ Child(box, no, e).tag = <<box, no, e.name, e.k>>
              /\ Child(box, no, e).template = e.template
              /\ Child(box, no, e).polled = e.polled
              /\ \E n \in Nat : Child(box, no, e).id = <<e.template, n>>
        /\ \A d \in children : \E e \in KeptEntries(box, no) : d = Child(box, no, e)

LEMMA ChildrenAre ==
  ASSUME ManifestInv, SiteInv, NEW box \in Boxes, NEW no \in 1 .. counter[ModT(box)]
  PROVE  Holds(box, no)
<1> DEFINE module == ModuleOf(box, no)
<1>0. release \in Releases /\ options \in Options
  BY DEF ManifestInv
<1>1. module.id = <<ModT(box), no>>
  BY ModuleFields
<1>2. TagsDiffer(devices)
  BY DevicesDiffer
<1>3. ASSUME NEW e \in KeptEntries(box, no)
      PROVE  /\ Child(box, no, e) \in ChildrenOf(module)
             /\ Child(box, no, e).tag = <<box, no, e.name, e.k>>
             /\ Child(box, no, e).template = e.template
             /\ Child(box, no, e).polled = e.polled
             /\ \E n \in Nat : Child(box, no, e).id = <<e.template, n>>
  <2>1. PICK n \in 1 .. counter[e.template] : EntryDevice(box, no, e, n) \in devices
    BY <1>0, <1>3, PlacedAreDevices
  <2> DEFINE d == EntryDevice(box, no, e, n)
  <2>2. /\ d.tag = <<box, no, e.name, e.k>> /\ d.template = e.template
        /\ d.polled = e.polled /\ d.parent = <<ModT(box), no>> /\ d.id = <<e.template, n>>
    BY EntryFields
  <2>3. n \in Nat
    <3>1. e.template \in SlugNames
      BY <1>0, KeptEntriesAre, LeavesAreNoModules DEF KeptAreEntries
    <3> QED
      BY <1>0, <3>1, PlacedAreDevices
  <2> HIDE DEF d
  <2>4. d \in devices
    BY <2>1 DEF d
  <2>5. Child(box, no, e) = d
    BY <1>2, <2>2, <2>4 DEF Child, TagsDiffer
  <2> HIDE DEF module
  <2>6. d \in ChildrenOf(module)
    BY <1>1, <2>2, <2>4 DEF ChildrenOf
  <2> QED
    BY <2>2, <2>3, <2>5, <2>6
<1>4. ASSUME NEW d \in ChildrenOf(module)
      PROVE  \E e \in KeptEntries(box, no) : d = Child(box, no, e)
  <2>1. d \in devices /\ d.parent = <<ModT(box), no>>
    BY <1>1 DEF ChildrenOf
  <2>2. ModT(box) \in SlugNames /\ ModT(box) \in ContainerTemplates /\ no \in Nat
    BY <1>0, ModTIsIn, PlacedAreDevices
  <2>3. d.parent # None
    <3>1. <<ModT(box), no>> \in SlugNames \X Nat
      BY <2>2
    <3> QED
      BY <2>1, <3>1, NoneAssumption
  <2>4. d.parent # PadModule.id
    <3>1. PadModule.id[1] \notin ContainerTemplates
      BY PadModuleFields DEF ContainerTemplates, ComputeModules
    <3>2. d.parent[1] = ModT(box)
      BY <2>1
    <3> QED
      BY <2>2, <3>1, <3>2
  <2>5. IsEntry(d)
    <3>1. ~IsModule(d) /\ d # PadModule
      BY <2>3, ModuleFields, PadModuleFields DEF IsModule
    <3> QED
      BY <1>0, <2>1, <2>3, <2>4, <3>1, DevicesPlaced DEF Placed
  <2>6. PICK b \in Boxes : \E m \in 1 .. counter[ModT(b)] :
           \E e \in KeptEntries(b, m) : \E n \in 1 .. counter[e.template] :
              d = EntryDevice(b, m, e, n)
    BY <2>5 DEF IsEntry
  <2>7. PICK m \in 1 .. counter[ModT(b)] :
           \E e \in KeptEntries(b, m) : \E n \in 1 .. counter[e.template] :
              d = EntryDevice(b, m, e, n)
    BY <2>6
  <2>8. PICK e \in KeptEntries(b, m) : \E n \in 1 .. counter[e.template] :
           d = EntryDevice(b, m, e, n)
    BY <2>7
  <2>9. PICK n \in 1 .. counter[e.template] : d = EntryDevice(b, m, e, n)
    BY <2>8
  <2>10. d.parent = <<ModT(b), m>> /\ d.tag = <<b, m, e.name, e.k>>
    BY <2>9, EntryFields
  <2>11. ModT(b) = ModT(box) /\ m = no
    BY <2>1, <2>10
  <2>12. b = box
    BY <2>11, ModTIsIn DEF Boxes
  <2>13. Child(box, no, e) = d
    BY <1>2, <2>1, <2>10, <2>11, <2>12 DEF Child, TagsDiffer
  <2> QED
    BY <2>8, <2>11, <2>12, <2>13
<1> QED
  BY <1>3, <1>4 DEF Holds

\* The one child of a template, and none.
LEMMA OneIs ==
  ASSUME ManifestInv, SiteInv, NEW box \in Boxes, NEW no \in 1 .. counter[ModT(box)],
         NEW T, NEW e \in KeptEntries(box, no), e.template \in T,
         \A f \in KeptEntries(box, no) : f.template \in T => f = e
  PROVE  One(ModuleOf(box, no), T) = Child(box, no, e)
<1> DEFINE c == Child(box, no, e)
           found == Of(ModuleOf(box, no), T)
<1>1. Holds(box, no)
  BY ChildrenAre
<1>2. found = {c}
  BY <1>1 DEF Holds, Of
<1>3. c.tag[4] \in Nat
  <2>1. c.tag = <<box, no, e.name, e.k>>
    BY <1>1 DEF Holds
  <2>2. e.k \in Nat
    BY KeptEntriesAre DEF KeptAreEntries, Entries, ManifestInv
  <2> HIDE DEF c
  <2> QED
    BY <2>1, <2>2
<1> HIDE DEF c, found
<1>4. (CHOOSE d \in found : \A f \in found : d.tag[4] <= f.tag[4]) = c
  BY <1>2, <1>3
<1> QED
  BY <1>2, <1>4 DEF One, c, found

LEMMA OneIsNone ==
  ASSUME ManifestInv, SiteInv, NEW box \in Boxes, NEW no \in 1 .. counter[ModT(box)],
         NEW T, \A f \in KeptEntries(box, no) : f.template \notin T
  PROVE  One(ModuleOf(box, no), T) = None
<1>1. Holds(box, no)
  BY ChildrenAre
<1>2. Of(ModuleOf(box, no), T) = {}
  BY <1>1 DEF Holds, Of
<1> QED
  BY <1>2 DEF One

-----------------------------------------------------------------------------
(***************************************************************************)
(* What a compute container keeps of its topology.                         *)
(***************************************************************************)
Held(no) == NodesIn(site.nodes, no)
Singles ==
    {Entry("RACK", 1, "rack", FALSE), Entry("PNL", 1, "panelboard", FALSE),
     Entry("CDU", 1, "cdu", TRUE), Entry("SW-DATA", 1, "network_switch", TRUE),
     Entry("SW-MGMT", 1, "mgmt_switch", FALSE), Entry("DC", 1, "dc_external", TRUE)}
ComputeKept(no) ==
    Singles \cup Many(Held(no), "NODE", NodeTemplate(order.variant))
    \cup Many(PdusPerSide(Held(no)), "PDU-A", "pdu")
    \cup Many(PdusPerSide(Held(no)), "PDU-B", "pdu")

\* A container holds 1 to 7 servers, and the PDUs it keeps carry them.
LEMMA HeldIs ==
  ASSUME order \in Orders, site = Resolution(order), NEW no \in 1 .. site.compute
  PROVE  /\ Held(no) \in 1 .. 7 /\ PdusPerSide(Held(no)) \in 1 .. 3
         /\ Held(no) <= 3 * PdusPerSide(Held(no))
<1>1. /\ site.nodes \in Nat \ {0} /\ site.compute \in Nat \ {0}
      /\ site.nodes <= 7 * site.compute /\ 7 * (site.compute - 1) < site.nodes
  BY SiteIsSized
<1>2. Held(no) \in 1 .. 7
  <2> DEFINE n == site.nodes
             c == site.compute
  <2>1. n \in Nat /\ c \in Nat /\ no \in 1 .. c /\ 7 * (c - 1) < n
    BY <1>1
  <2>2. Held(no) = IF 7 <= n - 7 * (no - 1) THEN 7 ELSE n - 7 * (no - 1)
    BY DEF Held, NodesIn, AtMost, NODES_PER_COMPUTE_CONTAINER
  <2> HIDE DEF n, c
  <2> QED
    BY <2>1, <2>2
<1>3. PdusPerSide(Held(no)) = (Held(no) + 2) \div 3
  <2>1. Held(no) + 3 - 1 = Held(no) + 2
    BY <1>2
  <2> QED
    BY <2>1 DEF PdusPerSide, CeilDiv, NODES_PER_PDU
<1> QED
  BY <1>2, <1>3

LEMMA ComputeKeptIs ==
  ASSUME order \in Orders, release \in Releases, site = Resolution(order),
         "compute" \in release.topology, NEW no \in 1 .. site.compute
  PROVE  KeptEntries("C", no) = ComputeKept(no)
<1> DEFINE h == Held(no)
           p == PdusPerSide(Held(no))
           t == NodeTemplate(order.variant)
           gone == DroppedTags(h)
<1>1. h \in 1 .. 7 /\ p \in 1 .. 3
  BY HeldIs
<1>2. KeptEntries("C", no) = {e \in ComputeEntries(order.variant) : <<e.name, e.k>> \notin gone}
  BY KeptInContainer DEF Drop, Held
<1>3. gone = {<<"NODE", i>> : i \in h + 1 .. 7}
               \cup {<<s, i>> : s \in {"PDU-A", "PDU-B"}, i \in p + 1 .. 3}
  <2>1. PdusPerSide(NODES_PER_COMPUTE_CONTAINER) = 3
    BY DEF PdusPerSide, CeilDiv, NODES_PER_COMPUTE_CONTAINER, NODES_PER_PDU
  <2> QED
    BY <2>1 DEF DroppedTags, NODES_PER_COMPUTE_CONTAINER
<1>4. ComputeEntries(order.variant) = Singles \cup Many(7, "NODE", t) \cup Many(3, "PDU-A", "pdu")
                                        \cup Many(3, "PDU-B", "pdu")
  BY DEF ComputeEntries, Singles, NODES_PER_COMPUTE_CONTAINER
<1>5. \A e \in Singles : e.name \in {"RACK", "PNL", "CDU", "SW-DATA", "SW-MGMT", "DC"}
  BY DEF Singles, Entry
<1> HIDE DEF h, p, t, gone
<1>8. \A e \in Singles : <<e.name, e.k>> \notin gone
  <2>1. ASSUME NEW e \in Singles PROVE <<e.name, e.k>> \notin gone
    <3>1. e.name \notin {"NODE", "PDU-A", "PDU-B"}
      BY <1>5
    <3>2. \A x \in gone : x[1] \in {"NODE", "PDU-A", "PDU-B"}
      BY <1>3
    <3> QED
      BY <3>1, <3>2
  <2> QED
    BY <2>1
<1>9. ASSUME NEW e \in Many(7, "NODE", t)
      PROVE  <<e.name, e.k>> \notin gone <=> e \in Many(h, "NODE", t)
  <2>1. PICK i \in 1 .. 7 : e = Entry("NODE", i, t, TRUE)
    BY DEF Many
  <2>2. e.name = "NODE" /\ e.k = i
    BY <2>1 DEF Entry
  <2>3. <<"NODE", i>> \in gone <=> i \in h + 1 .. 7
    BY <1>3
  <2>4. i \notin h + 1 .. 7 <=> i \in 1 .. h
    BY <1>1
  <2>5. i \in 1 .. h => e \in Many(h, "NODE", t)
    BY <2>1 DEF Many
  <2>6. e \in Many(h, "NODE", t) => i \in 1 .. h
    <3>1. ASSUME e \in Many(h, "NODE", t) PROVE i \in 1 .. h
      <4>1. PICK j \in 1 .. h : e = Entry("NODE", j, t, TRUE)
        BY <3>1 DEF Many
      <4> QED
        BY <2>2, <4>1 DEF Entry
    <3> QED
      BY <3>1
  <2> QED
    BY <2>2, <2>3, <2>4, <2>5, <2>6
<1>10. ASSUME NEW s \in {"PDU-A", "PDU-B"}, NEW e \in Many(3, s, "pdu")
       PROVE  <<e.name, e.k>> \notin gone <=> e \in Many(p, s, "pdu")
  <2>1. PICK i \in 1 .. 3 : e = Entry(s, i, "pdu", TRUE)
    BY DEF Many
  <2>2. e.name = s /\ e.k = i
    BY <2>1 DEF Entry
  <2>3. <<s, i>> \in gone <=> i \in p + 1 .. 3
    BY <1>3
  <2>4. i \notin p + 1 .. 3 <=> i \in 1 .. p
    BY <1>1
  <2>5. i \in 1 .. p => e \in Many(p, s, "pdu")
    BY <2>1 DEF Many
  <2>6. e \in Many(p, s, "pdu") => i \in 1 .. p
    <3>1. ASSUME e \in Many(p, s, "pdu") PROVE i \in 1 .. p
      <4>1. PICK j \in 1 .. p : e = Entry(s, j, "pdu", TRUE)
        BY <3>1 DEF Many
      <4> QED
        BY <2>2, <4>1 DEF Entry
    <3> QED
      BY <3>1
  <2> QED
    BY <2>2, <2>3, <2>4, <2>5, <2>6
<1>11. /\ Many(h, "NODE", t) \subseteq Many(7, "NODE", t)
       /\ \A s : Many(p, s, "pdu") \subseteq Many(3, s, "pdu")
  <2>1. \A i \in 1 .. h : i \in 1 .. 7
    BY <1>1
  <2>2. \A i \in 1 .. p : i \in 1 .. 3
    BY <1>1
  <2>3. Many(h, "NODE", t) \subseteq Many(7, "NODE", t)
    BY <2>1 DEF Many
  <2>4. \A s : Many(p, s, "pdu") \subseteq Many(3, s, "pdu")
    BY <2>2 DEF Many
  <2> QED
    BY <2>3, <2>4
<1>12. ComputeKept(no) = Singles \cup Many(h, "NODE", t) \cup Many(p, "PDU-A", "pdu")
                            \cup Many(p, "PDU-B", "pdu")
  BY DEF ComputeKept, h, p, t
<1> QED
  BY <1>2, <1>4, <1>8, <1>9, <1>10, <1>11, <1>12

\* Each equipment of a container, told by its template.
NodeE(i) == Entry("NODE", i, NodeTemplate(order.variant), TRUE)
PduE(side, i) == Entry(side, i, "pdu", TRUE)
Sides == {"PDU-A", "PDU-B"}
IsPdu(no, e) == \E s \in Sides : \E i \in 1 .. PdusPerSide(Held(no)) : e = PduE(s, i)

LEMMA SinglesAre ==
  ASSUME NEW no, NEW e \in ComputeKept(no)
  PROVE  /\ e.template = "panelboard" => e = Entry("PNL", 1, "panelboard", FALSE)
         /\ e.template = "cdu" => e = Entry("CDU", 1, "cdu", TRUE)
         /\ e.template = "mgmt_switch" => e = Entry("SW-MGMT", 1, "mgmt_switch", FALSE)
         /\ e.template \in DryCoolers => e = Entry("DC", 1, "dc_external", TRUE)
         /\ e.template \in NodeTemplates => \E i \in 1 .. Held(no) : e = NodeE(i)
         /\ e.template = "pdu" => IsPdu(no, e)
<1> DEFINE t == NodeTemplate(order.variant)
<1>1. t \in NodeTemplates
  BY DEF NodeTemplate, NodeTemplates
<1>2. CASE e \in Singles
  BY <1>2 DEF Singles, Entry, NodeTemplates, DryCoolers
<1>3. CASE \E i \in 1 .. Held(no) : e = NodeE(i)
  <2>1. PICK i \in 1 .. Held(no) : e = NodeE(i)
    BY <1>3
  <2>2. e.template \in {"gpu_node", "gpu_node_h100"}
    BY <1>1, <2>1 DEF NodeE, Entry, NodeTemplates
  <2> QED
    BY <1>3, <2>2 DEF NodeTemplates, DryCoolers
<1>4. CASE \E s \in Sides : \E i \in 1 .. PdusPerSide(Held(no)) : e = PduE(s, i)
  <2>1. e.template = "pdu"
    BY <1>4 DEF PduE, Entry
  <2> QED
    BY <1>4, <2>1 DEF NodeTemplates, DryCoolers, IsPdu
<1> QED
  BY <1>2, <1>3, <1>4 DEF ComputeKept, Many, NodeE, PduE, Sides, IsPdu

-----------------------------------------------------------------------------
(***************************************************************************)
(* The schedule is derived once, from the manifest.                        *)
(***************************************************************************)
ComputeCables == UNION {BranchCables(m) : m \in {n \in Modules : Kind(n.template) = "compute"}}
CablesNow == FeederCables \cup PadCables \cup PatchCables \cup Uplinks \cup ComputeCables

Scheduled == {"bom", "offers", "drawings", "done"}
ScheduleInv ==
    /\ stage \in {"order", "emit", "schedule"} => cables = {} /\ hoses = {}
    /\ stage \in Scheduled =>
          ~NoGrid /\ ~NowhereToPatch /\ cables = CablesNow /\ hoses = Hoses
    /\ stage = "failed" => \/ cables = {} /\ hoses = {}
                           \/ cables = CablesNow /\ hoses = Hoses

LEMMA SameSchedule ==
  ASSUME UNCHANGED devices
  PROVE  /\ CablesNow' = CablesNow /\ Hoses' = Hoses
         /\ NoGrid' = NoGrid /\ NowhereToPatch' = NowhereToPatch
<1>1. \A kind : Containers(kind)' = Containers(kind)
  BY DEF Containers
<1>2. \A m : ChildrenOf(m)' = ChildrenOf(m)
  BY DEF ChildrenOf
<1>3. \A m, T : Of(m, T)' = Of(m, T)
  BY <1>2 DEF Of
<1>4. \A m, T : One(m, T)' = One(m, T)
  <2> SUFFICES ASSUME NEW m, NEW T PROVE One(m, T)' = One(m, T)
    OBVIOUS
  <2> DEFINE found == Of(m, T)
  <2>1. found' = found
    BY <1>3
  <2>2. One(m, T) = IF found = {} THEN None
                    ELSE CHOOSE d \in found : \A e \in found : d.tag[4] <= e.tag[4]
    BY DEF One
  <2>3. One(m, T)' = IF found' = {} THEN None
                     ELSE CHOOSE d \in found' : \A e \in found' : d.tag[4] <= e.tag[4]
    BY DEF One
  <2> HIDE DEF found
  <2> QED
    BY <2>1, <2>2, <2>3
<1>5. NoGrid' = NoGrid /\ Modules' = Modules
  BY <1>1 DEF NoGrid, Modules
<1>6. G1' = G1
  BY <1>1, <1>4, <1>5 DEF G1
<1>7. \A m : Polled(m)' = Polled(m) /\ SwitchOf(m)' = SwitchOf(m)
  BY <1>2, <1>4, <1>6 DEF Polled, SwitchOf
<1>8. \A m, s : Path(m, s)' = Path(m, s)
  BY <1>3 DEF Path
<1>9. FeederCables' = FeederCables
  <2> DEFINE compute == Containers("compute")
             grids == Containers("grid")
             feeds == ComputeFeeds(Len(compute), Len(grids))
  <2>1. compute' = compute /\ grids' = grids /\ feeds' = feeds
    BY <1>1
  <2> HIDE DEF compute, grids, feeds
  <2>2. FeederCables = UNION {{Run("feeder", One(grids[k], {"lv_switchboard"}),
                                    One(compute[n], {"panelboard"})) :
                                 n \in {m \in feeds[k] : One(compute[m], {"panelboard"}) # None}} :
                               k \in {j \in DOMAIN grids : One(grids[j], {"lv_switchboard"}) # None}}
    BY DEF FeederCables, compute, grids, feeds
  <2> DEFINE swbd(k) == One(grids[k], {"lv_switchboard"})
             pnl(n) == One(compute[n], {"panelboard"})
  <2>3. \A k : swbd(k)' = swbd(k) /\ pnl(k)' = pnl(k)
    BY <1>4, <2>1
  <2>4. FeederCables = UNION {{Run("feeder", swbd(k), pnl(n)) : n \in {m \in feeds[k] : pnl(m) # None}} :
                               k \in {j \in DOMAIN grids : swbd(j) # None}}
    BY <2>2
  <2>5. FeederCables' = UNION {{Run("feeder", swbd(k)', pnl(n)') :
                                  n \in {m \in feeds'[k] : pnl(m)' # None}} :
                                k \in {j \in DOMAIN grids' : swbd(j)' # None}}
    BY DEF FeederCables, compute, grids, feeds
  <2> HIDE DEF swbd, pnl
  <2> QED
    BY <2>1, <2>3, <2>4, <2>5
<1>10. PadCables' = PadCables
  BY <1>3 DEF PadCables
<1>11. \A m : BranchCables(m)' = BranchCables(m)
  <2> SUFFICES ASSUME NEW m PROVE BranchCables(m)' = BranchCables(m)
    OBVIOUS
  <2> DEFINE pnl == One(m, {"panelboard"})
             nodes == InTagOrder(Of(m, NodeTemplates))
             paths == {Path(m, side) : side \in {"PDU-A", "PDU-B"}} \ {<<>>}
             pdus == Of(m, {"pdu"})
             loads == Of(m, {"cdu"} \cup DryCoolers)
             switches == Of(m, Switches)
  <2>1. /\ pnl' = pnl /\ nodes' = nodes /\ paths' = paths
        /\ pdus' = pdus /\ loads' = loads /\ switches' = switches
    BY <1>3, <1>4, <1>8
  <2>2. BranchCables(m) =
           (IF pnl = None THEN {}
            ELSE {Run("pdu_cord", pnl, pdu) : pdu \in pdus}
                 \cup {Run("branch", pnl, load) : load \in loads})
           \cup {Run("node_cord", NodeFeed(path, i), nodes[i]) : path \in paths, i \in DOMAIN nodes}
           \cup {Run("switch_cord", path[1], switch) : path \in paths, switch \in switches}
    BY DEF BranchCables
  <2>3. BranchCables(m)' =
           (IF pnl' = None THEN {}
            ELSE {Run("pdu_cord", pnl', pdu) : pdu \in pdus'}
                 \cup {Run("branch", pnl', load) : load \in loads'})
           \cup {Run("node_cord", NodeFeed(path, i), nodes'[i]) : path \in paths', i \in DOMAIN nodes'}
           \cup {Run("switch_cord", path[1], switch) : path \in paths', switch \in switches'}
    BY DEF BranchCables
  <2> HIDE DEF pnl, nodes, paths, pdus, loads, switches
  <2> QED
    BY <2>1, <2>2, <2>3
<1>12. ComputeCables' = ComputeCables
  BY <1>5, <1>11 DEF ComputeCables
<1>13. \A m : PortsBefore(m)' = PortsBefore(m)
  BY <1>1, <1>7 DEF PortsBefore
<1>14. PatchCables' = PatchCables
  <2> DEFINE patch(m, d) ==
               [Run("copper", d, SwitchOf(m)) EXCEPT !.port =
                   PortsBefore(m) + Cardinality({e \in Polled(m) : Order(e) <= Order(d)})]
             patches(m) == {patch(m, d) : d \in Polled(m)}
             patched == {m \in Modules : SwitchOf(m) # None}
  <2>1. \A m, d : patch(m, d)' = patch(m, d)
    BY <1>7, <1>13
  <2>2. patched' = patched
    BY <1>5, <1>7
  <2>3. PatchCables = UNION {{patch(m, d) : d \in Polled(m)} : m \in patched}
    BY DEF PatchCables
  <2>4. PatchCables' = UNION {{patch(m, d)' : d \in Polled(m)'} : m \in patched'}
    BY DEF PatchCables
  <2> HIDE DEF patch, patched
  <2> QED
    BY <1>7, <2>1, <2>2, <2>3, <2>4
<1>15. Uplinks' = Uplinks
  BY <1>4, <1>5, <1>6 DEF Uplinks
<1>16. NowhereToPatch' = NowhereToPatch
  BY <1>5, <1>7 DEF NowhereToPatch
<1>17. Hoses' = Hoses
  BY <1>3, <1>4, <1>5 DEF Hoses
<1> QED
  BY <1>5, <1>9, <1>10, <1>12, <1>14, <1>15, <1>16, <1>17 DEF CablesNow

LEMMA InitSchedule == PkgInit => ScheduleInv
BY DEF PkgInit, DtmInit, ScheduleInv, Scheduled

LEMMA StepSchedule == ManifestInv /\ ScheduleInv /\ [PkgNext]_pkgVars => ScheduleInv'
<1> SUFFICES ASSUME ManifestInv, ScheduleInv, [PkgNext]_pkgVars PROVE ScheduleInv'
  OBVIOUS
<1>1. CASE /\ stage \in {"order", "emit"} /\ stage' \in {"emit", "schedule", "failed"}
           /\ UNCHANGED <<cables, hoses>>
  BY <1>1 DEF ScheduleInv, Scheduled
<1>2. CASE Schedule
  <2>1. /\ stage' = "bom" /\ cables' = CablesNow /\ hoses' = Hoses
        /\ ~NoGrid /\ ~NowhereToPatch /\ UNCHANGED devices
    BY <1>2 DEF Schedule, CablesNow, ComputeCables
  <2> QED
    BY <2>1, SameSchedule DEF ScheduleInv, Scheduled
<1>3. CASE ScheduleFails
  BY <1>3 DEF ScheduleFails, scheduleVars, ScheduleInv, Scheduled
<1>4. CASE /\ stage \in Scheduled /\ stage' \in Scheduled \cup {"failed"}
           /\ UNCHANGED <<devices, cables, hoses>>
  BY <1>4, SameSchedule DEF ScheduleInv, Scheduled
<1>5. CASE UNCHANGED pkgVars
  BY <1>5, SameSchedule DEF ScheduleInv, pkgVars
<1>6. ASSUME Take \/ EmitCompute \/ EmitGrid \/ EmitSite \/ GenerateFails, UNCHANGED <<cables, hoses>>
      PROVE  /\ stage \in {"order", "emit"} /\ stage' \in {"emit", "schedule", "failed"}
             /\ UNCHANGED <<cables, hoses>>
  BY <1>6 DEF Take, EmitCompute, EmitGrid, EmitSite, ContainersOut, GenerateFails
<1>7. ASSUME GenerateBom \/ BomFails \/ AttachOffers \/ DrawSheets
      PROVE  /\ stage \in Scheduled /\ stage' \in Scheduled \cup {"failed"}
             /\ UNCHANGED <<devices, cables, hoses>>
  BY <1>7 DEF GenerateBom, BomFails, AttachOffers, DrawSheets, Scheduled
<1> QED
  BY <1>1, <1>2, <1>3, <1>4, <1>5, <1>6, <1>7 DEF PkgNext, Generate

-----------------------------------------------------------------------------
(***************************************************************************)
(* The feeders.                                                            *)
(***************************************************************************)
\* What a site with a schedule has: a grid container of each number, unless
\* the release lacks the primary, when it has none and no schedule.
LEMMA ScheduledSite ==
  ASSUME ManifestInv, ScheduleInv, stage \in Scheduled
  PROVE  /\ order \in Orders /\ release \in Releases /\ options \in Options
         /\ site = Resolution(order) /\ SiteInv
         /\ site.compute \in Nat \ {0} /\ site.grid \in Nat \ {0}
         /\ site.feeds = ComputeFeeds(site.compute, site.grid)
         /\ Len(GridVariants) \in Nat \ {0}
         /\ Complete => release.primary /\ Len(GridVariants) = site.grid
<1>1. /\ order \in Orders /\ release \in Releases /\ options \in Options
      /\ site = Resolution(order) /\ SiteInv
  BY DEF ManifestInv, Scheduled, Manifested
<1>2. /\ site.compute \in Nat \ {0} /\ site.grid \in Nat \ {0}
      /\ site.feeds = ComputeFeeds(site.compute, site.grid)
  BY <1>1, SiteIsSized
<1>3. Len(GridVariants) = IF release.primary THEN site.grid ELSE site.grid - 1
  BY <1>1, <1>2, GridVariantsAre
<1>4. Len(GridVariants) # 0
  <2>1. Containers("grid") # <<>>
    BY DEF ScheduleInv, NoGrid
  <2>2. Containers("grid") = [k \in 1 .. Len(GridVariants) |-> ModuleOf("G", k)]
    BY <1>1, ContainersAre
  <2> SUFFICES ASSUME Len(GridVariants) = 0 PROVE FALSE
    OBVIOUS
  <2>3. [k \in 1 .. 0 |-> ModuleOf("G", k)] = <<>>
    OBVIOUS
  <2> QED
    BY <2>1, <2>2, <2>3
<1>5. ASSUME Complete, ~release.primary PROVE FALSE
  <2>1. counter["lv_switchboard"] = site.grid - 1
    BY <1>1, <1>3, <1>5 DEF SiteInv, GridNumbered
  <2>2. counter["lv_switchboard"] # 0
    BY <1>3, <1>4, <1>5, <2>1
  <2>3. counter["lv_switchboard"] = site.grid
    BY <1>1, <2>2 DEF SiteInv, ZipFails
  <2> QED
    BY <1>2, <2>1, <2>3
<1> QED
  BY <1>1, <1>2, <1>3, <1>4, <1>5

RunFields == 
  \A kind, from, to : /\ Run(kind, from, to).kind = kind /\ Run(kind, from, to).port = 0
                      /\ Run(kind, from, to).from = from.tag /\ Run(kind, from, to).to = to.tag
LEMMA RunIs == RunFields
BY DEF RunFields, Run

\* Runs are of the kind of the rule that pulls them.
LEMMA CableKindsAre ==
  /\ \A r \in FeederCables : r.kind = "feeder"
  /\ \A r \in PadCables : r.kind = "pcs_dc"
  /\ \A m : \A r \in BranchCables(m) : r.kind \in {"pdu_cord", "branch", "node_cord", "switch_cord"}
  /\ \A r \in PatchCables : r.kind = "copper"
  /\ \A r \in Uplinks : r.kind \in {"fiber", "copper"}
<1>1. \A r \in FeederCables : r.kind = "feeder"
  BY RunIs DEF FeederCables, RunFields
<1>2. \A r \in PadCables : r.kind = "pcs_dc"
  BY RunIs DEF PadCables, RunFields
<1>3. \A m : \A r \in BranchCables(m) : r.kind \in {"pdu_cord", "branch", "node_cord", "switch_cord"}
  BY RunIs DEF BranchCables, RunFields
<1>4. \A r \in PatchCables : r.kind = "copper"
  <2>1. ASSUME NEW r \in PatchCables
        PROVE  r.kind = "copper"
    <3>1. PICK m \in Modules : \E d \in Polled(m) :
             r = [Run("copper", d, SwitchOf(m)) EXCEPT !.port =
                    PortsBefore(m) + Cardinality({e \in Polled(m) : Order(e) <= Order(d)})]
      BY <2>1 DEF PatchCables
    <3> QED
      BY <3>1 DEF Run
  <2> QED
    BY <2>1
<1>5. \A r \in Uplinks : r.kind \in {"fiber", "copper"}
  BY RunIs DEF Uplinks, RunFields
<1> QED
  BY <1>1, <1>2, <1>3, <1>4, <1>5

-----------------------------------------------------------------------------
(***************************************************************************)
(* The devices are typed, and those with a parent are children of modules. *)
(***************************************************************************)
ModuleIds(D) == {m.id : m \in {e \in D : e.parent = None}}

LEMMA BoxedTyped ==
  ASSUME release \in Releases, NEW D, NEW c, BoxInv(D, c)
  PROVE  \A d \in D : d \in Devices /\ (d.parent # None => d.parent \in ModuleIds(D))
<1> SUFFICES ASSUME NEW d \in D
             PROVE  d \in Devices /\ (d.parent # None => d.parent \in ModuleIds(D))
  OBVIOUS
<1>1. PICK box \in Boxes : \E no \in 1 .. c[ModT(box)] : Fits(d, box, no, c)
  BY DEF BoxInv, AllPlaced
<1>2. PICK no \in 1 .. c[ModT(box)] : Fits(d, box, no, c)
  BY <1>1
<1>3. /\ ModT(box) \in SlugNames /\ no \in Nat /\ box \in TagWords
      /\ Itself \in TagWords /\ EntryNames \subseteq TagWords
  <2>1. ModT(box) \in SlugNames
    BY ModTIsIn
  <2>2. c[ModT(box)] \in Nat
    BY <2>1 DEF BoxInv
  <2>3. Boxes \subseteq TagWords /\ Itself \in TagWords /\ EntryNames \subseteq TagWords
    BY DEF Boxes, TagWords
  <2> QED
    BY <2>1, <2>2, <2>3
<1>4. <<ModT(box), no>> \in SlugNames \X Nat
  BY <1>3
<1>5. CASE d = ModuleOf(box, no)
  <2>1. Tag(box, no, Itself, 0) \in TagWords \X Nat \X TagWords \X Nat
    BY <1>3 DEF Tag
  <2>2. d \in Devices
    BY <1>3, <1>4, <1>5, <2>1 DEF ModuleOf, Device, Devices
  <2> QED
    BY <1>5, <2>2, ModuleFields
<1>6. CASE \E e \in KeptEntries(box, no) : \E n \in 1 .. c[e.template] : d = EntryDevice(box, no, e, n)
  <2>1. PICK e \in KeptEntries(box, no) : \E n \in 1 .. c[e.template] : d = EntryDevice(box, no, e, n)
    BY <1>6
  <2>2. PICK n \in 1 .. c[e.template] : d = EntryDevice(box, no, e, n)
    BY <2>1
  <2>3. e \in Entries
    BY KeptEntriesAre DEF KeptAreEntries
  <2>4. /\ e.name \in EntryNames /\ e.k \in Nat /\ e.template \in SlugNames
        /\ e.polled \in BOOLEAN
    BY <2>3, LeavesAreNoModules DEF Entries
  <2>5. n \in Nat
    BY <2>4 DEF BoxInv
  <2>6. Tag(box, no, e.name, e.k) \in TagWords \X Nat \X TagWords \X Nat
    BY <1>3, <2>4 DEF Tag
  <2>7. <<e.template, n>> \in SlugNames \X Nat
    BY <2>4, <2>5
  <2>8. d \in Devices
    BY <1>4, <2>2, <2>4, <2>6, <2>7 DEF EntryDevice, Device, Devices
  <2>9. d.parent \in ModuleIds(D)
    <3>1. d.parent = <<ModT(box), no>>
      BY <2>2, EntryFields
    <3>2. /\ ModuleOf(box, no) \in D
          /\ ModuleOf(box, no).parent = None /\ ModuleOf(box, no).id = <<ModT(box), no>>
      BY ModuleFields DEF BoxInv, AllBuilt
    <3> QED
      BY <3>1, <3>2 DEF ModuleIds
  <2> QED
    BY <2>8, <2>9
<1> QED
  BY <1>2, <1>5, <1>6 DEF Fits

LEMMA PadTyped ==
  ASSUME options \in Options
  PROVE  \A d \in Pad \cup Utility :
            d \in Devices /\ (d.parent # None => d.parent \in ModuleIds(Pad))
<1>1. PadModule \in Devices
  <2>1. PadModule.id \in SlugNames \X Nat
    BY PadModuleFields
  <2>2. Tag("BESS", 0, Itself, 0) \in TagWords \X Nat \X TagWords \X Nat
    BY DEF Tag, TagWords
  <2>3. PadModule.template \in SlugNames
    BY PadModuleFields DEF SlugNames, Templates
  <2> QED
    BY <2>1, <2>2, <2>3 DEF PadModule, Device, Devices
<1>2. ASSUME NEW t \in {"bess_rack", "bess_catl", "pcs"}, NEW n \in Nat,
             NEW tag \in TagWords \X Nat \X TagWords \X Nat
      PROVE  PadLeaf(t, n, tag) \in Devices
  <2>1. t \in SlugNames
    BY DEF SlugNames, Templates
  <2>2. <<t, n>> \in SlugNames \X Nat
    BY <2>1
  <2>3. PadModule.id \in SlugNames \X Nat
    BY PadModuleFields
  <2> QED
    BY <2>1, <2>2, <2>3 DEF PadLeaf, Device, Devices
<1>3. ASSUME NEW n \in Nat
      PROVE  PadRack(n) \in Devices /\ PadPcs(n) \in Devices /\ PadCatl \in Devices
  <2>1. /\ Tag("BESS", 1, "MP", n) \in TagWords \X Nat \X TagWords \X Nat
        /\ Tag("PCS", n, Itself, 0) \in TagWords \X Nat \X TagWords \X Nat
        /\ Tag("BESS", 1, Itself, 0) \in TagWords \X Nat \X TagWords \X Nat
    BY DEF Tag, TagWords
  <2> QED
    BY <1>2, <2>1 DEF PadRack, PadPcs, PadCatl
<1>4. \A d \in Pad : d \in Devices
  BY <1>1, <1>3, PadIs
<1>5. \A d \in Utility : d \in Devices
  <2>1. ASSUME NEW t \in UtilityTemplates
        PROVE  Device(<<t, 0>>, Tag(t, 0, Itself, 0), t, None, FALSE) \in Devices
    <3>1. t \in SlugNames /\ t \in TagWords /\ Itself \in TagWords
      BY DEF UtilityTemplates, SlugNames, Templates, TagWords
    <3>2. <<t, 0>> \in SlugNames \X Nat /\ Tag(t, 0, Itself, 0) \in TagWords \X Nat \X TagWords \X Nat
      BY <3>1 DEF Tag
    <3> QED
      BY <3>1, <3>2 DEF Device, Devices
  <2> QED
    BY <2>1 DEF Utility, UtilityTemplates
<1>6. \A d \in Pad \cup Utility : d.parent # None => d.parent \in ModuleIds(Pad)
  <2>1. PadModule.id \in ModuleIds(Pad)
    BY PadDevices, PadModuleFields DEF ModuleIds
  <2> QED
    BY <2>1, PadDevices, UtilityDevices, PadModuleFields
<1> QED
  BY <1>4, <1>5, <1>6

LEMMA DevicesAreTyped ==
  ASSUME ManifestInv
  PROVE  \A d \in devices : /\ d \in Devices /\ d # None
                            /\ d.parent # None => d.parent \in ModuleIds(devices)
<1>0. release \in Releases /\ options \in Options
  BY DEF ManifestInv
<1>1. CASE stage = "order"
  BY <1>1 DEF ManifestInv
<1>2. CASE EmitInv
  BY <1>0, <1>2, BoxedTyped, NoneAssumption DEF EmitInv
<1>3. CASE SiteInv
  <2>1. BoxInv(Boxed, counter) /\ devices = Boxed \cup Pad \cup Utility
    BY <1>3 DEF SiteInv
  <2>2. ModuleIds(Boxed) \subseteq ModuleIds(devices) /\ ModuleIds(Pad) \subseteq ModuleIds(devices)
    BY <2>1 DEF ModuleIds
  <2> QED
    BY <1>0, <2>1, <2>2, BoxedTyped, PadTyped, NoneAssumption
<1> QED
  BY <1>1, <1>2, <1>3 DEF ManifestInv, Stages, Manifested

Swbd == Entry("SWBD", 1, "lv_switchboard", FALSE)
Pnl == Entry("PNL", 1, "panelboard", FALSE)

\* The switchboard of Gk, with the k-th slug, and the panelboard of Cn.
LEMMA SwbdIs ==
  ASSUME ManifestInv, ScheduleInv, stage \in Scheduled, Complete, NEW k \in 1 .. site.grid
  PROVE  /\ k \in 1 .. counter[ModT("G")]
         /\ Swbd \in KeptEntries("G", k)
         /\ One(ModuleOf("G", k), {"lv_switchboard"}) = Child("G", k, Swbd)
         /\ Child("G", k, Swbd).tag = <<"G", k, "SWBD", 1>>
         /\ Child("G", k, Swbd).id = <<"lv_switchboard", k>>
         /\ Child("G", k, Swbd) \in devices
<1>1. /\ release \in Releases /\ options \in Options /\ SiteInv /\ site.grid \in Nat \ {0}
      /\ Len(GridVariants) = site.grid
  BY ScheduledSite
<1>2. ModT("G") = "grid_module" /\ "G" \in Boxes
  BY DEF ModT, KindOf, ModuleTemplate, Boxes
<1>3. k \in 1 .. counter[ModT("G")]
  BY <1>1, <1>2 DEF SiteInv
<1>4. KeptEntries("G", k) = GridEntries(k)
  <2>1. GridVariants[k] \in release.topology
    BY <1>1, GridVariantsAre DEF Complete
  <2> QED
    BY <1>1, <2>1, KeptInContainer
<1>5. /\ Swbd.name = "SWBD" /\ Swbd.k = 1 /\ Swbd.template = "lv_switchboard"
      /\ Swbd \in KeptEntries("G", k)
      /\ \A f \in KeptEntries("G", k) : f.template = "lv_switchboard" => f = Swbd
  <2>1. Swbd \in GridEntries(k)
    BY DEF GridEntries, PrimaryEntries, FeederEntries, Swbd
  <2>2. \A f \in PrimaryEntries(release.newTemplate) : f.template = "lv_switchboard" => f = Swbd
    BY DEF PrimaryEntries, FeederEntries, Swbd, Entry
  <2>3. GridEntries(k) \subseteq PrimaryEntries(release.newTemplate)
    BY DEF GridEntries, PrimaryEntries
  <2>4. Swbd.name = "SWBD" /\ Swbd.k = 1 /\ Swbd.template = "lv_switchboard"
    BY DEF Swbd, Entry
  <2> QED
    BY <1>4, <2>1, <2>2, <2>3, <2>4
<1>6. One(ModuleOf("G", k), {"lv_switchboard"}) = Child("G", k, Swbd)
  <2>1. /\ Swbd.template \in {"lv_switchboard"}
        /\ \A f \in KeptEntries("G", k) : f.template \in {"lv_switchboard"} => f = Swbd
    BY <1>5
  <2>2. "G" \in Boxes /\ k \in 1 .. counter[ModT("G")] /\ Swbd \in KeptEntries("G", k)
    BY <1>2, <1>3, <1>5
  <2> QED
    BY <1>1, <2>1, <2>2, OneIs
<1>7. /\ Child("G", k, Swbd) \in ChildrenOf(ModuleOf("G", k))
      /\ Child("G", k, Swbd).tag = <<"G", k, "SWBD", 1>>
      /\ Child("G", k, Swbd).template = "lv_switchboard"
      /\ \E n \in Nat : Child("G", k, Swbd).id = <<"lv_switchboard", n>>
  <2>1. Holds("G", k)
    BY <1>1, <1>2, <1>3, ChildrenAre
  <2> QED
    BY <1>5, <2>1 DEF Holds
<1> DEFINE c == Child("G", k, Swbd)
<1>8. c.id = <<"lv_switchboard", k>> /\ c \in devices
  <2>1. c \in devices /\ c.tag[1] = "G" /\ c.tag[2] = k
    <3>1. c.tag = <<"G", k, "SWBD", 1>>
      BY <1>7
    <3> HIDE DEF c
    <3>2. c.tag[1] = "G" /\ c.tag[2] = k
      BY <3>1
    <3> QED
      BY <1>7, <3>2 DEF ChildrenOf, c
  <2>2. c \in Boxed
    BY <1>2, <2>1 DEF Boxed
  <2>3. c.id[2] = c.tag[2]
    <3>1. GridNumbered(Boxed, counter)
      BY <1>1 DEF SiteInv
    <3> QED
      BY <1>7, <2>2, <3>1 DEF GridNumbered
  <2>4. PICK n \in Nat : c.id = <<"lv_switchboard", n>>
    BY <1>7
  <2> HIDE DEF c
  <2>5. c.id[2] = n
    BY <2>4
  <2> QED
    BY <2>1, <2>3, <2>4, <2>5
<1> QED
  BY <1>3, <1>5, <1>6, <1>7, <1>8

LEMMA PnlIs ==
  ASSUME ManifestInv, ScheduleInv, stage \in Scheduled, Complete, NEW n \in 1 .. site.compute
  PROVE  /\ n \in 1 .. counter[ModT("C")]
         /\ Pnl \in KeptEntries("C", n)
         /\ One(ModuleOf("C", n), {"panelboard"}) = Child("C", n, Pnl)
         /\ Child("C", n, Pnl).tag = <<"C", n, "PNL", 1>>
         /\ Child("C", n, Pnl) # None
<1>1. /\ order \in Orders /\ release \in Releases /\ options \in Options /\ SiteInv
      /\ site = Resolution(order)
  BY ScheduledSite
<1>2. n \in 1 .. counter[ModT("C")] /\ "C" \in Boxes
  BY <1>1 DEF SiteInv, Boxes
<1>3. KeptEntries("C", n) = ComputeKept(n)
  BY <1>1, ComputeKeptIs DEF Complete
<1>4. /\ Pnl.name = "PNL" /\ Pnl.k = 1 /\ Pnl.template = "panelboard"
      /\ Pnl \in KeptEntries("C", n)
      /\ \A f \in KeptEntries("C", n) : f.template = "panelboard" => f = Pnl
  <2>1. Pnl \in ComputeKept(n)
    BY DEF ComputeKept, Singles, Pnl
  <2>2. Pnl.name = "PNL" /\ Pnl.k = 1 /\ Pnl.template = "panelboard"
    BY DEF Pnl, Entry
  <2>3. \A f \in ComputeKept(n) : f.template = "panelboard" => f = Pnl
    BY SinglesAre DEF Pnl
  <2> QED
    BY <1>3, <2>1, <2>2, <2>3
<1>5. One(ModuleOf("C", n), {"panelboard"}) = Child("C", n, Pnl)
  BY <1>1, <1>2, <1>4, OneIs
<1>6. Holds("C", n)
  BY <1>1, <1>2, ChildrenAre
<1>7. /\ Child("C", n, Pnl).tag = <<"C", n, "PNL", 1>>
      /\ Child("C", n, Pnl) \in devices
  BY <1>4, <1>6 DEF Holds, ChildrenOf
<1>8. Child("C", n, Pnl) # None
  BY <1>7, DevicesAreTyped
<1> QED
  BY <1>2, <1>4, <1>5, <1>7, <1>8

\* Which cables are feeders: those to the panelboards of the containers that
\* the resolution gives to the switchboard's.
LEMMA FeedersAre ==
  ASSUME ManifestInv, ScheduleInv, stage \in Scheduled, Complete
  PROVE  \A r : r \in FeederCables <=>
            \E k \in 1 .. site.grid : \E n \in site.feeds[k] :
               r = Run("feeder", Child("G", k, Swbd), Child("C", n, Pnl))
<1> DEFINE compute == Containers("compute")
           grids == Containers("grid")
           swbd(k) == One(grids[k], {"lv_switchboard"})
           pnl(n) == One(compute[n], {"panelboard"})
<1>1. /\ release \in Releases /\ options \in Options /\ SiteInv
      /\ site.compute \in Nat /\ site.grid \in Nat
      /\ Len(GridVariants) = site.grid
      /\ site.feeds = ComputeFeeds(site.compute, site.grid)
  BY ScheduledSite
<1>2. /\ compute = [n \in 1 .. site.compute |-> ModuleOf("C", n)]
      /\ grids = [k \in 1 .. site.grid |-> ModuleOf("G", k)]
  BY <1>1, ContainersAre
<1>3. Len(compute) = site.compute /\ Len(grids) = site.grid /\ DOMAIN grids = 1 .. site.grid
  BY <1>1, <1>2
<1>4. FeederCables = UNION {{Run("feeder", swbd(k), pnl(n)) : n \in {m \in site.feeds[k] : pnl(m) # None}} :
                              k \in {j \in 1 .. site.grid : swbd(j) # None}}
  BY <1>1, <1>3 DEF FeederCables
<1>5. \A k \in 1 .. site.grid : swbd(k) = Child("G", k, Swbd) /\ swbd(k) # None
  <2>1. ASSUME NEW k \in 1 .. site.grid
        PROVE  swbd(k) = Child("G", k, Swbd) /\ swbd(k) # None
    <3>1. grids[k] = ModuleOf("G", k)
      BY <1>2
    <3>2. One(ModuleOf("G", k), {"lv_switchboard"}) = Child("G", k, Swbd)
      BY SwbdIs
    <3>3. Child("G", k, Swbd) \in devices
      BY SwbdIs
    <3> QED
      BY <3>1, <3>2, <3>3, DevicesAreTyped
  <2> QED
    BY <2>1
<1>6. \A n \in 1 .. site.compute : pnl(n) = Child("C", n, Pnl) /\ pnl(n) # None
  <2>1. ASSUME NEW n \in 1 .. site.compute
        PROVE  pnl(n) = Child("C", n, Pnl) /\ pnl(n) # None
    <3>1. compute[n] = ModuleOf("C", n)
      BY <1>2
    <3> QED
      BY <3>1, PnlIs
  <2> QED
    BY <2>1
<1>7. \A k \in 1 .. site.grid : site.feeds[k] \subseteq 1 .. site.compute
  BY <1>1 DEF ComputeFeeds
<1> HIDE DEF swbd, pnl
<1> QED
  BY <1>4, <1>5, <1>6, <1>7

\* A feeder cable runs from Gk to Cn just when Gk feeds Cn.
LEMMA FeederRuns ==
  ASSUME ManifestInv, ScheduleInv, stage \in Scheduled, Complete,
         NEW k \in 1 .. site.grid, NEW n \in 1 .. site.compute
  PROVE  (\E r \in cables : /\ r.kind = "feeder"
                            /\ r.from = Tag("G", k, "SWBD", 1)
                            /\ r.to = Tag("C", n, "PNL", 1)) <=> n \in site.feeds[k]
<1>1. cables = CablesNow
  BY DEF ScheduleInv
<1>2. \A r \in cables : r.kind = "feeder" <=> r \in FeederCables
  <2>1. \A r \in ComputeCables : r.kind # "feeder"
    BY CableKindsAre DEF ComputeCables
  <2> QED
    BY <1>1, <2>1, CableKindsAre DEF CablesNow
<1>3. FeederCables \subseteq cables
  BY <1>1 DEF CablesNow
<1>4. \A j \in 1 .. site.grid : \A m \in site.feeds[j] :
         LET r == Run("feeder", Child("G", j, Swbd), Child("C", m, Pnl))
         IN  r.from = <<"G", j, "SWBD", 1>> /\ r.to = <<"C", m, "PNL", 1>>
  <2>1. ASSUME NEW j \in 1 .. site.grid, NEW m \in site.feeds[j]
        PROVE  LET r == Run("feeder", Child("G", j, Swbd), Child("C", m, Pnl))
               IN  r.from = <<"G", j, "SWBD", 1>> /\ r.to = <<"C", m, "PNL", 1>>
    <3>1. Child("G", j, Swbd).tag = <<"G", j, "SWBD", 1>>
      BY SwbdIs
    <3>2. m \in 1 .. site.compute
      BY ScheduledSite DEF ComputeFeeds
    <3>3. Child("C", m, Pnl).tag = <<"C", m, "PNL", 1>>
      BY <3>2, PnlIs
    <3> QED
      BY <3>1, <3>3, RunIs DEF RunFields
  <2> QED
    BY <2>1
<1>5. ASSUME NEW r \in cables, r.kind = "feeder",
             r.from = Tag("G", k, "SWBD", 1), r.to = Tag("C", n, "PNL", 1)
      PROVE  n \in site.feeds[k]
  <2>1. PICK j \in 1 .. site.grid : \E m \in site.feeds[j] :
           r = Run("feeder", Child("G", j, Swbd), Child("C", m, Pnl))
    BY <1>2, <1>5, FeedersAre
  <2>2. PICK m \in site.feeds[j] : r = Run("feeder", Child("G", j, Swbd), Child("C", m, Pnl))
    BY <2>1
  <2>3. <<"G", j, "SWBD", 1>> = <<"G", k, "SWBD", 1>> /\ <<"C", m, "PNL", 1>> = <<"C", n, "PNL", 1>>
    BY <1>4, <1>5, <2>2 DEF Tag
  <2>4. j = k /\ m = n
    BY <2>3
  <2> QED
    BY <2>2, <2>4
<1>6. ASSUME n \in site.feeds[k]
      PROVE  \E r \in cables : /\ r.kind = "feeder"
                               /\ r.from = Tag("G", k, "SWBD", 1)
                               /\ r.to = Tag("C", n, "PNL", 1)
  <2> DEFINE r == Run("feeder", Child("G", k, Swbd), Child("C", n, Pnl))
  <2>1. r \in FeederCables
    BY <1>6, FeedersAre
  <2>2. r.from = Tag("G", k, "SWBD", 1) /\ r.to = Tag("C", n, "PNL", 1)
    BY <1>4, <1>6 DEF Tag
  <2> HIDE DEF r
  <2> QED
    BY <1>2, <1>3, <2>1, <2>2
<1> QED
  BY <1>5, <1>6

\* An LV bus holds the switchboard of Gk and the container Cn just when Gk
\* feeds Cn.
LEMMA BusesFeed ==
  ASSUME ManifestInv, ScheduleInv, stage \in Scheduled, Complete,
         NEW k \in 1 .. site.grid, NEW n \in 1 .. site.compute
  PROVE  (\E b \in buses : /\ b.id[1] = "lv_main"
                           /\ <<"lv_switchboard", k>> \in b.members
                           /\ <<ModT("C"), n>> \in b.members) <=> n \in site.feeds[k]
<1>1. /\ SiteInv /\ site.grid \in Nat \ {0} /\ Len(GridVariants) = site.grid
  BY ScheduledSite
<1>2. counter["lv_switchboard"] # 0
  <2>1. counter["lv_switchboard"] = counter["grid_module"] /\ counter["grid_module"] = site.grid
    BY <1>1 DEF SiteInv, GridNumbered
  <2> QED
    BY <1>1, <2>1
<1>3. {b \in buses : b.id[1] = "lv_main"} = {LvBus(j) : j \in 1 .. site.grid}
  BY <1>1, <1>2 DEF SiteInv
<1>4. ModT("C") \notin {"lv_switchboard", "transformer"}
  BY DEF ModT, ModuleTemplate, KindOf
<1>5. \A j \in 1 .. site.grid :
         /\ <<"lv_switchboard", k>> \in LvBus(j).members <=> j = k
         /\ <<ModT("C"), n>> \in LvBus(j).members <=> n \in site.feeds[j]
  <2>1. ASSUME NEW j \in 1 .. site.grid
        PROVE  /\ <<"lv_switchboard", k>> \in LvBus(j).members <=> j = k
               /\ <<ModT("C"), n>> \in LvBus(j).members <=> n \in site.feeds[j]
    <3>1. LvBus(j).members = {<<"transformer", j>>, <<"lv_switchboard", j>>}
                               \cup {<<ModT("C"), m>> : m \in site.feeds[j]}
      BY DEF LvBus
    <3> QED
      BY <1>4, <3>1
  <2> QED
    BY <2>1
<1>6. (\E b \in {c \in buses : c.id[1] = "lv_main"} :
          <<"lv_switchboard", k>> \in b.members /\ <<ModT("C"), n>> \in b.members)
        <=> n \in site.feeds[k]
  BY <1>3, <1>5
<1> QED
  BY <1>6

\* The feeder cables are the edges of the one-line, for orders of any size:
\* power_cables and site_buses agree on what each switchboard feeds.
THEOREM FeedersHold == PkgSpec => []FeedersAgree
<1>1. ASSUME ManifestInv, ScheduleInv
      PROVE  FeedersAgree
  <2> SUFFICES ASSUME stage = "bom", Complete,
                      NEW k \in 1 .. site.grid, NEW n \in 1 .. site.compute
               PROVE  (\E r \in cables : /\ r.kind = "feeder"
                                         /\ r.from = Tag("G", k, "SWBD", 1)
                                         /\ r.to = Tag("C", n, "PNL", 1))
                        <=> \E b \in buses :
                               /\ b.id[1] = "lv_main"
                               /\ (CHOOSE d \in devices : d.tag = Tag("G", k, "SWBD", 1)).id
                                     \in b.members
                               /\ ComputeModule(n) \in b.members
    BY DEF FeedersAgree
  <2>1. stage \in Scheduled
    BY DEF Scheduled
  <2>2. (CHOOSE d \in devices : d.tag = Tag("G", k, "SWBD", 1)).id = <<"lv_switchboard", k>>
    <3>1. Child("G", k, Swbd) = CHOOSE d \in devices : d.tag = <<"G", k, "SWBD", 1>>
      BY DEF Child, Swbd, Entry
    <3> QED
      BY <1>1, <2>1, <3>1, SwbdIs DEF Tag
  <2>3. ComputeModule(n) = <<ModT("C"), n>>
    <3>1. ModuleOf("C", n) \in devices
      BY <1>1, <2>1, PnlIs, PlacedAreDevices, ScheduledSite DEF Boxes
    <3> QED
      BY <1>1, <3>1, DevicesDiffer, ComputeModuleIs
  <2>4. (\E r \in cables : /\ r.kind = "feeder"
                           /\ r.from = Tag("G", k, "SWBD", 1)
                           /\ r.to = Tag("C", n, "PNL", 1)) <=> n \in site.feeds[k]
    BY <1>1, <2>1, FeederRuns
  <2>5. (\E b \in buses : /\ b.id[1] = "lv_main"
                          /\ <<"lv_switchboard", k>> \in b.members
                          /\ <<ModT("C"), n>> \in b.members) <=> n \in site.feeds[k]
    BY <1>1, <2>1, BusesFeed
  <2> QED
    BY <2>2, <2>3, <2>4, <2>5
<1> QED
  BY <1>1, InitManifest, StepManifest, InitSchedule, StepSchedule, PTL DEF PkgSpec

-----------------------------------------------------------------------------
(***************************************************************************)
(* The node cords.                                                         *)
(***************************************************************************)
\* The equipment of a container that is numbered, in tag order.
LEMMA NumberedAre ==
  ASSUME ManifestInv, SiteInv, order \in Orders, site = Resolution(order),
         "compute" \in release.topology, NEW no \in 1 .. site.compute
  PROVE  LET m == ModuleOf("C", no)
         IN  /\ InTagOrder(Of(m, NodeTemplates))
                  = [i \in 1 .. Held(no) |-> Child("C", no, NodeE(i))]
             /\ \A s \in Sides : Path(m, s)
                  = [i \in 1 .. PdusPerSide(Held(no)) |-> Child("C", no, PduE(s, i))]
             /\ \A i \in 1 .. Held(no) : Child("C", no, NodeE(i)).tag = <<"C", no, "NODE", i>>
             /\ \A s \in Sides : \A i \in 1 .. PdusPerSide(Held(no)) :
                   Child("C", no, PduE(s, i)).tag = <<"C", no, s, i>>
<1> DEFINE m == ModuleOf("C", no)
           h == Held(no)
           p == PdusPerSide(Held(no))
<1>1. release \in Releases /\ "C" \in Boxes /\ no \in 1 .. counter[ModT("C")]
  BY DEF ManifestInv, SiteInv, Boxes
<1>2. h \in Nat /\ p \in Nat
  BY HeldIs
<1>3. KeptEntries("C", no) = ComputeKept(no)
  BY <1>1, ComputeKeptIs
<1>4. Holds("C", no)
  BY <1>1, ChildrenAre
<1>5. \A i : NodeE(i).name = "NODE" /\ NodeE(i).k = i /\ NodeE(i).template \in NodeTemplates
  BY DEF NodeE, Entry, NodeTemplate, NodeTemplates
<1>6. \A s, i : PduE(s, i).name = s /\ PduE(s, i).k = i /\ PduE(s, i).template = "pdu"
  BY DEF PduE, Entry
<1>7. /\ \A i \in 1 .. h : NodeE(i) \in KeptEntries("C", no)
      /\ \A s \in Sides : \A i \in 1 .. p : PduE(s, i) \in KeptEntries("C", no)
  BY <1>3 DEF ComputeKept, Many, NodeE, PduE, Sides
<1>8. \A i \in 1 .. h : /\ Child("C", no, NodeE(i)) \in ChildrenOf(m)
                        /\ Child("C", no, NodeE(i)).tag = <<"C", no, "NODE", i>>
                        /\ Child("C", no, NodeE(i)).template \in NodeTemplates
  BY <1>4, <1>5, <1>7 DEF Holds
<1>9. \A s \in Sides : \A i \in 1 .. p :
         /\ Child("C", no, PduE(s, i)) \in ChildrenOf(m)
         /\ Child("C", no, PduE(s, i)).tag = <<"C", no, s, i>>
         /\ Child("C", no, PduE(s, i)).template = "pdu"
  BY <1>4, <1>6, <1>7 DEF Holds
<1>10. \A d \in ChildrenOf(m) : d.template \in NodeTemplates =>
          \E i \in 1 .. h : d = Child("C", no, NodeE(i))
  <2>1. ASSUME NEW d \in ChildrenOf(m), d.template \in NodeTemplates
        PROVE  \E i \in 1 .. h : d = Child("C", no, NodeE(i))
    <3>1. PICK e \in KeptEntries("C", no) : d = Child("C", no, e)
      BY <1>4, <2>1 DEF Holds
    <3>2. e.template = d.template
      BY <1>4, <3>1 DEF Holds
    <3>3. e \in ComputeKept(no)
      BY <1>3
    <3>4. PICK i \in 1 .. h : e = NodeE(i)
      BY <2>1, <3>2, <3>3, SinglesAre
    <3> QED
      BY <3>1, <3>4
  <2> QED
    BY <2>1
<1>11. \A d \in ChildrenOf(m) : d.template = "pdu" =>
          \E s \in Sides : \E i \in 1 .. p : d = Child("C", no, PduE(s, i))
  <2>1. ASSUME NEW d \in ChildrenOf(m), d.template = "pdu"
        PROVE  \E s \in Sides : \E i \in 1 .. p : d = Child("C", no, PduE(s, i))
    <3>1. PICK e \in KeptEntries("C", no) : d = Child("C", no, e)
      BY <1>4, <2>1 DEF Holds
    <3>2. e.template = d.template
      BY <1>4, <3>1 DEF Holds
    <3>3. e \in ComputeKept(no)
      BY <1>3
    <3>4. e.template = "pdu"
      BY <2>1, <3>2
    <3>5. IsPdu(no, e)
      BY <3>3, <3>4, SinglesAre
    <3> QED
      BY <3>1, <3>5 DEF IsPdu
  <2> QED
    BY <2>1
<1> HIDE DEF m, h, p
<1>12. InTagOrder(Of(m, NodeTemplates)) = [i \in 1 .. h |-> Child("C", no, NodeE(i))]
  <2> DEFINE S == Of(m, NodeTemplates)
             f == [i \in 1 .. h |-> Child("C", no, NodeE(i))]
             rank == [d \in S |-> d.tag[4]]
  <2>1. S = {Child("C", no, NodeE(i)) : i \in 1 .. h}
    BY <1>8, <1>10 DEF Of
  <2>2. InTagOrder(S) = Ranked(S, rank)
    BY DEF InTagOrder
  <2>3. DOMAIN f = 1 .. h /\ \A i \in 1 .. h : f[i] = Child("C", no, NodeE(i))
    OBVIOUS
  <2>4. \A d \in S : rank[d] = d.tag[4]
    OBVIOUS
  <2>5. \A i \in 1 .. h : Child("C", no, NodeE(i)).tag[4] = i
    BY <1>8
  <2> HIDE DEF S, f, rank
  <2>6. Numbers(S, rank, h, f)
    BY <1>2, <2>1, <2>3, <2>4, <2>5 DEF Numbers
  <2>7. Ranked(S, rank) = [i \in 1 .. h |-> f[i]]
    BY <2>6, RankedIs
  <2> QED
    BY <2>2, <2>3, <2>7 DEF S
<1>13. ASSUME NEW s \in Sides
       PROVE  Path(m, s) = [i \in 1 .. p |-> Child("C", no, PduE(s, i))]
  <2> DEFINE S == {d \in Of(m, {"pdu"}) : d.tag[3] = s}
             f == [i \in 1 .. p |-> Child("C", no, PduE(s, i))]
             rank == [d \in S |-> d.tag[4]]
  <2>1. \A t \in Sides : \A i \in 1 .. p :
           Child("C", no, PduE(t, i)).tag[3] = t /\ Child("C", no, PduE(t, i)).tag[4] = i
    BY <1>9
  <2>2. S = {Child("C", no, PduE(s, i)) : i \in 1 .. p}
    <3>1. \A d \in S : \E i \in 1 .. p : d = Child("C", no, PduE(s, i))
      <4>1. ASSUME NEW d \in S PROVE \E i \in 1 .. p : d = Child("C", no, PduE(s, i))
        <5>1. d \in ChildrenOf(m) /\ d.template = "pdu" /\ d.tag[3] = s
          BY <4>1 DEF Of
        <5>2. PICK t \in Sides : \E i \in 1 .. p : d = Child("C", no, PduE(t, i))
          BY <1>11, <5>1
        <5>3. t = s
          BY <2>1, <5>1, <5>2
        <5> QED
          BY <5>2, <5>3
      <4> QED
        BY <4>1
    <3>2. \A i \in 1 .. p : Child("C", no, PduE(s, i)) \in S
      BY <1>9, <2>1 DEF Of
    <3> QED
      BY <3>1, <3>2
  <2>3. Path(m, s) = Ranked(S, rank)
    BY DEF Path, InTagOrder
  <2>4. DOMAIN f = 1 .. p /\ \A i \in 1 .. p : f[i] = Child("C", no, PduE(s, i))
    OBVIOUS
  <2>5. \A d \in S : rank[d] = d.tag[4]
    OBVIOUS
  <2> HIDE DEF S, f, rank
  <2>6. Numbers(S, rank, p, f)
    BY <1>2, <2>1, <2>2, <2>4, <2>5 DEF Numbers
  <2>7. Ranked(S, rank) = [i \in 1 .. p |-> f[i]]
    BY <2>6, RankedIs
  <2> QED
    BY <2>3, <2>4, <2>7
<1> QED
  BY <1>8, <1>9, <1>12, <1>13 DEF m, h, p

\* The cord of the i-th server of a container from a side.
Cord(no, side, i) ==
    [kind |-> "node_cord", from |-> <<"C", no, side, 1 + ((i - 1) % PdusPerSide(Held(no)))>>,
     to |-> <<"C", no, "NODE", i>>, port |-> 0]
NodeCords(m) ==
    LET paths == {Path(m, side) : side \in Sides} \ {<<>>}
        nodes == InTagOrder(Of(m, NodeTemplates))
    IN  {Run("node_cord", NodeFeed(path, i), nodes[i]) : path \in paths, i \in DOMAIN nodes}

LEMMA CordsOfContainer ==
  ASSUME ManifestInv, SiteInv, order \in Orders, site = Resolution(order),
         NEW no \in 1 .. site.compute
  PROVE  \A r : r \in NodeCords(ModuleOf("C", no)) <=>
            /\ "compute" \in release.topology
            /\ \E s \in Sides : \E i \in 1 .. Held(no) : r = Cord(no, s, i)
<1> DEFINE m == ModuleOf("C", no)
           h == Held(no)
           p == PdusPerSide(Held(no))
           nodes == InTagOrder(Of(m, NodeTemplates))
<1>0. h \in 1 .. 7 /\ p \in 1 .. 3
  BY HeldIs
<1>1. CASE "compute" \notin release.topology
  <2>1. "C" \in Boxes /\ no \in 1 .. counter[ModT("C")] /\ release \in Releases
    BY DEF ManifestInv, SiteInv, Boxes
  <2>2. KeptEntries("C", no) = {}
    BY <1>1, <2>1, KeptInContainer
  <2>3. Holds("C", no)
    BY <2>1, ChildrenAre
  <2>4. Of(m, NodeTemplates) = {}
    BY <2>2, <2>3 DEF Holds, Of
  <2>5. DOMAIN InTagOrder({}) = 1 .. 0
    BY FS_EmptySet DEF InTagOrder, Ranked
  <2>6. \A i : i \notin DOMAIN nodes
    <3>1. nodes = InTagOrder({})
      BY <2>4
    <3> HIDE DEF nodes
    <3> QED
      BY <2>5, <3>1
  <2>7. NodeCords(m) = {Run("node_cord", NodeFeed(path, i), nodes[i]) :
                           path \in {Path(m, side) : side \in Sides} \ {<<>>}, i \in DOMAIN nodes}
    BY DEF NodeCords
  <2> HIDE DEF nodes
  <2>8. NodeCords(m) = {}
    BY <2>6, <2>7
  <2> QED
    BY <1>1, <2>8
<1>2. CASE "compute" \in release.topology
  <2> DEFINE path(s) == [i \in 1 .. p |-> Child("C", no, PduE(s, i))]
             cords == [i \in 1 .. h |-> Child("C", no, NodeE(i))]
  <2>1. /\ nodes = cords /\ \A s \in Sides : Path(m, s) = path(s)
        /\ \A i \in 1 .. h : Child("C", no, NodeE(i)).tag = <<"C", no, "NODE", i>>
        /\ \A s \in Sides : \A i \in 1 .. p : Child("C", no, PduE(s, i)).tag = <<"C", no, s, i>>
    BY <1>2, NumberedAre
  <2>2. DOMAIN cords = 1 .. h /\ \A i \in 1 .. h : cords[i] = Child("C", no, NodeE(i))
    OBVIOUS
  <2>3. \A s : /\ Len(path(s)) = p /\ path(s) # <<>>
               /\ \A i \in 1 .. p : path(s)[i] = Child("C", no, PduE(s, i))
    BY <1>0
  <2>4. \A i \in 1 .. h : 1 + ((i - 1) % p) \in 1 .. p
    BY <1>0
  <2> HIDE DEF path, cords
  <2>5. NodeCords(m) = {Run("node_cord", NodeFeed(q, i), cords[i]) :
                           q \in {path(s) : s \in Sides} \ {<<>>}, i \in 1 .. h}
    <3>1. NodeCords(m) = {Run("node_cord", NodeFeed(q, i), nodes[i]) :
                             q \in {Path(m, side) : side \in Sides} \ {<<>>}, i \in DOMAIN nodes}
      BY DEF NodeCords
    <3>2. {Path(m, side) : side \in Sides} = {path(s) : s \in Sides}
      BY <2>1
    <3> HIDE DEF nodes
    <3> QED
      BY <2>1, <2>2, <3>1, <3>2
  <2>6. \A s \in Sides : \A i \in 1 .. h :
           Run("node_cord", NodeFeed(path(s), i), cords[i]) = Cord(no, s, i)
    <3>1. ASSUME NEW s \in Sides, NEW i \in 1 .. h
          PROVE  Run("node_cord", NodeFeed(path(s), i), cords[i]) = Cord(no, s, i)
      <4>1. NodeFeed(path(s), i) = Child("C", no, PduE(s, 1 + ((i - 1) % p)))
        BY <2>3, <2>4 DEF NodeFeed
      <4>2. NodeFeed(path(s), i).tag = <<"C", no, s, 1 + ((i - 1) % p)>>
        BY <2>1, <2>4, <4>1
      <4>3. cords[i].tag = <<"C", no, "NODE", i>>
        BY <2>1, <2>2
      <4> QED
        BY <4>2, <4>3 DEF Run, Cord
    <3> QED
      BY <3>1
  <2>7. \A r : r \in NodeCords(m) <=>
           \E s \in Sides : \E i \in 1 .. h : r = Run("node_cord", NodeFeed(path(s), i), cords[i])
    BY <2>3, <2>5
  <2> HIDE DEF h, p, m
  <2> QED
    BY <1>2, <2>6, <2>7 DEF m, h
<1> QED
  BY <1>1, <1>2

\* The node cords of the schedule.
LEMMA NodeCordsAre ==
  ASSUME ManifestInv, ScheduleInv, stage \in Scheduled
  PROVE  \A r : r \in cables /\ r.kind = "node_cord" <=>
            /\ "compute" \in release.topology
            /\ \E no \in 1 .. site.compute : \E s \in Sides : \E i \in 1 .. Held(no) :
                  r = Cord(no, s, i)
<1>1. /\ order \in Orders /\ release \in Releases /\ options \in Options /\ SiteInv
      /\ site = Resolution(order)
  BY ScheduledSite
<1>2. \A m : \A r : r \in BranchCables(m) /\ r.kind = "node_cord" <=> r \in NodeCords(m)
  <2>1. ASSUME NEW m, NEW r
        PROVE  r \in BranchCables(m) /\ r.kind = "node_cord" <=> r \in NodeCords(m)
    <3> DEFINE pnl == One(m, {"panelboard"})
               nodes == InTagOrder(Of(m, NodeTemplates))
               paths == {Path(m, side) : side \in {"PDU-A", "PDU-B"}} \ {<<>>}
               pdus == Of(m, {"pdu"})
               loads == Of(m, {"cdu"} \cup DryCoolers)
               switches == Of(m, Switches)
    <3>1. BranchCables(m) =
             (IF pnl = None THEN {}
              ELSE {Run("pdu_cord", pnl, pdu) : pdu \in pdus}
                   \cup {Run("branch", pnl, load) : load \in loads})
             \cup {Run("node_cord", NodeFeed(path, i), nodes[i]) : path \in paths, i \in DOMAIN nodes}
             \cup {Run("switch_cord", path[1], switch) : path \in paths, switch \in switches}
      BY DEF BranchCables
    <3>2. NodeCords(m) = {Run("node_cord", NodeFeed(path, i), nodes[i]) :
                             path \in paths, i \in DOMAIN nodes}
      BY DEF NodeCords, Sides
    <3> HIDE DEF pnl, nodes, paths, pdus, loads, switches
    <3>3. r \in NodeCords(m) => r \in BranchCables(m) /\ r.kind = "node_cord"
      BY <3>1, <3>2, RunIs DEF RunFields
    <3>4. /\ r \in {Run("pdu_cord", pnl, pdu) : pdu \in pdus} => r.kind = "pdu_cord"
          /\ r \in {Run("branch", pnl, load) : load \in loads} => r.kind = "branch"
          /\ r \in {Run("switch_cord", path[1], switch) : path \in paths, switch \in switches}
                => r.kind = "switch_cord"
      BY RunIs DEF RunFields
    <3> QED
      BY <3>1, <3>2, <3>3, <3>4
  <2> QED
    BY <2>1
<1>3. {n \in Modules : Kind(n.template) = "compute"} = {ModuleOf("C", no) : no \in 1 .. site.compute}
  <2>1. KindOf("C") = "compute" /\ counter[ModT("C")] = site.compute
    BY <1>1 DEF KindOf, SiteInv
  <2>2. {d \in devices : d.parent = None /\ Kind(d.template) = KindOf("C")}
          = {ModuleOf("C", no) : no \in 1 .. counter[ModT("C")]}
    BY <1>1, ModulesAre DEF Boxes
  <2>3. {n \in Modules : Kind(n.template) = "compute"}
          = {d \in devices : d.parent = None /\ Kind(d.template) = "compute"}
    BY DEF Modules
  <2> QED
    BY <2>1, <2>2, <2>3
<1>4. \A r : r \in cables /\ r.kind = "node_cord" <=>
         \E no \in 1 .. site.compute : r \in NodeCords(ModuleOf("C", no))
  <2>1. cables = FeederCables \cup PadCables \cup PatchCables \cup Uplinks \cup ComputeCables
    BY DEF ScheduleInv, CablesNow
  <2>2. \A r : r \in cables /\ r.kind = "node_cord" <=> r \in ComputeCables /\ r.kind = "node_cord"
    BY <2>1, CableKindsAre
  <2>3. \A r : r \in ComputeCables <=> \E no \in 1 .. site.compute : r \in BranchCables(ModuleOf("C", no))
    BY <1>3 DEF ComputeCables
  <2> QED
    BY <1>2, <2>2, <2>3
<1> QED
  BY <1>1, <1>4, CordsOfContainer

\* Servers are in the compute containers alone.
LEMMA NodesAre ==
  ASSUME ManifestInv, SiteInv, order \in Orders, site = Resolution(order),
         NEW d \in devices, d.template \in NodeTemplates
  PROVE  /\ "compute" \in release.topology
         /\ \E no \in 1 .. site.compute : \E i \in 1 .. Held(no) : d.tag = <<"C", no, "NODE", i>>
<1>1. release \in Releases /\ options \in Options /\ site.grid \in Nat \ {0}
  BY SiteIsSized DEF ManifestInv
<1>2. ~IsModule(d) /\ d # PadModule /\ d \notin Pad /\ d.template \notin UtilityTemplates
  <2>1. NodeTemplates \cap (ContainerTemplates \cup PadTemplates \cup UtilityTemplates) = {}
    BY DEF NodeTemplates, ContainerTemplates, ComputeModules, PadTemplates, UtilityTemplates
  <2>2. \A box \in Boxes : ModT(box) \in ContainerTemplates
    BY ModTIsIn
  <2>3. ~IsModule(d)
    BY <2>1, <2>2, ModuleFields DEF IsModule
  <2>4. d \notin Pad
    BY <1>1, <2>1, PadDevices
  <2> QED
    BY <1>1, <2>1, <2>3, <2>4, PadDevices
<1>3. IsEntry(d)
  BY <1>1, <1>2, DevicesPlaced DEF Placed
<1>4. PICK box \in Boxes : \E no \in 1 .. counter[ModT(box)] :
         \E e \in KeptEntries(box, no) : \E n \in 1 .. counter[e.template] :
            d = EntryDevice(box, no, e, n)
  BY <1>3 DEF IsEntry
<1>5. PICK no \in 1 .. counter[ModT(box)] :
         \E e \in KeptEntries(box, no) : \E n \in 1 .. counter[e.template] :
            d = EntryDevice(box, no, e, n)
  BY <1>4
<1>6. PICK e \in KeptEntries(box, no) : \E n \in 1 .. counter[e.template] :
         d = EntryDevice(box, no, e, n)
  BY <1>5
<1>7. d.tag = <<box, no, e.name, e.k>> /\ d.template = e.template
  BY <1>6, EntryFields
<1>8. box # "G"
  <2> SUFFICES ASSUME box = "G" PROVE FALSE
    OBVIOUS
  <2>1. no \in 1 .. Len(GridVariants)
    <3>1. ModT("G") = "grid_module"
      BY DEF ModT, KindOf, ModuleTemplate
    <3> QED
      BY <1>5, <3>1 DEF SiteInv
  <2>2. e \in GridEntries(no)
    BY <1>1, <1>6, <2>1, KeptInContainer
  <2>3. \A f \in PrimaryEntries(release.newTemplate) : f.template \notin NodeTemplates
    BY DEF PrimaryEntries, FeederEntries, Entry, NodeTemplates
  <2>4. GridEntries(no) \subseteq PrimaryEntries(release.newTemplate)
    BY DEF GridEntries, PrimaryEntries
  <2> QED
    BY <1>7, <2>2, <2>3, <2>4
<1>9. box = "C" /\ no \in 1 .. site.compute
  <2>1. box = "C"
    BY <1>8 DEF Boxes
  <2> QED
    BY <1>5, <2>1 DEF SiteInv
<1>10. "compute" \in release.topology
  BY <1>1, <1>6, <1>9, KeptInContainer
<1>11. e \in ComputeKept(no)
  BY <1>1, <1>6, <1>9, <1>10, ComputeKeptIs
<1>12. PICK i \in 1 .. Held(no) : e = NodeE(i)
  BY <1>7, <1>11, SinglesAre
<1>13. e.name = "NODE" /\ e.k = i
  BY <1>12 DEF NodeE, Entry
<1> QED
  BY <1>7, <1>9, <1>10, <1>12, <1>13

LEMMA AtMostThree ==
  ASSUME NEW a, NEW b, NEW c, NEW S, S \subseteq {a, b, c}
  PROVE  IsFiniteSet(S) /\ Cardinality(S) <= 3
<1>1. IsFiniteSet({a}) /\ Cardinality({a}) = 1
  BY FS_Singleton
<1>2. IsFiniteSet({a} \cup {b}) /\ Cardinality({a} \cup {b}) \in {1, 2}
  BY <1>1, FS_AddElement
<1>3. IsFiniteSet({a} \cup {b} \cup {c}) /\ Cardinality({a} \cup {b} \cup {c}) \in {1, 2, 3}
  BY <1>2, FS_AddElement
<1>4. S \subseteq {a} \cup {b} \cup {c}
  OBVIOUS
<1>5. IsFiniteSet(S) /\ Cardinality(S) \in Nat /\ Cardinality(S) <= Cardinality({a} \cup {b} \cup {c})
  BY <1>3, <1>4, PartIsSmaller
<1> QED
  BY <1>3, <1>5

\* Every server is on an A and a B path and no PDU has more than its three,
\* for orders of any size: the PDUs a container keeps carry its servers
\* dealt in turn (dropped_tags, _compute_branches).
THEOREM NodesHaveTwoPaths == PkgSpec => []NodesDualFed
<1>1. ASSUME ManifestInv, ScheduleInv
      PROVE  NodesDualFed
  <2> SUFFICES ASSUME stage = "bom" PROVE NodesDualFed
    BY DEF NodesDualFed
  <2> DEFINE feeds == {r \in cables : r.kind = "node_cord"}
  <2>1. stage \in Scheduled
    BY DEF Scheduled
  <2>2. order \in Orders /\ site = Resolution(order) /\ SiteInv
    BY <1>1, <2>1, ScheduledSite
  <2>3. \A r : r \in feeds <=>
           /\ "compute" \in release.topology
           /\ \E no \in 1 .. site.compute : \E s \in Sides : \E i \in 1 .. Held(no) :
                 r = Cord(no, s, i)
    BY <1>1, <2>1, NodeCordsAre
  <2>4. \A no, s, i : /\ Cord(no, s, i).to = <<"C", no, "NODE", i>>
                      /\ Cord(no, s, i).from
                           = <<"C", no, s, 1 + ((i - 1) % PdusPerSide(Held(no)))>>
    BY DEF Cord
  <2> HIDE DEF feeds
  <2>5. ASSUME NEW d \in devices, d.template \in NodeTemplates
        PROVE  {r.from[3] : r \in {f \in feeds : f.to = d.tag}} = {"PDU-A", "PDU-B"}
    <3>1. "compute" \in release.topology
      BY <1>1, <2>2, <2>5, NodesAre
    <3>2. PICK no \in 1 .. site.compute : \E i \in 1 .. Held(no) : d.tag = <<"C", no, "NODE", i>>
      BY <1>1, <2>2, <2>5, NodesAre
    <3>3. PICK i \in 1 .. Held(no) : d.tag = <<"C", no, "NODE", i>>
      BY <3>2
    <3>4. ASSUME NEW s \in Sides
          PROVE  \E r \in {f \in feeds : f.to = d.tag} : r.from[3] = s
      <4>1. Cord(no, s, i) \in feeds /\ Cord(no, s, i).to = d.tag
        BY <2>3, <2>4, <3>1, <3>3
      <4>2. Cord(no, s, i).from[3] = s
        BY <2>4
      <4> QED
        BY <4>1, <4>2
    <3>5. \A r \in feeds : r.from[3] \in Sides
      <4>1. ASSUME NEW r \in feeds PROVE r.from[3] \in Sides
        <5>1. PICK n2 \in 1 .. site.compute : \E s \in Sides : \E i2 \in 1 .. Held(n2) :
                 r = Cord(n2, s, i2)
          BY <2>3
        <5>2. PICK s \in Sides : \E i2 \in 1 .. Held(n2) : r = Cord(n2, s, i2)
          BY <5>1
        <5>3. r.from[3] = s
          BY <2>4, <5>2
        <5> QED
          BY <5>3
      <4> QED
        BY <4>1
    <3> QED
      BY <3>4, <3>5 DEF Sides
  <2>6. ASSUME NEW pdu \in {r.from : r \in feeds}
        PROVE  Cardinality({r \in feeds : r.from = pdu}) <= NODES_PER_PDU
    <3>1. PICK r0 \in feeds : pdu = r0.from
      OBVIOUS
    <3>2. PICK no \in 1 .. site.compute : \E s \in Sides : \E i \in 1 .. Held(no) : r0 = Cord(no, s, i)
      BY <2>3
    <3>3. PICK s \in Sides : \E i \in 1 .. Held(no) : r0 = Cord(no, s, i)
      BY <3>2
    <3>4. PICK i0 \in 1 .. Held(no) : r0 = Cord(no, s, i0)
      BY <3>3
    <3> DEFINE p == PdusPerSide(Held(no))
               q == 1 + ((i0 - 1) % p)
    <3>5. Held(no) \in 1 .. 7 /\ p \in 1 .. 3 /\ Held(no) <= 3 * p
      BY <2>2, HeldIs
    <3>6. pdu = <<"C", no, s, q>>
      BY <2>4, <3>1, <3>4
    <3>7. \A i \in 1 .. Held(no) : 1 + ((i - 1) % p) = q => i \in {q, q + p, q + 2 * p}
      <4> HIDE DEF p
      <4>1. \A h \in 1 .. 7 : \A i, j \in 1 .. h : 1 + ((i - 1) % 1) = 1 + ((j - 1) % 1) /\ h <= 3 =>
               i \in {1 + ((j - 1) % 1), 1 + ((j - 1) % 1) + 1, 1 + ((j - 1) % 1) + 2}
        OBVIOUS
      <4>2. \A h \in 1 .. 7 : \A i, j \in 1 .. h : 1 + ((i - 1) % 2) = 1 + ((j - 1) % 2) /\ h <= 6 =>
               i \in {1 + ((j - 1) % 2), 1 + ((j - 1) % 2) + 2, 1 + ((j - 1) % 2) + 4}
        OBVIOUS
      <4>3. \A h \in 1 .. 7 : \A i, j \in 1 .. h : 1 + ((i - 1) % 3) = 1 + ((j - 1) % 3) =>
               i \in {1 + ((j - 1) % 3), 1 + ((j - 1) % 3) + 3, 1 + ((j - 1) % 3) + 6}
        OBVIOUS
      <4> HIDE DEF q
      <4>4. CASE p = 1
        BY <3>5, <4>1, <4>4 DEF q
      <4>5. CASE p = 2
        BY <3>5, <4>2, <4>5 DEF q
      <4>6. CASE p = 3
        BY <3>5, <4>3, <4>6 DEF q
      <4> QED
        BY <3>5, <4>4, <4>5, <4>6
    <3> HIDE DEF q
    <3>8. ASSUME NEW r \in feeds, r.from = pdu
          PROVE  r \in {Cord(no, s, q), Cord(no, s, q + p), Cord(no, s, q + 2 * p)}
      <4>1. PICK n2 \in 1 .. site.compute : \E s2 \in Sides : \E i \in 1 .. Held(n2) : r = Cord(n2, s2, i)
        BY <2>3
      <4>2. PICK s2 \in Sides : \E i \in 1 .. Held(n2) : r = Cord(n2, s2, i)
        BY <4>1
      <4>3. PICK i \in 1 .. Held(n2) : r = Cord(n2, s2, i)
        BY <4>2
      <4>4. <<"C", no, s, q>> = <<"C", n2, s2, 1 + ((i - 1) % PdusPerSide(Held(n2)))>>
        BY <2>4, <3>6, <3>8, <4>3
      <4>5. n2 = no /\ s2 = s /\ 1 + ((i - 1) % PdusPerSide(Held(n2))) = q
        BY <4>4
      <4>6. i \in {q, q + p, q + 2 * p}
        BY <3>7, <4>5
      <4> QED
        BY <4>3, <4>5, <4>6
    <3>9. Cardinality({r \in feeds : r.from = pdu}) <= 3
      BY <3>8, AtMostThree
    <3> QED
      BY <3>9 DEF NODES_PER_PDU
  <2> QED
    BY <2>5, <2>6 DEF NodesDualFed, feeds
<1> QED
  BY <1>1, InitManifest, StepManifest, InitSchedule, StepSchedule, PTL DEF PkgSpec

-----------------------------------------------------------------------------
(***************************************************************************)
(* The network: each polled device has a switch, and a port of its own.    *)
(***************************************************************************)
\* A set of naturals has a least element.
LEMMA LeastNatural ==
  ASSUME NEW S \in SUBSET Nat, S # {}
  PROVE  \E x \in S : \A y \in S : x <= y
<1> DEFINE R == OpToRel(<, Nat)
<1>1. IsWellFoundedOn(R, Nat)
  BY NatLessThanWellFounded
<1>2. \A x, y \in Nat : y < x => <<y, x>> \in R
  BY DEF OpToRel
<1> HIDE DEF R
<1>3. PICK x \in S : \A y \in S : <<y, x>> \notin R
  BY <1>1, WFMin
<1>4. \A y \in S : ~(y < x) /\ y \in Nat /\ x \in Nat
  BY <1>2, <1>3
<1> QED
  BY <1>4

\* The first child of some templates is one of them.
LEMMA OneIsThere ==
  ASSUME ManifestInv, NEW m, NEW T, One(m, T) # None
  PROVE  One(m, T) \in Of(m, T) /\ One(m, T) \in devices /\ One(m, T).parent = m.id
<1> DEFINE found == Of(m, T)
           numbers == {d.tag[4] : d \in found}
<1>1. found # {}
  BY DEF One
<1>2. found \subseteq devices /\ \A d \in found : d.parent = m.id
  BY DEF Of, ChildrenOf
<1>3. numbers \in SUBSET Nat
  BY <1>2, DevicesAreTyped DEF Devices
<1>4. PICK k \in numbers : \A j \in numbers : k <= j
  <2> HIDE DEF found
  <2>1. numbers # {}
    BY <1>1
  <2> HIDE DEF numbers
  <2> QED
    BY <1>3, <2>1, LeastNatural
<1>5. PICK d \in found : d.tag[4] = k
  OBVIOUS
<1>6. \A e \in found : d.tag[4] <= e.tag[4]
  BY <1>4, <1>5
<1> HIDE DEF found
<1>7. (CHOOSE x \in found : \A e \in found : x.tag[4] <= e.tag[4]) \in found
  BY <1>5, <1>6
<1>8. One(m, T) = CHOOSE x \in found : \A e \in found : x.tag[4] <= e.tag[4]
  BY <1>1 DEF One, found
<1> QED
  BY <1>2, <1>7, <1>8 DEF found

\* Counting those up to each numbers a set that a rank tells apart.
LEMMA Places ==
  ASSUME NEW S, IsFiniteSet(S), NEW rank,
         \A d \in S : rank[d] \in Nat,
         \A d, e \in S : rank[d] = rank[e] => d = e
  PROVE  /\ \A d \in S : /\ Cardinality({e \in S : rank[e] <= rank[d]}) \in Nat \ {0}
                         /\ Cardinality({e \in S : rank[e] <= rank[d]}) <= Cardinality(S)
         /\ \A d, f \in S : Cardinality({e \in S : rank[e] <= rank[d]})
                              = Cardinality({e \in S : rank[e] <= rank[f]}) => d = f
<1> DEFINE upTo(d) == {e \in S : rank[e] <= rank[d]}
<1>1. \A d \in S : d \in upTo(d) /\ upTo(d) \subseteq S
  OBVIOUS
<1>2. ASSUME NEW d \in S, NEW f \in S, rank[d] < rank[f]
      PROVE  Cardinality(upTo(d)) < Cardinality(upTo(f))
  <2>1. upTo(d) \subseteq upTo(f) /\ f \notin upTo(d) /\ f \in upTo(f)
    BY <1>2
  <2> HIDE DEF upTo
  <2>2. IsFiniteSet(upTo(f))
    BY <1>1, PartIsSmaller
  <2> QED
    BY <2>1, <2>2, PartIsSmaller
<1>3. ASSUME NEW d \in S
      PROVE  Cardinality(upTo(d)) \in Nat \ {0} /\ Cardinality(upTo(d)) <= Cardinality(S)
  <2> HIDE DEF upTo
  <2>1. /\ IsFiniteSet(upTo(d)) /\ Cardinality(upTo(d)) \in Nat
        /\ Cardinality(upTo(d)) <= Cardinality(S)
    BY <1>1, PartIsSmaller
  <2>2. Cardinality(upTo(d)) # 0
    BY <1>1, <2>1, FS_EmptySet
  <2> QED
    BY <2>1, <2>2
<1>4. ASSUME NEW d \in S, NEW f \in S, Cardinality(upTo(d)) = Cardinality(upTo(f))
      PROVE  d = f
  <2>1. rank[d] < rank[f] \/ rank[f] < rank[d] \/ rank[d] = rank[f]
    OBVIOUS
  <2> HIDE DEF upTo
  <2> QED
    BY <1>2, <1>3, <1>4, <2>1
<1> QED
  BY <1>3, <1>4

PolledNames == {"CDU", "DC", "MTR-POI", "NODE", "PDU-A", "PDU-B", "RLY", "SW-DATA"}
NameNo(name) == CHOOSE i \in DOMAIN Names : Names[i] = name

LEMMA NamesAreNumbered ==
  \A name \in PolledNames \cup {"BESS"} : NameNo(name) \in 1 .. 9 /\ Names[NameNo(name)] = name
<1>1. DOMAIN Names = 1 .. 9
  BY DEF Names
<1>2. /\ Names[1] = "BESS" /\ Names[2] = "CDU" /\ Names[3] = "DC" /\ Names[4] = "MTR-POI"
      /\ Names[5] = "NODE" /\ Names[6] = "PDU-A" /\ Names[7] = "PDU-B" /\ Names[8] = "RLY"
      /\ Names[9] = "SW-DATA"
  BY DEF Names
<1>3. \A name \in PolledNames \cup {"BESS"} : \E i \in 1 .. 9 : Names[i] = name
  BY <1>2 DEF PolledNames
<1> QED
  BY <1>1, <1>3 DEF NameNo

\* What is polled in a container, by name.
LEMMA PolledEntries ==
  ASSUME ManifestInv, SiteInv, order \in Orders, site = Resolution(order),
         NEW box \in Boxes, NEW no \in 1 .. counter[ModT(box)],
         NEW e \in KeptEntries(box, no), e.polled
  PROVE  e.name \in PolledNames /\ e.k \in 0 .. 7
<1>1. release \in Releases /\ site.grid \in Nat \ {0}
  BY SiteIsSized DEF ManifestInv
<1>2. CASE box = "C"
  <2>1. e \in ComputeEntries(order.variant)
    BY <1>1, <1>2, KeptInContainer
  <2> QED
    BY <2>1 DEF ComputeEntries, Many, Entry, PolledNames, NODES_PER_COMPUTE_CONTAINER
<1>3. CASE box = "G"
  <2>1. ModT("G") = "grid_module"
    BY DEF ModT, KindOf, ModuleTemplate
  <2>2. no \in 1 .. Len(GridVariants)
    BY <1>3, <2>1 DEF SiteInv
  <2>3. e \in GridEntries(no)
    BY <1>1, <1>3, <2>2, KeptInContainer
  <2> QED
    BY <2>3 DEF GridEntries, PrimaryEntries, FeederEntries, Entry, PolledNames
<1> QED
  BY <1>2, <1>3 DEF Boxes

\* In a container what is polled is ordered by name and number.
LEMMA ContainerOrder ==
  ASSUME ManifestInv, SiteInv, order \in Orders, site = Resolution(order),
         NEW box \in Boxes, NEW no \in 1 .. counter[ModT(box)]
  PROVE  /\ \A d \in Polled(ModuleOf(box, no)) : /\ d.tag[1] = box /\ d.tag[2] = no
                                                 /\ Order(d) \in Nat
         /\ \A d, f \in Polled(ModuleOf(box, no)) : Order(d) = Order(f) => d = f
<1> DEFINE P == Polled(ModuleOf(box, no))
<1>1. Holds(box, no)
  BY ChildrenAre
<1>2. ASSUME NEW d \in P
      PROVE  \E name \in PolledNames : \E k \in 0 .. 7 :
                d.tag = <<box, no, name, k>> /\ d \in devices
  <2>1. d \in ChildrenOf(ModuleOf(box, no)) /\ d.polled /\ d \in devices
    BY DEF Polled, ChildrenOf
  <2>2. PICK e \in KeptEntries(box, no) : d = Child(box, no, e)
    BY <1>1, <2>1 DEF Holds
  <2>3. e.polled /\ d.tag = <<box, no, e.name, e.k>>
    BY <1>1, <2>1, <2>2 DEF Holds
  <2>4. e.name \in PolledNames /\ e.k \in 0 .. 7
    BY <2>3, PolledEntries
  <2> QED
    BY <2>1, <2>3, <2>4
<1>3. ASSUME NEW d, NEW name \in PolledNames, NEW k \in 0 .. 7, d.tag = <<box, no, name, k>>
      PROVE  Order(d) = 100 * NameNo(name) + k
  <2>1. d.tag[1] = box /\ d.tag[3] = name /\ d.tag[4] = k
    BY <1>3
  <2>2. box # "PCS" /\ name # Itself /\ name # "MP"
    BY DEF Boxes, PolledNames, Itself
  <2> QED
    BY <2>1, <2>2 DEF Order, NameNo
<1>4. \A name \in PolledNames : NameNo(name) \in 1 .. 9 /\ Names[NameNo(name)] = name
  BY NamesAreNumbered
<1> HIDE DEF P
<1>5. \A d \in P : d.tag[1] = box /\ d.tag[2] = no /\ Order(d) \in Nat
  <2>1. ASSUME NEW d \in P PROVE d.tag[1] = box /\ d.tag[2] = no /\ Order(d) \in Nat
    <3>1. PICK name \in PolledNames : \E k \in 0 .. 7 : d.tag = <<box, no, name, k>>
      BY <1>2
    <3>2. PICK k \in 0 .. 7 : d.tag = <<box, no, name, k>>
      BY <3>1
    <3>3. Order(d) = 100 * NameNo(name) + k /\ NameNo(name) \in 1 .. 9
      BY <1>3, <1>4, <3>2
    <3> QED
      BY <3>2, <3>3
  <2> QED
    BY <2>1
<1>6. ASSUME NEW d \in P, NEW f \in P, Order(d) = Order(f)
      PROVE  d = f
  <2>1. PICK a \in PolledNames : \E k \in 0 .. 7 : d.tag = <<box, no, a, k>> /\ d \in devices
    BY <1>2
  <2>2. PICK k \in 0 .. 7 : d.tag = <<box, no, a, k>> /\ d \in devices
    BY <2>1
  <2>3. PICK b \in PolledNames : \E l \in 0 .. 7 : f.tag = <<box, no, b, l>> /\ f \in devices
    BY <1>2
  <2>4. PICK l \in 0 .. 7 : f.tag = <<box, no, b, l>> /\ f \in devices
    BY <2>3
  <2>5. /\ Order(d) = 100 * NameNo(a) + k /\ Order(f) = 100 * NameNo(b) + l
        /\ NameNo(a) \in 1 .. 9 /\ NameNo(b) \in 1 .. 9
    BY <1>3, <1>4, <2>2, <2>4
  <2>6. NameNo(a) = NameNo(b) /\ k = l
    <3>1. \A x, y \in 1 .. 9 : \A i, j \in 0 .. 7 : 100 * x + i = 100 * y + j => x = y /\ i = j
      OBVIOUS
    <3>2. 100 * NameNo(a) + k = 100 * NameNo(b) + l
      BY <1>6, <2>5
    <3> QED
      BY <2>5, <3>1, <3>2
  <2>7. a = b
    BY <1>4, <2>6
  <2>8. d.tag = f.tag
    BY <2>2, <2>4, <2>6, <2>7
  <2> QED
    BY <2>2, <2>4, <2>8, DevicesDiffer DEF TagsDiffer
<1> QED
  BY <1>5, <1>6 DEF P

\* The children of the pad's module are the rest of the pad, all polled.
LEMMA PadChildrenAre ==
  ASSUME ManifestInv, SiteInv
  PROVE  /\ Polled(PadModule) = Pad \ {PadModule}
         /\ \A d \in devices : d.parent = PadModule.id => d \in Pad
<1>1. options \in Options /\ Pad \subseteq devices
  BY DEF ManifestInv, SiteInv
<1>2. \A d \in Pad : d = PadModule \/ (d.parent = PadModule.id /\ d.polled)
  <2>1. \A n : /\ PadRack(n).parent = PadModule.id /\ PadRack(n).polled
               /\ PadPcs(n).parent = PadModule.id /\ PadPcs(n).polled
               /\ PadCatl.parent = PadModule.id /\ PadCatl.polled
    BY PadLeafFields
  <2>2. \A d \in Pad :
           \/ d = PadModule
           \/ d = PadCatl
           \/ \E n \in 1 .. Racks : d = PadRack(n)
           \/ \E n \in 1 .. Pcss : d = PadPcs(n)
    BY <1>1, PadIs
  <2> QED
    BY <2>1, <2>2
<1>3. PadModule.id # None /\ PadModule.parent = None /\ PadModule.id[1] \notin ContainerTemplates
      /\ ~PadModule.polled
  BY PadModuleFields, NoneAssumption DEF ContainerTemplates, ComputeModules
<1>4. ASSUME NEW d \in devices, d.parent = PadModule.id
      PROVE  d \in Pad
  <2>1. ~IsModule(d)
    BY <1>3, <1>4, ModuleFields DEF IsModule
  <2>2. ~IsEntry(d)
    <3> SUFFICES ASSUME NEW box \in Boxes, NEW no, NEW e, NEW n, d = EntryDevice(box, no, e, n)
                 PROVE  FALSE
      BY DEF IsEntry
    <3>1. d.parent = <<ModT(box), no>>
      BY EntryFields
    <3>2. d.parent[1] = ModT(box) /\ ModT(box) \in ContainerTemplates
      BY <3>1, ModTIsIn
    <3> QED
      BY <1>3, <1>4, <3>2
  <2> QED
    BY <1>1, <1>3, <1>4, <2>1, <2>2, DevicesPlaced, PadDevices DEF Placed
<1> QED
  BY <1>1, <1>2, <1>3, <1>4 DEF Polled, ChildrenOf

\* On the pad, Megapacks are ordered by number, a bank before its PCS.
LEMMA PadOrder ==
  ASSUME options \in Options
  PROVE  /\ \A d \in Pad \ {PadModule} : d.tag[1] \in {"BESS", "PCS"} /\ Order(d) \in Nat
         /\ \A d, f \in Pad \ {PadModule} : Order(d) = Order(f) => d = f
<1>1. Racks \in Nat /\ Pcss \in Nat
  BY PadIs
<1>2. ASSUME NEW n \in Nat
      PROVE  /\ PadRack(n).tag[1] = "BESS" /\ Order(PadRack(n)) = n
             /\ PadPcs(n).tag[1] = "PCS" /\ Order(PadPcs(n)) = 100000 + n
  <2>1. PadRack(n).tag = <<"BESS", 1, "MP", n>> /\ PadPcs(n).tag = <<"PCS", n, Itself, 0>>
    BY PadLeafFields
  <2>2. /\ PadRack(n).tag[1] = "BESS" /\ PadRack(n).tag[3] = "MP" /\ PadRack(n).tag[4] = n
        /\ PadPcs(n).tag[1] = "PCS" /\ PadPcs(n).tag[2] = n
    BY <2>1
  <2>3. "MP" # Itself
    BY DEF Itself
  <2> QED
    BY <2>2, <2>3 DEF Order
<1>3. PadCatl.tag[1] = "BESS" /\ Order(PadCatl) = 100
  <2>1. PadCatl.tag = <<"BESS", 1, Itself, 0>>
    BY PadLeafFields
  <2>2. PadCatl.tag[1] = "BESS" /\ PadCatl.tag[3] = Itself /\ PadCatl.tag[4] = 0
    BY <2>1
  <2>3. NameNo("BESS") \in 1 .. 9 /\ Names[NameNo("BESS")] = "BESS"
    BY NamesAreNumbered
  <2>4. NameNo("BESS") = 1
    BY <2>3 DEF Names
  <2>5. Order(PadCatl) = 100 * NameNo("BESS") + 0
    BY <2>2 DEF Order, NameNo
  <2> QED
    BY <2>2, <2>4, <2>5
<1>4. \A d \in Pad \ {PadModule} :
         \/ options.coupling # "ac_coupled" /\ d = PadCatl
         \/ options.coupling = "ac_coupled" /\ \E n \in 1 .. Racks : d = PadRack(n)
         \/ options.coupling # "ac_coupled" /\ \E n \in 1 .. Pcss : d = PadPcs(n)
  <2>1. \A d \in Pad \ {PadModule} :
           \/ options.coupling # "ac_coupled" /\ d = PadCatl
           \/ \E n \in 1 .. Racks : d = PadRack(n)
           \/ \E n \in 1 .. Pcss : d = PadPcs(n)
    BY PadIs
  <2>2. \A n : n \notin 1 .. 0
    OBVIOUS
  <2>3. options.coupling # "ac_coupled" => Racks = 0
    BY DEF Racks
  <2>4. options.coupling = "ac_coupled" => Pcss = 0
    BY DEF Pcss
  <2> QED
    BY <2>1, <2>2, <2>3, <2>4
<1>5. \A n \in 1 .. Racks : n \in Nat
  BY <1>1
<1>6. \A n \in 1 .. Pcss : n \in Nat
  BY <1>1
<1> QED
  BY <1>2, <1>3, <1>4, <1>5, <1>6

\* Whoever is polled is a child of one module, its home.
Home(d) == CHOOSE m \in Modules : d \in Polled(m)

LEMMA ModulesOfSite ==
  ASSUME release \in Releases, options \in Options, SiteInv
  PROVE  /\ \A m : m \in Modules <=>
                \/ m = PadModule
                \/ \E box \in Boxes : \E no \in 1 .. counter[ModT(box)] : m = ModuleOf(box, no)
         /\ \A m \in Modules : m \in devices
<1>1. KindOf("C") = "compute" /\ KindOf("G") = "grid" /\ "none" \notin {"compute", "grid", "bess"}
  BY DEF KindOf
<1>2. PadModule \in devices /\ PadModule.parent = None /\ Kind(PadModule.template) = "bess"
  BY PlacedAreDevices, PadModuleFields, KindsHold DEF KindsAre
<1>3. \A box \in Boxes : \A no \in 1 .. counter[ModT(box)] :
         /\ ModuleOf(box, no) \in devices /\ ModuleOf(box, no).parent = None
         /\ Kind(ModuleOf(box, no).template) # "none"
  BY <1>1, PlacedAreDevices, ModuleFields, KindsHold DEF KindsAre, Boxes
<1>4. \A m \in Modules : m = PadModule \/ IsModule(m)
  BY ModulesAre DEF Modules
<1> QED
  BY <1>2, <1>3, <1>4 DEF Modules, IsModule

LEMMA HomesAre ==
  ASSUME ManifestInv, SiteInv, NEW d \in devices, d.polled
  PROVE  /\ Home(d) \in Modules /\ d \in Polled(Home(d))
         /\ \A m \in Modules : d \in Polled(m) => m = Home(d)
<1>1. /\ release \in Releases /\ options \in Options
  BY DEF ManifestInv
<1>2. \E m \in Modules : d.parent = m.id
  <2>1. \A box \in Boxes : \A no : ModuleOf(box, no).polled = FALSE
    BY DEF ModuleOf, Device
  <2>2. PadModule.polled = FALSE /\ \A u \in Utility : u.polled = FALSE
    BY PadModuleFields, UtilityDevices
  <2>3. IsEntry(d) \/ (d \in Pad /\ d.parent = PadModule.id)
    BY <1>1, <2>1, <2>2, DevicesPlaced DEF Placed, IsModule
  <2>4. ASSUME IsEntry(d) PROVE \E m \in Modules : d.parent = m.id
    <3>1. PICK box \in Boxes : \E no \in 1 .. counter[ModT(box)] :
             \E e \in KeptEntries(box, no) : \E n \in 1 .. counter[e.template] :
                d = EntryDevice(box, no, e, n)
      BY <2>4 DEF IsEntry
    <3>2. PICK no \in 1 .. counter[ModT(box)] :
             \E e \in KeptEntries(box, no) : \E n \in 1 .. counter[e.template] :
                d = EntryDevice(box, no, e, n)
      BY <3>1
    <3>3. d.parent = <<ModT(box), no>> /\ ModuleOf(box, no).id = <<ModT(box), no>>
      <4>1. PICK e \in KeptEntries(box, no) : \E n \in 1 .. counter[e.template] :
               d = EntryDevice(box, no, e, n)
        BY <3>2
      <4>2. PICK n \in 1 .. counter[e.template] : d = EntryDevice(box, no, e, n)
        BY <4>1
      <4>3. d.parent = <<ModT(box), no>>
        BY <4>2, EntryFields
      <4> QED
        BY <4>3, ModuleFields
    <3>4. ModuleOf(box, no) \in Modules
      BY <1>1, ModulesOfSite
    <3> QED
      BY <3>3, <3>4
  <2>5. PadModule \in Modules
    BY <1>1, ModulesOfSite
  <2> QED
    BY <2>3, <2>4, <2>5
<1>3. \A m \in Modules : d \in Polled(m) <=> d.parent = m.id
  BY DEF Polled, ChildrenOf
<1>4. \A m, n \in Modules : m.id = n.id => m = n
  <2>1. Modules \subseteq devices
    BY <1>1, ModulesOfSite
  <2> QED
    BY <2>1, DevicesDiffer DEF IdsDiffer
<1>5. \E m \in Modules : d \in Polled(m)
  BY <1>2, <1>3
<1>6. Home(d) \in Modules /\ d \in Polled(Home(d))
  BY <1>5 DEF Home
<1> QED
  BY <1>3, <1>4, <1>6

\* In any module what is polled is told apart by its order.
LEMMA ModuleOrder ==
  ASSUME ManifestInv, SiteInv, order \in Orders, site = Resolution(order), NEW m \in Modules
  PROVE  /\ IsFiniteSet(Polled(m))
         /\ \A d \in Polled(m) : Order(d) \in Nat
         /\ \A d, f \in Polled(m) : Order(d) = Order(f) => d = f
<1>1. release \in Releases /\ options \in Options
  BY DEF ManifestInv
<1>2. IsFiniteSet(Polled(m))
  <2>1. Polled(m) \subseteq devices
    BY DEF Polled, ChildrenOf
  <2> QED
    BY <2>1, DevicesDiffer, PartIsSmaller
<1>3. CASE m = PadModule
  BY <1>1, <1>2, <1>3, PadChildrenAre, PadOrder
<1>4. CASE \E box \in Boxes : \E no \in 1 .. counter[ModT(box)] : m = ModuleOf(box, no)
  BY <1>2, <1>4, ContainerOrder
<1> QED
  BY <1>1, <1>3, <1>4, ModulesOfSite

\* The switch of a module is in its container, or in G1 for the pad, whose
\* ports come after those of G1.
LEMMA SwitchesAre ==
  ASSUME ManifestInv, ScheduleInv, stage \in Scheduled, NEW m \in Modules
  PROVE  /\ m = PadModule =>
               /\ SwitchOf(m) = One(ModuleOf("G", 1), MgmtSwitches)
               /\ PortsBefore(m) = Cardinality(Polled(ModuleOf("G", 1)))
               /\ ModuleOf("G", 1) \in Modules
         /\ m # PadModule =>
               SwitchOf(m) = One(m, MgmtSwitches) /\ PortsBefore(m) = 0
<1>1. /\ release \in Releases /\ options \in Options /\ SiteInv /\ Len(GridVariants) \in Nat \ {0}
  BY ScheduledSite
<1>2. ~NoGrid /\ Containers("grid")[1] = ModuleOf("G", 1)
  BY <1>1, ContainersAre DEF ScheduleInv
<1>3. Kind(PadModule.template) = "bess"
  BY KindsHold DEF KindsAre
<1>4. ModuleOf("G", 1) \in Modules
  <2>1. "G" \in Boxes /\ 1 \in 1 .. counter[ModT("G")]
    <3>1. ModT("G") = "grid_module"
      BY DEF ModT, KindOf, ModuleTemplate
    <3> QED
      BY <1>1, <3>1 DEF SiteInv, Boxes
  <2> QED
    BY <1>1, <2>1, ModulesOfSite
<1>5. m # PadModule => Kind(m.template) # "bess"
  <2>1. m # PadModule => \E box \in Boxes : \E no : m = ModuleOf(box, no)
    BY <1>1, ModulesOfSite
  <2>2. \A box \in Boxes : KindOf(box) # "bess"
    BY DEF KindOf
  <2> QED
    BY <2>1, <2>2, ModuleFields, KindsHold DEF KindsAre
<1>6. G1 = One(ModuleOf("G", 1), MgmtSwitches)
  BY <1>2 DEF G1
<1> QED
  BY <1>2, <1>3, <1>4, <1>5, <1>6 DEF SwitchOf, PortsBefore

\* A patch, and what it is: its switch is a device of the home's container,
\* and its port counts from 1, for the pad from those of G1 on.
Patch(m, d) ==
    [kind |-> "copper", from |-> d.tag, to |-> SwitchOf(m).tag,
     port |-> PortsBefore(m) + Cardinality({e \in Polled(m) : Order(e) <= Order(d)})]
PatchOf(d) == Patch(Home(d), d)
BoxOf(m) == IF m = PadModule THEN <<"G", 1>> ELSE <<m.tag[1], m.tag[2]>>

LEMMA PatchesAre ==
  ASSUME ManifestInv, ScheduleInv, stage \in Scheduled
  PROVE  PatchCables = {PatchOf(d) : d \in {e \in devices : e.polled}}
<1>1. SiteInv
  BY ScheduledSite
<1>2. ~NowhereToPatch
  BY DEF ScheduleInv
<1> DEFINE raw(m, d) ==
              [Run("copper", d, SwitchOf(m)) EXCEPT !.port =
                 PortsBefore(m) + Cardinality({e \in Polled(m) : Order(e) <= Order(d)})]
<1>3. \A m, d : raw(m, d) = Patch(m, d)
  BY DEF Patch, Run
<1>4. \A r : r \in PatchCables <=>
         \E m \in {n \in Modules : SwitchOf(n) # None} : \E d \in Polled(m) : r = Patch(m, d)
  <2>1. PatchCables = UNION {{raw(m, d) : d \in Polled(m)} : m \in {n \in Modules : SwitchOf(n) # None}}
    BY DEF PatchCables
  <2> HIDE DEF raw
  <2>2. \A r : r \in PatchCables <=>
           \E m \in {n \in Modules : SwitchOf(n) # None} : \E d \in Polled(m) : r = raw(m, d)
    BY <2>1
  <2> QED
    BY <1>3, <2>2
<1> HIDE DEF raw
<1>5. \A m \in Modules : Polled(m) # {} => SwitchOf(m) # None
  BY <1>2 DEF NowhereToPatch
<1>6. \A r : r \in PatchCables <=> \E m \in Modules : \E d \in Polled(m) : r = Patch(m, d)
  BY <1>4, <1>5
<1>7. ASSUME NEW m \in Modules, NEW d \in Polled(m)
      PROVE  d \in devices /\ d.polled /\ Patch(m, d) = PatchOf(d)
  <2>1. d \in devices /\ d.polled
    BY DEF Polled, ChildrenOf
  <2>2. m = Home(d)
    BY <1>1, <2>1, HomesAre
  <2> QED
    BY <2>1, <2>2 DEF PatchOf
<1>8. ASSUME NEW d \in devices, d.polled
      PROVE  Home(d) \in Modules /\ d \in Polled(Home(d))
  BY <1>1, <1>8, HomesAre
<1>9. ASSUME NEW d \in devices, d.polled
      PROVE  PatchOf(d) \in PatchCables
  BY <1>6, <1>8, <1>9 DEF PatchOf
<1>10. ASSUME NEW r \in PatchCables
       PROVE  \E d \in {e \in devices : e.polled} : r = PatchOf(d)
  <2>1. PICK m \in Modules : \E d \in Polled(m) : r = Patch(m, d)
    BY <1>6
  <2>2. PICK d \in Polled(m) : r = Patch(m, d)
    BY <2>1
  <2> QED
    BY <1>7, <2>2
<1> QED
  BY <1>9, <1>10

LEMMA PortsAre ==
  ASSUME ManifestInv, ScheduleInv, stage \in Scheduled, NEW m \in Modules
  PROVE  /\ IsFiniteSet(Polled(m)) /\ PortsBefore(m) \in Nat
         /\ \A d \in Polled(m) : /\ Patch(m, d).port \in Nat
                                 /\ PortsBefore(m) < Patch(m, d).port
                                 /\ Patch(m, d).port <= PortsBefore(m) + Cardinality(Polled(m))
         /\ \A d, f \in Polled(m) : Patch(m, d).port = Patch(m, f).port => d = f
<1> DEFINE S == Polled(m)
           rank == [d \in S |-> Order(d)]
           upTo(d) == Cardinality({e \in S : Order(e) <= Order(d)})
<1>1. SiteInv /\ order \in Orders /\ site = Resolution(order)
  BY ScheduledSite
<1>2. \A n \in Modules : IsFiniteSet(Polled(n)) /\ Cardinality(Polled(n)) \in Nat
  BY <1>1, ModuleOrder, FS_CardinalityType
<1>3. PortsBefore(m) \in Nat
  BY <1>2, SwitchesAre
<1>4. /\ \A d \in S : Order(d) \in Nat
      /\ \A d, f \in S : Order(d) = Order(f) => d = f
  BY <1>1, ModuleOrder
<1>5. \A d \in S : rank[d] = Order(d)
  OBVIOUS
<1>6. \A d : Patch(m, d).port = PortsBefore(m) + upTo(d)
  BY DEF Patch
<1>7. /\ \A d \in S : upTo(d) \in Nat \ {0} /\ upTo(d) <= Cardinality(S)
      /\ \A d, f \in S : upTo(d) = upTo(f) => d = f
  <2> HIDE DEF rank
  <2>1. IsFiniteSet(S)
    BY <1>2
  <2> HIDE DEF S
  <2>2. /\ \A d \in S : rank[d] \in Nat
        /\ \A d, e \in S : rank[d] = rank[e] => d = e
    BY <1>4, <1>5
  <2>3. \A d \in S : {e \in S : rank[e] <= rank[d]} = {e \in S : Order(e) <= Order(d)}
    BY <1>5
  <2>4. /\ \A d \in S : /\ Cardinality({e \in S : rank[e] <= rank[d]}) \in Nat \ {0}
                        /\ Cardinality({e \in S : rank[e] <= rank[d]}) <= Cardinality(S)
        /\ \A d, f \in S : Cardinality({e \in S : rank[e] <= rank[d]})
                             = Cardinality({e \in S : rank[e] <= rank[f]}) => d = f
    BY <2>1, <2>2, Places
  <2> QED
    BY <2>3, <2>4
<1> HIDE DEF upTo
<1>8. Cardinality(S) \in Nat
  BY <1>2
<1> HIDE DEF S
<1>9. \A d \in S : /\ Patch(m, d).port \in Nat
                   /\ PortsBefore(m) < Patch(m, d).port
                   /\ Patch(m, d).port <= PortsBefore(m) + Cardinality(S)
  BY <1>3, <1>6, <1>7, <1>8
<1>10. \A d, f \in S : Patch(m, d).port = Patch(m, f).port => d = f
  BY <1>3, <1>6, <1>7
<1> QED
  BY <1>2, <1>3, <1>9, <1>10 DEF S

\* The patch of a device ends at the switch of its container, or of G1.
LEMMA PatchIs ==
  ASSUME ManifestInv, ScheduleInv, stage \in Scheduled, NEW d \in devices, d.polled
  PROVE  /\ SwitchOf(Home(d)) \in devices
         /\ PatchOf(d).from = d.tag /\ PatchOf(d).to = SwitchOf(Home(d)).tag
         /\ PatchOf(d).port \in Nat \ {0} /\ PatchOf(d).kind = "copper"
         /\ Home(d) = PadModule =>
               /\ d.tag[1] \notin {"C", "G"}
               /\ PatchOf(d).to[1] = "G" /\ PatchOf(d).to[2] = 1
         /\ Home(d) # PadModule =>
               /\ d.tag[1] \in Boxes /\ Home(d) = ModuleOf(d.tag[1], d.tag[2])
               /\ PatchOf(d).to[1] = d.tag[1] /\ PatchOf(d).to[2] = d.tag[2]
<1>1. /\ release \in Releases /\ options \in Options /\ SiteInv
      /\ order \in Orders /\ site = Resolution(order)
  BY ScheduledSite
<1>2. Home(d) \in Modules /\ d \in Polled(Home(d))
  BY <1>1, HomesAre
<1>3. SwitchOf(Home(d)) # None
  BY <1>2 DEF ScheduleInv, NowhereToPatch
<1>4. /\ PatchOf(d).from = d.tag /\ PatchOf(d).to = SwitchOf(Home(d)).tag
      /\ PatchOf(d).kind = "copper" /\ PatchOf(d).port = Patch(Home(d), d).port
  BY DEF PatchOf, Patch
<1>5. PatchOf(d).port \in Nat \ {0}
  <2>1. /\ PortsBefore(Home(d)) \in Nat /\ Patch(Home(d), d).port \in Nat
        /\ PortsBefore(Home(d)) < Patch(Home(d), d).port
    BY <1>2, PortsAre
  <2> QED
    BY <1>4, <2>1
<1>6. ASSUME NEW box \in Boxes, NEW no \in 1 .. counter[ModT(box)],
             NEW s \in devices, s.parent = ModuleOf(box, no).id
      PROVE  s.tag[1] = box /\ s.tag[2] = no
  <2>1. s \in ChildrenOf(ModuleOf(box, no))
    BY <1>6 DEF ChildrenOf
  <2>2. Holds(box, no)
    BY <1>1, ChildrenAre
  <2>3. PICK e \in KeptEntries(box, no) : s = Child(box, no, e)
    BY <2>1, <2>2 DEF Holds
  <2>4. s.tag = <<box, no, e.name, e.k>>
    BY <2>2, <2>3 DEF Holds
  <2> QED
    BY <2>4
<1>7. CASE Home(d) = PadModule
  <2>1. d.tag[1] \in {"BESS", "PCS"}
    BY <1>1, <1>2, <1>7, PadChildrenAre, PadOrder
  <2>2. SwitchOf(Home(d)) = One(ModuleOf("G", 1), MgmtSwitches)
    BY <1>2, <1>7, SwitchesAre
  <2>3. /\ SwitchOf(Home(d)) \in devices
        /\ SwitchOf(Home(d)).parent = ModuleOf("G", 1).id
    BY <1>3, <2>2, OneIsThere
  <2>4. "G" \in Boxes /\ 1 \in 1 .. counter[ModT("G")]
    <3>1. ModT("G") = "grid_module" /\ Len(GridVariants) \in Nat \ {0}
      BY ScheduledSite DEF ModT, KindOf, ModuleTemplate
    <3> QED
      BY <1>1, <3>1 DEF SiteInv, Boxes
  <2>5. SwitchOf(Home(d)).tag[1] = "G" /\ SwitchOf(Home(d)).tag[2] = 1
    BY <1>6, <2>3, <2>4
  <2> QED
    BY <1>4, <1>5, <1>7, <2>1, <2>3, <2>5
<1>8. CASE Home(d) # PadModule
  <2>1. PICK box \in Boxes : \E no \in 1 .. counter[ModT(box)] : Home(d) = ModuleOf(box, no)
    BY <1>1, <1>2, <1>8, ModulesOfSite
  <2>2. PICK no \in 1 .. counter[ModT(box)] : Home(d) = ModuleOf(box, no)
    BY <2>1
  <2>3. d.tag[1] = box /\ d.tag[2] = no
    BY <1>1, <1>2, <2>2, ContainerOrder
  <2>4. SwitchOf(Home(d)) = One(Home(d), MgmtSwitches)
    BY <1>2, <1>8, SwitchesAre
  <2>5. SwitchOf(Home(d)) \in devices /\ SwitchOf(Home(d)).parent = Home(d).id
    BY <1>3, <2>4, OneIsThere
  <2>6. SwitchOf(Home(d)).tag[1] = box /\ SwitchOf(Home(d)).tag[2] = no
    BY <1>6, <2>2, <2>5
  <2> QED
    BY <1>4, <1>5, <1>8, <2>2, <2>3, <2>5, <2>6
<1> QED
  BY <1>7, <1>8

\* No port of a switch takes two.
LEMMA PortsDiffer ==
  ASSUME ManifestInv, ScheduleInv, stage \in Scheduled,
         NEW d \in devices, d.polled, NEW f \in devices, f.polled,
         PatchOf(d).to = PatchOf(f).to, PatchOf(d).port = PatchOf(f).port
  PROVE  d = f
<1>1. /\ release \in Releases /\ options \in Options /\ SiteInv
  BY ScheduledSite
<1>2. /\ Home(d) \in Modules /\ d \in Polled(Home(d))
      /\ Home(f) \in Modules /\ f \in Polled(Home(f))
  BY <1>1, HomesAre
<1>3. Patch(Home(d), d).port = Patch(Home(f), f).port
  BY DEF PatchOf
<1>4. CASE Home(d) = Home(f)
  BY <1>2, <1>3, <1>4, PortsAre
<1>5. ASSUME NEW x \in devices, x.polled, NEW y \in devices, y.polled,
             Home(x) = PadModule, Home(y) # PadModule, PatchOf(x).to = PatchOf(y).to,
             Patch(Home(x), x).port = Patch(Home(y), y).port
      PROVE  FALSE
  <2>1. Home(x) \in Modules /\ x \in Polled(Home(x)) /\ Home(y) \in Modules /\ y \in Polled(Home(y))
    BY <1>1, <1>5, HomesAre
  <2>2. PatchOf(x).to[1] = "G" /\ PatchOf(x).to[2] = 1
    BY <1>5, PatchIs
  <2>3. /\ Home(y) = ModuleOf(y.tag[1], y.tag[2])
        /\ PatchOf(y).to[1] = y.tag[1] /\ PatchOf(y).to[2] = y.tag[2]
    BY <1>5, PatchIs
  <2>4. Home(y) = ModuleOf("G", 1)
    BY <1>5, <2>2, <2>3
  <2>5. PortsBefore(Home(y)) = 0 /\ PortsBefore(Home(x)) = Cardinality(Polled(Home(y)))
    BY <1>5, <2>1, <2>4, SwitchesAre
  <2>6. /\ Patch(Home(y), y).port \in Nat
        /\ Patch(Home(y), y).port <= PortsBefore(Home(y)) + Cardinality(Polled(Home(y)))
        /\ Patch(Home(x), x).port \in Nat
        /\ PortsBefore(Home(x)) < Patch(Home(x), x).port
    BY <2>1, PortsAre
  <2>7. Cardinality(Polled(Home(y))) \in Nat
    BY <2>1, PortsAre, FS_CardinalityType
  <2> QED
    BY <1>5, <2>5, <2>6, <2>7
<1>6. CASE Home(d) # PadModule /\ Home(f) # PadModule
  <2>1. /\ Home(d) = ModuleOf(d.tag[1], d.tag[2])
        /\ PatchOf(d).to[1] = d.tag[1] /\ PatchOf(d).to[2] = d.tag[2]
    BY <1>6, PatchIs
  <2>2. /\ Home(f) = ModuleOf(f.tag[1], f.tag[2])
        /\ PatchOf(f).to[1] = f.tag[1] /\ PatchOf(f).to[2] = f.tag[2]
    BY <1>6, PatchIs
  <2> QED
    BY <1>4, <2>1, <2>2
<1> QED
  BY <1>3, <1>4, <1>5, <1>6

-----------------------------------------------------------------------------
(***************************************************************************)
(* Every run and hose joins devices of the site.                           *)
(***************************************************************************)
Landing == Tags \cup {EmsGateway.tag}
Lands(r) == r.from \in Landing /\ r.to \in Landing
\* Runs that are no patches.
PlainRun(kind, from, to) == [kind |-> kind, from |-> from, to |-> to, port |-> 0]
Joins(r, kinds) ==
    \E kind \in kinds : \E from \in Landing : \E to \in Landing : r = PlainRun(kind, from, to)

LEMMA JoinsLand ==
  ASSUME NEW kinds, NEW r, Joins(r, kinds)
  PROVE  Lands(r) /\ r.port = 0 /\ r.kind \in kinds
<1>1. PICK kind \in kinds : \E from \in Landing : \E to \in Landing : r = PlainRun(kind, from, to)
  BY DEF Joins
<1>2. PICK from \in Landing : \E to \in Landing : r = PlainRun(kind, from, to)
  BY <1>1
<1>3. PICK to \in Landing : r = PlainRun(kind, from, to)
  BY <1>2
<1> QED
  BY <1>3 DEF PlainRun, Lands

LEMMA RunLands ==
  ASSUME NEW kinds, NEW kind \in kinds, NEW d \in devices, NEW e \in devices
  PROVE  Joins(Run(kind, d, e), kinds)
<1>1. d.tag \in Landing /\ e.tag \in Landing
  BY DEF Landing, Tags
<1>2. Run(kind, d, e) = PlainRun(kind, d.tag, e.tag)
  BY DEF Run, PlainRun
<1> QED
  BY <1>1, <1>2 DEF Joins

LEMMA BranchesLand ==
  ASSUME ManifestInv, ScheduleInv, stage \in Scheduled, NEW no \in 1 .. site.compute,
         NEW r \in BranchCables(ModuleOf("C", no))
  PROVE  Joins(r, CableKinds)
<1> DEFINE m == ModuleOf("C", no)
           h == Held(no)
           p == PdusPerSide(Held(no))
           pnl == One(m, {"panelboard"})
           nodes == InTagOrder(Of(m, NodeTemplates))
           paths == {Path(m, side) : side \in Sides} \ {<<>>}
           pdus == Of(m, {"pdu"})
           loads == Of(m, {"cdu"} \cup DryCoolers)
           switches == Of(m, Switches)
<1>0. /\ SiteInv /\ order \in Orders /\ site = Resolution(order)
      /\ release \in Releases /\ options \in Options
      /\ "C" \in Boxes /\ no \in 1 .. counter[ModT("C")]
  BY ScheduledSite DEF SiteInv, Boxes
<1>1. h \in 1 .. 7 /\ p \in 1 .. 3
  BY <1>0, HeldIs
<1>2. pdus \subseteq devices /\ loads \subseteq devices /\ switches \subseteq devices
  BY DEF Of, ChildrenOf
<1>3. pnl # None => pnl \in devices
  BY OneIsThere
<1>4. BranchCables(m) =
         (IF pnl = None THEN {}
          ELSE {Run("pdu_cord", pnl, pdu) : pdu \in pdus}
               \cup {Run("branch", pnl, load) : load \in loads})
         \cup {Run("node_cord", NodeFeed(path, i), nodes[i]) : path \in paths, i \in DOMAIN nodes}
         \cup {Run("switch_cord", path[1], switch) : path \in paths, switch \in switches}
  BY DEF BranchCables, Sides
<1>5. NodeCords(m) = {Run("node_cord", NodeFeed(path, i), nodes[i]) :
                         path \in paths, i \in DOMAIN nodes}
  BY DEF NodeCords
<1>6. "compute" \notin release.topology => switches = {}
  <2> SUFFICES ASSUME "compute" \notin release.topology PROVE switches = {}
    OBVIOUS
  <2>1. KeptEntries("C", no) = {}
    BY <1>0, KeptInContainer
  <2>2. Holds("C", no)
    BY <1>0, ChildrenAre
  <2> QED
    BY <2>1, <2>2 DEF Holds, Of
<1>7. "compute" \in release.topology =>
         /\ \A i \in 1 .. h : <<"C", no, "NODE", i>> \in Tags
         /\ \A s \in Sides : \A i \in 1 .. p :
               Child("C", no, PduE(s, i)) \in devices /\ <<"C", no, s, i>> \in Tags
         /\ \A s \in Sides : Path(m, s)[1] = Child("C", no, PduE(s, 1))
  <2> SUFFICES ASSUME "compute" \in release.topology
               PROVE  /\ \A i \in 1 .. h : <<"C", no, "NODE", i>> \in Tags
                      /\ \A s \in Sides : \A i \in 1 .. p :
                            Child("C", no, PduE(s, i)) \in devices /\ <<"C", no, s, i>> \in Tags
                      /\ \A s \in Sides : Path(m, s)[1] = Child("C", no, PduE(s, 1))
    OBVIOUS
  <2>1. /\ \A s \in Sides : Path(m, s) = [i \in 1 .. p |-> Child("C", no, PduE(s, i))]
        /\ \A i \in 1 .. h : Child("C", no, NodeE(i)).tag = <<"C", no, "NODE", i>>
        /\ \A s \in Sides : \A i \in 1 .. p : Child("C", no, PduE(s, i)).tag = <<"C", no, s, i>>
    BY <1>0, NumberedAre
  <2>2. Holds("C", no) /\ KeptEntries("C", no) = ComputeKept(no)
    BY <1>0, ChildrenAre, ComputeKeptIs
  <2>3. /\ \A i \in 1 .. h : NodeE(i) \in KeptEntries("C", no)
        /\ \A s \in Sides : \A i \in 1 .. p : PduE(s, i) \in KeptEntries("C", no)
    BY <2>2 DEF ComputeKept, Many, NodeE, PduE, Sides
  <2>4. /\ \A i \in 1 .. h : Child("C", no, NodeE(i)) \in devices
        /\ \A s \in Sides : \A i \in 1 .. p : Child("C", no, PduE(s, i)) \in devices
    BY <2>2, <2>3 DEF Holds, ChildrenOf
  <2> QED
    BY <1>1, <2>1, <2>4 DEF Tags
<1> HIDE DEF pnl, nodes, paths, pdus, loads, switches
<1>8. CASE pnl # None /\ r \in {Run("pdu_cord", pnl, pdu) : pdu \in pdus}
                                 \cup {Run("branch", pnl, load) : load \in loads}
  <2>1. CASE r \in {Run("pdu_cord", pnl, pdu) : pdu \in pdus}
    BY <1>2, <1>3, <1>8, <2>1, RunLands DEF CableKinds
  <2>2. CASE r \in {Run("branch", pnl, load) : load \in loads}
    BY <1>2, <1>3, <1>8, <2>2, RunLands DEF CableKinds
  <2> QED
    BY <1>8, <2>1, <2>2
<1>9. CASE r \in NodeCords(m)
  <2>1. /\ "compute" \in release.topology
        /\ \E s \in Sides : \E i \in 1 .. h : r = Cord(no, s, i)
    BY <1>0, <1>9, CordsOfContainer
  <2>2. PICK s \in Sides : \E i \in 1 .. h : r = Cord(no, s, i)
    BY <2>1
  <2>3. PICK i \in 1 .. h : r = Cord(no, s, i)
    BY <2>2
  <2>4. r = PlainRun("node_cord", <<"C", no, s, 1 + ((i - 1) % p)>>, <<"C", no, "NODE", i>>)
    BY <2>3 DEF Cord, PlainRun
  <2>5. 1 + ((i - 1) % p) \in 1 .. p
    BY <1>1
  <2> HIDE DEF h, p
  <2> QED
    BY <1>7, <2>1, <2>4, <2>5 DEF Joins, Landing, CableKinds
<1>10. CASE r \in {Run("switch_cord", path[1], switch) : path \in paths, switch \in switches}
  <2>1. PICK path \in paths, switch \in switches : r = Run("switch_cord", path[1], switch)
    BY <1>10
  <2>2. "compute" \in release.topology
    BY <1>6
  <2>3. PICK s \in Sides : path = Path(m, s)
    BY DEF paths
  <2>4. path[1] \in devices
    <3>1. 1 \in 1 .. p
      BY <1>1
    <3> HIDE DEF p
    <3>2. Child("C", no, PduE(s, 1)) \in devices /\ Path(m, s)[1] = Child("C", no, PduE(s, 1))
      BY <1>7, <2>2, <3>1
    <3> QED
      BY <2>3, <3>2
  <2> QED
    BY <1>2, <2>1, <2>4, RunLands DEF CableKinds
<1> QED
  BY <1>4, <1>5, <1>8, <1>9, <1>10

LEMMA CablesLand ==
  ASSUME ManifestInv, ScheduleInv, stage \in Scheduled
  PROVE  /\ \A r \in cables \cup hoses : Lands(r)
         /\ \A r \in cables : r.port # 0 <=> r \in PatchCables
         /\ \A r \in cables : r \notin PatchCables => Joins(r, CableKinds)
         /\ \A r \in hoses : Joins(r, HoseKinds)
<1>0. /\ SiteInv /\ order \in Orders /\ release \in Releases /\ options \in Options
  BY ScheduledSite
<1>1. \A m, T : Of(m, T) \subseteq devices
  BY DEF Of, ChildrenOf
<1>2. \A m, T : One(m, T) # None => One(m, T) \in devices
  BY OneIsThere
<1>3. \A r \in FeederCables : Joins(r, CableKinds)
  <2> DEFINE compute == Containers("compute")
             grids == Containers("grid")
             feeds == ComputeFeeds(Len(compute), Len(grids))
             swbd(k) == One(grids[k], {"lv_switchboard"})
             pnl(n) == One(compute[n], {"panelboard"})
  <2>1. FeederCables = UNION {{Run("feeder", swbd(k), pnl(n)) : n \in {x \in feeds[k] : pnl(x) # None}} :
                                k \in {j \in DOMAIN grids : swbd(j) # None}}
    BY DEF FeederCables
  <2>2. \A k : swbd(k) # None => swbd(k) \in devices
    BY <1>2
  <2>3. \A n : pnl(n) # None => pnl(n) \in devices
    BY <1>2
  <2> HIDE DEF compute, grids, feeds, swbd, pnl
  <2>4. ASSUME NEW r \in FeederCables PROVE \E d, e \in devices : r = Run("feeder", d, e)
    BY <2>1, <2>2, <2>3
  <2> QED
    BY <2>4, RunLands DEF CableKinds
<1>4. \A r \in PadCables : Joins(r, CableKinds)
  <2>1. ASSUME NEW r \in PadCables PROVE \E d, e \in devices : r = Run("pcs_dc", d, e)
    BY <1>1 DEF PadCables
  <2> QED
    BY <2>1, RunLands DEF CableKinds
<1>5. \A r \in PatchCables : Lands(r) /\ r.port # 0
  <2>1. ASSUME NEW r \in PatchCables PROVE Lands(r) /\ r.port # 0
    <3>1. PICK d \in {e \in devices : e.polled} : r = PatchOf(d)
      BY PatchesAre
    <3>2. /\ SwitchOf(Home(d)) \in devices /\ r.from = d.tag /\ r.to = SwitchOf(Home(d)).tag
          /\ r.port \in Nat \ {0}
      BY <3>1, PatchIs
    <3> QED
      BY <3>2 DEF Lands, Landing, Tags
  <2> QED
    BY <2>1
<1>6. G1 # None => G1 \in devices
  BY <1>2 DEF G1
<1>7. \A r \in Uplinks : Joins(r, CableKinds)
  <2> DEFINE up(m) == One(m, MgmtSwitches)
  <2>1. Uplinks = IF G1 = None THEN {}
                  ELSE {Run("fiber", up(m), G1) : m \in {n \in Modules : up(n) \notin {None, G1}}}
                       \cup {Run("copper", G1, EmsGateway)}
    BY DEF Uplinks
  <2>2. \A m : up(m) # None => up(m) \in devices
    BY <1>2
  <2> HIDE DEF up
  <2>3. ASSUME NEW r \in Uplinks
        PROVE  \/ \E d, e \in devices : r = Run("fiber", d, e)
               \/ G1 \in devices /\ r = Run("copper", G1, EmsGateway)
    BY <1>6, <2>1, <2>2
  <2>4. G1 \in devices => Joins(Run("copper", G1, EmsGateway), CableKinds)
    <3>1. Run("copper", G1, EmsGateway) = PlainRun("copper", G1.tag, EmsGateway.tag)
      BY DEF Run, PlainRun
    <3>2. G1 \in devices => G1.tag \in Landing
      BY DEF Landing, Tags
    <3>3. EmsGateway.tag \in Landing /\ "copper" \in CableKinds
      BY DEF Landing, CableKinds
    <3> QED
      BY <3>1, <3>2, <3>3 DEF Joins
  <2> QED
    BY <2>3, <2>4, RunLands DEF CableKinds
<1>8. \A r \in ComputeCables : Joins(r, CableKinds)
  <2>1. \A m \in Modules : Kind(m.template) = "compute" =>
           \E no \in 1 .. site.compute : m = ModuleOf("C", no)
    <3>1. KindOf("C") = "compute" /\ counter[ModT("C")] = site.compute
      BY <1>0 DEF KindOf, SiteInv
    <3>2. {d \in devices : d.parent = None /\ Kind(d.template) = KindOf("C")}
            = {ModuleOf("C", no) : no \in 1 .. counter[ModT("C")]}
      BY <1>0, ModulesAre DEF Boxes
    <3> QED
      BY <3>1, <3>2 DEF Modules
  <2>2. ASSUME NEW r \in ComputeCables
        PROVE  \E no \in 1 .. site.compute : r \in BranchCables(ModuleOf("C", no))
    BY <2>1 DEF ComputeCables
  <2> QED
    BY <2>2, BranchesLand
<1>9. \A r \in Hoses : Joins(r, HoseKinds)
  <2> DEFINE cdu(m) == One(m, {"cdu"})
             cooler(m) == One(m, DryCoolers)
             nodes(m) == Of(m, NodeTemplates)
  <2>1. \A m : /\ cdu(m) # None => cdu(m) \in devices
               /\ cooler(m) # None => cooler(m) \in devices
               /\ nodes(m) \subseteq devices
    BY <1>1, <1>2
  <2>2. Hoses = UNION {Loops(cdu(m), cooler(m), nodes(m)) : m \in {n \in Modules : cdu(n) # None}}
    BY DEF Hoses
  <2> HIDE DEF cdu, cooler, nodes
  <2>3. ASSUME NEW m, cdu(m) # None, NEW r \in Loops(cdu(m), cooler(m), nodes(m))
        PROVE  \E kind \in HoseKinds : \E d, e \in devices : r = Run(kind, d, e)
    BY <2>1, <2>3 DEF Loops, HoseKinds
  <2>4. ASSUME NEW r \in Hoses PROVE \E kind \in HoseKinds : \E d, e \in devices : r = Run(kind, d, e)
    BY <2>2, <2>3
  <2> QED
    BY <2>4, RunLands
<1>10. cables = FeederCables \cup PadCables \cup PatchCables \cup Uplinks \cup ComputeCables
       /\ hoses = Hoses
  BY DEF ScheduleInv, CablesNow
<1>11. \A r \in cables : r \notin PatchCables => Joins(r, CableKinds)
  BY <1>3, <1>4, <1>7, <1>8, <1>10
<1>12. \A r \in hoses : Joins(r, HoseKinds)
  BY <1>9, <1>10
<1> QED
  BY <1>5, <1>11, <1>12, JoinsLand

\* Each polled device has a patch to a switch of its container, or of G1 for
\* the battery, no switch has two patches on a port, and no run ends in the
\* air, for orders of any size (comms_cables, power_cables, hoses).
THEOREM RunsLand == PkgSpec => []EveryRunLands
<1>1. ASSUME ManifestInv, ScheduleInv
      PROVE  EveryRunLands
  <2> SUFFICES ASSUME stage = "bom" PROVE EveryRunLands
    BY DEF EveryRunLands
  <2> DEFINE patches == {r \in cables : r.port # 0}
             P == {d \in devices : d.polled}
             patch == [d \in P |-> PatchOf(d)]
             plug == [r \in patches |-> <<r.to, r.port>>]
  <2>1. stage \in Scheduled
    BY DEF Scheduled
  <2>2. patches = PatchCables
    <3>1. PatchCables \subseteq cables
      BY <1>1, <2>1 DEF ScheduleInv, CablesNow
    <3> QED
      BY <1>1, <2>1, <3>1, CablesLand
  <2>3. IsFiniteSet(P)
    BY <1>1, DevicesDiffer, PartIsSmaller
  <2>4. /\ DOMAIN patch = P /\ DOMAIN plug = patches
        /\ \A d \in P : patch[d] = PatchOf(d)
        /\ \A r \in patches : plug[r] = <<r.to, r.port>>
    OBVIOUS
  <2>5. \A d \in P : d \in devices /\ d.polled
    OBVIOUS
  <2> HIDE DEF patches, P, patch, plug
  <2>6. patches = {patch[d] : d \in P}
    <3>1. PatchCables = {PatchOf(d) : d \in P}
      BY <1>1, <2>1, PatchesAre DEF P
    <3> QED
      BY <2>2, <2>4, <3>1
  <2>7. \A d, f \in P : PatchOf(d).to = PatchOf(f).to /\ PatchOf(d).port = PatchOf(f).port => d = f
    BY <1>1, <2>1, <2>5, PortsDiffer
  <2>8. \A d, f \in P : patch[d] = patch[f] => d = f
    BY <2>4, <2>7
  <2>9. IsFiniteSet(patches) /\ Cardinality(patches) = Cardinality(P)
    BY <2>3, <2>4, <2>6, <2>8, ImageIsAsLarge
  <2>10. \A r, q \in patches : plug[r] = plug[q] => r = q
    <3>1. ASSUME NEW r \in patches, NEW q \in patches, plug[r] = plug[q] PROVE r = q
      <4>1. PICK d \in P : r = PatchOf(d)
        BY <2>4, <2>6
      <4>2. PICK f \in P : q = PatchOf(f)
        BY <2>4, <2>6
      <4>3. <<r.to, r.port>> = <<q.to, q.port>>
        BY <2>4, <3>1
      <4>4. r.to = q.to /\ r.port = q.port
        BY <4>3
      <4> QED
        BY <2>7, <4>1, <4>2, <4>4
    <3> QED
      BY <3>1
  <2>11. Cardinality({<<r.to, r.port>> : r \in patches}) = Cardinality(patches)
    <3>1. {<<r.to, r.port>> : r \in patches} = {plug[r] : r \in patches}
      BY <2>4
    <3> DEFINE ports == {<<r.to, r.port>> : r \in patches}
    <3>2. ports = {plug[r] : r \in patches}
      BY <3>1
    <3> HIDE DEF ports
    <3>3. Cardinality(ports) = Cardinality(patches)
      BY <2>4, <2>9, <2>10, <3>2, ImageIsAsLarge
    <3> QED
      BY <3>3 DEF ports
  <2>12. ASSUME NEW d \in P
         PROVE  \E r \in patches :
                   /\ r.from = d.tag
                   /\ r.to[1] = IF d.tag[1] \in {"C", "G"} THEN d.tag[1] ELSE "G"
                   /\ r.to[2] = IF d.tag[1] \in {"C", "G"} THEN d.tag[2] ELSE 1
    <3>1. PatchOf(d) \in patches
      BY <2>4, <2>6
    <3>2. /\ PatchOf(d).from = d.tag
          /\ Home(d) = PadModule =>
                /\ d.tag[1] \notin {"C", "G"}
                /\ PatchOf(d).to[1] = "G" /\ PatchOf(d).to[2] = 1
          /\ Home(d) # PadModule =>
                /\ d.tag[1] \in Boxes
                /\ PatchOf(d).to[1] = d.tag[1] /\ PatchOf(d).to[2] = d.tag[2]
      BY <1>1, <2>1, <2>5, PatchIs
    <3> QED
      BY <3>1, <3>2 DEF Boxes
  <2>13. UNION {{r.from, r.to} : r \in cables \cup hoses} \subseteq Tags \cup {EmsGateway.tag}
    BY <1>1, <2>1, CablesLand DEF Lands, Landing
  <2> QED
    BY <2>9, <2>11, <2>12, <2>13 DEF EveryRunLands, patches, P
<1> QED
  BY <1>1, InitManifest, StepManifest, InitSchedule, StepSchedule, PTL DEF PkgSpec
=============================================================================
