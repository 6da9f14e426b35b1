-------------------------- MODULE ManifestProofs ---------------------------
(***************************************************************************)
(* Theorems about the device manifest of Package, for orders of any size   *)
(* and any release.  The argument is that the manifest is known exactly:   *)
(* container n of a kind has the n-th slug of its module and, for each     *)
(* entry of its topology that is not dropped, one device of that entry's   *)
(* tag, template and polling below the module; beside the containers there *)
(* are the pad and the utility's devices, and nothing else (SiteInv).      *)
(***************************************************************************)
EXTENDS Package, SizingProofs, SequenceTheorems

-----------------------------------------------------------------------------
(***************************************************************************)
(* Topologies.                                                             *)
(***************************************************************************)
LeafTemplates ==
    {"rack", "panelboard", "gpu_node", "gpu_node_h100", "cdu", "network_switch", "mgmt_switch",
     "pdu", "dc_external", "switchgear", "protective_relay", "transformer", "lv_switchboard",
     "grid_mgmt_switch", "poi_meter", "new_template"}
Entries == [name : EntryNames, k : Nat, template : LeafTemplates, polled : BOOLEAN]

\* T, with names among `names`, names no two devices alike.
IsTopology(T, names) ==
    /\ T \in Seq(Entries)
    /\ \A i \in 1 .. Len(T) : T[i].name \in names /\ T[i].name # Itself
    /\ \A i, j \in 1 .. Len(T) : T[i].name = T[j].name /\ T[i].k = T[j].k => i = j

\* Topologies without a name in common make one.
LEMMA Joined ==
  ASSUME NEW S, NEW T, NEW M, NEW N,
         IsTopology(S, M), IsTopology(T, N), M \cap N = {}
  PROVE  IsTopology(S \o T, M \cup N)
<1> DEFINE ST == S \o T
<1>1. /\ ST \in Seq(Entries)
      /\ Len(ST) = Len(S) + Len(T)
      /\ \A i \in 1 .. Len(S) + Len(T) : ST[i] = IF i <= Len(S) THEN S[i] ELSE T[i - Len(S)]
  <2>1. S \in Seq(Entries) /\ T \in Seq(Entries)
    BY DEF IsTopology
  <2> QED
    BY <2>1, ConcatProperties
<1>2. Len(S) \in Nat /\ Len(T) \in Nat
  BY LenProperties DEF IsTopology
<1>3. \A i \in 1 .. Len(ST) :
         \/ i \in 1 .. Len(S) /\ ST[i] = S[i]
         \/ /\ ~(i <= Len(S)) /\ i - Len(S) \in 1 .. Len(T)
            /\ ST[i] = T[i - Len(S)]
  BY <1>1, <1>2
<1> HIDE DEF ST
<1>4. \A i \in 1 .. Len(ST) : ST[i].name \in M \cup N /\ ST[i].name # Itself
  BY <1>3 DEF IsTopology
<1>5. ASSUME NEW i \in 1 .. Len(ST), NEW j \in 1 .. Len(ST),
             ST[i].name = ST[j].name, ST[i].k = ST[j].k
      PROVE  i = j
  <2>0. i \in Int /\ j \in Int
    BY <1>1, <1>2
  <2>1. CASE i \in 1 .. Len(S) /\ j \in 1 .. Len(S)
    <3>1. ST[i] = S[i] /\ ST[j] = S[j]
      BY <1>2, <1>3, <2>1
    <3> QED
      BY <1>5, <2>1, <3>1 DEF IsTopology
  <2>2. CASE i \notin 1 .. Len(S) /\ j \notin 1 .. Len(S)
    <3>1. /\ i - Len(S) \in 1 .. Len(T) /\ ST[i] = T[i - Len(S)]
          /\ j - Len(S) \in 1 .. Len(T) /\ ST[j] = T[j - Len(S)]
      BY <1>3, <2>2
    <3>2. i - Len(S) = j - Len(S)
      BY <1>5, <3>1 DEF IsTopology
    <3> QED
      BY <1>2, <2>0, <3>2
  <2>3. CASE i \in 1 .. Len(S) /\ j \notin 1 .. Len(S)
    <3>1. ST[i] = S[i] /\ ST[j] = T[j - Len(S)] /\ j - Len(S) \in 1 .. Len(T)
      BY <1>2, <1>3, <2>3
    <3> QED
      BY <1>5, <2>3, <3>1 DEF IsTopology
  <2>4. CASE i \notin 1 .. Len(S) /\ j \in 1 .. Len(S)
    <3>1. ST[j] = S[j] /\ ST[i] = T[i - Len(S)] /\ i - Len(S) \in 1 .. Len(T)
      BY <1>2, <1>3, <2>4
    <3> QED
      BY <1>5, <2>4, <3>1 DEF IsTopology
  <2> QED
    BY <2>1, <2>2, <2>3, <2>4
<1> QED
  BY <1>1, <1>4, <1>5 DEF IsTopology, ST

\* Devices of one name, numbered from 1, make one.
LEMMA Numbered ==
  ASSUME NEW n \in Nat, NEW name \in EntryNames, name # Itself,
         NEW template \in LeafTemplates, NEW polled \in BOOLEAN
  PROVE  IsTopology([i \in 1 .. n |-> Entry(name, i, template, polled)], {name})
<1> DEFINE T == [i \in 1 .. n |-> Entry(name, i, template, polled)]
<1>1. \A i \in 1 .. n : T[i] \in Entries
  BY DEF Entry, Entries
<1>2. T \in [1 .. n -> Entries]
  BY <1>1
<1>3. T \in Seq(Entries)
  BY <1>2, SeqDef
<1>4. Len(T) = n
  BY <1>2, <1>3, LenProperties
<1> QED
  BY <1>3, <1>4 DEF IsTopology, Entry

LEMMA Single ==
  ASSUME NEW a \in Entries, a.name # Itself
  PROVE  IsTopology(<< a >>, {a.name})
<1> SUFFICES ASSUME NEW T, T = << a >>
             PROVE  IsTopology(T, {a.name})
  OBVIOUS
<1>1. T \in Seq(Entries) /\ Len(T) = 1 /\ T[1] = a
  OBVIOUS
<1>2. \A i \in 1 .. Len(T) : i = 1
  BY <1>1
<1> QED
  BY <1>1, <1>2 DEF IsTopology

LEMMA Two ==
  ASSUME NEW a \in Entries, NEW b \in Entries,
         \A e \in {a, b} : e.name # Itself,
         a.name # b.name
  PROVE  IsTopology(<< a, b >>, {a.name, b.name})
<1> SUFFICES ASSUME NEW T, T = << a, b >>
             PROVE  IsTopology(T, {a.name, b.name})
  OBVIOUS
<1>1. T \in Seq(Entries) /\ Len(T) = 2 /\ T[1] = a /\ T[2] = b
  OBVIOUS
<1>2. \A i \in 1 .. 2 : i = 1 \/ i = 2
  OBVIOUS
<1> QED
  BY <1>1, <1>2 DEF IsTopology

LEMMA Three ==
  ASSUME NEW a \in Entries, NEW b \in Entries, NEW c \in Entries,
         \A e \in {a, b, c} : e.name # Itself,
         a.name # b.name, a.name # c.name, b.name # c.name
  PROVE  IsTopology(<< a, b, c >>, {a.name, b.name, c.name})
<1> DEFINE T == << a, b, c >>
<1>1. T \in Seq(Entries) /\ Len(T) = 3 /\ T[1] = a /\ T[2] = b /\ T[3] = c
  OBVIOUS
<1>2. \A i \in 1 .. 3 : i = 1 \/ i = 2 \/ i = 3
  OBVIOUS
<1> HIDE DEF T
<1>3. IsTopology(T, {a.name, b.name, c.name})
  BY <1>1, <1>2 DEF IsTopology
<1> QED
  BY <1>3 DEF T

\* The topologies of the release, and a defective one.
LEMMA FeederTagsDiffer ==
  IsTopology(FeederTopology, {"SWG", "RLY", "T", "SWBD", "SW-MGMT"})
<1> DEFINE a == Entry("SWG", 1, "switchgear", FALSE)
           b == Entry("RLY", 1, "protective_relay", TRUE)
           c == Entry("T", 1, "transformer", FALSE)
           d == Entry("SWBD", 1, "lv_switchboard", FALSE)
           e == Entry("SW-MGMT", 1, "grid_mgmt_switch", FALSE)
           T == << a, b, c, d, e >>
<1>1. /\ a \in Entries /\ b \in Entries /\ c \in Entries /\ d \in Entries /\ e \in Entries
      /\ a.name = "SWG" /\ b.name = "RLY" /\ c.name = "T" /\ d.name = "SWBD"
      /\ e.name = "SW-MGMT"
      /\ \A x \in {a, b, c, d, e} : x.name # Itself
  <2>1. /\ a \in Entries /\ b \in Entries /\ c \in Entries /\ d \in Entries /\ e \in Entries
    BY DEF Entry, Entries, EntryNames, LeafTemplates
  <2>2. /\ a.name = "SWG" /\ b.name = "RLY" /\ c.name = "T" /\ d.name = "SWBD"
        /\ e.name = "SW-MGMT"
    BY DEF Entry
  <2>3. \A x \in {a, b, c, d, e} : x.name # Itself
    BY DEF Entry, Itself
  <2> QED
    BY <2>1, <2>2, <2>3
<1> HIDE DEF a, b, c, d, e
<1>2. /\ T \in Seq(Entries) /\ Len(T) = 5
      /\ T[1] = a /\ T[2] = b /\ T[3] = c /\ T[4] = d /\ T[5] = e
  BY <1>1
<1>3. \A i \in 1 .. 5 : i = 1 \/ i = 2 \/ i = 3 \/ i = 4 \/ i = 5
  OBVIOUS
<1> HIDE DEF T
<1>4. IsTopology(T, {"SWG", "RLY", "T", "SWBD", "SW-MGMT"})
  BY <1>1, <1>2, <1>3 DEF IsTopology
<1> QED
  BY <1>4 DEF T, a, b, c, d, e, FeederTopology

LEMMA PrimaryTagsDiffer ==
  ASSUME NEW new \in BOOLEAN
  PROVE  \E names : IsTopology(PrimaryTopology(new), names)
<1> DEFINE m == Entry("MTR-POI", 0, "poi_meter", TRUE)
           n == Entry("NEW", 1, "new_template", FALSE)
           U == FeederTopology \o << m >>
<1>1. /\ m \in Entries /\ m.name = "MTR-POI" /\ m.name # Itself
      /\ n \in Entries /\ n.name = "NEW" /\ n.name # Itself
  <2>1. m \in Entries /\ n \in Entries
    BY DEF Entry, Entries, EntryNames, LeafTemplates
  <2> QED
    BY <2>1 DEF Entry, Itself
<1> HIDE DEF m, n
<1>2. IsTopology(<< m >>, {"MTR-POI"}) /\ IsTopology(<< n >>, {"NEW"})
  BY <1>1, Single
<1>3. PICK names : names = {"SWG", "RLY", "T", "SWBD", "SW-MGMT", "MTR-POI"} /\ IsTopology(U, names)
  <2>1. {"SWG", "RLY", "T", "SWBD", "SW-MGMT"} \cap {"MTR-POI"} = {}
    OBVIOUS
  <2>2. IsTopology(U, {"SWG", "RLY", "T", "SWBD", "SW-MGMT"} \cup {"MTR-POI"})
    BY <1>2, <2>1, FeederTagsDiffer, Joined
  <2>3. {"SWG", "RLY", "T", "SWBD", "SW-MGMT"} \cup {"MTR-POI"}
           = {"SWG", "RLY", "T", "SWBD", "SW-MGMT", "MTR-POI"}
    OBVIOUS
  <2> HIDE DEF U
  <2> QED
    BY <2>2, <2>3
<1> HIDE DEF U
<1>4. CASE new
  <2>1. names \cap {"NEW"} = {}
    BY <1>3
  <2>2. IsTopology(U \o << n >>, names \cup {"NEW"})
    BY <1>2, <1>3, <2>1, Joined
  <2>3. PrimaryTopology(new) = U \o << n >>
    BY <1>4 DEF PrimaryTopology, U, m, n
  <2> QED
    BY <2>2, <2>3
<1>5. CASE ~new
  <2>1. U \in Seq(Entries)
    BY <1>3 DEF IsTopology
  <2>2. U \o <<>> = U
    BY <2>1, ConcatEmptySeq
  <2>3. PrimaryTopology(new) = U \o <<>>
    BY <1>5 DEF PrimaryTopology, U, m
  <2> QED
    BY <1>3, <2>2, <2>3
<1> QED
  BY <1>4, <1>5

LEMMA ComputeTagsDiffer ==
  ASSUME NEW v
  PROVE  \E names : IsTopology(ComputeTopology(v), names)
<1> DEFINE rack == Entry("RACK", 1, "rack", FALSE)
           pnl == Entry("PNL", 1, "panelboard", FALSE)
           cdu == Entry("CDU", 1, "cdu", TRUE)
           data == Entry("SW-DATA", 1, "network_switch", TRUE)
           mgmt == Entry("SW-MGMT", 1, "mgmt_switch", FALSE)
           dc == Entry("DC", 1, "dc_external", TRUE)
           nodes == [i \in 1 .. NODES_PER_COMPUTE_CONTAINER |->
                        Entry("NODE", i, NodeTemplate(v), TRUE)]
           pduA == [i \in 1 .. 3 |-> Entry("PDU-A", i, "pdu", TRUE)]
           pduB == [i \in 1 .. 3 |-> Entry("PDU-B", i, "pdu", TRUE)]
           N1 == {"RACK", "PNL"} \cup {"NODE"}
           N2 == N1 \cup {"CDU", "SW-DATA", "SW-MGMT"}
           N3 == N2 \cup {"PDU-A"}
           N4 == N3 \cup {"PDU-B"}
           T1 == << rack, pnl >> \o nodes
           T2 == T1 \o << cdu, data, mgmt >>
           T3 == T2 \o pduA
           T4 == T3 \o pduB
<1>1. \A e \in {rack, pnl, cdu, data, mgmt, dc} :
         e \in Entries /\ e.name # Itself
  <2>1. /\ rack \in Entries /\ pnl \in Entries /\ cdu \in Entries
        /\ data \in Entries /\ mgmt \in Entries /\ dc \in Entries
    BY DEF Entry, Entries, EntryNames, LeafTemplates
  <2>2. \A e \in {rack, pnl, cdu, data, mgmt, dc} :
           e.name # Itself
    BY DEF Entry, Itself
  <2> HIDE DEF rack, pnl, cdu, data, mgmt, dc
  <2> QED
    BY <2>1, <2>2
<1>2. /\ rack.name = "RACK" /\ pnl.name = "PNL" /\ cdu.name = "CDU"
      /\ data.name = "SW-DATA" /\ mgmt.name = "SW-MGMT" /\ dc.name = "DC"
  BY DEF Entry
<1>3. NodeTemplate(v) \in LeafTemplates
  BY DEF NodeTemplate, LeafTemplates
<1>4. "pdu" \in LeafTemplates
  BY DEF LeafTemplates
<1>5. /\ \A name \in {"NODE", "PDU-A", "PDU-B"} : name \in EntryNames /\ name # Itself
      /\ NODES_PER_COMPUTE_CONTAINER \in Nat
  BY DEF EntryNames, Itself, NODES_PER_COMPUTE_CONTAINER
<1>6. /\ IsTopology(nodes, {"NODE"})
      /\ IsTopology(pduA, {"PDU-A"}) /\ IsTopology(pduB, {"PDU-B"})
  BY <1>3, <1>4, <1>5, Numbered
<1> HIDE DEF rack, pnl, cdu, data, mgmt, dc, nodes, pduA, pduB
<1>7. /\ IsTopology(<< rack, pnl >>, {"RACK", "PNL"})
      /\ IsTopology(<< cdu, data, mgmt >>, {"CDU", "SW-DATA", "SW-MGMT"})
      /\ IsTopology(<< dc >>, {"DC"})
  <2>1. IsTopology(<< rack, pnl >>, {rack.name, pnl.name})
    BY <1>1, <1>2, Two
  <2>2. IsTopology(<< cdu, data, mgmt >>, {cdu.name, data.name, mgmt.name})
    BY <1>1, <1>2, Three
  <2>3. IsTopology(<< dc >>, {dc.name})
    BY <1>1, Single
  <2> QED
    BY <1>2, <2>1, <2>2, <2>3
<1>8. /\ {"RACK", "PNL"} \cap {"NODE"} = {} /\ N1 \cap {"CDU", "SW-DATA", "SW-MGMT"} = {}
      /\ N2 \cap {"PDU-A"} = {} /\ N3 \cap {"PDU-B"} = {} /\ N4 \cap {"DC"} = {}
  OBVIOUS
<1> HIDE DEF N1, N2, N3, N4
<1>9. IsTopology(T1, N1)
  BY <1>6, <1>7, <1>8, Joined DEF N1
<1> HIDE DEF T1
<1>10. IsTopology(T2, N2)
  BY <1>7, <1>8, <1>9, Joined DEF N2
<1> HIDE DEF T2
<1>11. IsTopology(T3, N3)
  BY <1>6, <1>8, <1>10, Joined DEF N3
<1> HIDE DEF T3
<1>12. IsTopology(T4, N4)
  BY <1>6, <1>8, <1>11, Joined DEF N4
<1> HIDE DEF T4
<1>13. IsTopology(T4 \o << dc >>, N4 \cup {"DC"})
  BY <1>7, <1>8, <1>12, Joined
<1> QED
  BY <1>13 DEF T4, T3, T2, T1, rack, pnl, cdu, data, mgmt, dc, nodes, pduA, pduB,
               ComputeTopology

LEMMA Fetched ==
  ASSUME release \in Releases, NEW v
  PROVE  \/ FetchTopology(v) = None
         \/ \E names : IsTopology(FetchTopology(v), names)
<1>1. CASE v \notin release.topology
  BY <1>1 DEF FetchTopology
<1>2. CASE v \in release.topology
  <2>1. release.newTemplate \in BOOLEAN /\ v \in {"compute", "primary", "feeder"}
    BY <1>2 DEF Releases
  <2>2. \E names : IsTopology(ComputeTopology(order.variant), names)
    BY ComputeTagsDiffer
  <2>3. \E names : IsTopology(PrimaryTopology(release.newTemplate), names)
    BY <2>1, PrimaryTagsDiffer
  <2>4. \E names : IsTopology(FeederTopology, names)
    BY FeederTagsDiffer
  <2>5. FetchTopology(v) \in {ComputeTopology(order.variant),
                              PrimaryTopology(release.newTemplate), FeederTopology}
    BY <1>2, <2>1 DEF FetchTopology
  <2> QED
    BY <2>2, <2>3, <2>4, <2>5
<1> QED
  BY <1>1, <1>2

-----------------------------------------------------------------------------
(***************************************************************************)
(* The entries of each topology, as a set.                                 *)
(***************************************************************************)
EntriesIn(T) == {T[i] : i \in 1 .. Len(T)}

LEMMA EntriesJoined ==
  ASSUME NEW S \in Seq(Entries), NEW T \in Seq(Entries)
  PROVE  S \o T \in Seq(Entries) /\ EntriesIn(S \o T) = EntriesIn(S) \cup EntriesIn(T)
<1> DEFINE ST == S \o T
<1>1. /\ ST \in Seq(Entries)
      /\ Len(ST) = Len(S) + Len(T)
      /\ \A i \in 1 .. Len(S) + Len(T) : ST[i] = IF i <= Len(S) THEN S[i] ELSE T[i - Len(S)]
  BY ConcatProperties
<1>2. Len(S) \in Nat /\ Len(T) \in Nat
  BY LenProperties
<1> HIDE DEF ST
<1>3. \A i \in 1 .. Len(ST) : ST[i] \in EntriesIn(S) \cup EntriesIn(T)
  BY <1>1, <1>2 DEF EntriesIn
<1>4. \A i \in 1 .. Len(S) : i \in 1 .. Len(ST) /\ ST[i] = S[i]
  BY <1>1, <1>2
<1>5. \A i \in 1 .. Len(T) : i + Len(S) \in 1 .. Len(ST) /\ ST[i + Len(S)] = T[i]
  <2> SUFFICES ASSUME NEW i \in 1 .. Len(T)
               PROVE  i + Len(S) \in 1 .. Len(ST) /\ ST[i + Len(S)] = T[i]
    OBVIOUS
  <2>1. i + Len(S) \in 1 .. Len(S) + Len(T) /\ ~(i + Len(S) <= Len(S)) /\ i + Len(S) - Len(S) = i
    BY <1>2
  <2> QED
    BY <1>1, <2>1
<1>6. EntriesIn(ST) = EntriesIn(S) \cup EntriesIn(T)
  <2>1. EntriesIn(ST) \subseteq EntriesIn(S) \cup EntriesIn(T)
    BY <1>3 DEF EntriesIn
  <2>2. \A i \in 1 .. Len(S) : S[i] \in EntriesIn(ST)
    BY <1>4 DEF EntriesIn
  <2>3. \A i \in 1 .. Len(T) : T[i] \in EntriesIn(ST)
    BY <1>5 DEF EntriesIn
  <2>4. EntriesIn(S) \subseteq EntriesIn(ST)
    BY <2>2 DEF EntriesIn
  <2>5. EntriesIn(T) \subseteq EntriesIn(ST)
    BY <2>3 DEF EntriesIn
  <2> QED
    BY <2>1, <2>4, <2>5
<1> QED
  BY <1>1, <1>6 DEF ST

LEMMA EntriesListed ==
  ASSUME NEW a \in Entries, NEW b \in Entries, NEW c \in Entries
  PROVE  /\ <<a>> \in Seq(Entries) /\ EntriesIn(<<a>>) = {a}
         /\ <<a, b>> \in Seq(Entries) /\ EntriesIn(<<a, b>>) = {a, b}
         /\ <<a, b, c>> \in Seq(Entries) /\ EntriesIn(<<a, b, c>>) = {a, b, c}
<1>1. <<a>> \in Seq(Entries) /\ EntriesIn(<<a>>) = {a}
  BY DEF EntriesIn
<1>2. <<a, b>> \in Seq(Entries) /\ EntriesIn(<<a, b>>) = {a, b}
  <2> DEFINE T == <<a, b>>
  <2>1. T \in Seq(Entries) /\ Len(T) = 2 /\ T[1] = a /\ T[2] = b
    OBVIOUS
  <2>2. \A i : i \in 1 .. 2 <=> i = 1 \/ i = 2
    OBVIOUS
  <2> HIDE DEF T
  <2>3. EntriesIn(T) = {a, b}
    BY <2>1, <2>2 DEF EntriesIn
  <2> QED
    BY <2>1, <2>3 DEF T
<1>3. <<a, b, c>> \in Seq(Entries) /\ EntriesIn(<<a, b, c>>) = {a, b, c}
  <2> DEFINE T == <<a, b, c>>
  <2>1. T \in Seq(Entries) /\ Len(T) = 3 /\ T[1] = a /\ T[2] = b /\ T[3] = c
    OBVIOUS
  <2>2. \A i : i \in 1 .. 3 <=> i = 1 \/ i = 2 \/ i = 3
    OBVIOUS
  <2> HIDE DEF T
  <2>3. EntriesIn(T) = {a, b, c}
    BY <2>1, <2>2 DEF EntriesIn
  <2> QED
    BY <2>1, <2>3 DEF T
<1> QED
  BY <1>1, <1>2, <1>3

Many(n, name, template) == {Entry(name, i, template, TRUE) : i \in 1 .. n}

LEMMA EntriesNumbered ==
  ASSUME NEW n \in Nat, NEW name \in EntryNames, NEW template \in LeafTemplates
  PROVE  LET T == [i \in 1 .. n |-> Entry(name, i, template, TRUE)]
         IN  T \in Seq(Entries) /\ EntriesIn(T) = Many(n, name, template)
<1> DEFINE T == [i \in 1 .. n |-> Entry(name, i, template, TRUE)]
<1>1. \A i \in 1 .. n : T[i] \in Entries
  BY DEF Entry, Entries
<1>2. T \in [1 .. n -> Entries]
  BY <1>1
<1>3. T \in Seq(Entries)
  BY <1>2, SeqDef
<1>4. Len(T) = n
  BY <1>2, <1>3, LenProperties
<1>5. \A i \in 1 .. n : T[i] = Entry(name, i, template, TRUE)
  OBVIOUS
<1> HIDE DEF T
<1>6. EntriesIn(T) = Many(n, name, template)
  BY <1>4, <1>5 DEF EntriesIn, Many
<1> QED
  BY <1>3, <1>6 DEF T

ComputeEntries(v) ==
    {Entry("RACK", 1, "rack", FALSE), Entry("PNL", 1, "panelboard", FALSE),
     Entry("CDU", 1, "cdu", TRUE), Entry("SW-DATA", 1, "network_switch", TRUE),
     Entry("SW-MGMT", 1, "mgmt_switch", FALSE), Entry("DC", 1, "dc_external", TRUE)}
    \cup Many(NODES_PER_COMPUTE_CONTAINER, "NODE", NodeTemplate(v))
    \cup Many(3, "PDU-A", "pdu") \cup Many(3, "PDU-B", "pdu")
FeederEntries ==
    {Entry("SWG", 1, "switchgear", FALSE), Entry("RLY", 1, "protective_relay", TRUE),
     Entry("T", 1, "transformer", FALSE), Entry("SWBD", 1, "lv_switchboard", FALSE),
     Entry("SW-MGMT", 1, "grid_mgmt_switch", FALSE)}
PrimaryEntries(new) ==
    FeederEntries \cup {Entry("MTR-POI", 0, "poi_meter", TRUE)}
    \cup IF new THEN {Entry("NEW", 1, "new_template", FALSE)} ELSE {}

LEMMA ComputeEntriesAre ==
  ASSUME NEW v
  PROVE  ComputeTopology(v) \in Seq(Entries) /\ EntriesIn(ComputeTopology(v)) = ComputeEntries(v)
<1> DEFINE rack == Entry("RACK", 1, "rack", FALSE)
           pnl == Entry("PNL", 1, "panelboard", FALSE)
           cdu == Entry("CDU", 1, "cdu", TRUE)
           data == Entry("SW-DATA", 1, "network_switch", TRUE)
           mgmt == Entry("SW-MGMT", 1, "mgmt_switch", FALSE)
           dc == Entry("DC", 1, "dc_external", TRUE)
           nodes == [i \in 1 .. NODES_PER_COMPUTE_CONTAINER |->
                        Entry("NODE", i, NodeTemplate(v), TRUE)]
           pduA == [i \in 1 .. 3 |-> Entry("PDU-A", i, "pdu", TRUE)]
           pduB == [i \in 1 .. 3 |-> Entry("PDU-B", i, "pdu", TRUE)]
           N == Many(NODES_PER_COMPUTE_CONTAINER, "NODE", NodeTemplate(v))
           A == Many(3, "PDU-A", "pdu")
           B == Many(3, "PDU-B", "pdu")
           T1 == << rack, pnl >> \o nodes
           T2 == T1 \o << cdu, data, mgmt >>
           T3 == T2 \o pduA
           T4 == T3 \o pduB
           T5 == T4 \o << dc >>
<1>1. /\ rack \in Entries /\ pnl \in Entries /\ cdu \in Entries
      /\ data \in Entries /\ mgmt \in Entries /\ dc \in Entries
  BY DEF Entry, Entries, EntryNames, LeafTemplates
<1>2. /\ NodeTemplate(v) \in LeafTemplates /\ "pdu" \in LeafTemplates
      /\ "NODE" \in EntryNames /\ "PDU-A" \in EntryNames /\ "PDU-B" \in EntryNames
      /\ NODES_PER_COMPUTE_CONTAINER \in Nat /\ 3 \in Nat
  BY DEF NodeTemplate, LeafTemplates, EntryNames, NODES_PER_COMPUTE_CONTAINER
<1>3. /\ nodes \in Seq(Entries) /\ EntriesIn(nodes) = N
      /\ pduA \in Seq(Entries) /\ EntriesIn(pduA) = A
      /\ pduB \in Seq(Entries) /\ EntriesIn(pduB) = B
  BY <1>2, EntriesNumbered
<1> HIDE DEF rack, pnl, cdu, data, mgmt, dc, nodes, pduA, pduB, N, A, B
<1>4. /\ << rack, pnl >> \in Seq(Entries) /\ EntriesIn(<< rack, pnl >>) = {rack, pnl}
      /\ << cdu, data, mgmt >> \in Seq(Entries)
      /\ EntriesIn(<< cdu, data, mgmt >>) = {cdu, data, mgmt}
      /\ << dc >> \in Seq(Entries) /\ EntriesIn(<< dc >>) = {dc}
  <2>1. << rack, pnl >> \in Seq(Entries) /\ EntriesIn(<< rack, pnl >>) = {rack, pnl}
    BY <1>1, EntriesListed
  <2>2. /\ << cdu, data, mgmt >> \in Seq(Entries)
        /\ EntriesIn(<< cdu, data, mgmt >>) = {cdu, data, mgmt}
    <3> HIDE DEF T1, T2, T3, T4, T5
    <3>1. \A x, y, z \in Entries : /\ << x, y, z >> \in Seq(Entries)
                                    /\ EntriesIn(<< x, y, z >>) = {x, y, z}
      BY EntriesListed
    <3> QED
      BY <1>1, <3>1, Zenon
  <2>3. << dc >> \in Seq(Entries) /\ EntriesIn(<< dc >>) = {dc}
    BY <1>1, EntriesListed
  <2> QED
    BY <2>1, <2>2, <2>3
<1>5. T1 \in Seq(Entries) /\ EntriesIn(T1) = {rack, pnl} \cup N
  BY <1>3, <1>4, EntriesJoined
<1> HIDE DEF T1
<1>6. T2 \in Seq(Entries) /\ EntriesIn(T2) = EntriesIn(T1) \cup {cdu, data, mgmt}
  BY <1>4, <1>5, EntriesJoined
<1> HIDE DEF T2
<1>7. T3 \in Seq(Entries) /\ EntriesIn(T3) = EntriesIn(T2) \cup A
  BY <1>3, <1>6, EntriesJoined
<1> HIDE DEF T3
<1>8. T4 \in Seq(Entries) /\ EntriesIn(T4) = EntriesIn(T3) \cup B
  BY <1>3, <1>7, EntriesJoined
<1> HIDE DEF T4
<1>9. T5 \in Seq(Entries) /\ EntriesIn(T5) = EntriesIn(T4) \cup {dc}
  BY <1>4, <1>8, EntriesJoined
<1>10. T5 = ComputeTopology(v)
  BY DEF T4, T3, T2, T1, rack, pnl, cdu, data, mgmt, dc, nodes, pduA, pduB, ComputeTopology
<1> HIDE DEF T5
<1>11. EntriesIn(T5) = {rack, pnl, cdu, data, mgmt, dc} \cup N \cup A \cup B
  BY <1>5, <1>6, <1>7, <1>8, <1>9
<1>12. ComputeEntries(v) = {rack, pnl, cdu, data, mgmt, dc} \cup N \cup A \cup B
  BY DEF ComputeEntries, rack, pnl, cdu, data, mgmt, dc, N, A, B
<1> QED
  BY <1>9, <1>10, <1>11, <1>12

LEMMA GridEntriesAre ==
  ASSUME NEW new \in BOOLEAN
  PROVE  /\ FeederTopology \in Seq(Entries) /\ EntriesIn(FeederTopology) = FeederEntries
         /\ PrimaryTopology(new) \in Seq(Entries)
         /\ EntriesIn(PrimaryTopology(new)) = PrimaryEntries(new)
<1> DEFINE a == Entry("SWG", 1, "switchgear", FALSE)
           b == Entry("RLY", 1, "protective_relay", TRUE)
           c == Entry("T", 1, "transformer", FALSE)
           d == Entry("SWBD", 1, "lv_switchboard", FALSE)
           e == Entry("SW-MGMT", 1, "grid_mgmt_switch", FALSE)
           m == Entry("MTR-POI", 0, "poi_meter", TRUE)
           n == Entry("NEW", 1, "new_template", FALSE)
           T == << a, b, c, d, e >>
           P == T \o << m >>
           E == IF new THEN << n >> ELSE << >>
<1>1. /\ a \in Entries /\ b \in Entries /\ c \in Entries /\ d \in Entries /\ e \in Entries
      /\ m \in Entries /\ n \in Entries
  BY DEF Entry, Entries, EntryNames, LeafTemplates
<1>2. T = FeederTopology /\ FeederEntries = {a, b, c, d, e} /\ P \o E = PrimaryTopology(new)
  BY DEF FeederTopology, FeederEntries, PrimaryTopology
<1>3. PrimaryEntries(new) = {a, b, c, d, e} \cup {m} \cup IF new THEN {n} ELSE {}
  BY <1>2 DEF PrimaryEntries
<1> HIDE DEF a, b, c, d, e, m, n
<1>4. T \in Seq(Entries) /\ EntriesIn(T) = {a, b, c, d, e}
  <2>1. /\ T \in Seq(Entries) /\ Len(T) = 5
        /\ T[1] = a /\ T[2] = b /\ T[3] = c /\ T[4] = d /\ T[5] = e
    BY <1>1
  <2>2. \A i : i \in 1 .. 5 <=> i = 1 \/ i = 2 \/ i = 3 \/ i = 4 \/ i = 5
    OBVIOUS
  <2> HIDE DEF T
  <2>3. EntriesIn(T) = {a, b, c, d, e}
    BY <2>1, <2>2 DEF EntriesIn
  <2> QED
    BY <2>1, <2>3
<1> HIDE DEF T
<1>5. P \in Seq(Entries) /\ EntriesIn(P) = EntriesIn(T) \cup {m}
  <2>1. << m >> \in Seq(Entries) /\ EntriesIn(<< m >>) = {m}
    BY <1>1, EntriesListed
  <2> QED
    BY <1>4, <2>1, EntriesJoined
<1>6. E \in Seq(Entries) /\ EntriesIn(E) = IF new THEN {n} ELSE {}
  <2>1. CASE new
    BY <1>1, <2>1, EntriesListed
  <2>2. CASE ~new
    <3>1. E = << >>
      BY <2>2
    <3>2. \A S : S = << >> => S \in Seq(Entries) /\ Len(S) = 0
      OBVIOUS
    <3> HIDE DEF E
    <3>3. EntriesIn(E) = {}
      BY <3>1, <3>2 DEF EntriesIn
    <3> QED
      BY <2>2, <3>1, <3>2, <3>3
  <2> QED
    BY <2>1, <2>2
<1> HIDE DEF P, E
<1>7. P \o E \in Seq(Entries) /\ EntriesIn(P \o E) = EntriesIn(P) \cup EntriesIn(E)
  BY <1>5, <1>6, EntriesJoined
<1>8. EntriesIn(P \o E) = {a, b, c, d, e} \cup {m} \cup IF new THEN {n} ELSE {}
  BY <1>4, <1>5, <1>6, <1>7
<1> QED
  BY <1>2, <1>3, <1>4, <1>7, <1>8

LEMMA TopologyIsOne ==
  ASSUME NEW T \in Seq(Entries)
  PROVE  T # None
<1> DEFINE Es == [name: EntryNames, k: Nat, template: SlugNames, polled: BOOLEAN]
<1>1. Entries \subseteq Es
  BY DEF Entries, LeafTemplates, SlugNames, Templates
<1> HIDE DEF Es
<1>2. T \in Seq(Es)
  <2>1. Len(T) \in Nat /\ T \in [1 .. Len(T) -> Entries]
    BY LenProperties
  <2>2. T \in [1 .. Len(T) -> Es]
    BY <1>1, <2>1
  <2> QED
    BY <2>1, <2>2, SeqDef
<1> QED
  BY <1>2, NoneAssumption DEF Es

\* What fetch_topology gives a variant that has a topology.yaml.
LEMMA FetchedEntries ==
  ASSUME release \in Releases
  PROVE  /\ "compute" \in release.topology =>
              /\ FetchTopology("compute") # None
              /\ EntriesIn(FetchTopology("compute")) = ComputeEntries(order.variant)
         /\ "primary" \in release.topology =>
              /\ FetchTopology("primary") # None
              /\ EntriesIn(FetchTopology("primary")) = PrimaryEntries(release.newTemplate)
         /\ "feeder" \in release.topology =>
              /\ FetchTopology("feeder") # None
              /\ EntriesIn(FetchTopology("feeder")) = FeederEntries
         /\ \A v : v \notin release.topology => FetchTopology(v) = None
<1>1. release.newTemplate \in BOOLEAN
  BY DEF Releases
<1>2. ASSUME "compute" \in release.topology
      PROVE  FetchTopology("compute") = ComputeTopology(order.variant)
  BY <1>2 DEF FetchTopology
<1>3. ASSUME "primary" \in release.topology
      PROVE  FetchTopology("primary") = PrimaryTopology(release.newTemplate)
  BY <1>3 DEF FetchTopology
<1>4. ASSUME "feeder" \in release.topology
      PROVE  FetchTopology("feeder") = FeederTopology
  BY <1>4 DEF FetchTopology
<1>5. \A v : v \notin release.topology => FetchTopology(v) = None
  BY DEF FetchTopology
<1> QED
  BY <1>1, <1>2, <1>3, <1>4, <1>5, ComputeEntriesAre, GridEntriesAre, TopologyIsOne

-----------------------------------------------------------------------------
(***************************************************************************)
(* What each container holds.                                              *)
(***************************************************************************)
Boxes == {"C", "G"}
KindOf(box) == IF box = "C" THEN "compute" ELSE "grid"
ModulesIn(box) == IF box = "C" THEN ComputeModules ELSE {"grid_module"}
ContainerTemplates == ComputeModules \cup {"grid_module"}
ModT(box) == ModuleTemplate(KindOf(box), FetchTopology("compute"))

Variant(box, no) == IF box = "C" THEN "compute" ELSE GridVariants[no]
Drop(box, no) == IF box = "C" THEN DroppedTags(NodesIn(site.nodes, no)) ELSE {}
EntriesOf(topology) == IF topology = None THEN {} ELSE {topology[i] : i \in 1 .. Len(topology)}
KeptEntries(box, no) ==
    {e \in EntriesOf(FetchTopology(Variant(box, no))) : <<e.name, e.k>> \notin Drop(box, no)}

ModuleOf(box, no) ==
    Device(<<ModT(box), no>>, Tag(box, no, Itself, 0), ModT(box), None, FALSE)
EntryDevice(box, no, e, n) ==
    Device(<<e.template, n>>, Tag(box, no, e.name, e.k), e.template, <<ModT(box), no>>, e.polled)

\* What SMT need not see of a device.
LEMMA ModuleFields ==
  ASSUME NEW box, NEW no
  PROVE  /\ ModuleOf(box, no).id = <<ModT(box), no>>
         /\ ModuleOf(box, no).tag = <<box, no, Itself, 0>>
         /\ ModuleOf(box, no).template = ModT(box)
         /\ ModuleOf(box, no).parent = None /\ ModuleOf(box, no).polled = FALSE
BY DEF ModuleOf, Device, Tag

LEMMA EntryFields ==
  ASSUME NEW box, NEW no, NEW e, NEW n
  PROVE  /\ EntryDevice(box, no, e, n).id = <<e.template, n>>
         /\ EntryDevice(box, no, e, n).tag = <<box, no, e.name, e.k>>
         /\ EntryDevice(box, no, e, n).template = e.template
         /\ EntryDevice(box, no, e, n).parent = <<ModT(box), no>>
         /\ EntryDevice(box, no, e, n).polled = e.polled
BY DEF EntryDevice, Device, Tag

LEMMA ModTIsIn ==
  ASSUME NEW box \in Boxes
  PROVE  /\ ModT(box) \in ModulesIn(box) /\ ModT(box) \in SlugNames
         /\ ModulesIn(box) \subseteq ContainerTemplates
         /\ ModT("C") # ModT("G")
BY DEF Boxes, ModT, ModuleTemplate, KindOf, ModulesIn, ComputeModules, SlugNames, Templates,
       ContainerTemplates

LEMMA LeavesAreNoModules ==
  /\ LeafTemplates \subseteq SlugNames
  /\ LeafTemplates \cap ContainerTemplates = {}
  /\ "ac_main" \notin LeafTemplates \cup ContainerTemplates
BY DEF LeafTemplates, SlugNames, Templates, ContainerTemplates, ComputeModules

\* The entries of a variant are those of its topology, told apart by name
\* and number.
LEMMA EntriesAreNamed ==
  ASSUME release \in Releases, NEW v
  PROVE  \A e \in EntriesOf(FetchTopology(v)) :
            /\ e \in Entries /\ e.name # Itself
            /\ \A f \in EntriesOf(FetchTopology(v)) : e.name = f.name /\ e.k = f.k => e = f
<1> DEFINE T == FetchTopology(v)
<1>1. CASE T = None
  BY <1>1 DEF EntriesOf
<1>2. CASE T # None
  <2>1. PICK names : IsTopology(T, names)
    BY <1>2, Fetched
  <2>2. \A i \in 1 .. Len(T) : T[i] \in Entries
    BY <2>1 DEF IsTopology
  <2> HIDE DEF T
  <2>3. \A e \in EntriesOf(T) :
            /\ e \in Entries /\ e.name # Itself
            /\ \A f \in EntriesOf(T) : e.name = f.name /\ e.k = f.k => e = f
    BY <1>2, <2>1, <2>2 DEF EntriesOf, IsTopology
  <2> QED
    BY <2>3 DEF T
<1> QED
  BY <1>1, <1>2

\* A finite set has finite images, of its size if no two are alike.
LEMMA ImageIsFinite ==
  ASSUME NEW S, IsFiniteSet(S), NEW f, DOMAIN f = S
  PROVE  IsFiniteSet({f[x] : x \in S})
<1> DEFINE T == {f[x] : x \in S}
           g == [x \in S |-> f[x]]
<1>1. g \in Surjection(S, T)
  BY DEF Surjection
<1> HIDE DEF T, g
<1>2. IsFiniteSet(T)
  BY <1>1, FS_Surjection
<1> QED
  BY <1>2 DEF T

LEMMA ImageIsAsLarge ==
  ASSUME NEW S, IsFiniteSet(S), NEW T, NEW f, DOMAIN f = S,
         T = {f[x] : x \in S}, \A x, y \in S : f[x] = f[y] => x = y
  PROVE  IsFiniteSet(T) /\ Cardinality(T) = Cardinality(S)
<1> DEFINE g == [x \in S |-> f[x]]
<1>1. /\ g \in [S -> T] /\ \A t \in T : \E x \in S : g[x] = t
      /\ \A x, y \in S : g[x] = g[y] => x = y
  OBVIOUS
<1> HIDE DEF g
<1>2. g \in Bijection(S, T)
  <2>1. g \in Injection(S, T)
    BY <1>1 DEF Injection, IsInjective
  <2>2. g \in Surjection(S, T)
    BY <1>1 DEF Surjection
  <2> QED
    BY <2>1, <2>2 DEF Bijection
<1>3. ExistsBijection(S, T)
  BY <1>2 DEF ExistsBijection
<1> QED
  BY <1>3, FS_Bijection

\* A part has no more than the whole, and less if one is missing.
LEMMA PartIsSmaller ==
  ASSUME NEW S, IsFiniteSet(S), NEW T, T \subseteq S
  PROVE  /\ IsFiniteSet(T) /\ Cardinality(S) \in Nat /\ Cardinality(T) \in Nat
         /\ Cardinality(T) <= Cardinality(S)
         /\ T # S => Cardinality(T) < Cardinality(S)
<1>1. T \in SUBSET S
  OBVIOUS
<1>2. /\ IsFiniteSet(T) /\ Cardinality(T) <= Cardinality(S)
      /\ Cardinality(S) = Cardinality(T) => S = T
  BY <1>1, FS_Subset
<1>3. Cardinality(S) \in Nat /\ Cardinality(T) \in Nat
  BY <1>2, FS_CardinalityType
<1> QED
  BY <1>2, <1>3

LEMMA ListIsAsLong ==
  ASSUME NEW n \in Nat, NEW T, NEW f, DOMAIN f = 1 .. n,
         T = {f[i] : i \in 1 .. n}, \A i, j \in 1 .. n : f[i] = f[j] => i = j
  PROVE  IsFiniteSet(T) /\ Cardinality(T) = n
<1>1. IsFiniteSet(1 .. n) /\ Cardinality(1 .. n) = n
  BY FS_Interval
<1>2. IsFiniteSet(T) /\ Cardinality(T) = Cardinality(1 .. n)
  BY <1>1, ImageIsAsLarge
<1> QED
  BY <1>1, <1>2

-----------------------------------------------------------------------------
(***************************************************************************)
(* emit_container for the next container.                                  *)
(***************************************************************************)
NewModule(box, no) == ModuleDevice(KindOf(box), box, no, FetchTopology(Variant(box, no)))
NewChildren(box, no) ==
    Children(NewModule(box, no), FetchTopology(Variant(box, no)),
             Kept(FetchTopology(Variant(box, no)), Drop(box, no)))
\* The slugs that the devices of the container take.
Fresh(box, no, template, n) ==
    /\ n \in Nat /\ counter[template] < n
    /\ n <= counter[template] + Taken(NewChildren(box, no))[template]

LEMMA NewModuleIs ==
  ASSUME NEW box \in Boxes, NEW no, no = counter[ModT(box)] + 1
  PROVE  NewModule(box, no) = ModuleOf(box, no)
<1>1. ModuleTemplate(KindOf(box), FetchTopology(Variant(box, no))) = ModT(box)
  <2>1. CASE box = "C"
    BY <2>1 DEF ModT, Variant
  <2>2. CASE box = "G"
    BY <2>2 DEF ModT, KindOf, ModuleTemplate
  <2> QED
    BY <2>1, <2>2 DEF Boxes
<1> QED
  BY <1>1 DEF NewModule, ModuleDevice, AssignSlug, ModuleOf

\* Within a container a template's devices are numbered 1, 2, .. in the
\* order of the topology.
LEMMA NthIsANumber ==
  ASSUME NEW topology, NEW n \in Nat, NEW kept, kept \subseteq 1 .. n
  PROVE  /\ \A i \in kept :
               /\ Nth(topology, kept, i) \in Nat \ {0}
               /\ Nth(topology, kept, i)
                    <= Cardinality({j \in kept : topology[j].template = topology[i].template})
         /\ \A i, j \in kept :
               topology[i].template = topology[j].template
                 /\ Nth(topology, kept, i) = Nth(topology, kept, j) => i = j
<1> DEFINE Upto(i) == {j \in kept : j <= i /\ topology[j].template = topology[i].template}
           All(i) == {j \in kept : topology[j].template = topology[i].template}
<1>1. IsFiniteSet(kept)
  <2>1. IsFiniteSet(1 .. n)
    BY FS_Interval
  <2> QED
    BY <2>1, PartIsSmaller
<1>2. \A i \in kept : i \in Int
  OBVIOUS
<1>3. ASSUME NEW i \in kept
      PROVE  /\ Upto(i) \subseteq All(i) /\ All(i) \subseteq kept /\ i \in Upto(i)
  BY <1>2
<1>4. \A i \in kept : Nth(topology, kept, i) = Cardinality(Upto(i))
  BY DEF Nth
<1>5. ASSUME NEW i \in kept, NEW j \in kept, i < j,
             topology[i].template = topology[j].template
      PROVE  Upto(i) \subseteq Upto(j) /\ j \in Upto(j) /\ j \notin Upto(i)
  <2>1. \A x \in kept : x <= i => x <= j
    BY <1>2, <1>5
  <2>2. Upto(i) \subseteq Upto(j)
    BY <1>5, <2>1
  <2>3. j <= j /\ ~(j <= i)
    BY <1>2, <1>5
  <2> QED
    BY <2>2, <2>3
<1> HIDE DEF Upto, All
<1>6. ASSUME NEW i \in kept
      PROVE  /\ IsFiniteSet(Upto(i)) /\ Cardinality(Upto(i)) \in Nat \ {0}
             /\ Cardinality(Upto(i)) <= Cardinality(All(i))
  <2>1. IsFiniteSet(All(i))
    BY <1>1, <1>3, PartIsSmaller
  <2>2. IsFiniteSet(Upto(i)) /\ Cardinality(Upto(i)) <= Cardinality(All(i))
    BY <1>3, <2>1, PartIsSmaller
  <2>3. Cardinality(Upto(i)) # 0 /\ Cardinality(Upto(i)) \in Nat
    BY <1>3, <2>2, FS_EmptySet, FS_CardinalityType
  <2> QED
    BY <2>2, <2>3
<1>7. ASSUME NEW i \in kept, NEW j \in kept, i < j,
             topology[i].template = topology[j].template
      PROVE  Cardinality(Upto(i)) < Cardinality(Upto(j))
  BY <1>5, <1>6, <1>7, PartIsSmaller
<1>8. ASSUME NEW i \in kept, NEW j \in kept, topology[i].template = topology[j].template,
             Cardinality(Upto(i)) = Cardinality(Upto(j))
      PROVE  i = j
  BY <1>2, <1>6, <1>7, <1>8
<1> QED
  BY <1>4, <1>6, <1>8 DEF All

Contents(box, no) ==
    /\ IsFiniteSet(NewChildren(box, no))
    /\ \A c \in NewChildren(box, no) : \E e \in KeptEntries(box, no) : \E n :
          c = EntryDevice(box, no, e, n) /\ Fresh(box, no, e.template, n)
    /\ \A e \in KeptEntries(box, no) : \E n :
          EntryDevice(box, no, e, n) \in NewChildren(box, no) /\ Fresh(box, no, e.template, n)
    /\ \A c, d \in NewChildren(box, no) : c.id = d.id => c = d
    /\ \A c, d \in NewChildren(box, no) : c.tag = d.tag => c = d

LEMMA Container ==
  ASSUME release \in Releases, counter \in [SlugNames -> Nat],
         NEW box \in Boxes, NEW no, no = counter[ModT(box)] + 1
  PROVE  Contents(box, no)
<1> DEFINE T == FetchTopology(Variant(box, no))
           kept == Kept(T, Drop(box, no))
           nth(i) == counter[T[i].template] + Nth(T, kept, i)
           child == [i \in kept |-> EntryDevice(box, no, T[i], nth(i))]
           alike(i) == {j \in kept : T[j].template = T[i].template}
           children == NewChildren(box, no)
<1>1. PICK n \in Nat :
         /\ kept \subseteq 1 .. n
         /\ \A i \in kept : T[i] \in Entries /\ T[i] \in KeptEntries(box, no)
         /\ \A e \in KeptEntries(box, no) : \E i \in kept : T[i] = e
         /\ \A i, j \in kept : T[i].name = T[j].name /\ T[i].k = T[j].k => i = j
  <2>1. CASE T = None
    <3>1. kept = {} /\ KeptEntries(box, no) = {}
      BY <2>1 DEF Kept, KeptEntries, EntriesOf
    <3> QED
      BY <3>1
  <2>2. CASE T # None
    <3>1. PICK names : IsTopology(T, names)
      BY <2>2, Fetched
    <3>2. DOMAIN T = 1 .. Len(T) /\ Len(T) \in Nat /\ \A i \in 1 .. Len(T) : T[i] \in Entries
      BY <3>1, LenProperties DEF IsTopology
    <3>3. kept = {i \in 1 .. Len(T) : <<T[i].name, T[i].k>> \notin Drop(box, no)}
      BY <2>2, <3>2 DEF Kept
    <3>4. KeptEntries(box, no) = {e \in {T[i] : i \in 1 .. Len(T)} : <<e.name, e.k>> \notin Drop(box, no)}
      BY <2>2 DEF KeptEntries, EntriesOf
    <3> HIDE DEF T, kept
    <3> QED
      BY <3>1, <3>2, <3>3, <3>4 DEF IsTopology
  <2> QED
    BY <2>1, <2>2
<1>2. children = {child[i] : i \in kept} /\ DOMAIN child = kept
  <2> DEFINE M == NewModule(box, no)
  <2>1. children = {LET entry == T[i]
                    IN  Device(AssignSlug(entry.template, Nth(T, kept, i)),
                               Tag(M.tag[1], M.tag[2], entry.name, entry.k),
                               entry.template, M.id, entry.polled) : i \in kept}
    BY DEF NewChildren, Children
  <2>2. M = ModuleOf(box, no)
    BY NewModuleIs
  <2>3. M.tag[1] = box /\ M.tag[2] = no /\ M.id = <<ModT(box), no>>
    <3> HIDE DEF M
    <3> QED
      <4>1. M.tag = <<box, no, Itself, 0>> /\ M.id = <<ModT(box), no>>
        BY <2>2, ModuleFields
      <4> QED
        BY <4>1
  <2> HIDE DEF T, kept, M
  <2> QED
    BY <2>1, <2>3 DEF EntryDevice, AssignSlug
<1> HIDE DEF T, kept, children
<1>3. /\ \A i \in kept : /\ Nth(T, kept, i) \in Nat \ {0}
                         /\ Nth(T, kept, i) <= Cardinality(alike(i))
      /\ \A i, j \in kept :
            T[i].template = T[j].template /\ Nth(T, kept, i) = Nth(T, kept, j) => i = j
  BY <1>1, NthIsANumber
<1>4. \A i \in kept : T[i].template \in SlugNames /\ counter[T[i].template] \in Nat
  BY <1>1, LeavesAreNoModules DEF Entries
<1>5. IsFiniteSet(kept)
  <2>1. IsFiniteSet(1 .. n)
    BY FS_Interval
  <2> QED
    BY <1>1, <2>1, PartIsSmaller
<1>6. \A i \in kept : /\ child[i].id = <<T[i].template, nth(i)>>
                      /\ child[i].tag = <<box, no, T[i].name, T[i].k>>
                      /\ child[i] = EntryDevice(box, no, T[i], nth(i))
  BY EntryFields
<1> HIDE DEF child, alike
<1>7. \A i, j \in kept : child[i].id = child[j].id => i = j
  <2> SUFFICES ASSUME NEW i \in kept, NEW j \in kept, child[i].id = child[j].id
               PROVE  i = j
    OBVIOUS
  <2>1. T[i].template = T[j].template /\ nth(i) = nth(j)
    <3> HIDE DEF nth
    <3> QED
      BY <1>6
  <2>2. Nth(T, kept, i) = Nth(T, kept, j)
    <3>1. \A a, b, c \in Int : a + b = a + c => b = c
      OBVIOUS
    <3>2. Nth(T, kept, i) \in Int /\ Nth(T, kept, j) \in Int /\ counter[T[i].template] \in Int
      BY <1>3, <1>4
    <3>3. counter[T[i].template] + Nth(T, kept, i) = counter[T[j].template] + Nth(T, kept, j)
      BY <2>1
    <3> QED
      BY <2>1, <3>1, <3>2, <3>3
  <2> QED
    BY <1>3, <2>1, <2>2
<1>8. \A i, j \in kept : child[i].tag = child[j].tag => i = j
  <2> HIDE DEF nth
  <2> QED
    BY <1>1, <1>6
<1>9. IsFiniteSet(children)
  BY <1>2, <1>5, ImageIsFinite
<1>10. ASSUME NEW i \in kept
       PROVE  Fresh(box, no, T[i].template, nth(i))
  <2> DEFINE t == T[i].template
             U == {d \in children : d.id[1] = t}
             g == [j \in alike(i) |-> child[j]]
  <2>1. U = {g[j] : j \in alike(i)} /\ DOMAIN g = alike(i)
    BY <1>2, <1>6 DEF alike
  <2>2. IsFiniteSet(alike(i)) /\ \A x, y \in alike(i) : g[x] = g[y] => x = y
    BY <1>5, <1>7, PartIsSmaller DEF alike
  <2> HIDE DEF U, g
  <2>3. Cardinality(U) = Cardinality(alike(i)) /\ Cardinality(U) \in Nat
    BY <2>1, <2>2, ImageIsAsLarge, FS_CardinalityType
  <2>4. Taken(children)[t] = Cardinality(U)
    BY <1>4 DEF Taken, U
  <2>5. Nth(T, kept, i) <= Taken(children)[t] /\ Nth(T, kept, i) \in Nat \ {0}
    BY <1>3, <2>3, <2>4
  <2> QED
    BY <1>4, <2>3, <2>4, <2>5 DEF Fresh, children
<1>11. \A c \in children : \E e \in KeptEntries(box, no) : \E m :
          c = EntryDevice(box, no, e, m) /\ Fresh(box, no, e.template, m)
  BY <1>1, <1>2, <1>6, <1>10
<1>12. \A e \in KeptEntries(box, no) : \E m :
          EntryDevice(box, no, e, m) \in children /\ Fresh(box, no, e.template, m)
  BY <1>1, <1>2, <1>6, <1>10
<1>13. /\ \A c, d \in children : c.id = d.id => c = d
       /\ \A c, d \in children : c.tag = d.tag => c = d
  BY <1>2, <1>7, <1>8
<1> QED
  BY <1>9, <1>11, <1>12, <1>13 DEF children, Contents

-----------------------------------------------------------------------------
(***************************************************************************)
(* D is what the containers emitted so far hold, and c their slugs: every  *)
(* device is the module of a container or one of its kept entries, all     *)
(* modules and kept entries are there, and none is there twice.            *)
(***************************************************************************)
Fits(d, box, no, c) ==
    \/ d = ModuleOf(box, no)
    \/ \E e \in KeptEntries(box, no) : \E n \in 1 .. c[e.template] : d = EntryDevice(box, no, e, n)
AllPlaced(D, c) ==
    \A d \in D : \E box \in Boxes : \E no \in 1 .. c[ModT(box)] : Fits(d, box, no, c)
AllBuilt(D, c) ==
    \A box \in Boxes : \A no \in 1 .. c[ModT(box)] :
       /\ ModuleOf(box, no) \in D
       /\ \A e \in KeptEntries(box, no) : \E n \in 1 .. c[e.template] :
             EntryDevice(box, no, e, n) \in D
Counted(D, c) ==
    \A box \in Boxes :
       Cardinality({d \in D : d.template \in ModulesIn(box)}) = c[ModT(box)]
IdsDiffer(D) == \A d, e \in D : d.id = e.id => d = e
TagsDiffer(D) == \A d, e \in D : d.tag = e.tag => d = e

BoxInv(D, c) ==
    /\ IsFiniteSet(D) /\ c \in [SlugNames -> Nat]
    /\ AllPlaced(D, c) /\ AllBuilt(D, c) /\ Counted(D, c)
    /\ IdsDiffer(D) /\ TagsDiffer(D)

\* The tag of a device names its container, and the device in it.
LEMMA FitTags ==
  ASSUME NEW d, NEW box, NEW no, NEW c, Fits(d, box, no, c)
  PROVE  /\ d.tag[1] = box /\ d.tag[2] = no
         /\ \/ d = ModuleOf(box, no) /\ d.tag = <<box, no, Itself, 0>>
            \/ \E e \in KeptEntries(box, no) : \E n \in 1 .. c[e.template] :
                  d = EntryDevice(box, no, e, n) /\ d.tag = <<box, no, e.name, e.k>>
<1>1. CASE d = ModuleOf(box, no)
  <2>1. d.tag = <<box, no, Itself, 0>>
    BY <1>1, ModuleFields
  <2> QED
    BY <1>1, <2>1
<1>2. CASE d # ModuleOf(box, no)
  <2>1. PICK e \in KeptEntries(box, no) : \E n \in 1 .. c[e.template] : d = EntryDevice(box, no, e, n)
    BY <1>2 DEF Fits
  <2>2. d.tag = <<box, no, e.name, e.k>>
    BY <2>1, EntryFields
  <2>3. d.tag[1] = box /\ d.tag[2] = no
    BY <2>2
  <2> QED
    BY <2>1, <2>2, <2>3
<1> QED
  BY <1>1, <1>2

KeptAreEntries ==
    \A box \in Boxes : \A no : \A e \in KeptEntries(box, no) :
       e \in Entries /\ e.name # Itself /\ e.template \in LeafTemplates

LEMMA KeptEntriesAre ==
  ASSUME release \in Releases
  PROVE  KeptAreEntries
<1>1. \A box \in Boxes : \A no : KeptEntries(box, no) \subseteq EntriesOf(FetchTopology(Variant(box, no)))
  BY DEF KeptEntries
<1> QED
  BY <1>1, EntriesAreNamed DEF KeptAreEntries, Entries

\* The slugs a container takes.
SlugsAfter(box, no, feeder) ==
    [s \in SlugNames |->
        counter[s] + Taken({ModuleOf(box, no)} \cup NewChildren(box, no) \cup feeder)[s]]

LEMMA SlugsTaken ==
  ASSUME release \in Releases, counter \in [SlugNames -> Nat],
         NEW box \in Boxes, NEW no, no = counter[ModT(box)] + 1,
         NEW feeder, IsFiniteSet(feeder), \A b \in feeder : b.id[1] = "ac_main",
         NEW c, c = SlugsAfter(box, no, feeder)
  PROVE  /\ c \in [SlugNames -> Nat]
         /\ \A s \in SlugNames : c[s] >= counter[s]
         /\ c[ModT(box)] = no
         /\ \A b \in Boxes \ {box} : c[ModT(b)] = counter[ModT(b)]
         /\ \A t \in LeafTemplates : c[t] = counter[t] + Taken(NewChildren(box, no))[t]
<1> DEFINE module == ModuleOf(box, no)
           children == NewChildren(box, no)
           new == {module} \cup children \cup feeder
           OfSlug(S, s) == {d \in S : d.id[1] = s}
<1>1. IsFiniteSet(children) /\ \A d \in children : d.id[1] \in LeafTemplates
  <2>0. Contents(box, no)
    BY Container
  <2>1. \A d \in children : \E e \in KeptEntries(box, no) : \E n : d = EntryDevice(box, no, e, n)
    BY <2>0 DEF Contents
  <2>2. \A e, n : EntryDevice(box, no, e, n).id[1] = e.template
    BY EntryFields
  <2> QED
    BY <2>0, <2>1, <2>2, KeptEntriesAre DEF KeptAreEntries, Contents
<1>2. module.id[1] = ModT(box)
  <2>1. module.id = <<ModT(box), no>>
    BY ModuleFields
  <2> HIDE DEF module
  <2> QED
    BY <2>1
<1>3. ModT(box) \in ContainerTemplates /\ \A b \in Boxes \ {box} : ModT(b) # ModT(box) /\ ModT(b) \in ContainerTemplates
  BY ModTIsIn DEF Boxes
<1> HIDE DEF module, children
<1>4. IsFiniteSet(new)
  BY <1>1, FS_Singleton, FS_Union
<1>5. \A s \in SlugNames : /\ Taken(new)[s] = Cardinality(OfSlug(new, s))
                           /\ Taken(children)[s] = Cardinality(OfSlug(children, s))
  BY DEF Taken
<1>6. \A s : Cardinality(OfSlug(new, s)) \in Nat
  BY <1>4, PartIsSmaller
<1>7. OfSlug(new, ModT(box)) = {module}
  BY <1>1, <1>2, <1>3, LeavesAreNoModules
<1>8. \A b \in Boxes \ {box} : OfSlug(new, ModT(b)) = {}
  BY <1>1, <1>2, <1>3, LeavesAreNoModules
<1>9. \A t \in LeafTemplates : OfSlug(new, t) = OfSlug(children, t)
  BY <1>1, <1>2, <1>3, LeavesAreNoModules
<1>10. \A s \in SlugNames : c[s] = counter[s] + Cardinality(OfSlug(new, s)) /\ counter[s] \in Nat
  BY <1>5 DEF module, children, SlugsAfter
<1>11. Cardinality({module}) = 1 /\ Cardinality({}) = 0
  BY FS_Singleton, FS_EmptySet
<1> HIDE DEF new, OfSlug
<1>12. \A s \in SlugNames : c[s] \in Nat /\ c[s] >= counter[s]
  <2>1. \A a, b \in Nat : a + b \in Nat /\ a + b >= a
    OBVIOUS
  <2> QED
    BY <1>6, <1>10, <2>1
<1>13. c \in [SlugNames -> Nat]
  <2>1. c = [s \in SlugNames |-> c[s]]
    BY DEF SlugsAfter
  <2> QED
    BY <1>12, <2>1
<1>14. \A b \in Boxes : ModT(b) \in SlugNames
  BY ModTIsIn
<1>15. c[ModT(box)] = no
  BY <1>7, <1>10, <1>11, <1>14
<1>16. \A b \in Boxes \ {box} : c[ModT(b)] = counter[ModT(b)]
  <2>1. \A a \in Nat : a + 0 = a
    OBVIOUS
  <2> QED
    BY <1>8, <1>10, <1>11, <1>14, <2>1
<1>17. \A t \in LeafTemplates : c[t] = counter[t] + Taken(children)[t]
  BY <1>5, <1>9, <1>10, LeavesAreNoModules
<1> QED
  BY <1>12, <1>13, <1>15, <1>16, <1>17 DEF children

\* The devices of a container and their slugs are all new.
LEMMA NewSlugs ==
  ASSUME release \in Releases, BoxInv(devices, counter),
         NEW box \in Boxes, NEW no, no = counter[ModT(box)] + 1,
         NEW new, new = {ModuleOf(box, no)} \cup NewChildren(box, no)
  PROVE  /\ IsFiniteSet(new) /\ IdsDiffer(new) /\ TagsDiffer(new)
         /\ \A d \in new : d.tag[1] = box /\ d.tag[2] = no
         /\ \A d \in devices : \A e \in new : d.id # e.id
         /\ \A d \in new : d.template \in ContainerTemplates => d = ModuleOf(box, no)
<1> DEFINE module == ModuleOf(box, no)
           children == NewChildren(box, no)
<1>1. Contents(box, no)
  BY Container DEF BoxInv
<1>2. /\ module.id = <<ModT(box), no>> /\ module.tag = <<box, no, Itself, 0>>
      /\ module.template = ModT(box)
  BY ModuleFields
<1>3. ASSUME NEW d \in children
      PROVE  \E e \in Entries : \E n :
                /\ e.name # Itself /\ e.template \in LeafTemplates
                /\ counter[e.template] < n
                /\ d.id = <<e.template, n>> /\ d.tag = <<box, no, e.name, e.k>>
                /\ d.template = e.template
  <2>0. PICK e \in KeptEntries(box, no) : \E n :
           d = EntryDevice(box, no, e, n) /\ Fresh(box, no, e.template, n)
    BY <1>1 DEF Contents
  <2>1. PICK n : d = EntryDevice(box, no, e, n) /\ Fresh(box, no, e.template, n)
    BY <2>0
  <2>2. e \in Entries /\ e.name # Itself /\ e.template \in LeafTemplates
    BY KeptEntriesAre DEF KeptAreEntries
  <2>3. /\ d.id = <<e.template, n>> /\ d.tag = <<box, no, e.name, e.k>>
        /\ d.template = e.template
    BY <2>1, EntryFields
  <2> QED
    BY <2>1, <2>2, <2>3 DEF Fresh
<1>4. ASSUME NEW d \in devices
      PROVE  \/ \E b \in Boxes : \E m \in 1 .. counter[ModT(b)] : d.id = <<ModT(b), m>>
             \/ \E t \in LeafTemplates : \E m \in 1 .. counter[t] : d.id = <<t, m>>
  <2>1. PICK b \in Boxes : \E m \in 1 .. counter[ModT(b)] : Fits(d, b, m, counter)
    BY DEF BoxInv, AllPlaced
  <2>2. PICK m \in 1 .. counter[ModT(b)] : Fits(d, b, m, counter)
    BY <2>1
  <2>3. CASE d = ModuleOf(b, m)
    BY <2>3, ModuleFields
  <2>4. CASE \E e \in KeptEntries(b, m) : \E n \in 1 .. counter[e.template] : d = EntryDevice(b, m, e, n)
    BY <2>4, EntryFields, KeptEntriesAre DEF KeptAreEntries
  <2> QED
    BY <2>2, <2>3, <2>4 DEF Fits
<1>5. IsFiniteSet(new)
  BY <1>1, FS_Singleton, FS_Union DEF Contents
<1>6. IdsDiffer(children) /\ TagsDiffer(children)
  BY <1>1 DEF Contents, IdsDiffer, TagsDiffer
<1>7. /\ ModT(box) \in ContainerTemplates /\ LeafTemplates \cap ContainerTemplates = {}
      /\ \A b \in Boxes : /\ b # box => ModT(b) # ModT(box)
                          /\ ModT(b) \in ContainerTemplates
  BY ModTIsIn, LeavesAreNoModules DEF Boxes
<1>8. \A s \in SlugNames : counter[s] \in Nat
  BY DEF BoxInv
<1>9. \A b \in Boxes : counter[ModT(b)] \in Nat
  BY <1>8, ModTIsIn
<1>10. \A t \in LeafTemplates : counter[t] \in Nat
  BY <1>8, LeavesAreNoModules
<1> HIDE DEF module, children
<1>11. new = {module} \cup children
  BY DEF module, children
<1>12. IdsDiffer(new) /\ TagsDiffer(new)
  <2>1. \A d \in children : d.id # module.id /\ d.tag # module.tag
    BY <1>2, <1>3, <1>7
  <2> QED
    BY <1>6, <1>11, <2>1 DEF IdsDiffer, TagsDiffer
<1>13. \A d \in new : d.tag[1] = box /\ d.tag[2] = no
  <2>1. \A d \in children : d.tag[1] = box /\ d.tag[2] = no
    BY <1>3
  <2>2. module.tag[1] = box /\ module.tag[2] = no
    BY <1>2
  <2> QED
    BY <1>11, <2>1, <2>2
<1>14. ASSUME NEW d \in devices, NEW e \in new, d.id = e.id
       PROVE  FALSE
  <2>1. CASE e = module
    <3>1. e.id = <<ModT(box), no>>
      BY <1>2, <2>1
    <3>2. \A m : d.id = <<ModT(box), m>> => m = no
      BY <1>14, <3>1
    <3>3. no \notin 1 .. counter[ModT(box)]
      BY <1>9
    <3>4. \A b \in Boxes : \A m : d.id = <<ModT(b), m>> => b = box
      BY <1>7, <1>14, <3>1
    <3>5. \A t \in LeafTemplates : \A m : d.id # <<t, m>>
      BY <1>7, <1>14, <3>1
    <3> QED
      BY <1>4, <3>2, <3>3, <3>4, <3>5
  <2>2. CASE e \in children
    <3>0. PICK t \in LeafTemplates : \E n : counter[t] < n /\ e.id = <<t, n>>
      BY <1>3, <2>2
    <3>1. PICK n : counter[t] < n /\ e.id = <<t, n>>
      BY <3>0
    <3>2. \A b \in Boxes : \A m : d.id # <<ModT(b), m>>
      BY <1>7, <1>14, <3>1
    <3>3. \A u \in LeafTemplates : \A m : d.id = <<u, m>> => u = t /\ m = n
      BY <1>14, <3>1
    <3>4. n \notin 1 .. counter[t]
      BY <1>10, <3>1
    <3> QED
      BY <1>4, <3>2, <3>3, <3>4
  <2> QED
    BY <1>11, <1>14, <2>1, <2>2
<1>15. \A d \in new : d.template \in ContainerTemplates => d = module
  BY <1>3, <1>7, <1>11
<1> QED
  BY <1>5, <1>12, <1>13, <1>14, <1>15 DEF module

\* What emit_container changes.
LEMMA ContainerStep ==
  ASSUME release \in Releases, counter \in [SlugNames -> Nat],
         NEW box \in Boxes, NEW no, no = counter[ModT(box)] + 1,
         EmitContainer(KindOf(box), box, no, Variant(box, no), Drop(box, no))
  PROVE  /\ devices' = Put({ModuleOf(box, no)} \cup NewChildren(box, no))
         /\ \E feeder : /\ IsFiniteSet(feeder) /\ buses' = buses \cup feeder
                        /\ counter' = SlugsAfter(box, no, feeder)
                        /\ \A b \in feeder :
                              /\ b.id[1] = "ac_main"
                              /\ b.members \subseteq {d.id : d \in NewChildren(box, no)}
<1> DEFINE topology == FetchTopology(Variant(box, no))
           children == NewChildren(box, no)
           main == [id |-> AssignSlug("ac_main", 1),
                    members |-> {d.id : d \in {c \in children :
                        c.template \in {"switchgear", "protective_relay", "transformer"}}}]
           feeder == IF KindOf(box) = "grid" /\ topology # None THEN {main} ELSE {}
<1>1. NewModule(box, no) = ModuleOf(box, no)
  BY NewModuleIs
<1>2. /\ devices' = Put({NewModule(box, no)} \cup children)
      /\ buses' = buses \cup feeder
      /\ counter' = [s \in SlugNames |->
                        counter[s] + Taken({NewModule(box, no)} \cup children \cup feeder)[s]]
  BY DEF EmitContainer, NewModule, NewChildren
<1>3. main.id[1] = "ac_main" /\ main.members \subseteq {d.id : d \in children}
  BY DEF AssignSlug
<1> HIDE DEF main, topology, children
<1>4. IsFiniteSet(feeder)
  BY FS_EmptySet, FS_Singleton
<1>5. \A b \in feeder : b.id[1] = "ac_main" /\ b.members \subseteq {d.id : d \in children}
  BY <1>3
<1>6. counter' = SlugsAfter(box, no, feeder)
  <2> HIDE DEF feeder
  <2> QED
    BY <1>1, <1>2 DEF SlugsAfter, children
<1> HIDE DEF feeder
<1> QED
  BY <1>1, <1>2, <1>4, <1>5, <1>6 DEF children

LEMMA Emission ==
  ASSUME release \in Releases, BoxInv(devices, counter),
         NEW box \in Boxes, NEW no, no = Emitted(ModulesIn(box)) + 1,
         EmitContainer(KindOf(box), box, no, Variant(box, no), Drop(box, no))
  PROVE  /\ no = counter[ModT(box)] + 1
         /\ BoxInv(devices', counter')
         /\ devices' = devices \cup {ModuleOf(box, no)} \cup NewChildren(box, no)
         /\ counter'[ModT(box)] = no
         /\ \A b \in Boxes \ {box} : counter'[ModT(b)] = counter[ModT(b)]
         /\ \A t \in LeafTemplates : counter'[t] = counter[t] + Taken(NewChildren(box, no))[t]
         /\ \A s \in SlugNames : counter'[s] >= counter[s]
         /\ \A b \in buses' \ buses :
               b.id[1] = "ac_main" /\ b.members \subseteq {d.id : d \in devices'}
<1> DEFINE module == ModuleOf(box, no)
           children == NewChildren(box, no)
           new == {module} \cup children
<1>0. counter \in [SlugNames -> Nat]
  BY DEF BoxInv
<1>1. no = counter[ModT(box)] + 1
  BY DEF BoxInv, Counted, Emitted
<1>2. PICK feeder : /\ IsFiniteSet(feeder) /\ buses' = buses \cup feeder
                    /\ counter' = SlugsAfter(box, no, feeder)
                    /\ \A b \in feeder :
                          /\ b.id[1] = "ac_main"
                          /\ b.members \subseteq {d.id : d \in children}
  BY <1>0, <1>1, ContainerStep
<1>3. /\ IsFiniteSet(new) /\ IdsDiffer(new) /\ TagsDiffer(new)
      /\ \A d \in new : d.tag[1] = box /\ d.tag[2] = no
      /\ \A d \in devices : \A e \in new : d.id # e.id
      /\ \A d \in new : d.template \in ContainerTemplates => d = module
  BY <1>1, NewSlugs
<1>4. devices' = devices \cup new
  <2>1. devices' = Put(new)
    BY <1>0, <1>1, ContainerStep
  <2> HIDE DEF new
  <2> QED
    BY <1>3, <2>1 DEF Put
<1>5. /\ counter' \in [SlugNames -> Nat]
      /\ \A s \in SlugNames : counter'[s] >= counter[s]
      /\ counter'[ModT(box)] = no
      /\ \A b \in Boxes \ {box} : counter'[ModT(b)] = counter[ModT(b)]
      /\ \A t \in LeafTemplates : counter'[t] = counter[t] + Taken(children)[t]
  BY <1>0, <1>1, <1>2, SlugsTaken
<1>6. Contents(box, no)
  BY <1>0, <1>1, Container
<1>7. /\ \A s \in SlugNames : counter[s] \in Nat /\ counter'[s] \in Nat
      /\ \A b \in Boxes : ModT(b) \in SlugNames
      /\ \A t \in LeafTemplates : t \in SlugNames
  BY <1>0, <1>5, ModTIsIn, LeavesAreNoModules
<1>8. /\ \A b \in Boxes : \A m \in 1 .. counter[ModT(b)] : m \in 1 .. counter'[ModT(b)]
      /\ \A t \in LeafTemplates : \A m \in 1 .. counter[t] : m \in 1 .. counter'[t]
  BY <1>5, <1>7
<1>9. /\ no \in 1 .. counter'[ModT(box)]
      /\ \A b \in Boxes : \A m \in 1 .. counter'[ModT(b)] :
            (b = box /\ m = no) \/ m \in 1 .. counter[ModT(b)]
  BY <1>1, <1>5, <1>7
<1>10. \A e \in KeptEntries(box, no) : \A n : Fresh(box, no, e.template, n) => n \in 1 .. counter'[e.template]
  <2>1. \A e \in KeptEntries(box, no) : e.template \in LeafTemplates
    BY KeptEntriesAre DEF KeptAreEntries
  <2> QED
    BY <1>5, <1>7, <2>1 DEF Fresh
<1> HIDE DEF module, children
<1>11. AllPlaced(devices', counter')
  <2>1. ASSUME NEW d \in devices
        PROVE  \E b \in Boxes : \E m \in 1 .. counter'[ModT(b)] : Fits(d, b, m, counter')
    <3>1. PICK b \in Boxes : \E m \in 1 .. counter[ModT(b)] : Fits(d, b, m, counter)
      BY DEF BoxInv, AllPlaced
    <3>2. PICK m \in 1 .. counter[ModT(b)] : Fits(d, b, m, counter)
      BY <3>1
    <3>3. Fits(d, b, m, counter')
      BY <1>8, <3>2, KeptEntriesAre DEF Fits, KeptAreEntries
    <3> QED
      BY <1>8, <3>3
  <2>2. ASSUME NEW d \in new
        PROVE  Fits(d, box, no, counter')
    <3>1. CASE d = module
      BY <3>1 DEF Fits, module
    <3>2. CASE d \in children
      <4>1. \E e \in KeptEntries(box, no) : \E n :
               d = EntryDevice(box, no, e, n) /\ Fresh(box, no, e.template, n)
        BY <1>6, <3>2 DEF Contents, children
      <4> QED
        BY <1>10, <4>1 DEF Fits
    <3> QED
      BY <3>1, <3>2
  <2> HIDE DEF new
  <2>3. ASSUME NEW d \in devices'
        PROVE  \E b \in Boxes : \E m \in 1 .. counter'[ModT(b)] : Fits(d, b, m, counter')
    BY <1>4, <1>9, <2>1, <2>2
  <2> QED
    BY <2>3 DEF AllPlaced
<1>12. AllBuilt(devices', counter')
  <2>1. ASSUME NEW b \in Boxes, NEW m \in 1 .. counter'[ModT(b)]
        PROVE  /\ ModuleOf(b, m) \in devices'
               /\ \A e \in KeptEntries(b, m) : \E n \in 1 .. counter'[e.template] :
                     EntryDevice(b, m, e, n) \in devices'
    <3>1. CASE b = box /\ m = no
      <4>1. ModuleOf(b, m) \in devices'
        BY <1>4, <3>1 DEF module
      <4>2. \A e \in KeptEntries(box, no) : \E n :
               EntryDevice(box, no, e, n) \in children /\ Fresh(box, no, e.template, n)
        BY <1>6 DEF Contents, children
      <4>3. \A e \in KeptEntries(box, no) : \E n \in 1 .. counter'[e.template] :
               EntryDevice(box, no, e, n) \in devices'
        BY <1>4, <1>10, <4>2
      <4> QED
        BY <3>1, <4>1, <4>3
    <3>2. CASE m \in 1 .. counter[ModT(b)]
      <4>1. /\ ModuleOf(b, m) \in devices
            /\ \A e \in KeptEntries(b, m) : \E n \in 1 .. counter[e.template] :
                  EntryDevice(b, m, e, n) \in devices
        BY <3>2 DEF BoxInv, AllBuilt
      <4>2. \A e \in KeptEntries(b, m) : e.template \in LeafTemplates
        BY KeptEntriesAre DEF KeptAreEntries
      <4> HIDE DEF new
      <4> QED
        BY <1>4, <1>8, <4>1, <4>2
    <3> QED
      BY <1>9, <3>1, <3>2
  <2> QED
    BY <2>1 DEF AllBuilt
<1>13. Counted(devices', counter')
  <2> DEFINE OfKind(D, b) == {d \in D : d.template \in ModulesIn(b)}
  <2>1. module.template = ModT(box)
    BY ModuleFields DEF module
  <2>2. /\ OfKind(devices', box) = OfKind(devices, box) \cup {module}
        /\ \A b \in Boxes \ {box} : OfKind(devices', b) = OfKind(devices, b)
    <3>1. ModT(box) \in ModulesIn(box) /\ \A b \in Boxes : ModulesIn(b) \subseteq ContainerTemplates
      BY ModTIsIn
    <3>2. \A b \in Boxes \ {box} : ModT(box) \notin ModulesIn(b)
      BY DEF Boxes, ModulesIn, ModT, ModuleTemplate, KindOf, ComputeModules
    <3> HIDE DEF new
    <3>3. module \in new
      BY DEF new
    <3> QED
      BY <1>3, <1>4, <2>1, <3>1, <3>2, <3>3
  <2>3. module \notin OfKind(devices, box)
    <3>1. module \in new
      OBVIOUS
    <3> HIDE DEF new
    <3> QED
      BY <1>3, <3>1
  <2>4. IsFiniteSet(OfKind(devices, box))
    BY PartIsSmaller DEF BoxInv
  <2>5. \A b \in Boxes : Cardinality(OfKind(devices, b)) = counter[ModT(b)]
    BY DEF BoxInv, Counted
  <2> HIDE DEF OfKind
  <2>6. Cardinality(OfKind(devices', box)) = counter[ModT(box)] + 1
    BY <2>2, <2>3, <2>4, <2>5, FS_AddElement
  <2>7. \A b \in Boxes : Cardinality(OfKind(devices', b)) = counter'[ModT(b)]
    BY <1>1, <1>5, <2>2, <2>5, <2>6
  <2> QED
    BY <2>7 DEF Counted, OfKind
<1>14. IdsDiffer(devices') /\ TagsDiffer(devices')
  <2>1. IdsDiffer(devices) /\ TagsDiffer(devices)
    BY DEF BoxInv
  <2>2. \A d \in devices : \E b \in Boxes : \E m \in 1 .. counter[ModT(b)] : d.tag[1] = b /\ d.tag[2] = m
    <3>1. ASSUME NEW d \in devices
          PROVE  \E b \in Boxes : \E m \in 1 .. counter[ModT(b)] : d.tag[1] = b /\ d.tag[2] = m
      <4>1. PICK b \in Boxes : \E m \in 1 .. counter[ModT(b)] : Fits(d, b, m, counter)
        BY DEF BoxInv, AllPlaced
      <4>2. PICK m \in 1 .. counter[ModT(b)] : Fits(d, b, m, counter)
        BY <4>1
      <4> QED
        BY <4>2, FitTags
    <3> QED
      BY <3>1
  <2>3. \A d \in devices : \A e \in new : d.tag # e.tag
    <3>1. \A m \in 1 .. counter[ModT(box)] : m # no
      BY <1>1, <1>7
    <3> HIDE DEF new
    <3> QED
      BY <1>3, <2>2, <3>1
  <2> HIDE DEF new
  <2> QED
    BY <1>3, <1>4, <2>1, <2>3 DEF IdsDiffer, TagsDiffer
<1>15. IsFiniteSet(devices')
  <2> HIDE DEF new
  <2> QED
    BY <1>3, <1>4, FS_Union DEF BoxInv
<1>16. BoxInv(devices', counter')
  BY <1>5, <1>11, <1>12, <1>13, <1>14, <1>15 DEF BoxInv
<1>17. \A b \in buses' \ buses :
          b.id[1] = "ac_main" /\ b.members \subseteq {d.id : d \in devices'}
  <2>1. {d.id : d \in children} \subseteq {d.id : d \in devices'}
    BY <1>4
  <2> QED
    BY <1>2, <2>1 DEF children
<1> QED
  BY <1>1, <1>4, <1>5, <1>16, <1>17 DEF children, module

-----------------------------------------------------------------------------
(***************************************************************************)
(* The entries a container keeps, of each kind.                            *)
(***************************************************************************)
\* The sizing of the order, as SizingProofs has it.
LEMMA SiteIsSized ==
  ASSUME order \in Orders, site = Resolution(order)
  PROVE  /\ site.nodes \in Nat \ {0} /\ site.compute \in Nat \ {0} /\ site.grid \in Nat \ {0}
         /\ site.nodes <= 7 * site.compute /\ 7 * (site.compute - 1) < site.nodes
         /\ site.feeds = ComputeFeeds(site.compute, site.grid)
BY ContainersHold, GridsCarry DEF Resolution

LEMMA GridVariantsAre ==
  ASSUME release \in Releases, site.grid \in Nat \ {0}
  PROVE  /\ Len(GridVariants) = IF release.primary THEN site.grid ELSE site.grid - 1
         /\ \A k \in 1 .. Len(GridVariants) :
               GridVariants[k] = IF release.primary /\ k = 1 THEN "primary" ELSE "feeder"
<1> DEFINE F == [k \in 1 .. site.grid - 1 |-> "feeder"]
           W == {"primary", "feeder"}
<1>1. release.primary \in BOOLEAN
  BY DEF Releases
<1>2. site.grid - 1 \in Nat
  OBVIOUS
<1>3. F \in [1 .. site.grid - 1 -> W]
  OBVIOUS
<1>4. F \in Seq(W) /\ Len(F) = site.grid - 1 /\ \A k \in 1 .. site.grid - 1 : F[k] = "feeder"
  <2>1. F \in Seq(W)
    BY <1>2, <1>3, SeqDef
  <2> QED
    BY <1>2, <1>3, <2>1, LenProperties
<1>5. CASE release.primary
  <2>1. GridVariants = <<"primary">> \o F
    BY <1>5 DEF GridVariants
  <2>2. <<"primary">> \in Seq(W) /\ Len(<<"primary">>) = 1 /\ <<"primary">>[1] = "primary"
    OBVIOUS
  <2> HIDE DEF F, W
  <2>3. /\ Len(<<"primary">> \o F) = 1 + Len(F)
        /\ \A k \in 1 .. 1 + Len(F) :
              (<<"primary">> \o F)[k] = IF k <= 1 THEN <<"primary">>[k] ELSE F[k - 1]
    BY <1>4, <2>2, ConcatProperties
  <2>4. \A k \in 1 .. site.grid : k # 1 => k - 1 \in 1 .. site.grid - 1 /\ ~(k <= 1)
    BY <1>2
  <2>5. Len(GridVariants) = site.grid
    BY <1>2, <1>4, <2>1, <2>3
  <2>6. \A k \in 1 .. site.grid : GridVariants[k] = IF k = 1 THEN "primary" ELSE "feeder"
    BY <1>2, <1>4, <2>1, <2>2, <2>3, <2>4
  <2> QED
    BY <1>5, <2>5, <2>6
<1>6. CASE ~release.primary
  <2>1. GridVariants = << >> \o F
    BY <1>6 DEF GridVariants
  <2> HIDE DEF F, W
  <2>2. << >> \o F = F
    BY <1>4, ConcatEmptySeq
  <2> QED
    BY <1>2, <1>4, <1>6, <2>1, <2>2
<1> QED
  BY <1>5, <1>6

\* The entries of a grid container.
GridEntries(no) ==
    IF release.primary /\ no = 1 THEN PrimaryEntries(release.newTemplate) ELSE FeederEntries

LEMMA KeptInContainer ==
  ASSUME release \in Releases
  PROVE  /\ "compute" \in release.topology =>
              \A no : KeptEntries("C", no) =
                 {e \in ComputeEntries(order.variant) : <<e.name, e.k>> \notin Drop("C", no)}
         /\ "compute" \notin release.topology => \A no : KeptEntries("C", no) = {}
         /\ site.grid \in Nat \ {0} =>
              \A no \in 1 .. Len(GridVariants) :
                 KeptEntries("G", no) =
                    IF GridVariants[no] \in release.topology THEN GridEntries(no) ELSE {}
<1>1. \A v : v \notin release.topology => EntriesOf(FetchTopology(v)) = {}
  BY FetchedEntries DEF EntriesOf
<1>2. ASSUME "compute" \in release.topology, NEW no
      PROVE  KeptEntries("C", no) =
                {e \in ComputeEntries(order.variant) : <<e.name, e.k>> \notin Drop("C", no)}
  <2>1. EntriesOf(FetchTopology("compute")) = ComputeEntries(order.variant)
    BY <1>2, FetchedEntries DEF EntriesOf, EntriesIn
  <2> QED
    BY <2>1 DEF KeptEntries, Variant
<1>3. ASSUME "compute" \notin release.topology, NEW no
      PROVE  KeptEntries("C", no) = {}
  BY <1>1, <1>3 DEF KeptEntries, Variant
<1>4. ASSUME site.grid \in Nat \ {0}, NEW no \in 1 .. Len(GridVariants)
      PROVE  KeptEntries("G", no) =
                IF GridVariants[no] \in release.topology THEN GridEntries(no) ELSE {}
  <2>1. KeptEntries("G", no) = EntriesOf(FetchTopology(GridVariants[no]))
    BY DEF KeptEntries, Variant, Drop
  <2>2. GridVariants[no] = IF release.primary /\ no = 1 THEN "primary" ELSE "feeder"
    BY <1>4, GridVariantsAre
  <2>3. CASE GridVariants[no] \notin release.topology
    BY <1>1, <2>1, <2>3
  <2>4. CASE GridVariants[no] \in release.topology
    <3>1. CASE release.primary /\ no = 1
      <4>1. EntriesOf(FetchTopology("primary")) = PrimaryEntries(release.newTemplate)
        BY <2>2, <2>4, <3>1, FetchedEntries DEF EntriesOf, EntriesIn
      <4> QED
        BY <2>1, <2>2, <2>4, <3>1, <4>1 DEF GridEntries
    <3>2. CASE ~(release.primary /\ no = 1)
      <4>1. EntriesOf(FetchTopology("feeder")) = FeederEntries
        BY <2>2, <2>4, <3>2, FetchedEntries DEF EntriesOf, EntriesIn
      <4> QED
        BY <2>1, <2>2, <2>4, <3>2, <4>1 DEF GridEntries
    <3> QED
      BY <3>1, <3>2
  <2> QED
    BY <2>3, <2>4
<1> QED
  BY <1>2, <1>3, <1>4

\* What a container takes of a template of which it has one entry, or none.
LEMMA TakenOfOne ==
  ASSUME release \in Releases, counter \in [SlugNames -> Nat],
         NEW box \in Boxes, NEW no, no = counter[ModT(box)] + 1,
         NEW t \in LeafTemplates, NEW e \in KeptEntries(box, no), e.template = t,
         \A f \in KeptEntries(box, no) : f.template = t => f = e
  PROVE  /\ Taken(NewChildren(box, no))[t] = 1
         /\ \A d \in NewChildren(box, no) : d.template = t => d.id[2] = counter[t] + 1
<1> DEFINE children == NewChildren(box, no)
           U == {d \in children : d.id[1] = t}
<1>1. Contents(box, no)
  BY Container
<1>2. \A d \in children : \E f \in KeptEntries(box, no) : \E n :
         /\ d = EntryDevice(box, no, f, n) /\ Fresh(box, no, f.template, n)
         /\ d.id = <<f.template, n>> /\ d.tag = <<box, no, f.name, f.k>>
         /\ d.template = f.template
  BY <1>1, EntryFields DEF Contents
<1>3. PICK n : EntryDevice(box, no, e, n) \in children /\ Fresh(box, no, t, n)
  BY <1>1 DEF Contents
<1> DEFINE d0 == EntryDevice(box, no, e, n)
<1>4. d0.tag = <<box, no, e.name, e.k>> /\ d0.id = <<t, n>> /\ d0.template = t
  BY EntryFields
<1>5. \A c, d \in children : c.tag = d.tag => c = d
  BY <1>1 DEF Contents
<1> HIDE DEF children, d0
<1>6. d0 \in children
  BY <1>3 DEF d0
<1>7. \A d \in children : d.id[1] = t \/ d.template = t => d = d0
  BY <1>2, <1>4, <1>5, <1>6
<1>8. U = {d0}
  BY <1>4, <1>6, <1>7
<1>9. t \in SlugNames
  BY LeavesAreNoModules
<1>10. Taken(children)[t] = 1
  BY <1>8, <1>9, FS_Singleton DEF Taken
<1>11. n = counter[t] + 1
  BY <1>3, <1>9, <1>10 DEF Fresh, children
<1> QED
  BY <1>4, <1>7, <1>10, <1>11 DEF children

LEMMA TakenOfNone ==
  ASSUME release \in Releases, counter \in [SlugNames -> Nat],
         NEW box \in Boxes, NEW no, no = counter[ModT(box)] + 1,
         NEW t \in LeafTemplates, \A f \in KeptEntries(box, no) : f.template # t
  PROVE  /\ Taken(NewChildren(box, no))[t] = 0
         /\ \A d \in NewChildren(box, no) : d.template # t
<1> DEFINE children == NewChildren(box, no)
           U == {d \in children : d.id[1] = t}
<1>1. Contents(box, no)
  BY Container
<1>2. \A d \in children : \E f \in KeptEntries(box, no) : \E n :
         d.id = <<f.template, n>> /\ d.template = f.template
  BY <1>1, EntryFields DEF Contents
<1>3. U = {} /\ \A d \in children : d.template # t
  BY <1>2
<1>4. t \in SlugNames
  BY LeavesAreNoModules
<1> QED
  BY <1>3, <1>4, FS_EmptySet DEF Taken

\* With whole topologies, the transformer and the switchboard of the k-th
\* grid container have the k-th slugs.
GridNumbered(D, c) ==
    \A t \in {"transformer", "lv_switchboard"} :
       c[t] = c["grid_module"] /\ \A d \in D : d.template = t => d.id[2] = d.tag[2]

LEMMA GridEntriesOnce ==
  ASSUME NEW no, NEW t \in {"transformer", "lv_switchboard"}
  PROVE  \E e \in GridEntries(no) :
            /\ e.template = t /\ \A f \in GridEntries(no) : f.template = t => f = e
<1> DEFINE e == IF t = "transformer" THEN Entry("T", 1, "transformer", FALSE)
                ELSE Entry("SWBD", 1, "lv_switchboard", FALSE)
<1>1. e.template = t /\ e \in FeederEntries
  BY DEF Entry, FeederEntries
<1>2. \A f \in PrimaryEntries(release.newTemplate) : f.template = t => f = e
  BY DEF Entry, FeederEntries, PrimaryEntries
<1>3. FeederEntries \subseteq GridEntries(no) /\ GridEntries(no) \subseteq PrimaryEntries(release.newTemplate)
  BY DEF GridEntries, PrimaryEntries
<1> HIDE DEF e
<1> QED
  BY <1>1, <1>2, <1>3

LEMMA NumberedStep ==
  ASSUME release \in Releases, Complete, site.grid \in Nat \ {0},
         BoxInv(devices, counter), GridNumbered(devices, counter),
         NEW box \in Boxes, NEW no, no = Emitted(ModulesIn(box)) + 1,
         box = "G" => no \in 1 .. Len(GridVariants),
         EmitContainer(KindOf(box), box, no, Variant(box, no), Drop(box, no))
  PROVE  GridNumbered(devices', counter')
<1>1. /\ no = counter[ModT(box)] + 1
      /\ devices' = devices \cup {ModuleOf(box, no)} \cup NewChildren(box, no)
      /\ counter'[ModT(box)] = no
      /\ \A b \in Boxes \ {box} : counter'[ModT(b)] = counter[ModT(b)]
      /\ \A t \in LeafTemplates : counter'[t] = counter[t] + Taken(NewChildren(box, no))[t]
  BY Emission
<1>2. /\ counter \in [SlugNames -> Nat] /\ ModT("G") = "grid_module" /\ "grid_module" \in SlugNames
      /\ ModT("C") # "grid_module"
  BY DEF BoxInv, ModT, ModuleTemplate, KindOf, SlugNames, Templates
<1> SUFFICES ASSUME NEW t \in {"transformer", "lv_switchboard"}
             PROVE  /\ counter'[t] = counter'["grid_module"]
                    /\ \A d \in devices' : d.template = t => d.id[2] = d.tag[2]
  BY DEF GridNumbered
<1>3. t \in LeafTemplates /\ t # ModT(box) /\ counter[t] = counter["grid_module"] /\ counter[t] \in Nat
  BY <1>2, LeavesAreNoModules, ModTIsIn DEF GridNumbered, LeafTemplates
<1>4. ModuleOf(box, no).template # t
  BY <1>3, ModuleFields
<1>5. \A d \in devices : d.template = t => d.id[2] = d.tag[2]
  BY DEF GridNumbered
<1>6. CASE box = "C"
  <2>1. \A f \in KeptEntries("C", no) : f.template # t
    <3>1. KeptEntries("C", no) \subseteq ComputeEntries(order.variant)
      BY KeptInContainer DEF Complete
    <3>2. \A f \in ComputeEntries(order.variant) : f.template # t
      BY DEF ComputeEntries, Entry, Many, NodeTemplate
    <3> QED
      BY <3>1, <3>2
  <2>2. Taken(NewChildren(box, no))[t] = 0 /\ \A d \in NewChildren(box, no) : d.template # t
    BY <1>1, <1>2, <1>3, <1>6, <2>1, TakenOfNone
  <2>3. counter'["grid_module"] = counter["grid_module"]
    BY <1>1, <1>2, <1>6 DEF Boxes
  <2>4. counter'[t] = counter'["grid_module"]
    BY <1>1, <1>3, <2>2, <2>3
  <2> QED
    BY <1>1, <1>4, <1>5, <2>2, <2>4
<1>7. CASE box = "G"
  <2>1. KeptEntries("G", no) = GridEntries(no)
    <3>1. no \in 1 .. Len(GridVariants)
      BY <1>7
    <3>2. GridVariants[no] \in release.topology
      BY <3>1, GridVariantsAre DEF Complete
    <3> QED
      BY <3>1, <3>2, KeptInContainer
  <2>2. PICK e \in KeptEntries(box, no) :
           e.template = t /\ \A f \in KeptEntries(box, no) : f.template = t => f = e
    BY <1>7, <2>1, GridEntriesOnce
  <2>3. /\ Taken(NewChildren(box, no))[t] = 1
        /\ \A d \in NewChildren(box, no) : d.template = t => d.id[2] = counter[t] + 1
    BY <1>1, <1>2, <1>3, <2>2, TakenOfOne
  <2>4. counter'["grid_module"] = no /\ no = counter[t] + 1
    BY <1>1, <1>2, <1>3, <1>7
  <2>5. counter'[t] = counter'["grid_module"]
    BY <1>1, <1>3, <2>3, <2>4
  <2>6. \A d \in NewChildren(box, no) : d.tag[2] = no
    <3>1. Contents(box, no)
      BY <1>1, <1>2, Container
    <3>2. \A d \in NewChildren(box, no) : \E name, k : d.tag = <<box, no, name, k>>
      BY <3>1, EntryFields DEF Contents
    <3> QED
      BY <3>2
  <2> QED
    BY <1>1, <1>4, <1>5, <2>3, <2>4, <2>5, <2>6
<1> QED
  BY <1>6, <1>7 DEF Boxes

-----------------------------------------------------------------------------
(***************************************************************************)
(* The pad and the utility's devices.                                      *)
(***************************************************************************)
PadTemplates == {"bess_module", "bess_module_dc", "bess_rack", "bess_catl", "pcs"}
UtilityTemplates == {"der_dispatch", "operating_envelope"}

PadModule ==
    LET template == IF options.coupling = "ac_coupled" THEN "bess_module" ELSE "bess_module_dc"
    IN  Device(<<template, 1>>, Tag("BESS", 0, Itself, 0), template, None, FALSE)
PadLeaf(t, n, tag) == Device(<<t, n>>, tag, t, PadModule.id, TRUE)
PadRack(n) == PadLeaf("bess_rack", n, Tag("BESS", 1, "MP", n))
PadPcs(n) == PadLeaf("pcs", n, Tag("PCS", n, Itself, 0))
PadCatl == PadLeaf("bess_catl", 1, Tag("BESS", 1, Itself, 0))
Racks == IF options.coupling = "ac_coupled" THEN Megapacks ELSE 0
Pcss == IF options.coupling = "dc_external_pcs" THEN options.pcs ELSE 0

LEMMA PadModuleFields ==
  /\ PadModule.id[1] = PadModule.template /\ PadModule.id[2] = 1
  /\ PadModule.template = IF options.coupling = "ac_coupled" THEN "bess_module" ELSE "bess_module_dc"
  /\ PadModule.tag = <<"BESS", 0, Itself, 0>>
  /\ PadModule.parent = None /\ PadModule.polled = FALSE
  /\ PadModule.id \in SlugNames \X Nat
BY DEF PadModule, Device, Tag, SlugNames, Templates

LEMMA PadLeafFields ==
  ASSUME NEW n
  PROVE  /\ PadRack(n).id = <<"bess_rack", n>> /\ PadRack(n).tag = <<"BESS", 1, "MP", n>>
         /\ PadRack(n).template = "bess_rack"
         /\ PadRack(n).parent = PadModule.id /\ PadRack(n).polled = TRUE
         /\ PadPcs(n).id = <<"pcs", n>> /\ PadPcs(n).tag = <<"PCS", n, Itself, 0>>
         /\ PadPcs(n).template = "pcs"
         /\ PadPcs(n).parent = PadModule.id /\ PadPcs(n).polled = TRUE
         /\ PadCatl.id = <<"bess_catl", 1>> /\ PadCatl.tag = <<"BESS", 1, Itself, 0>>
         /\ PadCatl.template = "bess_catl"
         /\ PadCatl.parent = PadModule.id /\ PadCatl.polled = TRUE
BY DEF PadRack, PadPcs, PadCatl, PadLeaf, Device, Tag

LEMMA PadIs ==
  ASSUME options \in Options
  PROVE  /\ Racks \in Nat /\ Pcss \in Nat
         /\ \A d : d \in Pad <=>
               \/ d = PadModule
               \/ options.coupling # "ac_coupled" /\ d = PadCatl
               \/ \E n \in 1 .. Racks : d = PadRack(n)
               \/ \E n \in 1 .. Pcss : d = PadPcs(n)
<1>1. Megapacks \in Nat
  BY DEF Megapacks, CeilDiv, Options
<1>2. Racks \in Nat /\ Pcss \in Nat
  BY <1>1 DEF Racks, Pcss, Options
<1>3. Pad = {PadModule}
            \cup (IF options.coupling = "ac_coupled" THEN {PadRack(n) : n \in 1 .. Megapacks}
                  ELSE {PadCatl})
            \cup (IF options.coupling = "dc_external_pcs" THEN {PadPcs(n) : n \in 1 .. options.pcs}
                  ELSE {})
  BY DEF Pad, PadModule, PadRack, PadPcs, PadCatl, PadLeaf
<1>4. \A d : d \in Pad <=>
         \/ d = PadModule
         \/ options.coupling # "ac_coupled" /\ d = PadCatl
         \/ \E n \in 1 .. Racks : d = PadRack(n)
         \/ \E n \in 1 .. Pcss : d = PadPcs(n)
  <2>1. \A n : n \notin 1 .. 0
    OBVIOUS
  <2> QED
    BY <1>3, <2>1 DEF Racks, Pcss
<1> QED
  BY <1>2, <1>4

LEMMA PadDevices ==
  ASSUME options \in Options
  PROVE  /\ IsFiniteSet(Pad)
         /\ \A d \in Pad : /\ d.tag[1] \in {"BESS", "PCS"}
                           /\ d.template \in PadTemplates /\ d.id[1] = d.template
                           /\ d.id[2] \in Nat /\ d.id[2] <= Taken(Pad)[d.template]
         /\ IdsDiffer(Pad) /\ TagsDiffer(Pad)
         /\ PadModule \in Pad
         /\ \A d \in Pad : d = PadModule \/ d.parent = PadModule.id
         /\ (CHOOSE d \in Pad : d.parent = None) = PadModule
<1> DEFINE rack == [n \in 1 .. Racks |-> PadRack(n)]
           pcs == [n \in 1 .. Pcss |-> PadPcs(n)]
           OfRacks == {rack[n] : n \in 1 .. Racks}
           OfPcs == {pcs[n] : n \in 1 .. Pcss}
           Shape(d) == \/ d = PadModule
                       \/ options.coupling # "ac_coupled" /\ d = PadCatl
                       \/ d \in OfRacks \/ d \in OfPcs
<1>1. Racks \in Nat /\ Pcss \in Nat
  BY PadIs
<1>2. \A d : d \in Pad <=> Shape(d)
  BY PadIs
<1>3. /\ DOMAIN rack = 1 .. Racks /\ DOMAIN pcs = 1 .. Pcss
      /\ \A n \in 1 .. Racks : rack[n] = PadRack(n)
      /\ \A n \in 1 .. Pcss : pcs[n] = PadPcs(n)
  OBVIOUS
<1> HIDE DEF rack, pcs
<1>4. /\ \A d \in OfRacks : \E n \in 1 .. Racks :
            /\ d.id = <<"bess_rack", n>> /\ d.tag = <<"BESS", 1, "MP", n>>
            /\ d.template = "bess_rack" /\ d.parent = PadModule.id /\ d = rack[n]
      /\ \A d \in OfPcs : \E n \in 1 .. Pcss :
            /\ d.id = <<"pcs", n>> /\ d.tag = <<"PCS", n, Itself, 0>>
            /\ d.template = "pcs" /\ d.parent = PadModule.id /\ d = pcs[n]
  <2>1. ASSUME NEW d \in OfRacks
        PROVE  \E n \in 1 .. Racks :
                  /\ d.id = <<"bess_rack", n>> /\ d.tag = <<"BESS", 1, "MP", n>>
                  /\ d.template = "bess_rack" /\ d.parent = PadModule.id /\ d = rack[n]
    <3>1. PICK n \in 1 .. Racks : d = rack[n]
      BY <2>1
    <3>2. d = PadRack(n)
      BY <1>3, <3>1
    <3> QED
      BY <3>1, <3>2, PadLeafFields
  <2>2. ASSUME NEW d \in OfPcs
        PROVE  \E n \in 1 .. Pcss :
                  /\ d.id = <<"pcs", n>> /\ d.tag = <<"PCS", n, Itself, 0>>
                  /\ d.template = "pcs" /\ d.parent = PadModule.id /\ d = pcs[n]
    <3>1. PICK n \in 1 .. Pcss : d = pcs[n]
      BY <2>2
    <3>2. d = PadPcs(n)
      BY <1>3, <3>1
    <3> QED
      BY <3>1, <3>2, PadLeafFields
  <2> QED
    BY <2>1, <2>2
<1>6. /\ IsFiniteSet(OfRacks) /\ Cardinality(OfRacks) = Racks
      /\ IsFiniteSet(OfPcs) /\ Cardinality(OfPcs) = Pcss
  <2>1. \A m, n \in 1 .. Racks : rack[m] = rack[n] => m = n
    <3>1. \A n \in 1 .. Racks : rack[n].id = <<"bess_rack", n>>
      BY <1>3, PadLeafFields
    <3> QED
      BY <3>1
  <2>2. \A m, n \in 1 .. Pcss : pcs[m] = pcs[n] => m = n
    <3>1. \A n \in 1 .. Pcss : pcs[n].id = <<"pcs", n>>
      BY <1>3, PadLeafFields
    <3> QED
      BY <3>1
  <2>3. DOMAIN rack = 1 .. Racks /\ DOMAIN pcs = 1 .. Pcss
    BY <1>3
  <2>4. OfRacks = {rack[n] : n \in 1 .. Racks} /\ OfPcs = {pcs[n] : n \in 1 .. Pcss}
    OBVIOUS
  <2> HIDE DEF OfRacks, OfPcs
  <2>5. IsFiniteSet(OfRacks) /\ Cardinality(OfRacks) = Racks
    BY <1>1, <2>1, <2>3, <2>4, ListIsAsLong
  <2>6. IsFiniteSet(OfPcs) /\ Cardinality(OfPcs) = Pcss
    BY <1>1, <2>2, <2>3, <2>4, ListIsAsLong
  <2> QED
    BY <2>5, <2>6
<1> HIDE DEF OfRacks, OfPcs
<1>7. IsFiniteSet(Pad)
  <2>1. IsFiniteSet({PadModule} \cup {PadCatl} \cup OfRacks \cup OfPcs)
    BY <1>6, FS_Singleton, FS_Union
  <2>2. Pad \subseteq {PadModule} \cup {PadCatl} \cup OfRacks \cup OfPcs
    BY <1>2
  <2> QED
    BY <2>1, <2>2, PartIsSmaller
<1>8. ASSUME NEW d \in Pad
      PROVE  /\ d.tag[1] \in {"BESS", "PCS"} /\ d.template \in PadTemplates
             /\ d.id[1] = d.template /\ d.id[2] \in Nat
             /\ d = PadModule \/ d.parent = PadModule.id
  <2>1. CASE d = PadModule
    BY <2>1, PadModuleFields DEF PadTemplates
  <2>2. CASE d = PadCatl
    <3>1. /\ d.id = <<"bess_catl", 1>> /\ d.tag = <<"BESS", 1, Itself, 0>>
          /\ d.template = "bess_catl" /\ d.parent = PadModule.id
      BY <2>2, PadLeafFields
    <3> QED
      BY <3>1 DEF PadTemplates
  <2>3. CASE d \in OfRacks \/ d \in OfPcs
    BY <1>4, <2>3 DEF PadTemplates
  <2> QED
    BY <1>2, <2>1, <2>2, <2>3
<1>9. IdsDiffer(Pad) /\ TagsDiffer(Pad)
  <2> SUFFICES ASSUME NEW d \in Pad, NEW e \in Pad, d.id = e.id \/ d.tag = e.tag
               PROVE  d = e
    BY DEF IdsDiffer, TagsDiffer
  <2>1. /\ PadCatl.id = <<"bess_catl", 1>> /\ PadCatl.tag = <<"BESS", 1, Itself, 0>>
        /\ PadModule.id[1] \in {"bess_module", "bess_module_dc"}
        /\ PadModule.tag = <<"BESS", 0, Itself, 0>>
    BY PadLeafFields, PadModuleFields
  <2>2. "MP" # Itself
    BY DEF Itself
  <2>3. CASE d = PadModule \/ e = PadModule
    BY <1>2, <1>4, <2>1, <2>2, <2>3
  <2>4. CASE d \in OfRacks
    BY <1>2, <1>4, <2>1, <2>2, <2>3, <2>4
  <2>5. CASE d \in OfPcs
    BY <1>2, <1>4, <2>1, <2>2, <2>3, <2>5
  <2>6. CASE d = PadCatl
    BY <1>2, <1>4, <2>1, <2>2, <2>3, <2>6
  <2> QED
    BY <1>2, <2>3, <2>4, <2>5, <2>6
<1>10. PadModule \in Pad
  BY <1>2
<1>11. (CHOOSE d \in Pad : d.parent = None) = PadModule
  <2>1. PadModule.parent = None /\ PadModule.id # None
    BY PadModuleFields, NoneAssumption
  <2>2. \A d \in Pad : d.parent = None => d = PadModule
    BY <1>8, <2>1
  <2> QED
    BY <1>10, <2>1, <2>2
<1>12. ASSUME NEW d \in Pad
       PROVE  d.id[2] <= Taken(Pad)[d.template]
  <2> DEFINE U == {e \in Pad : e.id[1] = d.template}
  <2>1. d.template \in SlugNames
    BY <1>8 DEF PadTemplates, SlugNames, Templates
  <2>2. Taken(Pad)[d.template] = Cardinality(U)
    BY <2>1 DEF Taken
  <2>3. IsFiniteSet(U) /\ Cardinality(U) \in Nat /\ d \in U
    BY <1>7, <1>8, PartIsSmaller
  <2>4. \A S : S \subseteq U => Cardinality(S) \in Nat /\ Cardinality(S) <= Cardinality(U)
    BY <2>3, PartIsSmaller
  <2>5. CASE d \in OfRacks
    <3>1. d.template = "bess_rack" /\ d.id[2] \in 1 .. Racks
      BY <1>4, <2>5
    <3>2. OfRacks \subseteq U
      BY <1>2, <1>4, <3>1
    <3> HIDE DEF U
    <3> QED
      BY <1>1, <1>6, <2>2, <2>3, <2>4, <3>1, <3>2
  <2>6. CASE d \in OfPcs
    <3>1. d.template = "pcs" /\ d.id[2] \in 1 .. Pcss
      BY <1>4, <2>6
    <3>2. OfPcs \subseteq U
      BY <1>2, <1>4, <3>1
    <3> HIDE DEF U
    <3> QED
      BY <1>1, <1>6, <2>2, <2>3, <2>4, <3>1, <3>2
  <2>7. CASE d = PadModule \/ d = PadCatl
    <3>1. d.id[2] = 1
      <4>1. PadCatl.id = <<"bess_catl", 1>>
        BY PadLeafFields
      <4> QED
        BY <2>7, <4>1, PadModuleFields
    <3>2. Cardinality(U) # 0
      <4> HIDE DEF U
      <4> QED
        BY <2>3, FS_EmptySet
    <3> HIDE DEF U
    <3> QED
      BY <2>2, <2>3, <3>1, <3>2
  <2> QED
    BY <1>2, <2>5, <2>6, <2>7
<1> QED
  BY <1>7, <1>8, <1>9, <1>10, <1>11, <1>12

LEMMA UtilityDevices ==
  /\ IsFiniteSet(Utility)
  /\ \A d \in Utility : \E t \in UtilityTemplates :
        /\ d.id = <<t, 0>> /\ d.tag = <<t, 0, Itself, 0>> /\ d.template = t
        /\ d.parent = None /\ d.polled = FALSE
  /\ IdsDiffer(Utility) /\ TagsDiffer(Utility)
<1> DEFINE U == {u \in {"der_dispatch", "operating_envelope"} : ~options.offGrid}
           f == [t \in U |-> Device(<<t, 0>>, Tag(t, 0, Itself, 0), t, None, FALSE)]
<1>1. Utility = {f[t] : t \in U} /\ DOMAIN f = U
  BY DEF Utility
<1>2. IsFiniteSet(U)
  <2>1. IsFiniteSet({"der_dispatch"}) /\ IsFiniteSet({"operating_envelope"})
    BY FS_Singleton
  <2>2. IsFiniteSet({"der_dispatch"} \cup {"operating_envelope"})
    BY <2>1, FS_Union
  <2>3. U \subseteq {"der_dispatch"} \cup {"operating_envelope"}
    OBVIOUS
  <2> HIDE DEF U
  <2> QED
    BY <2>2, <2>3, FS_Subset
<1>3. \A t \in U : /\ f[t].id = <<t, 0>> /\ f[t].tag = <<t, 0, Itself, 0>> /\ f[t].template = t
                   /\ f[t].parent = None /\ f[t].polled = FALSE
  BY DEF Device, Tag
<1>4. U \subseteq UtilityTemplates
  BY DEF UtilityTemplates
<1> HIDE DEF U, f
<1>5. IsFiniteSet(Utility)
  BY <1>1, <1>2, ImageIsFinite
<1>6. \A d \in Utility : \E t \in U :
         /\ d.id = <<t, 0>> /\ d.tag = <<t, 0, Itself, 0>> /\ d.template = t
         /\ d.parent = None /\ d.polled = FALSE /\ d = f[t]
  BY <1>1, <1>3
<1>7. IdsDiffer(Utility) /\ TagsDiffer(Utility)
  BY <1>6 DEF IdsDiffer, TagsDiffer
<1> QED
  BY <1>4, <1>5, <1>6, <1>7

-----------------------------------------------------------------------------
(***************************************************************************)
(* The manifest, once the containers are out.                              *)
(***************************************************************************)
\* What a container holds hangs on the order, its sizing and its release.
LEMMA SameContainers ==
  ASSUME UNCHANGED <<order, site, release>>
  PROVE  /\ \A v : FetchTopology(v)' = FetchTopology(v)
         /\ GridVariants' = GridVariants
         /\ \A box : ModT(box)' = ModT(box)
         /\ \A box, no : /\ KeptEntries(box, no)' = KeptEntries(box, no)
                         /\ ModuleOf(box, no)' = ModuleOf(box, no)
         /\ \A box, no, e, n : EntryDevice(box, no, e, n)' = EntryDevice(box, no, e, n)
<1>1. \A v : FetchTopology(v)' = FetchTopology(v)
  BY DEF FetchTopology
<1>2. GridVariants' = GridVariants
  BY DEF GridVariants
<1>3. \A box : ModT(box)' = ModT(box)
  BY <1>1 DEF ModT, ModuleTemplate
<1>4. \A box, no : Variant(box, no)' = Variant(box, no) /\ Drop(box, no)' = Drop(box, no)
  BY <1>2 DEF Variant, Drop
<1>5. \A box, no : KeptEntries(box, no)' = KeptEntries(box, no)
  BY <1>1, <1>4 DEF KeptEntries
<1>6. \A box, no : ModuleOf(box, no)' = ModuleOf(box, no)
  BY <1>3 DEF ModuleOf
<1>7. \A box, no, e, n : EntryDevice(box, no, e, n)' = EntryDevice(box, no, e, n)
  BY <1>3 DEF EntryDevice
<1> QED
  BY <1>1, <1>2, <1>3, <1>5, <1>6, <1>7

LEMMA BoxInvPrimed ==
  ASSUME UNCHANGED <<order, site, release>>, NEW D, NEW c, BoxInv(D, c)
  PROVE  BoxInv(D, c)'
<1>1. /\ \A box : ModT(box)' = ModT(box)
      /\ \A box, no : /\ KeptEntries(box, no)' = KeptEntries(box, no)
                      /\ ModuleOf(box, no)' = ModuleOf(box, no)
      /\ \A box, no, e, n : EntryDevice(box, no, e, n)' = EntryDevice(box, no, e, n)
  BY SameContainers
<1>2. AllPlaced(D, c)'
  BY <1>1 DEF BoxInv, AllPlaced, Fits
<1>3. AllBuilt(D, c)'
  BY <1>1 DEF BoxInv, AllBuilt
<1>4. Counted(D, c)'
  BY <1>1 DEF BoxInv, Counted
<1> QED
  BY <1>2, <1>3, <1>4 DEF BoxInv, IdsDiffer, TagsDiffer

\* Slugs of other templates are no matter of the containers.
LEMMA BoxInvStays ==
  ASSUME release \in Releases, NEW D, NEW c, BoxInv(D, c),
         NEW s \in [SlugNames -> Nat],
         \A t \in LeafTemplates \cup ContainerTemplates : s[t] = c[t]
  PROVE  BoxInv(D, s)
<1>1. \A box \in Boxes : s[ModT(box)] = c[ModT(box)]
  BY ModTIsIn
<1>2. \A box \in Boxes : \A no : \A e \in KeptEntries(box, no) : s[e.template] = c[e.template]
  BY KeptEntriesAre DEF KeptAreEntries
<1>3. ASSUME NEW d, NEW box \in Boxes, NEW no, Fits(d, box, no, c)
      PROVE  Fits(d, box, no, s)
  BY <1>2, <1>3 DEF Fits
<1>4. AllPlaced(D, s)
  BY <1>1, <1>3 DEF BoxInv, AllPlaced
<1>5. AllBuilt(D, s)
  BY <1>1, <1>2 DEF BoxInv, AllBuilt
<1>6. Counted(D, s)
  BY <1>1 DEF BoxInv, Counted
<1> QED
  BY <1>4, <1>5, <1>6 DEF BoxInv

\* The templates of what is in the containers, and the words of its tags.
LEMMA BoxedDevices ==
  ASSUME release \in Releases, NEW D, NEW c, BoxInv(D, c), NEW d \in D
  PROVE  /\ d.tag[1] \in Boxes /\ d.id[1] = d.template
         /\ d.template \in LeafTemplates \cup ContainerTemplates
         /\ d.id[2] \in Nat /\ d.id[2] <= c[d.template]
<1>1. PICK box \in Boxes : \E no \in 1 .. c[ModT(box)] : Fits(d, box, no, c)
  BY DEF BoxInv, AllPlaced
<1>2. PICK no \in 1 .. c[ModT(box)] : Fits(d, box, no, c)
  BY <1>1
<1>3. d.tag[1] = box
  BY <1>2, FitTags
<1>4. CASE d = ModuleOf(box, no)
  <2>1. d.id = <<ModT(box), no>> /\ d.template = ModT(box)
    BY <1>4, ModuleFields
  <2>2. ModT(box) \in ContainerTemplates /\ ModT(box) \in SlugNames
    BY ModTIsIn
  <2>3. c[ModT(box)] \in Nat
    BY <2>2 DEF BoxInv
  <2>4. d.id[1] = ModT(box) /\ d.id[2] = no
    BY <2>1
  <2> QED
    BY <1>2, <1>3, <2>1, <2>2, <2>3, <2>4
<1>5. CASE d # ModuleOf(box, no)
  <2>1. PICK e \in KeptEntries(box, no) : \E n \in 1 .. c[e.template] : d = EntryDevice(box, no, e, n)
    BY <1>2, <1>5 DEF Fits
  <2>2. PICK n \in 1 .. c[e.template] : d = EntryDevice(box, no, e, n)
    BY <2>1
  <2>3. d.id = <<e.template, n>> /\ d.template = e.template
    BY <2>2, EntryFields
  <2>4. e.template \in LeafTemplates /\ e.template \in SlugNames
    BY <2>1, KeptEntriesAre, LeavesAreNoModules DEF KeptAreEntries
  <2>5. c[e.template] \in Nat
    BY <2>4 DEF BoxInv
  <2>6. d.id[1] = e.template /\ d.id[2] = n
    BY <2>3
  <2> QED
    BY <1>3, <2>2, <2>3, <2>4, <2>5, <2>6
<1> QED
  BY <1>4, <1>5

-----------------------------------------------------------------------------
(***************************************************************************)
(* The manifest while the containers are emitted, and afterwards.          *)
(***************************************************************************)
EmitInv ==
    /\ BoxInv(devices, counter)
    /\ counter[ModT("C")] <= site.compute
    /\ counter["grid_module"] <= Len(GridVariants)
    /\ Complete => GridNumbered(devices, counter)
    /\ \A b \in buses : b.id[1] = "ac_main" /\ b.members \subseteq {d.id : d \in devices}

LEMMA EmitTake ==
  ASSUME order \in Orders, release \in Releases, Take,
         devices = {}, buses = {}, counter = [s \in SlugNames |-> 0]
  PROVE  site' = Resolution(order) /\ UNCHANGED <<order, options, release>> /\ EmitInv'
<1>1. /\ site' = Resolution(order)
      /\ UNCHANGED <<order, options, release, devices, buses, counter>>
  BY DEF Take, Resolve
<1>2. /\ devices' = {} /\ buses' = {} /\ counter' = [s \in SlugNames |-> 0]
      /\ order' \in Orders /\ release' \in Releases /\ site' = Resolution(order)'
  BY <1>1 DEF Resolution
<1>3. site'.compute \in Nat /\ site'.grid \in Nat \ {0}
  BY <1>1, ContainersHold, GridsCarry DEF Resolution
<1>4. counter[ModT("C")]' = 0 /\ counter["grid_module"]' = 0
  <2>1. ModT("C")' \in SlugNames /\ "grid_module" \in SlugNames
    BY DEF ModT, ModuleTemplate, KindOf, SlugNames, Templates
  <2> QED
    BY <1>2, <2>1
<1>5. Len(GridVariants)' \in Nat
  <2> DEFINE F == [k \in 1 .. site'.grid - 1 |-> "feeder"]
             W == {"primary", "feeder"}
             P == IF release'.primary THEN <<"primary">> ELSE <<>>
  <2>1. F \in Seq(W)
    <3>1. F \in [1 .. site'.grid - 1 -> W] /\ site'.grid - 1 \in Nat
      BY <1>3
    <3> QED
      BY <3>1, SeqDef
  <2>2. P \in Seq(W)
    <3>1. <<"primary">> \in Seq(W) /\ <<>> \in Seq(W)
      OBVIOUS
    <3> QED
      BY <3>1
  <2>3. GridVariants' = P \o F
    BY DEF GridVariants
  <2> HIDE DEF F, W, P
  <2>4. P \o F \in Seq(W)
    BY <2>1, <2>2, ConcatProperties
  <2> QED
    BY <2>3, <2>4, LenProperties
<1>6. BoxInv(devices, counter)'
  <2>1. \A box \in Boxes : ModT(box)' \in SlugNames
    BY DEF ModT, ModuleTemplate, KindOf, SlugNames, Templates
  <2>2. \A box \in Boxes : counter[ModT(box)]' = 0
    BY <1>2, <2>1
  <2>3. AllPlaced(devices, counter)' /\ IsFiniteSet(devices)' /\ (counter \in [SlugNames -> Nat])'
    BY <1>2, FS_EmptySet DEF AllPlaced
  <2>4. AllBuilt(devices, counter)'
    <3>1. \A n : n \notin 1 .. 0
      OBVIOUS
    <3> QED
      BY <2>2, <3>1 DEF AllBuilt
  <2>5. Counted(devices, counter)'
    BY <1>2, <2>2, FS_EmptySet DEF Counted
  <2>6. IdsDiffer(devices)' /\ TagsDiffer(devices)'
    BY <1>2 DEF IdsDiffer, TagsDiffer
  <2> QED
    BY <2>3, <2>4, <2>5, <2>6 DEF BoxInv
<1>7. GridNumbered(devices, counter)'
  <2>1. counter'["transformer"] = 0 /\ counter'["lv_switchboard"] = 0
    BY <1>2 DEF SlugNames, Templates
  <2> QED
    BY <1>2, <1>4, <2>1 DEF GridNumbered
<1> QED
  BY <1>1, <1>2, <1>3, <1>4, <1>5, <1>6, <1>7 DEF EmitInv

\* The next container, C or G.
LEMMA EmitNext ==
  ASSUME order \in Orders, release \in Releases, site = Resolution(order), EmitInv,
         UNCHANGED <<order, site, release>>,
         NEW box \in Boxes, NEW no, no = Emitted(ModulesIn(box)) + 1,
         box = "C" => no <= site.compute,
         box = "G" => no <= Len(GridVariants),
         EmitContainer(KindOf(box), box, no, Variant(box, no), Drop(box, no))
  PROVE  EmitInv'
<1>1. site.compute \in Nat \ {0} /\ site.grid \in Nat \ {0}
  BY SiteIsSized
<1>2. BoxInv(devices, counter)
  BY DEF EmitInv
<1>3. /\ no = counter[ModT(box)] + 1
      /\ BoxInv(devices', counter')
      /\ devices' = devices \cup {ModuleOf(box, no)} \cup NewChildren(box, no)
      /\ counter'[ModT(box)] = no
      /\ \A b \in Boxes \ {box} : counter'[ModT(b)] = counter[ModT(b)]
      /\ \A b \in buses' \ buses :
            b.id[1] = "ac_main" /\ b.members \subseteq {d.id : d \in devices'}
  BY <1>2, Emission
<1>4. /\ ModT("G") = "grid_module"
      /\ ModT("C")' = ModT("C") /\ GridVariants' = GridVariants
  BY SameContainers DEF ModT, ModuleTemplate, KindOf
<1>5. BoxInv(devices, counter)'
  BY <1>3, BoxInvPrimed
<1>6. counter'[ModT("C")] <= site.compute /\ counter'["grid_module"] <= Len(GridVariants)
  BY <1>3, <1>4 DEF EmitInv, Boxes
<1>7. Complete' => GridNumbered(devices, counter)'
  <2>1. Complete' = Complete
    BY DEF Complete
  <2>2. ASSUME Complete
        PROVE  GridNumbered(devices', counter')
    <3>1. GridNumbered(devices, counter)
      BY <2>2 DEF EmitInv
    <3>2. box = "G" => no \in 1 .. Len(GridVariants)
      <4>1. ASSUME box = "G" PROVE no \in 1 .. Len(GridVariants)
        <5>1. counter["grid_module"] \in Nat
          BY <1>2 DEF BoxInv, SlugNames, Templates
        <5>2. Len(GridVariants) \in Int
          BY <1>1, GridVariantsAre
        <5>3. no \in Nat \ {0}
          BY <1>3, <1>4, <4>1, <5>1
        <5> QED
          BY <4>1, <5>2, <5>3
      <4> QED
        BY <4>1
    <3> QED
      BY <1>1, <1>2, <2>2, <3>1, <3>2, NumberedStep
  <2>3. GridNumbered(devices, counter)' <=> GridNumbered(devices', counter')
    BY DEF GridNumbered
  <2> QED
    BY <2>1, <2>2, <2>3
<1>8. \A b \in buses' : b.id[1] = "ac_main" /\ b.members \subseteq {d.id : d \in devices'}
  <2>1. {d.id : d \in devices} \subseteq {d.id : d \in devices'}
    BY <1>3
  <2> QED
    BY <1>3, <2>1 DEF EmitInv
<1> QED
  BY <1>4, <1>5, <1>6, <1>7, <1>8 DEF EmitInv

LEMMA EmitComputeStep ==
  ASSUME order \in Orders, release \in Releases, site = Resolution(order), EmitInv, EmitCompute
  PROVE  EmitInv'
<1> DEFINE no == Emitted(ModulesIn("C")) + 1
<1>1. ModulesIn("C") = ComputeModules /\ KindOf("C") = "compute"
  BY DEF ModulesIn, KindOf
<1>2. /\ EmitContainer(KindOf("C"), "C", no, Variant("C", no), Drop("C", no))
      /\ UNCHANGED <<order, site, release>>
      /\ Emitted(ModulesIn("C")) < site.compute
  BY <1>1 DEF EmitCompute, Variant, Drop
<1>3. no <= site.compute
  <2>1. Emitted(ModulesIn("C")) = counter[ModT("C")]
    BY DEF EmitInv, BoxInv, Counted, Emitted, Boxes
  <2>2. counter[ModT("C")] \in Nat /\ site.compute \in Nat
    BY SiteIsSized, ModTIsIn DEF EmitInv, BoxInv, Boxes
  <2> HIDE DEF no
  <2>3. no = counter[ModT("C")] + 1 /\ counter[ModT("C")] < site.compute
    BY <1>2, <2>1 DEF no
  <2> QED
    BY <2>2, <2>3
<1> HIDE DEF no
<1> QED
  BY <1>2, <1>3, EmitNext DEF Boxes, no

LEMMA EmitGridStep ==
  ASSUME order \in Orders, release \in Releases, site = Resolution(order), EmitInv, EmitGrid
  PROVE  EmitInv'
<1> DEFINE no == Emitted(ModulesIn("G")) + 1
<1>1. ModulesIn("G") = {"grid_module"} /\ KindOf("G") = "grid"
  BY DEF ModulesIn, KindOf
<1>2. /\ EmitContainer(KindOf("G"), "G", no, Variant("G", no), Drop("G", no))
      /\ UNCHANGED <<order, site, release>>
      /\ Emitted(ModulesIn("G")) < Len(GridVariants)
  BY <1>1 DEF EmitGrid, Variant, Drop, GridNo
<1>3. no <= Len(GridVariants)
  <2>1. Emitted(ModulesIn("G")) = counter[ModT("G")]
    BY DEF EmitInv, BoxInv, Counted, Emitted, Boxes
  <2>2. counter[ModT("G")] \in Nat /\ Len(GridVariants) \in Int
    BY SiteIsSized, GridVariantsAre, ModTIsIn DEF EmitInv, BoxInv, Boxes
  <2> HIDE DEF no
  <2>3. no = counter[ModT("G")] + 1 /\ counter[ModT("G")] < Len(GridVariants)
    BY <1>2, <2>1 DEF no
  <2> QED
    BY <2>2, <2>3
<1> HIDE DEF no
<1> QED
  BY <1>2, <1>3, EmitNext DEF Boxes, no

\* Once the pad, the utility's devices and the buses between the containers
\* are out, the containers are as they were, what their slugs count is known,
\* and each transformer and switchboard is on the bus of its containers.
Boxed == {d \in devices : d.tag[1] \in Boxes}
LvBus(k) ==
    [id |-> <<"lv_main", k>>,
     members |-> {<<"transformer", k>>, <<"lv_switchboard", k>>}
                   \cup {<<ModT("C"), n>> : n \in site.feeds[k]}]
SiteInv ==
    /\ BoxInv(Boxed, counter)
    /\ devices = Boxed \cup Pad \cup Utility
    /\ \A d \in devices : d.template \in Templates /\ d.id[2] <= counter[d.template]
    /\ counter[ModT("C")] = site.compute
    /\ counter["grid_module"] = Len(GridVariants)
    /\ ~NoFeederVariant /\ ~ZipFails
    /\ Complete => GridNumbered(Boxed, counter)
    /\ Resolves(devices, buses)
    /\ {b \in buses : b.id[1] = "lv_main"}
         = IF counter["lv_switchboard"] = 0 THEN {} ELSE {LvBus(k) : k \in 1 .. site.grid}

\* The container Cn is found by its tag.
LEMMA ComputeModuleIs ==
  ASSUME NEW n, ModuleOf("C", n) \in devices, TagsDiffer(devices)
  PROVE  ComputeModule(n) = <<ModT("C"), n>>
<1> DEFINE m == ModuleOf("C", n)
           At(d) == d.parent = None /\ d.tag = Tag("C", n, Itself, 0)
<1>1. m.parent = None /\ m.tag = Tag("C", n, Itself, 0) /\ m.id = <<ModT("C"), n>>
  BY ModuleFields DEF Tag
<1> HIDE DEF m
<1>2. m \in devices /\ At(m) /\ \A d \in devices : At(d) => d = m
  BY <1>1 DEF TagsDiffer, m
<1> HIDE DEF At
<1>3. (CHOOSE d \in devices : At(d)) = m
  BY <1>2
<1> QED
  BY <1>1, <1>3 DEF ComputeModule, At

\* What of the site is outside the containers.
LEMMA SiteDevices ==
  ASSUME options \in Options
  PROVE  /\ IsFiniteSet(Pad \cup Utility)
         /\ \A d \in Pad \cup Utility :
               /\ d.tag[1] \notin Boxes
               /\ d.template \in PadTemplates \cup UtilityTemplates /\ d.id[1] = d.template
         /\ IdsDiffer(Pad \cup Utility) /\ TagsDiffer(Pad \cup Utility)
<1>1. \A d \in Pad : /\ d.tag[1] \in {"BESS", "PCS"}
                     /\ d.template \in PadTemplates /\ d.id[1] = d.template
  BY PadDevices
<1>2. \A d \in Utility : /\ d.tag[1] \in UtilityTemplates
                         /\ d.template \in UtilityTemplates /\ d.id[1] = d.template
  <2>1. ASSUME NEW d \in Utility
        PROVE  /\ d.tag[1] \in UtilityTemplates
               /\ d.template \in UtilityTemplates /\ d.id[1] = d.template
    <3>1. PICK t \in UtilityTemplates :
             d.id = <<t, 0>> /\ d.tag = <<t, 0, Itself, 0>> /\ d.template = t
      BY UtilityDevices
    <3>2. d.id[1] = t /\ d.tag[1] = t
      BY <3>1
    <3> QED
      BY <3>1, <3>2
  <2> QED
    BY <2>1
<1>3. \A d \in Pad : \A e \in Utility : d.id # e.id /\ d.tag # e.tag
  BY <1>1, <1>2 DEF PadTemplates, UtilityTemplates
<1>4. IdsDiffer(Pad \cup Utility) /\ TagsDiffer(Pad \cup Utility)
  <2>1. IdsDiffer(Pad) /\ TagsDiffer(Pad) /\ IdsDiffer(Utility) /\ TagsDiffer(Utility)
    BY PadDevices, UtilityDevices
  <2> QED
    BY <1>3, <2>1 DEF IdsDiffer, TagsDiffer
<1>5. IsFiniteSet(Pad \cup Utility)
  BY PadDevices, UtilityDevices, FS_Union
<1>6. \A d \in Pad \cup Utility : d.tag[1] \notin Boxes
  BY <1>1, <1>2 DEF Boxes, UtilityTemplates
<1> QED
  BY <1>1, <1>2, <1>4, <1>5, <1>6

LEMMA TemplatesApart ==
  /\ (PadTemplates \cup UtilityTemplates) \cap (LeafTemplates \cup ContainerTemplates) = {}
  /\ PadTemplates \cup UtilityTemplates \cup ContainerTemplates \subseteq Templates
  /\ LeafTemplates \subseteq Templates \cup {"new_template"}
  /\ Templates \subseteq SlugNames
  /\ PadTemplates \cap UtilityTemplates = {}
  /\ {"lv_main", "site_mv", "ac_main"} \cap Templates = {}
  /\ "new_template" \notin Templates
<1>1. /\ (PadTemplates \cup UtilityTemplates) \cap (LeafTemplates \cup ContainerTemplates) = {}
      /\ PadTemplates \cap UtilityTemplates = {}
  BY DEF PadTemplates, UtilityTemplates, LeafTemplates, ContainerTemplates, ComputeModules
<1>2. /\ PadTemplates \subseteq Templates /\ UtilityTemplates \subseteq Templates
      /\ ContainerTemplates \subseteq Templates
  BY DEF PadTemplates, UtilityTemplates, ContainerTemplates, ComputeModules, Templates
<1>3. LeafTemplates \subseteq Templates \cup {"new_template"}
  BY DEF LeafTemplates, Templates
<1>4. {"lv_main", "site_mv", "ac_main"} \cap Templates = {} /\ "new_template" \notin Templates
  BY DEF Templates
<1> QED
  BY <1>1, <1>2, <1>3, <1>4 DEF SlugNames

\* The slugs EmitSite takes: those of the pad, and of the buses.
LEMMA SiteSlugs ==
  ASSUME options \in Options, counter \in [SlugNames -> Nat],
         NEW bs, IsFiniteSet(bs), \A b \in bs : b.id[1] \in {"lv_main", "site_mv"},
         NEW c, c = [s \in SlugNames |-> counter[s] + Taken(Pad \cup bs)[s]]
  PROVE  /\ c \in [SlugNames -> Nat]
         /\ \A s \in SlugNames : c[s] >= counter[s]
         /\ \A t \in LeafTemplates \cup ContainerTemplates : c[t] = counter[t]
         /\ \A d \in Pad : d.id[2] <= c[d.template]
<1> DEFINE OfSlug(S, s) == {d \in S : d.id[1] = s}
<1>1. IsFiniteSet(Pad \cup bs) /\ IsFiniteSet(Pad)
  BY PadDevices, FS_Union
<1>2. \A s : /\ IsFiniteSet(OfSlug(Pad \cup bs, s)) /\ Cardinality(OfSlug(Pad \cup bs, s)) \in Nat
             /\ Cardinality(OfSlug(Pad, s)) \in Nat
             /\ Cardinality(OfSlug(Pad, s)) <= Cardinality(OfSlug(Pad \cup bs, s))
  <2>1. ASSUME NEW s
        PROVE  /\ IsFiniteSet(OfSlug(Pad \cup bs, s)) /\ Cardinality(OfSlug(Pad \cup bs, s)) \in Nat
               /\ Cardinality(OfSlug(Pad, s)) \in Nat
               /\ Cardinality(OfSlug(Pad, s)) <= Cardinality(OfSlug(Pad \cup bs, s))
    <3>1. OfSlug(Pad \cup bs, s) \subseteq Pad \cup bs /\ OfSlug(Pad, s) \subseteq OfSlug(Pad \cup bs, s)
      OBVIOUS
    <3>2. IsFiniteSet(OfSlug(Pad \cup bs, s)) /\ Cardinality(OfSlug(Pad \cup bs, s)) \in Nat
      BY <1>1, <3>1, PartIsSmaller
    <3> HIDE DEF OfSlug
    <3> QED
      BY <3>1, <3>2, PartIsSmaller
  <2> QED
    BY <2>1
<1>3. \A s \in SlugNames : /\ Taken(Pad \cup bs)[s] = Cardinality(OfSlug(Pad \cup bs, s))
                           /\ Taken(Pad)[s] = Cardinality(OfSlug(Pad, s))
  BY DEF Taken
<1>4. \A t \in LeafTemplates \cup ContainerTemplates : OfSlug(Pad \cup bs, t) = {}
  BY PadDevices, TemplatesApart DEF LeafTemplates, ContainerTemplates, ComputeModules
<1> HIDE DEF OfSlug
<1>5. \A s \in SlugNames : c[s] = counter[s] + Cardinality(OfSlug(Pad \cup bs, s)) /\ counter[s] \in Nat
  BY <1>3
<1>6. \A s \in SlugNames : c[s] \in Nat /\ c[s] >= counter[s]
  <2>1. \A a, b \in Nat : a + b \in Nat /\ a + b >= a
    OBVIOUS
  <2> QED
    BY <1>2, <1>5, <2>1
<1>7. c \in [SlugNames -> Nat]
  <2>1. c = [s \in SlugNames |-> c[s]]
    OBVIOUS
  <2> QED
    BY <1>6, <2>1
<1>8. \A t \in LeafTemplates \cup ContainerTemplates : c[t] = counter[t]
  <2>1. \A a \in Nat : a + 0 = a
    OBVIOUS
  <2>2. LeafTemplates \cup ContainerTemplates \subseteq SlugNames
    BY LeavesAreNoModules, TemplatesApart
  <2> QED
    BY <1>4, <1>5, <2>1, <2>2, FS_EmptySet
<1>9. ASSUME NEW d \in Pad
      PROVE  d.id[2] <= c[d.template]
  <2>1. d.template \in SlugNames
    BY PadDevices, TemplatesApart
  <2>2. d.id[2] \in Nat /\ d.id[2] <= Taken(Pad)[d.template]
    BY PadDevices
  <2>3. /\ Taken(Pad)[d.template] = Cardinality(OfSlug(Pad, d.template))
        /\ c[d.template] = counter[d.template] + Cardinality(OfSlug(Pad \cup bs, d.template))
        /\ counter[d.template] \in Nat
    BY <1>3, <1>5, <2>1
  <2>4. \A i, a, b, n \in Nat : i <= a /\ a <= b => i <= n + b
    OBVIOUS
  <2> QED
    BY <1>2, <2>2, <2>3, <2>4
<1> QED
  BY <1>6, <1>7, <1>8, <1>9

LEMMA EmitSiteStep ==
  ASSUME order \in Orders, release \in Releases, options \in Options,
         site = Resolution(order), EmitInv, EmitSite
  PROVE  SiteInv'
<1> DEFINE new == Pad \cup Utility
           LvNow == IF counter["lv_switchboard"] = 0 THEN {} ELSE {LvBus(k) : k \in 1 .. site.grid}
<1>1. /\ UNCHANGED <<order, site, options, release>>
      /\ Emitted(ComputeModules) = site.compute
      /\ Emitted({"grid_module"}) = Len(GridVariants)
      /\ ~NoFeederVariant /\ ~ZipFails /\ ~UnknownTemplate
      /\ Resolves(AllDevices, buses \cup Joining)
      /\ devices' = AllDevices /\ buses' = buses \cup Joining
      /\ counter' = [s \in SlugNames |-> counter[s] + Taken(Pad \cup Joining)[s]]
  BY DEF EmitSite, ContainersOut
<1>2. /\ BoxInv(devices, counter) /\ counter \in [SlugNames -> Nat]
      /\ TagsDiffer(devices) /\ AllBuilt(devices, counter)
  BY DEF EmitInv, BoxInv
<1>3. counter[ModT("C")] = site.compute /\ counter["grid_module"] = Len(GridVariants)
  <2>1. /\ ModulesIn("C") = ComputeModules /\ ModulesIn("G") = {"grid_module"}
        /\ ModT("G") = "grid_module"
    BY DEF ModulesIn, ModT, KindOf, ModuleTemplate
  <2> QED
    BY <1>1, <1>2, <2>1 DEF BoxInv, Counted, Emitted, Boxes
<1>4. /\ site.compute \in Nat \ {0} /\ site.grid \in Nat \ {0}
      /\ site.feeds = ComputeFeeds(site.compute, site.grid)
  BY SiteIsSized
<1>5. LvMainBuses = LvNow
  <2>1. ASSUME NEW k \in 1 .. site.grid
        PROVE  LvMain(k) = LvBus(k)
    <3>1. \A n \in site.feeds[k] : n \in 1 .. counter[ModT("C")]
      BY <1>3, <1>4 DEF ComputeFeeds
    <3>2. \A n \in site.feeds[k] : ModuleOf("C", n) \in devices
      BY <1>2, <3>1 DEF AllBuilt, Boxes
    <3>3. \A n \in site.feeds[k] : ComputeModule(n) = <<ModT("C"), n>>
      BY <1>2, <3>2, ComputeModuleIs
    <3> QED
      BY <3>3 DEF LvMain, LvBus
  <2> QED
    BY <2>1 DEF LvMainBuses
<1>6. \E bus : Joining = LvNow \cup {bus} /\ bus.id[1] = "site_mv"
  <2> DEFINE bus == SiteBus((CHOOSE d \in Pad : d.parent = None).id)
  <2>1. bus.id[1] = "site_mv"
    BY DEF SiteBus
  <2>2. Joining = LvNow \cup {bus}
    BY <1>5 DEF Joining
  <2> HIDE DEF bus
  <2> QED
    BY <2>1, <2>2
<1>7. PICK bus : Joining = LvNow \cup {bus} /\ bus.id[1] = "site_mv"
  BY <1>6
<1>8. IsFiniteSet(LvNow) /\ \A b \in LvNow : b.id[1] = "lv_main"
  <2> DEFINE f == [k \in 1 .. site.grid |-> LvBus(k)]
  <2>1. IsFiniteSet(1 .. site.grid) /\ DOMAIN f = 1 .. site.grid
    BY <1>4, FS_Interval
  <2>2. {LvBus(k) : k \in 1 .. site.grid} = {f[k] : k \in 1 .. site.grid}
    OBVIOUS
  <2> HIDE DEF f
  <2>3. IsFiniteSet({LvBus(k) : k \in 1 .. site.grid})
    <3>1. IsFiniteSet({f[k] : k \in 1 .. site.grid})
      BY <2>1, ImageIsFinite
    <3> QED
      BY <2>2, <3>1
  <2>4. \A k : LvBus(k).id[1] = "lv_main"
    BY DEF LvBus
  <2> QED
    BY <2>3, <2>4, FS_EmptySet
<1> HIDE DEF LvNow
<1>9. /\ IsFiniteSet(Joining)
      /\ \A b \in Joining : b.id[1] \in {"lv_main", "site_mv"}
  BY <1>7, <1>8, FS_Singleton, FS_Union
<1>10. /\ counter' \in [SlugNames -> Nat]
       /\ \A s \in SlugNames : counter'[s] >= counter[s]
       /\ \A t \in LeafTemplates \cup ContainerTemplates : counter'[t] = counter[t]
       /\ \A d \in Pad : d.id[2] <= counter'[d.template]
  BY <1>1, <1>2, <1>9, SiteSlugs
<1>11. \A d \in devices : /\ d.tag[1] \in Boxes /\ d.id[1] = d.template
                          /\ d.template \in LeafTemplates \cup ContainerTemplates
                          /\ d.id[2] \in Nat /\ d.id[2] <= counter[d.template]
  BY <1>2, BoxedDevices
<1>12. \A d \in new : /\ d.tag[1] \notin Boxes
                      /\ d.template \in PadTemplates \cup UtilityTemplates /\ d.id[1] = d.template
  BY SiteDevices
<1>13. devices' = devices \cup new
  <2>1. devices' = {d \in devices : \A e \in new : e.id # d.id} \cup new
    BY <1>1 DEF AllDevices, Put
  <2> HIDE DEF new
  <2>2. \A d \in devices : \A e \in new : e.id # d.id
    BY <1>11, <1>12, TemplatesApart
  <2> QED
    BY <2>1, <2>2
<1>14. Pad' = Pad /\ Utility' = Utility
  BY <1>1 DEF Pad, Utility, Megapacks
<1>15. Boxed' = devices
  <2> HIDE DEF new
  <2>1. {d \in devices' : d.tag[1] \in Boxes} = devices
    BY <1>11, <1>12, <1>13
  <2> QED
    BY <2>1 DEF Boxed
<1>16. BoxInv(Boxed, counter)'
  <2>1. BoxInv(devices, counter')
    BY <1>2, <1>10, BoxInvStays
  <2>2. BoxInv(Boxed', counter')
    BY <1>15, <2>1
  <2> QED
    BY <1>1, <2>2, BoxInvPrimed
<1>17. \A d \in devices' : d.template \in Templates /\ d.id[2] <= counter'[d.template]
  <2>1. \A d \in devices : d.template \in Templates
    BY <1>1 DEF UnknownTemplate
  <2>2. \A d \in devices : d.id[2] <= counter'[d.template]
    BY <1>10, <1>11
  <2>3. \A d \in Utility : d.id[2] <= counter'[d.template] /\ d.template \in Templates
    <3>1. ASSUME NEW d \in Utility
          PROVE  d.id[2] <= counter'[d.template] /\ d.template \in Templates
      <4>1. PICK t \in UtilityTemplates : d.id = <<t, 0>> /\ d.template = t
        BY UtilityDevices
      <4>2. t \in Templates /\ t \in SlugNames
        BY TemplatesApart
      <4>3. counter'[t] \in Nat
        BY <1>10, <4>2
      <4>4. d.id[2] = 0
        BY <4>1
      <4> QED
        BY <4>1, <4>2, <4>3, <4>4
    <3> QED
      BY <3>1
  <2>4. \A d \in Pad : d.template \in Templates
    BY PadDevices, TemplatesApart
  <2> QED
    BY <1>10, <1>13, <2>1, <2>2, <2>3, <2>4
<1>18. /\ ModT("C")' = ModT("C") /\ GridVariants' = GridVariants
       /\ ModT("C") \in ContainerTemplates /\ "grid_module" \in ContainerTemplates
  BY <1>1, SameContainers, ModTIsIn DEF Boxes, ContainerTemplates
<1>19. counter'[ModT("C")] = site.compute /\ counter'["grid_module"] = Len(GridVariants)
  BY <1>3, <1>10, <1>18
<1>20. counter'["lv_switchboard"] = counter["lv_switchboard"] /\ counter'["transformer"] = counter["transformer"]
  BY <1>10 DEF LeafTemplates
<1>21. ~NoFeederVariant' /\ ~ZipFails'
  BY <1>1, <1>20 DEF NoFeederVariant, ZipFails
<1>22. Complete' => GridNumbered(Boxed, counter)'
  <2>1. Complete' = Complete
    BY <1>1 DEF Complete
  <2>2. Complete => GridNumbered(devices, counter)
    BY DEF EmitInv
  <2>3. GridNumbered(devices, counter) => GridNumbered(devices, counter')
    BY <1>10, <1>18, <1>20 DEF GridNumbered
  <2>4. GridNumbered(devices, counter') => GridNumbered(Boxed, counter)'
    BY <1>15 DEF GridNumbered
  <2> QED
    BY <2>1, <2>2, <2>3, <2>4
<1>23. Resolves(devices, buses)'
  BY <1>1 DEF Resolves
<1>24. {b \in buses' : b.id[1] = "lv_main"} = LvNow
  <2>1. \A b \in buses : b.id[1] = "ac_main"
    BY DEF EmitInv
  <2> QED
    BY <1>1, <1>7, <1>8, <2>1
<1>25. LvNow = (IF counter["lv_switchboard"] = 0 THEN {} ELSE {LvBus(k) : k \in 1 .. site.grid})'
  <2>1. \A k : LvBus(k)' = LvBus(k)
    BY <1>1, <1>18 DEF LvBus
  <2> QED
    BY <1>1, <1>20, <2>1 DEF LvNow
<1>26. ({b \in buses : b.id[1] = "lv_main"}
          = IF counter["lv_switchboard"] = 0 THEN {} ELSE {LvBus(k) : k \in 1 .. site.grid})'
  BY <1>24, <1>25
<1>27. (devices = Boxed \cup Pad \cup Utility)'
  BY <1>13, <1>14, <1>15
<1>28. (counter[ModT("C")] = site.compute /\ counter["grid_module"] = Len(GridVariants))'
  BY <1>1, <1>18, <1>19
<1> QED
  BY <1>16, <1>17, <1>21, <1>22, <1>23, <1>26, <1>27, <1>28 DEF SiteInv

-----------------------------------------------------------------------------
(***************************************************************************)
(* The invariant of the manifest.                                          *)
(***************************************************************************)
Stages == {"order", "emit", "schedule", "bom", "offers", "drawings", "done", "failed"}
Manifested == {"schedule", "bom", "offers", "drawings", "done"}

ManifestInv ==
    /\ order \in Orders /\ release \in Releases /\ options \in Options /\ stage \in Stages
    /\ stage = "order" => /\ site = None
                          /\ devices = {} /\ buses = {} /\ counter = [s \in SlugNames |-> 0]
    /\ stage # "order" => site = Resolution(order)
    /\ stage = "emit" => EmitInv
    /\ stage \in Manifested => SiteInv
    /\ stage = "failed" => EmitInv \/ SiteInv

LEMMA ManifestStays ==
  ASSUME UNCHANGED <<order, site, options, release, devices, buses, counter>>
  PROVE  (EmitInv => EmitInv') /\ (SiteInv => SiteInv')
<1>1. /\ ModT("C")' = ModT("C") /\ GridVariants' = GridVariants
      /\ Complete' = Complete /\ Boxed' = Boxed /\ Pad' = Pad /\ Utility' = Utility
      /\ NoFeederVariant' = NoFeederVariant /\ ZipFails' = ZipFails
      /\ \A k : LvBus(k)' = LvBus(k)
  <2>1. ModT("C")' = ModT("C") /\ GridVariants' = GridVariants
    BY SameContainers
  <2>2. Complete' = Complete /\ NoFeederVariant' = NoFeederVariant /\ ZipFails' = ZipFails
    BY DEF Complete, NoFeederVariant, ZipFails
  <2>3. Boxed' = Boxed /\ Pad' = Pad /\ Utility' = Utility
    BY DEF Boxed, Pad, Utility, Megapacks
  <2>4. \A k : LvBus(k)' = LvBus(k)
    BY <2>1 DEF LvBus
  <2> QED
    BY <2>1, <2>2, <2>3, <2>4
<1>2. ASSUME EmitInv PROVE EmitInv'
  <2>1. BoxInv(devices, counter)'
    BY <1>2, BoxInvPrimed DEF EmitInv
  <2>2. (Complete => GridNumbered(devices, counter))'
    BY <1>1, <1>2 DEF EmitInv, GridNumbered
  <2> QED
    BY <1>1, <1>2, <2>1, <2>2 DEF EmitInv
<1>3. ASSUME SiteInv PROVE SiteInv'
  <2>1. BoxInv(Boxed, counter)'
    BY <1>1, <1>3, BoxInvPrimed DEF SiteInv
  <2>2. (Complete => GridNumbered(Boxed, counter))'
    BY <1>1, <1>3 DEF SiteInv, GridNumbered
  <2>3. Resolves(devices, buses)'
    BY <1>3 DEF SiteInv, Resolves
  <2>4. ({b \in buses : b.id[1] = "lv_main"}
           = IF counter["lv_switchboard"] = 0 THEN {} ELSE {LvBus(k) : k \in 1 .. site.grid})'
    BY <1>1, <1>3 DEF SiteInv
  <2> QED
    BY <1>1, <1>3, <2>1, <2>2, <2>3, <2>4 DEF SiteInv
<1> QED
  BY <1>2, <1>3

LEMMA InitManifest == PkgInit => ManifestInv
BY CasesAssumption DEF PkgInit, DtmInit, ManifestInv, Stages, Manifested

\* Every action leaves the order alone; those after the manifest leave the
\* manifest alone too.
LEMMA StepManifest == ManifestInv /\ [PkgNext]_pkgVars => ManifestInv'
<1> SUFFICES ASSUME ManifestInv, [PkgNext]_pkgVars PROVE ManifestInv'
  OBVIOUS
<1>1. order \in Orders /\ release \in Releases /\ options \in Options /\ stage \in Stages
  BY DEF ManifestInv
<1>2. CASE Take
  <2>1. /\ stage = "order" /\ stage' = "emit"
        /\ devices = {} /\ buses = {} /\ counter = [s \in SlugNames |-> 0]
    BY <1>2 DEF Take, ManifestInv
  <2>2. site' = Resolution(order) /\ UNCHANGED <<order, options, release>> /\ EmitInv'
    BY <1>1, <1>2, <2>1, EmitTake
  <2>3. Resolution(order)' = Resolution(order)
    BY <2>2 DEF Resolution
  <2> QED
    BY <1>1, <2>1, <2>2, <2>3 DEF ManifestInv, Stages, Manifested
<1>3. CASE EmitCompute \/ EmitGrid
  <2>1. /\ stage = "emit" /\ stage' = "emit" /\ UNCHANGED <<order, site, options, release>>
        /\ site = Resolution(order) /\ EmitInv
    BY <1>3 DEF EmitCompute, EmitGrid, ManifestInv
  <2>2. EmitInv'
    BY <1>1, <1>3, <2>1, EmitComputeStep, EmitGridStep
  <2>3. Resolution(order)' = Resolution(order)
    BY <2>1 DEF Resolution
  <2> QED
    BY <1>1, <2>1, <2>2, <2>3 DEF ManifestInv, Stages, Manifested
<1>4. CASE EmitSite
  <2>1. /\ stage = "emit" /\ stage' = "schedule" /\ UNCHANGED <<order, site, options, release>>
        /\ site = Resolution(order) /\ EmitInv
    BY <1>4 DEF EmitSite, ContainersOut, ManifestInv
  <2>2. SiteInv'
    BY <1>1, <1>4, <2>1, EmitSiteStep
  <2>3. Resolution(order)' = Resolution(order)
    BY <2>1 DEF Resolution
  <2> QED
    BY <1>1, <2>1, <2>2, <2>3 DEF ManifestInv, Stages, Manifested
<1>5. CASE UNCHANGED pkgVars
  <2>1. (EmitInv => EmitInv') /\ (SiteInv => SiteInv')
    BY <1>5, ManifestStays DEF pkgVars
  <2>2. Resolution(order)' = Resolution(order)
    BY <1>5 DEF Resolution, pkgVars
  <2> QED
    BY <1>5, <2>1, <2>2 DEF ManifestInv, pkgVars
<1>6. CASE /\ UNCHANGED <<order, site, options, release, devices, buses, counter>>
           /\ \/ stage = "emit" /\ stage' = "failed"
              \/ stage \in Manifested /\ stage' \in Manifested \cup {"failed"}
  <2>1. (EmitInv => EmitInv') /\ (SiteInv => SiteInv')
    BY <1>6, ManifestStays
  <2>2. Resolution(order)' = Resolution(order)
    BY <1>6 DEF Resolution
  <2> QED
    BY <1>6, <2>1, <2>2 DEF ManifestInv, Stages, Manifested
<1>7. ASSUME GenerateFails \/ Schedule \/ ScheduleFails \/ GenerateBom \/ BomFails
               \/ AttachOffers \/ DrawSheets
      PROVE  /\ UNCHANGED <<order, site, options, release, devices, buses, counter>>
             /\ \/ stage = "emit" /\ stage' = "failed"
                \/ stage \in Manifested /\ stage' \in Manifested \cup {"failed"}
  BY <1>7 DEF GenerateFails, Schedule, ScheduleFails, GenerateBom, BomFails, AttachOffers,
              DrawSheets, Manifested
<1> QED
  BY <1>2, <1>3, <1>4, <1>5, <1>6, <1>7 DEF PkgNext, Generate

\* No two devices share a slug or a tag.
LEMMA DevicesDiffer ==
  ASSUME ManifestInv
  PROVE  IsFiniteSet(devices) /\ IdsDiffer(devices) /\ TagsDiffer(devices)
<1>1. CASE stage = "order"
  BY <1>1, FS_EmptySet DEF ManifestInv, IdsDiffer, TagsDiffer
<1>2. CASE EmitInv
  BY <1>2 DEF EmitInv, BoxInv
<1>3. CASE SiteInv
  <2>1. /\ IsFiniteSet(Boxed) /\ IdsDiffer(Boxed) /\ TagsDiffer(Boxed)
        /\ \A d \in Boxed : /\ d.tag[1] \in Boxes /\ d.id[1] = d.template
                            /\ d.template \in LeafTemplates \cup ContainerTemplates
    BY <1>3, BoxedDevices DEF SiteInv, BoxInv, ManifestInv
  <2>2. /\ IsFiniteSet(Pad \cup Utility)
        /\ \A d \in Pad \cup Utility :
              /\ d.tag[1] \notin Boxes
              /\ d.template \in PadTemplates \cup UtilityTemplates /\ d.id[1] = d.template
        /\ IdsDiffer(Pad \cup Utility) /\ TagsDiffer(Pad \cup Utility)
    BY SiteDevices DEF ManifestInv
  <2>3. devices = Boxed \cup (Pad \cup Utility)
    BY <1>3 DEF SiteInv
  <2>4. IsFiniteSet(devices)
    BY <2>1, <2>2, <2>3, FS_Union
  <2>5. \A d \in Boxed : \A e \in Pad \cup Utility : d.id # e.id /\ d.tag # e.tag
    BY <2>1, <2>2, TemplatesApart
  <2> QED
    BY <2>1, <2>2, <2>3, <2>4, <2>5 DEF IdsDiffer, TagsDiffer
<1> QED
  BY <1>1, <1>2, <1>3 DEF ManifestInv, Stages, Manifested

\* Every tag names one device, for orders of any size and whatever a release
\* lacks: the numbers of containers, of the entries of a container and of
\* the devices on the pad never meet (emit_container, emit_battery).
THEOREM TagsAreUnique == PkgSpec => []TagsNameOneDevice
<1>1. ManifestInv => TagsNameOneDevice
  <2> SUFFICES ASSUME ManifestInv PROVE TagsNameOneDevice
    OBVIOUS
  <2> DEFINE f == [d \in devices |-> d.tag]
  <2>1. DOMAIN f = devices /\ Tags = {f[d] : d \in devices}
    BY DEF Tags
  <2>2. \A d, e \in devices : f[d] = f[e] => d = e
    BY DevicesDiffer DEF TagsDiffer
  <2> HIDE DEF f
  <2>3. Cardinality(Tags) = Cardinality(devices)
    BY <2>1, <2>2, DevicesDiffer, ImageIsAsLarge
  <2> QED
    BY <2>3 DEF TagsNameOneDevice
<1> QED
  BY <1>1, InitManifest, StepManifest, PTL DEF PkgSpec
=============================================================================
