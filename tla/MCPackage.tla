----------------------------- MODULE MCPackage ------------------------------
(***************************************************************************)
(* Orders that meet every boundary of the sizing: one server, a full       *)
(* container, one server more, a last container of one to six servers, ten *)
(* containers and more (a tenth tag sorts before the second as text), one, *)
(* two and four grid containers with an even and an uneven split.          *)
(***************************************************************************)
EXTENDS Package, TLC

AnOrder(variant, gpus) == [variant |-> variant, gpus |-> gpus]
SmallOrders == {AnOrder("B200", 25), AnOrder("H100_SXM", 80)}
LargeOrders == {AnOrder("B200", 600), AnOrder("B200", 1016), AnOrder("B200", 1900),
                AnOrder("H100_SXM", 800)}
BoundaryOrders == [variant : GpuVariants, gpus : {1, 8, 24, 25, 33, 56, 57}]

AnOption(coupling, mwh, pcs, offGrid) ==
    [coupling |-> coupling, mwh |-> mwh, pcs |-> pcs, offGrid |-> offGrid]
Batteries ==
    {AnOption("ac_coupled", 4, 0, FALSE), AnOption("dc_external_pcs", 4, 3, FALSE),
     AnOption("dc_integrated_pcs", 10, 0, TRUE)}

Whole3 == {"compute", "primary", "feeder"}
ARelease(primary, feeder, topology, newTemplate, unspecced) ==
    [primary |-> primary, feeder |-> feeder, topology |-> topology,
     newTemplate |-> newTemplate, unspecced |-> unspecced]
WholeRelease == ARelease(TRUE, TRUE, Whole3, FALSE, {})
\* Each lacks one thing, or two.
DefectiveReleases ==
    {ARelease(FALSE, TRUE, Whole3, FALSE, {}), ARelease(TRUE, FALSE, Whole3, FALSE, {}),
     ARelease(TRUE, TRUE, Whole3, TRUE, {}), ARelease(TRUE, TRUE, Whole3, FALSE, {"cdu"}),
     ARelease(TRUE, TRUE, Whole3, FALSE, {"pcs"})}
    \cup {ARelease(TRUE, TRUE, t, FALSE, {}) : t \in SUBSET Whole3}

\* A plate of both sections with a quantity break, field material, a price
\* list that begins at five, and none.
Break(min, usd, source) == [min |-> min, usd |-> usd, source |-> source]
PriceList ==
    "CG" :> <<Break(1, 90, "quote"), Break(6, 70, "quote"), Break(20, 50, "quote")>>
    @@ "CD" :> <<Break(1, 40, "estimate")>>
    @@ "cdu" :> <<Break(1, 900, "estimate"), Break(2, 800, "estimate")>>
    @@ "transformer" :> <<Break(1, 5000, "quote"), Break(2, 4500, "quote")>>
    @@ "cable_gland" :> <<Break(1, 7, "estimate"), Break(5, 5, "estimate")>>
    @@ "feeder" :> <<Break(1, 60, "estimate"), Break(10, 50, "estimate")>>
Lumpy == "CG" :> <<Break(5, 70, "quote")>> @@ "cdu" :> <<Break(1, 900, "estimate")>>
NoPrices == [part \in {} |-> <<>>]

Seen(error, usd) == [error |-> error, usd |-> usd]
Offers ==
    "cdu" :> {Seen(FALSE, 850), Seen(FALSE, 790), Seen(TRUE, 0)}
    @@ "cable_gland" :> {Seen(FALSE, 0), Seen(FALSE, 6)}
    @@ "pdu" :> {Seen(TRUE, 0)} @@ "rack" :> {Seen(FALSE, 0)}

ACase(o, b, r, prices, offers) ==
    [order |-> o, options |-> b, release |-> r, book |-> prices, market |-> offers]

MCCases ==
    {ACase(o, b, WholeRelease, PriceList, Offers) : o \in BoundaryOrders, b \in Batteries}
    \cup {ACase(o, b, WholeRelease, PriceList, None) :
             o \in LargeOrders, b \in {AnOption("dc_external_pcs", 40, 12, FALSE)}}
    \cup {ACase(o, b, r, PriceList, None) :
             o \in SmallOrders, b \in Batteries, r \in DefectiveReleases}
    \cup {ACase(AnOrder("B200", 600), AnOption("ac_coupled", 4, 0, FALSE), r, PriceList, None) :
             r \in DefectiveReleases}
    \cup {ACase(o, b, WholeRelease, prices, offers) :
             o \in SmallOrders, b \in Batteries, prices \in {Lumpy, NoPrices},
             offers \in {None, Offers}}
=============================================================================
