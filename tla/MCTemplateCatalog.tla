------------------------- MODULE MCTemplateCatalog --------------------------
(***************************************************************************)
(* Directories of one template with every measurement of limits 0..2, or   *)
(* every pairing of type, binding and publisher, or every command; and of  *)
(* up to three files that repeat a slug, contain one another or have tasks.*)
(***************************************************************************)
EXTENDS TemplateCatalog

Limits == 0 .. 2
SomeBounds == {None} \cup [min : Limits, max : Limits, nominal : Limits]
SomeThresholds ==
    {None} \cup [warn_min : Limits, warn_max : Limits, alarm_min : Limits, alarm_max : Limits]

Polled == [protocol |-> "polled"]
SomeBindings ==
    {None, Polled, [protocol |-> "power_cap"]}
    \cup [protocol : {"distribute"}, guards : {0, 2, 3}]
    \cup [protocol : {"synthetic"}, operation : {"sum", "subtract", "weighted_mean"},
          inputs : BOOLEAN, source : BOOLEAN]

AMeasurement(type, values, bounds, thresholds, binding, publisher) ==
    [type |-> type, values |-> values, bounds |-> bounds, thresholds |-> thresholds,
     binding |-> binding, publisher |-> publisher]
Ranged == {AMeasurement("float", FALSE, b, t, Polled, None) : b \in SomeBounds, t \in SomeThresholds}
Sourced ==
    {AMeasurement(type, values, None, t, b, p) :
        type \in {"float", "enum"}, values \in BOOLEAN, b \in SomeBindings,
        t \in {None, [warn_min |-> 0, warn_max |-> 1, alarm_min |-> 0, alarm_max |-> 1]},
        p \in {None, "gateway", "local_process"}}
Commands == [binding : SomeBindings, fanout : {None, "local_process"}]

ATemplate(slug, kind, contains, measurements, commands, tasks) ==
    [slug |-> slug, kind |-> kind, labels |-> IF kind = "leaf" THEN Labels ELSE {},
     contains |-> contains, measurements |-> measurements, commands |-> commands, tasks |-> tasks]
ATask(name, level, dependsOn) == [name |-> name, level |-> level, dependsOn |-> dependsOn]

\* rack.yaml: bond_to_ground (1) depends on set_level_and_anchor (2).
\* pdu.yaml: mount_in_rack (1), snmp_commission (2), wire_input_feed (3).
\* gpu_node.yaml: network_connect (1), power_on_and_pxe (2), rack_install (3).
Rack == <<ATask(2, 1, {}), ATask(1, 1, {2})>>
Pdu == <<ATask(1, 1, {}), ATask(3, 2, {1}), ATask(2, 3, {3})>>
GpuNode == <<ATask(3, 1, {}), ATask(1, 2, {3}), ATask(2, 3, {1})>>
\* compute_module.yaml: container_grounding (1), container_set_and_anchor (2).
Container == <<ATask(2, 1, {}), ATask(1, 2, {2})>>
Broken == <<ATask(1, 1, {4})>>
\* Nothing refuses a task listed twice.
Twice == Rack \o Rack

Rollup == AMeasurement("float", FALSE, None, None, [protocol |-> "synthetic",
              operation |-> "sum", inputs |-> FALSE, source |-> TRUE], "gateway")
Leaf(slug, tasks) == ATemplate(slug, "leaf", {}, {}, {}, tasks)
Module(slug, contains) == ATemplate(slug, "module", contains, {Rollup}, {}, Container)
Shelf ==
    {Leaf(1, Rack), Leaf(1, Pdu), Leaf(2, Pdu), Leaf(2, GpuNode), Leaf(3, Broken), Leaf(3, Twice),
     Module(4, {1}), Module(4, {1, 2, 5}), Module(5, {2}), Module(5, {}),
     [Leaf(3, <<>>) EXCEPT !.labels = {"vendor", "model"}],
     [Module(4, {}) EXCEPT !.labels = {"vendor"}], [Module(4, {}) EXCEPT !.measurements = {}]}

OneFile ==
    {<<ATemplate(1, "leaf", {}, {m}, {}, <<>>)>> : m \in Ranged \cup Sourced}
    \cup {<<ATemplate(1, "leaf", {}, {}, {c}, <<>>)>> : c \in Commands}

MCCheckouts == OneFile \cup UNION {[1 .. n -> Shelf] : n \in 0 .. 3}

\* The templates of a compute container as the repository has them.
AsShipped == {<<Leaf(2, GpuNode), Leaf(1, Pdu), Leaf(3, Rack), Module(4, {1, 2, 3})>>}
=============================================================================
