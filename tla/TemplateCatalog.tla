-------------------------- MODULE TemplateCatalog ---------------------------
(***************************************************************************)
(* The catalog of device templates: TemplateLoader.load_catalog reads them *)
(* at startup, the schema's validators accept or refuse each, and the      *)
(* install sequence lays out their tasks (template_loader.py, the template *)
(* schema, install_sequence_service.py).                                   *)
(*                                                                         *)
(* Names are numbers in the order Python sorts them, for the sort is what  *)
(* the install sequence does to them.  A protocol binding is known by what *)
(* the validators look at.                                                 *)
(***************************************************************************)
EXTENDS Integers, Sequences, FiniteSets

CONSTANTS Checkouts,  \* what device_templates/ may hold: templates in load order
          None

ASSUME CheckoutsAssumption ==
    \A checkout \in Checkouts : Len(checkout) \in Nat /\ DOMAIN checkout = 1 .. Len(checkout)
\* Names and levels are numbers, the tasks of a template a list.
ASSUME TasksAssumption ==
    \A checkout \in Checkouts : \A i \in DOMAIN checkout :
        LET tasks == checkout[i].tasks IN
        /\ checkout[i].slug \in Int
        /\ Len(tasks) \in Nat /\ DOMAIN tasks = 1 .. Len(tasks)
        /\ \A n \in DOMAIN tasks : tasks[n].level \in Int /\ tasks[n].name \in Int

VARIABLES files,   \* device_templates/leaf/*.yaml, then module/*.yaml
          read,    \* how many of them were read
          catalog, \* the templates by their slug
          status,  \* "loading", "serving", or "refused": startup fails
          mop      \* the rows of an install sequence, in order

catVars == <<files, read, catalog, status, mop>>

-----------------------------------------------------------------------------
(***************************************************************************)
(* Measurements and commands.                                              *)
(***************************************************************************)
\* Bounds._ordering and Thresholds._ordering
BoundsOrdered(b) == b # None => b.min < b.max /\ b.min <= b.nominal /\ b.nominal <= b.max
ThresholdsOrdered(t) ==
    t # None => t.alarm_min <= t.warn_min /\ t.warn_min <= t.warn_max /\ t.warn_max <= t.alarm_max

\* check_thresholds_inside_bounds.  Mutated: each limit is checked against
\* the far end.
InsideFarEnd(b, t) ==
    b # None /\ t # None => t.alarm_min <= b.max /\ t.alarm_max >= b.min
Inside(b, t) ==
    b # None /\ t # None => t.alarm_min >= b.min /\ t.alarm_max <= b.max

\* SyntheticBinding takes fixed topics or a measurement of the children, and
\* two operations need one of them; the three numbers of an envelope guard
\* of a DistributeBinding come together.
BindingValid(b) ==
    CASE b.protocol = "synthetic" ->
           /\ b.inputs # b.source
           /\ b.operation = "weighted_mean" => b.source
           /\ b.operation = "subtract" => b.inputs
      [] b.protocol = "distribute" -> b.guards \in {0, 3}
      [] OTHER -> TRUE

\* _binding_xor_publisher, which takes any publisher for a measurement that
\* has no binding.
OneSource(m) ==
    IF m.binding # None /\ m.binding.protocol = "synthetic"
    THEN m.publisher = "gateway"
    ELSE (m.binding # None) # (m.publisher # None)

MeasurementValid(m) ==
    /\ (m.type = "enum") = m.values
    /\ m.binding # None => BindingValid(m.binding)
    /\ OneSource(m)
    /\ BoundsOrdered(m.bounds) /\ ThresholdsOrdered(m.thresholds)
    /\ m.type = "enum" => m.bounds = None /\ m.thresholds = None
    /\ Inside(m.bounds, m.thresholds)

\* _binding_xor_fanout
CommandValid(c) ==
    /\ (c.binding # None) # (c.fanout # None)
    /\ c.binding # None => BindingValid(c.binding)

-----------------------------------------------------------------------------
(***************************************************************************)
(* DeviceTemplate and the loader.                                          *)
(***************************************************************************)
\* install_task_deps_resolve: nothing says that a dependency comes earlier.
TasksResolve(t) ==
    \A n \in DOMAIN t.tasks :
        t.tasks[n].dependsOn \subseteq {t.tasks[m].name : m \in DOMAIN t.tasks}

\* kind_field_consistency and must_have_channels: `labels` are those of the
\* three that the file has.
Labels == {"equipment_id", "vendor", "model"}
KindConsistent(t) ==
    /\ t.kind = "leaf" => t.labels = Labels /\ t.contains = {}
    /\ t.kind = "module" => t.labels = {} /\ t.measurements \cup t.commands # {}

TemplateValid(t) ==
    /\ \A m \in t.measurements : MeasurementValid(m)
    /\ \A c \in t.commands : CommandValid(c)
    /\ KindConsistent(t) /\ TasksResolve(t)

\* Mutated: a slug seen before replaces its template.
DuplicateNever(t) == FALSE
Duplicate(t) == t.slug \in DOMAIN catalog

\* Mutated: contains is looked up as each file is read.
FileAcceptedEagerly(t) ==
    TemplateValid(t) /\ ~Duplicate(t) /\ t.contains \subseteq DOMAIN catalog
FileAccepted(t) == TemplateValid(t) /\ ~Duplicate(t)

\* _check_contains_refs
ContainsResolve == \A s \in DOMAIN catalog : catalog[s].contains \subseteq DOMAIN catalog

CatInit ==
    /\ files \in Checkouts /\ read = 0
    /\ catalog = [s \in {} |-> None]
    /\ status = "loading" /\ mop = <<>>

LoadFile ==
    /\ status = "loading" /\ read < Len(files)
    /\ LET t == files[read + 1] IN
       IF FileAccepted(t)
       THEN /\ catalog' = [s \in DOMAIN catalog \cup {t.slug} |->
                              IF s = t.slug THEN t ELSE catalog[s]]
            /\ UNCHANGED status
       ELSE /\ status' = "refused" /\ UNCHANGED catalog
    /\ read' = read + 1
    /\ UNCHANGED <<files, mop>>

CheckContains ==
    /\ status = "loading" /\ read = Len(files)
    /\ status' = IF ContainsResolve THEN "serving" ELSE "refused"
    /\ UNCHANGED <<files, read, catalog, mop>>

-----------------------------------------------------------------------------
(***************************************************************************)
(* build_mop_rows, for two devices of each template.  A row is a device,   *)
(* the number of the task in its template, and the task.                   *)
(***************************************************************************)
Precedes(a, b) ==
    \/ a[1] < b[1]
    \/ a[1] = b[1] /\ a[2] < b[2]
    \/ a[1] = b[1] /\ a[2] = b[2] /\ a[3] < b[3]
\* Mutated: all steps of a device come together.
SortKeyByDevice(task, device) == <<device, task.level, task.name>>
SortKey(task, device) == <<task.level, device, task.name>>

Installed == (DOMAIN catalog) \X {0, 1}
Tagged(d) == 2 * d[1] + d[2]
StepsOf(d) ==
    LET tasks == catalog[d[1]].tasks
    IN  {[device |-> d, n |-> n, task |-> tasks[n]] : n \in DOMAIN tasks}
Steps == UNION {StepsOf(d) : d \in Installed}
Key(s) == SortKey(s.task, Tagged(s.device))
\* Python's sort is stable: a task listed twice keeps its place.
Before(r, s) == Precedes(Key(r), Key(s)) \/ (Key(r) = Key(s) /\ r.n < s.n)
Place(s) == 1 + Cardinality({r \in Steps : Before(r, s)})
Rows == [i \in 1 .. Cardinality(Steps) |-> CHOOSE s \in Steps : Place(s) = i]

BuildMop ==
    /\ status = "serving" /\ mop = <<>> /\ Steps # {}
    /\ mop' = Rows
    /\ UNCHANGED <<files, read, catalog, status>>

CatNext == LoadFile \/ CheckContains \/ BuildMop

CatSpec == CatInit /\ [][CatNext]_catVars

-----------------------------------------------------------------------------
(***************************************************************************)
(* Properties.                                                             *)
(***************************************************************************)
Templates == {catalog[s] : s \in DOMAIN catalog}
Measurements == UNION {t.measurements : t \in Templates}

CatTypeOK ==
    /\ files \in Checkouts /\ status \in {"loading", "serving", "refused"}
    /\ read \in 0 .. Len(files)
    /\ \A s \in DOMAIN catalog : catalog[s].slug = s
    /\ status # "refused" => Cardinality(DOMAIN catalog) = read

\* What is served is all of what the directory holds, each file once and as
\* written, and whatever a module contains is there: a device that a
\* topology names finds the template its file describes (load_catalog).
CatalogIsWhole ==
    status = "serving" =>
        /\ Templates = {files[i] : i \in DOMAIN files}
        /\ \A i, j \in DOMAIN files : files[i].slug = files[j].slug => i = j
        /\ \A t \in Templates : t.contains \subseteq {u.slug : u \in Templates}

\* Startup is refused for a cause only: the order of the files, a module
\* that contains a later one included, is none.
RefusedForCause ==
    status = "refused" =>
        \/ \E i \in DOMAIN files : ~TemplateValid(files[i])
        \/ \E i, j \in DOMAIN files : i # j /\ files[i].slug = files[j].slug
        \/ \E i \in DOMAIN files : \E s \in files[i].contains :
              \A j \in DOMAIN files : files[j].slug # s

\* No alarm of the catalog lies where no value can reach it: limits are
\* within the bounds, and a value on its way out of the band meets the
\* warning before the alarm or with it (validators of two models together,
\* measurement_ranges.py and measurement.py).
NoDeadAlarm ==
    \A m \in Measurements :
        m.bounds # None /\ m.thresholds # None =>
            LET b == m.bounds  t == m.thresholds IN
            /\ b.min <= t.alarm_min /\ t.alarm_min <= t.warn_min
            /\ t.warn_min <= t.warn_max
            /\ t.warn_max <= t.alarm_max /\ t.alarm_max <= b.max

\* measurement.py, of publisher GATEWAY: "a gateway-computed synthetic
\* channel; ALWAYS paired with binding.protocol="synthetic" carrying the
\* operation + inputs", without which nothing says what to compute.
GatewayKnowsWhat ==
    \A m \in Measurements :
        m.publisher = "gateway" => m.binding # None /\ m.binding.protocol = "synthetic"

\* install_task.py: L(n) tasks do not start until every L(n-1) task across
\* all devices is complete; and the checklist has every step of every device
\* once, those of a task listed twice included.
GatesHold ==
    /\ mop # <<>> => {mop[i] : i \in DOMAIN mop} = Steps
    /\ \A i, j \in DOMAIN mop : mop[i] = mop[j] => i = j
    /\ \A i, j \in DOMAIN mop : mop[i].task.level < mop[j].task.level => i < j

\* install_task.py, "Used as a milestone gate in the install sequence DAG",
\* and template.py, "Every install_task.depends_on must name another
\* install_task in this template": a numbered step comes after those of its
\* device it depends on.
StepsFollowDependencies ==
    \A i, j \in DOMAIN mop :
        mop[i].device = mop[j].device /\ mop[i].task.name \in mop[j].task.dependsOn => i < j
=============================================================================
