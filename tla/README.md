# edp-api in TLA+

Specifications, model checking and proofs for edp-api, the service that turns
a configurator payload into an engineering data package (DTM, BOM, drawings,
schedules) in S3. References are to files of the repository (`src/...`,
`readme.md`).

## The system

| component | state it keeps | operations | talks to |
|---|---|---|---|
| Jobs: `src/jobs/` | `JobStore._records`, in memory | POST `create`, background `execute`, GET `get` | grid rules, sizing, resolver, manifest client; starts the pipeline |
| Pipeline: `src/pipeline/` | locals of one run; objects in S3 | `run`: DTM, schedule, BOM, offers, drawings, uploads, summaries | every generator, S3 |
| Enrichment: `src/bom_enrichment/` | one `GraybarClient` per process (browser page, `_logged_in`); offer cache and history in S3 | `enrich`, `fetch_offer`, cache get/put, history record/list | distributor portals, S3 |
| Manifest client: `src/bom_generator/manifest_client.py` | `_spec_cache` | `fetch_manifest`, `fetch_spec`, ..., `upload_bytes` | S3, shared by requests and runs |
| Sizing and resolver: `src/sizing/`, `src/module_resolver/` | none (pure) | server, container, grid container and PCS counts, feeds, preview, flags | Jobs, DTM, schedule, drawings, BOM |
| Grid rules: `src/grid/`, `src/shared/schemas/configurator_*.py` | regions read at start | validators of the schema, rules that depend on the region | Jobs, preview |
| DTM generator: `src/dtm/` | template catalog read at start | `generate`: devices, slugs, tags, buses, sizing block | topologies in S3, feeds |
| Cable and hose schedule: `src/cable_hose_schedule/` | none | `generate` from a DTM | feeds |
| BOM generator: `src/bom_generator/` | none | `generate`: lines per section, prices, budget; `attach_offers` | manifest client, schedule |
| Drawings: `src/drawing/` | none | DXF, PDF and SVG from DTM and BOM; install sequence | feeds |
| Templates: `src/dtm/template_loader.py`, `src/shared/schemas/` | none | load and validation of the catalog | DTM generator, drawings |
| Shell: `src/app_*.py`, `main.py`, `config.py`, `call_api/` | wiring | `/`, `/healthz` | none |

What is hard here:

- **Concurrency.** `create` and `get` are coroutines, each runs to its end on
  the event loop. `JobsService.execute` is a plain function, so Starlette runs
  it on a worker thread after the 202 is sent: the pipelines of several jobs
  interleave, with shared S3 keys per `deployment_id`, one `ManifestClient`,
  one `GraybarClient`. `enrich` adds a thread per distributor.
- **Failure.** Anything in a run may raise (S3, a generator, a missing key);
  uploads made before it stay. A restart forgets every job.
- **Retries.** platform-api POSTs again after a 404, a FAILED or a timeout,
  perhaps while the first run is still at work.
- **A world that moves.** A release of `manifest.yaml`, a price, a session, the
  date may change between any two steps of a run.
- **One site, derived many times.** DTM, schedule, BOM and drawings each work
  out for themselves which container holds what and what hangs on which
  switchboard, by chained ceilings, slugs, tags sorted as text, and strict zips.
- **Rules split over many readers.** What an order may be is decided by schema
  validators, region rules and a profile table; what the customer is told by
  the preview and its flags; what he gets by the resolver and the DTM.

What makes each component correct: a job settles once, and COMPLETE means a
package is there (Jobs); the package is one run's (Pipeline); every part has
an answer, and what a portal does fails no run (Enrichment); nothing is left out, fed
twice or overloaded (Sizing); what the rules let through is what was previewed,
and no order ends in a server error (Grid rules, preview, resolver); every
device has one tag, and artifacts derived apart describe one site (DTM,
Schedule, BOM, Drawings); what the catalog serves is whole and can work
(Templates).

`PROJECT.json` lists the components with their status, the hazards at their
lines, and the properties that watch them.

## Modules

| module | models |
|---|---|
| `JobProtocol` | the promise to platform-api, without how it is kept: accept, deliver, complete, fail, forget |
| `EdpJobs` | the job lifecycle with the pipeline, S3, platform-api, the manifest publisher and restarts; implements `JobProtocol` |
| `Enrichment` | offers for a BOM: `attach_offers`, `enrich`, the Graybar session, cache, history |
| `Sizing` | order to servers, containers, grid containers, feeds |
| `Intake` | regions file, previews, rules, `create` up to the resolution, the DTM's sizing block (uses `Sizing` by INSTANCE) |
| `DtmGenerator` | devices, slugs, tags and buses of an order (extends `Sizing`) |
| `CableHose` | power and network runs and hoses of a DTM (extends `DtmGenerator`) |
| `BomGenerator` | lines, prices, offers and budget (extends `CableHose`) |
| `Drawings` | what the labels of the sheets and the HMI's bus paths say (extends `BomGenerator`) |
| `Package` | the run of one order through the five above, and the properties of the whole |
| `TemplateCatalog` | the load and the validators of the templates, and the install sequence |
| `MCEdpJobs`, `MCEnrichment`, `MCIntake`, `MCPackage`, `MCTemplateCatalog` | instances for TLC (`Sizing` is its own) |
| `EdpJobsProofs`, `EnrichmentProofs`, `SizingProofs`, `IntakeProofs`, `TemplateCatalogProofs`, `ManifestProofs`, `PackageProofs`, `BomProofs` | theorems; `ManifestProofs` is about the devices, slugs, tags and buses of `Package`, `PackageProofs` about cables and hoses, `BomProofs` about the bill of materials, the sheets and the run as a whole |

Operators whose comment says *Mutated* are plausible bugs of the definition
below them. No run uses one; `PROJECT.json` names, for each property, the one
that breaks it.

### EdpJobs

| state | in the code |
|---|---|
| `published` | the release of `manifest.yaml` in S3 |
| `object[d][k]` | artifact row `k` of `_generated`, under `edp/{deployment_id}/`; a body is what it was rendered from: the release of the DTM, and the BOM (release, DTM of its cable lines, offers) |
| `store[j]` | `JobStore._records` |
| `task[j]` | where the request, then the background task of a POST stands |
| `order[j]` | the payload posted |
| `run[j]` | the locals `dtm`, `bom` of `PipelineService.run` and the upload loop's position |
| `client[d]` | how platform-api stands with its order for a site |

| action | in the code |
|---|---|
| `Create`, `Unprocessable`, `Errored`, `Respond` | `JobsController.create` with `JobsService.create`: accepted; `ValueError`, hence 422; any other exception, hence 500; the 202 has left and the background task is queued |
| `Start` | `execute` gets a worker thread |
| `GenerateDtm`, `GenerateBom`, `AttachOffers`, `Upload`, `Finish`, `Fail` | the stages of `PipelineService.run` between its reads and writes of shared state, and what `execute` stores after it |
| `Submit`, `Poll`, `GiveUp`, `ConnectionReset` | platform-api, after the contract in `readme.md` (external) |
| `Publish`, `Restart` | the catalog's publisher; the process manager (external) |

Stages that only compute (schedule, drawings, rendering) change no shared
state and are part of the step whose values they use; `Package` has them one
by one. A failure may follow any stage. One identifier stands for a POST
attempt and the job it becomes. The record's `error` and URL strings are left
out: they are functions of payload and release or only shown to the client.

Properties: `RunningIffTask`, `NotFoundMeansRestart`, `DoneMeansDelivered`
(safety of the answers), `SingleFlightPackage` (a COMPLETE package is one
run's, if platform-api holds a lock per site), `AnswerArrives` (liveness),
`ImplementsProtocol` (refinement, with fairness).

`SingleFlightPackage` needs its lock: without it the same statement is false
(run `torn`). Even with it a package once COMPLETE is overwritten by a later
run for the same site; the property is about the package as the client that
holds COMPLETE finds it, until it POSTs again.

### Enrichment

`today` is the clock in days, `cache` and `snapshots` are the two S3 prefixes,
`session[c]` is `_page` (the run whose thread opened it) and `_logged_in` of
client `c`, `worker[r][c]` is the thread of `enrich` for run `r`, `answers` its
results, `phase`/`next` stand for the caller, `attach_offers`. One action per
call that reads or writes shared state: `Hit`/`Unreadable`/`Miss`
(`OfferCache.get`: fresh; there but refused by the schema, which raises; the rest),
`Boot` and `Login` (`_ensure_logged_in`, before and after the page is set),
`Fetch` (search and product page), `Caught` (`except Exception`, and a search
without results), `Put`, `Record`, `WriteFails`; `Begin`, `Join`, `Merge` for
`attach_offers`; `Midnight` and `Restart` outside.

Assumed of Playwright (external): a page can only be driven by the thread that
opened it. An exception elsewhere in the portal's pages is always possible
and always caught, so no property depends on which calls fail. The product a
page shows is free among the parts and none; `Similar` is the containment test
on part numbers, and its price is free whether or not it names a product.
Snapshots past the thousandth are left out, as are stock and lead time, which no
control depends on. The live price and the new budget are in `BomGenerator`.

`Faulty` stands for S3 and releases: writes may fail, any set of snapshots may
be unreadable (`Readable`: `list_snapshots` logs and skips them), and `Restart`
may bring a release whose schema refuses what is cached (`Garbled`).
`DistributorOffer` forbids extra fields, and only the reading of the object is
guarded (`src/bom_enrichment/_offer_cache.py:58`), so a run that looks such an
entry up fails, and so does the next.

Properties: `EveryPartAnswered`, `HistoryCoversCache`, `EnrichmentEnds`, and
`FailsForCause`, an action property: a step that fails a run is the join of a
thread that raised (with `Faulty` only), or the division by a price of zero that
is in the history, at least `Window` days older than the offer at hand. That
nothing the portal does fails a run, as `src/bom_enrichment/_base_scraper.py:13`
says, is `PortalFailsNoRun`, and does not hold, since a page may show a price of
zero (`MCEnrichment_free_part`).

### Sizing

`Resolution` composes `gpu_node_count`, `compute_container_count`,
`site_peak_mw`, `grid_container_count` and `compute_feeds` as
`ModuleResolverService.resolve` and the users of the feeds do. The state is one
order and its resolution. Power is in units of 10 W, in which all figures of
the code are whole numbers; the code's floats give the same counts up to 60000
servers (compared by running both over that range), beyond which the model is
of the arithmetic meant rather than of its rounding.

### Intake

| state | in the code |
|---|---|
| `config` | what `GridRegionsLoader.load` got from the file at startup |
| `payload` | the customer's `ConfiguratorPayload` |
| `preview`, `answer` | the last `SizingPreview` shown, the last answer |
| `job` | of the `JobRecord`: the payload with the server's level, the preview, the resolution |
| `sizing` | the sizing block of the DTM |

`Start` is the load, `AskPreview` the preview of a draft, `Create` the order of
`JobsService.create` (schema, region rules, preview, level, resolution),
`EmitSizing` the head of `DtmGeneratorService.generate`. A look-up of what the
regions file lacks is a `KeyError`, hence "500". A payload the schema refuses
is "422" before anything else; a draft is held to the limits of
`SizingRequest`. Energies that the code divides by 0.95 are kept times 95, and
a power that is only compared is rounded up, so comparisons come out as over
the reals; the noise of floats at an exact boundary is left out. The one
rounding the code does on purpose, to six digits before the PCS are counted
(`src/sizing/pcs_sizing.py:59`), is `RoundedUp`: what is less than half of the
last digit above a whole unit falls away.

### DtmGenerator, CableHose, BomGenerator, Drawings, Package

These extend one another, as a run hands each artifact to the next. `stage`
is where `PipelineService.run` stands.

| module | state | actions |
|---|---|---|
| `DtmGenerator` | `options` and `release` (the rest of the order, and what a release may lack), `devices`, `buses`, `counter` (`slug_counter`) | `Take` (the resolution), `EmitCompute`, `EmitGrid` (one container each), `EmitSite` (battery pad, utility devices, buses, the validators of `Dtm`), `GenerateFails` |
| `CableHose` | `cables`, `hoses` | `Schedule`, `ScheduleFails` |
| `BomGenerator` | `book` (`pricing.yaml`), `market` (offers), `bom` | `GenerateBom`, `BomFails`, `AttachOffers` |
| `Drawings` | `sheets` | `DrawSheets` |

A slug is `<<template, n>>`, a tag `<<box, number, name, k>>`; `TextOrder` is
what sorting the tags as strings would do, which the code avoids. The
topologies and `bom.yaml` files are catalog data: the modules hold one of each
variant, in file order. A release is a record of what it may lack (a variant,
a topology, a template, a spec), and a `...Fails` action collects the
exceptions of a stage. A sheet is what its labels name: the ranges of
containers, the devices drawn as typical, the note on the partial container.
A price is a number per part and quantity break.

`Package` states what ties the artifacts together: `TagsNameOneDevice`,
`FeedersAgree` (one-line against feeder cables), `EveryRunLands` (network
ports), `NodesDualFed` (the A and B paths of each server),
`BomNamesTheDevices` (billed against built, reference designators included),
`RollupIsTheBudget` (three sums of one order), `SheetsShowTheSite` (labels
against manifest and schedule), `SoundOrdersAreServed` (which failures a whole
release rules out).

### TemplateCatalog

`files` is the directory in load order, `read` how far the loader got,
`catalog` its dict, `mop` the rows of an install sequence for two devices of
each template. `LoadFile` parses and validates one file, `CheckContains` is
`_check_contains_refs`, `BuildMop` is `build_mop_rows`. Names are numbers in
the order Python sorts them. Fields without a rule are left out, as is the
pattern a slug must match (`slug_format`): a file that breaks it is one more that
the schema refuses, as is one that is no YAML.

## Runs

| run | bounds | shows |
|---|---|---|
| `overlap` | 3 POSTs, 1 site, 2 releases, 4 rows, 2 threads | the three safety properties and the inductive invariant `IInv` (types included) hold with runs overlapping in any order |
| `rejects` | 2 POSTs, 2 payloads (one invalid), 3 releases (one broken, one without a profile), 2 rows, 1 thread | answers arrive and `JobProtocol` is implemented, with its fairness, over 422, 500, failing runs, and a job that waits for the other's thread |
| `single_flight` | 3 POSTs, 2 payloads, 2 offers, lock | `SingleFlightPackage` over failed and lost runs |
| `torn`, `second_fetch` | 2 POSTs, 1 POST | violated: see below |
| `steady` | 3 runs, 1 part, 1 distributor, 3 days, prices 0 and 1 | shared session, cache, history and price change, without S3 faults |
| `faulty` | 2 runs, 2 parts, 1 distributor, faults | enrichment ends, and never short of an answer |
| `orders` | 1 to 6000 GPUs, both variants | all sizing properties: up to 108 compute and 12 grid containers |
| `intake` | 8 sites, 7 shapes of grid, altered in up to two fields, every context, coupling and partition; 3 drafts; a whole, two partial and an invalid regions file | rules, preview, job and DTM agree |
| `package` | 161 cases: 14 orders at the boundaries and 4 large ones, 3 couplings, 12 defective releases, 3 price lists, with and without offers | the artifacts of a run describe one site |
| `catalog` | directories of up to 3 of 11 templates; one template with every measurement of limits 0..2, every pairing of type, binding and publisher, every command | the catalog served is whole and can work |
| `mop` | the templates of a compute container as shipped | violated: see below |

Why the bounds are enough.

- EdpJobs: three POSTs are a run, one that overlaps it and a retry; sites share
  nothing but threads and the catalog, so one site suffices, and two payloads
  of it (an amended order). Four rows have one of each kind the properties tell
  apart (two from the BOM alone, one from both, one from the DTM alone), with a
  first, a last and one between. Two releases are "the same" and "another". Two
  threads allow an overlap, one makes a job wait.
- Enrichment: two runs make a conflict over a session, and a third finds in
  cache and history what they left; two parts make a loop; three days an offer
  that is no longer fresh and one as old as the window. `Ttl = Window = 1` stands
  for the seven days of both. Prices 0 and 1 are the one that cannot be divided
  by and one that can. One distributor, since the service wires at most one
  (`src/jobs/jobs_module.py:81-95`); the theorems hold for any number.
- Intake: the limit is about 1 MW instead of 20 and the export cap 0.5 MW
  instead of 10; both are data of the file, and orders of a few hundred GPUs
  then lie below, exactly at and above them. A rule looks at one to three
  fields, so two altered fields reach each rule alone and each pair. One more
  order (`JustOver`) needs half a watt more than two PCS give, and gets two.
- Package: one server; a full container, one more; last containers of one to
  six servers (with one, two or three PDUs a side); ten containers and more,
  where C10 sorts before C2 as text; one, two and four grid containers, with an
  even and an uneven split. Devices are a function of these cases.
- TemplateCatalog: a validator looks at one template, and the checks between
  templates at two (a slug twice, a reference); a third is for the order.

`overlap` and `single_flight` use symmetry over `Jobs`, `steady` over `Runs`:
they check invariants and one property of steps, no liveness, and no definition
tells one job or run from another.

Deadlock is checked in every EdpJobs run: a restart is always possible there,
so it says little, and `AnswerArrives` is the property to look at. All other
systems end (one order, one load, runs are not repeated, the clock is
bounded), so their cfgs turn the check off.

Six more configurations each violate their one property; they document what
the repository says and the code does not do, and are run by hand
(`tlc -config X.cfg M`): `MCEnrichment_session`, `MCEnrichment_blank_page`,
`MCEnrichment_free_part`, `MCTemplateCatalog_gateway`, `MCSizing_rating`,
`MCIntake_drift`.

## Fairness

`FairSpec` of EdpJobs: weak fairness of each job's request and of each job's
execution, and of platform-api's polling and noticing of a closed connection.
The event loop serves ready requests, and a worker thread returns from each
call with a result or an exception (S3 and portal calls have timeouts), after
which a queued task gets its thread. Fairness is on the disjunction of
a task's steps: none of them is owed a success. `Submit`, `GiveUp`, `Publish`
and `Restart` are owed nothing. Weak fairness of a waiting task suffices
since nothing but a bounded number of other tasks can take its thread.

Enrichment: weak fairness of each thread and of the caller's `Join` and
`Merge`; a run need not begin and midnight need not come. The other modules
state safety only: their code is a straight line, and what could stop it is an
exception, which `SoundOrdersAreServed`, `WholeFileServes` and
`RefusedForCause` are about.

## Where the repository says something else

| run or configuration | said | done |
|---|---|---|
| `torn` | parallel POSTs "don't corrupt output" (`readme.md:610`), bytes are equivalent (`src/jobs/job_store.py:17`) | two runs interleave their uploads, with BOMs of different releases, offers and times |
| `second_fetch` | "no second fetch" (`src/jobs/jobs_module.py:44`) | `BomGeneratorService.generate` fetches the manifest again |
| `mop` | an "install sequence DAG" in which `depends_on` names tasks of the template (`src/shared/schemas/install_task.py:18`, `:32`) | `build_mop_rows` sorts by level, device and name: in `rack.yaml`, bonding to ground comes before anchoring, on which it depends |
| `MCEnrichment_session` | login once, the context is reused (`src/bom_enrichment/_graybar_client.py:7`) | the page belongs to a thread that ends with the first run |
| `MCEnrichment_blank_page` | an error when the page does not include the part number (`src/bom_enrichment/_graybar_page.py:25`) | a page with none passes, and is cached |
| `MCEnrichment_free_part` | a distributor's trouble never fails a BOM (`src/bom_enrichment/_base_scraper.py:13`) | a price of 0 divides by zero a week later |
| `MCTemplateCatalog_gateway` | a channel published by the gateway is "ALWAYS paired" with a synthetic binding (`src/shared/schemas/measurement.py:30`) | the validator accepts one with no binding at all (`:84`), so nothing says what the gateway is to compute |
| `MCSizing_rating` | the even split keeps each transformer under its rating (`src/sizing/compute_feeds.py:9`), 80% of nameplate (`src/sizing/sizing_internals.py:27`) | 10 of 19 B200 containers on one: 860 kW |
| `MCIntake_drift` | "drift surfaces at app startup" (`src/grid/grid_regions_loader.py:4`) | a regions file that lacks a region or a preset loads, and the order that needs it gets a 500 |

More are in the models, or next to them, without a run of their own:

- `Unprocessable` is enabled for a valid payload when `manifest.yaml` does not
  parse, since the handler maps every `ValueError` to 422
  (`src/jobs/jobs_controller.py:41`; its docstring, lines 36-37, speaks of a
  region rule that fails).
- Two runs may be between `boot` and `fetch` on one client at a time, where
  `src/bom_enrichment/enrichment_service.py:4` has part numbers queried
  sequentially within a distributor.
- With `Faulty`, `HistoryCoversCache` fails: cache and history are two
  unguarded writes (`src/bom_enrichment/enrichment_service.py:135-138`), where
  `src/bom_enrichment/_offer_history.py:4` says that every scrape lands a
  snapshot.
- `src/jobs/job_store.py:27` has background tasks share the event loop;
  `execute` is no coroutine and runs on a thread. Each job's record has one
  writer at a time, so nothing comes of it.
- "flex_obligation is set iff the path is flexible"
  (`src/dtm/dtm_sizing.py:34`); grid_revenue with flexible service has one too
  (`RevenueShape`). The arithmetic is right for both.
- "Every compute container is identical" (`src/drawing/_pid_kit.py:91`); the
  last may be partial, and the P&ID, unlike the one-line and the network sheet,
  has no note that says so.
- From 694 B200 servers (100 containers over 11 grid containers) or 1002 H100
  servers (144 over 13), `ceil(N / M)` leaves a grid container with nothing
  to feed. No property of `Sizing` forbids that; none of its transformers is
  overloaded.
- The loader of templates checks that references resolve, not that
  `depends_on` or `contains` has no cycle.
- `cheapest` takes a price of 0 for a price, `live_price` does not
  (`src/pipeline/pipeline_bom.py:50`): a line may show the price change of an
  offer whose price it does not use (`Cheapest` in `Enrichment`, `LivePrice`
  in `BomGenerator`).

## Proofs

All theorems are for every value of the constants, under the named assumptions
of the modules; `PROJECT.json` lists them. The safety properties are seldom
inductive; each proof module begins with the invariant that is.

**`EdpJobsProofs`** (from `ConstantsAssumption`, `NoneAssumption`): any jobs,
payloads, sites, releases, rows and threads. That `Finish` stores COMPLETE over
a whole package depends on the rows uploaded so far, and those on the loop's
position. `IInv` adds to `TypeOK`: `RecordOK` (a job has a record exactly from
202 to the restart, and its status follows the task), `RunOK` (what a run has
generated, and that all rows below its position are in S3) and `ClientOK` (what
platform-api waits for exists, and what it has seen COMPLETE is delivered). One
lemma per action, over frame lemmas for the parts an action leaves alone. The
step that matters is `Upload`: another run's upload may overwrite a row, but
never empties one. From it follow `RecordsFollowTasks`,
`UnknownOnlyAfterRestart` and `CompleteIsDelivered`. TLC checks `IInv` in
`overlap`.

The refinement, in the same module: `Spec => Protocol!SafetySpec`. `statusBar`, `siteBar`
and `deliveredBar` read the protocol's variables off records, tasks and S3.
`StatusFacts` derives from `IInv` what the status of a job is at each place its
task may stand; then each action is one protocol step (accept, deliver,
complete, fail, forget, or several jobs forgotten at once) or a stutter. The
fairness half of `ImplementsProtocol` is TLC's.

And `SingleFlightPackage`, by `LockInv`. With a lock per site, whatever is open
for a site is what its client waits for (`LockHeld`), so two open jobs of a
site are the same (`OneOpen`), the rows below a run's
position are as it uploaded them (`RowsStand`), and a package that is or will
be seen COMPLETE is of one run (`OnePackage`).

**`EnrichmentProofs`** (from `EnrichmentAssumption`): types, no part forgotten
(`EveryPartAnswered`), no failure without its cause (`FailsForCause`, with or
without faults and whatever the prices), and no gap between cache and history
provided S3 takes the writes (`~Faulty => ...`). `EnrichmentInv` says what a thread has
answered at each of its steps, and where the caller stands. `FailsForCause`
then has two cases: `Join` fails a run only for a thread that raised, which
needs `Faulty`; `Merge` only if the baseline is free, and `BaselineIsOld` says
that the baseline is a snapshot with a price, `Window` days before the offer. That
it is defined needs a latest snapshot, and the cheapest offer a least price, hence
a least natural number (`LeastNatural`), which comes from the well-foundedness of `<`.

**`SizingProofs`** (from `SizingAssumption`): orders of any size. The lemmas are
about ceiling division (`CeilDivBounds`, `CeilDivLeast`), the interval of
containers a grid container feeds (`Slice`, `SliceOfContainer`) and its share:
at most 10 B200 or 12 H100 containers (`FedShare`), which follows from the
site's peak being within the design load of all transformers together.

**`IntakeProofs`** (from `IntakeAssumption`, `IntakeNone`): any payloads, drafts,
thresholds and presets of the schema. `IntakeInv` says that a preview shown is
of a draft that passed, and that a job is the stamped payload, preview and
resolution of a payload that passed; what the properties say then follows from
the rules. The arguments worth reading are `OwnObligation` (the validators
leave no flexible order without its own obligation, so preview and DTM never
part), `NeedCoversJobs` (the maximum of the power needs, in racks and in PCS,
each rounded by itself)
and `NoServerError` (each look-up of a whole file succeeds).

**`TemplateCatalogProofs`** (from `CheckoutsAssumption`): directories of any size.
`CatInv`: until a file is refused the catalog is exactly the files read, each
under its slug, all of them valid; a refusal leaves its cause in the directory.

**`ManifestProofs`** (from `CasesAssumption`, `NoneAssumption`: the cases are
orders, options and releases of their types): `TagsNameOneDevice`, for orders of
any size and whatever the release lacks. `ManifestInv` is `EmitInv` while
containers are emitted and `SiteInv` after, both over `BoxInv`: every device is
a container's module or one of its kept entries, of each container emitted all
of them are there, no slug is beyond its counter, and ids and tags differ. It is
needed because a step adds a whole container to a set: that its module replaces
none rests on its number being one beyond all (`Emission`), that its entries
differ on the release's topology naming no two entries alike (`IsTopology`,
`Joined`). The devices of pad and utility have prefixes of their own.

**`PackageProofs`**, on top of it: from the schedule on, `ScheduleInv` says that
cables and hoses are what the rules derive from the manifest (`CablesNow`,
`Hoses`). `RankedIs` gives what a list in the order of tags holds, from which
`ContainersAre` and `ChildrenAre` give the schedule's own view of containers and
servers.
- `FeedersHold`: the cables and the buses both reduce to "container n hangs on
  grid container k" (`FeederRuns`, `BusesFeed`). A release without a primary
  never gets to a schedule, since the strict zip fails (`ScheduledSite`).
- `NodesHaveTwoPaths`: the cord of the i-th server comes from PDU
  1 + (i-1) % p, and p PDUs carry the servers held (`NodeCordsAre`).
- `RunsLand`: each polled device has one home module, its port is its rank
  there, and the pad's ports follow those of G1 (`RunLands`, `PortsDiffer`);
  power and fiber cables and hoses name devices that are there (`BranchesLand`,
  `CablesLand`).

**`BomProofs`**, on top of both. The sum of the community modules is a fold over a
function defined by CHOOSE; `SumsExist` and `SumsAgree` show, by the least size
of a set that has no sum or two, that it is the sum, `SumStep` that any element
may come first, and `Accumulate` is the induction over a finite set that the
other lemmas use (`SumByClass`: the sums of the classes of a partition add up;
`SumOfImages`: a sum may be taken over the images of an injection).
`LinesAre` gives the lines of the BOM: finite, with a quantity of at least one.
`BomInv` says that from the offers on every line is priced or not, that lines
of a part that is bought have one price, and that the budget is of these lines;
it is needed since neither the roll-up nor a section sees how a line was priced.
`BillInv` says that pricing left the lines of the order each once, with its
quantity, designators and note; it is needed since the offers come between the
lines and who reads them. `DrawnInv` is what a sheet takes from how the manifest
came about: the servers of a container have ascending slugs in the order of
their tags, and every bus joins at least two members that the HMI lists. It is
needed since the P&ID ranks the plates by slug, while their numbers are those of
the tags, and since a path is drawn from one member of a bus to another.
- `BomNamesWhatIsBuilt`: the groups of a section number the containers of the
  site and list for each what `emit_container` keeps (`ComputeLists`,
  `GridLists`), a group of n containers needs a part's tags n times
  (`BlockSize`), and the merged range of `ref_des` covers the same tags as the
  groups' own (`RefCovers`); so the one line of an equipment (`LineOfPart`)
  counts and covers what is built with it (`SectionBills`, `BuiltAre`). The note
  of the panel line takes the dropped PDUs from 2 * 3, which leaves those of the
  last container (`LastPdusAre`).
- `PackageIsTyped`: no slug beyond its counter, parents and bus members that are
  there, cable types and ports, quantities. A failed run keeps the schedule it
  had (`RunsAreTyped`).
- `SumsOfTheOrderAgree`: the roll-up prices a part by its first line (`FirstIs`:
  there is one, and all have its price), so a row is the sum of the part's
  lines; the sections partition the lines (`SectionsAddUp`).
- `SheetsShowWhatIsBuilt` (with `NoNoteAssumption`): what a sheet takes from
  manifest and BOM is what the schedule says. The slices of `compute_feeds` are
  the range of the first grid container and that of all others, as a label
  needs (`FeedsAreRanges`, `OneLineIs`); the PCS are those billed (`PcsDrawn`); a
  switch has the polled devices of its container patched to it, G1's those of
  the pad too, and a feeder container polls its relay alone (`PatchedAre`,
  `NetworkIs`, `FiberedAre`); C1 is the lowest compute module (`FirstComputeIs`),
  and its plates and cooler are what its CDU has hoses to (`PlatesDrawn`,
  `HosesDrawn`); the source and the far end of a path differ (`PathHasTwoEnds`);
  the note is that of the last container (`NoteIs`). After `DrawSheets` nothing
  changes (`StepSheets`).
- `OrdersAreServed`: over a whole release and price list `GenerateFails`,
  `ScheduleFails` and `BomFails` are never enabled. The strict zip sees as many
  transformers and switchboards as grid containers (`GridNumbered`), every bus
  member has its device (`SiteResolves`), every container its management switch
  (`SwitchIsThere`), and a part is ordered at least once, so a list that begins
  at one has a break (`BomServes`). That releases and price lists may be less
  than whole is in the runs; `Cases` only has price lists whose parts have at
  least one break (`IsPriceBook`, as `book_price` skips a part that has none).

Only model-checked: `AnswerArrives` and `EnrichmentEnds` (liveness) and the
fairness half of `ImplementsProtocol`, which need fairness and ENABLED. Every
other property of a passing run has a theorem.

## Plan

Done: the modules above and the theorems of `PROJECT.json`. Next, in this
order:
1. `SpecCache`: threads filling `_spec_cache` of the manifest client while a
   spec is published, and what one package may then mix.
2. `ThreadPool`: pipelines and the synchronous health probe on the same worker
   threads.

## Not modelled

DXF, PDF, SVG and XLSX rendering, geometry of symbols, title blocks and layout:
no control that a property could tell apart. Configuration, wiring and the probe
in `call_api/`: no state. The content of device templates, topologies and specs,
apart from what sizes and rules look at. Floats: the models have exact numbers
(for `Sizing` compared with the code's, for `Intake` not, at exact boundaries).
The cache of specs (`manifest_client.py:59`) and the limit of 1000 keys of a
listing (`_offer_history.py:52`) are hazards no property covers; `PROJECT.json`
says why.
