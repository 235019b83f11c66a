# StarAPIHub control plane: TLA+ models and proofs

StarAPIHub puts New-API (the gateway with channels, prices and billing), Bifrost
(providers, routing rules, global config) and ClewdR instances behind one
deployment.  The control plane is the Go program in `dashboard/`: a command line
tool (`starapihub`: sync, diff, bootstrap, health, upgrade-check, ...) that moves
those upstreams towards a YAML registry, and a dashboard server that polls them,
tails the nginx log and raises alerts.  This directory models the parts of it
that keep or change state, checks them with TLC and proves some of their
properties with TLAPS.  Paths below are relative to the repository; those
starting with `internal/` and `cmd/` are under `dashboard/`.

## 1. Inventory

| Component | State | Operations | What makes it correct |
|---|---|---|---|
| Sync orchestrator, `internal/sync/orchestrator.go` | the report: results and counters | `Run`: plan, apply, verify of each selected reconciler; fail-fast, dry run | counters match results; dependency order; nothing after a failure under fail-fast; no write in a dry run; exit code tells |
| Sync command, `cmd/starapihub/sync.go` | one live-state snapshot per process | `buildReconcilers`, `buildDesiredState`, `fetchLiveState`, audit entry | the report means what it says though the snapshot is old or incomplete |
| Channel reconciler, `internal/sync/channels.go` | none of its own; New-API's channels | plan, create, update, delete, three verifications, prune | converges; prune spares what is wanted or billed; no second channel of a name |
| Pricing reconciler, `internal/sync/pricing.go` | four JSON maps in New-API options | read, merge, put, verify | the desired prices end up in place; other models' prices survive |
| Provider, config, routing-rule reconcilers, `providers.go`, `config.go`, `routing.go` | Bifrost's three resources | plan, apply, verify, prune (tables) | converges; rules name providers that exist; the unmanaged is spared |
| Cookie reconciler, `cookies.go` | ClewdR cookies (push only) | always an empty plan | - |
| Upstream clients, `internal/upstream` | per listing, page and channels read so far | typed calls, paging, one replay after a 5xx | a call may be done and still fail, or succeed and not be done; a listing ends and is off by no more than what others changed meanwhile |
| Registry loader, `internal/registry` | - | parse and validate YAML | - |
| Bootstrap, `internal/bootstrap/bootstrap.go` | step reports; New-API's admin account | validate, wait, seed, sync, verify | writes only when everything is up; an ok sync has configured everything it does not warn about; a run ends |
| Drift detector, `internal/drift` | - | classify the actions of a dry run | blocking drift is told from the rest |
| Log tailer, `internal/poller/poller.go:334-450` | inode and offset, in memory; `log_entries` | `tailLog` every 5 s, insert | no line skipped, none twice |
| Pollers and `SystemState`, `internal/poller/poller.go` | health, outage clocks, cookies, last alerts | `pollHealth`, `pollCookies`, `SetHealth`, `AppendAlert` | the clock of an outage is right |
| Alert checker and store, `internal/poller/alerts.go`, `internal/store/store.go` | `alerts` table | `checkAlerts`, `fireAlert`, acknowledgement | at most one alert per key and window; a lasting outage is alerted |
| Logical models API, `internal/api/models.go`, `wizard.go` | Bifrost's providers and New-API's channels; per request, what it has made | create with compensation, update, delete, wizard steps, many at once | a create is all or nothing; a rollback takes back only what it put; every request is answered |
| Dashboard HTTP API, event stream, `internal/api` | - | snapshots of `SystemState`, pass-through operations | - |
| Audit log, cron, `internal/audit`, `scripts/starapihub-cron.sh` | one JSON line per run | append; scan by cron every minute | the line agrees with the exit code; a failed run is noticed, whatever is appended after it |
| Upgrade gates, `internal/upgrade` | - | five read-only checks | - |
| Frontend, trace, build info, nginx, deployment, schemas | - | - | - |

How they interact.  The command fetches the live state once (`sync.go:407-479`),
builds the desired state, and hands both to the orchestrator, which calls the
reconcilers in the order cookie, provider, config, routing-rule, channel,
pricing (filtered by `--target`).  Each reconciler plans from the snapshot but
writes to, and verifies against, the upstream as it is by then.  Bootstrap
runs the same orchestrator between a wait and a verification.  Both append a
line to the audit log before they exit, which cron scans.  In the
dashboard the HTTP handlers call the same upstreams, each request in a
goroutine of its own; there the pollers, the checker and the tailer are goroutines that meet in
`SystemState` (a mutex) and in SQLite.

What is hard: every list is a snapshot and several operators, the admin UI and
billed traffic change the upstreams meanwhile; a request may take effect and its
answer be lost; upstreams answer 200 to things they ignore; a process may be
killed between any two calls and run again; reads fail and are taken for empty
lists; the poller changes what the checker is in the middle of reading; the
dashboard forgets its memory at a restart and keeps its table; nginx rotates
the log whenever it likes.  PROJECT.json lists these as hazards, each at its line.

## 2. Modules

| Module | Models | State and actions |
|---|---|---|
| `SyncOrchestrator` | `SyncOrchestrator.Run`, any number of concurrent runs | `phase`, `left`, `cur`, `pending` are the two loops of `Run`; `report` and `results` the SyncReport; `exit` the exit code of `main`.  One action per outcome of Plan, Apply and Verify |
| `SyncOrchestrator_proofs` | - | theorems about it |
| `AuditCron` (extends the orchestrator) | `Logger.Write` between the end of `Run` and the exit, `WriteBootstrap`, cron's scan with jq | `log` is what jq makes of each line, `entry` which line is a run's, `alerted` whether the last scan called `send_alert` |
| `AuditCron_proofs` | - | audited runs are runs of the orchestrator, so its theorems hold of them; the audit trail's own invariant |
| `ChannelSync` (extends the orchestrator) | `ChannelReconciler` and the fetch | `chan` is New-API's table, `snap` the fetch, `queue` the plan; `applyX`, `verifyX` each one action; `Others` the admin UI and traffic |
| `ChannelSync_proofs` | - | types, order, pruning, the refinement of ChannelPromise, twins, convergence |
| `ChannelListing` | `ListChannelsTyped` and `doWithRetry`, while the table changes | `page`, `all` are the loop's; `table` is New-API's, in the order it lists it; `kept`, `added`, `removed` what others did since the listing began |
| `Readers_proofs` (LogTailer, ChannelListing) | - | types; what the tailer skips and reads again; what a listing overlooks and repeats |
| `ChannelPromise` | abstract | what a sync may do to the table: add, once, what it saw missing or could not look for; correct a channel of the registry's names; remove one nobody wants or was billed for.  `may` is what each process may still add |
| `PricingSync` (extends the orchestrator) | `PricingReconciler` | `option` the maps in New-API, `merged` the map between Apply's read and its put |
| `PricingSync_proofs` | - | types, order, desired prices, convergence, the unmanaged prices |
| `BifrostSync` (extends the orchestrator) | the three Bifrost reconcilers in one run | `live`, `snap`, `queue` by kind |
| `BifrostSync_proofs` | - | types, order, the unmanaged, convergence, pruning, rules after providers |
| `Bootstrap` | `Bootstrapper.Run` with all flags, and the live state read before it | `at` is the step, `steps` the report, `copies`/`right` the resources, `snap` the old live state, `warned` the resources the sync reported as drift |
| `Bootstrap_proofs` | - | types, what an ok sync means, when a run writes |
| `LogTailer` | the tailing loop and `tailLog`, beside nginx and logrotate | `lastOffset`, `lastInode`; `reading` is a read between Stat and the end of the scan; `stored` counts copies in the table; `shrunk`, `late`, `refused` record truncations, races and failed inserts |
| `AlertPipeline` | `checkService`/`SetHealth`, `pollCookies`, `checkAlerts`, `fireAlert` and the acknowledgement | `health`, `since`, `cookies`, `shown` are SystemState; `phase`, `todo`, `step`, `pending` the checker's program counter; `stored`, `age` the table |
| `ModelsApi` | the handlers of `models.go` and `wizard.go`, any number at once | `at`, `body`, `made`, `k` are a handler's program counter and locals; `bifrost`, `channels` the upstreams; `put` and `owner` what a request's calls have really put and who put a provider last, `ignored` what it was only told it had, `doubt` whose calls failed, `taken` what others removed of `put`.  One action per upstream call and outcome |
| `Dashboard_proofs` (AlertPipeline, ModelsApi) | - | types; the dedup window, the list that is shown; all or nothing, what a rollback spares |
| `MC...` | - | definitions the configurations instantiate constants with |

Composition: ChannelSync, PricingSync, BifrostSync and AuditCron each extend
SyncOrchestrator and conjoin every step of theirs with the orchestrator action it
is part of, so the loop, the counters and the exit code are the same in all of
them.  The orchestrator's proofs are about any step of any run with a plan of any
length (`StepKeeps`, `CountsKept`), so ChannelSync_proofs, PricingSync_proofs,
BifrostSync_proofs and AuditCron_proofs extend SyncOrchestrator_proofs and take its
invariant over as part of theirs; that audited runs are runs is itself a theorem
(`AuditedRunsAreRuns`).  ChannelSync implements ChannelPromise (`Promise == INSTANCE ChannelPromise WITH
table <- chan, may <- ...`: what a process may still add are the creates it has yet to
send, or may yet plan).

Abstractions, beside those in the module headers.  A channel is a name, a
`main` part (what `verifyUpdate` compares), a `rest` (what it does not), and
whether it was billed; a provider or config field has a value out of `Settings`;
a routing rule is the provider it sends to.  HTTP is the outcome of a call: done
or not, answered or not.  Ages replace timestamps in AlertPipeline (one `Tick`
ages everything).  Lines of the log are numbers and offsets count lines, so the
cut of a half-written line is not seen.  A listing's page and the total that
comes with it are of one moment, pages count from 0 as the code asks for them,
and the list is ordered by priority, so that a new or changed channel may come
in anywhere.  A line of the audit log is what jq makes of it (jq 1.6 or later,
which stops with an error at a line it cannot parse); a cut that loses only the
newline counts as a cut.  The order of Go maps is
nondeterministic (`SetToSeqs`, `ByName`).

Definitions whose comment starts with "Wrong:" are plausible mistakes in the
operator that follows them; they are used by no specification, only put in
its place to see that a property notices.

## 3. What TLC checks

Sizes are distinct states; each run takes at most about three minutes with two workers.

| Run | Module | Checks | Instance |
|---|---|---|---|
| `orchestrator` | MCAuditCron | `TypeOK`, `CountersMatchResults`, `FailFastStops`, `DependencyOrder`, `ZeroExitMeansNoFailure`, `AuditTellsOfRuns`, `FailedRunsAreAlerted` | three of the six reconcilers, plans of up to 2 actions, dry run, fail-fast, targets and `--no-audit`; a log of two lines, so that an entry comes before or after a failed one; 858 120 states |
| `channel_sync` | MCChannelSync | `TypeOK`, `CleanRunConverges`, `PruneSparesWantedAndBilled`, `RerunMakesNoTwins` | one process at a time, restarted at will, whose list may fail; two registry entries, one with a key other than its display name, which may be the name of somebody's channel; others create, edit, rename, delete and bill; 203 752 states |
| `channel_two_operators` | MCChannelSync | `PromiseKept`, `CleanRunConverges` | two processes on stale or failed lists, up to three channels, ignored writes of the fields Verify reads back and of the others; 245 968 states |
| `channel_listing` | MCChannelListing | `ListingTypeOK`, `ListingIsOffByTheChanges`, `ListingEnds` | pages of two channels, up to three pages, additions and deletions at any place and a change of priority, GETs that fail or answer 5xx; about a million states |
| `pricing_sync` | MCPricingSync | `TypeOK`, `CleanRunConverges`, `DesiredPricesStay` | two options, two models, failing reads, an operator saving; 52 814 states |
| `pricing_failed_read` | MCPricingSync | `UnmanagedPricesKept` (violated) | only reads may fail |
| `bifrost_sync` | MCBifrostSync | `TypeOK`, `CleanRunConverges`, `CleanPruneLeavesNoExtras`, `RulesFollowProviders`, `SparesTheUnmanaged` | providers p (wanted) and q, config fields f (wanted) and g, rule s; failed reads, missing file, missing key, kills, somebody else changing q; 472 076 states |
| `tailer_rotation` | MCLogTailer | `TypeOK`, `NothingSkipped`, `EveryLineArrives`, `RereadsOnlyShrunkFile` | two files, four lines, rotation by rename and by truncation, nginx racing with a read, refused inserts, a restart; 270 254 states |
| `tailer_truncation` | MCLogTailer | `AtMostOnce` (violated) | one file that is truncated |
| `alerts` | MCAlertPipeline | `AlertTypeOK`, `ShownIsTheNewestStored`, `AlertsKeepTheirDistance`, `PolledOutagesAreAlerted` | a service and a cookie instance, a database error, a restart; 325 584 states |
| `bootstrap` | MCBootstrap | `TypeOK`, `SyncedMeansConfigured`, `WritesOnlyWhenReady`, `RunEnds` | two services, two resources, one of which has a key that may be another's name, two runs, five sets of flags; writes may fail or be accepted and not done; 133 444 states |
| `models_api` | MCModelsApi | `TypeOK`, `CreateIsAllOrNothing`, `RollbackSparesTheUnwritten`, `EveryRequestIsAnswered` | two requests at once over two providers they share: creates, an update, a wizard step, deletes; calls failing with or without effect, or answered and not done; a restart, others changing Bifrost; 378 680 states |

What the less obvious ones say:

- `CleanRunConverges` (three modules): a run that reports no failure and no
  drift and that nobody disturbed has reached the registry, although calls may be
  done without being acknowledged and acknowledged without being done.  Verify is
  what makes this true: mutants that weaken a verification break it.  For pricing
  and Bifrost it holds also of runs that planned from a failed read.  For channels
  it does not, and the property excepts what breaks it: a run whose list failed
  (it is not `quiet`); a create whose key is, or may have been, the name of another
  channel, which verifyCreate takes for it (`Mistakable`); and the fields Verify
  does not read back (`rest`), which New-API may ignore.
- `RerunMakesNoTwins` is about runs whose list was read: from a table without twins
  an undisturbed one makes none, whatever was lost or killed before.  A run whose
  list failed makes a twin of every entry whose channel is there (section 5).
- `AuditTellsOfRuns`: the order of the end of a run - report, audit entry, exit -
  is why the trail and the exit code agree; the mutant that returns the error
  first breaks it.  `FailedRunsAreAlerted`: a failure anywhere in the log is
  found, not only in its last line; the exceptions are a run that dies, an entry
  that could not be written, and a log that jq can no longer parse.
- `PruneSparesWantedAndBilled` holds up to what others did since the fetch, since
  nothing is looked at again before a write; it says precisely that and no more.
- `PromiseKept`: with nobody but sync processes at work, however many and however
  stale, each adds only entries its own list lacked (all of them, if it failed), each
  at most once, and else only corrects wanted channels and removes unwanted,
  unbilled ones.  Two processes that both look before either adds do make a twin;
  the promise allows that, as the code does.
- `RulesFollowProviders`: provider before routing-rule in the order is why a rule
  never refers to a provider the run failed to create, as long as the run is
  still clean.
- `CleanPruneLeavesNoExtras` excludes the tables that were read as empty: the
  command cannot tell an empty list from one it could not read.
- `ListingIsOffByTheChanges`: reading by page number overlooks at most one channel
  for each deletion and repeats at most one for each insertion; without
  concurrent changes a listing is exact, whatever fails in between.
- `NothingSkipped`: the position is never past a line of the file that is not in
  the table, also when the file behind the name has been replaced by a larger
  one.  It is silent about a file that has been truncated and has outgrown the
  position, whose first lines are lost.
- `RereadsOnlyShrunkFile`: a line gets a second copy only by the first read after a
  restart, by having been written during a read, or in a file shorter than the
  position; refused inserts never cause one.
- `CreateIsAllOrNothing` names every way in which it may not be: a call that
  Bifrost lost, refused or ignored, and what other requests or people removed.
- `RollbackSparesTheUnwritten` compares what a rollback removes with a record of the
  calls (`put`, `ignored`) that is kept apart from the list it goes through; noting
  a provider down before the call that may refuse it breaks it.
- `ShownIsTheNewestStored`: memory holds the newest alerts of this process, in
  order, except the one being handed over.
- `SyncedMeansConfigured`: although bootstrap plans from what it read before the
  services were up, a sync step that is ok leaves every resource configured about
  which it gave no drift warning.  With a warning it may be missing: New-API may
  have refused the create in a 200 answer, and RunSync counts failures only.
- `WritesOnlyWhenReady` asks for a seed step that is ok or skipped, which is not the
  same as an account that exists: a refused one is an ok step.

Bounds.  Every unbounded thing has a named bound in the guards: `MaxPlan`,
`MaxInit`, `MaxId`, `MaxLines`, `MaxInodes`, `MaxRestarts`, `MaxCopies`,
`MaxShown`, `MaxAlerts`, `MaxFaults`, `MaxRuns`, `MaxLog`, `MaxMoves`, and the
sets `Readings` (what cookie polls see) and `Bodies` (the requests tried).  They are the smallest at which
the case a property is about happens: two actions in a plan for one to fail and
one to follow; a third channel id for a twin beside two channels; a second inode
for a rotation, with lines enough for the new file to outgrow the old position;
a page more than one deletion can empty; an alert more than `MaxShown`; a second bootstrap
run for a re-run.  In channel_sync there are at most two channels and `rest` has one value, since others may
do anything to them; channel_two_operators has three channels and a `rest` that differs
and may be ignored, but one registry entry and nobody else at work.  `PageSize` is 100 in the code; the loop only
compares and multiplies by it, and 2 has full and partial pages.  `CHECK_DEADLOCK` is left on
everywhere.

Fairness.  A sync run's own steps are weakly fair: each is at most one HTTP call
and every client has a timeout (30 s).  Crashes, restarts and other people are
not fair.  In LogTailer only the tailing (`Tail5s`, a ticker) is fair; nginx and
logrotate are not.  In AlertPipeline the pollers, the checker and the clock are
fair, each being a ticker loop in a goroutine of its own (`PollerStep`,
`CheckerStep`: whatever the goroutine does next); services, database errors and
restarts are not.  In ModelsApi a request being served moves on, since every call
ends within the dashboard client's 10 s; in ChannelListing every GET does.  In
AuditCron a run and its append move on and cron starts the script again and
again; appends may be refused every time.  In Bootstrap the program's steps are fair, the
services are not, which is why the wait's timeout matters for `RunEnds`.

## 4. What is proved

A theorem holds for every value of the constants that the module's named
assumption allows.  The assumptions say what the code gives: the reconcilers'
order, flags that are Booleans, desired entries that are of the right kind, bounds
that are numbers.  Beyond that, `Keys` and `Ids` are finite (a registry is a file),
`Desired["routing-rule"]` names registered providers, a command line of a pricing run
has no `--target` or `--target pricing`, `ratioKeys` has no option twice, `MaxInit =< MaxId`,
`MaxCopies > MaxRestarts + 1` (the cap on copies that are counted lies above what
a restart can cause), `Nobody` is no handler, `Grace < Window`.  Every module with
an assumption is checked by TLC in some run, so each is met there.

**Orchestrator** (`SyncOrchestrator_proofs`), for any reconcilers, plan lengths,
options and number of concurrent runs.

- `OrchInvariant`: `OrchSafety => []OrchIInv`.  The properties are not inductive:
  `ZeroExitMeansNoFailure` needs that a report without failures has no failed
  result, `DependencyOrder` needs to know what is left to run, `DryRunOnlyPlans`
  that a dry run never enters apply.  `LoopInv` adds these facts about a run in
  the middle of its loops; `OrchIInv` is its conjunction with the properties.
  One lemma per action; `StepKeeps` puts them together for any step of any run,
  `StepOfOneRun` says that it leaves the other runs alone.
- `OrchTypeCorrect`, `ReportAlwaysAddsUp`, `FailFastAlwaysStops`,
  `AlwaysInDependencyOrder`, `DryRunAlwaysOnlyPlans`, `ZeroExitIsSuccess` follow from it.
- `CountersAlwaysMatchResults`: each counter is the number of results with its
  statuses.  Proved by how a count changes when a result is appended
  (`CountOf` and its lemmas about cardinalities), with no induction over the sequence.

**Audit log** (`AuditCron_proofs`).  `AuditedRunsAreRuns`: `Spec => OrchSafety`, every
step is one of `OrchNext` or leaves the orchestrator's variables alone, so
`AuditedRunsKeepOrder` has the properties above for runs as they are.
`AuditInvariant` relates log and reports: a run's entry, once written, is a line
that says "failures" exactly when its report does or is broken, and no append of
anybody else changes a complete line (`AppendKeeps`).  `AuditTypeCorrect` and
`AuditAlwaysTellsOfRuns` follow.

**Channels** (`ChannelSync_proofs`).

- `ChannelBase`, `ChannelTypeCorrect`: the queue is what is left of the plan, as long as
  `pending` says, whichever action failed.  `ChannelRunsKeepOrder`: every step is the
  step of some orchestrator run or of none (`StepOfRuns`), so the orchestrator's
  properties hold here too, the counters and the exit code among them.
- `ChannelInvariant`: actions aim at what they were planned for.  Ids are never
  given twice, and unless others may rename (or traffic may bill), the channel an
  action aims at still has the name (the billing record) it was fetched with.  From
  it `PruneAlwaysSpares` and the refinement `PromiseAlwaysKept`: every step maps to a
  step of ChannelPromise or to a stutter, for any number of processes on
  snapshots however stale or failed, if nobody else writes the table (`World = {}`,
  which is also the run's instance).
- `RerunsMakeNoTwins`, if each display name is asked for once (`OneEntryPerName`; the
  loader refuses duplicate keys only, so this is a hypothesis about the registry).
  Lists may fail, and others may be at work: the property is about the runs that read
  theirs and that nobody disturbs.  `TwinInv`: such a run, while it still plans, has the
  table as its snapshot, and none of the creates that wait has its name in the table or
  twice in the queue.
- `CleanRunsConverge`, under the same hypothesis, if every command line selects the
  reconciler.  Writes may be ignored, keys may be other channels' names.  `SettleInv`:
  of an undisturbed run without failure or drift, each entry is in place, may have been
  mistaken, or its action waits, and each channel that is to go has its delete waiting.

  The instances of both runs meet these hypotheses.

**Pricing** (`PricingSync_proofs`), for any options, maps of prices (or values that do not
parse) and number of runs, with no hypothesis beyond the assumption unless named.

- `PricingBase`, `PricingTypeCorrect`, `PricingRunsKeepOrder`: as for channels.
  `MergedInv` adds what the rest needs of the gap between the read and the put: a map
  waits only while its option is at the head of the queue, and whatever it was merged
  from (an old value, garbage, nothing after a failed read) it has the registry's
  prices (`MergeFacts`).
- `DesiredPricesAlwaysStay`: therefore no put, however old its read, takes a desired
  price away.
- `CleanRunsConverge`: `FreshInv` says that an undisturbed run which has still to plan
  has read the options as they are, or none; `Settled` that, while it has neither
  failure nor drift, each option either has its desired prices or is in the queue.  Verify,
  which reads back what was put, is what takes an option out of the queue.
- `UndisturbedRunsKeepUnmanaged`, if reads do not fail: a run nobody disturbs leaves the
  other models' prices alone.  Without that hypothesis it is false, which
  `pricing_failed_read` shows, so the ignored read failure is the only cause of the
  loss it reports.  (An option that did not parse before is excluded: Apply replaces it.)

**Bifrost** (`BifrostSync_proofs`), with no hypothesis beyond the assumption: reads
before planning may fail, Bifrost may lose or ignore calls, others may be at work.

- `BifrostBase`, `BifrostTypeCorrect`, `BifrostRunsKeepOrder`: as for channels, and the
  queue only holds actions a plan of the kind in hand can hold (`Planable`): writes of
  what the registry names, and deletions of what it does not, when pruning.
- `UnmanagedAlwaysSpared`: each write `Fits` what was there: it removes only when
  pruning and nothing wanted, and what it changes or adds is as the registry has it.
- `BifrostSettles`: `SettleInv` is the inductive invariant behind the rest.
  `FreshInv`: what an undisturbed run has still to plan it has read as it is now, or
  not at all; a write of one reconciler does not touch what the later ones read.
  `Settled`: while such a run has neither failure nor drift, everything wanted of the
  reconcilers it has dealt with is in place or awaits its turn, and so do the
  deletions.  Neither is inductive alone: a plan is only as good as the snapshot, and
  convergence at the end needs to know, action by action, that Verify has looked.
- From it `CleanRunsConverge`, `CleanRunsPrune` and `RulesAlwaysFollowProviders`: a run
  that has come to the third reconciler has providers dealt with, and they are in place.

**Bootstrap** (`Bootstrap_proofs`).  `BootstrapInvariant`: what was read of a resource may
have been absent since, but has not become so; while no write failed, what has been dealt with
is in place, or has its warning, or is a create that passes undone (`PassesUndone`);
later steps have the earlier ones behind them.  From it
`BootstrapTypeCorrect`, `SuccessMeansConfigured`, `WritesAwaitTheServices`.

**Log tailer** (`Readers_proofs`).  `TailerInvariant`: lines are in one place; the
position is within its file unless that was truncated; a read going on is of the
position's file or a later one; what is stored lies before the position or the end of
the read.  From it `TailerTypeCorrect`, `TailerSkipsNothing`, `RereadsOnlyWhenShrunk`
and `RenamingCostsNoCopies` (without truncations, each start stores a line at most
once; stated as `OneCopyPerStart`, which no run repeats).

**Channel listing** (`Readers_proofs`), for any page size, table and sequence of
insertions, removals and moves.  `ListingInvariant`: while the loop goes on, the channels
`Overlooked` (there all the time, in front of the next page, not read) number no more
than the removals so far; and the channels read twice, together with those `ToComeAgain`
(read, but behind the boundary once more), no more than the insertions.  The second sum
is what makes it inductive: an insertion pushes at most one channel over the boundary, a
page read turns those to come again into repetitions, and a removal pulls at most one
channel in front of it.  From it `ListingTypeCorrect` and `ListingOffByTheChanges`.

**Alerts** (`Dashboard_proofs`).  `DedupWindowHolds`: the point is the gap between
`HasRecentAlert` and `InsertAlert`; `DistanceInv` says that while `fireAlert` stands
before the insert, the key of its pending alert is still out of the window - the
checker is the only writer and time only makes it older.  `AlertInvariant` adds the
list in memory: what is being handed over was stored by this process.  From it
`AlertTypeCorrect` and `ShownIsAlwaysTheNewest`.

**Logical models** (`Dashboard_proofs`), for any number of requests at once over any
providers, in any order and with repetitions.  `ModelsInvariant`: until it answers
"created", a create can account for each of its providers in Bifrost - it is among
those to undo or a call about it has failed; what it has put is there unless somebody
took it; and the list of what to undo never runs ahead of the calls (`MadeInv`), which
is what `RollbackAlwaysSpares` rests on.  From it `ModelsTypeCorrect`,
`CreateIsAlwaysAllOrNothing`, `RollbackAlwaysSpares`.

Only model-checked: liveness (`RunEnds`, `EveryLineArrives`, `PolledOutagesAreAlerted`,
`FailedRunsAreAlerted`, `ListingEnds`, `EveryRequestIsAnswered`), which rests on fairness
and ENABLED, out of the prover's reach; and the two violations, which need an
instance and not a proof.  Every other property of every run is a theorem, `CleanRunConverges` and
`RerunMakesNoTwins` of the channels under the hypotheses named above.

## 5. Disagreements between the code and what it says

Shown by a run:

- `tailer_truncation`: after a truncation the position is not moved back
  (`poller.go:355` only moves it forwards within an inode), so the whole file is
  inserted again every five seconds until it has outgrown the old offset.
- `pricing_failed_read`: `Apply` ignores a failed read (`pricing.go:146`), merges
  into an empty map and deletes the ratios of every model the registry does not name.

Met while reading, and part of the models' behaviour, without a run of their own:

- `main` exits with 2 for failed actions where `orchestrator.go:97,192` say 1;
  `ExitCode` is not called.
- A failed channel list (`sync.go:462`) makes sync create every channel again, though
  `docs/runbook.md:298` says that syncing twice is always safe.
- A channel billed or renamed after the fetch is still pruned (`channels.go:107,366`).
- `verifyUpdate` compares name, models and group only (`channels.go:426`).
- `verifyCreate` looks for the registry key, not the display name (`channels.go:397`):
  every create of the shipped policies is reported as drift, and one whose key is another
  channel's name as ok though it may be missing.
- A config that could not be fetched is a typed nil and panics in Plan (`config.go:58`).
- A missing registry file fails its reconciler (`sync.go:391`), though `loader.go:144` calls files optional.
- What an operator saves between the read and the put of a price is lost (`pricing.go:169`).
- A line nginx writes between Stat and the end of the scan is stored twice (`poller.go:447`);
  what the old file got since the last tick is lost at a rotation.
- Bootstrap reads the live state before it waits (`cmd/starapihub/bootstrap.go:110`): a
  re-run against starting services creates everything again, and the verification
  (`bootstrap.go:455`) of a first run reports as missing what it has just created.
- `bootstrap --dry-run` hands the reconcilers a live state without entries
  (`cmd/starapihub/bootstrap.go:110`), so every plan fails and it always ends with an
  error, where `bootstrap_test.go:615` expects an ok step.
- A refused admin account is an ok seed step (`bootstrap.go:339`), and a channel refused in
  a 200 answer (`upstream/newapi.go:95-115` does not read `success`) leaves the sync step
  ok: it is drift, and `RunSync` looks at failures only (`bootstrap.go:418`).
- `docs/config-sync.md:165-175` rotates a provider's API key by editing the YAML and
  running sync; the comparison strips key values (`providers.go:279`), so a sync of a
  changed key plans nothing.
- Two syncs at once may both create a channel (`channels.go:328`).
- `tailLog` does not look at `scanner.Err()` (`poller.go:437`): after a line of more than
  1 MB the rest of that read is lost, as the position moves to the end of the file.
- nginx and postgres are never polled (`poller.go:223`), ports are dropped from
  names (`poller.go:267`), severities depend on the name alone (`alerts.go:50,82`),
  an acknowledgement does not reach memory (`api/alerts.go:37`) - against
  `docs/monitoring.md:118-119` and `docs/alert-model.md:32,55,112`.
- A file truncated and grown past the position again loses its first lines (`poller.go:419`).
- An update of a model answers "updated" whatever failed (`api/models.go:125`); a create
  answers 201 when New-API refuses the channel with a 200 (`upstream/newapi.go:111`);
  a channel that was created although the call failed stays, without its providers
  (`api/models.go:91`).
- The rollback of a create deletes providers that were there before it, or that
  another request has put meanwhile (`api/models.go:155`): `CreateProvider` does not
  tell a new provider from an old one.
- Cron's scan finds a failed entry for ever, however many runs have succeeded since
  (`scripts/starapihub-cron.sh:90`), and finds nothing any more after a line that was cut short.
- An interrupted run has no audit entry, and a bootstrap that failed before its
  sync has one without failures (`audit.go:139`), which no scan notices.
- `diff` exits 0 when plans fail, 1 for warnings and 2 for blocking drift, as
  `docs/config-sync.md:63` says; the cron script takes any exit but 0 for blocking
  drift, and `docs/monitoring.md:20` and `docs/alert-model.md:36` say blocking is 1.
- `HandleDiffStatus` answers with the last sync entry of the audit log (`api/ops.go:31`);
  diff writes none.

## 6. What is not modelled, and the plan

Not modelled because there is no state to speak of: registry parsing, the cookie
reconciler, upgrade gates, health, trace, diff and version commands, frontend,
deployment files, formatting, and the drift detector, whose tables of severities
a model could only repeat.  Left out inside modelled parts: the JSON value
`null` of an option, provider key values (stripped before the comparison), log
statistics, the delivery of webhooks (tried once, nothing depends on it), the
other three checks of the cron script.  Nothing else of the program changes state
that a model could say more about.

What is left: nothing that a run checks and that the prover can reach is unproved.
What a next step could add is in the hazards of PROJECT.json without a property, each
with the reason why it has none.
