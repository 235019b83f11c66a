------------------------------ MODULE Bootstrap ------------------------------
(***************************************************************************)
(* `starapihub bootstrap` (cmd/starapihub/bootstrap.go and                 *)
(* internal/bootstrap/bootstrap.go): read the live state, validate, wait   *)
(* for the services, seed the admin, sync, verify - run again and again,   *)
(* by operators who may interrupt it, against services that come and go.   *)
(*                                                                         *)
(* The sync engine is SyncOrchestrator's subject; here it is one write per *)
(* resource and its verification, planned from the live state that was     *)
(* read before anything else. A resource is a channel: New-API creates it  *)
(* again when asked twice.                                                 *)
(***************************************************************************)
EXTENDS Naturals, FiniteSets

CONSTANTS
    Services,    \* the upstreams that are health-checked
    Resources,   \* what the registry wants
    Home,        \* resource -> the service that keeps it
    Mistakable,  \* resources whose registry key is the name of some other channel
    Options,     \* records [dryRun, skipSeed, skipSync]: the flags a run may get
    MaxCopies,   \* bound: copies of one resource
    MaxRuns      \* bound: runs started

ASSUME BootstrapAssumption ==
    /\ Home \in [Resources -> Services] /\ "new-api" \in Services
    /\ Mistakable \subseteq Resources
    /\ \A o \in Options : /\ DOMAIN o = {"dryRun", "skipSeed", "skipSync"}
                          /\ \A flag \in DOMAIN o : o[flag] \in BOOLEAN
    /\ MaxCopies \in Nat \ {0} /\ MaxRuns \in Nat

Steps == {"validate", "wait", "seed", "sync", "verify"}
Statuses == {"none", "ok", "failed", "skipped"}

VARIABLES
    up,        \* service -> whether it answers
    copies,    \* resource -> how many the service keeps
    right,     \* resource -> whether one of them has the name, models and group
               \* that the registry wants, which is what Verify reads back
    seeded,    \* New-API has its admin account
    at,        \* where the run is: "off", "fetch", a step, or "done"
    opts,      \* the flags of the run
    deps,      \* SetSyncDeps was called: the registry could be loaded
    snap,      \* SyncDeps.LiveState: what the run read of each resource
    left,      \* the services still to read, the probes or writes still to make
    steps,     \* BootstrapReport.Steps: step -> status
    failures,  \* SyncReport.Failed > 0
    warned,    \* the resources whose result is applied-with-drift or unverified
    drift,     \* VerifyHealth found blocking drift
    runs

world == <<copies, right, seeded>>
vars == <<up, world, at, opts, deps, snap, left, steps, failures, warned, drift, runs>>

NoSteps == [s \in Steps |-> "none"]
Unread == [r \in Resources |-> "unread"]
Sights == {"unread", "absent", "differs", "same"}

Init ==
    /\ up \in [Services -> BOOLEAN]
    /\ copies \in [Resources -> {0, 1}] /\ right \in [Resources -> BOOLEAN]
    /\ \A r \in Resources : right[r] => copies[r] = 1
    /\ seeded \in BOOLEAN
    /\ at = "off" /\ opts \in Options /\ deps = FALSE /\ snap = Unread /\ left = {}
    /\ steps = NoSteps /\ failures = FALSE /\ warned = {} /\ drift = FALSE /\ runs = 0

Flip(s) ==
    /\ up' = [up EXCEPT ![s] = ~@]
    /\ UNCHANGED <<world, at, opts, deps, snap, left, steps, failures, warned, drift, runs>>

-----------------------------------------------------------------------------
\* The command reads the live state first, before it knows that anyone is up.
\* A dry run reads nothing, nor does a run without a sync or one whose registry
\* files do not load, which is found out only when the sync is due.

Start(o) ==
    /\ at \in {"off", "done"} /\ runs < MaxRuns
    /\ runs' = runs + 1 /\ opts' = o
    /\ snap' = Unread /\ steps' = NoSteps
    /\ failures' = FALSE /\ warned' = {} /\ drift' = FALSE
    /\ deps' \in (IF o.skipSync THEN {FALSE} ELSE BOOLEAN)
    /\ IF o.dryRun \/ ~deps'
       THEN at' = "validate" /\ left' = {}
       ELSE at' = "fetch" /\ left' = Services
    /\ UNCHANGED <<up, world>>

\* Of several copies the list shows the plan only the last, and the plan compares
\* more fields than Verify reads back.
Seen(r) ==
    IF copies[r] = 0 THEN {"absent"}
    ELSE {"differs"} \union (IF right[r] THEN {"same"} ELSE {})

\* A service that does not answer leaves its part of the live state empty, which
\* the plan takes for a service without resources.
Fetch(s) ==
    /\ at = "fetch" /\ s \in left
    /\ left' = left \ {s}
    /\ at' = IF left = {s} THEN "validate" ELSE at
    /\ \/ /\ up[s]
          /\ snap' \in [Resources -> Sights]
          /\ \A r \in Resources : snap'[r] \in IF Home[r] = s THEN Seen(r) ELSE {snap[r]}
       \/ UNCHANGED snap
    /\ UNCHANGED <<up, world, opts, deps, steps, failures, warned, drift, runs>>

-----------------------------------------------------------------------------
\* Run. A failed step ends the run, except the last.

Report(step, status) == steps' = [steps EXCEPT ![step] = status]

AfterSeed == IF opts.skipSync THEN "verify" ELSE "sync"

Validate ==
    /\ at = "validate"
    /\ \E status \in {"ok", "failed"} :
        /\ Report("validate", status)
        /\ at' = IF status = "failed" THEN "done" ELSE "wait"
    /\ left' = Services
    /\ UNCHANGED <<up, world, opts, deps, snap, failures, warned, drift, runs>>

\* WaitForServices: one round of CheckAllHealth asks every service, each at a
\* moment of its own, and an unhealthy one means another round, until the
\* timeout ends the step.
WaitSkipped ==
    /\ at = "wait" /\ opts.dryRun
    /\ Report("wait", "skipped") /\ at' = "seed"
    /\ UNCHANGED <<up, world, opts, deps, snap, left, failures, warned, drift, runs>>

WaitProbe(s) ==
    /\ at = "wait" /\ ~opts.dryRun /\ s \in left
    /\ left' = IF up[s] THEN left \ {s} ELSE Services
    /\ UNCHANGED <<up, world, at, opts, deps, snap, steps, failures, warned, drift, runs>>

WaitOver ==
    /\ at = "wait" /\ ~opts.dryRun /\ left = {}
    /\ Report("wait", "ok") /\ at' = "seed"
    /\ UNCHANGED <<up, world, opts, deps, snap, left, failures, warned, drift, runs>>

\* Wrong: the wait has no deadline.
WaitsForever == FALSE

WaitTimeout ==
    /\ at = "wait" /\ ~opts.dryRun /\ left # {}
    /\ Report("wait", "failed") /\ at' = "done"
    /\ UNCHANGED <<up, world, opts, deps, snap, left, failures, warned, drift, runs>>

\* Wrong: the dry-run flag is not looked at.
SeedsWhenDry == opts.skipSeed

SeedIsSkipped == opts.skipSeed \/ opts.dryRun

\* SeedAdmin: an account that exists is skipped, any other answer is ok, that of
\* a New-API that refuses the password included; a request without an answer
\* fails the step, whether it arrived or not.
SeedAdmin ==
    /\ at = "seed"
    /\ left' = Resources
    /\ \/ /\ SeedIsSkipped
          /\ Report("seed", "skipped") /\ at' = AfterSeed /\ UNCHANGED seeded
       \/ /\ ~SeedIsSkipped /\ up["new-api"]
          /\ Report("seed", IF seeded THEN "skipped" ELSE "ok")
          /\ at' = AfterSeed /\ seeded' \in {seeded, TRUE}
       \/ /\ ~SeedIsSkipped
          /\ Report("seed", "failed") /\ at' = "done"
          /\ seeded' \in {seeded, seeded \/ up["new-api"]}
    /\ UNCHANGED <<up, copies, right, opts, deps, snap, failures, warned, drift, runs>>

\* RunSync: what the snapshot calls for, written to the service of today.

IsCreate(r) == snap[r] \in {"unread", "absent"}

Write(r) ==
    /\ copies' = [copies EXCEPT ![r] = IF IsCreate(r) THEN @ + 1 ELSE @]
    /\ right' = [right EXCEPT ![r] = TRUE]

\* Verify can call an ignored write ok: an update when the fields it reads back
\* were right before, a create when a channel of the name is there after all, or
\* another one bears the registry key, which is what it looks for.
PassesUndone(r) ==
    IF IsCreate(r) THEN copies[r] > 0 \/ r \in Mistakable ELSE right[r]

Warn(r) == warned' = warned \union {r}

\* One action: nothing to do; done and found so, or not (the key is not the name,
\* the read-back fails); answered with a success without being done, since a
\* refusal in a 200 is not read; failed, done or not.
SyncOne(r) ==
    /\ at = "sync" /\ deps /\ ~opts.dryRun /\ r \in left
    /\ left' = left \ {r}
    /\ \/ /\ snap[r] = "same"
          /\ UNCHANGED <<copies, right, failures, warned>>
       \/ /\ snap[r] # "same" /\ up[Home[r]] /\ copies[r] < MaxCopies
          /\ Write(r)
          /\ \/ UNCHANGED <<failures, warned>>
             \/ Warn(r) /\ UNCHANGED failures
             \/ failures' = TRUE /\ UNCHANGED warned
       \/ /\ snap[r] # "same" /\ up[Home[r]]
          /\ Warn(r) \/ (PassesUndone(r) /\ UNCHANGED warned)
          /\ UNCHANGED <<copies, right, failures>>
       \/ /\ snap[r] # "same"
          /\ failures' = TRUE
          /\ UNCHANGED <<copies, right, warned>>
    /\ UNCHANGED <<up, seeded, at, opts, deps, snap, steps, drift, runs>>

\* A dry run hands the reconcilers a live state without entries, and each plan
\* fails for want of one.
DryPlansFail ==
    /\ at = "sync" /\ deps /\ opts.dryRun /\ ~failures
    /\ failures' = TRUE /\ left' = {}
    /\ UNCHANGED <<up, world, at, opts, deps, snap, steps, warned, drift, runs>>

\* Wrong: failed actions are left for the verification to find.
SyncAlwaysOk == "ok"

\* Wrong: a sync that failed in part has a status of its own.
SyncPartial == IF failures THEN "partial" ELSE "ok"

SyncStatus == IF failures \/ ~deps THEN "failed" ELSE "ok"

SyncOver ==
    /\ at = "sync"
    /\ deps => left = {} /\ (opts.dryRun => failures)
    /\ Report("sync", SyncStatus)
    /\ at' = IF SyncStatus = "failed" THEN "done" ELSE "verify"
    /\ left' = Services
    /\ UNCHANGED <<up, world, opts, deps, snap, failures, warned, drift, runs>>

\* VerifyHealth: every service once more, then a dry run of the sync against
\* the live state of the start.
VerifySkipped ==
    /\ at = "verify" /\ (opts.skipSync \/ opts.dryRun)
    /\ steps' = [steps EXCEPT !["verify"] = "skipped",
                              !["sync"] = IF opts.skipSync THEN "skipped" ELSE @]
    /\ at' = "done"
    /\ UNCHANGED <<up, world, opts, deps, snap, left, failures, warned, drift, runs>>

VerifyProbe(s) ==
    /\ at = "verify" /\ ~opts.skipSync /\ ~opts.dryRun /\ s \in left
    /\ IF up[s] THEN left' = left \ {s} /\ UNCHANGED <<steps, at>>
                ELSE Report("verify", "failed") /\ at' = "done" /\ UNCHANGED left
    /\ UNCHANGED <<up, world, opts, deps, snap, failures, warned, drift, runs>>

\* A missing resource blocks; a channel that differs gives a diff without field
\* names, which is a warning.
Severity(seen) == CASE seen \in {"unread", "absent"} -> "blocking"
                    [] seen = "differs" -> "warning"
                    [] OTHER -> "none"

BlockingDrift == \E r \in Resources : Severity(snap[r]) = "blocking"

VerifyDrift ==
    /\ at = "verify" /\ ~opts.skipSync /\ ~opts.dryRun /\ left = {}
    /\ drift' = BlockingDrift
    /\ Report("verify", IF BlockingDrift THEN "failed" ELSE "ok") /\ at' = "done"
    /\ UNCHANGED <<up, world, opts, deps, snap, left, failures, warned, runs>>

\* The operator interrupts the command: no report, no audit entry.
Interrupt ==
    /\ at \notin {"off", "done"}
    /\ at' = "off" /\ left' = {}
    /\ UNCHANGED <<up, world, opts, deps, snap, steps, failures, warned, drift, runs>>

RunStep ==
    \/ \E s \in Services : Fetch(s) \/ WaitProbe(s) \/ VerifyProbe(s)
    \/ Validate \/ WaitSkipped \/ WaitOver \/ SeedAdmin
    \/ \E r \in Resources : SyncOne(r)
    \/ DryPlansFail \/ SyncOver \/ VerifySkipped \/ VerifyDrift

Next ==
    \/ \E s \in Services : Flip(s)
    \/ \E o \in Options : Start(o)
    \/ RunStep \/ WaitTimeout \/ Interrupt

Spec == Init /\ [][Next]_vars

\* A run goes on (its HTTP client and its context have timeouts).
FairSpec == Spec /\ WF_vars(RunStep) /\ WF_vars(WaitTimeout)

-----------------------------------------------------------------------------
\* Every variable has the values the code gives it.
TypeOK ==
    /\ up \in [Services -> BOOLEAN]
    /\ copies \in [Resources -> 0 .. MaxCopies] /\ right \in [Resources -> BOOLEAN]
    /\ seeded \in BOOLEAN
    /\ at \in {"off", "fetch", "done"} \union Steps
    /\ opts \in Options /\ deps \in BOOLEAN
    /\ snap \in [Resources -> Sights]
    /\ left \subseteq Services \/ left \subseteq Resources
    /\ steps \in [Steps -> Statuses]
    /\ failures \in BOOLEAN /\ warned \subseteq Resources /\ drift \in BOOLEAN
    /\ runs \in 0 .. MaxRuns

\* When the sync step is ok (RunSync), each resource without a drift warning is
\* there, with what Verify reads back as the registry has it - whatever interrupted
\* runs left half done, although the plan is from before the services were awaited,
\* although writes may be answered with a success and not be done.  Two creates may
\* pass undone: that of a resource whose list failed but which was there, and stays
\* as it was, and that of one whose key is another channel's name.  Warnings do not
\* make the step fail: the resources they are about may be missing.
SyncedMeansConfigured ==
    at = "done" /\ steps["sync"] = "ok" =>
        \A r \in Resources \ warned :
            \/ copies[r] > 0 /\ (right[r] \/ snap[r] = "unread")
            \/ r \in Mistakable /\ IsCreate(r)

\* bootstrap.go:477 (Run): validate -> wait -> seed -> sync -> verify. Nothing is
\* written before every service has answered, no resource before the seed step is
\* over without an error - it was skipped, or New-API answered, if only to refuse the
\* account, which is an ok step - and a dry run writes nothing at all.
WritesOnlyWhenReady ==
    [][world' # world =>
        /\ ~opts.dryRun /\ steps["wait"] = "ok"
        /\ <<copies, right>>' # <<copies, right>> => steps["seed"] \in {"ok", "skipped"}]_vars

\* A run ends although services may never come up (WaitForServices' timeout).
RunEnds == at \notin {"off", "done"} ~> at \in {"off", "done"}

=============================================================================
