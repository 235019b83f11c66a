-------------------------- MODULE SyncOrchestrator --------------------------
(***************************************************************************)
(* `starapihub sync' as a process: SyncOrchestrator.Run walks a list of    *)
(* reconcilers in dependency order and, for each, plans, applies and       *)
(* verifies its actions one at a time, keeping a SyncReport; the command   *)
(* then turns the report into an exit code.                                *)
(*                                                                         *)
(* A reconciler is known here only by what its Plan, Apply and Verify      *)
(* return, so a plan is the number of actions in it.  Modules that model a *)
(* reconciler (ChannelSync) EXTEND this one and conjoin their own effects  *)
(* to the actions below.                                                   *)
(***************************************************************************)
EXTENDS Naturals, Sequences, FiniteSets

CONSTANTS
  Runs,      \* processes running the command (operator shells, CI jobs)
  Order,     \* the reconcilers buildReconcilers returns, in dependency order
  Options,   \* the command lines tried: [dryRun, failFast, prune, targets]
  MaxPlan    \* bound: the most actions one Plan returns

Option == [dryRun : BOOLEAN, failFast : BOOLEAN, prune : BOOLEAN,
           targets : SUBSET STRING]

ASSUME OrchestratorAssumption ==
  /\ Order \in Seq(STRING)
  /\ MaxPlan \in Nat
  /\ \A o \in Options : /\ o.dryRun \in BOOLEAN
                        /\ o.failFast \in BOOLEAN
                        /\ o.prune \in BOOLEAN

VARIABLES
  opts,      \* opts[r]: the SyncOptions of run r
  phase,     \* phase[r]: where run r is
  left,      \* left[r]: positions in Order of the reconcilers not yet planned
  cur,       \* cur[r]: position of the reconciler being run, 0 before the first
  pending,   \* pending[r]: actions of that reconciler not yet dealt with
  report,    \* report[r]: the counters of the SyncReport
  results,   \* results[r]: the SyncReport's Results, as (reconciler, status)
  exit       \* exit[r]: the exit code the process returned, NoExit while it has none

orchVars == <<opts, phase, left, cur, pending, report, results, exit>>

Position == 1 .. Len(Order)
Status == {"ok", "applied-with-drift", "unverified", "failed", "skipped"}
Verdict == {"ok", "applied-with-drift", "unverified"}
Phase == {"idle", "plan", "apply", "verify", "done", "exited", "crashed"}
NoExit == 3   \* any number that is not an exit code

EmptyReport ==
  [total |-> 0, succeeded |-> 0, failed |-> 0, driftWarnings |-> 0, skipped |-> 0]

Running(r) == phase[r] \in {"plan", "apply", "verify", "done"}

\* NewSyncOrchestrator: an empty target list selects every reconciler.
Selected(o) == {i \in Position : o.targets = {} \/ Order[i] \in o.targets}

OrchInit ==
  /\ opts \in [Runs -> Options]
  /\ phase = [r \in Runs |-> "idle"]
  /\ left = [r \in Runs |-> {}]
  /\ cur = [r \in Runs |-> 0]
  /\ pending = [r \in Runs |-> 0]
  /\ report = [r \in Runs |-> EmptyReport]
  /\ results = [r \in Runs |-> <<>>]
  /\ exit = [r \in Runs |-> NoExit]

-----------------------------------------------------------------------------
\* The process starts: flags are parsed, live state is fetched once, and the
\* orchestrator is built.
Start(r, o) ==
  /\ phase[r] \in {"idle", "exited", "crashed"}
  /\ opts' = [opts EXCEPT ![r] = o]
  /\ phase' = [phase EXCEPT ![r] = "plan"]
  /\ left' = [left EXCEPT ![r] = Selected(o)]
  /\ cur' = [cur EXCEPT ![r] = 0]
  /\ pending' = [pending EXCEPT ![r] = 0]
  /\ report' = [report EXCEPT ![r] = EmptyReport]
  /\ results' = [results EXCEPT ![r] = <<>>]
  /\ exit' = [exit EXCEPT ![r] = NoExit]

\* Operators whose comment begins with "Wrong:" are mistakes made on purpose, to
\* show that the properties at the end notice them; nothing else uses them.

\* Wrong: reconcilers taken in any order.
TakeAny(r) ==
  /\ phase[r] = "plan"
  /\ \E i \in left[r] : /\ cur' = [cur EXCEPT ![r] = i]
                        /\ left' = [left EXCEPT ![r] = @ \ {i}]

\* The loop takes the first reconciler not yet run.
TakeNext(r) ==
  /\ phase[r] = "plan"
  /\ \E i \in left[r] :
       /\ \A j \in left[r] : i =< j
       /\ cur' = [cur EXCEPT ![r] = i]
       /\ left' = [left EXCEPT ![r] = @ \ {i}]

\* Wrong: --fail-fast forgotten.
NeverFailFast(r, next) == next

\* Where the loop goes after a failed result: FailFast returns the report.
AfterFailure(r, next) == IF opts[r].failFast THEN "done" ELSE next

AddResults(r, n, s) ==
  results' = [results EXCEPT
                ![r] = @ \o [k \in 1 .. n |-> [rec |-> cur'[r], status |-> s]]]

\* Plan returned an error.
PlanFails(r) ==
  /\ TakeNext(r)
  /\ report' = [report EXCEPT ![r].total = @ + 1, ![r].failed = @ + 1]
  /\ AddResults(r, 1, "failed")
  /\ phase' = [phase EXCEPT ![r] = AfterFailure(r, "plan")]
  /\ UNCHANGED <<opts, pending, exit>>

\* Plan returned n actions: none at all, a dry run that records them as
\* skipped, or a list to work through.
PlanReturns(r, n) ==
  /\ TakeNext(r)
  /\ \/ /\ n = 0
        /\ UNCHANGED <<phase, pending, report, results>>
     \/ /\ n > 0 /\ opts[r].dryRun
        /\ report' = [report EXCEPT ![r].total = @ + n, ![r].skipped = @ + n]
        /\ AddResults(r, n, "skipped")
        /\ UNCHANGED <<phase, pending>>
     \/ /\ n > 0 /\ ~opts[r].dryRun
        /\ pending' = [pending EXCEPT ![r] = n]
        /\ phase' = [phase EXCEPT ![r] = "apply"]
        /\ UNCHANGED <<report, results>>
  /\ UNCHANGED <<opts, exit>>

\* Wrong: the end of the plan is missed.
NeverLastAction(r) == "apply"

\* The loop over actions moves on, or ends and the next reconciler is planned.
NextAction(r) == IF pending[r] = 1 THEN "plan" ELSE "apply"

\* Apply returned an error or a result with StatusFailed.
ApplyFails(r) ==
  /\ phase[r] = "apply"
  /\ report' = [report EXCEPT ![r].total = @ + 1, ![r].failed = @ + 1]
  /\ pending' = [pending EXCEPT ![r] = @ - 1]
  /\ phase' = [phase EXCEPT ![r] = AfterFailure(r, NextAction(r))]
  /\ UNCHANGED <<opts, left, cur, exit>>
  /\ AddResults(r, 1, "failed")

\* Apply returned a result that did not fail; the action is counted already.
ApplySucceeds(r) ==
  /\ phase[r] = "apply"
  /\ report' = [report EXCEPT ![r].total = @ + 1]
  /\ phase' = [phase EXCEPT ![r] = "verify"]
  /\ UNCHANGED <<opts, left, cur, pending, results, exit>>

\* Wrong: drift found by Verify counts as success.
TallyForgiving(rep, s) ==
  IF s \in {"failed", "skipped"} THEN [rep EXCEPT !.failed = @ + 1]
                                 ELSE [rep EXCEPT !.succeeded = @ + 1]

\* The switch on result.Status; a result left unverified counts as drift.
Tally(rep, s) ==
  CASE s = "ok"                                  -> [rep EXCEPT !.succeeded = @ + 1]
    [] s \in {"applied-with-drift", "unverified"} -> [rep EXCEPT !.driftWarnings = @ + 1]
    [] s = "failed"                              -> [rep EXCEPT !.failed = @ + 1]
    [] s = "skipped"                             -> [rep EXCEPT !.skipped = @ + 1]

\* Verify left the result with status s.
VerifyReturns(r, s) ==
  /\ phase[r] = "verify"
  /\ report' = [report EXCEPT ![r] = Tally(@, s)]
  /\ pending' = [pending EXCEPT ![r] = @ - 1]
  /\ phase' = [phase EXCEPT ![r] = NextAction(r)]
  /\ UNCHANGED <<opts, left, cur, exit>>
  /\ AddResults(r, 1, s)

\* Every selected reconciler has been run.
Return(r) ==
  /\ phase[r] = "plan"
  /\ left[r] = {}
  /\ phase' = [phase EXCEPT ![r] = "done"]
  /\ UNCHANGED <<opts, left, cur, pending, report, results, exit>>


\* Wrong: a partial success exits with 0.
ExitUnlessAllFailed(rep) == IF rep.failed > 0 /\ rep.failed = rep.total THEN 2 ELSE 0

\* What the process really returns: the command returns a plain error when
\* something failed, and main exits with 2 for any error but an ExitError.
ProcessExit(rep) == IF rep.failed > 0 THEN 2 ELSE 0

Exit(r) ==
  /\ phase[r] = "done"
  /\ exit' = [exit EXCEPT ![r] = ProcessExit(report[r])]
  /\ phase' = [phase EXCEPT ![r] = "exited"]
  /\ UNCHANGED <<opts, left, cur, pending, report, results>>

\* The process is killed or panics; its report dies with it.
Crash(r) ==
  /\ Running(r)
  /\ phase' = [phase EXCEPT ![r] = "crashed"]
  /\ UNCHANGED <<opts, left, cur, pending, report, results, exit>>

\* A step of the command that does not depend on anyone's goodwill.
OrchStep(r) ==
  \/ PlanFails(r)
  \/ \E n \in 0 .. MaxPlan : PlanReturns(r, n)
  \/ ApplyFails(r)
  \/ ApplySucceeds(r)
  \/ \E s \in Verdict : VerifyReturns(r, s)
  \/ Return(r)
  \/ Exit(r)

OrchNext ==
  \E r \in Runs : \/ \E o \in Options : Start(r, o)
                  \/ OrchStep(r)
                  \/ Crash(r)

\* Safety only; fairness of OrchStep is stated by the modules that extend this one.
OrchSafety == OrchInit /\ [][OrchNext]_orchVars

-----------------------------------------------------------------------------
\* Type invariant.
Result == [rec : Position, status : Status]
Report == [total : Nat, succeeded : Nat, failed : Nat, driftWarnings : Nat,
           skipped : Nat]

OrchTypeOK ==
  /\ opts \in [Runs -> Options]
  /\ phase \in [Runs -> Phase]
  /\ left \in [Runs -> SUBSET Position]
  /\ cur \in [Runs -> 0 .. Len(Order)]
  /\ pending \in [Runs -> Nat]
  /\ report \in [Runs -> Report]
  /\ results \in [Runs -> Seq(Result)]
  /\ exit \in [Runs -> {0, 1, 2, NoExit}]

\* Actions counted but still without a result: the one being verified.
InFlight(r) == IF phase[r] = "verify" THEN 1 ELSE 0

\* The report adds up: on every path through Run (plan errors, dry runs,
\* fail-fast returns, failed and verified actions) the total is the sum of the
\* outcome counters, give or take the one action being verified, and there is
\* one result for each outcome.
ReportAddsUp ==
  \A r \in Runs : phase[r] # "crashed" =>
    LET rep == report[r]
        tallied == rep.succeeded + rep.failed + rep.driftWarnings + rep.skipped
    IN  /\ rep.total = tallied + InFlight(r)
        /\ Len(results[r]) = tallied

\* Counters and results agree status by status, so the summary line printed
\* from the counters never contradicts the table printed from the results.
CountersMatchResults ==
  \A r \in Runs :
    LET N(S) == Cardinality({k \in DOMAIN results[r] : results[r][k].status \in S})
    IN  /\ report[r].succeeded = N({"ok"})
        /\ report[r].failed = N({"failed"})
        /\ report[r].driftWarnings = N({"applied-with-drift", "unverified"})
        /\ report[r].skipped = N({"skipped"})

\* Fail-fast: a run with --fail-fast records at most one failure, it is the
\* last thing the run records, and nothing is planned or applied after it.
FailFastStops ==
  \A r \in Runs : opts[r].failFast /\ report[r].failed > 0 =>
    /\ phase[r] \in {"done", "exited", "crashed"}
    /\ report[r].failed = 1
    /\ results[r][Len(results[r])].status = "failed"

\* Dependency order: results come in the order of buildReconcilers, only for
\* selected reconcilers, and whatever is still to be planned comes later.
DependencyOrder ==
  \A r \in Runs :
    /\ \A k \in DOMAIN results[r] : /\ results[r][k].rec \in Selected(opts[r])
                                    /\ results[r][k].rec =< cur[r]
    /\ \A k \in DOMAIN results[r] : \A m \in DOMAIN results[r] :
         k < m => results[r][k].rec =< results[r][m].rec
    /\ \A i \in left[r] : cur[r] < i

\* Exit status 0 is a promise to scripts: every selected reconciler was run and
\* no result, of whichever reconciler, is a failure.
ZeroExitMeansNoFailure ==
  \A r \in Runs : exit[r] = 0 =>
    /\ left[r] = {}
    /\ \A k \in DOMAIN results[r] : results[r][k].status # "failed"

\* A dry run never gets as far as applying or verifying anything, and all it
\* records is skipped actions and plan errors.
DryRunOnlyPlans ==
  \A r \in Runs : opts[r].dryRun =>
    /\ phase[r] \notin {"apply", "verify"}
    /\ \A k \in DOMAIN results[r] : results[r][k].status \in {"skipped", "failed"}

\* Inductive invariant behind the properties above: what must be known of a run
\* in the middle of its loops for them to hold at the end.
LoopInv(r) ==
  /\ phase[r] \in {"apply", "verify"} =>
       pending[r] > 0 /\ cur[r] \in Selected(opts[r]) /\ ~opts[r].dryRun
  /\ left[r] \subseteq Selected(opts[r])
  /\ phase[r] \in {"done", "exited"} => left[r] = {} \/ report[r].failed > 0
  /\ report[r].failed = 0 =>
       \A k \in DOMAIN results[r] : results[r][k].status # "failed"
  /\ exit[r] # NoExit => phase[r] = "exited" /\ exit[r] = ProcessExit(report[r])

OrchIInv ==
  /\ OrchTypeOK
  /\ \A r \in Runs : LoopInv(r)
  /\ ReportAddsUp
  /\ FailFastStops
  /\ DependencyOrder
  /\ DryRunOnlyPlans

=============================================================================
