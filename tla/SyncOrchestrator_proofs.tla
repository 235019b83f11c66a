---------------------- MODULE SyncOrchestrator_proofs ----------------------
(***************************************************************************)
(* The orchestrator's safety properties for every number of runs, every    *)
(* list of reconcilers, every set of command lines and plans of any        *)
(* length.  AnyStep is a step of one run with a plan of any length, so     *)
(* that modules whose plans are not bounded by MaxPlan can cite the same   *)
(* lemma.                                                                  *)
(***************************************************************************)
EXTENDS SyncOrchestrator, SequencesExt, SequenceTheorems, FiniteSetTheorems, TLAPS

AnyStep(r) ==
  \/ \E o \in Options : Start(r, o)
  \/ PlanFails(r)
  \/ \E n \in Nat : PlanReturns(r, n)
  \/ ApplyFails(r)
  \/ ApplySucceeds(r)
  \/ \E s \in Verdict : VerifyReturns(r, s)
  \/ Return(r)
  \/ Exit(r)
  \/ Crash(r)

\* The invariant of one run: the conjuncts of OrchIInv at r.
SumInv(r) ==
  phase[r] # "crashed" =>
    /\ report[r].total = report[r].succeeded + report[r].failed
                           + report[r].driftWarnings + report[r].skipped + InFlight(r)
    /\ Len(results[r]) = report[r].succeeded + report[r].failed
                           + report[r].driftWarnings + report[r].skipped

FailFastInv(r) ==
  opts[r].failFast /\ report[r].failed > 0 =>
    /\ phase[r] \in {"done", "exited", "crashed"}
    /\ report[r].failed = 1
    /\ results[r][Len(results[r])].status = "failed"

OrderInv(r) ==
  /\ \A k \in DOMAIN results[r] : /\ results[r][k].rec \in Selected(opts[r])
                                  /\ results[r][k].rec =< cur[r]
  /\ \A k \in DOMAIN results[r] : \A m \in DOMAIN results[r] :
       k < m => results[r][k].rec =< results[r][m].rec
  /\ \A i \in left[r] : cur[r] < i

DryInv(r) ==
  opts[r].dryRun =>
    /\ phase[r] \notin {"apply", "verify"}
    /\ \A k \in DOMAIN results[r] : results[r][k].status \in {"skipped", "failed"}

RunInv(r) == LoopInv(r) /\ SumInv(r) /\ FailFastInv(r) /\ OrderInv(r) /\ DryInv(r)

AllRunsInv == OrchTypeOK /\ \A r \in Runs : RunInv(r)

LEMMA SplitByRun == OrchIInv <=> AllRunsInv
<1>1. ReportAddsUp <=> \A r \in Runs : SumInv(r)
  BY DEF ReportAddsUp, SumInv
<1>2. FailFastStops <=> \A r \in Runs : FailFastInv(r)
  BY DEF FailFastStops, FailFastInv
<1>3. DependencyOrder <=> \A r \in Runs : OrderInv(r)
  BY DEF DependencyOrder, OrderInv
<1>4. DryRunOnlyPlans <=> \A r \in Runs : DryInv(r)
  BY DEF DryRunOnlyPlans, DryInv
<1>5. QED
  BY <1>1, <1>2, <1>3, <1>4 DEF OrchIInv, RunInv, AllRunsInv

\* Appending n equal results.
LEMMA AppendCopies ==
  ASSUME NEW S, NEW s \in Seq(S), NEW n \in Nat, NEW e \in S
  PROVE  LET t == s \o [k \in 1 .. n |-> e]
         IN  /\ t \in Seq(S)
             /\ Len(t) = Len(s) + n
             /\ DOMAIN t = 1 .. (Len(s) + n)
             /\ \A i \in 1 .. (Len(s) + n) : t[i] = IF i =< Len(s) THEN s[i] ELSE e
<1> DEFINE c == [k \in 1 .. n |-> e]
<1>1. c \in Seq(S) /\ Len(c) = n
  BY IsASeq
<1>2. \A i \in 1 .. n : c[i] = e
  OBVIOUS
<1> HIDE DEF c
<1>3. /\ s \o c \in Seq(S)
      /\ Len(s \o c) = Len(s) + n
      /\ \A i \in 1 .. (Len(s) + n) : (s \o c)[i] = IF i =< Len(s) THEN s[i] ELSE c[i - Len(s)]
  BY <1>1, ConcatProperties
<1>4. DOMAIN (s \o c) = 1 .. (Len(s) + n)
  BY <1>3, LenProperties
<1>5. \A i \in 1 .. (Len(s) + n) : (s \o c)[i] = IF i =< Len(s) THEN s[i] ELSE e
  <2> TAKE i \in 1 .. (Len(s) + n)
  <2>1. Len(s) \in Nat
    BY LenProperties
  <2>2. CASE i =< Len(s)
    BY <2>2, <1>3
  <2>3. CASE ~(i =< Len(s))
    <3>1. i - Len(s) \in 1 .. n
      BY <2>1, <2>3
    <3>2. QED
      BY <3>1, <2>3, <1>2, <1>3
  <2>4. QED
    BY <2>2, <2>3
<1>6. QED
  BY <1>3, <1>4, <1>5 DEF c

-----------------------------------------------------------------------------
\* A step of run r leaves the other runs alone.
Same(s) ==
  /\ opts'[s] = opts[s] /\ phase'[s] = phase[s] /\ left'[s] = left[s]
  /\ cur'[s] = cur[s] /\ pending'[s] = pending[s] /\ report'[s] = report[s]
  /\ results'[s] = results[s] /\ exit'[s] = exit[s]

LEMMA LenOrder == OrchestratorAssumption => Len(Order) \in Nat
BY LenProperties DEF OrchestratorAssumption

LEMMA StartKeeps ==
  ASSUME OrchestratorAssumption, OrchTypeOK, NEW r \in Runs, NEW o \in Options,
         RunInv(r), Start(r, o)
  PROVE  OrchTypeOK' /\ RunInv(r)' /\ \A s \in Runs \ {r} : Same(s)
<1>1. Len(Order) \in Nat
  BY LenOrder
<1>2. OrchTypeOK'
  <2>1. /\ EmptyReport \in Report /\ <<>> \in Seq(Result) /\ "plan" \in Phase
        /\ Selected(o) \in SUBSET Position /\ 0 \in 0 .. Len(Order)
    BY <1>1, EmptySeq DEF EmptyReport, Report, Phase, Selected
  <2>2. QED
    BY <2>1 DEF OrchTypeOK, Start
<1>3. RunInv(r)'
  <2>1. /\ phase'[r] = "plan" /\ left'[r] = Selected(o) /\ opts'[r] = o
        /\ cur'[r] = 0 /\ report'[r] = EmptyReport /\ results'[r] = <<>>
        /\ exit'[r] = NoExit
    BY DEF Start, OrchTypeOK
  <2>2. \A i \in Selected(o) : 0 < i
    BY <1>1 DEF Selected, Position
  <2>3. QED
    BY <2>1, <2>2 DEF RunInv, LoopInv, SumInv, FailFastInv, OrderInv, DryInv, InFlight, EmptyReport
<1>4. \A s \in Runs \ {r} : Same(s)
  BY DEF OrchTypeOK, Start, Same
<1>5. QED
  BY <1>2, <1>3, <1>4

\* What AddResults does to the results of r and of the other runs.
LEMMA AddResultsFacts ==
  ASSUME OrchTypeOK, NEW r \in Runs, NEW n \in Nat, NEW s \in Status,
         cur'[r] \in Position, AddResults(r, n, s)
  PROVE  /\ results' \in [Runs -> Seq(Result)]
         /\ Len(results[r]) \in Nat /\ DOMAIN results[r] = 1 .. Len(results[r])
         /\ Len(results'[r]) = Len(results[r]) + n
         /\ DOMAIN results'[r] = 1 .. (Len(results[r]) + n)
         /\ \A k \in 1 .. (Len(results[r]) + n) :
              results'[r][k] = IF k =< Len(results[r]) THEN results[r][k]
                               ELSE [rec |-> cur'[r], status |-> s]
         /\ \A q \in Runs \ {r} : results'[q] = results[q]
<1> DEFINE e == [rec |-> cur'[r], status |-> s]
           t == results[r] \o [k \in 1 .. n |-> e]
<1>1. e \in Result /\ results[r] \in Seq(Result)
  BY DEF OrchTypeOK, Result
<1>2. results' = [results EXCEPT ![r] = t]
  BY DEF AddResults
<1>3. results'[r] = t /\ \A q \in Runs \ {r} : results'[q] = results[q]
  BY <1>2 DEF OrchTypeOK
<1> HIDE DEF e
<1>4. /\ t \in Seq(Result) /\ Len(t) = Len(results[r]) + n
      /\ DOMAIN t = 1 .. (Len(results[r]) + n)
      /\ \A k \in 1 .. (Len(results[r]) + n) : t[k] = IF k =< Len(results[r]) THEN results[r][k] ELSE e
  BY <1>1, AppendCopies
<1>5. Len(results[r]) \in Nat /\ DOMAIN results[r] = 1 .. Len(results[r])
  BY <1>1, LenProperties
<1> HIDE DEF t
<1>6. results' \in [Runs -> Seq(Result)]
  BY <1>2, <1>4 DEF OrchTypeOK
<1>7. QED
  BY <1>3, <1>4, <1>5, <1>6 DEF e

\* What appending n results of status s to run r's keeps of RunInv, when the run
\* has moved to a selected reconciler that does not come before the one it was on.
LEMMA ResultsGrow ==
  ASSUME OrchestratorAssumption, OrchTypeOK, NEW r \in Runs, NEW n \in Nat, NEW s \in Status,
         OrderInv(r), opts' = opts, AddResults(r, n, s),
         cur'[r] \in Selected(opts[r]), cur[r] =< cur'[r],
         \A i \in left'[r] : cur'[r] < i
  PROVE  /\ results' \in [Runs -> Seq(Result)]
         /\ OrderInv(r)'
         /\ Len(results[r]) \in Nat
         /\ Len(results'[r]) = Len(results[r]) + n
         /\ n > 0 => results'[r][Len(results'[r])].status = s
         /\ \A S : s \in S /\ (\A k \in DOMAIN results[r] : results[r][k].status \in S)
              => \A k \in DOMAIN results'[r] : results'[r][k].status \in S
         /\ \A q \in Runs \ {r} : results'[q] = results[q]
<1>1. Len(Order) \in Nat /\ cur'[r] \in Position /\ cur[r] \in Nat /\ cur'[r] \in Nat
  BY LenOrder DEF Selected, Position, OrchTypeOK
<1>2. /\ results' \in [Runs -> Seq(Result)]
      /\ Len(results[r]) \in Nat /\ DOMAIN results[r] = 1 .. Len(results[r])
      /\ Len(results'[r]) = Len(results[r]) + n
      /\ DOMAIN results'[r] = 1 .. (Len(results[r]) + n)
      /\ \A k \in 1 .. (Len(results[r]) + n) :
           results'[r][k] = IF k =< Len(results[r]) THEN results[r][k]
                            ELSE [rec |-> cur'[r], status |-> s]
      /\ \A q \in Runs \ {r} : results'[q] = results[q]
  BY <1>1, AddResultsFacts
<1>3. \A k \in DOMAIN results[r] : results[r][k].rec \in Nat /\ results[r][k].status \in Status
  <2>1. results[r] \in Seq(Result)
    BY DEF OrchTypeOK
  <2>2. \A k \in DOMAIN results[r] : results[r][k] \in Result
    BY <2>1, <1>2, ElementOfSeq
  <2>3. \A x \in Result : x.rec \in Position /\ x.status \in Status
    BY DEF Result
  <2>4. QED
    BY <2>2, <2>3, <1>1 DEF Position
<1>4. \A k \in DOMAIN results'[r] :
        \/ k \in DOMAIN results[r] /\ results'[r][k] = results[r][k]
        \/ k > Len(results[r]) /\ results'[r][k].rec = cur'[r] /\ results'[r][k].status = s
  BY <1>2
<1>5. Selected(opts'[r]) = Selected(opts[r]) /\ Selected(opts[r])' = Selected(opts[r])
  BY DEF Selected
<1>6. OrderInv(r)'
  <2>1. \A k \in DOMAIN results'[r] : /\ results'[r][k].rec \in Selected(opts[r])
                                      /\ results'[r][k].rec =< cur'[r]
    BY <1>1, <1>3, <1>4 DEF OrderInv
  <2>2. ASSUME NEW k \in DOMAIN results'[r], NEW m \in DOMAIN results'[r], k < m
        PROVE  results'[r][k].rec =< results'[r][m].rec
    <3>1. CASE m \in DOMAIN results[r]
      <4>1. k \in DOMAIN results[r]
        BY <2>2, <3>1, <1>2
      <4>2. results'[r][k] = results[r][k] /\ results'[r][m] = results[r][m]
        BY <4>1, <3>1, <1>2
      <4>3. QED
        BY <2>2, <3>1, <4>1, <4>2 DEF OrderInv
    <3>2. CASE m \notin DOMAIN results[r]
      BY <3>2, <1>4, <2>1
    <3>3. QED
      BY <3>1, <3>2
  <2>3. QED
    BY <1>5, <2>1, <2>2 DEF OrderInv
<1>7. n > 0 => results'[r][Len(results'[r])].status = s
  <2>1. SUFFICES ASSUME n > 0 PROVE results'[r][Len(results'[r])].status = s
    OBVIOUS
  <2>2. \A k \in 1 .. (Len(results[r]) + n) :
           k > Len(results[r]) => results'[r][k] = [rec |-> cur'[r], status |-> s]
    BY <1>2
  <2>3. /\ Len(results[r]) + n \in 1 .. (Len(results[r]) + n)
        /\ Len(results[r]) + n > Len(results[r])
    BY <1>2, <2>1
  <2>4. results'[r][Len(results[r]) + n] = [rec |-> cur'[r], status |-> s]
    BY <2>2, <2>3
  <2>5. Len(results'[r]) = Len(results[r]) + n
    BY <1>2
  <2>6. QED
    BY <2>4, <2>5
<1>8. ASSUME NEW S, s \in S, \A k \in DOMAIN results[r] : results[r][k].status \in S
      PROVE  \A k \in DOMAIN results'[r] : results'[r][k].status \in S
  BY <1>4, <1>8
<1>9. QED
  BY <1>2, <1>6, <1>7, <1>8

\* The report of run r grows by the given numbers.
Grows(r, t, s, f, d, k) ==
  /\ report'[r].total = report[r].total + t
  /\ report'[r].succeeded = report[r].succeeded + s
  /\ report'[r].failed = report[r].failed + f
  /\ report'[r].driftWarnings = report[r].driftWarnings + d
  /\ report'[r].skipped = report[r].skipped + k

LEMMA ReportFields ==
  \A rep \in Report : /\ rep.total \in Nat /\ rep.succeeded \in Nat /\ rep.failed \in Nat
                     /\ rep.driftWarnings \in Nat /\ rep.skipped \in Nat
BY DEF Report

\* Every update of the report the actions make, counter by counter.
LEMMA ReportGrows ==
  ASSUME report \in [Runs -> Report], NEW r \in Runs, NEW n \in Nat
  PROVE  /\ report' = [report EXCEPT ![r].total = @ + n]
              => report' \in [Runs -> Report] /\ Grows(r, n, 0, 0, 0, 0)
         /\ report' = [report EXCEPT ![r].total = @ + n, ![r].failed = @ + n]
              => report' \in [Runs -> Report] /\ Grows(r, n, 0, n, 0, 0)
         /\ report' = [report EXCEPT ![r].total = @ + n, ![r].skipped = @ + n]
              => report' \in [Runs -> Report] /\ Grows(r, n, 0, 0, 0, n)
         /\ report' = [report EXCEPT ![r] = Tally(@, "ok")]
              => report' \in [Runs -> Report] /\ Grows(r, 0, 1, 0, 0, 0)
         /\ report' = [report EXCEPT ![r] = Tally(@, "applied-with-drift")]
              => report' \in [Runs -> Report] /\ Grows(r, 0, 0, 0, 1, 0)
         /\ report' = [report EXCEPT ![r] = Tally(@, "unverified")]
              => report' \in [Runs -> Report] /\ Grows(r, 0, 0, 0, 1, 0)
<1>1. report[r] \in Report
  OBVIOUS
<1>2. ASSUME NEW rep \in Report, report' = [report EXCEPT ![r] = rep]
      PROVE  report' \in [Runs -> Report] /\ report'[r] = rep
  BY <1>2
<1>3. ASSUME report' = [report EXCEPT ![r].total = @ + n]
      PROVE  report' \in [Runs -> Report] /\ Grows(r, n, 0, 0, 0, 0)
  <2> DEFINE rep == [report[r] EXCEPT !.total = @ + n]
  <2>1. rep \in Report /\ report' = [report EXCEPT ![r] = rep]
    BY <1>1, <1>3 DEF Report
  <2>2. report' \in [Runs -> Report] /\ report'[r] = rep
    BY <2>1, <1>2
  <2>3. QED
    BY <2>2, <1>1 DEF Report, Grows
<1>4. ASSUME report' = [report EXCEPT ![r].total = @ + n, ![r].failed = @ + n]
      PROVE  report' \in [Runs -> Report] /\ Grows(r, n, 0, n, 0, 0)
  <2> DEFINE one == [report[r] EXCEPT !.total = @ + n]
             two == [one EXCEPT !.failed = @ + n]
             mid == [report EXCEPT ![r] = one]
  <2>0. \A q \in Report : [q EXCEPT !.failed = @ + n] \in Report
    BY DEF Report
  <2>1. report' = [mid EXCEPT ![r].failed = @ + n]
    BY <1>4, Zenon
  <2>2. one \in Report /\ mid \in [Runs -> Report] /\ mid[r] = one
    BY <1>1 DEF Report
  <2>3. two \in Report
    BY <2>0, <2>2, Zenon
  <2> HIDE DEF mid
  <2>4. report' = [mid EXCEPT ![r] = two]
    BY <2>1, <2>2
  <2>5. report' \in [Runs -> Report] /\ report'[r] = two
    BY <2>2, <2>3, <2>4
  <2>6. QED
    BY <2>5, <1>1 DEF Report, Grows
<1>5. ASSUME report' = [report EXCEPT ![r].total = @ + n, ![r].skipped = @ + n]
      PROVE  report' \in [Runs -> Report] /\ Grows(r, n, 0, 0, 0, n)
  <2> DEFINE one == [report[r] EXCEPT !.total = @ + n]
             two == [one EXCEPT !.skipped = @ + n]
             mid == [report EXCEPT ![r] = one]
  <2>0. \A q \in Report : [q EXCEPT !.skipped = @ + n] \in Report
    BY DEF Report
  <2>1. report' = [mid EXCEPT ![r].skipped = @ + n]
    BY <1>5, Zenon
  <2>2. one \in Report /\ mid \in [Runs -> Report] /\ mid[r] = one
    BY <1>1 DEF Report
  <2>3. two \in Report
    BY <2>0, <2>2, Zenon
  <2> HIDE DEF mid
  <2>4. report' = [mid EXCEPT ![r] = two]
    BY <2>1, <2>2
  <2>5. report' \in [Runs -> Report] /\ report'[r] = two
    BY <2>2, <2>3, <2>4
  <2>6. QED
    BY <2>5, <1>1 DEF Report, Grows
<1>6. ASSUME report' = [report EXCEPT ![r] = Tally(@, "ok")]
      PROVE  report' \in [Runs -> Report] /\ Grows(r, 0, 1, 0, 0, 0)
  <2>1. Tally(report[r], "ok") = [report[r] EXCEPT !.succeeded = @ + 1]
    BY DEF Tally
  <2>2. [report[r] EXCEPT !.succeeded = @ + 1] \in Report
    BY <1>1 DEF Report
  <2>3. report' \in [Runs -> Report] /\ report'[r] = [report[r] EXCEPT !.succeeded = @ + 1]
    BY <2>1, <2>2, <1>2, <1>6
  <2>4. QED
    BY <2>3, <1>1 DEF Report, Grows
<1>7. ASSUME NEW s \in {"applied-with-drift", "unverified"},
             report' = [report EXCEPT ![r] = Tally(@, s)]
      PROVE  report' \in [Runs -> Report] /\ Grows(r, 0, 0, 0, 1, 0)
  <2>1. Tally(report[r], s) = [report[r] EXCEPT !.driftWarnings = @ + 1]
    BY DEF Tally
  <2>2. [report[r] EXCEPT !.driftWarnings = @ + 1] \in Report
    BY <1>1 DEF Report
  <2>3. report' \in [Runs -> Report] /\ report'[r] = [report[r] EXCEPT !.driftWarnings = @ + 1]
    BY <2>1, <2>2, <1>2, <1>7
  <2>4. QED
    BY <2>3, <1>1 DEF Report, Grows
<1>8. QED
  BY <1>3, <1>4, <1>5, <1>6, <1>7
-----------------------------------------------------------------------------
\* The outcomes a report has counted for run r.
Tallied(r) == report[r].succeeded + report[r].failed
                + report[r].driftWarnings + report[r].skipped

\* In a run that is planning or applying, or verifying and about to record the
\* action in flight, the report still adds up after it grows by n outcomes.
LEMMA GrowsTally ==
  ASSUME report \in [Runs -> Report], NEW r \in Runs, RunInv(r),
         phase[r] \in {"plan", "apply", "verify"},
         NEW t \in Nat, NEW s \in Nat, NEW f \in Nat, NEW d \in Nat, NEW k \in Nat,
         Grows(r, t, s, f, d, k), t + InFlight(r) = s + f + d + k
  PROVE  /\ Tallied(r)' = Tallied(r) + (s + f + d + k)
         /\ report'[r].total = Tallied(r)'
<1>1. /\ report[r].total \in Nat /\ report[r].succeeded \in Nat
      /\ report[r].failed \in Nat /\ report[r].driftWarnings \in Nat
      /\ report[r].skipped \in Nat
  BY ReportFields
<1>2. report[r].total = Tallied(r) + InFlight(r) /\ InFlight(r) \in Nat
  BY DEF RunInv, SumInv, Tallied, InFlight
<1>3. Tallied(r)' = Tallied(r) + (s + f + d + k) /\ Tallied(r) \in Nat
  BY <1>1 DEF Tallied, Grows
<1>4. report'[r].total = report[r].total + t
  BY DEF Grows
<1>5. QED
  BY <1>1, <1>2, <1>3, <1>4

\* A step of run r that records n > 0 outcomes of status s and moves the run to
\* phase p, at reconciler c, with l still to plan and w actions pending: what
\* the four recording actions have in common.
LEMMA RecordKeeps ==
  ASSUME OrchestratorAssumption, OrchTypeOK, NEW r \in Runs, RunInv(r),
         NEW n \in Nat, n > 0, NEW s \in Status, NEW w \in Nat,
         NEW p \in {"plan", "apply", "done"},
         NEW c \in Selected(opts[r]), cur[r] =< c,
         NEW l \in SUBSET left[r], \A i \in l : c < i,
         phase[r] \in {"plan", "apply", "verify"},
         opts' = opts, exit' = exit, AddResults(r, n, s),
         phase' = [phase EXCEPT ![r] = p], cur' = [cur EXCEPT ![r] = c],
         left' = [left EXCEPT ![r] = l], pending' = [pending EXCEPT ![r] = w],
         report' \in [Runs -> Report], \A q \in Runs \ {r} : report'[q] = report[q],
         Tallied(r)' = Tallied(r) + n, report'[r].total = Tallied(r)',
         s = "failed" => n = 1 /\ report'[r].failed = report[r].failed + 1,
         s # "failed" => report'[r].failed = report[r].failed,
         opts[r].failFast /\ s = "failed" => p = "done",
         p = "done" => s = "failed",
         p = "apply" => w > 0 /\ phase[r] # "plan" /\ c = cur[r],
         opts[r].dryRun => s \in {"skipped", "failed"}
  PROVE  OrchTypeOK' /\ RunInv(r)' /\ \A q \in Runs \ {r} : Same(q)
<1>1. /\ Len(Order) \in Nat /\ c \in Position /\ cur'[r] = c /\ left'[r] = l
      /\ phase'[r] = p /\ pending'[r] = w /\ opts'[r] = opts[r] /\ exit'[r] = exit[r]
      /\ Selected(opts[r])' = Selected(opts[r])
  BY LenOrder DEF Selected, OrchTypeOK
<1>2. /\ results' \in [Runs -> Seq(Result)]
      /\ OrderInv(r)'
      /\ Len(results[r]) \in Nat
      /\ Len(results'[r]) = Len(results[r]) + n
      /\ results'[r][Len(results'[r])].status = s
      /\ \A S : s \in S /\ (\A k \in DOMAIN results[r] : results[r][k].status \in S)
           => \A k \in DOMAIN results'[r] : results'[r][k].status \in S
      /\ \A q \in Runs \ {r} : results'[q] = results[q]
  BY <1>1, ResultsGrow DEF RunInv
<1>3. OrchTypeOK'
  <2>1. l \in SUBSET Position /\ c \in 0 .. Len(Order) /\ p \in Phase
    BY <1>1 DEF OrchTypeOK, Position, Phase
  <2>2. QED
    BY <1>2, <2>1 DEF OrchTypeOK
<1>4. /\ report[r].failed \in Nat /\ report'[r].failed \in Nat
      /\ Tallied(r) \in Nat /\ Tallied(r)' \in Nat
  <2>1. report[r] \in Report /\ report'[r] \in Report
    BY DEF OrchTypeOK
  <2>2. /\ report[r].failed \in Nat /\ report[r].succeeded \in Nat
        /\ report[r].driftWarnings \in Nat /\ report[r].skipped \in Nat
    BY <2>1, ReportFields
  <2>3. /\ report'[r].failed \in Nat /\ report'[r].succeeded \in Nat
        /\ report'[r].driftWarnings \in Nat /\ report'[r].skipped \in Nat
    BY <2>1, ReportFields
  <2>4. Tallied(r) \in Nat
    <3>1. \A a, b, d, e \in Nat : a + b + d + e \in Nat
      OBVIOUS
    <3>2. QED
      BY <2>2, <3>1, Zenon DEF Tallied
  <2>5. Tallied(r)' \in Nat
    BY <2>4
  <2>6. QED
    BY <2>2, <2>3, <2>4, <2>5
<1>5. opts[r].failFast => report[r].failed = 0
  BY <1>4 DEF RunInv, FailFastInv
<1>6. LoopInv(r)'
  <2>1. p = "apply" => w > 0 /\ c \in Selected(opts[r]) /\ ~opts[r].dryRun
    BY DEF RunInv, LoopInv
  <2>2. l \subseteq Selected(opts[r])
    BY DEF RunInv, LoopInv
  <2>3. p = "done" => report'[r].failed > 0
    BY <1>4
  <2>4. report'[r].failed = 0 =>
          \A k \in DOMAIN results'[r] : results'[r][k].status # "failed"
    <3>1. SUFFICES ASSUME report'[r].failed = 0
                   PROVE  \A k \in DOMAIN results'[r] : results'[r][k].status # "failed"
      OBVIOUS
    <3>2. s # "failed" /\ report[r].failed = 0
      BY <3>1, <1>4
    <3>3. \A k \in DOMAIN results[r] : results[r][k].status # "failed"
      BY <3>2 DEF RunInv, LoopInv
    <3> DEFINE S == {x \in Status \cup {results[r][k].status : k \in DOMAIN results[r]} : x # "failed"}
    <3>4. s \in S /\ \A k \in DOMAIN results[r] : results[r][k].status \in S
      BY <3>2, <3>3
    <3>5. \A x \in S : x # "failed"
      OBVIOUS
    <3> HIDE DEF S
    <3>6. QED
      BY <1>2, <3>4, <3>5
  <2>5. exit[r] = NoExit
    BY DEF RunInv, LoopInv
  <2>6. QED
    BY <1>1, <2>1, <2>2, <2>3, <2>4, <2>5 DEF LoopInv
<1>7. SumInv(r)'
  <2>1. Len(results[r]) = Tallied(r) /\ InFlight(r)' = 0
    BY <1>1 DEF RunInv, SumInv, Tallied, InFlight
  <2>2. report'[r].total = Tallied(r)' + InFlight(r)' /\ Len(results'[r]) = Tallied(r)'
    BY <2>1, <1>2, <1>4
  <2>3. QED
    BY <2>2 DEF SumInv, Tallied
<1>8. FailFastInv(r)'
  BY <1>1, <1>2, <1>4, <1>5 DEF FailFastInv
<1>9. DryInv(r)'
  <2>1. SUFFICES ASSUME opts[r].dryRun
                 PROVE  /\ p \notin {"apply", "verify"}
                        /\ \A k \in DOMAIN results'[r] : results'[r][k].status \in {"skipped", "failed"}
    BY <1>1 DEF DryInv
  <2>2. /\ phase[r] = "plan" /\ s \in {"skipped", "failed"}
        /\ \A k \in DOMAIN results[r] : results[r][k].status \in {"skipped", "failed"}
    BY <2>1 DEF RunInv, DryInv
  <2>3. \A k \in DOMAIN results'[r] : results'[r][k].status \in {"skipped", "failed"}
    BY <2>2, <1>2
  <2>4. QED
    BY <2>2, <2>3
<1>10. \A q \in Runs \ {r} : Same(q)
  BY <1>2 DEF Same, OrchTypeOK
<1>11. QED
  BY <1>2, <1>3, <1>6, <1>7, <1>8, <1>9, <1>10 DEF RunInv
\* A step of run r that records nothing and moves the run to phase p, at
\* reconciler c, with l still to plan, w actions pending and exit code x: what
\* the other actions have in common.
LEMMA MoveKeeps ==
  ASSUME OrchestratorAssumption, OrchTypeOK, NEW r \in Runs, RunInv(r),
         NEW p \in Phase, NEW w \in Nat, NEW x \in {0, 1, 2, NoExit},
         NEW c \in 0 .. Len(Order), cur[r] =< c,
         NEW l \in SUBSET left[r], \A i \in l : c < i,
         opts' = opts, results' = results,
         phase' = [phase EXCEPT ![r] = p], cur' = [cur EXCEPT ![r] = c],
         left' = [left EXCEPT ![r] = l], pending' = [pending EXCEPT ![r] = w],
         exit' = [exit EXCEPT ![r] = x],
         report' \in [Runs -> Report], \A q \in Runs \ {r} : report'[q] = report[q],
         report'[r].failed = report[r].failed,
         p # "crashed" => /\ phase[r] # "crashed" /\ Tallied(r)' = Tallied(r)
                          /\ report'[r].total = Tallied(r) + (IF p = "verify" THEN 1 ELSE 0),
         p \in {"apply", "verify"} => w > 0 /\ c \in Selected(opts[r]) /\ ~opts[r].dryRun,
         p \in {"done", "exited"} => l = {} \/ report[r].failed > 0,
         x # NoExit => p = "exited" /\ x = ProcessExit(report'[r]),
         opts[r].failFast /\ report[r].failed > 0 => p \in {"done", "exited", "crashed"}
  PROVE  OrchTypeOK' /\ RunInv(r)' /\ \A q \in Runs \ {r} : Same(q)
<1>1. /\ Len(Order) \in Nat /\ cur'[r] = c /\ left'[r] = l /\ phase'[r] = p
      /\ pending'[r] = w /\ opts'[r] = opts[r] /\ exit'[r] = x /\ results'[r] = results[r]
      /\ Selected(opts[r])' = Selected(opts[r])
  BY LenOrder DEF Selected, OrchTypeOK
<1>2. OrchTypeOK'
  <2>1. l \in SUBSET Position
    BY DEF OrchTypeOK
  <2>2. QED
    BY <2>1 DEF OrchTypeOK
<1>3. LoopInv(r)'
  <2>1. l \subseteq Selected(opts[r])
    BY DEF RunInv, LoopInv
  <2>2. report[r].failed = 0 => \A k \in DOMAIN results[r] : results[r][k].status # "failed"
    BY DEF RunInv, LoopInv
  <2>3. ProcessExit(report[r])' = ProcessExit(report'[r])
    BY DEF ProcessExit
  <2>4. QED
    BY <1>1, <2>1, <2>2, <2>3 DEF LoopInv
<1>4. SumInv(r)'
  <2>1. p # "crashed" => Len(results[r]) = Tallied(r)
    BY DEF RunInv, SumInv, Tallied
  <2>2. p # "crashed" => /\ report'[r].total = Tallied(r)' + InFlight(r)'
                         /\ Len(results'[r]) = Tallied(r)'
    BY <1>1, <2>1 DEF InFlight
  <2>3. QED
    BY <1>1, <2>2 DEF SumInv, Tallied
<1>5. FailFastInv(r)'
  BY <1>1 DEF RunInv, FailFastInv
<1>6. OrderInv(r)'
  <2>1. \A k \in DOMAIN results[r] : results[r][k].rec =< c
    <3>1. TAKE k \in DOMAIN results[r]
    <3>2. /\ results[r][k].rec \in Selected(opts[r]) /\ results[r][k].rec =< cur[r]
          /\ cur[r] \in 0 .. Len(Order)
      BY DEF RunInv, OrderInv, OrchTypeOK
    <3>3. QED
      BY <1>1, <3>2 DEF Selected, Position
  <2>2. QED
    BY <1>1, <2>1 DEF RunInv, OrderInv
<1>7. DryInv(r)'
  BY <1>1 DEF RunInv, DryInv
<1>8. \A q \in Runs \ {r} : Same(q)
  BY DEF Same, OrchTypeOK
<1>9. QED
  BY <1>2, <1>3, <1>4, <1>5, <1>6, <1>7, <1>8 DEF RunInv

-----------------------------------------------------------------------------
\* The reconciler TakeNext moves to.
LEMMA TakeNextFacts ==
  ASSUME OrchestratorAssumption, OrchTypeOK, NEW r \in Runs, RunInv(r), TakeNext(r)
  PROVE  \E c \in Selected(opts[r]), l \in SUBSET left[r] :
           /\ cur[r] =< c /\ (\A i \in l : c < i)
           /\ cur' = [cur EXCEPT ![r] = c] /\ left' = [left EXCEPT ![r] = l]
           /\ phase[r] = "plan"
<1>1. PICK i \in left[r] : /\ \A j \in left[r] : i =< j
                           /\ cur' = [cur EXCEPT ![r] = i]
                           /\ left' = [left EXCEPT ![r] = @ \ {i}]
  BY DEF TakeNext
<1>2. /\ Len(Order) \in Nat /\ left[r] \subseteq Position /\ cur[r] \in 0 .. Len(Order)
      /\ cur[r] < i /\ i \in Selected(opts[r])
  BY LenOrder DEF OrchTypeOK, RunInv, LoopInv, OrderInv
<1>3. \A j \in left[r] \ {i} : i < j
  BY <1>1, <1>2 DEF Position
<1>4. cur[r] =< i
  BY <1>2 DEF Position
<1>5. QED
  BY <1>1, <1>2, <1>3, <1>4 DEF TakeNext

LEMMA PlanFailsKeeps ==
  ASSUME OrchestratorAssumption, OrchTypeOK, NEW r \in Runs, RunInv(r), PlanFails(r)
  PROVE  OrchTypeOK' /\ RunInv(r)' /\ \A q \in Runs \ {r} : Same(q)
<1>1. PICK c \in Selected(opts[r]), l \in SUBSET left[r] :
           /\ cur[r] =< c /\ (\A i \in l : c < i)
           /\ cur' = [cur EXCEPT ![r] = c] /\ left' = [left EXCEPT ![r] = l]
           /\ phase[r] = "plan"
  BY TakeNextFacts DEF PlanFails
<1>2. /\ report' \in [Runs -> Report] /\ Grows(r, 1, 0, 1, 0, 0)
      /\ \A q \in Runs \ {r} : report'[q] = report[q]
  BY ReportGrows DEF PlanFails, OrchTypeOK
<1>3. Tallied(r)' = Tallied(r) + 1 /\ report'[r].total = Tallied(r)'
      /\ report'[r].failed = report[r].failed + 1
  <2>1. 1 + InFlight(r) = 0 + 1 + 0 + 0 /\ phase[r] \in {"plan", "apply", "verify"}
    BY <1>1 DEF InFlight
  <2>2. /\ Tallied(r)' = Tallied(r) + (0 + 1 + 0 + 0)
        /\ report'[r].total = Tallied(r)'
    BY <1>2, <2>1, GrowsTally, 0 \in Nat, 1 \in Nat, Zenon DEF OrchTypeOK
  <2>3. QED
    BY <1>2, <2>2 DEF Grows
<1>4. AfterFailure(r, "plan") \in {"plan", "apply", "done"}
      /\ (opts[r].failFast => AfterFailure(r, "plan") = "done")
      /\ AfterFailure(r, "plan") # "apply"
  BY DEF AfterFailure
<1>5. /\ pending' = [pending EXCEPT ![r] = pending[r]] /\ pending[r] \in Nat
      /\ "failed" \in Status /\ opts' = opts /\ exit' = exit
      /\ AddResults(r, 1, "failed")
      /\ phase' = [phase EXCEPT ![r] = AfterFailure(r, "plan")]
  BY DEF PlanFails, OrchTypeOK, Status
<1>6. /\ 1 \in Nat /\ 1 > 0 /\ phase[r] \in {"plan", "apply", "verify"}
      /\ "failed" = "failed" => 1 = 1 /\ report'[r].failed = report[r].failed + 1
      /\ "failed" # "failed" => report'[r].failed = report[r].failed
      /\ opts[r].failFast /\ "failed" = "failed" => AfterFailure(r, "plan") = "done"
      /\ AfterFailure(r, "plan") = "done" => "failed" = "failed"
      /\ AfterFailure(r, "plan") = "apply" => pending[r] > 0 /\ phase[r] # "plan" /\ c = cur[r]
      /\ opts[r].dryRun => "failed" \in {"skipped", "failed"}
  BY <1>1, <1>3, <1>4
<1>7. QED
  BY <1>1, <1>2, <1>3, <1>4, <1>5, <1>6, RecordKeeps, Zenon

\* What is known of a run in the middle of its loops.
LEMMA Midway ==
  ASSUME OrchestratorAssumption, OrchTypeOK, NEW r \in Runs, RunInv(r), Running(r)
  PROVE  /\ exit[r] = NoExit /\ phase[r] # "crashed"
         /\ report[r] \in Report /\ report[r].total = Tallied(r) + InFlight(r)
         /\ opts[r].failFast /\ report[r].failed > 0 => phase[r] = "done"
         /\ phase[r] \in {"apply", "verify"} =>
              /\ pending[r] > 0 /\ pending[r] - 1 \in Nat /\ ~opts[r].dryRun
              /\ cur[r] \in Selected(opts[r]) /\ cur[r] =< cur[r]
         /\ left[r] \in SUBSET left[r] /\ \A i \in left[r] : cur[r] < i
         /\ cur[r] \in 0 .. Len(Order) /\ Len(Order) \in Nat /\ pending[r] \in Nat
         /\ cur = [cur EXCEPT ![r] = cur[r]] /\ left = [left EXCEPT ![r] = left[r]]
         /\ pending = [pending EXCEPT ![r] = pending[r]] /\ phase = [phase EXCEPT ![r] = phase[r]]
         /\ exit = [exit EXCEPT ![r] = exit[r]]
<1>1. exit[r] = NoExit /\ phase[r] # "crashed"
  BY DEF Running, RunInv, LoopInv
<1>2. report[r] \in Report /\ report[r].total = Tallied(r) + InFlight(r)
  BY <1>1 DEF OrchTypeOK, RunInv, SumInv, Tallied
<1>3. opts[r].failFast /\ report[r].failed > 0 => phase[r] = "done"
  BY <1>1 DEF RunInv, FailFastInv, Running
<1>4. /\ cur[r] \in 0 .. Len(Order) /\ Len(Order) \in Nat /\ pending[r] \in Nat
  BY LenOrder DEF OrchTypeOK
<1>5. phase[r] \in {"apply", "verify"} =>
        /\ pending[r] > 0 /\ pending[r] - 1 \in Nat /\ ~opts[r].dryRun
        /\ cur[r] \in Selected(opts[r]) /\ cur[r] =< cur[r]
  BY <1>4 DEF RunInv, LoopInv
<1>6. left[r] \in SUBSET left[r] /\ \A i \in left[r] : cur[r] < i
  BY DEF RunInv, OrderInv
<1>7. /\ cur = [cur EXCEPT ![r] = cur[r]] /\ left = [left EXCEPT ![r] = left[r]]
      /\ pending = [pending EXCEPT ![r] = pending[r]] /\ phase = [phase EXCEPT ![r] = phase[r]]
      /\ exit = [exit EXCEPT ![r] = exit[r]]
  BY DEF OrchTypeOK
<1>8. QED
  BY <1>1, <1>2, <1>3, <1>4, <1>5, <1>6, <1>7

LEMMA ApplyFailsKeeps ==
  ASSUME OrchestratorAssumption, OrchTypeOK, NEW r \in Runs, RunInv(r), ApplyFails(r)
  PROVE  OrchTypeOK' /\ RunInv(r)' /\ \A q \in Runs \ {r} : Same(q)
<1> DEFINE p == AfterFailure(r, NextAction(r))
<1>1. /\ phase[r] = "apply" /\ Running(r) /\ InFlight(r) = 0
  BY DEF ApplyFails, Running, InFlight
<1>2. /\ pending[r] > 0 /\ pending[r] - 1 \in Nat /\ ~opts[r].dryRun
      /\ cur[r] \in Selected(opts[r]) /\ cur[r] =< cur[r] /\ pending[r] \in Nat
      /\ left[r] \in SUBSET left[r] /\ \A i \in left[r] : cur[r] < i
      /\ cur = [cur EXCEPT ![r] = cur[r]] /\ left = [left EXCEPT ![r] = left[r]]
  BY <1>1, Midway
<1>3. /\ opts' = opts /\ exit' = exit /\ AddResults(r, 1, "failed") /\ "failed" \in Status
      /\ phase' = [phase EXCEPT ![r] = p] /\ pending' = [pending EXCEPT ![r] = pending[r] - 1]
      /\ cur' = [cur EXCEPT ![r] = cur[r]] /\ left' = [left EXCEPT ![r] = left[r]]
  BY <1>2 DEF ApplyFails, Status
<1>4. /\ report' \in [Runs -> Report] /\ Grows(r, 1, 0, 1, 0, 0)
      /\ \A q \in Runs \ {r} : report'[q] = report[q]
  BY ReportGrows DEF ApplyFails, OrchTypeOK
<1>5. /\ Tallied(r)' = Tallied(r) + 1 /\ report'[r].total = Tallied(r)'
      /\ report'[r].failed = report[r].failed + 1
  <2>1. 1 + InFlight(r) = 0 + 1 + 0 + 0 /\ phase[r] \in {"plan", "apply", "verify"}
    BY <1>1
  <2>2. /\ Tallied(r)' = Tallied(r) + (0 + 1 + 0 + 0)
        /\ report'[r].total = Tallied(r)'
    BY <1>4, <2>1, GrowsTally, 0 \in Nat, 1 \in Nat, Zenon DEF OrchTypeOK
  <2>3. QED
    BY <1>4, <2>2 DEF Grows
<1>6. /\ p \in {"plan", "apply", "done"}
      /\ p = "apply" => pending[r] - 1 > 0
      /\ opts[r].failFast => p = "done"
      /\ p = "done" => opts[r].failFast
  BY <1>2 DEF AfterFailure, NextAction
<1> HIDE DEF p
<1>7. /\ 1 \in Nat /\ 1 > 0 /\ phase[r] \in {"plan", "apply", "verify"}
      /\ "failed" = "failed" => 1 = 1 /\ report'[r].failed = report[r].failed + 1
      /\ "failed" # "failed" => report'[r].failed = report[r].failed
      /\ opts[r].failFast /\ "failed" = "failed" => p = "done"
      /\ p = "done" => "failed" = "failed"
      /\ p = "apply" => pending[r] - 1 > 0 /\ phase[r] # "plan" /\ cur[r] = cur[r]
      /\ opts[r].dryRun => "failed" \in {"skipped", "failed"}
  BY <1>1, <1>5, <1>6
<1>8. QED
  BY <1>1, <1>2, <1>3, <1>4, <1>5, <1>6, <1>7, RecordKeeps, Zenon

LEMMA VerifyReturnsKeeps ==
  ASSUME OrchestratorAssumption, OrchTypeOK, NEW r \in Runs, RunInv(r),
         NEW s \in Verdict, VerifyReturns(r, s)
  PROVE  OrchTypeOK' /\ RunInv(r)' /\ \A q \in Runs \ {r} : Same(q)
<1> DEFINE p == NextAction(r)
<1>1. /\ phase[r] = "verify" /\ Running(r) /\ InFlight(r) = 1
      /\ phase[r] \in {"plan", "apply", "verify"}
  BY DEF VerifyReturns, Running, InFlight
<1>2. /\ pending[r] > 0 /\ pending[r] - 1 \in Nat /\ ~opts[r].dryRun
      /\ cur[r] \in Selected(opts[r]) /\ cur[r] =< cur[r] /\ pending[r] \in Nat
      /\ left[r] \in SUBSET left[r] /\ \A i \in left[r] : cur[r] < i
      /\ cur = [cur EXCEPT ![r] = cur[r]] /\ left = [left EXCEPT ![r] = left[r]]
  BY <1>1, Midway
<1>3. /\ opts' = opts /\ exit' = exit /\ AddResults(r, 1, s) /\ s \in Status /\ s # "failed"
      /\ phase' = [phase EXCEPT ![r] = p] /\ pending' = [pending EXCEPT ![r] = pending[r] - 1]
      /\ cur' = [cur EXCEPT ![r] = cur[r]] /\ left' = [left EXCEPT ![r] = left[r]]
  BY <1>2 DEF VerifyReturns, Status, Verdict
<1>4. /\ report' \in [Runs -> Report]
      /\ Grows(r, 0, 1, 0, 0, 0) \/ Grows(r, 0, 0, 0, 1, 0)
      /\ \A q \in Runs \ {r} : report'[q] = report[q]
  <2>1. report' = [report EXCEPT ![r] = Tally(@, s)] /\ report \in [Runs -> Report]
    BY DEF VerifyReturns, OrchTypeOK
  <2>2. s = "ok" \/ s = "applied-with-drift" \/ s = "unverified"
    BY DEF Verdict
  <2>3. /\ report' \in [Runs -> Report]
        /\ Grows(r, 0, 1, 0, 0, 0) \/ Grows(r, 0, 0, 0, 1, 0)
    BY <2>1, <2>2, ReportGrows, 1 \in Nat, Zenon
  <2>4. QED
    BY <2>1, <2>3
<1>5. /\ Tallied(r)' = Tallied(r) + 1 /\ report'[r].total = Tallied(r)'
      /\ report'[r].failed = report[r].failed
  <2>1. 0 + InFlight(r) = 1 + 0 + 0 + 0 /\ 0 + InFlight(r) = 0 + 0 + 1 + 0
    BY <1>1
  <2>2. \/ /\ Tallied(r)' = Tallied(r) + (1 + 0 + 0 + 0)
           /\ report'[r].total = Tallied(r)'
        \/ /\ Tallied(r)' = Tallied(r) + (0 + 0 + 1 + 0)
           /\ report'[r].total = Tallied(r)'
    BY <1>1, <1>4, <2>1, GrowsTally, 0 \in Nat, 1 \in Nat, Zenon DEF OrchTypeOK
  <2>3. report[r].failed \in Nat
    BY ReportFields DEF OrchTypeOK
  <2>4. QED
    BY <1>4, <2>2, <2>3 DEF Grows
<1>6. p \in {"plan", "apply", "done"} /\ p # "done" /\ (p = "apply" => pending[r] - 1 > 0)
  BY <1>2 DEF NextAction
<1> HIDE DEF p
<1>7. /\ 1 \in Nat /\ 1 > 0
      /\ s = "failed" => 1 = 1 /\ report'[r].failed = report[r].failed + 1
      /\ s # "failed" => report'[r].failed = report[r].failed
      /\ opts[r].failFast /\ s = "failed" => p = "done"
      /\ p = "done" => s = "failed"
      /\ p = "apply" => pending[r] - 1 > 0 /\ phase[r] # "plan" /\ cur[r] = cur[r]
      /\ opts[r].dryRun => s \in {"skipped", "failed"}
  BY <1>1, <1>2, <1>3, <1>5, <1>6
<1>8. QED
  BY <1>1, <1>2, <1>3, <1>4, <1>5, <1>6, <1>7, RecordKeeps, Zenon

LEMMA PlanReturnsKeeps ==
  ASSUME OrchestratorAssumption, OrchTypeOK, NEW r \in Runs, RunInv(r),
         NEW n \in Nat, PlanReturns(r, n)
  PROVE  OrchTypeOK' /\ RunInv(r)' /\ \A q \in Runs \ {r} : Same(q)
<1>1. PICK c \in Selected(opts[r]), l \in SUBSET left[r] :
           /\ cur[r] =< c /\ (\A i \in l : c < i)
           /\ cur' = [cur EXCEPT ![r] = c] /\ left' = [left EXCEPT ![r] = l]
           /\ phase[r] = "plan"
  BY TakeNextFacts DEF PlanReturns
<1>2. /\ opts' = opts /\ exit' = exit /\ Running(r) /\ InFlight(r) = 0
      /\ phase[r] \in {"plan", "apply", "verify"}
  BY <1>1 DEF PlanReturns, Running, InFlight
<1>3. /\ exit[r] = NoExit /\ report[r].total = Tallied(r) + InFlight(r)
      /\ pending = [pending EXCEPT ![r] = pending[r]] /\ pending[r] \in Nat
      /\ phase = [phase EXCEPT ![r] = phase[r]] /\ exit = [exit EXCEPT ![r] = exit[r]]
      /\ phase[r] # "crashed" /\ ~(opts[r].failFast /\ report[r].failed > 0)
  BY <1>1, <1>2, Midway
<1>4. report[r] \in Report /\ report \in [Runs -> Report] /\ Tallied(r) \in Nat
  <2>1. report \in [Runs -> Report]
    BY DEF OrchTypeOK
  <2>2. /\ report[r].failed \in Nat /\ report[r].succeeded \in Nat
        /\ report[r].driftWarnings \in Nat /\ report[r].skipped \in Nat
    BY <2>1, ReportFields
  <2>3. \A a, b, d, e \in Nat : a + b + d + e \in Nat
    OBVIOUS
  <2>4. Tallied(r) \in Nat
    BY <2>2, <2>3, Zenon DEF Tallied
  <2>5. QED
    BY <2>1, <2>4
<1>5. c \in 0 .. Len(Order) /\ Len(Order) \in Nat
  BY LenOrder DEF Selected, Position
<1>6. ASSUME report' = report, results' = results, NEW p \in {"plan", "apply"}, NEW w \in Nat,
             phase' = [phase EXCEPT ![r] = p], pending' = [pending EXCEPT ![r] = w],
             p = "apply" => w > 0 /\ ~opts[r].dryRun
      PROVE  OrchTypeOK' /\ RunInv(r)' /\ \A q \in Runs \ {r} : Same(q)
  <2>1. Tallied(r)' = Tallied(r)
    BY <1>6 DEF Tallied
  <2>2. p \in Phase /\ NoExit \in {0, 1, 2, NoExit} /\ exit' = [exit EXCEPT ![r] = NoExit]
    BY <1>2, <1>3 DEF Phase
  <2>3. /\ report' \in [Runs -> Report] /\ \A q \in Runs \ {r} : report'[q] = report[q]
        /\ report'[r].failed = report[r].failed
        /\ p # "crashed" => /\ phase[r] # "crashed" /\ Tallied(r)' = Tallied(r)
                            /\ report'[r].total = Tallied(r) + (IF p = "verify" THEN 1 ELSE 0)
        /\ p \in {"apply", "verify"} => w > 0 /\ c \in Selected(opts[r]) /\ ~opts[r].dryRun
        /\ p \in {"done", "exited"} => l = {} \/ report[r].failed > 0
        /\ NoExit # NoExit => p = "exited" /\ NoExit = ProcessExit(report'[r])
        /\ opts[r].failFast /\ report[r].failed > 0 => p \in {"done", "exited", "crashed"}
    BY <1>2, <1>3, <1>4, <1>6, <2>1
  <2>4. QED
    BY <1>1, <1>2, <1>5, <1>6, <2>2, <2>3, MoveKeeps, Zenon
<1>7. CASE n = 0 /\ UNCHANGED <<phase, pending, report, results>>
  <2>1. phase' = [phase EXCEPT ![r] = "plan"] /\ pending' = [pending EXCEPT ![r] = pending[r]]
    BY <1>1, <1>3, <1>7
  <2>2. QED
    BY <1>3, <1>6, <1>7, <2>1
<1>8. CASE /\ n > 0 /\ opts[r].dryRun
           /\ report' = [report EXCEPT ![r].total = @ + n, ![r].skipped = @ + n]
           /\ AddResults(r, n, "skipped")
           /\ UNCHANGED <<phase, pending>>
  <2>1. /\ report' \in [Runs -> Report] /\ Grows(r, n, 0, 0, 0, n)
    BY <1>4, <1>8, ReportGrows
  <2>2. \A q \in Runs \ {r} : report'[q] = report[q]
    BY <1>4, <1>8, Zenon
  <2>3. /\ n + InFlight(r) = 0 + 0 + 0 + n
        /\ phase[r] \in {"plan", "apply", "verify"} /\ report \in [Runs -> Report]
    BY <1>2, <1>4
  <2>4. Tallied(r)' = Tallied(r) + (0 + 0 + 0 + n) /\ report'[r].total = Tallied(r)'
    BY <2>1, <2>3, GrowsTally, 0 \in Nat, Zenon
  <2>5. Tallied(r)' = Tallied(r) + n /\ report'[r].failed = report[r].failed
    <3>1. report[r].failed \in Nat
      BY <1>4, ReportFields
    <3>2. QED
      BY <2>1, <2>4, <3>1 DEF Grows
  <2>6. /\ n > 0 /\ AddResults(r, n, "skipped") /\ pending[r] \in Nat
        /\ opts' = opts /\ exit' = exit /\ phase[r] \in {"plan", "apply", "verify"}
        /\ phase' = [phase EXCEPT ![r] = "plan"] /\ pending' = [pending EXCEPT ![r] = pending[r]]
        /\ "skipped" \in Status /\ "plan" \in {"plan", "apply", "done"}
        /\ "skipped" = "failed" => n = 1 /\ report'[r].failed = report[r].failed + 1
        /\ "skipped" # "failed" => report'[r].failed = report[r].failed
        /\ opts[r].failFast /\ "skipped" = "failed" => "plan" = "done"
        /\ "plan" = "done" => "skipped" = "failed"
        /\ "plan" = "apply" => pending[r] > 0 /\ phase[r] # "plan" /\ c = cur[r]
        /\ opts[r].dryRun => "skipped" \in {"skipped", "failed"}
    BY <1>1, <1>2, <1>3, <1>8, <2>5 DEF Status
  <2>7. QED
    BY <1>1, <2>1, <2>2, <2>4, <2>5, <2>6, RecordKeeps, Zenon
<1>9. CASE /\ n > 0 /\ ~opts[r].dryRun
           /\ pending' = [pending EXCEPT ![r] = n]
           /\ phase' = [phase EXCEPT ![r] = "apply"]
           /\ UNCHANGED <<report, results>>
  BY <1>6, <1>9
<1>10. QED
  BY <1>7, <1>8, <1>9 DEF PlanReturns

LEMMA ApplySucceedsKeeps ==
  ASSUME OrchestratorAssumption, OrchTypeOK, NEW r \in Runs, RunInv(r), ApplySucceeds(r)
  PROVE  OrchTypeOK' /\ RunInv(r)' /\ \A q \in Runs \ {r} : Same(q)
<1>1. phase[r] = "apply" /\ Running(r) /\ InFlight(r) = 0
  BY DEF ApplySucceeds, Running, InFlight
<1>2. /\ opts' = opts /\ results' = results /\ "verify" \in Phase
      /\ phase' = [phase EXCEPT ![r] = "verify"]
      /\ NoExit \in {0, 1, 2, NoExit} /\ exit' = [exit EXCEPT ![r] = NoExit]
      /\ cur' = [cur EXCEPT ![r] = cur[r]] /\ left' = [left EXCEPT ![r] = left[r]]
      /\ pending' = [pending EXCEPT ![r] = pending[r]] /\ pending[r] \in Nat
      /\ left[r] \in SUBSET left[r] /\ (\A i \in left[r] : cur[r] < i)
      /\ cur[r] \in 0 .. Len(Order) /\ cur[r] =< cur[r]
  BY <1>1, Midway DEF ApplySucceeds, Phase
<1>3. /\ report' \in [Runs -> Report] /\ Grows(r, 1, 0, 0, 0, 0)
      /\ \A q \in Runs \ {r} : report'[q] = report[q]
  BY ReportGrows DEF ApplySucceeds, OrchTypeOK
<1>4. /\ report[r].failed \in Nat /\ report[r].succeeded \in Nat
      /\ report[r].driftWarnings \in Nat /\ report[r].skipped \in Nat
  BY ReportFields DEF OrchTypeOK
<1>5. report'[r].failed = report[r].failed
  BY <1>3, <1>4 DEF Grows
<1>6. Tallied(r)' = Tallied(r) /\ Tallied(r) \in Nat
  <2>1. /\ report'[r].failed = report[r].failed /\ report'[r].succeeded = report[r].succeeded
        /\ report'[r].driftWarnings = report[r].driftWarnings
        /\ report'[r].skipped = report[r].skipped
    BY <1>3, <1>4 DEF Grows
  <2>2. \A a, b, d, e \in Nat : a + b + d + e \in Nat
    OBVIOUS
  <2>3. QED
    BY <1>4, <2>1, <2>2, Zenon DEF Tallied
<1>7. report'[r].total = Tallied(r) + 1
  <2>0. report[r].total = Tallied(r) + InFlight(r)
    BY <1>1, Midway
  <2>1. report[r].total = Tallied(r)
    BY <1>1, <1>6, <2>0
  <2>2. QED
    BY <1>3, <2>1, Zenon DEF Grows
<1>8. /\ "verify" # "crashed" =>
           /\ phase[r] # "crashed" /\ Tallied(r)' = Tallied(r)
           /\ report'[r].total = Tallied(r) + (IF "verify" = "verify" THEN 1 ELSE 0)
      /\ "verify" \in {"apply", "verify"} =>
           pending[r] > 0 /\ cur[r] \in Selected(opts[r]) /\ ~opts[r].dryRun
      /\ "verify" \in {"done", "exited"} => left[r] = {} \/ report[r].failed > 0
      /\ NoExit # NoExit => "verify" = "exited" /\ NoExit = ProcessExit(report'[r])
      /\ opts[r].failFast /\ report[r].failed > 0 => "verify" \in {"done", "exited", "crashed"}
  BY <1>1, <1>6, <1>7, Midway
<1>9. QED
  BY <1>2, <1>3, <1>5, <1>8, MoveKeeps, Zenon

\* Return, Exit and Crash leave the loops and the report alone.
LEMMA EndKeeps ==
  ASSUME OrchestratorAssumption, OrchTypeOK, NEW r \in Runs, RunInv(r),
         Return(r) \/ Exit(r) \/ Crash(r)
  PROVE  OrchTypeOK' /\ RunInv(r)' /\ \A q \in Runs \ {r} : Same(q)
<1>1. Running(r)
  BY DEF Return, Exit, Crash, Running
<1>2. /\ opts' = opts /\ results' = results /\ report' = report
      /\ cur' = [cur EXCEPT ![r] = cur[r]] /\ left' = [left EXCEPT ![r] = left[r]]
      /\ pending' = [pending EXCEPT ![r] = pending[r]] /\ pending[r] \in Nat
      /\ left[r] \in SUBSET left[r] /\ (\A i \in left[r] : cur[r] < i)
      /\ cur[r] \in 0 .. Len(Order) /\ cur[r] =< cur[r]
  <2>1. /\ opts' = opts /\ results' = results /\ report' = report
        /\ cur' = cur /\ left' = left /\ pending' = pending
    BY DEF Return, Exit, Crash
  <2>2. /\ cur = [cur EXCEPT ![r] = cur[r]] /\ left = [left EXCEPT ![r] = left[r]]
        /\ pending = [pending EXCEPT ![r] = pending[r]] /\ pending[r] \in Nat
        /\ left[r] \in SUBSET left[r] /\ (\A i \in left[r] : cur[r] < i)
        /\ cur[r] \in 0 .. Len(Order) /\ Len(Order) \in Nat
    BY <1>1, Midway
  <2>3. cur[r] =< cur[r]
    BY <2>2
  <2>4. QED
    BY <2>1, <2>2, <2>3
<1>3. /\ report' \in [Runs -> Report] /\ \A q \in Runs \ {r} : report'[q] = report[q]
      /\ report'[r].failed = report[r].failed /\ Tallied(r)' = Tallied(r)
  BY <1>2 DEF OrchTypeOK, Tallied
<1>4. PICK p \in Phase, x \in {0, 1, 2, NoExit} :
        /\ phase' = [phase EXCEPT ![r] = p] /\ exit' = [exit EXCEPT ![r] = x]
        /\ p \in {"done", "exited", "crashed"}
        /\ p # "crashed" => phase[r] \in {"plan", "done"}
        /\ p \in {"done", "exited"} => left[r] = {} \/ report[r].failed > 0
        /\ x # NoExit => p = "exited" /\ x = ProcessExit(report'[r])
  <2>1. CASE Return(r)
    BY <2>1, <1>1, Midway DEF Return, Phase
  <2>2. CASE Exit(r)
    <3>1. ProcessExit(report[r]) \in {0, 1, 2, NoExit} /\ report'[r] = report[r]
      BY <1>2 DEF ProcessExit
    <3>2. left[r] = {} \/ report[r].failed > 0
      BY <2>2 DEF Exit, RunInv, LoopInv
    <3>3. QED
      BY <2>2, <3>1, <3>2 DEF Exit, Phase
  <2>3. CASE Crash(r)
    BY <2>3, <1>1, Midway DEF Crash, Phase
  <2>4. QED
    BY <2>1, <2>2, <2>3
<1>5. /\ p # "crashed" =>
           /\ phase[r] # "crashed" /\ Tallied(r)' = Tallied(r)
           /\ report'[r].total = Tallied(r) + (IF p = "verify" THEN 1 ELSE 0)
      /\ p \in {"apply", "verify"} =>
           pending[r] > 0 /\ cur[r] \in Selected(opts[r]) /\ ~opts[r].dryRun
      /\ opts[r].failFast /\ report[r].failed > 0 => p \in {"done", "exited", "crashed"}
  <2>1. report[r].total = Tallied(r) + InFlight(r) /\ phase[r] # "crashed"
    BY <1>1, Midway
  <2>2. p # "crashed" => InFlight(r) = 0
    BY <1>4 DEF InFlight
  <2>3. QED
    BY <1>2, <1>3, <1>4, <2>1, <2>2
<1>6. QED
  BY <1>2, <1>3, <1>4, <1>5, MoveKeeps, Zenon

-----------------------------------------------------------------------------
LEMMA SameKeeps ==
  ASSUME NEW s \in Runs, RunInv(s), Same(s)
  PROVE  RunInv(s)'
<1>1. LoopInv(s)'
  BY DEF RunInv, LoopInv, Same, Selected, ProcessExit
<1>2. SumInv(s)'
  BY DEF RunInv, SumInv, Same, InFlight
<1>3. FailFastInv(s)'
  BY DEF RunInv, FailFastInv, Same
<1>4. OrderInv(s)'
  BY DEF RunInv, OrderInv, Same, Selected
<1>5. DryInv(s)'
  BY DEF RunInv, DryInv, Same
<1>6. QED
  BY <1>1, <1>2, <1>3, <1>4, <1>5 DEF RunInv

\* What a step of a run does to that run and to the others: one case for each
\* action.
LEMMA StepOfOneRun ==
  ASSUME OrchestratorAssumption, OrchIInv, NEW r \in Runs, AnyStep(r)
  PROVE  OrchTypeOK' /\ RunInv(r)' /\ \A s \in Runs \ {r} : Same(s)
<1>1. OrchTypeOK /\ \A s \in Runs : RunInv(s)
  BY SplitByRun DEF AllRunsInv
<1>2. CASE \E o \in Options : Start(r, o)
  BY <1>1, <1>2, StartKeeps
<1>3. CASE PlanFails(r)
  BY <1>1, <1>3, PlanFailsKeeps
<1>4. CASE \E n \in Nat : PlanReturns(r, n)
  BY <1>1, <1>4, PlanReturnsKeeps
<1>5. CASE ApplyFails(r)
  BY <1>1, <1>5, ApplyFailsKeeps
<1>6. CASE ApplySucceeds(r)
  BY <1>1, <1>6, ApplySucceedsKeeps
<1>7. CASE \E v \in Verdict : VerifyReturns(r, v)
  BY <1>1, <1>7, VerifyReturnsKeeps
<1>8. CASE Return(r) \/ Exit(r) \/ Crash(r)
  BY <1>1, <1>8, EndKeeps
<1>9. QED
  BY <1>2, <1>3, <1>4, <1>5, <1>6, <1>7, <1>8 DEF AnyStep

\* Any step of a run keeps the inductive invariant.
LEMMA StepKeeps ==
  ASSUME OrchestratorAssumption, OrchIInv, NEW r \in Runs, AnyStep(r)
  PROVE  OrchIInv'
<1>1. \A s \in Runs : RunInv(s)
  BY SplitByRun DEF AllRunsInv
<1>2. OrchTypeOK' /\ RunInv(r)' /\ \A s \in Runs \ {r} : Same(s)
  BY StepOfOneRun
<1>3. \A s \in Runs : RunInv(s)'
  BY <1>1, <1>2, SameKeeps
<1>4. AllRunsInv'
  BY <1>2, <1>3 DEF AllRunsInv
<1>5. QED
  BY <1>4, SplitByRun, PTL

LEMMA StutterKeeps ==
  ASSUME OrchIInv, UNCHANGED orchVars
  PROVE  OrchIInv'
<1>1. OrchTypeOK'
  BY DEF OrchIInv, OrchTypeOK, orchVars
<1>2. \A s \in Runs : RunInv(s) /\ Same(s)
  BY SplitByRun DEF AllRunsInv, Same, orchVars
<1>3. \A s \in Runs : RunInv(s)'
  BY <1>2, SameKeeps
<1>4. AllRunsInv'
  BY <1>1, <1>3 DEF AllRunsInv
<1>5. QED
  BY <1>4, SplitByRun, PTL

LEMMA InitHolds ==
  ASSUME OrchestratorAssumption, OrchInit
  PROVE  OrchIInv
<1>1. OrchTypeOK
  <2>1. /\ EmptyReport \in Report /\ <<>> \in Seq(Result) /\ "idle" \in Phase
        /\ {} \in SUBSET Position /\ 0 \in 0 .. Len(Order)
    BY LenOrder, EmptySeq DEF EmptyReport, Report, Phase
  <2>2. QED
    BY <2>1 DEF OrchInit, OrchTypeOK
<1>2. ASSUME NEW r \in Runs
      PROVE  RunInv(r)
  BY <1>2 DEF OrchInit, EmptyReport, RunInv, LoopInv, SumInv, FailFastInv, OrderInv, DryInv, InFlight
<1>3. QED
  BY <1>1, <1>2, SplitByRun DEF AllRunsInv

\* The inductive invariant holds throughout: no plan error, fail-fast return,
\* dry run, failed call or crash makes a run's counters, results, place in the
\* dependency order and exit code disagree.
THEOREM OrchInvariant == OrchSafety => []OrchIInv
<1>1. OrchInit => OrchIInv
  BY OrchestratorAssumption, InitHolds
<1>2. OrchIInv /\ [OrchNext]_orchVars => OrchIInv'
  <2>1. ASSUME OrchIInv, OrchNext
        PROVE  OrchIInv'
    <3>1. PICK r \in Runs : \/ \E o \in Options : Start(r, o)
                            \/ OrchStep(r)
                            \/ Crash(r)
      BY <2>1 DEF OrchNext
    <3>2. AnyStep(r)
      BY <3>1, OrchestratorAssumption DEF OrchStep, AnyStep, OrchestratorAssumption
    <3>3. QED
      BY <2>1, <3>2, OrchestratorAssumption, StepKeeps
  <2>2. ASSUME OrchIInv, UNCHANGED orchVars
        PROVE  OrchIInv'
    BY <2>2, StutterKeeps
  <2>3. QED
    BY <2>1, <2>2
<1>3. QED
  BY <1>1, <1>2, PTL DEF OrchSafety

\* Every state of the orchestrator is well typed.
THEOREM OrchTypeCorrect == OrchSafety => []OrchTypeOK
<1>1. OrchIInv => OrchTypeOK
  BY DEF OrchIInv
<1>2. QED
  BY <1>1, OrchInvariant, PTL

\* The report's total is the sum of its outcome counters, give or take the one
\* action in flight, with one result for each outcome.
THEOREM ReportAlwaysAddsUp == OrchSafety => []ReportAddsUp
<1>1. OrchIInv => ReportAddsUp
  BY DEF OrchIInv
<1>2. QED
  BY <1>1, OrchInvariant, PTL

\* A run with --fail-fast stops at its first failure.
THEOREM FailFastAlwaysStops == OrchSafety => []FailFastStops
<1>1. OrchIInv => FailFastStops
  BY DEF OrchIInv
<1>2. QED
  BY <1>1, OrchInvariant, PTL

\* Results come in dependency order, for selected reconcilers only.
THEOREM AlwaysInDependencyOrder == OrchSafety => []DependencyOrder
<1>1. OrchIInv => DependencyOrder
  BY DEF OrchIInv
<1>2. QED
  BY <1>1, OrchInvariant, PTL

\* A dry run never applies or verifies an action.
THEOREM DryRunAlwaysOnlyPlans == OrchSafety => []DryRunOnlyPlans
<1>1. OrchIInv => DryRunOnlyPlans
  BY DEF OrchIInv
<1>2. QED
  BY <1>1, OrchInvariant, PTL

\* Once a process has exited with 0, its report has no failure and nothing is left.
LEMMA ZeroExitFollows == OrchIInv => ZeroExitMeansNoFailure
<1>1. SUFFICES ASSUME OrchIInv, NEW r \in Runs, exit[r] = 0
               PROVE  /\ left[r] = {}
                      /\ \A k \in DOMAIN results[r] : results[r][k].status # "failed"
  BY DEF ZeroExitMeansNoFailure
<1>2. phase[r] = "exited" /\ ProcessExit(report[r]) = 0
  BY <1>1 DEF OrchIInv, LoopInv, NoExit
<1>3. report[r].failed = 0
  <2>1. report[r].failed \in Nat
    BY <1>1, ReportFields DEF OrchIInv, OrchTypeOK
  <2>2. QED
    BY <1>2, <2>1 DEF ProcessExit
<1>4. QED
  BY <1>1, <1>2, <1>3 DEF OrchIInv, LoopInv

\* A process that exits with 0 ran every selected reconciler and recorded no
\* failure.
THEOREM ZeroExitIsSuccess == OrchSafety => []ZeroExitMeansNoFailure
BY ZeroExitFollows, OrchInvariant, PTL

-----------------------------------------------------------------------------
\* How many of a run's results have a status in S.
CountOf(res, S) == Cardinality({k \in DOMAIN res : res[k].status \in S})

\* CountersMatchResults for one run.
CountInv(r) ==
  /\ report[r].succeeded = CountOf(results[r], {"ok"})
  /\ report[r].failed = CountOf(results[r], {"failed"})
  /\ report[r].driftWarnings = CountOf(results[r], {"applied-with-drift", "unverified"})
  /\ report[r].skipped = CountOf(results[r], {"skipped"})

AllCountsInv == \A r \in Runs : CountInv(r)

LEMMA CountByRun == CountersMatchResults <=> AllCountsInv
BY DEF CountersMatchResults, AllCountsInv, CountInv, CountOf

\* The list new is res with n times e at its end.
Longer(res, n, e, new) ==
  /\ Len(res) \in Nat /\ DOMAIN res = 1 .. Len(res)
  /\ DOMAIN new = 1 .. (Len(res) + n)
  /\ \A k \in 1 .. (Len(res) + n) : new[k] = IF k =< Len(res) THEN res[k] ELSE e

\* n results of status s more: the count of S grows by n or stays.
LEMMA CountGrows ==
  \A res, new, e, S : \A n \in Nat : Longer(res, n, e, new) =>
    /\ e.status \in S => CountOf(new, S) = CountOf(res, S) + n
    /\ e.status \notin S => CountOf(new, S) = CountOf(res, S) + 0
<1> TAKE res, new, e, S
<1> TAKE n \in Nat
<1> HAVE Longer(res, n, e, new)
<1> DEFINE old == {k \in DOMAIN res : res[k].status \in S}
           all == {k \in DOMAIN new : new[k].status \in S}
           add == (Len(res) + 1) .. (Len(res) + n)
<1>0. /\ Len(res) \in Nat /\ DOMAIN res = 1 .. Len(res)
      /\ DOMAIN new = 1 .. (Len(res) + n)
      /\ \A k \in 1 .. (Len(res) + n) : new[k] = IF k =< Len(res) THEN res[k] ELSE e
  BY DEF Longer
<1>1. IsFiniteSet(old) /\ Cardinality(old) \in Nat
  <2>1. IsFiniteSet(1 .. Len(res)) /\ old \in SUBSET (1 .. Len(res))
    BY <1>0, FS_Interval
  <2>2. IsFiniteSet(old)
    BY <2>1, FS_Subset
  <2>3. QED
    BY <2>2, FS_CardinalityType
<1>2. IsFiniteSet(add) /\ Cardinality(add) = n
  BY <1>0, FS_Interval
<1>3. CASE e.status \in S
  <2>1. all = old \cup add
    BY <1>0, <1>3
  <2>2. old \cap add = {}
    BY <1>0
  <2> HIDE DEF old, all, add
  <2>3. Cardinality(all) = Cardinality(old) + Cardinality(add) - Cardinality(old \cap add)
    BY <1>1, <1>2, <2>1, FS_Union
  <2>4. Cardinality(old \cap add) = 0
    BY <2>2, FS_EmptySet
  <2>5. Cardinality(all) = Cardinality(old) + n
    BY <1>1, <1>2, <2>3, <2>4
  <2>6. QED
    BY <1>3, <2>5 DEF CountOf, old, all
<1>4. CASE e.status \notin S
  <2>1. all = old
    BY <1>0, <1>4
  <2>2. Cardinality(all) = Cardinality(old) + 0
    <3> HIDE DEF old, all
    <3> QED
      BY <1>1, <2>1
  <2>3. QED
    BY <1>4, <2>2 DEF CountOf
<1>5. QED
  BY <1>3, <1>4

\* A step that records n outcomes of status s, in the counter for s and in the
\* results, keeps them in agreement.
LEMMA RecordCounts ==
  ASSUME OrchTypeOK, NEW r \in Runs, CountInv(r), NEW n \in Nat, NEW s \in Status,
         cur'[r] \in Position, AddResults(r, n, s), NEW t \in Nat,
         Grows(r, t, IF s = "ok" THEN n ELSE 0, IF s = "failed" THEN n ELSE 0,
               IF s \in {"applied-with-drift", "unverified"} THEN n ELSE 0,
               IF s = "skipped" THEN n ELSE 0)
  PROVE  CountInv(r)'
<1>1. PICK e : e.status = s /\ Longer(results[r], n, e, results'[r])
  <2> DEFINE e == [rec |-> cur'[r], status |-> s]
  <2>1. e.status = s /\ Longer(results[r], n, e, results'[r])
    BY AddResultsFacts DEF Longer
  <2>2. QED
    BY <2>1
<1>3. ASSUME NEW S
      PROVE  CountOf(results'[r], S) = CountOf(results[r], S) + (IF s \in S THEN n ELSE 0)
  <2>1. CASE s \in S
    BY <1>1, <2>1, CountGrows
  <2>2. CASE s \notin S
    BY <1>1, <2>2, CountGrows
  <2>3. QED
    BY <2>1, <2>2
<1>4. /\ CountOf(results'[r], {"ok"})
           = CountOf(results[r], {"ok"}) + (IF s = "ok" THEN n ELSE 0)
      /\ CountOf(results'[r], {"failed"})
           = CountOf(results[r], {"failed"}) + (IF s = "failed" THEN n ELSE 0)
      /\ CountOf(results'[r], {"applied-with-drift", "unverified"})
           = CountOf(results[r], {"applied-with-drift", "unverified"})
               + (IF s \in {"applied-with-drift", "unverified"} THEN n ELSE 0)
      /\ CountOf(results'[r], {"skipped"})
           = CountOf(results[r], {"skipped"}) + (IF s = "skipped" THEN n ELSE 0)
  <2>1. \A x, y : x \in {y} <=> x = y
    OBVIOUS
  <2>2. QED
    BY <1>3, <2>1, Zenon
<1>5. QED
  BY <1>4, Zenon DEF CountInv, Grows

\* Every step keeps counters and results in agreement.
LEMMA StepKeepsCounts ==
  ASSUME OrchestratorAssumption, OrchIInv, CountersMatchResults, NEW r \in Runs, AnyStep(r)
  PROVE  CountersMatchResults'
<1>1. OrchTypeOK /\ RunInv(r) /\ report[r] \in Report /\ report \in [Runs -> Report]
  BY SplitByRun DEF AllRunsInv, OrchTypeOK
<1>2. /\ report[r].failed \in Nat /\ report[r].succeeded \in Nat
      /\ report[r].driftWarnings \in Nat /\ report[r].skipped \in Nat
  BY <1>1, ReportFields
<1>3. \A s \in Runs : CountInv(s)
  BY CountByRun DEF AllCountsInv
<1>4. ASSUME TakeNext(r)
      PROVE  cur'[r] \in Position
  BY <1>1, <1>4 DEF TakeNext, OrchTypeOK
<1>5. ASSUME phase[r] \in {"apply", "verify"}, cur' = cur
      PROVE  cur'[r] \in Position
  BY <1>1, <1>5 DEF RunInv, LoopInv, Selected
<1>6. ASSUME results'[r] = results[r],
             /\ report'[r].succeeded = report[r].succeeded
             /\ report'[r].failed = report[r].failed
             /\ report'[r].driftWarnings = report[r].driftWarnings
             /\ report'[r].skipped = report[r].skipped
      PROVE  CountInv(r)'
  BY <1>3, <1>6, Zenon DEF CountInv
<1>7. CountInv(r)'
  <2>1. CASE \E o \in Options : Start(r, o)
    <3>1. results'[r] = <<>> /\ report'[r] = EmptyReport
      BY <1>1, <2>1 DEF Start, OrchTypeOK
    <3>2. \A S : CountOf(<<>>, S) = 0
      <4>1. \A S : {k \in DOMAIN <<>> : <<>>[k].status \in S} = {}
        OBVIOUS
      <4>2. QED
        BY <4>1, FS_EmptySet DEF CountOf
    <3>3. QED
      BY <3>1, <3>2 DEF CountInv, EmptyReport
  <2>2. CASE PlanFails(r)
    <3>1. Grows(r, 1, 0, 1, 0, 0) /\ AddResults(r, 1, "failed") /\ "failed" \in Status
      BY <1>1, <2>2, ReportGrows DEF PlanFails, Status
    <3>2. QED
      BY <1>1, <1>3, <1>4, <2>2, <3>1, RecordCounts DEF PlanFails
  <2>3. ASSUME NEW n \in Nat, PlanReturns(r, n)
        PROVE  CountInv(r)'
    <3>1. CASE results' = results /\ report' = report
      BY <1>6, <3>1
    <3>2. CASE /\ report' = [report EXCEPT ![r].total = @ + n, ![r].skipped = @ + n]
               /\ AddResults(r, n, "skipped")
      <4>1. Grows(r, n, 0, 0, 0, n) /\ "skipped" \in Status
        BY <1>1, <3>2, ReportGrows DEF Status
      <4>2. QED
        BY <1>1, <1>3, <1>4, <2>3, <3>2, <4>1, RecordCounts DEF PlanReturns
    <3>3. QED
      BY <2>3, <3>1, <3>2 DEF PlanReturns
  <2>4. CASE ApplyFails(r)
    <3>1. Grows(r, 1, 0, 1, 0, 0) /\ AddResults(r, 1, "failed") /\ "failed" \in Status
      BY <1>1, <2>4, ReportGrows DEF ApplyFails, Status
    <3>2. cur'[r] \in Position
      BY <1>5, <2>4 DEF ApplyFails
    <3>3. QED
      BY <1>1, <1>3, <2>4, <3>1, <3>2, RecordCounts
  <2>5. CASE ApplySucceeds(r)
    <3>1. Grows(r, 1, 0, 0, 0, 0) /\ results' = results
      BY <1>1, <2>5, ReportGrows DEF ApplySucceeds
    <3>2. QED
      BY <1>2, <1>6, <3>1 DEF Grows
  <2>6. ASSUME NEW s \in Verdict, VerifyReturns(r, s)
        PROVE  CountInv(r)'
    <3>1. AddResults(r, 1, s) /\ s \in Status /\ cur'[r] \in Position
      BY <1>5, <2>6 DEF VerifyReturns, Status, Verdict
    <3>2. CASE s = "ok"
      <4>1. Grows(r, 0, 1, 0, 0, 0)
        BY <1>1, <2>6, <3>2, ReportGrows DEF VerifyReturns
      <4>2. QED
        BY <1>1, <1>3, <3>1, <3>2, <4>1, RecordCounts
    <3>3. CASE s \in {"applied-with-drift", "unverified"}
      <4>1. Grows(r, 0, 0, 0, 1, 0)
        BY <1>1, <2>6, <3>3, ReportGrows DEF VerifyReturns
      <4>2. QED
        BY <1>1, <1>3, <3>1, <3>3, <4>1, RecordCounts
    <3>4. QED
      BY <3>2, <3>3 DEF Verdict
  <2>7. CASE Return(r) \/ Exit(r) \/ Crash(r)
    BY <1>6, <2>7 DEF Return, Exit, Crash
  <2>8. QED
    BY <2>1, <2>2, <2>3, <2>4, <2>5, <2>6, <2>7 DEF AnyStep
<1>8. \A s \in Runs \ {r} : CountInv(s)'
  <2>1. ASSUME NEW s \in Runs \ {r}
        PROVE  results'[s] = results[s] /\ report'[s] = report[s] /\ CountInv(s)
    BY <1>3, StepOfOneRun DEF Same
  <2>2. QED
    BY <2>1, Zenon DEF CountInv
<1>9. AllCountsInv'
  BY <1>7, <1>8 DEF AllCountsInv
<1>10. QED
  BY <1>9, CountByRun, PTL

LEMMA CountsAtStart == OrchInit => CountersMatchResults
<1> SUFFICES ASSUME OrchInit, NEW r \in Runs PROVE CountInv(r)
  BY CountByRun DEF AllCountsInv
<1>1. results[r] = <<>> /\ report[r] = EmptyReport
  BY DEF OrchInit
<1>2. \A S : CountOf(<<>>, S) = 0
  <2>1. \A S : {k \in DOMAIN <<>> : <<>>[k].status \in S} = {}
    OBVIOUS
  <2>2. QED
    BY <2>1, FS_EmptySet DEF CountOf
<1>3. QED
  BY <1>1, <1>2 DEF CountInv, EmptyReport

\* Counters and results agree after a step of any run, and after a step that
\* leaves the runs alone.
LEMMA CountsKept ==
  ASSUME OrchestratorAssumption, OrchIInv, CountersMatchResults,
         (\E r \in Runs : AnyStep(r)) \/ UNCHANGED orchVars
  PROVE  CountersMatchResults'
<1>1. CASE \E r \in Runs : AnyStep(r)
  BY <1>1, StepKeepsCounts
<1>2. CASE UNCHANGED orchVars
  <2>1. \A r \in Runs : CountInv(r)
    BY CountByRun DEF AllCountsInv
  <2>2. results' = results /\ report' = report
    BY <1>2 DEF orchVars
  <2>3. \A r \in Runs : CountInv(r)'
    BY <2>1, <2>2, Zenon DEF CountInv
  <2>4. AllCountsInv'
    BY <2>3 DEF AllCountsInv
  <2>5. QED
    BY <2>4, CountByRun, PTL
<1>3. QED
  BY <1>1, <1>2

\* The summary line printed from the counters never contradicts the table
\* printed from the results, status by status.
THEOREM CountersAlwaysMatchResults == OrchSafety => []CountersMatchResults
<1>1. ASSUME OrchNext
      PROVE  \E r \in Runs : AnyStep(r)
  BY <1>1, OrchestratorAssumption DEF OrchNext, OrchStep, AnyStep, OrchestratorAssumption
<1>2. OrchIInv /\ CountersMatchResults /\ [OrchNext]_orchVars => CountersMatchResults'
  BY <1>1, OrchestratorAssumption, CountsKept
<1>3. QED
  BY <1>2, CountsAtStart, OrchInvariant, PTL DEF OrchSafety

-----------------------------------------------------------------------------
(* Outcomes, for the modules that model a reconciler.                      *)

\* The outcome of a verification is counted, and is the last of the results.
LEMMA VerdictCounts ==
  ASSUME OrchIInv, NEW r \in Runs, NEW v \in Verdict, VerifyReturns(r, v)
  PROVE  /\ results'[r][Len(results'[r])].status = v
         /\ report'[r].driftWarnings = report[r].driftWarnings + (IF v = "ok" THEN 0 ELSE 1)
         /\ report'[r].failed = report[r].failed
<1>1. /\ OrchTypeOK /\ report \in [Runs -> Report] /\ cur' = cur
      /\ report[r].driftWarnings \in Nat /\ report[r].failed \in Nat
  BY ReportFields DEF OrchIInv, OrchTypeOK, VerifyReturns
<1>2. results'[r][Len(results'[r])].status = v
  <2>1. cur'[r] \in Position
    BY <1>1, SplitByRun
       DEF AllRunsInv, RunInv, LoopInv, VerifyReturns, Selected
  <2>2. AddResults(r, 1, v) /\ v \in Status
    BY DEF VerifyReturns, Verdict, Status
  <2>3. /\ Len(results[r]) \in Nat /\ Len(results'[r]) = Len(results[r]) + 1
        /\ \A k \in 1 .. (Len(results[r]) + 1) :
             results'[r][k] = IF k =< Len(results[r]) THEN results[r][k]
                              ELSE [rec |-> cur'[r], status |-> v]
    <3>1. OrchTypeOK /\ 1 \in Nat
      BY <1>1
    <3>2. QED
      BY <2>1, <2>2, <3>1, AddResultsFacts
  <2>4. results'[r][Len(results[r]) + 1] = [rec |-> cur'[r], status |-> v]
    BY <2>3
  <2>5. QED
    BY <2>3, <2>4
<1>3. report' = [report EXCEPT ![r] = Tally(@, v)]
  BY DEF VerifyReturns
<1>4. CASE v = "ok"
  <2>1. Grows(r, 0, 1, 0, 0, 0)
    BY <1>1, <1>3, <1>4, ReportGrows
  <2>2. QED
    BY <1>1, <1>2, <1>4, <2>1 DEF Grows
<1>5. CASE v \in {"applied-with-drift", "unverified"}
  <2>1. Grows(r, 0, 0, 0, 1, 0)
    BY <1>1, <1>3, <1>5, ReportGrows
  <2>2. QED
    BY <1>1, <1>2, <1>5, <2>1 DEF Grows
<1>6. QED
  BY <1>4, <1>5 DEF Verdict

\* Failures and drift are not forgotten.
LEMMA OutcomesStay ==
  ASSUME OrchestratorAssumption, OrchIInv, NEW r \in Runs, AnyStep(r), Running(r)
  PROVE  /\ report'[r].failed = 0 => report[r].failed = 0
         /\ report'[r].driftWarnings = 0 => report[r].driftWarnings = 0
<1>1. /\ report \in [Runs -> Report] /\ report[r].failed \in Nat
      /\ report[r].driftWarnings \in Nat
  BY ReportFields DEF OrchIInv, OrchTypeOK
<1>2. ASSUME NEW t \in Nat, NEW s \in Nat, NEW f \in Nat, NEW d \in Nat, NEW k \in Nat,
             Grows(r, t, s, f, d, k)
      PROVE  /\ report'[r].failed = 0 => report[r].failed = 0
             /\ report'[r].driftWarnings = 0 => report[r].driftWarnings = 0
  BY <1>1, <1>2 DEF Grows
<1>3. CASE PlanFails(r) \/ ApplyFails(r)
  BY <1>1, <1>2, <1>3, ReportGrows DEF PlanFails, ApplyFails
<1>4. ASSUME NEW n \in Nat, PlanReturns(r, n)
      PROVE  /\ report'[r].failed = 0 => report[r].failed = 0
             /\ report'[r].driftWarnings = 0 => report[r].driftWarnings = 0
  <2>1. \/ report' = report
        \/ report' = [report EXCEPT ![r].total = @ + n, ![r].skipped = @ + n]
    BY <1>4 DEF PlanReturns
  <2>2. report' = report \/ Grows(r, n, 0, 0, 0, n)
    BY <1>1, <2>1, ReportGrows
  <2>3. QED
    BY <1>2, <2>2
<1>5. CASE ApplySucceeds(r)
  BY <1>1, <1>2, <1>5, ReportGrows DEF ApplySucceeds
<1>6. ASSUME NEW v \in Verdict, VerifyReturns(r, v)
      PROVE  /\ report'[r].failed = 0 => report[r].failed = 0
             /\ report'[r].driftWarnings = 0 => report[r].driftWarnings = 0
  BY <1>1, <1>6, VerdictCounts
<1>7. CASE Return(r) \/ Exit(r) \/ Crash(r)
  BY <1>7 DEF Return, Exit, Crash
<1>8. ASSUME NEW o \in Options, Start(r, o)
      PROVE  FALSE
  BY <1>8 DEF Start, Running
<1>9. QED
  BY <1>3, <1>4, <1>5, <1>6, <1>7, <1>8 DEF AnyStep

-----------------------------------------------------------------------------
(* Plans and queues of actions, for the modules that model a reconciler.     *)

\* The sequences of a finite set have each of its elements once.
LEMMA SeqsOfSet ==
  ASSUME NEW S, IsFiniteSet(S), NEW f \in SetToSeqs(S)
  PROVE  /\ f \in Seq(S) /\ Len(f) \in Nat /\ DOMAIN f = 1 .. Len(f)
         /\ \A i, j \in DOMAIN f : i # j => f[i] # f[j]
         /\ \A x \in S : \E i \in DOMAIN f : f[i] = x
<1> DEFINE n == Cardinality(S)
<1>1. n \in Nat
  BY FS_CardinalityType
<1>2. f \in [1 .. n -> S] /\ \A i, j \in 1 .. n : i # j => f[i] # f[j]
  BY DEF SetToSeqs
<1>3. f \in Seq(S) /\ Len(f) = n /\ DOMAIN f = 1 .. n
  <2> HIDE DEF n
  <2> QED
    BY <1>1, <1>2, IsASeq
<1>4. f \in Surjection(1 .. n, S)
  <2>1. f \in Injection(1 .. n, S)
    BY <1>2 DEF Injection, IsInjective
  <2>2. IsFiniteSet(1 .. n) /\ Cardinality(1 .. n) = n
    BY <1>1, FS_Interval
  <2>3. QED
    BY <2>1, <2>2, FS_Injection
<1>5. \A x \in S : \E i \in 1 .. n : f[i] = x
  BY <1>4 DEF Surjection
<1>6. QED
  BY <1>1, <1>2, <1>3, <1>5

\* Concatenating two sequences, element by element.
LEMMA ConcatElements ==
  ASSUME NEW S, NEW T, NEW u \in Seq(S), NEW d \in Seq(T)
  PROVE  /\ u \o d \in Seq(S \cup T) /\ Len(u \o d) = Len(u) + Len(d)
         /\ DOMAIN (u \o d) = 1 .. (Len(u) + Len(d))
         /\ \A i \in 1 .. Len(u) : (u \o d)[i] = u[i]
         /\ \A i \in 1 .. Len(d) : (u \o d)[Len(u) + i] = d[i]
         /\ \A i \in 1 .. (Len(u) + Len(d)) :
              i \notin 1 .. Len(u) => /\ i - Len(u) \in 1 .. Len(d)
                                      /\ (u \o d)[i] = d[i - Len(u)]
<1>1. /\ u \in Seq(S \cup T) /\ d \in Seq(S \cup T)
      /\ Len(u) \in Nat /\ Len(d) \in Nat
  BY SeqMonotonic
<1>2. /\ u \o d \in Seq(S \cup T) /\ Len(u \o d) = Len(u) + Len(d)
      /\ \A i \in 1 .. (Len(u) + Len(d)) :
           (u \o d)[i] = IF i =< Len(u) THEN u[i] ELSE d[i - Len(u)]
  BY <1>1, ConcatProperties
<1>3. DOMAIN (u \o d) = 1 .. (Len(u) + Len(d))
  BY <1>1, <1>2
<1>4. QED
  BY <1>1, <1>2, <1>3

\* Taking the first action off a queue.
LEMMA TailFacts ==
  ASSUME NEW S, NEW q \in Seq(S), q # <<>> \/ Len(q) > 0
  PROVE  /\ Tail(q) \in Seq(S) /\ Len(Tail(q)) = Len(q) - 1 /\ Len(q) \in Nat \ {0}
         /\ Head(q) = q[1] /\ Head(q) \in S /\ DOMAIN q = 1 .. Len(q)
         /\ \A p \in DOMAIN Tail(q) : p + 1 \in DOMAIN q /\ Tail(q)[p] = q[p + 1]
         /\ \A p \in DOMAIN q \ {1} : p - 1 \in DOMAIN Tail(q) /\ q[p] = Tail(q)[p - 1]
<1>1. Len(q) \in Nat \ {0} /\ q # <<>> /\ DOMAIN q = 1 .. Len(q)
  BY EmptySeq, LenProperties
<1>2. /\ Tail(q) \in Seq(S) /\ Len(Tail(q)) = Len(q) - 1 /\ Head(q) = q[1]
      /\ \A p \in 1 .. (Len(q) - 1) : Tail(q)[p] = q[p + 1]
  BY <1>1
<1>3. DOMAIN Tail(q) = 1 .. (Len(q) - 1)
  BY <1>1, <1>2
<1>4. QED
  BY <1>1, <1>2, <1>3

\* A plan has each of these actions.
Lists(acts, S) == \A a \in S : \E i \in DOMAIN acts : acts[i] = a

\* A plan in two parts, the entries to write and those to prune: it has each of
\* the actions it is made of and no other.
LEMMA TwoParts ==
  ASSUME NEW U, IsFiniteSet(U), NEW D, IsFiniteSet(D),
         NEW u \in SetToSeqs(U), NEW d \in SetToSeqs(D), NEW acts, acts = u \o d
  PROVE  /\ acts \in Seq(U \cup D)
         /\ Lists(acts, U \cup D)
<1>1. /\ u \in Seq(U) /\ Len(u) \in Nat /\ DOMAIN u = 1 .. Len(u)
      /\ \A x \in U : \E i \in DOMAIN u : u[i] = x
  BY SeqsOfSet
<1>2. /\ d \in Seq(D) /\ Len(d) \in Nat /\ DOMAIN d = 1 .. Len(d)
      /\ \A x \in D : \E i \in DOMAIN d : d[i] = x
  BY SeqsOfSet
<1>3. /\ acts \in Seq(U \cup D) /\ DOMAIN acts = 1 .. (Len(u) + Len(d))
      /\ \A i \in 1 .. Len(u) : acts[i] = u[i]
      /\ \A i \in 1 .. Len(d) : acts[Len(u) + i] = d[i]
  BY <1>1, <1>2, ConcatElements
<1>4. ASSUME NEW a \in U
      PROVE  \E i \in DOMAIN acts : acts[i] = a
  <2>1. PICK i \in 1 .. Len(u) : u[i] = a
    BY <1>1
  <2>2. i \in DOMAIN acts /\ acts[i] = a
    BY <1>1, <1>2, <1>3, <2>1
  <2>3. QED
    BY <2>2
<1>5. ASSUME NEW a \in D
      PROVE  \E i \in DOMAIN acts : acts[i] = a
  <2>1. PICK i \in 1 .. Len(d) : d[i] = a
    BY <1>2
  <2>2. Len(u) + i \in DOMAIN acts /\ acts[Len(u) + i] = a
    BY <1>1, <1>2, <1>3, <2>1
  <2>3. QED
    BY <2>2
<1>6. QED
  BY <1>3, <1>4, <1>5 DEF Lists
=============================================================================
