--------------------------- MODULE Bootstrap_proofs ---------------------------
(***************************************************************************)
(* What a bootstrap whose sync is ok leaves behind, and when one may       *)
(* write, for any services, resources, flags and number of runs, whatever  *)
(* the services answer and wherever earlier runs were interrupted.         *)
(***************************************************************************)
EXTENDS Bootstrap, TLAPS

Configured(r) == copies[r] > 0 /\ right[r]

\* The write of the resource, if there is to be one, is still to come.
Pending(r) == at \in {"fetch", "validate", "wait", "seed"} \/ (at = "sync" /\ r \in left)

\* What was read of a resource stays true of it, because no write takes back
\* what is there: it may have been absent, but not have become so - and only this
\* run's own write can put it there.
SnapshotInv ==
    \A r \in Resources : /\ snap[r] = "same" => Configured(r)
                         /\ snap[r] = "differs" => copies[r] > 0
                         /\ snap[r] = "absent" /\ Pending(r) => copies[r] = 0

\* What an ok step says of a resource.
Settled(r) ==
    \/ r \in warned
    \/ copies[r] > 0 /\ (right[r] \/ snap[r] = "unread")
    \/ r \in Mistakable /\ IsCreate(r)

\* As long as no write failed, what has been dealt with is settled; a dry run,
\* whose plans fail, is never ok.
SyncInv ==
    /\ at = "sync" /\ ~opts.dryRun /\ ~failures =>
           \A r \in Resources \ left : Settled(r)
    /\ steps["sync"] = "ok" => ~opts.dryRun /\ \A r \in Resources : Settled(r)

\* A run that has come as far as this has the steps before it behind it.
OrderInv ==
    /\ at \in {"seed", "sync", "verify"} /\ ~opts.dryRun => steps["wait"] = "ok"
    /\ at = "sync" => steps["seed"] \in {"ok", "skipped"}
    /\ at = "fetch" => steps["sync"] = "none"

BootInv == TypeOK /\ SnapshotInv /\ SyncInv /\ OrderInv

-----------------------------------------------------------------------------

LEMMA BootInit == ASSUME BootstrapAssumption, Init PROVE BootInv
<1>1. TypeOK
  <2>1. copies \in [Resources -> 0 .. MaxCopies] /\ runs \in 0 .. MaxRuns
    BY DEF BootstrapAssumption, Init
  <2>2. steps \in [Steps -> Statuses] /\ snap \in [Resources -> Sights]
    BY DEF Init, NoSteps, Unread, Statuses, Sights
  <2> QED BY <2>1, <2>2 DEF Init, TypeOK
<1>2. SnapshotInv
  BY DEF Init, SnapshotInv, Unread
<1>3. SyncInv /\ OrderInv
  BY DEF Init, SyncInv, OrderInv, NoSteps, Steps
<1> QED BY <1>1, <1>2, <1>3 DEF BootInv

\* An action that writes nothing, reads nothing and fails nothing leaves the
\* snapshot as true as it was.
LEMMA SnapshotFrame ==
  ASSUME BootInv, UNCHANGED <<copies, right, snap>>,
         \A r \in Resources : Pending(r)' => Pending(r)
  PROVE SnapshotInv'
  BY DEF BootInv, SnapshotInv, Configured

LEMMA KeepsFlip ==
  ASSUME BootInv, NEW s \in Services, Flip(s) PROVE BootInv'
<1>1. TypeOK'
  BY DEF BootInv, TypeOK, Flip, world
<1>2. SnapshotInv' /\ SyncInv' /\ OrderInv'
  BY DEF BootInv, SnapshotInv, SyncInv, OrderInv, Settled, IsCreate, Pending, Configured, Flip, world
<1> QED BY <1>1, <1>2 DEF BootInv

\* A run begins with an empty snapshot and an empty report.
LEMMA KeepsStart ==
  ASSUME BootstrapAssumption, BootInv, NEW o \in Options, Start(o) PROVE BootInv'
<1>1. TypeOK'
  <2>1. steps' \in [Steps -> Statuses]
    BY DEF Start, NoSteps, Statuses
  <2>2. snap' \in [Resources -> Sights]
    BY DEF Start, Unread, Sights
  <2>3. at' \in {"validate", "fetch"} /\ left' \subseteq Services
    BY DEF Start
  <2>4. deps' \in BOOLEAN
    BY Zenon DEF Start
  <2>5. runs' \in 0 .. MaxRuns
    BY DEF Start, BootInv, TypeOK, BootstrapAssumption
  <2> QED BY <2>1, <2>2, <2>3, <2>4, <2>5 DEF BootInv, TypeOK, Start, world, Steps
<1>2. SnapshotInv'
  BY DEF Start, SnapshotInv, Unread
<1>3. steps'["sync"] = "none" /\ at' \in {"validate", "fetch"}
  BY DEF Start, NoSteps, Steps
<1>4. SyncInv' /\ OrderInv'
  BY <1>3 DEF SyncInv, OrderInv
<1> QED BY <1>1, <1>2, <1>4 DEF BootInv

\* The list New-API answers with shows what is there.
LEMMA SeenIsThere ==
  ASSUME TypeOK, NEW r \in Resources
  PROVE /\ "same" \in Seen(r) => Configured(r)
        /\ "differs" \in Seen(r) => copies[r] > 0
        /\ "absent" \in Seen(r) => copies[r] = 0
        /\ Seen(r) \subseteq Sights
<1>1. copies[r] \in Nat /\ right[r] \in BOOLEAN
  BY DEF TypeOK
<1>2. CASE copies[r] = 0
  BY <1>2 DEF Seen, Sights
<1>3. CASE copies[r] # 0 /\ ~right[r]
  BY <1>1, <1>3 DEF Seen, Sights
<1>4. CASE copies[r] # 0 /\ right[r]
  BY <1>1, <1>4 DEF Seen, Sights, Configured
<1> QED BY <1>2, <1>3, <1>4

LEMMA KeepsFetch ==
  ASSUME BootInv, NEW s \in Services, Fetch(s) PROVE BootInv'
<1>1. TypeOK'
  <2>1. at' \in {"fetch", "validate"} /\ (left' \subseteq Services \/ left' \subseteq Resources)
    BY DEF Fetch, BootInv, TypeOK
  <2>2. snap' \in [Resources -> Sights]
    BY DEF Fetch, BootInv, TypeOK
  <2> QED BY <2>1, <2>2 DEF BootInv, TypeOK, Fetch, world, Steps
<1>2. SnapshotInv'
  <2>1. at = "fetch" /\ UNCHANGED <<copies, right>>
    BY DEF Fetch, world
  <2> SUFFICES ASSUME NEW r \in Resources
               PROVE /\ snap'[r] = "same" => Configured(r)
                     /\ snap'[r] = "differs" => copies[r] > 0
                     /\ snap'[r] = "absent" => copies[r] = 0
    BY <2>1 DEF SnapshotInv, Configured
  <2>2. CASE snap'[r] = snap[r]
    BY <2>1, <2>2 DEF BootInv, SnapshotInv, Pending
  <2>3. CASE snap'[r] # snap[r]
    <3>1. snap'[r] \in Seen(r)
      BY <2>3 DEF Fetch
    <3> QED BY <3>1, SeenIsThere DEF BootInv
  <2> QED BY <2>2, <2>3
<1>3. at' \in {"fetch", "validate"} /\ at = "fetch" /\ UNCHANGED <<steps, opts>>
  BY DEF Fetch
<1>4. SyncInv' /\ OrderInv'
  BY <1>3 DEF BootInv, SyncInv, OrderInv
<1> QED BY <1>1, <1>2, <1>4 DEF BootInv

-----------------------------------------------------------------------------
\* The steps of a run that write nothing.

LEMMA KeepsWaiting ==
  ASSUME BootInv,
         Validate \/ WaitSkipped \/ WaitOver \/ WaitTimeout
           \/ \E s \in Services : WaitProbe(s)
  PROVE BootInv'
<1>1. TypeOK /\ SnapshotInv'
  BY SnapshotFrame
     DEF BootInv, Pending, Validate, WaitSkipped, WaitOver, WaitTimeout, WaitProbe, world
<1> USE DEF world, Report, Steps, Statuses
<1>2. CASE Validate
  <2>1. TypeOK'
    BY <1>1, <1>2 DEF TypeOK, Validate
  <2>2. steps'["sync"] = steps["sync"] /\ at' \in {"wait", "done"}
    BY <1>1, <1>2 DEF TypeOK, Validate
  <2>3. SyncInv' /\ OrderInv'
    BY <1>2, <2>2 DEF BootInv, SyncInv, OrderInv, Settled, IsCreate, Validate
  <2> QED BY <1>1, <2>1, <2>3 DEF BootInv
<1>3. CASE WaitSkipped \/ WaitOver
  <2>1. TypeOK'
    BY <1>1, <1>3 DEF TypeOK, WaitSkipped, WaitOver
  <2>2. /\ steps'["sync"] = steps["sync"] /\ at' = "seed"
        /\ ~opts.dryRun => steps'["wait"] = "ok"
    BY <1>1, <1>3 DEF TypeOK, WaitSkipped, WaitOver
  <2>3. SyncInv' /\ OrderInv'
    BY <1>3, <2>2 DEF BootInv, SyncInv, OrderInv, Settled, IsCreate, WaitSkipped, WaitOver
  <2> QED BY <1>1, <2>1, <2>3 DEF BootInv
<1>4. CASE WaitTimeout
  <2>1. TypeOK'
    BY <1>1, <1>4 DEF TypeOK, WaitTimeout
  <2>2. steps'["sync"] = steps["sync"] /\ at' = "done"
    BY <1>1, <1>4 DEF TypeOK, WaitTimeout
  <2>3. SyncInv' /\ OrderInv'
    BY <1>4, <2>2 DEF BootInv, SyncInv, OrderInv, Settled, IsCreate, WaitTimeout
  <2> QED BY <1>1, <2>1, <2>3 DEF BootInv
<1>5. ASSUME NEW s \in Services, WaitProbe(s) PROVE BootInv'
  <2>1. TypeOK'
    BY <1>1, <1>5 DEF TypeOK, WaitProbe
  <2>2. SyncInv' /\ OrderInv'
    BY <1>5 DEF BootInv, SyncInv, OrderInv, Settled, IsCreate, WaitProbe
  <2> QED BY <1>1, <2>1, <2>2 DEF BootInv
<1> QED BY <1>2, <1>3, <1>4, <1>5

\* Seeding opens the sync with everything still to write.
LEMMA KeepsSeed == ASSUME BootInv, SeedAdmin PROVE BootInv'
<1>1. TypeOK /\ SnapshotInv'
  BY SnapshotFrame DEF BootInv, Pending, SeedAdmin
<1> USE DEF Report, Steps, Statuses
<1>2. at' \in {"sync", "verify", "done"} /\ left' = Resources
  BY DEF SeedAdmin, AfterSeed
<1>3. \E status \in {"ok", "skipped", "failed"} :
          /\ steps' = [steps EXCEPT !["seed"] = status]
          /\ at' # "done" => status # "failed"
  BY DEF SeedAdmin, AfterSeed
<1>4. TypeOK'
  <2>1. steps' \in [Steps -> Statuses]
    BY <1>1, <1>3 DEF TypeOK
  <2>2. seeded' \in BOOLEAN
    BY <1>1 DEF TypeOK, SeedAdmin
  <2> QED BY <1>1, <1>2, <2>1, <2>2 DEF TypeOK, SeedAdmin
<1>5. /\ steps'["sync"] = steps["sync"] /\ steps'["wait"] = steps["wait"]
      /\ at' # "done" => steps'["seed"] \in {"ok", "skipped"}
  BY <1>1, <1>3 DEF TypeOK
<1>6. SyncInv'
  BY <1>2, <1>5 DEF BootInv, SyncInv, Settled, IsCreate, SeedAdmin
<1>7. OrderInv'
  BY <1>2, <1>5 DEF BootInv, OrderInv, SeedAdmin
<1> QED BY <1>1, <1>4, <1>6, <1>7 DEF BootInv

\* One write and its verification: what is in place stays, and what a verdict
\* without a warning says is so.
LEMMA KeepsSyncOne ==
  ASSUME BootstrapAssumption, BootInv, NEW r \in Resources, SyncOne(r)
  PROVE BootInv'
<1> USE DEF BootInv
<1>0. /\ at = "sync" /\ r \in left /\ left' = left \ {r} /\ ~opts.dryRun
      /\ UNCHANGED <<up, seeded, at, opts, deps, snap, steps, drift, runs>>
      /\ UNCHANGED <<copies, right>> \/ (Write(r) /\ copies[r] < MaxCopies)
      /\ failures' \in {failures, TRUE} /\ warned' \in {warned, warned \union {r}}
  BY DEF SyncOne, Warn
<1>1. \A q \in Resources : /\ copies[q] \in Nat
                           /\ copies'[q] \in Nat /\ copies'[q] >= copies[q]
                           /\ right[q] => right'[q]
                           /\ q # r => copies'[q] = copies[q]
  <2>1. CASE UNCHANGED <<copies, right>>
    BY <2>1 DEF TypeOK
  <2>2. CASE Write(r)
    BY <2>2 DEF Write, TypeOK
  <2> QED BY <1>0, <2>1, <2>2
<1>2. \A q \in Resources : /\ Configured(q) => Configured(q)'
                           /\ Settled(q) => Settled(q)'
  <2>1. warned \subseteq warned' /\ snap' = snap
    BY <1>0
  <2> QED BY <1>1, <2>1 DEF Configured, Settled, IsCreate
<1>3. TypeOK'
  <2>1. copies' \in [Resources -> 0 .. MaxCopies]
    BY <1>0 DEF Write, TypeOK, BootstrapAssumption
  <2>2. right' \in [Resources -> BOOLEAN]
    BY <1>0 DEF Write, TypeOK
  <2>3. failures' \in BOOLEAN /\ warned' \subseteq Resources
    BY <1>0 DEF TypeOK
  <2>4. left' \subseteq Services \/ left' \subseteq Resources
    BY <1>0 DEF TypeOK
  <2> QED BY <1>0, <2>1, <2>2, <2>3, <2>4 DEF TypeOK
<1>4. SnapshotInv'
  <2> SUFFICES ASSUME NEW q \in Resources
               PROVE /\ snap[q] = "same" => Configured(q)'
                     /\ snap[q] = "differs" => copies'[q] > 0
                     /\ snap[q] = "absent" /\ Pending(q)' => copies'[q] = 0
    BY <1>0 DEF SnapshotInv
  <2>1. snap[q] = "same" => Configured(q)'
    BY <1>2 DEF SnapshotInv
  <2>2. snap[q] = "differs" => copies'[q] > 0
    BY <1>1 DEF SnapshotInv
  <2>3. Pending(q)' => q # r /\ Pending(q)
    BY <1>0 DEF Pending
  <2>4. snap[q] = "absent" /\ Pending(q)' => copies'[q] = 0
    BY <1>1, <2>3 DEF SnapshotInv
  <2> QED BY <2>1, <2>2, <2>4
<1>5. ~failures' => ~failures /\ Settled(r)'
  <2> SUFFICES ASSUME ~failures' PROVE ~failures /\ Settled(r)'
    OBVIOUS
  <2>1. ~failures
    <3>1. failures \in BOOLEAN
      BY DEF TypeOK
    <3>2. failures' \in {failures, TRUE}
      BY <1>0
    <3> QED BY <3>1, <3>2, Zenon
  <2> SUFFICES Settled(r)'
    BY <2>1
  <2>0. /\ snap[r] \in {"unread", "absent", "differs", "same"}
        /\ right[r] \in BOOLEAN /\ copies[r] \in Nat
    BY DEF TypeOK, Sights
  <2>2. CASE snap[r] = "same"
    BY <2>2, <1>2 DEF SnapshotInv, Settled, Configured
  <2>3. CASE snap[r] # "same" /\ Write(r)
    <3>1. right'[r]
      BY <2>3 DEF Write, TypeOK
    <3>2. copies'[r] > 0
      <4>1. CASE IsCreate(r)
        BY <2>3, <4>1, <1>1 DEF Write, TypeOK
      <4>2. CASE ~IsCreate(r)
        <5>1. snap[r] = "differs"
          BY <2>0, <2>3, <4>2 DEF IsCreate
        <5> QED BY <5>1, <1>1 DEF SnapshotInv
      <4> QED BY <4>1, <4>2
    <3> QED BY <3>1, <3>2 DEF Settled
  <2>4. CASE Warn(r)
    BY <2>4 DEF Warn, Settled
  <2>5. CASE snap[r] # "same" /\ PassesUndone(r) /\ UNCHANGED <<copies, right>>
    <3>1. CASE IsCreate(r) /\ copies[r] > 0
      <4>1. snap[r] = "unread"
        BY <1>0, <2>0, <3>1 DEF IsCreate, SnapshotInv, Pending
      <4> QED BY <1>0, <2>5, <3>1, <4>1 DEF Settled
    <3>2. CASE IsCreate(r) /\ r \in Mistakable
      BY <1>0, <3>2 DEF Settled, IsCreate
    <3>3. CASE ~IsCreate(r)
      <4>1. snap[r] = "differs"
        BY <2>0, <2>5, <3>3 DEF IsCreate
      <4>2. right[r] /\ copies[r] > 0
        BY <2>5, <3>3, <4>1 DEF PassesUndone, SnapshotInv
      <4> QED BY <2>5, <4>2 DEF Settled
    <3> QED BY <2>5, <3>1, <3>2, <3>3 DEF PassesUndone
  <2>6. \/ snap[r] = "same"
        \/ snap[r] # "same" /\ Write(r)
        \/ Warn(r)
        \/ snap[r] # "same" /\ PassesUndone(r) /\ UNCHANGED <<copies, right>>
    BY DEF SyncOne
  <2> QED BY <2>2, <2>3, <2>4, <2>5, <2>6
<1>6. SyncInv'
  <2>1. failures \in BOOLEAN
    BY DEF TypeOK
  <2>2. ASSUME ~failures' PROVE \A q \in Resources \ left' : Settled(q)'
    <3>1. \A q \in Resources \ left : Settled(q)
      BY <1>0, <1>5, <2>2 DEF SyncInv
    <3> QED BY <1>0, <1>2, <1>5, <2>2, <3>1
  <2>3. steps["sync"] = "ok" => \A q \in Resources : Settled(q)'
    BY <1>2 DEF SyncInv
  <2> QED BY <1>0, <2>2, <2>3 DEF SyncInv
<1>7. OrderInv'
  BY <1>0 DEF OrderInv
<1> QED BY <1>3, <1>4, <1>6, <1>7

\* The plans of a dry run fail.
LEMMA KeepsDryPlans == ASSUME BootInv, DryPlansFail PROVE BootInv'
<1>1. TypeOK' /\ SnapshotInv'
  BY SnapshotFrame DEF BootInv, Pending, TypeOK, DryPlansFail, world
<1>2. SyncInv' /\ OrderInv'
  BY DEF BootInv, SyncInv, OrderInv, Settled, IsCreate, DryPlansFail, world
<1> QED BY <1>1, <1>2 DEF BootInv

\* The sync step is reported ok only when nothing is left and nothing failed.
LEMMA KeepsSyncOver ==
  ASSUME BootInv, SyncOver PROVE BootInv'
<1>1. TypeOK /\ SnapshotInv'
  BY SnapshotFrame DEF BootInv, Pending, SyncOver, world
<1> USE DEF Report, Steps, Statuses
<1>2. TypeOK'
  BY <1>1 DEF TypeOK, SyncOver, SyncStatus, world
<1>3. /\ steps'["sync"] = SyncStatus /\ steps'["wait"] = steps["wait"]
      /\ at' \in {"verify", "done"}
  BY <1>1 DEF TypeOK, SyncOver
<1>4. SyncStatus = "ok" => ~opts.dryRun /\ \A r \in Resources : Settled(r)
  BY <1>1 DEF BootInv, SyncInv, SyncStatus, SyncOver
<1>5. SyncInv'
  BY <1>3, <1>4 DEF SyncInv, SyncOver, Settled, IsCreate, world
<1>6. OrderInv'
  BY <1>3 DEF BootInv, OrderInv, SyncOver
<1> QED BY <1>1, <1>2, <1>5, <1>6 DEF BootInv

LEMMA KeepsVerify ==
  ASSUME BootInv,
         VerifySkipped \/ VerifyDrift \/ \E s \in Services : VerifyProbe(s)
  PROVE BootInv'
<1>1. TypeOK /\ SnapshotInv'
  BY SnapshotFrame DEF BootInv, Pending, VerifySkipped, VerifyDrift, VerifyProbe, world
<1> USE DEF Report, Steps, Statuses, world
<1>2. TypeOK'
  <2>1. CASE VerifySkipped
    BY <1>1, <2>1 DEF TypeOK, VerifySkipped
  <2>2. CASE VerifyDrift
    BY <1>1, <2>2 DEF TypeOK, VerifyDrift, BlockingDrift
  <2>3. ASSUME NEW s \in Services, VerifyProbe(s) PROVE TypeOK'
    BY <1>1, <2>3 DEF TypeOK, VerifyProbe
  <2> QED BY <2>1, <2>2, <2>3
<1>3. /\ at' \in {"verify", "done"} /\ at = "verify"
      /\ steps'["sync"] \in {steps["sync"], "skipped"}
      /\ steps'["wait"] = steps["wait"]
      /\ UNCHANGED <<copies, right, opts, snap, warned>>
  BY <1>1 DEF TypeOK, VerifySkipped, VerifyDrift, VerifyProbe
<1>4. SyncInv' /\ OrderInv'
  BY <1>3 DEF BootInv, SyncInv, OrderInv, Settled, IsCreate
<1> QED BY <1>1, <1>2, <1>4 DEF BootInv

LEMMA KeepsInterrupt == ASSUME BootInv, Interrupt PROVE BootInv'
<1>1. TypeOK' /\ SnapshotInv'
  BY SnapshotFrame DEF BootInv, Pending, TypeOK, Interrupt, world
<1>2. SyncInv' /\ OrderInv'
  BY DEF BootInv, SyncInv, OrderInv, Settled, IsCreate, Interrupt, world
<1> QED BY <1>1, <1>2 DEF BootInv

LEMMA BootStep ==
  ASSUME BootstrapAssumption, BootInv, [Next]_vars PROVE BootInv'
<1>1. CASE UNCHANGED vars
  BY <1>1 DEF vars, world, BootInv, TypeOK, SnapshotInv, SyncInv, OrderInv,
             Pending, Settled, IsCreate, Configured
<1>2. ASSUME NEW s \in Services, Flip(s) PROVE BootInv'
  BY <1>2, KeepsFlip
<1>3. ASSUME NEW o \in Options, Start(o) PROVE BootInv'
  BY <1>3, KeepsStart
<1>4. CASE RunStep
  <2>1. ASSUME NEW s \in Services, Fetch(s) PROVE BootInv'
    BY <2>1, KeepsFetch
  <2>2. ASSUME NEW r \in Resources, SyncOne(r) PROVE BootInv'
    BY <2>2, KeepsSyncOne
  <2> QED BY <1>4, <2>1, <2>2, KeepsWaiting, KeepsSeed, KeepsDryPlans, KeepsSyncOver, KeepsVerify
          DEF RunStep
<1>5. CASE WaitTimeout \/ Interrupt
  BY <1>5, KeepsWaiting, KeepsInterrupt
<1> QED BY <1>1, <1>2, <1>3, <1>4, <1>5 DEF Next

\* The invariant holds in every reachable state.
THEOREM BootstrapInvariant == Spec => []BootInv
<1>1. Init => BootInv
  BY BootInit, BootstrapAssumption
<1>2. BootInv /\ [Next]_vars => BootInv'
  BY BootStep, BootstrapAssumption
<1> QED BY <1>1, <1>2, PTL DEF Spec

\* Every variable keeps the values the code gives it.
THEOREM BootstrapTypeCorrect == Spec => []TypeOK
<1>1. BootInv => TypeOK
  BY DEF BootInv
<1> QED BY <1>1, BootstrapInvariant, PTL

\* When the sync step is ok, each resource without a drift warning is in place, as
\* far as Verify reads it back: New-API and Bifrost may come and go and accept writes
\* they do not do, other runs may have been cut off between any two writes, and the
\* plan is from before the services were awaited.
THEOREM SuccessMeansConfigured == Spec => []SyncedMeansConfigured
<1>1. BootInv => SyncedMeansConfigured
  BY DEF BootInv, SyncInv, SyncedMeansConfigured, Settled
<1> QED BY <1>1, BootstrapInvariant, PTL

\* No step of any run writes before the services were all seen healthy, none
\* writes a resource before the seed step was skipped or answered (an answer that
\* refuses the account included), and a dry run never writes.
THEOREM WritesAwaitTheServices == Spec => WritesOnlyWhenReady
<1> DEFINE Ready == /\ ~opts.dryRun /\ steps["wait"] = "ok"
                    /\ <<copies, right>>' # <<copies, right>>
                          => steps["seed"] \in {"ok", "skipped"}
<1>1. BootInv /\ [Next]_vars => [world' # world => Ready]_vars
  <2> SUFFICES ASSUME BootInv, Next, world' # world PROVE Ready
    BY DEF vars
  <2>1. ASSUME NEW s \in Services, Flip(s) PROVE Ready
    BY <2>1 DEF Flip
  <2>2. ASSUME NEW o \in Options, Start(o) PROVE Ready
    BY <2>2 DEF Start
  <2>3. ASSUME NEW s \in Services, Fetch(s) \/ WaitProbe(s) \/ VerifyProbe(s) PROVE Ready
    BY <2>3 DEF Fetch, WaitProbe, VerifyProbe
  <2>4. CASE Validate \/ WaitSkipped \/ WaitOver \/ WaitTimeout \/ Interrupt
    BY <2>4 DEF Validate, WaitSkipped, WaitOver, WaitTimeout, Interrupt
  <2>5. CASE DryPlansFail \/ SyncOver \/ VerifySkipped \/ VerifyDrift
    BY <2>5 DEF DryPlansFail, SyncOver, VerifySkipped, VerifyDrift
  <2>6. CASE SeedAdmin
    <3>1. UNCHANGED <<copies, right>> /\ at = "seed"
      BY <2>6 DEF SeedAdmin
    <3>2. ~opts.dryRun
      BY <2>6, <3>1 DEF SeedAdmin, SeedIsSkipped, world
    <3> QED BY <3>1, <3>2 DEF BootInv, OrderInv
  <2>7. ASSUME NEW r \in Resources, SyncOne(r) PROVE Ready
    <3>1. at = "sync" /\ ~opts.dryRun
      BY <2>7 DEF SyncOne, world
    <3> QED BY <3>1 DEF BootInv, OrderInv
  <2> QED BY <2>1, <2>2, <2>3, <2>4, <2>5, <2>6, <2>7 DEF Next, RunStep
<1>2. Spec => [][world' # world => Ready]_vars
  BY <1>1, BootstrapInvariant, PTL DEF Spec
<1> QED BY <1>2 DEF WritesOnlyWhenReady
=============================================================================
