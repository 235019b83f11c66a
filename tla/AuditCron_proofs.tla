-------------------------- MODULE AuditCron_proofs --------------------------
(***************************************************************************)
(* The audited runs are runs of SyncOrchestrator: the audit log, bootstrap *)
(* and cron only add steps that leave them alone.  So what is proved of    *)
(* the orchestrator holds of them, for every log and every schedule of     *)
(* cron, and the trail they leave can be proved from it.                   *)
(***************************************************************************)
EXTENDS AuditCron, SyncOrchestrator_proofs

\* Every step of the audited runs is one of the orchestrator or leaves it alone.
LEMMA StepIsOrchestrators == [Next]_vars => [OrchNext]_orchVars
<1> SUFFICES ASSUME [Next]_vars PROVE [OrchNext]_orchVars
  OBVIOUS
<1>1. ASSUME NEW r \in Runs, NEW o \in Options, StartSync(r, o) PROVE OrchNext
  BY <1>1 DEF StartSync, OrchNext
<1>2. ASSUME NEW r \in Runs, SyncStep(r) PROVE OrchNext
  BY <1>2 DEF SyncStep, OrchNext
<1>3. ASSUME NEW r \in Runs, WriteAudit(r) PROVE UNCHANGED orchVars
  BY <1>3 DEF WriteAudit
<1>4. ASSUME NEW r \in Runs, SyncCrash(r) PROVE OrchNext
  BY <1>4 DEF SyncCrash, OrchNext
<1>5. CASE BootstrapAudit
  BY <1>5 DEF BootstrapAudit
<1>6. CASE CronTick
  BY <1>6 DEF CronTick
<1>7. CASE UNCHANGED vars
  BY <1>7 DEF vars
<1> QED
  BY <1>1, <1>2, <1>3, <1>4, <1>5, <1>6, <1>7 DEF Next

\* The audited runs implement the orchestrator, for every log and every schedule
\* of cron.
THEOREM AuditedRunsAreRuns == Spec => OrchSafety
<1>1. Init => OrchInit
  BY DEF Init
<1> QED
  BY <1>1, StepIsOrchestrators, PTL DEF Spec, OrchSafety

\* Fail-fast, dependency order, the meaning of exit code 0 and the agreement of
\* counters and results therefore hold of runs that are audited and watched by cron.
THEOREM AuditedRunsKeepOrder ==
  Spec => [](FailFastStops /\ DependencyOrder /\ ZeroExitMeansNoFailure /\ CountersMatchResults)
BY AuditedRunsAreRuns, FailFastAlwaysStops, AlwaysInDependencyOrder, ZeroExitIsSuccess,
   CountersAlwaysMatchResults, PTL

-----------------------------------------------------------------------------
\* Only the last line can be without its end.
LogInv ==
  /\ log \in Seq(Line) /\ Len(log) =< MaxLog
  /\ \A i \in DOMAIN log : log[i] = "cut" => i = Len(log)

\* What is known of run r's entry while it is still to come: one that is written
\* stays what the report says, since nothing but the exit follows the append.
EntryInv(r) ==
  /\ entry[r] \in DOMAIN log \union {Unwritten, Refused}
  /\ entry[r] \in DOMAIN log =>
       /\ Audited(r) /\ phase[r] \notin {"plan", "apply", "verify"}
       /\ phase[r] \in {"done", "exited"} =>
            \/ log[entry[r]] \in Broken
            \/ log[entry[r]] = "failures" <=> report[r].failed > 0
  /\ phase[r] = "exited" /\ Audited(r) => entry[r] # Unwritten

EntryIsMap == entry = [r \in Runs |-> entry[r]]

\* Inductive invariant of the audit trail, beside the orchestrator's.
AuditInv ==
  /\ LogInv
  /\ EntryIsMap /\ \A r \in Runs : EntryInv(r)
  /\ alerted \in BOOLEAN

\* What an append does to the lines before it: a line without its end takes in
\* the new one and stays broken, every other line is kept.
LEMMA AppendKeeps ==
  ASSUME AuditAssumption, LogInv, CanAppend, NEW line \in {"clean", "failures", "cut"},
         NEW new, new = Appended(line)
  PROVE  /\ new \in Seq(Line) /\ Len(new) =< MaxLog
         /\ Len(new) \in DOMAIN new
         /\ new[Len(new)] = line \/ new[Len(new)] \in Broken
         /\ \A i \in DOMAIN new : new[i] = "cut" => i = Len(new)
         /\ \A i \in DOMAIN log : /\ i \in DOMAIN new
                                  /\ new[i] = log[i] \/ {log[i], new[i]} \subseteq Broken
<1>0. MaxLog \in Nat /\ Len(log) \in Nat /\ DOMAIN log = 1 .. Len(log) /\ line \in Line
  BY DEF AuditAssumption, LogInv, Line
<1>1. CASE ~Continues
  <2>1. new = Append(log, line)
    BY <1>1 DEF Appended
  <2>2. /\ new \in Seq(Line) /\ Len(new) = Len(log) + 1 /\ new[Len(log) + 1] = line
        /\ \A i \in 1 .. Len(log) : new[i] = log[i]
        /\ DOMAIN new = 1 .. (Len(log) + 1)
    BY <1>0, <2>1 DEF LogInv
  <2>3. \A i \in DOMAIN log : log[i] # "cut"
    BY <1>0, <1>1 DEF Continues, LogInv
  <2>4. Len(new) =< MaxLog
    BY <1>0, <1>1, <2>2 DEF CanAppend
  <2>5. QED
    BY <1>0, <2>2, <2>3, <2>4
<1>2. CASE Continues
  <2> DEFINE merged == IF line = "cut" THEN "cut" ELSE "garbled"
  <2>1. new = [log EXCEPT ![Len(log)] = merged]
    BY <1>2 DEF Appended
  <2>2. Len(log) \in DOMAIN log /\ log[Len(log)] = "cut"
    BY <1>0, <1>2 DEF Continues, LogInv
  <2>3. merged \in Broken /\ merged \in Line /\ "cut" \in Broken
    BY DEF Broken, Line
  <2>4. /\ new \in Seq(Line) /\ Len(new) = Len(log) /\ DOMAIN new = DOMAIN log
        /\ new[Len(log)] = merged /\ \A i \in DOMAIN log \ {Len(log)} : new[i] = log[i]
    <3> HIDE DEF merged
    <3> QED
      BY <1>0, <2>1, <2>2, <2>3 DEF LogInv
  <2>5. QED
    <3> HIDE DEF merged
    <3> QED
      BY <1>0, <2>2, <2>3, <2>4 DEF LogInv
<1>3. QED
  BY <1>1, <1>2

\* An append leaves the entries written before it what they were.
LEMMA EntryOutlivesAppend ==
  ASSUME AuditAssumption, LogInv, NEW r \in Runs, EntryInv(r), Same(r), entry'[r] = entry[r],
         DOMAIN log \subseteq DOMAIN log', Len(log') \in Nat, Len(log') =< MaxLog,
         DOMAIN log' = 1 .. Len(log'),
         \A i \in DOMAIN log : log'[i] = log[i] \/ {log[i], log'[i]} \subseteq Broken
  PROVE  EntryInv(r)'
<1>1. Audited(r)' = Audited(r)
  BY DEF Audited, Same
<1>2. Unwritten \notin DOMAIN log' /\ Refused \notin DOMAIN log'
  BY DEF AuditAssumption, Unwritten, Refused
<1>3. entry'[r] \in DOMAIN log' \union {Unwritten, Refused}
  BY DEF EntryInv
<1>4. entry'[r] \in DOMAIN log' => entry[r] \in DOMAIN log
  BY <1>2 DEF EntryInv
<1>5. QED
  BY <1>1, <1>3, <1>4, Zenon DEF EntryInv, Same

\* A run's own steps up to its exit find no entry of it yet, and the exit finds one.
LEMMA StepKeepsEntry ==
  ASSUME AuditAssumption, OrchIInv, LogInv, NEW r \in Runs, EntryInv(r),
         SyncStep(r) \/ SyncCrash(r)
  PROVE  EntryInv(r)'
<1>1. entry' = entry /\ log' = log
  BY DEF SyncStep, SyncCrash, auditVars
<1>2. opts' = opts /\ phase \in [Runs -> Phase]
  BY DEF SyncStep, SyncCrash, OrchStep, PlanFails, PlanReturns, ApplyFails, ApplySucceeds,
         VerifyReturns, Return, Exit, Crash, OrchIInv, OrchTypeOK
<1>3. Audited(r)' = Audited(r)
  BY <1>2 DEF Audited
<1>4. CASE Exit(r) /\ SyncStep(r)
  <2>1. phase[r] = "done" /\ phase'[r] = "exited" /\ report' = report
    BY <1>2, <1>4 DEF Exit
  <2>2. Audited(r) => entry[r] # Unwritten
    BY <1>4, <2>1 DEF SyncStep
  <2>3. QED
    BY <1>1, <1>3, <2>1, <2>2, Zenon DEF EntryInv
<1>5. CASE Crash(r)
  <2>1. phase'[r] = "crashed"
    BY <1>2, <1>5 DEF Crash
  <2>2. QED
    BY <1>1, <1>3, <2>1, Zenon DEF EntryInv
<1>6. CASE OrchStep(r) /\ ~Exit(r)
  <2>1. phase[r] \in {"plan", "apply", "verify"}
    BY <1>6 DEF OrchStep, PlanFails, PlanReturns, TakeNext, ApplyFails, ApplySucceeds,
                VerifyReturns, Return
  <2>2. phase'[r] # "exited"
    BY <1>2, <1>6, <2>1 DEF OrchStep, PlanFails, PlanReturns, ApplyFails, ApplySucceeds,
                VerifyReturns, Return, AfterFailure, NextAction
  <2>3. entry[r] \notin DOMAIN log
    BY <2>1 DEF EntryInv
  <2>4. QED
    BY <1>1, <1>3, <2>2, <2>3, Zenon DEF EntryInv
<1>7. QED
  BY <1>4, <1>5, <1>6 DEF SyncStep, SyncCrash

\* A step of run r leaves what the orchestrator knows of the other runs alone.
LEMMA OthersSame ==
  ASSUME OrchIInv, NEW r \in Runs,
         OrchStep(r) \/ Crash(r) \/ \E o \in Options : Start(r, o)
  PROVE  \A s \in Runs \ {r} : Same(s)
<1>1. AnyStep(r)
  BY OrchestratorAssumption DEF OrchStep, AnyStep, OrchestratorAssumption
<1>2. QED
  BY <1>1, OrchestratorAssumption, StepOfOneRun

LEMMA AuditInvKept == AuditInv /\ OrchIInv /\ [Next]_vars => AuditInv'
<1> SUFFICES ASSUME AuditInv, OrchIInv, [Next]_vars PROVE AuditInv'
  OBVIOUS
<1> USE AuditAssumption
<1>0. /\ MaxLog \in Nat /\ Len(log) \in Nat /\ DOMAIN log = 1 .. Len(log)
      /\ Unwritten \notin DOMAIN log /\ Refused \notin DOMAIN log /\ Unwritten # Refused
      /\ DOMAIN entry = Runs
  <2>1. DOMAIN entry = Runs
    BY DEF AuditInv, EntryIsMap
  <2>2. QED
    BY <2>1 DEF AuditAssumption, AuditInv, LogInv, Unwritten, Refused
\* Where no line is added, the entries of runs that stay as they are keep.
<1>1. ASSUME log' = log, NEW s \in Runs, Same(s), entry'[s] = entry[s]
      PROVE  EntryInv(s)'
  BY <1>0, <1>1, EntryOutlivesAppend DEF AuditInv, LogInv
<1>2. ASSUME log' = log
      PROVE  LogInv'
  BY <1>2 DEF AuditInv, LogInv
\* Where one is, they keep as well.
<1>3. ASSUME CanAppend, NEW line \in {"clean", "failures", "cut"}, log' = Appended(line)
      PROVE  /\ LogInv'
             /\ \A s \in Runs : Same(s) /\ entry'[s] = entry[s] => EntryInv(s)'
             /\ Len(log') \in DOMAIN log'
             /\ log'[Len(log')] = line \/ log'[Len(log')] \in Broken
  <2>1. /\ log' \in Seq(Line) /\ Len(log') =< MaxLog
        /\ Len(log') \in DOMAIN log'
        /\ log'[Len(log')] = line \/ log'[Len(log')] \in Broken
        /\ \A i \in DOMAIN log' : log'[i] = "cut" => i = Len(log')
        /\ \A i \in DOMAIN log :
             /\ i \in DOMAIN log'
             /\ log'[i] = log[i] \/ {log[i], log'[i]} \subseteq Broken
    BY <1>3, AppendKeeps DEF AuditInv
  <2>2. Len(log') \in Nat /\ DOMAIN log' = 1 .. Len(log')
    BY <2>1
  <2>3. ASSUME NEW s \in Runs, Same(s), entry'[s] = entry[s]
        PROVE  EntryInv(s)'
    BY <2>1, <2>2, <2>3, EntryOutlivesAppend DEF AuditInv
  <2>4. QED
    BY <2>1, <2>3 DEF LogInv
<1>4. ASSUME NEW r \in Runs, NEW o \in Options, StartSync(r, o)
      PROVE  AuditInv'
  <2>1. /\ entry' = [entry EXCEPT ![r] = Unwritten] /\ log' = log /\ alerted' = alerted
        /\ phase'[r] = "plan"
    BY <1>4 DEF StartSync, Start, OrchIInv, OrchTypeOK
  <2>2. EntryInv(r)'
    <3>1. entry'[r] = Unwritten /\ Unwritten \notin DOMAIN log'
      BY <1>0, <2>1
    <3>2. QED
      BY <2>1, <3>1 DEF EntryInv
  <2>3. \A s \in Runs \ {r} : EntryInv(s)'
    BY <1>1, <1>4, <2>1, OthersSame DEF StartSync
  <2>4. EntryIsMap'
    BY <1>0, <2>1 DEF EntryIsMap
  <2>5. QED
    BY <1>2, <2>1, <2>2, <2>3, <2>4 DEF AuditInv
<1>5. ASSUME NEW r \in Runs, SyncStep(r) \/ SyncCrash(r)
      PROVE  AuditInv'
  <2>1. entry' = entry /\ log' = log /\ alerted' = alerted
    BY <1>5 DEF SyncStep, SyncCrash, auditVars
  <2>2. EntryInv(r)'
    BY <1>5, StepKeepsEntry DEF AuditInv
  <2>3. \A s \in Runs \ {r} : EntryInv(s)'
    BY <1>1, <1>5, <2>1, OthersSame DEF SyncStep, SyncCrash
  <2>4. QED
    BY <1>2, <2>1, <2>2, <2>3 DEF AuditInv, EntryIsMap
<1>6. ASSUME UNCHANGED orchVars
      PROVE  \A s \in Runs : Same(s)
  BY <1>6 DEF orchVars, Same
<1>7. ASSUME NEW r \in Runs, WriteAudit(r)
      PROVE  AuditInv'
  <2>1. /\ phase[r] = "done" /\ Audited(r) /\ alerted' = alerted /\ UNCHANGED orchVars
        /\ phase'[r] = "done" /\ Audited(r)' /\ report' = report
    BY <1>7 DEF WriteAudit, orchVars, Audited
  <2>2. CASE /\ CanAppend
             /\ log' \in {Appended(Outcome(r)), Appended("cut")}
             /\ entry' = [entry EXCEPT ![r] = Len(log')]
    <3>1. PICK line \in {Outcome(r), "cut"} : log' = Appended(line)
      BY <2>2
    <3>2. line \in {"clean", "failures", "cut"}
      BY <3>1 DEF Outcome
    <3>3. /\ LogInv'
          /\ \A s \in Runs : Same(s) /\ entry'[s] = entry[s] => EntryInv(s)'
          /\ Len(log') \in DOMAIN log'
          /\ log'[Len(log')] = line \/ log'[Len(log')] \in Broken
      BY <1>3, <2>2, <3>1, <3>2
    <3>4. entry'[r] = Len(log') /\ \A s \in Runs \ {r} : entry'[s] = entry[s]
      BY <1>0, <2>2
    <3>5. \/ log'[Len(log')] \in Broken
          \/ log'[Len(log')] = "failures" <=> report[r].failed > 0
      BY <3>1, <3>3 DEF Outcome, Broken
    <3>6. entry'[r] # Unwritten
      BY <3>3, <3>4 DEF LogInv, Unwritten
    <3>7. EntryInv(r)'
      BY <2>1, <3>3, <3>4, <3>5, <3>6 DEF EntryInv
    <3>8. \A s \in Runs \ {r} : EntryInv(s)'
      BY <1>6, <2>1, <3>3, <3>4
    <3>9. EntryIsMap'
      BY <1>0, <2>2 DEF EntryIsMap
    <3>10. QED
      BY <2>1, <3>3, <3>7, <3>8, <3>9 DEF AuditInv
  <2>3. CASE entry' = [entry EXCEPT ![r] = Refused] /\ UNCHANGED log
    <3>1. entry'[r] = Refused /\ \A s \in Runs \ {r} : entry'[s] = entry[s]
      BY <1>0, <2>3
    <3>2. EntryInv(r)'
      BY <1>0, <2>1, <2>3, <3>1 DEF EntryInv
    <3>3. \A s \in Runs \ {r} : EntryInv(s)'
      BY <1>1, <1>6, <2>1, <2>3, <3>1
    <3>4. EntryIsMap'
      BY <1>0, <2>3 DEF EntryIsMap
    <3>5. QED
      BY <1>2, <2>1, <2>3, <3>2, <3>3, <3>4 DEF AuditInv
  <2>4. QED
    BY <1>7, <2>2, <2>3 DEF WriteAudit
<1>8. CASE BootstrapAudit
  BY <1>3, <1>6, <1>8 DEF BootstrapAudit, AuditInv, EntryIsMap
<1>9. CASE CronTick
  <2>1. alerted' \in BOOLEAN /\ entry' = entry /\ log' = log /\ UNCHANGED orchVars
    BY <1>9 DEF CronTick, Scan
  <2>2. QED
    BY <1>1, <1>2, <1>6, <2>1 DEF AuditInv, EntryIsMap
<1>10. CASE UNCHANGED vars
  <2>1. entry' = entry /\ log' = log /\ alerted' = alerted /\ UNCHANGED orchVars
    BY <1>10 DEF vars, auditVars
  <2>2. QED
    BY <1>1, <1>2, <1>6, <2>1 DEF AuditInv, EntryIsMap
<1>11. QED
  BY <1>4, <1>5, <1>7, <1>8, <1>9, <1>10 DEF Next

\* However appends are cut short, refused or run into each other, and whoever
\* else writes the log: the inductive invariants of runs and trail hold throughout.
THEOREM AuditInvariant == Spec => [](OrchIInv /\ AuditInv)
<1>1. Init => AuditInv
  <2> SUFFICES ASSUME Init PROVE AuditInv
    OBVIOUS
  <2>1. log = <<>> /\ Len(log) = 0 /\ DOMAIN log = {} /\ log \in Seq(Line) /\ alerted = FALSE
    BY DEF Init
  <2>2. LogInv
    BY <2>1, AuditAssumption DEF LogInv, AuditAssumption
  <2>3. \A r \in Runs : entry[r] = Unwritten /\ phase[r] = "idle"
    BY DEF Init, OrchInit
  <2>4. EntryIsMap
    BY DEF Init, EntryIsMap
  <2>5. QED
    BY <2>1, <2>2, <2>3, <2>4 DEF AuditInv, EntryInv
<1>2. Spec => []OrchIInv
  BY AuditedRunsAreRuns, OrchInvariant, PTL
<1>3. QED
  BY <1>1, <1>2, AuditInvKept, PTL DEF Spec

\* Every state is well typed: entries are lines of the log, only whose last line
\* can be without its end.
THEOREM AuditTypeCorrect == Spec => []TypeOK
<1>1. OrchIInv /\ AuditInv => TypeOK
  BY DEF OrchIInv, AuditInv, LogInv, EntryIsMap, EntryInv, TypeOK
<1>2. QED
  BY <1>1, AuditInvariant, PTL

\* The audit trail never contradicts an exit code: a run that exits has its line
\* unless it was not wanted or could not be written, and a line that can be read
\* records failures exactly when the process exited with 2.
THEOREM AuditAlwaysTellsOfRuns == Spec => []AuditTellsOfRuns
<1>1. OrchIInv /\ AuditInv => AuditTellsOfRuns
  <2> SUFFICES ASSUME OrchIInv, AuditInv, NEW r \in Runs
               PROVE  /\ exit[r] # NoExit /\ Audited(r) => entry[r] # Unwritten
                      /\ entry[r] \in DOMAIN log =>
                           /\ Audited(r) /\ phase[r] \notin {"plan", "apply", "verify"}
                           /\ exit[r] # NoExit =>
                                \/ log[entry[r]] \in Broken
                                \/ log[entry[r]] = "failures" <=> exit[r] = 2
    BY DEF AuditTellsOfRuns
  <2>1. exit[r] # NoExit => phase[r] = "exited" /\ (exit[r] = 2 <=> report[r].failed > 0)
    BY DEF OrchIInv, LoopInv, ProcessExit
  <2>2. EntryInv(r)
    BY DEF AuditInv
  <2>3. QED
    BY <2>1, <2>2 DEF EntryInv
<1>2. QED
  BY <1>1, AuditInvariant, PTL
=============================================================================
