------------------------------ MODULE AuditCron ------------------------------
(***************************************************************************)
(* The second way a failed sync is noticed: each run appends one line to   *)
(* the audit log before it exits (cmd/starapihub/sync.go, internal/audit), *)
(* and a shell script started by cron every minute scans the whole file    *)
(* with jq and calls a webhook (scripts/starapihub-cron.sh).               *)
(*                                                                         *)
(* The runs are SyncOrchestrator's; `starapihub bootstrap' appends to the  *)
(* same file.  An append may be refused, or cut short by a full disk or a  *)
(* kill; what is appended next then continues the broken line.             *)
(***************************************************************************)
EXTENDS SyncOrchestrator

CONSTANT MaxLog   \* bound: lines in the audit log

\* The command line has one flag more here.
ASSUME AuditAssumption == /\ MaxLog \in Nat
                          /\ \A o \in Options : o.noAudit \in BOOLEAN

VARIABLES
  log,       \* the lines of the audit log: what jq makes of each
  entry,     \* entry[r]: the line that is run r's
  alerted    \* the last scan by cron called send_alert

auditVars == <<log, entry, alerted>>
vars == <<orchVars, auditVars>>

\* A line is cut while its end is missing, garbled when two have become one.
Line == {"clean", "failures", "cut", "garbled"}
Broken == {"cut", "garbled"}
Unwritten == 0          \* entry[r] before the append
Refused == MaxLog + 1   \* entry[r] when the file could not be opened or written

Init ==
  /\ OrchInit
  /\ log = <<>>
  /\ entry = [r \in Runs |-> Unwritten]
  /\ alerted = FALSE

-----------------------------------------------------------------------------
\* A line without its end takes in the next append.
Continues == log # <<>> /\ log[Len(log)] = "cut"

Appended(line) ==
  IF ~Continues THEN Append(log, line)
  ELSE [log EXCEPT ![Len(log)] = IF line = "cut" THEN "cut" ELSE "garbled"]

CanAppend == Continues \/ Len(log) < MaxLog

\* Entry.Failed is the report's counter.
Outcome(r) == IF report[r].failed > 0 THEN "failures" ELSE "clean"

Audited(r) == ~opts[r].noAudit /\ ~opts[r].dryRun

\* Logger.Write, between the end of Run and the exit of the process.  An error
\* is no more than a warning.
WriteAudit(r) ==
  /\ phase[r] = "done" /\ Audited(r) /\ entry[r] = Unwritten
  /\ \/ /\ CanAppend
        /\ log' \in {Appended(Outcome(r)), Appended("cut")}
        /\ entry' = [entry EXCEPT ![r] = Len(log')]
     \/ /\ entry' = [entry EXCEPT ![r] = Refused]
        /\ UNCHANGED log
  /\ UNCHANGED <<orchVars, alerted>>

\* Logger.WriteBootstrap: the counters are those of the sync inside, or zero if
\* the bootstrap did not come that far, whether it failed or not.
BootstrapAudit ==
  /\ CanAppend
  /\ \E line \in {"clean", "failures", "cut"} : log' = Appended(line)
  /\ UNCHANGED <<orchVars, entry, alerted>>

StartSync(r, o) ==
  /\ Len(log) < MaxLog
  /\ Start(r, o)
  /\ entry' = [entry EXCEPT ![r] = Unwritten]
  /\ UNCHANGED <<log, alerted>>

\* Wrong: a failed run returns its error before the audit entry is written.
SyncStepErrorFirst(r) ==
  /\ OrchStep(r)
  /\ phase[r] = "done" /\ Audited(r) /\ report[r].failed = 0 => entry[r] # Unwritten
  /\ UNCHANGED auditVars

\* The orchestrator's steps; the exit comes after the audit entry.
SyncStep(r) ==
  /\ OrchStep(r)
  /\ phase[r] = "done" /\ Audited(r) => entry[r] # Unwritten
  /\ UNCHANGED auditVars

SyncCrash(r) == Crash(r) /\ UNCHANGED auditVars

-----------------------------------------------------------------------------
Lines == {log[i] : i \in DOMAIN log}

\* Wrong: only the last line is looked at.
ScanLast == log # <<>> /\ log[Len(log)] = "failures"

\* jq -ce 'select(.failed > 0)' | tail -1 | grep -q . under pipefail: what jq
\* printed before a line it cannot parse is lost with its exit status.
Scan == "failures" \in Lines /\ Broken \intersect Lines = {}

\* The script has nothing to remember: it scans and alerts anew every minute.
CronTick ==
  /\ alerted' = Scan
  /\ UNCHANGED <<orchVars, log, entry>>

Next ==
  \/ \E r \in Runs : \/ \E o \in Options : StartSync(r, o)
                     \/ SyncStep(r)
                     \/ WriteAudit(r)
                     \/ SyncCrash(r)
  \/ BootstrapAudit
  \/ CronTick

Spec == Init /\ [][Next]_vars

\* Runs go on, their calls have timeouts; cron starts the script every minute.
FairSpec ==
  /\ Spec
  /\ \A r \in Runs : WF_vars(SyncStep(r) \/ WriteAudit(r))
  /\ WF_vars(CronTick)

-----------------------------------------------------------------------------
\* Type invariant, the orchestrator's included: a run's entry is a line of the
\* log, and only the last line can be without its end.
TypeOK ==
  /\ OrchTypeOK
  /\ log \in Seq(Line) /\ Len(log) =< MaxLog
  /\ entry \in [Runs -> DOMAIN log \union {Unwritten, Refused}]
  /\ alerted \in BOOLEAN
  /\ \A i \in DOMAIN log : log[i] = "cut" => i = Len(log)

\* The trail agrees with the exit code: a run that exits has its line unless it
\* was not wanted or could not be written, the line records failures exactly when
\* the exit code does, and a run that never got to its end or only dry-ran has none.
AuditTellsOfRuns ==
  \A r \in Runs :
    /\ exit[r] # NoExit /\ Audited(r) => entry[r] # Unwritten
    /\ entry[r] \in DOMAIN log =>
         /\ Audited(r) /\ phase[r] \notin {"plan", "apply", "verify"}
         /\ exit[r] # NoExit =>
              \/ log[entry[r]] \in Broken
              \/ log[entry[r]] = "failures" <=> exit[r] = 2

\* Once an action or a plan of an audited run has failed, cron alerts, however
\* the run goes on and whatever is appended after it; only a run that dies or
\* cannot write its entry, and a broken line anywhere in the log, are not told of.
FailedRunsAreAlerted ==
  \A r \in Runs :
    Running(r) /\ Audited(r) /\ report[r].failed > 0
      ~> \/ alerted \/ Broken \intersect Lines # {}
         \/ phase[r] = "crashed" \/ entry[r] = Refused

=============================================================================
