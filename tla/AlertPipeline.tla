---------------------------- MODULE AlertPipeline ----------------------------
(***************************************************************************)
(* The dashboard's monitoring loop (internal/poller/poller.go, alerts.go): *)
(* a health poller and a cookie poller write the in-memory SystemState, an *)
(* alert checker reads it and records alerts in SQLite and in the memory   *)
(* the browser is fed from, an operator acknowledges alerts, and the       *)
(* process may restart, losing its memory but not its database.            *)
(*                                                                         *)
(* Time is kept as ages that stop growing once nothing can tell them       *)
(* apart: `since` is how long a service has been recorded unhealthy, `age` *)
(* how old the newest stored alert of a severity and service is.           *)
(* Webhooks are left out: a POST in a goroutine, tried once, that no state *)
(* of the dashboard depends on.                                            *)
(***************************************************************************)
EXTENDS Integers, Sequences, SequencesExt

CONSTANTS
    Endpoints,    \* the services that can be up or down, one per URL
    Name,         \* endpoint -> the name its health is kept under (clewdrName)
    Polled,       \* the endpoints pollHealth visits, in its order
    Critical,     \* the names serviceIsCritical lists
    Clewdr,       \* the names that start with "clewdr-"
    Instances,    \* the names cookies are kept under
    Readings,     \* bound: what cookie polls see, of "fine", "busy" and "empty"
    Grace,        \* 30 seconds, in ticks
    Window,       \* 5 minutes, in ticks
    MaxShown,     \* alerts kept in memory (100 in the code)
    MaxAlerts,    \* bound: alerts ever stored
    MaxFaults,    \* bound: database errors
    MaxRestarts   \* bound: restarts of the dashboard

ASSUME AlertAssumption ==
    /\ Grace \in Nat /\ Window \in Nat /\ Grace < Window
    /\ {MaxShown, MaxAlerts, MaxFaults, MaxRestarts} \subseteq Nat
    /\ Readings \subseteq {"fine", "busy", "empty"}
    /\ Polled \in Seq(Endpoints) /\ Polled # << >>
    /\ DOMAIN Name = Endpoints

Names == {Name[e] : e \in Endpoints}
Services == Names \union Instances
Severities == {"CRITICAL", "WARNING", "INFO"}
Keys == Severities \X Services
NotUnhealthy == -1

Alert(sev, sig, svc) == [severity |-> sev, signal |-> sig, service |-> svc]
AnyAlert == [severity : Severities, signal : {"service-down", "cookie-exhaustion"},
             service : Services]
KeyOf(a) == <<a.severity, a.service>>

VARIABLES
    up,        \* endpoint -> whether it answers its health check
    health,    \* SystemState.Health: name -> last recorded status
    since,     \* SystemState.unhealthySince: name -> its age, or NotUnhealthy
    cookies,   \* SystemState.Cookies: instance -> what its last poll saw
    shown,     \* SystemState.Alerts: the stored alerts (by id) held in memory
    turn,      \* the poller's place in Polled
    probe,     \* the answer checkService holds and has not recorded yet
    phase,     \* what checkAlerts is going through
    todo,      \* the alerts its snapshot calls for, not considered yet
    step,      \* where fireAlert is with `pending`
    pending,   \* the alert being fired, its timestamp kept as an age
    stored,    \* the alerts table, in id order
    age,       \* severity and service -> age of its newest stored alert
    booted,    \* how many alerts the table held when the process started
    faults, restarts

memory == <<health, since, cookies, shown>>
poller == <<turn, probe>>
checker == <<phase, todo, step, pending>>
store == <<stored, age>>
bounds == <<faults, restarts>>
alertVars == <<up, memory, poller, checker, store, booted, bounds>>

NoAlert == [severity |-> "none", age |-> 0]

AlertInit ==
    /\ health = [n \in Names |-> "unknown"]
    /\ since = [n \in Names |-> NotUnhealthy]
    /\ cookies = [i \in Instances |-> "fine"]
    /\ shown = << >>
    /\ turn = 1 /\ probe = "none"
    /\ phase = "idle" /\ todo = {} /\ step = "none" /\ pending = NoAlert
    /\ up \in [Endpoints -> BOOLEAN]
    /\ stored = << >> /\ age = [k \in Keys |-> Window] /\ booted = 0
    /\ faults = 0 /\ restarts = 0

-----------------------------------------------------------------------------
\* The world: services fail and recover, and time passes.

Flip(e) ==
    /\ up' = [up EXCEPT ![e] = ~@]
    /\ UNCHANGED <<memory, poller, checker, store, booted, bounds>>

Older(a, limit) == IF a < limit THEN a + 1 ELSE a

Tick ==
    /\ since' = [n \in Names |->
                    IF since[n] = NotUnhealthy THEN NotUnhealthy
                    ELSE Older(since[n], Grace + 1)]
    /\ age' = [k \in Keys |-> Older(age[k], Window)]
    /\ pending' = [pending EXCEPT !.age = IF step = "none" THEN @ ELSE Older(@, Window)]
    /\ <<since, age, pending>>' # <<since, age, pending>>
    /\ UNCHANGED <<up, health, cookies, shown, poller, phase, todo, step, stored,
                   booted, bounds>>

-----------------------------------------------------------------------------
\* The pollers.

\* checkService waits for the answer of one endpoint ...
Probe ==
    /\ probe = "none"
    /\ probe' = IF up[Polled[turn]] THEN "healthy" ELSE "unhealthy"
    /\ UNCHANGED <<up, memory, turn, checker, store, booted, bounds>>

\* Wrong: every unhealthy answer starts the clock again.
SetHealthRestartsClock(n, status) ==
    /\ health' = [health EXCEPT ![n] = status]
    /\ since' = [since EXCEPT ![n] = IF status = "healthy" THEN NotUnhealthy ELSE 0]

\* ... and SetHealth records it: the first unhealthy answer starts the clock,
\* a healthy one clears it.
SetHealth(n, status) ==
    /\ health' = [health EXCEPT ![n] = status]
    /\ since' = [since EXCEPT ![n] =
                    IF status = "healthy" THEN NotUnhealthy
                    ELSE IF @ = NotUnhealthy THEN 0 ELSE @]

Record ==
    /\ probe # "none"
    /\ SetHealth(Name[Polled[turn]], probe)
    /\ probe' = "none"
    /\ turn' = (turn % Len(Polled)) + 1
    /\ UNCHANGED <<up, cookies, shown, checker, store, booted, bounds>>

\* pollCookies keeps what it last saw when an instance does not answer; "fine"
\* stands for any answer that calls for no alert, and for none so far.
PollCookies(i) ==
    /\ \E seen \in Readings : cookies' = [cookies EXCEPT ![i] = seen]
    /\ UNCHANGED <<up, health, since, shown, poller, checker, store, booted, bounds>>

-----------------------------------------------------------------------------
\* checkAlerts.

CookieAlerts ==
    {Alert(IF cookies[i] = "empty" THEN "CRITICAL" ELSE "WARNING", "cookie-exhaustion", i) :
        i \in {j \in Instances : cookies[j] \in {"empty", "busy"}}}

DownSeverity(n) ==
    IF n \in Clewdr THEN "INFO" ELSE IF n \in Critical THEN "CRITICAL" ELSE "WARNING"

HealthAlerts ==
    {Alert(DownSeverity(n), "service-down", n) : n \in {m \in Names : health[m] = "unhealthy"}}

StartCheck ==
    /\ phase = "idle"
    /\ phase' = "cookies" /\ todo' = CookieAlerts
    /\ UNCHANGED <<up, memory, poller, step, pending, store, booted, bounds>>

TurnToHealth ==
    /\ phase = "cookies" /\ todo = {} /\ step = "none"
    /\ phase' = "health" /\ todo' = HealthAlerts
    /\ UNCHANGED <<up, memory, poller, step, pending, store, booted, bounds>>

EndCheck ==
    /\ phase = "health" /\ todo = {} /\ step = "none"
    /\ phase' = "idle"
    /\ UNCHANGED <<up, memory, poller, todo, step, pending, store, booted, bounds>>

\* A service seen unhealthy in the snapshot is asked again, live, since when.
Due(a) == a.signal = "service-down" => since[a.service] > Grace

Consider(a) ==
    /\ step = "none" /\ a \in todo
    /\ todo' = todo \ {a}
    /\ IF Due(a)
       THEN /\ step' = "dedup"
            /\ pending' = [severity |-> a.severity, signal |-> a.signal,
                           service |-> a.service, age |-> 0]
       ELSE UNCHANGED <<step, pending>>
    /\ UNCHANGED <<up, memory, poller, phase, store, booted, bounds>>

-----------------------------------------------------------------------------
\* fireAlert.

Drop == step' = "none" /\ pending' = NoAlert

\* Wrong: the cutoff is a tick too late.
RecentOffByOne(a) == age[KeyOf(a)] < Window - 1

\* HasRecentAlert: same severity and service, whatever the signal.
Recent(a) == age[KeyOf(a)] < Window

Dedup ==
    /\ step = "dedup"
    /\ IF Recent(pending) THEN Drop ELSE step' = "insert" /\ UNCHANGED pending
    /\ UNCHANGED <<up, memory, poller, phase, todo, store, booted, bounds>>

\* A failed query or insert gives the alert up until the next check.
DbFault ==
    /\ step \in {"dedup", "insert"} /\ faults < MaxFaults
    /\ Drop
    /\ faults' = faults + 1
    /\ UNCHANGED <<up, memory, poller, phase, todo, store, booted, restarts>>

InsertAlert ==
    /\ step = "insert" /\ Len(stored) < MaxAlerts
    /\ stored' = Append(stored, [severity |-> pending.severity, signal |-> pending.signal,
                                 service |-> pending.service, acknowledged |-> FALSE])
    /\ age' = [age EXCEPT ![KeyOf(pending)] = pending.age]
    /\ step' = "append"
    /\ UNCHANGED <<up, memory, poller, phase, todo, pending, booted, bounds>>

\* Wrong: a full list keeps its oldest alerts.
NewestKeepsOldest(s, n) == IF Len(s) > n THEN SubSeq(s, 1, n) ELSE s

\* Wrong: nothing is ever dropped.
NewestUncapped(s, n) == s

\* AppendAlert keeps the newest MaxShown; the copy in memory is made here and
\* never updated.
Newest(s, n) == IF Len(s) > n THEN SubSeq(s, Len(s) - n + 1, Len(s)) ELSE s

AppendAlert ==
    /\ step = "append"
    /\ shown' = Newest(Append(shown, [id |-> Len(stored), acknowledged |-> FALSE]), MaxShown)
    /\ Drop
    /\ UNCHANGED <<up, health, since, cookies, poller, phase, todo, store, booted, bounds>>

-----------------------------------------------------------------------------
\* The operator, and a restart of the process.

\* HandleAckAlert updates the table alone.
AcknowledgeAlert(id) ==
    /\ id \in DOMAIN stored /\ ~stored[id].acknowledged
    /\ stored' = [stored EXCEPT ![id].acknowledged = TRUE]
    /\ UNCHANGED <<up, memory, poller, checker, age, booted, bounds>>

DashboardRestarts ==
    /\ restarts < MaxRestarts
    /\ restarts' = restarts + 1
    /\ health' = [n \in Names |-> "unknown"]
    /\ since' = [n \in Names |-> NotUnhealthy]
    /\ cookies' = [i \in Instances |-> "fine"]
    /\ shown' = << >>
    /\ turn' = 1 /\ probe' = "none"
    /\ phase' = "idle" /\ todo' = {} /\ step' = "none" /\ pending' = NoAlert
    /\ booted' = Len(stored)
    /\ UNCHANGED <<up, store, faults>>

\* What the two goroutines do next, each one thing at a time.
PollerStep == Probe \/ Record
CheckerStep ==
    \/ StartCheck \/ TurnToHealth \/ EndCheck
    \/ \E a \in todo : Consider(a)
    \/ Dedup \/ InsertAlert \/ AppendAlert

AlertNext ==
    \/ \E e \in Endpoints : Flip(e)
    \/ Tick \/ PollerStep \/ CheckerStep
    \/ \E i \in Instances : PollCookies(i)
    \/ DbFault
    \/ \E id \in DOMAIN stored : AcknowledgeAlert(id)
    \/ DashboardRestarts

AlertSpec == AlertInit /\ [][AlertNext]_alertVars

\* The tickers never stop: polls complete (the HTTP client times out), time
\* passes and a check in progress goes on. Nothing is assumed of services,
\* operators, faults or restarts.
FairAlertSpec == AlertSpec /\ WF_alertVars(Tick) /\ WF_alertVars(PollerStep) /\ WF_alertVars(CheckerStep)

-----------------------------------------------------------------------------
\* Every variable of the pollers, the checker and the store has the values the
\* code gives it.
AlertTypeOK ==
    /\ up \in [Endpoints -> BOOLEAN]
    /\ health \in [Names -> {"unknown", "healthy", "unhealthy"}]
    /\ since \in [Names -> NotUnhealthy .. Grace + 1]
    /\ cookies \in [Instances -> {"fine", "busy", "empty"}]
    /\ shown \in Seq([id : 1 .. Len(stored), acknowledged : BOOLEAN]) /\ Len(shown) <= MaxShown
    /\ turn \in DOMAIN Polled /\ probe \in {"none", "healthy", "unhealthy"}
    /\ phase \in {"idle", "cookies", "health"} /\ todo \subseteq AnyAlert
    /\ step \in {"none", "dedup", "insert", "append"}
    /\ stored \in Seq([severity : Severities, signal : {"service-down", "cookie-exhaustion"},
                       service : Services, acknowledged : BOOLEAN])
    /\ age \in [Keys -> 0 .. Window]
    /\ booted \in 0 .. Len(stored)
    /\ faults \in 0 .. MaxFaults /\ restarts \in 0 .. MaxRestarts

\* docs/monitoring.md:123 (fireAlert): the same severity and service is not
\* recorded again while the previous one is younger than the window - whatever
\* was acknowledged, whatever failed, and although a restart forgets every
\* other thing the checker knew.
AlertsKeepTheirDistance ==
    [][Len(stored') > Len(stored) => age[KeyOf(Last(stored'))] = Window]_alertVars

\* What the browser is shown (AppendAlert) is the newest alerts recorded since
\* the process started, none missing, doubled or out of order; the one alert
\* being handed over when the process looks is the only one that may be late.
ShownIsTheNewestStored ==
    LET last == IF step = "append" THEN Len(stored) - 1 ELSE Len(stored)
        first == IF last - booted > MaxShown THEN last - MaxShown ELSE booted
    IN  /\ Len(shown) = last - first
        /\ \A k \in DOMAIN shown : shown[k].id = first + k

\* docs/monitoring.md:118-119 (checkAlerts): a service that stays down is alerted,
\* and again each time its last alert leaves the window, until the bound on
\* stored alerts ends the run.
OutageIsAlerted(e) ==
    <>[](~up[e]) => []<>(\/ age[<<DownSeverity(Name[e]), Name[e]>>] < Window
                         \/ Len(stored) = MaxAlerts)

PolledOutagesAreAlerted == \A e \in Range(Polled) : OutageIsAlerted(e)

=============================================================================
