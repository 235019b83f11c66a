---------------------------- MODULE Dashboard_proofs ----------------------------
(***************************************************************************)
(* The dashboard's own components.  The alerts: the dedup window and the   *)
(* order of what is shown, for every set of services, every polling order, *)
(* window, grace period and capacity, and any number of database errors    *)
(* and restarts.  The logical models: a create is all or nothing, for any  *)
(* number of requests at once, over any providers in any order and with    *)
(* repetitions, whatever fails.                                            *)
(***************************************************************************)
EXTENDS AlertPipeline, ModelsApi, SequenceTheorems, TLAPS

-----------------------------------------------------------------------------
(* The alerts.                                                             *)

Row == [severity : Severities, signal : {"service-down", "cookie-exhaustion"},
        service : Services, acknowledged : BOOLEAN]

\* An alert being fired, with the age of its timestamp.
Firing == [severity : Severities, signal : {"service-down", "cookie-exhaustion"},
           service : Services, age : 0 .. Window]

\* What fireAlert holds: an alert of a known service whose key has passed the
\* dedup query if the insert is next.
FiringInv ==
    /\ step \in {"none", "dedup", "insert", "append"}
    /\ todo \subseteq AnyAlert
    /\ step # "none" => pending \in Firing
    /\ step = "insert" => age[KeyOf(pending)] = Window

StoreInv ==
    /\ stored \in Seq(Row)
    /\ age \in [Keys -> 0 .. Window]

DistanceInv == FiringInv /\ StoreInv

LEMMA FiringKey == ASSUME NEW a \in Firing PROVE KeyOf(a) \in Keys
  BY DEF Firing, KeyOf, Keys

\* The alerts of a snapshot are about names the maps hold.
LEMMA SnapshotAlerts == CookieAlerts \subseteq AnyAlert /\ HealthAlerts \subseteq AnyAlert
  BY DEF CookieAlerts, HealthAlerts, AnyAlert, Alert, Services, Severities, DownSeverity

LEMMA OlderInWindow == ASSUME NEW n \in 0 .. Window PROVE Older(n, Window) \in 0 .. Window
  BY AlertAssumption DEF Older

LEMMA DistanceInit == AlertInit => DistanceInv
  BY AlertAssumption DEF AlertInit, DistanceInv, FiringInv, StoreInv, NoAlert

\* Actions that leave the firing of alerts and the table alone.
LEMMA DistanceFrame ==
  ASSUME DistanceInv, UNCHANGED <<step, pending, stored, age>>,
         todo' \subseteq AnyAlert
  PROVE DistanceInv'
  BY DEF DistanceInv, FiringInv, StoreInv

LEMMA DistanceTick == ASSUME DistanceInv, Tick PROVE DistanceInv'
<1> USE DEF DistanceInv, FiringInv, StoreInv
<1>1. age' \in [Keys -> 0 .. Window]
  BY OlderInWindow DEF Tick
<1>2. step # "none" => pending' \in Firing /\ KeyOf(pending') = KeyOf(pending)
  <2> SUFFICES ASSUME step # "none" PROVE pending' \in Firing /\ KeyOf(pending') = KeyOf(pending)
    OBVIOUS
  <2>1. pending' = [pending EXCEPT !.age = Older(pending.age, Window)]
    BY DEF Tick
  <2>2. pending \in Firing /\ Older(pending.age, Window) \in 0 .. Window
    BY OlderInWindow DEF Firing
  <2> QED BY <2>1, <2>2 DEF Firing, KeyOf
<1>3. step = "insert" => age'[KeyOf(pending')] = Window
  <2> SUFFICES ASSUME step = "insert" PROVE age'[KeyOf(pending')] = Window
    OBVIOUS
  <2>1. KeyOf(pending) \in Keys /\ KeyOf(pending') = KeyOf(pending)
    BY <1>2, FiringKey
  <2>2. age'[KeyOf(pending)] = Older(age[KeyOf(pending)], Window)
    BY <2>1 DEF Tick
  <2> QED BY <2>1, <2>2, AlertAssumption DEF Older
<1> QED BY <1>1, <1>2, <1>3 DEF Tick

LEMMA DistanceConsider == ASSUME DistanceInv, NEW a \in todo, Consider(a) PROVE DistanceInv'
<1> USE DEF DistanceInv, FiringInv, StoreInv
<1>1. UNCHANGED <<stored, age>> /\ todo' \subseteq AnyAlert
  BY DEF Consider, store
<1>2. CASE Due(a)
  <2>1. step' = "dedup" /\ pending' = [severity |-> a.severity, signal |-> a.signal,
                                       service |-> a.service, age |-> 0]
    BY <1>2 DEF Consider
  <2>2. pending' \in Firing
    BY <2>1, AlertAssumption DEF Firing, AnyAlert
  <2> QED BY <1>1, <2>1, <2>2
<1>3. CASE ~Due(a)
  <2>1. UNCHANGED <<step, pending>>
    BY <1>3 DEF Consider
  <2> QED BY <1>1, <2>1, DistanceFrame
<1> QED BY <1>2, <1>3

LEMMA DistanceDedup == ASSUME DistanceInv, Dedup PROVE DistanceInv'
<1> USE DEF DistanceInv, FiringInv, StoreInv
<1>1. UNCHANGED <<todo, stored, age>>
  BY DEF Dedup, store
<1>2. CASE Recent(pending)
  BY <1>1, <1>2 DEF Dedup, Drop
<1>3. CASE ~Recent(pending)
  <2>1. step' = "insert" /\ pending' = pending /\ pending \in Firing
    BY <1>3 DEF Dedup
  <2>2. age[KeyOf(pending)] = Window
    BY <1>3, <2>1, FiringKey, AlertAssumption DEF Recent
  <2> QED BY <1>1, <2>1, <2>2
<1> QED BY <1>2, <1>3

LEMMA DistanceInsert ==
  ASSUME DistanceInv, InsertAlert
  PROVE /\ DistanceInv'
        /\ Len(stored') = Len(stored) + 1
        /\ age[KeyOf(Last(stored'))] = Window
<1> USE DEF DistanceInv, FiringInv, StoreInv
<1> DEFINE row == [severity |-> pending.severity, signal |-> pending.signal,
                   service |-> pending.service, acknowledged |-> FALSE]
<1>1. pending \in Firing /\ KeyOf(pending) \in Keys /\ age[KeyOf(pending)] = Window
  BY FiringKey DEF InsertAlert
<1>2. row \in Row
  BY <1>1 DEF Row, Firing
<1>3. stored' = Append(stored, row)
  BY DEF InsertAlert
<1>4. stored' \in Seq(Row) /\ Len(stored') = Len(stored) + 1 /\ Last(stored') = row
  BY <1>2, <1>3 DEF Last
<1>5. KeyOf(row) = KeyOf(pending)
  BY DEF KeyOf
<1>6. age' \in [Keys -> 0 .. Window] /\ step' = "append" /\ UNCHANGED <<todo, pending>>
  BY <1>1 DEF InsertAlert, Firing
<1> QED BY <1>1, <1>4, <1>5, <1>6

LEMMA DistanceAcknowledge ==
  ASSUME DistanceInv, NEW id \in DOMAIN stored, AcknowledgeAlert(id)
  PROVE DistanceInv' /\ Len(stored') = Len(stored)
<1> USE DEF DistanceInv, FiringInv, StoreInv
<1>1. stored' = [stored EXCEPT ![id] = [stored[id] EXCEPT !.acknowledged = TRUE]]
  BY DEF AcknowledgeAlert
<1>2. [stored[id] EXCEPT !.acknowledged = TRUE] \in Row
  <2>1. stored[id] \in Row
    OBVIOUS
  <2> QED BY <2>1 DEF Row, AnyAlert
<1>3. stored' \in Seq(Row) /\ Len(stored') = Len(stored)
  BY <1>1, <1>2
<1> QED BY <1>3 DEF AcknowledgeAlert, checker

\* Every step keeps the invariant, and the step that adds a row finds the last
\* one of its key out of the window.
LEMMA DistanceStep ==
  ASSUME DistanceInv, [AlertNext]_alertVars
  PROVE /\ DistanceInv'
        /\ Len(stored') > Len(stored) => age[KeyOf(Last(stored'))] = Window
<1> DEFINE Goal == /\ DistanceInv'
                   /\ Len(stored') > Len(stored) => age[KeyOf(Last(stored'))] = Window
<1>0. Len(stored) \in Nat /\ todo \subseteq AnyAlert
  BY DEF DistanceInv, StoreInv, FiringInv
<1>a. ASSUME UNCHANGED <<step, pending, stored, age>>, todo' \subseteq AnyAlert PROVE Goal
  BY <1>0, <1>a, DistanceFrame
<1>1. ASSUME NEW e \in Endpoints, Flip(e) PROVE Goal
  BY <1>0, <1>1, <1>a DEF Flip, checker, store
<1>2. CASE Tick
  BY <1>0, <1>2, DistanceTick DEF Tick
<1>3. CASE Probe
  BY <1>0, <1>3, <1>a DEF Probe, checker, store
<1>4. CASE Record
  BY <1>0, <1>4, <1>a DEF Record, checker, store
<1>5. ASSUME NEW i \in Instances, PollCookies(i) PROVE Goal
  BY <1>0, <1>5, <1>a DEF PollCookies, checker, store
<1>6. CASE StartCheck
  BY <1>6, <1>a, SnapshotAlerts DEF StartCheck, store
<1>7. CASE TurnToHealth
  BY <1>7, <1>a, SnapshotAlerts DEF TurnToHealth, store
<1>8. CASE EndCheck
  BY <1>0, <1>8, <1>a DEF EndCheck, store
<1>9. ASSUME NEW a \in todo, Consider(a) PROVE Goal
  BY <1>0, <1>9, DistanceConsider DEF Consider, store
<1>10. CASE Dedup
  BY <1>0, <1>10, DistanceDedup DEF Dedup, store
<1>11. CASE DbFault
  BY <1>0, <1>11 DEF DbFault, Drop, store, DistanceInv, FiringInv, StoreInv
<1>12. CASE InsertAlert
  BY <1>12, DistanceInsert
<1>13. CASE AppendAlert
  BY <1>0, <1>13 DEF AppendAlert, Drop, store, DistanceInv, FiringInv, StoreInv
<1>14. ASSUME NEW id \in DOMAIN stored, AcknowledgeAlert(id) PROVE Goal
  BY <1>0, <1>14, DistanceAcknowledge
<1>15. CASE DashboardRestarts
  BY <1>0, <1>15 DEF DashboardRestarts, store, DistanceInv, FiringInv, StoreInv
<1>16. CASE UNCHANGED alertVars
  BY <1>0, <1>16, <1>a DEF alertVars, checker, store
<1> QED
  BY <1>1, <1>2, <1>3, <1>4, <1>5, <1>6, <1>7, <1>8, <1>9, <1>10, <1>11, <1>12,
     <1>13, <1>14, <1>15, <1>16 DEF AlertNext, PollerStep, CheckerStep

\* The dedup window holds for every instance: whatever the services, faults,
\* acknowledgements and restarts, an alert is recorded only when the last one of
\* its severity and service has left the window.
THEOREM DedupWindowHolds == AlertSpec => AlertsKeepTheirDistance
<1>1. AlertInit => DistanceInv
  BY DistanceInit
<1>2. DistanceInv /\ [AlertNext]_alertVars => DistanceInv'
  BY DistanceStep
<1>3. DistanceInv /\ [AlertNext]_alertVars
        => [Len(stored') > Len(stored) => age[KeyOf(Last(stored'))] = Window]_alertVars
  BY DistanceStep
<1> QED BY <1>1, <1>2, <1>3, PTL DEF AlertSpec, AlertsKeepTheirDistance

-----------------------------------------------------------------------------
\* The list in memory.

Copy == [id : 1 .. Len(stored), acknowledged : BOOLEAN]

\* An alert that is being handed over to the list was stored by this process.
HandedOver == step = "append" => booted < Len(stored)

ListInv == DistanceInv /\ AlertTypeOK /\ HandedOver /\ ShownIsTheNewestStored

\* Newest keeps the end of a list.
LEMMA NewestIsTheEnd ==
  ASSUME NEW S, NEW s \in Seq(S), NEW n \in Nat
  PROVE /\ Newest(s, n) \in Seq(S)
        /\ Len(Newest(s, n)) = IF Len(s) > n THEN n ELSE Len(s)
        /\ \A p \in 1 .. Len(Newest(s, n)) : Newest(s, n)[p] = s[Len(s) - Len(Newest(s, n)) + p]
<1>0. Len(s) \in Nat /\ DOMAIN s = 1 .. Len(s)
  BY LenProperties
<1>1. CASE Len(s) > n
  <2>1. Newest(s, n) = SubSeq(s, Len(s) - n + 1, Len(s))
    BY <1>1 DEF Newest
  <2>2. CASE n = 0
    <3>1. Newest(s, n) = << >>
      BY <1>0, <2>1, <2>2
    <3>2. Newest(s, n) \in Seq(S) /\ Len(Newest(s, n)) = 0
      BY <3>1, EmptySeq
    <3>3. 1 .. Len(Newest(s, n)) = {}
      BY <3>2
    <3> QED BY <1>1, <2>2, <3>2, <3>3
  <2>3. CASE n > 0
    <3>1. Len(s) - n + 1 \in 1 .. Len(s) /\ Len(s) \in 1 .. Len(s)
      BY <1>0, <1>1, <2>3
    <3>2. /\ Newest(s, n) \in Seq(S) /\ Len(Newest(s, n)) = n
          /\ \A p \in 1 .. n : Newest(s, n)[p] = s[Len(s) - n + p]
      BY <1>0, <1>1, <2>1, <2>3, <3>1
    <3> QED BY <1>1, <3>2
  <2> QED BY <2>2, <2>3
<1>2. CASE ~(Len(s) > n)
  <2>1. Newest(s, n) = s
    BY <1>2 DEF Newest
  <2> QED BY <1>0, <1>2, <2>1
<1> QED BY <1>1, <1>2

LEMMA ListInit == AlertInit => ListInv
<1> SUFFICES ASSUME AlertInit PROVE ListInv
  OBVIOUS
<1>1. AlertTypeOK
  <2>1. /\ shown \in Seq(Copy) /\ Len(shown) = 0 /\ Len(stored) = 0
        /\ stored \in Seq(Row) /\ 1 \in DOMAIN Polled
    BY AlertAssumption DEF AlertInit
  <2>2. age \in [Keys -> 0 .. Window] /\ since \in [Names -> NotUnhealthy .. Grace + 1]
    BY AlertAssumption DEF AlertInit, NotUnhealthy
  <2> QED BY <2>1, <2>2, AlertAssumption DEF AlertInit, AlertTypeOK, Copy, Row
<1>2. HandedOver /\ ShownIsTheNewestStored
  BY AlertAssumption DEF AlertInit, HandedOver, ShownIsTheNewestStored
<1> QED BY <1>1, <1>2, DistanceInit DEF ListInv

\* The types of the variables, apart from the list, over every step.
TypesButTheList ==
  /\ up \in [Endpoints -> BOOLEAN]
  /\ health \in [Names -> {"unknown", "healthy", "unhealthy"}]
  /\ since \in [Names -> NotUnhealthy .. Grace + 1]
  /\ cookies \in [Instances -> {"fine", "busy", "empty"}]
  /\ turn \in DOMAIN Polled /\ probe \in {"none", "healthy", "unhealthy"}
  /\ phase \in {"idle", "cookies", "health"}
  /\ faults \in 0 .. MaxFaults /\ restarts \in 0 .. MaxRestarts

LEMMA TypesStep == ASSUME TypesButTheList, [AlertNext]_alertVars PROVE TypesButTheList'
<1> USE DEF TypesButTheList, memory, poller, checker, store, bounds
<1>1. CASE UNCHANGED alertVars
  BY <1>1 DEF alertVars
<1>2. ASSUME NEW e \in Endpoints, Flip(e) PROVE TypesButTheList'
  BY <1>2 DEF Flip
<1>3. CASE Tick
  <2>1. \A n \in Names : since'[n] \in NotUnhealthy .. Grace + 1
    <3> SUFFICES ASSUME NEW n \in Names PROVE since'[n] \in NotUnhealthy .. Grace + 1
      OBVIOUS
    <3>1. /\ since[n] \in NotUnhealthy .. Grace + 1
          /\ since'[n] = IF since[n] = NotUnhealthy THEN NotUnhealthy
                         ELSE IF since[n] < Grace + 1 THEN since[n] + 1 ELSE since[n]
      BY <1>3 DEF Tick, Older
    <3> QED BY <3>1, AlertAssumption DEF NotUnhealthy
  <2>2. since' \in [Names -> NotUnhealthy .. Grace + 1]
    BY <1>3, <2>1 DEF Tick
  <2> QED BY <1>3, <2>2 DEF Tick
<1>4. CASE Probe
  BY <1>4 DEF Probe
<1>5. CASE Record
  <2>0. Len(Polled) \in Nat \ {0} /\ DOMAIN Polled = 1 .. Len(Polled)
    BY AlertAssumption
  <2>1. Polled[turn] \in Endpoints
    BY <2>0, AlertAssumption
  <2>2. Name[Polled[turn]] \in Names
    BY <2>1 DEF Names
  <2>3. health' \in [Names -> {"unknown", "healthy", "unhealthy"}]
    BY <1>5, <2>2 DEF Record, SetHealth
  <2>4. since' \in [Names -> NotUnhealthy .. Grace + 1]
    BY <1>5, <2>2, AlertAssumption DEF Record, SetHealth, NotUnhealthy
  <2>5. turn' \in DOMAIN Polled
    BY <1>5, <2>0 DEF Record
  <2> QED BY <1>5, <2>3, <2>4, <2>5 DEF Record
<1>6. ASSUME NEW i \in Instances, PollCookies(i) PROVE TypesButTheList'
  BY <1>6, AlertAssumption DEF PollCookies
<1>7. CASE StartCheck \/ TurnToHealth \/ EndCheck
  BY <1>7 DEF StartCheck, TurnToHealth, EndCheck
<1>8. ASSUME NEW a \in todo, Consider(a) PROVE TypesButTheList'
  BY <1>8 DEF Consider
<1>9. CASE Dedup \/ InsertAlert \/ AppendAlert
  BY <1>9 DEF Dedup, InsertAlert, AppendAlert
<1>10. CASE DbFault
  BY <1>10, AlertAssumption DEF DbFault
<1>11. ASSUME NEW id \in DOMAIN stored, AcknowledgeAlert(id) PROVE TypesButTheList'
  BY <1>11 DEF AcknowledgeAlert
<1>12. CASE DashboardRestarts
  <2>1. /\ since' \in [Names -> NotUnhealthy .. Grace + 1]
        /\ 1 \in DOMAIN Polled /\ restarts' \in 0 .. MaxRestarts
    BY <1>12, AlertAssumption DEF DashboardRestarts, NotUnhealthy
  <2> QED BY <1>12, <2>1 DEF DashboardRestarts
<1> QED BY <1>1, <1>2, <1>3, <1>4, <1>5, <1>6, <1>7, <1>8, <1>9, <1>10, <1>11, <1>12
        DEF AlertNext, PollerStep, CheckerStep

\* The list over every step.
ShownInv ==
  /\ shown \in Seq(Copy) /\ Len(shown) <= MaxShown /\ booted \in 0 .. Len(stored)
  /\ HandedOver /\ ShownIsTheNewestStored

LEMMA TypeInParts == AlertTypeOK /\ HandedOver /\ ShownIsTheNewestStored /\ DistanceInv
                       <=> TypesButTheList /\ ShownInv /\ DistanceInv
  BY DEF AlertTypeOK, TypesButTheList, ShownInv, Copy, DistanceInv, FiringInv, StoreInv, Row

\* What was in the table stays a row of it.
LEMMA CopiesStay ==
  ASSUME ShownInv, Len(stored) \in Nat, Len(stored') \in Nat, Len(stored) <= Len(stored')
  PROVE shown \in Seq(Copy')
<1>1. Copy \subseteq Copy'
  BY DEF Copy
<1> QED BY <1>1 DEF ShownInv

\* The list and the table change only when an alert is stored or handed over, and
\* when the process restarts.
LEMMA ListFrame ==
  ASSUME DistanceInv, ShownInv, UNCHANGED <<shown, booted>>, Len(stored') = Len(stored),
         step' = "append" <=> step = "append"
  PROVE ShownInv'
<1>1. Len(stored) \in Nat
  BY DEF DistanceInv, StoreInv
<1>2. shown' \in Seq(Copy')
  BY <1>1, CopiesStay
<1> QED BY <1>2 DEF ShownInv, HandedOver, ShownIsTheNewestStored

LEMMA ListInsert ==
  ASSUME DistanceInv, ShownInv, InsertAlert PROVE ShownInv'
<1>1. /\ Len(stored) \in Nat /\ Len(stored') = Len(stored) + 1
      /\ step = "insert" /\ step' = "append" /\ UNCHANGED <<shown, booted>>
  BY DistanceInsert DEF DistanceInv, StoreInv, InsertAlert, memory
<1>2. shown' \in Seq(Copy')
  BY <1>1, CopiesStay
<1>3. booted' \in 0 .. Len(stored') /\ HandedOver'
  BY <1>1 DEF ShownInv, HandedOver
<1>4. ShownIsTheNewestStored'
  BY <1>1 DEF ShownInv, ShownIsTheNewestStored
<1> QED BY <1>1, <1>2, <1>3, <1>4 DEF ShownInv

LEMMA ListAppend ==
  ASSUME DistanceInv, ShownInv, AppendAlert PROVE ShownInv'
<1> DEFINE n == Len(stored)
           copy == [id |-> n, acknowledged |-> FALSE]
           longer == Append(shown, copy)
           first == IF n - 1 - booted > MaxShown THEN n - 1 - MaxShown ELSE booted
           next == IF n - booted > MaxShown THEN n - MaxShown ELSE booted
<1>1. /\ n \in Nat /\ booted \in Nat /\ booted < n /\ MaxShown \in Nat
      /\ step = "append" /\ shown \in Seq(Copy)
      /\ UNCHANGED <<stored, booted>> /\ step' = "none" /\ shown' = Newest(longer, MaxShown)
  BY AlertAssumption
     DEF ShownInv, HandedOver, AppendAlert, Drop, store, DistanceInv, StoreInv
<1>2. Len(shown) = n - 1 - first /\ \A p \in DOMAIN shown : shown[p].id = first + p
  BY <1>1 DEF ShownInv, ShownIsTheNewestStored
<1>3. copy \in Copy /\ copy.id = n
  BY <1>1 DEF Copy
<1>a. /\ first \in Nat /\ next \in Nat /\ n - first \in Nat /\ n - first <= MaxShown + 1
      /\ next = IF n - first > MaxShown THEN first + 1 ELSE first
  <2> HIDE DEF n
  <2>1. CASE n - 1 - booted > MaxShown
    <3>1. first = n - 1 - MaxShown /\ n - booted > MaxShown /\ next = n - MaxShown
      BY <1>1, <2>1
    <3> HIDE DEF first, next
    <3> QED BY <1>1, <2>1, <3>1
  <2>2. CASE ~(n - 1 - booted > MaxShown)
    <3>1. first = booted /\ next = IF n - booted > MaxShown THEN n - MaxShown ELSE booted
      BY <1>1, <2>2
    <3>2. n - booted > MaxShown => n - booted = MaxShown + 1
      BY <1>1, <2>2
    <3> HIDE DEF first, next
    <3> QED BY <1>1, <2>2, <3>1, <3>2
  <2> QED BY <2>1, <2>2
<1>c. next = IF n - booted > MaxShown THEN n - MaxShown ELSE booted
  OBVIOUS
<1> HIDE DEF n, first, next, copy
<1>4. /\ longer \in Seq(Copy) /\ Len(longer) = n - first
      /\ \A p \in 1 .. n - first : longer[p].id = first + p
  <2>1. /\ longer \in Seq(Copy) /\ Len(shown) \in Nat /\ Len(longer) = Len(shown) + 1
        /\ \A p \in 1 .. Len(shown) : longer[p] = shown[p]
        /\ longer[Len(shown) + 1] = copy /\ DOMAIN shown = 1 .. Len(shown)
    BY <1>1, <1>3
  <2> HIDE DEF longer
  <2>2. Len(longer) = n - first
    BY <1>1, <1>2, <1>a, <2>1
  <2>3. ASSUME NEW p \in 1 .. n - first PROVE longer[p].id = first + p
    <3>1. CASE p \in 1 .. Len(shown)
      BY <1>2, <2>1, <3>1
    <3>2. CASE p = Len(shown) + 1
      BY <1>1, <1>2, <1>3, <1>a, <2>1, <3>2
    <3> QED BY <1>1, <1>2, <1>a, <2>1, <2>2, <3>1, <3>2
  <2> QED BY <2>1, <2>2, <2>3
<1> HIDE DEF longer
<1>5. /\ shown' \in Seq(Copy) /\ Len(shown') = IF Len(longer) > MaxShown THEN MaxShown ELSE Len(longer)
      /\ \A p \in 1 .. Len(shown') : shown'[p] = longer[Len(longer) - Len(shown') + p]
  BY <1>1, <1>4, NewestIsTheEnd
<1>6. /\ Len(shown') = n - next
      /\ Len(longer) - Len(shown') = next - first
      /\ Len(shown') \in Nat /\ Len(shown') <= MaxShown /\ first \in Nat /\ first <= next
  <2>1. CASE n - first > MaxShown
    BY <1>1, <1>4, <1>5, <1>a, <2>1
  <2>2. CASE ~(n - first > MaxShown)
    BY <1>1, <1>4, <1>5, <1>a, <2>2
  <2> QED BY <2>1, <2>2
<1>7. \A p \in DOMAIN shown' : shown'[p].id = next + p
  <2> SUFFICES ASSUME NEW p \in DOMAIN shown' PROVE shown'[p].id = next + p
    OBVIOUS
  <2>1. p \in 1 .. Len(shown')
    BY <1>5
  <2>2. (next - first) + p \in 1 .. n - first /\ next \in Nat
    BY <1>1, <1>6, <1>a, <2>1
  <2>3. longer[(next - first) + p].id = first + ((next - first) + p)
    BY <1>4, <2>2
  <2>4. shown'[p] = longer[(next - first) + p]
    BY <1>5, <1>6, <2>1
  <2> QED BY <1>a, <2>1, <2>2, <2>3, <2>4
<1>8. HandedOver' /\ ShownIsTheNewestStored'
  <2>1. Len(stored') = n /\ step' # "append" /\ booted' = booted
    BY <1>1 DEF n
  <2>2. ShownIsTheNewestStored' <=>
          /\ Len(shown') = n - next
          /\ \A p \in DOMAIN shown' : shown'[p].id = next + p
    BY <2>1, <1>c DEF ShownIsTheNewestStored
  <2> QED BY <1>6, <1>7, <2>1, <2>2 DEF HandedOver
<1>9. Copy' = Copy
  BY <1>1 DEF Copy
<1> QED BY <1>1, <1>5, <1>6, <1>8, <1>9 DEF ShownInv

LEMMA ListStep ==
  ASSUME DistanceInv, ShownInv, [AlertNext]_alertVars PROVE ShownInv'
<1>0. Len(stored) \in Nat
  BY DEF DistanceInv, StoreInv
<1> USE DEF memory, poller, checker, store, bounds
<1>1. CASE UNCHANGED alertVars
  BY <1>1, ListFrame DEF alertVars
<1>2. ASSUME NEW e \in Endpoints, Flip(e) PROVE ShownInv'
  BY <1>2, ListFrame DEF Flip
<1>3. CASE Tick \/ Probe \/ Record \/ StartCheck \/ TurnToHealth \/ EndCheck
  BY <1>3, ListFrame DEF Tick, Probe, Record, StartCheck, TurnToHealth, EndCheck
<1>4. ASSUME NEW i \in Instances, PollCookies(i) PROVE ShownInv'
  BY <1>4, ListFrame DEF PollCookies
<1>5. ASSUME NEW a \in todo, Consider(a) PROVE ShownInv'
  BY <1>5, ListFrame DEF Consider
<1>6. CASE Dedup \/ DbFault
  BY <1>6, ListFrame DEF Dedup, DbFault, Drop
<1>7. CASE InsertAlert
  BY <1>7, ListInsert
<1>8. CASE AppendAlert
  BY <1>8, ListAppend
<1>9. ASSUME NEW id \in DOMAIN stored, AcknowledgeAlert(id) PROVE ShownInv'
  <2>1. Len(stored') = Len(stored)
    BY <1>9, DistanceAcknowledge
  <2> QED BY <1>9, <2>1, ListFrame DEF AcknowledgeAlert
<1>10. CASE DashboardRestarts
  <2>1. shown' = << >> /\ booted' = Len(stored) /\ stored' = stored /\ step' = "none"
    BY <1>10 DEF DashboardRestarts
  <2> QED BY <1>0, <2>1, AlertAssumption
          DEF ShownInv, HandedOver, ShownIsTheNewestStored
<1> QED BY <1>1, <1>2, <1>3, <1>4, <1>5, <1>6, <1>7, <1>8, <1>9, <1>10
        DEF AlertNext, PollerStep, CheckerStep

\* The invariant of the pollers, the checker and the list.
THEOREM AlertInvariant == AlertSpec => []ListInv
<1>1. AlertInit => ListInv
  BY ListInit
<1>2. ListInv /\ [AlertNext]_alertVars => ListInv'
  <2> SUFFICES ASSUME ListInv, [AlertNext]_alertVars PROVE ListInv'
    OBVIOUS
  <2>1. TypesButTheList /\ ShownInv /\ DistanceInv
    BY TypeInParts DEF ListInv
  <2>2. TypesButTheList' /\ ShownInv' /\ DistanceInv'
    BY <2>1, TypesStep, ListStep, DistanceStep
  <2>3. AlertTypeOK' /\ HandedOver' /\ ShownIsTheNewestStored' /\ DistanceInv'
    BY <2>2 DEF AlertTypeOK, TypesButTheList, ShownInv, Copy, DistanceInv, FiringInv,
                StoreInv, Row
  <2> QED BY <2>3 DEF ListInv
<1> QED BY <1>1, <1>2, PTL DEF AlertSpec

\* Every variable keeps the values the code gives it; the list in memory never
\* holds more than MaxShown alerts, and only alerts that are in the table.
THEOREM AlertTypeCorrect == AlertSpec => []AlertTypeOK
<1>1. ListInv => AlertTypeOK
  BY DEF ListInv
<1> QED BY <1>1, AlertInvariant, PTL

\* What the browser is shown is the newest alerts recorded since the start, in
\* order and without a gap, whatever the capacity and however often it restarts.
THEOREM ShownIsAlwaysTheNewest == AlertSpec => []ShownIsTheNewestStored
<1>1. ListInv => ShownIsTheNewestStored
  BY DEF ListInv
<1> QED BY <1>1, AlertInvariant, PTL

-----------------------------------------------------------------------------
(* The logical models.                                                     *)

\* What a handler is doing fits the request it serves; while it does it, it has
\* not answered, and when it has answered it has forgotten what it made.
RequestInv(h) ==
  /\ at[h] = "put" => body[h].kind \in {"create", "update", "wizard-provider"}
  /\ at[h] \in {"channel", "rollback"} => body[h].kind = "create"
  /\ at[h] \in {"delete", "delete-channel"} => body[h].kind = "delete"
  /\ IF at[h] \in Serving THEN answer[h] = "none" ELSE made[h] = << >>

\* What the rollback of h has still to delete, if it comes to one.
ToUndo(h) ==
  {p \in Providers : \E i \in 1 .. Len(made[h]) :
                        made[h][i] = p /\ (at[h] = "rollback" => k[h] <= i)}

\* Until it answers "created", a create can account for every provider it has in
\* Bifrost: it knows that it has to delete it, or a call about it has failed.
UndoInv(h) ==
  Creating(h) /\ answer[h] # "created" =>
    \A p \in bifrost : owner[p] = h => p \in doubt[h] \union ToUndo(h)

\* The places of the request's list that are done with.
Covered(h) == {i \in 1 .. Len(body[h].providers) : at[h] = "put" => i < k[h]}

\* What a create has put is there unless somebody else took it, and it has put
\* all that it is done with, but for what Bifrost only said it had created.
PlacedInv(h) ==
  Creating(h) /\ (at[h] \in {"put", "channel"} \/ answer[h] = "created") =>
    /\ put[h] \subseteq bifrost \union taken[h]
    /\ \A i \in Covered(h) : body[h].providers[i] \in put[h] \union ignored[h]

\* The list a rollback goes through names only what calls of the request have put,
\* or were told they had.
MadeInv(h) ==
  Creating(h) => \A i \in 1 .. Len(made[h]) : made[h][i] \in put[h] \union ignored[h]

HandlerInv(h) == RequestInv(h) /\ UndoInv(h) /\ PlacedInv(h) /\ MadeInv(h)

ModelsInv == TypeOK /\ \A h \in Handlers : HandlerInv(h)

-----------------------------------------------------------------------------

LEMMA ModelsInit == ASSUME Init PROVE ModelsInv
<1>1. TypeOK
  <2>1. made \in [Handlers -> Seq(Providers)] /\ k \in [Handlers -> Nat \ {0}]
    BY EmptySeq DEF Init
  <2> QED BY <2>1 DEF Init, TypeOK, NoBody, Nobody, Serving
<1>2. ASSUME NEW h \in Handlers PROVE HandlerInv(h)
  BY DEF Init, HandlerInv, RequestInv, UndoInv, PlacedInv, MadeInv, Creating, NoBody, Serving
<1> QED BY <1>1, <1>2 DEF ModelsInv

-----------------------------------------------------------------------------
\* What one call does to Bifrost.

Effect(by) == NoEffect \/ \E p \in Providers : Put(p, by) \/ Delete(p, by)

LEMMA EffectType ==
  ASSUME TypeOK, NEW by \in Handlers \union {Nobody}, Effect(by)
  PROVE /\ bifrost' \subseteq Providers
        /\ owner' \in [Providers -> Handlers \union {Nobody}]
        /\ taken' \in [Handlers -> SUBSET Providers]
        /\ put' \in [Handlers -> SUBSET Providers]
<1>1. CASE NoEffect
  BY <1>1 DEF NoEffect, TypeOK
<1>2. ASSUME NEW p \in Providers, Put(p, by) PROVE bifrost' \subseteq Providers
                 /\ owner' \in [Providers -> Handlers \union {Nobody}]
                 /\ taken' \in [Handlers -> SUBSET Providers]
                 /\ put' \in [Handlers -> SUBSET Providers]
  BY <1>2 DEF Put, TypeOK
<1>3. ASSUME NEW p \in Providers, Delete(p, by) PROVE bifrost' \subseteq Providers
                 /\ owner' \in [Providers -> Handlers \union {Nobody}]
                 /\ taken' \in [Handlers -> SUBSET Providers]
                 /\ put' \in [Handlers -> SUBSET Providers]
  BY <1>3 DEF Delete, TypeOK
<1> QED BY <1>1, <1>2, <1>3 DEF Effect

\* Nobody else's call puts a provider in the name of g, and none removes one
\* that g has put without its being noted.
Undisturbed(g) ==
  /\ \A p \in bifrost' : owner'[p] = g => p \in bifrost /\ owner[p] = g
  /\ put'[g] = put[g]
  /\ put[g] \subseteq bifrost \union taken[g] => put[g] \subseteq bifrost' \union taken'[g]

LEMMA EffectOnOthers ==
  ASSUME ModelsAssumption, TypeOK, NEW g \in Handlers,
         NEW by \in Handlers \union {Nobody}, by # g, Effect(by)
  PROVE Undisturbed(g)
<1>1. CASE NoEffect
  BY <1>1 DEF NoEffect, Undisturbed
<1>2. ASSUME NEW p \in Providers, Put(p, by) PROVE Undisturbed(g)
  BY <1>2 DEF Put, TypeOK, Undisturbed
<1>3. ASSUME NEW p \in Providers, Delete(p, by) PROVE Undisturbed(g)
  BY <1>3 DEF Delete, TypeOK, ModelsAssumption, Undisturbed
<1> QED BY <1>1, <1>2, <1>3 DEF Effect

\* Handler g sits still.
Still(g) ==
  /\ at'[g] = at[g] /\ body'[g] = body[g] /\ made'[g] = made[g]
  /\ k'[g] = k[g] /\ answer'[g] = answer[g]
  /\ doubt'[g] = doubt[g] /\ ignored'[g] = ignored[g]

LEMMA StillKeeps ==
  ASSUME ModelsAssumption, ModelsInv, NEW g \in Handlers, Still(g),
         NEW by \in Handlers \union {Nobody}, by # g, Effect(by)
  PROVE HandlerInv(g)'
<1>1. Undisturbed(g)
  BY EffectOnOthers DEF ModelsInv
<1>2. Creating(g)' = Creating(g) /\ ToUndo(g)' = ToUndo(g) /\ Covered(g)' = Covered(g)
  BY DEF Still, Creating, ToUndo, Covered
<1>3. HandlerInv(g)
  BY DEF ModelsInv
<1>4. RequestInv(g)'
  BY <1>3 DEF HandlerInv, RequestInv, Still
<1>5. UndoInv(g)'
  BY <1>1, <1>2, <1>3 DEF HandlerInv, UndoInv, Still, Undisturbed
<1>6. PlacedInv(g)'
  BY <1>1, <1>2, <1>3 DEF HandlerInv, PlacedInv, Still, Undisturbed
<1>7. MadeInv(g)'
  BY <1>1, <1>2, <1>3 DEF HandlerInv, MadeInv, Still, Undisturbed
<1> QED BY <1>4, <1>5, <1>6, <1>7 DEF HandlerInv

LEMMA StepOfOne ==
  ASSUME ModelsAssumption, ModelsInv, NEW h \in Handlers,
         Effect(h) \/ Effect(Nobody), TypeOK', HandlerInv(h)',
         \A g \in Handlers \ {h} : Still(g)
  PROVE ModelsInv'
<1>1. ASSUME NEW g \in Handlers PROVE HandlerInv(g)'
  <2>1. CASE g = h
    BY <2>1
  <2>2. CASE g # h
    <3>1. h # g /\ Nobody # g
      BY <2>2 DEF ModelsAssumption
    <3> QED BY <2>2, <3>1, StillKeeps
  <2> QED BY <2>1, <2>2
<1> QED BY <1>1 DEF ModelsInv

\* The types of a handler's local variables after a step of it.
LocalType(h) ==
  /\ at' \in [Handlers -> Serving \union {"idle", "answered"}]
  /\ body' \in [Handlers -> Bodies \union {NoBody}]
  /\ made' \in [Handlers -> Seq(Providers)]
  /\ k' \in [Handlers -> Nat \ {0}]
  /\ answer' \in [Handlers -> {"none", "created", "updated", "deleted", "failed"}]
  /\ doubt' \in [Handlers -> SUBSET Providers]
  /\ ignored' \in [Handlers -> SUBSET Providers]
  /\ channels' \subseteq Channels
  /\ at'[h] = "put" => k'[h] <= Len(body'[h].providers)

LEMMA TypeOfOne ==
  ASSUME ModelsAssumption, TypeOK, NEW h \in Handlers,
         Effect(h) \/ Effect(Nobody), LocalType(h), \A g \in Handlers \ {h} : Still(g)
  PROVE TypeOK'
<1>1. /\ bifrost' \subseteq Providers
      /\ owner' \in [Providers -> Handlers \union {Nobody}]
      /\ taken' \in [Handlers -> SUBSET Providers]
      /\ put' \in [Handlers -> SUBSET Providers]
  BY EffectType
<1>2. \A g \in Handlers : at'[g] = "put" => k'[g] <= Len(body'[g].providers)
  BY DEF LocalType, Still, TypeOK
<1> QED BY <1>1, <1>2 DEF LocalType, TypeOK

-----------------------------------------------------------------------------
\* The request a handler serves.

LEMMA BodyFacts ==
  ASSUME ModelsAssumption, ModelsInv, NEW h \in Handlers, at[h] \in Serving
  PROVE /\ body[h] \in Bodies
        /\ at[h] = "put" => /\ body[h].providers \in Seq(Providers)
                            /\ k[h] \in 1 .. Len(body[h].providers)
                            /\ body[h].providers[k[h]] \in Providers
        /\ body[h].kind = "create" => /\ body[h].providers \in Seq(Providers)
                                      /\ body[h].channel \in Channels
        /\ body[h].kind = "wizard-provider" => Len(body[h].providers) = 1
<1>1. body[h] \in Bodies
  <2>1. body[h].kind \in {"create", "update", "wizard-provider", "delete"}
    BY DEF ModelsInv, HandlerInv, RequestInv, Serving
  <2>2. NoBody.kind = "none"
    BY DEF NoBody
  <2>3. body[h] \in Bodies \union {NoBody}
    BY DEF ModelsInv, TypeOK
  <2> QED BY <2>1, <2>2, <2>3
<1>2. body[h] \in Body
  BY <1>1 DEF ModelsAssumption
<1>3. body[h].kind \in {"create", "update", "wizard-provider"}
        => body[h].providers \in Seq(Providers)
  BY <1>2 DEF Body
<1>4. body[h].kind = "create" => body[h].channel \in Channels
  BY <1>2 DEF Body
<1>5. at[h] = "put" => /\ body[h].providers \in Seq(Providers)
                       /\ k[h] \in 1 .. Len(body[h].providers)
  BY <1>3 DEF ModelsInv, HandlerInv, RequestInv, TypeOK
<1>6. at[h] = "put" => body[h].providers[k[h]] \in Providers
  BY <1>5
<1>7. body[h].kind = "wizard-provider" => Len(body[h].providers) = 1
  BY <1>1 DEF ModelsAssumption
<1> QED BY <1>1, <1>3, <1>4, <1>5, <1>6, <1>7

\* A handler that answers drops what it knew.
LEMMA AnswerFacts ==
  ASSUME TypeOK, NEW h \in Handlers,
         NEW a \in {"created", "updated", "deleted", "failed"}, Answer(h, a),
         UNCHANGED <<body, doubt, ignored>>, channels' \subseteq Channels
  PROVE /\ LocalType(h) /\ \A g \in Handlers \ {h} : Still(g)
        /\ at'[h] = "answered" /\ answer'[h] = a /\ made'[h] = << >>
        /\ body'[h] = body[h] /\ doubt'[h] = doubt[h] /\ ignored'[h] = ignored[h]
<1>1. << >> \in Seq(Providers)
  OBVIOUS
<1>2. /\ at' \in [Handlers -> Serving \union {"idle", "answered"}]
      /\ made' \in [Handlers -> Seq(Providers)] /\ k' \in [Handlers -> Nat \ {0}]
      /\ answer' \in [Handlers -> {"none", "created", "updated", "deleted", "failed"}]
  BY <1>1 DEF TypeOK, Answer
<1>3. at'[h] = "answered" /\ answer'[h] = a /\ made'[h] = << >>
  BY DEF TypeOK, Answer
<1>4. \A g \in Handlers \ {h} : Still(g)
  BY DEF TypeOK, Answer, Still
<1> QED BY <1>2, <1>3, <1>4 DEF TypeOK, LocalType

\* An answer that is not "created", and before it nothing left to undo.
LEMMA AnswerKeeps ==
  ASSUME ModelsAssumption, ModelsInv, NEW h \in Handlers,
         NEW a \in {"updated", "deleted", "failed"}, Answer(h, a),
         Effect(h) \/ Effect(Nobody),
         UNCHANGED <<body, doubt, ignored>>, channels' \subseteq Channels,
         Creating(h) => \A p \in bifrost' : owner'[p] = h => p \in doubt[h]
  PROVE ModelsInv'
<1>1. TypeOK
  BY DEF ModelsInv
<1>2. /\ LocalType(h) /\ \A g \in Handlers \ {h} : Still(g)
      /\ at'[h] = "answered" /\ answer'[h] = a /\ made'[h] = << >>
      /\ body'[h] = body[h] /\ doubt'[h] = doubt[h]
  BY <1>1, AnswerFacts
<1>3. TypeOK'
  BY <1>1, <1>2, TypeOfOne
<1>4. HandlerInv(h)'
  BY <1>2 DEF HandlerInv, RequestInv, UndoInv, PlacedInv, MadeInv, Creating, Serving
<1> QED BY <1>2, <1>3, <1>4, StepOfOne

-----------------------------------------------------------------------------
\* Creating, provider by provider.

LEMMA KeepsCreateProvider ==
  ASSUME ModelsAssumption, ModelsInv, NEW h \in Handlers, CreateProvider(h)
  PROVE ModelsInv'
<1> DEFINE list == body[h].providers
           p == list[k[h]]
<1>0. TypeOK /\ HandlerInv(h) /\ at[h] = "put" /\ Creating(h) /\ answer[h] = "none"
  BY DEF ModelsInv, HandlerInv, RequestInv, CreateProvider, Serving
<1>1. list \in Seq(Providers) /\ k[h] \in 1 .. Len(list) /\ p \in Providers
  BY <1>0, BodyFacts DEF Serving
<1>2. /\ (Put(p, h) /\ ignored' = ignored) \/ Ignored(h, p)
      /\ made' = [made EXCEPT ![h] = Append(@, p)]
      /\ k' = [k EXCEPT ![h] = @ + 1] /\ UNCHANGED <<channels, body, doubt, answer>>
      /\ at' = [at EXCEPT ![h] = IF LastOf(h) THEN "channel" ELSE "put"]
  BY DEF CreateProvider, Go
<1>3. Effect(h)
  BY <1>1, <1>2 DEF Effect, Ignored
<1>4. /\ at'[h] = IF LastOf(h) THEN "channel" ELSE "put"
      /\ k'[h] = k[h] + 1 /\ made'[h] = Append(made[h], p)
      /\ body'[h] = body[h] /\ answer'[h] = "none" /\ doubt'[h] = doubt[h]
      /\ made[h] \in Seq(Providers)
  BY <1>0, <1>2 DEF TypeOK
<1>12. /\ ignored' \in [Handlers -> SUBSET Providers]
       /\ ignored[h] \subseteq ignored'[h] /\ put[h] \subseteq put'[h]
       /\ p \in put'[h] \union ignored'[h]
       /\ \A g \in Handlers \ {h} : ignored'[g] = ignored[g]
  <2>1. CASE Put(p, h) /\ ignored' = ignored
    BY <1>0, <2>1 DEF Put, TypeOK
  <2>2. CASE Ignored(h, p)
    BY <1>0, <1>1, <2>2 DEF Ignored, NoEffect, TypeOK
  <2> QED BY <1>2, <2>1, <2>2
<1>5. LocalType(h)
  <2>1. made' \in [Handlers -> Seq(Providers)] /\ k' \in [Handlers -> Nat \ {0}]
    BY <1>0, <1>1, <1>2, <1>4, AppendProperties DEF TypeOK
  <2>2. at'[h] = "put" => k'[h] <= Len(body'[h].providers)
    BY <1>1, <1>4 DEF LastOf
  <2>3. at' \in [Handlers -> Serving \union {"idle", "answered"}]
    BY <1>0, <1>2 DEF TypeOK, Serving
  <2> QED BY <1>0, <1>2, <1>12, <2>1, <2>2, <2>3 DEF TypeOK, LocalType
<1>6. \A g \in Handlers \ {h} : Still(g)
  BY <1>0, <1>2, <1>12 DEF Still, TypeOK
<1>7. RequestInv(h)'
  BY <1>0, <1>4 DEF RequestInv, Creating, Serving
<1>8. UndoInv(h)'
  <2> SUFFICES ASSUME NEW q \in bifrost', owner'[q] = h
               PROVE q \in doubt'[h] \union ToUndo(h)'
    BY DEF UndoInv
  <2>0. at'[h] # "rollback"
    BY <1>4
  <2>1. CASE q = p
    <3>1. Len(made[h]) + 1 \in 1 .. Len(made'[h]) /\ made'[h][Len(made[h]) + 1] = p
      BY <1>1, <1>4, AppendProperties
    <3> QED BY <2>0, <2>1, <3>1, <1>1 DEF ToUndo
  <2>2. CASE q # p
    <3>1. q \in bifrost /\ owner[q] = h
      BY <1>0, <1>2, <2>2 DEF Put, Ignored, NoEffect, TypeOK
    <3>2. q \in doubt[h] \union ToUndo(h)
      BY <1>0, <3>1 DEF HandlerInv, UndoInv
    <3>3. ASSUME NEW i \in 1 .. Len(made[h]) PROVE i \in 1 .. Len(made'[h]) /\ made'[h][i] = made[h][i]
      BY <1>1, <1>4, AppendProperties
    <3> QED BY <1>4, <2>0, <3>2, <3>3 DEF ToUndo
  <2> QED BY <2>1, <2>2
<1>9. PlacedInv(h)'
  <2>1. put'[h] \subseteq bifrost' \union taken'[h]
    <3>1. put[h] \subseteq bifrost \union taken[h]
      BY <1>0 DEF HandlerInv, PlacedInv
    <3> QED BY <1>0, <1>2, <3>1 DEF Put, Ignored, NoEffect, TypeOK
  <2>2. ASSUME NEW i \in Covered(h)' PROVE body'[h].providers[i] \in put'[h] \union ignored'[h]
    <3>1. i \in 1 .. Len(list) /\ (i = k[h] \/ i < k[h])
      BY <1>1, <1>4, <2>2 DEF Covered, LastOf
    <3>2. CASE i = k[h]
      BY <1>4, <1>12, <3>2
    <3>3. CASE i < k[h]
      <4>1. i \in Covered(h)
        BY <3>1, <3>3 DEF Covered
      <4> QED BY <1>0, <1>4, <1>12, <4>1 DEF HandlerInv, PlacedInv
    <3> QED BY <3>1, <3>2, <3>3
  <2> QED BY <2>1, <2>2 DEF PlacedInv
<1>13. MadeInv(h)'
  <2> SUFFICES ASSUME NEW i \in 1 .. Len(made'[h])
               PROVE made'[h][i] \in put'[h] \union ignored'[h]
    BY DEF MadeInv
  <2>1. i = Len(made[h]) + 1 => made'[h][i] = p
    BY <1>1, <1>4, AppendProperties
  <2>2. i # Len(made[h]) + 1 => i \in 1 .. Len(made[h]) /\ made'[h][i] = made[h][i]
    BY <1>1, <1>4, AppendProperties
  <2>3. i \in 1 .. Len(made[h]) => made[h][i] \in put[h] \union ignored[h]
    BY <1>0 DEF HandlerInv, MadeInv
  <2> QED BY <1>12, <2>1, <2>2, <2>3
<1>10. TypeOK'
  BY <1>0, <1>3, <1>5, <1>6, TypeOfOne
<1>11. HandlerInv(h)'
  BY <1>7, <1>8, <1>9, <1>13 DEF HandlerInv
<1> QED BY <1>3, <1>6, <1>10, <1>11, StepOfOne

\* The rollback begins: all it has made is still to undo.
LEMMA RollbackBegins ==
  ASSUME ModelsAssumption, ModelsInv, NEW h \in Handlers, StartRollback(h),
         Creating(h), at[h] \in {"put", "channel"},
         Effect(h), UNCHANGED <<body, made, ignored>>, channels' \subseteq Channels,
         doubt' \in [Handlers -> SUBSET Providers], put[h] \subseteq put'[h],
         \A g \in Handlers \ {h} : doubt'[g] = doubt[g],
         \A q \in bifrost' : owner'[q] = h =>
            q \in doubt'[h] \/ (q \in bifrost /\ owner[q] = h /\ doubt[h] \subseteq doubt'[h])
  PROVE ModelsInv'
<1>0. TypeOK /\ HandlerInv(h) /\ answer[h] = "none"
  BY DEF ModelsInv, HandlerInv, RequestInv, Serving
<1>1. k' = [k EXCEPT ![h] = 1] /\ at' = [at EXCEPT ![h] = "rollback"] /\ answer' = answer
  BY DEF StartRollback, Go
<1>2. /\ at'[h] = "rollback" /\ k'[h] = 1 /\ answer'[h] = "none"
      /\ body'[h] = body[h] /\ made'[h] = made[h]
  BY <1>0, <1>1 DEF TypeOK
<1>3. LocalType(h)
  BY <1>0, <1>1, <1>2 DEF TypeOK, LocalType, Serving
<1>4. \A g \in Handlers \ {h} : Still(g)
  BY <1>0, <1>1 DEF Still, TypeOK
<1>5. TypeOK'
  BY <1>0, <1>3, <1>4, TypeOfOne
<1>6. RequestInv(h)'
  BY <1>2 DEF RequestInv, Creating, Serving
<1>7. UndoInv(h)'
  <2>1. ToUndo(h) \subseteq ToUndo(h)'
    BY <1>2 DEF ToUndo
  <2> QED BY <1>0, <2>1 DEF HandlerInv, UndoInv
<1>8. PlacedInv(h)'
  BY <1>2 DEF PlacedInv
<1>9. MadeInv(h)'
  BY <1>0, <1>2 DEF HandlerInv, MadeInv
<1>10. HandlerInv(h)'
  BY <1>6, <1>7, <1>8, <1>9 DEF HandlerInv
<1> QED BY <1>4, <1>5, <1>10, StepOfOne

LEMMA KeepsCreateProviderFails ==
  ASSUME ModelsAssumption, ModelsInv, NEW h \in Handlers, CreateProviderFails(h)
  PROVE ModelsInv'
<1> DEFINE p == body[h].providers[k[h]]
<1>0. TypeOK /\ at[h] = "put" /\ Creating(h)
  BY DEF ModelsInv, CreateProviderFails
<1>1. p \in Providers
  BY <1>0, BodyFacts DEF Serving
<1>2. /\ doubt' = [doubt EXCEPT ![h] = @ \union {p}] /\ (Put(p, h) \/ NoEffect)
      /\ StartRollback(h) /\ UNCHANGED <<channels, body, made, ignored>>
  BY DEF CreateProviderFails, Doubtful
<1>3. Effect(h)
  BY <1>1, <1>2 DEF Effect
<1>4. /\ doubt' \in [Handlers -> SUBSET Providers] /\ doubt'[h] = doubt[h] \union {p}
      /\ \A g \in Handlers \ {h} : doubt'[g] = doubt[g]
  BY <1>0, <1>1, <1>2 DEF TypeOK
<1>5. ASSUME NEW q \in bifrost', owner'[q] = h
      PROVE q \in doubt'[h] \/ (q \in bifrost /\ owner[q] = h)
  <2>1. CASE NoEffect
    BY <1>5, <2>1 DEF NoEffect
  <2>2. CASE Put(p, h)
    BY <1>0, <1>4, <1>5, <2>2 DEF Put, TypeOK
  <2> QED BY <1>2, <2>1, <2>2
<1>6. channels' \subseteq Channels
  BY <1>0, <1>2 DEF TypeOK
<1>7. put[h] \subseteq put'[h]
  BY <1>0, <1>2 DEF Put, NoEffect, TypeOK
<1> QED BY <1>0, <1>2, <1>3, <1>4, <1>5, <1>6, <1>7, RollbackBegins

\* The channel is there, or New-API has refused it with a 200: the create is
\* answered "created" either way, with all its providers placed.
LEMMA KeepsCreateChannel ==
  ASSUME ModelsAssumption, ModelsInv, NEW h \in Handlers,
         CreateChannel(h) \/ CreateChannelFails(h)
  PROVE ModelsInv'
<1>0. TypeOK /\ HandlerInv(h) /\ at[h] = "channel" /\ Creating(h)
  BY DEF ModelsInv, HandlerInv, RequestInv, CreateChannel, CreateChannelFails, Creating
<1>1. channels' \subseteq Channels
  <2>1. body[h].channel \in Channels
    BY <1>0, BodyFacts DEF Serving, Creating
  <2> QED BY <1>0, <2>1 DEF TypeOK, CreateChannel, CreateChannelFails
<1>2. NoEffect /\ Effect(h) /\ UNCHANGED <<body, doubt, ignored>>
  BY DEF CreateChannel, CreateChannelFails, history, NoEffect, Effect
<1>3. CASE CreateChannel(h)
  <2>1. Answer(h, "created")
    BY <1>3 DEF CreateChannel
  <2>2. /\ LocalType(h) /\ \A g \in Handlers \ {h} : Still(g)
        /\ at'[h] = "answered" /\ answer'[h] = "created" /\ made'[h] = << >>
        /\ body'[h] = body[h] /\ ignored'[h] = ignored[h]
    BY <1>0, <1>1, <1>2, <2>1, AnswerFacts
  <2>3. TypeOK'
    BY <1>0, <1>2, <2>2, TypeOfOne
  <2>4. RequestInv(h)' /\ UndoInv(h)' /\ MadeInv(h)'
    BY <2>2 DEF RequestInv, UndoInv, MadeInv, Serving
  <2>5. PlacedInv(h)'
    <3>1. Covered(h)' \subseteq Covered(h)
      BY <1>0, <2>2 DEF Covered
    <3> QED BY <1>0, <1>2, <2>2, <3>1 DEF HandlerInv, PlacedInv, NoEffect
  <2>6. HandlerInv(h)'
    BY <2>4, <2>5 DEF HandlerInv
  <2> QED BY <1>2, <2>2, <2>3, <2>6, StepOfOne
<1>4. CASE CreateChannelFails(h)
  <2>1. StartRollback(h) /\ UNCHANGED <<body, made, doubt, ignored>> /\ put[h] \subseteq put'[h]
    BY <1>4 DEF CreateChannelFails, history
  <2>2. \A q \in bifrost' : owner'[q] = h => q \in bifrost /\ owner[q] = h
    BY <1>2 DEF NoEffect
  <2> QED BY <1>0, <1>1, <1>2, <2>1, <2>2, RollbackBegins DEF TypeOK
<1> QED BY <1>3, <1>4

-----------------------------------------------------------------------------
\* Rolling back, provider by provider.

LEMMA KeepsRollbackOne ==
  ASSUME ModelsAssumption, ModelsInv, NEW h \in Handlers, RollbackOne(h)
  PROVE ModelsInv'
<1> DEFINE p == made[h][k[h]]
<1>0. TypeOK /\ HandlerInv(h) /\ at[h] = "rollback" /\ Creating(h) /\ answer[h] = "none"
  BY DEF ModelsInv, HandlerInv, RequestInv, RollbackOne, Serving, Creating
<1>1. k[h] \in 1 .. Len(made[h]) /\ p \in Providers
  <2>1. made[h] \in Seq(Providers) /\ k[h] \in Nat \ {0} /\ k[h] <= Len(made[h])
    BY <1>0 DEF TypeOK, RollbackOne, Undo
  <2> QED BY <2>1
<1>2. /\ k' = [k EXCEPT ![h] = k[h] + 1] /\ UNCHANGED <<channels, at, body, made, answer, ignored>>
      /\ \/ Delete(p, h) /\ doubt' = doubt
         \/ /\ Delete(p, h) \/ NoEffect
            /\ doubt' = [doubt EXCEPT ![h] = @ \union {p}]
  BY DEF RollbackOne, Undo, StepOn, Doubtful
<1>3. Effect(h)
  BY <1>1, <1>2 DEF Effect
<1>4. k'[h] = k[h] + 1 /\ doubt[h] \subseteq doubt'[h]
  BY <1>0, <1>2 DEF TypeOK
<1>5. LocalType(h)
  <2>1. k' \in [Handlers -> Nat \ {0}]
    BY <1>0, <1>2 DEF TypeOK
  <2>2. doubt' \in [Handlers -> SUBSET Providers]
    <3>1. doubt' = doubt \/ doubt' = [doubt EXCEPT ![h] = @ \union {p}]
      BY <1>2
    <3>2. doubt \in [Handlers -> SUBSET Providers]
      BY <1>0 DEF TypeOK
    <3>3. doubt[h] \union {p} \in SUBSET Providers
      BY <1>1, <3>2
    <3>4. CASE doubt' = [doubt EXCEPT ![h] = @ \union {p}]
      BY <3>2, <3>3, <3>4
    <3> QED BY <3>1, <3>2, <3>4
  <2> QED BY <1>0, <1>2, <2>1, <2>2 DEF TypeOK, LocalType
<1>6. \A g \in Handlers \ {h} : Still(g)
  BY <1>0, <1>2 DEF Still, TypeOK
<1>7. RequestInv(h)' /\ PlacedInv(h)'
  BY <1>0, <1>2 DEF HandlerInv, RequestInv, PlacedInv
<1>11. MadeInv(h)'
  <2>1. put' = put
    BY <1>2 DEF Delete, NoEffect
  <2> QED BY <1>0, <1>2, <2>1 DEF HandlerInv, MadeInv
<1>8. UndoInv(h)'
  <2> SUFFICES ASSUME NEW q \in bifrost', owner'[q] = h
               PROVE q \in doubt'[h] \union ToUndo(h)'
    BY DEF UndoInv
  <2>1. q \in bifrost /\ owner[q] = h
    BY <1>0, <1>2 DEF Delete, NoEffect, TypeOK, ModelsAssumption
  <2>2. q \in doubt[h] \union ToUndo(h)
    BY <1>0, <2>1 DEF HandlerInv, UndoInv
  <2>3. CASE q \in doubt[h]
    BY <1>4, <2>3
  <2>4. CASE q = p
    <3>1. ~Delete(p, h)
      BY <2>4 DEF Delete
    <3> QED BY <1>0, <1>2, <2>4, <3>1 DEF TypeOK
  <2>5. CASE q \in ToUndo(h) /\ q # p
    <3>1. PICK i \in 1 .. Len(made[h]) : made[h][i] = q /\ k[h] <= i
      BY <1>0, <2>5 DEF ToUndo
    <3>2. i # k[h] /\ k[h] \in Nat
      BY <1>1, <2>5, <3>1
    <3>3. k'[h] <= i
      BY <1>4, <3>1, <3>2
    <3> QED BY <1>2, <3>1, <3>3, <2>5 DEF ToUndo
  <2> QED BY <2>2, <2>3, <2>4, <2>5
<1>9. TypeOK'
  BY <1>0, <1>3, <1>5, <1>6, TypeOfOne
<1>10. HandlerInv(h)'
  BY <1>7, <1>8, <1>11 DEF HandlerInv
<1> QED BY <1>3, <1>6, <1>9, <1>10, StepOfOne

LEMMA KeepsRollbackOver ==
  ASSUME ModelsAssumption, ModelsInv, NEW h \in Handlers, RollbackOver(h)
  PROVE ModelsInv'
<1>0. TypeOK /\ HandlerInv(h) /\ at[h] = "rollback" /\ answer[h] = "none"
  BY DEF ModelsInv, HandlerInv, RequestInv, RollbackOver, Serving
<1>1. ToUndo(h) = {}
  BY <1>0 DEF ToUndo, RollbackOver, Undo, TypeOK
<1>2. Answer(h, "failed") /\ NoEffect /\ UNCHANGED <<body, doubt, channels, ignored>>
  BY DEF RollbackOver, history, NoEffect
<1>3. Creating(h) => \A p \in bifrost' : owner'[p] = h => p \in doubt[h]
  BY <1>0, <1>1, <1>2 DEF HandlerInv, UndoInv, NoEffect
<1> QED BY <1>0, <1>2, <1>3, AnswerKeeps DEF Effect, TypeOK

-----------------------------------------------------------------------------
\* The other requests put in nobody's name and are not creates.

LEMMA NotCreating ==
  ASSUME ModelsAssumption, ModelsInv, NEW h \in Handlers, ~Creating(h),
         body'[h] = body[h],
         Effect(h) \/ Effect(Nobody), LocalType(h), \A g \in Handlers \ {h} : Still(g),
         RequestInv(h)'
  PROVE ModelsInv'
<1>1. TypeOK'
  BY TypeOfOne DEF ModelsInv
<1>2. HandlerInv(h)'
  BY DEF HandlerInv, UndoInv, PlacedInv, MadeInv, Creating
<1> QED BY <1>1, <1>2, StepOfOne

LEMMA KeepsUpdateProvider ==
  ASSUME ModelsAssumption, ModelsInv, NEW h \in Handlers, UpdateProvider(h)
  PROVE ModelsInv'
<1>0. TypeOK /\ HandlerInv(h) /\ at[h] = "put" /\ body[h].kind = "update" /\ ~Creating(h)
  BY DEF ModelsInv, UpdateProvider, Creating
<1>1. Effect(Nobody) /\ UNCHANGED <<channels, body, doubt, ignored>>
  BY <1>0, BodyFacts DEF Effect, UpdateProvider, Serving
<1>2. CASE Answer(h, "updated")
  BY <1>0, <1>1, <1>2, AnswerKeeps DEF TypeOK
<1>3. CASE ~LastOf(h) /\ Go(h, "put") /\ k' = [k EXCEPT ![h] = @ + 1] /\ UNCHANGED made
  <2>1. at' = at /\ answer' = answer /\ k'[h] = k[h] + 1
    BY <1>0, <1>3 DEF Go, TypeOK
  <2>2. k'[h] <= Len(body'[h].providers)
    BY <1>0, <1>1, <1>3, <2>1, BodyFacts DEF LastOf, Serving
  <2>3. LocalType(h) /\ RequestInv(h)'
    BY <1>0, <1>1, <1>3, <2>1, <2>2 DEF TypeOK, LocalType, HandlerInv, RequestInv
  <2>4. \A g \in Handlers \ {h} : Still(g)
    BY <1>0, <1>1, <1>3, <2>1 DEF TypeOK, Still
  <2> QED BY <1>0, <1>1, <2>3, <2>4, NotCreating
<1> QED BY <1>2, <1>3 DEF UpdateProvider

LEMMA KeepsWizardProvider ==
  ASSUME ModelsAssumption, ModelsInv, NEW h \in Handlers, WizardProvider(h)
  PROVE ModelsInv'
<1>0. TypeOK /\ at[h] = "put" /\ body[h].kind = "wizard-provider" /\ ~Creating(h)
  BY DEF ModelsInv, WizardProvider, Creating
<1>1. body[h].providers[1] \in Providers
  <2>1. body[h].providers \in Seq(Providers) /\ Len(body[h].providers) = 1
    BY <1>0, BodyFacts DEF Serving
  <2> QED BY <2>1
<1>2. Effect(Nobody) /\ UNCHANGED <<channels, body, doubt, ignored>>
  BY <1>1 DEF Effect, WizardProvider
<1>3. CASE Answer(h, "failed")
  BY <1>0, <1>2, <1>3, AnswerKeeps DEF TypeOK
<1>4. CASE Answer(h, "created")
  <2>1. /\ LocalType(h) /\ \A g \in Handlers \ {h} : Still(g)
        /\ at'[h] = "answered" /\ made'[h] = << >> /\ body'[h] = body[h]
    BY <1>0, <1>2, <1>4, AnswerFacts DEF TypeOK
  <2>2. RequestInv(h)'
    BY <2>1 DEF RequestInv, Serving
  <2> QED BY <1>0, <1>2, <2>1, <2>2, NotCreating
<1> QED BY <1>3, <1>4 DEF WizardProvider

LEMMA KeepsDeleteProvider ==
  ASSUME ModelsAssumption, ModelsInv, NEW h \in Handlers, DeleteProvider(h)
  PROVE ModelsInv'
<1>0. TypeOK /\ HandlerInv(h) /\ at[h] = "delete" /\ answer[h] = "none"
      /\ body[h].kind = "delete" /\ ~Creating(h)
  BY DEF ModelsInv, HandlerInv, RequestInv, DeleteProvider, Creating, Serving
<1>1. Effect(h) /\ UNCHANGED <<channels, body, made, k, doubt, answer, ignored>>
      /\ at' = [at EXCEPT ![h] = "delete-channel"]
  BY DEF DeleteProvider, Effect, Go
<1>2. LocalType(h) /\ at'[h] = "delete-channel"
  BY <1>0, <1>1 DEF TypeOK, LocalType, Serving
<1>3. RequestInv(h)'
  BY <1>0, <1>1, <1>2 DEF RequestInv, Serving
<1>4. \A g \in Handlers \ {h} : Still(g)
  BY <1>0, <1>1 DEF TypeOK, Still
<1> QED BY <1>0, <1>1, <1>2, <1>3, <1>4, NotCreating

LEMMA KeepsDeleteChannel ==
  ASSUME ModelsAssumption, ModelsInv, NEW h \in Handlers, DeleteChannel(h)
  PROVE ModelsInv'
<1>0. TypeOK /\ ~Creating(h)
  BY DEF ModelsInv, HandlerInv, RequestInv, DeleteChannel, Creating, Serving
<1>1. NoEffect /\ UNCHANGED <<body, doubt, ignored>> /\ channels' \subseteq Channels
  BY <1>0 DEF DeleteChannel, history, NoEffect, TypeOK
<1>2. PICK a \in {"deleted", "failed"} : Answer(h, a)
  BY DEF DeleteChannel
<1> QED BY <1>0, <1>1, <1>2, AnswerKeeps DEF Effect

-----------------------------------------------------------------------------
\* A request arrives.
LEMMA KeepsServe ==
  ASSUME ModelsAssumption, ModelsInv, NEW h \in Handlers, NEW b \in Bodies, Serve(h, b)
  PROVE ModelsInv'
<1>0. TypeOK /\ b \in Body
  BY DEF ModelsInv, ModelsAssumption
<1>1. /\ at'[h] = IF b.kind = "delete" THEN "delete"
                  ELSE IF b.kind = "create" /\ b.providers = << >> THEN "channel" ELSE "put"
      /\ body'[h] = b /\ made'[h] = << >> /\ k'[h] = 1 /\ answer'[h] = "none"
      /\ doubt'[h] = {} /\ put'[h] = {}
  BY <1>0 DEF Serve, TypeOK
<1>2. \A p \in Providers : owner'[p] # h
  BY DEF Serve, ModelsAssumption
<1>3. b.kind \in {"create", "update", "wizard-provider", "delete"}
  BY <1>0 DEF Body
<1>4. b.kind # "delete" => b.providers \in Seq(Providers)
  BY <1>0 DEF Body
<1>5. at'[h] = "put" => 1 <= Len(b.providers)
  <2>1. CASE b.kind = "create"
    <3>1. at'[h] = "put" => b.providers # << >>
      BY <1>1, <2>1
    <3> QED BY <1>4, <2>1, <3>1
  <2>2. CASE b.kind = "update"
    <3>1. b.providers # << >>
      BY <2>2 DEF ModelsAssumption
    <3> QED BY <1>4, <2>2, <3>1
  <2>3. CASE b.kind = "wizard-provider"
    BY <2>3 DEF ModelsAssumption
  <2> QED BY <1>1, <1>3, <2>1, <2>2, <2>3
<1>6. TypeOK'
  <2>1. /\ at' \in [Handlers -> Serving \union {"idle", "answered"}]
        /\ body' \in [Handlers -> Bodies \union {NoBody}]
        /\ made' \in [Handlers -> Seq(Providers)] /\ k' \in [Handlers -> Nat \ {0}]
    BY <1>0 DEF TypeOK, Serve, Serving
  <2>2. /\ answer' \in [Handlers -> {"none", "created", "updated", "deleted", "failed"}]
        /\ owner' \in [Providers -> Handlers \union {Nobody}]
        /\ doubt' \in [Handlers -> SUBSET Providers]
        /\ taken' \in [Handlers -> SUBSET Providers]
        /\ put' \in [Handlers -> SUBSET Providers]
        /\ ignored' \in [Handlers -> SUBSET Providers]
    BY <1>0 DEF TypeOK, Serve
  <2>3. \A g \in Handlers : at'[g] = "put" => k'[g] <= Len(body'[g].providers)
    BY <1>0, <1>1, <1>5 DEF TypeOK, Serve
  <2> QED BY <1>0, <2>1, <2>2, <2>3 DEF TypeOK, Serve
<1>7. HandlerInv(h)'
  <2>1. RequestInv(h)'
    BY <1>1, <1>3 DEF RequestInv
  <2>2. UndoInv(h)'
    BY <1>2, <1>6 DEF UndoInv, TypeOK
  <2>3. b.kind = "create" => Covered(h)' = {}
    <3>1. b.kind = "create" => \/ at'[h] = "put"
                               \/ at'[h] = "channel" /\ Len(b.providers) = 0
      BY <1>1
    <3> QED BY <1>1, <1>4, <3>1 DEF Covered
  <2>4. PlacedInv(h)' /\ MadeInv(h)'
    BY <1>1, <2>3 DEF PlacedInv, MadeInv, Creating
  <2> QED BY <2>1, <2>2, <2>4 DEF HandlerInv
<1>8. ASSUME NEW g \in Handlers, g # h PROVE HandlerInv(g)'
  <2>1. HandlerInv(g)
    BY DEF ModelsInv
  <2>2. Still(g) /\ taken'[g] = taken[g] /\ put'[g] = put[g] /\ bifrost' = bifrost
    BY <1>0, <1>8 DEF Serve, Still, TypeOK
  <2>3. \A p \in bifrost : owner'[p] = g => owner[p] = g
    BY <1>0, <1>8 DEF Serve, TypeOK, ModelsAssumption
  <2>4. Creating(g)' = Creating(g) /\ ToUndo(g)' = ToUndo(g) /\ Covered(g)' = Covered(g)
    BY <2>2 DEF Still, Creating, ToUndo, Covered
  <2>5. RequestInv(g)' /\ UndoInv(g)' /\ PlacedInv(g)' /\ MadeInv(g)'
    BY <2>1, <2>2, <2>3, <2>4 DEF HandlerInv, RequestInv, UndoInv, PlacedInv, MadeInv, Still
  <2> QED BY <2>5 DEF HandlerInv
<1> QED BY <1>6, <1>7, <1>8 DEF ModelsInv

LEMMA KeepsRestart == ASSUME ModelsInv, Restart PROVE ModelsInv'
<1>1. TypeOK'
  <2>1. made' \in [Handlers -> Seq(Providers)] /\ k' \in [Handlers -> Nat \ {0}]
    BY EmptySeq DEF Restart
  <2> QED BY <2>1 DEF ModelsInv, Restart, TypeOK, NoBody, Nobody, Serving
<1>2. ASSUME NEW h \in Handlers PROVE HandlerInv(h)'
  BY DEF Restart, HandlerInv, RequestInv, UndoInv, PlacedInv, MadeInv, Creating, NoBody, Serving
<1> QED BY <1>1, <1>2 DEF ModelsInv

LEMMA KeepsOthers ==
  ASSUME ModelsAssumption, ModelsInv, NEW p \in Providers, Others(p) PROVE ModelsInv'
<1>1. Effect(Nobody) /\ UNCHANGED <<channels, at, body, made, k, answer, doubt, ignored>>
  BY DEF Others, Effect, local
<1>2. TypeOK'
  BY <1>1, EffectType DEF ModelsInv, TypeOK
<1>3. ASSUME NEW g \in Handlers PROVE HandlerInv(g)'
  BY <1>1, StillKeeps DEF Still, ModelsAssumption
<1> QED BY <1>2, <1>3 DEF ModelsInv

LEMMA ModelsStep ==
  ASSUME ModelsAssumption, ModelsInv, [Next]_vars PROVE ModelsInv'
<1>1. CASE UNCHANGED vars
  BY <1>1 DEF vars, local, history, ModelsInv, TypeOK, HandlerInv, RequestInv, UndoInv,
              PlacedInv, MadeInv, Creating, ToUndo, Covered
<1>2. ASSUME NEW h \in Handlers, Handle(h) PROVE ModelsInv'
  BY <1>2, KeepsCreateProvider, KeepsCreateProviderFails, KeepsCreateChannel,
     KeepsRollbackOne, KeepsRollbackOver, KeepsUpdateProvider, KeepsWizardProvider,
     KeepsDeleteProvider, KeepsDeleteChannel DEF Handle
<1>3. ASSUME NEW h \in Handlers, NEW b \in Bodies, Serve(h, b) PROVE ModelsInv'
  BY <1>3, KeepsServe
<1>4. ASSUME NEW p \in Providers, Others(p) PROVE ModelsInv'
  BY <1>4, KeepsOthers
<1> QED BY <1>1, <1>2, <1>3, <1>4, KeepsRestart DEF Next

\* The invariant holds in every reachable state.
THEOREM ModelsInvariant == Spec => []ModelsInv
<1>1. Init => ModelsInv
  BY ModelsInit
<1>2. ModelsInv /\ [Next]_vars => ModelsInv'
  BY ModelsStep, ModelsAssumption
<1> QED BY <1>1, <1>2, PTL DEF Spec

\* Every variable has its type, and no loop over providers leaves its list.
THEOREM ModelsTypeCorrect == Spec => []TypeOK
<1>1. ModelsInv => TypeOK
  BY DEF ModelsInv
<1> QED BY <1>1, ModelsInvariant, PTL

\* However many requests are served at once, and whatever fails or is restarted:
\* a create answered with an error leaves none of its providers in Bifrost but
\* those about which Bifrost failed or ignored a call, and one answered "created" has
\* all its providers there that Bifrost did not just say it had created, but those
\* somebody else removed.
THEOREM CreateIsAlwaysAllOrNothing == Spec => []CreateIsAllOrNothing
<1>1. ModelsInv => CreateIsAllOrNothing
  <2> SUFFICES ASSUME ModelsInv, NEW h \in Handlers, Creating(h)
               PROVE /\ answer[h] = "failed" => \A p \in bifrost : owner[p] = h => p \in doubt[h]
                     /\ answer[h] = "created" =>
                          Range(body[h].providers) \subseteq bifrost \union taken[h] \union ignored[h]
    BY DEF CreateIsAllOrNothing
  <2>1. TypeOK /\ HandlerInv(h)
    BY DEF ModelsInv
  <2>2. ASSUME answer[h] = "failed" PROVE \A p \in bifrost : owner[p] = h => p \in doubt[h]
    <3>1. ToUndo(h) = {}
      BY <2>1, <2>2 DEF HandlerInv, RequestInv, ToUndo
    <3> QED BY <2>1, <2>2, <3>1 DEF HandlerInv, UndoInv
  <2>3. ASSUME answer[h] = "created"
        PROVE Range(body[h].providers) \subseteq bifrost \union taken[h] \union ignored[h]
    <3>1. at[h] \notin Serving
      BY <2>1, <2>3 DEF HandlerInv, RequestInv
    <3>2. body[h] \in Body
      <4>1. NoBody.kind # "create" /\ body[h] \in Bodies \union {NoBody}
        BY <2>1 DEF TypeOK, NoBody
      <4> QED BY <4>1, ModelsAssumption DEF Creating, ModelsAssumption
    <3>3. body[h].providers \in Seq(Providers)
      BY <3>2 DEF Body, Creating
    <3>4. Covered(h) = DOMAIN body[h].providers
      BY <3>1, <3>3 DEF Covered, Serving
    <3> QED BY <2>1, <2>3, <3>4 DEF HandlerInv, PlacedInv, Range
  <2> QED BY <2>2, <2>3
<1> QED BY <1>1, ModelsInvariant, PTL

\* A rollback deletes only what calls of the request itself have put, or were told
\* they had: a provider that was there before, and to which the request did not get
\* or whose call was refused, survives.  The invariant ties the list the rollback
\* goes through to the calls that were made (MadeInv).
THEOREM RollbackAlwaysSpares == Spec => RollbackSparesTheUnwritten
<1> DEFINE Spares == \A h \in Handlers : at[h] = "rollback" /\ k'[h] > k[h] =>
                       bifrost \ bifrost' \subseteq put[h] \union ignored[h]
<1>1. ModelsInv /\ [Next]_vars => [Spares]_vars
  <2> SUFFICES ASSUME ModelsInv, Next, NEW h \in Handlers, at[h] = "rollback", k'[h] > k[h]
               PROVE bifrost \ bifrost' \subseteq put[h] \union ignored[h]
    OBVIOUS
  <2>0. TypeOK /\ k[h] \in Nat \ {0} /\ made[h] \in Seq(Providers)
    BY DEF ModelsInv, TypeOK
  <2>1. k' # k /\ k'[h] # 1
    BY <2>0
  <2>2. ASSUME NEW g \in Handlers, Handle(g), g # h PROVE FALSE
    <3>1. \/ UNCHANGED k
          \/ k' = [k EXCEPT ![g] = 1] \/ k' = [k EXCEPT ![g] = k[g] + 1]
      BY <2>2 DEF Handle, CreateProvider, CreateProviderFails, CreateChannel,
           CreateChannelFails, StartRollback, RollbackOne, StepOn, RollbackOver, UpdateProvider,
           WizardProvider, DeleteProvider, DeleteChannel, Answer
    <3> QED BY <2>0, <2>2, <3>1 DEF TypeOK
  <2>3. ASSUME Handle(h) PROVE bifrost \ bifrost' \subseteq put[h] \union ignored[h]
    <3>1. RollbackOne(h) \/ RollbackOver(h)
      <4>1. ~(UpdateProvider(h) \/ WizardProvider(h))
        BY DEF UpdateProvider, WizardProvider
      <4> QED BY <2>3, <4>1 DEF Handle, CreateProvider, CreateProviderFails, CreateChannel,
                   CreateChannelFails, DeleteProvider, DeleteChannel
    <3>2. ~RollbackOver(h)
      BY <2>0, <2>1 DEF RollbackOver, Answer, TypeOK
    <3>3. RollbackOne(h)
      BY <3>1, <3>2
    <3>5. k[h] \in 1 .. Len(made[h])
      <4>1. k[h] <= Len(made[h])
        BY <3>3 DEF RollbackOne, Undo
      <4> QED BY <2>0, <4>1
    <3>4. bifrost \ bifrost' \subseteq {made[h][k[h]]}
      BY <3>3 DEF RollbackOne, Undo, Delete, NoEffect
    <3>6. made[h][k[h]] \in put[h] \union ignored[h]
      BY <3>5 DEF ModelsInv, HandlerInv, RequestInv, MadeInv, Creating
    <3> QED BY <3>4, <3>6
  <2>4. ASSUME NEW g \in Handlers, NEW b \in Bodies, Serve(g, b) PROVE FALSE
    BY <2>0, <2>1, <2>4 DEF Serve, TypeOK
  <2>5. ASSUME NEW p \in Providers, Others(p) PROVE FALSE
    BY <2>1, <2>5 DEF Others, local
  <2>6. ~Restart
    BY <2>1 DEF Restart
  <2> QED BY <2>2, <2>3, <2>4, <2>5, <2>6 DEF Next
<1>2. Spec => [][Spares]_vars
  BY <1>1, ModelsInvariant, PTL DEF Spec
<1> QED BY <1>2 DEF RollbackSparesTheUnwritten
=============================================================================
