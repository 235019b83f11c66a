----------------------------- MODULE ChannelSync -----------------------------
(***************************************************************************)
(* `starapihub sync --target channel': the channel reconciler run by the   *)
(* orchestrator against New-API's channel table, which the operator's      *)
(* admin UI, live traffic and other sync processes change meanwhile.       *)
(*                                                                         *)
(* The table is read once, before planning; every action is planned from   *)
(* that snapshot and sent by the id or name found there.                   *)
(***************************************************************************)
EXTENDS SyncOrchestrator, Functions, SequencesExt

CONSTANTS
  Keys,         \* keys of the channels map in channels.yaml
  Names,        \* display names a channel can have
  Main,         \* values of the fields verifyUpdate reads back: models, group
  Rest,         \* values of the other fields channelNeedUpdate compares
  Desired,      \* Desired[k] = [name, main, rest], the registry entry of key k
  MaxInit,      \* bound: channels New-API has to start with
  MaxId,        \* bound: channel ids New-API hands out, in increasing order
  World,        \* what others do meanwhile: create edit rename delete traffic
  Ignored,      \* fields New-API may silently leave as they are: main, rest
  FetchMayFail  \* may the list call before planning fail?

ASSUME ChannelAssumption ==
  /\ Order = <<"channel">>
  /\ MaxInit \in Nat /\ MaxId \in Nat /\ MaxInit =< MaxId
  /\ IsFiniteSet(Keys)
  /\ \A k \in Keys : /\ Desired[k].name \in Names
                     /\ Desired[k].main \in Main
                     /\ Desired[k].rest \in Rest
  /\ World \subseteq {"create", "edit", "rename", "delete", "traffic"}
  /\ Ignored \subseteq {"main", "rest"}
  /\ FetchMayFail \in BOOLEAN

VARIABLES
  chan,      \* New-API's channels: id -> [name, main, rest, used]
  nextId,    \* the id New-API gives the next channel
  snap,      \* snap[r]: the channels run r fetched, cleared once planned from
  queue,     \* queue[r]: the actions left of run r's plan
  quiet      \* history variable: quiet[r] while run r's list of the table was
             \* read and nobody but r has changed the table since

chanVars == <<chan, nextId, snap, queue, quiet>>
vars == <<orchVars, chanVars>>

Channel == [name : Names, main : Main, rest : Rest, used : BOOLEAN]
NoChannels == <<>>
DesiredNames == {Desired[k].name : k \in Keys}

\* ResourceID is the registry key for creates and updates, the display name
\* for deletes; live is the id in the snapshot, 0 for a create.
ChannelAction ==
  [type : {"create", "update"}, id : Keys, live : 0 .. MaxId]
  \cup [type : {"delete"}, id : Names, live : 0 .. MaxId]

Init ==
  /\ OrchInit
  /\ nextId \in 1 .. (MaxInit + 1)
  /\ chan \in [1 .. (nextId - 1) -> Channel]
  /\ snap = [r \in Runs |-> NoChannels]
  /\ queue = [r \in Runs |-> <<>>]
  /\ quiet = [r \in Runs |-> FALSE]

-----------------------------------------------------------------------------
\* Fetch and plan.

\* fetchLiveState: a failed list is passed on as no channels at all.
StartSync(r, o) ==
  /\ Start(r, o)
  /\ \/ /\ snap' = [snap EXCEPT ![r] = chan]
        /\ quiet' = [quiet EXCEPT ![r] = TRUE]
     \/ /\ FetchMayFail
        /\ snap' = [snap EXCEPT ![r] = NoChannels]
        /\ quiet' = [quiet EXCEPT ![r] = FALSE]
  /\ queue' = [queue EXCEPT ![r] = <<>>]
  /\ UNCHANGED <<chan, nextId>>

\* liveByName: one id for each name in the list; which one, when several
\* channels share a name, depends on the order of the list.
ByName(live) ==
  LET names == {live[i].name : i \in DOMAIN live}
  IN  {f \in [names -> DOMAIN live] : \A n \in names : live[f[n]].name = n}

channelNeedUpdate(k, ch) == Desired[k].main # ch.main \/ Desired[k].rest # ch.rest

\* Wrong: create-only, as the legacy shell script was.
CreateOnly(live, byName) ==
  {[type |-> "create", id |-> k, live |-> 0] :
     k \in {k \in Keys : \/ Desired[k].name \notin DOMAIN byName
                         \/ channelNeedUpdate(k, live[byName[Desired[k].name]])}}

Upserts(live, byName) ==
  {[type |-> "create", id |-> k, live |-> 0] :
     k \in {k \in Keys : Desired[k].name \notin DOMAIN byName}}
  \cup
  {[type |-> "update", id |-> k, live |-> byName[Desired[k].name]] :
     k \in {k \in Keys : /\ Desired[k].name \in DOMAIN byName
                         /\ channelNeedUpdate(k, live[byName[Desired[k].name]])}}

\* Wrong: prunes by billing history alone.
PruneUnbilled(live, byName) ==
  {[type |-> "delete", id |-> n, live |-> byName[n]] :
     n \in {n \in DOMAIN byName : ~live[byName[n]].used}}

\* Prune: names no entry has, but not channels with billing history.
Prunable(live, byName) ==
  {[type |-> "delete", id |-> n, live |-> byName[n]] :
     n \in {n \in DOMAIN byName \ DesiredNames : ~live[byName[n]].used}}

\* The plans for a snapshot.  Both loops run over Go maps, in any order.
Plans(live, prune) ==
  UNION {{u \o d : u \in SetToSeqs(Upserts(live, byName)),
                   d \in SetToSeqs(IF prune THEN Prunable(live, byName) ELSE {})} :
         byName \in ByName(live)}

PlanChannels(r) ==
  /\ \E acts \in Plans(snap[r], opts[r].prune) :
       /\ PlanReturns(r, Len(acts))
       /\ queue' = [queue EXCEPT ![r] = IF opts[r].dryRun THEN <<>> ELSE acts]
  /\ snap' = [snap EXCEPT ![r] = NoChannels]
  /\ UNCHANGED <<chan, nextId, quiet>>

-----------------------------------------------------------------------------
\* Apply: one HTTP call to New-API for the action at the head of the queue.

Doing(r, type) == phase[r] = "apply" /\ Head(queue[r]).type = type

\* What run r's caller sees of a call that changed the table: a success, or an
\* error because the answer was lost (timeout, a 5xx after the write).
Answered(r) == ApplySucceeds(r) \/ ApplyFails(r)

\* A call that changed nothing is an error where the success flag is read.
Refused(r) == ApplyFails(r) /\ UNCHANGED <<chan, quiet>>

\* Wrong: a failed action stays in the queue.
KeepFailed(r) == UNCHANGED queue

\* A failed action has left the queue; one to be verified stays at its head.
DropFailed(r) ==
  queue' = IF phase'[r] = "verify" THEN queue ELSE [queue EXCEPT ![r] = Tail(@)]

Wrote(r) == quiet' = [s \in Runs |-> quiet[s] /\ s = r]

\* The channel New-API stores for the payload of entry k over an old value: it
\* may leave the fields in Ignored as they were.
Stored(k, old) ==
  {[name |-> Desired[k].name, main |-> m, rest |-> x, used |-> old.used] :
     m \in {Desired[k].main} \cup (IF "main" \in Ignored THEN {old.main} ELSE {}),
     x \in {Desired[k].rest} \cup (IF "rest" \in Ignored THEN {old.rest} ELSE {})}

\* The table with a channel more (spelt out, as the provers do not know `@@').
Inserted(i, ch) == [j \in DOMAIN chan \cup {i} |-> IF j = i THEN ch ELSE chan[j]]

\* CreateChannel checks the HTTP status only, so a refusal sent as 200 with
\* success=false counts as a success.
ApplyCreate(r) ==
  LET k == Head(queue[r]).id
      new == [name |-> Desired[k].name, main |-> Desired[k].main,
              rest |-> Desired[k].rest, used |-> FALSE]
  IN  /\ Doing(r, "create")
      /\ Answered(r)
      /\ \/ /\ nextId =< MaxId
            /\ chan' = Inserted(nextId, new)
            /\ nextId' = nextId + 1
            /\ Wrote(r)
         \/ UNCHANGED <<chan, nextId, quiet>>
      /\ DropFailed(r)
      /\ UNCHANGED snap

\* UpdateChannelTyped replays the PUT once after a 5xx, which stores the same
\* thing again, and reads the success flag, so a refusal is an error.
ApplyUpdate(r) ==
  LET k == Head(queue[r]).id
      i == Head(queue[r]).live
  IN  /\ Doing(r, "update")
      /\ \/ /\ i \in DOMAIN chan
            /\ Answered(r)
            /\ \E ch \in Stored(k, chan[i]) : chan' = [chan EXCEPT ![i] = ch]
            /\ Wrote(r)
         \/ Refused(r)
      /\ DropFailed(r)
      /\ UNCHANGED <<nextId, snap>>

\* DeleteChannel also checks the HTTP status only.
ApplyDelete(r) ==
  LET i == Head(queue[r]).live
  IN  /\ Doing(r, "delete")
      /\ Answered(r)
      /\ \/ /\ i \in DOMAIN chan
            /\ chan' = Restrict(chan, DOMAIN chan \ {i})
            /\ Wrote(r)
         \/ UNCHANGED <<chan, quiet>>
      /\ DropFailed(r)
      /\ UNCHANGED <<nextId, snap>>

-----------------------------------------------------------------------------
\* Verify: read New-API again; a failed read leaves the result unverified.

Listed(name) == \E i \in DOMAIN chan : chan[i].name = name

Verifying(r, type) == phase[r] = "verify" /\ Head(queue[r]).type = type

Verified(r, s) ==
  /\ \E v \in {s, "unverified"} : VerifyReturns(r, v)
  /\ queue' = [queue EXCEPT ![r] = Tail(@)]
  /\ UNCHANGED <<chan, nextId, snap, quiet>>

verifyCreate(r) ==
  /\ Verifying(r, "create")
  /\ Verified(r, IF Listed(Head(queue[r]).id) THEN "ok" ELSE "applied-with-drift")

\* Wrong: an update counts as verified whatever the channel holds.
ReadsAnything(k, ch) == TRUE
ReadsBack(k, ch) == ch.name = Desired[k].name /\ ch.main = Desired[k].main

verifyUpdate(r) ==
  LET k == Head(queue[r]).id
      i == Head(queue[r]).live
  IN  /\ Verifying(r, "update")
      /\ Verified(r, IF i \notin DOMAIN chan THEN "unverified"
                     ELSE IF ReadsBack(k, chan[i]) THEN "ok"
                     ELSE "applied-with-drift")

verifyDelete(r) ==
  /\ Verifying(r, "delete")
  /\ Verified(r, IF Listed(Head(queue[r]).id) THEN "applied-with-drift" ELSE "ok")

-----------------------------------------------------------------------------
\* The rest of the run, which leaves New-API alone.
Ending(r) ==
  /\ queue' = [queue EXCEPT ![r] = <<>>]
  /\ snap' = [snap EXCEPT ![r] = NoChannels]
  /\ UNCHANGED <<chan, nextId, quiet>>

Finish(r) == (Return(r) \/ Exit(r)) /\ Ending(r)
Die(r) == Crash(r) /\ Ending(r)

\* Others: the admin UI and billed traffic.
Elsewhere(what) ==
  /\ what \in World
  /\ quiet' = [r \in Runs |-> FALSE]
  /\ UNCHANGED <<orchVars, snap, queue>>

OtherCreates(ch) ==
  /\ Elsewhere("create")
  /\ nextId =< MaxId
  /\ ~ch.used
  /\ chan' = Inserted(nextId, ch)
  /\ nextId' = nextId + 1

OtherChanges(i, ch) ==
  /\ i \in DOMAIN chan
  /\ ch # chan[i]
  /\ \/ Elsewhere("edit") /\ ch.name = chan[i].name /\ ch.used = chan[i].used
     \/ Elsewhere("rename") /\ ch = [chan[i] EXCEPT !.name = ch.name]
     \/ Elsewhere("traffic") /\ ch = [chan[i] EXCEPT !.used = TRUE]
  /\ chan' = [chan EXCEPT ![i] = ch]
  /\ UNCHANGED nextId

OtherDeletes(i) ==
  /\ Elsewhere("delete")
  /\ i \in DOMAIN chan
  /\ chan' = Restrict(chan, DOMAIN chan \ {i})
  /\ UNCHANGED nextId

Step(r) ==
  \/ PlanChannels(r)
  \/ ApplyCreate(r) \/ ApplyUpdate(r) \/ ApplyDelete(r)
  \/ verifyCreate(r) \/ verifyUpdate(r) \/ verifyDelete(r)
  \/ Finish(r)

Others ==
  \/ \E ch \in Channel : OtherCreates(ch)
  \/ \E i \in 1 .. MaxId : OtherDeletes(i) \/ \E ch \in Channel : OtherChanges(i, ch)

Next ==
  \/ \E r \in Runs : \/ \E o \in Options : StartSync(r, o)
                     \/ Step(r)
                     \/ Die(r)
  \/ Others

\* Weak fairness of a run's own steps: each is at most one HTTP call, and every
\* call has a timeout.  Nothing is assumed of crashes, restarts or the others.
Spec == Init /\ [][Next]_vars /\ \A r \in Runs : WF_vars(Step(r))

-----------------------------------------------------------------------------
\* The queue is the orchestrator's count of pending actions, spelt out: no
\* action of a plan is lost or done twice when one of them fails.
QueueIsPending ==
  \A r \in Runs : phase[r] \in {"apply", "verify"} =>
    Len(queue[r]) = pending[r] /\ pending[r] > 0

\* Type invariant: every variable has its type, and the queue its length.
TypeOK ==
  /\ OrchTypeOK
  /\ nextId \in 1 .. (MaxId + 1)
  /\ DOMAIN chan \subseteq 1 .. (nextId - 1)
  /\ chan \in [DOMAIN chan -> Channel]
  /\ snap \in [Runs -> UNION {[ids -> Channel] : ids \in SUBSET (1 .. MaxId)}]
  /\ queue \in [Runs -> Seq(ChannelAction)]
  /\ quiet \in [Runs -> BOOLEAN]
  /\ QueueIsPending

UniqueNames(table) ==
  \A i, j \in DOMAIN table : table[i].name = table[j].name => i = j

\* Verify looks for the new channel of entry k by the registry key and may take
\* another channel for it, which pruning may remove later.
Mistakable(r, k) == Desired[k].name # k /\ (Listed(k) \/ opts[r].prune)

\* A run that reports neither failures nor drift has done its job, whatever was
\* lost, refused or ignored on the way, if its list was read, nobody else has
\* touched the table since and no two channels share a name: every entry has its
\* channel, with the fields Verify reads back as desired, and pruning has left no
\* unbilled channel of another name.  It says nothing of a run whose list failed
\* (which fetchLiveState passes on as an empty table), of the fields Verify does
\* not read back, and of a create for which Verify took another channel.
CleanRunConverges ==
  \A r \in Runs :
    /\ phase[r] \in {"done", "exited"}
    /\ quiet[r] /\ ~opts[r].dryRun /\ UniqueNames(chan)
    /\ report[r].failed = 0 /\ report[r].driftWarnings = 0
    => /\ \A k \in Keys :
            /\ Listed(Desired[k].name) \/ Mistakable(r, k)
            /\ \A i \in DOMAIN chan :
                 chan[i].name = Desired[k].name => chan[i].main = Desired[k].main
       /\ opts[r].prune => \A i \in DOMAIN chan :
                             chan[i].name \in DesiredNames \/ chan[i].used

\* Run r takes this step.
Acts(r) == phase'[r] # phase[r] \/ queue'[r] # queue[r]

\* A sync process removes a channel only when pruning, and none that a registry
\* entry asks for by its name - unless it has got that name since the fetch,
\* which nothing looks at again - and none that has billing history, unless
\* others (traffic through the channel among them) were at work since the fetch.
PruneSparesWantedAndBilled ==
  [][\A r \in Runs, i \in DOMAIN chan \ DOMAIN chan' : Acts(r) =>
       /\ opts[r].prune
       /\ chan[i].name \in DesiredNames => Head(queue[r]).id # chan[i].name
       /\ quiet[r] => ~chan[i].used]_vars

\* Syncing again is harmless where the list was read: from a table without two
\* channels of one name a run makes one only if others have been at work since its
\* fetch, whatever failed, was lost or was killed before.  A run whose list failed
\* is not quiet: it makes a second channel of every entry.
RerunMakesNoTwins ==
  [][\A r \in Runs :
       (Acts(r) /\ quiet[r] /\ UniqueNames(chan)) => UniqueNames(chan')]_vars

\* Run r has still to send a create of entry k, as action p of its queue.
Creating(r, p, k) ==
  /\ p \in DOMAIN queue[r] /\ queue[r][p].type = "create" /\ queue[r][p].id = k
  /\ p = 1 => phase[r] # "verify"

\* The entries run r may still create: until it has planned those its list lacks,
\* then those whose create waits in its queue.
MayAdd(r) ==
  IF phase[r] = "plan" /\ left[r] # {}
  THEN {k \in Keys : \A i \in DOMAIN snap[r] : snap[r][i].name # Desired[k].name}
  ELSE {k \in Keys : \E p \in DOMAIN queue[r] : Creating(r, p, k)}

\* Left to themselves, sync processes keep the promise of ChannelPromise, on however
\* stale a plan: each channel one of them adds was missing from its own last list,
\* or that list failed, and it adds it once; it touches no other channel but to
\* correct one of an entry's name or to remove one nobody asked for or was billed
\* for.  Two of them may still add the same channel, as each of their lists lacked
\* it: the promise says what is kept, not that there are no twins.
Promise == INSTANCE ChannelPromise WITH
             table <- chan, may <- [r \in Runs |-> MayAdd(r)], Processes <- Runs
PromiseKept == Promise!Spec
=============================================================================
