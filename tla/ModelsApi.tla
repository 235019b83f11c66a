------------------------------ MODULE ModelsApi ------------------------------
(***************************************************************************)
(* The dashboard's logical models (internal/api/models.go, wizard.go).  A  *)
(* model is some providers in Bifrost and a channel in New-API, with no    *)
(* transaction over the two: HandleCreateModel makes the parts one call at *)
(* a time and, when a call fails, deletes again what it has made.  Several *)
(* requests are served at once, each in a goroutine of its own, the        *)
(* dashboard may be restarted in the middle, and others change Bifrost.    *)
(*                                                                         *)
(* A call may take effect and still fail, or be answered with a success    *)
(* and not be done: the clients look at the HTTP status only.              *)
(***************************************************************************)
EXTENDS Naturals, Sequences, Functions

CONSTANTS
  Handlers,   \* goroutines serving requests
  Providers,  \* ids of Bifrost providers
  Channels,   \* New-API channels
  Bodies      \* the requests tried

(* A create names its providers in order and a channel (HandleWizardModel  *)
(* is a create of a channel alone); an update puts its providers again, as *)
(* HandleWizardProvider does for one; a delete names one id.               *)
Body == [kind : {"create"}, providers : Seq(Providers), channel : Channels]
          \union [kind : {"update"}, providers : Seq(Providers)]
          \union [kind : {"wizard-provider"}, providers : Seq(Providers)]
          \union [kind : {"delete"}, id : Providers \union Channels]

Nobody == "nobody"

ASSUME ModelsAssumption ==
  /\ Bodies \subseteq Body
  /\ Nobody \notin Handlers
  /\ Providers \intersect Channels = {}
  /\ \A b \in Bodies : /\ b.kind = "wizard-provider" => Len(b.providers) = 1
                       /\ b.kind = "update" => b.providers # << >>

VARIABLES
  bifrost,   \* the providers in Bifrost
  channels,  \* the channels in New-API
  at,        \* at[h]: what handler h is doing
  body,      \* body[h]: the request it serves
  made,      \* made[h]: its createdProviderIDs
  k,         \* k[h]: its place in the list it is going through
  answer,    \* answer[h]: what it told the caller
  (* History. *)
  owner,     \* owner[p]: the create request that put provider p last, if any
  doubt,     \* doubt[h]: providers for which a call of h failed, or whose
             \* compensating delete was answered with a success and not done
  put,       \* put[h]: providers that calls of the create h serves have really put
  taken,     \* taken[h]: those of them that others have removed since
  ignored    \* ignored[h]: providers it was told were created that were not

local == <<at, body, made, k, answer>>
history == <<owner, doubt, taken, put, ignored>>
vars == <<bifrost, channels, local, history>>

NoBody == [kind |-> "none"]
Creating(h) == body[h].kind = "create"
Serving == {"put", "channel", "rollback", "delete", "delete-channel"}

Init ==
  /\ bifrost \in SUBSET Providers
  /\ channels = {}
  /\ at = [h \in Handlers |-> "idle"]
  /\ body = [h \in Handlers |-> NoBody]
  /\ made = [h \in Handlers |-> << >>]
  /\ k = [h \in Handlers |-> 1]
  /\ answer = [h \in Handlers |-> "none"]
  /\ owner = [p \in Providers |-> Nobody]
  /\ doubt = [h \in Handlers |-> {}]
  /\ taken = [h \in Handlers |-> {}]
  /\ put = [h \in Handlers |-> {}]
  /\ ignored = [h \in Handlers |-> {}]

-----------------------------------------------------------------------------
\* What calls do to Bifrost, by handler h or, with h = Nobody, by somebody else.

Put(p, by) ==
  /\ bifrost' = bifrost \union {p}
  /\ owner' = [owner EXCEPT ![p] = by]
  /\ taken' = [h \in Handlers |-> IF h = by THEN taken[h] \ {p} ELSE taken[h]]
  /\ put' = [h \in Handlers |-> IF h = by THEN put[h] \union {p} ELSE put[h]]

Delete(p, by) ==
  /\ bifrost' = bifrost \ {p}
  /\ owner' = [owner EXCEPT ![p] = Nobody]
  /\ taken' = [h \in Handlers |-> IF h # by /\ p \in put[h] THEN taken[h] \union {p}
                                                           ELSE taken[h]]
  /\ UNCHANGED put

NoEffect == UNCHANGED <<bifrost, owner, taken, put>>

Doubtful(h, p) == doubt' = [doubt EXCEPT ![h] = @ \union {p}]
Ignored(h, p) == NoEffect /\ ignored' = [ignored EXCEPT ![h] = @ \union {p}]

-----------------------------------------------------------------------------
\* A request arrives at a free handler.
Serve(h, b) ==
  /\ at[h] \in {"idle", "answered"}
  /\ at' = [at EXCEPT ![h] = IF b.kind = "delete" THEN "delete"
                             ELSE IF b.kind = "create" /\ b.providers = << >> THEN "channel"
                             ELSE "put"]
  /\ body' = [body EXCEPT ![h] = b]
  /\ made' = [made EXCEPT ![h] = << >>]
  /\ k' = [k EXCEPT ![h] = 1]
  /\ answer' = [answer EXCEPT ![h] = "none"]
  /\ owner' = [p \in Providers |-> IF owner[p] = h THEN Nobody ELSE owner[p]]
  /\ doubt' = [doubt EXCEPT ![h] = {}]
  /\ taken' = [taken EXCEPT ![h] = {}]
  /\ put' = [put EXCEPT ![h] = {}]
  /\ ignored' = [ignored EXCEPT ![h] = {}]
  /\ UNCHANGED <<bifrost, channels>>

\* The handler returns: its local variables are gone.
Answer(h, a) ==
  /\ at' = [at EXCEPT ![h] = "answered"]
  /\ answer' = [answer EXCEPT ![h] = a]
  /\ made' = [made EXCEPT ![h] = << >>]
  /\ k' = [k EXCEPT ![h] = 1]

Go(h, where) == at' = [at EXCEPT ![h] = where] /\ UNCHANGED answer

\* Operators whose comment begins with "Wrong:" are mistakes made on purpose, to
\* show that the properties at the end notice them; nothing else uses them.

\* Wrong: the loop takes one turn too many.
LastOfTooLate(h) == k[h] > Len(body[h].providers)

LastOf(h) == k[h] >= Len(body[h].providers)

\* HandleCreateModel, step 1: the next provider is created ...
CreateProvider(h) ==
  /\ at[h] = "put" /\ Creating(h)
  /\ LET p == body[h].providers[k[h]]
     IN  /\ (Put(p, h) /\ UNCHANGED ignored) \/ Ignored(h, p)
         /\ made' = [made EXCEPT ![h] = Append(@, p)]
  /\ k' = [k EXCEPT ![h] = @ + 1]
  /\ Go(h, IF LastOf(h) THEN "channel" ELSE "put")
  /\ UNCHANGED <<channels, body, doubt>>

\* What a failed create has to take back.
Undo(h) == made[h]

StartRollback(h) == k' = [k EXCEPT ![h] = 1] /\ Go(h, "rollback")

\* Wrong: the error is logged, as in an update, and the loop goes on.
CreateProviderGoesOn(h) ==
  /\ at[h] = "put" /\ Creating(h)
  /\ Put(body[h].providers[k[h]], h) \/ NoEffect
  /\ k' = [k EXCEPT ![h] = @ + 1]
  /\ Go(h, IF LastOf(h) THEN "channel" ELSE "put")
  /\ UNCHANGED <<channels, body, made, doubt, ignored>>

\* Wrong: the provider is noted down before the call is made.
CreateProviderNotedFirst(h) ==
  /\ at[h] = "put" /\ Creating(h)
  /\ LET p == body[h].providers[k[h]]
     IN  /\ Doubtful(h, p)
         /\ Put(p, h) \/ NoEffect
         /\ made' = [made EXCEPT ![h] = Append(@, p)]
  /\ StartRollback(h)
  /\ UNCHANGED <<channels, body, ignored>>

\* ... or the call fails, with or without effect.
CreateProviderFails(h) ==
  /\ at[h] = "put" /\ Creating(h)
  /\ LET p == body[h].providers[k[h]]
     IN  /\ Doubtful(h, p)
         /\ Put(p, h) \/ NoEffect
  /\ StartRollback(h)
  /\ UNCHANGED <<channels, body, made, ignored>>

\* Step 2: the channel. A 200 answer is taken for success.
CreateChannel(h) ==
  /\ at[h] = "channel"
  /\ \/ channels' = channels \union {body[h].channel}
     \/ UNCHANGED channels
  /\ Answer(h, "created")
  /\ UNCHANGED <<bifrost, body, history>>

CreateChannelFails(h) ==
  /\ at[h] = "channel"
  /\ \/ channels' = channels \union {body[h].channel}
     \/ UNCHANGED channels
  /\ StartRollback(h)
  /\ UNCHANGED <<bifrost, body, made, history>>

\* Wrong: a delete is repeated until it succeeds.
StepOnSuccess(h, ok) == IF ok THEN k[h] + 1 ELSE k[h]

\* rollbackBifrostProviders goes on after a failed delete.
StepOn(h, ok) == k[h] + 1

RollbackOne(h) ==
  /\ at[h] = "rollback" /\ k[h] <= Len(Undo(h))
  /\ LET p == Undo(h)[k[h]]
     IN  \/ /\ k' = [k EXCEPT ![h] = StepOn(h, TRUE)]
            /\ \/ Delete(p, h) /\ UNCHANGED doubt
               \/ NoEffect /\ Doubtful(h, p)
         \/ /\ k' = [k EXCEPT ![h] = StepOn(h, FALSE)]
            /\ Delete(p, h) \/ NoEffect
            /\ Doubtful(h, p)
  /\ UNCHANGED <<channels, at, body, made, answer, ignored>>

RollbackOver(h) ==
  /\ at[h] = "rollback" /\ k[h] > Len(Undo(h))
  /\ Answer(h, "failed")
  /\ UNCHANGED <<bifrost, channels, body, history>>

\* HandleUpdateModel puts every provider again and answers "updated" whatever
\* became of it.
UpdateProvider(h) ==
  /\ at[h] = "put" /\ body[h].kind = "update"
  /\ Put(body[h].providers[k[h]], Nobody) \/ NoEffect
  /\ \/ LastOf(h) /\ Answer(h, "updated")
     \/ ~LastOf(h) /\ Go(h, "put") /\ k' = [k EXCEPT ![h] = @ + 1] /\ UNCHANGED made
  /\ UNCHANGED <<channels, body, doubt, ignored>>

\* HandleWizardProvider makes the same call once and says whether it failed.
WizardProvider(h) ==
  /\ at[h] = "put" /\ body[h].kind = "wizard-provider"
  /\ Put(body[h].providers[1], Nobody) \/ NoEffect
  /\ Answer(h, "created") \/ Answer(h, "failed")
  /\ UNCHANGED <<channels, body, doubt, ignored>>

\* HandleDeleteModel deletes the provider of that id, if there is one ...
DeleteProvider(h) ==
  /\ at[h] = "delete"
  /\ (body[h].id \in Providers /\ Delete(body[h].id, h)) \/ NoEffect
  /\ Go(h, "delete-channel")
  /\ UNCHANGED <<channels, body, made, k, doubt, ignored>>

\* ... and, whatever became of that, the channel.
DeleteChannel(h) ==
  /\ at[h] = "delete-channel"
  /\ channels' \in {channels, channels \ {body[h].id}}
  /\ Answer(h, "deleted") \/ Answer(h, "failed")
  /\ UNCHANGED <<bifrost, body, history>>

\* The dashboard is restarted: requests being served are dropped as they stand.
Restart ==
  /\ at' = [h \in Handlers |-> "idle"]
  /\ body' = [h \in Handlers |-> NoBody]
  /\ made' = [h \in Handlers |-> << >>]
  /\ k' = [h \in Handlers |-> 1]
  /\ answer' = [h \in Handlers |-> "none"]
  /\ owner' = [p \in Providers |-> Nobody]
  /\ doubt' = [h \in Handlers |-> {}]
  /\ taken' = [h \in Handlers |-> {}]
  /\ put' = [h \in Handlers |-> {}]
  /\ ignored' = [h \in Handlers |-> {}]
  /\ UNCHANGED <<bifrost, channels>>

\* A sync run, or an operator in Bifrost's own UI.
Others(p) ==
  /\ Put(p, Nobody) \/ Delete(p, Nobody)
  /\ UNCHANGED <<channels, local, doubt, ignored>>

Handle(h) ==
  \/ CreateProvider(h) \/ CreateProviderFails(h)
  \/ CreateChannel(h) \/ CreateChannelFails(h)
  \/ RollbackOne(h) \/ RollbackOver(h)
  \/ UpdateProvider(h) \/ WizardProvider(h)
  \/ DeleteProvider(h) \/ DeleteChannel(h)

Next ==
  \/ \E h \in Handlers : Handle(h) \/ \E b \in Bodies : Serve(h, b)
  \/ \E p \in Providers : Others(p)
  \/ Restart

\* Every upstream call ends within the client's timeout (10 s); requests,
\* restarts and other people come as they please.
Spec == Init /\ [][Next]_vars /\ \A h \in Handlers : WF_vars(Handle(h))

-----------------------------------------------------------------------------
\* Every variable has its type, and a loop over providers stays inside its list.
TypeOK ==
  /\ bifrost \subseteq Providers /\ channels \subseteq Channels
  /\ at \in [Handlers -> Serving \union {"idle", "answered"}]
  /\ body \in [Handlers -> Bodies \union {NoBody}]
  /\ made \in [Handlers -> Seq(Providers)]
  /\ k \in [Handlers -> Nat \ {0}]
  /\ answer \in [Handlers -> {"none", "created", "updated", "deleted", "failed"}]
  /\ owner \in [Providers -> Handlers \union {Nobody}]
  /\ doubt \in [Handlers -> SUBSET Providers] /\ taken \in [Handlers -> SUBSET Providers]
  /\ put \in [Handlers -> SUBSET Providers] /\ ignored \in [Handlers -> SUBSET Providers]
  /\ \A h \in Handlers : at[h] = "put" => k[h] <= Len(body[h].providers)

\* A create is all or nothing.  Answered with an error (HandleCreateModel after its
\* rollback) it leaves none of its providers behind, whatever failed where and
\* whoever else put or deleted them meanwhile, except those for which Bifrost
\* itself refused, lost or ignored a call: the create that failed, or a compensating
\* delete.  Answered "created" it has all its providers in place that Bifrost did
\* not just say it had created, until somebody else removes one: a delete request,
\* or the rollback of another create that names the same provider.
CreateIsAllOrNothing ==
  \A h \in Handlers : Creating(h) =>
    /\ answer[h] = "failed" => \A p \in bifrost : owner[p] = h => p \in doubt[h]
    /\ answer[h] = "created" =>
         Range(body[h].providers) \subseteq bifrost \union taken[h] \union ignored[h]

\* A rollback removes only what the create's own calls have put in Bifrost, or were
\* told they had: a provider that was there before and that the request did not get
\* to, or whose call was refused, survives it.
RollbackSparesTheUnwritten ==
  [][\A h \in Handlers : at[h] = "rollback" /\ k'[h] > k[h] =>
       bifrost \ bifrost' \subseteq put[h] \union ignored[h]]_vars

\* Every request is answered, however many calls of it and of its rollback fail,
\* unless the dashboard is restarted.
EveryRequestIsAnswered ==
  \A h \in Handlers : at[h] \in Serving ~> at[h] \in {"answered", "idle"}
=============================================================================
