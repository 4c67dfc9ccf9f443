----------------------------- MODULE Promotion -----------------------------
(***************************************************************************)
(* The billing of one Kafka: its promotion from the eval billing model to  *)
(* standard or marketplace, the subscriptions that pay for it at AMS (the  *)
(* account management service), and its expiry when the organisation is no *)
(* longer entitled to its billing model.                                   *)
(*                                                                         *)
(* A promotion reserves the desired quota, deletes the actual one and      *)
(* updates the row, in three steps of the promotion worker; each can fail, *)
(* the process can die between two of them, and the next pass starts from  *)
(* the first again.  The promote and delete endpoints, the kafkas worker   *)
(* (entitlement, suspension, expiry) and the deleting worker work on the   *)
(* same row without a lock.  Promoters has two members where a pass of a   *)
(* replica that lost its lease overlaps the pass of its successor.         *)
(*                                                                         *)
(* Quota type is AMS, the size has no lifespan, GracePeriodDays is         *)
(* positive for eval and 0 for the other billing models.  Placement, DNS   *)
(* and the races of the status column are the subject of KafkaRequests:    *)
(* a change of status is one step here.                                    *)
(***************************************************************************)
EXTENDS Integers, FiniteSets

CONSTANTS
    Promoters,   \* passes of the promotion worker that may overlap
    Requests,    \* calls of the promote endpoint that may overlap
    MaxSubs,     \* subscriptions ever reserved
    MaxCalls,    \* calls of the endpoints, changes of entitlement
    MaxUpsets    \* faults and races, together

Actors == Promoters \cup Requests \cup {"kafkas", "deleting"}
Subscriptions == 1 .. MaxSubs

ASSUME ActorsAssumption ==
    /\ IsFiniteSet(Promoters) /\ IsFiniteSet(Requests)
    /\ Promoters \cap Requests = {}
    /\ {"kafkas", "deleting"} \cap (Promoters \cup Requests) = {}
ASSUME BoundAssumption ==
    MaxSubs \in Nat \ {0} /\ MaxCalls \in Nat /\ MaxUpsets \in Nat

VARIABLES
    row,        \* the kafka_requests row
    ams,        \* the Kafka billing model of each subscription at AMS
    entitled,   \* the billing models the organisation is entitled to
    task,       \* what each actor is doing, and the row as it holds it
    calls, faults,
    races,      \* times an actor began while another was at work
    history     \* of the Kafka's deletion: what the properties except

vars == <<row, ams, entitled, task, calls, faults, races, history>>

Models == {"eval", "standard", "marketplace"}
kafkaDeletionStatuses == {"deprovision", "deleting"}
validPromotionStatuses == {"ready", "suspended", "resuming"}
CanBeAutomaticallySuspended == {"ready", "resuming"}
Statuses == {"suspending", "deleted"} \cup kafkaDeletionStatuses
                                      \cup validPromotionStatuses

KafkaRequest ==
    [status : Statuses,
     actual : Models,                         \* ActualKafkaBillingModel
     desired : Models,                        \* DesiredKafkaBillingModel
     promotion : {"", "promoting", "failed"}, \* PromotionStatus
     sub : Subscriptions,                     \* SubscriptionId
     expires : {"null", "later", "past"}]     \* ExpiresAt

Steps == {"idle", "promote", "reserve", "delete", "update", "failed",
          "promoting", "entitlement", "active", "inactive", "suspend",
          "expire", "expired", "quota", "remove"}

Task(at, held, sub) == [at |-> at, held |-> held, sub |-> sub]

NoSub == 0

TypeOK ==
    /\ row \in KafkaRequest
    /\ ams \in [Subscriptions -> Models \cup {"unused", "gone"}]
    /\ entitled \subseteq Models
    /\ task \in [Actors -> [at : Steps, held : KafkaRequest,
                            sub : {NoSub} \cup Subscriptions]]
    /\ calls \in 0 .. MaxCalls /\ faults \in 0 .. MaxUpsets /\ races \in 0 .. MaxUpsets
    /\ history \subseteq {"undeleted", "overtakes"}

-----------------------------------------------------------------------------
Exists == row.status # "deleted"

\* Neither deleted nor on the way: what ListKafkasToBePromoted, Update and
\* Updates look at.
Live == Exists /\ row.status \notin kafkaDeletionStatuses

NewRequest ==
    [status |-> "ready", actual |-> "eval", desired |-> "eval",
     promotion |-> "", sub |-> 1, expires |-> "null"]

Idle == Task("idle", NewRequest, NoSub)
At(a, step) == task[a].at = step
Held(a) == task[a].held
Do(a, t) == task' = [task EXCEPT ![a] = t]
Goto(a, step) == Do(a, Task(step, Held(a), task[a].sub))
Finish(a) == Do(a, Idle)

\* Of the actors S that are alike, the first that rests takes the work.
Free(a, S) == At(a, "idle") /\ a = CHOOSE b \in S : At(b, "idle")

\* An actor reads the row, while the others rest or not.
Begin(a, step) ==
    /\ At(a, "idle") /\ Do(a, Task(step, row, NoSub))
    /\ IF \A b \in Actors : At(b, "idle") THEN UNCHANGED races
       ELSE races + faults < MaxUpsets /\ races' = races + 1

NoPromoter == \A p \in Promoters : At(p, "idle")

Call == calls < MaxCalls /\ calls' = calls + 1
\* An error return of a call, or the death of the process.
Fault == races + faults < MaxUpsets /\ faults' = faults + 1

\* KafkaService.Updates: the given columns, of a row not under deletion.
Updates(r) == row' = IF Live THEN r ELSE row

\* KafkaService.Update: the columns of s that are not zero.
Update(s) ==
    Updates([s EXCEPT !.expires = IF @ = "null" THEN row.expires ELSE @])

\* KafkaService.UpdateStatus.
MayUpdateStatus(s) ==
    /\ Exists
    /\ row.status = "deprovision" => s = "deleting"
    /\ row.status # s

UpdateStatus(s) ==
    row' = IF MayUpdateStatus(s) THEN [row EXCEPT !.status = s] ELSE row

Init ==
    /\ row = NewRequest
    /\ ams = [i \in Subscriptions |-> IF i = 1 THEN "eval" ELSE "unused"]
    /\ entitled = Models
    /\ task = [a \in Actors |-> Idle]
    /\ calls = 0 /\ faults = 0 /\ races = 0 /\ history = {}

-----------------------------------------------------------------------------
(* The promote endpoint.                                                   *)

Promote(q) ==
    /\ Live /\ Call
    /\ row.actual = "eval"
    /\ row.status \in validPromotionStatuses
    /\ row.promotion # "promoting"
    /\ Free(q, Requests) /\ Begin(q, "promote")
    /\ UNCHANGED <<row, ams, entitled, faults, history>>

PromoteWrite(q) ==
    /\ At(q, "promote")
    /\ \E m \in Models \ {Held(q).actual} :
          Updates([row EXCEPT !.desired = m, !.promotion = "promoting"])
    /\ Finish(q)
    /\ UNCHANGED <<ams, entitled, calls, faults, races, history>>

-----------------------------------------------------------------------------
(* The promotion worker.                                                   *)

\* Mutant: the worker asks for ready Kafkas only.
ListKafkasToBePromoted_Ready(p) ==
    /\ row.actual # row.desired
    /\ row.promotion # "failed"
    /\ row.status = "ready"
    /\ Free(p, Promoters) /\ Begin(p, "reserve")
    /\ UNCHANGED <<row, ams, entitled, calls, faults, history>>

ListKafkasToBePromoted(p) ==
    /\ row.actual # row.desired
    /\ row.promotion # "failed"
    /\ row.status \in validPromotionStatuses
    /\ Free(p, Promoters) /\ Begin(p, "reserve")
    /\ UNCHANGED <<row, ams, entitled, calls, faults, history>>

Reserved == {i \in Subscriptions : ams[i] \in Models}

AMSBillingModel(m) == IF m = "marketplace" THEN "marketplace" ELSE "standard"

\* HasSupportForAMSBillingModel, for the billing model of subscription i.
HasSupportFor(m, i) == AMSBillingModel(ams[i]) = AMSBillingModel(m)

\* The subscription of an eval Kafka has a cluster id of its own.
FindSubscriptions(m) == {i \in Reserved : (ams[i] = "eval") = (m = "eval")}

\* AMS makes the subscription i: the first that never existed.
Reserve(i, m) ==
    /\ ams[i] = "unused" /\ \A j \in 1 .. i - 1 : ams[j] # "unused"
    /\ ams' = [ams EXCEPT ![i] = m]

\* Mutant: the chain goes on after a refused reservation.
ReserveDesiredQuota_GoesOn(p) ==
    /\ At(p, "reserve")
    /\ \/ /\ Held(p).desired \in entitled
          /\ \E i \in Subscriptions :
                Reserve(i, Held(p).desired) /\ Do(p, Task("delete", Held(p), i))
       \/ Goto(p, "delete") /\ UNCHANGED ams
    /\ UNCHANGED <<row, entitled, calls, faults, races, history>>

\* ReserveQuotaIfNotAlreadyReserved.  AMS keeps one subscription for a
\* cluster id, so that looking for it and making it is one step.
ReserveDesiredQuota(p) ==
    LET m == Held(p).desired
        found == FindSubscriptions(m) IN
    /\ At(p, "reserve")
    /\ \/ \E i \in found :
             /\ IF HasSupportFor(m, i)
                   THEN Do(p, Task("delete", Held(p), i))
                   ELSE Goto(p, "failed")
             /\ UNCHANGED ams
       \/ /\ found = {} /\ m \in entitled
          /\ \E i \in Subscriptions :
                Reserve(i, m) /\ Do(p, Task("delete", Held(p), i))
       \* Insufficient quota.
       \/ found = {} /\ Goto(p, "failed") /\ UNCHANGED ams
    /\ UNCHANGED <<row, entitled, calls, faults, races, history>>

\* A call of AMS fails, the reservation may have been made.
ReserveFails(p) ==
    LET m == Held(p).desired IN
    /\ At(p, "reserve") /\ Fault
    /\ \/ UNCHANGED ams
       \/ /\ FindSubscriptions(m) = {} /\ m \in entitled
          /\ \E i \in Subscriptions : Reserve(i, m)
    /\ Goto(p, "failed")
    /\ UNCHANGED <<row, entitled, calls, races, history>>

Release(i) == ams' = [ams EXCEPT ![i] = IF @ \in Models THEN "gone" ELSE @]

\* Mutant: the quota is matched with the desired billing model.
DeleteActualQuota_Desired(p) ==
    /\ At(p, "delete")
    /\ IF Held(p).sub \in Reserved /\ HasSupportFor(Held(p).desired, Held(p).sub)
          THEN Release(Held(p).sub) ELSE UNCHANGED ams
    /\ Goto(p, "update")
    /\ UNCHANGED <<row, entitled, calls, faults, races, history>>

\* DeleteQuotaForBillingModel, of the subscription the row had when listed.
DeleteActualQuota(p) ==
    /\ At(p, "delete")
    /\ IF Held(p).sub \in Reserved /\ HasSupportFor(Held(p).actual, Held(p).sub)
          THEN Release(Held(p).sub) ELSE UNCHANGED ams
    /\ Goto(p, "update")
    /\ UNCHANGED <<row, entitled, calls, faults, races, history>>

\* An error of AMS here is recoverable; the deletion may have been made.
DeleteFails(p) ==
    /\ At(p, "delete") /\ Fault
    /\ \/ UNCHANGED ams
       \/ HasSupportFor(Held(p).actual, Held(p).sub) /\ Release(Held(p).sub)
    /\ Goto(p, "promoting")
    /\ UNCHANGED <<row, entitled, calls, races, history>>

UpdateKafkaRequest(p) ==
    /\ At(p, "update")
    /\ Updates([row EXCEPT !.actual = Held(p).desired, !.sub = task[p].sub,
                           !.promotion = "", !.expires = "null"])
    /\ Finish(p)
    /\ UNCHANGED <<ams, entitled, calls, faults, races, history>>

\* The database refuses the update.  The error is recoverable, but gorm has
\* already set the columns in the request that will be written next.
UpdateFails(p) ==
    /\ At(p, "update") /\ Fault
    /\ Do(p, Task("promoting",
                  [Held(p) EXCEPT !.actual = Held(p).desired, !.sub = task[p].sub,
                                  !.expires = "null"], NoSub))
    /\ UNCHANGED <<row, ams, entitled, calls, races, history>>

\* updateFailedPromotionDetails writes back the request as it was listed.
updateFailedPromotionDetails(p) ==
    /\ task[p].at \in {"failed", "promoting"}
    /\ Update([Held(p) EXCEPT !.promotion = task[p].at])
    /\ Finish(p)
    /\ UNCHANGED <<ams, entitled, calls, faults, races, history>>

-----------------------------------------------------------------------------
(* The kafkas worker: reconcileKafkaExpiresAt, the suspension of Kafkas in  *)
(* their grace period, DeprovisionExpiredKafkas.                           *)

ListAll ==
    /\ Exists /\ Begin("kafkas", "entitlement")
    /\ UNCHANGED <<row, ams, entitled, calls, faults, history>>

\* IsQuotaEntitlementActive.  For a subscription that AMS does not know it
\* returns a nil *ServiceError as an error, which is not nil: the expiry of
\* this Kafka is left alone, as after an error of AMS.
IsQuotaEntitlementActive ==
    LET k == Held("kafkas") IN
    /\ At("kafkas", "entitlement")
    /\ Goto("kafkas",
            CASE k.status \in kafkaDeletionStatuses \/ k.sub \notin Reserved
                   -> "suspend"
              [] OTHER
                   -> IF HasSupportFor(k.actual, k.sub) /\ k.actual \in entitled
                      THEN "active" ELSE "inactive")
    /\ UNCHANGED <<row, ams, entitled, calls, faults, races, history>>

EntitlementFails ==
    /\ At("kafkas", "entitlement") /\ Fault
    /\ Goto("kafkas", "suspend")
    /\ UNCHANGED <<row, ams, entitled, calls, races, history>>

\* Now and GracePeriodDays of the billing model.
GraceEnd(m) == IF m = "eval" THEN "later" ELSE "past"

\* Mutant: the expiry is set, never cleared.
updateExpiresAt_Sets(k, step) ==
    IF step = "inactive" /\ k.expires = "null" THEN GraceEnd(k.actual) ELSE k.expires

\* updateExpiresAtBasedOnQuotaEntitlement: the expiry that k gets.
updateExpiresAt(k, step) ==
    CASE step = "active" -> "null"
      [] step = "inactive" /\ k.expires = "null" -> GraceEnd(k.actual)
      [] OTHER -> k.expires

\* updateKafkaExpirationDate; the request in memory follows, and does so
\* before the statement is executed.
updateKafkaExpirationDate ==
    LET k == Held("kafkas")
        e == updateExpiresAt(k, task["kafkas"].at) IN
    /\ task["kafkas"].at \in {"active", "inactive"}
    /\ Do("kafkas", Task("suspend", [k EXCEPT !.expires = e], NoSub))
    /\ \/ /\ IF e = k.expires THEN UNCHANGED row
             ELSE Updates([row EXCEPT !.expires = e])
          /\ UNCHANGED faults
       \* The database refuses, the pass goes on.
       \/ e # k.expires /\ Fault /\ UNCHANGED row
    /\ UNCHANGED <<ams, entitled, calls, races, history>>

\* Not expired, and at most GracePeriodDays left.
InGracePeriod(r) == r.expires = "later" /\ r.actual = "eval"

\* Mutant: the grace period is the one of the desired billing model.
Suspend_Desired ==
    LET k == Held("kafkas") IN
    /\ At("kafkas", "suspend")
    /\ IF k.status \in CanBeAutomaticallySuspended /\ k.expires = "later" /\ k.desired = "eval"
          THEN UpdateStatus("suspending") ELSE UNCHANGED row
    /\ history' = IF row.status = "deleting" /\ row'.status = "suspending"
                  THEN history \cup {"undeleted"} ELSE history
    /\ Goto("kafkas", "expire")
    /\ UNCHANGED <<ams, entitled, calls, faults, races>>

Suspend ==
    LET k == Held("kafkas") IN
    /\ At("kafkas", "suspend")
    /\ IF k.status \in CanBeAutomaticallySuspended /\ InGracePeriod(k)
          THEN UpdateStatus("suspending") ELSE UNCHANGED row
    /\ history' = IF row.status = "deleting" /\ row'.status = "suspending"
                  THEN history \cup {"undeleted"} ELSE history
    /\ Goto("kafkas", "expire")
    /\ UNCHANGED <<ams, entitled, calls, faults, races>>

\* DeprovisionExpiredKafkas reads the rows anew, and writes by id.
ListExpired ==
    /\ At("kafkas", "expire")
    /\ IF Live /\ row.expires = "past"
          THEN Goto("kafkas", "expired") ELSE Finish("kafkas")
    /\ UNCHANGED <<row, ams, entitled, calls, faults, races, history>>

DeprovisionExpired ==
    /\ At("kafkas", "expired")
    /\ row' = IF Exists THEN [row EXCEPT !.status = "deprovision"] ELSE row
    /\ Finish("kafkas")
    /\ UNCHANGED <<ams, entitled, calls, faults, races, history>>

-----------------------------------------------------------------------------
(* Deletion.                                                               *)

RegisterKafkaDeprovisionJob ==
    /\ MayUpdateStatus("deprovision") /\ Call
    /\ UpdateStatus("deprovision")
    /\ UNCHANGED <<ams, entitled, task, faults, races, history>>

ListDeleting ==
    /\ row.status = "deleting" /\ Begin("deleting", "quota")
    /\ UNCHANGED <<row, ams, entitled, calls, faults, history>>

\* Mutant: only a subscription with the AMS billing model of eval is deleted.
DeleteQuota_Eval ==
    /\ At("deleting", "quota")
    /\ IF /\ Held("deleting").sub \in Reserved
          /\ HasSupportFor("eval", Held("deleting").sub)
          THEN Release(Held("deleting").sub) ELSE UNCHANGED ams
    /\ history' = IF row.promotion = "" /\ NoPromoter THEN history
                  ELSE history \cup {"overtakes"}
    /\ Goto("deleting", "remove")
    /\ UNCHANGED <<row, entitled, calls, faults, races>>

\* reconcileDeletingKafkas; AMS accepts the deletion of what is gone.
DeleteQuota ==
    /\ At("deleting", "quota")
    /\ Release(Held("deleting").sub)
    /\ history' = IF row.promotion = "" /\ NoPromoter THEN history
                  ELSE history \cup {"overtakes"}
    /\ Goto("deleting", "remove")
    /\ UNCHANGED <<row, entitled, calls, faults, races>>

Delete ==
    /\ At("deleting", "remove")
    /\ row' = [row EXCEPT !.status = "deleted"]
    /\ Finish("deleting")
    /\ UNCHANGED <<ams, entitled, calls, faults, races, history>>

-----------------------------------------------------------------------------
(* The rest of the world.                                                  *)

\* What the agent of the data plane cluster reports ends a transition.
Reported(s) ==
    CASE s = "suspending" -> "suspended"
      [] s = "resuming" -> "ready"
      [] s = "deprovision" -> "deleting"
      [] OTHER -> s

Report ==
    /\ Reported(row.status) # row.status
    /\ UpdateStatus(Reported(row.status))
    /\ UNCHANGED <<ams, entitled, task, calls, faults, races, history>>

\* The admin endpoint resumes a Kafka that has not reached its grace period.
Resume ==
    /\ row.status = "suspended" /\ Call
    /\ row.expires = "null" \/ (row.expires = "later" /\ ~InGracePeriod(row))
    /\ UpdateStatus("resuming")
    /\ UNCHANGED <<ams, entitled, task, faults, races, history>>

\* The organisation loses or gains the entitlement to a billing model.
ChangeEntitlement ==
    /\ Call
    /\ \E m \in Models :
          entitled' = IF m \in entitled THEN entitled \ {m} ELSE entitled \cup {m}
    /\ UNCHANGED <<row, ams, task, faults, races, history>>

\* The end of the grace period comes, in the row and in every copy of it.
Past(r) == [r EXCEPT !.expires = IF @ = "later" THEN "past" ELSE @]

GracePeriodEnds ==
    /\ row.expires = "later"
    /\ row' = Past(row)
    /\ task' = [a \in Actors |-> [task[a] EXCEPT !.held = Past(@)]]
    /\ UNCHANGED <<ams, entitled, calls, faults, races, history>>

\* An error of the database, or the death of the process.
Abort(a) ==
    /\ ~At(a, "idle") /\ Fault
    /\ Finish(a)
    /\ UNCHANGED <<row, ams, entitled, calls, races, history>>

-----------------------------------------------------------------------------
PromoterStep(p) ==
    \/ ListKafkasToBePromoted(p) \/ ReserveDesiredQuota(p)
    \/ DeleteActualQuota(p) \/ UpdateKafkaRequest(p)
    \/ updateFailedPromotionDetails(p)

KafkasStep ==
    \/ ListAll \/ IsQuotaEntitlementActive \/ updateKafkaExpirationDate \/ Suspend
    \/ ListExpired \/ DeprovisionExpired

DeletingStep == ListDeleting \/ DeleteQuota \/ Delete

Next ==
    \/ \E q \in Requests : Promote(q) \/ PromoteWrite(q)
    \/ \E p \in Promoters : PromoterStep(p) \/ ReserveFails(p) \/ DeleteFails(p) \/ UpdateFails(p)
    \/ KafkasStep \/ EntitlementFails
    \/ RegisterKafkaDeprovisionJob \/ DeletingStep
    \/ Report \/ Resume \/ ChangeEntitlement \/ GracePeriodEnds
    \/ \E a \in Actors : Abort(a)

Spec == Init /\ [][Next]_vars

\* Every handler that began goes on, every worker passes again and again,
\* the agent reports.  A pass that may not begin beside another one (the
\* bound on races) begins when the others rest, hence SF.
Fairness ==
    /\ \A q \in Requests : WF_vars(PromoteWrite(q))
    /\ \A p \in Promoters : SF_vars(PromoterStep(p))
    /\ SF_vars(KafkasStep) /\ SF_vars(DeletingStep) /\ WF_vars(Report)

FairSpec == Spec /\ Fairness

-----------------------------------------------------------------------------
\* A Kafka in use is always paid for: whatever fails between the steps of a
\* promotion, and whoever else works on the row, AMS has a subscription for
\* it.  ReserveDesiredQuotaAction comes first for this reason.  Excepted is a
\* Kafka that a late suspension took out of its deletion.
BilledAlways == Live /\ "undeleted" \notin history => Reserved # {}

\* A Kafka is paid for once: when no promotion is pending, AMS has the one
\* subscription that the row names.  The eval subscription does not outlive
\* the promotion, and a pass that is repeated, or overlaps another, reserves
\* nothing twice.
OneSubscription ==
    Live /\ "undeleted" \notin history /\ NoPromoter
    /\ row.promotion = "" /\ row.actual = row.desired
        => Reserved = {row.sub}

\* Nothing is paid for after the deletion, unless the deleting worker
\* released the quota while a promotion was pending, failed or in progress:
\* reconcileDeletingKafkas deletes the subscription the row names, and no
\* other.
ReleasedAtDeletion ==
    ~Exists /\ history = {} /\ NoPromoter => Reserved = {}

\* A promotion that the worker can see ends: the Kafka is promoted, the
\* promotion has failed, or the Kafka is being deleted.  Errors marked
\* recoverable, and crashes between two actions of the chain, are retried.
PromotionPending ==
    Live /\ row.promotion = "promoting" /\ row.actual # row.desired

PromotionResolves == PromotionPending ~> ~PromotionPending

\* A Kafka in its grace period does not stay in use: the kafkas worker
\* suspends it, also after the promotion worker wrote an old status back.
UsedInGracePeriod ==
    row.status \in CanBeAutomaticallySuspended /\ InGracePeriod(row)

GraceSuspends == UsedInGracePeriod ~> ~UsedInGracePeriod

\* An expiry date that the kafkas worker derived from an entitlement read
\* before a promotion, or before the renewal of the entitlement, does not
\* stay on a Kafka that is entitled.
StaleExpiry ==
    /\ Live /\ row.expires # "null"
    /\ row.actual \in entitled /\ row.sub \in Reserved

StaleExpiryCleared == StaleExpiry ~> ~StaleExpiry
=============================================================================
