-------------------------- MODULE PromotionProofs --------------------------
(***************************************************************************)
(* Theorems about Promotion, for any number of overlapping passes of the   *)
(* promotion worker, requests, subscriptions, calls, faults and races.     *)
(***************************************************************************)
EXTENDS Promotion, TLAPS

\* What a row, or a copy of it, says of AMS: an eval Kafka has the first
\* subscription, any other has one of its own billing model, which AMS still
\* has although the eval one is gone.
Backed(k) ==
    IF k.actual = "eval" THEN k.sub = 1
    ELSE ams[k.sub] = k.actual /\ ams[1] = "gone"

\* AMS: the eval subscription is the first one, at most one other is
\* reserved, and there is one.
LedgerInv ==
    /\ ams[1] \in {"eval", "gone"}
    /\ \A i \in Subscriptions \ {1} : ams[i] # "eval"
    /\ \A i, j \in Reserved \ {1} : i = j
    /\ Reserved # {}

\* The row: no promotion has begun as long as eval is desired.
RowInv ==
    /\ Backed(row)
    /\ row.desired = "eval" => NoPromoter /\ Reserved \subseteq {1}
    /\ row.promotion = "" /\ row.actual = "eval" => row.desired = "eval"

\* A pass of the promotion worker: it gets beyond the reservation for an eval
\* Kafka only, with the subscription it will write, and the eval one is gone
\* before the row is updated.
PassInv(p) ==
    ~At(p, "idle") =>
        /\ Backed(Held(p)) /\ Held(p).desired # "eval"
        /\ Held(p).status \in validPromotionStatuses
        /\ At(p, "reserve") => Held(p).actual # Held(p).desired
        /\ task[p].at \in {"delete", "update"} =>
              Held(p).actual = "eval" /\ ams[task[p].sub] = Held(p).desired
        /\ At(p, "update") => ams[1] = "gone"

RequestInv(q) == At(q, "promote") => Held(q).actual = "eval"

Paid ==
    /\ LedgerInv /\ RowInv
    /\ \A p \in Promoters : PassInv(p)
    /\ \A q \in Requests : RequestInv(q)

\* After the deleting worker released the quota.
Ended == ~Live /\ ("overtakes" \in history \/ (NoPromoter /\ Reserved = {}))

DeletionInv ==
    /\ ~At("deleting", "idle") => ~Live /\ Held("deleting").sub = row.sub
    /\ At("deleting", "remove") => Ended
    /\ ~Exists => Ended

\* A pass that has reserved holds a subscription.
SubInv ==
    \A p \in Promoters :
        task[p].at \in {"delete", "update"} => task[p].sub \in Subscriptions

Kept == "undeleted" \notin history
IInv == TypeOK /\ SubInv /\ (Kept => (Paid \/ Ended) /\ DeletionInv)

-----------------------------------------------------------------------------
(* Types.                                                                  *)

TaskType == [at : Steps, held : KafkaRequest, sub : {NoSub} \cup Subscriptions]

\* An actor's step sets its own task and no other's.
LEMMA DoTask ==
    ASSUME TypeOK, NEW a \in Actors, NEW t \in TaskType, Do(a, t)
    PROVE  /\ task' \in [Actors -> TaskType]
           /\ task'[a] = t
           /\ \A b \in Actors \ {a} : task'[b] = task[b]
  BY DEF TypeOK, TaskType, Do

\* The row a Kafka begins with is a row.
LEMMA NewRequestType == NewRequest \in KafkaRequest
  BY BoundAssumption DEF NewRequest, KafkaRequest, Statuses, validPromotionStatuses, Models,
                         Subscriptions

\* An actor that rests has a task.
LEMMA IdleType == Idle \in TaskType /\ Idle.at = "idle"
  BY NewRequestType DEF Idle, Task, TaskType, Steps

\* A step, a row and a subscription make a task.
LEMMA TaskTyped ==
    ASSUME NEW step \in Steps, NEW k \in KafkaRequest, NEW i \in {NoSub} \cup Subscriptions
    PROVE  Task(step, k, i) \in TaskType
  BY DEF Task, TaskType

\* What an actor holds is a row.
LEMMA HeldType ==
    ASSUME TypeOK, NEW a \in Actors
    PROVE  /\ task[a] \in TaskType /\ task[a].at \in Steps
           /\ Held(a) \in KafkaRequest /\ task[a].sub \in {NoSub} \cup Subscriptions
  BY DEF TypeOK, TaskType, Held

\* The steps by which a task changes keep its type.
LEMMA GotoType ==
    ASSUME TypeOK, NEW a \in Actors, NEW step \in Steps, Goto(a, step)
    PROVE  /\ task' \in [Actors -> TaskType]
           /\ task'[a].at = step /\ task'[a].held = Held(a) /\ task'[a].sub = task[a].sub
           /\ \A b \in Actors \ {a} : task'[b] = task[b]
  <1>1. /\ task' \in [Actors -> TaskType]
        /\ task'[a] = Task(step, Held(a), task[a].sub)
        /\ \A b \in Actors \ {a} : task'[b] = task[b]
    BY HeldType, TaskTyped, DoTask DEF Goto
  <1> QED
    BY <1>1 DEF Task

\* The handler returns.
LEMMA FinishType ==
    ASSUME TypeOK, NEW a \in Actors, Finish(a)
    PROVE  /\ task' \in [Actors -> TaskType]
           /\ task'[a] = Idle
           /\ \A b \in Actors \ {a} : task'[b] = task[b]
  BY IdleType, DoTask DEF Finish

\* The handler has read the row.
LEMMA BeginType ==
    ASSUME TypeOK, NEW a \in Actors, NEW step \in Steps, Begin(a, step)
    PROVE  /\ task' \in [Actors -> TaskType]
           /\ task'[a].at = step /\ task'[a].held = row /\ task'[a].sub = NoSub
           /\ \A b \in Actors \ {a} : task'[b] = task[b]
           /\ races' \in 0 .. MaxUpsets
  <1>1. Task(step, row, NoSub) \in TaskType
    BY TaskTyped DEF TypeOK
  <1>2. races' \in 0 .. MaxUpsets
    BY BoundAssumption DEF TypeOK, Begin
  <1>3. /\ task' \in [Actors -> TaskType]
        /\ task'[a] = Task(step, row, NoSub)
        /\ \A b \in Actors \ {a} : task'[b] = task[b]
    BY <1>1, DoTask DEF Begin
  <1> QED
    BY <1>2, <1>3 DEF Task

\* Faults are bounded.
LEMMA FaultType == TypeOK /\ Fault => faults' \in 0 .. MaxUpsets
  BY BoundAssumption DEF TypeOK, Fault

\* Calls are bounded.
LEMMA CallType == TypeOK /\ Call => calls' \in 0 .. MaxCalls
  BY BoundAssumption DEF TypeOK, Call

\* Updates writes a row.
LEMMA UpdatesType ==
    ASSUME TypeOK, NEW r \in KafkaRequest, Updates(r)
    PROVE  row' \in KafkaRequest
  BY DEF TypeOK, Updates

\* UpdateStatus writes a row.
LEMMA UpdateStatusType ==
    ASSUME TypeOK, NEW s \in Statuses, UpdateStatus(s)
    PROVE  row' \in KafkaRequest
  BY Zenon DEF TypeOK, UpdateStatus, KafkaRequest

\* AMS makes a subscription of a billing model.
LEMMA ReserveType ==
    ASSUME TypeOK, NEW i \in Subscriptions, NEW m \in Models, Reserve(i, m)
    PROVE  ams' \in [Subscriptions -> Models \cup {"unused", "gone"}]
  BY DEF TypeOK, Reserve

\* AMS ends a subscription.
LEMMA ReleaseType ==
    ASSUME TypeOK, NEW i, Release(i)
    PROVE  ams' \in [Subscriptions -> Models \cup {"unused", "gone"}]
  BY ZenonT(40) DEF TypeOK, Release

\* The actors are different from one another.
LEMMA ActorNames ==
    /\ Promoters \subseteq Actors /\ Requests \subseteq Actors
    /\ "kafkas" \in Actors \ (Promoters \cup Requests)
    /\ "deleting" \in Actors \ (Promoters \cup Requests)
    /\ Promoters \cap Requests = {}
  BY ActorsAssumption DEF Actors

\* The types hold at first.
LEMMA InitType == Init => TypeOK
  <1> SUFFICES ASSUME Init PROVE TypeOK
    OBVIOUS
  <1>1. row \in KafkaRequest
    BY NewRequestType DEF Init
  <1>2. task \in [Actors -> TaskType]
    BY IdleType DEF Init
  <1>3. ams \in [Subscriptions -> Models \cup {"unused", "gone"}]
    BY DEF Init, Models
  <1> QED
    BY <1>1, <1>2, <1>3, BoundAssumption DEF Init, TypeOK, TaskType

\* The steps of the promote endpoint keep the types.
LEMMA RequestTypes ==
    ASSUME TypeOK, NEW q \in Requests, Promote(q) \/ PromoteWrite(q)
    PROVE  TypeOK'
  <1>q. q \in Actors
    BY ActorNames
  <1>1. CASE Promote(q)
    <2>1. Begin(q, "promote") /\ Call
      BY <1>1 DEF Promote
    <2>2. task' \in [Actors -> TaskType] /\ races' \in 0 .. MaxUpsets
      BY <1>q, <2>1, BeginType DEF Steps
    <2>3. calls' \in 0 .. MaxCalls
      BY <2>1, CallType
    <2> QED
      BY <1>1, <2>2, <2>3 DEF Promote, TypeOK, TaskType
  <1>2. CASE PromoteWrite(q)
    <2>1. task' \in [Actors -> TaskType]
      BY ZenonT(40), <1>q, <1>2, FinishType DEF PromoteWrite
    <2>2. PICK m \in Models : Updates([row EXCEPT !.desired = m, !.promotion = "promoting"])
      BY Zenon, <1>2 DEF PromoteWrite
    <2>3. [row EXCEPT !.desired = m, !.promotion = "promoting"] \in KafkaRequest
      BY Zenon DEF TypeOK, KafkaRequest
    <2>4. row' \in KafkaRequest
      BY <2>2, <2>3, UpdatesType
    <2> QED
      BY Zenon, <1>2, <2>1, <2>4 DEF PromoteWrite, TypeOK, TaskType
  <1> QED
    BY <1>1, <1>2

\* The steps of the promotion worker keep the types.
LEMMA PromoterTypes ==
    ASSUME TypeOK, SubInv, NEW p \in Promoters,
           PromoterStep(p) \/ ReserveFails(p) \/ DeleteFails(p) \/ UpdateFails(p)
    PROVE  TypeOK'
  <1>p. p \in Actors
    BY ActorNames
  <1>h. Held(p) \in KafkaRequest /\ task[p].sub \in {NoSub} \cup Subscriptions
    BY <1>p, HeldType
  <1>m. Held(p).desired \in Models
    BY Zenon, <1>h DEF KafkaRequest
  <1>1. CASE ListKafkasToBePromoted(p)
    <2>1. task' \in [Actors -> TaskType] /\ races' \in 0 .. MaxUpsets
      BY <1>p, <1>1, BeginType DEF ListKafkasToBePromoted, Steps
    <2> QED
      BY <1>1, <2>1 DEF ListKafkasToBePromoted, TypeOK, TaskType
  <1>2. CASE ReserveDesiredQuota(p)
    <2>1. \/ \E i \in Subscriptions : Do(p, Task("delete", Held(p), i))
          \/ Goto(p, "failed")
      BY <1>2 DEF ReserveDesiredQuota, FindSubscriptions, Reserved
    <2>2. task' \in [Actors -> TaskType]
      BY <1>p, <1>h, <2>1, TaskTyped, DoTask, GotoType DEF Steps
    <2>3. ams' = ams \/ \E i \in Subscriptions : Reserve(i, Held(p).desired)
      BY <1>2 DEF ReserveDesiredQuota
    <2>4. ams' \in [Subscriptions -> Models \cup {"unused", "gone"}]
      BY <1>m, <2>3, ReserveType DEF TypeOK
    <2> QED
      BY <1>2, <2>2, <2>4 DEF ReserveDesiredQuota, TypeOK, TaskType
  <1>3. CASE ReserveFails(p)
    <2>1. task' \in [Actors -> TaskType]
      BY <1>p, <1>3, GotoType DEF ReserveFails, Steps
    <2>2. ams' = ams \/ \E i \in Subscriptions : Reserve(i, Held(p).desired)
      BY <1>3 DEF ReserveFails
    <2>3. ams' \in [Subscriptions -> Models \cup {"unused", "gone"}]
      BY <1>m, <2>2, ReserveType DEF TypeOK
    <2>4. faults' \in 0 .. MaxUpsets
      BY <1>3, FaultType DEF ReserveFails
    <2> QED
      BY Zenon, <1>3, <2>1, <2>3, <2>4 DEF ReserveFails, TypeOK, TaskType
  <1>4. CASE DeleteActualQuota(p)
    <2>1. task' \in [Actors -> TaskType]
      BY <1>p, <1>4, GotoType DEF DeleteActualQuota, Steps
    <2>2. ams' = ams \/ Release(Held(p).sub)
      BY <1>4 DEF DeleteActualQuota
    <2>3. ams' \in [Subscriptions -> Models \cup {"unused", "gone"}]
      BY <2>2, ReleaseType DEF TypeOK
    <2> QED
      BY Zenon, <1>4, <2>1, <2>3 DEF DeleteActualQuota, TypeOK, TaskType
  <1>5. CASE DeleteFails(p)
    <2>1. task' \in [Actors -> TaskType]
      BY <1>p, <1>5, GotoType DEF DeleteFails, Steps
    <2>2. ams' = ams \/ Release(Held(p).sub)
      BY <1>5 DEF DeleteFails
    <2>3. ams' \in [Subscriptions -> Models \cup {"unused", "gone"}]
      BY <2>2, ReleaseType DEF TypeOK
    <2>4. faults' \in 0 .. MaxUpsets
      BY <1>5, FaultType DEF DeleteFails
    <2> QED
      BY ZenonT(40), <1>5, <2>1, <2>3, <2>4 DEF DeleteFails, TypeOK, TaskType
  <1>6. CASE UpdateKafkaRequest(p)
    <2>1. task' \in [Actors -> TaskType]
      BY <1>p, <1>6, FinishType DEF UpdateKafkaRequest
    <2>2. [row EXCEPT !.actual = Held(p).desired, !.sub = task[p].sub,
                      !.promotion = "", !.expires = "null"] \in KafkaRequest
      BY Zenon, <1>m, <1>6 DEF UpdateKafkaRequest, SubInv, At, TypeOK, KafkaRequest
    <2>3. row' \in KafkaRequest
      BY <1>6, <2>2, UpdatesType DEF UpdateKafkaRequest
    <2> QED
      BY <1>6, <2>1, <2>3 DEF UpdateKafkaRequest, TypeOK, TaskType
  <1>7. CASE UpdateFails(p)
    <2> DEFINE k == [Held(p) EXCEPT !.actual = Held(p).desired, !.sub = task[p].sub,
                                    !.expires = "null"]
    <2>1. k \in KafkaRequest
      BY Zenon, <1>h, <1>m, <1>7 DEF UpdateFails, SubInv, At, KafkaRequest
    <2>2. task' \in [Actors -> TaskType]
      BY <1>p, <1>7, <2>1, TaskTyped, DoTask DEF UpdateFails, Steps
    <2>3. faults' \in 0 .. MaxUpsets
      BY <1>7, FaultType DEF UpdateFails
    <2> QED
      BY <1>7, <2>2, <2>3 DEF UpdateFails, TypeOK, TaskType
  <1>8. CASE updateFailedPromotionDetails(p)
    <2>1. task' \in [Actors -> TaskType]
      BY <1>p, <1>8, FinishType DEF updateFailedPromotionDetails
    <2> DEFINE k == [Held(p) EXCEPT !.promotion = task[p].at]
    <2> DEFINE l == [k EXCEPT !.expires = IF @ = "null" THEN row.expires ELSE @]
    <2>2. k \in KafkaRequest
      BY Zenon, <1>h, <1>8 DEF updateFailedPromotionDetails, KafkaRequest
    <2>3. l \in KafkaRequest
      BY Zenon, <2>2 DEF TypeOK, KafkaRequest
    <2>4. row' \in KafkaRequest
      BY <1>8, <2>3, UpdatesType DEF updateFailedPromotionDetails, Update
    <2> QED
      BY <1>8, <2>1, <2>4 DEF updateFailedPromotionDetails, TypeOK, TaskType
  <1> QED
    BY <1>1, <1>2, <1>3, <1>4, <1>5, <1>6, <1>7, <1>8 DEF PromoterStep

\* The steps of the kafkas worker keep the types.
LEMMA KafkasTypes ==
    ASSUME TypeOK, KafkasStep \/ EntitlementFails
    PROVE  TypeOK'
  <1>a. "kafkas" \in Actors
    BY ActorNames
  <1>h. Held("kafkas") \in KafkaRequest
    BY <1>a, HeldType
  <1>1. CASE ListAll
    <2>1. task' \in [Actors -> TaskType] /\ races' \in 0 .. MaxUpsets
      BY <1>a, <1>1, BeginType DEF ListAll, Steps
    <2> QED
      BY <1>1, <2>1 DEF ListAll, TypeOK, TaskType
  <1>2. CASE IsQuotaEntitlementActive
    <2>1. \E step \in {"suspend", "active", "inactive"} : Goto("kafkas", step)
      BY <1>2 DEF IsQuotaEntitlementActive
    <2>2. task' \in [Actors -> TaskType]
      BY <1>a, <2>1, GotoType DEF Steps
    <2> QED
      BY <1>2, <2>2 DEF IsQuotaEntitlementActive, TypeOK, TaskType
  <1>3. CASE EntitlementFails
    <2>1. task' \in [Actors -> TaskType]
      BY <1>a, <1>3, GotoType DEF EntitlementFails, Steps
    <2>2. faults' \in 0 .. MaxUpsets
      BY <1>3, FaultType DEF EntitlementFails
    <2> QED
      BY <1>3, <2>1, <2>2 DEF EntitlementFails, TypeOK, TaskType
  <1>4. CASE updateKafkaExpirationDate
    <2> DEFINE e == updateExpiresAt(Held("kafkas"), task["kafkas"].at)
    <2>1. e \in {"null", "later", "past"}
      <3>1. Held("kafkas").expires \in {"null", "later", "past"}
        BY Zenon, <1>h DEF KafkaRequest
      <3>2. e \in {"null", "later", "past", Held("kafkas").expires}
        BY <1>4 DEF updateKafkaExpirationDate, updateExpiresAt, GraceEnd
      <3> QED
        BY <3>1, <3>2
    <2> HIDE DEF e
    <2>2. [Held("kafkas") EXCEPT !.expires = e] \in KafkaRequest /\ [row EXCEPT !.expires = e] \in KafkaRequest
      BY Zenon, <1>h, <2>1 DEF TypeOK, KafkaRequest
    <2>3. Do("kafkas", Task("suspend", [Held("kafkas") EXCEPT !.expires = e], NoSub))
      BY <1>4 DEF updateKafkaExpirationDate, e
    <2>4. task' \in [Actors -> TaskType]
      BY <1>a, <2>2, <2>3, TaskTyped, DoTask DEF Steps
    <2>5. row' = row \/ Updates([row EXCEPT !.expires = e])
      BY <1>4 DEF updateKafkaExpirationDate, e
    <2>6. row' \in KafkaRequest
      BY <2>2, <2>5, UpdatesType DEF TypeOK
    <2>7. faults' \in 0 .. MaxUpsets
      BY <1>4, FaultType DEF updateKafkaExpirationDate, TypeOK
    <2> QED
      BY <1>4, <2>4, <2>6, <2>7 DEF updateKafkaExpirationDate, TypeOK, TaskType
  <1>5. CASE Suspend
    <2>1. task' \in [Actors -> TaskType]
      BY <1>a, <1>5, GotoType DEF Suspend, Steps
    <2>2. row' = row \/ UpdateStatus("suspending")
      BY <1>5 DEF Suspend
    <2>3. row' \in KafkaRequest
      BY <2>2, UpdateStatusType DEF TypeOK, Statuses
    <2> QED
      BY <1>5, <2>1, <2>3 DEF Suspend, TypeOK, TaskType
  <1>6. CASE ListExpired
    <2>1. task' \in [Actors -> TaskType]
      BY <1>a, <1>6, GotoType, FinishType DEF ListExpired, Steps
    <2> QED
      BY <1>6, <2>1 DEF ListExpired, TypeOK, TaskType
  <1>7. CASE DeprovisionExpired
    <2>1. task' \in [Actors -> TaskType]
      BY <1>a, <1>7, FinishType DEF DeprovisionExpired
    <2>2. row' \in KafkaRequest
      BY Zenon, <1>7 DEF DeprovisionExpired, TypeOK, KafkaRequest, Statuses, kafkaDeletionStatuses
    <2> QED
      BY <1>7, <2>1, <2>2 DEF DeprovisionExpired, TypeOK, TaskType
  <1> QED
    BY <1>1, <1>2, <1>3, <1>4, <1>5, <1>6, <1>7 DEF KafkasStep

\* So do the steps of a deletion.
LEMMA DeletionTypes ==
    ASSUME TypeOK, RegisterKafkaDeprovisionJob \/ DeletingStep
    PROVE  TypeOK'
  <1>a. "deleting" \in Actors
    BY ActorNames
  <1>1. CASE RegisterKafkaDeprovisionJob
    <2>1. calls' \in 0 .. MaxCalls
      BY <1>1, CallType DEF RegisterKafkaDeprovisionJob
    <2>2. row' \in KafkaRequest
      BY <1>1, UpdateStatusType DEF RegisterKafkaDeprovisionJob, Statuses, kafkaDeletionStatuses
    <2> QED
      BY <1>1, <2>1, <2>2 DEF RegisterKafkaDeprovisionJob, TypeOK
  <1>2. CASE ListDeleting
    <2>1. task' \in [Actors -> TaskType] /\ races' \in 0 .. MaxUpsets
      BY <1>a, <1>2, BeginType DEF ListDeleting, Steps
    <2> QED
      BY <1>2, <2>1 DEF ListDeleting, TypeOK, TaskType
  <1>3. CASE DeleteQuota
    <2>1. task' \in [Actors -> TaskType]
      BY Zenon, <1>a, <1>3, GotoType DEF DeleteQuota, Steps
    <2>2. ams' \in [Subscriptions -> Models \cup {"unused", "gone"}]
      BY Zenon, <1>3, ReleaseType DEF DeleteQuota
    <2> QED
      BY Zenon, <1>3, <2>1, <2>2 DEF DeleteQuota, TypeOK, TaskType
  <1>4. CASE Delete
    <2>1. task' \in [Actors -> TaskType]
      BY <1>a, <1>4, FinishType DEF Delete
    <2>2. row' \in KafkaRequest
      BY Zenon, <1>4 DEF Delete, TypeOK, KafkaRequest, Statuses
    <2> QED
      BY <1>4, <2>1, <2>2 DEF Delete, TypeOK, TaskType
  <1> QED
    BY <1>1, <1>2, <1>3, <1>4 DEF DeletingStep

\* And those of the rest of the world.
LEMMA WorldTypes ==
    ASSUME TypeOK,
           \/ Report \/ Resume \/ ChangeEntitlement \/ GracePeriodEnds
           \/ \E a \in Actors : Abort(a)
    PROVE  TypeOK'
  <1>1. CASE Report
    <2>1. Reported(row.status) \in Statuses
      BY Zenon DEF TypeOK, KafkaRequest, Reported, Statuses, kafkaDeletionStatuses, validPromotionStatuses
    <2>2. row' \in KafkaRequest
      BY <1>1, <2>1, UpdateStatusType DEF Report
    <2> QED
      BY <1>1, <2>2 DEF Report, TypeOK
  <1>2. CASE Resume
    <2>1. row' \in KafkaRequest
      BY <1>2, UpdateStatusType DEF Resume, Statuses, validPromotionStatuses
    <2> QED
      BY <1>2, <2>1, CallType DEF Resume, TypeOK
  <1>3. CASE ChangeEntitlement
    BY <1>3, CallType DEF ChangeEntitlement, TypeOK
  <1>4. CASE GracePeriodEnds
    <2>1. \A k \in KafkaRequest : Past(k) \in KafkaRequest
      BY Zenon DEF Past, KafkaRequest
    <2>2. row' \in KafkaRequest
      BY <1>4, <2>1 DEF GracePeriodEnds, TypeOK
    <2>3. \A a \in Actors : [task[a] EXCEPT !.held = Past(@)] \in TaskType
      BY <2>1 DEF TypeOK, TaskType
    <2>4. task' \in [Actors -> TaskType]
      BY <1>4, <2>3 DEF GracePeriodEnds
    <2> QED
      BY <1>4, <2>2, <2>4 DEF GracePeriodEnds, TypeOK, TaskType
  <1>5. ASSUME NEW a \in Actors, Abort(a) PROVE TypeOK'
    <2>1. task' \in [Actors -> TaskType]
      BY <1>5, FinishType DEF Abort
    <2> QED
      BY <1>5, <2>1, FaultType DEF Abort, TypeOK, TaskType
  <1> QED
    BY <1>1, <1>2, <1>3, <1>4, <1>5

\* Every step keeps the types.
LEMMA TypeStep == TypeOK /\ SubInv /\ [Next]_vars => TypeOK'
  <1> SUFFICES ASSUME TypeOK, SubInv, [Next]_vars PROVE TypeOK'
    OBVIOUS
  <1>1. CASE UNCHANGED vars
    BY <1>1 DEF vars, TypeOK
  <1> QED
    BY <1>1, RequestTypes, PromoterTypes, KafkasTypes, DeletionTypes, WorldTypes DEF Next

-----------------------------------------------------------------------------
(* Steps that leave a promotion alone.                                     *)

\* The columns a promotion is about.
SameBilling(k, l) ==
    /\ k.actual = l.actual /\ k.desired = l.desired
    /\ k.promotion = l.promotion /\ k.sub = l.sub

SamePass(p) ==
    /\ task'[p].at = task[p].at /\ task'[p].sub = task[p].sub
    /\ SameBilling(task'[p].held, task[p].held)
    /\ task'[p].held.status = task[p].held.status

\* Nothing happens to a pass but that it ends.
PassesAlone == \A p \in Promoters : SamePass(p) \/ task'[p].at = "idle"

\* Every step that is not one of the promotion worker.
Bystander ==
    \/ \E q \in Requests : Promote(q) \/ PromoteWrite(q)
    \/ KafkasStep \/ EntitlementFails
    \/ RegisterKafkaDeprovisionJob \/ DeletingStep
    \/ Report \/ Resume \/ ChangeEntitlement \/ GracePeriodEnds
    \/ \E a \in Actors : Abort(a)
    \/ UNCHANGED vars

\* Each actor has a task of its own.
LEMMA BystanderPasses ==
    ASSUME TypeOK, Bystander
    PROVE  PassesAlone
  <1>1. ASSUME NEW a \in Actors \ Promoters, \A b \in Actors \ {a} : task'[b] = task[b]
        PROVE  PassesAlone
    BY <1>1, ActorNames DEF PassesAlone, SamePass, SameBilling
  <1>2. ASSUME NEW q \in Requests, Promote(q) PROVE PassesAlone
    <2>1. q \in Actors \ Promoters /\ Begin(q, "promote")
      BY <1>2, ActorNames DEF Promote
    <2> QED
      BY <1>1, <2>1, BeginType DEF Steps
  <1>3. ASSUME NEW q \in Requests, PromoteWrite(q) PROVE PassesAlone
    <2>1. q \in Actors \ Promoters /\ Finish(q)
      BY <1>3, ActorNames DEF PromoteWrite
    <2> QED
      BY <1>1, <2>1, FinishType
  <1>4. CASE KafkasStep \/ EntitlementFails
    <2>1. \A b \in Actors \ {"kafkas"} : task'[b] = task[b]
      BY <1>4 DEF KafkasStep, ListAll, IsQuotaEntitlementActive, updateKafkaExpirationDate,
                  Suspend, ListExpired, DeprovisionExpired, EntitlementFails,
                  Begin, Goto, Finish, Do, TypeOK
    <2> QED
      BY <1>1, <2>1, ActorNames
  <1>5. CASE DeletingStep
    <2>1. \A b \in Actors \ {"deleting"} : task'[b] = task[b]
      BY Zenon, <1>5 DEF DeletingStep, ListDeleting, DeleteQuota, Delete, Begin, Goto, Finish, Do, TypeOK
    <2> QED
      BY <1>1, <2>1, ActorNames
  <1>6. CASE GracePeriodEnds
    <2>1. ASSUME NEW p \in Promoters PROVE SamePass(p)
      <3>1. p \in Actors /\ task[p] \in TaskType /\ Held(p) \in KafkaRequest
        BY ActorNames, HeldType
      <3>2. task'[p] = [task[p] EXCEPT !.held = Past(@)]
        BY <1>6, <3>1 DEF GracePeriodEnds
      <3>3. task'[p].at = task[p].at /\ task'[p].sub = task[p].sub /\ task'[p].held = Past(Held(p))
        BY <3>1, <3>2 DEF TaskType, Held
      <3>4. SameBilling(Past(Held(p)), Held(p)) /\ Past(Held(p)).status = Held(p).status
        BY Zenon, <3>1 DEF SameBilling, Past, KafkaRequest
      <3> QED
        BY <3>3, <3>4 DEF SamePass, Held
    <2> QED
      BY <2>1 DEF PassesAlone
  <1>7. ASSUME NEW a \in Actors, Abort(a) PROVE PassesAlone
    <2>1. task'[a] = Idle /\ \A b \in Actors \ {a} : task'[b] = task[b]
      BY <1>7, FinishType DEF Abort
    <2> QED
      BY <2>1, ActorNames, IdleType DEF PassesAlone, SamePass, SameBilling
  <1>8. CASE RegisterKafkaDeprovisionJob \/ Report \/ Resume \/ ChangeEntitlement \/ UNCHANGED vars
    <2>1. task' = task
      BY <1>8 DEF RegisterKafkaDeprovisionJob, Report, Resume, ChangeEntitlement, vars
    <2> QED
      BY <2>1 DEF PassesAlone, SamePass, SameBilling
  <1> QED
    BY <1>2, <1>3, <1>4, <1>5, <1>6, <1>7, <1>8 DEF Bystander

\* Only the endpoint and the promotion worker write the billing columns.
LEMMA BystanderRow ==
    ASSUME TypeOK, Bystander, ~\E q \in Requests : PromoteWrite(q)
    PROVE  SameBilling(row', row)
  <1>r. row \in KafkaRequest
    BY DEF TypeOK
  <1>1. ASSUME NEW st, row' = row \/ row' = [row EXCEPT !.status = st] PROVE SameBilling(row', row)
    BY Zenon, <1>r, <1>1 DEF SameBilling, KafkaRequest
  <1>2. ASSUME NEW e, row' = row \/ row' = [row EXCEPT !.expires = e] PROVE SameBilling(row', row)
    BY Zenon, <1>r, <1>2 DEF SameBilling, KafkaRequest
  <1>3. CASE \/ \E q \in Requests : Promote(q)
             \/ ListAll \/ IsQuotaEntitlementActive \/ ListExpired \/ EntitlementFails
             \/ ListDeleting \/ DeleteQuota \/ ChangeEntitlement
             \/ \E a \in Actors : Abort(a)
             \/ UNCHANGED vars
    <2>1. row' = row
      BY Zenon, <1>3 DEF Promote, ListAll, IsQuotaEntitlementActive, ListExpired, EntitlementFails,
                  ListDeleting, DeleteQuota, ChangeEntitlement, Abort, vars
    <2> QED
      BY <1>1, <2>1
  <1>4. CASE RegisterKafkaDeprovisionJob \/ Report \/ Resume \/ Suspend \/ DeprovisionExpired \/ Delete
    <2>1. \E st : row' = row \/ row' = [row EXCEPT !.status = st]
      BY <1>4 DEF RegisterKafkaDeprovisionJob, Report, Resume, Suspend, DeprovisionExpired, Delete,
                  UpdateStatus
    <2> QED
      BY <1>1, <2>1
  <1>5. CASE updateKafkaExpirationDate \/ GracePeriodEnds
    <2>1. \E e : row' = row \/ row' = [row EXCEPT !.expires = e]
      BY <1>5 DEF updateKafkaExpirationDate, GracePeriodEnds, Past, Updates
    <2> QED
      BY <1>2, <2>1
  <1> QED
    BY <1>3, <1>4, <1>5 DEF Bystander, KafkasStep, DeletingStep

\* Only the promotion worker and the deleting worker change subscriptions.
LEMMA BystanderAms ==
    ASSUME Bystander, ~DeleteQuota
    PROVE  ams' = ams
  BY Zenon DEF Bystander, Promote, PromoteWrite, KafkasStep, ListAll, IsQuotaEntitlementActive,
         updateKafkaExpirationDate, Suspend, ListExpired, DeprovisionExpired, EntitlementFails,
         RegisterKafkaDeprovisionJob, DeletingStep, ListDeleting, Delete, Report, Resume,
         ChangeEntitlement, GracePeriodEnds, Abort, vars

\* A step of the promotion worker is one of its pass.
LEMMA PromoterPass ==
    ASSUME TypeOK, NEW p \in Promoters,
           PromoterStep(p) \/ ReserveFails(p) \/ DeleteFails(p) \/ UpdateFails(p)
    PROVE  \A b \in Actors \ {p} : task'[b] = task[b]
  BY ActorNames DEF PromoterStep, ListKafkasToBePromoted, ReserveDesiredQuota, DeleteActualQuota,
         UpdateKafkaRequest, updateFailedPromotionDetails, ReserveFails, DeleteFails, UpdateFails,
         Begin, Goto, Finish, Do, TypeOK

-----------------------------------------------------------------------------
(* What holds without history.                                             *)

\* Every step keeps the subscription of a pass.
LEMMA SubStep == TypeOK /\ SubInv /\ [Next]_vars => SubInv'
  <1> SUFFICES ASSUME TypeOK, SubInv, [Next]_vars PROVE SubInv'
    OBVIOUS
  <1>1. CASE Bystander
    BY Zenon, <1>1, BystanderPasses DEF PassesAlone, SamePass, SubInv
  <1>2. ASSUME NEW p \in Promoters,
               PromoterStep(p) \/ ReserveFails(p) \/ DeleteFails(p) \/ UpdateFails(p)
        PROVE  SubInv'
    <2>a. p \in Actors /\ \A b \in Promoters \ {p} : task'[b] = task[b]
      BY <1>2, ActorNames, PromoterPass
    <2>s. Held(p) \in KafkaRequest /\ task[p].sub \in {NoSub} \cup Subscriptions
      BY <2>a, HeldType
    <2> SUFFICES task'[p].at \in {"delete", "update"} => task'[p].sub \in Subscriptions
      BY Zenon, <2>a DEF SubInv
    <2>1. CASE ListKafkasToBePromoted(p)
      BY <2>1, <2>a, BeginType DEF ListKafkasToBePromoted, Steps
    <2>2. CASE ReserveDesiredQuota(p)
      <3>1. \/ \E i \in Subscriptions : Do(p, Task("delete", Held(p), i))
            \/ Goto(p, "failed")
        BY Zenon, <2>2 DEF ReserveDesiredQuota, FindSubscriptions, Reserved
      <3>2. ASSUME NEW i \in Subscriptions, Do(p, Task("delete", Held(p), i))
            PROVE  task'[p].sub \in Subscriptions
        BY <3>2, <2>a, <2>s, TaskTyped, DoTask DEF Steps, Task
      <3>3. ASSUME Goto(p, "failed") PROVE task'[p].at = "failed"
        BY <3>3, <2>a, GotoType DEF Steps
      <3> QED
        BY Zenon, <3>1, <3>2, <3>3
    <2>3. CASE DeleteActualQuota(p)
      <3>1. task'[p].sub = task[p].sub /\ At(p, "delete")
        BY <2>3, <2>a, GotoType DEF DeleteActualQuota, Steps
      <3> QED
        BY Zenon, <3>1 DEF SubInv, At
    <2>4. CASE UpdateKafkaRequest(p) \/ updateFailedPromotionDetails(p)
      <3>1. task'[p].at = "idle"
        BY <2>4, <2>a, FinishType, IdleType DEF UpdateKafkaRequest, updateFailedPromotionDetails
      <3> QED
        BY <3>1
    <2>5. CASE ReserveFails(p) \/ DeleteFails(p)
      <3>1. task'[p].at \in {"failed", "promoting"}
        BY <2>5, <2>a, GotoType DEF ReserveFails, DeleteFails, Steps
      <3> QED
        BY Zenon, <3>1
    <2>6. CASE UpdateFails(p)
      <3>1. task'[p].at = "promoting"
        BY Zenon, <2>6, <2>a DEF UpdateFails, Do, Task, TypeOK
      <3> QED
        BY <3>1
    <2> QED
      BY <1>2, <2>1, <2>2, <2>3, <2>4, <2>5, <2>6 DEF PromoterStep
  <1> QED
    BY <1>1, <1>2 DEF Next, Bystander

\* A Kafka on its way to deletion does not come back, nor does its row
\* change, unless a late suspension takes it out; and the deleted one is gone.
LEMMA NotLive ==
    ASSUME TypeOK, ~Live, [Next]_vars, Kept'
    PROVE  ~Live' /\ row'.sub = row.sub /\ (~Exists => ~Exists')
  <1>r. row \in KafkaRequest /\ row.status \in Statuses
    BY Zenon DEF TypeOK, KafkaRequest
  <1>l. row.status \in {"deprovision", "deleting", "deleted"}
    BY DEF Live, Exists, kafkaDeletionStatuses
  <1>d. \A st \in {"deprovision", "deleting", "deleted"} :
           row' = [row EXCEPT !.status = st] => ~Live' /\ row'.sub = row.sub
    BY Zenon, <1>r DEF Live, Exists, kafkaDeletionStatuses, KafkaRequest
  <1>1. CASE row' = row
    BY <1>1 DEF Live, Exists
  <1>2. CASE Suspend
    <2>1. row' = row \/ (Exists /\ row.status # "deprovision" /\ row' = [row EXCEPT !.status = "suspending"])
      BY <1>2 DEF Suspend, UpdateStatus, MayUpdateStatus
    <2>2. ~(row.status = "deleting" /\ row'.status = "suspending")
      BY <1>2 DEF Suspend, Kept
    <2> QED
      BY Zenon, <1>1, <1>r, <1>l, <2>1, <2>2 DEF Exists, KafkaRequest
  <1>3. CASE DeprovisionExpired
    <2>1. row' = row \/ (Exists /\ row' = [row EXCEPT !.status = "deprovision"])
      BY <1>3 DEF DeprovisionExpired
    <2> QED
      BY <1>1, <1>d, <2>1
  <1>4. CASE RegisterKafkaDeprovisionJob
    <2>1. row' = row \/ (Exists /\ row' = [row EXCEPT !.status = "deprovision"])
      BY <1>4 DEF RegisterKafkaDeprovisionJob, UpdateStatus, MayUpdateStatus
    <2> QED
      BY <1>1, <1>d, <2>1
  <1>5. CASE Report
    <2>1. row.status = "deprovision" /\ Reported(row.status) = "deleting"
      BY <1>5, <1>l DEF Report, Reported
    <2>2. row' = row \/ (Exists /\ row' = [row EXCEPT !.status = "deleting"])
      BY <1>5, <2>1 DEF Report, UpdateStatus, MayUpdateStatus
    <2> QED
      BY <1>1, <1>d, <2>2
  <1>6. CASE Delete
    <2>1. row' = [row EXCEPT !.status = "deleted"]
      BY <1>6 DEF Delete
    <2> QED
      BY Zenon, <1>d, <1>r, <2>1 DEF Exists, KafkaRequest
  <1>7. CASE GracePeriodEnds
    <2>1. row' = [row EXCEPT !.expires = "past"]
      BY Zenon, <1>7, <1>r DEF GracePeriodEnds, Past, KafkaRequest
    <2> QED
      BY Zenon, <1>r, <2>1 DEF Live, Exists, KafkaRequest
  <1>8. CASE \/ \E q \in Requests : PromoteWrite(q)
             \/ \E p \in Promoters : UpdateKafkaRequest(p) \/ updateFailedPromotionDetails(p)
             \/ updateKafkaExpirationDate
    BY Zenon, <1>1, <1>8 DEF PromoteWrite, UpdateKafkaRequest, updateFailedPromotionDetails,
                      updateKafkaExpirationDate, Update, Updates
  <1>9. CASE Resume
    BY <1>9, <1>l DEF Resume
  <1>10. CASE \/ \E q \in Requests : Promote(q)
              \/ \E p \in Promoters : \/ ListKafkasToBePromoted(p) \/ ReserveDesiredQuota(p)
                                      \/ DeleteActualQuota(p) \/ ReserveFails(p)
                                      \/ DeleteFails(p) \/ UpdateFails(p)
              \/ ListAll \/ IsQuotaEntitlementActive \/ ListExpired \/ EntitlementFails
              \/ ListDeleting \/ DeleteQuota \/ ChangeEntitlement
              \/ \E a \in Actors : Abort(a)
              \/ UNCHANGED vars
    <2>1. row' = row
      BY ZenonT(40), <1>10 DEF Promote, ListKafkasToBePromoted, ReserveDesiredQuota, DeleteActualQuota,
                   ReserveFails, DeleteFails, UpdateFails, ListAll, IsQuotaEntitlementActive,
                   ListExpired, EntitlementFails, ListDeleting, DeleteQuota, ChangeEntitlement,
                   Abort, vars
    <2> QED
      BY <1>1, <2>1
  <1> QED
    BY <1>2, <1>3, <1>4, <1>5, <1>6, <1>7, <1>8, <1>9, <1>10
       DEF Next, PromoterStep, KafkasStep, DeletingStep

\* Nothing is taken out of the history.
LEMMA HistoryGrows == [Next]_vars => history \subseteq history'
  BY Zenon DEF Next, Promote, PromoteWrite, PromoterStep, ListKafkasToBePromoted, ReserveDesiredQuota,
         DeleteActualQuota, UpdateKafkaRequest, updateFailedPromotionDetails, ReserveFails,
         DeleteFails, UpdateFails, KafkasStep, ListAll, IsQuotaEntitlementActive,
         updateKafkaExpirationDate, Suspend, ListExpired, DeprovisionExpired, EntitlementFails,
         RegisterKafkaDeprovisionJob, DeletingStep, ListDeleting, DeleteQuota, Delete, Report,
         Resume, ChangeEntitlement, GracePeriodEnds, Abort, vars

\* Only a pass that is busy, or a Kafka that can be promoted, moves the
\* promotion worker.
LEMMA PromoterBusy ==
    ASSUME NEW p \in Promoters,
           PromoterStep(p) \/ ReserveFails(p) \/ DeleteFails(p) \/ UpdateFails(p)
    PROVE  ~At(p, "idle") \/ ListKafkasToBePromoted(p)
  BY DEF PromoterStep, ReserveDesiredQuota, DeleteActualQuota, UpdateKafkaRequest,
         updateFailedPromotionDetails, ReserveFails, DeleteFails, UpdateFails, At

\* Releasing a subscription adds none.
LEMMA ReleaseShrinks ==
    ASSUME TypeOK, NEW i, Release(i)
    PROVE  Reserved' \subseteq Reserved \ {i}
  BY DEF TypeOK, Release, Reserved, Models

\* After the quota was released nothing is reserved again.
LEMMA EndedStep ==
    ASSUME TypeOK, Ended, [Next]_vars, Kept'
    PROVE  Ended'
  <1>1. ~Live'
    BY NotLive DEF Ended
  <1>2. CASE "overtakes" \in history
    BY <1>1, <1>2, HistoryGrows DEF Ended
  <1>3. CASE NoPromoter /\ Reserved = {}
    <2>1. \A p \in Promoters : ~ListKafkasToBePromoted(p)
      BY DEF Ended, ListKafkasToBePromoted, Live, Exists, kafkaDeletionStatuses,
         validPromotionStatuses
    <2>2. Bystander
      BY <1>3, <2>1, PromoterBusy DEF Next, Bystander, NoPromoter
    <2>3. NoPromoter'
      BY <1>3, <2>2, BystanderPasses DEF PassesAlone, SamePass, NoPromoter, At
    <2>4. Reserved' = {}
      <3>1. CASE DeleteQuota
        BY Zenon, <1>3, <3>1, ReleaseShrinks DEF DeleteQuota
      <3>2. CASE ~DeleteQuota
        BY <1>3, <2>2, <3>2, BystanderAms DEF Reserved
      <3> QED
        BY <3>1, <3>2
    <2> QED
      BY <1>1, <2>3, <2>4 DEF Ended
  <1> QED
    BY <1>2, <1>3 DEF Ended

\* A request holds the eval row that let it in.
LEMMA RequestStep ==
    ASSUME TypeOK, \A q \in Requests : RequestInv(q), [Next]_vars
    PROVE  \A q \in Requests : RequestInv(q)'
  <1> SUFFICES ASSUME NEW q \in Requests PROVE RequestInv(q)'
    OBVIOUS
  <1>q. q \in Actors /\ q \notin Promoters /\ q # "kafkas" /\ q # "deleting"
    BY ActorNames
  <1>1. CASE task'[q] = task[q]
    BY <1>1 DEF RequestInv, At, Held
  <1>2. CASE task'[q] = Idle
    BY <1>2, IdleType DEF RequestInv, At
  <1>3. ASSUME NEW b \in Actors, b # q, \A c \in Actors \ {b} : task'[c] = task[c]
        PROVE  RequestInv(q)'
    BY <1>q, <1>1, <1>3
  <1>4. ASSUME NEW r \in Requests, Promote(r) PROVE RequestInv(q)'
    <2>1. r \in Actors /\ row.actual = "eval" /\ Begin(r, "promote")
      BY Zenon, <1>4, ActorNames DEF Promote
    <2>2. task'[r].held = row /\ \A b \in Actors \ {r} : task'[b] = task[b]
      BY <2>1, BeginType DEF Steps
    <2>3. CASE r = q
      BY <2>1, <2>2, <2>3 DEF RequestInv, Held
    <2> QED
      BY <1>3, <2>1, <2>2, <2>3
  <1>5. ASSUME NEW a \in Actors, Finish(a) PROVE RequestInv(q)'
    BY <1>q, <1>1, <1>2, <1>5, FinishType
  <1>6. CASE KafkasStep \/ EntitlementFails
    <2>1. \A b \in Actors \ {"kafkas"} : task'[b] = task[b]
      BY <1>6 DEF KafkasStep, ListAll, IsQuotaEntitlementActive, updateKafkaExpirationDate,
                  Suspend, ListExpired, DeprovisionExpired, EntitlementFails,
                  Begin, Goto, Finish, Do, TypeOK
    <2> QED
      BY <1>q, <1>1, <2>1
  <1>7. CASE DeletingStep
    <2>1. \A b \in Actors \ {"deleting"} : task'[b] = task[b]
      BY Zenon, <1>7 DEF DeletingStep, ListDeleting, DeleteQuota, Delete, Begin, Goto, Finish, Do, TypeOK
    <2> QED
      BY <1>q, <1>1, <2>1
  <1>8. CASE GracePeriodEnds
    <2>1. task[q] \in TaskType /\ Held(q) \in KafkaRequest
      BY <1>q, HeldType
    <2>2. task'[q] = [task[q] EXCEPT !.held = Past(@)]
      BY <1>q, <1>8 DEF GracePeriodEnds
    <2>3. task'[q].at = task[q].at /\ task'[q].held = Past(Held(q))
      BY <2>1, <2>2 DEF TaskType, Held
    <2>4. Past(Held(q)).actual = Held(q).actual
      BY Zenon, <2>1 DEF Past, KafkaRequest
    <2> QED
      BY ZenonT(40), <2>3, <2>4 DEF RequestInv, At, Held
  <1>9. ASSUME NEW p \in Promoters,
               PromoterStep(p) \/ ReserveFails(p) \/ DeleteFails(p) \/ UpdateFails(p)
        PROVE  RequestInv(q)'
    BY <1>q, <1>1, <1>9, PromoterPass
  <1>10. CASE RegisterKafkaDeprovisionJob \/ Report \/ Resume \/ ChangeEntitlement \/ UNCHANGED vars
    <2>1. task' = task
      BY <1>10 DEF RegisterKafkaDeprovisionJob, Report, Resume, ChangeEntitlement, vars
    <2> QED
      BY <1>1, <2>1
  <1>11. ASSUME NEW r \in Requests, PromoteWrite(r) PROVE RequestInv(q)'
    BY <1>5, <1>11, ActorNames DEF PromoteWrite
  <1>12. ASSUME NEW a \in Actors, Abort(a) PROVE RequestInv(q)'
    BY <1>5, <1>12 DEF Abort
  <1> QED
    BY <1>4, <1>6, <1>7, <1>8, <1>9, <1>10, <1>11, <1>12 DEF Next

-----------------------------------------------------------------------------
(* The subscriptions.                                                      *)

\* AMS keeps every subscription but eval's, and the eval one does not return.
AmsKeeps ==
    /\ \A i \in Subscriptions : ams[i] \in {"standard", "marketplace"} => ams'[i] = ams[i]
    /\ ams[1] = "gone" => ams'[1] = "gone"

\* A row stays backed as long as AMS keeps subscriptions.
LEMMA BackedKept ==
    ASSUME AmsKeeps, NEW k \in KafkaRequest, Backed(k)
    PROVE  Backed(k)'
  <1>1. k.actual \in Models /\ k.sub \in Subscriptions
    BY Zenon DEF KafkaRequest
  <1> QED
    BY <1>1 DEF AmsKeeps, Backed, Models

\* The passes that do not move keep their invariant.
LEMMA PassKept ==
    ASSUME TypeOK, SubInv, AmsKeeps, NEW p \in Promoters, PassInv(p), task'[p] = task[p]
    PROVE  PassInv(p)'
  <1>1. Held(p) \in KafkaRequest /\ Held(p).desired \in Models
    BY Zenon, ActorNames, HeldType DEF KafkaRequest
  <1>2. Held(p)' = Held(p)
    BY Zenon DEF Held
  <1> SUFFICES ASSUME ~At(p, "idle") PROVE PassInv(p)'
    BY DEF PassInv, At
  <1>3. Backed(Held(p))'
    <2>1. Backed(Held(p))
      BY Zenon DEF PassInv
    <2> QED
      BY Zenon, <1>1, <1>2, <2>1, BackedKept DEF Backed
  <1>4. task[p].at \in {"delete", "update"} => ams'[task[p].sub] = Held(p).desired
    BY Zenon, <1>1 DEF PassInv, SubInv, AmsKeeps, Models
  <1>5. At(p, "update") => ams'[1] = "gone"
    BY DEF PassInv, AmsKeeps
  <1> QED
    BY <1>2, <1>3, <1>4, <1>5 DEF PassInv, At

\* A row that is backed and no eval one has a reserved subscription, which
\* is not the first.
LEMMA BackedReserved ==
    ASSUME TypeOK, NEW k \in KafkaRequest, Backed(k), k.actual # "eval"
    PROVE  k.sub \in Reserved \ {1} /\ ams[k.sub] = k.actual /\ ams[1] = "gone"
  <1>1. k.actual \in Models /\ k.sub \in Subscriptions
    BY Zenon DEF KafkaRequest
  <1> QED
    BY <1>1 DEF Backed, Reserved, Models

\* Steps that do not touch the promotion.
LEMMA PaidFrame ==
    ASSUME TypeOK, TypeOK', Paid, ams' = ams, SameBilling(row', row), PassesAlone,
           \A q \in Requests : RequestInv(q)'
    PROVE  Paid'
  <1>1. LedgerInv'
    BY DEF Paid, LedgerInv, Reserved
  <1>2. RowInv'
    <2>1. NoPromoter => NoPromoter'
      BY DEF PassesAlone, SamePass, NoPromoter, At
    <2>2. Reserved' = Reserved
      BY DEF Reserved
    <2>3. Backed(row)'
      BY Zenon DEF Paid, RowInv, Backed, SameBilling
    <2> QED
      BY Zenon, <2>1, <2>2, <2>3 DEF Paid, RowInv, SameBilling
  <1>3. ASSUME NEW p \in Promoters PROVE PassInv(p)'
    <2>1. CASE task'[p].at = "idle"
      BY Zenon, <2>1 DEF PassInv, At
    <2>2. CASE SamePass(p)
      <3>1. PassInv(p)
        BY DEF Paid
      <3> QED
        BY <2>2, <3>1 DEF PassInv, SamePass, SameBilling, Backed, At, Held
    <2> QED
      BY Zenon, <2>1, <2>2 DEF PassesAlone
  <1> QED
    BY <1>1, <1>2, <1>3 DEF Paid

\* PromoteWrite: the billing model it asks for is never eval.
LEMMA PaidPromoteWrite ==
    ASSUME TypeOK, Paid, NEW q \in Requests, PromoteWrite(q), PassesAlone,
           \A r \in Requests : RequestInv(r)'
    PROVE  Paid'
  <1>1. PICK m \in Models \ {Held(q).actual} :
           Updates([row EXCEPT !.desired = m, !.promotion = "promoting"])
    BY Zenon DEF PromoteWrite
  <1>2. m # "eval"
    BY <1>1 DEF PromoteWrite, Paid, RequestInv
  <1>3. row \in KafkaRequest /\ ams' = ams
    BY DEF TypeOK, PromoteWrite
  <1>4. LedgerInv'
    BY <1>3 DEF Paid, LedgerInv, Reserved
  <1>5. RowInv'
    <2>1. CASE row' = row
      <3>1. NoPromoter => NoPromoter'
        BY DEF PassesAlone, SamePass, NoPromoter, At
      <3> QED
        BY Zenon, <1>3, <2>1, <3>1 DEF Paid, RowInv, Backed, Reserved
    <2>2. CASE row' = [row EXCEPT !.desired = m, !.promotion = "promoting"]
      <3>1. /\ row'.desired = m /\ row'.promotion = "promoting"
            /\ row'.actual = row.actual /\ row'.sub = row.sub
        BY Zenon, <1>3, <2>2 DEF KafkaRequest
      <3> QED
        BY Zenon, <1>2, <1>3, <3>1 DEF Paid, RowInv, Backed
    <2> QED
      BY <1>1, <2>1, <2>2 DEF Updates
  <1>6. ASSUME NEW p \in Promoters PROVE PassInv(p)'
    <2>1. CASE task'[p].at = "idle"
      BY Zenon, <2>1 DEF PassInv, At
    <2>2. CASE SamePass(p)
      <3>1. PassInv(p)
        BY DEF Paid
      <3> QED
        BY <1>3, <2>2, <3>1 DEF PassInv, SamePass, SameBilling, Backed, At, Held
    <2> QED
      BY Zenon, <2>1, <2>2 DEF PassesAlone
  <1> QED
    BY <1>4, <1>5, <1>6 DEF Paid

\* The row and AMS as a busy pass finds them.
LEMMA BusyPass ==
    ASSUME TypeOK, Paid, NEW p \in Promoters, ~At(p, "idle")
    PROVE  /\ Held(p) \in KafkaRequest /\ Backed(Held(p))
           /\ Held(p).desired \in {"standard", "marketplace"}
           /\ row.desired # "eval"
           /\ Held(p).status \in validPromotionStatuses
  <1>1. Held(p) \in KafkaRequest /\ Held(p).desired \in Models
    BY Zenon, ActorNames, HeldType DEF KafkaRequest
  <1>2. PassInv(p) /\ RowInv
    BY Zenon DEF Paid
  <1> QED
    BY Zenon, <1>1, <1>2 DEF PassInv, RowInv, NoPromoter, Models

\* AMS makes a subscription where there was none for another model than eval.
LEMMA LedgerReserve ==
    ASSUME TypeOK, LedgerInv, NEW i \in Subscriptions, NEW m \in {"standard", "marketplace"},
           FindSubscriptions(m) = {}, Reserve(i, m)
    PROVE  LedgerInv' /\ AmsKeeps /\ ams'[i] = m
  <1>1. ams \in [Subscriptions -> Models \cup {"unused", "gone"}] /\ ams[i] = "unused"
    BY DEF TypeOK, Reserve
  <1>2. ams' = [ams EXCEPT ![i] = m]
    BY DEF Reserve
  <1>3. ams'[i] = m /\ \A j \in Subscriptions \ {i} : ams'[j] = ams[j]
    BY <1>1, <1>2
  <1>4. i # 1 /\ 1 \in Subscriptions
    BY <1>1, BoundAssumption DEF LedgerInv, Subscriptions
  <1>5. Reserved \ {1} = {}
    BY DEF FindSubscriptions, LedgerInv, Reserved
  <1>6. \A j \in Reserved' \ {1} : j = i
    BY Zenon, <1>3, <1>5 DEF Reserved
  <1>7. i \in Reserved'
    BY <1>3 DEF Reserved, Models
  <1>8. AmsKeeps
    BY <1>1, <1>3, <1>4 DEF AmsKeeps
  <1>9. LedgerInv'
    BY <1>3, <1>4, <1>6, <1>7 DEF LedgerInv
  <1> QED
    BY <1>3, <1>8, <1>9

\* The eval subscription may go when another is there.
LEMMA LedgerRelease ==
    ASSUME TypeOK, LedgerInv, Release(1),
           NEW i \in Subscriptions, ams[i] \in {"standard", "marketplace"}
    PROVE  LedgerInv' /\ AmsKeeps /\ ams'[1] = "gone" /\ ams'[i] = ams[i]
  <1>1. ams \in [Subscriptions -> Models \cup {"unused", "gone"}] /\ 1 \in Subscriptions
    BY BoundAssumption DEF TypeOK, Subscriptions
  <1>2. ams'[1] = "gone" /\ \A j \in Subscriptions \ {1} : ams'[j] = ams[j]
    BY <1>1 DEF Release, LedgerInv, Models
  <1>3. i # 1
    BY DEF LedgerInv
  <1>4. i \in Reserved' /\ Reserved' \subseteq Reserved
    BY <1>2, <1>3 DEF Reserved, Models
  <1>5. AmsKeeps
    BY <1>2, <1>3 DEF AmsKeeps, LedgerInv
  <1>6. LedgerInv'
    BY Zenon, <1>2, <1>4 DEF LedgerInv
  <1> QED
    BY Zenon, <1>2, <1>3, <1>5, <1>6

\* ReserveDesiredQuota gets on with a subscription of the desired model, and
\* only if the Kafka is an eval one: the subscription of any other is found
\* and does not support what is desired.
LEMMA ReserveFinds ==
    ASSUME TypeOK, Paid, NEW p \in Promoters, At(p, "reserve"),
           NEW i \in FindSubscriptions(Held(p).desired), HasSupportFor(Held(p).desired, i)
    PROVE  Held(p).actual = "eval" /\ ams[i] = Held(p).desired
  <1>1. /\ Held(p) \in KafkaRequest /\ Backed(Held(p))
        /\ Held(p).desired \in {"standard", "marketplace"}
    BY Zenon, BusyPass DEF At
  <1>2. i \in Reserved \ {1} /\ ams[i] \in {"standard", "marketplace"}
    BY <1>1 DEF FindSubscriptions, Reserved, Models, Paid, LedgerInv
  <1>3. ams[i] = Held(p).desired
    BY Zenon, <1>1, <1>2 DEF HasSupportFor, AMSBillingModel
  <1>4. ASSUME Held(p).actual # "eval" PROVE FALSE
    <2>1. Held(p).sub \in Reserved \ {1} /\ ams[Held(p).sub] = Held(p).actual
      BY <1>1, <1>4, BackedReserved
    <2>2. Held(p).sub = i
      BY Zenon, <1>2, <2>1 DEF Paid, LedgerInv
    <2>3. Held(p).actual # Held(p).desired
      BY DEF Paid, PassInv, At
    <2> QED
      BY Zenon, <1>3, <2>1, <2>2, <2>3
  <1> QED
    BY Zenon, <1>3, <1>4

\* ReserveDesiredQuota reserves for an eval Kafka only.
LEMMA ReserveFindsNone ==
    ASSUME TypeOK, Paid, NEW p \in Promoters, At(p, "reserve"),
           FindSubscriptions(Held(p).desired) = {}
    PROVE  Held(p).actual = "eval"
  <1>1. /\ Held(p) \in KafkaRequest /\ Backed(Held(p))
        /\ Held(p).desired \in {"standard", "marketplace"}
    BY BusyPass DEF At
  <1>2. ASSUME Held(p).actual # "eval" PROVE FALSE
    <2>1. Held(p).sub \in Reserved \ {1} /\ ams[Held(p).sub] = Held(p).actual
      BY Zenon, <1>1, <1>2, BackedReserved
    <2> QED
      BY <1>1, <1>2, <2>1 DEF FindSubscriptions
  <1> QED
    BY <1>2

\* A pass that moved, and the others with it.
LEMMA PaidPass ==
    ASSUME TypeOK, SubInv, Paid, NEW p \in Promoters, AmsKeeps,
           \A b \in Promoters \ {p} : task'[b] = task[b],
           LedgerInv', RowInv', PassInv(p)', \A q \in Requests : RequestInv(q)'
    PROVE  Paid'
  <1>1. ASSUME NEW b \in Promoters PROVE PassInv(b)'
    <2>1. CASE b = p
      BY Zenon, <2>1
    <2>2. CASE b # p
      BY <2>2, PassKept DEF Paid
    <2> QED
      BY <2>1, <2>2
  <1> QED
    BY <1>1 DEF Paid

\* The row does not change while a pass that is busy changes AMS.
LEMMA RowKept ==
    ASSUME TypeOK, Paid, NEW p \in Promoters, ~At(p, "idle"), AmsKeeps, row' = row
    PROVE  RowInv'
  <1>1. row.desired # "eval" /\ row \in KafkaRequest /\ RowInv
    BY BusyPass DEF TypeOK, Paid
  <1>2. Backed(row)'
    BY Zenon, <1>1, BackedKept DEF RowInv, Backed
  <1> QED
    BY Zenon, <1>1, <1>2 DEF RowInv

\* Steps that do not call AMS.
LEMMA AmsSame ==
    ASSUME ams' = ams
    PROVE  AmsKeeps /\ (LedgerInv => LedgerInv')
  BY DEF AmsKeeps, LedgerInv, Reserved

\* The steps of a pass keep the Kafka paid for.
LEMMA PaidPromoter ==
    ASSUME TypeOK, SubInv, Paid, \A q \in Requests : RequestInv(q)', NEW p \in Promoters,
           PromoterStep(p) \/ ReserveFails(p) \/ DeleteFails(p) \/ UpdateFails(p)
    PROVE  Paid'
  <1>p. p \in Actors /\ \A b \in Promoters \ {p} : task'[b] = task[b]
    BY ActorNames, PromoterPass
  <1>i. LedgerInv /\ RowInv /\ PassInv(p)
    BY Zenon DEF Paid
  <1>h. Held(p) \in KafkaRequest /\ task[p].at \in Steps
    BY <1>p, HeldType
  <1>b. ~At(p, "idle") =>
            /\ Held(p) \in KafkaRequest /\ Backed(Held(p))
            /\ Held(p).desired \in {"standard", "marketplace"}
            /\ row.desired # "eval"
            /\ Held(p).status \in validPromotionStatuses
    BY Zenon, BusyPass
  \* What becomes of the pass and of AMS is enough where the row stays.
  <1>r. ASSUME ~At(p, "idle"), row' = row, AmsKeeps, LedgerInv', PassInv(p)' PROVE Paid'
    BY Zenon, <1>p, <1>r, RowKept, PaidPass
  \* A pass that goes on to write back what it holds.
  <1>f. ASSUME ~At(p, "idle"), AmsKeeps, task'[p].held = Held(p),
               task'[p].at \in {"failed", "promoting"}
        PROVE  PassInv(p)'
    <2>1. Held(p)' = Held(p)
      BY Zenon, <1>f DEF Held
    <2>2. Backed(Held(p))'
      BY Zenon, <1>b, <1>f, <2>1, BackedKept DEF Backed
    <2> QED
      BY Zenon, <1>b, <1>f, <2>1, <2>2 DEF PassInv, At
  <1>1. CASE ListKafkasToBePromoted(p)
    <2>1. row' = row /\ ams' = ams /\ row.actual # row.desired /\ Begin(p, "reserve")
          /\ row.status \in validPromotionStatuses
      BY Zenon, <1>1 DEF ListKafkasToBePromoted
    <2>2. task'[p].at = "reserve" /\ task'[p].held = row
      BY Zenon, <1>p, <2>1, BeginType DEF Steps
    <2>3. AmsKeeps /\ LedgerInv'
      BY <1>i, <2>1, AmsSame
    <2>4. row.desired # "eval"
      <3>1. ASSUME row.desired = "eval" PROVE FALSE
        <4>1. row.sub \in Reserved \ {1}
          BY <1>i, <2>1, <3>1, BackedReserved DEF RowInv, TypeOK
        <4> QED
          BY Zenon, <1>i, <3>1, <4>1 DEF RowInv
      <3> QED
        BY <3>1
    <2>5. RowInv'
      BY ZenonT(40), <1>i, <2>1, <2>4 DEF RowInv, Backed
    <2>6. PassInv(p)'
      BY ZenonT(40), <1>i, <2>1, <2>2, <2>4 DEF PassInv, RowInv, Backed, At, Held
    <2> QED
      BY Zenon, <1>p, <2>3, <2>5, <2>6, PaidPass
  <1>2. CASE ReserveDesiredQuota(p)
    <2> DEFINE m == Held(p).desired
    <2>1. ~At(p, "idle") /\ At(p, "reserve") /\ row' = row
      BY Zenon, <1>2 DEF ReserveDesiredQuota, At
    <2>2. m \in {"standard", "marketplace"} /\ Backed(Held(p))
      BY Zenon, <1>b, <2>1
    \* The pass with the subscription i it found or made.
    <2>3. ASSUME NEW i \in Subscriptions, AmsKeeps, ams'[i] = m, Held(p).actual = "eval",
                 Do(p, Task("delete", Held(p), i))
          PROVE  PassInv(p)'
      <3>1. task'[p] = Task("delete", Held(p), i)
        BY Zenon, <1>p, <1>h, <2>3, TaskTyped, DoTask DEF Steps
      <3>2. task'[p].at = "delete" /\ task'[p].sub = i /\ Held(p)' = Held(p)
        BY <3>1 DEF Task, Held
      <3>3. Backed(Held(p))'
        BY Zenon, <1>h, <2>2, <2>3, <3>2, BackedKept DEF Backed
      <3> QED
        BY Zenon, <1>b, <2>1, <2>2, <2>3, <3>2, <3>3 DEF PassInv, At
    <2>4. ASSUME Goto(p, "failed"), AmsKeeps PROVE PassInv(p)'
      BY Zenon, <1>f, <1>p, <2>1, <2>4, GotoType DEF Steps
    <2>5. ASSUME NEW i \in FindSubscriptions(m), ams' = ams,
                 IF HasSupportFor(m, i) THEN Do(p, Task("delete", Held(p), i))
                                        ELSE Goto(p, "failed")
          PROVE  Paid'
      <3>1. AmsKeeps /\ LedgerInv'
        BY Zenon, <1>i, <2>5, AmsSame
      <3>2. i \in Subscriptions
        BY DEF FindSubscriptions, Reserved
      <3>3. PassInv(p)'
        BY ZenonT(40), <2>1, <2>3, <2>4, <2>5, <3>1, <3>2, ReserveFinds
      <3> QED
        BY Zenon, <1>r, <2>1, <3>1, <3>3
    <2>6. ASSUME FindSubscriptions(m) = {}, NEW i \in Subscriptions,
                 Reserve(i, m), Do(p, Task("delete", Held(p), i))
          PROVE  Paid'
      <3>1. LedgerInv' /\ AmsKeeps /\ ams'[i] = m
        BY Zenon, <1>i, <2>2, <2>6, LedgerReserve
      <3>2. Held(p).actual = "eval"
        BY Zenon, <2>1, <2>6, ReserveFindsNone
      <3>3. PassInv(p)'
        BY Zenon, <2>3, <2>6, <3>1, <3>2
      <3> QED
        BY Zenon, <1>r, <2>1, <3>1, <3>3
    <2>7. ASSUME Goto(p, "failed"), ams' = ams PROVE Paid'
      BY Zenon, <1>i, <1>r, <2>1, <2>4, <2>7, AmsSame
    <2> QED
      BY <1>2, <2>5, <2>6, <2>7 DEF ReserveDesiredQuota
  <1>3. CASE ReserveFails(p)
    <2>1. ~At(p, "idle") /\ At(p, "reserve") /\ row' = row
      BY <1>3 DEF ReserveFails, At
    <2>2. LedgerInv' /\ AmsKeeps
      <3>1. CASE ams' = ams
        BY Zenon, <1>i, <3>1, AmsSame
      <3>2. CASE ams' # ams
        BY Zenon, <1>3, <1>b, <1>i, <2>1, <3>2, LedgerReserve DEF ReserveFails
      <3> QED
        BY <3>1, <3>2
    <2>3. PassInv(p)'
      BY Zenon, <1>3, <1>f, <1>p, <2>1, <2>2, GotoType DEF ReserveFails, Steps
    <2> QED
      BY Zenon, <1>r, <2>1, <2>2, <2>3
  <1>4. CASE DeleteActualQuota(p)
    <2>1. ~At(p, "idle") /\ At(p, "delete") /\ row' = row
      BY ZenonT(40), <1>4 DEF DeleteActualQuota, At
    <2>2. /\ Held(p).actual = "eval" /\ Held(p).sub = 1
          /\ ams[task[p].sub] = Held(p).desired /\ task[p].sub \in Subscriptions
      BY Zenon, <1>b, <1>i, <2>1 DEF PassInv, SubInv, At, Backed
    <2>3. LedgerInv' /\ AmsKeeps /\ ams'[1] = "gone" /\ ams'[task[p].sub] = Held(p).desired
      <3>1. CASE ams[1] = "eval"
        <4>1. 1 \in Reserved /\ HasSupportFor("eval", 1)
          BY <3>1, BoundAssumption DEF Reserved, Models, Subscriptions, HasSupportFor
        <4>2. Release(1)
          BY Zenon, <1>4, <2>2, <4>1 DEF DeleteActualQuota
        <4> QED
          BY Zenon, <1>b, <1>i, <2>1, <2>2, <4>2, LedgerRelease
      <3>2. CASE ams[1] = "gone"
        <4>1. ams' = ams
          BY Zenon, <1>4, <2>2, <3>2 DEF DeleteActualQuota, Reserved, Models
        <4> QED
          BY Zenon, <1>i, <2>2, <3>2, <4>1, AmsSame
      <3> QED
        BY Zenon, <1>i, <3>1, <3>2 DEF LedgerInv
    <2>4. task'[p].at = "update" /\ Held(p)' = Held(p) /\ task'[p].sub = task[p].sub
      BY Zenon, <1>4, <1>p, GotoType DEF DeleteActualQuota, Steps, Held
    <2>5. Backed(Held(p))'
      BY Zenon, <1>b, <2>1, <2>3, <2>4, BackedKept DEF Backed
    <2>6. PassInv(p)'
      BY Zenon, <1>b, <2>1, <2>2, <2>3, <2>4, <2>5 DEF PassInv, At
    <2> QED
      BY <1>r, <2>1, <2>3, <2>6
  <1>5. CASE DeleteFails(p)
    <2>1. ~At(p, "idle") /\ At(p, "delete") /\ row' = row
      BY Zenon, <1>5 DEF DeleteFails, At
    <2>2. /\ Held(p).sub = 1
          /\ ams[task[p].sub] = Held(p).desired /\ task[p].sub \in Subscriptions
      BY <1>b, <1>i, <2>1 DEF PassInv, SubInv, At, Backed
    <2>3. LedgerInv' /\ AmsKeeps
      <3>1. ams' = ams \/ Release(1)
        BY ZenonT(40), <1>5, <2>2 DEF DeleteFails
      <3> QED
        BY ZenonT(40), <1>b, <1>i, <2>1, <2>2, <3>1, LedgerRelease, AmsSame
    <2>4. PassInv(p)'
      BY Zenon, <1>5, <1>f, <1>p, <2>1, <2>3, GotoType DEF DeleteFails, Steps
    <2> QED
      BY Zenon, <1>r, <2>1, <2>3, <2>4
  <1>6. CASE UpdateKafkaRequest(p)
    <2>1. ~At(p, "idle") /\ At(p, "update") /\ ams' = ams
      BY <1>6 DEF UpdateKafkaRequest, At
    <2>2. ams[task[p].sub] = Held(p).desired /\ ams[1] = "gone"
      BY Zenon, <1>i, <2>1 DEF PassInv, At
    <2>3. AmsKeeps /\ LedgerInv'
      BY <1>i, <2>1, AmsSame
    <2>4. RowInv'
      <3>1. CASE row' = row
        BY <2>1, <2>3, <3>1, RowKept
      <3>2. CASE row' = [row EXCEPT !.actual = Held(p).desired, !.sub = task[p].sub,
                                    !.promotion = "", !.expires = "null"]
        <4>1. /\ row'.actual = Held(p).desired /\ row'.sub = task[p].sub
              /\ row'.desired = row.desired
          BY Zenon, <3>2 DEF TypeOK, KafkaRequest
        <4> QED
          BY Zenon, <1>b, <2>1, <2>2, <4>1 DEF RowInv, Backed
      <3> QED
        BY Zenon, <1>6, <3>1, <3>2 DEF UpdateKafkaRequest, Updates
    <2>5. PassInv(p)'
      BY Zenon, <1>6, <1>p, FinishType, IdleType DEF UpdateKafkaRequest, PassInv, At
    <2> QED
      BY <1>p, <2>3, <2>4, <2>5, PaidPass
  <1>7. CASE UpdateFails(p)
    <2>1. ~At(p, "idle") /\ At(p, "update") /\ ams' = ams /\ row' = row
      BY Zenon, <1>7 DEF UpdateFails, At
    <2>2. ams[task[p].sub] = Held(p).desired /\ ams[1] = "gone"
      BY Zenon, <1>i, <2>1 DEF PassInv, At
    <2>3. AmsKeeps /\ LedgerInv'
      BY <1>i, <2>1, AmsSame
    <2> DEFINE k == [Held(p) EXCEPT !.actual = Held(p).desired, !.sub = task[p].sub,
                                    !.expires = "null"]
    <2>4. /\ k.actual = Held(p).desired /\ k.desired = Held(p).desired
          /\ k.sub = task[p].sub /\ k.status = Held(p).status
      BY Zenon, <1>h DEF KafkaRequest
    <2> HIDE DEF k
    <2>5. task'[p] = Task("promoting", k, NoSub)
      BY Zenon, <1>7, <1>p DEF UpdateFails, Do, TypeOK, k
    <2>6. task'[p].at = "promoting" /\ Held(p)' = k
      BY <2>5 DEF Task, Held
    <2>7. PassInv(p)'
      BY Zenon, <1>b, <2>1, <2>2, <2>4, <2>6 DEF PassInv, Backed, At
    <2> QED
      BY Zenon, <1>r, <2>1, <2>3, <2>7
  <1>8. CASE updateFailedPromotionDetails(p)
    <2>1. ~At(p, "idle") /\ ams' = ams /\ task[p].at \in {"failed", "promoting"}
      BY Zenon, <1>8 DEF updateFailedPromotionDetails, At
    <2>2. AmsKeeps /\ LedgerInv'
      BY <1>i, <2>1, AmsSame
    <2>3. RowInv'
      <3>1. CASE row' = row
        BY <2>1, <2>2, <3>1, RowKept
      <3>2. CASE row' # row
        <4> DEFINE k == [Held(p) EXCEPT !.promotion = task[p].at]
        <4>1. row' = [k EXCEPT !.expires = IF @ = "null" THEN row.expires ELSE @]
          BY <1>8, <3>2 DEF updateFailedPromotionDetails, Update, Updates
        <4>2. /\ row'.actual = Held(p).actual /\ row'.sub = Held(p).sub
              /\ row'.desired = Held(p).desired /\ row'.promotion = task[p].at
          BY Zenon, <1>h, <4>1 DEF KafkaRequest
        <4> QED
          BY Zenon, <1>b, <2>1, <4>2 DEF RowInv, Backed
      <3> QED
        BY Zenon, <3>1, <3>2
    <2>4. PassInv(p)'
      BY <1>8, <1>p, FinishType, IdleType DEF updateFailedPromotionDetails, PassInv, At
    <2> QED
      BY <1>p, <2>2, <2>3, <2>4, PaidPass
  <1> QED
    BY Zenon, <1>1, <1>2, <1>3, <1>4, <1>5, <1>6, <1>7, <1>8 DEF PromoterStep

-----------------------------------------------------------------------------
(* The deletion.                                                           *)

\* The subscription that reconcileDeletingKafkas releases is the only one,
\* if no promotion is pending, failed or in progress.
LEMMA QuotaEnds ==
    ASSUME TypeOK, Paid \/ Ended, DeletionInv, DeleteQuota, Kept'
    PROVE  Ended'
  <1>a. "deleting" \in Actors /\ At("deleting", "quota") /\ ~At("deleting", "idle")
    BY Zenon, ActorNames DEF DeleteQuota, At
  <1>1. ~Live /\ Held("deleting").sub = row.sub
    BY <1>a DEF DeletionInv
  <1>2. DeleteQuota => [Next]_vars
    BY Zenon DEF Next, DeletingStep
  <1>3. ~Live'
    BY <1>1, <1>2, NotLive
  <1>4. CASE Ended
    BY <1>2, <1>4, EndedStep
  <1>5. CASE Paid /\ row.promotion = "" /\ NoPromoter
    <2>1. Reserved \subseteq {row.sub}
      <3>1. CASE row.actual = "eval"
        BY Zenon, <1>5, <3>1 DEF Paid, RowInv, Backed
      <3>2. CASE row.actual # "eval"
        <4>1. row.sub \in Reserved \ {1} /\ ams[1] = "gone"
          BY Zenon, <1>5, <3>2, BackedReserved DEF Paid, RowInv, TypeOK
        <4>2. 1 \notin Reserved
          BY <4>1 DEF Reserved, Models
        <4> QED
          BY Zenon, <1>5, <4>1, <4>2 DEF Paid, LedgerInv
      <3> QED
        BY <3>1, <3>2
    <2>2. Reserved' \subseteq Reserved \ {row.sub}
      BY Zenon, <1>1, ReleaseShrinks DEF DeleteQuota
    <2>3. NoPromoter'
      <3>1. PassesAlone
        BY BystanderPasses DEF Bystander, DeletingStep
      <3> QED
        BY Zenon, <1>5, <3>1 DEF PassesAlone, SamePass, NoPromoter, At
    <2> QED
      BY <1>3, <2>1, <2>2, <2>3 DEF Ended
  <1>6. CASE ~(row.promotion = "" /\ NoPromoter)
    BY ZenonT(40), <1>3, <1>6 DEF Ended, DeleteQuota
  <1> QED
    BY Zenon, <1>4, <1>5, <1>6

\* The task of the deleting worker changes in its own steps only.
LEMMA DeletingTask ==
    ASSUME TypeOK, [Next]_vars, ~DeletingStep
    PROVE  \/ task'["deleting"].at = "idle"
           \/ /\ task'["deleting"].at = task["deleting"].at
              /\ task'["deleting"].held.sub = task["deleting"].held.sub
  <1>a. "deleting" \in Actors \ (Promoters \cup Requests) /\ "deleting" # "kafkas"
    BY ActorNames
  <1>h. task["deleting"] \in TaskType /\ Held("deleting") \in KafkaRequest
    BY Zenon, <1>a, HeldType
  <1>1. CASE \E q \in Requests : Promote(q) \/ PromoteWrite(q)
    <2>1. PICK q \in Requests : Begin(q, "promote") \/ Finish(q)
      BY Zenon, <1>1 DEF Promote, PromoteWrite
    <2> QED
      BY Zenon, <1>a, <2>1, ActorNames DEF Begin, Finish, Do, TypeOK
  <1>2. CASE \E p \in Promoters :
                 PromoterStep(p) \/ ReserveFails(p) \/ DeleteFails(p) \/ UpdateFails(p)
    BY Zenon, <1>a, <1>2, PromoterPass
  <1>3. CASE KafkasStep \/ EntitlementFails
    <2>1. \A b \in Actors \ {"kafkas"} : task'[b] = task[b]
      BY Zenon, <1>3 DEF KafkasStep, ListAll, IsQuotaEntitlementActive, updateKafkaExpirationDate,
                  Suspend, ListExpired, DeprovisionExpired, EntitlementFails,
                  Begin, Goto, Finish, Do, TypeOK
    <2> QED
      BY Zenon, <1>a, <2>1
  <1>4. CASE GracePeriodEnds
    <2>1. task'["deleting"] = [task["deleting"] EXCEPT !.held = Past(@)]
      BY <1>4, <1>a DEF GracePeriodEnds
    <2>2. task'["deleting"].at = task["deleting"].at /\ task'["deleting"].held = Past(Held("deleting"))
      BY <1>h, <2>1 DEF TaskType, Held
    <2>3. Past(Held("deleting")).sub = Held("deleting").sub
      BY Zenon, <1>h DEF Past, KafkaRequest
    <2> QED
      BY <2>2, <2>3 DEF Held
  <1>5. ASSUME NEW b \in Actors, Abort(b)
        PROVE  task'["deleting"].at = "idle" \/ task'["deleting"] = task["deleting"]
    BY Zenon, <1>5, <1>a, FinishType, IdleType DEF Abort
  <1>6. CASE RegisterKafkaDeprovisionJob \/ Report \/ Resume \/ ChangeEntitlement \/ UNCHANGED vars
    BY Zenon, <1>6 DEF RegisterKafkaDeprovisionJob, Report, Resume, ChangeEntitlement, vars
  <1> QED
    BY Zenon, <1>1, <1>2, <1>3, <1>4, <1>5, <1>6 DEF Next

\* Only Delete deletes the row: what a pass writes back was a status in which
\* the Kafka can be promoted.
LEMMA StillExists ==
    ASSUME TypeOK, Paid \/ ~Live, [Next]_vars, ~Delete, Exists
    PROVE  Exists'
  <1>r. row \in KafkaRequest
    BY DEF TypeOK
  <1>u. ASSUME NEW st, st # "deleted", UpdateStatus(st) PROVE Exists'
    BY Zenon, <1>r, <1>u DEF UpdateStatus, Exists, KafkaRequest
  <1>1. ASSUME row'.status = row.status PROVE Exists'
    BY Zenon, <1>1 DEF Exists
  <1>2. CASE Suspend
    BY <1>2, <1>1, <1>u DEF Suspend
  <1>3. CASE DeprovisionExpired
    BY Zenon, <1>3, <1>r DEF DeprovisionExpired, Exists, KafkaRequest
  <1>4. CASE RegisterKafkaDeprovisionJob \/ Resume
    BY Zenon, <1>4, <1>u DEF RegisterKafkaDeprovisionJob, Resume
  <1>5. CASE Report
    <2>1. Reported(row.status) # "deleted"
      BY DEF Reported, Exists
    <2> QED
      BY <1>5, <1>u, <2>1 DEF Report
  <1>6. CASE GracePeriodEnds
    BY Zenon, <1>6, <1>1, <1>r DEF GracePeriodEnds, Past, KafkaRequest
  <1>7. ASSUME NEW p \in Promoters, updateFailedPromotionDetails(p) PROVE Exists'
    <2>1. CASE row' = row
      BY <1>1, <2>1
    <2>2. CASE row' # row
      <3>1. Live /\ ~At(p, "idle")
        BY <1>7, <2>2 DEF updateFailedPromotionDetails, Update, Updates, At
      <3>2. Held(p) \in KafkaRequest /\ Held(p).status \in validPromotionStatuses
        BY <3>1, BusyPass
      <3> DEFINE k == [Held(p) EXCEPT !.promotion = task[p].at]
      <3>3. row' = [k EXCEPT !.expires = IF @ = "null" THEN row.expires ELSE @]
        BY <1>7, <2>2 DEF updateFailedPromotionDetails, Update, Updates
      <3>4. row'.status = Held(p).status
        BY ZenonT(40), <3>2, <3>3 DEF KafkaRequest
      <3> QED
        BY <3>2, <3>4 DEF Exists, validPromotionStatuses
    <2> QED
      BY <2>1, <2>2
  <1>8. CASE \/ \E q \in Requests : PromoteWrite(q)
             \/ \E p \in Promoters : UpdateKafkaRequest(p)
             \/ updateKafkaExpirationDate
    BY Zenon, <1>1, <1>8, <1>r DEF PromoteWrite, UpdateKafkaRequest, updateKafkaExpirationDate, Updates,
                            KafkaRequest
  <1>9. CASE \/ \E q \in Requests : Promote(q)
             \/ \E p \in Promoters : \/ ListKafkasToBePromoted(p) \/ ReserveDesiredQuota(p)
                                     \/ DeleteActualQuota(p) \/ ReserveFails(p)
                                     \/ DeleteFails(p) \/ UpdateFails(p)
             \/ ListAll \/ IsQuotaEntitlementActive \/ ListExpired \/ EntitlementFails
             \/ ListDeleting \/ DeleteQuota \/ ChangeEntitlement
             \/ \E a \in Actors : Abort(a)
             \/ UNCHANGED vars
    <2>1. row' = row
      BY Zenon, <1>9 DEF Promote, ListKafkasToBePromoted, ReserveDesiredQuota, DeleteActualQuota,
                  ReserveFails, DeleteFails, UpdateFails, ListAll, IsQuotaEntitlementActive,
                  ListExpired, EntitlementFails, ListDeleting, DeleteQuota, ChangeEntitlement,
                  Abort, vars
    <2> QED
      BY <1>1, <2>1
  <1> QED
    BY Zenon, <1>2, <1>3, <1>4, <1>5, <1>6, <1>7, <1>8, <1>9
       DEF Next, PromoterStep, KafkasStep, DeletingStep

\* Every step keeps what holds of a deletion.
LEMMA DeletionStep ==
    ASSUME TypeOK, Paid \/ Ended, DeletionInv, [Next]_vars, Kept'
    PROVE  DeletionInv'
  <1>a. "deleting" \in Actors
    BY ActorNames
  <1>l. row.status = "deleting" => ~Live
    BY Zenon DEF Live, kafkaDeletionStatuses
  <1>n. ~Live => ~Live' /\ row'.sub = row.sub /\ (~Exists => ~Exists')
    BY Zenon, NotLive
  <1>1. CASE ~DeletingStep
    <2>1. ~Exists' => Ended'
      <3>1. Exists => Exists'
        BY Zenon, <1>1, StillExists DEF Ended, DeletingStep
      <3> QED
        BY <3>1, EndedStep DEF DeletionInv
    <2> QED
      BY Zenon, <1>n, <1>1, <2>1, DeletingTask, EndedStep DEF DeletionInv, At, Held
  <1>2. CASE ListDeleting
    <2>1. task'["deleting"].at = "quota" /\ task'["deleting"].held = row /\ row' = row
      BY Zenon, <1>2, <1>a, BeginType DEF ListDeleting, Steps
    <2>2. ~Live /\ Exists /\ Exists'
      BY Zenon, <1>2, <1>l, <2>1 DEF ListDeleting, Exists
    <2> QED
      BY Zenon, <1>n, <2>1, <2>2 DEF DeletionInv, At, Held
  <1>3. CASE DeleteQuota
    <2>1. Ended' /\ ~Live
      BY Zenon, <1>3, QuotaEnds DEF DeletionInv, DeleteQuota, At
    <2>2. task'["deleting"].held = Held("deleting")
      BY Zenon, <1>3, <1>a, GotoType DEF DeleteQuota, Steps
    <2>3. Held("deleting").sub = row.sub
      BY Zenon, <1>3 DEF DeletionInv, DeleteQuota, At
    <2> QED
      BY <1>n, <2>1, <2>2, <2>3 DEF DeletionInv, Held
  <1>4. CASE Delete
    <2>1. Ended
      BY <1>4 DEF Delete, DeletionInv
    <2>2. Ended'
      BY <2>1, EndedStep
    <2>3. task'["deleting"].at = "idle"
      BY <1>4, <1>a, FinishType, IdleType DEF Delete
    <2> QED
      BY <2>2, <2>3 DEF DeletionInv, At
  <1> QED
    BY <1>1, <1>2, <1>3, <1>4 DEF DeletingStep

-----------------------------------------------------------------------------
\* The invariant holds at first.
LEMMA InitIInv == Init => IInv
  <1> SUFFICES ASSUME Init PROVE IInv
    OBVIOUS
  <1>1. TypeOK
    BY InitType
  <1>2. \A a \in Actors : task[a].at = "idle"
    BY Zenon, IdleType DEF Init
  <1>3. 1 \in Subscriptions /\ ams[1] = "eval" /\ \A i \in Subscriptions \ {1} : ams[i] = "unused"
    BY BoundAssumption DEF Init, Subscriptions
  <1>4. Reserved = {1}
    BY <1>3 DEF Reserved, Models
  <1>5. LedgerInv
    BY <1>3, <1>4 DEF LedgerInv
  <1>6. RowInv
    BY ZenonT(40), <1>2, <1>4, ActorNames DEF Init, NewRequest, RowInv, Backed, NoPromoter, At
  <1>7. Paid
    BY <1>2, <1>5, <1>6, ActorNames DEF Paid, PassInv, RequestInv, At
  <1>8. DeletionInv
    BY Zenon, <1>2, ActorNames DEF Init, NewRequest, DeletionInv, Exists, At
  <1>9. SubInv
    BY <1>2, ActorNames DEF SubInv
  <1> QED
    BY <1>1, <1>7, <1>8, <1>9 DEF IInv

\* The inductive invariant.
THEOREM Invariance == Spec => []IInv
  <1>1. IInv /\ [Next]_vars => IInv'
    <2> SUFFICES ASSUME IInv, [Next]_vars PROVE IInv'
      OBVIOUS
    <2>1. TypeOK /\ SubInv /\ TypeOK' /\ SubInv'
      BY TypeStep, SubStep DEF IInv
    <2>2. ASSUME Kept' PROVE (Paid \/ Ended)' /\ DeletionInv'
      <3>1. (Paid \/ Ended) /\ DeletionInv
        BY <2>2, HistoryGrows DEF IInv, Kept
      <3>2. DeletionInv'
        BY Zenon, <2>1, <2>2, <3>1, DeletionStep
      <3> SUFFICES Paid' \/ Ended'
        BY <3>2
      <3>3. CASE Ended
        BY Zenon, <2>1, <2>2, <3>3, EndedStep
      <3>4. CASE Paid
        <4>1. \A q \in Requests : RequestInv(q)'
          BY <2>1, <3>4, RequestStep DEF Paid
        <4>2. CASE DeleteQuota
          BY Zenon, <2>1, <2>2, <3>1, <4>2, QuotaEnds
        <4>3. CASE \E q \in Requests : PromoteWrite(q)
          BY Zenon, <2>1, <3>4, <4>1, <4>3, BystanderPasses, PaidPromoteWrite DEF Bystander
        <4>4. CASE Bystander /\ ~DeleteQuota /\ ~\E q \in Requests : PromoteWrite(q)
          BY Zenon, <2>1, <3>4, <4>1, <4>4, BystanderPasses, BystanderRow, BystanderAms, PaidFrame
        <4>5. CASE ~Bystander
          BY <2>1, <3>4, <4>1, <4>5, PaidPromoter DEF Next, Bystander
        <4> QED
          BY Zenon, <4>2, <4>3, <4>4, <4>5
      <3> QED
        BY <3>1, <3>3, <3>4
    <2> QED
      BY <2>1, <2>2 DEF IInv
  <1> QED
    BY <1>1, InitIInv, PTL DEF Spec

\* The types hold.
THEOREM TypeCorrect == Spec => []TypeOK
  <1>1. IInv => TypeOK
    BY DEF IInv
  <1> QED
    BY <1>1, Invariance, PTL

\* A Kafka in use is paid for, whatever fails between the steps of a
\* promotion, however many passes overlap.
THEOREM BilledAlwaysHolds == Spec => []BilledAlways
  <1>1. IInv => BilledAlways
    BY DEF IInv, BilledAlways, Kept, Paid, LedgerInv, Ended
  <1> QED
    BY <1>1, Invariance, PTL

\* When no promotion is pending, AMS has the one subscription the row names.
THEOREM OneSubscriptionHolds == Spec => []OneSubscription
  <1>1. IInv => OneSubscription
    <2> SUFFICES ASSUME IInv, Live, Kept, NoPromoter, row.promotion = "", row.actual = row.desired
                 PROVE  Reserved = {row.sub}
      BY Zenon DEF OneSubscription, Kept
    <2>1. TypeOK /\ LedgerInv /\ RowInv
      BY Zenon DEF IInv, Ended, Paid
    <2>2. CASE row.actual = "eval"
      BY Zenon, <2>1, <2>2 DEF LedgerInv, RowInv, Backed
    <2>3. CASE row.actual # "eval"
      <3>1. row.sub \in Reserved \ {1} /\ ams[1] = "gone"
        BY Zenon, <2>1, <2>3, BackedReserved DEF RowInv, TypeOK
      <3>2. 1 \notin Reserved
        BY Zenon, <3>1 DEF Reserved, Models
      <3> QED
        BY Zenon, <2>1, <3>1, <3>2 DEF LedgerInv
    <2> QED
      BY Zenon, <2>2, <2>3
  <1> QED
    BY <1>1, Invariance, PTL

\* Nothing is paid for after the deletion, unless it overtook a promotion.
THEOREM ReleasedAtDeletionHolds == Spec => []ReleasedAtDeletion
  <1>1. IInv => ReleasedAtDeletion
    BY DEF IInv, ReleasedAtDeletion, Kept, DeletionInv, Ended
  <1> QED
    BY <1>1, Invariance, PTL
=============================================================================
