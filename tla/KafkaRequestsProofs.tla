----------------------- MODULE KafkaRequestsProofs -----------------------
(***************************************************************************)
(* KafkaRequests, for any number of clusters, handlers in flight, calls    *)
(* and faults: types, ReadyRouted, RecordsTracked and QuotaReleased.       *)
(*                                                                         *)
(* None of the three is inductive: a handler can write back what it read   *)
(* long ago.  The invariant therefore also speaks about the copies in      *)
(* memory: a copy is as sound as a row (Sound), and what makes it so is    *)
(* never taken out of the row again, so that writing its status alone is   *)
(* harmless (CopiesInv).                                                   *)
(*                                                                         *)
(* For one handler at a time (MaxInflight = 1): HostPlaced, ReadyRecords,  *)
(* CleanDeletion, DeletionIrrevocable, and that KafkaLifecycle is          *)
(* implemented.  The invariant (SerialInv) says what each handler knows of *)
(* the row at each of its steps.                                           *)
(***************************************************************************)
EXTENDS KafkaRequests, FiniteSetTheorems, TLAPS

\* A row, or a copy of one, that may be served if its status says so.
Sound(r) ==
    /\ r.rcreated => r.routes # None
    /\ r.status = "ready" => r.rcreated

\* Before it is created, the row is empty and only the create endpoint works
\* on it; a handler holds a copy of a row that existed.
AbsentInv ==
    /\ row.status = "absent" => ~row.rcreated /\ row.routes = None
    /\ pc["create"] # "idle" => row.status = "absent"
    /\ \A h \in Handlers \ {"create"} :
          pc[h] # "idle" => row.status # "absent" /\ snap[h].status \in LiveStatuses

\* What a copy says about created routes is true of the row, except that the
\* CNAME manager is ahead of the row.
CopiesInv ==
    \A h \in Handlers :
        /\ Sound(snap[h])
        /\ snap[h].status = "ready" => row.rcreated
        /\ h # "cname" /\ snap[h].rcreated => row.rcreated

\* The CNAME manager works on a row with routes that are not created yet.
CnameInv ==
    pc["cname"] # "idle" =>
        /\ row.routes # None
        /\ snap["cname"].routes # None
        /\ pc["cname"] = "act" => ~snap["cname"].rcreated
        /\ snap["cname"].status # "ready"

\* Past its first step, a deletion has given the quota back.
QuotaInv == pc["deleting"] \in {"sso", "dns", "remove"} => ~sub

Safe ==
    /\ Sound(row) /\ AbsentInv /\ CopiesInv /\ CnameInv /\ QuotaInv
    /\ RecordsTracked /\ QuotaReleased

IInv == TypeOK /\ Safe

-----------------------------------------------------------------------------
\* The operators that build a request from another one stay within the type.
LEMMA BuilderTypes ==
    ASSUME NEW r \in KafkaRequest
    PROVE  /\ \A s \in Statuses : WithStatus(r, s) \in KafkaRequest
           /\ \A c \in Clusters \cup {None}, h \in BOOLEAN :
                 Placed(r, c, h) \in KafkaRequest
           /\ WithCanary(r) \in KafkaRequest
           /\ \A c \in Clusters \cup {None} : WithRoutes(r, c) \in KafkaRequest
           /\ \A i, d \in BOOLEAN : WithRecords(r, i, d) \in KafkaRequest
           /\ \A s \in KafkaRequest : NonZeroFields(r, s) \in KafkaRequest
  BY DEF KafkaRequest, NoRequest, Statuses, LiveStatuses, UpdateableStatuses,
         kafkaDeletionStatuses, WithStatus, Placed, WithCanary, WithRoutes,
         WithRecords, NonZeroFields

\* The columns of a row.
LEMMA FieldTypes ==
    ASSUME NEW r \in KafkaRequest
    PROVE  /\ r.status \in Statuses
           /\ r.cluster \in Clusters \cup {None}
           /\ r.routes \in Clusters \cup {None}
           /\ r.host \in BOOLEAN /\ r.canary \in BOOLEAN
           /\ r.rcid \in BOOLEAN /\ r.rcreated \in BOOLEAN
  BY DEF KafkaRequest

\* The copy held by an idle handler is a row.
LEMMA NoRequestType == NoRequest \in KafkaRequest
  BY DEF KafkaRequest, NoRequest, Statuses

\* The statuses a row can be given.
LEMMA StatusTypes ==
    /\ LiveStatuses \subseteq Statuses
    /\ "absent" \in Statuses /\ "deleted" \in Statuses
    /\ \A s \in {"accepted", "preparing", "provisioning", "failed", "ready",
                 "suspending", "suspended", "resuming", "deprovision",
                 "deleting"} : s \in LiveStatuses /\ s \in Statuses
  BY DEF Statuses, LiveStatuses, UpdateableStatuses, kafkaDeletionStatuses

\* A row that exists has one of the live statuses.
LEMMA ExistsLive ==
    ASSUME TypeOK
    PROVE  /\ Exists => row.status \in LiveStatuses
           /\ row.status \in UpdateableStatuses => Exists
           /\ "absent" \notin LiveStatuses /\ "deleted" \notin LiveStatuses
  BY Zenon, FieldTypes DEF TypeOK, Exists, Statuses, LiveStatuses, UpdateableStatuses,
                    kafkaDeletionStatuses

\* The primitives that write a variable keep its type.
LEMMA WriteTypes ==
    ASSUME TypeOK
    PROVE  /\ \A h \in Handlers, p \in PCs : Goto(h, p) => pc' \in [Handlers -> PCs]
           /\ \A h \in Handlers, r \in KafkaRequest :
                 Hold(h, r) => snap' \in [Handlers -> KafkaRequest]
           /\ \A h \in Handlers : Finish(h) => /\ pc' \in [Handlers -> PCs]
                                              /\ snap' \in [Handlers -> KafkaRequest]
           /\ \A s \in KafkaRequest : Update(s) => row' \in KafkaRequest
           /\ \A r \in KafkaRequest : Updates(r) => row' \in KafkaRequest
           /\ \A s \in Statuses : WriteStatus(s) => row' \in KafkaRequest
  <1>1. \A s \in KafkaRequest : Update(s) => row' \in KafkaRequest
    BY BuilderTypes, Zenon DEF TypeOK, Update
  <1>2. \A r \in KafkaRequest : Updates(r) => row' \in KafkaRequest
    BY DEF TypeOK, Updates
  <1>3. \A s \in Statuses : WriteStatus(s) => row' \in KafkaRequest
    BY BuilderTypes, Zenon DEF TypeOK, WriteStatus
  <1>4. QED
    BY ZenonT(40), <1>1, <1>2, <1>3, NoRequestType DEF TypeOK, Goto, Hold, Finish, PCs

\* Every action keeps the types.
LEMMA TypeStep ==
    ASSUME IInv, [Next]_vars
    PROVE  TypeOK'
  <1> USE ClustersAssumption, WriteTypes
      DEF IInv, TypeOK, Handlers, Workers, Endpoints, PCs, external
  <1>1. ASSUME ReserveQuota PROVE TypeOK'
    BY <1>1, FieldTypes DEF ReserveQuota, Begin
  <1>2. ASSUME CreateRow PROVE TypeOK'
    <2>1. PICK c \in Clusters \cup {None} :
               row' = Placed(WithStatus(NoRequest, "accepted"), c, FALSE)
      BY <1>2, Zenon DEF CreateRow
    <2>2. row' \in KafkaRequest
      BY <2>1, BuilderTypes, NoRequestType, StatusTypes, Zenon
    <2>q. QED
      BY <2>2, <1>2, Zenon DEF CreateRow
  <1>3. ASSUME AcceptedList PROVE TypeOK'
    BY Zenon, <1>3, FieldTypes DEF AcceptedList, Begin
  <1>4. ASSUME AcceptedAssign PROVE TypeOK'
    <2>1. snap["accepted"] \in KafkaRequest
      BY Zenon
    <2>2. PICK c \in Placements(snap["accepted"]) :
               Update(WithStatus(Placed(snap["accepted"], c,
                                        snap["accepted"].host), "preparing"))
      BY Zenon, <1>4 DEF AcceptedAssign
    <2>3. c \in Clusters \cup {None}
      BY <2>1, <2>2, FieldTypes DEF Placements
    <2>4. row' \in KafkaRequest
      BY <2>1, <2>2, <2>3, BuilderTypes, FieldTypes, StatusTypes, Zenon
    <2>q. QED
      BY Zenon, <2>4, <1>4 DEF AcceptedAssign
  <1>5. ASSUME AcceptedFails PROVE TypeOK'
    <2>1. snap["accepted"] \in KafkaRequest
      OBVIOUS
    <2>2. PICK c \in Placements(snap["accepted"]) \cup {snap["accepted"].cluster} :
               Update(WithStatus(Placed(snap["accepted"], c,
                                        snap["accepted"].host), "failed"))
      BY Zenon, <1>5 DEF AcceptedFails
    <2>3. c \in Clusters \cup {None}
      BY <2>1, <2>2, FieldTypes DEF Placements
    <2>4. row' \in KafkaRequest
      BY <2>1, <2>2, <2>3, BuilderTypes, FieldTypes, StatusTypes, Zenon
    <2>q. QED
      BY ZenonT(40), <2>4, <1>5 DEF AcceptedFails
  <1>6. ASSUME PreparingList PROVE TypeOK'
    BY <1>6, FieldTypes DEF PreparingList, Begin
  <1>7. ASSUME PrepareCanary PROVE TypeOK'
    BY <1>7, BuilderTypes, StatusTypes, FieldTypes, Zenon DEF PrepareCanary
  <1>8. ASSUME PrepareWrite PROVE TypeOK'
    BY <1>8, BuilderTypes, NoRequestType, StatusTypes, Zenon DEF PrepareWrite
  <1>9. ASSUME PrepareFails PROVE TypeOK'
    <2>1. snap["preparing"] \in KafkaRequest
      OBVIOUS
    <2>2. PICK h \in BOOLEAN :
               Update(WithStatus(Placed(snap["preparing"],
                                        snap["preparing"].cluster,
                                        h \/ snap["preparing"].host), "failed"))
      BY <1>9, Zenon DEF PrepareFails
    <2>3. row' \in KafkaRequest
      BY <2>1, <2>2, BuilderTypes, FieldTypes, StatusTypes, Zenon
    <2>q. QED
      BY <2>3, <1>9, BoundAssumption DEF PrepareFails, Fault
  <1>10. ASSUME ProvisioningList PROVE TypeOK'
    BY Zenon, <1>10, FieldTypes DEF ProvisioningList, Begin
  <1>11. ASSUME ProvisioningReassign PROVE TypeOK'
    <2>1. snap["provisioning"] \in KafkaRequest
      OBVIOUS
    <2>2. row' \in KafkaRequest
      BY <2>1, <1>11, BuilderTypes, Zenon DEF ProvisioningReassign
    <2>q. QED
      BY Zenon, <2>2, <1>11 DEF ProvisioningReassign
  <1>12. ASSUME ReadyList PROVE TypeOK'
    BY Zenon, <1>12, FieldTypes DEF ReadyList, Begin
  <1>13. ASSUME ReadyCanary PROVE TypeOK'
    BY <1>13, BuilderTypes, StatusTypes, FieldTypes, Zenon DEF ReadyCanary
  <1>14. ASSUME CnameList PROVE TypeOK'
    BY Zenon, <1>14, FieldTypes DEF CnameList, Begin
  <1>15. ASSUME CnameCreate PROVE TypeOK'
    <2>1. snap["cname"] \in KafkaRequest
      OBVIOUS
    <2>2. PICK insync \in BOOLEAN :
               Hold("cname", WithRecords(snap["cname"], TRUE, insync))
      BY <1>15, Zenon DEF CnameCreate
    <2>3. snap' \in [Handlers -> KafkaRequest]
      BY <2>1, <2>2, BuilderTypes, FieldTypes, Zenon
    <2>q. QED
      BY Zenon, <2>1, <2>3, <1>15, FieldTypes DEF CnameCreate
  <1>16. ASSUME CnamePanic PROVE TypeOK'
    BY Zenon, <1>16, FieldTypes DEF CnamePanic
  <1>17. ASSUME CnamePoll PROVE TypeOK'
    <2>1. snap["cname"] \in KafkaRequest
      OBVIOUS
    <2>2. PICK insync \in BOOLEAN :
               Hold("cname", WithRecords(snap["cname"], snap["cname"].rcid, insync))
      BY <1>17, Zenon DEF CnamePoll
    <2>3. snap' \in [Handlers -> KafkaRequest]
      BY <2>1, <2>2, BuilderTypes, FieldTypes, Zenon
    <2>q. QED
      BY Zenon, <2>1, <2>3, <1>17, FieldTypes DEF CnamePoll
  <1>18. ASSUME KafkasList PROVE TypeOK'
    BY Zenon, <1>18 DEF KafkasList, Begin
  <1>19. ASSUME DenyOwners PROVE TypeOK'
    <2>1. row' \in KafkaRequest
      BY <1>19, BuilderTypes, StatusTypes, Zenon DEF DenyOwners
    <2>q. QED
      BY <2>1, <1>19 DEF DenyOwners
  <1>20. ASSUME SuspendCheck PROVE TypeOK'
    BY Zenon, <1>20, FieldTypes DEF SuspendCheck
  <1>21. ASSUME SuspendWrite PROVE TypeOK'
    BY Zenon, <1>21, StatusTypes DEF SuspendWrite
  <1>22. ASSUME ExpireList PROVE TypeOK'
    BY Zenon, <1>22 DEF ExpireList
  <1>23. ASSUME ExpireWrite PROVE TypeOK'
    BY Zenon, <1>23, StatusTypes DEF ExpireWrite
  <1>24. ASSUME DeletingList PROVE TypeOK'
    BY Zenon, <1>24, FieldTypes DEF DeletingList, Begin
  <1>25. ASSUME DeleteQuota PROVE TypeOK'
    BY <1>25, FieldTypes, Zenon DEF DeleteQuota
  <1>26. ASSUME DeleteCanary PROVE TypeOK'
    BY Zenon, <1>26, FieldTypes DEF DeleteCanary
  <1>27. ASSUME DeleteCnames PROVE TypeOK'
    <2>1. dns' \in Clusters \cup {None}
      BY Zenon, <1>27 DEF DeleteCnames
    <2>q. QED
      BY Zenon, <2>1, <1>27 DEF DeleteCnames
  <1>28. ASSUME RemoveRow PROVE TypeOK'
    BY Zenon, <1>28, StatusTypes DEF RemoveRow
  <1>29. ASSUME DeleteCheck PROVE TypeOK'
    BY <1>29, BoundAssumption DEF DeleteCheck, Begin, Call
  <1>30. ASSUME DeleteWrite PROVE TypeOK'
    BY Zenon, <1>30, StatusTypes DEF DeleteWrite
  <1>31. ASSUME AdminWrite PROVE TypeOK'
    BY Zenon, <1>31, StatusTypes, FieldTypes DEF AdminWrite
  <1>32. ASSUME NEW w \in Workers, Retry(w) PROVE TypeOK'
    BY Zenon, <1>32 DEF Retry
  <1>33. ASSUME NEW w \in Workers, SaveRequest(w) PROVE TypeOK'
    BY Zenon, <1>33, BuilderTypes, FieldTypes DEF SaveRequest
  <1>34. ASSUME NEW op \in {"edit", "suspend", "resume"}, AdminRead(op) PROVE TypeOK'
    BY <1>34, FieldTypes, BoundAssumption DEF AdminRead, Begin, Call
  <1>35. ASSUME NEW c \in Clusters, FetchKafka(c) PROVE TypeOK'
    BY Zenon, <1>35 DEF FetchKafka, ManagedKafka
  <1>36. ASSUME NEW c \in Clusters, NEW rep \in PCs, ReceiveReport(c, rep)
        PROVE  TypeOK'
    <2>1. Goto(c, rep) /\ Hold(c, row)
      BY Zenon, <1>36 DEF ReceiveReport, Begin
    <2>2. c \in Handlers /\ rep \in PCs /\ row \in KafkaRequest
      OBVIOUS
    <2>3. pc' \in [Handlers -> PCs] /\ snap' \in [Handlers -> KafkaRequest]
      BY <2>1, <2>2, Zenon DEF Goto, Hold
    <2>q. QED
      BY Zenon, <1>36, <2>3 DEF ReceiveReport
  <1>37. ASSUME NEW c \in Clusters, PersistRoutes(c) PROVE TypeOK'
    <2>1. snap[c] \in KafkaRequest
      OBVIOUS
    <2>2. row' \in KafkaRequest
      BY <2>1, <1>37, BuilderTypes, Zenon DEF PersistRoutes
    <2>3. /\ pc' \in [Handlers -> PCs]
          /\ snap' \in [Handlers -> KafkaRequest]
      BY <2>1, <1>37, BuilderTypes, Zenon DEF PersistRoutes
    <2>q. QED
      BY Zenon, <2>2, <2>3, <1>37 DEF PersistRoutes
  <1>38. ASSUME NEW c \in Clusters, SetReady(c) PROVE TypeOK'
    BY <1>38, BuilderTypes, StatusTypes, FieldTypes, Zenon DEF SetReady
  <1>39. ASSUME NEW c \in Clusters, SetFailed(c) PROVE TypeOK'
    BY <1>39, BuilderTypes, StatusTypes, FieldTypes, Zenon DEF SetFailed
  <1>40. ASSUME NEW c \in Clusters, ReassignCluster(c) PROVE TypeOK'
    BY <1>40, BuilderTypes, FieldTypes, Zenon DEF ReassignCluster
  <1>41. ASSUME NEW c \in Clusters, Unassign(c) PROVE TypeOK'
    BY <1>41, BuilderTypes, Zenon DEF Unassign
  <1>42. ASSUME NEW c \in Clusters, ReportCheck(c) PROVE TypeOK'
    BY <1>42, Zenon DEF ReportCheck
  <1>43. ASSUME NEW c \in Clusters, ReportWrite(c) PROVE TypeOK'
    BY <1>43, StatusTypes, ZenonT(40) DEF ReportWrite, Target
  <1>44. ASSUME NEW h \in Handlers, Abort(h) PROVE TypeOK'
    BY <1>44, BoundAssumption DEF Abort, Fault
  <1>45. CASE UNCHANGED vars
    BY <1>45 DEF vars
  <1>q. QED
    BY Zenon, <1>1, <1>2, <1>3, <1>4, <1>5, <1>6, <1>7, <1>8, <1>9, <1>10, <1>11,
      <1>12, <1>13, <1>14, <1>15, <1>16, <1>17, <1>18, <1>19, <1>20, <1>21,
      <1>22, <1>23, <1>24, <1>25, <1>26, <1>27, <1>28, <1>29, <1>30, <1>31,
      <1>32, <1>33, <1>34, <1>35, <1>36, <1>37, <1>38, <1>39, <1>40, <1>41,
      <1>42, <1>43, <1>44, <1>45, Zenon
       DEF Next, WorkerBegins, WorkerStep, EndpointCalled, EndpointStep,
           AgentBegins, AgentStep

-----------------------------------------------------------------------------
\* What every write to the row respects: the row stays sound, created routes
\* stay created, stored routes stay stored, and no row comes or goes.
Kept ==
    /\ Sound(row)'
    /\ row.rcreated => row'.rcreated
    /\ row.routes # None => row'.routes # None
    /\ row'.status = "absent" <=> row.status = "absent"
    /\ row.status = "absent" => UNCHANGED row
    /\ row'.status = "deleted" => row.status = "deleted"

\* A step that leaves the row alone.
LEMMA RowKept == ASSUME IInv, UNCHANGED row PROVE Kept
  BY Zenon DEF IInv, Safe, Sound, Kept

\* Update writes a copy: sound ones, whose status the row can carry.
LEMMA UpdateKept ==
    ASSUME IInv, NEW s \in KafkaRequest, Update(s), s.status \in LiveStatuses,
           s.rcreated => s.routes # None,
           s.status = "ready" => row.rcreated \/ s.rcreated
    PROVE  Kept
  BY Zenon, FieldTypes, ExistsLive DEF IInv, TypeOK, Safe, Sound, Kept, Update,
     UnderDeletion, Exists, NonZeroFields

\* Updates writes some columns; never routes or whether they are created.
LEMMA UpdatesKept ==
    ASSUME IInv, NEW r, Updates(r),
           r.routes = row.routes, r.rcreated = row.rcreated,
           r.status \in LiveStatuses \cup {row.status},
           r.status = "ready" => row.rcreated
    PROVE  Kept
  BY Zenon, FieldTypes, ExistsLive DEF IInv, TypeOK, Safe, Sound, Kept, Updates,
     UnderDeletion, Exists

\* A status is written; ready only after the records were made.
LEMMA WriteStatusKept ==
    ASSUME IInv, NEW s \in LiveStatuses, WriteStatus(s),
           s = "ready" => row.rcreated
    PROVE  Kept
  BY Zenon, FieldTypes, ExistsLive DEF IInv, TypeOK, Safe, Sound, Kept, WriteStatus,
     WithStatus, Exists

\* A handler that writes the row that way and ends keeps the invariant.
LEMMA FinishSafe ==
    ASSUME IInv, Kept, NEW h \in Handlers, Finish(h), UNCHANGED <<sub, dns>>
    PROVE  Safe'
  <1> USE DEF IInv, TypeOK, Safe, Kept, Finish, Goto, Hold, NoRequest
  <1>1. AbsentInv'
    BY Zenon DEF AbsentInv, Handlers, Endpoints
  <1>2. CopiesInv'
    BY Zenon DEF CopiesInv, Sound
  <1>3. CnameInv' /\ QuotaInv'
    BY Zenon DEF CnameInv, QuotaInv, Handlers, Workers
  <1>4. RecordsTracked' /\ QuotaReleased'
    BY Zenon DEF RecordsTracked, QuotaReleased
  <1>5. QED
    BY Zenon, <1>1, <1>2, <1>3, <1>4

\* So does one that goes on with the copy it has, or with one as sound.
LEMMA GotoSafe ==
    ASSUME IInv, Kept, NEW h \in Handlers \ {"create", "cname"},
           NEW p \in PCs, Goto(h, p), UNCHANGED <<sub, dns>>,
           pc[h] # "idle", h # "deleting",
           NEW r \in KafkaRequest, Hold(h, r), r.status = snap[h].status,
           r.rcreated = snap[h].rcreated, Sound(r)
    PROVE  Safe'
  <1> USE DEF IInv, TypeOK, Safe, Kept, Goto, Hold
  <1>1. AbsentInv'
    BY Zenon DEF AbsentInv, Handlers, Endpoints
  <1>2. CopiesInv'
    BY Zenon DEF CopiesInv, Sound
  <1>3. CnameInv' /\ QuotaInv'
    BY Zenon DEF CnameInv, QuotaInv, Handlers, Workers
  <1>4. RecordsTracked' /\ QuotaReleased'
    BY DEF RecordsTracked, QuotaReleased
  <1>5. QED
    BY Zenon, <1>1, <1>2, <1>3, <1>4

\* A handler that goes on with the copy it holds.
LEMMA GoOnSafe ==
    ASSUME IInv, Kept, NEW h \in Handlers \ {"create", "cname", "deleting"},
           NEW p \in PCs, Goto(h, p), UNCHANGED <<sub, dns, snap>>, pc[h] # "idle"
    PROVE  Safe'
  <1>1. snap[h] \in KafkaRequest /\ Hold(h, snap[h]) /\ Sound(snap[h])
    BY Zenon DEF IInv, TypeOK, Safe, CopiesInv, Hold
  <1>2. QED
    BY Zenon, <1>1, GotoSafe

\* And one that reads the row; the CNAME manager reads only rows with routes
\* that are not created.
LEMMA BeginSafe ==
    ASSUME IInv, Exists, NEW h \in Handlers \ {"create"}, NEW p \in PCs,
           Begin(h, p), UNCHANGED <<row, sub, dns>>,
           h = "cname" => row.routes # None /\ ~row.rcreated,
           h = "deleting" => p = "quota"
    PROVE  Safe'
  <1> USE DEF IInv, TypeOK, Safe, Begin, Goto, Hold
  <1>1. AbsentInv'
    BY Zenon, ExistsLive DEF AbsentInv, Handlers, Endpoints, Exists
  <1>2. CopiesInv'
    BY Zenon DEF CopiesInv, Sound
  <1>3. CnameInv' /\ QuotaInv'
    BY DEF CnameInv, QuotaInv, Sound, Handlers, Workers
  <1>4. Sound(row)' /\ RecordsTracked' /\ QuotaReleased'
    BY DEF Sound, RecordsTracked, QuotaReleased
  <1>5. QED
    BY Zenon, <1>1, <1>2, <1>3, <1>4

\* The copy a handler holds is a row.
LEMMA SnapTypes ==
    ASSUME IInv
    PROVE  \A h \in Handlers :
               /\ snap[h] \in KafkaRequest
               /\ snap[h].cluster \in Clusters \cup {None}
               /\ snap[h].host \in BOOLEAN
  BY Zenon, FieldTypes DEF IInv, TypeOK

\* Every action keeps the rest of the invariant.
LEMMA SafeStep ==
    ASSUME IInv, [Next]_vars
    PROVE  Safe'
  <1>1. ASSUME ReserveQuota PROVE Safe'
    BY Zenon, <1>1, FieldTypes, StatusTypes, ClustersAssumption
       DEF ReserveQuota, Begin, Endpoints, Finish, Goto, Handlers, Hold, IInv,
           NoRequest, Safe, TypeOK, Workers, Sound, AbsentInv, CopiesInv,
           CnameInv, QuotaInv, RecordsTracked, QuotaReleased
  <1>2. ASSUME CreateRow PROVE Safe'
    BY <1>2, FieldTypes, StatusTypes, ClustersAssumption
       DEF CreateRow, WithStatus, Placed, Endpoints, Finish, Goto, Handlers,
           Hold, IInv, NoRequest, Safe, TypeOK, Workers, external, Sound,
           AbsentInv, CopiesInv, CnameInv, QuotaInv, RecordsTracked,
           QuotaReleased
  <1>3. ASSUME AcceptedList PROVE Safe'
    BY Zenon, <1>3, BeginSafe, ExistsLive, ClustersAssumption
       DEF AcceptedList, external, IInv, Exists, Handlers, Workers, Endpoints, PCs
  <1>4. ASSUME AcceptedAssign PROVE Safe'
    <2>1. PICK c \in Placements(snap["accepted"]) :
               Update(WithStatus(Placed(snap["accepted"], c,
                                        snap["accepted"].host), "preparing"))
      BY <1>4 DEF AcceptedAssign
    <2>2. c \in Clusters \cup {None}
      BY <2>1, SnapTypes DEF Placements, Handlers, Workers
    <2> DEFINE s == WithStatus(Placed(snap["accepted"], c, snap["accepted"].host), "preparing")
    <2>3. s \in KafkaRequest
      BY <2>1, <2>2, SnapTypes, BuilderTypes, FieldTypes, NoRequestType,
        StatusTypes, ZenonT(40) DEF Handlers, Workers
    <2>4. s.status \in LiveStatuses /\ (s.rcreated => s.routes # None)
          /\ (s.status = "ready" => row.rcreated)
      BY Zenon, <1>4, StatusTypes, ClustersAssumption
         DEF AcceptedAssign, WithStatus, Placed, IInv, Safe, AbsentInv,
             CopiesInv, Sound, Handlers, Workers, Endpoints
    <2>5. Kept
      BY Zenon, <2>1, <2>3, <2>4, UpdateKept
    <2>q. QED
      BY Zenon, <1>4, <2>5, FinishSafe DEF AcceptedAssign, external, Handlers, Workers
  <1>5. ASSUME AcceptedFails PROVE Safe'
    <2>1. PICK c \in Placements(snap["accepted"]) \cup {snap["accepted"].cluster} :
               Update(WithStatus(Placed(snap["accepted"], c,
                                        snap["accepted"].host), "failed"))
      BY <1>5 DEF AcceptedFails
    <2>2. c \in Clusters \cup {None}
      BY <2>1, SnapTypes DEF Placements, Handlers, Workers
    <2> DEFINE s == WithStatus(Placed(snap["accepted"], c, snap["accepted"].host), "failed")
    <2>3. s \in KafkaRequest
      BY <2>1, <2>2, SnapTypes, BuilderTypes, FieldTypes, NoRequestType,
        StatusTypes, ZenonT(40) DEF Handlers, Workers
    <2>4. s.status \in LiveStatuses /\ (s.rcreated => s.routes # None)
          /\ (s.status = "ready" => row.rcreated)
      BY Zenon, <1>5, StatusTypes, ClustersAssumption
         DEF AcceptedFails, WithStatus, Placed, IInv, Safe, AbsentInv,
             CopiesInv, Sound, Handlers, Workers, Endpoints
    <2>5. Kept
      BY Zenon, <2>1, <2>3, <2>4, UpdateKept
    <2>q. QED
      BY Zenon, <1>5, <2>5, FinishSafe DEF AcceptedFails, external, Handlers, Workers
  <1>6. ASSUME PreparingList PROVE Safe'
    BY <1>6, BeginSafe, ExistsLive, ClustersAssumption
       DEF PreparingList, external, IInv, Exists, Handlers, Workers, Endpoints, PCs
  <1>7. ASSUME PrepareCanary PROVE Safe'
    <2> DEFINE r == WithCanary(Placed(snap["preparing"], snap["preparing"].cluster, TRUE))
    <2>1. r \in KafkaRequest
      BY SnapTypes, BuilderTypes, ZenonT(40) DEF Handlers, Workers
    <2>2. r.status = snap["preparing"].status /\ r.rcreated = snap["preparing"].rcreated
          /\ Sound(r)
      BY Zenon DEF WithCanary, Placed, Sound, IInv, Safe, CopiesInv, Handlers, Workers
    <2>q. QED
      BY <1>7, <2>1, <2>2, RowKept, GotoSafe, Zenon DEF PrepareCanary, Handlers, Workers, PCs
  <1>8. ASSUME PrepareWrite PROVE Safe'
    <2>1. Update(WithCanary(WithStatus(Placed(NoRequest, None, TRUE), "provisioning")))
      BY <1>8, Zenon DEF PrepareWrite
    <2> DEFINE s == WithCanary(WithStatus(Placed(NoRequest, None, TRUE), "provisioning"))
    <2>3. s \in KafkaRequest
      BY <2>1, SnapTypes, BuilderTypes, FieldTypes, NoRequestType, StatusTypes,
         Zenon DEF Handlers, Workers
    <2>4. s.status \in LiveStatuses /\ (s.rcreated => s.routes # None)
          /\ (s.status = "ready" => row.rcreated)
      BY <1>8, StatusTypes, ClustersAssumption, Zenon
         DEF PrepareWrite, WithStatus, Placed, WithCanary, NoRequest, IInv,
             Safe, AbsentInv, CopiesInv, Sound, Handlers, Workers, Endpoints
    <2>5. Kept
      BY <2>1, <2>3, <2>4, UpdateKept, Zenon
    <2>q. QED
      BY <1>8, <2>5, FinishSafe DEF PrepareWrite, external, Handlers, Workers
  <1>9. ASSUME PrepareFails PROVE Safe'
    <2>1. PICK h \in BOOLEAN :
               Update(WithStatus(Placed(snap["preparing"],
                                        snap["preparing"].cluster,
                                        h \/ snap["preparing"].host), "failed"))
      BY <1>9, Zenon DEF PrepareFails
    <2>2. h \/ snap["preparing"].host \in BOOLEAN
      BY SnapTypes DEF Handlers, Workers
    <2> DEFINE s == WithStatus(Placed(snap["preparing"], snap["preparing"].cluster,
                           h \/ snap["preparing"].host), "failed")
    <2>3. s \in KafkaRequest
      BY <2>1, <2>2, SnapTypes, BuilderTypes, FieldTypes, NoRequestType,
        StatusTypes, ZenonT(40) DEF Handlers, Workers
    <2>4. s.status \in LiveStatuses /\ (s.rcreated => s.routes # None)
          /\ (s.status = "ready" => row.rcreated)
      BY Zenon, <1>9, StatusTypes, ClustersAssumption
         DEF PrepareFails, WithStatus, Placed, IInv, Safe, AbsentInv,
             CopiesInv, Sound, Handlers, Workers, Endpoints
    <2>5. Kept
      BY ZenonT(40), <2>1, <2>3, <2>4, UpdateKept
    <2>q. QED
      BY <1>9, <2>5, FinishSafe DEF PrepareFails, external, Handlers, Workers
  <1>10. ASSUME ProvisioningList PROVE Safe'
    BY Zenon, <1>10, BeginSafe, ExistsLive, ClustersAssumption
       DEF ProvisioningList, external, IInv, Exists, Handlers, Workers, Endpoints, PCs
  <1>11. ASSUME ProvisioningReassign PROVE Safe'
    <2>1. PICK c \in Clusters : Update(Placed(snap["provisioning"], c, TRUE))
      BY <1>11, Zenon DEF ProvisioningReassign
    <2> DEFINE s == Placed(snap["provisioning"], c, TRUE)
    <2>3. s \in KafkaRequest
      BY <2>1, SnapTypes, BuilderTypes, FieldTypes, NoRequestType, StatusTypes,
         Zenon DEF Handlers, Workers
    <2>4. s.status \in LiveStatuses /\ (s.rcreated => s.routes # None)
          /\ (s.status = "ready" => row.rcreated)
      BY <1>11, StatusTypes, ClustersAssumption
         DEF ProvisioningReassign, Placed, IInv, Safe, AbsentInv, CopiesInv,
             Sound, Handlers, Workers, Endpoints
    <2>5. Kept
      BY <2>1, <2>3, <2>4, UpdateKept, ZenonT(40)
    <2>q. QED
      BY <1>11, <2>5, FinishSafe DEF ProvisioningReassign, external, Handlers, Workers
  <1>12. ASSUME ReadyList PROVE Safe'
    BY ZenonT(40), <1>12, BeginSafe, ExistsLive, ClustersAssumption
       DEF ReadyList, external, IInv, Exists, Handlers, Workers, Endpoints, PCs
  <1>13. ASSUME ReadyCanary PROVE Safe'
    <2> DEFINE r == WithCanary(snap["ready"])
    <2>1. r \in KafkaRequest
      BY Zenon, SnapTypes, BuilderTypes DEF Handlers, Workers
    <2>2. r.status = snap["ready"].status /\ r.rcreated = snap["ready"].rcreated
          /\ Sound(r)
      BY Zenon DEF WithCanary, Placed, Sound, IInv, Safe, CopiesInv, Handlers, Workers
    <2>q. QED
      BY Zenon, <1>13, <2>1, <2>2, RowKept, GotoSafe DEF ReadyCanary, Handlers, Workers, PCs
  <1>14. ASSUME CnameList PROVE Safe'
    BY Zenon, <1>14, BeginSafe, ExistsLive, ClustersAssumption
       DEF CnameList, external, IInv, Exists, Handlers, Workers, Endpoints, PCs
  <1>15. ASSUME CnameCreate PROVE Safe'
    BY <1>15, FieldTypes, StatusTypes, ClustersAssumption
       DEF CnameCreate, WithRecords, Endpoints, Finish, Goto, Handlers, Hold,
           IInv, NoRequest, Safe, TypeOK, Workers, Sound, AbsentInv,
           CopiesInv, CnameInv, QuotaInv, RecordsTracked, QuotaReleased
  <1>16. ASSUME CnamePanic PROVE Safe'
    BY Zenon, <1>16, RowKept, FinishSafe DEF CnamePanic, external, Handlers, Workers
  <1>17. ASSUME CnamePoll PROVE Safe'
    BY <1>17, FieldTypes, StatusTypes, ClustersAssumption
       DEF CnamePoll, WithRecords, Endpoints, Finish, Goto, Handlers, Hold,
           IInv, NoRequest, Safe, TypeOK, Workers, external, Sound, AbsentInv,
           CopiesInv, CnameInv, QuotaInv, RecordsTracked, QuotaReleased
  <1>18. ASSUME KafkasList PROVE Safe'
    BY Zenon, <1>18, BeginSafe, ExistsLive, ClustersAssumption
       DEF KafkasList, external, IInv, Exists, Handlers, Workers, Endpoints, PCs
  <1>19. ASSUME DenyOwners PROVE Safe'
    <2>1. PICK denied \in BOOLEAN :
               Updates(IF denied THEN WithStatus(row, "deprovision") ELSE row)
      BY Zenon, <1>19 DEF DenyOwners
    <2>2. Kept
      BY Zenon, <2>1, UpdatesKept, StatusTypes DEF WithStatus, IInv, Safe, Sound
    <2>q. QED
      BY Zenon, <1>19, <2>2, GoOnSafe DEF DenyOwners, external, Handlers, Workers, PCs
  <1>20. ASSUME SuspendCheck PROVE Safe'
    <2>1. PICK p \in PCs : Goto("kafkas", p)
      BY Zenon, <1>20 DEF SuspendCheck, PCs
    <2>q. QED
      BY Zenon, <1>20, <2>1, RowKept, GoOnSafe DEF SuspendCheck, external, Handlers, Workers
  <1>21. ASSUME SuspendWrite PROVE Safe'
    <2>1. Kept
      BY Zenon, <1>21, WriteStatusKept, StatusTypes DEF SuspendWrite
    <2>q. QED
      BY Zenon, <1>21, <2>1, GoOnSafe DEF SuspendWrite, external, Handlers, Workers, PCs
  <1>22. ASSUME ExpireList PROVE Safe'
    BY Zenon, <1>22, RowKept, FinishSafe, GoOnSafe, ClustersAssumption
       DEF ExpireList, external, Handlers, Workers, Endpoints, PCs
  <1>23. ASSUME ExpireWrite PROVE Safe'
    BY Zenon, <1>23, WriteStatusKept, StatusTypes, FinishSafe
       DEF ExpireWrite, external, Handlers, Workers, Endpoints
  <1>24. ASSUME DeletingList PROVE Safe'
    BY Zenon, <1>24, BeginSafe, ExistsLive, ClustersAssumption
       DEF DeletingList, external, IInv, Exists, Handlers, Workers, Endpoints, PCs
  <1>25. ASSUME DeleteQuota PROVE Safe'
    BY Zenon, <1>25, FieldTypes, StatusTypes, ClustersAssumption
       DEF DeleteQuota, Endpoints, Finish, Goto, Handlers, Hold, IInv,
           NoRequest, Safe, TypeOK, Workers, Sound, AbsentInv, CopiesInv,
           CnameInv, QuotaInv, RecordsTracked, QuotaReleased
  <1>26. ASSUME DeleteCanary PROVE Safe'
    BY Zenon, <1>26, FieldTypes, StatusTypes, ClustersAssumption
       DEF DeleteCanary, Endpoints, Finish, Goto, Handlers, Hold, IInv,
           NoRequest, Safe, TypeOK, Workers, Sound, AbsentInv, CopiesInv,
           CnameInv, QuotaInv, RecordsTracked, QuotaReleased
  <1>27. ASSUME DeleteCnames PROVE Safe'
    BY <1>27, FieldTypes, StatusTypes, ClustersAssumption
       DEF DeleteCnames, Endpoints, Finish, Goto, Handlers, Hold, IInv,
           NoRequest, Safe, TypeOK, Workers, Sound, AbsentInv, CopiesInv,
           CnameInv, QuotaInv, RecordsTracked, QuotaReleased
  <1>28. ASSUME RemoveRow PROVE Safe'
    BY Zenon, <1>28, FieldTypes, StatusTypes, ClustersAssumption
       DEF RemoveRow, WriteStatus, Exists, WithStatus, Endpoints, Finish,
           Goto, Handlers, Hold, IInv, NoRequest, Safe, TypeOK, Workers,
           external, Sound, AbsentInv, CopiesInv, CnameInv, QuotaInv,
           RecordsTracked, QuotaReleased
  <1>29. ASSUME DeleteCheck PROVE Safe'
    BY Zenon, <1>29, BeginSafe, ExistsLive, ClustersAssumption
       DEF DeleteCheck, external, IInv, Exists, Handlers, Workers, Endpoints, PCs, MayUpdateStatus
  <1>30. ASSUME DeleteWrite PROVE Safe'
    BY Zenon, <1>30, WriteStatusKept, StatusTypes, FinishSafe
       DEF DeleteWrite, external, Handlers, Workers, Endpoints
  <1>31. ASSUME AdminWrite PROVE Safe'
    <2>1. Kept
      BY Zenon, <1>31, WriteStatusKept, StatusTypes
         DEF AdminWrite, IInv, Safe, AbsentInv, CopiesInv, Handlers, Endpoints
    <2>q. QED
      BY Zenon, <1>31, <2>1, FinishSafe DEF AdminWrite, external, Handlers, Endpoints
  <1>32. ASSUME NEW w \in Workers, Retry(w) PROVE Safe'
    BY Zenon, <1>32, RowKept, FinishSafe DEF Retry, external, Handlers, Workers
  <1>33. ASSUME NEW w \in Workers, SaveRequest(w) PROVE Safe'
    <2>1. Update(snap[w])
      BY Zenon, <1>33 DEF SaveRequest
    <2> DEFINE s == snap[w]
    <2>3. s \in KafkaRequest
      BY Zenon, SnapTypes DEF Handlers
    <2>4. s.status \in LiveStatuses /\ (s.rcreated => s.routes # None)
          /\ (s.status = "ready" => row.rcreated)
      BY Zenon, <1>33, StatusTypes, ClustersAssumption
         DEF SaveRequest, IInv, Safe, AbsentInv, CopiesInv, Sound, Handlers,
             Workers, Endpoints
    <2>5. Kept
      BY Zenon, <2>1, <2>3, <2>4, UpdateKept
    <2>q. QED
      BY Zenon, <1>33, <2>5, FinishSafe DEF SaveRequest, external, Handlers, Workers
  <1>34. ASSUME NEW op \in {"edit", "suspend", "resume"}, AdminRead(op) PROVE Safe'
    BY Zenon, <1>34, BeginSafe, ExistsLive, ClustersAssumption
       DEF AdminRead, external, IInv, Exists, Handlers, Workers, Endpoints, PCs
  <1>35. ASSUME NEW c \in Clusters, FetchKafka(c) PROVE Safe'
    BY Zenon, <1>35, FieldTypes, StatusTypes, ClustersAssumption
       DEF FetchKafka, ManagedKafka, Endpoints, Finish, Goto, Handlers, Hold,
           IInv, NoRequest, Safe, TypeOK, Workers, external, Sound, AbsentInv,
           CopiesInv, CnameInv, QuotaInv, RecordsTracked, QuotaReleased
  <1>36. ASSUME NEW c \in Clusters, NEW rep \in PCs, ReceiveReport(c, rep)
        PROVE  Safe'
    BY <1>36, BeginSafe, ExistsLive, ClustersAssumption, Zenon
       DEF ReceiveReport, external, IInv, Exists, Handlers, Workers, Endpoints, PCs
  <1>37. ASSUME NEW c \in Clusters, PersistRoutes(c) PROVE Safe'
    <2> DEFINE s == WithRoutes(snap[c], c)
    <2>1. snap[c] \in KafkaRequest /\ s \in KafkaRequest
      BY Zenon, SnapTypes, BuilderTypes DEF Handlers
    <2>2. s.status = snap[c].status /\ s.rcreated = snap[c].rcreated /\ Sound(s)
      BY ZenonT(40), ClustersAssumption
         DEF WithRoutes, Sound, IInv, Safe, CopiesInv, Handlers
    <2>3. Kept
      BY <1>37, <2>1, <2>2, UpdateKept, ClustersAssumption, Zenon
         DEF PersistRoutes, Sound, IInv, Safe, AbsentInv, CopiesInv, Handlers,
             Workers, Endpoints
    <2>4. CASE pc[c] = "ready"
      <3>1. Goto(c, "ready")
        BY <1>37, <2>4 DEF PersistRoutes, Goto, IInv, TypeOK
      <3>2. QED
        BY <1>37, <2>1, <2>2, <2>3, <2>4, <3>1, GotoSafe, ClustersAssumption, ZenonT(40)
           DEF PersistRoutes, external, Handlers, Workers, Endpoints, PCs
    <2>5. CASE pc[c] # "ready"
      BY Zenon, <1>37, <2>3, <2>5, FinishSafe DEF PersistRoutes, external, Handlers
    <2>q. QED
      BY Zenon, <2>4, <2>5
  <1>38. ASSUME NEW c \in Clusters, SetReady(c) PROVE Safe'
    <2>1. Kept
      BY ZenonT(40), <1>38, UpdatesKept, StatusTypes, ClustersAssumption
         DEF SetReady, WithStatus, IInv, Safe, Sound, CopiesInv, Handlers, Workers
    <2>q. QED
      BY Zenon, <1>38, <2>1, FinishSafe DEF SetReady, external, Handlers
  <1>39. ASSUME NEW c \in Clusters, SetFailed(c) PROVE Safe'
    <2>1. Update(WithStatus(snap[c], "failed"))
      BY <1>39 DEF SetFailed
    <2> DEFINE s == WithStatus(snap[c], "failed")
    <2>3. s \in KafkaRequest
      BY <2>1, SnapTypes, BuilderTypes, FieldTypes, NoRequestType, StatusTypes,
         Zenon DEF Handlers, Workers
    <2>4. s.status \in LiveStatuses /\ (s.rcreated => s.routes # None)
          /\ (s.status = "ready" => row.rcreated)
      BY <1>39, StatusTypes, ClustersAssumption, Zenon
         DEF SetFailed, WithStatus, IInv, Safe, AbsentInv, CopiesInv, Sound,
             Handlers, Workers, Endpoints
    <2>5. Kept
      BY Zenon, <2>1, <2>3, <2>4, UpdateKept
    <2>q. QED
      BY <1>39, <2>5, FinishSafe, Zenon DEF SetFailed, external, Handlers, Workers
  <1>40. ASSUME NEW c \in Clusters, ReassignCluster(c) PROVE Safe'
    <2>1. Update(snap[c])
      BY Zenon, <1>40 DEF ReassignCluster
    <2> DEFINE s == snap[c]
    <2>3. s \in KafkaRequest
      BY Zenon, SnapTypes DEF Handlers
    <2>4. s.status \in LiveStatuses /\ (s.rcreated => s.routes # None)
          /\ (s.status = "ready" => row.rcreated)
      BY <1>40, StatusTypes, ClustersAssumption, Zenon
         DEF ReassignCluster, IInv, Safe, AbsentInv, CopiesInv, Sound,
             Handlers, Workers, Endpoints
    <2>5. Kept
      BY Zenon, <2>1, <2>3, <2>4, UpdateKept
    <2>q. QED
      BY <1>40, <2>5, FinishSafe, Zenon DEF ReassignCluster, external, Handlers, Workers
  <1>41. ASSUME NEW c \in Clusters, Unassign(c) PROVE Safe'
    <2>1. Kept
      BY <1>41, UpdatesKept DEF Unassign, Placed, IInv, Safe, Sound
    <2>q. QED
      BY Zenon, <1>41, <2>1, FinishSafe DEF Unassign, external, Handlers
  <1>42. ASSUME NEW c \in Clusters, ReportCheck(c) PROVE Safe'
    BY <1>42, RowKept, FinishSafe, GoOnSafe, ClustersAssumption, Zenon
       DEF ReportCheck, external, Handlers, Workers, Endpoints, PCs
  <1>43. ASSUME NEW c \in Clusters, ReportWrite(c) PROVE Safe'
    BY <1>43, WriteStatusKept, StatusTypes, FinishSafe, Zenon
       DEF ReportWrite, external, Handlers, Workers, Endpoints, Target
  <1>44. ASSUME NEW h \in Handlers, Abort(h) PROVE Safe'
    BY Zenon, <1>44, RowKept, FinishSafe DEF Abort, external, Handlers, Workers
  <1>45. CASE UNCHANGED vars
    BY <1>45 DEF vars, IInv, Safe, Sound, AbsentInv, CopiesInv, CnameInv,
           QuotaInv, RecordsTracked, QuotaReleased
  <1>q. QED
    BY Zenon, <1>1, <1>2, <1>3, <1>4, <1>5, <1>6, <1>7, <1>8, <1>9, <1>10, <1>11,
      <1>12, <1>13, <1>14, <1>15, <1>16, <1>17, <1>18, <1>19, <1>20, <1>21,
      <1>22, <1>23, <1>24, <1>25, <1>26, <1>27, <1>28, <1>29, <1>30, <1>31,
      <1>32, <1>33, <1>34, <1>35, <1>36, <1>37, <1>38, <1>39, <1>40, <1>41,
      <1>42, <1>43, <1>44, <1>45
       DEF Next, WorkerBegins, WorkerStep, EndpointCalled, EndpointStep,
           AgentBegins, AgentStep

\* The invariant holds at first.
LEMMA InitIInv == ASSUME Init PROVE IInv
  <1>1. TypeOK
    <2>1. row \in KafkaRequest /\ snap \in [Handlers -> KafkaRequest]
      BY NoRequestType DEF Init
    <2>2. calls \in 0 .. MaxCalls /\ faults \in 0 .. MaxFaults
      BY BoundAssumption DEF Init
    <2>3. QED
      BY <2>1, <2>2, Zenon DEF Init, TypeOK, PCs
  <1>2. Safe
    BY ClustersAssumption
       DEF Init, Safe, Sound, AbsentInv, CopiesInv, CnameInv, QuotaInv,
           RecordsTracked, QuotaReleased, NoRequest, Handlers, Workers, Endpoints
  <1>3. QED
    BY <1>1, <1>2 DEF IInv

\* All the handlers together keep the inductive invariant.
THEOREM Invariance == Spec => []IInv
  <1>1. IInv /\ [Next]_vars => IInv'
    BY TypeStep, SafeStep DEF IInv
  <1>2. QED
    BY <1>1, InitIInv, PTL DEF Spec

\* Whatever the handlers read and write back, every variable keeps its type;
\* in particular the row always has one of the statuses the code names.
THEOREM TypeCorrect == Spec => []TypeOK
  <1>1. IInv => TypeOK
    BY DEF IInv
  <1>2. QED
    BY <1>1, Invariance, PTL

\* A Kafka is "ready" only with stored and created routes, although seven
\* workers, two endpoints and every agent may write stale copies of its row.
THEOREM ReadyRoutedHolds == Spec => []ReadyRouted
  <1>1. IInv => ReadyRouted
    BY Zenon DEF IInv, Safe, Sound, ReadyRouted
  <1>2. QED
    BY <1>1, Invariance, PTL

\* Records in Route53 always belong to routes in the row, so that Delete can
\* find them.
THEOREM RecordsTrackedHolds == Spec => []RecordsTracked
  <1>1. IInv => RecordsTracked
    BY Zenon DEF IInv, Safe
  <1>2. QED
    BY <1>1, Invariance, PTL

\* The row of a Kafka is never deleted while its quota is still reserved.
THEOREM QuotaReleasedHolds == Spec => []QuotaReleased
  <1>1. IInv => QuotaReleased
    BY DEF IInv, Safe
  <1>2. QED
    BY <1>1, Invariance, PTL

-----------------------------------------------------------------------------
(* One handler at a time.  What a handler has read is the row, except for  *)
(* what it has changed in memory itself.                                   *)

Alone == \A h, g \in Handlers : pc[h] # "idle" /\ pc[g] # "idle" => h = g

\* A Kafka has no host and no account before it is prepared, and from then on
\* a cluster with the host.  No agent knows of it before, and an agent that
\* ever did makes sure that a Kafka on a cluster has a host.
EarlyStatuses == {"absent", "accepted", "preparing"}

RowInv ==
    /\ row.status \in EarlyStatuses => /\ ~row.host /\ row.routes = None /\ ~row.rcreated
                                       /\ ~row.canary
                                       /\ \A c \in Clusters : cr[c] = "none"
    /\ row.status = "preparing" => row.cluster # None
    /\ row.host => row.cluster # None
    /\ \A c \in Clusters :
          /\ cr[c] # "none" => (row.cluster # None => row.host)
          /\ cr[c] = "deleted" => row.status \in kafkaDeletionStatuses \cup {"deleted"}

\* The records lead to the routes of the row, if there are any, and there are
\* if the row says so.
RecordsInv ==
    /\ dns # None => dns = row.routes /\ CNAMERegistration
    /\ row.rcid => row.routes # None
    /\ CNAMERegistration /\ (row.rcid \/ row.rcreated) /\ ~UnderDeletion => dns = row.routes

\* Without a fault the row knows of the canary account.  What a deletion has
\* cleaned up stays so.
CleanInv ==
    /\ faults = 0 /\ sa =>
          row.canary \/ pc["preparing"] = "write" \/ pc["ready"] = "write"
    /\ row.status = "deleted" /\ row.cluster # None => dns = None /\ (faults = 0 => ~sa)

\* What each handler knows at each of its steps.
CnameKnows ==
    /\ row.routes # None /\ ~row.rcreated
    /\ pc["cname"] = "act" => snap["cname"] = row
    /\ pc["cname"] = "write" =>
          /\ \E id, created \in BOOLEAN :
                (row.rcid => id) /\ snap["cname"] = WithRecords(row, id, created)
          /\ CNAMERegistration /\ ~UnderDeletion => dns = row.routes

KafkasKnows ==
    /\ pc["kafkas"] = "deny" => snap["kafkas"] = row
    /\ pc["kafkas"] = "suspend" => row.status \in {snap["kafkas"].status, "deprovision"}
    /\ pc["kafkas"] = "suspending" => row.status \in CanBeAutomaticallySuspended
    /\ pc["kafkas"] = "expired" => ~UnderDeletion

DeletingKnows ==
    /\ snap["deleting"] = row
    /\ row.status = "deleting" \/ (row.status = "deprovision" /\ ~row.host)
    /\ row.cluster # None /\ pc["deleting"] \in {"dns", "remove"} => (faults = 0 => ~sa)
    /\ row.cluster # None /\ pc["deleting"] = "remove" => dns = None

AgentKnows(c) ==
    /\ row.cluster = c /\ row.host
    /\ pc[c] = "ready" => /\ row.status \notin SuspendedStatuses
                          /\ snap[c] = row \/ UnderDeletion
    /\ pc[c] \in {"installing", "error", "rejected", "full"} => snap[c] = row
    /\ pc[c] = "error" => row.status \notin SuspendedStatuses \cup {"failed"}
    /\ pc[c] = "full" => row.status = "provisioning"
    /\ pc[c] = "deleted" => row.status \in kafkaDeletionStatuses
    /\ pc[c] = "deleting" => row.status = "deprovision"
    /\ pc[c] \in {"suspended", "suspendedWrite"} => row.status = "suspending"

Busy(h) ==
    /\ h = "create" => row.status = "absent"
    /\ h # "create" => Exists
    /\ h = "accepted" => snap[h] = row /\ row.status = "accepted"
    /\ h = "preparing" =>
          /\ row.status = "preparing"
          /\ snap[h] = IF pc[h] = "act" THEN row
                       ELSE WithCanary(Placed(row, row.cluster, TRUE))
    /\ h = "provisioning" =>
          snap[h] = row /\ row.status = "provisioning" /\ row.cluster = None
    /\ h = "ready" =>
          /\ row.status = "ready"
          /\ snap[h] = IF pc[h] = "act" THEN row ELSE WithCanary(row)
    /\ h = "cname" => CnameKnows
    /\ h = "kafkas" => KafkasKnows
    /\ h = "deleting" => DeletingKnows
    /\ h = "delete" => row.status # "deprovision"
    /\ h = "admin" =>
          /\ snap[h] = row
          /\ pc[h] = "suspend" => row.status = "ready"
          /\ pc[h] = "resume" => row.status = "suspended"
    /\ h \in Clusters => AgentKnows(h)

BusyInv == \A h \in Handlers : pc[h] # "idle" => Busy(h)

SerialInv == IInv /\ Alone /\ RowInv /\ RecordsInv /\ CleanInv /\ BusyInv

LifeStep == [Lifecycle!Next]_<<row.status, row.host, row.rcreated>>

-----------------------------------------------------------------------------
(* How the one handler moves on.                                           *)

\* There are finitely many handlers.
LEMMA HandlersFinite == IsFiniteSet(Handlers)
  <1>1. IsFiniteSet(Workers) /\ IsFiniteSet(Endpoints)
    <2>1. IsFiniteSet({}) 
      BY ZenonT(40), FS_EmptySet
    <2>2. \A S, x : IsFiniteSet(S) => IsFiniteSet(S \cup {x})
      BY FS_AddElement
    <2>3. IsFiniteSet({} \cup {"create"} \cup {"delete"} \cup {"admin"})
      BY <2>1, <2>2, Zenon
    <2>4. IsFiniteSet({} \cup {"accepted"} \cup {"preparing"} \cup {"provisioning"}
                      \cup {"ready"} \cup {"deleting"} \cup {"cname"} \cup {"kafkas"})
      BY <2>1, <2>2, Zenon
    <2>5. /\ Endpoints = {} \cup {"create"} \cup {"delete"} \cup {"admin"}
          /\ Workers = {} \cup {"accepted"} \cup {"preparing"} \cup {"provisioning"}
                       \cup {"ready"} \cup {"deleting"} \cup {"cname"} \cup {"kafkas"}
      BY DEF Endpoints, Workers
    <2> QED
      BY <2>3, <2>4, <2>5, Zenon
  <1>2. IsFiniteSet(Workers \cup Endpoints)
    BY <1>1, FS_Union, Zenon
  <1> QED
    BY <1>2, FS_Union, ClustersAssumption, Zenon DEF Handlers

\* With one handler at a time, none is busy when one begins.
LEMMA NobodyElse ==
    ASSUME MaxInflight = 1, NEW h, NEW p, Begin(h, p)
    PROVE  \A g \in Handlers : pc[g] = "idle"
  <1>1. Inflight \subseteq Handlers
    BY Zenon DEF Inflight
  <1>2. IsFiniteSet(Inflight)
    BY Zenon, <1>1, HandlersFinite, FS_Subset
  <1>3. Cardinality(Inflight) \in Nat /\ Cardinality(Inflight) < 1
    BY ZenonT(40), <1>2, FS_CardinalityType DEF Begin
  <1>4. Cardinality(Inflight) = 0
    BY <1>3
  <1>5. Inflight = {}
    BY Zenon, <1>2, <1>4, FS_EmptySet
  <1> QED
    BY Zenon, <1>5 DEF Inflight

\* It is alone then, ...
LEMMA Begun ==
    ASSUME MaxInflight = 1, SerialInv, NEW h \in Handlers, NEW p \in PCs, Begin(h, p)
    PROVE  /\ pc'[h] = p /\ snap'[h] = row
           /\ \A g \in Handlers : pc[g] = "idle"
           /\ \A g \in Handlers \ {h} : pc'[g] = "idle"
           /\ Alone' /\ (Busy(h)' => BusyInv')
  <1>1. \A g \in Handlers : pc[g] = "idle"
    BY Zenon, NobodyElse
  <1>2. pc \in [Handlers -> PCs] /\ snap \in [Handlers -> KafkaRequest]
    BY Zenon DEF SerialInv, IInv, TypeOK
  <1>3. pc' = [pc EXCEPT ![h] = p] /\ snap' = [snap EXCEPT ![h] = row]
    BY Zenon DEF Begin, Goto, Hold
  <1>4. pc'[h] = p /\ snap'[h] = row /\ \A g \in Handlers \ {h} : pc'[g] = pc[g]
    BY ZenonT(40), <1>2, <1>3
  <1>5. \A g \in Handlers \ {h} : pc'[g] = "idle"
    BY Zenon, <1>1, <1>4
  <1>6. Alone' /\ (Busy(h)' => BusyInv')
    BY Zenon, <1>5 DEF Alone, BusyInv
  <1> QED
    BY Zenon, <1>1, <1>4, <1>5, <1>6

\* ... as long as it goes on, ...
LEMMA GoesOn ==
    ASSUME SerialInv, NEW h \in Handlers, pc[h] # "idle", NEW p \in PCs, Goto(h, p)
    PROVE  /\ pc'[h] = p
           /\ \A g \in Handlers \ {h} : pc[g] = "idle" /\ pc'[g] = "idle"
           /\ Alone' /\ (Busy(h)' => BusyInv')
  <1>1. \A g \in Handlers \ {h} : pc[g] = "idle"
    BY Zenon DEF SerialInv, Alone
  <1>2. pc \in [Handlers -> PCs] /\ pc' = [pc EXCEPT ![h] = p]
    BY Zenon DEF SerialInv, IInv, TypeOK, Goto
  <1>3. pc'[h] = p /\ \A g \in Handlers \ {h} : pc'[g] = pc[g]
    BY <1>2
  <1>4. \A g \in Handlers \ {h} : pc'[g] = "idle"
    BY Zenon, <1>1, <1>3
  <1>5. Alone' /\ (Busy(h)' => BusyInv')
    BY Zenon, <1>4 DEF Alone, BusyInv
  <1> QED
    BY Zenon, <1>1, <1>3, <1>4, <1>5

\* ... and when it ends nobody is busy.
LEMMA Ended ==
    ASSUME SerialInv, NEW h \in Handlers, pc[h] # "idle", Finish(h)
    PROVE  /\ \A g \in Handlers : pc'[g] = "idle"
           /\ \A g \in Handlers \ {h} : pc[g] = "idle"
           /\ Alone' /\ BusyInv'
  <1>1. "idle" \in PCs /\ Goto(h, "idle")
    BY Zenon DEF PCs, Finish
  <1>2. \A g \in Handlers : pc'[g] = "idle"
    BY Zenon, <1>1, GoesOn
  <1>3. \A g \in Handlers \ {h} : pc[g] = "idle"
    BY Zenon DEF SerialInv, Alone
  <1> QED
    BY Zenon, <1>2, <1>3 DEF Alone, BusyInv

-----------------------------------------------------------------------------
(* What is written to the row.                                             *)

\* A copy has all that the row has ...
Fuller(s) ==
    /\ row.cluster = None \/ s.cluster = row.cluster
    /\ row.routes = None \/ s.routes = row.routes
    /\ row.host => s.host
    /\ row.canary => s.canary
    /\ row.rcid => s.rcid
    /\ row.rcreated => s.rcreated

\* ... and then replaces it.
LEMMA CopyWritten ==
    ASSUME row \in KafkaRequest, NEW s \in KafkaRequest, Update(s), ~UnderDeletion, Fuller(s)
    PROVE  row' = s
  <1>1. row' = NonZeroFields(row, s)
    BY Zenon DEF Update
  <1>2. /\ (row.host \/ s.host) = s.host /\ (row.canary \/ s.canary) = s.canary
        /\ (row.rcid \/ s.rcid) = s.rcid /\ (row.rcreated \/ s.rcreated) = s.rcreated
    BY Zenon, FieldTypes DEF Fuller
  <1>3. /\ (IF s.cluster = None THEN row.cluster ELSE s.cluster) = s.cluster
        /\ (IF s.routes = None THEN row.routes ELSE s.routes) = s.routes
    BY DEF Fuller
  <1>4. row' = [status |-> s.status, cluster |-> s.cluster, host |-> s.host,
                canary |-> s.canary, routes |-> s.routes, rcid |-> s.rcid,
                rcreated |-> s.rcreated]
    BY Zenon, <1>1, <1>2, <1>3 DEF NonZeroFields
  <1> QED
    BY <1>4 DEF KafkaRequest

\* The row as the handler read it, or with more in it, is such a copy.
LEMMA OwnCopy ==
    ASSUME NEW r, r = row
    PROVE  /\ Fuller(r)
           /\ \A s : Fuller(WithStatus(r, s))
           /\ Fuller(WithCanary(r))
           /\ \A i, d \in BOOLEAN : (row.rcid => i) /\ (row.rcreated => d) => Fuller(WithRecords(r, i, d))
           /\ \A c : row.routes = None => Fuller(WithRoutes(r, c))
           /\ \A c, h : (row.cluster = None \/ c = row.cluster) /\ (row.host => h)
                 => Fuller(Placed(r, c, h)) /\ \A s : Fuller(WithStatus(Placed(r, c, h), s))
  <1>1. Fuller(r) /\ (\A s : Fuller(WithStatus(r, s))) /\ Fuller(WithCanary(r))
    BY ZenonT(40) DEF Fuller, WithStatus, WithCanary
  <1>2. ASSUME NEW i \in BOOLEAN, NEW d \in BOOLEAN, row.rcid => i, row.rcreated => d
        PROVE  Fuller(WithRecords(r, i, d))
    BY Zenon, <1>2 DEF Fuller, WithRecords
  <1>3. ASSUME NEW c, row.routes = None
        PROVE  Fuller(WithRoutes(r, c))
    BY <1>3 DEF Fuller, WithRoutes
  <1>4. ASSUME NEW c, NEW h, row.cluster = None \/ c = row.cluster, row.host => h
        PROVE  Fuller(Placed(r, c, h)) /\ \A s : Fuller(WithStatus(Placed(r, c, h), s))
    BY Zenon, <1>4 DEF Fuller, Placed, WithStatus
  <1> QED
    BY ZenonT(40), <1>1, <1>2, <1>3, <1>4

-----------------------------------------------------------------------------
(* What the writes keep.                                                   *)

\* A step that leaves the row, the agents and the records alone.
LEMMA Untouched ==
    ASSUME SerialInv, UNCHANGED <<row, cr, dns>>
    PROVE  RowInv' /\ RecordsInv' /\ LifeStep
  <1>1. row' = row /\ cr' = cr /\ dns' = dns
    BY Zenon
  <1>2. RowInv' /\ RecordsInv'
    BY Zenon, <1>1 DEF SerialInv, RowInv, RecordsInv, UnderDeletion, Exists
  <1> QED
    BY Zenon, <1>1, <1>2 DEF LifeStep

\* The account stays known: the row does not forget it, and whoever has made
\* one saves it or fails.
LEMMA CleanKept ==
    ASSUME SerialInv, UNCHANGED <<sa, dns>>, faults' = faults \/ Fault,
           row.canary => row'.canary,
           row'.status = "deleted" => row' = row,
           \A h \in {"preparing", "ready"} :
               pc[h] = "write" => pc'[h] = "write" \/ row'.canary \/ Fault
    PROVE  CleanInv'
  <1>1. faults' = 0 => faults = 0 /\ ~Fault
    BY DEF SerialInv, IInv, TypeOK, Fault
  <1>2. sa' = sa /\ dns' = dns
    BY Zenon
  <1>3. faults' = 0 /\ sa' => row'.canary \/ pc'["preparing"] = "write" \/ pc'["ready"] = "write"
    BY <1>1, <1>2 DEF SerialInv, CleanInv
  <1>4. row'.status = "deleted" /\ row'.cluster # None => dns' = None /\ (faults' = 0 => ~sa')
    BY <1>1, <1>2 DEF SerialInv, CleanInv
  <1> QED
    BY Zenon, <1>3, <1>4 DEF CleanInv

\* The statuses that a handler may write alone.
Follows(s) ==
    \/ s = "suspending" /\ row.status \in CanBeAutomaticallySuspended
    \/ s = "suspended" /\ row.status = "suspending"
    \/ s = "resuming" /\ row.status = "suspended"
    \/ /\ s = "ready" /\ row.host /\ row.rcreated
       /\ row.status \in {"provisioning", "failed", "resuming"}
    \/ s = "failed" /\ row.status \in {"provisioning", "ready", "resuming"}
    \/ s = "deprovision" /\ Exists /\ row.status # "deprovision"
    \/ s = "deleting" /\ row.status = "deprovision" /\ row.host
    \/ s = "deleted" /\ (row.status = "deleting" \/ (row.status = "deprovision" /\ ~row.host))

\* They are moves of the life cycle, ...
LEMMA StatusMoves ==
    ASSUME SerialInv, NEW s, Follows(s), row' = WithStatus(row, s)
    PROVE  LifeStep
  <1>1. row'.status = s /\ row'.host = row.host /\ row'.rcreated = row.rcreated
    BY DEF WithStatus
  <1>2. \/ s = "suspending" /\ row.status \in {"accepted", "preparing", "provisioning", "ready", "resuming"}
        \/ s = "suspended" /\ row.status = "suspending"
        \/ s = "resuming" /\ row.status = "suspended"
        \/ s = "ready" /\ row.host /\ row.rcreated /\ row.status \in {"provisioning", "failed", "resuming"}
        \/ s = "failed" /\ row.status \in {"provisioning", "ready", "resuming"}
        \/ s = "deprovision" /\ row.status \in {"accepted", "preparing", "provisioning", "ready", "failed",
              "suspending", "suspended", "resuming", "deleting"}
        \/ s = "deleting" /\ row.status = "deprovision" /\ row.host
        \/ s = "deleted" /\ (row.status = "deleting" \/ (row.status = "deprovision" /\ ~row.host))
    <2>1. row.status \in Statuses
      BY Zenon, FieldTypes DEF SerialInv, IInv, TypeOK
    <2>2. Exists /\ row.status # "deprovision" => row.status \in {"accepted", "preparing",
              "provisioning", "ready", "failed", "suspending", "suspended", "resuming", "deleting"}
      BY Zenon, <2>1 DEF Exists, Statuses, LiveStatuses, UpdateableStatuses, kafkaDeletionStatuses
    <2>3. row.status \in CanBeAutomaticallySuspended =>
              row.status \in {"accepted", "preparing", "provisioning", "ready", "resuming"}
      BY Zenon DEF CanBeAutomaticallySuspended
    <2> QED
      BY Zenon, <2>2, <2>3 DEF Follows
  <1>3. Lifecycle!Next
    BY Zenon, <1>1, <1>2
       DEF Lifecycle!Next, Lifecycle!Move, Lifecycle!Suspend, Lifecycle!Suspended, Lifecycle!Resume,
           Lifecycle!Serve, Lifecycle!Fail, Lifecycle!Deprovision, Lifecycle!Leave, Lifecycle!Remove
  <1> QED
    BY Zenon, <1>3 DEF LifeStep

\* ... and keep what is known of the row.
LEMMA StatusKeeps ==
    ASSUME SerialInv, NEW s, Follows(s), row' = WithStatus(row, s), UNCHANGED <<cr, dns>>
    PROVE  RowInv' /\ RecordsInv'
  <1>1. /\ row'.status = s /\ row'.cluster = row.cluster /\ row'.host = row.host
        /\ row'.routes = row.routes /\ row'.rcid = row.rcid /\ row'.rcreated = row.rcreated
    BY DEF WithStatus
  <1>2. s \notin EarlyStatuses /\ s # "preparing"
    BY Zenon DEF Follows, EarlyStatuses
  <1>3. row.status \in kafkaDeletionStatuses \cup {"deleted"} => s \in kafkaDeletionStatuses \cup {"deleted"}
    BY Zenon DEF Follows, kafkaDeletionStatuses, CanBeAutomaticallySuspended, Exists
  <1>4. RowInv'
    BY Zenon, <1>1, <1>2, <1>3 DEF SerialInv, RowInv
  <1>5. UnderDeletion => UnderDeletion'
    BY Zenon, <1>1 DEF Follows, UnderDeletion, Exists, kafkaDeletionStatuses, CanBeAutomaticallySuspended
  <1>6. RecordsInv'
    BY Zenon, <1>1, <1>5 DEF SerialInv, RecordsInv
  <1> QED
    BY Zenon, <1>4, <1>6

\* So a handler that writes such a status, other than the last one, and ends
\* or goes on, has kept all of the invariant but what it knows itself.
LEMMA StatusStep ==
    ASSUME SerialInv, NEW s, Follows(s), s # "deleted", row' = WithStatus(row, s),
           UNCHANGED <<cr, sa, dns, faults>>,
           pc["preparing"] # "write", pc["ready"] # "write"
    PROVE  RowInv' /\ RecordsInv' /\ CleanInv' /\ LifeStep
  <1>1. row'.canary = row.canary /\ row'.status = s
    BY DEF WithStatus
  <1>2. CleanInv'
    BY Zenon, <1>1, CleanKept
  <1> QED
    BY Zenon, <1>2, StatusMoves, StatusKeeps

-----------------------------------------------------------------------------
(* The actions, one by one.                                                *)

SerialStep ==
    Alone' /\ BusyInv' /\ RowInv' /\ RecordsInv' /\ CleanInv' /\ LifeStep

\* The worker's names, and that none of them is another's or a cluster's.
LEMMA Known ==
    /\ \A h \in {"accepted", "preparing", "provisioning", "ready", "deleting", "cname",
                 "kafkas", "create", "delete", "admin"} : h \in Handlers /\ h \notin Clusters
    /\ \A c \in Clusters : /\ c \in Handlers
                           /\ c \notin {"accepted", "preparing", "provisioning", "ready", "deleting",
                                        "cname", "kafkas", "create", "delete", "admin"}
  BY Zenon, ClustersAssumption DEF Handlers, Workers, Endpoints

\* A handler begins: all there is to see is what it knows.
LEMMA BeginStep ==
    ASSUME MaxInflight = 1, SerialInv, NEW h \in Handlers, NEW p \in PCs, Begin(h, p),
           UNCHANGED <<row, cr, sa, dns, faults>>,
           pc'[h] = p /\ snap'[h] = row' => Busy(h)'
    PROVE  SerialStep
  <1>1. /\ pc'[h] = p /\ snap'[h] = row'
        /\ \A g \in Handlers : pc[g] = "idle"
        /\ Alone' /\ BusyInv'
    BY Zenon, Begun
  <1>2. RowInv' /\ RecordsInv' /\ LifeStep
    BY Zenon, Untouched
  <1>3. pc["preparing"] = "idle" /\ pc["ready"] = "idle"
    BY Zenon, <1>1, Known
  <1>4. CleanInv'
    BY Zenon, <1>3, CleanKept
  <1> QED
    BY Zenon, <1>1, <1>2, <1>4 DEF SerialStep

\* A handler ends that has written nothing, or fails.
LEMMA EndStep ==
    ASSUME SerialInv, NEW h \in Handlers, pc[h] # "idle", Finish(h),
           UNCHANGED <<row, cr, sa, dns>>, faults' = faults \/ Fault,
           h \in {"preparing", "ready"} /\ pc[h] = "write" => Fault
    PROVE  SerialStep
  <1>1. Alone' /\ BusyInv' /\ \A g \in Handlers \ {h} : pc[g] = "idle"
    BY Zenon, Ended
  <1>2. RowInv' /\ RecordsInv' /\ LifeStep
    BY Zenon, Untouched
  <1>3. \A g \in {"preparing", "ready"} : pc[g] = "write" => Fault
    BY Zenon, <1>1, Known
  <1>4. CleanInv'
    BY Zenon, <1>3, CleanKept
  <1> QED
    BY Zenon, <1>1, <1>2, <1>4 DEF SerialStep

\* A handler other than those that make accounts goes on without writing.
LEMMA StayStep ==
    ASSUME SerialInv, NEW h \in Handlers \ {"preparing", "ready"}, pc[h] # "idle",
           NEW p \in PCs, Goto(h, p), UNCHANGED <<row, cr, sa, dns, faults>>,
           pc'[h] = p => Busy(h)'
    PROVE  SerialStep
  <1>1. /\ Alone' /\ BusyInv' /\ \A g \in Handlers \ {h} : pc[g] = "idle"
    BY Zenon, GoesOn
  <1>2. RowInv' /\ RecordsInv' /\ LifeStep
    BY Zenon, Untouched
  <1>3. pc["preparing"] = "idle" /\ pc["ready"] = "idle"
    BY Zenon, <1>1, Known
  <1>4. CleanInv'
    BY Zenon, <1>3, CleanKept
  <1> QED
    BY Zenon, <1>1, <1>2, <1>4 DEF SerialStep

\* A handler writes a status and ends.
LEMMA WriteStep ==
    ASSUME SerialInv, NEW h \in Handlers \ {"preparing", "ready"}, pc[h] # "idle", Finish(h),
           NEW s, Follows(s), s # "deleted", row' = WithStatus(row, s),
           UNCHANGED <<cr, sa, dns, faults>>
    PROVE  SerialStep
  <1>1. /\ Alone' /\ BusyInv' /\ \A g \in Handlers \ {h} : pc[g] = "idle"
    BY Zenon, Ended
  <1>2. pc["preparing"] # "write" /\ pc["ready"] # "write"
    BY Zenon, <1>1, Known
  <1> QED
    BY Zenon, <1>1, <1>2, StatusStep DEF SerialStep

\* What a busy handler knows.
LEMMA Knows ==
    ASSUME SerialInv
    PROVE  \A h \in Handlers : pc[h] # "idle" => Busy(h)
  BY Zenon DEF SerialInv, BusyInv

\* The workers' lists.
LEMMA WorkersBegin ==
    ASSUME MaxInflight = 1, SerialInv, WorkerBegins
    PROVE  SerialStep
  <1> USE DEF external
  <1>1. ASSUME AcceptedList PROVE SerialStep
    <2>1. Begin("accepted", "act") /\ "act" \in PCs /\ UNCHANGED <<row, cr, sa, dns, faults>>
      BY Zenon, <1>1 DEF AcceptedList, PCs
    <2>2. snap'["accepted"] = row' /\ row'.status = "accepted" => Busy("accepted")'
      BY Zenon, Known DEF Busy, Exists
    <2> QED
      BY Zenon, <1>1, <2>1, <2>2, BeginStep, Known DEF AcceptedList
  <1>2. ASSUME PreparingList PROVE SerialStep
    <2>1. Begin("preparing", "act") /\ "act" \in PCs /\ UNCHANGED <<row, cr, sa, dns, faults>>
      BY Zenon, <1>2 DEF PreparingList, PCs
    <2>2. pc'["preparing"] = "act" /\ snap'["preparing"] = row' /\ row'.status = "preparing"
              => Busy("preparing")'
      BY Zenon, Known DEF Busy, Exists
    <2> QED
      BY Zenon, <1>2, <2>1, <2>2, BeginStep, Known DEF PreparingList
  <1>3. ASSUME ProvisioningList PROVE SerialStep
    <2>1. Begin("provisioning", "act") /\ "act" \in PCs /\ UNCHANGED <<row, cr, sa, dns, faults>>
      BY Zenon, <1>3 DEF ProvisioningList, PCs
    <2>2. snap'["provisioning"] = row' /\ row'.status = "provisioning" /\ row'.cluster = None
              => Busy("provisioning")'
      BY Zenon, Known DEF Busy, Exists
    <2> QED
      BY Zenon, <1>3, <2>1, <2>2, BeginStep, Known DEF ProvisioningList
  <1>4. ASSUME ReadyList PROVE SerialStep
    <2>1. Begin("ready", "act") /\ "act" \in PCs /\ UNCHANGED <<row, cr, sa, dns, faults>>
      BY Zenon, <1>4 DEF ReadyList, PCs
    <2>2. pc'["ready"] = "act" /\ snap'["ready"] = row' /\ row'.status = "ready"
              => Busy("ready")'
      BY Zenon, Known DEF Busy, Exists
    <2> QED
      BY Zenon, <1>4, <2>1, <2>2, BeginStep, Known DEF ReadyList
  <1>5. ASSUME CnameList PROVE SerialStep
    <2>1. Begin("cname", "act") /\ "act" \in PCs /\ UNCHANGED <<row, cr, sa, dns, faults>>
      BY Zenon, <1>5 DEF CnameList, PCs
    <2>2. Exists' /\ row'.routes # None /\ ~row'.rcreated
          /\ pc'["cname"] = "act" /\ snap'["cname"] = row' => Busy("cname")'
      BY Zenon, Known DEF Busy, CnameKnows
    <2>3. Exists' /\ row'.routes # None /\ ~row'.rcreated
      BY <1>5, <2>1 DEF CnameList, Exists
    <2> QED
      BY Zenon, <2>1, <2>2, <2>3, BeginStep, Known
  <1>6. ASSUME KafkasList PROVE SerialStep
    <2>1. Begin("kafkas", "deny") /\ "deny" \in PCs /\ UNCHANGED <<row, cr, sa, dns, faults>>
      BY Zenon, <1>6 DEF KafkasList, PCs
    <2>2. pc'["kafkas"] = "deny" /\ snap'["kafkas"] = row' /\ Exists' => Busy("kafkas")'
      BY Zenon, Known DEF Busy, KafkasKnows
    <2>3. Exists'
      BY Zenon, <1>6, <2>1 DEF KafkasList, Exists
    <2> QED
      BY Zenon, <2>1, <2>2, <2>3, BeginStep, Known
  <1>7. ASSUME DeletingList PROVE SerialStep
    <2>1. Begin("deleting", "quota") /\ "quota" \in PCs /\ UNCHANGED <<row, cr, sa, dns, faults>>
      BY Zenon, <1>7 DEF DeletingList, PCs
    <2>2. pc'["deleting"] = "quota" /\ snap'["deleting"] = row'
          /\ (row'.status = "deleting" \/ (row'.status = "deprovision" /\ ~row'.host))
              => Busy("deleting")'
      BY Zenon, Known DEF Busy, DeletingKnows, Exists
    <2>3. row'.status = "deleting" \/ (row'.status = "deprovision" /\ ~row'.host)
      BY ZenonT(40), <1>7, <2>1 DEF DeletingList
    <2> QED
      BY Zenon, <2>1, <2>2, <2>3, BeginStep, Known
  <1> QED
    BY Zenon, <1>1, <1>2, <1>3, <1>4, <1>5, <1>6, <1>7 DEF WorkerBegins

\* The requests of users and administrators, and the reports of the agents.
LEMMA OthersBegin ==
    ASSUME MaxInflight = 1, SerialInv
    PROVE  /\ EndpointCalled => SerialStep
           /\ \A c \in Clusters, rep \in PCs : ReceiveReport(c, rep) => SerialStep
  <1>1. ASSUME ReserveQuota PROVE SerialStep
    <2>1. Begin("create", "create") /\ "create" \in PCs /\ UNCHANGED <<row, cr, sa, dns, faults>>
      BY Zenon, <1>1 DEF ReserveQuota, PCs
    <2>2. row'.status = "absent" => Busy("create")'
      BY Zenon, Known DEF Busy
    <2> QED
      BY Zenon, <1>1, <2>1, <2>2, BeginStep, Known DEF ReserveQuota
  <1>2. ASSUME DeleteCheck PROVE SerialStep
    <2>1. Begin("delete", "deprovision") /\ "deprovision" \in PCs /\ UNCHANGED <<row, cr, sa, dns, faults>>
      BY Zenon, <1>2 DEF DeleteCheck, PCs, external
    <2>2. Exists' /\ row'.status # "deprovision" => Busy("delete")'
      BY Zenon, Known DEF Busy
    <2>3. Exists' /\ row'.status # "deprovision"
      BY Zenon, <1>2, <2>1 DEF DeleteCheck, MayUpdateStatus, Exists
    <2> QED
      BY Zenon, <2>1, <2>2, <2>3, BeginStep, Known
  <1>3. ASSUME NEW op \in {"edit", "suspend", "resume"}, AdminRead(op) PROVE SerialStep
    <2>1. Begin("admin", op) /\ op \in PCs /\ UNCHANGED <<row, cr, sa, dns, faults>>
      BY Zenon, <1>3 DEF AdminRead, PCs, external
    <2>2. /\ Exists' /\ (op = "suspend" => row'.status = "ready")
          /\ (op = "resume" => row'.status = "suspended")
      BY Zenon, <1>3, <2>1, ExistsLive DEF AdminRead, Exists, SerialInv, IInv
    <2>3. pc'["admin"] = op /\ snap'["admin"] = row' => Busy("admin")'
      BY Zenon, <2>2, Known DEF Busy
    <2> QED
      BY Zenon, <2>1, <2>3, BeginStep, Known
  <1>4. ASSUME NEW c \in Clusters, NEW rep \in PCs, ReceiveReport(c, rep) PROVE SerialStep
    <2>1. Begin(c, rep) /\ UNCHANGED <<row, cr, sa, dns, faults>>
      BY Zenon, <1>4 DEF ReceiveReport, external
    <2>2. Exists /\ row.cluster = c /\ cr[c] # "none" /\ Relevant(rep)
      BY Zenon, <1>4 DEF ReceiveReport, Reports
    <2>3. row.host
      BY Zenon, <2>2, ClustersAssumption DEF SerialInv, RowInv
    <2>4. rep \in {"ready", "installing", "error", "rejected", "full"}
          \/ (rep \in {"suspended", "deleted"} /\ rep = cr[c])
      BY Zenon, <1>4 DEF ReceiveReport, Reports
    <2>5. /\ rep = "ready" => row.status \notin SuspendedStatuses
          /\ rep = "error" => row.status \notin SuspendedStatuses \cup {"failed"}
          /\ rep = "full" => row.status = "provisioning"
          /\ rep = "suspended" => row.status = "suspending"
      BY Zenon, <2>2 DEF Relevant
    <2>6. rep = "deleted" => row.status \in kafkaDeletionStatuses
      BY Zenon, <2>2, <2>4 DEF SerialInv, RowInv, Exists
    <2>7. rep \notin {"deleting", "suspendedWrite"}
      BY Zenon, <2>4
    <2>8. Exists' /\ row'.cluster = c /\ row'.host /\ row' = row
      BY ZenonT(40), <2>1, <2>2, <2>3 DEF Exists
    <2>9. pc'[c] = rep /\ snap'[c] = row' => Busy(c)'
      BY Zenon, <2>5, <2>6, <2>7, <2>8, Known DEF Busy, AgentKnows
    <2> QED
      BY Zenon, <2>1, <2>9, BeginStep, Known
  <1> QED
    BY Zenon, <1>1, <1>2, <1>3, <1>4 DEF EndpointCalled

\* An agent polls: it learns only of Kafkas with a host.
LEMMA FetchStep ==
    ASSUME SerialInv, NEW c \in Clusters, FetchKafka(c)
    PROVE  SerialStep
  <1>1. UNCHANGED <<row, sub, sa, dns, pc, snap, faults>> /\ cr' = [cr EXCEPT ![c] = ManagedKafka(c)]
    BY Zenon DEF FetchKafka, external
  <1>2. cr \in [Clusters -> {"none", "live", "suspended", "deleted"}]
    BY Zenon DEF SerialInv, IInv, TypeOK
  <1>3. cr'[c] = ManagedKafka(c) /\ \A d \in Clusters \ {c} : cr'[d] = cr[d]
    BY ZenonT(40), <1>1, <1>2
  <1>4. ManagedKafka(c) # "none" => /\ row.cluster = c /\ row.host
                                    /\ row.status \notin EarlyStatuses
                                    /\ ManagedKafka(c) = "deleted" => row.status = "deprovision"
    BY DEF ManagedKafka, kafkaManagedCRStatuses, EarlyStatuses, SuspendedStatuses
  <1>5. RowInv'
    <2>1. \A d \in Clusters :
              \/ cr'[d] = cr[d]
              \/ cr'[d] = "none"
              \/ /\ row.host /\ row.status \notin EarlyStatuses
                 /\ cr'[d] = "deleted" => row.status \in kafkaDeletionStatuses
      BY Zenon, <1>3, <1>4 DEF kafkaDeletionStatuses
    <2>2. row' = row
      BY Zenon, <1>1
    <2> QED
      BY Zenon, <2>1, <2>2 DEF SerialInv, RowInv
  <1>6. Alone' /\ RecordsInv' /\ CleanInv' /\ LifeStep
    BY <1>1 DEF SerialInv, Alone, RecordsInv, CleanInv, LifeStep, UnderDeletion, Exists
  <1>7. BusyInv'
    <2>2. row' = row /\ sa' = sa /\ dns' = dns /\ pc' = pc /\ snap' = snap /\ faults' = faults
      BY Zenon, <1>1
    <2>1. Exists' = Exists /\ UnderDeletion' = UnderDeletion
      BY Zenon, <2>2 DEF Exists, UnderDeletion
    <2>3. CnameKnows => CnameKnows'
      BY Zenon, <2>1, <2>2 DEF CnameKnows
    <2>4. KafkasKnows => KafkasKnows'
      BY Zenon, <2>1, <2>2 DEF KafkasKnows
    <2>5. DeletingKnows => DeletingKnows'
      BY ZenonT(40), <2>1, <2>2 DEF DeletingKnows
    <2>6. ASSUME NEW h \in Handlers, AgentKnows(h) PROVE AgentKnows(h)'
      BY Zenon, <2>1, <2>2, <2>6 DEF AgentKnows
    <2>7. ASSUME NEW h \in Handlers, Busy(h) PROVE Busy(h)'
      BY Zenon, <2>1, <2>2, <2>3, <2>4, <2>5, <2>6, <2>7 DEF Busy
    <2> QED
      BY Zenon, <2>2, <2>7 DEF SerialInv, BusyInv
  <1> QED
    BY Zenon, <1>5, <1>6, <1>7 DEF SerialStep

-----------------------------------------------------------------------------
(* The steps of the workers that write the row.                            *)

\* A handler writes the row and ends.
LEMMA RowStep ==
    ASSUME SerialInv, NEW h \in Handlers, pc[h] # "idle", Finish(h),
           UNCHANGED <<cr, sa, dns>>, faults' = faults \/ Fault,
           row.canary => row'.canary, row'.status # "deleted",
           h \in {"preparing", "ready"} /\ pc[h] = "write" => row'.canary \/ Fault,
           RowInv', RecordsInv', LifeStep
    PROVE  SerialStep
  <1>1. Alone' /\ BusyInv' /\ \A g \in Handlers \ {h} : pc[g] = "idle"
    BY Zenon, Ended
  <1>2. \A g \in {"preparing", "ready"} : pc[g] = "write" => row'.canary \/ Fault
    BY Zenon, <1>1, Known
  <1>3. CleanInv'
    BY Zenon, <1>2, CleanKept
  <1> QED
    BY Zenon, <1>1, <1>3 DEF SerialStep

\* What is known of the row survives a write of the status, the cluster and
\* the host that leaves no cluster without a host, unless it was so before.
LEMMA RowWritten ==
    ASSUME SerialInv, ~UnderDeletion, UNCHANGED <<cr, dns>>,
           row'.status \notin EarlyStatuses,
           row'.host => row'.cluster # None,
           \/ row.status \in EarlyStatuses
           \/ row'.cluster # None => row'.host
           \/ row'.cluster = row.cluster /\ row'.host = row.host,
           row'.routes = row.routes, row'.rcid = row.rcid, row'.rcreated = row.rcreated
    PROVE  RowInv' /\ RecordsInv'
  <1>1. cr' = cr /\ dns' = dns
    BY Zenon
  <1>2. \A c \in Clusters : /\ cr[c] # "none" => (row'.cluster # None => row'.host)
                            /\ cr[c] # "deleted"
    <2>1. \A c \in Clusters : cr[c] # "deleted"
      BY Zenon DEF SerialInv, RowInv, UnderDeletion, Exists
    <2>2. \A c \in Clusters : cr[c] # "none" => (row.cluster # None => row.host)
      BY Zenon DEF SerialInv, RowInv
    <2>3. row.status \in EarlyStatuses => \A c \in Clusters : cr[c] = "none"
      BY Zenon DEF SerialInv, RowInv
    <2> QED
      BY ZenonT(40), <2>1, <2>2, <2>3
  <1>3. RowInv'
    BY Zenon, <1>1, <1>2 DEF RowInv, EarlyStatuses
  <1>4. RecordsInv'
    BY Zenon, <1>1 DEF SerialInv, RecordsInv
  <1> QED
    BY Zenon, <1>3, <1>4

\* The worker for accepted Kafkas.
LEMMA AcceptedStep ==
    ASSUME SerialInv, AcceptedAssign \/ AcceptedFails
    PROVE  SerialStep
  <1> DEFINE h == "accepted"
  <1>1. /\ pc[h] # "idle" /\ Finish(h) /\ UNCHANGED <<cr, sa, dns, faults>>
    BY Zenon DEF AcceptedAssign, AcceptedFails, external
  <1>2. snap[h] = row /\ row.status = "accepted"
    BY Zenon, <1>1, Known, Knows DEF Busy
  <1>3. /\ row \in KafkaRequest /\ row.cluster \in Clusters \cup {None}
        /\ row.host \in BOOLEAN /\ None \notin Clusters
    BY Zenon, FieldTypes, ClustersAssumption DEF SerialInv, IInv, TypeOK
  <1>4. PICK c \in Clusters \cup {None}, s \in {"preparing", "failed"} :
            /\ row.cluster = None \/ c = row.cluster
            /\ s = "preparing" => c # None
            /\ Update(WithStatus(Placed(row, c, row.host), s))
    <2>1. Placements(row) \subseteq Clusters
      BY Zenon, <1>3 DEF Placements
    <2>2. \A c \in Placements(row) \cup {row.cluster} : row.cluster = None \/ c = row.cluster
      BY Zenon DEF Placements
    <2>3. CASE AcceptedAssign
      <3>1. PICK c \in Placements(row) : Update(WithStatus(Placed(row, c, row.host), "preparing"))
        BY Zenon, <2>3, <1>2 DEF AcceptedAssign
      <3> QED
        BY Zenon, <3>1, <2>1, <2>2, <1>3
    <2>4. CASE AcceptedFails
      <3>1. PICK c \in Placements(row) \cup {row.cluster} :
                Update(WithStatus(Placed(row, c, row.host), "failed"))
        BY Zenon, <2>4, <1>2 DEF AcceptedFails
      <3>2. c \in Clusters \cup {None}
        BY Zenon, <3>1, <2>1, <1>3
      <3> QED
        BY Zenon, <3>1, <3>2, <2>2
    <2> QED
      BY Zenon, <2>3, <2>4
  <1>5. row' = WithStatus(Placed(row, c, row.host), s)
    <2>1. ~UnderDeletion
      BY Zenon, <1>2 DEF UnderDeletion, Exists, kafkaDeletionStatuses
    <2>2. Placed(row, c, row.host) \in KafkaRequest
      BY Zenon, <1>3, BuilderTypes
    <2>3. s \in Statuses
      BY Zenon DEF Statuses, LiveStatuses, UpdateableStatuses
    <2>4. WithStatus(Placed(row, c, row.host), s) \in KafkaRequest
      BY Zenon, <2>2, <2>3, BuilderTypes
    <2> QED
      BY Zenon, <1>3, <1>4, <2>1, <2>4, OwnCopy, CopyWritten
  <1>6. /\ row'.status = s /\ row'.cluster = c /\ row'.host = row.host
        /\ row'.canary = row.canary /\ row'.routes = row.routes
        /\ row'.rcid = row.rcid /\ row'.rcreated = row.rcreated
    BY Zenon, <1>5 DEF WithStatus, Placed
  <1>7. /\ ~row.host /\ row.routes = None /\ ~row.rcreated
        /\ ~row.canary /\ \A d \in Clusters : cr[d] = "none"
    BY Zenon, <1>2 DEF SerialInv, RowInv, EarlyStatuses
  <1>8. RowInv'
    <2>1. cr' = cr /\ ~row'.host /\ row'.routes = None /\ ~row'.rcreated /\ ~row'.canary
      BY ZenonT(40), <1>1, <1>6, <1>7
    <2> QED
      BY Zenon, <2>1, <1>4, <1>6, <1>7 DEF RowInv
  <1>9. RecordsInv'
    <2>1. dns' = dns /\ ~UnderDeletion
      BY Zenon, <1>1, <1>2 DEF UnderDeletion, Exists, kafkaDeletionStatuses
    <2> QED
      BY Zenon, <2>1, <1>6 DEF SerialInv, RecordsInv
  <1>10. LifeStep
    BY Zenon, <1>2, <1>6 DEF LifeStep, Lifecycle!Next, Lifecycle!Place, Lifecycle!Fail, Lifecycle!Move
  <1>11. row'.status # "deleted" /\ h \in Handlers
    BY Zenon, <1>6, Known
  <1> QED
    BY Zenon, <1>1, <1>6, <1>8, <1>9, <1>10, <1>11, RowStep

\* The workers that make the canary account, and have still to save it.
LEMMA AccountStep ==
    ASSUME SerialInv, PrepareCanary \/ ReadyCanary
    PROVE  SerialStep
  <1> DEFINE r(h) == IF h = "preparing" THEN WithCanary(Placed(snap[h], snap[h].cluster, TRUE))
                     ELSE WithCanary(snap[h])
  <1>1. PICK h \in {"preparing", "ready"} :
            /\ pc[h] = "act" /\ Goto(h, "write") /\ Hold(h, r(h))
            /\ UNCHANGED <<row, cr, dns, faults>>
    BY Zenon DEF PrepareCanary, ReadyCanary
  <1>2. h \in Handlers /\ h \notin Clusters /\ pc[h] # "idle" /\ "write" \in PCs
    BY Zenon, <1>1, Known DEF PCs
  <1>3. /\ snap[h] = row /\ Exists /\ row.status # "deleted"
        /\ h = "preparing" => row.status = "preparing"
        /\ h = "ready" => row.status = "ready"
    BY Zenon, <1>1, <1>2, Knows DEF Busy, Exists
  <1>4. pc'[h] = "write" /\ snap'[h] = r(h)
    BY ZenonT(40), <1>1, <1>2 DEF SerialInv, IInv, TypeOK, Goto, Hold
  <1>5. row' = row /\ (Exists <=> Exists')
    BY Zenon, <1>1 DEF Exists
  <1>6. Busy(h)'
    <2>1. pc'[h] # "act" /\ row'.status = row.status
      BY Zenon, <1>4, <1>5
    <2>2. /\ h = "preparing" => snap'[h] = WithCanary(Placed(row', row'.cluster, TRUE))
          /\ h = "ready" => snap'[h] = WithCanary(row')
      BY Zenon, <1>1, <1>3, <1>4, <1>5
    <2>3. h = "preparing" => Busy(h)'
      BY Zenon, <1>2, <1>3, <1>5, <2>1, <2>2 DEF Busy
    <2>4. h = "ready" => Busy(h)'
      BY Zenon, <1>2, <1>3, <1>5, <2>1, <2>2 DEF Busy
    <2> QED
      BY Zenon, <2>3, <2>4
  <1>7. Alone' /\ BusyInv'
    BY Zenon, <1>1, <1>2, <1>6, GoesOn
  <1>8. RowInv' /\ RecordsInv' /\ LifeStep
    BY Zenon, <1>1, Untouched
  <1>9. CleanInv'
    <2>1. pc'["preparing"] = "write" \/ pc'["ready"] = "write"
      BY Zenon, <1>4
    <2> QED
      BY Zenon, <2>1, <1>3, <1>5 DEF CleanInv
  <1> QED
    BY Zenon, <1>7, <1>8, <1>9 DEF SerialStep

\* The preparation: the account is saved, with the host, or it fails.
LEMMA PreparedStep ==
    ASSUME SerialInv, PrepareWrite \/ PrepareFails
    PROVE  SerialStep
  <1> DEFINE h == "preparing"
  <1>1. /\ pc[h] # "idle" /\ Finish(h) /\ UNCHANGED <<cr, sa, dns>>
        /\ (faults' = faults \/ Fault) /\ h \in Handlers
    BY Zenon, Known DEF PrepareWrite, PrepareFails, external
  <1>2. /\ row.status = "preparing"
        /\ snap[h] = row \/ snap[h] = WithCanary(Placed(row, row.cluster, TRUE))
    BY Zenon, <1>1, Known, Knows DEF Busy
  <1>3. /\ row \in KafkaRequest /\ snap[h] \in KafkaRequest
        /\ row.host \in BOOLEAN /\ row.canary \in BOOLEAN
        /\ row.rcid \in BOOLEAN /\ row.rcreated \in BOOLEAN
    BY Zenon, <1>1, FieldTypes DEF SerialInv, IInv, TypeOK
  <1>4. ~UnderDeletion /\ row.status \in EarlyStatuses
    BY Zenon, <1>2 DEF UnderDeletion, Exists, kafkaDeletionStatuses, EarlyStatuses
  <1>5. ~row.host /\ row.cluster # None
    BY Zenon, <1>2, <1>4 DEF SerialInv, RowInv
  <1>6. /\ snap[h].cluster = row.cluster /\ snap[h].routes = row.routes
        /\ snap[h].rcid = row.rcid /\ snap[h].rcreated = row.rcreated
        /\ row.canary => snap[h].canary
    BY <1>2 DEF WithCanary, Placed
  <1>7. CASE PrepareWrite
    <2>1. row' = NonZeroFields(row, WithCanary(WithStatus(Placed(NoRequest, None, TRUE), "provisioning")))
      BY ZenonT(40), <1>4, <1>7 DEF PrepareWrite, Update
    <2>2. /\ row'.status = "provisioning" /\ row'.cluster = row.cluster
          /\ row'.host = TRUE /\ row'.canary = TRUE /\ row'.routes = row.routes
          /\ row'.rcid = row.rcid /\ row'.rcreated = row.rcreated
      BY ZenonT(40), <1>3, <2>1 DEF NonZeroFields, WithCanary, WithStatus, Placed, NoRequest
    <2>3. RowInv' /\ RecordsInv'
      BY ZenonT(40), <1>1, <1>4, <1>5, <2>2, RowWritten DEF EarlyStatuses
    <2>4. LifeStep
      BY Zenon, <1>2, <2>2 DEF LifeStep, Lifecycle!Next, Lifecycle!Provision
    <2>5. row'.canary /\ row'.status # "deleted"
      BY <2>2
    <2> QED
      BY Zenon, <1>1, <2>3, <2>4, <2>5, RowStep
  <1>8. CASE PrepareFails
    <2>1. PICK b \in BOOLEAN :
              Update(WithStatus(Placed(snap[h], snap[h].cluster, b \/ snap[h].host), "failed"))
      BY ZenonT(40), <1>8 DEF PrepareFails
    <2> DEFINE s == WithStatus(Placed(snap[h], snap[h].cluster, b \/ snap[h].host), "failed")
    <2>2. /\ s.status = "failed" /\ s.cluster = row.cluster /\ s.host \in BOOLEAN
          /\ s.canary = snap[h].canary /\ s.routes = row.routes
          /\ s.rcid = row.rcid /\ s.rcreated = row.rcreated
      BY Zenon, <1>6 DEF WithStatus, Placed
    <2>3. s \in KafkaRequest
      <3>1. snap[h].cluster \in Clusters \cup {None} /\ (b \/ snap[h].host) \in BOOLEAN
        BY ZenonT(40), <1>3, FieldTypes
      <3>2. Placed(snap[h], snap[h].cluster, b \/ snap[h].host) \in KafkaRequest
        BY ZenonT(40), <1>3, <3>1, BuilderTypes
      <3> QED
        BY Zenon, <3>2, BuilderTypes, StatusTypes
    <2>4. Fuller(s)
      BY Zenon, <1>5, <1>6, <2>2 DEF Fuller
    <2>5. row' = s
      BY Zenon, <1>3, <1>4, <2>1, <2>3, <2>4, CopyWritten
    <2>6. RowInv' /\ RecordsInv'
      <3>1. row'.status \notin EarlyStatuses /\ (row'.host => row'.cluster # None)
        BY Zenon, <2>2, <2>5, <1>5 DEF EarlyStatuses
      <3> QED
        BY Zenon, <3>1, <1>1, <1>4, <2>2, <2>5, RowWritten
    <2>7. LifeStep
      <3>1. /\ row'.status = "failed" /\ row'.rcreated = row.rcreated
            /\ row'.host \in {row.host, row.status = "preparing" \/ row.host}
        BY ZenonT(40), <1>2, <1>3, <1>5, <2>2, <2>5
      <3> QED
        BY ZenonT(40), <3>1, <1>2 DEF LifeStep, Lifecycle!Next, Lifecycle!Fail
    <2>8. (row.canary => row'.canary) /\ row'.status # "deleted" /\ Fault
      BY Zenon, <1>6, <1>8, <2>2, <2>5 DEF PrepareFails
    <2> QED
      BY Zenon, <1>1, <2>6, <2>7, <2>8, RowStep
  <1> QED
    BY Zenon, <1>7, <1>8

\* A Kafka that a full cluster gave back is placed again.
LEMMA ReassignStep ==
    ASSUME SerialInv, ProvisioningReassign
    PROVE  SerialStep
  <1> DEFINE h == "provisioning"
  <1>1. /\ pc[h] # "idle" /\ Finish(h) /\ UNCHANGED <<cr, sa, dns, faults>> /\ h \in Handlers
    BY Zenon, Known DEF ProvisioningReassign, external
  <1>2. snap[h] = row /\ row.status = "provisioning" /\ row.cluster = None
    BY Zenon, <1>1, Known, Knows DEF Busy
  <1>3. row \in KafkaRequest /\ row.host \in BOOLEAN /\ ~row.host
    BY Zenon, <1>2, FieldTypes DEF SerialInv, IInv, TypeOK, RowInv
  <1>4. PICK c \in Clusters : Update(Placed(row, c, TRUE))
    BY Zenon, <1>2 DEF ProvisioningReassign
  <1>5. ~UnderDeletion
    BY Zenon, <1>2 DEF UnderDeletion, Exists, kafkaDeletionStatuses
  <1>6. row' = Placed(row, c, TRUE)
    <2>1. Placed(row, c, TRUE) \in KafkaRequest
      BY Zenon, <1>3, BuilderTypes
    <2> QED
      BY Zenon, <1>2, <1>3, <1>4, <1>5, <2>1, OwnCopy, CopyWritten
  <1>7. /\ row'.status = "provisioning" /\ row'.cluster = c /\ row'.host = TRUE
        /\ row'.canary = row.canary /\ row'.routes = row.routes
        /\ row'.rcid = row.rcid /\ row'.rcreated = row.rcreated
    BY Zenon, <1>2, <1>6 DEF Placed
  <1>8. RowInv' /\ RecordsInv'
    BY ZenonT(40), <1>1, <1>5, <1>7, RowWritten, ClustersAssumption DEF EarlyStatuses
  <1>9. LifeStep
    <2>1. row'.host = ~row.host
      BY Zenon, <1>3, <1>7
    <2> QED
      BY Zenon, <1>2, <1>7, <2>1 DEF LifeStep, Lifecycle!Next, Lifecycle!Reassign
  <1> QED
    BY Zenon, <1>1, <1>7, <1>8, <1>9, RowStep

\* The account of a ready Kafka is saved.
LEMMA SaveReady ==
    ASSUME SerialInv, SaveRequest("ready")
    PROVE  SerialStep
  <1> DEFINE h == "ready"
  <1>1. /\ pc[h] = "write" /\ pc[h] # "idle" /\ Finish(h) /\ Update(snap[h])
        /\ UNCHANGED <<cr, sa, dns, faults>> /\ h \in Handlers
    BY Zenon, Known DEF SaveRequest, external
  <1>2. row.status = "ready" /\ snap[h] = WithCanary(row)
    BY Zenon, <1>1, Known, Knows DEF Busy
  <1>3. row \in KafkaRequest /\ snap[h] \in KafkaRequest
    BY Zenon, <1>1 DEF SerialInv, IInv, TypeOK
  <1>4. ~UnderDeletion
    BY Zenon, <1>2 DEF UnderDeletion, Exists, kafkaDeletionStatuses
  <1>5. row' = WithCanary(row)
    BY Zenon, <1>1, <1>2, <1>3, <1>4, OwnCopy, CopyWritten
  <1>6. /\ row'.status = row.status /\ row'.cluster = row.cluster /\ row'.host = row.host
        /\ row'.canary = TRUE /\ row'.routes = row.routes
        /\ row'.rcid = row.rcid /\ row'.rcreated = row.rcreated
    BY Zenon, <1>5 DEF WithCanary
  <1>7. row'.host => row'.cluster # None
    BY Zenon, <1>6 DEF SerialInv, RowInv
  <1>8. row'.status \notin EarlyStatuses /\ row'.status # "deleted" /\ row'.canary
    BY ZenonT(40), <1>2, <1>6 DEF EarlyStatuses
  <1>9. RowInv' /\ RecordsInv'
    BY Zenon, <1>1, <1>4, <1>6, <1>7, <1>8, RowWritten
  <1>10. LifeStep
    BY Zenon, <1>6 DEF LifeStep
  <1> QED
    BY Zenon, <1>1, <1>8, <1>9, <1>10, RowStep

\* The records are created or polled.
LEMMA RecordsStep ==
    ASSUME SerialInv, CnameCreate \/ CnamePoll
    PROVE  SerialStep
  <1> DEFINE h == "cname"
  <1>1. /\ pc[h] = "act" /\ pc[h] # "idle" /\ Goto(h, "write")
        /\ UNCHANGED <<row, cr, sa, faults>> /\ h \in Handlers /\ "write" \in PCs
    BY Zenon, Known DEF CnameCreate, CnamePoll, external, PCs
  <1>2. snap[h] = row /\ Exists /\ row.routes # None /\ ~row.rcreated
    BY Zenon, <1>1, Known, Knows DEF Busy, CnameKnows
  <1>3. row \in KafkaRequest /\ row.rcid \in BOOLEAN
    BY Zenon, FieldTypes DEF SerialInv, IInv, TypeOK
  <1>4. PICK id \in BOOLEAN, insync \in BOOLEAN :
            /\ row.rcid => id
            /\ Hold(h, WithRecords(row, id, insync))
            /\ \/ CNAMERegistration /\ dns' = row.routes
               \/ dns' = dns /\ (CNAMERegistration => row.rcid)
    <2>1. CASE CnameCreate
      BY Zenon, <1>2, <2>1 DEF CnameCreate
    <2>2. CASE CnamePoll
      <3>1. PICK insync \in BOOLEAN : Hold(h, WithRecords(row, row.rcid, insync))
        BY Zenon, <1>2, <2>2 DEF CnamePoll
      <3>2. dns' = dns /\ (CNAMERegistration => row.rcid)
        BY Zenon, <1>2, <2>2 DEF CnamePoll, external
      <3> QED
        BY Zenon, <1>3, <3>1, <3>2
    <2> QED
      BY Zenon, <2>1, <2>2
  <1>5. pc'[h] = "write" /\ snap'[h] = WithRecords(row', id, insync) /\ row' = row
    BY ZenonT(40), <1>1, <1>4 DEF SerialInv, IInv, TypeOK, Goto, Hold
  <1>6. (Exists <=> Exists') /\ (UnderDeletion <=> UnderDeletion')
    BY Zenon, <1>5 DEF Exists, UnderDeletion
  <1>7. CNAMERegistration /\ ~UnderDeletion => dns' = row.routes
    BY Zenon, <1>4 DEF SerialInv, RecordsInv
  <1>8. RecordsInv'
    BY Zenon, <1>4, <1>5, <1>6, <1>7 DEF SerialInv, RecordsInv
  <1>9. RowInv' /\ LifeStep
    BY Zenon, <1>1, <1>5 DEF SerialInv, RowInv, LifeStep
  <1>10. CleanInv'
    <2>1. pc["preparing"] = "idle" /\ pc["ready"] = "idle"
      BY Zenon, <1>1, Known DEF SerialInv, Alone
    <2>2. faults' = 0 /\ sa' => row'.canary
      BY ZenonT(40), <1>1, <1>5, <2>1 DEF SerialInv, CleanInv
    <2> QED
      BY Zenon, <1>2, <1>5, <2>2 DEF CleanInv, Exists
  <1>11. Busy(h)'
    <2>1. row'.routes # None /\ ~row'.rcreated /\ (row'.rcid => id)
      BY Zenon, <1>2, <1>4, <1>5
    <2>2. CnameKnows'
      BY Zenon, <1>5, <1>6, <1>7, <2>1 DEF CnameKnows
    <2> QED
      BY Zenon, <1>2, <1>6, <2>2, Known DEF Busy
  <1>12. Alone' /\ BusyInv'
    BY Zenon, <1>1, <1>11, GoesOn
  <1> QED
    BY Zenon, <1>8, <1>9, <1>10, <1>12 DEF SerialStep

\* What is known of the records is saved.
LEMMA SaveRecords ==
    ASSUME SerialInv, SaveRequest("cname")
    PROVE  SerialStep
  <1> DEFINE h == "cname"
  <1>1. /\ pc[h] = "write" /\ pc[h] # "idle" /\ Finish(h) /\ Update(snap[h])
        /\ UNCHANGED <<cr, sa, dns, faults>> /\ h \in Handlers
    BY Zenon, Known DEF SaveRequest, external
  <1>2. CnameKnows /\ Exists
    BY Zenon, <1>1, Known, Knows DEF Busy
  <1>3. /\ row \in KafkaRequest /\ snap[h] \in KafkaRequest
        /\ row.rcreated \in BOOLEAN /\ row.status \in Statuses
    BY Zenon, <1>1, FieldTypes DEF SerialInv, IInv, TypeOK
  <1>4. CASE UnderDeletion
    <2>1. row' = row
      BY Zenon, <1>1, <1>4 DEF Update
    <2> QED
      BY Zenon, <1>1, <2>1, EndStep
  <1>5. CASE ~UnderDeletion
    <2>1. PICK id \in BOOLEAN, created \in BOOLEAN :
              (row.rcid => id) /\ snap[h] = WithRecords(row, id, created)
      BY Zenon, <1>1, <1>2 DEF CnameKnows
    <2>2. row' = WithRecords(row, id, created)
      <3>1. ~row.rcreated
        BY Zenon, <1>2 DEF CnameKnows
      <3>2. Fuller(snap[h])
        BY <2>1, <3>1 DEF Fuller, WithRecords
      <3> QED
        BY Zenon, <1>1, <1>3, <1>5, <2>1, <3>2, CopyWritten
    <2>3. /\ row'.status = row.status /\ row'.cluster = row.cluster /\ row'.host = row.host
          /\ row'.canary = row.canary /\ row'.routes = row.routes
          /\ row'.rcid = id /\ row'.rcreated = created
      BY ZenonT(40), <2>2 DEF WithRecords
    <2>4. row.status \notin EarlyStatuses
      BY Zenon, <1>2 DEF CnameKnows, SerialInv, RowInv
    <2>5. RowInv'
      BY Zenon, <1>1, <2>3, <2>4 DEF SerialInv, RowInv
    <2>6. RecordsInv'
      BY Zenon, <1>1, <1>2, <1>5, <2>3 DEF SerialInv, RecordsInv, CnameKnows
    <2>7. LifeStep
      <3>1. row.status \in {"provisioning", "ready", "failed", "suspending", "suspended", "resuming"}
        BY Zenon, <1>3, <1>5, <2>4 DEF UnderDeletion, Exists, EarlyStatuses, Statuses,
                                       LiveStatuses, UpdateableStatuses, kafkaDeletionStatuses
      <3>2. row'.rcreated = TRUE \/ row'.rcreated = row.rcreated
        BY Zenon, <1>2, <1>3, <2>3 DEF CnameKnows
      <3> QED
        BY Zenon, <2>3, <3>1, <3>2 DEF LifeStep, Lifecycle!Next, Lifecycle!Expose
    <2>8. (row.canary => row'.canary) /\ row'.status # "deleted"
      BY ZenonT(40), <1>2, <2>3 DEF Exists
    <2> QED
      BY Zenon, <1>1, <2>5, <2>6, <2>7, <2>8, RowStep
  <1> QED
    BY Zenon, <1>4, <1>5

-----------------------------------------------------------------------------
(* The passes over all Kafkas and the deletion.                            *)

\* A handler writes a status and goes on.
LEMMA WriteOnStep ==
    ASSUME SerialInv, NEW h \in Handlers \ {"preparing", "ready"}, pc[h] # "idle",
           NEW p \in PCs, Goto(h, p),
           NEW s, Follows(s), s # "deleted", row' = WithStatus(row, s),
           UNCHANGED <<cr, sa, dns, faults>>,
           pc'[h] = p => Busy(h)'
    PROVE  SerialStep
  <1>1. /\ Alone' /\ BusyInv' /\ \A g \in Handlers \ {h} : pc[g] = "idle"
    BY Zenon, GoesOn
  <1>2. pc["preparing"] # "write" /\ pc["ready"] # "write"
    BY Zenon, <1>1, Known
  <1> QED
    BY Zenon, <1>1, <1>2, StatusStep DEF SerialStep

\* Denied owners, grace periods and expiry.
LEMMA PassStep ==
    ASSUME SerialInv,
           DenyOwners \/ SuspendCheck \/ SuspendWrite \/ ExpireList \/ ExpireWrite
    PROVE  SerialStep
  <1> DEFINE h == "kafkas"
  <1>1. h \in Handlers \ {"preparing", "ready"} /\ pc[h] # "idle" /\ UNCHANGED <<cr, sa, dns, faults>>
    BY Zenon, Known DEF DenyOwners, SuspendCheck, SuspendWrite, ExpireList, ExpireWrite, external
  <1>2. Exists /\ KafkasKnows
    BY Zenon, <1>1, Known, Knows DEF Busy
  <1>3. Exists' /\ KafkasKnows' => Busy(h)'
    BY Zenon, Known DEF Busy
  <1>4. {"suspend", "suspending", "expire", "expired"} \subseteq PCs
    BY Zenon DEF PCs
  <1>5. row' = row => (Exists <=> Exists') /\ (UnderDeletion <=> UnderDeletion')
    BY Zenon DEF Exists, UnderDeletion
  <1>6. ASSUME DenyOwners PROVE SerialStep
    <2>1. /\ pc[h] = "deny" /\ Goto(h, "suspend") /\ snap' = snap
          /\ row' = row \/ (~UnderDeletion /\ row' = WithStatus(row, "deprovision"))
      BY Zenon, <1>6 DEF DenyOwners, Updates
    <2>2. snap[h] = row
      BY Zenon, <1>2, <2>1 DEF KafkasKnows
    <2>3. CASE row' = row
      <3>1. pc'[h] = "suspend" => Busy(h)'
        BY Zenon, <1>2, <1>3, <1>5, <2>1, <2>2, <2>3 DEF KafkasKnows
      <3> QED
        BY Zenon, <1>1, <1>4, <2>1, <2>3, <3>1, StayStep
    <2>4. CASE ~UnderDeletion /\ row' = WithStatus(row, "deprovision")
      <3>1. row'.status = "deprovision"
        BY ZenonT(40), <2>4 DEF WithStatus
      <3>2. pc'[h] = "suspend" => Busy(h)'
        BY Zenon, <1>3, <3>1 DEF KafkasKnows, Exists
      <3>3. Follows("deprovision")
        BY Zenon, <2>4 DEF Follows, UnderDeletion, kafkaDeletionStatuses
      <3> QED
        BY Zenon, <1>1, <1>4, <2>1, <2>4, <3>2, <3>3, WriteOnStep
    <2> QED
      BY Zenon, <2>1, <2>3, <2>4
  <1>7. ASSUME SuspendCheck PROVE SerialStep
    <2>1. pc[h] = "suspend" /\ row' = row /\ snap' = snap
      BY Zenon, <1>7 DEF SuspendCheck
    <2>2. PICK p \in {"suspending", "expire"} :
              /\ Goto(h, p)
              /\ p = "suspending" => /\ snap[h].status \in CanBeAutomaticallySuspended
                                     /\ MayUpdateStatus("suspending")
      BY Zenon, <1>7 DEF SuspendCheck
    <2>3. p = "suspending" => row.status \in CanBeAutomaticallySuspended
      BY Zenon, <1>2, <2>1, <2>2 DEF KafkasKnows, MayUpdateStatus
    <2>4. pc'[h] = p => Busy(h)'
      BY Zenon, <1>2, <1>3, <1>5, <2>1, <2>2, <2>3 DEF KafkasKnows
    <2> QED
      BY Zenon, <1>1, <1>4, <2>1, <2>2, <2>4, StayStep
  <1>8. ASSUME SuspendWrite PROVE SerialStep
    <2>1. pc[h] = "suspending" /\ Goto(h, "expire") /\ row' = WithStatus(row, "suspending")
      BY Zenon, <1>2, <1>8 DEF SuspendWrite, WriteStatus
    <2>2. row'.status = "suspending"
      BY ZenonT(40), <2>1 DEF WithStatus
    <2>3. pc'[h] = "expire" => Busy(h)'
      BY Zenon, <1>3, <2>2 DEF KafkasKnows, Exists
    <2>4. Follows("suspending")
      BY Zenon, <1>2, <2>1 DEF Follows, KafkasKnows
    <2> QED
      BY Zenon, <1>1, <1>4, <2>1, <2>3, <2>4, WriteOnStep
  <1>9. ASSUME ExpireList PROVE SerialStep
    <2>1. row' = row
      BY Zenon, <1>9 DEF ExpireList
    <2>2. CASE Finish(h)
      BY Zenon, <1>1, <2>1, <2>2, EndStep
    <2>3. CASE ~UnderDeletion /\ Goto(h, "expired")
      <3>1. pc'[h] = "expired" => Busy(h)'
        BY Zenon, <1>2, <1>3, <1>5, <2>1, <2>3 DEF KafkasKnows
      <3> QED
        BY Zenon, <1>1, <1>4, <2>1, <2>3, <3>1, StayStep
    <2> QED
      BY Zenon, <1>9, <2>2, <2>3 DEF ExpireList
  <1>10. ASSUME ExpireWrite PROVE SerialStep
    <2>1. pc[h] = "expired" /\ Finish(h) /\ row' = WithStatus(row, "deprovision")
      BY Zenon, <1>2, <1>10 DEF ExpireWrite, WriteStatus
    <2>2. Follows("deprovision")
      BY Zenon, <1>2, <2>1 DEF Follows, KafkasKnows, UnderDeletion, kafkaDeletionStatuses
    <2> QED
      BY Zenon, <1>1, <2>1, <2>2, WriteStep
  <1> QED
    BY Zenon, <1>6, <1>7, <1>8, <1>9, <1>10

\* The deletion gives back the quota, the account and the records, and
\* removes the row.
LEMMA DeletionStep ==
    ASSUME SerialInv, DeleteQuota \/ DeleteCanary \/ DeleteCnames \/ RemoveRow
    PROVE  SerialStep
  <1> DEFINE h == "deleting"
  <1>1. h \in Handlers \ {"preparing", "ready"} /\ pc[h] # "idle" /\ UNCHANGED <<cr, faults>>
    BY Zenon, Known DEF DeleteQuota, DeleteCanary, DeleteCnames, RemoveRow
  <1>2. Exists /\ DeletingKnows
    BY Zenon, <1>1, Known, Knows DEF Busy
  <1>3. /\ snap[h] = row /\ UnderDeletion /\ row.status # "deleted"
        /\ row.status = "deleting" \/ (row.status = "deprovision" /\ ~row.host)
    BY Zenon, <1>2 DEF DeletingKnows, UnderDeletion, kafkaDeletionStatuses
  <1>4. Exists' /\ DeletingKnows' => Busy(h)'
    BY Zenon, Known DEF Busy
  <1>5. row' = row => (Exists <=> Exists') /\ (UnderDeletion <=> UnderDeletion')
    BY Zenon DEF Exists, UnderDeletion
  <1>6. pc["preparing"] = "idle" /\ pc["ready"] = "idle"
    BY Zenon, <1>1, Known DEF SerialInv, Alone
  <1>7. faults = 0 /\ sa => row.canary
    BY Zenon, <1>6 DEF SerialInv, CleanInv
  <1>8. {"sso", "dns", "remove"} \subseteq PCs
    BY Zenon DEF PCs
  <1>9. ASSUME DeleteQuota PROVE SerialStep
    <2>1. UNCHANGED <<row, cr, sa, dns, faults>> /\ row' = row /\ snap' = snap
      BY Zenon, <1>9 DEF DeleteQuota
    <2>2. PICK p \in {"sso", "remove"} : Goto(h, p) /\ (p = "remove" => row.cluster = None)
      BY Zenon, <1>3, <1>9 DEF DeleteQuota
    <2>3. pc'[h] = p => Busy(h)'
      BY Zenon, <1>2, <1>3, <1>4, <1>5, <2>1, <2>2 DEF DeletingKnows
    <2> QED
      BY Zenon, <1>1, <1>8, <2>1, <2>2, <2>3, StayStep
  <1>10. ASSUME DeleteCanary PROVE SerialStep
    <2>1. /\ UNCHANGED <<row, cr, dns>> /\ row' = row /\ snap' = snap
          /\ sa' = (sa /\ ~row.canary) /\ Goto(h, "dns")
      BY Zenon, <1>3, <1>10 DEF DeleteCanary
    <2>2. faults' = 0 => ~sa'
      BY Zenon, <1>1, <1>7, <2>1
    <2>3. Busy(h)' /\ Alone' /\ BusyInv'
      <3>1. pc'[h] = "dns"
        BY Zenon, <1>1, <1>8, <2>1, GoesOn
      <3>2. Busy(h)'
        BY Zenon, <1>2, <1>3, <1>4, <1>5, <2>1, <2>2, <3>1 DEF DeletingKnows
      <3> QED
        BY Zenon, <1>1, <1>8, <2>1, <3>2, GoesOn
    <2>4. CleanInv'
      BY Zenon, <1>3, <2>1, <2>2 DEF CleanInv
    <2> QED
      BY Zenon, <2>1, <2>3, <2>4, Untouched DEF SerialStep
  <1>11. ASSUME DeleteCnames PROVE SerialStep
    <2>1. /\ UNCHANGED <<row, cr, sa, faults>> /\ row' = row /\ pc[h] = "dns"
      BY Zenon, <1>11 DEF DeleteCnames
    <2>2. dns \in {None, row.routes} /\ (row.routes = None \/ ~CNAMERegistration => dns = None)
      BY Zenon DEF SerialInv, RecordsInv
    <2>3. dns' = None /\ Goto(h, "remove") /\ snap' = snap
      BY Zenon, <1>3, <1>11, <2>2 DEF DeleteCnames
    <2>4. pc'[h] = "remove"
      BY Zenon, <1>1, <1>8, <2>3, GoesOn
    <2>5. row.cluster # None => (faults' = 0 => ~sa')
      BY ZenonT(40), <1>2, <2>1 DEF DeletingKnows
    <2>6. DeletingKnows'
      BY Zenon, <1>3, <2>1, <2>3, <2>4, <2>5 DEF DeletingKnows
    <2>7. Alone' /\ BusyInv'
      BY Zenon, <1>1, <1>2, <1>4, <1>5, <1>8, <2>1, <2>3, <2>6, GoesOn
    <2>8. RecordsInv'
      BY Zenon, <1>3, <1>5, <2>1, <2>3 DEF SerialInv, RecordsInv
    <2>9. RowInv' /\ LifeStep
      BY Zenon, <2>1 DEF SerialInv, RowInv, LifeStep
    <2>10. CleanInv'
      <3>1. faults' = 0 /\ sa' => row'.canary
        BY ZenonT(40), <1>7, <2>1
      <3> QED
        BY Zenon, <1>3, <2>1, <3>1 DEF CleanInv
    <2> QED
      BY Zenon, <2>7, <2>8, <2>9, <2>10 DEF SerialStep
  <1>12. ASSUME RemoveRow PROVE SerialStep
    <2>1. /\ UNCHANGED <<cr, sa, dns, faults>> /\ pc[h] = "remove" /\ Finish(h)
          /\ row' = WithStatus(row, "deleted")
      BY Zenon, <1>2, <1>12 DEF RemoveRow, WriteStatus, external
    <2>2. Follows("deleted")
      BY Zenon, <1>3 DEF Follows
    <2>3. RowInv' /\ RecordsInv' /\ LifeStep
      BY Zenon, <2>1, <2>2, StatusMoves, StatusKeeps
    <2>4. Alone' /\ BusyInv'
      BY Zenon, <1>1, <2>1, Ended
    <2>5. row'.cluster = row.cluster /\ row'.canary = row.canary
      BY <2>1 DEF WithStatus
    <2>6. CleanInv'
      <3>1. row.cluster # None => dns = None /\ (faults = 0 => ~sa)
        BY Zenon, <1>2, <2>1 DEF DeletingKnows
      <3>2. faults' = 0 /\ sa' => row'.canary
        BY Zenon, <1>7, <2>1, <2>5
      <3>3. row'.cluster # None => dns' = None /\ (faults' = 0 => ~sa')
        BY ZenonT(40), <2>1, <2>5, <3>1
      <3> QED
        BY Zenon, <3>2, <3>3 DEF CleanInv
    <2> QED
      BY Zenon, <2>3, <2>4, <2>6 DEF SerialStep
  <1> QED
    BY Zenon, <1>9, <1>10, <1>11, <1>12

-----------------------------------------------------------------------------
(* The endpoints.                                                          *)

\* The row is created.
LEMMA CreateStep ==
    ASSUME SerialInv, CreateRow
    PROVE  SerialStep
  <1> DEFINE h == "create"
  <1>1. /\ h \in Handlers \ {"preparing", "ready"} /\ pc[h] # "idle" /\ Finish(h)
        /\ UNCHANGED <<cr, sa, dns, faults>>
    BY Zenon, Known DEF CreateRow, external
  <1>2. row.status = "absent"
    BY Zenon, <1>1, Knows DEF Busy
  <1>3. PICK c \in Clusters \cup {None} : row' = Placed(WithStatus(NoRequest, "accepted"), c, FALSE)
    BY Zenon DEF CreateRow
  <1>4. /\ row'.status = "accepted" /\ row'.host = FALSE /\ row'.routes = None
        /\ row'.rcid = FALSE /\ row'.rcreated = FALSE /\ row'.canary = FALSE
    BY Zenon, <1>3 DEF Placed, WithStatus, NoRequest
  <1>5. /\ ~row.host /\ row.routes = None /\ ~row.rcreated
        /\ ~row.canary /\ \A d \in Clusters : cr[d] = "none"
    BY Zenon, <1>2 DEF SerialInv, RowInv, EarlyStatuses
  <1>6. RowInv'
    BY Zenon, <1>1, <1>4, <1>5 DEF RowInv
  <1>7. RecordsInv'
    BY ZenonT(40), <1>1, <1>4, <1>5 DEF RecordsInv, SerialInv
  <1>8. LifeStep
    <2>1. row.host \in BOOLEAN /\ row.rcreated \in BOOLEAN
      BY Zenon, FieldTypes DEF SerialInv, IInv, TypeOK
    <2>2. row'.host = row.host /\ row'.rcreated = row.rcreated
      BY Zenon, <1>4, <1>5, <2>1
    <2> QED
      BY Zenon, <1>2, <1>4, <2>2 DEF LifeStep, Lifecycle!Next, Lifecycle!Register, Lifecycle!Move
  <1>9. CleanInv'
    <2>1. pc["preparing"] = "idle" /\ pc["ready"] = "idle"
      BY Zenon, <1>1, Known DEF SerialInv, Alone
    <2>2. ~(faults' = 0 /\ sa')
      BY <1>1, <1>5, <2>1 DEF SerialInv, CleanInv
    <2> QED
      BY Zenon, <1>4, <2>2 DEF CleanInv
  <1> QED
    BY Zenon, <1>1, <1>6, <1>7, <1>8, <1>9, Ended DEF SerialStep

\* The delete and the admin endpoint write what they have checked.
LEMMA EndpointWrites ==
    ASSUME SerialInv, DeleteWrite \/ AdminWrite
    PROVE  SerialStep
  <1>1. ASSUME DeleteWrite PROVE SerialStep
    <2> DEFINE h == "delete"
    <2>1. /\ h \in Handlers \ {"preparing", "ready"} /\ pc[h] # "idle" /\ Finish(h)
          /\ UNCHANGED <<cr, sa, dns, faults>>
      BY Zenon, <1>1, Known DEF DeleteWrite, external
    <2>2. Exists /\ row.status # "deprovision"
      BY Zenon, <2>1, Knows DEF Busy
    <2>3. row' = WithStatus(row, "deprovision") /\ Follows("deprovision")
      BY Zenon, <1>1, <2>2 DEF DeleteWrite, WriteStatus, Follows
    <2> QED
      BY Zenon, <2>1, <2>3, WriteStep
  <1>2. ASSUME AdminWrite PROVE SerialStep
    <2> DEFINE h == "admin"
    <2>1. /\ h \in Handlers \ {"preparing", "ready"} /\ pc[h] # "idle" /\ Finish(h)
          /\ UNCHANGED <<cr, sa, dns, faults>>
      BY Zenon, <1>2, Known DEF AdminWrite, external
    <2>2. /\ Exists /\ snap[h] = row
          /\ pc[h] = "suspend" => row.status = "ready"
          /\ pc[h] = "resume" => row.status = "suspended"
      BY Zenon, <2>1, Knows DEF Busy
    <2>3. \/ pc[h] = "suspend" /\ row' = WithStatus(row, "suspending")
          \/ pc[h] = "resume" /\ row' = WithStatus(row, "resuming")
          \/ row' = WithStatus(row, row.status)
      BY ZenonT(40), <1>2, <2>2 DEF AdminWrite, WriteStatus
    <2>4. CASE pc[h] = "suspend" /\ row' = WithStatus(row, "suspending")
      <3>1. Follows("suspending")
        BY Zenon, <2>2, <2>4 DEF Follows, CanBeAutomaticallySuspended
      <3> QED
        BY Zenon, <2>1, <2>4, <3>1, WriteStep
    <2>5. CASE pc[h] = "resume" /\ row' = WithStatus(row, "resuming")
      <3>1. Follows("resuming")
        BY Zenon, <2>2, <2>5 DEF Follows
      <3> QED
        BY Zenon, <2>1, <2>5, <3>1, WriteStep
    <2>6. CASE row' = WithStatus(row, row.status)
      <3>1. row' = row
        BY <2>6 DEF WithStatus, SerialInv, IInv, TypeOK, KafkaRequest
      <3> QED
        BY Zenon, <2>1, <3>1, EndStep
    <2> QED
      BY Zenon, <2>3, <2>4, <2>5, <2>6
  <1> QED
    BY Zenon, <1>1, <1>2

-----------------------------------------------------------------------------
(* The reports of the agents.                                              *)

\* Routes are stored that the row does not have yet.
LEMMA RoutesStep ==
    ASSUME SerialInv, NEW c \in Clusters, PersistRoutes(c)
    PROVE  SerialStep
  <1>1. /\ c \in Handlers \ {"preparing", "ready"} /\ pc[c] \in {"ready", "installing"}
        /\ pc[c] # "idle" /\ UNCHANGED <<cr, sa, dns, faults>> /\ Update(WithRoutes(snap[c], c))
        /\ snap[c].routes = None
    BY Zenon, Known DEF PersistRoutes, external
  <1>2. Exists /\ AgentKnows(c)
    BY Zenon, <1>1, Known, Knows DEF Busy
  <1>3. /\ row \in KafkaRequest /\ snap[c] \in KafkaRequest /\ row.host \in BOOLEAN
        /\ row.rcid \in BOOLEAN /\ row.rcreated \in BOOLEAN /\ c # None
    BY Zenon, <1>1, FieldTypes, ClustersAssumption DEF SerialInv, IInv, TypeOK
  <1>4. CASE UnderDeletion
    <2>1. row' = row
      BY Zenon, <1>1, <1>4 DEF Update
    <2>2. CASE Finish(c)
      BY Zenon, <1>1, <2>1, <2>2, EndStep
    <2>3. CASE pc[c] = "ready" /\ pc' = pc
      <3>1. pc' = [pc EXCEPT ![c] = "ready"] /\ "ready" \in PCs
        BY ZenonT(40), <1>1, <2>3 DEF SerialInv, IInv, TypeOK, PCs
      <3>2. (Exists <=> Exists') /\ (UnderDeletion <=> UnderDeletion')
        BY Zenon, <2>1 DEF Exists, UnderDeletion
      <3>3. AgentKnows(c)'
        BY Zenon, <1>2, <1>4, <2>1, <2>3, <3>2 DEF AgentKnows
      <3>4. Busy(c)'
        BY Zenon, <1>2, <3>2, <3>3, Known DEF Busy
      <3> QED
        BY Zenon, <1>1, <2>1, <3>1, <3>4, StayStep DEF Goto
    <2> QED
      BY Zenon, <2>2, <2>3 DEF PersistRoutes
  <1>5. CASE ~UnderDeletion
    <2>1. snap[c] = row
      BY Zenon, <1>1, <1>2, <1>5 DEF AgentKnows
    <2>2. row' = WithRoutes(row, c)
      <3>1. WithRoutes(row, c) \in KafkaRequest
        BY Zenon, <1>3, BuilderTypes
      <3> QED
        BY Zenon, <1>1, <1>3, <1>5, <2>1, <3>1, OwnCopy, CopyWritten
    <2>3. /\ row'.status = row.status /\ row'.cluster = row.cluster /\ row'.host = row.host
          /\ row'.canary = row.canary /\ row'.routes = c
          /\ row'.rcid = row.rcid /\ row'.rcreated = row.rcreated
      BY Zenon, <2>2 DEF WithRoutes
    <2>4. row.status \notin EarlyStatuses /\ row.host /\ row.cluster = c
      BY Zenon, <1>2 DEF AgentKnows, SerialInv, RowInv
    <2>5. RowInv'
      BY Zenon, <1>1, <2>3, <2>4 DEF SerialInv, RowInv
    <2>6. RecordsInv'
      <3>1. row.routes = None /\ ~row.rcid /\ ~row.rcreated /\ dns = None
        BY ZenonT(40), <1>1, <2>1 DEF SerialInv, RecordsInv, IInv, Safe, Sound
      <3> QED
        BY Zenon, <1>1, <1>3, <2>3, <3>1 DEF RecordsInv
    <2>7. LifeStep
      BY Zenon, <2>3 DEF LifeStep
    <2>8. CASE Finish(c)
      <3>1. (row.canary => row'.canary) /\ row'.status # "deleted"
        BY Zenon, <1>2, <2>3 DEF Exists
      <3> QED
        BY Zenon, <1>1, <2>5, <2>6, <2>7, <2>8, <3>1, RowStep
    <2>9. CASE pc[c] = "ready" /\ pc' = pc /\ Hold(c, WithRoutes(snap[c], c))
      <3>1. snap'[c] = row'
        BY ZenonT(40), <1>1, <2>1, <2>2, <2>9 DEF SerialInv, IInv, TypeOK, Hold
      <3>2. AgentKnows(c)' /\ Exists'
        BY Zenon, <1>2, <2>3, <2>4, <2>9, <3>1 DEF AgentKnows, Exists
      <3>3. Busy(c)'
        BY Zenon, <3>2, Known DEF Busy
      <3>4. \A g \in Handlers \ {c} : pc[g] = "idle"
        BY Zenon, <1>1 DEF SerialInv, Alone
      <3>5. Alone' /\ BusyInv'
        BY Zenon, <2>9, <3>3, <3>4 DEF Alone, BusyInv
      <3>6. CleanInv'
        <4>1. pc["preparing"] # "write" /\ pc["ready"] # "write"
          BY Zenon, <1>1, <3>4, Known
        <4> QED
          BY Zenon, <1>1, <1>2, <2>3, <4>1, CleanKept DEF Exists
      <3> QED
        BY Zenon, <2>5, <2>6, <2>7, <3>5, <3>6 DEF SerialStep
    <2> QED
      BY Zenon, <2>8, <2>9 DEF PersistRoutes
  <1> QED
    BY Zenon, <1>4, <1>5

\* The writes of a report that change the row and end.
LEMMA ReportStep ==
    ASSUME SerialInv, NEW c \in Clusters,
           SetReady(c) \/ SetFailed(c) \/ ReassignCluster(c) \/ Unassign(c)
    PROVE  SerialStep
  <1>1. /\ c \in Handlers \ {"preparing", "ready"} /\ pc[c] # "idle"
        /\ UNCHANGED <<cr, sa, dns, faults>> /\ Finish(c)
    BY Zenon, Known DEF SetReady, SetFailed, ReassignCluster, Unassign, external
  <1>2. Exists /\ AgentKnows(c)
    BY Zenon, <1>1, Known, Knows DEF Busy
  <1>3. /\ row \in KafkaRequest /\ snap[c] \in KafkaRequest
        /\ row.host \in BOOLEAN /\ row.rcreated \in BOOLEAN /\ row.status \in Statuses
    BY Zenon, <1>1, FieldTypes DEF SerialInv, IInv, TypeOK
  <1>4. ASSUME row' = row PROVE SerialStep
    BY Zenon, <1>1, <1>4, EndStep
  <1>5. row.host /\ row.status \notin EarlyStatuses /\ row.cluster = c
    BY Zenon, <1>2 DEF AgentKnows, SerialInv, RowInv
  <1>6. ASSUME SetReady(c), ~UnderDeletion PROVE SerialStep
    <2>1. pc[c] = "ready" /\ row' = IF snap[c].rcreated THEN WithStatus(row, "ready") ELSE row
      BY Zenon, <1>6 DEF SetReady, Updates
    <2>2. snap[c] = row /\ row.status \notin SuspendedStatuses
      BY Zenon, <1>2, <1>6, <2>1 DEF AgentKnows
    <2>3. row.status \in {"provisioning", "failed", "resuming", "ready"}
      BY Zenon, <1>3, <1>5, <1>6, <2>2
         DEF UnderDeletion, Exists, EarlyStatuses, SuspendedStatuses, Statuses, LiveStatuses,
             UpdateableStatuses, kafkaDeletionStatuses
    <2>4. CASE ~row.rcreated
      BY Zenon, <1>4, <2>1, <2>2, <2>4
    <2>5. CASE row.rcreated /\ row.status = "ready"
      <3>1. row' = row
        BY ZenonT(40), <1>3, <2>1, <2>2, <2>5 DEF WithStatus, KafkaRequest
      <3> QED
        BY Zenon, <1>4, <3>1
    <2>6. CASE row.rcreated /\ row.status # "ready"
      <3>1. Follows("ready")
        BY Zenon, <1>5, <2>3, <2>6 DEF Follows
      <3> QED
        BY Zenon, <1>1, <2>1, <2>2, <2>6, <3>1, WriteStep
    <2> QED
      BY Zenon, <2>4, <2>5, <2>6
  <1>7. ASSUME SetFailed(c), ~UnderDeletion PROVE SerialStep
    <2>1. pc[c] = "error" /\ Update(WithStatus(snap[c], "failed"))
      BY Zenon, <1>7 DEF SetFailed
    <2>2. snap[c] = row /\ row.status \notin SuspendedStatuses \cup {"failed"}
      BY Zenon, <1>2, <2>1 DEF AgentKnows
    <2>3. WithStatus(row, "failed") \in KafkaRequest
      BY Zenon, <1>3, BuilderTypes, StatusTypes
    <2>4. row' = WithStatus(row, "failed")
      BY Zenon, <1>3, <1>7, <2>1, <2>2, <2>3, OwnCopy, CopyWritten
    <2>5. Follows("failed")
      BY Zenon, <1>3, <1>5, <1>7, <2>2
         DEF Follows, UnderDeletion, Exists, EarlyStatuses, SuspendedStatuses, Statuses,
             LiveStatuses, UpdateableStatuses, kafkaDeletionStatuses
    <2> QED
      BY Zenon, <1>1, <2>4, <2>5, WriteStep
  <1>8. ASSUME ReassignCluster(c), ~UnderDeletion PROVE SerialStep
    <2>1. snap[c] = row /\ Update(row)
      BY Zenon, <1>2, <1>8 DEF AgentKnows, ReassignCluster
    <2> QED
      BY Zenon, <1>3, <1>4, <1>8, <2>1, OwnCopy, CopyWritten
  <1>9. ASSUME Unassign(c), ~UnderDeletion PROVE SerialStep
    <2>1. pc[c] = "full" /\ row' = Placed(row, None, FALSE)
      BY Zenon, <1>9 DEF Unassign, Updates
    <2>2. row.status = "provisioning"
      BY Zenon, <1>2, <2>1 DEF AgentKnows
    <2>3. /\ row'.status = "provisioning" /\ row'.cluster = None /\ row'.host = FALSE
          /\ row'.canary = row.canary /\ row'.routes = row.routes
          /\ row'.rcid = row.rcid /\ row'.rcreated = row.rcreated
      BY Zenon, <2>1, <2>2 DEF Placed
    <2>4. RowInv' /\ RecordsInv'
      BY ZenonT(40), <1>1, <1>9, <2>3, RowWritten DEF EarlyStatuses
    <2>5. LifeStep
      <3>1. row'.host = ~row.host
        BY Zenon, <1>3, <1>5, <2>3
      <3> QED
        BY Zenon, <2>2, <2>3, <3>1 DEF LifeStep, Lifecycle!Next, Lifecycle!Reassign
    <2> QED
      BY Zenon, <1>1, <2>3, <2>4, <2>5, RowStep
  <1>10. ASSUME UnderDeletion PROVE row' = row
    BY Zenon, <1>10 DEF SetReady, SetFailed, ReassignCluster, Unassign, Update, Updates
  <1> QED
    BY Zenon, <1>4, <1>6, <1>7, <1>8, <1>9, <1>10

\* The reports of a deletion and a suspension: a check, then a write.
LEMMA StatusReport ==
    ASSUME SerialInv, NEW c \in Clusters, ReportCheck(c) \/ ReportWrite(c)
    PROVE  SerialStep
  <1>1. /\ c \in Handlers \ {"preparing", "ready"} /\ pc[c] # "idle"
        /\ UNCHANGED <<cr, sa, dns, faults>>
    BY Zenon, Known DEF ReportCheck, ReportWrite, external
  <1>2. Exists /\ AgentKnows(c)
    BY Zenon, <1>1, Known, Knows DEF Busy
  <1>3. ASSUME ReportCheck(c) PROVE SerialStep
    <2>1. pc[c] \in {"deleted", "suspended"} /\ row' = row
      BY Zenon, <1>3 DEF ReportCheck
    <2>2. CASE Finish(c)
      BY Zenon, <1>1, <2>1, <2>2, EndStep
    <2>3. CASE /\ MayUpdateStatus(Target(pc[c]))
               /\ Goto(c, IF pc[c] = "deleted" THEN "deleting" ELSE "suspendedWrite")
      <3>1. PICK p \in {"deleting", "suspendedWrite"} :
                Goto(c, p) /\ (p = "deleting" <=> pc[c] = "deleted")
        BY Zenon, <2>3
      <3>2. p \in PCs
        BY Zenon DEF PCs
      <3>3. p = "deleting" => row.status = "deprovision"
        BY Zenon, <1>2, <2>3, <3>1 DEF AgentKnows, MayUpdateStatus, Target, kafkaDeletionStatuses
      <3>4. p = "suspendedWrite" => row.status = "suspending"
        BY Zenon, <1>2, <2>1, <3>1 DEF AgentKnows
      <3>5. pc'[c] = p => AgentKnows(c)' /\ Exists'
        BY Zenon, <1>2, <2>1, <3>1, <3>3, <3>4 DEF AgentKnows, Exists
      <3>6. pc'[c] = p => Busy(c)'
        BY Zenon, <3>5, Known DEF Busy
      <3> QED
        BY Zenon, <1>1, <2>1, <3>1, <3>2, <3>6, StayStep
    <2> QED
      BY Zenon, <1>3, <2>2, <2>3 DEF ReportCheck
  <1>4. ASSUME ReportWrite(c) PROVE SerialStep
    <2>1. /\ pc[c] \in {"deleting", "suspendedWrite"} /\ Finish(c)
          /\ row' = WithStatus(row, Target(pc[c]))
      BY Zenon, <1>2, <1>4 DEF ReportWrite, WriteStatus
    <2>2. Follows(Target(pc[c])) /\ Target(pc[c]) # "deleted"
      <3>1. pc[c] = "deleting" => row.status = "deprovision" /\ row.host
        BY Zenon, <1>2 DEF AgentKnows
      <3>2. pc[c] = "suspendedWrite" => row.status = "suspending"
        BY Zenon, <1>2 DEF AgentKnows
      <3> QED
        BY Zenon, <2>1, <3>1, <3>2 DEF Follows, Target
    <2> QED
      BY Zenon, <1>1, <2>1, <2>2, WriteStep
  <1> QED
    BY Zenon, <1>3, <1>4

-----------------------------------------------------------------------------
(* The invariant of one handler at a time, and the life cycle.             *)

\* Every action keeps the invariant and is a step of the life cycle, or none.
LEMMA SerialActions ==
    ASSUME MaxInflight = 1, SerialInv, [Next]_vars
    PROVE  SerialStep
  <1>1. ASSUME WorkerStep PROVE SerialStep
    <2>1. ASSUME CnamePanic PROVE SerialStep
      BY Zenon, <2>1, EndStep, Known DEF CnamePanic, external
    <2>2. ASSUME NEW w \in Workers, Retry(w) PROVE SerialStep
      <3>1. /\ w \in Handlers /\ pc[w] = "act" /\ Finish(w)
            /\ UNCHANGED <<row, cr, sa, dns, faults>>
        BY Zenon, <2>2 DEF Retry, external, Handlers
      <3> QED
        BY Zenon, <3>1, EndStep
    <2>3. ASSUME NEW w \in Workers, SaveRequest(w) PROVE SerialStep
      <3>1. w = "ready" \/ w = "cname"
        BY Zenon, <2>3 DEF SaveRequest
      <3> QED
        BY Zenon, <2>3, <3>1, SaveReady, SaveRecords
    <2> QED
      BY Zenon, <1>1, <2>1, <2>2, <2>3, AcceptedStep, AccountStep, PreparedStep, ReassignStep,
         RecordsStep, PassStep, DeletionStep DEF WorkerStep
  <1>2. ASSUME EndpointStep PROVE SerialStep
    BY Zenon, <1>2, CreateStep, EndpointWrites DEF EndpointStep
  <1>3. ASSUME NEW c \in Clusters, AgentBegins(c) \/ AgentStep(c) PROVE SerialStep
    BY Zenon, <1>3, FetchStep, OthersBegin, RoutesStep, ReportStep, StatusReport
       DEF AgentBegins, AgentStep
  <1>4. ASSUME NEW h \in Handlers, Abort(h) PROVE SerialStep
    <2>1. pc[h] # "idle" /\ Fault /\ Finish(h) /\ UNCHANGED <<row, cr, sa, dns>>
      BY Zenon, <1>4 DEF Abort, external
    <2> QED
      BY Zenon, <2>1, EndStep
  <1>5. ASSUME UNCHANGED vars PROVE SerialStep
    <2>1. /\ row' = row /\ cr' = cr /\ sa' = sa /\ dns' = dns /\ pc' = pc /\ snap' = snap
          /\ faults' = faults
      BY Zenon, <1>5 DEF vars
    <2>2. RowInv' /\ RecordsInv' /\ LifeStep
      BY Zenon, <2>1, Untouched
    <2>3. CleanInv' /\ Alone'
      BY Zenon, <2>1 DEF SerialInv, CleanInv, Alone
    <2>4. BusyInv'
      <3>1. (Exists <=> Exists') /\ (UnderDeletion <=> UnderDeletion')
        BY Zenon, <2>1 DEF Exists, UnderDeletion
      <3>2. (CnameKnows => CnameKnows') /\ (KafkasKnows => KafkasKnows')
        BY Zenon, <2>1, <3>1 DEF CnameKnows, KafkasKnows
      <3>3. DeletingKnows => DeletingKnows'
        BY ZenonT(40), <2>1, <3>1 DEF DeletingKnows
      <3>4. ASSUME NEW h \in Handlers, AgentKnows(h) PROVE AgentKnows(h)'
        BY Zenon, <2>1, <3>1, <3>4 DEF AgentKnows
      <3>5. ASSUME NEW h \in Handlers, Busy(h) PROVE Busy(h)'
        BY Zenon, <2>1, <3>1, <3>2, <3>3, <3>4, <3>5 DEF Busy
      <3> QED
        BY Zenon, <2>1, <3>5 DEF SerialInv, BusyInv
    <2> QED
      BY Zenon, <2>2, <2>3, <2>4 DEF SerialStep
  <1> QED
    BY Zenon, <1>1, <1>2, <1>3, <1>4, <1>5, WorkersBegin, OthersBegin, PreparedStep DEF Next

\* With one handler at a time, what a handler has read is what the row is,
\* except for what it has changed itself.
THEOREM SerialInvariance ==
    ASSUME MaxInflight = 1
    PROVE  Spec => []SerialInv
  <1>1. Init => SerialInv
    <2> SUFFICES ASSUME Init PROVE SerialInv
      OBVIOUS
    <2>1. IInv
      BY Zenon, InitIInv
    <2>2. /\ row = NoRequest /\ dns = None /\ sa = FALSE
          /\ \A c \in Clusters : cr[c] = "none"
          /\ \A h \in Handlers : pc[h] = "idle"
      BY Zenon DEF Init
    <2>3. /\ row.status = "absent" /\ row.cluster = None /\ ~row.host /\ ~row.canary
          /\ row.routes = None /\ ~row.rcid /\ ~row.rcreated
      BY <2>2 DEF NoRequest
    <2>4. Alone /\ BusyInv
      BY Zenon, <2>2 DEF Alone, BusyInv
    <2>5. RowInv /\ RecordsInv
      BY Zenon, <2>2, <2>3 DEF RowInv, RecordsInv
    <2>6. CleanInv
      BY ZenonT(40), <2>2, <2>3 DEF CleanInv
    <2> QED
      BY Zenon, <2>1, <2>4, <2>5, <2>6 DEF SerialInv
  <1>2. SerialInv /\ [Next]_vars => SerialInv'
    BY Zenon, SerialActions, TypeStep, SafeStep DEF SerialInv, SerialStep, IInv
  <1>3. QED
    BY <1>1, <1>2, PTL DEF Spec

\* DeletingKafkaManager waits for a cluster only if there is one: with one
\* handler at a time, a row with a host has a cluster.
THEOREM HostPlacedHolds ==
    ASSUME MaxInflight = 1
    PROVE  Spec => []HostPlaced
  <1>1. SerialInv => HostPlaced
    BY Zenon DEF SerialInv, RowInv, HostPlaced
  <1>2. QED
    BY <1>1, SerialInvariance, PTL

\* ReceiveReport and the CNAME manager: with one handler at a time, the
\* records of a ready Kafka lead to the routes that its row stores.
THEOREM ReadyRecordsHolds ==
    ASSUME MaxInflight = 1
    PROVE  Spec => []ReadyRecords
  <1>1. SerialInv => ReadyRecords
    BY Zenon DEF SerialInv, IInv, Safe, Sound, RecordsInv, ReadyRecords, UnderDeletion, Exists,
                 kafkaDeletionStatuses
  <1>2. QED
    BY <1>1, SerialInvariance, PTL

\* DeletingKafkaManager: with one handler at a time and no failing step, the
\* deletion of a Kafka that is on a cluster leaves no quota, no account and no
\* records behind.
THEOREM CleanDeletionHolds ==
    ASSUME MaxInflight = 1
    PROVE  Spec => []CleanDeletion
  <1>1. SerialInv => CleanDeletion
    BY Zenon DEF SerialInv, IInv, Safe, QuotaReleased, CleanInv, CleanDeletion
  <1>2. QED
    BY <1>1, SerialInvariance, PTL

\* The refinement: with one handler at a time, the workers, the endpoints and
\* the agents together take only the steps of KafkaLifecycle.
THEOREM ImplementsLifecycleHolds ==
    ASSUME MaxInflight = 1
    PROVE  Spec => ImplementsLifecycle
  <1>1. Init => Lifecycle!Init
    BY DEF Init, NoRequest, Lifecycle!Init
  <1>2. SerialInv /\ [Next]_vars => [Lifecycle!Next]_(Lifecycle!life)
    BY Zenon, SerialActions DEF SerialStep, LifeStep, Lifecycle!life
  <1>3. QED
    BY <1>1, <1>2, SerialInvariance, PTL DEF Spec, ImplementsLifecycle, Lifecycle!Spec

\* "ignore updates of kafka under deletion": with one handler at a time no
\* write, checked or not, takes a Kafka out of its deletion.
THEOREM DeletionKeptAlone ==
    ASSUME MaxInflight = 1
    PROVE  Spec => DeletionIrrevocable
  <1>1. SerialInv /\ [Next]_vars =>
            [row.status \in kafkaDeletionStatuses
                => row'.status \in kafkaDeletionStatuses \cup {"deleted"}]_vars
    <2> SUFFICES ASSUME SerialInv, [Next]_vars, row.status \in kafkaDeletionStatuses
                 PROVE  row'.status \in kafkaDeletionStatuses \cup {"deleted"}
      BY Zenon
    <2>1. LifeStep
      BY Zenon, SerialActions DEF SerialStep
    <2>2. \/ row'.status = row.status
          \/ row'.status \in {"deprovision", "deleting", "deleted"}
      BY Zenon, <2>1
         DEF LifeStep, Lifecycle!Next, Lifecycle!Move, Lifecycle!Register, Lifecycle!Place,
             Lifecycle!Provision, Lifecycle!Reassign, Lifecycle!Expose, Lifecycle!Serve,
             Lifecycle!Fail, Lifecycle!Suspend, Lifecycle!Suspended, Lifecycle!Resume,
             Lifecycle!Deprovision, Lifecycle!Leave, Lifecycle!Remove, kafkaDeletionStatuses
    <2> QED
      BY Zenon, <2>2 DEF kafkaDeletionStatuses
  <1>2. QED
    BY <1>1, SerialInvariance, PTL DEF Spec, DeletionIrrevocable
=============================================================================
