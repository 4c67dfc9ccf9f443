------------------------- MODULE FleetRemovalProofs -------------------------
(***************************************************************************)
(* Proofs about the clusters of Fleet, how they come and go: what the      *)
(* removal of a cluster leaves, which removals do not happen as long as    *)
(* handlers do not overlap, and what one overlap cannot break.             *)
(***************************************************************************)
EXTENDS FleetProofs

-----------------------------------------------------------------------------
(* What changes a row, the cluster at the provider, and what it hosts.     *)

\* The row of c is written, and how.
RowWritten(c) ==
    \/ SaveCluster /\ task["clusters"].c = c /\ Exists(c) /\ rows'[c].st = task["clusters"].st
    \/ ReconcileManualConfig /\ c \in Managed /\ ~Exists(c) /\ rows'[c].st = "provisioning"
    \/ /\ DeprovisionExcess /\ c \in Managed /\ rows[c].st \notin {"none", "cleanup"}
       /\ rows'[c].st = "deprovisioning"
    \/ ScaleUp /\ task["up"].c = c /\ c \in Managed /\ rows'[c].st = "accepted"
    \/ /\ ScaleDown /\ task["down"].c = c /\ c \in Managed /\ Exists(c)
       /\ rows'[c].st = "deprovisioning"
    \/ /\ RestoreCluster /\ task["deprovisioning"].c = c /\ c \in Managed /\ Exists(c)
       /\ rows'[c].st = "ready"
    \/ MarkForCleanup /\ task["deprovisioning"].c = c /\ Exists(c) /\ rows'[c].st = "cleanup"
    \/ DeleteRow /\ task["cleanup"].c = c /\ rows'[c].st = "none"
    \/ \E q \in Requests :
          /\ task[q].c = c
          /\ \/ SetClusterStatus(q) /\ Exists(c) /\ rows'[c].st = "ready"
             \/ SetClusterWaiting(q) /\ Exists(c) /\ rows'[c].st = "waiting"
             \/ /\ RegisterClusterJob(q) /\ c \in Enterprise /\ ~Exists(c)
                /\ rows'[c].st = "accepted"
             \/ /\ DeregisterClusterJob(q) /\ c \in Enterprise /\ Exists(c)
                /\ rows'[c].st = "deprovisioning"

\* What writing a status does to a row.
LEMMA StatusWritten ==
    ASSUME TypeOK, NEW d \in Clusters, NEW st, SetStatus(d, st), NEW c \in Clusters
    PROVE  rows'[c].st = rows[c].st \/ (c = d /\ Exists(c) /\ rows'[c].st = st)
BY Zenon DEF SetStatus, Row, TypeOK, Exists

\* Nothing else changes the status of a row.
LEMMA RowChanges ==
    ASSUME TypeOK, Next, NEW c \in Clusters
    PROVE  rows'[c].st = rows[c].st \/ RowWritten(c)
<1>0. rows = [d \in Clusters |-> rows[d]]
  BY Zenon DEF TypeOK
<1>1. CASE RequestSteps
  <2>1. PICK q \in Requests :
            \/ Serving(q)
            \/ \E d \in Clusters : RegisterEnterpriseCluster(q, d)
                                    \/ DeregisterEnterpriseCluster(q, d)
            \/ \E d \in Clusters, kind \in {"first", "again", "trouble"} :
                  ReportStatus(q, d, kind)
            \/ \E r \in Replicas, size \in Sizes, ent \in BOOLEAN :
                  RegisterKafkaJob(q, r, size, ent)
    BY Zenon, <1>1 DEF RequestSteps
  <2>2. CASE UNCHANGED rows
    BY Zenon, <2>2
  <2>3. CASE SetClusterStatus(q)
    <3>1. task[q].c \in Clusters
      BY Zenon, <2>3, TaskKinds DEF SetClusterStatus, Reports
    <3>2. PICK units : rows' = IF Exists(task[q].c)
                               THEN [rows EXCEPT ![task[q].c] = Row("ready", units)] ELSE rows
      BY Zenon, <2>3 DEF SetClusterStatus
    <3>3. rows'[c].st = rows[c].st \/ (c = task[q].c /\ Exists(c) /\ rows'[c].st = "ready")
      BY ZenonT(40), <1>0, <3>1, <3>2 DEF Row
    <3> QED
      BY Zenon, <2>3, <3>3 DEF RowWritten
  <2>4. CASE SetClusterWaiting(q)
    <3>1. task[q].c \in Clusters /\ SetStatus(task[q].c, "waiting")
      BY Zenon, <2>4, TaskKinds DEF SetClusterWaiting, Reports
    <3> QED
      BY SMTT(30), <2>4, <3>1, StatusWritten DEF RowWritten
  <2>5. CASE RegisterClusterJob(q)
    <3>1. task[q].c \in Enterprise
      BY Zenon, <2>5, TaskKinds DEF RegisterClusterJob, Enrollments
    <3>2. rows' = IF Exists(task[q].c) THEN rows
                  ELSE [rows EXCEPT ![task[q].c] = Row("accepted", 0)]
      BY Zenon, <2>5 DEF RegisterClusterJob
    <3>3. rows'[c].st = rows[c].st
             \/ (c = task[q].c /\ ~Exists(c) /\ rows'[c].st = "accepted")
      BY Zenon, <1>0, <3>1, <3>2, Bounds DEF Row
    <3> QED
      BY Zenon, <2>5, <3>1, <3>3 DEF RowWritten
  <2>6. CASE DeregisterClusterJob(q)
    <3>1. task[q].c \in Enterprise /\ SetStatus(task[q].c, "deprovisioning")
      BY ZenonT(40), <2>6, TaskKinds DEF DeregisterClusterJob, Enrollments
    <3>2. rows'[c].st = rows[c].st \/ (c = task[q].c /\ Exists(c) /\ rows'[c].st = "deprovisioning")
      <4>1. Enterprise \subseteq Clusters /\ Managed \subseteq Clusters
        BY Zenon DEF Clusters
      <4> QED
        BY ZenonT(40), <3>1, <4>1, StatusWritten
    <3> QED
      BY Zenon, <2>6, <3>1, <3>2 DEF RowWritten
  <2>7. Place(q) \/ ReserveQuota(q) \/ CreateKafka(q) => UNCHANGED rows
    BY Zenon DEF Place, ReserveQuota, CreateKafka, tables
  <2>8. ASSUME NEW d \in Clusters,
               RegisterEnterpriseCluster(q, d) \/ DeregisterEnterpriseCluster(q, d)
        PROVE  UNCHANGED rows
    BY Zenon, <2>8 DEF RegisterEnterpriseCluster, DeregisterEnterpriseCluster, tables
  <2>9. ASSUME NEW d \in Clusters, NEW kind \in {"first", "again", "trouble"},
               ReportStatus(q, d, kind)
        PROVE  UNCHANGED rows
    BY Zenon, <2>9 DEF ReportStatus, tables
  <2>10. ASSUME NEW r \in Replicas, NEW size \in Sizes, NEW ent \in BOOLEAN,
                RegisterKafkaJob(q, r, size, ent)
         PROVE  UNCHANGED rows
    BY Zenon, <2>10 DEF RegisterKafkaJob, tables
  <2> QED
    BY ZenonT(40), <2>1, <2>2, <2>3, <2>4, <2>5, <2>6, <2>7, <2>8, <2>9, <2>10 DEF Serving
<1>2. CASE KafkaSteps
  BY Zenon, <1>2, KafkaStepsKeep
<1>3. CASE ManagerSteps
  <2>1. ASSUME NEW d \in Clusters, ProcessCluster(d) \/ ReconcileReadyCluster(d)
        PROVE  UNCHANGED rows
    BY ZenonT(40), <2>1 DEF ProcessCluster, ReconcileReadyCluster, tables
  <2>2. CASE SaveCluster
    <3>1. /\ task["clusters"].c \in Clusters
          /\ SetStatus(task["clusters"].c, task["clusters"].st)
      BY ZenonT(40), <2>2, TaskKinds DEF SaveCluster, Advances
    <3> QED
      BY <2>2, <3>1, StatusWritten DEF RowWritten
  <2>3. CASE ReconcileManualConfig
    <3>1. rows'[c] = IF c \in Missing THEN Row("provisioning", 0) ELSE rows[c]
      BY Zenon, <2>3 DEF ReconcileManualConfig
    <3>2. c \in Missing => c \in Managed /\ ~Exists(c)
      BY ZenonT(40) DEF Missing, TypeOK
    <3> QED
      BY <2>3, <3>1, <3>2 DEF RowWritten, Row
  <2>4. CASE DeprovisionExcess
    <3>1. task["clusters"].ids \subseteq Managed
      BY Zenon, <2>4, TaskKinds DEF DeprovisionExcess, Surpluses
    <3>2. rows'[c] = IF c \in task["clusters"].ids /\ rows[c].st \notin {"none", "cleanup"}
                     THEN Row("deprovisioning", rows[c].units) ELSE rows[c]
      BY Zenon, <2>4 DEF DeprovisionExcess
    <3> QED
      BY SMTT(30), <2>4, <3>1, <3>2 DEF RowWritten, Row
  <2> QED
    BY Zenon, <1>3, <2>1, <2>2, <2>3, <2>4 DEF ManagerSteps
<1>4. CASE ScalingSteps
  <2>1. CASE EvaluateScaleUp \/ EvaluateScaleDown
    BY Zenon, <2>1 DEF EvaluateScaleUp, EvaluateScaleDown, tables
  <2>2. CASE ScaleUp
    <3>1. task["up"].c \in Managed
      BY Zenon, <2>2, TaskKinds DEF ScaleUp, ScaleUps
    <3>2. rows' = [rows EXCEPT ![task["up"].c] = Row("accepted", 0)]
      BY Zenon, <2>2 DEF ScaleUp
    <3>3. rows'[c].st = rows[c].st \/ (c = task["up"].c /\ rows'[c].st = "accepted")
      BY Zenon, <1>0, <3>1, <3>2, Bounds DEF Row
    <3> QED
      BY Zenon, <2>2, <3>1, <3>3 DEF RowWritten
  <2>3. CASE ScaleDown
    <3>1. task["down"].c \in Managed /\ SetStatus(task["down"].c, "deprovisioning")
      BY ZenonT(40), <2>3, TaskKinds DEF ScaleDown, ScaleDowns
    <3>2. rows'[c].st = rows[c].st \/ (c = task["down"].c /\ Exists(c) /\ rows'[c].st = "deprovisioning")
      <4>1. Enterprise \subseteq Clusters /\ Managed \subseteq Clusters
        BY Zenon DEF Clusters
      <4> QED
        BY SMTT(30), <3>1, <4>1, StatusWritten
    <3> QED
      BY Zenon, <2>3, <3>1, <3>2 DEF RowWritten
  <2> QED
    BY Zenon, <1>4, <2>1, <2>2, <2>3 DEF ScalingSteps
<1>5. CASE RemovalSteps
  <2>1. ASSUME NEW d \in Clusters, ProcessDeprovisioning(d) \/ RemoveServiceAccount(d)
        PROVE  UNCHANGED rows
    BY Zenon, <2>1 DEF ProcessDeprovisioning, RemoveServiceAccount, tables
  <2>2. CASE RestoreCluster
    <3>1. task["deprovisioning"].c \in Managed /\ SetStatus(task["deprovisioning"].c, "ready")
      BY ZenonT(40), <2>2, TaskKinds DEF RestoreCluster
    <3>2. rows'[c].st = rows[c].st \/ (c = task["deprovisioning"].c /\ Exists(c) /\ rows'[c].st = "ready")
      <4>1. Enterprise \subseteq Clusters /\ Managed \subseteq Clusters
        BY Zenon DEF Clusters
      <4> QED
        BY SMTT(30), <3>1, <4>1, StatusWritten
    <3> QED
      BY Zenon, <2>2, <3>1, <3>2 DEF RowWritten
  <2>3. CASE MarkForCleanup
    <3>1. /\ task["deprovisioning"].c \in Clusters
          /\ SetStatus(task["deprovisioning"].c, "cleanup")
      BY Zenon, <2>3, TaskKinds DEF MarkForCleanup
    <3> QED
      BY SMTT(30), <2>3, <3>1, StatusWritten DEF RowWritten
  <2>4. CASE DeleteRow
    <3>1. task["cleanup"].c \in Clusters
      BY Zenon, <2>4, TaskKinds DEF DeleteRow, Cleanups
    <3>2. rows' = [rows EXCEPT ![task["cleanup"].c] = NoRow]
      BY Zenon, <2>4 DEF DeleteRow
    <3>3. rows'[c].st = rows[c].st \/ (c = task["cleanup"].c /\ rows'[c].st = "none")
      BY Zenon, <1>0, <3>1, <3>2 DEF NoRow, Row
    <3> QED
      BY Zenon, <2>4, <3>3 DEF RowWritten
  <2>5. CASE DeleteCluster
    BY Zenon, <2>5 DEF DeleteCluster, tables
  <2> QED
    BY Zenon, <1>5, <2>1, <2>2, <2>3, <2>4, <2>5 DEF RemovalSteps
<1>6. CASE OtherSteps
  BY Zenon, <1>6 DEF OtherSteps, Installed, InstallFails, Deleted, Reconfigure, Fail, tables
<1> QED
  BY ZenonT(40), <1>1, <1>2, <1>3, <1>4, <1>5, <1>6, StepKinds

\* What was read of the row that is written now, unless handlers overlap.
LEMMA WrittenFresh ==
    ASSUME TypeOK, FreshInv, races = 0, NEW c \in Clusters, RowWritten(c)
    PROVE  /\ SaveCluster /\ task["clusters"].c = c => rows[c].st = Before(task["clusters"].st)
           /\ MarkForCleanup /\ task["deprovisioning"].c = c => rows[c].st = "deprovisioning"
           /\ RestoreCluster /\ task["deprovisioning"].c = c => rows[c].st = "deprovisioning"
           /\ DeleteRow /\ task["cleanup"].c = c => rows[c].st = "cleanup" /\ c \notin accounts
           /\ \A q \in Requests :
                 /\ task[q].c = c
                 /\ SetClusterStatus(q) \/ SetClusterWaiting(q)
                 => rows[c].st \in {"waiting", "ready"}
<1>1. \A a \in Workers \cup Requests : Fresh(a)
  BY Zenon, Bounds DEF FreshInv
<1>2. Fresh("clusters") /\ Fresh("deprovisioning") /\ Fresh("cleanup")
  BY Zenon, <1>1 DEF Workers
<1>3. SaveCluster /\ task["clusters"].c = c => rows[c].st = Before(task["clusters"].st)
  BY Zenon, <1>2 DEF SaveCluster, Fresh
<1>4. MarkForCleanup \/ RestoreCluster => rows[task["deprovisioning"].c].st = "deprovisioning"
  BY Zenon, <1>2 DEF MarkForCleanup, RestoreCluster, Fresh
<1>5. DeleteRow => rows[task["cleanup"].c].st = "cleanup" /\ task["cleanup"].c \notin accounts
  BY Zenon, <1>2 DEF DeleteRow, Fresh
<1>6. ASSUME NEW q \in Requests, SetClusterStatus(q) \/ SetClusterWaiting(q)
      PROVE  rows[task[q].c].st \in {"waiting", "ready"}
  <2>1. Fresh(q) /\ task[q].op \in {"ready", "waiting"}
    BY Zenon, <1>1, <1>6 DEF SetClusterStatus, SetClusterWaiting
  <2> QED
    BY Zenon, <2>1 DEF Fresh
<1> QED
  BY Zenon, <1>3, <1>4, <1>5, <1>6

\* A deregistration that was accepted goes on.
LEMMA DeregistrationStep ==
    ASSUME TypeOK, FreshInv, Next, races = 0,
           NEW c \in Enterprise, rows[c].st = "deprovisioning"
    PROVE  rows'[c].st \in Leaving
<1>0. c \in Clusters /\ c \notin Managed
  BY Zenon, Bounds DEF Clusters
<1>1. CASE rows'[c].st = rows[c].st
  BY Zenon, <1>1 DEF Leaving
<1>2. ASSUME RowWritten(c)
      PROVE  rows'[c].st \in {"cleanup", "deprovisioning"}
  <2>1. \A st : Before(st) # "deprovisioning"
    BY ZenonT(40) DEF Before
  <2>2. ~(SaveCluster /\ task["clusters"].c = c) /\ ~(DeleteRow /\ task["cleanup"].c = c)
    BY Zenon, <1>0, <1>2, <2>1, WrittenFresh
  <2>3. \A q \in Requests :
            task[q].c = c => ~SetClusterStatus(q) /\ ~SetClusterWaiting(q)
    BY ZenonT(40), <1>0, <1>2, WrittenFresh
  <2> QED
    BY Zenon, <1>0, <1>2, <2>2, <2>3 DEF RowWritten, Exists
<1> QED
  BY Zenon, <1>0, <1>1, <1>2, RowChanges DEF Leaving

\* The cluster at the provider moves, and why.
CloudMoved(c) ==
    /\ c \in Managed
    /\ \/ ProcessCluster(c) /\ rows[c].st = "accepted" /\ cloud'[c] = "installing"
       \/ DeleteCluster /\ task["deprovisioning"].c = c /\ cloud[c] # "none"
          /\ cloud'[c] = "deleting"
       \/ Installed(c) /\ cloud'[c] = "up"
       \/ InstallFails(c) /\ cloud'[c] = "error"
       \/ Deleted(c) /\ cloud'[c] = "none"
       \/ /\ Fail("clusters") /\ task["clusters"].op = "advance" /\ task["clusters"].c = c
          /\ task["clusters"].st = "provisioning" /\ cloud'[c] = "none"

\* Only the cluster manager creates clusters.
LEMMA OnlyManagerAdvances ==
    ASSUME TypeOK, NEW a \in Actors, task[a].op = "advance"
    PROVE  a = "clusters" /\ task[a] \in Advances
<1>1. a \in Requests \/ a \in Workers
  BY Zenon DEF Actors
<1>2. a \notin Requests
  BY SMTT(30), TaskTypes DEF Enrollments, Registrations, Reports, Idle
<1>3. a \notin {"up", "down", "deprovisioning", "cleanup", "accepted"}
  BY TaskTypes DEF ScaleUps, ScaleDowns, Removals, Cleanups, Assignments, Idle
<1> QED
  BY Zenon, <1>1, <1>2, <1>3, TaskKinds DEF Workers

\* What a failed handler leaves at the provider is a cluster it just created.
LEMMA FailLeaves ==
    ASSUME TypeOK, NEW a \in Actors, Fail(a), NEW c \in Clusters
    PROVE  cloud'[c] = cloud[c] \/ CloudMoved(c)
<1>1. cloud = [d \in Clusters |-> cloud[d]]
  BY Zenon DEF TypeOK
<1>2. CASE UNCHANGED cloud
  BY Zenon, <1>2
<1>3. CASE LeftBehind(a) = {"cluster"}
  <2>1. cloud' = [cloud EXCEPT ![task[a].c] = "none"]
    BY Zenon, <1>3 DEF Fail
  <2>2. task[a].op = "advance" /\ task[a].c \in Managed /\ task[a].st = "provisioning"
    BY ZenonT(40), <1>3 DEF LeftBehind
  <2>3. a = "clusters"
    BY Zenon, <2>2, OnlyManagerAdvances
  <2>4. cloud'[c] = cloud[c] \/ (c = task[a].c /\ cloud'[c] = "none")
    BY Zenon, <1>1, <2>1
  <2> QED
    BY Zenon, <2>2, <2>3, <2>4 DEF CloudMoved
<1> QED
  BY Zenon, <1>2, <1>3 DEF Fail

\* Nothing else moves it.
LEMMA CloudChanges ==
    ASSUME TypeOK, Next, NEW c \in Clusters
    PROVE  cloud'[c] = cloud[c] \/ CloudMoved(c)
<1>0. cloud = [d \in Clusters |-> cloud[d]] /\ Managed \subseteq Clusters
  BY Zenon DEF TypeOK, Clusters
<1>1. ASSUME NEW d \in Managed, NEW st, cloud' = [cloud EXCEPT ![d] = st]
      PROVE  cloud'[c] = cloud[c] \/ (c = d /\ cloud'[c] = st)
  BY Zenon, <1>0, <1>1
<1>2. CASE RequestSteps
  BY Zenon, <1>2 DEF RequestSteps, Serving, Place, ReserveQuota, CreateKafka, SetClusterStatus,
     SetClusterWaiting, RegisterClusterJob, DeregisterClusterJob, RegisterEnterpriseCluster,
     DeregisterEnterpriseCluster, ReportStatus, RegisterKafkaJob, outside
<1>3. CASE KafkaSteps
  BY Zenon, <1>3, KafkaStepsKeep
<1>4. CASE ScalingSteps
  BY Zenon, <1>4 DEF ScalingSteps, EvaluateScaleUp, ScaleUp, EvaluateScaleDown, ScaleDown, outside
<1>5. CASE ManagerSteps
  <2>1. ASSUME NEW d \in Clusters, ProcessCluster(d)
        PROVE  cloud'[c] = cloud[c] \/ CloudMoved(c)
    <3>1. CASE Creates(d)
      <4>1. /\ d \in Managed /\ rows[d].st = "accepted"
            /\ cloud' = [cloud EXCEPT ![d] = "installing"]
        BY Zenon, <2>1, <3>1 DEF ProcessCluster, Creates
      <4>2. cloud'[c] = cloud[c] \/ (c = d /\ cloud'[c] = "installing")
        BY Zenon, <1>1, <4>1
      <4>3. c = d => ProcessCluster(c) /\ c \in Managed /\ rows[c].st = "accepted"
        BY Zenon, <2>1, <4>1
      <4> QED
        BY Zenon, <4>2, <4>3 DEF CloudMoved
    <3>2. CASE ~Creates(d)
      BY Zenon, <2>1, <3>2 DEF ProcessCluster
    <3> QED
      BY Zenon, <3>1, <3>2
  <2>2. CASE (\E d \in Clusters : ReconcileReadyCluster(d)) \/ SaveCluster
             \/ ReconcileManualConfig \/ DeprovisionExcess
    BY Zenon, <2>2 DEF ReconcileReadyCluster, SaveCluster, ReconcileManualConfig,
       DeprovisionExcess, outside
  <2> QED
    BY Zenon, <1>5, <2>1, <2>2 DEF ManagerSteps
<1>6. CASE RemovalSteps
  <2>1. CASE DeleteCluster
    <3>1. task["deprovisioning"].c \in Managed
      BY Zenon, <2>1, TaskKinds DEF DeleteCluster
    <3>2. \/ UNCHANGED cloud
          \/ /\ cloud[task["deprovisioning"].c] # "none"
             /\ cloud' = [cloud EXCEPT ![task["deprovisioning"].c] = "deleting"]
      BY Zenon, <2>1 DEF DeleteCluster
    <3> QED
      BY Zenon, <1>1, <2>1, <3>1, <3>2 DEF CloudMoved
  <2>2. CASE (\E d \in Clusters : ProcessDeprovisioning(d) \/ RemoveServiceAccount(d))
             \/ RestoreCluster \/ MarkForCleanup \/ DeleteRow
    BY Zenon, <2>2 DEF ProcessDeprovisioning, RemoveServiceAccount, RestoreCluster,
       MarkForCleanup, DeleteRow, outside
  <2> QED
    BY Zenon, <1>6, <2>1, <2>2 DEF RemovalSteps
<1>7. CASE OtherSteps
  <2>1. ASSUME NEW d \in Managed, Installed(d) \/ InstallFails(d) \/ Deleted(d)
        PROVE  cloud'[c] = cloud[c] \/ CloudMoved(c)
    <3>1. \/ Installed(d) /\ cloud' = [cloud EXCEPT ![d] = "up"]
          \/ InstallFails(d) /\ cloud' = [cloud EXCEPT ![d] = "error"]
          \/ Deleted(d) /\ cloud' = [cloud EXCEPT ![d] = "none"]
      BY Zenon, <2>1 DEF Installed, InstallFails, Deleted
    <3> QED
      BY Zenon, <1>1, <3>1 DEF CloudMoved
  <2>2. CASE \E d \in Managed : Reconfigure(d)
    BY Zenon, <2>2 DEF Reconfigure, outside
  <2> QED
    BY Zenon, <1>7, <2>1, <2>2, FailLeaves DEF OtherSteps
<1> QED
  BY ZenonT(40), <1>2, <1>3, <1>4, <1>5, <1>6, <1>7, StepKinds

\* The kind of scaling never changes, and what was left behind stays known.
LEMMA Lasting ==
    ASSUME TypeOK, Next
    PROVE  scaling' = scaling /\ lost \subseteq lost'
<1>1. RegFrame => scaling' = scaling /\ lost \subseteq lost'
  BY Zenon DEF RegFrame
<1>2. KafkaSteps => scaling' = scaling /\ lost \subseteq lost'
  BY Zenon, KafkaStepsKeep DEF setting
<1>3. ASSUME NEW q \in Requests,
             \/ Place(q) \/ ReserveQuota(q) \/ CreateKafka(q)
             \/ \E r \in Replicas, size \in Sizes, ent \in BOOLEAN :
                   RegisterKafkaJob(q, r, size, ent)
      PROVE  scaling' = scaling /\ lost \subseteq lost'
  BY Zenon, <1>3 DEF Place, ReserveQuota, CreateKafka, RegisterKafkaJob, setting
<1>4. ASSUME NEW a \in Actors, Fail(a)
      PROVE  scaling' = scaling /\ lost \subseteq lost'
  BY Zenon, <1>4 DEF Fail, setting
<1> QED
  BY Zenon, <1>1, <1>2, <1>3, <1>4, RegKinds DEF RegSteps

\* Accounts are created when a managed cluster is terraformed and when a
\* customer registers one.
LEMMA AccountsGrow ==
    ASSUME TypeOK, Next, NEW c \in accounts'
    PROVE  \/ c \in accounts
           \/ c \in Clusters /\ ProcessCluster(c) /\ rows[c].st = "provisioned"
           \/ \E q \in Requests : RegisterEnterpriseCluster(q, c)
<1>1. CASE accounts' \subseteq accounts
  BY Zenon, <1>1
<1>2. CASE RequestSteps
  <2>1. PICK q \in Requests :
            \/ Serving(q)
            \/ \E d \in Clusters : RegisterEnterpriseCluster(q, d)
                                    \/ DeregisterEnterpriseCluster(q, d)
            \/ \E d \in Clusters, kind \in {"first", "again", "trouble"} :
                  ReportStatus(q, d, kind)
            \/ \E r \in Replicas, size \in Sizes, ent \in BOOLEAN :
                  RegisterKafkaJob(q, r, size, ent)
    BY Zenon, <1>2 DEF RequestSteps
  <2>2. ASSUME NEW d \in Clusters, RegisterEnterpriseCluster(q, d)
        PROVE  c \in accounts \/ RegisterEnterpriseCluster(q, c)
    <3>1. accounts' = accounts \cup {d}
      BY Zenon, <2>2 DEF RegisterEnterpriseCluster
    <3> QED
      BY Zenon, <2>2, <3>1
  <2>3. (\E d \in Clusters : RegisterEnterpriseCluster(q, d)) \/ UNCHANGED accounts
    BY Zenon, <2>1 DEF Serving, Place, ReserveQuota, CreateKafka, SetClusterStatus,
     SetClusterWaiting, RegisterClusterJob, DeregisterClusterJob,
     DeregisterEnterpriseCluster, ReportStatus, RegisterKafkaJob, outside
  <2> QED
    BY Zenon, <2>2, <2>3
<1>3. CASE KafkaSteps
  <2>1. UNCHANGED accounts
    BY Zenon, <1>3 DEF KafkaSteps, AssignKafka, FindClusterForKafka, KafkaTimesOut,
         KafkaDeprovision, KafkaDeleting, KafkaRemoved, outside
  <2> QED
    BY Zenon, <2>1
<1>4. CASE ScalingSteps
  <2>1. UNCHANGED accounts
    BY Zenon, <1>4 DEF ScalingSteps, EvaluateScaleUp, ScaleUp, EvaluateScaleDown, ScaleDown,
       outside
  <2> QED
    BY Zenon, <2>1
<1>5. CASE ManagerSteps
  <2>1. ASSUME NEW d \in Clusters, ProcessCluster(d)
        PROVE  c \in accounts \/ (c = d /\ rows[d].st = "provisioned")
    BY Zenon, <2>1 DEF ProcessCluster, Terraforms
  <2>2. (\E d \in Clusters : ProcessCluster(d)) \/ UNCHANGED accounts
    BY Zenon, <1>5 DEF ManagerSteps, ReconcileReadyCluster, SaveCluster,
       ReconcileManualConfig, DeprovisionExcess, outside
  <2> QED
    BY Zenon, <2>1, <2>2
<1>6. CASE RemovalSteps
  <2>1. accounts' \subseteq accounts
    BY Zenon, <1>6 DEF RemovalSteps, ProcessDeprovisioning, RemoveServiceAccount,
       RestoreCluster, DeleteCluster, MarkForCleanup, DeleteRow, outside
  <2> QED
    BY Zenon, <2>1
<1>7. CASE OtherSteps
  <2>1. UNCHANGED accounts
    BY Zenon, <1>7 DEF OtherSteps, Installed, InstallFails, Deleted, Reconfigure, Fail, outside
  <2> QED
    BY Zenon, <2>1
<1> QED
  BY ZenonT(40), <1>2, <1>3, <1>4, <1>5, <1>6, <1>7, StepKinds

\* A registration of a cluster ends with its row, or fails.
LEMMA EnrollEnds ==
    ASSUME TypeOK, Next, NEW q \in Requests, task[q].op = "enroll"
    PROVE  task'[q] = task[q] \/ RegisterClusterJob(q) \/ Fail(q)
<1>0. q \in Actors /\ \A a \in Workers : a \in Actors /\ a # q
  BY Zenon, Bounds
<1>1. ASSUME NEW o \in Actors, NEW t, Do(o, t), o # q
      PROVE  task'[q] = task[q]
  BY Zenon, <1>0, <1>1, DoFrame
<1>2. CASE RequestSteps
  <2>1. PICK o \in Requests :
            \/ Serving(o)
            \/ \E d \in Clusters : RegisterEnterpriseCluster(o, d)
                                    \/ DeregisterEnterpriseCluster(o, d)
            \/ \E d \in Clusters, kind \in {"first", "again", "trouble"} :
                  ReportStatus(o, d, kind)
            \/ \E r \in Replicas, size \in Sizes, ent \in BOOLEAN :
                  RegisterKafkaJob(o, r, size, ent)
    BY Zenon, <1>2 DEF RequestSteps
  <2>2. \E t : Do(o, t)
    BY Zenon, <2>1 DEF Serving, Place, ReserveQuota, CreateKafka, SetClusterStatus,
     SetClusterWaiting, RegisterClusterJob, DeregisterClusterJob, RegisterEnterpriseCluster,
     DeregisterEnterpriseCluster, ReportStatus, RegisterKafkaJob, Done
  <2>3. CASE o = q
    <3>1. task[q] # Idle /\ task[q].op \notin {"place", "reserve", "insert", "ready", "waiting",
                                               "deregister"}
      BY DEF Idle
    <3> QED
      BY ZenonT(40), <2>1, <2>3, <3>1 DEF Serving, Place, ReserveQuota, CreateKafka, SetClusterStatus,
         SetClusterWaiting, DeregisterClusterJob, RegisterEnterpriseCluster,
         DeregisterEnterpriseCluster, ReportStatus, RegisterKafkaJob, Free
  <2> QED
    BY Zenon, <1>1, <2>2, <2>3, Bounds
<1>3. CASE KafkaSteps
  BY Zenon, <1>3, KafkaStepsKeep
<1>4. CASE ManagerSteps \/ ScalingSteps \/ RemovalSteps
  <2>1. \E a \in Workers : \E t : Do(a, t)
    <3>1. "clusters" \in Workers /\ "up" \in Workers /\ "down" \in Workers
          /\ "deprovisioning" \in Workers /\ "cleanup" \in Workers
      BY Zenon DEF Workers
    <3>2. ManagerSteps => \E t : Do("clusters", t)
      BY Zenon DEF ManagerSteps, ProcessCluster, ReconcileReadyCluster, SaveCluster,
                       ReconcileManualConfig, DeprovisionExcess, Done
    <3>3. ScalingSteps => (\E t : Do("up", t)) \/ (\E t : Do("down", t))
      BY Zenon DEF ScalingSteps, EvaluateScaleUp, ScaleUp, EvaluateScaleDown, ScaleDown, Done
    <3>4. RemovalSteps => (\E t : Do("deprovisioning", t)) \/ (\E t : Do("cleanup", t))
      BY Zenon DEF RemovalSteps, ProcessDeprovisioning, RemoveServiceAccount,
                       RestoreCluster, DeleteCluster, MarkForCleanup, DeleteRow, Done
    <3> QED
      BY ZenonT(40), <1>4, <3>1, <3>2, <3>3, <3>4
  <2> QED
    BY Zenon, <1>0, <1>1, <2>1
<1>5. CASE OtherSteps
  <2>1. ASSUME NEW c \in Managed,
               Installed(c) \/ InstallFails(c) \/ Deleted(c) \/ Reconfigure(c)
        PROVE  UNCHANGED task
    BY Zenon, <2>1 DEF Installed, InstallFails, Deleted, Reconfigure
  <2>2. ASSUME NEW a \in Actors, Fail(a)
        PROVE  task'[q] = task[q] \/ Fail(q)
    BY Zenon, <1>1, <2>2 DEF Fail, Done
  <2> QED
    BY Zenon, <1>5, <2>1, <2>2 DEF OtherSteps
<1> QED
  BY Zenon, <1>2, <1>3, <1>4, <1>5, StepKinds

-----------------------------------------------------------------------------
(* What a removed cluster leaves.                                          *)

\* An account belongs to a row, or to a registration about to insert one.
AccountInv ==
    races = 0 /\ "account" \notin lost =>
        \A c \in accounts :
            Exists(c) \/ \E q \in Requests : task[q] = [op |-> "enroll", c |-> c]

\* A managed cluster is gone from the provider before its row is.
GoneInv ==
    races = 0 /\ scaling = "auto" =>
        \A c \in Managed : rows[c].st \in {"none", "cleanup"} => cloud[c] = "none"

\* The row of an account stays.
LEMMA AccountRowKept ==
    ASSUME TypeOK, FreshInv, Next, races = 0, NEW c \in accounts, Exists(c)
    PROVE  Exists(c)'
<1>1. c \in Clusters
  BY Zenon DEF TypeOK
<1>2. CASE rows'[c].st = rows[c].st
  BY Zenon, <1>2 DEF Exists
<1>3. ASSUME RowWritten(c)
      PROVE  rows'[c].st # "none"
  <2>1. ~(DeleteRow /\ task["cleanup"].c = c)
    BY Zenon, <1>1, <1>3, WrittenFresh
  <2>2. SaveCluster => task["clusters"].st # "none"
    <3>1. SaveCluster => task["clusters"] \in Advances
      BY Zenon, TaskKinds DEF SaveCluster
    <3> QED
      BY ZenonT(40), <3>1 DEF Advances
  <2> QED
    BY Zenon, <1>3, <2>1, <2>2 DEF RowWritten
<1> QED
  BY Zenon, <1>1, <1>2, <1>3, RowChanges DEF Exists

\* Every step keeps accounts with rows.
LEMMA AccountStep ==
    ASSUME TypeOK, TypeOK', LoneInv, FreshInv, AccountInv, Next
    PROVE  AccountInv'
<1> SUFFICES ASSUME races' = 0, "account" \notin lost', NEW c \in accounts'
             PROVE  Exists(c)' \/ \E q \in Requests : task'[q] = [op |-> "enroll", c |-> c]
  BY Zenon DEF AccountInv
<1>1. races = 0 /\ "account" \notin lost
  BY Zenon, LoneStep, Lasting
<1>2. CASE c \in accounts /\ Exists(c)
  BY Zenon, <1>1, <1>2, AccountRowKept
<1>3. ASSUME c \in accounts, ~Exists(c)
      PROVE  Exists(c)' \/ \E q \in Requests : task'[q] = [op |-> "enroll", c |-> c]
  <2>1. PICK q \in Requests : task[q] = [op |-> "enroll", c |-> c]
    BY Zenon, <1>1, <1>3 DEF AccountInv
  <2>2. task[q].op = "enroll" /\ task[q].c = c
    BY <2>1
  <2>3. ~Fail(q)
    <3>1. LeftBehind(q) = {"account"}
      BY ZenonT(40), <2>2 DEF LeftBehind
    <3> QED
      BY Zenon, <3>1 DEF Fail
  <2>4. ASSUME RegisterClusterJob(q)
        PROVE  Exists(c)'
    <3>1. rows' = [rows EXCEPT ![c] = Row("accepted", 0)]
      BY Zenon, <1>3, <2>2, <2>4 DEF RegisterClusterJob
    <3>2. c \in Clusters /\ rows = [d \in Clusters |-> rows[d]]
      BY Zenon, <1>3 DEF TypeOK
    <3> QED
      BY Zenon, <3>1, <3>2 DEF Exists, Row
  <2> QED
    BY Zenon, <2>1, <2>2, <2>3, <2>4, EnrollEnds
<1>4. ASSUME c \in Clusters, ProcessCluster(c), rows[c].st = "provisioned"
      PROVE  Exists(c)'
  BY Zenon, <1>4 DEF ProcessCluster, tables, Exists
<1>5. ASSUME NEW q \in Requests, RegisterEnterpriseCluster(q, c)
      PROVE  task'[q] = [op |-> "enroll", c |-> c]
  BY Zenon, <1>5, DoFrame, Bounds DEF RegisterEnterpriseCluster
<1> QED
  BY Zenon, <1>2, <1>3, <1>4, <1>5, AccountsGrow

\* Every step keeps a managed cluster's row as long as the cluster.
LEMMA GoneStep ==
    ASSUME TypeOK, LoneInv, FreshInv, GoneInv, Next
    PROVE  GoneInv'
<1> SUFFICES ASSUME races' = 0, scaling' = "auto", NEW c \in Managed,
                    rows'[c].st \in {"none", "cleanup"}
             PROVE  cloud'[c] = "none"
  BY Zenon DEF GoneInv
<1>0. races = 0 /\ scaling = "auto" /\ c \in Clusters
  BY Zenon, LoneStep, Lasting DEF Clusters
<1>1. rows[c].st \in {"none", "cleanup"} => cloud[c] = "none"
  BY Zenon, <1>0 DEF GoneInv
<1>2. ASSUME rows'[c].st = rows[c].st
      PROVE  cloud'[c] = "none"
  <2>1. cloud[c] = "none" /\ rows[c].st # "accepted"
    BY Zenon, <1>1, <1>2
  <2> QED
    BY Zenon, <1>0, <2>1, CloudChanges DEF CloudMoved, Installed, InstallFails, Deleted
<1>3. ASSUME RowWritten(c)
      PROVE  cloud'[c] = "none"
  <2>1. SaveCluster => task["clusters"].st \notin {"none", "cleanup"}
    <3>1. SaveCluster => task["clusters"] \in Advances
      BY Zenon, TaskKinds DEF SaveCluster
    <3> QED
      BY ZenonT(40), <3>1 DEF Advances
  <2>2. \/ MarkForCleanup /\ task["deprovisioning"].c = c
        \/ DeleteRow /\ task["cleanup"].c = c
    BY Zenon, <1>3, <2>1 DEF RowWritten
  <2>3. ASSUME MarkForCleanup, task["deprovisioning"].c = c
        PROVE  cloud'[c] = "none"
    <3>1. Fresh("deprovisioning")
      BY Zenon, <1>0, Bounds DEF FreshInv, Workers
    <3> QED
      BY Zenon, <2>3, <3>1 DEF MarkForCleanup, Fresh, outside
  <2>4. ASSUME DeleteRow, task["cleanup"].c = c
        PROVE  cloud'[c] = "none"
    <3>1. rows[c].st = "cleanup"
      BY Zenon, <1>0, <1>3, <2>4, WrittenFresh
    <3> QED
      BY Zenon, <1>1, <2>4, <3>1 DEF DeleteRow, outside
  <2> QED
    BY Zenon, <2>2, <2>3, <2>4
<1> QED
  BY Zenon, <1>0, <1>2, <1>3, RowChanges

\* Nothing is left when a row is gone and nobody is about the cluster.
LEMMA RemovedCleanly ==
    ASSUME TypeOK, AccountInv, GoneInv
    PROVE  CleanRemoval
<1> SUFFICES ASSUME NEW c \in Clusters, races = 0, "account" \notin lost, ~Exists(c), ~Held(c)
             PROVE  /\ c \notin accounts
                    /\ scaling = "auto" /\ c \in Managed => cloud[c] = "none"
  BY Zenon DEF CleanRemoval
<1>1. ASSUME NEW q \in Requests, task[q] = [op |-> "enroll", c |-> c]
      PROVE  FALSE
  <2>1. task[q] # Idle /\ "c" \in DOMAIN task[q] /\ task[q].c = c
    BY <1>1 DEF Idle
  <2> QED
    BY Zenon, <2>1, Bounds DEF Held
<1> QED
  BY Zenon, <1>1 DEF AccountInv, GoneInv, Exists

-----------------------------------------------------------------------------
(* Scale down and the scale up that would follow.                          *)

\* The list that the pass works through is how things are, and the cluster it
\* is about to remove should go.
ScanInv ==
    task["down"] # Idle =>
        /\ scaling = "auto"
        /\ races = 0 => /\ task["down"].list = Counts
                        /\ ShouldScaleDown(task["down"].list, task["down"].c)

\* The pass goes on with a cluster that should go.
LEMMA ScanFinds ==
    ASSUME NEW l, NEW last, ScanFrom(l, last) # Idle
    PROVE  /\ ScanFrom(l, last).op = "scaledown" /\ ScanFrom(l, last).list = l
           /\ ScanFrom(l, last).c \in Managed /\ ShouldScaleDown(l, ScanFrom(l, last).c)
<1>1. Victims(l, last) # {}
  BY Zenon DEF ScanFrom
<1>2. Victims(l, last) \subseteq Managed
  BY Zenon DEF Victims
<1>3. Min(Victims(l, last)) \in Victims(l, last)
  BY Zenon, <1>1, <1>2, LeastOf, Bounds
<1>4. ScanFrom(l, last) = [op |-> "scaledown", c |-> Min(Victims(l, last)), list |-> l]
  BY Zenon, <1>1 DEF ScanFrom
<1>5. Min(Victims(l, last)) \in Managed /\ ShouldScaleDown(l, Min(Victims(l, last)))
  BY Zenon, <1>3 DEF Victims
<1> QED
  BY <1>4, <1>5

\* While scale down is alone, nobody else goes on.
LEMMA DownAlone ==
    ASSUME TypeOK, LoneInv, races = 0, task["down"] # Idle
    PROVE  /\ ~Quiet /\ task["clusters"].op = "none" /\ task["up"].op = "none"
           /\ task["deprovisioning"].op = "none" /\ task["cleanup"].op = "none"
           /\ task["accepted"].op = "none" /\ \A q \in Requests : task[q].op = "none"
<1>1. \A a \in Workers \cup Requests : a \in Actors
  BY Zenon, Bounds
<1>2. \A b \in Actors : b # "down" => task[b] = Idle
  BY Zenon, <1>1 DEF LoneInv, Workers
<1>3. \A q \in Requests : q # "down"
  BY Zenon, Bounds DEF Workers
<1>4. Idle.op = "none"
  BY DEF Idle
<1> QED
  BY Zenon, <1>1, <1>2, <1>3, <1>4 DEF Workers, Quiet

\* Then it alone writes rows.
LEMMA DownWrites ==
    ASSUME TypeOK, LoneInv, races = 0, task["down"] # Idle, scaling = "auto", Next
    PROVE  UNCHANGED rows \/ ScaleDown
<1>1. CASE RequestSteps
  BY ZenonT(40), <1>1, DownAlone DEF RequestSteps, Serving, Place, ReserveQuota, CreateKafka,
     SetClusterStatus, SetClusterWaiting, RegisterClusterJob, DeregisterClusterJob,
     RegisterEnterpriseCluster, DeregisterEnterpriseCluster, ReportStatus, RegisterKafkaJob, tables
<1>2. CASE KafkaSteps
  BY Zenon, <1>2, KafkaStepsKeep
<1>3. CASE ManagerSteps
  BY Zenon, <1>3, DownAlone DEF ManagerSteps, ProcessCluster, ReconcileReadyCluster, SaveCluster,
     ReconcileManualConfig, DeprovisionExcess, tables
<1>4. CASE ScalingSteps
  BY Zenon, <1>4, DownAlone DEF ScalingSteps, EvaluateScaleUp, ScaleUp, EvaluateScaleDown, tables
<1>5. CASE RemovalSteps
  BY Zenon, <1>5, DownAlone DEF RemovalSteps, ProcessDeprovisioning, RemoveServiceAccount,
     RestoreCluster, DeleteCluster, MarkForCleanup, DeleteRow, tables
<1>6. CASE OtherSteps
  BY Zenon, <1>6 DEF OtherSteps, Installed, InstallFails, Deleted, Reconfigure, Fail, tables
<1> QED
  BY Zenon, <1>1, <1>2, <1>3, <1>4, <1>5, <1>6, StepKinds

\* And as long as nobody starts either, Kafkas only time out.
LEMMA DownKafkas ==
    ASSUME TypeOK, LoneInv, races = 0, races' = 0, task["down"] # Idle, Next
    PROVE  UNCHANGED kafkas \/ \E k \in Kafkas : KafkaTimesOut(k)
<1>1. ~Starts
  BY DownAlone, StartCounts
<1>2. RegFrame => UNCHANGED kafkas
  BY Zenon DEF RegFrame
<1>3. ASSUME NEW q \in Requests,
             \/ Place(q) \/ ReserveQuota(q) \/ CreateKafka(q)
             \/ \E r \in Replicas, size \in Sizes, ent \in BOOLEAN :
                   RegisterKafkaJob(q, r, size, ent)
      PROVE  UNCHANGED kafkas
  BY Zenon, <1>1, <1>3, DownAlone DEF Place, ReserveQuota, CreateKafka, RegisterKafkaJob, tables
<1>4. CASE KafkaSteps
  BY Zenon, <1>1, <1>4, DownAlone DEF KafkaSteps, AssignKafka, FindClusterForKafka,
     KafkaDeprovision, KafkaDeleting, KafkaRemoved
<1>5. ASSUME NEW a \in Actors, Fail(a)
      PROVE  UNCHANGED kafkas
  BY Zenon, <1>5 DEF Fail, tables
<1> QED
  BY Zenon, <1>2, <1>3, <1>4, <1>5, RegKinds DEF RegSteps

\* Such a step changes no count.
LEMMA UsedKept ==
    ASSUME TypeOK, UNCHANGED kafkas \/ \E k \in Kafkas : KafkaTimesOut(k),
           NEW c \in Clusters
    PROVE  Used(c)' = Used(c)
<1>1. CASE UNCHANGED kafkas
  BY Zenon, <1>1 DEF Used, Total, HostedBy, Size
<1>2. ASSUME NEW k \in Kafkas, KafkaTimesOut(k)
      PROVE  Used(c)' = Used(c)
  <2>1. c # Nowhere
    BY Zenon, Bounds
  <2>2. HostedBy(c)' = HostedBy(c) /\ \A j \in HostedBy(c) : kafkas'[j] = kafkas[j]
    BY Zenon, <1>2, <2>1, TimedOutElsewhere
  <2>3. {x \in HostedBy(c)' \X (1..Units) : x[2] <= kafkas'[x[1]].size}
           = {x \in HostedBy(c) \X (1..Units) : x[2] <= kafkas[x[1]].size}
    BY Zenon, <2>2
  <2> QED
    BY Zenon, <2>3 DEF Used, Total, Size
<1> QED
  BY Zenon, <1>1, <1>2

\* Scale down leaves behind the list it keeps in memory.
LEMMA ListKept ==
    ASSUME TypeOK, ScaleDown, task["down"].list = Counts,
           ShouldScaleDown(Counts, task["down"].c)
    PROVE  /\ task["down"].c \in Managed
           /\ Counts' = [Counts EXCEPT ![task["down"].c] =
                           [st |-> "deprovisioning", units |-> @.units, used |-> @.used]]
<1> DEFINE c == task["down"].c
<1>1. c \in Managed /\ c \in Clusters /\ Managed \subseteq Clusters
  BY Zenon, TaskKinds DEF ScaleDown, ScaleDowns, Clusters
<1>2. rows[c].st = "ready"
  BY Zenon, <1>1 DEF ShouldScaleDown, Counts
<1>3. rows' = [rows EXCEPT ![c] = Row("deprovisioning", rows[c].units)] /\ UNCHANGED kafkas
  BY Zenon, <1>2 DEF ScaleDown, SetStatus, Exists
<1> HIDE DEF c
<1>4. \A d \in Managed : Used(d)' = Used(d)
  BY Zenon, <1>1, <1>3, UsedKept
<1>5. rows'[c].st = "deprovisioning" /\ rows'[c].units = rows[c].units
      /\ \A d \in Managed : d # c => rows'[d] = rows[d]
  BY Zenon, <1>1, <1>3 DEF TypeOK, Row
<1>6. Counts' = [d \in Managed |->
                   IF d = c THEN [st |-> "deprovisioning", units |-> Counts[c].units,
                                  used |-> Counts[c].used]
                   ELSE Counts[d]]
  <2>1. ASSUME NEW d \in Managed
        PROVE  [st |-> rows'[d].st, units |-> rows'[d].units, used |-> Used(d)']
               = IF d = c THEN [st |-> "deprovisioning", units |-> Counts[c].units,
                                used |-> Counts[c].used]
                 ELSE Counts[d]
    BY Zenon, <1>1, <1>4, <1>5 DEF Counts
  <2> QED
    BY Zenon, <2>1 DEF Counts
<1>7. Counts = [d \in Managed |-> Counts[d]]
  BY Zenon DEF Counts
<1> QED
  BY ZenonT(40), <1>1, <1>6, <1>7 DEF c

\* The steps of actor a.
OwnSteps(a) ==
    \/ a \in Requests
       /\ \/ Serving(a)
          \/ \E c \in Clusters : RegisterEnterpriseCluster(a, c)
                                  \/ DeregisterEnterpriseCluster(a, c)
          \/ \E c \in Clusters, kind \in {"first", "again", "trouble"} : ReportStatus(a, c, kind)
          \/ \E r \in Replicas, size \in Sizes, ent \in BOOLEAN : RegisterKafkaJob(a, r, size, ent)
    \/ a = "clusters" /\ ManagerSteps
    \/ a = "up" /\ (EvaluateScaleUp \/ ScaleUp)
    \/ a = "down" /\ (EvaluateScaleDown \/ ScaleDown)
    \/ a = "deprovisioning"
       /\ \/ RestoreCluster \/ DeleteCluster \/ MarkForCleanup
          \/ \E c \in Clusters : ProcessDeprovisioning(c)
    \/ a = "cleanup" /\ (DeleteRow \/ \E c \in Clusters : RemoveServiceAccount(c))
    \/ a = "accepted" /\ (AssignKafka \/ \E k \in Kafkas : FindClusterForKafka(k))
    \/ Fail(a)

\* An actor turns to something else only by a step of its own.
LEMMA TaskChanges ==
    ASSUME TypeOK, Next, NEW b \in Actors
    PROVE  task'[b] = task[b] \/ OwnSteps(b)
<1>0. /\ "clusters" \in Actors /\ "up" \in Actors /\ "down" \in Actors
      /\ "deprovisioning" \in Actors /\ "cleanup" \in Actors /\ "accepted" \in Actors
  BY Zenon DEF Actors, Workers
<1>1. ASSUME NEW a \in Actors, NEW t, Do(a, t), OwnSteps(a)
      PROVE  task'[b] = task[b] \/ OwnSteps(b)
  BY Zenon, <1>1, DoFrame
<1>2. CASE RequestSteps
  <2>1. PICK o \in Requests :
            \/ Serving(o)
            \/ \E d \in Clusters : RegisterEnterpriseCluster(o, d)
                                    \/ DeregisterEnterpriseCluster(o, d)
            \/ \E d \in Clusters, kind \in {"first", "again", "trouble"} :
                  ReportStatus(o, d, kind)
            \/ \E r \in Replicas, size \in Sizes, ent \in BOOLEAN :
                  RegisterKafkaJob(o, r, size, ent)
    BY Zenon, <1>2 DEF RequestSteps
  <2>2. \E t : Do(o, t)
    BY Zenon, <2>1 DEF Serving, Place, ReserveQuota, CreateKafka, SetClusterStatus,
     SetClusterWaiting, RegisterClusterJob, DeregisterClusterJob, RegisterEnterpriseCluster,
     DeregisterEnterpriseCluster, ReportStatus, RegisterKafkaJob, Done
  <2>3. OwnSteps(o) /\ o \in Actors
    BY Zenon, <2>1, Bounds DEF OwnSteps
  <2> QED
    BY Zenon, <1>1, <2>2, <2>3
<1>3. CASE KafkaSteps
  <2>1. ASSUME AssignKafka \/ \E k \in Kafkas : FindClusterForKafka(k)
        PROVE  OwnSteps("accepted") /\ \E t : Do("accepted", t)
    BY Zenon, <2>1 DEF OwnSteps, AssignKafka, FindClusterForKafka, Done
  <2>2. ASSUME NEW k \in Kafkas,
               KafkaTimesOut(k) \/ KafkaDeprovision(k) \/ KafkaDeleting(k) \/ KafkaRemoved(k)
        PROVE  UNCHANGED task
    BY Zenon, <2>2 DEF KafkaTimesOut, KafkaDeprovision, KafkaDeleting, KafkaRemoved
  <2> QED
    BY Zenon, <1>0, <1>1, <1>3, <2>1, <2>2 DEF KafkaSteps
<1>4. CASE ManagerSteps
  <2>1. \E t : Do("clusters", t)
    BY Zenon, <1>4 DEF ManagerSteps, ProcessCluster, ReconcileReadyCluster, SaveCluster,
                       ReconcileManualConfig, DeprovisionExcess, Done
  <2> QED
    BY Zenon, <1>0, <1>1, <1>4, <2>1 DEF OwnSteps
<1>5. CASE ScalingSteps
  <2>1. ASSUME EvaluateScaleUp \/ ScaleUp
        PROVE  OwnSteps("up") /\ \E t : Do("up", t)
    BY Zenon, <2>1 DEF EvaluateScaleUp, ScaleUp, Done, OwnSteps
  <2>2. ASSUME EvaluateScaleDown \/ ScaleDown
        PROVE  OwnSteps("down") /\ \E t : Do("down", t)
    BY Zenon, <2>2 DEF EvaluateScaleDown, ScaleDown, OwnSteps
  <2> QED
    BY Zenon, <1>0, <1>1, <1>5, <2>1, <2>2 DEF ScalingSteps
<1>6. CASE RemovalSteps
  <2>1. ASSUME RestoreCluster \/ DeleteCluster \/ MarkForCleanup
               \/ \E c \in Clusters : ProcessDeprovisioning(c)
        PROVE  OwnSteps("deprovisioning") /\ \E t : Do("deprovisioning", t)
    BY Zenon, <2>1 DEF RestoreCluster, DeleteCluster, MarkForCleanup, ProcessDeprovisioning,
       Done, OwnSteps
  <2>2. ASSUME DeleteRow \/ \E c \in Clusters : RemoveServiceAccount(c)
        PROVE  OwnSteps("cleanup") /\ \E t : Do("cleanup", t)
    BY Zenon, <2>2 DEF DeleteRow, RemoveServiceAccount, Done, OwnSteps
  <2> QED
    BY Zenon, <1>0, <1>1, <1>6, <2>1, <2>2 DEF RemovalSteps
<1>7. CASE OtherSteps
  <2>1. ASSUME NEW c \in Managed,
               Installed(c) \/ InstallFails(c) \/ Deleted(c) \/ Reconfigure(c)
        PROVE  UNCHANGED task
    BY Zenon, <2>1 DEF Installed, InstallFails, Deleted, Reconfigure
  <2>2. ASSUME NEW a \in Actors, Fail(a)
        PROVE  task'[b] = task[b] \/ OwnSteps(b)
    BY Zenon, <1>1, <2>2 DEF Fail, Done, OwnSteps
  <2> QED
    BY Zenon, <1>7, <2>1, <2>2 DEF OtherSteps
<1> QED
  BY Zenon, <1>2, <1>3, <1>4, <1>5, <1>6, <1>7, StepKinds

\* Every step keeps the list true.
LEMMA ScanStep ==
    ASSUME TypeOK, LoneInv, ScanInv, Next
    PROVE  ScanInv'
<1> SUFFICES ASSUME task'["down"] # Idle
             PROVE  /\ scaling' = "auto"
                    /\ races' = 0 => /\ task'["down"].list = Counts'
                                     /\ ShouldScaleDown(task'["down"].list, task'["down"].c)
  BY Zenon DEF ScanInv
<1>0. scaling' = scaling /\ "down" \in Actors /\ "down" \notin Requests
      /\ Managed \subseteq Clusters
  BY Zenon, Lasting, Bounds DEF Actors, Workers, Clusters
<1>1. CASE EvaluateScaleDown
  <2>1. scaling = "auto" /\ task'["down"] = ScanFrom(Counts, 0) /\ UNCHANGED <<rows, kafkas>>
    BY Zenon, <1>0, <1>1, DoFrame DEF EvaluateScaleDown, tables
  <2>2. task'["down"].list = Counts /\ ShouldScaleDown(Counts, task'["down"].c)
    BY Zenon, <2>1, ScanFinds
  <2>3. Counts' = Counts
    BY Zenon, <2>1 DEF Counts, Used, Total, Size, HostedBy
  <2> QED
    BY Zenon, <1>0, <2>1, <2>2, <2>3
<1>2. CASE ScaleDown
  <2>1. /\ task["down"] # Idle
        /\ task'["down"] = ScanFrom([task["down"].list EXCEPT ![task["down"].c] =
              [st |-> "deprovisioning", units |-> @.units, used |-> @.used]], task["down"].c)
    <3>1. task["down"] # Idle
      BY <1>2 DEF ScaleDown, Idle
    <3> QED
      BY Zenon, <1>0, <1>2, <3>1, DoFrame DEF ScaleDown
  <2>2. scaling = "auto"
    BY Zenon, <2>1 DEF ScanInv
  <2>3. ASSUME races' = 0
        PROVE  /\ task'["down"].list = Counts'
               /\ ShouldScaleDown(task'["down"].list, task'["down"].c)
    <3>1. /\ task["down"].list = Counts /\ ShouldScaleDown(Counts, task["down"].c)
      BY Zenon, <2>1, <2>3, LoneStep DEF ScanInv
    <3>2. task'["down"] = ScanFrom(Counts', task["down"].c)
      BY Zenon, <1>2, <2>1, <3>1, ListKept
    <3>3. ASSUME NEW l, task'["down"] = ScanFrom(l, task["down"].c)
          PROVE  task'["down"].list = l /\ ShouldScaleDown(l, task'["down"].c)
      BY ZenonT(40), <3>3, ScanFinds
    <3> QED
      BY Zenon, <3>2, <3>3
  <2> QED
    BY Zenon, <1>0, <2>2, <2>3
<1>3. ASSUME task'["down"] = task["down"], ~ScaleDown
      PROVE  /\ scaling' = "auto"
             /\ races' = 0 => /\ task'["down"].list = Counts'
                              /\ ShouldScaleDown(task'["down"].list, task'["down"].c)
  <2>1. scaling = "auto"
    BY Zenon, <1>3 DEF ScanInv
  <2>2. ASSUME races' = 0
        PROVE  Counts' = Counts /\ races = 0
    <3>1. races = 0 /\ UNCHANGED rows
      BY Zenon, <1>3, <2>1, <2>2, LoneStep, DownWrites
    <3>2. \A c \in Managed : Used(c)' = Used(c)
      BY Zenon, <1>0, <1>3, <2>2, <3>1, DownKafkas, UsedKept
    <3> QED
      BY Zenon, <3>1, <3>2 DEF Counts
  <2> QED
    BY Zenon, <1>0, <1>3, <2>1, <2>2 DEF ScanInv
<1>4. ~Fail("down")
  BY Zenon, <1>0, DoFrame DEF Fail, Done
<1>5. EvaluateScaleDown \/ ScaleDown \/ task'["down"] = task["down"]
  BY Zenon, <1>0, <1>4, TaskChanges DEF OwnSteps
<1> QED
  BY Zenon, <1>1, <1>2, <1>3, <1>5

\* What scale down leaves asks for no scale up: without the cluster and those
\* on their way the list asked for none.
LEMMA NothingFollows ==
    ASSUME NEW l, NEW m, NEW c \in Managed, ShouldScaleDown(l, c),
           m = [d \in Managed |-> IF d = c THEN [st |-> "deprovisioning", units |-> l[c].units,
                                                 used |-> l[c].used]
                                  ELSE l[d]]
    PROVE  ~ShouldScaleUp(m, Managed)
<1> DEFINE S == {o \in Managed \ {c} : l[o].st \notin Terraforming}
           R == {d \in Managed : m[d].st = "ready"}
<1>1. m[c].st = "deprovisioning" /\ \A d \in Managed : d # c => m[d] = l[d]
  BY Zenon
<1>2. R = {d \in S : l[d].st = "ready"}
  BY Zenon, <1>1 DEF Terraforming
<1>3. \A d \in R : m[d] = l[d]
  BY Zenon, <1>1
<1>4. ~ShouldScaleUp(l, S) /\ \A d \in S : l[d].st \notin Terraforming
  BY Zenon DEF ShouldScaleDown
<1> HIDE DEF S, R
<1>5. Consumed(m, R) = Consumed(l, R) /\ Maximum(m, R) = Maximum(l, R)
  <2>1. [d \in R |-> m[d].used] = [d \in R |-> l[d].used]
        /\ [d \in R |-> m[d].units] = [d \in R |-> l[d].units]
    BY <1>3
  <2> QED
    BY Zenon, <2>1 DEF Consumed, Maximum
<1>6. ShouldScaleUp(m, Managed) =>
          /\ Consumed(m, R) < RegionLimit
          /\ \/ \A d \in R : m[d].units - m[d].used < Biggest
             \/ Maximum(m, R) - Consumed(m, R) < Slack
  BY Zenon DEF ShouldScaleUp, R
<1>7. ~(/\ Consumed(l, R) < RegionLimit
        /\ \/ \A d \in R : l[d].units - l[d].used < Biggest
           \/ Maximum(l, R) - Consumed(l, R) < Slack)
  BY Zenon, <1>2, <1>4 DEF ShouldScaleUp
<1> QED
  BY Zenon, <1>3, <1>5, <1>6, <1>7

\* A step while scale down works asks for no scale up.
LEMMA NoFlappingStep ==
    ASSUME TypeOK, LoneInv, ScanInv, Next, task["down"] # Idle, rows' # rows, races = 0
    PROVE  ~ShouldScaleUp(Counts', Managed)
<1>1. task["down"].list = Counts /\ ShouldScaleDown(Counts, task["down"].c) /\ scaling = "auto"
  BY Zenon DEF ScanInv
<1>2. ScaleDown
  BY Zenon, <1>1, DownWrites
<1>3. /\ task["down"].c \in Managed
      /\ Counts' = [Counts EXCEPT ![task["down"].c] =
                      [st |-> "deprovisioning", units |-> @.units, used |-> @.used]]
  BY Zenon, <1>1, <1>2, ListKept
<1>4. PICK c \in Managed : c = task["down"].c
  BY Zenon, <1>3
<1>5. Counts = [d \in Managed |-> Counts[d]]
  BY Zenon DEF Counts
<1>6. Counts' = [d \in Managed |->
                   IF d = c THEN [st |-> "deprovisioning", units |-> Counts[c].units,
                                  used |-> Counts[c].used]
                   ELSE Counts[d]]
  BY Zenon, <1>3, <1>4, <1>5
<1>7. ASSUME NEW m, m = Counts'
      PROVE  ~ShouldScaleUp(m, Managed)
  BY Zenon, <1>1, <1>4, <1>6, <1>7, NothingFollows
<1> QED
  BY Zenon, <1>7

-----------------------------------------------------------------------------
(* The clusters that host Kafkas.                                          *)

\* A cluster on which a Kafka can run, or that can be brought back for it.
Alive(c) == cloud[c] = "up" /\ rows[c].st \in {"waiting", "ready", "deprovisioning"}

\* An actor that will place a Kafka on c, or bring c back.
Guest(a, c) ==
    \/ Registering(a) /\ task[a].host = c
    \/ task[a].op \in {"ready", "waiting", "assign", "restore"} /\ task[a].c = c

\* An actor that removes c.
Goer(a, c) == task[a].op \in {"remove", "removed", "delete"} /\ task[a].c = c

\* With at most one overlap, of a managed cluster: it lives while it hosts a
\* Kafka, and at the provider while its row says so...
Hosts(c) == HostedBy(c) # {} => Alive(c)
Runs(c) == rows[c].st \in {"provisioned", "waiting", "ready"} => cloud[c] = "up"

\* ... nobody removes it under a guest, or removes it while it hosts one...
Welcome(c) == \A a \in Actors : Guest(a, c) => Alive(c) /\ \A b \in Actors : ~Goer(b, c)
Leaves(c) ==
    \A a \in Actors : Goer(a, c) =>
        /\ HostedBy(c) = {}
        /\ rows[c].st = IF task[a].op = "delete" THEN "cleanup" ELSE "deprovisioning"

\* ... and what the cluster manager and the scaling found still holds.
Promoted(c) ==
    task["clusters"].op = "advance" /\ task["clusters"].c = c =>
        /\ task["clusters"].st = "ready" =>
              scaling = "manual" /\ rows[c].st \in {"ready", "waiting"}
        /\ task["clusters"].st # "ready" => rows[c].st = Before(task["clusters"].st)
        /\ task["clusters"].st = "provisioned" => cloud[c] = "up"
Rises(c) == task["up"] # Idle => scaling = "auto" /\ (task["up"].c = c => rows[c].st = "none")
Falls(c) ==
    task["down"] # Idle =>
        /\ task["down"].list[task["down"].c].st = "ready"
        /\ task["down"].list[c].st = "ready" => rows[c].st \in {"ready", "waiting"}

Cared(c) == /\ Hosts(c) /\ Runs(c) /\ Welcome(c) /\ Leaves(c)
            /\ Promoted(c) /\ Rises(c) /\ Falls(c)

CareInv == races <= 1 => \A c \in Managed : Cared(c)

\* Only manual scaling removes excess clusters.
ManualInv == task["clusters"].op = "deprovision" => scaling = "manual"

\* An enterprise cluster is not looked at again, which takes no overlap at all.
HomeInv ==
    \A c \in Enterprise :
        /\ cloud[c] = "up"
        /\ races = 0 /\ HostedBy(c) # {} => rows[c].st \in {"waiting", "ready"}

\* Whose operation it is.
LEMMA TaskOwners ==
    ASSUME TypeOK, NEW a \in Actors
    PROVE  /\ Registering(a) \/ task[a].op \in {"ready", "waiting"} => a \in Requests
           /\ task[a].op = "assign" => a = "accepted"
           /\ task[a].op \in {"restore", "remove", "removed"} => a = "deprovisioning"
           /\ task[a].op = "delete" => a = "cleanup"
<1>1. a \in Requests \/ a \in Workers
  BY Zenon DEF Actors
<1>2. a \in Requests => task[a].op \notin {"assign", "restore", "remove", "removed", "delete"}
  BY TaskTypes DEF Enrollments, Registrations, Reports, Idle
<1>3. task["clusters"].op \in {"none", "advance", "deprovision"}
  BY TaskTypes DEF Advances, Surpluses, Idle
<1>4. task["up"].op \in {"none", "scaleup"} /\ task["down"].op \in {"none", "scaledown"}
  BY TaskTypes DEF ScaleUps, ScaleDowns, Idle
<1>5. /\ task["deprovisioning"].op \in {"none", "restore", "remove", "removed"}
      /\ task["cleanup"].op \in {"none", "delete"} /\ task["accepted"].op \in {"none", "assign"}
  BY TaskTypes DEF Removals, Cleanups, Assignments, Idle
<1> QED
  BY ZenonT(40), <1>1, <1>2, <1>3, <1>4, <1>5 DEF Workers, Registering

\* Where a Kafka is hosted that was not before.
LEMMA HostedChanges ==
    ASSUME TypeOK, Next, NEW c \in Clusters
    PROVE  \/ HostedBy(c)' \subseteq HostedBy(c)
           \/ \E q \in Requests : CreateKafka(q) /\ task[q].host = c
           \/ AssignKafka /\ task["accepted"].c = c
<1>0. kafkas = [k \in Kafkas |-> kafkas[k]] /\ c # Nowhere
  BY Zenon, Bounds DEF TypeOK
<1>1. ASSUME UNCHANGED kafkas
      PROVE  HostedBy(c)' \subseteq HostedBy(c)
  BY Zenon, <1>1 DEF HostedBy
<1>2. ASSUME NEW k \in Kafkas, NEW st, NEW host, NEW size, NEW ent,
             kafkas' = [kafkas EXCEPT ![k] = Kafka(st, host, size, ent)],
             \/ host # c \/ st \in {"none", "deleting"}
             \/ kafkas[k].st \notin {"none", "deleting"} /\ kafkas[k].host = host
      PROVE  HostedBy(c)' \subseteq HostedBy(c)
  <2>1. kafkas'[k].st = st /\ kafkas'[k].host = host
    BY Zenon, <1>0, <1>2 DEF Kafka
  <2>2. \A j \in Kafkas : j # k => kafkas'[j] = kafkas[j]
    BY Zenon, <1>0, <1>2
  <2> QED
    BY Zenon, <1>2, <2>1, <2>2 DEF HostedBy
<1>3. ASSUME NEW q \in Requests, CreateKafka(q)
      PROVE  HostedBy(c)' \subseteq HostedBy(c) \/ task[q].host = c
  <2>1. Min(FreeKafkas) \in Kafkas
    BY Zenon, <1>3, FreeKafka DEF CreateKafka, FreeKafkas
  <2>2. kafkas' = [kafkas EXCEPT ![Min(FreeKafkas)] =
                     Kafka("accepted", task[q].host, task[q].size, task[q].ent)]
    BY Zenon, <1>3 DEF CreateKafka
  <2>3. task[q].host # c => HostedBy(c)' \subseteq HostedBy(c)
    BY Zenon, <1>2, <2>1, <2>2
  <2> QED
    BY Zenon, <2>3
<1>4. ASSUME AssignKafka
      PROVE  HostedBy(c)' \subseteq HostedBy(c) \/ task["accepted"].c = c
  <2>1. task["accepted"].k \in Kafkas
    BY Zenon, <1>4, TaskKinds DEF AssignKafka, Assignments
  <2>2. PICK k \in Kafkas : k = task["accepted"].k
    BY Zenon, <2>1
  <2>3. \/ UNCHANGED kafkas
        \/ kafkas' = [kafkas EXCEPT ![k] =
                         Kafka("preparing", task["accepted"].c, kafkas[k].size, kafkas[k].ent)]
    BY Zenon, <1>4, <2>2 DEF AssignKafka
  <2>4. ASSUME NEW d, NEW size, NEW ent, d # c,
               kafkas' = [kafkas EXCEPT ![k] = Kafka("preparing", d, size, ent)]
        PROVE  HostedBy(c)' \subseteq HostedBy(c)
    BY Zenon, <1>2, <2>4
  <2>5. task["accepted"].c # c => HostedBy(c)' \subseteq HostedBy(c)
    BY Zenon, <1>1, <2>3, <2>4
  <2> QED
    BY Zenon, <2>5
<1>5. ASSUME NEW k \in Kafkas,
             KafkaTimesOut(k) \/ KafkaDeprovision(k) \/ KafkaDeleting(k) \/ KafkaRemoved(k)
                \/ FindClusterForKafka(k)
      PROVE  HostedBy(c)' \subseteq HostedBy(c)
  <2>1. CASE FindClusterForKafka(k)
    BY Zenon, <1>1, <2>1 DEF FindClusterForKafka, tables
  <2>2. CASE KafkaTimesOut(k)
    BY Zenon, <1>0, <1>2, <2>2 DEF KafkaTimesOut
  <2>3. CASE KafkaDeprovision(k)
    BY Zenon, <1>2, <2>3 DEF KafkaDeprovision
  <2>4. CASE KafkaDeleting(k)
    BY Zenon, <1>2, <2>4 DEF KafkaDeleting
  <2>5. CASE KafkaRemoved(k)
    BY Zenon, <1>2, <2>5 DEF KafkaRemoved, NoKafka
  <2> QED
    BY Zenon, <1>5, <2>1, <2>2, <2>3, <2>4, <2>5
<1>6. CASE RegFrame \/ \E a \in Actors : Fail(a)
  BY Zenon, <1>1, <1>6 DEF RegFrame, Fail, tables
<1>7. ASSUME NEW q \in Requests,
             \/ Place(q) \/ ReserveQuota(q)
             \/ \E r \in Replicas, size \in Sizes, ent \in BOOLEAN :
                   RegisterKafkaJob(q, r, size, ent)
      PROVE  UNCHANGED kafkas
  BY Zenon, <1>7 DEF Place, ReserveQuota, RegisterKafkaJob, tables
<1> QED
  BY ZenonT(40), <1>1, <1>3, <1>4, <1>5, <1>6, <1>7, RegKinds DEF RegSteps, KafkaSteps

\* Every step keeps the enterprise clusters that host Kafkas.
LEMMA HomeStep ==
    ASSUME TypeOK, LoneInv, FreshInv, HomeInv, Next
    PROVE  HomeInv'
<1> SUFFICES ASSUME NEW c \in Enterprise
             PROVE  /\ cloud'[c] = "up"
                    /\ races' = 0 /\ HostedBy(c)' # {} => rows'[c].st \in {"waiting", "ready"}
  BY Zenon DEF HomeInv
<1>0. c \in Clusters /\ c \notin Managed /\ c # Nowhere
  BY Zenon, Bounds
<1>1. cloud'[c] = "up"
  BY ZenonT(40), <1>0, CloudChanges DEF CloudMoved, HomeInv
<1>2. ASSUME races' = 0, HostedBy(c)' # {}
      PROVE  rows'[c].st \in {"waiting", "ready"}
  <2>0. races = 0
    BY Zenon, <1>2, LoneStep
  <2>1. ASSUME NEW q \in Requests, CreateKafka(q), task[q].host = c
        PROVE  rows'[c].st \in {"waiting", "ready"}
    <3>1. Registering(q) /\ UNCHANGED rows
      BY Zenon, <2>1 DEF CreateKafka, Registering
    <3>2. Fresh(q)
      BY Zenon, <2>0, Bounds DEF FreshInv
    <3>3. rows[c].st = "ready"
      BY Zenon, <1>0, <2>1, <3>1, <3>2 DEF Fresh
    <3> QED
      BY Zenon, <3>1, <3>3
  <2>2. ~(AssignKafka /\ task["accepted"].c = c)
    BY Zenon, <1>0, TaskKinds DEF AssignKafka, Assignments
  <2>3. ASSUME HostedBy(c) # {}
        PROVE  rows'[c].st \in {"waiting", "ready"}
    <3>1. rows[c].st \in {"waiting", "ready"}
      BY Zenon, <2>0, <2>3 DEF HomeInv
    <3>2. ASSUME RowWritten(c)
          PROVE  rows'[c].st \in {"waiting", "ready"}
      <4>1. SaveCluster /\ task["clusters"].c = c => task["clusters"].st = "ready"
        <5>1. SaveCluster /\ task["clusters"].c = c => rows[c].st = Before(task["clusters"].st)
          BY Zenon, <1>0, <2>0, <3>2, WrittenFresh
        <5> QED
          BY Zenon, <3>1, <5>1 DEF Before
      <4>2. /\ ~(MarkForCleanup /\ task["deprovisioning"].c = c)
            /\ ~(DeleteRow /\ task["cleanup"].c = c)
        <5>1. rows[c].st # "deprovisioning" /\ rows[c].st # "cleanup"
          BY Zenon, <3>1
        <5> QED
          BY Zenon, <1>0, <2>0, <3>2, <5>1, WrittenFresh
      <4>3. \A q \in Requests : ~(DeregisterClusterJob(q) /\ task[q].c = c)
        <5>1. \A q \in Requests : Fresh(q)
          BY Zenon, <2>0, Bounds DEF FreshInv
        <5> QED
          BY Zenon, <2>3, <5>1 DEF DeregisterClusterJob, Fresh
      <4>4. Exists(c)
        BY Zenon, <3>1 DEF Exists
      <4> QED
        BY Zenon, <1>0, <3>2, <4>1, <4>2, <4>3, <4>4 DEF RowWritten
    <3> QED
      BY Zenon, <1>0, <3>1, <3>2, RowChanges
  <2> QED
    BY Zenon, <1>0, <1>2, <2>1, <2>2, <2>3, HostedChanges
<1> QED
  BY Zenon, <1>1, <1>2

\* Every step keeps the excess clusters to manual scaling.
LEMMA ManualStep ==
    ASSUME TypeOK, ManualInv, Next
    PROVE  ManualInv'
<1> SUFFICES ASSUME task'["clusters"].op = "deprovision"
             PROVE  scaling' = "manual"
  BY Zenon DEF ManualInv
<1>0. scaling' = scaling /\ "clusters" \in Actors /\ "clusters" \notin Requests
  BY Zenon, Lasting, Bounds DEF Actors, Workers
<1>1. CASE task'["clusters"] = task["clusters"]
  BY Zenon, <1>0, <1>1 DEF ManualInv
<1>2. ASSUME NEW t, Do("clusters", t), t.op # "deprovision"
      PROVE  FALSE
  BY Zenon, <1>0, <1>2, DoFrame
<1>3. Idle.op # "deprovision"
  BY ZenonT(40) DEF Idle
<1>4. ~(Fail("clusters") \/ SaveCluster \/ DeprovisionExcess)
  BY Zenon, <1>2, <1>3 DEF Fail, SaveCluster, DeprovisionExcess, Done
<1>5. \A c \in Clusters : ~(ProcessCluster(c) \/ ReconcileReadyCluster(c))
  <2>1. \A c, st : Advance(c, st).op # "deprovision"
    BY ZenonT(40) DEF Advance
  <2> QED
    BY Zenon, <1>2, <2>1 DEF ProcessCluster, ReconcileReadyCluster
<1>6. ReconcileManualConfig => scaling = "manual"
  BY Zenon DEF ReconcileManualConfig
<1> QED
  BY ZenonT(40), <1>0, <1>1, <1>4, <1>5, <1>6, TaskChanges DEF OwnSteps, ManagerSteps

\* What is known of the row of a managed cluster when it is written.
Written(c) ==
    \/ /\ SaveCluster /\ task["clusters"].c = c /\ rows'[c].st = task["clusters"].st
       /\ IF task["clusters"].st = "ready"
          THEN scaling = "manual" /\ rows[c].st \in {"ready", "waiting"}
          ELSE rows[c].st = Before(task["clusters"].st)
       /\ task["clusters"].st = "provisioned" => cloud[c] = "up"
    \/ ReconcileManualConfig /\ rows[c].st = "none" /\ rows'[c].st = "provisioning"
    \/ /\ DeprovisionExcess /\ rows[c].st \notin {"none", "cleanup"}
       /\ rows'[c].st = "deprovisioning"
    \/ ScaleUp /\ task["up"].c = c /\ rows[c].st = "none" /\ rows'[c].st = "accepted"
    \/ /\ ScaleDown /\ task["down"].c = c /\ rows[c].st \in {"ready", "waiting"}
       /\ rows'[c].st = "deprovisioning"
    \/ MarkForCleanup /\ Goer("deprovisioning", c) /\ rows[c].st = "deprovisioning"
       /\ rows'[c].st = "cleanup"
    \/ DeleteRow /\ Goer("cleanup", c) /\ rows[c].st = "cleanup" /\ rows'[c].st = "none"
    \/ \E a \in Requests \cup {"deprovisioning"} :
          Guest(a, c) /\ OwnSteps(a) /\ Exists(c) /\ rows'[c].st \in {"ready", "waiting"}

\* Such a write leaves the provider alone.
LEMMA WrittenIs ==
    ASSUME TypeOK, NEW c \in Managed, Cared(c), RowWritten(c)
    PROVE  Written(c) /\ UNCHANGED cloud
<1>0. c \in Clusters /\ c \notin Enterprise /\ "deprovisioning" \in Actors /\ "cleanup" \in Actors
      /\ "deprovisioning" \notin Requests
  BY Zenon, Bounds DEF Actors, Workers
<1>1. UNCHANGED cloud
  BY Zenon DEF RowWritten, SaveCluster, ReconcileManualConfig, DeprovisionExcess, ScaleUp,
     ScaleDown, RestoreCluster, MarkForCleanup, DeleteRow, SetClusterStatus, SetClusterWaiting,
     RegisterClusterJob, DeregisterClusterJob, outside
<1>2. CASE SaveCluster /\ task["clusters"].c = c /\ Exists(c)
           /\ rows'[c].st = task["clusters"].st
  BY Zenon, <1>1, <1>2 DEF SaveCluster, Written, Cared, Promoted
<1>3. CASE ReconcileManualConfig /\ ~Exists(c) /\ rows'[c].st = "provisioning"
  BY Zenon, <1>1, <1>3 DEF Exists, Written
<1>4. CASE DeprovisionExcess /\ rows[c].st \notin {"none", "cleanup"}
           /\ rows'[c].st = "deprovisioning"
  BY Zenon, <1>1, <1>4 DEF Written
<1>5. CASE ScaleUp /\ task["up"].c = c /\ rows'[c].st = "accepted"
  <2>1. task["up"] # Idle
    BY <1>5 DEF ScaleUp, Idle
  <2> QED
    BY ZenonT(40), <1>1, <1>5, <2>1 DEF Written, Cared, Rises
<1>6. CASE ScaleDown /\ task["down"].c = c /\ rows'[c].st = "deprovisioning"
  <2>1. task["down"] # Idle
    BY <1>6 DEF ScaleDown, Idle
  <2> QED
    BY ZenonT(40), <1>1, <1>6, <2>1 DEF Written, Cared, Falls
<1>7. CASE RestoreCluster /\ task["deprovisioning"].c = c /\ Exists(c) /\ rows'[c].st = "ready"
  <2>1. Guest("deprovisioning", c) /\ OwnSteps("deprovisioning")
    BY Zenon, <1>7 DEF RestoreCluster, Guest, OwnSteps
  <2> QED
    BY Zenon, <1>1, <1>7, <2>1 DEF Written
<1>8. CASE MarkForCleanup /\ task["deprovisioning"].c = c /\ rows'[c].st = "cleanup"
  <2>1. Goer("deprovisioning", c) /\ task["deprovisioning"].op # "delete"
    BY Zenon, <1>8 DEF MarkForCleanup, Goer
  <2>2. rows[c].st = "deprovisioning"
    BY Zenon, <1>0, <2>1 DEF Cared, Leaves
  <2> QED
    BY Zenon, <1>1, <1>8, <2>1, <2>2 DEF Written
<1>9. CASE DeleteRow /\ task["cleanup"].c = c /\ rows'[c].st = "none"
  <2>1. Goer("cleanup", c) /\ task["cleanup"].op = "delete"
    BY Zenon, <1>9 DEF DeleteRow, Goer
  <2>2. rows[c].st = "cleanup"
    BY Zenon, <1>0, <2>1 DEF Cared, Leaves
  <2> QED
    BY Zenon, <1>1, <1>9, <2>1, <2>2 DEF Written
<1>10. ASSUME NEW q \in Requests, task[q].c = c, Exists(c),
              \/ SetClusterStatus(q) /\ rows'[c].st = "ready"
              \/ SetClusterWaiting(q) /\ rows'[c].st = "waiting"
       PROVE  Written(c)
  <2>1. Guest(q, c) /\ OwnSteps(q)
    BY Zenon, <1>10 DEF SetClusterStatus, SetClusterWaiting, Guest, OwnSteps, Serving
  <2> QED
    BY Zenon, <1>10, <2>1 DEF Written
<1> QED
  BY ZenonT(40), <1>0, <1>1, <1>2, <1>3, <1>4, <1>5, <1>6, <1>7, <1>8, <1>9, <1>10 DEF RowWritten

\* A cluster that nobody removes goes on living.
LEMMA AliveStays ==
    ASSUME TypeOK, Next, NEW c \in Managed, Cared(c), Alive(c),
           \A b \in Actors : ~Goer(b, c)
    PROVE  Alive(c)'
<1>0. c \in Clusters /\ "deprovisioning" \in Actors /\ "cleanup" \in Actors
  BY Zenon, Bounds DEF Actors, Workers
<1>1. cloud[c] = "up" /\ rows[c].st \in {"waiting", "ready", "deprovisioning"}
  BY Zenon DEF Alive
<1>2. cloud'[c] = "up"
  <2>1. ~(DeleteCluster /\ task["deprovisioning"].c = c)
    BY Zenon, <1>0 DEF DeleteCluster, Goer
  <2>2. ~(task["clusters"].op = "advance" /\ task["clusters"].c = c
          /\ task["clusters"].st = "provisioning")
    <3>1. Before("provisioning") = "accepted"
      BY Zenon DEF Before
    <3> QED
      BY Zenon, <1>1, <3>1 DEF Cared, Promoted
  <2>3. ~InstallFails(c) /\ ~Deleted(c)
    BY Zenon, <1>1 DEF InstallFails, Deleted
  <2> QED
    BY ZenonT(40), <1>0, <1>1, <2>1, <2>2, <2>3, CloudChanges DEF CloudMoved
<1>3. rows'[c].st \in {"waiting", "ready", "deprovisioning"}
  <2>1. CASE rows'[c].st = rows[c].st
    BY Zenon, <1>1, <2>1
  <2>2. CASE RowWritten(c)
    <3>1. Written(c)
      BY Zenon, <2>2, WrittenIs
    <3>2. \A st : st # "ready" => rows[c].st # Before(st)
      BY Zenon, <1>1 DEF Before
    <3> QED
      BY Zenon, <1>0, <1>1, <3>1, <3>2 DEF Written
  <2> QED
    BY Zenon, <1>0, <2>1, <2>2, RowChanges
<1> QED
  BY Zenon, <1>2, <1>3 DEF Alive

\* A Kafka comes to a cluster with a guest.
LEMMA HostsStep ==
    ASSUME TypeOK, Next, NEW c \in Managed, Cared(c)
    PROVE  Hosts(c)'
<1>0. c \in Clusters /\ "accepted" \in Actors /\ Requests \subseteq Actors
  BY Zenon, Bounds DEF Actors, Workers
<1> SUFFICES ASSUME HostedBy(c)' # {}
             PROVE  Alive(c)'
  BY Zenon DEF Hosts
<1>1. ASSUME NEW a \in Actors, Guest(a, c)
      PROVE  Alive(c)'
  <2>1. Alive(c) /\ \A b \in Actors : ~Goer(b, c)
    BY Zenon, <1>1 DEF Cared, Welcome
  <2> QED
    BY Zenon, <2>1, AliveStays
<1>2. ASSUME HostedBy(c) # {}
      PROVE  Alive(c)'
  <2>1. Alive(c) /\ \A b \in Actors : ~Goer(b, c)
    BY Zenon, <1>2 DEF Cared, Hosts, Leaves
  <2> QED
    BY Zenon, <2>1, AliveStays
<1>3. ASSUME NEW q \in Requests, CreateKafka(q), task[q].host = c
      PROVE  Guest(q, c)
  BY Zenon, <1>3 DEF CreateKafka, Registering, Guest
<1>4. AssignKafka /\ task["accepted"].c = c => Guest("accepted", c)
  BY Zenon DEF AssignKafka, Guest
<1> QED
  BY ZenonT(40), <1>0, <1>1, <1>2, <1>3, <1>4, HostedChanges

\* The provider has a cluster as long as its row says so.
LEMMA RunsStep ==
    ASSUME TypeOK, Next, NEW c \in Managed, Cared(c)
    PROVE  Runs(c)'
<1>0. c \in Clusters /\ "deprovisioning" \in Actors
  BY Zenon, Bounds DEF Actors, Workers
<1> SUFFICES ASSUME rows'[c].st \in {"provisioned", "waiting", "ready"}
             PROVE  cloud'[c] = "up"
  BY Zenon DEF Runs
<1>1. CASE RowWritten(c)
  <2>1. Written(c) /\ cloud' = cloud
    BY Zenon, <1>1, WrittenIs
  <2>2. Runs(c) /\ Before("waiting") = "provisioned"
    BY Zenon DEF Cared, Before
  <2>3. ASSUME NEW a \in Actors, Guest(a, c)
        PROVE  cloud[c] = "up"
    BY Zenon, <2>3 DEF Cared, Welcome, Alive
  <2>4. Requests \cup {"deprovisioning"} \subseteq Actors
    BY Zenon DEF Actors, Workers
  <2> QED
    BY Zenon, <2>1, <2>2, <2>3, <2>4 DEF Written, Runs
<1>2. CASE rows'[c].st = rows[c].st
  <2>1. cloud[c] = "up"
    BY Zenon, <1>2 DEF Cared, Runs
  <2>2. ~(DeleteCluster /\ task["deprovisioning"].c = c)
    <3>1. DeleteCluster /\ task["deprovisioning"].c = c
            => Goer("deprovisioning", c) /\ task["deprovisioning"].op # "delete"
      BY Zenon DEF DeleteCluster, Goer
    <3> QED
      BY Zenon, <1>0, <1>2, <3>1 DEF Cared, Leaves
  <2>3. ~(task["clusters"].op = "advance" /\ task["clusters"].c = c
          /\ task["clusters"].st = "provisioning")
    <3>1. Before("provisioning") = "accepted"
      BY Zenon DEF Before
    <3> QED
      BY Zenon, <1>2, <3>1 DEF Cared, Promoted
  <2>4. ~InstallFails(c) /\ ~Deleted(c)
    BY Zenon, <2>1 DEF InstallFails, Deleted
  <2> QED
    BY Zenon, <1>0, <1>2, <2>1, <2>2, <2>3, <2>4, CloudChanges DEF CloudMoved
<1> QED
  BY Zenon, <1>0, <1>1, <1>2, RowChanges

\* What a finds when it becomes a guest of c.
Comes(a, c) ==
    /\ UNCHANGED <<rows, cloud>> /\ \A b \in Actors : b # a => task'[b] = task[b]
    /\ rows[c].st \in {"waiting", "ready"} \/ HostedBy(c) # {}

\* A guest has been one before, or has just come.
LEMMA GuestComes ==
    ASSUME TypeOK, Next, NEW c \in Managed, NEW a \in Actors, Guest(a, c)'
    PROVE  Guest(a, c) \/ Comes(a, c)
<1>0. c \in Clusters /\ c \notin Enterprise /\ c # Nowhere
  BY Zenon, Bounds
<1>1. ASSUME NEW t, Do(a, t)
      PROVE  /\ t.op \in {"place", "reserve", "insert", "ready", "waiting", "assign", "restore"}
             /\ t.op \in {"place", "reserve", "insert"} => t.host = c
             /\ t.op \in {"ready", "waiting", "assign", "restore"} => t.c = c
             /\ \A b \in Actors : b # a => task'[b] = task[b]
  BY Zenon, <1>1, DoFrame DEF Guest, Registering
<1>2. ~Do(a, Idle)
  <2>1. Idle.op = "none"
    BY ZenonT(40) DEF Idle
  <2> QED
    BY Zenon, <1>1, <2>1
<1>3. ~Fail(a)
  BY Zenon, <1>2 DEF Fail, Done
<1>4. CASE task'[a] = task[a]
  BY Zenon, <1>4 DEF Guest, Registering
<1>5. ASSUME a \in Requests, Serving(a)
      PROVE  Guest(a, c) \/ Comes(a, c)
  <2>1. CASE Place(a)
    <3>1. task[a] \in Registrations /\ UNCHANGED <<rows, cloud>>
      BY Zenon, <1>5, <2>1, TaskKinds DEF Place, tables, outside
    <3>2. PICK d \in FindCluster(task[a].size, task[a].ent) :
              Do(a, Register("reserve", task[a].r, task[a].size, task[a].ent, d))
      BY Zenon, <1>2, <2>1 DEF Place, Done
    <3>3. rows[d].st = "ready"
      BY Zenon, <3>1, FoundCluster DEF Registrations
    <3>4. Register("reserve", task[a].r, task[a].size, task[a].ent, d).op = "reserve"
          /\ Register("reserve", task[a].r, task[a].size, task[a].ent, d).host = d
      BY ZenonT(40) DEF Register
    <3> QED
      BY ZenonT(40), <1>1, <3>1, <3>2, <3>3, <3>4 DEF Comes
  <2>2. CASE ReserveQuota(a)
    <3>1. Do(a, Register("insert", task[a].r, task[a].size, task[a].ent, task[a].host))
      BY Zenon, <1>2, <2>2 DEF ReserveQuota, Done
    <3>2. Register("insert", task[a].r, task[a].size, task[a].ent, task[a].host).op = "insert"
          /\ Register("insert", task[a].r, task[a].size, task[a].ent, task[a].host).host
               = task[a].host
      BY ZenonT(40) DEF Register
    <3> QED
      BY ZenonT(40), <1>1, <2>2, <3>1, <3>2 DEF Guest, Registering, ReserveQuota
  <2> QED
    BY ZenonT(40), <1>2, <1>5, <2>1, <2>2 DEF Serving, CreateKafka, SetClusterStatus,
       SetClusterWaiting, RegisterClusterJob, DeregisterClusterJob, Done
<1>6. ASSUME NEW d \in Clusters,
             RegisterEnterpriseCluster(a, d) \/ DeregisterEnterpriseCluster(a, d)
      PROVE  FALSE
  <2>1. [op |-> "enroll", c |-> d].op = "enroll" /\ [op |-> "deregister", c |-> d].op = "deregister"
    BY ZenonT(40)
  <2> QED
    BY Zenon, <1>1, <1>6, <2>1 DEF RegisterEnterpriseCluster, DeregisterEnterpriseCluster
<1>7. ASSUME NEW d \in Clusters, NEW kind, ReportStatus(a, d, kind)
      PROVE  Comes(a, c)
  <2>1. PICK op \in {"ready", "waiting"} : Do(a, [op |-> op, c |-> d])
    BY Zenon, <1>7 DEF ReportStatus
  <2>2. [op |-> op, c |-> d].op = op /\ [op |-> op, c |-> d].c = d
    BY ZenonT(40)
  <2>3. UNCHANGED <<rows, cloud>> /\ rows[d].st \in {"waiting", "ready"}
    BY Zenon, <1>7 DEF ReportStatus, clusterCanProcessStatusReports, tables, outside
  <2> QED
    BY Zenon, <1>1, <2>1, <2>2, <2>3 DEF Comes
<1>8. ASSUME NEW r, NEW size, NEW ent, RegisterKafkaJob(a, r, size, ent)
      PROVE  FALSE
  <2>1. PICK op \in {"reserve", "place"} : Do(a, Register(op, r, size, ent, Nowhere))
    BY Zenon, <1>8 DEF RegisterKafkaJob
  <2>2. Register(op, r, size, ent, Nowhere).op = op
        /\ Register(op, r, size, ent, Nowhere).host = Nowhere
    BY ZenonT(40) DEF Register
  <2> QED
    BY Zenon, <1>0, <1>1, <2>1, <2>2
<1>9. ASSUME a = "clusters", ManagerSteps
      PROVE  FALSE
  <2>1. \A d, st : Advance(d, st).op = "advance"
    BY ZenonT(40) DEF Advance
  <2>2. [op |-> "deprovision", ids |-> Excess].op = "deprovision"
    OBVIOUS
  <2>3. ~SaveCluster /\ ~DeprovisionExcess
    BY Zenon, <1>2, <1>9 DEF SaveCluster, DeprovisionExcess, Done
  <2>4. ~ReconcileManualConfig
    BY Zenon, <1>1, <1>2, <1>9, <2>2 DEF ReconcileManualConfig
  <2>5. \A d \in Clusters : ~ProcessCluster(d) /\ ~ReconcileReadyCluster(d)
    BY Zenon, <1>1, <1>9, <2>1 DEF ProcessCluster, ReconcileReadyCluster
  <2> QED
    BY Zenon, <1>9, <2>3, <2>4, <2>5 DEF ManagerSteps
<1>10. ASSUME \/ a = "up" /\ (EvaluateScaleUp \/ ScaleUp)
              \/ a = "down" /\ (EvaluateScaleDown \/ ScaleDown)
       PROVE  FALSE
  <2>1. [op |-> "scaleup", c |-> Min(FreeRows)].op = "scaleup"
    BY ZenonT(40)
  <2>2. ASSUME NEW l, NEW last, Do(a, ScanFrom(l, last)) PROVE FALSE
    <3>1. ScanFrom(l, last) # Idle
      BY Zenon, <1>2, <2>2
    <3>2. ScanFrom(l, last).op = "scaledown"
      BY Zenon, <3>1, ScanFinds
    <3> QED
      BY Zenon, <1>1, <2>2, <3>2
  <2> QED
    BY ZenonT(40), <1>1, <1>2, <1>10, <2>1, <2>2
       DEF EvaluateScaleUp, ScaleUp, EvaluateScaleDown, ScaleDown, Done
<1>11. ASSUME a = "deprovisioning", NEW d \in Clusters, ProcessDeprovisioning(d)
       PROVE  Comes(a, c)
  <2>1. PICK op \in {"restore", "remove", "removed"} :
            Do(a, [op |-> op, c |-> d]) /\ (op = "restore" => HostedBy(d) # {})
    BY Zenon, <1>11 DEF ProcessDeprovisioning
  <2>2. [op |-> op, c |-> d].op = op /\ [op |-> op, c |-> d].c = d
    BY ZenonT(40)
  <2>3. UNCHANGED <<rows, cloud>>
    BY Zenon, <1>11 DEF ProcessDeprovisioning, tables, outside
  <2> QED
    BY ZenonT(40), <1>1, <2>1, <2>2, <2>3 DEF Comes
<1>12. ASSUME a = "deprovisioning", RestoreCluster \/ DeleteCluster \/ MarkForCleanup
       PROVE  FALSE
  <2>1. [op |-> "removed", c |-> task["deprovisioning"].c].op = "removed"
    BY ZenonT(40)
  <2> QED
    BY ZenonT(40), <1>1, <1>2, <1>12, <2>1 DEF RestoreCluster, DeleteCluster, MarkForCleanup, Done
<1>13. ASSUME a = "cleanup", DeleteRow \/ \E d \in Clusters : RemoveServiceAccount(d)
       PROVE  FALSE
  <2>1. \A d : [op |-> "delete", c |-> d].op = "delete"
    BY ZenonT(40)
  <2> QED
    BY ZenonT(40), <1>1, <1>2, <1>13, <2>1 DEF DeleteRow, RemoveServiceAccount, Done
<1>14. ASSUME a = "accepted", AssignKafka \/ \E k \in Kafkas : FindClusterForKafka(k)
       PROVE  Comes(a, c)
  <2>1. ~AssignKafka
    BY Zenon, <1>2, <1>14 DEF AssignKafka, Done
  <2>2. PICK k \in Kafkas : FindClusterForKafka(k)
    BY Zenon, <1>14, <2>1
  <2>3. PICK d \in FindCluster(Size(k), FALSE) : Do(a, [op |-> "assign", k |-> k, c |-> d])
    BY Zenon, <1>14, <2>2 DEF FindClusterForKafka
  <2>4. [op |-> "assign", k |-> k, c |-> d].op = "assign"
        /\ [op |-> "assign", k |-> k, c |-> d].c = d
    BY ZenonT(40)
  <2>5. UNCHANGED <<rows, cloud>> /\ rows[d].st = "ready"
    BY Zenon, <2>2, <2>3, FoundCluster DEF FindClusterForKafka, tables, outside
  <2> QED
    BY Zenon, <1>1, <2>3, <2>4, <2>5 DEF Comes
<1> QED
  BY ZenonT(40), <1>3, <1>4, <1>5, <1>6, <1>7, <1>8, <1>9, <1>10, <1>11, <1>12, <1>13, <1>14,
     TaskChanges DEF OwnSteps

\* Actor a turns to the removal of c: it lists the row, and nothing changes.
StartsRemoval(a, c) ==
    /\ UNCHANGED <<rows, kafkas>>
    /\ \/ a = "deprovisioning" /\ ProcessDeprovisioning(c) /\ HostedBy(c) = {}
          /\ task'[a].op # "delete"
       \/ a = "cleanup" /\ RemoveServiceAccount(c) /\ task'[a].op = "delete"

\* Who removes c has been at it before, or has just turned to it.
LEMMA GoerComes ==
    ASSUME TypeOK, Next, NEW c \in Managed, NEW a \in Actors, Goer(a, c)'
    PROVE  \/ Goer(a, c) /\ (task'[a].op = "delete" <=> task[a].op = "delete")
           \/ StartsRemoval(a, c)
<1>0. c \in Clusters /\ c \notin Enterprise
  BY Zenon, Bounds
<1>1. ASSUME NEW t, Do(a, t)
      PROVE  t.op \in {"remove", "removed", "delete"} /\ t.c = c /\ task'[a] = t
  BY Zenon, <1>1, DoFrame DEF Goer
<1>2. ~Do(a, Idle)
  <2>1. Idle.op = "none"
    BY DEF Idle
  <2> QED
    BY Zenon, <1>1, <2>1
<1>3. ~Fail(a)
  BY Zenon, <1>2 DEF Fail, Done
<1>4. CASE task'[a] = task[a]
  BY Zenon, <1>4 DEF Goer
<1>5. ASSUME a \in Requests, Serving(a)
      PROVE  FALSE
  <2>2. ASSUME Place(a)
        PROVE  FALSE
    <3>1. PICK d : Do(a, Register("reserve", task[a].r, task[a].size, task[a].ent, d))
      BY Zenon, <1>2, <2>2 DEF Place, Done
    <3>2. Register("reserve", task[a].r, task[a].size, task[a].ent, d).op = "reserve"
      BY ZenonT(40) DEF Register
    <3> QED
      BY Zenon, <1>1, <3>1, <3>2
  <2>3. ASSUME ReserveQuota(a)
        PROVE  FALSE
    <3>1. Do(a, Register("insert", task[a].r, task[a].size, task[a].ent, task[a].host))
      BY Zenon, <1>2, <2>3 DEF ReserveQuota, Done
    <3>2. Register("insert", task[a].r, task[a].size, task[a].ent, task[a].host).op = "insert"
      BY ZenonT(40) DEF Register
    <3> QED
      BY ZenonT(40), <1>1, <3>1, <3>2
  <2> QED
    BY ZenonT(40), <1>2, <1>5, <2>2, <2>3 DEF Serving, CreateKafka, SetClusterStatus,
       SetClusterWaiting, RegisterClusterJob, DeregisterClusterJob, Done
<1>6. ASSUME NEW d \in Clusters,
             RegisterEnterpriseCluster(a, d) \/ DeregisterEnterpriseCluster(a, d)
      PROVE  FALSE
  <2>1. [op |-> "enroll", c |-> d].op = "enroll" /\ [op |-> "deregister", c |-> d].op = "deregister"
    OBVIOUS
  <2> QED
    BY Zenon, <1>1, <1>6, <2>1 DEF RegisterEnterpriseCluster, DeregisterEnterpriseCluster
<1>7. ASSUME NEW d \in Clusters, NEW kind, ReportStatus(a, d, kind)
      PROVE  FALSE
  <2>1. PICK op \in {"ready", "waiting"} : Do(a, [op |-> op, c |-> d])
    BY Zenon, <1>7 DEF ReportStatus
  <2>2. [op |-> op, c |-> d].op = op
    OBVIOUS
  <2> QED
    BY ZenonT(40), <1>1, <2>1, <2>2
<1>8. ASSUME NEW r, NEW size, NEW ent, RegisterKafkaJob(a, r, size, ent)
      PROVE  FALSE
  <2>1. PICK op \in {"reserve", "place"} : Do(a, Register(op, r, size, ent, Nowhere))
    BY Zenon, <1>8 DEF RegisterKafkaJob
  <2>2. Register(op, r, size, ent, Nowhere).op = op
    BY ZenonT(40) DEF Register
  <2> QED
    BY ZenonT(40), <1>1, <2>1, <2>2
<1>9. ASSUME a = "clusters", ManagerSteps
      PROVE  FALSE
  <2>1. \A d, st : Advance(d, st).op = "advance"
    BY DEF Advance
  <2>2. [op |-> "deprovision", ids |-> Excess].op = "deprovision"
    OBVIOUS
  <2>3. ~SaveCluster /\ ~DeprovisionExcess
    BY Zenon, <1>2, <1>9 DEF SaveCluster, DeprovisionExcess, Done
  <2>4. ~ReconcileManualConfig
    BY ZenonT(40), <1>1, <1>2, <1>9, <2>2 DEF ReconcileManualConfig
  <2>5. \A d \in Clusters : ~ProcessCluster(d) /\ ~ReconcileReadyCluster(d)
    BY ZenonT(40), <1>1, <1>9, <2>1 DEF ProcessCluster, ReconcileReadyCluster
  <2> QED
    BY Zenon, <1>9, <2>3, <2>4, <2>5 DEF ManagerSteps
<1>10. ASSUME \/ a = "up" /\ (EvaluateScaleUp \/ ScaleUp)
              \/ a = "down" /\ (EvaluateScaleDown \/ ScaleDown)
       PROVE  FALSE
  <2>1. [op |-> "scaleup", c |-> Min(FreeRows)].op = "scaleup"
    OBVIOUS
  <2>2. ASSUME NEW l, NEW last, Do(a, ScanFrom(l, last)) PROVE FALSE
    <3>1. ScanFrom(l, last) # Idle
      BY Zenon, <1>2, <2>2
    <3>2. ScanFrom(l, last).op = "scaledown"
      BY Zenon, <3>1, ScanFinds
    <3> QED
      BY ZenonT(40), <1>1, <2>2, <3>2
  <2> QED
    BY ZenonT(40), <1>1, <1>2, <1>10, <2>1, <2>2
       DEF EvaluateScaleUp, ScaleUp, EvaluateScaleDown, ScaleDown, Done
<1>11. ASSUME a = "deprovisioning", NEW d \in Clusters, ProcessDeprovisioning(d)
       PROVE  StartsRemoval(a, c)
  <2>1. PICK op \in {"restore", "remove", "removed"} :
            /\ Do(a, [op |-> op, c |-> d])
            /\ d \in Enterprise \/ op = "restore" \/ HostedBy(d) = {}
    BY Zenon, <1>11 DEF ProcessDeprovisioning
  <2>2. [op |-> op, c |-> d].op = op /\ [op |-> op, c |-> d].c = d
    OBVIOUS
  <2>3. UNCHANGED <<rows, kafkas>>
    BY Zenon, <1>11 DEF ProcessDeprovisioning, tables
  <2>4. d = c /\ op # "restore" /\ task'[a].op = op
    BY Zenon, <1>1, <2>1, <2>2
  <2> QED
    BY ZenonT(40), <1>0, <1>11, <2>1, <2>3, <2>4 DEF StartsRemoval
<1>12. ASSUME a = "deprovisioning", RestoreCluster \/ DeleteCluster \/ MarkForCleanup
       PROVE  Goer(a, c) /\ (task'[a].op = "delete" <=> task[a].op = "delete")
  <2>1. /\ [op |-> "removed", c |-> task["deprovisioning"].c].op = "removed"
        /\ [op |-> "removed", c |-> task["deprovisioning"].c].c = task["deprovisioning"].c
    BY ZenonT(40)
  <2>2. DeleteCluster
    BY Zenon, <1>2, <1>12 DEF RestoreCluster, MarkForCleanup, Done
  <2>3. Do(a, [op |-> "removed", c |-> task["deprovisioning"].c])
    BY Zenon, <1>2, <1>12, <2>2 DEF DeleteCluster, Done
  <2> QED
    BY ZenonT(40), <1>1, <1>12, <2>1, <2>2, <2>3 DEF DeleteCluster, Goer
<1>13. ASSUME a = "cleanup", DeleteRow \/ \E d \in Clusters : RemoveServiceAccount(d)
       PROVE  StartsRemoval(a, c)
  <2>1. PICK d \in Clusters : RemoveServiceAccount(d)
    BY Zenon, <1>2, <1>13 DEF DeleteRow, Done
  <2>2. [op |-> "delete", c |-> d].op = "delete" /\ [op |-> "delete", c |-> d].c = d
    BY ZenonT(40)
  <2>3. UNCHANGED <<rows, kafkas>> /\ Do(a, [op |-> "delete", c |-> d])
    BY Zenon, <1>13, <2>1 DEF RemoveServiceAccount, tables
  <2>4. d = c /\ task'[a].op = "delete"
    BY Zenon, <1>1, <2>2, <2>3
  <2> QED
    BY Zenon, <1>13, <2>1, <2>3, <2>4 DEF StartsRemoval
<1>14. ASSUME a = "accepted", AssignKafka \/ \E k \in Kafkas : FindClusterForKafka(k)
       PROVE  FALSE
  <2>1. ~AssignKafka
    BY Zenon, <1>2, <1>14 DEF AssignKafka, Done
  <2>2. \A k, d : [op |-> "assign", k |-> k, c |-> d].op = "assign"
    BY ZenonT(40)
  <2> QED
    BY ZenonT(40), <1>1, <1>14, <2>1, <2>2 DEF FindClusterForKafka
<1> QED
  BY ZenonT(40), <1>3, <1>4, <1>5, <1>6, <1>7, <1>8, <1>9, <1>10, <1>11, <1>12, <1>13, <1>14,
     TaskChanges DEF OwnSteps

\* Nobody turns to the removal of a cluster with a guest: that would be an
\* overlap, so it is the first one, and the guest's row is as it was found.
LEMMA WelcomeStep ==
    ASSUME TypeOK, FreshInv, Next, races' <= 1, NEW c \in Managed, Cared(c)
    PROVE  Welcome(c)'
<1>0. c \in Clusters /\ "deprovisioning" \in Actors /\ "cleanup" \in Actors /\ c # Nowhere
  BY Zenon, Bounds DEF Actors, Workers
<1> SUFFICES ASSUME NEW a \in Actors, Guest(a, c)'
             PROVE  Alive(c)' /\ \A b \in Actors : ~Goer(b, c)'
  BY Zenon DEF Welcome
<1>1. CASE Guest(a, c)
  <2>1. Alive(c) /\ \A b \in Actors : ~Goer(b, c)
    BY Zenon, <1>1 DEF Cared, Welcome
  <2>2. Alive(c)'
    BY Zenon, <2>1, AliveStays
  <2>3. ~RemoveServiceAccount(c)
    BY Zenon, <2>1 DEF RemoveServiceAccount, Alive
  <2>4. ASSUME ProcessDeprovisioning(c)
        PROVE  FALSE
    <3>1. task["deprovisioning"] = Idle /\ rows[c].st = "deprovisioning" /\ Starts
      BY Zenon, <2>4 DEF ProcessDeprovisioning
    <3>2. Idle.op = "none"
      BY ZenonT(40) DEF Idle
    <3>3. task[a] # Idle
      BY Zenon, <1>1, <3>2 DEF Guest, Registering
    <3>4. races' = races + 1
      BY Zenon, <3>1, <3>3, StartCounts DEF Quiet
    <3>5. races = 0
      BY SMTT(30), <3>4 DEF TypeOK
    <3>6. Fresh(a)
      BY Zenon, <3>5 DEF FreshInv
    <3>7. a # "deprovisioning"
      BY Zenon, <3>1, <3>3
    <3>8. task[a].op # "restore"
      BY Zenon, <3>7, TaskOwners
    <3> QED
      BY ZenonT(40), <1>0, <1>1, <3>1, <3>6, <3>8 DEF Fresh, Guest
  <2>5. \A b \in Actors : ~Goer(b, c)'
    BY Zenon, <2>1, <2>3, <2>4, GoerComes DEF StartsRemoval
  <2> QED
    BY Zenon, <2>2, <2>5
<1>2. CASE Comes(a, c)
  <2>1. Alive(c)
    BY Zenon, <1>2 DEF Comes, Cared, Hosts, Runs, Alive
  <2>2. \A b \in Actors : ~Goer(b, c)
    <3>1. ASSUME NEW b \in Actors, Goer(b, c)
          PROVE  FALSE
      BY Zenon, <1>2, <3>1 DEF Comes, Cared, Leaves
    <3> QED
      BY Zenon, <3>1
  <2>3. Alive(c)'
    BY Zenon, <1>2, <2>1 DEF Comes, Alive
  <2>4. ~Goer(a, c)'
    BY Zenon DEF Goer, Guest, Registering
  <2>5. ASSUME NEW b \in Actors, b # a
        PROVE  ~Goer(b, c)'
    BY Zenon, <1>2, <2>2, <2>5 DEF Comes, Goer
  <2> QED
    BY Zenon, <2>3, <2>4, <2>5
<1> QED
  BY Zenon, <1>1, <1>2, GuestComes

\* Nothing comes to a cluster that is being removed, and its row waits for the
\* one who removes it.
LEMMA LeavesStep ==
    ASSUME TypeOK, Next, NEW c \in Managed, Cared(c)
    PROVE  Leaves(c)'
<1>0. c \in Clusters /\ c \notin Enterprise /\ Requests \cup {"deprovisioning"} \subseteq Actors
      /\ {"deprovisioning", "cleanup", "accepted"} \subseteq Actors
  BY Zenon, Bounds DEF Actors, Workers
<1> SUFFICES ASSUME NEW a \in Actors, Goer(a, c)'
             PROVE  /\ HostedBy(c)' = {}
                    /\ rows'[c].st = IF task'[a].op = "delete" THEN "cleanup"
                                                               ELSE "deprovisioning"
  BY Zenon DEF Leaves
<1>1. ASSUME Goer(a, c), task'[a].op = "delete" <=> task[a].op = "delete"
      PROVE  /\ HostedBy(c)' = {}
             /\ rows'[c].st = IF task'[a].op = "delete" THEN "cleanup" ELSE "deprovisioning"
  <2>1. /\ HostedBy(c) = {}
        /\ rows[c].st = IF task[a].op = "delete" THEN "cleanup" ELSE "deprovisioning"
    BY Zenon, <1>1 DEF Cared, Leaves
  <2>2. \A b \in Actors : ~Guest(b, c)
    BY Zenon, <1>1 DEF Cared, Welcome
  <2>3. HostedBy(c)' = {}
    <3>1. ~(AssignKafka /\ task["accepted"].c = c)
      BY Zenon, <1>0, <2>2 DEF AssignKafka, Guest
    <3>2. \A q \in Requests : ~(CreateKafka(q) /\ task[q].host = c)
      BY Zenon, <1>0, <2>2 DEF CreateKafka, Guest, Registering
    <3> QED
      BY Zenon, <1>0, <2>1, <3>1, <3>2, HostedChanges
  <2>4. ASSUME RowWritten(c)
        PROVE  rows'[c].st = rows[c].st
    <3>1. Written(c)
      BY Zenon, <2>4, WrittenIs
    <3>2. \A st : rows[c].st # Before(st)
      BY Zenon, <2>1 DEF Before
    <3>3. rows[c].st \in {"cleanup", "deprovisioning"}
      BY Zenon, <2>1
    <3>4. ASSUME NEW b \in Actors, Do(b, Idle)
          PROVE  a # b
      <4>1. Idle.op = "none"
        BY ZenonT(40) DEF Idle
      <4>2. task'[b] = Idle
        BY Zenon, <3>4, DoFrame
      <4> QED
        BY Zenon, <4>1, <4>2 DEF Goer
    <3>5. ~(MarkForCleanup /\ rows[c].st = "deprovisioning")
      <4>1. rows[c].st = "deprovisioning" => a = "deprovisioning"
        BY Zenon, <1>1, <2>1, TaskOwners DEF Goer
      <4> QED
        BY Zenon, <1>0, <3>4, <4>1 DEF MarkForCleanup, Done
    <3>6. ~(DeleteRow /\ rows[c].st = "cleanup")
      <4>1. rows[c].st = "cleanup" => a = "cleanup"
        BY Zenon, <1>1, <2>1, TaskOwners DEF Goer
      <4> QED
        BY Zenon, <1>0, <3>4, <4>1 DEF DeleteRow, Done
    <3>7. \A b \in Requests \cup {"deprovisioning"} : ~Guest(b, c)
      BY Zenon, <1>0, <2>2
    <3>8. rows[c].st \notin {"none", "ready", "waiting"}
      BY Zenon, <3>3
    <3>9. rows[c].st # "cleanup" => rows[c].st = "deprovisioning"
      BY Zenon, <3>3
    <3> QED
      BY ZenonT(40), <3>1, <3>2, <3>5, <3>6, <3>7, <3>8, <3>9 DEF Written
  <2>5. rows'[c].st = rows[c].st
    BY Zenon, <1>0, <2>4, RowChanges
  <2> QED
    BY Zenon, <1>1, <2>1, <2>3, <2>5
<1>2. ASSUME StartsRemoval(a, c)
      PROVE  /\ HostedBy(c)' = {}
             /\ rows'[c].st = IF task'[a].op = "delete" THEN "cleanup" ELSE "deprovisioning"
  <2>1. UNCHANGED rows /\ HostedBy(c)' = HostedBy(c)
    BY Zenon, <1>2 DEF StartsRemoval, HostedBy
  <2>2. RemoveServiceAccount(c) => HostedBy(c) = {}
    BY Zenon DEF RemoveServiceAccount, Cared, Hosts, Alive
  <2> QED
    BY Zenon, <1>2, <2>1, <2>2 DEF StartsRemoval, RemoveServiceAccount, ProcessDeprovisioning
<1> QED
  BY Zenon, <1>1, <1>2, GoerComes

\* What the cluster manager found holds until it writes: the others write only
\* rows that it does not promote, or that stay ready or waiting.
LEMMA PromotedStep ==
    ASSUME TypeOK, ScanInv, Next, NEW c \in Managed, Cared(c)
    PROVE  Promoted(c)'
<1>0. /\ c \in Clusters /\ c \notin Enterprise /\ "clusters" \in Actors /\ "clusters" \notin Requests
      /\ "deprovisioning" \in Actors /\ Requests \cup {"deprovisioning"} \subseteq Actors
      /\ scaling' = scaling /\ Idle.op = "none"
  <2>1. Idle.op = "none"
    BY ZenonT(40) DEF Idle
  <2> QED
    BY Zenon, <2>1, Bounds, Lasting DEF Actors, Workers
<1> DEFINE p == task'["clusters"]
<1> SUFFICES ASSUME p.op = "advance", p.c = c
             PROVE  /\ p.st = "ready" => scaling' = "manual" /\ rows'[c].st \in {"ready", "waiting"}
                    /\ p.st # "ready" => rows'[c].st = Before(p.st)
                    /\ p.st = "provisioned" => cloud'[c] = "up"
  BY Zenon DEF Promoted, Before
<1>1. ~Do("clusters", Idle)
  BY Zenon, <1>0, DoFrame
<1>2. CASE task'["clusters"] = task["clusters"]
  <2>1. /\ task["clusters"].op = "advance"
        /\ p.st = "ready" => scaling = "manual" /\ rows[c].st \in {"ready", "waiting"}
        /\ p.st # "ready" => rows[c].st = Before(p.st)
        /\ p.st = "provisioned" => cloud[c] = "up"
    BY Zenon, <1>2 DEF Cared, Promoted
  <2>2. /\ p.st # "ready" => rows[c].st \in {"accepted", "provisioning", "provisioned"}
        /\ rows[c].st \notin {"none", "deprovisioning", "cleanup"}
    BY Zenon, <2>1 DEF Before
  <2>3. task["clusters"] # Idle
    BY Zenon, <1>0, <2>1
  <2>4. ASSUME RowWritten(c)
        PROVE  p.st = "ready" /\ rows'[c].st \in {"ready", "waiting"}
    <3>1. Written(c)
      BY Zenon, <2>4, WrittenIs
    <3>2. ~SaveCluster /\ ~ReconcileManualConfig /\ ~DeprovisionExcess
      BY Zenon, <1>1, <2>1, <2>3 DEF SaveCluster, ReconcileManualConfig, DeprovisionExcess, Done
    <3>3. ~(ScaleDown /\ rows[c].st \in {"ready", "waiting"})
      <4>1. ScaleDown => scaling = "auto"
        BY Zenon, <1>0 DEF ScaleDown, ScanInv
      <4> QED
        BY Zenon, <2>1, <2>2, <4>1
    <3>4. ASSUME NEW b \in Requests \cup {"deprovisioning"}, Guest(b, c)
          PROVE  p.st = "ready"
      BY Zenon, <1>0, <2>2, <3>4 DEF Cared, Welcome, Alive
    <3>5. rows[c].st # "none" /\ rows[c].st # "deprovisioning" /\ rows[c].st # "cleanup"
      BY Zenon, <2>2
    <3> QED
      BY ZenonT(40), <3>1, <3>2, <3>3, <3>4, <3>5 DEF Written
  <2>5. p.st = "provisioned" => cloud'[c] = "up"
    <3> SUFFICES ASSUME p.st = "provisioned"
                 PROVE  cloud'[c] = "up"
      BY Zenon
    <3>1. cloud[c] = "up" /\ ~InstallFails(c) /\ ~Deleted(c)
      BY Zenon, <2>1 DEF InstallFails, Deleted
    <3>2. ~ProcessCluster(c) /\ ~Fail("clusters")
      BY Zenon, <1>1, <2>3 DEF ProcessCluster, Fail, Done
    <3>3. ~(DeleteCluster /\ task["deprovisioning"].c = c)
      <4>1. DeleteCluster /\ task["deprovisioning"].c = c
              => Goer("deprovisioning", c) /\ task["deprovisioning"].op # "delete"
        BY Zenon DEF DeleteCluster, Goer
      <4> QED
        BY Zenon, <1>0, <2>2, <4>1 DEF Cared, Leaves
    <3> QED
      BY ZenonT(40), <1>0, <3>1, <3>2, <3>3, CloudChanges DEF CloudMoved
  <2>6. CASE rows'[c].st = rows[c].st
    BY Zenon, <1>0, <2>1, <2>5, <2>6
  <2>7. CASE RowWritten(c)
    BY ZenonT(40), <1>0, <2>1, <2>4, <2>5, <2>7
  <2> QED
    BY Zenon, <1>0, <2>6, <2>7, RowChanges
<1>3. ASSUME NEW d \in Clusters, ProcessCluster(d)
      PROVE  /\ p.st = "ready" => scaling' = "manual" /\ rows'[c].st \in {"ready", "waiting"}
             /\ p.st # "ready" => rows'[c].st = Before(p.st)
             /\ p.st = "provisioned" => cloud'[c] = "up"
  <2>1. PICK st \in NextStatus(d) : Do("clusters", Advance(d, st))
    BY Zenon, <1>3 DEF ProcessCluster
  <2>2. p = Advance(d, st)
    BY Zenon, <1>0, <2>1, DoFrame
  <2>3. Advance(d, st).c = d /\ Advance(d, st).st = st
    BY ZenonT(40) DEF Advance
  <2>4. d = c /\ p.st = st
    BY Zenon, <2>2, <2>3
  <2>5. /\ rows[c].st = Before(st) /\ st \in {"provisioning", "provisioned", "failed", "waiting"}
        /\ st = "provisioned" => cloud[c] = "up"
    BY Zenon, <1>0, <2>1, <2>4, NextFollows
  <2>6. UNCHANGED rows /\ (~Creates(c) => UNCHANGED cloud)
    BY Zenon, <1>3, <2>4 DEF ProcessCluster, tables
  <2>7. st = "provisioned" => ~Creates(c)
    BY Zenon, <2>5 DEF Creates, Before
  <2> QED
    BY Zenon, <2>4, <2>5, <2>6, <2>7
<1>4. ASSUME NEW d \in Clusters, ReconcileReadyCluster(d)
      PROVE  p.st = "ready" /\ scaling' = "manual" /\ rows'[c].st = "ready"
  <2>1. /\ Do("clusters", Advance(d, "ready")) /\ scaling = "manual"
        /\ rows[d].st = "ready" /\ UNCHANGED rows
    BY Zenon, <1>4 DEF ReconcileReadyCluster, tables
  <2>2. p = Advance(d, "ready")
    BY Zenon, <1>0, <2>1, DoFrame
  <2>3. Advance(d, "ready").c = d /\ Advance(d, "ready").st = "ready"
    BY Zenon DEF Advance
  <2> QED
    BY Zenon, <1>0, <2>1, <2>2, <2>3
<1>5. ~ReconcileManualConfig
  <2>1. [op |-> "deprovision", ids |-> Excess].op = "deprovision"
    BY ZenonT(40)
  <2>2. ~Do("clusters", [op |-> "deprovision", ids |-> Excess])
    BY Zenon, <1>0, <2>1, DoFrame
  <2> QED
    BY Zenon, <1>1, <2>2 DEF ReconcileManualConfig
<1>6. ~SaveCluster /\ ~DeprovisionExcess /\ ~Fail("clusters")
  BY Zenon, <1>1 DEF SaveCluster, DeprovisionExcess, Fail, Done
<1> QED
  BY ZenonT(40), <1>0, <1>2, <1>3, <1>4, <1>5, <1>6, TaskChanges DEF OwnSteps, ManagerSteps

\* Nobody else takes the row that scale up chose.
LEMMA RisesStep ==
    ASSUME TypeOK, Next, NEW c \in Managed, Cared(c)
    PROVE  Rises(c)'
<1>0. /\ c \in Clusters /\ "up" \in Actors /\ "up" \notin Requests /\ scaling' = scaling
      /\ Requests \cup {"deprovisioning"} \subseteq Actors
  BY Zenon, Bounds, Lasting DEF Actors, Workers
<1> SUFFICES ASSUME task'["up"] # Idle
             PROVE  scaling' = "auto" /\ (task'["up"].c = c => rows'[c].st = "none")
  BY Zenon DEF Rises, Idle
<1>1. ~Do("up", Idle)
  BY Zenon, <1>0, DoFrame
<1>2. CASE task'["up"] = task["up"]
  <2>1. scaling = "auto" /\ (task'["up"].c = c => rows[c].st = "none")
    BY Zenon, <1>2 DEF Cared, Rises
  <2>2. ASSUME RowWritten(c)
        PROVE  rows[c].st # "none"
    <3>1. Written(c)
      BY Zenon, <2>2, WrittenIs
    <3>2. \A st : Before(st) # "none"
      BY Zenon DEF Before
    <3>3. ~ReconcileManualConfig /\ ~ScaleUp
      BY Zenon, <1>1, <2>1 DEF ReconcileManualConfig, ScaleUp, Done
    <3> QED
      BY Zenon, <3>1, <3>2, <3>3 DEF Written, Exists
  <2> QED
    BY ZenonT(40), <1>0, <2>1, <2>2, RowChanges
<1>3. CASE EvaluateScaleUp
  <2>1. /\ Do("up", [op |-> "scaleup", c |-> Min(FreeRows)]) /\ scaling = "auto"
        /\ FreeRows # {} /\ UNCHANGED rows
    BY Zenon, <1>3 DEF EvaluateScaleUp, tables
  <2>2. FreeRows \subseteq 1..MaxManaged /\ MaxManaged \in Nat
    BY Zenon, Bounds DEF FreeRows
  <2>3. Min(FreeRows) \in FreeRows
    BY Zenon, <2>1, <2>2, LeastOf
  <2>4. rows[Min(FreeRows)].st = "none"
    BY Zenon, <2>3 DEF FreeRows, Exists
  <2>5. [op |-> "scaleup", c |-> Min(FreeRows)].c = Min(FreeRows)
    BY ZenonT(40)
  <2>6. task'["up"] = [op |-> "scaleup", c |-> Min(FreeRows)]
    BY Zenon, <1>0, <2>1, DoFrame
  <2> QED
    BY ZenonT(40), <1>0, <2>1, <2>4, <2>5, <2>6
<1>4. ~ScaleUp /\ ~Fail("up")
  BY Zenon, <1>1 DEF ScaleUp, Fail, Done
<1> QED
  BY ZenonT(40), <1>0, <1>2, <1>3, <1>4, TaskChanges DEF OwnSteps

\* The clusters that a scale down pass saw ready are ready or waiting until it
\* marks them itself.
LEMMA FallsStep ==
    ASSUME TypeOK, ScanInv, ManualInv, Next, NEW c \in Managed, Cared(c)
    PROVE  Falls(c)'
<1>0. /\ c \in Clusters /\ "down" \in Actors /\ "down" \notin Requests
      /\ Requests \cup {"deprovisioning"} \subseteq Actors
  BY Zenon, Bounds DEF Actors, Workers
<1> DEFINE t == task'["down"]
<1> SUFFICES ASSUME t # Idle
             PROVE  /\ t.list[t.c].st = "ready"
                    /\ t.list[c].st = "ready" => rows'[c].st \in {"ready", "waiting"}
  BY Zenon DEF Falls, Idle
<1>1. ~Do("down", Idle)
  BY Zenon, <1>0, DoFrame
<1>2. ASSUME NEW l, NEW last, Do("down", ScanFrom(l, last))
      PROVE  t.list = l /\ t.list[t.c].st = "ready"
  <2>1. t = ScanFrom(l, last)
    BY Zenon, <1>0, <1>2, DoFrame
  <2>2. ScanFrom(l, last).list = l /\ ShouldScaleDown(l, ScanFrom(l, last).c)
    BY Zenon, <2>1, ScanFinds
  <2> QED
    BY Zenon, <2>1, <2>2 DEF ShouldScaleDown
<1>3. CASE EvaluateScaleDown
  <2>1. Do("down", ScanFrom(Counts, 0)) /\ UNCHANGED rows
    BY Zenon, <1>3 DEF EvaluateScaleDown, tables
  <2>2. t.list = Counts /\ t.list[t.c].st = "ready"
    BY Zenon, <1>2, <2>1
  <2>3. Counts[c].st = rows[c].st
    BY ZenonT(40) DEF Counts
  <2> QED
    BY Zenon, <2>1, <2>2, <2>3
<1>4. CASE ScaleDown
  <2> DEFINE d == task["down"].c
             old == task["down"].list
             new == [old EXCEPT ![d] = [st |-> "deprovisioning", units |-> @.units,
                                        used |-> @.used]]
  <2>1. SetStatus(d, "deprovisioning") /\ Do("down", ScanFrom(new, d)) /\ task["down"] # Idle
    BY <1>4 DEF ScaleDown, Idle
  <2>2. t.list = new /\ t.list[t.c].st = "ready"
    BY Zenon, <1>2, <2>1
  <2>3. task["down"] \in ScaleDowns
    BY Zenon, <2>1, TaskTypes
  <2>4. new[c].st = "ready" => c # d /\ old[c].st = "ready"
    BY ZenonT(40), <2>3 DEF ScaleDowns
  <2>5. old[c].st = "ready" => rows[c].st \in {"ready", "waiting"}
    BY Zenon, <2>1 DEF Cared, Falls
  <2>6. d \in Clusters
    BY Zenon, <2>3, Bounds DEF ScaleDowns
  <2>7. c # d => rows'[c].st = rows[c].st
    <3>1. PICK e \in Clusters : e = d
      BY Zenon, <2>6
    <3>2. SetStatus(e, "deprovisioning")
      BY Zenon, <2>1, <3>1
    <3>3. rows'[c].st = rows[c].st \/ c = e
      BY Zenon, <1>0, <3>2, StatusWritten
    <3> QED
      BY Zenon, <3>1, <3>3
  <2> QED
    BY ZenonT(40), <2>2, <2>4, <2>5, <2>7
<1>5. ASSUME task'["down"] = task["down"], ~ScaleDown
      PROVE  /\ t.list[t.c].st = "ready"
             /\ t.list[c].st = "ready" => rows'[c].st \in {"ready", "waiting"}
  <2>1. /\ t.list[t.c].st = "ready" /\ scaling = "auto"
        /\ t.list[c].st = "ready" => rows[c].st \in {"ready", "waiting"}
    BY Zenon, <1>5 DEF Cared, Falls, ScanInv
  <2>2. ASSUME RowWritten(c), rows[c].st \in {"ready", "waiting"}
        PROVE  rows'[c].st \in {"ready", "waiting"}
    <3>1. Written(c)
      BY Zenon, <2>2, WrittenIs
    <3>2. \A st : st # "ready" => rows[c].st # Before(st)
      BY Zenon, <2>2 DEF Before
    <3>3. ~DeprovisionExcess
      BY Zenon, <2>1 DEF DeprovisionExcess, ManualInv
    <3>4. rows[c].st # "none" /\ rows[c].st # "deprovisioning" /\ rows[c].st # "cleanup"
      BY Zenon, <2>2
    <3> QED
      BY Zenon, <1>5, <2>1, <3>1, <3>2, <3>3, <3>4 DEF Written
  <2> QED
    BY Zenon, <1>0, <2>1, <2>2, RowChanges
<1>6. ~Fail("down")
  BY Zenon, <1>1 DEF Fail, Done
<1> QED
  BY ZenonT(40), <1>0, <1>3, <1>4, <1>5, <1>6, TaskChanges DEF OwnSteps

\* Every step cares for the managed clusters.
LEMMA CareStep ==
    ASSUME TypeOK, FreshInv, ScanInv, ManualInv, CareInv, Next
    PROVE  CareInv'
<1> SUFFICES ASSUME races' <= 1, NEW c \in Managed
             PROVE  Cared(c)'
  BY Zenon DEF CareInv
<1>1. races' \in {races, races + 1}
  BY Zenon, TurnTaken
<1>2. races <= 1
  BY SMTT(30), <1>1 DEF TypeOK
<1>3. Cared(c)
  BY Zenon, <1>2 DEF CareInv
<1>4. Hosts(c)' /\ Runs(c)' /\ Welcome(c)' /\ Leaves(c)'
  BY ZenonT(40), <1>3, HostsStep, RunsStep, WelcomeStep, LeavesStep
<1>5. Promoted(c)' /\ Rises(c)' /\ Falls(c)'
  BY Zenon, <1>3, PromotedStep, RisesStep, FallsStep
<1> QED
  BY Zenon, <1>4, <1>5 DEF Cared

\* Such clusters are the ones that HostKept is about.
LEMMA HostKeptByCare ==
    ASSUME TypeOK, CareInv, HomeInv
    PROVE  HostKept
<1> SUFFICES ASSUME NEW c \in Clusters, HostedBy(c) # {},
                    races <= (IF c \in Managed THEN 1 ELSE 0)
             PROVE  cloud[c] = "up" /\ rows[c].st \notin {"none", "cleanup"}
  BY Zenon DEF HostKept
<1>1. CASE c \in Managed
  BY Zenon, <1>1 DEF CareInv, Cared, Hosts, Alive
<1>2. CASE c \notin Managed
  <2>1. c \in Enterprise
    BY Zenon, <1>2 DEF Clusters
  <2>2. races = 0
    BY SMTT(30), <1>2 DEF TypeOK
  <2> QED
    BY Zenon, <2>1, <2>2 DEF HomeInv
<1> QED
  BY Zenon, <1>1, <1>2

-----------------------------------------------------------------------------
(* The invariant, and what follows.                                        *)

RemovalInv == /\ LimitsInv /\ LoneInv /\ FreshInv /\ AccountInv /\ GoneInv
              /\ ScanInv /\ ManualInv /\ HomeInv /\ CareInv

\* It holds when the service starts, with no row, no task and no account.
LEMMA RemovalInit ==
    ASSUME Init
    PROVE  RemovalInv
<1>0. /\ Requests \subseteq Actors /\ Managed \subseteq Clusters /\ Enterprise \subseteq Clusters
      /\ Managed \cap Enterprise = {}
      /\ {"clusters", "up", "down", "deprovisioning", "cleanup", "accepted"} \subseteq Actors
  BY Zenon, Bounds DEF Actors, Workers
<1>1. /\ \A a \in Actors : task[a] = Idle
      /\ \A c \in Clusters : rows[c] = NoRow
      /\ \A k \in Kafkas : kafkas[k] = NoKafka
      /\ accounts = {}
      /\ \A c \in Clusters : cloud[c] = IF c \in configured \cup Enterprise THEN "up" ELSE "none"
      /\ configured = IF scaling = "manual" THEN {1} ELSE {}
  BY Zenon DEF Init
<1>2. Idle.op = "none" /\ NoRow.st = "none" /\ NoKafka.st = "none"
  BY Zenon DEF Idle, NoRow, Row, NoKafka, Kafka
<1>3. /\ \A a \in Actors : task[a].op = "none"
      /\ \A c \in Clusters : rows[c].st = "none" /\ HostedBy(c) = {}
  BY Zenon, <1>1, <1>2 DEF HostedBy
<1>4. LimitsInv
  BY Zenon, LimitsInit
<1>5. LoneInv
  <2>1. "up" \in Actors
    BY Zenon, <1>0
  <2> QED
    BY Zenon, <1>1, <2>1 DEF LoneInv
<1>6. FreshInv
  BY Zenon, <1>3 DEF FreshInv, Fresh, Registering
<1>7. AccountInv
  BY Zenon, <1>1 DEF AccountInv
<1>8. GoneInv
  <2> SUFFICES ASSUME scaling = "auto", NEW c \in Managed
               PROVE  cloud[c] = "none"
    BY Zenon DEF GoneInv
  <2>1. c \notin configured \cup Enterprise /\ c \in Clusters
    BY Zenon, <1>0, <1>1
  <2> QED
    BY Zenon, <1>1, <2>1
<1>9. ScanInv /\ ManualInv
  BY Zenon, <1>0, <1>1, <1>3 DEF ScanInv, ManualInv
<1>10. HomeInv
  BY Zenon, <1>0, <1>1, <1>3 DEF HomeInv
<1>11. CareInv
  <2> SUFFICES ASSUME NEW c \in Managed
               PROVE  Cared(c)
    BY Zenon DEF CareInv
  <2>1. c \in Clusters /\ "up" \in Actors /\ "down" \in Actors /\ "clusters" \in Actors
    BY Zenon, <1>0
  <2>2. Hosts(c) /\ Runs(c)
    BY Zenon, <1>3, <2>1 DEF Hosts, Runs
  <2>3. Welcome(c) /\ Leaves(c)
    BY Zenon, <1>3 DEF Welcome, Leaves, Guest, Goer, Registering
  <2>4. Promoted(c) /\ Rises(c) /\ Falls(c)
    BY Zenon, <1>1, <1>3, <2>1 DEF Promoted, Rises, Falls
  <2> QED
    BY Zenon, <2>2, <2>3, <2>4 DEF Cared
<1> QED
  BY ZenonT(40), <1>4, <1>5, <1>6, <1>7, <1>8, <1>9, <1>10, <1>11 DEF RemovalInv

\* Every step keeps it.
LEMMA RemovalStep ==
    ASSUME RemovalInv, [Next]_vars
    PROVE  RemovalInv'
<1>0. LimitsInv'
  BY Zenon, LimitsStep DEF RemovalInv
<1>t. TypeOK /\ HostInv /\ TypeOK'
  BY Zenon, <1>0 DEF RemovalInv, LimitsInv
<1>1. CASE Next
  <2>1. LoneInv'
    <3> SUFFICES ASSUME races' = 0
                 PROVE  \E a \in Actors : \A b \in Actors : b # a => task'[b] = Idle
      BY Zenon DEF LoneInv, Idle
    <3> QED
      BY Zenon, <1>1, <1>t, LoneStep DEF RemovalInv
  <2>2. FreshInv' /\ AccountInv' /\ GoneInv'
    BY ZenonT(40), <1>1, <1>t, FreshStep, AccountStep, GoneStep DEF RemovalInv
  <2>3. ScanInv' /\ ManualInv' /\ HomeInv'
    BY Zenon, <1>1, <1>t, ScanStep, ManualStep, HomeStep DEF RemovalInv
  <2>4. CareInv'
    BY Zenon, <1>1, <1>t, CareStep DEF RemovalInv
  <2> QED
    BY ZenonT(40), <1>0, <2>1, <2>2, <2>3, <2>4 DEF RemovalInv
<1>2. CASE UNCHANGED vars
  <2>1. UNCHANGED <<scaling, rows, cloud, accounts, kafkas, task, lost, races>>
    BY Zenon, <1>2 DEF vars
  <2>2. \A c : HostedBy(c)' = HostedBy(c)
    BY Zenon, <2>1 DEF HostedBy
  <2>3. LoneInv'
    BY Zenon, <2>1 DEF RemovalInv, LoneInv, Idle
  <2>4. FreshInv'
    BY Zenon, <2>1, <2>2 DEF RemovalInv, FreshInv, Fresh, Registering, Before
  <2>5. AccountInv' /\ GoneInv'
    BY Zenon, <2>1 DEF RemovalInv, AccountInv, GoneInv, Exists
  <2>6. ScanInv'
    <3>1. Counts' = Counts
      BY Zenon, <2>1, <2>2 DEF Counts, Used, Total, Size
    <3> QED
      BY Zenon, <2>1, <3>1 DEF RemovalInv, ScanInv, ShouldScaleDown, Idle
  <2>7. ManualInv' /\ HomeInv'
    BY Zenon, <2>1, <2>2 DEF RemovalInv, ManualInv, HomeInv
  <2>8. CareInv'
    <3> SUFFICES ASSUME races <= 1, NEW c \in Managed
                 PROVE  Cared(c)'
      BY Zenon, <2>1 DEF CareInv
    <3>1. Cared(c)
      BY Zenon DEF RemovalInv, CareInv
    <3>2. Hosts(c)' /\ Runs(c)'
      BY Zenon, <2>1, <2>2, <3>1 DEF Cared, Hosts, Runs, Alive
    <3>3. Welcome(c)' /\ Leaves(c)'
      BY Zenon, <2>1, <2>2, <3>1 DEF Cared, Welcome, Leaves, Alive, Guest, Goer, Registering
    <3>4. Promoted(c)' /\ Rises(c)' /\ Falls(c)'
      BY Zenon, <2>1, <3>1 DEF Cared, Promoted, Rises, Falls, Before, Idle
    <3> QED
      BY Zenon, <3>2, <3>3, <3>4 DEF Cared
  <2> QED
    BY ZenonT(40), <1>0, <2>3, <2>4, <2>5, <2>6, <2>7, <2>8 DEF RemovalInv
<1> QED
  BY Zenon, <1>1, <1>2

\* What handlers read and still rely on is an invariant of the fleet.
THEOREM RemovalInvariance == Spec => []RemovalInv
BY RemovalInit, RemovalStep, PTL DEF Spec

\* A cluster that hosts a Kafka is there, however the workers, the agents and
\* the users interleave: a managed one also after one overlap, because the
\* deprovisioning manager looks again, an enterprise one without any.
THEOREM HostKeptHolds == Spec => []HostKept
<1>1. RemovalInv => HostKept
  BY Zenon, HostKeptByCare DEF RemovalInv, LimitsInv
<1> QED
  BY <1>1, RemovalInvariance, PTL

\* With the row of a cluster go its agent's account and, with dynamic scaling,
\* the cluster itself, whatever step of the removal failed before.
THEOREM CleanRemovalHolds == Spec => []CleanRemoval
<1>1. RemovalInv => CleanRemoval
  BY Zenon, RemovedCleanly DEF RemovalInv, LimitsInv
<1> QED
  BY <1>1, RemovalInvariance, PTL

\* No write of a scale down pass makes the next evaluation scale up, for any
\* number of clusters, sizes and limits.
THEOREM NoFlappingHolds == Spec => NoFlapping
<1>1. RemovalInv /\ [Next]_vars
        => [task["down"] # Idle /\ rows' # rows /\ races = 0
              => ~ShouldScaleUp(Counts', Managed)]_vars
  <2> SUFFICES ASSUME RemovalInv, Next, task["down"] # Idle, rows' # rows, races = 0
               PROVE  ~ShouldScaleUp(Counts', Managed)
    BY Zenon
  <2> QED
    BY Zenon, NoFlappingStep DEF RemovalInv, LimitsInv
<1> QED
  BY <1>1, RemovalInvariance, PTL DEF Spec, NoFlapping

\* Nothing that was under way brings an enterprise cluster back once its
\* deregistration was accepted, as long as handlers do not overlap.
THEOREM DeregistrationKeptHolds == Spec => DeregistrationKept
<1>1. RemovalInv /\ [Next]_vars
        => [\A c \in Enterprise : rows[c].st = "deprovisioning" /\ races = 0
              => rows'[c].st \in Leaving]_vars
  <2> SUFFICES ASSUME RemovalInv, Next, NEW c \in Enterprise,
                      rows[c].st = "deprovisioning", races = 0
               PROVE  rows'[c].st \in Leaving
    BY Zenon
  <2> QED
    BY Zenon, DeregistrationStep DEF RemovalInv, LimitsInv
<1> QED
  BY <1>1, RemovalInvariance, PTL DEF Spec, DeregistrationKept
=============================================================================
