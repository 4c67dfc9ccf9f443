------------------------------- MODULE Fleet -------------------------------
(***************************************************************************)
(* The data plane clusters and the Kafkas placed on them: RegisterKafkaJob *)
(* with its region limit, placement and quota, the cluster workers         *)
(* (create, terraform, scale up, scale down, deprovision, clean up), the   *)
(* status reports of the cluster agents, and the registration of           *)
(* enterprise clusters.  One region, one instance type.                    *)
(*                                                                         *)
(* A handler that reads before it writes, or that calls a service and then *)
(* the database, is split into those statements; what it holds in between  *)
(* is its task.  `races' counts the handlers that start while another one  *)
(* is under way.  What happens to a Kafka after its placement is in        *)
(* KafkaRequests; here it is deleted or not.                               *)
(***************************************************************************)
EXTENDS Integers, FiniteSets, FiniteSetsExt, Functions

CONSTANTS
    MaxManaged,   \* bound on the rows of managed clusters
    Enterprise,   \* ids of clusters that customers may register
    MaxKafkas,    \* bound on the rows of Kafkas
    Requests,     \* the REST requests served at a time
    Replicas,     \* fleet manager processes
    Scalings,     \* the DataPlaneClusterScalingTypes to look at
    Sizes,        \* CapacityConsumed of the Kafka sizes
    Units,        \* streaming units that fit on a cluster
    RegionLimit,  \* Limit of the instance type in the region
    Slack,        \* MinAvailableCapacitySlackStreamingUnits
    MaxCalls,     \* bound on the requests of users
    MaxUpsets     \* bound on faults and races together

Managed == 1..MaxManaged
Clusters == Managed \cup Enterprise
Kafkas == 1..MaxKafkas
Workers == {"clusters", "up", "down", "deprovisioning", "cleanup", "accepted"}
Actors == Requests \cup Workers
Nowhere == 0                    \* an empty ClusterID

ASSUME FleetBounds ==
    /\ {MaxManaged, MaxKafkas, Units, RegionLimit, Slack,
        MaxCalls, MaxUpsets} \subseteq Nat
    /\ Sizes \subseteq 1..Units /\ Sizes # {}
    /\ Scalings \subseteq {"auto", "manual"}
    /\ "manual" \in Scalings => MaxManaged > 0
    /\ Enterprise \cap (0..MaxManaged) = {}

\* There is a process, and a request is served by a goroutine of its own.
ASSUME ProcessesAssumption ==
    /\ IsFiniteSet(Replicas) /\ Replicas # {}
    /\ IsFiniteSet(Requests) /\ Requests \cap Workers = {}

VARIABLES
    scaling,     \* DataPlaneClusterScalingType
    configured,  \* the clusters of the manual configuration file
    rows,        \* clusters rows: status and MaxUnits
    cloud,       \* the cluster at the cloud provider
    accounts,    \* clusters whose agent has a service account
    kafkas,      \* kafka_requests rows
    reserved,    \* subscriptions held at the quota service
    task,        \* what every actor is doing
    split,       \* two replicas were inside RegisterKafkaJob at a time
    lost,        \* what failed handlers left behind
    calls, faults, races

tables == <<rows, kafkas>>
outside == <<cloud, accounts, reserved>>
setting == <<scaling, configured>>
counters == <<calls, faults, races>>
vars == <<scaling, configured, rows, cloud, accounts, kafkas, reserved, task,
          split, lost, calls, faults, races>>

Terraforming == {"accepted", "provisioning", "provisioned", "waiting"}
Leaving == {"deprovisioning", "cleanup"}
Statuses == {"none", "ready", "failed"} \cup Terraforming \cup Leaving

Row(st, units) == [st |-> st, units |-> units]
NoRow == Row("none", 0)
Kafka(st, host, size, ent) ==
    [st |-> st, host |-> host, size |-> size, ent |-> ent]
NoKafka == Kafka("none", Nowhere, 0, FALSE)
Idle == [op |-> "none"]

-----------------------------------------------------------------------------
(* What the queries on the two tables return.                              *)

Exists(c) == rows[c].st # "none"

Size(k) == kafkas[k].size

\* The streaming units that the Kafkas of S take, counted one by one.
Total(S) == Cardinality({x \in S \X (1..Units) : x[2] <= Size(x[1])})

\* Every status but deleting consumes resources in the data plane.
HostedBy(c) == {k \in Kafkas : kafkas[k].st \notin {"none", "deleting"}
                               /\ kafkas[k].host = c}

Used(c) == Total(HostedBy(c))

\* Every row that is not an enterprise Kafka counts for the region.
InRegion == Total({k \in Kafkas : kafkas[k].st # "none" /\ ~kafkas[k].ent})

\* FindStreamingUnitCountByClusterAndInstanceType, for the managed clusters:
\* the rows of enterprise clusters have another locator.
Counts == [c \in Managed |->
             [st |-> rows[c].st, units |-> rows[c].units, used |-> Used(c)]]

-----------------------------------------------------------------------------
(* Actors.                                                                 *)

Upset == races + faults < MaxUpsets
Fault == Upset /\ faults' = faults + 1

\* An actor turns to something new, while the others rest or not.
Quiet == \A a \in Actors : task[a] = Idle

Race == Upset /\ races' = races + 1

Starts == IF Quiet THEN UNCHANGED races ELSE Race

\* A request takes the first free place.
Free(q) == task[q] = Idle /\ q = CHOOSE o \in Requests : task[o] = Idle

Called == calls < MaxCalls /\ calls' = calls + 1

Do(a, t) == task' = [task EXCEPT ![a] = t]
Done(a) == Do(a, Idle)

\* UpdateStatus and Update write no row when the row is gone.
SetStatus(c, st) ==
    rows' = IF Exists(c) THEN [rows EXCEPT ![c] = Row(st, @.units)] ELSE rows

Init ==
    /\ scaling \in Scalings
    /\ configured = IF scaling = "manual" THEN {1} ELSE {}
    /\ rows = [c \in Clusters |-> NoRow]
    \* The clusters of the configuration file and of the customers are there.
    /\ cloud = [c \in Clusters |->
                  IF c \in configured \cup Enterprise THEN "up" ELSE "none"]
    /\ accounts = {}
    /\ kafkas = [k \in Kafkas |-> NoKafka]
    /\ reserved = 0
    /\ task = [a \in Actors |-> Idle]
    /\ split = FALSE
    /\ lost = {}
    /\ calls = 0 /\ faults = 0 /\ races = 0

-----------------------------------------------------------------------------
(* POST /kafkas: RegisterKafkaJob, under the mutex of its replica.         *)

Registering(q) == task[q].op \in {"place", "reserve", "insert"}

\* Mutant: without the mutex.
Locked_Never(r) == FALSE

\* kafkaService.mu.
Locked(r) == \E q \in Requests : Registering(q) /\ task[q].r = r

Register(op, r, size, ent, host) ==
    [op |-> op, r |-> r, size |-> size, ent |-> ent, host |-> host]

\* The region limit, for all but enterprise Kafkas.
HasAvailableCapacityInRegion(size) == InRegion + size <= RegionLimit

\* The replicas are alike: which one serves matters only to another request.
Serves(r) == r = CHOOSE s \in Replicas : TRUE

RegisterKafkaJob(q, r, size, ent) ==
    /\ Free(q) /\ ~Locked(r)
    /\ Serves(r) \/ \E o \in Requests : Registering(o)
    /\ Called /\ Starts
    /\ ent \/ HasAvailableCapacityInRegion(size)
    /\ Do(q, Register(IF scaling = "auto" /\ ~ent THEN "reserve" ELSE "place",
                      r, size, ent, Nowhere))
    /\ split' = (split \/ \E o \in Requests : Registering(o) /\ task[o].r # r)
    /\ UNCHANGED <<setting, tables, outside, lost, faults>>

\* FirstReadyWithCapacity; FirstSchedulableWithinLimit, to which a cluster
\* outside the configuration has no limit; and the enterprise strategy.
HasRoom(c, size) ==
    \/ Used(c) + size <= IF scaling = "manual" /\ c \in Managed THEN Units
                                                                ELSE rows[c].units
    \/ scaling = "manual" /\ c \in Managed \ configured

FindCluster(size, ent) ==
    LET able == {c \in IF ent THEN Enterprise ELSE Managed :
                    rows[c].st = "ready" /\ HasRoom(c, size)}
    IN  IF ent \/ able = {} THEN able ELSE {Min(able)}

\* findADataPlaneClusterToPlaceTheKafka.
Place(q) ==
    /\ task[q].op = "place"
    /\ LET t == task[q]
           found == FindCluster(t.size, t.ent)
       IN  \/ found = {} /\ Done(q)
           \/ \E c \in found :
                 Do(q, Register("reserve", t.r, t.size, t.ent, c))
    /\ UNCHANGED <<setting, tables, outside, split, lost, counters>>

\* reserveQuota: the quota service grants a subscription or refuses.
ReserveQuota(q) ==
    /\ task[q].op = "reserve"
    /\ LET t == task[q]
       IN  \/ /\ reserved' = reserved + 1
              /\ Do(q, Register("insert", t.r, t.size, t.ent, t.host))
           \/ UNCHANGED reserved /\ Done(q)
    /\ UNCHANGED <<setting, tables, cloud, accounts, split, lost, counters>>

\* Ids are not used twice: not one that a task still holds.
FreeKafkas == {k \in Kafkas : /\ kafkas[k].st = "none"
                              /\ task["accepted"] = Idle \/ task["accepted"].k # k}

\* Mutant: the limit is checked once more, after the reservation.
CreateKafka_ChecksAgain(q) ==
    /\ task[q].op = "insert"
    /\ LET t == task[q]
       IN  IF t.ent \/ InRegion + t.size < RegionLimit
           THEN /\ FreeKafkas # {}
                /\ kafkas' = [kafkas EXCEPT ![Min(FreeKafkas)] =
                                Kafka("accepted", t.host, t.size, t.ent)]
           ELSE UNCHANGED kafkas
    /\ Done(q)
    /\ UNCHANGED <<setting, rows, outside, split, lost, counters>>

\* The insert.
CreateKafka(q) ==
    /\ task[q].op = "insert"
    /\ FreeKafkas # {}
    /\ LET t == task[q]
       IN  kafkas' = [kafkas EXCEPT ![Min(FreeKafkas)] =
                        Kafka("accepted", t.host, t.size, t.ent)]
    /\ Done(q)
    /\ UNCHANGED <<setting, rows, outside, split, lost, counters>>

-----------------------------------------------------------------------------
(* The accepted Kafkas worker, in dynamic scaling.                         *)

Unplaced(k) == kafkas[k].st = "accepted" /\ kafkas[k].host = Nowhere

FindClusterForKafka(k) ==
    /\ task["accepted"] = Idle /\ Unplaced(k)
    /\ Starts
    /\ \E c \in FindCluster(Size(k), FALSE) :
          Do("accepted", [op |-> "assign", k |-> k, c |-> c])
    /\ UNCHANGED <<setting, tables, outside, split, lost, calls, faults>>

\* Update ignores a Kafka that is under deletion by now.
AssignKafka ==
    /\ task["accepted"].op = "assign"
    /\ LET t == task["accepted"]
       IN  kafkas' = IF kafkas[t.k].st \in {"none", "deprovision", "deleting"} THEN kafkas
                     ELSE [kafkas EXCEPT ![t.k] =
                             Kafka("preparing", t.c, @.size, @.ent)]
    /\ Done("accepted")
    /\ UNCHANGED <<setting, rows, outside, split, lost, counters>>

\* No cluster was found for as long as AcceptedKafkaMaxRetryDuration...
KafkaTimesOut(k) ==
    /\ task["accepted"] = Idle /\ Unplaced(k)
    /\ FindCluster(Size(k), FALSE) = {}
    /\ Fault
    /\ kafkas' = [kafkas EXCEPT ![k] = Kafka("failed", Nowhere, @.size, @.ent)]
    /\ UNCHANGED <<setting, rows, outside, task, split, lost, calls, races>>

\* The user deletes it.
KafkaDeprovision(k) ==
    /\ kafkas[k].st \notin {"none", "deprovision", "deleting"}
    /\ Called /\ Starts
    /\ kafkas' = [kafkas EXCEPT ![k] = Kafka("deprovision", @.host, @.size, @.ent)]
    /\ UNCHANGED <<setting, rows, outside, task, split, lost, faults>>

\* The agent removed it, or it was never placed: KafkaRequests has the details.
KafkaDeleting(k) ==
    /\ kafkas[k].st = "deprovision"
    /\ kafkas[k].host # Nowhere => Exists(kafkas[k].host) /\ cloud[kafkas[k].host] = "up"
    /\ Starts
    /\ kafkas' = [kafkas EXCEPT ![k] = Kafka("deleting", @.host, @.size, @.ent)]
    /\ UNCHANGED <<setting, rows, outside, task, split, lost, calls, faults>>

\* The deleting Kafkas worker gives the quota back and removes the row.
KafkaRemoved(k) ==
    /\ kafkas[k].st = "deleting"
    /\ Starts
    /\ kafkas' = [kafkas EXCEPT ![k] = NoKafka]
    /\ reserved' = reserved - 1
    /\ UNCHANGED <<setting, rows, cloud, accounts, task, split, lost, calls, faults>>

-----------------------------------------------------------------------------
(* ClusterManager: a row moves towards ready.  What the manager reads and  *)
(* asks is one step, the status it writes from that another.               *)

Held(c) == \E a \in Actors : task[a] # Idle /\ "c" \in DOMAIN task[a] /\ task[a].c = c

Advance(c, st) == [op |-> "advance", c |-> c, st |-> st]

\* The status that follows: an enterprise cluster only passes through; a
\* managed one waits for the cloud provider, which may report an error.
NextStatus(c) ==
    CASE rows[c].st = "accepted" -> {"provisioning"}
      [] rows[c].st = "provisioning" /\ c \in Enterprise -> {"provisioned"}
      [] rows[c].st = "provisioning" /\ cloud[c] = "up" -> {"provisioned"}
      [] rows[c].st = "provisioning" /\ cloud[c] = "error" -> {"failed"}
      [] rows[c].st = "provisioned" -> {"waiting"}
      [] OTHER -> {}

\* clusterService.Create: an accepted managed cluster is created at the provider.
Creates(c) == c \in Managed /\ rows[c].st = "accepted"

\* reconcileProvisionedCluster: terraforming a managed cluster creates, with the
\* fleetshard operator, the agent's account.
Terraforms(c) == c \in Managed /\ rows[c].st = "provisioned"

\* processAcceptedClusters, processProvisioningClusters and
\* processProvisionedClusters.
ProcessCluster(c) ==
    /\ task["clusters"] = Idle
    /\ Starts
    /\ \E st \in NextStatus(c) : Do("clusters", Advance(c, st))
    /\ cloud' = IF Creates(c) THEN [cloud EXCEPT ![c] = "installing"] ELSE cloud
    /\ accounts' = IF Terraforms(c) THEN accounts \cup {c} ELSE accounts
    /\ UNCHANGED <<setting, tables, reserved, split, lost, calls, faults>>

\* reconcileReadyCluster: with manual scaling reconcileDynamicCapacityInfo
\* writes back the row it read, its status and no capacity.  With dynamic
\* scaling nothing is written any more.
ReconcileReadyCluster(c) ==
    /\ scaling = "manual" /\ c \in Managed
    /\ task["clusters"] = Idle /\ rows[c].st = "ready"
    /\ Starts
    /\ Do("clusters", Advance(c, "ready"))
    /\ UNCHANGED <<setting, tables, outside, split, lost, calls, faults>>

SaveCluster ==
    /\ task["clusters"].op = "advance"
    /\ SetStatus(task["clusters"].c, task["clusters"].st)
    /\ Done("clusters")
    /\ UNCHANGED <<setting, kafkas, outside, split, lost, counters>>

\* reconcileClusterWithManualConfig: register what is missing, then look for
\* the empty ones among the excess clusters.
Missing == {c \in configured : ~Exists(c)}
Excess == {c \in Managed \ configured : Exists(c) /\ Used(c) = 0}

ReconcileManualConfig ==
    /\ scaling = "manual" /\ task["clusters"] = Idle
    /\ Missing # {} \/ \E c \in Excess : rows[c].st \notin Leaving
    /\ Starts
    /\ rows' = [c \in Clusters |->
                  IF c \in Missing THEN Row("provisioning", 0) ELSE rows[c]]
    /\ Do("clusters", IF Excess = {} THEN Idle
                      ELSE [op |-> "deprovision", ids |-> Excess])
    /\ UNCHANGED <<setting, kafkas, outside, split, lost, calls, faults>>

\* UpdateMultiClusterStatus leaves clusters in cleanup alone.
DeprovisionExcess ==
    /\ task["clusters"].op = "deprovision"
    /\ rows' = [c \in Clusters |->
                  IF c \in task["clusters"].ids /\ rows[c].st \notin {"none", "cleanup"}
                  THEN Row("deprovisioning", rows[c].units) ELSE rows[c]]
    /\ Done("clusters")
    /\ UNCHANGED <<setting, kafkas, outside, split, lost, counters>>

\* A deployment whose configuration file has fewer clusters.
Reconfigure(c) ==
    /\ c \in configured
    /\ Called /\ Starts
    /\ configured' = configured \ {c}
    /\ UNCHANGED <<scaling, tables, outside, task, split, lost, faults>>

-----------------------------------------------------------------------------
(* Dynamic scaling, from the list l of streaming unit counts.              *)

Consumed(l, S) == SumFunction([c \in S |-> l[c].used])
Maximum(l, S) == SumFunction([c \in S |-> l[c].units])
Biggest == Max(Sizes)

\* Mutant: the limit counts as reached when the biggest Kafka reaches it.
ShouldScaleUp_LimitTooEarly(l, S) ==
    LET serving == {c \in S : l[c].st = "ready"}
    IN  /\ Consumed(l, serving) + Biggest < RegionLimit
        /\ \A c \in S : l[c].st \notin Terraforming
        /\ \/ \A c \in serving : l[c].units - l[c].used < Biggest
           \/ Maximum(l, serving) - Consumed(l, serving) < Slack

\* Calculate and ShouldScaleUp, for the clusters in S.
ShouldScaleUp(l, S) ==
    LET serving == {c \in S : l[c].st = "ready"}
    IN  /\ Consumed(l, serving) < RegionLimit
        /\ \A c \in S : l[c].st \notin Terraforming
        /\ \/ \A c \in serving : l[c].units - l[c].used < Biggest
           \/ Maximum(l, serving) - Consumed(l, serving) < Slack

FreeRows == {c \in Managed : ~Exists(c) /\ ~Held(c) /\ cloud[c] = "none"
                             /\ \A k \in Kafkas : kafkas[k].host # c}

EvaluateScaleUp ==
    /\ scaling = "auto" /\ task["up"] = Idle
    /\ ShouldScaleUp(Counts, Managed)
    /\ FreeRows # {}
    /\ Starts
    /\ Do("up", [op |-> "scaleup", c |-> Min(FreeRows)])
    /\ UNCHANGED <<setting, tables, outside, split, lost, calls, faults>>

ScaleUp ==
    /\ task["up"].op = "scaleup"
    /\ rows' = [rows EXCEPT ![task["up"].c] = Row("accepted", 0)]
    /\ Done("up")
    /\ UNCHANGED <<setting, kafkas, outside, split, lost, counters>>

\* ShouldScaleDown: empty, and no scale up without it and the clusters that
\* are not ready yet.
ShouldScaleDown(l, c) ==
    /\ l[c].st = "ready" /\ l[c].used = 0
    /\ ~ShouldScaleUp(l, {o \in Managed \ {c} : l[o].st \notin Terraforming})

Victims(l, last) == {c \in Managed : c > last /\ ShouldScaleDown(l, c)}

\* The pass goes on to the next cluster that should go.
ScanFrom(l, last) ==
    IF Victims(l, last) = {} THEN Idle
    ELSE [op |-> "scaledown", c |-> Min(Victims(l, last)), list |-> l]

EvaluateScaleDown ==
    /\ scaling = "auto" /\ task["down"] = Idle
    /\ Victims(Counts, 0) # {}
    /\ Starts
    /\ Do("down", ScanFrom(Counts, 0))
    /\ UNCHANGED <<setting, tables, outside, split, lost, calls, faults>>

\* Mutant: the list in memory is not marked.
ScaleDown_KeepsList ==
    /\ task["down"].op = "scaledown"
    /\ SetStatus(task["down"].c, "deprovisioning")
    /\ Do("down", ScanFrom(task["down"].list, task["down"].c))
    /\ UNCHANGED <<setting, kafkas, outside, split, lost, counters>>

\* ScaleDown marks the row, and the list in memory.
ScaleDown ==
    /\ task["down"].op = "scaledown"
    /\ LET c == task["down"].c
       IN  /\ SetStatus(c, "deprovisioning")
           /\ Do("down", ScanFrom([task["down"].list EXCEPT ![c] =
                             [st |-> "deprovisioning", units |-> @.units, used |-> @.used]], c))
    /\ UNCHANGED <<setting, kafkas, outside, split, lost, counters>>

-----------------------------------------------------------------------------
(* DeprovisioningClustersManager and CleanupClustersManager.               *)

\* Mutant: the cluster is not looked at again.
ProcessDeprovisioning_Trusts(c) ==
    /\ task["deprovisioning"] = Idle /\ rows[c].st = "deprovisioning"
    /\ c \in Managed => cloud[c] # "deleting"
    /\ Starts
    /\ Do("deprovisioning", [op |-> IF c \in Enterprise THEN "removed" ELSE "remove", c |-> c])
    /\ UNCHANGED <<setting, tables, outside, split, lost, calls, faults>>

\* The row is listed, and a managed cluster looked up among the non-empty
\* ones; the resources of an enterprise cluster are removed.  Passes that find
\* the provider still deleting change nothing and are left out.
ProcessDeprovisioning(c) ==
    /\ task["deprovisioning"] = Idle /\ rows[c].st = "deprovisioning"
    /\ c \in Managed => cloud[c] # "deleting"
    /\ Starts
    /\ Do("deprovisioning",
          [op |-> IF c \in Enterprise THEN "removed"
                  ELSE IF HostedBy(c) # {} THEN "restore" ELSE "remove", c |-> c])
    /\ UNCHANGED <<setting, tables, outside, split, lost, calls, faults>>

\* Not empty: back to ready.
RestoreCluster ==
    /\ task["deprovisioning"].op = "restore"
    /\ SetStatus(task["deprovisioning"].c, "ready")
    /\ Done("deprovisioning")
    /\ UNCHANGED <<setting, kafkas, outside, split, lost, counters>>

\* Mutant: a cluster that is not found is an error.
DeleteCluster_NotFoundFails ==
    /\ task["deprovisioning"].op = "remove"
    /\ LET c == task["deprovisioning"].c
       IN  /\ cloud[c] # "none"
           /\ cloud' = [cloud EXCEPT ![c] = "deleting"]
    /\ Done("deprovisioning")
    /\ UNCHANGED <<setting, tables, accounts, reserved, split, lost, counters>>

\* The provider accepts the deletion, or no longer finds the cluster.
DeleteCluster ==
    /\ task["deprovisioning"].op = "remove"
    /\ LET c == task["deprovisioning"].c
       IN  IF cloud[c] = "none"
           THEN Do("deprovisioning", [op |-> "removed", c |-> c]) /\ UNCHANGED cloud
           ELSE /\ cloud' = [cloud EXCEPT ![c] = "deleting"]
                /\ Done("deprovisioning")
    /\ UNCHANGED <<setting, tables, accounts, reserved, split, lost, counters>>

MarkForCleanup ==
    /\ task["deprovisioning"].op = "removed"
    /\ SetStatus(task["deprovisioning"].c, "cleanup")
    /\ Done("deprovisioning")
    /\ UNCHANGED <<setting, kafkas, outside, split, lost, counters>>

\* Mutant: the service account stays.
RemoveServiceAccount_Forgotten(c) ==
    /\ task["cleanup"] = Idle /\ rows[c].st = "cleanup"
    /\ Starts
    /\ Do("cleanup", [op |-> "delete", c |-> c])
    /\ UNCHANGED <<setting, tables, outside, split, lost, calls, faults>>

\* The row is listed, and the agent's service account removed.
RemoveServiceAccount(c) ==
    /\ task["cleanup"] = Idle /\ rows[c].st = "cleanup"
    /\ Starts
    /\ accounts' = accounts \ {c}
    /\ Do("cleanup", [op |-> "delete", c |-> c])
    /\ UNCHANGED <<setting, tables, cloud, reserved, split, lost, calls, faults>>

\* DeleteByClusterID, HardDeleteByClusterID.
DeleteRow ==
    /\ task["cleanup"].op = "delete"
    /\ rows' = [rows EXCEPT ![task["cleanup"].c] = NoRow]
    /\ Done("cleanup")
    /\ UNCHANGED <<setting, kafkas, outside, split, lost, counters>>

-----------------------------------------------------------------------------
(* The agent's reports, and the requests for enterprise clusters.          *)

\* Mutant: reports are processed in every status.
clusterCanProcessStatusReports_Always(c) == Exists(c)

clusterCanProcessStatusReports(c) == rows[c].st \in {"waiting", "ready"}

\* UpdateDataPlaneClusterStatus reads the row.  The operator is ready for the
\* first time; it repeats itself, which writes what is there unless the report
\* is late, so it counts as a race; or it has trouble, which is a fault.
ReportStatus(q, c, kind) ==
    /\ Free(q) /\ clusterCanProcessStatusReports(c) /\ cloud[c] = "up"
    /\ \/ kind = "first" /\ rows[c].st # "ready" /\ Starts /\ UNCHANGED faults
       \/ kind = "again" /\ rows[c].st = "ready" /\ Race /\ UNCHANGED faults
       \/ kind = "trouble" /\ rows[c].st # "waiting" /\ Quiet /\ Fault /\ UNCHANGED races
       \/ kind = "trouble" /\ rows[c].st # "waiting" /\ ~Quiet /\ Race /\ UNCHANGED faults
    /\ Do(q, [op |-> IF kind = "trouble" THEN "waiting" ELSE "ready", c |-> c])
    /\ UNCHANGED <<setting, tables, outside, split, lost, calls>>

\* setClusterStatus: Update writes the whole row, with the units reported; a
\* managed cluster has no capacity information with manual scaling.
SetClusterStatus(q) ==
    /\ task[q].op = "ready"
    /\ LET c == task[q].c
           units == IF scaling = "manual" /\ c \in Managed THEN 0 ELSE Units
       IN  rows' = IF Exists(c) THEN [rows EXCEPT ![c] = Row("ready", units)] ELSE rows
    /\ Done(q)
    /\ UNCHANGED <<setting, kafkas, outside, split, lost, counters>>

SetClusterWaiting(q) ==
    /\ task[q].op = "waiting"
    /\ SetStatus(task[q].c, "waiting")
    /\ Done(q)
    /\ UNCHANGED <<setting, kafkas, outside, split, lost, counters>>

\* RegisterEnterpriseCluster: an id that is not taken; the service account;
\* the row, whose ClusterID is unique.
RegisterEnterpriseCluster(q, c) ==
    /\ c \in Enterprise /\ Free(q) /\ ~Exists(c)
    /\ Called /\ Starts
    /\ accounts' = accounts \cup {c}
    /\ Do(q, [op |-> "enroll", c |-> c])
    /\ UNCHANGED <<setting, tables, cloud, reserved, split, lost, faults>>

RegisterClusterJob(q) ==
    /\ task[q].op = "enroll"
    /\ rows' = IF Exists(task[q].c) THEN rows
               ELSE [rows EXCEPT ![task[q].c] = Row("accepted", 0)]
    /\ Done(q)
    /\ UNCHANGED <<setting, kafkas, outside, split, lost, counters>>

\* DeregisterEnterpriseCluster: there, and without Kafkas.
DeregisterEnterpriseCluster(q, c) ==
    /\ c \in Enterprise /\ Free(q) /\ Exists(c) /\ Used(c) = 0
    /\ Called /\ Starts
    /\ Do(q, [op |-> "deregister", c |-> c])
    /\ UNCHANGED <<setting, tables, outside, split, lost, faults>>

DeregisterClusterJob(q) ==
    /\ task[q].op = "deregister"
    /\ SetStatus(task[q].c, "deprovisioning")
    /\ Done(q)
    /\ UNCHANGED <<setting, kafkas, outside, split, lost, counters>>

-----------------------------------------------------------------------------
(* The cloud provider, failures, the specification.                        *)

Installed(c) ==
    /\ cloud[c] = "installing" /\ ~Held(c)
    /\ cloud' = [cloud EXCEPT ![c] = "up"]
    /\ UNCHANGED <<setting, tables, accounts, reserved, task, split, lost, counters>>

InstallFails(c) ==
    /\ cloud[c] = "installing" /\ ~Held(c)
    /\ Fault
    /\ cloud' = [cloud EXCEPT ![c] = "error"]
    /\ UNCHANGED <<setting, tables, accounts, reserved, task, split, lost, calls, races>>

Deleted(c) ==
    /\ cloud[c] = "deleting"
    /\ cloud' = [cloud EXCEPT ![c] = "none"]
    /\ UNCHANGED <<setting, tables, accounts, reserved, task, split, lost, counters>>

\* The next statement of a handler fails, or its process stops.  A quota that
\* was reserved, a cluster that was created at the provider, an account that
\* was created for a registration: each has no row that says so.
LeftBehind(a) ==
    CASE task[a].op = "insert" -> {"quota"}
      [] task[a].op = "enroll" -> {"account"}
      [] task[a].op = "advance" /\ task[a].c \in Managed
            /\ task[a].st = "provisioning" -> {"cluster"}
      [] OTHER -> {}

Fail(a) ==
    /\ task[a] # Idle
    /\ Fault
    /\ lost' = lost \cup LeftBehind(a)
    /\ cloud' = IF LeftBehind(a) = {"cluster"}
                THEN [cloud EXCEPT ![task[a].c] = "none"] ELSE cloud
    /\ Done(a)
    /\ UNCHANGED <<setting, tables, accounts, reserved, split, calls, races>>

Users ==
    \/ \E q \in Requests : \E c \in Clusters :
          RegisterEnterpriseCluster(q, c) \/ DeregisterEnterpriseCluster(q, c)
    \/ \E q \in Requests, r \in Replicas, size \in Sizes, ent \in BOOLEAN :
          RegisterKafkaJob(q, r, size, ent)
    \/ \E k \in Kafkas : KafkaDeprovision(k)
    \/ \E c \in Managed : Reconfigure(c)

Serving(q) ==
    \/ Place(q) \/ ReserveQuota(q) \/ CreateKafka(q)
    \/ SetClusterStatus(q) \/ SetClusterWaiting(q)
    \/ RegisterClusterJob(q) \/ DeregisterClusterJob(q)

Reconcilers ==
    \/ \E c \in Clusters :
          \/ ProcessCluster(c) \/ ReconcileReadyCluster(c)
          \/ ProcessDeprovisioning(c) \/ RemoveServiceAccount(c)
    \/ SaveCluster \/ ReconcileManualConfig \/ DeprovisionExcess
    \/ EvaluateScaleUp \/ ScaleUp \/ EvaluateScaleDown \/ ScaleDown
    \/ RestoreCluster \/ DeleteCluster \/ MarkForCleanup \/ DeleteRow
    \/ AssignKafka
    \/ \E k \in Kafkas : FindClusterForKafka(k) \/ KafkaRemoved(k)
                          \/ KafkaDeleting(k)

Progress ==
    \/ Reconcilers
    \/ \E q \in Requests : Serving(q)
    \/ \E q \in Requests, c \in Clusters : ReportStatus(q, c, "first")
    \/ \E c \in Managed : Installed(c) \/ Deleted(c)

Next ==
    \/ Users \/ Progress
    \/ \E q \in Requests, c \in Clusters :
          ReportStatus(q, c, "again") \/ ReportStatus(q, c, "trouble")
    \/ \E k \in Kafkas : KafkaTimesOut(k)
    \/ \E c \in Managed : InstallFails(c)
    \/ \E a \in Actors : Fail(a)

Spec == Init /\ [][Next]_vars

\* Handlers go on, reconcilers run again and again, agents report, and the
\* cloud provider answers.  With dynamic scaling no behaviour returns to a
\* state it left, so fairness of the whole is fairness of every part.
FairSpec == Spec /\ WF_vars(Progress)

-----------------------------------------------------------------------------
\* What a request, and what each worker, may be in the middle of.
Registrations == [op : {"place", "reserve", "insert"}, r : Replicas, size : Sizes,
                  ent : BOOLEAN, host : {Nowhere} \cup Clusters]
Reports == [op : {"ready", "waiting"}, c : Clusters]
Enrollments == [op : {"enroll", "deregister"}, c : Enterprise]
Advances == [op : {"advance"}, c : Clusters,
             st : {"provisioning", "provisioned", "failed", "waiting", "ready"}]
Surpluses == [op : {"deprovision"}, ids : SUBSET Managed]
ScaleUps == [op : {"scaleup"}, c : Managed]
ScaleDowns == [op : {"scaledown"}, c : Managed,
               list : [Managed -> [st : Statuses, units : {0, Units}, used : Nat]]]
Removals == [op : {"restore", "remove"}, c : Managed] \cup [op : {"removed"}, c : Clusters]
Cleanups == [op : {"delete"}, c : Clusters]
Assignments == [op : {"assign"}, k : Kafkas, c : Managed]

TasksOf(a) ==
    {Idle} \cup CASE a \in Requests -> Registrations \cup Reports \cup Enrollments
                  [] a = "clusters" -> Advances \cup Surpluses
                  [] a = "up" -> ScaleUps
                  [] a = "down" -> ScaleDowns
                  [] a = "deprovisioning" -> Removals
                  [] a = "cleanup" -> Cleanups
                  [] a = "accepted" -> Assignments

KafkaStatuses == {"none", "accepted", "preparing", "failed", "deprovision", "deleting"}

TypeOK ==
    /\ scaling \in Scalings
    /\ configured \subseteq Managed
    /\ rows \in [Clusters -> [st : Statuses, units : {0, Units}]]
    /\ cloud \in [Clusters -> {"none", "installing", "up", "error", "deleting"}]
    /\ accounts \subseteq Clusters
    /\ kafkas \in [Kafkas -> [st : KafkaStatuses, host : {Nowhere} \cup Clusters,
                              size : {0} \cup Sizes, ent : BOOLEAN]]
    /\ reserved \in Nat
    /\ task = [a \in Actors |-> task[a]]
    /\ \A a \in Actors : task[a] \in TasksOf(a)
    /\ split \in BOOLEAN
    /\ lost \subseteq {"quota", "account", "cluster"}
    /\ {calls, faults, races} \subseteq Nat /\ races + faults <= MaxUpsets

Calm == races = 0 /\ faults = 0

\* The limits of RegisterKafkaJob and of the placement strategies are checked
\* and then used, under a mutex of the process: as long as registrations of
\* two replicas never overlap they hold exactly, whatever else overlaps; if
\* they do, every other replica can add one Kafka more.
CapacityKept ==
    LET extra == IF split THEN (Cardinality(Replicas) - 1) * Max(Sizes) ELSE 0
    IN  /\ InRegion <= RegionLimit + extra
        /\ \A c \in Clusters :
              scaling = "auto" \/ c \in configured \cup Enterprise
                  => Used(c) <= Units + extra

\* RegisterKafkaJob reserves quota before it inserts the row, and gives
\* nothing back: subscriptions and Kafkas agree at the end of every request,
\* unless the insert itself failed.
QuotaHeld ==
    "quota" \in lost \/
    reserved = Cardinality({k \in Kafkas : kafkas[k].st # "none"})
               + Cardinality({q \in Requests : task[q].op = "insert"})

\* A managed cluster that holds a Kafka is not removed: a Kafka placed while
\* scale down was deciding is found by the deprovisioning manager, which
\* brings the cluster back.  One overlap cannot defeat that.  An enterprise
\* cluster is not looked at again, so it takes no overlap at all.
HostKept ==
    \A c \in Clusters :
        HostedBy(c) # {} /\ races <= (IF c \in Managed THEN 1 ELSE 0)
            => cloud[c] = "up" /\ rows[c].st \notin {"none", "cleanup"}

\* When a cluster's row is gone, so are its agent's service account and, if
\* scale up created it, the cluster itself, also after failures between the
\* steps of the removal.
CleanRemoval ==
    \A c \in Clusters :
        races = 0 /\ "account" \notin lost /\ ~Exists(c) /\ ~Held(c)
            => /\ c \notin accounts
               /\ scaling = "auto" /\ c \in Managed => cloud[c] = "none"

\* Removing a cluster never makes the next scale up evaluation ask for one:
\* ShouldScaleDown foresees it, for several clusters of one pass too.
NoFlapping ==
    [][task["down"] # Idle /\ rows' # rows /\ races = 0
          => ~ShouldScaleUp(Counts', Managed)]_vars

\* A deregistration that was accepted is not undone by what the cluster
\* manager or the agent had under way, unless they overlapped.
DeregistrationKept ==
    [][\A c \in Enterprise : rows[c].st = "deprovisioning" /\ races = 0
          => rows'[c].st \in Leaving]_vars

\* With dynamic scaling the Kafkas that were accepted without a cluster all get
\* one, once users leave it at that: for what the region limit admitted, scale
\* up makes room.
KafkaPlaced ==
    scaling = "auto" /\ (\E k \in Kafkas : Unplaced(k))
        ~> (\A k \in Kafkas : ~Unplaced(k)) \/ ~Calm

\* Clusters that are being deprovisioned go away, or come back to ready.
DeprovisioningEnds ==
    scaling = "auto" /\ (\E c \in Clusters : rows[c].st \in Leaving)
        ~> (\A c \in Clusters : rows[c].st \notin Leaving) \/ ~Calm
=============================================================================
