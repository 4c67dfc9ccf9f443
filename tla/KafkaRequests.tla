--------------------------- MODULE KafkaRequests ---------------------------
(***************************************************************************)
(* The life of one Kafka request: its row in kafka_requests, the external  *)
(* resources that belong to it, and everybody who works on it: the user    *)
(* and admin APIs, the reconciler workers of kafka_mgrs, and the agents    *)
(* (fleetshard sync) of the data plane clusters.                           *)
(*                                                                         *)
(* None of them holds a lock.  Each handler reads the row (snap), decides  *)
(* from what it read, calls external services and writes back; handlers    *)
(* overlap freely, at most MaxInflight of them at a time.  A worker type   *)
(* has one instance (LeaderElection is about that), an agent sends one     *)
(* report at a time, and batch operations treat their rows one by one, so  *)
(* one row shows every interleaving that concerns it.                      *)
(*                                                                         *)
(* Configuration: authentication on Kafkas is enabled, certificates are    *)
(* managed manually; CNAMERegistration is EnableKafkaCNAMERegistration.    *)
(* When a Kafka is in its grace period, has expired, or its owner is       *)
(* denied, and whether a placement or a version is found, is chosen freely.*)
(***************************************************************************)
EXTENDS Integers, FiniteSets

CONSTANTS
    Clusters,           \* data plane clusters
    None,               \* no cluster, no routes, no records
    CNAMERegistration,  \* EnableKafkaCNAMERegistration
    MaxInflight,        \* handlers between their first and last step
    MaxCalls,           \* calls of the delete and the admin update endpoint
    MaxFaults           \* errors and crashes in the middle of a handler

Workers == {"accepted", "preparing", "provisioning", "ready", "deleting",
            "cname", "kafkas"}
Endpoints == {"create", "delete", "admin"}
Handlers == Workers \cup Endpoints \cup Clusters

ASSUME ClustersAssumption ==
    /\ None \notin Clusters
    /\ IsFiniteSet(Clusters)
    /\ Clusters \cap (Workers \cup Endpoints) = {}
ASSUME ConfigAssumption == CNAMERegistration \in BOOLEAN
ASSUME BoundAssumption ==
    MaxInflight \in Nat /\ MaxCalls \in Nat /\ MaxFaults \in Nat

VARIABLES
    row,     \* the kafka_requests row
    cr,      \* the ManagedKafka each agent fetched last
    sub,     \* the quota subscription exists
    sa,      \* the canary service account exists
    dns,     \* target cluster of the CNAME records that exist
    pc,      \* where each handler is
    snap,    \* the row as each handler holds it in memory
    calls, faults,
    panics   \* a worker dereferenced nil

external == <<sub, sa, dns>>
vars == <<row, cr, sub, sa, dns, pc, snap, calls, faults, panics>>

kafkaDeletionStatuses == {"deprovision", "deleting"}
SuspendedStatuses == {"suspending", "suspended"}
kafkaManagedCRStatuses ==
    {"provisioning", "deprovision", "ready", "failed", "suspended",
     "suspending", "resuming"}
UpdateableStatuses ==
    {"preparing", "provisioning", "failed", "ready", "deprovision",
     "suspending", "suspended", "resuming"}
CanBeAutomaticallySuspended ==
    {"accepted", "preparing", "ready", "provisioning", "resuming"}
LiveStatuses ==
    {"accepted"} \cup UpdateableStatuses \cup kafkaDeletionStatuses
\* "absent" before the row is created, "deleted" after its soft deletion.
Statuses == LiveStatuses \cup {"absent", "deleted"}

KafkaRequest ==
    [status : Statuses,
     cluster : Clusters \cup {None},   \* ClusterID
     host : BOOLEAN,                   \* BootstrapServerHost # ""
     canary : BOOLEAN,                 \* CanaryServiceAccountClientID # ""
     routes : Clusters \cup {None},    \* Routes, by the cluster they lead to
     rcid : BOOLEAN,                   \* RoutesCreationId # ""
     rcreated : BOOLEAN]               \* RoutesCreated

NoRequest ==
    [status |-> "absent", cluster |-> None, host |-> FALSE, canary |-> FALSE,
     routes |-> None, rcid |-> FALSE, rcreated |-> FALSE]

PCs == {"idle", "act", "write", "create", "deny", "suspend", "suspending",
        "expire", "expired", "quota", "sso", "dns", "remove", "deprovision",
        "edit", "resume", "ready", "installing", "error", "deleted",
        "deleting", "rejected", "full", "suspended", "suspendedWrite"}

TypeOK ==
    /\ row \in KafkaRequest
    /\ cr \in [Clusters -> {"none", "live", "suspended", "deleted"}]
    /\ sub \in BOOLEAN /\ sa \in BOOLEAN /\ dns \in Clusters \cup {None}
    /\ pc \in [Handlers -> PCs]
    /\ snap \in [Handlers -> KafkaRequest]
    /\ calls \in 0 .. MaxCalls /\ faults \in 0 .. MaxFaults
    /\ panics \in BOOLEAN

-----------------------------------------------------------------------------
Exists == row.status \notin {"absent", "deleted"}

Inflight == {h \in Handlers : pc[h] # "idle"}

WithStatus(r, s) ==
    [status |-> s, cluster |-> r.cluster, host |-> r.host, canary |-> r.canary,
     routes |-> r.routes, rcid |-> r.rcid, rcreated |-> r.rcreated]

Placed(r, c, h) ==
    [status |-> r.status, cluster |-> c, host |-> h, canary |-> r.canary,
     routes |-> r.routes, rcid |-> r.rcid, rcreated |-> r.rcreated]

WithCanary(r) ==
    [status |-> r.status, cluster |-> r.cluster, host |-> r.host, canary |-> TRUE,
     routes |-> r.routes, rcid |-> r.rcid, rcreated |-> r.rcreated]

WithRoutes(r, c) ==
    [status |-> r.status, cluster |-> r.cluster, host |-> r.host,
     canary |-> r.canary, routes |-> c, rcid |-> r.rcid, rcreated |-> r.rcreated]

WithRecords(r, id, created) ==
    [status |-> r.status, cluster |-> r.cluster, host |-> r.host,
     canary |-> r.canary, routes |-> r.routes, rcid |-> id, rcreated |-> created]

\* gorm's Updates(struct) writes the fields of s that are not zero.
NonZeroFields(old, s) ==
    [status |-> s.status,
     cluster |-> IF s.cluster = None THEN old.cluster ELSE s.cluster,
     host |-> old.host \/ s.host,
     canary |-> old.canary \/ s.canary,
     routes |-> IF s.routes = None THEN old.routes ELSE s.routes,
     rcid |-> old.rcid \/ s.rcid,
     rcreated |-> old.rcreated \/ s.rcreated]

\* KafkaService.Update and Updates: no effect on a Kafka under deletion.
UnderDeletion == ~Exists \/ row.status \in kafkaDeletionStatuses
Update(s) == row' = IF UnderDeletion THEN row ELSE NonZeroFields(row, s)
Updates(r) == row' = IF UnderDeletion THEN row ELSE r

\* An UPDATE of the status column alone, on whatever the row is now.
WriteStatus(s) == row' = IF Exists THEN WithStatus(row, s) ELSE row

\* Mutant: suspended Kafkas are left alone like deprovisioned ones.
MayUpdateStatus_NotSuspended(s) ==
    /\ Exists
    /\ row.status \in SuspendedStatuses \cup {"deprovision"} => s = "deleting"
    /\ row.status # s

\* The check at the top of KafkaService.UpdateStatus.
MayUpdateStatus(s) ==
    /\ Exists
    /\ row.status = "deprovision" => s = "deleting"
    /\ row.status # s

Goto(h, p) == pc' = [pc EXCEPT ![h] = p]
Hold(h, r) == snap' = [snap EXCEPT ![h] = r]
\* A handler is over; what it had in memory is gone.
Finish(h) == Goto(h, "idle") /\ Hold(h, NoRequest)

\* A handler reads the row.
Begin(h, p) ==
    /\ pc[h] = "idle" /\ Cardinality(Inflight) < MaxInflight
    /\ Goto(h, p) /\ Hold(h, row)

Call == calls < MaxCalls /\ calls' = calls + 1
Fault == faults < MaxFaults /\ faults' = faults + 1

-----------------------------------------------------------------------------
Init ==
    /\ row = NoRequest
    /\ cr = [c \in Clusters |-> "none"]
    /\ sub = FALSE /\ sa = FALSE /\ dns = None
    /\ pc = [h \in Handlers |-> "idle"]
    /\ snap = [h \in Handlers |-> NoRequest]
    /\ calls = 0 /\ faults = 0 /\ panics = FALSE

\* RegisterKafkaJob: the quota is reserved, then the row is created.  Without
\* dynamic scaling, and for enterprise Kafkas, a cluster is assigned already.
\* A call after a failed one makes another request, with another id.
ReserveQuota ==
    /\ row.status = "absent" /\ ~sub
    /\ Begin("create", "create")
    /\ sub' = TRUE
    /\ UNCHANGED <<row, cr, sa, dns, calls, faults, panics>>

CreateRow ==
    /\ pc["create"] = "create"
    /\ \E c \in Clusters \cup {None} :
          row' = Placed(WithStatus(NoRequest, "accepted"), c, FALSE)
    /\ Finish("create")
    /\ UNCHANGED <<cr, external, calls, faults, panics>>

\* An error return, or the death of the process, between two steps.
Abort(h) ==
    /\ pc[h] # "idle" /\ Fault
    /\ Finish(h)
    /\ UNCHANGED <<row, cr, external, calls, panics>>

-----------------------------------------------------------------------------
\* AcceptedKafkaManager: place the Kafka and pick its versions.
AcceptedList ==
    /\ row.status = "accepted" /\ Begin("accepted", "act")
    /\ UNCHANGED <<row, cr, external, calls, faults, panics>>

Placements(r) == IF r.cluster = None THEN Clusters ELSE {r.cluster}

AcceptedAssign ==
    /\ pc["accepted"] = "act"
    /\ \E c \in Placements(snap["accepted"]) :
          Update(WithStatus(Placed(snap["accepted"], c, snap["accepted"].host),
                            "preparing"))
    /\ Finish("accepted")
    /\ UNCHANGED <<cr, external, calls, faults, panics>>

\* No cluster, or no ready Strimzi version on the cluster, for too long.
AcceptedFails ==
    /\ pc["accepted"] = "act"
    /\ \E c \in Placements(snap["accepted"]) \cup {snap["accepted"].cluster} :
          Update(WithStatus(Placed(snap["accepted"], c, snap["accepted"].host),
                            "failed"))
    /\ Finish("accepted")
    /\ UNCHANGED <<cr, external, calls, faults, panics>>

\* Nothing found yet (accepted, provisioning): try again on the next pass.
Retry(w) ==
    /\ w \in {"accepted", "provisioning"} /\ pc[w] = "act"
    /\ Finish(w)
    /\ UNCHANGED <<row, cr, external, calls, faults, panics>>

\* PreparingKafkaManager and PrepareKafkaRequest: the host is assigned in
\* memory, the canary service account is created, then the row is written
\* with a struct that holds these fields only.
PreparingList ==
    /\ row.status = "preparing" /\ Begin("preparing", "act")
    /\ UNCHANGED <<row, cr, external, calls, faults, panics>>

\* Without CNAME registration the host is derived from the DNS name of the
\* cluster, which an unplaced Kafka does not have.
HostAssignable(r) == CNAMERegistration \/ r.cluster # None

PrepareCanary ==
    /\ pc["preparing"] = "act" /\ HostAssignable(snap["preparing"])
    /\ sa' = TRUE
    /\ Hold("preparing", WithCanary(Placed(snap["preparing"],
                                           snap["preparing"].cluster, TRUE)))
    /\ Goto("preparing", "write")
    /\ UNCHANGED <<row, cr, sub, dns, calls, faults, panics>>

PrepareWrite ==
    /\ pc["preparing"] = "write"
    /\ Update(WithCanary(WithStatus(Placed(NoRequest, None, TRUE), "provisioning")))
    /\ Finish("preparing")
    /\ UNCHANGED <<cr, external, calls, faults, panics>>

\* Errors of PrepareKafkaRequest past KafkaMaxDurationWithProvisioningErrs.
\* The whole in-memory request is written, with the host if that was assigned.
PrepareFails ==
    /\ pc["preparing"] \in {"act", "write"} /\ Fault
    /\ \E h \in IF HostAssignable(snap["preparing"]) THEN BOOLEAN ELSE {FALSE} :
          Update(WithStatus(Placed(snap["preparing"], snap["preparing"].cluster,
                                   h \/ snap["preparing"].host), "failed"))
    /\ Finish("preparing")
    /\ UNCHANGED <<cr, external, calls, panics>>

\* ProvisioningKafkaManager: place a Kafka that a full cluster gave back.
ProvisioningList ==
    /\ row.status = "provisioning" /\ row.cluster = None
    /\ Begin("provisioning", "act")
    /\ UNCHANGED <<row, cr, external, calls, faults, panics>>

ProvisioningReassign ==
    /\ pc["provisioning"] = "act"
    /\ \E c \in Clusters : Update(Placed(snap["provisioning"], c, TRUE))
    /\ Finish("provisioning")
    /\ UNCHANGED <<cr, external, calls, faults, panics>>

\* ReadyKafkaManager: give a canary service account to a ready Kafka that has
\* none.
ReadyList ==
    /\ row.status = "ready" /\ ~row.canary /\ Begin("ready", "act")
    /\ UNCHANGED <<row, cr, external, calls, faults, panics>>

ReadyCanary ==
    /\ pc["ready"] = "act"
    /\ sa' = TRUE
    /\ Hold("ready", WithCanary(snap["ready"])) /\ Goto("ready", "write")
    /\ UNCHANGED <<row, cr, sub, dns, calls, faults, panics>>

\* KafkaRoutesCNAMEManager: whatever the status, the records of a Kafka with
\* routes are created once and then polled until Route53 has them in sync.
CnameList ==
    /\ Exists /\ row.routes # None /\ ~row.rcreated /\ Begin("cname", "act")
    /\ UNCHANGED <<row, cr, external, calls, faults, panics>>

CnameCreate ==
    /\ pc["cname"] = "act" /\ CNAMERegistration /\ ~snap["cname"].rcid
    /\ dns = None
    /\ dns' = snap["cname"].routes
    /\ \E insync \in BOOLEAN : Hold("cname", WithRecords(snap["cname"], TRUE, insync))
    /\ Goto("cname", "write")
    /\ UNCHANGED <<row, cr, sub, sa, calls, faults, panics>>

\* ChangeResourceRecordSets answers nil without an error when the records
\* exist already, and the manager dereferences the answer.
CnamePanic ==
    /\ pc["cname"] = "act" /\ CNAMERegistration /\ ~snap["cname"].rcid
    /\ dns # None
    /\ panics' = TRUE
    /\ Finish("cname")
    /\ UNCHANGED <<row, cr, external, calls, faults>>

\* The status of the change, or no registration at all.
CnamePoll ==
    /\ pc["cname"] = "act" /\ (CNAMERegistration => snap["cname"].rcid)
    /\ \E insync \in IF CNAMERegistration THEN BOOLEAN ELSE {TRUE} :
          Hold("cname", WithRecords(snap["cname"], snap["cname"].rcid, insync))
    /\ Goto("cname", "write")
    /\ UNCHANGED <<row, cr, external, calls, faults, panics>>

\* Mutant: the ready manager does not save the account it made.
SaveRequest_CnameOnly(w) ==
    /\ w \in {"ready", "cname"} /\ pc[w] = "write"
    /\ IF w = "cname" THEN Update(snap[w]) ELSE UNCHANGED row
    /\ Finish(w)
    /\ UNCHANGED <<cr, external, calls, faults, panics>>

\* Both managers write the whole request they read, with its old status.
SaveRequest(w) ==
    /\ w \in {"ready", "cname"} /\ pc[w] = "write"
    /\ Update(snap[w])
    /\ Finish(w)
    /\ UNCHANGED <<cr, external, calls, faults, panics>>

-----------------------------------------------------------------------------
\* KafkaManager, one pass: list all Kafkas, deprovision those of denied
\* owners, suspend those in their grace period, deprovision the expired ones.
KafkasList ==
    /\ Exists /\ Begin("kafkas", "deny")
    /\ UNCHANGED <<row, cr, external, calls, faults, panics>>

\* DeprovisionKafkaForUsers is one guarded UPDATE.
DenyOwners ==
    /\ pc["kafkas"] = "deny"
    /\ \E denied \in BOOLEAN :
          Updates(IF denied THEN WithStatus(row, "deprovision") ELSE row)
    /\ Goto("kafkas", "suspend")
    /\ UNCHANGED <<cr, external, snap, calls, faults, panics>>

\* The status in the list decides whether the Kafka can be suspended; then
\* UpdateStatus looks at the row again.
SuspendCheck ==
    /\ pc["kafkas"] = "suspend"
    /\ \E grace \in BOOLEAN :
          Goto("kafkas",
               IF /\ grace
                  /\ snap["kafkas"].status \in CanBeAutomaticallySuspended
                  /\ MayUpdateStatus("suspending")
               THEN "suspending" ELSE "expire")
    /\ UNCHANGED <<row, cr, external, snap, calls, faults, panics>>

SuspendWrite ==
    /\ pc["kafkas"] = "suspending"
    /\ WriteStatus("suspending")
    /\ Goto("kafkas", "expire")
    /\ UNCHANGED <<cr, external, snap, calls, faults, panics>>

\* DeprovisionExpiredKafkas: the expired Kafkas that are not under deletion
\* are listed, then deprovisioned by id.
ExpireList ==
    /\ pc["kafkas"] = "expire"
    /\ \/ Finish("kafkas")
       \/ ~UnderDeletion /\ Goto("kafkas", "expired") /\ UNCHANGED snap
    /\ UNCHANGED <<row, cr, external, calls, faults, panics>>

ExpireWrite ==
    /\ pc["kafkas"] = "expired"
    /\ WriteStatus("deprovision")
    /\ Finish("kafkas")
    /\ UNCHANGED <<cr, external, calls, faults, panics>>

-----------------------------------------------------------------------------
\* Mutant: deprovisioned Kafkas without a host are not listed.
DeletingList_OnlyDeleting ==
    /\ row.status = "deleting"
    /\ Begin("deleting", "quota")
    /\ UNCHANGED <<row, cr, external, calls, faults, panics>>

\* DeletingKafkaManager: Kafkas that left their cluster, and deprovisioned
\* ones without a host, which were never on one.
DeletingList ==
    /\ \/ row.status = "deleting"
       \/ row.status = "deprovision" /\ ~row.host
    /\ Begin("deleting", "quota")
    /\ UNCHANGED <<row, cr, external, calls, faults, panics>>

\* Mutant: the quota of a Kafka without a cluster is not given back.
DeleteQuota_IfPlaced ==
    /\ pc["deleting"] = "quota"
    /\ sub' = (sub /\ snap["deleting"].cluster = None)
    /\ Goto("deleting", IF snap["deleting"].cluster = None THEN "remove" ELSE "sso")
    /\ UNCHANGED <<row, cr, sa, dns, snap, calls, faults, panics>>

DeleteQuota ==
    /\ pc["deleting"] = "quota"
    /\ sub' = FALSE
    /\ Goto("deleting", IF snap["deleting"].cluster = None THEN "remove" ELSE "sso")
    /\ UNCHANGED <<row, cr, sa, dns, snap, calls, faults, panics>>

DeleteCanary ==
    /\ pc["deleting"] = "sso"
    /\ sa' = (sa /\ ~snap["deleting"].canary)
    /\ Goto("deleting", "dns")
    /\ UNCHANGED <<row, cr, sub, dns, snap, calls, faults, panics>>

\* Mutant: only records that are known to be in sync are deleted.
DeleteCnames_IfCreated ==
    /\ pc["deleting"] = "dns"
    /\ dns' = IF snap["deleting"].rcreated THEN None ELSE dns
    /\ Goto("deleting", "remove")
    /\ UNCHANGED <<row, cr, sub, sa, snap, calls, faults, panics>>

\* Route53 deletes records that match, and missing ones are tolerated; it
\* refuses to delete records whose value is another one.
DeleteCnames ==
    /\ pc["deleting"] = "dns"
    /\ IF snap["deleting"].routes = None \/ ~CNAMERegistration
       THEN dns' = dns /\ Goto("deleting", "remove") /\ UNCHANGED snap
       ELSE IF dns \in {None, snap["deleting"].routes}
       THEN dns' = None /\ Goto("deleting", "remove") /\ UNCHANGED snap
       ELSE dns' = dns /\ Finish("deleting")
    /\ UNCHANGED <<row, cr, sub, sa, calls, faults, panics>>

RemoveRow ==
    /\ pc["deleting"] = "remove"
    /\ WriteStatus("deleted")
    /\ Finish("deleting")
    /\ UNCHANGED <<cr, external, calls, faults, panics>>

-----------------------------------------------------------------------------
\* RegisterKafkaDeprovisionJob, from the delete endpoints: UpdateStatus.
DeleteCheck ==
    /\ Call /\ MayUpdateStatus("deprovision")
    /\ Begin("delete", "deprovision")
    /\ UNCHANGED <<row, cr, external, faults, panics>>

DeleteWrite ==
    /\ pc["delete"] = "deprovision"
    /\ WriteStatus("deprovision")
    /\ Finish("delete")
    /\ UNCHANGED <<cr, external, calls, faults, panics>>

\* Mutant: validateUpdateKafkaCanBeResumed is not called.
AdminRead_ResumeAny(op) ==
    /\ Call /\ row.status \in UpdateableStatuses
    /\ op = "suspend" => row.status = "ready"
    /\ Begin("admin", op)
    /\ UNCHANGED <<row, cr, external, faults, panics>>

\* The admin update endpoint: validated against the request it read; the
\* status it read, or the one that suspends or resumes, is written back with
\* the other columns (VerifyAndUpdateKafkaAdmin).
AdminRead(op) ==
    /\ Call /\ row.status \in UpdateableStatuses
    /\ op = "suspend" => row.status = "ready"
    /\ op = "resume" => row.status = "suspended"
    /\ Begin("admin", op)
    /\ UNCHANGED <<row, cr, external, faults, panics>>

AdminWrite ==
    /\ pc["admin"] # "idle"
    /\ WriteStatus(CASE pc["admin"] = "suspend" -> "suspending"
                      [] pc["admin"] = "resume" -> "resuming"
                      [] OTHER -> snap["admin"].status)
    /\ Finish("admin")
    /\ UNCHANGED <<cr, external, calls, faults, panics>>

-----------------------------------------------------------------------------
\* GetManagedKafkaByClusterID: the agent of cluster c polls its Kafkas.
ManagedKafka(c) ==
    IF row.cluster # c \/ ~row.host \/ row.status \notin kafkaManagedCRStatuses
    THEN "none"
    ELSE CASE row.status = "deprovision" -> "deleted"
           [] row.status \in SuspendedStatuses -> "suspended"
           [] OTHER -> "live"

FetchKafka(c) ==
    /\ cr[c] # ManagedKafka(c)
    /\ cr' = [cr EXCEPT ![c] = ManagedKafka(c)]
    /\ UNCHANGED <<row, external, pc, snap, calls, faults, panics>>

\* What an agent reports of a Kafka it knows: "suspended" and "deleted" only
\* when told to suspend or delete it, anything else at any time.
Reports(c) ==
    IF cr[c] = "none" THEN {}
    ELSE {"ready", "installing", "error", "rejected", "full"}
         \cup ({"suspended", "deleted"} \cap {cr[c]})

\* processRealKafkaDeployment reads the request and looks at its status; a
\* report that asks for nothing is dropped.
Relevant(rep) ==
    CASE rep = "ready" -> row.status \notin SuspendedStatuses
      [] rep = "installing" -> row.routes = None
      [] rep = "error" -> row.status \notin SuspendedStatuses \cup {"failed"}
      [] rep \in {"rejected", "full"} -> row.status = "provisioning"
      [] rep = "suspended" -> row.status = "suspending"
      [] OTHER -> TRUE

ReceiveReport(c, rep) ==
    /\ rep \in Reports(c)
    /\ Exists /\ row.cluster = c /\ Relevant(rep)
    /\ Begin(c, rep)
    /\ UNCHANGED <<row, cr, external, calls, faults, panics>>

\* Mutant: stored routes are overwritten.
PersistRoutes_Always(c) ==
    /\ pc[c] \in {"ready", "installing"} /\ snap[c].routes # c
    /\ Update(WithRoutes(snap[c], c))
    /\ IF pc[c] = "ready"
       THEN Hold(c, WithRoutes(snap[c], c)) /\ UNCHANGED pc
       ELSE Finish(c)
    /\ UNCHANGED <<cr, external, calls, faults, panics>>

\* persistKafkaRoutes, for "ready" and "installing".
PersistRoutes(c) ==
    /\ pc[c] \in {"ready", "installing"} /\ snap[c].routes = None
    /\ Update(WithRoutes(snap[c], c))
    /\ IF pc[c] = "ready"
       THEN Hold(c, WithRoutes(snap[c], c)) /\ UNCHANGED pc
       ELSE Finish(c)
    /\ UNCHANGED <<cr, external, calls, faults, panics>>

\* Mutant: RoutesCreated is not looked at.
SetReady_Unchecked(c) ==
    /\ pc[c] = "ready" /\ snap[c].routes # None
    /\ Updates(WithStatus(row, "ready"))
    /\ Finish(c)
    /\ UNCHANGED <<cr, external, calls, faults, panics>>

\* setKafkaClusterReady: nothing as long as the routes are not created.
SetReady(c) ==
    /\ pc[c] = "ready" /\ snap[c].routes # None
    /\ Updates(IF snap[c].rcreated THEN WithStatus(row, "ready") ELSE row)
    /\ Finish(c)
    /\ UNCHANGED <<cr, external, calls, faults, panics>>

\* setKafkaClusterFailed and reassignKafkaCluster write the whole request.
SetFailed(c) ==
    /\ pc[c] = "error"
    /\ Update(WithStatus(snap[c], "failed"))
    /\ Finish(c)
    /\ UNCHANGED <<cr, external, calls, faults, panics>>

ReassignCluster(c) ==
    /\ pc[c] = "rejected"
    /\ Update(snap[c])
    /\ Finish(c)
    /\ UNCHANGED <<cr, external, calls, faults, panics>>

\* Mutants: the host is kept; the routes are cleared as well.
Unassign_KeepHost(c) ==
    /\ pc[c] = "full"
    /\ Updates(Placed(row, None, row.host))
    /\ Finish(c)
    /\ UNCHANGED <<cr, external, calls, faults, panics>>
Unassign_ClearRoutes(c) ==
    /\ pc[c] = "full"
    /\ Updates(WithRoutes(Placed(row, None, FALSE), None))
    /\ Finish(c)
    /\ UNCHANGED <<cr, external, calls, faults, panics>>

\* unassignKafkaFromDataplaneCluster
Unassign(c) ==
    /\ pc[c] = "full"
    /\ Updates(Placed(row, None, FALSE))
    /\ Finish(c)
    /\ UNCHANGED <<cr, external, calls, faults, panics>>

\* UpdateStatus for "deleted" and "suspended": check, then write.
Target(p) == IF p \in {"deleted", "deleting"} THEN "deleting" ELSE "suspended"

ReportCheck(c) ==
    /\ pc[c] \in {"deleted", "suspended"}
    /\ IF MayUpdateStatus(Target(pc[c]))
       THEN /\ Goto(c, IF pc[c] = "deleted" THEN "deleting" ELSE "suspendedWrite")
            /\ UNCHANGED snap
       ELSE Finish(c)
    /\ UNCHANGED <<row, cr, external, calls, faults, panics>>

ReportWrite(c) ==
    /\ pc[c] \in {"deleting", "suspendedWrite"}
    /\ WriteStatus(Target(pc[c]))
    /\ Finish(c)
    /\ UNCHANGED <<cr, external, calls, faults, panics>>

-----------------------------------------------------------------------------
WorkerBegins ==
    \/ AcceptedList \/ PreparingList \/ ProvisioningList \/ ReadyList
    \/ CnameList \/ KafkasList \/ DeletingList

WorkerStep ==
    \/ AcceptedAssign \/ AcceptedFails \/ PrepareCanary \/ PrepareWrite
    \/ ProvisioningReassign \/ ReadyCanary
    \/ CnameCreate \/ CnamePanic \/ CnamePoll
    \/ DenyOwners \/ SuspendCheck \/ SuspendWrite \/ ExpireList \/ ExpireWrite
    \/ DeleteQuota \/ DeleteCanary \/ DeleteCnames \/ RemoveRow
    \/ \E w \in Workers : Retry(w) \/ SaveRequest(w)

EndpointCalled ==
    \/ ReserveQuota \/ DeleteCheck
    \/ \E op \in {"edit", "suspend", "resume"} : AdminRead(op)

EndpointStep == CreateRow \/ DeleteWrite \/ AdminWrite

AgentStep(c) ==
    \/ PersistRoutes(c) \/ SetReady(c) \/ SetFailed(c) \/ ReassignCluster(c)
    \/ Unassign(c) \/ ReportCheck(c) \/ ReportWrite(c)

AgentBegins(c) ==
    \/ FetchKafka(c)
    \/ \E rep \in PCs : ReceiveReport(c, rep)

Next ==
    \/ WorkerBegins \/ WorkerStep \/ PrepareFails
    \/ EndpointCalled \/ EndpointStep
    \/ \E c \in Clusters : AgentBegins(c) \/ AgentStep(c)
    \/ \E h \in Handlers : Abort(h)

Spec == Init /\ [][Next]_vars

-----------------------------------------------------------------------------
\* setKafkaClusterReady, the CNAME manager and every writer of a stale copy
\* together: a Kafka is "ready" only if its routes are stored and created,
\* in whatever order handlers overlap.
ReadyRouted == row.status = "ready" => row.rcreated /\ row.routes # None

\* The CNAME manager creates records only for routes the row keeps, so Delete
\* finds routes to delete whenever there are records.
RecordsTracked == dns # None => row.routes # None

\* reconcileDeletingKafkas: the row is not deleted before its quota is given
\* back, also after an error in the middle of the deletion.
QuotaReleased == row.status = "deleted" => ~sub

\* DeletingKafkaManager takes a host as the sign that a cluster has to let go
\* of the Kafka first.  A host without a cluster would make it wait for ever.
HostPlaced == row.host => row.cluster # None

\* ReceiveReport and the CNAME manager: the records of a ready Kafka lead to
\* the routes its row stores, or a later deletion could not remove them.
ReadyRecords == row.status = "ready" /\ CNAMERegistration => dns = row.routes

\* DeletingKafkaManager: "ensures that any other dependencies (i.e. SSO
\* clients, CNAME records) are cleaned up for these Kafkas and their records
\* soft deleted".  So it is if no step of a handler fails and the Kafka has a
\* cluster; Delete removes only the row of one that a full cluster gave back.
CleanDeletion ==
    row.status = "deleted" /\ Inflight = {} /\ row.cluster # None /\ faults = 0
        => ~sub /\ ~sa /\ dns = None

\* The CNAME manager treats records that exist already as created.
NoPanic == ~panics

\* "ignore updates of kafka under deletion": no handler takes a Kafka out of
\* its deletion.
DeletionIrrevocable ==
    [][row.status \in kafkaDeletionStatuses
          => row'.status \in kafkaDeletionStatuses \cup {"deleted"}]_vars

\* When handlers do not overlap, the workers, the endpoints and the agents
\* together implement the life cycle: UpdateStatus, Update, Updates and the
\* admin validators allow no other move.
Lifecycle == INSTANCE KafkaLifecycle
                 WITH status <- row.status, deployed <- row.host,
                      exposed <- row.rcreated
ImplementsLifecycle == Lifecycle!Spec

-----------------------------------------------------------------------------
\* Fairness: workers run again and again, a handler that has begun goes on,
\* and agents keep fetching and reporting what they know.  Handlers wait for
\* one another only through MaxInflight, hence SF where one begins.
Fairness ==
    /\ SF_vars(DeletingList) /\ SF_vars(ReadyList)
    /\ WF_vars(WorkerStep) /\ WF_vars(EndpointStep)
    /\ \A c \in Clusters :
          /\ WF_vars(FetchKafka(c)) /\ WF_vars(AgentStep(c))
          /\ \A rep \in {"deleted", "suspended"} : SF_vars(ReceiveReport(c, rep))

FairSpec == Spec /\ Fairness

\* Every deprovisioned Kafka is removed in the end: by way of its cluster, or
\* at once when it has no host; also after errors and crashes on the way.
DeletionCompletes == row.status = "deprovision" ~> row.status = "deleted"

\* A Kafka that is being suspended and is on a cluster does not stay so.
SuspensionCompletes ==
    row.status = "suspending" /\ row.host ~> row.status # "suspending"

\* A Kafka that became ready without a canary service account (its
\* preparation had failed) gets one, unless it stops being ready.
CanaryProvided == row.status = "ready" ~> row.canary \/ row.status # "ready"
=============================================================================
