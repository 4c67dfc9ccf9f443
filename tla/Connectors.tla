----------------------------- MODULE Connectors -----------------------------
(***************************************************************************)
(* The connector service: connectors, the namespaces they are placed in,   *)
(* the cluster that hosts the namespaces, the deployments handed to the    *)
(* agent, the three reconcilers and the agent's reports.                   *)
(*                                                                         *)
(* A connector is two rows that are written separately: connectors, with   *)
(* a version that guards its updates, and connector_statuses, without one. *)
(* Requests, reconcilers and reports that write both, or read before they  *)
(* write, are split into their statements; `races' counts the actors that  *)
(* start in between.  Change propagation by version numbers is in          *)
(* ConnectorUpdates.                                                       *)
(***************************************************************************)
EXTENDS Naturals, FiniteSets

CONSTANTS
    Connectors,     \* connector ids
    Namespaces,     \* namespace ids, all of one cluster
    None,
    MaxCalls,       \* bound on PATCH and DELETE requests for connectors
    MaxRequests,    \* bound on the user requests served at a time
    MaxDeployments, \* bound on the deployments created
    MaxUpsets       \* bound on faults and races together

ASSUME BoundsAssumption == {MaxCalls, MaxRequests, MaxDeployments, MaxUpsets} \subseteq Nat
ASSUME NoneAssumption == None \notin Namespaces

Requests == 1..MaxRequests
Deployments == 1..MaxDeployments

VARIABLES
    cluster,    \* connector_clusters row, and its agent's service account
    ns,         \* connector_namespaces rows
    conn,       \* connectors rows
    status,     \* connector_statuses rows
    dep,        \* connector_deployments rows
    agent,      \* the agent: its namespaces, and what it was told to do
    req,        \* the user requests being served
    work,       \* the row the connector reconciler is working on
    rep,        \* the agent report being served
    unassign,   \* ConnectorEnableUnassignedConnectors
    calls,
    faults,     \* processes stopped between two statements, calls that failed
    races       \* actors that started between two statements of another one

vars == <<cluster, ns, conn, status, dep, agent, req, work, rep, unassign,
          calls, faults, races>>

Rows == {"absent", "live", "gone"}     \* gone: soft-deleted
Desired == {"unassigned", "ready", "stopped", "deleted"}
Phases == {"", "assigning", "assigned", "updating", "provisioning", "ready",
           "stopped", "deprovisioning", "deleting", "deleted"}
NamespacePhases == {"disconnected", "ready", "deleting", "deleted"}

-----------------------------------------------------------------------------
(* The phase machines: triples of operation, source and destination.       *)

connectorEvents(namespacePhase) ==
    LET alive == {"unassigned", "ready", "stopped"}
        create == {<<"create", s, "ready">> : s \in {"unassigned", "ready"}}
        remove == {<<"unassign", s, "unassigned">> : s \in alive}
                      \cup {<<"delete", s, "deleted">> : s \in alive \cup {"deleted"}}
        update == {<<"update", s, s>> : s \in alive}
        stop == {<<"stop", s, "stopped">> : s \in {"stopped", "ready"}}
        assign(from) == {<<"assign", s, "ready">> : s \in from}
        restart == {<<"restart", s, "ready">> : s \in {"stopped", "ready"}}
    IN CASE namespacePhase = "disconnected" ->
              create \cup assign({"unassigned", "ready"}) \cup update \cup stop \cup remove
         [] namespacePhase = "ready" ->
              create \cup assign({"unassigned"}) \cup update \cup restart \cup stop \cup remove
         [] namespacePhase = "deleting" -> remove
         [] OTHER -> {}

namespaceEvents(clusterPhase) ==
    LET to(op, from, d) == {<<op, s, d>> : s \in from}
    IN CASE clusterPhase = "disconnected" ->
              to("delete", {"disconnected"}, "deleted") \cup to("delete", {"deleting"}, "deleting")
         [] clusterPhase = "ready" ->
              to("connect", {"disconnected", "ready"}, "ready")
                \cup to("connect", {"deleting"}, "deleting")
                \cup to("delete", {"disconnected"}, "deleted")
                \cup to("delete", {"ready", "deleting"}, "deleting")
         [] clusterPhase = "deleting" ->
              to("connect", {"disconnected", "ready", "deleting"}, "deleting")
                \cup to("delete", {"disconnected", "ready", "deleting"}, "deleting")
                \cup to("delete", {"deleted"}, "deleted")

clusterEvents ==
    {<<"connect", "disconnected", "ready">>, <<"connect", "ready", "ready">>,
     <<"connect", "deleting", "deleting">>}
        \cup {<<"delete", s, "deleting">> : s \in {"disconnected", "ready", "deleting"}}

\* looplab/fsm: an operation without a transition from s is an error.
Permitted(events, op, s) == \E e \in events : e[1] = op /\ e[2] = s
Perform(events, op, s) == (CHOOSE e \in events : e[1] = op /\ e[2] = s)[3]

\* Mutant: a restarted connector is assigned again.
ConnectorStartingPhase_RestartAssigns(op) ==
    CASE op \in {"create", "assign", "restart"} -> "assigning"
      [] op \in {"unassign", "delete"} -> "deleting"
      [] op = "stop" -> "assigned"
      [] op = "update" -> "updating"

ConnectorStartingPhase(op) ==
    CASE op \in {"create", "assign"} -> "assigning"
      [] op \in {"unassign", "delete"} -> "deleting"
      [] op \in {"restart", "stop"} -> "assigned"
      [] op = "update" -> "updating"

-----------------------------------------------------------------------------
Live(f) == {x \in DOMAIN f : f[x].row = "live"}
DeploymentsOf(c) == {d \in Live(dep) : dep[d].conn = c}

MoreUpsets == faults + races < MaxUpsets

\* An actor that starts while another one is between two statements is a race.
Idle == (\A r \in Requests : req[r] = None) /\ work = None /\ rep = None
Starts == /\ Idle \/ MoreUpsets
          /\ races' = IF Idle THEN races ELSE races + 1

ConnRow == [row : Rows, desired : Desired, ns : Namespaces \cup {None}, ver : Nat]
StatusRow == [row : Rows, phase : Phases, ns : Namespaces \cup {None}]

TypeOK ==
    /\ cluster \in [row : Rows, phase : {"disconnected", "ready", "deleting"}, account : BOOLEAN]
    /\ ns \in [Namespaces -> [row : Rows, phase : NamespacePhases, seen : BOOLEAN]]
    /\ conn \in [Connectors -> ConnRow]
    /\ status \in [Connectors -> StatusRow]
    /\ dep \in [Deployments -> [row : Rows, conn : Connectors \cup {None},
                                ns : Namespaces \cup {None}]]
    /\ agent \in [nss : SUBSET Namespaces,
                  task : [Deployments -> {"none", "run", "stop", "remove"}]]
    /\ req \in [Requests -> {None} \cup
                   [kind : {"create", "patch", "delete"}, step : 1..2, c : Connectors,
                    want : Desired, conn : ConnRow, status : StatusRow]]
    /\ work = None \/ work \in [pass : {"assigning", "unassigned", "deleting", "deleted"},
                                step : 1..2, c : Connectors, ns : Namespaces \cup {None},
                                status : StatusRow]
    /\ rep = None \/ rep \in [kind : {"connect"}, phase : {"ready", "deleting"}]
                  \/ rep \in [kind : {"status"}, c : Connectors, phase : Phases]
    /\ unassign \in BOOLEAN
    /\ calls \in 0..MaxCalls /\ faults \in 0..MaxUpsets /\ races \in 0..MaxUpsets

Init ==
    /\ cluster = [row |-> "absent", phase |-> "disconnected", account |-> FALSE]
    /\ ns = [n \in Namespaces |-> [row |-> "absent", phase |-> "disconnected", seen |-> FALSE]]
    /\ conn = [c \in Connectors |->
                 [row |-> "absent", desired |-> "ready", ns |-> None, ver |-> 0]]
    /\ status = [c \in Connectors |-> [row |-> "absent", phase |-> "", ns |-> None]]
    /\ dep = [d \in Deployments |-> [row |-> "absent", conn |-> None, ns |-> None]]
    /\ agent = [nss |-> {}, task |-> [d \in Deployments |-> "none"]]
    /\ req = [r \in Requests |-> None] /\ work = None /\ rep = None
    /\ unassign \in BOOLEAN
    /\ calls = 0 /\ faults = 0 /\ races = 0

-----------------------------------------------------------------------------
(* The cluster and its namespaces.                                         *)

config == <<unassign, calls, faults>>
open == <<req, work, rep>>

NewNamespace == [row |-> "live", phase |-> "disconnected", seen |-> FALSE]

\* The service account is created first and deleted again if Create fails.
\* The cluster's row is committed before its default namespace is inserted,
\* and stays when that fails.
CreateCluster(n) ==
    /\ Starts /\ cluster.row = "absent" /\ ns[n].row = "absent"
    /\ \/ /\ cluster' = [row |-> "live", phase |-> "disconnected", account |-> TRUE]
          /\ ns' = [ns EXCEPT ![n] = NewNamespace]
          /\ faults' = faults
       \/ /\ MoreUpsets /\ faults' = faults + 1
          /\ cluster' = [row |-> "live", phase |-> "disconnected", account |-> FALSE]
          /\ ns' = ns
    /\ UNCHANGED <<conn, status, dep, agent, open, unassign, calls>>

\* The validation reads the organisation of the cluster only: neither a
\* deleting nor a removed cluster stops it.
CreateNamespace(n) ==
    /\ Starts /\ cluster.row # "absent" /\ ns[n].row = "absent"
    /\ ns' = [ns EXCEPT ![n] = NewNamespace]
    /\ UNCHANGED <<cluster, conn, status, dep, agent, open, config>>

DeleteCluster ==
    /\ Starts /\ cluster.row = "live" /\ cluster.phase # "deleting"
    /\ Permitted(clusterEvents, "delete", cluster.phase)
    /\ cluster' = [cluster EXCEPT !.phase = Perform(clusterEvents, "delete", cluster.phase)]
    /\ UNCHANGED <<ns, conn, status, dep, agent, open, config>>

\* Whatever the phase machine answers, the phase written is "deleting".
DeleteNamespaces(S) ==
    ns' = [n \in Namespaces |->
             IF n \in S /\ ns[n].row = "live" /\ ns[n].phase \notin {"deleting", "deleted"}
             THEN [ns[n] EXCEPT !.phase = "deleting"] ELSE ns[n]]

DeleteNamespace(n) ==
    /\ Starts /\ ns[n].row = "live" /\ cluster.row = "live"
    /\ Permitted(namespaceEvents(cluster.phase), "delete", ns[n].phase)
    /\ Perform(namespaceEvents(cluster.phase), "delete", ns[n].phase) # ns[n].phase
    /\ DeleteNamespaces({n})
    /\ UNCHANGED <<cluster, conn, status, dep, agent, open, config>>

\* An evaluation namespace whose time is over; which ones are is left open.
ReconcileExpiredNamespaces(S) ==
    /\ Starts /\ S # {}
    /\ \A n \in S : ns[n].row = "live" /\ ns[n].phase \notin {"deleting", "deleted"}
    /\ DeleteNamespaces(S)
    /\ UNCHANGED <<cluster, conn, status, dep, agent, open, config>>

NamespacesWith(phase) == {n \in Live(ns) : ns[n].phase = phase}

\* connectors is joined without its deleted_at: removed connectors count too.
ReconcileUnusedDeletingNamespaces ==
    LET unused == {n \in NamespacesWith("deleting") :
                     ~ns[n].seen /\ \A c \in Connectors : conn[c].row # "absent" => conn[c].ns # n}
    IN /\ Starts /\ unused # {}
       /\ ns' = [n \in Namespaces |->
                   IF n \in unused THEN [ns[n] EXCEPT !.phase = "deleted"] ELSE ns[n]]
       /\ UNCHANGED <<cluster, conn, status, dep, agent, open, config>>

\* The desired state changes, and the phase of the connectors not yet there.
deleteNamespaceConnectors(doomed) ==
    LET state == IF unassign THEN "unassigned" ELSE "deleted"
    IN /\ conn' = [c \in Connectors |->
                     IF c \in doomed THEN [conn[c] EXCEPT !.desired = state, !.ver = @ + 1]
                                     ELSE conn[c]]
       /\ status' = [c \in Connectors |->
                       IF /\ c \in doomed /\ status[c].row = "live"
                          /\ status[c].phase \notin {"deleting", "deleted"}
                       THEN [status[c] EXCEPT !.phase = "deleting"] ELSE status[c]]

\* Mutant: only running connectors are removed from the namespace.
ReconcileUsedDeletingNamespaces_ForgetsStopped ==
    LET doomed == {c \in Live(conn) : /\ conn[c].ns \in NamespacesWith("deleting")
                                      /\ conn[c].desired = "ready"}
    IN /\ Starts /\ doomed # {}
       /\ deleteNamespaceConnectors(doomed)
       /\ UNCHANGED <<cluster, ns, dep, agent, open, config>>

ReconcileUsedDeletingNamespaces ==
    LET doomed == {c \in Live(conn) : /\ conn[c].ns \in NamespacesWith("deleting")
                                      /\ conn[c].desired \notin {"deleted", "unassigned"}}
    IN /\ Starts /\ doomed # {}
       /\ deleteNamespaceConnectors(doomed)
       /\ UNCHANGED <<cluster, ns, dep, agent, open, config>>

\* Occupied: some live status names the namespace.  A connector that waits for
\* its assignment has none in its status yet, so its namespace may go.
Occupied(n) == \E c \in Live(status) : status[c].ns = n

ReconcileDeletedNamespaces ==
    LET empty == {n \in NamespacesWith("deleted") : ~Occupied(n)}
    IN /\ Starts /\ empty # {}
       /\ ns' = [n \in Namespaces |-> IF n \in empty THEN [ns[n] EXCEPT !.row = "gone"] ELSE ns[n]]
       /\ UNCHANGED <<cluster, conn, status, dep, agent, open, config>>

\* The rows go even when the service account could not be removed.
ReconcileEmptyDeletingClusters ==
    /\ Starts /\ cluster.row = "live" /\ cluster.phase = "deleting" /\ Live(ns) = {}
    /\ \E removed \in BOOLEAN :
         /\ ~removed => MoreUpsets
         /\ cluster' = [cluster EXCEPT !.row = "gone", !.account = ~removed]
         /\ faults' = IF removed THEN faults ELSE faults + 1
    /\ UNCHANGED <<ns, conn, status, dep, agent, open, unassign, calls>>

ReconcileNonEmptyDeletingClusters ==
    /\ Starts /\ cluster.row = "live" /\ cluster.phase = "deleting"
    /\ \E n \in Live(ns) : ns[n].phase \notin {"deleting", "deleted"}
    /\ DeleteNamespaces(Namespaces)
    /\ UNCHANGED <<cluster, conn, status, dep, agent, open, config>>

-----------------------------------------------------------------------------
(* Requests on connectors.                                                 *)

rows == <<cluster, ns, conn, status, dep, agent>>

\* Save writes the whole status as it was read.  Of a soft-deleted status GORM
\* finds no row to update: it then fails on the primary key or writes the row
\* again, deleted_at included.  A status that was not found has no key.
SaveStatus(c, s) ==
    LET saved == [status EXCEPT ![c] = s]
    IN CASE s.row = "absent" -> status' = status
         [] status[c].row = "gone" -> status' \in {status, saved}
         [] OTHER -> status' = saved

\* Mutant: the version is not compared.
Update_NoVersionCheck(c, row, s) ==
    IF conn[c].row = "live"
    THEN /\ conn' = [conn EXCEPT ![c].desired = row.desired, ![c].ver = @ + 1]
         /\ status' = [status EXCEPT ![c] = [s EXCEPT !.row = "live"]]
    ELSE UNCHANGED <<conn, status>>

\* connectorsService.Update: one transaction, guarded by the version, that also
\* writes the status it is given (FullSaveAssociations).
Update(c, row, s) ==
    IF conn[c].row = "live" /\ conn[c].ver = row.ver
    THEN /\ conn' = [conn EXCEPT ![c].desired = row.desired, ![c].ver = @ + 1]
         /\ status' = [status EXCEPT ![c] = [s EXCEPT !.row = "live"]]
    ELSE UNCHANGED <<conn, status>>

\* The namespace, if any, permits the operation, as ValidateConnectorOperation
\* finds it now for the connector read before.
ValidateConnectorOperation(row, op) ==
    IF row.ns = None THEN op \in {"create", "update", "delete"}
    ELSE ns[row.ns].row = "live" /\ Permitted(connectorEvents(ns[row.ns].phase), op, row.desired)

\* A request takes the first free slot.
Free(r) == req[r] = None /\ \A q \in 1..(r - 1) : req[q] # None

NewConnector(n) == [row |-> "live", desired |-> "ready", ns |-> n, ver |-> 0]

Create(r, c, n) ==
    /\ Starts /\ Free(r) /\ conn[c].row = "absent"
    /\ n = None => unassign
    /\ ValidateConnectorOperation(NewConnector(n), "create")
    /\ \A q \in Requests : req[q] # None => req[q].c # c    \* the id is new
    /\ req' = [req EXCEPT ![r] = [kind |-> "create", step |-> 1, c |-> c, want |-> "ready",
                                  conn |-> NewConnector(n), status |-> status[c]]]
    /\ UNCHANGED <<rows, work, rep, config>>

Serving(r, kinds, step) == req[r] # None /\ req[r].kind \in kinds /\ req[r].step = step

CreateInsert(r) ==
    /\ Serving(r, {"create"}, 1)
    /\ conn' = [conn EXCEPT ![req[r].c] = req[r].conn]
    /\ req' = [req EXCEPT ![r].step = 2]
    /\ UNCHANGED <<cluster, ns, status, dep, agent, work, rep, config, races>>

CreateStatus(r) ==
    /\ Serving(r, {"create"}, 2)
    /\ status' = [status EXCEPT ![req[r].c] = [row |-> "live", phase |-> "assigning", ns |-> None]]
    /\ req' = [req EXCEPT ![r] = None]
    /\ UNCHANGED <<cluster, ns, conn, dep, agent, work, rep, config, races>>

getOperation(desired, want) ==
    CASE want = desired -> "update"
      [] want = "ready" /\ desired = "stopped" -> "restart"
      [] want = "ready" /\ desired \in {"unassigned", "deleted"} -> "assign"
      [] want = "stopped" /\ desired # "stopped" -> "stop"
      [] want = "unassigned" /\ desired # "unassigned" -> "unassign"

\* A request that reads connector c, and its status, before it does anything.
ReadConnector(r, kind, c, want) ==
    /\ Starts /\ Free(r) /\ conn[c].row = "live"
    /\ calls < MaxCalls /\ calls' = calls + 1
    /\ req' = [req EXCEPT ![r] = [kind |-> kind, step |-> 1, c |-> c, want |-> want,
                                  conn |-> conn[c], status |-> status[c]]]
    /\ UNCHANGED <<rows, work, rep, unassign, faults>>

Patch(r, c, want) ==
    /\ want # "deleted" /\ conn[c].desired # "deleted"
    /\ want = "unassigned" /\ conn[c].desired # want => unassign
    /\ ReadConnector(r, "patch", c, want)

\* Mutant: the phase changes even when the connector waits for its assignment.
PatchSaveStatus_LeavesAssigning(r) ==
    LET q == req[r]
        op == getOperation(q.conn.desired, q.want)
        phase == ConnectorStartingPhase(op)
    IN /\ Serving(r, {"patch"}, 1)
       /\ IF ValidateConnectorOperation(q.conn, op)
          THEN /\ SaveStatus(q.c, [q.status EXCEPT !.phase = phase])
               /\ req' = [req EXCEPT ![r] =
                            [q EXCEPT !.step = 2, !.conn.desired = q.want,
                                      !.status = [q.status EXCEPT !.phase = phase, !.ns = None]]]
          ELSE req' = [req EXCEPT ![r] = None] /\ status' = status
       /\ UNCHANGED <<cluster, ns, conn, dep, agent, work, rep, config, races>>

\* The phase is written before the desired state, and only if the connector
\* was not waiting for its assignment.  The status given to Update is built
\* from the request (ConvertConnector) and has no namespace.
PatchSaveStatus(r) ==
    LET q == req[r]
        op == getOperation(q.conn.desired, q.want)
        phase == IF q.status.phase = "assigning" THEN "assigning" ELSE ConnectorStartingPhase(op)
    IN /\ Serving(r, {"patch"}, 1)
       /\ IF ValidateConnectorOperation(q.conn, op)
          THEN /\ IF q.status.phase = "assigning" THEN status' = status
                  ELSE SaveStatus(q.c, [q.status EXCEPT !.phase = phase])
               /\ req' = [req EXCEPT ![r] =
                            [q EXCEPT !.step = 2, !.conn.desired = q.want,
                                      !.status = [q.status EXCEPT !.phase = phase, !.ns = None]]]
          ELSE req' = [req EXCEPT ![r] = None] /\ status' = status
       /\ UNCHANGED <<cluster, ns, conn, dep, agent, work, rep, config, races>>

Delete(r, c) == ReadConnector(r, "delete", c, "deleted")

\* In a namespace the phase machine decides, and does nothing for a connector
\* that is deleted already; outside of one the connector is deleted at once.
DeleteSaveStatus(r) ==
    LET q == req[r]
        phase == IF q.conn.ns = None THEN "deleted" ELSE ConnectorStartingPhase("delete")
        proceeds == /\ ValidateConnectorOperation(q.conn, "delete")
                    /\ q.conn.ns # None => q.conn.desired # "deleted"
    IN /\ Serving(r, {"delete"}, 1)
       /\ IF proceeds
          THEN /\ SaveStatus(q.c, [q.status EXCEPT !.phase = phase])
               /\ req' = [req EXCEPT ![r] = [q EXCEPT !.step = 2, !.conn.desired = "deleted",
                                                      !.status.phase = phase]]
          ELSE req' = [req EXCEPT ![r] = None] /\ status' = status
       /\ UNCHANGED <<cluster, ns, conn, dep, agent, work, rep, config, races>>

UpdateConnector(r) ==
    /\ Serving(r, {"patch", "delete"}, 2)
    /\ Update(req[r].c, req[r].conn, req[r].status)
    /\ req' = [req EXCEPT ![r] = None]
    /\ UNCHANGED <<cluster, ns, dep, agent, work, rep, config, races>>

\* One deployment, the first found, goes with the connector.
ForceDelete(c) ==
    /\ Starts /\ (conn[c].row = "live" \/ DeploymentsOf(c) # {})
    /\ \/ DeploymentsOf(c) = {} /\ dep' = dep
       \/ \E d \in DeploymentsOf(c) : dep' = [dep EXCEPT ![d].row = "gone"]
    /\ IF conn[c].row = "live"
       THEN /\ conn' = [conn EXCEPT ![c].row = "gone"]
            /\ status' = [status EXCEPT ![c].row = IF @ = "live" THEN "gone" ELSE @]
       ELSE UNCHANGED <<conn, status>>
    /\ UNCHANGED <<cluster, ns, agent, open, config>>

-----------------------------------------------------------------------------
(* The connector reconciler: a pass lists the rows its query selects, reads *)
(* each one's status again and works on it.  The transaction around a row   *)
(* holds none of the statements, which run on connections of their own.     *)

\* Mutant: every pass wants the connector to be in a namespace.
Selected_PlacedOnly(pass, c) ==
    /\ conn[c].row = "live" /\ status[c].row = "live" /\ conn[c].ns # None
    /\ CASE pass = "assigning" -> conn[c].desired = "ready" /\ status[c].phase = "assigning"
         [] pass = "unassigned" -> conn[c].desired = "unassigned" /\ status[c].phase = "deleted"
         [] pass = "deleting" -> conn[c].desired = "deleted" /\ status[c].phase = "deleting"
         [] pass = "deleted" -> /\ conn[c].desired = "deleted"
                                /\ status[c].phase \in {"assigning", "deleted"}

Selected(pass, c) ==
    /\ conn[c].row = "live" /\ status[c].row = "live"
    /\ CASE pass = "assigning" -> /\ conn[c].desired = "ready" /\ status[c].phase = "assigning"
                                  /\ conn[c].ns # None
         [] pass = "unassigned" -> conn[c].desired = "unassigned" /\ status[c].phase = "deleted"
         [] pass = "deleting" -> conn[c].desired = "deleted" /\ status[c].phase = "deleting"
         [] pass = "deleted" -> /\ conn[c].desired = "deleted"
                                /\ status[c].phase \in {"assigning", "deleted"}

\* Mutant: a deleting connector is not checked for a deployment.
Ready_NoDeploymentCheck(pass, c) ==
    pass = "assigning" => /\ ns[conn[c].ns].row = "live" /\ ns[conn[c].ns].phase = "ready"
                          /\ \E d \in Deployments : dep[d].row = "absent"

\* What the reconcile function reads before its first write.
Ready(pass, c) ==
    CASE pass = "assigning" -> \* FindAvailableNamespace
           /\ ns[conn[c].ns].row = "live" /\ ns[conn[c].ns].phase = "ready"
           /\ \E d \in Deployments : dep[d].row = "absent"    \* MaxDeployments
      [] pass = "deleting" -> DeploymentsOf(c) = {}    \* GetDeploymentByConnectorId
      [] OTHER -> TRUE

Reconcile(pass, c) ==
    /\ Starts /\ work = None
    /\ Selected(pass, c) /\ Ready(pass, c)
    /\ work' = [pass |-> pass, step |-> 1, c |-> c, ns |-> conn[c].ns, status |-> status[c]]
    /\ UNCHANGED <<rows, req, rep, config>>

Working(pass, step) == work # None /\ work.pass = pass /\ work.step = step

AssignStatus ==
    /\ Working("assigning", 1)
    /\ SaveStatus(work.c, [row |-> "live", phase |-> "assigned", ns |-> work.ns])
    /\ work' = [work EXCEPT !.step = 2]
    /\ UNCHANGED <<cluster, ns, conn, dep, agent, req, rep, config, races>>

SaveDeployment ==
    /\ Working("assigning", 2)
    /\ \E d \in Deployments :
         /\ dep[d].row = "absent" /\ \A e \in 1..(d - 1) : dep[e].row # "absent"
         /\ dep' = [dep EXCEPT ![d] = [row |-> "live", conn |-> work.c, ns |-> work.ns]]
    /\ work' = None
    /\ UNCHANGED <<cluster, ns, conn, status, agent, req, rep, config, races>>

ClearNamespace ==
    /\ Working("unassigned", 1) \/ Working("deleting", 1)
    /\ conn' = IF conn[work.c].row = "live"
               THEN [conn EXCEPT ![work.c].ns = None, ![work.c].ver = @ + 1] ELSE conn
    /\ work' = [work EXCEPT !.step = 2]
    /\ UNCHANGED <<cluster, ns, status, dep, agent, req, rep, config, races>>

ClearedStatus ==
    /\ Working("unassigned", 2) \/ Working("deleting", 2)
    /\ SaveStatus(work.c, IF work.pass = "unassigned"
                          THEN [work.status EXCEPT !.phase = "assigning", !.ns = None]
                          ELSE [work.status EXCEPT !.phase = "deleted"])
    /\ work' = None
    /\ UNCHANGED <<cluster, ns, conn, dep, agent, req, rep, config, races>>

\* Nothing more is done if the row was removed in the meantime.
DeleteConnector ==
    /\ Working("deleted", 1)
    /\ conn' = [conn EXCEPT ![work.c].row = "gone"]
    /\ work' = IF conn[work.c].row = "live" THEN [work EXCEPT !.step = 2] ELSE None
    /\ UNCHANGED <<cluster, ns, status, dep, agent, req, rep, config, races>>

DeleteStatus ==
    /\ Working("deleted", 2)
    /\ status' = [status EXCEPT ![work.c].row = "gone"]
    /\ work' = None
    /\ UNCHANGED <<cluster, ns, conn, dep, agent, req, rep, config, races>>

\* Startup: deployments of removed connectors go.
CleanupDeployments ==
    LET dangling == {d \in Live(dep) : conn[dep[d].conn].row = "gone"}
    IN /\ Starts /\ dangling # {}
       /\ dep' = [d \in Deployments |->
                    IF d \in dangling THEN [dep[d] EXCEPT !.row = "gone"] ELSE dep[d]]
       /\ UNCHANGED <<cluster, ns, conn, status, agent, open, config>>

-----------------------------------------------------------------------------
(* The agent (external) and its calls.  It has a namespace for every one    *)
(* that is not being deleted, and for those that are while they still have  *)
(* deployments; it does with a deployment what its connector wants.  A      *)
(* report that would change nothing is left out.                            *)

Connected == cluster.row = "live" /\ cluster.account

Task(desired) ==
    CASE desired = "ready" -> "run" [] desired = "stopped" -> "stop"
      [] desired \in {"unassigned", "deleted"} -> "remove"

\* Mutant: the deployments of connectors to be deleted are left out as well.
Listed_NotDeleted == {d \in Live(dep) : /\ conn[dep[d].conn].row = "live"
                                        /\ conn[dep[d].conn].desired # "deleted"}

\* ListConnectorDeployments leaves out the deployments of removed connectors.
Listed == {d \in Live(dep) : conn[dep[d].conn].row = "live"}

AgentSync ==
    LET task == [d \in Deployments |->
                   IF d \in Listed THEN Task(conn[dep[d].conn].desired) ELSE "none"]
        nss == {n \in Live(ns) :
                  \/ ns[n].phase \in {"disconnected", "ready"}
                  \/ n \in agent.nss /\ \E d \in Listed : dep[d].ns = n}
    IN /\ Starts /\ Connected
       /\ agent' = [nss |-> nss, task |-> task]
       /\ agent' # agent
       /\ UNCHANGED <<cluster, ns, conn, status, dep, open, config>>

AgentPhases(task) ==
    CASE task = "run" -> {"ready"} [] task = "stop" -> {"stopped"}
      [] task = "remove" -> {"deprovisioning", "deleted"} [] OTHER -> {}

\* UpdateConnectorDeploymentStatus, up to the status of the connector.
ReportDeployment(d, phase) ==
    LET c == dep[d].conn
    IN /\ Starts /\ rep = None /\ Connected
       /\ phase \in AgentPhases(agent.task[d]) /\ phase # status[c].phase
       /\ dep[d].row = "live" /\ conn[c].row = "live" /\ status[c].row = "live"
       /\ dep' = IF phase = "deleted" THEN [dep EXCEPT ![d].row = "gone"] ELSE dep
       /\ rep' = [kind |-> "status", c |-> c, phase |-> phase]
       /\ UNCHANGED <<cluster, ns, conn, status, agent, req, work, config>>

\* The phase is written without a look at the one that is there.
ReportPhase ==
    /\ rep # None /\ rep.kind = "status"
    /\ status' = IF status[rep.c].row = "live"
                 THEN [status EXCEPT ![rep.c].phase = rep.phase] ELSE status
    /\ rep' = None
    /\ UNCHANGED <<cluster, ns, conn, dep, agent, req, work, config, races>>

\* Every namespace reported is connected, and every unoccupied deleting one that
\* is missing is deleted.
Reported(clusterPhase) ==
    LET events == namespaceEvents(clusterPhase)
        missing == {n \in NamespacesWith("deleting") : ~Occupied(n)} \ agent.nss
        connects == {n \in agent.nss \cap Live(ns) : Permitted(events, "connect", ns[n].phase)}
    IN [n \in Namespaces |->
          CASE n \in connects ->
                 [ns[n] EXCEPT !.phase = Perform(events, "connect", @), !.seen = TRUE]
            [] n \in missing -> [ns[n] EXCEPT !.phase = "deleted"]
            [] OTHER -> ns[n]]

\* UpdateConnectorClusterStatus reads the cluster's phase ...
ReportCluster ==
    LET phase == Perform(clusterEvents, "connect", cluster.phase)
    IN /\ Starts /\ rep = None /\ Connected
       /\ phase # cluster.phase \/ Reported(phase) # ns
       /\ rep' = [kind |-> "connect", phase |-> phase]
       /\ UNCHANGED <<rows, req, work, config>>

\* ... and writes it back, before it goes on to the namespaces.
ReportNamespaces ==
    /\ rep # None /\ rep.kind = "connect"
    /\ IF cluster.row = "live"
       THEN cluster' = [cluster EXCEPT !.phase = rep.phase] /\ ns' = Reported(rep.phase)
       ELSE UNCHANGED <<cluster, ns>>
    /\ rep' = None
    /\ UNCHANGED <<conn, status, dep, agent, req, work, config, races>>

\* UpdateConnectorNamespaceStatus with phase "deleted": from the agent, or from
\* an administrator who forces the deletion.
ReportNamespaceDeleted(n) ==
    /\ Starts /\ ns[n].row = "live" /\ cluster.row = "live"
    /\ Permitted(namespaceEvents(cluster.phase), "connect", ns[n].phase)
    /\ Perform(namespaceEvents(cluster.phase), "connect", ns[n].phase) = "deleting"
    /\ \A d \in Live(dep) : dep[d].ns # n
    /\ ns' = [ns EXCEPT ![n].phase = "deleted", ![n].seen = TRUE]
    /\ UNCHANGED <<cluster, conn, status, dep, agent, open, config>>

\* The process serving a request, a pass or a report stops.
Crash ==
    /\ MoreUpsets /\ faults' = faults + 1
    /\ \/ \E r \in Requests : /\ req[r] # None /\ req' = [req EXCEPT ![r] = None]
                               /\ UNCHANGED <<work, rep>>
       \/ work # None /\ work' = None /\ UNCHANGED <<req, rep>>
       \/ rep # None /\ rep' = None /\ UNCHANGED <<req, work>>
    /\ UNCHANGED <<rows, unassign, calls, races>>

-----------------------------------------------------------------------------
Passes == {"assigning", "unassigned", "deleting", "deleted"}

User ==
    \/ \E n \in Namespaces : CreateCluster(n) \/ CreateNamespace(n) \/ DeleteNamespace(n)
    \/ DeleteCluster
    \/ \E c \in Connectors, r \in Requests :
         \/ \E n \in Namespaces \cup {None} : Create(r, c, n)
         \/ \E want \in Desired : Patch(r, c, want)
         \/ Delete(r, c)
    \/ \E c \in Connectors : ForceDelete(c)

Serve(r) == CreateInsert(r) \/ CreateStatus(r) \/ PatchSaveStatus(r) \/ DeleteSaveStatus(r)
              \/ UpdateConnector(r)

Work == AssignStatus \/ SaveDeployment \/ ClearNamespace \/ ClearedStatus
          \/ DeleteConnector \/ DeleteStatus

NamespaceManager ==
    \/ \E S \in SUBSET Namespaces : ReconcileExpiredNamespaces(S)
    \/ ReconcileUnusedDeletingNamespaces \/ ReconcileUsedDeletingNamespaces
    \/ ReconcileDeletedNamespaces

ClusterManager == ReconcileEmptyDeletingClusters \/ ReconcileNonEmptyDeletingClusters

Agent ==
    \/ AgentSync \/ ReportCluster
    \/ \E d \in Deployments, phase \in Phases : ReportDeployment(d, phase)
    \/ \E n \in Namespaces : ReportNamespaceDeleted(n)

Answer == ReportPhase \/ ReportNamespaces

Next == \/ User \/ (\E r \in Requests : Serve(r)) \/ Work \/ NamespaceManager \/ ClusterManager \/ Agent \/ Answer
        \/ \E pass \in Passes, c \in Connectors : Reconcile(pass, c)
        \/ CleanupDeployments \/ Crash

Spec == Init /\ [][Next]_vars

\* What goes on without a user: requests, passes and reports under way continue,
\* the reconcilers run again and again, the agent polls, obeys and reports.
Progress ==
    \/ Work \/ Answer \/ \E r \in Requests : Serve(r)
    \/ \E pass \in Passes, c \in Connectors : Reconcile(pass, c)
    \/ ReconcileUnusedDeletingNamespaces \/ ReconcileUsedDeletingNamespaces
    \/ ReconcileDeletedNamespaces \/ ClusterManager
    \/ AgentSync \/ ReportCluster \/ \E d \in Deployments : ReportDeployment(d, "deleted")

FairSpec == Spec /\ WF_vars(Progress)

-----------------------------------------------------------------------------
(* Properties.                                                             *)

Undisturbed == races = 0 /\ ~unassign
Calm == Undisturbed /\ faults = 0

\* No request, however old what it read, takes a connector back from the desired
\* state "deleted": the cascade of a namespace and the version check of
\* connectorsService.Update exclude each other's losers.
DeletionFinal ==
    [][\A c \in Connectors :
         conn[c].row = "live" /\ conn[c].desired = "deleted" => conn'[c].desired = "deleted"]_vars

\* A connector has at most one live deployment, crashes included, although no
\* index of connector_deployments says so: only the phase "assigning" leads to
\* a new one.  Not so when connectors can be unassigned, or when a stale PATCH
\* writes the phase "assigning" back after the assignment.
OneDeployment ==
    Undisturbed => \A c \in Connectors : Cardinality(DeploymentsOf(c)) <= 1

\* reconcileDeleting's search for a deployment and the agent's report remove a
\* connector's deployment before the connector, whatever crashes in between.
NoDangling ==
    Undisturbed => \A d \in Live(dep) : conn[dep[d].conn].row = "live"

\* A namespace is removed only after the deployments in it: by the agent's
\* report, the count of setConnectorsDeployed or the join of
\* ReconcileDeletedNamespaces.
NamespaceKept ==
    Undisturbed => \A d \in Live(dep) : ns[dep[d].ns].row = "live"

\* A connector whose desired state is "deleted" is removed in the end, by way
\* of the agent if it is deployed, whatever else its users, its namespace and
\* its cluster go through.
ConnectorDeletionCompletes ==
    \A c \in Connectors :
        conn[c].row = "live" /\ conn[c].desired = "deleted" ~> conn[c].row = "gone" \/ ~Calm

\* A cluster being deleted takes its namespaces, and they their connectors,
\* along: ReconcileNonEmptyDeletingClusters, the cascade of the namespaces and
\* the agent leave it empty, and ReconcileEmptyDeletingClusters removes it.
ClusterDeletionCompletes ==
    cluster.phase = "deleting" ~> cluster.row = "gone" \/ ~Calm

\* A connector wanted in a ready namespace gets its deployment, PATCHes before
\* the assignment included.
ConnectorsDeployed ==
    \A c \in Connectors, n \in Namespaces :
       LET waiting == /\ conn[c].row = "live" /\ conn[c].ns = n /\ conn[c].desired = "ready"
                      /\ ns[n].row = "live" /\ ns[n].phase = "ready"
       IN waiting ~> (waiting => DeploymentsOf(c) # {}) \/ ~Calm

=============================================================================
