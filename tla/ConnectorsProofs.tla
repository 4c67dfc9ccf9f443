-------------------------- MODULE ConnectorsProofs --------------------------
(***************************************************************************)
(* Theorems about Connectors, for any connectors, namespaces, deployments, *)
(* requests at a time, crashes and races.                                  *)
(***************************************************************************)
EXTENDS Connectors, FiniteSetTheorems, TLAPS

-----------------------------------------------------------------------------
(* What holds with races.                                                  *)

\* A deployment, once inserted, belongs to a connector in a namespace.
RefsInv ==
    /\ \A d \in Deployments : dep[d].row # "absent" =>
          dep[d].conn \in Connectors /\ dep[d].ns \in Namespaces
    /\ work # None /\ work.pass = "assigning" => work.ns \in Namespaces
    /\ work # None => conn[work.c].row # "absent"

\* A create request has its id for itself until the row is inserted.
CreateInv ==
    \A r \in Requests : req[r] # None /\ req[r].kind = "create" /\ req[r].step = 1 =>
        /\ conn[req[r].c].row = "absent"
        /\ \A q \in Requests \ {r} : req[q] # None => req[q].c # req[r].c

\* A PATCH that has the version of the row read a connector that nobody has
\* deleted since: a change of the desired state is a change of the version.
PatchInv ==
    \A r \in Requests : req[r] # None /\ req[r].kind \in {"patch", "delete"} =>
        LET q == req[r] IN
        /\ conn[q.c].row # "absent"
        /\ q.conn.ver <= conn[q.c].ver
        /\ q.kind = "patch" =>
              /\ q.want # "deleted" /\ q.conn.desired # "deleted"
              /\ q.conn.ver = conn[q.c].ver => conn[q.c].desired # "deleted"
        /\ q.kind = "delete" /\ q.step = 2 => q.conn.desired = "deleted"
        /\ q.kind = "patch" /\ q.step = 2 => q.conn.desired = q.want

-----------------------------------------------------------------------------
(* What holds as long as nobody starts in between.                         *)

Alone ==
    /\ \A r, q \in Requests : req[r] # None /\ req[q] # None => r = q
    /\ \A r \in Requests : req[r] # None => work = None /\ rep = None
    /\ work = None \/ rep = None

Owns(c, d) == dep[d].row = "live" /\ dep[d].conn = c
Bare(c) == \A d \in Deployments : ~Owns(c, d)

\* The phases "assigning" and "deleted" promise that nothing is deployed: the
\* first leads to a deployment, the second to the removal of the connector.
Vacant == {"assigning", "deleted"}

ConnInv(c) ==
    /\ conn[c].desired # "unassigned"
    /\ conn[c].row = "absent" => status[c].row = "absent"
    /\ conn[c].row = "live" => status[c].row # "gone"
    /\ conn[c].row # "live" \/ conn[c].ns = None \/ status[c].phase \in Vacant => Bare(c)
    /\ \A d, e \in Deployments : Owns(c, d) /\ Owns(c, e) => d = e
    /\ \A d \in Deployments : Owns(c, d) => dep[d].ns = conn[c].ns

\* The agent has every namespace with a deployment: it had it when the
\* namespace was ready, and gives it up with the last deployment.
NamespaceInv ==
    /\ \A n \in Namespaces : ns[n].row = "live" /\ ns[n].phase = "ready" => n \in agent.nss
    /\ \A d \in Deployments : dep[d].row = "live" =>
          /\ dep[d].ns \in agent.nss
          /\ ns[dep[d].ns].row = "live" /\ ns[dep[d].ns].phase # "deleted"

ReqInv(r) ==
    LET q == req[r] IN
    /\ q.kind = "create" =>
          /\ Bare(q.c)
          /\ q.conn.ns # None /\ q.conn.desired = "ready" /\ q.conn.row = "live"
          /\ q.step = 2 => conn[q.c].row = "live"
    /\ q.kind \in {"patch", "delete"} =>
          /\ conn[q.c].row = "live" /\ q.conn.ns = conn[q.c].ns
          /\ q.want # "unassigned" /\ q.conn.desired # "unassigned"
          /\ q.status.row # "gone"
          /\ q.status.phase \in Vacant => Bare(q.c)

WorkInv ==
    /\ work.pass # "unassigned" /\ Bare(work.c)
    /\ conn[work.c].row = IF work.pass = "deleted" /\ work.step = 2 THEN "gone" ELSE "live"
    /\ work.status.row = "live"
    /\ work.pass = "assigning" =>
          /\ work.ns = conn[work.c].ns /\ ns[work.ns].row = "live" /\ ns[work.ns].phase = "ready"
          /\ work.step = 2 => status[work.c].phase = "assigned"

RepInv ==
    rep.kind = "status" => /\ rep.phase # "assigning"
                           /\ rep.phase = "deleted" => Bare(rep.c)

SerialInv ==
    /\ Alone /\ NamespaceInv
    /\ \A c \in Connectors : ConnInv(c)
    /\ \A r \in Requests : req[r] # None => ReqInv(r)
    /\ work # None => WorkInv
    /\ rep # None => RepInv

IInv == TypeOK /\ RefsInv /\ CreateInv /\ PatchInv /\ (Undisturbed => SerialInv)

-----------------------------------------------------------------------------
(* Types.                                                                  *)

NsRow == [row : Rows, phase : NamespacePhases, seen : BOOLEAN]
DepRow == [row : Rows, conn : Connectors \cup {None}, ns : Namespaces \cup {None}]
Request == [kind : {"create", "patch", "delete"}, step : 1..2, c : Connectors,
            want : Desired, conn : ConnRow, status : StatusRow]
WorkRow == [pass : Passes, step : 1..2, c : Connectors, ns : Namespaces \cup {None},
            status : StatusRow]
ReportType == [kind : {"connect"}, phase : {"ready", "deleting"}]
                \cup [kind : {"status"}, c : Connectors, phase : Phases]

\* The type invariant with its nested record sets named.
LEMMA Typed ==
    TypeOK <=>
    /\ cluster \in [row : Rows, phase : {"disconnected", "ready", "deleting"}, account : BOOLEAN]
    /\ ns \in [Namespaces -> NsRow]
    /\ conn \in [Connectors -> ConnRow]
    /\ status \in [Connectors -> StatusRow]
    /\ dep \in [Deployments -> DepRow]
    /\ agent \in [nss : SUBSET Namespaces,
                  task : [Deployments -> {"none", "run", "stop", "remove"}]]
    /\ req \in [Requests -> {None} \cup Request]
    /\ work \in {None} \cup WorkRow
    /\ rep \in {None} \cup ReportType
    /\ unassign \in BOOLEAN
    /\ calls \in 0..MaxCalls /\ faults \in 0..MaxUpsets /\ races \in 0..MaxUpsets
  BY Zenon DEF TypeOK, NsRow, DepRow, Request, WorkRow, ReportType, Passes

\* The counters of overlaps and of faults stay within their bound.
LEMMA StartsType == TypeOK /\ Starts => races' \in 0..MaxUpsets
  BY BoundsAssumption DEF TypeOK, Starts, MoreUpsets

\* The same for a fault.
LEMMA UpsetType == TypeOK /\ MoreUpsets => faults + 1 \in 0..MaxUpsets
  BY BoundsAssumption DEF TypeOK, MoreUpsets

\* The writes of the two tables keep them typed: the status alone...
LEMMA SaveStatusType ==
    ASSUME TypeOK, NEW c \in Connectors, NEW t \in StatusRow, SaveStatus(c, t)
    PROVE  status' \in [Connectors -> StatusRow]
  BY Zenon DEF TypeOK, SaveStatus

\* ... the connector with its status...
LEMMA UpdateType ==
    ASSUME TypeOK, NEW c \in Connectors, NEW row \in ConnRow, NEW t \in StatusRow,
           Update(c, row, t)
    PROVE  conn' \in [Connectors -> ConnRow] /\ status' \in [Connectors -> StatusRow]
  <1>1. CASE conn[c].row = "live" /\ conn[c].ver = row.ver
    <2>1. conn' = [conn EXCEPT ![c].desired = row.desired, ![c].ver = @ + 1]
      BY Zenon, <1>1 DEF Update
    <2>2. status' = [status EXCEPT ![c] = [t EXCEPT !.row = "live"]]
      BY Zenon, <1>1 DEF Update
    <2>3. [t EXCEPT !.row = "live"] \in StatusRow
      BY Zenon DEF StatusRow, Rows
    <2> QED
      BY <2>1, <2>2, <2>3 DEF TypeOK, ConnRow
  <1>2. CASE ~(conn[c].row = "live" /\ conn[c].ver = row.ver)
    BY Zenon, <1>2 DEF Update, TypeOK
  <1> QED
    BY Zenon, <1>1, <1>2

\* ... and the namespaces of a deletion.
LEMMA DeleteNamespacesType ==
    ASSUME TypeOK, NEW S, DeleteNamespaces(S)
    PROVE  ns' \in [Namespaces -> NsRow]
  BY Typed DEF DeleteNamespaces, NsRow, NamespacePhases

\* What the phase machine of a namespace makes of "connect".
LEMMA ConnectPhase ==
    ASSUME NEW cp \in {"ready", "deleting"}, NEW p \in NamespacePhases,
           Permitted(namespaceEvents(cp), "connect", p)
    PROVE  /\ Perform(namespaceEvents(cp), "connect", p) \in {"ready", "deleting"}
           /\ p # "deleted"
  <1> DEFINE events == namespaceEvents(cp)
  <1> DEFINE e == CHOOSE x \in events : x[1] = "connect" /\ x[2] = p
  <1>1. e \in events /\ e[1] = "connect" /\ e[2] = p
    BY Zenon DEF Permitted
  <1>2. \A x \in events : x[1] = "connect" => x[3] \in {"ready", "deleting"} /\ x[2] # "deleted"
    BY DEF namespaceEvents
  <1>3. Perform(events, "connect", p) = e[3]
    BY Zenon DEF Perform
  <1> QED
    BY Zenon, <1>1, <1>2, <1>3

\* The phases a cluster can be in after its agent connected...
LEMMA ClusterConnect ==
    ASSUME NEW p \in {"disconnected", "ready", "deleting"}
    PROVE  Perform(clusterEvents, "connect", p) \in {"ready", "deleting"}
  <1> DEFINE e == CHOOSE x \in clusterEvents : x[1] = "connect" /\ x[2] = p
  <1> DEFINE w == <<"connect", p, IF p = "deleting" THEN "deleting" ELSE "ready">>
  <1>0. w \in clusterEvents
    BY Zenon DEF clusterEvents
  <1>1. \E x \in clusterEvents : x[1] = "connect" /\ x[2] = p
    BY Zenon, <1>0
  <1>2. e \in clusterEvents /\ e[1] = "connect"
    BY Zenon, <1>1
  <1>3. \A x \in clusterEvents : x[3] \in {"ready", "deleting"}
    BY DEF clusterEvents
  <1> QED
    BY Zenon, <1>2, <1>3 DEF Perform

\* ... and after it was deleted.
LEMMA ClusterDelete ==
    ASSUME NEW p \in {"disconnected", "ready", "deleting"}
    PROVE  Perform(clusterEvents, "delete", p) \in {"ready", "deleting"}
  <1> DEFINE e == CHOOSE x \in clusterEvents : x[1] = "delete" /\ x[2] = p
  <1> DEFINE w == <<"delete", p, "deleting">>
  <1>0. w \in clusterEvents
    BY Zenon DEF clusterEvents
  <1>1. \E x \in clusterEvents : x[1] = "delete" /\ x[2] = p
    BY Zenon, <1>0
  <1>2. e \in clusterEvents
    BY Zenon, <1>1
  <1>3. \A x \in clusterEvents : x[3] \in {"ready", "deleting"}
    BY DEF clusterEvents
  <1> QED
    BY Zenon, <1>2, <1>3 DEF Perform

\* What a report makes of a namespace.
LEMMA ReportedPhase ==
    ASSUME TypeOK, NEW cp \in {"ready", "deleting"}, NEW n \in Namespaces
    PROVE  /\ Reported(cp)[n] \in NsRow
           /\ Reported(cp)[n].row = ns[n].row
           /\ Reported(cp)[n].phase = "ready" => ns[n].phase = "ready" \/ n \in agent.nss
           /\ Reported(cp)[n].phase = "deleted" =>
                 ns[n].phase = "deleted" \/ n \notin agent.nss
  <1> DEFINE events == namespaceEvents(cp)
             connects == {m \in agent.nss \cap Live(ns) : Permitted(events, "connect", ns[m].phase)}
             missing == {m \in NamespacesWith("deleting") : ~Occupied(m)} \ agent.nss
  <1>1. Reported(cp)[n] =
            CASE n \in connects -> [ns[n] EXCEPT !.phase = Perform(events, "connect", @), !.seen = TRUE]
              [] n \in missing -> [ns[n] EXCEPT !.phase = "deleted"]
              [] OTHER -> ns[n]
    BY Zenon DEF Reported
  <1>2. ns[n] \in NsRow
    BY Zenon, Typed
  <1>3. CASE n \in connects
    <2>1. Permitted(events, "connect", ns[n].phase) /\ n \in agent.nss
      BY Zenon, <1>3
    <2>2. Perform(events, "connect", ns[n].phase) \in {"ready", "deleting"}
      BY Zenon, <1>2, <2>1, ConnectPhase DEF NsRow
    <2>3. Reported(cp)[n] = [ns[n] EXCEPT !.phase = Perform(events, "connect", @), !.seen = TRUE]
      BY Zenon, <1>1, <1>3
    <2> HIDE DEF events, connects, missing
    <2> QED
      BY Zenon, <1>2, <2>1, <2>2, <2>3 DEF NsRow, NamespacePhases
  <1>4. CASE n \notin connects /\ n \in missing
    <2>1. Reported(cp)[n] = [ns[n] EXCEPT !.phase = "deleted"] /\ n \notin agent.nss
      BY Zenon, <1>1, <1>4
    <2> HIDE DEF events, connects, missing
    <2> QED
      BY Zenon, <1>2, <2>1 DEF NsRow, NamespacePhases
  <1>5. CASE n \notin connects /\ n \notin missing
    <2>1. Reported(cp)[n] = ns[n]
      BY Zenon, <1>1, <1>5
    <2> QED
      BY Zenon, <1>2, <2>1
  <1> QED
    BY Zenon, <1>3, <1>4, <1>5

\* The request being served, as a record.
LEMMA ServingType ==
    ASSUME TypeOK, NEW r \in Requests, NEW K, NEW i, Serving(r, K, i)
    PROVE  req[r] \in Request /\ req[r].kind \in K /\ req[r].step = i
  BY Zenon, Typed DEF Serving

\* The worker's pass, while it is at step i of it.
LEMMA WorkingType ==
    ASSUME TypeOK, NEW p, NEW i, Working(p, i)
    PROVE  work \in WorkRow /\ work.pass = p /\ work.step = i
  BY Zenon, Typed DEF Working

\* The operations of getOperation, and the phases they start with.
LEMMA PatchPhase ==
    ASSUME NEW d \in Desired, NEW w \in Desired \ {"deleted"}
    PROVE  /\ ConnectorStartingPhase(getOperation(d, w)) \in Phases \ {"deleted"}
           /\ d # "deleted" /\ d # "unassigned" /\ w # "unassigned"
                 => ConnectorStartingPhase(getOperation(d, w)) # "assigning"
  BY Zenon DEF ConnectorStartingPhase, getOperation, Desired, Phases

\* A deletion starts in phase deleting.
LEMMA DeletePhase == ConnectorStartingPhase("delete") = "deleting"
  BY Zenon DEF ConnectorStartingPhase

\* What a PATCH and a DELETE keep of the request between their two writes.
LEMMA PatchedRequest ==
    ASSUME NEW q \in Request, NEW want \in Desired, NEW t \in StatusRow
    PROVE  LET p == [q EXCEPT !.step = 2, !.conn.desired = want, !.status = t]
           IN /\ p \in Request
              /\ p.kind = q.kind /\ p.step = 2 /\ p.c = q.c /\ p.want = q.want
              /\ p.conn.desired = want /\ p.conn.ver = q.conn.ver /\ p.conn.ns = q.conn.ns
              /\ p.status = t
  <1> DEFINE row == [q.conn EXCEPT !.desired = want]
             p == [q EXCEPT !.step = 2, !.conn.desired = want, !.status = t]
  <1>1. row \in ConnRow /\ row.desired = want /\ row.ver = q.conn.ver /\ row.ns = q.conn.ns
    BY Zenon DEF Request, ConnRow
  <1>2. p = [q EXCEPT !.step = 2, !.conn = row, !.status = t]
    BY Zenon DEF Request
  <1> HIDE DEF row, p
  <1>3. p \in Request /\ p.conn = row
    <2>1. [q EXCEPT !.step = 2] \in Request
      BY DEF Request
    <2>2. [[q EXCEPT !.step = 2] EXCEPT !.conn = row] \in Request
      BY Zenon, <1>1, <2>1 DEF Request
    <2>3. p = [[[q EXCEPT !.step = 2] EXCEPT !.conn = row] EXCEPT !.status = t]
      BY Zenon, <1>2 DEF Request
    <2> QED
      BY Zenon, <2>2, <2>3 DEF Request
  <1>4. p.kind = q.kind /\ p.step = 2 /\ p.c = q.c /\ p.want = q.want /\ p.status = t
    BY Zenon, <1>2 DEF Request
  <1> QED
    BY Zenon, <1>1, <1>3, <1>4 DEF p

\* A status that was read stays a status with another phase, with or without
\* its namespace.
LEMMA StatusOf ==
    ASSUME NEW t \in StatusRow, NEW phase \in Phases
    PROVE  /\ [t EXCEPT !.phase = phase] \in StatusRow
           /\ [t EXCEPT !.phase = phase].row = t.row
           /\ [t EXCEPT !.phase = phase].phase = phase
           /\ [t EXCEPT !.phase = phase, !.ns = None] \in StatusRow
           /\ [t EXCEPT !.phase = phase, !.ns = None].row = t.row
           /\ [t EXCEPT !.phase = phase, !.ns = None].phase = phase
  BY Zenon DEF StatusRow

\* The two outcomes of the first write of a PATCH and of a DELETE.
LEMMA PatchSaved ==
    ASSUME TypeOK, PatchInv, NEW r \in Requests, PatchSaveStatus(r)
    PROVE  LET q == req[r] IN
           /\ q \in Request /\ q.kind = "patch" /\ q.step = 1
           /\ UNCHANGED <<cluster, ns, conn, dep, agent, work, rep, config, races>>
           /\ \/ req' = [req EXCEPT ![r] = None] /\ status' = status
              \/ \E phase \in Phases :
                   /\ phase # "deleted"
                   /\ phase = "assigning" =>
                         \/ q.status.phase = "assigning"
                         \/ q.conn.desired = "unassigned" \/ q.want = "unassigned"
                   /\ \/ status' = status
                      \/ SaveStatus(q.c, [q.status EXCEPT !.phase = phase])
                   /\ req' = [req EXCEPT ![r] =
                                [q EXCEPT !.step = 2, !.conn.desired = q.want,
                                          !.status = [q.status EXCEPT !.phase = phase, !.ns = None]]]
  <1> DEFINE q == req[r]
             op == getOperation(q.conn.desired, q.want)
             phase == IF q.status.phase = "assigning" THEN "assigning" ELSE ConnectorStartingPhase(op)
  <1>1. q \in Request /\ q.kind = "patch" /\ q.step = 1
    BY ServingType DEF PatchSaveStatus
  <1>2. q # None /\ q.want # "deleted" /\ q.conn.desired # "deleted"
    BY Zenon, <1>1 DEF PatchSaveStatus, Serving, PatchInv
  <1>3. q.conn.desired \in Desired /\ q.want \in Desired
    BY Zenon, <1>1 DEF Request, ConnRow
  <1>4. /\ phase \in Phases /\ phase # "deleted"
        /\ phase = "assigning" => \/ q.status.phase = "assigning"
                                  \/ q.conn.desired = "unassigned" \/ q.want = "unassigned"
    <2>1. ConnectorStartingPhase(op) \in Phases \ {"deleted"}
      BY Zenon, <1>2, <1>3, PatchPhase
    <2>2. q.conn.desired # "unassigned" /\ q.want # "unassigned"
             => ConnectorStartingPhase(op) # "assigning"
      BY Zenon, <1>2, <1>3, PatchPhase
    <2> HIDE DEF op
    <2> QED
      BY Zenon, <2>1, <2>2 DEF Phases
  <1>5. UNCHANGED <<cluster, ns, conn, dep, agent, work, rep, config, races>>
    BY Zenon DEF PatchSaveStatus
  <1>6. CASE ValidateConnectorOperation(q.conn, op)
    <2>1. req' = [req EXCEPT ![r] =
                    [q EXCEPT !.step = 2, !.conn.desired = q.want,
                              !.status = [q.status EXCEPT !.phase = phase, !.ns = None]]]
      BY Zenon, <1>6 DEF PatchSaveStatus
    <2>2. \/ status' = status
          \/ SaveStatus(q.c, [q.status EXCEPT !.phase = phase])
      BY Zenon, <1>6 DEF PatchSaveStatus
    <2> HIDE DEF op, phase
    <2> QED
      BY Zenon, <1>1, <1>4, <1>5, <2>1, <2>2
  <1>7. CASE ~ValidateConnectorOperation(q.conn, op)
    BY Zenon, <1>1, <1>5, <1>7 DEF PatchSaveStatus
  <1> QED
    BY Zenon, <1>6, <1>7

\* What the first step of a deletion writes, and where it goes on.
LEMMA DeleteSaved ==
    ASSUME TypeOK, NEW r \in Requests, DeleteSaveStatus(r)
    PROVE  LET q == req[r]
               phase == IF q.conn.ns = None THEN "deleted" ELSE "deleting" IN
           /\ q \in Request /\ q.kind = "delete" /\ q.step = 1
           /\ UNCHANGED <<cluster, ns, conn, dep, agent, work, rep, config, races>>
           /\ \/ req' = [req EXCEPT ![r] = None] /\ status' = status
              \/ /\ SaveStatus(q.c, [q.status EXCEPT !.phase = phase])
                 /\ req' = [req EXCEPT ![r] = [q EXCEPT !.step = 2, !.conn.desired = "deleted",
                                                !.status = [q.status EXCEPT !.phase = phase]]]
  <1> DEFINE q == req[r]
             phase == IF q.conn.ns = None THEN "deleted" ELSE "deleting"
             proceeds == /\ ValidateConnectorOperation(q.conn, "delete")
                         /\ q.conn.ns # None => q.conn.desired # "deleted"
  <1>1. q \in Request /\ q.kind = "delete" /\ q.step = 1
    BY ServingType DEF DeleteSaveStatus
  <1>2. UNCHANGED <<cluster, ns, conn, dep, agent, work, rep, config, races>>
    BY Zenon DEF DeleteSaveStatus
  <1>3. CASE proceeds
    <2>1. /\ SaveStatus(q.c, [q.status EXCEPT !.phase = phase])
          /\ req' = [req EXCEPT ![r] = [q EXCEPT !.step = 2, !.conn.desired = "deleted",
                                         !.status.phase = phase]]
      BY Zenon, <1>3, DeletePhase DEF DeleteSaveStatus
    <2>2. [q EXCEPT !.step = 2, !.conn.desired = "deleted", !.status.phase = phase]
            = [q EXCEPT !.step = 2, !.conn.desired = "deleted",
                        !.status = [q.status EXCEPT !.phase = phase]]
      BY Zenon, <1>1 DEF Request
    <2> QED
      BY Zenon, <1>1, <1>2, <2>1, <2>2
  <1>4. CASE ~proceeds
    BY Zenon, <1>1, <1>2, <1>4 DEF DeleteSaveStatus
  <1> QED
    BY Zenon, <1>3, <1>4

\* A change of the desired state, of a phase, and of the row itself.
LEMMA RowOf ==
    ASSUME NEW row \in ConnRow, NEW d \in Desired, NEW x \in Rows
    PROVE  /\ [row EXCEPT !.desired = d, !.ver = @ + 1] \in ConnRow
           /\ [row EXCEPT !.ns = None, !.ver = @ + 1] \in ConnRow
           /\ [row EXCEPT !.row = x] \in ConnRow
  <1>1. row.ver + 1 \in Nat
    BY DEF ConnRow
  <1>2. [row EXCEPT !.desired = d, !.ver = @ + 1] \in ConnRow
    BY Zenon, <1>1 DEF ConnRow
  <1>3. [row EXCEPT !.ns = None, !.ver = @ + 1] \in ConnRow
    BY Zenon, <1>1 DEF ConnRow
  <1>4. [row EXCEPT !.row = x] \in ConnRow
    BY Zenon DEF ConnRow
  <1> QED
    BY Zenon, <1>2, <1>3, <1>4

\* A status row that is removed is still one.
LEMMA StatusRowOf ==
    ASSUME NEW t \in StatusRow, NEW x \in Rows
    PROVE  [t EXCEPT !.row = x] \in StatusRow
  BY Zenon DEF StatusRow

\* Requests of the right form.
LEMMA NewRequest ==
    ASSUME TypeOK, NEW r \in Requests, NEW q \in {None} \cup Request
    PROVE  /\ [req EXCEPT ![r] = q] \in [Requests -> {None} \cup Request]
           /\ [req EXCEPT ![r] = q][r] = q
           /\ \A x \in Requests \ {r} : [req EXCEPT ![r] = q][x] = req[x]
  BY Zenon, Typed

\* A request that has read its connector is typed.
LEMMA ReadRequest ==
    ASSUME TypeOK, NEW kind \in {"create", "patch", "delete"}, NEW c \in Connectors,
           NEW want \in Desired, NEW row \in ConnRow, NEW t \in StatusRow
    PROVE  [kind |-> kind, step |-> 1, c |-> c, want |-> want, conn |-> row, status |-> t]
             \in Request
  BY DEF Request

\* The steps of the cluster and its namespaces.
LEMMA TypeClusters ==
    ASSUME TypeOK, RefsInv,
           \/ \E n \in Namespaces : CreateCluster(n) \/ CreateNamespace(n) \/ DeleteNamespace(n)
           \/ DeleteCluster \/ NamespaceManager \/ ClusterManager
    PROVE  TypeOK'
  <1> USE DEF config, open, rows
  <1>r. Starts => races' \in 0..MaxUpsets
    BY Zenon, StartsType
  <1>f. MoreUpsets => faults + 1 \in 0..MaxUpsets
    BY Zenon, UpsetType
  <1>n. NewNamespace \in NsRow
    BY Zenon DEF NewNamespace, NsRow, Rows, NamespacePhases
  <1>ns. ns' \in [Namespaces -> NsRow] <=>
         ns' \in [Namespaces -> [row : Rows, phase : NamespacePhases, seen : BOOLEAN]]
    BY Zenon DEF NsRow
  <1>1. ASSUME NEW n \in Namespaces, CreateCluster(n) PROVE TypeOK'
    <2>1. cluster' \in [row : Rows, phase : {"disconnected", "ready", "deleting"}, account : BOOLEAN]
      <3>1. \A b \in BOOLEAN : [row |-> "live", phase |-> "disconnected", account |-> b]
              \in [row : Rows, phase : {"disconnected", "ready", "deleting"}, account : BOOLEAN]
        BY Zenon DEF Rows
      <3> QED
        BY Zenon, <1>1, <3>1 DEF CreateCluster
    <2>2. ns' \in [Namespaces -> NsRow]
      BY Zenon, <1>1, <1>n, Typed DEF CreateCluster
    <2>3. faults' \in 0..MaxUpsets /\ races' \in 0..MaxUpsets
      BY Zenon, <1>1, <1>f, <1>r DEF CreateCluster, TypeOK
    <2> QED
      BY Zenon, <1>1, <2>1, <2>2, <2>3, <1>ns DEF CreateCluster, TypeOK
  <1>2. ASSUME NEW n \in Namespaces, CreateNamespace(n) PROVE TypeOK'
    <2>1. ns' \in [Namespaces -> NsRow]
      BY Zenon, <1>2, <1>n, Typed DEF CreateNamespace
    <2> QED
      BY ZenonT(40), <1>2, <2>1, <1>r, <1>ns DEF CreateNamespace, TypeOK
  <1>3. ASSUME NEW n \in Namespaces, DeleteNamespace(n) PROVE TypeOK'
    BY ZenonT(40), <1>3, <1>r, <1>ns, DeleteNamespacesType DEF DeleteNamespace, TypeOK
  <1>4. CASE DeleteCluster
    <2>1. Perform(clusterEvents, "delete", cluster.phase) \in {"ready", "deleting"}
      BY Zenon, ClusterDelete DEF TypeOK
    <2> QED
      BY Zenon, <1>4, <1>r, <2>1 DEF DeleteCluster, TypeOK
  <1>5. ASSUME NEW S \in SUBSET Namespaces, ReconcileExpiredNamespaces(S) PROVE TypeOK'
    BY ZenonT(40), <1>5, <1>r, <1>ns, DeleteNamespacesType DEF ReconcileExpiredNamespaces, TypeOK
  <1>6. CASE ReconcileUnusedDeletingNamespaces
    <2>1. ns' \in [Namespaces -> NsRow]
      BY <1>6, Typed DEF ReconcileUnusedDeletingNamespaces, NsRow, NamespacePhases
    <2> QED
      BY ZenonT(40), <1>6, <2>1, <1>r, <1>ns DEF ReconcileUnusedDeletingNamespaces, TypeOK
  <1>7. CASE ReconcileUsedDeletingNamespaces
    <2>1. PICK doomed : deleteNamespaceConnectors(doomed)
      BY Zenon, <1>7 DEF ReconcileUsedDeletingNamespaces
    <2>2. conn' \in [Connectors -> ConnRow]
      <3> DEFINE state == IF unassign THEN "unassigned" ELSE "deleted"
      <3>1. state \in Desired
        BY Zenon DEF Desired
      <3>2. conn' = [c \in Connectors |->
                       IF c \in doomed THEN [conn[c] EXCEPT !.desired = state, !.ver = @ + 1]
                                       ELSE conn[c]]
        BY Zenon, <2>1 DEF deleteNamespaceConnectors
      <3>3. \A c \in Connectors : /\ conn[c] \in ConnRow
                                  /\ [conn[c] EXCEPT !.desired = state, !.ver = @ + 1] \in ConnRow
        BY Zenon, <3>1, RowOf, Typed DEF Rows
      <3> HIDE DEF state
      <3> QED
        BY Zenon, <3>2, <3>3
    <2>3. status' \in [Connectors -> StatusRow]
      <3>1. "deleting" \in Phases
        BY Zenon DEF Phases
      <3>2. \A c \in Connectors : /\ status[c] \in StatusRow
                                  /\ [status[c] EXCEPT !.phase = "deleting"] \in StatusRow
        BY Zenon, <3>1, StatusOf, Typed
      <3> QED
        BY Zenon, <2>1, <3>2 DEF deleteNamespaceConnectors
    <2> QED
      BY Zenon, <1>7, <2>2, <2>3, <1>r DEF ReconcileUsedDeletingNamespaces, TypeOK
  <1>8. CASE ReconcileDeletedNamespaces
    <2>1. ns' \in [Namespaces -> NsRow]
      BY <1>8, Typed DEF ReconcileDeletedNamespaces, NsRow, Rows
    <2> QED
      BY ZenonT(40), <1>8, <2>1, <1>r, <1>ns DEF ReconcileDeletedNamespaces, TypeOK
  <1>9. CASE ReconcileEmptyDeletingClusters
    <2>1. PICK removed \in BOOLEAN :
              /\ ~removed => MoreUpsets
              /\ cluster' = [cluster EXCEPT !.row = "gone", !.account = ~removed]
              /\ faults' = IF removed THEN faults ELSE faults + 1
      BY Zenon, <1>9 DEF ReconcileEmptyDeletingClusters
    <2>2. cluster' \in [row : Rows, phase : {"disconnected", "ready", "deleting"}, account : BOOLEAN]
      <3>1. (~removed) \in BOOLEAN
        BY Zenon
      <3> QED
        BY Zenon, <2>1, <3>1 DEF TypeOK, Rows
    <2>3. faults' \in 0..MaxUpsets
      BY Zenon, <2>1, <1>f DEF TypeOK
    <2> QED
      BY Zenon, <1>9, <2>2, <2>3, <1>r DEF ReconcileEmptyDeletingClusters, TypeOK
  <1>10. CASE ReconcileNonEmptyDeletingClusters
    BY Zenon, <1>10, <1>r, <1>ns, DeleteNamespacesType DEF ReconcileNonEmptyDeletingClusters, TypeOK
  <1> QED
    BY Zenon, <1>1, <1>2, <1>3, <1>4, <1>5, <1>6, <1>7, <1>8, <1>9, <1>10
       DEF NamespaceManager, ClusterManager

\* The steps of the requests keep the types.
LEMMA TypeRequests ==
    ASSUME TypeOK, PatchInv,
           \/ \E c \in Connectors, r \in Requests :
                \/ \E n \in Namespaces \cup {None} : Create(r, c, n)
                \/ \E want \in Desired : Patch(r, c, want)
                \/ Delete(r, c)
           \/ \E c \in Connectors : ForceDelete(c)
           \/ \E r \in Requests : Serve(r)
    PROVE  TypeOK'
  <1> USE DEF config, open, rows
  <1>r. Starts => races' \in 0..MaxUpsets
    BY Zenon, StartsType
  <1>q. req' \in [Requests -> {None} \cup Request] <=>
        req' \in [Requests -> {None} \cup
                   [kind : {"create", "patch", "delete"}, step : 1..2, c : Connectors,
                    want : Desired, conn : ConnRow, status : StatusRow]]
    BY Zenon DEF Request
  <1>1. ASSUME NEW c \in Connectors, NEW r \in Requests, NEW n \in Namespaces \cup {None},
               Create(r, c, n)
        PROVE  TypeOK'
    <2>1. NewConnector(n) \in ConnRow
      BY Zenon DEF NewConnector, ConnRow, Rows, Desired
    <2>2. status[c] \in StatusRow /\ "ready" \in Desired
      BY Zenon DEF TypeOK, Desired
    <2>3. req' \in [Requests -> {None} \cup Request]
      BY <1>1, <2>1, <2>2, ReadRequest, NewRequest DEF Create
    <2> QED
      BY ZenonT(40), <1>1, <2>3, <1>r, <1>q DEF Create, TypeOK
  <1>2. ASSUME NEW kind \in {"patch", "delete"}, NEW c \in Connectors, NEW r \in Requests,
               NEW want \in Desired, ReadConnector(r, kind, c, want)
        PROVE  TypeOK'
    <2>1. conn[c] \in ConnRow /\ status[c] \in StatusRow
      BY Zenon DEF TypeOK
    <2>2. req' \in [Requests -> {None} \cup Request]
      <3>1. kind \in {"create", "patch", "delete"}
        BY Zenon
      <3> DEFINE q == [kind |-> kind, step |-> 1, c |-> c, want |-> want,
                       conn |-> conn[c], status |-> status[c]]
      <3>2. q \in Request
        BY Zenon, <2>1, <3>1, ReadRequest
      <3>3. req' = [req EXCEPT ![r] = q]
        BY Zenon, <1>2 DEF ReadConnector
      <3> HIDE DEF q
      <3> QED
        BY Zenon, <3>2, <3>3, NewRequest
    <2>3. calls' \in 0..MaxCalls
      <3>1. calls \in 0..MaxCalls
        BY Zenon DEF TypeOK
      <3>2. calls < MaxCalls /\ calls' = calls + 1
        BY Zenon, <1>2 DEF ReadConnector
      <3> QED
        BY <3>1, <3>2, BoundsAssumption
    <2> QED
      BY ZenonT(40), <1>2, <2>2, <2>3, <1>r, <1>q DEF ReadConnector, TypeOK
  <1>3. ASSUME NEW c \in Connectors, ForceDelete(c) PROVE TypeOK'
    <2>1. dep' \in [Deployments -> DepRow]
      BY <1>3, Typed DEF ForceDelete, DeploymentsOf, Live, DepRow, Rows
    <2>2. conn' \in [Connectors -> ConnRow] /\ status' \in [Connectors -> StatusRow]
      <3>1. conn[c] \in ConnRow /\ status[c] \in StatusRow /\ "gone" \in Rows
        BY Zenon, Typed DEF Rows
      <3>2. [conn[c] EXCEPT !.row = "gone"] \in ConnRow
        BY Zenon, <3>1, RowOf DEF Desired
      <3>3. [status[c] EXCEPT !.row = IF @ = "live" THEN "gone" ELSE @] \in StatusRow
        BY Zenon, <3>1 DEF StatusRow
      <3>4. CASE conn[c].row = "live"
        <4>1. /\ conn' = [conn EXCEPT ![c] = [conn[c] EXCEPT !.row = "gone"]]
              /\ status' = [status EXCEPT ![c] =
                              [status[c] EXCEPT !.row = IF @ = "live" THEN "gone" ELSE @]]
          BY Zenon, <1>3, <3>4, Typed DEF ForceDelete
        <4> QED
          BY Zenon, <3>2, <3>3, <4>1, Typed
      <3>5. CASE conn[c].row # "live"
        BY Zenon, <1>3, <3>5, Typed DEF ForceDelete
      <3> QED
        BY Zenon, <3>4, <3>5
    <2> QED
      BY Zenon, <1>3, <2>1, <2>2, <1>r DEF ForceDelete, TypeOK, DepRow
  <1>4. ASSUME NEW r \in Requests, CreateInsert(r) PROVE TypeOK'
    <2>1. req[r] \in Request
      BY Zenon, <1>4, ServingType DEF CreateInsert
    <2>2. [req[r] EXCEPT !.step = 2] \in Request
      BY <2>1 DEF Request
    <2>3. req' = [req EXCEPT ![r] = [req[r] EXCEPT !.step = 2]]
      BY Zenon, <1>4, Typed DEF CreateInsert
    <2>4. req' \in [Requests -> {None} \cup Request]
      BY Zenon, <2>2, <2>3, NewRequest
    <2>5. conn' \in [Connectors -> ConnRow]
      BY Zenon, <1>4, <2>1, Typed DEF CreateInsert, Request
    <2> QED
      BY Zenon, <1>4, <2>4, <2>5, <1>q DEF CreateInsert, TypeOK
  <1>n. \A r \in Requests : [req EXCEPT ![r] = None] \in [Requests -> {None} \cup Request]
    BY Zenon, NewRequest
  <1>5. ASSUME NEW r \in Requests, CreateStatus(r) PROVE TypeOK'
    <2>1. req[r] \in Request
      BY Zenon, <1>5, ServingType DEF CreateStatus
    <2>2. [row |-> "live", phase |-> "assigning", ns |-> None] \in StatusRow
      BY Zenon DEF StatusRow, Rows, Phases
    <2>3. status' \in [Connectors -> StatusRow]
      BY ZenonT(40), <1>5, <2>1, <2>2, Typed DEF CreateStatus
    <2> QED
      BY ZenonT(40), <1>5, <2>3, <1>n, <1>q DEF CreateStatus, TypeOK
  <1>6. ASSUME NEW r \in Requests, PatchSaveStatus(r) \/ DeleteSaveStatus(r) PROVE TypeOK'
    <2> DEFINE q == req[r]
    <2>1. q \in Request /\ q.c \in Connectors /\ q.status \in StatusRow /\ q.want \in Desired
      BY Zenon, <1>6, ServingType DEF PatchSaveStatus, DeleteSaveStatus, Request
    <2>2. /\ UNCHANGED <<cluster, ns, conn, dep, agent, work, rep, config, races>>
          /\ \/ req' = [req EXCEPT ![r] = None] /\ status' = status
             \/ \E t \in StatusRow, u \in StatusRow, want \in Desired :
                  /\ status' = status \/ SaveStatus(q.c, u)
                  /\ req' = [req EXCEPT ![r] = [q EXCEPT !.step = 2, !.conn.desired = want,
                                                          !.status = t]]
      <3>1. CASE PatchSaveStatus(r)
        <4>1. CASE req' = [req EXCEPT ![r] = None] /\ status' = status
          BY Zenon, <3>1, <4>1, PatchSaved
        <4>2. CASE ~(req' = [req EXCEPT ![r] = None] /\ status' = status)
          <5>1. PICK phase \in Phases :
                   /\ \/ status' = status
                      \/ SaveStatus(q.c, [q.status EXCEPT !.phase = phase])
                   /\ req' = [req EXCEPT ![r] =
                                [q EXCEPT !.step = 2, !.conn.desired = q.want,
                                          !.status = [q.status EXCEPT !.phase = phase, !.ns = None]]]
            BY Zenon, <3>1, <4>2, PatchSaved
          <5> DEFINE t == [q.status EXCEPT !.phase = phase, !.ns = None]
                     u == [q.status EXCEPT !.phase = phase]
          <5>2. t \in StatusRow /\ u \in StatusRow
            BY Zenon, <2>1, StatusOf
          <5>3. /\ status' = status \/ SaveStatus(q.c, u)
                /\ req' = [req EXCEPT ![r] = [q EXCEPT !.step = 2, !.conn.desired = q.want,
                                                        !.status = t]]
            BY Zenon, <5>1
          <5>4. UNCHANGED <<cluster, ns, conn, dep, agent, work, rep, config, races>>
            BY Zenon, <3>1, PatchSaved
          <5> HIDE DEF t, u, q
          <5> QED
            BY Zenon, <2>1, <5>2, <5>3, <5>4
        <4> QED
          BY Zenon, <4>1, <4>2
      <3>2. CASE DeleteSaveStatus(r)
        <4>1. "deleted" \in Phases /\ "deleting" \in Phases /\ "deleted" \in Desired
          BY Zenon DEF Phases, Desired
        <4> QED
          <5> DEFINE phase == IF q.conn.ns = None THEN "deleted" ELSE "deleting"
                     u == [q.status EXCEPT !.phase = phase]
          <5>1. u \in StatusRow
            BY Zenon, <2>1, <4>1, StatusOf
          <5>2. /\ UNCHANGED <<cluster, ns, conn, dep, agent, work, rep, config, races>>
                /\ \/ req' = [req EXCEPT ![r] = None] /\ status' = status
                   \/ /\ SaveStatus(q.c, u)
                      /\ req' = [req EXCEPT ![r] = [q EXCEPT !.step = 2, !.conn.desired = "deleted",
                                                     !.status = u]]
            BY Zenon, <3>2, DeleteSaved
          <5> HIDE DEF u, q
          <5> QED
            BY Zenon, <4>1, <5>1, <5>2
      <3> QED
        BY Zenon, <1>6, <3>1, <3>2
    <2>3. req' \in [Requests -> {None} \cup Request]
      <3>1. CASE req' = [req EXCEPT ![r] = None]
        BY Zenon, <3>1, <1>n
      <3>2. CASE req' # [req EXCEPT ![r] = None]
        <4>1. PICK t \in StatusRow, want \in Desired :
                 req' = [req EXCEPT ![r] = [q EXCEPT !.step = 2, !.conn.desired = want, !.status = t]]
          BY Zenon, <2>2, <3>2
        <4>2. [q EXCEPT !.step = 2, !.conn.desired = want, !.status = t] \in Request
          BY Zenon, <2>1, PatchedRequest
        <4> HIDE DEF q
        <4> QED
          BY Zenon, <4>1, <4>2, NewRequest
      <3> QED
        BY Zenon, <3>1, <3>2
    <2>4. status' \in [Connectors -> StatusRow]
      <3> HIDE DEF q
      <3> QED
        BY Zenon, <2>1, <2>2, SaveStatusType, Typed
    <2> QED
      BY ZenonT(40), <2>2, <2>3, <2>4, <1>q DEF TypeOK
  <1>7. ASSUME NEW r \in Requests, UpdateConnector(r) PROVE TypeOK'
    <2>1. req[r] \in Request /\ req[r].c \in Connectors /\ req[r].conn \in ConnRow
            /\ req[r].status \in StatusRow
      BY Zenon, <1>7, ServingType DEF UpdateConnector, Request
    <2>2. conn' \in [Connectors -> ConnRow] /\ status' \in [Connectors -> StatusRow]
      BY Zenon, <1>7, <2>1, UpdateType DEF UpdateConnector
    <2> QED
      BY ZenonT(40), <1>7, <2>2, <1>n, <1>q DEF UpdateConnector, TypeOK
  <1>8. "deleted" \in Desired
    BY Zenon DEF Desired
  <1> QED
    BY Zenon, <1>1, <1>2, <1>3, <1>4, <1>5, <1>6, <1>7, <1>8 DEF Patch, Delete, Serve

\* The steps of the connectors worker keep the types.
LEMMA TypeWorkers ==
    ASSUME TypeOK,
           \/ \E pass \in Passes, c \in Connectors : Reconcile(pass, c)
           \/ Work \/ CleanupDeployments \/ Crash
    PROVE  TypeOK'
  <1> USE DEF config, open, rows
  <1>r. Starts => races' \in 0..MaxUpsets
    BY Zenon, StartsType
  <1>w. work' = None \/ work' \in WorkRow =>
        (work' = None \/ work' \in [pass : {"assigning", "unassigned", "deleting", "deleted"},
                                step : 1..2, c : Connectors, ns : Namespaces \cup {None},
                                status : StatusRow])
    BY Zenon DEF WorkRow, Passes
  <1>s. work \in WorkRow => [work EXCEPT !.step = 2] \in WorkRow
    BY DEF WorkRow
  <1>g. "gone" \in Rows /\ "deleted" \in Desired
    BY Zenon DEF Rows, Desired
  <1>p. {"assigning", "assigned", "deleted"} \subseteq Phases /\ "live" \in Rows
    BY Zenon DEF Phases, Rows
  <1>1. ASSUME NEW pass \in Passes, NEW c \in Connectors, Reconcile(pass, c) PROVE TypeOK'
    <2>1. conn[c].ns \in Namespaces \cup {None} /\ status[c] \in StatusRow
      BY Zenon DEF TypeOK, ConnRow
    <2>2. [pass |-> pass, step |-> 1, c |-> c, ns |-> conn[c].ns, status |-> status[c]] \in WorkRow
      BY <2>1 DEF WorkRow
    <2> QED
      BY Zenon, <1>1, <2>2, <1>r, <1>w DEF Reconcile, TypeOK
  <1>2. CASE AssignStatus
    <2>1. work \in WorkRow /\ work.c \in Connectors /\ work.ns \in Namespaces \cup {None}
      BY Zenon, <1>2, WorkingType DEF AssignStatus, WorkRow
    <2>2. [row |-> "live", phase |-> "assigned", ns |-> work.ns] \in StatusRow
      BY Zenon, <2>1, <1>p DEF StatusRow
    <2>3. status' \in [Connectors -> StatusRow]
      BY Zenon, <1>2, <2>1, <2>2, SaveStatusType DEF AssignStatus
    <2> QED
      BY Zenon, <1>2, <2>1, <2>3, <1>s, <1>w DEF AssignStatus, TypeOK
  <1>3. CASE SaveDeployment
    <2>1. work \in WorkRow /\ work.c \in Connectors /\ work.ns \in Namespaces \cup {None}
      BY Zenon, <1>3, WorkingType DEF SaveDeployment, WorkRow
    <2>2. [row |-> "live", conn |-> work.c, ns |-> work.ns] \in DepRow
      BY Zenon, <2>1, <1>p DEF DepRow
    <2>3. dep' \in [Deployments -> DepRow]
      BY Zenon, <1>3, <2>2, Typed DEF SaveDeployment
    <2> QED
      BY Zenon, <1>3, <2>3, <1>w DEF SaveDeployment, TypeOK, DepRow
  <1>4. CASE ClearNamespace
    <2>1. work \in WorkRow /\ work.c \in Connectors
      BY Zenon, <1>4, WorkingType DEF ClearNamespace, WorkRow
    <2>2. conn[work.c] \in ConnRow /\ [conn[work.c] EXCEPT !.ns = None, !.ver = @ + 1] \in ConnRow
      BY Zenon, <2>1, <1>g, RowOf, Typed
    <2>3. [conn EXCEPT ![work.c].ns = None, ![work.c].ver = @ + 1]
            = [conn EXCEPT ![work.c] = [conn[work.c] EXCEPT !.ns = None, !.ver = @ + 1]]
      BY Zenon, <2>1, Typed
    <2>4. conn' \in [Connectors -> ConnRow]
      BY Zenon, <1>4, <2>2, <2>3, Typed DEF ClearNamespace
    <2> QED
      BY Zenon, <1>4, <2>1, <2>4, <1>s, <1>w DEF ClearNamespace, TypeOK
  <1>5. CASE ClearedStatus
    <2>1. work \in WorkRow /\ work.c \in Connectors /\ work.status \in StatusRow
      BY Zenon, <1>5, WorkingType DEF ClearedStatus, WorkRow
    <2>2. /\ [work.status EXCEPT !.phase = "assigning", !.ns = None] \in StatusRow
          /\ [work.status EXCEPT !.phase = "deleted"] \in StatusRow
      BY Zenon, <2>1, <1>p, StatusOf
    <2>3. status' \in [Connectors -> StatusRow]
      BY Zenon, <1>5, <2>1, <2>2, SaveStatusType DEF ClearedStatus
    <2> QED
      BY Zenon, <1>5, <2>3, <1>w DEF ClearedStatus, TypeOK
  <1>6. CASE DeleteConnector
    <2>1. work \in WorkRow /\ work.c \in Connectors
      BY Zenon, <1>6, WorkingType DEF DeleteConnector, WorkRow
    <2>2. [conn[work.c] EXCEPT !.row = "gone"] \in ConnRow
      BY Zenon, <2>1, <1>g, RowOf, Typed
    <2>3. conn' \in [Connectors -> ConnRow]
      BY Zenon, <1>6, <2>1, <2>2, Typed DEF DeleteConnector
    <2>4. work' = None \/ work' \in WorkRow
      BY Zenon, <1>6, <2>1, <1>s DEF DeleteConnector
    <2> QED
      BY Zenon, <1>6, <2>3, <2>4, <1>w DEF DeleteConnector, TypeOK
  <1>7. CASE DeleteStatus
    <2>1. work \in WorkRow /\ work.c \in Connectors
      BY Zenon, <1>7, WorkingType DEF DeleteStatus, WorkRow
    <2>2. [status[work.c] EXCEPT !.row = "gone"] \in StatusRow
      BY Zenon, <2>1, <1>g, StatusRowOf, Typed
    <2>3. status' \in [Connectors -> StatusRow]
      BY Zenon, <1>7, <2>1, <2>2, Typed DEF DeleteStatus
    <2> QED
      BY Zenon, <1>7, <2>3, <1>w DEF DeleteStatus, TypeOK
  <1>8. CASE CleanupDeployments
    <2>1. dep' \in [Deployments -> DepRow]
      BY <1>8, <1>g, Typed DEF CleanupDeployments, DepRow
    <2> QED
      BY Zenon, <1>8, <2>1, <1>r DEF CleanupDeployments, TypeOK, DepRow
  <1>9. CASE Crash
    <2>1. faults' \in 0..MaxUpsets
      BY Zenon, <1>9, UpsetType DEF Crash
    <2>2. req' \in [Requests -> {None} \cup Request]
      BY Zenon, <1>9, NewRequest, Typed DEF Crash
    <2>3. (work' = None \/ work' = work) /\ (rep' = None \/ rep' = rep)
      BY Zenon, <1>9 DEF Crash
    <2>4. UNCHANGED <<cluster, ns, conn, status, dep, agent, unassign, calls, races>>
      BY Zenon, <1>9 DEF Crash
    <2> QED
      BY Zenon, <2>1, <2>2, <2>3, <2>4 DEF TypeOK, Request
  <1> QED
    BY Zenon, <1>1, <1>2, <1>3, <1>4, <1>5, <1>6, <1>7, <1>8, <1>9 DEF Work

\* The steps of the agent and of the handlers that answer it keep the types.
LEMMA TypeAgent ==
    ASSUME TypeOK, RefsInv, Agent \/ Answer
    PROVE  TypeOK'
  <1> USE DEF config, open, rows
  <1>r. Starts => races' \in 0..MaxUpsets
    BY Zenon, StartsType
  <1>1. CASE AgentSync
    <2> DEFINE task == [d \in Deployments |->
                   IF d \in Listed THEN Task(conn[dep[d].conn].desired) ELSE "none"]
               nss == {n \in Live(ns) :
                  \/ ns[n].phase \in {"disconnected", "ready"}
                  \/ n \in agent.nss /\ \E d \in Listed : dep[d].ns = n}
    <2>1. \A d \in Listed : Task(conn[dep[d].conn].desired) \in {"run", "stop", "remove"}
      <3>1. \A d \in Listed : dep[d].conn \in Connectors
        BY Zenon DEF Listed, Live, RefsInv, TypeOK
      <3>2. \A c \in Connectors : conn[c].desired \in Desired
        BY Zenon DEF TypeOK, ConnRow
      <3>3. \A w \in Desired : Task(w) \in {"run", "stop", "remove"}
        BY Zenon DEF Task, Desired
      <3> QED
        BY Zenon, <3>1, <3>2, <3>3
    <2>2. task \in [Deployments -> {"none", "run", "stop", "remove"}]
      BY Zenon, <2>1
    <2>3. nss \in SUBSET Namespaces
      BY Zenon DEF Live, TypeOK
    <2>4. agent' = [nss |-> nss, task |-> task]
      BY Zenon, <1>1 DEF AgentSync
    <2> HIDE DEF task, nss
    <2>5. agent' \in [nss : SUBSET Namespaces,
                      task : [Deployments -> {"none", "run", "stop", "remove"}]]
      BY Zenon, <2>2, <2>3, <2>4
    <2> QED
      BY Zenon, <1>1, <2>5, <1>r DEF AgentSync, TypeOK
  <1>2. CASE ReportCluster
    <2>1. Perform(clusterEvents, "connect", cluster.phase) \in {"ready", "deleting"}
      BY Zenon, ClusterConnect DEF TypeOK
    <2>2. rep' \in [kind : {"connect"}, phase : {"ready", "deleting"}]
      BY Zenon, <1>2, <2>1 DEF ReportCluster
    <2> QED
      BY Zenon, <1>2, <2>2, <1>r DEF ReportCluster, TypeOK
  <1>3. ASSUME NEW d \in Deployments, NEW phase \in Phases, ReportDeployment(d, phase)
        PROVE  TypeOK'
    <2>1. dep' \in [Deployments -> DepRow]
      BY <1>3, Typed DEF ReportDeployment, DepRow, Rows
    <2>2. dep[d].conn \in Connectors
      BY Zenon, <1>3 DEF ReportDeployment, RefsInv
    <2>3. rep' \in [kind : {"status"}, c : Connectors, phase : Phases]
      BY Zenon, <1>3, <2>2 DEF ReportDeployment
    <2> QED
      BY Zenon, <1>3, <2>1, <2>3, <1>r DEF ReportDeployment, TypeOK, DepRow
  <1>4. ASSUME NEW n \in Namespaces, ReportNamespaceDeleted(n) PROVE TypeOK'
    <2>1. [ns[n] EXCEPT !.phase = "deleted", !.seen = TRUE] \in NsRow
      <3>1. TRUE \in BOOLEAN /\ "deleted" \in NamespacePhases /\ ns[n] \in NsRow
        BY Zenon, Typed DEF NamespacePhases
      <3> QED
        BY Zenon, <3>1 DEF NsRow
    <2>2. ns' = [ns EXCEPT ![n] = [ns[n] EXCEPT !.phase = "deleted", !.seen = TRUE]]
      BY Zenon, <1>4, Typed DEF ReportNamespaceDeleted
    <2>3. ns' \in [Namespaces -> NsRow]
      BY Zenon, <2>1, <2>2, Typed
    <2> QED
      BY Zenon, <1>4, <2>3, <1>r DEF ReportNamespaceDeleted, TypeOK, NsRow
  <1>5. CASE ReportPhase
    <2>1. rep.c \in Connectors /\ rep.phase \in Phases
      BY Zenon, <1>5, Typed DEF ReportPhase, ReportType
    <2>2. [status[rep.c] EXCEPT !.phase = rep.phase] \in StatusRow
      BY Zenon, <2>1, StatusOf, Typed
    <2>3. status' \in [Connectors -> StatusRow]
      BY Zenon, <1>5, <2>1, <2>2, Typed DEF ReportPhase
    <2> QED
      BY Zenon, <1>5, <2>3 DEF ReportPhase, TypeOK
  <1>6. CASE ReportNamespaces
    <2>1. rep.phase \in {"ready", "deleting"}
      BY Zenon, <1>6, Typed DEF ReportNamespaces, ReportType
    <2>2. Reported(rep.phase) \in [Namespaces -> NsRow]
      <3>1. \A n \in Namespaces : Reported(rep.phase)[n] \in NsRow
        BY Zenon, <2>1, ReportedPhase
      <3>2. Reported(rep.phase) = [n \in Namespaces |-> Reported(rep.phase)[n]]
        BY Zenon DEF Reported
      <3> QED
        BY Zenon, <3>1, <3>2
    <2>3. ns' \in [Namespaces -> NsRow]
      BY Zenon, <1>6, <2>2, Typed DEF ReportNamespaces
    <2>4. cluster' \in [row : Rows, phase : {"disconnected", "ready", "deleting"}, account : BOOLEAN]
      BY <1>6, <2>1 DEF ReportNamespaces, TypeOK
    <2> QED
      BY Zenon, <1>6, <2>3, <2>4 DEF ReportNamespaces, TypeOK, NsRow
  <1> QED
    BY Zenon, <1>1, <1>2, <1>3, <1>4, <1>5, <1>6 DEF Agent, Answer

\* Every step keeps the types.
LEMMA TypeStep ==
    ASSUME TypeOK, RefsInv, PatchInv, [Next]_vars
    PROVE  TypeOK'
  <1>1. CASE Next
    BY Zenon, <1>1, TypeClusters, TypeRequests, TypeWorkers, TypeAgent DEF Next, User
  <1>2. CASE UNCHANGED vars
    BY Zenon, <1>2 DEF vars, TypeOK
  <1> QED
    BY Zenon, <1>1, <1>2

-----------------------------------------------------------------------------
(* Who writes what.                                                        *)

WritesConn ==
    \/ ReconcileUsedDeletingNamespaces \/ ClearNamespace \/ DeleteConnector
    \/ \E r \in Requests : CreateInsert(r) \/ UpdateConnector(r)
    \/ \E c \in Connectors : ForceDelete(c)

WritesDep ==
    \/ SaveDeployment \/ CleanupDeployments
    \/ \E c \in Connectors : ForceDelete(c)
    \/ \E d \in Deployments, phase \in Phases : ReportDeployment(d, phase)

WritesReq ==
    \/ \E c \in Connectors, r \in Requests :
         \/ \E n \in Namespaces \cup {None} : Create(r, c, n)
         \/ \E want \in Desired : Patch(r, c, want)
         \/ Delete(r, c)
    \/ \E r \in Requests : Serve(r)
    \/ Crash

\* Every other step leaves the rows, the deployments, the requests alone.
LEMMA Writers ==
    ASSUME [Next]_vars
    PROVE  /\ WritesConn \/ conn' = conn
           /\ WritesDep \/ dep' = dep
           /\ WritesReq \/ req' = req
           /\ Work \/ Crash \/ work' = work
                \/ \E pass \in Passes, c \in Connectors : Reconcile(pass, c)
  <1> USE DEF config, open, rows
  <1>1. CASE UNCHANGED vars
    BY Zenon, <1>1 DEF vars
  <1>2. CASE User
    BY Zenon, <1>2 DEF User, WritesConn, WritesDep, WritesReq, CreateCluster, CreateNamespace,
                DeleteNamespace, DeleteCluster, Create, Patch, Delete, ReadConnector, ForceDelete
  <1>3. CASE \E r \in Requests : Serve(r)
    BY Zenon, <1>3 DEF Serve, WritesConn, WritesDep, WritesReq, CreateInsert, CreateStatus,
                PatchSaveStatus, DeleteSaveStatus, UpdateConnector
  <1>4. CASE Work
    BY Zenon, <1>4 DEF Work, WritesConn, WritesDep, WritesReq, AssignStatus, SaveDeployment,
                ClearNamespace, ClearedStatus, DeleteConnector, DeleteStatus
  <1>5. CASE NamespaceManager \/ ClusterManager
    BY Zenon, <1>5 DEF NamespaceManager, ClusterManager, WritesConn, ReconcileExpiredNamespaces,
                ReconcileUnusedDeletingNamespaces, ReconcileUsedDeletingNamespaces,
                ReconcileDeletedNamespaces, ReconcileEmptyDeletingClusters,
                ReconcileNonEmptyDeletingClusters
  <1>6. CASE Agent \/ Answer
    BY Zenon, <1>6 DEF Agent, Answer, WritesDep, AgentSync, ReportCluster, ReportDeployment,
                ReportNamespaceDeleted, ReportPhase, ReportNamespaces
  <1>7. CASE \E pass \in Passes, c \in Connectors : Reconcile(pass, c)
    BY Zenon, <1>7 DEF Reconcile
  <1>8. CASE CleanupDeployments \/ Crash
    BY Zenon, <1>8 DEF CleanupDeployments, Crash, WritesDep, WritesReq
  <1> QED
    BY Zenon, <1>1, <1>2, <1>3, <1>4, <1>5, <1>6, <1>7, <1>8 DEF Next

\* A row of connectors, once inserted, stays; its version only grows, and grows
\* with every change of the desired state; and "deleted" is not taken back.
RowKept(c) ==
    /\ conn'[c].row # "absent"
    /\ conn'[c].ver >= conn[c].ver
    /\ conn'[c].ver = conn[c].ver => conn'[c].desired = conn[c].desired
    /\ conn[c].desired = "deleted" => conn'[c].desired = "deleted"

\* No step, of whatever actors, takes back a row, a version or a deletion.
LEMMA ConnStep ==
    ASSUME TypeOK, RefsInv, CreateInv, PatchInv, [Next]_vars,
           NEW c \in Connectors, conn[c].row # "absent"
    PROVE  RowKept(c)
  <1>0. conn[c] \in ConnRow /\ conn[c].ver \in Nat
    BY Zenon DEF TypeOK, ConnRow
  <1>1. CASE conn' = conn
    BY <1>0, <1>1 DEF RowKept
  <1>2. CASE ReconcileUsedDeletingNamespaces
    <2> DEFINE doomed == {x \in Live(conn) : /\ conn[x].ns \in NamespacesWith("deleting")
                                             /\ conn[x].desired \notin {"deleted", "unassigned"}}
               state == IF unassign THEN "unassigned" ELSE "deleted"
    <2>1. conn'[c] = IF c \in doomed THEN [conn[c] EXCEPT !.desired = state, !.ver = @ + 1]
                                     ELSE conn[c]
      BY Zenon, <1>2 DEF ReconcileUsedDeletingNamespaces, deleteNamespaceConnectors
    <2>2. CASE c \in doomed
      <3>1. conn'[c].ver = conn[c].ver + 1 /\ conn'[c].row = conn[c].row
        BY Zenon, <1>0, <2>1, <2>2 DEF ConnRow
      <3>2. conn[c].desired # "deleted"
        BY Zenon, <2>2
      <3> QED
        BY <1>0, <3>1, <3>2 DEF RowKept
    <2>3. CASE c \notin doomed
      BY <1>0, <2>1, <2>3 DEF RowKept
    <2> QED
      BY Zenon, <2>2, <2>3
  <1>3. ASSUME NEW r \in Requests, CreateInsert(r) PROVE RowKept(c)
    <2>1. req[r] \in Request /\ req[r] # None /\ req[r].kind = "create" /\ req[r].step = 1
      BY Zenon, <1>3, ServingType DEF CreateInsert, Serving
    <2>2. req[r].c # c
      BY Zenon, <2>1 DEF CreateInv
    <2>3. conn'[c] = conn[c]
      BY Zenon, <1>3, <2>1, <2>2 DEF CreateInsert, TypeOK, Request
    <2> QED
      BY <1>0, <2>3 DEF RowKept
  <1>4. ASSUME NEW r \in Requests, UpdateConnector(r) PROVE RowKept(c)
    <2> DEFINE q == req[r]
    <2>1. q \in Request /\ q # None /\ q.kind \in {"patch", "delete"} /\ q.step = 2
      BY Zenon, <1>4, ServingType DEF UpdateConnector, Serving
    <2>2. /\ q.kind = "patch" /\ q.conn.ver = conn[q.c].ver => conn[q.c].desired # "deleted"
          /\ q.kind = "delete" => q.conn.desired = "deleted"
      BY Zenon, <2>1 DEF PatchInv
    <2>3. CASE conn'[c] = conn[c]
      BY <1>0, <2>3 DEF RowKept
    <2>4. CASE conn'[c] # conn[c]
      <3>1. /\ conn[q.c].ver = q.conn.ver /\ q.c = c
            /\ conn' = [conn EXCEPT ![q.c].desired = q.conn.desired, ![q.c].ver = @ + 1]
        BY ZenonT(40), <1>4, <2>1, <2>4 DEF UpdateConnector, Update, TypeOK, Request
      <3>2. conn'[c].row = conn[c].row /\ conn'[c].ver = conn[c].ver + 1
              /\ conn'[c].desired = q.conn.desired
        BY Zenon, <1>0, <3>1 DEF TypeOK, ConnRow
      <3> HIDE DEF q
      <3> QED
        BY <1>0, <2>1, <2>2, <3>1, <3>2 DEF RowKept
    <2> QED
      BY Zenon, <2>3, <2>4
  <1>5. ASSUME NEW x \in Connectors, ForceDelete(x) PROVE RowKept(c)
    <2>1. conn' = conn \/ conn' = [conn EXCEPT ![x].row = "gone"]
      BY Zenon, <1>5 DEF ForceDelete
    <2>2. conn'[c].row \in {conn[c].row, "gone"} /\ conn'[c].desired = conn[c].desired
            /\ conn'[c].ver = conn[c].ver
      BY <1>0, <2>1 DEF TypeOK, ConnRow
    <2> QED
      BY <1>0, <2>2 DEF RowKept
  <1>6. CASE ClearNamespace
    <2>1. work.c \in Connectors
      BY Zenon, <1>6, WorkingType DEF ClearNamespace, WorkRow
    <2>2. \/ conn' = conn \/ conn' = [conn EXCEPT ![work.c].ns = None, ![work.c].ver = @ + 1]
      BY Zenon, <1>6 DEF ClearNamespace
    <2>3. /\ conn'[c].row = conn[c].row /\ conn'[c].desired = conn[c].desired
          /\ conn'[c].ver \in {conn[c].ver, conn[c].ver + 1}
      BY <1>0, <2>1, <2>2 DEF TypeOK, ConnRow
    <2> QED
      BY <1>0, <2>3 DEF RowKept
  <1>7. CASE DeleteConnector
    <2>1. conn' = [conn EXCEPT ![work.c].row = "gone"]
      BY Zenon, <1>7 DEF DeleteConnector
    <2> QED
      BY <1>0, <2>1 DEF RowKept, TypeOK, ConnRow
  <1> QED
    BY Zenon, <1>1, <1>2, <1>3, <1>4, <1>5, <1>6, <1>7, Writers DEF WritesConn

-----------------------------------------------------------------------------
(* The steps keep what holds with races.                                   *)

\* Every step keeps the references between rows.
LEMMA RefsStep ==
    ASSUME TypeOK, RefsInv, CreateInv, PatchInv, [Next]_vars
    PROVE  RefsInv'
  <1>1. \A d \in Deployments : dep'[d].row # "absent" =>
            dep'[d].conn \in Connectors /\ dep'[d].ns \in Namespaces
    <2>1. CASE dep' = dep
      BY Zenon, <2>1 DEF RefsInv
    <2>2. CASE SaveDeployment
      <3>1. work \in WorkRow /\ work # None /\ work.pass = "assigning"
        BY Zenon, <2>2, WorkingType DEF SaveDeployment, Working
      <3>2. work.c \in Connectors /\ work.ns \in Namespaces
        BY Zenon, <3>1 DEF RefsInv, WorkRow
      <3>3. PICK d \in Deployments :
                dep' = [dep EXCEPT ![d] = [row |-> "live", conn |-> work.c, ns |-> work.ns]]
        BY Zenon, <2>2 DEF SaveDeployment
      <3> QED
        BY Zenon, <3>2, <3>3 DEF RefsInv, TypeOK
    <2>3. CASE CleanupDeployments
      BY <2>3, Typed DEF CleanupDeployments, RefsInv, Live, DepRow
    <2>4. ASSUME NEW c \in Connectors, ForceDelete(c)
          PROVE  \A d \in Deployments : dep'[d].row # "absent" =>
                    dep'[d].conn \in Connectors /\ dep'[d].ns \in Namespaces
      <3>1. CASE dep' = dep
        BY Zenon, <3>1 DEF RefsInv
      <3>2. CASE dep' # dep
        <4>1. PICK d \in DeploymentsOf(c) : dep' = [dep EXCEPT ![d].row = "gone"]
          BY Zenon, <2>4, <3>2 DEF ForceDelete
        <4>2. d \in Deployments /\ dep[d].row # "absent"
          BY Zenon, <4>1, Typed DEF DeploymentsOf, Live
        <4> QED
          BY <4>1, <4>2, Typed DEF RefsInv, DepRow
      <3> QED
        BY Zenon, <3>1, <3>2
    <2>5. ASSUME NEW d \in Deployments, NEW phase \in Phases, ReportDeployment(d, phase)
          PROVE  \A e \in Deployments : dep'[e].row # "absent" =>
                    dep'[e].conn \in Connectors /\ dep'[e].ns \in Namespaces
      <3>1. dep[d].row # "absent" /\ (dep' = dep \/ dep' = [dep EXCEPT ![d].row = "gone"])
        BY Zenon, <2>5 DEF ReportDeployment
      <3> QED
        BY <3>1, Typed DEF RefsInv, DepRow
    <2> QED
      BY Zenon, <2>1, <2>2, <2>3, <2>4, <2>5, Writers DEF WritesDep
  <1>2. /\ work' # None /\ work'.pass = "assigning" => work'.ns \in Namespaces
        /\ work' # None => work'.c \in Connectors /\ conn[work'.c].row # "absent"
    <2>1. CASE work' = work \/ work' = None
      BY Zenon, <2>1, Typed DEF RefsInv, WorkRow
    <2>2. ASSUME NEW pass \in Passes, NEW c \in Connectors, Reconcile(pass, c)
          PROVE  /\ work'.pass = "assigning" => work'.ns \in Namespaces
                 /\ work'.c \in Connectors /\ conn[work'.c].row # "absent"
      <3>1. work' = [pass |-> pass, step |-> 1, c |-> c, ns |-> conn[c].ns, status |-> status[c]]
        BY Zenon, <2>2 DEF Reconcile
      <3>2. conn[c].row = "live" /\ (pass = "assigning" => conn[c].ns # None)
        BY Zenon, <2>2 DEF Reconcile, Selected
      <3>3. conn[c].ns \in Namespaces \cup {None}
        BY Zenon DEF TypeOK, ConnRow
      <3> QED
        BY Zenon, <3>1, <3>2, <3>3
    <2>3. CASE Work
      <3>1. work' = None \/ (work \in WorkRow /\ work # None /\ work' = [work EXCEPT !.step = 2])
        BY Zenon, <2>3, Typed DEF Work, AssignStatus, SaveDeployment, ClearNamespace, ClearedStatus,
                    DeleteConnector, DeleteStatus, Working
      <3>2. CASE work' # None
        <4>1. work'.pass = work.pass /\ work'.ns = work.ns /\ work'.c = work.c
          BY Zenon, <3>1, <3>2 DEF WorkRow
        <4> QED
          BY Zenon, <3>1, <3>2, <4>1 DEF RefsInv, WorkRow
      <3> QED
        BY Zenon, <3>2
    <2>4. CASE Crash
      BY Zenon, <2>4, <2>1 DEF Crash
    <2> QED
      BY Zenon, <2>1, <2>2, <2>3, <2>4, Writers
  <1>3. work' # None => conn'[work'.c].row # "absent"
    BY Zenon, <1>2, ConnStep DEF RowKept
  <1> QED
    BY Zenon, <1>1, <1>2, <1>3 DEF RefsInv

\* A request after a step: it is new, it is the same, or it has made one of its
\* writes; and the step that makes the write makes no other request.
NewReq(r) ==
    \/ \E c \in Connectors :
         /\ \/ \E n \in Namespaces \cup {None} : Create(r, c, n)
            \/ \E want \in Desired : Patch(r, c, want)
            \/ Delete(r, c)
    \/ Serve(r)

\* A request changes only by a step of its own, or ends.
LEMMA ReqFrame ==
    ASSUME TypeOK, [Next]_vars, NEW r \in Requests
    PROVE  NewReq(r) \/ req'[r] = req[r] \/ req'[r] = None
  <1>1. CASE req' = req
    BY Zenon, <1>1
  <1>2. CASE Crash
    BY Zenon, <1>2 DEF Crash, TypeOK
  <1>3. ASSUME NEW x \in Requests, NewReq(x)
        PROVE  x = r \/ req'[r] = req[r]
    <2>1. \E q : req' = [req EXCEPT ![x] = q]
      <3>1. CASE CreateInsert(x)
        <4>1. req' = [req EXCEPT ![x] = [req[x] EXCEPT !.step = 2]]
          BY Zenon, <3>1, Typed DEF CreateInsert
        <4> QED
          BY Zenon, <4>1
      <3>2. CASE PatchSaveStatus(x)
        BY Zenon, <3>2 DEF PatchSaveStatus
      <3>3. CASE DeleteSaveStatus(x)
        BY Zenon, <3>3 DEF DeleteSaveStatus
      <3> QED
        BY Zenon, <1>3, <3>1, <3>2, <3>3
           DEF NewReq, Serve, Create, Patch, Delete, ReadConnector, CreateStatus, UpdateConnector
    <2> QED
      BY Zenon, <2>1, Typed
  <1> QED
    BY Zenon, <1>1, <1>2, <1>3, Writers DEF WritesReq, NewReq

\* Request r has made a write, and goes on.
Continues(r) ==
    LET q == req[r] p == req'[r] IN
    /\ Serve(r) /\ q # None /\ q \in Request /\ p \in Request /\ q.step = 1 /\ p.step = 2
    /\ p.kind = q.kind /\ p.c = q.c /\ p.want = q.want
    /\ p.conn.ver = q.conn.ver /\ p.conn.ns = q.conn.ns /\ p.status.row = q.status.row
    /\ q.kind = "create" => CreateInsert(r) /\ p.conn = q.conn
    /\ q.kind = "patch" =>
          /\ conn' = conn /\ p.conn.desired = q.want
          /\ p.status.phase # "deleted"
          /\ p.status.phase = "assigning" => \/ q.status.phase = "assigning"
                                             \/ q.conn.desired = "unassigned" \/ q.want = "unassigned"
    /\ q.kind = "delete" =>
          /\ conn' = conn /\ p.conn.desired = "deleted"
          /\ p.status.phase = IF q.conn.ns = None THEN "deleted" ELSE "deleting"

\* What a request knows after a step of its own.
LEMMA ReqStep ==
    ASSUME TypeOK, PatchInv, NEW r \in Requests, NewReq(r)
    PROVE  \/ req'[r] = None
           \/ \E c \in Connectors, n \in Namespaces \cup {None} :
                /\ Create(r, c, n)
                /\ req'[r] = [kind |-> "create", step |-> 1, c |-> c, want |-> "ready",
                              conn |-> NewConnector(n), status |-> status[c]]
           \/ \E c \in Connectors, kind \in {"patch", "delete"}, want \in Desired :
                /\ ReadConnector(r, kind, c, want)
                /\ kind = "patch" => /\ want # "deleted" /\ conn[c].desired # "deleted"
                                     /\ want = "unassigned" /\ conn[c].desired # want => unassign
                /\ kind = "delete" => want = "deleted"
                /\ req'[r] = [kind |-> kind, step |-> 1, c |-> c, want |-> want,
                              conn |-> conn[c], status |-> status[c]]
           \/ Continues(r)
  <1>1. ASSUME NEW c \in Connectors, NEW n \in Namespaces \cup {None}, Create(r, c, n)
        PROVE  req'[r] = [kind |-> "create", step |-> 1, c |-> c, want |-> "ready",
                          conn |-> NewConnector(n), status |-> status[c]]
    BY Zenon, <1>1 DEF Create, TypeOK
  <1>2. ASSUME NEW c \in Connectors, NEW kind \in {"patch", "delete"}, NEW want \in Desired,
               ReadConnector(r, kind, c, want)
        PROVE  req'[r] = [kind |-> kind, step |-> 1, c |-> c, want |-> want,
                          conn |-> conn[c], status |-> status[c]]
    BY Zenon, <1>2 DEF ReadConnector, TypeOK
  <1>3. CASE CreateInsert(r)
    <2> DEFINE q == req[r] p == [q EXCEPT !.step = 2]
    <2>1. q \in Request /\ q # None /\ q.kind = "create" /\ q.step = 1
      BY Zenon, <1>3, ServingType DEF CreateInsert, Serving
    <2>2. req'[r] = p
      BY Zenon, <1>3, Typed DEF CreateInsert
    <2>3. /\ p \in Request /\ p.step = 2 /\ p.kind = q.kind /\ p.c = q.c /\ p.want = q.want
          /\ p.conn = q.conn /\ p.status = q.status
      BY <2>1 DEF Request
    <2> HIDE DEF p
    <2>4. Continues(r)
      BY Zenon, <1>3, <2>1, <2>2, <2>3 DEF Continues, Serve
    <2> QED
      BY Zenon, <2>4
  <1>4. CASE CreateStatus(r) \/ UpdateConnector(r)
    BY Zenon, <1>4 DEF CreateStatus, UpdateConnector, TypeOK
  <1>5. CASE PatchSaveStatus(r)
    <2> DEFINE q == req[r]
    <2>1. q \in Request /\ q # None /\ q.kind = "patch" /\ q.step = 1 /\ conn' = conn
            /\ q.status \in StatusRow /\ q.want \in Desired
      BY Zenon, <1>5, ServingType DEF PatchSaveStatus, Serving, Request
    <2>2. CASE req' = [req EXCEPT ![r] = None]
      BY Zenon, <2>2, NewRequest
    <2>3. CASE req' # [req EXCEPT ![r] = None]
      <3>1. PICK phase \in Phases :
                /\ phase # "deleted"
                /\ phase = "assigning" => \/ q.status.phase = "assigning"
                                          \/ q.conn.desired = "unassigned" \/ q.want = "unassigned"
                /\ req' = [req EXCEPT ![r] =
                             [q EXCEPT !.step = 2, !.conn.desired = q.want,
                                       !.status = [q.status EXCEPT !.phase = phase, !.ns = None]]]
        BY Zenon, <1>5, <2>3, PatchSaved
      <3> DEFINE t == [q.status EXCEPT !.phase = phase, !.ns = None]
                 p == [q EXCEPT !.step = 2, !.conn.desired = q.want, !.status = t]
      <3>2. t \in StatusRow /\ t.row = q.status.row /\ t.phase = phase
        BY Zenon, <2>1, StatusOf
      <3>3. req' = [req EXCEPT ![r] = p]
        BY Zenon, <3>1
      <3> HIDE DEF t
      <3>4. /\ p \in Request
            /\ p.kind = q.kind /\ p.step = 2 /\ p.c = q.c /\ p.want = q.want
            /\ p.conn.desired = q.want /\ p.conn.ver = q.conn.ver /\ p.conn.ns = q.conn.ns
            /\ p.status = t
        BY Zenon, <2>1, <3>2, PatchedRequest
      <3> HIDE DEF p
      <3>5. req'[r] = p
        BY Zenon, <3>3, <3>4, NewRequest
      <3>6. Continues(r)
        BY Zenon, <1>5, <2>1, <3>1, <3>2, <3>4, <3>5 DEF Continues, Serve
      <3> QED
        BY Zenon, <3>6
    <2> QED
      BY Zenon, <2>2, <2>3
  <1>6. CASE DeleteSaveStatus(r)
    <2> DEFINE q == req[r]
               phase == IF q.conn.ns = None THEN "deleted" ELSE "deleting"
               t == [q.status EXCEPT !.phase = phase]
               p == [q EXCEPT !.step = 2, !.conn.desired = "deleted", !.status = t]
    <2>1. q \in Request /\ q # None /\ q.kind = "delete" /\ q.step = 1 /\ conn' = conn
            /\ q.status \in StatusRow
      BY Zenon, <1>6, ServingType DEF DeleteSaveStatus, Serving, Request
    <2>2. CASE req' = [req EXCEPT ![r] = None]
      BY Zenon, <2>2, NewRequest
    <2>3. CASE req' # [req EXCEPT ![r] = None]
      <3>1. req' = [req EXCEPT ![r] = p]
        BY Zenon, <1>6, <2>3, DeleteSaved
      <3>2. phase \in Phases /\ "deleted" \in Desired
        BY Zenon DEF Phases, Desired
      <3>3. t \in StatusRow /\ t.row = q.status.row /\ t.phase = phase
        BY Zenon, <2>1, <3>2, StatusOf
      <3> HIDE DEF t
      <3>4. /\ p \in Request
            /\ p.kind = q.kind /\ p.step = 2 /\ p.c = q.c /\ p.want = q.want
            /\ p.conn.desired = "deleted" /\ p.conn.ver = q.conn.ver /\ p.conn.ns = q.conn.ns
            /\ p.status = t
        BY ZenonT(40), <2>1, <3>2, <3>3, PatchedRequest
      <3> HIDE DEF p
      <3>5. req'[r] = p
        BY Zenon, <3>1, <3>4, NewRequest
      <3>6. Continues(r)
        BY Zenon, <1>6, <2>1, <3>3, <3>4, <3>5 DEF Continues, Serve
      <3> QED
        BY Zenon, <3>6
    <2> QED
      BY Zenon, <2>2, <2>3
  <1>7. "deleted" \in Desired
    BY Zenon DEF Desired
  <1>8. CASE \E c \in Connectors, n \in Namespaces \cup {None} : Create(r, c, n)
    BY Zenon, <1>1, <1>8
  <1>9. ASSUME NEW c \in Connectors, NEW want \in Desired, Patch(r, c, want)
        PROVE  \E kind \in {"patch", "delete"} :
                /\ ReadConnector(r, kind, c, want)
                /\ kind = "patch" => /\ want # "deleted" /\ conn[c].desired # "deleted"
                                     /\ want = "unassigned" /\ conn[c].desired # want => unassign
                /\ kind = "delete" => want = "deleted"
                /\ req'[r] = [kind |-> kind, step |-> 1, c |-> c, want |-> want,
                              conn |-> conn[c], status |-> status[c]]
    <2>1. ReadConnector(r, "patch", c, want)
      BY Zenon, <1>9 DEF Patch
    <2> QED
      BY Zenon, <1>2, <1>9, <2>1 DEF Patch
  <1>10. ASSUME NEW c \in Connectors, Delete(r, c)
         PROVE  /\ ReadConnector(r, "delete", c, "deleted")
                /\ req'[r] = [kind |-> "delete", step |-> 1, c |-> c, want |-> "deleted",
                              conn |-> conn[c], status |-> status[c]]
    BY Zenon, <1>2, <1>7, <1>10 DEF Delete
  <1>11. CASE \E c \in Connectors, want \in Desired : Patch(r, c, want)
    BY <1>9, <1>11
  <1>12. CASE \E c \in Connectors : Delete(r, c)
    BY Zenon, <1>7, <1>10, <1>12
  <1> QED
    BY Zenon, <1>3, <1>4, <1>5, <1>6, <1>8, <1>11, <1>12 DEF NewReq, Serve

\* Only the request that has its id inserts a row.
LEMMA InsertOnly ==
    ASSUME TypeOK, RefsInv, PatchInv, [Next]_vars, NEW c \in Connectors, conn[c].row = "absent"
    PROVE  conn'[c] = conn[c] \/ \E x \in Requests : CreateInsert(x) /\ req[x].c = c
  <1>1. CASE conn' = conn
    BY Zenon, <1>1
  <1>2. CASE ReconcileUsedDeletingNamespaces
    BY Zenon, <1>2 DEF ReconcileUsedDeletingNamespaces, deleteNamespaceConnectors, Live
  <1>3. ASSUME NEW x \in Requests, CreateInsert(x) PROVE conn'[c] = conn[c] \/ req[x].c = c
    BY Zenon, <1>3 DEF CreateInsert, TypeOK
  <1>4. ASSUME NEW x \in Requests, UpdateConnector(x) PROVE conn'[c] = conn[c]
    <2>1. req[x] \in Request /\ req[x].c \in Connectors
      BY Zenon, <1>4, ServingType DEF UpdateConnector, Request
    <2>2. CASE conn' = conn
      BY Zenon, <2>2
    <2>3. CASE conn' # conn
      <3>1. conn[req[x].c].row = "live"
        BY Zenon, <1>4, <2>3 DEF UpdateConnector, Update
      <3>2. req[x].c # c
        BY Zenon, <3>1
      <3> QED
        BY Zenon, <1>4, <2>1, <3>2 DEF UpdateConnector, Update, TypeOK
    <2> QED
      BY Zenon, <2>2, <2>3
  <1>5. ASSUME NEW x \in Connectors, ForceDelete(x) PROVE conn'[c] = conn[c]
    BY Zenon, <1>5 DEF ForceDelete, TypeOK
  <1>6. CASE ClearNamespace
    <2>1. work.c \in Connectors /\ work # None
      BY Zenon, <1>6, WorkingType DEF ClearNamespace, WorkRow, Working
    <2>2. work.c # c
      BY Zenon, <2>1 DEF RefsInv
    <2> QED
      BY Zenon, <1>6, <2>1, <2>2 DEF ClearNamespace, TypeOK
  <1>7. CASE DeleteConnector
    <2>1. work.c \in Connectors /\ work # None
      BY Zenon, <1>7, WorkingType DEF DeleteConnector, WorkRow, Working
    <2>2. work.c # c
      BY Zenon, <2>1 DEF RefsInv
    <2> QED
      BY Zenon, <1>7, <2>1, <2>2 DEF DeleteConnector, TypeOK
  <1> QED
    BY Zenon, <1>1, <1>2, <1>3, <1>4, <1>5, <1>6, <1>7, Writers DEF WritesConn

\* Every step keeps the new connectors apart.
LEMMA CreateStep ==
    ASSUME TypeOK, RefsInv, CreateInv, PatchInv, [Next]_vars
    PROVE  CreateInv'
  <1> SUFFICES ASSUME NEW r \in Requests, req'[r] # None, req'[r].kind = "create", req'[r].step = 1
               PROVE  /\ conn'[req'[r].c].row = "absent"
                      /\ \A q \in Requests \ {r} : req'[q] # None => req'[q].c # req'[r].c
    BY Zenon DEF CreateInv
  <1> DEFINE c == req'[r].c
  <1>1. CASE \E x \in Connectors, n \in Namespaces \cup {None} : Create(r, x, n)
    <2>1. PICK x \in Connectors, n \in Namespaces \cup {None} : Create(r, x, n)
      BY Zenon, <1>1
    <2>2. /\ conn' = conn /\ conn[x].row = "absent"
          /\ \A q \in Requests : req[q] # None => req[q].c # x
          /\ req'[r].c = x /\ \A q \in Requests \ {r} : req'[q] = req[q]
      BY Zenon, <2>1 DEF Create, rows, TypeOK
    <2> QED
      BY Zenon, <2>2
  <1>2. CASE ~\E x \in Connectors, n \in Namespaces \cup {None} : Create(r, x, n)
    <2>0. ~NewReq(r)
      <3>1. SUFFICES ASSUME NewReq(r) PROVE FALSE
        BY Zenon
      <3>2. CASE \E x \in Connectors, kind \in {"patch", "delete"}, want \in Desired :
                   req'[r] = [kind |-> kind, step |-> 1, c |-> x, want |-> want,
                              conn |-> conn[x], status |-> status[x]]
        BY <3>2
      <3>3. CASE Continues(r)
        BY <3>3 DEF Continues
      <3> QED
        BY Zenon, <1>2, <3>1, <3>2, <3>3, ReqStep
    <2>1. req'[r] = req[r]
      BY Zenon, <2>0, ReqFrame
    <2>2. /\ c \in Connectors /\ conn[c].row = "absent"
          /\ \A q \in Requests \ {r} : req[q] # None => req[q].c # c
      BY <2>1, Typed DEF CreateInv, Request
    <2>3. conn'[c].row = "absent"
      <3>1. ASSUME NEW x \in Requests, CreateInsert(x), req[x].c = c PROVE FALSE
        <4>1. x = r
          BY Zenon, <2>2, <3>1 DEF CreateInsert, Serving
        <4>2. NewReq(r)
          BY Zenon, <3>1, <4>1 DEF NewReq, Serve
        <4> QED
          BY Zenon, <2>0, <4>2
      <3> QED
        BY Zenon, <2>2, <3>1, InsertOnly
    <2>4. ASSUME NEW q \in Requests \ {r}, req'[q] # None PROVE req'[q].c # c
      <3>1. CASE req'[q] = req[q]
        BY Zenon, <2>2, <2>4, <3>1
      <3>2. ASSUME NEW x \in Connectors, NEW n \in Namespaces \cup {None}, Create(q, x, n),
                   req'[q].c = x
            PROVE  req'[q].c # c
        BY Zenon, <2>1, <3>2 DEF Create
      <3>3. ASSUME NEW x \in Connectors, NEW kind, NEW want, ReadConnector(q, kind, x, want),
                   req'[q].c = x
            PROVE  req'[q].c # c
        BY Zenon, <2>2, <3>3 DEF ReadConnector
      <3>4. CASE Continues(q)
        BY Zenon, <2>2, <3>4 DEF Continues
      <3>5. CASE \E x \in Connectors, kind \in {"patch", "delete"}, want \in Desired :
                   /\ ReadConnector(q, kind, x, want)
                   /\ req'[q] = [kind |-> kind, step |-> 1, c |-> x, want |-> want,
                                 conn |-> conn[x], status |-> status[x]]
        BY <3>3, <3>5
      <3>6. CASE \E x \in Connectors, n \in Namespaces \cup {None} :
                   /\ Create(q, x, n)
                   /\ req'[q] = [kind |-> "create", step |-> 1, c |-> x, want |-> "ready",
                                 conn |-> NewConnector(n), status |-> status[x]]
        BY <3>2, <3>6
      <3> HIDE DEF c
      <3> QED
        BY Zenon, <2>4, <3>1, <3>4, <3>5, <3>6, ReqFrame, ReqStep
    <2> QED
      BY Zenon, <2>3, <2>4
  <1> QED
    BY Zenon, <1>1, <1>2

\* What PatchInv says of one request.
PatchOK(q) ==
    /\ conn[q.c].row # "absent"
    /\ q.conn.ver <= conn[q.c].ver
    /\ q.kind = "patch" => /\ q.want # "deleted" /\ q.conn.desired # "deleted"
                           /\ q.conn.ver = conn[q.c].ver => conn[q.c].desired # "deleted"
    /\ q.kind = "delete" /\ q.step = 2 => q.conn.desired = "deleted"
    /\ q.kind = "patch" /\ q.step = 2 => q.conn.desired = q.want

\* Every step keeps what patches and deletions hold of their connector.
LEMMA PatchStep ==
    ASSUME TypeOK, RefsInv, CreateInv, PatchInv, TypeOK', [Next]_vars
    PROVE  PatchInv'
  <1> SUFFICES ASSUME NEW r \in Requests, req'[r] # None, req'[r].kind \in {"patch", "delete"}
               PROVE  PatchOK(req[r])'
    BY Zenon DEF PatchInv, PatchOK
  <1>0. \A q \in Requests : req[q] # None /\ req[q].kind \in {"patch", "delete"} => PatchOK(req[q])
    BY Zenon DEF PatchInv, PatchOK
  <1>v. \A x \in Connectors : conn[x].ver \in Nat /\ conn'[x].ver \in Nat
    BY Zenon DEF TypeOK, ConnRow
  <1>1. CASE req'[r] = req[r]
    <2> DEFINE q == req[r]
    <2>1. q \in Request /\ q.c \in Connectors /\ q.conn.ver \in Nat
      BY Zenon, <1>1, Typed DEF Request, ConnRow
    <2>2. PatchOK(q) /\ RowKept(q.c)
      BY Zenon, <1>0, <1>1, <2>1, ConnStep DEF PatchOK
    <2>3. /\ conn'[q.c].row # "absent" /\ q.conn.ver <= conn'[q.c].ver
          /\ q.kind = "patch" /\ q.conn.ver = conn'[q.c].ver => conn'[q.c].desired # "deleted"
      BY <1>v, <2>1, <2>2 DEF PatchOK, RowKept
    <2> QED
      BY Zenon, <1>1, <2>2, <2>3 DEF PatchOK
  <1>2. ASSUME NEW c \in Connectors, NEW kind \in {"patch", "delete"}, NEW want \in Desired,
               ReadConnector(r, kind, c, want),
               kind = "patch" => want # "deleted" /\ conn[c].desired # "deleted",
               req'[r] = [kind |-> kind, step |-> 1, c |-> c, want |-> want,
                          conn |-> conn[c], status |-> status[c]]
        PROVE  PatchOK(req[r])'
    <2>1. conn' = conn /\ conn[c].row = "live"
      BY Zenon, <1>2 DEF ReadConnector, rows
    <2> QED
      BY <1>2, <1>v, <2>1 DEF PatchOK
  <1>3. CASE Continues(r)
    BY Zenon, <1>0, <1>3 DEF Continues, PatchOK
  <1>4. CASE \E c \in Connectors, kind \in {"patch", "delete"}, want \in Desired :
                /\ ReadConnector(r, kind, c, want)
                /\ kind = "patch" => /\ want # "deleted" /\ conn[c].desired # "deleted"
                                     /\ want = "unassigned" /\ conn[c].desired # want => unassign
                /\ kind = "delete" => want = "deleted"
                /\ req'[r] = [kind |-> kind, step |-> 1, c |-> c, want |-> want,
                              conn |-> conn[c], status |-> status[c]]
    BY Zenon, <1>2, <1>4
  <1>5. CASE \E c \in Connectors, n \in Namespaces \cup {None} :
               req'[r] = [kind |-> "create", step |-> 1, c |-> c, want |-> "ready",
                          conn |-> NewConnector(n), status |-> status[c]]
    BY <1>5
  <1> QED
    BY Zenon, <1>1, <1>3, <1>4, <1>5, ReqFrame, ReqStep

RacyInv == TypeOK /\ RefsInv /\ CreateInv /\ PatchInv

\* What holds whatever overlaps holds at the start...
LEMMA RacyInit == Init => RacyInv
  <1> SUFFICES ASSUME Init PROVE RacyInv
    BY Zenon
  <1>1. RefsInv /\ CreateInv /\ PatchInv
    BY Zenon DEF Init, RefsInv, CreateInv, PatchInv
  <1>2. TypeOK
    <2> USE DEF Init, Rows
    <2>1. FALSE \in BOOLEAN
      BY Zenon
    <2>2. cluster \in [row : Rows, phase : {"disconnected", "ready", "deleting"}, account : BOOLEAN]
      BY Zenon, <2>1
    <2>3. ns \in [Namespaces -> NsRow]
      BY Zenon, <2>1 DEF NsRow, NamespacePhases
    <2>4. conn \in [Connectors -> ConnRow] /\ status \in [Connectors -> StatusRow]
      BY Zenon DEF ConnRow, StatusRow, Desired, Phases
    <2>5. dep \in [Deployments -> DepRow]
      BY Zenon DEF DepRow
    <2>6. agent \in [nss : SUBSET Namespaces,
                     task : [Deployments -> {"none", "run", "stop", "remove"}]]
      <3>1. [d \in Deployments |-> "none"] \in [Deployments -> {"none", "run", "stop", "remove"}]
        BY Zenon
      <3>2. {} \in SUBSET Namespaces
        BY Zenon
      <3> QED
        BY Zenon, <3>1, <3>2
    <2>7. calls \in 0..MaxCalls /\ faults \in 0..MaxUpsets /\ races \in 0..MaxUpsets
      <3>1. MaxCalls \in Nat /\ MaxUpsets \in Nat
        BY Zenon, BoundsAssumption
      <3>2. calls = 0 /\ faults = 0 /\ races = 0
        BY Zenon
      <3> HIDE DEF Init
      <3> QED
        BY <3>1, <3>2
    <2>8. req \in [Requests -> {None} \cup Request] /\ work = None /\ rep = None
            /\ unassign \in BOOLEAN
      BY Zenon
    <2> QED
      BY Zenon, <2>2, <2>3, <2>4, <2>5, <2>6, <2>7, <2>8, Typed
  <1> QED
    BY Zenon, <1>1, <1>2 DEF RacyInv

\* ... and is kept by every step.
LEMMA RacyStep == RacyInv /\ [Next]_vars => RacyInv'
  BY Zenon, TypeStep, RefsStep, CreateStep, PatchStep DEF RacyInv

\* The types, for every behaviour.
THEOREM TypeCorrect == Spec => []TypeOK
  <1>1. RacyInv => TypeOK
    BY Zenon DEF RacyInv
  <1> QED
    BY RacyInit, RacyStep, <1>1, PTL DEF Spec

\* No request takes a connector back from the desired state "deleted", however
\* old what it read: connectorsService.Update finds the version changed.
THEOREM DeletionFinalHolds == Spec => DeletionFinal
  <1>1. RacyInv /\ [Next]_vars =>
          [\A c \in Connectors :
             conn[c].row = "live" /\ conn[c].desired = "deleted" => conn'[c].desired = "deleted"]_vars
    BY Zenon, ConnStep DEF RacyInv, RowKept
  <1> QED
    BY RacyInit, RacyStep, <1>1, PTL DEF Spec, DeletionFinal

-----------------------------------------------------------------------------
(* What holds as long as nobody starts in between.                         *)

\* A step after which there has been no race is a step before which there was
\* none, and starts nothing in between.
LEMMA QuietStep ==
    ASSUME TypeOK, [Next]_vars, Undisturbed'
    PROVE  Undisturbed /\ (Starts => Idle)
  <1> USE DEF config, open, rows
  <1>1. unassign' = unassign /\ (races' = races \/ Starts)
    <2>1. CASE UNCHANGED vars
      BY Zenon, <2>1 DEF vars
    <2>2. CASE User
      BY ZenonT(40), <2>2 DEF User, CreateCluster, CreateNamespace, DeleteNamespace, DeleteCluster,
         Create,
                  Patch, Delete, ReadConnector, ForceDelete
    <2>3. CASE \E r \in Requests : Serve(r)
      BY Zenon, <2>3 DEF Serve, CreateInsert, CreateStatus, PatchSaveStatus, DeleteSaveStatus,
                  UpdateConnector
    <2>4. CASE Work
      BY Zenon, <2>4 DEF Work, AssignStatus, SaveDeployment, ClearNamespace, ClearedStatus,
                  DeleteConnector, DeleteStatus
    <2>5. CASE NamespaceManager \/ ClusterManager
      BY Zenon, <2>5 DEF NamespaceManager, ClusterManager, ReconcileExpiredNamespaces,
                  ReconcileUnusedDeletingNamespaces, ReconcileUsedDeletingNamespaces,
                  ReconcileDeletedNamespaces, ReconcileEmptyDeletingClusters,
                  ReconcileNonEmptyDeletingClusters
    <2>6. CASE Agent \/ Answer
      BY Zenon, <2>6 DEF Agent, Answer, AgentSync, ReportCluster, ReportDeployment,
                  ReportNamespaceDeleted, ReportPhase, ReportNamespaces
    <2>7. CASE \E pass \in Passes, c \in Connectors : Reconcile(pass, c)
      BY Zenon, <2>7 DEF Reconcile
    <2>8. CASE CleanupDeployments \/ Crash
      BY Zenon, <2>8 DEF CleanupDeployments, Crash
    <2> QED
      BY Zenon, <2>1, <2>2, <2>3, <2>4, <2>5, <2>6, <2>7, <2>8 DEF Next
  <1>2. races \in Nat /\ races' = 0 /\ ~unassign'
    BY BoundsAssumption DEF TypeOK, Undisturbed
  <1>3. Starts => (races' = IF Idle THEN races ELSE races + 1)
    BY Zenon DEF Starts
  <1> QED
    BY <1>1, <1>2, <1>3 DEF Undisturbed

\* A step that takes up nothing, and what is left of the invariant.
LEMMA NothingOpen ==
    ASSUME Idle, UNCHANGED open, NamespaceInv', \A c \in Connectors : ConnInv(c)'
    PROVE  SerialInv'
  <1>1. (\A r \in Requests : req'[r] = None) /\ work' = None /\ rep' = None
    BY Zenon DEF Idle, open
  <1>2. Alone'
    BY Zenon, <1>1 DEF Alone
  <1> QED
    BY Zenon, <1>1, <1>2 DEF SerialInv

\* Connectors, their statuses and deployments as they were.
LEMMA SameConnectors ==
    ASSUME UNCHANGED <<conn, status, dep>>, NEW c \in Connectors
    PROVE  /\ ConnInv(c) => ConnInv(c)'
           /\ Bare(c) => Bare(c)'
  BY Zenon DEF ConnInv, Bare, Owns

\* Where namespaces, deployments and the agent stay, so does what relates them.
LEMMA SameNamespaces ==
    ASSUME UNCHANGED <<ns, dep, agent>>, NamespaceInv
    PROVE  NamespaceInv'
  BY Zenon DEF NamespaceInv

\* In the namespace of a deployment there is its connector.
LEMMA Placed ==
    ASSUME RacyInv, SerialInv, NEW d \in Deployments, dep[d].row = "live"
    PROVE  /\ dep[d].conn \in Connectors /\ dep[d].ns \in Namespaces
           /\ conn[dep[d].conn].row = "live" /\ conn[dep[d].conn].ns = dep[d].ns
  BY Zenon DEF RacyInv, RefsInv, SerialInv, ConnInv, Bare, Owns

\* The steps of the cluster and its namespaces.
LEMMA SerialClusters ==
    ASSUME RacyInv, SerialInv, Idle, ~unassign,
           \/ \E n \in Namespaces : \/ CreateCluster(n) \/ CreateNamespace(n) \/ DeleteNamespace(n)
                                    \/ ReportNamespaceDeleted(n)
           \/ DeleteCluster \/ NamespaceManager \/ ClusterManager
    PROVE  SerialInv'
  <1> USE DEF config, open
  <1>t. ns \in [Namespaces -> NsRow] /\ agent.nss \subseteq Namespaces
    BY Zenon, Typed DEF RacyInv
  <1>c. UNCHANGED <<conn, status, dep>> => \A c \in Connectors : ConnInv(c)'
    BY Zenon, SameConnectors DEF SerialInv
  <1>p. \A d \in Deployments : dep[d].row = "live" =>
            /\ dep[d].ns \in Namespaces /\ dep[d].ns \in agent.nss
            /\ ns[dep[d].ns].row = "live" /\ ns[dep[d].ns].phase # "deleted"
            /\ dep[d].conn \in Connectors
            /\ conn[dep[d].conn].row = "live" /\ conn[dep[d].conn].ns = dep[d].ns
    BY Zenon, Placed DEF SerialInv, NamespaceInv
  <1>q. \A n \in Namespaces : ns[n].row = "live" /\ ns[n].phase = "ready" => n \in agent.nss
    BY Zenon DEF SerialInv, NamespaceInv
  \* What a change of namespaces has to respect.
  <1>n. ASSUME UNCHANGED <<conn, status, dep, agent, open>>,
               \A n \in Namespaces : ns'[n].row = "live" /\ ns'[n].phase = "ready"
                                        => ns[n].row = "live" /\ ns[n].phase = "ready",
               \A d \in Deployments : dep[d].row = "live" =>
                   ns'[dep[d].ns].row = "live" /\ ns'[dep[d].ns].phase # "deleted"
        PROVE  SerialInv'
    <2>1. NamespaceInv'
      BY Zenon, <1>n, <1>p, <1>q DEF NamespaceInv
    <2> QED
      BY Zenon, <1>n, <1>c, <2>1, NothingOpen
  <1>1. ASSUME NEW n \in Namespaces, CreateCluster(n) \/ CreateNamespace(n) PROVE SerialInv'
    <2>1. /\ UNCHANGED <<conn, status, dep, agent, open>> /\ ns[n].row = "absent"
          /\ ns' = ns \/ ns' = [ns EXCEPT ![n] = NewNamespace]
      BY Zenon, <1>1 DEF CreateCluster, CreateNamespace
    <2> QED
      BY <1>t, <1>p, <1>n, <2>1 DEF NewNamespace
  <1>2. ASSUME NEW S, DeleteNamespaces(S), UNCHANGED <<conn, status, dep, agent, open>>
        PROVE  SerialInv'
    <2>1. \A n \in Namespaces : ns'[n] = ns[n] \/ (ns'[n].row = ns[n].row /\ ns'[n].phase = "deleting")
      BY Zenon, <1>t, <1>2 DEF DeleteNamespaces, NsRow
    <2> QED
      BY Zenon, <1>p, <1>n, <1>2, <2>1
  <1>3. ASSUME NEW n \in Namespaces, DeleteNamespace(n) PROVE SerialInv'
    BY Zenon, <1>2, <1>3 DEF DeleteNamespace
  <1>4. ASSUME NEW S \in SUBSET Namespaces, ReconcileExpiredNamespaces(S) PROVE SerialInv'
    BY Zenon, <1>2, <1>4 DEF ReconcileExpiredNamespaces
  <1>5. CASE ReconcileNonEmptyDeletingClusters
    BY Zenon, <1>2, <1>5 DEF ReconcileNonEmptyDeletingClusters
  <1>6. CASE DeleteCluster \/ ReconcileEmptyDeletingClusters
    <2>1. UNCHANGED <<ns, conn, status, dep, agent, open>>
      BY Zenon, <1>6 DEF DeleteCluster, ReconcileEmptyDeletingClusters
    <2> QED
      BY Zenon, <1>p, <1>n, <2>1
  <1>7. ASSUME NEW n \in Namespaces, ReportNamespaceDeleted(n) PROVE SerialInv'
    <2>1. /\ UNCHANGED <<conn, status, dep, agent, open>>
          /\ ns' = [ns EXCEPT ![n].phase = "deleted", ![n].seen = TRUE]
          /\ \A d \in Deployments : dep[d].row = "live" => dep[d].ns # n
      BY Zenon, <1>7, Typed DEF ReportNamespaceDeleted, Live, RacyInv
    <2>2. \A m \in Namespaces : ns'[m] = ns[m] \/ (m = n /\ ns'[m].phase = "deleted")
      BY Zenon, <1>t, <2>1 DEF NsRow
    <2>3. \A d \in Deployments : dep[d].row = "live" =>
              ns'[dep[d].ns].row = "live" /\ ns'[dep[d].ns].phase # "deleted"
      BY Zenon, <1>p, <2>1, <2>2
    <2>4. \A x \in Namespaces : ns'[x].row = "live" /\ ns'[x].phase = "ready"
                                   => ns[x].row = "live" /\ ns[x].phase = "ready"
      BY Zenon, <2>1, <2>2
    <2> QED
      BY Zenon, <1>n, <2>1, <2>3, <2>4
  <1>8. CASE ReconcileUnusedDeletingNamespaces
    <2>1. /\ UNCHANGED <<conn, status, dep, agent, open>>
          /\ \A n \in Namespaces :
               \/ ns'[n] = ns[n]
               \/ /\ ns'[n] = [ns[n] EXCEPT !.phase = "deleted"]
                  /\ \A c \in Connectors : conn[c].row # "absent" => conn[c].ns # n
      BY Zenon, <1>8 DEF ReconcileUnusedDeletingNamespaces
    <2>2. \A n \in Namespaces :
            \/ ns'[n] = ns[n]
            \/ /\ ns'[n].phase = "deleted"
               /\ \A d \in Deployments : dep[d].row = "live" => dep[d].ns # n
      <3> SUFFICES ASSUME NEW n \in Namespaces, ns'[n] # ns[n]
                   PROVE  /\ ns'[n].phase = "deleted"
                          /\ \A d \in Deployments : dep[d].row = "live" => dep[d].ns # n
        BY Zenon
      <3>1. /\ ns'[n] = [ns[n] EXCEPT !.phase = "deleted"]
            /\ \A c \in Connectors : conn[c].row # "absent" => conn[c].ns # n
        BY Zenon, <2>1
      <3>2. ns'[n].phase = "deleted"
        BY Zenon, <1>t, <3>1 DEF NsRow
      <3>3. \A d \in Deployments : dep[d].row = "live" => dep[d].ns # n
        BY <1>p, <3>1
      <3> QED
        BY Zenon, <3>2, <3>3
    <2>3. \A d \in Deployments : dep[d].row = "live" =>
              ns'[dep[d].ns].row = "live" /\ ns'[dep[d].ns].phase # "deleted"
      BY <1>p, <2>1, <2>2
    <2>4. \A x \in Namespaces : ns'[x].row = "live" /\ ns'[x].phase = "ready"
                                   => ns[x].row = "live" /\ ns[x].phase = "ready"
      BY Zenon, <2>1, <2>2
    <2> QED
      BY Zenon, <1>n, <2>1, <2>3, <2>4
  <1>9. CASE ReconcileDeletedNamespaces
    <2>1. /\ UNCHANGED <<conn, status, dep, agent, open>>
          /\ \A n \in Namespaces :
               \/ ns'[n] = ns[n]
               \/ ns'[n] = [ns[n] EXCEPT !.row = "gone"] /\ ns[n].phase = "deleted"
      BY Zenon, <1>9 DEF ReconcileDeletedNamespaces, NamespacesWith, Live
    <2>2. \A n \in Namespaces : ns'[n] = ns[n] \/ (ns'[n].row = "gone" /\ ns[n].phase = "deleted")
      BY Zenon, <1>t, <2>1 DEF NsRow
    <2>3. \A d \in Deployments : dep[d].row = "live" =>
              ns'[dep[d].ns].row = "live" /\ ns'[dep[d].ns].phase # "deleted"
      BY <1>p, <2>1, <2>2
    <2>4. \A x \in Namespaces : ns'[x].row = "live" /\ ns'[x].phase = "ready"
                                   => ns[x].row = "live" /\ ns[x].phase = "ready"
      BY Zenon, <2>1, <2>2
    <2> QED
      BY Zenon, <1>n, <2>1, <2>3, <2>4
  <1>10. CASE ReconcileUsedDeletingNamespaces
    <2>1. UNCHANGED <<ns, dep, agent, open>>
      BY Zenon, <1>10 DEF ReconcileUsedDeletingNamespaces
    <2>2. ASSUME NEW c \in Connectors PROVE ConnInv(c)'
      <3>1. conn[c] \in ConnRow /\ status[c] \in StatusRow
        BY Zenon, Typed DEF RacyInv
      <3>2. /\ \/ conn'[c] = conn[c] \/ conn'[c] = [conn[c] EXCEPT !.desired = "deleted", !.ver = @ + 1]
            /\ \/ status'[c] = status[c] \/ status'[c] = [status[c] EXCEPT !.phase = "deleting"]
        BY Zenon, <1>10 DEF ReconcileUsedDeletingNamespaces, deleteNamespaceConnectors
      <3>3. /\ conn'[c].row = conn[c].row /\ conn'[c].ns = conn[c].ns
            /\ conn'[c].desired \in {conn[c].desired, "deleted"}
            /\ status'[c].row = status[c].row /\ status'[c].phase \in {status[c].phase, "deleting"}
        BY Zenon, <3>1, <3>2 DEF ConnRow, StatusRow
      <3> QED
        BY ZenonT(40), <2>1, <3>3 DEF SerialInv, ConnInv, Bare, Owns, Vacant
    <2> QED
      BY Zenon, <2>1, <2>2, NothingOpen, SameNamespaces DEF SerialInv
  <1> QED
    BY ZenonT(40), <1>1, <1>3, <1>4, <1>5, <1>6, <1>7, <1>8, <1>9, <1>10 DEF NamespaceManager,
       ClusterManager

\* The actors that start, and the rows they read or remove.
LEMMA SerialStarts ==
    ASSUME RacyInv, RacyInv', SerialInv, Idle, ~unassign,
           \/ \E c \in Connectors : ForceDelete(c)
           \/ CleanupDeployments \/ AgentSync \/ ReportCluster
           \/ \E pass \in Passes, c \in Connectors : Reconcile(pass, c)
           \/ \E d \in Deployments, phase \in Phases : ReportDeployment(d, phase)
    PROVE  SerialInv'
  <1> USE DEF config, open, rows
  <1>t. TypeOK
    BY Zenon DEF RacyInv
  <1>i. (\A r \in Requests : req[r] = None) /\ work = None /\ rep = None
    BY Zenon DEF Idle
  <1>c. UNCHANGED <<conn, status, dep>> => \A c \in Connectors : ConnInv(c)'
    BY Zenon, SameConnectors DEF SerialInv
  \* With fewer deployments.
  <1>f. ASSUME \A d \in Deployments : dep'[d].row = "live" => dep'[d] = dep[d]
        PROVE  /\ \A c \in Connectors : conn'[c] = conn[c] /\ status'[c] = status[c] => ConnInv(c)'
               /\ UNCHANGED <<ns, agent>> => NamespaceInv'
    <2>1. \A c, d : d \in Deployments /\ Owns(c, d)' => Owns(c, d) /\ dep'[d] = dep[d]
      BY Zenon, <1>f DEF Owns
    <2>2. \A c : Bare(c) => Bare(c)'
      BY Zenon, <2>1 DEF Bare
    <2>3. \A c \in Connectors : conn'[c] = conn[c] /\ status'[c] = status[c] => ConnInv(c)'
      BY <2>1, <2>2 DEF SerialInv, ConnInv
    <2>4. UNCHANGED <<ns, agent>> => NamespaceInv'
      BY Zenon, <1>f DEF SerialInv, NamespaceInv
    <2> QED
      BY Zenon, <2>3, <2>4
  <1>1. ASSUME NEW c \in Connectors, ForceDelete(c) PROVE SerialInv'
    <2>0. ConnInv(c)
      BY Zenon DEF SerialInv
    <2>1. conn[c].row = "live"
      <3>1. Bare(c) => DeploymentsOf(c) = {}
        BY <1>t DEF Bare, Owns, DeploymentsOf, Live, TypeOK
      <3> QED
        BY ZenonT(40), <1>1, <2>0, <3>1 DEF ForceDelete, ConnInv
    <2>2. UNCHANGED <<cluster, ns, agent, open>>
      BY Zenon, <1>1 DEF ForceDelete
    <2>3. \A d \in Deployments : dep'[d].row = "live" => dep'[d] = dep[d] /\ ~Owns(c, d)
      <3>1. CASE DeploymentsOf(c) = {} /\ dep' = dep
        BY Zenon, <1>t, <3>1 DEF Owns, DeploymentsOf, Live, TypeOK
      <3>2. ASSUME NEW e \in DeploymentsOf(c), dep' = [dep EXCEPT ![e].row = "gone"]
            PROVE  \A d \in Deployments : dep'[d].row = "live" => dep'[d] = dep[d] /\ ~Owns(c, d)
        <4>1. e \in Deployments /\ Owns(c, e)
          BY Zenon, <1>t, <3>2 DEF Owns, DeploymentsOf, Live, TypeOK
        <4>2. \A d \in Deployments : Owns(c, d) => d = e
          BY Zenon, <2>0, <4>1 DEF ConnInv
        <4>3. dep'[e].row = "gone" /\ \A d \in Deployments \ {e} : dep'[d] = dep[d]
          BY ZenonT(40), <1>t, <3>2, <4>1, Typed DEF DepRow
        <4> QED
          BY Zenon, <4>2, <4>3
      <3> QED
        BY Zenon, <1>1, <3>1, <3>2 DEF ForceDelete
    <2>4. /\ conn' = [conn EXCEPT ![c].row = "gone"]
          /\ status' = [status EXCEPT ![c].row = IF @ = "live" THEN "gone" ELSE @]
      BY Zenon, <1>1, <2>1 DEF ForceDelete
    <2>5. \A x \in Connectors \ {c} : conn'[x] = conn[x] /\ status'[x] = status[x]
      BY Zenon, <1>t, <2>4 DEF TypeOK
    <2>6. ConnInv(c)'
      <3>1. conn'[c].row = "gone" /\ conn'[c].desired = conn[c].desired
        BY <1>t, <2>4 DEF TypeOK, ConnRow
      <3>2. \A d \in Deployments : ~Owns(c, d)'
        BY Zenon, <2>3 DEF Owns
      <3> QED
        BY Zenon, <2>0, <3>1, <3>2 DEF ConnInv, Bare
    <2> QED
      BY Zenon, <1>f, <1>i, <2>2, <2>3, <2>5, <2>6, NothingOpen
  <1>2. ~CleanupDeployments
    <2>1. \A d \in Live(dep) : conn[dep[d].conn].row = "live"
      BY Zenon, <1>t, Placed DEF Live, TypeOK
    <2> QED
      BY Zenon, <2>1 DEF CleanupDeployments
  <1>3. CASE AgentSync
    <2>1. UNCHANGED <<ns, conn, status, dep, open>>
      BY Zenon, <1>3 DEF AgentSync
    <2>2. agent'.nss = {n \in Live(ns) :
                          \/ ns[n].phase \in {"disconnected", "ready"}
                          \/ n \in agent.nss /\ \E d \in Listed : dep[d].ns = n}
      BY Zenon, <1>3 DEF AgentSync
    <2>3. \A n \in Namespaces : ns[n].row = "live" /\ ns[n].phase = "ready" => n \in agent'.nss
      BY <1>t, <2>2 DEF Live, TypeOK
    <2>4. ASSUME NEW d \in Deployments, dep[d].row = "live" PROVE dep[d].ns \in agent'.nss
      <3>1. d \in Listed /\ dep[d].ns \in Namespaces
        BY Zenon, <1>t, <2>4, Placed DEF Listed, Live, TypeOK
      <3>2. dep[d].ns \in agent.nss /\ ns[dep[d].ns].row = "live"
        BY Zenon, <2>4 DEF SerialInv, NamespaceInv
      <3> QED
        BY ZenonT(40), <1>t, <2>2, <3>1, <3>2 DEF Live, TypeOK
    <2>5. NamespaceInv'
      BY Zenon, <2>1, <2>3, <2>4 DEF SerialInv, NamespaceInv
    <2> QED
      BY Zenon, <1>c, <2>1, <2>5, NothingOpen
  <1>4. CASE ReportCluster
    <2>1. UNCHANGED <<rows, req, work>> /\ rep'.kind = "connect"
      BY Zenon, <1>4 DEF ReportCluster
    <2>2. Alone' /\ NamespaceInv'
      BY Zenon, <1>i, <2>1, SameNamespaces DEF Alone, SerialInv
    <2> QED
      BY Zenon, <1>i, <1>c, <2>1, <2>2 DEF SerialInv, RepInv
  <1>5. ASSUME NEW pass \in Passes, NEW c \in Connectors, Reconcile(pass, c) PROVE SerialInv'
    <2>0. ConnInv(c)
      BY Zenon DEF SerialInv
    <2>1. UNCHANGED <<rows, req, rep>>
      BY Zenon, <1>5 DEF Reconcile
    <2>2. Alone' /\ NamespaceInv'
      BY Zenon, <1>i, <2>1, SameNamespaces DEF Alone, SerialInv
    <2>3. work' = [pass |-> pass, step |-> 1, c |-> c, ns |-> conn[c].ns, status |-> status[c]]
      BY Zenon, <1>5 DEF Reconcile
    <2>4. conn[c].row = "live" /\ status[c].row = "live"
      BY Zenon, <1>5 DEF Reconcile, Selected
    <2>5. pass # "unassigned"
      BY Zenon, <1>5, <2>0 DEF Reconcile, Selected, ConnInv
    <2>6. Bare(c)
      <3>1. CASE pass \in {"assigning", "deleted"}
        <4>1. status[c].phase \in Vacant
          BY Zenon, <1>5, <3>1 DEF Reconcile, Selected, Vacant
        <4> QED
          BY Zenon, <2>0, <4>1 DEF ConnInv
      <3>2. CASE pass = "deleting"
        <4>1. DeploymentsOf(c) = {}
          BY Zenon, <1>5, <3>2 DEF Reconcile, Ready
        <4> QED
          BY Zenon, <1>t, <4>1 DEF DeploymentsOf, Live, Bare, Owns, TypeOK
      <3> QED
        BY Zenon, <2>5, <3>1, <3>2 DEF Passes
    <2>7. pass = "assigning" => ns[conn[c].ns].row = "live" /\ ns[conn[c].ns].phase = "ready"
      BY Zenon, <1>5 DEF Reconcile, Ready
    <2>8. WorkInv'
      BY <2>1, <2>3, <2>4, <2>5, <2>6, <2>7 DEF WorkInv, Bare, Owns
    <2> QED
      BY Zenon, <1>i, <1>c, <2>1, <2>2, <2>8 DEF SerialInv
  <1>6. ASSUME NEW d \in Deployments, NEW phase \in Phases, ReportDeployment(d, phase)
        PROVE  SerialInv'
    <2>c. PICK c \in Connectors : c = dep[d].conn
      BY Zenon, <1>6, Placed DEF ReportDeployment
    <2>1. UNCHANGED <<ns, conn, status, agent, req, work>> /\ Owns(c, d)
      BY Zenon, <1>6, <2>c DEF ReportDeployment, Owns
    <2>2. rep' = [kind |-> "status", c |-> c, phase |-> phase]
      BY Zenon, <1>6, <2>c DEF ReportDeployment
    <2>3. phase # "assigning"
      BY Zenon, <1>6 DEF ReportDeployment, AgentPhases
    <2>4. dep' = IF phase = "deleted" THEN [dep EXCEPT ![d].row = "gone"] ELSE dep
      BY Zenon, <1>6 DEF ReportDeployment
    <2>5. /\ \A e \in Deployments \ {d} : dep'[e] = dep[e]
          /\ phase = "deleted" => dep'[d].row = "gone"
          /\ phase # "deleted" => dep'[d] = dep[d]
      BY Zenon, <1>t, <2>4, Typed DEF DepRow
    <2>6. \A e \in Deployments : dep'[e].row = "live" => dep'[e] = dep[e]
      BY Zenon, <2>5
    <2>7. NamespaceInv' /\ \A x \in Connectors : ConnInv(x)'
      BY Zenon, <1>f, <2>1, <2>6
    <2>9. phase = "deleted" => Bare(c)'
      <3>1. \A e \in Deployments : Owns(c, e) => e = d
        BY Zenon, <2>1 DEF SerialInv, ConnInv
      <3> QED
        BY Zenon, <2>5, <2>6, <3>1 DEF Bare, Owns
    <2>10. RepInv'
      <3>1. rep'.c = c /\ rep'.phase = phase
        BY Zenon, <2>2
      <3> QED
        BY Zenon, <2>3, <2>9, <3>1 DEF RepInv, Bare, Owns
    <2>11. Alone'
      BY Zenon, <1>i, <2>1 DEF Alone
    <2> QED
      BY Zenon, <1>i, <2>1, <2>7, <2>10, <2>11 DEF SerialInv
  <1> QED
    BY Zenon, <1>1, <1>2, <1>3, <1>4, <1>5, <1>6

\* A save of a status that has not been removed.
LEMMA SavedStatus ==
    ASSUME TypeOK, NEW c \in Connectors, NEW t \in StatusRow, status[c].row # "gone",
           SaveStatus(c, t)
    PROVE  /\ \A x \in Connectors \ {c} : status'[x] = status[x]
           /\ status'[c] = t \/ (status' = status /\ t.row = "absent")
  BY Zenon DEF SaveStatus, TypeOK

\* A step on connector c alone, which keeps its deployments and its invariant.
LEMMA OneConnector ==
    ASSUME SerialInv, NEW c \in Connectors, UNCHANGED dep,
           \A x \in Connectors \ {c} : conn'[x] = conn[x] /\ status'[x] = status[x],
           conn'[c].desired # "unassigned",
           conn'[c].row = "absent" => status'[c].row = "absent",
           conn'[c].row = "live" => status'[c].row # "gone",
           conn'[c].row # "live" \/ conn'[c].ns = None \/ status'[c].phase \in Vacant => Bare(c),
           Bare(c) \/ conn'[c].ns = conn[c].ns
    PROVE  \A x \in Connectors : ConnInv(x)'
  <1>1. \A x, d : Owns(x, d)' <=> Owns(x, d)
    BY Zenon DEF Owns
  <1>2. \A x : Bare(x)' <=> Bare(x)
    BY Zenon, <1>1 DEF Bare
  <1>3. ASSUME NEW x \in Connectors \ {c} PROVE ConnInv(x)'
    BY ZenonT(40), <1>1, <1>2, <1>3 DEF SerialInv, ConnInv
  <1>4. ConnInv(c)'
    BY Zenon, <1>1, <1>2 DEF SerialInv, ConnInv, Bare
  <1> QED
    BY Zenon, <1>3, <1>4

\* A request starts: it reads the rows, and writes none.
LEMMA SerialReads ==
    ASSUME RacyInv, SerialInv, Idle, ~unassign, NEW r \in Requests, NEW c \in Connectors,
           \/ \E n \in Namespaces \cup {None} : Create(r, c, n)
           \/ \E want \in Desired : Patch(r, c, want)
           \/ Delete(r, c)
    PROVE  SerialInv'
  <1> USE DEF config, open, rows
  <1>t. TypeOK
    BY Zenon DEF RacyInv
  <1>i. (\A q \in Requests : req[q] = None) /\ work = None /\ rep = None
    BY Zenon DEF Idle
  <1>1. UNCHANGED <<cluster, ns, conn, status, dep, agent, work, rep>>
    BY Zenon DEF Create, Patch, Delete, ReadConnector
  <1>2. NamespaceInv' /\ \A x \in Connectors : ConnInv(x)'
    BY Zenon, <1>1, SameConnectors, SameNamespaces DEF SerialInv
  <1>3. ConnInv(c)
    BY Zenon DEF SerialInv
  <1>4. ASSUME NEW q, req' = [req EXCEPT ![r] = q], ReqInv(r)' PROVE SerialInv'
    <2>1. \A x \in Requests \ {r} : req'[x] = None
      BY ZenonT(40), <1>t, <1>i, <1>4 DEF TypeOK
    <2>2. Alone'
      BY Zenon, <1>i, <1>1, <2>1 DEF Alone
    <2> QED
      BY ZenonT(40), <1>i, <1>1, <1>2, <1>4, <2>1, <2>2 DEF SerialInv
  <1>5. ASSUME NEW n \in Namespaces \cup {None}, Create(r, c, n) PROVE SerialInv'
    <2> DEFINE q == [kind |-> "create", step |-> 1, c |-> c, want |-> "ready",
                     conn |-> NewConnector(n), status |-> status[c]]
    <2>1. req' = [req EXCEPT ![r] = q] /\ n # None /\ conn[c].row = "absent"
      BY Zenon, <1>5 DEF Create
    <2>2. req'[r] = q
      BY Zenon, <1>t, <2>1 DEF TypeOK
    <2>3. Bare(c)'
      BY ZenonT(40), <1>1, <1>3, <2>1, SameConnectors DEF ConnInv
    <2>4. ReqInv(r)'
      BY <2>1, <2>2, <2>3 DEF ReqInv, NewConnector
    <2> HIDE DEF q
    <2> QED
      BY Zenon, <1>4, <2>1, <2>4
  <1>6. ASSUME NEW kind \in {"patch", "delete"}, NEW want, ReadConnector(r, kind, c, want),
               want # "unassigned"
        PROVE  SerialInv'
    <2> DEFINE q == [kind |-> kind, step |-> 1, c |-> c, want |-> want,
                     conn |-> conn[c], status |-> status[c]]
    <2>1. req' = [req EXCEPT ![r] = q] /\ conn[c].row = "live"
      BY Zenon, <1>6 DEF ReadConnector
    <2>2. req'[r] = q
      BY Zenon, <1>t, <2>1 DEF TypeOK
    <2>3. Bare(c) => Bare(c)'
      BY ZenonT(40), <1>1, SameConnectors
    <2>4. ReqInv(r)'
      BY <1>1, <1>3, <1>6, <2>1, <2>2, <2>3 DEF ReqInv, ConnInv
    <2> HIDE DEF q
    <2> QED
      BY Zenon, <1>4, <2>1, <2>4
  <1>7. ASSUME NEW want \in Desired, Patch(r, c, want) PROVE SerialInv'
    <2>1. ReadConnector(r, "patch", c, want) /\ want # "unassigned"
      BY Zenon, <1>3, <1>7 DEF Patch, ConnInv
    <2> QED
      BY Zenon, <1>6, <2>1
  <1>8. CASE Delete(r, c)
    BY Zenon, <1>6, <1>8 DEF Delete
  <1> QED
    BY Zenon, <1>5, <1>7, <1>8

\* A request writes, alone.
LEMMA SerialServe ==
    ASSUME RacyInv, SerialInv, NEW r \in Requests, Serve(r)
    PROVE  SerialInv'
  <1> USE DEF config, open, rows
  <1>t. TypeOK /\ PatchInv /\ CreateInv
    BY Zenon DEF RacyInv
  <1>0. req[r] # None /\ req[r] \in Request /\ UNCHANGED <<ns, dep, agent, work, rep>>
    <2>1. req[r] # None /\ UNCHANGED <<ns, dep, agent, work, rep>>
      BY Zenon DEF Serve, Serving, CreateInsert, CreateStatus, PatchSaveStatus, DeleteSaveStatus,
             UpdateConnector
    <2> QED
      BY Zenon, <1>t, <2>1, Typed
  <1>1. (\A q \in Requests \ {r} : req[q] = None) /\ work = None /\ rep = None /\ ReqInv(r)
    BY Zenon, <1>0 DEF SerialInv, Alone
  <1>2. \A q \in Requests \ {r} : req'[q] = None
    <2>1. Next
      BY Zenon DEF Next
    <2>2. ASSUME NEW q \in Requests \ {r} PROVE req'[q] = req[q]
      <3>1. \E p : req' = [req EXCEPT ![r] = p]
        <4>1. CASE CreateInsert(r)
          <5>1. req' = [req EXCEPT ![r] = [req[r] EXCEPT !.step = 2]]
            BY Zenon, <1>t, <4>1, Typed DEF CreateInsert
          <5> QED
            BY Zenon, <5>1
        <4>2. CASE PatchSaveStatus(r)
          BY Zenon, <4>2 DEF PatchSaveStatus
        <4>3. CASE DeleteSaveStatus(r)
          BY Zenon, <4>3 DEF DeleteSaveStatus
        <4> QED
          BY Zenon, <4>1, <4>2, <4>3 DEF Serve, CreateStatus, UpdateConnector
      <3> QED
        BY Zenon, <1>t, <3>1, Typed
    <2> QED
      BY Zenon, <1>1, <2>2
  <1>3. NamespaceInv' /\ Alone'
    BY Zenon, <1>0, <1>1, <1>2, SameNamespaces DEF SerialInv, Alone
  \* What is left to show.
  <1>4. ASSUME \A x \in Connectors : ConnInv(x)', req'[r] # None => ReqInv(r)'
        PROVE  SerialInv'
    BY Zenon, <1>0, <1>1, <1>2, <1>3, <1>4 DEF SerialInv
  <1>c. PICK c \in Connectors : c = req[r].c
    BY Zenon, <1>0 DEF Request
  <1>b. Bare(c) <=> Bare(c)'
    BY Zenon, <1>0 DEF Bare, Owns
  <1>k. conn[c] \in ConnRow /\ status[c] \in StatusRow /\ ConnInv(c)
    BY Zenon, <1>t DEF TypeOK, SerialInv
  <1>5. CASE CreateInsert(r)
    <2>1. req[r].kind = "create" /\ req[r].step = 1 /\ status' = status
      BY Zenon, <1>5 DEF CreateInsert, Serving
    <2>2. Bare(c) /\ req[r].conn.ns # None /\ req[r].conn.desired = "ready" /\ req[r].conn.row = "live"
      BY Zenon, <1>1, <1>c, <2>1 DEF ReqInv
    <2>3. conn'[c] = req[r].conn /\ \A x \in Connectors \ {c} : conn'[x] = conn[x]
      BY Zenon, <1>t, <1>5, <1>c DEF CreateInsert, TypeOK
    <2>4. status[c].row = "absent"
      <3>1. conn[c].row = "absent"
        BY Zenon, <1>t, <1>0, <1>c, <2>1 DEF CreateInv
      <3> QED
        BY Zenon, <1>k, <3>1 DEF ConnInv
    <2>5. \A x \in Connectors : ConnInv(x)'
      BY Zenon, <1>0, <2>1, <2>2, <2>3, <2>4, OneConnector
    <2>6. /\ req'[r].kind = "create" /\ req'[r].c = c /\ req'[r].conn = req[r].conn
      BY Zenon, <1>t, <1>0, <1>5, <1>c, <2>1, Typed DEF CreateInsert, Request
    <2>7. ReqInv(r)'
      BY Zenon, <1>b, <2>2, <2>3, <2>6 DEF ReqInv
    <2> QED
      BY Zenon, <1>4, <2>5, <2>7
  <1>6. CASE CreateStatus(r)
    <2>1. req[r].kind = "create" /\ req[r].step = 2 /\ conn' = conn /\ req'[r] = None
      BY Zenon, <1>t, <1>6 DEF CreateStatus, Serving, TypeOK
    <2>2. Bare(c) /\ conn[c].row = "live"
      BY Zenon, <1>1, <1>c, <2>1 DEF ReqInv
    <2>3. /\ status'[c] = [row |-> "live", phase |-> "assigning", ns |-> None]
          /\ \A x \in Connectors \ {c} : status'[x] = status[x]
      BY ZenonT(40), <1>t, <1>6, <1>c DEF CreateStatus, TypeOK
    <2>4. conn'[c].desired # "unassigned" /\ status'[c].row = "live"
      BY <1>k, <2>1, <2>3 DEF ConnInv
    <2>5. \A x \in Connectors : ConnInv(x)'
      BY Zenon, <1>0, <2>1, <2>2, <2>3, <2>4, OneConnector
    <2> QED
      BY Zenon, <1>4, <2>1, <2>5
  \* PATCH and DELETE have in common what ReqInv says of them.
  <1>7. ASSUME req[r].kind \in {"patch", "delete"}
        PROVE  /\ conn[c].row = "live" /\ req[r].conn.ns = conn[c].ns
               /\ req[r].want # "unassigned" /\ req[r].conn.desired # "unassigned"
               /\ req[r].status.row # "gone" /\ req[r].status \in StatusRow
               /\ req[r].status.phase \in Vacant => Bare(c)
               /\ status[c].row # "gone" /\ conn[c].desired # "unassigned"
               /\ conn[c].ns = None => Bare(c)
               /\ status[c].phase \in Vacant => Bare(c)
    BY Zenon, <1>0, <1>1, <1>7, <1>c, <1>k DEF ReqInv, Request, ConnInv
  <1>8. ASSUME req[r].kind \in {"patch", "delete"}, conn' = conn,
               NEW phase \in Phases, phase \in Vacant => Bare(c),
               status' = status \/ SaveStatus(c, [req[r].status EXCEPT !.phase = phase])
        PROVE  \A x \in Connectors : ConnInv(x)'
    <2> DEFINE t == [req[r].status EXCEPT !.phase = phase]
    <2>1. t \in StatusRow /\ t.row = req[r].status.row /\ t.phase = phase
      BY Zenon, <1>7, <1>8, StatusOf
    <2>2. /\ \A x \in Connectors \ {c} : status'[x] = status[x]
          /\ status'[c] = t \/ status'[c] = status[c]
      BY Zenon, <1>t, <1>7, <1>8, <2>1, SavedStatus
    <2>3. status'[c].row # "gone" /\ (status'[c].phase \in Vacant => Bare(c))
      BY Zenon, <1>7, <1>8, <2>1, <2>2
    <2> HIDE DEF t
    <2> QED
      BY ZenonT(40), <1>0, <1>7, <1>8, <2>2, <2>3, OneConnector
  <1>9. ASSUME req[r].kind \in {"patch", "delete"}, Continues(r),
               req'[r].status.phase \in Vacant => Bare(c)
        PROVE  ReqInv(r)'
    <2>1. /\ req'[r].kind = req[r].kind /\ req'[r].c = c /\ req'[r].want = req[r].want
          /\ req'[r].conn.ns = req[r].conn.ns /\ req'[r].status.row = req[r].status.row
          /\ req'[r].conn.desired \in {req[r].want, "deleted"} /\ conn' = conn
      BY Zenon, <1>9, <1>c DEF Continues
    <2> QED
      BY Zenon, <1>7, <1>9, <1>b, <2>1 DEF ReqInv
  <1>10. CASE PatchSaveStatus(r)
    <2>0. req[r].kind = "patch" /\ conn' = conn
      BY Zenon, <1>10 DEF PatchSaveStatus, Serving
    <2>1. CASE req' = [req EXCEPT ![r] = None] /\ status' = status
      <3>1. req'[r] = None
        BY ZenonT(40), <1>t, <2>1 DEF TypeOK
      <3>2. \A x \in Connectors : ConnInv(x)'
        BY Zenon, <1>0, <2>0, <2>1, SameConnectors DEF SerialInv
      <3> QED
        BY Zenon, <1>4, <3>1, <3>2
    <2>2. CASE ~(req' = [req EXCEPT ![r] = None] /\ status' = status)
      <3>1. PICK phase \in Phases :
              /\ phase # "deleted"
              /\ phase = "assigning" => \/ req[r].status.phase = "assigning"
                                        \/ req[r].conn.desired = "unassigned" \/ req[r].want = "unassigned"
              /\ \/ status' = status
                 \/ SaveStatus(req[r].c, [req[r].status EXCEPT !.phase = phase])
        BY Zenon, <1>t, <1>10, <2>2, PatchSaved
      <3>2. phase \in Vacant => Bare(c)
        BY Zenon, <1>7, <2>0, <3>1 DEF Vacant
      <3>3. \A x \in Connectors : ConnInv(x)'
        BY ZenonT(40), <1>8, <1>c, <2>0, <3>1, <3>2
      <3>4. req'[r] # None => ReqInv(r)'
        <4>1. NewReq(r)
          BY Zenon DEF NewReq
        <4>2. CASE Continues(r)
          <5>1. req'[r].status.phase \in Vacant => Bare(c)
            BY Zenon, <1>7, <2>0, <4>2 DEF Continues, Vacant
          <5> QED
            BY ZenonT(40), <1>9, <2>0, <4>2, <5>1
        <4>3. ASSUME NEW x \in Connectors, NEW kind, NEW want, ReadConnector(r, kind, x, want)
              PROVE  FALSE
          BY Zenon, <1>0, <4>3 DEF ReadConnector, Free
        <4>4. ASSUME NEW x \in Connectors, NEW n, Create(r, x, n)
              PROVE  FALSE
          BY Zenon, <1>0, <4>4 DEF Create, Free
        <4> QED
          BY ZenonT(40), <1>t, <4>1, <4>2, <4>3, <4>4, ReqStep
      <3> QED
        BY Zenon, <1>4, <3>3, <3>4
    <2> QED
      BY Zenon, <2>1, <2>2
  <1>11. CASE DeleteSaveStatus(r)
    <2>0. req[r].kind = "delete" /\ conn' = conn
      BY ZenonT(40), <1>11 DEF DeleteSaveStatus, Serving
    <2>1. CASE req' = [req EXCEPT ![r] = None] /\ status' = status
      <3>1. req'[r] = None
        BY Zenon, <1>t, <2>1 DEF TypeOK
      <3>2. \A x \in Connectors : ConnInv(x)'
        BY Zenon, <1>0, <2>0, <2>1, SameConnectors DEF SerialInv
      <3> QED
        BY Zenon, <1>4, <3>1, <3>2
    <2>2. CASE ~(req' = [req EXCEPT ![r] = None] /\ status' = status)
      <3>1. PICK phase : phase = IF req[r].conn.ns = None THEN "deleted" ELSE "deleting"
        BY Zenon
      <3>2. SaveStatus(req[r].c, [req[r].status EXCEPT !.phase = phase])
        BY Zenon, <1>t, <1>11, <2>2, <3>1, DeleteSaved
      <3>3. phase \in Phases /\ (phase \in Vacant => Bare(c))
        BY Zenon, <1>7, <2>0, <3>1 DEF Vacant, Phases
      <3>4. \A x \in Connectors : ConnInv(x)'
        BY Zenon, <1>8, <1>c, <2>0, <3>2, <3>3
      <3>5. req'[r] # None => ReqInv(r)'
        <4>1. NewReq(r)
          BY Zenon DEF NewReq
        <4>2. CASE Continues(r)
          <5>1. req'[r].status.phase \in Vacant => Bare(c)
            BY Zenon, <1>7, <2>0, <4>2 DEF Continues, Vacant
          <5> QED
            BY Zenon, <1>9, <2>0, <4>2, <5>1
        <4>3. ASSUME NEW x \in Connectors, NEW kind, NEW want, ReadConnector(r, kind, x, want)
              PROVE  FALSE
          BY Zenon, <1>0, <4>3 DEF ReadConnector, Free
        <4>4. ASSUME NEW x \in Connectors, NEW n, Create(r, x, n)
              PROVE  FALSE
          BY Zenon, <1>0, <4>4 DEF Create, Free
        <4> QED
          BY Zenon, <1>t, <4>1, <4>2, <4>3, <4>4, ReqStep
      <3> QED
        BY Zenon, <1>4, <3>4, <3>5
    <2> QED
      BY Zenon, <2>1, <2>2
  <1>12. CASE UpdateConnector(r)
    <2>1. req[r].kind \in {"patch", "delete"} /\ req'[r] = None
      BY Zenon, <1>t, <1>12 DEF UpdateConnector, Serving, TypeOK
    <2>2. CASE UNCHANGED <<conn, status>>
      <3>1. \A x \in Connectors : ConnInv(x)'
        BY Zenon, <1>0, <2>2, SameConnectors DEF SerialInv
      <3> QED
        BY Zenon, <1>4, <2>1, <3>1
    <2>3. CASE ~UNCHANGED <<conn, status>>
      <3>1. /\ conn' = [conn EXCEPT ![c].desired = req[r].conn.desired, ![c].ver = @ + 1]
            /\ status' = [status EXCEPT ![c] = [req[r].status EXCEPT !.row = "live"]]
        BY Zenon, <1>12, <1>c, <2>3 DEF UpdateConnector, Update
      <3>2. /\ \A x \in Connectors \ {c} : conn'[x] = conn[x] /\ status'[x] = status[x]
            /\ conn'[c].row = conn[c].row /\ conn'[c].ns = conn[c].ns
            /\ conn'[c].desired = req[r].conn.desired
            /\ status'[c] = [req[r].status EXCEPT !.row = "live"]
        BY ZenonT(40), <1>t, <1>k, <3>1 DEF TypeOK, ConnRow
      <3>3. status'[c].row = "live" /\ status'[c].phase = req[r].status.phase
        BY Zenon, <1>7, <2>1, <3>2 DEF StatusRow
      <3>4. \A x \in Connectors : ConnInv(x)'
        BY Zenon, <1>0, <1>7, <2>1, <3>2, <3>3, OneConnector
      <3> QED
        BY Zenon, <1>4, <2>1, <3>4
    <2> QED
      BY Zenon, <2>2, <2>3
  <1> QED
    BY Zenon, <1>5, <1>6, <1>10, <1>11, <1>12 DEF Serve

\* A pass writes, alone.
LEMMA SerialWork ==
    ASSUME RacyInv, SerialInv, Work
    PROVE  SerialInv'
  <1> USE DEF config, open, rows
  <1>t. TypeOK /\ RefsInv
    BY Zenon DEF RacyInv
  <1>0. work # None /\ work \in WorkRow /\ UNCHANGED <<ns, agent, req, rep>>
    <2>1. work # None /\ UNCHANGED <<ns, agent, req, rep>>
      BY Zenon DEF Work, Working, AssignStatus, SaveDeployment, ClearNamespace, ClearedStatus,
             DeleteConnector, DeleteStatus
    <2> QED
      BY Zenon, <1>t, <2>1, Typed
  <1>1. (\A q \in Requests : req[q] = None) /\ rep = None /\ WorkInv
    BY Zenon, <1>0 DEF SerialInv, Alone
  <1>2. Alone'
    BY Zenon, <1>0, <1>1 DEF Alone
  \* What is left to show.
  <1>3. ASSUME NamespaceInv', \A x \in Connectors : ConnInv(x)', work' # None => WorkInv'
        PROVE  SerialInv'
    BY Zenon, <1>0, <1>1, <1>2, <1>3 DEF SerialInv
  <1>c. PICK c \in Connectors : c = work.c
    BY Zenon, <1>0 DEF WorkRow
  <1>k. /\ conn[c] \in ConnRow /\ status[c] \in StatusRow /\ ConnInv(c) /\ Bare(c)
        /\ work.pass # "unassigned" /\ work.status.row = "live" /\ work.status \in StatusRow
    BY Zenon, <1>t, <1>0, <1>1, <1>c DEF TypeOK, SerialInv, WorkInv, WorkRow
  <1>n. UNCHANGED dep => NamespaceInv' /\ Bare(c)'
    BY Zenon, <1>0, <1>k, SameNamespaces DEF SerialInv, Bare, Owns
  <1>s. work' = [work EXCEPT !.step = 2] =>
          /\ work'.pass = work.pass /\ work'.c = c /\ work'.ns = work.ns /\ work'.step = 2
          /\ work'.status = work.status
    BY Zenon, <1>0, <1>c DEF WorkRow
  <1>4. CASE AssignStatus
    <2>1. /\ UNCHANGED <<conn, dep>> /\ work.pass = "assigning" /\ work.step = 1
          /\ work' = [work EXCEPT !.step = 2]
      BY Zenon, <1>4 DEF AssignStatus, Working
    <2>2. /\ work.ns = conn[c].ns /\ ns[work.ns].row = "live" /\ ns[work.ns].phase = "ready"
          /\ conn[c].row = "live"
      BY Zenon, <1>1, <1>c, <2>1 DEF WorkInv
    <2> DEFINE t == [row |-> "live", phase |-> "assigned", ns |-> work.ns]
    <2>3. t \in StatusRow
      BY Zenon, <1>0 DEF StatusRow, WorkRow, Rows, Phases
    <2>4. status'[c] = t /\ \A x \in Connectors \ {c} : status'[x] = status[x]
      <3>1. SaveStatus(c, t) /\ status[c].row # "gone"
        BY Zenon, <1>4, <1>c, <1>k, <2>2 DEF AssignStatus, ConnInv
      <3>2. t.row # "absent"
        BY Zenon
      <3> HIDE DEF t
      <3> QED
        BY Zenon, <1>t, <2>3, <3>1, <3>2, SavedStatus
    <2>5. status'[c].row = "live" /\ status'[c].phase = "assigned"
      BY <2>4
    <2> HIDE DEF t
    <2>6. \A x \in Connectors : ConnInv(x)'
      BY Zenon, <1>k, <2>1, <2>2, <2>4, <2>5, OneConnector DEF ConnInv
    <2>7. WorkInv'
      BY Zenon, <1>0, <1>k, <1>n, <1>s, <2>1, <2>2, <2>5 DEF WorkInv
    <2> QED
      BY Zenon, <1>3, <1>n, <2>1, <2>6, <2>7
  <1>5. CASE SaveDeployment
    <2>1. /\ UNCHANGED <<conn, status>> /\ work.pass = "assigning" /\ work.step = 2
          /\ work' = None
      BY Zenon, <1>5 DEF SaveDeployment, Working
    <2>2. PICK n \in Namespaces : n = work.ns
      BY Zenon, <1>t, <1>0, <2>1 DEF RefsInv
    <2>3. /\ n = conn[c].ns /\ ns[n].row = "live" /\ ns[n].phase = "ready"
          /\ conn[c].row = "live" /\ status[c].phase = "assigned" /\ n \in agent.nss
      BY Zenon, <1>1, <1>c, <2>1, <2>2 DEF WorkInv, SerialInv, NamespaceInv
    <2>4. PICK d \in Deployments :
            /\ dep[d].row = "absent"
            /\ dep' = [dep EXCEPT ![d] = [row |-> "live", conn |-> c, ns |-> n]]
      BY Zenon, <1>5, <1>c, <2>2 DEF SaveDeployment
    <2>5. /\ dep'[d] = [row |-> "live", conn |-> c, ns |-> n]
          /\ \A e \in Deployments \ {d} : dep'[e] = dep[e]
      BY Zenon, <1>t, <2>4 DEF TypeOK
    <2>6. NamespaceInv'
      <3>1. \A e \in Deployments : dep'[e].row = "live" =>
              /\ dep'[e].ns \in agent.nss
              /\ ns[dep'[e].ns].row = "live" /\ ns[dep'[e].ns].phase # "deleted"
        <4>1. \A e \in Deployments \ {d} : dep'[e].row = "live" =>
                /\ dep'[e].ns \in agent.nss
                /\ ns[dep'[e].ns].row = "live" /\ ns[dep'[e].ns].phase # "deleted"
          BY Zenon, <2>5 DEF SerialInv, NamespaceInv
        <4>2. dep'[d].ns = n
          BY <2>5
        <4> QED
          BY Zenon, <2>3, <4>1, <4>2
      <3> QED
        BY Zenon, <1>0, <3>1 DEF SerialInv, NamespaceInv
    <2>7. ConnInv(c)'
      <3>1. \A e \in Deployments : Owns(c, e)' => e = d
        BY Zenon, <1>k, <2>5 DEF Bare, Owns
      <3>2. dep'[d].ns = conn'[c].ns
        BY <2>1, <2>3, <2>5
      <3>3. conn'[c].row = "live" /\ conn'[c].ns # None /\ status'[c].phase \notin Vacant
        BY Zenon, <2>1, <2>3, NoneAssumption DEF Vacant
      <3> QED
        BY Zenon, <1>k, <2>1, <3>1, <3>2, <3>3 DEF ConnInv
    <2>8. ASSUME NEW x \in Connectors \ {c} PROVE ConnInv(x)'
      <3>1. \A e \in Deployments : Owns(x, e)' => Owns(x, e) /\ dep'[e] = dep[e]
        BY <2>5, <2>8 DEF Owns
      <3> QED
        BY ZenonT(40), <2>1, <3>1 DEF SerialInv, ConnInv, Bare
    <2> QED
      BY Zenon, <1>3, <2>1, <2>6, <2>7, <2>8
  <1>6. CASE ClearNamespace
    <2>1. /\ UNCHANGED <<status, dep>> /\ work.pass = "deleting" /\ work.step = 1
          /\ work' = [work EXCEPT !.step = 2]
      BY Zenon, <1>6, <1>k DEF ClearNamespace, Working
    <2>2. conn[c].row = "live"
      BY Zenon, <1>1, <1>c, <2>1 DEF WorkInv
    <2>3. conn' = [conn EXCEPT ![c].ns = None, ![c].ver = @ + 1]
      BY Zenon, <1>6, <1>c, <2>2 DEF ClearNamespace
    <2>4. /\ conn'[c].row = "live" /\ conn'[c].desired = conn[c].desired
          /\ \A x \in Connectors \ {c} : conn'[x] = conn[x]
      BY Zenon, <1>t, <1>k, <2>2, <2>3 DEF TypeOK, ConnRow
    <2>5. \A x \in Connectors : ConnInv(x)'
      BY Zenon, <1>k, <2>1, <2>2, <2>4, OneConnector DEF ConnInv
    <2>6. WorkInv'
      BY Zenon, <1>k, <1>n, <1>s, <2>1, <2>4 DEF WorkInv
    <2> QED
      BY Zenon, <1>3, <1>n, <2>1, <2>5, <2>6
  <1>7. CASE ClearedStatus
    <2>1. UNCHANGED <<conn, dep>> /\ work.pass = "deleting" /\ work' = None
      BY ZenonT(40), <1>7, <1>k DEF ClearedStatus, Working
    <2>2. conn[c].row = "live" /\ status[c].row # "gone"
      BY ZenonT(40), <1>1, <1>c, <1>k, <2>1 DEF WorkInv, ConnInv
    <2> DEFINE t == [work.status EXCEPT !.phase = "deleted"]
    <2>3. t \in StatusRow /\ t.row = "live"
      BY ZenonT(40), <1>k, StatusOf DEF Phases
    <2>4. SaveStatus(c, t)
      BY ZenonT(40), <1>7, <1>c, <2>1 DEF ClearedStatus
    <2> HIDE DEF t
    <2>5. status'[c] = t /\ \A x \in Connectors \ {c} : status'[x] = status[x]
      BY ZenonT(40), <1>t, <2>2, <2>3, <2>4, SavedStatus
    <2>6. \A x \in Connectors : ConnInv(x)'
      BY Zenon, <1>k, <2>1, <2>2, <2>3, <2>5, OneConnector DEF ConnInv
    <2> QED
      BY ZenonT(40), <1>3, <1>n, <2>1, <2>6
  <1>8. CASE DeleteConnector
    <2>1. /\ UNCHANGED <<status, dep>> /\ work.pass = "deleted" /\ work.step = 1
      BY ZenonT(40), <1>8 DEF DeleteConnector, Working
    <2>2. conn[c].row = "live"
      BY <1>1, <1>c, <2>1 DEF WorkInv
    <2>3. conn' = [conn EXCEPT ![c].row = "gone"] /\ work' = [work EXCEPT !.step = 2]
      BY ZenonT(40), <1>8, <1>c, <2>2 DEF DeleteConnector
    <2>4. /\ conn'[c].row = "gone" /\ conn'[c].desired = conn[c].desired
          /\ \A x \in Connectors \ {c} : conn'[x] = conn[x]
      BY ZenonT(40), <1>t, <1>k, <2>3 DEF TypeOK, ConnRow
    <2>5. \A x \in Connectors : ConnInv(x)'
      BY ZenonT(40), <1>k, <2>1, <2>4, OneConnector DEF ConnInv
    <2>6. WorkInv'
      BY ZenonT(40), <1>k, <1>n, <1>s, <2>1, <2>3, <2>4 DEF WorkInv
    <2> QED
      BY ZenonT(40), <1>3, <1>n, <2>1, <2>5, <2>6
  <1>9. CASE DeleteStatus
    <2>1. UNCHANGED <<conn, dep>> /\ work.pass = "deleted" /\ work.step = 2 /\ work' = None
      BY ZenonT(40), <1>9 DEF DeleteStatus, Working
    <2>2. conn[c].row = "gone"
      BY ZenonT(40), <1>1, <1>c, <2>1 DEF WorkInv
    <2>3. \A x \in Connectors \ {c} : status'[x] = status[x]
      BY ZenonT(40), <1>t, <1>9, <1>c DEF DeleteStatus, TypeOK
    <2>4. \A x \in Connectors : ConnInv(x)'
      BY ZenonT(40), <1>k, <2>1, <2>2, <2>3, OneConnector DEF ConnInv
    <2> QED
      BY ZenonT(40), <1>3, <1>n, <2>1, <2>4
  <1> QED
    BY Zenon, <1>4, <1>5, <1>6, <1>7, <1>8, <1>9 DEF Work

\* A report is answered, alone; or a process stops.
LEMMA SerialAnswer ==
    ASSUME RacyInv, SerialInv, Answer \/ Crash
    PROVE  SerialInv'
  <1> USE DEF config, open, rows
  <1>t. TypeOK
    BY ZenonT(40) DEF RacyInv
  <1>1. CASE ReportPhase
    <2>1. /\ rep # None /\ rep.kind = "status" /\ rep' = None
          /\ UNCHANGED <<ns, conn, dep, agent, req, work>>
      BY Zenon, <1>1 DEF ReportPhase
    <2>2. PICK c \in Connectors : c = rep.c
      BY ZenonT(40), <1>t, <2>1, Typed DEF ReportType
    <2>3. rep.phase \in Vacant => Bare(c)
      BY ZenonT(40), <2>1, <2>2 DEF SerialInv, RepInv, Vacant
    <2>4. /\ \A x \in Connectors \ {c} : status'[x] = status[x]
          /\ status'[c].row = status[c].row /\ status'[c].phase \in {status[c].phase, rep.phase}
      BY <1>t, <1>1, <2>2 DEF ReportPhase, TypeOK, StatusRow
    <2>5. ConnInv(c)
      BY Zenon DEF SerialInv
    <2>6. \A x \in Connectors : ConnInv(x)'
      <3>1. status'[c].phase \in Vacant => Bare(c) \/ status[c].phase \in Vacant
        BY Zenon, <2>3, <2>4
      <3> QED
        BY Zenon, <2>1, <2>4, <2>5, <3>1, OneConnector DEF ConnInv
    <2>7. Alone' /\ NamespaceInv'
      BY Zenon, <2>1, SameNamespaces DEF SerialInv, Alone
    <2>8. (\A r \in Requests : req'[r] = None) /\ work' = None
      BY Zenon, <2>1 DEF SerialInv, Alone
    <2> QED
      BY ZenonT(40), <2>1, <2>6, <2>7, <2>8 DEF SerialInv
  <1>2. CASE ReportNamespaces
    <2>1. /\ rep # None /\ rep.kind = "connect" /\ rep' = None
          /\ UNCHANGED <<conn, status, dep, agent, req, work>>
          /\ ns' = ns \/ ns' = Reported(rep.phase)
      BY Zenon, <1>2 DEF ReportNamespaces
    <2>2. rep.phase \in {"ready", "deleting"}
      BY Zenon, <1>t, <2>1, Typed DEF ReportType
    <2>3. \A n \in Namespaces :
            /\ ns'[n].row = ns[n].row
            /\ ns'[n].phase = "ready" => ns[n].phase = "ready" \/ n \in agent.nss
            /\ ns'[n].phase = "deleted" => ns[n].phase = "deleted" \/ n \notin agent.nss
      BY Zenon, <1>t, <2>1, <2>2, ReportedPhase
    <2>4. \A d \in Deployments : dep[d].row = "live" => dep[d].ns \in Namespaces
      BY Zenon, Placed
    <2>5. NamespaceInv'
      BY Zenon, <2>1, <2>3, <2>4 DEF SerialInv, NamespaceInv
    <2>6. \A x \in Connectors : ConnInv(x)'
      BY Zenon, <2>1, SameConnectors DEF SerialInv
    <2>7. (\A r \in Requests : req'[r] = None) /\ work' = None
      BY Zenon, <2>1 DEF SerialInv, Alone
    <2> QED
      BY Zenon, <2>1, <2>5, <2>6, <2>7 DEF SerialInv, Alone
  <1>3. CASE Crash
    <2>1. UNCHANGED <<cluster, ns, conn, status, dep, agent>>
      BY Zenon, <1>3 DEF Crash
    <2>2. /\ \A r \in Requests : req'[r] = None \/ req'[r] = req[r]
          /\ work' = None \/ work' = work
          /\ rep' = None \/ rep' = rep
      BY Zenon, <1>t, <1>3 DEF Crash, TypeOK
    <2>3. \A c : Bare(c)' <=> Bare(c)
      BY Zenon, <2>1 DEF Bare, Owns
    <2>4. Alone' /\ NamespaceInv'
      BY Zenon, <2>1, <2>2, SameNamespaces DEF SerialInv, Alone
    <2>5. \A x \in Connectors : ConnInv(x)'
      BY Zenon, <2>1, SameConnectors DEF SerialInv
    <2>6. ASSUME NEW r \in Requests, req'[r] # None PROVE ReqInv(r)'
      BY Zenon, <2>1, <2>2, <2>3, <2>6 DEF SerialInv, ReqInv
    <2>7. work' # None => WorkInv'
      BY Zenon, <2>1, <2>2, <2>3 DEF SerialInv, WorkInv
    <2>8. rep' # None => RepInv'
      BY Zenon, <2>2, <2>3 DEF SerialInv, RepInv
    <2> QED
      BY Zenon, <2>4, <2>5, <2>6, <2>7, <2>8 DEF SerialInv
  <1> QED
    BY ZenonT(40), <1>1, <1>2, <1>3 DEF Answer

\* Every step after which there has been no race.
LEMMA SerialStep ==
    ASSUME RacyInv, RacyInv', [Next]_vars, Undisturbed => SerialInv
    PROVE  Undisturbed' => SerialInv'
  <1> SUFFICES ASSUME Undisturbed' PROVE SerialInv'
    BY Zenon
  <1>1. Undisturbed /\ (Starts => Idle)
    BY Zenon, QuietStep DEF RacyInv
  <1>2. SerialInv /\ ~unassign
    BY Zenon, <1>1 DEF Undisturbed
  <1>3. CASE UNCHANGED vars
    <2>1. UNCHANGED <<ns, conn, status, dep, agent, req, work, rep>>
      BY Zenon, <1>3 DEF vars
    <2>2. Alone' /\ NamespaceInv'
      BY Zenon, <1>2, <2>1 DEF SerialInv, Alone, NamespaceInv
    <2>3. \A c : Bare(c)' <=> Bare(c)
      BY Zenon, <2>1 DEF Bare, Owns
    <2>4. \A c \in Connectors : ConnInv(c)'
      BY Zenon, <1>2, <2>1, <2>3 DEF SerialInv, ConnInv, Owns
    <2>5. \A r \in Requests : req'[r] # None => ReqInv(r)'
      BY Zenon, <1>2, <2>1, <2>3 DEF SerialInv, ReqInv
    <2>6. work' # None => WorkInv'
      BY Zenon, <1>2, <2>1, <2>3 DEF SerialInv, WorkInv
    <2>7. rep' # None => RepInv'
      BY Zenon, <1>2, <2>1, <2>3 DEF SerialInv, RepInv
    <2> QED
      BY Zenon, <2>2, <2>4, <2>5, <2>6, <2>7 DEF SerialInv
  <1>4. CASE User
    <2>1. Idle
      BY Zenon, <1>1, <1>4 DEF User, CreateCluster, CreateNamespace, DeleteNamespace, DeleteCluster,
                        Create, Patch, Delete, ReadConnector, ForceDelete
    <2> QED
      BY Zenon, <1>2, <1>4, <2>1, SerialClusters, SerialStarts, SerialReads DEF User
  <1>5. CASE NamespaceManager \/ ClusterManager
    <2>1. Idle
      BY Zenon, <1>1, <1>5 DEF NamespaceManager, ClusterManager, ReconcileExpiredNamespaces,
                  ReconcileUnusedDeletingNamespaces, ReconcileUsedDeletingNamespaces,
                  ReconcileDeletedNamespaces, ReconcileEmptyDeletingClusters,
                  ReconcileNonEmptyDeletingClusters
    <2> QED
      BY Zenon, <1>2, <1>5, <2>1, SerialClusters
  <1>6. CASE Agent
    <2>1. Idle
      BY Zenon, <1>1, <1>6 DEF Agent, AgentSync, ReportCluster, ReportDeployment,
         ReportNamespaceDeleted
    <2> QED
      BY Zenon, <1>2, <1>6, <2>1, SerialClusters, SerialStarts DEF Agent
  <1>7. CASE CleanupDeployments \/ \E pass \in Passes, c \in Connectors : Reconcile(pass, c)
    <2>1. Idle
      BY Zenon, <1>1, <1>7 DEF CleanupDeployments, Reconcile
    <2> QED
      BY Zenon, <1>2, <1>7, <2>1, SerialStarts
  <1> QED
    BY Zenon, <1>2, <1>3, <1>4, <1>5, <1>6, <1>7, SerialServe, SerialWork, SerialAnswer DEF Next

-----------------------------------------------------------------------------
(* The inductive invariant, and what it says.                              *)

\* The strengthened invariant: what holds with races, and what holds without.
THEOREM Invariance == Spec => []IInv
  <1>1. Init => IInv
    <2> SUFFICES ASSUME Init PROVE IInv
      BY Zenon
    <2>1. RacyInv
      BY Zenon, RacyInit
    <2>2. SerialInv
      BY Zenon DEF Init, SerialInv, Alone, NamespaceInv, ConnInv, Bare, Owns
    <2> QED
      BY Zenon, <2>1, <2>2 DEF IInv, RacyInv
  <1>2. IInv /\ [Next]_vars => IInv'
    BY Zenon, RacyStep, SerialStep DEF IInv, RacyInv
  <1> QED
    BY <1>1, <1>2, PTL DEF Spec

\* Without races, and unless connectors can be unassigned, a connector has at
\* most one deployment, whatever crashes: reconcileAssigning adds one only in
\* the phase "assigning", which no other write restores to a deployed connector.
THEOREM OneDeploymentHolds == Spec => []OneDeployment
  <1>1. IInv => OneDeployment
    <2> SUFFICES ASSUME IInv, Undisturbed, NEW c \in Connectors
                 PROVE  Cardinality(DeploymentsOf(c)) <= 1
      BY Zenon DEF OneDeployment
    <2>1. \A d, e \in DeploymentsOf(c) : d = e
      BY DEF IInv, SerialInv, ConnInv, Owns, DeploymentsOf, Live, TypeOK
    <2>2. CASE DeploymentsOf(c) = {}
      BY <2>2, FS_EmptySet
    <2>3. ASSUME NEW d \in DeploymentsOf(c) PROVE Cardinality(DeploymentsOf(c)) <= 1
      <3>1. DeploymentsOf(c) = {d}
        BY Zenon, <2>1, <2>3
      <3>2. Cardinality({d}) = 1
        BY Zenon, FS_Singleton
      <3> QED
        BY <3>1, <3>2
    <2> QED
      BY Zenon, <2>2, <2>3
  <1> QED
    BY <1>1, Invariance, PTL

\* Without races no deployment outlives its connector: reconcileDeleting looks
\* for one before it clears the namespace, and ForceDelete takes the one there is.
THEOREM NoDanglingHolds == Spec => []NoDangling
  <1>1. IInv => NoDangling
    BY Zenon, Placed DEF NoDangling, IInv, RacyInv, Live, TypeOK
  <1> QED
    BY <1>1, Invariance, PTL

\* Without races no namespace is removed before the deployments in it.
THEOREM NamespaceKeptHolds == Spec => []NamespaceKept
  <1>1. IInv => NamespaceKept
    BY Zenon DEF NamespaceKept, IInv, SerialInv, NamespaceInv, Live, TypeOK
  <1> QED
    BY <1>1, Invariance, PTL
=============================================================================
