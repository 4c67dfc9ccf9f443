-------------------------- MODULE ConnectorUpdates --------------------------
(***************************************************************************)
(* How a change of a connector reaches the agent: by version numbers.  A    *)
(* trigger gives every written row of connectors the next value of a        *)
(* sequence; the reconciler copies the versions above its lastVersion to    *)
(* the deployments; their rows get versions of a sequence of their own, and *)
(* the agent's watch sends those above the last one it sent.                *)
(*                                                                         *)
(* A sequence is not transactional: a version is taken when the row is      *)
(* written and seen when the transaction commits, so versions may appear    *)
(* out of order.  `missed' records that they did, or that a row failed.     *)
(***************************************************************************)
EXTENDS Naturals, Sequences, FiniteSets

CONSTANTS
    Connectors,
    MaxWrites,      \* bound on the updates and deletions of connectors
    MaxUpgrades,    \* bound on the changes of deployments by an administrator
    MaxFaults       \* bound on failed rows, restarts and lost connections

ASSUME ConnectorsAssumption == IsFiniteSet(Connectors)
ASSUME UpdateBounds == {MaxWrites, MaxUpgrades, MaxFaults} \subseteq Nat

VARIABLES
    seq,        \* connectors_version_seq
    conn,       \* connectors: version, and phase as the update pass sees it
    pending,    \* version written to a connector's row and not committed, or 0
    dseq,       \* connector_deployments_version_seq
    dep,        \* deployments: version, 0 if there is none, and ConnectorVersion
    dpending,   \* version written to a deployment's row and not committed, or 0
    worker,     \* the reconciler: lastVersion, pass, rows of the pass left
    watch,      \* the watch of the agent: gt_version, items left
    known,      \* the ConnectorVersion of each deployment the agent has
    missed,     \* history: what may have been passed over, by whom
    upgrades, faults

db == <<seq, conn, pending, dseq, dep, dpending, upgrades>>
vars == <<db, worker, watch, known, missed, faults>>

TypeOK ==
    /\ seq \in Nat /\ dseq \in Nat
    /\ conn \in [Connectors -> [ver : 1..seq, phase : {"assigning", "assigned", "deleting"}]]
    /\ pending \in [Connectors -> 0..seq]
    /\ dep \in [Connectors -> [ver : 0..dseq, cver : 0..seq]]
    /\ dpending \in [Connectors -> 0..dseq]
    /\ worker \in [lastVersion : 0..seq, pass : {"assigning", "updated"},
                  rows : Seq([c : Connectors, ver : 1..seq])]
    /\ watch \in [gt : 0..dseq, items : Seq([c : Connectors, ver : 1..dseq, cver : 1..seq])]
    /\ known \in [Connectors -> 0..seq]
    /\ missed \subseteq {"worker", "watch"}
    /\ upgrades \in 0..MaxUpgrades /\ faults \in 0..MaxFaults

\* Connectors just created, in some order.
Init ==
    /\ seq = Cardinality(Connectors) /\ dseq = 0
    /\ conn \in [Connectors -> [ver : 1..Cardinality(Connectors), phase : {"assigning"}]]
    /\ \A c, d \in Connectors : conn[c].ver = conn[d].ver => c = d
    /\ pending = [c \in Connectors |-> 0] /\ dpending = [c \in Connectors |-> 0]
    /\ dep = [c \in Connectors |-> [ver |-> 0, cver |-> 0]]
    /\ worker = [lastVersion |-> 0, pass |-> "updated", rows |-> <<>>]
    /\ watch = [gt |-> 0, items |-> <<>>] /\ known = [c \in Connectors |-> 0]
    /\ missed = {} /\ upgrades = 0 /\ faults = 0

-----------------------------------------------------------------------------
(* Transactions.  A row has one writer at a time, by its lock.             *)

\* Version v of a row commits after a later version of another one.
Late(table, v) == \E c \in Connectors : table[c].ver > v
Miss(who, happens) == missed' = IF happens THEN missed \cup {who} ELSE missed

\* A PATCH, or a DELETE, which writes the phase in a statement of its own.
WriteConnector(c, phase) ==
    /\ seq < Cardinality(Connectors) + MaxWrites
    /\ pending[c] = 0 /\ conn[c].phase # "deleting"
    /\ phase \in {conn[c].phase, "deleting"}
    /\ seq' = seq + 1 /\ pending' = [pending EXCEPT ![c] = seq + 1]
    /\ conn' = [conn EXCEPT ![c].phase = phase]
    /\ UNCHANGED <<dseq, dep, dpending, upgrades, worker, watch, known, faults, missed>>

CommitConnector(c) ==
    /\ pending[c] # 0 /\ Miss("worker", Late(conn, pending[c]))
    /\ conn' = [conn EXCEPT ![c].ver = pending[c]]
    /\ pending' = [pending EXCEPT ![c] = 0]
    /\ UNCHANGED <<seq, dseq, dep, dpending, upgrades, worker, watch, known, faults>>

\* PatchConnectorDeployment of an administrator leaves ConnectorVersion alone.
UpdateDeployment(c) ==
    /\ dep[c].ver # 0 /\ dpending[c] = 0
    /\ upgrades < MaxUpgrades /\ upgrades' = upgrades + 1
    /\ dseq' = dseq + 1 /\ dpending' = [dpending EXCEPT ![c] = dseq + 1]
    /\ UNCHANGED <<seq, conn, pending, dep, worker, watch, known, faults, missed>>

CommitDeployment(c) ==
    /\ dpending[c] # 0 /\ Miss("watch", Late(dep, dpending[c]))
    /\ dep' = [dep EXCEPT ![c].ver = dpending[c]]
    /\ dpending' = [dpending EXCEPT ![c] = 0]
    /\ UNCHANGED <<seq, conn, pending, dseq, upgrades, worker, watch, known, faults>>

-----------------------------------------------------------------------------
(* The reconciler.  ForEach lists the rows of a pass in one query, ordered  *)
(* by version, and works on them as they were then.                         *)

\* The answers that have exactly these rows.
Answers(rows) ==
    {s \in [1..Cardinality(rows) -> rows] : \A r \in rows : \E i \in DOMAIN s : s[i] = r}

\* Mutant: the newest change comes first.
Listings_NewestFirst(rows) ==
    {s \in Answers(rows) : \A i, j \in DOMAIN s : i < j => s[i].ver > s[j].ver}

\* No two rows of a table have the same version, so the order is determined.
Listings(rows) ==
    {s \in Answers(rows) : \A i, j \in DOMAIN s : i < j => s[i].ver < s[j].ver}

Rows(S) == {[c |-> c, ver |-> conn[c].ver] : c \in S}

\* Mutant: assigned connectors are excluded with the deleting ones.
Selected_NotAssigned(pass) ==
    IF pass = "assigning" THEN {c \in Connectors : conn[c].phase = "assigning"}
    ELSE {c \in Connectors : /\ conn[c].phase \notin {"assigning", "assigned", "deleting"}
                             /\ conn[c].ver > worker.lastVersion}

Selected(pass) ==
    IF pass = "assigning" THEN {c \in Connectors : conn[c].phase = "assigning"}
    ELSE {c \in Connectors : conn[c].phase = "assigned" /\ conn[c].ver > worker.lastVersion}

\* The passes follow each other; one that finds nothing is over at once.
StartPass ==
    LET pass == IF worker.pass = "assigning" THEN "updated" ELSE "assigning"
    IN /\ worker.rows = <<>>
       /\ \E rows \in Listings(Rows(Selected(pass))) :
             worker' = [worker EXCEPT !.pass = pass, !.rows = rows]
       /\ UNCHANGED <<db, watch, known, faults, missed>>

NextRow(pass) == worker.rows # <<>> /\ worker.pass = pass

\* SaveDeployment is a transaction of its own, with the next version.
SaveDeployment(row) ==
    /\ dpending[row.c] = 0
    /\ dseq' = dseq + 1 /\ dep' = [dep EXCEPT ![row.c] = [ver |-> dseq + 1, cver |-> row.ver]]

\* A connector whose deletion has begun is assigned all the same; the phase that
\* was written for the deletion is overwritten.
reconcileAssigning ==
    LET row == Head(worker.rows)
    IN /\ NextRow("assigning")
       /\ SaveDeployment(row)
       /\ conn' = [conn EXCEPT ![row.c].phase = "assigned"]
       /\ worker' = [worker EXCEPT !.rows = Tail(@)]
       /\ UNCHANGED <<seq, pending, dpending, upgrades, watch, known, faults, missed>>

\* Mutant: the version reached is the newest one of the table.
reconcileConnectorUpdate_SkipsToNewest ==
    LET row == Head(worker.rows)
    IN /\ NextRow("updated")
       /\ IF dep[row.c].cver # row.ver THEN SaveDeployment(row) ELSE UNCHANGED <<dseq, dep>>
       /\ worker' = [worker EXCEPT !.rows = Tail(@), !.lastVersion = seq]
       /\ UNCHANGED <<seq, conn, pending, dpending, upgrades, watch, known, faults, missed>>

\* lastVersion follows when the row's transaction has committed.
reconcileConnectorUpdate ==
    LET row == Head(worker.rows)
    IN /\ NextRow("updated")
       /\ IF dep[row.c].cver # row.ver THEN SaveDeployment(row) ELSE UNCHANGED <<dseq, dep>>
       /\ worker' = [worker EXCEPT !.rows = Tail(@), !.lastVersion = row.ver]
       /\ UNCHANGED <<seq, conn, pending, dpending, upgrades, watch, known, faults, missed>>

Fault == faults < MaxFaults /\ faults' = faults + 1

\* The row's transaction is rolled back and the next row is taken.
FailedRow ==
    /\ Fault /\ worker.rows # <<>> /\ Miss("worker", TRUE)
    /\ worker' = [worker EXCEPT !.rows = Tail(@)]
    /\ UNCHANGED <<db, watch, known>>

\* A new process, or another leader, starts with lastVersion 0.
Restart ==
    /\ Fault
    /\ worker' = [lastVersion |-> 0, pass |-> "updated", rows |-> <<>>]
    /\ missed' = missed \ {"worker"}
    /\ UNCHANGED <<db, watch, known>>

-----------------------------------------------------------------------------
(* The agent's watch: GetNextEvent of ListDeployments.                     *)

Items(S) == {[c |-> c, ver |-> dep[c].ver, cver |-> dep[c].cver] : c \in S}

ListConnectorDeployments ==
    LET newer == Items({c \in Connectors : dep[c].ver > watch.gt})
    IN /\ watch.items = <<>> /\ newer # {}
       /\ \E items \in Listings(newer) : watch' = [watch EXCEPT !.items = items]
       /\ UNCHANGED <<db, worker, known, faults, missed>>

SendEvent ==
    /\ watch.items # <<>>
    /\ watch' = [gt |-> Head(watch.items).ver, items |-> Tail(watch.items)]
    /\ known' = [known EXCEPT ![Head(watch.items).c] = Head(watch.items).cver]
    /\ UNCHANGED <<db, worker, faults, missed>>

\* A deployment that cannot be presented is left out of the list.
UnpresentableItem ==
    /\ Fault /\ watch.items # <<>> /\ Miss("watch", TRUE)
    /\ watch' = [watch EXCEPT !.items = Tail(@)]
    /\ UNCHANGED <<db, worker, known>>

\* The agent connects again with the version it has.
Reconnect ==
    /\ Fault /\ watch.items # <<>>
    /\ watch' = [watch EXCEPT !.items = <<>>]
    /\ UNCHANGED <<db, worker, known, missed>>

-----------------------------------------------------------------------------
Commits == \E c \in Connectors : CommitConnector(c) \/ CommitDeployment(c)
Reconcile == StartPass \/ reconcileAssigning \/ reconcileConnectorUpdate
Watch == ListConnectorDeployments \/ SendEvent

Next ==
    \/ \E c \in Connectors : \/ \E phase \in {"assigning", "assigned", "deleting"} :
                                 WriteConnector(c, phase)
                             \/ UpdateDeployment(c)
    \/ Commits \/ Reconcile \/ Watch
    \/ FailedRow \/ Restart \/ UnpresentableItem \/ Reconnect

Spec == Init /\ [][Next]_vars

\* Transactions end, the reconciler runs again and again, the stream goes on.
FairSpec == Spec /\ WF_vars(Commits) /\ WF_vars(Reconcile) /\ WF_vars(Watch)

-----------------------------------------------------------------------------
(* Properties.                                                             *)

\* No change is passed over by lastVersion: a deployment that lags behind its
\* connector is ahead of it.  The exceptions are a version that commits late and
\* a row that fails before a later one succeeds; they last until the connector
\* changes again or another process leads.
StaleAhead ==
    "worker" \notin missed =>
        \A c \in Connectors : conn[c].phase = "assigned" /\ conn[c].ver # dep[c].cver
                                => conn[c].ver > worker.lastVersion

\* No change of a deployment is passed over by the watch's gt_version, even when
\* the connection breaks and the agent connects again.
WatchComplete ==
    "watch" \notin missed =>
        \A c \in Connectors : known[c] # dep[c].cver => dep[c].ver > watch.gt

\* A change reaches the agent, restarts and broken connections included: from
\* any state the agent comes to know the connector's version of the time, unless
\* the connector is being deleted.
UpdatesReach ==
    \A c \in Connectors :
        conn[c].phase = "assigned"
            ~> known[c] = conn[c].ver \/ conn[c].phase = "deleting" \/ missed # {}

=============================================================================
