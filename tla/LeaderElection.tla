-------------------------- MODULE LeaderElection --------------------------
(***************************************************************************)
(* The leader election of the reconciler workers (pkg/workers).  Every     *)
(* fleet manager replica runs one LeaderElectionManager goroutine.  On     *)
(* every tick it walks its workers; for each one it tries to acquire or    *)
(* extend the row of leader_leases for the worker's type, and starts or    *)
(* stops the worker's reconcile loop according to the answer.              *)
(*                                                                         *)
(* A worker's id is a UUID made when its process starts, so "replica r's   *)
(* worker of type t" and "r" name the same leader in the lease of t.  A    *)
(* process that restarts after a crash has new ids: it is another member   *)
(* of Replicas.                                                            *)
(*                                                                         *)
(* Time: an instant is kept as the time left until it, in units of the     *)
(* election interval, 0 meaning past.  Age lets one unit go by for every   *)
(* stored instant at once, so no clock is needed.                          *)
(***************************************************************************)
EXTENDS Integers, FiniteSets

CONSTANTS
    Replicas,      \* fleet manager processes
    Types,         \* worker types, one lease row each
    OneShot,       \* worker types that terminate after one reconcile
    None,          \* no leader, no lock owner, no type
    LeaseTime,     \* LeaderLeaseExpirationTime
    ExtendBefore,  \* the holder extends when less than this is left
    Interval,      \* LeaderElectionReconcilerRepeatInterval
    MaxPass,       \* a manager finishes a pass within this time
    MaxFaults      \* number of database errors that may happen

ASSUME NoneAssumption == None \notin Replicas \cup Types
ASSUME OneShotAssumption == OneShot \subseteq Types
ASSUME TimeAssumption ==
    /\ LeaseTime \in Nat \ {0}
    /\ ExtendBefore \in Nat
    /\ Interval \in Nat \ {0}
    /\ MaxPass \in Nat
    /\ MaxFaults \in Nat

\* 15 seconds, 30 seconds, one minute; a pass is over before the next tick.
ASSUME IntervalAssumption ==
    MaxPass < Interval /\ 2 * Interval <= ExtendBefore /\ 2 * ExtendBefore <= LeaseTime

VARIABLES
    lease,    \* the leader_leases table: Types -> [leader, ttl]
    lock,     \* who holds the row lock of a lease (SELECT ... FOR UPDATE)
    faults,   \* database errors so far
    running,  \* Worker.IsRunning, per replica the set of types
    busy,     \* types whose reconcile loop is inside Reconcile()
    done,     \* Worker.HasTerminated, per replica the set of types
    \* The election goroutine of each replica:
    pc,       \* where it is
    since,    \* time since its pass began
    todo,     \* types left in this pass
    cur,      \* the type being looked at
    seen,     \* the lease it read
    expiry,   \* newExpiryTime
    raced     \* another replica wrote the lease since it was read

loops == <<running, busy, done>>
locals == <<cur, seen, expiry, raced>>
vars == <<lease, lock, faults, running, busy, done, pc, since, todo, cur, seen,
          expiry, raced>>

\* "leader" and "follower" are the two answers of isWorkerLeader.
PCs == {"off", "idle", "check", "begin", "locked", "leader", "follower",
        "stopping", "teardown", "crashed"}

Leases == [leader : Replicas \cup {None}, ttl : 0 .. LeaseTime]

TypeOK ==
    /\ lease \in [Types -> Leases]
    /\ lock \in [Types -> Replicas \cup {None}]
    /\ faults \in 0 .. MaxFaults
    /\ running \in [Replicas -> SUBSET Types]
    /\ busy \in [Replicas -> SUBSET Types]
    /\ done \in [Replicas -> SUBSET Types]
    /\ pc \in [Replicas -> PCs]
    /\ since \in [Replicas -> Nat]
    /\ todo \in [Replicas -> SUBSET Types]
    /\ cur \in [Replicas -> Types \cup {None}]
    /\ seen \in [Replicas -> Leases]
    /\ expiry \in [Replicas -> 0 .. LeaseTime]
    /\ raced \in [Replicas -> BOOLEAN]

-----------------------------------------------------------------------------
Alive(r) == pc[r] \notin {"off", "crashed"}

\* Mutant: the expiry time is not looked at.
isExpired_NoTime(l) == l.leader = None

isExpired(l) == l.leader = None \/ l.ttl = 0

\* Mutants: no extension before the lease runs out; the extension clause does
\* not compare the leader.
Opportunity_ExpiredOnly(l, r) == isExpired(l)
Opportunity_AnyLeader(l, r) == isExpired(l) \/ l.ttl < ExtendBefore

\* The worker may acquire the lease, or extend its own.
Opportunity(l, r) == isExpired(l) \/ (l.leader = r /\ l.ttl < ExtendBefore)

NoLease == [leader |-> None, ttl |-> 0]

Elapse(t) == IF t > 0 THEN t - 1 ELSE 0

Older(l) == [leader |-> l.leader, ttl |-> Elapse(l.ttl)]

Fault == faults < MaxFaults /\ faults' = faults + 1

Goto(r, p) == pc' = [pc EXCEPT ![r] = p]

\* The locals of acquireLeaderLease go out of scope.
ClearLocals(r) ==
    /\ cur' = [cur EXCEPT ![r] = None]
    /\ seen' = [seen EXCEPT ![r] = NoLease]
    /\ expiry' = [expiry EXCEPT ![r] = 0]
    /\ raced' = [raced EXCEPT ![r] = FALSE]

\* Replica r is through with type t in this pass.
Through(r, t) ==
    /\ Goto(r, "check")
    /\ todo' = [todo EXCEPT ![r] = @ \ {t}]
    /\ ClearLocals(r)

-----------------------------------------------------------------------------
\* The migrations create every lease with an unknown leader and in the past.
Init ==
    /\ lease = [t \in Types |-> NoLease]
    /\ lock = [t \in Types |-> None]
    /\ faults = 0
    /\ running = [r \in Replicas |-> {}]
    /\ busy = [r \in Replicas |-> {}]
    /\ done = [r \in Replicas |-> {}]
    /\ pc = [r \in Replicas |-> "off"]
    /\ since = [r \in Replicas |-> 0]
    /\ todo = [r \in Replicas |-> {}]
    /\ cur = [r \in Replicas |-> None]
    /\ seen = [r \in Replicas |-> NoLease]
    /\ expiry = [r \in Replicas |-> 0]
    /\ raced = [r \in Replicas |-> FALSE]

\* LeaderElectionManager.Start begins a pass over all workers at once, and
\* every tick of its ticker begins another one.
BeginPass(r) ==
    /\ pc[r] = "off" \/ (pc[r] = "idle" /\ since[r] >= Interval)
    /\ Goto(r, "check")
    /\ todo' = [todo EXCEPT ![r] = Types]
    /\ since' = [since EXCEPT ![r] = 0]
    /\ UNCHANGED <<lease, lock, faults, loops, locals>>

EndPass(r) ==
    /\ pc[r] = "check" /\ todo[r] = {}
    /\ Goto(r, "idle")
    /\ UNCHANGED <<lease, lock, faults, loops, since, todo, locals>>

\* startWorkers: a terminated worker is stopped if it runs, else skipped.
StopTerminated(r, t) ==
    /\ pc[r] = "check" /\ t \in todo[r] \cap done[r] \cap running[r]
    /\ Goto(r, "stopping")
    /\ cur' = [cur EXCEPT ![r] = t]
    /\ UNCHANGED <<lease, lock, faults, loops, since, todo, seen, expiry, raced>>

SkipTerminated(r, t) ==
    /\ pc[r] = "check" /\ t \in (todo[r] \cap done[r]) \ running[r]
    /\ Through(r, t)
    /\ UNCHANGED <<lease, lock, faults, loops, since>>

\* acquireLeaderLease: the unlocked read of the lease and the decision that
\* is taken from it.
ReadLease(r, t) ==
    /\ pc[r] = "check" /\ t \in todo[r] \ done[r]
    /\ Goto(r, IF Opportunity(lease[t], r) THEN "begin"
               ELSE IF lease[t].leader = r THEN "leader" ELSE "follower")
    /\ cur' = [cur EXCEPT ![r] = t]
    /\ seen' = [seen EXCEPT ![r] = lease[t]]
    /\ expiry' = [expiry EXCEPT ![r] = LeaseTime]
    /\ UNCHANGED <<lease, lock, faults, loops, since, todo, raced>>

ReadFails(r, t) ==
    /\ pc[r] = "check" /\ t \in todo[r] \ done[r]
    /\ Fault
    /\ Goto(r, "follower")
    /\ cur' = [cur EXCEPT ![r] = t]
    /\ UNCHANGED <<lease, lock, loops, since, todo, seen, expiry, raced>>

\* Begin and SELECT ... FOR UPDATE SKIP LOCKED.  When the row is locked by
\* another transaction the answer depends on the lease read earlier.
LockLease(r) ==
    /\ pc[r] = "begin" /\ lock[cur[r]] = None
    /\ lock' = [lock EXCEPT ![cur[r]] = r]
    /\ Goto(r, "locked")
    /\ UNCHANGED <<lease, faults, loops, since, todo, locals>>

LockSkipped(r) ==
    /\ pc[r] = "begin" /\ lock[cur[r]] # None
    /\ Goto(r, IF isExpired(seen[r]) THEN "follower" ELSE "leader")
    /\ UNCHANGED <<lease, lock, faults, loops, since, todo, locals>>

LockFails(r) ==
    /\ pc[r] = "begin"
    /\ Fault
    /\ Goto(r, "follower")
    /\ UNCHANGED <<lease, lock, loops, since, todo, locals>>

\* UPDATE leader, expires and COMMIT.  The row that was locked is not looked
\* at again.
CommitLease(r) ==
    /\ pc[r] = "locked"
    /\ lease' = [lease EXCEPT ![cur[r]] = [leader |-> r, ttl |-> expiry[r]]]
    /\ lock' = [lock EXCEPT ![cur[r]] = None]
    /\ Goto(r, "leader")
    /\ raced' = [s \in Replicas |->
                   \/ raced[s]
                   \/ s # r /\ cur[s] = cur[r] /\ pc[s] \in {"begin", "locked"}]
    /\ UNCHANGED <<faults, loops, since, todo, cur, seen, expiry>>

\* The UPDATE fails: rollback and an error, so not the leader.
UpdateFails(r) ==
    /\ pc[r] = "locked"
    /\ Fault
    /\ lock' = [lock EXCEPT ![cur[r]] = None]
    /\ Goto(r, "follower")
    /\ UNCHANGED <<lease, loops, since, todo, locals>>

\* The COMMIT fails: its error is dropped, so the worker is the leader
\* although the lease was not written.
CommitLost(r) ==
    /\ pc[r] = "locked"
    /\ Fault
    /\ lock' = [lock EXCEPT ![cur[r]] = None]
    /\ Goto(r, "leader")
    /\ UNCHANGED <<lease, loops, since, todo, locals>>

\* startWorkers: start a worker that became the leader (its loop reconciles
\* at once), begin to stop one that no longer is, else leave it alone.
StartWorker(r) ==
    /\ pc[r] = "leader" /\ cur[r] \notin running[r]
    /\ running' = [running EXCEPT ![r] = @ \cup {cur[r]}]
    /\ busy' = [busy EXCEPT ![r] = @ \cup {cur[r]}]
    /\ Through(r, cur[r])
    /\ UNCHANGED <<lease, lock, faults, done, since>>

BeginStop(r) ==
    /\ pc[r] = "follower" /\ cur[r] \in running[r]
    /\ Goto(r, "stopping")
    /\ UNCHANGED <<lease, lock, faults, loops, since, todo, locals>>

\* Mutant: a worker that lost its lease may go on.
KeepWorker_Follower(r) ==
    /\ pc[r] = "follower" \/ (pc[r] = "leader" /\ cur[r] \in running[r])
    /\ Through(r, cur[r])
    /\ UNCHANGED <<lease, lock, faults, loops, since>>

KeepWorker(r) ==
    /\ pc[r] = IF cur[r] \in running[r] THEN "leader" ELSE "follower"
    /\ Through(r, cur[r])
    /\ UNCHANGED <<lease, lock, faults, loops, since>>

\* Reconciler.Stop returns once the reconcile in flight is over; until then
\* the election goroutine is blocked, for all worker types.
FinishStop(r) ==
    /\ pc[r] = "stopping" /\ cur[r] \notin busy[r]
    /\ running' = [running EXCEPT ![r] = @ \ {cur[r]}]
    /\ Through(r, cur[r])
    /\ UNCHANGED <<lease, lock, faults, busy, done, since>>

\* LeaderElectionManager.Stop: stop all workers one by one.  The leases are
\* not given back.
TearDown(r) ==
    /\ pc[r] = "idle"
    /\ Goto(r, "teardown")
    /\ UNCHANGED <<lease, lock, faults, loops, since, todo, locals>>

TearDownStop(r, t) ==
    /\ pc[r] = "teardown" /\ t \in running[r] \ busy[r]
    /\ running' = [running EXCEPT ![r] = @ \ {t}]
    /\ UNCHANGED <<lease, lock, faults, busy, done, pc, since, todo, locals>>

TornDown(r) ==
    /\ pc[r] = "teardown" /\ running[r] = {}
    /\ Goto(r, "off")
    /\ UNCHANGED <<lease, lock, faults, loops, since, todo, locals>>

\* The process dies; the database rolls its transaction back.
Crash(r) ==
    /\ pc[r] # "crashed"
    /\ Goto(r, "crashed")
    /\ lock' = [t \in Types |-> IF lock[t] = r THEN None ELSE lock[t]]
    /\ running' = [running EXCEPT ![r] = {}]
    /\ busy' = [busy EXCEPT ![r] = {}]
    /\ todo' = [todo EXCEPT ![r] = {}]
    /\ since' = [since EXCEPT ![r] = 0]
    /\ ClearLocals(r)
    /\ UNCHANGED <<lease, faults, done>>

\* The reconcile loop: woken by its ticker, by Wakeup or by the signal bus.
\* The select may choose one of these although the stop channel is closed.
RunReconcile(r, t) ==
    /\ t \in running[r] \ busy[r]
    /\ busy' = [busy EXCEPT ![r] = @ \cup {t}]
    /\ UNCHANGED <<lease, lock, faults, running, done, pc, since, todo, locals>>

FinishReconcile(r, t) ==
    /\ t \in busy[r]
    /\ busy' = [busy EXCEPT ![r] = @ \ {t}]
    /\ done' = [done EXCEPT ![r] = @ \cup ({t} \cap OneShot)]
    /\ UNCHANGED <<lease, lock, faults, running, pc, since, todo, locals>>

\* One unit of time.  A tick of the ticker is not missed, and no pass takes
\* longer than MaxPass: the code does not enforce the latter, it is what its
\* intervals are chosen for.
InTime(r) == since[r] < (IF pc[r] = "idle" THEN Interval ELSE MaxPass)

Age ==
    /\ \A r \in Replicas : Alive(r) => InTime(r)
    /\ lease' = [t \in Types |-> Older(lease[t])]
    /\ seen' = [r \in Replicas |-> Older(seen[r])]
    /\ expiry' = [r \in Replicas |-> Elapse(expiry[r])]
    /\ since' = [r \in Replicas |-> IF Alive(r) THEN since[r] + 1 ELSE 0]
    /\ UNCHANGED <<lock, faults, loops, pc, todo, cur, raced>>

Step(r) ==
    \/ BeginPass(r) \/ EndPass(r)
    \/ LockLease(r) \/ LockSkipped(r) \/ CommitLease(r)
    \/ StartWorker(r) \/ BeginStop(r) \/ KeepWorker(r)
    \/ FinishStop(r) \/ TornDown(r)
    \/ \E t \in Types :
          \/ StopTerminated(r, t) \/ SkipTerminated(r, t)
          \/ ReadLease(r, t) \/ TearDownStop(r, t)

Faulty(r) ==
    \/ LockFails(r) \/ UpdateFails(r) \/ CommitLost(r)
    \/ \E t \in Types : ReadFails(r, t)

Next ==
    \/ Age
    \/ \E r \in Replicas :
          \/ Step(r) \/ Faulty(r) \/ TearDown(r) \/ Crash(r)
          \/ \E t \in Types : RunReconcile(r, t) \/ FinishReconcile(r, t)

Spec == Init /\ [][Next]_vars

-----------------------------------------------------------------------------
\* A live manager that finishes its passes in time and meets no database
\* error never lets its lease run out: the holder extends early enough
\* (the 30 second clause of acquireLeaderLease) for every pass to come
\* before the expiry.  Without this, leadership would flap between healthy
\* replicas.
LeaseKept ==
    \A t \in Types, r \in Replicas :
        lease[t].leader = r /\ t \in running[r] \ done[r] /\ faults = 0
        /\ pc[r] # "teardown"
            => lease[t].ttl > 0

\* acquireLeaderLease replaces the leader of an unexpired lease only when
\* another replica wrote the lease between this replica's unlocked read and
\* its UPDATE: apart from that race, a valid lease is never taken over.
Takeover(t, r) == lease'[t].leader = r /\ lease[t].leader # r

FreshTakeover ==
    [][\A t \in Types, r \in Replicas :
          Takeover(t, r) /\ ~raced[r] => isExpired(lease[t])]_vars

\* "just one instance of ConnectorTypeManager of those multiple fleet manager
\* will run the reconcile loop": no two replicas are inside Reconcile() of the
\* same worker type.
SingleReconciler ==
    \A t \in Types, r, s \in Replicas :
        t \in busy[r] /\ t \in busy[s] => r = s

-----------------------------------------------------------------------------
\* Fairness: every goroutine of a live process keeps being scheduled, its
\* database calls return, a reconcile ends, and time passes.  The loop of a
\* worker leaves its select through the stop channel eventually (FinishStop
\* is disabled again and again by RunReconcile, hence SF).
Fairness ==
    /\ WF_vars(Age)
    /\ \A r \in Replicas :
          /\ WF_vars(Step(r))
          /\ SF_vars(FinishStop(r))
          /\ \A t \in Types :
                SF_vars(TearDownStop(r, t)) /\ WF_vars(FinishReconcile(r, t))

FairSpec == Spec /\ Fairness

\* Two replicas that both run a worker type (the race above, a lost commit, a
\* takeover from a slow replica) do not do so for ever: the one that lost the
\* lease finds out on a later pass and stops.
OverlapResolved ==
    \A t \in Types : \A r, s \in Replicas :
        r # s /\ t \in running[r] /\ t \in running[s]
            ~> ~(t \in running[r] /\ t \in running[s])

\* A crashed holder does not block its worker type: as long as some other
\* replica stays alive, a live replica gets the lease.
LeaseRecovered ==
    \A t \in Types : \A r \in Replicas :
        lease[t].leader = r /\ pc[r] = "crashed"
            ~> \/ lease[t].leader # r
               \/ \A s \in Replicas : ~Alive(s) \/ t \in done[s]
=============================================================================
