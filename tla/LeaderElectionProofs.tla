----------------------- MODULE LeaderElectionProofs -----------------------
(***************************************************************************)
(* Theorems about LeaderElection, for any number of replicas and worker    *)
(* types and any intervals that IntervalAssumption allows.                 *)
(***************************************************************************)
EXTENDS LeaderElection, TLAPS

\* A replica that has a type at hand.
CurInv ==
    \A r \in Replicas :
        pc[r] \in {"begin", "locked", "leader", "follower", "stopping"}
            => cur[r] \in Types

\* What a replica between its unlocked read and its UPDATE knows: it had an
\* opportunity by what it read, and unless another replica wrote the lease in
\* the meantime the lease still is what it read.
SeenInv ==
    \A r \in Replicas :
        pc[r] \in {"begin", "locked"} =>
            /\ isExpired(seen[r]) \/ seen[r].leader = r
            /\ ~raced[r] => seen[r] = lease[cur[r]]

IInv == TypeOK /\ CurInv /\ SeenInv

-----------------------------------------------------------------------------
\* Letting time pass keeps a lease a lease, and an expired one expired.
LEMMA OlderLease ==
    ASSUME NEW l \in Leases
    PROVE  /\ Older(l) \in Leases
           /\ Older(l).leader = l.leader
           /\ isExpired(l) => isExpired(Older(l))
  BY TimeAssumption DEF Leases, Older, Elapse, isExpired

\* A deadline that comes nearer stays within its bound.
LEMMA ElapseRange ==
    ASSUME NEW n \in 0 .. LeaseTime
    PROVE  Elapse(n) \in 0 .. LeaseTime
  BY TimeAssumption DEF Elapse

\* The initial state satisfies the invariant.
LEMMA InitIInv == Init => IInv
  <1> SUFFICES ASSUME Init PROVE IInv
    OBVIOUS
  <1>1. TypeOK
    BY TimeAssumption DEF Init, TypeOK, Leases, NoLease, PCs
  <1>2. CurInv /\ SeenInv
    BY DEF Init, CurInv, SeenInv
  <1> QED
    BY <1>1, <1>2 DEF IInv

-----------------------------------------------------------------------------
\* Every step keeps the types: each action is looked at on its own.
LEMMA TypeStep == TypeOK /\ CurInv /\ [Next]_vars => TypeOK'
  <1> SUFFICES ASSUME TypeOK, CurInv, [Next]_vars PROVE TypeOK'
    OBVIOUS
  <1> USE TimeAssumption DEF TypeOK, Leases, PCs, CurInv, Goto, loops, locals
  <1>a. CASE Age
    BY <1>a, OlderLease, ElapseRange DEF Age
  <1>b. CASE UNCHANGED vars
    BY <1>b DEF vars
  <1>1. ASSUME NEW r \in Replicas, BeginPass(r) PROVE TypeOK'
    BY <1>1 DEF BeginPass
  <1>2. ASSUME NEW r \in Replicas, EndPass(r) PROVE TypeOK'
    BY <1>2 DEF EndPass
  <1>3. ASSUME NEW r \in Replicas, LockLease(r) PROVE TypeOK'
    BY <1>3 DEF LockLease
  <1>4. ASSUME NEW r \in Replicas, LockSkipped(r) PROVE TypeOK'
    BY <1>4 DEF LockSkipped
  <1>5. ASSUME NEW r \in Replicas, LockFails(r) PROVE TypeOK'
    BY <1>5 DEF LockFails, Fault
  <1>6. ASSUME NEW r \in Replicas, CommitLease(r) PROVE TypeOK'
    BY <1>6 DEF CommitLease
  <1>7. ASSUME NEW r \in Replicas, UpdateFails(r) PROVE TypeOK'
    BY <1>7 DEF UpdateFails, Fault
  <1>8. ASSUME NEW r \in Replicas, CommitLost(r) PROVE TypeOK'
    BY <1>8 DEF CommitLost, Fault
  <1>9. ASSUME NEW r \in Replicas, StartWorker(r) PROVE TypeOK'
    BY <1>9 DEF StartWorker, Through, ClearLocals, NoLease
  <1>10. ASSUME NEW r \in Replicas, BeginStop(r) PROVE TypeOK'
    BY <1>10 DEF BeginStop
  <1>11. ASSUME NEW r \in Replicas, KeepWorker(r) PROVE TypeOK'
    BY <1>11 DEF KeepWorker, Through, ClearLocals, NoLease
  <1>12. ASSUME NEW r \in Replicas, FinishStop(r) PROVE TypeOK'
    BY <1>12 DEF FinishStop, Through, ClearLocals, NoLease
  <1>13. ASSUME NEW r \in Replicas, TearDown(r) PROVE TypeOK'
    BY <1>13 DEF TearDown
  <1>14. ASSUME NEW r \in Replicas, TornDown(r) PROVE TypeOK'
    BY <1>14 DEF TornDown
  <1>15. ASSUME NEW r \in Replicas, Crash(r) PROVE TypeOK'
    BY <1>15 DEF Crash, ClearLocals, NoLease
  <1>16. ASSUME NEW r \in Replicas, NEW t \in Types, StopTerminated(r, t) PROVE TypeOK'
    BY <1>16 DEF StopTerminated
  <1>17. ASSUME NEW r \in Replicas, NEW t \in Types, SkipTerminated(r, t) PROVE TypeOK'
    BY <1>17 DEF SkipTerminated, Through, ClearLocals, NoLease
  <1>18. ASSUME NEW r \in Replicas, NEW t \in Types, ReadLease(r, t) PROVE TypeOK'
    BY <1>18 DEF ReadLease
  <1>19. ASSUME NEW r \in Replicas, NEW t \in Types, TearDownStop(r, t) PROVE TypeOK'
    BY <1>19 DEF TearDownStop
  <1>20. ASSUME NEW r \in Replicas, NEW t \in Types, ReadFails(r, t) PROVE TypeOK'
    BY <1>20 DEF ReadFails, Fault
  <1>21. ASSUME NEW r \in Replicas, NEW t \in Types, RunReconcile(r, t) PROVE TypeOK'
    BY <1>21 DEF RunReconcile
  <1>22. ASSUME NEW r \in Replicas, NEW t \in Types, FinishReconcile(r, t) PROVE TypeOK'
    BY Zenon, <1>22 DEF FinishReconcile
  <1> QED
    BY Zenon, <1>a, <1>b, <1>1, <1>2, <1>3, <1>4, <1>5, <1>6, <1>7, <1>8, <1>9,
       <1>10, <1>11, <1>12, <1>13, <1>14, <1>15, <1>16, <1>17, <1>18,
       <1>19, <1>20, <1>21, <1>22
    DEF Next, Step, Faulty
-----------------------------------------------------------------------------
\* Every step keeps what the replicas know about their own position.
LEMMA CurStep == TypeOK /\ CurInv /\ [Next]_vars => CurInv'
  <1> SUFFICES ASSUME TypeOK, CurInv, [Next]_vars PROVE CurInv'
    OBVIOUS
  <1> USE DEF TypeOK, PCs, CurInv, Goto, loops, locals
  <1>a. CASE Age
    BY <1>a DEF Age
  <1>b. CASE UNCHANGED vars
    BY <1>b DEF vars
  <1>1. ASSUME NEW r \in Replicas, BeginPass(r) PROVE CurInv'
    BY <1>1 DEF BeginPass
  <1>2. ASSUME NEW r \in Replicas, EndPass(r) PROVE CurInv'
    BY <1>2 DEF EndPass
  <1>3. ASSUME NEW r \in Replicas, LockLease(r) PROVE CurInv'
    BY <1>3 DEF LockLease
  <1>4. ASSUME NEW r \in Replicas, LockSkipped(r) PROVE CurInv'
    BY <1>4 DEF LockSkipped
  <1>5. ASSUME NEW r \in Replicas, LockFails(r) PROVE CurInv'
    BY <1>5 DEF LockFails, Fault
  <1>6. ASSUME NEW r \in Replicas, CommitLease(r) PROVE CurInv'
    BY <1>6 DEF CommitLease
  <1>7. ASSUME NEW r \in Replicas, UpdateFails(r) PROVE CurInv'
    BY <1>7 DEF UpdateFails, Fault
  <1>8. ASSUME NEW r \in Replicas, CommitLost(r) PROVE CurInv'
    BY <1>8 DEF CommitLost, Fault
  <1>9. ASSUME NEW r \in Replicas, StartWorker(r) PROVE CurInv'
    BY <1>9 DEF StartWorker, Through, ClearLocals, NoLease
  <1>10. ASSUME NEW r \in Replicas, BeginStop(r) PROVE CurInv'
    BY <1>10 DEF BeginStop
  <1>11. ASSUME NEW r \in Replicas, KeepWorker(r) PROVE CurInv'
    BY <1>11 DEF KeepWorker, Through, ClearLocals, NoLease
  <1>12. ASSUME NEW r \in Replicas, FinishStop(r) PROVE CurInv'
    BY <1>12 DEF FinishStop, Through, ClearLocals, NoLease
  <1>13. ASSUME NEW r \in Replicas, TearDown(r) PROVE CurInv'
    BY <1>13 DEF TearDown
  <1>14. ASSUME NEW r \in Replicas, TornDown(r) PROVE CurInv'
    BY <1>14 DEF TornDown
  <1>15. ASSUME NEW r \in Replicas, Crash(r) PROVE CurInv'
    BY <1>15 DEF Crash, ClearLocals, NoLease
  <1>16. ASSUME NEW r \in Replicas, NEW t \in Types, StopTerminated(r, t) PROVE CurInv'
    BY <1>16 DEF StopTerminated
  <1>17. ASSUME NEW r \in Replicas, NEW t \in Types, SkipTerminated(r, t) PROVE CurInv'
    BY <1>17 DEF SkipTerminated, Through, ClearLocals, NoLease
  <1>18. ASSUME NEW r \in Replicas, NEW t \in Types, ReadLease(r, t) PROVE CurInv'
    BY <1>18 DEF ReadLease
  <1>19. ASSUME NEW r \in Replicas, NEW t \in Types, TearDownStop(r, t) PROVE CurInv'
    BY <1>19 DEF TearDownStop
  <1>20. ASSUME NEW r \in Replicas, NEW t \in Types, ReadFails(r, t) PROVE CurInv'
    BY <1>20 DEF ReadFails, Fault
  <1>21. ASSUME NEW r \in Replicas, NEW t \in Types, RunReconcile(r, t) PROVE CurInv'
    BY <1>21 DEF RunReconcile
  <1>22. ASSUME NEW r \in Replicas, NEW t \in Types, FinishReconcile(r, t) PROVE CurInv'
    BY <1>22 DEF FinishReconcile
  <1> QED
    BY <1>a, <1>b, <1>1, <1>2, <1>3, <1>4, <1>5, <1>6, <1>7, <1>8, <1>9,
       <1>10, <1>11, <1>12, <1>13, <1>14, <1>15, <1>16, <1>17, <1>18,
       <1>19, <1>20, <1>21, <1>22
    DEF Next, Step, Faulty

\* Every step keeps what a replica knows about the lease it read: time passes
\* for the lease and for the copy alike, and the only other step that changes
\* a lease, CommitLease, marks the copies it makes stale.
LEMMA SeenStep == TypeOK /\ CurInv /\ SeenInv /\ [Next]_vars => SeenInv'
  <1> SUFFICES ASSUME TypeOK, CurInv, SeenInv, [Next]_vars PROVE SeenInv'
    OBVIOUS
  <1> USE DEF TypeOK, PCs, CurInv, SeenInv, Goto, loops, locals
  <1>a. CASE Age
    BY <1>a, OlderLease DEF Age
  <1>b. CASE UNCHANGED vars
    BY <1>b DEF vars
  <1>1. ASSUME NEW r \in Replicas, BeginPass(r) PROVE SeenInv'
    BY <1>1 DEF BeginPass
  <1>2. ASSUME NEW r \in Replicas, EndPass(r) PROVE SeenInv'
    BY <1>2 DEF EndPass
  <1>3. ASSUME NEW r \in Replicas, LockLease(r) PROVE SeenInv'
    BY <1>3 DEF LockLease
  <1>4. ASSUME NEW r \in Replicas, LockSkipped(r) PROVE SeenInv'
    BY <1>4 DEF LockSkipped
  <1>5. ASSUME NEW r \in Replicas, LockFails(r) PROVE SeenInv'
    BY <1>5 DEF LockFails, Fault
  <1>6. ASSUME NEW r \in Replicas, CommitLease(r) PROVE SeenInv'
    BY <1>6 DEF CommitLease
  <1>7. ASSUME NEW r \in Replicas, UpdateFails(r) PROVE SeenInv'
    BY <1>7 DEF UpdateFails, Fault
  <1>8. ASSUME NEW r \in Replicas, CommitLost(r) PROVE SeenInv'
    BY Zenon, <1>8 DEF CommitLost, Fault
  <1>9. ASSUME NEW r \in Replicas, StartWorker(r) PROVE SeenInv'
    BY <1>9 DEF StartWorker, Through, ClearLocals, NoLease
  <1>10. ASSUME NEW r \in Replicas, BeginStop(r) PROVE SeenInv'
    BY Zenon, <1>10 DEF BeginStop
  <1>11. ASSUME NEW r \in Replicas, KeepWorker(r) PROVE SeenInv'
    BY Zenon, <1>11 DEF KeepWorker, Through, ClearLocals, NoLease
  <1>12. ASSUME NEW r \in Replicas, FinishStop(r) PROVE SeenInv'
    BY <1>12 DEF FinishStop, Through, ClearLocals, NoLease
  <1>13. ASSUME NEW r \in Replicas, TearDown(r) PROVE SeenInv'
    BY <1>13 DEF TearDown
  <1>14. ASSUME NEW r \in Replicas, TornDown(r) PROVE SeenInv'
    BY Zenon, <1>14 DEF TornDown
  <1>15. ASSUME NEW r \in Replicas, Crash(r) PROVE SeenInv'
    BY <1>15 DEF Crash, ClearLocals, NoLease
  <1>16. ASSUME NEW r \in Replicas, NEW t \in Types, StopTerminated(r, t) PROVE SeenInv'
    BY Zenon, <1>16 DEF StopTerminated
  <1>17. ASSUME NEW r \in Replicas, NEW t \in Types, SkipTerminated(r, t) PROVE SeenInv'
    BY Zenon, <1>17 DEF SkipTerminated, Through, ClearLocals, NoLease
  <1>18. ASSUME NEW r \in Replicas, NEW t \in Types, ReadLease(r, t) PROVE SeenInv'
    BY <1>18 DEF ReadLease, Opportunity
  <1>19. ASSUME NEW r \in Replicas, NEW t \in Types, TearDownStop(r, t) PROVE SeenInv'
    BY <1>19 DEF TearDownStop
  <1>20. ASSUME NEW r \in Replicas, NEW t \in Types, ReadFails(r, t) PROVE SeenInv'
    BY <1>20 DEF ReadFails, Fault
  <1>21. ASSUME NEW r \in Replicas, NEW t \in Types, RunReconcile(r, t) PROVE SeenInv'
    BY <1>21 DEF RunReconcile
  <1>22. ASSUME NEW r \in Replicas, NEW t \in Types, FinishReconcile(r, t) PROVE SeenInv'
    BY <1>22 DEF FinishReconcile
  <1> QED
    BY Zenon, <1>a, <1>b, <1>1, <1>2, <1>3, <1>4, <1>5, <1>6, <1>7, <1>8, <1>9,
       <1>10, <1>11, <1>12, <1>13, <1>14, <1>15, <1>16, <1>17, <1>18,
       <1>19, <1>20, <1>21, <1>22
    DEF Next, Step, Faulty

\* The inductive invariant.
THEOREM Invariance == Spec => []IInv
  <1>1. IInv /\ [Next]_vars => IInv'
    BY TypeStep, CurStep, SeenStep DEF IInv
  <1> QED
    BY InitIInv, <1>1, PTL DEF Spec

\* Type correctness of the leader election.
THEOREM TypeCorrect == Spec => []TypeOK
  BY Invariance, PTL DEF IInv

-----------------------------------------------------------------------------
\* Only CommitLease gives a lease a new leader, and it gives it to the replica
\* that commits.
LEMMA OnlyCommitTakesOver ==
    ASSUME IInv, [Next]_vars, NEW t \in Types, NEW r \in Replicas, Takeover(t, r)
    PROVE  CommitLease(r) /\ cur[r] = t
  <1> USE DEF IInv, TypeOK, Takeover, Goto, loops, locals
  <1>1. ~(lease' = lease)
    OBVIOUS
  <1>2. ~Age
    BY OlderLease DEF Age
  <1>3. PICK s \in Replicas : CommitLease(s)
    <2>1. ASSUME NEW s \in Replicas, Step(s), ~CommitLease(s) PROVE lease' = lease
      BY Zenon, <2>1 DEF Step, BeginPass, EndPass, LockLease, LockSkipped, StartWorker,
         BeginStop, KeepWorker, FinishStop, TornDown, StopTerminated, SkipTerminated,
         ReadLease, TearDownStop
    <2>2. ASSUME NEW s \in Replicas, Faulty(s) PROVE lease' = lease
      BY Zenon, <2>2 DEF Faulty, LockFails, UpdateFails, CommitLost, ReadFails
    <2>3. ASSUME NEW s \in Replicas, TearDown(s) \/ Crash(s) PROVE lease' = lease
      BY Zenon, <2>3 DEF TearDown, Crash
    <2>4. ASSUME NEW s \in Replicas, NEW u \in Types,
                 RunReconcile(s, u) \/ FinishReconcile(s, u)
          PROVE  lease' = lease
      BY Zenon, <2>4 DEF RunReconcile, FinishReconcile
    <2> QED
      BY Zenon, <1>1, <1>2, <2>1, <2>2, <2>3, <2>4 DEF Next, vars
  <1>4. s = r /\ cur[s] = t
    BY <1>3 DEF CommitLease, CurInv
  <1> QED
    BY <1>3, <1>4

\* A valid lease changes hands only by the race between the unlocked read and
\* the UPDATE of acquireLeaderLease, whatever the number of replicas and the
\* intervals.
THEOREM FreshTakeoverHolds == Spec => FreshTakeover
  <1>1. IInv /\ [Next]_vars
          => [\A t \in Types, r \in Replicas :
                 Takeover(t, r) /\ ~raced[r] => isExpired(lease[t])]_vars
    <2> SUFFICES ASSUME IInv, [Next]_vars, NEW t \in Types, NEW r \in Replicas,
                        Takeover(t, r), ~raced[r]
                 PROVE  isExpired(lease[t])
      OBVIOUS
    <2>1. CommitLease(r) /\ cur[r] = t
      BY OnlyCommitTakesOver
    <2> QED
      BY <2>1 DEF CommitLease, IInv, SeenInv, Takeover
  <1> QED
    BY Invariance, <1>1, PTL DEF Spec, FreshTakeover

-----------------------------------------------------------------------------
(* A lease that is kept: where a replica is in its pass, and how much time  *)
(* its leases have left.                                                    *)

InPass == {"check", "begin", "locked", "leader", "follower", "stopping"}

\* The ticker and the length of a pass.
TimeInv ==
    \A r \in Replicas : /\ pc[r] \in InPass => since[r] <= MaxPass
                        /\ pc[r] = "idle" => since[r] <= Interval

\* Who has a row locked is about to write it; who is down runs nothing.
LockInv ==
    /\ \A t \in Types : lock[t] # None => pc[lock[t]] = "locked" /\ cur[lock[t]] = t
    /\ \A r \in Replicas : ~Alive(r) => running[r] = {}

\* The expiry that a replica is going to write was computed in this pass.
ExpiryInv ==
    \A r \in Replicas : pc[r] \in {"begin", "locked"} => expiry[r] + since[r] >= LeaseTime

\* A replica that is about to write a lease it does not hold is late: either
\* the lease has expired, or the one who holds it wrote it during this pass.
LateInv ==
    /\ \A s \in Replicas : pc[s] \in {"check", "idle", "teardown", "off"} => ~raced[s]
    /\ \A s \in Replicas : pc[s] \in {"begin", "locked"} =>
        /\ raced[s] => lease[cur[s]].leader # s
        /\ lease[cur[s]].leader \notin {None, s} /\ lease[cur[s]].ttl > 0
              => lease[cur[s]].ttl + since[s] + MaxPass >= LeaseTime

\* A replica that found itself the leader has the lease for long enough, ...
LeadInv ==
    \A r \in Replicas :
        faults = 0 /\ pc[r] = "leader" /\ lease[cur[r]].leader = r
            => lease[cur[r]].ttl + since[r] >= ExtendBefore

\* ... for the rest of this pass and until its turn in the next one.
KeepInv ==
    \A t \in Types, r \in Replicas :
        faults = 0 /\ lease[t].leader = r /\ t \in running[r] \ done[r] =>
            /\ pc[r] = "idle" \/ (pc[r] \in InPass /\ t \notin todo[r])
                  => lease[t].ttl + since[r] >= ExtendBefore
            /\ pc[r] \in InPass /\ t \in todo[r]
                  => lease[t].ttl + since[r] + Interval >= ExtendBefore

TimelyInv == IInv /\ TimeInv /\ LockInv /\ ExpiryInv /\ LateInv /\ LeadInv /\ KeepInv

-----------------------------------------------------------------------------
\* A pass ends within its time, and the ticker is not missed.
LEMMA TimeStep == TimelyInv /\ [Next]_vars => TimeInv'
  <1> SUFFICES ASSUME TimelyInv, [Next]_vars PROVE TimeInv'
    BY Zenon
  <1> USE TimeAssumption, IntervalAssumption, NoneAssumption
      DEF TimelyInv, IInv, TypeOK, Leases, CurInv, InPass, Goto, loops, locals,
          TimeInv
  <1>a. CASE Age
    BY <1>a DEF Age, InTime, Older, Elapse
  <1>b. CASE UNCHANGED vars
    BY Zenon, <1>b DEF vars
  <1>1. ASSUME NEW r \in Replicas, BeginPass(r) PROVE TimeInv'
    BY <1>1 DEF BeginPass
  <1>2. ASSUME NEW r \in Replicas, EndPass(r) PROVE TimeInv'
    BY <1>2 DEF EndPass
  <1>3. ASSUME NEW r \in Replicas, LockLease(r) PROVE TimeInv'
    BY Zenon, <1>3 DEF LockLease
  <1>4. ASSUME NEW r \in Replicas, LockSkipped(r) PROVE TimeInv'
    BY <1>4 DEF LockSkipped
  <1>5. ASSUME NEW r \in Replicas, LockFails(r) PROVE TimeInv'
    BY Zenon, <1>5 DEF LockFails, Fault
  <1>6. ASSUME NEW r \in Replicas, CommitLease(r) PROVE TimeInv'
    BY Zenon, <1>6 DEF CommitLease
  <1>7. ASSUME NEW r \in Replicas, UpdateFails(r) PROVE TimeInv'
    BY Zenon, <1>7 DEF UpdateFails, Fault
  <1>8. ASSUME NEW r \in Replicas, CommitLost(r) PROVE TimeInv'
    BY Zenon, <1>8 DEF CommitLost, Fault
  <1>9. ASSUME NEW r \in Replicas, StartWorker(r) PROVE TimeInv'
    BY Zenon, <1>9 DEF StartWorker, Through, ClearLocals, NoLease
  <1>10. ASSUME NEW r \in Replicas, BeginStop(r) PROVE TimeInv'
    BY Zenon, <1>10 DEF BeginStop
  <1>11. ASSUME NEW r \in Replicas, KeepWorker(r) PROVE TimeInv'
    BY Zenon, <1>11 DEF KeepWorker, Through, ClearLocals, NoLease
  <1>12. ASSUME NEW r \in Replicas, FinishStop(r) PROVE TimeInv'
    BY Zenon, <1>12 DEF FinishStop, Through, ClearLocals, NoLease
  <1>13. ASSUME NEW r \in Replicas, TearDown(r) PROVE TimeInv'
    BY Zenon, <1>13 DEF TearDown
  <1>14. ASSUME NEW r \in Replicas, TornDown(r) PROVE TimeInv'
    BY Zenon, <1>14 DEF TornDown
  <1>15. ASSUME NEW r \in Replicas, Crash(r) PROVE TimeInv'
    BY Zenon, <1>15 DEF Crash, ClearLocals, NoLease
  <1>16. ASSUME NEW r \in Replicas, NEW t \in Types, StopTerminated(r, t) PROVE TimeInv'
    BY Zenon, <1>16 DEF StopTerminated
  <1>17. ASSUME NEW r \in Replicas, NEW t \in Types, SkipTerminated(r, t) PROVE TimeInv'
    BY Zenon, <1>17 DEF SkipTerminated, Through, ClearLocals, NoLease
  <1>18. ASSUME NEW r \in Replicas, NEW t \in Types, ReadLease(r, t) PROVE TimeInv'
    BY Zenon, <1>18 DEF ReadLease, Opportunity, isExpired
  <1>19. ASSUME NEW r \in Replicas, NEW t \in Types, TearDownStop(r, t) PROVE TimeInv'
    BY Zenon, <1>19 DEF TearDownStop
  <1>20. ASSUME NEW r \in Replicas, NEW t \in Types, ReadFails(r, t) PROVE TimeInv'
    BY Zenon, <1>20 DEF ReadFails, Fault
  <1>21. ASSUME NEW r \in Replicas, NEW t \in Types, RunReconcile(r, t) PROVE TimeInv'
    BY Zenon, <1>21 DEF RunReconcile
  <1>22. ASSUME NEW r \in Replicas, NEW t \in Types, FinishReconcile(r, t) PROVE TimeInv'
    BY <1>22 DEF FinishReconcile
  <1> QED
    BY Zenon, <1>a, <1>b, <1>1, <1>2, <1>3, <1>4, <1>5, <1>6, <1>7, <1>8, <1>9,
       <1>10, <1>11, <1>12, <1>13, <1>14, <1>15, <1>16, <1>17, <1>18,
       <1>19, <1>20, <1>21, <1>22
    DEF Next, Step, Faulty

\* A row lock is released on every way out of the transaction, also by a crash.
LEMMA LockStep == TimelyInv /\ [Next]_vars => LockInv'
  <1> SUFFICES ASSUME TimelyInv, [Next]_vars PROVE LockInv'
    OBVIOUS
  <1> USE TimeAssumption, IntervalAssumption, NoneAssumption
      DEF TimelyInv, IInv, TypeOK, Leases, CurInv, InPass, Alive, Goto, loops, locals,
          LockInv
  <1>a. CASE Age
    BY Zenon, <1>a DEF Age, InTime, Older, Elapse
  <1>b. CASE UNCHANGED vars
    BY Zenon, <1>b DEF vars
  <1>1. ASSUME NEW r \in Replicas, BeginPass(r) PROVE LockInv'
    BY <1>1 DEF BeginPass
  <1>2. ASSUME NEW r \in Replicas, EndPass(r) PROVE LockInv'
    BY <1>2 DEF EndPass
  <1>3. ASSUME NEW r \in Replicas, LockLease(r) PROVE LockInv'
    BY <1>3 DEF LockLease
  <1>4. ASSUME NEW r \in Replicas, LockSkipped(r) PROVE LockInv'
    BY <1>4 DEF LockSkipped
  <1>5. ASSUME NEW r \in Replicas, LockFails(r) PROVE LockInv'
    BY <1>5 DEF LockFails, Fault
  <1>6. ASSUME NEW r \in Replicas, CommitLease(r) PROVE LockInv'
    BY <1>6 DEF CommitLease
  <1>7. ASSUME NEW r \in Replicas, UpdateFails(r) PROVE LockInv'
    BY <1>7 DEF UpdateFails, Fault
  <1>8. ASSUME NEW r \in Replicas, CommitLost(r) PROVE LockInv'
    BY <1>8 DEF CommitLost, Fault
  <1>9. ASSUME NEW r \in Replicas, StartWorker(r) PROVE LockInv'
    BY <1>9 DEF StartWorker, Through, ClearLocals, NoLease
  <1>10. ASSUME NEW r \in Replicas, BeginStop(r) PROVE LockInv'
    BY <1>10 DEF BeginStop
  <1>11. ASSUME NEW r \in Replicas, KeepWorker(r) PROVE LockInv'
    BY <1>11 DEF KeepWorker, Through, ClearLocals, NoLease
  <1>12. ASSUME NEW r \in Replicas, FinishStop(r) PROVE LockInv'
    BY <1>12 DEF FinishStop, Through, ClearLocals, NoLease
  <1>13. ASSUME NEW r \in Replicas, TearDown(r) PROVE LockInv'
    BY <1>13 DEF TearDown
  <1>14. ASSUME NEW r \in Replicas, TornDown(r) PROVE LockInv'
    BY <1>14 DEF TornDown
  <1>15. ASSUME NEW r \in Replicas, Crash(r) PROVE LockInv'
    BY ZenonT(40), <1>15 DEF Crash, ClearLocals, NoLease
  <1>16. ASSUME NEW r \in Replicas, NEW t \in Types, StopTerminated(r, t) PROVE LockInv'
    BY <1>16 DEF StopTerminated
  <1>17. ASSUME NEW r \in Replicas, NEW t \in Types, SkipTerminated(r, t) PROVE LockInv'
    BY <1>17 DEF SkipTerminated, Through, ClearLocals, NoLease
  <1>18. ASSUME NEW r \in Replicas, NEW t \in Types, ReadLease(r, t) PROVE LockInv'
    BY <1>18 DEF ReadLease, Opportunity, isExpired
  <1>19. ASSUME NEW r \in Replicas, NEW t \in Types, TearDownStop(r, t) PROVE LockInv'
    BY Zenon, <1>19 DEF TearDownStop
  <1>20. ASSUME NEW r \in Replicas, NEW t \in Types, ReadFails(r, t) PROVE LockInv'
    BY <1>20 DEF ReadFails, Fault
  <1>21. ASSUME NEW r \in Replicas, NEW t \in Types, RunReconcile(r, t) PROVE LockInv'
    BY Zenon, <1>21 DEF RunReconcile
  <1>22. ASSUME NEW r \in Replicas, NEW t \in Types, FinishReconcile(r, t) PROVE LockInv'
    BY <1>22 DEF FinishReconcile
  <1> QED
    BY ZenonT(40), <1>a, <1>b, <1>1, <1>2, <1>3, <1>4, <1>5, <1>6, <1>7, <1>8, <1>9,
       <1>10, <1>11, <1>12, <1>13, <1>14, <1>15, <1>16, <1>17, <1>18,
       <1>19, <1>20, <1>21, <1>22
    DEF Next, Step, Faulty

\* The new expiry time grows old no faster than the pass in which it was made.
LEMMA ExpiryStep == TimelyInv /\ [Next]_vars => ExpiryInv'
  <1> SUFFICES ASSUME TimelyInv, [Next]_vars PROVE ExpiryInv'
    OBVIOUS
  <1> USE TimeAssumption, IntervalAssumption, NoneAssumption
      DEF TimelyInv, IInv, TypeOK, Leases, CurInv, InPass, Goto, loops, locals,
          ExpiryInv
  <1>a. CASE Age
    BY SMTT(30), <1>a DEF Age, InTime, Older, Elapse, Alive
  <1>b. CASE UNCHANGED vars
    BY Zenon, <1>b DEF vars
  <1>1. ASSUME NEW r \in Replicas, BeginPass(r) PROVE ExpiryInv'
    BY Zenon, <1>1 DEF BeginPass
  <1>2. ASSUME NEW r \in Replicas, EndPass(r) PROVE ExpiryInv'
    BY Zenon, <1>2 DEF EndPass
  <1>3. ASSUME NEW r \in Replicas, LockLease(r) PROVE ExpiryInv'
    BY Zenon, <1>3 DEF LockLease
  <1>4. ASSUME NEW r \in Replicas, LockSkipped(r) PROVE ExpiryInv'
    BY Zenon, <1>4 DEF LockSkipped
  <1>5. ASSUME NEW r \in Replicas, LockFails(r) PROVE ExpiryInv'
    BY Zenon, <1>5 DEF LockFails, Fault
  <1>6. ASSUME NEW r \in Replicas, CommitLease(r) PROVE ExpiryInv'
    BY Zenon, <1>6 DEF CommitLease
  <1>7. ASSUME NEW r \in Replicas, UpdateFails(r) PROVE ExpiryInv'
    BY Zenon, <1>7 DEF UpdateFails, Fault
  <1>8. ASSUME NEW r \in Replicas, CommitLost(r) PROVE ExpiryInv'
    BY Zenon, <1>8 DEF CommitLost, Fault
  <1>9. ASSUME NEW r \in Replicas, StartWorker(r) PROVE ExpiryInv'
    BY Zenon, <1>9 DEF StartWorker, Through, ClearLocals, NoLease
  <1>10. ASSUME NEW r \in Replicas, BeginStop(r) PROVE ExpiryInv'
    BY Zenon, <1>10 DEF BeginStop
  <1>11. ASSUME NEW r \in Replicas, KeepWorker(r) PROVE ExpiryInv'
    BY Zenon, <1>11 DEF KeepWorker, Through, ClearLocals, NoLease
  <1>12. ASSUME NEW r \in Replicas, FinishStop(r) PROVE ExpiryInv'
    BY Zenon, <1>12 DEF FinishStop, Through, ClearLocals, NoLease
  <1>13. ASSUME NEW r \in Replicas, TearDown(r) PROVE ExpiryInv'
    BY Zenon, <1>13 DEF TearDown
  <1>14. ASSUME NEW r \in Replicas, TornDown(r) PROVE ExpiryInv'
    BY Zenon, <1>14 DEF TornDown
  <1>15. ASSUME NEW r \in Replicas, Crash(r) PROVE ExpiryInv'
    BY Zenon, <1>15 DEF Crash, ClearLocals, NoLease
  <1>16. ASSUME NEW r \in Replicas, NEW t \in Types, StopTerminated(r, t) PROVE ExpiryInv'
    BY Zenon, <1>16 DEF StopTerminated
  <1>17. ASSUME NEW r \in Replicas, NEW t \in Types, SkipTerminated(r, t) PROVE ExpiryInv'
    BY Zenon, <1>17 DEF SkipTerminated, Through, ClearLocals, NoLease
  <1>18. ASSUME NEW r \in Replicas, NEW t \in Types, ReadLease(r, t) PROVE ExpiryInv'
    BY <1>18 DEF ReadLease, Opportunity, isExpired
  <1>19. ASSUME NEW r \in Replicas, NEW t \in Types, TearDownStop(r, t) PROVE ExpiryInv'
    BY Zenon, <1>19 DEF TearDownStop
  <1>20. ASSUME NEW r \in Replicas, NEW t \in Types, ReadFails(r, t) PROVE ExpiryInv'
    BY Zenon, <1>20 DEF ReadFails, Fault
  <1>21. ASSUME NEW r \in Replicas, NEW t \in Types, RunReconcile(r, t) PROVE ExpiryInv'
    BY Zenon, <1>21 DEF RunReconcile
  <1>22. ASSUME NEW r \in Replicas, NEW t \in Types, FinishReconcile(r, t) PROVE ExpiryInv'
    BY <1>22 DEF FinishReconcile
  <1> QED
    BY ZenonT(40), <1>a, <1>b, <1>1, <1>2, <1>3, <1>4, <1>5, <1>6, <1>7, <1>8, <1>9,
       <1>10, <1>11, <1>12, <1>13, <1>14, <1>15, <1>16, <1>17, <1>18,
       <1>19, <1>20, <1>21, <1>22
    DEF Next, Step, Faulty

\* Whoever writes a lease writes one that outlives the passes of the others.
LEMMA LateStep == TimelyInv /\ [Next]_vars => LateInv'
  <1> SUFFICES ASSUME TimelyInv, [Next]_vars PROVE LateInv'
    OBVIOUS
  <1> USE TimeAssumption, IntervalAssumption, NoneAssumption
      DEF TimelyInv, IInv, TypeOK, Leases, CurInv, InPass, Goto, loops, locals,
          LateInv
  <1>a. CASE Age
    BY <1>a DEF Age, InTime, Older, Elapse, Alive, TimeInv
  <1>b. CASE UNCHANGED vars
    BY Zenon, <1>b DEF vars
  <1>1. ASSUME NEW r \in Replicas, BeginPass(r) PROVE LateInv'
    BY Zenon, <1>1 DEF BeginPass
  <1>2. ASSUME NEW r \in Replicas, EndPass(r) PROVE LateInv'
    BY Zenon, <1>2 DEF EndPass
  <1>3. ASSUME NEW r \in Replicas, LockLease(r) PROVE LateInv'
    BY Zenon, <1>3 DEF LockLease
  <1>4. ASSUME NEW r \in Replicas, LockSkipped(r) PROVE LateInv'
    BY Zenon, <1>4 DEF LockSkipped
  <1>5. ASSUME NEW r \in Replicas, LockFails(r) PROVE LateInv'
    BY Zenon, <1>5 DEF LockFails, Fault
  <1>6. ASSUME NEW r \in Replicas, CommitLease(r) PROVE LateInv'
    BY SMTT(30), <1>6 DEF CommitLease, TimeInv, ExpiryInv
  <1>7. ASSUME NEW r \in Replicas, UpdateFails(r) PROVE LateInv'
    BY Zenon, <1>7 DEF UpdateFails, Fault
  <1>8. ASSUME NEW r \in Replicas, CommitLost(r) PROVE LateInv'
    BY Zenon, <1>8 DEF CommitLost, Fault
  <1>9. ASSUME NEW r \in Replicas, StartWorker(r) PROVE LateInv'
    BY Zenon, <1>9 DEF StartWorker, Through, ClearLocals, NoLease
  <1>10. ASSUME NEW r \in Replicas, BeginStop(r) PROVE LateInv'
    BY Zenon, <1>10 DEF BeginStop
  <1>11. ASSUME NEW r \in Replicas, KeepWorker(r) PROVE LateInv'
    BY Zenon, <1>11 DEF KeepWorker, Through, ClearLocals, NoLease
  <1>12. ASSUME NEW r \in Replicas, FinishStop(r) PROVE LateInv'
    BY Zenon, <1>12 DEF FinishStop, Through, ClearLocals, NoLease
  <1>13. ASSUME NEW r \in Replicas, TearDown(r) PROVE LateInv'
    BY Zenon, <1>13 DEF TearDown
  <1>14. ASSUME NEW r \in Replicas, TornDown(r) PROVE LateInv'
    BY Zenon, <1>14 DEF TornDown
  <1>15. ASSUME NEW r \in Replicas, Crash(r) PROVE LateInv'
    BY Zenon, <1>15 DEF Crash, ClearLocals, NoLease
  <1>16. ASSUME NEW r \in Replicas, NEW t \in Types, StopTerminated(r, t) PROVE LateInv'
    BY Zenon, <1>16 DEF StopTerminated
  <1>17. ASSUME NEW r \in Replicas, NEW t \in Types, SkipTerminated(r, t) PROVE LateInv'
    BY Zenon, <1>17 DEF SkipTerminated, Through, ClearLocals, NoLease
  <1>18. ASSUME NEW r \in Replicas, NEW t \in Types, ReadLease(r, t) PROVE LateInv'
    BY <1>18 DEF ReadLease, Opportunity, isExpired
  <1>19. ASSUME NEW r \in Replicas, NEW t \in Types, TearDownStop(r, t) PROVE LateInv'
    BY Zenon, <1>19 DEF TearDownStop
  <1>20. ASSUME NEW r \in Replicas, NEW t \in Types, ReadFails(r, t) PROVE LateInv'
    BY Zenon, <1>20 DEF ReadFails, Fault
  <1>21. ASSUME NEW r \in Replicas, NEW t \in Types, RunReconcile(r, t) PROVE LateInv'
    BY Zenon, <1>21 DEF RunReconcile
  <1>22. ASSUME NEW r \in Replicas, NEW t \in Types, FinishReconcile(r, t) PROVE LateInv'
    BY <1>22 DEF FinishReconcile
  <1> QED
    BY ZenonT(40), <1>a, <1>b, <1>1, <1>2, <1>3, <1>4, <1>5, <1>6, <1>7, <1>8, <1>9,
       <1>10, <1>11, <1>12, <1>13, <1>14, <1>15, <1>16, <1>17, <1>18,
       <1>19, <1>20, <1>21, <1>22
    DEF Next, Step, Faulty

\* A replica is told that it is the leader only with enough time left.
LEMMA LeadStep == TimelyInv /\ [Next]_vars => LeadInv'
  <1> SUFFICES ASSUME TimelyInv, [Next]_vars PROVE LeadInv'
    OBVIOUS
  <1> USE TimeAssumption, IntervalAssumption, NoneAssumption
      DEF TimelyInv, IInv, TypeOK, Leases, CurInv, InPass, Goto, loops, locals,
          LeadInv
  <1>a. CASE Age
    BY <1>a DEF Age, InTime, Older, Elapse, Alive, TimeInv
  <1>b. CASE UNCHANGED vars
    BY Zenon, <1>b DEF vars
  <1>1. ASSUME NEW r \in Replicas, BeginPass(r) PROVE LeadInv'
    BY Zenon, <1>1 DEF BeginPass
  <1>2. ASSUME NEW r \in Replicas, EndPass(r) PROVE LeadInv'
    BY Zenon, <1>2 DEF EndPass
  <1>3. ASSUME NEW r \in Replicas, LockLease(r) PROVE LeadInv'
    BY Zenon, <1>3 DEF LockLease
  <1>4. ASSUME NEW r \in Replicas, LockSkipped(r) PROVE LeadInv'
    BY SMTT(30), <1>4 DEF LockSkipped, TimeInv, SeenInv, isExpired, LateInv, LockInv
  <1>5. ASSUME NEW r \in Replicas, LockFails(r) PROVE LeadInv'
    BY <1>5 DEF LockFails, Fault
  <1>6. ASSUME NEW r \in Replicas, CommitLease(r) PROVE LeadInv'
    BY <1>6 DEF CommitLease, TimeInv, ExpiryInv
  <1>7. ASSUME NEW r \in Replicas, UpdateFails(r) PROVE LeadInv'
    BY <1>7 DEF UpdateFails, Fault
  <1>8. ASSUME NEW r \in Replicas, CommitLost(r) PROVE LeadInv'
    BY <1>8 DEF CommitLost, Fault
  <1>9. ASSUME NEW r \in Replicas, StartWorker(r) PROVE LeadInv'
    BY Zenon, <1>9 DEF StartWorker, Through, ClearLocals, NoLease
  <1>10. ASSUME NEW r \in Replicas, BeginStop(r) PROVE LeadInv'
    BY Zenon, <1>10 DEF BeginStop
  <1>11. ASSUME NEW r \in Replicas, KeepWorker(r) PROVE LeadInv'
    BY Zenon, <1>11 DEF KeepWorker, Through, ClearLocals, NoLease
  <1>12. ASSUME NEW r \in Replicas, FinishStop(r) PROVE LeadInv'
    BY Zenon, <1>12 DEF FinishStop, Through, ClearLocals, NoLease
  <1>13. ASSUME NEW r \in Replicas, TearDown(r) PROVE LeadInv'
    BY Zenon, <1>13 DEF TearDown
  <1>14. ASSUME NEW r \in Replicas, TornDown(r) PROVE LeadInv'
    BY Zenon, <1>14 DEF TornDown
  <1>15. ASSUME NEW r \in Replicas, Crash(r) PROVE LeadInv'
    BY Zenon, <1>15 DEF Crash, ClearLocals, NoLease
  <1>16. ASSUME NEW r \in Replicas, NEW t \in Types, StopTerminated(r, t) PROVE LeadInv'
    BY Zenon, <1>16 DEF StopTerminated
  <1>17. ASSUME NEW r \in Replicas, NEW t \in Types, SkipTerminated(r, t) PROVE LeadInv'
    BY Zenon, <1>17 DEF SkipTerminated, Through, ClearLocals, NoLease
  <1>18. ASSUME NEW r \in Replicas, NEW t \in Types, ReadLease(r, t) PROVE LeadInv'
    BY <1>18 DEF ReadLease, Opportunity, isExpired
  <1>19. ASSUME NEW r \in Replicas, NEW t \in Types, TearDownStop(r, t) PROVE LeadInv'
    BY Zenon, <1>19 DEF TearDownStop
  <1>20. ASSUME NEW r \in Replicas, NEW t \in Types, ReadFails(r, t) PROVE LeadInv'
    BY <1>20 DEF ReadFails, Fault
  <1>21. ASSUME NEW r \in Replicas, NEW t \in Types, RunReconcile(r, t) PROVE LeadInv'
    BY Zenon, <1>21 DEF RunReconcile
  <1>22. ASSUME NEW r \in Replicas, NEW t \in Types, FinishReconcile(r, t) PROVE LeadInv'
    BY <1>22 DEF FinishReconcile
  <1> QED
    BY ZenonT(40), <1>a, <1>b, <1>1, <1>2, <1>3, <1>4, <1>5, <1>6, <1>7, <1>8, <1>9,
       <1>10, <1>11, <1>12, <1>13, <1>14, <1>15, <1>16, <1>17, <1>18,
       <1>19, <1>20, <1>21, <1>22
    DEF Next, Step, Faulty

\* Nothing else matters to a lease that is kept.
LEMMA KeepSame ==
    ASSUME KeepInv, UNCHANGED <<lease, faults, running, done, pc, since, todo>>
    PROVE  KeepInv'
  BY Zenon DEF KeepInv

\* A worker that runs is looked at again before its lease runs out.
LEMMA KeepStep == TimelyInv /\ [Next]_vars => KeepInv'
  <1> SUFFICES ASSUME TimelyInv, [Next]_vars PROVE KeepInv'
    OBVIOUS
  <1> USE TimeAssumption, IntervalAssumption, NoneAssumption
      DEF TimelyInv, IInv, TypeOK, Leases, CurInv, InPass, Goto, loops, locals,
          KeepInv
  <1>a. CASE Age
    <2> SUFFICES ASSUME NEW u \in Types, NEW q \in Replicas PROVE KeepInv!(u, q)'
      BY Zenon
    <2>1. /\ lease'[u].leader = lease[u].leader
          /\ lease[u].ttl \in Nat /\ lease'[u].ttl \in Nat /\ lease'[u].ttl >= lease[u].ttl - 1
      BY <1>a DEF Age, Older, Elapse
    <2>2. pc[q] \in InPass \cup {"idle"} => since'[q] = since[q] + 1
      BY Zenon, <1>a DEF Age, Alive
    <2>3. since[q] \in Nat /\ UNCHANGED <<pc, todo, running, done, faults>>
      BY Zenon, <1>a DEF Age
    <2>4. ASSUME faults = 0, lease[u].leader = q, u \in running[q] \ done[q]
          PROVE  /\ pc[q] = "idle" \/ (pc[q] \in InPass /\ u \notin todo[q])
                       => lease'[u].ttl + since'[q] >= ExtendBefore
                 /\ pc[q] \in InPass /\ u \in todo[q]
                       => lease'[u].ttl + since'[q] + Interval >= ExtendBefore
      <3>1. CASE pc[q] = "idle" \/ (pc[q] \in InPass /\ u \notin todo[q])
        <4>1. lease[u].ttl + since[q] >= ExtendBefore
          BY Zenon, <2>4, <3>1
        <4> QED
          BY <4>1, <3>1, <2>1, <2>2, <2>3
      <3>2. CASE pc[q] \in InPass /\ u \in todo[q]
        <4>1. lease[u].ttl + since[q] + Interval >= ExtendBefore
          BY Zenon, <2>4, <3>2
        <4> QED
          BY <4>1, <3>2, <2>1, <2>2, <2>3
      <3> QED
        BY Zenon, <3>1, <3>2
    <2> QED
      BY ZenonT(40), <2>1, <2>3, <2>4
  <1>b. CASE UNCHANGED vars
    BY Zenon, KeepSame, <1>b DEF vars
  <1>1. ASSUME NEW r \in Replicas, BeginPass(r) PROVE KeepInv'
    <2> SUFFICES ASSUME NEW u \in Types, NEW q \in Replicas PROVE KeepInv!(u, q)'
      BY Zenon
    <2>1. UNCHANGED <<lease, running, done, faults>>
      BY <1>1 DEF BeginPass
    <2>2. CASE q # r
      <3>1. pc'[q] = pc[q] /\ todo'[q] = todo[q] /\ since'[q] = since[q]
        BY Zenon, <1>1, <2>2 DEF BeginPass
      <3> QED
        BY ZenonT(40), <2>1, <3>1
    <2>3. CASE q = r
      <3>1. pc'[r] = "check" /\ todo'[r] = Types /\ since'[r] = 0
        BY Zenon, <1>1 DEF BeginPass
      <3>2. running[r] = {} \/ (pc[r] = "idle" /\ since[r] <= Interval)
        BY Zenon, <1>1 DEF BeginPass, LockInv, Alive, TimeInv
      <3> QED
        BY <2>1, <2>3, <3>1, <3>2
    <2> QED
      BY Zenon, <2>2, <2>3
  <1>2. ASSUME NEW r \in Replicas, EndPass(r) PROVE KeepInv'
    BY Zenon, <1>2 DEF EndPass
  <1>3. ASSUME NEW r \in Replicas, LockLease(r) PROVE KeepInv'
    BY Zenon, <1>3 DEF LockLease
  <1>4. ASSUME NEW r \in Replicas, LockSkipped(r) PROVE KeepInv'
    BY Zenon, <1>4 DEF LockSkipped
  <1>5. ASSUME NEW r \in Replicas, LockFails(r) PROVE KeepInv'
    BY <1>5 DEF LockFails, Fault
  <1>6. ASSUME NEW r \in Replicas, CommitLease(r) PROVE KeepInv'
    <2> SUFFICES ASSUME NEW u \in Types, NEW q \in Replicas PROVE KeepInv!(u, q)'
      BY Zenon
    <2>1. UNCHANGED <<since, todo, running, done, faults>> /\ pc[r] = "locked"
      BY Zenon, <1>6 DEF CommitLease
    <2>2. CASE q = r
      <3>1. pc'[r] = "leader"
        BY Zenon, <1>6 DEF CommitLease
      <3>2. CASE u = cur[r]
        <4>1. lease'[u].ttl = expiry[r]
          BY Zenon, <1>6, <3>2 DEF CommitLease
        <4>2. lease'[u].ttl + since[r] >= ExtendBefore
          BY <4>1, <2>1 DEF TimeInv, ExpiryInv
        <4> QED
          BY <4>2, <2>1, <2>2, <4>1
      <3>3. CASE u # cur[r]
        <4>1. lease'[u] = lease[u]
          BY <1>6, <3>3 DEF CommitLease
        <4> QED
          BY Zenon, <4>1, <3>1, <2>1, <2>2
      <3> QED
        BY Zenon, <3>2, <3>3
    <2>3. CASE q # r
      <3>1. pc'[q] = pc[q] /\ (lease'[u] = lease[u] \/ lease'[u].leader = r)
        BY Zenon, <1>6, <2>3 DEF CommitLease
      <3> QED
        BY ZenonT(40), <3>1, <2>1, <2>3
    <2> QED
      BY Zenon, <2>2, <2>3
  <1>7. ASSUME NEW r \in Replicas, UpdateFails(r) PROVE KeepInv'
    BY <1>7 DEF UpdateFails, Fault
  <1>8. ASSUME NEW r \in Replicas, CommitLost(r) PROVE KeepInv'
    BY <1>8 DEF CommitLost, Fault
  <1>9. ASSUME NEW r \in Replicas, StartWorker(r) PROVE KeepInv'
    <2> SUFFICES ASSUME NEW u \in Types, NEW q \in Replicas PROVE KeepInv!(u, q)'
      OBVIOUS
    <2>1. UNCHANGED <<lease, since, done, faults>> /\ pc[r] = "leader"
      BY Zenon, <1>9 DEF StartWorker
    <2>2. CASE q # r
      <3>1. pc'[q] = pc[q] /\ todo'[q] = todo[q] /\ running'[q] = running[q]
        BY Zenon, <1>9, <2>2 DEF StartWorker, Through
      <3> QED
        BY Zenon, <2>1, <3>1
    <2>3. CASE q = r
      <3>1. /\ pc'[r] = "check" /\ todo'[r] = todo[r] \ {cur[r]}
            /\ running'[r] = running[r] \cup {cur[r]}
        BY <1>9 DEF StartWorker, Through
      <3> QED
        BY Zenon, <2>1, <2>3, <3>1 DEF LeadInv
    <2> QED
      BY Zenon, <2>2, <2>3
  <1>10. ASSUME NEW r \in Replicas, BeginStop(r) PROVE KeepInv'
    BY ZenonT(40), <1>10 DEF BeginStop
  <1>11. ASSUME NEW r \in Replicas, KeepWorker(r) PROVE KeepInv'
    <2> SUFFICES ASSUME NEW u \in Types, NEW q \in Replicas PROVE KeepInv!(u, q)'
      OBVIOUS
    <2>1. UNCHANGED <<lease, since, done, faults>> /\ running'[q] \subseteq running[q]
      BY Zenon, <1>11 DEF KeepWorker
    <2>2. CASE q # r
      <3>1. pc'[q] = pc[q] /\ todo'[q] = todo[q]
        BY <1>11, <2>2 DEF KeepWorker, Through
      <3> QED
        BY Zenon, <2>1, <3>1
    <2>3. CASE q = r
      <3>1. /\ pc'[r] = "check" /\ todo'[r] = todo[r] \ {cur[r]}
            /\ pc[r] \in InPass
        BY Zenon, <1>11 DEF KeepWorker, Through
      <3>2. cur[r] \in running'[r] => pc[r] = "leader"
        BY Zenon, <1>11 DEF KeepWorker
      <3> QED
        BY Zenon, <2>1, <2>3, <3>1, <3>2 DEF LeadInv
    <2> QED
      BY <2>2, <2>3
  <1>12. ASSUME NEW r \in Replicas, FinishStop(r) PROVE KeepInv'
    <2> SUFFICES ASSUME NEW u \in Types, NEW q \in Replicas PROVE KeepInv!(u, q)'
      OBVIOUS
    <2>1. UNCHANGED <<lease, since, done, faults>> /\ running'[q] \subseteq running[q]
      BY Zenon, <1>12 DEF FinishStop
    <2>2. CASE q # r
      <3>1. pc'[q] = pc[q] /\ todo'[q] = todo[q]
        BY Zenon, <1>12, <2>2 DEF FinishStop, Through
      <3> QED
        BY <2>1, <3>1
    <2>3. CASE q = r
      <3>1. /\ pc'[r] = "check" /\ todo'[r] = todo[r] \ {cur[r]}
            /\ pc[r] \in InPass
        BY Zenon, <1>12 DEF FinishStop, Through
      <3>2. cur[r] \in running'[r] => pc[r] = "leader"
        BY Zenon, <1>12 DEF FinishStop
      <3> QED
        BY SMTT(30), <2>1, <2>3, <3>1, <3>2 DEF LeadInv
    <2> QED
      BY <2>2, <2>3
  <1>13. ASSUME NEW r \in Replicas, TearDown(r) PROVE KeepInv'
    BY Zenon, <1>13 DEF TearDown
  <1>14. ASSUME NEW r \in Replicas, TornDown(r) PROVE KeepInv'
    BY <1>14 DEF TornDown
  <1>15. ASSUME NEW r \in Replicas, Crash(r) PROVE KeepInv'
    BY ZenonT(40), <1>15 DEF Crash, ClearLocals, NoLease
  <1>16. ASSUME NEW r \in Replicas, NEW t \in Types, StopTerminated(r, t) PROVE KeepInv'
    BY Zenon, <1>16 DEF StopTerminated
  <1>17. ASSUME NEW r \in Replicas, NEW t \in Types, SkipTerminated(r, t) PROVE KeepInv'
    BY ZenonT(40), <1>17 DEF SkipTerminated, Through, ClearLocals, NoLease
  <1>18. ASSUME NEW r \in Replicas, NEW t \in Types, ReadLease(r, t) PROVE KeepInv'
    BY Zenon, <1>18 DEF ReadLease, Opportunity, isExpired
  <1>19. ASSUME NEW r \in Replicas, NEW t \in Types, TearDownStop(r, t) PROVE KeepInv'
    BY ZenonT(40), <1>19 DEF TearDownStop
  <1>20. ASSUME NEW r \in Replicas, NEW t \in Types, ReadFails(r, t) PROVE KeepInv'
    BY <1>20 DEF ReadFails, Fault
  <1>21. ASSUME NEW r \in Replicas, NEW t \in Types, RunReconcile(r, t) PROVE KeepInv'
    BY Zenon, KeepSame, <1>21 DEF RunReconcile
  <1>22. ASSUME NEW r \in Replicas, NEW t \in Types, FinishReconcile(r, t) PROVE KeepInv'
    BY Zenon, <1>22 DEF FinishReconcile
  <1> QED
    BY ZenonT(40), <1>a, <1>b, <1>1, <1>2, <1>3, <1>4, <1>5, <1>6, <1>7, <1>8, <1>9,
       <1>10, <1>11, <1>12, <1>13, <1>14, <1>15, <1>16, <1>17, <1>18,
       <1>19, <1>20, <1>21, <1>22
    DEF Next, Step, Faulty

-----------------------------------------------------------------------------
\* The strengthened invariant, with the intervals of the code.
THEOREM TimelyInvariance == Spec => []TimelyInv
  <1>1. Init => TimelyInv
    <2> SUFFICES ASSUME Init PROVE TimelyInv
      OBVIOUS
    <2>1. IInv
      BY InitIInv
    <2>2. TimeInv /\ LockInv /\ ExpiryInv /\ LateInv /\ LeadInv /\ KeepInv
      BY Zenon DEF Init, TimeInv, LockInv, ExpiryInv, LateInv, LeadInv, KeepInv, InPass
    <2> QED
      BY <2>1, <2>2 DEF TimelyInv
  <1>2. TimelyInv /\ [Next]_vars => TimelyInv'
    <2>1. TimelyInv /\ [Next]_vars => IInv'
      BY TypeStep, CurStep, SeenStep DEF IInv, TimelyInv
    <2> QED
      BY Zenon, <2>1, TimeStep, LockStep, ExpiryStep, LateStep, LeadStep, KeepStep DEF TimelyInv
  <1> QED
    BY <1>1, <1>2, PTL DEF Spec

\* The 30 second clause of acquireLeaderLease is early enough: with a ticker of
\* 15 seconds and leases of a minute, a manager whose passes end before the
\* next tick and whose database calls succeed keeps its leases, whatever the
\* other replicas do, crashes included.
THEOREM LeaseKeptHolds == Spec => []LeaseKept
  <1>1. TimelyInv => LeaseKept
    <2> SUFFICES ASSUME TimelyInv, NEW t \in Types, NEW r \in Replicas,
                        lease[t].leader = r, t \in running[r] \ done[r], faults = 0,
                        pc[r] # "teardown"
                 PROVE  lease[t].ttl > 0
      BY Zenon DEF LeaseKept
    <2>1. pc[r] \in InPass \/ pc[r] = "idle"
      BY DEF TimelyInv, IInv, TypeOK, PCs, InPass, LockInv, Alive
    <2>2. since[r] \in Nat /\ lease[t].ttl \in Nat
      BY TimeAssumption DEF TimelyInv, IInv, TypeOK, Leases
    <2> QED
      BY <2>1, <2>2, TimeAssumption, IntervalAssumption DEF TimelyInv, TimeInv, KeepInv, InPass
  <1> QED
    BY <1>1, TimelyInvariance, PTL
=============================================================================
