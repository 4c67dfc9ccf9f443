----------------------------- MODULE FleetProofs -----------------------------
(***************************************************************************)
(* Proofs about Fleet, for any numbers of clusters, Kafkas, requests and   *)
(* replicas, any capacities and any number of faults and overlaps: what    *)
(* is placed and reserved stays within its limits, and what a handler has  *)
(* read holds when it writes, as long as handlers do not overlap.          *)
(***************************************************************************)
EXTENDS Fleet, FiniteSetTheorems, TLAPS

-----------------------------------------------------------------------------
(* The operators the model is built from.                                  *)

\* A set of natural numbers that is not empty has a least member.
LEMMA LeastExists ==
    ASSUME NEW S \in SUBSET Nat, S # {}
    PROVE  Min(S) \in S /\ \A y \in S : Min(S) <= y
<1> DEFINE R == OpToRel(<, Nat)
<1>1. IsWellFoundedOn(R, Nat)
  BY Zenon, NatLessThanWellFounded
<1>2. PICK x \in S : \A y \in S : ~(<<y, x>> \in R)
  BY Zenon, <1>1, WFMin
<1>3. \A y \in S : x <= y
  <2>1. R = {ss \in Nat \X Nat : ss[1] < ss[2]}
    BY Zenon DEF OpToRel
  <2> HIDE DEF R
  <2> TAKE y \in S
  <2>2. ~(y < x)
    BY Zenon, <2>1, <1>2
  <2> QED
    BY <2>2
<1> QED
  BY Zenon, <1>3 DEF Min

\* So do the sets the model takes the least member of.
LEMMA LeastOf ==
    ASSUME NEW S, NEW n \in Nat, S \subseteq 1..n, S # {}
    PROVE  Min(S) \in S
BY LeastExists

\* A bounded set of natural numbers that is not empty has a greatest member.
LEMMA GreatestOf ==
    ASSUME NEW S, NEW n \in Nat, S \subseteq 1..n, S # {}
    PROVE  Max(S) \in S /\ \A x \in S : x <= Max(S)
<1> DEFINE D == {d \in Nat : n - d \in S}
<1> DEFINE d == Min(D)
<1>1. D \in SUBSET Nat /\ D # {}
  <2>1. PICK x \in S : TRUE
    BY Zenon
  <2>2. n - x \in D
    BY <2>1
  <2> QED
    BY Zenon, <2>2
<1>2. d \in D /\ \A e \in D : d <= e
  <2> HIDE DEF D
  <2> QED
    BY Zenon, <1>1, LeastExists
<1> HIDE DEF d
<1>3. \A x \in S : x <= n - d
  <2> TAKE x \in S
  <2>1. n - x \in D
    OBVIOUS
  <2>2. d <= n - x /\ d \in Nat
    BY Zenon, <2>1, <1>2
  <2> QED
    BY <2>2
<1>4. n - d \in S
  BY Zenon, <1>2
<1> HIDE DEF D
<1> QED
  BY Zenon, <1>3, <1>4 DEF Max

-----------------------------------------------------------------------------
(* Sums: Weight(S, f) is the sum of f over S, counted unit by unit, as     *)
(* Total counts the streaming units of a set of Kafkas.                    *)

Parts(S, f) == {x \in S \X (1..Units) : x[2] <= f[x[1]]}
Weight(S, f) == Cardinality(Parts(S, f))

\* A sum over a finite set is a natural number.
LEMMA WeightNat ==
    ASSUME NEW S, IsFiniteSet(S), NEW f
    PROVE  IsFiniteSet(Parts(S, f)) /\ Weight(S, f) \in Nat
<1>1. IsFiniteSet(1..Units)
  BY FS_Interval, FleetBounds
<1>2. IsFiniteSet(S \X (1..Units))
  BY Zenon, <1>1, FS_Product
<1>3. IsFiniteSet(Parts(S, f))
  BY Zenon, <1>2, FS_Subset DEF Parts
<1> QED
  BY Zenon, <1>3, FS_CardinalityType DEF Weight

\* A sum does not shrink when the set grows.
LEMMA WeightGrows ==
    ASSUME NEW T, IsFiniteSet(T), NEW S, S \subseteq T, NEW f
    PROVE  Weight(S, f) <= Weight(T, f)
<1>1. IsFiniteSet(Parts(T, f))
  BY Zenon, WeightNat
<1>2. Parts(S, f) \in SUBSET Parts(T, f)
  BY Zenon DEF Parts
<1> QED
  BY Zenon, <1>1, <1>2, FS_Subset DEF Weight

\* A sum depends only on the terms it adds.
LEMMA WeightSame ==
    ASSUME NEW S, NEW f, NEW g, \A x \in S : f[x] = g[x]
    PROVE  Weight(S, f) = Weight(S, g)
<1>1. Parts(S, f) = Parts(S, g)
  BY Zenon DEF Parts
<1> QED
  BY Zenon, <1>1 DEF Weight

\* One member more adds its term.
LEMMA WeightAdds ==
    ASSUME NEW S, IsFiniteSet(S), NEW k, k \notin S, NEW f, f[k] \in 0..Units
    PROVE  Weight(S \cup {k}, f) = Weight(S, f) + f[k]
<1> DEFINE P == Parts(S, f)
           Q == {k} \X (1..f[k])
<1>1. IsFiniteSet(P) /\ Cardinality(P) = Weight(S, f)
  BY Zenon, WeightNat DEF Weight
<1>2. IsFiniteSet(1..f[k]) /\ Cardinality(1..f[k]) = f[k]
  <2>1. ASSUME NEW n \in Nat
        PROVE  IsFiniteSet(1..n) /\ Cardinality(1..n) = n
    BY FS_Interval
  <2>2. f[k] \in Nat
    BY FleetBounds
  <2> QED
    BY Zenon, <2>1, <2>2
<1>3. IsFiniteSet({k}) /\ Cardinality({k}) = 1
  BY Zenon, FS_Singleton
<1>4. IsFiniteSet(Q) /\ Cardinality(Q) = f[k]
  <2>1. IsFiniteSet(Q) /\ Cardinality(Q) = Cardinality({k}) * Cardinality(1..f[k])
    BY Zenon, <1>2, <1>3, FS_Product
  <2> HIDE DEF Q
  <2> QED
    BY <2>1, <1>2, <1>3
<1>5. Parts(S \cup {k}, f) = P \cup Q
  BY FleetBounds DEF Parts
<1>6. P \cap Q = {}
  BY Zenon DEF Parts
<1>7. Cardinality(P \cup Q) = Cardinality(P) + Cardinality(Q) - Cardinality(P \cap Q)
  <2> HIDE DEF P, Q
  <2> QED
    BY Zenon, <1>1, <1>4, FS_Union
<1>8. Cardinality(P \cap Q) = 0
  <2> HIDE DEF P, Q
  <2> QED
    BY Zenon, <1>6, FS_EmptySet
<1>9. Cardinality(P) \in Nat
  BY Zenon, <1>1, WeightNat
<1> HIDE DEF P, Q
<1> QED
  <2>1. Weight(S \cup {k}, f) = Cardinality(P \cup Q)
    BY Zenon, <1>5 DEF Weight
  <2> QED
    BY <2>1, <1>1, <1>4, <1>7, <1>8, <1>9

\* The sum over no member is 0.
LEMMA WeightNone ==
    ASSUME NEW f
    PROVE  Weight({}, f) = 0
<1>1. Parts({}, f) = {}
  BY Zenon DEF Parts
<1> QED
  BY Zenon, <1>1, FS_EmptySet DEF Weight

\* The sum is at least each of its terms.
LEMMA WeightHas ==
    ASSUME NEW S, IsFiniteSet(S), NEW k \in S, NEW f, f[k] \in 0..Units
    PROVE  f[k] <= Weight(S, f)
<1>1. IsFiniteSet({}) /\ {} \cup {k} = {k} /\ k \notin {}
  BY Zenon, FS_EmptySet
<1>2. Weight({k}, f) = Weight({}, f) + f[k]
  BY Zenon, <1>1, WeightAdds
<1>3. Weight({k}, f) <= Weight(S, f)
  BY Zenon, WeightGrows
<1> QED
  BY <1>2, <1>3, WeightNone

\* Terms of at most m, one for each member of R at most, add up to at most
\* m for each of them.
LEMMA WeightBounded ==
    ASSUME NEW S, NEW R, IsFiniteSet(R), NEW m \in 0..Units, NEW f,
           \A x \in S : f[x] \in 0..m,
           NEW h \in [S -> R], \A x, y \in S : h[x] = h[y] => x = y
    PROVE  Weight(S, f) <= Cardinality(R) * m
<1> DEFINE P == Parts(S, f)
           Q == R \X (1..m)
           e == [x \in P |-> <<h[x[1]], x[2]>>]
<1>1. IsFiniteSet(1..m) /\ Cardinality(1..m) = m
  BY FS_Interval
<1>2. IsFiniteSet(Q) /\ Cardinality(Q) = Cardinality(R) * m
  <2>1. IsFiniteSet(Q) /\ Cardinality(Q) = Cardinality(R) * Cardinality(1..m)
    BY Zenon, <1>1, FS_Product
  <2> HIDE DEF Q
  <2> QED
    BY Zenon, <2>1, <1>1
<1>3. e \in [P -> Q]
  <2>1. ASSUME NEW x \in P
        PROVE  <<h[x[1]], x[2]>> \in Q
    <3>1. x[1] \in S /\ x[2] \in 1..Units /\ x[2] <= f[x[1]]
      BY Zenon DEF Parts
    <3>2. x[2] \in 1..m
      BY <3>1, FleetBounds
    <3> QED
      BY Zenon, <3>1, <3>2
  <2> QED
    BY Zenon, <2>1
<1>4. \A x, y \in P : e[x] = e[y] => x = y
  <2> TAKE x \in P, y \in P
  <2>1. HAVE e[x] = e[y]
  <2>2. x[1] \in S /\ y[1] \in S /\ x = <<x[1], x[2]>> /\ y = <<y[1], y[2]>>
    BY DEF Parts
  <2>3. h[x[1]] = h[y[1]] /\ x[2] = y[2]
    BY Zenon, <2>1
  <2> QED
    BY Zenon, <2>2, <2>3
<1>5. e \in Injection(P, Q)
  <2> HIDE DEF e, P, Q
  <2> QED
    BY Zenon, <1>3, <1>4 DEF Injection, IsInjective
<1>6. Cardinality(P) <= Cardinality(Q)
  <2> HIDE DEF e, P, Q
  <2> QED
    BY Zenon, <1>5, <1>2, FS_Injection
<1> HIDE DEF P, Q
<1> QED
  BY Zenon, <1>2, <1>6 DEF Weight, P

-----------------------------------------------------------------------------
(* Types.                                                                  *)

\* What the bounds say of the sets built from them.
LEMMA Bounds ==
    /\ MaxManaged \in Nat /\ MaxKafkas \in Nat /\ Units \in Nat /\ RegionLimit \in Nat
    /\ MaxUpsets \in Nat /\ MaxCalls \in Nat
    /\ Nowhere \notin Clusters /\ Managed \cap Enterprise = {}
    /\ Managed \subseteq Clusters /\ Enterprise \subseteq Clusters
    /\ Managed \subseteq 1..MaxManaged /\ Kafkas \subseteq 1..MaxKafkas
    /\ \A s \in Sizes : s \in 1..Units
    /\ Requests \subseteq Actors /\ Workers \subseteq Actors
    /\ \A q \in Requests : q \notin Workers
    /\ IsFiniteSet(Kafkas) /\ IsFiniteSet(Requests)
<1>1. /\ MaxManaged \in Nat /\ MaxKafkas \in Nat /\ Units \in Nat /\ RegionLimit \in Nat
      /\ MaxUpsets \in Nat /\ MaxCalls \in Nat
  BY Zenon, FleetBounds
<1>2. Nowhere \notin Clusters /\ Managed \cap Enterprise = {}
  BY <1>1, FleetBounds DEF Nowhere, Clusters, Managed
<1>3. IsFiniteSet(Kafkas)
  BY <1>1, FS_Interval DEF Kafkas
<1> QED
  BY Zenon, <1>1, <1>2, <1>3, FleetBounds, ProcessesAssumption
  DEF Clusters, Managed, Kafkas, Actors

\* Sizes are numbers.
LEMMA SizesNat ==
    /\ \A s \in Sizes : s \in Nat
    /\ TypeOK => \A k \in Kafkas : Size(k) \in Nat
<1>1. \A s \in {0} \cup Sizes : s \in Nat
  BY Bounds
<1>2. ASSUME TypeOK, NEW k \in Kafkas
      PROVE  Size(k) \in {0} \cup Sizes
  BY Zenon, <1>2 DEF TypeOK, Size
<1> QED
  BY Zenon, <1>1, <1>2

\* Who is at a task is not idle.
LEMMA Busy ==
    ASSUME NEW a, NEW op, task[a].op = op, op # "none"
    PROVE  task[a] # Idle
  BY DEF Idle

\* Who is idle is not registering a Kafka.
LEMMA Resting ==
    ASSUME NEW q
    PROVE  /\ task[q] = Idle => ~Registering(q)
           /\ task'[q] = Idle => ~Registering(q)'
  BY DEF Idle, Registering

\* A registration under way has what it is made of, ...
LEMMA RegisterHas ==
    ASSUME NEW t, NEW op, NEW r, NEW size, NEW ent, NEW c, t = Register(op, r, size, ent, c)
    PROVE  t.op = op /\ t.r = r /\ t.size = size /\ t.ent = ent /\ t.host = c
  BY DEF Register

\* ... and so has the row of a Kafka.
LEMMA KafkaHas ==
    ASSUME NEW k, NEW st, NEW host, NEW size, NEW ent, k = Kafka(st, host, size, ent)
    PROVE  k.st = st /\ k.host = host /\ k.size = size /\ k.ent = ent
  BY DEF Kafka

\* A sum of which a term stays or goes keeps within its limit, ...
LEMMA SumStays ==
    ASSUME NEW u \in Nat, NEW e \in Nat, NEW a \in Nat, NEW a2 \in Nat, NEW b \in Nat,
           NEW t \in Nat, NEW t2 \in Nat,
           a + b <= u + e, a2 + t = a + t2, t2 = 0 \/ t2 = t
    PROVE  a2 + b <= u + e
  OBVIOUS

\* ... and so does one of which a term grows by what there is room for.
LEMMA SumGrows ==
    ASSUME NEW u \in Nat, NEW e \in Nat, NEW a \in Nat, NEW b \in Nat, NEW b2 \in Nat,
           NEW t \in Nat, b2 + 0 = b + t, a + t <= u, b <= e
    PROVE  a + b2 <= u + e
  OBVIOUS

\* A limit that grows is kept, ...
LEMMA SumKept ==
    ASSUME NEW u \in Nat, NEW e \in Nat, NEW e2 \in Nat, NEW a \in Nat, NEW b \in Nat,
           NEW b2 \in Nat, a + b <= u + e, e <= e2, b2 + 0 = b + 0
    PROVE  a + b2 <= u + e2
  OBVIOUS

\* ... so is one with room left, ...
LEMMA RoomKept ==
    ASSUME NEW u \in Nat, NEW e \in Nat, NEW a \in Nat, NEW a2 \in Nat, NEW s \in Nat,
           a + s <= u, a2 <= a
    PROVE  a2 + s <= u + e
  OBVIOUS

\* ... by nothing at all, ...
LEMMA NothingKept ==
    ASSUME NEW u \in Nat, NEW e \in Nat
    PROVE  0 + 0 <= u + e
  OBVIOUS

\* ... and by a part of the sum.
LEMMA PartKept ==
    ASSUME NEW u \in Nat, NEW e \in Nat, NEW a \in Nat, NEW b \in Nat, a + b <= u + e
    PROVE  a <= u + e
  OBVIOUS

\* What each actor may be in the middle of.
LEMMA TasksAre ==
    /\ \A q \in Requests :
          TasksOf(q) = {Idle} \cup Registrations \cup Reports \cup Enrollments
    /\ TasksOf("clusters") = {Idle} \cup Advances \cup Surpluses
    /\ TasksOf("up") = {Idle} \cup ScaleUps
    /\ TasksOf("down") = {Idle} \cup ScaleDowns
    /\ TasksOf("deprovisioning") = {Idle} \cup Removals
    /\ TasksOf("cleanup") = {Idle} \cup Cleanups
    /\ TasksOf("accepted") = {Idle} \cup Assignments
<1>1. \A q \in Requests : q \notin Workers
  BY Zenon, Bounds
<1> HIDE DEF Registrations, Reports, Enrollments, Advances, Surpluses, ScaleUps,
             ScaleDowns, Removals, Cleanups, Assignments, Idle
<1>2. /\ "clusters" \notin Requests /\ "up" \notin Requests /\ "down" \notin Requests
      /\ "deprovisioning" \notin Requests /\ "cleanup" \notin Requests
      /\ "accepted" \notin Requests
  BY Zenon, <1>1 DEF Workers
<1>3. \A q \in Requests : 
          TasksOf(q) = {Idle} \cup Registrations \cup Reports \cup Enrollments
  <2> TAKE q \in Requests
  <2>1. /\ q # "clusters" /\ q # "up" /\ q # "down"
        /\ q # "deprovisioning" /\ q # "cleanup" /\ q # "accepted"
    BY Zenon, <1>2
  <2> QED
    BY Zenon, <2>1 DEF TasksOf
<1> QED
  BY Zenon, <1>2, <1>3 DEF TasksOf

\* An actor whose task is replaced, and the others.
LEMMA DoFrame ==
    ASSUME TypeOK, NEW a \in Actors, NEW t, Do(a, t)
    PROVE  task'[a] = t /\ \A b \in Actors : b # a => task'[b] = task[b]
BY Zenon DEF Do, TypeOK

\* A task of the right kind keeps the tasks typed.
LEMMA DoTyped ==
    ASSUME TypeOK, NEW a \in Actors, NEW t \in TasksOf(a), Do(a, t)
    PROVE  /\ task' = [b \in Actors |-> task'[b]]
           /\ \A b \in Actors : task'[b] \in TasksOf(b)
<1>1. task' = [b \in Actors |-> task'[b]]
  BY Zenon DEF Do, TypeOK
<1> QED
  BY Zenon, <1>1, DoFrame DEF TypeOK

\* So does the end of a task.
LEMMA DoneTyped ==
    ASSUME TypeOK, NEW a \in Actors, Done(a)
    PROVE  /\ task' = [b \in Actors |-> task'[b]]
           /\ \A b \in Actors : task'[b] \in TasksOf(b)
<1>1. Idle \in TasksOf(a)
  BY Zenon DEF TasksOf
<1> QED
  BY Zenon, <1>1, DoTyped DEF Done

RowsType == [Clusters -> [st : Statuses, units : {0, Units}]]

\* A status written to a row keeps the rows typed.
LEMMA SetTyped ==
    ASSUME TypeOK, NEW c \in Clusters, NEW st \in Statuses, SetStatus(c, st)
    PROVE  rows' \in RowsType
<1>1. rows \in RowsType
  BY Zenon DEF TypeOK, RowsType
<1>2. Row(st, rows[c].units) \in [st : Statuses, units : {0, Units}]
  BY Zenon, <1>1 DEF Row, RowsType
<1> QED
  BY Zenon, <1>1, <1>2 DEF SetStatus, RowsType, Exists

\* What is counted is a natural number.
LEMMA TotalNat ==
    ASSUME NEW S \in SUBSET Kafkas
    PROVE  Total(S) \in Nat
<1>1. IsFiniteSet(S)
  BY Zenon, Bounds, FS_Subset
<1> DEFINE f == [k \in S |-> Size(k)]
<1>2. Weight(S, f) \in Nat
  <2> HIDE DEF f
  <2> QED
    BY Zenon, <1>1, WeightNat
<1>3. Parts(S, f) = {x \in S \X (1..Units) : x[2] <= Size(x[1])}
  BY Zenon DEF Parts
<1> QED
  BY Zenon, <1>2, <1>3 DEF Weight, Total

\* Total is the sum of the sizes.
LEMMA TotalWeight ==
    ASSUME NEW S, NEW f, \A k \in S : f[k] = Size(k)
    PROVE  Total(S) = Weight(S, f)
<1>1. Parts(S, f) = {x \in S \X (1..Units) : x[2] <= Size(x[1])}
  BY Zenon DEF Parts
<1> QED
  BY Zenon, <1>1 DEF Weight, Total

\* A cluster that is found is ready, of the right kind, and has room.
LEMMA FoundCluster ==
    ASSUME NEW size, NEW ent \in BOOLEAN, NEW c \in FindCluster(size, ent)
    PROVE  /\ c \in (IF ent THEN Enterprise ELSE Managed)
           /\ rows[c].st = "ready" /\ HasRoom(c, size)
<1> DEFINE able == {d \in IF ent THEN Enterprise ELSE Managed :
                       rows[d].st = "ready" /\ HasRoom(d, size)}
<1>1. ~ent /\ able # {} => Min(able) \in able
  BY Zenon, LeastOf, Bounds
<1>2. c \in able
  BY Zenon, <1>1 DEF FindCluster
<1> QED
  BY Zenon, <1>2

\* The tasks of the requests and of the workers, for use with an action.
LEMMA TaskTypes ==
    ASSUME TypeOK
    PROVE  /\ \A q \in Requests :
                 task[q] \in {Idle} \cup Registrations \cup Reports \cup Enrollments
           /\ task["clusters"] \in {Idle} \cup Advances \cup Surpluses
           /\ task["up"] \in {Idle} \cup ScaleUps
           /\ task["down"] \in {Idle} \cup ScaleDowns
           /\ task["deprovisioning"] \in {Idle} \cup Removals
           /\ task["cleanup"] \in {Idle} \cup Cleanups
           /\ task["accepted"] \in {Idle} \cup Assignments
BY Zenon, TasksAre, Bounds DEF TypeOK, Workers

\* The kind of task that an operation belongs to.
LEMMA TaskKinds ==
    ASSUME TypeOK
    PROVE  /\ \A q \in Requests :
                 /\ task[q].op \in {"place", "reserve", "insert"} => task[q] \in Registrations
                 /\ task[q].op \in {"ready", "waiting"} => task[q] \in Reports
                 /\ task[q].op \in {"enroll", "deregister"} => task[q] \in Enrollments
           /\ task["clusters"].op = "advance" => task["clusters"] \in Advances
           /\ task["clusters"].op = "deprovision" => task["clusters"] \in Surpluses
           /\ task["up"].op = "scaleup" => task["up"] \in ScaleUps
           /\ task["down"].op = "scaledown" => task["down"] \in ScaleDowns
           /\ task["deprovisioning"].op \in {"restore", "remove"} =>
                 task["deprovisioning"] \in [op : {"restore", "remove"}, c : Managed]
           /\ task["deprovisioning"].op = "removed" =>
                 task["deprovisioning"] \in [op : {"removed"}, c : Clusters]
           /\ task["cleanup"].op = "delete" => task["cleanup"] \in Cleanups
           /\ task["accepted"].op = "assign" => task["accepted"] \in Assignments
<1>1. ASSUME NEW q \in Requests
      PROVE  /\ task[q].op \in {"place", "reserve", "insert"} => task[q] \in Registrations
             /\ task[q].op \in {"ready", "waiting"} => task[q] \in Reports
             /\ task[q].op \in {"enroll", "deregister"} => task[q] \in Enrollments
  BY TaskTypes DEF Idle, Registrations, Reports, Enrollments
<1>2. /\ task["clusters"].op = "advance" => task["clusters"] \in Advances
      /\ task["clusters"].op = "deprovision" => task["clusters"] \in Surpluses
  BY TaskTypes DEF Idle, Advances, Surpluses
<1>3. /\ task["up"].op = "scaleup" => task["up"] \in ScaleUps
      /\ task["down"].op = "scaledown" => task["down"] \in ScaleDowns
      /\ task["cleanup"].op = "delete" => task["cleanup"] \in Cleanups
      /\ task["accepted"].op = "assign" => task["accepted"] \in Assignments
  BY TaskTypes DEF Idle, ScaleUps, ScaleDowns, Cleanups, Assignments
<1>4. /\ task["deprovisioning"].op \in {"restore", "remove"} =>
            task["deprovisioning"] \in [op : {"restore", "remove"}, c : Managed]
      /\ task["deprovisioning"].op = "removed" =>
            task["deprovisioning"] \in [op : {"removed"}, c : Clusters]
  BY TaskTypes DEF Idle, Removals
<1> QED
  BY Zenon, <1>1, <1>2, <1>3, <1>4

\* The counters stay in their bounds.
LEMMA CountersTyped ==
    ASSUME TypeOK
    PROVE  /\ Fault => faults' \in Nat /\ faults' = faults + 1 /\ races + faults' <= MaxUpsets
           /\ Starts => races' \in Nat /\ races <= races' /\ races' + faults <= MaxUpsets
           /\ Race => races' \in Nat /\ races' = races + 1 /\ races' + faults <= MaxUpsets
           /\ Called => calls' \in Nat
BY Bounds DEF TypeOK, Fault, Race, Starts, Upset, Called

\* Every step of a request keeps the types.
LEMMA TypeRequests ==
    ASSUME TypeOK, NEW q \in Requests,
           \/ Serving(q)
           \/ \E c \in Clusters : RegisterEnterpriseCluster(q, c)
                                   \/ DeregisterEnterpriseCluster(q, c)
           \/ \E c \in Clusters, kind \in {"first", "again", "trouble"} :
                 ReportStatus(q, c, kind)
           \/ \E r \in Replicas, size \in Sizes, ent \in BOOLEAN :
                 RegisterKafkaJob(q, r, size, ent)
    PROVE  TypeOK'
<1>0. q \in Actors /\ TasksOf(q) = {Idle} \cup Registrations \cup Reports \cup Enrollments
  BY Zenon, Bounds, TasksAre
<1>1. ASSUME Place(q)
      PROVE  TypeOK'
  <2>1. task[q] \in Registrations
    BY Zenon, <1>1, TaskKinds DEF Place
  <2>2. ASSUME NEW c \in FindCluster(task[q].size, task[q].ent)
        PROVE  Register("reserve", task[q].r, task[q].size, task[q].ent, c) \in TasksOf(q)
    <3>1. task[q].ent \in BOOLEAN
      BY Zenon, <2>1 DEF Registrations
    <3>2. c \in Clusters
      BY Zenon, <3>1, FoundCluster, Bounds
    <3> QED
      BY Zenon, <1>0, <2>1, <3>2 DEF Register, Registrations
  <2>3. /\ task' = [b \in Actors |-> task'[b]]
        /\ \A b \in Actors : task'[b] \in TasksOf(b)
    BY Zenon, <1>0, <1>1, <2>2, DoTyped, DoneTyped DEF Place
  <2> QED
    BY Zenon, <1>1, <2>3 DEF Place, TypeOK, setting, tables, outside, counters
<1>2. ASSUME ReserveQuota(q)
      PROVE  TypeOK'
  <2>1. task[q] \in Registrations
    BY Zenon, <1>2, TaskKinds DEF ReserveQuota
  <2>2. Register("insert", task[q].r, task[q].size, task[q].ent, task[q].host) \in TasksOf(q)
    BY Zenon, <1>0, <2>1 DEF Register, Registrations
  <2>3. /\ task' = [b \in Actors |-> task'[b]]
        /\ \A b \in Actors : task'[b] \in TasksOf(b)
    BY Zenon, <1>0, <1>2, <2>2, DoTyped, DoneTyped DEF ReserveQuota
  <2> QED
    BY <1>2, <2>3 DEF ReserveQuota, TypeOK, setting, tables, outside, counters
<1>3. ASSUME CreateKafka(q)
      PROVE  TypeOK'
  <2>1. task[q] \in Registrations
    BY Zenon, <1>3, TaskKinds DEF CreateKafka
  <2>2. /\ task' = [b \in Actors |-> task'[b]]
        /\ \A b \in Actors : task'[b] \in TasksOf(b)
    BY Zenon, <1>0, <1>3, DoneTyped DEF CreateKafka
  <2>3. Kafka("accepted", task[q].host, task[q].size, task[q].ent)
          \in [st : KafkaStatuses, host : {Nowhere} \cup Clusters,
               size : {0} \cup Sizes, ent : BOOLEAN]
    BY Zenon, <2>1 DEF Kafka, Registrations, KafkaStatuses
  <2>4. kafkas' \in [Kafkas -> [st : KafkaStatuses, host : {Nowhere} \cup Clusters,
                                size : {0} \cup Sizes, ent : BOOLEAN]]
    BY Zenon, <1>3, <2>3 DEF CreateKafka, TypeOK
  <2> QED
    BY Zenon, <1>3, <2>2, <2>4 DEF CreateKafka, TypeOK, setting, tables, outside, counters
<1>4. ASSUME SetClusterStatus(q)
      PROVE  TypeOK'
  <2>1. task[q] \in Reports
    BY Zenon, <1>4, TaskKinds DEF SetClusterStatus
  <2>2. /\ task' = [b \in Actors |-> task'[b]]
        /\ \A b \in Actors : task'[b] \in TasksOf(b)
    BY Zenon, <1>0, <1>4, DoneTyped DEF SetClusterStatus
  <2>3. Row("ready", 0) \in [st : Statuses, units : {0, Units}]
        /\ Row("ready", Units) \in [st : Statuses, units : {0, Units}]
    BY Zenon DEF Row, Statuses
  <2>4. rows' \in [Clusters -> [st : Statuses, units : {0, Units}]]
    BY Zenon, <1>4, <2>3 DEF SetClusterStatus, TypeOK
  <2> QED
    BY Zenon, <1>4, <2>2, <2>4 DEF SetClusterStatus, TypeOK, setting, tables, outside, counters
<1>5. ASSUME SetClusterWaiting(q)
      PROVE  TypeOK'
  <2>1. task[q] \in Reports
    BY Zenon, <1>5, TaskKinds DEF SetClusterWaiting
  <2>2. /\ task' = [b \in Actors |-> task'[b]]
        /\ \A b \in Actors : task'[b] \in TasksOf(b)
    BY Zenon, <1>0, <1>5, DoneTyped DEF SetClusterWaiting
  <2>3. task[q].c \in Clusters /\ "waiting" \in Statuses
    BY Zenon, <2>1 DEF Reports, Statuses, Terraforming
  <2>4. rows' \in [Clusters -> [st : Statuses, units : {0, Units}]]
    BY Zenon, <1>5, <2>3, SetTyped DEF SetClusterWaiting, RowsType
  <2> QED
    BY Zenon, <1>5, <2>2, <2>4 DEF SetClusterWaiting, TypeOK, setting, tables, outside, counters
<1>6. ASSUME RegisterClusterJob(q)
      PROVE  TypeOK'
  <2>1. /\ task' = [b \in Actors |-> task'[b]]
        /\ \A b \in Actors : task'[b] \in TasksOf(b)
    BY Zenon, <1>0, <1>6, DoneTyped DEF RegisterClusterJob
  <2>2. Row("accepted", 0) \in [st : Statuses, units : {0, Units}]
    BY Zenon DEF Row, Statuses, Terraforming
  <2>3. rows' \in [Clusters -> [st : Statuses, units : {0, Units}]]
    BY Zenon, <1>6, <2>2 DEF RegisterClusterJob, TypeOK
  <2> QED
    BY Zenon, <1>6, <2>1, <2>3 DEF RegisterClusterJob, TypeOK, setting, tables, outside, counters
<1>7. ASSUME DeregisterClusterJob(q)
      PROVE  TypeOK'
  <2>1. task[q] \in Enrollments
    BY Zenon, <1>7, TaskKinds DEF DeregisterClusterJob
  <2>2. /\ task' = [b \in Actors |-> task'[b]]
        /\ \A b \in Actors : task'[b] \in TasksOf(b)
    BY Zenon, <1>0, <1>7, DoneTyped DEF DeregisterClusterJob
  <2>3. task[q].c \in Clusters /\ "deprovisioning" \in Statuses
    BY Zenon, <2>1, Bounds DEF Enrollments, Statuses, Leaving
  <2>4. rows' \in [Clusters -> [st : Statuses, units : {0, Units}]]
    BY Zenon, <1>7, <2>3, SetTyped DEF DeregisterClusterJob, RowsType
  <2> QED
    BY Zenon, <1>7, <2>2, <2>4 DEF DeregisterClusterJob, TypeOK, setting, tables, outside, counters
<1>8. ASSUME NEW c \in Clusters, RegisterEnterpriseCluster(q, c)
      PROVE  TypeOK'
  <2>1. [op |-> "enroll", c |-> c] \in TasksOf(q)
    BY Zenon, <1>0, <1>8 DEF RegisterEnterpriseCluster, Enrollments
  <2>2. /\ task' = [b \in Actors |-> task'[b]]
        /\ \A b \in Actors : task'[b] \in TasksOf(b)
    BY Zenon, <1>0, <1>8, <2>1, DoTyped DEF RegisterEnterpriseCluster
  <2> QED
    BY Zenon, <1>8, <2>2, CountersTyped
    DEF RegisterEnterpriseCluster, TypeOK, setting, tables, outside, counters
<1>9. ASSUME NEW c \in Clusters, DeregisterEnterpriseCluster(q, c)
      PROVE  TypeOK'
  <2>1. [op |-> "deregister", c |-> c] \in TasksOf(q)
    BY Zenon, <1>0, <1>9 DEF DeregisterEnterpriseCluster, Enrollments
  <2>2. /\ task' = [b \in Actors |-> task'[b]]
        /\ \A b \in Actors : task'[b] \in TasksOf(b)
    BY Zenon, <1>0, <1>9, <2>1, DoTyped DEF DeregisterEnterpriseCluster
  <2> QED
    BY Zenon, <1>9, <2>2, CountersTyped
    DEF DeregisterEnterpriseCluster, TypeOK, setting, tables, outside, counters
<1>10. ASSUME NEW c \in Clusters, NEW kind \in {"first", "again", "trouble"},
              ReportStatus(q, c, kind)
       PROVE  TypeOK'
  <2>1. [op |-> IF kind = "trouble" THEN "waiting" ELSE "ready", c |-> c] \in TasksOf(q)
    BY Zenon, <1>0, <1>10 DEF Reports
  <2>2. /\ task' = [b \in Actors |-> task'[b]]
        /\ \A b \in Actors : task'[b] \in TasksOf(b)
    BY Zenon, <1>0, <1>10, <2>1, DoTyped DEF ReportStatus
  <2>3. races' \in Nat /\ faults' \in Nat /\ races' + faults' <= MaxUpsets
    BY Zenon, <1>10, CountersTyped DEF ReportStatus, TypeOK
  <2> QED
    BY Zenon, <1>10, <2>2, <2>3 DEF ReportStatus, TypeOK, setting, tables, outside, counters
<1>11. ASSUME NEW r \in Replicas, NEW size \in Sizes, NEW ent \in BOOLEAN,
              RegisterKafkaJob(q, r, size, ent)
       PROVE  TypeOK'
  <2> DEFINE t == Register(IF scaling = "auto" /\ ~ent THEN "reserve" ELSE "place",
                           r, size, ent, Nowhere)
  <2>1. t \in TasksOf(q)
    BY Zenon, <1>0 DEF Register, Registrations
  <2>2. /\ task' = [b \in Actors |-> task'[b]]
        /\ \A b \in Actors : task'[b] \in TasksOf(b)
    BY Zenon, <1>0, <1>11, <2>1, DoTyped DEF RegisterKafkaJob
  <2>3. split' \in BOOLEAN
    BY Zenon, <1>11 DEF RegisterKafkaJob, TypeOK
  <2> QED
    BY Zenon, <1>11, <2>2, <2>3, CountersTyped
    DEF RegisterKafkaJob, TypeOK, setting, tables, outside, counters
<1> QED
  BY Zenon, <1>1, <1>2, <1>3, <1>4, <1>5, <1>6, <1>7, <1>8, <1>9, <1>10, <1>11 DEF Serving

KafkasType == [Kafkas -> [st : KafkaStatuses, host : {Nowhere} \cup Clusters,
                          size : {0} \cup Sizes, ent : BOOLEAN]]

\* Every step of a Kafka keeps the types, given that no quota is given back
\* that is not held.
LEMMA TypeKafkas ==
    ASSUME TypeOK, NEW k \in Kafkas,
           \/ FindClusterForKafka(k) \/ AssignKafka \/ KafkaTimesOut(k)
           \/ KafkaDeprovision(k) \/ KafkaDeleting(k)
           \/ KafkaRemoved(k) /\ reserved # 0
    PROVE  TypeOK'
<1>0. /\ "accepted" \in Actors /\ TasksOf("accepted") = {Idle} \cup Assignments
      /\ kafkas \in KafkasType
  BY Zenon, Bounds, TasksAre DEF Workers, TypeOK, KafkasType
<1>1. ASSUME FindClusterForKafka(k)
      PROVE  TypeOK'
  <2>1. ASSUME NEW c \in FindCluster(Size(k), FALSE)
        PROVE  [op |-> "assign", k |-> k, c |-> c] \in TasksOf("accepted")
    <3>1. c \in Managed
      BY Zenon, FoundCluster
    <3> QED
      BY Zenon, <1>0, <3>1 DEF Assignments
  <2>2. /\ task' = [b \in Actors |-> task'[b]]
        /\ \A b \in Actors : task'[b] \in TasksOf(b)
    BY Zenon, <1>0, <1>1, <2>1, DoTyped DEF FindClusterForKafka
  <2> QED
    BY Zenon, <1>1, <2>2, CountersTyped
    DEF FindClusterForKafka, TypeOK, setting, tables, outside, counters
<1>2. ASSUME AssignKafka
      PROVE  TypeOK'
  <2>1. task["accepted"] \in Assignments
    BY Zenon, <1>2, TaskKinds DEF AssignKafka
  <2>2. /\ task' = [b \in Actors |-> task'[b]]
        /\ \A b \in Actors : task'[b] \in TasksOf(b)
    BY Zenon, <1>0, <1>2, DoneTyped DEF AssignKafka
  <2>3. kafkas' \in KafkasType
    <3>1. task["accepted"].k \in Kafkas /\ task["accepted"].c \in Clusters
      BY Zenon, <2>1, Bounds DEF Assignments
    <3>2. Kafka("preparing", task["accepted"].c, kafkas[task["accepted"].k].size,
                kafkas[task["accepted"].k].ent)
            \in [st : KafkaStatuses, host : {Nowhere} \cup Clusters,
                 size : {0} \cup Sizes, ent : BOOLEAN]
      BY Zenon, <1>0, <3>1 DEF KafkasType, Kafka, KafkaStatuses
    <3> QED
      BY Zenon, <1>0, <1>2, <3>2 DEF AssignKafka, KafkasType
  <2> QED
    BY Zenon, <1>2, <2>2, <2>3 DEF AssignKafka, TypeOK, KafkasType, setting, tables, outside,
       counters
<1>3. ASSUME NEW st \in KafkaStatuses, NEW host \in {Nowhere, kafkas[k].host},
             kafkas' = [kafkas EXCEPT ![k] = Kafka(st, host, @.size, @.ent)]
      PROVE  kafkas' \in KafkasType
  <2>1. Kafka(st, host, kafkas[k].size, kafkas[k].ent)
          \in [st : KafkaStatuses, host : {Nowhere} \cup Clusters,
               size : {0} \cup Sizes, ent : BOOLEAN]
    BY Zenon, <1>0 DEF KafkasType, Kafka
  <2> QED
    BY Zenon, <1>0, <1>3, <2>1 DEF KafkasType
<1>4. {"failed", "deprovision", "deleting"} \subseteq KafkaStatuses
  BY Zenon DEF KafkaStatuses
<1>5. ASSUME KafkaTimesOut(k)
      PROVE  TypeOK'
  <2>1. kafkas' \in KafkasType
    BY Zenon, <1>3, <1>4, <1>5 DEF KafkaTimesOut
  <2> QED
    BY Zenon, <1>5, <2>1, CountersTyped
    DEF KafkaTimesOut, TypeOK, KafkasType, setting, tables, outside, counters
<1>6. ASSUME KafkaDeprovision(k)
      PROVE  TypeOK'
  <2>1. kafkas' \in KafkasType
    BY Zenon, <1>3, <1>4, <1>6 DEF KafkaDeprovision
  <2> QED
    BY Zenon, <1>6, <2>1, CountersTyped
    DEF KafkaDeprovision, TypeOK, KafkasType, setting, tables, outside, counters
<1>7. ASSUME KafkaDeleting(k)
      PROVE  TypeOK'
  <2>1. kafkas' \in KafkasType
    BY Zenon, <1>3, <1>4, <1>7 DEF KafkaDeleting
  <2> QED
    BY Zenon, <1>7, <2>1, CountersTyped
    DEF KafkaDeleting, TypeOK, KafkasType, setting, tables, outside, counters
<1>8. ASSUME KafkaRemoved(k), reserved # 0
      PROVE  TypeOK'
  <2>1. NoKafka \in [st : KafkaStatuses, host : {Nowhere} \cup Clusters,
                     size : {0} \cup Sizes, ent : BOOLEAN]
    BY Zenon DEF NoKafka, Kafka, KafkaStatuses
  <2>2. kafkas' \in KafkasType
    BY Zenon, <1>0, <1>8, <2>1 DEF KafkaRemoved, KafkasType
  <2>3. reserved' \in Nat
    <3>1. reserved' = reserved - 1
      BY Zenon, <1>8 DEF KafkaRemoved
    <3>2. reserved \in Nat
      BY Zenon DEF TypeOK
    <3> QED
      BY <1>8, <3>1, <3>2
  <2> QED
    BY Zenon, <1>8, <2>2, <2>3, CountersTyped
    DEF KafkaRemoved, TypeOK, KafkasType, setting, tables, outside, counters
<1> QED
  BY Zenon, <1>1, <1>2, <1>5, <1>6, <1>7, <1>8

\* The counts of streaming units, and the list that scale down keeps.
CountsType == [Managed -> [st : Statuses, units : {0, Units}, used : Nat]]

\* What is read from the tables has its type.
LEMMA CountsTyped ==
    ASSUME TypeOK
    PROVE  Counts \in CountsType
<1>1. \A c \in Managed : Used(c) \in Nat
  <2> TAKE c \in Managed
  <2>1. HostedBy(c) \in SUBSET Kafkas
    BY Zenon DEF HostedBy
  <2> QED
    BY Zenon, <2>1, TotalNat DEF Used
<1>2. \A c \in Managed : rows[c].st \in Statuses /\ rows[c].units \in {0, Units}
  BY Zenon, Bounds DEF TypeOK
<1> QED
  BY Zenon, <1>1, <1>2 DEF Counts, CountsType

\* The pass of scale down goes on with a task of its kind.
LEMMA ScanTyped ==
    ASSUME NEW l \in CountsType, NEW last
    PROVE  /\ ScanFrom(l, last) \in TasksOf("down")
           /\ Victims(l, last) # {} =>
                 Min(Victims(l, last)) \in Victims(l, last)
<1>1. Victims(l, last) # {} => Min(Victims(l, last)) \in Victims(l, last)
  <2>1. Victims(l, last) \subseteq Managed
    BY Zenon DEF Victims
  <2> QED
    BY Zenon, <2>1, LeastOf, Bounds
<1>2. Victims(l, last) # {} => Min(Victims(l, last)) \in Managed
  BY Zenon, <1>1 DEF Victims
<1>3. Victims(l, last) # {} =>
        [op |-> "scaledown", c |-> Min(Victims(l, last)), list |-> l] \in ScaleDowns
  BY Zenon, <1>2 DEF ScaleDowns, CountsType
<1> QED
  BY Zenon, <1>1, <1>3, TasksAre DEF ScanFrom

\* A row written as a whole keeps the rows typed.
LEMMA WriteTyped ==
    ASSUME TypeOK, NEW c, NEW r \in [st : Statuses, units : {0, Units}],
           rows' = [rows EXCEPT ![c] = r]
    PROVE  rows' \in RowsType
BY Zenon DEF TypeOK, RowsType

\* Every step of the cluster manager keeps the types.
LEMMA TypeManager ==
    ASSUME TypeOK,
           \/ \E c \in Clusters : ProcessCluster(c) \/ ReconcileReadyCluster(c)
           \/ SaveCluster \/ ReconcileManualConfig \/ DeprovisionExcess
    PROVE  TypeOK'
<1>0. /\ "clusters" \in Actors /\ TasksOf("clusters") = {Idle} \cup Advances \cup Surpluses
      /\ rows \in RowsType /\ configured \subseteq Managed
  BY Zenon, Bounds, TasksAre DEF Workers, TypeOK, RowsType
<1>1. ASSUME NEW c \in Clusters, ProcessCluster(c)
      PROVE  TypeOK'
  <2>1. NextStatus(c) \subseteq {"provisioning", "provisioned", "failed", "waiting"}
    BY Zenon DEF NextStatus
  <2>2. \A st \in NextStatus(c) : Advance(c, st) \in TasksOf("clusters")
    BY Zenon, <1>0, <2>1 DEF Advance, Advances
  <2>3. /\ task' = [b \in Actors |-> task'[b]]
        /\ \A b \in Actors : task'[b] \in TasksOf(b)
    BY Zenon, <1>0, <1>1, <2>2, DoTyped DEF ProcessCluster
  <2>4. cloud' \in [Clusters -> {"none", "installing", "up", "error", "deleting"}]
    BY Zenon, <1>1 DEF ProcessCluster, TypeOK
  <2>5. accounts' \subseteq Clusters
    BY Zenon, <1>1 DEF ProcessCluster, TypeOK
  <2> QED
    BY Zenon, <1>1, <2>3, <2>4, <2>5, CountersTyped
    DEF ProcessCluster, TypeOK, setting, tables, outside, counters
<1>2. ASSUME NEW c \in Clusters, ReconcileReadyCluster(c)
      PROVE  TypeOK'
  <2>1. Advance(c, "ready") \in TasksOf("clusters")
    BY Zenon, <1>0 DEF Advance, Advances
  <2>2. /\ task' = [b \in Actors |-> task'[b]]
        /\ \A b \in Actors : task'[b] \in TasksOf(b)
    BY Zenon, <1>0, <1>2, <2>1, DoTyped DEF ReconcileReadyCluster
  <2> QED
    BY Zenon, <1>2, <2>2, CountersTyped
    DEF ReconcileReadyCluster, TypeOK, setting, tables, outside, counters
<1>3. ASSUME SaveCluster
      PROVE  TypeOK'
  <2>1. task["clusters"].c \in Clusters /\ task["clusters"].st \in Statuses
    BY Zenon, <1>3, TaskKinds DEF SaveCluster, Advances, Statuses, Terraforming
  <2>2. rows' \in RowsType
    BY Zenon, <1>3, <2>1, SetTyped DEF SaveCluster
  <2>3. /\ task' = [b \in Actors |-> task'[b]]
        /\ \A b \in Actors : task'[b] \in TasksOf(b)
    BY Zenon, <1>0, <1>3, DoneTyped DEF SaveCluster
  <2> QED
    BY Zenon, <1>3, <2>2, <2>3
    DEF SaveCluster, TypeOK, RowsType, setting, tables, outside, counters
<1>4. ASSUME ReconcileManualConfig
      PROVE  TypeOK'
  <2>1. [op |-> "deprovision", ids |-> Excess] \in TasksOf("clusters")
    BY Zenon, <1>0 DEF Surpluses, Excess
  <2>2. (IF Excess = {} THEN Idle ELSE [op |-> "deprovision", ids |-> Excess])
            \in TasksOf("clusters")
    BY Zenon, <1>0, <2>1
  <2>3. /\ task' = [b \in Actors |-> task'[b]]
        /\ \A b \in Actors : task'[b] \in TasksOf(b)
    BY Zenon, <1>0, <1>4, <2>2, DoTyped DEF ReconcileManualConfig
  <2>4. Row("provisioning", 0) \in [st : Statuses, units : {0, Units}]
    BY Zenon DEF Row, Statuses, Terraforming
  <2>5. rows' \in RowsType
    BY Zenon, <1>0, <1>4, <2>4 DEF ReconcileManualConfig, RowsType
  <2> QED
    BY Zenon, <1>4, <2>3, <2>5, CountersTyped
    DEF ReconcileManualConfig, TypeOK, RowsType, setting, tables, outside, counters
<1>5. ASSUME DeprovisionExcess
      PROVE  TypeOK'
  <2>1. \A c \in Clusters : Row("deprovisioning", rows[c].units)
                               \in [st : Statuses, units : {0, Units}]
    BY Zenon, <1>0 DEF Row, Statuses, Leaving, RowsType
  <2>2. rows' \in RowsType
    BY Zenon, <1>0, <1>5, <2>1 DEF DeprovisionExcess, RowsType
  <2>3. /\ task' = [b \in Actors |-> task'[b]]
        /\ \A b \in Actors : task'[b] \in TasksOf(b)
    BY Zenon, <1>0, <1>5, DoneTyped DEF DeprovisionExcess
  <2> QED
    BY Zenon, <1>5, <2>2, <2>3
    DEF DeprovisionExcess, TypeOK, RowsType, setting, tables, outside, counters
<1> QED
  BY Zenon, <1>1, <1>2, <1>3, <1>4, <1>5

\* Every step of the scaling workers keeps the types.
LEMMA TypeScaling ==
    ASSUME TypeOK, EvaluateScaleUp \/ ScaleUp \/ EvaluateScaleDown \/ ScaleDown
    PROVE  TypeOK'
<1>0. /\ "up" \in Actors /\ TasksOf("up") = {Idle} \cup ScaleUps
      /\ "down" \in Actors /\ TasksOf("down") = {Idle} \cup ScaleDowns
  BY Zenon, Bounds, TasksAre DEF Workers
<1>1. ASSUME EvaluateScaleUp
      PROVE  TypeOK'
  <2>1. FreeRows \subseteq Managed /\ FreeRows # {}
    BY Zenon, <1>1 DEF EvaluateScaleUp, FreeRows
  <2>2. Min(FreeRows) \in Managed
    BY Zenon, <2>1, LeastOf, Bounds
  <2>3. [op |-> "scaleup", c |-> Min(FreeRows)] \in TasksOf("up")
    BY Zenon, <1>0, <2>2 DEF ScaleUps
  <2>4. /\ task' = [b \in Actors |-> task'[b]]
        /\ \A b \in Actors : task'[b] \in TasksOf(b)
    BY Zenon, <1>0, <1>1, <2>3, DoTyped DEF EvaluateScaleUp
  <2> QED
    BY Zenon, <1>1, <2>4, CountersTyped
    DEF EvaluateScaleUp, TypeOK, setting, tables, outside, counters
<1>2. ASSUME ScaleUp
      PROVE  TypeOK'
  <2>1. Row("accepted", 0) \in [st : Statuses, units : {0, Units}]
    BY Zenon DEF Row, Statuses, Terraforming
  <2>2. rows' \in RowsType
    BY Zenon, <1>2, <2>1, WriteTyped DEF ScaleUp
  <2>3. /\ task' = [b \in Actors |-> task'[b]]
        /\ \A b \in Actors : task'[b] \in TasksOf(b)
    BY Zenon, <1>0, <1>2, DoneTyped DEF ScaleUp
  <2> QED
    BY Zenon, <1>2, <2>2, <2>3
    DEF ScaleUp, TypeOK, RowsType, setting, tables, outside, counters
<1>3. ASSUME EvaluateScaleDown
      PROVE  TypeOK'
  <2>1. ScanFrom(Counts, 0) \in TasksOf("down")
    BY Zenon, CountsTyped, ScanTyped
  <2>2. /\ task' = [b \in Actors |-> task'[b]]
        /\ \A b \in Actors : task'[b] \in TasksOf(b)
    BY Zenon, <1>0, <1>3, <2>1, DoTyped DEF EvaluateScaleDown
  <2> QED
    BY Zenon, <1>3, <2>2, CountersTyped
    DEF EvaluateScaleDown, TypeOK, setting, tables, outside, counters
<1>4. ASSUME ScaleDown
      PROVE  TypeOK'
  <2> DEFINE c == task["down"].c
             list == task["down"].list
             marked == [list EXCEPT ![c] =
                          [st |-> "deprovisioning", units |-> @.units, used |-> @.used]]
  <2>1. c \in Managed /\ list \in CountsType
    BY Zenon, <1>4, TaskKinds DEF ScaleDown, ScaleDowns, CountsType
  <2>2. "deprovisioning" \in Statuses
    BY Zenon DEF Statuses, Leaving
  <2>3. marked \in CountsType
    BY Zenon, <2>1, <2>2 DEF CountsType
  <2>4. ScanFrom(marked, c) \in TasksOf("down")
    <3> HIDE DEF marked, c
    <3> QED
      BY Zenon, <2>3, ScanTyped
  <2>5. SetStatus(c, "deprovisioning") /\ Do("down", ScanFrom(marked, c))
    BY Zenon, <1>4 DEF ScaleDown
  <2>6. rows' \in RowsType
    BY Zenon, <2>1, <2>2, <2>5, SetTyped, Bounds
  <2>7. /\ task' = [b \in Actors |-> task'[b]]
        /\ \A b \in Actors : task'[b] \in TasksOf(b)
    <3> HIDE DEF marked, c
    <3> QED
      BY Zenon, <1>0, <2>4, <2>5, DoTyped
  <2>8. UNCHANGED <<setting, kafkas, outside, split, lost, counters>>
    BY Zenon, <1>4 DEF ScaleDown
  <2> QED
    BY Zenon, <2>6, <2>7, <2>8 DEF TypeOK, RowsType, setting, outside, counters
<1> QED
  BY Zenon, <1>1, <1>2, <1>3, <1>4

\* Every step of the deprovisioning and cleanup workers keeps the types.
LEMMA TypeRemoval ==
    ASSUME TypeOK,
           \/ \E c \in Clusters : ProcessDeprovisioning(c) \/ RemoveServiceAccount(c)
           \/ RestoreCluster \/ DeleteCluster \/ MarkForCleanup \/ DeleteRow
    PROVE  TypeOK'
<1>0. /\ "deprovisioning" \in Actors /\ TasksOf("deprovisioning") = {Idle} \cup Removals
      /\ "cleanup" \in Actors /\ TasksOf("cleanup") = {Idle} \cup Cleanups
  BY Zenon, Bounds, TasksAre DEF Workers
<1>1. ASSUME NEW c \in Clusters, ProcessDeprovisioning(c)
      PROVE  TypeOK'
  <2> DEFINE t == [op |-> IF c \in Enterprise THEN "removed"
                          ELSE IF HostedBy(c) # {} THEN "restore" ELSE "remove", c |-> c]
  <2>1. t \in TasksOf("deprovisioning")
    <3>1. c \notin Enterprise => c \in Managed
      BY Zenon DEF Clusters
    <3> QED
      BY Zenon, <1>0, <3>1 DEF Removals
  <2>2. /\ task' = [b \in Actors |-> task'[b]]
        /\ \A b \in Actors : task'[b] \in TasksOf(b)
    <3>1. Do("deprovisioning", t)
      BY Zenon, <1>1 DEF ProcessDeprovisioning
    <3> HIDE DEF t
    <3> QED
      BY Zenon, <1>0, <2>1, <3>1, DoTyped
  <2> QED
    BY Zenon, <1>1, <2>2, CountersTyped
    DEF ProcessDeprovisioning, TypeOK, setting, tables, outside, counters
<1>2. ASSUME NEW c \in Clusters, RemoveServiceAccount(c)
      PROVE  TypeOK'
  <2>1. [op |-> "delete", c |-> c] \in TasksOf("cleanup")
    BY Zenon, <1>0 DEF Cleanups
  <2>2. /\ task' = [b \in Actors |-> task'[b]]
        /\ \A b \in Actors : task'[b] \in TasksOf(b)
    BY Zenon, <1>0, <1>2, <2>1, DoTyped DEF RemoveServiceAccount
  <2> QED
    BY Zenon, <1>2, <2>2, CountersTyped
    DEF RemoveServiceAccount, TypeOK, setting, tables, outside, counters
<1>3. ASSUME RestoreCluster
      PROVE  TypeOK'
  <2>1. task["deprovisioning"].c \in Clusters /\ "ready" \in Statuses
    BY Zenon, <1>3, TaskKinds, Bounds DEF RestoreCluster, Statuses
  <2>2. rows' \in RowsType
    BY Zenon, <1>3, <2>1, SetTyped DEF RestoreCluster
  <2>3. /\ task' = [b \in Actors |-> task'[b]]
        /\ \A b \in Actors : task'[b] \in TasksOf(b)
    BY Zenon, <1>0, <1>3, DoneTyped DEF RestoreCluster
  <2> QED
    BY Zenon, <1>3, <2>2, <2>3
    DEF RestoreCluster, TypeOK, RowsType, setting, tables, outside, counters
<1>4. ASSUME DeleteCluster
      PROVE  TypeOK'
  <2> DEFINE c == task["deprovisioning"].c
  <2>1. c \in Clusters
    BY Zenon, <1>4, TaskKinds, Bounds DEF DeleteCluster
  <2>2. [op |-> "removed", c |-> c] \in TasksOf("deprovisioning")
    BY Zenon, <1>0, <2>1 DEF Removals
  <2>3. Do("deprovisioning", [op |-> "removed", c |-> c]) \/ Done("deprovisioning")
    BY Zenon, <1>4 DEF DeleteCluster
  <2>4. /\ task' = [b \in Actors |-> task'[b]]
        /\ \A b \in Actors : task'[b] \in TasksOf(b)
    <3> HIDE DEF c
    <3> QED
      BY Zenon, <1>0, <2>2, <2>3, DoTyped, DoneTyped
  <2>5. cloud' \in [Clusters -> {"none", "installing", "up", "error", "deleting"}]
    BY Zenon, <1>4 DEF DeleteCluster, TypeOK
  <2>6. UNCHANGED <<setting, tables, accounts, reserved, split, lost, counters>>
    BY Zenon, <1>4 DEF DeleteCluster
  <2> QED
    BY Zenon, <2>4, <2>5, <2>6 DEF TypeOK, setting, tables, counters
<1>5. ASSUME MarkForCleanup
      PROVE  TypeOK'
  <2>1. task["deprovisioning"].c \in Clusters /\ "cleanup" \in Statuses
    BY Zenon, <1>5, TaskKinds DEF MarkForCleanup, Statuses, Leaving
  <2>2. rows' \in RowsType
    BY Zenon, <1>5, <2>1, SetTyped DEF MarkForCleanup
  <2>3. /\ task' = [b \in Actors |-> task'[b]]
        /\ \A b \in Actors : task'[b] \in TasksOf(b)
    BY Zenon, <1>0, <1>5, DoneTyped DEF MarkForCleanup
  <2> QED
    BY Zenon, <1>5, <2>2, <2>3
    DEF MarkForCleanup, TypeOK, RowsType, setting, tables, outside, counters
<1>6. ASSUME DeleteRow
      PROVE  TypeOK'
  <2>1. NoRow \in [st : Statuses, units : {0, Units}]
    BY Zenon DEF NoRow, Row, Statuses
  <2>2. rows' \in RowsType
    BY Zenon, <1>6, <2>1, WriteTyped DEF DeleteRow
  <2>3. /\ task' = [b \in Actors |-> task'[b]]
        /\ \A b \in Actors : task'[b] \in TasksOf(b)
    BY Zenon, <1>0, <1>6, DoneTyped DEF DeleteRow
  <2> QED
    BY Zenon, <1>6, <2>2, <2>3
    DEF DeleteRow, TypeOK, RowsType, setting, tables, outside, counters
<1> QED
  BY Zenon, <1>1, <1>2, <1>3, <1>4, <1>5, <1>6

\* So do the cloud provider, the deployment and the failures.
LEMMA TypeOthers ==
    ASSUME TypeOK,
           \/ \E c \in Managed : Installed(c) \/ InstallFails(c) \/ Deleted(c)
                                 \/ Reconfigure(c)
           \/ \E a \in Actors : Fail(a)
    PROVE  TypeOK'
<1>1. ASSUME NEW c \in Managed, Installed(c)
      PROVE  TypeOK'
  BY Zenon, <1>1 DEF Installed, TypeOK, setting, tables, counters
<1>2. ASSUME NEW c \in Managed, InstallFails(c)
      PROVE  TypeOK'
  BY Zenon, <1>2, CountersTyped DEF InstallFails, TypeOK, setting, tables
<1>3. ASSUME NEW c \in Managed, Deleted(c)
      PROVE  TypeOK'
  BY Zenon, <1>3 DEF Deleted, TypeOK, setting, tables, counters
<1>4. ASSUME NEW c \in Managed, Reconfigure(c)
      PROVE  TypeOK'
  BY Zenon, <1>4, CountersTyped DEF Reconfigure, TypeOK, tables, outside
<1>5. ASSUME NEW a \in Actors, Fail(a)
      PROVE  TypeOK'
  <2>1. /\ task' = [b \in Actors |-> task'[b]]
        /\ \A b \in Actors : task'[b] \in TasksOf(b)
    BY Zenon, <1>5, DoneTyped DEF Fail
  <2>2. lost' \subseteq {"quota", "account", "cluster"}
    <3>1. LeftBehind(a) \subseteq {"quota", "account", "cluster"}
      BY Zenon DEF LeftBehind
    <3> QED
      BY Zenon, <1>5, <3>1 DEF Fail, TypeOK
  <2>3. cloud' \in [Clusters -> {"none", "installing", "up", "error", "deleting"}]
    BY Zenon, <1>5 DEF Fail, TypeOK
  <2> QED
    BY Zenon, <1>5, <2>1, <2>2, <2>3, CountersTyped DEF Fail, TypeOK, setting, tables
<1> QED
  BY Zenon, <1>1, <1>2, <1>3, <1>4, <1>5

-----------------------------------------------------------------------------
(* The steps, by what they are steps of.                                   *)

RequestSteps ==
    \E q \in Requests :
        \/ Serving(q)
        \/ \E c \in Clusters : RegisterEnterpriseCluster(q, c)
                                \/ DeregisterEnterpriseCluster(q, c)
        \/ \E c \in Clusters, kind \in {"first", "again", "trouble"} :
              ReportStatus(q, c, kind)
        \/ \E r \in Replicas, size \in Sizes, ent \in BOOLEAN :
              RegisterKafkaJob(q, r, size, ent)

KafkaSteps ==
    \/ AssignKafka
    \/ \E k \in Kafkas :
          \/ FindClusterForKafka(k) \/ KafkaTimesOut(k)
          \/ KafkaDeprovision(k) \/ KafkaDeleting(k) \/ KafkaRemoved(k)

ManagerSteps ==
    \/ \E c \in Clusters : ProcessCluster(c) \/ ReconcileReadyCluster(c)
    \/ SaveCluster \/ ReconcileManualConfig \/ DeprovisionExcess

ScalingSteps == EvaluateScaleUp \/ ScaleUp \/ EvaluateScaleDown \/ ScaleDown

RemovalSteps ==
    \/ \E c \in Clusters : ProcessDeprovisioning(c) \/ RemoveServiceAccount(c)
    \/ RestoreCluster \/ DeleteCluster \/ MarkForCleanup \/ DeleteRow

OtherSteps ==
    \/ \E c \in Managed : Installed(c) \/ InstallFails(c) \/ Deleted(c) \/ Reconfigure(c)
    \/ \E a \in Actors : Fail(a)

\* Every step is one of these.
LEMMA StepKinds ==
    ASSUME Next
    PROVE  \/ RequestSteps \/ KafkaSteps \/ ManagerSteps
           \/ ScalingSteps \/ RemovalSteps \/ OtherSteps
<1>1. Users => RequestSteps \/ KafkaSteps \/ OtherSteps
  BY Zenon DEF Users, RequestSteps, KafkaSteps, OtherSteps
<1>2. Reconcilers => KafkaSteps \/ ManagerSteps \/ ScalingSteps \/ RemovalSteps
  BY Zenon DEF Reconcilers, KafkaSteps, ManagerSteps, ScalingSteps, RemovalSteps
<1>3. Progress => \/ RequestSteps \/ KafkaSteps \/ ManagerSteps
                  \/ ScalingSteps \/ RemovalSteps \/ OtherSteps
  BY <1>2, Zenon DEF Progress, RequestSteps, OtherSteps
<1>4. ASSUME NEW q \in Requests, NEW c \in Clusters,
             ReportStatus(q, c, "again") \/ ReportStatus(q, c, "trouble")
      PROVE  RequestSteps
  BY <1>4, Zenon DEF RequestSteps
<1> QED
  BY <1>1, <1>3, <1>4, Zenon DEF Next, KafkaSteps, OtherSteps

\* What the steps that have no part in the registration of Kafkas leave alone.
RegFrame ==
    /\ UNCHANGED <<kafkas, reserved, scaling, split, lost>>
    /\ configured' \subseteq configured
    /\ task'["accepted"] = task["accepted"]
    /\ \A q \in Requests : /\ Registering(q)' <=> Registering(q)
                           /\ Registering(q) => task'[q] = task[q]

\* A worker other than the one of the accepted Kafkas has no part in it.
LEMMA WorkerFrame ==
    ASSUME TypeOK, NEW a \in Workers \ {"accepted"}, NEW t, Do(a, t)
    PROVE  /\ task'["accepted"] = task["accepted"]
           /\ \A q \in Requests : task'[q] = task[q]
<1>1. a \in Actors /\ "accepted" \in Actors
  BY Zenon, Bounds DEF Workers
<1>2. \A q \in Requests : q \in Actors /\ q # a
  BY Zenon, Bounds
<1> QED
  BY Zenon, <1>1, <1>2, DoFrame

\* Neither has a request about a cluster.
LEMMA RequestFrame ==
    ASSUME TypeOK, NEW q \in Requests, NEW t, Do(q, t),
           ~Registering(q), t.op \notin {"place", "reserve", "insert"}
    PROVE  /\ task'["accepted"] = task["accepted"]
           /\ \A o \in Requests : /\ Registering(o)' <=> Registering(o)
                                  /\ Registering(o) => task'[o] = task[o]
<1>1. q \in Actors /\ "accepted" \in Actors /\ q # "accepted"
  BY Zenon, Bounds DEF Workers
<1>2. task'[q] = t /\ \A b \in Actors : b # q => task'[b] = task[b]
  BY Zenon, <1>1, DoFrame
<1> QED
  BY Zenon, <1>1, <1>2, Bounds DEF Registering

\* All the other steps are such.
LEMMA ClusterStepsFrame ==
    ASSUME TypeOK,
           \/ ManagerSteps \/ ScalingSteps \/ RemovalSteps
           \/ \E c \in Managed : Installed(c) \/ InstallFails(c) \/ Deleted(c)
                                 \/ Reconfigure(c)
           \/ \E q \in Requests :
                 \/ SetClusterStatus(q) \/ SetClusterWaiting(q)
                 \/ RegisterClusterJob(q) \/ DeregisterClusterJob(q)
                 \/ \E c \in Clusters : RegisterEnterpriseCluster(q, c)
                                         \/ DeregisterEnterpriseCluster(q, c)
                 \/ \E c \in Clusters, kind \in {"first", "again", "trouble"} :
                       ReportStatus(q, c, kind)
    PROVE  RegFrame
<1>1. ASSUME NEW a \in Workers \ {"accepted"}, NEW t, Do(a, t),
             UNCHANGED <<setting, kafkas, reserved, split, lost>>
      PROVE  RegFrame
  <2>1. /\ task'["accepted"] = task["accepted"]
        /\ \A q \in Requests : task'[q] = task[q]
    BY Zenon, <1>1, WorkerFrame
  <2> QED
    BY Zenon, <1>1, <2>1 DEF RegFrame, setting, Registering
<1>2. ASSUME NEW q \in Requests, NEW t, Do(q, t), ~Registering(q),
             t.op \notin {"place", "reserve", "insert"},
             UNCHANGED <<setting, kafkas, reserved, split, lost>>
      PROVE  RegFrame
  <2>1. /\ task'["accepted"] = task["accepted"]
        /\ \A o \in Requests : /\ Registering(o)' <=> Registering(o)
                               /\ Registering(o) => task'[o] = task[o]
    BY Zenon, <1>2, RequestFrame
  <2> QED
    BY Zenon, <1>2, <2>1 DEF RegFrame, setting
<1>3. {"clusters", "up", "down", "deprovisioning", "cleanup"} \subseteq Workers \ {"accepted"}
  BY Zenon DEF Workers
<1>4. ASSUME ManagerSteps
      PROVE  RegFrame
  <2>1. UNCHANGED <<setting, kafkas, reserved, split, lost>>
    BY Zenon, <1>4 DEF ManagerSteps, ProcessCluster, ReconcileReadyCluster, SaveCluster,
                ReconcileManualConfig, DeprovisionExcess, tables, outside
  <2>2. \E t : Do("clusters", t)
    BY <1>4, Zenon DEF ManagerSteps, ProcessCluster, ReconcileReadyCluster, SaveCluster,
                       ReconcileManualConfig, DeprovisionExcess, Done
  <2> QED
    BY Zenon, <1>1, <1>3, <2>1, <2>2
<1>5. ASSUME ScalingSteps
      PROVE  RegFrame
  <2>1. UNCHANGED <<setting, kafkas, reserved, split, lost>>
    BY Zenon, <1>5 DEF ScalingSteps, EvaluateScaleUp, ScaleUp, EvaluateScaleDown, ScaleDown,
                tables, outside
  <2>2. (\E t : Do("up", t)) \/ (\E t : Do("down", t))
    BY <1>5, Zenon DEF ScalingSteps, EvaluateScaleUp, ScaleUp, EvaluateScaleDown, ScaleDown,
                       Done
  <2> QED
    BY Zenon, <1>1, <1>3, <2>1, <2>2
<1>6. ASSUME RemovalSteps
      PROVE  RegFrame
  <2>1. UNCHANGED <<setting, kafkas, reserved, split, lost>>
    BY Zenon, <1>6 DEF RemovalSteps, ProcessDeprovisioning, RemoveServiceAccount, RestoreCluster,
                DeleteCluster, MarkForCleanup, DeleteRow, tables, outside
  <2>2. (\E t : Do("deprovisioning", t)) \/ (\E t : Do("cleanup", t))
    BY <1>6, Zenon DEF RemovalSteps, ProcessDeprovisioning, RemoveServiceAccount,
                       RestoreCluster, DeleteCluster, MarkForCleanup, DeleteRow, Done
  <2> QED
    BY Zenon, <1>1, <1>3, <2>1, <2>2
<1>7. ASSUME NEW c \in Managed, Installed(c) \/ InstallFails(c) \/ Deleted(c) \/ Reconfigure(c)
      PROVE  RegFrame
  BY Zenon, <1>7 DEF Installed, InstallFails, Deleted, Reconfigure, RegFrame, Registering,
              setting, tables, outside
<1>8. ASSUME NEW q \in Requests,
             \/ SetClusterStatus(q) \/ SetClusterWaiting(q)
             \/ RegisterClusterJob(q) \/ DeregisterClusterJob(q)
      PROVE  RegFrame
  <2>1. UNCHANGED <<setting, kafkas, reserved, split, lost>>
    BY Zenon, <1>8 DEF SetClusterStatus, SetClusterWaiting, RegisterClusterJob,
                DeregisterClusterJob, tables, outside
  <2>2. Do(q, Idle)
    BY Zenon, <1>8 DEF SetClusterStatus, SetClusterWaiting, RegisterClusterJob,
                DeregisterClusterJob, Done
  <2>3. ~Registering(q)
    BY Zenon, <1>8 DEF SetClusterStatus, SetClusterWaiting, RegisterClusterJob,
                DeregisterClusterJob, Registering
  <2>4. Idle.op \notin {"place", "reserve", "insert"}
    BY Zenon DEF Idle
  <2> QED
    BY Zenon, <1>2, <2>1, <2>2, <2>3, <2>4
<1>9. \A q \in Requests : task[q] = Idle => ~Registering(q)
  BY DEF Idle, Registering
<1>10. ASSUME NEW q \in Requests, NEW c \in Clusters,
              RegisterEnterpriseCluster(q, c) \/ DeregisterEnterpriseCluster(q, c)
       PROVE  RegFrame
  <2>1. UNCHANGED <<setting, kafkas, reserved, split, lost>> /\ task[q] = Idle
    BY Zenon, <1>10 DEF RegisterEnterpriseCluster, DeregisterEnterpriseCluster, Free, tables,
       outside
  <2>2. \/ Do(q, [op |-> "enroll", c |-> c])
        \/ Do(q, [op |-> "deregister", c |-> c])
    BY Zenon, <1>10 DEF RegisterEnterpriseCluster, DeregisterEnterpriseCluster
  <2> QED
    BY Zenon, <1>2, <1>9, <2>1, <2>2
<1>11. ASSUME NEW q \in Requests, NEW c \in Clusters,
              NEW kind \in {"first", "again", "trouble"}, ReportStatus(q, c, kind)
       PROVE  RegFrame
  <2>1. UNCHANGED <<setting, kafkas, reserved, split, lost>> /\ task[q] = Idle
    BY Zenon, <1>11 DEF ReportStatus, Free, tables, outside
  <2>2. Do(q, [op |-> "waiting", c |-> c]) \/ Do(q, [op |-> "ready", c |-> c])
    BY Zenon, <1>11 DEF ReportStatus
  <2> QED
    BY Zenon, <1>2, <1>9, <2>1, <2>2
<1> QED
  BY Zenon, <1>4, <1>5, <1>6, <1>7, <1>8, <1>10, <1>11

\* The steps that do have a part in it.
RegSteps ==
    \/ \E q \in Requests :
          \/ Place(q) \/ ReserveQuota(q) \/ CreateKafka(q)
          \/ \E r \in Replicas, size \in Sizes, ent \in BOOLEAN :
                RegisterKafkaJob(q, r, size, ent)
    \/ KafkaSteps
    \/ \E a \in Actors : Fail(a)

\* Every step is one of these, or leaves all that alone.
LEMMA RegKinds ==
    ASSUME TypeOK, Next
    PROVE  RegSteps \/ RegFrame
<1>1. ASSUME RequestSteps
      PROVE  RegSteps \/ RegFrame
  <2>1. PICK q \in Requests :
            \/ Serving(q)
            \/ \E c \in Clusters : RegisterEnterpriseCluster(q, c)
                                    \/ DeregisterEnterpriseCluster(q, c)
            \/ \E c \in Clusters, kind \in {"first", "again", "trouble"} :
                  ReportStatus(q, c, kind)
            \/ \E r \in Replicas, size \in Sizes, ent \in BOOLEAN :
                  RegisterKafkaJob(q, r, size, ent)
    BY Zenon, <1>1 DEF RequestSteps
  <2> QED
    BY <2>1, ClusterStepsFrame, Zenon DEF Serving, RegSteps
<1>2. ASSUME OtherSteps
      PROVE  RegSteps \/ RegFrame
  BY Zenon, <1>2, ClusterStepsFrame DEF OtherSteps, RegSteps
<1> QED
  BY Zenon, <1>1, <1>2, StepKinds, ClusterStepsFrame DEF RegSteps

-----------------------------------------------------------------------------
(* Quota.                                                                  *)

Rowed == {k \in Kafkas : kafkas[k].st # "none"}
Inserting == {q \in Requests : task[q].op = "insert"}

\* What is held at the quota service is never less than the Kafkas and the
\* registrations about to insert one, and exactly that unless an insert failed.
QuotaInv ==
    /\ Cardinality(Rowed) + Cardinality(Inserting) <= reserved
    /\ "quota" \notin lost => reserved = Cardinality(Rowed) + Cardinality(Inserting)

\* The numbers it speaks of.
LEMMA QuotaNumbers ==
    /\ IsFiniteSet(Rowed) /\ IsFiniteSet(Inserting)
    /\ Cardinality(Rowed) \in Nat /\ Cardinality(Inserting) \in Nat
<1>1. Rowed \in SUBSET Kafkas /\ Inserting \in SUBSET Requests
  BY Zenon DEF Rowed, Inserting
<1>2. IsFiniteSet(Rowed) /\ IsFiniteSet(Inserting)
  BY Zenon, <1>1, Bounds, FS_Subset
<1> QED
  BY Zenon, <1>2, FS_CardinalityType

\* A row that is inserted is a free one.
LEMMA FreeKafka ==
    ASSUME FreeKafkas # {}
    PROVE  Min(FreeKafkas) \in FreeKafkas
<1>1. FreeKafkas \subseteq Kafkas
  BY Zenon DEF FreeKafkas
<1> QED
  BY Zenon, <1>1, LeastOf, Bounds

\* Every step keeps the quota right.
LEMMA QuotaStep ==
    ASSUME TypeOK, QuotaInv, Next
    PROVE  QuotaInv'
<1>0. /\ reserved \in Nat
      /\ kafkas = [k \in Kafkas |-> kafkas[k]]
  BY Zenon DEF TypeOK
<1>1. ASSUME RegFrame
      PROVE  QuotaInv'
  <2>1. Inserting' = Inserting
    BY Zenon, <1>1 DEF RegFrame, Inserting, Registering
  <2>2. Rowed' = Rowed
    BY Zenon, <1>1 DEF RegFrame, Rowed
  <2> QED
    BY Zenon, <1>1, <2>1, <2>2 DEF RegFrame, QuotaInv
<1>2. ASSUME NEW q \in Requests, NEW r \in Replicas, NEW size \in Sizes, NEW ent \in BOOLEAN,
             RegisterKafkaJob(q, r, size, ent)
      PROVE  QuotaInv'
  <2> DEFINE t == Register(IF scaling = "auto" /\ ~ent THEN "reserve" ELSE "place",
                           r, size, ent, Nowhere)
  <2>1. task'[q] = t /\ \A b \in Requests : b # q => task'[b] = task[b]
    BY Zenon, <1>2, DoFrame, Bounds DEF RegisterKafkaJob
  <2>2. t.op # "insert" /\ task[q].op # "insert"
    BY <1>2 DEF Register, RegisterKafkaJob, Free, Idle
  <2>3. Inserting' = Inserting
    BY Zenon, <2>1, <2>2 DEF Inserting
  <2>4. UNCHANGED <<kafkas, reserved, lost>>
    BY Zenon, <1>2 DEF RegisterKafkaJob, tables, outside
  <2> QED
    BY Zenon, <2>3, <2>4 DEF QuotaInv, Rowed
<1>3. ASSUME NEW q \in Requests, Place(q)
      PROVE  QuotaInv'
  <2>1. PICK t : Do(q, t) /\ t.op # "insert"
    <3>1. Idle.op # "insert"
      BY Zenon DEF Idle
    <3>2. \A r, size, ent, c : Register("reserve", r, size, ent, c).op # "insert"
      BY Zenon DEF Register
    <3> QED
      BY <1>3, <3>1, <3>2, ZenonT(40) DEF Place, Done
  <2>2. task'[q] = t /\ \A b \in Requests : b # q => task'[b] = task[b]
    BY Zenon, <2>1, DoFrame, Bounds
  <2>3. Inserting' = Inserting
    BY Zenon, <1>3, <2>1, <2>2 DEF Inserting, Place
  <2>4. UNCHANGED <<kafkas, reserved, lost>>
    BY Zenon, <1>3 DEF Place, tables, outside
  <2> QED
    BY Zenon, <2>3, <2>4 DEF QuotaInv, Rowed
<1>4. ASSUME NEW q \in Requests, ReserveQuota(q)
      PROVE  QuotaInv'
  <2>0. q \notin Inserting /\ UNCHANGED <<kafkas, lost>> /\ Rowed' = Rowed
    BY Zenon, <1>4 DEF ReserveQuota, Inserting, tables, Rowed
  <2>1. CASE /\ reserved' = reserved + 1
             /\ Do(q, Register("insert", task[q].r, task[q].size, task[q].ent, task[q].host))
    <3>1. task'[q].op = "insert" /\ \A b \in Requests : b # q => task'[b] = task[b]
      BY <2>1, DoFrame, Bounds DEF Register
    <3>2. Inserting' = Inserting \cup {q}
      BY Zenon, <3>1 DEF Inserting
    <3>3. Cardinality(Inserting') = Cardinality(Inserting) + 1
      BY Zenon, <2>0, <3>2, QuotaNumbers, FS_AddElement
    <3> QED
      BY <1>0, <2>0, <2>1, <3>3, QuotaNumbers DEF QuotaInv
  <2>2. CASE UNCHANGED reserved /\ Done(q)
    <3>1. task'[q] = Idle /\ \A b \in Requests : b # q => task'[b] = task[b]
      BY Zenon, <2>2, DoFrame, Bounds DEF Done
    <3>2. Inserting' = Inserting
      BY <2>0, <3>1 DEF Inserting, Idle
    <3> QED
      BY Zenon, <2>0, <2>2, <3>2 DEF QuotaInv
  <2> QED
    BY Zenon, <1>4, <2>1, <2>2 DEF ReserveQuota
<1>5. ASSUME NEW q \in Requests, CreateKafka(q)
      PROVE  QuotaInv'
  <2>1. PICK k \in FreeKafkas : 
            kafkas' = [kafkas EXCEPT ![k] =
                         Kafka("accepted", task[q].host, task[q].size, task[q].ent)]
    BY Zenon, <1>5, FreeKafka DEF CreateKafka
  <2>2. k \in Kafkas /\ k \notin Rowed
    BY Zenon, <2>1 DEF FreeKafkas, Rowed
  <2>3. Rowed' = Rowed \cup {k}
    BY Zenon, <1>0, <2>1, <2>2 DEF Rowed, Kafka
  <2>4. Cardinality(Rowed') = Cardinality(Rowed) + 1
    BY Zenon, <2>2, <2>3, QuotaNumbers, FS_AddElement
  <2>5. task'[q] = Idle /\ \A b \in Requests : b # q => task'[b] = task[b]
    BY Zenon, <1>5, DoFrame, Bounds DEF Done, CreateKafka
  <2>6. q \in Inserting /\ Inserting' = Inserting \ {q}
    BY <1>5, <2>5 DEF Inserting, Idle, CreateKafka
  <2>7. Cardinality(Inserting') = Cardinality(Inserting) - 1
    BY Zenon, <2>6, QuotaNumbers, FS_RemoveElement
  <2>8. UNCHANGED <<reserved, lost>>
    BY Zenon, <1>5 DEF CreateKafka, outside
  <2> QED
    BY <1>0, <2>4, <2>7, <2>8, QuotaNumbers DEF QuotaInv
<1>6. ASSUME NEW a \in Actors, Fail(a)
      PROVE  QuotaInv'
  <2>1. task'[a] = Idle /\ \A b \in Actors : b # a => task'[b] = task[b]
    BY Zenon, <1>6, DoFrame DEF Done, Fail
  <2>2. UNCHANGED <<kafkas, reserved>> /\ Rowed' = Rowed /\ lost \subseteq lost'
    BY Zenon, <1>6 DEF Fail, tables, Rowed
  <2>3. CASE a \in Inserting
    <3>1. Inserting' = Inserting \ {a}
      BY <2>1, <2>3, Bounds DEF Inserting, Idle
    <3>2. Cardinality(Inserting') = Cardinality(Inserting) - 1
      BY Zenon, <2>3, <3>1, QuotaNumbers, FS_RemoveElement
    <3>3. "quota" \in lost'
      BY Zenon, <1>6, <2>3 DEF Fail, LeftBehind, Inserting
    <3> QED
      BY <1>0, <2>2, <3>2, <3>3, QuotaNumbers DEF QuotaInv
  <2>4. CASE a \notin Inserting
    <3>1. Inserting' = Inserting
      BY <2>1, <2>4, Bounds DEF Inserting, Idle
    <3> QED
      BY Zenon, <2>2, <3>1 DEF QuotaInv
  <2> QED
    BY Zenon, <2>3, <2>4
<1>7. ASSUME KafkaSteps
      PROVE  QuotaInv'
  <2>0. Inserting' = Inserting /\ UNCHANGED lost
    <3>1. UNCHANGED lost /\ ((\E t : Do("accepted", t)) \/ UNCHANGED task)
      BY <1>7, Zenon DEF KafkaSteps, AssignKafka, FindClusterForKafka, KafkaTimesOut,
         KafkaDeprovision,
                  KafkaDeleting, KafkaRemoved, Done
    <3>2. \A q \in Requests : q # "accepted" /\ q \in Actors
      BY Zenon, Bounds DEF Workers
    <3>3. "accepted" \in Actors
      BY Zenon, Bounds DEF Workers
    <3>4. \A q \in Requests : task'[q] = task[q]
      BY Zenon, <3>1, <3>2, <3>3, DoFrame
    <3> QED
      BY Zenon, <3>1, <3>4 DEF Inserting
  <2>1. ASSUME NEW k \in Kafkas, KafkaRemoved(k)
        PROVE  QuotaInv'
    <3>1. k \in Rowed /\ Rowed' = Rowed \ {k}
      BY Zenon, <1>0, <2>1 DEF KafkaRemoved, Rowed, NoKafka, Kafka
    <3>2. Cardinality(Rowed') = Cardinality(Rowed) - 1
      BY Zenon, <3>1, QuotaNumbers, FS_RemoveElement
    <3>3. reserved' = reserved - 1
      BY Zenon, <2>1 DEF KafkaRemoved
    <3> QED
      BY <1>0, <2>0, <3>2, <3>3, QuotaNumbers DEF QuotaInv
  <2>2. ASSUME Rowed' = Rowed, UNCHANGED reserved
        PROVE  QuotaInv'
    BY Zenon, <2>0, <2>2 DEF QuotaInv
  <2>3. ASSUME NEW k \in Kafkas, kafkas[k].st # "none",
               NEW st, st # "none", NEW host, NEW size, NEW ent,
               kafkas' = [kafkas EXCEPT ![k] = Kafka(st, host, size, ent)]
        PROVE  Rowed' = Rowed
    BY Zenon, <1>0, <2>3 DEF Rowed, Kafka
  <2>4. ASSUME NEW k \in Kafkas,
               KafkaTimesOut(k) \/ KafkaDeprovision(k) \/ KafkaDeleting(k)
        PROVE  QuotaInv'
    <3>1. kafkas[k].st # "none" /\ UNCHANGED reserved
      BY Zenon, <2>4 DEF KafkaTimesOut, KafkaDeprovision, KafkaDeleting, Unplaced, outside
    <3>2. CASE KafkaTimesOut(k)
      BY Zenon, <2>2, <2>3, <3>1, <3>2 DEF KafkaTimesOut
    <3>3. CASE KafkaDeprovision(k)
      BY Zenon, <2>2, <2>3, <3>1, <3>3 DEF KafkaDeprovision
    <3>4. CASE KafkaDeleting(k)
      BY Zenon, <2>2, <2>3, <3>1, <3>4 DEF KafkaDeleting
    <3> QED
      BY Zenon, <2>4, <3>2, <3>3, <3>4
  <2>5. ASSUME AssignKafka
        PROVE  QuotaInv'
    <3>1. task["accepted"].k \in Kafkas
      BY Zenon, <2>5, TaskKinds DEF AssignKafka, Assignments
    <3>2. UNCHANGED reserved
      BY Zenon, <2>5 DEF AssignKafka, outside
    <3>3. Rowed' = Rowed
      BY Zenon, <2>3, <2>5, <3>1 DEF AssignKafka, Rowed
    <3> QED
      BY Zenon, <2>2, <3>2, <3>3
  <2>6. ASSUME NEW k \in Kafkas, FindClusterForKafka(k)
        PROVE  QuotaInv'
    BY Zenon, <2>2, <2>6 DEF FindClusterForKafka, Rowed, tables, outside
  <2> QED
    BY Zenon, <1>7, <2>1, <2>4, <2>5, <2>6 DEF KafkaSteps
<1> QED
  BY Zenon, <1>1, <1>2, <1>3, <1>4, <1>5, <1>6, <1>7, RegKinds DEF RegSteps

-----------------------------------------------------------------------------
(* One registration at a time, and where Kafkas are placed.                *)

\* The mutex: a replica registers one Kafka at a time, and as long as two
\* replicas never did so at a time, there is one registration at most.
MutexInv ==
    \A q, o \in Requests :
        Registering(q) /\ Registering(o) /\ (task[q].r = task[o].r \/ ~split) => q = o

\* Where Kafkas are placed: enterprise Kafkas by their registration, and the
\* others too with manual scaling; with dynamic scaling by the worker, which
\* finds the Kafka as it left it, or on its way out.
HostOf(q) ==
    Registering(q) =>
        IF task[q].op = "place"
        THEN task[q].host = Nowhere /\ (task[q].ent \/ scaling # "auto")
        ELSE task[q].host \in (IF task[q].ent THEN Enterprise
                               ELSE IF scaling = "auto" THEN {Nowhere} ELSE Managed)

HostOfRow(k) ==
    /\ Unplaced(k) => scaling = "auto"
    /\ kafkas[k].st # "none" => kafkas[k].size \in Sizes
    /\ kafkas[k].host \in Enterprise => kafkas[k].ent

HostOfWorker ==
    task["accepted"] # Idle =>
        /\ scaling = "auto"
        /\ \/ Unplaced(task["accepted"].k)
           \/ kafkas[task["accepted"].k].st \in {"none", "deprovision", "deleting"}

HostInv ==
    /\ \A q \in Requests : HostOf(q)
    /\ \A k \in Kafkas : HostOfRow(k)
    /\ HostOfWorker

\* The others, while the task of one request changes.
Others(q) == /\ task'["accepted"] = task["accepted"]
             /\ \A o \in Requests : o # q => task'[o] = task[o]

\* A request changes its own task only.
LEMMA OthersKept ==
    ASSUME TypeOK, NEW q \in Requests, NEW t, Do(q, t)
    PROVE  task'[q] = t /\ Others(q)
<1>1. q \in Actors /\ "accepted" \in Actors /\ q # "accepted"
  BY Zenon, Bounds DEF Workers
<1> QED
  BY Zenon, <1>1, DoFrame, Bounds DEF Others

\* Every step keeps the mutex.
LEMMA MutexStep ==
    ASSUME TypeOK, MutexInv, Next
    PROVE  MutexInv'
<1>1. ASSUME RegFrame
      PROVE  MutexInv'
  BY Zenon, <1>1 DEF RegFrame, MutexInv
<1>2. ASSUME NEW q \in Requests, NEW t, Do(q, t), UNCHANGED split,
             Registering(q), t.op \in {"place", "reserve", "insert"} => t.r = task[q].r
      PROVE  MutexInv'
  <2>1. task'[q] = t /\ Others(q)
    BY Zenon, <1>2, OthersKept
  <2> QED
    BY ZenonT(40), <1>2, <2>1 DEF Others, MutexInv, Registering
<1>3. ASSUME NEW q \in Requests,
             Place(q) \/ ReserveQuota(q) \/ CreateKafka(q)
      PROVE  MutexInv'
  <2>1. Idle.op \notin {"place", "reserve", "insert"}
    BY Zenon DEF Idle
  <2>2. \A op, size, ent, host : Register(op, task[q].r, size, ent, host).r = task[q].r
    BY Zenon DEF Register
  <2>3. Registering(q) /\ UNCHANGED split
    BY Zenon, <1>3 DEF Place, ReserveQuota, CreateKafka, Registering
  <2>4. CASE Place(q)
    BY Zenon, <1>2, <2>1, <2>2, <2>3, <2>4 DEF Place, Done
  <2>5. CASE ReserveQuota(q)
    BY <1>2, <2>1, <2>2, <2>3, <2>5 DEF ReserveQuota, Done
  <2>6. CASE CreateKafka(q)
    BY Zenon, <1>2, <2>1, <2>3, <2>6 DEF CreateKafka, Done
  <2> QED
    BY Zenon, <1>3, <2>4, <2>5, <2>6
<1>4. ASSUME NEW q \in Requests, NEW r \in Replicas, NEW size \in Sizes, NEW ent \in BOOLEAN,
             RegisterKafkaJob(q, r, size, ent)
      PROVE  MutexInv'
  <2>1. task'[q].r = r /\ Others(q)
    BY <1>4, OthersKept DEF RegisterKafkaJob, Register
  <2>2. \A o \in Requests : Registering(o) => task[o].r # r
    BY Zenon, <1>4 DEF RegisterKafkaJob, Locked
  <2>3. split' = (split \/ \E o \in Requests : Registering(o) /\ task[o].r # r)
    BY Zenon, <1>4 DEF RegisterKafkaJob
  <2> QED
    BY Zenon, <2>1, <2>2, <2>3 DEF Others, MutexInv, Registering
<1>5. ASSUME KafkaSteps
      PROVE  MutexInv'
  <2>1. UNCHANGED split /\ ((\E t : Do("accepted", t)) \/ UNCHANGED task)
    BY <1>5, Zenon DEF KafkaSteps, AssignKafka, FindClusterForKafka, KafkaTimesOut,
                       KafkaDeprovision, KafkaDeleting, KafkaRemoved, Done
  <2>2. "accepted" \in Actors /\ \A q \in Requests : q # "accepted" /\ q \in Actors
    BY Zenon, Bounds DEF Workers
  <2>3. \A q \in Requests : task'[q] = task[q]
    BY Zenon, <2>1, <2>2, DoFrame
  <2> QED
    BY Zenon, <2>1, <2>3 DEF MutexInv, Registering
<1>6. ASSUME NEW a \in Actors, Fail(a)
      PROVE  MutexInv'
  <2>1. task'[a] = Idle /\ \A b \in Actors : b # a => task'[b] = task[b]
    BY Zenon, <1>6, DoFrame DEF Done, Fail
  <2>2. UNCHANGED split
    BY Zenon, <1>6 DEF Fail
  <2> QED
    BY <2>1, <2>2, Bounds DEF MutexInv, Registering, Idle
<1> QED
  BY Zenon, <1>1, <1>3, <1>4, <1>5, <1>6, RegKinds DEF RegSteps

\* Every step keeps Kafkas and registrations with the right kind of host.
LEMMA HostStep ==
    ASSUME TypeOK, HostInv, Next
    PROVE  HostInv'
<1>0. /\ kafkas = [k \in Kafkas |-> kafkas[k]] /\ scaling \in {"auto", "manual"}
      /\ Nowhere \notin Enterprise /\ Managed \cap Enterprise = {}
      /\ "accepted" \in Actors /\ \A q \in Requests : q # "accepted" /\ q \in Actors
  BY Zenon, Bounds, FleetBounds DEF TypeOK, Workers
<1>1. ASSUME RegFrame
      PROVE  HostInv'
  <2>1. ASSUME NEW q \in Requests
        PROVE  HostOf(q)'
    BY Zenon, <1>1 DEF RegFrame, HostInv, HostOf
  <2>2. ASSUME NEW k \in Kafkas
        PROVE  HostOfRow(k)'
    BY Zenon, <1>1 DEF RegFrame, HostInv, HostOfRow, Unplaced
  <2>3. HostOfWorker'
    BY Zenon, <1>1 DEF RegFrame, HostInv, HostOfWorker, Unplaced
  <2> QED
    BY Zenon, <2>1, <2>2, <2>3 DEF HostInv
<1>2. ASSUME NEW q \in Requests, Others(q), UNCHANGED <<scaling, kafkas>>, HostOf(q)'
      PROVE  HostInv'
  <2>1. ASSUME NEW o \in Requests
        PROVE  HostOf(o)'
    BY Zenon, <1>2 DEF Others, HostInv, HostOf, Registering
  <2>2. ASSUME NEW k \in Kafkas
        PROVE  HostOfRow(k)'
    BY Zenon, <1>2 DEF HostInv, HostOfRow, Unplaced
  <2>3. HostOfWorker'
    BY Zenon, <1>2 DEF Others, HostInv, HostOfWorker, Unplaced
  <2> QED
    BY Zenon, <2>1, <2>2, <2>3 DEF HostInv
<1>3. ASSUME NEW q \in Requests, Place(q)
      PROVE  HostInv'
  <2>1. task[q] \in Registrations /\ HostOf(q)
    BY Zenon, <1>3, TaskKinds DEF Place, HostInv
  <2>2. UNCHANGED <<scaling, kafkas>>
    BY Zenon, <1>3 DEF Place, setting, tables
  <2>3. CASE Done(q)
    <3>1. task'[q] = Idle /\ Others(q)
      BY Zenon, <2>3, OthersKept DEF Done
    <3> QED
      BY <1>2, <2>2, <3>1 DEF HostOf, Registering, Idle
  <2>4. ASSUME NEW c \in FindCluster(task[q].size, task[q].ent),
               Do(q, Register("reserve", task[q].r, task[q].size, task[q].ent, c))
        PROVE  HostInv'
    <3>1. /\ task'[q] = Register("reserve", task[q].r, task[q].size, task[q].ent, c)
          /\ Others(q)
      BY Zenon, <2>4, OthersKept
    <3>2. task[q].ent \in BOOLEAN
      BY Zenon, <2>1 DEF Registrations
    <3>3. c \in IF task[q].ent THEN Enterprise ELSE Managed
      BY Zenon, <2>4, <3>2, FoundCluster
    <3>4. task[q].ent \/ scaling # "auto"
      BY Zenon, <1>3, <2>1 DEF HostOf, Registering, Place
    <3>5. HostOf(q)'
      BY <2>2, <3>1, <3>2, <3>3, <3>4 DEF HostOf, Register
    <3> QED
      BY Zenon, <1>2, <2>2, <3>1, <3>5
  <2> QED
    BY Zenon, <1>3, <2>3, <2>4 DEF Place
<1>4. ASSUME NEW q \in Requests, ReserveQuota(q)
      PROVE  HostInv'
  <2>1. UNCHANGED <<scaling, kafkas>> /\ HostOf(q)
    BY Zenon, <1>4 DEF ReserveQuota, setting, tables, HostInv
  <2>2. CASE Done(q)
    <3>1. task'[q] = Idle /\ Others(q)
      BY Zenon, <2>2, OthersKept DEF Done
    <3> QED
      BY <1>2, <2>1, <3>1 DEF HostOf, Registering, Idle
  <2>3. CASE Do(q, Register("insert", task[q].r, task[q].size, task[q].ent, task[q].host))
    <3>1. /\ task'[q] = Register("insert", task[q].r, task[q].size, task[q].ent, task[q].host)
          /\ Others(q)
      BY Zenon, <2>3, OthersKept
    <3>2. HostOf(q)'
      BY <1>4, <2>1, <3>1 DEF HostOf, Register, ReserveQuota, Registering
    <3> QED
      BY Zenon, <1>2, <2>1, <3>1, <3>2
  <2> QED
    BY Zenon, <1>4, <2>2, <2>3 DEF ReserveQuota
<1>5. ASSUME NEW q \in Requests, NEW r \in Replicas, NEW size \in Sizes, NEW ent \in BOOLEAN,
             RegisterKafkaJob(q, r, size, ent)
      PROVE  HostInv'
  <2>1. /\ task'[q] = Register(IF scaling = "auto" /\ ~ent THEN "reserve" ELSE "place",
                               r, size, ent, Nowhere)
        /\ Others(q)
    BY Zenon, <1>5, OthersKept DEF RegisterKafkaJob
  <2>2. UNCHANGED <<scaling, kafkas>>
    BY Zenon, <1>5 DEF RegisterKafkaJob, setting, tables
  <2>3. HostOf(q)'
    BY <2>1, <2>2 DEF HostOf, Register
  <2> QED
    BY Zenon, <1>2, <2>1, <2>2, <2>3
<1>6. ASSUME NEW q \in Requests, CreateKafka(q)
      PROVE  HostInv'
  <2>1. PICK k \in FreeKafkas :
            kafkas' = [kafkas EXCEPT ![k] =
                         Kafka("accepted", task[q].host, task[q].size, task[q].ent)]
    BY Zenon, <1>6, FreeKafka DEF CreateKafka
  <2>2. task'[q] = Idle /\ Others(q) /\ UNCHANGED scaling
    BY Zenon, <1>6, OthersKept DEF Done, CreateKafka, setting
  <2>3. /\ k \in Kafkas /\ (task["accepted"] = Idle \/ task["accepted"].k # k)
        /\ task[q] \in Registrations /\ HostOf(q) /\ Registering(q) /\ task[q].op = "insert"
    BY Zenon, <1>6, <2>1, TaskKinds DEF FreeKafkas, CreateKafka, HostInv, Registering
  <2>4. /\ kafkas'[k] = Kafka("accepted", task[q].host, task[q].size, task[q].ent)
        /\ \A j \in Kafkas : j # k => kafkas'[j] = kafkas[j]
    BY Zenon, <1>0, <2>1, <2>3
  <2>5. ASSUME NEW o \in Requests
        PROVE  HostOf(o)'
    BY <2>2 DEF Others, HostInv, HostOf, Registering, Idle
  <2>6. ASSUME NEW j \in Kafkas
        PROVE  HostOfRow(j)'
    <3>1. CASE j = k
      <4>1. task[q].size \in Sizes /\ task[q].ent \in BOOLEAN
        BY Zenon, <2>3 DEF Registrations
      <4>2. task[q].host = Nowhere => scaling = "auto"
        BY Zenon, <1>0, <2>3, Bounds DEF HostOf
      <4>3. task[q].host \in Enterprise => task[q].ent
        BY Zenon, <1>0, <2>3, <4>1 DEF HostOf
      <4> QED
        BY <2>2, <2>4, <3>1, <4>1, <4>2, <4>3 DEF HostOfRow, Unplaced, Kafka
    <3>2. CASE j # k
      BY Zenon, <2>2, <2>4, <3>2 DEF HostInv, HostOfRow, Unplaced
    <3> QED
      BY Zenon, <3>1, <3>2
  <2>7. HostOfWorker'
    <3>1. task["accepted"] # Idle => task["accepted"].k \in Kafkas
      BY Zenon, TaskTypes DEF Assignments
    <3> QED
      BY Zenon, <2>2, <2>3, <2>4, <3>1 DEF HostInv, HostOfWorker, Unplaced, Others
  <2> QED
    BY Zenon, <2>5, <2>6, <2>7 DEF HostInv
<1>7. ASSUME NEW a \in Actors, Fail(a)
      PROVE  HostInv'
  <2>1. task'[a] = Idle /\ \A b \in Actors : b # a => task'[b] = task[b]
    BY Zenon, <1>7, DoFrame DEF Done, Fail
  <2>2. UNCHANGED <<scaling, kafkas>>
    BY Zenon, <1>7 DEF Fail, setting, tables
  <2>3. ASSUME NEW q \in Requests
        PROVE  HostOf(q)'
    BY <1>0, <2>1, <2>2 DEF HostInv, HostOf, Registering, Idle
  <2>4. ASSUME NEW k \in Kafkas
        PROVE  HostOfRow(k)'
    BY Zenon, <2>2 DEF HostInv, HostOfRow, Unplaced
  <2>5. HostOfWorker'
    BY Zenon, <1>0, <2>1, <2>2 DEF HostInv, HostOfWorker, Unplaced
  <2> QED
    BY Zenon, <2>3, <2>4, <2>5 DEF HostInv
<1>8. ASSUME KafkaSteps
      PROVE  HostInv'
  <2>1. UNCHANGED scaling /\ ((\E t : Do("accepted", t)) \/ UNCHANGED task)
    BY Zenon, <1>8 DEF KafkaSteps, AssignKafka, FindClusterForKafka, KafkaTimesOut,
                KafkaDeprovision, KafkaDeleting, KafkaRemoved, Done, setting
  <2>2. \A q \in Requests : task'[q] = task[q]
    BY Zenon, <1>0, <2>1, DoFrame
  <2>3. ASSUME NEW q \in Requests
        PROVE  HostOf(q)'
    BY Zenon, <2>1, <2>2 DEF HostInv, HostOf, Registering
  <2>5. ASSUME NEW k \in Kafkas, FindClusterForKafka(k)
        PROVE  HostInv'
    <3>1. PICK c : Do("accepted", [op |-> "assign", k |-> k, c |-> c])
      BY Zenon, <2>5 DEF FindClusterForKafka
    <3>2. task'["accepted"].k = k /\ Unplaced(k) /\ UNCHANGED kafkas
      BY <1>0, <2>5, <3>1, DoFrame DEF FindClusterForKafka, tables
    <3>3. HostOfWorker' /\ \A j \in Kafkas : HostOfRow(j)'
      BY Zenon, <2>1, <3>2 DEF HostInv, HostOfWorker, HostOfRow, Unplaced
    <3> QED
      BY Zenon, <2>3, <3>3 DEF HostInv
  <2>6. ASSUME AssignKafka
        PROVE  HostInv'
    <3> DEFINE t == task["accepted"]
    <3>1. t.k \in Kafkas /\ t.c \in Managed /\ t # Idle
      BY <2>6, TaskKinds DEF AssignKafka, Assignments, Idle
    <3>2. task'["accepted"] = Idle
      BY Zenon, <1>0, <2>6, DoFrame DEF AssignKafka, Done
    <3>3. HostOfWorker'
      BY Zenon, <3>2 DEF HostOfWorker
    <3>4. CASE kafkas' = kafkas
      BY Zenon, <2>1, <2>3, <3>3, <3>4 DEF HostInv, HostOfRow, Unplaced
    <3>5. CASE kafkas[t.k].st \notin {"none", "deprovision", "deleting"}
      <4>1. kafkas' = [kafkas EXCEPT ![t.k] =
                         Kafka("preparing", t.c, kafkas[t.k].size, kafkas[t.k].ent)]
        BY Zenon, <2>6, <3>5 DEF AssignKafka
      <4>2. /\ kafkas'[t.k] = Kafka("preparing", t.c, kafkas[t.k].size, kafkas[t.k].ent)
            /\ \A j \in Kafkas : j # t.k => kafkas'[j] = kafkas[j]
        BY Zenon, <1>0, <3>1, <4>1
      <4>3. HostOfRow(t.k) /\ t.c \notin Enterprise
        BY Zenon, <1>0, <3>1 DEF HostInv
      <4>4. \A j \in Kafkas : j = t.k => HostOfRow(j)'
        BY <3>5, <4>2, <4>3 DEF HostOfRow, Unplaced, Kafka
      <4>5. \A j \in Kafkas : j # t.k => HostOfRow(j)'
        BY Zenon, <2>1, <4>2 DEF HostInv, HostOfRow, Unplaced
      <4> QED
        BY Zenon, <2>3, <3>3, <4>4, <4>5 DEF HostInv
    <3> QED
      BY Zenon, <2>6, <3>4, <3>5 DEF AssignKafka
  <2>7. ASSUME NEW k \in Kafkas, NEW st \in {"none", "failed", "deprovision", "deleting"},
               NEW host \in {Nowhere, kafkas[k].host}, NEW size, NEW ent,
               kafkas' = [kafkas EXCEPT ![k] = Kafka(st, host, size, ent)],
               kafkas[k].st # "none" /\ (st # "none" => size = kafkas[k].size),
               host # Nowhere => ent = kafkas[k].ent,
               UNCHANGED task,
               st = "failed" => task["accepted"] = Idle
        PROVE  HostInv'
    <3>1. /\ kafkas'[k] = Kafka(st, host, size, ent)
          /\ \A j \in Kafkas : j # k => kafkas'[j] = kafkas[j]
      BY Zenon, <1>0, <2>7
    <3>2. HostOfRow(k)
      BY Zenon DEF HostInv
    <3>3. HostOfRow(k)'
      BY Zenon, <1>0, <2>7, <3>1, <3>2 DEF HostOfRow, Unplaced, Kafka
    <3>4. \A j \in Kafkas : j # k => HostOfRow(j)'
      BY Zenon, <2>1, <3>1 DEF HostInv, HostOfRow, Unplaced
    <3>5. HostOfWorker'
      <4>1. task["accepted"] # Idle => task["accepted"].k \in Kafkas
        BY Zenon, TaskTypes DEF Assignments
      <4> QED
        BY <2>1, <2>7, <3>1, <4>1 DEF HostInv, HostOfWorker, Unplaced, Kafka
    <3> QED
      BY Zenon, <2>3, <3>3, <3>4, <3>5 DEF HostInv
  <2>8. ASSUME NEW k \in Kafkas, KafkaTimesOut(k)
        PROVE  HostInv'
    BY Zenon, <2>7, <2>8 DEF KafkaTimesOut, Unplaced
  <2>9. ASSUME NEW k \in Kafkas, KafkaDeprovision(k)
        PROVE  HostInv'
    BY Zenon, <2>7, <2>9 DEF KafkaDeprovision
  <2>10. ASSUME NEW k \in Kafkas, KafkaDeleting(k)
         PROVE  HostInv'
    BY Zenon, <2>7, <2>10 DEF KafkaDeleting
  <2>11. ASSUME NEW k \in Kafkas, KafkaRemoved(k)
         PROVE  HostInv'
    BY Zenon, <2>7, <2>11 DEF KafkaRemoved, NoKafka
  <2> QED
    BY Zenon, <1>8, <2>5, <2>6, <2>8, <2>9, <2>10, <2>11 DEF KafkaSteps
<1> QED
  BY Zenon, <1>1, <1>3, <1>4, <1>5, <1>6, <1>7, <1>8, RegKinds DEF RegSteps

-----------------------------------------------------------------------------
(* One handler at a time.                                                  *)

\* Until two handlers overlap, at most one actor is busy.
LoneInv == races = 0 => \E a \in Actors : \A b \in Actors : b # a => task[b] = Idle

\* A handler starts when the others rest, or it counts as an overlap.
LEMMA StartCounts ==
    ASSUME TypeOK, Starts
    PROVE  races' \in {races, races + 1} /\ (Quiet \/ races' = races + 1)
BY Zenon DEF Starts, Race

\* So without an overlap nobody is at work when a handler starts.
LEMMA StartsQuiet ==
    ASSUME TypeOK, Starts \/ Race, races = 0, races' = 0
    PROVE  Quiet
BY StartCounts DEF Race

\* The turn of actor a: it goes on, or it starts.
Turn(a) == /\ \A b \in Actors : b # a => task'[b] = task[b]
           /\ task[a] # Idle \/ Quiet \/ races' = races + 1

\* What a turn is made of.
LEMMA Turns ==
    ASSUME TypeOK, NEW a \in Actors, NEW t, Do(a, t),
           task[a] # Idle \/ Quiet \/ races' = races + 1
    PROVE  Turn(a)
BY Zenon, DoFrame DEF Turn

\* A step of a request is its turn.
LEMMA RequestTurn ==
    ASSUME TypeOK, NEW q \in Requests,
           \/ Serving(q)
           \/ \E c \in Clusters : RegisterEnterpriseCluster(q, c)
                                   \/ DeregisterEnterpriseCluster(q, c)
           \/ \E c \in Clusters, kind \in {"first", "again", "trouble"} :
                 ReportStatus(q, c, kind)
           \/ \E r \in Replicas, size \in Sizes, ent \in BOOLEAN :
                 RegisterKafkaJob(q, r, size, ent)
    PROVE  Turn(q) /\ races' \in {races, races + 1}
<1>0. q \in Actors
  BY Zenon, Bounds
<1>1. CASE Serving(q)
  <2>1. task[q] # Idle /\ UNCHANGED races
    BY ZenonT(60), <1>1, Busy DEF Serving, Place, ReserveQuota, CreateKafka, SetClusterStatus,
                SetClusterWaiting, RegisterClusterJob, DeregisterClusterJob, counters
  <2>2. \E t : Do(q, t)
    BY <1>1, Zenon DEF Serving, Place, ReserveQuota, CreateKafka, SetClusterStatus,
                SetClusterWaiting, RegisterClusterJob, DeregisterClusterJob, Done
  <2> QED
    BY ZenonT(40), <1>0, <2>1, <2>2, Turns
<1>2. ASSUME NEW c \in Clusters,
             RegisterEnterpriseCluster(q, c) \/ DeregisterEnterpriseCluster(q, c)
      PROVE  Turn(q) /\ races' \in {races, races + 1}
  <2>1. Starts
    BY Zenon, <1>2 DEF RegisterEnterpriseCluster, DeregisterEnterpriseCluster
  <2>2. \E t : Do(q, t)
    BY <1>2, Zenon DEF RegisterEnterpriseCluster, DeregisterEnterpriseCluster
  <2> QED
    BY Zenon, <1>0, <2>1, <2>2, StartCounts, Turns
<1>3. ASSUME NEW c \in Clusters, NEW kind \in {"first", "again", "trouble"},
             ReportStatus(q, c, kind)
      PROVE  Turn(q) /\ races' \in {races, races + 1}
  <2>1. races' \in {races, races + 1} /\ (Quiet \/ races' = races + 1)
    BY Zenon, <1>3, StartCounts DEF ReportStatus, Race
  <2>2. \E t : Do(q, t)
    BY <1>3, Zenon DEF ReportStatus
  <2> QED
    BY Zenon, <1>0, <2>1, <2>2, Turns
<1>4. ASSUME NEW r \in Replicas, NEW size \in Sizes, NEW ent \in BOOLEAN,
             RegisterKafkaJob(q, r, size, ent)
      PROVE  Turn(q) /\ races' \in {races, races + 1}
  <2>1. Starts
    BY Zenon, <1>4 DEF RegisterKafkaJob
  <2>2. \E t : Do(q, t)
    BY <1>4, Zenon DEF RegisterKafkaJob
  <2> QED
    BY Zenon, <1>0, <2>1, <2>2, StartCounts, Turns
<1> QED
  BY Zenon, <1>1, <1>2, <1>3, <1>4

\* So is the step of a worker, unless it takes no more than that one.
LEMMA WorkerTurn ==
    ASSUME TypeOK, KafkaSteps \/ ManagerSteps \/ ScalingSteps \/ RemovalSteps
    PROVE  /\ races' \in {races, races + 1}
           /\ (\E a \in Actors : Turn(a)) \/ UNCHANGED task
<1>0. \A a \in Workers : a \in Actors
  BY Zenon, Bounds
<1>1. ASSUME NEW a \in Workers, NEW t, Do(a, t), Starts
      PROVE  Turn(a) /\ races' \in {races, races + 1}
  BY Zenon, <1>0, <1>1, StartCounts, Turns
<1>2. ASSUME NEW a \in Workers, NEW t, Do(a, t), task[a] # Idle, UNCHANGED counters
      PROVE  Turn(a) /\ races' \in {races, races + 1}
  BY Zenon, <1>0, <1>2, Turns DEF counters
<1>3. ASSUME KafkaSteps
      PROVE  /\ races' \in {races, races + 1}
             /\ (\E a \in Actors : Turn(a)) \/ UNCHANGED task
  <2>1. CASE AssignKafka
    <3>1. task["accepted"] # Idle /\ UNCHANGED counters /\ Do("accepted", Idle)
      BY SMTT(30), <2>1 DEF AssignKafka, Done, Idle
    <3>2. "accepted" \in Workers
      BY Zenon DEF Workers
    <3> QED
      BY ZenonT(40), <1>0, <1>2, <3>1, <3>2
  <2>2. ASSUME NEW k \in Kafkas, FindClusterForKafka(k)
        PROVE  \E a \in Actors : Turn(a) /\ races' \in {races, races + 1}
    <3>1. Starts /\ \E t : Do("accepted", t)
      BY <2>2, Zenon DEF FindClusterForKafka
    <3>2. "accepted" \in Workers
      BY Zenon DEF Workers
    <3> QED
      BY Zenon, <1>0, <1>1, <3>1, <3>2
  <2>3. ASSUME NEW k \in Kafkas,
               KafkaTimesOut(k) \/ KafkaDeprovision(k) \/ KafkaDeleting(k) \/ KafkaRemoved(k)
        PROVE  races' \in {races, races + 1} /\ UNCHANGED task
    BY Zenon, <2>3, StartCounts DEF KafkaTimesOut, KafkaDeprovision, KafkaDeleting, KafkaRemoved
  <2> QED
    BY Zenon, <1>3, <2>1, <2>2, <2>3 DEF KafkaSteps
<1>4. ASSUME ManagerSteps
      PROVE  \E a \in Actors : Turn(a) /\ races' \in {races, races + 1}
  <2>0. "clusters" \in Workers
    BY Zenon DEF Workers
  <2>1. CASE SaveCluster \/ DeprovisionExcess
    <3>1. task["clusters"] # Idle /\ UNCHANGED counters /\ Do("clusters", Idle)
      BY <2>1 DEF SaveCluster, DeprovisionExcess, Done, Idle
    <3> QED
      BY Zenon, <1>0, <1>2, <2>0, <3>1
  <2>2. CASE ReconcileManualConfig
    BY Zenon, <1>0, <1>1, <2>0, <2>2 DEF ReconcileManualConfig
  <2>3. ASSUME NEW c \in Clusters, ProcessCluster(c) \/ ReconcileReadyCluster(c)
        PROVE  \E a \in Actors : Turn(a) /\ races' \in {races, races + 1}
    <3>1. Starts /\ \E t : Do("clusters", t)
      BY <2>3, Zenon DEF ProcessCluster, ReconcileReadyCluster
    <3> QED
      BY Zenon, <1>0, <1>1, <2>0, <3>1
  <2> QED
    BY Zenon, <1>4, <2>1, <2>2, <2>3 DEF ManagerSteps
<1>5. ASSUME ScalingSteps
      PROVE  \E a \in Actors : Turn(a) /\ races' \in {races, races + 1}
  <2>0. "up" \in Workers /\ "down" \in Workers
    BY Zenon DEF Workers
  <2>1. CASE EvaluateScaleUp \/ EvaluateScaleDown
    BY Zenon, <1>0, <1>1, <2>0, <2>1 DEF EvaluateScaleUp, EvaluateScaleDown
  <2>2. CASE ScaleUp
    <3>1. task["up"] # Idle /\ UNCHANGED counters /\ Do("up", Idle)
      BY <2>2 DEF ScaleUp, Done, Idle
    <3> QED
      BY Zenon, <1>0, <1>2, <2>0, <3>1
  <2>3. CASE ScaleDown
    <3>1. task["down"] # Idle /\ UNCHANGED counters /\ \E t : Do("down", t)
      <4>1. \E t : Do("down", t)
        BY <2>3, Zenon DEF ScaleDown
      <4> QED
        BY <2>3, <4>1 DEF ScaleDown, Idle
    <3> QED
      BY ZenonT(40), <1>0, <1>2, <2>0, <3>1
  <2> QED
    BY Zenon, <1>5, <2>1, <2>2, <2>3 DEF ScalingSteps
<1>6. ASSUME RemovalSteps
      PROVE  \E a \in Actors : Turn(a) /\ races' \in {races, races + 1}
  <2>0. "deprovisioning" \in Workers /\ "cleanup" \in Workers
    BY Zenon DEF Workers
  <2>1. ASSUME NEW c \in Clusters, ProcessDeprovisioning(c) \/ RemoveServiceAccount(c)
        PROVE  \E a \in Actors : Turn(a) /\ races' \in {races, races + 1}
    BY Zenon, <1>0, <1>1, <2>0, <2>1 DEF ProcessDeprovisioning, RemoveServiceAccount
  <2>2. CASE RestoreCluster \/ MarkForCleanup
    <3>1. task["deprovisioning"] # Idle /\ UNCHANGED counters /\ Do("deprovisioning", Idle)
      BY <2>2 DEF RestoreCluster, MarkForCleanup, Done, Idle
    <3> QED
      BY Zenon, <1>0, <1>2, <2>0, <3>1
  <2>3. CASE DeleteCluster
    <3>1. \E t : Do("deprovisioning", t)
      BY <2>3, Zenon DEF DeleteCluster, Done
    <3>2. task["deprovisioning"] # Idle /\ UNCHANGED counters
      BY <2>3 DEF DeleteCluster, Idle
    <3> QED
      BY Zenon, <1>0, <1>2, <2>0, <3>1, <3>2
  <2>4. CASE DeleteRow
    <3>1. task["cleanup"] # Idle /\ UNCHANGED counters /\ Do("cleanup", Idle)
      BY <2>4 DEF DeleteRow, Done, Idle
    <3> QED
      BY Zenon, <1>0, <1>2, <2>0, <3>1
  <2> QED
    BY Zenon, <1>6, <2>1, <2>2, <2>3, <2>4 DEF RemovalSteps
<1> QED
  BY Zenon, <1>3, <1>4, <1>5, <1>6

\* Every step is somebody's turn, or leaves what everybody is doing.
LEMMA TurnTaken ==
    ASSUME TypeOK, Next
    PROVE  /\ races' \in {races, races + 1}
           /\ (\E a \in Actors : Turn(a)) \/ UNCHANGED task
<1>1. CASE RequestSteps
  BY Zenon, <1>1, RequestTurn, Bounds DEF RequestSteps
<1>2. CASE OtherSteps
  <2>1. ASSUME NEW a \in Actors, Fail(a)
        PROVE  UNCHANGED races /\ Turn(a)
    <3>1. task[a] # Idle /\ Do(a, Idle) /\ UNCHANGED races
      BY Zenon, <2>1 DEF Fail, Done
    <3> QED
      BY Zenon, <3>1, Turns
  <2>2. ASSUME NEW c \in Managed,
               Installed(c) \/ InstallFails(c) \/ Deleted(c) \/ Reconfigure(c)
        PROVE  races' \in {races, races + 1} /\ UNCHANGED task
    BY Zenon, <2>2, StartCounts DEF Installed, InstallFails, Deleted, Reconfigure, counters
  <2> QED
    BY Zenon, <1>2, <2>1, <2>2 DEF OtherSteps
<1> QED
  BY Zenon, <1>1, <1>2, StepKinds, WorkerTurn

\* As long as nothing overlaps, all but one actor rest before and after a step.
LEMMA LoneStep ==
    ASSUME TypeOK, LoneInv, Next, races' = 0
    PROVE  races = 0 /\ \E a \in Actors : \A b \in Actors :
                           b # a => task[b] = Idle /\ task'[b] = Idle
<1>1. /\ races' \in {races, races + 1}
      /\ (\E a \in Actors : Turn(a)) \/ UNCHANGED task
  BY Zenon, TurnTaken
<1>2. races = 0
  BY <1>1 DEF TypeOK
<1>3. PICK a \in Actors : \A b \in Actors : b # a => task[b] = Idle
  BY Zenon, <1>2 DEF LoneInv
<1>4. CASE UNCHANGED task
  BY Zenon, <1>2, <1>3, <1>4
<1>5. ASSUME NEW o \in Actors, Turn(o)
      PROVE  \E x \in Actors : \A b \in Actors :
                 b # x => task[b] = Idle /\ task'[b] = Idle
  <2>1. task[o] # Idle \/ Quiet
    BY <1>2, <1>5 DEF Turn
  <2>2. \A b \in Actors : b # o => task[b] = Idle
    BY Zenon, <1>3, <2>1 DEF Quiet
  <2> QED
    BY Zenon, <1>5, <2>2 DEF Turn
<1> QED
  BY Zenon, <1>1, <1>2, <1>4, <1>5

-----------------------------------------------------------------------------
(* What a handler read still holds when it writes.                         *)

\* The status a row has while the cluster manager takes it on to st.
Before(st) == IF st = "provisioning" THEN "accepted"
              ELSE IF st = "waiting" THEN "provisioned"
              ELSE IF st = "ready" THEN "ready" ELSE "provisioning"

\* The row of the cluster that a is about, as a found it.
Fresh(a) ==
    /\ task[a].op = "advance" => rows[task[a].c].st = Before(task[a].st)
    /\ task[a].op \in {"ready", "waiting"} => rows[task[a].c].st \in {"waiting", "ready"}
    /\ Registering(a) /\ task[a].host # Nowhere => rows[task[a].host].st = "ready"
    /\ task[a].op = "assign" => rows[task[a].c].st = "ready"
    /\ task[a].op = "enroll" => rows[task[a].c].st = "none"
    /\ task[a].op = "deregister" => HostedBy(task[a].c) = {}
    /\ task[a].op \in {"restore", "remove", "removed"} =>
          rows[task[a].c].st = "deprovisioning"
    /\ task[a].op = "removed" /\ task[a].c \in Managed => cloud[task[a].c] = "none"
    /\ task[a].op = "delete" => rows[task[a].c].st = "cleanup" /\ task[a].c \notin accounts

FreshInv == races = 0 => \A a \in Actors : Fresh(a)

\* A cluster on which nothing is used hosts no Kafka.
LEMMA NothingUsed ==
    ASSUME TypeOK, HostInv, NEW c \in Clusters, Used(c) = 0
    PROVE  HostedBy(c) = {}
<1> SUFFICES ASSUME NEW k \in HostedBy(c)
             PROVE  FALSE
  BY Zenon
<1>1. k \in Kafkas /\ kafkas[k].size \in Sizes
  BY Zenon DEF HostedBy, HostInv, HostOfRow
<1> DEFINE f == [x \in Kafkas |-> Size(x)]
<1>2. HostedBy(c) \in SUBSET Kafkas /\ IsFiniteSet(Kafkas)
  BY Zenon, Bounds DEF HostedBy
<1>3. \A x \in HostedBy(c) : f[x] = Size(x)
  BY Zenon, <1>2
<1> HIDE DEF f
<1>4. IsFiniteSet(HostedBy(c))
  BY Zenon, <1>2, FS_Subset
<1>5. Weight(HostedBy(c), f) = 0
  BY Zenon, <1>3, TotalWeight DEF Used
<1>6. f[k] \in 1..Units
  BY Zenon, <1>1, <1>3, Bounds DEF Size
<1>7. f[k] \in 0..Units
  BY <1>6, Bounds
<1>8. f[k] <= 0
  BY Zenon, <1>4, <1>5, <1>7, WeightHas
<1> QED
  BY <1>6, <1>8, Bounds

\* The actor whose turn it is is the only one that is busy afterwards.
LEMMA OnlyOne ==
    ASSUME TypeOK, LoneInv, races = 0, NEW o \in Actors, NEW t, Do(o, t),
           task[o] # Idle \/ Quiet
    PROVE  task'[o] = t /\ \A b \in Actors : b # o => task'[b] = Idle
<1>1. task'[o] = t /\ \A b \in Actors : b # o => task'[b] = task[b]
  BY Zenon, DoFrame
<1>2. \A b \in Actors : b # o => task[b] = Idle
  BY Zenon DEF LoneInv, Quiet
<1> QED
  BY Zenon, <1>1, <1>2

\* An actor that rests claims nothing.
LEMMA IdleFresh ==
    ASSUME NEW a, task'[a] = Idle
    PROVE  Fresh(a)'
BY DEF Fresh, Registering, Idle

\* What the only busy actor claims is all that is claimed.
LEMMA FreshOne ==
    ASSUME TypeOK, LoneInv, races = 0, NEW o \in Actors, NEW t, Do(o, t),
           task[o] # Idle \/ Quiet, task'[o] = t /\ t # Idle => Fresh(o)'
    PROVE  \A a \in Actors : Fresh(a)'
BY Zenon, OnlyOne, IdleFresh

\* The steps of the requests keep that.
LEMMA FreshRequests ==
    ASSUME TypeOK, LoneInv, HostInv, FreshInv, races = 0, races' = 0, RequestSteps
    PROVE  \A a \in Actors : Fresh(a)'
<1>0. \A q \in Requests : q \in Actors /\ Fresh(q)
  BY Zenon, Bounds DEF FreshInv
<1>1. ASSUME NEW q \in Requests, CreateKafka(q) \/ SetClusterStatus(q) \/ SetClusterWaiting(q)
                                   \/ RegisterClusterJob(q) \/ DeregisterClusterJob(q)
      PROVE  \A a \in Actors : Fresh(a)'
  <2>1. Do(q, Idle) /\ task[q] # Idle
    BY <1>1 DEF CreateKafka, SetClusterStatus, SetClusterWaiting, RegisterClusterJob,
                DeregisterClusterJob, Done, Idle
  <2> QED
    BY ZenonT(40), <1>0, <2>1, FreshOne
<1>2. ASSUME NEW q \in Requests, Place(q)
      PROVE  \A a \in Actors : Fresh(a)'
  <2>1. task[q] # Idle /\ task[q] \in Registrations /\ UNCHANGED rows
    BY <1>2, TaskKinds DEF Place, Idle, tables
  <2>2. CASE Do(q, Idle)
    BY Zenon, <1>0, <2>1, <2>2, FreshOne
  <2>3. ASSUME NEW c \in FindCluster(task[q].size, task[q].ent),
               Do(q, Register("reserve", task[q].r, task[q].size, task[q].ent, c))
        PROVE  \A a \in Actors : Fresh(a)'
    <3>1. rows'[c].st = "ready"
      BY ZenonT(40), <2>1, FoundCluster DEF Registrations
    <3>2. task'[q] = Register("reserve", task[q].r, task[q].size, task[q].ent, c) => Fresh(q)'
      BY <3>1 DEF Fresh, Registering, Register
    <3> QED
      BY Zenon, <1>0, <2>1, <2>3, <3>2, FreshOne
  <2> QED
    BY <1>2, <2>2, <2>3, ZenonT(40) DEF Place, Done
<1>3. ASSUME NEW q \in Requests, ReserveQuota(q)
      PROVE  \A a \in Actors : Fresh(a)'
  <2>1. task[q] # Idle /\ UNCHANGED rows /\ Registering(q)
    BY <1>3 DEF ReserveQuota, Idle, tables, Registering
  <2>2. PICK t : /\ Do(q, t)
                 /\ t = Idle \/ t = Register("insert", task[q].r, task[q].size,
                                             task[q].ent, task[q].host)
    BY <1>3, ZenonT(40) DEF ReserveQuota, Done
  <2>3. task'[q] = t /\ t # Idle => Fresh(q)'
    BY <1>0, <2>1, <2>2 DEF Fresh, Registering, Register
  <2> QED
    BY ZenonT(40), <1>0, <2>1, <2>2, <2>3, FreshOne
<1>4. ASSUME NEW q \in Requests, NEW c \in Clusters, RegisterEnterpriseCluster(q, c)
      PROVE  \A a \in Actors : Fresh(a)'
  <2>1. Quiet /\ Do(q, [op |-> "enroll", c |-> c]) /\ UNCHANGED rows /\ rows[c].st = "none"
    BY ZenonT(40), <1>4, StartsQuiet DEF RegisterEnterpriseCluster, Exists, tables
  <2>2. task'[q] = [op |-> "enroll", c |-> c] => Fresh(q)'
    BY <2>1 DEF Fresh, Registering
  <2> QED
    BY ZenonT(40), <1>0, <2>1, <2>2, FreshOne
<1>5. ASSUME NEW q \in Requests, NEW c \in Clusters, DeregisterEnterpriseCluster(q, c)
      PROVE  \A a \in Actors : Fresh(a)'
  <2>1. Quiet /\ Do(q, [op |-> "deregister", c |-> c]) /\ UNCHANGED kafkas /\ Used(c) = 0
    BY ZenonT(40), <1>5, StartsQuiet DEF DeregisterEnterpriseCluster, tables
  <2>2. HostedBy(c)' = {}
    BY ZenonT(40), <2>1, NothingUsed DEF HostedBy
  <2>3. task'[q] = [op |-> "deregister", c |-> c] => Fresh(q)'
    BY <2>2 DEF Fresh, Registering, HostedBy
  <2> QED
    BY Zenon, <1>0, <2>1, <2>3, FreshOne
<1>6. ASSUME NEW q \in Requests, NEW c \in Clusters, NEW kind \in {"first", "again", "trouble"},
             ReportStatus(q, c, kind)
      PROVE  \A a \in Actors : Fresh(a)'
  <2>1. PICK op \in {"ready", "waiting"} : Do(q, [op |-> op, c |-> c])
    BY Zenon, <1>6 DEF ReportStatus
  <2>2. Quiet /\ UNCHANGED rows /\ rows[c].st \in {"waiting", "ready"}
    BY ZenonT(40), <1>6, StartsQuiet DEF ReportStatus, clusterCanProcessStatusReports, tables
  <2>3. task'[q] = [op |-> op, c |-> c] => Fresh(q)'
    BY <2>2 DEF Fresh, Registering
  <2> QED
    BY Zenon, <1>0, <2>1, <2>2, <2>3, FreshOne
<1>7. ASSUME NEW q \in Requests, NEW r \in Replicas, NEW size \in Sizes, NEW ent \in BOOLEAN,
             RegisterKafkaJob(q, r, size, ent)
      PROVE  \A a \in Actors : Fresh(a)'
  <2>1. PICK op \in {"place", "reserve"} : Do(q, Register(op, r, size, ent, Nowhere))
    BY Zenon, <1>7 DEF RegisterKafkaJob
  <2>2. Quiet
    BY ZenonT(40), <1>7, StartsQuiet DEF RegisterKafkaJob
  <2>3. task'[q] = Register(op, r, size, ent, Nowhere) => Fresh(q)'
    BY SMTT(30) DEF Fresh, Registering, Register
  <2> QED
    BY Zenon, <1>0, <2>1, <2>2, <2>3, FreshOne
<1> QED
  BY Zenon, <1>1, <1>2, <1>3, <1>4, <1>5, <1>6, <1>7 DEF RequestSteps, Serving

\* A Kafka that times out was on no cluster.
LEMMA TimedOutElsewhere ==
    ASSUME TypeOK, NEW k \in Kafkas, KafkaTimesOut(k), NEW c, c # Nowhere
    PROVE  /\ HostedBy(c)' = HostedBy(c)
           /\ \A j \in HostedBy(c) : kafkas'[j] = kafkas[j]
<1>1. /\ kafkas[k].host = Nowhere
      /\ kafkas' = [kafkas EXCEPT ![k] =
                      Kafka("failed", Nowhere, kafkas[k].size, kafkas[k].ent)]
  BY Zenon DEF KafkaTimesOut, Unplaced
<1>2. kafkas'[k].host = Nowhere /\ \A j \in Kafkas : j # k => kafkas'[j] = kafkas[j]
  BY Zenon, <1>1 DEF TypeOK, Kafka
<1> QED
  BY Zenon, <1>1, <1>2 DEF HostedBy

\* So do the steps about Kafkas.
LEMMA FreshKafkas ==
    ASSUME TypeOK, LoneInv, HostInv, FreshInv, races = 0, races' = 0, KafkaSteps
    PROVE  \A a \in Actors : Fresh(a)'
<1>0. "accepted" \in Actors
  BY Zenon DEF Actors, Workers
<1>1. CASE AssignKafka
  <2>1. Do("accepted", Idle) /\ task["accepted"] # Idle
    BY ZenonT(40), <1>1, Busy DEF AssignKafka, Done
  <2> QED
    BY Zenon, <1>0, <2>1, FreshOne
<1>2. ASSUME NEW k \in Kafkas, FindClusterForKafka(k)
      PROVE  \A a \in Actors : Fresh(a)'
  <2>1. PICK c \in FindCluster(Size(k), FALSE) :
            Do("accepted", [op |-> "assign", k |-> k, c |-> c])
    BY Zenon, <1>2 DEF FindClusterForKafka
  <2>2. Quiet /\ UNCHANGED rows
    BY <1>2, StartsQuiet DEF FindClusterForKafka, tables
  <2>3. rows'[c].st = "ready"
    BY ZenonT(40), <2>1, <2>2, FoundCluster
  <2>4. task'["accepted"] = [op |-> "assign", k |-> k, c |-> c] => Fresh("accepted")'
    BY <2>3 DEF Fresh, Registering
  <2> QED
    BY Zenon, <1>0, <2>1, <2>2, <2>4, FreshOne
<1>3. ASSUME NEW k \in Kafkas, KafkaTimesOut(k)
      PROVE  \A a \in Actors : Fresh(a)'
  <2> TAKE a \in Actors
  <2>1. UNCHANGED <<rows, cloud, accounts, task>> /\ Fresh(a)
    BY Zenon, <1>3 DEF KafkaTimesOut, outside, FreshInv
  <2>2. task[a].op = "deregister" => HostedBy(task[a].c)' = {}
    <3> SUFFICES ASSUME task[a].op = "deregister"
                 PROVE  HostedBy(task[a].c)' = {}
      BY ZenonT(40)
    <3>1. task[a] \in Enrollments
      <4>1. a \in Requests \/ a \in Workers
        BY Zenon DEF Actors
      <4> QED
        BY <4>1, TaskTypes DEF Workers, Enrollments, Registrations, Reports, Advances, Surpluses,
                ScaleUps, ScaleDowns, Removals, Cleanups, Assignments, Idle
    <3>2. task[a].c # Nowhere
      BY Zenon, <3>1, Bounds DEF Enrollments
    <3>3. HostedBy(task[a].c) = {} /\ UNCHANGED task
      BY Zenon, <2>1 DEF Fresh
    <3> QED
      BY Zenon, <1>3, <3>2, <3>3, TimedOutElsewhere
  <2> QED
    BY Zenon, <2>1, <2>2 DEF Fresh, Registering
<1>4. ASSUME NEW k \in Kafkas, KafkaDeprovision(k) \/ KafkaDeleting(k) \/ KafkaRemoved(k)
      PROVE  \A a \in Actors : Fresh(a)'
  <2>1. Quiet /\ UNCHANGED task
    BY <1>4, StartsQuiet DEF KafkaDeprovision, KafkaDeleting, KafkaRemoved
  <2> QED
    BY ZenonT(40), <2>1, IdleFresh DEF Quiet
<1> QED
  BY Zenon, <1>1, <1>2, <1>3, <1>4 DEF KafkaSteps

\* The cluster manager takes a row on from the status before.
LEMMA NextFollows ==
    ASSUME NEW c, NEW st \in NextStatus(c)
    PROVE  /\ rows[c].st = Before(st) /\ st \in {"provisioning", "provisioned", "failed", "waiting"}
           /\ st = "provisioned" => c \in Enterprise \/ cloud[c] = "up"
<1>1. CASE rows[c].st = "accepted"
  BY Zenon, <1>1 DEF NextStatus, Before
<1>2. CASE rows[c].st = "provisioning"
  BY Zenon, <1>2 DEF NextStatus, Before
<1>3. CASE rows[c].st = "provisioned"
  BY Zenon, <1>3 DEF NextStatus, Before
<1>4. CASE rows[c].st \notin {"accepted", "provisioning", "provisioned"}
  BY Zenon, <1>4 DEF NextStatus
<1> QED
  BY Zenon, <1>1, <1>2, <1>3, <1>4

\* So do the steps of the cluster manager.
LEMMA FreshManager ==
    ASSUME TypeOK, LoneInv, FreshInv, races = 0, races' = 0, ManagerSteps
    PROVE  \A a \in Actors : Fresh(a)'
<1>0. "clusters" \in Actors
  BY Zenon DEF Actors, Workers
<1>1. CASE SaveCluster \/ DeprovisionExcess
  <2>1. Do("clusters", Idle) /\ task["clusters"] # Idle
    BY ZenonT(40), <1>1, Busy DEF SaveCluster, DeprovisionExcess, Done
  <2> QED
    BY ZenonT(40), <1>0, <2>1, FreshOne
<1>2. CASE ReconcileManualConfig
  <2>1. PICK t : /\ Do("clusters", t)
                 /\ t = Idle \/ t = [op |-> "deprovision", ids |-> Excess]
    BY Zenon, <1>2 DEF ReconcileManualConfig
  <2>2. Quiet
    BY ZenonT(40), <1>2, StartsQuiet DEF ReconcileManualConfig
  <2>3. task'["clusters"] = t /\ t # Idle => Fresh("clusters")'
    BY <2>1 DEF Fresh, Registering
  <2> QED
    BY Zenon, <1>0, <2>1, <2>2, <2>3, FreshOne
<1>3. ASSUME NEW c \in Clusters, ProcessCluster(c)
      PROVE  \A a \in Actors : Fresh(a)'
  <2>1. PICK st \in NextStatus(c) : Do("clusters", Advance(c, st))
    BY Zenon, <1>3 DEF ProcessCluster
  <2>2. Quiet /\ UNCHANGED rows
    BY ZenonT(40), <1>3, StartsQuiet DEF ProcessCluster, tables
  <2>3. rows'[c].st = Before(st)
    BY Zenon, <2>1, <2>2, NextFollows
  <2>4. task'["clusters"] = Advance(c, st) => Fresh("clusters")'
    BY <2>3 DEF Fresh, Registering, Advance, Before
  <2> QED
    BY Zenon, <1>0, <2>1, <2>2, <2>4, FreshOne
<1>4. ASSUME NEW c \in Clusters, ReconcileReadyCluster(c)
      PROVE  \A a \in Actors : Fresh(a)'
  <2>1. Do("clusters", Advance(c, "ready")) /\ Quiet /\ rows'[c].st = "ready"
    BY ZenonT(40), <1>4, StartsQuiet DEF ReconcileReadyCluster, tables
  <2>2. task'["clusters"] = Advance(c, "ready") => Fresh("clusters")'
    BY <2>1 DEF Fresh, Registering, Advance, Before
  <2> QED
    BY Zenon, <1>0, <2>1, <2>2, FreshOne
<1> QED
  BY Zenon, <1>1, <1>2, <1>3, <1>4 DEF ManagerSteps

\* So do the steps of scaling.
LEMMA FreshScaling ==
    ASSUME TypeOK, LoneInv, FreshInv, races = 0, races' = 0, ScalingSteps
    PROVE  \A a \in Actors : Fresh(a)'
<1>0. "up" \in Actors /\ "down" \in Actors
  BY Zenon DEF Actors, Workers
<1>1. CASE EvaluateScaleUp
  <2>1. PICK c : Do("up", [op |-> "scaleup", c |-> c])
    BY Zenon, <1>1 DEF EvaluateScaleUp
  <2>2. Quiet
    BY ZenonT(40), <1>1, StartsQuiet DEF EvaluateScaleUp
  <2>3. task'["up"] = [op |-> "scaleup", c |-> c] => Fresh("up")'
    BY DEF Fresh, Registering
  <2> QED
    BY Zenon, <1>0, <2>1, <2>2, <2>3, FreshOne
<1>2. CASE ScaleUp
  <2>1. Do("up", Idle) /\ task["up"] # Idle
    BY ZenonT(40), <1>2, Busy DEF ScaleUp, Done
  <2> QED
    BY Zenon, <1>0, <2>1, FreshOne
<1>3. ASSUME NEW l, NEW last, Do("down", ScanFrom(l, last)), task["down"] # Idle \/ Quiet
      PROVE  \A a \in Actors : Fresh(a)'
  <2>1. ScanFrom(l, last) = Idle \/ ScanFrom(l, last).op = "scaledown"
    BY Zenon DEF ScanFrom
  <2>2. task'["down"] = ScanFrom(l, last) /\ ScanFrom(l, last) # Idle => Fresh("down")'
    BY Zenon, <2>1 DEF Fresh, Registering
  <2> QED
    BY Zenon, <1>0, <1>3, <2>2, FreshOne
<1>4. CASE EvaluateScaleDown
  BY ZenonT(40), <1>3, <1>4, StartsQuiet DEF EvaluateScaleDown
<1>5. CASE ScaleDown
  BY <1>3, <1>5 DEF ScaleDown, Idle
<1> QED
  BY Zenon, <1>1, <1>2, <1>4, <1>5 DEF ScalingSteps

\* So do the steps of the removal.
LEMMA FreshRemoval ==
    ASSUME TypeOK, LoneInv, FreshInv, races = 0, races' = 0, RemovalSteps
    PROVE  \A a \in Actors : Fresh(a)'
<1>0. "deprovisioning" \in Actors /\ "cleanup" \in Actors
  BY Zenon DEF Actors, Workers
<1>1. CASE RestoreCluster \/ MarkForCleanup
  <2>1. Do("deprovisioning", Idle) /\ task["deprovisioning"] # Idle
    BY ZenonT(40), <1>1, Busy DEF RestoreCluster, MarkForCleanup, Done
  <2> QED
    BY ZenonT(40), <1>0, <2>1, FreshOne
<1>2. CASE DeleteRow
  <2>1. Do("cleanup", Idle) /\ task["cleanup"] # Idle
    BY ZenonT(40), <1>2, Busy DEF DeleteRow, Done
  <2> QED
    BY Zenon, <1>0, <2>1, FreshOne
<1>3. CASE DeleteCluster
  <2>1. task["deprovisioning"] # Idle /\ UNCHANGED rows
        /\ rows[task["deprovisioning"].c].st = "deprovisioning"
    BY SMTT(30), <1>0, <1>3 DEF DeleteCluster, Idle, tables, FreshInv, Fresh
  <2>2. CASE Do("deprovisioning", Idle)
    BY Zenon, <1>0, <2>1, <2>2, FreshOne
  <2>3. ASSUME Do("deprovisioning", [op |-> "removed", c |-> task["deprovisioning"].c]),
               cloud[task["deprovisioning"].c] = "none", UNCHANGED cloud
        PROVE  \A a \in Actors : Fresh(a)'
    <3>1. task'["deprovisioning"] = [op |-> "removed", c |-> task["deprovisioning"].c]
             => Fresh("deprovisioning")'
      BY SMTT(30), <2>1, <2>3 DEF Fresh, Registering
    <3> QED
      BY Zenon, <1>0, <2>1, <2>3, <3>1, FreshOne
  <2> QED
    BY ZenonT(40), <1>3, <2>2, <2>3 DEF DeleteCluster, Done
<1>4. ASSUME NEW c \in Clusters, ProcessDeprovisioning(c)
      PROVE  \A a \in Actors : Fresh(a)'
  <2>1. PICK op \in {"restore", "remove", "removed"} :
            /\ Do("deprovisioning", [op |-> op, c |-> c])
            /\ op = "removed" => c \in Enterprise
    BY ZenonT(40), <1>4 DEF ProcessDeprovisioning
  <2>2. Quiet /\ rows'[c].st = "deprovisioning"
    BY ZenonT(40), <1>4, StartsQuiet DEF ProcessDeprovisioning, tables
  <2>3. task'["deprovisioning"] = [op |-> op, c |-> c] => Fresh("deprovisioning")'
    <3>1. op \in {"restore", "remove", "removed"} /\ (op = "removed" => c \notin Managed)
      BY Zenon, <2>1, Bounds
    <3> QED
      BY SMTT(30), <2>2, <3>1 DEF Fresh, Registering
  <2> QED
    BY Zenon, <1>0, <2>1, <2>2, <2>3, FreshOne
<1>5. ASSUME NEW c \in Clusters, RemoveServiceAccount(c)
      PROVE  \A a \in Actors : Fresh(a)'
  <2>1. /\ Do("cleanup", [op |-> "delete", c |-> c]) /\ Quiet
        /\ rows'[c].st = "cleanup" /\ c \notin accounts'
    BY ZenonT(40), <1>5, StartsQuiet DEF RemoveServiceAccount, tables
  <2>2. task'["cleanup"] = [op |-> "delete", c |-> c] => Fresh("cleanup")'
    BY <2>1 DEF Fresh, Registering
  <2> QED
    BY ZenonT(40), <1>0, <2>1, <2>2, FreshOne
<1> QED
  BY Zenon, <1>1, <1>2, <1>3, <1>4, <1>5 DEF RemovalSteps

\* Every step does.
LEMMA FreshStep ==
    ASSUME TypeOK, LoneInv, HostInv, FreshInv, Next
    PROVE  FreshInv'
<1> SUFFICES ASSUME races' = 0
             PROVE  \A a \in Actors : Fresh(a)'
  BY Zenon DEF FreshInv
<1>1. races = 0
  BY Zenon, LoneStep
<1>2. ASSUME NEW a \in Actors, Fail(a)
      PROVE  \A b \in Actors : Fresh(b)'
  BY Zenon, <1>1, <1>2, FreshOne DEF Fail, Done
<1>3. ASSUME NEW c \in Managed, Reconfigure(c)
      PROVE  \A b \in Actors : Fresh(b)'
  <2>1. Quiet /\ UNCHANGED task
    BY ZenonT(40), <1>1, <1>3, StartsQuiet DEF Reconfigure
  <2> QED
    BY Zenon, <2>1, IdleFresh DEF Quiet
<1>4. ASSUME NEW c \in Managed, Installed(c) \/ InstallFails(c) \/ Deleted(c)
      PROVE  \A b \in Actors : Fresh(b)'
  <2>1. UNCHANGED <<rows, kafkas, accounts, task>>
    BY Zenon, <1>4 DEF Installed, InstallFails, Deleted, tables
  <2>2. \A d \in Clusters : cloud[d] = "none" => cloud'[d] = "none"
    BY ZenonT(40), <1>4, Bounds DEF Installed, InstallFails, Deleted, TypeOK
  <2> TAKE b \in Actors
  <2>3. Fresh(b)
    BY Zenon, <1>1 DEF FreshInv
  <2> QED
    BY Zenon, <2>1, <2>2, <2>3, Bounds DEF Fresh, Registering, HostedBy
<1> QED
  BY Zenon, <1>1, <1>2, <1>3, <1>4, StepKinds, FreshRequests, FreshKafkas, FreshManager,
     FreshScaling, FreshRemoval DEF OtherSteps

-----------------------------------------------------------------------------
(* Capacity.                                                               *)

\* The sizes of the Kafkas, and of the registrations under way.
SizeOf == [k \in Kafkas |-> Size(k)]
Asked == [q \in Requests |-> IF Registering(q) THEN task[q].size ELSE 0]

Regional == {k \in Kafkas : kafkas[k].st # "none" /\ ~kafkas[k].ent}
Entering == {q \in Requests : Registering(q) /\ ~task[q].ent}
Bound(c) == {q \in Requests : Registering(q) /\ task[q].host = c}

\* What registrations of other replicas can add to the limits.
Extra == IF split THEN (Cardinality(Replicas) - 1) * Max(Sizes) ELSE 0

\* The limits hold with the registrations under way counted in: a check that
\* was made stays true until the row is inserted.
RegionInv == Weight(Regional, SizeOf) + Weight(Entering, Asked) <= RegionLimit + Extra

Limited(c) == scaling = "auto" \/ c \in configured \cup Enterprise

RoomOf(c) == Weight(HostedBy(c), SizeOf) + Weight(Bound(c), Asked) <= Units + Extra

\* The same for the worker that is about to place a Kafka on c.
WorkerRoom(c) ==
    task["accepted"] # Idle /\ task["accepted"].c = c /\ Unplaced(task["accepted"].k)
        => Weight(HostedBy(c), SizeOf) + Size(task["accepted"].k) <= Units + Extra

RoomInv == \A c \in Clusters : Limited(c) => RoomOf(c) /\ WorkerRoom(c)

\* The sets that are summed over are finite, and the sums natural numbers.
LEMMA SumsNat ==
    /\ IsFiniteSet(Regional) /\ IsFiniteSet(Entering)
    /\ Weight(Regional, SizeOf) \in Nat /\ Weight(Entering, Asked) \in Nat
    /\ \A c : /\ IsFiniteSet(HostedBy(c)) /\ IsFiniteSet(Bound(c))
              /\ Weight(HostedBy(c), SizeOf) \in Nat /\ Weight(Bound(c), Asked) \in Nat
<1>1. IsFiniteSet(Kafkas) /\ IsFiniteSet(Requests)
  BY Zenon, Bounds
<1>2. Regional \in SUBSET Kafkas /\ Entering \in SUBSET Requests
  BY Zenon DEF Regional, Entering
<1>3. \A c : HostedBy(c) \in SUBSET Kafkas /\ Bound(c) \in SUBSET Requests
  BY Zenon DEF HostedBy, Bound
<1>4. IsFiniteSet(Regional) /\ IsFiniteSet(Entering)
  BY Zenon, <1>1, <1>2, FS_Subset
<1>5. \A c : IsFiniteSet(HostedBy(c)) /\ IsFiniteSet(Bound(c))
  BY Zenon, <1>1, <1>3, FS_Subset
<1> QED
  BY Zenon, <1>4, <1>5, WeightNat

\* The same after a step.
LEMMA SumsNatNext ==
    /\ IsFiniteSet(Regional') /\ IsFiniteSet(Entering')
    /\ \A c : IsFiniteSet(HostedBy(c)') /\ IsFiniteSet(Bound(c)')
<1>1. IsFiniteSet(Kafkas) /\ IsFiniteSet(Requests)
  BY Zenon, Bounds
<1>2. Regional' \in SUBSET Kafkas /\ Entering' \in SUBSET Requests
  BY Zenon DEF Regional, Entering
<1>3. \A c : HostedBy(c)' \in SUBSET Kafkas /\ Bound(c)' \in SUBSET Requests
  BY Zenon DEF HostedBy, Bound
<1> QED
  BY Zenon, <1>1, <1>2, <1>3, FS_Subset

\* The model's sums are these.
LEMMA SumsAre ==
    /\ InRegion = Weight(Regional, SizeOf)
    /\ \A c : Used(c) = Weight(HostedBy(c), SizeOf)
<1>1. InRegion = Weight(Regional, SizeOf)
  <2>1. \A k \in Regional : SizeOf[k] = Size(k)
    BY Zenon DEF Regional, SizeOf
  <2>2. Total(Regional) = Weight(Regional, SizeOf)
    BY Zenon, <2>1, TotalWeight
  <2> QED
    BY Zenon, <2>2 DEF InRegion, Regional
<1>2. ASSUME NEW c
      PROVE  Used(c) = Weight(HostedBy(c), SizeOf)
  <2>1. \A k \in HostedBy(c) : SizeOf[k] = Size(k)
    BY Zenon DEF HostedBy, SizeOf
  <2> QED
    BY Zenon, <2>1, TotalWeight DEF Used
<1> QED
  BY Zenon, <1>1, <1>2

\* The largest size, and what the registrations of other replicas can add.
LEMMA ExtraNat ==
    /\ Max(Sizes) \in 1..Units /\ \A s \in Sizes : s <= Max(Sizes)
    /\ Cardinality(Replicas) \in Nat \ {0}
    /\ (Cardinality(Replicas) - 1) * Max(Sizes) \in Nat
    /\ Extra \in Nat
<1>1. Max(Sizes) \in 1..Units /\ \A s \in Sizes : s <= Max(Sizes)
  BY Zenon, FleetBounds, GreatestOf
<1>2. Cardinality(Replicas) \in Nat /\ Cardinality(Replicas) # 0
  BY Zenon, ProcessesAssumption, FS_CardinalityType, FS_EmptySet
<1>3. ASSUME NEW n \in Nat, NEW m \in 1..Units, n # 0
      PROVE  (n - 1) * m \in Nat
  BY <1>3, Bounds
<1>4. (Cardinality(Replicas) - 1) * Max(Sizes) \in Nat
  BY Zenon, <1>1, <1>2, <1>3
<1> QED
  BY Zenon, <1>1, <1>2, <1>4 DEF Extra

\* Once two replicas have registered at a time, they may do so again.
LEMMA ExtraGrows ==
    ASSUME split => split'
    PROVE  Extra <= Extra'
<1>1. Extra' = IF split' THEN (Cardinality(Replicas) - 1) * Max(Sizes) ELSE 0
  BY Zenon DEF Extra
<1>2. PICK n \in Nat : n = (Cardinality(Replicas) - 1) * Max(Sizes)
  BY Zenon, ExtraNat
<1>3. 0 <= n /\ n <= n /\ 0 <= 0
  OBVIOUS
<1> QED
  BY Zenon, <1>1, <1>2, <1>3 DEF Extra

\* A sum of which one term changes.
LEMMA WeightChanges ==
    ASSUME NEW S, NEW T, IsFiniteSet(S), IsFiniteSet(T), NEW k, NEW f, NEW g,
           S \ {k} = T \ {k}, \A x \in S \ {k} : f[x] = g[x],
           k \in S => f[k] \in 0..Units, k \in T => g[k] \in 0..Units
    PROVE  Weight(T, g) + (IF k \in S THEN f[k] ELSE 0)
              = Weight(S, f) + (IF k \in T THEN g[k] ELSE 0)
<1> DEFINE R == S \ {k}
<1>1. IsFiniteSet(R) /\ k \notin R
  BY Zenon, FS_RemoveElement
<1>2. Weight(R, f) = Weight(R, g) /\ Weight(R, f) \in Nat
  <2> HIDE DEF R
  <2>1. \A x \in R : f[x] = g[x]
    BY Zenon DEF R
  <2> QED
    BY Zenon, <1>1, <2>1, WeightSame, WeightNat
<1>3. k \in S => Weight(S, f) = Weight(R, f) + f[k]
  <2>1. k \in S => S = R \cup {k}
    BY Zenon
  <2> HIDE DEF R
  <2> QED
    BY Zenon, <1>1, <2>1, WeightAdds
<1>4. k \in T => Weight(T, g) = Weight(R, g) + g[k]
  <2>1. k \in T => T = R \cup {k}
    BY Zenon
  <2> HIDE DEF R
  <2> QED
    BY Zenon, <1>1, <2>1, WeightAdds
<1>5. /\ k \notin S => S = R
      /\ k \notin T => T = R
  BY Zenon
<1> HIDE DEF R
<1>6. /\ Weight(S, f) = Weight(R, f) + (IF k \in S THEN f[k] ELSE 0)
      /\ Weight(T, g) = Weight(R, f) + (IF k \in T THEN g[k] ELSE 0)
  BY <1>2, <1>3, <1>4, <1>5
<1>7. (IF k \in S THEN f[k] ELSE 0) \in Int /\ (IF k \in T THEN g[k] ELSE 0) \in Int
  OBVIOUS
<1> QED
  BY <1>2, <1>6, <1>7

\* The same, with the terms given.
LEMMA WeightTerms ==
    ASSUME NEW S, NEW T, NEW k, NEW f, NEW g, NEW u, NEW v,
           IsFiniteSet(S), IsFiniteSet(T), S \ {k} = T \ {k},
           \A x \in S \ {k} : f[x] = g[x], f[k] \in 0..Units, g[k] \in 0..Units,
           u = IF k \in S THEN f[k] ELSE 0, v = IF k \in T THEN g[k] ELSE 0
    PROVE  Weight(T, g) + u = Weight(S, f) + v
  BY WeightChanges

\* Types, for all steps: a Kafka that is removed has a subscription.
LEMMA TypeStep ==
    ASSUME TypeOK, QuotaInv, Next
    PROVE  TypeOK'
<1>1. ASSUME KafkaSteps
      PROVE  TypeOK'
  <2>1. ASSUME NEW k \in Kafkas, KafkaRemoved(k)
        PROVE  reserved # 0
    <3>1. Rowed # {}
      BY Zenon, <2>1 DEF KafkaRemoved, Rowed
    <3>2. Cardinality(Rowed) # 0
      BY Zenon, <3>1, QuotaNumbers, FS_EmptySet
    <3>3. Cardinality(Rowed) + Cardinality(Inserting) <= reserved
      BY Zenon DEF QuotaInv
    <3> QED
      BY <3>2, <3>3, QuotaNumbers
  <2>2. ASSUME AssignKafka
        PROVE  \E k \in Kafkas : TRUE
    BY Zenon, <2>2, TaskKinds DEF AssignKafka, Assignments
  <2> QED
    BY Zenon, <1>1, <2>1, <2>2, TypeKafkas DEF KafkaSteps
<1>2. ASSUME RequestSteps
      PROVE  TypeOK'
  <2>1. PICK q \in Requests :
            \/ Serving(q)
            \/ \E c \in Clusters : RegisterEnterpriseCluster(q, c)
                                    \/ DeregisterEnterpriseCluster(q, c)
            \/ \E c \in Clusters, kind \in {"first", "again", "trouble"} :
                  ReportStatus(q, c, kind)
            \/ \E r \in Replicas, size \in Sizes, ent \in BOOLEAN :
                  RegisterKafkaJob(q, r, size, ent)
    BY <1>2, Zenon DEF RequestSteps
  <2> QED
    BY Zenon, <2>1, TypeRequests
<1>3. ManagerSteps \/ ScalingSteps \/ RemovalSteps \/ OtherSteps => TypeOK'
  BY Zenon, TypeManager, TypeScaling, TypeRemoval, TypeOthers
  DEF ManagerSteps, ScalingSteps, RemovalSteps, OtherSteps
<1> QED
  BY Zenon, <1>1, <1>2, <1>3, StepKinds

EnteringTerm(q) == IF q \in Entering THEN Asked[q] ELSE 0
BoundTerm(q, c) == IF q \in Bound(c) THEN Asked[q] ELSE 0
RegionalTerm(k) == IF k \in Regional THEN SizeOf[k] ELSE 0
HostedTerm(k, c) == IF k \in HostedBy(c) THEN SizeOf[k] ELSE 0

\* The terms are sizes.
LEMMA TermsTyped ==
    ASSUME TypeOK
    PROVE  /\ \A q \in Requests : /\ Asked[q] \in 0..Units /\ EnteringTerm(q) \in 0..Units
                                  /\ \A c : BoundTerm(q, c) \in 0..Units
           /\ \A k \in Kafkas : /\ SizeOf[k] \in 0..Units /\ RegionalTerm(k) \in 0..Units
                                /\ \A c : HostedTerm(k, c) \in 0..Units
<1>1. 0 \in 0..Units /\ \A s \in Sizes : s \in 0..Units
  BY Bounds
<1>2. \A q \in Requests : Asked[q] \in 0..Units
  <2> TAKE q \in Requests
  <2>1. Registering(q) => task[q].size \in Sizes
    BY Zenon, TaskKinds DEF Registering, Registrations
  <2> QED
    BY Zenon, <1>1, <2>1 DEF Asked
<1>3. \A k \in Kafkas : SizeOf[k] \in 0..Units
  BY Zenon, <1>1 DEF SizeOf, Size, TypeOK
<1> QED
  BY Zenon, <1>1, <1>2, <1>3 DEF EnteringTerm, BoundTerm, RegionalTerm, HostedTerm

\* In particular they are numbers.
LEMMA TermsNat ==
    ASSUME TypeOK
    PROVE  /\ 0 \in Nat
           /\ \A q \in Requests : EnteringTerm(q) \in Nat /\ \A c : BoundTerm(q, c) \in Nat
           /\ \A k \in Kafkas : RegionalTerm(k) \in Nat /\ \A c : HostedTerm(k, c) \in Nat
<1>1. 0 \in Nat /\ \A n \in 0..Units : n \in Nat
  BY Bounds
<1> QED
  BY Zenon, <1>1, TermsTyped

\* After a step they are within the same bounds.
LEMMA TermsTypedNext ==
    ASSUME TypeOK'
    PROVE  /\ \A q \in Requests : Asked'[q] \in 0..Units
           /\ \A k \in Kafkas : SizeOf'[k] \in 0..Units
<1>1. 0 \in 0..Units /\ \A s \in Sizes : s \in 0..Units
  BY Bounds
<1>2. \A q \in Requests : Asked'[q] \in 0..Units
  <2> TAKE q \in Requests
  <2>1. task'[q] \in {Idle} \cup Registrations \cup Reports \cup Enrollments
    BY Zenon, TasksAre, Bounds DEF TypeOK
  <2>2. Registering(q)' => task'[q].size \in Sizes
    BY <2>1 DEF Registering, Idle, Registrations, Reports, Enrollments
  <2> QED
    BY Zenon, <1>1, <2>2 DEF Asked
<1>3. \A k \in Kafkas : SizeOf'[k] \in 0..Units
  BY Zenon, <1>1 DEF SizeOf, Size, TypeOK
<1> QED
  BY Zenon, <1>2, <1>3

\* A step of one request changes the sums by its term.
LEMMA RequestSums ==
    ASSUME TypeOK, TypeOK', NEW q \in Requests, Others(q)
    PROVE  /\ Weight(Entering, Asked)' + EnteringTerm(q)
                 = Weight(Entering, Asked) + EnteringTerm(q)'
           /\ \A c : Weight(Bound(c), Asked)' + BoundTerm(q, c)
                        = Weight(Bound(c), Asked) + BoundTerm(q, c)'
<1>1. /\ Entering \ {q} = Entering' \ {q}
      /\ \A x \in Entering \ {q} : Asked[x] = Asked'[x]
  BY Zenon DEF Others, Entering, Asked, Registering
<1>2. Asked[q] \in 0..Units /\ Asked'[q] \in 0..Units
  BY Zenon, TermsTyped, TermsTypedNext
<1>3. Weight(Entering', Asked') + EnteringTerm(q)
         = Weight(Entering, Asked) + EnteringTerm(q)'
  <2>1. /\ EnteringTerm(q) = IF q \in Entering THEN Asked[q] ELSE 0
        /\ EnteringTerm(q)' = IF q \in Entering' THEN Asked'[q] ELSE 0
    BY Zenon DEF EnteringTerm
  <2> QED
    BY SMTT(30), <1>1, <1>2, <2>1, SumsNat, SumsNatNext, WeightTerms
<1>4. ASSUME NEW c
      PROVE  Weight(Bound(c)', Asked') + BoundTerm(q, c)
                = Weight(Bound(c), Asked) + BoundTerm(q, c)'
  <2>1. /\ Bound(c) \ {q} = Bound(c)' \ {q}
        /\ \A x \in Bound(c) \ {q} : Asked[x] = Asked'[x]
    BY Zenon DEF Others, Bound, Asked, Registering
  <2>2. /\ BoundTerm(q, c) = IF q \in Bound(c) THEN Asked[q] ELSE 0
        /\ BoundTerm(q, c)' = IF q \in Bound(c)' THEN Asked'[q] ELSE 0
    BY Zenon DEF BoundTerm
  <2> QED
    BY SMTT(30), <1>2, <2>1, <2>2, SumsNat, SumsNatNext, WeightTerms
<1> QED
  BY Zenon, <1>3, <1>4 DEF Weight, Parts

\* A step that changes one Kafka changes the sums by its term.
LEMMA KafkaSums ==
    ASSUME TypeOK, TypeOK', NEW k \in Kafkas,
           \A j \in Kafkas : j # k => kafkas'[j] = kafkas[j]
    PROVE  /\ Weight(Regional, SizeOf)' + RegionalTerm(k)
                 = Weight(Regional, SizeOf) + RegionalTerm(k)'
           /\ \A c : Weight(HostedBy(c), SizeOf)' + HostedTerm(k, c)
                        = Weight(HostedBy(c), SizeOf) + HostedTerm(k, c)'
<1>1. /\ Regional \ {k} = Regional' \ {k}
      /\ \A x \in Regional \ {k} : SizeOf[x] = SizeOf'[x]
  BY Zenon DEF Regional, SizeOf, Size
<1>2. SizeOf[k] \in 0..Units /\ SizeOf'[k] \in 0..Units
  BY Zenon, TermsTyped, TermsTypedNext
<1>3. Weight(Regional', SizeOf') + RegionalTerm(k)
         = Weight(Regional, SizeOf) + RegionalTerm(k)'
  <2>1. /\ RegionalTerm(k) = IF k \in Regional THEN SizeOf[k] ELSE 0
        /\ RegionalTerm(k)' = IF k \in Regional' THEN SizeOf'[k] ELSE 0
    BY Zenon DEF RegionalTerm
  <2> QED
    BY SMTT(30), <1>1, <1>2, <2>1, SumsNat, SumsNatNext, WeightTerms
<1>4. ASSUME NEW c
      PROVE  Weight(HostedBy(c)', SizeOf') + HostedTerm(k, c)
                = Weight(HostedBy(c), SizeOf) + HostedTerm(k, c)'
  <2>1. /\ HostedBy(c) \ {k} = HostedBy(c)' \ {k}
        /\ \A x \in HostedBy(c) \ {k} : SizeOf[x] = SizeOf'[x]
    BY Zenon DEF HostedBy, SizeOf, Size
  <2>2. /\ HostedTerm(k, c) = IF k \in HostedBy(c) THEN SizeOf[k] ELSE 0
        /\ HostedTerm(k, c)' = IF k \in HostedBy(c)' THEN SizeOf'[k] ELSE 0
    BY Zenon DEF HostedTerm
  <2> QED
    BY SMTT(30), <1>2, <2>1, <2>2, SumsNat, SumsNatNext, WeightTerms
<1> QED
  BY Zenon, <1>3, <1>4 DEF Weight, Parts

\* What the terms are, before and after a step.
LEMMA TermsAre ==
    /\ \A q \in Requests :
          /\ EnteringTerm(q) = IF Registering(q) /\ ~task[q].ent THEN task[q].size ELSE 0
          /\ EnteringTerm(q)' = IF Registering(q)' /\ ~task'[q].ent THEN task'[q].size ELSE 0
    /\ \A q \in Requests : \A c :
          /\ BoundTerm(q, c) = IF Registering(q) /\ task[q].host = c THEN task[q].size ELSE 0
          /\ BoundTerm(q, c)' =
                IF Registering(q)' /\ task'[q].host = c THEN task'[q].size ELSE 0
    /\ \A k \in Kafkas :
          /\ RegionalTerm(k) = IF kafkas[k].st # "none" /\ ~kafkas[k].ent
                               THEN kafkas[k].size ELSE 0
          /\ RegionalTerm(k)' = IF kafkas'[k].st # "none" /\ ~kafkas'[k].ent
                                THEN kafkas'[k].size ELSE 0
    /\ \A k \in Kafkas : \A c :
          /\ HostedTerm(k, c) =
                IF kafkas[k].st \notin {"none", "deleting"} /\ kafkas[k].host = c
                THEN kafkas[k].size ELSE 0
          /\ HostedTerm(k, c)' =
                IF kafkas'[k].st \notin {"none", "deleting"} /\ kafkas'[k].host = c
                THEN kafkas'[k].size ELSE 0
<1>1. ASSUME NEW q \in Requests
      PROVE  /\ EnteringTerm(q) = IF Registering(q) /\ ~task[q].ent THEN task[q].size ELSE 0
             /\ EnteringTerm(q)' = IF Registering(q)' /\ ~task'[q].ent THEN task'[q].size ELSE 0
  BY DEF EnteringTerm, Entering, Asked
<1>2. ASSUME NEW q \in Requests, NEW c
      PROVE  /\ BoundTerm(q, c) = IF Registering(q) /\ task[q].host = c THEN task[q].size ELSE 0
             /\ BoundTerm(q, c)' =
                   IF Registering(q)' /\ task'[q].host = c THEN task'[q].size ELSE 0
  BY DEF BoundTerm, Bound, Asked
<1>3. ASSUME NEW k \in Kafkas
      PROVE  /\ RegionalTerm(k) = IF kafkas[k].st # "none" /\ ~kafkas[k].ent
                                  THEN kafkas[k].size ELSE 0
             /\ RegionalTerm(k)' = IF kafkas'[k].st # "none" /\ ~kafkas'[k].ent
                                   THEN kafkas'[k].size ELSE 0
  BY DEF RegionalTerm, Regional, SizeOf, Size
<1>4. ASSUME NEW k \in Kafkas, NEW c
      PROVE  /\ HostedTerm(k, c) =
                   IF kafkas[k].st \notin {"none", "deleting"} /\ kafkas[k].host = c
                   THEN kafkas[k].size ELSE 0
             /\ HostedTerm(k, c)' =
                   IF kafkas'[k].st \notin {"none", "deleting"} /\ kafkas'[k].host = c
                   THEN kafkas'[k].size ELSE 0
  BY DEF HostedTerm, HostedBy, SizeOf, Size
<1> QED
  BY Zenon, <1>1, <1>2, <1>3, <1>4

\* The registrations of other replicas ask for at most a Kafka of the largest
\* size each.
LEMMA OthersBounded ==
    ASSUME TypeOK, MutexInv, NEW r \in Replicas, NEW S \in SUBSET Requests,
           \A o \in S : Registering(o) /\ task[o].r # r
    PROVE  Weight(S, Asked) <= (Cardinality(Replicas) - 1) * Max(Sizes)
<1> DEFINE R == Replicas \ {r}
           h == [o \in S |-> task[o].r]
<1>1. IsFiniteSet(R) /\ Cardinality(R) = Cardinality(Replicas) - 1
  BY Zenon, ProcessesAssumption, FS_RemoveElement
<1>2. \A o \in S : task[o] \in Registrations
  BY Zenon, TaskKinds DEF Registering
<1>3. h \in [S -> R]
  BY Zenon, <1>2 DEF Registrations
<1>4. \A x, y \in S : h[x] = h[y] => x = y
  BY Zenon DEF MutexInv
<1>5. \A o \in S : Asked[o] \in 0..Max(Sizes)
  <2> TAKE o \in S
  <2>1. Asked[o] \in Sizes
    BY Zenon, <1>2 DEF Asked, Registrations
  <2> QED
    BY <2>1, ExtraNat, Bounds
<1>6. Max(Sizes) \in 0..Units
  BY ExtraNat, Bounds
<1>7. Weight(S, Asked) <= Cardinality(R) * Max(Sizes)
  <2> HIDE DEF R, h
  <2> QED
    BY Zenon, <1>1, <1>3, <1>4, <1>5, <1>6, WeightBounded
<1> HIDE DEF R
<1> QED
  BY Zenon, <1>1, <1>7

\* What Kafka steps leave alone.
LEMMA KafkaStepsKeep ==
    ASSUME TypeOK, KafkaSteps
    PROVE  /\ UNCHANGED <<setting, split, rows, cloud, lost>>
           /\ \A q \in Requests : task'[q] = task[q]
<1>1. UNCHANGED <<setting, split, rows, cloud, lost>>
  BY Zenon DEF KafkaSteps, AssignKafka, FindClusterForKafka, KafkaTimesOut,
         KafkaDeprovision, KafkaDeleting, KafkaRemoved, tables, outside
<1>2. (\E t : Do("accepted", t)) \/ UNCHANGED task
  BY Zenon DEF KafkaSteps, AssignKafka, FindClusterForKafka, KafkaTimesOut,
         KafkaDeprovision, KafkaDeleting, KafkaRemoved, Done
<1>3. "accepted" \in Actors /\ \A q \in Requests : q # "accepted" /\ q \in Actors
  BY Zenon, Bounds DEF Workers
<1> QED
  BY Zenon, <1>1, <1>2, <1>3, DoFrame

\* The sums that a step leaves alone.
LEMMA SumsSame ==
    /\ UNCHANGED kafkas =>
          /\ Weight(Regional, SizeOf)' = Weight(Regional, SizeOf)
          /\ \A c : Weight(HostedBy(c), SizeOf)' = Weight(HostedBy(c), SizeOf)
    /\ (\A q \in Requests : /\ Registering(q)' <=> Registering(q)
                            /\ Registering(q) => task'[q] = task[q]) =>
          /\ Weight(Entering, Asked)' = Weight(Entering, Asked)
          /\ \A c : Weight(Bound(c), Asked)' = Weight(Bound(c), Asked)
<1>1. ASSUME UNCHANGED kafkas
      PROVE  /\ Regional' = Regional /\ SizeOf' = SizeOf
             /\ \A c : HostedBy(c)' = HostedBy(c)
  BY Zenon, <1>1 DEF Regional, SizeOf, Size, HostedBy
<1>2. ASSUME \A q \in Requests : /\ Registering(q)' <=> Registering(q)
                                 /\ Registering(q) => task'[q] = task[q]
      PROVE  /\ Entering' = Entering /\ Asked' = Asked
             /\ \A c : Bound(c)' = Bound(c)
  <2>1. Entering' = Entering /\ \A c : Bound(c)' = Bound(c)
    BY Zenon, <1>2 DEF Entering, Bound
  <2>2. \A q \in Requests : (IF Registering(q)' THEN task'[q].size ELSE 0)
                               = (IF Registering(q) THEN task[q].size ELSE 0)
    BY Zenon, <1>2
  <2> QED
    BY Zenon, <2>1, <2>2 DEF Asked
<1>3. ASSUME UNCHANGED kafkas
      PROVE  /\ Weight(Regional, SizeOf)' = Weight(Regional, SizeOf)
             /\ \A c : Weight(HostedBy(c), SizeOf)' = Weight(HostedBy(c), SizeOf)
  BY <1>1, <1>3 DEF Weight, Parts
<1>4. ASSUME \A q \in Requests : /\ Registering(q)' <=> Registering(q)
                                 /\ Registering(q) => task'[q] = task[q]
      PROVE  /\ Weight(Entering, Asked)' = Weight(Entering, Asked)
             /\ \A c : Weight(Bound(c), Asked)' = Weight(Bound(c), Asked)
  BY <1>2, <1>4 DEF Weight, Parts
<1> QED
  BY Zenon, <1>3, <1>4

\* The sums after a step are natural numbers too.
LEMMA NumbersNext ==
    /\ Weight(Regional, SizeOf)' \in Nat /\ Weight(Entering, Asked)' \in Nat
    /\ \A c : /\ Weight(HostedBy(c), SizeOf)' \in Nat
              /\ Weight(Bound(c), Asked)' \in Nat
    /\ Extra' \in Nat
<1>1. Weight(Regional', SizeOf') \in Nat /\ Weight(Entering', Asked') \in Nat
  BY Zenon, SumsNatNext, WeightNat
<1>2. \A c : Weight(HostedBy(c)', SizeOf') \in Nat /\ Weight(Bound(c)', Asked') \in Nat
  BY Zenon, SumsNatNext, WeightNat
<1>3. Extra' \in Nat
  BY Zenon, ExtraNat DEF Extra
<1> QED
  BY Zenon, <1>1, <1>2, <1>3 DEF Weight, Parts

\* Every step keeps the limit of the region.
LEMMA RegionStep ==
    ASSUME TypeOK, TypeOK', MutexInv, HostInv, RegionInv, Next
    PROVE  RegionInv'
<1>0. PICK a \in Nat, b \in Nat, e \in Nat, a2 \in Nat, b2 \in Nat, e2 \in Nat :
         /\ a = Weight(Regional, SizeOf) /\ a2 = Weight(Regional, SizeOf)'
         /\ b = Weight(Entering, Asked) /\ b2 = Weight(Entering, Asked)'
         /\ e = Extra /\ e2 = Extra'
  BY Zenon, SumsNat, NumbersNext, ExtraNat
<1>1. RegionLimit \in Nat /\ a + b <= RegionLimit + e
  BY Zenon, <1>0, Bounds DEF RegionInv
<1> SUFFICES a2 + b2 <= RegionLimit + e2
  BY Zenon, <1>0 DEF RegionInv
<1>2. UNCHANGED split => e2 = e
  BY <1>0 DEF Extra
<1>3. ASSUME RegFrame
      PROVE  a2 + b2 <= RegionLimit + e2
  <2>1. a2 = a /\ b2 = b /\ e2 = e
    BY Zenon, <1>0, <1>2, <1>3, SumsSame DEF RegFrame
  <2> QED
    BY Zenon, <1>1, <2>1
<1>4. ASSUME NEW q \in Requests, Others(q), UNCHANGED <<kafkas, split>>,
             EnteringTerm(q)' \in {0, EnteringTerm(q)}
      PROVE  a2 + b2 <= RegionLimit + e2
  <2>1. PICK t \in Nat, t2 \in Nat : t = EnteringTerm(q) /\ t2 = EnteringTerm(q)'
    BY Zenon, <1>4, TermsNat
  <2>2. a2 = a /\ e2 = e
    BY Zenon, <1>0, <1>2, <1>4, SumsSame
  <2>3. b2 + t = b + t2
    BY Zenon, <1>0, <1>4, <2>1, RequestSums
  <2>4. t2 = 0 \/ t2 = t
    BY Zenon, <1>4, <2>1
  <2> QED
    BY SMTT(30), <1>1, <2>2, <2>3, <2>4
<1>5. ASSUME NEW q \in Requests, Place(q) \/ ReserveQuota(q)
      PROVE  a2 + b2 <= RegionLimit + e2
  <2>1. UNCHANGED <<kafkas, split>> /\ Registering(q)
    BY Zenon, <1>5 DEF Place, ReserveQuota, tables, Registering
  <2>2. PICK t : /\ Do(q, t)
                 /\ t = Idle \/ (t.size = task[q].size /\ t.ent = task[q].ent)
    <3>1. \/ Do(q, Idle)
          \/ \E op, c : Do(q, Register(op, task[q].r, task[q].size, task[q].ent, c))
      <4>1. CASE Place(q)
        BY <4>1, Zenon DEF Place, Done
      <4>2. CASE ReserveQuota(q)
        BY <4>2, Zenon DEF ReserveQuota, Done
      <4> QED
        BY Zenon, <1>5, <4>1, <4>2
    <3>2. ASSUME NEW op, NEW c
          PROVE  /\ Register(op, task[q].r, task[q].size, task[q].ent, c).size = task[q].size
                 /\ Register(op, task[q].r, task[q].size, task[q].ent, c).ent = task[q].ent
      BY Zenon DEF Register
    <3> QED
      BY Zenon, <3>1, <3>2
  <2>3. task'[q] = t /\ Others(q)
    BY Zenon, <2>2, OthersKept
  <2>4. EnteringTerm(q)' \in {0, EnteringTerm(q)}
    BY <2>1, <2>2, <2>3 DEF EnteringTerm, Entering, Asked, Registering, Idle
  <2> QED
    BY Zenon, <1>4, <2>1, <2>3, <2>4
<1>6. ASSUME NEW q \in Requests, NEW r \in Replicas, NEW size \in Sizes, NEW ent \in BOOLEAN,
             RegisterKafkaJob(q, r, size, ent)
      PROVE  a2 + b2 <= RegionLimit + e2
  <2>1. /\ task'[q] = Register(IF scaling = "auto" /\ ~ent THEN "reserve" ELSE "place",
                               r, size, ent, Nowhere)
        /\ Others(q)
    BY Zenon, <1>6, OthersKept DEF RegisterKafkaJob
  <2>2. /\ UNCHANGED kafkas /\ ~Registering(q)
        /\ split' = (split \/ \E o \in Requests : Registering(o) /\ task[o].r # r)
        /\ \A o \in Requests : Registering(o) => task[o].r # r
        /\ ent \/ InRegion + size <= RegionLimit
    <3>1. ~Registering(q)
      BY Zenon, <1>6, Resting DEF RegisterKafkaJob, Free
    <3> QED
      BY Zenon, <1>6, <3>1 DEF RegisterKafkaJob, tables, Locked, HasAvailableCapacityInRegion
  <2>3. EnteringTerm(q) = 0 /\ EnteringTerm(q)' = IF ent THEN 0 ELSE size
    BY <2>1, <2>2 DEF EnteringTerm, Entering, Asked, Registering, Register
  <2>4. PICK t \in Nat : t = EnteringTerm(q)' /\ t = IF ent THEN 0 ELSE size
    BY <2>3, Bounds
  <2>5. a2 = a /\ b2 + 0 = b + t
    BY Zenon, <1>0, <2>1, <2>2, <2>3, <2>4, SumsSame, RequestSums
  <2>6. e <= e2
    <3>1. split => split'
      BY Zenon, <2>2
    <3> QED
      BY <1>0, <3>1, ExtraNat DEF Extra
  <2>7. b <= e2
    <3>1. CASE split'
      <4>1. Entering \in SUBSET Requests /\ \A o \in Entering : Registering(o) /\ task[o].r # r
        BY Zenon, <2>2 DEF Entering
      <4>2. Weight(Entering, Asked) <= (Cardinality(Replicas) - 1) * Max(Sizes)
        BY Zenon, <4>1, OthersBounded
      <4> QED
        BY Zenon, <1>0, <3>1, <4>2 DEF Extra
    <3>2. CASE ~split'
      <4>1. Entering = {}
        BY Zenon, <2>2, <3>2 DEF Entering
      <4> QED
        BY <1>0, <4>1, WeightNone
    <3> QED
      BY Zenon, <3>1, <3>2
  <2>8. CASE ent
    BY Zenon, <1>0, <1>1, <2>4, <2>5, <2>6, <2>8, SumKept
  <2>9. CASE ~ent
    <3>1. a + t <= RegionLimit
      BY Zenon, <1>0, <2>2, <2>4, <2>9, SumsAre
    <3> QED
      BY Zenon, <1>0, <1>1, <2>5, <2>7, <3>1, SumGrows
  <2> QED
    BY Zenon, <2>8, <2>9
<1>7. ASSUME NEW q \in Requests, CreateKafka(q)
      PROVE  a2 + b2 <= RegionLimit + e2
  <2>1. PICK k \in FreeKafkas :
            kafkas' = [kafkas EXCEPT ![k] =
                         Kafka("accepted", task[q].host, task[q].size, task[q].ent)]
    BY Zenon, <1>7, FreeKafka DEF CreateKafka
  <2>2. task'[q] = Idle /\ Others(q) /\ UNCHANGED split /\ Registering(q)
    BY Zenon, <1>7, OthersKept DEF Done, CreateKafka, Registering
  <2>3. k \in Kafkas /\ kafkas[k].st = "none"
    BY Zenon, <2>1 DEF FreeKafkas
  <2>4. /\ kafkas'[k] = Kafka("accepted", task[q].host, task[q].size, task[q].ent)
        /\ \A j \in Kafkas : j # k => kafkas'[j] = kafkas[j]
    BY Zenon, <2>1, <2>3 DEF TypeOK
  <2>5. RegionalTerm(k) = 0 /\ EnteringTerm(q)' = 0
    BY Zenon, <2>2, <2>3, Resting, TermsAre
  <2>6. RegionalTerm(k)' = EnteringTerm(q)
    <3>1. /\ kafkas'[k].st = "accepted" /\ kafkas'[k].size = task[q].size
          /\ kafkas'[k].ent = task[q].ent
      BY SMTT(30), <2>4, KafkaHas
    <3> QED
      BY Zenon, <2>2, <2>3, <3>1, TermsAre
  <2>7. PICK t \in Nat : t = EnteringTerm(q)
    BY Zenon, TermsNat
  <2>8. b2 + t = b + 0
    BY Zenon, <1>0, <2>2, <2>5, <2>7, RequestSums
  <2>9. a2 + 0 = a + t
    BY Zenon, <1>0, <2>3, <2>4, <2>5, <2>6, <2>7, KafkaSums
  <2> QED
    <3>1. e2 = e
      BY Zenon, <1>2, <2>2
    <3> QED
      BY SMTT(30), <1>1, <2>8, <2>9, <3>1
<1>8. ASSUME NEW a0 \in Actors, Fail(a0)
      PROVE  a2 + b2 <= RegionLimit + e2
  <2>1. task'[a0] = Idle /\ \A o \in Actors : o # a0 => task'[o] = task[o]
    BY Zenon, <1>8, DoFrame DEF Done, Fail
  <2>2. UNCHANGED <<kafkas, split>>
    BY Zenon, <1>8 DEF Fail, tables
  <2>3. CASE a0 \in Requests
    <3>1. EnteringTerm(a0)' = 0
      BY <2>1, <2>3 DEF EnteringTerm, Entering, Registering, Idle
    <3>2. Others(a0)
      BY Zenon, <1>8, <2>3, OthersKept DEF Done, Fail
    <3> QED
      BY Zenon, <1>4, <2>2, <2>3, <3>1, <3>2
  <2>4. CASE a0 \notin Requests
    <3>1. \A q \in Requests : task'[q] = task[q]
      BY Zenon, <2>1, <2>4, Bounds
    <3>2. a2 = a /\ b2 = b /\ e2 = e
      BY Zenon, <1>0, <1>2, <2>2, <3>1, SumsSame DEF Registering
    <3> QED
      BY Zenon, <1>1, <3>2
  <2> QED
    BY Zenon, <2>3, <2>4
<1>9. ASSUME KafkaSteps
      PROVE  a2 + b2 <= RegionLimit + e2
  <2>1. e2 = e /\ b2 = b
    BY Zenon, <1>0, <1>2, <1>9, KafkaStepsKeep, SumsSame DEF Registering
  <2>2. CASE UNCHANGED kafkas
    BY Zenon, <1>0, <1>1, <2>1, <2>2, SumsSame
  <2>3. ASSUME NEW k \in Kafkas,
               \A j \in Kafkas : j # k => kafkas'[j] = kafkas[j],
               RegionalTerm(k)' \in {0, RegionalTerm(k)}
        PROVE  a2 + b2 <= RegionLimit + e2
    <3>1. PICK t \in Nat, t2 \in Nat : t = RegionalTerm(k) /\ t2 = RegionalTerm(k)'
      BY Zenon, <2>3, TermsNat
    <3>2. a2 + t = a + t2
      BY Zenon, <1>0, <2>3, <3>1, KafkaSums
    <3>3. t2 = 0 \/ t2 = t
      BY Zenon, <2>3, <3>1
    <3> QED
      BY Zenon, <1>1, <2>1, <3>2, <3>3, SumStays
  <2>4. ASSUME NEW k \in Kafkas, NEW st, NEW host, kafkas[k].st # "none",
               kafkas' = [kafkas EXCEPT ![k] =
                            Kafka(st, host, kafkas[k].size, kafkas[k].ent)]
        PROVE  a2 + b2 <= RegionLimit + e2
    <3>1. /\ kafkas'[k] = Kafka(st, host, kafkas[k].size, kafkas[k].ent)
          /\ \A j \in Kafkas : j # k => kafkas'[j] = kafkas[j]
      BY Zenon, <2>4 DEF TypeOK
    <3>2. RegionalTerm(k)' \in {0, RegionalTerm(k)}
      BY <2>4, <3>1 DEF RegionalTerm, Regional, SizeOf, Size, Kafka
    <3> QED
      BY Zenon, <2>3, <3>1, <3>2
  <2>5. ASSUME NEW k \in Kafkas, KafkaRemoved(k)
        PROVE  a2 + b2 <= RegionLimit + e2
    <3>1. /\ kafkas'[k] = NoKafka
          /\ \A j \in Kafkas : j # k => kafkas'[j] = kafkas[j]
      BY Zenon, <2>5 DEF TypeOK, KafkaRemoved
    <3>2. RegionalTerm(k)' = 0
      BY <3>1 DEF RegionalTerm, Regional, NoKafka, Kafka
    <3> QED
      BY Zenon, <2>3, <3>1, <3>2
  <2>6. ASSUME NEW k \in Kafkas,
               KafkaTimesOut(k) \/ KafkaDeprovision(k) \/ KafkaDeleting(k)
        PROVE  a2 + b2 <= RegionLimit + e2
    <3>1. CASE KafkaTimesOut(k)
      BY Zenon, <2>4, <3>1 DEF KafkaTimesOut, Unplaced
    <3>2. CASE KafkaDeprovision(k)
      BY Zenon, <2>4, <3>2 DEF KafkaDeprovision
    <3>3. CASE KafkaDeleting(k)
      BY Zenon, <2>4, <3>3 DEF KafkaDeleting
    <3> QED
      BY Zenon, <2>6, <3>1, <3>2, <3>3
  <2>7. ASSUME AssignKafka
        PROVE  a2 + b2 <= RegionLimit + e2
    <3>1. task["accepted"].k \in Kafkas
      BY Zenon, <2>7, TaskKinds DEF AssignKafka, Assignments
    <3> QED
      BY Zenon, <2>2, <2>4, <2>7, <3>1 DEF AssignKafka
  <2>8. ASSUME NEW k \in Kafkas, FindClusterForKafka(k)
        PROVE  a2 + b2 <= RegionLimit + e2
    BY Zenon, <2>2, <2>8 DEF FindClusterForKafka, tables
  <2> QED
    BY Zenon, <1>9, <2>5, <2>6, <2>7, <2>8 DEF KafkaSteps
<1> QED
  BY Zenon, <1>3, <1>5, <1>6, <1>7, <1>8, <1>9, RegKinds DEF RegSteps

\* A cluster that is limited after a step was so before.
LEMMA LimitedBefore ==
    ASSUME TypeOK, Next, NEW c, Limited(c)'
    PROVE  Limited(c) /\ UNCHANGED scaling
<1>1. RegSteps => UNCHANGED setting
  <2>1. ASSUME NEW q \in Requests,
               \/ Place(q) \/ ReserveQuota(q) \/ CreateKafka(q)
               \/ \E r \in Replicas, size \in Sizes, ent \in BOOLEAN :
                     RegisterKafkaJob(q, r, size, ent)
        PROVE  UNCHANGED setting
    BY Zenon, <2>1 DEF Place, ReserveQuota, CreateKafka, RegisterKafkaJob
  <2>2. KafkaSteps => UNCHANGED setting
    BY Zenon, KafkaStepsKeep
  <2>3. ASSUME NEW a \in Actors, Fail(a)
        PROVE  UNCHANGED setting
    BY Zenon, <2>3 DEF Fail
  <2> QED
    BY Zenon, <2>1, <2>2, <2>3 DEF RegSteps
<1>2. UNCHANGED scaling /\ configured' \subseteq configured
  BY Zenon, <1>1, RegKinds DEF setting, RegFrame
<1> QED
  BY Zenon, <1>2 DEF Limited

\* A placement finds room for its Kafka where there is a limit.
LEMMA RoomFound ==
    ASSUME TypeOK, NEW size \in Nat, NEW ent \in BOOLEAN,
           NEW c \in FindCluster(size, ent), Limited(c)
    PROVE  Weight(HostedBy(c), SizeOf) + size <= Units
<1>1. /\ c \in (IF ent THEN Enterprise ELSE Managed) /\ HasRoom(c, size)
  BY Zenon, FoundCluster
<1>2. c \in Clusters /\ (c \in Enterprise => c \notin Managed)
  BY Zenon, <1>1, Bounds
<1>3. PICK u \in {0, Units} : Used(c) + size <= u
  <2>1. rows[c].units \in {0, Units}
    BY Zenon, <1>2 DEF TypeOK
  <2>2. ~(scaling = "manual" /\ c \in Managed \ configured)
    BY Zenon, <1>1, <1>2 DEF Limited
  <2> QED
    BY Zenon, <1>1, <2>1, <2>2 DEF HasRoom
<1>4. PICK a \in Nat : a = Used(c) /\ a = Weight(HostedBy(c), SizeOf)
  BY Zenon, SumsAre, SumsNat
<1> QED
  BY <1>3, <1>4, Bounds

\* Every step keeps the room on the clusters, registrations counted in.
LEMMA RoomStep ==
    ASSUME TypeOK, TypeOK', MutexInv, HostInv, RoomInv, Next,
           NEW c \in Clusters, Limited(c)'
    PROVE  RoomOf(c)'
<1>0. PICK a \in Nat, b \in Nat, e \in Nat, a2 \in Nat, b2 \in Nat, e2 \in Nat :
         /\ a = Weight(HostedBy(c), SizeOf) /\ a2 = Weight(HostedBy(c), SizeOf)'
         /\ b = Weight(Bound(c), Asked) /\ b2 = Weight(Bound(c), Asked)'
         /\ e = Extra /\ e2 = Extra'
  BY Zenon, SumsNat, NumbersNext, ExtraNat
<1>1. Units \in Nat /\ a + b <= Units + e /\ c # Nowhere
  BY Zenon, <1>0, LimitedBefore, Bounds DEF RoomInv, RoomOf
<1> SUFFICES a2 + b2 <= Units + e2
  BY Zenon, <1>0 DEF RoomOf
<1>2. UNCHANGED split => e2 = e
  BY <1>0 DEF Extra
<1>3. ASSUME RegFrame
      PROVE  a2 + b2 <= Units + e2
  <2>1. a2 = a /\ b2 = b /\ e2 = e
    BY Zenon, <1>0, <1>2, <1>3, SumsSame DEF RegFrame
  <2> QED
    BY Zenon, <1>1, <2>1
<1>4. ASSUME NEW q \in Requests, Others(q), UNCHANGED kafkas, e <= e2,
             BoundTerm(q, c)' \in {0, BoundTerm(q, c)}
      PROVE  a2 + b2 <= Units + e2
  <2>1. PICK t \in Nat, t2 \in Nat : t = BoundTerm(q, c) /\ t2 = BoundTerm(q, c)'
    BY Zenon, <1>4, TermsNat
  <2>2. a2 = a
    BY Zenon, <1>0, <1>4, SumsSame
  <2>3. b2 + t = b + t2
    BY Zenon, <1>0, <1>4, <2>1, RequestSums
  <2>4. t2 = 0 \/ t2 = t
    BY Zenon, <1>4, <2>1
  <2> QED
    BY SMTT(30), <1>1, <1>4, <2>2, <2>3, <2>4
<1>5. ASSUME NEW q \in Requests, Place(q)
      PROVE  a2 + b2 <= Units + e2
  <2>1. /\ UNCHANGED <<kafkas, split>> /\ Registering(q)
        /\ task[q] \in Registrations /\ task[q].host = Nowhere
    BY Zenon, <1>5, TaskKinds DEF Place, tables, Registering, HostInv, HostOf
  <2>2. e2 = e /\ e <= e2
    BY <1>2, <2>1
  <2>3. CASE Done(q)
    <3>1. task'[q] = Idle /\ Others(q)
      BY Zenon, <2>3, OthersKept DEF Done
    <3>2. BoundTerm(q, c)' = 0
      BY <3>1 DEF BoundTerm, Bound, Registering, Idle
    <3> QED
      BY Zenon, <1>4, <2>1, <2>2, <3>1, <3>2
  <2>4. ASSUME NEW d \in FindCluster(task[q].size, task[q].ent),
               Do(q, Register("reserve", task[q].r, task[q].size, task[q].ent, d))
        PROVE  a2 + b2 <= Units + e2
    <3>1. /\ task'[q] = Register("reserve", task[q].r, task[q].size, task[q].ent, d)
          /\ Others(q)
      BY Zenon, <2>4, OthersKept
    <3>2. CASE d # c
      <4>1. BoundTerm(q, c)' = 0
        BY <3>1, <3>2 DEF BoundTerm, Bound, Register
      <4> QED
        BY Zenon, <1>4, <2>1, <2>2, <3>1, <4>1
    <3>3. CASE d = c
      <4>1. PICK t \in Nat : t = task[q].size
        BY Zenon, <2>1, SizesNat DEF Registrations
      <4>2. BoundTerm(q, c)' = t
        BY <3>1, <3>3, <4>1 DEF BoundTerm, Bound, Asked, Registering, Register
      <4>3. BoundTerm(q, c) = 0
        BY Zenon, <1>1, <2>1 DEF BoundTerm, Bound
      <4>4. b2 + 0 = b + t /\ a2 = a
        BY Zenon, <1>0, <2>1, <3>1, <4>2, <4>3, RequestSums, SumsSame
      <4>5. a + t <= Units
        <5>1. task[q].ent \in BOOLEAN /\ Limited(c)
          BY Zenon, <2>1, LimitedBefore DEF Registrations
        <5> QED
          BY Zenon, <1>0, <2>4, <3>3, <4>1, <5>1, RoomFound
      <4>6. b <= e2
        <5>1. \A o \in Bound(c) : o \in Requests /\ Registering(o) /\ o # q
          BY Zenon, <1>1, <2>1 DEF Bound
        <5>2. CASE split
          <6>1. task[q].r \in Replicas /\ Bound(c) \in SUBSET Requests
            BY Zenon, <2>1 DEF Registrations, Bound
          <6>2. \A o \in Bound(c) : Registering(o) /\ task[o].r # task[q].r
            BY Zenon, <2>1, <5>1 DEF MutexInv
          <6>3. Weight(Bound(c), Asked) <= (Cardinality(Replicas) - 1) * Max(Sizes)
            BY Zenon, <6>1, <6>2, OthersBounded
          <6> QED
            BY Zenon, <1>0, <2>1, <5>2, <6>3 DEF Extra
        <5>3. CASE ~split
          <6>1. Bound(c) = {}
            BY Zenon, <2>1, <5>1, <5>3 DEF MutexInv
          <6> QED
            BY <1>0, <6>1, WeightNone
        <5> QED
          BY Zenon, <5>2, <5>3
      <4> QED
        BY Zenon, <1>1, <4>4, <4>5, <4>6, SumGrows
    <3> QED
      BY Zenon, <3>2, <3>3
  <2> QED
    BY Zenon, <1>5, <2>3, <2>4 DEF Place
<1>6. ASSUME NEW q \in Requests, ReserveQuota(q)
      PROVE  a2 + b2 <= Units + e2
  <2>1. UNCHANGED <<kafkas, split>> /\ Registering(q)
    BY Zenon, <1>6 DEF ReserveQuota, tables, Registering
  <2>2. e <= e2
    BY <1>2, <2>1
  <2>3. PICK t : /\ Do(q, t)
                 /\ t = Idle \/ t = Register("insert", task[q].r, task[q].size,
                                             task[q].ent, task[q].host)
    BY <1>6, Zenon DEF ReserveQuota, Done
  <2>4. task'[q] = t /\ Others(q)
    BY ZenonT(40), <2>3, OthersKept
  <2>5. BoundTerm(q, c)' \in {0, BoundTerm(q, c)}
    <3>1. CASE t = Idle
      BY Zenon, <2>4, <3>1, Resting, TermsAre
    <3>2. CASE t = Register("insert", task[q].r, task[q].size, task[q].ent, task[q].host)
      <4>1. /\ task'[q].op = "insert" /\ task'[q].host = task[q].host
            /\ task'[q].size = task[q].size
        BY SMTT(30), <2>4, <3>2, RegisterHas
      <4> QED
        BY Zenon, <2>1, <4>1, TermsAre DEF Registering
    <3> QED
      BY Zenon, <2>3, <3>1, <3>2
  <2> QED
    BY Zenon, <1>4, <2>1, <2>2, <2>4, <2>5
<1>7. ASSUME NEW q \in Requests, NEW r \in Replicas, NEW size \in Sizes, NEW ent \in BOOLEAN,
             RegisterKafkaJob(q, r, size, ent)
      PROVE  a2 + b2 <= Units + e2
  <2>1. /\ task'[q] = Register(IF scaling = "auto" /\ ~ent THEN "reserve" ELSE "place",
                               r, size, ent, Nowhere)
        /\ Others(q)
    BY Zenon, <1>7, OthersKept DEF RegisterKafkaJob
  <2>2. UNCHANGED kafkas /\ (split => split')
    BY Zenon, <1>7 DEF RegisterKafkaJob, tables
  <2>3. e <= e2
    BY Zenon, <1>0, <2>2, ExtraGrows
  <2>4. BoundTerm(q, c)' = 0
    <3>1. task'[q].host = Nowhere
      BY SMTT(30), <2>1, RegisterHas
    <3> QED
      BY Zenon, <1>1, <3>1, TermsAre
  <2> QED
    BY Zenon, <1>4, <2>1, <2>2, <2>3, <2>4
<1>8. ASSUME NEW q \in Requests, CreateKafka(q)
      PROVE  a2 + b2 <= Units + e2
  <2>1. PICK k \in FreeKafkas :
            kafkas' = [kafkas EXCEPT ![k] =
                         Kafka("accepted", task[q].host, task[q].size, task[q].ent)]
    BY Zenon, <1>8, FreeKafka DEF CreateKafka
  <2>2. task'[q] = Idle /\ Others(q) /\ UNCHANGED split /\ Registering(q)
    BY Zenon, <1>8, OthersKept DEF Done, CreateKafka, Registering
  <2>3. k \in Kafkas /\ kafkas[k].st = "none"
    BY Zenon, <2>1 DEF FreeKafkas
  <2>4. /\ kafkas'[k] = Kafka("accepted", task[q].host, task[q].size, task[q].ent)
        /\ \A j \in Kafkas : j # k => kafkas'[j] = kafkas[j]
    BY Zenon, <2>1, <2>3 DEF TypeOK
  <2>5. HostedTerm(k, c) = 0 /\ BoundTerm(q, c)' = 0
    BY Zenon, <2>2, <2>3, Resting, TermsAre
  <2>6. HostedTerm(k, c)' = BoundTerm(q, c)
    <3>1. /\ kafkas'[k].st = "accepted" /\ kafkas'[k].size = task[q].size
          /\ kafkas'[k].host = task[q].host
      BY SMTT(30), <2>4, KafkaHas
    <3>2. /\ HostedTerm(k, c)' =
                IF kafkas'[k].st \notin {"none", "deleting"} /\ kafkas'[k].host = c
                THEN kafkas'[k].size ELSE 0
          /\ BoundTerm(q, c) = IF Registering(q) /\ task[q].host = c THEN task[q].size ELSE 0
      BY Zenon, <2>3, TermsAre
    <3> QED
      BY SMTT(30), <2>2, <3>1, <3>2
  <2>7. PICK t \in Nat : t = BoundTerm(q, c)
    BY Zenon, TermsNat
  <2>8. b2 + t = b + 0
    BY Zenon, <1>0, <2>2, <2>5, <2>7, RequestSums
  <2>9. a2 + 0 = a + t
    BY Zenon, <1>0, <2>3, <2>4, <2>5, <2>6, <2>7, KafkaSums
  <2> QED
    <3>1. e2 = e
      BY Zenon, <1>2, <2>2
    <3> QED
      BY SMTT(30), <1>1, <2>8, <2>9, <3>1
<1>9. ASSUME NEW a0 \in Actors, Fail(a0)
      PROVE  a2 + b2 <= Units + e2
  <2>1. task'[a0] = Idle /\ \A o \in Actors : o # a0 => task'[o] = task[o]
    BY Zenon, <1>9, DoFrame DEF Done, Fail
  <2>2. UNCHANGED <<kafkas, split>> /\ e <= e2
    BY <1>2, <1>9 DEF Fail, tables
  <2>3. CASE a0 \in Requests
    <3>1. BoundTerm(a0, c)' = 0
      BY <2>1, <2>3 DEF BoundTerm, Bound, Registering, Idle
    <3>2. Others(a0)
      BY Zenon, <1>9, <2>3, OthersKept DEF Done, Fail
    <3> QED
      BY ZenonT(40), <1>4, <2>2, <2>3, <3>1, <3>2
  <2>4. CASE a0 \notin Requests
    <3>1. \A q \in Requests : task'[q] = task[q]
      BY Zenon, <2>1, <2>4, Bounds
    <3>2. a2 = a /\ b2 = b /\ e2 = e
      BY Zenon, <1>0, <1>2, <2>2, <3>1, SumsSame DEF Registering
    <3> QED
      BY Zenon, <1>1, <3>2
  <2> QED
    BY Zenon, <2>3, <2>4
<1>10. ASSUME KafkaSteps
       PROVE  a2 + b2 <= Units + e2
  <2>1. e2 = e /\ b2 = b
    BY Zenon, <1>0, <1>2, <1>10, KafkaStepsKeep, SumsSame DEF Registering
  <2>2. CASE UNCHANGED kafkas
    BY Zenon, <1>0, <1>1, <2>1, <2>2, SumsSame
  <2>3. ASSUME NEW k \in Kafkas,
               \A j \in Kafkas : j # k => kafkas'[j] = kafkas[j],
               HostedTerm(k, c)' \in {0, HostedTerm(k, c)}
        PROVE  a2 + b2 <= Units + e2
    <3>1. PICK t \in Nat, t2 \in Nat : t = HostedTerm(k, c) /\ t2 = HostedTerm(k, c)'
      BY Zenon, <2>3, TermsNat
    <3>2. a2 + t = a + t2
      BY Zenon, <1>0, <2>3, <3>1, KafkaSums
    <3>3. t2 = 0 \/ t2 = t
      BY Zenon, <2>3, <3>1
    <3> QED
      BY Zenon, <1>1, <2>1, <3>2, <3>3, SumStays
  <2>4. ASSUME NEW k \in Kafkas, NEW st \in {"failed", "deprovision", "deleting"},
               NEW host \in {Nowhere, kafkas[k].host},
               kafkas[k].st \notin {"none", "deleting"},
               kafkas' = [kafkas EXCEPT ![k] =
                            Kafka(st, host, kafkas[k].size, kafkas[k].ent)]
        PROVE  a2 + b2 <= Units + e2
    <3>1. /\ kafkas'[k] = Kafka(st, host, kafkas[k].size, kafkas[k].ent)
          /\ \A j \in Kafkas : j # k => kafkas'[j] = kafkas[j]
      BY Zenon, <2>4 DEF TypeOK
    <3>2. HostedTerm(k, c)' \in {0, HostedTerm(k, c)}
      BY <1>1, <2>4, <3>1 DEF HostedTerm, HostedBy, SizeOf, Size, Kafka
    <3> QED
      BY Zenon, <2>3, <3>1, <3>2
  <2>5. ASSUME NEW k \in Kafkas, KafkaRemoved(k)
        PROVE  a2 + b2 <= Units + e2
    <3>1. /\ kafkas'[k] = NoKafka
          /\ \A j \in Kafkas : j # k => kafkas'[j] = kafkas[j]
      BY ZenonT(40), <2>5 DEF TypeOK, KafkaRemoved
    <3>2. HostedTerm(k, c)' = 0
      BY <3>1 DEF HostedTerm, HostedBy, NoKafka, Kafka
    <3> QED
      BY Zenon, <2>3, <3>1, <3>2
  <2>6. ASSUME NEW k \in Kafkas,
               KafkaTimesOut(k) \/ KafkaDeprovision(k) \/ KafkaDeleting(k)
        PROVE  a2 + b2 <= Units + e2
    <3>1. CASE KafkaTimesOut(k)
      BY Zenon, <2>4, <3>1 DEF KafkaTimesOut, Unplaced
    <3>2. CASE KafkaDeprovision(k)
      BY Zenon, <2>4, <3>2 DEF KafkaDeprovision
    <3>3. CASE KafkaDeleting(k)
      BY Zenon, <2>4, <3>3 DEF KafkaDeleting
    <3> QED
      BY Zenon, <2>6, <3>1, <3>2, <3>3
  <2>7. ASSUME AssignKafka
        PROVE  a2 + b2 <= Units + e2
    <3>1. PICK k \in Kafkas, d \in Managed : k = task["accepted"].k /\ d = task["accepted"].c
      BY ZenonT(40), <2>7, TaskKinds DEF AssignKafka, Assignments
    <3>2. task["accepted"] # Idle
      BY Zenon, <2>7, Busy DEF AssignKafka
    <3>3. CASE kafkas[k].st \notin {"none", "deprovision", "deleting"}
      <4>1. kafkas' = [kafkas EXCEPT ![k] =
                         Kafka("preparing", d, kafkas[k].size, kafkas[k].ent)]
        BY Zenon, <2>7, <3>1, <3>3 DEF AssignKafka
      <4>2. /\ kafkas'[k] = Kafka("preparing", d, kafkas[k].size, kafkas[k].ent)
            /\ \A j \in Kafkas : j # k => kafkas'[j] = kafkas[j]
        BY Zenon, <4>1 DEF TypeOK
      <4>3. Unplaced(k) /\ scaling = "auto"
        BY Zenon, <3>1, <3>2, <3>3 DEF HostInv, HostOfWorker
      <4>4. HostedTerm(k, c) = 0
        BY Zenon, <1>1, <4>3 DEF HostedTerm, HostedBy, Unplaced
      <4>5. CASE d # c
        <5>1. HostedTerm(k, c)' = 0
          BY <4>2, <4>5 DEF HostedTerm, HostedBy, Kafka
        <5> QED
          BY ZenonT(40), <2>3, <4>2, <5>1
      <4>6. CASE d = c
        <5>1. PICK t \in Nat : t = Size(k)
          BY Zenon, SizesNat
        <5>2. HostedTerm(k, c)' = t
          BY <4>2, <4>6, <5>1 DEF HostedTerm, HostedBy, Kafka, SizeOf, Size
        <5>3. a2 + 0 = a + t
          BY Zenon, <1>0, <4>2, <4>4, <5>2, KafkaSums
        <5>4. a + t <= Units + e
          BY Zenon, <1>0, <3>1, <3>2, <4>3, <4>6, <5>1, LimitedBefore DEF RoomInv, WorkerRoom
        <5>5. Bound(c) = {}
          BY Zenon, <4>3, <4>6, Bounds DEF Bound, HostInv, HostOf
        <5>6. b = 0
          BY Zenon, <1>0, <5>5, WeightNone
        <5> QED
          BY Zenon, <1>1, <2>1, <5>3, <5>4, <5>6
      <4> QED
        BY Zenon, <4>5, <4>6
    <3> QED
      BY Zenon, <2>2, <2>7, <3>1, <3>3 DEF AssignKafka
  <2>8. ASSUME NEW k \in Kafkas, FindClusterForKafka(k)
        PROVE  a2 + b2 <= Units + e2
    BY Zenon, <2>2, <2>8 DEF FindClusterForKafka, tables
  <2> QED
    BY Zenon, <1>10, <2>5, <2>6, <2>7, <2>8 DEF KafkaSteps
<1> QED
  BY Zenon, <1>3, <1>5, <1>6, <1>7, <1>8, <1>9, <1>10, RegKinds DEF RegSteps

\* Every step keeps the room that the worker of the accepted Kafkas found.
LEMMA WorkerRoomStep ==
    ASSUME TypeOK, TypeOK', HostInv, RoomInv, Next,
           NEW c \in Clusters, Limited(c)'
    PROVE  WorkerRoom(c)'
<1>0. PICK a \in Nat, e \in Nat, a2 \in Nat, e2 \in Nat :
         /\ a = Weight(HostedBy(c), SizeOf) /\ a2 = Weight(HostedBy(c), SizeOf)'
         /\ e = Extra /\ e2 = Extra'
  BY Zenon, SumsNat, NumbersNext, ExtraNat
<1>1. Units \in Nat /\ c # Nowhere /\ Limited(c) /\ UNCHANGED scaling
  BY Zenon, LimitedBefore, Bounds
<1> SUFFICES ASSUME NEW k, task'["accepted"] # Idle, k = task'["accepted"].k,
                    task'["accepted"].c = c, Unplaced(k)'
             PROVE  a2 + Size(k)' <= Units + e2
  BY Zenon, <1>0 DEF WorkerRoom
<1>2. k \in Kafkas /\ c \in Managed /\ Size(k) \in Nat /\ Size(k)' \in Nat
  <2>1. task'["accepted"] \in Assignments
    BY Zenon, TasksAre, Bounds DEF TypeOK, TasksOf, Workers, Actors
  <2>2. k \in Kafkas /\ c \in Managed
    BY Zenon, <2>1 DEF Assignments
  <2>3. kafkas[k].size \in {0} \cup Sizes /\ kafkas'[k].size \in {0} \cup Sizes
    BY Zenon, <2>2 DEF TypeOK
  <2> QED
    BY <2>2, <2>3, Bounds DEF Size
<1>3. PICK s \in Nat, s2 \in Nat : s = Size(k) /\ s2 = Size(k)'
  BY Zenon, <1>2
<1>4. UNCHANGED split => e2 = e /\ e <= e2
  BY <1>0 DEF Extra
<1>5. ASSUME task'["accepted"] = task["accepted"], kafkas'[k] = kafkas[k],
             a2 <= a, e <= e2
      PROVE  a2 + s2 <= Units + e2
  <2>1. s2 = s /\ Unplaced(k)
    BY Zenon, <1>3, <1>5 DEF Size, Unplaced
  <2>2. a + s <= Units + e
    BY Zenon, <1>0, <1>1, <1>3, <1>5, <2>1 DEF RoomInv, WorkerRoom
  <2> QED
    BY <1>1, <1>5, <2>1, <2>2
<1>6. UNCHANGED kafkas => a2 <= a
  BY <1>0, SumsSame
<1>7. ASSUME RegFrame
      PROVE  a2 + s2 <= Units + e2
  BY Zenon, <1>4, <1>5, <1>6, <1>7 DEF RegFrame
<1>8. ASSUME NEW q \in Requests, NEW r \in Replicas, NEW size \in Sizes, NEW ent \in BOOLEAN,
             RegisterKafkaJob(q, r, size, ent)
      PROVE  a2 + s2 <= Units + e2
  <2>1. Others(q) /\ UNCHANGED kafkas /\ (split => split')
    BY Zenon, <1>8, OthersKept DEF RegisterKafkaJob, tables
  <2>2. e <= e2
    BY Zenon, <1>0, <2>1, ExtraGrows
  <2> QED
    BY Zenon, <1>5, <1>6, <2>1, <2>2 DEF Others
<1>9. ASSUME NEW q \in Requests, Place(q) \/ ReserveQuota(q)
      PROVE  a2 + s2 <= Units + e2
  <2>1. UNCHANGED <<kafkas, split>>
    BY Zenon, <1>9 DEF Place, ReserveQuota, tables
  <2>2. \E t : Do(q, t)
    BY <1>9, Zenon DEF Place, ReserveQuota, Done
  <2>3. Others(q)
    BY Zenon, <2>2, OthersKept
  <2> QED
    BY Zenon, <1>4, <1>5, <1>6, <2>1, <2>3 DEF Others
<1>10. ASSUME NEW q \in Requests, CreateKafka(q)
       PROVE  a2 + s2 <= Units + e2
  <2>1. PICK j \in FreeKafkas :
            kafkas' = [kafkas EXCEPT ![j] =
                         Kafka("accepted", task[q].host, task[q].size, task[q].ent)]
    BY Zenon, <1>10, FreeKafka DEF CreateKafka
  <2>2. Others(q) /\ UNCHANGED split /\ Registering(q)
    BY Zenon, <1>10, OthersKept DEF Done, CreateKafka, Registering
  <2>3. j \in Kafkas /\ kafkas[j].st = "none" /\ j # k
    BY Zenon, <2>1, <2>2 DEF FreeKafkas, Others
  <2>4. /\ kafkas'[j] = Kafka("accepted", task[q].host, task[q].size, task[q].ent)
        /\ \A o \in Kafkas : o # j => kafkas'[o] = kafkas[o]
    BY Zenon, <2>1, <2>3 DEF TypeOK
  <2>5. scaling = "auto" /\ task[q].op # "place"
    BY Zenon, <1>10, <2>2 DEF HostInv, HostOfWorker, Others, CreateKafka
  <2>6. task[q].host # c
    BY ZenonT(40), <1>1, <1>2, <2>2, <2>5, Bounds DEF HostInv, HostOf
  <2>7. HostedTerm(j, c) = 0 /\ HostedTerm(j, c)' = 0
    BY <2>3, <2>4, <2>6 DEF HostedTerm, HostedBy, Kafka
  <2>8. a2 + 0 = a + 0
    BY Zenon, <1>0, <2>3, <2>4, <2>7, KafkaSums
  <2>9. a2 <= a
    BY <2>8
  <2> QED
    BY Zenon, <1>2, <1>4, <1>5, <2>2, <2>3, <2>4, <2>9 DEF Others
<1>11. ASSUME NEW a0 \in Actors, Fail(a0)
       PROVE  a2 + s2 <= Units + e2
  <2>1. task'[a0] = Idle /\ \A o \in Actors : o # a0 => task'[o] = task[o]
    BY Zenon, <1>11, DoFrame DEF Done, Fail
  <2>2. "accepted" \in Actors
    BY Zenon DEF Actors, Workers
  <2> QED
    BY Zenon, <1>4, <1>5, <1>6, <1>11, <2>1, <2>2 DEF Fail, tables
<1>12. ASSUME KafkaSteps
       PROVE  a2 + s2 <= Units + e2
  <2>1. e2 = e /\ e <= e2
    BY Zenon, <1>4, <1>12, KafkaStepsKeep
  <2>2. ASSUME NEW j \in Kafkas, UNCHANGED task,
               \A o \in Kafkas : o # j => kafkas'[o] = kafkas[o],
               HostedTerm(j, c)' \in {0, HostedTerm(j, c)},
               ~Unplaced(j)'
        PROVE  a2 + s2 <= Units + e2
    <3>1. PICK t \in Nat, t2 \in Nat : t = HostedTerm(j, c) /\ t2 = HostedTerm(j, c)'
      BY Zenon, <2>2, TermsNat
    <3>2. a2 + t = a + t2
      BY Zenon, <1>0, <2>2, <3>1, KafkaSums
    <3>3. t2 = 0 \/ t2 = t
      BY Zenon, <2>2, <3>1
    <3>4. a2 <= a
      BY <3>2, <3>3
    <3> QED
      BY Zenon, <1>2, <1>5, <2>1, <2>2, <3>4
  <2>3. ASSUME NEW j \in Kafkas, NEW st \in {"failed", "deprovision", "deleting"},
               NEW host \in {Nowhere, kafkas[j].host},
               kafkas[j].st \notin {"none", "deleting"}, UNCHANGED task,
               kafkas' = [kafkas EXCEPT ![j] =
                            Kafka(st, host, kafkas[j].size, kafkas[j].ent)]
        PROVE  a2 + s2 <= Units + e2
    <3>1. /\ kafkas'[j] = Kafka(st, host, kafkas[j].size, kafkas[j].ent)
          /\ \A o \in Kafkas : o # j => kafkas'[o] = kafkas[o]
      BY Zenon, <2>3 DEF TypeOK
    <3>2. HostedTerm(j, c)' \in {0, HostedTerm(j, c)} /\ ~Unplaced(j)'
      <4>1. kafkas'[j].st = st /\ kafkas'[j].host = host /\ kafkas'[j].size = kafkas[j].size
        BY SMTT(30), <3>1, KafkaHas
      <4>2. st # "none" /\ st # "accepted" /\ (host = Nowhere \/ host = kafkas[j].host)
        BY Zenon, <2>3
      <4>3. HostedTerm(j, c)' \in {0, HostedTerm(j, c)}
        BY Zenon, <1>1, <2>3, <4>1, <4>2, TermsAre
      <4> QED
        BY Zenon, <4>1, <4>2, <4>3 DEF Unplaced
    <3> QED
      BY Zenon, <2>2, <2>3, <3>1, <3>2
  <2>4. ASSUME NEW j \in Kafkas, KafkaRemoved(j)
        PROVE  a2 + s2 <= Units + e2
    <3>1. /\ kafkas'[j] = NoKafka /\ UNCHANGED task
          /\ \A o \in Kafkas : o # j => kafkas'[o] = kafkas[o]
      BY ZenonT(40), <2>4 DEF TypeOK, KafkaRemoved
    <3>2. HostedTerm(j, c)' = 0 /\ ~Unplaced(j)'
      <4>1. kafkas'[j].st = "none"
        BY SMTT(30), <3>1 DEF NoKafka, Kafka
      <4> QED
        BY Zenon, <4>1, TermsAre DEF Unplaced
    <3> QED
      BY Zenon, <2>2, <3>1, <3>2
  <2>5. ASSUME NEW j \in Kafkas,
               KafkaTimesOut(j) \/ KafkaDeprovision(j) \/ KafkaDeleting(j)
        PROVE  a2 + s2 <= Units + e2
    <3>1. CASE KafkaTimesOut(j)
      BY Zenon, <2>3, <3>1 DEF KafkaTimesOut, Unplaced
    <3>2. CASE KafkaDeprovision(j)
      BY Zenon, <2>3, <3>2 DEF KafkaDeprovision
    <3>3. CASE KafkaDeleting(j)
      BY Zenon, <2>3, <3>3 DEF KafkaDeleting
    <3> QED
      BY Zenon, <2>5, <3>1, <3>2, <3>3
  <2>6. ASSUME AssignKafka
        PROVE  FALSE
    <3>1. "accepted" \in Actors
      BY Zenon DEF Actors, Workers
    <3> QED
      BY Zenon, <2>6, <3>1, DoFrame DEF AssignKafka, Done
  <2>7. ASSUME NEW j \in Kafkas, FindClusterForKafka(j)
        PROVE  a2 + s2 <= Units + e2
    <3>1. PICK d \in FindCluster(Size(j), FALSE) :
              Do("accepted", [op |-> "assign", k |-> j, c |-> d])
      BY Zenon, <2>7 DEF FindClusterForKafka
    <3>2. "accepted" \in Actors
      BY Zenon DEF Actors, Workers
    <3>3. task'["accepted"] = [op |-> "assign", k |-> j, c |-> d]
      BY Zenon, <3>1, <3>2, DoFrame
    <3>4. j = k /\ d = c /\ UNCHANGED kafkas
      BY <2>7, <3>3 DEF FindClusterForKafka, tables
    <3>5. s2 = s
      BY Zenon, <1>3, <3>4 DEF Size
    <3>6. a + s <= Units
      BY Zenon, <1>0, <1>1, <1>3, <3>1, <3>4, RoomFound
    <3>7. a2 <= a
      BY Zenon, <1>6, <3>4
    <3> QED
      BY Zenon, <1>0, <1>1, <1>3, <3>5, <3>6, <3>7, RoomKept
  <2> QED
    BY Zenon, <1>12, <2>4, <2>5, <2>6, <2>7 DEF KafkaSteps
<1>13. a2 + s2 <= Units + e2
  BY Zenon, <1>7, <1>8, <1>9, <1>10, <1>11, <1>12, RegKinds DEF RegSteps
<1> QED
  BY Zenon, <1>3, <1>13

-----------------------------------------------------------------------------
(* The limits and the quota.                                               *)

LimitsInv == TypeOK /\ QuotaInv /\ MutexInv /\ HostInv /\ RegionInv /\ RoomInv

\* It holds at the start, when there is nothing yet.
LEMMA LimitsInit ==
    ASSUME Init
    PROVE  LimitsInv
<1>1. TypeOK
  <2>1. scaling \in Scalings /\ configured \subseteq Managed
    BY FleetBounds DEF Init, Managed
  <2>2. \A a \in Actors : task[a] \in TasksOf(a)
    BY Zenon DEF Init, TasksOf
  <2>3. task = [a \in Actors |-> task[a]]
    BY Zenon DEF Init
  <2>4. rows \in [Clusters -> [st : Statuses, units : {0, Units}]]
    BY Zenon DEF Init, NoRow, Row, Statuses
  <2>5. cloud \in [Clusters -> {"none", "installing", "up", "error", "deleting"}]
    BY Zenon DEF Init
  <2>6. kafkas \in [Kafkas -> [st : KafkaStatuses, host : {Nowhere} \cup Clusters,
                              size : {0} \cup Sizes, ent : BOOLEAN]]
    BY Zenon DEF Init, NoKafka, Kafka, KafkaStatuses
  <2>7. accounts \subseteq Clusters /\ reserved \in Nat /\ split \in BOOLEAN
        /\ lost \subseteq {"quota", "account", "cluster"}
    BY Zenon DEF Init
  <2>8. {calls, faults, races} \subseteq Nat /\ races + faults <= MaxUpsets
    BY Bounds DEF Init
  <2> QED
    BY ZenonT(60), <2>1, <2>2, <2>3, <2>4, <2>5, <2>6, <2>7, <2>8 DEF TypeOK
<1>2. /\ \A k \in Kafkas : kafkas[k] = NoKafka
      /\ \A a \in Actors : task[a] = Idle
      /\ \A q \in Requests : task[q] = Idle
      /\ task["accepted"] = Idle
  BY Zenon, Bounds DEF Init, Workers
<1>3. \A q \in Requests : ~Registering(q) /\ task[q].op # "insert"
  BY SMTT(30), <1>2 DEF Registering, Idle
<1>4. /\ Rowed = {} /\ Inserting = {} /\ Regional = {} /\ Entering = {}
      /\ \A c : HostedBy(c) = {} /\ Bound(c) = {}
  <2>1. \A k \in Kafkas : kafkas[k].st = "none"
    BY SMTT(30), <1>2 DEF NoKafka, Kafka
  <2> QED
    BY Zenon, <1>3, <2>1 DEF Rowed, Inserting, Regional, Entering, HostedBy, Bound
<1>5. QuotaInv
  BY <1>4, FS_EmptySet DEF QuotaInv, Init
<1>6. MutexInv /\ HostInv
  <2>1. MutexInv /\ \A q \in Requests : HostOf(q)
    BY Zenon, <1>3 DEF MutexInv, HostOf
  <2>2. \A k \in Kafkas : kafkas[k].st = "none" /\ kafkas[k].host = Nowhere
    BY SMTT(30), <1>2 DEF NoKafka, Kafka
  <2>3. \A k \in Kafkas : HostOfRow(k)
    BY Zenon, <2>2, Bounds DEF HostOfRow, Unplaced
  <2> QED
    BY Zenon, <1>2, <2>1, <2>3 DEF HostInv, HostOfWorker
<1>7. PICK e \in Nat : e = Extra
  BY Zenon, ExtraNat
<1>8. /\ Weight(Regional, SizeOf) = 0 /\ Weight(Entering, Asked) = 0
      /\ \A c : Weight(HostedBy(c), SizeOf) = 0 /\ Weight(Bound(c), Asked) = 0
  BY Zenon, <1>4, WeightNone
<1>9. RegionInv
  BY Zenon, <1>7, <1>8, Bounds, NothingKept DEF RegionInv
<1>10. RoomInv
  BY <1>2, <1>7, <1>8, Bounds DEF RoomInv, RoomOf, WorkerRoom
<1> QED
  BY Zenon, <1>1, <1>5, <1>6, <1>9, <1>10 DEF LimitsInv

\* Every step keeps it.
LEMMA LimitsStep ==
    ASSUME LimitsInv, [Next]_vars
    PROVE  LimitsInv'
<1>1. CASE Next
  <2>1. TypeOK' /\ QuotaInv' /\ MutexInv' /\ HostInv'
    BY Zenon, <1>1, TypeStep, QuotaStep, MutexStep, HostStep DEF LimitsInv
  <2>2. RegionInv'
    BY Zenon, <1>1, <2>1, RegionStep DEF LimitsInv
  <2>3. \A c \in Clusters : Limited(c)' => RoomOf(c)' /\ WorkerRoom(c)'
    BY Zenon, <1>1, <2>1, RoomStep, WorkerRoomStep DEF LimitsInv
  <2> QED
    BY Zenon, <2>1, <2>2, <2>3 DEF LimitsInv, RoomInv
<1>2. CASE UNCHANGED vars
  <2>1. UNCHANGED <<scaling, configured, rows, cloud, accounts, kafkas, reserved, task,
                    split, lost, calls, faults, races>>
    BY Zenon, <1>2 DEF vars
  <2>2. TypeOK' /\ QuotaInv' /\ MutexInv' /\ HostInv'
    BY Zenon, <2>1 DEF LimitsInv, TypeOK, QuotaInv, Rowed, Inserting, MutexInv, HostInv, HostOf,
                HostOfRow, HostOfWorker, Registering, Unplaced
  <2>3. RegionInv'
    BY Zenon, <2>1 DEF LimitsInv, RegionInv, Regional, SizeOf, Size, Entering, Asked,
       Registering, Extra
  <2>4. RoomInv'
    BY Zenon, <2>1 DEF LimitsInv, RoomInv, Limited, RoomOf, WorkerRoom, HostedBy, SizeOf, Size,
                Bound, Asked, Registering, Extra, Unplaced
  <2> QED
    BY Zenon, <2>2, <2>3, <2>4 DEF LimitsInv
<1> QED
  BY Zenon, <1>1, <1>2

\* The limits, the mutex and the quota, with the registrations under way counted
\* in, are an invariant of the fleet.
THEOREM LimitsInvariance == Spec => []LimitsInv
BY LimitsInit, LimitsStep, PTL DEF Spec

\* Every variable keeps its type.
THEOREM TypeCorrect == Spec => []TypeOK
<1>1. LimitsInv => TypeOK
  BY Zenon DEF LimitsInv
<1> QED
  BY <1>1, LimitsInvariance, PTL

\* Subscriptions and Kafkas agree at the end of every request, however many
\* requests overlap and handlers fail, until an insert does.
THEOREM QuotaHeldHolds == Spec => []QuotaHeld
<1>1. LimitsInv => QuotaHeld
  BY Zenon DEF LimitsInv, QuotaInv, QuotaHeld, Rowed, Inserting
<1> QED
  BY <1>1, LimitsInvariance, PTL

\* The region limit and the capacity of the clusters hold for any number of
\* replicas, clusters and sizes, exactly as long as registrations of two
\* replicas do not overlap, and by one Kafka per other replica else.
THEOREM CapacityKeptHolds == Spec => []CapacityKept
<1>1. ASSUME LimitsInv
      PROVE  CapacityKept
  <2>1. PICK e \in Nat : e = Extra
    BY Zenon, ExtraNat
  <2>2. PICK a \in Nat, b \in Nat :
            a = Weight(Regional, SizeOf) /\ b = Weight(Entering, Asked)
    BY Zenon, SumsNat
  <2>3. a + b <= RegionLimit + e
    BY Zenon, <1>1, <2>1, <2>2 DEF LimitsInv, RegionInv
  <2>4. InRegion <= RegionLimit + Extra
    BY Zenon, <2>1, <2>2, <2>3, SumsAre, Bounds, PartKept
  <2>5. ASSUME NEW c \in Clusters, Limited(c)
        PROVE  Used(c) <= Units + Extra
    <3>1. PICK x \in Nat, y \in Nat :
              x = Weight(HostedBy(c), SizeOf) /\ y = Weight(Bound(c), Asked)
      BY Zenon, SumsNat
    <3>2. x + y <= Units + e
      BY Zenon, <1>1, <2>1, <2>5, <3>1 DEF LimitsInv, RoomInv, RoomOf
    <3> QED
      BY Zenon, <2>1, <3>1, <3>2, SumsAre, Bounds, PartKept
  <2> QED
    BY Zenon, <2>4, <2>5 DEF CapacityKept, Extra, Limited
<1> QED
  BY <1>1, LimitsInvariance, PTL
=============================================================================
