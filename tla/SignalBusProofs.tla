-------------------------- MODULE SignalBusProofs --------------------------
(***************************************************************************)
(* Theorems about SignalBus, for any subscriptions, any length of the      *)
(* queue and any number of signals.                                        *)
(***************************************************************************)
EXTENDS SignalBus, FiniteSetTheorems, TLAPS

\* The first size slots hold the open subscriptions, no two of them the same.
\* That they differ is what makes the counting of Registered inductive.
SliceInv ==
    /\ Open = {array[i] : i \in 1 .. size}
    /\ \A i, j \in 1 .. size : array[i] = array[j] => i = j

CountInv == IsFiniteSet(Open) /\ size = Cardinality(Open)

\* The copied slice lies within the array the walk reads, and a loop that has
\* not looked is an open one.
WalkInv == walk.len <= Len(Seen) /\ stale \subseteq Open

\* What the walk still comes to is not enough: a subscription that is ahead
\* of the walk by an append only would be lost by the next one.  It counts if
\* it was open when the walk began.
WakeupInv ==
    \A s \in stale \ excused : s \in token \/ (s \in Ahead /\ s \in owed) \/ queue > 0

IInv == TypeOK /\ SliceInv /\ CountInv /\ WalkInv /\ WakeupInv

-----------------------------------------------------------------------------
\* The array of a name nobody has subscribed to.
LEMMA EmptySlots == <<>> \in Slots /\ Len(<<>>) = 0
  BY DEF Slots

\* append that leaves the old array behind: a longer array with s in the
\* first new slot.
LEMMA GrowSlots ==
    ASSUME NEW a \in Slots, NEW s \in Subs
    PROVE  /\ Grow(a, s) \in Slots
           /\ Len(Grow(a, s)) > Len(a)
           /\ \A i \in 1 .. Len(a) : Grow(a, s)[i] = a[i]
           /\ Grow(a, s)[Len(a) + 1] = s
  <1> DEFINE cap == IF Len(a) = 0 THEN 1 ELSE 2 * Len(a)
  <1>1. Len(a) \in Nat /\ cap \in Nat /\ cap > Len(a)
    BY DEF Slots
  <1>2. Grow(a, s) = [i \in 1 .. cap |-> IF i <= Len(a) THEN a[i]
                                         ELSE IF i = Len(a) + 1 THEN s ELSE Nil]
    BY DEF Grow
  <1> HIDE DEF cap
  <1>3. \A i \in 1 .. Len(a) : a[i] \in Subs \cup {Nil}
    BY DEF Slots
  <1>4. Grow(a, s) \in [1 .. cap -> Subs \cup {Nil}]
    BY <1>1, <1>2, <1>3
  <1>5. Grow(a, s) \in Slots /\ Len(Grow(a, s)) = cap
    BY <1>1, <1>4 DEF Slots
  <1> QED
    BY <1>1, <1>2, <1>5

\* close writes within the array.
LEMMA WithoutSlots ==
    ASSUME TypeOK, size > 0, NEW s \in Subs
    PROVE  Without(s) \in Slots /\ Len(Without(s)) = Len(array)
  <1>1. Len(array) \in Nat /\ DOMAIN array = 1 .. Len(array) /\ size \in 1 .. Len(array)
    BY DEF TypeOK, Slots
  <1>2. \A i \in 1 .. Len(array) : array[i] \in Subs \cup {Nil}
    BY DEF TypeOK, Slots
  <1>3. Without(s) \in [1 .. Len(array) -> Subs \cup {Nil}]
    BY <1>1, <1>2 DEF Without
  <1> QED
    BY <1>1, <1>3 DEF Slots

\* The walk reads what it read before when the map takes another array.
LEMMA LeftArray ==
    ASSUME TypeOK, NEW a, LeaveArray(a)
    PROVE  array' = a /\ shared' = FALSE /\ own' \in Slots /\ Seen' = Seen
  <1>1. array' = a /\ shared' = FALSE /\ own' = Seen
    BY DEF LeaveArray, Seen
  <1>2. Seen' = own'
    BY <1>1 DEF Seen
  <1>3. Seen \in Slots
    BY DEF Seen, TypeOK
  <1> QED
    BY <1>1, <1>2, <1>3

\* The invariant holds at first.
LEMMA InitIInv == Init => IInv
  <1> SUFFICES ASSUME Init PROVE IInv
    OBVIOUS
  <1>1. TypeOK
    <2>1. array \in Slots /\ own \in Slots /\ size \in 0 .. Len(array)
      BY EmptySlots DEF Init
    <2>2. up \in BOOLEAN /\ shared \in BOOLEAN
      BY Zenon DEF Init
    <2>3. walk \in [len : Nat, next : Nat \ {0}] /\ queue \in 0 .. MaxQueue /\ sent \in 0 .. MaxSignals
      BY BoundAssumption DEF Init
    <2> QED
      BY <2>1, <2>2, <2>3 DEF Init, TypeOK
  <1>2. Open = {}
    BY DEF Init, Open
  <1>3. SliceInv /\ CountInv /\ WalkInv /\ WakeupInv
    BY <1>2, FS_EmptySet DEF Init, SliceInv, CountInv, WalkInv, WakeupInv, Seen
  <1> QED
    BY <1>1, <1>3 DEF IInv

-----------------------------------------------------------------------------
\* Every step keeps the types.
LEMMA TypeStep == IInv /\ [Next]_vars => TypeOK'
  <1> SUFFICES ASSUME IInv, [Next]_vars PROVE TypeOK'
    OBVIOUS
  <1> USE DEF IInv, TypeOK, walking
  <1>1. CASE Notify
    BY <1>1, BoundAssumption DEF Notify, Open
  <1>2. CASE Disconnect
    <2>1. up' \in BOOLEAN
      BY Zenon, <1>2 DEF Disconnect
    <2>2. queue' \in 0 .. MaxQueue /\ excused' \in SUBSET Subs
      BY <1>2, BoundAssumption DEF Disconnect, Open
    <2> QED
      BY <1>2, <2>1, <2>2 DEF Disconnect
  <1>3. CASE Reconnect
    BY <1>3 DEF Reconnect
  <1>4. CASE BeginWalk
    <2>1. shared' \in BOOLEAN /\ own' \in Slots
      BY <1>4, EmptySlots DEF BeginWalk
    <2>2. Len(array) \in Nat
      BY DEF Slots
    <2>3. walk' \in [len : Nat, next : Nat \ {0}] /\ queue' \in 0 .. MaxQueue /\ owed' \in SUBSET Subs
      BY <1>4, <2>2, BoundAssumption DEF BeginWalk, Open
    <2>4. up' \in BOOLEAN /\ array' = array /\ size' = size
      BY <1>4 DEF BeginWalk
    <2> QED
      BY <1>4, <2>1, <2>3, <2>4 DEF BeginWalk
  <1>5. CASE WalkOn
    BY <1>5 DEF WalkOn, Open
  <1>6. ASSUME NEW s \in Subs, Subscribe(s) PROVE TypeOK'
    <2>1. /\ array' \in Slots /\ size' \in 0 .. Len(array')
          /\ shared' \in BOOLEAN /\ own' \in Slots
      <3>1. CASE size < Len(array)
        <4>1. array' \in Slots /\ Len(array') = Len(array)
          <5>1. size + 1 \in 1 .. Len(array) /\ DOMAIN array = 1 .. Len(array)
            BY <3>1 DEF Slots
          <5>2. array' = [array EXCEPT ![size + 1] = s]
            BY <1>6, <3>1 DEF Subscribe
          <5> QED
            BY <5>1, <5>2 DEF Slots
        <4>2. Len(array) \in Nat /\ size' = size + 1
          BY <1>6 DEF Subscribe, Slots
        <4> QED
          BY <1>6, <3>1, <4>1, <4>2 DEF Subscribe
      <3>2. CASE ~(size < Len(array))
        <4>1. Len(array) \in Nat /\ size = Len(array)
          BY <3>2 DEF Slots
        <4>2. size' = size + 1 /\ LeaveArray(Grow(array, s))
          BY <1>6, <3>2 DEF Subscribe
        <4>3. array' = Grow(array, s) /\ shared' = FALSE /\ own' \in Slots
          BY Zenon, <4>2, LeftArray
        <4>4. array' \in Slots /\ Len(array') > Len(array)
          BY <4>3, GrowSlots
        <4>5. Len(array') \in Nat
          BY <4>4 DEF Slots
        <4>6. shared' \in BOOLEAN
          BY Zenon, <4>3
        <4> QED
          BY <4>1, <4>2, <4>3, <4>4, <4>5, <4>6
      <3> QED
        BY <3>1, <3>2
    <2>2. state' \in [Subs -> {"new", "work", "wait", "closed"}] /\ excused' \in SUBSET Subs
      BY <1>6 DEF Subscribe, LeaveArray
    <2> QED
      BY <1>6, <2>1, <2>2 DEF Subscribe
  <1>7. ASSUME NEW s \in Subs, Close(s) PROVE TypeOK'
    <2>1. size > 0
      BY <1>7 DEF Close, SliceInv, Slots
    <2>2. /\ array' \in Slots /\ size' \in 0 .. Len(array')
          /\ shared' \in BOOLEAN /\ own' \in Slots
      <3>1. Len(array) \in Nat
        BY DEF Slots
      <3>2. CASE size > 1
        BY <1>7, <2>1, <3>1, <3>2, WithoutSlots DEF Close
      <3>3. CASE ~(size > 1)
        <4>1. array' = <<>> /\ size' = 0
          BY <1>7, <2>1, <3>1, <3>3 DEF Close, LeaveArray
        <4>2. shared' = FALSE /\ own' \in Slots
          BY Zenon, <1>7, <3>3, LeftArray DEF Close
        <4>3. shared' \in BOOLEAN
          BY Zenon, <4>2
        <4> QED
          BY <4>1, <4>2, <4>3, EmptySlots
      <3> QED
        BY Zenon, <3>2, <3>3
    <2> QED
      BY <1>7, <2>2 DEF Close
  <1>8. ASSUME NEW s \in Subs, FinishWork(s) PROVE TypeOK'
    BY <1>8 DEF FinishWork
  <1>9. ASSUME NEW s \in Subs, BeginWork(s) PROVE TypeOK'
    BY <1>9 DEF BeginWork
  <1>10. CASE UNCHANGED vars
    BY <1>10 DEF vars
  <1> QED
    BY Zenon, <1>1, <1>2, <1>3, <1>4, <1>5, <1>6, <1>7, <1>8, <1>9, <1>10 DEF Next
-----------------------------------------------------------------------------
\* Subscribe and close change the open subscriptions by one; no other step
\* changes them.
LEMMA OpenSubscribe ==
    ASSUME TypeOK, NEW s \in Subs, Subscribe(s)
    PROVE  s \notin Open /\ Open' = Open \cup {s}
  BY DEF TypeOK, Subscribe, Open

\* close takes one away.
LEMMA OpenClose ==
    ASSUME TypeOK, NEW s \in Subs, Close(s)
    PROVE  s \in Open /\ Open' = Open \ {s}
  BY DEF TypeOK, Close, Open

\* The other steps.
LEMMA OpenElse ==
    ASSUME TypeOK,
           \/ Notify \/ Disconnect \/ Reconnect \/ BeginWalk \/ WalkOn
           \/ \E s \in Subs : FinishWork(s) \/ BeginWork(s)
           \/ UNCHANGED vars
    PROVE  Open' = Open /\ array' = array /\ size' = size
  <1>1. CASE \E s \in Subs : FinishWork(s) \/ BeginWork(s)
    BY Zenon, <1>1 DEF TypeOK, FinishWork, BeginWork, Open
  <1>2. CASE ~\E s \in Subs : FinishWork(s) \/ BeginWork(s)
    BY <1>2 DEF Notify, Disconnect, Reconnect, BeginWalk, WalkOn, Open, vars
  <1> QED
    BY Zenon, <1>1, <1>2

\* append, in place or not, keeps the first size slots and fills the next.
LEMMA Appended ==
    ASSUME TypeOK, NEW s \in Subs, Subscribe(s)
    PROVE  /\ size \in Nat /\ size' = size + 1
           /\ array'[size + 1] = s
           /\ \A i \in 1 .. size : array'[i] = array[i]
  <1>1. Len(array) \in Nat /\ size \in 0 .. Len(array) /\ DOMAIN array = 1 .. Len(array)
    BY DEF TypeOK, Slots
  <1>2. CASE size < Len(array)
    BY <1>1, <1>2 DEF Subscribe
  <1>3. CASE ~(size < Len(array))
    <2>1. size = Len(array)
      BY <1>3 DEF TypeOK, Slots
    <2>2. LeaveArray(Grow(array, s))
      BY <1>3 DEF Subscribe
    <2>3. array' = Grow(array, s)
      BY <2>2 DEF LeaveArray
    <2> QED
      BY ZenonT(40), <1>1, <2>1, <2>3, GrowSlots DEF TypeOK, Subscribe
  <1> QED
    BY <1>2, <1>3

\* The slice follows the subscriptions.
LEMMA SliceStep == IInv /\ [Next]_vars => SliceInv'
  <1> SUFFICES ASSUME IInv, [Next]_vars PROVE SliceInv'
    OBVIOUS
  <1>t. TypeOK /\ SliceInv
    BY DEF IInv
  <1>1. ASSUME NEW s \in Subs, Subscribe(s) PROVE SliceInv'
    <2>1. s \notin Open /\ Open' = Open \cup {s}
      BY <1>t, <1>1, OpenSubscribe
    <2>2. /\ size \in Nat /\ size' = size + 1
          /\ array'[size + 1] = s
          /\ \A i \in 1 .. size : array'[i] = array[i]
      BY <1>t, <1>1, Appended
    <2>3. \A i \in 1 .. size + 1 : i \in 1 .. size \/ i = size + 1
      BY <2>2
    <2>4. \A i \in 1 .. size : array[i] # s
      BY Zenon, <1>t, <2>1 DEF SliceInv
    <2>5. Open' = {array'[i] : i \in 1 .. size'}
      BY <1>t, <2>1, <2>2, <2>3 DEF SliceInv
    <2>6. \A i, j \in 1 .. size' : array'[i] = array'[j] => i = j
      BY <1>t, <2>2, <2>3, <2>4 DEF SliceInv
    <2> QED
      BY <2>5, <2>6 DEF SliceInv
  <1>2. ASSUME NEW s \in Subs, Close(s) PROVE SliceInv'
    <2>1. s \in Open /\ Open' = Open \ {s}
      BY <1>t, <1>2, OpenClose
    <2>2. Len(array) \in Nat /\ size \in 0 .. Len(array) /\ DOMAIN array = 1 .. Len(array)
      BY <1>t DEF TypeOK, Slots
    <2>3. PICK k \in 1 .. size : array[k] = s
      BY <1>t, <2>1 DEF SliceInv
    <2>4. size' = size - 1
      BY <1>2 DEF Close
    <2>5. CASE size > 1
      <3>1. \A i \in 1 .. size : array'[i] = IF i = k THEN array[size] ELSE array[i]
        <4>1. array' = Without(s)
          BY <1>2, <2>5 DEF Close
        <4>2. \A i \in 1 .. size : array[i] = s <=> i = k
          BY Zenon, <1>t, <2>3 DEF SliceInv
        <4> QED
          BY <2>2, <4>1, <4>2 DEF Without
      <3>2. \A i \in 1 .. size' : array'[i] \in Open' /\ array'[i] # s
        BY <1>t, <2>1, <2>2, <2>3, <2>4, <3>1 DEF SliceInv
      <3>3. ASSUME NEW x \in Open' PROVE \E i \in 1 .. size' : array'[i] = x
        <4>1. PICK j \in 1 .. size : array[j] = x /\ j # k
          BY Zenon, <1>t, <2>1, <2>3, <3>3 DEF SliceInv
        <4>2. CASE j = size
          BY <2>2, <2>3, <2>4, <3>1, <4>1, <4>2
        <4>3. CASE j # size
          BY <2>2, <2>4, <3>1, <4>1, <4>3
        <4> QED
          BY <4>2, <4>3
      <3>4. Open' = {array'[i] : i \in 1 .. size'}
        BY <3>2, <3>3
      <3>5. \A i, j \in 1 .. size' : array'[i] = array'[j] => i = j
        BY <1>t, <2>2, <2>3, <2>4, <3>1 DEF SliceInv
      <3> QED
        BY <3>4, <3>5 DEF SliceInv
    <2>6. CASE ~(size > 1)
      <3>1. size = 1 /\ k = 1 /\ size' = 0
        BY <2>2, <2>3, <2>4, <2>6
      <3>2. Open = {s}
        BY <1>t, <2>3, <3>1 DEF SliceInv
      <3>3. Open' = {}
        BY Zenon, <2>1, <3>2
      <3> QED
        BY <3>1, <3>3 DEF SliceInv
    <2> QED
      BY <2>5, <2>6
  <1>3. CASE \/ Notify \/ Disconnect \/ Reconnect \/ BeginWalk \/ WalkOn
             \/ \E s \in Subs : FinishWork(s) \/ BeginWork(s)
             \/ UNCHANGED vars
    BY Zenon, <1>t, <1>3, OpenElse DEF SliceInv
  <1> QED
    BY <1>1, <1>2, <1>3 DEF Next

\* The length of the slice is the number of subscriptions.
LEMMA CountStep == IInv /\ [Next]_vars => CountInv'
  <1> SUFFICES ASSUME IInv, [Next]_vars PROVE CountInv'
    OBVIOUS
  <1>t. TypeOK /\ CountInv
    BY DEF IInv
  <1>1. ASSUME NEW s \in Subs, Subscribe(s) PROVE CountInv'
    <2>1. s \notin Open /\ Open' = Open \cup {s} /\ size' = size + 1
      BY Zenon, <1>t, <1>1, OpenSubscribe DEF Subscribe
    <2> QED
      BY <1>t, <2>1, FS_AddElement DEF CountInv
  <1>2. ASSUME NEW s \in Subs, Close(s) PROVE CountInv'
    <2>1. s \in Open /\ Open' = Open \ {s} /\ size' = size - 1
      BY Zenon, <1>t, <1>2, OpenClose DEF Close
    <2> QED
      BY <1>t, <2>1, FS_RemoveElement DEF CountInv
  <1>3. CASE \/ Notify \/ Disconnect \/ Reconnect \/ BeginWalk \/ WalkOn
             \/ \E s \in Subs : FinishWork(s) \/ BeginWork(s)
             \/ UNCHANGED vars
    BY Zenon, <1>t, <1>3, OpenElse DEF CountInv
  <1> QED
    BY <1>1, <1>2, <1>3 DEF Next
-----------------------------------------------------------------------------
\* What the walk reads after append and close: the copied slice stays within
\* its array, and no slot loses a subscription but the one append writes in
\* place and the closed one's.
LEMMA SeenSubscribe ==
    ASSUME IInv, NEW s \in Subs, Subscribe(s)
    PROVE  /\ Len(Seen') = Len(Seen)
           /\ \/ Seen' = Seen /\ excused' = excused
              \/ excused' = IF Walking THEN excused \cup owed ELSE excused
  <1>t. TypeOK
    BY DEF IInv
  <1>1. CASE size < Len(array)
    <2>1. array' = [array EXCEPT ![size + 1] = s] /\ shared' = shared /\ own' = own
      BY <1>1 DEF Subscribe
    <2>2. Len(array') = Len(array)
      BY <1>t, <2>1 DEF TypeOK, Slots
    <2>3. Len(Seen') = Len(Seen)
      BY <2>1, <2>2 DEF Seen
    <2> QED
      BY Zenon, <1>1, <2>3 DEF Subscribe
  <1>2. CASE ~(size < Len(array))
    BY Zenon, <1>t, <1>2, LeftArray DEF Subscribe
  <1> QED
    BY <1>1, <1>2

\* The same for close.
LEMMA SeenClose ==
    ASSUME IInv, NEW s \in Subs, Close(s)
    PROVE  /\ Len(Seen') = Len(Seen)
           /\ \A i \in 1 .. Len(Seen) : Seen[i] # s => Seen'[i] = Seen[i]
  <1>t. TypeOK
    BY DEF IInv
  <1>1. CASE size > 1
    <2>1. array' = Without(s) /\ shared' = shared /\ own' = own
      BY <1>1 DEF Close
    <2>2. DOMAIN array = 1 .. Len(array)
      BY <1>t DEF TypeOK, Slots
    <2>3. \A i \in 1 .. Len(array) : array[i] # s => array'[i] = array[i]
      BY Zenon, <2>1, <2>2 DEF Without
    <2>4. size > 0
      BY <1>t, <1>1 DEF TypeOK, Slots
    <2>5. Len(array') = Len(array)
      BY Zenon, <1>t, <2>1, <2>4, WithoutSlots
    <2>6. CASE shared
      BY Zenon, <2>1, <2>3, <2>5, <2>6 DEF Seen
    <2>7. CASE ~shared
      BY Zenon, <2>1, <2>7 DEF Seen
    <2> QED
      BY Zenon, <2>6, <2>7
  <1>2. CASE ~(size > 1)
    BY Zenon, <1>t, <1>2, LeftArray DEF Close
  <1> QED
    BY <1>1, <1>2

\* Every step keeps the bounds of the walk.
LEMMA WalkStep == IInv /\ [Next]_vars => WalkInv'
  <1> SUFFICES ASSUME IInv, [Next]_vars PROVE WalkInv'
    OBVIOUS
  <1>t. TypeOK /\ WalkInv
    BY DEF IInv
  <1>1. ASSUME NEW s \in Subs, Subscribe(s) PROVE WalkInv'
    <2>1. walk' = walk /\ stale' = stale
      BY Zenon, <1>1 DEF Subscribe
    <2> QED
      BY Zenon, <1>t, <1>1, <2>1, SeenSubscribe, OpenSubscribe DEF WalkInv
  <1>2. ASSUME NEW s \in Subs, Close(s) PROVE WalkInv'
    <2>1. walk' = walk /\ stale' = stale \ {s}
      BY Zenon, <1>2 DEF Close
    <2> QED
      BY Zenon, <1>t, <1>2, <2>1, SeenClose, OpenClose DEF WalkInv
  <1>3. CASE BeginWalk
    <2>1. Open' = Open /\ array' = array
      BY Zenon, <1>t, <1>3, OpenElse
    <2>2. walk'.len = size /\ shared' = TRUE /\ stale' = stale
      BY <1>3 DEF BeginWalk
    <2>3. Seen' = array
      BY Zenon, <2>1, <2>2 DEF Seen
    <2>4. size <= Len(array)
      BY <1>t DEF TypeOK, Slots
    <2> QED
      BY Zenon, <1>t, <2>1, <2>2, <2>3, <2>4 DEF WalkInv
  <1>4. CASE \/ Notify \/ Disconnect \/ Reconnect \/ WalkOn
             \/ \E s \in Subs : FinishWork(s) \/ BeginWork(s)
             \/ UNCHANGED vars
    <2>1. Open' = Open /\ array' = array
      BY Zenon, <1>t, <1>4, OpenElse
    <2>2. shared' = shared /\ own' = own /\ walk'.len = walk.len
      BY <1>4 DEF Notify, Disconnect, Reconnect, WalkOn, FinishWork, BeginWork, vars, walking
    <2>3. stale' \subseteq stale \/ stale' = Open
      BY Zenon, <1>4 DEF Notify, Disconnect, Reconnect, WalkOn, FinishWork, BeginWork, vars
    <2>4. Seen' = Seen
      BY Zenon, <2>1, <2>2 DEF Seen
    <2> QED
      BY Zenon, <1>t, <2>1, <2>2, <2>3, <2>4 DEF WalkInv
  <1> QED
    BY <1>1, <1>2, <1>3, <1>4 DEF Next
-----------------------------------------------------------------------------
\* No step makes a loop sleep through a change.
LEMMA WakeupStep == IInv /\ [Next]_vars => WakeupInv'
  <1> SUFFICES ASSUME IInv, [Next]_vars, NEW x \in stale' \ excused'
               PROVE  x \in token' \/ (x \in Ahead' /\ x \in owed') \/ queue' > 0
    BY DEF WakeupInv
  <1>t. TypeOK /\ SliceInv /\ WalkInv /\ WakeupInv
    BY DEF IInv
  <1>w. walk.len \in Nat /\ walk.next \in Nat /\ walk.next >= 1 /\ queue \in Nat
    BY <1>t DEF TypeOK
  <1>a. Len(Seen) \in Nat /\ \A i \in walk.next .. walk.len : i \in 1 .. Len(Seen)
    <2>1. Seen \in Slots
      BY <1>t DEF Seen, TypeOK
    <2> QED
      BY <1>t, <1>w, <2>1 DEF WalkInv, Slots
  <1>b. ~Walking => Ahead = {}
    BY <1>w DEF Walking, Ahead
  <1> DEFINE Waits == x \in token \/ (x \in Ahead /\ x \in owed) \/ queue > 0
  <1>v. x \in stale \ excused => Waits
    BY <1>t DEF WakeupInv
  <1> DEFINE Goal == x \in token' \/ (x \in Ahead' /\ x \in owed') \/ queue' > 0
  <1> SUFFICES Goal
    OBVIOUS
  <1>1. ASSUME NEW s \in Subs, Subscribe(s) PROVE Goal
    <2>1. token' = token /\ queue' = queue /\ stale' = stale /\ owed' = owed /\ walk' = walk
      BY <1>1 DEF Subscribe
    <2>2. CASE Seen' = Seen /\ excused' = excused
      <3>1. Ahead' = Ahead
        BY <2>1, <2>2 DEF Ahead
      <3> QED
        BY Zenon, <1>v, <2>1, <2>2, <3>1
    <2>3. CASE excused' = IF Walking THEN excused \cup owed ELSE excused
      BY Zenon, <1>b, <1>v, <2>1, <2>3
    <2> QED
      BY Zenon, <1>1, <2>2, <2>3, SeenSubscribe
  <1>2. ASSUME NEW s \in Subs, Close(s) PROVE Goal
    <2>1. /\ token' = token \ {s} /\ queue' = queue /\ stale' = stale \ {s}
          /\ owed' = owed \ {s} /\ excused' = excused \ {s} /\ walk' = walk
      BY <1>2 DEF Close
    <2>2. x # s /\ Waits
      BY Zenon, <1>v, <2>1
    <2>3. x \in Ahead => x \in Ahead'
      <3>1. \A i \in 1 .. Len(Seen) : Seen[i] # s => Seen'[i] = Seen[i]
        BY Zenon, <1>2, SeenClose
      <3> QED
        BY Zenon, <1>a, <2>1, <2>2, <3>1 DEF Ahead
    <2> QED
      BY Zenon, <2>1, <2>2, <2>3
  <1>3. CASE BeginWalk
    <2>1. /\ token' = token /\ stale' = stale /\ excused' = excused /\ owed' = Open
          /\ walk' = [len |-> size, next |-> 1] /\ shared' = TRUE /\ array' = array
      BY <1>3 DEF BeginWalk
    <2>2. x \in Open
      BY Zenon, <1>t, <2>1 DEF WalkInv
    <2>3. Seen' = array
      BY Zenon, <2>1 DEF Seen
    <2>4. Ahead' = {array[i] : i \in 1 .. size}
      BY Zenon, <2>1, <2>3 DEF Ahead
    <2> QED
      BY Zenon, <1>t, <2>1, <2>2, <2>4 DEF SliceInv
  <1>4. CASE WalkOn
    <2>1. /\ token' = token \cup ({Seen[walk.next]} \cap Open)
          /\ owed' = owed \ {Seen[walk.next]}
          /\ walk' = [len |-> walk.len, next |-> walk.next + 1]
          /\ queue' = queue /\ stale' = stale /\ excused' = excused /\ Seen' = Seen
      BY Zenon, <1>4 DEF WalkOn, Seen
    <2>2. x \in Open /\ Waits
      BY Zenon, <1>t, <1>v, <2>1 DEF WalkInv
    <2>3. CASE x = Seen[walk.next]
      BY Zenon, <2>1, <2>2, <2>3
    <2>4. CASE x # Seen[walk.next]
      <3>1. x \in Ahead => x \in Ahead'
        <4>1. ASSUME NEW i \in walk.next .. walk.len, x = Seen[i]
              PROVE  x \in {Seen[j] : j \in walk.next + 1 .. walk.len}
          BY <1>w, <2>4, <4>1
        <4>2. Ahead' = {Seen[j] : j \in walk.next + 1 .. walk.len}
          BY <2>1 DEF Ahead
        <4> QED
          BY Zenon, <4>1, <4>2 DEF Ahead
      <3> QED
        BY Zenon, <2>1, <2>2, <2>4, <3>1
    <2> QED
      BY Zenon, <2>3, <2>4
  <1>5. CASE Notify
    <2>1. stale' = Open /\ (excused' = Open \/ queue' = queue + 1)
      BY <1>5 DEF Notify
    <2> QED
      BY <1>w, <2>1
  <1>6. CASE Disconnect
    <2>1. /\ ~Walking /\ token' = token /\ stale' = stale
          /\ excused' = IF queue > 0 THEN Open ELSE excused
      BY <1>6 DEF Disconnect
    <2> QED
      BY Zenon, <1>t, <1>b, <1>v, <2>1 DEF WalkInv
  <1>7. CASE Reconnect \/ (\E s \in Subs : FinishWork(s)) \/ UNCHANGED vars
    <2>1. /\ token' = token /\ owed' = owed /\ queue' = queue /\ stale' = stale
          /\ excused' = excused
      BY Zenon, <1>7 DEF Reconnect, FinishWork, vars
    <2>2. Ahead' = Ahead
      BY <1>7 DEF Reconnect, FinishWork, vars, walking, Ahead, Seen
    <2> QED
      BY Zenon, <1>v, <2>1, <2>2
  <1>8. ASSUME NEW s \in Subs, BeginWork(s) PROVE Goal
    <2>1. /\ token \ {s} \subseteq token' /\ owed' = owed /\ queue' = queue
          /\ stale' = stale \ {s} /\ excused' = excused \ {s}
      BY Zenon, <1>8 DEF BeginWork
    <2>2. Ahead' = Ahead
      BY <1>8 DEF BeginWork, walking, Ahead, Seen
    <2> QED
      BY Zenon, <1>v, <2>1, <2>2
  <1> QED
    BY Zenon, <1>1, <1>2, <1>3, <1>4, <1>5, <1>6, <1>7, <1>8 DEF Next

-----------------------------------------------------------------------------
\* The inductive invariant.
THEOREM Invariance == Spec => []IInv
  <1>1. IInv /\ [Next]_vars => IInv'
    BY TypeStep, SliceStep, CountStep, WalkStep, WakeupStep DEF IInv
  <1> QED
    BY <1>1, InitIInv, PTL DEF Spec

\* The slice in the map of signalBus holds the open subscriptions, each once,
\* after any sequence of Subscribe and close, whatever the walks of Notify do
\* in between.
THEOREM RegisteredAlways == Spec => []Registered
  <1>1. IInv => Registered
    BY DEF IInv, SliceInv, CountInv, Registered
  <1> QED
    BY <1>1, Invariance, PTL

\* A change is not slept through: before the message is in the channel of an
\* open loop that has not looked, a notification is on its way to it, unless
\* it was lost with the connection or an append wrote under the walk.
THEOREM WakeupAlways == Spec => []WakeupComes
  <1>1. IInv => WakeupComes
    BY DEF IInv, WakeupInv, WakeupComes
  <1> QED
    BY <1>1, Invariance, PTL
=============================================================================
