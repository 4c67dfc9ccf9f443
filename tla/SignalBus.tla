----------------------------- MODULE SignalBus -----------------------------
(***************************************************************************)
(* The signal bus of one process (pkg/services/signalbus) for one signal   *)
(* name, and the loops that subscribe to it: reconcilers (pkg/workers) and *)
(* the deployment watches of connector agents.                             *)
(*                                                                         *)
(* PgSignalBus.Notify goes through the database: pg_notify, and in every   *)
(* process a listener goroutine that calls Notify of the in-memory bus.    *)
(* That Notify copies a Go slice under the lock and walks it without.  The *)
(* copy shares its backing array with the slice in the map, which close    *)
(* and append write in place: array is that backing array (its length is   *)
(* the capacity) and size the length of the slice.  When append or delete  *)
(* leave the old array behind, nobody writes it any more, and own is what  *)
(* the walk still sees.                                                    *)
(*                                                                         *)
(* A subscription is closed once and a new one is a new object: each       *)
(* member of Subs is used once.                                            *)
(***************************************************************************)
EXTENDS Integers, Sequences, FiniteSets

CONSTANTS
    Subs,        \* Subscription objects, with the loop that waits on each
    Nil,         \* an array slot never used
    MaxQueue,    \* notifications on their way to the listener
    MaxSignals   \* calls of Notify

ASSUME NilAssumption == Nil \notin Subs
ASSUME BoundAssumption == MaxQueue \in Nat \ {0} /\ MaxSignals \in Nat

VARIABLES
    array, size,  \* signals[name]
    state,        \* each loop: "new", "work", "wait", "closed"
    token,        \* subscriptions whose channel c holds a message
    queue,        \* notifications the listener has not taken yet
    up,           \* the listener is connected
    sent,         \* calls of Notify so far
    \* The listener's walk in signalBus.Notify:
    walk,         \* [len, next] of the copied slice, next > len when done
    shared,       \* the copied slice still points to array
    own,          \* else its own backing array
    \* What happened, for the properties:
    stale,        \* loops that have not looked since the last change
    owed,         \* subscriptions the walk has to notify
    excused       \* loops that may miss a change: see WakeupComes

walking == <<walk, shared, own>>
vars == <<array, size, state, token, queue, up, sent, walk, shared, own, stale,
          owed, excused>>

Slots == Seq(Subs \cup {Nil})

TypeOK ==
    /\ array \in Slots /\ size \in 0 .. Len(array)
    /\ state \in [Subs -> {"new", "work", "wait", "closed"}]
    /\ token \in SUBSET Subs
    /\ queue \in 0 .. MaxQueue /\ up \in BOOLEAN /\ sent \in 0 .. MaxSignals
    /\ walk \in [len : Nat, next : Nat \ {0}]
    /\ shared \in BOOLEAN /\ own \in Slots
    /\ stale \in SUBSET Subs /\ owed \in SUBSET Subs /\ excused \in SUBSET Subs

-----------------------------------------------------------------------------
Open == {s \in Subs : state[s] \in {"work", "wait"}}
Walking == walk.next <= walk.len
\* The array the walk reads, and the subscriptions it has not come to.
Seen == IF shared THEN array ELSE own
Ahead == {Seen[i] : i \in walk.next .. walk.len}

Init ==
    /\ array = <<>> /\ size = 0
    /\ state = [s \in Subs |-> "new"]
    /\ token = {} /\ queue = 0 /\ up = TRUE /\ sent = 0
    /\ walk = [len |-> 0, next |-> 1] /\ shared = FALSE /\ own = <<>>
    /\ stale = {} /\ owed = {} /\ excused = {}

\* Go's append: in place as long as there is capacity, else a copy in an
\* array twice as long.
Grow(a, s) ==
    LET cap == IF Len(a) = 0 THEN 1 ELSE 2 * Len(a)
    IN  [i \in 1 .. cap |-> IF i <= Len(a) THEN a[i]
                            ELSE IF i = Len(a) + 1 THEN s ELSE Nil]

\* The slice of the map moves to another array: the walk keeps the old one.
LeaveArray(a) ==
    /\ array' = a
    /\ shared' = FALSE
    /\ own' = IF shared THEN array ELSE own

\* Subscribe, then the first reconcile or the first list of the watch.
Subscribe(s) ==
    /\ state[s] = "new"
    /\ state' = [state EXCEPT ![s] = "work"]
    /\ size' = size + 1
    /\ IF size < Len(array)
       THEN /\ array' = [array EXCEPT ![size + 1] = s]
            /\ excused' = IF Walking THEN excused \cup owed ELSE excused
            /\ UNCHANGED <<shared, own>>
       ELSE LeaveArray(Grow(array, s)) /\ UNCHANGED excused
    /\ UNCHANGED <<token, queue, up, sent, walk, stale, owed>>

\* Mutant: the last item is dropped instead of moved.
Without_DropLast(s) == array

\* close: the last item replaces s.
Without(s) == [i \in DOMAIN array |->
                 IF i <= size /\ array[i] = s THEN array[size] ELSE array[i]]

\* A loop ends; Subscription.Close.  The last subscription takes the slice
\* out of the map.
Close(s) ==
    /\ s \in Open
    /\ state' = [state EXCEPT ![s] = "closed"]
    /\ size' = size - 1
    /\ IF size > 1
       THEN array' = Without(s) /\ UNCHANGED <<shared, own>>
       ELSE LeaveArray(<<>>)
    /\ token' = token \ {s} /\ stale' = stale \ {s}
    /\ owed' = owed \ {s} /\ excused' = excused \ {s}
    /\ UNCHANGED <<queue, up, sent, walk>>

-----------------------------------------------------------------------------
\* PgSignalBus.Notify, called after a change has been committed.  Without a
\* listener, or if pg_notify fails, this process does not hear of it.
Notify ==
    /\ sent < MaxSignals /\ sent' = sent + 1
    /\ stale' = Open
    /\ \/ /\ up /\ queue < MaxQueue
          /\ queue' = queue + 1 /\ UNCHANGED excused
       \/ queue' = queue /\ excused' = Open
    /\ UNCHANGED <<array, size, state, token, up, walking, owed>>

\* The connection breaks (the closed channel, or Ping after 90 seconds): run
\* returns and the listener with its notifications is gone.  A walk that has
\* begun is finished first.
Disconnect ==
    /\ up /\ ~Walking
    /\ up' = FALSE /\ queue' = 0
    /\ excused' = IF queue > 0 THEN Open ELSE excused
    /\ UNCHANGED <<array, size, state, token, sent, walking, stale, owed>>

\* Ten seconds later run listens again.
Reconnect ==
    /\ ~up /\ up' = TRUE
    /\ UNCHANGED <<array, size, state, token, queue, sent, walking, stale, owed,
                   excused>>

\* waitForNotification takes a notification; signalBus.Notify copies the
\* slice under the read lock.
BeginWalk ==
    /\ up /\ queue > 0 /\ ~Walking
    /\ queue' = queue - 1
    /\ walk' = [len |-> size, next |-> 1]
    /\ shared' = TRUE /\ own' = <<>>
    /\ owed' = Open
    /\ UNCHANGED <<array, size, state, token, up, sent, stale, excused>>

\* The next item of the copied slice, as the backing array holds it now, gets
\* a message unless its channel holds one.  Nobody receives from a closed
\* subscription.
WalkOn ==
    /\ Walking
    /\ walk' = [len |-> walk.len, next |-> walk.next + 1]
    /\ token' = token \cup ({Seen[walk.next]} \cap Open)
    /\ owed' = owed \ {Seen[walk.next]}
    /\ UNCHANGED <<array, size, state, queue, up, sent, shared, own, stale, excused>>

\* Mutant: the message is taken when the work is over.
FinishWork_Drain(s) ==
    /\ state[s] = "work"
    /\ state' = [state EXCEPT ![s] = "wait"]
    /\ token' = token \ {s}
    /\ UNCHANGED <<array, size, queue, up, sent, walking, stale, owed, excused>>

\* runReconcile returns; the watch has nothing more to send.
FinishWork(s) ==
    /\ state[s] = "work"
    /\ state' = [state EXCEPT ![s] = "wait"]
    /\ UNCHANGED <<array, size, token, queue, up, sent, walking, stale, owed,
                   excused>>

\* The select of the loop: the signal is received, or the ticker (the
\* timeout, a Wakeup) fires and the message stays in the channel.
BeginWork(s) ==
    /\ state[s] = "wait"
    /\ state' = [state EXCEPT ![s] = "work"]
    /\ token' \in {token, token \ {s}} /\ (s \notin token => token' = token)
    /\ stale' = stale \ {s} /\ excused' = excused \ {s}
    /\ UNCHANGED <<array, size, queue, up, sent, walking, owed>>

Next ==
    \/ Notify \/ Disconnect \/ Reconnect \/ BeginWalk \/ WalkOn
    \/ \E s \in Subs : Subscribe(s) \/ Close(s) \/ FinishWork(s) \/ BeginWork(s)

Spec == Init /\ [][Next]_vars

-----------------------------------------------------------------------------
\* Subscribe and close keep the slice in step with the subscriptions: it
\* holds exactly the open ones, each once.
Registered ==
    /\ size = Cardinality(Open)
    /\ Open = {array[i] : i \in 1 .. size}

\* A change is not slept through: between the last look of an open loop and
\* the message in its channel there is always a notification on its way (in
\* the database, or ahead of the walk).  There are three exceptions: the
\* notification was lost with the connection or not sent, or, in
\* signalBus.Notify, an append wrote the array while it was walked.
WakeupComes ==
    \A s \in stale \ excused : s \in token \/ s \in Ahead \/ queue > 0

\* "Notify will notify all the subscriptions created for the given named
\* signal": a subscription that is open when Notify begins and when it ends
\* has been notified.
NotifiesAll == ~Walking => owed = {}
=============================================================================
