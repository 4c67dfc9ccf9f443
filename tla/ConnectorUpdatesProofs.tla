----------------------- MODULE ConnectorUpdatesProofs -----------------------
(***************************************************************************)
(* Theorems about ConnectorUpdates, for any number of connectors, changes, *)
(* restarts and broken connections.                                        *)
(***************************************************************************)
EXTENDS ConnectorUpdates, FiniteSetTheorems, TLAPS

\* A list of rows, as a set and in order.
Elems(s) == {s[i] : i \in 1..Len(s)}
Sorted(s) == \A i, j \in 1..Len(s) : i < j => s[i].ver < s[j].ver

\* The list of rows has version v of row c, or only older versions.
Listed(s, c, v) ==
    \/ \E r \in Elems(s) : r.c = c /\ r.ver = v
    \/ \A r \in Elems(s) : r.ver < v

\* The values of a sequence are unique, committed or not, and grow in a row.
VersionInv ==
    \A c \in Connectors :
        /\ pending[c] # 0 => pending[c] > conn[c].ver
        /\ \A d \in Connectors \ {c} : /\ conn[c].ver # conn[d].ver
                                       /\ pending[c] # conn[d].ver
                                       /\ pending[c] # 0 => pending[c] # pending[d]

DVersionInv ==
    \A c \in Connectors :
        /\ dpending[c] # 0 => dpending[c] > dep[c].ver
        /\ dep[c].ver # 0 \/ dpending[c] # 0 => dep[c].cver # 0
        /\ \A d \in Connectors \ {c} : /\ dep[c].ver # 0 => dep[c].ver # dep[d].ver
                                       /\ dpending[c] # 0 => dpending[c] # dep[d].ver
                                       /\ dpending[c] # 0 => dpending[c] # dpending[d]

\* What the reconciler has at hand was in the table, in the order of versions.
RowsInv ==
    /\ Sorted(worker.rows)
    /\ \A r \in Elems(worker.rows) : r.ver <= conn[r.c].ver
    /\ worker.lastVersion = 0 \/ \E c \in Connectors : worker.lastVersion <= conn[c].ver

ItemsInv ==
    /\ Sorted(watch.items)
    /\ \A i \in Elems(watch.items) :
          \/ i.ver < dep[i.c].ver
          \/ i.ver = dep[i.c].ver /\ i.cver = dep[i.c].cver
    /\ watch.gt = 0 \/ \E c \in Connectors : watch.gt <= dep[c].ver

\* A deployment that lags behind is ahead of the reconciler, and its turn comes
\* before lastVersion passes it.
Stale(c) == conn[c].phase = "assigned" /\ conn[c].ver # dep[c].cver

WorkerInv ==
    "worker" \notin missed =>
        /\ \A c \in Connectors : Stale(c) => conn[c].ver > worker.lastVersion
        /\ worker.pass = "updated" =>
              \A c \in Connectors : Stale(c) => Listed(worker.rows, c, conn[c].ver)
        /\ \A r \in Elems(worker.rows) :
              conn[r.c].ver # r.ver =>
                 /\ worker.pass = "assigning" => conn[r.c].ver > worker.lastVersion
                 /\ \A q \in Elems(worker.rows) : q.ver < conn[r.c].ver

WatchInv ==
    "watch" \notin missed =>
        /\ \A c \in Connectors :
              known[c] # dep[c].cver => /\ dep[c].ver > watch.gt
                                        /\ Listed(watch.items, c, dep[c].ver)
        /\ \A i \in Elems(watch.items) :
              dep[i.c].ver # i.ver => \A q \in Elems(watch.items) : q.ver < dep[i.c].ver

IInv == TypeOK /\ VersionInv /\ DVersionInv /\ RowsInv /\ ItemsInv /\ WorkerInv /\ WatchInv

-----------------------------------------------------------------------------
(* Lists of rows.                                                          *)

\* A list of rows of a table is one of any larger table.
LEMMA SeqGrows ==
    ASSUME NEW A, NEW B, A \subseteq B, NEW s \in Seq(A)
    PROVE  s \in Seq(B)
  OBVIOUS

\* The elements of a list are of its type.
LEMMA ElemsType ==
    ASSUME NEW S, NEW s \in Seq(S)
    PROVE  Elems(s) \subseteq S
  BY DEF Elems

\* Nothing is listed in the empty list.
LEMMA NoElems ==
    /\ Elems(<<>>) = {} /\ Sorted(<<>>)
    /\ \A S : <<>> \in Seq(S)
    /\ \A c, v : Listed(<<>>, c, v)
  BY DEF Elems, Sorted, Listed

\* The head of an ordered list is its oldest row; the rest stays ordered.
LEMMA HeadAndTail ==
    ASSUME NEW S, NEW s \in Seq(S), s # <<>>
    PROVE  /\ Head(s) \in S /\ Head(s) \in Elems(s)
           /\ Tail(s) \in Seq(S)
           /\ Elems(Tail(s)) \subseteq Elems(s)
           /\ \A r \in Elems(s) : r = Head(s) \/ r \in Elems(Tail(s))
           /\ Sorted(s) => /\ Sorted(Tail(s))
                           /\ \A r \in Elems(Tail(s)) : Head(s).ver < r.ver
  <1>1. /\ Len(s) \in Nat \ {0} /\ Head(s) = s[1] /\ Tail(s) \in Seq(S)
        /\ Len(Tail(s)) = Len(s) - 1
        /\ \A i \in 1..Len(s) - 1 : Tail(s)[i] = s[i + 1]
        /\ \A i \in 1..Len(s) : s[i] \in S
    OBVIOUS
  <1>2. Head(s) \in S /\ Head(s) \in Elems(s)
    BY <1>1 DEF Elems
  <1>3. Elems(Tail(s)) \subseteq Elems(s)
    BY <1>1 DEF Elems
  <1>4. ASSUME NEW r \in Elems(s), r # Head(s) PROVE r \in Elems(Tail(s))
    <2>1. PICK i \in 1..Len(s) : r = s[i]
      BY DEF Elems
    <2>2. i - 1 \in 1..Len(Tail(s)) /\ Tail(s)[i - 1] = s[i]
      BY <1>1, <1>4, <2>1
    <2> QED
      BY ZenonT(40), <2>1, <2>2 DEF Elems
  <1>5. ASSUME Sorted(s) PROVE Sorted(Tail(s)) /\ \A r \in Elems(Tail(s)) : Head(s).ver < r.ver
    BY <1>1, <1>5 DEF Sorted, Elems
  <1> QED
    BY <1>1, <1>2, <1>3, <1>4, <1>5

\* A query gives all the rows it selects, in the order of their versions.
LEMMA ListingFacts ==
    ASSUME NEW rows, IsFiniteSet(rows), NEW s \in Listings(rows)
    PROVE  s \in Seq(rows) /\ Elems(s) = rows /\ Sorted(s)
  <1>1. Cardinality(rows) \in Nat
    BY FS_CardinalityType
  <1>2. s \in [1..Cardinality(rows) -> rows] /\ \A r \in rows : \E i \in DOMAIN s : s[i] = r
    BY DEF Listings, Answers
  <1>3. s \in Seq(rows) /\ Len(s) = Cardinality(rows) /\ DOMAIN s = 1..Len(s)
    BY <1>1, <1>2
  <1>4. Elems(s) = rows
    BY <1>2, <1>3 DEF Elems
  <1>5. Sorted(s)
    BY <1>3 DEF Listings, Sorted
  <1> QED
    BY <1>3, <1>4, <1>5

\* The connectors that a query selects are finitely many, and so are their rows.
LEMMA FiniteRows ==
    ASSUME NEW S \in SUBSET Connectors
    PROVE  IsFiniteSet(Rows(S)) /\ IsFiniteSet(Items(S))
  <1>1. IsFiniteSet(S)
    BY ConnectorsAssumption, FS_Subset
  <1>2. IsFiniteSet(Rows(S))
    <2> DEFINE f == [c \in S |-> [c |-> c, ver |-> conn[c].ver]]
    <2>1. f \in Surjection(S, Rows(S))
      BY DEF Rows, Surjection
    <2> QED
      BY <1>1, <2>1, FS_Surjection
  <1>3. IsFiniteSet(Items(S))
    <2> DEFINE f == [c \in S |-> [c |-> c, ver |-> dep[c].ver, cver |-> dep[c].cver]]
    <2>1. f \in Surjection(S, Items(S))
      BY DEF Items, Surjection
    <2> QED
      BY <1>1, <2>1, FS_Surjection
  <1> QED
    BY <1>2, <1>3

-----------------------------------------------------------------------------
\* The initial states: the versions of the connectors just created differ.
LEMMA InitIInv == Init => IInv
  <1> SUFFICES ASSUME Init PROVE IInv
    OBVIOUS
  <1> USE DEF Init
  <1>1. Cardinality(Connectors) \in Nat
    BY ConnectorsAssumption, FS_CardinalityType
  <1>2. TypeOK
    BY <1>1, NoElems, UpdateBounds DEF TypeOK
  <1>3. VersionInv /\ DVersionInv
    BY <1>1 DEF VersionInv, DVersionInv
  <1>4. RowsInv /\ ItemsInv
    BY NoElems DEF RowsInv, ItemsInv
  <1>5. WorkerInv /\ WatchInv
    BY NoElems DEF WorkerInv, WatchInv, Stale
  <1> QED
    BY <1>2, <1>3, <1>4, <1>5 DEF IInv

-----------------------------------------------------------------------------
\* The parts of TypeOK: the tables, ...
LEMMA Tables ==
    ASSUME TypeOK
    PROVE  /\ seq \in Nat /\ dseq \in Nat
           /\ \A c \in Connectors :
                 /\ conn[c].ver \in Nat /\ 1 <= conn[c].ver /\ conn[c].ver <= seq
                 /\ pending[c] \in Nat /\ pending[c] <= seq
                 /\ dep[c].ver \in Nat /\ dep[c].ver <= dseq
                 /\ dep[c].cver \in Nat /\ dep[c].cver <= seq
                 /\ dpending[c] \in Nat /\ dpending[c] <= dseq
  BY DEF TypeOK

\* ... the reconciler, ...
LEMMA WorkerSeq ==
    ASSUME TypeOK
    PROVE  worker.rows \in Seq([c : Connectors, ver : 1..seq])
  BY DEF TypeOK

\* The rows that the worker holds are typed.
LEMMA WorkerTyped ==
    ASSUME TypeOK
    PROVE  /\ worker.lastVersion \in Nat /\ worker.lastVersion <= seq
           /\ worker.pass \in {"assigning", "updated"}
           /\ \A r \in Elems(worker.rows) : /\ r.c \in Connectors
                                            /\ r.ver \in Nat /\ 1 <= r.ver /\ r.ver <= seq
  <1>1. /\ seq \in Nat
        /\ worker.lastVersion \in 0..seq /\ worker.pass \in {"assigning", "updated"}
    BY DEF TypeOK
  <1>2. Elems(worker.rows) \subseteq [c : Connectors, ver : 1..seq]
    BY Zenon, WorkerSeq, ElemsType
  <1> QED
    BY <1>1, <1>2

\* ... and the watch.
LEMMA WatchSeq ==
    ASSUME TypeOK
    PROVE  watch.items \in Seq([c : Connectors, ver : 1..dseq, cver : 1..seq])
  BY DEF TypeOK

\* The page that the watch holds is typed.
LEMMA WatchTyped ==
    ASSUME TypeOK
    PROVE  /\ watch.gt \in Nat /\ watch.gt <= dseq
           /\ \A i \in Elems(watch.items) : /\ i.c \in Connectors
                                            /\ i.ver \in Nat /\ 1 <= i.ver /\ i.ver <= dseq
                                            /\ i.cver \in Nat /\ 1 <= i.cver /\ i.cver <= seq
  <1>1. watch.gt \in 0..dseq /\ seq \in Nat /\ dseq \in Nat
    BY DEF TypeOK
  <1>2. Elems(watch.items) \subseteq [c : Connectors, ver : 1..dseq, cver : 1..seq]
    BY Zenon, WatchSeq, ElemsType
  <1> QED
    BY <1>1, <1>2

\* A write takes the next version; nobody sees it yet.
LEMMA WriteStep ==
    ASSUME IInv, NEW c \in Connectors, NEW phase \in {"assigning", "assigned", "deleting"},
           WriteConnector(c, phase)
    PROVE  IInv'
  <1>1. TypeOK /\ VersionInv /\ DVersionInv /\ RowsInv /\ ItemsInv /\ WorkerInv /\ WatchInv
    BY DEF IInv
  <1>2. /\ seq' = seq + 1 /\ UNCHANGED <<dseq, dep, dpending, upgrades, worker, watch, known, faults, missed>>
        /\ pending' = [pending EXCEPT ![c] = seq + 1]
        /\ conn' = [conn EXCEPT ![c].phase = phase]
        /\ phase \in {conn[c].phase, "deleting"}
    BY DEF WriteConnector
  <1>3. \A d \in Connectors : /\ conn'[d].ver = conn[d].ver
                              /\ conn'[d].phase = "assigned" => conn[d].phase = "assigned"
    BY ZenonT(40), <1>1, <1>2 DEF TypeOK
  <1>4. TypeOK'
    <2>0. seq \in Nat /\ seq' \in Nat /\ seq <= seq' /\ dseq \in Nat
      BY <1>1, <1>2, Tables
    <2>1. worker.rows \in Seq([c : Connectors, ver : 1..seq'])
      <3>1. worker.rows \in Seq([c : Connectors, ver : 1..seq])
        BY <1>1, WorkerSeq
      <3>2. [c : Connectors, ver : 1..seq] \subseteq [c : Connectors, ver : 1..seq']
        BY <2>0
      <3> QED
        BY ZenonT(40), <3>1, <3>2, SeqGrows
    <2>2. watch.items \in Seq([c : Connectors, ver : 1..dseq, cver : 1..seq'])
      <3>1. watch.items \in Seq([c : Connectors, ver : 1..dseq, cver : 1..seq])
        BY <1>1, WatchSeq
      <3>2. [c : Connectors, ver : 1..dseq, cver : 1..seq]
               \subseteq [c : Connectors, ver : 1..dseq, cver : 1..seq']
        BY <2>0
      <3> QED
        BY ZenonT(40), <3>1, <3>2, SeqGrows
    <2>3. conn' \in [Connectors -> [ver : 1..seq', phase : {"assigning", "assigned", "deleting"}]]
      <3>1. conn \in [Connectors -> [ver : 1..seq', phase : {"assigning", "assigned", "deleting"}]]
        <4>1. conn \in [Connectors -> [ver : 1..seq, phase : {"assigning", "assigned", "deleting"}]]
          BY <1>1 DEF TypeOK
        <4>2. [ver : 1..seq, phase : {"assigning", "assigned", "deleting"}]
                 \subseteq [ver : 1..seq', phase : {"assigning", "assigned", "deleting"}]
          BY <2>0
        <4> QED
          BY <4>1, <4>2
      <3> QED
        BY <1>2, <3>1
    <2>4. /\ pending' \in [Connectors -> 0..seq']
          /\ dep' \in [Connectors -> [ver : 0..dseq', cver : 0..seq']]
          /\ known' \in [Connectors -> 0..seq']
      <3>1. 0..seq \subseteq 0..seq' /\ seq + 1 \in 0..seq' /\ dseq' = dseq
        BY <1>2, <2>0
      <3>2. [ver : 0..dseq, cver : 0..seq] \subseteq [ver : 0..dseq, cver : 0..seq']
        BY <3>1
      <3>3. /\ pending \in [Connectors -> 0..seq] /\ known \in [Connectors -> 0..seq]
            /\ dep \in [Connectors -> [ver : 0..dseq, cver : 0..seq]]
        BY Zenon, <1>1 DEF TypeOK
      <3>4. pending' \in [Connectors -> 0..seq'] /\ known' \in [Connectors -> 0..seq']
        BY <1>2, <3>1, <3>3
      <3>5. dep' \in [Connectors -> [ver : 0..dseq', cver : 0..seq']]
        BY <1>2, <3>1, <3>2, <3>3
      <3> QED
        BY <3>4, <3>5
    <2>5. /\ worker' \in [lastVersion : 0..seq', pass : {"assigning", "updated"},
                          rows : Seq([c : Connectors, ver : 1..seq'])]
          /\ watch' \in [gt : 0..dseq', items : Seq([c : Connectors, ver : 1..dseq', cver : 1..seq'])]
      BY <1>1, <1>2, <2>1, <2>2 DEF TypeOK
    <2> QED
      BY Zenon, <1>1, <1>2, <2>0, <2>3, <2>4, <2>5 DEF TypeOK
  <1>5. VersionInv'
    <2>1. /\ pending'[c] = seq + 1
          /\ \A d \in Connectors \ {c} : pending'[d] = pending[d]
      BY <1>1, <1>2 DEF TypeOK
    <2> QED
      BY <1>1, <1>3, <2>1, Tables DEF VersionInv
  <1>6. DVersionInv'
    BY <1>1, <1>2 DEF DVersionInv
  <1>7. RowsInv' /\ ItemsInv'
    BY Zenon, <1>1, <1>2, <1>3, WorkerTyped DEF RowsInv, ItemsInv
  <1>8. WorkerInv'
    BY <1>1, <1>2, <1>3, WorkerTyped DEF WorkerInv, Stale
  <1>9. WatchInv'
    BY <1>1, <1>2 DEF WatchInv
  <1> QED
    BY Zenon, <1>4, <1>5, <1>6, <1>7, <1>8, <1>9 DEF IInv

\* A commit that is not late makes its version the newest one of the table, so
\* it is ahead of lastVersion and of every row at hand.
LEMMA CommitStep ==
    ASSUME IInv, NEW c \in Connectors, CommitConnector(c)
    PROVE  IInv'
  <1>1. TypeOK /\ VersionInv /\ DVersionInv /\ RowsInv /\ ItemsInv /\ WorkerInv /\ WatchInv
    BY DEF IInv
  <1>2. /\ pending[c] # 0 /\ Miss("worker", Late(conn, pending[c]))
        /\ conn' = [conn EXCEPT ![c].ver = pending[c]]
        /\ pending' = [pending EXCEPT ![c] = 0]
        /\ UNCHANGED <<seq, dseq, dep, dpending, upgrades, worker, watch, known, faults>>
    BY DEF CommitConnector
  <1>3. /\ conn'[c].ver = pending[c] /\ pending[c] > conn[c].ver
        /\ \A d \in Connectors : conn'[d].phase = conn[d].phase
        /\ \A d \in Connectors \ {c} : conn'[d] = conn[d] /\ conn[d].ver # pending[c]
    BY ZenonT(40), <1>1, <1>2 DEF TypeOK, VersionInv
  <1>4. TypeOK'
    <2>1. pending[c] \in 1..seq
      BY <1>1, <1>2, Tables
    <2>2. conn' \in [Connectors -> [ver : 1..seq, phase : {"assigning", "assigned", "deleting"}]]
      BY ZenonT(40), <1>1, <1>2, <2>1 DEF TypeOK
    <2>3. pending' \in [Connectors -> 0..seq] /\ missed' \subseteq {"worker", "watch"}
      BY <1>1, <1>2, <2>1 DEF TypeOK, Miss
    <2> QED
      BY Zenon, <1>1, <1>2, <2>2, <2>3 DEF TypeOK
  <1>5. VersionInv'
    <2>1. pending'[c] = 0 /\ \A d \in Connectors \ {c} : pending'[d] = pending[d]
      BY <1>1, <1>2 DEF TypeOK
    <2> QED
      BY <1>1, <1>3, <2>1, Tables DEF VersionInv
  <1>6. DVersionInv' /\ ItemsInv'
    BY <1>1, <1>2 DEF DVersionInv, ItemsInv
  <1>7. RowsInv'
    BY <1>1, <1>2, <1>3, Tables, WorkerTyped DEF RowsInv
  <1>8. ASSUME "worker" \notin missed'
        PROVE  /\ "worker" \notin missed
               /\ pending[c] > worker.lastVersion
               /\ \A r \in Elems(worker.rows) : r.ver < pending[c]
    <2>1. "worker" \notin missed /\ ~Late(conn, pending[c])
      BY Zenon, <1>2, <1>8 DEF Miss
    <2>2. \A d \in Connectors : conn[d].ver < pending[c]
      BY <2>1, <1>1, <1>3, Tables DEF Late
    <2>3. pending[c] > worker.lastVersion
      BY <2>2, <1>1, Tables, WorkerTyped DEF RowsInv
    <2>4. \A r \in Elems(worker.rows) : r.ver < pending[c]
      BY <2>2, <1>1, Tables, WorkerTyped DEF RowsInv
    <2> QED
      BY <2>1, <2>2, <2>3, <2>4
  <1>9. WorkerInv'
    <2> SUFFICES ASSUME "worker" \notin missed' PROVE WorkerInv!2'
      BY DEF WorkerInv
    <2>1. \A d \in Connectors \ {c} : Stale(d)' => Stale(d)
      BY <1>2, <1>3 DEF Stale
    <2>2. \A d \in Connectors : Stale(d)' => conn'[d].ver > worker'.lastVersion
      BY Zenon, <1>1, <1>2, <1>3, <1>8, <2>1 DEF WorkerInv
    <2>3. ASSUME worker'.pass = "updated", NEW d \in Connectors, Stale(d)'
          PROVE  Listed(worker.rows, d, conn'[d].ver)
      <3>1. CASE d = c
        BY Zenon, <3>1, <1>3, <1>8 DEF Listed
      <3>2. CASE d # c
        BY Zenon, <3>2, <1>1, <1>2, <1>3, <1>8, <2>1, <2>3 DEF WorkerInv
      <3> QED
        BY <3>1, <3>2
    <2>4. ASSUME NEW r \in Elems(worker.rows), conn'[r.c].ver # r.ver
          PROVE  /\ worker'.pass = "assigning" => conn'[r.c].ver > worker'.lastVersion
                 /\ \A q \in Elems(worker.rows) : q.ver < conn'[r.c].ver
      BY Zenon, <2>4, <1>1, <1>2, <1>3, <1>8, WorkerTyped DEF WorkerInv
    <2> QED
      BY Zenon, <1>2, <2>2, <2>3, <2>4
  <1>10. WatchInv'
    BY <1>1, <1>2 DEF WatchInv, Miss
  <1> QED
    BY Zenon, <1>4, <1>5, <1>6, <1>7, <1>9, <1>10 DEF IInv

-----------------------------------------------------------------------------
\* The sequence of the deployments goes on: what was of its type stays so.
LEMMA DeploymentsGrow ==
    ASSUME TypeOK, dseq' = dseq + 1, UNCHANGED <<seq, watch>>
    PROVE  /\ dseq' \in Nat /\ 0..dseq \subseteq 0..dseq' /\ dseq + 1 \in 0..dseq'
           /\ [ver : 0..dseq, cver : 0..seq] \subseteq [ver : 0..dseq', cver : 0..seq']
           /\ watch' \in [gt : 0..dseq', items : Seq([c : Connectors, ver : 1..dseq', cver : 1..seq'])]
  <1>1. dseq \in Nat /\ dseq' \in Nat /\ 0..dseq \subseteq 0..dseq' /\ dseq + 1 \in 0..dseq'
    BY Tables
  <1>2. [ver : 0..dseq, cver : 0..seq] \subseteq [ver : 0..dseq', cver : 0..seq']
    BY <1>1
  <1>3. [c : Connectors, ver : 1..dseq, cver : 1..seq]
           \subseteq [c : Connectors, ver : 1..dseq', cver : 1..seq']
    BY <1>1
  <1>4. watch.items \in Seq([c : Connectors, ver : 1..dseq, cver : 1..seq])
    BY WatchSeq
  <1>5. watch.items \in Seq([c : Connectors, ver : 1..dseq', cver : 1..seq'])
    <2> DEFINE A == [c : Connectors, ver : 1..dseq, cver : 1..seq]
               B == [c : Connectors, ver : 1..dseq', cver : 1..seq']
    <2>1. A \subseteq B /\ watch.items \in Seq(A)
      BY <1>3, <1>4
    <2>2. watch.items \in Seq(B)
      <3> HIDE DEF A, B
      <3> QED
        BY <2>1, SeqGrows
    <2> QED
      BY <2>2
  <1>6. watch' \in [gt : 0..dseq', items : Seq([c : Connectors, ver : 1..dseq', cver : 1..seq'])]
    <2>1. watch = [gt |-> watch.gt, items |-> watch.items] /\ watch.gt \in 0..dseq
      BY DEF TypeOK
    <2> QED
      BY <1>1, <1>5, <2>1
  <1> QED
    BY <1>1, <1>2, <1>6

\* A change by an administrator takes the next version of the deployments.
LEMMA UpdateStep ==
    ASSUME IInv, NEW c \in Connectors, UpdateDeployment(c)
    PROVE  IInv'
  <1>1. TypeOK /\ VersionInv /\ DVersionInv /\ RowsInv /\ ItemsInv /\ WorkerInv /\ WatchInv
    BY DEF IInv
  <1>2. /\ dep[c].ver # 0 /\ upgrades < MaxUpgrades /\ upgrades' = upgrades + 1
        /\ dseq' = dseq + 1 /\ dpending' = [dpending EXCEPT ![c] = dseq + 1]
        /\ UNCHANGED <<seq, conn, pending, dep, worker, watch, known, faults, missed>>
    BY DEF UpdateDeployment
  <1>3. TypeOK'
    <2>1. /\ dseq' \in Nat /\ 0..dseq \subseteq 0..dseq' /\ dseq + 1 \in 0..dseq'
          /\ [ver : 0..dseq, cver : 0..seq] \subseteq [ver : 0..dseq', cver : 0..seq']
          /\ watch' \in [gt : 0..dseq', items : Seq([c : Connectors, ver : 1..dseq', cver : 1..seq'])]
      BY Zenon, <1>1, <1>2, DeploymentsGrow
    <2>2. dpending \in [Connectors -> 0..dseq] /\ dep \in [Connectors -> [ver : 0..dseq, cver : 0..seq]]
      BY Zenon, <1>1 DEF TypeOK
    <2>3. /\ dpending' \in [Connectors -> 0..dseq']
          /\ dep' \in [Connectors -> [ver : 0..dseq', cver : 0..seq']]
      BY <1>2, <2>1, <2>2
    <2>4. upgrades' \in 0..MaxUpgrades
      BY <1>1, <1>2, UpdateBounds DEF TypeOK
    <2> QED
      BY Zenon, <1>1, <1>2, <2>1, <2>3, <2>4 DEF TypeOK
  <1>4. DVersionInv'
    <2>1. dpending'[c] = dseq + 1 /\ \A d \in Connectors \ {c} : dpending'[d] = dpending[d]
      BY Zenon, <1>1, <1>2 DEF TypeOK
    <2> QED
      BY <1>1, <1>2, <2>1, Tables DEF DVersionInv
  <1>5. VersionInv' /\ RowsInv' /\ ItemsInv'
    BY Zenon, <1>1, <1>2 DEF VersionInv, RowsInv, ItemsInv
  <1>6. WorkerInv' /\ WatchInv'
    BY <1>1, <1>2 DEF WorkerInv, WatchInv, Stale
  <1> QED
    BY Zenon, <1>3, <1>4, <1>5, <1>6 DEF IInv

\* The same for the deployments: a commit that is not late is ahead of gt_version
\* and of every item at hand.
LEMMA CommitDeploymentStep ==
    ASSUME IInv, NEW c \in Connectors, CommitDeployment(c)
    PROVE  IInv'
  <1>1. TypeOK /\ VersionInv /\ DVersionInv /\ RowsInv /\ ItemsInv /\ WorkerInv /\ WatchInv
    BY DEF IInv
  <1>2. /\ dpending[c] # 0 /\ Miss("watch", Late(dep, dpending[c]))
        /\ dep' = [dep EXCEPT ![c].ver = dpending[c]]
        /\ dpending' = [dpending EXCEPT ![c] = 0]
        /\ UNCHANGED <<seq, conn, pending, dseq, upgrades, worker, watch, known, faults>>
    BY DEF CommitDeployment
  <1>3. /\ dep'[c].ver = dpending[c] /\ dpending[c] > dep[c].ver
        /\ \A d \in Connectors : dep'[d].cver = dep[d].cver
        /\ \A d \in Connectors \ {c} : dep'[d] = dep[d] /\ dep[d].ver # dpending[c]
    BY ZenonT(40), <1>1, <1>2 DEF TypeOK, DVersionInv
  <1>4. TypeOK'
    <2>1. dpending[c] \in 0..dseq
      BY <1>1, Tables
    <2>2. dep' \in [Connectors -> [ver : 0..dseq, cver : 0..seq]]
      BY ZenonT(40), <1>1, <1>2, <2>1 DEF TypeOK
    <2>3. dpending' \in [Connectors -> 0..dseq]
      BY <1>1, <1>2, Tables DEF TypeOK
    <2>4. missed' \subseteq {"worker", "watch"}
      BY Zenon, <1>1, <1>2 DEF TypeOK, Miss
    <2> QED
      BY Zenon, <1>1, <1>2, <2>2, <2>3, <2>4 DEF TypeOK
  <1>5. DVersionInv'
    <2>1. dpending'[c] = 0 /\ \A d \in Connectors \ {c} : dpending'[d] = dpending[d]
      BY <1>1, <1>2 DEF TypeOK
    <2>2. dep[c].cver # 0
      BY <1>1, <1>2 DEF DVersionInv
    <2> QED
      BY <1>1, <1>3, <2>1, <2>2, Tables DEF DVersionInv
  <1>6. VersionInv' /\ RowsInv'
    BY Zenon, <1>1, <1>2 DEF VersionInv, RowsInv
  <1>7. ItemsInv'
    BY <1>1, <1>2, <1>3, Tables, WatchTyped DEF ItemsInv
  <1>8. WorkerInv'
    BY Zenon, <1>1, <1>2, <1>3 DEF WorkerInv, Stale, Miss
  <1>9. WatchInv'
    <2> SUFFICES ASSUME "watch" \notin missed' PROVE WatchInv!2'
      BY DEF WatchInv
    <2>1. "watch" \notin missed /\ ~Late(dep, dpending[c])
      BY Zenon, <1>2 DEF Miss
    <2>2. \A e \in Connectors : dep[e].ver < dpending[c]
      BY <2>1, <1>1, <1>3, Tables DEF Late
    <2>3. dpending[c] > watch.gt
      BY <2>2, <1>1, <1>2, Tables, WatchTyped DEF ItemsInv
    <2>4. \A i \in Elems(watch.items) : i.ver < dpending[c]
      BY <2>2, <1>1, Tables, WatchTyped DEF ItemsInv
    <2>5. ASSUME NEW d \in Connectors, known[d] # dep'[d].cver
          PROVE  dep'[d].ver > watch.gt /\ Listed(watch.items, d, dep'[d].ver)
      <3>1. CASE d = c
        BY Zenon, <3>1, <1>3, <2>3, <2>4 DEF Listed
      <3>2. CASE d # c
        BY Zenon, <2>1, <2>5, <3>2, <1>1, <1>3 DEF WatchInv
      <3> QED
        BY Zenon, <3>1, <3>2
    <2>6. ASSUME NEW i \in Elems(watch.items), dep'[i.c].ver # i.ver
          PROVE  \A q \in Elems(watch.items) : q.ver < dep'[i.c].ver
      <3>1. CASE i.c = c
        BY Zenon, <3>1, <1>3, <2>4
      <3>2. CASE i.c # c
        BY Zenon, <2>1, <2>6, <3>2, <1>1, <1>3, WatchTyped DEF WatchInv
      <3> QED
        BY Zenon, <3>1, <3>2
    <2> QED
      BY Zenon, <1>2, <2>5, <2>6
  <1> QED
    BY Zenon, <1>4, <1>5, <1>6, <1>7, <1>8, <1>9 DEF IInv

-----------------------------------------------------------------------------
\* A pass lists every deployment that lags behind.
LEMMA StartStep ==
    ASSUME IInv, StartPass
    PROVE  IInv'
  <1> DEFINE pass == IF worker.pass = "assigning" THEN "updated" ELSE "assigning"
  <1>1. TypeOK /\ VersionInv /\ DVersionInv /\ RowsInv /\ ItemsInv /\ WorkerInv /\ WatchInv
    BY DEF IInv
  <1>2. PICK rows \in Listings(Rows(Selected(pass))) :
            worker' = [worker EXCEPT !.pass = pass, !.rows = rows]
    BY Zenon DEF StartPass
  <1>3. UNCHANGED <<db, watch, known, faults, missed>>
    BY DEF StartPass
  <1>4. UNCHANGED <<seq, conn, pending, dseq, dep, dpending, upgrades, watch, known, faults, missed>>
    BY <1>3 DEF db
  <1>5. Selected(pass) \in SUBSET Connectors
    BY DEF Selected
  <1>6. rows \in Seq(Rows(Selected(pass))) /\ Elems(rows) = Rows(Selected(pass)) /\ Sorted(rows)
    BY Zenon, <1>5, FiniteRows, ListingFacts
  <1>7. Rows(Selected(pass)) \subseteq [c : Connectors, ver : 1..seq]
    BY <1>1, <1>5 DEF Rows, TypeOK
  <1>8. rows \in Seq([c : Connectors, ver : 1..seq])
    BY ZenonT(40), <1>6, <1>7, SeqGrows
  <1>9. /\ worker'.rows = rows /\ worker'.pass = pass /\ worker'.lastVersion = worker.lastVersion
        /\ worker' = [lastVersion |-> worker.lastVersion, pass |-> pass, rows |-> rows]
    <2>1. worker = [lastVersion |-> worker.lastVersion, pass |-> worker.pass, rows |-> worker.rows]
      BY Zenon, <1>1 DEF TypeOK
    <2> QED
      BY Zenon, <1>2, <2>1
  <1>10. TypeOK'
    <2>1. worker.lastVersion \in 0..seq /\ pass \in {"assigning", "updated"}
      BY <1>1 DEF TypeOK
    <2>2. worker' \in [lastVersion : 0..seq, pass : {"assigning", "updated"},
                       rows : Seq([c : Connectors, ver : 1..seq])]
      BY Zenon, <1>8, <1>9, <2>1
    <2> QED
      BY Zenon, <1>1, <1>4, <2>2 DEF TypeOK
  <1>11. VersionInv' /\ DVersionInv' /\ ItemsInv'
    BY ZenonT(40), <1>1, <1>4 DEF VersionInv, DVersionInv, ItemsInv
  <1>12. \A r \in Elems(rows) : r.c \in Connectors /\ r.ver = conn[r.c].ver
    BY <1>5, <1>6 DEF Rows
  <1>13. RowsInv'
    BY <1>1, <1>4, <1>6, <1>9, <1>12, Tables DEF RowsInv
  <1>14. WorkerInv'
    <2> SUFFICES ASSUME "worker" \notin missed PROVE WorkerInv!2'
      BY <1>4 DEF WorkerInv
    <2>1. \A c \in Connectors : Stale(c)' <=> Stale(c)
      BY Zenon, <1>4 DEF Stale
    <2>2. \A c \in Connectors : Stale(c) => conn[c].ver > worker.lastVersion
      BY Zenon, <1>1 DEF WorkerInv
    <2>3. ASSUME pass = "updated", NEW c \in Connectors, Stale(c)
          PROVE  Listed(rows, c, conn[c].ver)
      <3>1. c \in Selected(pass)
        BY Zenon, <2>2, <2>3 DEF Selected, Stale
      <3>2. [c |-> c, ver |-> conn[c].ver] \in Elems(rows)
        BY Zenon, <1>6, <3>1 DEF Rows
      <3> QED
        BY Zenon, <3>2 DEF Listed
    <2> QED
      BY Zenon, <1>4, <1>9, <1>12, <2>1, <2>2, <2>3
  <1>15. WatchInv'
    BY Zenon, <1>1, <1>4 DEF WatchInv
  <1> QED
    BY Zenon, <1>10, <1>11, <1>13, <1>14, <1>15 DEF IInv

\* SaveDeployment gives a deployment the newest version, so that it is ahead of
\* gt_version and of every item at hand.
LEMMA SaveFacts ==
    ASSUME IInv, NEW c \in Connectors, NEW v \in 1..seq,
           dpending[c] = 0, dseq' = dseq + 1,
           dep' = [dep EXCEPT ![c] = [ver |-> dseq + 1, cver |-> v]],
           UNCHANGED <<seq, dpending, watch, known, missed>>
    PROVE  /\ dseq' \in Nat
           /\ dep' \in [Connectors -> [ver : 0..dseq', cver : 0..seq']]
           /\ dpending' \in [Connectors -> 0..dseq']
           /\ watch' \in [gt : 0..dseq', items : Seq([c : Connectors, ver : 1..dseq', cver : 1..seq'])]
           /\ DVersionInv' /\ ItemsInv' /\ WatchInv'
  <1>1. TypeOK /\ DVersionInv /\ ItemsInv /\ WatchInv
    BY DEF IInv
  <1>2. /\ dseq' \in Nat /\ 0..dseq \subseteq 0..dseq' /\ dseq + 1 \in 0..dseq'
        /\ [ver : 0..dseq, cver : 0..seq] \subseteq [ver : 0..dseq', cver : 0..seq']
        /\ watch' \in [gt : 0..dseq', items : Seq([c : Connectors, ver : 1..dseq', cver : 1..seq'])]
    BY Zenon, <1>1, DeploymentsGrow
  <1>3. /\ dep \in [Connectors -> [ver : 0..dseq, cver : 0..seq]]
        /\ dpending \in [Connectors -> 0..dseq]
    BY Zenon, <1>1 DEF TypeOK
  <1>4. dpending' \in [Connectors -> 0..dseq']
    BY <1>2, <1>3
  <1>5. dep' \in [Connectors -> [ver : 0..dseq', cver : 0..seq']]
    <2>1. v \in 0..seq'
      BY <1>1, Tables
    <2>2. [ver |-> dseq + 1, cver |-> v] \in [ver : 0..dseq', cver : 0..seq']
      BY <1>2, <2>1
    <2>3. dep \in [Connectors -> [ver : 0..dseq', cver : 0..seq']]
      BY Zenon, <1>2, <1>3
    <2> QED
      BY <2>2, <2>3
  <1>6. /\ dep'[c].ver = dseq + 1 /\ dep'[c].cver = v
        /\ \A d \in Connectors \ {c} : dep'[d] = dep[d]
    BY Zenon, <1>3
  <1>7. DVersionInv'
    BY <1>1, <1>6, Tables DEF DVersionInv
  <1>8. ItemsInv'
    BY <1>1, <1>6, Tables, WatchTyped DEF ItemsInv
  <1>9. WatchInv'
    <2> SUFFICES ASSUME "watch" \notin missed PROVE WatchInv!2'
      BY Zenon DEF WatchInv
    <2>1. watch.gt < dseq + 1 /\ \A i \in Elems(watch.items) : i.c \in Connectors /\ i.ver < dseq + 1
      BY <1>1, Tables, WatchTyped
    <2>2. ASSUME NEW d \in Connectors, known[d] # dep'[d].cver
          PROVE  dep'[d].ver > watch.gt /\ Listed(watch.items, d, dep'[d].ver)
      <3>1. CASE d = c
        BY Zenon, <3>1, <1>6, <2>1 DEF Listed
      <3>2. CASE d # c
        BY Zenon, <2>2, <3>2, <1>1, <1>6 DEF WatchInv
      <3> QED
        BY Zenon, <3>1, <3>2
    <2>3. ASSUME NEW i \in Elems(watch.items), dep'[i.c].ver # i.ver
          PROVE  \A q \in Elems(watch.items) : q.ver < dep'[i.c].ver
      <3>1. CASE i.c = c
        BY Zenon, <3>1, <1>6, <2>1
      <3>2. CASE i.c # c
        BY Zenon, <2>1, <2>3, <3>2, <1>1, <1>6 DEF WatchInv
      <3> QED
        BY Zenon, <3>1, <3>2
    <2> QED
      BY Zenon, <2>2, <2>3
  <1> QED
    BY Zenon, <1>2, <1>4, <1>5, <1>7, <1>8, <1>9

\* The next row of a pass, and the rest.
LEMMA RowFacts ==
    ASSUME TypeOK, RowsInv, worker.rows # <<>>
    PROVE  LET row == Head(worker.rows) IN
           /\ row \in Elems(worker.rows) /\ row.c \in Connectors /\ row.ver \in 1..seq
           /\ row.ver <= conn[row.c].ver
           /\ Tail(worker.rows) \in Seq([c : Connectors, ver : 1..seq]) /\ Sorted(Tail(worker.rows))
           /\ Elems(Tail(worker.rows)) \subseteq Elems(worker.rows)
           /\ \A r \in Elems(worker.rows) : r = row \/ r \in Elems(Tail(worker.rows))
           /\ \A r \in Elems(Tail(worker.rows)) : row.ver < r.ver
  <1>1. worker.rows \in Seq([c : Connectors, ver : 1..seq]) /\ Sorted(worker.rows)
    BY WorkerSeq DEF RowsInv
  <1>2. /\ Head(worker.rows) \in [c : Connectors, ver : 1..seq] /\ Head(worker.rows) \in Elems(worker.rows)
        /\ Tail(worker.rows) \in Seq([c : Connectors, ver : 1..seq])
        /\ Elems(Tail(worker.rows)) \subseteq Elems(worker.rows)
        /\ \A r \in Elems(worker.rows) : r = Head(worker.rows) \/ r \in Elems(Tail(worker.rows))
        /\ Sorted(Tail(worker.rows))
        /\ \A r \in Elems(Tail(worker.rows)) : Head(worker.rows).ver < r.ver
    BY Zenon, <1>1, HeadAndTail
  <1> QED
    BY <1>2 DEF RowsInv

\* A new connector is assigned with the version of the list; when it changed
\* since, the change is ahead of lastVersion.
LEMMA AssignStep ==
    ASSUME IInv, reconcileAssigning
    PROVE  IInv'
  <1> DEFINE row == Head(worker.rows)
             rest == Tail(worker.rows)
  <1>1. TypeOK /\ VersionInv /\ DVersionInv /\ RowsInv /\ ItemsInv /\ WorkerInv /\ WatchInv
    BY DEF IInv
  <1>2. /\ worker.rows # <<>> /\ worker.pass = "assigning" /\ dpending[row.c] = 0 /\ dseq' = dseq + 1
        /\ dep' = [dep EXCEPT ![row.c] = [ver |-> dseq + 1, cver |-> row.ver]]
        /\ conn' = [conn EXCEPT ![row.c].phase = "assigned"]
        /\ worker' = [worker EXCEPT !.rows = Tail(@)]
        /\ UNCHANGED <<seq, pending, dpending, upgrades, watch, known, faults, missed>>
    BY Zenon DEF reconcileAssigning, NextRow, SaveDeployment
  <1>3. /\ row \in Elems(worker.rows) /\ row.c \in Connectors /\ row.ver \in 1..seq
        /\ rest \in Seq([c : Connectors, ver : 1..seq]) /\ Sorted(rest)
        /\ Elems(rest) \subseteq Elems(worker.rows)
    BY Zenon, <1>1, <1>2, RowFacts
  <1>4. PICK c \in Connectors : c = row.c
    BY <1>3
  <1>5. PICK v \in 1..seq : v = row.ver
    BY <1>3
  <1>6. /\ dseq' \in Nat
        /\ dep' \in [Connectors -> [ver : 0..dseq', cver : 0..seq']]
        /\ dpending' \in [Connectors -> 0..dseq']
        /\ watch' \in [gt : 0..dseq', items : Seq([c : Connectors, ver : 1..dseq', cver : 1..seq'])]
        /\ DVersionInv' /\ ItemsInv' /\ WatchInv'
    BY ZenonT(40), <1>2, <1>4, <1>5, SaveFacts
  <1>7. /\ dep'[c].cver = v /\ \A d \in Connectors \ {c} : dep'[d] = dep[d] /\ conn'[d] = conn[d]
        /\ \A d \in Connectors : conn'[d].ver = conn[d].ver
        /\ conn' \in [Connectors -> [ver : 1..seq, phase : {"assigning", "assigned", "deleting"}]]
    <2>1. /\ dep' = [dep EXCEPT ![c] = [ver |-> dseq + 1, cver |-> v]]
          /\ conn' = [conn EXCEPT ![c].phase = "assigned"]
      BY Zenon, <1>2, <1>4, <1>5
    <2>2. /\ dep \in [Connectors -> [ver : 0..dseq, cver : 0..seq]]
          /\ conn \in [Connectors -> [ver : 1..seq, phase : {"assigning", "assigned", "deleting"}]]
      BY Zenon, <1>1 DEF TypeOK
    <2>3. dep'[c].cver = v /\ \A d \in Connectors \ {c} : dep'[d] = dep[d]
      BY <2>1, <2>2
    <2>4. /\ \A d \in Connectors \ {c} : conn'[d] = conn[d]
          /\ \A d \in Connectors : conn'[d].ver = conn[d].ver
          /\ conn' \in [Connectors -> [ver : 1..seq, phase : {"assigning", "assigned", "deleting"}]]
      BY <2>1, <2>2
    <2> QED
      BY Zenon, <2>3, <2>4
  <1>8. /\ worker' = [lastVersion |-> worker.lastVersion, pass |-> "assigning", rows |-> rest]
        /\ worker'.rows = rest /\ worker'.pass = "assigning" /\ worker'.lastVersion = worker.lastVersion
    <2>1. worker = [lastVersion |-> worker.lastVersion, pass |-> worker.pass, rows |-> worker.rows]
      BY <1>1 DEF TypeOK
    <2> QED
      BY Zenon, <1>2, <2>1
  <1>9. TypeOK'
    <2>1. worker.lastVersion \in 0..seq
      BY Zenon, <1>1 DEF TypeOK
    <2>2. worker' \in [lastVersion : 0..seq, pass : {"assigning", "updated"},
                       rows : Seq([c : Connectors, ver : 1..seq])]
      BY Zenon, <1>3, <1>8, <2>1
    <2> QED
      BY ZenonT(40), <1>1, <1>2, <1>6, <1>7, <2>2 DEF TypeOK
  <1>10. VersionInv'
    <2>1. pending' = pending /\ \A d \in Connectors : conn'[d].ver = conn[d].ver
      BY Zenon, <1>2, <1>7
    <2> QED
      BY Zenon, <1>1, <2>1 DEF VersionInv
  <1>11. RowsInv'
    BY ZenonT(40), <1>1, <1>3, <1>7, <1>8, WorkerTyped DEF RowsInv
  <1>12. WorkerInv'
    <2> SUFFICES ASSUME "worker" \notin missed PROVE WorkerInv!2'
      BY Zenon, <1>2 DEF WorkerInv
    <2>1. /\ \A d \in Connectors : Stale(d) => conn[d].ver > worker.lastVersion
          /\ \A r \in Elems(worker.rows) :
                conn[r.c].ver # r.ver => /\ conn[r.c].ver > worker.lastVersion
                                         /\ \A q \in Elems(worker.rows) : q.ver < conn[r.c].ver
      BY Zenon, <1>1, <1>2 DEF WorkerInv
    <2>2. \A d \in Connectors : Stale(d)' => conn'[d].ver > worker.lastVersion
      <3> SUFFICES ASSUME NEW d \in Connectors, Stale(d)'
                   PROVE  conn'[d].ver > worker.lastVersion
        BY Zenon
      <3>1. CASE d = c
        <4>1. conn[c].ver # v
          BY Zenon, <3>1, <1>7 DEF Stale
        <4> QED
          BY Zenon, <3>1, <4>1, <1>3, <1>4, <1>5, <1>7, <2>1
      <3>2. CASE d # c
        BY Zenon, <3>2, <1>7, <2>1 DEF Stale
      <3> QED
        BY Zenon, <3>1, <3>2
    <2>3. \A r \in Elems(rest) :
             conn'[r.c].ver # r.ver => /\ conn'[r.c].ver > worker.lastVersion
                                       /\ \A q \in Elems(rest) : q.ver < conn'[r.c].ver
      BY Zenon, <1>1, <1>3, <1>7, <2>1, WorkerTyped
    <2> QED
      BY ZenonT(40), <1>8, <2>2, <2>3
  <1> QED
    BY Zenon, <1>6, <1>9, <1>10, <1>11, <1>12 DEF IInv

\* lastVersion moves to the oldest version that is left, so it passes over none
\* that lags behind.
LEMMA ReconcileStep ==
    ASSUME IInv, reconcileConnectorUpdate
    PROVE  IInv'
  <1> DEFINE row == Head(worker.rows)
             rest == Tail(worker.rows)
  <1>1. TypeOK /\ VersionInv /\ DVersionInv /\ RowsInv /\ ItemsInv /\ WorkerInv /\ WatchInv
    BY DEF IInv
  <1>2. /\ worker.rows # <<>> /\ worker.pass = "updated"
        /\ worker' = [worker EXCEPT !.rows = Tail(@), !.lastVersion = row.ver]
        /\ UNCHANGED <<seq, conn, pending, dpending, upgrades, watch, known, faults, missed>>
    BY DEF reconcileConnectorUpdate, NextRow
  <1>3. IF dep[row.c].cver # row.ver
        THEN /\ dpending[row.c] = 0 /\ dseq' = dseq + 1
             /\ dep' = [dep EXCEPT ![row.c] = [ver |-> dseq + 1, cver |-> row.ver]]
        ELSE UNCHANGED <<dseq, dep>>
    BY DEF reconcileConnectorUpdate, SaveDeployment
  <1>4. /\ row \in Elems(worker.rows) /\ row.c \in Connectors /\ row.ver \in 1..seq
        /\ row.ver <= conn[row.c].ver
        /\ rest \in Seq([c : Connectors, ver : 1..seq]) /\ Sorted(rest)
        /\ Elems(rest) \subseteq Elems(worker.rows)
        /\ \A r \in Elems(worker.rows) : r = row \/ r \in Elems(rest)
        /\ \A r \in Elems(rest) : row.ver < r.ver
    BY <1>1, <1>2, RowFacts
  <1>5. PICK c \in Connectors : c = row.c
    BY <1>4
  <1>6. PICK v \in 1..seq : v = row.ver
    BY <1>4
  <1>7. /\ dseq' \in Nat
        /\ dep' \in [Connectors -> [ver : 0..dseq', cver : 0..seq']]
        /\ dpending' \in [Connectors -> 0..dseq']
        /\ watch' \in [gt : 0..dseq', items : Seq([c : Connectors, ver : 1..dseq', cver : 1..seq'])]
        /\ DVersionInv' /\ ItemsInv' /\ WatchInv'
    <2>1. CASE dep[row.c].cver # row.ver
      BY Zenon, <1>2, <1>3, <1>5, <1>6, <2>1, SaveFacts
    <2>2. CASE dep[row.c].cver = row.ver
      <3>1. UNCHANGED <<dseq, dep, seq, dpending, watch, known, missed>>
        BY <1>2, <1>3, <2>2
      <3>2. DVersionInv' /\ ItemsInv' /\ WatchInv'
        BY ZenonT(40), <1>1, <3>1 DEF DVersionInv, ItemsInv, WatchInv
      <3> QED
        BY Zenon, <1>1, <3>1, <3>2 DEF TypeOK
    <2> QED
      BY <2>1, <2>2
  <1>8. dep'[c].cver = v /\ \A d \in Connectors \ {c} : dep'[d] = dep[d]
    <2>1. CASE dep[row.c].cver # row.ver
      <3>1. dep' = [dep EXCEPT ![c] = [ver |-> dseq + 1, cver |-> v]]
        BY Zenon, <1>3, <1>5, <1>6, <2>1
      <3>2. dep \in [Connectors -> [ver : 0..dseq, cver : 0..seq]]
        BY Zenon, <1>1 DEF TypeOK
      <3> QED
        BY Zenon, <3>1, <3>2
    <2>2. CASE dep[row.c].cver = row.ver
      BY <1>3, <1>5, <1>6, <2>2
    <2> QED
      BY <2>1, <2>2
  <1>9. /\ worker' = [lastVersion |-> v, pass |-> "updated", rows |-> rest]
        /\ worker'.rows = rest /\ worker'.pass = "updated" /\ worker'.lastVersion = v
    <2>1. worker = [lastVersion |-> worker.lastVersion, pass |-> worker.pass, rows |-> worker.rows]
      BY <1>1 DEF TypeOK
    <2> QED
      BY Zenon, <1>2, <1>6, <2>1
  <1>10. TypeOK'
    <2>1. v \in 0..seq
      BY <1>1, Tables
    <2>2. worker' \in [lastVersion : 0..seq, pass : {"assigning", "updated"},
                       rows : Seq([c : Connectors, ver : 1..seq])]
      BY Zenon, <1>4, <1>9, <2>1
    <2> QED
      BY Zenon, <1>1, <1>2, <1>7, <2>2 DEF TypeOK
  <1>11. VersionInv'
    BY Zenon, <1>1, <1>2 DEF VersionInv
  <1>12. RowsInv'
    BY Zenon, <1>1, <1>2, <1>4, <1>5, <1>6, <1>9 DEF RowsInv
  <1>13. WorkerInv'
    <2> SUFFICES ASSUME "worker" \notin missed PROVE WorkerInv!2'
      BY Zenon, <1>2 DEF WorkerInv
    <2>1. \A r \in Elems(worker.rows) :
             conn[r.c].ver # r.ver => \A q \in Elems(worker.rows) : q.ver < conn[r.c].ver
      BY <1>1 DEF WorkerInv
    <2>2. ASSUME NEW d \in Connectors, Stale(d)'
          PROVE  conn[d].ver > v /\ Listed(rest, d, conn[d].ver)
      <3>1. conn[d].phase = "assigned" /\ conn[d].ver # dep'[d].cver
        BY Zenon, <1>2, <2>2 DEF Stale
      <3>2. CASE d = c
        <4>1. conn[d].ver > v
          BY <1>1, <1>4, <1>5, <1>6, <1>8, <3>1, <3>2, Tables
        <4>2. \A q \in Elems(rest) : q.ver < conn[d].ver
          BY Zenon, <1>4, <1>5, <1>6, <1>8, <2>1, <3>1, <3>2
        <4> QED
          BY Zenon, <4>1, <4>2 DEF Listed
      <3>3. CASE d # c
        <4>1. Stale(d)
          BY Zenon, <1>8, <3>1, <3>3 DEF Stale
        <4>2. Listed(worker.rows, d, conn[d].ver)
          BY Zenon, <1>1, <1>2, <4>1 DEF WorkerInv
        <4> QED
          BY Zenon, <1>4, <1>5, <1>6, <3>3, <4>2 DEF Listed
      <3> QED
        BY <3>2, <3>3
    <2> QED
      BY Zenon, <1>2, <1>4, <1>9, <2>1, <2>2
  <1> QED
    BY <1>7, <1>10, <1>11, <1>12, <1>13 DEF IInv

\* A row that fails is passed over, and counts as missed.
LEMMA FailedRowStep ==
    ASSUME IInv, FailedRow
    PROVE  IInv'
  <1> DEFINE rest == Tail(worker.rows)
  <1>1. TypeOK /\ VersionInv /\ DVersionInv /\ RowsInv /\ ItemsInv /\ WorkerInv /\ WatchInv
    BY DEF IInv
  <1>2. /\ worker.rows # <<>> /\ worker' = [worker EXCEPT !.rows = Tail(@)]
        /\ UNCHANGED <<seq, conn, pending, dseq, dep, dpending, upgrades, watch, known>>
    BY DEF FailedRow, db
  <1>3. missed' = missed \cup {"worker"} /\ faults < MaxFaults /\ faults' = faults + 1
    BY DEF FailedRow, Miss, Fault
  <1>4. /\ rest \in Seq([c : Connectors, ver : 1..seq]) /\ Sorted(rest)
        /\ Elems(rest) \subseteq Elems(worker.rows)
    BY <1>1, <1>2, RowFacts
  <1>5. /\ worker' = [lastVersion |-> worker.lastVersion, pass |-> worker.pass, rows |-> rest]
        /\ worker'.rows = rest /\ worker'.lastVersion = worker.lastVersion
    <2>1. worker = [lastVersion |-> worker.lastVersion, pass |-> worker.pass, rows |-> worker.rows]
      BY <1>1 DEF TypeOK
    <2> QED
      BY Zenon, <1>2, <2>1
  <1>6. TypeOK'
    <2>1. worker.lastVersion \in 0..seq /\ worker.pass \in {"assigning", "updated"}
      BY Zenon, <1>1 DEF TypeOK
    <2>2. worker' \in [lastVersion : 0..seq, pass : {"assigning", "updated"},
                       rows : Seq([c : Connectors, ver : 1..seq])]
      BY Zenon, <1>4, <1>5, <2>1
    <2>3. missed' \subseteq {"worker", "watch"} /\ faults' \in 0..MaxFaults
      BY <1>1, <1>3, UpdateBounds DEF TypeOK
    <2> QED
      BY Zenon, <1>1, <1>2, <2>2, <2>3 DEF TypeOK
  <1>7. VersionInv' /\ DVersionInv' /\ ItemsInv'
    BY <1>1, <1>2 DEF VersionInv, DVersionInv, ItemsInv
  <1>8. RowsInv'
    BY Zenon, <1>1, <1>2, <1>4, <1>5 DEF RowsInv
  <1>9. WorkerInv' /\ WatchInv'
    BY Zenon, <1>1, <1>2, <1>3 DEF WorkerInv, WatchInv
  <1> QED
    BY <1>6, <1>7, <1>8, <1>9 DEF IInv

\* A new process starts from version 0, so that it misses nothing.
LEMMA RestartStep ==
    ASSUME IInv, Restart
    PROVE  IInv'
  <1>1. TypeOK /\ VersionInv /\ DVersionInv /\ RowsInv /\ ItemsInv /\ WorkerInv /\ WatchInv
    BY DEF IInv
  <1>2. /\ worker' = [lastVersion |-> 0, pass |-> "updated", rows |-> <<>>]
        /\ UNCHANGED <<seq, conn, pending, dseq, dep, dpending, upgrades, watch, known>>
    BY DEF Restart, db
  <1>3. missed' = missed \ {"worker"} /\ faults < MaxFaults /\ faults' = faults + 1
    BY Zenon DEF Restart, Fault
  <1>4. TypeOK'
    <2>1. missed' \subseteq {"worker", "watch"} /\ faults' \in 0..MaxFaults
      BY <1>1, <1>3, UpdateBounds DEF TypeOK
    <2>2. worker' \in [lastVersion : 0..seq, pass : {"assigning", "updated"},
                       rows : Seq([c : Connectors, ver : 1..seq])]
      BY <1>1, <1>2, NoElems, Tables
    <2> QED
      BY Zenon, <1>1, <1>2, <2>1, <2>2 DEF TypeOK
  <1>5. VersionInv' /\ DVersionInv' /\ ItemsInv'
    BY ZenonT(40), <1>1, <1>2 DEF VersionInv, DVersionInv, ItemsInv
  <1>6. RowsInv'
    BY Zenon, <1>2, NoElems DEF RowsInv
  <1>7. WorkerInv'
    <2>1. \A c \in Connectors : conn'[c].ver > 0
      BY <1>1, <1>2, Tables
    <2> QED
      BY Zenon, <1>2, <2>1, NoElems DEF WorkerInv
  <1>8. WatchInv'
    BY Zenon, <1>1, <1>2, <1>3 DEF WatchInv
  <1> QED
    BY Zenon, <1>4, <1>5, <1>6, <1>7, <1>8 DEF IInv

-----------------------------------------------------------------------------
\* The watch lists every deployment that the agent does not know.
LEMMA ListStep ==
    ASSUME IInv, ListConnectorDeployments
    PROVE  IInv'
  <1> DEFINE S == {c \in Connectors : dep[c].ver > watch.gt}
  <1>1. TypeOK /\ VersionInv /\ DVersionInv /\ RowsInv /\ ItemsInv /\ WorkerInv /\ WatchInv
    BY DEF IInv
  <1>2. PICK items \in Listings(Items(S)) : watch' = [watch EXCEPT !.items = items]
    BY Zenon DEF ListConnectorDeployments
  <1>3. UNCHANGED <<seq, conn, pending, dseq, dep, dpending, upgrades, worker, known, faults, missed>>
    BY Zenon DEF ListConnectorDeployments, db
  <1>4. items \in Seq(Items(S)) /\ Elems(items) = Items(S) /\ Sorted(items)
    BY Zenon, FiniteRows, ListingFacts
  <1>5. \A c \in S : /\ dep[c].ver \in 1..dseq /\ dep[c].cver \in 1..seq
    BY <1>1, Tables, WatchTyped DEF DVersionInv
  <1>6. Items(S) \subseteq [c : Connectors, ver : 1..dseq, cver : 1..seq]
    BY <1>5 DEF Items
  <1>7. items \in Seq([c : Connectors, ver : 1..dseq, cver : 1..seq])
    BY Zenon, <1>4, <1>6, SeqGrows
  <1>8. watch' = [gt |-> watch.gt, items |-> items] /\ watch.gt \in 0..dseq
    BY Zenon, <1>1, <1>2 DEF TypeOK
  <1>9. TypeOK'
    <2>1. watch' \in [gt : 0..dseq, items : Seq([c : Connectors, ver : 1..dseq, cver : 1..seq])]
      BY <1>7, <1>8
    <2> QED
      BY Zenon, <1>1, <1>3, <2>1 DEF TypeOK
  <1>10. VersionInv' /\ DVersionInv' /\ RowsInv'
    BY Zenon, <1>1, <1>3 DEF VersionInv, DVersionInv, RowsInv
  <1>11. WorkerInv'
    BY Zenon, <1>1, <1>3 DEF WorkerInv, Stale
  <1>12. ItemsInv'
    <2>1. \A i \in Elems(items) : i.ver = dep[i.c].ver /\ i.cver = dep[i.c].cver
      BY <1>4 DEF Items
    <2> QED
      BY Zenon, <1>1, <1>3, <1>4, <1>8, <2>1 DEF ItemsInv
  <1>13. WatchInv'
    <2>1. ASSUME "watch" \notin missed, NEW c \in Connectors, known[c] # dep[c].cver
          PROVE  dep[c].ver > watch.gt /\ Listed(items, c, dep[c].ver)
      <3>1. c \in S
        BY Zenon, <1>1, <2>1 DEF WatchInv
      <3>2. [c |-> c, ver |-> dep[c].ver, cver |-> dep[c].cver] \in Elems(items)
        BY Zenon, <1>4, <3>1 DEF Items
      <3> QED
        BY Zenon, <3>1, <3>2 DEF Listed
    <2>2. \A i \in Elems(items) : i.ver = dep[i.c].ver
      BY <1>4 DEF Items
    <2> QED
      BY Zenon, <1>3, <1>8, <2>1, <2>2 DEF WatchInv
  <1> QED
    BY Zenon, <1>9, <1>10, <1>11, <1>12, <1>13 DEF IInv

\* The next item of the watch, and the rest.
LEMMA ItemFacts ==
    ASSUME TypeOK, ItemsInv, watch.items # <<>>
    PROVE  LET item == Head(watch.items) IN
           /\ item \in Elems(watch.items)
           /\ item \in [c : Connectors, ver : 1..dseq, cver : 1..seq]
           /\ Tail(watch.items) \in Seq([c : Connectors, ver : 1..dseq, cver : 1..seq])
           /\ Sorted(Tail(watch.items))
           /\ Elems(Tail(watch.items)) \subseteq Elems(watch.items)
           /\ \A i \in Elems(watch.items) : i = item \/ i \in Elems(Tail(watch.items))
           /\ \A i \in Elems(Tail(watch.items)) : item.ver < i.ver
  <1>1. /\ watch.items \in Seq([c : Connectors, ver : 1..dseq, cver : 1..seq])
        /\ Sorted(watch.items)
    BY WatchSeq DEF ItemsInv
  <1> QED
    BY ZenonT(40), <1>1, HeadAndTail

\* The agent is sent the oldest change that is left, so gt_version passes over
\* none that it does not know.
LEMMA SendStep ==
    ASSUME IInv, SendEvent
    PROVE  IInv'
  <1> DEFINE item == Head(watch.items)
             rest == Tail(watch.items)
  <1>1. TypeOK /\ VersionInv /\ DVersionInv /\ RowsInv /\ ItemsInv /\ WorkerInv /\ WatchInv
    BY DEF IInv
  <1>2. /\ watch.items # <<>> /\ watch' = [gt |-> item.ver, items |-> rest]
        /\ known' = [known EXCEPT ![item.c] = item.cver]
    BY Zenon DEF SendEvent
  <1>3. UNCHANGED <<seq, conn, pending, dseq, dep, dpending, upgrades, worker, faults, missed>>
    BY Zenon DEF SendEvent, db
  <1>4. /\ item \in Elems(watch.items)
        /\ item \in [c : Connectors, ver : 1..dseq, cver : 1..seq]
        /\ rest \in Seq([c : Connectors, ver : 1..dseq, cver : 1..seq]) /\ Sorted(rest)
        /\ Elems(rest) \subseteq Elems(watch.items)
        /\ \A i \in Elems(watch.items) : i = item \/ i \in Elems(rest)
        /\ \A i \in Elems(rest) : item.ver < i.ver
    BY Zenon, <1>1, <1>2, ItemFacts
  <1>5. PICK c \in Connectors : c = item.c
    BY Zenon, <1>4
  <1>6. PICK v \in 1..dseq : v = item.ver
    BY <1>4
  <1>7. known'[c] = item.cver /\ \A d \in Connectors \ {c} : known'[d] = known[d]
    BY Zenon, <1>1, <1>2, <1>5 DEF TypeOK
  <1>8. watch' = [gt |-> v, items |-> rest] /\ watch'.gt = v /\ watch'.items = rest
    BY <1>2, <1>6
  <1>9. TypeOK'
    <2>1. v \in 0..dseq /\ item.cver \in 0..seq
      BY <1>1, <1>4, Tables
    <2>2. watch' \in [gt : 0..dseq, items : Seq([c : Connectors, ver : 1..dseq, cver : 1..seq])]
      BY Zenon, <1>4, <1>8, <2>1
    <2>3. known' \in [Connectors -> 0..seq]
      BY ZenonT(40), <1>1, <1>2, <2>1 DEF TypeOK
    <2> QED
      BY Zenon, <1>1, <1>3, <2>2, <2>3 DEF TypeOK
  <1>10. VersionInv' /\ DVersionInv' /\ RowsInv'
    BY Zenon, <1>1, <1>3 DEF VersionInv, DVersionInv, RowsInv
  <1>11. WorkerInv'
    BY Zenon, <1>1, <1>3 DEF WorkerInv, Stale
  <1>12. /\ v < dep[c].ver \/ (v = dep[c].ver /\ item.cver = dep[c].cver)
         /\ v <= dep[c].ver
    <2>1. v < dep[c].ver \/ (v = dep[c].ver /\ item.cver = dep[c].cver)
      BY Zenon, <1>1, <1>4, <1>5, <1>6 DEF ItemsInv
    <2>2. dep[c].ver \in Nat
      BY Zenon, <1>1, Tables
    <2>3. v < dep[c].ver \/ v = dep[c].ver => v <= dep[c].ver
      BY <2>2
    <2> QED
      BY Zenon, <2>1, <2>3
  <1>13. ItemsInv'
    BY Zenon, <1>1, <1>3, <1>4, <1>8, <1>12 DEF ItemsInv
  <1>14. WatchInv'
    <2> SUFFICES ASSUME "watch" \notin missed PROVE WatchInv!2'
      BY Zenon, <1>3 DEF WatchInv
    <2>1. \A i \in Elems(watch.items) :
             dep[i.c].ver # i.ver => \A q \in Elems(watch.items) : q.ver < dep[i.c].ver
      BY Zenon, <1>1 DEF WatchInv
    <2>2. ASSUME NEW d \in Connectors, known'[d] # dep[d].cver
          PROVE  dep[d].ver > v /\ Listed(rest, d, dep[d].ver)
      <3>1. CASE d = c
        <4>1. dep[d].ver > v /\ dep[d].ver # v
          BY <1>1, <1>7, <1>12, <2>2, <3>1, Tables
        <4>2. \A q \in Elems(rest) : q.ver < dep[d].ver
          BY Zenon, <1>4, <1>5, <1>6, <2>1, <3>1, <4>1
        <4> QED
          BY Zenon, <4>1, <4>2 DEF Listed
      <3>2. CASE d # c
        <4>1. Listed(watch.items, d, dep[d].ver)
          BY Zenon, <1>1, <1>7, <2>2, <3>2 DEF WatchInv
        <4> QED
          BY Zenon, <1>4, <1>5, <1>6, <3>2, <4>1 DEF Listed
      <3> QED
        BY Zenon, <3>1, <3>2
    <2> QED
      BY Zenon, <1>3, <1>4, <1>8, <2>1, <2>2
  <1> QED
    BY Zenon, <1>9, <1>10, <1>11, <1>13, <1>14 DEF IInv

\* An item that is left out counts as missed.
LEMMA UnpresentableStep ==
    ASSUME IInv, UnpresentableItem
    PROVE  IInv'
  <1> DEFINE rest == Tail(watch.items)
  <1>1. TypeOK /\ VersionInv /\ DVersionInv /\ RowsInv /\ ItemsInv /\ WorkerInv /\ WatchInv
    BY DEF IInv
  <1>2. /\ watch.items # <<>> /\ watch' = [watch EXCEPT !.items = Tail(@)]
        /\ UNCHANGED <<seq, conn, pending, dseq, dep, dpending, upgrades, worker, known>>
    BY DEF UnpresentableItem, db
  <1>3. missed' = missed \cup {"watch"} /\ faults < MaxFaults /\ faults' = faults + 1
    BY DEF UnpresentableItem, Miss, Fault
  <1>4. /\ rest \in Seq([c : Connectors, ver : 1..dseq, cver : 1..seq]) /\ Sorted(rest)
        /\ Elems(rest) \subseteq Elems(watch.items)
    BY Zenon, <1>1, <1>2, ItemFacts
  <1>5. watch' = [gt |-> watch.gt, items |-> rest] /\ watch.gt \in 0..dseq
    BY Zenon, <1>1, <1>2 DEF TypeOK
  <1>6. TypeOK'
    <2>1. watch' \in [gt : 0..dseq, items : Seq([c : Connectors, ver : 1..dseq, cver : 1..seq])]
      BY Zenon, <1>4, <1>5
    <2>2. missed' \subseteq {"worker", "watch"} /\ faults' \in 0..MaxFaults
      BY <1>1, <1>3, UpdateBounds DEF TypeOK
    <2> QED
      BY Zenon, <1>1, <1>2, <2>1, <2>2 DEF TypeOK
  <1>7. VersionInv' /\ DVersionInv' /\ RowsInv'
    BY <1>1, <1>2 DEF VersionInv, DVersionInv, RowsInv
  <1>8. ItemsInv'
    BY Zenon, <1>1, <1>2, <1>4, <1>5 DEF ItemsInv
  <1>9. WorkerInv' /\ WatchInv'
    BY Zenon, <1>1, <1>2, <1>3 DEF WorkerInv, WatchInv, Stale
  <1> QED
    BY Zenon, <1>6, <1>7, <1>8, <1>9 DEF IInv

\* Connecting again with the version it has loses nothing.
LEMMA ReconnectStep ==
    ASSUME IInv, Reconnect
    PROVE  IInv'
  <1>1. TypeOK /\ VersionInv /\ DVersionInv /\ RowsInv /\ ItemsInv /\ WorkerInv /\ WatchInv
    BY DEF IInv
  <1>2. /\ watch' = [watch EXCEPT !.items = <<>>] /\ faults < MaxFaults /\ faults' = faults + 1
        /\ UNCHANGED <<seq, conn, pending, dseq, dep, dpending, upgrades, worker, known, missed>>
    BY DEF Reconnect, db, Fault
  <1>3. watch' = [gt |-> watch.gt, items |-> <<>>] /\ watch.gt \in 0..dseq
    BY Zenon, <1>1, <1>2 DEF TypeOK
  <1>4. TypeOK'
    <2>1. watch' \in [gt : 0..dseq, items : Seq([c : Connectors, ver : 1..dseq, cver : 1..seq])]
      BY <1>3, NoElems
    <2>2. faults' \in 0..MaxFaults
      BY <1>1, <1>2, UpdateBounds DEF TypeOK
    <2> QED
      BY Zenon, <1>1, <1>2, <2>1, <2>2 DEF TypeOK
  <1>5. VersionInv' /\ DVersionInv' /\ RowsInv'
    BY <1>1, <1>2 DEF VersionInv, DVersionInv, RowsInv
  <1>6. ItemsInv' /\ WatchInv'
    BY <1>1, <1>2, <1>3, NoElems DEF ItemsInv, WatchInv
  <1>7. WorkerInv'
    BY <1>1, <1>2 DEF WorkerInv, Stale
  <1> QED
    BY Zenon, <1>4, <1>5, <1>6, <1>7 DEF IInv

-----------------------------------------------------------------------------
\* The inductive invariant.
THEOREM Invariance == Spec => []IInv
  <1>1. IInv /\ [Next]_vars => IInv'
    <2> SUFFICES ASSUME IInv, [Next]_vars PROVE IInv'
      BY Zenon
    <2>1. CASE UNCHANGED vars
      <3>1. TypeOK' /\ VersionInv' /\ DVersionInv'
        BY Zenon, <2>1 DEF vars, db, IInv, TypeOK, VersionInv, DVersionInv
      <3>2. RowsInv' /\ ItemsInv'
        BY Zenon, <2>1 DEF vars, db, IInv, RowsInv, ItemsInv
      <3>3. WorkerInv' /\ WatchInv'
        BY Zenon, <2>1 DEF vars, db, IInv, WorkerInv, WatchInv, Stale
      <3> QED
        BY Zenon, <3>1, <3>2, <3>3 DEF IInv
    <2>2. CASE Next
      BY Zenon, <2>2, WriteStep, CommitStep, UpdateStep, CommitDeploymentStep, StartStep, AssignStep,
         ReconcileStep, FailedRowStep, RestartStep, ListStep, SendStep, UnpresentableStep,
         ReconnectStep
      DEF Next, Commits, Reconcile, Watch
    <2> QED
      BY Zenon, <2>1, <2>2
  <1> QED
    BY InitIInv, <1>1, PTL DEF Spec

\* Type correctness of the propagation of changes.
THEOREM TypeCorrect == Spec => []TypeOK
  BY Invariance, PTL DEF IInv

\* The reconciler passes over no change of a connector, whatever the number of
\* connectors, the order of the commits and the restarts, unless a version
\* commits late or a row fails.
THEOREM StaleAheadHolds == Spec => []StaleAhead
  <1>1. IInv => StaleAhead
    BY Zenon DEF IInv, WorkerInv, Stale, StaleAhead
  <1> QED
    BY <1>1, Invariance, PTL

\* The agent's watch passes over no change of a deployment, even across broken
\* connections, unless a version commits late or an item is left out.
THEOREM WatchCompleteHolds == Spec => []WatchComplete
  <1>1. IInv => WatchComplete
    BY DEF IInv, WatchInv, WatchComplete
  <1> QED
    BY <1>1, Invariance, PTL
=============================================================================
