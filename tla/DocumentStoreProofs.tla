------------------------- MODULE DocumentStoreProofs -------------------------
(* Proofs about DocumentStore, for every value of its constants. *)
EXTENDS DocumentStoreInv, FiniteSetTheorems, SequenceTheorems,
        WellFoundedInduction, TLAPS

USE BoundsAssumption, NullAssumption DEF Versions, MaybeVersion

----------------------------------------------------------------------------
(* Records *)

\* The components of a well-typed state.
LEMMA RowFacts ==
  ASSUME TypeOK, NEW d \in Docs
  PROVE  /\ row[d] \in Row
         /\ row[d].latest \in 0..MaxVersions
         /\ row[d].searchable \in 0..MaxVersions
         /\ row[d].deleted \in BOOLEAN
         /\ row[d].title \in Titles \cup {NoTitle}
         /\ lock[d] \in Clients \cup {NoClient}
         /\ \A n \in Versions : version[d][n] \in Version
         /\ indexed[d] \subseteq Versions
  BY DEF TypeOK, Row

LEMMA TxFacts ==
  ASSUME TypeOK, NEW c \in Clients
  PROVE  /\ tx[c] \in Tx
         /\ tx[c].pc \in {"idle", "loaded", "upload", "stored", "ready"}
         /\ tx[c].alive \in BOOLEAN
         /\ tx[c].doc \in Docs \cup {NoDoc}
         /\ tx[c].loaded \in Row
         /\ tx[c].entity \in Row
         /\ tx[c].object \in Version
         /\ tx[c].entity.latest \in 0..MaxVersions
         /\ tx[c].loaded.latest \in 0..MaxVersions
  BY DEF TypeOK, Tx, Row

\* Changing one column of a row leaves a row with that column changed.
LEMMA RowChange ==
  ASSUME NEW r \in Row
  PROVE  /\ \A t \in Titles :
              /\ [r EXCEPT !.title = t] \in Row
              /\ [r EXCEPT !.title = t].title = t
              /\ [r EXCEPT !.title = t].latest = r.latest
              /\ [r EXCEPT !.title = t].deleted = r.deleted
              /\ [r EXCEPT !.title = t].searchable = r.searchable
         /\ [r EXCEPT !.deleted = TRUE] \in Row
         /\ [r EXCEPT !.deleted = TRUE].title = r.title
         /\ [r EXCEPT !.deleted = TRUE].latest = r.latest
         /\ [r EXCEPT !.deleted = TRUE].deleted = TRUE
         /\ [r EXCEPT !.deleted = TRUE].searchable = r.searchable
         /\ \A n \in 0..MaxVersions :
              /\ [r EXCEPT !.searchable = n] \in Row
              /\ [r EXCEPT !.searchable = n].title = r.title
              /\ [r EXCEPT !.searchable = n].latest = r.latest
              /\ [r EXCEPT !.searchable = n].deleted = r.deleted
              /\ [r EXCEPT !.searchable = n].searchable = n
              /\ [r EXCEPT !.latest = n] \in Row
              /\ [r EXCEPT !.latest = n].title = r.title
              /\ [r EXCEPT !.latest = n].latest = n
              /\ [r EXCEPT !.latest = n].deleted = r.deleted
              /\ [r EXCEPT !.latest = n].searchable = r.searchable
  BY DEF Row

LEMMA NoRowFacts ==
  /\ NoRow \in Row
  /\ NoRow.latest = 0
  /\ NoRow.title = NoTitle
  /\ NoRow.deleted = FALSE
  /\ NoRow.searchable = 0
  <1>1. FALSE \in BOOLEAN
    OBVIOUS
  <1> QED
    BY <1>1 DEF NoRow, Row

\* The row of a creation.
LEMMA NewRowFacts ==
  ASSUME NEW t \in Titles
  PROVE  /\ NewRow(t) \in Row
         /\ NewRow(t).latest = 1
         /\ NewRow(t).title = t
         /\ NewRow(t).deleted = FALSE
         /\ NewRow(t).searchable = 0
  <1>1. 1 \in 0..MaxVersions /\ 0 \in 0..MaxVersions /\ FALSE \in BOOLEAN
    OBVIOUS
  <1> QED
    BY <1>1 DEF NewRow, Row

LEMMA NoVersionFacts ==
  /\ NoVersion \in Version
  /\ NoVersion.content = NoContent
  BY DEF NoVersion, Version

LEMMA NoTxFacts == NoTx \in Tx /\ NoTx.pc = "idle"
  <1>1. NoDoc \in Docs \cup {NoDoc}
    OBVIOUS
  <1>2. NoRow \in Row /\ TRUE \in BOOLEAN
    BY NoRowFacts
  <1> QED
    BY <1>1, <1>2, NoVersionFacts DEF NoTx, Started, Tx

\* The transaction after a change, an upload, and the loss of its session.
Changed(T, pc, e) == [T EXCEPT !.pc = pc, !.entity = e]
Stored(T, o) == [T EXCEPT !.pc = "stored", !.object = o]
Lost(T) == [T EXCEPT !.alive = FALSE]

LEMMA ChangedTx ==
  ASSUME NEW T \in Tx, NEW pc \in {"ready", "upload"}, NEW e \in Row
  PROVE  /\ Changed(T, pc, e) \in Tx
         /\ Changed(T, pc, e).pc = pc
         /\ Changed(T, pc, e).alive = T.alive
         /\ Changed(T, pc, e).doc = T.doc
         /\ Changed(T, pc, e).loaded = T.loaded
         /\ Changed(T, pc, e).entity = e
  BY DEF Changed, Tx

LEMMA StoredTx ==
  ASSUME NEW T \in Tx, NEW o \in Version
  PROVE  /\ Stored(T, o) \in Tx
         /\ Stored(T, o).pc = "stored"
         /\ Stored(T, o).alive = T.alive
         /\ Stored(T, o).doc = T.doc
         /\ Stored(T, o).loaded = T.loaded
         /\ Stored(T, o).entity = T.entity
         /\ Stored(T, o).object = o
  BY DEF Stored, Tx

LEMMA LostTx ==
  ASSUME NEW T \in Tx
  PROVE  /\ Lost(T) \in Tx
         /\ Lost(T).pc = T.pc
         /\ ~Lost(T).alive
         /\ Lost(T).doc = T.doc
         /\ Lost(T).loaded = T.loaded
         /\ Lost(T).entity = T.entity
         /\ Lost(T).object = T.object
  <1>1. FALSE \in BOOLEAN
    OBVIOUS
  <1> QED
    BY <1>1 DEF Lost, Tx

----------------------------------------------------------------------------
(* What the actions write *)

\* The end of a transaction gives back its lock and no other.
LEMMA EndedFacts ==
  ASSUME TypeOK, NEW c \in Clients, Ended(c)
  PROVE  /\ tx' \in [Clients -> Tx]
         /\ lock' \in [Docs -> Clients \cup {NoClient}]
         /\ tx'[c].pc = "idle"
         /\ \A b \in Clients : b # c => tx'[b] = tx[b]
         /\ \A d \in Docs : lock[d] = c => lock'[d] = NoClient
         /\ \A d \in Docs : lock[d] # c => lock'[d] = lock[d]
  BY NoTxFacts DEF Ended, TypeOK

\* A flush writes the entity, and the entity is the row that was loaded but
\* for the change, because the lock kept everyone else away.
LEMMA CommitFacts ==
  ASSUME IInv, NEW c \in Clients, Commit(c)
  PROVE  LET d == tx[c].doc
             e == tx[c].entity
         IN  /\ d \in Docs
             /\ Visible(d)
             /\ lock[d] = c
             /\ Flushed(c) = e
             /\ e \in Row
             /\ e.latest = row[d].latest
             /\ \/ /\ \E t \in Titles : e.title = t
                   /\ e.deleted = row[d].deleted
                   /\ e.searchable = row[d].searchable
                \/ /\ e.title = row[d].title
                   /\ e.deleted = TRUE
                   /\ e.searchable = row[d].searchable
                \/ /\ e.title = row[d].title
                   /\ e.deleted = row[d].deleted
                   /\ e.searchable \in 1..row[d].latest
  <1> DEFINE d == tx[c].doc
             e == tx[c].entity
             l == tx[c].loaded
  <1>1. tx[c].pc = "ready" /\ tx[c].alive
    BY DEF Commit
  <1>2. l # NoRow /\ ~Creates(c)
    BY <1>1 DEF IInv, EntityInv, Creates
  <1>3. d \in Docs /\ lock[d] = c /\ l = row[d] /\ Visible(d)
    BY <1>1, <1>2 DEF IInv, EntityInv, LockInv
  <1>4. l \in Row /\ e \in Row /\ l.latest \in 0..MaxVersions
    BY TxFacts DEF IInv
  <1>5. Flushed(c) = e
    BY <1>3 DEF Flushed
  <1>6. \/ \E t \in Titles : e = [l EXCEPT !.title = t]
        \/ e = [l EXCEPT !.deleted = TRUE]
        \/ \E n \in 1..l.latest : e = [l EXCEPT !.searchable = n]
    BY <1>1 DEF IInv, EntityInv
  <1>7. CASE \E t \in Titles : e = [l EXCEPT !.title = t]
    BY <1>3, <1>4, <1>5, <1>7, RowChange
  <1>8. CASE e = [l EXCEPT !.deleted = TRUE]
    BY <1>3, <1>4, <1>5, <1>8, RowChange
  <1>9. CASE \E n \in 1..l.latest : e = [l EXCEPT !.searchable = n]
    <2>1. PICK n \in 1..l.latest : e = [l EXCEPT !.searchable = n]
      BY <1>9
    <2>2. n \in 0..MaxVersions
      BY <1>4
    <2> QED
      BY <1>3, <1>4, <1>5, <2>1, <2>2, RowChange
  <1> QED
    BY <1>6, <1>7, <1>8, <1>9

\* The commit of an upload adds the version after the last one.
LEMMA CommitVersionFacts ==
  ASSUME IInv, NEW c \in Clients, CommitVersion(c)
  PROVE  LET d == tx[c].doc
             e == tx[c].entity
         IN  /\ d \in Docs
             /\ Flushed(c) = e
             /\ e \in Row
             /\ e.latest = row[d].latest + 1
             /\ e.latest \in Versions
             /\ e.deleted = FALSE
             /\ row[d].deleted = FALSE
             /\ e.searchable = row[d].searchable
             /\ tx[c].object \in store
             /\ tx[c].object.content \in Contents
             /\ \/ /\ Visible(d)
                   /\ lock[d] = c
                   /\ e.title = row[d].title
                \/ /\ Creates(c)
                   /\ row[d] = NoRow
                   /\ e.title \in Titles
             /\ d \in drawn
  <1> DEFINE d == tx[c].doc
             e == tx[c].entity
             l == tx[c].loaded
  <1>1. tx[c].pc = "stored" /\ tx[c].alive
    BY DEF CommitVersion
  <1>2. d \in Docs
    BY <1>1 DEF IInv, EntityInv
  <1>3. l \in Row /\ e \in Row /\ l.latest \in 0..MaxVersions
    BY TxFacts DEF IInv
  <1>4. tx[c].object \in store /\ tx[c].object.content \in Contents
    <2>1. tx[c].object \in store
      BY <1>1 DEF IInv, StoreInv
    <2>2. store \subseteq [key : ObjectKeys, content : Contents]
      BY DEF IInv, TypeOK
    <2> QED
      BY <2>1, <2>2
  <1>5. CASE Creates(c)
    <2>1. row[d] = NoRow /\ d \in drawn
      BY <1>5 DEF IInv, CreateInv
    <2>2. PICK t \in Titles : e = NewRow(t)
      BY <1>1, <1>5 DEF IInv, EntityInv
    <2>3. l = NoRow
      BY <1>5 DEF Creates
    <2>4. e # l
      BY <2>2, <2>3, NewRowFacts, NoRowFacts
    <2>5. Flushed(c) = e
      BY <2>4 DEF Flushed
    <2>6. /\ e.latest = 1
          /\ e.title \in Titles
          /\ e.deleted = FALSE
          /\ e.searchable = 0
      BY <2>2, NewRowFacts
    <2>7. /\ row[d].latest = 0
          /\ row[d].deleted = FALSE
          /\ row[d].searchable = 0
      BY <2>1, NoRowFacts
    <2>8. e.latest = row[d].latest + 1 /\ e.latest \in Versions
      BY <2>6, <2>7
    <2> HIDE DEF d, e, l
    <2> QED
      BY <1>2, <1>3, <1>4, <1>5, <2>1, <2>5, <2>6, <2>7, <2>8 DEF d, e
  <1>6. CASE ~Creates(c)
    <2>1. lock[d] = c /\ l = row[d] /\ Visible(d)
      BY <1>1, <1>6 DEF IInv, LockInv
    <2>2. l.latest < MaxVersions /\ e = [l EXCEPT !.latest = l.latest + 1]
      BY <1>1, <1>6 DEF IInv, EntityInv
    <2>3. l.latest + 1 \in 0..MaxVersions
      BY <1>3, <2>2
    <2>4. /\ e.latest = l.latest + 1
          /\ e.title = l.title
          /\ e.deleted = l.deleted
          /\ e.searchable = l.searchable
      BY <1>3, <2>2, <2>3, RowChange
    <2>5. e # l
      BY <2>4, <1>3
    <2>6. Flushed(c) = e
      BY <2>5 DEF Flushed
    <2>7. row[d].deleted = FALSE /\ row[d].latest > 0
      BY <1>2, <2>1, RowFacts DEF IInv, Visible
    <2>8. d \in drawn
      BY <1>2, <2>7 DEF IInv, NumbersInv
    <2>9. e.latest = row[d].latest + 1 /\ e.latest \in Versions
      BY <1>3, <2>1, <2>2, <2>4
    <2>10. /\ e.deleted = FALSE
           /\ e.title = row[d].title
           /\ e.searchable = row[d].searchable
      BY <2>1, <2>4, <2>7
    <2> HIDE DEF d, e, l
    <2> QED
      BY <1>2, <1>3, <1>4, <2>1, <2>6, <2>7, <2>8, <2>9, <2>10 DEF d, e
  <1> QED
    BY <1>5, <1>6


----------------------------------------------------------------------------
(* Helpers of the actions *)

\* A set of numbers has a least element: the intervals up to its elements are
\* finite, and inclusion among finite sets is well founded.
LEMMA LeastElement ==
  ASSUME NEW S \in SUBSET Nat, S # {}
  PROVE  \E n \in S : \A m \in S : n <= m
  <1> DEFINE R == StrictSubsetOrdering(Nat)
             F == FiniteSubsetsOf(Nat)
             T == {1..n : n \in S}
  <1>1. IsWellFoundedOn(R, F)
    BY FS_StrictSubsetOrderingWellFounded
  <1>2. T \subseteq F
    <2>1. \A n \in S : IsFiniteSet(1..n)
      BY FS_Interval
    <2> QED
      BY <2>1 DEF FiniteSubsetsOf
  <1>3. T # {}
    OBVIOUS
  <1>4. \E x \in T : \A y \in T : ~(<<y, x>> \in R)
    <2> HIDE DEF R, F, T
    <2> QED
      BY <1>1, <1>2, <1>3, WFMin
  <1>5. PICK n \in S : \A m \in S : ~(<<1..m, 1..n>> \in R)
    BY <1>4
  <1>6. ASSUME NEW m \in S, ~(n <= m)
        PROVE  FALSE
    <2>1. 1..m \subseteq 1..n /\ n \in 1..n /\ n \notin 1..m
      BY <1>6
    <2>2. <<1..m, 1..n>> \in R
      BY <2>1 DEF StrictSubsetOrdering
    <2> QED
      BY <1>5, <2>2
  <1> QED
    BY <1>6

\* Earliest finds the least version with the content, if there is one.
LEMMA EarliestFacts ==
  ASSUME TypeOK, NEW d \in Docs, NEW x \in Contents
  PROVE  LET e == Earliest(d, x)
         IN  /\ e \in MaybeVersion
             /\ e = 0 => \A n \in Versions : version[d][n].content # x
             /\ e # 0 => /\ version[d][e].content = x
                         /\ \A n \in Versions :
                              version[d][n].content = x => e <= n
  <1> DEFINE Same == {n \in Versions : version[d][n].content = x}
  <1>1. CASE Same = {}
    BY <1>1 DEF Earliest
  <1>2. CASE Same # {}
    <2>1. Same \subseteq Nat
      OBVIOUS
    <2>2. PICK n \in Same : \A m \in Same : n <= m
      BY <1>2, <2>1, LeastElement
    <2>3. Earliest(d, x) = CHOOSE k \in Versions :
            /\ version[d][k].content = x
            /\ \A m \in Versions : version[d][m].content = x => k <= m
      BY <1>2 DEF Earliest
    <2>4. /\ Earliest(d, x) \in Versions
          /\ version[d][Earliest(d, x)].content = x
          /\ \A m \in Versions : version[d][m].content = x
               => Earliest(d, x) <= m
      BY <2>2, <2>3
    <2> QED
      BY <2>4
  <1> QED
    BY <1>1, <1>2

\* The number of a version being uploaded is a version number.
LEMMA UploadFacts ==
  ASSUME IInv, NEW c \in Clients, tx[c].pc \in {"upload", "stored"}
  PROVE  tx[c].doc \in Docs /\ tx[c].entity.latest \in Versions
  <1>1. tx[c].doc \in Docs
    BY DEF IInv, EntityInv
  <1>2. CASE Creates(c)
    <2>1. PICK t \in Titles : tx[c].entity = NewRow(t)
      BY <1>2 DEF IInv, EntityInv
    <2>2. 1 \in Versions
      OBVIOUS
    <2> QED
      BY <1>1, <2>1, <2>2, NewRowFacts
  <1>3. CASE ~Creates(c)
    <2>1. /\ tx[c].loaded.latest < MaxVersions
          /\ tx[c].entity = [tx[c].loaded EXCEPT !.latest = tx[c].loaded.latest + 1]
      BY <1>3 DEF IInv, EntityInv
    <2>2. /\ tx[c].loaded \in Row
          /\ tx[c].loaded.latest + 1 \in 1..MaxVersions
      BY <2>1, TxFacts DEF IInv
    <2>3. tx[c].entity.latest = tx[c].loaded.latest + 1
      BY <2>1, <2>2, RowChange
    <2> QED
      BY <1>1, <2>2, <2>3
  <1> QED
    BY <1>2, <1>3

\* What the four changes of a loaded entity have in common.
LEMMA ChangeFacts ==
  ASSUME IInv, NEW c \in Clients, NEW pc \in {"ready", "upload"}, NEW e \in Row,
         Change(c, pc, e)
  PROVE  /\ tx[c].pc = "loaded"
         /\ tx[c].doc \in Docs
         /\ ~Creates(c)
         /\ tx[c].entity = tx[c].loaded
         /\ tx' \in [Clients -> Tx]
         /\ tx'[c].pc = pc
         /\ tx'[c].alive = tx[c].alive
         /\ tx'[c].doc = tx[c].doc
         /\ tx'[c].loaded = tx[c].loaded
         /\ tx'[c].entity = e
         /\ \A b \in Clients : b # c => tx'[b] = tx[b]
         /\ UNCHANGED <<tables, objects, drawn, lock>>
  <1>1. tx[c].pc = "loaded" /\ tx[c] \in Tx /\ tx \in [Clients -> Tx]
    BY DEF Change, IInv, TypeOK
  <1>2. /\ tx[c].doc \in Docs
        /\ tx[c].entity = tx[c].loaded
        /\ tx[c].loaded # NoRow
    BY <1>1 DEF IInv, EntityInv
  <1>3. tx'[c] = Changed(tx[c], pc, e)
    BY <1>1 DEF Change, Changed
  <1>4. /\ tx'[c] \in Tx
        /\ tx'[c].pc = pc
        /\ tx'[c].alive = tx[c].alive
        /\ tx'[c].doc = tx[c].doc
        /\ tx'[c].loaded = tx[c].loaded
        /\ tx'[c].entity = e
    BY <1>1, <1>3, ChangedTx
  <1>5. /\ tx' \in [Clients -> Tx]
        /\ \A b \in Clients : b # c => tx'[b] = tx[b]
    BY <1>1, <1>3, <1>4 DEF Change
  <1> QED
    BY <1>1, <1>2, <1>4, <1>5 DEF Change, Creates

\* The four changes.
Changing(c) ==
  \/ \E t \in Titles : UpdateTitle(c, t)
  \/ Delete(c)
  \/ \E n \in Versions : UpdateSearchable(c, n)
  \/ TakeNumber(c)

\* Each of them leaves an entity of the right form.
LEMMA ChangingFacts ==
  ASSUME IInv, NEW c \in Clients, Changing(c)
  PROVE  \E pc \in {"ready", "upload"}, e \in Row :
           /\ Change(c, pc, e)
           /\ pc = "ready" =>
                LET l == tx[c].loaded
                IN  \/ \E t \in Titles : e = [l EXCEPT !.title = t]
                    \/ e = [l EXCEPT !.deleted = TRUE]
                    \/ \E n \in 1..l.latest : e = [l EXCEPT !.searchable = n]
           /\ pc = "upload" =>
                /\ tx[c].loaded.latest < MaxVersions
                /\ e = [tx[c].loaded EXCEPT !.latest = tx[c].loaded.latest + 1]
  <1> DEFINE l == tx[c].loaded
  <1>1. tx[c].pc = "loaded"
    BY DEF Changing, UpdateTitle, Delete, UpdateSearchable, TakeNumber, Change
  <1>2. tx[c].entity = l /\ l # NoRow /\ tx[c].doc \in Docs
    BY <1>1 DEF IInv, EntityInv
  <1>3. l \in Row /\ l.latest \in 0..MaxVersions
    BY TxFacts DEF IInv
  <1>4. CASE \E t \in Titles : UpdateTitle(c, t)
    <2>1. PICK t \in Titles : UpdateTitle(c, t)
      BY <1>4
    <2>2. Change(c, "ready", [l EXCEPT !.title = t])
      BY <1>2, <2>1 DEF UpdateTitle
    <2>3. [l EXCEPT !.title = t] \in Row
      BY <1>3, RowChange
    <2> QED
      BY <2>2, <2>3
  <1>5. CASE Delete(c)
    <2>1. Change(c, "ready", [l EXCEPT !.deleted = TRUE])
      BY <1>2, <1>5 DEF Delete
    <2>2. [l EXCEPT !.deleted = TRUE] \in Row
      BY <1>3, RowChange
    <2> QED
      BY <2>1, <2>2
  <1>6. CASE \E n \in Versions : UpdateSearchable(c, n)
    <2>1. PICK n \in Versions : UpdateSearchable(c, n)
      BY <1>6
    <2>2. Change(c, "ready", [l EXCEPT !.searchable = n])
      BY <1>2, <2>1 DEF UpdateSearchable
    <2>3. n \in 1..row[tx[c].doc].latest
      BY <1>2, <2>1 DEF UpdateSearchable, IInv, NumbersInv
    <2>4. row[tx[c].doc] = l
      BY <1>1, <1>2, <2>1 DEF UpdateSearchable, IInv, LockInv, Creates
    <2>5. [l EXCEPT !.searchable = n] \in Row
      <3>1. n \in 0..MaxVersions
        OBVIOUS
      <3> QED
        BY <1>3, <3>1, RowChange
    <2> QED
      BY <2>2, <2>3, <2>4, <2>5
  <1>7. CASE TakeNumber(c)
    <2>1. l.latest < MaxVersions
      BY <1>2, <1>7 DEF TakeNumber
    <2>2. Change(c, "upload", [l EXCEPT !.latest = l.latest + 1])
      BY <1>2, <1>7 DEF TakeNumber
    <2>3. l.latest + 1 \in 0..MaxVersions
      BY <1>3, <2>1
    <2>4. [l EXCEPT !.latest = l.latest + 1] \in Row
      BY <1>3, <2>3, RowChange
    <2> QED
      BY <2>1, <2>2, <2>4
  <1> QED
    BY <1>4, <1>5, <1>6, <1>7 DEF Changing


\* The other steps of a transaction.
LEMMA StartFacts ==
  ASSUME IInv, NEW c \in Clients, NEW d \in Docs, NEW t \in Titles,
         StartCreate(c, d, t)
  PROVE  /\ tx[c].pc = "idle"
         /\ d \notin drawn
         /\ row[d] = NoRow
         /\ drawn' = drawn \cup {d}
         /\ tx' \in [Clients -> Tx]
         /\ tx'[c].pc = "upload"
         /\ tx'[c].doc = d
         /\ tx'[c].loaded = NoRow
         /\ tx'[c].entity = NewRow(t)
         /\ \A b \in Clients : b # c => tx'[b] = tx[b]
         /\ UNCHANGED <<tables, objects, lock>>
  <1>1. tx \in [Clients -> Tx]
    BY DEF IInv, TypeOK
  <1>2. NoRow \in Row /\ NewRow(t) \in Row
    BY NoRowFacts, NewRowFacts
  <1>3. tx'[c] = Started("upload", d, NoRow, NewRow(t))
    BY <1>1 DEF StartCreate
  <1>4. /\ tx'[c] \in Tx
        /\ tx'[c].pc = "upload"
        /\ tx'[c].doc = d
        /\ tx'[c].loaded = NoRow
        /\ tx'[c].entity = NewRow(t)
    <2>1. TRUE \in BOOLEAN
      OBVIOUS
    <2>2. /\ Started("upload", d, NoRow, NewRow(t)) \in Tx
          /\ Started("upload", d, NoRow, NewRow(t)).pc = "upload"
          /\ Started("upload", d, NoRow, NewRow(t)).doc = d
          /\ Started("upload", d, NoRow, NewRow(t)).loaded = NoRow
          /\ Started("upload", d, NoRow, NewRow(t)).entity = NewRow(t)
      BY <1>2, <2>1, NoVersionFacts DEF Started, Tx
    <2> QED
      BY <1>3, <2>2, Zenon
  <1>5. row[d] = NoRow
    <2>1. row[d].latest \in 0..MaxVersions
      BY RowFacts DEF IInv
    <2> QED
      BY <2>1 DEF StartCreate, IInv, NumbersInv
  <1> QED
    BY <1>1, <1>4, <1>5 DEF StartCreate

LEMMA LoadFacts ==
  ASSUME IInv, NEW c \in Clients, NEW d \in Docs, Load(c, d)
  PROVE  /\ tx[c].pc = "idle"
         /\ lock[d] = NoClient
         /\ Visible(d)
         /\ row[d] # NoRow
         /\ lock' \in [Docs -> Clients \cup {NoClient}]
         /\ lock'[d] = c
         /\ \A e \in Docs : e # d => lock'[e] = lock[e]
         /\ tx' \in [Clients -> Tx]
         /\ tx'[c].pc = "loaded"
         /\ tx'[c].alive
         /\ tx'[c].doc = d
         /\ tx'[c].loaded = row[d]
         /\ tx'[c].entity = row[d]
         /\ \A b \in Clients : b # c => tx'[b] = tx[b]
         /\ UNCHANGED <<tables, objects, drawn>>
  <1>1. /\ tx \in [Clients -> Tx]
        /\ lock \in [Docs -> Clients \cup {NoClient}]
        /\ row[d] \in Row
    BY RowFacts DEF IInv, TypeOK
  <1>2. tx'[c] = Started("loaded", d, row[d], row[d])
    BY <1>1 DEF Load
  <1>3. /\ tx'[c] \in Tx
        /\ tx'[c].pc = "loaded"
        /\ tx'[c].alive
        /\ tx'[c].doc = d
        /\ tx'[c].loaded = row[d]
        /\ tx'[c].entity = row[d]
    <2>1. TRUE \in BOOLEAN
      OBVIOUS
    <2>2. /\ Started("loaded", d, row[d], row[d]) \in Tx
          /\ Started("loaded", d, row[d], row[d]).pc = "loaded"
          /\ Started("loaded", d, row[d], row[d]).alive
          /\ Started("loaded", d, row[d], row[d]).doc = d
          /\ Started("loaded", d, row[d], row[d]).loaded = row[d]
          /\ Started("loaded", d, row[d], row[d]).entity = row[d]
      BY <1>1, <2>1, NoVersionFacts DEF Started, Tx
    <2> QED
      BY <1>2, <2>2, Zenon
  <1>4. row[d] # NoRow
    BY NoRowFacts DEF Load, Visible
  <1> QED
    BY <1>1, <1>3, <1>4 DEF Load

LEMMA PutFacts ==
  ASSUME IInv, NEW c \in Clients, NEW x \in Contents, Put(c, x)
  PROVE  \E o \in [key : ObjectKeys, content : Contents] :
           /\ tx[c].pc = "upload"
           /\ uuid + 1 \in 0..MaxUploads
           /\ o.key[3] = uuid + 1
           /\ store' = store \cup {o}
           /\ uuid' = uuid + 1
           /\ tx' \in [Clients -> Tx]
           /\ tx'[c].pc = "stored"
           /\ tx'[c].alive = tx[c].alive
           /\ tx'[c].doc = tx[c].doc
           /\ tx'[c].loaded = tx[c].loaded
           /\ tx'[c].entity = tx[c].entity
           /\ tx'[c].object = o
           /\ \A b \in Clients : b # c => tx'[b] = tx[b]
           /\ UNCHANGED <<tables, drawn, lock>>
  <1> DEFINE key == <<tx[c].doc, tx[c].entity.latest, uuid + 1>>
             o == [key |-> key, content |-> x]
  <1>1. tx[c].pc = "upload" /\ uuid < MaxUploads /\ uuid \in 0..MaxUploads
    BY DEF Put, IInv, TypeOK
  <1>2. tx \in [Clients -> Tx] /\ tx[c] \in Tx
    BY DEF IInv, TypeOK
  <1>3. key \in ObjectKeys
    BY <1>1, UploadFacts DEF ObjectKeys
  <1>4. o \in [key : ObjectKeys, content : Contents] /\ o \in Version
    BY <1>3 DEF Version
  <1>5. o.key = key /\ key[3] = uuid + 1
    OBVIOUS
  <1>6. store' = {p \in store : p.key # key} \cup {o}
    BY DEF Put, ObjectKey
  <1>7. \A p \in store : p.key # key
    BY <1>1, <1>5 DEF IInv, StoreInv
  <1>8. store' = store \cup {o}
    BY <1>6, <1>7
  <1>9. tx'[c] = Stored(tx[c], o)
    BY <1>2 DEF Put, ObjectKey, Stored
  <1> HIDE DEF o, key
  <1>10. /\ tx'[c] \in Tx
         /\ tx'[c].pc = "stored"
         /\ tx'[c].alive = tx[c].alive
         /\ tx'[c].doc = tx[c].doc
         /\ tx'[c].loaded = tx[c].loaded
         /\ tx'[c].entity = tx[c].entity
         /\ tx'[c].object = o
    BY <1>2, <1>4, <1>9, StoredTx
  <1>11. /\ tx' \in [Clients -> Tx]
         /\ \A b \in Clients : b # c => tx'[b] = tx[b]
    BY <1>2, <1>10 DEF Put
  <1>12. uuid' = uuid + 1 /\ UNCHANGED <<tables, drawn, lock>>
    BY DEF Put
  <1>13. uuid + 1 \in 0..MaxUploads
    BY <1>1
  <1> QED
    BY <1>1, <1>4, <1>5, <1>8, <1>10, <1>11, <1>12, <1>13

LEMMA LoseFacts ==
  ASSUME IInv, NEW c \in Clients, LoseSession(c)
  PROVE  /\ tx[c].pc # "idle"
         /\ tx' \in [Clients -> Tx]
         /\ tx'[c].pc = tx[c].pc
         /\ ~tx'[c].alive
         /\ tx'[c].doc = tx[c].doc
         /\ tx'[c].loaded = tx[c].loaded
         /\ tx'[c].entity = tx[c].entity
         /\ tx'[c].object = tx[c].object
         /\ \A b \in Clients : b # c => tx'[b] = tx[b]
         /\ lock' \in [Docs -> Clients \cup {NoClient}]
         /\ \A d \in Docs : lock[d] = c => lock'[d] = NoClient
         /\ \A d \in Docs : lock[d] # c => lock'[d] = lock[d]
         /\ UNCHANGED <<tables, objects, drawn>>
  <1>1. /\ tx \in [Clients -> Tx]
        /\ tx[c] \in Tx
        /\ lock \in [Docs -> Clients \cup {NoClient}]
    BY DEF IInv, TypeOK
  <1>2. tx'[c] = Lost(tx[c])
    BY <1>1 DEF LoseSession, Lost
  <1>3. /\ tx'[c] \in Tx
        /\ tx'[c].pc = tx[c].pc
        /\ ~tx'[c].alive
        /\ tx'[c].doc = tx[c].doc
        /\ tx'[c].loaded = tx[c].loaded
        /\ tx'[c].entity = tx[c].entity
        /\ tx'[c].object = tx[c].object
    BY <1>1, <1>2, LostTx
  <1> QED
    BY <1>1, <1>3 DEF LoseSession

\* A promotion writes one column of a row nobody has locked.
LEMMA FinishFacts ==
  ASSUME IInv, NEW d \in Docs, NEW n \in Versions, FinishIndex(d, n)
  PROVE  /\ lock[d] = NoClient
         /\ Visible(d)
         /\ n <= row[d].latest
         /\ row' \in [Docs -> Row]
         /\ row'[d].latest = row[d].latest
         /\ row'[d].title = row[d].title
         /\ row'[d].deleted = row[d].deleted
         /\ row'[d].searchable \in {n, row[d].searchable}
         /\ \A e \in Docs : e # d => row'[e] = row[e]
         /\ indexed' \in [Docs -> SUBSET Versions]
         /\ indexed'[d] = indexed[d] \cup {n}
         /\ \A e \in Docs : e # d => indexed'[e] = indexed[e]
         /\ UNCHANGED <<version, jobs, reported, objects, drawn, lock, tx>>
  <1>1. row \in [Docs -> Row] /\ indexed \in [Docs -> SUBSET Versions]
    BY DEF IInv, TypeOK
  <1>2. row[d] \in Row /\ row[d].searchable \in 0..MaxVersions
    BY RowFacts DEF IInv
  <1>3. row'[d] = Promoted(row[d], n)
    BY <1>1 DEF FinishIndex
  <1>4. /\ Promoted(row[d], n) \in Row
        /\ Promoted(row[d], n).latest = row[d].latest
        /\ Promoted(row[d], n).title = row[d].title
        /\ Promoted(row[d], n).deleted = row[d].deleted
        /\ Promoted(row[d], n).searchable \in {n, row[d].searchable}
    BY <1>2 DEF Promoted, Row
  <1> QED
    BY <1>1, <1>3, <1>4 DEF FinishIndex


----------------------------------------------------------------------------
(* Locks and creations *)

\* A commit writes the row of the document of its own transaction only, which
\* no other live request has loaded or created.
LEMMA OthersApart ==
  ASSUME IInv, NEW c \in Clients, NEW b \in Clients, b # c,
         Commit(c) \/ CommitVersion(c), tx[b].pc # "idle",
         Creates(b) \/ tx[b].alive
  PROVE  tx[b].doc \in Docs /\ tx[b].doc # tx[c].doc
  <1>1. tx[b].doc \in Docs
    BY DEF IInv, EntityInv
  <1>2. CASE Creates(b)
    <2>1. row[tx[b].doc] = NoRow
      BY <1>2 DEF IInv, CreateInv
    <2>2. ~Visible(tx[b].doc)
      BY <2>1, NoRowFacts DEF Visible
    <2>3. CASE Commit(c)
      BY <1>1, <2>2, <2>3, CommitFacts
    <2>4. CASE CommitVersion(c)
      <3>1. Visible(tx[c].doc) \/ Creates(c)
        BY <2>4, CommitVersionFacts
      <3> QED
        BY <1>1, <1>2, <2>2, <3>1 DEF IInv, CreateInv
    <2> QED
      BY <2>3, <2>4
  <1>3. CASE ~Creates(b) /\ tx[b].alive
    <2>1. lock[tx[b].doc] = b /\ Visible(tx[b].doc)
      BY <1>3 DEF IInv, LockInv
    <2>2. CASE Commit(c)
      BY <1>1, <2>1, <2>2, CommitFacts
    <2>3. CASE CommitVersion(c)
      <3>1. \/ lock[tx[c].doc] = c
            \/ row[tx[c].doc] = NoRow
        BY <2>3, CommitVersionFacts
      <3>2. row[tx[c].doc] = NoRow => ~Visible(tx[c].doc)
        BY NoRowFacts DEF Visible
      <3> QED
        BY <1>1, <2>1, <3>1, <3>2
    <2> QED
      BY <2>2, <2>3
  <1> QED
    BY <1>2, <1>3

\* The rows and the session after a commit.
LEMMA CommitEnds ==
  ASSUME IInv, NEW c \in Clients, Commit(c) \/ CommitVersion(c)
  PROVE  /\ Ended(c)
         /\ row \in [Docs -> Row]
         /\ tx[c].doc \in Docs
         /\ row' = [row EXCEPT ![tx[c].doc] = tx[c].entity]
         /\ row' \in [Docs -> Row]
         /\ row'[tx[c].doc] = tx[c].entity
         /\ \A d \in Docs : d # tx[c].doc => row'[d] = row[d]
         /\ UNCHANGED <<indexed, objects, drawn>>
  <1>1. row \in [Docs -> Row]
    BY DEF IInv, TypeOK
  <1>2. CASE Commit(c)
    <2>1. tx[c].doc \in Docs /\ Flushed(c) = tx[c].entity /\ tx[c].entity \in Row
      BY <1>2, CommitFacts
    <2> QED
      BY <1>1, <1>2, <2>1 DEF Commit
  <1>3. CASE CommitVersion(c)
    <2>1. tx[c].doc \in Docs /\ Flushed(c) = tx[c].entity /\ tx[c].entity \in Row
      BY <1>3, CommitVersionFacts
    <2> QED
      BY <1>1, <1>3, <2>1 DEF CommitVersion
  <1> QED
    BY <1>2, <1>3

LEMMA LockStep ==
  ASSUME IInv, NEW c \in Clients, Request(c)
  PROVE  LockInv'
  <1>1. LockInv /\ \A d \in Docs : lock[d] \in Clients \cup {NoClient}
    BY RowFacts DEF IInv
  <1>2. ASSUME NEW d \in Docs, NEW t \in Titles, StartCreate(c, d, t)
        PROVE  LockInv'
    BY <1>1, <1>2, StartFacts DEF LockInv, Creates, Visible, tables
  <1>3. ASSUME NEW d \in Docs, Load(c, d)
        PROVE  LockInv'
    <2>1. ASSUME NEW e \in Docs, NEW b \in Clients, lock'[e] = b
          PROVE  /\ tx'[b].pc # "idle"
                 /\ tx'[b].alive
                 /\ tx'[b].doc = e
                 /\ ~Creates(b)'
      BY <1>1, <1>3, <2>1, LoadFacts DEF LockInv, Creates
    <2>2. ASSUME NEW b \in Clients, tx'[b].pc # "idle", tx'[b].alive,
                 ~Creates(b)'
          PROVE  /\ lock'[tx'[b].doc] = b
                 /\ tx'[b].loaded = row'[tx'[b].doc]
                 /\ row'[tx'[b].doc].latest > 0
                 /\ ~row'[tx'[b].doc].deleted
      <3>1. CASE b = c
        BY <1>3, <3>1, LoadFacts DEF Visible, tables
      <3>2. CASE b # c
        <4>1. /\ tx[b].pc # "idle" /\ tx[b].alive /\ ~Creates(b)
              /\ tx'[b] = tx[b]
          BY <1>3, <2>2, <3>2, LoadFacts DEF Creates
        <4>2. lock[tx[b].doc] = b /\ tx[b].doc \in Docs
          BY <1>1, <4>1 DEF LockInv, IInv, EntityInv
        <4>3. tx[b].doc # d
          BY <1>3, <4>2, LoadFacts
        <4> QED
          BY <1>1, <1>3, <4>1, <4>2, <4>3, LoadFacts DEF LockInv, Visible, tables
      <3> QED
        BY <3>1, <3>2
    <2> QED
      BY <2>1, <2>2 DEF LockInv, Visible
  <1>4. CASE Changing(c)
    <2>1. PICK pc \in {"ready", "upload"}, e \in Row : Change(c, pc, e)
      BY <1>4, ChangingFacts
    <2>2. \A b \in Clients :
            /\ tx'[b].pc = "idle" <=> tx[b].pc = "idle"
            /\ tx'[b].alive = tx[b].alive
            /\ tx'[b].doc = tx[b].doc
            /\ tx'[b].loaded = tx[b].loaded
      BY <2>1, ChangeFacts
    <2>3. UNCHANGED <<row, lock>>
      BY <2>1, ChangeFacts DEF tables
    <2> QED
      BY <1>1, <2>2, <2>3 DEF LockInv, Creates, Visible
  <1>5. ASSUME NEW x \in Contents, Put(c, x)
        PROVE  LockInv'
    <2>2. \A b \in Clients :
            /\ tx'[b].pc = "idle" <=> tx[b].pc = "idle"
            /\ tx'[b].alive = tx[b].alive
            /\ tx'[b].doc = tx[b].doc
            /\ tx'[b].loaded = tx[b].loaded
      BY <1>5, PutFacts
    <2>3. UNCHANGED <<row, lock>>
      BY <1>5, PutFacts DEF tables
    <2> QED
      BY <1>1, <2>2, <2>3 DEF LockInv, Creates, Visible
  <1>6. CASE Commit(c) \/ CommitVersion(c)
    <2>1. Ended(c) /\ TypeOK
      BY <1>6, CommitEnds DEF IInv
    <2>2. ASSUME NEW e \in Docs, NEW b \in Clients, lock'[e] = b
          PROVE  /\ tx'[b].pc # "idle"
                 /\ tx'[b].alive
                 /\ tx'[b].doc = e
                 /\ ~Creates(b)'
      <3>1. lock[e] = b /\ b # c
        BY <1>1, <2>1, <2>2, EndedFacts
      <3>2. tx'[b] = tx[b]
        BY <2>1, <3>1, EndedFacts
      <3> QED
        BY <1>1, <3>1, <3>2 DEF LockInv, Creates
    <2>3. ASSUME NEW b \in Clients, tx'[b].pc # "idle", tx'[b].alive,
                 ~Creates(b)'
          PROVE  /\ lock'[tx'[b].doc] = b
                 /\ tx'[b].loaded = row'[tx'[b].doc]
                 /\ row'[tx'[b].doc].latest > 0
                 /\ ~row'[tx'[b].doc].deleted
      <3>1. b # c /\ tx'[b] = tx[b]
        BY <2>1, <2>3, EndedFacts
      <3>2. tx[b].pc # "idle" /\ tx[b].alive /\ ~Creates(b)
        BY <2>3, <3>1 DEF Creates
      <3>3. tx[b].doc \in Docs /\ tx[b].doc # tx[c].doc
        BY <1>6, <3>1, <3>2, OthersApart
      <3>4. row'[tx[b].doc] = row[tx[b].doc]
        BY <1>6, <3>3, CommitEnds
      <3>5. lock[tx[b].doc] = b /\ tx[b].loaded = row[tx[b].doc] /\ Visible(tx[b].doc)
        BY <1>1, <3>2 DEF LockInv
      <3>6. lock'[tx[b].doc] = b
        BY <2>1, <3>1, <3>3, <3>5, EndedFacts
      <3> QED
        BY <3>1, <3>4, <3>5, <3>6 DEF Visible
    <2> QED
      BY <2>2, <2>3 DEF LockInv, Visible
  <1>7. CASE Fail(c)
    <2>1. Ended(c) /\ TypeOK /\ UNCHANGED row
      BY <1>7 DEF Fail, tables, IInv
    <2>2. \A d \in Docs, b \in Clients :
            lock'[d] = b => lock[d] = b /\ b # c
      BY <1>1, <2>1, EndedFacts
    <2>3. \A b \in Clients : tx'[b].pc # "idle" => b # c /\ tx'[b] = tx[b]
      BY <2>1, EndedFacts
    <2>4. \A d \in Docs : lock[d] # c => lock'[d] = lock[d]
      BY <2>1, EndedFacts
    <2>5. \A b \in Clients : b # c => tx'[b] = tx[b]
      BY <2>1, EndedFacts
    <2>6. \A b \in Clients : tx[b].pc # "idle" => tx[b].doc \in Docs
      BY DEF IInv, EntityInv
    <2> QED
      BY <1>1, <2>1, <2>2, <2>3, <2>4, <2>5, <2>6 DEF LockInv, Creates, Visible
  <1>8. CASE LoseSession(c)
    <2>1. UNCHANGED row
      BY <1>8, LoseFacts DEF tables
    <2>2. \A d \in Docs, b \in Clients :
            lock'[d] = b => lock[d] = b /\ b # c
      BY <1>1, <1>8, LoseFacts
    <2>3. \A b \in Clients : tx'[b].alive => b # c
      BY <1>8, LoseFacts
    <2>4. \A d \in Docs : lock[d] # c => lock'[d] = lock[d]
      BY <1>8, LoseFacts
    <2>5. \A b \in Clients : b # c => tx'[b] = tx[b]
      BY <1>8, LoseFacts
    <2>6. \A b \in Clients : tx[b].pc # "idle" => tx[b].doc \in Docs
      BY DEF IInv, EntityInv
    <2> QED
      BY <1>1, <2>1, <2>2, <2>3, <2>4, <2>5, <2>6 DEF LockInv, Creates, Visible
  <1> QED
    BY <1>2, <1>3, <1>4, <1>5, <1>6, <1>7, <1>8 DEF Request, Changing

\* The steps of a transaction that change neither what it is about nor any
\* table.
Quiet(c) ==
  \/ Changing(c)
  \/ \E x \in Contents : Put(c, x)
  \/ LoseSession(c)

LEMMA QuietFacts ==
  ASSUME IInv, NEW c \in Clients, Quiet(c)
  PROVE  /\ \A b \in Clients :
              /\ tx'[b].pc = "idle" <=> tx[b].pc = "idle"
              /\ tx'[b].doc = tx[b].doc
              /\ tx'[b].loaded = tx[b].loaded
              /\ Creates(b)' <=> Creates(b)
         /\ UNCHANGED <<tables, drawn>>
  <1>1. CASE Changing(c)
    <2>1. PICK pc \in {"ready", "upload"}, e \in Row : Change(c, pc, e)
      BY <1>1, ChangingFacts
    <2> QED
      BY <2>1, ChangeFacts DEF Creates
  <1>2. CASE \E x \in Contents : Put(c, x)
    BY <1>2, PutFacts DEF Creates
  <1>3. CASE LoseSession(c)
    BY <1>3, LoseFacts DEF Creates
  <1> QED
    BY <1>1, <1>2, <1>3 DEF Quiet

LEMMA LockStepWorker ==
  ASSUME IInv, NEW d \in Docs, NEW n \in Versions, FinishIndex(d, n)
  PROVE  LockInv'
  <1>1. LockInv /\ UNCHANGED <<lock, tx>> /\ lock[d] = NoClient
    BY FinishFacts DEF IInv
  <1>2. \A e \in Docs : e # d => row'[e] = row[e]
    BY FinishFacts
  <1>3. \A c \in Clients : tx[c].pc # "idle" => tx[c].doc \in Docs
    BY DEF IInv, EntityInv
  <1> QED
    BY <1>1, <1>2, <1>3 DEF LockInv, Creates, Visible

LEMMA CreateStep ==
  ASSUME IInv, NEW c \in Clients, Request(c)
  PROVE  CreateInv'
  <1>1. CreateInv
    BY DEF IInv
  <1>2. ASSUME NEW d \in Docs, NEW t \in Titles, StartCreate(c, d, t)
        PROVE  CreateInv'
    <2>1. UNCHANGED row
      BY <1>2, StartFacts DEF tables
    <2>2. \A b \in Clients : b # c => (Creates(b)' <=> Creates(b))
      BY <1>2, StartFacts DEF Creates
    <2> QED
      BY <1>1, <1>2, <2>1, <2>2, StartFacts DEF CreateInv
  <1>3. ASSUME NEW d \in Docs, Load(c, d)
        PROVE  CreateInv'
    <2>1. UNCHANGED <<row, drawn>>
      BY <1>3, LoadFacts DEF tables
    <2>2. \A b \in Clients : Creates(b)' => Creates(b) /\ tx'[b] = tx[b]
      BY <1>3, LoadFacts DEF Creates
    <2> QED
      BY <1>1, <2>1, <2>2 DEF CreateInv
  <1>4. CASE Quiet(c)
    <2>1. /\ \A b \in Clients :
               tx'[b].doc = tx[b].doc /\ (Creates(b)' <=> Creates(b))
          /\ UNCHANGED <<row, drawn>>
      BY <1>4, QuietFacts DEF tables
    <2> QED
      BY <1>1, <2>1 DEF CreateInv
  <1>5. CASE Commit(c) \/ CommitVersion(c)
    <2>1. Ended(c) /\ TypeOK
      BY <1>5, CommitEnds DEF IInv
    <2>2. \A b \in Clients : Creates(b)' => Creates(b) /\ b # c /\ tx'[b] = tx[b]
      BY <2>1, EndedFacts DEF Creates
    <2>3. \A b \in Clients : Creates(b) /\ b # c
            => tx[b].doc \in Docs /\ tx[b].doc # tx[c].doc
      BY <1>5, OthersApart DEF Creates
    <2>4. \A b \in Clients : Creates(b) /\ b # c => row'[tx[b].doc] = row[tx[b].doc]
      BY <1>5, <2>3, CommitEnds
    <2>5. UNCHANGED drawn
      BY <1>5, CommitEnds
    <2> QED
      BY <1>1, <2>2, <2>4, <2>5 DEF CreateInv
  <1>6. CASE Fail(c)
    <2>1. Ended(c) /\ TypeOK /\ UNCHANGED <<row, drawn>>
      BY <1>6 DEF Fail, tables, IInv
    <2>2. \A b \in Clients : Creates(b)' => Creates(b) /\ tx'[b] = tx[b]
      BY <2>1, EndedFacts DEF Creates
    <2> QED
      BY <1>1, <2>1, <2>2 DEF CreateInv
  <1> QED
    BY <1>2, <1>3, <1>4, <1>5, <1>6 DEF Request, Changing, Quiet

LEMMA CreateStepWorker ==
  ASSUME IInv, NEW d \in Docs, NEW n \in Versions, FinishIndex(d, n)
  PROVE  CreateInv'
  <1>1. CreateInv /\ UNCHANGED <<drawn, tx>>
    BY FinishFacts DEF IInv
  <1>2. \A c \in Clients : Creates(c) => tx[c].doc \in Docs
    BY DEF IInv, EntityInv, Creates
  <1>3. row[d] # NoRow
    BY FinishFacts, NoRowFacts DEF Visible
  <1>4. \A c \in Clients : Creates(c) => row'[tx[c].doc] = row[tx[c].doc]
    BY <1>1, <1>2, <1>3, FinishFacts DEF CreateInv
  <1> QED
    BY <1>1, <1>4 DEF CreateInv, Creates

----------------------------------------------------------------------------
(* Entities and objects *)

\* What EntityInv says of one request, as a state T of it.
EntityOf(T) ==
  /\ T.pc # "idle" => T.doc \in Docs
  /\ T.pc = "loaded" => T.entity = T.loaded
  /\ T.pc = "ready" =>
       \/ \E t \in Titles : T.entity = [T.loaded EXCEPT !.title = t]
       \/ T.entity = [T.loaded EXCEPT !.deleted = TRUE]
       \/ \E n \in 1..T.loaded.latest : T.entity = [T.loaded EXCEPT !.searchable = n]
  /\ T.pc \in {"loaded", "ready"} => T.loaded # NoRow
  /\ T.pc \in {"upload", "stored"} =>
       IF T.loaded = NoRow
       THEN \E t \in Titles : T.entity = NewRow(t)
       ELSE /\ T.loaded.latest < MaxVersions
            /\ T.entity = [T.loaded EXCEPT !.latest = T.loaded.latest + 1]

LEMMA EntityOfEach == EntityInv <=> \A c \in Clients : EntityOf(tx[c])
  BY DEF EntityInv, EntityOf, Creates

LEMMA EntityStep ==
  ASSUME IInv, NEW c \in Clients, Request(c)
  PROVE  EntityInv'
  <1>1. \A b \in Clients : EntityOf(tx[b])
    BY EntityOfEach DEF IInv
  <1>2. SUFFICES ASSUME NEW b \in Clients
                 PROVE  EntityOf(tx'[b])
    BY DEF EntityInv, EntityOf, Creates
  <1>3. ASSUME NEW d \in Docs, NEW t \in Titles, StartCreate(c, d, t)
        PROVE  EntityOf(tx'[b])
    <2>1. CASE b = c
      <3>1. /\ tx'[b].pc = "upload"
            /\ tx'[b].doc = d
            /\ tx'[b].loaded = NoRow
            /\ tx'[b].entity = NewRow(t)
        BY <1>3, <2>1, StartFacts
      <3> QED
        BY <3>1 DEF EntityOf
    <2>2. CASE b # c
      BY <1>1, <1>3, <2>2, StartFacts
    <2> QED
      BY <2>1, <2>2
  <1>4. ASSUME NEW d \in Docs, Load(c, d)
        PROVE  EntityOf(tx'[b])
    <2>1. CASE b = c
      <3>1. /\ tx'[b].pc = "loaded"
            /\ tx'[b].doc = d
            /\ tx'[b].loaded = row[d]
            /\ tx'[b].entity = row[d]
            /\ row[d] # NoRow
        BY <1>4, <2>1, LoadFacts
      <3> QED
        BY <3>1 DEF EntityOf
    <2>2. CASE b # c
      BY <1>1, <1>4, <2>2, LoadFacts
    <2> QED
      BY <2>1, <2>2
  <1>5. CASE Changing(c)
    <2>1. PICK pc \in {"ready", "upload"}, e \in Row :
            /\ Change(c, pc, e)
            /\ pc = "ready" =>
                 \/ \E t \in Titles : e = [tx[c].loaded EXCEPT !.title = t]
                 \/ e = [tx[c].loaded EXCEPT !.deleted = TRUE]
                 \/ \E n \in 1..tx[c].loaded.latest :
                      e = [tx[c].loaded EXCEPT !.searchable = n]
            /\ pc = "upload" =>
                 /\ tx[c].loaded.latest < MaxVersions
                 /\ e = [tx[c].loaded EXCEPT !.latest = tx[c].loaded.latest + 1]
      BY <1>5, ChangingFacts
    <2>2. CASE b = c
      <3>1. /\ tx'[c].pc = pc
            /\ tx'[c].doc \in Docs
            /\ tx'[c].loaded = tx[c].loaded
            /\ tx'[c].entity = e
            /\ tx[c].loaded # NoRow
        BY <2>1, ChangeFacts DEF Creates
      <3> QED
        BY <2>1, <2>2, <3>1 DEF EntityOf
    <2>3. CASE b # c
      BY <1>1, <2>1, <2>3, ChangeFacts
    <2> QED
      BY <2>2, <2>3
  <1>6. ASSUME NEW x \in Contents, Put(c, x)
        PROVE  EntityOf(tx'[b])
    <2>1. CASE b = c
      <3>1. /\ tx[c].pc = "upload"
            /\ tx'[c].pc = "stored"
            /\ tx'[c].doc = tx[c].doc
            /\ tx'[c].loaded = tx[c].loaded
            /\ tx'[c].entity = tx[c].entity
        BY <1>6, PutFacts
      <3>2. EntityOf(tx[c])
        BY <1>1
      <3> QED
        BY <2>1, <3>1, <3>2 DEF EntityOf
    <2>2. CASE b # c
      BY <1>1, <1>6, <2>2, PutFacts
    <2> QED
      BY <2>1, <2>2
  <1>7. CASE Commit(c) \/ CommitVersion(c) \/ Fail(c)
    <2>1. Ended(c) /\ TypeOK
      BY <1>7, CommitEnds DEF IInv, Fail
    <2>2. tx'[b].pc = "idle" \/ tx'[b] = tx[b]
      BY <2>1, EndedFacts
    <2> QED
      BY <1>1, <2>2 DEF EntityOf
  <1>8. CASE LoseSession(c)
    <2>1. /\ tx'[b].pc = tx[b].pc
          /\ tx'[b].doc = tx[b].doc
          /\ tx'[b].loaded = tx[b].loaded
          /\ tx'[b].entity = tx[b].entity
      BY <1>8, LoseFacts
    <2>2. EntityOf(tx[b])
      BY <1>1
    <2> QED
      BY <2>1, <2>2 DEF EntityOf
  <1> QED
    BY <1>3, <1>4, <1>5, <1>6, <1>7, <1>8 DEF Request, Changing

\* An upload adds an object with a new name, a commit refers to the object of
\* its own upload, and nothing removes one.
LEMMA StoreStep ==
  ASSUME IInv, NEW c \in Clients, Request(c)
  PROVE  StoreInv'
  <1>1. StoreInv /\ uuid \in 0..MaxUploads
    BY DEF IInv, TypeOK
  <1>2. ASSUME NEW x \in Contents, Put(c, x)
        PROVE  StoreInv'
    <2>1. PICK o \in [key : ObjectKeys, content : Contents] :
            /\ tx[c].pc = "upload"
            /\ uuid + 1 \in 0..MaxUploads
            /\ o.key[3] = uuid + 1
            /\ store' = store \cup {o}
            /\ uuid' = uuid + 1
            /\ tx'[c].object = o
            /\ \A b \in Clients : b # c => tx'[b] = tx[b]
            /\ UNCHANGED <<tables, drawn, lock>>
      BY <1>2, PutFacts
    <2>2. \A p \in store' : p.key[3] \in 1..uuid'
      BY <1>1, <2>1 DEF StoreInv
    <2>3. \A p, q \in store' : p.key[3] = q.key[3] => p = q
      BY <1>1, <2>1 DEF StoreInv
    <2>4. \A b \in Clients : tx'[b].pc = "stored" => tx'[b].object \in store'
      BY <1>1, <2>1 DEF StoreInv
    <2>5. \A d \in Docs, n \in Versions :
            n <= row'[d].latest => version'[d][n] \in store'
      BY <1>1, <2>1 DEF StoreInv, tables
    <2> QED
      BY <2>2, <2>3, <2>4, <2>5 DEF StoreInv
  <1>3. CASE CommitVersion(c)
    <2> DEFINE d == tx[c].doc
               n == tx[c].entity.latest
    <2>1. /\ d \in Docs
          /\ n = row[d].latest + 1
          /\ n \in Versions
          /\ tx[c].object \in store
      BY <1>3, CommitVersionFacts
    <2>2. /\ Ended(c) /\ TypeOK
          /\ row'[d].latest = n
          /\ \A e \in Docs : e # d => row'[e] = row[e]
          /\ UNCHANGED <<store, uuid>>
      BY <1>3, CommitEnds DEF IInv, objects
    <2>3. \A b \in Clients : tx'[b].pc = "stored" => tx'[b].object \in store
      BY <1>1, <2>2, EndedFacts DEF StoreInv
    <2>4. version \in [Docs -> [Versions -> Version]]
      BY <2>2 DEF TypeOK
    <2>5. /\ version'[d][n] = tx[c].object
          /\ \A m \in Versions : m # n => version'[d][m] = version[d][m]
          /\ \A e \in Docs : e # d => version'[e] = version[e]
      BY <1>3, <2>1, <2>4 DEF CommitVersion
    <2>6. row[d].latest \in 0..MaxVersions
      BY <2>1, <2>2, RowFacts
    <2> HIDE DEF d, n
    <2>7. ASSUME NEW e \in Docs, NEW m \in Versions, m <= row'[e].latest
          PROVE  version'[e][m] \in store
      <3>1. CASE e # d
        BY <1>1, <2>2, <2>5, <2>7, <3>1 DEF StoreInv
      <3>2. CASE e = d /\ m = n
        BY <2>1, <2>5, <3>2
      <3>3. CASE e = d /\ m # n
        <4>1. m <= row[d].latest
          BY <2>1, <2>2, <2>6, <2>7, <3>3
        <4> QED
          BY <1>1, <2>1, <2>5, <3>3, <4>1 DEF StoreInv
      <3> QED
        BY <3>1, <3>2, <3>3
    <2> QED
      BY <1>1, <2>2, <2>3, <2>7 DEF StoreInv
  <1>4. CASE Commit(c)
    <2>1. /\ Ended(c) /\ TypeOK
          /\ \A e \in Docs : row'[e].latest = row[e].latest
          /\ UNCHANGED <<store, uuid, version>>
      <3>1. tx[c].doc \in Docs /\ tx[c].entity.latest = row[tx[c].doc].latest
        BY <1>4, CommitFacts
      <3>2. /\ Ended(c) /\ TypeOK
            /\ row'[tx[c].doc] = tx[c].entity
            /\ \A e \in Docs : e # tx[c].doc => row'[e] = row[e]
            /\ UNCHANGED <<store, uuid>>
        BY <1>4, CommitEnds DEF IInv, objects
      <3> QED
        BY <1>4, <3>1, <3>2 DEF Commit
    <2>2. \A b \in Clients : tx'[b].pc = "stored" => tx'[b].object \in store
      BY <1>1, <2>1, EndedFacts DEF StoreInv
    <2> QED
      BY <1>1, <2>1, <2>2 DEF StoreInv
  <1>5. ASSUME /\ UNCHANGED <<tables, objects>>
               /\ \A b \in Clients : tx'[b].pc = "stored" =>
                    tx[b].pc = "stored" /\ tx'[b].object = tx[b].object
        PROVE  StoreInv'
    BY <1>1, <1>5 DEF StoreInv, tables, objects
  <1>6. ASSUME NEW d \in Docs, NEW t \in Titles, StartCreate(c, d, t)
        PROVE  StoreInv'
    BY <1>5, <1>6, StartFacts
  <1>7. ASSUME NEW d \in Docs, Load(c, d)
        PROVE  StoreInv'
    BY <1>5, <1>7, LoadFacts
  <1>8. CASE Changing(c)
    <2>1. PICK pc \in {"ready", "upload"}, e \in Row : Change(c, pc, e)
      BY <1>8, ChangingFacts
    <2> QED
      BY <1>5, <2>1, ChangeFacts
  <1>9. CASE Fail(c)
    <2>1. Ended(c) /\ TypeOK /\ UNCHANGED <<tables, objects>>
      BY <1>9 DEF Fail, IInv
    <2> QED
      BY <1>5, <2>1, EndedFacts
  <1>10. CASE LoseSession(c)
    BY <1>5, <1>10, LoseFacts
  <1> QED
    BY <1>2, <1>3, <1>4, <1>6, <1>7, <1>8, <1>9, <1>10 DEF Request, Changing

LEMMA StoreStepWorker ==
  ASSUME IInv, NEW d \in Docs, NEW n \in Versions, FinishIndex(d, n)
  PROVE  StoreInv'
  <1>1. /\ \A e \in Docs : row'[e].latest = row[e].latest
        /\ UNCHANGED <<version, store, uuid, tx>>
    BY FinishFacts DEF objects
  <1> QED
    BY <1>1 DEF IInv, StoreInv

----------------------------------------------------------------------------
(* The tables *)

\* Of the steps of a request only the commits write to the tables.
LEMMA OnlyCommitsWrite ==
  ASSUME IInv, NEW c \in Clients, Request(c)
  PROVE  \/ Commit(c)
         \/ CommitVersion(c)
         \/ UNCHANGED tables /\ drawn \subseteq drawn' /\ drawn' \subseteq Docs
  <1>1. drawn \subseteq Docs
    BY DEF IInv, TypeOK
  <1>2. ASSUME NEW d \in Docs, NEW t \in Titles, StartCreate(c, d, t)
        PROVE  UNCHANGED tables /\ drawn \subseteq drawn' /\ drawn' \subseteq Docs
    BY <1>1, <1>2, StartFacts
  <1>3. ASSUME NEW d \in Docs, Load(c, d)
        PROVE  UNCHANGED <<tables, drawn>>
    BY <1>3, LoadFacts
  <1>4. CASE Quiet(c)
    BY <1>1, <1>4, QuietFacts
  <1>5. CASE Fail(c)
    BY <1>1, <1>5 DEF Fail
  <1> QED
    BY <1>1, <1>2, <1>3, <1>4, <1>5 DEF Request, Quiet, Changing

\* What the commit of an upload writes besides the document row.
LEMMA VersionWritten ==
  ASSUME IInv, NEW c \in Clients, CommitVersion(c)
  PROVE  LET d == tx[c].doc
             n == tx[c].entity.latest
             o == tx[c].object
         IN  /\ version' \in [Docs -> [Versions -> Version]]
             /\ version'[d][n] = o
             /\ \A m \in Versions : m # n => version'[d][m] = version[d][m]
             /\ \A e \in Docs : e # d => version'[e] = version[e]
             /\ jobs' \in [Docs -> Seq(MaybeVersion)]
             /\ jobs'[d] = Append(jobs[d], n)
             /\ \A e \in Docs : e # d => jobs'[e] = jobs[e]
             /\ reported' \in [Docs -> [Versions -> MaybeVersion]]
             /\ reported'[d][n] = Earliest(d, o.content)
             /\ \A m \in Versions : m # n => reported'[d][m] = reported[d][m]
             /\ \A e \in Docs : e # d => reported'[e] = reported[e]
  <1> DEFINE d == tx[c].doc
             n == tx[c].entity.latest
             o == tx[c].object
  <1>1. TypeOK /\ d \in Docs /\ n \in Versions /\ n \in MaybeVersion
    <2>1. TypeOK
      BY DEF IInv
    <2>2. d \in Docs /\ n \in Versions
      BY CommitVersionFacts
    <2> QED
      BY <2>1, <2>2
  <1>2. o \in Version /\ o.content \in Contents
    BY <1>1, TxFacts, CommitVersionFacts
  <1>3. Earliest(d, o.content) \in MaybeVersion
    BY <1>1, <1>2, EarliestFacts
  <1>4. /\ version \in [Docs -> [Versions -> Version]]
        /\ jobs \in [Docs -> Seq(MaybeVersion)]
        /\ reported \in [Docs -> [Versions -> MaybeVersion]]
    BY <1>1 DEF TypeOK
  <1>5. Append(jobs[d], n) \in Seq(MaybeVersion)
    BY <1>1, <1>4, AppendProperties
  <1>6. /\ version' = [version EXCEPT ![d] = [version[d] EXCEPT ![n] = o]]
        /\ jobs' = [jobs EXCEPT ![d] = Append(jobs[d], n)]
        /\ reported' = [reported EXCEPT ![d] =
                          [reported[d] EXCEPT ![n] = Earliest(d, o.content)]]
    BY <1>1, <1>4 DEF CommitVersion
  <1> HIDE DEF d, n, o
  <1> QED
    BY <1>1, <1>2, <1>3, <1>4, <1>5, <1>6 DEF d, n, o

LEMMA NumbersStep ==
  ASSUME IInv, NEW c \in Clients, Request(c)
  PROVE  NumbersInv'
  <1>1. NumbersInv /\ TypeOK
    BY DEF IInv
  <1>2. CASE UNCHANGED tables /\ drawn \subseteq drawn'
    BY <1>1, <1>2 DEF NumbersInv, tables
  <1>3. CASE Commit(c)
    <2> DEFINE d == tx[c].doc
               e == tx[c].entity
    <2>1. /\ d \in Docs
          /\ row[d].latest > 0
          /\ row[d].latest \in 0..MaxVersions
          /\ e.latest = row[d].latest
          /\ \/ e.searchable = row[d].searchable
             \/ e.searchable \in 1..row[d].latest
      BY <1>1, <1>3, CommitFacts, RowFacts DEF Visible
    <2>2. /\ row'[d] = e
          /\ \A f \in Docs : f # d => row'[f] = row[f]
          /\ UNCHANGED <<version, indexed, drawn>>
      BY <1>3, CommitEnds DEF Commit
    <2> HIDE DEF d, e
    <2>3. \A f \in Docs : row'[f].latest = row[f].latest
      BY <2>1, <2>2
    <2>4. \A f \in Docs : row'[f].searchable <= row'[f].latest
      BY <1>1, <2>1, <2>2 DEF NumbersInv
    <2>5. \A f \in Docs : row'[f].latest = 0 => row'[f] = NoRow
      BY <1>1, <2>1, <2>2 DEF NumbersInv
    <2> QED
      BY <1>1, <2>2, <2>3, <2>4, <2>5 DEF NumbersInv
  <1>4. CASE CommitVersion(c)
    <2> DEFINE d == tx[c].doc
               n == tx[c].entity.latest
    <2>1. /\ d \in Docs
          /\ n = row[d].latest + 1
          /\ n \in Versions
          /\ tx[c].entity.searchable = row[d].searchable
          /\ tx[c].object.content \in Contents
          /\ d \in drawn
          /\ row[d].latest \in 0..MaxVersions
          /\ row[d].searchable \in 0..MaxVersions
          /\ indexed[d] \subseteq Versions
      BY <1>1, <1>4, CommitVersionFacts, RowFacts
    <2>2. /\ row'[d].latest = n
          /\ row'[d].searchable = row[d].searchable
          /\ \A f \in Docs : f # d => row'[f] = row[f]
          /\ UNCHANGED <<indexed, drawn>>
      BY <1>4, <2>1, CommitEnds
    <2>3. /\ version'[d][n].content \in Contents
          /\ \A m \in Versions : m # n => version'[d][m] = version[d][m]
          /\ \A f \in Docs : f # d => version'[f] = version[f]
      BY <1>4, <2>1, VersionWritten
    <2> HIDE DEF d, n
    <2>4. ASSUME NEW f \in Docs, f # d
          PROVE  /\ \A m \in Versions :
                      version'[f][m].content = NoContent <=> m > row'[f].latest
                 /\ \A m \in Versions :
                      m > row'[f].latest => version'[f][m] = NoVersion
                 /\ indexed'[f] \subseteq 1..row'[f].latest
                 /\ row'[f].searchable <= row'[f].latest
                 /\ row'[f].latest = 0 => row'[f] = NoRow
                 /\ row'[f].latest > 0 => f \in drawn'
      BY <1>1, <2>2, <2>3, <2>4 DEF NumbersInv
    <2>5. \A m \in Versions :
             version'[d][m].content = NoContent <=> m > row'[d].latest
      <3>1. \A m \in Versions : m # n =>
               (version'[d][m].content = NoContent <=> m > row[d].latest)
        BY <1>1, <2>1, <2>3 DEF NumbersInv
      <3> QED
        BY <2>1, <2>2, <2>3, <3>1
    <2>6. \A m \in Versions : m > row'[d].latest => version'[d][m] = NoVersion
      <3>1. \A m \in Versions : m > row[d].latest => version[d][m] = NoVersion
        BY <1>1, <2>1 DEF NumbersInv
      <3> QED
        BY <2>1, <2>2, <2>3, <3>1
    <2>7. /\ indexed'[d] \subseteq 1..row'[d].latest
          /\ row'[d].searchable <= row'[d].latest
          /\ row'[d].latest # 0
          /\ d \in drawn'
      <3>1. indexed[d] \subseteq 1..row[d].latest /\ row[d].searchable <= row[d].latest
        BY <1>1, <2>1 DEF NumbersInv
      <3> QED
        BY <2>1, <2>2, <3>1
    <2>8. \A f \in Docs : row'[f].latest > 0 => f \in drawn'
      BY <2>4, <2>7
    <2> QED
      BY <2>4, <2>5, <2>6, <2>7, <2>8 DEF NumbersInv
  <1> QED
    BY <1>2, <1>3, <1>4, OnlyCommitsWrite

LEMMA NumbersStepWorker ==
  ASSUME IInv, NEW d \in Docs, NEW n \in Versions, FinishIndex(d, n)
  PROVE  NumbersInv'
  <1>1. NumbersInv /\ row[d].latest \in 0..MaxVersions
    BY RowFacts DEF IInv
  <1>2. /\ n <= row[d].latest
        /\ row'[d].latest = row[d].latest
        /\ row'[d].searchable \in {n, row[d].searchable}
        /\ row[d].latest > 0
        /\ \A f \in Docs : f # d => row'[f] = row[f] /\ indexed'[f] = indexed[f]
        /\ indexed'[d] = indexed[d] \cup {n}
        /\ UNCHANGED <<version, drawn>>
    BY FinishFacts DEF Visible
  <1>3. \A f \in Docs : row'[f].latest = row[f].latest
    BY <1>2
  <1>4. \A f \in Docs : indexed'[f] \subseteq 1..row'[f].latest
    BY <1>1, <1>2 DEF NumbersInv
  <1>5. \A f \in Docs : row'[f].searchable <= row'[f].latest
    BY <1>1, <1>2 DEF NumbersInv
  <1>6. \A f \in Docs : row'[f].latest = 0 => row'[f] = NoRow
    BY <1>1, <1>2 DEF NumbersInv
  <1> QED
    BY <1>1, <1>2, <1>3, <1>4, <1>5, <1>6 DEF NumbersInv

\* A commit enqueues a deletion exactly when it deletes, and a version exactly
\* when it adds one.
LEMMA JobsStep ==
  ASSUME IInv, NEW c \in Clients, Request(c)
  PROVE  JobsFollowVersions'
  <1>1. JobsFollowVersions /\ TypeOK
    BY DEF IInv
  <1> DEFINE d == tx[c].doc
             e == tx[c].entity
             k == Len(jobs[d])
  <1>2. CASE UNCHANGED tables
    BY <1>1, <1>2 DEF JobsFollowVersions, tables
  <1>3. ASSUME d \in Docs,
               \A f \in Docs : f # d => row'[f] = row[f] /\ jobs'[f] = jobs[f],
               Len(jobs'[d]) = row'[d].latest + (IF row'[d].deleted THEN 1 ELSE 0),
               \A i \in 1..Len(jobs'[d]) :
                 jobs'[d][i] = IF i <= row'[d].latest THEN i ELSE 0
        PROVE  JobsFollowVersions'
    <2> HIDE DEF d
    <2> QED
      BY <1>1, <1>3 DEF JobsFollowVersions
  <1>4. CASE Commit(c)
    <2>1. /\ d \in Docs
          /\ row[d].deleted = FALSE
          /\ row[d].latest \in 0..MaxVersions
          /\ e.latest = row[d].latest
          /\ e.deleted \in BOOLEAN
          /\ Flushed(c) = e
      <3>1. d \in Docs /\ Visible(d) /\ e.latest = row[d].latest
            /\ Flushed(c) = e /\ e \in Row
        BY <1>4, CommitFacts
      <3>2. row[d].deleted \in BOOLEAN /\ row[d].latest \in 0..MaxVersions
        BY <1>1, <3>1, RowFacts
      <3> QED
        BY <3>1, <3>2 DEF Visible, Row
    <2>2. /\ row'[d] = e
          /\ \A f \in Docs : f # d => row'[f] = row[f]
      BY <1>4, CommitEnds
    <2>3. jobs \in [Docs -> Seq(MaybeVersion)] /\ jobs[d] \in Seq(MaybeVersion)
      BY <1>1, <2>1 DEF TypeOK
    <2>4. /\ k = row[d].latest
          /\ \A i \in 1..k : jobs[d][i] = i
      BY <1>1, <2>1 DEF JobsFollowVersions
    <2>5. CASE e.deleted = TRUE
      <3>1. jobs' = [jobs EXCEPT ![d] = Append(jobs[d], 0)]
        BY <1>4, <2>1, <2>3, <2>5 DEF Commit
      <3>2. 0 \in MaybeVersion
        OBVIOUS
      <3>3. /\ Len(Append(jobs[d], 0)) = k + 1
            /\ \A i \in 1..k : Append(jobs[d], 0)[i] = jobs[d][i]
            /\ Append(jobs[d], 0)[k + 1] = 0
        BY <2>3, <3>2, AppendProperties
      <3>4. jobs'[d] = Append(jobs[d], 0)
            /\ \A f \in Docs : f # d => jobs'[f] = jobs[f]
        BY <2>1, <2>3, <3>1
      <3>5. /\ Len(jobs'[d]) = row[d].latest + 1
            /\ \A i \in 1..row[d].latest : jobs'[d][i] = i
            /\ jobs'[d][row[d].latest + 1] = 0
        BY <2>4, <3>3, <3>4
      <3>6. row'[d].latest = row[d].latest /\ row'[d].deleted
        BY <2>1, <2>2, <2>5
      <3>7. \A f \in Docs : f # d => row'[f] = row[f] /\ jobs'[f] = jobs[f]
        BY <2>2, <3>4
      <3> HIDE DEF d, e, k
      <3>8. /\ Len(jobs'[d]) = row'[d].latest + (IF row'[d].deleted THEN 1 ELSE 0)
            /\ \A i \in 1..Len(jobs'[d]) :
                 jobs'[d][i] = IF i <= row'[d].latest THEN i ELSE 0
        BY <2>1, <3>5, <3>6
      <3> QED
        BY <1>3, <2>1, <3>7, <3>8
    <2>6. CASE e.deleted = FALSE
      <3>1. jobs' = jobs
        BY <1>4, <2>1, <2>6 DEF Commit
      <3>2. row'[d].latest = row[d].latest /\ ~row'[d].deleted
        BY <2>1, <2>2, <2>6
      <3> HIDE DEF d, e, k
      <3>3. /\ Len(jobs'[d]) = row'[d].latest + (IF row'[d].deleted THEN 1 ELSE 0)
            /\ \A i \in 1..Len(jobs'[d]) :
                 jobs'[d][i] = IF i <= row'[d].latest THEN i ELSE 0
        BY <2>1, <2>4, <3>1, <3>2 DEF k
      <3> QED
        BY <1>3, <2>1, <2>2, <3>1, <3>3
    <2> QED
      BY <2>1, <2>5, <2>6
  <1>5. CASE CommitVersion(c)
    <2> DEFINE n == e.latest
    <2>1. /\ d \in Docs
          /\ row[d].deleted = FALSE
          /\ e.deleted = FALSE
          /\ n = row[d].latest + 1
          /\ n \in Versions
          /\ row[d].latest \in 0..MaxVersions
      BY <1>1, <1>5, CommitVersionFacts, RowFacts
    <2>2. /\ row'[d] = e
          /\ \A f \in Docs : f # d => row'[f] = row[f]
      BY <1>5, CommitEnds
    <2>3. jobs[d] \in Seq(MaybeVersion) /\ n \in MaybeVersion
      BY <1>1, <2>1 DEF TypeOK
    <2>4. /\ k = row[d].latest
          /\ \A i \in 1..k : jobs[d][i] = i
      BY <1>1, <2>1 DEF JobsFollowVersions
    <2>5. /\ jobs'[d] = Append(jobs[d], n)
          /\ \A f \in Docs : f # d => jobs'[f] = jobs[f]
      BY <1>5, VersionWritten
    <2>6. /\ Len(Append(jobs[d], n)) = k + 1
          /\ \A i \in 1..k : Append(jobs[d], n)[i] = jobs[d][i]
          /\ Append(jobs[d], n)[k + 1] = n
      BY <2>3, AppendProperties
    <2>7. /\ Len(jobs'[d]) = n
          /\ \A i \in 1..row[d].latest : jobs'[d][i] = i
          /\ jobs'[d][n] = n
      BY <2>1, <2>4, <2>5, <2>6
    <2>8. row'[d].latest = n /\ ~row'[d].deleted
      BY <2>1, <2>2
    <2>9. \A f \in Docs : f # d => row'[f] = row[f] /\ jobs'[f] = jobs[f]
      BY <2>2, <2>5
    <2> HIDE DEF d, e, k, n
    <2>10. /\ Len(jobs'[d]) = row'[d].latest + (IF row'[d].deleted THEN 1 ELSE 0)
           /\ \A i \in 1..Len(jobs'[d]) :
                jobs'[d][i] = IF i <= row'[d].latest THEN i ELSE 0
      BY <2>1, <2>7, <2>8
    <2> QED
      BY <1>3, <2>1, <2>9, <2>10
  <1> QED
    BY <1>2, <1>4, <1>5, OnlyCommitsWrite

LEMMA JobsStepWorker ==
  ASSUME IInv, NEW d \in Docs, NEW n \in Versions, FinishIndex(d, n)
  PROVE  JobsFollowVersions'
  <1>1. /\ \A f \in Docs : /\ row'[f].latest = row[f].latest
                           /\ row'[f].deleted = row[f].deleted
        /\ UNCHANGED jobs
    BY FinishFacts
  <1>2. JobsFollowVersions
    BY DEF IInv
  <1> QED
    BY <1>1, <1>2 DEF JobsFollowVersions

\* The number reported with a new version is the least with its content, and
\* what was reported before stays right, because contents never change.
LEMMA DuplicatesStep ==
  ASSUME IInv, NEW c \in Clients, Request(c)
  PROVE  DuplicatesAgree'
  <1>1. DuplicatesAgree /\ TypeOK /\ NumbersInv
    BY DEF IInv
  <1>2. ASSUME UNCHANGED <<version, reported>>,
               \A f \in Docs : row'[f].latest = row[f].latest
        PROVE  DuplicatesAgree'
    BY <1>1, <1>2 DEF DuplicatesAgree
  <1>3. CASE UNCHANGED tables
    BY <1>2, <1>3 DEF tables
  <1>4. CASE Commit(c)
    <2>1. tx[c].doc \in Docs /\ tx[c].entity.latest = row[tx[c].doc].latest
      BY <1>4, CommitFacts
    <2>2. /\ row'[tx[c].doc] = tx[c].entity
          /\ \A f \in Docs : f # tx[c].doc => row'[f] = row[f]
      BY <1>4, CommitEnds
    <2>3. \A f \in Docs : row'[f].latest = row[f].latest
      BY <2>1, <2>2
    <2>4. UNCHANGED <<version, reported>>
      BY <1>4 DEF Commit
    <2> QED
      BY <1>2, <2>3, <2>4
  <1>5. CASE CommitVersion(c)
    <2> DEFINE d == tx[c].doc
               n == tx[c].entity.latest
               x == tx[c].object.content
    <2>1. /\ d \in Docs
          /\ n = row[d].latest + 1
          /\ n \in Versions
          /\ x \in Contents
          /\ row[d].latest \in 0..MaxVersions
      BY <1>1, <1>5, CommitVersionFacts, RowFacts
    <2>2. /\ row'[d].latest = n
          /\ \A f \in Docs : f # d => row'[f] = row[f]
      BY <1>5, CommitEnds
    <2>3. /\ version'[d][n].content = x
          /\ \A m \in Versions : m # n => version'[d][m] = version[d][m]
          /\ \A f \in Docs : f # d => version'[f] = version[f]
          /\ reported'[d][n] = Earliest(d, x)
          /\ \A m \in Versions : m # n => reported'[d][m] = reported[d][m]
          /\ \A f \in Docs : f # d => reported'[f] = reported[f]
      BY <1>5, VersionWritten
    <2>4. /\ Earliest(d, x) \in MaybeVersion
          /\ Earliest(d, x) = 0 => \A m \in Versions : version[d][m].content # x
          /\ Earliest(d, x) # 0 =>
               /\ version[d][Earliest(d, x)].content = x
               /\ \A m \in Versions : version[d][m].content = x => Earliest(d, x) <= m
      BY <1>1, <2>1, EarliestFacts
    <2>5. \A m \in Versions : version[d][m].content = NoContent <=> m > row[d].latest
      BY <1>1, <2>1 DEF NumbersInv
    <2>6. \A m \in Versions : reported[d][m] \in MaybeVersion
      BY <1>1, <2>1 DEF TypeOK
    <2> HIDE DEF d, n, x
    <2>7. SUFFICES
            ASSUME NEW f \in Docs, NEW k \in Versions, k <= row'[f].latest,
                   NEW m \in 1..k,
                   version'[f][m].content = version'[f][k].content
            PROVE  IF reported'[f][k] = 0 THEN m = k
                   ELSE /\ reported'[f][k] <= m
                        /\ version'[f][reported'[f][k]].content
                             = version'[f][k].content
      BY DEF DuplicatesAgree
    <2>8. CASE f # d
      BY <1>1, <2>2, <2>3, <2>7, <2>8 DEF DuplicatesAgree
    <2>9. CASE f = d /\ k # n
      <3>1. k <= row[d].latest /\ m # n /\ m \in Versions
        BY <2>1, <2>2, <2>7, <2>9
      <3>2. version[d][m].content = version[d][k].content
        BY <2>3, <2>7, <2>9, <3>1
      <3>3. IF reported[d][k] = 0 THEN m = k
            ELSE /\ reported[d][k] <= m
                 /\ version[d][reported[d][k]].content = version[d][k].content
        BY <1>1, <2>1, <3>1, <3>2 DEF DuplicatesAgree
      <3>4. reported'[d][k] = reported[d][k] /\ reported[d][k] \in MaybeVersion
        BY <2>3, <2>6, <2>9
      <3>5. ASSUME reported[d][k] # 0
            PROVE  version'[d][reported[d][k]] = version[d][reported[d][k]]
        <4>1. reported[d][k] \in Versions /\ reported[d][k] # n
          BY <2>1, <3>1, <3>3, <3>4, <3>5
        <4> QED
          BY <2>3, <4>1
      <3> QED
        BY <2>3, <2>9, <3>3, <3>4, <3>5
    <2>10. CASE f = d /\ k = n
      <3>1. version'[d][m].content = x /\ m \in Versions
        BY <2>1, <2>3, <2>7, <2>10
      <3>2. m # n => version[d][m].content = x
        BY <2>3, <3>1
      <3>3. CASE Earliest(d, x) = 0
        BY <2>3, <2>4, <2>10, <3>1, <3>2, <3>3
      <3>4. CASE Earliest(d, x) # 0
        <4>1. /\ Earliest(d, x) \in Versions
              /\ version[d][Earliest(d, x)].content = x
          BY <2>4, <3>4
        <4>2. Earliest(d, x) <= row[d].latest
          <5>1. x # NoContent
            BY <2>1
          <5> QED
            BY <2>1, <2>5, <4>1, <5>1
        <4>3. Earliest(d, x) # n /\ Earliest(d, x) <= m
          BY <2>1, <2>4, <2>10, <3>1, <3>2, <3>4, <4>1, <4>2
        <4>4. version'[d][Earliest(d, x)].content = x
          BY <2>3, <4>1, <4>3
        <4> QED
          BY <2>3, <2>10, <3>4, <4>3, <4>4
      <3> QED
        BY <3>3, <3>4
    <2> QED
      BY <2>8, <2>9, <2>10
  <1> QED
    BY <1>3, <1>4, <1>5, OnlyCommitsWrite

LEMMA DuplicatesStepWorker ==
  ASSUME IInv, NEW d \in Docs, NEW n \in Versions, FinishIndex(d, n)
  PROVE  DuplicatesAgree'
  <1>1. /\ \A f \in Docs : row'[f].latest = row[f].latest
        /\ UNCHANGED <<version, reported>>
    BY FinishFacts
  <1>2. DuplicatesAgree
    BY DEF IInv
  <1> QED
    BY <1>1, <1>2 DEF DuplicatesAgree

----------------------------------------------------------------------------
(* The invariant *)

LEMMA TypeStep ==
  ASSUME IInv, NEW c \in Clients, Request(c)
  PROVE  TypeOK'
  <1>1. TypeOK
    BY DEF IInv
  <1>2. CASE Commit(c)
    <2>1. Ended(c) /\ row' \in [Docs -> Row] /\ UNCHANGED <<indexed, objects, drawn>>
      BY <1>2, CommitEnds
    <2>2. jobs' \in [Docs -> Seq(MaybeVersion)]
      <3>1. tx[c].doc \in Docs
        BY <1>2, CommitFacts
      <3>2. jobs \in [Docs -> Seq(MaybeVersion)] /\ 0 \in MaybeVersion
        BY <1>1 DEF TypeOK
      <3>3. Append(jobs[tx[c].doc], 0) \in Seq(MaybeVersion)
        BY <3>1, <3>2, AppendProperties
      <3>4. \/ jobs' = jobs
            \/ jobs' = [jobs EXCEPT ![tx[c].doc] = Append(jobs[tx[c].doc], 0)]
        BY <1>2, <3>1, <3>2 DEF Commit
      <3> QED
        BY <3>1, <3>2, <3>3, <3>4
    <2>3. UNCHANGED <<version, reported>>
      BY <1>2 DEF Commit
    <2>4. tx' \in [Clients -> Tx] /\ lock' \in [Docs -> Clients \cup {NoClient}]
      BY <1>1, <2>1, EndedFacts
    <2> QED
      BY <1>1, <2>1, <2>2, <2>3, <2>4 DEF TypeOK, objects
  <1>3. CASE CommitVersion(c)
    <2>1. Ended(c) /\ row' \in [Docs -> Row] /\ UNCHANGED <<indexed, objects, drawn>>
      BY <1>3, CommitEnds
    <2>2. tx' \in [Clients -> Tx] /\ lock' \in [Docs -> Clients \cup {NoClient}]
      BY <1>1, <2>1, EndedFacts
    <2>3. /\ version' \in [Docs -> [Versions -> Version]]
          /\ jobs' \in [Docs -> Seq(MaybeVersion)]
          /\ reported' \in [Docs -> [Versions -> MaybeVersion]]
      BY <1>3, VersionWritten
    <2> QED
      BY <1>1, <2>1, <2>2, <2>3 DEF TypeOK, objects
  <1>4. ASSUME NEW d \in Docs, NEW t \in Titles, StartCreate(c, d, t)
        PROVE  TypeOK'
    BY <1>1, <1>4, StartFacts DEF TypeOK, tables, objects
  <1>5. ASSUME NEW d \in Docs, Load(c, d)
        PROVE  TypeOK'
    BY <1>1, <1>5, LoadFacts DEF TypeOK, tables, objects
  <1>6. CASE Changing(c)
    <2>1. PICK pc \in {"ready", "upload"}, e \in Row : Change(c, pc, e)
      BY <1>6, ChangingFacts
    <2>2. tx' \in [Clients -> Tx] /\ UNCHANGED <<tables, objects, drawn, lock>>
      BY <2>1, ChangeFacts
    <2> QED
      BY <1>1, <2>2 DEF TypeOK, tables, objects
  <1>7. ASSUME NEW x \in Contents, Put(c, x)
        PROVE  TypeOK'
    <2>1. PICK o \in [key : ObjectKeys, content : Contents] :
            /\ store' = store \cup {o}
            /\ uuid + 1 \in 0..MaxUploads
            /\ uuid' = uuid + 1
            /\ tx' \in [Clients -> Tx]
            /\ UNCHANGED <<tables, drawn, lock>>
      BY <1>7, PutFacts
    <2> QED
      BY <1>1, <2>1 DEF TypeOK, tables
  <1>8. CASE Fail(c)
    <2>1. Ended(c) /\ UNCHANGED <<tables, objects, drawn>>
      BY <1>8 DEF Fail
    <2>2. tx' \in [Clients -> Tx] /\ lock' \in [Docs -> Clients \cup {NoClient}]
      BY <1>1, <2>1, EndedFacts
    <2> QED
      BY <1>1, <2>1, <2>2 DEF TypeOK, tables, objects
  <1>9. CASE LoseSession(c)
    BY <1>1, <1>9, LoseFacts DEF TypeOK, tables, objects
  <1> QED
    BY <1>2, <1>3, <1>4, <1>5, <1>6, <1>7, <1>8, <1>9 DEF Request, Changing

LEMMA TypeStepWorker ==
  ASSUME IInv, NEW d \in Docs, NEW n \in Versions, FinishIndex(d, n)
  PROVE  TypeOK'
  BY FinishFacts DEF IInv, TypeOK, objects

LEMMA InitIInv == Init => IInv
  <1> SUFFICES ASSUME Init
               PROVE  IInv
    OBVIOUS
  <1>1. /\ row = [d \in Docs |-> NoRow]
        /\ version = [d \in Docs |-> [n \in Versions |-> NoVersion]]
        /\ indexed = [d \in Docs |-> {}]
        /\ jobs = [d \in Docs |-> <<>>]
        /\ drawn = {}
        /\ lock = [d \in Docs |-> NoClient]
        /\ tx = [c \in Clients |-> NoTx]
        /\ store = {}
        /\ uuid = 0
        /\ reported = [d \in Docs |-> [n \in Versions |-> 0]]
    BY DEF Init
  <1>2. TypeOK
    <2>1. /\ 0 \in MaybeVersion
          /\ 0 \in 0..MaxUploads
          /\ <<>> \in Seq(MaybeVersion)
      OBVIOUS
    <2> QED
      BY <1>1, <2>1, NoRowFacts, NoVersionFacts, NoTxFacts DEF TypeOK
  <1>3. NumbersInv
    <2>1. \A d \in Docs : row[d].latest = 0 /\ row[d].searchable = 0 /\ row[d] = NoRow
      BY <1>1, NoRowFacts
    <2>2. \A d \in Docs, n \in Versions :
            version[d][n] = NoVersion /\ version[d][n].content = NoContent
      BY <1>1, NoVersionFacts
    <2>3. \A d \in Docs : indexed[d] = {}
      BY <1>1
    <2> SUFFICES ASSUME NEW d \in Docs
                 PROVE  /\ \A n \in Versions :
                             version[d][n].content = NoContent <=> n > row[d].latest
                        /\ \A n \in Versions :
                             n > row[d].latest => version[d][n] = NoVersion
                        /\ indexed[d] \subseteq 1..row[d].latest
                        /\ row[d].searchable <= row[d].latest
                        /\ row[d].latest = 0 => row[d] = NoRow
                        /\ row[d].latest > 0 => d \in drawn
      BY DEF NumbersInv
    <2>4. row[d].latest = 0 /\ row[d].searchable = 0 /\ row[d] = NoRow
      BY <2>1
    <2>5. \A n \in Versions : n > row[d].latest
      BY <2>4
    <2> QED
      BY <2>2, <2>3, <2>4, <2>5
  <1>4. \A c \in Clients : tx[c] = NoTx /\ tx[c].pc = "idle"
    BY <1>1, NoTxFacts
  <1>5. LockInv
    BY <1>1, <1>4 DEF LockInv
  <1>6. CreateInv
    BY <1>4 DEF CreateInv, Creates
  <1>7. EntityInv
    BY <1>4 DEF EntityInv
  <1>8. \A d \in Docs : row[d].latest = 0 /\ row[d].deleted = FALSE /\ jobs[d] = <<>>
    BY <1>1, NoRowFacts
  <1>9. StoreInv
    BY <1>1, <1>4, <1>8 DEF StoreInv
  <1>10. JobsFollowVersions
    <2> SUFFICES ASSUME NEW d \in Docs
                 PROVE  /\ Len(jobs[d]) = row[d].latest
                                           + (IF row[d].deleted THEN 1 ELSE 0)
                        /\ \A i \in 1..Len(jobs[d]) :
                             jobs[d][i] = IF i <= row[d].latest THEN i ELSE 0
      BY DEF JobsFollowVersions
    <2>1. Len(jobs[d]) = 0
      <3>1. jobs[d] = <<>>
        BY <1>8
      <3>2. Len(<<>>) = 0
        OBVIOUS
      <3> QED
        BY <3>1, <3>2, Zenon
    <2>2. row[d].latest = 0 /\ ~row[d].deleted
      BY <1>8
    <2> HIDE DEF Versions
    <2> QED
      BY <2>1, <2>2
  <1>11. DuplicatesAgree
    BY <1>8 DEF DuplicatesAgree
  <1> QED
    BY <1>2, <1>3, <1>5, <1>6, <1>7, <1>9, <1>10, <1>11 DEF IInv

\* Every step preserves the invariant.
LEMMA StepIInv == IInv /\ [Next]_vars => IInv'
  <1> SUFFICES ASSUME IInv, [Next]_vars
               PROVE  IInv'
    OBVIOUS
  <1>1. ASSUME NEW c \in Clients, Request(c)
        PROVE  IInv'
    BY <1>1, TypeStep, NumbersStep, LockStep, CreateStep, EntityStep, StoreStep,
       JobsStep, DuplicatesStep DEF IInv
  <1>2. ASSUME NEW d \in Docs, NEW n \in Versions, FinishIndex(d, n)
        PROVE  IInv'
    <2>1. EntityInv'
      <3>1. UNCHANGED tx
        BY <1>2, FinishFacts
      <3>2. EntityInv
        BY DEF IInv
      <3> QED
        BY <3>1, <3>2 DEF EntityInv, Creates
    <2> QED
      BY <1>2, <2>1, TypeStepWorker, NumbersStepWorker, LockStepWorker,
         CreateStepWorker, StoreStepWorker, JobsStepWorker, DuplicatesStepWorker
         DEF IInv
  <1>3. CASE UNCHANGED vars
    <2>1. UNCHANGED <<row, version, indexed, jobs, drawn, lock, tx, store, uuid,
                      reported>>
      BY <1>3 DEF vars, tables, objects
    <2>2. TypeOK'
      BY <2>1 DEF IInv, TypeOK
    <2>3. NumbersInv'
      BY <2>1 DEF IInv, NumbersInv
    <2>4. LockInv' /\ CreateInv'
      BY <2>1 DEF IInv, LockInv, CreateInv, Creates, Visible
    <2>5. EntityInv'
      <3>1. EntityInv
        BY DEF IInv
      <3> QED
        BY <2>1, <3>1 DEF EntityInv, Creates
    <2>6. StoreInv'
      BY <2>1 DEF IInv, StoreInv
    <2>7. JobsFollowVersions' /\ DuplicatesAgree'
      BY <2>1 DEF IInv, JobsFollowVersions, DuplicatesAgree
    <2> QED
      BY <2>2, <2>3, <2>4, <2>5, <2>6, <2>7 DEF IInv
  <1> QED
    BY <1>1, <1>2, <1>3 DEF Next

\* The invariant holds in every state the service, its requests and the
\* workers can reach.
THEOREM Invariant == Spec => []IInv
  BY InitIInv, StepIInv, PTL DEF Spec

\* Rows, entities, objects and the responses keep their types.
THEOREM TypeCorrect == Spec => []TypeOK
  <1>1. IInv => TypeOK
    BY DEF IInv
  <1> QED
    BY <1>1, Invariant, PTL

\* The job sequence of every document is its versions in order and then its
\* deletion, whatever the requests and the workers flush over each other.
THEOREM JobsFollow == Spec => []JobsFollowVersions
  <1>1. IInv => JobsFollowVersions
    BY DEF IInv
  <1> QED
    BY <1>1, Invariant, PTL

\* duplicateOfVersionNo is the earliest version with the same content.
THEOREM DuplicatesAreEarliest == Spec => []DuplicatesAgree
  <1>1. IInv => DuplicatesAgree
    BY DEF IInv
  <1> QED
    BY <1>1, Invariant, PTL

\* The object of a committed version is there and unchanged.
THEOREM StoredIntact == Spec => []StoredAsHashed
  <1>1. IInv => StoredAsHashed
    BY DEF IInv, StoreInv, StoredAsHashed
  <1> QED
    BY <1>1, Invariant, PTL

----------------------------------------------------------------------------
(* The refinement of VersionedDocuments *)

\* The components of the mapping, row by row.
LEMMA Mapping ==
  ASSUME NEW d \in Docs
  PROVE  /\ \A n \in Versions : Content[d][n] = version[d][n].content
         /\ Title[d] = row[d].title
         /\ Deleted[d] = row[d].deleted
         /\ Searchable[d] = row[d].searchable
  BY DEF Content, Title, Deleted, Searchable

\* A document the requests can load is live in the specification.
LEMMA VisibleIsLive ==
  ASSUME IInv, NEW d \in Docs, Visible(d)
  PROVE  /\ Abstract!Live(d)
         /\ \A n \in 1..row[d].latest : Content[d][n] # NoContent
         /\ row[d].latest \in Versions
  <1>1. row[d].latest \in Versions
    BY RowFacts DEF IInv, Visible
  <1>2. \A n \in 1..row[d].latest : Content[d][n] # NoContent
    BY <1>1, Mapping DEF IInv, NumbersInv
  <1>3. ~Deleted[d]
    BY Mapping DEF Visible
  <1> QED
    BY <1>1, <1>2, <1>3 DEF Abstract!Live, Abstract!Exists

\* A change of one row changes one row of the mapping.
LEMMA MappedRow ==
  ASSUME NEW d \in Docs, \A f \in Docs : f # d => row'[f] = row[f]
  PROVE  /\ Title' = [Title EXCEPT ![d] = row'[d].title]
         /\ Deleted' = [Deleted EXCEPT ![d] = row'[d].deleted]
         /\ Searchable' = [Searchable EXCEPT ![d] = row'[d].searchable]
         /\ row'[d].title = row[d].title => Title' = Title
         /\ row'[d].deleted = row[d].deleted => Deleted' = Deleted
         /\ row'[d].searchable = row[d].searchable => Searchable' = Searchable
  <1>1. Title' = [Title EXCEPT ![d] = row'[d].title]
        /\ (row'[d].title = row[d].title => Title' = Title)
    BY DEF Title
  <1>2. Deleted' = [Deleted EXCEPT ![d] = row'[d].deleted]
        /\ (row'[d].deleted = row[d].deleted => Deleted' = Deleted)
    BY DEF Deleted
  <1>3. Searchable' = [Searchable EXCEPT ![d] = row'[d].searchable]
        /\ (row'[d].searchable = row[d].searchable => Searchable' = Searchable)
    BY DEF Searchable
  <1> QED
    BY <1>1, <1>2, <1>3

\* A commit without a new version renames, deletes, or chooses what is
\* searched.
LEMMA CommitMaps ==
  ASSUME IInv, NEW c \in Clients, Commit(c)
  PROVE  Abstract!Next
  <1> DEFINE d == tx[c].doc
             e == tx[c].entity
  <1>1. /\ d \in Docs
        /\ Visible(d)
        /\ \/ /\ \E t \in Titles : e.title = t
              /\ e.deleted = row[d].deleted
              /\ e.searchable = row[d].searchable
           \/ /\ e.title = row[d].title
              /\ e.deleted = TRUE
              /\ e.searchable = row[d].searchable
           \/ /\ e.title = row[d].title
              /\ e.deleted = row[d].deleted
              /\ e.searchable \in 1..row[d].latest
    BY CommitFacts
  <1>2. row'[d] = e /\ \A f \in Docs : f # d => row'[f] = row[f]
    BY CommitEnds
  <1>3. UNCHANGED Content
    BY DEF Commit, Content
  <1>4. /\ Abstract!Live(d)
        /\ \A n \in 1..row[d].latest : Content[d][n] # NoContent
        /\ row[d].latest \in Versions
    BY <1>1, VisibleIsLive
  <1> HIDE DEF d, e
  <1>5. /\ Title' = [Title EXCEPT ![d] = e.title]
        /\ Deleted' = [Deleted EXCEPT ![d] = e.deleted]
        /\ Searchable' = [Searchable EXCEPT ![d] = e.searchable]
        /\ e.title = row[d].title => Title' = Title
        /\ e.deleted = row[d].deleted => Deleted' = Deleted
        /\ e.searchable = row[d].searchable => Searchable' = Searchable
    BY <1>1, <1>2, MappedRow
  <1>6. ASSUME NEW t \in Titles, e.title = t, e.deleted = row[d].deleted,
               e.searchable = row[d].searchable
        PROVE  Abstract!Rename(d, t)
    BY <1>3, <1>4, <1>5, <1>6 DEF Abstract!Rename
  <1>7. ASSUME e.title = row[d].title, e.deleted = TRUE,
               e.searchable = row[d].searchable
        PROVE  Abstract!Delete(d)
    BY <1>3, <1>4, <1>5, <1>7 DEF Abstract!Delete
  <1>8. ASSUME e.title = row[d].title, e.deleted = row[d].deleted,
               e.searchable \in 1..row[d].latest
        PROVE  Abstract!Search(d, e.searchable)
    BY <1>3, <1>4, <1>5, <1>8 DEF Abstract!Search
  <1>9. e.searchable \in 1..row[d].latest => e.searchable \in Abstract!Versions
    BY <1>4 DEF Abstract!Versions
  <1> QED
    BY <1>1, <1>6, <1>7, <1>8, <1>9 DEF Abstract!Next

\* The commit of an upload creates the document or adds its next version.
LEMMA CommitVersionMaps ==
  ASSUME IInv, NEW c \in Clients, CommitVersion(c)
  PROVE  Abstract!Next
  <1> DEFINE d == tx[c].doc
             e == tx[c].entity
             n == e.latest
             x == tx[c].object.content
  <1>1. /\ d \in Docs
        /\ n = row[d].latest + 1
        /\ n \in Versions
        /\ e.deleted = FALSE
        /\ row[d].deleted = FALSE
        /\ e.searchable = row[d].searchable
        /\ x \in Contents
        /\ \/ Visible(d) /\ e.title = row[d].title
           \/ row[d] = NoRow /\ e.title \in Titles
        /\ row[d].latest \in 0..MaxVersions
    BY CommitVersionFacts, RowFacts DEF IInv
  <1>2. row'[d] = e /\ \A f \in Docs : f # d => row'[f] = row[f]
    BY CommitEnds
  <1>3. /\ version'[d][n].content = x
        /\ \A m \in Versions : m # n => version'[d][m] = version[d][m]
        /\ \A f \in Docs : f # d => version'[f] = version[f]
    BY VersionWritten
  <1>4. \A m \in Versions : version[d][m].content = NoContent <=> m > row[d].latest
    BY <1>1 DEF IInv, NumbersInv
  <1>5. \A m \in Versions : Content[d][m] = version[d][m].content
    BY <1>1, Mapping
  <1> HIDE DEF d, e, n, x
  <1>6. /\ Title' = [Title EXCEPT ![d] = e.title]
        /\ e.title = row[d].title => Title' = Title
        /\ UNCHANGED <<Deleted, Searchable>>
    BY <1>1, <1>2, MappedRow
  <1>7. Content' = [Content EXCEPT ![d] = [Content[d] EXCEPT ![n] = x]]
    <2> DEFINE C == [Content[d] EXCEPT ![n] = x]
    <2>1. Content[d] = [m \in Versions |-> version[d][m].content]
      BY <1>1 DEF Content
    <2>2. [m \in Versions |-> version'[d][m].content] = C
      BY <1>1, <1>3, <2>1
    <2>3. \A f \in Docs : f # d =>
            [m \in Versions |-> version'[f][m].content] = Content[f]
      BY <1>3 DEF Content
    <2> HIDE DEF C
    <2>4. Content' = [Content EXCEPT ![d] = C]
      BY <1>1, <2>2, <2>3 DEF Content
    <2> QED
      BY <2>4 DEF C
  <1>8. CASE Visible(d) /\ e.title = row[d].title
    <2>1. Abstract!Live(d)
      BY <1>1, <1>8, VisibleIsLive
    <2>2. \A m \in Abstract!Versions : Content[d][m] = NoContent <=> m >= n
      BY <1>1, <1>4, <1>5 DEF Abstract!Versions
    <2>3. Abstract!AddVersion(d, n, x)
      BY <1>6, <1>7, <1>8, <2>1, <2>2 DEF Abstract!AddVersion
    <2> QED
      BY <1>1, <2>3 DEF Abstract!Next, Abstract!Versions
  <1>9. CASE row[d] = NoRow /\ e.title \in Titles
    <2>1. row[d].latest = 0 /\ n = 1
      BY <1>1, <1>9, NoRowFacts
    <2>2. ~Abstract!Exists(d)
      BY <1>1, <1>4, <1>5, <2>1 DEF Abstract!Exists
    <2>3. Abstract!Create(d, e.title, x)
      BY <1>6, <1>7, <2>1, <2>2 DEF Abstract!Create
    <2> QED
      BY <1>1, <1>9, <2>3 DEF Abstract!Next
  <1> QED
    BY <1>1, <1>8, <1>9

\* A promotion changes what is searched, or nothing.
LEMMA FinishMaps ==
  ASSUME IInv, NEW d \in Docs, NEW n \in Versions, FinishIndex(d, n)
  PROVE  [Abstract!Next]_Abstract!vars
  <1>1. /\ Visible(d)
        /\ n <= row[d].latest
        /\ row'[d].title = row[d].title
        /\ row'[d].deleted = row[d].deleted
        /\ row'[d].searchable \in {n, row[d].searchable}
        /\ \A e \in Docs : e # d => row'[e] = row[e]
        /\ UNCHANGED version
    BY FinishFacts
  <1>2. UNCHANGED Content
    BY <1>1 DEF Content
  <1>3. /\ Searchable' = [Searchable EXCEPT ![d] = row'[d].searchable]
        /\ UNCHANGED <<Title, Deleted>>
        /\ row'[d].searchable = row[d].searchable => Searchable' = Searchable
    BY <1>1, MappedRow
  <1>4. CASE row'[d].searchable = row[d].searchable
    BY <1>2, <1>3, <1>4 DEF Abstract!vars
  <1>5. CASE row'[d].searchable = n
    <2>1. Abstract!Live(d) /\ Content[d][n] # NoContent
      BY <1>1, VisibleIsLive
    <2>2. Abstract!Search(d, n)
      BY <1>2, <1>3, <1>5, <2>1 DEF Abstract!Search
    <2> QED
      BY <2>2 DEF Abstract!Next, Abstract!Versions
  <1> QED
    BY <1>1, <1>4, <1>5

\* The document service with its sessions, locks, cached entities and objects
\* implements the numbered documents: each of its steps is one step of
\* VersionedDocuments or none.
THEOREM Refinement == Spec => ImplementsVersionedDocuments
  <1>1. Init => Abstract!Init
    <2> SUFFICES ASSUME Init
                 PROVE  Abstract!Init
      OBVIOUS
    <2>1. \A d \in Docs : row[d] = NoRow
      BY DEF Init
    <2>2. \A d \in Docs : /\ row[d].title = NoTitle
                          /\ row[d].deleted = FALSE
                          /\ row[d].searchable = 0
      BY <2>1, NoRowFacts
    <2>3. \A d \in Docs, n \in Versions : version[d][n].content = NoContent
      BY NoVersionFacts DEF Init
    <2>4. Content = [d \in Docs |-> [n \in Versions |-> NoContent]]
      BY <2>3 DEF Content
    <2>5. /\ Title = [d \in Docs |-> NoTitle]
          /\ Deleted = [d \in Docs |-> FALSE]
          /\ Searchable = [d \in Docs |-> 0]
      BY <2>2 DEF Title, Deleted, Searchable
    <2> QED
      BY <2>4, <2>5 DEF Abstract!Init, Abstract!Versions
  <1>2. IInv /\ [Next]_vars => [Abstract!Next]_Abstract!vars
    <2> SUFFICES ASSUME IInv, [Next]_vars
                 PROVE  [Abstract!Next]_Abstract!vars
      OBVIOUS
    <2>1. ASSUME UNCHANGED <<row, version>>
          PROVE  UNCHANGED Abstract!vars
      BY <2>1 DEF Abstract!vars, Content, Title, Deleted, Searchable
    <2>2. ASSUME NEW c \in Clients, Request(c)
          PROVE  [Abstract!Next]_Abstract!vars
      <3>1. CASE UNCHANGED tables
        BY <2>1, <3>1 DEF tables
      <3> QED
        BY <2>2, <3>1, CommitMaps, CommitVersionMaps, OnlyCommitsWrite
    <2>3. ASSUME NEW d \in Docs, NEW n \in Versions, FinishIndex(d, n)
          PROVE  [Abstract!Next]_Abstract!vars
      BY <2>3, FinishMaps
    <2>4. CASE UNCHANGED vars
      BY <2>1, <2>4 DEF vars, tables
    <2> QED
      BY <2>2, <2>3, <2>4 DEF Next
  <1> QED
    BY <1>1, <1>2, Invariant, PTL
       DEF Spec, ImplementsVersionedDocuments, Abstract!Spec

=============================================================================
