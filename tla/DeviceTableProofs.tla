------------------------- MODULE DeviceTableProofs -------------------------
(***************************************************************************)
(* The theorems of DeviceTable: for any number of instances, devices and   *)
(* versions, the schema stays whole, the columns of a row agree with one   *)
(* answer, and only a device that was gone is marked missing.              *)
(***************************************************************************)
EXTENDS DeviceTable, TLAPS

(* The inductive invariant. *)

Prefixes == {1..n : n \in 0..Latest}

WholeSchema == db.columns = db.ledger /\ db.ledger \in Prefixes

CoherentRows(rows) == \A d \in Devices : OfOneAnswer(rows[d])

Locking == {"ledger", "migrate", "mark", "commit"}
Writing == {"mark", "commit", "specify", "updated"}

\* What an instance knows of the database while it migrates it, and of its
\* open transaction.
Sound(k) ==
    /\ job[k].step \in Locking => mutex = k
    /\ job[k].step \in Writing <=> writer = k
    /\ job[k].step \in Locking \ {"ledger"} => job[k].applied = db.ledger
    /\ job[k].step \in {"mark", "commit"} =>
          /\ job[k].applied # Versions
          /\ draft.columns = db.columns \cup {Upcoming(k)}
    /\ At(k, "mark") => draft.ledger = db.ledger
    /\ At(k, "commit") => draft.ledger = db.ledger \cup {Upcoming(k)}
    /\ job[k].step \in {"specify", "updated"} =>
          draft.columns = db.columns /\ draft.ledger = db.ledger
    /\ At(k, "query") => job[k].stale \in Rows
    /\ At(k, "specify") => \A d \in job[k].todo : draft.rows[d] \in Rows

\* What a listing has found so far of the devices that were always there.
Found(k) ==
    /\ job[k].step \in {"page", "discover"} =>
          \A d \in Devices \ job[k].gone : account[d] \in Entries
    /\ At(k, "page") =>
          \A d \in Devices \ job[k].gone : d <= job[k].cursor => job[k].found[d] \in Products
    /\ At(k, "discover") =>
          \A d \in Devices \ job[k].gone : job[k].found[d] \in Products
    /\ At(k, "specify") =>
          \A d \in Devices : draft.rows[d].present = FALSE => d \in job[k].gone

IInv == /\ TypeOK
        /\ WholeSchema
        /\ CoherentRows(db.rows) /\ CoherentRows(draft.rows)
        /\ \A k \in Instances : Sound(k) /\ Found(k)

-----------------------------------------------------------------------------
(* Versions and rows *)

\* After a prefix of the versions comes the next one.
LEMMA NextVersion ==
    ASSUME NEW S \in Prefixes, S # Versions
    PROVE  /\ Smallest(Versions \ S) \in Versions \ S
           /\ S \cup {Smallest(Versions \ S)} \in Prefixes
<1>1. PICK n \in 0..Latest : S = 1..n
    BY DEF Prefixes
<1>2. Latest \in Nat /\ n \in Nat /\ n + 1 \in 1..Latest
    BY <1>1, VersionsAssumption DEF Versions
<1>3. n + 1 \in Versions \ S /\ \A m \in Versions \ S : n + 1 <= m
    BY <1>1, <1>2 DEF Versions
<1>4. /\ Smallest(Versions \ S) \in Versions \ S
      /\ \A m \in Versions \ S : Smallest(Versions \ S) <= m
    BY <1>3 DEF Smallest
<1>5. Smallest(Versions \ S) = n + 1
    BY <1>2, <1>3, <1>4 DEF Versions
<1>6. S \cup {n + 1} = 1..(n + 1) /\ n + 1 \in 0..Latest
    BY <1>1, <1>2
<1>7. QED
    BY <1>4, <1>5, <1>6 DEF Prefixes

\* upsert keeps the type of a row, and its product is the new one.
LEMMA UpsertedIsRow ==
    ASSUME NEW old \in Rows \cup {NoRow}, NEW new \in Rows
    PROVE  Upserted(old, new) \in Rows /\ Upserted(old, new).present = new.present
<1>1. CASE old.product # new.product
    BY <1>1 DEF Upserted
<1>2. CASE old.product = new.product
    <2>1. /\ old.energy \in Specs \cup {None} /\ new.energy \in Specs \cup {None}
          /\ old.raw \in Answers \cup {None} /\ new.raw \in Answers \cup {None}
          /\ old.eligibility \in Eligibilities /\ new.eligibility \in Eligibilities
        BY DEF Rows, NoRow, Eligibilities
    <2>2. PICK e : e = IF new.eligibility = "unsupported" THEN new.energy
                       ELSE Coalesce(new.energy, old.energy)
        OBVIOUS
    <2>3. PICK g : g = Eligibility(old, new)
        OBVIOUS
    <2>4. PICK r : r = Coalesce(new.raw, old.raw)
        OBVIOUS
    <2>5. e \in Specs \cup {None} /\ g \in Eligibilities /\ r \in Answers \cup {None}
        BY <2>1, <2>2, <2>3, <2>4 DEF Coalesce, Eligibility
    <2>6. Upserted(old, new) = [new EXCEPT !.energy = e, !.eligibility = g, !.raw = r]
        BY <1>2, <2>2, <2>3, <2>4 DEF Upserted
    <2>7. QED
        BY <2>5, <2>6 DEF Rows
<1>3. QED
    BY <1>1, <1>2

\* upsert of one answer, or of none, leaves the columns of one answer.
LEMMA UpsertedIsCoherent ==
    ASSUME NEW old \in Rows \cup {NoRow}, NEW new \in Rows,
           OfOneAnswer(old), OfOneAnswer(new), new.raw = None => new.energy = None
    PROVE  OfOneAnswer(Upserted(old, new))
<1>1. CASE old.product # new.product
    BY <1>1 DEF Upserted
<1>2. CASE old.product = new.product
    <2>2. PICK e : e = IF new.eligibility = "unsupported" THEN new.energy
                       ELSE Coalesce(new.energy, old.energy)
        OBVIOUS
    <2>3. PICK g : g = Eligibility(old, new)
        OBVIOUS
    <2>4. PICK r : r = Coalesce(new.raw, old.raw)
        OBVIOUS
    <2>5. PICK u : u = Upserted(old, new)
        OBVIOUS
    <2>6. u = [new EXCEPT !.energy = e, !.eligibility = g, !.raw = r]
        BY <1>2, <2>2, <2>3, <2>4, <2>5 DEF Upserted
    <2>7. u.energy = e /\ u.eligibility = g /\ u.raw = r
        BY <2>6 DEF Rows
    <2>8. QED
        BY <2>2, <2>3, <2>4, <2>5, <2>7, NoneAssumption
           DEF OfOneAnswer, Coalesce, Eligibility, Answers
<1>3. QED
    BY <1>1, <1>2

\* What ensure_energy_specification makes of a row belongs to one answer.
LEMMA SpecifiedIsCoherent ==
    ASSUME NEW row \in Rows, NEW answer \in Answers,
           NEW new, new = Specified(row, answer)
    PROVE  new \in Rows /\ new.present = row.present /\ OfOneAnswer(new) /\ new.raw # None
<1>1. answer # None /\ Unsupported # Invalid
    BY NoneAssumption DEF Unsupported, Invalid
<1>2. CASE answer = Unsupported
    <2>1. new = [row EXCEPT !.energy = None, !.eligibility = "unsupported", !.raw = answer]
        BY <1>1, <1>2 DEF Specified
    <2>2. /\ new \in Rows /\ new.present = row.present
          /\ new.energy = None /\ new.eligibility = "unsupported" /\ new.raw = answer
        BY <2>1 DEF Rows, Eligibilities
    <2>3. QED
        BY <1>1, <1>2, <2>2 DEF OfOneAnswer
<1>3. CASE answer = Invalid
    <2>1. new = [row EXCEPT !.eligibility = "unknown", !.raw = answer]
        BY <1>1, <1>3 DEF Specified
    <2>2. /\ new \in Rows /\ new.present = row.present
          /\ new.eligibility = "unknown" /\ new.raw = answer
        BY <2>1 DEF Rows, Eligibilities
    <2>3. QED
        BY <1>1, <2>2 DEF OfOneAnswer
<1>4. CASE answer \notin {Unsupported, Invalid}
    <2>1. new = [row EXCEPT !.energy = answer, !.eligibility = "supported", !.raw = answer]
        BY <1>4 DEF Specified
    <2>2. answer \in Specs
        BY <1>4 DEF Answers
    <2>3. /\ new \in Rows /\ new.present = row.present
          /\ new.energy = answer /\ new.eligibility = "supported" /\ new.raw = answer
        BY <2>1, <2>2 DEF Rows, Eligibilities
    <2>4. QED
        BY <1>1, <2>3 DEF OfOneAnswer
<1>5. QED
    BY <1>2, <1>3, <1>4

\* A device of a listing comes without an answer.
LEMMA DiscoveredIsCoherent ==
    ASSUME NEW product \in Products, NEW new, new = Discovered(product)
    PROVE  new \in Rows /\ new.present = TRUE /\ OfOneAnswer(new) /\ new.energy = None
<1>1. new = [product |-> product, energy |-> None, eligibility |-> "unknown",
             raw |-> None, present |-> TRUE]
    BY DEF Discovered, NoRow
<1>2. QED
    BY <1>1 DEF Rows, OfOneAnswer, Eligibilities

\* Storing an answer keeps the columns of every row together.
LEMMA StoreIsCoherent ==
    ASSUME NEW content \in Databases, NEW d \in Devices, NEW row \in Rows,
           NEW answer \in Answers, CoherentRows(content.rows)
    PROVE  LET stored == Store(content, d, Specified(row, answer))
           IN  /\ stored \in Databases /\ CoherentRows(stored.rows)
               /\ stored.columns = content.columns /\ stored.ledger = content.ledger
               /\ stored.rows[d] \in Rows /\ stored.rows[d].present = row.present
               /\ \A e \in Devices \ {d} : stored.rows[e] = content.rows[e]
<1> DEFINE new == Specified(row, answer)
<1>1. new \in Rows /\ new.present = row.present /\ OfOneAnswer(new) /\ new.raw # None
    <2> HIDE DEF new
    <2>1. new = Specified(row, answer)
        BY DEF new
    <2>2. QED
        BY <2>1, SpecifiedIsCoherent
<1>2. PICK old : old = content.rows[d]
    OBVIOUS
<1>3. old \in Rows \cup {NoRow} /\ OfOneAnswer(old)
    BY <1>2 DEF Databases, CoherentRows
<1>4. PICK u : u = Upserted(old, new)
    OBVIOUS
<1> HIDE DEF new
<1>5. u \in Rows /\ u.present = new.present /\ OfOneAnswer(u)
    BY <1>1, <1>3, <1>4, UpsertedIsRow, UpsertedIsCoherent
<1>6. Store(content, d, new) = [content EXCEPT !.rows = [@ EXCEPT ![d] = u]]
    BY <1>2, <1>4 DEF Store
<1>7. PICK rows : rows = [content.rows EXCEPT ![d] = u]
    OBVIOUS
<1>8. /\ rows \in [Devices -> Rows \cup {NoRow}] /\ rows[d] = u
      /\ \A e \in Devices \ {d} : rows[e] = content.rows[e]
    BY <1>5, <1>7 DEF Databases
<1>9. Store(content, d, new) = [content EXCEPT !.rows = rows]
    BY <1>6, <1>7
<1>10. CoherentRows(rows)
    BY <1>5, <1>8 DEF CoherentRows
<1>11. PICK stored : stored = Store(content, d, new)
    OBVIOUS
<1>12. /\ stored \in Databases /\ stored.rows = rows
       /\ stored.columns = content.columns /\ stored.ledger = content.ledger
    BY <1>8, <1>9, <1>11 DEF Databases
<1>13. QED
    BY <1>1, <1>5, <1>8, <1>10, <1>11, <1>12 DEF new

-----------------------------------------------------------------------------
(* A step of one instance leaves what the others know. *)

LEMMA Stepping ==
    ASSUME IInv, NEW i \in Instances, NEW j \in Jobs, Become(i, j), account' = account,
           db' \in Databases, draft' \in Databases,
           {writer', mutex'} \subseteq Instances \cup {Nobody},
           writer' = writer \/ (writer \in {Nobody, i} /\ writer' \in {Nobody, i}),
           mutex' = mutex \/ (mutex \in {Nobody, i} /\ mutex' \in {Nobody, i}),
           draft' = draft \/ writer \in {Nobody, i},
           db' = db \/ (writer = i /\ (mutex = i \/ db'.ledger = db.ledger)),
           WholeSchema', CoherentRows(db'.rows), CoherentRows(draft'.rows),
           Sound(i)', Found(i)'
    PROVE  IInv'
<1>1. /\ job' \in [Instances -> Jobs] /\ job'[i] = j
      /\ \A k \in Instances : k # i => job'[k] = job[k]
    BY DEF IInv, TypeOK, Become
<1>2. account' \in [Devices -> Entries \cup {NoEntry}]
    BY DEF IInv, TypeOK
<1>3. TypeOK'
    BY <1>1, <1>2 DEF TypeOK
<1>4. ASSUME NEW k \in Instances, k # i PROVE Sound(k)' /\ Found(k)'
    <2>1. job'[k] = job[k] /\ k # Nobody
        BY <1>1, <1>4, NobodyAssumption
    <2>2. Sound(k) /\ Found(k)
        BY DEF IInv
    <2>3. (writer' = k <=> writer = k) /\ (mutex' = k <=> mutex = k)
        BY <1>4, <2>1
    <2>4. CASE writer = k
        <3>1. draft' = draft /\ db' = db
            BY <1>4, <2>1, <2>4
        <3>2. Sound(k)'
            BY <2>1, <2>2, <2>3, <3>1 DEF Sound, At, Upcoming
        <3>3. Found(k)'
            BY <2>1, <2>2, <3>1 DEF Found, At
        <3>4. QED
            BY <3>2, <3>3
    <2>5. CASE writer # k
        <3>1. job[k].step \notin Writing
            BY <2>2, <2>5 DEF Sound
        <3>2. job[k].step \in Locking => db'.ledger = db.ledger
            BY <1>4, <2>2 DEF Sound
        <3>3. Sound(k)'
            BY <2>1, <2>2, <2>3, <2>5, <3>1, <3>2 DEF Sound, At, Locking, Writing
        <3>4. Found(k)'
            BY <2>1, <2>2, <3>1 DEF Found, At, Writing
        <3>5. QED
            BY <3>3, <3>4
    <2>6. QED
        BY <2>4, <2>5
<1>5. QED
    BY <1>3, <1>4 DEF IInv

\* The invariant, opened for one instance.
LEMMA Facts ==
    ASSUME IInv, NEW i \in Instances
    PROVE  /\ job[i] \in Jobs /\ i # Nobody
           /\ db \in Databases /\ draft \in Databases
           /\ {writer, mutex} \subseteq Instances \cup {Nobody}
           /\ account \in [Devices -> Entries \cup {NoEntry}]
           /\ WholeSchema /\ CoherentRows(db.rows) /\ CoherentRows(draft.rows)
           /\ Sound(i) /\ Found(i)
BY NobodyAssumption DEF IInv, TypeOK

\* A workflow at its beginning.
LEMMA NoJobTyped ==
    ASSUME NEW step \in Steps, NEW j, j = [NoJob EXCEPT !.step = step]
    PROVE  /\ j \in Jobs /\ j.step = step /\ j.todo = {} /\ j.gone = {}
           /\ NoJob \in Jobs /\ NoJob.step = "idle"
<1>1. PICK found : found = [d \in Devices |-> None]
    OBVIOUS
<1>2. found \in [Devices -> Products \cup {None}]
    BY <1>1
<1>3. NoJob = [step |-> "idle", applied |-> {}, pages |-> 0, cursor |-> 0, cursors |-> {},
               found |-> found, todo |-> {}, stale |-> NoRow, gone |-> {}]
    BY <1>1 DEF NoJob
<1>4. PICK n : n = NoJob
    OBVIOUS
<1>5. n \in Jobs /\ n.step = "idle" /\ n.todo = {} /\ n.gone = {}
    BY <1>2, <1>3, <1>4 DEF Jobs, Steps, Cursors
<1>6. QED
    BY <1>4, <1>5 DEF Jobs

-----------------------------------------------------------------------------
(* initialize and migrate *)

LEMMA BeginKeeps ==
    ASSUME IInv, NEW i \in Instances, Begin(i)
    PROVE  IInv'
<1>1. PICK j : j = [NoJob EXCEPT !.step = "lock"]
    OBVIOUS
<1>2. j \in Jobs /\ j.step = "lock"
    BY <1>1, NoJobTyped DEF Steps
<1>3. Become(i, j) /\ UNCHANGED <<account, db, draft, writer, mutex>> /\ job[i].step = "idle"
    BY <1>1 DEF Begin, At, locks
<1>4. job'[i] = j
    BY <1>3 DEF Become, IInv, TypeOK
<1>5. Sound(i)' /\ Found(i)'
    BY <1>2, <1>3, <1>4, Facts DEF Sound, Found, At, Locking, Writing
<1>6. WholeSchema' /\ CoherentRows(db'.rows) /\ CoherentRows(draft'.rows)
    BY <1>3, Facts DEF WholeSchema, CoherentRows
<1>7. QED
    BY <1>2, <1>3, <1>5, <1>6, Facts, Stepping

LEMMA InitializeKeeps ==
    ASSUME IInv, NEW i \in Instances, Initialize(i)
    PROVE  IInv'
<1>1. PICK j : j = [job[i] EXCEPT !.step = "ledger"]
    OBVIOUS
<1>2. j \in Jobs /\ j.step = "ledger"
    BY <1>1, Facts DEF Steps, Jobs
<1>3. /\ Become(i, j) /\ UNCHANGED <<account, db, draft, writer>>
      /\ job[i].step = "lock" /\ mutex = Nobody /\ mutex' = i
    BY <1>1 DEF Initialize, At
<1>4. job'[i] = j
    BY <1>3 DEF Become, IInv, TypeOK
<1>5. Sound(i)' /\ Found(i)'
    BY <1>2, <1>3, <1>4, Facts DEF Sound, Found, At, Locking, Writing
<1>6. WholeSchema' /\ CoherentRows(db'.rows) /\ CoherentRows(draft'.rows)
    BY <1>3, Facts DEF WholeSchema, CoherentRows
<1>7. QED
    BY <1>2, <1>3, <1>5, <1>6, Facts, Stepping

LEMMA ReadLedgerKeeps ==
    ASSUME IInv, NEW i \in Instances, ReadLedger(i)
    PROVE  IInv'
<1>1. PICK j : j = [job[i] EXCEPT !.step = "migrate", !.applied = db.ledger]
    OBVIOUS
<1>2. j \in Jobs /\ j.step = "migrate" /\ j.applied = db.ledger
    BY <1>1, Facts DEF Steps, Jobs, Databases
<1>3. /\ Become(i, j) /\ UNCHANGED <<account, db, draft, writer, mutex>>
      /\ job[i].step = "ledger"
    BY <1>1 DEF ReadLedger, At, locks
<1>4. job'[i] = j
    BY <1>3 DEF Become, IInv, TypeOK
<1>5. Sound(i)' /\ Found(i)'
    BY <1>2, <1>3, <1>4, Facts DEF Sound, Found, At, Locking, Writing
<1>6. WholeSchema' /\ CoherentRows(db'.rows) /\ CoherentRows(draft'.rows)
    BY <1>3, Facts DEF WholeSchema, CoherentRows
<1>7. QED
    BY <1>2, <1>3, <1>5, <1>6, Facts, Stepping

\* The next version, of an instance that has not applied them all.
LEMMA UpcomingVersion ==
    ASSUME IInv, NEW i \in Instances, job[i].step \in {"migrate", "mark", "commit"},
           job[i].applied # Versions
    PROVE  /\ job[i].applied = db.ledger /\ Upcoming(i) \in Versions \ db.ledger
           /\ db.ledger \cup {Upcoming(i)} \in Prefixes
<1>1. job[i].applied = db.ledger
    BY Facts DEF Sound, Locking
<1>2. db.ledger \in Prefixes /\ db.ledger # Versions
    BY <1>1, Facts DEF WholeSchema
<1>3. PICK S : S = db.ledger
    OBVIOUS
<1>4. Smallest(Versions \ S) \in Versions \ S /\ S \cup {Smallest(Versions \ S)} \in Prefixes
    BY <1>2, <1>3, NextVersion
<1>5. Upcoming(i) = Smallest(Versions \ S)
    BY <1>1, <1>3 DEF Upcoming
<1>6. QED
    BY <1>1, <1>3, <1>4, <1>5

LEMMA ScriptKeeps ==
    ASSUME IInv, NEW i \in Instances, Script(i)
    PROVE  IInv'
<1>1. PICK j : j = [job[i] EXCEPT !.step = "mark"]
    OBVIOUS
<1>2. j \in Jobs /\ j.step = "mark" /\ j.applied = job[i].applied
    BY <1>1, Facts DEF Steps, Jobs
<1>3. PICK v : v = Upcoming(i)
    OBVIOUS
<1>4. /\ Become(i, j) /\ UNCHANGED <<account, db, mutex>>
      /\ job[i].step = "migrate" /\ job[i].applied # Versions
      /\ writer = Nobody /\ writer' = i /\ draft' = Altered(v)
    BY <1>1, <1>3 DEF Script, At, Write
<1>5. job'[i] = j
    BY <1>4 DEF Become, IInv, TypeOK
<1>6. job[i].applied = db.ledger /\ v \in Versions
    BY <1>3, <1>4, UpcomingVersion
<1>7. PICK old : old = [d \in Devices |-> [db.rows[d] EXCEPT !.eligibility = "unknown",
                                                         !.present = None, !.raw = None]]
    OBVIOUS
<1>8. old \in [Devices -> Rows \cup {NoRow}] /\ CoherentRows(old)
    <2>1. ASSUME NEW d \in Devices
          PROVE  old[d] \in Rows \cup {NoRow} /\ OfOneAnswer(old[d])
        <3>1. PICK row : row = db.rows[d]
            OBVIOUS
        <3>2. row \in Rows \cup {NoRow}
            BY <3>1, Facts DEF Databases
        <3>3. PICK new : new = [row EXCEPT !.eligibility = "unknown", !.present = None,
                                           !.raw = None]
            OBVIOUS
        <3>4. old[d] = new
            BY <1>7, <3>1, <3>3
        <3>5. CASE row \in Rows
            BY <3>3, <3>4, <3>5 DEF Rows, Eligibilities, OfOneAnswer
        <3>6. CASE row = NoRow
            BY <3>3, <3>4, <3>6 DEF NoRow, OfOneAnswer
        <3>7. QED
            BY <3>2, <3>5, <3>6
    <2>2. QED
        BY <1>7, <2>1 DEF CoherentRows
<1>9. PICK rows : rows = IF v # 3 THEN db.rows ELSE old
    OBVIOUS
<1>10. rows \in [Devices -> Rows \cup {NoRow}] /\ CoherentRows(rows)
    BY <1>8, <1>9, Facts DEF Databases
<1>11. draft' = [db EXCEPT !.columns = db.columns \cup {v}, !.rows = rows]
    BY <1>4, <1>7, <1>9 DEF Altered
<1>12. /\ draft' \in Databases /\ draft'.columns = db.columns \cup {v}
       /\ draft'.ledger = db.ledger /\ draft'.rows = rows
    BY <1>6, <1>10, <1>11, Facts DEF Databases
<1>13. Sound(i)' /\ Found(i)'
    <2>1. Upcoming(i)' = v
        BY <1>2, <1>3, <1>5 DEF Upcoming
    <2>2. QED
        BY <1>2, <1>4, <1>5, <1>6, <1>12, <2>1, Facts DEF Sound, Found, At, Locking, Writing
<1>14. WholeSchema' /\ CoherentRows(db'.rows) /\ CoherentRows(draft'.rows)
    BY <1>4, <1>10, <1>12, Facts DEF WholeSchema, CoherentRows
<1>15. QED
    BY <1>2, <1>4, <1>12, <1>13, <1>14, Facts, Stepping

LEMMA MarkKeeps ==
    ASSUME IInv, NEW i \in Instances, Mark(i)
    PROVE  IInv'
<1>1. PICK j : j = [job[i] EXCEPT !.step = "commit"]
    OBVIOUS
<1>2. j \in Jobs /\ j.step = "commit" /\ j.applied = job[i].applied
    BY <1>1, Facts DEF Steps, Jobs
<1>3. PICK v : v = Upcoming(i)
    OBVIOUS
<1>4. /\ Become(i, j) /\ UNCHANGED <<account, db, mutex>>
      /\ job[i].step = "mark" /\ writer \in {Nobody, i} /\ writer' = i
      /\ draft' = [draft EXCEPT !.ledger = draft.ledger \cup {v}]
    BY <1>1, <1>3 DEF Mark, At, Write
<1>5. job'[i] = j
    BY <1>4 DEF Become, IInv, TypeOK
<1>6. job[i].applied # Versions /\ draft.columns = db.columns \cup {v}
      /\ draft.ledger = db.ledger
    BY <1>3, <1>4, Facts DEF Sound, At
<1>7. v \in Versions
    BY <1>3, <1>4, <1>6, UpcomingVersion
<1>8. /\ draft' \in Databases /\ draft'.columns = db.columns \cup {v}
      /\ draft'.ledger = db.ledger \cup {v} /\ draft'.rows = draft.rows
    BY <1>4, <1>6, <1>7, Facts DEF Databases
<1>9. Sound(i)' /\ Found(i)'
    <2>1. Upcoming(i)' = v
        BY <1>2, <1>3, <1>5 DEF Upcoming
    <2>2. QED
        BY <1>2, <1>4, <1>5, <1>6, <1>8, <2>1, Facts DEF Sound, Found, At, Locking, Writing
<1>10. WholeSchema' /\ CoherentRows(db'.rows) /\ CoherentRows(draft'.rows)
    BY <1>4, <1>8, Facts DEF WholeSchema, CoherentRows
<1>11. QED
    BY <1>2, <1>4, <1>8, <1>9, <1>10, Facts, Stepping

LEMMA CommitScriptKeeps ==
    ASSUME IInv, NEW i \in Instances, CommitScript(i)
    PROVE  IInv'
<1>1. PICK v : v = Upcoming(i)
    OBVIOUS
<1>2. PICK j : j = [job[i] EXCEPT !.step = "migrate", !.applied = job[i].applied \cup {v}]
    OBVIOUS
<1>3. /\ Become(i, j) /\ UNCHANGED <<account, draft, mutex>>
      /\ job[i].step = "commit" /\ writer' = Nobody /\ db' = draft
    BY <1>1, <1>2 DEF CommitScript, At, Commit
<1>4. /\ job[i].applied # Versions /\ writer = i /\ mutex = i
      /\ draft.columns = db.columns \cup {v} /\ draft.ledger = db.ledger \cup {v}
    BY <1>1, <1>3, Facts DEF Sound, At, Locking, Writing
<1>5. job[i].applied = db.ledger /\ v \in Versions /\ db.ledger \cup {v} \in Prefixes
    BY <1>1, <1>3, <1>4, UpcomingVersion
<1>6. j \in Jobs /\ j.step = "migrate" /\ j.applied = db.ledger \cup {v}
    BY <1>2, <1>5, Facts DEF Steps, Jobs
<1>7. job'[i] = j
    BY <1>3 DEF Become, IInv, TypeOK
<1>8. Sound(i)' /\ Found(i)'
    BY <1>3, <1>4, <1>6, <1>7, Facts DEF Sound, Found, At, Locking, Writing
<1>9. WholeSchema' /\ CoherentRows(db'.rows) /\ CoherentRows(draft'.rows)
    BY <1>3, <1>4, <1>5, Facts DEF WholeSchema, CoherentRows
<1>10. QED
    BY <1>3, <1>4, <1>6, <1>8, <1>9, Facts, Stepping

LEMMA InitializedKeeps ==
    ASSUME IInv, NEW i \in Instances, Initialized(i)
    PROVE  IInv'
<1>1. PICK j : j = [NoJob EXCEPT !.step = "ready"]
    OBVIOUS
<1>2. j \in Jobs /\ j.step = "ready"
    BY <1>1, NoJobTyped DEF Steps
<1>3. /\ Become(i, j) /\ UNCHANGED <<account, db, draft, writer>> /\ job[i].step = "migrate"
      /\ mutex' = IF mutex = i THEN Nobody ELSE mutex
    BY <1>1 DEF Initialized, At
<1>4. job'[i] = j
    BY <1>3 DEF Become, IInv, TypeOK
<1>5. Sound(i)' /\ Found(i)'
    BY <1>2, <1>3, <1>4, Facts DEF Sound, Found, At, Locking, Writing
<1>6. WholeSchema' /\ CoherentRows(db'.rows) /\ CoherentRows(draft'.rows)
    BY <1>3, Facts DEF WholeSchema, CoherentRows
<1>7. QED
    BY <1>2, <1>3, <1>5, <1>6, Facts, Stepping

-----------------------------------------------------------------------------
(* A refresh *)

LEMMA RefreshKeeps ==
    ASSUME IInv, NEW i \in Instances, Refresh(i)
    PROVE  IInv'
<1>1. PICK n : n = [NoJob EXCEPT !.step = "page"]
    OBVIOUS
<1>2. PICK j : j = [n EXCEPT !.gone = Devices \ Listed]
    OBVIOUS
<1>3. n \in Jobs /\ n.step = "page" /\ n.cursor = 0
    <2>1. n \in Jobs /\ n.step = "page"
        BY <1>1, NoJobTyped DEF Steps
    <2>2. n.cursor = 0
        BY <1>1 DEF NoJob
    <2>3. QED
        BY <2>1, <2>2
<1>4. j \in Jobs /\ j.step = "page" /\ j.cursor = 0 /\ j.gone = Devices \ Listed
    BY <1>2, <1>3 DEF Jobs
<1>5. /\ Become(i, j) /\ UNCHANGED <<account, db, draft, writer, mutex>>
      /\ job[i].step = "ready"
    <2>1. j = [NoJob EXCEPT !.step = "page", !.gone = Devices \ Listed]
        BY <1>1, <1>2
    <2>2. QED
        BY <2>1 DEF Refresh, At, locks
<1>6. job'[i] = j
    BY <1>5 DEF Become, IInv, TypeOK
<1>7. \A d \in Devices \ j.gone : account[d] \in Entries
    BY <1>4, Facts DEF Listed
<1>8. Sound(i)' /\ Found(i)'
    <2>1. Sound(i)'
        BY <1>4, <1>5, <1>6, Facts DEF Sound, At, Locking, Writing
    <2>2. ASSUME NEW d \in Devices PROVE ~(d <= j.cursor)
        <3>1. d \in Nat /\ d # 0
            BY DevicesAssumption
        <3>2. QED
            BY <1>4, <3>1
    <2>3. Found(i)'
        BY <1>4, <1>5, <1>6, <1>7, <2>2, Facts DEF Found, At
    <2>4. QED
        BY <2>1, <2>3
<1>9. WholeSchema' /\ CoherentRows(db'.rows) /\ CoherentRows(draft'.rows)
    BY <1>5, Facts DEF WholeSchema, CoherentRows
<1>10. QED
    BY <1>4, <1>5, <1>8, <1>9, Facts, Stepping

\* A page adds the devices between the cursors.
LEMMA PageFinds ==
    ASSUME IInv, NEW i \in Instances, At(i, "page"),
           NEW next \in Cursors, NEW more \in BOOLEAN, NEW rows, NEW found,
           rows = {d \in Listed : job[i].cursor < d /\ (more => d <= next)},
           found = [d \in Devices |-> Coalesce(job[i].found[d],
                                        IF d \in rows THEN account[d].product ELSE None)]
    PROVE  /\ found \in [Devices -> Products \cup {None}]
           /\ \A d \in Devices \ job[i].gone : (more => d <= next) => found[d] \in Products
<1>1. ASSUME NEW d \in Devices PROVE found[d] \in Products \cup {None}
    <2>1. job[i].found[d] \in Products \cup {None}
        BY Facts DEF Jobs
    <2>2. d \in rows => account[d] \in Entries
        BY Facts DEF Listed
    <2>3. d \in rows => account[d].product \in Products
        BY <2>2 DEF Entries
    <2>4. QED
        BY <2>1, <2>3 DEF Coalesce
<1>2. ASSUME NEW d \in Devices \ job[i].gone, more => d <= next
      PROVE  found[d] \in Products
    <2>1. account[d] \in Entries /\ (d <= job[i].cursor => job[i].found[d] \in Products)
        BY Facts DEF Found, At
    <2>2. account[d].product \in Products /\ None \notin Products
        BY <2>1, NoneAssumption DEF Entries
    <2>3. CASE d <= job[i].cursor
        BY <2>1, <2>2, <2>3 DEF Coalesce
    <2>4. CASE ~(d <= job[i].cursor)
        <3>1. job[i].cursor < d
            <4>1. job[i].cursor \in Devices \cup {0}
                BY Facts DEF Jobs, Cursors
            <4>2. job[i].cursor \in Nat /\ d \in Nat
                BY <4>1, DevicesAssumption
            <4>3. QED
                BY <2>4, <4>2
        <3>2. d \in Listed
            <4>1. account[d] # NoEntry
                BY <2>2 DEF NoEntry
            <4>2. QED
                BY <4>1 DEF Listed
        <3>3. d \in rows
            BY <1>2, <3>1, <3>2
        <3>4. job[i].found[d] \in Products \cup {None}
            BY Facts DEF Jobs
        <3>5. QED
            BY <2>2, <3>3, <3>4 DEF Coalesce
    <2>5. QED
        BY <2>3, <2>4
<1>3. QED
    BY <1>1, <1>2

LEMMA PageKeeps ==
    ASSUME IInv, NEW i \in Instances, Page(i)
    PROVE  IInv'
<1>1. At(i, "page") /\ UNCHANGED <<account, db, draft, writer, mutex>>
    BY DEF Page, locks
<1> DEFINE Rows0(next, more) ==
               {d \in Listed : job[i].cursor < d /\ (more => d <= next)}
           Found0(next, more) ==
               [d \in Devices |-> Coalesce(job[i].found[d],
                                    IF d \in Rows0(next, more) THEN account[d].product ELSE None)]
<1>2. PICK next \in Cursors, more \in BOOLEAN :
          IF LastPage(i, more)
          THEN Become(i, [NoJob EXCEPT !.step = "discover", !.found = Found0(next, more),
                                       !.gone = job[i].gone])
          ELSE /\ next \notin job[i].cursors
               /\ Become(i, [job[i] EXCEPT !.pages = @ + 1, !.cursor = next,
                                           !.cursors = @ \cup {next},
                                           !.found = Found0(next, more)])
    BY DEF Page
<1>3. PICK found : found = Found0(next, more)
    OBVIOUS
<1>4. /\ found \in [Devices -> Products \cup {None}]
      /\ \A d \in Devices \ job[i].gone : (more => d <= next) => found[d] \in Products
    <2>1. PICK rows : rows = Rows0(next, more)
        OBVIOUS
    <2>2. rows = {d \in Listed : job[i].cursor < d /\ (more => d <= next)}
        BY <2>1
    <2>3. found = [d \in Devices |-> Coalesce(job[i].found[d],
                                        IF d \in rows THEN account[d].product ELSE None)]
        BY <1>3, <2>1
    <2> HIDE DEF Rows0, Found0
    <2>4. QED
        BY <1>1, <2>2, <2>3, PageFinds
<1>5. PICK gone : gone = job[i].gone
    OBVIOUS
<1>6. gone \in SUBSET Devices /\ \A d \in Devices \ gone : account[d] \in Entries
    BY <1>1, <1>5, Facts DEF Jobs, Found, At
<1>7. CASE ~more
    <2>1. PICK n : n = [NoJob EXCEPT !.step = "discover"]
        OBVIOUS
    <2>2. PICK j : j = [n EXCEPT !.found = found, !.gone = gone]
        OBVIOUS
    <2>3. n \in Jobs /\ n.step = "discover"
        BY <2>1, NoJobTyped DEF Steps
    <2>4. j \in Jobs /\ j.step = "discover" /\ j.found = found /\ j.gone = gone
        BY <1>4, <1>6, <2>2, <2>3 DEF Jobs
    <2>5. Become(i, j)
        <3>1. j = [NoJob EXCEPT !.step = "discover", !.found = found, !.gone = gone]
            BY <2>1, <2>2
        <3>2. QED
            BY <1>2, <1>3, <1>5, <1>7, <3>1 DEF LastPage
    <2>6. job'[i] = j
        BY <2>5 DEF Become, IInv, TypeOK
    <2>7. Sound(i)' /\ Found(i)'
        BY <1>1, <1>4, <1>5, <1>6, <1>7, <2>4, <2>6, Facts
           DEF Sound, Found, At, Locking, Writing
    <2>8. WholeSchema' /\ CoherentRows(db'.rows) /\ CoherentRows(draft'.rows)
        BY <1>1, Facts DEF WholeSchema, CoherentRows
    <2>9. QED
        BY <1>1, <2>4, <2>5, <2>7, <2>8, Facts, Stepping
<1>8. CASE more
    <2>1. PICK j : j = [job[i] EXCEPT !.pages = job[i].pages + 1, !.cursor = next,
                                      !.cursors = job[i].cursors \cup {next},
                                      !.found = found]
        OBVIOUS
    <2>2. /\ j \in Jobs /\ j.step = "page" /\ j.cursor = next /\ j.found = found
          /\ j.gone = gone
        <3>1. PICK e : e = job[i]
            OBVIOUS
        <3>2. PICK cursors : cursors = e.cursors \cup {next}
            OBVIOUS
        <3>3. e \in Jobs /\ e.step = "page" /\ e.gone = gone
            BY <1>1, <1>5, <3>1, Facts DEF At
        <3>4. cursors \in SUBSET Cursors /\ e.pages + 1 \in Nat
            BY <3>2, <3>3 DEF Jobs
        <3>5. j = [e EXCEPT !.pages = e.pages + 1, !.cursor = next, !.cursors = cursors,
                            !.found = found]
            BY <2>1, <3>1, <3>2
        <3> HIDE DEF Rows0, Found0
        <3>6. QED
            BY <1>4, <3>3, <3>4, <3>5 DEF Jobs
    <2>3. Become(i, j)
        BY <1>2, <1>3, <1>8, <2>1 DEF LastPage
    <2>4. job'[i] = j
        BY <2>3 DEF Become, IInv, TypeOK
    <2>5. Sound(i)' /\ Found(i)'
        BY <1>1, <1>4, <1>5, <1>6, <1>8, <2>2, <2>4, Facts
           DEF Sound, Found, At, Locking, Writing
    <2>6. WholeSchema' /\ CoherentRows(db'.rows) /\ CoherentRows(draft'.rows)
        BY <1>1, Facts DEF WholeSchema, CoherentRows
    <2>7. QED
        BY <1>1, <2>2, <2>3, <2>5, <2>6, Facts, Stepping
<1>9. QED
    BY <1>7, <1>8

\* mark_all_missing and the upserts of a listing, row by row.
LEMMA DiscoveredRow ==
    ASSUME NEW old \in Rows \cup {NoRow}, NEW product \in Products \cup {None},
           NEW missing, NEW row, OfOneAnswer(old),
           missing = IF old = NoRow THEN NoRow ELSE [old EXCEPT !.present = FALSE],
           row = IF product = None THEN missing ELSE Upserted(missing, Discovered(product))
    PROVE  /\ row \in Rows \cup {NoRow} /\ OfOneAnswer(row)
           /\ product # None => row \in Rows /\ row.present = TRUE
<1>1. missing \in Rows \cup {NoRow} /\ OfOneAnswer(missing)
    <2>1. CASE old = NoRow
        BY <2>1
    <2>2. CASE old # NoRow
        <3>1. missing = [old EXCEPT !.present = FALSE] /\ old \in Rows
            BY <2>2
        <3>2. /\ missing \in Rows /\ missing.energy = old.energy /\ missing.raw = old.raw
              /\ missing.eligibility = old.eligibility
            BY <3>1 DEF Rows
        <3>3. QED
            BY <3>2 DEF OfOneAnswer
    <2>3. QED
        BY <2>1, <2>2
<1>2. CASE product = None
    BY <1>1, <1>2
<1>3. CASE product # None
    <2>1. PICK new : new = Discovered(product)
        OBVIOUS
    <2>2. product \in Products
        BY <1>3
    <2>3. new \in Rows /\ new.present = TRUE /\ OfOneAnswer(new) /\ new.energy = None
        BY <2>1, <2>2, DiscoveredIsCoherent
    <2>4. row = Upserted(missing, new)
        BY <1>3, <2>1
    <2>5. Upserted(missing, new) \in Rows /\ Upserted(missing, new).present = new.present
        BY <1>1, <2>3, UpsertedIsRow
    <2>6. OfOneAnswer(Upserted(missing, new))
        BY <1>1, <2>3, UpsertedIsCoherent
    <2>7. QED
        BY <2>3, <2>4, <2>5, <2>6
<1>4. QED
    BY <1>2, <1>3

LEMMA DiscoverKeeps ==
    ASSUME IInv, NEW i \in Instances, Discover(i)
    PROVE  IInv'
<1>1. PICK found : found = job[i].found
    OBVIOUS
<1>2. found \in [Devices -> Products \cup {None}]
    BY <1>1, Facts DEF Jobs
<1>3. PICK gone : gone = job[i].gone
    OBVIOUS
<1>4. job[i].step = "discover" /\ writer = Nobody /\ writer' = i
    BY DEF Discover, At, Write
<1>5. /\ gone \in SUBSET Devices
      /\ \A d \in Devices \ gone : found[d] \in Products
    BY <1>1, <1>3, <1>4, Facts DEF Jobs, Found, At
<1> DEFINE Missing(d) == IF db.rows[d] = NoRow THEN NoRow
                         ELSE [db.rows[d] EXCEPT !.present = FALSE]
<1>6. PICK rows : rows = [d \in Devices |-> IF found[d] = None THEN Missing(d)
                                            ELSE Upserted(Missing(d), Discovered(found[d]))]
    OBVIOUS
<1>7. ASSUME NEW d \in Devices
      PROVE  /\ rows[d] \in Rows \cup {NoRow} /\ OfOneAnswer(rows[d])
             /\ found[d] # None => rows[d] \in Rows /\ rows[d].present = TRUE
    <2>1. PICK old : old = db.rows[d]
        OBVIOUS
    <2>2. old \in Rows \cup {NoRow} /\ OfOneAnswer(old)
        BY <2>1, Facts DEF Databases, CoherentRows
    <2>3. PICK product : product = found[d]
        OBVIOUS
    <2>4. product \in Products \cup {None}
        BY <1>2, <2>3
    <2>5. PICK missing : missing = Missing(d)
        OBVIOUS
    <2>6. missing = IF old = NoRow THEN NoRow ELSE [old EXCEPT !.present = FALSE]
        BY <2>1, <2>5
    <2>7. PICK row : row = rows[d]
        OBVIOUS
    <2>8. row = IF product = None THEN missing ELSE Upserted(missing, Discovered(product))
        BY <1>6, <2>3, <2>5, <2>7
    <2> HIDE DEF Missing
    <2>9. /\ row \in Rows \cup {NoRow} /\ OfOneAnswer(row)
          /\ product # None => row \in Rows /\ row.present = TRUE
        BY <2>2, <2>4, <2>6, <2>8, DiscoveredRow
    <2>10. QED
        BY <2>3, <2>7, <2>9
<1>8. rows \in [Devices -> Rows \cup {NoRow}] /\ CoherentRows(rows)
    BY <1>6, <1>7 DEF CoherentRows
<1>9. PICK todo : todo = {d \in Devices : found[d] # None}
    OBVIOUS
<1>10. PICK n : n = [NoJob EXCEPT !.step = "specify"]
    OBVIOUS
<1>11. PICK j : j = [n EXCEPT !.gone = gone, !.todo = todo]
    OBVIOUS
<1>12. n \in Jobs /\ n.step = "specify"
    BY <1>10, NoJobTyped DEF Steps
<1>13. j \in Jobs /\ j.step = "specify" /\ j.gone = gone /\ j.todo = todo
    BY <1>5, <1>9, <1>11, <1>12 DEF Jobs
<1>14. draft' = [db EXCEPT !.rows = rows] /\ UNCHANGED <<account, db, mutex>>
    BY <1>1, <1>6 DEF Discover, Write
<1>15. Become(i, j)
    <2>1. j = [NoJob EXCEPT !.step = "specify", !.gone = gone, !.todo = todo]
        BY <1>10, <1>11
    <2>2. QED
        BY <1>1, <1>3, <1>9, <2>1 DEF Discover
<1>16. job'[i] = j
    BY <1>15 DEF Become, IInv, TypeOK
<1>17. /\ draft' \in Databases /\ draft'.rows = rows
       /\ draft'.columns = db.columns /\ draft'.ledger = db.ledger
    BY <1>8, <1>14, Facts DEF Databases
<1> HIDE DEF Missing
<1>18. Sound(i)' /\ Found(i)'
    <2>1. \A d \in todo : rows[d] \in Rows
        BY <1>7, <1>9
    <2>2. Sound(i)'
        BY <1>4, <1>13, <1>14, <1>16, <1>17, <2>1, Facts DEF Sound, At, Locking, Writing
    <2>3. \A d \in Devices : rows[d].present = FALSE => d \in gone
        BY <1>5, <1>7, NoneAssumption
    <2>4. Found(i)'
        BY <1>13, <1>16, <1>17, <2>3 DEF Found, At
    <2>5. QED
        BY <2>2, <2>4
<1>19. WholeSchema' /\ CoherentRows(db'.rows) /\ CoherentRows(draft'.rows)
    BY <1>8, <1>14, <1>17, Facts DEF WholeSchema, CoherentRows
<1>20. QED
    BY <1>4, <1>13, <1>14, <1>15, <1>17, <1>18, <1>19, Facts, Stepping

LEMMA SpecifyKeeps ==
    ASSUME IInv, NEW i \in Instances, Specify(i)
    PROVE  IInv'
<1>1. PICK d \in job[i].todo :
          /\ Become(i, [job[i] EXCEPT !.todo = @ \ {d}])
          /\ \/ /\ d \in Listed
                /\ Write(i, Store(draft, d, Specified(draft.rows[d], account[d].answer)))
             \/ UNCHANGED <<account, db, draft, locks>>
    BY DEF Specify
<1>2. PICK todo : todo = job[i].todo \ {d}
    OBVIOUS
<1>3. PICK j : j = [job[i] EXCEPT !.todo = todo]
    OBVIOUS
<1>4. Become(i, j) /\ job[i].step = "specify"
    BY <1>1, <1>2, <1>3 DEF Specify, At
<1>5. /\ j \in Jobs /\ j.step = "specify" /\ j.todo = todo /\ j.gone = job[i].gone
      /\ d \in Devices /\ todo \subseteq Devices
    BY <1>1, <1>2, <1>3, <1>4, Facts DEF Jobs
<1>6. job'[i] = j
    BY <1>4 DEF Become, IInv, TypeOK
<1>7. /\ writer = i /\ draft.columns = db.columns /\ draft.ledger = db.ledger
      /\ draft.rows[d] \in Rows /\ \A e \in todo : draft.rows[e] \in Rows
      /\ \A e \in Devices : draft.rows[e].present = FALSE => e \in job[i].gone
    BY <1>1, <1>2, <1>4, Facts DEF Sound, Found, At, Writing
<1>8. CASE UNCHANGED <<account, db, draft, locks>>
    <2>1. UNCHANGED <<account, db, draft, writer, mutex>>
        BY <1>8 DEF locks
    <2>2. Sound(i)'
        BY <1>4, <1>5, <1>6, <1>7, <2>1, Facts DEF Sound, At, Locking, Writing
    <2>3. Found(i)'
        BY <1>5, <1>6, <1>7, <2>1, Facts DEF Found, At
    <2>4. WholeSchema' /\ CoherentRows(db'.rows) /\ CoherentRows(draft'.rows)
        BY <2>1, Facts DEF WholeSchema, CoherentRows
    <2>5. QED
        BY <1>4, <1>5, <2>1, <2>2, <2>3, <2>4, Facts, Stepping
<1>9. CASE /\ d \in Listed
           /\ Write(i, Store(draft, d, Specified(draft.rows[d], account[d].answer)))
    <2>1. PICK row : row = draft.rows[d]
        OBVIOUS
    <2>2. PICK answer : answer = account[d].answer
        OBVIOUS
    <2>3. PICK content : content = draft
        OBVIOUS
    <2>4. row \in Rows /\ answer \in Answers /\ content \in Databases
          /\ CoherentRows(content.rows)
        BY <1>5, <1>7, <1>9, <2>1, <2>2, <2>3, Facts DEF Listed, Entries
    <2>5. PICK stored : stored = Store(content, d, Specified(row, answer))
        OBVIOUS
    <2>6. /\ stored \in Databases /\ CoherentRows(stored.rows)
          /\ stored.columns = content.columns /\ stored.ledger = content.ledger
          /\ stored.rows[d] \in Rows /\ stored.rows[d].present = row.present
          /\ \A e \in Devices \ {d} : stored.rows[e] = content.rows[e]
        BY <1>5, <2>4, <2>5, StoreIsCoherent
    <2>7. /\ draft' = stored /\ writer' = i /\ UNCHANGED <<account, db, mutex>>
        BY <1>9, <2>1, <2>2, <2>3, <2>5 DEF Write
    <2>8. Sound(i)'
        <3>1. \A e \in todo : stored.rows[e] \in Rows
            BY <1>5, <1>7, <2>3, <2>6
        <3>2. QED
            BY <1>4, <1>5, <1>6, <1>7, <2>3, <2>6, <2>7, <3>1, Facts
               DEF Sound, At, Locking, Writing
    <2>9. Found(i)'
        <3>1. \A e \in Devices : stored.rows[e].present = FALSE => e \in job[i].gone
            BY <1>5, <1>7, <2>1, <2>3, <2>6
        <3>2. QED
            BY <1>5, <1>6, <2>7, <3>1 DEF Found, At
    <2>10. WholeSchema' /\ CoherentRows(db'.rows) /\ CoherentRows(draft'.rows)
        BY <2>6, <2>7, Facts DEF WholeSchema, CoherentRows
    <2>11. QED
        BY <1>4, <1>5, <1>7, <2>6, <2>7, <2>8, <2>9, <2>10, Facts, Stepping
<1>10. QED
    BY <1>1, <1>8, <1>9

\* What has no workflow is one of the jobs.
LEMMA Idle == NoJob \in Jobs /\ NoJob.step = "idle"
<1>1. PICK n : n = [NoJob EXCEPT !.step = "idle"]
    OBVIOUS
<1>2. QED
    BY <1>1, NoJobTyped DEF Steps

LEMMA RefreshedKeeps ==
    ASSUME IInv, NEW i \in Instances, Refreshed(i)
    PROVE  IInv'
<1>1. /\ Become(i, NoJob) /\ UNCHANGED <<account, draft, mutex>>
      /\ job[i].step = "specify" /\ writer' = Nobody /\ db' = draft
    BY DEF Refreshed, At, Commit
<1>2. writer = i /\ draft.columns = db.columns /\ draft.ledger = db.ledger
    BY <1>1, Facts DEF Sound, Writing
<1>3. job'[i] = NoJob
    BY <1>1 DEF Become, IInv, TypeOK
<1>4. Sound(i)' /\ Found(i)'
    BY <1>1, <1>2, <1>3, Idle, Facts DEF Sound, Found, At, Locking, Writing
<1>5. WholeSchema' /\ CoherentRows(db'.rows) /\ CoherentRows(draft'.rows)
    BY <1>1, <1>2, Facts DEF WholeSchema, CoherentRows
<1>6. QED
    BY <1>1, <1>2, <1>4, <1>5, Idle, Facts, Stepping

-----------------------------------------------------------------------------
(* The status of one device *)

LEMMA ReadRowKeeps ==
    ASSUME IInv, NEW i \in Instances, ReadRow(i)
    PROVE  IInv'
<1>1. PICK d \in Devices :
          /\ db.rows[d] # NoRow
          /\ Become(i, [NoJob EXCEPT !.step = "query", !.todo = {d}, !.stale = db.rows[d]])
    BY DEF ReadRow
<1>2. UNCHANGED <<account, db, draft, writer, mutex>> /\ job[i].step = "ready"
    BY DEF ReadRow, At, locks
<1>3. PICK row : row = db.rows[d]
    OBVIOUS
<1>4. row \in Rows
    BY <1>1, <1>3, Facts DEF Databases
<1>5. PICK n : n = [NoJob EXCEPT !.step = "query"]
    OBVIOUS
<1>6. PICK j : j = [n EXCEPT !.todo = {d}, !.stale = row]
    OBVIOUS
<1>7. n \in Jobs /\ n.step = "query"
    BY <1>5, NoJobTyped DEF Steps
<1>8. j \in Jobs /\ j.step = "query" /\ j.stale = row
    BY <1>4, <1>6, <1>7 DEF Jobs
<1>9. Become(i, j)
    <2>1. j = [NoJob EXCEPT !.step = "query", !.todo = {d}, !.stale = row]
        BY <1>5, <1>6
    <2>2. QED
        BY <1>1, <1>3, <2>1
<1>10. job'[i] = j
    BY <1>9 DEF Become, IInv, TypeOK
<1>11. Sound(i)' /\ Found(i)'
    BY <1>2, <1>4, <1>8, <1>10, Facts DEF Sound, Found, At, Locking, Writing
<1>12. WholeSchema' /\ CoherentRows(db'.rows) /\ CoherentRows(draft'.rows)
    BY <1>2, Facts DEF WholeSchema, CoherentRows
<1>13. QED
    BY <1>2, <1>8, <1>9, <1>11, <1>12, Facts, Stepping

LEMMA QueryKeeps ==
    ASSUME IInv, NEW i \in Instances, Query(i)
    PROVE  IInv'
<1>1. PICK d \in job[i].todo \cap Listed :
          /\ account[d].answer \in Specs
          /\ Write(i, Store(db, d, Specified(job[i].stale, account[d].answer)))
          /\ Become(i, [NoJob EXCEPT !.step = "updated"])
    BY DEF Query
<1>2. writer = Nobody /\ job[i].step = "query" /\ d \in Devices
    BY <1>1, Facts DEF Query, At, Listed
<1>3. PICK row : row = job[i].stale
    OBVIOUS
<1>4. PICK answer : answer = account[d].answer
    OBVIOUS
<1>5. PICK content : content = db
    OBVIOUS
<1>6. row \in Rows /\ answer \in Answers /\ content \in Databases /\ CoherentRows(content.rows)
    BY <1>1, <1>2, <1>3, <1>4, <1>5, Facts DEF Sound, At, Answers
<1>7. PICK stored : stored = Store(content, d, Specified(row, answer))
    OBVIOUS
<1>8. /\ stored \in Databases /\ CoherentRows(stored.rows)
      /\ stored.columns = content.columns /\ stored.ledger = content.ledger
    BY <1>2, <1>6, <1>7, StoreIsCoherent
<1>9. /\ draft' = stored /\ writer' = i /\ UNCHANGED <<account, db, mutex>>
    BY <1>1, <1>3, <1>4, <1>5, <1>7 DEF Write
<1>10. PICK j : j = [NoJob EXCEPT !.step = "updated"]
    OBVIOUS
<1>11. j \in Jobs /\ j.step = "updated" /\ Become(i, j)
    BY <1>1, <1>10, NoJobTyped DEF Steps
<1>12. job'[i] = j
    BY <1>11 DEF Become, IInv, TypeOK
<1>13. Sound(i)' /\ Found(i)'
    BY <1>2, <1>5, <1>8, <1>9, <1>11, <1>12, Facts DEF Sound, Found, At, Locking, Writing
<1>14. WholeSchema' /\ CoherentRows(db'.rows) /\ CoherentRows(draft'.rows)
    BY <1>8, <1>9, Facts DEF WholeSchema, CoherentRows
<1>15. QED
    BY <1>2, <1>8, <1>9, <1>11, <1>13, <1>14, Facts, Stepping

LEMMA UpdatedKeeps ==
    ASSUME IInv, NEW i \in Instances, Updated(i)
    PROVE  IInv'
<1>1. /\ Become(i, NoJob) /\ UNCHANGED <<account, draft, mutex>>
      /\ job[i].step = "updated" /\ writer' = Nobody /\ db' = draft
    BY DEF Updated, At, Commit
<1>2. writer = i /\ draft.columns = db.columns /\ draft.ledger = db.ledger
    BY <1>1, Facts DEF Sound, Writing
<1>3. job'[i] = NoJob
    BY <1>1 DEF Become, IInv, TypeOK
<1>4. Sound(i)' /\ Found(i)'
    BY <1>1, <1>2, <1>3, Idle, Facts DEF Sound, Found, At, Locking, Writing
<1>5. WholeSchema' /\ CoherentRows(db'.rows) /\ CoherentRows(draft'.rows)
    BY <1>1, <1>2, Facts DEF WholeSchema, CoherentRows
<1>6. QED
    BY <1>1, <1>2, <1>4, <1>5, Idle, Facts, Stepping

-----------------------------------------------------------------------------
(* The end of a workflow, and the account *)

LEMMA AbortKeeps ==
    ASSUME IInv, NEW i \in Instances, Abort(i)
    PROVE  IInv'
<1>1. /\ Become(i, NoJob) /\ UNCHANGED <<account, db>>
      /\ writer' = (IF writer = i THEN Nobody ELSE writer)
      /\ draft' = (IF writer = i THEN db ELSE draft)
      /\ mutex' = (IF mutex = i THEN Nobody ELSE mutex)
    BY DEF Abort
<1>2. job'[i] = NoJob
    BY <1>1 DEF Become, IInv, TypeOK
<1>3. Sound(i)' /\ Found(i)'
    BY <1>1, <1>2, Idle, Facts DEF Sound, Found, At, Locking, Writing
<1>4. WholeSchema' /\ CoherentRows(db'.rows) /\ CoherentRows(draft'.rows)
    BY <1>1, Facts DEF WholeSchema, CoherentRows
<1>5. QED
    BY <1>1, <1>3, <1>4, Idle, Facts, Stepping

LEMMA ChangeKeeps ==
    ASSUME IInv, Change
    PROVE  IInv'
<1>1. PICK d \in Devices, e \in Entries : account' = [account EXCEPT ![d] = e]
    BY DEF Change
<1>2. UNCHANGED <<db, draft, writer, mutex, job>>
    BY DEF Change, locks
<1>3. /\ account' \in [Devices -> Entries \cup {NoEntry}]
      /\ \A f \in Devices : account[f] \in Entries => account'[f] \in Entries
    BY <1>1 DEF IInv, TypeOK
<1>4. TypeOK'
    BY <1>2, <1>3 DEF IInv, TypeOK
<1>5. WholeSchema' /\ CoherentRows(db'.rows) /\ CoherentRows(draft'.rows)
    BY <1>2 DEF IInv, WholeSchema, CoherentRows
<1>6. ASSUME NEW k \in Instances PROVE Sound(k)' /\ Found(k)'
    <2>1. Sound(k)'
        BY <1>2, Facts DEF Sound, At, Upcoming
    <2>2. Found(k)'
        BY <1>2, <1>3, Facts DEF Found, At
    <2>3. QED
        BY <2>1, <2>2
<1>7. QED
    BY <1>4, <1>5, <1>6 DEF IInv

LEMMA LeaveKeeps ==
    ASSUME IInv, Leave
    PROVE  IInv'
<1>1. PICK d \in Devices :
          /\ account' = [account EXCEPT ![d] = NoEntry]
          /\ job' = [i \in Instances |->
                        IF At(i, "page") \/ At(i, "discover")
                        THEN [job[i] EXCEPT !.gone = @ \cup {d}] ELSE job[i]]
    BY DEF Leave, Listed
<1>2. UNCHANGED <<db, draft, writer, mutex>>
    BY DEF Leave, locks
<1>3. /\ account' \in [Devices -> Entries \cup {NoEntry}]
      /\ \A f \in Devices : f # d => account'[f] = account[f]
    BY <1>1 DEF IInv, TypeOK
<1>4. ASSUME NEW k \in Instances
      PROVE  job'[k] \in Jobs /\ Sound(k)' /\ Found(k)'
    <2>1. PICK e : e = job[k]
        OBVIOUS
    <2>2. e \in Jobs
        BY <2>1, Facts
    <2>3. CASE e.step \in {"page", "discover"}
        <3>1. PICK gone : gone = e.gone \cup {d}
            OBVIOUS
        <3>2. PICK j : j = [e EXCEPT !.gone = gone]
            OBVIOUS
        <3>3. job'[k] = j
            BY <1>1, <2>1, <2>3, <3>1, <3>2 DEF At
        <3>4. /\ j \in Jobs /\ j.step = e.step /\ j.gone = gone
              /\ j.cursor = e.cursor /\ j.found = e.found
            BY <2>2, <3>1, <3>2 DEF Jobs
        <3>5. Sound(k)'
            BY <1>2, <2>1, <2>3, <3>3, <3>4, Facts DEF Sound, At, Locking, Writing
        <3>6. Found(k)'
            BY <1>2, <1>3, <2>1, <2>3, <3>1, <3>3, <3>4, Facts DEF Found, At
        <3>7. QED
            BY <3>3, <3>4, <3>5, <3>6
    <2>4. CASE e.step \notin {"page", "discover"}
        <3>1. job'[k] = job[k]
            BY <1>1, <2>1, <2>4 DEF At
        <3>2. Sound(k)'
            BY <1>2, <3>1, Facts DEF Sound, At, Upcoming
        <3>3. Found(k)'
            BY <1>2, <2>1, <2>4, <3>1, Facts DEF Found, At
        <3>4. QED
            BY <2>1, <2>2, <3>1, <3>2, <3>3
    <2>5. QED
        BY <2>3, <2>4
<1>5. TypeOK'
    <2>1. job' \in [Instances -> Jobs]
        BY <1>1, <1>4
    <2>2. QED
        BY <1>2, <1>3, <2>1 DEF IInv, TypeOK
<1>6. WholeSchema' /\ CoherentRows(db'.rows) /\ CoherentRows(draft'.rows)
    BY <1>2 DEF IInv, WholeSchema, CoherentRows
<1>7. QED
    BY <1>4, <1>5, <1>6 DEF IInv

-----------------------------------------------------------------------------
(* Theorems *)

LEMMA InitHolds == Init => IInv
<1> SUFFICES ASSUME Init PROVE IInv
    OBVIOUS
<1>1. PICK n \in {0, 1, 2}, rows \in [Devices -> OldRows] :
          db = [columns |-> 1..n, ledger |-> 1..n, rows |-> rows]
    BY DEF Init
<1>2. /\ account \in [Devices -> Entries \cup {NoEntry}] /\ draft = db
      /\ writer = Nobody /\ mutex = Nobody /\ job = [i \in Instances |-> NoJob]
    BY DEF Init
<1>3. n \in 0..Latest /\ 1..n \subseteq Versions
    BY VersionsAssumption DEF Versions
<1>4. ASSUME NEW d \in Devices PROVE rows[d] \in Rows \cup {NoRow} /\ OfOneAnswer(rows[d])
    <2>1. PICK row : row = rows[d]
        OBVIOUS
    <2>2. row \in OldRows
        BY <2>1
    <2>3. CASE row = NoRow
        BY <2>1, <2>3 DEF NoRow, OfOneAnswer
    <2>4. CASE row # NoRow
        BY <2>1, <2>2, <2>4 DEF OldRows, OfOneAnswer
    <2>5. QED
        BY <2>3, <2>4
<1>5. rows \in [Devices -> Rows \cup {NoRow}] /\ CoherentRows(rows)
    BY <1>4 DEF CoherentRows
<1>6. db \in Databases /\ WholeSchema /\ db.rows = rows
    BY <1>1, <1>3, <1>5 DEF Databases, WholeSchema, Prefixes
<1>7. TypeOK
    BY <1>2, <1>6, Idle DEF TypeOK
<1>8. ASSUME NEW k \in Instances PROVE Sound(k) /\ Found(k)
    <2>1. job[k] = NoJob /\ writer # k
        BY <1>2, NobodyAssumption
    <2>2. QED
        BY <2>1, Idle DEF Sound, Found, At, Locking, Writing
<1>9. QED
    BY <1>2, <1>5, <1>6, <1>7, <1>8 DEF IInv

LEMMA NextKeeps == IInv /\ [Next]_vars => IInv'
<1> SUFFICES ASSUME IInv, [Next]_vars PROVE IInv'
    OBVIOUS
<1>1. CASE Change \/ Leave
    BY <1>1, ChangeKeeps, LeaveKeeps
<1>2. ASSUME NEW i \in Instances, Migrate(i) PROVE IInv'
    BY <1>2, BeginKeeps, InitializeKeeps, ReadLedgerKeeps, ScriptKeeps, MarkKeeps,
       CommitScriptKeeps, InitializedKeeps DEF Migrate
<1>3. ASSUME NEW i \in Instances, Work(i) PROVE IInv'
    BY <1>3, RefreshKeeps, PageKeeps, DiscoverKeeps, SpecifyKeeps, RefreshedKeeps,
       ReadRowKeeps, QueryKeeps, UpdatedKeeps DEF Work
<1>4. ASSUME NEW i \in Instances, Abort(i) PROVE IInv'
    BY <1>4, AbortKeeps
<1>5. CASE UNCHANGED vars
    <2>1. UNCHANGED <<account, db, draft, writer, mutex, job>>
        BY <1>5 DEF vars
    <2>2. TypeOK' /\ WholeSchema' /\ CoherentRows(db'.rows) /\ CoherentRows(draft'.rows)
        BY <2>1 DEF IInv, TypeOK, WholeSchema, CoherentRows
    <2>3. ASSUME NEW k \in Instances PROVE Sound(k)' /\ Found(k)'
        BY <2>1, Facts DEF Sound, Found, At, Upcoming
    <2>4. QED
        BY <2>2, <2>3 DEF IInv
<1>6. QED
    BY <1>1, <1>2, <1>3, <1>4, <1>5 DEF Next

\* The inductive invariant: what each instance knows of the database while it
\* migrates it or writes to it, and what its listing has found so far.
THEOREM Invariant == Spec => []IInv
BY InitHolds, NextKeeps, PTL DEF Spec

\* The columns of a row always agree with one answer about the meter's
\* specification (DeviceRepository.upsert), for any devices and answers.
THEOREM RowsCoherent == Spec => []Coherent
<1>1. IInv => Coherent
    BY DEF IInv, Coherent, CoherentRows
<1>2. QED
    BY <1>1, Invariant, PTL

\* Wherever starts are killed and however many there are at once, the columns
\* are those of the versions in the ledger, without a gap, and no script finds
\* its columns there already (migrate).
THEOREM SchemaIsWhole == Spec => []SchemaWhole
<1>1. ASSUME IInv PROVE SchemaWhole
    <2>1. PICK n \in 0..Latest : db.ledger = 1..n
        BY <1>1 DEF IInv, WholeSchema, Prefixes
    <2>2. \A v \in db.ledger : 1..v \subseteq db.ledger
        BY <2>1, VersionsAssumption
    <2>3. ASSUME NEW i \in Instances, At(i, "migrate"), job[i].applied # Versions
          PROVE  Upcoming(i) \notin db.columns
        <3>1. Upcoming(i) \in Versions \ db.ledger
            BY <1>1, <2>3, UpcomingVersion DEF At
        <3>2. QED
            BY <1>1, <3>1 DEF IInv, WholeSchema
    <2>4. QED
        BY <1>1, <2>2, <2>3 DEF IInv, WholeSchema, SchemaWhole
<1>2. (IInv => SchemaWhole)
    BY <1>1
<1>3. QED
    BY <1>2, Invariant, PTL

\* A refresh marks as missing only what was missing from the account at some
\* time of its listing, for any number of pages (list_devices, discover).
THEOREM MissingMeansGone == Spec => []MissingWasGone
<1>1. IInv => MissingWasGone
    BY DEF IInv, Found, MissingWasGone
<1>2. QED
    BY <1>1, Invariant, PTL
=============================================================================
