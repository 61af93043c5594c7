---------------------------- MODULE DeviceTable ----------------------------
(***************************************************************************)
(* The columns of the table devices: how infrastructure/migrations.py      *)
(* brings an older database up to them, and what discovery and the         *)
(* revalidation of specifications (services/device_service.py, through     *)
(* infrastructure/repositories/devices.py) keep in them.  Every workflow   *)
(* initializes the database first; several instances share it.  Listing    *)
(* the devices of the account takes pages, during which the account may    *)
(* change, as it may between the listing and the answers about             *)
(* specifications.                                                         *)
(*                                                                         *)
(* Capture has the rest of a refresh.  A kill, a cancel, a deadline and    *)
(* any error end a workflow at any step.                                   *)
(***************************************************************************)
EXTENDS Naturals, FiniteSets

CONSTANTS Instances, Nobody,
          Devices,      \* their positions in the account's list
          Products,
          Specs,        \* answers that name a code, a unit and a scale
          Latest,       \* the last version of MIGRATIONS
          MaxPages,     \* MAX_DEVICE_PAGES
          None          \* NULL

Unsupported == "unsupported"  \* an answer that conclusively names no energy code
Invalid == "invalid"          \* an answer that cannot be used
Answers == Specs \cup {Unsupported, Invalid}

ASSUME NobodyAssumption == Nobody \notin Instances
ASSUME DevicesAssumption == Devices \subseteq Nat \ {0}
ASSUME NoneAssumption == None \notin Products \cup Answers /\ None \notin BOOLEAN
ASSUME AnswersAssumption == {Unsupported, Invalid} \cap Specs = {}
ASSUME VersionsAssumption == Latest \in Nat /\ Latest >= 3
ASSUME PagesAssumption == MaxPages \in Nat \ {0}

VARIABLES account,  \* product and specification of each device in the cloud
          db,       \* the committed database
          draft,    \* the same in the open write transaction
          writer,   \* the instance whose transaction is open
          mutex,    \* the holder of the interprocess lock
          job       \* the workflow of each instance

vars == <<account, db, draft, writer, mutex, job>>

Entries == [product : Products, answer : Answers]
NoEntry == [product |-> None, answer |-> None]

Versions == 1..Latest

Eligibilities == {"unknown", "supported", "unsupported"}
Rows == [product : Products,
         energy : Specs \cup {None},    \* energy_code, energy_unit, energy_scale
         eligibility : Eligibilities,
         raw : Answers \cup {None},     \* raw_specification_json
         present : BOOLEAN \cup {None}]
\* No row has no product, so that what is inserted is what Upserted makes of it.
NoRow == [product |-> None, energy |-> None, eligibility |-> "unknown",
          raw |-> None, present |-> None]

Databases == [columns : SUBSET Versions,  \* versions whose statements took effect
              ledger : SUBSET Versions,   \* schema_migrations
              rows : [Devices -> Rows \cup {NoRow}]]

Steps == {"idle", "lock", "ledger", "migrate", "mark", "commit", "ready",
          "page", "discover", "specify", "query", "updated"}
Cursors == Devices \cup {0}

Jobs == [step : Steps,
         applied : SUBSET Versions,
         pages : Nat, cursor : Cursors, cursors : SUBSET Cursors,
         found : [Devices -> Products \cup {None}],  \* products of the listing
         todo : SUBSET Devices,
         stale : Rows \cup {NoRow},  \* the row as the status workflow read it
         gone : SUBSET Devices]      \* ghost: not in the account at some time
                                     \* since the listing began

NoJob == [step |-> "idle", applied |-> {}, pages |-> 0, cursor |-> 0, cursors |-> {},
          found |-> [d \in Devices |-> None], todo |-> {}, stale |-> NoRow, gone |-> {}]

\* A database of an earlier version: no eligibility, presence or raw answer.
OldRows == {NoRow} \cup {row \in Rows : /\ row.eligibility = "unknown"
                                        /\ row.present = None /\ row.raw = None}

Init == /\ account \in [Devices -> Entries \cup {NoEntry}]
        /\ \E n \in {0, 1, 2} : \E rows \in [Devices -> OldRows] :
              /\ n = 0 => rows = [d \in Devices |-> NoRow]
              /\ db = [columns |-> 1..n, ledger |-> 1..n, rows |-> rows]
        /\ draft = db /\ writer = Nobody /\ mutex = Nobody
        /\ job = [i \in Instances |-> NoJob]

At(i, step) == job[i].step = step
Become(i, j) == job' = [job EXCEPT ![i] = j]
Smallest(S) == CHOOSE n \in S : \A m \in S : n <= m
Listed == {d \in Devices : account[d] # NoEntry}
locks == <<writer, mutex>>

-----------------------------------------------------------------------------
(* The account *)

\* A device is added, gets another product or another specification.
Change == /\ \E d \in Devices : \E e \in Entries : account' = [account EXCEPT ![d] = e]
          /\ UNCHANGED <<db, draft, locks, job>>

Leave == /\ \E d \in Listed :
               /\ account' = [account EXCEPT ![d] = NoEntry]
               /\ job' = [i \in Instances |->
                             IF At(i, "page") \/ At(i, "discover")
                             THEN [job[i] EXCEPT !.gone = @ \cup {d}] ELSE job[i]]
         /\ UNCHANGED <<db, draft, locks>>

-----------------------------------------------------------------------------
(* Transactions *)

\* The write lock is taken with the first write.
Write(i, content) == /\ writer \in {Nobody, i} /\ writer' = i
                     /\ draft' = content
                     /\ UNCHANGED <<account, db, mutex>>

Commit(i) == /\ db' = draft /\ writer' = Nobody
             /\ UNCHANGED <<account, draft, mutex>>

\* connect() and initialize() roll back and let go of both locks; so does the
\* system when the process is killed.
Abort(i) == /\ ~At(i, "idle")
            /\ Become(i, NoJob)
            /\ writer' = IF writer = i THEN Nobody ELSE writer
            /\ draft' = IF writer = i THEN db ELSE draft
            /\ mutex' = IF mutex = i THEN Nobody ELSE mutex
            /\ UNCHANGED <<account, db>>

-----------------------------------------------------------------------------
(* initialize and migrate *)

Begin(i) == /\ At(i, "idle")
            /\ Become(i, [NoJob EXCEPT !.step = "lock"])
            /\ UNCHANGED <<account, db, draft, locks>>

\* Mutant: only the storage is prepared under the lock.
InitializeUnlocked(i) == /\ At(i, "lock")
                         /\ Become(i, [job[i] EXCEPT !.step = "ledger"])
                         /\ UNCHANGED <<account, db, draft, locks>>

Initialize(i) == /\ At(i, "lock") /\ mutex = Nobody /\ mutex' = i
                 /\ Become(i, [job[i] EXCEPT !.step = "ledger"])
                 /\ UNCHANGED <<account, db, draft, writer>>

\* The versions applied are read once, before the first script.
ReadLedger(i) == /\ At(i, "ledger")
                 /\ Become(i, [job[i] EXCEPT !.step = "migrate", !.applied = db.ledger])
                 /\ UNCHANGED <<account, db, draft, locks>>

Upcoming(i) == Smallest(Versions \ job[i].applied)

\* Version 3 adds the columns of eligibility, presence and raw answer.
Altered(version) ==
    [db EXCEPT !.columns = @ \cup {version},
               !.rows = IF version # 3 THEN @
                        ELSE [d \in Devices |-> [@[d] EXCEPT !.eligibility = "unknown",
                                                             !.present = None, !.raw = None]]]

\* BEGIN IMMEDIATE and the statements of a version. They fail when the tables
\* or columns exist already.
Script(i) == /\ At(i, "migrate") /\ job[i].applied # Versions
             /\ writer = Nobody /\ Upcoming(i) \notin db.columns
             /\ Become(i, [job[i] EXCEPT !.step = "mark"])
             /\ Write(i, Altered(Upcoming(i)))

Mark(i) == /\ At(i, "mark")
           /\ Become(i, [job[i] EXCEPT !.step = "commit"])
           /\ Write(i, [draft EXCEPT !.ledger = @ \cup {Upcoming(i)}])

CommitScript(i) == /\ At(i, "commit")
                   /\ Become(i, [job[i] EXCEPT !.step = "migrate",
                                               !.applied = @ \cup {Upcoming(i)}])
                   /\ Commit(i)

Initialized(i) == /\ At(i, "migrate") /\ job[i].applied = Versions
                  /\ mutex' = IF mutex = i THEN Nobody ELSE mutex
                  /\ Become(i, [NoJob EXCEPT !.step = "ready"])
                  /\ UNCHANGED <<account, db, draft, writer>>

-----------------------------------------------------------------------------
(* Rows *)

\* Mutant: an unusable answer is taken for no answer.
EligibilityKept(old, new) == IF new.eligibility = "unknown" THEN old.eligibility
                             ELSE new.eligibility

\* energy_eligibility of a row whose product is the same: a listing, which
\* knows no answer, leaves it as it is.
Eligibility(old, new) == IF new.eligibility = "unknown" /\ new.raw = None
                         THEN old.eligibility ELSE new.eligibility

Coalesce(a, b) == IF a = None THEN b ELSE a

\* upsert: a row of another product loses what was known of the old one.
Upserted(old, new) ==
    IF old.product # new.product THEN new
    ELSE [new EXCEPT !.energy = IF new.eligibility = "unsupported" THEN @
                                ELSE Coalesce(@, old.energy),
                     !.eligibility = Eligibility(old, new),
                     !.raw = Coalesce(@, old.raw)]

Store(content, d, row) == [content EXCEPT !.rows[d] = Upserted(@, row)]

\* A device of a listing.
Discovered(product) == [NoRow EXCEPT !.product = product, !.present = TRUE]

\* ensure_energy_specification: the row as it was read, with the answer.
Specified(row, answer) ==
    CASE answer = Unsupported ->
           [row EXCEPT !.energy = None, !.eligibility = "unsupported", !.raw = answer]
      [] answer = Invalid ->
           [row EXCEPT !.eligibility = "unknown", !.raw = answer]
      [] OTHER ->
           [row EXCEPT !.energy = answer, !.eligibility = "supported", !.raw = answer]

-----------------------------------------------------------------------------
(* A refresh: list_devices, discover, ensure_energy_specification *)

Refresh(i) == /\ At(i, "ready")
              /\ Become(i, [NoJob EXCEPT !.step = "page", !.gone = Devices \ Listed])
              /\ UNCHANGED <<account, db, draft, locks>>

\* Mutant: the listing ends at its last page, whatever follows.
LastPageTaken(i, more) == ~more \/ job[i].pages + 1 = MaxPages

LastPage(i, more) == ~more

\* Devices beyond the cursor, in the order of the account. A page may be empty
\* and still not be the last; a cursor seen before ends the listing.
Page(i) ==
    /\ At(i, "page") /\ job[i].pages < MaxPages
    /\ \E next \in Cursors, more \in BOOLEAN :
          LET rows == {d \in Listed : job[i].cursor < d /\ (more => d <= next)}
              found == [d \in Devices |-> Coalesce(job[i].found[d],
                                            IF d \in rows THEN account[d].product ELSE None)]
          IN  IF LastPage(i, more)
              THEN Become(i, [NoJob EXCEPT !.step = "discover", !.found = found,
                                           !.gone = job[i].gone])
              ELSE /\ next \notin job[i].cursors
                   /\ Become(i, [job[i] EXCEPT !.pages = @ + 1, !.cursor = next,
                                               !.cursors = @ \cup {next}, !.found = found])
    /\ UNCHANGED <<account, db, draft, locks>>

\* mark_all_missing and the upserts of the listing.
Discover(i) ==
    /\ At(i, "discover") /\ writer = Nobody
    /\ LET found == job[i].found
           missing(d) == IF db.rows[d] = NoRow THEN NoRow
                         ELSE [db.rows[d] EXCEPT !.present = FALSE]
       IN  /\ Write(i, [db EXCEPT !.rows = [d \in Devices |->
                           IF found[d] = None THEN missing(d)
                           ELSE Upserted(missing(d), Discovered(found[d]))]])
           /\ Become(i, [NoJob EXCEPT !.step = "specify", !.gone = job[i].gone,
                            !.todo = {d \in Devices : found[d] # None}])

\* A specification that could not be read leaves the row alone.
Specify(i) ==
    /\ At(i, "specify")
    /\ \E d \in job[i].todo :
          /\ Become(i, [job[i] EXCEPT !.todo = @ \ {d}])
          /\ \/ /\ d \in Listed
                /\ Write(i, Store(draft, d, Specified(draft.rows[d], account[d].answer)))
             \/ UNCHANGED <<account, db, draft, locks>>

\* prepare_capture_phase, or the end of connect().
Refreshed(i) == /\ At(i, "specify") /\ job[i].todo = {}
                /\ Become(i, NoJob)
                /\ Commit(i)

-----------------------------------------------------------------------------
(* The status of one device *)

\* capture_individual_status reads the row without a transaction.
ReadRow(i) ==
    /\ At(i, "ready")
    /\ \E d \in Devices :
          /\ db.rows[d] # NoRow
          /\ Become(i, [NoJob EXCEPT !.step = "query", !.todo = {d}, !.stale = db.rows[d]])
    /\ UNCHANGED <<account, db, draft, locks>>

\* An answer that is no specification ends the workflow with an error, which
\* undoes the upsert too: Abort.
Query(i) ==
    /\ At(i, "query") /\ writer = Nobody
    /\ \E d \in job[i].todo \cap Listed :
          /\ account[d].answer \in Specs
          /\ Write(i, Store(db, d, Specified(job[i].stale, account[d].answer)))
          /\ Become(i, [NoJob EXCEPT !.step = "updated"])

Updated(i) == /\ At(i, "updated")
              /\ Become(i, NoJob)
              /\ Commit(i)

-----------------------------------------------------------------------------

Migrate(i) == \/ Begin(i) \/ Initialize(i) \/ ReadLedger(i)
              \/ Script(i) \/ Mark(i) \/ CommitScript(i) \/ Initialized(i)

Work(i) == \/ Refresh(i) \/ Page(i) \/ Discover(i) \/ Specify(i) \/ Refreshed(i)
           \/ ReadRow(i) \/ Query(i) \/ Updated(i)

Next == \/ Change \/ Leave
        \/ \E i \in Instances : Migrate(i) \/ Work(i) \/ Abort(i)

Spec == Init /\ [][Next]_vars
-----------------------------------------------------------------------------
(* Properties *)

TypeOK == /\ account \in [Devices -> Entries \cup {NoEntry}]
          /\ db \in Databases /\ draft \in Databases
          /\ {writer, mutex} \subseteq Instances \cup {Nobody}
          /\ job \in [Instances -> Jobs]

\* What a row says of one answer belongs together.
OfOneAnswer(row) ==
    /\ row.eligibility = "supported" => row.energy # None /\ row.raw = row.energy
    /\ row.eligibility = "unsupported" => row.energy = None /\ row.raw = Unsupported

\* However listings, answers and rows read too early are merged into a row, an
\* eligible meter has the code, unit and scale of the answer kept with it, and
\* one that is ruled out has none (upsert).
Coherent == TypeOK /\ \A d \in Devices : OfOneAnswer(db.rows[d])

\* The columns of the database are those of the versions in its ledger, and
\* these have no gap, wherever a start was killed; no script meets a column
\* that another start has added meanwhile, which would stop it for good.
SchemaWhole ==
    /\ db.columns = db.ledger
    /\ \A v \in db.ledger : 1..v \subseteq db.ledger
    /\ \A i \in Instances :
          At(i, "migrate") /\ job[i].applied # Versions => Upcoming(i) \notin db.columns

\* A refresh marks a meter as missing only if it was missing from the account
\* at some time of the listing, on whatever page it would have been.
MissingWasGone ==
    \A i \in Instances : At(i, "specify") =>
        \A d \in Devices : draft.rows[d].present = FALSE => d \in job[i].gone
=============================================================================
