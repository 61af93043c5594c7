------------------------------ MODULE Capture ------------------------------
(***************************************************************************)
(* services/reading_service.py and device_service.py, with the connection  *)
(* they run on: the refresh of all meters and the capture of one meter's   *)
(* status.  A run lists the devices, revalidates their specifications,     *)
(* commits that metadata, then asks for statuses in chunks and commits the *)
(* usable readings of each response in one transaction, which a cancel or  *)
(* the deadline must not stop.  The runs of several application instances, *)
(* and whatever else their users do, share the database: one at a time     *)
(* holds its write lock.                                                   *)
(*                                                                         *)
(* Time is counted in units; a reading is the device it is of.             *)
(***************************************************************************)
EXTENDS Naturals, FiniteSets

CONSTANTS Instances,      \* application instances, each runs one workflow
          Nobody,         \* the write lock of the database is free
          Elsewhere,      \* an import, a calculation, the settings hold it
          Devices,        \* devices of the Tuya account
          ChunkSize,      \* MAX_BATCH_SIZE
          Budget,         \* deadline of a workflow
          Reserve,        \* reserve_after_remote
          RemoteMax,      \* longest remote call
          SaveMax,        \* longest wait for the write lock, busy_timeout
          InterruptRows   \* inserts after which SQLite polls the cancellation

ASSUME NobodyAssumption == /\ Nobody \notin Instances /\ Elsewhere \notin Instances
                           /\ Elsewhere # Nobody
ASSUME BoundsAssumption ==
    /\ {ChunkSize, Budget, RemoteMax, SaveMax, InterruptRows} \subseteq Nat \ {0}
    /\ Reserve \in Nat
ASSUME DevicesAssumption == IsFiniteSet(Devices)

VARIABLES known,    \* committed rows of the table devices
          draft,    \* the same table in the open write transaction
          writer,   \* the instance whose transaction is open
          listing,  \* ghost: the last complete listing that was committed
          job       \* the workflow of each instance

vars == <<known, draft, writer, listing, job>>

Eligibilities == {"unknown", "supported", "unsupported"}
NoRow == [cached |-> FALSE, present |-> FALSE, eligibility |-> "unknown"]
Rows == [cached : BOOLEAN, present : BOOLEAN, eligibility : Eligibilities]

Steps == {"idle", "list", "specify", "request", "waiting", "save", "insert",
          "report", "done", "failed"}

Jobs == [kind : {"refresh", "status"}, step : Steps, cancelled : BOOLEAN,
         left : 0..Budget,           \* remaining_seconds
         due : 0..RemoteMax,         \* what is left for the remote call
         hold : 0..SaveMax,          \* what is left of the wait for the lock
         blocked : BOOLEAN,          \* a write of metadata waits for the lock
         todo : SUBSET Devices,      \* specifications to revalidate
         stale : BOOLEAN,            \* present_in_tuya as it was read before
         eligible : SUBSET Devices,  \* prepared, no status requested yet
         chunk : SUBSET Devices,     \* asked for in the current request
         pending : SUBSET Devices,   \* usable readings of the response
         captured : SUBSET Devices,  \* readings the result will hold
         inserted : Nat,             \* rows inserted on this connection
         usable : SUBSET Devices,    \* ghost: usable readings received
         rows : [Devices -> Nat],    \* ghost: readings committed by this run
         excuse : {"none", "database", "late"},  \* ghost: why a save failed
         listed : SUBSET Devices,    \* ghost: the listing it wrote
         overrun : Nat]              \* ghost: time waited after the deadline

NewJob == [kind |-> "refresh", step |-> "idle", cancelled |-> FALSE, left |-> Budget,
           due |-> 0, hold |-> 0, blocked |-> FALSE, todo |-> {}, stale |-> FALSE, eligible |-> {},
           chunk |-> {}, pending |-> {}, captured |-> {}, inserted |-> 0,
           usable |-> {}, rows |-> [d \in Devices |-> 0], excuse |-> "none",
           listed |-> {}, overrun |-> 0]

Init == /\ known \in [Devices -> {NoRow, [NoRow EXCEPT !.cached = TRUE, !.present = TRUE]}]
        /\ draft = known /\ writer = Nobody
        /\ listing = {d \in Devices : known[d].present}
        /\ job = [i \in Instances |-> NewJob]

At(i, step) == job[i].step = step
Become(i, j) == job' = [job EXCEPT ![i] = j]
Least(a, b) == IF a < b THEN a ELSE b

\* CancellationContext.checkpoint raises.
Stopped(i) == job[i].cancelled \/ job[i].left = 0

\* What remains of a run that is over: its result and the ghosts.
Over(j, step) == [NewJob EXCEPT !.step = step, !.kind = j.kind, !.pending = j.pending,
                                !.captured = j.captured, !.usable = j.usable,
                                !.rows = j.rows, !.excuse = j.excuse,
                                !.overrun = j.overrun]

Running(i) == job[i].step \notin {"idle", "done", "failed"}

\* connect() or add_all ends its transaction, if it has one open.
Unlock(i) == writer' = IF writer = i THEN Nobody ELSE writer

\* Mutant: connect() does not roll back.
FailHolding(i, j) == /\ Become(i, Over(j, "failed"))
                     /\ UNCHANGED <<known, draft, writer, listing>>

\* The workflow raises: nothing but what was committed stays.
Fail(i, j) == /\ Become(i, Over(j, "failed"))
              /\ Unlock(i)
              /\ draft' = IF writer = i THEN known ELSE draft
              /\ UNCHANGED <<known, listing>>

-----------------------------------------------------------------------------
(* Starting, stopping, time *)

Begin(i) == /\ ~Running(i)
            /\ \/ Become(i, [NewJob EXCEPT !.step = "list"])
               \/ \E d \in Devices :
                     /\ known[d].cached
                     /\ Become(i, [NewJob EXCEPT !.kind = "status", !.step = "specify",
                                                 !.todo = {d}, !.stale = known[d].present])
            /\ UNCHANGED <<known, draft, writer, listing>>

Cancel(i) == /\ Running(i) /\ ~job[i].cancelled
             /\ Become(i, [job[i] EXCEPT !.cancelled = TRUE])
             /\ UNCHANGED <<known, draft, writer, listing>>

\* The thread of the run is inside SQLite, which sleeps and tries again.
Waits(i) == job[i].blocked \/ At(i, "save")

Pass(i, j) == [j EXCEPT !.left = IF @ > 0 THEN @ - 1 ELSE 0,
                        !.due = IF @ > 0 THEN @ - 1 ELSE 0,
                        !.hold = IF @ > 0 THEN @ - 1 ELSE 0,
                        !.overrun = IF j.left = 0 THEN @ + 1 ELSE @]

\* Only a wait for the write lock goes on after the deadline.
Tick(i) == /\ Running(i) /\ (job[i].left > 0 \/ (Waits(i) /\ job[i].hold > 0))
           /\ Become(i, Pass(i, job[i]))
           /\ UNCHANGED <<known, draft, writer, listing>>

\* A checkpoint outside the capture boundary raises.
Checkpoint(i) == /\ job[i].step \in {"list", "specify", "request", "report"}
                 /\ Stopped(i) /\ ~job[i].blocked
                 /\ Fail(i, job[i])

\* Other work of any instance takes the lock and gives it back, or keeps it.
OtherWork == /\ \/ writer = Nobody /\ writer' = Elsewhere
                \/ writer = Elsewhere /\ writer' = Nobody
             /\ UNCHANGED <<known, draft, listing, job>>

-----------------------------------------------------------------------------
(* Discovery and specifications: one transaction *)

\* list_devices raises: the cache is left as it was.
ListFails(i) == At(i, "list") /\ ~job[i].blocked /\ Fail(i, job[i])

\* Another holds the write lock when a listing or a specification has been
\* read: the write of it waits as long as busy_timeout says, whatever is left
\* of the deadline, and no checkpoint is reached.
Block(i) == /\ At(i, "list") \/ (At(i, "specify") /\ job[i].todo # {})
            /\ ~Stopped(i) /\ ~job[i].blocked
            /\ writer \notin {Nobody, i}
            /\ Become(i, [job[i] EXCEPT !.blocked = TRUE, !.hold = SaveMax])
            /\ UNCHANGED <<known, draft, writer, listing>>

\* Mutant: a write that found the database busy is tried again.
BusyAgain(i) == /\ job[i].blocked /\ job[i].hold = 0
                /\ Become(i, [job[i] EXCEPT !.hold = SaveMax])
                /\ UNCHANGED <<known, draft, writer, listing>>

\* The wait is over and the lock was not got.
Busy(i) == /\ job[i].blocked /\ job[i].hold = 0
           /\ Fail(i, job[i])

\* A write of metadata starts: at once, or when its wait has ended.
Writes(i) == /\ writer \in {Nobody, i}
             /\ job[i].blocked \/ ~Stopped(i)

\* Mutant: the devices are not marked missing first.
DiscoverUnmarked(i) ==
    /\ At(i, "list") /\ Writes(i)
    /\ \E listed \in SUBSET Devices :
          /\ draft' = [d \in Devices |->
                         [known[d] EXCEPT !.present = @ \/ d \in listed,
                                          !.cached = @ \/ d \in listed]]
          /\ Become(i, [job[i] EXCEPT !.step = "specify", !.blocked = FALSE, !.hold = 0,
                                      !.todo = listed, !.listed = listed])
    /\ writer' = i
    /\ UNCHANGED <<known, listing>>

\* mark_all_missing, then an upsert of every device of the complete listing;
\* an upsert without a specification keeps the cached eligibility unless the
\* product of the device has changed.
Discover(i) ==
    /\ At(i, "list") /\ Writes(i)
    /\ \E listed \in SUBSET Devices : \E replaced \in SUBSET listed :
          /\ draft' = [d \in Devices |->
                         [known[d] EXCEPT !.present = d \in listed,
                                          !.cached = @ \/ d \in listed,
                                          !.eligibility = IF d \in replaced THEN "unknown"
                                                                            ELSE @]]
          /\ Become(i, [job[i] EXCEPT !.step = "specify", !.blocked = FALSE, !.hold = 0,
                                      !.todo = listed, !.listed = listed])
    /\ writer' = i
    /\ UNCHANGED <<known, listing>>

\* One device less to revalidate; the status of those in S is asked for later.
Specified(i, d, S) == [job[i] EXCEPT !.blocked = FALSE, !.hold = 0,
                                     !.todo = @ \ {d}, !.eligible = @ \cup S]

\* ensure_energy_specification: the row is written from the device as it was
\* read before the remote call.
Upserted(i, d, eligibility) ==
    LET rows == IF writer = i THEN draft ELSE known
        flag == IF job[i].kind = "status" THEN job[i].stale ELSE draft[d].present
    IN  [rows EXCEPT ![d] = [cached |-> TRUE, present |-> flag, eligibility |-> eligibility]]

Specify(i) ==
    /\ At(i, "specify") /\ Writes(i)
    /\ \E d \in job[i].todo :
          /\ draft' = Upserted(i, d, "supported")
          /\ Become(i, Specified(i, d, {d}))
    /\ writer' = i
    /\ UNCHANGED <<known, listing>>

\* Mutant: the status of a device is requested whatever its specification.
SpecifyRejectedKept(i) ==
    /\ At(i, "specify") /\ Writes(i)
    /\ \E d \in job[i].todo :
          /\ draft' = Upserted(i, d, "unsupported")
          /\ Become(i, Specified(i, d, {d}))
    /\ writer' = i
    /\ UNCHANGED <<known, listing>>

\* An unsupported or invalid specification: the refresh goes on without the
\* device, the status workflow raises and so undoes the upsert.
SpecifyRejected(i) ==
    /\ At(i, "specify") /\ Writes(i)
    /\ \E d \in job[i].todo, e \in {"unsupported", "unknown"} :
          IF job[i].kind = "refresh"
          THEN /\ draft' = Upserted(i, d, e)
               /\ Become(i, Specified(i, d, {}))
               /\ writer' = i
               /\ UNCHANGED <<known, listing>>
          ELSE Fail(i, job[i])

\* The specification could not be read.
SpecifyFails(i) ==
    /\ At(i, "specify") /\ ~job[i].blocked
    /\ \E d \in job[i].todo :
          IF job[i].kind = "refresh"
          THEN /\ Become(i, Specified(i, d, {}))
               /\ UNCHANGED <<known, draft, writer, listing>>
          ELSE Fail(i, job[i])

\* Commit of the draft, when there is one.
CommitDraft(i, j) ==
    /\ IF writer = i
       THEN /\ known' = draft
            /\ listing' = IF j.kind = "refresh" THEN j.listed ELSE listing
       ELSE UNCHANGED <<known, listing>>
    /\ Unlock(i)
    /\ UNCHANGED draft

\* prepare_capture_phase, only when some device is eligible.
Prepare(i) ==
    /\ At(i, "specify") /\ job[i].todo = {} /\ ~Stopped(i)
    /\ IF job[i].eligible = {}
       THEN /\ Become(i, [job[i] EXCEPT !.step = "report"])
            /\ UNCHANGED <<known, draft, writer, listing>>
       ELSE /\ Become(i, [job[i] EXCEPT !.step = "request"])
            /\ CommitDraft(i, job[i])

-----------------------------------------------------------------------------
(* The capture boundary *)

\* Mutant: the remote call may use the time reserved for saving.
RemoteTimeUnreserved(i) == Least(RemoteMax, job[i].left)

\* remote_timeout_seconds inside reserve_after_remote; zero or less raises.
RemoteTime(i) == IF job[i].left > Reserve THEN Least(RemoteMax, job[i].left - Reserve) ELSE 0

\* Mutant: the next chunk starts again from the first device.
RequestAgain(i) ==
    /\ At(i, "request") /\ ~Stopped(i) /\ job[i].eligible # {} /\ RemoteTime(i) > 0
    /\ \E chunk \in SUBSET job[i].eligible \ {{}} :
          Become(i, [job[i] EXCEPT !.step = "waiting", !.due = RemoteTime(i), !.chunk = chunk])
    /\ UNCHANGED <<known, draft, writer, listing>>

Request(i) ==
    /\ At(i, "request") /\ ~Stopped(i) /\ job[i].eligible # {}
    /\ IF RemoteTime(i) = 0
       THEN Fail(i, job[i])
       ELSE /\ \E chunk \in SUBSET job[i].eligible :
                  /\ Cardinality(chunk) = Least(ChunkSize, Cardinality(job[i].eligible))
                  /\ Become(i, [job[i] EXCEPT !.step = "waiting", !.due = RemoteTime(i),
                                              !.eligible = @ \ chunk, !.chunk = chunk])
            /\ UNCHANGED <<known, draft, writer, listing>>

\* Mutant: a call that passed its deadline is not aborted.
RequestHangs(i) ==
    /\ At(i, "waiting") /\ job[i].due > 0
    /\ Fail(i, job[i])

\* The call ends after its deadline, with an error, or aborted by a cancel: a
\* batch goes on with the next chunk, an individual status raises.
RequestFails(i) ==
    /\ At(i, "waiting")
    /\ \/ /\ job[i].kind = "refresh"
          /\ Become(i, [job[i] EXCEPT !.step = "request", !.due = 0, !.chunk = {}])
          /\ UNCHANGED <<known, draft, writer, listing>>
       \/ /\ job[i].kind = "status" \/ Stopped(i)
          /\ Fail(i, job[i])

\* Mutant: only the first usable reading of a response is kept.
AnswerOfOne(i) ==
    /\ At(i, "waiting") /\ job[i].due > 0
    /\ \E d \in job[i].chunk :
          Become(i, [job[i] EXCEPT
              !.step = "save", !.hold = Least(SaveMax, job[i].left),
              !.pending = {d}, !.usable = @ \cup job[i].chunk])
    /\ UNCHANGED <<known, draft, writer, listing>>

\* The response arrives, cancelled or not: devices it leaves out and values
\* that do not normalize fail one by one.
Answer(i) ==
    /\ At(i, "waiting") /\ job[i].due > 0
    /\ \E usable \in SUBSET job[i].chunk :
          Become(i, [job[i] EXCEPT
              !.step = CASE usable # {} -> "save"
                         [] usable = {} /\ job[i].kind = "refresh" -> "request"
                         [] OTHER -> "report",
              !.hold = Least(SaveMax, job[i].left),
              !.due = 0, !.chunk = {},
              !.pending = usable,
              !.usable = @ \cup usable])
    /\ UNCHANGED <<known, draft, writer, listing>>

\* add_all: BEGIN IMMEDIATE waits for the write lock as long as is left.
Lock(i) == /\ At(i, "save") /\ job[i].hold > 0 /\ writer = Nobody
           /\ writer' = i /\ draft' = known
           /\ Become(i, [job[i] EXCEPT !.step = "insert", !.hold = 0])
           /\ UNCHANGED <<known, listing>>

\* The wait ends, or no time was left for it ("Salvare expirata"): then an
\* individual status is still reported, without its reading.
SaveLate(i) ==
    /\ At(i, "save") /\ job[i].hold = 0
    /\ LET j == [job[i] EXCEPT !.excuse = "late"]
       IN  \/ Fail(i, j)
           \/ /\ job[i].kind = "status"
              /\ Become(i, [j EXCEPT !.step = "report"])
              /\ UNCHANGED <<known, draft, writer, listing>>

\* The progress handler runs while the cached INSERT, whose instruction count
\* goes on over all rows of the connection, passes a multiple of its period.
Polled(i) ==
    LET before == job[i].inserted
        after == before + Cardinality(job[i].pending)
    IN  after \div InterruptRows > before \div InterruptRows

\* The rows are inserted and committed together.
Insert(i) ==
    /\ At(i, "insert")
    /\ Become(i, [job[i] EXCEPT
           !.step = IF job[i].kind = "refresh" THEN "request" ELSE "report",
           !.captured = @ \cup job[i].pending,
           !.inserted = @ + Cardinality(job[i].pending),
           !.rows = [d \in Devices |-> IF d \in job[i].pending THEN @[d] + 1 ELSE @[d]]])
    /\ Unlock(i)
    /\ UNCHANGED <<known, draft, listing>>

\* Mutant: the rows inserted before the interruption are committed.
InterruptPartly(i) ==
    /\ At(i, "insert") /\ Stopped(i) /\ Polled(i)
    /\ \E d \in job[i].pending :
          Become(i, Over([job[i] EXCEPT !.rows[d] = @ + 1], "failed"))
    /\ Unlock(i) /\ UNCHANGED <<known, draft, listing>>

\* SQLite interrupts the insert: add_all rolls back and the workflow raises.
Interrupt(i) == /\ At(i, "insert") /\ Stopped(i) /\ Polled(i)
                /\ Fail(i, job[i])

\* The database fails (disk full, I/O error).
InsertFails(i) == /\ At(i, "insert")
                  /\ Fail(i, [job[i] EXCEPT !.excuse = "database"])

\* All chunks are done: the result is built from what was captured, connect()
\* commits what is still open, and the worker delivers.
Report(i) ==
    /\ At(i, "report") \/ (At(i, "request") /\ job[i].eligible = {})
    /\ ~Stopped(i)
    /\ Become(i, Over(job[i], "done"))
    /\ CommitDraft(i, job[i])

-----------------------------------------------------------------------------

Workflow(i) ==
    \/ Checkpoint(i) \/ ListFails(i) \/ Discover(i) \/ Block(i) \/ Busy(i)
    \/ Specify(i) \/ SpecifyRejected(i) \/ SpecifyFails(i) \/ Prepare(i)
    \/ Request(i) \/ RequestFails(i) \/ Answer(i)
    \/ Lock(i) \/ SaveLate(i) \/ Insert(i) \/ Interrupt(i) \/ InsertFails(i)
    \/ Report(i)

Next == \/ OtherWork
        \/ \E i \in Instances : Begin(i) \/ Cancel(i) \/ Tick(i) \/ Workflow(i)

Spec == Init /\ [][Next]_vars

\* Threads of a running workflow are scheduled and its remote calls end; time
\* passes.  Nothing is assumed of the others that hold the lock.
FairSpec == Spec /\ \A i \in Instances : WF_vars(Workflow(i)) /\ WF_vars(Tick(i))
-----------------------------------------------------------------------------
(* Properties *)

TypeOK == /\ known \in [Devices -> Rows] /\ draft \in [Devices -> Rows]
          /\ writer \in Instances \cup {Nobody, Elsewhere}
          /\ listing \subseteq Devices
          /\ job \in [Instances -> Jobs]

Saved(i) == {d \in Devices : job[i].rows[d] > 0}

\* What a run reports is what it stored: the result shows a new reading for
\* exactly the devices with a committed one, and every usable value it
\* received is among them, unless a status says that saving came too late.
ReportedIsSaved ==
    \A i \in Instances : At(i, "done") =>
        /\ job[i].captured = Saved(i)
        /\ job[i].usable = Saved(i) \/ job[i].excuse = "late"

\* A run stores at most one reading of a meter, in whatever chunks and
\* however its requests end, and no time it counts down goes below zero.
OncePerRun == TypeOK /\ \A i \in Instances, d \in Devices : job[i].rows[d] <= 1

\* Readings are stored by whole responses: of the last one all or none, of
\* the earlier ones all, and nothing that no response held, also when a
\* cancel, the deadline or the database stopped the run (add_all).
ResponsesWhole ==
    \A i \in Instances :
        /\ job[i].pending \cap Saved(i) \in {{}, job[i].pending}
        /\ job[i].usable \ job[i].pending \subseteq Saved(i)
        /\ Saved(i) \subseteq job[i].usable

\* Meters are marked missing only by a complete listing without them; a
\* failed, cancelled or partial refresh changes nothing (one instance).
PresentIsListed == {d \in Devices : known[d].present} = listing

\* A run stores readings only of meters whose supported specification it has
\* committed before it asked for their status (one instance).
SupportedBeforeSaved ==
    \A i \in Instances : \A d \in Saved(i) :
        known[d].cached /\ known[d].eligibility = "supported"

\* No workflow that has ended keeps the database locked for the others.
LockReleased == \A i \in Instances : writer = i => Running(i)

\* Waiting for the lock delays the end of a workflow by busy_timeout at most,
\* and not at all once a response has arrived: the wait of add_all ends with
\* the deadline, that of the metadata does not look at it.
WaitsInTime == \A i \in Instances :
    /\ job[i].overrun <= SaveMax
    /\ job[i].overrun > 0 => job[i].usable = {}

\* The write lock is shared: it is given back at every end, and whoever keeps
\* it cannot hold up a workflow beyond the time its wait may take.
LockShared == LockReleased /\ WaitsInTime

\* A response that arrives finds the time for saving it still reserved.
ReserveKept ==
    [][\A i \in Instances :
         At(i, "waiting") /\ job'[i].step = "save" => job'[i].left >= Reserve]_vars

\* Every workflow ends, whatever calls and locks it waits for.
RunsEnd == \A i \in Instances : Running(i) ~> ~Running(i)

\* docs/ARCHITECTURE.md: a cancel after the response does not keep its usable
\* readings from being stored; only the database or the time limit does.
CancelKeepsResponse ==
    \A i \in Instances :
        At(i, "failed") /\ ~(job[i].usable \subseteq Saved(i)) => job[i].excuse # "none"
=============================================================================
