---------------------------- MODULE CaptureProofs ----------------------------
(***************************************************************************)
(* The theorems of Capture: for any number of instances and devices, any   *)
(* chunks and any times, what a run reports is what it stored, by whole    *)
(* responses and once, the time reserved for saving is kept, and no run    *)
(* that has ended keeps the write lock.  With one instance, meters are     *)
(* marked missing by complete listings only, and readings are of meters    *)
(* with a supported specification.  Every step of a run leaves fewer to    *)
(* come, and waits for the write lock end within the time they may take.   *)
(***************************************************************************)
EXTENDS Capture, FiniteSetTheorems, TLAPS

(* The inductive invariant, of one job. *)

SavedOf(j) == {d \in Devices : j.rows[d] > 0}

\* Of the last response all readings are stored or none, of the others all.
Settled(j) == j.usable = SavedOf(j) /\ j.pending \subseteq SavedOf(j)
Unsaved(j) == j.usable = SavedOf(j) \cup j.pending /\ j.pending \cap SavedOf(j) = {}

Whole(j) == (Settled(j) \/ Unsaved(j)) /\ \A d \in Devices : j.rows[d] <= 1

\* What a job of each step knows of what it stored. Devices that are still to
\* be asked for have no reading.
Sound(j) ==
    /\ Whole(j)
    /\ j.step \in {"idle", "list", "specify"} =>
          j.usable = {} /\ SavedOf(j) = {} /\ j.captured = {} /\ j.pending = {}
    /\ j.step \in {"request", "waiting"} => Settled(j)
    /\ j.step \in {"save", "insert"} => Unsaved(j)
    /\ j.step # "failed" => j.captured = SavedOf(j)
    /\ j.step \in {"request", "waiting", "save", "insert"} => j.eligible \cap j.usable = {}
    /\ j.step = "waiting" => /\ j.chunk \cap j.usable = {} /\ j.chunk \cap j.eligible = {}
                             /\ j.due > 0 => j.left >= j.due + Reserve
    /\ j.step \in {"report", "done"} => Settled(j) \/ j.excuse = "late"

Live(j) == j.step \notin {"idle", "done", "failed"}

IInv == /\ TypeOK
        /\ \A i \in Instances : Sound(job[i]) /\ (writer = i => Live(job[i]))

-----------------------------------------------------------------------------
(* Steps of one job *)

\* A run that ends, or goes on, with or without the write lock.
LEMMA Lift ==
    ASSUME IInv, NEW i \in Instances, NEW j \in Jobs, Sound(j), Become(i, j),
           known' \in [Devices -> Rows], draft' \in [Devices -> Rows],
           listing' \subseteq Devices,
           Unlock(i) \/ (writer' \in {writer, i} /\ (writer' = i => Live(j)))
    PROVE  IInv'
<1>1. /\ job \in [Instances -> Jobs] /\ writer \in Instances \cup {Nobody, Elsewhere}
      /\ job' = [job EXCEPT ![i] = j]
    BY DEF IInv, TypeOK, Become
<1>2. writer' \in Instances \cup {Nobody, Elsewhere} /\ job' \in [Instances -> Jobs]
    BY <1>1 DEF Unlock
<1>3. ASSUME NEW k \in Instances
      PROVE  Sound(job[k])' /\ (writer' = k => Live(job[k])')
    <2>1. PICK h : h = job'[k]
        OBVIOUS
    <2>2. CASE k = i
        <3>1. h = j
            BY <1>1, <2>1, <2>2
        <3>2. writer' = k => Live(j)
            BY <1>1, <2>2, NobodyAssumption DEF Unlock
        <3>3. QED
            BY <2>1, <3>1, <3>2 DEF Sound, Whole, Settled, Unsaved, SavedOf, Live
    <2>3. CASE k # i
        <3>1. h = job[k] /\ Sound(job[k]) /\ (writer = k => Live(job[k]))
            BY <1>1, <2>1, <2>3 DEF IInv
        <3>2. writer' = k => writer = k
            BY <2>3, NobodyAssumption DEF Unlock
        <3>3. QED
            BY <2>1, <3>1, <3>2 DEF Sound, Whole, Settled, Unsaved, SavedOf, Live
    <2>4. QED
        BY <2>2, <2>3
<1>4. QED
    BY <1>2, <1>3 DEF IInv, TypeOK

\* Steps that leave the database.
LEMMA LiftJob ==
    ASSUME IInv, NEW i \in Instances, NEW j \in Jobs, Sound(j), Become(i, j), Live(j),
           UNCHANGED <<known, draft, writer, listing>>
    PROVE  IInv'
<1>1. /\ known' \in [Devices -> Rows] /\ draft' \in [Devices -> Rows]
      /\ listing' \subseteq Devices /\ writer' = writer
    BY DEF IInv, TypeOK
<1>2. QED
    BY <1>1, Lift

LEMMA Own ==
    ASSUME IInv, NEW i \in Instances
    PROVE  job[i] \in Jobs /\ Sound(job[i])
BY DEF IInv, TypeOK

LEMMA NoRows ==
    /\ NewJob \in Jobs /\ Sound(NewJob) /\ SavedOf(NewJob) = {}
    /\ NewJob.step = "idle"
<1>1. PICK none : none = [d \in Devices |-> 0]
    OBVIOUS
<1>2. none \in [Devices -> Nat] /\ \A d \in Devices : none[d] = 0
    BY <1>1
<1>3. NewJob = [kind |-> "refresh", step |-> "idle", cancelled |-> FALSE, left |-> Budget,
           due |-> 0, hold |-> 0, blocked |-> FALSE, todo |-> {}, stale |-> FALSE,
           eligible |-> {}, chunk |-> {}, pending |-> {}, captured |-> {}, inserted |-> 0,
           usable |-> {}, rows |-> none, excuse |-> "none", listed |-> {}, overrun |-> 0]
    BY <1>1 DEF NewJob
<1>4. NewJob \in Jobs
    BY <1>2, <1>3, BoundsAssumption DEF Jobs, Steps
<1>5. NewJob.rows = none
    BY <1>3
<1>6. SavedOf(NewJob) = {}
    BY <1>2, <1>5 DEF SavedOf
<1>7. Sound(NewJob)
    <2>1. /\ NewJob.step = "idle" /\ NewJob.usable = {} /\ NewJob.captured = {}
          /\ NewJob.pending = {} /\ \A d \in Devices : NewJob.rows[d] <= 1
        BY <1>2, <1>3
    <2>2. Whole(NewJob)
        BY <1>6, <2>1 DEF Whole, Settled
    <2>3. QED
        BY <1>6, <2>1, <2>2 DEF Sound
<1>8. QED
    BY <1>3, <1>4, <1>6, <1>7

\* What is kept of a run that is over.
LEMMA OverKeeps ==
    ASSUME NEW j \in Jobs, NEW step \in {"done", "failed"}, NEW o, o = Over(j, step)
    PROVE  /\ o \in Jobs /\ o.step = step /\ o.usable = j.usable /\ o.pending = j.pending
           /\ o.captured = j.captured /\ o.excuse = j.excuse /\ o.rows = j.rows
           /\ o.overrun = j.overrun /\ ~o.blocked
           /\ SavedOf(o) = SavedOf(j)
           /\ Whole(j) => Whole(o)
<1>1. /\ o \in Jobs /\ o.step = step /\ o.usable = j.usable /\ o.pending = j.pending
      /\ o.captured = j.captured /\ o.excuse = j.excuse /\ o.rows = j.rows
      /\ o.overrun = j.overrun /\ ~o.blocked
    <2>1. /\ j.kind \in {"refresh", "status"} /\ j.pending \subseteq Devices
          /\ j.captured \subseteq Devices /\ j.usable \subseteq Devices
          /\ j.rows \in [Devices -> Nat] /\ j.excuse \in {"none", "database", "late"}
          /\ j.overrun \in Nat
        BY DEF Jobs
    <2>2. PICK rows : rows = j.rows
        OBVIOUS
    <2>3. o = [kind |-> j.kind, step |-> step, cancelled |-> FALSE, left |-> Budget,
               due |-> 0, hold |-> 0, blocked |-> FALSE, todo |-> {}, stale |-> FALSE,
               eligible |-> {}, chunk |-> {}, pending |-> j.pending,
               captured |-> j.captured, inserted |-> 0, usable |-> j.usable,
               rows |-> rows, excuse |-> j.excuse, listed |-> {}, overrun |-> j.overrun]
        BY <2>2 DEF Over, NewJob
    <2>4. step \in Steps /\ Budget \in 0..Budget /\ 0 \in 0..RemoteMax /\ 0 \in 0..SaveMax
        BY BoundsAssumption DEF Steps
    <2>5. o \in Jobs
        BY <2>1, <2>2, <2>3, <2>4 DEF Jobs
    <2>6. /\ o.step = step /\ o.usable = j.usable /\ o.pending = j.pending
          /\ o.captured = j.captured /\ o.excuse = j.excuse /\ o.rows = j.rows
          /\ o.overrun = j.overrun /\ ~o.blocked
        BY <2>2, <2>3
    <2>7. QED
        BY <2>5, <2>6
<1>2. SavedOf(o) = SavedOf(j)
    BY <1>1 DEF SavedOf
<1>3. Whole(j) => Whole(o)
    BY <1>1, <1>2 DEF Whole, Settled, Unsaved
<1>4. QED
    BY <1>1, <1>2, <1>3

LEMMA FailStep ==
    ASSUME IInv, NEW i \in Instances, NEW j \in Jobs, Whole(j), Fail(i, j)
    PROVE  IInv'
<1>1. PICK o : o = Over(j, "failed")
    OBVIOUS
<1>2. o \in Jobs /\ o.step = "failed" /\ Whole(o)
    BY <1>1, OverKeeps
<1>3. Sound(o)
    BY <1>2 DEF Sound
<1>4. /\ Become(i, o) /\ Unlock(i) /\ UNCHANGED <<known, listing>>
      /\ draft' \in {known, draft}
    BY <1>1 DEF Fail
<1>5. /\ known' \in [Devices -> Rows] /\ draft' \in [Devices -> Rows]
      /\ listing' \subseteq Devices
    BY <1>4 DEF IInv, TypeOK
<1>6. QED
    BY <1>2, <1>3, <1>4, <1>5, Lift

LEMMA FailOwn ==
    ASSUME IInv, NEW i \in Instances, Fail(i, job[i])
    PROVE  IInv'
<1>1. job[i] \in Jobs /\ Whole(job[i])
    BY Own DEF Sound
<1>2. QED
    BY <1>1, FailStep

\* Fields that are not about what is stored.
LEMMA SameSaved ==
    ASSUME NEW j, NEW h, h.rows = j.rows, h.usable = j.usable, h.pending = j.pending
    PROVE  /\ SavedOf(h) = SavedOf(j) /\ Settled(h) = Settled(j) /\ Unsaved(h) = Unsaved(j)
           /\ Whole(h) = Whole(j)
<1>1. SavedOf(h) = SavedOf(j)
    BY DEF SavedOf
<1>2. QED
    BY <1>1, Zenon DEF Settled, Unsaved, Whole

-----------------------------------------------------------------------------
(* Starting, stopping, time *)

LEMMA BeginStep == ASSUME IInv, NEW i \in Instances, Begin(i) PROVE IInv'
<1>1. PICK j \in {[NewJob EXCEPT !.step = "list"]} \cup
               {[NewJob EXCEPT !.kind = "status", !.step = "specify",
                               !.todo = {d}, !.stale = known[d].present] : d \in Devices} :
          Become(i, j)
    BY DEF Begin
<1>2. /\ j \in Jobs /\ j.step \in {"list", "specify"} /\ j.rows = NewJob.rows
      /\ j.usable = NewJob.usable /\ j.pending = NewJob.pending
      /\ j.captured = NewJob.captured
    <2>1. known \in [Devices -> Rows]
        BY DEF IInv, TypeOK
    <2>2. CASE j = [NewJob EXCEPT !.step = "list"]
        BY <2>2, NoRows DEF Jobs, Steps
    <2>3. ASSUME NEW d \in Devices,
                 j = [NewJob EXCEPT !.kind = "status", !.step = "specify",
                                    !.todo = {d}, !.stale = known[d].present]
          PROVE  /\ j \in Jobs /\ j.step = "specify" /\ j.rows = NewJob.rows
                 /\ j.usable = NewJob.usable /\ j.pending = NewJob.pending
                 /\ j.captured = NewJob.captured
        <3>1. known[d].present \in BOOLEAN
            BY <2>1 DEF Rows
        <3>2. PICK n, stale, todo : n = NewJob /\ stale = known[d].present /\ todo = {d}
            OBVIOUS
        <3>3. n \in Jobs /\ stale \in BOOLEAN /\ todo \in SUBSET Devices
            BY <3>1, <3>2, NoRows
        <3>4. j = [n EXCEPT !.kind = "status", !.step = "specify", !.todo = todo, !.stale = stale]
            BY <2>3, <3>2
        <3>5. /\ j \in Jobs /\ j.step = "specify" /\ j.rows = n.rows /\ j.usable = n.usable
              /\ j.pending = n.pending /\ j.captured = n.captured
            BY <3>3, <3>4 DEF Jobs, Steps
        <3>6. QED
            BY <3>2, <3>5
    <2>4. QED
        BY <2>2, <2>3
<1>3. Sound(j) /\ Live(j)
    BY <1>2, NoRows, SameSaved DEF Sound, Live
<1>4. UNCHANGED <<known, draft, writer, listing>>
    BY DEF Begin
<1>5. QED
    BY <1>1, <1>2, <1>3, <1>4, LiftJob

LEMMA CancelStep == ASSUME IInv, NEW i \in Instances, Cancel(i) PROVE IInv'
<1>1. PICK h, j : h = job[i] /\ j = [job[i] EXCEPT !.cancelled = TRUE]
    OBVIOUS
<1>2. h \in Jobs /\ Sound(h) /\ Live(h) /\ j = [h EXCEPT !.cancelled = TRUE]
    BY <1>1, Own DEF Cancel, Running, Live
<1>3. /\ j \in Jobs /\ j.step = h.step /\ j.rows = h.rows /\ j.usable = h.usable
      /\ j.pending = h.pending /\ j.captured = h.captured /\ j.eligible = h.eligible
      /\ j.chunk = h.chunk /\ j.due = h.due /\ j.left = h.left /\ j.excuse = h.excuse
    BY <1>2 DEF Jobs
<1>4. Sound(j) /\ Live(j)
    BY <1>2, <1>3, SameSaved DEF Sound, Live
<1>5. Become(i, j) /\ UNCHANGED <<known, draft, writer, listing>>
    BY <1>1 DEF Cancel
<1>6. QED
    BY <1>3, <1>4, <1>5, LiftJob

\* The time that is left and that of the remote call go down together.
LEMMA TickStep == ASSUME IInv, NEW i \in Instances, Tick(i) PROVE IInv'
<1>1. PICK h, j : h = job[i] /\ j = Pass(i, job[i])
    OBVIOUS
<1>2. h \in Jobs /\ Sound(h) /\ Live(h)
    BY <1>1, Own DEF Tick, Running, Live
<1>3. PICK left, due, hold, overrun :
          /\ left = IF h.left > 0 THEN h.left - 1 ELSE 0
          /\ due = IF h.due > 0 THEN h.due - 1 ELSE 0
          /\ hold = IF h.hold > 0 THEN h.hold - 1 ELSE 0
          /\ overrun = IF h.left = 0 THEN h.overrun + 1 ELSE h.overrun
    OBVIOUS
<1>4. j = [h EXCEPT !.left = left, !.due = due, !.hold = hold, !.overrun = overrun]
    BY <1>1, <1>3 DEF Pass
<1>5. /\ h.left \in 0..Budget /\ h.due \in 0..RemoteMax /\ h.hold \in 0..SaveMax
      /\ Budget \in Nat /\ RemoteMax \in Nat /\ SaveMax \in Nat /\ Reserve \in Nat
      /\ h.overrun \in Nat
    BY <1>2, BoundsAssumption DEF Jobs
<1>6. left \in 0..Budget /\ due \in 0..RemoteMax /\ hold \in 0..SaveMax /\ overrun \in Nat
    BY <1>3, <1>5
<1>7. /\ j \in Jobs /\ j.step = h.step /\ j.rows = h.rows /\ j.usable = h.usable
      /\ j.pending = h.pending /\ j.captured = h.captured /\ j.eligible = h.eligible
      /\ j.chunk = h.chunk /\ j.due = due /\ j.left = left /\ j.excuse = h.excuse
    BY <1>2, <1>4, <1>6 DEF Jobs
<1>8. h.step = "waiting" => (due > 0 => left >= due + Reserve)
    BY <1>2, <1>3, <1>5 DEF Sound
<1>9. Sound(j) /\ Live(j)
    BY <1>2, <1>7, <1>8, SameSaved DEF Sound, Live
<1>10. Become(i, j) /\ UNCHANGED <<known, draft, writer, listing>>
    BY <1>1 DEF Tick
<1>11. QED
    BY <1>7, <1>9, <1>10, LiftJob

LEMMA CheckpointStep == ASSUME IInv, NEW i \in Instances, Checkpoint(i) PROVE IInv'
BY FailOwn DEF Checkpoint

-----------------------------------------------------------------------------
(* Discovery and specifications *)

\* The steps before any status is asked for.
LEMMA EarlyStep ==
    ASSUME NEW h \in Jobs, Sound(h), h.step \in {"list", "specify"},
           NEW j \in Jobs, j.step \in {"list", "specify", "report", "request"},
           j.rows = h.rows, j.usable = h.usable, j.pending = h.pending,
           j.captured = h.captured
    PROVE  Sound(j) /\ Live(j)
<1>1. /\ h.usable = {} /\ SavedOf(h) = {} /\ h.captured = {} /\ h.pending = {} /\ Whole(h)
    BY DEF Sound
<1>2. Whole(j) /\ SavedOf(j) = {} /\ Settled(j)
    BY <1>1, SameSaved DEF Settled
<1>3. QED
    BY <1>1, <1>2 DEF Sound, Live

LEMMA DiscoverStep == ASSUME IInv, NEW i \in Instances, Discover(i) PROVE IInv'
<1>1. PICK listed \in SUBSET Devices, replaced \in SUBSET Devices :
          /\ draft' = [d \in Devices |->
                         [known[d] EXCEPT !.present = d \in listed,
                                          !.cached = @ \/ d \in listed,
                                          !.eligibility = IF d \in replaced THEN "unknown"
                                                                            ELSE @]]
          /\ Become(i, [job[i] EXCEPT !.step = "specify", !.blocked = FALSE, !.hold = 0,
                                      !.todo = listed, !.listed = listed])
    BY DEF Discover
<1>2. PICK h, j : /\ h = job[i]
                  /\ j = [job[i] EXCEPT !.step = "specify", !.blocked = FALSE, !.hold = 0,
                                        !.todo = listed, !.listed = listed]
    OBVIOUS
<1>3. h \in Jobs /\ Sound(h) /\ h.step = "list" /\ h.eligible \in SUBSET Devices
    BY <1>2, Own DEF Discover, At, Jobs
<1>4. /\ j \in Jobs /\ j.step = "specify" /\ j.rows = h.rows /\ j.usable = h.usable
      /\ j.pending = h.pending /\ j.captured = h.captured
    <2>1. 0 \in 0..SaveMax
        BY BoundsAssumption
    <2>2. QED
        BY <1>2, <1>3, <2>1 DEF Jobs, Steps
<1>5. j \in Jobs /\ Sound(j) /\ Live(j)
    BY <1>3, <1>4, EarlyStep
<1>6. known \in [Devices -> Rows] /\ listing \subseteq Devices
    BY DEF IInv, TypeOK
<1>7. draft' \in [Devices -> Rows]
    <2>1. ASSUME NEW d \in Devices
          PROVE  [known[d] EXCEPT !.present = d \in listed,
                                  !.cached = @ \/ d \in listed,
                                  !.eligibility = IF d \in replaced THEN "unknown"
                                                                    ELSE @] \in Rows
        <3>1. PICK r, cached, eligibility, present :
                  /\ r = known[d] /\ cached = (known[d].cached \/ d \in listed)
                  /\ present = (d \in listed)
                  /\ eligibility = IF d \in replaced THEN "unknown" ELSE known[d].eligibility
            OBVIOUS
        <3>2. r \in Rows /\ cached \in BOOLEAN /\ present \in BOOLEAN
              /\ eligibility \in Eligibilities
            BY <1>6, <3>1 DEF Rows, Eligibilities
        <3>3. [r EXCEPT !.present = present, !.cached = cached,
                        !.eligibility = eligibility] \in Rows
            BY <3>2 DEF Rows
        <3>4. QED
            BY <3>1, <3>3
    <2>2. QED
        BY <1>1, <2>1
<1>8. known' = known /\ listing' = listing /\ writer' = i
    BY DEF Discover
<1>9. Become(i, j)
    BY <1>1, <1>2
<1>10. QED
    BY <1>5, <1>6, <1>7, <1>8, <1>9, Lift

LEMMA UpsertedIsTable ==
    ASSUME IInv, NEW i \in Instances, NEW d \in Devices, NEW e \in Eligibilities
    PROVE  Upserted(i, d, e) \in [Devices -> Rows]
<1>1. /\ known \in [Devices -> Rows] /\ draft \in [Devices -> Rows] /\ job[i].stale \in BOOLEAN
    BY DEF IInv, TypeOK, Jobs
<1>2. PICK flag : flag = IF job[i].kind = "status" THEN job[i].stale ELSE draft[d].present
    OBVIOUS
<1>3. flag \in BOOLEAN
    BY <1>1, <1>2 DEF Rows
<1>4. [cached |-> TRUE, present |-> flag, eligibility |-> e] \in Rows
    BY <1>3 DEF Rows
<1>5. QED
    BY <1>1, <1>2, <1>4 DEF Upserted

\* What a revalidation makes of the run.
LEMMA SpecifiedJob ==
    ASSUME NEW i \in Instances, job[i] \in Jobs, NEW d, NEW S \in SUBSET Devices,
           NEW j, j = Specified(i, d, S)
    PROVE  /\ j \in Jobs /\ j.step = job[i].step /\ j.kind = job[i].kind
           /\ j.todo = job[i].todo \ {d} /\ j.eligible = job[i].eligible \cup S
           /\ ~j.blocked /\ j.stale = job[i].stale /\ j.listed = job[i].listed
           /\ j.rows = job[i].rows /\ j.usable = job[i].usable
           /\ j.pending = job[i].pending /\ j.captured = job[i].captured
           /\ j.left = job[i].left /\ j.overrun = job[i].overrun
<1>1. PICK h, todo, eligible :
          h = job[i] /\ todo = h.todo \ {d} /\ eligible = h.eligible \cup S
    OBVIOUS
<1>2. /\ h \in Jobs /\ 0 \in 0..SaveMax
      /\ todo \in SUBSET Devices /\ eligible \in SUBSET Devices
    BY <1>1, BoundsAssumption DEF Jobs
<1>3. j = [h EXCEPT !.blocked = FALSE, !.hold = 0, !.todo = todo, !.eligible = eligible]
    BY <1>1 DEF Specified
<1>4. QED
    BY <1>1, <1>2, <1>3 DEF Jobs

\* One device is revalidated, and is eligible or not.
LEMMA SpecifiedStep ==
    ASSUME IInv, NEW i \in Instances, At(i, "specify"), NEW d \in job[i].todo,
           NEW S \in SUBSET {d}, Become(i, Specified(i, d, S)),
           \/ /\ \E e \in Eligibilities : draft' = Upserted(i, d, e)
              /\ writer' = i
           \/ draft' = draft /\ writer' = writer,
           UNCHANGED <<known, listing>>
    PROVE  IInv'
<1>1. PICK h, j : h = job[i] /\ j = Specified(i, d, S)
    OBVIOUS
<1>2. h \in Jobs /\ Sound(h) /\ h.step = "specify" /\ d \in Devices /\ S \in SUBSET Devices
    BY <1>1, Own DEF At, Jobs
<1>3. /\ j \in Jobs /\ j.step = "specify" /\ j.rows = h.rows /\ j.usable = h.usable
      /\ j.pending = h.pending /\ j.captured = h.captured
    BY <1>1, <1>2, SpecifiedJob
<1>4. Sound(j) /\ Live(j)
    BY <1>2, <1>3, EarlyStep
<1>5. /\ draft' \in [Devices -> Rows] /\ known' \in [Devices -> Rows] /\ listing' \subseteq Devices
    BY <1>2, UpsertedIsTable DEF IInv, TypeOK
<1>6. Become(i, j) /\ writer' \in {writer, i}
    BY <1>1
<1>7. QED
    BY <1>3, <1>4, <1>5, <1>6, Lift

LEMMA SpecifyStep == ASSUME IInv, NEW i \in Instances, Specify(i) PROVE IInv'
<1>1. PICK d \in job[i].todo :
          draft' = Upserted(i, d, "supported") /\ Become(i, Specified(i, d, {d}))
    BY DEF Specify
<1>2. At(i, "specify") /\ writer' = i /\ UNCHANGED <<known, listing>>
    BY DEF Specify
<1>3. "supported" \in Eligibilities
    BY DEF Eligibilities
<1>4. QED
    BY <1>1, <1>2, <1>3, SpecifiedStep

LEMMA SpecifyRejectedStep ==
    ASSUME IInv, NEW i \in Instances, SpecifyRejected(i) PROVE IInv'
<1>1. CASE job[i].kind = "refresh"
    <2>1. PICK d \in job[i].todo, e \in {"unsupported", "unknown"} :
              /\ draft' = Upserted(i, d, e) /\ Become(i, Specified(i, d, {}))
              /\ writer' = i /\ UNCHANGED <<known, listing>>
        BY <1>1 DEF SpecifyRejected
    <2>2. e \in Eligibilities /\ At(i, "specify")
        BY DEF Eligibilities, SpecifyRejected
    <2>3. QED
        BY <2>1, <2>2, SpecifiedStep
<1>2. CASE job[i].kind # "refresh"
    BY <1>2, FailOwn DEF SpecifyRejected
<1>3. QED
    BY <1>1, <1>2

LEMMA SpecifyFailsStep == ASSUME IInv, NEW i \in Instances, SpecifyFails(i) PROVE IInv'
<1>1. CASE job[i].kind = "refresh"
    <2>1. PICK d \in job[i].todo :
              /\ Become(i, Specified(i, d, {}))
              /\ UNCHANGED <<known, draft, writer, listing>>
        BY <1>1 DEF SpecifyFails
    <2>2. At(i, "specify")
        BY DEF SpecifyFails
    <2>3. QED
        BY <2>1, <2>2, SpecifiedStep
<1>2. CASE job[i].kind # "refresh"
    BY <1>2, FailOwn DEF SpecifyFails
<1>3. QED
    BY <1>1, <1>2

\* The run waits for the write lock with its listing or specification.
LEMMA BlockStep == ASSUME IInv, NEW i \in Instances, Block(i) PROVE IInv'
<1>1. PICK h, j : h = job[i] /\ j = [job[i] EXCEPT !.blocked = TRUE, !.hold = SaveMax]
    OBVIOUS
<1>2. h \in Jobs /\ Sound(h) /\ h.step \in {"list", "specify"} /\ SaveMax \in 0..SaveMax
    BY <1>1, Own, BoundsAssumption DEF Block, At
<1>3. /\ j \in Jobs /\ j.step = h.step /\ j.rows = h.rows /\ j.usable = h.usable
      /\ j.pending = h.pending /\ j.captured = h.captured
    BY <1>1, <1>2 DEF Jobs
<1>4. j \in Jobs /\ Sound(j) /\ Live(j)
    BY <1>2, <1>3, EarlyStep
<1>5. Become(i, j) /\ UNCHANGED <<known, draft, writer, listing>>
    BY <1>1 DEF Block
<1>6. QED
    BY <1>4, <1>5, LiftJob

LEMMA PrepareStep == ASSUME IInv, NEW i \in Instances, Prepare(i) PROVE IInv'
<1>1. PICK step \in {"report", "request"} :
          /\ Become(i, [job[i] EXCEPT !.step = step])
          /\ \/ UNCHANGED <<known, draft, writer, listing>>
             \/ CommitDraft(i, job[i])
    BY DEF Prepare
<1>2. PICK h, j : h = job[i] /\ j = [job[i] EXCEPT !.step = step]
    OBVIOUS
<1>3. /\ h \in Jobs /\ Sound(h) /\ h.step = "specify"
      /\ h.todo \in SUBSET Devices /\ h.eligible \in SUBSET Devices
    BY <1>2, Own DEF Prepare, At, Jobs
<1>4. /\ j \in Jobs /\ j.step = step /\ j.rows = h.rows /\ j.usable = h.usable
      /\ j.pending = h.pending /\ j.captured = h.captured
    BY <1>2, <1>3 DEF Jobs, Steps
<1>5. j \in Jobs /\ Sound(j) /\ Live(j)
    BY <1>3, <1>4, EarlyStep
<1>6. /\ draft' \in [Devices -> Rows] /\ known' \in [Devices -> Rows] /\ listing' \subseteq Devices
      /\ Unlock(i) \/ writer' = writer
    BY <1>1, <1>2, <1>3 DEF IInv, TypeOK, CommitDraft, Jobs
<1>7. Become(i, j)
    BY <1>1, <1>2
<1>8. QED
    BY <1>5, <1>6, <1>7, Lift

-----------------------------------------------------------------------------
(* The capture boundary *)

\* The remote call leaves the reserve.
LEMMA RequestStep == ASSUME IInv, NEW i \in Instances, Request(i) PROVE IInv'
<1>1. CASE RemoteTime(i) = 0
    BY <1>1, FailOwn DEF Request
<1>2. CASE RemoteTime(i) # 0
    <2>1. PICK chunk \in SUBSET job[i].eligible :
              Become(i, [job[i] EXCEPT !.step = "waiting", !.due = RemoteTime(i),
                                       !.eligible = @ \ chunk, !.chunk = chunk])
        BY <1>2 DEF Request
    <2>2. PICK h, due : h = job[i] /\ due = RemoteTime(i)
        OBVIOUS
    <2>3. PICK j : j = [h EXCEPT !.step = "waiting", !.due = due,
                                 !.eligible = h.eligible \ chunk, !.chunk = chunk]
        OBVIOUS
    <2>4. /\ h \in Jobs /\ Sound(h) /\ h.step = "request" /\ h.eligible \in SUBSET Devices
          /\ h.left \in 0..Budget
        BY <2>2, Own DEF Request, At, Jobs
    <2>5. due \in 0..RemoteMax /\ h.left >= due + Reserve
        BY <1>2, <2>2, <2>4, BoundsAssumption DEF RemoteTime, Least
    <2>6. chunk \in SUBSET h.eligible
        BY <2>1, <2>2
    <2>7. chunk \in SUBSET Devices /\ h.eligible \ chunk \in SUBSET Devices
        BY <2>4, <2>6
    <2>8. /\ j \in Jobs /\ j.step = "waiting" /\ j.rows = h.rows /\ j.usable = h.usable
          /\ j.pending = h.pending /\ j.captured = h.captured /\ j.due = due
          /\ j.left = h.left /\ j.chunk = chunk /\ j.eligible = h.eligible \ chunk
        BY <2>3, <2>4, <2>5, <2>7 DEF Jobs, Steps
    <2>9. Settled(h) /\ Whole(h) /\ h.captured = SavedOf(h) /\ h.eligible \cap h.usable = {}
        BY <2>4 DEF Sound
    <2>10. Settled(j) /\ Whole(j) /\ SavedOf(j) = SavedOf(h)
        BY <2>8, <2>9, SameSaved
    <2>11. /\ j.eligible \cap j.usable = {} /\ j.chunk \cap j.usable = {}
          /\ j.chunk \cap j.eligible = {}
        BY <2>8, <2>9, <2>6
    <2>12. Sound(j) /\ Live(j)
        BY <2>5, <2>8, <2>9, <2>10, <2>11 DEF Sound, Live
    <2>13. Become(i, j)
        BY <2>1, <2>2, <2>3
    <2>14. UNCHANGED <<known, draft, writer, listing>>
        BY <1>2 DEF Request
    <2>15. QED
        BY <2>8, <2>12, <2>13, <2>14, LiftJob
<1>3. QED
    BY <1>1, <1>2

LEMMA RequestFailsStep == ASSUME IInv, NEW i \in Instances, RequestFails(i) PROVE IInv'
<1>1. CASE Fail(i, job[i])
    BY <1>1, FailOwn
<1>2. CASE ~Fail(i, job[i])
    <2>1. PICK h, j : /\ h = job[i]
                      /\ j = [job[i] EXCEPT !.step = "request", !.due = 0, !.chunk = {}]
        OBVIOUS
    <2>2. /\ h \in Jobs /\ Sound(h) /\ h.step = "waiting" /\ 0 \in 0..RemoteMax
          /\ j = [h EXCEPT !.step = "request", !.due = 0, !.chunk = {}]
          /\ Become(i, j) /\ UNCHANGED <<known, draft, writer, listing>>
        BY <1>2, <2>1, Own, BoundsAssumption DEF RequestFails, At
    <2>3. /\ j \in Jobs /\ j.step = "request" /\ j.rows = h.rows /\ j.usable = h.usable
          /\ j.pending = h.pending /\ j.captured = h.captured /\ j.eligible = h.eligible
        BY <2>2 DEF Jobs, Steps
    <2>4. Sound(j) /\ Live(j)
        BY <2>2, <2>3, SameSaved DEF Sound, Live
    <2>5. QED
        BY <2>2, <2>3, <2>4, LiftJob
<1>3. QED
    BY <1>1, <1>2

\* A response without anything usable leaves nothing to save.
LEMMA AnswerStep == ASSUME IInv, NEW i \in Instances, Answer(i) PROVE IInv'
<1>1. PICK usable \in SUBSET job[i].chunk :
          Become(i, [job[i] EXCEPT
              !.step = CASE usable # {} -> "save"
                         [] usable = {} /\ job[i].kind = "refresh" -> "request"
                         [] OTHER -> "report",
              !.hold = Least(SaveMax, job[i].left),
              !.due = 0, !.chunk = {},
              !.pending = usable,
              !.usable = @ \cup usable])
    BY DEF Answer
<1>2. PICK h, step, hold :
          /\ h = job[i] /\ hold = Least(SaveMax, job[i].left)
          /\ step = CASE usable # {} -> "save"
                      [] usable = {} /\ job[i].kind = "refresh" -> "request"
                      [] OTHER -> "report"
    OBVIOUS
<1>3. PICK j : j = [h EXCEPT !.step = step, !.hold = hold, !.due = 0, !.chunk = {},
                             !.pending = usable, !.usable = h.usable \cup usable]
    OBVIOUS
<1>4. /\ h \in Jobs /\ Sound(h) /\ h.step = "waiting" /\ h.left \in 0..Budget
      /\ h.chunk \in SUBSET Devices /\ h.usable \in SUBSET Devices
    BY <1>2, Own DEF Answer, At, Jobs
<1>5. hold \in 0..SaveMax /\ 0 \in 0..RemoteMax
    BY <1>2, <1>4, BoundsAssumption DEF Least
<1>6. /\ usable # {} => step = "save"
      /\ usable = {} => step \in {"request", "report"}
    <2>1. CASE usable # {}
        BY <1>2, <2>1
    <2>2. CASE usable = {}
        <3>1. CASE h.kind = "refresh"
            BY <1>2, <2>2, <3>1
        <3>2. CASE h.kind # "refresh"
            BY <1>2, <2>2, <3>2
        <3>3. QED
            BY <2>2, <3>1, <3>2
    <2>3. QED
        BY <2>1, <2>2
<1>7. usable \in SUBSET Devices /\ h.usable \cup usable \in SUBSET Devices
    BY <1>1, <1>2, <1>4
<1>8. /\ j \in Jobs /\ j.step = step /\ j.rows = h.rows /\ j.usable = h.usable \cup usable
      /\ j.pending = usable /\ j.captured = h.captured /\ j.eligible = h.eligible
    BY <1>3, <1>4, <1>5, <1>6, <1>7 DEF Jobs, Steps
<1>9. /\ h.usable = SavedOf(h) /\ h.captured = SavedOf(h) /\ h.eligible \cap h.usable = {}
      /\ h.chunk \cap h.usable = {} /\ h.chunk \cap h.eligible = {}
      /\ \A d \in Devices : h.rows[d] <= 1
    BY <1>4 DEF Sound, Settled, Whole
<1>10. SavedOf(j) = SavedOf(h)
    BY <1>8 DEF SavedOf
<1>11. usable \in SUBSET h.chunk
    BY <1>1, <1>2
<1>12. Unsaved(j) /\ (usable = {} => Settled(j))
    BY <1>8, <1>9, <1>10, <1>11 DEF Unsaved, Settled
<1>13. j.eligible \cap j.usable = {}
    BY <1>8, <1>9, <1>11
<1>14. Whole(j)
    BY <1>8, <1>9, <1>12 DEF Whole
<1>15. Sound(j) /\ Live(j)
    BY <1>6, <1>8, <1>9, <1>10, <1>12, <1>13, <1>14 DEF Sound, Live
<1>16. Become(i, j)
    BY <1>1, <1>2, <1>3
<1>17. UNCHANGED <<known, draft, writer, listing>>
    BY DEF Answer
<1>18. QED
    BY <1>8, <1>15, <1>16, <1>17, LiftJob

LEMMA LockStep == ASSUME IInv, NEW i \in Instances, Lock(i) PROVE IInv'
<1>1. PICK h, j : h = job[i] /\ j = [job[i] EXCEPT !.step = "insert", !.hold = 0]
    OBVIOUS
<1>2. h \in Jobs /\ Sound(h) /\ h.step = "save" /\ j = [h EXCEPT !.step = "insert", !.hold = 0]
    BY <1>1, Own DEF Lock, At
<1>3. /\ j \in Jobs /\ j.step = "insert" /\ j.rows = h.rows /\ j.usable = h.usable
      /\ j.pending = h.pending /\ j.captured = h.captured /\ j.eligible = h.eligible
    <2>1. 0 \in 0..SaveMax
        BY BoundsAssumption
    <2>2. QED
        BY <1>2, <2>1 DEF Jobs, Steps
<1>4. Sound(j) /\ Live(j)
    BY <1>2, <1>3, SameSaved DEF Sound, Live
<1>5. /\ Become(i, j) /\ writer' = i
      /\ draft' \in [Devices -> Rows] /\ known' \in [Devices -> Rows] /\ listing' \subseteq Devices
    BY <1>1 DEF Lock, IInv, TypeOK
<1>6. QED
    BY <1>3, <1>4, <1>5, Lift

LEMMA SaveLateStep == ASSUME IInv, NEW i \in Instances, SaveLate(i) PROVE IInv'
<1>1. PICK h, l : h = job[i] /\ l = [job[i] EXCEPT !.excuse = "late"]
    OBVIOUS
<1>2. h \in Jobs /\ Sound(h) /\ h.step = "save" /\ l = [h EXCEPT !.excuse = "late"]
    BY <1>1, Own DEF SaveLate, At
<1>3. /\ l \in Jobs /\ l.rows = h.rows /\ l.usable = h.usable /\ l.pending = h.pending
      /\ l.captured = h.captured /\ l.excuse = "late"
    BY <1>2 DEF Jobs
<1>4. Whole(l)
    BY <1>2, <1>3, SameSaved DEF Sound
<1>5. CASE Fail(i, l)
    BY <1>3, <1>4, <1>5, FailStep
<1>6. CASE ~Fail(i, l)
    <2>1. PICK j : j = [l EXCEPT !.step = "report"]
        OBVIOUS
    <2>2. Become(i, j) /\ UNCHANGED <<known, draft, writer, listing>>
        BY <1>1, <1>6, <2>1 DEF SaveLate
    <2>3. /\ j \in Jobs /\ j.step = "report" /\ j.rows = h.rows /\ j.usable = h.usable
          /\ j.pending = h.pending /\ j.captured = h.captured /\ j.excuse = "late"
        BY <1>3, <2>1 DEF Jobs, Steps
    <2>4. Sound(j) /\ Live(j)
        BY <1>2, <2>3, SameSaved DEF Sound, Live
    <2>5. QED
        BY <2>2, <2>3, <2>4, LiftJob
<1>7. QED
    BY <1>5, <1>6

\* The whole response is stored, of devices that had no reading.
LEMMA InsertStep == ASSUME IInv, NEW i \in Instances, Insert(i) PROVE IInv'
<1>1. PICK h, step, rows, n :
          /\ h = job[i] /\ step = IF job[i].kind = "refresh" THEN "request" ELSE "report"
          /\ rows = [d \in Devices |-> IF d \in job[i].pending THEN job[i].rows[d] + 1
                                                               ELSE job[i].rows[d]]
          /\ n = job[i].inserted + Cardinality(job[i].pending)
    OBVIOUS
<1>2. PICK j : j = [h EXCEPT !.step = step, !.captured = h.captured \cup h.pending,
                             !.inserted = n, !.rows = rows]
    OBVIOUS
<1>3. /\ h \in Jobs /\ Sound(h) /\ h.step = "insert" /\ h.rows \in [Devices -> Nat]
      /\ h.pending \in SUBSET Devices /\ h.captured \in SUBSET Devices /\ h.inserted \in Nat
    BY <1>1, Own DEF Insert, At, Jobs
<1>4. n \in Nat
    <2>1. IsFiniteSet(h.pending)
        BY <1>3, DevicesAssumption, FS_Subset
    <2>2. Cardinality(h.pending) \in Nat
        BY <2>1, FS_CardinalityType
    <2>3. QED
        BY <1>1, <1>3, <2>2
<1>5. rows = [d \in Devices |-> IF d \in h.pending THEN h.rows[d] + 1 ELSE h.rows[d]]
    BY <1>1
<1>6. rows \in [Devices -> Nat] /\ step \in {"request", "report"}
    BY <1>1, <1>3, <1>5
<1>7. /\ j \in Jobs /\ j.step = step /\ j.rows = rows /\ j.usable = h.usable
      /\ j.pending = h.pending /\ j.captured = h.captured \cup h.pending
      /\ j.eligible = h.eligible
    BY <1>2, <1>3, <1>4, <1>6 DEF Jobs, Steps
<1>8. /\ h.usable = SavedOf(h) \cup h.pending /\ h.pending \cap SavedOf(h) = {}
      /\ h.captured = SavedOf(h) /\ h.eligible \cap h.usable = {}
      /\ \A d \in Devices : h.rows[d] <= 1
    BY <1>3 DEF Sound, Unsaved, Whole
<1>9. SavedOf(j) = SavedOf(h) \cup h.pending
    BY <1>3, <1>5, <1>7 DEF SavedOf
<1>10. ASSUME NEW d \in Devices PROVE rows[d] <= 1
    <2>1. d \in h.pending => h.rows[d] = 0
        BY <1>3, <1>8 DEF SavedOf
    <2>2. QED
        BY <1>3, <1>5, <1>8, <2>1
<1>11. Settled(j)
    BY <1>7, <1>8, <1>9 DEF Settled
<1>12. Whole(j)
    BY <1>7, <1>10, <1>11 DEF Whole
<1>13. Sound(j) /\ Live(j)
    BY <1>6, <1>7, <1>8, <1>9, <1>11, <1>12 DEF Sound, Live
<1>14. Become(i, j) /\ Unlock(i)
    BY <1>1, <1>2 DEF Insert
<1>15. /\ draft' \in [Devices -> Rows] /\ known' \in [Devices -> Rows] /\ listing' \subseteq Devices
    BY DEF Insert, IInv, TypeOK
<1>16. QED
    BY <1>7, <1>13, <1>14, <1>15, Lift

LEMMA InsertFailsStep == ASSUME IInv, NEW i \in Instances, InsertFails(i) PROVE IInv'
<1>1. PICK h, l : h = job[i] /\ l = [job[i] EXCEPT !.excuse = "database"]
    OBVIOUS
<1>2. h \in Jobs /\ Sound(h) /\ l = [h EXCEPT !.excuse = "database"]
    BY <1>1, Own
<1>3. l \in Jobs /\ l.rows = h.rows /\ l.usable = h.usable /\ l.pending = h.pending
    BY <1>2 DEF Jobs
<1>4. Whole(l)
    BY <1>2, <1>3, SameSaved DEF Sound
<1>5. QED
    BY <1>1, <1>3, <1>4, FailStep DEF InsertFails

LEMMA ReportStep == ASSUME IInv, NEW i \in Instances, Report(i) PROVE IInv'
<1>1. PICK h, j : h = job[i] /\ j = Over(job[i], "done")
    OBVIOUS
<1>2. h \in Jobs /\ Sound(h) /\ h.step \in {"report", "request"} /\ j = Over(h, "done")
    BY <1>1, Own DEF Report, At
<1>3. /\ j \in Jobs /\ j.step = "done" /\ j.usable = h.usable /\ j.pending = h.pending
      /\ j.captured = h.captured /\ j.excuse = h.excuse /\ j.rows = h.rows
    BY <1>2, OverKeeps
<1>4. Sound(j)
    BY <1>2, <1>3, SameSaved DEF Sound
<1>5. Become(i, j) /\ CommitDraft(i, job[i])
    BY <1>1 DEF Report
<1>6. /\ draft' \in [Devices -> Rows] /\ known' \in [Devices -> Rows] /\ listing' \subseteq Devices
      /\ Unlock(i)
    BY <1>1, <1>2, <1>5 DEF IInv, TypeOK, CommitDraft, Jobs
<1>7. QED
    BY <1>3, <1>4, <1>5, <1>6, Lift

-----------------------------------------------------------------------------
(* The theorems for any number of instances *)

LEMMA Initial == Init => IInv
<1>1. SUFFICES ASSUME Init PROVE IInv
    OBVIOUS
<1>2. /\ writer = Nobody /\ draft = known /\ job = [i \in Instances |-> NewJob]
      /\ listing = {d \in Devices : known[d].present}
      /\ known \in [Devices -> {NoRow, [NoRow EXCEPT !.cached = TRUE, !.present = TRUE]}]
    BY <1>1 DEF Init
<1>3. {NoRow, [NoRow EXCEPT !.cached = TRUE, !.present = TRUE]} \subseteq Rows
    <2>1. PICK r : r = NoRow
        OBVIOUS
    <2>2. r \in Rows
        BY <2>1 DEF NoRow, Rows, Eligibilities
    <2>3. [r EXCEPT !.cached = TRUE, !.present = TRUE] \in Rows
        BY <2>2 DEF Rows
    <2>4. QED
        BY <2>1, <2>2, <2>3
<1>4. TypeOK
    BY <1>2, <1>3, NoRows DEF TypeOK
<1>5. ASSUME NEW i \in Instances PROVE Sound(job[i]) /\ (writer = i => Live(job[i]))
    BY <1>2, NoRows, NobodyAssumption
<1>6. QED
    BY <1>4, <1>5 DEF IInv

LEMMA Inductive == IInv /\ [Next]_vars => IInv'
<1>1. SUFFICES ASSUME IInv, [Next]_vars PROVE IInv'
    OBVIOUS
<1>2. ASSUME NEW i \in Instances, Begin(i) \/ Cancel(i) \/ Tick(i) PROVE IInv'
    BY <1>1, <1>2, BeginStep, CancelStep, TickStep
<1>3. ASSUME NEW i \in Instances, Workflow(i) PROVE IInv'
    <2>1. CASE Checkpoint(i) \/ ListFails(i) \/ Discover(i) \/ Block(i) \/ Busy(i)
        BY <1>1, <2>1, CheckpointStep, DiscoverStep, BlockStep, FailOwn DEF ListFails, Busy
    <2>2. CASE Specify(i) \/ SpecifyRejected(i) \/ SpecifyFails(i) \/ Prepare(i)
        BY <1>1, <2>2, SpecifyStep, SpecifyRejectedStep, SpecifyFailsStep, PrepareStep
    <2>3. CASE Request(i) \/ RequestFails(i) \/ Answer(i)
        BY <1>1, <2>3, RequestStep, RequestFailsStep, AnswerStep
    <2>4. CASE Lock(i) \/ SaveLate(i) \/ Insert(i) \/ Interrupt(i) \/ InsertFails(i)
        BY <1>1, <2>4, LockStep, SaveLateStep, InsertStep, FailOwn, InsertFailsStep
           DEF Interrupt
    <2>5. CASE Report(i)
        BY <1>1, <2>5, ReportStep
    <2>6. QED
        BY <1>3, <2>1, <2>2, <2>3, <2>4, <2>5 DEF Workflow
<1>4. CASE UNCHANGED vars
    BY <1>1, <1>4 DEF vars, IInv, TypeOK, Sound, Whole, Settled, Unsaved, SavedOf, Live
<1>5. CASE OtherWork
    <2>1. /\ known' = known /\ draft' = draft /\ listing' = listing /\ job' = job
          /\ writer' \in {Nobody, Elsewhere}
        BY <1>5 DEF OtherWork
    <2>2. TypeOK'
        BY <1>1, <2>1 DEF IInv, TypeOK
    <2>3. ASSUME NEW i \in Instances PROVE Sound(job[i])' /\ (writer' # i)
        BY <1>1, <2>1, NobodyAssumption
           DEF IInv, Sound, Whole, Settled, Unsaved, SavedOf
    <2>4. QED
        BY <2>2, <2>3 DEF IInv
<1>6. QED
    BY <1>1, <1>2, <1>3, <1>4, <1>5 DEF Next

\* The inductive invariant holds in every reachable state of the workflows of
\* services/reading_service.py.
THEOREM Invariant == Spec => []IInv
<1>1. QED
    BY Initial, Inductive, PTL DEF Spec

\* What a run reports is what it stored, unless a status says that saving came
\* too late (reading_service.py).
THEOREM ReportIsSaved == Spec => []ReportedIsSaved
<1>1. IInv => ReportedIsSaved
    <2>1. SUFFICES ASSUME IInv, NEW i \in Instances, At(i, "done")
                   PROVE  /\ job[i].captured = Saved(i)
                          /\ job[i].usable = Saved(i) \/ job[i].excuse = "late"
        BY DEF ReportedIsSaved
    <2>2. Sound(job[i]) /\ job[i].step = "done" /\ Saved(i) = SavedOf(job[i])
        BY <2>1 DEF IInv, At, Saved, SavedOf
    <2>3. QED
        BY <2>2 DEF Sound, Settled
<1>2. QED
    BY Invariant, <1>1, PTL

\* A run stores at most one reading of a meter, and its times do not run out
\* below zero.
THEOREM StoredOnce == Spec => []OncePerRun
<1>1. IInv => OncePerRun
    BY DEF IInv, Sound, Whole, OncePerRun
<1>2. QED
    BY Invariant, <1>1, PTL

\* Readings are stored by whole responses, whatever cancels or fails (add_all).
THEOREM WholeResponses == Spec => []ResponsesWhole
<1>1. IInv => ResponsesWhole
    <2>1. SUFFICES ASSUME IInv, NEW i \in Instances
                   PROVE  /\ job[i].pending \cap Saved(i) \in {{}, job[i].pending}
                          /\ job[i].usable \ job[i].pending \subseteq Saved(i)
                          /\ Saved(i) \subseteq job[i].usable
        BY DEF ResponsesWhole
    <2>2. Settled(job[i]) \/ Unsaved(job[i])
        BY <2>1 DEF IInv, Sound, Whole
    <2>3. Saved(i) = SavedOf(job[i])
        BY DEF Saved, SavedOf
    <2>4. QED
        BY <2>2, <2>3 DEF Settled, Unsaved
<1>2. QED
    BY Invariant, <1>1, PTL

\* No run that has ended keeps the write lock (connect, add_all).
THEOREM LockIsReleased == Spec => []LockReleased
<1>1. IInv => LockReleased
    BY DEF IInv, LockReleased, Running, Live
<1>2. QED
    BY Invariant, <1>1, PTL

\* Only an answer takes a waiting run to its save, and it came in time.
LEMMA AnswerKeepsReserve ==
    IInv /\ [Next]_vars =>
        [\A i \in Instances :
            At(i, "waiting") /\ job'[i].step = "save" => job'[i].left >= Reserve]_vars
<1>1. SUFFICES ASSUME IInv, Next, NEW k \in Instances,
                      job[k].step = "waiting", job'[k].step = "save"
               PROVE  job'[k].left >= Reserve
    BY DEF At
<1>2. PICK i \in Instances : Begin(i) \/ Cancel(i) \/ Tick(i) \/ Workflow(i)
    BY <1>1 DEF Next, OtherWork
<1>3. PICK h : h = job[k]
    OBVIOUS
<1>4. h \in Jobs /\ Sound(h) /\ h.step = "waiting" /\ job \in [Instances -> Jobs]
    BY <1>1, <1>3, Own DEF IInv, TypeOK
<1>5. PICK j : Become(i, j)
    BY <1>2 DEF Begin, Cancel, Tick, Workflow, Checkpoint, ListFails, Discover, Block, Busy,
       Specify, SpecifyRejected, SpecifyFails, Prepare, Request, RequestFails, Answer, Lock,
       SaveLate, Insert, Interrupt, InsertFails, Report, Fail
<1>6. i = k /\ job'[k] = j
    BY <1>1, <1>4, <1>5 DEF Become
<1>7. CASE Answer(k)
    <2>1. PICK usable, step, hold :
              Become(k, [job[k] EXCEPT !.step = step, !.hold = hold, !.due = 0, !.chunk = {},
                                       !.pending = usable, !.usable = @ \cup usable])
        BY <1>7 DEF Answer
    <2>2. job'[k].left = h.left
        BY <1>3, <1>4, <2>1 DEF Become, Jobs
    <2>3. h.due > 0 /\ h.due \in 0..RemoteMax /\ h.left \in 0..Budget
        BY <1>3, <1>4, <1>7 DEF Answer, Jobs
    <2>4. h.left >= h.due + Reserve
        BY <1>4, <2>3 DEF Sound
    <2>5. QED
        BY <2>2, <2>3, <2>4, BoundsAssumption
<1>8. CASE Cancel(k) \/ Tick(k)
    <2>1. CASE Cancel(k)
        <3>1. job'[k] = [h EXCEPT !.cancelled = TRUE]
            BY <1>3, <1>4, <2>1 DEF Cancel, Become
        <3>2. job'[k].step = h.step
            BY <1>4, <3>1 DEF Jobs
        <3>3. QED
            BY <1>1, <1>4, <3>2
    <2>2. CASE Tick(k)
        <3>1. PICK left, due, hold, overrun :
                  job'[k] = [h EXCEPT !.left = left, !.due = due, !.hold = hold,
                                      !.overrun = overrun]
            BY <1>3, <1>4, <2>2 DEF Tick, Pass, Become
        <3>2. job'[k].step = h.step
            BY <1>4, <3>1 DEF Jobs
        <3>3. QED
            BY <1>1, <1>4, <3>2
    <2>3. QED
        BY <1>8, <2>1, <2>2
<1>9. CASE Busy(k) \/ RequestFails(k)
    <2>1. CASE Fail(k, job[k])
        <3>1. job'[k].step = "failed"
            BY <1>4, <2>1, NoRows DEF Fail, Become, Over, Jobs
        <3>2. QED
            BY <1>1, <3>1
    <2>2. CASE Become(k, [job[k] EXCEPT !.step = "request", !.due = 0, !.chunk = {}])
        <3>1. job'[k].step = "request"
            BY <1>3, <1>4, <2>2 DEF Become, Jobs
        <3>2. QED
            BY <1>1, <3>1
    <2>3. QED
        BY <1>9, <2>1, <2>2 DEF RequestFails, Busy
<1>10. Answer(k) \/ Cancel(k) \/ Tick(k) \/ Busy(k) \/ RequestFails(k)
    BY <1>1, <1>2, <1>6 DEF Begin, Running, Workflow, Checkpoint, ListFails, Discover, Block,
       Specify, SpecifyRejected, SpecifyFails, Prepare, Request, Lock,
       SaveLate, Insert, Interrupt, InsertFails, Report, At
<1>11. QED
    BY <1>7, <1>8, <1>9, <1>10

\* A response that arrives finds the time for saving it still reserved
\* (cancellation.py, reserve_after_remote).
THEOREM ReserveIsKept == Spec => ReserveKept
<1>1. QED
    BY Invariant, AnswerKeepsReserve, PTL DEF Spec, ReserveKept

-----------------------------------------------------------------------------
(* The only instance: its job j, whether it is the writer w of the tables k *)
(* (committed) and r (draft), and the last committed listing l.             *)

Usable(row) == row.cached /\ row.eligibility = "supported"

\* Everything that is still to be asked for, or was stored, is supported; the
\* open transaction is that of the specifications or of one response.
Consistent(i, j, w, k, r, l) ==
    /\ {d \in Devices : k[d].present} = l
    /\ w = i => j.step \in {"specify", "report", "insert"}
    /\ w = i /\ j.kind = "status" => \A d \in Devices : r[d].present = k[d].present
    /\ j.kind = "status" /\ j.step = "specify" => \A d \in j.todo : j.stale = k[d].present
    /\ j.step = "list" => j.kind = "refresh" /\ j.eligible = {}
    /\ j.step = "specify" => /\ j.todo \cap j.eligible = {}
                             /\ j.eligible # {} => w = i
                             /\ \A d \in j.eligible : Usable(r[d])
    /\ j.step \in {"request", "waiting", "save", "insert"} =>
          \A d \in j.eligible : Usable(k[d])
    /\ j.step = "waiting" => \A d \in j.chunk : Usable(k[d])
    /\ j.step \in {"save", "insert"} => \A d \in j.pending : Usable(k[d])
    /\ j.step = "report" /\ w = i => SavedOf(j) = {}
    /\ w = i /\ j.kind = "refresh" /\ j.step \in {"specify", "report"} =>
          {d \in Devices : r[d].present} = j.listed
    /\ j.kind = "refresh" /\ j.step = "specify" => w = i
    /\ \A d \in SavedOf(j) : Usable(k[d])

OneInv == IInv /\ \A i \in Instances : Consistent(i, job[i], writer, known, draft, listing)

\* Where there is one instance, its steps are all.
LEMMA LiftOne ==
    ASSUME NEW i, Instances = {i}, OneInv, IInv', NEW j, Become(i, j),
           Consistent(i, j, writer', known', draft', listing')
    PROVE  OneInv'
<1>1. job' = [job EXCEPT ![i] = j] /\ job \in [Instances -> Jobs]
    BY DEF OneInv, IInv, TypeOK, Become
<1>2. job'[i] = j
    BY <1>1
<1>3. QED
    BY <1>2 DEF OneInv, Consistent, SavedOf

LEMMA Only ==
    ASSUME NEW i, Instances = {i}, OneInv
    PROVE  /\ IInv /\ i \in Instances /\ job[i] \in Jobs /\ Sound(job[i])
           /\ Consistent(i, job[i], writer, known, draft, listing)
           /\ known \in [Devices -> Rows] /\ draft \in [Devices -> Rows]
           /\ writer \in {i, Nobody, Elsewhere} /\ Nobody # i /\ Elsewhere # i
BY Own, NobodyAssumption DEF OneInv, IInv, TypeOK

LEMMA FailOne ==
    ASSUME NEW i, Instances = {i}, OneInv, IInv', NEW l \in Jobs, l.rows = job[i].rows,
           Fail(i, l)
    PROVE  OneInv'
<1>1. PICK j : j = Over(l, "failed")
    OBVIOUS
<1>2. j.step = "failed" /\ j.rows = job[i].rows
    BY <1>1, OverKeeps
<1>3. Consistent(i, job[i], writer, known, draft, listing) /\ Nobody # i
    BY Only
<1>4. Become(i, j) /\ known' = known /\ listing' = listing /\ writer' # i
    BY <1>1, <1>3 DEF Fail, Unlock
<1>5. SavedOf(j) = SavedOf(job[i])
    BY <1>2 DEF SavedOf
<1>6. Consistent(i, j, writer', known', draft', listing')
    BY <1>2, <1>3, <1>4, <1>5 DEF Consistent
<1>7. QED
    BY <1>4, <1>6, LiftOne

LEMMA FailOwnOne ==
    ASSUME NEW i, Instances = {i}, OneInv, IInv', Fail(i, job[i]) PROVE OneInv'
BY Only, FailOne

\* Steps that leave the database and what the job knows of it.
LEMMA SameJobOne ==
    ASSUME NEW i, Instances = {i}, OneInv, IInv', NEW j, Become(i, j),
           UNCHANGED <<known, draft, writer, listing>>,
           j.step = job[i].step, j.kind = job[i].kind, j.todo = job[i].todo,
           j.stale = job[i].stale, j.eligible = job[i].eligible, j.chunk = job[i].chunk,
           j.pending = job[i].pending, j.rows = job[i].rows, j.listed = job[i].listed
    PROVE  OneInv'
<1>1. Consistent(i, job[i], writer, known, draft, listing)
    BY Only
<1>2. SavedOf(j) = SavedOf(job[i])
    BY DEF SavedOf
<1>3. Consistent(i, j, writer', known', draft', listing')
    BY <1>1, <1>2 DEF Consistent
<1>4. QED
    BY <1>3, LiftOne

LEMMA CancelTickOne ==
    ASSUME NEW i, Instances = {i}, OneInv, IInv', Cancel(i) \/ Tick(i) PROVE OneInv'
<1>1. job[i] \in Jobs
    BY Only
<1>2. CASE Cancel(i)
    <2>1. PICK j : j = [job[i] EXCEPT !.cancelled = TRUE]
        OBVIOUS
    <2>2. /\ j.step = job[i].step /\ j.kind = job[i].kind /\ j.todo = job[i].todo
          /\ j.stale = job[i].stale /\ j.eligible = job[i].eligible
          /\ j.chunk = job[i].chunk /\ j.pending = job[i].pending /\ j.rows = job[i].rows
          /\ j.listed = job[i].listed
        BY <1>1, <2>1 DEF Jobs
    <2>3. Become(i, j) /\ UNCHANGED <<known, draft, writer, listing>>
        BY <1>2, <2>1 DEF Cancel
    <2>4. QED
        BY <2>2, <2>3, SameJobOne
<1>3. CASE Tick(i)
    <2>1. PICK left, due, hold, overrun :
              Pass(i, job[i]) = [job[i] EXCEPT !.left = left, !.due = due, !.hold = hold,
                                               !.overrun = overrun]
        BY DEF Pass
    <2>2. PICK j : j = [job[i] EXCEPT !.left = left, !.due = due, !.hold = hold,
                                      !.overrun = overrun]
        OBVIOUS
    <2>3. /\ j.step = job[i].step /\ j.kind = job[i].kind /\ j.todo = job[i].todo
          /\ j.stale = job[i].stale /\ j.eligible = job[i].eligible
          /\ j.chunk = job[i].chunk /\ j.pending = job[i].pending /\ j.rows = job[i].rows
          /\ j.listed = job[i].listed
        BY <1>1, <2>2 DEF Jobs
    <2>4. Become(i, j) /\ UNCHANGED <<known, draft, writer, listing>>
        BY <1>3, <2>1, <2>2 DEF Tick
    <2>5. QED
        BY <2>3, <2>4, SameJobOne
<1>4. QED
    BY <1>2, <1>3

LEMMA BeginOne ==
    ASSUME NEW i, Instances = {i}, OneInv, IInv', Begin(i) PROVE OneInv'
<1>1. /\ Consistent(i, job[i], writer, known, draft, listing)
      /\ job[i].step \in {"idle", "done", "failed"}
      /\ UNCHANGED <<known, draft, writer, listing>>
    BY Only DEF Begin, Running
<1>2. writer # i
    BY <1>1 DEF Consistent
<1>3. PICK j \in {[NewJob EXCEPT !.step = "list"]} \cup
               {[NewJob EXCEPT !.kind = "status", !.step = "specify",
                               !.todo = {d}, !.stale = known[d].present] : d \in Devices} :
          Become(i, j)
    BY DEF Begin
<1>4. /\ j.rows = NewJob.rows /\ j.eligible = {}
      /\ \/ j.step = "list" /\ j.kind = "refresh"
         \/ /\ j.step = "specify" /\ j.kind = "status"
            /\ \E d \in Devices : j.todo = {d} /\ j.stale = known[d].present
    <2>1. NewJob \in Jobs /\ NewJob.eligible = {} /\ NewJob.kind = "refresh"
        BY NoRows DEF NewJob
    <2>2. CASE j = [NewJob EXCEPT !.step = "list"]
        BY <2>1, <2>2 DEF Jobs
    <2>3. ASSUME NEW d \in Devices,
                 j = [NewJob EXCEPT !.kind = "status", !.step = "specify",
                                    !.todo = {d}, !.stale = known[d].present]
          PROVE  /\ j.rows = NewJob.rows /\ j.eligible = {} /\ j.step = "specify"
                 /\ j.kind = "status" /\ j.todo = {d} /\ j.stale = known[d].present
        BY <2>1, <2>3 DEF Jobs
    <2>4. QED
        BY <1>3, <2>2, <2>3
<1>5. SavedOf(j) = {}
    BY <1>4, NoRows DEF SavedOf
<1>6. Consistent(i, j, writer', known', draft', listing')
    BY <1>1, <1>2, <1>4, <1>5 DEF Consistent
<1>7. QED
    BY <1>3, <1>6, LiftOne

\* The listed devices, and only they, are present in the draft.
LEMMA DiscoverOne ==
    ASSUME NEW i, Instances = {i}, OneInv, IInv', Discover(i) PROVE OneInv'
<1>1. PICK listed \in SUBSET Devices :
          /\ \A d \in Devices : draft'[d].present = (d \in listed)
          /\ Become(i, [job[i] EXCEPT !.step = "specify", !.blocked = FALSE, !.hold = 0,
                                      !.todo = listed, !.listed = listed])
    <2>1. PICK listed \in SUBSET Devices, replaced \in SUBSET Devices :
              /\ draft' = [d \in Devices |->
                             [known[d] EXCEPT !.present = d \in listed,
                                              !.cached = @ \/ d \in listed,
                                              !.eligibility = IF d \in replaced THEN "unknown"
                                                                                ELSE @]]
              /\ Become(i, [job[i] EXCEPT !.step = "specify", !.blocked = FALSE, !.hold = 0,
                                          !.todo = listed, !.listed = listed])
        BY DEF Discover
    <2>2. ASSUME NEW d \in Devices PROVE draft'[d].present = (d \in listed)
        <3>1. PICK row, cached, eligibility, present :
                  /\ row = known[d] /\ cached = (known[d].cached \/ d \in listed)
                  /\ present = (d \in listed)
                  /\ eligibility = IF d \in replaced THEN "unknown" ELSE known[d].eligibility
            OBVIOUS
        <3>2. row \in Rows
            BY <3>1, Only
        <3>3. draft'[d] = [row EXCEPT !.present = present, !.cached = cached,
                                      !.eligibility = eligibility]
            BY <2>1, <3>1
        <3>4. draft'[d].present = present
            BY <3>2, <3>3 DEF Rows
        <3>5. QED
            BY <3>1, <3>4
    <2>3. QED
        BY <2>1, <2>2
<1>2. /\ Consistent(i, job[i], writer, known, draft, listing)
      /\ job[i].step = "list" /\ job[i] \in Jobs /\ Sound(job[i])
      /\ known' = known /\ listing' = listing /\ writer' = i
    BY Only DEF Discover, At
<1>3. PICK j : j = [job[i] EXCEPT !.step = "specify", !.blocked = FALSE, !.hold = 0,
                                  !.todo = listed, !.listed = listed]
    OBVIOUS
<1>4. /\ j.step = "specify" /\ j.todo = listed /\ j.kind = job[i].kind
      /\ j.eligible = job[i].eligible /\ j.rows = job[i].rows /\ j.stale = job[i].stale
      /\ j.listed = listed
    BY <1>2, <1>3 DEF Jobs
<1>5. SavedOf(j) = {} /\ j.eligible = {}
    BY <1>2, <1>4, SameSaved DEF Consistent, Sound, SavedOf
<1>6. j.kind = "refresh"
    BY <1>2, <1>4 DEF Consistent
<1>7. {d \in Devices : draft'[d].present} = j.listed
    BY <1>1, <1>4
<1>8. Consistent(i, j, writer', known', draft', listing')
    BY <1>2, <1>4, <1>5, <1>6, <1>7 DEF Consistent
<1>9. Become(i, j)
    BY <1>1, <1>3
<1>10. QED
    BY <1>8, <1>9, LiftOne

\* A wait for the lock starts.
LEMMA BlockOne == ASSUME NEW i, Instances = {i}, OneInv, IInv', Block(i) PROVE OneInv'
<1>1. PICK j : j = [job[i] EXCEPT !.blocked = TRUE, !.hold = SaveMax]
    OBVIOUS
<1>2. /\ j.step = job[i].step /\ j.kind = job[i].kind /\ j.todo = job[i].todo
      /\ j.stale = job[i].stale /\ j.eligible = job[i].eligible
      /\ j.chunk = job[i].chunk /\ j.pending = job[i].pending /\ j.rows = job[i].rows
      /\ j.listed = job[i].listed
    BY <1>1, Only DEF Jobs
<1>3. Become(i, j) /\ UNCHANGED <<known, draft, writer, listing>>
    BY <1>1 DEF Block
<1>4. QED
    BY <1>2, <1>3, SameJobOne

\* The row that a revalidation writes, and the others.
LEMMA UpsertedRows ==
    ASSUME NEW i, Instances = {i}, OneInv, At(i, "specify"), NEW d \in job[i].todo,
           NEW e, NEW r, r = Upserted(i, d, e)
    PROVE  /\ r[d].cached /\ r[d].eligibility = e
           /\ \A c \in Devices : c # d /\ c \in job[i].eligible => r[c] = draft[c]
           /\ job[i].kind = "status" => \A c \in Devices : r[c].present = known[c].present
           /\ job[i].kind = "refresh" => \A c \in Devices : r[c].present = draft[c].present
<1>1. /\ known \in [Devices -> Rows] /\ draft \in [Devices -> Rows] /\ job[i] \in Jobs
      /\ Consistent(i, job[i], writer, known, draft, listing)
      /\ job[i].step = "specify" /\ d \in Devices
    BY Only DEF At, Jobs
<1>2. PICK rows, flag, row :
          /\ rows = IF writer = i THEN draft ELSE known
          /\ flag = IF job[i].kind = "status" THEN job[i].stale ELSE draft[d].present
          /\ row = [cached |-> TRUE, present |-> flag, eligibility |-> e]
    OBVIOUS
<1>3. rows \in [Devices -> Rows] /\ r = [rows EXCEPT ![d] = row]
    BY <1>1, <1>2 DEF Upserted
<1>4. r[d] = row /\ \A c \in Devices : c # d => r[c] = rows[c]
    BY <1>1, <1>3
<1>5. row.cached /\ row.eligibility = e /\ row.present = flag
    BY <1>2
<1>6. job[i].eligible # {} => rows = draft
    BY <1>1, <1>2 DEF Consistent
<1>7. ASSUME job[i].kind = "status", NEW c \in Devices
      PROVE  r[c].present = known[c].present
    <2>1. rows[c].present = known[c].present
        BY <1>1, <1>2, <1>7 DEF Consistent
    <2>2. c = d => r[c].present = known[c].present
        BY <1>1, <1>2, <1>4, <1>5, <1>7 DEF Consistent
    <2>3. QED
        BY <1>4, <2>1, <2>2
<1>8. ASSUME job[i].kind = "refresh", NEW c \in Devices
      PROVE  r[c].present = draft[c].present
    <2>1. rows = draft /\ flag = draft[d].present
        BY <1>1, <1>2, <1>8 DEF Consistent
    <2>2. QED
        BY <1>4, <1>5, <2>1
<1>9. QED
    BY <1>4, <1>5, <1>6, <1>7, <1>8

\* One device less to revalidate, whose row was perhaps written.
LEMMA SpecifiedOne ==
    ASSUME NEW i, Instances = {i}, OneInv, IInv', At(i, "specify"), NEW d \in job[i].todo,
           NEW S, Become(i, Specified(i, d, S)),
           \/ (\E e : draft' = Upserted(i, d, e)) /\ writer' = i /\ S = {}
           \/ draft' = Upserted(i, d, "supported") /\ writer' = i /\ S = {d}
           \/ draft' = draft /\ writer' = writer /\ S = {},
           UNCHANGED <<known, listing>>
    PROVE  OneInv'
<1>1. /\ Consistent(i, job[i], writer, known, draft, listing)
      /\ job[i].step = "specify" /\ job[i] \in Jobs /\ i \in Instances
    BY Only DEF At
<1>2. /\ job[i].eligible \subseteq Devices /\ job[i].todo \subseteq Devices /\ d \in Devices
      /\ d \notin job[i].eligible /\ S \in SUBSET Devices
    BY <1>1 DEF Jobs, Consistent
<1>3. PICK j : j = Specified(i, d, S)
    OBVIOUS
<1>4. /\ j.step = "specify" /\ j.kind = job[i].kind /\ j.todo = job[i].todo \ {d}
      /\ j.stale = job[i].stale /\ j.rows = job[i].rows /\ j.listed = job[i].listed
      /\ j.eligible = job[i].eligible \cup S
    BY <1>1, <1>2, <1>3, SpecifiedJob
<1>5. SavedOf(j) = SavedOf(job[i])
    BY <1>4 DEF SavedOf
<1>6. /\ j.todo \cap j.eligible = {} /\ (j.eligible # {} => writer' = i)
      /\ j.kind = "refresh" => writer' = i
    BY <1>1, <1>2, <1>4 DEF Consistent
<1>7. PICK r : r = draft'
    OBVIOUS
<1>8. /\ \A c \in j.eligible : Usable(r[c])
      /\ writer' = i /\ j.kind = "status" =>
            \A c \in Devices : r[c].present = known[c].present
      /\ j.kind = "refresh" => {c \in Devices : r[c].present} = j.listed
    <2>1. CASE r = draft /\ writer' = writer /\ S = {}
        BY <1>1, <1>4, <2>1 DEF Consistent
    <2>2. ASSUME NEW e, r = Upserted(i, d, e), S = {} \/ (e = "supported" /\ S = {d})
          PROVE  /\ \A c \in j.eligible : Usable(r[c])
                 /\ j.kind = "status" => \A c \in Devices : r[c].present = known[c].present
                 /\ j.kind = "refresh" => {c \in Devices : r[c].present} = j.listed
        <3>1. /\ r[d].cached /\ r[d].eligibility = e
              /\ \A c \in Devices : c # d /\ c \in job[i].eligible => r[c] = draft[c]
              /\ job[i].kind = "status" => \A c \in Devices : r[c].present = known[c].present
              /\ job[i].kind = "refresh" => \A c \in Devices : r[c].present = draft[c].present
            BY <2>2, UpsertedRows
        <3>2. \A c \in job[i].eligible : Usable(r[c])
            BY <1>1, <1>2, <3>1 DEF Consistent
        <3>3. \A c \in j.eligible : Usable(r[c])
            BY <1>4, <2>2, <3>1, <3>2 DEF Usable
        <3>4. j.kind = "refresh" => {c \in Devices : draft[c].present} = j.listed
            BY <1>1, <1>4 DEF Consistent
        <3>5. j.kind = "refresh" => {c \in Devices : r[c].present} = j.listed
            BY <1>4, <3>1, <3>4
        <3>6. QED
            BY <1>4, <3>1, <3>3, <3>5
    <2>3. QED
        BY <1>7, <2>1, <2>2
<1>9. Consistent(i, j, writer', known', draft', listing')
    BY <1>1, <1>4, <1>5, <1>6, <1>7, <1>8 DEF Consistent
<1>10. QED
    BY <1>3, <1>9, LiftOne

LEMMA SpecifyOne ==
    ASSUME NEW i, Instances = {i}, OneInv, IInv', Specify(i) PROVE OneInv'
<1>1. PICK d \in job[i].todo :
          draft' = Upserted(i, d, "supported") /\ Become(i, Specified(i, d, {d}))
    BY DEF Specify
<1>2. At(i, "specify") /\ writer' = i /\ UNCHANGED <<known, listing>>
    BY DEF Specify
<1>3. QED
    BY <1>1, <1>2, SpecifiedOne

LEMMA RevalidationOne ==
    ASSUME NEW i, Instances = {i}, OneInv, IInv', SpecifyRejected(i) \/ SpecifyFails(i)
    PROVE  OneInv'
<1>1. CASE Fail(i, job[i])
    BY <1>1, FailOwnOne
<1>2. CASE ~Fail(i, job[i])
    <2>1. PICK d \in job[i].todo :
              /\ Become(i, Specified(i, d, {}))
              /\ \/ (\E e : draft' = Upserted(i, d, e)) /\ writer' = i
                 \/ draft' = draft /\ writer' = writer
              /\ UNCHANGED <<known, listing>>
        BY <1>2 DEF SpecifyRejected, SpecifyFails
    <2>2. At(i, "specify")
        BY DEF SpecifyRejected, SpecifyFails
    <2>3. QED
        BY <2>1, <2>2, SpecifiedOne
<1>3. QED
    BY <1>1, <1>2

\* The commit of a refresh makes its listing the last; that of a status leaves
\* who is present as it was.
LEMMA CommittedListing ==
    ASSUME NEW i, Instances = {i}, OneInv, CommitDraft(i, job[i]),
           job[i].step \in {"specify", "report", "request"}
    PROVE  /\ {d \in Devices : known'[d].present} = listing'
           /\ writer' # i /\ draft' = draft
           /\ known' = IF writer = i THEN draft ELSE known
<1>1. /\ Consistent(i, job[i], writer, known, draft, listing) /\ Nobody # i
      /\ job[i].kind \in {"refresh", "status"}
    BY Only DEF Jobs
<1>2. writer' # i /\ draft' = draft /\ known' = IF writer = i THEN draft ELSE known
    BY <1>1 DEF CommitDraft, Unlock
<1>3. {d \in Devices : known'[d].present} = listing'
    <2>1. CASE writer # i
        BY <1>1, <2>1 DEF CommitDraft, Consistent
    <2>2. CASE writer = i /\ job[i].kind = "refresh"
        BY <1>1, <2>2 DEF CommitDraft, Consistent
    <2>3. CASE writer = i /\ job[i].kind = "status"
        BY <1>1, <2>3 DEF CommitDraft, Consistent
    <2>4. QED
        BY <1>1, <2>1, <2>2, <2>3
<1>4. QED
    BY <1>2, <1>3

LEMMA PrepareOne ==
    ASSUME NEW i, Instances = {i}, OneInv, IInv', Prepare(i) PROVE OneInv'
<1>1. /\ Consistent(i, job[i], writer, known, draft, listing)
      /\ job[i].step = "specify" /\ job[i] \in Jobs /\ Sound(job[i])
    BY Only DEF Prepare, At
<1>2. SavedOf(job[i]) = {}
    BY <1>1 DEF Sound
<1>3. CASE job[i].eligible = {}
    <2>1. PICK j : j = [job[i] EXCEPT !.step = "report"]
        OBVIOUS
    <2>2. /\ j.step = "report" /\ j.kind = job[i].kind /\ j.rows = job[i].rows
          /\ j.listed = job[i].listed
        BY <1>1, <2>1 DEF Jobs
    <2>3. SavedOf(j) = {}
        BY <1>2, <2>2 DEF SavedOf
    <2>4. Become(i, j) /\ UNCHANGED <<known, draft, writer, listing>>
        BY <1>3, <2>1 DEF Prepare
    <2>5. Consistent(i, j, writer', known', draft', listing')
        BY <1>1, <2>2, <2>3, <2>4 DEF Consistent
    <2>6. QED
        BY <2>4, <2>5, LiftOne
<1>4. CASE job[i].eligible # {}
    <2>1. PICK j : j = [job[i] EXCEPT !.step = "request"]
        OBVIOUS
    <2>2. /\ j.step = "request" /\ j.kind = job[i].kind /\ j.rows = job[i].rows
          /\ j.eligible = job[i].eligible
        BY <1>1, <2>1 DEF Jobs
    <2>3. SavedOf(j) = {}
        BY <1>2, <2>2 DEF SavedOf
    <2>4. Become(i, j) /\ CommitDraft(i, job[i])
        BY <1>4, <2>1 DEF Prepare
    <2>5. /\ {d \in Devices : known'[d].present} = listing' /\ writer' # i
          /\ known' = draft
        BY <1>1, <1>4, <2>4, CommittedListing DEF Consistent
    <2>6. \A d \in j.eligible : Usable(known'[d])
        BY <1>1, <2>2, <2>5 DEF Consistent
    <2>7. Consistent(i, j, writer', known', draft', listing')
        BY <2>2, <2>3, <2>5, <2>6 DEF Consistent
    <2>8. QED
        BY <2>4, <2>7, LiftOne
<1>5. QED
    BY <1>3, <1>4

LEMMA RequestOne ==
    ASSUME NEW i, Instances = {i}, OneInv, IInv', Request(i) PROVE OneInv'
<1>1. /\ Consistent(i, job[i], writer, known, draft, listing)
      /\ job[i].step = "request" /\ job[i] \in Jobs
    BY Only DEF Request, At
<1>2. CASE RemoteTime(i) = 0
    BY <1>2, FailOwnOne DEF Request
<1>3. CASE RemoteTime(i) # 0
    <2>1. PICK chunk \in SUBSET job[i].eligible :
              Become(i, [job[i] EXCEPT !.step = "waiting", !.due = RemoteTime(i),
                                       !.eligible = @ \ chunk, !.chunk = chunk])
        BY <1>3 DEF Request
    <2>2. PICK due, j : /\ due = RemoteTime(i)
                        /\ j = [job[i] EXCEPT !.step = "waiting", !.due = due,
                                              !.eligible = job[i].eligible \ chunk,
                                              !.chunk = chunk]
        OBVIOUS
    <2>3. /\ j.step = "waiting" /\ j.rows = job[i].rows /\ j.chunk = chunk
          /\ j.eligible = job[i].eligible \ chunk
        BY <1>1, <2>2 DEF Jobs
    <2>4. SavedOf(j) = SavedOf(job[i])
        BY <2>3 DEF SavedOf
    <2>5. Become(i, j) /\ UNCHANGED <<known, draft, writer, listing>>
        BY <1>3, <2>1, <2>2 DEF Request
    <2>6. Consistent(i, j, writer', known', draft', listing')
        BY <1>1, <2>3, <2>4, <2>5 DEF Consistent
    <2>7. QED
        BY <2>5, <2>6, LiftOne
<1>4. QED
    BY <1>2, <1>3

LEMMA RequestFailsOne ==
    ASSUME NEW i, Instances = {i}, OneInv, IInv', RequestFails(i) PROVE OneInv'
<1>1. /\ Consistent(i, job[i], writer, known, draft, listing)
      /\ job[i].step = "waiting" /\ job[i] \in Jobs
    BY Only DEF RequestFails, At
<1>2. CASE Fail(i, job[i])
    BY <1>2, FailOwnOne
<1>3. CASE ~Fail(i, job[i])
    <2>1. PICK j : j = [job[i] EXCEPT !.step = "request", !.due = 0, !.chunk = {}]
        OBVIOUS
    <2>2. j.step = "request" /\ j.rows = job[i].rows /\ j.eligible = job[i].eligible
        BY <1>1, <2>1 DEF Jobs
    <2>3. SavedOf(j) = SavedOf(job[i])
        BY <2>2 DEF SavedOf
    <2>4. Become(i, j) /\ UNCHANGED <<known, draft, writer, listing>>
        BY <1>3, <2>1 DEF RequestFails
    <2>5. Consistent(i, j, writer', known', draft', listing')
        BY <1>1, <2>2, <2>3, <2>4 DEF Consistent
    <2>6. QED
        BY <2>4, <2>5, LiftOne
<1>4. QED
    BY <1>2, <1>3

LEMMA AnswerOne ==
    ASSUME NEW i, Instances = {i}, OneInv, IInv', Answer(i) PROVE OneInv'
<1>1. /\ Consistent(i, job[i], writer, known, draft, listing)
      /\ job[i].step = "waiting" /\ job[i] \in Jobs
    BY Only DEF Answer, At
<1>2. PICK usable, step, hold :
          /\ usable \in SUBSET job[i].chunk /\ step \in {"save", "request", "report"}
          /\ Become(i, [job[i] EXCEPT !.step = step, !.hold = hold, !.due = 0, !.chunk = {},
                                      !.pending = usable, !.usable = @ \cup usable])
    <2>1. PICK usable \in SUBSET job[i].chunk :
              Become(i, [job[i] EXCEPT
                  !.step = CASE usable # {} -> "save"
                             [] usable = {} /\ job[i].kind = "refresh" -> "request"
                             [] OTHER -> "report",
                  !.hold = Least(SaveMax, job[i].left),
                  !.due = 0, !.chunk = {},
                  !.pending = usable,
                  !.usable = @ \cup usable])
        BY DEF Answer
    <2>2. PICK step : step = CASE usable # {} -> "save"
                               [] usable = {} /\ job[i].kind = "refresh" -> "request"
                               [] OTHER -> "report"
        OBVIOUS
    <2>3. step \in {"save", "request", "report"}
        <3>1. CASE usable # {}
            BY <2>2, <3>1
        <3>2. CASE usable = {} /\ job[i].kind = "refresh"
            BY <2>2, <3>2
        <3>3. CASE usable = {} /\ job[i].kind # "refresh"
            BY <2>2, <3>3
        <3>4. QED
            BY <3>1, <3>2, <3>3
    <2>4. QED
        BY <2>1, <2>2, <2>3
<1>3. PICK j : j = [job[i] EXCEPT !.step = step, !.hold = hold, !.due = 0, !.chunk = {},
                                  !.pending = usable, !.usable = @ \cup usable]
    OBVIOUS
<1>4. /\ j.step = step /\ j.rows = job[i].rows /\ j.pending = usable
      /\ j.eligible = job[i].eligible
    BY <1>1, <1>3 DEF Jobs
<1>5. SavedOf(j) = SavedOf(job[i]) /\ writer # i
    BY <1>1, <1>4 DEF SavedOf, Consistent
<1>6. Become(i, j) /\ UNCHANGED <<known, draft, writer, listing>>
    BY <1>2, <1>3 DEF Answer
<1>7. Consistent(i, j, writer', known', draft', listing')
    BY <1>1, <1>2, <1>4, <1>5, <1>6 DEF Consistent
<1>8. QED
    BY <1>6, <1>7, LiftOne

LEMMA LockOne ==
    ASSUME NEW i, Instances = {i}, OneInv, IInv', Lock(i) PROVE OneInv'
<1>1. /\ Consistent(i, job[i], writer, known, draft, listing)
      /\ job[i].step = "save" /\ job[i] \in Jobs
    BY Only DEF Lock, At
<1>2. PICK j : j = [job[i] EXCEPT !.step = "insert", !.hold = 0]
    OBVIOUS
<1>3. /\ j.step = "insert" /\ j.rows = job[i].rows /\ j.pending = job[i].pending
      /\ j.eligible = job[i].eligible
    BY <1>1, <1>2 DEF Jobs
<1>4. SavedOf(j) = SavedOf(job[i])
    BY <1>3 DEF SavedOf
<1>5. Become(i, j) /\ draft' = known /\ known' = known /\ listing' = listing
    BY <1>2 DEF Lock
<1>6. Consistent(i, j, writer', known', draft', listing')
    BY <1>1, <1>3, <1>4, <1>5 DEF Consistent
<1>7. QED
    BY <1>5, <1>6, LiftOne

LEMMA SaveLateOne ==
    ASSUME NEW i, Instances = {i}, OneInv, IInv', SaveLate(i) PROVE OneInv'
<1>1. /\ Consistent(i, job[i], writer, known, draft, listing)
      /\ job[i].step = "save" /\ job[i] \in Jobs
    BY Only DEF SaveLate, At
<1>2. PICK l : l = [job[i] EXCEPT !.excuse = "late"]
    OBVIOUS
<1>3. l \in Jobs /\ l.rows = job[i].rows
    BY <1>1, <1>2 DEF Jobs
<1>4. CASE Fail(i, l)
    BY <1>3, <1>4, FailOne
<1>5. CASE ~Fail(i, l)
    <2>1. PICK j : j = [l EXCEPT !.step = "report"]
        OBVIOUS
    <2>2. j.step = "report" /\ j.rows = job[i].rows
        BY <1>3, <2>1 DEF Jobs
    <2>3. SavedOf(j) = SavedOf(job[i])
        BY <2>2 DEF SavedOf
    <2>4. Become(i, j) /\ UNCHANGED <<known, draft, writer, listing>>
        BY <1>2, <1>5, <2>1 DEF SaveLate
    <2>5. Consistent(i, j, writer', known', draft', listing')
        BY <1>1, <2>2, <2>3, <2>4 DEF Consistent
    <2>6. QED
        BY <2>4, <2>5, LiftOne
<1>6. QED
    BY <1>4, <1>5

LEMMA InsertOne ==
    ASSUME NEW i, Instances = {i}, OneInv, IInv', Insert(i) PROVE OneInv'
<1>1. /\ Consistent(i, job[i], writer, known, draft, listing) /\ Nobody # i
      /\ job[i].step = "insert" /\ job[i] \in Jobs
    BY Only DEF Insert, At
<1>2. PICK step, captured, n, rows :
          /\ step = IF job[i].kind = "refresh" THEN "request" ELSE "report"
          /\ captured = job[i].captured \cup job[i].pending
          /\ n = job[i].inserted + Cardinality(job[i].pending)
          /\ rows = [d \in Devices |-> IF d \in job[i].pending THEN job[i].rows[d] + 1
                                                               ELSE job[i].rows[d]]
    OBVIOUS
<1>3. PICK j : j = [job[i] EXCEPT !.step = step, !.captured = captured,
                                  !.inserted = n, !.rows = rows]
    OBVIOUS
<1>4. /\ j.step = step /\ step \in {"request", "report"} /\ j.rows = rows
      /\ j.eligible = job[i].eligible
    BY <1>1, <1>2, <1>3 DEF Jobs
<1>5. \A d \in SavedOf(j) : d \in SavedOf(job[i]) \/ d \in job[i].pending
    BY <1>1, <1>2, <1>4 DEF SavedOf
<1>6. /\ Become(i, j) /\ known' = known /\ draft' = draft /\ listing' = listing
      /\ writer' # i
    BY <1>1, <1>2, <1>3 DEF Insert, Unlock
<1>7. Consistent(i, j, writer', known', draft', listing')
    BY <1>1, <1>4, <1>5, <1>6 DEF Consistent
<1>8. QED
    BY <1>6, <1>7, LiftOne

LEMMA InsertFailsOne ==
    ASSUME NEW i, Instances = {i}, OneInv, IInv', InsertFails(i) PROVE OneInv'
<1>1. PICK l : l = [job[i] EXCEPT !.excuse = "database"]
    OBVIOUS
<1>2. l \in Jobs /\ l.rows = job[i].rows
    BY <1>1, Only DEF Jobs
<1>3. QED
    BY <1>1, <1>2, FailOne DEF InsertFails

LEMMA ReportOne ==
    ASSUME NEW i, Instances = {i}, OneInv, IInv', Report(i) PROVE OneInv'
<1>1. /\ Consistent(i, job[i], writer, known, draft, listing)
      /\ job[i].step \in {"report", "request"} /\ job[i] \in Jobs
    BY Only DEF Report, At
<1>2. PICK j : j = Over(job[i], "done")
    OBVIOUS
<1>3. j.step = "done" /\ j.rows = job[i].rows
    BY <1>1, <1>2, OverKeeps
<1>4. SavedOf(j) = SavedOf(job[i])
    BY <1>3 DEF SavedOf
<1>5. Become(i, j) /\ CommitDraft(i, job[i])
    BY <1>2 DEF Report
<1>6. /\ {d \in Devices : known'[d].present} = listing' /\ writer' # i
      /\ known' = IF writer = i THEN draft ELSE known
    BY <1>1, <1>5, CommittedListing
<1>7. \A d \in SavedOf(j) : Usable(known'[d])
    BY <1>1, <1>4, <1>6 DEF Consistent
<1>8. Consistent(i, j, writer', known', draft', listing')
    BY <1>3, <1>6, <1>7 DEF Consistent
<1>9. QED
    BY <1>5, <1>8, LiftOne

-----------------------------------------------------------------------------
(* The theorems for one instance *)

LEMMA InitialOne == ASSUME NEW i, Instances = {i} PROVE Init => OneInv
<1>1. SUFFICES ASSUME Init PROVE OneInv
    OBVIOUS
<1>2. /\ writer = Nobody /\ draft = known /\ job = [k \in Instances |-> NewJob]
      /\ listing = {d \in Devices : known[d].present} /\ Nobody # i
    BY <1>1, NobodyAssumption DEF Init
<1>3. job[i] = NewJob
    BY <1>2
<1>4. Consistent(i, NewJob, writer, known, draft, listing)
    BY <1>2, NoRows DEF Consistent
<1>5. QED
    BY <1>1, <1>3, <1>4, Initial DEF OneInv

LEMMA InductiveOne == ASSUME NEW i, Instances = {i} PROVE OneInv /\ [Next]_vars => OneInv'
<1>1. SUFFICES ASSUME OneInv, [Next]_vars PROVE OneInv'
    OBVIOUS
<1>2. IInv' /\ i \in Instances
    BY <1>1, Inductive DEF OneInv
<1>3. CASE Begin(i) \/ Cancel(i) \/ Tick(i)
    BY <1>1, <1>2, <1>3, BeginOne, CancelTickOne
<1>4. CASE Workflow(i)
    <2>1. CASE Checkpoint(i) \/ ListFails(i) \/ Discover(i) \/ Block(i) \/ Busy(i)
        BY <1>1, <1>2, <2>1, DiscoverOne, BlockOne, FailOwnOne DEF Checkpoint, ListFails, Busy
    <2>2. CASE Specify(i) \/ SpecifyRejected(i) \/ SpecifyFails(i) \/ Prepare(i)
        BY <1>1, <1>2, <2>2, SpecifyOne, RevalidationOne, PrepareOne
    <2>3. CASE Request(i) \/ RequestFails(i) \/ Answer(i)
        BY <1>1, <1>2, <2>3, RequestOne, RequestFailsOne, AnswerOne
    <2>4. CASE Lock(i) \/ SaveLate(i) \/ Insert(i) \/ Interrupt(i) \/ InsertFails(i)
        BY <1>1, <1>2, <2>4, LockOne, SaveLateOne, InsertOne, FailOwnOne, InsertFailsOne
           DEF Interrupt
    <2>5. CASE Report(i)
        BY <1>1, <1>2, <2>5, ReportOne
    <2>6. QED
        BY <1>4, <2>1, <2>2, <2>3, <2>4, <2>5 DEF Workflow
<1>5. CASE UNCHANGED vars
    BY <1>1, <1>2, <1>5 DEF vars, OneInv, Consistent, SavedOf
<1>6. CASE OtherWork
    <2>1. Consistent(i, job[i], writer, known, draft, listing) /\ Nobody # i /\ Elsewhere # i
        BY <1>1, Only
    <2>2. /\ known' = known /\ draft' = draft /\ listing' = listing /\ job' = job
          /\ writer # i /\ writer' # i
        BY <1>6, <2>1 DEF OtherWork
    <2>3. Consistent(i, job[i], writer', known, draft, listing)
        BY <2>1, <2>2 DEF Consistent
    <2>4. QED
        BY <1>1, <1>2, <2>2, <2>3 DEF OneInv, Consistent, SavedOf
<1>7. QED
    BY <1>1, <1>3, <1>4, <1>5, <1>6 DEF Next

\* Meters are marked missing by complete listings without them, and by nothing
\* else, in the only instance (device_service.py, discover).
THEOREM PresenceIsListed ==
    ASSUME NEW i, Instances = {i}
    PROVE  Spec => []PresentIsListed
<1>1. Spec => []OneInv
    BY InitialOne, InductiveOne, PTL DEF Spec
<1>2. OneInv => PresentIsListed
    <2>1. SUFFICES ASSUME OneInv PROVE PresentIsListed
        OBVIOUS
    <2>2. QED
        BY <2>1, Only DEF Consistent, PresentIsListed
<1>3. QED
    BY <1>1, <1>2, PTL

\* Readings are of meters whose supported specification was committed before,
\* in the only instance (reading_service.py, prepare_capture_phase).
THEOREM SpecifiedBeforeSaved ==
    ASSUME NEW i, Instances = {i}
    PROVE  Spec => []SupportedBeforeSaved
<1>1. Spec => []OneInv
    BY InitialOne, InductiveOne, PTL DEF Spec
<1>2. OneInv => SupportedBeforeSaved
    <2>1. SUFFICES ASSUME OneInv, NEW k \in Instances, NEW d \in Saved(k)
                   PROVE  known[d].cached /\ known[d].eligibility = "supported"
        BY DEF SupportedBeforeSaved
    <2>2. Consistent(k, job[k], writer, known, draft, listing) /\ d \in SavedOf(job[k])
        BY <2>1 DEF OneInv, Saved, SavedOf
    <2>3. QED
        BY <2>2 DEF Consistent, Usable
<1>3. QED
    BY <1>1, <1>2, PTL

-----------------------------------------------------------------------------
(* What is left of a run *)

\* A bound of the steps that a run still takes: each device to be specified
\* costs a wait and a write, each device to be asked for at most a request, an
\* answer, a lock and an insert.
Rest(j) ==
    LET asks == 4 * Cardinality(j.eligible)
        wait == IF j.blocked THEN 0 ELSE 1
    IN  CASE j.step = "list"    -> 6 * Cardinality(Devices) + 3 + wait
          [] j.step = "specify" -> 6 * Cardinality(j.todo) + asks + 1 + wait
          [] j.step = "request" -> asks + 1
          [] j.step = "waiting" -> asks + 4
          [] j.step = "save"    -> asks + 3
          [] j.step = "insert"  -> asks + 2
          [] j.step = "report"  -> 1
          [] OTHER -> 0

\* Only a write of metadata waits without looking at the deadline, and it has
\* begun before: what has been waited after it and what may still be waited are
\* together within busy_timeout.  The wait of a save ends with the deadline.
Bounded(j) ==
    /\ j.step = "list" => j.eligible = {}
    /\ j.blocked => /\ j.step = "list" \/ (j.step = "specify" /\ j.todo # {})
                    /\ j.overrun + j.hold <= SaveMax
    /\ j.step = "save" => j.hold <= j.left
    /\ Live(j) /\ j.left > 0 => j.overrun = 0
    /\ j.overrun <= SaveMax
    /\ j.overrun > 0 => j.usable = {}

EndInv == IInv /\ \A i \in Instances : Bounded(job[i])

Advances(i) == Rest(job[i])' < Rest(job[i]) /\ Bounded(job[i])'

\* A run that goes on with what time it had.
LEMMA StillBounded ==
    ASSUME NEW h, Bounded(h), Live(h), NEW j, j.overrun = h.overrun, j.left = h.left,
           j.usable = h.usable, ~j.blocked, j.step \notin {"list", "save"}
    PROVE  Bounded(j)
BY DEF Bounded

\* Sets of devices are finite.
LEMMA Counts ==
    ASSUME NEW S \in SUBSET Devices
    PROVE  /\ IsFiniteSet(S) /\ Cardinality(S) \in Nat /\ Cardinality(Devices) \in Nat
           /\ Cardinality(S) <= Cardinality(Devices)
           /\ S # {} => Cardinality(S) > 0
<1>1. IsFiniteSet(Devices) /\ IsFiniteSet(S)
    BY DevicesAssumption, FS_Subset
<1>2. Cardinality(S) \in Nat /\ Cardinality(Devices) \in Nat
    BY <1>1, FS_CardinalityType
<1>3. S # {} => Cardinality(S) # 0
    BY <1>1, FS_EmptySet
<1>4. QED
    BY <1>1, <1>2, <1>3, DevicesAssumption, FS_Subset

LEMMA OneLess ==
    ASSUME NEW S \in SUBSET Devices, NEW d \in S
    PROVE  Cardinality(S \ {d}) = Cardinality(S) - 1
<1>1. IsFiniteSet(S)
    BY Counts
<1>2. QED
    BY <1>1, FS_RemoveElement

LEMMA OneMore ==
    ASSUME NEW S \in SUBSET Devices, NEW d
    PROVE  Cardinality(S \cup {d}) <= Cardinality(S) + 1
<1>1. IsFiniteSet(S) /\ Cardinality(S) \in Nat
    BY Counts
<1>2. QED
    BY <1>1, FS_AddElement

LEMMA RestIs ==
    ASSUME NEW j \in Jobs
    PROVE  /\ Rest(j) \in Nat
           /\ Live(j) => Rest(j) > 0
           /\ ~Live(j) => Rest(j) = 0
           /\ j.step = "list" =>
                  Rest(j) = 6 * Cardinality(Devices) + (IF j.blocked THEN 3 ELSE 4)
           /\ j.step = "specify" =>
                  Rest(j) = 6 * Cardinality(j.todo) + 4 * Cardinality(j.eligible)
                            + (IF j.blocked THEN 1 ELSE 2)
           /\ j.step = "request" => Rest(j) = 4 * Cardinality(j.eligible) + 1
           /\ j.step = "waiting" => Rest(j) = 4 * Cardinality(j.eligible) + 4
           /\ j.step = "save" => Rest(j) = 4 * Cardinality(j.eligible) + 3
           /\ j.step = "insert" => Rest(j) = 4 * Cardinality(j.eligible) + 2
           /\ j.step = "report" => Rest(j) = 1
<1>1. PICK asks, todo, all, wait :
          /\ asks = 4 * Cardinality(j.eligible) /\ todo = Cardinality(j.todo)
          /\ all = Cardinality(Devices) /\ wait = IF j.blocked THEN 0 ELSE 1
    OBVIOUS
<1>2. asks \in Nat /\ todo \in Nat /\ all \in Nat /\ wait \in {0, 1}
    <2>1. /\ Cardinality(j.eligible) \in Nat /\ Cardinality(j.todo) \in Nat
          /\ Cardinality(Devices) \in Nat
        BY Counts DEF Jobs
    <2>2. QED
        BY <1>1, <2>1
<1>3. j.step \in Steps
    BY DEF Jobs
<1>4. Rest(j) = CASE j.step = "list"    -> 6 * all + 3 + wait
                  [] j.step = "specify" -> 6 * todo + asks + 1 + wait
                  [] j.step = "request" -> asks + 1
                  [] j.step = "waiting" -> asks + 4
                  [] j.step = "save"    -> asks + 3
                  [] j.step = "insert"  -> asks + 2
                  [] j.step = "report"  -> 1
                  [] OTHER -> 0
    BY <1>1 DEF Rest
<1>5. wait = 0 <=> j.blocked
    BY <1>1
<1>6. QED
    BY <1>1, <1>2, <1>3, <1>4, <1>5 DEF Live, Steps

LEMMA Now ==
    ASSUME IInv, NEW i \in Instances, NEW j, Become(i, j)
    PROVE  job'[i] = j
BY DEF IInv, TypeOK, Become

\* A run that ends.
LEMMA EndsAdvance ==
    ASSUME EndInv, NEW i \in Instances, Live(job[i]), NEW j \in Jobs,
           j.overrun = job[i].overrun, j.usable = job[i].usable,
           NEW step \in {"done", "failed"}, Become(i, Over(j, step))
    PROVE  Advances(i)
<1>1. PICK o : o = Over(j, step)
    OBVIOUS
<1>2. /\ o \in Jobs /\ o.step = step /\ o.overrun = j.overrun /\ o.usable = j.usable
      /\ ~o.blocked
    BY <1>1, OverKeeps
<1>3. IInv /\ Bounded(job[i])
    BY DEF EndInv
<1>4. job'[i] = o
    BY <1>1, <1>3, Now
<1>5. Rest(o) = 0 /\ Bounded(o)
    BY <1>2, <1>3, RestIs DEF Live, Bounded
<1>6. Rest(job[i]) > 0
    BY <1>3, Own, RestIs
<1>7. Rest(job[i])' = Rest(o) /\ Bounded(job[i])' = Bounded(o)
    BY <1>4 DEF Rest, Bounded, Live
<1>8. QED
    BY <1>5, <1>6, <1>7 DEF Advances

LEMMA FailAdvances ==
    ASSUME EndInv, NEW i \in Instances, Live(job[i]), Fail(i, job[i])
    PROVE  Advances(i)
BY Own, EndsAdvance DEF Fail, EndInv

\* A run that goes on.
LEMMA StepsAdvance ==
    ASSUME IInv, NEW i \in Instances, NEW j \in Jobs, Become(i, j),
           Rest(j) < Rest(job[i]), Bounded(j)
    PROVE  Advances(i)
<1>1. job'[i] = j
    BY Now
<1>2. Rest(job[i])' = Rest(j) /\ Bounded(job[i])' = Bounded(j)
    BY <1>1 DEF Rest, Bounded, Live
<1>3. QED
    BY <1>2 DEF Advances

LEMMA DiscoverAdvances ==
    ASSUME EndInv, NEW i \in Instances, Discover(i)
    PROVE  Advances(i)
<1>1. PICK h : h = job[i]
    OBVIOUS
<1>2. IInv /\ h \in Jobs /\ h.step = "list" /\ h.eligible = {} /\ Bounded(h) /\ Live(h)
    BY <1>1, Own DEF EndInv, Bounded, Discover, At, Live
<1>3. PICK listed \in SUBSET Devices :
          Become(i, [h EXCEPT !.step = "specify", !.blocked = FALSE, !.hold = 0,
                              !.todo = listed, !.listed = listed])
    BY <1>1 DEF Discover
<1>4. PICK j : j = [h EXCEPT !.step = "specify", !.blocked = FALSE, !.hold = 0,
                             !.todo = listed, !.listed = listed]
    OBVIOUS
<1>5. 0 \in 0..SaveMax
    BY BoundsAssumption
<1>6. /\ j \in Jobs /\ j.step = "specify" /\ j.todo = listed /\ j.eligible = {}
      /\ ~j.blocked /\ j.overrun = h.overrun /\ j.left = h.left /\ j.usable = h.usable
    BY <1>2, <1>4, <1>5 DEF Jobs, Steps
<1>7. /\ Rest(j) = 6 * Cardinality(listed) + 4 * Cardinality({}) + 2
      /\ Rest(h) >= 6 * Cardinality(Devices) + 3
    <2>1. PICK n : n = Cardinality(Devices)
        OBVIOUS
    <2>2. n \in Nat
        BY <2>1, Counts
    <2>3. Rest(h) \in {6 * n + 3, 6 * n + 4}
        BY <1>2, <2>1, RestIs
    <2>4. Rest(h) >= 6 * n + 3
        BY <2>2, <2>3
    <2>5. Rest(j) = 6 * Cardinality(listed) + 4 * Cardinality({}) + 2
        BY <1>6, RestIs
    <2>6. QED
        BY <2>1, <2>4, <2>5
<1>8. /\ Cardinality({}) = 0 /\ Cardinality(listed) \in Nat /\ Cardinality(Devices) \in Nat
      /\ Cardinality(listed) <= Cardinality(Devices)
    BY Counts, FS_EmptySet
<1>9. Rest(j) < Rest(h)
    <2>1. Rest(h) \in Nat
        BY <1>2, RestIs
    <2>2. QED
        BY <1>7, <1>8, <2>1
<1>10. Bounded(j)
    BY <1>2, <1>6, StillBounded
<1>11. QED
    BY <1>1, <1>2, <1>3, <1>4, <1>6, <1>9, <1>10, StepsAdvance

\* A wait for the write lock starts, before the deadline.
LEMMA BlockAdvances ==
    ASSUME EndInv, NEW i \in Instances, Block(i)
    PROVE  Advances(i)
<1>1. PICK h, j : h = job[i] /\ j = [job[i] EXCEPT !.blocked = TRUE, !.hold = SaveMax]
    OBVIOUS
<1>2. /\ IInv /\ h \in Jobs /\ Bounded(h) /\ Live(h) /\ ~h.blocked
      /\ h.step = "list" \/ (h.step = "specify" /\ h.todo # {})
    BY <1>1, Own DEF EndInv, Block, At, Live
<1>3. SaveMax \in 0..SaveMax /\ SaveMax \in Nat
    BY BoundsAssumption
<1>4. /\ j \in Jobs /\ j.step = h.step /\ j.todo = h.todo /\ j.eligible = h.eligible
      /\ j.overrun = h.overrun /\ j.left = h.left /\ j.usable = h.usable
      /\ j.blocked /\ j.hold = SaveMax
    BY <1>1, <1>2, <1>3 DEF Jobs
<1>5. h.overrun = 0
    <2>1. h.left > 0
        BY <1>1, <1>2 DEF Block, Stopped, Jobs
    <2>2. QED
        BY <1>2, <2>1 DEF Bounded
<1>6. Bounded(j)
    BY <1>2, <1>3, <1>4, <1>5 DEF Bounded, Live
<1>7. Rest(j) < Rest(h)
    <2>1. /\ Cardinality(h.todo) \in Nat /\ Cardinality(h.eligible) \in Nat
          /\ Cardinality(Devices) \in Nat
        BY <1>2, Counts DEF Jobs
    <2>2. CASE h.step = "list"
        <3>1. /\ Rest(h) = 6 * Cardinality(Devices) + 4
              /\ Rest(j) = 6 * Cardinality(Devices) + 3
            BY <1>2, <1>4, <2>2, RestIs
        <3>2. QED
            BY <2>1, <3>1
    <2>3. CASE h.step = "specify"
        <3>1. /\ Rest(h) = 6 * Cardinality(h.todo) + 4 * Cardinality(h.eligible) + 2
              /\ Rest(j) = 6 * Cardinality(h.todo) + 4 * Cardinality(h.eligible) + 1
            BY <1>2, <1>4, <2>3, RestIs
        <3>2. QED
            BY <2>1, <3>1
    <2>4. QED
        BY <1>2, <2>2, <2>3
<1>8. Become(i, j)
    BY <1>1 DEF Block
<1>9. QED
    BY <1>1, <1>2, <1>4, <1>6, <1>7, <1>8, StepsAdvance

\* A device is specified, or left out of the refresh.
LEMMA SpecifiedAdvances ==
    ASSUME EndInv, NEW i \in Instances, At(i, "specify"), NEW d \in job[i].todo,
           NEW S \in SUBSET {d}, Become(i, Specified(i, d, S))
    PROVE  Advances(i)
<1>1. PICK h, j : h = job[i] /\ j = Specified(i, d, S)
    OBVIOUS
<1>2. /\ IInv /\ h \in Jobs /\ h.step = "specify" /\ d \in h.todo /\ h.todo \in SUBSET Devices
      /\ S \in SUBSET Devices /\ Bounded(h) /\ Live(h)
    BY <1>1, Own DEF EndInv, At, Jobs, Live
<1>3. /\ j \in Jobs /\ j.step = "specify" /\ j.todo = h.todo \ {d}
      /\ j.eligible = h.eligible \cup S /\ ~j.blocked /\ j.left = h.left
      /\ j.overrun = h.overrun /\ j.usable = h.usable
    BY <1>1, <1>2, SpecifiedJob
<1>4. /\ IsFiniteSet(h.todo) /\ IsFiniteSet(h.eligible) /\ Cardinality(h.todo) \in Nat
      /\ Cardinality(h.eligible) \in Nat /\ Cardinality(j.eligible) \in Nat
    BY <1>2, <1>3, Counts DEF Jobs
<1>5. Cardinality(j.todo) = Cardinality(h.todo) - 1
    BY <1>2, <1>3, OneLess
<1>6. Cardinality(j.eligible) <= Cardinality(h.eligible) + 1
    <2>1. S = {} \/ S = {d}
        OBVIOUS
    <2>2. CASE S = {}
        BY <1>3, <1>4, <2>2
    <2>3. CASE S = {d}
        BY <1>2, <1>3, <2>3, OneMore DEF Jobs
    <2>4. QED
        BY <2>1, <2>2, <2>3
<1>7. /\ Rest(j) = 6 * Cardinality(j.todo) + 4 * Cardinality(j.eligible) + 2
      /\ Rest(h) >= 6 * Cardinality(h.todo) + 4 * Cardinality(h.eligible) + 1
    <2>1. PICK m, n : m = Cardinality(h.todo) /\ n = Cardinality(h.eligible)
        OBVIOUS
    <2>2. Rest(h) \in {6 * m + 4 * n + 1, 6 * m + 4 * n + 2}
        BY <1>2, <2>1, RestIs
    <2>3. Rest(h) >= 6 * m + 4 * n + 1
        BY <1>4, <2>1, <2>2
    <2>4. Rest(j) = 6 * Cardinality(j.todo) + 4 * Cardinality(j.eligible) + 2
        BY <1>3, RestIs
    <2>5. QED
        BY <2>1, <2>3, <2>4
<1>8. Rest(j) < Rest(h)
    <2>1. Rest(h) \in Nat
        BY <1>2, RestIs
    <2>2. QED
        BY <1>4, <1>5, <1>6, <1>7, <2>1
<1>9. Bounded(j)
    BY <1>2, <1>3, StillBounded
<1>10. QED
    BY <1>1, <1>2, <1>3, <1>8, <1>9, StepsAdvance

LEMMA SpecifyAdvances ==
    ASSUME EndInv, NEW i \in Instances,
           Specify(i) \/ SpecifyRejected(i) \/ SpecifyFails(i)
    PROVE  Advances(i)
<1>1. At(i, "specify") /\ Live(job[i])
    BY DEF Specify, SpecifyRejected, SpecifyFails, At, Live
<1>2. CASE Specify(i)
    BY <1>1, <1>2, SpecifiedAdvances DEF Specify
<1>3. CASE SpecifyRejected(i)
    BY <1>1, <1>3, SpecifiedAdvances, FailAdvances DEF SpecifyRejected
<1>4. CASE SpecifyFails(i)
    BY <1>1, <1>4, SpecifiedAdvances, FailAdvances DEF SpecifyFails
<1>5. QED
    BY <1>2, <1>3, <1>4

LEMMA PrepareAdvances ==
    ASSUME EndInv, NEW i \in Instances, Prepare(i)
    PROVE  Advances(i)
<1>1. PICK h : h = job[i]
    OBVIOUS
<1>2. /\ IInv /\ h \in Jobs /\ h.step = "specify" /\ h.todo = {}
      /\ Bounded(h) /\ Live(h) /\ ~h.blocked
    BY <1>1, Own DEF Prepare, At, EndInv, Bounded, Live
<1>3. PICK step \in {"report", "request"} : Become(i, [h EXCEPT !.step = step])
    BY <1>1 DEF Prepare
<1>4. PICK j : j = [h EXCEPT !.step = step]
    OBVIOUS
<1>5. /\ j \in Jobs /\ j.step = step /\ j.eligible = h.eligible /\ ~j.blocked
      /\ j.left = h.left /\ j.overrun = h.overrun /\ j.usable = h.usable
    BY <1>2, <1>4 DEF Jobs, Steps
<1>6. /\ Rest(h) = 6 * Cardinality({}) + 4 * Cardinality(h.eligible) + 2
      /\ Rest(j) \in {1, 4 * Cardinality(h.eligible) + 1}
    BY <1>2, <1>3, <1>5, RestIs
<1>7. Cardinality({}) = 0 /\ Cardinality(h.eligible) \in Nat
    BY <1>2, Counts, FS_EmptySet DEF Jobs
<1>8. Rest(j) < Rest(h)
    BY <1>6, <1>7
<1>9. Bounded(j)
    BY <1>2, <1>3, <1>5, StillBounded
<1>10. QED
    BY <1>1, <1>2, <1>3, <1>4, <1>5, <1>8, <1>9, StepsAdvance

LEMMA RequestAdvances ==
    ASSUME EndInv, NEW i \in Instances, Request(i)
    PROVE  Advances(i)
<1>1. PICK h : h = job[i]
    OBVIOUS
<1>2. /\ IInv /\ h \in Jobs /\ h.step = "request" /\ Live(h) /\ ~h.blocked /\ Bounded(h)
      /\ h.eligible \in SUBSET Devices /\ h.eligible # {}
    BY <1>1, Own DEF EndInv, Bounded, Request, At, Live, Jobs
<1>3. CASE Fail(i, job[i])
    BY <1>1, <1>2, <1>3, FailAdvances
<1>4. CASE ~Fail(i, job[i])
    <2>1. PICK chunk \in SUBSET h.eligible :
             /\ Cardinality(chunk) = Least(ChunkSize, Cardinality(h.eligible))
             /\ Become(i, [h EXCEPT !.step = "waiting", !.due = RemoteTime(i),
                                    !.eligible = h.eligible \ chunk, !.chunk = chunk])
        BY <1>1, <1>4 DEF Request
    <2>2. PICK j : j = [h EXCEPT !.step = "waiting", !.due = RemoteTime(i),
                                 !.eligible = h.eligible \ chunk, !.chunk = chunk]
        OBVIOUS
    <2>3. RemoteTime(i) \in 0..RemoteMax
        <3>1. h.left \in Nat /\ RemoteMax \in Nat /\ Reserve \in Nat
            BY <1>2, BoundsAssumption DEF Jobs
        <3>2. QED
            BY <1>1, <3>1 DEF RemoteTime, Least
    <2>4. /\ j \in Jobs /\ j.step = "waiting" /\ j.eligible = h.eligible \ chunk
          /\ ~j.blocked /\ j.left = h.left /\ j.overrun = h.overrun /\ j.usable = h.usable
        BY <1>2, <2>2, <2>3 DEF Jobs, Steps
    <2>5. /\ IsFiniteSet(h.eligible) /\ Cardinality(h.eligible) \in Nat
          /\ Cardinality(h.eligible) > 0 /\ Cardinality(j.eligible) \in Nat
        BY <1>2, <2>4, Counts DEF Jobs
    <2>6. Cardinality(j.eligible) < Cardinality(h.eligible)
        <3>1. Cardinality(chunk) > 0
            BY <2>1, <2>5, BoundsAssumption DEF Least
        <3>2. chunk # {}
            BY <3>1, FS_EmptySet
        <3>3. j.eligible \in SUBSET h.eligible /\ j.eligible # h.eligible
            BY <2>1, <2>4, <3>2
        <3>4. QED
            BY <2>5, <3>3, FS_Subset
    <2>7. /\ Rest(h) = 4 * Cardinality(h.eligible) + 1
          /\ Rest(j) = 4 * Cardinality(j.eligible) + 4
        BY <1>2, <2>4, RestIs
    <2>8. Rest(j) < Rest(h)
        BY <2>5, <2>6, <2>7
    <2>9. Bounded(j)
        BY <1>2, <2>4, StillBounded
    <2>10. QED
        BY <1>1, <1>2, <2>1, <2>2, <2>4, <2>8, <2>9, StepsAdvance
<1>5. QED
    BY <1>3, <1>4

\* Between the request of a chunk and the next nothing becomes eligible.
LEMMA ResponseAdvances ==
    ASSUME IInv, NEW i \in Instances, NEW j \in Jobs, Become(i, j),
           j.eligible = job[i].eligible, Bounded(j),
           \/ At(i, "waiting") /\ j.step \in {"save", "insert", "request", "report"}
           \/ At(i, "save") /\ j.step \in {"insert", "request", "report"}
           \/ At(i, "insert") /\ j.step \in {"request", "report"}
    PROVE  Advances(i)
<1>1. PICK h, n : h = job[i] /\ n = Cardinality(job[i].eligible)
    OBVIOUS
<1>2. h \in Jobs /\ n \in Nat /\ n = Cardinality(j.eligible) /\ n = Cardinality(h.eligible)
    BY <1>1, Own, Counts DEF Jobs
<1>3. Rest(j) < Rest(h)
    <2>1. CASE At(i, "waiting") /\ j.step \in {"save", "insert", "request", "report"}
        <3>1. Rest(h) = 4 * n + 4
            BY <1>1, <1>2, <2>1, RestIs DEF At
        <3>2. Rest(j) \in {4 * n + 3, 4 * n + 2, 4 * n + 1, 1}
            BY <1>2, <2>1, RestIs
        <3>3. QED
            BY <1>2, <3>1, <3>2
    <2>2. CASE At(i, "save") /\ j.step \in {"insert", "request", "report"}
        <3>1. Rest(h) = 4 * n + 3
            BY <1>1, <1>2, <2>2, RestIs DEF At
        <3>2. Rest(j) \in {4 * n + 2, 4 * n + 1, 1}
            BY <1>2, <2>2, RestIs
        <3>3. QED
            BY <1>2, <3>1, <3>2
    <2>3. CASE At(i, "insert") /\ j.step \in {"request", "report"}
        <3>1. Rest(h) = 4 * n + 2
            BY <1>1, <1>2, <2>3, RestIs DEF At
        <3>2. Rest(j) \in {4 * n + 1, 1}
            BY <1>2, <2>3, RestIs
        <3>3. QED
            BY <1>2, <3>1, <3>2
    <2>4. QED
        BY <2>1, <2>2, <2>3
<1>4. QED
    BY <1>1, <1>3, StepsAdvance

LEMMA AnswerAdvances ==
    ASSUME EndInv, NEW i \in Instances, Answer(i)
    PROVE  Advances(i)
<1>1. PICK h, hold : h = job[i] /\ hold = Least(SaveMax, job[i].left)
    OBVIOUS
<1>2. /\ IInv /\ h \in Jobs /\ h.step = "waiting" /\ h.chunk \in SUBSET Devices
      /\ Sound(h) /\ Bounded(h) /\ Live(h) /\ ~h.blocked /\ h.due > 0
    BY <1>1, Own DEF EndInv, Answer, At, Jobs, Bounded, Live
<1>3. hold \in 0..SaveMax /\ hold <= h.left
    <2>1. h.left \in Nat /\ SaveMax \in Nat
        BY <1>2, BoundsAssumption DEF Jobs
    <2>2. QED
        BY <1>1, <2>1 DEF Least
<1>4. PICK usable \in SUBSET h.chunk, step \in {"save", "request", "report"} :
         Become(i, [h EXCEPT !.step = step, !.hold = hold, !.due = 0, !.chunk = {},
                             !.pending = usable, !.usable = @ \cup usable])
    BY <1>1 DEF Answer
<1>5. PICK all : all = h.usable \cup usable
    OBVIOUS
<1>6. all \in SUBSET Devices /\ usable \in SUBSET Devices /\ 0 \in 0..RemoteMax
    BY <1>2, <1>5, BoundsAssumption DEF Jobs
<1>7. PICK j : j = [h EXCEPT !.step = step, !.hold = hold, !.due = 0, !.chunk = {},
                             !.pending = usable, !.usable = all]
    OBVIOUS
<1>8. /\ j \in Jobs /\ j.step = step /\ j.eligible = h.eligible /\ j.hold = hold
      /\ j.left = h.left /\ j.overrun = h.overrun /\ ~j.blocked
    BY <1>2, <1>3, <1>6, <1>7 DEF Jobs, Steps
<1>9. h.overrun = 0
    <2>1. h.left \in Nat /\ h.due \in Nat /\ Reserve \in Nat /\ h.left >= h.due + Reserve
        BY <1>2, BoundsAssumption DEF Sound, Jobs
    <2>2. h.left > 0
        BY <1>2, <2>1
    <2>3. QED
        BY <1>2, <2>2 DEF Bounded
<1>10. Bounded(j)
    BY <1>3, <1>4, <1>8, <1>9, BoundsAssumption DEF Bounded
<1>11. Become(i, j)
    BY <1>4, <1>5, <1>7
<1>12. QED
    BY <1>1, <1>2, <1>8, <1>10, <1>11, ResponseAdvances DEF At

LEMMA RequestFailsAdvances ==
    ASSUME EndInv, NEW i \in Instances, RequestFails(i)
    PROVE  Advances(i)
<1>1. /\ IInv /\ At(i, "waiting") /\ job[i] \in Jobs /\ Live(job[i])
      /\ ~job[i].blocked /\ Bounded(job[i])
    BY Own DEF EndInv, RequestFails, At, Live, Bounded
<1>2. CASE Fail(i, job[i])
    BY <1>1, <1>2, FailAdvances
<1>3. CASE Become(i, [job[i] EXCEPT !.step = "request", !.due = 0, !.chunk = {}])
    <2>1. PICK j : j = [job[i] EXCEPT !.step = "request", !.due = 0, !.chunk = {}]
        OBVIOUS
    <2>2. 0 \in 0..RemoteMax
        BY BoundsAssumption
    <2>3. /\ j \in Jobs /\ j.step = "request" /\ j.eligible = job[i].eligible /\ ~j.blocked
          /\ j.left = job[i].left /\ j.overrun = job[i].overrun /\ j.usable = job[i].usable
        BY <1>1, <2>1, <2>2 DEF Jobs, Steps
    <2>4. Bounded(j)
        BY <1>1, <2>3, StillBounded
    <2>5. QED
        BY <1>1, <1>3, <2>1, <2>3, <2>4, ResponseAdvances
<1>4. QED
    BY <1>2, <1>3 DEF RequestFails

LEMMA LockAdvances ==
    ASSUME EndInv, NEW i \in Instances, Lock(i) \/ SaveLate(i)
    PROVE  Advances(i)
<1>1. PICK h, late : h = job[i] /\ late = [job[i] EXCEPT !.excuse = "late"]
    OBVIOUS
<1>2. /\ IInv /\ h \in Jobs /\ At(i, "save") /\ Live(h) /\ Bounded(h) /\ ~h.blocked
    BY <1>1, Own DEF EndInv, Lock, SaveLate, At, Live, Bounded
<1>3. /\ late \in Jobs /\ late.eligible = h.eligible /\ late.left = h.left
      /\ late.overrun = h.overrun /\ late.usable = h.usable /\ ~late.blocked
    BY <1>1, <1>2 DEF Jobs
<1>4. CASE Become(i, [h EXCEPT !.step = "insert", !.hold = 0])
    <2>1. PICK j : j = [h EXCEPT !.step = "insert", !.hold = 0]
        OBVIOUS
    <2>2. 0 \in 0..SaveMax
        BY BoundsAssumption
    <2>3. /\ j \in Jobs /\ j.step = "insert" /\ j.eligible = h.eligible /\ ~j.blocked
          /\ j.left = h.left /\ j.overrun = h.overrun /\ j.usable = h.usable
        BY <1>2, <2>1, <2>2 DEF Jobs, Steps
    <2>4. Bounded(j)
        BY <1>2, <2>3, StillBounded
    <2>5. QED
        BY <1>1, <1>2, <1>4, <2>1, <2>3, <2>4, ResponseAdvances
<1>5. CASE Fail(i, late)
    BY <1>1, <1>2, <1>3, <1>5, EndsAdvance DEF Fail
<1>6. CASE Become(i, [late EXCEPT !.step = "report"])
    <2>1. PICK j : j = [late EXCEPT !.step = "report"]
        OBVIOUS
    <2>2. /\ j \in Jobs /\ j.step = "report" /\ j.eligible = h.eligible /\ ~j.blocked
          /\ j.left = h.left /\ j.overrun = h.overrun /\ j.usable = h.usable
        BY <1>3, <2>1 DEF Jobs, Steps
    <2>3. Bounded(j)
        BY <1>2, <2>2, StillBounded
    <2>4. QED
        BY <1>1, <1>2, <1>6, <2>1, <2>2, <2>3, ResponseAdvances
<1>7. QED
    BY <1>1, <1>4, <1>5, <1>6 DEF Lock, SaveLate

LEMMA InsertAdvances ==
    ASSUME EndInv, NEW i \in Instances, Insert(i)
    PROVE  Advances(i)
<1>1. PICK h : h = job[i]
    OBVIOUS
<1>2. /\ IInv /\ h \in Jobs /\ h.step = "insert" /\ h.pending \in SUBSET Devices
      /\ Bounded(h) /\ Live(h) /\ ~h.blocked
    BY <1>1, Own DEF EndInv, Insert, At, Jobs, Bounded, Live
<1>3. PICK captured, inserted, rows :
          /\ captured = h.captured \cup h.pending
          /\ inserted = h.inserted + Cardinality(h.pending)
          /\ rows = [d \in Devices |-> IF d \in h.pending THEN h.rows[d] + 1 ELSE h.rows[d]]
    OBVIOUS
<1>4. captured \in SUBSET Devices /\ inserted \in Nat /\ rows \in [Devices -> Nat]
    <2>1. /\ h.captured \in SUBSET Devices /\ h.inserted \in Nat
          /\ Cardinality(h.pending) \in Nat /\ h.rows \in [Devices -> Nat]
        BY <1>2, Counts DEF Jobs
    <2>2. QED
        BY <1>2, <1>3, <2>1
<1>5. PICK step \in {"request", "report"} :
          step = IF h.kind = "refresh" THEN "request" ELSE "report"
    OBVIOUS
<1>6. PICK j : j = [h EXCEPT !.step = step, !.captured = captured, !.inserted = inserted,
                             !.rows = rows]
    OBVIOUS
<1>7. /\ j \in Jobs /\ j.step = step /\ j.eligible = h.eligible /\ ~j.blocked
      /\ j.left = h.left /\ j.overrun = h.overrun /\ j.usable = h.usable
    BY <1>2, <1>4, <1>6 DEF Jobs, Steps
<1>8. Become(i, j)
    BY <1>1, <1>3, <1>5, <1>6 DEF Insert
<1>9. Bounded(j)
    BY <1>2, <1>5, <1>7, StillBounded
<1>10. QED
    BY <1>1, <1>2, <1>7, <1>8, <1>9, ResponseAdvances DEF At

LEMMA InsertFailsAdvances ==
    ASSUME EndInv, NEW i \in Instances, InsertFails(i)
    PROVE  Advances(i)
<1>1. PICK j : j = [job[i] EXCEPT !.excuse = "database"]
    OBVIOUS
<1>2. /\ j \in Jobs /\ Live(job[i]) /\ Fail(i, j)
      /\ j.overrun = job[i].overrun /\ j.usable = job[i].usable
    BY <1>1, Own DEF EndInv, Jobs, InsertFails, At, Live
<1>3. QED
    BY <1>2, EndsAdvance DEF Fail

LEMMA WorkflowAdvances ==
    ASSUME EndInv, NEW i \in Instances, Workflow(i)
    PROVE  Advances(i)
<1>1. job[i] \in Jobs
    BY Own DEF EndInv
<1>2. CASE Checkpoint(i) \/ ListFails(i) \/ Interrupt(i)
    BY <1>2, FailAdvances DEF Checkpoint, ListFails, Interrupt, At, Live
<1>3. CASE Busy(i)
    BY <1>3, FailAdvances DEF Busy, EndInv, Bounded, Live
<1>4. CASE Report(i)
    BY <1>1, <1>4, EndsAdvance DEF Report, At, Live
<1>5. CASE Specify(i) \/ SpecifyRejected(i) \/ SpecifyFails(i) \/ Prepare(i)
              \/ Discover(i) \/ Block(i)
    BY <1>5, SpecifyAdvances, PrepareAdvances, DiscoverAdvances, BlockAdvances
<1>6. CASE Request(i) \/ RequestFails(i) \/ Answer(i)
    BY <1>6, RequestAdvances, RequestFailsAdvances, AnswerAdvances
<1>7. CASE Lock(i) \/ SaveLate(i) \/ Insert(i) \/ InsertFails(i)
    BY <1>7, LockAdvances, InsertAdvances, InsertFailsAdvances
<1>8. QED
    BY <1>2, <1>3, <1>4, <1>5, <1>6, <1>7 DEF Workflow

\* A cancel and the clock leave the run where it is.
LEMMA CancelKeepsRest ==
    ASSUME EndInv, NEW i \in Instances, Cancel(i)
    PROVE  Rest(job[i])' = Rest(job[i]) /\ Bounded(job[i])'
<1>1. PICK h, j : h = job[i] /\ j = [h EXCEPT !.cancelled = TRUE] /\ Become(i, j)
    BY DEF Cancel
<1>2. IInv /\ h \in Jobs /\ Bounded(h)
    BY <1>1, Own DEF EndInv
<1>3. /\ j.step = h.step /\ j.todo = h.todo /\ j.eligible = h.eligible
      /\ j.blocked = h.blocked /\ j.hold = h.hold /\ j.left = h.left
      /\ j.overrun = h.overrun /\ j.usable = h.usable
    BY <1>1, <1>2 DEF Jobs
<1>4. Rest(j) = Rest(h) /\ Bounded(j)
    BY <1>2, <1>3 DEF Rest, Bounded, Live
<1>5. job'[i] = j
    BY <1>1, <1>2, Now
<1>6. QED
    BY <1>1, <1>4, <1>5 DEF Rest, Bounded, Live

LEMMA TickKeepsRest ==
    ASSUME EndInv, NEW i \in Instances, Tick(i)
    PROVE  Rest(job[i])' = Rest(job[i]) /\ Bounded(job[i])'
<1>1. PICK h, j : h = job[i] /\ j = Pass(i, h) /\ Become(i, j)
    BY DEF Tick
<1>2. IInv /\ h \in Jobs /\ Bounded(h) /\ Live(h) /\ Sound(h)
    BY <1>1, Own DEF EndInv, Tick, Running, Live
<1>3. PICK left, due, hold, overrun :
          /\ left = IF h.left > 0 THEN h.left - 1 ELSE 0
          /\ due = IF h.due > 0 THEN h.due - 1 ELSE 0
          /\ hold = IF h.hold > 0 THEN h.hold - 1 ELSE 0
          /\ overrun = IF h.left = 0 THEN h.overrun + 1 ELSE h.overrun
    OBVIOUS
<1>4. j = [h EXCEPT !.left = left, !.due = due, !.hold = hold, !.overrun = overrun]
    BY <1>1, <1>3 DEF Pass
<1>5. /\ j.step = h.step /\ j.todo = h.todo /\ j.eligible = h.eligible
      /\ j.blocked = h.blocked /\ j.hold = hold /\ j.left = left
      /\ j.overrun = overrun /\ j.usable = h.usable
    BY <1>2, <1>4 DEF Jobs
<1>6. h.left \in Nat /\ h.hold \in Nat /\ h.overrun \in Nat /\ SaveMax \in Nat
    BY <1>2, BoundsAssumption DEF Jobs
<1>7. ASSUME h.left > 0 PROVE Bounded(j)
    <2>1. overrun = 0 /\ hold <= h.hold /\ (h.hold <= h.left => hold <= left)
        BY <1>2, <1>3, <1>6, <1>7 DEF Bounded
    <2>2. h.overrun = 0 /\ hold \in Nat
        BY <1>2, <1>3, <1>6, <1>7 DEF Bounded
    <2>3. QED
        BY <1>2, <1>5, <1>6, <2>1, <2>2 DEF Bounded, Live
<1>8. ASSUME h.left = 0 PROVE Bounded(j)
    <2>1. h.blocked /\ h.hold > 0
        BY <1>1, <1>2, <1>6, <1>8 DEF Tick, Waits, At, Bounded
    <2>2. left = 0 /\ hold = h.hold - 1 /\ overrun = h.overrun + 1
        BY <1>3, <1>6, <1>8, <2>1
    <2>3. h.step \in {"list", "specify"} /\ h.overrun + h.hold <= SaveMax
        BY <1>2, <2>1 DEF Bounded
    <2>4. h.usable = {}
        BY <1>2, <2>3 DEF Sound
    <2>5. overrun + hold <= SaveMax /\ overrun <= SaveMax
        BY <1>6, <2>1, <2>2, <2>3
    <2>6. QED
        BY <1>2, <1>5, <1>6, <2>1, <2>2, <2>3, <2>4, <2>5 DEF Bounded, Live
<1>9. Bounded(j)
    BY <1>6, <1>7, <1>8
<1>10. Rest(j) = Rest(h)
    BY <1>5 DEF Rest
<1>11. job'[i] = j
    BY <1>1, <1>2, Now
<1>12. QED
    BY <1>1, <1>9, <1>10, <1>11 DEF Rest, Bounded, Live

\* A step of one instance is no step of another's run.
LEMMA OthersStay ==
    ASSUME IInv, NEW i \in Instances, NEW n \in Instances, n # i,
           Begin(i) \/ Cancel(i) \/ Tick(i) \/ Workflow(i)
    PROVE  job'[n] = job[n]
<1>1. PICK j : Become(i, j)
    BY DEF Begin, Cancel, Tick, Workflow, Checkpoint, ListFails, Discover, Block, Busy,
           Specify, SpecifyRejected, SpecifyFails, Prepare, Request, RequestFails, Answer, Lock,
           SaveLate, Insert, Interrupt, InsertFails, Report, Fail
<1>2. QED
    BY <1>1 DEF Become, IInv, TypeOK

LEMMA BeginBounded ==
    ASSUME IInv, NEW i \in Instances, Begin(i)
    PROVE  Bounded(job[i])'
<1>1. PICK j : /\ Become(i, j)
               /\ \/ j = [NewJob EXCEPT !.step = "list"]
                  \/ \E d \in Devices :
                        j = [NewJob EXCEPT !.kind = "status", !.step = "specify",
                                           !.todo = {d}, !.stale = known[d].present]
    BY DEF Begin
<1>2. /\ j.step # "save" /\ (j.step = "list" => j.eligible = {})
      /\ ~j.blocked /\ j.overrun = 0
    BY <1>1 DEF NewJob
<1>3. job'[i] = j
    BY <1>1, Now
<1>4. QED
    BY <1>2, <1>3, BoundsAssumption DEF Bounded

LEMMA EndInvariant == Spec => []EndInv
<1>1. Init => EndInv
    <2>1. SUFFICES ASSUME Init PROVE \A i \in Instances : Bounded(job[i])
        BY Initial DEF EndInv
    <2>2. \A i \in Instances : job[i] = NewJob
        BY <2>1 DEF Init
    <2>3. NewJob.step = "idle" /\ ~NewJob.blocked /\ NewJob.overrun = 0
        BY DEF NewJob
    <2>4. QED
        BY <2>2, <2>3, BoundsAssumption DEF Bounded, Live
<1>2. EndInv /\ [Next]_vars => EndInv'
    <2>1. SUFFICES ASSUME EndInv, [Next]_vars, NEW n \in Instances PROVE Bounded(job[n])'
        BY Inductive DEF EndInv
    <2>2. CASE UNCHANGED vars \/ OtherWork
        <3>1. job'[n] = job[n] /\ Bounded(job[n])
            BY <2>1, <2>2 DEF vars, OtherWork, EndInv
        <3>2. QED
            BY <3>1 DEF Bounded, Live
    <2>3. ASSUME NEW i \in Instances, Begin(i) \/ Cancel(i) \/ Tick(i) \/ Workflow(i)
          PROVE  Bounded(job[n])'
        <3>1. Bounded(job[i])'
            BY <2>1, <2>3, BeginBounded, CancelKeepsRest, TickKeepsRest, WorkflowAdvances
               DEF EndInv, Advances
        <3>2. n # i => job'[n] = job[n] /\ Bounded(job[n])
            BY <2>1, <2>3, OthersStay DEF EndInv
        <3>3. QED
            BY <2>1, <3>1, <3>2 DEF Bounded, Live
    <2>4. QED
        BY <2>1, <2>2, <2>3 DEF Next
<1>3. QED
    BY <1>1, <1>2, PTL DEF Spec

\* The write lock is given back at every end (connect, add_all), a save does
\* not wait for it beyond the deadline (add_all), and a write of metadata, which
\* waits as long as the connection's busy_timeout says, not longer beyond it.
THEOREM WaitsAreBounded == Spec => []LockShared
<1>1. EndInv => WaitsInTime
    BY DEF EndInv, Bounded, WaitsInTime
<1>2. QED
    BY <1>1, EndInvariant, LockIsReleased, PTL DEF LockShared

\* Each step of a refresh or a status, a failed request and a busy database
\* included, leaves fewer to come, and neither a cancel, the clock nor another
\* instance adds one: no run goes round in circles (the loop over chunks).
THEOREM RunsComeCloser ==
    Spec => [][\A i \in Instances : Running(i) =>
                  /\ Rest(job[i]) > 0
                  /\ Rest(job[i])' <= Rest(job[i])
                  /\ Workflow(i) => Rest(job[i])' < Rest(job[i])]_vars
<1>1. EndInv /\ [Next]_vars =>
        [\A i \in Instances : Running(i) =>
            /\ Rest(job[i]) > 0
            /\ Rest(job[i])' <= Rest(job[i])
            /\ Workflow(i) => Rest(job[i])' < Rest(job[i])]_vars
    <2>1. SUFFICES ASSUME EndInv, Next, NEW n \in Instances, Running(n)
          PROVE  /\ Rest(job[n]) > 0
                 /\ Rest(job[n])' <= Rest(job[n])
                 /\ Workflow(n) => Rest(job[n])' < Rest(job[n])
        OBVIOUS
    <2>2. IInv /\ job[n] \in Jobs /\ Live(job[n])
        BY <2>1, Own DEF EndInv, Running, Live
    <2>3. Rest(job[n]) \in Nat /\ Rest(job[n]) > 0
        BY <2>2, RestIs
    <2>4. Workflow(n) => Rest(job[n])' < Rest(job[n])
        BY <2>1, WorkflowAdvances DEF Advances
    <2>5. \/ OtherWork
          \/ \E i \in Instances : Begin(i) \/ Cancel(i) \/ Tick(i) \/ Workflow(i)
        BY <2>1 DEF Next
    <2>6. IInv'
        BY <2>1, <2>2, Inductive
    <2>7. Rest(job[n])' \in Nat
        <3>1. PICK k : k = job'[n]
            OBVIOUS
        <3>2. Rest(k) \in Nat
            BY <2>6, <3>1, RestIs DEF IInv, TypeOK
        <3>3. QED
            BY <3>1, <3>2 DEF Rest
    <2>8. CASE Begin(n) \/ Cancel(n) \/ Tick(n) \/ Workflow(n)
        BY <2>1, <2>3, <2>4, <2>7, <2>8, CancelKeepsRest, TickKeepsRest DEF Begin
    <2>9. CASE job'[n] = job[n]
        <3>1. Rest(job[n])' = Rest(job[n])
            BY <2>9 DEF Rest
        <3>2. QED
            BY <2>3, <2>4, <3>1
    <2>10. QED
        BY <2>2, <2>5, <2>8, <2>9, OthersStay DEF OtherWork
<1>2. QED
    BY <1>1, EndInvariant, PTL DEF Spec
=============================================================================
