---------------------------- MODULE CloudImport ----------------------------
(***************************************************************************)
(* services/cloud_history_service.py with import_cloud_daily of the        *)
(* readings repository: an import lists the events a meter reported in the *)
(* recent local days, keeps the earliest of each day, and gets or creates  *)
(* one reading per event and day in one transaction.  Several instances    *)
(* import into the same database; the time zone and the meter's            *)
(* specification may change between and during the imports.                *)
(*                                                                         *)
(* One meter.  An event is the time it was reported at and what it reads,  *)
(* the raw value and the code it is reported under: its external key.  The *)
(* cloud may correct an event, which is then another one of the same time. *)
(***************************************************************************)
EXTENDS Naturals, FiniteSetsExt

CONSTANTS Instances, Nobody,
          MaxTime,     \* bound on the clock
          DayLength,   \* time units of a day
          Zones,       \* time zones, as offsets in time units
          RecentDays,  \* RECENT_LOCAL_DAYS
          Raws,        \* what an event may read, the first value of its time first
          Corrected,   \* bound: the times whose events the cloud may correct
          Scales       \* scales the specification may announce

ASSUME NobodyAssumption == Nobody \notin Instances
ASSUME DaysAssumption == MaxTime \in Nat /\ DayLength \in Nat \ {0} /\ RecentDays \in Nat \ {0}
ASSUME ZonesAssumption == {Zones, Scales, Raws} \subseteq (SUBSET Nat) \ {{}}

Times == 0..MaxTime
LocalDate(t, z) == (t + z) \div DayLength
Dates == {LocalDate(t, z) : t \in Times, z \in Zones}

VARIABLES now, zone, scale,  \* clock, time zone and specification
          log,       \* events the cloud has to report, one of a time
          imported,  \* committed cloud_daily readings
          writer,    \* the instance whose write transaction is open
          job        \* the import of each instance

vars == <<now, zone, scale, log, imported, writer, job>>

Events == [time : Times, raw : Raws]
Candidates == [time : Times, raw : Raws, day : Dates]
Readings == [time : Times, raw : Raws, day : Dates, scale : Scales]
EventKey(e) == <<e.time, e.raw>>
Steps == {"idle", "list", "respecify", "lookup", "insert", "return"}

Jobs == [step : Steps,
         scale : Scales, zone : Zones, since : Times, until : Times,
         todo : SUBSET Candidates,      \* candidates not stored yet
         draft : SUBSET Readings,       \* rows of the open transaction
         candidates : SUBSET Candidates,
         skipped : SUBSET Events]       \* ghost: events of a candidate's day before it

NoJob == [step |-> "idle", scale |-> Min(Scales), zone |-> Min(Zones),
          since |-> 0, until |-> 0, todo |-> {}, draft |-> {}, candidates |-> {},
          skipped |-> {}]

Init == /\ now = 0 /\ zone \in Zones /\ scale = Min(Scales)
        /\ log = {} /\ imported = {} /\ writer = Nobody
        /\ job = [i \in Instances |-> NoJob]

Become(i, j) == job' = [job EXCEPT ![i] = j]
Running(i) == job[i].step # "idle"
At(i, step) == job[i].step = step
world == <<now, zone, scale, log>>
store == <<imported, writer>>

-----------------------------------------------------------------------------
(* The world around an import *)

Tick == /\ now < MaxTime /\ now' = now + 1
        /\ UNCHANGED <<zone, scale, log, store, job>>

TimesOf(events) == {e.time : e \in events}

\* The meter reports, or the cloud reveals an earlier event late.
Report == /\ \E t \in 0..now \ TimesOf(log) :
                log' = log \cup {[time |-> t, raw |-> Min(Raws)]}
          /\ UNCHANGED <<now, zone, scale, store, job>>

Chosen == imported \cup UNION {job[i].candidates : i \in Instances}

\* The cloud corrects an event that an import has chosen.  Any other might as
\* well have been reported so: only values of the same time are compared.
Correct == /\ \E e \in log : \E v \in Raws \ {e.raw} :
                 /\ e.time \in Corrected \cap TimesOf(Chosen)
                 /\ log' = (log \ {e}) \cup {[e EXCEPT !.raw = v]}
           /\ UNCHANGED <<now, zone, scale, store, job>>

ChangeZone == /\ zone' \in Zones \ {zone}
              /\ UNCHANGED <<now, scale, log, store, job>>

\* Only upwards: enough to tell the old specification from the new one.
ChangeScale == /\ scale' \in {n \in Scales : n > scale}
               /\ UNCHANGED <<now, zone, log, store, job>>

-----------------------------------------------------------------------------
(* The import *)

\* Mutant: whole days back from now instead of local dates.
SinceHours(z) == LET back == (RecentDays - 1) * DayLength
                 IN  IF now < back THEN 0 ELSE now - back

\* Mutant: the epoch is not a bound.
SinceUnbounded(z) == (LocalDate(now, z) - (RecentDays - 1)) * DayLength - z

\* recent_utc_milliseconds: midnight of the first of the recent local dates.
Since(z) == LET first == LocalDate(now, z) - (RecentDays - 1)
            IN  IF LocalDate(now, z) < RecentDays - 1 \/ first * DayLength < z
                THEN 0 ELSE first * DayLength - z

Begin(i) == /\ ~Running(i)
            /\ Become(i, [NoJob EXCEPT !.step = "list", !.scale = scale, !.zone = zone,
                                    !.since = Since(zone), !.until = now])
            /\ UNCHANGED <<world, store>>

\* Of the events of a listing, the earliest of each local date.
Daily(events, z) ==
    LET First(e) == \A f \in events :
                        LocalDate(f.time, z) = LocalDate(e.time, z) => e.time <= f.time
    IN  {[time |-> e.time, raw |-> e.raw, day |-> LocalDate(e.time, z)] :
            e \in {f \in events : First(f)}}

List(i) == /\ At(i, "list")
           /\ LET events == {e \in log : e.time \in job[i].since .. job[i].until}
                  daily == Daily(events, job[i].zone)
                  Skipped(e) == \E c \in daily :
                      LocalDate(e.time, job[i].zone) = c.day /\ e.time < c.time
              IN  Become(i, [job[i] EXCEPT !.step = "respecify", !.todo = daily,
                                           !.candidates = daily,
                                           !.skipped = {e \in log : Skipped(e)},
                                           !.zone = Min(Zones), !.since = 0, !.until = 0])
           /\ UNCHANGED <<world, store>>

\* Mutant: the connection is left open.
FailHolding(i) == Become(i, NoJob) /\ UNCHANGED <<world, store>>

\* A raised error rolls back the connection.
Fail(i) ==
    /\ Become(i, NoJob)
    /\ writer' = IF writer = i THEN Nobody ELSE writer
    /\ UNCHANGED <<world, imported>>

Respecify(i) == /\ At(i, "respecify")
                /\ IF scale = job[i].scale
                   THEN /\ Become(i, [job[i] EXCEPT !.step = "lookup"])
                        /\ UNCHANGED <<world, store>>
                   ELSE Fail(i)

\* The next candidate, in the order of the local dates.
Upcoming(i) == CHOOSE c \in job[i].todo : \A d \in job[i].todo : c.day <= d.day

Visible(i) == imported \cup job[i].draft
SameEvent(i, c) == {r \in Visible(i) : EventKey(r) = EventKey(c)}
SameDay(i, c) == {r \in Visible(i) : r.day = c.day}

\* Mutant: the loop ends at the first reading that exists already.
ReuseLast(i, c) == /\ Become(i, [job[i] EXCEPT !.todo = {}])
                   /\ UNCHANGED <<world, store>>

Reuse(i, c) == /\ Become(i, [job[i] EXCEPT !.todo = @ \ {c}])
               /\ UNCHANGED <<world, store>>

Found(i, c) == SameEvent(i, c) # {} \/ SameDay(i, c) # {}

\* The two queries of import_cloud_daily, by external key and by day.
Lookup(i) ==
    /\ At(i, "lookup") /\ job[i].todo # {}
    /\ LET c == Upcoming(i) IN
       IF \E r \in SameEvent(i, c) : r.scale # job[i].scale THEN Fail(i)
       ELSE IF Found(i, c) THEN Reuse(i, c)
       ELSE /\ Become(i, [job[i] EXCEPT !.step = "insert"])
            /\ UNCHANGED <<world, store>>

\* Mutant: no unique index on device and local date.
DuplicateEvent(i, c) == SameEvent(i, c) # {}

\* The unique indexes of migration 4.
Duplicate(i, c) == SameEvent(i, c) # {} \/ SameDay(i, c) # {}

\* The first insert takes the write lock of the database.
Insert(i) ==
    /\ job[i].step = "insert" /\ writer \in {Nobody, i}
    /\ LET c == Upcoming(i)
           row == [time |-> c.time, raw |-> c.raw, day |-> c.day, scale |-> job[i].scale]
       IN  IF Duplicate(i, c) THEN Fail(i)
           ELSE /\ Become(i, [job[i] EXCEPT !.step = "lookup", !.todo = @ \ {c},
                                            !.draft = @ \cup {row}])
                /\ writer' = i
                /\ UNCHANGED <<world, imported>>

Commit(i) == /\ At(i, "lookup") /\ job[i].todo = {}
             /\ imported' = imported \cup job[i].draft
             /\ writer' = IF writer = i THEN Nobody ELSE writer
             /\ Become(i, [job[i] EXCEPT !.step = "return", !.draft = {}, !.scale = Min(Scales)])
             /\ UNCHANGED world

\* The result, or none if the import was cancelled after its commit.
Return(i) == /\ At(i, "return")
             /\ Become(i, NoJob)
             /\ UNCHANGED <<world, store>>

\* A checkpoint, the cloud or the database stops the import before the commit.
Break(i) == /\ job[i].step \in {"list", "respecify", "lookup", "insert"}
            /\ Fail(i)

Import(i) == Begin(i) \/ List(i) \/ Respecify(i) \/ Lookup(i) \/ Insert(i) \/ Commit(i) \/ Return(i) \/ Break(i)

Next == \/ Tick \/ Report \/ Correct \/ ChangeZone \/ ChangeScale
        \/ \E i \in Instances : Import(i)

Spec == Init /\ [][Next]_vars

-----------------------------------------------------------------------------
(* Properties *)

\* Types of the world, the stored readings and the imports.
TypeOK == /\ now \in Times /\ zone \in Zones /\ scale \in Scales
          /\ log \subseteq {e \in Events : e.time <= now}
          /\ imported \subseteq Readings
          /\ writer \in Instances \cup {Nobody}
          /\ job \in [Instances -> Jobs]

\* At most one automatic reading per local date, and one per event, that is per
\* time and value, whatever imports overlap or race, and in whatever time zones
\* they ran (import_cloud_daily and the indexes of migration 4).
OnePerDayAndEvent == \A r, q \in imported :
    r.day = q.day \/ EventKey(r) = EventKey(q) => r = q

\* A successful import leaves a reading for every day that it found events
\* of: a day or an event it skipped was there already.
ImportComplete == \A i \in Instances : At(i, "return") =>
    \A c \in job[i].candidates : \E r \in imported : r.day = c.day \/ EventKey(r) = EventKey(c)

\* The reading chosen for a local date is the earliest event that the cloud
\* had of the whole date, not of the part of it that lies in the window of the
\* request (recent_utc_milliseconds and reduce_daily_events).
EarliestOfDay == \A i \in Instances : job[i].skipped = {}

\* The write lock belongs to an import that goes on: rows are in a draft only
\* under the lock, and no ended import keeps it.
LockHeld == \A i \in Instances : job[i].draft # {} <=> writer = i
=============================================================================
