------------------------- MODULE CloudImportProofs -------------------------
(***************************************************************************)
(* For any number of instances, days, zones and scales: imports leave at   *)
(* most one reading per day and event, lose no day, choose the earliest    *)
(* event of a day and give the write lock back.                            *)
(***************************************************************************)
EXTENDS CloudImport, WellFoundedInduction, TLAPS

-----------------------------------------------------------------------------
(* Arithmetic *)

Less == {p \in Nat \X Nat : p[1] < p[2]}

\* Every nonempty set of natural numbers has a minimum (FiniteSetsExt!Min).
LEMMA MinIsLeast ==
    ASSUME NEW S \in SUBSET Nat, S # {}
    PROVE  Min(S) \in S /\ \A x \in S : Min(S) <= x
<1>1. IsWellFoundedOn(Less, Nat)
    BY NatLessThanWellFounded, Zenon DEF Less, OpToRel
<1>2. PICK m \in S : \A x \in S : <<x, m>> \notin Less
    BY <1>1, WFMin
<1>3. ASSUME NEW x \in S PROVE m <= x
    <2>1. m \in Nat /\ x \in Nat /\ <<x, m>> \in Nat \X Nat /\ ~(<<x, m>> \in Less)
        BY <1>2
    <2>2. ~(x < m)
        BY <2>1 DEF Less
    <2>3. QED
        BY <2>1, <2>2
<1>4. QED
    BY <1>3 DEF Min

\* Whole division: the quotient reaches k with the k-th multiple.
LEMMA DivisionBound ==
    ASSUME NEW a \in Nat, NEW d \in Nat \ {0}, NEW k \in Nat
    PROVE  a \div d \in Nat /\ (k <= a \div d <=> k * d <= a)
<1>1. a \div d \in Nat /\ d * (a \div d) <= a /\ a < d * (a \div d) + d
    BY SMT
<1>2. ASSUME k <= a \div d PROVE k * d <= a
    <2>1. PICK e \in Nat : a \div d = k + e
        BY <1>1, <1>2
    <2>2. d * (k + e) = d * k + d * e /\ d * k = k * d /\ d * e \in Nat /\ k * d \in Nat
        OBVIOUS
    <2>3. QED
        BY <1>1, <2>1, <2>2
<1>3. ASSUME ~(k <= a \div d) PROVE ~(k * d <= a)
    <2>1. PICK e \in Nat : k = (a \div d) + 1 + e
        <3>1. k - ((a \div d) + 1) \in Nat /\ a \div d \in Nat
            BY <1>1, <1>3
        <3>2. k = (a \div d) + 1 + (k - ((a \div d) + 1))
            BY <3>1
        <3>3. QED
            BY <3>1, <3>2
    <2> DEFINE q == a \div d
    <2>2. q \in Nat /\ a < d * q + d /\ k = q + 1 + e
        BY <1>1, <2>1
    <2> HIDE DEF q
    <2>3. k * d = d * q + d + e * d /\ e * d \in Nat /\ d * q \in Nat
        BY <2>2
    <2>4. QED
        BY <2>2, <2>3
<1>4. QED
    BY <1>1, <1>2, <1>3

-----------------------------------------------------------------------------
(* The inductive invariant *)

Unique(S) == \A r, q \in S : r.day = q.day \/ EventKey(r) = EventKey(q) => r = q
Covers(S, c) == \E r \in S : r.day = c.day \/ EventKey(r) = EventKey(c)

\* No local date has times on both sides of s.
Boundary(s, z) == \A t, u \in Times : t < s /\ s <= u => LocalDate(t, z) < LocalDate(u, z)

\* What a step of an import knows, whatever the others do.
JobInv(j) ==
    /\ j.draft # {} => j.step \in {"lookup", "insert"}
    /\ j.step = "list" => Boundary(j.since, j.zone)
    /\ j.step = "respecify" => j.todo = j.candidates
    /\ j.step = "insert" => j.todo # {}
    /\ j.skipped = {}

\* What an import has established about the stored readings S.
Kept(j, S) ==
    /\ Unique(S \cup j.draft)
    /\ j.step \in {"lookup", "insert"} =>
          \A c \in j.candidates \ j.todo : Covers(S \cup j.draft, c)
    /\ j.step = "return" => \A c \in j.candidates : Covers(S, c)

IInv == /\ TypeOK /\ OnePerDayAndEvent /\ LockHeld
        /\ \A i \in Instances : JobInv(job[i]) /\ Kept(job[i], imported)

-----------------------------------------------------------------------------
(* Local dates *)

\* Local dates are natural numbers, one of Dates each, and never decrease.
LEMMA LocalDates ==
    /\ \A t \in Times, z \in Zones : LocalDate(t, z) \in Dates \cap Nat /\ t + z \in Nat
    /\ Dates \subseteq Nat
<1>1. ASSUME NEW t \in Times, NEW z \in Zones
      PROVE  LocalDate(t, z) \in Dates \cap Nat /\ t + z \in Nat
    <2>1. t + z \in Nat
        BY DaysAssumption, ZonesAssumption DEF Times
    <2>2. (t + z) \div DayLength \in Nat
        BY <2>1, DaysAssumption
    <2>3. QED
        BY <2>1, <2>2 DEF LocalDate, Dates
<1>2. QED
    BY <1>1 DEF Dates

\* The window of a request begins at a midnight (recent_utc_milliseconds).
LEMMA SinceIsMidnight ==
    ASSUME now \in Times, NEW z \in Zones
    PROVE  Since(z) \in 0..now /\ Boundary(Since(z), z)
<1> DEFINE first == LocalDate(now, z) - (RecentDays - 1)
<1>0. /\ z \in Nat /\ now \in Nat /\ now <= MaxTime /\ MaxTime \in Nat
      /\ DayLength \in Nat \ {0} /\ RecentDays \in Nat \ {0} /\ LocalDate(now, z) \in Nat
    BY DaysAssumption, ZonesAssumption, LocalDates DEF Times
<1>1. CASE LocalDate(now, z) < RecentDays - 1 \/ first * DayLength < z
    <2>1. Since(z) = 0
        BY <1>1 DEF Since
    <2>2. QED
        BY <1>0, <2>1 DEF Boundary, Times
<1>2. CASE ~(LocalDate(now, z) < RecentDays - 1 \/ first * DayLength < z)
    <2>1. first \in Nat /\ first <= LocalDate(now, z)
        BY <1>0, <1>2
    <2>2. Since(z) = first * DayLength - z
        BY <1>2 DEF Since
    <2> HIDE DEF first
    <2>3. first * DayLength \in Nat /\ ~(first * DayLength < z)
        BY <1>0, <1>2, <2>1
    <2>4. Since(z) \in Nat /\ Since(z) + z = first * DayLength
        BY <1>0, <2>2, <2>3
    <2>5. ASSUME NEW t \in Times PROVE Since(z) <= t <=> first <= LocalDate(t, z)
        <3>1. t + z \in Nat /\ t \in Nat
            BY LocalDates DEF Times
        <3>2. first <= LocalDate(t, z) <=> first * DayLength <= t + z
            BY <1>0, <2>1, <3>1, DivisionBound DEF LocalDate
        <3>3. QED
            BY <1>0, <2>3, <2>4, <3>1, <3>2
    <2>6. Since(z) <= now
        BY <2>1, <2>5
    <2>7. ASSUME NEW t \in Times, NEW u \in Times, t < Since(z), Since(z) <= u
          PROVE  LocalDate(t, z) < LocalDate(u, z)
        <3>1. ~(first <= LocalDate(t, z)) /\ first <= LocalDate(u, z)
            <4>1. t \in Nat
                BY DEF Times
            <4>2. QED
                BY <2>4, <2>5, <2>7, <4>1
        <3>2. LocalDate(t, z) \in Nat /\ LocalDate(u, z) \in Nat
            BY LocalDates
        <3>3. QED
            BY <2>1, <3>1, <3>2
    <2>8. QED
        BY <1>0, <2>4, <2>6, <2>7 DEF Boundary
<1>3. QED
    BY <1>1, <1>2

\* What reduce_daily_events returns: the earliest event of each date.
LEMMA DailyIsEarliest ==
    ASSUME NEW events \in SUBSET Events, NEW z \in Zones, NEW c \in Daily(events, z)
    PROVE  /\ c \in Candidates /\ LocalDate(c.time, z) = c.day
           /\ \E e \in events : e.time = c.time
           /\ \A e \in events : LocalDate(e.time, z) = c.day => c.time <= e.time
<1>1. PICK e \in events :
          /\ c = [time |-> e.time, raw |-> e.raw, day |-> LocalDate(e.time, z)]
          /\ \A f \in events : LocalDate(f.time, z) = LocalDate(e.time, z) => e.time <= f.time
    BY DEF Daily
<1>2. e.time \in Times /\ e.raw \in Raws /\ LocalDate(e.time, z) \in Dates
    BY LocalDates DEF Events
<1>3. c \in Candidates
    BY <1>1, <1>2 DEF Candidates
<1>4. QED
    BY <1>1, <1>3

-----------------------------------------------------------------------------
(* The imports *)

\* An ended import claims nothing.
LEMMA NoJobHolds ==
    /\ Min(Zones) \in Zones /\ Min(Scales) \in Scales
    /\ NoJob \in Jobs
    /\ JobInv(NoJob)
    /\ \A S : Unique(S) => Kept(NoJob, S)
<1>1. Min(Zones) \in Zones /\ Min(Scales) \in Scales
    <2>1. Zones \in SUBSET Nat /\ Zones # {} /\ Scales \in SUBSET Nat /\ Scales # {}
        BY ZonesAssumption
    <2>2. QED
        BY <2>1, MinIsLeast
<1>2. NoJob \in Jobs
    BY <1>1, DaysAssumption DEF NoJob, Jobs, Steps, Times
<1>3. JobInv(NoJob)
    BY DEF JobInv, NoJob
<1>4. ASSUME NEW S, Unique(S) PROVE Kept(NoJob, S)
    <2>1. S \cup NoJob.draft = S
        BY DEF NoJob
    <2>2. NoJob.step = "idle"
        BY DEF NoJob
    <2>3. QED
        BY <1>4, <2>1, <2>2 DEF Kept
<1>5. QED
    BY <1>1, <1>2, <1>3, <1>4

\* A step of one import that commits nothing preserves the invariant when it
\* leaves that import in order and the write lock where the draft is.
LEMMA OneImport ==
    ASSUME IInv, NEW i \in Instances, NEW j \in Jobs, Become(i, j),
           UNCHANGED <<world, imported>>, writer' \in Instances \cup {Nobody},
           JobInv(j), Kept(j, imported),
           j.draft # {} <=> writer' = i,
           \A k \in Instances \ {i} : writer' = k <=> writer = k
    PROVE  IInv'
<1>1. job' \in [Instances -> Jobs] /\ job'[i] = j
      /\ \A k \in Instances \ {i} : job'[k] = job[k]
    BY DEF IInv, TypeOK, Become
<1>2. TypeOK'
    BY <1>1 DEF IInv, TypeOK, world
<1>3. OnePerDayAndEvent'
    BY DEF IInv, OnePerDayAndEvent
<1>4. LockHeld'
    BY <1>1 DEF IInv, LockHeld
<1>5. ASSUME NEW k \in Instances PROVE JobInv(job'[k]) /\ Kept(job'[k], imported')
    BY <1>1 DEF IInv
<1>6. QED
    BY <1>2, <1>3, <1>4, <1>5 DEF IInv

\* The same for an import that keeps its draft, and so the lock or none.
LEMMA SameDraft ==
    ASSUME IInv, NEW i \in Instances, NEW j \in Jobs, Become(i, j),
           UNCHANGED <<world, store>>, j.draft = job[i].draft,
           JobInv(j), Kept(j, imported)
    PROVE  IInv'
<1>1. writer' = writer /\ imported' = imported
    BY DEF store
<1>2. writer' \in Instances \cup {Nobody} /\ (j.draft # {} <=> writer' = i)
    BY <1>1 DEF IInv, TypeOK, LockHeld
<1>3. QED
    BY <1>1, <1>2, OneImport

\* A failed import leaves nothing behind.
LEMMA FailKeeps ==
    ASSUME IInv, NEW i \in Instances, Fail(i)
    PROVE  IInv'
<1>1. NoJob \in Jobs /\ JobInv(NoJob) /\ Kept(NoJob, imported)
    BY NoJobHolds DEF IInv, OnePerDayAndEvent, Unique
<1>2. writer' \in Instances \cup {Nobody} /\ writer' # i
      /\ \A k \in Instances \ {i} : writer' = k <=> writer = k
    BY NobodyAssumption DEF Fail, IInv, TypeOK
<1>3. NoJob.draft = {}
    BY DEF NoJob
<1>4. QED
    BY <1>1, <1>2, <1>3, OneImport DEF Fail

\* What the invariant says of one import.
LEMMA JobFacts ==
    ASSUME IInv, NEW i \in Instances
    PROVE  job[i] \in Jobs /\ JobInv(job[i]) /\ Kept(job[i], imported) /\ Unique(imported)
BY DEF IInv, TypeOK, OnePerDayAndEvent, Unique

LEMMA BeginKeeps ==
    ASSUME IInv, NEW i \in Instances, Begin(i)
    PROVE  IInv'
<1>0. now \in Times /\ zone \in Zones /\ scale \in Scales
    BY DEF IInv, TypeOK
<1>1. PICK j : j = [NoJob EXCEPT !.step = "list", !.scale = scale, !.zone = zone,
                                 !.since = Since(zone), !.until = now]
    OBVIOUS
<1>2. /\ j.step = "list" /\ j.scale = scale /\ j.zone = zone /\ j.since = Since(zone)
      /\ j.until = now /\ j.todo = {} /\ j.draft = {} /\ j.candidates = {} /\ j.skipped = {}
      /\ j = [step |-> "list", scale |-> scale, zone |-> zone, since |-> Since(zone),
              until |-> now, todo |-> {}, draft |-> {}, candidates |-> {}, skipped |-> {}]
    BY <1>1 DEF NoJob
<1>3. Since(zone) \in Times /\ Boundary(Since(zone), zone)
    BY <1>0, SinceIsMidnight, DaysAssumption DEF Times
<1>4. j \in Jobs
    BY <1>0, <1>2, <1>3 DEF Jobs, Steps
<1>5. JobInv(j)
    BY <1>2, <1>3 DEF JobInv
<1>6. Kept(j, imported)
    <2>1. imported \cup j.draft = imported
        BY <1>2
    <2>2. QED
        BY <1>2, <2>1, JobFacts DEF Kept
<1>7. job[i].draft = {}
    BY JobFacts DEF Begin, Running, JobInv
<1>8. QED
    BY <1>1, <1>2, <1>4, <1>5, <1>6, <1>7, SameDraft DEF Begin

LEMMA ListKeeps ==
    ASSUME IInv, NEW i \in Instances, List(i)
    PROVE  IInv'
<1>1. PICK o : o = job[i]
    OBVIOUS
<1>2. PICK events : events = {e \in log : e.time \in o.since .. o.until}
    OBVIOUS
<1>3. PICK daily : daily = Daily(events, o.zone)
    OBVIOUS
<1>4. PICK skipped :
          skipped = {e \in log : \E c \in daily : LocalDate(e.time, o.zone) = c.day /\ e.time < c.time}
    OBVIOUS
<1>5. PICK j : j = [o EXCEPT !.step = "respecify", !.todo = daily, !.candidates = daily,
                             !.skipped = skipped, !.zone = Min(Zones), !.since = 0, !.until = 0]
    OBVIOUS
<1>6. o \in Jobs /\ o.step = "list" /\ o.draft = {} /\ Boundary(o.since, o.zone)
    BY <1>1, JobFacts DEF List, At, JobInv
<1>7. Become(i, j) /\ UNCHANGED <<world, store>>
    BY <1>1, <1>2, <1>3, <1>4, <1>5 DEF List
<1>8. o.zone \in Zones /\ o.since \in Times /\ o.until \in Times
    BY <1>6 DEF Jobs
<1>9. log \in SUBSET Events /\ events \in SUBSET Events
    BY <1>2 DEF IInv, TypeOK
<1>10. ASSUME NEW c \in daily
       PROVE  /\ c \in Candidates
              /\ \A e \in log : LocalDate(e.time, o.zone) = c.day => ~(e.time < c.time)
    <2>1. /\ c \in Candidates /\ LocalDate(c.time, o.zone) = c.day
          /\ \A e \in events : LocalDate(e.time, o.zone) = c.day => c.time <= e.time
        BY <1>3, <1>8, <1>9, DailyIsEarliest
    <2>2. PICK f \in events : f.time = c.time
        BY <1>3, <1>8, <1>9, DailyIsEarliest
    <2>3. /\ c.time \in Times /\ c.time \in Nat /\ o.since \in Nat /\ o.until \in Nat
          /\ o.since <= c.time /\ c.time <= o.until
        BY <1>2, <1>8, <1>9, <2>2 DEF Events, Times
    <2>4. ASSUME NEW e \in log, LocalDate(e.time, o.zone) = c.day
          PROVE  ~(e.time < c.time)
        <3>1. e.time \in Times /\ e.time \in Nat
            BY <1>9 DEF Events, Times
        <3>2. CASE e \in events
            BY <2>1, <2>3, <2>4, <3>1, <3>2
        <3>3. CASE e \notin events
            <4>1. e.time < o.since \/ o.until < e.time
                BY <1>2, <2>3, <3>1, <3>3
            <4>2. ~(e.time < o.since)
                <5>1. e.time < o.since => LocalDate(e.time, o.zone) < LocalDate(c.time, o.zone)
                    BY <1>6, <2>3, <3>1 DEF Boundary
                <5>2. LocalDate(e.time, o.zone) \in Nat
                    BY <1>8, <3>1, LocalDates
                <5>3. QED
                    BY <2>1, <2>4, <5>1, <5>2
            <4>3. QED
                BY <2>3, <3>1, <4>1, <4>2
        <3>4. QED
            BY <3>2, <3>3
    <2>5. QED
        BY <2>1, <2>4
<1>11. skipped = {} /\ daily \in SUBSET Candidates
    BY <1>4, <1>10
<1>12. /\ j.step = "respecify" /\ j.todo = daily /\ j.candidates = daily
       /\ j.skipped = {} /\ j.draft = {}
    BY <1>5, <1>6, <1>11 DEF Jobs
<1>13. j \in Jobs
    <2>1. 0 \in Times
        BY DaysAssumption DEF Times
    <2>2. QED
        BY <1>5, <1>6, <1>11, <2>1, NoJobHolds DEF Jobs, Steps
<1>14. JobInv(j)
    BY <1>12 DEF JobInv
<1>15. Kept(j, imported)
    <2>1. imported \cup j.draft = imported
        BY <1>12
    <2>2. QED
        BY <1>12, <2>1, JobFacts DEF Kept
<1>16. QED
    BY <1>1, <1>6, <1>7, <1>12, <1>13, <1>14, <1>15, SameDraft

LEMMA RespecifyKeeps ==
    ASSUME IInv, NEW i \in Instances, Respecify(i)
    PROVE  IInv'
<1>1. CASE Fail(i)
    BY <1>1, FailKeeps
<1>2. CASE ~Fail(i)
    <2>1. PICK o : o = job[i]
        OBVIOUS
    <2>2. PICK j : j = [o EXCEPT !.step = "lookup"]
        OBVIOUS
    <2>3. /\ o \in Jobs /\ o.draft = {} /\ o.todo = o.candidates /\ o.skipped = {}
          /\ Become(i, j) /\ UNCHANGED <<world, store>>
        BY <1>2, <2>1, <2>2, JobFacts DEF Respecify, At, JobInv
    <2>4. /\ j.step = "lookup" /\ j.skipped = {} /\ j.draft = {} /\ j.todo = j.candidates
        BY <2>2, <2>3 DEF Jobs
    <2>5. j \in Jobs
        BY <2>2, <2>3 DEF Jobs, Steps
    <2>6. JobInv(j)
        BY <2>4 DEF JobInv
    <2>7. Kept(j, imported)
        <3>1. imported \cup j.draft = imported
            BY <2>4
        <3>2. QED
            BY <2>4, <3>1, JobFacts DEF Kept
    <2>8. QED
        BY <2>1, <2>3, <2>4, <2>5, <2>6, <2>7, SameDraft
<1>3. QED
    BY <1>1, <1>2

\* There is a next candidate while any is left.
LEMMA UpcomingIsLeft ==
    ASSUME NEW i \in Instances, job[i] \in Jobs, job[i].todo # {}
    PROVE  Upcoming(i) \in job[i].todo /\ Upcoming(i) \in Candidates
<1> DEFINE days == {c.day : c \in job[i].todo}
<1>1. job[i].todo \subseteq Candidates
    BY DEF Jobs
<1>2. \A c \in job[i].todo : c.day \in Nat
    BY <1>1, LocalDates DEF Candidates
<1>3. days \in SUBSET Nat /\ days # {}
    BY <1>2
<1>4. Min(days) \in days /\ \A d \in days : Min(days) <= d
    <2> HIDE DEF days
    <2>1. QED
        BY <1>3, MinIsLeast
<1>5. PICK c \in job[i].todo : c.day = Min(days)
    BY <1>4
<1>6. \A d \in job[i].todo : c.day <= d.day
    BY <1>4, <1>5
<1>7. QED
    BY <1>1, <1>6 DEF Upcoming

LEMMA LookupKeeps ==
    ASSUME IInv, NEW i \in Instances, Lookup(i)
    PROVE  IInv'
<1>1. PICK c : c = Upcoming(i)
    OBVIOUS
<1>2. PICK o : o = job[i]
    OBVIOUS
<1>3. o \in Jobs /\ o.step = "lookup" /\ JobInv(o) /\ Kept(o, imported) /\ c \in o.todo
    BY <1>1, <1>2, JobFacts, UpcomingIsLeft DEF Lookup, At
<1>4. CASE Fail(i)
    BY <1>4, FailKeeps
<1>5. CASE Found(i, c) /\ Reuse(i, c)
    <2>1. PICK j : j = [o EXCEPT !.todo = o.todo \ {c}]
        OBVIOUS
    <2>2. Become(i, j) /\ UNCHANGED <<world, store>>
        BY <1>2, <1>5, <2>1 DEF Reuse
    <2>3. /\ j.step = "lookup" /\ j.todo = o.todo \ {c} /\ j.draft = o.draft
          /\ j.candidates = o.candidates /\ j.skipped = o.skipped
        BY <1>3, <2>1 DEF Jobs
    <2>4. j \in Jobs
        BY <1>3, <2>1 DEF Jobs
    <2>5. JobInv(j)
        BY <1>3, <2>3 DEF JobInv
    <2>6. Covers(imported \cup o.draft, c)
        BY <1>2, <1>5 DEF Found, SameEvent, SameDay, Visible, Covers
    <2>7. Kept(j, imported)
        BY <1>3, <2>3, <2>6 DEF Kept
    <2>8. QED
        BY <1>2, <2>2, <2>3, <2>4, <2>5, <2>7, SameDraft
<1>6. CASE Become(i, [job[i] EXCEPT !.step = "insert"]) /\ UNCHANGED <<world, store>>
    <2>1. PICK j : j = [o EXCEPT !.step = "insert"]
        OBVIOUS
    <2>2. /\ j.step = "insert" /\ j.todo = o.todo /\ j.draft = o.draft
          /\ j.candidates = o.candidates /\ j.skipped = o.skipped
        BY <1>3, <2>1 DEF Jobs
    <2>3. j \in Jobs
        BY <1>3, <2>1 DEF Jobs, Steps
    <2>4. JobInv(j)
        BY <1>3, <2>2 DEF JobInv
    <2>5. Kept(j, imported)
        BY <1>3, <2>2 DEF Kept
    <2>6. QED
        BY <1>2, <1>6, <2>1, <2>2, <2>3, <2>4, <2>5, SameDraft
<1>7. QED
    BY <1>1, <1>4, <1>5, <1>6 DEF Lookup

LEMMA InsertKeeps ==
    ASSUME IInv, NEW i \in Instances, Insert(i)
    PROVE  IInv'
<1>1. PICK c : c = Upcoming(i)
    OBVIOUS
<1>2. PICK o : o = job[i]
    OBVIOUS
<1>3. /\ o \in Jobs /\ o.step = "insert" /\ JobInv(o) /\ Kept(o, imported)
      /\ c \in o.todo /\ c \in Candidates
    BY <1>1, <1>2, JobFacts, UpcomingIsLeft DEF Insert, JobInv
<1>4. CASE Fail(i)
    BY <1>4, FailKeeps
<1>5. CASE ~Fail(i)
    <2>1. PICK row : row = [time |-> c.time, raw |-> c.raw, day |-> c.day, scale |-> o.scale]
        OBVIOUS
    <2>2. PICK j : j = [o EXCEPT !.step = "lookup", !.todo = o.todo \ {c},
                                 !.draft = o.draft \cup {row}]
        OBVIOUS
    <2>3. /\ ~Duplicate(i, c) /\ Become(i, j) /\ writer' = i /\ writer \in {Nobody, i}
          /\ UNCHANGED <<world, imported>>
        BY <1>1, <1>2, <1>5, <2>1, <2>2 DEF Insert
    <2>4. /\ j.step = "lookup" /\ j.todo = o.todo \ {c} /\ j.draft = o.draft \cup {row}
          /\ j.candidates = o.candidates /\ j.skipped = o.skipped
        BY <1>3, <2>2 DEF Jobs
    <2>5. j \in Jobs
        <3>1. row \in Readings
            BY <1>3, <2>1 DEF Jobs, Candidates, Readings
        <3>2. QED
            BY <1>3, <2>2, <3>1 DEF Jobs, Steps
    <2>6. JobInv(j)
        BY <1>3, <2>4 DEF JobInv
    <2>7. PICK S : S = imported \cup o.draft
        OBVIOUS
    <2>8. imported \cup j.draft = S \cup {row} /\ row.day = c.day /\ EventKey(row) = EventKey(c)
        BY <2>1, <2>4, <2>7 DEF EventKey
    <2>9. \A r \in S : r.day # row.day /\ EventKey(r) # EventKey(row)
        BY <1>2, <2>3, <2>7, <2>8 DEF Duplicate, SameEvent, SameDay, Visible
    <2>10. Unique(S \cup {row})
        <3>1. Unique(S)
            BY <1>3, <2>7 DEF Kept
        <3>2. QED
            BY <2>9, <3>1 DEF Unique
    <2>11. \A d \in o.candidates \ (o.todo \ {c}) : Covers(S \cup {row}, d)
        <3>1. \A d \in o.candidates \ o.todo : Covers(S, d)
            BY <1>3, <2>7 DEF Kept
        <3>2. QED
            BY <2>8, <3>1 DEF Covers
    <2>12. Kept(j, imported)
        BY <2>4, <2>8, <2>10, <2>11 DEF Kept
    <2>13. \A k \in Instances \ {i} : writer' = k <=> writer = k
        BY <2>3, NobodyAssumption
    <2>14. QED
        BY <2>3, <2>4, <2>5, <2>6, <2>12, <2>13, OneImport
<1>6. QED
    BY <1>4, <1>5

\* No other import has a draft when a draft is committed, for it has the lock.
LEMMA CommitKeeps ==
    ASSUME IInv, NEW i \in Instances, Commit(i)
    PROVE  IInv'
<1>1. PICK o : o = job[i]
    OBVIOUS
<1>2. PICK j : j = [o EXCEPT !.step = "return", !.draft = {}, !.scale = Min(Scales)]
    OBVIOUS
<1>3. PICK S : S = imported \cup o.draft
    OBVIOUS
<1>4. /\ o \in Jobs /\ o.step = "lookup" /\ o.todo = {} /\ JobInv(o) /\ Kept(o, imported)
      /\ Become(i, j) /\ imported' = S /\ UNCHANGED world
      /\ writer' = IF writer = i THEN Nobody ELSE writer
    BY <1>1, <1>2, <1>3, JobFacts DEF Commit, At
<1>5. /\ j.step = "return" /\ j.draft = {}
      /\ j.candidates = o.candidates /\ j.skipped = o.skipped
    BY <1>2, <1>4 DEF Jobs
<1>6. j \in Jobs /\ JobInv(j)
    <2>1. j \in Jobs
        BY <1>2, <1>4, NoJobHolds DEF Jobs, Steps
    <2>2. JobInv(j)
        BY <1>4, <1>5 DEF JobInv
    <2>3. QED
        BY <2>1, <2>2
<1>7. Unique(S) /\ \A c \in o.candidates : Covers(S, c)
    BY <1>3, <1>4 DEF Kept
<1>8. /\ job' \in [Instances -> Jobs] /\ job'[i] = j
      /\ \A k \in Instances \ {i} : job'[k] = job[k]
    BY <1>4, <1>6 DEF IInv, TypeOK, Become
<1>9. TypeOK'
    <2>1. S \subseteq Readings
        BY <1>3, <1>4 DEF IInv, TypeOK, Jobs
    <2>2. writer' \in Instances \cup {Nobody}
        BY <1>4 DEF IInv, TypeOK
    <2>3. QED
        BY <1>4, <1>8, <2>1, <2>2 DEF IInv, TypeOK, world
<1>10. OnePerDayAndEvent'
    BY <1>4, <1>7 DEF OnePerDayAndEvent, Unique
<1>11. LockHeld'
    BY <1>4, <1>5, <1>8, NobodyAssumption DEF IInv, LockHeld
<1>12. JobInv(j) /\ Kept(j, S)
    <2>1. S \cup j.draft = S
        BY <1>5
    <2>2. QED
        BY <1>5, <1>6, <1>7, <2>1 DEF Kept
<1>13. ASSUME NEW k \in Instances \ {i} PROVE Kept(job[k], S)
    <2>1. Kept(job[k], imported)
        BY JobFacts
    <2>2. CASE o.draft = {}
        BY <1>3, <2>1, <2>2
    <2>3. CASE o.draft # {}
        <3>1. job[k].draft = {}
            BY <1>1, <2>3 DEF IInv, LockHeld
        <3>2. S \cup job[k].draft = S /\ imported \cup job[k].draft = imported
            BY <3>1
        <3>3. \A c : Covers(imported, c) => Covers(S, c)
            BY <1>3 DEF Covers
        <3>4. QED
            BY <1>7, <2>1, <3>2, <3>3 DEF Kept
    <2>4. QED
        BY <2>2, <2>3
<1>14. ASSUME NEW k \in Instances PROVE JobInv(job'[k]) /\ Kept(job'[k], imported')
    BY <1>4, <1>8, <1>12, <1>13, JobFacts
<1>15. QED
    BY <1>9, <1>10, <1>11, <1>14 DEF IInv

LEMMA ReturnKeeps ==
    ASSUME IInv, NEW i \in Instances, Return(i)
    PROVE  IInv'
<1>1. PICK o : o = job[i]
    OBVIOUS
<1>2. o \in Jobs /\ o.step = "return" /\ o.draft = {} /\ JobInv(o) /\ Kept(o, imported)
    BY <1>1, JobFacts DEF Return, At, JobInv
<1>3. NoJob.draft = job[i].draft
    BY <1>1, <1>2 DEF NoJob
<1>4. NoJob \in Jobs /\ JobInv(NoJob) /\ Kept(NoJob, imported)
    BY NoJobHolds, JobFacts
<1>5. QED
    BY <1>3, <1>4, SameDraft DEF Return

-----------------------------------------------------------------------------
(* The theorems *)

LEMMA InvInit == Init => IInv
<1> SUFFICES ASSUME Init PROVE IInv
    OBVIOUS
<1>1. TypeOK
    BY NoJobHolds, DaysAssumption DEF Init, TypeOK, Times
<1>2. OnePerDayAndEvent /\ Unique(imported)
    BY DEF Init, OnePerDayAndEvent, Unique
<1>3. LockHeld
    BY NobodyAssumption DEF Init, LockHeld, NoJob
<1>4. \A i \in Instances : JobInv(job[i]) /\ Kept(job[i], imported)
    BY <1>2, NoJobHolds DEF Init
<1>5. QED
    BY <1>1, <1>2, <1>3, <1>4 DEF IInv

LEMMA InvStep == IInv /\ [Next]_vars => IInv'
<1> SUFFICES ASSUME IInv, [Next]_vars PROVE IInv'
    OBVIOUS
<1>1. ASSUME UNCHANGED <<store, job>>, TypeOK' PROVE IInv'
    BY <1>1 DEF IInv, OnePerDayAndEvent, LockHeld, store
<1>2. CASE Tick \/ Report \/ Correct
    <2>1. now' \in Times /\ now \in Nat /\ now' \in Nat /\ now <= now' /\ now <= MaxTime
        BY <1>2, DaysAssumption DEF IInv, TypeOK, Tick, Report, Correct, Times
    <2>2. ASSUME NEW e \in log' PROVE e \in Events /\ e.time <= now'
        <3>1. CASE e \in log
            BY <2>1, <3>1 DEF IInv, TypeOK, Events, Times
        <3>2. CASE e \notin log /\ Report
            <4>1. PICK t \in 0..now : e = [time |-> t, raw |-> Min(Raws)]
                BY <2>2, <3>2 DEF Report
            <4>2. Min(Raws) \in Raws
                BY ZonesAssumption, MinIsLeast
            <4>3. QED
                BY <2>1, <3>2, <4>1, <4>2, DaysAssumption DEF Events, Times, Report
        <3>3. CASE e \notin log /\ Correct
            <4>1. PICK f \in log, v \in Raws : e = [f EXCEPT !.raw = v]
                BY <2>2, <3>3 DEF Correct
            <4>2. f \in Events /\ f.time <= now
                BY DEF IInv, TypeOK
            <4>3. QED
                BY <3>3, <4>1, <4>2 DEF Events, Correct
        <3>4. QED
            BY <1>2, <2>2, <3>1, <3>2, <3>3 DEF Tick
    <2>3. log' \subseteq {e \in Events : e.time <= now'}
        BY <2>2
    <2>4. QED
        BY <1>1, <1>2, <2>1, <2>3 DEF IInv, TypeOK, Tick, Report, Correct, store
<1>3. CASE ChangeZone \/ ChangeScale
    BY <1>1, <1>3 DEF IInv, TypeOK, ChangeZone, ChangeScale, store
<1>4. ASSUME NEW i \in Instances, Import(i) PROVE IInv'
    BY <1>4, BeginKeeps, ListKeeps, RespecifyKeeps, LookupKeeps, InsertKeeps, CommitKeeps,
       ReturnKeeps, FailKeeps DEF Import, Break
<1>5. CASE UNCHANGED vars
    BY <1>1, <1>5 DEF IInv, TypeOK, vars, store
<1>6. QED
    BY <1>2, <1>3, <1>4, <1>5 DEF Next

LEMMA InvImplies ==
    IInv => TypeOK /\ OnePerDayAndEvent /\ ImportComplete /\ EarliestOfDay /\ LockHeld
<1> SUFFICES ASSUME IInv PROVE TypeOK /\ OnePerDayAndEvent /\ ImportComplete /\ EarliestOfDay /\ LockHeld
    OBVIOUS
<1>1. ImportComplete
    BY DEF IInv, Kept, Covers, ImportComplete, At
<1>2. EarliestOfDay
    BY DEF IInv, JobInv, EarliestOfDay
<1>3. QED
    BY <1>1, <1>2 DEF IInv

\* The inductive invariant holds in every behaviour.
THEOREM Invariant == Spec => []IInv
BY InvInit, InvStep, PTL DEF Spec

\* The state keeps its types (TypeOK).
THEOREM TypeCorrect == Spec => []TypeOK
BY Invariant, InvImplies, PTL

\* Whatever imports of however many instances overlap, in whatever zones they
\* run: at most one automatic reading per local date and per event.
THEOREM NoDuplicates == Spec => []OnePerDayAndEvent
BY Invariant, InvImplies, PTL

\* An import that returns leaves a reading for every day it found events of.
THEOREM NoDayLost == Spec => []ImportComplete
BY Invariant, InvImplies, PTL

\* For any length of the day, any offset of the zone and any window: the event
\* chosen for a local date is the earliest that the meter had reported on it.
THEOREM EarliestChosen == Spec => []EarliestOfDay
BY Invariant, InvImplies, PTL

\* A draft is under the write lock, and every import that ends gives it back.
THEOREM LockReturned == Spec => []LockHeld
BY Invariant, InvImplies, PTL
=============================================================================
