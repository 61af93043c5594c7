-------------------------- MODULE ReportLogsProofs --------------------------
(***************************************************************************)
(* The theorems of ReportLogs: for any events, sizes, limits, retries and  *)
(* pages, the budgets and the rate are kept, and list_events implements    *)
(* EventListing; an import never goes round in circles, and once stopped   *)
(* it ends within two steps.                                               *)
(***************************************************************************)
EXTENDS ReportLogs, FiniteSetTheorems, TLAPS

(* The inductive invariant. *)

\* No more than a byte over the limit of the status recorded is kept, and what
\* the reply says of its status has been recorded.
Sound(n) == /\ n \in Nets
            /\ n.body <= RawLimit(n) + 1
            /\ n.status = "none" => n.body = 0
            /\ n.reply.status \in {"none", n.status}
            /\ n.phase = "open" => n.reply.status = n.status

Paging == {"page", "delay", "pace", "send"}
Asking == {"idle", "token", "specification"}

OncePerEvent(S) == \A e, f \in S : e.time = f.time => e = f

Waiting == {"token", "specification", "send"}

\* A request belongs to a step that waits for it; its allowance, and the time
\* since the last request.
Accounted == /\ net.phase # "idle" => list.step \in Waiting
             /\ At("send") /\ net.phase # "idle" => net.limit <= list.raw
             /\ list.started > 0 => (list.started - 1) * Interval <= Budget - list.last
             /\ At("pace") /\ list.started > 0 => Interval <= list.last - left + list.wait

\* The rows have every event that was asked for up to the cursor.
Covered == /\ list.rows \subseteq reports /\ OncePerEvent(list.rows)
           /\ list.asked \subseteq reports
           /\ list.step \in Asking => list.asked = {} /\ list.cursor = Start
           /\ At("failed") => list.asked = {}
           /\ list.step \in Paging =>
                 \A e \in list.asked : e.time <= list.cursor => e.time \in TimesOf(list.rows)
           /\ At("done") => TimesOf(list.asked) \subseteq TimesOf(list.rows)

IInv == TypeOK /\ Sound(net) /\ Accounted /\ Covered

-----------------------------------------------------------------------------
(* Transport *)

LEMMA Limits == PageLimit \in Nat /\ ErrorLimit \in Nat /\ RemoteMax \in Nat
BY LimitsAssumption, RemoteAssumption

LEMMA IdleIsSound == Sound(IdleNet) /\ IdleNet.phase = "idle"
<1>1. PICK n : n = IdleNet
    OBVIOUS
<1>2. NoReply \in Replies /\ NoReply.status = "none"
    BY DEF NoReply, Replies, Statuses, Heads
<1>3. PICK reply : reply = NoReply
    OBVIOUS
<1>4. n = [phase |-> "idle", limit |-> 0, due |-> 0, reply |-> reply, coming |-> 0,
           unread |-> 0, status |-> "none", faults |-> {}, body |-> 0]
    BY <1>1, <1>3 DEF IdleNet
<1>5. n \in Nets
    <2>1. {} \in SUBSET Faults /\ "none" \in Statuses /\ "idle" \in Phases
        BY DEF Statuses, Phases
    <2>2. 0 \in 0..PageLimit /\ 0 \in 0..RemoteMax /\ 0 \in Nat
        BY Limits
    <2>3. QED
        BY <1>2, <1>3, <1>4, <2>1, <2>2 DEF Nets
<1>6. QED
    BY <1>1, <1>2, <1>3, <1>4, <1>5, Limits DEF Sound, RawLimit

\* An abort leaves what has been recorded.
LEMMA AbortedIsSound ==
    ASSUME NEW n \in Nets, NEW fault \in Faults, n.body <= RawLimit(n) + 1,
           n.status = "none" => n.body = 0
    PROVE  /\ Sound(Aborted(n, fault)) /\ Aborted(n, fault).limit = n.limit
           /\ Aborted(n, fault).phase = "quit"
<1>1. PICK m : m = Aborted(n, fault)
    OBVIOUS
<1>2. PICK faults : faults = n.faults \cup {fault}
    OBVIOUS
<1>3. PICK reply : reply = NoReply
    OBVIOUS
<1>4. reply \in Replies /\ reply.status = "none"
    BY <1>3 DEF NoReply, Replies, Statuses, Heads
<1>5. faults \in SUBSET Faults
    BY <1>2 DEF Nets
<1>6. m = [n EXCEPT !.phase = "quit", !.coming = 0, !.unread = 0, !.reply = reply,
                    !.faults = faults]
    BY <1>1, <1>2, <1>3 DEF Aborted
<1>7. m \in Nets
    <2>1. "quit" \in Phases /\ 0 \in Nat
        BY DEF Phases
    <2>2. QED
        BY <1>4, <1>5, <1>6, <2>1 DEF Nets
<1>8. /\ m.phase = "quit" /\ m.reply = reply /\ m.status = n.status
      /\ m.body = n.body /\ m.limit = n.limit
    BY <1>6 DEF Nets
<1>9. QED
    BY <1>1, <1>4, <1>7, <1>8 DEF Sound, RawLimit

\* classify_metadata records the status of the reply.
LEMMA ClassifiedIsSound ==
    ASSUME NEW n \in Nets, n.body <= RawLimit(n) + 1, n.status = "none" => n.body = 0,
           n.status # "none" => n.reply.status \in {"none", n.status},
           n.phase = "open" /\ n.reply.status = "none" => n.status = "none"
    PROVE  /\ Sound(Classified(n)) /\ Classified(n).limit = n.limit
           /\ Classified(n).phase \in {n.phase, "quit"}
<1>1. CASE n.reply.status = "none"
    BY <1>1 DEF Classified, Sound
<1>2. CASE n.reply.status # "none"
    <2>1. PICK status : status = n.reply.status
        OBVIOUS
    <2>2. PICK m : m = [n EXCEPT !.status = status]
        OBVIOUS
    <2>3. status \in Statuses
        BY <2>1 DEF Nets, Replies
    <2>4. /\ m \in Nets /\ m.status = status /\ m.body = n.body /\ m.limit = n.limit
          /\ m.reply = n.reply /\ m.phase = n.phase
        BY <2>2, <2>3 DEF Nets
    <2>5. m.body <= RawLimit(m) + 1 /\ m.status # "none"
        <3>1. n.limit \in Nat /\ n.body \in Nat
            BY Limits DEF Nets
        <3>2. CASE n.status = "none"
            BY <1>2, <2>1, <2>4, <3>1, <3>2, Limits DEF RawLimit
        <3>3. CASE n.status # "none"
            BY <1>2, <2>1, <2>4, <3>1, <3>3 DEF RawLimit
        <3>4. QED
            BY <3>2, <3>3
    <2>6. Sound(m)
        BY <2>1, <2>4, <2>5 DEF Sound
    <2>7. Classified(n) = IF n.reply.head = "refused" THEN Aborted(m, "header")
                          ELSE IF n.reply.head = "long" THEN Aborted(m, "oversize")
                          ELSE m
        BY <1>2, <2>1, <2>2 DEF Classified
    <2>8. "header" \in Faults /\ "oversize" \in Faults
        BY DEF Faults
    <2>9. /\ Sound(Aborted(m, "header")) /\ Aborted(m, "header").limit = m.limit
          /\ Aborted(m, "header").phase = "quit"
        BY <2>4, <2>5, <2>8, AbortedIsSound
    <2>10. /\ Sound(Aborted(m, "oversize")) /\ Aborted(m, "oversize").limit = m.limit
           /\ Aborted(m, "oversize").phase = "quit"
        BY <2>4, <2>5, <2>8, AbortedIsSound
    <2>11. QED
        BY <2>4, <2>6, <2>7, <2>9, <2>10
<1>3. QED
    BY <1>1, <1>2

\* drain keeps at most one byte too many, in whatever chunks they come.
LEMMA DrainedIsSound ==
    ASSUME NEW n, Sound(n)
    PROVE  /\ Sound(Drained(n)) /\ Drained(n).limit = n.limit
           /\ Drained(n).phase \in {n.phase, "quit"}
<1>1. PICK c : c = Classified(n)
    OBVIOUS
<1>2. Sound(c) /\ c.limit = n.limit /\ c.phase \in {n.phase, "quit"}
    BY <1>1, ClassifiedIsSound DEF Sound
<1>3. CASE c.status = "none" \/ c.unread = 0
    BY <1>1, <1>2, <1>3 DEF Drained
<1>4. CASE c.status # "none" /\ c.unread # 0
    <2>1. PICK body : body = c.body + Taken(c)
        OBVIOUS
    <2>2. PICK m : m = [c EXCEPT !.body = body, !.unread = 0]
        OBVIOUS
    <2>3. /\ c \in Nets /\ c.limit \in Nat /\ c.body \in Nat /\ c.unread \in Nat
          /\ RawLimit(c) \in Nat /\ c.body <= RawLimit(c) + 1
        BY <1>2, Limits DEF Sound, Nets, RawLimit
    <2>4. body \in Nat /\ body <= RawLimit(c) + 1
        BY <2>1, <2>3 DEF Taken, Smaller
    <2>5. /\ m \in Nets /\ m.body = body /\ m.status = c.status /\ m.limit = c.limit
          /\ m.reply = c.reply /\ m.phase = c.phase
        BY <2>2, <2>3, <2>4 DEF Nets
    <2>6. Sound(m)
        BY <1>2, <1>4, <2>4, <2>5 DEF Sound, RawLimit
    <2>7. Drained(n) = IF m.body > RawLimit(m) THEN Aborted(m, "oversize") ELSE m
        BY <1>1, <1>4, <2>1, <2>2 DEF Drained
    <2>8. "oversize" \in Faults
        BY DEF Faults
    <2>9. /\ Sound(Aborted(m, "oversize")) /\ Aborted(m, "oversize").limit = m.limit
          /\ Aborted(m, "oversize").phase = "quit"
        BY <2>6, <2>8, AbortedIsSound DEF Sound
    <2>10. QED
        BY <1>2, <2>5, <2>6, <2>7, <2>9
<1>5. QED
    BY <1>3, <1>4

LEMMA OpenedIsSound ==
    ASSUME NEW limit \in 0..PageLimit, NEW time \in 0..RemoteMax, Open(limit, time)
    PROVE  Sound(net') /\ net'.limit = limit /\ net'.phase = "open"
<1>1. PICK n : n = net'
    OBVIOUS
<1>2. PICK i : i = IdleNet
    OBVIOUS
<1>3. i \in Nets /\ i.body = 0 /\ i.status = "none" /\ i.reply.status = "none"
    BY <1>2, IdleIsSound DEF Sound, IdleNet, NoReply
<1>4. n = [i EXCEPT !.phase = "open", !.limit = limit, !.due = time]
    BY <1>1, <1>2 DEF Open
<1>5. "open" \in Phases
    BY DEF Phases
<1>6. /\ n \in Nets /\ n.limit = limit /\ n.phase = "open"
      /\ n.body = i.body /\ n.status = i.status /\ n.reply = i.reply
    BY <1>3, <1>4, <1>5 DEF Nets
<1>7. QED
    BY <1>1, <1>3, <1>6, Limits DEF Sound, RawLimit

\* Whatever the reply and the timers do, the request keeps its limit.
LEMMA HeadersAreSound ==
    ASSUME Sound(net), Headers
    PROVE  Sound(net') /\ net'.limit = net.limit /\ net'.phase \in {"open", "quit"}
<1>1. PICK n : n = net
    OBVIOUS
<1>2. /\ n \in Nets /\ n.phase = "open" /\ n.status = "none" /\ n.body = 0
      /\ n.body <= RawLimit(n) + 1
    BY <1>1 DEF Headers, Sound, NoReply
<1>3. PICK r \in Replies :
            /\ r.status # "none" /\ r.size \in BodySizes
            /\ net' = Classified([n EXCEPT !.reply = r, !.coming = r.size])
    BY <1>1 DEF Headers
<1>4. PICK size : size = r.size
    OBVIOUS
<1>5. size \in Nat
    BY <1>3, <1>4, SizesAssumption
<1>6. PICK m : m = [n EXCEPT !.reply = r, !.coming = size]
    OBVIOUS
<1>7. /\ m \in Nets /\ m.reply = r /\ m.status = n.status /\ m.body = n.body
      /\ m.limit = n.limit /\ m.phase = n.phase
    BY <1>2, <1>5, <1>6 DEF Nets
<1>8. m.body <= RawLimit(m) + 1
    BY <1>2, <1>7 DEF RawLimit
<1>9. /\ Sound(Classified(m)) /\ Classified(m).limit = m.limit
      /\ Classified(m).phase \in {m.phase, "quit"}
    BY <1>2, <1>3, <1>7, <1>8, ClassifiedIsSound
<1>10. QED
    BY <1>1, <1>2, <1>3, <1>4, <1>6, <1>7, <1>9

LEMMA ChunkIsSound ==
    ASSUME Sound(net), Chunk
    PROVE  Sound(net') /\ net'.limit = net.limit /\ net'.phase \in {"open", "quit"}
<1>1. PICK n : n = net
    OBVIOUS
<1>2. Sound(n) /\ n \in Nets /\ n.phase = "open" /\ n.coming \in Nat /\ n.unread \in Nat
    BY <1>1 DEF Chunk, Sound, Nets
<1>3. PICK k \in 1..n.coming :
            net' = Drained([n EXCEPT !.coming = n.coming - k, !.unread = n.unread + k])
    BY <1>1 DEF Chunk
<1>4. PICK coming : coming = n.coming - k
    OBVIOUS
<1>5. PICK unread : unread = n.unread + k
    OBVIOUS
<1>6. coming \in Nat /\ unread \in Nat
    BY <1>2, <1>3, <1>4, <1>5
<1>7. PICK m : m = [n EXCEPT !.coming = coming, !.unread = unread]
    OBVIOUS
<1>8. /\ m \in Nets /\ m.reply = n.reply /\ m.status = n.status /\ m.body = n.body
      /\ m.limit = n.limit /\ m.phase = n.phase
    BY <1>2, <1>6, <1>7 DEF Nets
<1>9. Sound(m)
    BY <1>2, <1>8 DEF Sound, RawLimit
<1>10. Sound(Drained(m)) /\ Drained(m).limit = m.limit /\ Drained(m).phase \in {m.phase, "quit"}
    BY <1>9, DrainedIsSound
<1>11. QED
    BY <1>1, <1>2, <1>3, <1>4, <1>5, <1>7, <1>8, <1>10

LEMMA FinishedIsSound ==
    ASSUME Sound(net), Finished
    PROVE  Sound(net') /\ net'.limit = net.limit /\ net'.phase \in {"open", "quit"}
<1>1. PICK n : n = net
    OBVIOUS
<1>2. Sound(n) /\ n \in Nets /\ n.coming \in Nat /\ n.unread \in Nat
    BY <1>1 DEF Sound, Nets
<1>3. PICK k \in 0..n.coming :
            net' = [n EXCEPT !.phase = "quit", !.coming = 0, !.unread = n.unread + k]
    BY <1>1 DEF Finished
<1>4. PICK unread : unread = n.unread + k
    OBVIOUS
<1>5. unread \in Nat /\ "quit" \in Phases
    BY <1>2, <1>3, <1>4 DEF Phases
<1>6. PICK m : m = [n EXCEPT !.phase = "quit", !.coming = 0, !.unread = unread]
    OBVIOUS
<1>7. /\ m \in Nets /\ m.reply = n.reply /\ m.status = n.status /\ m.body = n.body
      /\ m.limit = n.limit /\ m.phase = "quit"
    BY <1>2, <1>5, <1>6 DEF Nets
<1>8. Sound(m)
    BY <1>2, <1>7 DEF Sound, RawLimit
<1>9. QED
    BY <1>1, <1>3, <1>4, <1>6, <1>7, <1>8

LEMMA TimersAreSound ==
    ASSUME Sound(net), Expire \/ CheckCancellation(cancelled)
    PROVE  Sound(net') /\ net'.limit = net.limit /\ net'.phase \in {"open", "quit"}
<1>1. "deadline" \in Faults /\ "cancelled" \in Faults
    BY DEF Faults
<1>2. PICK fault \in Faults : net' = Aborted(net, fault)
    BY <1>1 DEF Expire, CheckCancellation
<1>3. net \in Nets /\ net.body <= RawLimit(net) + 1 /\ (net.status = "none" => net.body = 0)
    BY DEF Sound
<1>4. /\ Sound(Aborted(net, fault)) /\ Aborted(net, fault).limit = net.limit
      /\ Aborted(net, fault).phase = "quit"
    BY <1>3, AbortedIsSound
<1>5. QED
    BY <1>2, <1>4

-----------------------------------------------------------------------------
(* The import *)

LEMMA Numbers ==
    /\ Budget \in Nat /\ Interval \in Nat /\ TotalRaw \in Nat
    /\ MaxPages \in Nat \ {0} /\ MaxRows \in Nat /\ Len(Delays) \in Nat
    /\ \A i \in 1..Len(Delays) : Delays[i] \in Nat
BY BudgetAssumption, BoundsAssumption, DelaysAssumption

LEMMA CursorsAreNat == Cursors \subseteq Nat /\ Start \in Cursors
BY EventsAssumption DEF Cursors, TimesOf, Start

\* The log has finitely many events.
LEMMA TimesAreFinite ==
    ASSUME NEW S, S \subseteq Events
    PROVE  Cardinality(TimesOf(S)) \in Nat
<1>1. IsFiniteSet(S)
    BY EventsAssumption, FS_Subset
<1>2. PICK f : f = [e \in S |-> e.time]
    OBVIOUS
<1>3. f \in Surjection(S, TimesOf(S))
    BY <1>2 DEF Surjection, TimesOf
<1>4. IsFiniteSet(TimesOf(S))
    BY <1>1, <1>3, FS_Surjection
<1>5. QED
    BY <1>4, FS_CardinalityType

LEMMA FailedIsTyped ==
    /\ NoList \in Lists /\ NoList.step = "idle" /\ NoList.started = 0
    /\ NoList.rows = {} /\ NoList.asked = {} /\ NoList.cursor = Start
    /\ Failed \in Lists /\ Failed.step = "failed" /\ Failed.started = 0
    /\ Failed.rows = {} /\ Failed.asked = {}
<1>1. PICK cursor \in Cursors : cursor = Start
    BY CursorsAreNat
<1>2. PICK total \in {NoTotal} \cup Nat : total = NoTotal
    OBVIOUS
<1>3. PICK m : m = NoList
    OBVIOUS
<1>4. m = [step |-> "idle", attempt |-> 1, wait |-> 0, last |-> 0, started |-> 0,
           page |-> 1, cursor |-> cursor, cursors |-> {}, rows |-> {}, total |-> total,
           raw |-> TotalRaw, asked |-> {}]
    BY <1>1, <1>2, <1>3 DEF NoList
<1>5. "idle" \in Steps /\ "failed" \in Steps
    BY DEF Steps
<1>6. /\ 1 \in 1..(Len(Delays) + 1) /\ 0 \in 0..Budget /\ 1 \in 1..MaxPages
      /\ TotalRaw \in 0..TotalRaw
    BY Numbers
<1>7. m \in Lists
    BY <1>4, <1>5, <1>6 DEF Lists
<1>8. PICK f : f = [m EXCEPT !.step = "failed"]
    OBVIOUS
<1>9. f \in Lists
    BY <1>5, <1>7, <1>8 DEF Lists
<1>10. f = Failed
    BY <1>3, <1>8 DEF Failed
<1>11. f.step = "failed" /\ f.started = 0 /\ f.rows = {} /\ f.asked = {}
    BY <1>4, <1>8
<1>12. QED
    BY <1>1, <1>3, <1>4, <1>7, <1>9, <1>10, <1>11

LEMMA RaiseKeeps == ASSUME IInv, Raise PROVE IInv'
<1>1. /\ list' \in Lists /\ list'.step = "failed" /\ list'.started = 0
      /\ list'.rows = {} /\ list'.asked = {}
    BY FailedIsTyped DEF Raise, Become
<1>2. Sound(net') /\ net' \in Nets /\ net'.phase = "idle"
    BY IdleIsSound DEF Raise, Sound
<1>3. UNCHANGED world
    BY DEF Raise, Become
<1>4. TypeOK'
    BY <1>1, <1>2, <1>3 DEF IInv, TypeOK, world
<1>5. Accounted'
    BY <1>1, <1>2 DEF Accounted, At
<1>6. Covered'
    BY <1>1 DEF Covered, At, OncePerEvent, Asking, Paging
<1>7. QED
    BY <1>2, <1>4, <1>5, <1>6 DEF IInv

\* Steps that leave the import where it is.
LEMMA NetworkKeeps == ASSUME IInv, Network PROVE IInv'
<1>1. Sound(net') /\ net'.limit = net.limit /\ net'.phase \in {"open", "quit"}
    BY HeadersAreSound, ChunkIsSound, FinishedIsSound, TimersAreSound DEF IInv, Network, Reply
<1>2. list' = list /\ UNCHANGED world
    BY DEF Network, Become
<1>3. net.phase = "open"
    BY DEF Network, Reply, Headers, Chunk, Finished, Expire, CheckCancellation
<1>4. TypeOK'
    BY <1>1, <1>2 DEF IInv, TypeOK, world, Sound
<1>5. Accounted'
    BY <1>1, <1>2, <1>3 DEF IInv, Accounted, At, world
<1>6. Covered'
    BY <1>2 DEF IInv, Covered, At, world
<1>7. QED
    BY <1>1, <1>4, <1>5, <1>6 DEF IInv

LEMMA RequestKeeps ==
    ASSUME IInv, NEW limit \in 0..PageLimit, Request(limit),
           list.step \in Waiting, At("send") => limit <= list.raw
    PROVE  IInv'
<1>1. CASE Stopped
    BY <1>1, RaiseKeeps DEF Request
<1>2. CASE ~Stopped
    <2>1. Open(limit, Smaller(RemoteMax, left)) /\ list' = list /\ UNCHANGED world
        BY <1>2 DEF Request, Become
    <2>2. PICK time : time = Smaller(RemoteMax, left)
        OBVIOUS
    <2>3. time \in 0..RemoteMax
        BY <2>2, Limits, Numbers DEF IInv, TypeOK, Smaller
    <2>4. Sound(net') /\ net'.limit = limit /\ net'.phase = "open"
        BY <2>1, <2>2, <2>3, OpenedIsSound
    <2>5. TypeOK'
        BY <2>1, <2>4 DEF IInv, TypeOK, world, Sound
    <2>6. Accounted'
        BY <2>1, <2>4 DEF IInv, Accounted, At, Waiting, world
    <2>7. Covered'
        BY <2>1 DEF IInv, Covered, At, world
    <2>8. QED
        BY <2>4, <2>5, <2>6, <2>7 DEF IInv
<1>3. QED
    BY <1>1, <1>2

LEMMA AskKeeps == ASSUME IInv, Ask PROVE IInv'
<1>1. PageLimit \in 0..PageLimit
    BY Limits
<1>2. Request(PageLimit) /\ ~At("send") /\ list.step \in Waiting
    BY DEF Ask, Preparing, At, Waiting
<1>3. QED
    BY <1>1, <1>2, RequestKeeps

LEMMA SendKeeps == ASSUME IInv, Send PROVE IInv'
<1>1. PICK limit : limit = Allowance
    OBVIOUS
<1>2. list.raw \in 0..TotalRaw
    BY DEF IInv, TypeOK, Lists
<1>3. limit \in 0..PageLimit /\ limit <= list.raw
    BY <1>1, <1>2, Limits, Numbers DEF Allowance, Smaller
<1>4. Request(limit) /\ list.step \in Waiting
    BY <1>1 DEF Send, At, Waiting
<1>5. QED
    BY <1>3, <1>4, RequestKeeps

-----------------------------------------------------------------------------
(* The world *)

LEMMA ReportKeeps == ASSUME IInv, Report PROVE IInv'
<1>1. PICK e \in Events : reports' = reports \cup {e}
    BY DEF Report
<1>2. UNCHANGED <<net, left, cancelled, list>>
    BY DEF Report
<1>3. TypeOK'
    BY <1>1, <1>2 DEF IInv, TypeOK
<1>4. Sound(net') /\ Accounted'
    BY <1>2 DEF IInv, Accounted, At
<1>5. Covered'
    BY <1>1, <1>2 DEF IInv, Covered, At
<1>6. QED
    BY <1>3, <1>4, <1>5 DEF IInv

LEMMA CancelKeeps == ASSUME IInv, Cancel PROVE IInv'
BY DEF Cancel, IInv, TypeOK, Accounted, Covered, At

LEMMA TickKeeps == ASSUME IInv, Tick PROVE IInv'
<1>1. PICK n : n = net
    OBVIOUS
<1>2. PICK l : l = list
    OBVIOUS
<1>3. PICK due : due = Less(n.due)
    OBVIOUS
<1>4. PICK wait : wait = Less(l.wait)
    OBVIOUS
<1>5. /\ left \in 1..Budget /\ left' = left - 1 /\ UNCHANGED <<reports, cancelled>>
      /\ net' = [n EXCEPT !.due = due] /\ list' = [l EXCEPT !.wait = wait]
    BY <1>1, <1>2, <1>3, <1>4, Numbers DEF Tick, IInv, TypeOK
<1>6. n \in Nets /\ l \in Lists /\ n.due \in 0..RemoteMax /\ l.wait \in Nat
    BY <1>1, <1>2 DEF IInv, TypeOK, Nets, Lists
<1>7. due \in 0..RemoteMax /\ wait \in Nat /\ l.wait <= wait + 1
    BY <1>3, <1>4, <1>6, Limits DEF Less
<1>8. /\ net' \in Nets /\ net'.limit = n.limit /\ net'.phase = n.phase
      /\ net'.body = n.body /\ net'.status = n.status /\ net'.reply = n.reply
    BY <1>5, <1>6, <1>7 DEF Nets
<1>9. Sound(net')
    BY <1>1, <1>8 DEF IInv, Sound, RawLimit
<1>10. /\ list' \in Lists /\ list'.step = l.step /\ list'.started = l.started
       /\ list'.last = l.last /\ list'.wait = wait /\ list'.raw = l.raw
       /\ list'.rows = l.rows /\ list'.asked = l.asked /\ list'.cursor = l.cursor
    BY <1>5, <1>6, <1>7 DEF Lists
<1>11. TypeOK'
    BY <1>5, <1>8, <1>10, Numbers DEF IInv, TypeOK
<1>12. l.last \in 0..Budget
    BY <1>6 DEF Lists
<1>13. Accounted'
    <2>1. /\ net'.phase # "idle" => list'.step \in Waiting
          /\ At("send")' /\ net'.phase # "idle" => net'.limit <= list'.raw
        BY <1>1, <1>2, <1>8, <1>10 DEF IInv, Accounted, At
    <2>2. list'.started > 0 => (list'.started - 1) * Interval <= Budget - list'.last
        BY <1>2, <1>10 DEF IInv, Accounted
    <2>3. At("pace")' /\ list'.started > 0 => Interval <= list'.last - left' + list'.wait
        <3>1. SUFFICES ASSUME l.step = "pace", l.started > 0
                       PROVE  Interval <= l.last - left' + wait
            BY <1>10 DEF At
        <3>2. Interval <= l.last - left + l.wait
            BY <1>2, <3>1 DEF IInv, Accounted, At
        <3>3. PICK last \in Int, waited \in Int : last = l.last /\ waited = l.wait
            BY <1>6, <1>12
        <3>4. left \in Int /\ left' \in Int /\ Interval \in Int
            BY <1>5, Numbers
        <3>5. QED
            BY <1>5, <1>7, <3>2, <3>3, <3>4
    <2>4. QED
        BY <2>1, <2>2, <2>3 DEF Accounted
<1>14. Covered'
    BY <1>2, <1>5, <1>10 DEF IInv, Covered, At
<1>15. QED
    BY <1>9, <1>11, <1>13, <1>14 DEF IInv

-----------------------------------------------------------------------------
(* The steps of the import *)

LEMMA BeginKeeps == ASSUME IInv, Begin PROVE IInv'
<1>1. PICK l : l = list
    OBVIOUS
<1>2. /\ l \in Lists /\ l.step = "idle" /\ list' = [l EXCEPT !.step = "token"]
      /\ net' = net /\ UNCHANGED world
    BY <1>1 DEF Begin, Become, At, IInv, TypeOK
<1>3. "token" \in Steps
    BY DEF Steps
<1>4. /\ list' \in Lists /\ list'.step = "token" /\ list'.started = l.started
      /\ list'.last = l.last /\ list'.rows = l.rows /\ list'.asked = l.asked
      /\ list'.cursor = l.cursor
    BY <1>2, <1>3 DEF Lists
<1>5. TypeOK'
    BY <1>2, <1>4 DEF IInv, TypeOK, world
<1>6. Sound(net') /\ Accounted'
    BY <1>1, <1>2, <1>4 DEF IInv, Accounted, At, Waiting
<1>7. Covered'
    BY <1>1, <1>2, <1>4 DEF IInv, Covered, At, world, Asking, Paging
<1>8. QED
    BY <1>5, <1>6, <1>7 DEF IInv

LEMMA AnswerKeeps == ASSUME IInv, Answer PROVE IInv'
<1>1. CASE Raise
    BY <1>1, RaiseKeeps
<1>2. ASSUME ~Raise PROVE IInv'
    <2>1. PICK l : l = list
        OBVIOUS
    <2>2. PICK known : known = reports
        OBVIOUS
    <2>3. /\ l \in Lists /\ l.step \in {"token", "specification"} /\ net' = IdleNet
          /\ list' = IF l.step = "token" THEN [l EXCEPT !.step = "specification"]
                     ELSE [l EXCEPT !.step = "page", !.asked = known]
          /\ UNCHANGED world
        BY <1>2, <2>1, <2>2 DEF Answer, Preparing, Become, At, IInv, TypeOK
    <2>4. Sound(net') /\ net' \in Nets /\ net'.phase = "idle"
        BY <2>3, IdleIsSound DEF Sound
    <2>5. "specification" \in Steps /\ "page" \in Steps /\ known \in SUBSET Events
        BY <2>2 DEF Steps, IInv, TypeOK
    <2>6. /\ l.started > 0 => (l.started - 1) * Interval <= Budget - l.last
          /\ l.rows \subseteq known /\ OncePerEvent(l.rows)
          /\ l.asked = {} /\ l.cursor = Start
        BY <2>1, <2>2, <2>3 DEF IInv, Accounted, Covered, Asking
    <2>7. CASE l.step = "token"
        <3>1. /\ list' \in Lists /\ list'.step = "specification" /\ list'.started = l.started
              /\ list'.last = l.last /\ list'.rows = l.rows /\ list'.asked = {}
              /\ list'.cursor = Start
            BY <2>3, <2>5, <2>6, <2>7 DEF Lists
        <3>2. TypeOK'
            BY <2>3, <2>4, <3>1 DEF IInv, TypeOK, world
        <3>3. Accounted'
            BY <2>4, <2>6, <3>1 DEF Accounted, At
        <3>4. Covered'
            BY <2>2, <2>3, <2>6, <3>1 DEF Covered, At, world, Asking, Paging
        <3>5. QED
            BY <2>4, <3>2, <3>3, <3>4 DEF IInv
    <2>8. CASE l.step # "token"
        <3>1. /\ list' \in Lists /\ list'.step = "page" /\ list'.started = l.started
              /\ list'.last = l.last /\ list'.rows = l.rows /\ list'.asked = known
              /\ list'.cursor = Start
            BY <2>3, <2>5, <2>6, <2>8 DEF Lists
        <3>2. TypeOK'
            BY <2>3, <2>4, <3>1 DEF IInv, TypeOK, world
        <3>3. Accounted'
            BY <2>4, <2>6, <3>1 DEF Accounted, At
        <3>4. \A e \in known : ~(e.time <= Start)
            BY <2>5, EventsAssumption DEF Start
        <3>5. Covered'
            BY <2>2, <2>3, <2>6, <3>1, <3>4 DEF Covered, At, world, Asking, Paging
        <3>6. QED
            BY <2>4, <3>2, <3>3, <3>5 DEF IInv
    <2>9. QED
        BY <2>7, <2>8
<1>3. QED
    BY <1>1, <1>2

\* Moves from a step of paging to another.
LEMMA MoveKeeps ==
    ASSUME IInv, NEW step \in Paging \ {"send"}, NEW attempt \in 1..(Len(Delays) + 1),
           NEW wait \in Nat, list.step \in Paging, UNCHANGED world,
           Sound(net'), net' \in Nets, net'.phase = "idle",
           list' = [list EXCEPT !.step = step, !.attempt = attempt, !.wait = wait],
           step = "pace" /\ list.started > 0 => Interval <= list.last - left + wait
    PROVE  IInv'
<1>1. PICK l : l = list
    OBVIOUS
<1>2. l \in Lists /\ step \in Steps
    BY <1>1 DEF IInv, TypeOK, Paging, Steps
<1>3. list' = [l EXCEPT !.step = step, !.attempt = attempt, !.wait = wait]
    BY <1>1
<1>4. /\ list' \in Lists /\ list'.step = step /\ list'.started = l.started
      /\ list'.last = l.last /\ list'.wait = wait /\ list'.rows = l.rows
      /\ list'.asked = l.asked /\ list'.cursor = l.cursor
    BY <1>2, <1>3 DEF Lists
<1>5. TypeOK'
    BY <1>4 DEF IInv, TypeOK, world
<1>6. Accounted'
    BY <1>1, <1>4 DEF IInv, Accounted, At, world
<1>7. Covered'
    BY <1>1, <1>4 DEF IInv, Covered, At, world, Asking, Paging
<1>8. QED
    BY <1>5, <1>6, <1>7 DEF IInv

LEMMA FetchKeeps == ASSUME IInv, Fetch PROVE IInv'
<1>1. CASE Stopped
    BY <1>1, RaiseKeeps DEF Fetch
<1>2. CASE ~Stopped
    <2>1. /\ list' = [list EXCEPT !.step = "delay", !.attempt = 1, !.wait = 0]
          /\ UNCHANGED world /\ net' = net /\ list.step = "page"
        BY <1>2 DEF Fetch, Become, At
    <2>2. 1 \in 1..(Len(Delays) + 1) /\ 0 \in Nat
        BY Numbers
    <2>3. Sound(net') /\ net' \in Nets /\ net'.phase = "idle"
        BY <2>1 DEF IInv, Sound, Accounted, Waiting
    <2>4. "delay" \in Paging \ {"send"} /\ list.step \in Paging /\ "delay" # "pace"
        BY <2>1 DEF Paging
    <2>5. QED
        BY <2>1, <2>2, <2>3, <2>4, MoveKeeps
<1>3. QED
    BY <1>1, <1>2

LEMMA DelayKeeps == ASSUME IInv, Delay PROVE IInv'
<1>1. CASE Stopped
    BY <1>1, RaiseKeeps DEF Delay
<1>2. CASE ~Stopped
    <2>1. PICK wait : wait = Gap
        OBVIOUS
    <2>2. PICK l : l = list
        OBVIOUS
    <2>3. l \in Lists /\ l.last \in 0..Budget /\ left \in 0..Budget
        BY <2>2 DEF IInv, TypeOK, Lists
    <2>4. wait \in Nat /\ (l.started > 0 => Interval <= l.last - left + wait)
        <3>1. PICK last \in Int : last = l.last
            BY <2>3
        <3>2. left \in Int /\ Interval \in Nat
            BY <2>3, Numbers
        <3>3. l.started \in Nat
            BY <2>3 DEF Lists
        <3>4. wait = IF l.started = 0 \/ Interval <= last - left THEN 0
                     ELSE Interval - (last - left)
            BY <2>1, <2>2, <3>1 DEF Gap
        <3>5. QED
            BY <3>1, <3>2, <3>3, <3>4
    <2>5. PICK attempt : attempt = l.attempt
        OBVIOUS
    <2>6. attempt \in 1..(Len(Delays) + 1)
        BY <2>3, <2>5 DEF Lists
    <2>7. list' = [l EXCEPT !.step = "pace", !.wait = wait]
        BY <1>2, <2>1, <2>2 DEF Delay, Become
    <2>8. list' = [l EXCEPT !.step = "pace", !.attempt = attempt, !.wait = wait]
        BY <2>3, <2>5, <2>7 DEF Lists
    <2>9. /\ UNCHANGED world /\ Sound(net') /\ net' \in Nets /\ net'.phase = "idle"
          /\ "pace" \in Paging \ {"send"} /\ list.step \in Paging
        BY <1>2 DEF Delay, Become, At, IInv, Sound, Paging, Accounted, Waiting
    <2>10. QED
        BY <2>2, <2>4, <2>6, <2>8, <2>9, MoveKeeps
<1>3. QED
    BY <1>1, <1>2

LEMMA RateLimitedKeeps == ASSUME IInv, RateLimited PROVE IInv'
<1>1. CASE list.attempt > Len(Delays)
    BY <1>1, RaiseKeeps DEF RateLimited
<1>2. CASE ~(list.attempt > Len(Delays))
    <2>1. list.attempt \in 1..(Len(Delays) + 1)
        BY DEF IInv, TypeOK, Lists
    <2>2. list.attempt \in 1..Len(Delays)
        BY <1>2, <2>1, Numbers
    <2>3. PICK wait \in Nat : wait = Delays[list.attempt]
        BY <2>2, Numbers
    <2>4. PICK attempt \in 1..(Len(Delays) + 1) : attempt = list.attempt + 1
        BY <2>2, Numbers
    <2>5. list' = [list EXCEPT !.step = "delay", !.attempt = attempt, !.wait = wait]
        BY <1>2, <2>3, <2>4 DEF RateLimited, Become
    <2>6. /\ UNCHANGED world /\ Sound(net') /\ net' \in Nets /\ net'.phase = "idle"
          /\ "delay" \in Paging \ {"send"} /\ list.step \in Paging /\ "delay" # "pace"
        BY <1>2, IdleIsSound DEF RateLimited, Become, At, Sound, Paging
    <2>7. QED
        BY <2>5, <2>6, MoveKeeps
<1>3. QED
    BY <1>1, <1>2

\* The gap that was waited for is one interval more since the first request.
LEMMA PaceKeeps == ASSUME IInv, Pace PROVE IInv'
<1>1. CASE Stopped
    BY <1>1, RaiseKeeps DEF Pace
<1>2. CASE ~Stopped
    <2>1. PICK l : l = list
        OBVIOUS
    <2>2. PICK now : now = left
        OBVIOUS
    <2>3. PICK started : started = l.started + 1
        OBVIOUS
    <2>4. /\ l \in Lists /\ l.step = "pace" /\ l.wait = 0 /\ now \in 0..Budget
          /\ l.last \in 0..Budget /\ l.started \in Nat
        BY <1>2, <2>1, <2>2 DEF Pace, Waited, At, IInv, TypeOK, Lists
    <2>5. /\ list' = [l EXCEPT !.step = "send", !.last = now, !.started = started]
          /\ net' = net /\ UNCHANGED world
        BY <1>2, <2>1, <2>2, <2>3 DEF Pace, Become
    <2>6. "send" \in Steps /\ started \in Nat
        BY <2>3, <2>4 DEF Steps
    <2>7. /\ list' \in Lists /\ list'.step = "send" /\ list'.started = started
          /\ list'.last = now /\ list'.rows = l.rows /\ list'.raw = l.raw
          /\ list'.asked = l.asked /\ list'.cursor = l.cursor
        BY <2>4, <2>5, <2>6 DEF Lists
    <2>8. (started - 1) * Interval <= Budget - now
        <3>1. PICK s \in Nat, last \in 0..Budget : s = l.started /\ last = l.last
            BY <2>4
        <3>2. CASE s = 0
            BY <2>3, <2>4, <3>1, <3>2, Numbers
        <3>3. CASE s # 0
            <4>1. (s - 1) * Interval <= Budget - last /\ Interval <= last - now
                BY <2>1, <2>2, <2>4, <3>1, <3>3, Numbers DEF IInv, Accounted, At
            <4>2. s * Interval = (s - 1) * Interval + Interval
                BY <3>3, Numbers
            <4>3. PICK p \in Int : p = (s - 1) * Interval
                BY <3>3, Numbers
            <4>4. p <= Budget - last
                BY <4>1, <4>3
            <4>5. s * Interval = p + Interval
                BY <4>2, <4>3
            <4>6. Interval <= last - now
                BY <4>1
            <4>7. p + Interval <= Budget - now
                <5>1. PICK budget \in Int, interval \in Int : budget = Budget /\ interval = Interval
                    BY Numbers
                <5>2. now \in Int /\ last \in Int
                    BY <2>4, <3>1, Numbers
                <5>3. QED
                    BY <4>3, <4>4, <4>6, <5>1, <5>2
            <4>8. started - 1 = s
                BY <2>3, <3>1
            <4>9. QED
                BY <4>5, <4>7, <4>8
        <3>4. QED
            BY <3>2, <3>3
    <2>9. TypeOK'
        BY <2>5, <2>7 DEF IInv, TypeOK, world
    <2>10. Sound(net') /\ net'.phase = "idle"
        BY <2>1, <2>4, <2>5 DEF IInv, Accounted, Waiting
    <2>11. Accounted'
        BY <2>2, <2>7, <2>8, <2>10 DEF Accounted, At
    <2>12. Covered'
        BY <2>1, <2>4, <2>5, <2>7 DEF IInv, Covered, At, world, Asking, Paging
    <2>13. QED
        BY <2>9, <2>10, <2>11, <2>12 DEF IInv
<1>3. QED
    BY <1>1, <1>2

\* A page that is kept: the rows of the log up to the next cursor, once each.
LEMMA PageCovers ==
    ASSUME IInv, At("send"), NEW p \in Answers(list.cursor), ~Refused(p),
           NEW rows, rows = list.rows \cup p.rows
    PROVE  /\ rows \subseteq reports /\ rows \subseteq Events /\ OncePerEvent(rows)
           /\ p.next \in Cursors
           /\ p.total \in {NoTotal} \cup Nat
           /\ p.more => \A e \in list.asked : e.time <= p.next => e.time \in TimesOf(rows)
           /\ ~p.more => TimesOf(list.asked) \subseteq TimesOf(rows)
<1>1. PICK l : l = list
    OBVIOUS
<1>2. /\ l.rows \subseteq reports /\ reports \subseteq Events /\ OncePerEvent(l.rows)
      /\ l.asked \subseteq reports /\ l.cursor \in Cursors
      /\ \A e \in l.asked : e.time <= l.cursor => e.time \in TimesOf(l.rows)
    BY <1>1 DEF IInv, TypeOK, Lists, Covered, At, Paging
<1>3. /\ p \in [rows : SUBSET reports, more : BOOLEAN, next : Cursors,
                total : {NoTotal, Cardinality(TimesOf(reports))}]
      /\ \A t \in TimesOf(reports) :
            l.cursor < t /\ (p.more => t <= p.next) => t \in TimesOf(p.rows)
    BY <1>1 DEF Answers
<1>4. p.rows \subseteq reports /\ p.next \in Cursors
    BY <1>3
<1>5. p.total \in {NoTotal} \cup Nat
    BY <1>2, <1>3, TimesAreFinite
<1>6. \A e \in p.rows, f \in p.rows \cup l.rows : e.time = f.time => e = f
    BY <1>1 DEF Refused, Contradicts
<1>7. OncePerEvent(rows)
    BY <1>1, <1>2, <1>6 DEF OncePerEvent
<1>8. TimesOf(l.rows) \subseteq TimesOf(rows) /\ TimesOf(p.rows) \subseteq TimesOf(rows)
    BY <1>1 DEF TimesOf
<1>9. ASSUME NEW e \in l.asked, p.more => e.time <= p.next
      PROVE  e.time \in TimesOf(rows)
    <2>1. e.time \in TimesOf(reports)
        BY <1>2 DEF TimesOf
    <2>2. e.time \in Nat /\ l.cursor \in Nat
        BY <1>2, EventsAssumption, CursorsAreNat
    <2>3. CASE e.time <= l.cursor
        BY <1>2, <1>8, <2>3
    <2>4. CASE ~(e.time <= l.cursor)
        <3>1. PICK t : t = e.time
            OBVIOUS
        <3>2. t \in TimesOf(reports) /\ l.cursor < t /\ (p.more => t <= p.next)
            BY <1>9, <2>1, <2>2, <2>4, <3>1
        <3>3. t \in TimesOf(p.rows)
            BY <1>3, <3>2
        <3>4. QED
            BY <1>8, <3>1, <3>3
    <2>5. QED
        BY <2>3, <2>4
<1>10. ~p.more => TimesOf(l.asked) \subseteq TimesOf(rows)
    BY <1>9 DEF TimesOf
<1>11. QED
    BY <1>1, <1>2, <1>4, <1>5, <1>7, <1>9, <1>10

\* The body is within the allowance, and the allowance within the total.
LEMMA BodyIsAllowed ==
    ASSUME IInv, At("send"), net.phase = "quit", Arrived(Final), Final.status = "ok"
    PROVE  list.raw - Final.body \in 0..TotalRaw
<1>1. PICK n : n = Final
    OBVIOUS
<1>2. Sound(n) /\ n.limit = net.limit
    BY <1>1, DrainedIsSound DEF IInv, Final
<1>3. n.body \in Nat /\ n.body <= n.limit
    BY <1>1, <1>2 DEF Arrived, RawLimit, Sound, Nets
<1>4. net.limit <= list.raw /\ list.raw \in 0..TotalRaw /\ net.limit \in Nat
    BY Limits DEF IInv, Accounted, TypeOK, Lists, Nets
<1>5. QED
    BY <1>1, <1>2, <1>3, <1>4, Numbers

LEMMA TakePageKeeps == ASSUME IInv, TakePage PROVE IInv'
<1>1. CASE Raise
    BY <1>1, RaiseKeeps
<1>2. ASSUME ~Raise PROVE IInv'
    <2>1. PICK p \in Answers(list.cursor) :
              /\ ~Refused(p) /\ net' = IdleNet
              /\ Become(IF ~p.more THEN [Kept(p) EXCEPT !.step = "done"]
                        ELSE IF list.page = MaxPages THEN OutOfPages(Kept(p))
                        ELSE [Kept(p) EXCEPT !.step = "page", !.page = @ + 1,
                                             !.cursor = p.next,
                                             !.cursors = @ \cup {p.next}])
        BY <1>2 DEF TakePage
    <2>2. PICK l : l = list
        OBVIOUS
    <2>3. l \in Lists /\ l.step = "send"
        BY <2>2 DEF TakePage, At, IInv, TypeOK
    <2>4. PICK rows : rows = l.rows \cup p.rows
        OBVIOUS
    <2>5. /\ rows \subseteq reports /\ rows \subseteq Events /\ OncePerEvent(rows)
          /\ p.next \in Cursors /\ p.total \in {NoTotal} \cup Nat
          /\ p.more => \A e \in l.asked : e.time <= p.next => e.time \in TimesOf(rows)
          /\ ~p.more => TimesOf(l.asked) \subseteq TimesOf(rows)
        BY <2>1, <2>2, <2>3, <2>4, PageCovers DEF At
    <2>6. PICK raw : raw = l.raw - Final.body
        OBVIOUS
    <2>7. raw \in 0..TotalRaw
        BY <2>2, <2>6, BodyIsAllowed DEF TakePage
    <2>8. PICK total : total = IF p.total = NoTotal THEN l.total ELSE p.total
        OBVIOUS
    <2>9. total \in {NoTotal} \cup Nat
        BY <2>3, <2>5, <2>8 DEF Lists
    <2>10. PICK kept : kept = Kept(p)
        OBVIOUS
    <2>11. PICK charged : charged = [l EXCEPT !.raw = raw]
        OBVIOUS
    <2>12. charged \in Lists /\ charged.rows = l.rows /\ charged.total = l.total
        BY <2>3, <2>7, <2>11 DEF Lists
    <2>13. kept = [charged EXCEPT !.rows = rows, !.total = total]
        BY <2>2, <2>4, <2>6, <2>8, <2>10, <2>11, <2>12 DEF Kept, Charged
    <2>14. kept \in Lists
        BY <2>5, <2>9, <2>12, <2>13 DEF Lists
    <2>15. /\ kept.rows = rows /\ kept.asked = l.asked /\ kept.started = l.started
           /\ kept.last = l.last /\ kept.page = l.page /\ kept.cursors = l.cursors
        BY <2>3, <2>11, <2>12, <2>13 DEF Lists
    <2>16. UNCHANGED world /\ Sound(net') /\ net' \in Nets /\ net'.phase = "idle"
        BY <2>1, IdleIsSound DEF Become, Sound
    <2>17. /\ l.asked \subseteq reports
           /\ l.started > 0 => (l.started - 1) * Interval <= Budget - l.last
        BY <2>2 DEF IInv, Covered, Accounted
    <2>18. CASE ~p.more
        <3>1. PICK m : m = [kept EXCEPT !.step = "done"]
            OBVIOUS
        <3>2. "done" \in Steps
            BY DEF Steps
        <3>3. /\ m \in Lists /\ m.step = "done" /\ m.rows = rows /\ m.asked = l.asked
              /\ m.started = l.started /\ m.last = l.last
            BY <2>14, <2>15, <3>1, <3>2 DEF Lists
        <3>4. list' = m
            BY <2>1, <2>10, <2>18, <3>1 DEF Become
        <3>5. TypeOK'
            BY <2>16, <3>3, <3>4 DEF IInv, TypeOK, world
        <3>6. Accounted'
            BY <2>16, <2>17, <3>3, <3>4 DEF Accounted, At
        <3>7. Covered'
            BY <2>5, <2>16, <2>17, <2>18, <3>3, <3>4 DEF Covered, At, world, Asking, Paging
        <3>8. QED
            BY <2>16, <3>5, <3>6, <3>7 DEF IInv
    <2>19. CASE p.more /\ list.page = MaxPages
        <3>1. list' = Failed
            BY <2>1, <2>19 DEF Become, OutOfPages
        <3>2. Raise
            BY <2>1, <3>1 DEF Raise, Become
        <3>3. QED
            BY <1>2, <3>2
    <2>20. CASE p.more /\ list.page # MaxPages
        <3>1. PICK page \in 1..MaxPages : page = l.page + 1
            BY <2>2, <2>3, <2>20, Numbers DEF Lists
        <3>2. PICK cursors : cursors = l.cursors \cup {p.next}
            OBVIOUS
        <3>3. cursors \in SUBSET Cursors
            BY <2>3, <2>5, <3>2 DEF Lists
        <3>4. PICK m : m = [kept EXCEPT !.step = "page", !.page = page,
                                        !.cursor = p.next, !.cursors = cursors]
            OBVIOUS
        <3>5. "page" \in Steps
            BY DEF Steps
        <3>6. /\ m \in Lists /\ m.step = "page" /\ m.rows = rows /\ m.asked = l.asked
              /\ m.started = l.started /\ m.last = l.last /\ m.cursor = p.next
            BY <2>5, <2>14, <2>15, <3>1, <3>3, <3>4, <3>5 DEF Lists
        <3>7. list' = m
            BY <2>1, <2>10, <2>14, <2>15, <2>20, <3>1, <3>2, <3>4 DEF Become, Lists
        <3>8. TypeOK'
            BY <2>16, <3>6, <3>7 DEF IInv, TypeOK, world
        <3>9. Accounted'
            BY <2>16, <2>17, <3>6, <3>7 DEF Accounted, At
        <3>10. Covered'
            BY <2>5, <2>16, <2>17, <2>20, <3>6, <3>7 DEF Covered, At, world, Asking, Paging
        <3>11. QED
            BY <2>16, <3>8, <3>9, <3>10 DEF IInv
    <2>21. QED
        BY <2>3, <2>1, <2>18, <2>19, <2>20
<1>3. QED
    BY <1>1, <1>2

-----------------------------------------------------------------------------
(* The theorems *)

LEMMA Initial == Init => IInv
<1>1. SUFFICES ASSUME Init PROVE IInv
    OBVIOUS
<1>2. Sound(net) /\ net \in Nets /\ net.phase = "idle"
    BY <1>1, IdleIsSound DEF Init, Sound
<1>3. TypeOK
    <2>1. list = NoList /\ NoList \in Lists
        BY <1>1, FailedIsTyped DEF Init
    <2>2. reports \subseteq Events /\ left = Budget /\ cancelled = FALSE
        BY <1>1 DEF Init
    <2>3. left \in 0..Budget
        BY <2>2, Numbers
    <2>4. QED
        BY <1>2, <2>1, <2>2, <2>3 DEF TypeOK
<1>4. Accounted
    BY <1>1, <1>2, FailedIsTyped DEF Init, Accounted, At
<1>5. Covered
    BY <1>1, FailedIsTyped DEF Init, Covered, At, OncePerEvent, Asking, Paging
<1>6. QED
    BY <1>2, <1>3, <1>4, <1>5 DEF IInv

LEMMA Inductive == IInv /\ [Next]_vars => IInv'
<1>1. SUFFICES ASSUME IInv, [Next]_vars PROVE IInv'
    OBVIOUS
<1>2. CASE Next
    <2>1. CASE Report \/ Cancel \/ Tick \/ Begin \/ Network
        BY <1>1, <2>1, ReportKeeps, CancelKeeps, TickKeeps, BeginKeeps, NetworkKeeps
    <2>2. CASE Step
        BY <1>1, <2>2, AskKeeps, AnswerKeeps, FetchKeeps, DelayKeeps, PaceKeeps, SendKeeps,
           RateLimitedKeeps, TakePageKeeps, RaiseKeeps DEF Step, LosePage
    <2>3. QED
        BY <1>2, <2>1, <2>2 DEF Next
<1>3. CASE UNCHANGED vars
    <2>1. net' = net /\ list' = list /\ UNCHANGED world
        BY <1>3 DEF vars, world
    <2>2. TypeOK' /\ Sound(net')
        BY <1>1, <2>1 DEF IInv, TypeOK, world
    <2>3. Accounted'
        BY <1>1, <2>1 DEF IInv, Accounted, At, world
    <2>4. Covered'
        BY <1>1, <2>1 DEF IInv, Covered, At, world
    <2>5. QED
        BY <2>2, <2>3, <2>4 DEF IInv
<1>4. QED
    BY <1>1, <1>2, <1>3

\* What every state of an import satisfies.
THEOREM Invariant == Spec => []IInv
BY Initial, Inductive, PTL DEF Spec

\* TypeOK and the limits of every body, for any sizes and in whatever chunks
\* they come: BudgetsKept.
THEOREM BudgetsAreKept == Spec => []BudgetsKept
<1>1. IInv => BudgetsKept
    BY DEF IInv, Sound, RawLimit, BudgetsKept
<1>2. QED
    BY <1>1, Invariant, PTL

\* Requests for pages never start closer than the interval: RateKept.
THEOREM RateIsKept == Spec => []RateKept
<1>1. IInv => RateKept
    BY DEF IInv, Accounted, RateKept
<1>2. QED
    BY <1>1, Invariant, PTL

-----------------------------------------------------------------------------
(* The refinement *)

\* What a step means for the listing: nothing, the beginning or the end of it.
Stays == /\ UNCHANGED reports /\ list'.asked = list.asked
         /\ \/ list.step \in Asking /\ list'.step \in Asking
            \/ list.step \in Paging /\ list'.step \in Paging
Begins == /\ UNCHANGED reports /\ list.step = "specification" /\ list'.step = "page"
          /\ list'.asked = reports
Ends == /\ UNCHANGED reports /\ list.step = "send" /\ list'.step = "done"
        /\ list'.asked = list.asked
Fails == Raise /\ list.step \in Asking \cup Paging

LEMMA RequestMeans ==
    ASSUME NEW limit, Request(limit), list.step \in Asking \cup Paging
    PROVE  Fails \/ Stays
BY DEF Request, Become, world, Fails, Stays

LEMMA AnswerMeans == ASSUME IInv, Answer PROVE Fails \/ Stays \/ Begins
<1>1. list.step \in {"token", "specification"} /\ list \in Lists
    BY DEF Answer, Preparing, At, IInv, TypeOK
<1>2. CASE Raise
    BY <1>1, <1>2 DEF Fails, Asking
<1>3. ASSUME ~Raise PROVE Stays \/ Begins
    <2>1. PICK l : l = list
        OBVIOUS
    <2>2. PICK known : known = reports
        OBVIOUS
    <2>3. /\ list' = IF l.step = "token" THEN [l EXCEPT !.step = "specification"]
                     ELSE [l EXCEPT !.step = "page", !.asked = known]
          /\ UNCHANGED reports
        BY <1>3, <2>1, <2>2 DEF Answer, Become, At, world
    <2>4. CASE l.step = "token"
        <3>1. list'.step = "specification" /\ list'.asked = l.asked
            BY <1>1, <2>1, <2>3, <2>4 DEF Lists
        <3>2. QED
            BY <1>1, <2>1, <2>3, <3>1 DEF Stays, Asking
    <2>5. CASE l.step # "token"
        <3>1. list'.step = "page" /\ list'.asked = known
            BY <1>1, <2>1, <2>3, <2>5 DEF Lists
        <3>2. QED
            BY <1>1, <2>1, <2>2, <2>3, <2>5, <3>1 DEF Begins
    <2>6. QED
        BY <2>4, <2>5
<1>4. QED
    BY <1>2, <1>3

LEMMA FetchMeans == ASSUME IInv, Fetch PROVE Fails \/ Stays
<1>1. list.step \in Paging /\ list \in Lists
    BY DEF Fetch, At, Paging, IInv, TypeOK
<1>2. CASE Stopped
    BY <1>1, <1>2 DEF Fetch, Fails
<1>3. CASE ~Stopped
    <2>1. PICK l : l = list
        OBVIOUS
    <2>2. list' = [l EXCEPT !.step = "delay", !.attempt = 1, !.wait = 0] /\ UNCHANGED reports
        BY <1>3, <2>1 DEF Fetch, Become, world
    <2>3. list'.step = "delay" /\ list'.asked = l.asked
        BY <1>1, <2>1, <2>2 DEF Lists
    <2>4. QED
        BY <1>1, <2>1, <2>2, <2>3 DEF Stays, Paging
<1>4. QED
    BY <1>2, <1>3

LEMMA DelayMeans == ASSUME IInv, Delay PROVE Fails \/ Stays
<1>1. list.step \in Paging /\ list \in Lists
    BY DEF Delay, At, Paging, IInv, TypeOK
<1>2. CASE Stopped
    BY <1>1, <1>2 DEF Delay, Fails
<1>3. CASE ~Stopped
    <2>1. PICK l : l = list
        OBVIOUS
    <2>2. PICK wait : wait = Gap
        OBVIOUS
    <2>3. list' = [l EXCEPT !.step = "pace", !.wait = wait] /\ UNCHANGED reports
        BY <1>3, <2>1, <2>2 DEF Delay, Become, world
    <2>4. list'.step = "pace" /\ list'.asked = l.asked
        BY <1>1, <2>1, <2>3 DEF Lists
    <2>5. QED
        BY <1>1, <2>1, <2>3, <2>4 DEF Stays, Paging
<1>4. QED
    BY <1>2, <1>3

LEMMA PaceMeans == ASSUME IInv, Pace PROVE Fails \/ Stays
<1>1. list.step \in Paging /\ list \in Lists
    BY DEF Pace, At, Paging, IInv, TypeOK
<1>2. CASE Stopped
    BY <1>1, <1>2 DEF Pace, Fails
<1>3. CASE ~Stopped
    <2>1. PICK l : l = list
        OBVIOUS
    <2>2. PICK now, started : now = left /\ started = l.started + 1
        OBVIOUS
    <2>3. /\ list' = [l EXCEPT !.step = "send", !.last = now, !.started = started]
          /\ UNCHANGED reports
        BY <1>3, <2>1, <2>2 DEF Pace, Become, world
    <2>4. list'.step = "send" /\ list'.asked = l.asked
        BY <1>1, <2>1, <2>3 DEF Lists
    <2>5. QED
        BY <1>1, <2>1, <2>3, <2>4 DEF Stays, Paging
<1>4. QED
    BY <1>2, <1>3

LEMMA RateLimitedMeans == ASSUME IInv, RateLimited PROVE Fails \/ Stays
<1>1. list.step \in Paging /\ list \in Lists
    BY DEF RateLimited, At, Paging, IInv, TypeOK
<1>2. CASE list.attempt > Len(Delays)
    BY <1>1, <1>2 DEF RateLimited, Fails
<1>3. CASE ~(list.attempt > Len(Delays))
    <2>1. PICK l : l = list
        OBVIOUS
    <2>2. PICK wait, attempt : wait = Delays[l.attempt] /\ attempt = l.attempt + 1
        OBVIOUS
    <2>3. /\ list' = [l EXCEPT !.step = "delay", !.wait = wait, !.attempt = attempt]
          /\ UNCHANGED reports
        BY <1>3, <2>1, <2>2 DEF RateLimited, Become, world
    <2>4. list'.step = "delay" /\ list'.asked = l.asked
        BY <1>1, <2>1, <2>3 DEF Lists
    <2>5. QED
        BY <1>1, <2>1, <2>3, <2>4 DEF Stays, Paging
<1>4. QED
    BY <1>2, <1>3

LEMMA TakePageMeans == ASSUME IInv, TakePage PROVE Fails \/ Stays \/ Ends
<1>1. list.step = "send" /\ list \in Lists
    BY DEF TakePage, At, IInv, TypeOK
<1>2. CASE Raise
    BY <1>1, <1>2 DEF Fails, Paging
<1>3. ASSUME ~Raise PROVE Stays \/ Ends
    <2>1. PICK p \in Answers(list.cursor) :
              /\ net' = IdleNet
              /\ Become(IF ~p.more THEN [Kept(p) EXCEPT !.step = "done"]
                        ELSE IF list.page = MaxPages THEN OutOfPages(Kept(p))
                        ELSE [Kept(p) EXCEPT !.step = "page", !.page = @ + 1,
                                             !.cursor = p.next,
                                             !.cursors = @ \cup {p.next}])
        BY <1>3 DEF TakePage
    <2>2. PICK l : l = list
        OBVIOUS
    <2>3. PICK kept : kept = Kept(p)
        OBVIOUS
    <2>4. PICK raw, rows, total :
              kept = [[l EXCEPT !.raw = raw] EXCEPT !.rows = rows, !.total = total]
        BY <2>2, <2>3 DEF Kept, Charged
    <2>5. DOMAIN l = {"step", "attempt", "wait", "last", "started", "page", "cursor",
                      "cursors", "rows", "total", "raw", "asked"}
        BY <1>1, <2>2 DEF Lists
    <2>6. kept.asked = l.asked /\ DOMAIN kept = DOMAIN l
        BY <2>4, <2>5
    <2>7. UNCHANGED reports
        BY <2>1 DEF Become, world
    <2>8. CASE ~p.more
        <3>1. list' = [kept EXCEPT !.step = "done"]
            BY <2>1, <2>3, <2>8 DEF Become
        <3>2. list'.step = "done" /\ list'.asked = l.asked
            BY <2>5, <2>6, <3>1
        <3>3. QED
            BY <1>1, <2>2, <2>7, <3>2 DEF Ends
    <2>9. CASE p.more /\ list.page = MaxPages
        <3>1. list' = Failed
            BY <2>1, <2>9 DEF Become, OutOfPages
        <3>2. Raise
            BY <2>1, <3>1 DEF Raise, Become
        <3>3. QED
            BY <1>3, <3>2
    <2>10. CASE p.more /\ list.page # MaxPages
        <3>1. PICK page, cursor, cursors :
                  list' = [kept EXCEPT !.step = "page", !.page = page, !.cursor = cursor,
                                       !.cursors = cursors]
            BY <2>1, <2>3, <2>10 DEF Become
        <3>2. list'.step = "page" /\ list'.asked = l.asked
            BY <2>5, <2>6, <3>1
        <3>3. QED
            BY <1>1, <2>2, <2>7, <3>2 DEF Stays, Paging
    <2>11. QED
        BY <2>8, <2>9, <2>10
<1>4. QED
    BY <1>2, <1>3

LEMMA StepMeans == ASSUME IInv, Step PROVE Fails \/ Stays \/ Begins \/ Ends
<1>1. CASE Ask
    <2>1. Request(PageLimit) /\ list.step \in Asking \cup Paging
        BY <1>1 DEF Ask, Preparing, At, Asking
    <2>2. QED
        BY <2>1, RequestMeans
<1>2. CASE Send
    <2>1. Request(Allowance) /\ list.step \in Asking \cup Paging
        BY <1>2 DEF Send, At, Paging
    <2>2. QED
        BY <2>1, RequestMeans
<1>3. CASE LosePage
    BY <1>3 DEF LosePage, At, Fails, Paging
<1>4. QED
    BY <1>1, <1>2, <1>3, AnswerMeans, FetchMeans, DelayMeans, PaceMeans, RateLimitedMeans,
       TakePageMeans DEF Step

\* The phase that the refinement gives to each step.
LEMMA StepsAreApart ==
    /\ \A s \in Asking : s \in {"idle", "token", "specification"}
    /\ \A s \in Paging : s \notin {"idle", "token", "specification", "failed", "done"}
BY DEF Asking, Paging

LEMMA FailsListing == ASSUME IInv, Fails PROVE Listing!Fail
<1>1. /\ list'.step = "failed" /\ list'.asked = {} /\ UNCHANGED reports
      /\ list.step \in Asking \cup Paging
    BY FailedIsTyped DEF Fails, Raise, Become, world
<1>2. QED
    BY <1>1, StepsAreApart DEF Listing!Fail, At, Preparing

LEMMA StaysListing ==
    ASSUME IInv, Stays PROVE UNCHANGED <<reports, Listing!listing>>
<1>1. CASE list.step \in Asking /\ list'.step \in Asking
    BY <1>1, StepsAreApart DEF Stays, Listing!listing, At, Preparing
<1>2. CASE list.step \in Paging /\ list'.step \in Paging
    BY <1>2, StepsAreApart DEF Stays, Listing!listing, At, Preparing
<1>3. QED
    BY <1>1, <1>2 DEF Stays

LEMMA BeginsListing == ASSUME Begins PROVE Listing!Ask
BY DEF Begins, Listing!Ask, At, Preparing

LEMMA EndsListing == ASSUME IInv', Ends PROVE Listing!Answer
<1>1. /\ list'.rows \subseteq reports /\ OncePerEvent(list'.rows)
      /\ TimesOf(list.asked) \subseteq TimesOf(list'.rows)
    BY DEF IInv, Covered, At, Ends
<1>2. /\ Listing!OncePerEvent(list'.rows)
      /\ Listing!TimesOf(list.asked) \subseteq Listing!TimesOf(list'.rows)
    BY <1>1 DEF OncePerEvent, Listing!OncePerEvent, TimesOf, Listing!TimesOf
<1>3. QED
    BY <1>1, <1>2 DEF Ends, Listing!Answer, At, Preparing

LEMMA ListingInitially == Init => Listing!ListingInit
BY FailedIsTyped DEF Init, Listing!ListingInit, At, Preparing

LEMMA ListingStep ==
    IInv /\ IInv' /\ [Next]_vars => [Listing!ListingNext]_(<<reports, Listing!listing>>)
<1>1. SUFFICES ASSUME IInv, IInv', [Next]_vars
               PROVE  Listing!ListingNext \/ UNCHANGED <<reports, Listing!listing>>
    OBVIOUS
<1>2. CASE Report
    BY <1>2 DEF Report, Listing!Report, Listing!ListingNext, Listing!listing, At, Preparing
<1>3. CASE Cancel \/ Network \/ UNCHANGED vars
    BY <1>3 DEF Cancel, Network, Become, world, vars, Listing!listing, At, Preparing
<1>4. CASE Tick
    <2>1. PICK l \in Lists : l = list
        BY <1>1 DEF IInv, TypeOK
    <2>2. list' = [l EXCEPT !.wait = Less(l.wait)] /\ UNCHANGED reports
        BY <1>4, <2>1 DEF Tick
    <2>3. list'.step = l.step /\ list'.asked = l.asked /\ list'.rows = l.rows
        BY <2>1, <2>2 DEF Lists
    <2>4. QED
        BY <2>1, <2>2, <2>3 DEF Listing!listing, At, Preparing
<1>5. CASE Begin
    <2>1. PICK l \in Lists : l = list
        BY <1>1 DEF IInv, TypeOK
    <2>2. list' = [l EXCEPT !.step = "token"] /\ UNCHANGED reports /\ l.step = "idle"
        BY <1>5, <2>1 DEF Begin, Become, world, At
    <2>3. list'.step = "token" /\ list'.asked = l.asked
        BY <2>1, <2>2 DEF Lists
    <2>4. Stays
        BY <2>1, <2>2, <2>3 DEF Stays, Asking
    <2>5. QED
        BY <1>1, <2>4, StaysListing
<1>6. CASE Step
    <2>1. Fails \/ Stays \/ Begins \/ Ends
        BY <1>1, <1>6, StepMeans
    <2>2. QED
        BY <1>1, <2>1, FailsListing, StaysListing, BeginsListing, EndsListing
        DEF Listing!ListingNext
<1>7. QED
    BY <1>1, <1>2, <1>3, <1>4, <1>5, <1>6 DEF Next

\* list_events implements EventListing, whatever the log, the pages, the limits
\* and the retries are: ImplementsListing.
THEOREM ListingIsImplemented == Spec => ImplementsListing
BY ListingInitially, ListingStep, Invariant, PTL
   DEF Spec, ImplementsListing, Listing!ListingSpec

-----------------------------------------------------------------------------
(* What is left of an import *)

Trying == {"delay", "pace", "send"}

\* How far an import is: the page, the attempt for it, the stage of that.
Attempt(l) == IF l.step \in Trying THEN l.attempt ELSE 0

Exchange(n) == IF n.phase = "idle" THEN 0 ELSE IF n.phase = "open" THEN 1 ELSE 2

Stage(l, n) == CASE l.step = "token" -> Exchange(n)
                 [] l.step = "specification" -> 3 + Exchange(n)
                 [] l.step = "page" -> 6
                 [] l.step = "delay" -> 7
                 [] l.step = "pace" -> 8
                 [] l.step = "send" -> 9 + Exchange(n)
                 [] OTHER -> 12

\* The import l, whose request is n, has gone further as k and m. There are
\* MaxPages pages, an attempt more than Delays for each and a dozen stages.
Further(l, n, k, m) ==
    \/ k.page > l.page
    \/ k.page = l.page /\ Attempt(k) > Attempt(l)
    \/ k.page = l.page /\ Attempt(k) = Attempt(l) /\ Stage(k, m) > Stage(l, n)

Alike(l, n, k, m) ==
    k.page = l.page /\ Attempt(k) = Attempt(l) /\ Stage(k, m) = Stage(l, n)

\* No request outlasts the deadline.
DueInTime == net.phase = "open" => net.due <= left

EndInv == IInv /\ DueInTime

\* A step of the import, when it does not raise.
Asks == /\ list.step \in Waiting /\ net.phase = "idle" /\ net'.phase = "open"
        /\ list' = list /\ ~Stopped
Goes(from, to) == list.step = from /\ list'.step = to /\ list'.page = list.page /\ ~Stopped
Prepared == \/ Goes("token", "specification")
            \/ Goes("specification", "page")
Tries == \/ Goes("page", "delay") /\ list'.attempt = 1
         \/ Goes("delay", "pace") /\ list'.attempt = list.attempt
         \/ Goes("pace", "send") /\ list'.attempt = list.attempt /\ UNCHANGED net
Repeats == /\ At("send") /\ list'.step = "delay" /\ list'.page = list.page
           /\ list'.attempt = list.attempt + 1
TurnsPage == At("send") /\ list'.step = "page" /\ list'.page = list.page + 1
Over == list'.step \in {"failed", "done"}

LEMMA RaiseIsOver == Raise => Over
BY FailedIsTyped DEF Raise, Become, Over

LEMMA RequestMoves ==
    ASSUME NEW limit, Request(limit), list.step \in Waiting, net.phase = "idle"
    PROVE  Over \/ Asks
<1>1. CASE Stopped
    BY <1>1, RaiseIsOver DEF Request
<1>2. CASE ~Stopped
    <2>1. PICK time : Open(limit, time)
        BY <1>2 DEF Request
    <2>2. net'.phase = "open"
        <3>1. PICK i : i = IdleNet
            OBVIOUS
        <3>2. i \in Nets
            BY <3>1, IdleIsSound DEF Sound
        <3>3. net' = [i EXCEPT !.phase = "open", !.limit = limit, !.due = time]
            BY <2>1, <3>1 DEF Open
        <3>4. QED
            BY <3>2, <3>3 DEF Nets
    <2>3. QED
        BY <1>2, <2>2 DEF Request, Become, Asks
<1>3. QED
    BY <1>1, <1>2

LEMMA AnswerMoves == ASSUME IInv, Answer PROVE Over \/ Prepared
<1>1. CASE Raise
    BY <1>1, RaiseIsOver
<1>2. CASE ~Raise
    <2>1. PICK l, known : l = list /\ known = reports
        OBVIOUS
    <2>2. l \in Lists /\ l.step \in {"token", "specification"}
        BY <2>1 DEF Answer, Preparing, At, IInv, TypeOK
    <2>3. /\ net' = IdleNet /\ ~Stopped
          /\ list' = IF l.step = "token" THEN [l EXCEPT !.step = "specification"]
                     ELSE [l EXCEPT !.step = "page", !.asked = known]
        BY <1>2, <2>1 DEF Answer, Become, At
    <2>4. CASE l.step = "token"
        <3>1. list'.step = "specification" /\ list'.page = l.page
            BY <2>2, <2>3, <2>4 DEF Lists
        <3>2. QED
            BY <2>1, <2>3, <2>4, <3>1 DEF Prepared, Goes
    <2>5. CASE l.step = "specification"
        <3>1. list'.step = "page" /\ list'.page = l.page
            BY <2>2, <2>3, <2>5 DEF Lists
        <3>2. QED
            BY <2>1, <2>3, <2>5, <3>1 DEF Prepared, Goes
    <2>6. QED
        BY <2>2, <2>4, <2>5
<1>3. QED
    BY <1>1, <1>2

LEMMA TryMoves == ASSUME IInv, Fetch \/ Delay \/ Pace PROVE Over \/ Tries
<1>1. CASE Stopped
    BY <1>1, RaiseIsOver DEF Fetch, Delay, Pace
<1>2. CASE ~Stopped
    <2>1. PICK l, gap, now, started :
              l = list /\ gap = Gap /\ now = left /\ started = list.started + 1
        OBVIOUS
    <2>2. l \in Lists
        BY <2>1 DEF IInv, TypeOK
    <2>3. CASE Fetch
        <3>1. list' = [l EXCEPT !.step = "delay", !.attempt = 1, !.wait = 0]
            BY <1>2, <2>1, <2>3 DEF Fetch, Become
        <3>2. list'.step = "delay" /\ list'.attempt = 1 /\ list'.page = l.page
            BY <2>2, <3>1 DEF Lists
        <3>3. QED
            BY <1>2, <2>1, <2>3, <3>2 DEF Fetch, At, Tries, Goes
    <2>4. CASE Delay
        <3>1. list' = [l EXCEPT !.step = "pace", !.wait = gap]
            BY <1>2, <2>1, <2>4 DEF Delay, Become
        <3>2. list'.step = "pace" /\ list'.attempt = l.attempt /\ list'.page = l.page
            BY <2>2, <3>1 DEF Lists
        <3>3. QED
            BY <1>2, <2>1, <2>4, <3>2 DEF Delay, At, Tries, Goes
    <2>5. CASE Pace
        <3>1. /\ list' = [l EXCEPT !.step = "send", !.last = now, !.started = started]
              /\ UNCHANGED net
            BY <1>2, <2>1, <2>5 DEF Pace, Become
        <3>2. list'.step = "send" /\ list'.attempt = l.attempt /\ list'.page = l.page
            BY <2>2, <3>1 DEF Lists
        <3>3. QED
            BY <1>2, <2>1, <2>5, <3>1, <3>2 DEF Pace, At, Tries, Goes
    <2>6. QED
        BY <2>3, <2>4, <2>5
<1>3. QED
    BY <1>1, <1>2

LEMMA RateLimitedMoves == ASSUME IInv, RateLimited PROVE Over \/ Repeats
<1>1. CASE list.attempt > Len(Delays)
    BY <1>1, RaiseIsOver DEF RateLimited
<1>2. CASE ~(list.attempt > Len(Delays))
    <2>1. PICK l, wait, attempt :
              l = list /\ wait = Delays[list.attempt] /\ attempt = list.attempt + 1
        OBVIOUS
    <2>2. l \in Lists
        BY <2>1 DEF IInv, TypeOK
    <2>3. list' = [l EXCEPT !.step = "delay", !.wait = wait, !.attempt = attempt]
        BY <1>2, <2>1 DEF RateLimited, Become
    <2>4. list'.step = "delay" /\ list'.attempt = attempt /\ list'.page = l.page
        BY <2>2, <2>3 DEF Lists
    <2>5. QED
        BY <2>1, <2>4 DEF RateLimited, Repeats
<1>3. QED
    BY <1>1, <1>2

LEMMA TakePageMoves == ASSUME IInv, TakePage PROVE Over \/ TurnsPage
<1>1. CASE Raise
    BY <1>1, RaiseIsOver
<1>2. CASE ~Raise
    <2>1. PICK p \in Answers(list.cursor) :
              Become(IF ~p.more THEN [Kept(p) EXCEPT !.step = "done"]
                     ELSE IF list.page = MaxPages THEN OutOfPages(Kept(p))
                     ELSE [Kept(p) EXCEPT !.step = "page", !.page = @ + 1,
                                          !.cursor = p.next,
                                          !.cursors = @ \cup {p.next}])
        BY <1>2 DEF TakePage
    <2>2. PICK l, kept : l = list /\ kept = Kept(p)
        OBVIOUS
    <2>3. PICK raw, rows, total :
              kept = [[l EXCEPT !.raw = raw] EXCEPT !.rows = rows, !.total = total]
        BY <2>2 DEF Kept, Charged
    <2>4. DOMAIN l = {"step", "attempt", "wait", "last", "started", "page", "cursor",
                      "cursors", "rows", "total", "raw", "asked"}
        BY <2>2 DEF IInv, TypeOK, Lists
    <2>5. kept.page = l.page /\ DOMAIN kept = DOMAIN l
        BY <2>3, <2>4
    <2>6. CASE ~p.more
        <3>1. list' = [kept EXCEPT !.step = "done"]
            BY <2>1, <2>2, <2>6 DEF Become
        <3>2. list'.step = "done"
            BY <2>4, <2>5, <3>1
        <3>3. QED
            BY <3>2 DEF Over
    <2>7. CASE p.more /\ list.page = MaxPages
        <3>1. list' = Failed
            BY <2>1, <2>7 DEF Become, OutOfPages
        <3>2. QED
            BY <3>1, FailedIsTyped DEF Over
    <2>8. CASE p.more /\ list.page # MaxPages
        <3>1. PICK page, cursor, cursors :
                  /\ page = kept.page + 1
                  /\ list' = [kept EXCEPT !.step = "page", !.page = page, !.cursor = cursor,
                                          !.cursors = cursors]
            BY <2>1, <2>2, <2>8 DEF Become
        <3>2. list'.step = "page" /\ list'.page = page
            BY <2>4, <2>5, <3>1
        <3>3. QED
            BY <2>2, <2>5, <3>1, <3>2 DEF TakePage, TurnsPage
    <2>9. QED
        BY <2>6, <2>7, <2>8
<1>3. QED
    BY <1>1, <1>2

LEMMA StepMoves ==
    ASSUME IInv, Step
    PROVE  Over \/ Asks \/ Prepared \/ Tries \/ Repeats \/ TurnsPage
<1>1. CASE Ask
    <2>1. list.step \in Waiting /\ net.phase = "idle" /\ Request(PageLimit)
        BY <1>1 DEF Ask, Preparing, At, Waiting
    <2>2. QED
        BY <2>1, RequestMoves
<1>2. CASE Send
    <2>1. list.step \in Waiting /\ net.phase = "idle" /\ Request(Allowance)
        BY <1>2 DEF Send, At, Waiting
    <2>2. QED
        BY <2>1, RequestMoves
<1>3. CASE Answer
    BY <1>3, AnswerMoves
<1>4. CASE Fetch \/ Delay \/ Pace
    BY <1>4, TryMoves
<1>5. CASE RateLimited
    BY <1>5, RateLimitedMoves
<1>6. CASE TakePage
    BY <1>6, TakePageMoves
<1>7. CASE LosePage
    BY <1>7, RaiseIsOver DEF LosePage
<1>8. QED
    BY <1>1, <1>2, <1>3, <1>4, <1>5, <1>6, <1>7 DEF Step

LEMMA StepGoesFurther ==
    ASSUME IInv, Step
    PROVE  Over \/ Further(list, net, list', net')
<1>1. list.page \in Nat /\ list.attempt \in Nat \ {0}
    <2>1. list.page \in 1..MaxPages /\ list.attempt \in 1..(Len(Delays) + 1)
        BY DEF IInv, TypeOK, Lists
    <2>2. QED
        BY <2>1, Numbers
<1>2. PICK l, k, n, m : l = list /\ k = list' /\ n = net /\ m = net'
    OBVIOUS
<1>3. Exchange(n) \in 0..2 /\ Exchange(m) \in 0..2
    BY DEF Exchange
<1>4. CASE Asks
    <2>1. k = l /\ Exchange(n) = 0 /\ Exchange(m) = 1 /\ l.step \in {"token", "specification", "send"}
        BY <1>2, <1>4 DEF Asks, Exchange, Waiting
    <2>2. Stage(l, m) > Stage(l, n)
        BY <2>1 DEF Stage
    <2>3. QED
        BY <1>2, <2>1, <2>2 DEF Further
<1>5. CASE Prepared \/ Tries
    <2>1. PICK from, to : /\ l.step = from /\ k.step = to /\ k.page = l.page
                          /\ \/ from = "token" /\ to = "specification"
                             \/ from = "specification" /\ to = "page"
                             \/ from = "page" /\ to = "delay" /\ k.attempt = 1
                             \/ from = "delay" /\ to = "pace" /\ k.attempt = l.attempt
                             \/ from = "pace" /\ to = "send" /\ k.attempt = l.attempt
        BY <1>2, <1>5 DEF Prepared, Tries, Goes
    <2>2. CASE from = "token" \/ from = "specification"
        <3>1. Attempt(l) = 0 /\ Attempt(k) = 0
            BY <2>1, <2>2 DEF Attempt, Trying
        <3>2. Stage(k, m) > Stage(l, n)
            BY <1>3, <2>1, <2>2 DEF Stage, Exchange
        <3>3. QED
            BY <1>2, <2>1, <3>1, <3>2 DEF Further
    <2>3. CASE from = "page"
        <3>1. Attempt(l) = 0 /\ Attempt(k) = 1
            BY <2>1, <2>3 DEF Attempt, Trying
        <3>2. QED
            BY <1>2, <2>1, <3>1 DEF Further
    <2>4. CASE from = "delay" \/ from = "pace"
        <3>1. Attempt(l) = Attempt(k)
            BY <2>1, <2>4 DEF Attempt, Trying
        <3>2. Stage(k, m) > Stage(l, n)
            BY <1>3, <2>1, <2>4 DEF Stage
        <3>3. QED
            BY <1>2, <2>1, <3>1, <3>2 DEF Further
    <2>5. QED
        BY <2>1, <2>2, <2>3, <2>4
<1>6. CASE Repeats
    <2>1. Attempt(k) = l.attempt + 1 /\ Attempt(l) = l.attempt /\ k.page = l.page
        BY <1>2, <1>6 DEF Repeats, Attempt, Trying, At
    <2>2. QED
        BY <1>1, <1>2, <2>1 DEF Further
<1>7. CASE TurnsPage
    BY <1>1, <1>7 DEF TurnsPage, Further
<1>8. QED
    BY <1>4, <1>5, <1>6, <1>7, StepMoves

\* What happens around the thread leaves the import where it is, or ends its
\* request.
LEMMA WorldGoesOn ==
    ASSUME IInv, Report \/ Cancel \/ Tick \/ Network
    PROVE  Alike(list, net, list', net') \/ Further(list, net, list', net')
<1>1. PICK l, k, n, m : l = list /\ k = list' /\ n = net /\ m = net'
    OBVIOUS
<1>2. l \in Lists /\ n \in Nets
    BY <1>1 DEF IInv, TypeOK
<1>3. /\ k.page = l.page /\ k.step = l.step /\ k.attempt = l.attempt
      /\ m.phase = n.phase \/ (n.phase = "open" /\ m.phase = "quit")
    <2>1. CASE Report \/ Cancel
        BY <1>1, <2>1 DEF Report, Cancel
    <2>2. CASE Tick
        <3>1. PICK due, wait : net' = [n EXCEPT !.due = due] /\ list' = [l EXCEPT !.wait = wait]
            BY <1>1, <2>2 DEF Tick
        <3>2. QED
            BY <1>1, <1>2, <3>1 DEF Lists, Nets
    <2>3. CASE Network
        <3>1. net'.phase \in {"open", "quit"} /\ net.phase = "open" /\ list' = list
            BY <2>3, HeadersAreSound, ChunkIsSound, FinishedIsSound, TimersAreSound
               DEF IInv, Network, Reply, Become, Headers, Chunk, Finished, Expire,
                   CheckCancellation
        <3>2. QED
            BY <1>1, <3>1
    <2>4. QED
        BY <2>1, <2>2, <2>3
<1>4. Attempt(k) = Attempt(l)
    BY <1>3 DEF Attempt
<1>5. CASE m.phase = n.phase
    <2>1. Stage(k, m) = Stage(l, n)
        BY <1>3, <1>5 DEF Stage, Exchange
    <2>2. QED
        BY <1>1, <1>3, <1>4, <2>1 DEF Alike
<1>6. CASE n.phase = "open" /\ m.phase = "quit"
    <2>1. Exchange(n) = 1 /\ Exchange(m) = 2
        BY <1>6 DEF Exchange
    <2>2. l.step \in Waiting
        BY <1>1, <1>6 DEF IInv, Accounted
    <2>3. Stage(k, m) > Stage(l, n)
        BY <1>3, <2>1, <2>2 DEF Stage, Waiting
    <2>4. QED
        BY <1>1, <1>3, <1>4, <2>3 DEF Further
<1>7. QED
    BY <1>3, <1>5, <1>6

\* The callbacks of a request leave its deadline alone.
LEMMA DueKept ==
    ASSUME NEW n \in Nets
    PROVE  /\ Classified(n).due = n.due /\ DOMAIN Classified(n) = DOMAIN n
           /\ Drained(n).due = n.due
<1>1. DOMAIN n = {"phase", "limit", "due", "reply", "coming", "unread", "status", "faults",
                  "body"}
    BY DEF Nets
<1>2. ASSUME NEW m, m.due = n.due, DOMAIN m = DOMAIN n, NEW fault
      PROVE  Aborted(m, fault).due = n.due /\ DOMAIN Aborted(m, fault) = DOMAIN n
    <2>1. PICK reply, faults :
              Aborted(m, fault) = [m EXCEPT !.phase = "quit", !.coming = 0, !.unread = 0,
                                            !.reply = reply, !.faults = faults]
        BY DEF Aborted
    <2>2. QED
        BY <1>1, <1>2, <2>1
<1>3. Classified(n).due = n.due /\ DOMAIN Classified(n) = DOMAIN n
    <2>1. PICK m : m = [n EXCEPT !.status = n.reply.status]
        OBVIOUS
    <2>2. m.due = n.due /\ DOMAIN m = DOMAIN n
        BY <1>1, <2>1
    <2>3. Classified(n) \in {n, m, Aborted(m, "header"), Aborted(m, "oversize")}
        BY <2>1 DEF Classified
    <2>4. /\ Aborted(m, "header").due = n.due /\ DOMAIN Aborted(m, "header") = DOMAIN n
          /\ Aborted(m, "oversize").due = n.due /\ DOMAIN Aborted(m, "oversize") = DOMAIN n
        BY <1>2, <2>2
    <2>5. QED
        BY <2>2, <2>3, <2>4
<1>4. Drained(n).due = n.due
    <2>1. PICK c : c = Classified(n)
        OBVIOUS
    <2>2. PICK m : m = [c EXCEPT !.body = c.body + Taken(c), !.unread = 0]
        OBVIOUS
    <2>3. c.due = n.due /\ DOMAIN c = DOMAIN n
        BY <1>3, <2>1
    <2>4. m.due = n.due /\ DOMAIN m = DOMAIN n
        BY <1>1, <2>2, <2>3
    <2>5. Drained(n) \in {c, m, Aborted(m, "oversize")}
        BY <2>1, <2>2 DEF Drained
    <2>6. Aborted(m, "oversize").due = n.due
        BY <1>2, <2>4
    <2>7. QED
        BY <2>3, <2>4, <2>5, <2>6
<1>5. QED
    BY <1>3, <1>4

LEMMA ReplyInTime == ASSUME EndInv, Network PROVE DueInTime'
<1>1. Sound(net) /\ net \in Nets /\ net.phase = "open" /\ left' = left
    BY DEF EndInv, IInv, TypeOK, Network, Reply, Headers, Chunk, Finished, Expire,
           CheckCancellation, Become, world
<1>2. net.due <= left
    BY <1>1 DEF EndInv, DueInTime
<1>3. PICK n : n = net
    OBVIOUS
<1>4. CASE Headers
    <2>1. PICK r, coming : net' = Classified([n EXCEPT !.reply = r, !.coming = coming])
                           /\ r \in Replies /\ coming \in Nat
        BY <1>3, <1>4, SizesAssumption DEF Headers
    <2>2. PICK m : m = [n EXCEPT !.reply = r, !.coming = coming]
        OBVIOUS
    <2>3. m \in Nets /\ m.due = n.due
        BY <1>1, <1>3, <2>1, <2>2 DEF Nets
    <2>4. net'.due = net.due
        BY <1>3, <2>1, <2>2, <2>3, DueKept
    <2>5. QED
        BY <1>1, <1>2, <2>4 DEF DueInTime
<1>5. CASE Chunk
    <2>1. n.coming \in Nat /\ n.unread \in Nat
        BY <1>1, <1>3 DEF Nets
    <2>2. PICK k \in 1..n.coming :
              net' = Drained([n EXCEPT !.coming = n.coming - k, !.unread = n.unread + k])
        BY <1>3, <1>5 DEF Chunk
    <2>3. PICK coming, unread : coming = n.coming - k /\ unread = n.unread + k
        OBVIOUS
    <2>4. coming \in Nat /\ unread \in Nat
        BY <2>1, <2>2, <2>3
    <2>5. PICK m : m = [n EXCEPT !.coming = coming, !.unread = unread]
        OBVIOUS
    <2>6. m \in Nets /\ m.due = n.due
        BY <1>1, <1>3, <2>4, <2>5 DEF Nets
    <2>7. net'.due = net.due
        BY <1>3, <2>2, <2>3, <2>5, <2>6, DueKept
    <2>8. QED
        BY <1>1, <1>2, <2>7 DEF DueInTime
<1>6. CASE Finished \/ Expire \/ CheckCancellation(cancelled)
    <2>1. PICK m : net' = m /\ m.phase = "quit"
        <3>1. CASE Finished
            <4>1. PICK unread : net' = [n EXCEPT !.phase = "quit", !.coming = 0, !.unread = unread]
                BY <1>3, <3>1 DEF Finished
            <4>2. net'.phase = "quit"
                BY <1>1, <1>3, <4>1 DEF Nets
            <4>3. QED
                BY <4>2
        <3>2. CASE Expire \/ CheckCancellation(cancelled)
            <4>1. PICK fault, reply, faults :
                      /\ net' = Aborted(n, fault)
                      /\ Aborted(n, fault) = [n EXCEPT !.phase = "quit", !.coming = 0,
                               !.unread = 0, !.reply = reply, !.faults = faults]
                BY <1>3, <3>2 DEF Expire, CheckCancellation, Aborted
            <4>2. net'.phase = "quit"
                BY <1>1, <1>3, <4>1 DEF Nets
            <4>3. QED
                BY <4>2
        <3>3. QED
            BY <1>6, <3>1, <3>2
    <2>2. QED
        BY <2>1 DEF DueInTime
<1>7. QED
    BY <1>4, <1>5, <1>6 DEF Network, Reply

LEMMA OpenInTime ==
    ASSUME EndInv, NEW limit, Request(limit)
    PROVE  DueInTime'
<1>1. CASE Stopped
    <2>1. net'.phase = "idle"
        BY <1>1, IdleIsSound DEF Request, Raise
    <2>2. QED
        BY <2>1 DEF DueInTime
<1>2. CASE ~Stopped
    <2>1. PICK i, time : i = IdleNet /\ time = Smaller(RemoteMax, left)
        OBVIOUS
    <2>2. net' = [i EXCEPT !.phase = "open", !.limit = limit, !.due = time] /\ left' = left
        BY <1>2, <2>1 DEF Request, Open, Become, world
    <2>3. net'.due = time
        <3>1. i \in Nets
            BY <2>1, IdleIsSound DEF Sound
        <3>2. QED
            BY <2>2, <3>1 DEF Nets
    <2>4. time <= left
        BY <2>1, Limits, Numbers DEF Smaller, EndInv, IInv, TypeOK
    <2>5. QED
        BY <2>2, <2>3, <2>4 DEF DueInTime
<1>3. QED
    BY <1>1, <1>2

LEMMA TickInTime == ASSUME EndInv, Tick PROVE DueInTime'
<1>1. PICK n, due : n = net /\ due = Less(net.due)
    OBVIOUS
<1>2. n \in Nets /\ n.due \in Nat /\ left \in Nat
    BY <1>1, Limits, Numbers DEF EndInv, IInv, TypeOK, Nets
<1>3. net' = [n EXCEPT !.due = due] /\ left' = left - 1 /\ left > 0
    BY <1>1 DEF Tick
<1>4. net'.due = due /\ net'.phase = n.phase
    BY <1>2, <1>3 DEF Nets
<1>5. n.phase = "open" => n.due <= left
    BY <1>1 DEF EndInv, DueInTime
<1>6. QED
    BY <1>1, <1>2, <1>3, <1>4, <1>5 DEF DueInTime, Less

LEMMA StepInTime == ASSUME EndInv, Step PROVE DueInTime'
<1>1. CASE Ask
    BY <1>1, OpenInTime DEF Ask
<1>2. CASE Send
    BY <1>2, OpenInTime DEF Send
<1>3. CASE net' = IdleNet
    BY <1>3, IdleIsSound DEF DueInTime
<1>4. CASE Fetch \/ Delay \/ Pace
    <2>1. CASE Raise
        BY <1>3, <2>1 DEF Raise
    <2>2. CASE ~Raise
        BY <1>4, <2>2 DEF Fetch, Delay, Pace, Become, world, EndInv, DueInTime
    <2>3. QED
        BY <2>1, <2>2
<1>5. QED
    BY <1>1, <1>2, <1>3, <1>4 DEF Step, Answer, RateLimited, TakePage, LosePage, Raise

\* A request to the cloud is never allowed more time than the import has left
\* (send_bounded takes the smaller of both), so the deadline ends it.
THEOREM RequestsInTime == Spec => []EndInv
<1>1. Init => EndInv
    BY Initial, IdleIsSound DEF EndInv, DueInTime, Init
<1>2. EndInv /\ [Next]_vars => EndInv'
    <2>1. SUFFICES ASSUME EndInv, [Next]_vars PROVE DueInTime'
        BY Inductive DEF EndInv
    <2>2. CASE UNCHANGED vars \/ Report \/ Cancel \/ Begin
        BY <2>1, <2>2 DEF vars, Report, Cancel, Begin, Become, world, EndInv, DueInTime
    <2>3. QED
        BY <2>1, <2>2, TickInTime, ReplyInTime, StepInTime DEF Next
<1>3. QED
    BY <1>1, <1>2, PTL DEF Spec

\* Every step of an import that goes on is one of the finitely many that are
\* left, whatever the cloud answers: pages that repeat, rates that are refused
\* and replies that fail lead to no loop, and nothing leads back.
THEOREM ListingComesCloser ==
    Spec => [][Running /\ Running' =>
                  /\ Alike(list, net, list', net') \/ Further(list, net, list', net')
                  /\ Step => Further(list, net, list', net')]_vars
<1>1. IInv /\ [Next]_vars =>
        [Running /\ Running' =>
            /\ Alike(list, net, list', net') \/ Further(list, net, list', net')
            /\ Step => Further(list, net, list', net')]_vars
    <2>1. SUFFICES ASSUME IInv, Next, Running, Running'
          PROVE  /\ Alike(list, net, list', net') \/ Further(list, net, list', net')
                 /\ Step => Further(list, net, list', net')
        OBVIOUS
    <2>2. ~Over /\ ~Begin
        BY <2>1 DEF Running, Over, Begin, At
    <2>3. QED
        BY <2>1, <2>2, StepGoesFurther, WorldGoesOn DEF Next
<1>2. QED
    BY <1>1, Invariant, PTL DEF Spec

\* After a cancel or the deadline the next step ends the import; only a page or
\* a refusal that had arrived is still taken in, and then the step after it.
THEOREM StoppedEnds ==
    Spec => [][Stopped /\ Step =>
                  \/ ~Running'
                  \/ At("send") /\ list'.step \in {"delay", "page"}]_vars
<1>1. IInv /\ [Next]_vars =>
        [Stopped /\ Step =>
            \/ ~Running'
            \/ At("send") /\ list'.step \in {"delay", "page"}]_vars
    <2>1. SUFFICES ASSUME IInv, Stopped, Step
          PROVE  ~Running' \/ (At("send") /\ list'.step \in {"delay", "page"})
        OBVIOUS
    <2>2. Over \/ Repeats \/ TurnsPage
        BY <2>1, StepMoves DEF Asks, Prepared, Tries, Goes
    <2>3. QED
        BY <2>2 DEF Over, Repeats, TurnsPage, Running
<1>2. QED
    BY <1>1, Invariant, PTL DEF Spec
=============================================================================
