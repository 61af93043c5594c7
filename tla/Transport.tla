----------------------------- MODULE Transport -----------------------------
(***************************************************************************)
(* QtNetworkTransport.send_bounded of infrastructure/tuya/client.py: one   *)
(* request at a time, in an event loop of its own.  The reply's headers,   *)
(* its body in chunks, its end, the deadline timer and the cancellation    *)
(* timer come in any order; the first that is final aborts the reply or    *)
(* ends the loop, and the result is judged from what was recorded.         *)
(*                                                                         *)
(* Bodies are counted in units of bytes.  Characters are never more than   *)
(* bytes and have the same limits, so that only the bytes are counted.     *)
(***************************************************************************)
EXTENDS Integers

CONSTANTS BodySizes,   \* of the bodies that the server sends
          PageLimit,   \* raw bytes of a successful response
          ErrorLimit,  \* error_raw_bytes
          RemoteMax    \* longest request

ASSUME SizesAssumption == BodySizes \subseteq Nat
ASSUME LimitsAssumption == PageLimit \in Nat /\ ErrorLimit \in Nat
ASSUME RemoteAssumption == RemoteMax \in Nat \ {0}

VARIABLE net

\* An HTTP error and a redirect, which is not followed, are "failed".
Statuses == {"none", "ok", "failed"}
Faults == {"cancelled", "deadline", "oversize", "header"}

\* What the server sends. Its headers may declare a length over the limit that
\* applies to the status, or an encoding or a length that the code refuses.
Heads == {"fine", "long", "refused"}
Replies == [status : Statuses, size : BodySizes \cup {0}, head : Heads]
NoReply == [status |-> "none", size |-> 0, head |-> "fine"]

Phases == {"idle", "open", "quit"}
Nets == [phase : Phases,
         limit : 0..PageLimit,       \* limits.raw_bytes
         due : 0..RemoteMax,         \* time left before the deadline
         reply : Replies,
         coming : Nat,               \* bytes of the body still to come
         unread : Nat,               \* bytes in the buffer of the reply
         status : Statuses,          \* state["status"]
         faults : SUBSET Faults,     \* the flags of state
         body : Nat]                 \* len(raw_body)

IdleNet == [phase |-> "idle", limit |-> 0, due |-> 0, reply |-> NoReply, coming |-> 0,
            unread |-> 0, status |-> "none", faults |-> {}, body |-> 0]

Smaller(a, b) == IF a < b THEN a ELSE b

\* state["raw_limit"]: an error has the smaller budget, and so has a response
\* whose status is not known yet.
RawLimit(n) == IF n.status = "ok" THEN n.limit ELSE ErrorLimit

\* reply.abort() ends the loop; what was buffered is gone, and what its headers
\* said has been recorded.
Aborted(n, fault) == [n EXCEPT !.phase = "quit", !.coming = 0, !.unread = 0,
                               !.reply = NoReply, !.faults = @ \cup {fault}]

Classified(n) ==
    LET m == [n EXCEPT !.status = n.reply.status]
    IN  IF n.reply.status = "none" THEN n
        ELSE IF n.reply.head = "refused" THEN Aborted(m, "header")
        ELSE IF n.reply.head = "long" THEN Aborted(m, "oversize")
        ELSE m

\* At most one byte over the limit is kept.
Taken(n) == Smaller(n.unread, RawLimit(n) + 1 - n.body)

Drained(n) ==
    LET c == Classified(n)
        m == [c EXCEPT !.body = c.body + Taken(c), !.unread = 0]
    IN  IF c.status = "none" \/ c.unread = 0 THEN c
        ELSE IF m.body > RawLimit(m) THEN Aborted(m, "oversize")
        ELSE m

-----------------------------------------------------------------------------

Open(limit, time) == net' = [IdleNet EXCEPT !.phase = "open", !.limit = limit, !.due = time]

\* metaDataChanged.
Headers == /\ net.phase = "open" /\ net.reply = NoReply
           /\ \E r \in Replies :
                 /\ r.status # "none" /\ r.size \in BodySizes
                 /\ net' = Classified([net EXCEPT !.reply = r, !.coming = r.size])

\* readyRead.
Chunk == /\ net.phase = "open"
         /\ \E k \in 1..net.coming :
               net' = Drained([net EXCEPT !.coming = @ - k, !.unread = @ + k])

\* The last bytes may come with the end of the reply; a connection that
\* breaks leaves some out, or the headers too.
Finished == /\ net.phase = "open"
            /\ \E k \in 0..net.coming :
                  net' = [net EXCEPT !.phase = "quit", !.coming = 0, !.unread = @ + k]

\* Mutant: the deadline ends with the headers.
ExpireConnecting == /\ net.phase = "open" /\ net.due = 0 /\ net.status = "none"
                    /\ net' = Aborted(net, "deadline")

\* The two timers.
Expire == /\ net.phase = "open" /\ net.due = 0
          /\ net' = Aborted(net, "deadline")

CheckCancellation(cancelled) == /\ net.phase = "open" /\ cancelled
                                /\ net' = Aborted(net, "cancelled")

\* What the loop has left, after the last classify_metadata and drain.
Final == Drained(net)

\* The checks of send_bounded after the loop. The cancelled and the late
\* reply come first, whatever else it holds; part of a JSON object is none.
Arrived(n) == /\ n.faults = {} /\ n.due > 0
              /\ n.status # "none"
              /\ n.body <= RawLimit(n) /\ n.body = n.reply.size /\ n.body > 0
=============================================================================
