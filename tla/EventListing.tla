---------------------------- MODULE EventListing ----------------------------
(***************************************************************************)
(* What an import may expect of a listing of the report log: no answer, or *)
(* an answer that has every event that was reported when the listing       *)
(* began, each once and with a value it was reported with.                 *)
(***************************************************************************)
CONSTANT Events   \* reports: an event's time, and a value it was given

VARIABLES reports,  \* what the cloud has been told so far
          asked,    \* the reports at the beginning of the listing
          phase,    \* "idle", "asked", "failed" or "answered"
          answer

listing == <<asked, phase, answer>>

TimesOf(S) == {e.time : e \in S}
OncePerEvent(S) == \A e, f \in S : e.time = f.time => e = f

ListingInit == /\ reports \subseteq Events
               /\ asked = {} /\ phase = "idle" /\ answer = {}

Report == /\ \E e \in Events : reports' = reports \cup {e}
          /\ UNCHANGED listing

Ask == /\ phase = "idle"
       /\ phase' = "asked" /\ asked' = reports
       /\ UNCHANGED <<reports, answer>>

Fail == /\ phase \in {"idle", "asked"}
        /\ phase' = "failed" /\ asked' = {}
        /\ UNCHANGED <<reports, answer>>

Answer == /\ phase = "asked" /\ phase' = "answered"
          /\ answer' \subseteq reports
          /\ OncePerEvent(answer') /\ TimesOf(asked) \subseteq TimesOf(answer')
          /\ UNCHANGED <<reports, asked>>

ListingNext == Report \/ Ask \/ Fail \/ Answer

ListingSpec == ListingInit /\ [][ListingNext]_<<reports, listing>>
=============================================================================
