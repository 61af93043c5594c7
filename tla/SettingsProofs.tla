--------------------------- MODULE SettingsProofs ---------------------------
(***************************************************************************)
(* The theorems of Settings: in the only instance of the application, for  *)
(* any accounts, secrets and number of saves, what was verified was        *)
(* tested, the secret is stored first, and what was applied is stored; in  *)
(* any number of instances, verified ids were tested and closing dialogs   *)
(* come closer to their end with every step.                               *)
(***************************************************************************)
EXTENDS Settings, TLAPS

(* The inductive invariant, of a dialog u, its job j, the keychain k, the *)
(* metadata m, the report a, the tested pairs t and the number s of saves. *)

Typed(u, j, k, m, a, t, s) ==
    /\ u \in Dialogs /\ j \in Jobs /\ k \in Keychain /\ m \in Metadata /\ a \in Reports
    /\ t \subseteq Ids \X Secrets /\ s \in 0..MaxSaves

\* The secret that a test or a save started from the dialog would use.
Effective(u, k) == IF u.secret = None /\ u.stored THEN k.secret ELSE u.secret

Writing == {"set", "check", "commit"}
Resolved == {"remote", "return"} \cup Writing
Succeeded(j) == j.step = "emitted" /\ j.result = "succeeded"

\* The two stores hold what the job has saved.
Stored(j, k, m) == /\ k.secret = j.secret /\ k.by = j.by
                   /\ m.id = j.id /\ m.by = j.by

\* The worker uses the fields of the dialog, which are not edited meanwhile.
WorkerInv(u, j, k, m, t, s) ==
    /\ j.step # "idle" => u.open /\ j.kind # "none" /\ j.id = u.id
    /\ j.step = "resolve" => j.secret = u.secret
    /\ j.step \in Resolved \/ Succeeded(j) \/ u.saved => j.secret = Effective(u, k)
    /\ j.step = "remote" => j.kind = "test"
    /\ j.step \in Writing => j.kind = "save"
    /\ j.kind = "save" /\ j.step # "idle" => j.by = s
    /\ j.kind = "save" /\ j.step \in {"resolve"} \cup Writing => m.by < s
    /\ j.step = "commit" => k.secret = j.secret /\ k.by = j.by
    /\ j.kind = "save" /\ (j.step = "return" \/ Succeeded(j)) => Stored(j, k, m)
    /\ u.saved => j.step = "finished" /\ j.kind = "save" /\ Stored(j, k, m)
    /\ j.kind = "test" /\ (j.step = "return" \/ Succeeded(j)) => <<j.id, j.secret>> \in t

\* The verified flag is about the fields as they are now.
DialogInv(u, j, k, t) ==
    /\ u.verified # None => u.verified = u.id /\ <<u.id, Effective(u, k)>> \in t
    /\ j.cancelled => u.closing
    /\ j.step = "idle" => ~u.closing /\ ~j.verified
    /\ j.step = "emitted" /\ j.result = "none" => u.closing
    /\ (j.step = "idle" \/ j.kind = "save" \/ j.step = "finished")
          /\ u.verified # None /\ ~u.closing => u.hasResult
    /\ j.verified => j.kind = "save" /\ u.verified = u.id /\ u.id # None

StoreInv(k, m, a, t, s) ==
    /\ m.by <= k.by /\ m.by <= s /\ k.by <= s
    /\ a.by <= m.by
    /\ a.by # 0 /\ a.by = k.by => k.secret = a.secret /\ m.id = a.id
    /\ a.verified => <<a.id, a.secret>> \in t

Good(u, j, k, m, a, t, s) ==
    /\ Typed(u, j, k, m, a, t, s)
    /\ WorkerInv(u, j, k, m, t, s) /\ DialogInv(u, j, k, t) /\ StoreInv(k, m, a, t, s)

IInv == TypeOK /\ \A i \in Instances :
                      Good(ui[i], job[i], keychain, meta, applied[i], tested, saves)

-----------------------------------------------------------------------------
(* What each step makes of one dialog and its job *)

\* The Keychain's write: what an empty field stands for remains.
LEMMA WriteIsGood ==
    ASSUME NEW u, NEW j, NEW k, NEW m, NEW a, NEW t, NEW s, Good(u, j, k, m, a, t, s),
           j.step = "set", NEW l, l = [secret |-> j.secret, by |-> j.by]
    PROVE  Good(u, j, l, m, a, t, s)
<1>1. l \in Keychain /\ l.secret = j.secret /\ l.by = j.by
    BY DEF Good, Typed, Jobs, Keychain
<1>2. /\ j.kind = "save" /\ j.by = s /\ m.by < s /\ j.secret = Effective(u, k)
      /\ u.saved = FALSE
    BY DEF Good, Typed, Dialogs, WorkerInv, Writing, Resolved
<1>3. Effective(u, l) = Effective(u, k)
    BY <1>1, <1>2 DEF Effective
<1>4. Typed(u, j, l, m, a, t, s)
    BY <1>1 DEF Good, Typed
<1>5. WorkerInv(u, j, l, m, t, s)
    BY <1>2, <1>3 DEF Good, WorkerInv, Succeeded
<1>6. DialogInv(u, j, l, t)
    BY <1>3 DEF Good, DialogInv
<1>7. StoreInv(l, m, a, t, s)
    <2>1. m.by \in Nat /\ a.by \in Nat /\ s \in Nat
        BY MaxSavesAssumption DEF Good, Typed, Metadata, Reports
    <2>2. QED
        BY <1>1, <1>2, <2>1 DEF Good, StoreInv
<1>8. QED
    BY <1>4, <1>5, <1>6, <1>7 DEF Good

\* The end of the workflow.
LEMMA EndIsGood ==
    ASSUME NEW u, NEW j, NEW k, NEW m, NEW a, NEW t, NEW s, Good(u, j, k, m, a, t, s),
           j.step \in Working, NEW result \in {"none", "succeeded", "failed"},
           result = "none" => j.cancelled, result = "succeeded" => j.step = "return",
           NEW e, e = [j EXCEPT !.step = "emitted", !.result = result]
    PROVE  Good(u, e, k, m, a, t, s)
<1>1. /\ e \in Jobs /\ e.step = "emitted" /\ e.result = result /\ e.kind = j.kind
      /\ e.id = j.id /\ e.secret = j.secret /\ e.verified = j.verified /\ e.by = j.by
      /\ e.cancelled = j.cancelled
    BY DEF Good, Typed, Jobs
<1>2. j.step \notin {"idle", "emitted", "finished"}
    BY DEF Working
<1>3. Typed(u, e, k, m, a, t, s)
    BY <1>1 DEF Good, Typed
<1>4. WorkerInv(u, e, k, m, t, s)
    BY <1>1, <1>2 DEF Good, WorkerInv, Succeeded, Stored, Writing, Resolved
<1>5. DialogInv(u, e, k, t)
    BY <1>1, <1>2 DEF Good, DialogInv
<1>6. QED
    BY <1>3, <1>4, <1>5 DEF Good

LEMMA ResolveIsGood ==
    ASSUME NEW u, NEW j, NEW k, NEW m, NEW a, NEW t, NEW s, Good(u, j, k, m, a, t, s),
           j.step = "resolve",
           NEW secret, secret = IF j.secret = None /\ u.stored THEN k.secret ELSE j.secret,
           NEW step, step = IF j.kind = "test" THEN "remote" ELSE "set",
           NEW e, e = [j EXCEPT !.secret = secret, !.step = step]
    PROVE  Good(u, e, k, m, a, t, s)
<1>1. secret = Effective(u, k) /\ secret \in Secrets \cup {None}
    BY DEF Good, WorkerInv, Effective, Typed, Keychain, Jobs
<1>2. j \in Jobs /\ j.kind \in {"test", "save"} /\ step \in Working
    BY DEF Good, Typed, WorkerInv, Jobs, Working
<1>3. /\ e \in Jobs /\ e.step = step /\ e.kind = j.kind /\ e.id = j.id
      /\ e.secret = secret /\ e.verified = j.verified /\ e.by = j.by
      /\ e.cancelled = j.cancelled /\ e.result = j.result
    BY <1>1, <1>2 DEF Jobs
<1>4. Typed(u, e, k, m, a, t, s)
    BY <1>3 DEF Good, Typed
<1>5. WorkerInv(u, e, k, m, t, s)
    BY <1>1, <1>2, <1>3 DEF Good, WorkerInv, Succeeded, Writing, Resolved
<1>6. DialogInv(u, e, k, t)
    BY <1>2, <1>3 DEF Good, DialogInv
<1>7. QED
    BY <1>4, <1>5, <1>6 DEF Good

LEMMA RemoteIsGood ==
    ASSUME NEW u, NEW j, NEW k, NEW m, NEW a, NEW t, NEW s, Good(u, j, k, m, a, t, s),
           j.step = "remote", <<j.id, j.secret>> \in Accepted,
           NEW w, w = t \cup {<<j.id, j.secret>>},
           NEW e, e = [j EXCEPT !.step = "return"]
    PROVE  Good(u, e, k, m, a, w, s)
<1>1. /\ e \in Jobs /\ e.step = "return" /\ e.kind = j.kind /\ e.id = j.id
      /\ e.secret = j.secret /\ e.verified = j.verified /\ e.by = j.by
      /\ e.cancelled = j.cancelled /\ e.result = j.result
    BY DEF Good, Typed, Jobs, Working
<1>2. Typed(u, e, k, m, a, w, s)
    BY <1>1, AcceptedAssumption DEF Good, Typed
<1>3. <<e.id, e.secret>> \in w /\ t \subseteq w
    BY <1>1
<1>4. WorkerInv(u, e, k, m, w, s)
    BY <1>1, <1>3 DEF Good, WorkerInv, Succeeded, Writing, Resolved
<1>5. DialogInv(u, e, k, w)
    BY <1>1, <1>3 DEF Good, WorkerInv, DialogInv
<1>6. StoreInv(k, m, a, w, s)
    BY <1>3 DEF Good, StoreInv
<1>7. QED
    BY <1>2, <1>4, <1>5, <1>6 DEF Good

\* The write is done, or the Keychain has not kept it.
LEMMA SetIsGood ==
    ASSUME NEW u, NEW j, NEW k, NEW m, NEW a, NEW t, NEW s, Good(u, j, k, m, a, t, s),
           j.step = "set", NEW e, e = [j EXCEPT !.step = "check"]
    PROVE  Good(u, e, k, m, a, t, s)
<1>1. /\ e \in Jobs /\ e.step = "check" /\ e.kind = j.kind /\ e.id = j.id
      /\ e.secret = j.secret /\ e.verified = j.verified /\ e.by = j.by
      /\ e.cancelled = j.cancelled /\ e.result = j.result
    BY DEF Good, Typed, Jobs, Working
<1>2. Typed(u, e, k, m, a, t, s)
    BY <1>1 DEF Good, Typed
<1>3. WorkerInv(u, e, k, m, t, s)
    BY <1>1 DEF Good, WorkerInv, Succeeded, Writing, Resolved
<1>4. DialogInv(u, e, k, t)
    BY <1>1 DEF Good, DialogInv
<1>5. QED
    BY <1>2, <1>3, <1>4 DEF Good

\* The secret that is there counts as written by this save.
LEMMA CheckIsGood ==
    ASSUME NEW u, NEW j, NEW k, NEW m, NEW a, NEW t, NEW s, Good(u, j, k, m, a, t, s),
           j.step = "check", k.secret = j.secret,
           NEW l, l = [k EXCEPT !.by = j.by], NEW e, e = [j EXCEPT !.step = "commit"]
    PROVE  Good(u, e, l, m, a, t, s)
<1>1. /\ e \in Jobs /\ e.step = "commit" /\ e.kind = j.kind /\ e.id = j.id
      /\ e.secret = j.secret /\ e.verified = j.verified /\ e.by = j.by
      /\ e.cancelled = j.cancelled /\ e.result = j.result
    BY DEF Good, Typed, Jobs, Working
<1>2. l \in Keychain /\ l.secret = k.secret /\ l.by = j.by
    BY DEF Good, Typed, Jobs, Keychain
<1>3. Effective(u, l) = Effective(u, k)
    BY <1>2 DEF Effective
<1>4. /\ j.kind = "save" /\ j.by = s /\ m.by < s /\ ~u.saved
    BY DEF Good, WorkerInv, Writing
<1>5. Typed(u, e, l, m, a, t, s)
    BY <1>1, <1>2 DEF Good, Typed
<1>6. WorkerInv(u, e, l, m, t, s)
    BY <1>1, <1>2, <1>3, <1>4 DEF Good, WorkerInv, Succeeded, Writing, Resolved
<1>7. DialogInv(u, e, l, t)
    BY <1>1, <1>3, <1>4 DEF Good, DialogInv
<1>8. StoreInv(l, m, a, t, s)
    <2>1. m.by \in Nat /\ a.by \in Nat /\ s \in Nat
        BY MaxSavesAssumption DEF Good, Typed, Metadata, Reports
    <2>2. QED
        BY <1>2, <1>4, <2>1 DEF Good, StoreInv
<1>9. QED
    BY <1>5, <1>6, <1>7, <1>8 DEF Good

LEMMA CommitIsGood ==
    ASSUME NEW u, NEW j, NEW k, NEW m, NEW a, NEW t, NEW s, Good(u, j, k, m, a, t, s),
           j.step = "commit", NEW n, n = [id |-> j.id, by |-> j.by],
           NEW e, e = [j EXCEPT !.step = "return"]
    PROVE  Good(u, e, k, n, a, t, s)
<1>1. /\ e \in Jobs /\ e.step = "return" /\ e.kind = j.kind /\ e.id = j.id
      /\ e.secret = j.secret /\ e.verified = j.verified /\ e.by = j.by
      /\ e.cancelled = j.cancelled /\ e.result = j.result
    BY DEF Good, Typed, Jobs, Working
<1>2. n \in Metadata /\ n.id = j.id /\ n.by = j.by
    BY DEF Good, Typed, Jobs, Metadata
<1>3. /\ j.kind = "save" /\ j.by = s /\ m.by < s /\ ~u.saved
      /\ k.secret = j.secret /\ k.by = j.by
    BY DEF Good, WorkerInv, Writing
<1>4. Typed(u, e, k, n, a, t, s)
    BY <1>1, <1>2 DEF Good, Typed
<1>5. WorkerInv(u, e, k, n, t, s)
    BY <1>1, <1>2, <1>3 DEF Good, WorkerInv, Succeeded, Stored, Writing, Resolved
<1>6. DialogInv(u, e, k, t)
    BY <1>1, <1>3 DEF Good, DialogInv
<1>7. StoreInv(k, n, a, t, s)
    <2>1. m.by \in Nat /\ a.by \in Nat /\ s \in Nat
        BY MaxSavesAssumption DEF Good, Typed, Metadata, Reports
    <2>2. QED
        BY <1>2, <1>3, <2>1 DEF Good, StoreInv
<1>8. QED
    BY <1>4, <1>5, <1>6, <1>7 DEF Good

LEMMA ExpireIsGood ==
    ASSUME NEW u, NEW j, NEW k, NEW m, NEW a, NEW t, NEW s, Good(u, j, k, m, a, t, s),
           NEW e, e = [j EXCEPT !.late = TRUE]
    PROVE  Good(u, e, k, m, a, t, s)
<1>1. /\ e \in Jobs /\ e.step = j.step /\ e.kind = j.kind /\ e.id = j.id
      /\ e.secret = j.secret /\ e.verified = j.verified /\ e.by = j.by
      /\ e.cancelled = j.cancelled /\ e.result = j.result
    BY DEF Good, Typed, Jobs
<1>2. QED
    BY <1>1 DEF Good, Typed, WorkerInv, DialogInv, Succeeded, Stored

LEMMA Empty ==
    /\ Closed \in Dialogs /\ ~Closed.open /\ Closed.verified = None
    /\ ~Closed.saved /\ ~Closed.closing
    /\ NoJob \in Jobs /\ NoJob.step = "idle" /\ NoJob.kind = "none"
    /\ ~NoJob.verified /\ ~NoJob.cancelled /\ NoJob.by = 0 /\ NoJob.result = "none"
    /\ NoReport \in Reports /\ NoReport.by = 0 /\ ~NoReport.verified
<1>1. Closed \in Dialogs
    BY DEF Closed, Dialogs
<1>2. NoJob \in Jobs /\ NoReport \in Reports
    BY MaxSavesAssumption DEF NoJob, Jobs, NoReport, Reports
<1>3. QED
    BY <1>1, <1>2 DEF Closed, NoJob, NoReport

\* A dialog without a job, and without a test of its fields.
LEMMA IdleIsGood ==
    ASSUME NEW u \in Dialogs, NEW j, NEW k, NEW m, NEW a, NEW t, NEW s,
           Typed(u, j, k, m, a, t, s), StoreInv(k, m, a, t, s), j.step = "idle", ~j.verified,
           ~j.cancelled, u.verified = None, ~u.saved, ~u.closing
    PROVE  Good(u, j, k, m, a, t, s)
BY DEF Good, WorkerInv, DialogInv, Succeeded, Writing, Resolved

LEMMA OpenIsGood ==
    ASSUME NEW u, NEW j, NEW k, NEW m, NEW a, NEW t, NEW s, Good(u, j, k, m, a, t, s),
           ~u.open, NEW id, id = m.id, NEW stored \in BOOLEAN,
           NEW v, v = [Closed EXCEPT !.open = TRUE, !.id = id, !.stored = stored]
    PROVE  Good(v, j, k, m, a, t, s)
<1>1. PICK c : c = Closed
    OBVIOUS
<1>2. /\ v \in Dialogs /\ v.verified = None /\ v.saved = FALSE /\ v.closing = FALSE
    BY <1>1, Empty DEF Dialogs, Good, Typed, Metadata
<1>3. j.step = "idle" /\ ~j.verified /\ ~j.cancelled
    BY DEF Good, WorkerInv, DialogInv
<1>4. Typed(v, j, k, m, a, t, s) /\ StoreInv(k, m, a, t, s)
    BY <1>2 DEF Good, Typed
<1>5. QED
    BY <1>2, <1>3, <1>4, IdleIsGood

\* Without a job, no result of a test means that nothing is verified.
LEMMA EditIsGood ==
    ASSUME NEW u, NEW j, NEW k, NEW m, NEW a, NEW t, NEW s, Good(u, j, k, m, a, t, s),
           j.step = "idle", NEW id \in Ids \cup {None}, NEW secret \in Secrets \cup {None},
           NEW e, e = [u EXCEPT !.id = id] \/ e = [u EXCEPT !.secret = secret]
    PROVE  Good(Invalidated(u, e), j, k, m, a, t, s)
<1>1. /\ e \in Dialogs /\ e.verified = u.verified /\ e.saved = u.saved
      /\ e.closing = u.closing
    BY DEF Good, Typed, Dialogs
<1>2. ~u.saved /\ ~u.closing /\ ~j.verified /\ ~j.cancelled
      /\ (u.verified # None => u.hasResult)
    BY DEF Good, WorkerInv, DialogInv
<1>3. PICK v : v = Invalidated(u, e)
    OBVIOUS
<1>4. /\ v \in Dialogs /\ v.verified = None /\ v.saved = e.saved /\ v.closing = e.closing
    <2>1. CASE u.hasResult
        <3>1. v = [e EXCEPT !.verified = None, !.hasResult = FALSE]
            BY <1>3, <2>1 DEF Invalidated
        <3>2. QED
            BY <1>1, <3>1 DEF Dialogs
    <2>2. CASE ~u.hasResult
        BY <1>1, <1>2, <1>3, <2>2 DEF Invalidated
    <2>3. QED
        BY <2>1, <2>2
<1>5. Typed(v, j, k, m, a, t, s) /\ StoreInv(k, m, a, t, s)
    BY <1>4 DEF Good, Typed
<1>6. QED
    BY <1>1, <1>2, <1>3, <1>4, <1>5, IdleIsGood

LEMMA TestIsGood ==
    ASSUME NEW u, NEW j, NEW k, NEW m, NEW a, NEW t, NEW s, Good(u, j, k, m, a, t, s),
           u.open, j.step = "idle", NEW v, v = [u EXCEPT !.hasResult = FALSE],
           NEW e, e = [NoJob EXCEPT !.kind = "test", !.step = "resolve", !.id = u.id,
                                    !.secret = u.secret]
    PROVE  Good(v, e, k, m, a, t, s)
<1>1. /\ v \in Dialogs /\ v.open /\ v.id = u.id /\ v.secret = u.secret
      /\ v.stored = u.stored /\ v.verified = u.verified /\ v.saved = u.saved
      /\ v.closing = u.closing
    BY DEF Good, Typed, Dialogs
<1>2. /\ e \in Jobs /\ e.kind = "test" /\ e.step = "resolve" /\ e.id = u.id
      /\ e.secret = u.secret /\ ~e.verified /\ ~e.cancelled
    <2>1. PICK n : n = NoJob
        OBVIOUS
    <2>2. PICK id \in Ids \cup {None}, secret \in Secrets \cup {None} :
              id = u.id /\ secret = u.secret
        BY DEF Good, Typed, Dialogs
    <2>3. e = [n EXCEPT !.kind = "test", !.step = "resolve", !.id = id, !.secret = secret]
        BY <2>1, <2>2
    <2>4. "resolve" \in Working
        BY DEF Working
    <2>5. QED
        BY <2>1, <2>2, <2>3, <2>4, Empty DEF Jobs
<1>3. ~u.saved /\ Effective(v, k) = Effective(u, k)
    BY <1>1 DEF Good, WorkerInv, Effective
<1>4. Typed(v, e, k, m, a, t, s)
    BY <1>1, <1>2 DEF Good, Typed
<1>5. WorkerInv(v, e, k, m, t, s)
    BY <1>1, <1>2, <1>3 DEF WorkerInv, Succeeded, Writing, Resolved
<1>6. DialogInv(v, e, k, t)
    BY <1>1, <1>2, <1>3 DEF Good, DialogInv
<1>7. QED
    BY <1>4, <1>5, <1>6 DEF Good

LEMMA SaveIsGood ==
    ASSUME NEW u, NEW j, NEW k, NEW m, NEW a, NEW t, NEW s, Good(u, j, k, m, a, t, s),
           u.open, j.step = "idle", u.id # None, s < MaxSaves,
           NEW r, r = s + 1, NEW verified, verified = (u.verified = u.id),
           NEW e, e = [NoJob EXCEPT !.kind = "save", !.step = "resolve", !.id = u.id,
                                    !.secret = u.secret, !.by = r, !.verified = verified]
    PROVE  Good(u, e, k, m, a, t, r)
<1>1. s \in Nat /\ r \in 0..MaxSaves /\ verified \in BOOLEAN
    BY MaxSavesAssumption DEF Good, Typed
<1>2. /\ e \in Jobs /\ e.kind = "save" /\ e.step = "resolve" /\ e.id = u.id
      /\ e.secret = u.secret /\ e.verified = verified /\ e.by = r /\ ~e.cancelled
    <2>1. PICK n : n = NoJob
        OBVIOUS
    <2>2. PICK id \in Ids \cup {None}, secret \in Secrets \cup {None} :
              id = u.id /\ secret = u.secret
        BY DEF Good, Typed, Dialogs
    <2>3. e = [n EXCEPT !.kind = "save", !.step = "resolve", !.id = id, !.secret = secret,
                        !.by = r, !.verified = verified]
        BY <2>1, <2>2
    <2>4. "resolve" \in Working
        BY DEF Working
    <2>5. QED
        BY <1>1, <2>1, <2>2, <2>3, <2>4, Empty DEF Jobs
<1>3. ~u.saved /\ ~u.closing
    BY DEF Good, WorkerInv, DialogInv
<1>4. m.by \in Nat /\ k.by \in Nat /\ m.by <= s /\ k.by <= s /\ m.by < r /\ k.by <= r
    BY <1>1 DEF Good, Typed, StoreInv, Metadata, Keychain
<1>5. Typed(u, e, k, m, a, t, r)
    BY <1>1, <1>2 DEF Good, Typed
<1>6. WorkerInv(u, e, k, m, t, r)
    BY <1>2, <1>3, <1>4 DEF WorkerInv, Succeeded, Writing, Resolved
<1>7. DialogInv(u, e, k, t)
    BY <1>2, <1>3 DEF Good, DialogInv
<1>8. StoreInv(k, m, a, t, r)
    BY <1>1, <1>4 DEF Good, StoreInv
<1>9. QED
    BY <1>5, <1>6, <1>7, <1>8 DEF Good

LEMMA CloseIsGood ==
    ASSUME NEW u, NEW j, NEW k, NEW m, NEW a, NEW t, NEW s, Good(u, j, k, m, a, t, s),
           u.open, j.step # "idle", NEW v, v = [u EXCEPT !.closing = TRUE],
           NEW e, e = [j EXCEPT !.cancelled = TRUE]
    PROVE  Good(v, e, k, m, a, t, s)
<1>1. /\ v \in Dialogs /\ v.open = u.open /\ v.id = u.id /\ v.secret = u.secret
      /\ v.stored = u.stored /\ v.verified = u.verified /\ v.saved = u.saved /\ v.closing
    BY DEF Good, Typed, Dialogs
<1>2. /\ e \in Jobs /\ e.step = j.step /\ e.kind = j.kind /\ e.id = j.id
      /\ e.secret = j.secret /\ e.verified = j.verified /\ e.by = j.by
      /\ e.result = j.result
    BY DEF Good, Typed, Jobs
<1>3. Effective(v, k) = Effective(u, k)
    BY <1>1 DEF Effective
<1>4. Typed(v, e, k, m, a, t, s)
    BY <1>1, <1>2 DEF Good, Typed
<1>5. WorkerInv(v, e, k, m, t, s)
    BY <1>1, <1>2, <1>3 DEF Good, WorkerInv, Succeeded, Stored
<1>6. DialogInv(v, e, k, t)
    BY <1>1, <1>2, <1>3 DEF Good, DialogInv
<1>7. QED
    BY <1>4, <1>5, <1>6 DEF Good

\* _test_succeeded and _test_failed; a result that was not emitted changes
\* nothing, in a dialog that is about to close.
LEMMA TestDeliveredIsGood ==
    ASSUME NEW u, NEW j, NEW k, NEW m, NEW a, NEW t, NEW s, Good(u, j, k, m, a, t, s),
           j.step = "emitted", j.kind = "test", NEW verified,
           verified = IF j.result = "succeeded" /\ j.id = u.id THEN j.id ELSE None,
           NEW v, v = IF j.result = "none" THEN u
                      ELSE [u EXCEPT !.hasResult = TRUE, !.verified = verified],
           NEW e, e = [j EXCEPT !.step = "finished"]
    PROVE  Good(v, e, k, m, a, t, s)
<1>1. /\ e \in Jobs /\ e.step = "finished" /\ e.kind = "test" /\ e.id = j.id
      /\ e.verified = j.verified /\ e.cancelled = j.cancelled
    BY DEF Good, Typed, Jobs
<1>2. u \in Dialogs /\ ~u.saved /\ ~j.verified /\ u.open /\ j.id = u.id
    BY DEF Good, Typed, WorkerInv, DialogInv
<1>3. CASE j.result = "none"
    <2>1. v = u /\ u.closing
        BY <1>3 DEF Good, DialogInv
    <2>2. Typed(v, e, k, m, a, t, s)
        BY <1>1, <2>1 DEF Good, Typed
    <2>3. WorkerInv(v, e, k, m, t, s)
        BY <1>1, <1>2, <2>1 DEF WorkerInv, Succeeded, Writing, Resolved
    <2>4. DialogInv(v, e, k, t)
        BY <1>1, <1>2, <2>1 DEF Good, DialogInv
    <2>5. QED
        BY <2>2, <2>3, <2>4 DEF Good
<1>4. CASE j.result # "none"
    <2>1. verified \in Ids \cup {None}
        BY DEF Good, Typed, Jobs
    <2>2. /\ v \in Dialogs /\ v.open /\ v.id = u.id /\ v.secret = u.secret
          /\ v.stored = u.stored /\ v.verified = verified /\ v.hasResult
          /\ ~v.saved /\ v.closing = u.closing
        BY <1>2, <1>4, <2>1 DEF Dialogs
    <2>3. Effective(v, k) = Effective(u, k)
        BY <2>2 DEF Effective
    <2>4. verified # None => verified = u.id /\ <<u.id, Effective(u, k)>> \in t
        BY <1>2 DEF Good, WorkerInv, Succeeded
    <2>5. Typed(v, e, k, m, a, t, s)
        BY <1>1, <2>2 DEF Good, Typed
    <2>6. WorkerInv(v, e, k, m, t, s)
        BY <1>1, <1>2, <2>2 DEF WorkerInv, Succeeded, Writing, Resolved
    <2>7. DialogInv(v, e, k, t)
        BY <1>1, <1>2, <2>2, <2>3, <2>4 DEF Good, DialogInv
    <2>8. QED
        BY <2>5, <2>6, <2>7 DEF Good
<1>5. QED
    BY <1>3, <1>4

LEMMA SaveDeliveredIsGood ==
    ASSUME NEW u, NEW j, NEW k, NEW m, NEW a, NEW t, NEW s, Good(u, j, k, m, a, t, s),
           j.step = "emitted", j.kind # "test", NEW saved, saved = (j.result = "succeeded"),
           NEW v, v = [u EXCEPT !.saved = saved], NEW e, e = [j EXCEPT !.step = "finished"]
    PROVE  Good(v, e, k, m, a, t, s)
<1>1. /\ e \in Jobs /\ e.step = "finished" /\ e.kind = "save" /\ e.id = j.id
      /\ e.secret = j.secret /\ e.by = j.by
      /\ e.verified = j.verified /\ e.cancelled = j.cancelled /\ e.kind = j.kind
    BY DEF Good, Typed, WorkerInv, Jobs
<1>2. /\ v \in Dialogs /\ v.open = u.open /\ v.id = u.id /\ v.secret = u.secret
      /\ v.stored = u.stored /\ v.verified = u.verified /\ v.hasResult = u.hasResult
      /\ v.saved = saved /\ v.closing = u.closing
    BY DEF Good, Typed, Dialogs
<1>3. Effective(v, k) = Effective(u, k)
    BY <1>2 DEF Effective
<1>4. Typed(v, e, k, m, a, t, s)
    BY <1>1, <1>2 DEF Good, Typed
<1>5. saved => Stored(j, k, m) /\ j.secret = Effective(u, k)
    BY <1>1 DEF Good, WorkerInv, Succeeded
<1>6. WorkerInv(v, e, k, m, t, s)
    BY <1>1, <1>2, <1>3, <1>5 DEF Good, WorkerInv, Succeeded, Stored, Writing, Resolved
<1>7. DialogInv(v, e, k, t)
    BY <1>1, <1>2, <1>3 DEF Good, DialogInv
<1>8. QED
    BY <1>4, <1>6, <1>7 DEF Good

\* What is applied is what was saved.
LEMMA FinishedIsGood ==
    ASSUME NEW u, NEW j, NEW k, NEW m, NEW a, NEW t, NEW s, Good(u, j, k, m, a, t, s),
           j.step = "finished",
           NEW v, v = IF u.saved \/ u.closing THEN Closed ELSE u,
           NEW b, b = IF u.saved THEN [id |-> j.id, secret |-> j.secret,
                                       verified |-> j.verified, by |-> j.by] ELSE a
    PROVE  Good(v, NoJob, k, m, b, t, s)
<1>1. b \in Reports
    BY DEF Good, Typed, Jobs, Reports
<1>2. v \in Dialogs
    BY Empty DEF Good, Typed
<1>3. Typed(v, NoJob, k, m, b, t, s)
    BY <1>1, <1>2, Empty DEF Good, Typed
<1>4. StoreInv(k, m, b, t, s)
    <2>1. CASE ~u.saved
        BY <2>1 DEF Good
    <2>2. CASE u.saved
        <3>1. /\ b.id = j.id /\ b.secret = j.secret /\ b.verified = j.verified
              /\ b.by = j.by
            BY <2>2
        <3>2. Stored(j, k, m) /\ j.secret = Effective(u, k) /\ j.id = u.id
            BY <2>2 DEF Good, WorkerInv
        <3>3. b.verified => <<b.id, b.secret>> \in t
            BY <3>1, <3>2 DEF Good, DialogInv
        <3>4. j.by \in Nat
            BY DEF Good, Typed, Jobs
        <3>5. QED
            BY <3>1, <3>2, <3>3, <3>4 DEF Good, StoreInv, Stored
    <2>3. QED
        BY <2>1, <2>2
<1>5. CASE u.saved \/ u.closing
    BY <1>2, <1>3, <1>4, <1>5, Empty, IdleIsGood
<1>6. CASE ~u.saved /\ ~u.closing
    <2>1. v = u
        BY <1>6
    <2>2. WorkerInv(v, NoJob, k, m, t, s)
        BY <1>6, <2>1, Empty DEF WorkerInv, Succeeded, Writing, Resolved
    <2>3. DialogInv(v, NoJob, k, t)
        BY <1>6, <2>1, Empty DEF Good, DialogInv
    <2>4. QED
        BY <1>3, <1>4, <2>2, <2>3 DEF Good
<1>7. QED
    BY <1>5, <1>6

\* What a crash leaves are the two stores.
LEMMA CrashIsGood ==
    ASSUME NEW u, NEW j, NEW k, NEW m, NEW a, NEW t, NEW s, Good(u, j, k, m, a, t, s)
    PROVE  Good(Closed, NoJob, k, m, NoReport, t, s)
<1>1. Typed(Closed, NoJob, k, m, NoReport, t, s)
    BY Empty DEF Good, Typed
<1>2. m.by \in Nat
    BY DEF Good, Typed, Metadata
<1>3. StoreInv(k, m, NoReport, t, s)
    BY <1>2, Empty DEF Good, StoreInv
<1>4. QED
    BY <1>1, <1>3, Empty, IdleIsGood

-----------------------------------------------------------------------------
(* The steps of the only instance *)

LEMMA Lift ==
    ASSUME NEW i, Instances = {i}, IInv, NEW u, NEW j, NEW a,
           ui' = [ui EXCEPT ![i] = u], job' = [job EXCEPT ![i] = j],
           applied' = [applied EXCEPT ![i] = a],
           Good(u, j, keychain', meta', a, tested', saves')
    PROVE  IInv'
<1>1. /\ ui \in [{i} -> Dialogs] /\ job \in [{i} -> Jobs] /\ applied \in [{i} -> Reports]
    BY DEF IInv, TypeOK
<1>2. u \in Dialogs /\ j \in Jobs /\ a \in Reports
    BY DEF Good, Typed
<1>3. /\ ui' \in [{i} -> Dialogs] /\ job' \in [{i} -> Jobs] /\ applied' \in [{i} -> Reports]
      /\ ui'[i] = u /\ job'[i] = j /\ applied'[i] = a
    BY <1>1, <1>2
<1>4. TypeOK'
    BY <1>3 DEF TypeOK, Good, Typed
<1>5. QED
    BY <1>3, <1>4 DEF IInv

\* What is not changed.
LEMMA Same ==
    ASSUME NEW i, Instances = {i}, IInv
    PROVE  /\ ui = [ui EXCEPT ![i] = ui[i]] /\ job = [job EXCEPT ![i] = job[i]]
           /\ applied = [applied EXCEPT ![i] = applied[i]]
           /\ Good(ui[i], job[i], keychain, meta, applied[i], tested, saves)
BY DEF IInv, TypeOK

LEMMA OpenKeeps == ASSUME NEW i, Instances = {i}, IInv, Open(i) PROVE IInv'
<1>1. PICK u : u = ui[i]
    OBVIOUS
<1>2. PICK j : j = job[i]
    OBVIOUS
<1>3. PICK a : a = applied[i]
    OBVIOUS
<1>4. /\ Good(u, j, keychain, meta, a, tested, saves)
      /\ ui = [ui EXCEPT ![i] = u] /\ job = [job EXCEPT ![i] = j]
      /\ applied = [applied EXCEPT ![i] = a]
    BY <1>1, <1>2, <1>3, Same
<1>5. PICK stored \in BOOLEAN : stored = (keychain.secret # None)
    OBVIOUS
<1>6. PICK id : id = meta.id
    OBVIOUS
<1>7. PICK v : v = [Closed EXCEPT !.open = TRUE, !.id = id, !.stored = stored]
    OBVIOUS
<1>8. /\ ~u.open /\ ui' = [ui EXCEPT ![i] = v]
      /\ UNCHANGED <<keychain, meta, job, applied, tested, saves>>
    BY <1>1, <1>5, <1>6, <1>7 DEF Open, Show
<1>9. Good(v, j, keychain, meta, a, tested, saves)
    BY <1>4, <1>6, <1>7, <1>8, OpenIsGood
<1>10. QED
    BY <1>4, <1>8, <1>9, Lift

LEMMA EditKeeps == ASSUME NEW i, Instances = {i}, IInv, Edit(i) PROVE IInv'
<1>1. PICK u : u = ui[i]
    OBVIOUS
<1>2. PICK j : j = job[i]
    OBVIOUS
<1>3. PICK a : a = applied[i]
    OBVIOUS
<1>4. /\ Good(u, j, keychain, meta, a, tested, saves)
      /\ ui = [ui EXCEPT ![i] = u] /\ job = [job EXCEPT ![i] = j]
      /\ applied = [applied EXCEPT ![i] = a]
    BY <1>1, <1>2, <1>3, Same
<1>5. j.step = "idle" /\ UNCHANGED <<keychain, meta, job, applied, tested, saves>>
    BY <1>2 DEF Edit, Idle
<1>6. PICK id \in Ids \cup {None}, secret \in Secrets \cup {None} :
          \/ ui' = [ui EXCEPT ![i] = Invalidated(u, [u EXCEPT !.id = id])]
          \/ ui' = [ui EXCEPT ![i] = Invalidated(u, [u EXCEPT !.secret = secret])]
    <2>1. CASE \E x \in (Ids \cup {None}) \ {ui[i].id} :
                    Show(i, Invalidated(ui[i], [ui[i] EXCEPT !.id = x]))
        BY <1>1, <2>1 DEF Show
    <2>2. CASE \E s \in (Secrets \cup {None}) \ {ui[i].secret} :
                    Show(i, Invalidated(ui[i], [ui[i] EXCEPT !.secret = s]))
        BY <1>1, <2>2 DEF Show
    <2>3. QED
        BY <2>1, <2>2 DEF Edit
<1>7. PICK e : /\ e = [u EXCEPT !.id = id] \/ e = [u EXCEPT !.secret = secret]
               /\ ui' = [ui EXCEPT ![i] = Invalidated(u, e)]
    BY <1>6
<1>8. PICK v : v = Invalidated(u, e)
    OBVIOUS
<1>9. Good(v, j, keychain, meta, a, tested, saves)
    BY <1>4, <1>5, <1>7, <1>8, EditIsGood
<1>10. QED
    BY <1>4, <1>5, <1>7, <1>8, <1>9, Lift

LEMMA TestKeeps == ASSUME NEW i, Instances = {i}, IInv, Test(i) PROVE IInv'
<1>1. PICK u : u = ui[i]
    OBVIOUS
<1>2. PICK j : j = job[i]
    OBVIOUS
<1>3. PICK a : a = applied[i]
    OBVIOUS
<1>4. /\ Good(u, j, keychain, meta, a, tested, saves)
      /\ ui = [ui EXCEPT ![i] = u] /\ job = [job EXCEPT ![i] = j]
      /\ applied = [applied EXCEPT ![i] = a]
    BY <1>1, <1>2, <1>3, Same
<1>5. PICK v : v = [u EXCEPT !.hasResult = FALSE]
    OBVIOUS
<1>6. PICK e : e = [NoJob EXCEPT !.kind = "test", !.step = "resolve", !.id = u.id,
                                 !.secret = u.secret]
    OBVIOUS
<1>7. /\ u.open /\ j.step = "idle" /\ ui' = [ui EXCEPT ![i] = v]
      /\ job' = [job EXCEPT ![i] = [Fields(i) EXCEPT !.kind = "test"]]
      /\ UNCHANGED <<keychain, meta, applied, tested, saves>>
    BY <1>1, <1>2, <1>5 DEF Test, Idle, Show, Become
<1>8. [Fields(i) EXCEPT !.kind = "test"] = e
    BY <1>1, <1>6 DEF Fields, NoJob
<1>9. Good(v, e, keychain, meta, a, tested, saves)
    BY <1>4, <1>5, <1>6, <1>7, TestIsGood
<1>10. QED
    BY <1>4, <1>7, <1>8, <1>9, Lift

LEMMA SaveKeeps == ASSUME NEW i, Instances = {i}, IInv, Save(i) PROVE IInv'
<1>1. PICK u : u = ui[i]
    OBVIOUS
<1>2. PICK j : j = job[i]
    OBVIOUS
<1>3. PICK a : a = applied[i]
    OBVIOUS
<1>4. /\ Good(u, j, keychain, meta, a, tested, saves)
      /\ ui = [ui EXCEPT ![i] = u] /\ job = [job EXCEPT ![i] = j]
      /\ applied = [applied EXCEPT ![i] = a]
    BY <1>1, <1>2, <1>3, Same
<1>5. PICK r, verified : r = saves + 1 /\ verified = (u.verified = u.id)
    OBVIOUS
<1>6. PICK e : e = [NoJob EXCEPT !.kind = "save", !.step = "resolve", !.id = u.id,
                                 !.secret = u.secret, !.by = r, !.verified = verified]
    OBVIOUS
<1>7. /\ u.open /\ j.step = "idle" /\ u.id # None /\ saves < MaxSaves /\ saves' = r
      /\ job' = [job EXCEPT ![i] = [Fields(i) EXCEPT !.kind = "save", !.by = r,
                                                     !.verified = verified]]
      /\ UNCHANGED <<keychain, meta, ui, applied, tested>>
    BY <1>1, <1>2, <1>5 DEF Save, Idle, Become
<1>8. [Fields(i) EXCEPT !.kind = "save", !.by = r, !.verified = verified] = e
    BY <1>1, <1>6 DEF Fields, NoJob
<1>9. Good(u, e, keychain, meta, a, tested, r)
    BY <1>4, <1>5, <1>6, <1>7, SaveIsGood
<1>10. QED
    BY <1>4, <1>7, <1>8, <1>9, Lift

LEMMA CloseKeeps == ASSUME NEW i, Instances = {i}, IInv, Close(i) PROVE IInv'
<1>1. PICK u : u = ui[i]
    OBVIOUS
<1>2. PICK j : j = job[i]
    OBVIOUS
<1>3. PICK a : a = applied[i]
    OBVIOUS
<1>4. /\ Good(u, j, keychain, meta, a, tested, saves)
      /\ ui = [ui EXCEPT ![i] = u] /\ job = [job EXCEPT ![i] = j]
      /\ applied = [applied EXCEPT ![i] = a]
    BY <1>1, <1>2, <1>3, Same
<1>5. u.open /\ UNCHANGED <<keychain, meta, applied, tested, saves>>
    BY <1>1 DEF Close
<1>6. CASE j.step = "idle"
    <2>1. ui' = [ui EXCEPT ![i] = Closed] /\ job' = job
        BY <1>2, <1>6 DEF Close, Idle, Show
    <2>2. Typed(Closed, j, keychain, meta, a, tested, saves)
        BY <1>4, Empty DEF Good, Typed
    <2>3. StoreInv(keychain, meta, a, tested, saves) /\ ~j.verified /\ ~j.cancelled
        BY <1>4, <1>6 DEF Good, DialogInv
    <2>4. Good(Closed, j, keychain, meta, a, tested, saves)
        BY <1>6, <2>2, <2>3, Empty, IdleIsGood
    <2>5. QED
        BY <1>4, <1>5, <2>1, <2>4, Lift
<1>7. CASE j.step # "idle"
    <2>1. PICK v, e : v = [u EXCEPT !.closing = TRUE] /\ e = [j EXCEPT !.cancelled = TRUE]
        OBVIOUS
    <2>2. ui' = [ui EXCEPT ![i] = v] /\ job' = [job EXCEPT ![i] = e]
        BY <1>1, <1>2, <1>7, <2>1 DEF Close, Idle, Show, Become
    <2>3. Good(v, e, keychain, meta, a, tested, saves)
        BY <1>4, <1>5, <1>7, <2>1, CloseIsGood
    <2>4. QED
        BY <1>4, <1>5, <2>2, <2>3, Lift
<1>8. QED
    BY <1>6, <1>7

\* The result that a workflow emits when it ends.
LEMMA EndKeeps ==
    ASSUME NEW i, Instances = {i}, IInv, NEW result \in {"succeeded", "failed"}, End(i, result),
           result = "succeeded" => job[i].step = "return",
           NEW k, keychain' = k, UNCHANGED <<ui, meta, applied, tested, saves>>,
           job[i].step \in Working,
           k = keychain \/ (job[i].step = "set" /\ k = [secret |-> job[i].secret, by |-> job[i].by])
    PROVE  IInv'
<1>1. PICK u : u = ui[i]
    OBVIOUS
<1>2. PICK j : j = job[i]
    OBVIOUS
<1>3. PICK a : a = applied[i]
    OBVIOUS
<1>4. /\ Good(u, j, keychain, meta, a, tested, saves)
      /\ ui = [ui EXCEPT ![i] = u] /\ applied = [applied EXCEPT ![i] = a]
    BY <1>1, <1>2, <1>3, Same
<1>5. Good(u, j, k, meta, a, tested, saves)
    BY <1>2, <1>4, WriteIsGood
<1>6. PICK r \in {"none", "succeeded", "failed"} :
          r = IF j.cancelled THEN "none" ELSE result
    OBVIOUS
<1>7. PICK e : e = [j EXCEPT !.step = "emitted", !.result = r]
    OBVIOUS
<1>8. job' = [job EXCEPT ![i] = e]
    BY <1>2, <1>6, <1>7 DEF End, Become
<1>9. Good(u, e, k, meta, a, tested, saves)
    BY <1>2, <1>5, <1>6, <1>7, EndIsGood
<1>10. QED
    BY <1>4, <1>8, <1>9, Lift

LEMMA ResolveKeeps == ASSUME NEW i, Instances = {i}, IInv, Resolve(i) PROVE IInv'
<1>1. PICK u : u = ui[i]
    OBVIOUS
<1>2. PICK j : j = job[i]
    OBVIOUS
<1>3. PICK a : a = applied[i]
    OBVIOUS
<1>4. /\ Good(u, j, keychain, meta, a, tested, saves)
      /\ ui = [ui EXCEPT ![i] = u] /\ job = [job EXCEPT ![i] = j]
      /\ applied = [applied EXCEPT ![i] = a]
    BY <1>1, <1>2, <1>3, Same
<1>5. /\ j.step = "resolve" /\ j.step \in Working
      /\ UNCHANGED <<keychain, meta, ui, applied, tested, saves>>
    BY <1>2 DEF Resolve, At, Working
<1>6. CASE End(i, "failed")
    BY <1>2, <1>5, <1>6, EndKeeps
<1>7. CASE ~End(i, "failed")
    <2>1. PICK secret, step :
              /\ secret = IF j.secret = None /\ u.stored THEN keychain.secret ELSE j.secret
              /\ step = IF j.kind = "test" THEN "remote" ELSE "set"
        OBVIOUS
    <2>2. PICK e : e = [j EXCEPT !.secret = secret, !.step = step]
        OBVIOUS
    <2>3. job' = [job EXCEPT ![i] = e]
        BY <1>1, <1>2, <1>7, <2>1, <2>2 DEF Resolve, Used, Become
    <2>4. Good(u, e, keychain, meta, a, tested, saves)
        BY <1>4, <1>5, <2>1, <2>2, ResolveIsGood
    <2>5. QED
        BY <1>4, <1>5, <2>3, <2>4, Lift
<1>8. QED
    BY <1>6, <1>7

LEMMA RemoteKeeps == ASSUME NEW i, Instances = {i}, IInv, Remote(i) PROVE IInv'
<1>1. PICK u : u = ui[i]
    OBVIOUS
<1>2. PICK j : j = job[i]
    OBVIOUS
<1>3. PICK a : a = applied[i]
    OBVIOUS
<1>4. /\ Good(u, j, keychain, meta, a, tested, saves)
      /\ ui = [ui EXCEPT ![i] = u] /\ job = [job EXCEPT ![i] = j]
      /\ applied = [applied EXCEPT ![i] = a]
    BY <1>1, <1>2, <1>3, Same
<1>5. PICK e : e = [j EXCEPT !.step = "return"]
    OBVIOUS
<1>6. PICK w : w = tested \cup {<<j.id, j.secret>>}
    OBVIOUS
<1>7. /\ j.step = "remote" /\ <<j.id, j.secret>> \in Accepted /\ tested' = w
      /\ job' = [job EXCEPT ![i] = e] /\ UNCHANGED <<keychain, meta, ui, applied, saves>>
    BY <1>2, <1>5, <1>6 DEF Remote, At, Go, Become
<1>8. Good(u, e, keychain, meta, a, w, saves)
    BY <1>4, <1>5, <1>6, <1>7, RemoteIsGood
<1>9. QED
    BY <1>4, <1>7, <1>8, Lift

LEMMA SetKeeps == ASSUME NEW i, Instances = {i}, IInv, Set(i) PROVE IInv'
<1>1. PICK u : u = ui[i]
    OBVIOUS
<1>2. PICK j : j = job[i]
    OBVIOUS
<1>3. PICK a : a = applied[i]
    OBVIOUS
<1>4. /\ Good(u, j, keychain, meta, a, tested, saves)
      /\ ui = [ui EXCEPT ![i] = u] /\ job = [job EXCEPT ![i] = j]
      /\ applied = [applied EXCEPT ![i] = a]
    BY <1>1, <1>2, <1>3, Same
<1>5. /\ j.step = "set" /\ j.step \in Working
      /\ UNCHANGED <<meta, ui, applied, tested, saves>>
    BY <1>2 DEF Set, At, Working
<1>6. PICK k : k = keychain'
    OBVIOUS
<1>7. k = keychain \/ k = [secret |-> j.secret, by |-> j.by]
    BY <1>2, <1>6 DEF Set
<1>8. CASE End(i, "failed")
    BY <1>2, <1>5, <1>6, <1>7, <1>8, EndKeeps
<1>9. CASE ~End(i, "failed")
    <2>1. PICK e : e = [j EXCEPT !.step = "check"]
        OBVIOUS
    <2>2. job' = [job EXCEPT ![i] = e]
        BY <1>2, <1>9, <2>1 DEF Set, Go, Become
    <2>3. Good(u, j, k, meta, a, tested, saves)
        BY <1>4, <1>5, <1>7, WriteIsGood
    <2>4. Good(u, e, k, meta, a, tested, saves)
        BY <1>5, <2>1, <2>3, SetIsGood
    <2>5. QED
        BY <1>4, <1>5, <1>6, <2>2, <2>4, Lift
<1>10. QED
    BY <1>8, <1>9

LEMMA CheckKeeps == ASSUME NEW i, Instances = {i}, IInv, Check(i) PROVE IInv'
<1>1. PICK u : u = ui[i]
    OBVIOUS
<1>2. PICK j : j = job[i]
    OBVIOUS
<1>3. PICK a : a = applied[i]
    OBVIOUS
<1>4. /\ Good(u, j, keychain, meta, a, tested, saves)
      /\ ui = [ui EXCEPT ![i] = u] /\ job = [job EXCEPT ![i] = j]
      /\ applied = [applied EXCEPT ![i] = a]
    BY <1>1, <1>2, <1>3, Same
<1>5. /\ j.step = "check" /\ j.step \in Working
      /\ UNCHANGED <<meta, ui, applied, tested, saves>>
    BY <1>2 DEF Check, At, Working
<1>6. CASE keychain.secret = j.secret
    <2>1. PICK e, k : e = [j EXCEPT !.step = "commit"] /\ k = [keychain EXCEPT !.by = j.by]
        OBVIOUS
    <2>2. job' = [job EXCEPT ![i] = e] /\ keychain' = k
        BY <1>2, <1>6, <2>1 DEF Check, Go, Become
    <2>3. Good(u, e, k, meta, a, tested, saves)
        BY <1>4, <1>5, <1>6, <2>1, CheckIsGood
    <2>4. QED
        BY <1>4, <1>5, <2>2, <2>3, Lift
<1>7. CASE keychain.secret # j.secret
    <2>1. keychain' = keychain /\ End(i, "failed")
        BY <1>2, <1>7 DEF Check
    <2>2. QED
        BY <1>2, <1>5, <2>1, EndKeeps
<1>8. QED
    BY <1>6, <1>7

LEMMA CommitKeeps == ASSUME NEW i, Instances = {i}, IInv, Commit(i) PROVE IInv'
<1>1. PICK u : u = ui[i]
    OBVIOUS
<1>2. PICK j : j = job[i]
    OBVIOUS
<1>3. PICK a : a = applied[i]
    OBVIOUS
<1>4. /\ Good(u, j, keychain, meta, a, tested, saves)
      /\ ui = [ui EXCEPT ![i] = u] /\ job = [job EXCEPT ![i] = j]
      /\ applied = [applied EXCEPT ![i] = a]
    BY <1>1, <1>2, <1>3, Same
<1>5. PICK e, n : e = [j EXCEPT !.step = "return"] /\ n = [id |-> j.id, by |-> j.by]
    OBVIOUS
<1>6. /\ j.step = "commit" /\ meta' = n /\ job' = [job EXCEPT ![i] = e]
      /\ UNCHANGED <<keychain, ui, applied, tested, saves>>
    BY <1>2, <1>5 DEF Commit, At, Go, Become
<1>7. Good(u, e, keychain, n, a, tested, saves)
    BY <1>4, <1>5, <1>6, CommitIsGood
<1>8. QED
    BY <1>4, <1>6, <1>7, Lift

LEMMA DeliverKeeps == ASSUME NEW i, Instances = {i}, IInv, Deliver(i) PROVE IInv'
<1>1. PICK u : u = ui[i]
    OBVIOUS
<1>2. PICK j : j = job[i]
    OBVIOUS
<1>3. PICK a : a = applied[i]
    OBVIOUS
<1>4. /\ Good(u, j, keychain, meta, a, tested, saves)
      /\ ui = [ui EXCEPT ![i] = u] /\ job = [job EXCEPT ![i] = j]
      /\ applied = [applied EXCEPT ![i] = a]
    BY <1>1, <1>2, <1>3, Same
<1>5. PICK e : e = [j EXCEPT !.step = "finished"]
    OBVIOUS
<1>6. /\ j.step = "emitted" /\ job' = [job EXCEPT ![i] = e]
      /\ UNCHANGED <<keychain, meta, applied, tested, saves>>
    BY <1>2, <1>5 DEF Deliver, Go, Become
<1>7. CASE j.kind = "test"
    <2>1. PICK verified :
              verified = IF j.result = "succeeded" /\ j.id = u.id THEN j.id ELSE None
        OBVIOUS
    <2>2. PICK v : v = IF j.result = "none" THEN u
                       ELSE [u EXCEPT !.hasResult = TRUE, !.verified = verified]
        OBVIOUS
    <2>3. ui' = [ui EXCEPT ![i] = v]
        BY <1>1, <1>2, <1>7, <2>1, <2>2 DEF Deliver, TestDelivered, Show
    <2>4. Good(v, e, keychain, meta, a, tested, saves)
        BY <1>4, <1>5, <1>6, <1>7, <2>1, <2>2, TestDeliveredIsGood
    <2>5. QED
        BY <1>4, <1>6, <2>3, <2>4, Lift
<1>8. CASE j.kind # "test"
    <2>1. PICK saved : saved = (j.result = "succeeded")
        OBVIOUS
    <2>2. PICK v : v = [u EXCEPT !.saved = saved]
        OBVIOUS
    <2>3. ui' = [ui EXCEPT ![i] = v]
        BY <1>1, <1>2, <1>8, <2>1, <2>2 DEF Deliver, SaveDelivered, Show
    <2>4. Good(v, e, keychain, meta, a, tested, saves)
        BY <1>4, <1>5, <1>6, <1>8, <2>1, <2>2, SaveDeliveredIsGood
    <2>5. QED
        BY <1>4, <1>6, <2>3, <2>4, Lift
<1>9. QED
    BY <1>7, <1>8

LEMMA FinishedKeeps == ASSUME NEW i, Instances = {i}, IInv, Finished(i) PROVE IInv'
<1>1. PICK u : u = ui[i]
    OBVIOUS
<1>2. PICK j : j = job[i]
    OBVIOUS
<1>3. PICK a : a = applied[i]
    OBVIOUS
<1>4. /\ Good(u, j, keychain, meta, a, tested, saves)
      /\ ui = [ui EXCEPT ![i] = u] /\ job = [job EXCEPT ![i] = j]
      /\ applied = [applied EXCEPT ![i] = a]
    BY <1>1, <1>2, <1>3, Same
<1>5. PICK v, b :
          /\ v = IF u.saved \/ u.closing THEN Closed ELSE u
          /\ b = IF u.saved THEN [id |-> j.id, secret |-> j.secret,
                                  verified |-> j.verified, by |-> j.by] ELSE a
    OBVIOUS
<1>6. /\ j.step = "finished" /\ job' = [job EXCEPT ![i] = NoJob]
      /\ ui' = [ui EXCEPT ![i] = v] /\ UNCHANGED <<keychain, meta, tested, saves>>
    BY <1>1, <1>2, <1>5 DEF Finished, Become, Show
<1>7. applied' = [applied EXCEPT ![i] = b]
    BY <1>1, <1>2, <1>4, <1>5 DEF Finished
<1>8. Good(v, NoJob, keychain, meta, b, tested, saves)
    BY <1>4, <1>5, <1>6, FinishedIsGood
<1>9. QED
    BY <1>6, <1>7, <1>8, Lift

LEMMA CrashKeeps == ASSUME NEW i, Instances = {i}, IInv, Crash(i) PROVE IInv'
<1>1. PICK u : u = ui[i]
    OBVIOUS
<1>2. PICK j : j = job[i]
    OBVIOUS
<1>3. PICK a : a = applied[i]
    OBVIOUS
<1>4. /\ Good(u, j, keychain, meta, a, tested, saves)
      /\ ui = [ui EXCEPT ![i] = u] /\ job = [job EXCEPT ![i] = j]
      /\ applied = [applied EXCEPT ![i] = a]
    BY <1>1, <1>2, <1>3, Same
<1>5. /\ ui' = [ui EXCEPT ![i] = Closed] /\ job' = [job EXCEPT ![i] = NoJob]
      /\ applied' = [applied EXCEPT ![i] = NoReport] /\ UNCHANGED <<meta, tested, saves>>
    BY DEF Crash, Show, Become
<1>6. PICK k : k = keychain'
    OBVIOUS
<1>7. k = keychain \/ (j.step = "set" /\ k = [secret |-> j.secret, by |-> j.by])
    BY <1>2, <1>6 DEF Crash, At
<1>8. Good(u, j, k, meta, a, tested, saves)
    BY <1>4, <1>7, WriteIsGood
<1>9. Good(Closed, NoJob, k, meta, NoReport, tested, saves)
    BY <1>8, CrashIsGood
<1>10. QED
    BY <1>5, <1>6, <1>9, Lift

LEMMA ExpireKeeps == ASSUME NEW i, Instances = {i}, IInv, Expire(i) PROVE IInv'
<1>1. PICK u : u = ui[i]
    OBVIOUS
<1>2. PICK j : j = job[i]
    OBVIOUS
<1>3. PICK a : a = applied[i]
    OBVIOUS
<1>4. /\ Good(u, j, keychain, meta, a, tested, saves)
      /\ ui = [ui EXCEPT ![i] = u] /\ job = [job EXCEPT ![i] = j]
      /\ applied = [applied EXCEPT ![i] = a]
    BY <1>1, <1>2, <1>3, Same
<1>5. PICK e : e = [j EXCEPT !.late = TRUE]
    OBVIOUS
<1>6. /\ job' = [job EXCEPT ![i] = e]
      /\ UNCHANGED <<keychain, meta, ui, applied, tested, saves>>
    BY <1>2, <1>5 DEF Expire, Become
<1>7. Good(u, e, keychain, meta, a, tested, saves)
    BY <1>4, <1>5, ExpireIsGood
<1>8. QED
    BY <1>4, <1>6, <1>7, Lift

-----------------------------------------------------------------------------
(* The theorems *)

LEMMA Initial == ASSUME NEW i, Instances = {i}, Init PROVE IInv
<1>1. TypeOK
    BY Empty, MaxSavesAssumption DEF Init, TypeOK, Keychain, Metadata
<1>2. ui[i] = Closed /\ job[i] = NoJob /\ applied[i] = NoReport
    BY DEF Init
<1>3. Typed(Closed, NoJob, keychain, meta, NoReport, tested, saves)
    BY <1>1, Empty DEF TypeOK, Typed
<1>4. keychain.by = 0 /\ meta.by = 0 /\ saves = 0
    BY DEF Init
<1>5. StoreInv(keychain, meta, NoReport, tested, saves)
    BY <1>4, Empty DEF StoreInv
<1>6. Good(ui[i], job[i], keychain, meta, applied[i], tested, saves)
    BY <1>2, <1>3, <1>5, Empty, IdleIsGood
<1>7. QED
    BY <1>1, <1>6 DEF IInv

LEMMA Inductive == ASSUME NEW i, Instances = {i}, IInv, [Next]_vars PROVE IInv'
<1>1. CASE UNCHANGED vars
    BY <1>1 DEF vars, IInv, TypeOK
<1>2. CASE User(i)
    BY <1>2, OpenKeeps, EditKeeps, TestKeeps, SaveKeeps, CloseKeeps DEF User
<1>3. CASE Worker(i)
    <2>1. CASE Return(i)
        BY <2>1, EndKeeps DEF Return, At, Working
    <2>2. CASE Break(i)
        BY <2>2, EndKeeps DEF Break
    <2>3. QED
        BY <1>3, <2>1, <2>2, ResolveKeeps, RemoteKeeps, SetKeeps, CheckKeeps, CommitKeeps
        DEF Worker
<1>4. CASE Expire(i) \/ Dialog(i) \/ Crash(i)
    BY <1>4, ExpireKeeps, DeliverKeeps, FinishedKeeps, CrashKeeps DEF Dialog
<1>5. QED
    BY <1>1, <1>2, <1>3, <1>4 DEF Next

LEMMA Invariant == ASSUME NEW i, Instances = {i} PROVE Spec => []IInv
<1>1. Init => IInv
    BY Initial
<1>2. IInv /\ [Next]_vars => IInv'
    BY Inductive
<1>3. QED
    BY <1>1, <1>2, PTL DEF Spec

\* In the only instance, what the window is told is verified was tested, the
\* id with the very secret: VerifiedWasTested.
THEOREM VerifiedMeansTested == ASSUME NEW i, Instances = {i} PROVE Spec => []VerifiedWasTested
<1>1. IInv => VerifiedWasTested
    BY DEF IInv, Good, StoreInv, VerifiedWasTested
<1>2. QED
    BY <1>1, Invariant, PTL

\* Wherever a save fails, is cancelled or crashes, the Keychain is never behind
\* the metadata: SecretFirst, with the types.
THEOREM SecretIsFirst == ASSUME NEW i, Instances = {i} PROVE Spec => []SecretFirst
<1>1. IInv => SecretFirst
    BY DEF IInv, Good, StoreInv, SecretFirst
<1>2. QED
    BY <1>1, Invariant, PTL

\* What the window was told is saved is what the two stores hold, until a later
\* save: AppliedIsStored.
THEOREM AppliedMeansStored == ASSUME NEW i, Instances = {i} PROVE Spec => []AppliedIsStored
<1>1. IInv => AppliedIsStored
    BY DEF IInv, Good, StoreInv, AppliedIsStored
<1>2. QED
    BY <1>1, Invariant, PTL

-----------------------------------------------------------------------------
(* Any number of instances, each of which may save while another works *)

TestedId(id, t) == \E secret \in Secrets : <<id, secret>> \in t

\* The dialog u, its job j and the report a, of any instance: t was tested.
Sane(u, j, a, t) ==
    /\ j.step # "idle" => u.open /\ j.kind # "none"
    /\ u.closing => u.open /\ j.step # "idle" /\ j.cancelled
    /\ j.step = "remote" => j.kind = "test"
    /\ j.step \in Writing => j.kind = "save"
    /\ j.kind = "test" /\ (j.step = "return" \/ Succeeded(j)) => TestedId(j.id, t)
    /\ u.verified # None => TestedId(u.verified, t)
    /\ j.verified => TestedId(j.id, t)
    /\ a.verified => TestedId(a.id, t)

SharedInv == TypeOK /\ \A i \in Instances : Sane(ui[i], job[i], applied[i], tested)

LEMMA LiftShared ==
    ASSUME SharedInv, NEW i \in Instances, NEW u \in Dialogs, NEW j \in Jobs, NEW a \in Reports,
           ui' = [ui EXCEPT ![i] = u], job' = [job EXCEPT ![i] = j],
           applied' = [applied EXCEPT ![i] = a],
           keychain' \in Keychain, meta' \in Metadata, saves' \in 0..MaxSaves,
           tested \subseteq tested', tested' \subseteq Ids \X Secrets,
           Sane(u, j, a, tested')
    PROVE  SharedInv'
<1>1. TypeOK'
    BY DEF SharedInv, TypeOK
<1>2. ASSUME NEW n \in Instances PROVE Sane(ui'[n], job'[n], applied'[n], tested')
    <2>1. CASE n = i
        BY <2>1 DEF SharedInv, TypeOK
    <2>2. CASE n # i
        <3>1. ui'[n] = ui[n] /\ job'[n] = job[n] /\ applied'[n] = applied[n]
            BY <2>2 DEF SharedInv, TypeOK
        <3>2. Sane(ui[n], job[n], applied[n], tested)
            BY DEF SharedInv
        <3>3. \A id : TestedId(id, tested) => TestedId(id, tested')
            BY DEF TestedId
        <3>4. QED
            BY <3>1, <3>2, <3>3 DEF Sane
    <2>3. QED
        BY <2>1, <2>2
<1>3. QED
    BY <1>1, <1>2 DEF SharedInv

\* What an instance has not changed is as it was.
LEMMA SameShared ==
    ASSUME SharedInv, NEW i \in Instances
    PROVE  /\ ui[i] \in Dialogs /\ job[i] \in Jobs /\ applied[i] \in Reports
           /\ ui = [ui EXCEPT ![i] = ui[i]] /\ job = [job EXCEPT ![i] = job[i]]
           /\ applied = [applied EXCEPT ![i] = applied[i]]
           /\ keychain \in Keychain /\ meta \in Metadata /\ saves \in 0..MaxSaves
           /\ tested \subseteq Ids \X Secrets
           /\ Sane(ui[i], job[i], applied[i], tested)
BY DEF SharedInv, TypeOK

\* Only the dialog of an instance changes.
LEMMA ShownShared ==
    ASSUME SharedInv, NEW i \in Instances, NEW u \in Dialogs, Show(i, u),
           UNCHANGED <<keychain, meta, job, applied, tested, saves>>,
           Sane(u, job[i], applied[i], tested)
    PROVE  SharedInv'
BY SameShared, LiftShared DEF Show

\* Only the job of an instance, and a store or what was tested, changes.
LEMMA WorkedShared ==
    ASSUME SharedInv, NEW i \in Instances, NEW j \in Jobs, Become(i, j),
           UNCHANGED <<ui, applied, saves>>, keychain' \in Keychain, meta' \in Metadata,
           tested \subseteq tested', tested' \subseteq Ids \X Secrets,
           Sane(ui[i], j, applied[i], tested')
    PROVE  SharedInv'
BY SameShared, LiftShared DEF Become

LEMMA UserShared ==
    ASSUME SharedInv, NEW i \in Instances, User(i)
    PROVE  SharedInv'
<1>1. PICK u, j, a : u = ui[i] /\ j = job[i] /\ a = applied[i]
    OBVIOUS
<1>2. /\ u \in Dialogs /\ j \in Jobs /\ a \in Reports
      /\ Sane(u, j, a, tested) /\ meta \in Metadata /\ keychain \in Keychain
      /\ saves \in 0..MaxSaves /\ tested \subseteq Ids \X Secrets
    BY <1>1, SameShared
<1>3. CASE Open(i)
    <2>1. PICK stored \in BOOLEAN : stored = (keychain.secret # None)
        OBVIOUS
    <2>2. PICK v : v = [Closed EXCEPT !.open = TRUE, !.id = meta.id, !.stored = stored]
        OBVIOUS
    <2>3. v \in Dialogs /\ v.open /\ ~v.closing /\ v.verified = None
        BY <1>2, <2>2 DEF Closed, Dialogs, Metadata
    <2>4. /\ Show(i, v) /\ ~u.open
          /\ UNCHANGED <<keychain, meta, job, applied, tested, saves>>
        BY <1>1, <1>3, <2>1, <2>2 DEF Open
    <2>5. Sane(v, j, a, tested)
        BY <1>2, <2>3, <2>4 DEF Sane
    <2>6. QED
        BY <1>1, <2>3, <2>4, <2>5, ShownShared
<1>4. CASE Edit(i)
    <2>1. PICK v \in Dialogs : /\ v.open = u.open /\ v.closing = u.closing
                               /\ v.verified \in {None, u.verified} /\ Show(i, v)
        <3>1. ASSUME NEW e \in Dialogs, e.open = u.open, e.closing = u.closing,
                     e.verified = u.verified
              PROVE  /\ Invalidated(u, e) \in Dialogs
                     /\ Invalidated(u, e).open = u.open /\ Invalidated(u, e).closing = u.closing
                     /\ Invalidated(u, e).verified \in {None, u.verified}
            BY <3>1 DEF Invalidated, Dialogs
        <3>2. ASSUME NEW x \in Ids \cup {None}, Show(i, Invalidated(u, [u EXCEPT !.id = x]))
              PROVE  \E v \in Dialogs : /\ v.open = u.open /\ v.closing = u.closing
                                        /\ v.verified \in {None, u.verified} /\ Show(i, v)
            <4>1. PICK e : e = [u EXCEPT !.id = x]
                OBVIOUS
            <4>2. /\ e \in Dialogs /\ e.open = u.open /\ e.closing = u.closing
                  /\ e.verified = u.verified
                BY <1>2, <4>1 DEF Dialogs
            <4>3. QED
                BY <3>1, <3>2, <4>1, <4>2
        <3>3. ASSUME NEW s \in Secrets \cup {None},
                     Show(i, Invalidated(u, [u EXCEPT !.secret = s]))
              PROVE  \E v \in Dialogs : /\ v.open = u.open /\ v.closing = u.closing
                                        /\ v.verified \in {None, u.verified} /\ Show(i, v)
            <4>1. PICK e : e = [u EXCEPT !.secret = s]
                OBVIOUS
            <4>2. /\ e \in Dialogs /\ e.open = u.open /\ e.closing = u.closing
                  /\ e.verified = u.verified
                BY <1>2, <4>1 DEF Dialogs
            <4>3. QED
                BY <3>1, <3>3, <4>1, <4>2
        <3>4. QED
            BY <1>1, <1>4, <3>2, <3>3 DEF Edit
    <2>2. Sane(v, j, a, tested)
        BY <1>2, <2>1 DEF Sane
    <2>3. QED
        BY <1>1, <1>4, <2>1, <2>2, ShownShared DEF Edit
<1>5. CASE Test(i)
    <2>1. PICK v, k : /\ v = [u EXCEPT !.hasResult = FALSE]
                      /\ k = [[NoJob EXCEPT !.step = "resolve", !.id = u.id, !.secret = u.secret]
                              EXCEPT !.kind = "test"]
        OBVIOUS
    <2>2. /\ v \in Dialogs /\ v.open = u.open /\ v.closing = u.closing /\ v.verified = u.verified
          /\ k \in Jobs /\ k.step = "resolve" /\ k.kind = "test" /\ ~k.verified
        <3>1. /\ v \in Dialogs /\ v.open = u.open /\ v.closing = u.closing
              /\ v.verified = u.verified /\ u.id \in Ids \cup {None}
              /\ u.secret \in Secrets \cup {None}
            BY <1>2, <2>1 DEF Dialogs
        <3>2. PICK n : n = NoJob
            OBVIOUS
        <3>3. k = [[n EXCEPT !.step = "resolve", !.id = u.id, !.secret = u.secret]
                   EXCEPT !.kind = "test"]
            BY <2>1, <3>2
        <3>4. n \in Jobs /\ ~n.verified
            BY <3>2, Empty
        <3>5. k \in Jobs /\ k.step = "resolve" /\ k.kind = "test" /\ ~k.verified
            BY <3>1, <3>3, <3>4 DEF Jobs, Working
        <3>6. QED
            BY <3>1, <3>5
    <2>3. u.open /\ j.step = "idle" /\ Show(i, v) /\ Become(i, k)
        BY <1>1, <1>5, <2>1 DEF Test, Idle, Fields
    <2>4. Sane(v, k, a, tested)
        BY <1>2, <2>2, <2>3 DEF Sane, Writing, Succeeded
    <2>5. QED
        BY <1>1, <1>2, <1>5, <2>2, <2>3, <2>4, SameShared, LiftShared DEF Test, Show, Become
<1>6. CASE Save(i)
    <2>1. PICK verified \in BOOLEAN : verified = (u.verified = u.id)
        OBVIOUS
    <2>2. PICK k : k = [[NoJob EXCEPT !.step = "resolve", !.id = u.id, !.secret = u.secret]
                        EXCEPT !.kind = "save", !.by = saves + 1, !.verified = verified]
        OBVIOUS
    <2>3. saves' = saves + 1 /\ saves + 1 \in 0..MaxSaves
        BY <1>2, <1>6, MaxSavesAssumption DEF Save
    <2>4. /\ k \in Jobs /\ k.step = "resolve" /\ k.kind = "save" /\ k.verified = verified
          /\ k.id = u.id
        BY <1>2, <2>2, <2>3 DEF Dialogs, Jobs, NoJob, Working
    <2>5. u.open /\ u.id # None /\ j.step = "idle" /\ Become(i, k)
        BY <1>1, <1>6, <2>1, <2>2 DEF Save, Idle, Fields
    <2>6. Sane(u, k, a, tested)
        BY <1>2, <2>1, <2>4, <2>5 DEF Sane, Writing
    <2>7. /\ job' = [job EXCEPT ![i] = k]
          /\ UNCHANGED <<keychain, meta, ui, applied, tested>>
        BY <1>6, <2>5 DEF Save, Become
    <2>8. ui' = [ui EXCEPT ![i] = u] /\ applied' = [applied EXCEPT ![i] = a]
        BY <1>1, <2>7, SameShared
    <2>9. QED
        BY <1>2, <2>3, <2>4, <2>6, <2>7, <2>8, LiftShared
<1>7. CASE Close(i)
    <2>1. CASE j.step = "idle"
        <3>1. Closed \in Dialogs /\ Closed.verified = None /\ ~Closed.closing
            BY Empty
        <3>2. Sane(Closed, j, a, tested)
            BY <1>2, <2>1, <3>1 DEF Sane, Writing
        <3>3. Show(i, Closed) /\ UNCHANGED <<keychain, meta, job, applied, tested, saves>>
            BY <1>1, <1>7, <2>1 DEF Close, Idle
        <3>4. Sane(Closed, job[i], applied[i], tested)
            BY <1>1, <3>2
        <3>5. PICK v : v = Closed
            OBVIOUS
        <3>6. v \in Dialogs /\ Show(i, v) /\ Sane(v, job[i], applied[i], tested)
            BY <3>1, <3>3, <3>4, <3>5
        <3>7. QED
            BY <3>3, <3>6, ShownShared
    <2>2. CASE j.step # "idle"
        <3>1. PICK v, k : v = [u EXCEPT !.closing = TRUE] /\ k = [j EXCEPT !.cancelled = TRUE]
            OBVIOUS
        <3>2. /\ v \in Dialogs /\ v.open = u.open /\ v.verified = u.verified
              /\ k \in Jobs /\ k.step = j.step /\ k.kind = j.kind /\ k.id = j.id
              /\ k.verified = j.verified /\ k.result = j.result /\ k.cancelled
            BY <1>2, <3>1 DEF Dialogs, Jobs
        <3>3. u.open /\ Show(i, v) /\ Become(i, k)
            BY <1>1, <1>7, <2>2, <3>1 DEF Close, Idle
        <3>4. Sane(v, k, a, tested)
            BY <1>2, <2>2, <3>2, <3>3 DEF Sane, Succeeded
        <3>5. QED
            BY <1>1, <1>2, <1>7, <3>2, <3>3, <3>4, SameShared, LiftShared DEF Close, Show, Become
    <2>3. QED
        BY <2>1, <2>2
<1>8. QED
    BY <1>3, <1>4, <1>5, <1>6, <1>7 DEF User

\* The job goes on to a step of its kind.
LEMMA WentOn ==
    ASSUME NEW u, NEW j \in Jobs, NEW a, NEW t, Sane(u, j, a, t), j.step \in Working,
           NEW step \in Working,
           step = "remote" => j.kind = "test", step \in Writing => j.kind = "save",
           step = "return" /\ j.kind = "test" => TestedId(j.id, t),
           NEW k, k = [j EXCEPT !.step = step]
    PROVE  k \in Jobs /\ Sane(u, k, a, t)
<1>1. /\ k \in Jobs /\ k.step = step /\ k.kind = j.kind /\ k.id = j.id
      /\ k.verified = j.verified /\ k.cancelled = j.cancelled
    BY DEF Jobs
<1>2. QED
    BY <1>1 DEF Sane, Working, Succeeded

LEMMA EndedSane ==
    ASSUME NEW u, NEW j \in Jobs, NEW a, NEW t, Sane(u, j, a, t), j.step \in Working,
           NEW result \in {"none", "succeeded", "failed"},
           result = "succeeded" => j.step = "return",
           NEW k, k = [j EXCEPT !.step = "emitted", !.result = result]
    PROVE  k \in Jobs /\ Sane(u, k, a, t)
<1>1. /\ k \in Jobs /\ k.step = "emitted" /\ k.kind = j.kind /\ k.id = j.id
      /\ k.verified = j.verified /\ k.cancelled = j.cancelled /\ k.result = result
    BY DEF Jobs
<1>2. QED
    BY <1>1 DEF Sane, Working, Writing, Succeeded

LEMMA EndShared ==
    ASSUME SharedInv, NEW i \in Instances, job[i].step \in Working,
           NEW result \in {"succeeded", "failed"}, End(i, result),
           result = "succeeded" => job[i].step = "return",
           UNCHANGED <<ui, applied, saves, meta, tested>>, keychain' \in Keychain
    PROVE  SharedInv'
<1>1. PICK r \in {"none", "succeeded", "failed"} :
          r = IF job[i].cancelled THEN "none" ELSE result
    OBVIOUS
<1>2. PICK k : k = [job[i] EXCEPT !.step = "emitted", !.result = r]
    OBVIOUS
<1>3. Become(i, k)
    BY <1>1, <1>2 DEF End
<1>4. k \in Jobs /\ Sane(ui[i], k, applied[i], tested)
    <2>1. PICK u, j, a : u = ui[i] /\ j = job[i] /\ a = applied[i]
        OBVIOUS
    <2>2. j \in Jobs /\ Sane(u, j, a, tested) /\ j.step \in Working
        BY <2>1, SameShared
    <2>3. r = "succeeded" => j.step = "return"
        BY <1>1, <2>1
    <2>4. k = [j EXCEPT !.step = "emitted", !.result = r]
        BY <1>2, <2>1
    <2>5. k \in Jobs /\ Sane(u, k, a, tested)
        BY <2>2, <2>3, <2>4, EndedSane
    <2>6. QED
        BY <2>1, <2>5
<1>5. QED
    BY <1>3, <1>4, SameShared, WorkedShared

LEMMA GoShared ==
    ASSUME SharedInv, NEW i \in Instances, job[i].step \in Working, NEW step \in Working,
           Go(i, step),
           step = "remote" => job[i].kind = "test", step \in Writing => job[i].kind = "save",
           step = "return" /\ job[i].kind = "test" => TestedId(job[i].id, tested'),
           UNCHANGED <<ui, applied, saves>>, keychain' \in Keychain, meta' \in Metadata,
           tested \subseteq tested', tested' \subseteq Ids \X Secrets
    PROVE  SharedInv'
<1>1. PICK k : k = [job[i] EXCEPT !.step = step]
    OBVIOUS
<1>2. Become(i, k)
    BY <1>1 DEF Go
<1>3. Sane(ui[i], job[i], applied[i], tested')
    <2>1. \A id : TestedId(id, tested) => TestedId(id, tested')
        BY DEF TestedId
    <2>2. QED
        BY <2>1, SameShared DEF Sane
<1>4. k \in Jobs /\ Sane(ui[i], k, applied[i], tested')
    BY <1>1, <1>3, SameShared, WentOn
<1>5. QED
    BY <1>2, <1>4, SameShared, WorkedShared

LEMMA WorkerShared ==
    ASSUME SharedInv, NEW i \in Instances, Worker(i)
    PROVE  SharedInv'
<1>1. /\ keychain \in Keychain /\ meta \in Metadata /\ tested \subseteq Ids \X Secrets
      /\ job[i] \in Jobs /\ Sane(ui[i], job[i], applied[i], tested)
    BY SameShared
<1>2. /\ [secret |-> job[i].secret, by |-> job[i].by] \in Keychain
      /\ [id |-> job[i].id, by |-> job[i].by] \in Metadata
      /\ [keychain EXCEPT !.by = job[i].by] \in Keychain
    BY <1>1 DEF Jobs, Keychain, Metadata
<1>3. {"resolve", "remote", "set", "check", "commit", "return"} \subseteq Working
    BY DEF Working
<1>4. CASE Resolve(i)
    <2>1. CASE End(i, "failed")
        BY <1>1, <1>3, <1>4, <2>1, EndShared DEF Resolve, At
    <2>2. ASSUME NEW step \in {"remote", "set"}, NEW secret \in Secrets \cup {None},
                 step = IF job[i].kind = "test" THEN "remote" ELSE "set",
                 Become(i, [job[i] EXCEPT !.secret = secret, !.step = step])
          PROVE  SharedInv'
        <3>1. PICK k : k = [job[i] EXCEPT !.secret = secret, !.step = step]
            OBVIOUS
        <3>2. /\ k \in Jobs /\ k.step = step /\ k.kind = job[i].kind /\ k.id = job[i].id
              /\ k.verified = job[i].verified /\ k.cancelled = job[i].cancelled
            BY <1>1, <1>3, <3>1 DEF Jobs
        <3>3. job[i].step = "resolve" /\ job[i].kind \in {"test", "save"}
            BY <1>1, <1>4 DEF Resolve, At, Jobs, Sane
        <3>4. Sane(ui[i], k, applied[i], tested)
            BY <1>1, <2>2, <3>2, <3>3 DEF Sane, Writing, Succeeded
        <3>5. QED
            BY <1>1, <1>4, <2>2, <3>1, <3>2, <3>4, WorkedShared DEF Resolve
    <2>3. Used(i) \in Secrets \cup {None}
        BY <1>1 DEF Used, Keychain, Jobs
    <2>4. QED
        BY <1>4, <2>1, <2>2, <2>3 DEF Resolve
<1>5. CASE Remote(i)
    <2>1. /\ <<job[i].id, job[i].secret>> \in Ids \X Secrets
          /\ tested' = tested \cup {<<job[i].id, job[i].secret>>}
        BY <1>5, AcceptedAssumption DEF Remote
    <2>2. TestedId(job[i].id, tested')
        BY <2>1 DEF TestedId
    <2>3. QED
        BY <1>1, <1>3, <1>5, <2>1, <2>2, GoShared DEF Remote, At, Writing
<1>6. CASE Set(i)
    <2>1. job[i].step = "set" /\ job[i].kind = "save" /\ keychain' \in Keychain
        BY <1>1, <1>2, <1>6 DEF Set, At, Sane, Writing
    <2>2. CASE End(i, "failed")
        BY <1>3, <1>6, <2>1, <2>2, EndShared DEF Set
    <2>3. CASE Go(i, "check")
        BY <1>1, <1>3, <1>6, <2>1, <2>3, GoShared DEF Set
    <2>4. QED
        BY <1>6, <2>2, <2>3 DEF Set
<1>7. CASE Check(i)
    <2>1. job[i].step = "check" /\ job[i].kind = "save" /\ keychain' \in Keychain
        BY <1>1, <1>2, <1>7 DEF Check, At, Sane, Writing
    <2>2. CASE End(i, "failed")
        BY <1>3, <1>7, <2>1, <2>2, EndShared DEF Check
    <2>3. CASE Go(i, "commit")
        BY <1>1, <1>3, <1>7, <2>1, <2>3, GoShared DEF Check
    <2>4. QED
        BY <1>7, <2>2, <2>3 DEF Check
<1>8. CASE Commit(i)
    <2>1. job[i].step = "commit" /\ job[i].kind = "save" /\ meta' \in Metadata
        BY <1>1, <1>2, <1>8 DEF Commit, At, Sane, Writing
    <2>2. QED
        BY <1>1, <1>3, <1>8, <2>1, GoShared DEF Commit, Writing
<1>9. CASE Return(i)
    BY <1>1, <1>3, <1>9, EndShared DEF Return, At
<1>10. CASE Break(i)
    BY <1>1, <1>10, EndShared DEF Break
<1>11. QED
    BY <1>4, <1>5, <1>6, <1>7, <1>8, <1>9, <1>10 DEF Worker

LEMMA DialogShared ==
    ASSUME SharedInv, NEW i \in Instances, Dialog(i)
    PROVE  SharedInv'
<1>1. PICK u, j, a : u = ui[i] /\ j = job[i] /\ a = applied[i]
    OBVIOUS
<1>2. u \in Dialogs /\ j \in Jobs /\ a \in Reports /\ Sane(u, j, a, tested)
    BY <1>1, SameShared
<1>3. CASE Deliver(i)
    <2>1. PICK k : k = [j EXCEPT !.step = "finished"]
        OBVIOUS
    <2>2. /\ k \in Jobs /\ k.step = "finished" /\ k.kind = j.kind /\ k.id = j.id
          /\ k.verified = j.verified /\ k.cancelled = j.cancelled
        BY <1>2, <2>1 DEF Jobs
    <2>3. j.step = "emitted" /\ Become(i, k)
        BY <1>1, <1>3, <2>1 DEF Deliver, Go
    <2>4. PICK v \in Dialogs : /\ Show(i, v) /\ v.open = u.open /\ v.closing = u.closing
                               /\ v.verified # None => TestedId(v.verified, tested)
        <3>1. CASE j.kind = "test" /\ j.result # "none"
            <4>1. PICK verified : verified = IF j.result = "succeeded" /\ j.id = u.id
                                             THEN j.id ELSE None
                OBVIOUS
            <4>2. PICK v : v = [u EXCEPT !.hasResult = TRUE, !.verified = verified]
                OBVIOUS
            <4>3. verified \in Ids \cup {None} /\ (verified # None => TestedId(verified, tested))
                BY <1>2, <2>3, <3>1, <4>1 DEF Sane, Jobs, Succeeded
            <4>4. /\ v \in Dialogs /\ v.open = u.open /\ v.closing = u.closing
                  /\ v.verified = verified
                BY <1>2, <4>2, <4>3 DEF Dialogs
            <4>5. Show(i, v)
                BY <1>1, <1>3, <3>1, <4>1, <4>2 DEF Deliver, TestDelivered
            <4>6. QED
                BY <4>3, <4>4, <4>5
        <3>2. CASE j.kind = "test" /\ j.result = "none"
            BY <1>1, <1>2, <1>3, <3>2 DEF Deliver, TestDelivered, Sane
        <3>3. CASE j.kind # "test"
            <4>1. PICK saved \in BOOLEAN : saved = (j.result = "succeeded")
                OBVIOUS
            <4>2. PICK v : v = [u EXCEPT !.saved = saved]
                OBVIOUS
            <4>3. /\ v \in Dialogs /\ v.open = u.open /\ v.closing = u.closing
                  /\ v.verified = u.verified
                BY <1>2, <4>2 DEF Dialogs
            <4>4. Show(i, v)
                BY <1>1, <1>3, <3>3, <4>1, <4>2 DEF Deliver, SaveDelivered
            <4>5. QED
                BY <1>2, <4>3, <4>4 DEF Sane
        <3>4. QED
            BY <3>1, <3>2, <3>3
    <2>5. Sane(v, k, a, tested)
        BY <1>2, <2>2, <2>3, <2>4 DEF Sane, Writing, Succeeded
    <2>6. QED
        BY <1>1, <1>2, <1>3, <2>2, <2>3, <2>4, <2>5, SameShared, LiftShared
           DEF Deliver, Show, Become
<1>4. CASE Finished(i)
    <2>1. PICK b : b = [id |-> j.id, secret |-> j.secret, verified |-> j.verified, by |-> j.by]
        OBVIOUS
    <2>2. b \in Reports /\ b.id = j.id /\ b.verified = j.verified
        BY <1>2, <2>1 DEF Jobs, Reports
    <2>3. PICK c \in {a, b} : applied' = [applied EXCEPT ![i] = c]
        BY <1>1, <1>4, <2>1, SameShared DEF Finished
    <2>4. PICK v \in {u, Closed} : Show(i, v) /\ (u.closing => v = Closed)
        BY <1>1, <1>4 DEF Finished
    <2>5. /\ Closed \in Dialogs /\ Closed.verified = None /\ ~Closed.closing
          /\ NoJob \in Jobs /\ NoJob.step = "idle" /\ ~NoJob.verified /\ NoJob.kind = "none"
        BY Empty
    <2>6. c \in Reports /\ v \in Dialogs /\ (c.verified => TestedId(c.id, tested))
        BY <1>2, <2>2, <2>3, <2>4, <2>5 DEF Sane
    <2>7. Sane(v, NoJob, c, tested)
        BY <1>2, <2>4, <2>5, <2>6 DEF Sane, Writing
    <2>8. QED
        BY <1>1, <1>4, <2>3, <2>4, <2>5, <2>6, <2>7, SameShared, LiftShared
           DEF Finished, Show, Become
<1>5. QED
    BY <1>3, <1>4 DEF Dialog

LEMMA EndingShared ==
    ASSUME SharedInv, NEW i \in Instances, Expire(i) \/ Crash(i)
    PROVE  SharedInv'
<1>1. /\ keychain \in Keychain /\ meta \in Metadata /\ tested \subseteq Ids \X Secrets
      /\ job[i] \in Jobs /\ Sane(ui[i], job[i], applied[i], tested)
    BY SameShared
<1>2. CASE Expire(i)
    <2>1. PICK k : k = [job[i] EXCEPT !.late = TRUE]
        OBVIOUS
    <2>2. /\ k \in Jobs /\ k.step = job[i].step /\ k.kind = job[i].kind /\ k.id = job[i].id
          /\ k.verified = job[i].verified /\ k.cancelled = job[i].cancelled
          /\ k.result = job[i].result
        BY <1>1, <2>1 DEF Jobs
    <2>3. Sane(ui[i], k, applied[i], tested)
        BY <1>1, <2>2 DEF Sane, Succeeded
    <2>4. QED
        BY <1>1, <1>2, <2>1, <2>2, <2>3, WorkedShared DEF Expire
<1>3. CASE Crash(i)
    <2>1. /\ Closed \in Dialogs /\ Closed.verified = None /\ ~Closed.closing
          /\ NoJob \in Jobs /\ NoJob.step = "idle" /\ ~NoJob.verified /\ NoJob.kind = "none"
          /\ NoReport \in Reports /\ ~NoReport.verified
        BY Empty
    <2>2. Sane(Closed, NoJob, NoReport, tested)
        BY <2>1 DEF Sane, Writing
    <2>3. keychain' \in Keychain
        BY <1>1, <1>3 DEF Crash, Jobs, Keychain
    <2>4. QED
        BY <1>3, <2>1, <2>2, <2>3, SameShared, LiftShared DEF Crash, Show, Become
<1>4. QED
    BY <1>2, <1>3

LEMMA InitialShared == Init => SharedInv
<1>1. SUFFICES ASSUME Init PROVE SharedInv
    OBVIOUS
<1>2. /\ Closed \in Dialogs /\ Closed.verified = None /\ ~Closed.closing
      /\ NoJob \in Jobs /\ NoJob.step = "idle" /\ ~NoJob.verified /\ NoJob.kind = "none"
      /\ NoReport \in Reports /\ ~NoReport.verified
    BY Empty
<1>3. TypeOK
    BY <1>1, <1>2, MaxSavesAssumption DEF Init, TypeOK, Keychain, Metadata
<1>4. \A i \in Instances : ui[i] = Closed /\ job[i] = NoJob /\ applied[i] = NoReport
    BY <1>1 DEF Init
<1>5. Sane(Closed, NoJob, NoReport, tested)
    BY <1>2 DEF Sane, Writing
<1>6. QED
    BY <1>3, <1>4, <1>5 DEF SharedInv

\* The types, and what holds in every one of the instances that share database
\* and Keychain (services/settings_service.py, ui/dialogs/settings.py).
THEOREM Shared == Spec => []SharedInv
<1>1. SharedInv /\ [Next]_vars => SharedInv'
    <2>1. SUFFICES ASSUME SharedInv, [Next]_vars PROVE SharedInv'
        OBVIOUS
    <2>2. CASE UNCHANGED vars
        BY <2>1, <2>2 DEF vars, SharedInv, TypeOK
    <2>3. CASE Next
        BY <2>1, <2>3, UserShared, WorkerShared, DialogShared, EndingShared DEF Next
    <2>4. QED
        BY <2>1, <2>2, <2>3
<1>2. QED
    BY InitialShared, <1>1, PTL DEF Spec

\* An id that apply_settings was told is verified passed a test of the
\* connection, with some secret, however many instances save meanwhile.
THEOREM VerifiedIdMeansTested ==
    Spec => [](\A i \in Instances : applied[i].verified => TestedId(applied[i].id, tested))
<1>1. SharedInv => \A i \in Instances : applied[i].verified => TestedId(applied[i].id, tested)
    BY DEF SharedInv, Sane
<1>2. QED
    BY <1>1, Shared, PTL

\* A closing dialog has a cancelled worker to wait for, and whatever happens is
\* the next of the three steps that are left: the worker gives up, its signal
\* is delivered, and the dialog closes (reject, _thread_finished).
THEOREM ClosingComesCloser ==
    Spec => [][\A i \in Instances : ui[i].closing /\ ui'[i].open =>
                   /\ ui'[i].closing
                   /\ \/ job'[i].step = job[i].step
                      \/ job[i].step \in Working /\ job'[i].step = "emitted"
                      \/ job[i].step = "emitted" /\ job'[i].step = "finished"]_vars
<1>1. ASSUME SharedInv, [Next]_vars, NEW i \in Instances, ui[i].closing, ui'[i].open
      PROVE  /\ ui'[i].closing
             /\ \/ job'[i].step = job[i].step
                \/ job[i].step \in Working /\ job'[i].step = "emitted"
                \/ job[i].step = "emitted" /\ job'[i].step = "finished"
    <2>1. /\ ui \in [Instances -> Dialogs] /\ job \in [Instances -> Jobs]
          /\ ui[i].open /\ job[i].step # "idle" /\ job[i].cancelled
        BY <1>1 DEF SharedInv, TypeOK, Sane
    <2>2. ASSUME NEW n \in Instances, n # i,
                 User(n) \/ Worker(n) \/ Expire(n) \/ Dialog(n) \/ Crash(n)
          PROVE  ui'[i] = ui[i] /\ job'[i] = job[i]
        BY <2>1, <2>2 DEF User, Open, Edit, Test, Save, Close, Worker, Resolve, Remote, Set, Check,
                     Commit, Return, Break, Expire, Dialog, Deliver, TestDelivered, SaveDelivered,
                     Finished, Crash, Show, Become, Go, End
    <2>3. ~At(i, "resolve") /\ ~At(i, "remote") /\ ~At(i, "set") /\ ~At(i, "check")
          /\ ~At(i, "commit") /\ ~At(i, "return")
        BY <2>1 DEF At, Stopped
    <2>4. ~User(i)
        BY <1>1, <2>1 DEF User, Open, Edit, Test, Save, Close, Idle
    <2>5. CASE Worker(i) \/ Expire(i)
        <3>1. Break(i) \/ Expire(i)
            BY <2>3, <2>5 DEF Worker, Resolve, Remote, Set, Check, Commit, Return
        <3>2. ui'[i] = ui[i]
            BY <3>1 DEF Break, Expire
        <3>3. \/ job'[i].step = job[i].step
              \/ job[i].step \in Working /\ job'[i].step = "emitted"
            BY <2>1, <3>1 DEF Break, Expire, End, Become, Jobs
        <3>4. QED
            BY <1>1, <3>2, <3>3
    <2>6. CASE Dialog(i) \/ Crash(i)
        <3>1. Deliver(i)
            <4>1. ~Finished(i) /\ ~Crash(i)
                BY <1>1, <2>1 DEF Finished, Crash, Show, Closed
            <4>2. QED
                BY <2>6, <4>1 DEF Dialog
        <3>2. job[i].step = "emitted" /\ job'[i].step = "finished"
            BY <2>1, <3>1 DEF Deliver, Go, Become, Jobs
        <3>3. ui'[i].closing
            <4>1. CASE job[i].kind = "test"
                BY <1>1, <2>1, <3>1, <4>1 DEF Deliver, TestDelivered, Show, Dialogs
            <4>2. CASE job[i].kind # "test"
                BY <1>1, <2>1, <3>1, <4>2 DEF Deliver, SaveDelivered, Show, Dialogs
            <4>3. QED
                BY <4>1, <4>2
        <3>4. QED
            BY <3>2, <3>3
    <2>7. CASE UNCHANGED vars
        BY <1>1, <2>7 DEF vars
    <2>8. QED
        BY <1>1, <2>2, <2>4, <2>5, <2>6, <2>7 DEF Next
<1>2. SharedInv /\ [Next]_vars =>
          [\A i \in Instances : ui[i].closing /\ ui'[i].open =>
               /\ ui'[i].closing
               /\ \/ job'[i].step = job[i].step
                  \/ job[i].step \in Working /\ job'[i].step = "emitted"
                  \/ job[i].step = "emitted" /\ job'[i].step = "finished"]_vars
    BY <1>1
<1>3. QED
    BY <1>2, Shared, PTL DEF Spec
=============================================================================
