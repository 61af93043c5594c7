------------------------------ MODULE Settings ------------------------------
(***************************************************************************)
(* The Settings dialog (ui/dialogs/settings.py) with the service and the   *)
(* store behind it.  The Client Secret is kept in the Keychain, the other  *)
(* fields in the database: a save writes the secret first, reads it back   *)
(* and only then commits the metadata, and it may be cancelled, run out of *)
(* time, fail or crash at any step between.  A test of the connection      *)
(* marks the fields as verified until they are edited.                     *)
(*                                                                         *)
(* An id stands for the pair of Client ID and region; the currency, which  *)
(* takes part in no decision here, is left out.  Saves are numbered to     *)
(* tell whose values a store holds.                                        *)
(***************************************************************************)
EXTENDS Naturals

CONSTANTS Instances,  \* application instances that share database and Keychain
          Ids, Secrets,
          None,       \* an empty field, an empty store
          Accepted,   \* pairs <<id, secret>> that Tuya authenticates
          MaxSaves    \* bound on the number of saves

ASSUME NoneAssumption == None \notin Ids \cup Secrets
ASSUME AcceptedAssumption == Accepted \subseteq Ids \X Secrets
ASSUME MaxSavesAssumption == MaxSaves \in Nat

VARIABLES keychain,  \* the Client Secret; ghost: the save it was last written for
          meta,      \* the committed rows of the table settings, and their save
          ui,        \* the dialog of each instance
          job,       \* the worker of each dialog
          applied,   \* what apply_settings was last told in each instance
          tested,    \* ghost: pairs that passed a test of the connection
          saves      \* ghost: number of saves so far

vars == <<keychain, meta, ui, job, applied, tested, saves>>

Keychain == [secret : Secrets \cup {None}, by : 0..MaxSaves]
Metadata == [id : Ids \cup {None}, by : 0..MaxSaves]

Dialogs == [open : BOOLEAN,
            stored : BOOLEAN,                 \* stored_secret_available
            id : Ids \cup {None}, secret : Secrets \cup {None},   \* the fields
            verified : Ids \cup {None},       \* _verified_settings
            hasResult : BOOLEAN,              \* _has_test_result
            saved : BOOLEAN,                  \* _pending_saved
            closing : BOOLEAN]                \* _close_when_idle

Closed == [open |-> FALSE, stored |-> FALSE, id |-> None, secret |-> None,
           verified |-> None, hasResult |-> FALSE, saved |-> FALSE, closing |-> FALSE]

Working == {"resolve", "remote", "set", "check", "commit", "return"}

Jobs == [kind : {"none", "test", "save"},
         step : Working \cup {"idle", "emitted", "finished"},
         id : Ids \cup {None}, secret : Secrets \cup {None},
         verified : BOOLEAN,                  \* _save_was_verified
         by : 0..MaxSaves,
         cancelled : BOOLEAN, late : BOOLEAN, \* the cancellation context
         result : {"none", "succeeded", "failed"}]

NoJob == [kind |-> "none", step |-> "idle", id |-> None, secret |-> None,
          verified |-> FALSE, by |-> 0, cancelled |-> FALSE, late |-> FALSE,
          result |-> "none"]

Reports == [id : Ids \cup {None}, secret : Secrets \cup {None}, verified : BOOLEAN,
            by : 0..MaxSaves]
NoReport == [id |-> None, secret |-> None, verified |-> FALSE, by |-> 0]

Init == /\ keychain \in [secret : Secrets \cup {None}, by : {0}]
        /\ meta \in [id : Ids \cup {None}, by : {0}]
        /\ ui = [i \in Instances |-> Closed]
        /\ job = [i \in Instances |-> NoJob]
        /\ applied = [i \in Instances |-> NoReport]
        /\ tested = {}
        /\ saves = 0

Idle(i) == job[i].step = "idle"
Stopped(i) == job[i].cancelled \/ job[i].late
Show(i, d) == ui' = [ui EXCEPT ![i] = d]
Become(i, j) == job' = [job EXCEPT ![i] = j]
Go(i, step) == Become(i, [job[i] EXCEPT !.step = step])

-----------------------------------------------------------------------------
(* The user *)

Open(i) == /\ ~ui[i].open
           /\ Show(i, [Closed EXCEPT !.open = TRUE, !.id = meta.id,
                                     !.stored = keychain.secret # None])
           /\ UNCHANGED <<keychain, meta, job, applied, tested, saves>>

\* Mutant: only the fields that are compared on save invalidate a test.
InvalidatedById(d, e) == IF d.hasResult /\ d.id # e.id
                         THEN [e EXCEPT !.verified = None, !.hasResult = FALSE]
                         ELSE e

\* The dialog d with the fields of e: an edit discards the result of a test.
Invalidated(d, e) == IF d.hasResult
                     THEN [e EXCEPT !.verified = None, !.hasResult = FALSE]
                     ELSE e

Edit(i) == /\ ui[i].open /\ Idle(i)
           /\ \/ \E x \in (Ids \cup {None}) \ {ui[i].id} :
                    Show(i, Invalidated(ui[i], [ui[i] EXCEPT !.id = x]))
              \/ \E s \in (Secrets \cup {None}) \ {ui[i].secret} :
                    Show(i, Invalidated(ui[i], [ui[i] EXCEPT !.secret = s]))
           /\ UNCHANGED <<keychain, meta, job, applied, tested, saves>>

Fields(i) == [NoJob EXCEPT !.step = "resolve", !.id = ui[i].id, !.secret = ui[i].secret]

Test(i) == /\ ui[i].open /\ Idle(i)
           /\ Show(i, [ui[i] EXCEPT !.hasResult = FALSE])
           /\ Become(i, [Fields(i) EXCEPT !.kind = "test"])
           /\ UNCHANGED <<keychain, meta, applied, tested, saves>>

Save(i) == /\ ui[i].open /\ Idle(i)
           /\ ui[i].id # None
           /\ ui[i].secret # None \/ ui[i].stored
           /\ saves < MaxSaves
           /\ saves' = saves + 1
           /\ Become(i, [Fields(i) EXCEPT
                            !.kind = "save", !.by = saves + 1,
                            !.verified = ui[i].verified = ui[i].id])
           /\ UNCHANGED <<keychain, meta, ui, applied, tested>>

Close(i) == /\ ui[i].open
            /\ IF Idle(i)
               THEN Show(i, Closed) /\ UNCHANGED job
               ELSE /\ ~ui[i].closing
                    /\ Show(i, [ui[i] EXCEPT !.closing = TRUE])
                    /\ Become(i, [job[i] EXCEPT !.cancelled = TRUE])
            /\ UNCHANGED <<keychain, meta, applied, tested, saves>>

-----------------------------------------------------------------------------
(* The worker *)

At(i, step) == job[i].step = step /\ ~Stopped(i)

\* WorkflowThread.run: the failure of a cancelled workflow is not reported, but
\* for an unexpected one.  What is reported to a dialog that is closing, and
\* only such a dialog has cancelled, changes nothing but its text.
End(i, result) ==
    Become(i, [job[i] EXCEPT !.step = "emitted",
                             !.result = IF job[i].cancelled THEN "none" ELSE result])

\* SettingsService._resolve: an empty field stands for the stored secret.
Used(i) == IF job[i].secret = None /\ ui[i].stored THEN keychain.secret ELSE job[i].secret

Resolve(i) == /\ At(i, "resolve")
              /\ IF job[i].id = None \/ Used(i) = None
                 THEN End(i, "failed")
                 ELSE Become(i, [job[i] EXCEPT
                         !.secret = Used(i),
                         !.step = IF job[i].kind = "test" THEN "remote" ELSE "set"])
              /\ UNCHANGED <<keychain, meta, ui, applied, tested, saves>>

\* Authentication, then the list of devices.
Remote(i) == /\ At(i, "remote")
             /\ <<job[i].id, job[i].secret>> \in Accepted
             /\ tested' = tested \cup {<<job[i].id, job[i].secret>>}
             /\ Go(i, "return")
             /\ UNCHANGED <<keychain, meta, ui, applied, saves>>

\* The helper process writes the secret, is killed after it has written, or
\* reports a write the Keychain did not keep.
Set(i) == /\ At(i, "set")
          /\ \/ /\ keychain' = [secret |-> job[i].secret, by |-> job[i].by]
                /\ Go(i, "check") \/ End(i, "failed")
             \/ UNCHANGED keychain /\ Go(i, "check")
          /\ UNCHANGED <<meta, ui, applied, tested, saves>>

\* Mutant: the secret is not read back.
CheckNothing(i) == /\ At(i, "check")
                   /\ Go(i, "commit")
                   /\ UNCHANGED <<keychain, meta, ui, applied, tested, saves>>

Check(i) == /\ At(i, "check")
            /\ IF keychain.secret = job[i].secret
               THEN keychain' = [keychain EXCEPT !.by = job[i].by] /\ Go(i, "commit")
               ELSE UNCHANGED keychain /\ End(i, "failed")
            /\ UNCHANGED <<meta, ui, applied, tested, saves>>

Commit(i) == /\ At(i, "commit")
             /\ meta' = [id |-> job[i].id, by |-> job[i].by]
             /\ Go(i, "return")
             /\ UNCHANGED <<keychain, ui, applied, tested, saves>>

Return(i) == /\ At(i, "return")
             /\ End(i, "succeeded")
             /\ UNCHANGED <<keychain, meta, ui, applied, tested, saves>>

\* A checkpoint stops the workflow, or one of its calls fails: the Keychain,
\* the database, the cloud.  Nothing is left of an open transaction.
Break(i) == /\ job[i].step \in Working
            /\ job[i].step = "return" => Stopped(i)
            /\ End(i, "failed")
            /\ UNCHANGED <<keychain, meta, ui, applied, tested, saves>>

Expire(i) == /\ job[i].step \in Working /\ ~job[i].late
             /\ Become(i, [job[i] EXCEPT !.late = TRUE])
             /\ UNCHANGED <<keychain, meta, ui, applied, tested, saves>>

-----------------------------------------------------------------------------
(* The signals of the worker, and the end of the process *)

TestDelivered(i) ==
    Show(i, IF job[i].result = "none" THEN ui[i]
            ELSE [ui[i] EXCEPT !.hasResult = TRUE,
                               !.verified = IF job[i].result = "succeeded" /\ job[i].id = ui[i].id
                                            THEN job[i].id ELSE None])

\* Mutant: every end of the save counts as saved.
SaveDeliveredAnyway(i) == Show(i, [ui[i] EXCEPT !.saved = TRUE])

SaveDelivered(i) == Show(i, [ui[i] EXCEPT !.saved = job[i].result = "succeeded"])

Deliver(i) == /\ job[i].step = "emitted"
              /\ IF job[i].kind = "test" THEN TestDelivered(i) ELSE SaveDelivered(i)
              /\ Go(i, "finished")
              /\ UNCHANGED <<keychain, meta, applied, tested, saves>>

\* Mutant: the dialog does not look whether it was to close.
FinishedStaying(i) ==
    /\ job[i].step = "finished"
    /\ Become(i, NoJob)
    /\ IF ui[i].saved
       THEN /\ applied' = [applied EXCEPT ![i] =
                  [id |-> job[i].id, secret |-> job[i].secret,
                   verified |-> job[i].verified, by |-> job[i].by]]
            /\ Show(i, Closed)
       ELSE UNCHANGED <<ui, applied>>
    /\ UNCHANGED <<keychain, meta, tested, saves>>

\* _thread_finished, and apply_settings after the dialog's loop.
Finished(i) == /\ job[i].step = "finished"
               /\ Become(i, NoJob)
               /\ IF ui[i].saved
                  THEN applied' = [applied EXCEPT ![i] =
                          [id |-> job[i].id, secret |-> job[i].secret,
                           verified |-> job[i].verified, by |-> job[i].by]]
                  ELSE UNCHANGED applied
               /\ Show(i, IF ui[i].saved \/ ui[i].closing THEN Closed ELSE ui[i])
               /\ UNCHANGED <<keychain, meta, tested, saves>>

\* The helper process ends with its parent, with or without its write.
Crash(i) == /\ Show(i, Closed) /\ Become(i, NoJob)
            /\ applied' = [applied EXCEPT ![i] = NoReport]
            /\ \/ UNCHANGED keychain
               \/ /\ At(i, "set")
                  /\ keychain' = [secret |-> job[i].secret, by |-> job[i].by]
            /\ UNCHANGED <<meta, tested, saves>>

User(i) == Open(i) \/ Edit(i) \/ Test(i) \/ Save(i) \/ Close(i)
Worker(i) == \/ Resolve(i) \/ Remote(i) \/ Set(i) \/ Check(i) \/ Commit(i) \/ Return(i)
             \/ Break(i)
Dialog(i) == Deliver(i) \/ Finished(i)

Next == \E i \in Instances : User(i) \/ Worker(i) \/ Expire(i) \/ Dialog(i) \/ Crash(i)

Spec == Init /\ [][Next]_vars

\* A helper process and every remote call have a time limit, and Qt delivers
\* what was emitted.
FairSpec == Spec /\ \A i \in Instances : WF_vars(Worker(i)) /\ WF_vars(Dialog(i))

-----------------------------------------------------------------------------
(* Properties *)

\* Types of the two stores, the dialogs, their workers and what was applied.
TypeOK == /\ keychain \in Keychain /\ meta \in Metadata
          /\ ui \in [Instances -> Dialogs] /\ job \in [Instances -> Jobs]
          /\ applied \in [Instances -> Reports]
          /\ tested \subseteq Ids \X Secrets
          /\ saves \in 0..MaxSaves

\* When the window says that settings are saved and the connection verified
\* (apply_settings), the very id and secret that were saved passed the test
\* of the connection, although _save_was_verified compares no secrets, the
\* field may have been left empty, and earlier saves may have failed halfway.
VerifiedWasTested == \A i \in Instances :
    applied[i].verified => <<applied[i].id, applied[i].secret>> \in tested

\* Metadata are never committed before the secret they belong to: whatever
\* fails in save_tuya, the stores may differ only by a newer secret, which is
\* the state that saving again repairs.
SecretFirst == TypeOK /\ meta.by <= keychain.by

\* What the window was told is saved is saved, until a later save replaces
\* it: the Keychain holds its secret and the database its metadata.
AppliedIsStored == \A i \in Instances :
    /\ applied[i].by <= meta.by
    /\ applied[i].by # 0 /\ applied[i].by = keychain.by =>
          keychain.secret = applied[i].secret /\ meta.id = applied[i].id

\* A dialog that was told to close during its work closes (reject and
\* _thread_finished), whatever becomes of the test or the save.
ClosingCloses == \A i \in Instances : ui[i].closing ~> ~ui[i].open
=============================================================================
