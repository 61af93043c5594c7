-------------------------- MODULE StorageMigration --------------------------
(***************************************************************************)
(* infrastructure/database.py: how Database.initialize and connect prepare *)
(* the storage.  Under an interprocess lock an instance first undoes or    *)
(* completes an interrupted conversion, then classifies the database file  *)
(* by its header and opens it, creates it, or converts a plaintext one to  *)
(* SQLCipher.  The directory and the Keychain are shared by all instances; *)
(* any step may raise (cancellation, deadline, I/O, Keychain), an instance *)
(* may be killed anywhere, and the machine may lose power.                 *)
(*                                                                         *)
(* A file is abstracted to its kind, its number of rows, the key it opens  *)
(* with and whether it holds the Tuya Client Secret.  The temporary and    *)
(* the rollback file are the ones of the newest conversion: names are      *)
(* random, and a marker names exactly one of each.                         *)
(***************************************************************************)
EXTENDS Naturals, FiniteSets

CONSTANTS Procs,      \* instances of the application
          Keys,       \* what secrets.token_bytes(32) may return
          NoKey,      \* no database key
          Nobody,     \* the lock is free
          MaxRows,    \* bound: rows committed in a behaviour
          MaxFaults   \* bound: exceptions, kills and power losses

ASSUME NobodyAssumption == Nobody \notin Procs
ASSUME KeysAssumption == NoKey \notin Keys
ASSUME BoundsAssumption == MaxRows \in Nat /\ MaxFaults \in Nat

VARIABLES disk,       \* the directory as the running system sees it
          past,       \* the directories a power loss may bring back
          kcKey,      \* database-key account of the Keychain
          kcSecret,   \* the Keychain holds the Tuya Client Secret
          helpers,    \* keys that helpers of killed instances may still add
          lock,       \* holder of the interprocess flock
          pc,         \* where each instance is in initialize()
          key,        \* each instance's database key
          resume,     \* where a recovery returns: "classify" or "raise"
          acked,      \* ghost: rows whose transaction has committed
          hadSecret,  \* ghost: the legacy database held a Client Secret
          faults      \* ghost: faults so far

vars == <<disk, past, kcKey, kcSecret, helpers, lock, pc, key, resume,
          acked, hadSecret, faults>>

-----------------------------------------------------------------------------
(* The directory *)

NoFile == [kind |-> "none", rows |-> 0, key |-> NoKey, secret |-> FALSE]
EmptyFile == [NoFile EXCEPT !.kind = "empty"]
PartialFile == [NoFile EXCEPT !.kind = "partial"]
Plain(n, s) == [kind |-> "plain", rows |-> n, key |-> NoKey, secret |-> s]
Cipher(n, k) == [kind |-> "cipher", rows |-> n, key |-> k, secret |-> FALSE]

\* "exported" is a complete SQLCipher file that was not yet fsynced.
FileKinds == {"none", "empty", "partial", "exported", "cipher", "plain"}
Files == [kind : FileKinds, rows : Nat, key : Keys \cup {NoKey}, secret : BOOLEAN]

\* "torn" is a marker file that is not the complete JSON document;
\* "written" is complete but not yet fsynced.
MarkerKinds == {"none", "torn", "written", "valid"}
Directories == [main : Files, temp : Files, rollback : Files, marker : MarkerKinds]

\* A change that a power loss may still undo, and one that it may not.
Unsynced(d) == disk' = d /\ past' = past \cup {d}
Synced(d) == disk' = d /\ past' = {d}

\* A SQLCipher file that _verify_migrated_database accepts with key k.
Verifies(f, k) == f.kind \in {"cipher", "exported"} /\ f.key = k /\ k # NoKey

\* What a power loss leaves of a file whose content was never fsynced.
TornFile(f) == IF f.kind = "exported" THEN PartialFile ELSE f
TornMarkers(m) == IF m = "written" THEN {"torn", "valid"} ELSE {m}

-----------------------------------------------------------------------------
(* Control *)

RecoverySteps == {"recover", "recoverVerify", "recoverTemp", "recoverMarker",
                  "recoverSync"}
\* Steps of _migrate_plaintext_database inside its try block.
GuardedSteps == {"markerOpen", "markerWrite", "markerSync", "export",
                 "exporting", "tempSync", "swapOut", "syncOut", "swapIn",
                 "syncIn", "verify", "dropRollback", "dropMarker", "syncDone"}
OtherSteps == {"classify", "secretSet", "keyGet", "keySet", "keyVerify",
               "create", "mktemp", "schema"}
LockedSteps == RecoverySteps \cup GuardedSteps \cup OtherSteps \cup {"handler"}
Labels == LockedSteps \cup {"idle", "waiting", "ready"}

At(p, label) == pc[p] = label
Goto(p, label) == pc' = [pc EXCEPT ![p] = label]
\* Mutant: the lock file stays locked when initialize() ends.
ReleaseForgotten(p) == UNCHANGED lock
Release(p) == lock' = IF lock = p THEN Nobody ELSE lock

KeepDisk == UNCHANGED <<disk, past>>
KeepKeychain == UNCHANGED <<kcKey, kcSecret, helpers>>
KeepGhosts == UNCHANGED <<acked, hadSecret, faults>>
KeepLocals == UNCHANGED <<key, resume>>

Init ==
    /\ \E k \in Keys, s \in BOOLEAN :
          \/ /\ disk = [main |-> NoFile, temp |-> NoFile, rollback |-> NoFile,
                        marker |-> "none"]
             /\ kcKey = NoKey /\ acked = 0 /\ hadSecret = FALSE
          \/ /\ disk = [main |-> Plain(1, s), temp |-> NoFile, rollback |-> NoFile,
                        marker |-> "none"]
             /\ kcKey \in {NoKey, k} /\ acked = 1 /\ hadSecret = s
          \/ /\ disk = [main |-> Cipher(1, k), temp |-> NoFile, rollback |-> NoFile,
                        marker |-> "none"]
             /\ kcKey = k /\ acked = 1 /\ hadSecret = FALSE
    /\ past = {disk}
    /\ kcSecret = FALSE /\ helpers = {}
    /\ lock = Nobody
    /\ pc = [p \in Procs |-> "idle"]
    /\ key = [p \in Procs |-> NoKey]
    /\ resume = [p \in Procs |-> "classify"]
    /\ faults = 0

-----------------------------------------------------------------------------
(* initialize() and its lock *)

Start(p) == /\ At(p, "idle")
            /\ Goto(p, "waiting")
            /\ UNCHANGED lock /\ KeepDisk /\ KeepKeychain /\ KeepLocals /\ KeepGhosts

\* Mutant: the lock is taken although another instance holds it.
AcquireAnyway(p) == /\ At(p, "waiting")
                    /\ lock' = p
                    /\ Goto(p, "recover")
                    /\ resume' = [resume EXCEPT ![p] = "classify"]
                    /\ UNCHANGED key /\ KeepDisk /\ KeepKeychain /\ KeepGhosts

Acquire(p) == /\ At(p, "waiting") /\ lock = Nobody
              /\ lock' = p
              /\ Goto(p, "recover")
              /\ resume' = [resume EXCEPT ![p] = "classify"]
              /\ UNCHANGED key /\ KeepDisk /\ KeepKeychain /\ KeepGhosts

\* The five-second lock wait expires while another instance prepares.
LockTimeout(p) == /\ At(p, "waiting") /\ lock # Nobody
                  /\ Goto(p, "idle")
                  /\ UNCHANGED lock /\ KeepDisk /\ KeepKeychain /\ KeepLocals /\ KeepGhosts

\* _prepare_storage has classified, created or converted the file.
Prepared(p, k) == /\ Goto(p, "schema")
                  /\ key' = [key EXCEPT ![p] = k]
                  /\ UNCHANGED lock

\* initialize() opens the file, commits its schema migrations and returns.
Initialized(p) == /\ At(p, "schema")
                  /\ disk.main.kind = "cipher" /\ disk.main.key = key[p]
                  /\ Synced(disk)
                  /\ Goto(p, "ready") /\ Release(p)
                  /\ KeepKeychain /\ KeepLocals /\ KeepGhosts

-----------------------------------------------------------------------------
(* _recover_interrupted_migration *)

\* The states of the directory in which recovery raises by itself.
Unreadable(d) == d.marker = "torn"
Ambiguous(d) == d.main.kind = "plain" /\ d.rollback # NoFile
Unrecoverable(d) == d.main = NoFile /\ d.rollback = NoFile
DeadEnd(d) == Unreadable(d) \/ Ambiguous(d) \/ Unrecoverable(d)

Recover(p) ==
    /\ At(p, "recover")
    /\ \/ /\ disk.marker = "none"
          /\ IF resume[p] = "raise" THEN Goto(p, "idle") /\ Release(p)
                                    ELSE Goto(p, "classify") /\ UNCHANGED lock
          /\ KeepDisk
       \/ /\ disk.marker # "none" /\ ~DeadEnd(disk)
          /\ IF disk.main = NoFile
             THEN /\ Unsynced([disk EXCEPT !.main = disk.rollback, !.rollback = NoFile])
                  /\ Goto(p, "recoverTemp")
             ELSE /\ KeepDisk
                  /\ Goto(p, IF disk.main.kind = "plain" THEN "recoverTemp"
                                                         ELSE "recoverVerify")
          /\ UNCHANGED lock
    /\ KeepKeychain /\ KeepLocals /\ KeepGhosts

\* The active database verifies: its plaintext original is deleted.
RecoverKeep(p) ==
    /\ At(p, "recoverVerify") /\ Verifies(disk.main, kcKey)
    /\ Unsynced([disk EXCEPT !.rollback = NoFile])
    /\ Goto(p, "recoverTemp")
    /\ UNCHANGED lock /\ KeepKeychain /\ KeepLocals /\ KeepGhosts

\* Verification raises, on the content or because it is cancelled or out of
\* time: the original comes back and the exception is dropped.
RecoverRestore(p) ==
    /\ At(p, "recoverVerify") /\ disk.rollback # NoFile /\ kcKey # NoKey
    /\ IF Verifies(disk.main, kcKey) THEN faults < MaxFaults /\ faults' = faults + 1
                                     ELSE UNCHANGED faults
    /\ Unsynced([disk EXCEPT !.main = disk.rollback, !.rollback = NoFile])
    /\ Goto(p, "recoverTemp")
    /\ UNCHANGED <<lock, acked, hadSecret>> /\ KeepKeychain /\ KeepLocals

RecoverTemp(p) ==
    /\ At(p, "recoverTemp")
    /\ Unsynced([disk EXCEPT !.temp = NoFile])
    /\ Goto(p, "recoverMarker")
    /\ UNCHANGED lock /\ KeepKeychain /\ KeepLocals /\ KeepGhosts

RecoverMarker(p) ==
    /\ At(p, "recoverMarker")
    /\ Unsynced([disk EXCEPT !.marker = "none"])
    /\ Goto(p, "recoverSync")
    /\ UNCHANGED lock /\ KeepKeychain /\ KeepLocals /\ KeepGhosts

RecoverSync(p) ==
    /\ At(p, "recoverSync")
    /\ Synced(disk)
    /\ IF resume[p] = "raise" THEN Goto(p, "idle") /\ Release(p)
                              ELSE Goto(p, "classify") /\ UNCHANGED lock
    /\ KeepKeychain /\ KeepLocals /\ KeepGhosts

-----------------------------------------------------------------------------
(* _prepare_storage: classification and the database key *)

\* Mutant: the legacy Client Secret is not moved to the Keychain.
ClassifyKeepingSecret(p) ==
    /\ At(p, "classify")
    /\ \/ /\ disk.main.kind \in {"none", "plain"}
          /\ Goto(p, "keyGet")
          /\ UNCHANGED <<lock, key>>
       \/ /\ disk.main.kind \notin {"none", "plain"} /\ Verifies(disk.main, kcKey)
          /\ Prepared(p, kcKey)
    /\ UNCHANGED resume /\ KeepDisk /\ KeepKeychain /\ KeepGhosts

Classify(p) ==
    /\ At(p, "classify")
    /\ \/ /\ disk.main.kind = "plain"
          /\ Goto(p, IF disk.main.secret THEN "secretSet" ELSE "keyGet")
          /\ UNCHANGED <<lock, key>>
       \/ /\ disk.main = NoFile
          /\ Goto(p, "keyGet")
          /\ UNCHANGED <<lock, key>>
       \/ /\ disk.main.kind \notin {"none", "plain"} /\ Verifies(disk.main, kcKey)
          /\ Prepared(p, kcKey)
    /\ UNCHANGED resume /\ KeepDisk /\ KeepKeychain /\ KeepGhosts

\* The legacy Client Secret is written to the Keychain and read back.
SecretSet(p) ==
    /\ At(p, "secretSet")
    /\ kcSecret' = TRUE
    /\ Goto(p, "keyGet")
    /\ UNCHANGED <<kcKey, helpers, lock>> /\ KeepDisk /\ KeepLocals /\ KeepGhosts

KeyGet(p) ==
    /\ At(p, "keyGet")
    /\ key' = [key EXCEPT ![p] = kcKey]
    /\ Goto(p, CASE kcKey = NoKey -> "keySet"
                 [] kcKey # NoKey /\ disk.main = NoFile -> "create"
                 [] OTHER -> "keyVerify")
    /\ UNCHANGED <<lock, resume>> /\ KeepDisk /\ KeepKeychain /\ KeepGhosts

\* SecItemAdd: of two writers the first one's key stays.
Winner(k) == IF kcKey = NoKey THEN k ELSE kcKey

KeySet(p) ==
    /\ At(p, "keySet")
    /\ \E k \in Keys : /\ kcKey' = Winner(k)
                       /\ key' = [key EXCEPT ![p] = Winner(k)]
    /\ Goto(p, "keyVerify")
    /\ UNCHANGED <<kcSecret, helpers, lock, resume>> /\ KeepDisk /\ KeepGhosts

KeyVerify(p) ==
    /\ At(p, "keyVerify") /\ kcKey = key[p]
    /\ Goto(p, IF disk.main = NoFile THEN "create" ELSE "mktemp")
    /\ UNCHANGED lock /\ KeepDisk /\ KeepKeychain /\ KeepLocals /\ KeepGhosts

\* The helper of a killed instance performs its set_if_absent afterwards.
HelperLate(k) ==
    /\ k \in helpers
    /\ kcKey' = Winner(k)
    /\ helpers' = helpers \ {k}
    /\ UNCHANGED <<kcSecret, lock, pc>> /\ KeepDisk /\ KeepLocals /\ KeepGhosts

\* A fresh, still empty database file.
Create(p) ==
    /\ At(p, "create")
    /\ Unsynced([disk EXCEPT !.main = Cipher(0, key[p])])
    /\ Prepared(p, key[p])
    /\ UNCHANGED resume /\ KeepKeychain /\ KeepGhosts

-----------------------------------------------------------------------------
(* _migrate_plaintext_database *)

\* A step of the conversion that only moves on to the next label.
Step(p, from, to) == /\ At(p, from) /\ Goto(p, to)
                     /\ UNCHANGED lock /\ KeepKeychain /\ KeepLocals /\ KeepGhosts

MakeTemp(p) == Step(p, "mktemp", "markerOpen") /\ Unsynced([disk EXCEPT !.temp = EmptyFile])

\* _write_migration_marker: exclusive create, write, fsync, fsync of the directory.
MarkerOpen(p) == /\ disk.marker = "none"
                 /\ Step(p, "markerOpen", "markerWrite")
                 /\ Unsynced([disk EXCEPT !.marker = "torn"])
MarkerWrite(p) == Step(p, "markerWrite", "markerSync") /\ Unsynced([disk EXCEPT !.marker = "written"])
MarkerSync(p) == Step(p, "markerSync", "export") /\ Synced([disk EXCEPT !.marker = "valid"])

ExportBegin(p) == Step(p, "export", "exporting") /\ Unsynced([disk EXCEPT !.temp = PartialFile])
\* Mutant: the two snapshots are not compared and the export misses rows.
ExportEndEarly(p) == /\ Step(p, "exporting", "tempSync")
                     /\ Unsynced([disk EXCEPT !.temp = [Cipher(0, key[p])
                                                        EXCEPT !.kind = "exported"]])
\* sqlcipher_export without the secret; both snapshots must agree and the
\* temporary must verify before the conversion goes on.
ExportEnd(p) == /\ Step(p, "exporting", "tempSync")
                /\ Unsynced([disk EXCEPT !.temp = [Cipher(disk.main.rows, key[p])
                                                   EXCEPT !.kind = "exported"]])
\* Mutant: the converted file is moved into place without its fsync.
TempSyncSkipped(p) == Step(p, "tempSync", "swapOut") /\ KeepDisk
TempSync(p) == Step(p, "tempSync", "swapOut") /\ Synced([disk EXCEPT !.temp.kind = "cipher"])

\* Mutant: the original is copied aside instead of renamed.
SwapOutByCopy(p) == /\ Step(p, "swapOut", "syncOut")
                    /\ Unsynced([disk EXCEPT !.rollback = disk.main])
SwapOut(p) == /\ Step(p, "swapOut", "syncOut")
              /\ Unsynced([disk EXCEPT !.rollback = disk.main, !.main = NoFile])
SyncOut(p) == Step(p, "syncOut", "swapIn") /\ Synced(disk)
SwapIn(p) == /\ Step(p, "swapIn", "syncIn")
             /\ Unsynced([disk EXCEPT !.main = disk.temp, !.temp = NoFile])
SyncIn(p) == Step(p, "syncIn", "verify") /\ Synced(disk)
VerifyActive(p) == /\ Verifies(disk.main, key[p])
                   /\ Step(p, "verify", "dropRollback") /\ KeepDisk

\* The original, then the marker (database.py:414-416), with one fsync after
\* both: that the file system does not reverse them is an assumption, and the
\* same of the unlinks of a recovery (database.py:587-592).
DropRollback(p) == Step(p, "dropRollback", "dropMarker") /\ Unsynced([disk EXCEPT !.rollback = NoFile])
DropMarker(p) == Step(p, "dropMarker", "syncDone") /\ Unsynced([disk EXCEPT !.marker = "none"])
SyncDone(p) == /\ At(p, "syncDone")
               /\ Synced(disk)
               /\ Prepared(p, key[p])
               /\ UNCHANGED resume /\ KeepKeychain /\ KeepGhosts

\* Mutant: the handler's recovery resumes the handler, not the exception.
HandlerResumed(p) ==
    /\ At(p, "handler") /\ disk.marker # "none"
    /\ Goto(p, "recover")
    /\ resume' = [resume EXCEPT ![p] = "handler"]
    /\ UNCHANGED <<lock, key>> /\ KeepDisk /\ KeepKeychain /\ KeepGhosts

\* except BaseException: recover in a context of its own, or drop the
\* temporary that no marker names; then raise.
Handler(p) ==
    /\ At(p, "handler")
    /\ IF disk.marker # "none"
       THEN /\ Goto(p, "recover")
            /\ resume' = [resume EXCEPT ![p] = "raise"]
            /\ UNCHANGED lock /\ KeepDisk
       ELSE /\ Unsynced([disk EXCEPT !.temp = NoFile])
            /\ Goto(p, "idle") /\ Release(p)
            /\ UNCHANGED resume
    /\ UNCHANGED key /\ KeepKeychain /\ KeepGhosts

-----------------------------------------------------------------------------
(* Errors, kills, power *)

\* The code raises here whatever the environment does.
Refused(p) ==
    \/ At(p, "recover") /\ disk.marker # "none" /\ DeadEnd(disk)
    \/ At(p, "recoverVerify") /\ ~Verifies(disk.main, kcKey)
                              /\ (disk.rollback = NoFile \/ kcKey = NoKey)
    \/ At(p, "classify") /\ disk.main.kind \notin {"none", "plain"} /\ ~Verifies(disk.main, kcKey)
    \/ At(p, "keyVerify") /\ kcKey # key[p]
    \/ At(p, "verify") /\ ~Verifies(disk.main, key[p])
    \/ At(p, "markerOpen") /\ disk.marker # "none"

\* A step raises: inside the try block the handler runs, elsewhere
\* initialize() fails and the lock is released.
RaiseFrom(p) ==
    /\ IF pc[p] \in GuardedSteps
       THEN Goto(p, "handler") /\ UNCHANGED lock
       ELSE Goto(p, "idle") /\ Release(p)
    /\ KeepDisk /\ KeepKeychain /\ KeepLocals /\ UNCHANGED <<acked, hadSecret>>

Raise(p) == Refused(p) /\ RaiseFrom(p) /\ UNCHANGED faults

Fault(p) == /\ pc[p] \in LockedSteps \ {"handler"} /\ ~Refused(p)
            /\ faults < MaxFaults /\ faults' = faults + 1
            /\ RaiseFrom(p)

\* The process dies; a Keychain helper of its may survive it.
Kill(p) == /\ pc[p] # "idle"
           /\ faults < MaxFaults /\ faults' = faults + 1
           /\ Goto(p, "idle") /\ Release(p)
           /\ \/ UNCHANGED helpers
              \/ At(p, "keySet") /\ \E k \in Keys : helpers' = helpers \cup {k}
           /\ UNCHANGED <<kcKey, kcSecret, acked, hadSecret>> /\ KeepDisk /\ KeepLocals

PowerLoss ==
    /\ faults < MaxFaults /\ faults' = faults + 1
    /\ \E d \in past : \E m \in TornMarkers(d.marker) :
          Synced([main |-> TornFile(d.main), temp |-> TornFile(d.temp),
                  rollback |-> d.rollback, marker |-> m])
    /\ pc' = [p \in Procs |-> "idle"] /\ lock' = Nobody /\ helpers' = {}
    /\ UNCHANGED <<kcKey, kcSecret, acked, hadSecret>> /\ KeepLocals

-----------------------------------------------------------------------------
(* A prepared instance: connect() reopens the file with its key *)

Commit(p) ==
    /\ At(p, "ready") /\ acked < MaxRows
    /\ disk.main.kind = "cipher" /\ disk.main.key = key[p]
    /\ Synced([disk EXCEPT !.main.rows = @ + 1])
    /\ acked' = acked + 1
    /\ UNCHANGED <<lock, pc, hadSecret, faults>> /\ KeepKeychain /\ KeepLocals

Quit(p) == /\ At(p, "ready")
           /\ Goto(p, "idle")
           /\ UNCHANGED lock /\ KeepDisk /\ KeepKeychain /\ KeepLocals /\ KeepGhosts

-----------------------------------------------------------------------------

Recovery(p) == \/ Recover(p) \/ RecoverKeep(p) \/ RecoverTemp(p)
               \/ RecoverMarker(p) \/ RecoverSync(p)

Preparation(p) == \/ Classify(p) \/ SecretSet(p) \/ KeyGet(p) \/ KeySet(p)
                  \/ KeyVerify(p) \/ Create(p) \/ Initialized(p)

Migration(p) == \/ MakeTemp(p) \/ MarkerOpen(p) \/ MarkerWrite(p) \/ MarkerSync(p)
                \/ ExportBegin(p) \/ ExportEnd(p) \/ TempSync(p) \/ SwapOut(p)
                \/ SyncOut(p) \/ SwapIn(p) \/ SyncIn(p) \/ VerifyActive(p)
                \/ DropRollback(p) \/ DropMarker(p) \/ SyncDone(p) \/ Handler(p)

\* What an instance that is scheduled does by itself.
Run(p) == \/ Start(p) \/ Acquire(p) \/ LockTimeout(p)
          \/ Recovery(p) \/ Preparation(p) \/ Migration(p) \/ Raise(p)

Next == \/ \E p \in Procs : Run(p) \/ RecoverRestore(p) \/ Fault(p) \/ Kill(p)
                            \/ Commit(p) \/ Quit(p)
        \/ \E k \in Keys : HelperLate(k)
        \/ PowerLoss

Spec == Init /\ [][Next]_vars

\* A running instance is scheduled, and one that is not running is started
\* again some time (Start is a step of Run), as its user would.
Fairness == \A p \in Procs : WF_vars(Run(p))

FairSpec == Spec /\ Fairness

-----------------------------------------------------------------------------
(* Properties *)

TypeOK ==
    /\ disk \in Directories
    /\ past \subseteq Directories
    /\ kcKey \in Keys \cup {NoKey}
    /\ kcSecret \in BOOLEAN
    /\ helpers \subseteq Keys
    /\ lock \in Procs \cup {Nobody}
    /\ pc \in [Procs -> Labels]
    /\ key \in [Procs -> Keys \cup {NoKey}]
    /\ resume \in [Procs -> {"classify", "raise"}]
    /\ acked \in Nat
    /\ hadSecret \in BOOLEAN
    /\ faults \in Nat

\* The directories the next start may find: after a kill, or a power loss.
Torn(d) == [d EXCEPT !.main = TornFile(@), !.temp = TornFile(@)]
Findable == {disk} \cup {Torn(d) : d \in past}

\* The files a recovery of d may leave as the database: verification of an
\* encrypted one may be cancelled, so its original is also an outcome.
Outcomes(d) ==
    CASE d.marker = "none" \/ d.main.kind = "plain" -> {d.main}
      [] d.marker # "none" /\ d.main = NoFile -> {d.rollback}
      [] OTHER -> (IF Verifies(d.main, kcKey) \/ d.rollback = NoFile THEN {d.main} ELSE {})
                  \cup (IF d.rollback # NoFile THEN {d.rollback} ELSE {})

Readable(f) == f.kind = "plain" \/ Verifies(f, kcKey)

\* No conversion, recovery, kill or power loss loses a committed row: every
\* file a restart may settle on opens with the key in the Keychain and holds
\* them all (_migrate_plaintext_database, _recover_interrupted_migration).
NothingLost ==
    \A d \in Findable : \A f \in Outcomes(d) :
        \/ Readable(f) /\ f.rows = acked
        \/ acked = 0 /\ f = NoFile

\* The Client Secret of a legacy database is in the Keychain before the last
\* file that holds it can go.
SecretKept ==
    hadSecret /\ ~kcSecret => \A d \in Findable : \A f \in Outcomes(d) : f.secret

\* No plaintext original, with the secret in it, outlives the marker that
\* names it: nothing would ever delete it.
NoStrayOriginal == \A d \in Findable : d.marker = "none" => d.rollback = NoFile

\* An instance whose Database is prepared works on the encrypted file its key
\* opens, and no conversion or recovery can replace that file under it.
OpenedMeansSealed ==
    \A p \in Procs : At(p, "ready") =>
        /\ disk.main.kind = "cipher" /\ disk.main.key = key[p]
        /\ disk.marker = "none" /\ disk.rollback = NoFile

\* Recovery never meets the directories it calls ambiguous or unrecoverable.
NeverAmbiguous ==
    \A d \in Findable : d.marker # "none" => ~Ambiguous(d) /\ ~Unrecoverable(d)

\* No start raises by itself but in front of an incomplete marker: whatever
\* kills, losses of power, late helpers and other instances left, the file, the
\* key and the Keychain agree at every check of a recovery or a conversion.
OnlyTornRefuses ==
    \A p \in Procs : Refused(p) => At(p, "recover") /\ disk.marker = "torn"

\* What a start finds is always what the recovery knows how to finish: with a
\* marker, a directory that has one outcome; without it, nothing left over.
RecoveryDefined == NoStrayOriginal /\ NeverAmbiguous /\ OnlyTornRefuses

\* Once exceptions and kills stop, some instance opens the database, unless
\* a kill left an incomplete marker.
OpensUnlessMarkerTorn ==
    <>(\E p \in Procs : At(p, "ready")) \/ <>[](disk.marker = "torn")

\* docs/ARCHITECTURE.md: startup restores the original across a crash at any
\* conversion stage, so that some instance opens the database.
RestartConverges == <>(\E p \in Procs : At(p, "ready"))

\* The store as its users see it.
FoundRows == IF disk.main = NoFile THEN disk.rollback.rows ELSE disk.main.rows
FoundForm == CASE disk.main = NoFile /\ disk.rollback = NoFile -> "absent"
               [] disk.main.kind = "cipher" -> "cipher"
               [] OTHER -> "plain"
Opened == {p \in Procs : At(p, "ready")}

Store == INSTANCE ProtectedStore
             WITH rows <- FoundRows, form <- FoundForm, opened <- Opened

\* The storage code implements the protected store: rows are only appended,
\* by open instances, and the file is converted under none of them.
ImplementsStore == Store!StoreSpec
=============================================================================
