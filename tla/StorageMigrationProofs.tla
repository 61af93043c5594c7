----------------------- MODULE StorageMigrationProofs -----------------------
(***************************************************************************)
(* For any number of instances, keys, rows and faults: the storage code    *)
(* loses no committed row and no Client Secret, leaves no stray plaintext  *)
(* original and never converts the file under an open instance; an         *)
(* incomplete marker, and nothing else, locks every instance out.          *)
(*                                                                         *)
(* The inductive invariant says what the directory may look like, now and  *)
(* after a power loss (Safe), and what each label of initialize() knows    *)
(* about it (StepInv), which holds because the labels that change the      *)
(* directory are under the lock (LockInv).                                 *)
(***************************************************************************)
EXTENDS StorageMigration, TLAPS

\* A plaintext original, and an encrypted database, that hold everything.
GoodPlain(f) == /\ f.kind = "plain" /\ f.rows = acked
                /\ hadSecret /\ ~kcSecret => f.secret
GoodCipher(f) == /\ f.kind = "cipher" /\ f.rows = acked
                 /\ f.key = kcKey /\ kcKey # NoKey
                 /\ hadSecret => kcSecret
Fresh(f) == f = NoFile /\ acked = 0 /\ ~hadSecret

\* The directories outside a conversion, and those a marker may be found in.
Quiet(d) == /\ d.marker = "none" /\ d.rollback = NoFile
            /\ GoodPlain(d.main) \/ GoodCipher(d.main) \/ Fresh(d.main)
Marked(d) == /\ d.marker # "none"
             /\ \/ GoodPlain(d.main) /\ d.rollback = NoFile
                \/ d.main = NoFile /\ GoodPlain(d.rollback)
                \/ GoodCipher(d.main) /\ (d.rollback = NoFile \/ GoodPlain(d.rollback))
Safe(d) == Quiet(d) \/ Marked(d)

SafeInv == Safe(disk) /\ \A d \in past : Safe(d)

LockInv == \A p \in Procs : pc[p] \in LockedSteps => lock = p

NoMarkerSteps == {"classify", "secretSet", "keyGet", "keySet", "keyVerify", "create",
                  "mktemp", "markerOpen", "recoverSync", "syncDone"}
\* The conversion has verified the key and, if there was one, the secret.
KeyedSteps == {"create", "mktemp"} \cup GuardedSteps
PlainSteps == {"mktemp", "markerOpen", "markerWrite", "markerSync", "export",
               "exporting", "tempSync", "swapOut"}
MarkerSteps == {"markerWrite", "markerSync", "export", "exporting", "tempSync",
                "swapOut", "syncOut", "swapIn", "syncIn", "verify", "dropRollback",
                "dropMarker", "recoverVerify", "recoverTemp", "recoverMarker"}

StepInv(p) ==
    /\ pc[p] \in {"ready", "schema"} =>
          GoodCipher(disk.main) /\ disk.marker = "none" /\ key[p] = kcKey
    /\ pc[p] \in NoMarkerSteps => disk.marker = "none"
    /\ pc[p] \in MarkerSteps => disk.marker # "none"
    /\ pc[p] = "secretSet" => disk.main.kind = "plain"
    /\ pc[p] \in {"keyGet", "keySet", "keyVerify"} =>
          disk.main = NoFile \/ disk.main.kind = "plain"
    /\ pc[p] \in {"keyGet", "keySet", "keyVerify"} \cup KeyedSteps =>
          (hadSecret => kcSecret)
    /\ pc[p] = "keyVerify" => key[p] = kcKey /\ kcKey # NoKey
    /\ pc[p] \in KeyedSteps => key[p] = kcKey /\ kcKey # NoKey
    /\ pc[p] = "create" => disk.main = NoFile
    /\ pc[p] \in PlainSteps => disk.main.kind = "plain"
    /\ pc[p] = "tempSync" => disk.temp.rows = acked /\ disk.temp.key = kcKey
    /\ pc[p] \in {"swapOut", "syncOut", "swapIn"} => GoodCipher(disk.temp)
    /\ pc[p] \in {"syncOut", "swapIn"} => disk.main = NoFile
    /\ pc[p] \in {"syncIn", "verify", "dropRollback", "dropMarker", "syncDone",
                  "recoverVerify"} => GoodCipher(disk.main)
    /\ pc[p] \in {"dropMarker", "recoverTemp", "recoverMarker"} => disk.rollback = NoFile

IInv == TypeOK /\ SafeInv /\ LockInv /\ \A p \in Procs : StepInv(p)

-----------------------------------------------------------------------------
(* Types *)

LEMMA FileTypes ==
    /\ NoFile \in Files /\ EmptyFile \in Files /\ PartialFile \in Files
    /\ \A n \in Nat, k \in Keys, s \in BOOLEAN : Plain(n, s) \in Files /\ Cipher(n, k) \in Files
    /\ \A f \in Files : TornFile(f) \in Files
BY DEF NoFile, EmptyFile, PartialFile, Plain, Cipher, TornFile, Files, FileKinds

\* The first directory, whichever its main file.
StartWith(f) == [main |-> f, temp |-> NoFile, rollback |-> NoFile, marker |-> "none"]

LEMMA DirectoryTypes ==
    /\ \A f \in Files : StartWith(f) \in Directories
    /\ \A d \in Directories, f, g \in Files :
          /\ [d EXCEPT !.main = f, !.rollback = g] \in Directories
          /\ [d EXCEPT !.rollback = f, !.main = g] \in Directories
          /\ [d EXCEPT !.main = f, !.temp = g] \in Directories
BY FileTypes DEF StartWith, Directories, MarkerKinds

LEMMA TypeInit == Init => TypeOK
<1> SUFFICES ASSUME Init PROVE TypeOK
    OBVIOUS
<1>1. PICK k \in Keys, s \in BOOLEAN :
         \/ disk = StartWith(NoFile) /\ kcKey = NoKey /\ acked = 0 /\ hadSecret = FALSE
         \/ disk = StartWith(Plain(1, s)) /\ kcKey \in {NoKey, k} /\ acked = 1 /\ hadSecret = s
         \/ disk = StartWith(Cipher(1, k)) /\ kcKey = k /\ acked = 1 /\ hadSecret = FALSE
    BY DEF Init, StartWith
<1>2. /\ disk \in Directories /\ kcKey \in Keys \cup {NoKey}
      /\ acked \in Nat /\ hadSecret \in BOOLEAN
    <2>1. NoFile \in Files /\ Plain(1, s) \in Files /\ Cipher(1, k) \in Files
        BY FileTypes
    <2>2. QED
        <3>1. disk \in Directories
            BY <1>1, <2>1, DirectoryTypes
        <3>2. kcKey \in Keys \cup {NoKey}
            BY <1>1
        <3>3. acked \in Nat
            BY <1>1
        <3>4. hadSecret \in BOOLEAN
            BY <1>1, Zenon
        <3>5. QED
            BY <3>1, <3>2, <3>3, <3>4
<1>3. QED
    BY <1>2 DEF Init, TypeOK, Labels

LEMMA TypeStep == TypeOK /\ [Next]_vars => TypeOK'
<1> SUFFICES ASSUME TypeOK, [Next]_vars PROVE TypeOK'
    OBVIOUS
<1> USE DEF KeepDisk, KeepKeychain, KeepGhosts, KeepLocals, At
<1>l. /\ {"idle", "waiting", "ready", "schema", "handler"} \subseteq Labels
      /\ RecoverySteps \cup OtherSteps \cup GuardedSteps \subseteq Labels
    BY DEF Labels, LockedSteps, OtherSteps, RecoverySteps, GuardedSteps
<1>1. ASSUME NEW p \in Procs, Start(p) \/ Acquire(p) \/ LockTimeout(p) \/ Quit(p)
      PROVE TypeOK'
    BY <1>1, <1>l DEF TypeOK, Start, Acquire, LockTimeout, Quit, Goto, RecoverySteps
<1>2. ASSUME NEW p \in Procs, Recovery(p) \/ RecoverRestore(p)
      PROVE TypeOK'
    <2> USE FileTypes, <1>l DEF Directories, Unsynced, Synced, Goto, Release, RecoverySteps,
                           OtherSteps, MarkerKinds
    <2>0. [disk EXCEPT !.main = disk.rollback, !.rollback = NoFile] \in Directories
        BY DirectoryTypes DEF TypeOK
    <2>1. CASE Recover(p)
        <3>1. pc' \in [Procs -> Labels] /\ lock' \in Procs \cup {Nobody}
            <4>1. /\ \E l \in Labels : Goto(p, l)
                  /\ Release(p) \/ UNCHANGED lock
                BY <2>1, <1>l DEF Recover
            <4>2. QED
                BY <4>1 DEF TypeOK
        <3>2. disk' \in Directories /\ past' \subseteq Directories
            <4>1. \/ UNCHANGED <<disk, past>>
                  \/ Unsynced([disk EXCEPT !.main = disk.rollback, !.rollback = NoFile])
                BY <2>1 DEF Recover
            <4>2. QED
                BY <2>0, <4>1 DEF TypeOK
        <3>3. QED
            BY <2>1, <3>1, <3>2 DEF Recover, TypeOK
    <2>2. CASE RecoverKeep(p) \/ RecoverTemp(p)
        BY <2>2 DEF RecoverKeep, RecoverTemp, TypeOK
    <2>3. CASE RecoverRestore(p)
        <3>1. disk' \in Directories /\ past' \subseteq Directories
            BY <2>0, <2>3 DEF RecoverRestore, TypeOK
        <3>2. QED
            BY <2>3, <3>1 DEF RecoverRestore, TypeOK
    <2>4. CASE RecoverMarker(p) \/ RecoverSync(p)
        BY <2>4 DEF RecoverMarker, RecoverSync, TypeOK
    <2>5. QED
        BY <1>2, <2>1, <2>2, <2>3, <2>4 DEF Recovery
<1>3. ASSUME NEW p \in Procs, Preparation(p)
      PROVE TypeOK'
    <2> USE <1>l DEF Goto, OtherSteps, Prepared
    <2>1. CASE Classify(p) \/ SecretSet(p) \/ KeyGet(p)
        BY <2>1 DEF Classify, SecretSet, KeyGet, TypeOK
    <2>2. CASE KeySet(p) \/ KeyVerify(p)
        BY <2>2 DEF KeySet, KeyVerify, Winner, TypeOK
    <2>3. CASE Create(p)
        <3>1. Cipher(0, key[p]) \in Files
            BY DEF Cipher, NoFile, Files, FileKinds, TypeOK
        <3>2. QED
            BY <2>3, <3>1 DEF Create, TypeOK, Directories, Unsynced
    <2>4. CASE Initialized(p)
        BY <2>4 DEF Initialized, Synced, Release, TypeOK
    <2>5. QED
        BY <1>3, <2>1, <2>2, <2>3, <2>4 DEF Preparation
<1>4. ASSUME NEW p \in Procs, Migration(p)
      PROVE TypeOK'
    <2> USE FileTypes, <1>l DEF Goto, GuardedSteps, RecoverySteps, Prepared, Step,
                           Directories, Unsynced, Synced, MarkerKinds
    <2>1. CASE MakeTemp(p) \/ MarkerOpen(p) \/ MarkerWrite(p) \/ MarkerSync(p) \/ ExportBegin(p)
        BY <2>1 DEF MakeTemp, MarkerOpen, MarkerWrite, MarkerSync, ExportBegin, TypeOK
    <2>2. CASE ExportEnd(p)
        <3>1. [Cipher(disk.main.rows, key[p]) EXCEPT !.kind = "exported"] \in Files
            BY DEF Cipher, NoFile, Files, FileKinds, TypeOK
        <3>2. QED
            BY <2>2, <3>1 DEF ExportEnd, TypeOK
    <2>3. CASE TempSync(p)
        <3>1. [disk.temp EXCEPT !.kind = "cipher"] \in Files
            BY DEF Files, FileKinds, TypeOK
        <3>2. QED
            BY <2>3, <3>1 DEF TempSync, TypeOK
    <2>4. CASE SwapOut(p) \/ SyncOut(p) \/ SwapIn(p) \/ SyncIn(p) \/ VerifyActive(p)
        <3>1. /\ [disk EXCEPT !.rollback = disk.main, !.main = NoFile] \in Directories
              /\ [disk EXCEPT !.main = disk.temp, !.temp = NoFile] \in Directories
            BY DirectoryTypes DEF TypeOK
        <3>2. disk' \in Directories /\ past' \subseteq Directories
            BY <2>4, <3>1 DEF SwapOut, SyncOut, SwapIn, SyncIn, VerifyActive, KeepDisk, TypeOK
        <3>3. QED
            BY <2>4, <3>2 DEF SwapOut, SyncOut, SwapIn, SyncIn, VerifyActive, TypeOK
    <2>5. CASE DropRollback(p) \/ DropMarker(p) \/ SyncDone(p)
        BY <2>5 DEF DropRollback, DropMarker, SyncDone, TypeOK
    <2>6. CASE Handler(p)
        BY <2>6 DEF Handler, Release, TypeOK
    <2>7. QED
        BY <1>4, <2>1, <2>2, <2>3, <2>4, <2>5, <2>6 DEF Migration
<1>5. ASSUME NEW p \in Procs, Raise(p) \/ Fault(p) \/ Kill(p)
      PROVE TypeOK'
    BY <1>5, <1>l DEF Raise, Fault, Kill, RaiseFrom, Goto, Release, TypeOK
<1>6. ASSUME NEW p \in Procs, Commit(p)
      PROVE TypeOK'
    <2>1. [disk.main EXCEPT !.rows = @ + 1] \in Files
        BY DEF Files, FileKinds, TypeOK, Directories
    <2>2. QED
        BY <1>6, <2>1 DEF Commit, Synced, TypeOK, Directories
<1>7. ASSUME NEW k \in Keys, HelperLate(k)
      PROVE TypeOK'
    BY <1>7 DEF HelperLate, Winner, TypeOK
<1>8. CASE PowerLoss
    <2>0. PICK d \in past : \E m \in TornMarkers(d.marker) :
             Synced([main |-> TornFile(d.main), temp |-> TornFile(d.temp),
                     rollback |-> d.rollback, marker |-> m])
        BY <1>8 DEF PowerLoss
    <2>1. PICK m \in TornMarkers(d.marker) :
             Synced([main |-> TornFile(d.main), temp |-> TornFile(d.temp),
                     rollback |-> d.rollback, marker |-> m])
        BY <2>0
    <2>2. m \in MarkerKinds
        BY DEF TornMarkers, TypeOK, Directories, MarkerKinds
    <2>3. disk' \in Directories /\ past' \subseteq Directories
        BY <2>1, <2>2, FileTypes DEF Synced, TypeOK, Directories
    <2>4. QED
        BY <1>8, <1>l, <2>3 DEF PowerLoss, TypeOK
<1>9. CASE UNCHANGED vars
    BY <1>9 DEF vars, TypeOK
<1>10. QED
    BY <1>1, <1>2, <1>3, <1>4, <1>5, <1>6, <1>7, <1>8, <1>9 DEF Next, Run

\* The variables always have their types.
THEOREM TypeCorrect == Spec => []TypeOK
BY TypeInit, TypeStep, PTL DEF Spec

-----------------------------------------------------------------------------
(* The inductive invariant *)

\* The Keychain only gains keys and secrets, and no row is committed.
Calm == /\ UNCHANGED <<acked, hadSecret>>
        /\ kcKey # NoKey => kcKey' = kcKey
        /\ kcSecret => kcSecret'

LEMMA SafeKept ==
    ASSUME SafeInv, Calm, NEW e, Safe(e), KeepDisk \/ Unsynced(e) \/ Synced(e)
    PROVE  SafeInv'
<1>1. ASSUME NEW d, Safe(d) PROVE Safe(d)'
    BY <1>1 DEF Calm, Safe, Quiet, Marked, GoodPlain, GoodCipher, Fresh
<1>2. \A d \in past' : Safe(d)
    BY DEF SafeInv, KeepDisk, Unsynced, Synced
<1>3. Safe(disk')
    BY DEF SafeInv, KeepDisk, Unsynced, Synced
<1>4. \A d \in past' : Safe(d)'
    BY <1>1, <1>2
<1>5. Safe(disk)'
    BY <1>1, <1>3 DEF Safe, Quiet, Marked, GoodPlain, GoodCipher, Fresh
<1>6. QED
    BY <1>4, <1>5 DEF SafeInv

\* What the lock holder does leaves the open instances alone, if it does not
\* touch an encrypted database without a marker.
LEMMA OthersKept ==
    ASSUME LockInv, Calm, NEW p \in Procs, pc[p] \in LockedSteps, p # Nobody,
           NEW q \in Procs, q # p, StepInv(q), pc'[q] = pc[q], key'[q] = key[q],
           \/ disk'.main = disk.main /\ disk'.marker = disk.marker
           \/ disk.main.kind # "cipher" \/ disk.marker # "none"
    PROVE  StepInv(q)'
<1>1. pc[q] \notin LockedSteps
    BY DEF LockInv
<1>2. pc'[q] = "ready" =>
          GoodCipher(disk.main)' /\ disk'.marker = "none" /\ key'[q] = kcKey'
    BY DEF StepInv, GoodCipher, Calm
<1>3. QED
    BY <1>1, <1>2 DEF StepInv, LockedSteps, NoMarkerSteps, MarkerSteps, KeyedSteps, PlainSteps,
                     GuardedSteps, OtherSteps, RecoverySteps

LEMMA LockStep == TypeOK /\ LockInv /\ [Next]_vars => LockInv'
<1> SUFFICES ASSUME TypeOK, LockInv, [Next]_vars PROVE LockInv'
    OBVIOUS
<1> USE NobodyAssumption DEF At, Goto, LockInv
<1>d. /\ {"idle", "waiting", "ready"} \cap LockedSteps = {}
      /\ RecoverySteps \cup OtherSteps \cup GuardedSteps \cup {"handler"} \subseteq LockedSteps
    BY DEF LockedSteps, RecoverySteps, OtherSteps, GuardedSteps
<1>t. pc \in [Procs -> Labels] /\ lock \in Procs \cup {Nobody}
    BY DEF TypeOK
<1>1. ASSUME NEW p \in Procs, NEW l,
             pc' = [pc EXCEPT ![p] = l],
             \/ UNCHANGED lock /\ (l \in LockedSteps => pc[p] \in LockedSteps)
             \/ Release(p) /\ l \notin LockedSteps
             \/ lock = Nobody /\ lock' = p
      PROVE LockInv'
    BY <1>1, <1>t DEF Release
<1>2. ASSUME NEW p \in Procs, Start(p) \/ Acquire(p) \/ LockTimeout(p) \/ Quit(p)
      PROVE LockInv'
    BY <1>2, <1>1, <1>d DEF Start, Acquire, LockTimeout, Quit
<1>3. ASSUME NEW p \in Procs, Recovery(p) \/ RecoverRestore(p)
      PROVE LockInv'
    BY <1>3, <1>1, <1>d DEF Recovery, RecoverRestore, Recover, RecoverKeep, RecoverTemp,
                           RecoverMarker, RecoverSync, RecoverySteps
<1>4. ASSUME NEW p \in Procs, Preparation(p)
      PROVE LockInv'
    <2>1. CASE KeyGet(p)
        <3>1. \E l \in {"keySet", "create", "keyVerify"} : pc' = [pc EXCEPT ![p] = l]
            BY <2>1 DEF KeyGet
        <3>2. QED
            BY <2>1, <3>1, <1>1, <1>d DEF KeyGet, OtherSteps
    <2>2. CASE ~KeyGet(p)
        BY <2>2, <1>4, <1>1, <1>d DEF Preparation, Classify, SecretSet, KeySet, KeyVerify,
                               Create, Initialized, Prepared, OtherSteps
    <2>3. QED
        BY <2>1, <2>2
<1>5. ASSUME NEW p \in Procs, Migration(p)
      PROVE LockInv'
    <2>1. ASSUME NEW a \in LockedSteps, NEW b \in LockedSteps, Step(p, a, b)
          PROVE LockInv'
        BY <2>1, <1>1 DEF Step
    <2>2. CASE SyncDone(p) \/ Handler(p)
        BY <2>2, <1>1, <1>d DEF SyncDone, Handler, Prepared, RecoverySteps, OtherSteps, GuardedSteps
    <2>3. QED
        BY <1>5, <1>d, <2>1, <2>2 DEF Migration, MakeTemp, MarkerOpen, MarkerWrite, MarkerSync,
              ExportBegin, ExportEnd, TempSync, SwapOut, SyncOut, SwapIn, SyncIn,
              VerifyActive, DropRollback, DropMarker, GuardedSteps, OtherSteps
<1>6. ASSUME NEW p \in Procs, Raise(p) \/ Fault(p) \/ Kill(p)
      PROVE LockInv'
    BY <1>6, <1>1, <1>d DEF Raise, Fault, Kill, RaiseFrom
<1>7. CASE PowerLoss
    BY <1>7, <1>d DEF PowerLoss
<1>8. CASE UNCHANGED <<pc, lock>>
    BY <1>8
<1>9. QED
    BY <1>2, <1>3, <1>4, <1>5, <1>6, <1>7, <1>8 DEF Next, Run, Commit, HelperLate, vars

\* A step of the lock holder is shown harmless by three facts about itself.
LEMMA LockedStep ==
    ASSUME IInv, LockInv', NEW p \in Procs, pc[p] \in LockedSteps, Calm,
           NEW e, Safe(e), KeepDisk \/ Unsynced(e) \/ Synced(e),
           \A q \in Procs \ {p} : pc'[q] = pc[q] /\ key'[q] = key[q],
           \/ KeepDisk \/ (e.main = disk.main /\ e.marker = disk.marker)
           \/ disk.main.kind # "cipher" \/ disk.marker # "none",
           StepInv(p)'
    PROVE  SafeInv' /\ LockInv' /\ \A q \in Procs : StepInv(q)'
<1>1. SafeInv'
    BY SafeKept DEF IInv
<1>2. ASSUME NEW q \in Procs, q # p PROVE StepInv(q)'
    <2>1. \/ disk'.main = disk.main /\ disk'.marker = disk.marker
          \/ disk.main.kind # "cipher" \/ disk.marker # "none"
        BY DEF KeepDisk, Unsynced, Synced
    <2>2. p # Nobody /\ StepInv(q) /\ pc'[q] = pc[q] /\ key'[q] = key[q]
        BY <1>2, NobodyAssumption DEF IInv
    <2>3. QED
        BY <1>2, <2>1, <2>2, OthersKept DEF IInv
<1>3. QED
    BY <1>1, <1>2

LEMMA RecoveryStep ==
    ASSUME IInv, TypeOK', LockInv', NEW p \in Procs, Recovery(p) \/ RecoverRestore(p)
    PROVE  SafeInv' /\ LockInv' /\ \A q \in Procs : StepInv(q)'
<1> USE DEF At, Goto, KeepKeychain, KeepGhosts, KeepLocals
<1> DEFINE Restored == [disk EXCEPT !.main = disk.rollback, !.rollback = NoFile]
<1>t. /\ pc \in [Procs -> Labels] /\ key \in [Procs -> Keys \cup {NoKey}]
      /\ disk \in Directories
    BY DEF IInv, TypeOK
<1>s. Safe(disk) /\ StepInv(p)
    BY DEF IInv, SafeInv
<1>n. NoFile.kind = "none"
    BY DEF NoFile
<1>r. ASSUME disk.marker # "none", disk.main = NoFile \/ disk.rollback # NoFile,
             disk.main.kind # "plain", disk.main # NoFile \/ disk.rollback # NoFile
      PROVE  Safe(Restored) /\ Restored.marker # "none" /\ Restored.rollback = NoFile
    BY <1>t, <1>s, <1>n, <1>r DEF Safe, Quiet, Marked, GoodPlain, GoodCipher, Directories
<1>c. Calm /\ \A q \in Procs \ {p} : pc'[q] = pc[q] /\ key'[q] = key[q]
    BY <1>t DEF Recovery, RecoverRestore, Recover, RecoverKeep, RecoverTemp, RecoverMarker,
                RecoverSync, Calm
<1>1. CASE Recover(p)
    <2>1. pc[p] \in LockedSteps
        BY <1>1 DEF Recover, LockedSteps, RecoverySteps
    <2>2. CASE KeepDisk
        <3>1. StepInv(p)'
            <4>1. CASE disk.marker = "none"
                <5>1. pc'[p] \in {"idle", "classify"}
                    BY <1>1, <1>t, <4>1 DEF Recover
                <5>2. QED
                    BY <2>2, <4>1, <5>1 DEF KeepDisk, StepInv, NoMarkerSteps, MarkerSteps,
                       KeyedSteps, PlainSteps, GuardedSteps
            <4>2. CASE disk.marker # "none" /\ disk.main.kind = "plain"
                <5>1. pc'[p] = "recoverTemp"
                    BY <1>1, <1>t, <1>n, <4>2 DEF Recover
                <5>2. disk.rollback = NoFile
                    BY <1>1, <4>2 DEF Recover, DeadEnd, Ambiguous
                <5>3. QED
                    BY <2>2, <4>2, <5>1, <5>2 DEF KeepDisk, StepInv, NoMarkerSteps, MarkerSteps,
                       KeyedSteps, PlainSteps, GuardedSteps
            <4>3. CASE disk.marker # "none" /\ disk.main.kind # "plain" /\ disk.main # NoFile
                <5>1. pc'[p] = "recoverVerify"
                    BY <1>1, <1>t, <4>3 DEF Recover
                <5>2. GoodCipher(disk.main)'
                    BY <1>s, <1>c, <2>2, <4>3 DEF Safe, Quiet, Marked, GoodPlain, GoodCipher, Calm, KeepDisk
                <5>3. QED
                    BY <2>2, <4>3, <5>1, <5>2 DEF KeepDisk, StepInv, NoMarkerSteps, MarkerSteps,
                       KeyedSteps, PlainSteps, GuardedSteps
            <4>4. CASE disk.marker # "none" /\ disk.main = NoFile
                <5>1. disk = Restored
                    BY <1>1, <2>2, <4>4 DEF Recover, KeepDisk, Unsynced
                <5>2. disk.rollback = NoFile
                    BY <5>1, <1>t DEF Directories
                <5>3. QED
                    BY <1>1, <4>4, <5>2 DEF Recover, DeadEnd, Unrecoverable
            <4>5. QED
                BY <4>1, <4>2, <4>3, <4>4
        <3>2. QED
            BY <1>c, <1>s, <2>1, <2>2, <3>1, LockedStep
    <2>3. CASE disk.main = NoFile /\ disk.marker # "none" /\ Unsynced(Restored)
        <3>1. disk.rollback # NoFile
            BY <1>1, <2>3, <1>s, <1>n DEF Safe, Quiet, Marked, GoodPlain, GoodCipher
        <3>2. Safe(Restored) /\ Restored.marker # "none" /\ Restored.rollback = NoFile
            BY <1>r, <2>3, <3>1, <1>n
        <3>3. pc'[p] = "recoverTemp" \/ KeepDisk
            BY <1>1, <1>t, <2>3 DEF Recover
        <3>4. CASE pc'[p] = "recoverTemp"
            <4>1. StepInv(p)'
                BY <2>3, <3>2, <3>4 DEF Unsynced, StepInv, NoMarkerSteps, MarkerSteps,
                   KeyedSteps, PlainSteps, GuardedSteps
            <4>2. QED
                BY <1>c, <2>1, <2>3, <3>2, <4>1, LockedStep
        <3>5. QED
            BY <2>2, <3>3, <3>4
    <2>4. QED
        BY <1>1, <2>2, <2>3 DEF Recover
<1>2. CASE RecoverKeep(p)
    <2> DEFINE Kept == [disk EXCEPT !.rollback = NoFile]
    <2>1. pc[p] \in LockedSteps /\ disk.marker # "none" /\ Unsynced(Kept) /\ pc'[p] = "recoverTemp"
        BY <1>2, <1>s, <1>t DEF RecoverKeep, StepInv, MarkerSteps, LockedSteps, RecoverySteps
    <2>2. Safe(Kept) /\ Kept.marker # "none" /\ Kept.rollback = NoFile
        BY <1>2, <2>1, <1>s, <1>t DEF Safe, Quiet, Marked, StepInv, RecoverKeep, Directories
    <2>3. StepInv(p)'
        BY <2>1, <2>2 DEF Unsynced, StepInv, NoMarkerSteps, MarkerSteps,
           KeyedSteps, PlainSteps, GuardedSteps
    <2>4. QED
        BY <1>c, <2>1, <2>2, <2>3, LockedStep
<1>3. CASE RecoverRestore(p)
    <2>1. pc[p] \in LockedSteps /\ disk.marker # "none" /\ Unsynced(Restored) /\ pc'[p] = "recoverTemp"
        BY <1>3, <1>s, <1>t DEF RecoverRestore, StepInv, MarkerSteps, LockedSteps, RecoverySteps
    <2>2. Safe(Restored) /\ Restored.marker # "none" /\ Restored.rollback = NoFile
        BY <1>3, <1>r, <2>1, <1>s DEF RecoverRestore, StepInv, GoodCipher
    <2>3. StepInv(p)'
        BY <2>1, <2>2 DEF Unsynced, StepInv, NoMarkerSteps, MarkerSteps,
           KeyedSteps, PlainSteps, GuardedSteps
    <2>4. QED
        BY <1>c, <2>1, <2>2, <2>3, LockedStep
<1>4. CASE RecoverTemp(p)
    <2> DEFINE Cleaned == [disk EXCEPT !.temp = NoFile]
    <2>1. /\ pc[p] \in LockedSteps /\ disk.marker # "none" /\ disk.rollback = NoFile
          /\ Unsynced(Cleaned) /\ pc'[p] = "recoverMarker"
        BY <1>4, <1>s, <1>t DEF RecoverTemp, StepInv, MarkerSteps, LockedSteps, RecoverySteps
    <2>2. Safe(Cleaned) /\ Cleaned.marker # "none" /\ Cleaned.rollback = NoFile
        BY <2>1, <1>s, <1>t DEF Safe, Quiet, Marked, Directories
    <2>3. StepInv(p)'
        BY <2>1, <2>2 DEF Unsynced, StepInv, NoMarkerSteps, MarkerSteps,
           KeyedSteps, PlainSteps, GuardedSteps
    <2>4. QED
        BY <1>c, <2>1, <2>2, <2>3, LockedStep
<1>5. CASE RecoverMarker(p)
    <2> DEFINE Unmarked == [disk EXCEPT !.marker = "none"]
    <2>1. /\ pc[p] \in LockedSteps /\ disk.marker # "none" /\ disk.rollback = NoFile
          /\ Unsynced(Unmarked) /\ pc'[p] = "recoverSync"
        BY <1>5, <1>s, <1>t DEF RecoverMarker, StepInv, MarkerSteps, LockedSteps, RecoverySteps
    <2>2. Safe(Unmarked) /\ Unmarked.marker = "none"
        BY <2>1, <1>s, <1>t, <1>n DEF Safe, Quiet, Marked, GoodPlain, GoodCipher, Directories
    <2>3. StepInv(p)'
        BY <2>1, <2>2 DEF Unsynced, StepInv, NoMarkerSteps, MarkerSteps,
           KeyedSteps, PlainSteps, GuardedSteps
    <2>4. QED
        BY <1>c, <2>1, <2>2, <2>3, LockedStep
<1>6. CASE RecoverSync(p)
    <2>1. /\ pc[p] \in LockedSteps /\ disk.marker = "none" /\ Synced(disk)
          /\ pc'[p] \in {"idle", "classify"}
        BY <1>6, <1>s, <1>t DEF RecoverSync, StepInv, NoMarkerSteps, LockedSteps, RecoverySteps
    <2>2. StepInv(p)'
        BY <2>1 DEF Synced, StepInv, NoMarkerSteps, MarkerSteps, KeyedSteps, PlainSteps, GuardedSteps
    <2>3. QED
        BY <1>c, <1>s, <2>1, <2>2, LockedStep
<1>7. QED
    BY <1>1, <1>2, <1>3, <1>4, <1>5, <1>6 DEF Recovery

LEMMA PreparationStep ==
    ASSUME IInv, TypeOK', LockInv', NEW p \in Procs, Preparation(p)
    PROVE  SafeInv' /\ LockInv' /\ \A q \in Procs : StepInv(q)'
<1> USE DEF At, Goto, KeepKeychain, KeepGhosts, KeepLocals, Prepared
<1>t. /\ pc \in [Procs -> Labels] /\ key \in [Procs -> Keys \cup {NoKey}]
      /\ disk \in Directories /\ kcKey \in Keys \cup {NoKey}
      /\ kcSecret \in BOOLEAN /\ hadSecret \in BOOLEAN
    BY DEF IInv, TypeOK
<1>s. Safe(disk) /\ StepInv(p)
    BY DEF IInv, SafeInv
<1>n. NoFile.kind = "none"
    BY DEF NoFile
<1>g. pc[p] \in OtherSteps /\ pc[p] \in LockedSteps
    BY DEF Preparation, Classify, SecretSet, KeyGet, KeySet, KeyVerify, Create, Initialized,
           OtherSteps, LockedSteps
<1>c. Calm /\ \A q \in Procs \ {p} : pc'[q] = pc[q] /\ key'[q] = key[q]
    BY <1>t DEF Preparation, Classify, SecretSet, KeyGet, KeySet, KeyVerify, Create,
                Initialized, Calm, Winner
<1>1. CASE Classify(p)
    <2>1. KeepDisk /\ disk.marker = "none" /\ kcKey' = kcKey
        BY <1>1, <1>s DEF Classify, StepInv, NoMarkerSteps
    <2>2. ASSUME disk.main.kind = "plain" PROVE StepInv(p)'
        <3>1. pc'[p] \in {"secretSet", "keyGet"}
            BY <1>1, <1>t, <1>n, <2>2 DEF Classify
        <3>2. pc'[p] = "keyGet" => (hadSecret' => kcSecret')
            BY <1>1, <1>t, <1>s, <1>n, <2>2
               DEF Classify, Safe, Quiet, Marked, GoodPlain, GoodCipher, Fresh
        <3>3. QED
            BY <2>1, <2>2, <3>1, <3>2 DEF KeepDisk, StepInv, NoMarkerSteps, MarkerSteps,
               KeyedSteps, PlainSteps, GuardedSteps
    <2>3. ASSUME disk.main = NoFile PROVE StepInv(p)'
        <3>1. pc'[p] = "keyGet"
            BY <1>1, <1>t, <1>n, <2>3 DEF Classify
        <3>2. hadSecret' => kcSecret'
            BY <1>1, <1>s, <1>n, <2>1, <2>3 DEF Classify, Safe, Quiet, Marked, GoodPlain, GoodCipher, Fresh
        <3>3. QED
            BY <2>1, <2>3, <3>1, <3>2 DEF KeepDisk, StepInv, NoMarkerSteps, MarkerSteps,
               KeyedSteps, PlainSteps, GuardedSteps
    <2>4. ASSUME disk.main.kind \notin {"none", "plain"} PROVE StepInv(p)'
        <3>1. pc'[p] = "schema" /\ key'[p] = kcKey
            BY <1>1, <1>t, <1>n, <2>4 DEF Classify
        <3>2. GoodCipher(disk.main)'
            BY <1>1, <1>s, <1>n, <1>c, <2>1, <2>4
               DEF Safe, Quiet, Marked, GoodPlain, GoodCipher, Fresh, Calm, KeepDisk
        <3>3. QED
            BY <2>1, <3>1, <3>2 DEF KeepDisk, StepInv, NoMarkerSteps, MarkerSteps,
               KeyedSteps, PlainSteps, GuardedSteps
    <2>5. StepInv(p)'
        BY <1>1, <2>2, <2>3, <2>4 DEF Classify
    <2>6. QED
        BY <1>c, <1>g, <1>s, <2>1, <2>5, LockedStep
<1>2. CASE SecretSet(p) \/ KeyGet(p) \/ KeySet(p) \/ KeyVerify(p)
    <2>1. /\ KeepDisk /\ disk.marker = "none" /\ (disk.main = NoFile \/ disk.main.kind = "plain")
          /\ hadSecret' => kcSecret'
        BY <1>2, <1>s, <1>t DEF SecretSet, KeyGet, KeySet, KeyVerify, StepInv, NoMarkerSteps
    <2>2. \/ pc'[p] \in {"keyGet", "keySet"}
          \/ pc'[p] \in {"keyVerify", "create", "mktemp"} /\ key'[p] = kcKey' /\ kcKey' # NoKey
        BY <1>2, <1>s, <1>t, KeysAssumption DEF SecretSet, KeyGet, KeySet, KeyVerify, StepInv, Winner
    <2>3. /\ pc'[p] = "create" => disk.main = NoFile
          /\ pc'[p] = "mktemp" => disk.main.kind = "plain"
        BY <1>2, <1>s, <1>t, <2>1 DEF SecretSet, KeyGet, KeySet, KeyVerify
    <2>4. StepInv(p)'
        BY <2>1, <2>2, <2>3 DEF KeepDisk, StepInv, NoMarkerSteps, MarkerSteps,
           KeyedSteps, PlainSteps, GuardedSteps
    <2>5. QED
        BY <1>c, <1>g, <1>s, <2>1, <2>4, LockedStep
<1>3. CASE Create(p)
    <2> DEFINE Made == [disk EXCEPT !.main = Cipher(0, key[p])]
    <2>1. /\ Unsynced(Made) /\ disk.marker = "none" /\ disk.main = NoFile /\ key[p] = kcKey
          /\ kcKey # NoKey /\ (hadSecret => kcSecret)
        BY <1>3, <1>s DEF Create, StepInv, NoMarkerSteps, KeyedSteps
    <2>2. disk.rollback = NoFile /\ acked = 0
        BY <1>s, <1>n, <2>1 DEF Safe, Quiet, Marked, GoodPlain, GoodCipher, Fresh
    <2>3. GoodCipher(Made.main) /\ Made.marker = "none" /\ Made.rollback = NoFile
        BY <1>t, <2>1, <2>2 DEF GoodCipher, Cipher, NoFile, Directories
    <2>4. Safe(Made)
        BY <2>3 DEF Safe, Quiet
    <2>5. pc'[p] = "schema" /\ key'[p] = key[p] /\ kcKey' = kcKey
        BY <1>3, <1>t DEF Create
    <2>6. GoodCipher(disk.main)' /\ disk'.marker = "none"
        BY <1>c, <1>3, <2>1, <2>3 DEF Unsynced, GoodCipher, Calm, Create
    <2>7. StepInv(p)'
        BY <2>1, <2>5, <2>6 DEF StepInv, NoMarkerSteps, MarkerSteps, KeyedSteps, PlainSteps, GuardedSteps
    <2>8. disk.main.kind # "cipher"
        BY <1>n, <2>1
    <2>9. QED
        BY <1>c, <1>g, <2>1, <2>4, <2>7, <2>8, LockedStep
<1>4. CASE Initialized(p)
    <2>1. Synced(disk) /\ pc'[p] = "ready" /\ key'[p] = key[p]
        BY <1>4, <1>t DEF Initialized
    <2>2. StepInv(p)'
        BY <1>4, <1>c, <1>s, <2>1 DEF Synced, Initialized, StepInv, GoodCipher, Calm, NoMarkerSteps,
           MarkerSteps, KeyedSteps, PlainSteps, GuardedSteps
    <2>3. QED
        BY <1>c, <1>g, <1>s, <2>1, <2>2, LockedStep DEF Synced, KeepDisk
<1>5. QED
    BY <1>1, <1>2, <1>3, <1>4 DEF Preparation

\* The steps of the conversion, each with the directory it leaves.
LEMMA MigrationStep ==
    ASSUME IInv, TypeOK', LockInv', NEW p \in Procs, Migration(p)
    PROVE  SafeInv' /\ LockInv' /\ \A q \in Procs : StepInv(q)'
<1> USE DEF At, Goto, KeepKeychain, KeepGhosts, KeepLocals, Prepared
<1>t. /\ pc \in [Procs -> Labels] /\ key \in [Procs -> Keys \cup {NoKey}]
      /\ disk \in Directories
    BY DEF IInv, TypeOK
<1>s. Safe(disk) /\ StepInv(p)
    BY DEF IInv, SafeInv
<1>n. /\ NoFile.kind = "none"
      /\ \A n, k : Cipher(n, k).rows = n /\ Cipher(n, k).key = k
    BY DEF NoFile, Cipher
<1>f. \A e : (Unsynced(e) \/ Synced(e)) => disk' = e
    BY DEF Unsynced, Synced
<1>g. pc[p] \in LockedSteps
    BY DEF Migration, Step, MakeTemp, MarkerOpen, MarkerWrite, MarkerSync, ExportBegin, ExportEnd,
           TempSync, SwapOut, SyncOut, SwapIn, SyncIn, VerifyActive, DropRollback, DropMarker,
           SyncDone, Handler, LockedSteps, GuardedSteps, OtherSteps
<1>k. /\ UNCHANGED <<acked, hadSecret, kcKey, kcSecret>>
      /\ \A q \in Procs \ {p} : pc'[q] = pc[q] /\ key'[q] = key[q]
      /\ key'[p] = key[p]
    BY <1>t DEF Migration, Step, MakeTemp, MarkerOpen, MarkerWrite, MarkerSync, ExportBegin, ExportEnd,
           TempSync, SwapOut, SyncOut, SwapIn, SyncIn, VerifyActive, DropRollback, DropMarker,
           SyncDone, Handler
<1>c. Calm /\ \A q \in Procs \ {p} : pc'[q] = pc[q] /\ key'[q] = key[q]
    BY <1>k DEF Calm
\* GoodPlain and GoodCipher mean the same before and after the step.
<1>p. \A f : (GoodCipher(f) <=> GoodCipher(f)')
    BY <1>k DEF GoodCipher
\* Before the originals are swapped there is one good plaintext file.
<1>o. ASSUME pc[p] \in PlainSteps
      PROVE  GoodPlain(disk.main) /\ disk.rollback = NoFile
    BY <1>s, <1>n, <1>o DEF StepInv, Safe, Quiet, Marked, GoodPlain, GoodCipher, Fresh
<1> USE DEF NoMarkerSteps, MarkerSteps, KeyedSteps, PlainSteps, GuardedSteps, Step
<1>1. CASE MakeTemp(p)
    <2> DEFINE e == [disk EXCEPT !.temp = EmptyFile]
    <2>1. Unsynced(e) /\ pc'[p] = "markerOpen" /\ pc[p] = "mktemp"
        BY <1>1, <1>t DEF MakeTemp
    <2>2. e.main = disk.main /\ e.marker = disk.marker /\ e.rollback = disk.rollback
        BY <1>t DEF Directories
    <2>3. Safe(e)
        BY <1>s, <2>2 DEF Safe, Quiet, Marked
    <2>4. StepInv(p)'
        BY <1>s, <1>k, <1>f, <2>1, <2>2 DEF StepInv
    <2>5. QED
        BY <1>c, <1>g, <2>1, <2>2, <2>3, <2>4, LockedStep
<1>2. CASE MarkerOpen(p) \/ MarkerWrite(p) \/ MarkerSync(p)
    <2>1. PICK m \in {"torn", "written", "valid"} :
             LET e == [disk EXCEPT !.marker = m] IN Unsynced(e) \/ Synced(e)
        BY <1>2 DEF MarkerOpen, MarkerWrite, MarkerSync
    <2> DEFINE e == [disk EXCEPT !.marker = m]
    <2>2. pc[p] \in {"markerOpen", "markerWrite", "markerSync"} /\ pc'[p] \in {"markerWrite", "markerSync", "export"}
        BY <1>2, <1>t DEF MarkerOpen, MarkerWrite, MarkerSync
    <2>3. e.main = disk.main /\ e.marker = m /\ e.rollback = disk.rollback
        BY <1>t DEF Directories
    <2>4. Safe(e)
        BY <1>o, <2>2, <2>3 DEF Safe, Marked
    <2>5. StepInv(p)'
        BY <1>s, <1>k, <1>f, <2>1, <2>2, <2>3 DEF StepInv
    <2>6. disk.main.kind # "cipher"
        BY <1>o, <2>2 DEF GoodPlain
    <2>7. QED
        BY <1>c, <1>g, <2>1, <2>3, <2>4, <2>5, <2>6, LockedStep
<1>3. CASE ExportBegin(p)
    <2> DEFINE e == [disk EXCEPT !.temp = PartialFile]
    <2>1. Unsynced(e) /\ pc'[p] = "exporting" /\ pc[p] = "export"
        BY <1>3, <1>t DEF ExportBegin
    <2>2. e.main = disk.main /\ e.marker = disk.marker /\ e.rollback = disk.rollback
        BY <1>t DEF Directories
    <2>3. Safe(e)
        BY <1>s, <2>2 DEF Safe, Quiet, Marked
    <2>4. StepInv(p)'
        BY <1>s, <1>k, <1>f, <2>1, <2>2 DEF StepInv
    <2>5. QED
        BY <1>c, <1>g, <2>1, <2>2, <2>3, <2>4, LockedStep
<1>4. CASE ExportEnd(p)
    <2> DEFINE x == [Cipher(disk.main.rows, key[p]) EXCEPT !.kind = "exported"]
               e == [disk EXCEPT !.temp = x]
    <2>1. Unsynced(e) /\ pc'[p] = "tempSync" /\ pc[p] = "exporting"
        BY <1>4, <1>t DEF ExportEnd
    <2>2. e.main = disk.main /\ e.marker = disk.marker /\ e.rollback = disk.rollback /\ e.temp = x
        BY <1>t DEF Directories
    <2>3. Safe(e)
        BY <1>s, <2>2 DEF Safe, Quiet, Marked
    <2>4. x.rows = acked /\ x.key = kcKey
        BY <1>o, <1>s, <2>1 DEF Cipher, NoFile, GoodPlain, StepInv
    <2>5. StepInv(p)'
        BY <1>s, <1>k, <1>f, <2>1, <2>2, <2>4 DEF StepInv
    <2>6. QED
        BY <1>c, <1>g, <2>1, <2>2, <2>3, <2>5, LockedStep
<1>5. CASE TempSync(p)
    <2> DEFINE x == [disk.temp EXCEPT !.kind = "cipher"]
               e == [disk EXCEPT !.temp = x]
    <2>1. Synced(e) /\ pc'[p] = "swapOut" /\ pc[p] = "tempSync"
        BY <1>5, <1>t DEF TempSync
    <2>2. e.main = disk.main /\ e.marker = disk.marker /\ e.rollback = disk.rollback /\ e.temp = x
        BY <1>t DEF Directories
    <2>3. Safe(e)
        BY <1>s, <2>2 DEF Safe, Quiet, Marked
    <2>4. GoodCipher(x)
        BY <1>s, <1>t, <2>1 DEF StepInv, GoodCipher, Directories, Files
    <2>5. StepInv(p)'
        BY <1>s, <1>k, <1>p, <1>f, <2>1, <2>2, <2>4 DEF StepInv
    <2>6. QED
        BY <1>c, <1>g, <2>1, <2>2, <2>3, <2>5, LockedStep
<1>6. CASE SwapOut(p)
    <2> DEFINE e == [disk EXCEPT !.rollback = disk.main, !.main = NoFile]
    <2>1. Unsynced(e) /\ pc'[p] = "syncOut" /\ pc[p] = "swapOut"
        BY <1>6, <1>t DEF SwapOut
    <2>2. /\ e.main = NoFile /\ e.marker = disk.marker /\ e.rollback = disk.main
          /\ e.temp = disk.temp /\ disk.marker # "none"
        BY <1>t, <1>s, <2>1 DEF Directories, StepInv
    <2>3. Safe(e)
        BY <1>o, <2>1, <2>2 DEF Safe, Marked
    <2>4. StepInv(p)'
        BY <1>s, <1>k, <1>p, <1>f, <2>1, <2>2 DEF StepInv
    <2>5. QED
        BY <1>c, <1>g, <2>1, <2>2, <2>3, <2>4, LockedStep
<1>7. CASE SwapIn(p)
    <2> DEFINE e == [disk EXCEPT !.main = disk.temp, !.temp = NoFile]
    <2>1. Unsynced(e) /\ pc'[p] = "syncIn" /\ pc[p] = "swapIn"
        BY <1>7, <1>t DEF SwapIn
    <2>2. /\ e.main = disk.temp /\ e.marker = disk.marker /\ e.rollback = disk.rollback
          /\ disk.marker # "none" /\ disk.main = NoFile /\ GoodCipher(disk.temp)
        BY <1>t, <1>s, <2>1 DEF Directories, StepInv
    <2>3. Safe(e)
        BY <1>s, <1>n, <2>2 DEF Safe, Quiet, Marked, GoodPlain, GoodCipher
    <2>4. StepInv(p)'
        BY <1>s, <1>k, <1>p, <1>f, <2>1, <2>2 DEF StepInv
    <2>5. QED
        BY <1>c, <1>g, <2>1, <2>2, <2>3, <2>4, LockedStep
<1>8. CASE SyncOut(p) \/ SyncIn(p) \/ VerifyActive(p)
    <2>1. /\ Synced(disk) \/ KeepDisk
          /\ \/ pc[p] = "syncOut" /\ pc'[p] = "swapIn"
             \/ pc[p] = "syncIn" /\ pc'[p] = "verify"
             \/ pc[p] = "verify" /\ pc'[p] = "dropRollback"
        BY <1>8, <1>t DEF SyncOut, SyncIn, VerifyActive
    <2>2. disk' = disk
        BY <2>1 DEF Synced, KeepDisk
    <2>3. StepInv(p)'
        BY <1>s, <1>k, <1>p, <2>1, <2>2 DEF StepInv
    <2>4. QED
        BY <1>c, <1>g, <1>s, <2>1, <2>3, LockedStep
<1>9. CASE DropRollback(p)
    <2> DEFINE e == [disk EXCEPT !.rollback = NoFile]
    <2>1. Unsynced(e) /\ pc'[p] = "dropMarker" /\ pc[p] = "dropRollback"
        BY <1>9, <1>t DEF DropRollback
    <2>2. /\ e.main = disk.main /\ e.marker = disk.marker /\ e.rollback = NoFile
          /\ disk.marker # "none" /\ GoodCipher(disk.main)
        BY <1>t, <1>s, <2>1 DEF Directories, StepInv
    <2>3. Safe(e)
        BY <2>2 DEF Safe, Marked
    <2>4. StepInv(p)'
        BY <1>s, <1>k, <1>p, <1>f, <2>1, <2>2 DEF StepInv
    <2>5. QED
        BY <1>c, <1>g, <2>1, <2>2, <2>3, <2>4, LockedStep
<1>10. CASE DropMarker(p)
    <2> DEFINE e == [disk EXCEPT !.marker = "none"]
    <2>1. Unsynced(e) /\ pc'[p] = "syncDone" /\ pc[p] = "dropMarker"
        BY <1>10, <1>t DEF DropMarker
    <2>2. /\ e.main = disk.main /\ e.marker = "none" /\ e.rollback = NoFile
          /\ disk.marker # "none" /\ GoodCipher(disk.main)
        BY <1>t, <1>s, <2>1 DEF Directories, StepInv
    <2>3. Safe(e)
        BY <2>2 DEF Safe, Quiet
    <2>4. StepInv(p)'
        BY <1>s, <1>k, <1>p, <1>f, <2>1, <2>2 DEF StepInv
    <2>5. QED
        BY <1>c, <1>g, <2>1, <2>2, <2>3, <2>4, LockedStep
<1>11. CASE SyncDone(p)
    <2>1. Synced(disk) /\ pc'[p] = "schema" /\ pc[p] = "syncDone"
        BY <1>11, <1>t DEF SyncDone
    <2>2. StepInv(p)'
        BY <1>s, <1>k, <1>p, <1>f, <2>1 DEF StepInv
    <2>3. QED
        BY <1>c, <1>g, <1>s, <2>1, <2>2, LockedStep DEF Synced, KeepDisk
<1>12. CASE Handler(p)
    <2> DEFINE e == [disk EXCEPT !.temp = NoFile]
    <2>1. (KeepDisk \/ Unsynced(e)) /\ pc'[p] \in {"recover", "idle"}
        BY <1>12, <1>t DEF Handler
    <2>2. e.main = disk.main /\ e.marker = disk.marker /\ e.rollback = disk.rollback
        BY <1>t DEF Directories
    <2>3. Safe(e)
        BY <1>s, <2>2 DEF Safe, Quiet, Marked
    <2>4. StepInv(p)'
        BY <2>1 DEF StepInv
    <2>5. QED
        BY <1>c, <1>g, <2>1, <2>2, <2>3, <2>4, LockedStep
<1>13. QED
    BY <1>1, <1>2, <1>3, <1>4, <1>5, <1>6, <1>7, <1>8, <1>9, <1>10, <1>11, <1>12 DEF Migration

\* Steps that leave the directory and the Keychain alone and take one instance
\* out of initialize(), to its lock or into the handler.
LEMMA QuietStep ==
    ASSUME IInv, TypeOK', LockInv', NEW p \in Procs, KeepDisk, Calm, UNCHANGED <<key, kcKey, kcSecret>>,
           pc'[p] \in {"idle", "waiting", "recover", "handler"},
           \A q \in Procs \ {p} : pc'[q] = pc[q]
    PROVE  SafeInv' /\ \A q \in Procs : StepInv(q)'
<1>1. SafeInv'
    <2>1. Safe(disk)
        BY DEF IInv, SafeInv
    <2>2. QED
        BY <2>1, SafeKept DEF IInv
<1>2. StepInv(p)'
    BY DEF StepInv, NoMarkerSteps, MarkerSteps, KeyedSteps, PlainSteps, GuardedSteps
<1>3. ASSUME NEW q \in Procs, q # p PROVE StepInv(q)'
    <2>1. StepInv(q) /\ pc'[q] = pc[q]
        BY <1>3 DEF IInv
    <2>2. \A f : GoodCipher(f)' <=> GoodCipher(f)
        BY DEF GoodCipher, Calm
    <2>3. QED
        BY <2>1, <2>2 DEF StepInv, KeepDisk, Calm
<1>4. QED
    BY <1>1, <1>2, <1>3

LEMMA CommitStep ==
    ASSUME IInv, TypeOK', NEW p \in Procs, Commit(p)
    PROVE  SafeInv' /\ \A q \in Procs : StepInv(q)'
<1>e. PICK e : e = [disk EXCEPT !.main.rows = @ + 1]
    OBVIOUS
<1>t. disk \in Directories /\ acked \in Nat
    BY DEF IInv, TypeOK
<1>1. /\ pc[p] = "ready" /\ acked' = acked + 1 /\ Synced(e)
      /\ UNCHANGED <<pc, key, kcKey, kcSecret, hadSecret>>
    BY <1>e DEF Commit, At, KeepKeychain, KeepLocals
<1>2. GoodCipher(disk.main) /\ disk.marker = "none" /\ Safe(disk)
    BY <1>1 DEF IInv, StepInv, SafeInv
<1>3. disk.rollback = NoFile
    BY <1>2 DEF Safe, Quiet, Marked
<1>4. /\ e.marker = "none" /\ e.rollback = NoFile /\ e.temp = disk.temp
      /\ e.main = [disk.main EXCEPT !.rows = disk.main.rows + 1]
    BY <1>e, <1>t, <1>2, <1>3 DEF Directories
<1>5. /\ e.main.kind = "cipher" /\ e.main.rows = acked + 1
      /\ e.main.key = kcKey
    BY <1>t, <1>2, <1>4 DEF Directories, Files, GoodCipher
<1>6. disk' = e /\ past' = {e}
    BY <1>1 DEF Synced
<1>7. GoodCipher(e.main)' /\ GoodCipher(disk.main)'
    BY <1>1, <1>2, <1>5, <1>6 DEF GoodCipher
<1>8. SafeInv'
    BY <1>4, <1>6, <1>7 DEF SafeInv, Safe, Quiet
<1>9. ASSUME NEW q \in Procs PROVE StepInv(q)'
    <2>1. StepInv(q) /\ disk.main.kind = "cipher" /\ disk.main # NoFile
        BY <1>2 DEF IInv, GoodCipher, NoFile
    <2>2. pc[q] \notin {"tempSync", "swapOut", "syncOut", "swapIn", "syncIn", "verify",
                        "dropRollback", "dropMarker", "recoverVerify", "secretSet", "create",
                        "keyGet", "keySet", "keyVerify"} \cup PlainSteps \cup MarkerSteps
        BY <1>2, <2>1 DEF StepInv, PlainSteps, MarkerSteps
    <2>3. QED
        BY <1>1, <1>2, <1>4, <1>6, <1>7, <2>1, <2>2
           DEF StepInv, NoMarkerSteps, MarkerSteps, PlainSteps, KeyedSteps, GuardedSteps
<1>10. QED
    BY <1>8, <1>9

LEMMA PowerLossStep ==
    ASSUME IInv, PowerLoss
    PROVE  SafeInv' /\ \A q \in Procs : StepInv(q)'
<1>1. PICK d \in past : \E m \in TornMarkers(d.marker) :
          Synced([main |-> TornFile(d.main), temp |-> TornFile(d.temp),
                  rollback |-> d.rollback, marker |-> m])
    BY DEF PowerLoss
<1>2. PICK m \in TornMarkers(d.marker) :
          Synced([main |-> TornFile(d.main), temp |-> TornFile(d.temp),
                  rollback |-> d.rollback, marker |-> m])
    BY <1>1
<1> DEFINE e == [main |-> TornFile(d.main), temp |-> TornFile(d.temp),
                 rollback |-> d.rollback, marker |-> m]
<1>3. Safe(d) /\ SafeInv
    BY DEF IInv, SafeInv
<1>4. e.main = d.main /\ e.rollback = d.rollback /\ (e.marker = "none" <=> d.marker = "none")
    BY <1>3 DEF Safe, Quiet, Marked, GoodPlain, GoodCipher, Fresh, TornFile, TornMarkers, NoFile
<1>5. Safe(e)
    BY <1>3, <1>4 DEF Safe, Quiet, Marked
<1>6. Calm
    BY DEF PowerLoss, Calm
<1>7. SafeInv'
    BY <1>2, <1>3, <1>5, <1>6, SafeKept
<1>8. \A q \in Procs : pc'[q] = "idle"
    BY DEF PowerLoss
<1>9. \A q \in Procs : StepInv(q)'
    BY <1>8 DEF StepInv, NoMarkerSteps, MarkerSteps, KeyedSteps, PlainSteps, GuardedSteps
<1>10. QED
    BY <1>7, <1>9

LEMMA HelperStep ==
    ASSUME IInv, NEW k \in Keys, HelperLate(k)
    PROVE  SafeInv' /\ \A q \in Procs : StepInv(q)'
<1>1. /\ KeepDisk /\ UNCHANGED <<pc, key, kcSecret, acked, hadSecret>>
      /\ kcKey # NoKey => kcKey' = kcKey
    BY DEF HelperLate, KeepLocals, KeepGhosts, Winner
<1>2. Calm
    BY <1>1 DEF Calm
<1>3. Safe(disk)
    BY DEF IInv, SafeInv
<1>4. SafeInv'
    BY <1>1, <1>2, <1>3, SafeKept DEF IInv
<1>5. ASSUME NEW q \in Procs PROVE StepInv(q)'
    <2>1. StepInv(q)
        BY DEF IInv
    <2>2. \A f : GoodCipher(f) => GoodCipher(f)' /\ kcKey' = kcKey
        BY <1>1 DEF GoodCipher
    <2>3. kcKey' = kcKey \/ (kcKey = NoKey /\ \A f : ~GoodCipher(f))
        BY <1>1 DEF GoodCipher
    <2>4. CASE kcKey' = kcKey
        <3>1. \A f : GoodCipher(f) <=> GoodCipher(f)'
            BY <1>1, <2>4 DEF GoodCipher
        <3>2. QED
            BY <1>1, <2>1, <2>4, <3>1 DEF StepInv, KeepDisk
    <2>5. CASE kcKey = NoKey
        <3>1. pc[q] \notin KeyedSteps \cup {"ready", "schema", "recoverVerify", "keyVerify"}
            BY <2>1, <2>5 DEF StepInv, GoodCipher, KeyedSteps
        <3>2. QED
            BY <1>1, <2>1, <3>1 DEF StepInv, KeepDisk, KeyedSteps, GuardedSteps
    <2>6. QED
        BY <1>1, <2>4, <2>5
<1>6. QED
    BY <1>4, <1>5

LEMMA InvInit == Init => IInv
<1> SUFFICES ASSUME Init PROVE IInv
    OBVIOUS
<1>1. TypeOK
    BY TypeInit
<1>2. /\ disk.marker = "none" /\ disk.rollback = NoFile
      /\ GoodPlain(disk.main) \/ GoodCipher(disk.main) \/ Fresh(disk.main)
    <2>1. PICK k \in Keys, s \in BOOLEAN :
             \/ disk = StartWith(NoFile) /\ kcKey = NoKey /\ acked = 0 /\ hadSecret = FALSE
             \/ disk = StartWith(Plain(1, s)) /\ kcKey \in {NoKey, k} /\ acked = 1 /\ hadSecret = s
             \/ disk = StartWith(Cipher(1, k)) /\ kcKey = k /\ acked = 1 /\ hadSecret = FALSE
        BY DEF Init, StartWith
    <2>2. disk.marker = "none" /\ disk.rollback = NoFile
        BY <2>1 DEF StartWith
    <2>3. CASE disk = StartWith(NoFile) /\ kcKey = NoKey /\ acked = 0 /\ hadSecret = FALSE
        BY <2>2, <2>3 DEF StartWith, Fresh
    <2>4. CASE disk = StartWith(Plain(1, s)) /\ acked = 1 /\ hadSecret = s
        BY <2>2, <2>4 DEF StartWith, GoodPlain, Plain
    <2>5. CASE disk = StartWith(Cipher(1, k)) /\ kcKey = k /\ acked = 1 /\ hadSecret = FALSE
        BY <2>2, <2>5, KeysAssumption DEF StartWith, GoodCipher, Cipher, NoFile
    <2>6. QED
        BY <2>1, <2>3, <2>4, <2>5
<1>3. SafeInv
    BY <1>2 DEF Init, SafeInv, Safe, Quiet
<1>4. \A p \in Procs : pc[p] = "idle"
    BY DEF Init
<1>5. LockInv /\ \A p \in Procs : StepInv(p)
    BY <1>4 DEF LockInv, StepInv, LockedSteps, RecoverySteps, OtherSteps, NoMarkerSteps,
                MarkerSteps, KeyedSteps, PlainSteps, GuardedSteps
<1>6. QED
    BY <1>1, <1>3, <1>5 DEF IInv

LEMMA InvStep == IInv /\ [Next]_vars => IInv'
<1> SUFFICES ASSUME IInv, [Next]_vars PROVE IInv'
    OBVIOUS
<1>1. TypeOK' /\ LockInv'
    BY TypeStep, LockStep DEF IInv
<1>2. ASSUME NEW p \in Procs, Recovery(p) \/ RecoverRestore(p) \/ Preparation(p) \/ Migration(p)
      PROVE IInv'
    BY <1>1, <1>2, RecoveryStep, PreparationStep, MigrationStep DEF IInv
<1>3. ASSUME NEW p \in Procs,
             Start(p) \/ Acquire(p) \/ LockTimeout(p) \/ Quit(p) \/ Raise(p) \/ Fault(p) \/ Kill(p)
      PROVE IInv'
    <2>1. pc \in [Procs -> Labels]
        BY DEF IInv, TypeOK
    <2>2. /\ KeepDisk /\ Calm /\ UNCHANGED <<key, kcKey, kcSecret>>
          /\ pc'[p] \in {"idle", "waiting", "recover", "handler"}
          /\ \A q \in Procs \ {p} : pc'[q] = pc[q]
        BY <1>3, <2>1 DEF Start, Acquire, LockTimeout, Quit, Raise, Fault, Kill, RaiseFrom, Goto,
                        KeepKeychain, KeepLocals, KeepGhosts, Calm
    <2>3. QED
        BY <1>1, <2>2, QuietStep DEF IInv
<1>4. ASSUME NEW p \in Procs, Commit(p) PROVE IInv'
    BY <1>1, <1>4, CommitStep DEF IInv
<1>5. CASE PowerLoss
    BY <1>1, <1>5, PowerLossStep DEF IInv
<1>6. ASSUME NEW k \in Keys, HelperLate(k) PROVE IInv'
    BY <1>1, <1>6, HelperStep DEF IInv
<1>7. CASE UNCHANGED vars
    BY <1>7 DEF vars, IInv, TypeOK, SafeInv, Safe, Quiet, Marked, GoodPlain, GoodCipher, Fresh,
                LockInv, StepInv
<1>8. QED
    BY <1>2, <1>3, <1>4, <1>5, <1>6, <1>7 DEF Next, Run

THEOREM Inductive == Spec => []IInv
BY InvInit, InvStep, PTL DEF Spec

-----------------------------------------------------------------------------
(* What the invariant gives *)

LEMMA TornIsSafe ==
    ASSUME NEW d, d \in Directories, Safe(d)
    PROVE  /\ Safe(Torn(d)) /\ Torn(d).main = d.main
           /\ Torn(d).rollback = d.rollback /\ Torn(d).marker = d.marker
<1>1. TornFile(d.main) = d.main
    BY DEF Safe, Quiet, Marked, GoodPlain, GoodCipher, Fresh, TornFile, NoFile
<1>2. /\ Torn(d).main = d.main /\ Torn(d).rollback = d.rollback /\ Torn(d).marker = d.marker
    BY <1>1 DEF Torn, Directories
<1>3. QED
    BY <1>2 DEF Safe, Quiet, Marked

LEMMA FindableSafe == IInv => \A d \in Findable : Safe(d)
BY TornIsSafe DEF IInv, TypeOK, SafeInv, Findable

LEMMA OutcomesGood ==
    ASSUME NEW d, Safe(d), NEW f \in Outcomes(d)
    PROVE  GoodPlain(f) \/ GoodCipher(f) \/ Fresh(f)
<1>n. NoFile.kind = "none"
    BY DEF NoFile
<1>1. CASE Quiet(d)
    BY <1>1 DEF Quiet, Outcomes
<1>2. CASE d.marker # "none" /\ GoodPlain(d.main)
    BY <1>2, <1>n DEF Outcomes, GoodPlain
<1>3. CASE d.marker # "none" /\ d.main = NoFile /\ GoodPlain(d.rollback)
    BY <1>3, <1>n DEF Outcomes
<1>4. CASE d.marker # "none" /\ GoodCipher(d.main) /\ (d.rollback = NoFile \/ GoodPlain(d.rollback))
    <2>1. d.main.kind # "plain" /\ d.main # NoFile
        BY <1>4, <1>n DEF GoodCipher
    <2>2. f \in {d.main} \/ (f = d.rollback /\ d.rollback # NoFile)
        BY <1>4, <2>1 DEF Outcomes
    <2>3. QED
        BY <1>4, <2>2
<1>5. QED
    BY <1>1, <1>2, <1>3, <1>4 DEF Safe, Marked

\* No conversion, recovery, kill or power loss loses a committed row.
THEOREM NothingIsLost == Spec => []NothingLost
<1>1. IInv => NothingLost
    <2> SUFFICES ASSUME IInv, NEW d \in Findable, NEW f \in Outcomes(d)
                 PROVE  (Readable(f) /\ f.rows = acked) \/ (acked = 0 /\ f = NoFile)
        BY DEF NothingLost
    <2>1. GoodPlain(f) \/ GoodCipher(f) \/ Fresh(f)
        BY FindableSafe, OutcomesGood
    <2>2. QED
        BY <2>1 DEF GoodPlain, GoodCipher, Fresh, Readable, Verifies
<1>2. QED
    BY <1>1, Inductive, PTL

\* The legacy Client Secret is never lost with the file that held it.
THEOREM SecretIsKept == Spec => []SecretKept
<1>1. IInv => SecretKept
    <2> SUFFICES ASSUME IInv, hadSecret, ~kcSecret, NEW d \in Findable, NEW f \in Outcomes(d)
                 PROVE  f.secret
        BY DEF SecretKept
    <2>1. GoodPlain(f) \/ GoodCipher(f) \/ Fresh(f)
        BY FindableSafe, OutcomesGood
    <2>2. QED
        BY <2>1 DEF GoodPlain, GoodCipher, Fresh
<1>2. QED
    BY <1>1, Inductive, PTL

\* No plaintext original outlives the marker that names it.
THEOREM NoOriginalStrays == Spec => []NoStrayOriginal
<1>1. IInv => NoStrayOriginal
    BY FindableSafe DEF NoStrayOriginal, Safe, Quiet, Marked
<1>2. QED
    BY <1>1, Inductive, PTL

\* The file of an open instance is encrypted under its key, and no recovery
\* is pending that could replace it.
THEOREM OpenedIsSealed == Spec => []OpenedMeansSealed
<1>1. IInv => OpenedMeansSealed
    <2> SUFFICES ASSUME IInv, NEW p \in Procs, pc[p] = "ready"
                 PROVE  /\ disk.main.kind = "cipher" /\ disk.main.key = key[p]
                        /\ disk.marker = "none" /\ disk.rollback = NoFile
        BY DEF OpenedMeansSealed, At
    <2>1. GoodCipher(disk.main) /\ disk.marker = "none" /\ key[p] = kcKey
        BY DEF IInv, StepInv
    <2>2. Safe(disk)
        BY DEF IInv, SafeInv
    <2>3. QED
        BY <2>1, <2>2 DEF GoodCipher, Safe, Quiet, Marked
<1>2. QED
    BY <1>1, Inductive, PTL

\* Recovery never meets a directory it calls ambiguous or unrecoverable, nor
\* leaves anything behind, and only an incomplete marker makes a start raise by
\* itself (_recover_interrupted_migration, _prepare_storage).
THEOREM RecoveryIsDefined == Spec => []RecoveryDefined
<1>1. IInv => NeverAmbiguous
    <2> SUFFICES ASSUME IInv, NEW d \in Findable, d.marker # "none"
                 PROVE  ~Ambiguous(d) /\ ~Unrecoverable(d)
        BY DEF NeverAmbiguous
    <2>1. Marked(d)
        BY FindableSafe DEF Safe, Quiet
    <2>2. QED
        BY <2>1 DEF Marked, GoodPlain, GoodCipher, Ambiguous, Unrecoverable, NoFile
<1>2. IInv => OnlyTornRefuses
    <2> SUFFICES ASSUME IInv, NEW p \in Procs, Refused(p)
                 PROVE  At(p, "recover") /\ disk.marker = "torn"
        BY DEF OnlyTornRefuses
    <2>1. StepInv(p) /\ Safe(disk)
        BY DEF IInv, SafeInv
    <2>2. CASE At(p, "recover") /\ disk.marker # "none" /\ DeadEnd(disk)
        <3>1. Marked(disk)
            BY <2>1, <2>2 DEF Safe, Quiet
        <3>2. ~Ambiguous(disk) /\ ~Unrecoverable(disk)
            BY <3>1 DEF Marked, GoodPlain, GoodCipher, Ambiguous, Unrecoverable, NoFile
        <3>3. QED
            BY <2>2, <3>2 DEF DeadEnd, Unreadable
    <2>3. ~(At(p, "recoverVerify") /\ ~Verifies(disk.main, kcKey))
        BY <2>1 DEF At, StepInv, GoodCipher, Verifies
    <2>4. ~(At(p, "classify") /\ disk.main.kind \notin {"none", "plain"}
            /\ ~Verifies(disk.main, kcKey))
        <3>1. SUFFICES ASSUME At(p, "classify"), disk.main.kind \notin {"none", "plain"}
                       PROVE  Verifies(disk.main, kcKey)
            OBVIOUS
        <3>2. Quiet(disk) /\ disk.main # NoFile
            BY <2>1, <3>1 DEF At, StepInv, NoMarkerSteps, Safe, Marked, NoFile
        <3>3. QED
            BY <3>1, <3>2 DEF Quiet, GoodPlain, GoodCipher, Fresh, Verifies
    <2>5. ~(At(p, "keyVerify") /\ kcKey # key[p])
        BY <2>1 DEF At, StepInv
    <2>6. ~(At(p, "verify") /\ ~Verifies(disk.main, key[p]))
        BY <2>1 DEF At, StepInv, GoodCipher, Verifies, KeyedSteps, GuardedSteps
    <2>7. ~(At(p, "markerOpen") /\ disk.marker # "none")
        BY <2>1 DEF At, StepInv, NoMarkerSteps
    <2>8. QED
        BY <2>2, <2>3, <2>4, <2>5, <2>6, <2>7 DEF Refused
<1>3. QED
    BY <1>1, <1>2, Inductive, NoOriginalStrays, PTL DEF RecoveryDefined

-----------------------------------------------------------------------------
(* Refinement *)

\* What users of the store see of a safe directory.
LEMMA FoundInSafe ==
    ASSUME Safe(disk)
    PROVE  /\ FoundRows = acked
           /\ disk.main.kind = "cipher" => FoundForm = "cipher"
           /\ FoundForm \in Store!Forms
           /\ disk.main # NoFile \/ disk.rollback # NoFile => FoundForm # "absent"
BY DEF Safe, Quiet, Marked, GoodPlain, GoodCipher, Fresh, FoundRows, FoundForm, NoFile, Store!Forms

\* No step of an instance leaves a directory without a database file, unless
\* it found none.
LEMMA NotEmptied ==
    ASSUME IInv, NEW p \in Procs,
           Recovery(p) \/ RecoverRestore(p) \/ Preparation(p) \/ Migration(p),
           disk.main # NoFile \/ disk.rollback # NoFile
    PROVE  disk'.main # NoFile \/ disk'.rollback # NoFile
<1>t. disk \in Directories /\ disk.main \in Files
    BY DEF IInv, TypeOK, Directories
<1>s. Safe(disk) /\ StepInv(p)
    BY DEF IInv, SafeInv
<1>n. NoFile.kind = "none"
    BY DEF NoFile
<1> USE DEF Unsynced, Synced, KeepDisk, Directories, Step, At
<1>1. CASE Recover(p)
    BY <1>1, <1>t DEF Recover, DeadEnd, Unrecoverable
<1>2. CASE RecoverKeep(p)
    BY <1>2, <1>t, <1>n DEF RecoverKeep, Verifies
<1>3. CASE RecoverRestore(p)
    BY <1>3, <1>t DEF RecoverRestore
<1>4. CASE RecoverTemp(p) \/ RecoverMarker(p) \/ RecoverSync(p)
    BY <1>4, <1>t DEF RecoverTemp, RecoverMarker, RecoverSync
<1>5. CASE Preparation(p)
    <2>1. Cipher(0, key[p]) # NoFile
        BY <1>n DEF Cipher, NoFile
    <2>2. QED
        BY <1>5, <1>t, <2>1 DEF Preparation, Classify, SecretSet, KeyGet, KeySet, KeyVerify, Create, Initialized
<1>6. CASE Migration(p)
    <2>1. CASE SwapOut(p)
        <3>1. disk.main # NoFile
            BY <1>n, <1>s, <2>1 DEF SwapOut, StepInv, PlainSteps
        <3>2. QED
            BY <1>t, <2>1, <3>1 DEF SwapOut
    <2>2. CASE SwapIn(p)
        <3>1. disk.temp # NoFile
            BY <1>n, <1>s, <2>2 DEF SwapIn, StepInv, GoodCipher
        <3>2. QED
            BY <1>t, <2>2, <3>1 DEF SwapIn
    <2>3. CASE DropRollback(p)
        <3>1. disk.main # NoFile
            BY <1>n, <1>s, <2>3 DEF DropRollback, StepInv, GoodCipher
        <3>2. QED
            BY <1>t, <2>3, <3>1 DEF DropRollback
    <2>4. CASE \E e : e.main = disk.main /\ e.rollback = disk.rollback /\ disk' = e
        BY <2>4
    <2>5. \/ SwapOut(p) \/ SwapIn(p) \/ DropRollback(p)
          \/ disk'.main = disk.main /\ disk'.rollback = disk.rollback
        BY <1>6, <1>t DEF Migration, MakeTemp, MarkerOpen, MarkerWrite, MarkerSync, ExportBegin, ExportEnd,
           TempSync, SyncOut, SyncIn, VerifyActive, DropMarker, SyncDone, Handler
    <2>6. QED
        BY <2>1, <2>2, <2>3, <2>5
<1>7. QED
    BY <1>1, <1>2, <1>3, <1>4, <1>5, <1>6 DEF Recovery

\* The steps under the lock: only the last one of initialize() opens the
\* store, and it changes nothing on disk.
LEMMA LockedOpened ==
    ASSUME IInv, NEW p \in Procs,
           Recovery(p) \/ RecoverRestore(p) \/ Preparation(p) \/ Migration(p)
    PROVE  \/ Opened' = Opened
           \/ Opened' = Opened \cup {p} /\ disk' = disk
<1>t. pc \in [Procs -> Labels]
    BY DEF IInv, TypeOK
<1> USE DEF At, Goto, Opened
<1>1. CASE Initialized(p)
    BY <1>1, <1>t DEF Initialized, Synced
<1>2. CASE ~Initialized(p)
    <2>1. CASE Recovery(p) \/ RecoverRestore(p)
        BY <1>t, <2>1 DEF Recovery, RecoverRestore, Recover, RecoverKeep, RecoverTemp, RecoverMarker, RecoverSync
    <2>2. CASE Preparation(p)
        BY <1>2, <1>t, <2>2 DEF Preparation, Classify, SecretSet, KeyGet, KeySet, KeyVerify, Create, Prepared
    <2>3. CASE Migration(p)
        BY <1>t, <2>3 DEF Migration, Step, MakeTemp, MarkerOpen, MarkerWrite, MarkerSync, ExportBegin,
           ExportEnd, TempSync, SwapOut, SyncOut, SwapIn, SyncIn, VerifyActive, DropRollback,
           DropMarker, SyncDone, Handler, Prepared
    <2>4. QED
        BY <2>1, <2>2, <2>3
<1>3. QED
    BY <1>1, <1>2

\* What users of the store see, in any state of the inductive invariant.
LEMMA FoundInInv ==
    IInv => /\ FoundRows = acked /\ FoundForm \in Store!Forms
            /\ Opened # {} => FoundForm = "cipher"
<1>1. ASSUME IInv PROVE FoundRows = acked /\ FoundForm \in Store!Forms
    BY <1>1, FoundInSafe DEF IInv, SafeInv
<1>2. ASSUME IInv, Opened # {} PROVE FoundForm = "cipher"
    <2>1. Safe(disk) /\ \E p \in Procs : pc[p] = "ready" /\ StepInv(p)
        BY <1>2 DEF IInv, SafeInv, Opened, At
    <2>2. disk.main.kind = "cipher"
        BY <2>1 DEF StepInv, GoodCipher
    <2>3. QED
        BY <2>1, <2>2, FoundInSafe
<1>3. QED
    BY <1>1, <1>2

LEMMA FoundInNext ==
    (IInv => /\ FoundRows = acked /\ FoundForm \in Store!Forms
             /\ Opened # {} => FoundForm = "cipher")'
BY FoundInInv, PTL

\* Every step of the storage code is a step of the protected store, or none.
LEMMA StoreStep == IInv /\ IInv' /\ [Next]_vars => [Store!StoreNext]_(Store!storeVars)
<1> SUFFICES ASSUME IInv, IInv', [Next]_vars
             PROVE  Store!StoreNext \/ UNCHANGED <<FoundRows, FoundForm, Opened>>
    BY DEF Store!storeVars
<1>t. pc \in [Procs -> Labels] /\ Opened \subseteq Procs
    BY DEF IInv, TypeOK, Opened
<1>f. FoundRows = acked /\ FoundRows' = acked' /\ FoundForm \in Store!Forms /\ FoundForm' \in Store!Forms
    BY FoundInInv, FoundInNext
<1>s. /\ Opened # {} => FoundForm = "cipher"
      /\ Opened' # {} => FoundForm' = "cipher"
    BY FoundInInv, FoundInNext
<1>1. ASSUME NEW p \in Procs, Recovery(p) \/ RecoverRestore(p) \/ Preparation(p) \/ Migration(p)
      PROVE Store!StoreNext \/ UNCHANGED <<FoundRows, FoundForm, Opened>>
    <2>1. acked' = acked
        BY <1>1 DEF KeepGhosts, Step, Recovery, RecoverRestore, Recover, RecoverKeep, RecoverTemp, RecoverMarker,
           RecoverSync, Preparation, Classify, SecretSet, KeyGet, KeySet, KeyVerify, Create, Initialized,
           Migration, MakeTemp, MarkerOpen, MarkerWrite, MarkerSync, ExportBegin, ExportEnd, TempSync,
           SwapOut, SyncOut, SwapIn, SyncIn, VerifyActive, DropRollback, DropMarker, SyncDone, Handler
    <2>2. CASE Opened' = Opened /\ Opened # {}
        BY <1>f, <1>s, <2>1, <2>2
    <2>3. CASE Opened' = Opened /\ Opened = {}
        <3>1. FoundForm' = "absent" => FoundForm = "absent"
            BY <1>1, NotEmptied DEF FoundForm
        <3>2. FoundForm' \in {"plain", "cipher"} \/ FoundForm' = FoundForm
            BY <1>f, <3>1 DEF Store!Forms
        <3>3. QED
            BY <1>f, <2>1, <2>3, <3>2 DEF Store!StoreNext, Store!Convert
    <2>4. CASE Opened' = Opened \cup {p} /\ disk' = disk
        <3>1. FoundForm' = FoundForm /\ FoundForm' = "cipher"
            BY <1>s, <2>4 DEF FoundForm
        <3>2. QED
            BY <1>f, <2>1, <2>4, <3>1 DEF Store!StoreNext, Store!Open
    <2>5. QED
        BY <1>1, <2>2, <2>3, <2>4, LockedOpened
<1>2. ASSUME NEW p \in Procs,
             Start(p) \/ Acquire(p) \/ LockTimeout(p) \/ Quit(p) \/ Raise(p) \/ Fault(p) \/ Kill(p)
      PROVE Store!StoreNext \/ UNCHANGED <<FoundRows, FoundForm, Opened>>
    <2>1. disk' = disk /\ acked' = acked
        BY <1>2 DEF Start, Acquire, LockTimeout, Quit, Raise, Fault, Kill, RaiseFrom, KeepDisk, KeepGhosts
    <2>2. Opened' = Opened \ {p} \/ Opened' = Opened
        BY <1>2, <1>t DEF Start, Acquire, LockTimeout, Quit, Raise, Fault, Kill, RaiseFrom, Opened, At, Goto
    <2>3. FoundForm' = FoundForm /\ FoundRows' = FoundRows
        BY <2>1 DEF FoundForm, FoundRows
    <2>4. {p} \in SUBSET Procs
        BY <1>2
    <2>5. QED
        BY <2>2, <2>3, <2>4 DEF Store!StoreNext, Store!Leave
<1>3. ASSUME NEW p \in Procs, Commit(p)
      PROVE Store!StoreNext \/ UNCHANGED <<FoundRows, FoundForm, Opened>>
    <2>1. acked' = acked + 1 /\ Opened' = Opened /\ p \in Opened
        BY <1>3 DEF Commit, Opened, At
    <2>2. FoundForm = "cipher" /\ FoundForm' = "cipher"
        BY <1>s, <2>1
    <2>3. QED
        BY <1>f, <2>1, <2>2 DEF Store!StoreNext, Store!Append1
<1>4. CASE PowerLoss
    <2>1. acked' = acked /\ Opened' = {}
        BY <1>4 DEF PowerLoss, Opened, At
    <2>2. QED
        BY <1>f, <2>1 DEF Store!StoreNext, Store!Outage
<1>5. ASSUME NEW k \in Keys, HelperLate(k)
      PROVE Store!StoreNext \/ UNCHANGED <<FoundRows, FoundForm, Opened>>
    BY <1>5 DEF HelperLate, KeepDisk, FoundForm, FoundRows, Opened, At
<1>6. CASE UNCHANGED vars
    BY <1>6 DEF vars, FoundForm, FoundRows, Opened, At
<1>7. QED
    BY <1>1, <1>2, <1>3, <1>4, <1>5, <1>6 DEF Next, Run

\* The storage code implements the protected store.
THEOREM Implements == Spec => ImplementsStore
<1>1. Init => Store!StoreInit
    <2>1. Init => Opened = {}
        BY DEF Init, Opened, At
    <2>2. Init => acked \in Nat
        BY InvInit DEF IInv, TypeOK
    <2>3. QED
        BY <2>1, <2>2, InvInit, FoundInInv DEF Store!StoreInit
<1>2. QED
    BY <1>1, StoreStep, Inductive, PTL DEF Spec, ImplementsStore, Store!StoreSpec

-----------------------------------------------------------------------------
(* An incomplete marker is final *)

\* Nobody is writing the marker that is incomplete.
TornForGood == disk.marker = "torn" /\ \A p \in Procs : ~At(p, "markerWrite")

\* The labels behind a marker that was read or written to its end.
LegibleSteps == MarkerSteps \ {"markerWrite"}
Legible == \A p \in Procs : pc[p] \in LegibleSteps => disk.marker # "torn"

\* What one instance may do to the marker, and where it is then.
MarkerMoves(p) ==
    /\ \A q \in Procs \ {p} : pc'[q] = pc[q]
    /\ pc[p] \notin LockedSteps => disk'.marker = disk.marker
    /\ pc'[p] \in LegibleSteps => disk'.marker # "torn"
    /\ pc'[p] = "markerWrite" => disk.marker = "none"
    /\ disk'.marker # disk.marker => pc[p] \in LegibleSteps \cup {"markerOpen", "markerWrite"}
    /\ pc'[p] = "ready" => pc[p] = "ready" \/ disk.marker = "none"

LEMMA RecoveryMoves ==
    ASSUME IInv, Legible, NEW p \in Procs, Recovery(p) \/ RecoverRestore(p)
    PROVE  MarkerMoves(p)
<1>t. pc \in [Procs -> Labels] /\ disk \in Directories
    BY DEF IInv, TypeOK
<1>f. \A e : (Unsynced(e) \/ Synced(e)) => disk' = e
    BY DEF Unsynced, Synced
<1>g. pc[p] \in RecoverySteps
    BY DEF Recovery, RecoverRestore, Recover, RecoverKeep, RecoverTemp, RecoverMarker,
           RecoverSync, At, RecoverySteps
<1> USE DEF At, Goto, RecoverySteps
<1>1. CASE Recover(p)
    <2>1. disk'.marker = disk.marker
        BY <1>1, <1>t, <1>f DEF Directories, Recover, KeepDisk
    <2>2. /\ pc'[p] \in {"idle", "classify", "recoverTemp", "recoverVerify"}
          /\ pc'[p] \in {"recoverTemp", "recoverVerify"} => disk.marker # "torn"
          /\ \A q \in Procs \ {p} : pc'[q] = pc[q]
        BY <1>1, <1>t DEF Recover, DeadEnd, Unreadable
    <2>3. QED
        BY <1>g, <2>1, <2>2 DEF MarkerMoves, LegibleSteps, MarkerSteps, LockedSteps
<1>2. CASE RecoverKeep(p) \/ RecoverRestore(p) \/ RecoverTemp(p)
    <2>1. disk'.marker = disk.marker
        BY <1>2, <1>t, <1>f DEF Directories, RecoverKeep, RecoverRestore, RecoverTemp
    <2>2. /\ pc'[p] \in {"recoverTemp", "recoverMarker"} /\ pc[p] \in LegibleSteps
          /\ \A q \in Procs \ {p} : pc'[q] = pc[q]
        BY <1>2, <1>t DEF RecoverKeep, RecoverRestore, RecoverTemp, LegibleSteps, MarkerSteps
    <2>3. disk.marker # "torn"
        BY <2>2 DEF Legible
    <2>4. QED
        BY <1>g, <2>1, <2>2, <2>3 DEF MarkerMoves, LockedSteps
<1>3. CASE RecoverMarker(p) \/ RecoverSync(p)
    <2>1. /\ disk'.marker = "none"
          /\ pc'[p] \in {"recoverSync", "idle", "classify"}
          /\ \A q \in Procs \ {p} : pc'[q] = pc[q]
        <3>1. CASE RecoverMarker(p)
            BY <1>t, <1>f, <3>1 DEF Directories, RecoverMarker
        <3>2. CASE RecoverSync(p)
            BY <1>t, <1>f, <3>2 DEF RecoverSync, IInv, StepInv, NoMarkerSteps
        <3>3. QED
            BY <1>3, <3>1, <3>2
    <2>2. pc[p] = "recoverSync" => disk.marker = "none"
        BY DEF IInv, StepInv, NoMarkerSteps
    <2>3. pc[p] = "recoverSync" \/ pc[p] = "recoverMarker"
        BY <1>3 DEF RecoverMarker, RecoverSync
    <2>4. QED
        BY <1>g, <2>1, <2>2, <2>3 DEF MarkerMoves, LegibleSteps, MarkerSteps, LockedSteps
<1>4. QED
    BY <1>1, <1>2, <1>3 DEF Recovery

LEMMA MigrationMoves ==
    ASSUME IInv, Legible, NEW p \in Procs, Migration(p)
    PROVE  MarkerMoves(p)
<1>t. pc \in [Procs -> Labels] /\ disk \in Directories
    BY DEF IInv, TypeOK
<1>f. \A e : (Unsynced(e) \/ Synced(e)) => disk' = e
    BY DEF Unsynced, Synced
<1>q. \A q \in Procs \ {p} : pc'[q] = pc[q]
    BY <1>t DEF Migration, Step, MakeTemp, MarkerOpen, MarkerWrite, MarkerSync, ExportBegin,
           ExportEnd, TempSync, SwapOut, SyncOut, SwapIn, SyncIn, VerifyActive, DropRollback,
           DropMarker, SyncDone, Handler, Goto, Prepared
<1>g. pc[p] \in LockedSteps
    BY DEF Migration, Step, MakeTemp, MarkerOpen, MarkerWrite, MarkerSync, ExportBegin, ExportEnd,
           TempSync, SwapOut, SyncOut, SwapIn, SyncIn, VerifyActive, DropRollback, DropMarker,
           SyncDone, Handler, LockedSteps, GuardedSteps, OtherSteps, At
<1> USE DEF At, Goto, Step
<1>1. CASE MarkerOpen(p) \/ MarkerWrite(p) \/ MarkerSync(p)
    <2>1. CASE MarkerOpen(p)
        BY <1>t, <1>q, <1>g, <2>1 DEF MarkerOpen, MarkerMoves, LegibleSteps
    <2>2. CASE MarkerWrite(p) \/ MarkerSync(p)
        <3>1. /\ disk'.marker # "torn" /\ pc'[p] \in {"markerSync", "export"}
              /\ pc[p] \in LegibleSteps \cup {"markerWrite"}
            BY <1>t, <1>f, <2>2 DEF Directories, MarkerWrite, MarkerSync, LegibleSteps, MarkerSteps
        <3>2. QED
            BY <1>q, <1>g, <3>1 DEF MarkerMoves
    <2>3. QED
        BY <1>1, <2>1, <2>2
<1>2. CASE DropMarker(p) \/ SyncDone(p)
    <2>1. CASE DropMarker(p)
        <3>1. disk'.marker = "none" /\ pc'[p] = "syncDone" /\ pc[p] \in LegibleSteps
            BY <1>t, <1>f, <2>1 DEF Directories, DropMarker, LegibleSteps, MarkerSteps
        <3>2. QED
            BY <1>q, <1>g, <3>1 DEF MarkerMoves
    <2>2. CASE SyncDone(p)
        <3>1. disk'.marker = disk.marker /\ pc'[p] = "schema"
            BY <1>t, <1>f, <2>2 DEF SyncDone, Prepared
        <3>2. QED
            BY <1>q, <1>g, <3>1 DEF MarkerMoves, LegibleSteps, MarkerSteps
    <2>3. QED
        BY <1>2, <2>1, <2>2
<1>3. CASE MakeTemp(p) \/ Handler(p)
    <2>1. /\ disk'.marker = disk.marker
          /\ pc'[p] \in {"markerOpen", "recover", "idle"}
        BY <1>3, <1>t, <1>f DEF Directories, MakeTemp, Handler, KeepDisk
    <2>2. QED
        BY <1>q, <1>g, <2>1 DEF MarkerMoves, LegibleSteps, MarkerSteps
<1>4. ASSUME \/ ExportBegin(p) \/ ExportEnd(p) \/ TempSync(p) \/ SwapOut(p) \/ SyncOut(p)
             \/ SwapIn(p) \/ SyncIn(p) \/ VerifyActive(p) \/ DropRollback(p)
      PROVE  MarkerMoves(p)
    <2>1. pc[p] \in LegibleSteps
        BY <1>4 DEF ExportBegin, ExportEnd, TempSync, SwapOut, SyncOut, SwapIn, SyncIn,
                    VerifyActive, DropRollback, LegibleSteps, MarkerSteps
    <2>2. disk.marker # "torn"
        BY <2>1 DEF Legible
    <2>3. disk'.marker = disk.marker
        <3>1. CASE ExportBegin(p) \/ ExportEnd(p)
            BY <1>t, <1>f, <3>1 DEF Directories, ExportBegin, ExportEnd
        <3>2. CASE TempSync(p)
            BY <1>t, <1>f, <3>2 DEF TempSync, Directories
        <3>3. CASE SwapOut(p) \/ SwapIn(p) \/ DropRollback(p)
            BY <1>t, <1>f, <3>3 DEF Directories, SwapOut, SwapIn, DropRollback
        <3>4. CASE SyncOut(p) \/ SyncIn(p) \/ VerifyActive(p)
            BY <1>f, <3>4 DEF SyncOut, SyncIn, VerifyActive, KeepDisk
        <3>5. QED
            BY <1>4, <3>1, <3>2, <3>3, <3>4
    <2>4. pc'[p] \notin {"markerWrite", "ready"}
        BY <1>4, <1>t DEF ExportBegin, ExportEnd, TempSync, SwapOut, SyncOut, SwapIn, SyncIn,
                    VerifyActive, DropRollback
    <2>5. QED
        BY <1>q, <1>g, <2>2, <2>3, <2>4 DEF MarkerMoves
<1>5. QED
    BY <1>1, <1>2, <1>3, <1>4 DEF Migration

LEMMA InstanceMoves ==
    ASSUME IInv, Legible, NEW p \in Procs,
           Run(p) \/ RecoverRestore(p) \/ Fault(p) \/ Kill(p) \/ Commit(p) \/ Quit(p)
    PROVE  MarkerMoves(p)
<1>t. pc \in [Procs -> Labels] /\ disk \in Directories
    BY DEF IInv, TypeOK
<1>f. \A e : (Unsynced(e) \/ Synced(e)) => disk' = e
    BY DEF Unsynced, Synced
<1>1. CASE \/ Start(p) \/ Acquire(p) \/ LockTimeout(p) \/ Quit(p)
           \/ Raise(p) \/ Fault(p) \/ Kill(p)
    <2>1. /\ disk'.marker = disk.marker
          /\ pc'[p] \in {"idle", "waiting", "recover", "handler"}
          /\ \A q \in Procs \ {p} : pc'[q] = pc[q]
        BY <1>1, <1>t DEF Start, Acquire, LockTimeout, Quit, Raise, Fault, Kill, RaiseFrom, Goto,
                        KeepDisk
    <2>2. QED
        BY <2>1 DEF MarkerMoves, LegibleSteps, MarkerSteps
<1>2. CASE Commit(p)
    <2>1. disk'.marker = disk.marker /\ pc' = pc /\ pc[p] = "ready"
        BY <1>2, <1>t, <1>f DEF Commit, At, Directories
    <2>2. QED
        BY <2>1 DEF MarkerMoves, LegibleSteps, MarkerSteps
<1>3. CASE Preparation(p)
    <2>1. /\ \A q \in Procs \ {p} : pc'[q] = pc[q]
          /\ pc'[p] \in {"secretSet", "keyGet", "keySet", "keyVerify", "create", "mktemp",
                         "schema", "ready"}
        <3>1. CASE KeyGet(p)
            BY <1>t, <3>1 DEF KeyGet, Goto
        <3>2. CASE ~KeyGet(p)
            BY <1>3, <1>t, <3>2 DEF Preparation, Classify, SecretSet, KeySet, KeyVerify, Create,
                              Initialized, Goto, Prepared
        <3>3. QED
            BY <3>1, <3>2
    <2>2. disk'.marker = disk.marker
        BY <1>3, <1>t, <1>f DEF Directories, Preparation, Classify, SecretSet, KeyGet, KeySet,
                            KeyVerify, Create, Initialized, KeepDisk
    <2>3. pc'[p] = "ready" => disk.marker = "none"
        <3>1. pc[p] = "schema" => disk.marker = "none"
            BY DEF IInv, StepInv
        <3>2. pc'[p] = "ready" => pc[p] = "schema"
            BY <1>3, <1>t DEF Preparation, Classify, SecretSet, KeyGet, KeySet, KeyVerify, Create,
                              Initialized, Goto, Prepared, At
        <3>3. QED
            BY <3>1, <3>2
    <2>4. QED
        BY <2>1, <2>2, <2>3 DEF MarkerMoves, LegibleSteps, MarkerSteps
<1>4. QED
    BY <1>1, <1>2, <1>3, RecoveryMoves, MigrationMoves DEF Run

LEMMA LegibleStep == IInv /\ Legible /\ [Next]_vars => Legible'
<1> SUFFICES ASSUME IInv, Legible, [Next]_vars PROVE Legible'
    OBVIOUS
<1>l. LegibleSteps \subseteq LockedSteps
    BY DEF LegibleSteps, MarkerSteps, LockedSteps, RecoverySteps, GuardedSteps, OtherSteps
<1>1. ASSUME NEW p \in Procs, MarkerMoves(p) PROVE Legible'
    <2>1. SUFFICES ASSUME NEW q \in Procs, pc'[q] \in LegibleSteps
                   PROVE  disk'.marker # "torn"
        BY DEF Legible, LegibleSteps, MarkerSteps
    <2>2. CASE q = p
        BY <1>1, <2>1, <2>2 DEF MarkerMoves
    <2>3. CASE q # p
        <3>1. pc[q] \in LegibleSteps /\ disk.marker # "torn"
            BY <1>1, <2>1, <2>3 DEF MarkerMoves, Legible
        <3>2. pc[p] \notin LockedSteps
            BY <1>l, <2>3, <3>1 DEF IInv, LockInv
        <3>3. QED
            BY <1>1, <3>1, <3>2 DEF MarkerMoves
    <2>4. QED
        BY <2>2, <2>3
<1>2. CASE PowerLoss
    BY <1>2 DEF PowerLoss, Legible, LegibleSteps, MarkerSteps
<1>3. CASE UNCHANGED <<pc, disk>>
    BY <1>3 DEF Legible, LegibleSteps, MarkerSteps
<1>4. QED
    BY <1>1, <1>2, <1>3, InstanceMoves DEF Next, HelperLate, KeepDisk, vars

\* A marker that a kill left incomplete stays until a loss of power undoes its
\* creation: no recovery and no conversion removes or repairs it, and no
\* instance opens the database any more (_recover_interrupted_migration).
THEOREM TornMarkerLocksOut ==
    Spec => [][TornForGood => PowerLoss \/ (TornForGood' /\ Opened' \subseteq Opened)]_vars
<1>1. Init => Legible
    BY DEF Init, Legible, LegibleSteps, MarkerSteps
<1>2. IInv /\ Legible /\ [Next]_vars =>
          [TornForGood => PowerLoss \/ (TornForGood' /\ Opened' \subseteq Opened)]_vars
    <2> SUFFICES ASSUME IInv, Legible, [Next]_vars, TornForGood, ~PowerLoss
                 PROVE  TornForGood' /\ Opened' \subseteq Opened
        OBVIOUS
    <2>1. ASSUME NEW p \in Procs, MarkerMoves(p)
          PROVE  TornForGood' /\ Opened' \subseteq Opened
        <3>1. pc[p] \notin LegibleSteps \cup {"markerOpen", "markerWrite"}
            BY DEF Legible, TornForGood, At, IInv, StepInv, NoMarkerSteps
        <3>2. disk'.marker = "torn"
            BY <2>1, <3>1 DEF MarkerMoves, TornForGood
        <3>3. \A q \in Procs : pc'[q] # "markerWrite"
            BY <2>1 DEF MarkerMoves, TornForGood, At
        <3>4. \A q \in Procs : pc'[q] = "ready" => pc[q] = "ready"
            BY <2>1 DEF MarkerMoves, TornForGood
        <3>5. QED
            BY <3>2, <3>3, <3>4 DEF TornForGood, Opened, At
    <2>2. CASE UNCHANGED <<pc, disk>>
        BY <2>2 DEF TornForGood, Opened, At
    <2>3. QED
        BY <2>1, <2>2, InstanceMoves DEF Next, HelperLate, KeepDisk, vars
<1>3. QED
    BY <1>1, <1>2, LegibleStep, Inductive, PTL DEF Spec

-----------------------------------------------------------------------------
(* What is left of a start *)

\* How many steps initialize() still takes at most.  A recovery counts twice:
\* one that the handler runs ends in its exception, the first one of a start
\* goes on to all the rest.
RecoveryLeft(l) == CASE l = "recoverSync" -> 1
                     [] l = "recoverMarker" -> 2
                     [] l = "recoverTemp" -> 3
                     [] l = "recoverVerify" -> 4
                     [] OTHER -> 5
StepsLeft(l) == CASE l = "handler" -> 6
                  [] l = "schema" -> 7
                  [] l = "syncDone" -> 8
                  [] l = "dropMarker" -> 9
                  [] l = "dropRollback" -> 10
                  [] l = "verify" -> 11
                  [] l = "syncIn" -> 12
                  [] l = "swapIn" -> 13
                  [] l = "syncOut" -> 14
                  [] l = "swapOut" -> 15
                  [] l = "tempSync" -> 16
                  [] l = "exporting" -> 17
                  [] l = "export" -> 18
                  [] l = "markerSync" -> 19
                  [] l = "markerWrite" -> 20
                  [] l = "markerOpen" -> 21
                  [] l \in {"mktemp", "create"} -> 22
                  [] l = "keyVerify" -> 23
                  [] l = "keySet" -> 24
                  [] l = "keyGet" -> 25
                  [] l = "secretSet" -> 26
                  [] l = "classify" -> 27
                  [] l = "waiting" -> 33
                  [] OTHER -> 0
LeftAt(l, r) == IF l \in RecoverySteps
                THEN RecoveryLeft(l) + (IF r = "raise" THEN 0 ELSE 27)
                ELSE StepsLeft(l)
Left(p) == LeftAt(pc[p], resume[p])

\* An instance under way to an open database: it has the lock and no exception.
Opening(p) == /\ pc[p] \in LockedSteps \ {"handler"}
              /\ pc[p] \in RecoverySteps => resume[p] = "classify"
Preparing(p) == pc[p] \in LockedSteps \cup {"waiting"}

LEMMA Counted ==
    /\ RecoveryLeft("recoverSync") = 1 /\ RecoveryLeft("recoverMarker") = 2
    /\ RecoveryLeft("recoverTemp") = 3 /\ RecoveryLeft("recoverVerify") = 4
    /\ RecoveryLeft("recover") = 5
    /\ StepsLeft("idle") = 0 /\ StepsLeft("ready") = 0 /\ StepsLeft("handler") = 6
    /\ StepsLeft("schema") = 7 /\ StepsLeft("syncDone") = 8 /\ StepsLeft("dropMarker") = 9
    /\ StepsLeft("dropRollback") = 10 /\ StepsLeft("verify") = 11 /\ StepsLeft("syncIn") = 12
    /\ StepsLeft("swapIn") = 13 /\ StepsLeft("syncOut") = 14 /\ StepsLeft("swapOut") = 15
    /\ StepsLeft("tempSync") = 16 /\ StepsLeft("exporting") = 17 /\ StepsLeft("export") = 18
    /\ StepsLeft("markerSync") = 19 /\ StepsLeft("markerWrite") = 20
    /\ StepsLeft("markerOpen") = 21 /\ StepsLeft("mktemp") = 22 /\ StepsLeft("create") = 22
    /\ StepsLeft("keyVerify") = 23 /\ StepsLeft("keySet") = 24 /\ StepsLeft("keyGet") = 25
    /\ StepsLeft("secretSet") = 26 /\ StepsLeft("classify") = 27 /\ StepsLeft("waiting") = 33
BY DEF RecoveryLeft, StepsLeft

LEMMA LeftIsNat == \A l \in Labels : \A r : LeftAt(l, r) \in Nat
<1>1. SUFFICES ASSUME NEW l \in Labels, NEW r PROVE LeftAt(l, r) \in Nat
    OBVIOUS
<1>2. CASE l \in RecoverySteps
    <2>1. RecoveryLeft(l) \in 1..5
        BY <1>2, Counted DEF RecoverySteps
    <2>2. QED
        BY <1>2, <2>1 DEF LeftAt
<1>3. CASE l \notin RecoverySteps
    <2>1. StepsLeft(l) \in Nat
        BY <1>3, Counted DEF Labels, LockedSteps, GuardedSteps, OtherSteps
    <2>2. QED
        BY <1>3, <2>1 DEF LeftAt
<1>4. QED
    BY <1>2, <1>3

\* What one step of an instance does to what is left of the starts.
Onward(p) == /\ \A q \in Procs \ {p} : pc'[q] = pc[q] /\ resume'[q] = resume[q]
             /\ Preparing(p) => Left(p)' < Left(p)
             /\ Opening(p) => Opening(p)' \/ pc'[p] = "ready"

\* From its label an instance comes to a label with less to do.
LEMMA LabelsAhead ==
    ASSUME TypeOK, NEW p \in Procs, NEW l \in Labels, pc' = [pc EXCEPT ![p] = l],
           resume' = resume, l \notin RecoverySteps, StepsLeft(l) < Left(p),
           Opening(p) => l \in (LockedSteps \ {"handler"}) \cup {"ready"}
    PROVE  Onward(p)
<1>1. pc \in [Procs -> Labels] /\ resume \in [Procs -> {"classify", "raise"}]
    BY DEF TypeOK
<1>2. pc'[p] = l /\ Left(p)' = StepsLeft(l)
    BY <1>1 DEF Left, LeftAt
<1>3. QED
    BY <1>1, <1>2 DEF Onward, Opening

LEMMA RecoveryOnward ==
    ASSUME TypeOK, NEW p \in Procs, Recovery(p) \/ RecoverRestore(p)
    PROVE  Onward(p)
<1>t. pc \in [Procs -> Labels] /\ resume \in [Procs -> {"classify", "raise"}]
    BY DEF TypeOK
<1>1. /\ resume' = resume
      /\ \E l \in {"recoverVerify", "recoverTemp", "recoverMarker", "recoverSync",
                   "idle", "classify"} :
            /\ pc' = [pc EXCEPT ![p] = l]
            /\ pc[p] = "recover" =>
                  \/ l \in {"recoverVerify", "recoverTemp"}
                  \/ l = "idle" /\ resume[p] = "raise"
                  \/ l = "classify" /\ resume[p] = "classify"
            /\ pc[p] = "recoverVerify" => l = "recoverTemp"
            /\ pc[p] = "recoverTemp" => l = "recoverMarker"
            /\ pc[p] = "recoverMarker" => l = "recoverSync"
            /\ pc[p] = "recoverSync" =>
                  \/ l = "idle" /\ resume[p] = "raise"
                  \/ l = "classify" /\ resume[p] = "classify"
            /\ pc[p] \in RecoverySteps
    <2>1. CASE Recover(p)
        BY <2>1, <1>t DEF Recover, At, Goto, KeepLocals, RecoverySteps
    <2>2. CASE RecoverKeep(p) \/ RecoverRestore(p)
        BY <2>2 DEF RecoverKeep, RecoverRestore, At, Goto, KeepLocals, RecoverySteps
    <2>3. CASE RecoverTemp(p) \/ RecoverMarker(p)
        BY <2>3 DEF RecoverTemp, RecoverMarker, At, Goto, KeepLocals, RecoverySteps
    <2>4. CASE RecoverSync(p)
        BY <2>4, <1>t DEF RecoverSync, At, Goto, KeepLocals, RecoverySteps
    <2>5. QED
        BY <2>1, <2>2, <2>3, <2>4 DEF Recovery
<1>2. PICK l \in {"recoverVerify", "recoverTemp", "recoverMarker", "recoverSync",
                  "idle", "classify"} : pc' = [pc EXCEPT ![p] = l]
    BY <1>1
<1>3. pc'[p] = l /\ \A q \in Procs \ {p} : pc'[q] = pc[q] /\ resume'[q] = resume[q]
    BY <1>1, <1>2, <1>t
<1>4. /\ pc[p] = "recover" => \/ l \in {"recoverVerify", "recoverTemp"}
                              \/ l = "idle" /\ resume[p] = "raise"
                              \/ l = "classify" /\ resume[p] = "classify"
      /\ pc[p] = "recoverVerify" => l = "recoverTemp"
      /\ pc[p] = "recoverTemp" => l = "recoverMarker"
      /\ pc[p] = "recoverMarker" => l = "recoverSync"
      /\ pc[p] = "recoverSync" => \/ l = "idle" /\ resume[p] = "raise"
                                  \/ l = "classify" /\ resume[p] = "classify"
      /\ pc[p] \in {"recover", "recoverVerify", "recoverTemp", "recoverMarker", "recoverSync"}
    BY <1>1, <1>3, <1>t DEF RecoverySteps
<1>5. Left(p)' < Left(p)
    BY <1>1, <1>3, <1>4, Counted DEF Left, LeftAt, RecoverySteps
<1>6. Opening(p) => Opening(p)'
    BY <1>1, <1>3, <1>4 DEF Opening, RecoverySteps, LockedSteps, OtherSteps
<1>7. QED
    BY <1>3, <1>5, <1>6 DEF Onward

LEMMA PreparationOnward ==
    ASSUME TypeOK, NEW p \in Procs, Preparation(p)
    PROVE  Onward(p)
<1>1. \E l \in Labels :
        /\ pc' = [pc EXCEPT ![p] = l] /\ resume' = resume
        /\ \/ pc[p] = "classify" /\ l \in {"secretSet", "keyGet", "schema"}
           \/ pc[p] = "secretSet" /\ l = "keyGet"
           \/ pc[p] = "keyGet" /\ l \in {"keySet", "keyVerify", "create"}
           \/ pc[p] = "keySet" /\ l = "keyVerify"
           \/ pc[p] = "keyVerify" /\ l \in {"mktemp", "create"}
           \/ pc[p] = "create" /\ l = "schema"
           \/ pc[p] = "schema" /\ l = "ready"
    <2> USE DEF At, Goto, KeepLocals, Labels, LockedSteps, OtherSteps
    <2>1. CASE Classify(p)
        BY <2>1 DEF Classify, Prepared
    <2>2. CASE SecretSet(p) \/ KeySet(p)
        BY <2>2 DEF SecretSet, KeySet
    <2>3. CASE KeyGet(p)
        BY <2>3 DEF KeyGet
    <2>4. CASE KeyVerify(p)
        BY <2>4 DEF KeyVerify
    <2>5. CASE Create(p) \/ Initialized(p)
        BY <2>5 DEF Create, Initialized, Prepared
    <2>6. QED
        BY <2>1, <2>2, <2>3, <2>4, <2>5 DEF Preparation
<1>2. PICK l \in Labels :
        /\ pc' = [pc EXCEPT ![p] = l] /\ resume' = resume
        /\ \/ pc[p] = "classify" /\ l \in {"secretSet", "keyGet", "schema"}
           \/ pc[p] = "secretSet" /\ l = "keyGet"
           \/ pc[p] = "keyGet" /\ l \in {"keySet", "keyVerify", "create"}
           \/ pc[p] = "keySet" /\ l = "keyVerify"
           \/ pc[p] = "keyVerify" /\ l \in {"mktemp", "create"}
           \/ pc[p] = "create" /\ l = "schema"
           \/ pc[p] = "schema" /\ l = "ready"
    BY <1>1
<1>3. l \notin RecoverySteps /\ StepsLeft(l) < Left(p)
    BY <1>2, Counted DEF Left, LeftAt, RecoverySteps
<1>4. l \in (LockedSteps \ {"handler"}) \cup {"ready"}
    BY <1>2 DEF LockedSteps, OtherSteps
<1>5. QED
    BY <1>2, <1>3, <1>4, LabelsAhead

LEMMA MigrationOnward ==
    ASSUME TypeOK, NEW p \in Procs, Migration(p)
    PROVE  Onward(p)
<1>t. pc \in [Procs -> Labels] /\ resume \in [Procs -> {"classify", "raise"}]
    BY DEF TypeOK
<1>1. CASE Handler(p)
    <2>1. pc[p] = "handler" /\ \A q \in Procs \ {p} : pc'[q] = pc[q] /\ resume'[q] = resume[q]
        BY <1>1, <1>t DEF Handler, At, Goto
    <2>2. (pc'[p] = "recover" /\ resume'[p] = "raise") \/ pc'[p] = "idle"
        BY <1>1, <1>t DEF Handler, Goto
    <2>3. Left(p)' < Left(p)
        BY <2>1, <2>2, Counted DEF Left, LeftAt, RecoverySteps
    <2>4. ~Opening(p)
        BY <2>1 DEF Opening
    <2>5. QED
        BY <2>1, <2>3, <2>4 DEF Onward
<1>2. CASE ~Handler(p)
    <2> DEFINE Moves(l) ==
            \/ pc[p] = "mktemp" /\ l = "markerOpen"
            \/ pc[p] = "markerOpen" /\ l = "markerWrite"
            \/ pc[p] = "markerWrite" /\ l = "markerSync"
            \/ pc[p] = "markerSync" /\ l = "export"
            \/ pc[p] = "export" /\ l = "exporting"
            \/ pc[p] = "exporting" /\ l = "tempSync"
            \/ pc[p] = "tempSync" /\ l = "swapOut"
            \/ pc[p] = "swapOut" /\ l = "syncOut"
            \/ pc[p] = "syncOut" /\ l = "swapIn"
            \/ pc[p] = "swapIn" /\ l = "syncIn"
            \/ pc[p] = "syncIn" /\ l = "verify"
            \/ pc[p] = "verify" /\ l = "dropRollback"
            \/ pc[p] = "dropRollback" /\ l = "dropMarker"
            \/ pc[p] = "dropMarker" /\ l = "syncDone"
            \/ pc[p] = "syncDone" /\ l = "schema"
    <2>1. \E l \in Labels : pc' = [pc EXCEPT ![p] = l] /\ resume' = resume /\ Moves(l)
        <3> USE DEF Step, At, Goto, KeepLocals, Labels, LockedSteps, GuardedSteps, OtherSteps
        <3>1. CASE MakeTemp(p) \/ MarkerOpen(p) \/ MarkerWrite(p) \/ MarkerSync(p) \/ ExportBegin(p)
            BY <3>1 DEF MakeTemp, MarkerOpen, MarkerWrite, MarkerSync, ExportBegin
        <3>2. CASE ExportEnd(p) \/ TempSync(p) \/ SwapOut(p) \/ SyncOut(p) \/ SwapIn(p)
            BY <3>2 DEF ExportEnd, TempSync, SwapOut, SyncOut, SwapIn
        <3>3. CASE SyncIn(p) \/ VerifyActive(p) \/ DropRollback(p) \/ DropMarker(p) \/ SyncDone(p)
            BY <3>3 DEF SyncIn, VerifyActive, DropRollback, DropMarker, SyncDone, Prepared
        <3>4. QED
            BY <1>2, <3>1, <3>2, <3>3 DEF Migration
    <2>2. PICK l \in Labels : pc' = [pc EXCEPT ![p] = l] /\ resume' = resume /\ Moves(l)
        BY <2>1
    <2>3. l \notin RecoverySteps /\ StepsLeft(l) < Left(p)
        BY <2>2, Counted DEF Left, LeftAt, RecoverySteps
    <2>4. l \in LockedSteps \ {"handler"}
        BY <2>2 DEF LockedSteps, GuardedSteps, OtherSteps
    <2>5. QED
        BY <2>2, <2>3, <2>4, LabelsAhead
<1>3. QED
    BY <1>1, <1>2

\* An exception, or the end of the process, leaves less to do.
LEMMA ErrorOnward ==
    ASSUME TypeOK, NEW p \in Procs, Raise(p) \/ Fault(p) \/ Kill(p)
    PROVE  /\ \A q \in Procs \ {p} : pc'[q] = pc[q] /\ resume'[q] = resume[q]
           /\ Preparing(p) => Left(p)' < Left(p)
<1>t. pc \in [Procs -> Labels] /\ resume \in [Procs -> {"classify", "raise"}]
    BY DEF TypeOK
<1>1. /\ resume' = resume
      /\ \/ pc[p] \in GuardedSteps /\ pc' = [pc EXCEPT ![p] = "handler"]
         \/ pc' = [pc EXCEPT ![p] = "idle"]
    BY DEF Raise, Fault, Kill, RaiseFrom, Goto, KeepLocals
<1>2. /\ \A q \in Procs \ {p} : pc'[q] = pc[q] /\ resume'[q] = resume[q]
      /\ pc'[p] = "idle" \/ (pc[p] \in GuardedSteps /\ pc'[p] = "handler")
    BY <1>1, <1>t
<1>3. ASSUME Preparing(p) PROVE Left(p)' < Left(p)
    <2>1. CASE pc[p] \in GuardedSteps
        <3>1. pc'[p] \notin RecoverySteps /\ StepsLeft(pc'[p]) <= 6
            BY <1>2, Counted DEF RecoverySteps
        <3>2. StepsLeft(pc'[p]) \in {0, 6}
            BY <1>2, Counted
        <3>3. pc[p] \notin RecoverySteps /\ StepsLeft(pc[p]) \in 8..21
            BY <2>1, Counted DEF GuardedSteps, RecoverySteps
        <3>4. Left(p)' = StepsLeft(pc'[p]) /\ Left(p) = StepsLeft(pc[p])
            BY <3>1, <3>3 DEF Left, LeftAt
        <3>5. QED
            BY <3>2, <3>3, <3>4
    <2>2. CASE pc[p] \notin GuardedSteps
        <3>1. Left(p)' = 0
            BY <1>2, <2>2, Counted DEF Left, LeftAt, RecoverySteps
        <3>2. CASE pc[p] \in RecoverySteps
            <4>1. RecoveryLeft(pc[p]) \in 1..5
                BY <3>2, Counted DEF RecoverySteps
            <4>2. QED
                BY <3>1, <3>2, <4>1 DEF Left, LeftAt
        <3>3. CASE pc[p] \notin RecoverySteps
            <4>1. StepsLeft(pc[p]) \in 6..33
                BY <1>3, <2>2, <3>3, Counted DEF Preparing, LockedSteps, OtherSteps
            <4>2. QED
                BY <3>1, <3>3, <4>1 DEF Left, LeftAt
        <3>4. QED
            BY <3>2, <3>3
    <2>3. QED
        BY <2>1, <2>2
<1>4. QED
    BY <1>2, <1>3

\* Start, the lock, and the refusals complete a run of the code.
LEMMA RunOnward ==
    ASSUME IInv, OnlyTornRefuses, NEW p \in Procs, Run(p)
    PROVE  /\ \A q \in Procs \ {p} : pc'[q] = pc[q] /\ resume'[q] = resume[q]
           /\ Preparing(p) => Left(p)' < Left(p)
           /\ Opening(p) => \/ Opening(p)' \/ pc'[p] = "ready"
                            \/ pc[p] = "recover" /\ disk.marker = "torn"
<1>t. TypeOK /\ pc \in [Procs -> Labels] /\ resume \in [Procs -> {"classify", "raise"}]
    BY DEF IInv, TypeOK
<1>1. CASE Start(p) \/ Acquire(p) \/ LockTimeout(p)
    <2>1. ~Opening(p) /\ (Preparing(p) => pc[p] = "waiting")
        BY <1>1 DEF Start, Acquire, LockTimeout, At, Opening, Preparing, LockedSteps,
                    RecoverySteps, GuardedSteps, OtherSteps
    <2>2. CASE Start(p)
        <3>1. pc[p] = "idle" /\ pc' = [pc EXCEPT ![p] = "waiting"] /\ resume' = resume
            BY <2>2 DEF Start, At, Goto, KeepLocals
        <3>2. QED
            BY <1>t, <2>1, <3>1
    <2>3. CASE Acquire(p)
        <3>1. /\ pc[p] = "waiting" /\ pc'[p] = "recover" /\ resume'[p] = "classify"
              /\ \A q \in Procs \ {p} : pc'[q] = pc[q] /\ resume'[q] = resume[q]
            BY <1>t, <2>3 DEF Acquire, At, Goto
        <3>2. Left(p)' = 32 /\ Left(p) = 33
            BY <3>1, Counted DEF Left, LeftAt, RecoverySteps
        <3>3. QED
            BY <2>1, <3>1, <3>2
    <2>4. CASE LockTimeout(p)
        <3>1. /\ pc[p] = "waiting" /\ pc'[p] = "idle"
              /\ \A q \in Procs \ {p} : pc'[q] = pc[q] /\ resume'[q] = resume[q]
            BY <1>t, <2>4 DEF LockTimeout, At, Goto, KeepLocals
        <3>2. Left(p)' = 0 /\ Left(p) = 33
            BY <3>1, Counted DEF Left, LeftAt, RecoverySteps
        <3>3. QED
            BY <2>1, <3>1, <3>2
    <2>5. QED
        BY <1>1, <2>2, <2>3, <2>4
<1>2. CASE Recovery(p) \/ Preparation(p) \/ Migration(p)
    BY <1>2, <1>t, RecoveryOnward, PreparationOnward, MigrationOnward DEF Onward
<1>3. CASE Raise(p)
    <2>1. pc[p] = "recover" /\ disk.marker = "torn"
        BY <1>3 DEF Raise, OnlyTornRefuses, At
    <2>2. QED
        BY <1>3, <1>t, <2>1, ErrorOnward
<1>4. QED
    BY <1>1, <1>2, <1>3 DEF Run

\* A start goes in no circles, whatever faults and other instances do: each of
\* its steps leaves less of it, and nothing makes it longer.  Undisturbed it
\* keeps the lock and comes, within those steps, to an open database, or it met
\* an incomplete marker (Database.initialize, _prepare_storage,
\* _migrate_plaintext_database and its handler).
THEOREM StartsComeCloser ==
    Spec => [][\A p \in Procs :
                  /\ Preparing(p) => Left(p)' <= Left(p)
                  /\ Preparing(p) /\ Run(p) => Left(p)' < Left(p)
                  /\ Opening(p) /\ Run(p) =>
                        \/ Opening(p)' \/ At(p, "ready")'
                        \/ At(p, "recover") /\ disk.marker = "torn"]_vars
<1> DEFINE Closer(p) ==
        /\ Preparing(p) => Left(p)' <= Left(p)
        /\ Preparing(p) /\ Run(p) => Left(p)' < Left(p)
        /\ Opening(p) /\ Run(p) =>
              \/ Opening(p)' \/ At(p, "ready")'
              \/ At(p, "recover") /\ disk.marker = "torn"
<1>1. IInv /\ OnlyTornRefuses /\ [Next]_vars => [\A p \in Procs : Closer(p)]_vars
    <2>1. SUFFICES ASSUME IInv, OnlyTornRefuses, Next, NEW p \in Procs PROVE Closer(p)
        OBVIOUS
    <2>t. TypeOK /\ pc \in [Procs -> Labels]
        BY <2>1 DEF IInv, TypeOK
    <2>2. /\ Run(p) /\ Preparing(p) => Left(p)' < Left(p)
          /\ Opening(p) /\ Run(p) =>
                \/ Opening(p)' \/ At(p, "ready")'
                \/ At(p, "recover") /\ disk.marker = "torn"
        BY <2>1, RunOnward DEF At
    <2>3. Left(p) \in Nat /\ Left(p)' \in Nat
        <3>1. TypeOK'
            BY <2>1, <2>t, TypeStep
        <3>2. pc[p] \in Labels /\ pc'[p] \in Labels
            BY <2>t, <3>1 DEF TypeOK
        <3>3. QED
            BY <3>2, LeftIsNat DEF Left
    <2>4. ASSUME Preparing(p) PROVE Left(p)' <= Left(p)
        <3>1. ASSUME NEW r \in Procs, \/ Run(r) \/ RecoverRestore(r) \/ Fault(r) \/ Kill(r)
              PROVE  Left(p)' = Left(p) \/ Left(p)' < Left(p)
            <4>1. /\ \A q \in Procs \ {r} : pc'[q] = pc[q] /\ resume'[q] = resume[q]
                  /\ Preparing(r) => Left(r)' < Left(r)
                BY <2>1, <2>t, <3>1, RunOnward, RecoveryOnward, ErrorOnward DEF Onward
            <4>2. CASE r = p
                BY <2>4, <4>1, <4>2
            <4>3. CASE r # p
                BY <4>1, <4>3 DEF Left, LeftAt
            <4>4. QED
                BY <4>2, <4>3
        <3>2. ASSUME NEW r \in Procs, Commit(r) PROVE Left(p)' = Left(p)
            BY <3>2 DEF Commit, KeepLocals, Left
        <3>3. ASSUME NEW r \in Procs, Quit(r) PROVE Left(p)' = Left(p)
            <4>1. p # r
                BY <2>4, <3>3 DEF Quit, At, Preparing, LockedSteps, RecoverySteps, GuardedSteps,
                              OtherSteps
            <4>2. pc'[p] = pc[p] /\ resume' = resume
                BY <2>t, <3>3, <4>1 DEF Quit, Goto, KeepLocals
            <4>3. QED
                BY <4>2 DEF Left, LeftAt
        <3>4. ASSUME NEW k \in Keys, HelperLate(k) PROVE Left(p)' = Left(p)
            BY <3>4 DEF HelperLate, KeepLocals, Left
        <3>5. CASE PowerLoss
            <4>1. pc'[p] = "idle"
                BY <3>5 DEF PowerLoss
            <4>2. Left(p)' = 0
                BY <4>1, Counted DEF Left, LeftAt, RecoverySteps
            <4>3. QED
                BY <2>3, <4>2
        <3>6. Left(p)' = Left(p) \/ Left(p)' < Left(p) \/ Left(p)' <= Left(p)
            BY <2>1, <3>1, <3>2, <3>3, <3>4, <3>5 DEF Next
        <3>7. QED
            BY <2>3, <3>6
    <2>5. QED
        BY <2>2, <2>4
<1>2. IInv /\ RecoveryDefined => IInv /\ OnlyTornRefuses
    BY DEF RecoveryDefined
<1>3. QED
    BY <1>1, <1>2, Inductive, RecoveryIsDefined, PTL DEF Spec
=============================================================================
