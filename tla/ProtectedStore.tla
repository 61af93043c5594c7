--------------------------- MODULE ProtectedStore ---------------------------
(***************************************************************************)
(* What the protected database promises its users, without files, markers  *)
(* or renames: `rows` committed rows are never lost, an open store is an   *)
(* encrypted one, and its form on disk is only ever converted while no     *)
(* instance has it open.                                                   *)
(***************************************************************************)
EXTENDS Naturals

CONSTANT Procs            \* the application instances that may run

VARIABLES rows,           \* number of committed rows a reader would find
          form,           \* "absent", "plain" (legacy SQLite) or "cipher"
          opened          \* the instances whose Database is prepared

storeVars == <<rows, form, opened>>

Forms == {"absent", "plain", "cipher"}

StoreInit == rows \in Nat /\ form \in Forms /\ opened = {}

\* First start, conversion to SQLCipher, or its undoing by a recovery.
Convert == /\ opened = {}
           /\ form' \in {"plain", "cipher"}
           /\ UNCHANGED <<rows, opened>>

Open(p) == /\ form = "cipher"
           /\ opened' = opened \cup {p}
           /\ UNCHANGED <<rows, form>>

\* A transaction of an open instance commits.
Append1(p) == /\ p \in opened
              /\ rows' = rows + 1
              /\ UNCHANGED <<form, opened>>

\* Instances quit or are killed.
Leave(P) == /\ opened' = opened \ P
            /\ UNCHANGED <<rows, form>>

\* The machine loses power: unsynced directory changes may be undone.
Outage == /\ opened' = {}
          /\ form' \in Forms
          /\ UNCHANGED rows

StoreNext == \/ Convert
             \/ \E p \in Procs : Open(p) \/ Append1(p)
             \/ \E P \in SUBSET Procs : Leave(P)
             \/ Outage

StoreSpec == StoreInit /\ [][StoreNext]_storeVars
=============================================================================
