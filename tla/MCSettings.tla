----------------------------- MODULE MCSettings -----------------------------
(* TLC instances of Settings: two accounts, each with a secret of its own. *)
EXTENDS Settings

CONSTANTS i1, a1, a2, s1, s2

OneInstance == {i1}
Accounts == {a1, a2}
ClientSecrets == {s1, s2}
OwnSecret == {<<a1, s1>>, <<a2, s2>>}
=============================================================================
