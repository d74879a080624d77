------------------------------ MODULE MCVaultFS ------------------------------
(* Instances of VaultFS for TLC: who authenticates how.                      *)
EXTENDS VaultFS

CONSTANTS f1, f2, c1, c2, p1, p2,
          env,     \* a vaultauth.EnvAuthMethod
          oldEnv   \* a deprecated vaultfs.EnvAuthMethod

AllLogin      == [f \in Files |-> "login"]
LoginOrToken  == [f \in Files |-> IF f = f1 THEN "token" ELSE "login"]
LoginOrOldEnv == [f \in Files |-> IF f = f2 THEN oldEnv ELSE "login"]
LoginOrEnv    == [f \in Files |-> IF f = f2 THEN env ELSE "login"]
LegacyOrEnv   == [f \in Files |-> IF f = f1 THEN "legacyLogin" ELSE env]
=============================================================================
