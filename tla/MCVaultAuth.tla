----------------------------- MODULE MCVaultAuth -----------------------------
(* Instances of VaultAuth for TLC: the chains that the two EnvAuthMethods     *)
(* build from AppRole (which vaultauth's leaves out if it is not configured), *)
(* GitHub, userpass and token.                                                *)
EXTENDS VaultAuth

Composite == [kind |-> "composite", chain |-> <<"nil", "login", "login", "token">>]
Deprecated == [kind |-> "legacy", chain |-> <<"login", "login", "token">>]

EveryMethod   == {Composite, Deprecated}
OnlyComposite == {Composite}
=============================================================================
