---------------------------- MODULE MCRTRService -----------------------------
(***************************************************************************)
(* Instances of RTRService for TLC: settings records and symmetry.         *)
(***************************************************************************)
EXTENDS RTRService, TLC

\* One set of constructor arguments, open to every router.
OneSetting == {[port |-> 1, session |-> 1, whitelist |-> {}, mtls |-> FALSE]}

\* The administrator may also move the port, change the session id and restrict
\* the whitelist, or turn mTLS on.
SomeSettings == OneSetting \union
  {[port |-> 2, session |-> 2, whitelist |-> {}, mtls |-> FALSE],
   [port |-> 1, session |-> 1, whitelist |-> {}, mtls |-> TRUE]}

UpdateKinds == {"start", "update", "rollback"}
LifecycleKinds == {"start", "stop", "delete"}
RestartKinds == {"start", "stop", "update"}

Symmetry == Permutations(Ops) \union Permutations(Engines) \union Permutations(Routers)
=============================================================================
