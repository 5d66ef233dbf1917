------------------------- MODULE MCPolicyAdmission -------------------------
(* Two clients, two webhook replicas, two label keys and drafts that break *)
(* each rule of ValidatePolicy once.                                       *)
EXTENDS PolicyAdmission

CONSTANTS c1, c2, w1, w2, k1, k2, sA, sB, va, vb, vEmpty

Draftof(name, key, value) ==
  [name |-> name, sched |-> sA, labels |-> [k \in {key} |-> value],
   exprs |-> FALSE, limits |-> TRUE]
Named(key, value) == Draftof(ExpectedPolicyName(sA, key, value), key, value)
Misnamed == Draftof(<<"other", 1>>, k1, va)

Drafts ==
  {Named(k1, va), Named(k2, va), Misnamed, Draftof(<<"other", 2>>, k1, vEmpty),
   [Named(k1, va) EXCEPT !.limits = FALSE],
   [Named(k1, vb) EXCEPT !.labels = [k \in {k1, k2} |-> vb]],
   [Named(k1, vb) EXCEPT !.exprs = TRUE],
   [Named(k1, va) EXCEPT !.sched = sB]}

\* A stray policy for va, and one that has the name of another's service.
Rogues == {Misnamed, Draftof(ExpectedPolicyName(sA, k1, vb), k1, va)}

ConfigMaps ==
  {NoConfigMap, [key |-> k1, sched |-> Unset], [key |-> k2, sched |-> sA],
   [key |-> Unset, sched |-> sA]}
=============================================================================
