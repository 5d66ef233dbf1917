---------------------------- MODULE StableDomain ----------------------------
(***************************************************************************)
(* Which nodes a pod can stably run on (internal/spread/domain.go) and the *)
(* keys under which pods are counted (internal/spread/keys.go).            *)
(*                                                                         *)
(* A pod spec has a nodeSelector (a partial function from label keys to    *)
(* values), a required node affinity (NoAffinity or a list of terms, each  *)
(* with matchExpressions and matchFields) and tolerations.  A label value  *)
(* is a member of Value; the text of the integers among them is in         *)
(* Decimal.                                                                *)
(***************************************************************************)
EXTENDS Integers, Sequences, FiniteSets, Functions

CONSTANTS
  Value,       \* label values and node names
  EmptyValue,  \* the empty string
  Decimal,     \* the values that are a decimal integer, with the integer
  FieldName,   \* the key metadata.name
  NoAffinity,  \* no required node affinity
  Half64       \* 2^63, half the number of int64 values

ASSUME DomainAssumption ==
  /\ EmptyValue \in Value \ DOMAIN Decimal /\ DOMAIN Decimal \subseteq Value
  /\ Half64 \in Nat \ {0}

\* Two's complement integers: half of the values are negative.
Wrapped(n, half) == ((n + half) % (2 * half)) - half

\* atoi64: digit by digit, so that a number too large wraps around.
IsNumber(v) == v \in DOMAIN Decimal
atoi64(v) == Wrapped(Decimal[v], Half64)

\* Mutant: NotIn asks for the label, Gt and Lt are not known.
requirementHoldsIfPresent(r, value) ==
  LET given == Range(r.values) IN
  CASE r.op = "In" -> value # EmptyValue /\ value \in given
    [] r.op = "NotIn" -> value # EmptyValue /\ value \notin given
    [] r.op = "Exists" -> value # EmptyValue
    [] r.op = "DoesNotExist" -> value = EmptyValue
    [] OTHER -> FALSE

\* An absent key reads as the empty value.
requirementHolds(r, value) ==
  LET present == value # EmptyValue
      given == Range(r.values)
      numeric == present /\ Len(r.values) = 1 /\ IsNumber(value) /\ IsNumber(r.values[1]) IN
  CASE r.op = "In" -> present /\ value \in given
    [] r.op = "NotIn" -> value \notin given
    [] r.op = "Exists" -> present
    [] r.op = "DoesNotExist" -> ~present
    [] r.op = "Gt" -> numeric /\ atoi64(value) > atoi64(r.values[1])
    [] r.op = "Lt" -> numeric /\ atoi64(value) < atoi64(r.values[1])
    [] OTHER -> FALSE

Get(labels, key) == IF key \in DOMAIN labels THEN labels[key] ELSE EmptyValue

\* All requirements of a term; none at all is no obstacle.
matchNodeSelectorTerm(term, node) ==
  /\ \A i \in DOMAIN term.exprs :
       requirementHolds(term.exprs[i], Get(node.labels, term.exprs[i].key))
  /\ \A i \in DOMAIN term.fields :
       requirementHolds(term.fields[i],
                        IF term.fields[i].key = FieldName THEN node.name ELSE EmptyValue)

\* The selector, and one of the terms if an affinity is given.
matchesNodeSelector(pod, node) ==
  /\ \A k \in DOMAIN pod.selector : Get(node.labels, k) = pod.selector[k]
  /\ pod.affinity # NoAffinity =>
       \E i \in DOMAIN pod.affinity : matchNodeSelectorTerm(pod.affinity[i], node)

\* ToleratesTaint of the scheduling helpers.
Tolerates(t, taint) ==
  /\ t.effect \in {EmptyValue, taint.effect}
  /\ t.key \in {EmptyValue, taint.key}
  /\ t.op = "Exists" \/ t.value = taint.value

\* Ready, schedulable, selected, and every hard taint tolerated.
nodeInStableDomain(pod, node) ==
  /\ node.ready /\ ~node.cordoned
  /\ matchesNodeSelector(pod, node)
  /\ \A taint \in node.taints : taint.effect \in {"NoSchedule", "NoExecute"} =>
       \E i \in DOMAIN pod.tolerations : Tolerates(pod.tolerations[i], taint)

computeStableDomain(pod, nodes) == {n.name : n \in {m \in nodes : nodeInStableDomain(pod, m)}}
-----------------------------------------------------------------------------
\* A list that is sorted before it is written out stands for its bag: what is
\* in it, and how often.
BagOf(s) == [x \in Range(s) |-> Cardinality({i \in DOMAIN s : s[i] = x})]

normRequirement(r) == [key |-> r.key, op |-> r.op, values |-> BagOf(r.values)]

\* Mutant: expressions are left out of the hash.
normTermFieldsOnly(term) == BagOf([i \in DOMAIN term.fields |-> normRequirement(term.fields[i])])

\* matchExpressions and matchFields go into one list.
normTerm(term) ==
  LET reqs == term.exprs \o term.fields IN
  BagOf([i \in DOMAIN reqs |-> normRequirement(reqs[i])])

\* DomainHash; 48 bits of SHA-256 are taken to be injective.  A toleration's
\* seconds, which only split keys further, are left out.
DomainHash(pod) ==
  [selector |-> pod.selector,
   affinity |-> IF pod.affinity = NoAffinity THEN NoAffinity
                ELSE BagOf([i \in DOMAIN pod.affinity |-> normTerm(pod.affinity[i])]),
   tolerations |-> BagOf(pod.tolerations)]

\* Scheduler name and label key are the process's own, and neither a namespace
\* nor a label value contains a slash or an equals sign, so the text of a key
\* determines its service.
QuotaKeyOf(service) == <<"quota", service>>
SchedKeyOf(service, hash) == <<QuotaKeyOf(service), hash>>
=============================================================================
