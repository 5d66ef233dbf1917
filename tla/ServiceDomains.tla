--------------------------- MODULE ServiceDomains ---------------------------
(***************************************************************************)
(* Pods of services and nodes come, change and go, and the plugin keys the *)
(* pods (PodRefFor) and finds their stable domains.  Pods that share a     *)
(* scheduling key are balanced against each other by maxSkew, over the     *)
(* domain of whichever of them is being scheduled: this module asks        *)
(* whether they have the same one, and whether a domain is what the native *)
(* NodeAffinity filter of kube-scheduler would allow.                      *)
(***************************************************************************)
EXTENDS StableDomain, FiniteSets

CONSTANTS
  Slot,       \* places for pods
  PodState,   \* pods: service label (or Unlabelled) and spec
  NodeState,  \* nodes: name, labels, taints and conditions
  Unlabelled, NoPod, NoRef,
  MaxNodes    \* bound on the nodes at a time

VARIABLES
  nodes,  \* the nodes in the lister
  pods,   \* pods[i]: the pod at slot i
  ref     \* ref[i]: its keys

domainVars == <<nodes, pods, ref>>
-----------------------------------------------------------------------------
\* Mutant: a pod without the service label gets keys too.
PodRefForAny(pod) == SchedKeyOf(pod.service, DomainHash(pod))

\* PodRefFor: a pod without the service label has no keys.
PodRefFor(pod) ==
  IF pod.service = Unlabelled THEN NoRef ELSE SchedKeyOf(pod.service, DomainHash(pod))

\* Specs as the API server validates them: known operators, one value for Gt and
\* Lt, and fields that are compared with metadata.name by In or NotIn.
RequirementOK(r) ==
  /\ r.op \in {"In", "NotIn", "Exists", "DoesNotExist", "Gt", "Lt"}
  /\ r.values \in Seq(Value)
  /\ r.op \in {"Gt", "Lt"} => Len(r.values) = 1
FieldOK(r) == r.key = FieldName /\ r.op \in {"In", "NotIn"} /\ r.values \in Seq(Value)
TermOK(term) ==
  /\ term.exprs \in Seq(Range(term.exprs)) /\ \A r \in Range(term.exprs) : RequirementOK(r)
  /\ term.fields \in Seq(Range(term.fields)) /\ \A r \in Range(term.fields) : FieldOK(r)

\* An affinity, even without terms, is never written out like none at all.
AffinityOK(pod) ==
  pod.affinity # NoAffinity => /\ \A term \in Range(pod.affinity) : TermOK(term)
                               /\ DomainHash(pod).affinity # NoAffinity

ASSUME SpecAssumption ==
  /\ NoPod \notin PodState
  /\ \A pod \in PodState : /\ AffinityOK(pod)
                           /\ SchedKeyOf(pod.service, DomainHash(pod)) # NoRef
  /\ \A n \in NodeState : n.name # EmptyValue

\* The API server creates a pod and the plugin keys it.  The fields that shape
\* the domain are immutable from then on.
PodAdded(i) ==
  /\ pods[i] = NoPod
  /\ \E pod \in PodState :
       pods' = [pods EXCEPT ![i] = pod] /\ ref' = [ref EXCEPT ![i] = PodRefFor(pod)]
  /\ UNCHANGED nodes

PodDeleted(i) ==
  /\ pods[i] # NoPod
  /\ pods' = [pods EXCEPT ![i] = NoPod]
  /\ ref' = [ref EXCEPT ![i] = NoRef]
  /\ UNCHANGED nodes

\* A node joins or changes.
NodeUpserted(n) ==
  /\ n \notin nodes
  /\ nodes' = {m \in nodes : m.name # n.name} \cup {n}
  /\ Cardinality(nodes') <= MaxNodes
  /\ UNCHANGED <<pods, ref>>

NodeDeleted(n) ==
  /\ nodes' = nodes \ {n}
  /\ UNCHANGED <<pods, ref>>
-----------------------------------------------------------------------------
DomainInit ==
  /\ nodes = {}
  /\ pods = [i \in Slot |-> NoPod]
  /\ ref = [i \in Slot |-> NoRef]

DomainNext ==
  \/ \E i \in Slot : PodAdded(i) \/ PodDeleted(i)
  \/ \E n \in NodeState : NodeUpserted(n)
  \/ \E n \in nodes : NodeDeleted(n)

DomainSpec == DomainInit /\ [][DomainNext]_domainVars
-----------------------------------------------------------------------------
\* Type invariant.  Names of nodes are unique; exactly the pods that carry the
\* service label have keys (PodRefFor's error).
DomainTypeOK ==
  /\ nodes \subseteq NodeState /\ Cardinality({n.name : n \in nodes}) = Cardinality(nodes)
  /\ pods \in [Slot -> PodState \cup {NoPod}]
  /\ \A i \in Slot : ref[i] # NoRef <=> pods[i] # NoPod /\ pods[i].service # Unlabelled

Live == {i \in Slot : ref[i] # NoRef}

Exprs(pod) ==
  IF pod.affinity = NoAffinity THEN {}
  ELSE UNION {Range(pod.affinity[i].exprs) : i \in DOMAIN pod.affinity}

\* Pods under one scheduling key have one stable domain, in every state of the
\* nodes (DomainHash covers all that nodeInStableDomain looks at).  Specs that
\* use a label called metadata.name are left out: DomainHash writes it like the
\* field.
KinShareDomain ==
  \A i, j \in Live :
    /\ ref[i] = ref[j]
    /\ \A r \in Exprs(pods[i]) \cup Exprs(pods[j]) : r.key # FieldName
    => computeStableDomain(pods[i], nodes) = computeStableDomain(pods[j], nodes)

\* Requirements and terms as the native NodeAffinity filter reads them.
NativeRequirement(r, labels) ==
  LET present == r.key \in DOMAIN labels
      v == labels[r.key]
      given == Range(r.values)
      numeric == present /\ IsNumber(v) /\ IsNumber(r.values[1]) IN
  CASE r.op = "In" -> present /\ v \in given
    [] r.op = "NotIn" -> present => v \notin given
    [] r.op = "Exists" -> present
    [] r.op = "DoesNotExist" -> ~present
    [] r.op = "Gt" -> numeric /\ Decimal[v] > Decimal[r.values[1]]
    [] r.op = "Lt" -> numeric /\ Decimal[v] < Decimal[r.values[1]]

NativeTerm(term, node) ==
  /\ term.exprs # <<>> \/ term.fields # <<>>
  /\ \A r \in Range(term.exprs) : NativeRequirement(r, node.labels)
  /\ \A r \in Range(term.fields) : NativeRequirement(r, [k \in {FieldName} |-> node.name])

NativeMatch(pod, node) ==
  /\ \A k \in DOMAIN pod.selector : k \in DOMAIN node.labels /\ node.labels[k] = pod.selector[k]
  /\ pod.affinity = NoAffinity \/ \E term \in Range(pod.affinity) : NativeTerm(term, node)

\* Three corners in which the two are known to differ: the empty label value, a
\* term without requirements, an integer that does not fit.
NoEmptyLabel(pod, node) ==
  EmptyValue \notin Range(node.labels) \cup Range(pod.selector)
                    \cup UNION {Range(r.values) : r \in Exprs(pod)}

NoEmptyTerm(pod) ==
  pod.affinity # NoAffinity =>
    \A term \in Range(pod.affinity) : term.exprs # <<>> \/ term.fields # <<>>

NumbersFit(pod, node) ==
  \A v \in Range(node.labels) \cup UNION {Range(r.values) : r \in Exprs(pod)} :
    IsNumber(v) => Decimal[v] = atoi64(v)

\* Everywhere else matchesNodeSelector agrees with the native filter, so that
\* a node Filter admits is not refused later for its affinity and no node that
\* would be admitted is missing from the domain.
DomainIsNative ==
  \A i \in Live, n \in nodes :
    NoEmptyLabel(pods[i], n) /\ NoEmptyTerm(pods[i]) /\ NumbersFit(pods[i], n)
    => (matchesNodeSelector(pods[i], n) <=> NativeMatch(pods[i], n))
=============================================================================
