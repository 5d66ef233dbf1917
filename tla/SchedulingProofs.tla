-------------------------- MODULE SchedulingProofs --------------------------
(***************************************************************************)
(* Proofs about the plugin while it schedules a pod: its keys and stable   *)
(* domain (module ServiceDomains), and the hooks of one scheduling cycle   *)
(* (module SchedulingCycle), for any number of pods, peers, nodes and      *)
(* policies and without any assumption on the order of events.             *)
(***************************************************************************)
EXTENDS SchedulingCycle, ServiceDomains, FiniteSetTheorems, TLAPS

\* Backends of a leaf that names none, with their time in seconds.
USE SMTT(40), ZenonT(60)

-----------------------------------------------------------------------------
(* What the normal form of a spec tells.                                   *)

\* A bag knows what is in the list, and whether that is a single value.
LEMMA BagTells ==
  ASSUME NEW S, NEW v \in Seq(S), NEW w \in Seq(S), BagOf(v) = BagOf(w)
  PROVE  Range(v) = Range(w) /\ (Len(v) = 1 => Len(w) = 1 /\ w[1] = v[1])
<1>1. Range(v) = Range(w)
  <2>1. DOMAIN BagOf(v) = Range(v) /\ DOMAIN BagOf(w) = Range(w)
    BY DEF BagOf
  <2> QED BY <2>1
<1>2. ASSUME Len(v) = 1 PROVE Len(w) = 1 /\ w[1] = v[1]
  <2> DEFINE x == v[1]
  <2>1. DOMAIN v = 1 .. 1 /\ DOMAIN w = 1 .. Len(w) /\ Len(w) \in Nat
    BY <1>2
  <2>2. Range(v) = {x}
    BY <2>1 DEF Range
  <2>3. \A i \in DOMAIN w : w[i] = x
    BY <1>1, <2>2, ZenonT(60) DEF Range
  <2>4. {i \in DOMAIN v : v[i] = x} = {1} /\ {i \in DOMAIN w : w[i] = x} = 1 .. Len(w)
    BY <2>1, <2>3
  <2>5. Cardinality({1}) = 1 /\ Cardinality(1 .. Len(w)) = Len(w)
    <3>1. Cardinality({1}) = 1
      BY FS_Singleton, ZenonT(60)
    <3>2. Cardinality(1 .. Len(w)) = IF 1 > Len(w) THEN 0 ELSE Len(w) - 1 + 1
      BY <2>1, FS_Interval
    <3> QED BY <2>1, <3>1, <3>2
  <2>6. BagOf(v)[x] = Cardinality({i \in DOMAIN v : v[i] = x})
        /\ BagOf(w)[x] = Cardinality({i \in DOMAIN w : w[i] = x})
    BY <1>1, <2>2, ZenonT(60) DEF BagOf
  <2>7. Len(w) = 1
    BY <2>4, <2>5, <2>6, ZenonT(60)
  <2> QED BY <2>1, <2>3, <2>7
<1> QED BY <1>1, <1>2

\* Requirements with one normal form hold of the same values.
LEMMA SameRequirement ==
  ASSUME NEW r, NEW q, r.values \in Seq(Value), q.values \in Seq(Value),
         normRequirement(r) = normRequirement(q), NEW value
  PROVE  q.key = r.key /\ (requirementHolds(q, value) => requirementHolds(r, value))
<1>1. q.key = r.key /\ q.op = r.op /\ BagOf(q.values) = BagOf(r.values)
  BY DEF normRequirement
<1>2. /\ Range(q.values) = Range(r.values)
      /\ Len(q.values) = 1 <=> Len(r.values) = 1
      /\ Len(q.values) = 1 => q.values[1] = r.values[1]
  BY <1>1, BagTells
<1> DEFINE num(s) == value # EmptyValue /\ Len(s.values) = 1 /\ IsNumber(value) /\ IsNumber(s.values[1])
<1>3. /\ num(q) => num(r)
      /\ num(q) => atoi64(q.values[1]) = atoi64(r.values[1])
  BY <1>2, ZenonT(60)
<1>4. requirementHolds(q, value) => requirementHolds(r, value)
  <2> HIDE DEF num
  <2>1. \A s : requirementHolds(s, value) =
          CASE s.op = "In" -> value # EmptyValue /\ value \in Range(s.values)
            [] s.op = "NotIn" -> value \notin Range(s.values)
            [] s.op = "Exists" -> value # EmptyValue
            [] s.op = "DoesNotExist" -> ~(value # EmptyValue)
            [] s.op = "Gt" -> num(s) /\ atoi64(value) > atoi64(s.values[1])
            [] s.op = "Lt" -> num(s) /\ atoi64(value) < atoi64(s.values[1])
            [] OTHER -> FALSE
    BY ZenonT(60) DEF requirementHolds, num
  <2> QED BY <1>1, <1>2, <1>3, <2>1, ZenonT(60)
<1> QED BY <1>1, <1>4

\* The normal form of a term has the normal forms of its requirements.
LEMMA NormTermDomain ==
  ASSUME NEW term, TermOK(term)
  PROVE  DOMAIN normTerm(term) =
           {normRequirement(r) : r \in Range(term.exprs) \cup Range(term.fields)}
<1> DEFINE e == term.exprs
           f == term.fields
           reqs == e \o f
           norms == [i \in DOMAIN reqs |-> normRequirement(reqs[i])]
<1>1. e \in Seq(Range(e)) /\ f \in Seq(Range(f))
  BY DEF TermOK
<1>2. Range(reqs) = Range(e) \cup Range(f)
  <2> HIDE DEF e, f
  <2>1. /\ Len(e) \in Nat /\ Len(f) \in Nat
        /\ DOMAIN e = 1 .. Len(e) /\ DOMAIN f = 1 .. Len(f)
        /\ DOMAIN reqs = 1 .. Len(e) + Len(f)
        /\ \A i \in 1 .. Len(e) + Len(f) : reqs[i] = IF i <= Len(e) THEN e[i] ELSE f[i - Len(e)]
    <3> DEFINE X == Range(e) \cup Range(f)
    <3>1. e \in Seq(X) /\ f \in Seq(X)
      <4> SUFFICES ASSUME NEW A, NEW B, NEW s \in Seq(A), A \subseteq B PROVE s \in Seq(B)
        BY <1>1
      <4> QED OBVIOUS
    <3> HIDE DEF X
    <3>2. Len(e) \in Nat /\ Len(f) \in Nat /\ DOMAIN e = 1 .. Len(e) /\ DOMAIN f = 1 .. Len(f)
      BY <3>1
    <3>3. reqs \in Seq(X) /\ Len(reqs) = Len(e) + Len(f)
      BY <3>1
    <3>4. \A i \in 1 .. Len(e) + Len(f) : reqs[i] = IF i <= Len(e) THEN e[i] ELSE f[i - Len(e)]
      BY <3>1
    <3>5. DOMAIN reqs = 1 .. Len(e) + Len(f)
      BY <3>3
    <3> QED BY <3>2, <3>4, <3>5
  <2> HIDE DEF reqs
  <2>2. \A x \in Range(reqs) : x \in Range(e) \cup Range(f)
    BY <2>1 DEF Range
  <2>3. \A x \in Range(e) : x \in Range(reqs)
    BY <2>1 DEF Range
  <2>4. \A x \in Range(f) : x \in Range(reqs)
    <3> SUFFICES ASSUME NEW i \in DOMAIN f PROVE f[i] \in Range(reqs)
      BY DEF Range
    <3>1. Len(e) + i \in DOMAIN reqs /\ reqs[Len(e) + i] = f[i]
      BY <2>1
    <3> QED BY <3>1 DEF Range
  <2> QED BY <2>2, <2>3, <2>4
<1>3. DOMAIN normTerm(term) = Range(norms)
  BY ZenonT(60) DEF normTerm, BagOf
<1>4. Range(norms) = {normRequirement(r) : r \in Range(reqs)}
  <2> HIDE DEF reqs
  <2> QED BY DEF Range
<1> QED BY <1>2, <1>3, <1>4, ZenonT(60)

\* Terms with one normal form match the same nodes, unless a label is called
\* metadata.name.
LEMMA SameTerm ==
  ASSUME NEW t, NEW u, TermOK(t), TermOK(u), normTerm(t) = normTerm(u), NEW node,
         \A r \in Range(t.exprs) \cup Range(u.exprs) : r.key # FieldName,
         matchNodeSelectorTerm(t, node)
  PROVE  matchNodeSelectorTerm(u, node)
<1> DEFINE Rt == Range(t.exprs) \cup Range(t.fields)
           Ru == Range(u.exprs) \cup Range(u.fields)
<1>1. \A r \in Ru : \E q \in Rt : normRequirement(q) = normRequirement(r)
  <2>1. {normRequirement(r) : r \in Rt} = {normRequirement(r) : r \in Ru}
    BY NormTermDomain, ZenonT(60)
  <2> HIDE DEF Rt, Ru
  <2> QED BY <2>1
<1>2. /\ \A r \in Range(t.exprs) \cup Range(t.fields) \cup Range(u.exprs) \cup Range(u.fields) :
           r.values \in Seq(Value)
      /\ \A r \in Range(t.fields) \cup Range(u.fields) : r.key = FieldName
  BY ZenonT(60) DEF TermOK, RequirementOK, FieldOK
<1>3. /\ \A r \in Range(t.exprs) : requirementHolds(r, Get(node.labels, r.key))
      /\ \A r \in Range(t.fields) : requirementHolds(r, node.name)
  BY <1>2 DEF matchNodeSelectorTerm, Range
<1>4. ASSUME NEW r \in Range(u.exprs) PROVE requirementHolds(r, Get(node.labels, r.key))
  <2>1. PICK q \in Rt : normRequirement(q) = normRequirement(r)
    BY <1>1, ZenonT(60)
  <2>2. q.key = r.key
    BY <1>2, <2>1, SameRequirement
  <2>3. q \in Range(t.exprs)
    BY <1>2, <2>2, ZenonT(60)
  <2> QED BY <1>2, <1>3, <2>1, <2>2, <2>3, SameRequirement
<1>5. ASSUME NEW r \in Range(u.fields) PROVE r.key = FieldName /\ requirementHolds(r, node.name)
  <2>1. PICK q \in Rt : normRequirement(q) = normRequirement(r)
    BY <1>1, ZenonT(60)
  <2>2. q.key = r.key /\ r.key = FieldName
    BY <1>2, <2>1, SameRequirement
  <2>3. q \in Range(t.fields)
    BY <2>2, ZenonT(60)
  <2> QED BY <1>2, <1>3, <2>1, <2>2, <2>3, SameRequirement
<1> QED BY <1>4, <1>5 DEF matchNodeSelectorTerm, Range

\* Specs with one hash have one domain.
LEMMA SameDomain ==
  ASSUME NEW p, NEW q, AffinityOK(p), AffinityOK(q), DomainHash(p) = DomainHash(q), NEW node,
         \A r \in Exprs(p) \cup Exprs(q) : r.key # FieldName,
         nodeInStableDomain(p, node)
  PROVE  nodeInStableDomain(q, node)
<1> DEFINE norms(x) == [i \in DOMAIN x.affinity |-> normTerm(x.affinity[i])]
           written(x) == IF x.affinity = NoAffinity THEN NoAffinity ELSE BagOf(norms(x))
<1>1. /\ p.selector = q.selector /\ BagOf(p.tolerations) = BagOf(q.tolerations)
      /\ DomainHash(p).affinity = written(p) /\ DomainHash(q).affinity = written(q)
      /\ written(p) = written(q)
  BY DEF DomainHash
<1>2. Range(p.tolerations) = Range(q.tolerations)
  <2>1. \A s : DOMAIN BagOf(s) = Range(s)
    BY DEF BagOf
  <2> QED BY <1>1, <2>1
<1>3. p.affinity = NoAffinity <=> q.affinity = NoAffinity
  BY <1>1, ZenonT(60) DEF AffinityOK
<1>4. ASSUME q.affinity # NoAffinity, NEW i \in DOMAIN p.affinity, matchNodeSelectorTerm(p.affinity[i], node)
      PROVE  \E j \in DOMAIN q.affinity : matchNodeSelectorTerm(q.affinity[j], node)
  <2>1. BagOf(norms(p)) = BagOf(norms(q))
    BY <1>1, <1>3, <1>4, ZenonT(60)
  <2> HIDE DEF norms
  <2>2. Range(norms(p)) = Range(norms(q))
    BY <2>1 DEF BagOf
  <2>3. PICK j \in DOMAIN q.affinity : normTerm(q.affinity[j]) = normTerm(p.affinity[i])
    BY <2>2, ZenonT(60) DEF norms, Range
  <2>4. TermOK(p.affinity[i]) /\ TermOK(q.affinity[j])
    BY <1>3, <1>4, ZenonT(60) DEF AffinityOK, Range
  <2>5. \A r \in Range(p.affinity[i].exprs) \cup Range(q.affinity[j].exprs) : r.key # FieldName
    BY <1>3, <1>4, ZenonT(60) DEF Exprs
  <2> QED BY <1>4, <2>3, <2>4, <2>5, SameTerm
<1>5. matchesNodeSelector(q, node)
  BY <1>1, <1>3, <1>4, ZenonT(60) DEF nodeInStableDomain, matchesNodeSelector
<1>6. \A taint : (\E i \in DOMAIN p.tolerations : Tolerates(p.tolerations[i], taint))
                   => \E i \in DOMAIN q.tolerations : Tolerates(q.tolerations[i], taint)
  BY <1>2, ZenonT(60) DEF Range
<1> QED BY <1>5, <1>6, ZenonT(60) DEF nodeInStableDomain

-----------------------------------------------------------------------------
(* The domain and the native NodeAffinity filter.                          *)

\* A matchExpressions entry, away from the corners.
LEMMA NativeExpr ==
  ASSUME NEW r, NEW labels, RequirementOK(r),
         EmptyValue \notin Range(labels) \cup Range(r.values),
         \A v \in Range(labels) \cup Range(r.values) : IsNumber(v) => Decimal[v] = atoi64(v)
  PROVE  requirementHolds(r, Get(labels, r.key)) <=> NativeRequirement(r, labels)
<1> DEFINE value == Get(labels, r.key)
           given == Range(r.values)
           present == r.key \in DOMAIN labels
           ops == {"In", "NotIn", "Exists", "DoesNotExist", "Gt", "Lt"}
<1>1. /\ present => value = labels[r.key] /\ value \in Range(labels) /\ value # EmptyValue
      /\ ~present => value = EmptyValue /\ value \notin given
  BY ZenonT(60) DEF Get, Range
<1>2. r.op \in ops /\ (r.op \in {"Gt", "Lt"} => Len(r.values) = 1 /\ r.values[1] \in given)
  <2>1. Len(r.values) = 1 => r.values[1] \in given
    BY DEF Range, RequirementOK
  <2> QED BY <2>1, ZenonT(60) DEF RequirementOK
<1> DEFINE num == value # EmptyValue /\ Len(r.values) = 1 /\ IsNumber(value) /\ IsNumber(r.values[1])
           native == present /\ IsNumber(labels[r.key]) /\ IsNumber(r.values[1])
<1>3. r.op \in {"Gt", "Lt"} =>
        /\ num <=> native
        /\ num => atoi64(value) = Decimal[labels[r.key]] /\ atoi64(r.values[1]) = Decimal[r.values[1]]
  BY <1>1, <1>2, ZenonT(60)
<1>4. requirementHolds(r, value) =
        CASE r.op = "In" -> value # EmptyValue /\ value \in given
          [] r.op = "NotIn" -> value \notin given
          [] r.op = "Exists" -> value # EmptyValue
          [] r.op = "DoesNotExist" -> ~(value # EmptyValue)
          [] r.op = "Gt" -> num /\ atoi64(value) > atoi64(r.values[1])
          [] r.op = "Lt" -> num /\ atoi64(value) < atoi64(r.values[1])
          [] OTHER -> FALSE
  BY ZenonT(60) DEF requirementHolds
<1>5. NativeRequirement(r, labels) =
        CASE r.op = "In" -> present /\ labels[r.key] \in given
          [] r.op = "NotIn" -> (present => labels[r.key] \notin given)
          [] r.op = "Exists" -> present
          [] r.op = "DoesNotExist" -> ~present
          [] r.op = "Gt" -> native /\ Decimal[labels[r.key]] > Decimal[r.values[1]]
          [] r.op = "Lt" -> native /\ Decimal[labels[r.key]] < Decimal[r.values[1]]
  BY ZenonT(60) DEF NativeRequirement
<1> HIDE DEF value, given, present, num, native
<1>6. CASE r.op = "In"
  BY <1>1, <1>4, <1>5, <1>6 DEF value
<1>7. CASE r.op = "NotIn"
  BY <1>1, <1>4, <1>5, <1>7 DEF value
<1>8. CASE r.op \in {"Exists", "DoesNotExist"}
  BY <1>1, <1>4, <1>5, <1>8, ZenonT(60) DEF value
<1>9. CASE r.op = "Gt"
  BY <1>3, <1>4, <1>5, <1>9 DEF value
<1>10. CASE r.op = "Lt"
  BY <1>3, <1>4, <1>5, <1>10 DEF value
<1> QED BY <1>2, <1>6, <1>7, <1>8, <1>9, <1>10

\* A matchFields entry.
LEMMA NativeField ==
  ASSUME NEW r, FieldOK(r), NEW name, name # EmptyValue
  PROVE  requirementHolds(r, name) <=> NativeRequirement(r, [k \in {FieldName} |-> name])
<1> DEFINE labels == [k \in {FieldName} |-> name]
           given == Range(r.values)
<1>1. r.key \in DOMAIN labels /\ labels[r.key] = name
  BY DEF FieldOK
<1>2. r.op = "In" \/ r.op = "NotIn"
  BY DEF FieldOK
<1> HIDE DEF labels
<1>3. CASE r.op = "In"
  <2>1. requirementHolds(r, name) <=> name \in given
    BY <1>3 DEF requirementHolds
  <2>2. NativeRequirement(r, labels) <=> name \in given
    BY <1>1, <1>3 DEF NativeRequirement
  <2> QED BY <2>1, <2>2 DEF labels
<1>4. CASE r.op = "NotIn"
  <2>1. requirementHolds(r, name) <=> name \notin given
    BY <1>4 DEF requirementHolds
  <2>2. NativeRequirement(r, labels) <=> name \notin given
    BY <1>1, <1>4 DEF NativeRequirement
  <2> QED BY <2>1, <2>2 DEF labels
<1> QED BY <1>2, <1>3, <1>4

\* A pod and a node, away from the corners.
LEMMA NativeSelector ==
  ASSUME NEW pod, NEW node, AffinityOK(pod), node.name # EmptyValue,
         NoEmptyLabel(pod, node), NoEmptyTerm(pod), NumbersFit(pod, node)
  PROVE  matchesNodeSelector(pod, node) <=> NativeMatch(pod, node)
<1>1. \A k \in DOMAIN pod.selector :
        Get(node.labels, k) = pod.selector[k] <=> k \in DOMAIN node.labels /\ node.labels[k] = pod.selector[k]
  <2>1. \A k \in DOMAIN pod.selector : pod.selector[k] # EmptyValue
    BY ZenonT(60) DEF NoEmptyLabel, Range
  <2> QED BY <2>1, ZenonT(60) DEF Get
<1>2. ASSUME pod.affinity # NoAffinity, NEW i \in DOMAIN pod.affinity
      PROVE  matchNodeSelectorTerm(pod.affinity[i], node) <=> NativeTerm(pod.affinity[i], node)
  <2> DEFINE term == pod.affinity[i]
  <2>1. TermOK(term) /\ (term.exprs # <<>> \/ term.fields # <<>>)
    BY <1>2, ZenonT(60) DEF AffinityOK, NoEmptyTerm, Range
  <2>2. Range(term.exprs) \subseteq Exprs(pod)
    BY <1>2, ZenonT(60) DEF Exprs
  <2> HIDE DEF term
  <2>3. ASSUME NEW r \in Range(term.exprs)
        PROVE  requirementHolds(r, Get(node.labels, r.key)) <=> NativeRequirement(r, node.labels)
    <3>1. RequirementOK(r) /\ r \in Exprs(pod)
      BY <2>1, <2>2, ZenonT(60) DEF TermOK
    <3>2. EmptyValue \notin Range(node.labels) \cup Range(r.values)
      BY <3>1, ZenonT(60) DEF NoEmptyLabel
    <3>3. \A v \in Range(node.labels) \cup Range(r.values) : IsNumber(v) => Decimal[v] = atoi64(v)
      BY <3>1, ZenonT(60) DEF NumbersFit
    <3> QED BY <3>1, <3>2, <3>3, NativeExpr
  <2>4. ASSUME NEW r \in Range(term.fields)
        PROVE  /\ r.key = FieldName
               /\ requirementHolds(r, node.name) <=> NativeRequirement(r, [k \in {FieldName} |-> node.name])
    <3>1. FieldOK(r)
      BY <2>1, ZenonT(60) DEF TermOK
    <3> QED BY <3>1, NativeField, ZenonT(60) DEF FieldOK
  <2>5. matchNodeSelectorTerm(term, node) <=>
          /\ \A r \in Range(term.exprs) : requirementHolds(r, Get(node.labels, r.key))
          /\ \A r \in Range(term.fields) : requirementHolds(r, node.name)
    BY <2>4 DEF matchNodeSelectorTerm, Range
  <2>6. NativeTerm(term, node) <=>
          /\ \A r \in Range(term.exprs) : NativeRequirement(r, node.labels)
          /\ \A r \in Range(term.fields) : NativeRequirement(r, [k \in {FieldName} |-> node.name])
    BY <2>1, ZenonT(60) DEF NativeTerm
  <2>7. matchNodeSelectorTerm(term, node) <=> NativeTerm(term, node)
    BY <2>3, <2>4, <2>5, <2>6, ZenonT(60)
  <2> QED BY <2>7 DEF term
<1>3. pod.affinity # NoAffinity =>
        ((\E i \in DOMAIN pod.affinity : matchNodeSelectorTerm(pod.affinity[i], node))
          <=> \E term \in Range(pod.affinity) : NativeTerm(term, node))
  BY <1>2, ZenonT(60) DEF Range
<1> QED BY <1>1, <1>3, ZenonT(60) DEF matchesNodeSelector, NativeMatch

-----------------------------------------------------------------------------
(* Pods and nodes come and go.                                             *)

\* The inductive invariant: names of nodes identify them, and the keys of a pod
\* are those of its spec.
UniqueNames(S) == \A m, n \in S : m.name = n.name => m = n
DomainInv ==
  /\ nodes \subseteq NodeState /\ IsFiniteSet(nodes) /\ UniqueNames(nodes)
  /\ pods \in [Slot -> PodState \cup {NoPod}]
  /\ DOMAIN ref = Slot
  /\ \A i \in Slot : ref[i] = IF pods[i] = NoPod THEN NoRef ELSE PodRefFor(pods[i])

\* A change of one slot.
LEMMA SlotChanges ==
  ASSUME DomainInv, NEW i \in Slot, NEW pod \in PodState \cup {NoPod},
         pods' = [pods EXCEPT ![i] = pod], nodes' = nodes,
         ref' = [ref EXCEPT ![i] = IF pod = NoPod THEN NoRef ELSE PodRefFor(pod)]
  PROVE  DomainInv'
<1>1. pods \in [Slot -> PodState \cup {NoPod}]
  BY DEF DomainInv
<1>2. /\ pods' \in [Slot -> PodState \cup {NoPod}] /\ pods'[i] = pod
      /\ \A j \in Slot \ {i} : pods'[j] = pods[j]
  BY <1>1
<1>3. /\ DOMAIN ref' = Slot /\ ref'[i] = IF pod = NoPod THEN NoRef ELSE PodRefFor(pod)
      /\ \A j \in Slot \ {i} : ref'[j] = ref[j]
  BY ZenonT(60) DEF DomainInv
<1>4. \A j \in Slot : ref'[j] = IF pods'[j] = NoPod THEN NoRef ELSE PodRefFor(pods'[j])
  <2> SUFFICES ASSUME NEW j \in Slot
               PROVE  ref'[j] = IF pods'[j] = NoPod THEN NoRef ELSE PodRefFor(pods'[j])
    OBVIOUS
  <2>1. CASE j = i
    BY <1>2, <1>3, <2>1, ZenonT(60)
  <2>2. CASE j # i
    BY <1>2, <1>3, <2>2, ZenonT(60) DEF DomainInv
  <2> QED BY <2>1, <2>2
<1> QED BY <1>2, <1>3, <1>4, ZenonT(60) DEF DomainInv

\* Every change of a pod or a node keeps the invariant.
LEMMA DomainStep ==
  ASSUME DomainInv, [DomainNext]_domainVars
  PROVE  DomainInv'
<1>1. ASSUME NEW i \in Slot, PodAdded(i) PROVE DomainInv'
  <2>1. PICK pod \in PodState : pods' = [pods EXCEPT ![i] = pod] /\ ref' = [ref EXCEPT ![i] = PodRefFor(pod)]
    BY <1>1, ZenonT(60) DEF PodAdded
  <2>2. pod # NoPod /\ nodes' = nodes
    BY <1>1, SpecAssumption, ZenonT(60) DEF PodAdded
  <2>3. ref' = [ref EXCEPT ![i] = IF pod = NoPod THEN NoRef ELSE PodRefFor(pod)]
    BY <2>1, <2>2, ZenonT(60)
  <2> QED BY <2>1, <2>2, <2>3, SlotChanges, ZenonT(60)
<1>2. ASSUME NEW i \in Slot, PodDeleted(i) PROVE DomainInv'
  <2>1. pods' = [pods EXCEPT ![i] = NoPod] /\ ref' = [ref EXCEPT ![i] = NoRef] /\ nodes' = nodes
    BY <1>2, ZenonT(60) DEF PodDeleted
  <2>2. ref' = [ref EXCEPT ![i] = IF NoPod = NoPod THEN NoRef ELSE PodRefFor(NoPod)]
    BY <2>1, ZenonT(60)
  <2> QED BY <2>1, <2>2, SlotChanges, ZenonT(60)
<1>3. ASSUME pods' = pods, ref' = ref, nodes' \subseteq NodeState, IsFiniteSet(nodes'), UniqueNames(nodes')
      PROVE  DomainInv'
  BY <1>3, ZenonT(60) DEF DomainInv
<1>4. ASSUME NEW n \in NodeState, NodeUpserted(n) PROVE DomainInv'
  <2> DEFINE others == {m \in nodes : m.name # n.name}
  <2>1. nodes' = others \cup {n} /\ pods' = pods /\ ref' = ref
    BY <1>4 DEF NodeUpserted
  <2>2. IsFiniteSet(nodes) /\ others \subseteq nodes /\ nodes \subseteq NodeState /\ UniqueNames(nodes)
    BY DEF DomainInv
  <2>3. UniqueNames(nodes') /\ nodes' \subseteq NodeState
    BY <2>1, <2>2, ZenonT(60) DEF UniqueNames
  <2>4. IsFiniteSet(others)
    BY <2>2, FS_Subset, ZenonT(60)
  <2> HIDE DEF others
  <2>5. IsFiniteSet(nodes')
    BY <2>1, <2>4, FS_AddElement, ZenonT(60)
  <2> QED BY <1>3, <2>1, <2>3, <2>5
<1>5. ASSUME NEW n \in nodes, NodeDeleted(n) PROVE DomainInv'
  <2>1. nodes' = nodes \ {n} /\ pods' = pods /\ ref' = ref
    BY <1>5 DEF NodeDeleted
  <2>2. IsFiniteSet(nodes) /\ nodes' \subseteq nodes /\ nodes \subseteq NodeState /\ UniqueNames(nodes)
    BY <2>1 DEF DomainInv
  <2>3. IsFiniteSet(nodes')
    BY <2>2, FS_Subset, ZenonT(60)
  <2> QED BY <1>3, <2>1, <2>2, <2>3, ZenonT(60) DEF UniqueNames
<1>6. CASE UNCHANGED domainVars
  BY <1>3, <1>6, ZenonT(60) DEF domainVars, DomainInv
<1> QED BY <1>1, <1>2, <1>4, <1>5, <1>6, ZenonT(60) DEF DomainNext

\* The invariant holds throughout.
LEMMA DomainInductive == DomainSpec => []DomainInv
<1>1. DomainInit => DomainInv
  <2> SUFFICES ASSUME DomainInit PROVE DomainInv
    OBVIOUS
  <2>1. IsFiniteSet({})
    BY FS_EmptySet
  <2> QED BY <2>1, ZenonT(60) DEF DomainInit, DomainInv, UniqueNames
<1>2. DomainInv /\ [DomainNext]_domainVars => DomainInv'
  BY DomainStep, ZenonT(60)
<1> QED BY <1>1, <1>2, PTL DEF DomainSpec

\* Live pods are keyed by their specs.
LEMMA LivePods ==
  ASSUME DomainInv, NEW i \in Live
  PROVE  /\ pods[i] \in PodState /\ AffinityOK(pods[i])
         /\ ref[i] = SchedKeyOf(pods[i].service, DomainHash(pods[i]))
<1>1. i \in Slot /\ ref[i] # NoRef
  BY DEF Live
<1>2. pods[i] # NoPod /\ ref[i] = PodRefFor(pods[i]) /\ pods[i] \in PodState
  BY <1>1, ZenonT(60) DEF DomainInv
<1> QED BY <1>1, <1>2, SpecAssumption, ZenonT(60) DEF PodRefFor

\* Names of nodes in the lister stay unique, and exactly the pods with the
\* service label have keys (PodRefFor).
THEOREM KeysMatchPods == DomainSpec => []DomainTypeOK
<1>1. DomainInv => DomainTypeOK
  <2> SUFFICES ASSUME DomainInv PROVE DomainTypeOK
    OBVIOUS
  <2> DEFINE names == {n.name : n \in nodes}
             name == [n \in nodes |-> n.name]
  <2>1. IsFiniteSet(nodes) /\ nodes \subseteq NodeState /\ UniqueNames(nodes)
    BY DEF DomainInv
  <2>2. name \in [nodes -> names] /\ \A t \in names : \E n \in nodes : name[n] = t
    OBVIOUS
  <2>3. \A m, n \in nodes : name[m] = name[n] => m = n
    BY <2>1 DEF UniqueNames
  <2> HIDE DEF names, name
  <2>4. name \in Surjection(nodes, names) /\ name \in Injection(nodes, names)
    BY <2>2, <2>3 DEF Surjection, Injection, IsInjective
  <2>5. Cardinality(names) = Cardinality(nodes)
    BY <2>1, <2>4, FS_Surjection
  <2>6. ASSUME NEW i \in Slot PROVE ref[i] # NoRef <=> pods[i] # NoPod /\ pods[i].service # Unlabelled
    <3>1. ref[i] = (IF pods[i] = NoPod THEN NoRef ELSE PodRefFor(pods[i])) /\ pods[i] \in PodState \cup {NoPod}
      BY ZenonT(60) DEF DomainInv
    <3>2. pods[i] # NoPod => SchedKeyOf(pods[i].service, DomainHash(pods[i])) # NoRef
      BY <3>1, SpecAssumption, ZenonT(60)
    <3> QED BY <3>1, <3>2, ZenonT(60) DEF PodRefFor
  <2> QED BY <2>1, <2>5, <2>6, ZenonT(60) DEF DomainTypeOK, DomainInv, names
<1> QED BY <1>1, DomainInductive, PTL

\* Pods under one scheduling key have one stable domain: DomainHash covers all
\* that nodeInStableDomain reads, for specs and nodes of any size.
THEOREM KinShareOneDomain == DomainSpec => []KinShareDomain
<1>1. DomainInv => KinShareDomain
  <2> SUFFICES ASSUME DomainInv, NEW i \in Live, NEW j \in Live, ref[i] = ref[j],
                      \A r \in Exprs(pods[i]) \cup Exprs(pods[j]) : r.key # FieldName
               PROVE  computeStableDomain(pods[i], nodes) = computeStableDomain(pods[j], nodes)
    BY ZenonT(60) DEF KinShareDomain
  <2>1. AffinityOK(pods[i]) /\ AffinityOK(pods[j])
    BY LivePods, ZenonT(60)
  <2>2. DomainHash(pods[i]) = DomainHash(pods[j])
    <3>1. SchedKeyOf(pods[i].service, DomainHash(pods[i])) = SchedKeyOf(pods[j].service, DomainHash(pods[j]))
      BY LivePods, ZenonT(60)
    <3> QED BY <3>1 DEF SchedKeyOf
  <2>3. \A n \in nodes : nodeInStableDomain(pods[i], n) <=> nodeInStableDomain(pods[j], n)
    BY <2>1, <2>2, SameDomain, ZenonT(60)
  <2> QED BY <2>3, ZenonT(60) DEF computeStableDomain
<1> QED BY <1>1, DomainInductive, PTL

\* Away from the three corners matchesNodeSelector agrees with the native
\* filter, for specs and nodes of any size.
THEOREM DomainsAreNative == DomainSpec => []DomainIsNative
<1>1. DomainInv => DomainIsNative
  <2> SUFFICES ASSUME DomainInv, NEW i \in Live, NEW n \in nodes,
                      NoEmptyLabel(pods[i], n), NoEmptyTerm(pods[i]), NumbersFit(pods[i], n)
               PROVE  matchesNodeSelector(pods[i], n) <=> NativeMatch(pods[i], n)
    BY ZenonT(60) DEF DomainIsNative
  <2>1. AffinityOK(pods[i])
    BY LivePods, ZenonT(60)
  <2>2. n.name # EmptyValue
    BY SpecAssumption, ZenonT(60) DEF DomainInv
  <2> QED BY <2>1, <2>2, NativeSelector, ZenonT(60)
<1> QED BY <1>1, DomainInductive, PTL

-----------------------------------------------------------------------------
(* The hooks of a cycle.                                                   *)

USE CycleAssumption

\* Peers on a node are counted by a natural number.
LEMMA OnType ==
  ASSUME NEW S \in SUBSET Peer, NEW n
  PROVE  On(S, n) \in Nat /\ IsFiniteSet({u \in S : At[u] = n})
<1>1. IsFiniteSet({u \in S : At[u] = n})
  BY FS_Subset, {u \in S : At[u] = n} \in SUBSET Peer
<1> QED BY <1>1, FS_CardinalityType DEF On

\* The effective counts (effCount and reserveGuard.EffCount) are naturals.
LEMMA EffType ==
  ASSUME NEW snap \in SUBSET Peer, held \in SUBSET Peer, NEW n
  PROVE  EffQuota(snap, n) \in Nat /\ EffSched(snap, n) \in Nat
<1>1. On(snap, n) \in Nat /\ On(held, n) \in Nat
  BY OnType, ZenonT(60)
<1>2. On(snap \cap Kin, n) \in Nat /\ On(held \cap Kin, n) \in Nat
  BY OnType, ZenonT(60)
<1> QED BY <1>1, <1>2 DEF EffQuota, EffSched

\* The effective count of a node is at least the number of its seats: a peer in
\* snapshot and overlay is counted twice, one in either once.
LEMMA SeatsWithinEffQuota ==
  ASSUME counted \in SUBSET Peer, held \in SUBSET Peer, NEW n
  PROVE  On(counted \cup held, n) \in Nat /\ On(counted \cup held, n) <= EffQuota(counted, n)
<1> DEFINE A == {u \in counted : At[u] = n}
           B == {u \in held : At[u] = n}
<1>1. IsFiniteSet(A) /\ IsFiniteSet(B) /\ Cardinality(A) \in Nat /\ Cardinality(B) \in Nat
  BY OnType, ZenonT(60) DEF On
<1>2. {u \in counted \cup held : At[u] = n} = A \cup B
  OBVIOUS
<1>3. Cardinality(A \cup B) = Cardinality(A) + Cardinality(B) - Cardinality(A \cap B)
  BY <1>1, FS_Union
<1>4. Cardinality(A \cap B) \in Nat
  BY <1>1, FS_Intersection, FS_CardinalityType, ZenonT(60)
<1>5. On(counted \cup held, n) \in Nat
  BY OnType, ZenonT(60)
<1> HIDE DEF A, B
<1>6. On(counted \cup held, n) = Cardinality(A) + Cardinality(B) - Cardinality(A \cap B)
  BY <1>2, <1>3, ZenonT(60) DEF On
<1>7. EffQuota(counted, n) = Cardinality(A) + Cardinality(B)
  BY DEF EffQuota, On, A, B
<1> QED BY <1>1, <1>4, <1>5, <1>6, <1>7

\* resolvePolicy returns limits when some policy matches.
LEMMA ResolvedType ==
  ASSUME NEW world
  PROVE  /\ Resolved(world) \in Limits \cup {None}
         /\ Matches(world) # {} => Resolved(world) \in Limits
BY DEF Resolved, Matches

\* Every step keeps the types and what the cycle state holds.
LEMMA CycleStep ==
  ASSUME CycleTypeOK, PolicyHeld, [Next]_vars
  PROVE  CycleTypeOK' /\ PolicyHeld'
<1> USE DEF CycleTypeOK, PolicyHeld, World, peers, cluster, cycle
<1>e. EmptyView \in [policy : Limits \cup {None}, domain : SUBSET Node,
                     quota : [Node -> Nat], sched : [Node -> Nat]]
  BY DEF EmptyView
<1>r. Refused => /\ view' = EmptyView /\ todo' = {} /\ load' = None /\ choice' = None
                 /\ pc' \in {"ready", "waiting"} /\ missed' = missed
  BY DEF Refused
<1>1. CASE PreFilter
  <2>1. CASE PreFilterPasses(cache)
    <3>1. /\ pc' = "reading" /\ missed' = FALSE /\ todo' = cache.nodes
          /\ view' = [EmptyView EXCEPT !.policy = Resolved(cache), !.domain = cache.nodes]
          /\ UNCHANGED <<peers, cluster, events, load, choice>>
      BY <1>1, <2>1 DEF PreFilter
    <3>2. RequirePolicy => Resolved(cache) \in Limits
      BY <2>1, ResolvedType DEF PreFilterPasses
    <3>3. /\ view' \in [policy : Limits \cup {None}, domain : SUBSET Node,
                        quota : [Node -> Nat], sched : [Node -> Nat]]
          /\ view'.policy = Resolved(cache)
      BY <3>1, <1>e, ResolvedType, ZenonT(60)
    <3> QED BY <3>1, <3>2, <3>3, ZenonT(60)
  <2>2. CASE ~PreFilterPasses(cache)
    BY <1>1, <2>2, ZenonT(60) DEF PreFilter
  <2> QED BY <2>1, <2>2
<1>2. CASE \E n \in Node : LoadSnapshot(n)
  BY <1>2 DEF LoadSnapshot
<1>3. CASE AddOverlay
  <2>1. /\ load \in [node : Node, snap : SUBSET Peer]
        /\ EffQuota(load.snap, load.node) \in Nat
        /\ EffSched(load.snap, load.node) \in Nat
    BY <1>3, EffType DEF AddOverlay
  <2>2. /\ view' \in [policy : Limits \cup {None}, domain : SUBSET Node,
                      quota : [Node -> Nat], sched : [Node -> Nat]]
        /\ view'.policy = view.policy
    BY <1>3, <2>1, ZenonT(60) DEF AddOverlay
  <2> QED BY <1>3, <2>2 DEF AddOverlay
<1>4. CASE SelectNode
  <2>1. CASE Refused
    BY <1>4, <2>1, <1>e, <1>r DEF SelectNode
  <2>2. CASE ~Refused
    BY <1>4, <2>2 DEF SelectNode, Feasible
  <2> QED BY <2>1, <2>2
<1>5. CASE Reserve
  <2>1. CASE Refused
    BY <1>5, <2>1, <1>e, <1>r DEF Reserve
  <2>2. CASE ~Refused
    BY <1>5, <2>2 DEF Reserve
  <2> QED BY <2>1, <2>2
<1>6. CASE \E u \in Peer : Callback(u)
  BY <1>6 DEF Callback
<1>7. CASE CallbackReleases
  BY <1>7 DEF CallbackReleases
<1>8. CASE Listers
  <2>1. PICK part \in {"policies", "nodes", "owned", "synced"} : CacheFollows(part)
    BY <1>8 DEF Listers
  <2>2. cache' \in World
    BY <2>1 DEF CacheFollows
  <2> QED BY <2>1, <2>2 DEF CacheFollows
<1>9. CASE \E r \in Resource : EventArrives(r)
  BY <1>9 DEF EventArrives
<1>10. CASE \E u \in Peer : PeerReserve(u) \/ PeerGone(u)
  <2>1. PICK u \in Peer : PeerReserve(u) \/ PeerGone(u)
    BY <1>10
  <2>2. /\ held' \in {held, held \cup {u}}
        /\ note' \in [Peer -> {"new", "none", "bound", "gone", "done"}]
        /\ events' = events \cup {"pod"}
    BY <2>1 DEF PeerReserve, PeerGone
  <2>3. UNCHANGED <<counted, busy, cluster, cycle>>
    BY <2>1 DEF PeerReserve, PeerGone
  <2>4. held' \subseteq Peer /\ events' \subseteq Resource
    BY <2>2, ZenonT(60) DEF Resource
  <2> QED BY <2>2, <2>3, <2>4
<1>11. CASE \E p \in Policy, new \in Limits \cup {Absent, Elsewhere} : PolicyChanges(p, new)
  BY <1>11 DEF PolicyChanges, Resource
<1>12. CASE \E domain \in SUBSET Node : NodesChange(domain)
  BY <1>12 DEF NodesChange, Resource
<1>13. CASE OwnerChanges
  <2>1. (~api.owned) \in BOOLEAN /\ api' = [api EXCEPT !.owned = ~api.owned]
    BY <1>13 DEF OwnerChanges
  <2>2. api' \in World
    BY <2>1, ZenonT(60)
  <2>3. changes' \in 0 .. MaxChanges /\ events' \subseteq Resource
    BY <1>13 DEF OwnerChanges, Resource
  <2>4. UNCHANGED <<peers, cache, cycle>>
    BY <1>13 DEF OwnerChanges
  <2> QED BY <2>2, <2>3, <2>4
<1>14. CASE UNCHANGED vars
  BY <1>14 DEF vars
<1> QED
  BY <1>1, <1>2, <1>3, <1>4, <1>5, <1>6, <1>7, <1>8, <1>9, <1>10, <1>11, <1>12, <1>13, <1>14, ZenonT(60)
     DEF Next, Hooks, Handlers

\* The types of the cycle state and of the listers, and that a node is only
\* selected under a policy: an invariant of every interleaving of the hooks.
THEOREM CycleInvariant == Spec => [](CycleTypeOK /\ PolicyHeld)
<1>1. Init => CycleTypeOK /\ PolicyHeld
  <2> SUFFICES ASSUME Init PROVE CycleTypeOK /\ PolicyHeld
    OBVIOUS
  <2>1. cache \in World /\ api \in World
    BY ZenonT(60) DEF Init, World
  <2>2. view \in [policy : Limits \cup {None}, domain : SUBSET Node,
                  quota : [Node -> Nat], sched : [Node -> Nat]]
    BY DEF Init, EmptyView
  <2>3. /\ counted \subseteq Peer /\ held \subseteq Peer /\ busy \in Peer \cup {None}
        /\ note \in [Peer -> {"new", "none", "bound", "gone", "done"}]
    BY DEF Init
  <2>4. changes \in 0 .. MaxChanges /\ events \subseteq Resource
    BY DEF Init
  <2>5. /\ pc = "ready" /\ missed \in BOOLEAN /\ todo \subseteq Node
        /\ load = None /\ choice = None
    BY ZenonT(60) DEF Init
  <2> QED BY <2>1, <2>2, <2>3, <2>4, <2>5 DEF CycleTypeOK, PolicyHeld
<1> QED BY <1>1, CycleStep, PTL DEF Spec

\* With requirePolicy set, no interleaving of policy changes and hooks makes
\* Filter or Reserve follow a nil policy.
THEOREM RequiredPolicyNeverNil == Spec => [](RequirePolicy => NoPanic)
<1> DEFINE Safe == RequirePolicy => NoPanic
<1>1. Init => Safe
  BY DEF Init, NoPanic
<1>2. CycleTypeOK /\ PolicyHeld /\ Safe /\ [Next]_vars => Safe'
  <2> SUFFICES ASSUME CycleTypeOK, PolicyHeld, Safe, [Next]_vars, RequirePolicy, pc' = "panicked"
               PROVE  FALSE
    BY DEF NoPanic
  <2>1. pc # "panicked"
    BY DEF NoPanic
  <2>2. SelectNode
    BY <2>1 DEF Next, vars, cycle, peers, cluster, Hooks, Handlers, Listers, PreFilter, LoadSnapshot,
       AddOverlay, Reserve, Refused, Callback, CallbackReleases, CacheFollows, EventArrives,
       PeerReserve, PeerGone, PolicyChanges, NodesChange, OwnerChanges
  <2>3. view.policy = None /\ pc = "found"
    BY <2>2 DEF SelectNode, Refused
  <2> QED BY <2>3 DEF PolicyHeld
<1> QED BY <1>1, <1>2, CycleInvariant, PTL DEF Spec

\* Reserve grants no seat on the strength of stale counts: the node is in the
\* domain and below the cap at the moment of the grant, for any interleaving.
THEOREM PlacementsAreFresh == Spec => PlacementIsFresh
<1> DEFINE Fresh == /\ choice \in cache.nodes
                    /\ On(counted \cup held, choice) < MaxPodsPerNode[view.policy]
<1>1. CycleTypeOK /\ PolicyHeld /\ [Next]_vars /\ pc' = "placed" /\ pc # "placed" => Fresh
  <2> SUFFICES ASSUME CycleTypeOK, PolicyHeld, [Next]_vars, pc' = "placed", pc # "placed"
               PROVE  Fresh
    OBVIOUS
  <2>1. Reserve
    BY DEF Next, vars, cycle, peers, cluster, Hooks, Handlers, Listers, PreFilter, LoadSnapshot,
       AddOverlay, SelectNode, Refused, Callback, CallbackReleases, CacheFollows, EventArrives,
       PeerReserve, PeerGone, PolicyChanges, NodesChange, OwnerChanges
  <2>2. Admits(view.policy, choice) /\ pc = "picked"
    BY <2>1 DEF Reserve, Refused
  <2>3. choice \in cache.nodes /\ EffQuota(counted, choice) + 1 <= MaxPodsPerNode[view.policy]
    BY <2>2 DEF Admits
  <2>4. view.policy \in Limits
    BY <2>2 DEF PolicyHeld
  <2>5. counted \in SUBSET Peer /\ held \in SUBSET Peer
    BY DEF CycleTypeOK
  <2>6. /\ On(counted \cup held, choice) \in Nat
        /\ On(counted \cup held, choice) <= EffQuota(counted, choice)
        /\ EffQuota(counted, choice) \in Nat
    BY <2>5, SeatsWithinEffQuota, EffType
  <2>7. MaxPodsPerNode[view.policy] \in Nat
    BY <2>4
  <2> QED BY <2>3, <2>6, <2>7
<1> QED BY <1>1, CycleInvariant, PTL DEF Spec, PlacementIsFresh

\* Filter and Reserve are one test: on equal counts and an equal domain they
\* accept the same nodes, whatever the limits and the counts are.
THEOREM FilterAndReserveAgree == Spec => []FilterAgreesWithReserve
<1>1. CycleTypeOK => FilterAgreesWithReserve
  <2> SUFFICES ASSUME CycleTypeOK, ExactView
               PROVE  \A n \in Node : FilterPasses(n) <=> Admits(view.policy, n)
    BY DEF FilterAgreesWithReserve, Feasible
  <2> DEFINE sched == [m \in Node |-> EffSched(counted, m)]
  <2>1. view.domain \subseteq Node /\ cache.nodes = view.domain
    BY DEF CycleTypeOK, ExactView
  <2>2. {view.sched[n] : n \in view.domain} = {sched[n] : n \in view.domain}
    BY <2>1, ZenonT(60) DEF ExactView
  <2>3. Least(view.sched, view.domain) = Least(sched, view.domain)
    BY <2>2, ZenonT(60) DEF Least
  <2> TAKE n \in Node
  <2>4. CASE n \notin view.domain
    BY <2>1, <2>4 DEF FilterPasses, Admits
  <2>5. CASE n \in view.domain
    BY <2>1, <2>3, <2>5 DEF FilterPasses, Admits, ExactView
  <2> QED BY <2>4, <2>5
<1> QED BY <1>1, CycleInvariant, PTL
-----------------------------------------------------------------------------
(* The score of a node.                                                    *)

\* A set of natural numbers that is not empty has a least element, Min.
LEMMA MinIsLeast ==
  ASSUME NEW S \in SUBSET Nat, S # {}
  PROVE  Min(S) \in S /\ \A y \in S : Min(S) <= y
<1>1. PICK x \in S : \A y \in S : ~(<<y, x>> \in OpToRel(<, Nat))
  BY NatLessThanWellFounded, WFMin, ZenonT(60)
<1>2. \A y \in S : ~(y < x)
  BY <1>1, ZenonT(60) DEF OpToRel
<1>3. ASSUME NEW y \in S PROVE x <= y
  <2>1. x \in Nat /\ y \in Nat /\ ~(y < x)
    BY <1>2, ZenonT(60)
  <2> QED BY <2>1
<1> QED BY <1>3, ZenonT(60) DEF Min

\* One that is bounded has a greatest, Max.
LEMMA MaxIsGreatest ==
  ASSUME NEW S \in SUBSET Nat, S # {}, NEW b \in Nat, \A y \in S : y <= b
  PROVE  Max(S) \in S /\ \A y \in S : Max(S) >= y
<1> DEFINE T == {b - y : y \in S}
<1>1. T \subseteq Nat /\ T # {}
  <2>1. ASSUME NEW y \in S PROVE b - y \in Nat
    <3>1. y \in Nat /\ y <= b
      BY ZenonT(60)
    <3> QED BY <3>1
  <2>2. T \subseteq Nat
    BY <2>1, ZenonT(60)
  <2>3. PICK y \in S : TRUE
    BY ZenonT(60)
  <2>4. b - y \in T
    BY <2>3, ZenonT(60)
  <2> QED BY <2>2, <2>4, ZenonT(60)
<1>2. Min(T) \in T /\ \A t \in T : Min(T) <= t
  BY <1>1, MinIsLeast, ZenonT(60)
<1>3. PICK x \in S : Min(T) = b - x
  BY <1>2, ZenonT(60)
<1>4. ASSUME NEW y \in S PROVE b - x <= b - y
  <2>1. b - y \in T
    BY ZenonT(60)
  <2> HIDE DEF T
  <2>2. Min(T) <= b - y
    BY <1>2, <2>1, ZenonT(60)
  <2> QED BY <1>3, <2>2, ZenonT(60)
<1>5. ASSUME NEW y \in S PROVE x >= y
  <2>1. x \in Nat /\ y \in Nat /\ b - x <= b - y
    BY <1>4, ZenonT(60)
  <2> QED BY <2>1
<1> QED BY <1>5, ZenonT(60) DEF Max

\* The integer quotient, by its defining inequalities.
LEMMA Quotient ==
  ASSUME NEW x \in Nat, NEW d \in Nat \ {0}
  PROVE  x \div d \in Nat /\ d * (x \div d) <= x /\ x < d * (x \div d) + d
OBVIOUS

\* A factor keeps the order.
LEMMA TimesOrder ==
  ASSUME NEW p \in Nat, NEW q \in Nat, NEW d \in Nat, p <= q
  PROVE  d * p <= d * q
OBVIOUS

\* A part of d is worth MaxNodeScore at most.
LEMMA QuotientRange ==
  ASSUME NEW a \in Nat, NEW d \in Nat \ {0}, a <= d
  PROVE  (a * MaxNodeScore) \div d \in 0 .. MaxNodeScore
<1> DEFINE p == (a * MaxNodeScore) \div d
<1>1. a * MaxNodeScore \in Nat /\ a * MaxNodeScore <= d * MaxNodeScore
  BY DEF MaxNodeScore
<1>2. p \in Nat /\ d * p <= a * MaxNodeScore
  BY <1>1, Quotient
<1> HIDE DEF p
<1>3. ASSUME p > MaxNodeScore PROVE FALSE
  <2>1. d * (MaxNodeScore + 1) <= d * p
    BY <1>2, <1>3, TimesOrder DEF MaxNodeScore
  <2>2. d * (MaxNodeScore + 1) = d * MaxNodeScore + d
    BY DEF MaxNodeScore
  <2>3. d * p \in Nat /\ d * MaxNodeScore \in Nat
    BY <1>2 DEF MaxNodeScore
  <2> QED BY <1>1, <1>2, <2>1, <2>2, <2>3
<1>4. p \in 0 .. MaxNodeScore
  BY <1>2, <1>3 DEF MaxNodeScore
<1> QED BY <1>4 DEF p

\* Scores that are spread over d <= MaxNodeScore steps tell neighbours apart.
LEMMA QuotientOrder ==
  ASSUME NEW a \in Nat, NEW c \in Nat, NEW d \in Nat \ {0}, d <= MaxNodeScore, c < a
  PROVE  (a * MaxNodeScore) \div d > (c * MaxNodeScore) \div d
<1> DEFINE p == (a * MaxNodeScore) \div d
           q == (c * MaxNodeScore) \div d
<1>1. /\ a * MaxNodeScore \in Nat /\ c * MaxNodeScore \in Nat
      /\ a * MaxNodeScore >= c * MaxNodeScore + MaxNodeScore
  BY DEF MaxNodeScore
<1>2. p \in Nat /\ a * MaxNodeScore < d * p + d
  BY <1>1, Quotient
<1>3. q \in Nat /\ d * q <= c * MaxNodeScore
  BY <1>1, Quotient
<1> HIDE DEF p, q
<1>4. ASSUME p <= q PROVE FALSE
  <2>1. d * p <= d * q
    BY <1>2, <1>3, <1>4, TimesOrder
  <2>2. d * p \in Nat /\ d * q \in Nat /\ MaxNodeScore \in Nat
    BY <1>2, <1>3 DEF MaxNodeScore
  <2> QED BY <1>1, <1>2, <1>3, <2>1, <2>2
<1>5. p > q
  BY <1>2, <1>3, <1>4
<1> QED BY <1>5 DEF p, q

\* The counts of the nodes that pass Filter lie less than maxSkew apart.
LEMMA FeasibleRange ==
  ASSUME CycleTypeOK, view.policy # None, Feasible # {}
  PROVE  LET counts == {view.sched[m] : m \in Feasible} IN
         /\ counts \subseteq Nat
         /\ Min(counts) \in Nat /\ Max(counts) \in Nat
         /\ \A c \in counts : Min(counts) <= c /\ c <= Max(counts)
         /\ Max(counts) - Min(counts) + 1 <= MaxSkew[view.policy]
<1> DEFINE counts == {view.sched[m] : m \in Feasible}
           all == {view.sched[m] : m \in view.domain}
           skew == MaxSkew[view.policy]
<1>1. view.policy \in Limits /\ view.domain \subseteq Node /\ \A m \in Node : view.sched[m] \in Nat
  BY DEF CycleTypeOK
<1>2. skew \in Nat
  BY <1>1, CycleAssumption
<1>3. counts \subseteq Nat /\ counts # {} /\ all \subseteq Nat /\ counts \subseteq all
  <2>1. \A m \in Feasible : m \in Node /\ m \in view.domain
    BY ZenonT(60) DEF Feasible, FilterPasses
  <2>2. counts # {}
    <3>1. PICK k \in Feasible : TRUE
      BY ZenonT(60)
    <3>2. view.sched[k] \in counts
      BY <3>1, ZenonT(60)
    <3> QED BY <3>2, ZenonT(60)
  <2>3. all \subseteq Nat
    BY <1>1, ZenonT(60)
  <2>4. counts \subseteq all
    BY <2>1, ZenonT(60)
  <2> QED BY <2>2, <2>3, <2>4, ZenonT(60)
<1>4. Min(all) \in all /\ \A c \in all : Min(all) <= c
  <2> HIDE DEF counts, all
  <2>1. all # {} /\ all \in SUBSET Nat
    BY <1>3, ZenonT(60)
  <2> QED BY <2>1, MinIsLeast, ZenonT(60)
<1>5. \A c \in counts : c + 1 <= skew + Min(all)
  BY ZenonT(60) DEF Feasible, FilterPasses, Least
<1> HIDE DEF counts, all, skew
<1>6. Min(all) \in Nat /\ \A c \in counts : c \in Nat /\ Min(all) <= c
  BY <1>3, <1>4, ZenonT(60)
<1>7. Min(counts) \in counts /\ \A c \in counts : Min(counts) <= c
  BY <1>3, MinIsLeast
<1>8. \A c \in counts : c <= skew + Min(all)
  BY <1>2, <1>5, <1>6
<1>9. skew + Min(all) \in Nat
  BY <1>2, <1>6
<1>10. Max(counts) \in counts /\ \A c \in counts : Max(counts) >= c
  BY <1>3, <1>8, <1>9, MaxIsGreatest, ZenonT(60)
<1>11. Max(counts) - Min(counts) + 1 <= skew
  BY <1>2, <1>5, <1>6, <1>7, <1>10
<1>12. \A c \in counts : Min(counts) <= c /\ c <= Max(counts)
  BY <1>6, <1>7, <1>10
<1> QED BY <1>3, <1>6, <1>7, <1>10, <1>11, <1>12 DEF counts, skew

\* With maxSkew up to 100 the score keeps to the framework's range and prefers,
\* strictly, the emptier of two nodes that pass Filter (PreScore and Score), in
\* clusters of any size.
THEOREM ScoresOrderNodes ==
  ASSUME \A limits \in Limits : MaxSkew[limits] <= MaxNodeScore
  PROVE  Spec => []ScoreOrdersNodes
<1>1. ASSUME CycleTypeOK PROVE ScoreOrdersNodes
  <2> SUFFICES ASSUME view.policy # None, NEW n \in Feasible, NEW m \in Feasible
               PROVE  /\ Score(n) \in 0 .. MaxNodeScore
                      /\ view.sched[n] < view.sched[m] => Score(n) > Score(m)
    BY ZenonT(60) DEF ScoreOrdersNodes
  <2> DEFINE counts == {view.sched[k] : k \in Feasible}
             lo == Min(counts)
             hi == Max(counts)
             d == hi - lo + 1
             S(k) == ((hi - view.sched[k]) * MaxNodeScore) \div d
  <2>1. /\ lo \in Nat /\ hi \in Nat
        /\ \A k \in Feasible : view.sched[k] \in Nat /\ lo <= view.sched[k] /\ view.sched[k] <= hi
        /\ d <= MaxSkew[view.policy]
    BY <1>1, FeasibleRange, ZenonT(60)
  <2>2. view.policy \in Limits /\ MaxSkew[view.policy] \in Nat /\ MaxSkew[view.policy] <= MaxNodeScore
    BY <1>1, CycleAssumption DEF CycleTypeOK
  <2>3. \A k \in Feasible : Score(k) = IF lo = hi THEN 0 ELSE S(k)
    BY ZenonT(60) DEF Score
  <2> HIDE DEF lo, hi, counts
  <2>4. d \in Nat \ {0} /\ d <= MaxNodeScore
    BY <2>1, <2>2 DEF MaxNodeScore
  <2>5. \A k \in Feasible : hi - view.sched[k] \in Nat /\ hi - view.sched[k] <= d
    BY <2>1
  <2> HIDE DEF d
  <2>6. \A k \in Feasible : S(k) \in 0 .. MaxNodeScore
    BY <2>4, <2>5, QuotientRange
  <2>7. view.sched[n] < view.sched[m] => lo # hi /\ hi - view.sched[m] < hi - view.sched[n]
    BY <2>1
  <2>8. view.sched[n] < view.sched[m] => S(n) > S(m)
    BY <2>4, <2>5, <2>7, QuotientOrder
  <2> HIDE DEF S
  <2> QED BY <2>3, <2>6, <2>7, <2>8 DEF MaxNodeScore
<1> QED BY <1>1, CycleInvariant, PTL
=============================================================================
