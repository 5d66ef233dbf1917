-------------------------- MODULE MCServiceDomains --------------------------
(* Two pods, up to two nodes.  Specs use each operator with each kind of   *)
(* value, as far as the API server accepts it, in lists of both orders.    *)
EXTENDS ServiceDomains

CONSTANTS va, v2, v9, v20, vEmpty, n1, n2, svc, gpu, zone

\* v20 does not fit into five bits.
Decimals == [v \in {v2, v9, v20} |-> CASE v = v2 -> 2 [] v = v9 -> 9 [] v = v20 -> 20]

Req(key, op, values) == [key |-> key, op |-> op, values |-> values]
Term(exprs, fields) == [exprs |-> exprs, fields |-> fields]

Exprs1 ==
  {Req(zone, op, vs) : op \in {"In", "NotIn"}, vs \in {<<va>>, <<va, v2>>, <<v2, va>>, <<EmptyValue>>}}
  \cup {Req(zone, op, <<>>) : op \in {"Exists", "DoesNotExist"}}
  \cup {Req(zone, op, <<v>>) : op \in {"Gt", "Lt"}, v \in {va, v2, v20}}
Fields1 == {Req(FieldName, op, <<n1>>) : op \in {"In", "NotIn"}}
NotVa == Req(zone, "NotIn", <<va>>)
OnN1 == Req(FieldName, "In", <<n1>>)

Terms == {Term(<<>>, <<>>)} \cup {Term(<<r>>, <<>>) : r \in Exprs1}
         \cup {Term(<<>>, <<r>>) : r \in Fields1}
Affinities ==
  {NoAffinity, <<>>} \cup {<<t>> : t \in Terms}
  \cup {<<Term(<<NotVa>>, <<OnN1>>)>>,
        <<Term(<<NotVa, Req(zone, "Exists", <<>>)>>, <<>>)>>,
        <<Term(<<Req(zone, "Exists", <<>>), NotVa>>, <<>>)>>,
        <<Term(<<NotVa>>, <<>>), Term(<<>>, <<OnN1>>)>>,
        <<Term(<<>>, <<OnN1>>), Term(<<NotVa>>, <<>>)>>,
        <<Term(<<Req(FieldName, "In", <<n1>>)>>, <<>>)>>}

NoLabels == [k \in {} |-> EmptyValue]
Zone(v) == [k \in {zone} |-> v]
Toleration == [key |-> gpu, op |-> "Exists", value |-> EmptyValue, effect |-> EmptyValue]
Spec(service, selector, affinity, tolerations) ==
  [service |-> service, selector |-> selector, affinity |-> affinity, tolerations |-> tolerations]

PodStates ==
  {Spec(svc, NoLabels, a, <<>>) : a \in Affinities}
  \cup {Spec(svc, Zone(v), NoAffinity, <<>>) : v \in {va, EmptyValue}}
  \cup {Spec(svc, NoLabels, NoAffinity, ts) :
          ts \in {<<Toleration>>, <<[Toleration EXCEPT !.key = EmptyValue]>>,
                  <<[Toleration EXCEPT !.op = "Equal", !.value = va]>>,
                  <<[Toleration EXCEPT !.effect = "NoExecute"]>>}}
  \cup {Spec(Unlabelled, NoLabels, NoAffinity, <<>>)}

NodeRec(name, labels) ==
  [name |-> name, labels |-> labels, taints |-> {}, ready |-> TRUE, cordoned |-> FALSE]
Taint(value, effect) == [key |-> gpu, value |-> value, effect |-> effect]
NodeStates ==
  {NodeRec(n, NoLabels) : n \in {n1, n2}}
  \cup {NodeRec(n1, Zone(v)) : v \in {va, v2, v9, v20, EmptyValue}}
  \cup {[NodeRec(n1, NoLabels) EXCEPT !.ready = FALSE],
        [NodeRec(n1, NoLabels) EXCEPT !.cordoned = TRUE]}
  \cup {[NodeRec(n1, NoLabels) EXCEPT !.taints = {Taint(v, e)}] :
          v \in {va, v2}, e \in {"NoSchedule", "NoExecute", "PreferNoSchedule"}}
=============================================================================
