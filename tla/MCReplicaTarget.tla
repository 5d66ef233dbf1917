--------------------------- MODULE MCReplicaTarget ---------------------------
(* Two deployments of one service, a third without the label, a service    *)
(* that may have pods and no deployment, two nodes and three pods.         *)
EXTENDS ReplicaTarget, TLC

CONSTANTS d1, d2, d3, svc, lone, p1, p2, p3, n1, n2, zone, va, vEmpty

Decimals == [v \in {} |-> 0]
NoLabels == [k \in {} |-> va]
Anywhere == [selector |-> NoLabels, affinity |-> NoAffinity, tolerations |-> <<>>]
InZone == [Anywhere EXCEPT !.selector = [k \in {zone} |-> va]]
Deployed(service, replicas, spec) == [service |-> service, replicas |-> replicas, spec |-> spec]
Deps(r, spec) == d1 :> Deployed(svc, r, InZone) @@ d2 :> Deployed(svc, 1, spec)
                 @@ d3 :> Deployed(Unlabelled, 1, Anywhere)
NodeRec(name, labels, ready) ==
  [name |-> name, labels |-> labels, taints |-> {}, ready |-> ready, cordoned |-> FALSE]
HPA(name, target, desired, max) ==
  [name |-> name, target |-> target, desired |-> desired, max |-> max]
PodRec(name, service, phase, node) ==
  [name |-> name, service |-> service, phase |-> phase, node |-> node]
Scaled(so) == [d \in Dep |-> IF d = d1 THEN so ELSE None]
Held(n) == [s \in Service |-> n]
Nodes(ready) == {NodeRec(n1, [k \in {zone} |-> va], ready), NodeRec(n2, NoLabels, TRUE)}
PolicyRec(name, managed, max) ==
  [name |-> name, managed |-> managed, service |-> svc, maxPodsPerNode |-> max]

WorldVariants ==
  [deps |-> {Deps(1, Anywhere), Deps(3, InZone),
             d2 :> Deployed(lone, 1, Anywhere) @@ d3 :> Deployed(svc, 1, Anywhere)},
   hpas |-> {{}, {HPA("a", d1, 2, 5)}, {HPA("a", d1, 2, 5), HPA("b", d1, 4, 4)}},
   scaled |-> {Scaled(None), Scaled(2), Scaled(Unset), Scaled(-1)},
   pods |-> {{}, {PodRec(p1, svc, "Running", n1), PodRec(p2, svc, "Pending", None),
                  PodRec(p3, lone, "Running", n2)},
             {PodRec(p1, svc, "Succeeded", n1)}},
   nodes |-> {Nodes(TRUE), Nodes(FALSE)},
   policies |-> {{}, {PolicyRec("a", TRUE, 2), PolicyRec("b", FALSE, 3)},
                 {PolicyRec("a", TRUE, 2), PolicyRec("b", TRUE, 3)}, {PolicyRec("a", TRUE, 20)}},
   held |-> {Held(0), Held(1)}]

\* With an HPA, or scaled by KEDA.
Starts ==
  {[deps |-> Deps(1, Anywhere), hpas |-> start[1], scaled |-> Scaled(start[2]), pods |-> {},
    nodes |-> Nodes(TRUE), policies |-> {PolicyRec("a", TRUE, 2)}, held |-> Held(0)] :
      start \in {<<{HPA("a", d1, 2, 5)}, None>>, <<{}, 2>>}}
=============================================================================
