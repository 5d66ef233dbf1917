--------------------------- MODULE ObserverProofs ---------------------------
(***************************************************************************)
(* What is proved of the replica-target observer, for every world the API  *)
(* server lets into the caches and any interleaving of changes, failed     *)
(* reads and rounds.                                                       *)
(***************************************************************************)
EXTENDS ReplicaTarget, FiniteSetTheorems, TLAPS

\* Backends of a leaf that names none, with their time in seconds.
USE SMTT(40), ZenonT(60)

-----------------------------------------------------------------------------
(* Induction over finite sets, in terms of sets: a set of subsets has a    *)
(* minimal element.                                                        *)

Family(T, S) == T # {} /\ \A U \in T : U \subseteq S
Minimal(U, T) == U \in T /\ \A V \in T : V \subseteq U => V = U

\* A set of subsets of a finite set has a minimal element.
LEMMA MinimalSubset ==
  ASSUME NEW S, IsFiniteSet(S), NEW T, Family(T, S)
  PROVE  \E U : Minimal(U, T)
<1>1. IsWellFoundedOn(StrictSubsetOrdering(S), SUBSET S)
  BY FS_FiniteSubsetsOfFinite, FS_StrictSubsetOrderingWellFounded, ZenonT(60)
<1>2. T \subseteq SUBSET S /\ T # {}
  BY DEF Family
<1>3. PICK U \in T : \A V \in T : ~(<<V, U>> \in StrictSubsetOrdering(S))
  BY <1>1, <1>2, WFMin, ZenonT(60)
<1>4. \A V \in T : V \subseteq U => V = U
  BY <1>2, <1>3, ZenonT(60) DEF StrictSubsetOrdering
<1> QED BY <1>4 DEF Minimal

\* A finite set of integers that is not empty has a largest element.
LEMMA LargestExists ==
  ASSUME NEW S \in SUBSET Int, IsFiniteSet(S), S # {}
  PROVE  \E m \in S : \A y \in S : m >= y
<1> DEFINE Topless(U) == ~\E m \in U : \A y \in U : m >= y
           T == {U \in SUBSET S : U # {} /\ Topless(U)}
<1> SUFFICES ASSUME Topless(S) PROVE FALSE
  OBVIOUS
<1>1. Family(T, S)
  BY DEF Family
<1>2. \E U : Minimal(U, T)
  <2> HIDE DEF T
  <2> QED BY <1>1, MinimalSubset
<1>3. PICK U \in T : \A V \in T : V \subseteq U => V = U
  BY <1>2, ZenonT(60) DEF Minimal
<1>x. PICK x \in U : TRUE
  BY ZenonT(60)
<1>4. U \ {x} \notin T
  BY <1>3, <1>x, ZenonT(60)
<1>5. CASE U \ {x} = {}
  <2>1. U = {x}
    BY <1>x, <1>5
  <2>2. x \in Int
    BY <1>x
  <2>3. \A y \in U : x >= y
    BY <2>1, <2>2
  <2> QED BY <1>x, <2>3
<1>6. CASE U \ {x} # {}
  <2>1. PICK m \in U \ {x} : \A y \in U \ {x} : m >= y
    BY <1>4, <1>6
  <2>2. x \in Int /\ m \in Int /\ U \subseteq Int
    BY <1>x
  <2>3. CASE m >= x
    <3>1. \A y \in U : m >= y
      BY <2>1, <2>3
    <3> QED BY <3>1
  <2>4. CASE ~(m >= x)
    <3>1. \A y \in U : x >= y
      BY <2>1, <2>2, <2>4
    <3> QED BY <3>1, <1>x
  <2> QED BY <2>3, <2>4
<1> QED BY <1>5, <1>6

\* Max is that element, and only that one.
LEMMA MaxIsLargest ==
  ASSUME NEW S \in SUBSET Int, IsFiniteSet(S), S # {}
  PROVE  Max(S) \in S /\ \A y \in S : Max(S) >= y
<1>1. PICK m \in S : \A y \in S : m >= y
  BY LargestExists
<1> QED BY <1>1, ZenonT(60) DEF Max

\* An upper bound that is in the set is its Max.
LEMMA LargestIsMax ==
  ASSUME NEW S \in SUBSET Int, NEW x \in S, \A y \in S : x >= y
  PROVE  Max(S) = x
<1>1. Max(S) \in S /\ \A y \in S : Max(S) >= y
  BY ZenonT(60) DEF Max
<1>2. Max(S) \in Int /\ x \in Int /\ Max(S) >= x /\ x >= Max(S)
  BY <1>1, ZenonT(60)
<1> QED BY <1>2

\* The two ways to take the larger of two numbers agree.
LEMMA LargerIsMax ==
  ASSUME NEW a \in Int, NEW b \in Int
  PROVE  Larger(a, b) = Max({a, b}) /\ Larger(a, b) \in {a, b} /\ Larger(a, b) >= b /\ Larger(a, b) >= a
<1>1. Larger(a, b) \in {a, b} /\ Larger(a, b) >= b /\ Larger(a, b) >= a
  BY DEF Larger
<1>2. Larger(a, b) = Max({a, b})
  BY <1>1, LargestIsMax
<1> QED BY <1>1, <1>2

\* Two's complement arithmetic is exact on numbers that fit.
LEMMA WrappedFits ==
  ASSUME NEW half \in Nat \ {0}, NEW n \in Int
  PROVE  /\ Wrapped(n, half) \in -half .. half - 1
         /\ n \in -half .. half - 1 => Wrapped(n, half) = n
BY DEF Wrapped

\* A sum of natural numbers is one.  The fold behind SumFunction is a recursive
\* function on the subsets of its domain; that there is one is shown for the
\* subsets up to the size of a given one, by induction on that one.
LEMMA SumIsNat ==
  ASSUME NEW f, IsFiniteSet(DOMAIN f), \A x \in DOMAIN f : f[x] \in Nat
  PROVE  SumFunction(f) \in Nat
<1> DEFINE D == DOMAIN f
           c(s) == CHOOSE x \in s : TRUE
           Step(g, s) == IF s = {} THEN 0 ELSE f[c(s)] + g[s \ {c(s)}]
           Fixed(g) == g = [s \in SUBSET D |-> Step(g, s)]
           it == CHOOSE g : Fixed(g)
<1>1. SumFunction(f) = it[D]
  BY DEF SumFunction, SumFunctionOnSet, FoldFunctionOnSet, MapThenFoldSet
<1>2. \A s \in SUBSET D : s # {} => c(s) \in s /\ f[c(s)] \in Nat
  BY ZenonT(60)
<1> HIDE DEF c
<1>3. \A s \in SUBSET D : IsFiniteSet(s) /\ Cardinality(s) \in Nat
  BY FS_Subset, FS_CardinalityType
<1>4. \A s \in SUBSET D : \A x \in s : Cardinality(s \ {x}) = Cardinality(s) - 1
  BY <1>3, FS_RemoveElement, ZenonT(60)
<1>5. \A s \in SUBSET D : s # {} => s \ {c(s)} \in SUBSET D /\ Cardinality(s \ {c(s)}) = Cardinality(s) - 1
  BY <1>2, <1>4
<1> DEFINE Upto(g, U) == \A s \in SUBSET D : Cardinality(s) <= Cardinality(U) => g[s] = Step(g, s)
           Good(U) == \E g \in [SUBSET D -> Nat] : Upto(g, U)
           Bad == {U \in SUBSET D : ~Good(U)}
<1>6. Good(D)
  <2> SUFFICES ASSUME ~Good(D) PROVE FALSE
    BY ZenonT(60)
  <2>1. Family(Bad, D)
    BY ZenonT(60) DEF Family
  <2>2. \E U : Minimal(U, Bad)
    <3> HIDE DEF Bad
    <3> QED BY <2>1, MinimalSubset
  <2>3. PICK U \in Bad : \A V \in Bad : V \subseteq U => V = U
    BY <2>2, ZenonT(60) DEF Minimal
  <2>4. CASE U = {}
    <3> DEFINE g == [s \in SUBSET D |-> 0]
    <3>1. \A s \in SUBSET D : Cardinality(s) <= Cardinality(U) => s = {}
      BY <1>3, <2>4, FS_EmptySet
    <3>2. g \in [SUBSET D -> Nat] /\ Upto(g, U)
      BY <3>1
    <3> QED BY <3>2, ZenonT(60)
  <2>5. CASE U # {}
    <3>1. PICK x \in U : TRUE
      BY <2>5, ZenonT(60)
    <3>2. U \in SUBSET D /\ U \ {x} \notin Bad /\ U \ {x} \in SUBSET D
      BY <2>3, <3>1, ZenonT(60)
    <3>3. PICK g \in [SUBSET D -> Nat] : Upto(g, U \ {x})
      BY <3>2, ZenonT(60)
    <3> DEFINE h == [s \in SUBSET D |-> IF Cardinality(s) <= Cardinality(U) - 1 THEN g[s] ELSE Step(g, s)]
    <3>4. Cardinality(U \ {x}) = Cardinality(U) - 1 /\ Cardinality(U) \in Nat
      BY <1>3, <1>4, <3>1, <3>2
    <3>5. h \in [SUBSET D -> Nat]
      BY <1>2, <1>5
    <3>6. ASSUME NEW s \in SUBSET D, Cardinality(s) <= Cardinality(U) PROVE h[s] = Step(h, s)
      <4>1. h[s] = Step(g, s)
        BY <3>3, <3>4
      <4>2. s # {} => h[s \ {c(s)}] = g[s \ {c(s)}]
        BY <1>3, <1>5, <3>4, <3>6
      <4> QED BY <4>1, <4>2
    <3> HIDE DEF h
    <3>7. Upto(h, U)
      BY <3>6, ZenonT(60)
    <3> QED BY <3>5, <3>7, ZenonT(60)
  <2> QED BY <2>4, <2>5
<1>7. Fixed(it)
  <2>1. PICK g \in [SUBSET D -> Nat] : Upto(g, D)
    BY <1>6, ZenonT(60)
  <2>2. \A s \in SUBSET D : Cardinality(s) <= Cardinality(D)
    BY FS_Subset
  <2>3. Fixed(g)
    BY <2>1, <2>2, ZenonT(60)
  <2> HIDE DEF Fixed
  <2> QED BY <2>3, ZenonT(60)
<1> HIDE DEF it
<1> DEFINE Odd == {U \in SUBSET D : it[U] \notin Nat}
<1>8. Odd = {}
  <2> SUFFICES ASSUME Odd # {} PROVE FALSE
    OBVIOUS
  <2>1. Family(Odd, D)
    BY ZenonT(60) DEF Family
  <2>2. \E U : Minimal(U, Odd)
    <3> HIDE DEF Odd
    <3> QED BY <2>1, MinimalSubset
  <2>3. PICK U \in Odd : \A V \in Odd : V \subseteq U => V = U
    BY <2>2, ZenonT(60) DEF Minimal
  <2>4. U \in SUBSET D /\ it[U] \notin Nat
    BY ZenonT(60)
  <2>5. it[U] = Step(it, U)
    BY <1>7, <2>4, ZenonT(60)
  <2>6. U # {}
    BY <2>4, <2>5
  <2>7. c(U) \in U /\ f[c(U)] \in Nat
    BY <1>2, <2>4, <2>6
  <2>8. it[U \ {c(U)}] \in Nat
    BY <2>3, <2>4, <2>7, ZenonT(60)
  <2> QED BY <2>4, <2>5, <2>6, <2>7, <2>8
<1> QED BY <1>1, <1>8

\* A function maps a finite set onto a finite one, of the same size if it keeps
\* the elements apart.
LEMMA ImageSize ==
  ASSUME NEW S, IsFiniteSet(S), NEW T, NEW f \in [S -> T], \A t \in T : \E x \in S : f[x] = t
  PROVE  /\ IsFiniteSet(T)
         /\ (\A x, y \in S : f[x] = f[y] => x = y) => Cardinality(T) = Cardinality(S)
<1>1. f \in Surjection(S, T)
  BY DEF Surjection
<1>2. (\A x, y \in S : f[x] = f[y] => x = y) => f \in Injection(S, T)
  BY DEF Injection, IsInjective
<1>3. IsFiniteSet(T) /\ (Cardinality(T) = Cardinality(S) <=> f \in Injection(S, T))
  BY <1>1, FS_Surjection
<1> QED BY <1>2, <1>3

-----------------------------------------------------------------------------
(* What Compute reads of a deployment.                                     *)

\* The HPAs of a deployment: finitely many, so that each Max is one of its set.
LEMMA HPAFacts ==
  ASSUME WorldOK(world), NEW d
  PROVE  /\ IsFiniteSet(HPAsFor(d)) /\ HPAsFor(d) \subseteq world.hpas
         /\ HPAsFor(d) # {} => Max({h.desired : h \in HPAsFor(d)}) \in Nat
         /\ Max({h.max : h \in HPAsFor(d)} \cup {0}) \in 0 .. Half32 - 1
         /\ Max({h.max : h \in HPAsFor(d)} \cup {0}) \in {h.max : h \in HPAsFor(d)} \cup {0}
         /\ \A h \in HPAsFor(d) : Max({g.max : g \in HPAsFor(d)} \cup {0}) >= h.max
<1> DEFINE H == HPAsFor(d)
           Desired == {h.desired : h \in H}
           Most == {h.max : h \in H} \cup {0}
<1>1. IsFiniteSet(world.hpas) /\ H \subseteq world.hpas /\ Half32 \in Nat \ {0}
      /\ \A h \in H : h.desired \in Nat /\ h.max \in -Half32 .. Half32 - 1
  BY ObserverAssumption DEF WorldOK, HPAsOK, HPAsFor
<1>2. IsFiniteSet(H)
  BY <1>1, FS_Subset
<1> HIDE DEF H
<1>3. IsFiniteSet(Desired) /\ IsFiniteSet({h.max : h \in H})
  <2> DEFINE desired == [h \in H |-> h.desired]
             max == [h \in H |-> h.max]
             M == {h.max : h \in H}
  <2>1. desired \in [H -> Desired] /\ \A t \in Desired : \E h \in H : desired[h] = t
    OBVIOUS
  <2>2. max \in [H -> M] /\ \A t \in M : \E h \in H : max[h] = t
    OBVIOUS
  <2> HIDE DEF desired, max, Desired, M
  <2>3. IsFiniteSet(Desired)
    BY <1>2, <2>1, ImageSize
  <2>4. IsFiniteSet(M)
    BY <1>2, <2>2, ImageSize
  <2> QED BY <2>3, <2>4 DEF M
<1>4. IsFiniteSet(Most)
  BY <1>3, FS_AddElement
<1>5. Desired \subseteq Nat /\ Desired \subseteq Int /\ (H # {} => Desired # {})
  BY <1>1
<1>6. Most \subseteq Int /\ 0 \in Most /\ \A y \in Most : y < Half32
  BY <1>1
<1> HIDE DEF Most, Desired
<1>7. H # {} => Max(Desired) \in Nat
  BY <1>3, <1>5, MaxIsLargest, ZenonT(60)
<1>8. Max(Most) \in Most /\ \A y \in Most : Max(Most) >= y
  BY <1>4, <1>6, MaxIsLargest
<1>9. Max(Most) \in 0 .. Half32 - 1
  <2>1. Max(Most) \in Int /\ Max(Most) >= 0 /\ Max(Most) < Half32
    BY <1>6, <1>8, ZenonT(60)
  <2> QED BY <1>1, <2>1
<1>10. \A h \in H : h.max \in Most
  BY DEF Most
<1> QED BY <1>1, <1>2, <1>7, <1>8, <1>9, <1>10, ZenonT(60) DEF H, Most, Desired

\* resolveDeploymentTarget returns a replica count, and without a read error it
\* depends on nothing remembered.
LEMMA ResolveFacts ==
  ASSUME WorldOK(world), lastGood \in [Dep -> Nat \cup {None}],
         NEW d \in Dep, NEW replicas \in Nat, NEW hpaErr \in BOOLEAN
  PROVE  /\ resolveDeploymentTarget(d, replicas, hpaErr).value \in Nat
         /\ ~hpaErr => resolveDeploymentTarget(d, replicas, hpaErr) = Fresh(d, replicas)
         /\ hpaErr /\ ScaledObjectFor(d) = None /\ lastGood[d] # None
              => resolveDeploymentTarget(d, replicas, hpaErr).value = lastGood[d]
<1> DEFINE m == Max({h.desired : h \in HPAsFor(d)})
           so == ScaledObjectFor(d)
           H == HPAsFor(d)
<1>1. H # {} => m \in Nat
  BY HPAFacts, ZenonT(60)
<1>2. so # None => Larger(MinReplicas(so), replicas) \in Nat
  BY DEF WorldOK, ScaledOK, ScaledObjectFor, MinReplicas, Larger
<1>3. lastGood[d] # None => lastGood[d] \in Nat
  OBVIOUS
<1> HIDE DEF m, so, H
<1>4. resolveDeploymentTarget(d, replicas, hpaErr) =
        CASE ~hpaErr /\ H # {} ->
               [value |-> m, source |-> IF Cardinality(H) > 1 THEN "fallback" ELSE "hpa"]
          [] ~(~hpaErr /\ H # {}) /\ so # None ->
               [value |-> Larger(MinReplicas(so), replicas), source |-> "keda"]
          [] ~(~hpaErr /\ H # {}) /\ so = None /\ hpaErr /\ lastGood[d] # None ->
               [value |-> lastGood[d], source |-> "lastGood"]
          [] OTHER -> [value |-> replicas, source |-> "deployment"]
  BY DEF resolveDeploymentTarget, m, so, H
<1>5. Fresh(d, replicas) =
        IF H # {}
        THEN [value |-> m, source |-> IF Cardinality(H) > 1 THEN "fallback" ELSE "hpa"]
        ELSE IF so # None
        THEN [value |-> Larger(MinReplicas(so), replicas), source |-> "keda"]
        ELSE [value |-> replicas, source |-> "deployment"]
  BY DEF Fresh, m, so, H
<1>6. CASE ~hpaErr /\ H # {}
  BY <1>1, <1>4, <1>5, <1>6
<1>7. CASE ~(~hpaErr /\ H # {}) /\ so # None
  BY <1>2, <1>4, <1>5, <1>7 DEF so
<1>8. CASE ~(~hpaErr /\ H # {}) /\ so = None /\ hpaErr /\ lastGood[d] # None
  BY <1>3, <1>4, <1>5, <1>8
<1>9. CASE ~(~hpaErr /\ H # {}) /\ so = None /\ ~(hpaErr /\ lastGood[d] # None)
  BY <1>4, <1>5, <1>9
<1> QED BY <1>6, <1>7, <1>8, <1>9
-----------------------------------------------------------------------------
(* The steps of the loop.                                                  *)

\* Before the first round (NewReplicaTargetObserver) the invariant holds.
LEMMA InitKeeps == ObserverInit => ObserverTypeOK /\ ObserverInv /\ CleanRoundIsExact
<1> SUFFICES ASSUME ObserverInit PROVE ObserverTypeOK /\ ObserverInv /\ CleanRoundIsExact
  OBVIOUS
<1>1. ObserverTypeOK
  <2>1. MaxEvents \in Nat
    BY ObserverAssumption, ZenonT(60)
  <2>2. /\ \A s \in Service : gauges[s] = None
        /\ lastGood \in [Dep -> Nat \cup {None}] /\ deficits \in [Service -> (Nat \ {0}) \cup {None}]
    BY DEF ObserverInit
  <2>3. events \in 0 .. MaxEvents
    BY <2>1 DEF ObserverInit
  <2> QED BY <2>2, <2>3, ZenonT(60) DEF ObserverInit, ObserverTypeOK
<1>2. WorldOK(world)
  BY ObserverAssumption DEF ObserverInit
<1>3. /\ round.deps = [d \in {} |-> None] /\ round.pods = {} /\ round.todo = {}
      /\ round.ceiling = {} /\ DOMAIN round.got = {} /\ DOMAIN round.max = {}
      /\ round = [deps |-> round.deps, pods |-> round.pods, todo |-> round.todo,
                  ceiling |-> round.ceiling, got |-> round.got, max |-> round.max]
  BY DEF ObserverInit, NoRound
<1>4. RoundOK(round)
  BY <1>3, FS_EmptySet DEF RoundOK, DepsOK, PodsOK
<1>5. pc = "idle" /\ clean = FALSE
  BY DEF ObserverInit
<1> QED BY <1>1, <1>2, <1>3, <1>4, <1>5 DEF ObserverInv, CleanRoundIsExact

\* An abandoned round leaves nothing behind.
LEMMA AbandonKeeps ==
  ASSUME ObserverInv, Abandon, world' = world, clean' \in BOOLEAN
  PROVE  ObserverInv'
<1>1. /\ round'.deps = [d \in {} |-> None] /\ round'.pods = {} /\ round'.todo = {}
      /\ round'.ceiling = {} /\ DOMAIN round'.got = {} /\ DOMAIN round'.max = {}
      /\ round' = [deps |-> round'.deps, pods |-> round'.pods, todo |-> round'.todo,
                   ceiling |-> round'.ceiling, got |-> round'.got, max |-> round'.max]
  BY DEF Abandon, NoRound
<1>2. RoundOK(round')
  BY <1>1, FS_EmptySet DEF RoundOK, DepsOK, PodsOK
<1>3. pc' = "idle" /\ WorldOK(world')
  BY DEF Abandon, ObserverInv
<1> QED BY <1>1, <1>2, <1>3 DEF ObserverInv

\* The bound on failures is kept by every read.
LEMMA ReadCounts ==
  ASSUME ObserverTypeOK, NEW failed \in Failing
  PROVE  failed \in BOOLEAN /\ Count(failed) \in 0 .. MaxEvents
<1>1. MaxEvents \in Nat /\ events \in 0 .. MaxEvents
  BY ObserverAssumption, ZenonT(60) DEF ObserverTypeOK
<1>2. failed \in BOOLEAN /\ (failed => events < MaxEvents)
  BY ZenonT(60) DEF Failing
<1>3. Count(failed) = events \/ (events < MaxEvents /\ Count(failed) = events + 1)
  BY <1>2, ZenonT(60) DEF Count
<1>4. Count(failed) \in 0 .. MaxEvents
  BY <1>1, <1>3
<1> QED BY <1>2, <1>4

\* The first list starts a round, or fails and starts none.
LEMMA ListDeploymentsKeeps ==
  ASSUME ObserverTypeOK, ObserverInv, ListDeployments
  PROVE  ObserverTypeOK' /\ ObserverInv' /\ CleanRoundIsExact'
<1>1. PICK failed \in Failing :
        /\ IF failed THEN Abandon
                     ELSE pc' = "pods" /\ round' = [NoRound EXCEPT !.deps = world.deps]
        /\ clean' = ~failed /\ events' = Count(failed)
  BY DEF ListDeployments
<1>2. failed \in BOOLEAN /\ events' \in 0 .. MaxEvents
  BY <1>1, ReadCounts
<1>3. UNCHANGED <<world, synced, lastGood, gauges, deficits>>
  BY DEF ListDeployments
<1>4. pc' \in {"idle", "pods"}
  BY <1>1 DEF Abandon
<1>5. ObserverTypeOK'
  BY <1>1, <1>2, <1>3, <1>4 DEF ObserverTypeOK
<1>6. CASE failed
  <2>1. ObserverInv'
    BY <1>1, <1>2, <1>3, <1>6, AbandonKeeps
  <2> QED BY <1>1, <1>5, <1>6, <2>1, ZenonT(60) DEF CleanRoundIsExact
<1>7. CASE ~failed
  <2>1. /\ round'.deps = world.deps /\ round'.pods = {} /\ round'.todo = {}
        /\ round'.ceiling = {} /\ DOMAIN round'.got = {} /\ DOMAIN round'.max = {}
        /\ round' = [deps |-> round'.deps, pods |-> round'.pods, todo |-> round'.todo,
                     ceiling |-> round'.ceiling, got |-> round'.got, max |-> round'.max]
    BY <1>1, <1>7 DEF NoRound
  <2>2. WorldOK(world) /\ DepsOK(world.deps)
    BY DEF ObserverInv, WorldOK
  <2>3. RoundOK(round')
    BY <2>1, <2>2, FS_EmptySet DEF RoundOK, PodsOK
  <2>4. pc' = "pods"
    BY <1>1, <1>7
  <2>5. ObserverInv'
    BY <1>3, <2>1, <2>2, <2>3, <2>4 DEF ObserverInv
  <2> QED BY <1>5, <2>4, <2>5 DEF CleanRoundIsExact
<1> QED BY <1>2, <1>6, <1>7

\* The second list fixes the pods and the deployments to resolve.
LEMMA ListPodsKeeps ==
  ASSUME ObserverTypeOK, ObserverInv, ListPods
  PROVE  ObserverTypeOK' /\ ObserverInv' /\ CleanRoundIsExact'
<1>1. PICK failed \in Failing :
        /\ IF failed THEN Abandon
           ELSE /\ pc' = "resolve"
                /\ round' = [round EXCEPT !.pods = world.pods, !.todo = Labelled(round.deps)]
        /\ clean' = (clean /\ ~failed) /\ events' = Count(failed)
  BY DEF ListPods
<1>2. failed \in BOOLEAN /\ events' \in 0 .. MaxEvents
  BY <1>1, ReadCounts
<1>3. pc = "pods" /\ UNCHANGED <<world, synced, lastGood, gauges, deficits>>
  BY DEF ListPods
<1>4. pc' \in {"idle", "resolve"} /\ clean' \in BOOLEAN
  BY <1>1, <1>2 DEF Abandon, ObserverTypeOK
<1>5. ObserverTypeOK'
  BY <1>2, <1>3, <1>4 DEF ObserverTypeOK
<1>6. CASE failed
  <2>1. ObserverInv'
    BY <1>1, <1>3, <1>4, <1>6, AbandonKeeps
  <2> QED BY <1>1, <1>5, <1>6, <2>1, ZenonT(60) DEF CleanRoundIsExact
<1>7. CASE ~failed
  <2>1. WorldOK(world) /\ PodsOK(world.pods) /\ RoundOK(round)
    BY DEF ObserverInv, WorldOK
  <2>2. /\ round'.deps = round.deps /\ round'.pods = world.pods
        /\ round'.todo = Labelled(round.deps) /\ round'.ceiling = round.ceiling
        /\ round'.got = round.got /\ round'.max = round.max
        /\ round' = [deps |-> round'.deps, pods |-> round'.pods, todo |-> round'.todo,
                     ceiling |-> round'.ceiling, got |-> round'.got, max |-> round'.max]
    BY <1>1, <1>7, <2>1, ZenonT(60) DEF RoundOK
  <2>3. round.ceiling = {} /\ DOMAIN round.got = {} /\ DOMAIN round.max = {}
        /\ (clean => round.deps = world.deps)
    BY <1>3 DEF ObserverInv
  <2>4. RoundOK(round')
    BY <2>1, <2>2, <2>3 DEF RoundOK
  <2>5. pc' = "resolve" /\ clean' = clean
    BY <1>1, <1>7 DEF ObserverTypeOK
  <2>6. ObserverInv'
    BY <1>3, <2>1, <2>2, <2>3, <2>4, <2>5 DEF ObserverInv
  <2> QED BY <1>5, <2>5, <2>6 DEF CleanRoundIsExact
<1> QED BY <1>2, <1>6, <1>7

\* One more target: the deployment becomes the current one.
LEMMA ResolveKeeps ==
  ASSUME ObserverTypeOK, ObserverInv, NEW d \in Dep, Resolve(d)
  PROVE  /\ ObserverTypeOK' /\ ObserverInv' /\ CleanRoundIsExact'
         /\ \A e \in Dep \ {d} : lastGood'[e] = lastGood[e]
         /\ \E hpaErr \in BOOLEAN :
              lastGood'[d] = resolveDeploymentTarget(d, round.deps[d].replicas, hpaErr).value
<1> DEFINE t(hpaErr) == resolveDeploymentTarget(d, round.deps[d].replicas, hpaErr)
<1>1. PICK hpaErr \in Failing :
        /\ round' = [round EXCEPT !.ceiling = {d}, !.got = With(@, d, t(hpaErr))]
        /\ lastGood' = [lastGood EXCEPT ![d] = t(hpaErr).value]
        /\ clean' = (clean /\ ~hpaErr) /\ events' = Count(hpaErr)
  BY ZenonT(60) DEF Resolve
<1>2. hpaErr \in BOOLEAN /\ events' \in 0 .. MaxEvents
  BY <1>1, ReadCounts
<1>3. /\ pc = "resolve" /\ pc' = pc /\ d \in round.todo /\ round.ceiling = {}
      /\ world' = world /\ synced' = synced /\ gauges' = gauges /\ deficits' = deficits
  BY ZenonT(60) DEF Resolve
<1>4. /\ WorldOK(world) /\ RoundOK(round) /\ lastGood \in [Dep -> Nat \cup {None}]
      /\ DOMAIN round.got = Labelled(round.deps) \ round.todo
      /\ DOMAIN round.max = Labelled(round.deps) \ round.todo
  BY <1>3 DEF ObserverInv, ObserverTypeOK
<1>5. d \in DOMAIN round.deps /\ round.deps[d].replicas \in Nat /\ d \in Labelled(round.deps)
  BY <1>3, <1>4 DEF RoundOK, Labelled, DepsOK
<1>6. /\ t(hpaErr).value \in Nat
      /\ ~hpaErr => t(hpaErr) = Fresh(d, round.deps[d].replicas)
  BY <1>2, <1>4, <1>5, ResolveFacts
<1> HIDE DEF t
<1>7. lastGood' \in [Dep -> Nat \cup {None}] /\ lastGood'[d] = t(hpaErr).value
      /\ \A e \in Dep \ {d} : lastGood'[e] = lastGood[e]
  BY <1>1, <1>4, <1>6
<1>8. clean' \in BOOLEAN /\ (clean' => clean /\ ~hpaErr)
  BY <1>1, ZenonT(60)
<1>9. ObserverTypeOK'
  BY <1>2, <1>3, <1>7, <1>8, ZenonT(60) DEF ObserverTypeOK
<1>10. /\ round'.deps = round.deps /\ round'.pods = round.pods /\ round'.todo = round.todo
       /\ round'.ceiling = {d} /\ round'.got = With(round.got, d, t(hpaErr)) /\ round'.max = round.max
       /\ round' = [deps |-> round'.deps, pods |-> round'.pods, todo |-> round'.todo,
                    ceiling |-> round'.ceiling, got |-> round'.got, max |-> round'.max]
  BY <1>1, <1>4, ZenonT(60) DEF RoundOK
<1>11. /\ DOMAIN round'.got = DOMAIN round.got \cup {d} /\ round'.got[d] = t(hpaErr)
       /\ \A e \in DOMAIN round.got \ {d} : round'.got[e] = round.got[e]
  BY <1>10 DEF With
<1>12. RoundOK(round')
  <2>1. \A e \in DOMAIN round'.got : round'.got[e].value \in Nat
    BY <1>4, <1>6, <1>11, ZenonT(60) DEF RoundOK
  <2> QED BY <1>3, <1>4, <1>10, <2>1, ZenonT(60) DEF RoundOK
<1>13. ASSUME clean'
       PROVE  /\ round'.deps = world'.deps /\ round'.pods = world'.pods
              /\ \A e \in DOMAIN round'.got : round'.got[e] = Fresh(e, world.deps[e].replicas)'
              /\ \A e \in DOMAIN round'.max : round'.max[e] = Max({h.max : h \in HPAsFor(e)} \cup {0})'
  <2>1. /\ round.deps = world.deps /\ round.pods = world.pods
        /\ \A e \in DOMAIN round.got : round.got[e] = Fresh(e, world.deps[e].replicas)
        /\ \A e \in DOMAIN round.max : round.max[e] = Max({h.max : h \in HPAsFor(e)} \cup {0})
    BY <1>3, <1>8, <1>13, ZenonT(60) DEF ObserverInv
  <2>2. \A e \in DOMAIN round'.got : round'.got[e] = Fresh(e, world.deps[e].replicas)
    BY <1>6, <1>8, <1>11, <1>13, <2>1, ZenonT(60)
  <2>3. \A e : HPAsFor(e)' = HPAsFor(e) /\ ScaledObjectFor(e)' = ScaledObjectFor(e)
    BY <1>3, ZenonT(60) DEF HPAsFor, ScaledObjectFor
  <2>4. \A e : Fresh(e, world.deps[e].replicas)' = Fresh(e, world.deps[e].replicas)
    BY <1>3, <2>3, ZenonT(60) DEF Fresh
  <2> QED BY <1>3, <1>10, <2>1, <2>2, <2>3, <2>4, ZenonT(60)
<1>14. ObserverInv'
  <2>1. DOMAIN round'.got = (Labelled(round'.deps) \ round'.todo) \cup round'.ceiling
        /\ DOMAIN round'.max = Labelled(round'.deps) \ round'.todo
    BY <1>4, <1>10, <1>11
  <2> QED BY <1>3, <1>4, <1>12, <1>13, <2>1, ZenonT(60) DEF ObserverInv
<1>15. CleanRoundIsExact'
  BY <1>3 DEF CleanRoundIsExact
<1> QED BY <1>2, <1>7, <1>9, <1>14, <1>15 DEF t

\* One more ceiling: the deployment is done with.
LEMMA ReadCeilingKeeps ==
  ASSUME ObserverTypeOK, ObserverInv, NEW d \in Dep, ReadCeiling(d)
  PROVE  ObserverTypeOK' /\ ObserverInv' /\ CleanRoundIsExact'
<1> DEFINE most == Max({h.max : h \in HPAsFor(d)} \cup {0})
           m(hpaErr) == IF hpaErr THEN 0 ELSE most
<1>1. PICK hpaErr \in Failing :
        /\ round' = [round EXCEPT !.ceiling = {}, !.todo = @ \ {d}, !.max = With(@, d, m(hpaErr))]
        /\ clean' = (clean /\ ~hpaErr) /\ events' = Count(hpaErr)
  BY ZenonT(60) DEF ReadCeiling
<1>2. hpaErr \in BOOLEAN /\ events' \in 0 .. MaxEvents
  BY <1>1, ReadCounts
<1>3. /\ pc = "resolve" /\ pc' = pc /\ round.ceiling = {d} /\ lastGood' = lastGood
      /\ world' = world /\ synced' = synced /\ gauges' = gauges /\ deficits' = deficits
  BY ZenonT(60) DEF ReadCeiling
<1>4. /\ WorldOK(world) /\ RoundOK(round)
      /\ DOMAIN round.got = (Labelled(round.deps) \ round.todo) \cup {d}
      /\ DOMAIN round.max = Labelled(round.deps) \ round.todo
  BY <1>3 DEF ObserverInv
<1>5. d \in round.todo /\ d \in Labelled(round.deps)
  BY <1>3, <1>4 DEF RoundOK
<1>6. most \in 0 .. Half32 - 1 /\ Half32 \in Nat \ {0}
  BY <1>4, HPAFacts, ObserverAssumption, ZenonT(60)
<1> HIDE DEF most
<1>7. m(hpaErr) \in 0 .. Half32 - 1 /\ (~hpaErr => m(hpaErr) = most)
  <2>1. m(hpaErr) = 0 \/ m(hpaErr) = most
    BY ZenonT(60)
  <2> QED BY <1>6, <2>1
<1> HIDE DEF m
<1>8. clean' \in BOOLEAN /\ (clean' => clean /\ ~hpaErr)
  BY <1>1, ZenonT(60)
<1>9. ObserverTypeOK'
  BY <1>2, <1>3, <1>8, ZenonT(60) DEF ObserverTypeOK
<1>10. /\ round'.deps = round.deps /\ round'.pods = round.pods /\ round'.todo = round.todo \ {d}
       /\ round'.ceiling = {} /\ round'.got = round.got /\ round'.max = With(round.max, d, m(hpaErr))
       /\ round' = [deps |-> round'.deps, pods |-> round'.pods, todo |-> round'.todo,
                    ceiling |-> round'.ceiling, got |-> round'.got, max |-> round'.max]
  BY <1>1, <1>4, ZenonT(60) DEF RoundOK
<1>11. /\ DOMAIN round'.max = DOMAIN round.max \cup {d} /\ round'.max[d] = m(hpaErr)
       /\ \A e \in DOMAIN round.max \ {d} : round'.max[e] = round.max[e]
  BY <1>10 DEF With
<1>12. RoundOK(round')
  <2>1. \A e \in DOMAIN round'.max : round'.max[e] \in 0 .. Half32 - 1
    BY <1>4, <1>7, <1>11, ZenonT(60) DEF RoundOK
  <2>2. round'.todo \subseteq Labelled(round'.deps)
    BY <1>4, <1>10, ZenonT(60) DEF RoundOK
  <2> QED BY <1>4, <1>10, <2>1, <2>2, ZenonT(60) DEF RoundOK
<1>13. ASSUME clean'
       PROVE  /\ round'.deps = world'.deps /\ round'.pods = world'.pods
              /\ \A e \in DOMAIN round'.got : round'.got[e] = Fresh(e, world.deps[e].replicas)'
              /\ \A e \in DOMAIN round'.max : round'.max[e] = Max({h.max : h \in HPAsFor(e)} \cup {0})'
  <2>1. /\ round.deps = world.deps /\ round.pods = world.pods
        /\ \A e \in DOMAIN round.got : round.got[e] = Fresh(e, world.deps[e].replicas)
        /\ \A e \in DOMAIN round.max : round.max[e] = Max({h.max : h \in HPAsFor(e)} \cup {0})
    BY <1>3, <1>8, <1>13, ZenonT(60) DEF ObserverInv
  <2>2. \A e \in DOMAIN round'.max : round'.max[e] = Max({h.max : h \in HPAsFor(e)} \cup {0})
    BY <1>7, <1>8, <1>11, <1>13, <2>1, ZenonT(60) DEF most
  <2>3. \A e : HPAsFor(e)' = HPAsFor(e) /\ ScaledObjectFor(e)' = ScaledObjectFor(e)
    BY <1>3, ZenonT(60) DEF HPAsFor, ScaledObjectFor
  <2>4. \A e : Fresh(e, world.deps[e].replicas)' = Fresh(e, world.deps[e].replicas)
    BY <1>3, <2>3, ZenonT(60) DEF Fresh
  <2> QED BY <1>3, <1>10, <2>1, <2>2, <2>3, <2>4, ZenonT(60)
<1>14. ObserverInv'
  <2>1. DOMAIN round'.got = (Labelled(round'.deps) \ round'.todo) \cup round'.ceiling
        /\ DOMAIN round'.max = Labelled(round'.deps) \ round'.todo
    BY <1>4, <1>5, <1>10, <1>11
  <2> QED BY <1>3, <1>4, <1>12, <1>13, <2>1, ZenonT(60) DEF ObserverInv
<1>15. CleanRoundIsExact'
  BY <1>3 DEF CleanRoundIsExact
<1> QED BY <1>9, <1>14, <1>15

\* A change of one kind of object leaves a world the API server allows.
LEMMA ChangedWorld ==
  ASSUME WorldOK(world), NEW kind \in DOMAIN world, NEW v \in Variants[kind],
         world' = [world EXCEPT ![kind] = v]
  PROVE  WorldOK(world')
<1> DEFINE Kinds == {"deps", "hpas", "scaled", "pods", "nodes", "policies", "held"}
<1>1. world = [deps |-> world.deps, hpas |-> world.hpas, scaled |-> world.scaled, pods |-> world.pods,
               nodes |-> world.nodes, policies |-> world.policies, held |-> world.held]
  BY ZenonT(60) DEF WorldOK
<1>2. DOMAIN world = Kinds
  BY <1>1
<1>3. world'.deps = (IF kind = "deps" THEN v ELSE world.deps)
      /\ world'.hpas = (IF kind = "hpas" THEN v ELSE world.hpas)
      /\ world'.scaled = (IF kind = "scaled" THEN v ELSE world.scaled)
      /\ world'.pods = (IF kind = "pods" THEN v ELSE world.pods)
      /\ world'.nodes = (IF kind = "nodes" THEN v ELSE world.nodes)
      /\ world'.policies = (IF kind = "policies" THEN v ELSE world.policies)
  BY <1>2
<1>4. world' = [deps |-> world'.deps, hpas |-> world'.hpas, scaled |-> world'.scaled, pods |-> world'.pods,
                nodes |-> world'.nodes, policies |-> world'.policies, held |-> world'.held]
  BY <1>1, <1>2, ZenonT(60)
<1>5. /\ \A x \in Variants.deps : DepsOK(x)
      /\ \A x \in Variants.hpas : HPAsOK(x)
      /\ \A x \in Variants.scaled : ScaledOK(x)
      /\ \A x \in Variants.pods : PodsOK(x)
      /\ \A x \in Variants.nodes : NodesOK(x)
      /\ \A x \in Variants.policies : PoliciesOK(x)
  BY ObserverAssumption, ZenonT(60)
<1>6. DepsOK(world'.deps) /\ HPAsOK(world'.hpas) /\ ScaledOK(world'.scaled)
      /\ PodsOK(world'.pods) /\ NodesOK(world'.nodes) /\ PoliciesOK(world'.policies)
  BY <1>3, <1>5, ZenonT(60) DEF WorldOK
<1> QED BY <1>4, <1>6, ZenonT(60) DEF WorldOK

\* A change of the world, or of what is known of it, ends a clean round.
LEMMA ChangesKeep ==
  ASSUME ObserverTypeOK, ObserverInv, WorldChanges \/ KedaSyncs
  PROVE  ObserverTypeOK' /\ ObserverInv' /\ CleanRoundIsExact'
<1>1. clean' = FALSE /\ pc' = pc /\ round' = round /\ lastGood' = lastGood /\ gauges' = gauges
      /\ deficits' = deficits
  BY ZenonT(60) DEF WorldChanges, KedaSyncs
<1>2. WorldOK(world')
  <2>1. CASE WorldChanges
    <3>1. PICK kind \in DOMAIN world : \E v \in Variants[kind] \ {world[kind]} :
            world' = [world EXCEPT ![kind] = v]
      BY <2>1, ZenonT(60) DEF WorldChanges
    <3>2. PICK v \in Variants[kind] : world' = [world EXCEPT ![kind] = v]
      BY <3>1, ZenonT(60)
    <3>3. WorldOK(world)
      BY DEF ObserverInv
    <3> QED BY <3>2, <3>3, ChangedWorld, ZenonT(60)
  <2>2. CASE KedaSyncs
    BY <2>2, ZenonT(60) DEF KedaSyncs, ObserverInv
  <2> QED BY <2>1, <2>2
<1>3. events' \in 0 .. MaxEvents /\ synced' \in BOOLEAN
  <2>1. MaxEvents \in Nat /\ events \in 0 .. MaxEvents /\ synced \in BOOLEAN
    BY ObserverAssumption, ZenonT(60) DEF ObserverTypeOK
  <2>2. CASE WorldChanges
    BY <2>1, <2>2 DEF WorldChanges
  <2>3. CASE KedaSyncs
    BY <2>1, <2>3, ZenonT(60) DEF KedaSyncs
  <2> QED BY <2>2, <2>3
<1>4. ObserverTypeOK'
  BY <1>1, <1>3, ZenonT(60) DEF ObserverTypeOK
<1>5. ObserverInv'
  BY <1>1, <1>2, ZenonT(60) DEF ObserverInv
<1>6. CleanRoundIsExact'
  BY <1>1, ZenonT(60) DEF CleanRoundIsExact
<1> QED BY <1>4, <1>5, <1>6

-----------------------------------------------------------------------------
(* What Export makes of a round in which every deployment is resolved.     *)

\* The deficit in int32 is not negative; one that is really positive is exact,
\* and so is a positive one when the capacity fits.
LEMMA DeficitArithmetic ==
  ASSUME NEW hpaMax \in 0 .. Half32 - 1, hpaMax > 0, NEW eligible \in Nat, NEW maxPodsPerNode \in Nat
  PROVE  LET D == capacityDeficit(hpaMax, eligible, maxPodsPerNode)
             p == eligible * maxPodsPerNode IN
         /\ D \in Nat
         /\ hpaMax - p > 0 => D = hpaMax - p
         /\ p < Half32 /\ D > 0 => D = hpaMax - p
<1> DEFINE p == eligible * maxPodsPerNode
           used == Wrapped(p, Half32)
           left == Wrapped(hpaMax - used, Half32)
<1>1. p \in Nat
  OBVIOUS
<1>2. Half32 \in Nat \ {0}
  BY ObserverAssumption, ZenonT(60)
<1>3. capacityDeficit(hpaMax, eligible, maxPodsPerNode) = Larger(left, 0)
  BY DEF capacityDeficit
<1> HIDE DEF p
<1>4. used \in -Half32 .. Half32 - 1 /\ (p \in -Half32 .. Half32 - 1 => used = p)
  BY <1>1, <1>2, WrappedFits
<1> HIDE DEF used
<1>5. left \in -Half32 .. Half32 - 1
      /\ (hpaMax - used \in -Half32 .. Half32 - 1 => left = hpaMax - used)
  <2>1. hpaMax - used \in Int
    BY <1>2, <1>4
  <2> QED BY <1>2, <2>1, WrappedFits
<1> HIDE DEF left
<1>6. p < Half32 => used = p /\ left = hpaMax - p
  BY <1>1, <1>2, <1>4, <1>5
<1>7. Larger(left, 0) \in Nat /\ (left > 0 => Larger(left, 0) = left)
      /\ (Larger(left, 0) > 0 => Larger(left, 0) = left)
  BY <1>2, <1>5 DEF Larger
<1>8. hpaMax - p > 0 => Larger(left, 0) = hpaMax - p
  BY <1>1, <1>2, <1>6, <1>7
<1>9. p < Half32 /\ Larger(left, 0) > 0 => Larger(left, 0) = hpaMax - p
  BY <1>6, <1>7
<1> QED BY <1>3, <1>7, <1>8, <1>9 DEF p

\* The policy that capacityDeficitFor takes is the only one.
LEMMA OnlyPolicy ==
  ASSUME WorldOK(world), NEW s
  PROVE  LET p == CHOOSE q \in Matching(s) : TRUE IN
         Cardinality(Matching(s)) = 1 =>
           /\ p \in world.policies /\ p.maxPodsPerNode \in Nat
           /\ Max({q.maxPodsPerNode : q \in Matching(s)}) = p.maxPodsPerNode
<1> DEFINE M == Matching(s)
           p == CHOOSE q \in M : TRUE
           caps == {q.maxPodsPerNode : q \in M}
<1> SUFFICES ASSUME Cardinality(M) = 1
             PROVE  p \in world.policies /\ p.maxPodsPerNode \in Nat /\ Max(caps) = p.maxPodsPerNode
  BY ZenonT(60)
<1>1. M \subseteq world.policies /\ IsFiniteSet(world.policies)
      /\ \A q \in world.policies : q.maxPodsPerNode \in Nat
  BY ZenonT(60) DEF Matching, WorldOK, PoliciesOK
<1>2. IsFiniteSet(M)
  BY <1>1, FS_Subset, ZenonT(60)
<1>3. \E x : M = {x}
  <2> HIDE DEF M
  <2> QED BY <1>2, FS_Singleton, ZenonT(60)
<1>4. p \in M /\ M = {p}
  BY <1>3, ZenonT(60)
<1>5. p \in world.policies /\ p.maxPodsPerNode \in Nat
  BY <1>1, <1>4, ZenonT(60)
<1>6. caps = {p.maxPodsPerNode}
  BY <1>4, ZenonT(60)
<1> HIDE DEF M, p, caps
<1>7. Max(caps) = p.maxPodsPerNode
  <2>1. p.maxPodsPerNode \in Int
    BY <1>5
  <2>2. caps \in SUBSET Int /\ p.maxPodsPerNode \in caps /\ \A y \in caps : p.maxPodsPerNode >= y
    BY <1>6, <2>1
  <2> QED BY <2>2, LargestIsMax, ZenonT(60)
<1> QED BY <1>5, <1>7

\* Names of eligible nodes count the nodes.
LEMMA EligibleCount ==
  ASSUME WorldOK(world), NEW specs
  PROVE  LET room == {n \in world.nodes : \E spec \in specs : nodeInStableDomain(spec, n)} IN
         /\ Cardinality(Eligible(specs)) = Cardinality(room)
         /\ Cardinality(room) \in Nat /\ Cardinality(room) <= Cardinality(world.nodes)
<1> DEFINE room == {n \in world.nodes : \E spec \in specs : nodeInStableDomain(spec, n)}
           names == {n.name : n \in room}
           name == [n \in room |-> n.name]
<1>1. IsFiniteSet(world.nodes) /\ \A m, n \in world.nodes : m.name = n.name => m = n
  BY ZenonT(60) DEF WorldOK, NodesOK
<1>2. room \subseteq world.nodes
  OBVIOUS
<1>3. Eligible(specs) = names
  BY DEF Eligible
<1> HIDE DEF room
<1>4. IsFiniteSet(room) /\ Cardinality(room) \in Nat /\ Cardinality(room) <= Cardinality(world.nodes)
  BY <1>1, <1>2, FS_Subset, FS_CardinalityType
<1>5. name \in [room -> names] /\ \A t \in names : \E n \in room : name[n] = t
  OBVIOUS
<1>6. \A m, n \in room : name[m] = name[n] => m = n
  BY <1>1, <1>2
<1> HIDE DEF name, names
<1>7. Cardinality(names) = Cardinality(room)
  BY <1>4, <1>5, <1>6, ImageSize, ZenonT(60)
<1> QED BY <1>3, <1>4, <1>7 DEF room

\* Every deployment of the round is resolved.
Resolved == pc = "resolve" /\ round.todo = {} /\ round.ceiling = {}

\* The parts of a sample, for any round.
LEMMA SeriesFacts ==
  ASSUME ObserverInv, Resolved, NEW s \in Service
  PROVE  LET x == Series(s) IN
         /\ x.deps = {d \in DOMAIN round.deps : round.deps[d].service = s}
         /\ x.deps \subseteq DOMAIN round.got /\ x.deps \subseteq DOMAIN round.max
         /\ IsFiniteSet(x.deps)
         /\ x.hpaMax \in 0 .. Half32 - 1 /\ x.hpaMax \in {round.max[d] : d \in x.deps} \cup {0}
         /\ \A d \in x.deps : x.hpaMax >= round.max[d]
         /\ x.sample = [target |-> Max({SumFunction([d \in x.deps |-> round.got[d].value]),
                                        Cardinality(PodsOf(round.pods, s))}),
                        observed |-> Cardinality(PodsOf(round.pods, s)),
                        bound |-> Cardinality(Bound(PodsOf(round.pods, s))),
                        fallback |-> \E d \in x.deps : round.got[d].source \in {"fallback", "lastGood"},
                        reservations |-> world.held[s]]
         /\ x.sample.target >= x.sample.observed /\ x.sample.observed >= x.sample.bound
<1> DEFINE x == Series(s)
           deps == {d \in DOMAIN round.got : round.deps[d].service = s}
           pods == PodsOf(round.pods, s)
           values == [d \in deps |-> round.got[d].value]
           sum == SumFunction(values)
           Most == {round.max[d] : d \in deps} \cup {0}
           fell == \E d \in deps : round.got[d].source \in {"fallback", "lastGood"}
<1>1. RoundOK(round) /\ DOMAIN round.got = Labelled(round.deps) /\ DOMAIN round.max = Labelled(round.deps)
  BY DEF ObserverInv, Resolved
<1>2. deps = {d \in DOMAIN round.deps : round.deps[d].service = s}
      /\ deps \subseteq DOMAIN round.got /\ deps \subseteq DOMAIN round.max
  <2>1. s # Unlabelled
    BY ObserverAssumption, ZenonT(60)
  <2> QED BY <1>1, <2>1 DEF Labelled
<1>3. IsFiniteSet(deps)
  <2>1. DOMAIN round.deps \subseteq Dep /\ IsFiniteSet(Dep)
    BY <1>1, ObserverAssumption, ZenonT(60) DEF RoundOK, DepsOK
  <2>2. deps \subseteq Dep
    BY <1>2, <2>1
  <2> HIDE DEF deps
  <2> QED BY <2>1, <2>2, FS_Subset
<1>4. /\ x.deps = deps /\ x.hpaMax = Max(Most)
      /\ x.sample = [target |-> Larger(sum, Cardinality(pods)), observed |-> Cardinality(pods),
                     bound |-> Cardinality(Bound(pods)), fallback |-> fell,
                     reservations |-> world.held[s]]
  BY DEF Series, aggregateDomain
<1> HIDE DEF deps, pods, fell, x
<1>5. sum \in Nat
  <2>1. DOMAIN values = deps /\ \A d \in deps : values[d] \in Nat
    BY <1>1, <1>2 DEF RoundOK
  <2> HIDE DEF values
  <2> QED BY <1>3, <2>1, SumIsNat
<1>6. /\ Cardinality(pods) \in Nat /\ Cardinality(Bound(pods)) \in Nat
      /\ Cardinality(Bound(pods)) <= Cardinality(pods)
  <2>1. IsFiniteSet(round.pods) /\ pods \subseteq round.pods /\ Bound(pods) \subseteq pods
    BY <1>1 DEF RoundOK, PodsOK, pods, PodsOf, Bound
  <2>2. IsFiniteSet(pods)
    BY <2>1, FS_Subset
  <2>3. IsFiniteSet(Bound(pods)) /\ Cardinality(Bound(pods)) <= Cardinality(pods)
    BY <2>1, <2>2, FS_Subset
  <2> QED BY <2>2, <2>3, FS_CardinalityType
<1> HIDE DEF sum
<1>7. Larger(sum, Cardinality(pods)) = Max({sum, Cardinality(pods)})
      /\ Larger(sum, Cardinality(pods)) >= Cardinality(pods)
  BY <1>5, <1>6, LargerIsMax
<1>8. /\ Max(Most) \in 0 .. Half32 - 1 /\ Max(Most) \in Most
      /\ \A d \in deps : Max(Most) >= round.max[d]
  <2> DEFINE R == {round.max[d] : d \in deps}
             max == [d \in deps |-> round.max[d]]
  <2>1. \A d \in deps : round.max[d] \in 0 .. Half32 - 1
    BY <1>1, <1>2, ZenonT(60) DEF RoundOK
  <2>2. Half32 \in Nat \ {0}
    BY ObserverAssumption, ZenonT(60)
  <2>3. max \in [deps -> R] /\ \A t \in R : \E d \in deps : max[d] = t
    OBVIOUS
  <2>4. Most = R \cup {0} /\ \A d \in deps : round.max[d] \in R
    OBVIOUS
  <2>5. R \subseteq 0 .. Half32 - 1
    BY <2>1
  <2> HIDE DEF R, max, Most
  <2>6. IsFiniteSet(R)
    BY <1>3, <2>3, ImageSize
  <2>7. IsFiniteSet(Most)
    BY <2>4, <2>6, FS_AddElement
  <2>8. Most \in SUBSET Int /\ Most # {} /\ Most \subseteq 0 .. Half32 - 1
    BY <2>2, <2>4, <2>5
  <2>9. Max(Most) \in Most /\ \A y \in Most : Max(Most) >= y
    BY <2>7, <2>8, MaxIsLargest
  <2> QED BY <2>4, <2>8, <2>9, ZenonT(60)
<1>9. x.sample.target >= x.sample.observed /\ x.sample.observed >= x.sample.bound
  BY <1>4, <1>6, <1>7
<1>10. x.sample = [target |-> Max({sum, Cardinality(pods)}), observed |-> Cardinality(pods),
                     bound |-> Cardinality(Bound(pods)), fallback |-> fell,
                     reservations |-> world.held[s]]
  BY <1>4, <1>7, ZenonT(60)
<1> QED BY <1>2, <1>3, <1>4, <1>8, <1>9, <1>10, ZenonT(60) DEF x, sum, pods, fell

\* The deficit of a service is a natural number, whatever the round was.
LEMMA DeficitIsNat ==
  ASSUME WorldOK(world), NEW specs, NEW s, NEW hpaMax \in 0 .. Half32 - 1, NEW failed
  PROVE  capacityDeficitFor(specs, s, hpaMax, failed) \in Nat
<1> DEFINE p == CHOOSE q \in Matching(s) : TRUE
           e == Cardinality(Eligible(specs))
<1>1. CASE hpaMax > 0 /\ ~failed /\ Cardinality(Matching(s)) = 1
  <2>1. capacityDeficitFor(specs, s, hpaMax, failed) = capacityDeficit(hpaMax, e, p.maxPodsPerNode)
    BY <1>1, ZenonT(60) DEF capacityDeficitFor
  <2>2. e \in Nat
    BY EligibleCount, ZenonT(60)
  <2>3. p.maxPodsPerNode \in Nat
    BY <1>1, OnlyPolicy, ZenonT(60)
  <2> HIDE DEF e, p
  <2> QED BY <1>1, <2>1, <2>2, <2>3, DeficitArithmetic, ZenonT(60)
<1>2. CASE ~(hpaMax > 0 /\ ~failed /\ Cardinality(Matching(s)) = 1)
  <2>1. capacityDeficitFor(specs, s, hpaMax, failed) = 0
    BY <1>2, ZenonT(60) DEF capacityDeficitFor
  <2> QED BY <2>1
<1> QED BY <1>1, <1>2

\* A target resolved without an error is the one of the design.
LEMMA FreshIsTarget ==
  ASSUME WorldOK(world), KedaKnown => synced, NEW d \in Dep, NEW replicas \in Nat
  PROVE  /\ Fresh(d, replicas).value = Target(d, replicas)
         /\ Fresh(d, replicas).source \in {"fallback", "lastGood"} <=> Cardinality(HPAsFor(d)) > 1
<1> DEFINE H == HPAsFor(d)
           so == IF KedaKnown THEN world.scaled[d] ELSE None
           least == MinReplicas(so)
<1>1. ScaledObjectFor(d) = so /\ KedaKnown \in BOOLEAN
  BY ObserverAssumption, ZenonT(60) DEF ScaledObjectFor
<1>2. so # None => Larger(least, replicas) = Max({least, replicas})
  <2>1. so # None => so = Unset \/ so \in Int
    BY ZenonT(60) DEF WorldOK, ScaledOK
  <2> HIDE DEF so
  <2>2. so # None => least \in Int
    BY <2>1 DEF MinReplicas
  <2> HIDE DEF least
  <2> QED BY <2>2, LargerIsMax
<1>3. H = {} => ~(Cardinality(H) > 1)
  BY FS_EmptySet
<1>4. Fresh(d, replicas) =
        IF H # {}
        THEN [value |-> Max({h.desired : h \in H}),
              source |-> IF Cardinality(H) > 1 THEN "fallback" ELSE "hpa"]
        ELSE IF so # None
        THEN [value |-> Larger(least, replicas), source |-> "keda"]
        ELSE [value |-> replicas, source |-> "deployment"]
  BY <1>1, ZenonT(60) DEF Fresh
<1>5. Target(d, replicas) =
        IF H # {} THEN Max({h.desired : h \in H})
        ELSE IF so # None THEN Max({least, replicas}) ELSE replicas
  BY ZenonT(60) DEF Target
<1> HIDE DEF H, so, least
<1>6. CASE H # {}
  BY <1>4, <1>5, <1>6 DEF H
<1>7. CASE H = {} /\ so # None
  BY <1>2, <1>3, <1>4, <1>5, <1>7 DEF H
<1>8. CASE H = {} /\ so = None
  BY <1>3, <1>4, <1>5, <1>8 DEF H
<1> QED BY <1>6, <1>7, <1>8

\* The largest of the maxima of each deployment is the largest of all.
LEMMA CeilingOfAll ==
  ASSUME WorldOK(world), NEW deps, NEW m \in Nat,
         \A d \in deps : m >= Max({h.max : h \in HPAsFor(d)} \cup {0}),
         m = 0 \/ \E d \in deps : m = Max({h.max : h \in HPAsFor(d)} \cup {0})
  PROVE  Max({h.max : h \in {g \in world.hpas : g.target \in deps}} \cup {0}) = m
<1> DEFINE all == {h.max : h \in {g \in world.hpas : g.target \in deps}} \cup {0}
           own(d) == {h.max : h \in HPAsFor(d)} \cup {0}
<1>1. all \in SUBSET Int
  BY DEF WorldOK, HPAsOK
<1>2. ASSUME NEW d
      PROVE  Max(own(d)) \in own(d) /\ Max(own(d)) \in Int /\ \A h \in HPAsFor(d) : Max(own(d)) >= h.max
  <2>1. /\ Max(own(d)) \in 0 .. Half32 - 1 /\ Max(own(d)) \in own(d)
        /\ \A h \in HPAsFor(d) : Max(own(d)) >= h.max
    BY HPAFacts, ZenonT(60)
  <2>2. Half32 \in Nat
    BY ObserverAssumption, ZenonT(60)
  <2>3. Max(own(d)) \in Int
    <3> DEFINE k == Max(own(d))
    <3>1. k \in 0 .. Half32 - 1
      BY <2>1, ZenonT(60)
    <3> HIDE DEF k
    <3>2. k \in Int
      BY <2>2, <3>1
    <3> QED BY <3>2, ZenonT(60) DEF k
  <2> QED BY <2>1, <2>3, ZenonT(60)
<1>3. \A d \in deps : own(d) \subseteq all
  BY DEF HPAsFor
<1>4. m \in all
  <2>1. CASE m = 0
    BY <2>1
  <2>2. CASE \E d \in deps : m = Max(own(d))
    <3> HIDE DEF all
    <3> QED BY <1>2, <1>3, <2>2, ZenonT(60)
  <2> QED BY <2>1, <2>2, ZenonT(60)
<1>5. ASSUME NEW y \in all PROVE m >= y
  <2>1. CASE y = 0
    BY <2>1
  <2>2. CASE y # 0
    <3>1. PICK h \in world.hpas : h.target \in deps /\ y = h.max
      BY <2>2, ZenonT(60)
    <3>2. h \in HPAsFor(h.target)
      BY <3>1, ZenonT(60) DEF HPAsFor
    <3> DEFINE k == Max(own(h.target))
    <3>3. m >= k /\ k \in Int /\ k >= y
      BY <1>2, <3>1, <3>2, ZenonT(60)
    <3>4. y \in Int
      BY <1>1, ZenonT(60)
    <3> HIDE DEF k
    <3> QED BY <3>3, <3>4
  <2> QED BY <2>1, <2>2
<1> HIDE DEF all
<1>6. Max(all) = m
  BY <1>1, <1>4, <1>5, LargestIsMax
<1> QED BY <1>6 DEF all

\* What a clean round makes of a service.
LEMMA CleanSeries ==
  ASSUME ObserverInv, Resolved, clean, NEW s \in Service
  PROVE  LET x == Series(s)
             live == {p \in world.pods : p.service = s /\ p.phase \notin {"Succeeded", "Failed"}} IN
         /\ x.deps = DepsOf(s) /\ round.deps = world.deps
         /\ x.hpaMax = Max({h.max : h \in {g \in world.hpas : g.target \in DepsOf(s)}} \cup {0})
         /\ (KedaKnown => synced) =>
              x.sample =
                [target |-> Max({SumFunction([d \in DepsOf(s) |-> Target(d, world.deps[d].replicas)]),
                                 Cardinality(live)}),
                 observed |-> Cardinality(live),
                 bound |-> Cardinality({p \in live : p.node # None}),
                 fallback |-> \E d \in DepsOf(s) : Cardinality(HPAsFor(d)) > 1,
                 reservations |-> world.held[s]]
<1> DEFINE x == Series(s)
           live == {p \in world.pods : p.service = s /\ p.phase \notin {"Succeeded", "Failed"}}
           own(d) == Max({h.max : h \in HPAsFor(d)} \cup {0})
           values == [d \in x.deps |-> round.got[d].value]
           targets == [d \in DepsOf(s) |-> Target(d, world.deps[d].replicas)]
<1>1. /\ WorldOK(world) /\ round.deps = world.deps /\ round.pods = world.pods
      /\ \A d \in DOMAIN round.got : round.got[d] = Fresh(d, world.deps[d].replicas)
      /\ \A d \in DOMAIN round.max : round.max[d] = own(d)
  BY ZenonT(60) DEF ObserverInv, Resolved
<1>2. /\ x.deps = {d \in DOMAIN round.deps : round.deps[d].service = s}
      /\ x.deps \subseteq DOMAIN round.got /\ x.deps \subseteq DOMAIN round.max
      /\ x.hpaMax \in 0 .. Half32 - 1 /\ x.hpaMax \in {round.max[d] : d \in x.deps} \cup {0}
      /\ \A d \in x.deps : x.hpaMax >= round.max[d]
      /\ x.sample = [target |-> Max({SumFunction(values), Cardinality(PodsOf(round.pods, s))}),
                     observed |-> Cardinality(PodsOf(round.pods, s)),
                     bound |-> Cardinality(Bound(PodsOf(round.pods, s))),
                     fallback |-> \E d \in x.deps : round.got[d].source \in {"fallback", "lastGood"},
                     reservations |-> world.held[s]]
  BY SeriesFacts, ZenonT(60)
<1>3. x.deps = DepsOf(s)
  BY <1>1, <1>2, ZenonT(60) DEF DepsOf
<1> HIDE DEF x
<1>4. x.hpaMax = Max({h.max : h \in {g \in world.hpas : g.target \in DepsOf(s)}} \cup {0})
  <2>1. x.hpaMax \in Nat
    BY <1>2
  <2>2. \A d \in x.deps : x.hpaMax >= own(d)
    BY <1>1, <1>2, ZenonT(60)
  <2>3. x.hpaMax = 0 \/ \E d \in x.deps : x.hpaMax = own(d)
    BY <1>1, <1>2, ZenonT(60)
  <2> HIDE DEF own
  <2>4. Max({h.max : h \in {g \in world.hpas : g.target \in x.deps}} \cup {0}) = x.hpaMax
    BY <1>1, <2>1, <2>2, <2>3, CeilingOfAll, ZenonT(60) DEF own
  <2> QED BY <1>3, <2>4, ZenonT(60)
<1>5. PodsOf(round.pods, s) = live
  <2>1. \A p \in world.pods : p.phase \in {"Pending", "Running", "Succeeded", "Failed"}
    BY <1>1, ZenonT(60) DEF WorldOK, PodsOK
  <2>2. \A p \in world.pods : p.phase \in {"Pending", "Running"} <=> p.phase \notin {"Succeeded", "Failed"}
    BY <2>1
  <2> QED BY <1>1, <2>2, ZenonT(60) DEF PodsOf
<1>6. Bound(live) = {p \in live : p.node # None}
  BY ZenonT(60) DEF Bound
<1>7. \A d \in DepsOf(s) : d \in Dep /\ world.deps[d].replicas \in Nat
  BY <1>1, ZenonT(60) DEF WorldOK, DepsOK, DepsOf
<1>8. ASSUME KedaKnown => synced
      PROVE  /\ SumFunction(values) = SumFunction(targets)
             /\ (\E d \in x.deps : round.got[d].source \in {"fallback", "lastGood"})
                  <=> \E d \in DepsOf(s) : Cardinality(HPAsFor(d)) > 1
  <2>1. \A d \in DepsOf(s) : /\ round.got[d].value = Target(d, world.deps[d].replicas)
                             /\ round.got[d].source \in {"fallback", "lastGood"} <=> Cardinality(HPAsFor(d)) > 1
    <3> TAKE d \in DepsOf(s)
    <3>1. round.got[d] = Fresh(d, world.deps[d].replicas)
      BY <1>1, <1>2, <1>3, ZenonT(60)
    <3>2. d \in Dep /\ world.deps[d].replicas \in Nat
      BY <1>7, ZenonT(60)
    <3> QED BY <1>1, <1>8, <3>1, <3>2, FreshIsTarget, ZenonT(60)
  <2>2. values = targets
    BY <1>3, <2>1, ZenonT(60)
  <2> QED BY <1>3, <2>1, <2>2, ZenonT(60)
<1> HIDE DEF live, values, targets
<1>9. ASSUME KedaKnown => synced
      PROVE  x.sample = [target |-> Max({SumFunction(targets), Cardinality(live)}),
                         observed |-> Cardinality(live), bound |-> Cardinality(Bound(live)),
                         fallback |-> \E d \in DepsOf(s) : Cardinality(HPAsFor(d)) > 1,
                         reservations |-> world.held[s]]
  <2>1. (\E d \in x.deps : round.got[d].source \in {"fallback", "lastGood"})
          = (\E d \in DepsOf(s) : Cardinality(HPAsFor(d)) > 1)
    BY <1>8, <1>9, ZenonT(60)
  <2> QED BY <1>2, <1>5, <1>8, <1>9, <2>1, ZenonT(60)
<1> QED BY <1>1, <1>3, <1>4, <1>6, <1>9, ZenonT(60) DEF x, live, targets

\* What a clean round makes of the deficit: exact when there is one, and then
\* only, unless the capacity overflows.
LEMMA CleanDeficit ==
  ASSUME ObserverInv, Resolved, clean, NEW s \in Service
  PROVE  LET x == Series(s)
             D == capacityDeficitFor({round.deps[d].spec : d \in x.deps}, s, x.hpaMax, FALSE) IN
         /\ TrueDeficit(s) > 0 => D = TrueDeficit(s)
         /\ CapsFit /\ D > 0 => D = TrueDeficit(s)
<1> DEFINE x == Series(s)
           specs == {round.deps[d].spec : d \in x.deps}
           D == capacityDeficitFor(specs, s, x.hpaMax, FALSE)
           most == Max({h.max : h \in {g \in world.hpas : g.target \in DepsOf(s)}} \cup {0})
           room == {n \in world.nodes : \E d \in DepsOf(s) : nodeInStableDomain(world.deps[d].spec, n)}
           open == {n \in world.nodes : \E spec \in specs : nodeInStableDomain(spec, n)}
           p == CHOOSE q \in Matching(s) : TRUE
           one == Cardinality(Matching(s)) = 1
           cap == Max({q.maxPodsPerNode : q \in Matching(s)})
           e == Cardinality(Eligible(specs))
<1>1. x.deps = DepsOf(s) /\ round.deps = world.deps /\ x.hpaMax = most /\ WorldOK(world)
  BY CleanSeries, ZenonT(60) DEF ObserverInv
<1>2. most \in 0 .. Half32 - 1
  BY <1>1, SeriesFacts, ZenonT(60)
<1>3. open = room
  BY <1>1, ZenonT(60)
<1>4. e = Cardinality(open) /\ e \in Nat /\ e <= Cardinality(world.nodes)
  BY <1>1, EligibleCount, ZenonT(60)
<1>5. one => p \in world.policies /\ p.maxPodsPerNode \in Nat /\ cap = p.maxPodsPerNode
  BY <1>1, OnlyPolicy, ZenonT(60)
<1>6. TrueDeficit(s) = IF most = 0 \/ ~one THEN 0 ELSE most - Cardinality(room) * cap
  BY ZenonT(60) DEF TrueDeficit
<1>7. D = IF most > 0 /\ one THEN capacityDeficit(most, e, p.maxPodsPerNode) ELSE 0
  <2>1. D = IF x.hpaMax > 0 /\ ~FALSE /\ one THEN capacityDeficit(x.hpaMax, e, p.maxPodsPerNode) ELSE 0
    BY ZenonT(60) DEF capacityDeficitFor
  <2> HIDE DEF D, e, p, one, most, x
  <2> QED BY <1>1, <2>1, ZenonT(60)
<1>8. Cardinality(room) = e
  BY <1>3, <1>4, ZenonT(60)
<1>9. IsFiniteSet(world.nodes) /\ Cardinality(world.nodes) \in Nat
  BY <1>1, FS_CardinalityType, ZenonT(60) DEF WorldOK, NodesOK
<1> HIDE DEF D, most, room, open, p, one, cap, e
<1>10. CASE most > 0 /\ one
  <2> DEFINE C == capacityDeficit(most, e, p.maxPodsPerNode)
             used == e * p.maxPodsPerNode
  <2>1. D = C /\ TrueDeficit(s) = most - used
    BY <1>2, <1>5, <1>6, <1>7, <1>8, <1>10
  <2>2. C \in Nat /\ (most - used > 0 => C = most - used) /\ (used < Half32 /\ C > 0 => C = most - used)
    BY <1>2, <1>4, <1>5, <1>10, DeficitArithmetic, ZenonT(60)
  <2>3. ASSUME CapsFit PROVE used < Half32
    <3>1. p.maxPodsPerNode * Cardinality(world.nodes) < Half32
      BY <1>5, <1>10, <2>3, ZenonT(60) DEF CapsFit
    <3> DEFINE c == p.maxPodsPerNode
               n == Cardinality(world.nodes)
    <3>2. c \in Nat /\ n \in Nat /\ e \in Nat /\ e <= n /\ Half32 \in Nat /\ c * n < Half32
      BY <1>4, <1>5, <1>9, <1>10, <3>1, ObserverAssumption, ZenonT(60)
    <3> HIDE DEF c, n
    <3>3. e * c <= c * n
      BY <3>2
    <3>4. e * c < Half32
      BY <3>2, <3>3
    <3> QED BY <3>4 DEF c
  <2> HIDE DEF C, used
  <2>4. TrueDeficit(s) > 0 => D = TrueDeficit(s)
    BY <2>1, <2>2, ZenonT(60)
  <2>5. CapsFit /\ D > 0 => D = TrueDeficit(s)
    BY <2>1, <2>2, <2>3, ZenonT(60)
  <2> QED BY <2>4, <2>5, ZenonT(60) DEF D
<1>11. CASE ~(most > 0 /\ one)
  <2>1. D = 0 /\ TrueDeficit(s) = 0
    BY <1>2, <1>6, <1>7, <1>11
  <2>2. ~(D > 0) /\ ~(TrueDeficit(s) > 0)
    BY <2>1
  <2> QED BY <2>2, ZenonT(60) DEF D
<1> QED BY <1>10, <1>11, ZenonT(60)

\* The effect of Export, service by service.
LEMMA ExportFacts ==
  ASSUME ObserverTypeOK, ObserverInv, Export
  PROVE  /\ Resolved /\ Abandon /\ world' = world /\ synced' = synced /\ lastGood' = lastGood
         /\ clean' \in BOOLEAN /\ events' \in 0 .. MaxEvents /\ (clean' => clean)
         /\ deficits' \in [Service -> (Nat \ {0}) \cup {None}]
         /\ \A s \in Service :
              LET x == Series(s)
                  D == capacityDeficitFor({round.deps[d].spec : d \in x.deps}, s, x.hpaMax, FALSE) IN
              /\ gauges'[s] = (IF x.deps = {} THEN gauges[s] ELSE x.sample)
              /\ clean' => deficits'[s] = (IF D > 0 THEN D ELSE deficits[s])
<1> DEFINE specs(s) == {round.deps[d].spec : d \in Series(s).deps}
           D(s, failed) == capacityDeficitFor(specs(s), s, Series(s).hpaMax, failed)
           new(s, failed) == IF D(s, failed) > 0 THEN D(s, failed) ELSE deficits[s]
<1>1. PICK failed \in Failing :
        /\ deficits' = [s \in Service |-> new(s, failed)]
        /\ clean' = (clean /\ ~failed) /\ events' = Count(failed)
  BY ZenonT(60) DEF Export
<1>2. failed \in BOOLEAN /\ events' \in 0 .. MaxEvents
  BY <1>1, ReadCounts
<1>3. clean' \in BOOLEAN /\ (clean' => clean /\ failed = FALSE)
  BY <1>1, <1>2, ZenonT(60)
<1>4. /\ Resolved /\ Abandon /\ world' = world /\ synced' = synced /\ lastGood' = lastGood
      /\ gauges' = [s \in Service |-> IF Series(s).deps = {} THEN gauges[s] ELSE Series(s).sample]
  BY ZenonT(60) DEF Export, Resolved
<1>5. \A s \in Service : gauges'[s] = (IF Series(s).deps = {} THEN gauges[s] ELSE Series(s).sample)
  BY <1>4, ZenonT(60)
<1>6. ASSUME NEW s \in Service PROVE D(s, failed) \in Nat
  <2>1. Series(s).hpaMax \in 0 .. Half32 - 1 /\ WorldOK(world)
    BY <1>4, SeriesFacts, ZenonT(60) DEF ObserverInv
  <2> QED BY <2>1, DeficitIsNat, ZenonT(60)
<1> HIDE DEF D
<1>7. deficits' \in [Service -> (Nat \ {0}) \cup {None}]
  <2>1. deficits \in [Service -> (Nat \ {0}) \cup {None}]
    BY DEF ObserverTypeOK
  <2>2. \A s \in Service : new(s, failed) \in (Nat \ {0}) \cup {None}
    BY <1>6, <2>1
  <2> HIDE DEF new
  <2> QED BY <1>1, <2>2
<1>8. \A s \in Service : clean' => deficits'[s] = (IF D(s, FALSE) > 0 THEN D(s, FALSE) ELSE deficits[s])
  BY <1>1, <1>3, ZenonT(60)
<1> QED BY <1>2, <1>3, <1>4, <1>5, <1>7, <1>8, ZenonT(60) DEF D

\* Export ends a round; if it was clean, the gauges it leaves are exact.
LEMMA ExportKeeps ==
  ASSUME ObserverTypeOK, ObserverInv, Export
  PROVE  ObserverTypeOK' /\ ObserverInv' /\ CleanRoundIsExact'
<1>1. /\ Resolved /\ Abandon /\ world' = world /\ synced' = synced /\ lastGood' = lastGood
      /\ clean' \in BOOLEAN /\ events' \in 0 .. MaxEvents /\ (clean' => clean)
      /\ deficits' \in [Service -> (Nat \ {0}) \cup {None}]
      /\ \A s \in Service : gauges'[s] = (IF Series(s).deps = {} THEN gauges[s] ELSE Series(s).sample)
  BY ExportFacts, ZenonT(60)
<1>2. ObserverInv'
  BY <1>1, AbandonKeeps
<1>3. ObserverTypeOK'
  <2>1. \A s \in Service : gauges'[s] # None => /\ gauges'[s].target >= gauges'[s].observed
                                               /\ gauges'[s].observed >= gauges'[s].bound
    <3> SUFFICES ASSUME NEW s \in Service, gauges'[s] # None
                 PROVE  gauges'[s].target >= gauges'[s].observed /\ gauges'[s].observed >= gauges'[s].bound
      BY ZenonT(60)
    <3>1. CASE Series(s).deps = {}
      BY <1>1, <3>1, ZenonT(60) DEF ObserverTypeOK
    <3>2. CASE Series(s).deps # {}
      BY <1>1, <3>2, SeriesFacts, ZenonT(60)
    <3> QED BY <3>1, <3>2
  <2> QED BY <1>1, <2>1, ZenonT(60) DEF Abandon, ObserverTypeOK
<1>4. CleanRoundIsExact'
  <2> SUFFICES ASSUME clean', KedaKnown => synced', NEW s \in Service, DepsOf(s)' # {} PROVE Exact(s)'
    BY ZenonT(60) DEF CleanRoundIsExact, AllExact
  <2>1. clean /\ (KedaKnown => synced)
    BY <1>1, ZenonT(60)
  <2> DEFINE x == Series(s)
             D == capacityDeficitFor({round.deps[d].spec : d \in x.deps}, s, x.hpaMax, FALSE)
             live == {p \in world.pods : p.service = s /\ p.phase \notin {"Succeeded", "Failed"}}
             sample == [target |-> Max({SumFunction([d \in DepsOf(s) |-> Target(d, world.deps[d].replicas)]),
                                        Cardinality(live)}),
                        observed |-> Cardinality(live),
                        bound |-> Cardinality({p \in live : p.node # None}),
                        fallback |-> \E d \in DepsOf(s) : Cardinality(HPAsFor(d)) > 1,
                        reservations |-> world.held[s]]
  <2>2. x.deps = DepsOf(s) /\ x.sample = sample
    BY <1>1, <2>1, CleanSeries, ZenonT(60)
  <2>3. (TrueDeficit(s) > 0 => D = TrueDeficit(s)) /\ deficits'[s] = (IF D > 0 THEN D ELSE deficits[s])
    BY <1>1, <2>1, CleanDeficit, ExportFacts, ZenonT(60)
  <2>4. /\ DepsOf(s)' = DepsOf(s) /\ \A d : HPAsFor(d)' = HPAsFor(d) /\ Matching(s)' = Matching(s)
    BY <1>1, ZenonT(60) DEF DepsOf, HPAsFor, Matching
  <2>5. TrueDeficit(s)' = TrueDeficit(s)
    BY <1>1, <2>4, ZenonT(60) DEF TrueDeficit
  <2>6. \A d : Target(d, world.deps[d].replicas)' = Target(d, world.deps[d].replicas)
    BY <1>1, <2>4, ZenonT(60) DEF Target
  <2>7. gauges'[s] = sample
    <3> HIDE DEF sample
    <3> QED BY <1>1, <2>2, <2>4, ZenonT(60)
  <2>8. sample' = sample
    BY <1>1, <2>4, <2>6, ZenonT(60)
  <2>9. TrueDeficit(s) > 0 => deficits'[s] = TrueDeficit(s)
    BY <2>3, ZenonT(60)
  <2> QED BY <1>1, <2>5, <2>7, <2>8, <2>9, ZenonT(60) DEF Exact
<1> QED BY <1>2, <1>3, <1>4

-----------------------------------------------------------------------------
(* The theorems.                                                           *)

\* The inductive invariant.
ObserverIInv == ObserverTypeOK /\ ObserverInv /\ CleanRoundIsExact

\* Every step of the loop and of its environment keeps the invariant.
LEMMA ObserverStep ==
  ASSUME ObserverIInv, [ObserverNext]_observerVars
  PROVE  ObserverIInv'
<1>1. ObserverTypeOK /\ ObserverInv /\ CleanRoundIsExact
  BY DEF ObserverIInv
<1>2. CASE ListDeployments
  BY <1>1, <1>2, ListDeploymentsKeeps, ZenonT(60) DEF ObserverIInv
<1>3. CASE ListPods
  BY <1>1, <1>3, ListPodsKeeps, ZenonT(60) DEF ObserverIInv
<1>4. CASE Export
  BY <1>1, <1>4, ExportKeeps, ZenonT(60) DEF ObserverIInv
<1>5. ASSUME NEW d \in Dep, Resolve(d) PROVE ObserverIInv'
  BY <1>1, <1>5, ResolveKeeps, ZenonT(60) DEF ObserverIInv
<1>6. ASSUME NEW d \in Dep, ReadCeiling(d) PROVE ObserverIInv'
  BY <1>1, <1>6, ReadCeilingKeeps, ZenonT(60) DEF ObserverIInv
<1>7. CASE WorldChanges \/ KedaSyncs
  BY <1>1, <1>7, ChangesKeep, ZenonT(60) DEF ObserverIInv
<1>8. CASE UNCHANGED observerVars
  <2>1. /\ world' = world /\ synced' = synced /\ pc' = pc /\ round' = round /\ lastGood' = lastGood
        /\ gauges' = gauges /\ deficits' = deficits /\ clean' = clean /\ events' = events
    BY <1>8, ZenonT(60) DEF observerVars
  <2>2. ObserverTypeOK'
    BY <1>1, <2>1, ZenonT(60) DEF ObserverTypeOK
  <2>3. \A d : HPAsFor(d)' = HPAsFor(d) /\ ScaledObjectFor(d)' = ScaledObjectFor(d)
    BY <2>1, ZenonT(60) DEF HPAsFor, ScaledObjectFor
  <2>4. \A d : Fresh(d, world.deps[d].replicas)' = Fresh(d, world.deps[d].replicas)
    BY <2>1, <2>3, ZenonT(60) DEF Fresh
  <2>5. ObserverInv'
    BY <1>1, <2>1, <2>3, <2>4, ZenonT(60) DEF ObserverInv
  <2>6. \A s : /\ DepsOf(s)' = DepsOf(s) /\ Matching(s)' = Matching(s)
               /\ \A d : Target(d, world.deps[d].replicas)' = Target(d, world.deps[d].replicas)
    BY <2>1, <2>3, ZenonT(60) DEF DepsOf, Matching, Target
  <2>7. \A s : TrueDeficit(s)' = TrueDeficit(s)
    BY <2>1, <2>6, ZenonT(60) DEF TrueDeficit
  <2>8. \A s : Exact(s)' <=> Exact(s)
    BY <2>1, <2>3, <2>6, <2>7, ZenonT(60) DEF Exact
  <2>9. CleanRoundIsExact'
    BY <1>1, <2>1, <2>6, <2>8, ZenonT(60) DEF CleanRoundIsExact, AllExact
  <2> QED BY <2>2, <2>5, <2>9 DEF ObserverIInv
<1> QED BY <1>2, <1>3, <1>4, <1>5, <1>6, <1>7, <1>8, ZenonT(60) DEF ObserverNext

\* The invariant holds throughout.
LEMMA ObserverInductive == ObserverSpec => []ObserverIInv
<1>1. ObserverInit => ObserverIInv
  BY InitKeeps DEF ObserverIInv
<1>2. ObserverIInv /\ [ObserverNext]_observerVars => ObserverIInv'
  BY ObserverStep
<1> QED BY <1>1, <1>2, PTL DEF ObserverSpec

\* No sample reports a target below the observed pods, nor observed pods below
\* the bound ones, and a deficit once exported is positive (aggregateDomain,
\* Compute and ExportSeries).
THEOREM ObserverIsTyped == ObserverSpec => []ObserverTypeOK
<1>1. ObserverIInv => ObserverTypeOK
  BY DEF ObserverIInv
<1> QED BY <1>1, ObserverInductive, PTL

\* Between two reads Compute has a target for every labelled deployment it is
\* done with and for the current one, and in a clean round only what the caches
\* still say.
THEOREM RoundsAreTracked == ObserverSpec => []ObserverInv
<1>1. ObserverIInv => ObserverInv
  BY DEF ObserverIInv
<1> QED BY <1>1, ObserverInductive, PTL

\* A round in which every read succeeded and nothing changed leaves exact
\* gauges, for any number of deployments, HPAs, pods, nodes and policies and
\* whatever outages and torn rounds came before (Compute, ExportSeries and
\* ExportReservations).
THEOREM CleanRoundsAreExact == ObserverSpec => []CleanRoundIsExact
<1>1. ObserverIInv => CleanRoundIsExact
  BY DEF ObserverIInv
<1> QED BY <1>1, ObserverInductive, PTL

\* An HPA read error never replaces the remembered target of a deployment that
\* KEDA does not manage (resolveDeploymentTarget).
THEOREM OutagesKeepLastGood == ObserverSpec => OutageKeepsLastGood
<1> DEFINE A == \A d \in Dep : lastGood[d] # None /\ lastGood'[d] # lastGood[d] /\ world.scaled[d] = None
                  => lastGood'[d] = Target(d, round.deps[d].replicas)
<1>1. ASSUME ObserverIInv, [ObserverNext]_observerVars PROVE [A]_observerVars
  <2> SUFFICES ASSUME ObserverNext, NEW d \in Dep, lastGood[d] # None, lastGood'[d] # lastGood[d],
                      world.scaled[d] = None
               PROVE  lastGood'[d] = Target(d, round.deps[d].replicas)
    BY <1>1, ZenonT(60)
  <2>1. ObserverTypeOK /\ ObserverInv
    BY <1>1 DEF ObserverIInv
  <2>2. lastGood' # lastGood
    BY ZenonT(60)
  <2>3. PICK e \in Dep : Resolve(e)
    BY <2>2, ZenonT(60) DEF ObserverNext, ListDeployments, ListPods, Export, ReadCeiling, WorldChanges, KedaSyncs
  <2>4. Resolve(d)
    BY <2>1, <2>3, ResolveKeeps, ZenonT(60)
  <2>5. PICK hpaErr \in BOOLEAN :
          lastGood'[d] = resolveDeploymentTarget(d, round.deps[d].replicas, hpaErr).value
    BY <2>1, <2>4, ResolveKeeps, ZenonT(60)
  <2>6. WorldOK(world) /\ lastGood \in [Dep -> Nat \cup {None}] /\ round.deps[d].replicas \in Nat
    <3>1. d \in round.todo /\ RoundOK(round)
      BY <2>1, <2>4, ZenonT(60) DEF Resolve, ObserverInv
    <3>2. round.deps[d].replicas \in Nat
      BY <3>1 DEF RoundOK, Labelled, DepsOK
    <3> QED BY <2>1, <3>2, ZenonT(60) DEF ObserverInv, ObserverTypeOK
  <2>7. ScaledObjectFor(d) = None
    BY ZenonT(60) DEF ScaledObjectFor
  <2>8. ~hpaErr /\ lastGood'[d] = Fresh(d, round.deps[d].replicas).value
    BY <2>5, <2>6, <2>7, ResolveFacts, ZenonT(60)
  <2>9. Fresh(d, round.deps[d].replicas).value = Target(d, round.deps[d].replicas)
    BY <2>7 DEF Fresh, Target
  <2> QED BY <2>8, <2>9
<1>2. OutageKeepsLastGood <=> [][A]_observerVars
  BY DEF OutageKeepsLastGood
<1> HIDE DEF A
<1> QED BY <1>1, <1>2, ObserverInductive, PTL DEF ObserverSpec

\* A deficit that a clean round reports anew is the one that unbounded
\* arithmetic gives, if capacities fit in an int32 (capacityDeficitFor).
THEOREM DeficitsAreReal == ObserverSpec => DeficitIsReal
<1> DEFINE A == \A s \in Service : deficits'[s] # deficits[s] /\ clean' /\ CapsFit
                  => deficits'[s] = TrueDeficit(s)
<1>1. ASSUME ObserverIInv, [ObserverNext]_observerVars PROVE [A]_observerVars
  <2> SUFFICES ASSUME ObserverNext, NEW s \in Service, deficits'[s] # deficits[s], clean', CapsFit
               PROVE  deficits'[s] = TrueDeficit(s)
    BY <1>1, ZenonT(60)
  <2>1. ObserverTypeOK /\ ObserverInv
    BY <1>1 DEF ObserverIInv
  <2>2. deficits' # deficits
    BY ZenonT(60)
  <2>3. Export
    BY <2>2, ZenonT(60) DEF ObserverNext, ListDeployments, ListPods, Resolve, ReadCeiling, WorldChanges, KedaSyncs
  <2> DEFINE x == Series(s)
             D == capacityDeficitFor({round.deps[d].spec : d \in x.deps}, s, x.hpaMax, FALSE)
  <2>4. Resolved /\ clean /\ deficits'[s] = (IF D > 0 THEN D ELSE deficits[s])
    BY <2>1, <2>3, ExportFacts, ZenonT(60)
  <2>5. CapsFit /\ D > 0 => D = TrueDeficit(s)
    BY <2>1, <2>4, CleanDeficit, ZenonT(60)
  <2> HIDE DEF D
  <2> QED BY <2>4, <2>5, ZenonT(60)
<1>2. DeficitIsReal <=> [][A]_observerVars
  BY DEF DeficitIsReal
<1> HIDE DEF A
<1> QED BY <1>1, <1>2, ObserverInductive, PTL DEF ObserverSpec
=============================================================================
