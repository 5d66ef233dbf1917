---------------------------- MODULE CertRotation ----------------------------
(***************************************************************************)
(* The webhook's self-signed serving certificate: CertRotator              *)
(* (internal/webhook/selfcert.go) and the way cmd/webhook/main.go runs it. *)
(* Every replica makes one pass before its manager starts, the leader one  *)
(* more when it is elected and one every 12 hours.  A pass reads the       *)
(* Secret, writes a new pair, patches the caBundle of the webhook          *)
(* configuration and rolls the Deployment, each with a request of its own. *)
(*                                                                         *)
(* A CA and the leaf it signs are generated together, so one number stands *)
(* for both; 0 is no certificate, 1 and 2 are those found at the start.    *)
(***************************************************************************)
EXTENDS Naturals

CONSTANTS
  Replica,          \* pods of the webhook Deployment
  NoReplica,        \* nobody holds the leader lease
  Faults,           \* what may go wrong, a subset of FaultKinds
  SerialColdStart,  \* without a Secret, replicas start one after the other
  ReloadReliable,   \* certwatcher misses no change of the mounted files
  MaxEvents         \* bound on ageing and faults together

FaultKinds == {"get", "write", "patch", "roll", "crash", "restart"}

ASSUME CertAssumption ==
  /\ NoReplica \notin Replica
  /\ Faults \subseteq FaultKinds
  /\ SerialColdStart \in BOOLEAN
  /\ MaxEvents \in Nat

VARIABLES
  secret,    \* serving-cert Secret: leaf, ca, whether its type is TLS, version
  due,       \* the Secret's leaf has less than refreshWhenLeft to live
  bundle,    \* the CA in the ValidatingWebhookConfiguration
  issued,    \* the last pair generated
  proc,      \* proc[r]: the process of r is "down", "cold", "boot" or "serve"
  pass,      \* pass[r]: the pass of ensure that r is making
  mount,     \* mount[r]: the pair in r's volume
  served,    \* served[r]: the pair r's TLS server presents
  leader,    \* the replica whose leader-only Runnables run
  rollout,   \* replicas the Deployment controller has yet to replace
  events     \* agings and faults so far

certVars == <<secret, due, bundle, issued, proc, pass, mount, served, leader,
              rollout, events>>
-----------------------------------------------------------------------------
NoPass == [step |-> "none", version |-> 0, tls |-> FALSE, mine |-> 0]

\* Mutant: the age of the leaf is not looked at.
NeedIssueIfUnsigned == secret.version = 0 \/ secret.ca = 0 \/ secret.leaf # secret.ca

\* LeafNeedsRotation and leafSignedBy on what the Secret holds; a Secret that
\* does not exist has version 0.  A leaf verifies against its own CA only.
NeedIssue == \/ secret.version = 0
             \/ secret.ca = 0
             \/ due
             \/ secret.leaf # secret.ca

MayFail(kind) == kind \in Faults /\ events < MaxEvents

\* Where main goes when the pass of r returns, with or without an error: a
\* cold start exits, the bootstrap goes on to start the manager, the leader
\* waits for its ticker.
Return(r) ==
  /\ pass' = [pass EXCEPT ![r] = NoPass]
  /\ proc' = [proc EXCEPT ![r] = CASE @ = "cold" -> "down"
                                   [] @ = "boot" -> "serve"
                                   [] OTHER -> @]

\* main: certwatcher.New loads the mounted pair, or fails when there is none.
\* Either way the process first makes a pass that does not roll.
Start(r) ==
  /\ proc[r] = "down"
  /\ SerialColdStart /\ secret.version = 0 => \A s \in Replica : pass[s] = NoPass
  /\ proc' = [proc EXCEPT ![r] = IF mount[r] = 0 THEN "cold" ELSE "boot"]
  /\ served' = [served EXCEPT ![r] = mount[r]]
  /\ pass' = [pass EXCEPT ![r].step = "get"]
  /\ UNCHANGED <<secret, due, bundle, issued, mount, leader, rollout, events>>

\* Mutant: the Secret's resourceVersion is not carried to the update.
ReadVersionDropped(failed) == 0

\* The version the new Secret names: the one read, none if Get failed.
ReadVersion(failed) == IF failed THEN 0 ELSE secret.version

\* GenerateCA and GenerateLeaf: a pair that none before it verifies.
NewPair == issued + 1

\* ensure: Get, and the new CA and leaf when they are needed.  Get returns an
\* empty object along with an error, whose type and version the new Secret
\* takes over: the err tested at line 320 is GenerateLeaf's.
GetSecret(r) ==
  \E failed \in {FALSE, MayFail("get")} :
    /\ pass[r].step = "get"
    /\ IF failed \/ NeedIssue
         THEN /\ pass' = [pass EXCEPT ![r] =
                   [step |-> "write", mine |-> NewPair,
                    version |-> ReadVersion(failed),
                    tls |-> ~failed /\ secret.tls]]
              /\ issued' = NewPair
              /\ UNCHANGED proc
         ELSE Return(r) /\ UNCHANGED issued
    /\ events' = IF failed THEN events + 1 ELSE events
    /\ UNCHANGED <<secret, due, bundle, mount, served, leader, rollout>>

\* The API server takes an Update that names no version or the current one and
\* leaves the type alone; a Create, of an object that names no version, only
\* when there is no Secret.
UpdateOK(r) ==
  /\ secret.version # 0
  /\ pass[r].version \in {0, secret.version}
  /\ pass[r].tls = secret.tls

CreateOK(r) == secret.version = 0 /\ pass[r].version = 0

\* ensure: Update, else Create, else give up.
WriteSecret(r) ==
  /\ pass[r].step = "write"
  /\ IF UpdateOK(r) \/ CreateOK(r)
       THEN /\ secret' = [leaf |-> pass[r].mine, ca |-> pass[r].mine,
                          tls |-> pass[r].tls, version |-> secret.version + 1]
            /\ due' = FALSE
            /\ pass' = [pass EXCEPT ![r].step = "patch"]
            /\ UNCHANGED proc
       ELSE Return(r) /\ UNCHANGED <<secret, due>>
  /\ UNCHANGED <<bundle, issued, mount, served, leader, rollout, events>>

\* ensure: the caBundle patch; only the leader's pass goes on to roll.
PatchBundle(r) ==
  /\ pass[r].step = "patch"
  /\ bundle' = pass[r].mine
  /\ IF proc[r] = "serve" THEN pass' = [pass EXCEPT ![r].step = "roll"] /\ UNCHANGED proc
                          ELSE Return(r)
  /\ UNCHANGED <<secret, due, issued, mount, served, leader, rollout, events>>

\* rollWebhookDeployment: a new template annotation replaces every pod.
RollDeployment(r) ==
  /\ pass[r].step = "roll"
  /\ rollout' = Replica
  /\ Return(r)
  /\ UNCHANGED <<secret, due, bundle, issued, mount, served, leader, events>>

\* A write, patch or roll request fails: ensure returns at once.
RequestFails(r) ==
  /\ pass[r].step \in {"write", "patch", "roll"} /\ MayFail(pass[r].step)
  /\ Return(r)
  /\ events' = events + 1
  /\ UNCHANGED <<secret, due, bundle, issued, mount, served, leader, rollout>>

\* leaderOnly and Run: the elected replica makes a pass at once, then on every
\* tick.
Elected(r) ==
  /\ leader = NoReplica /\ proc[r] = "serve"
  /\ leader' = r
  /\ pass' = [pass EXCEPT ![r].step = "get"]
  /\ UNCHANGED <<secret, due, bundle, issued, proc, mount, served, rollout, events>>

Tick(r) ==
  /\ leader = r /\ pass[r] = NoPass
  /\ pass' = [pass EXCEPT ![r].step = "get"]
  /\ UNCHANGED <<secret, due, bundle, issued, proc, mount, served, leader, rollout, events>>

\* Mutant: the lease is not released on the way out.
EndsKeepsLease(r) ==
  /\ proc' = [proc EXCEPT ![r] = "down"]
  /\ pass' = [pass EXCEPT ![r] = NoPass]
  /\ served' = [served EXCEPT ![r] = 0]
  /\ UNCHANGED <<leader, secret, due, bundle, issued>>

\* The process of r ends: its pass is lost, its lease lapses.
Ends(r) ==
  /\ proc' = [proc EXCEPT ![r] = "down"]
  /\ pass' = [pass EXCEPT ![r] = NoPass]
  /\ served' = [served EXCEPT ![r] = 0]
  /\ leader' = IF leader = r THEN NoReplica ELSE leader
  /\ UNCHANGED <<secret, due, bundle, issued>>

\* A container dies between two passes or, with crashes, in one.
Dies(r) ==
  /\ proc[r] # "down"
  /\ IF pass[r] = NoPass THEN MayFail("restart") ELSE MayFail("crash")
  /\ Ends(r)
  /\ events' = events + 1
  /\ UNCHANGED <<mount, rollout>>

\* The rolling update replaces r's pod by one that mounts the current Secret.
\* It spares a replica that is in a pass, which takes seconds.
Replaced(r) ==
  /\ r \in rollout /\ pass[r] = NoPass
  /\ Ends(r)
  /\ mount' = [mount EXCEPT ![r] = secret.leaf]
  /\ rollout' = rollout \ {r}
  /\ UNCHANGED events

\* The kubelet brings a new revision of the Secret into the volume.
Propagates(r) ==
  /\ mount[r] # secret.leaf
  /\ mount' = [mount EXCEPT ![r] = secret.leaf]
  /\ UNCHANGED <<secret, due, bundle, issued, proc, pass, served, leader, rollout, events>>

\* certwatcher notices new files and loads them.
Reloads(r) ==
  /\ proc[r] = "serve" /\ served[r] # mount[r]
  /\ served' = [served EXCEPT ![r] = mount[r]]
  /\ UNCHANGED <<secret, due, bundle, issued, proc, pass, mount, leader, rollout, events>>

\* Sixty days pass.  No pass takes that long.
Ages ==
  /\ secret.version # 0 /\ ~due /\ events < MaxEvents
  /\ \A r \in Replica : pass[r] = NoPass
  /\ due' = TRUE
  /\ events' = events + 1
  /\ UNCHANGED <<secret, bundle, issued, proc, pass, mount, served, leader, rollout>>
-----------------------------------------------------------------------------
\* A cluster that has no Secret, a healthy pair whose CA is in the bundle, or
\* a Secret of another source: without ca.crt, or with a CA that did not sign.
CertInit ==
  /\ secret \in {[leaf |-> 0, ca |-> 0, tls |-> FALSE, version |-> 0]}
          \cup [leaf : {1}, ca : {0, 1}, tls : BOOLEAN, version : {1}]
          \cup [leaf : {2}, ca : {1}, tls : BOOLEAN, version : {1}]
  /\ due \in {FALSE, secret.version # 0}
  /\ bundle = secret.ca
  /\ issued = 2
  /\ proc = [r \in Replica |-> "down"]
  /\ pass = [r \in Replica |-> NoPass]
  /\ mount \in [Replica -> {0, secret.leaf}]
  /\ served = [r \in Replica |-> 0]
  /\ leader = NoReplica
  /\ rollout = {}
  /\ events = 0

Pass(r) == GetSecret(r) \/ WriteSecret(r) \/ PatchBundle(r) \/ RollDeployment(r)

CertNext ==
  \/ Ages
  \/ \E r \in Replica :
       \/ Start(r) \/ Elected(r) \/ Tick(r)
       \/ GetSecret(r) \/ WriteSecret(r) \/ PatchBundle(r)
       \/ RollDeployment(r) \/ RequestFails(r)
       \/ Dies(r) \/ Replaced(r) \/ Propagates(r) \/ Reloads(r)

CertSpec == CertInit /\ [][CertNext]_certVars

\* Processes run, the Deployment controller and the kubelet do their work, the
\* lease is taken by someone and the ticker ticks.  Only certwatcher may sleep.
CertFairSpec ==
  /\ CertSpec
  /\ WF_certVars(\E r \in Replica : Elected(r))
  /\ \A r \in Replica :
       /\ WF_certVars(Start(r)) /\ WF_certVars(Pass(r)) /\ WF_certVars(Tick(r))
       /\ WF_certVars(Replaced(r)) /\ WF_certVars(Propagates(r))
       /\ ReloadReliable => WF_certVars(Reloads(r))
-----------------------------------------------------------------------------
Step == {"none", "get", "write", "patch", "roll"}

\* Type invariant.  A pass under way belongs to a process that is alive, and
\* only a replica that serves holds the lease (leaderOnly).
CertTypeOK ==
  /\ secret \in [leaf : Nat, ca : Nat, tls : BOOLEAN, version : Nat]
  /\ due \in BOOLEAN /\ bundle \in Nat /\ issued \in Nat /\ events \in 0..MaxEvents
  /\ proc \in [Replica -> {"down", "cold", "boot", "serve"}]
  /\ pass \in [Replica -> [step : Step, version : Nat, tls : BOOLEAN, mine : Nat]]
  /\ mount \in [Replica -> Nat] /\ served \in [Replica -> Nat]
  /\ leader \in Replica \cup {NoReplica} /\ rollout \subseteq Replica
  /\ \A r \in Replica : proc[r] = "down" => pass[r] = NoPass
  /\ leader # NoReplica => proc[leader] = "serve"

Quiet == \A r \in Replica : pass[r] = NoPass

\* Between passes the API server trusts the CA that signed the stored leaf,
\* however the passes of the replicas overlapped before (ensure's two writes).
BundleTrustsSecret ==
  Quiet /\ secret.version # 0 /\ secret.leaf = secret.ca => bundle = secret.ca

\* No replica replaces a pair that is in order, not even one that read the
\* Secret before another replica renewed it (the version in ensure's Update).
FreshSecretKept == [][secret' # secret => NeedIssue]_certVars

\* Once nothing more goes wrong, every replica comes to serve a leaf that the
\* caBundle verifies and that is not about to expire (Run, bootstrap, kubelet).
ServingConverges ==
  <>[](/\ \A r \in Replica : proc[r] = "serve" /\ served[r] = bundle
       /\ secret.ca = bundle /\ ~due)
=============================================================================
