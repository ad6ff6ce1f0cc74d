------------------------------ MODULE Autoscaler ------------------------------
(***************************************************************************)
(* The compute nodes of a StarRocksCluster and their autoscaler: a pass of *)
(* CnController deploys StatefulSet, services and HorizontalPodAutoscaler, *)
(* or clears them when the section starRocksCnSpec is gone, and records in *)
(* the status the API version of the autoscaler, which a later pass uses   *)
(* to delete it.  The autoscaler writes replicas of the StarRocksCluster   *)
(* itself, and the next pass carries them to the StatefulSet.              *)
(*                                                                         *)
(* Simplifications: a policy is its version and its bounds, metrics and    *)
(* behaviour go with them; the Get of the autoscaler is answered by one    *)
(* cache, whatever the version; a call in a version that the API server    *)
(* does not serve is an error.                                             *)
(***************************************************************************)
EXTENDS Integers

CONSTANTS
  Policies,     \* the policies a user may set: [version, min, max]
  MaxReplicas,  \* bound: replicas a user may ask for
  Minors,       \* minor versions of Kubernetes 1.x
  MaxEdits,     \* bound: edits of the StarRocksCluster
  MaxFaults     \* bound: failed calls, lost passes, restarts, FE outages,
                \* deletions of the autoscaler by others

Versions == {"v1", "v2beta2", "v2"}
NotGiven == ""     \* the version is not given
Unset    == -1     \* minReplicas is not given
Unknown  == 0      \* the version of Kubernetes could not be read

PolicyType == [version : Versions \cup {NotGiven}, min : Int, max : Int]
NoPolicy   == [version |-> NotGiven, min |-> 0, max |-> 0]

ASSUME ConstantsAssumption ==
  /\ Policies \subseteq PolicyType \ {NoPolicy}
  /\ MaxReplicas \in Nat
  /\ Minors \subseteq Nat \ 0 .. 22
  /\ MaxEdits \in Nat
  /\ MaxFaults \in Nat

\* The API versions of autoscaling that Kubernetes 1.minor serves (external).
Served(minor) == {"v1"} \cup (IF minor >= 23 THEN {"v2"} ELSE {})
                        \cup (IF minor <= 25 THEN {"v2beta2"} ELSE {})

\* An explicit version is one that Kubernetes serves, before and after upgrades.
ASSUME ServedAssumption ==
  \A p \in Policies, minor \in Minors : p.version \in Served(minor) \cup {NotGiven}

VARIABLES
  cr,       \* spec.starRocksCnSpec of the StarRocksCluster
  status,   \* the saved status.starRocksCnStatus.horizontalScaler.version
  kube,     \* minor version of the API server
  known,    \* KUBE_MINOR_VERSION of the operator's process
  feReady,  \* do FE's Endpoints hold an address?
  objs,     \* which of CN's StatefulSet and services exist
  sts,      \* replicas of the StatefulSet
  hpa,      \* the autoscaler
  seen,     \* the operator's cached copy of the autoscaler
  pc, at,   \* the phase of the pass and its step, 1 .. 4
  src,      \* the pass's copy of the StarRocksCluster: cr and status
  called,   \* what the pass, or the last one, did to the autoscaler
  upgraded, \* history: Kubernetes has been upgraded
  edits, faults

env  == <<kube, known, feReady, upgraded>>
pass == <<pc, at, src>>
vars == <<cr, status, kube, known, feReady, objs, sts, hpa, seen, pc, at, src,
          called, upgraded, edits, faults>>

Cn(policy, replicas) == [cn |-> TRUE, policy |-> policy, replicas |-> replicas]
NoCn == [cn |-> FALSE, policy |-> NoPolicy, replicas |-> 0]
Crs  == {NoCn} \cup {Cn(p, r) : p \in Policies \cup {NoPolicy}, r \in 0 .. MaxReplicas}

\* spec: the bounds; hash: the object whose hash the annotation holds.
BoundsType == [min : Int, max : Int]
NoHash     == [version |-> NotGiven, min |-> 0, max |-> 0]
HpaType    == [exists : BOOLEAN, spec : BoundsType, hash : PolicyType]
NoHpa      == [exists |-> FALSE, spec |-> [min |-> 0, max |-> 0], hash |-> NoHash]

Bounds(p)      == [min |-> p.min, max |-> p.max]
MinReplicas(b) == IF b.min = Unset THEN 1 ELSE b.min

CrType == [cn : BOOLEAN, policy : Policies \cup {NoPolicy}, replicas : Int]

TypeOK ==
  /\ cr \in CrType
  /\ status \in Versions \cup {NotGiven}
  /\ kube \in Minors
  /\ known \in Minors \cup {Unknown}
  /\ feReady \in BOOLEAN
  /\ objs \in SUBSET {"sts", "external", "search"}
  /\ sts \in Int
  /\ hpa \in HpaType
  /\ seen \in HpaType
  /\ pc \in {"idle", "start", "deploy", "clear", "status", "save"}
  /\ at \in 1 .. 4
  /\ src \in [cr : CrType, status : Versions \cup {NotGiven}]
  /\ called \in {"none", "create", "update", "skip", "delete"}
  /\ upgraded \in BOOLEAN
  /\ edits \in 0 .. MaxEdits
  /\ faults \in 0 .. MaxFaults

NoSrc == [cr |-> NoCn, status |-> NotGiven]

Init ==
  /\ cr \in Crs
  /\ status = NotGiven
  /\ kube \in Minors /\ known = kube
  /\ feReady = TRUE
  /\ objs = {} /\ sts = 0
  /\ hpa = NoHpa /\ seen = NoHpa
  /\ pc = "idle" /\ at = 1 /\ src = NoSrc
  /\ called = "none"
  /\ upgraded = FALSE
  /\ edits = 0 /\ faults = 0

Fault == faults < MaxFaults /\ faults' = faults + 1
Edit  == edits < MaxEdits /\ edits' = edits + 1

-----------------------------------------------------------------------------
(* The user and Kubernetes (external) *)

ChangeSpec ==
  /\ Edit
  /\ cr' \in Crs \ {cr}
  /\ UNCHANGED <<status, env, objs, sts, hpa, seen, pass, called, faults>>

DeleteHpaByHand ==
  /\ Fault
  /\ hpa.exists
  /\ hpa' = NoHpa
  /\ UNCHANGED <<cr, status, env, objs, sts, seen, pass, called, edits>>

\* The autoscaler's target is the StarRocksCluster.  At zero it is disabled.
Scale(replicas) ==
  /\ hpa.exists /\ cr.cn /\ cr.replicas # 0
  /\ replicas \in MinReplicas(hpa.spec) .. hpa.spec.max \ {cr.replicas}
  /\ cr' = [cr EXCEPT !.replicas = replicas]
  /\ UNCHANGED <<status, env, objs, sts, hpa, seen, pass, called, edits, faults>>

\* It corrects a number outside its bounds, and within them it may follow the load.
ScaleIntoBounds ==
  /\ cr.replicas \notin MinReplicas(hpa.spec) .. hpa.spec.max
  /\ \E r \in MinReplicas(hpa.spec) .. hpa.spec.max : Scale(r)

ScaleWithLoad ==
  /\ cr.replicas \in MinReplicas(hpa.spec) .. hpa.spec.max
  /\ \E r \in MinReplicas(hpa.spec) .. hpa.spec.max : Scale(r)

CacheSync ==
  /\ seen # hpa
  /\ seen' = hpa
  /\ UNCHANGED <<cr, status, env, objs, sts, hpa, pass, called, edits, faults>>

FeDown ==
  /\ Fault
  /\ feReady
  /\ feReady' = FALSE
  /\ UNCHANGED <<cr, status, kube, known, upgraded, objs, sts, hpa, seen, pass, called, edits>>

FeUp ==
  /\ ~feReady
  /\ feReady' = TRUE
  /\ UNCHANGED <<cr, status, kube, known, upgraded, objs, sts, hpa, seen, pass, called,
                 edits, faults>>

\* Only an operator that knows the version is taken by surprise.
UpgradeKubernetes ==
  /\ known = kube
  /\ \E minor \in Minors : minor > kube /\ kube' = minor
  /\ upgraded' = TRUE
  /\ UNCHANGED <<cr, status, known, feReady, objs, sts, hpa, seen, pass, called, edits, faults>>

-----------------------------------------------------------------------------
(* The operator's process *)

\* main, GetKubernetesVersion: a version that cannot be read is only logged.
StartProcess(minor) ==
  /\ known' = minor
  /\ pc' = "idle" /\ at' = 1 /\ src' = NoSrc
  /\ seen' = hpa
  /\ UNCHANGED <<cr, status, kube, feReady, upgraded, objs, sts, hpa, called, edits>>

Crash == Fault /\ \E minor \in {kube, Unknown} : StartProcess(minor)

\* The node of the operator is upgraded too.
RestartAfterUpgrade ==
  /\ known \notin {kube, Unknown}
  /\ StartProcess(kube)
  /\ UNCHANGED faults

\* mutant: the boundary is off by one
CompleteMutant(version) ==
  IF version # NotGiven THEN version
  ELSE IF known = Unknown \/ known >= 27 THEN "v2" ELSE "v2beta2"

\* AutoScalerVersion.Complete; with an empty major version it says v2.
Complete(version) ==
  IF version # NotGiven THEN version
  ELSE IF known = Unknown \/ known >= 26 THEN "v2" ELSE "v2beta2"

-----------------------------------------------------------------------------
(* A pass *)

\* An error ends the pass, the status that was read is saved again.
Abort == pc' = "save" /\ at' = 1

Begin ==
  /\ pc = "idle"
  /\ pc' = "start" /\ at' = 1
  /\ src' = [cr |-> cr, status |-> status]
  /\ called' = "none"
  /\ UNCHANGED <<cr, status, env, objs, sts, hpa, seen, edits, faults>>

\* mutant: nothing is checked
ValidatingMutant(p) == TRUE

validating(p) ==
  \/ p = NoPolicy
  \/ (p.min = Unset \/ p.min >= 1) /\ p.max >= MinReplicas(p)

\* SyncCluster up to the first write.  A CN behind an FE that is not ready is
\* left alone, and its status is reported as usual.
SyncCluster ==
  /\ pc = "start"
  /\ IF ~src.cr.cn THEN pc' = "clear" /\ at' = 1
     ELSE IF ~feReady THEN pc' = "status" /\ at' = 1
     ELSE IF ~validating(src.cr.policy) THEN Abort
     ELSE pc' = "deploy" /\ at' = 1
  /\ UNCHANGED <<cr, status, env, objs, sts, hpa, seen, src, called, edits, faults>>

DeployOrder == <<"sts", "external", "search", "hpa">>
ClearOrder  == <<"sts", "search", "external", "hpa">>

\* ApplyStatefulSet, ApplyService
ApplyObject ==
  /\ objs' = objs \cup {DeployOrder[at]}
  /\ sts' = IF at = 1 THEN src.cr.replicas ELSE sts
  /\ UNCHANGED <<hpa, called>>

\* mutant: one object too many
SyncObjectMutant ==
  /\ pc = "deploy" /\ at <= 4
  /\ ApplyObject
  /\ at' = at + 1
  /\ UNCHANGED <<cr, status, env, seen, pc, src, edits, faults>>

SyncObject ==
  /\ pc = "deploy" /\ at < 4
  /\ ApplyObject
  /\ at' = at + 1
  /\ UNCHANGED <<cr, status, env, seen, pc, src, edits, faults>>

\* BuildHPA, as far as the hash tells objects apart.
BuildHPA(p) == [version |-> Complete(p.version), min |-> p.min, max |-> p.max]

Create(expect) ==
  /\ ~hpa.exists
  /\ hpa' = [exists |-> TRUE, spec |-> Bounds(expect), hash |-> NoHash]
  /\ called' = "create"

\* mutant: the annotation of the old object is kept
UpdateMutant(expect) ==
  /\ hpa.exists
  /\ hpa' = [hpa EXCEPT !.spec = Bounds(expect)]
  /\ called' = "update"

\* mutant: only the annotation is written
UpdateHashMutant(expect) ==
  /\ hpa.exists
  /\ hpa' = [hpa EXCEPT !.hash = expect]
  /\ called' = "update"

Update(expect) ==
  /\ hpa.exists
  /\ hpa' = [hpa EXCEPT !.spec = Bounds(expect), !.hash = expect]
  /\ called' = "update"

\* mutant: an autoscaler that is there is not updated
DeployAutoScalerMutant(expect) ==
  \/ seen.exists /\ UNCHANGED hpa /\ called' = "skip"
  \/ ~seen.exists /\ Create(expect)

\* The hash of an object without the annotation is never that of expect.
deployAutoScaler(expect) ==
  \/ seen.exists /\ seen.hash = expect /\ UNCHANGED hpa /\ called' = "skip"
  \/ seen.exists /\ seen.hash # expect /\ Update(expect)
  \/ ~seen.exists /\ Create(expect)

\* Create says AlreadyExists or Update says NotFound: the cache is behind.
DeployConflict(expect) ==
  \/ seen.exists /\ seen.hash # expect /\ ~hpa.exists
  \/ ~seen.exists /\ hpa.exists

\* The version tried when the first one is not served; a Get in it that finds
\* the autoscaler is followed by a Delete in the first one.
OtherVersion(version) == IF version = "v2beta2" THEN "v2" ELSE "v2beta2"

DeleteFails(version) ==
  /\ Complete(version) \notin Served(kube)
  /\ OtherVersion(version) \notin Served(kube) \/ seen.exists

\* mutant: the status of a pass without policy says that there is nothing to do
DeleteAutoscalerMutant(version) ==
  IF seen.exists /\ version # NotGiven
  THEN hpa' = NoHpa /\ called' = "delete"
  ELSE UNCHANGED hpa /\ called' = "skip"

DeleteAutoscaler(version) ==
  IF seen.exists THEN hpa' = NoHpa /\ called' = "delete"
                 ELSE UNCHANGED hpa /\ called' = "skip"

AutoscalerFails ==
  IF src.cr.policy = NoPolicy THEN DeleteFails(src.status)
  ELSE \/ Complete(src.cr.policy.version) \notin Served(kube)
       \/ DeployConflict(BuildHPA(src.cr.policy))

SyncAutoscaler ==
  /\ pc = "deploy" /\ at = 4
  /\ ~AutoscalerFails
  /\ IF src.cr.policy = NoPolicy THEN DeleteAutoscaler(src.status)
     ELSE deployAutoScaler(BuildHPA(src.cr.policy))
  /\ pc' = "status" /\ at' = 1
  /\ UNCHANGED <<cr, status, env, objs, sts, seen, src, edits, faults>>

SyncAutoscalerFails ==
  /\ pc = "deploy" /\ at = 4
  /\ AutoscalerFails
  /\ Abort
  /\ UNCHANGED <<cr, status, env, objs, sts, hpa, seen, src, called, edits, faults>>

\* A configuration that cannot be read, or a call that fails, done or not.
SyncFails ==
  /\ pc = "deploy"
  /\ Fault
  /\ \/ UNCHANGED <<objs, sts, hpa, called>>
     \/ at < 4 /\ ApplyObject
     \/ /\ at = 4 /\ ~AutoscalerFails
        /\ IF src.cr.policy = NoPolicy THEN DeleteAutoscaler(src.status)
           ELSE deployAutoScaler(BuildHPA(src.cr.policy))
        /\ UNCHANGED <<objs, sts>>
  /\ Abort
  /\ UNCHANGED <<cr, status, env, seen, src, edits>>

\* mutant: the services are forgotten
ClearClusterMutant ==
  /\ pc = "clear" /\ at < 4
  /\ objs' = objs \ {"sts"}
  /\ at' = at + 1
  /\ UNCHANGED <<cr, status, env, sts, hpa, seen, pc, src, called, edits, faults>>

ClearCluster ==
  /\ pc = "clear" /\ at < 4
  /\ objs' = objs \ {ClearOrder[at]}
  /\ at' = at + 1
  /\ UNCHANGED <<cr, status, env, sts, hpa, seen, pc, src, called, edits, faults>>

ClearAutoscaler ==
  /\ pc = "clear" /\ at = 4
  /\ IF DeleteFails(src.status) THEN UNCHANGED <<hpa, called>> ELSE DeleteAutoscaler(src.status)
  /\ pc' = "status" /\ at' = 1
  /\ UNCHANGED <<cr, status, env, objs, sts, seen, src, edits, faults>>

\* An error of ClearCluster ends it and is only logged.
ClearFails ==
  /\ pc = "clear"
  /\ Fault
  /\ objs' = objs \/ (at < 4 /\ objs' = objs \ {ClearOrder[at]})
  /\ pc' = "status" /\ at' = 1
  /\ UNCHANGED <<cr, status, env, sts, hpa, seen, src, called, edits>>

\* Without a StatefulSet the status stays as it is.
UpdateStatus ==
  /\ pc = "status"
  /\ pc' = "save"
  /\ src' = [src EXCEPT !.status =
       IF ~src.cr.cn THEN NotGiven
       ELSE IF "sts" \notin objs THEN @
       ELSE IF src.cr.policy = NoPolicy THEN NotGiven ELSE Complete(src.cr.policy.version)]
  /\ UNCHANGED <<cr, status, env, objs, sts, hpa, seen, at, called, edits, faults>>

SaveStatus ==
  /\ pc = "save"
  /\ status' = src.status
  /\ pc' = "idle" /\ src' = NoSrc
  /\ UNCHANGED <<cr, env, objs, sts, hpa, seen, at, called, edits, faults>>

\* The status cannot be read or written.
PassLost ==
  /\ pc \in {"status", "save"}
  /\ Fault
  /\ pc' = "idle" /\ src' = NoSrc
  /\ UNCHANGED <<cr, status, env, objs, sts, hpa, seen, at, called, edits>>

-----------------------------------------------------------------------------

Pass ==
  \/ Begin \/ SyncCluster \/ SyncObject \/ SyncAutoscaler \/ SyncAutoscalerFails
  \/ ClearCluster \/ ClearAutoscaler \/ UpdateStatus \/ SaveStatus

Next ==
  \/ ChangeSpec \/ DeleteHpaByHand \/ ScaleIntoBounds \/ ScaleWithLoad
  \/ CacheSync \/ FeDown \/ FeUp \/ UpgradeKubernetes
  \/ Crash \/ RestartAfterUpgrade
  \/ Pass \/ SyncFails \/ ClearFails \/ PassLost

Spec == Init /\ [][Next]_vars

\* The two-minute resync and the requeue after an error start a pass again and
\* again, and a pass runs to its end; the cache catches up, FE comes back, the
\* autoscaler acts on its bounds and the operator is restarted after an upgrade.
Fairness ==
  /\ WF_vars(Pass)
  /\ WF_vars(CacheSync)
  /\ WF_vars(FeUp)
  /\ WF_vars(ScaleIntoBounds)
  /\ WF_vars(RestartAfterUpgrade)

FairSpec == Spec /\ Fairness

-----------------------------------------------------------------------------
(* Properties *)

\* The hash annotation, by which deployAutoScaler decides that nothing is to
\* be done, tells the bounds of the autoscaler that carries it, in the cache
\* as in the API server.
HashTellsBounds ==
  \A o \in {hpa, seen} : o.hash # NoHash => o.exists /\ o.spec = Bounds(o.hash)

\* Before an upgrade the version in the status, saved or about to be saved, is
\* one in which the API server can be asked to delete the autoscaler.
RecordedVersionServed ==
  ~upgraded => {status, src.status} \subseteq Served(kube) \cup {NotGiven}

\* No autoscaler with bounds that validating refuses is ever written.
BoundsAreValid == hpa.exists => 1 <= MinReplicas(hpa.spec) /\ MinReplicas(hpa.spec) <= hpa.spec.max

Scaled == cr.cn /\ cr.policy # NoPolicy /\ validating(cr.policy)

\* "If the HPA policy is nil, delete the HPA resource": an autoscaler whose
\* policy was removed goes, for good.
AutoscalerGoes == <>[](cr.policy = NoPolicy) => <>[](~hpa.exists)

\* The same for a Kubernetes that is not upgraded, whatever statuses were lost
\* and although the operator may have failed to learn its version.
AutoscalerGoesUnlessUpgraded == [](~upgraded) => AutoscalerGoes

\* An autoscaler comes to have the bounds of the declared policy.
AutoscalerFollowsPolicy == <>[]Scaled => <>[](hpa.exists /\ hpa.spec = Bounds(cr.policy))

\* Through the StarRocksCluster the bounds reach the StatefulSet.
ReplicasInBounds ==
  <>[](Scaled /\ cr.replicas # 0) => <>[](sts \in MinReplicas(cr.policy) .. cr.policy.max)

\* A removed CN section takes StatefulSet, services and autoscaler with it,
\* although the errors of ClearCluster are only logged.
NothingLeftOfCn == <>[](~cr.cn) => <>[](objs = {} /\ ~hpa.exists)

\* An autoscaler left alone is eventually not written any more.
AutoscalerComesToRest == <>[](called \notin {"create", "update"})
===============================================================================
