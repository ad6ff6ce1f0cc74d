# Verification of the StarRocks Kubernetes operator

This directory holds TLA+ models of the operator that deploys StarRocks on
Kubernetes, the TLC configurations that check them on small instances, and
TLAPS proofs about them. The models are translated from the Go code under
`pkg/`; `PROJECT.json` maps each definition to the lines it stands for.

## 1. The system

The operator is one process with two controllers, each with one worker. It
watches two custom resources, `StarRocksCluster` and `StarRocksWarehouse`, and
keeps StatefulSets, a Deployment, Services and autoscalers in the state these
resources ask for. It has no storage of its own: everything it knows is in the
API server, most of it read through informer caches that lag.

| Component | State it keeps | Operations | What makes it correct |
|---|---|---|---|
| Cluster reconciler (`pkg/controllers/starrockscluster_controller.go`) | `status` of the cluster: phase, reason, one status per component, disaster-recovery status | `Reconcile`: sync FE, BE, CN, FE proxy in this order, then the status of each, then the cluster phase, then save | a failure anywhere is repaired by later passes; the reported phase agrees with the workloads |
| FE (`pkg/subcontrollers/fe`) | FE StatefulSet, two Services | sync, status, `CheckFEReady`, `CheckFEFullyRolledOut` | the other components follow FE and never overtake it |
| Disaster recovery (`fe_disaster_recovery.go`) | `disasterRecoveryStatus`: phase, observedGeneration | enter, rewrite the StatefulSet, check readiness | one restore per generation, by one pod; `done` means restored |
| BE, CN, FE proxy (`pkg/subcontrollers/{be,cn,feproxy}`) | their workload and services; CN also an autoscaler | sync behind the FE gate, clear, status | deployed only behind a usable FE, paused in a recovery, removed when undeclared |
| Apply (`pkg/k8sutils/k8sutils.go`) | two annotations on each object: hash, last-applied state | get, create, compare, three-way merge patch, annotate | the object gets what is desired, loses what no longer is, and keeps what others wrote |
| Warehouse reconciler (`starrockswarehouse_controller.go`) | `status` of the warehouse; a finalizer on the CN StatefulSet | reconcile, clear: DROP WAREHOUSE, remove the finalizer | no warehouse is left in FE; no live one is dropped |
| Compute-node sync (`cn_controller.go`, `cn_mysql.go`) | the list of compute nodes inside FE | SHOW, DROP over MySQL | only nodes whose pod is gone are dropped |
| Autoscaler (`autoscaler.go`, `cn_controller.go`) | HorizontalPodAutoscaler, its API version in the status | deploy, delete, clear | it follows the policy, its bounds reach the StatefulSet, it goes with its policy and with CN |
| Templates, volumes, ports, version comparison (`pkg/k8sutils/templates`, `pkg/common/resource_utils`) | none; computed in every pass from the custom resource and the ConfigMaps | pure functions | what is written is accepted by the API server and agrees with what the pods really do |

**Interaction.** A pass runs to its end before the next one begins. FE is
called before the others in a pass, and they look at FE through its StatefulSet
and its Endpoints, so that what they see is older than what FE's sync has just
written. The StatefulSet controller, the kubelet, the Endpoints controller and
users act between any two calls of a pass.

**What is hard.** Caches and statuses that lag behind; two calls that belong
together and of which the second may be lost; edits in the middle of an
operation that takes several passes; errors that end a pass after half of it has
had its effect; errors that are only logged; a status computed from the status
of an earlier pass. `PROJECT.json` lists these hazards line by line.

## 2. Modules

| Module | Models | Extends |
|---|---|---|
| `RecoveryProtocol` | abstract: what API server and Kubernetes see of recoveries | |
| `DisasterRecovery` | disaster recovery, one reconcile as the sequence of its calls | refines `RecoveryProtocol` |
| `DeclarativeObject` | abstract: what "apply" promises | |
| `ApplyObject` | `ApplyStatefulSet`/`ApplyService`/`ApplyDeployment` | refines `DeclarativeObject` |
| `ClusterReconcile` | a pass over the four sub-controllers, the rollout of their workloads, the status | |
| `NodeCatalog` | abstract: when compute nodes, warehouses and StatefulSets may go | |
| `Warehouse` | owners of compute nodes, passes over them call by call, and what FE knows of their nodes and warehouses | refines `NodeCatalog` |
| `Autoscaler` | a pass of CN over its objects and the autoscaler, and the autoscaler itself | |
| `PodStorage` | pure: storage volumes, claims, mounts, the ConfigMap of the configuration | |
| `ServicePorts` | pure: ports, services, the stop command by image version | |
| `Workload` | what passes write for FE, BE and CN, while users edit specs and ConfigMaps and pods start | `PodStorage`, `ServicePorts` |
| `MC...` | instances for TLC | the module named |
| `TemplateProofs` | theorems about the functions of the two pure modules | `PodStorage`, `ServicePorts`, `TLAPS` |
| `WorkloadProofs` | theorems about `Workload` | `Workload`, `TemplateProofs` |
| the other `...Proofs` | theorems and proofs | the module named, `TLAPS` |

### DisasterRecovery

`api` is the resource in the API server, `cache` the informer's copy, `src` the
copy a reconcile works on. `BeginReconcile` copies `cache` to `src`; `FeApply` is
all of `FeController.SyncCluster` (`EnterDisasterRecoveryMode`, the rewritten or
normal StatefulSet, the refusal to scale to one, the apply); `FeConfigFails`,
`FeSnapshotMissing` and `FeApplyFails` are its error returns; `SyncBe` and `SyncCn`
are the pauses; `SaveStatus` is the update that copies `src.status` over the
resource. `sts` is the FE StatefulSet: a replica count and the generation in the
restore environment (`NoGen` for the normal template). `pods` and `podCache` are the FE
pods and the informer's view of them, which `CheckFEReadyInDisasterRecovery` reads.
`BeginReconcile` takes the cached copy, however old; `SaveStatus` writes over whatever the API server holds by then.
`Crash` ends a reconcile anywhere. `restored`, `finished`, `regressed` (a recorded status was overwritten by an older one)
and `released` (the syncs this reconcile has let through, with `"unread"` for a BE that has lost FE's
configuration in the middle of a recovery) are history variables. The environment value comparison is kept as the code has it: a pod
counts if *some* value equals the generation, and `UserEnvValues` are the
numerals among the user's own values.

`RecoveryProtocol` is what this amounts to for the API server and Kubernetes, without passes, copies
and caches: the recorded status, the FE template and the set of restored generations. A status
advances (`Observe`, `Begin`, `Finish`, the last only once the generation is restored) until an old copy overwrites
it (`Overwrite`), FE restarts as
one replica for a generation whose end was not read before (`Restart`), or returns to its normal
form, never from several replicas to one (`Return`). `FollowsProtocol` maps `api.status` and `sts` to
it; a pass that saves what it found is a stutter, a pass that observes a generation and already acts on it
is one `Observe`. It implies `ScaledTo1OnlyForRecovery`, which is stated and proved by itself
because that part needs no assumption.

### ApplyObject and DeclarativeObject

An object is a function from field names to values plus the two annotations.
`OperatorFields` come from the custom resource, `ForeignFields` are written by
others, `Sticky` fields are taken from the live object (`serviceName`,
`podManagementPolicy`). A hash is modelled by the state it is the hash of.
`PatchByThreeWayMerge` is the first call (the patch, which also stores the hash);
`UpdateLastApplied` the second (get and conditional update), `UpdateLastAppliedFails`
its loss. The patch is computed from the cache, which may lag, and carries no precondition. Two history variables say
what this costs: `drift` are the fields that are not as the last patch has seen them, because a user has edited the object
itself or because the cache was old; `loose` are those that the last-applied annotation may not hold, because
it was lost, or was not what the patch had seen. `DeclarativeObject` is the promise: the managed fields change
from one desired state to the next in one step, and nothing else changes them. It is implemented for every set of fields
outside `drift` and `loose`, whatever happens to the other fields at the same time.

### ClusterReconcile

`load[c]` is the StatefulSet or Deployment of component `c` with the status its
controller reports, `pods` what really runs, `endpoints` whether FE's service has
an address. A pass goes through `Begin`, `SyncCluster` for each
sub-controller, `UpdateClusterStatus` for each and `SaveStatus`. `Gate` is the FE check
of BE and CN (`CheckFEReady`, or `CheckFEFullyRolledOut` under `WaitForFullRollout`) and of the proxy.
`SyncClusterFails`, `UpdateClusterStatusFails`, `FeStatefulSetMissing`, `RolloutStatusFails` and `PassLost` are the
error paths: a sync error is recorded as a failed phase and the status is
saved; a status error ends the pass with what has been collected; a crash loses
it. `RolledOut` is `statefulset.Status`: with the partition of the rolling update, and an error (`NoRolloutStatus`) when
the strategy is OnDelete. Its comparison of revisions is never reached, because the API
server completes every RollingUpdate with a partition (of zero). The deadline of a Deployment is one of the failures of
`UpdateClusterStatusFails`. The workloads are rolled out by `WorkloadStatus`, `CreatePod`, `PodReady`, `RemovePod`,
which are external. `seen`, `current`, `updated` and `ready` of a workload change only when `WorkloadStatus` runs, so that
every gate may judge by an old status; a pod is created only after its revision was reported. `back` is a history
variable: the workload was returned to its current revision in the middle of a rollout. Under OnDelete the
current revision never follows, as in Kubernetes, so that `CheckFEFullyRolledOut` is false for ever after the first
edit of such an FE.

### Warehouse and NodeCatalog

An owner of compute nodes is the CN part of a cluster or a `StarRocksWarehouse`;
`FeName` gives the warehouse of FE its nodes are in (`GetWarehouseNameInFE`, or
`default_warehouse` for a cluster). `cr`, `sts` and `pods` are its custom resource, StatefulSet
and pods, `nodes` and `inFE` what FE has registered. A pass with a custom resource is
`SyncWarehouse` (the checks up to `CheckFEReady`; `FeIsNotReady` is the handled error),
`ApplyStatefulSet` or, for an object in deletion, `ReleaseDeleted`, then `SyncComputeNodesInFE` as
`CheckPods`, `QueryShowComputeNodes` and one `ExecuteDropComputeNode` per statement. A pass without one is
`ClearWarehouse`: `ExecuteDropWarehouse`, whose failure is ignored, and `RemoveFinalizer`. Both SQL steps first make an executor from the
environment of the StatefulSet (`Executor`); an owner in `Referring` refers there to a Secret or ConfigMap that users may
delete and create again (`BreakReference`, `RestoreReference`, `dangling`), and then `ExecutorFails` ends
the pass, before the finalizer is taken off. `PassFails`
ends a pass anywhere. Passes over a cluster and over a warehouse interleave, those over two
warehouses do not: each controller has one worker. The garbage collector, the StatefulSet
controller, the registration of a starting CN pod and FE are external. The comparison of hashes and pod
revisions before the nodes are listed is left out; it only ends a pass earlier. The warehouse's
status is left out.

`NodeCatalog` is the promise, without passes, pods and lists: a node leaves FE by itself only
when the StatefulSet of its owner does not ask for it (`Leave`), all nodes of a warehouse leave together,
with the warehouse, only when its custom resource is deleted while the StatefulSet is still there
(`LeaveTogether`), and a StatefulSet goes only after its owner (`Withdraw`). `FollowsCatalog` takes
`wanted` from the replicas of the StatefulSets and `deleted` from the custom resources.

### Autoscaler

`cr` is the section `starRocksCnSpec` (present or not, policy, replicas), `status` the recorded
version, `objs`, `sts` and `hpa` the objects of CN, `seen` the cached autoscaler. A pass is `Begin`
(its copy is `src`), `SyncCluster` (gate and validation), then either `SyncObject` for StatefulSet and
services and `SyncAutoscaler`, or `ClearCluster` object by object and `ClearAutoscaler`; then
`UpdateStatus` and `SaveStatus`. An error on the way to deploy ends the pass
(`SyncAutoscalerFails`, `SyncFails`), an error in clearing is only logged (`ClearFails`). `deployAutoScaler`
compares hashes; a freshly created autoscaler has no annotation and is updated in the next
pass. `DeleteFails` is the fallback of `DeleteAutoscaler` as the code has it. `Complete` chooses the version by
what the process read at start (`known`), which a restart renews or loses. The autoscaler writes
the replicas of the StarRocksCluster (`Scale`), never those of the StatefulSet. A policy is its version
and bounds; metrics and behaviour go with them.

### PodStorage, ServicePorts and Workload

`PodStorage` and `ServicePorts` are the functions from custom resource and configuration file to
pod templates and services. Names are sequences of their parts, because `HasVolume` compares
last parts; a mount path is a directory of StarRocks and the rest, because `HasMountPath` looks for
a substring; a configuration is a function from port keys to numbers.

In `Workload` `spec` and `maps` are what users edit: which of the given specs a component has, and
the contents of ConfigMaps (which may be missing or malformed). A pass goes over FE, BE, CN:
`Check` (validation and FE gate), `ReadOwn` and `ReadFe` (the configurations, read in the code's
order; BE goes on without FE's, CN does not), `SyncStatefulSet` (template, check of the volumes,
apply), `SyncService` twice. `failed` says why a pass ended early. What the API server refuses
(`Refusal`, `ServiceRefused`: names, mount paths and sources of volumes, changed claims, ports and nodePorts given twice, and
what the type of a service does not allow; a volume without a source is not refused but taken for an emptyDir), which file a container sees (`MapSeen`), what StarRocks listens on and
the probes of the kubelet are external. `Derived` collects what follows from a spec alone.

Two conditions on what users write are named, because theorems need them: `NumbersApart` (the numbers in
configurations and in `service.ports` do not collide; the API server does refuse a service with the same
port twice, and the operator does not check for it) and `ReferencesClear` (`configMapInfo` is given as a whole or not at
all, and what is mounted where StarRocks looks for its configuration file is that file). The
operator enforces neither. The instance satisfies both (`ASSUME` in `MCWorkload`), with specs that have one entry for two
ports, a nodePort without a type, a ConfigMap twice, and the file next to the directory, so that they do not exclude the cases of interest.

## 3. Runs

| Run | Configuration | Shows |
|---|---|---|
| `dr_recovery` | generations 1 and 2, two replicas, two edits (a generation raised and lowered, the recovery disabled and enabled), or one edit and one fault; caches lag | `DoneMeansRestored`, `CnPausedDuringRecovery`, `BePausedDuringRecovery`, `OneRestoringFe`, `RepeatedOnlyAfterRegress`, `FollowsProtocol`, `RecoveryCompletes` |
| `apply` | three operator fields, one foreign, two values, two edits, one foreign write; the cache lags, annotations get lost, users edit the object directly | `HashMeansApplied`, `HeldFieldsGone`, `ForeignFieldsKept`, `ImplementsDeclarativeObject`, `EventuallyApplied` |
| `apply_removed_field` | three edits, none of them in the object itself | finding: a removed field stays |
| `cluster_rollout_gate` | FE with two pods and BE under OnDelete, `waitForFullRollout`, revision 2 is bad, two edits of FE to and fro, one fault; every status lags | `BehindOneGoodVersion` |
| `cluster_converges` | FE and CN with a partition, one edit (to a bad or good revision, or to no CN) and one fault | `CreatedAfterFeReady`, `Converges`, `StuckFeIsReported`, `CnGoneNotRunning` |
| `cluster_status_lag` | as the gate, two edits, no fault | finding: a bad FE version spreads |
| `cluster_on_delete` | FE under OnDelete, BE, one edit, no fault | finding: FE is never reported as running |
| `warehouse_nodes` | a cluster's CN and a warehouse with its own name in FE, up to two replicas each, two edits (scaling, deletion, a Secret deleted or created), one fault (failed call, evicted pod, FE lost for good) | `FollowsCatalog`, `SurplusNodesGo`, `DeletedWarehouseGoes` |
| `warehouse_default` | the same, the warehouse being named `default-warehouse`; no edit and no fault | finding: the two drop each other's live nodes |
| `autoscaler` | policies: version not given, explicit v1, minimum above maximum; Kubernetes 1.25 and 1.26 with an upgrade between, two edits, one fault (failed call, lost pass, restart, FE outage, autoscaler deleted by hand) | `HashTellsBounds`, `RecordedVersionServed`, `BoundsAreValid`, `AutoscalerGoesUnlessUpgraded`, `AutoscalerFollowsPolicy`, `ReplicasInBounds`, `NothingLeftOfCn`, `AutoscalerComesToRest` |
| `autoscaler_upgrade` | the same, one edit, no fault | finding: the autoscaler stays after an upgrade |
| `workload` | FE with BE or CN; ten specs of BE (another disk, size zero, a class hostPath in another spelling without hostPath and with an empty path, a ConfigMap twice, file and directory of configuration, an invalid service, an entry for two ports, a nodePort without a type), three contents of FE's and BE's ConfigMap, two edits, one fault | `RefusedOnlyAsForeseen`, `Settles`, `BlockIsReported`, `QueryPortSettles`, `PortsAnswer` |

Deadlock is checked in every run: the operator's passes never come to an end.

**Bounds.** Two generations are what a stale `done`, an overtaking generation
and a return to a lower one need; two replicas tell "one pod" from "all pods". One
fault placed anywhere is enough for each single-fault argument; the theorems of
section 4 lift the bounds for the safety properties. Three operator fields are one
sticky and two others, so that a patch sets one and deletes another; two values
tell a change from an addition; two edits are one of the custom resource and one of the object itself, or a
set and a removal. A field begins set or not, so that one edit removes it. Two FE
pods allow a mixed rollout; two revisions an upgrade and a return. Two replicas of a compute node and two edits allow a surplus,
a change of mind while it is dropped, and a deletion after a scaling; larger lists are covered by the proof.
In `ClusterReconcile.cfg` only FE is edited (`OnlyFeEdited`), since the gate looks at FE alone.
Kubernetes 1.25 and 1.26 are the boundary of `Complete` and the versions that serve v2beta2 and do not; two
edits of a policy set and remove it. In `workload` two edits are what a pod needs to start between a change
of a ConfigMap and its return, or a bad spec and its repair; the specs are one per decision of the code.

**Fairness.** A pass is taken again and again: `cmd/main.go` sets a resync period
of two minutes, errors are requeued with back-off, and watches trigger passes.
Hence weak fairness of the operator's steps, with failing alternatives in the same
fairness condition as the succeeding ones, so that no success is assumed; faults are
bounded instead. Kubernetes is taken to make progress: caches are
delivered, pods are created, replaced and become ready unless their version is
bad. Users owe nothing.
In `DisasterRecovery` passes may begin with old copies any number of times, but `RecoveryCompletes` supposes that
they do not for ever (`FreshBegin`): two old copies that keep overwriting each other's status would chase each other without end.
What is said of caches is weaker than what informers give, which are behind by moments only.
In `Warehouse` the operator's steps over an owner are strongly fair, because warehouses share
a worker: the work queue hands out keys in order, so none is passed over for ever. A
deleted warehouse is still visited, since the resync of its StatefulSet, held by the finalizer, enqueues its owner.
In `Autoscaler` FE comes back, the autoscaler corrects replicas outside its bounds, and after an upgrade the
operator is restarted sooner or later. In `Workload` Kubernetes starts pods, replaces those of an old template
and restarts containers that fail their liveness probe. A component that is blocked or behind an FE that is
not healthy owes nothing (`Unreached`); `BlockIsReported` says that its obstacle is then reported.

## 4. Theorems

All are proved for every value of the constants that the named assumptions of the
modules allow.

* `DisasterRecoveryProofs`: `TypeCorrect`, `OneRestoringCorrect`, `ScaleGuardCorrect` and
  `RepeatedOnlyAfterRegressCorrect` without further assumptions. `OneRestoringFe` is not inductive: a pod gets the environment from the
  StatefulSet, so the invariant adds that a StatefulSet with the environment has one replica. A second recovery of one generation
  does happen (section 5); the theorem says that an old status written over a newer one is its only cause. Its invariant
  `FinishedInv` says that, before that happens, the copies of the status are ordered by age, from the one
  a pass has read over the cache to the API server, and each of them covers what is finished.
  `DoneMeansRestoredCorrect`, `CnPausedCorrect`, `BePausedCorrect` and `ProtocolCorrect` assume `NoCollision` (no user value is a
  generation; section 5 shows why). The invariant `RestoreInv` says of all copies of the
  status (saved, cached, in the pass) that done means restored, and that a ready pod in either view with a
  generation has restored it. The two on pausing say when BE and CN are let through also if the user goes
  back below the generation observed last: then the recovery is given up, and FE is in its normal template again. The one on
  BE excepts only the sync that has not read FE's configuration. `ProtocolCorrect` is the refinement of `RecoveryProtocol`,
  stale copies included. Beside the invariants above it needs `ProtocolInv`: until an overwriting, what a pass is about to save is older than the recorded
  status or at most one step of the protocol ahead of it (`Ahead`).
* `ApplyObjectProofs`: all without assumptions, so with stale reads, lost annotations and direct edits. `TypeCorrect`, `ForeignFieldsCorrect`,
  `HashCorrect`; `RemovedCorrect`, whose inductive invariant `Recorded` says that every operator field of the object outside
  `loose` is in the last-applied annotation, or about to be: a patch deletes only what is recorded there. `RefinementCorrect`
  is the implementation of `DeclarativeObject` on every set of undisturbed fields.
* `ClusterReconcileProofs`: all without assumptions. `TypeCorrect` and `AfterFeCorrect`; the invariant
  `ReadySeen` follows readiness from pod to reported status to Endpoints.
  `GateCorrect` says what is left of the promise of `waitForFullRollout` when FE's status lags and FE may be
  returned: the invariant `Rollout` relates the reported revisions and counts
  of FE to its pods. It uses that the StatefulSet controller reports a revision before it creates pods of it.
* `WarehouseProofs`: `TypeCorrect` without assumptions; `NoWantedNodeDroppedCorrect` if no two owners
  share a warehouse of FE (`NamesDiffer`; `warehouse_default` shows why). The invariant `PassInv` says that from
  the apply on the StatefulSet has the replicas the pass expects, or is gone, and that a pass has
  listed nodes of its own warehouse only. The rest is counting: more than `r` nodes
  of one owner cannot all have indices below `r`, so the last of them is a surplus one (`LastIsSurplus`).
  `CatalogCorrect` is the refinement of `NodeCatalog` under the same assumption. It needs moreover that only what
  has lost its custom resource is in deletion or cleared, and that this is never a cluster (`DeletedInv`), which
  holds since nothing re-creates a deleted warehouse in the model (section 6). Both hold with references that dangle.
* `AutoscalerProofs`: `TypeCorrect`, `HashCorrect`, `BoundsCorrect` and `VersionCorrect`, for any policies and any
  Kubernetes from 1.23 on, if explicit versions are ones that it serves (`ServedAssumption`). The
  lemma `NextHpa` says in which three ways a step leaves the autoscaler. `BoundsAreValid` needs that a pass
  in `deploy` has validated the copy it works on (`Checked`); `RecordedVersionServed` that before an upgrade the process knows the
  right version or none, in which case v2 is served since 1.23 (`CompleteServed`).

* `TemplateProofs`, about the pure functions. `ClaimsAreMounted`: the claims of a StatefulSet and the volumes of its pods
  that name a claim correspond exactly. `SourcesGiven`: behind `Validate` a volume that the API server refuses for its source is a
  hostPath with an empty path, by a class in another spelling. `ConfigMapsMounted`: the ConfigMaps in a pod are
  those of `configMapInfo` and `configMaps`, each at its path. `ServiceAccepted`,
  `SearchServiceAccepted`: where numbers are apart a service breaks none of the modelled rules of the API server, unless an entry of
  `service.ports` stands for two ports, as `mergePort` permits, or something is given that the type of the service does
  not allow (`Misplaced`: a nodePort or source ranges, which are copied unchecked, or the type ExternalName, which
  `load_type.go:226` offers and no service of the operator can have). `GracefulUpgrade`: a release line does not lose the graceful
  stop. The lemmas under them say what `Kept`, `MountStorageVolumes`, `MountDefault`, `MountObjects` and `mergePort` return.
* `WorkloadProofs`, for any specs, ConfigMaps, edits and faults. `TypeCorrect`, with the inductive
  `TypeInv`, which adds that behind the checks a pass works on a spec that is there and valid (`Going`).
  `RefusedCorrect`, assuming `NumbersApart`: it joins the theorems on volumes and services to that
  invariant. It is about the rules that `Refusal` and `ServiceRefused` state and no others (section 6). `WholeCorrect`: no StatefulSet and no service is a mixture of two specs or of two contents of
  its ConfigMap, however users edit between the calls of a pass; only its FE query port comes from elsewhere, from a
  content that FE's ConfigMap has had or, for BE, from an empty one. The inductive invariant `WholeInv` adds what
  the pass has read when it writes (`HasRead`) and that history has every content (`Recorded`).
  `PodsCorrect`, assuming `ReferencesClear`: so are the pods, and they listen as a content of the
  very ConfigMap says that the operator reads for that spec. It rests on `ReadsTheSameFile`: under `ClearReferences` and the check
  of volumes, `GetConfig` and the entrypoint script find the same file. `AnsweredCorrect`: as
  long as edits leave the ports as they are, every running pod is healthy and answers where its
  service forwards to, in every state, not only in the end. Its hypothesis `SamePorts` is about the contents so far; the runs
  go on to edits that change ports, after which `PortsAnswer` is what remains. `PassSettlesCorrect` says as much of convergence as needs no fairness: a
  pass that no edit comes into settles every StatefulSet and service it goes through to the end, and no later pass, failed
  call or pod takes that back before the next edit. What `Settles` adds is that such a pass comes about.

`WholeCorrect`, `PodsCorrect`, `AnsweredCorrect`, `PassSettlesCorrect` and the theorems about pure functions state what no
run checks as such: the runs check the consequences in the end (`Settles`, `QueryPortSettles`, `PortsAnswer`).
`NoWantedNodeDroppedCorrect` states what `warehouse_default` shows violated without its assumption. No theorem assumes that
a cache, a status or a call is better than the code can rely on.

Liveness (`RecoveryCompletes`, `EventuallyApplied`, `Converges`, `StuckFeIsReported`,
`CnGoneNotRunning`, `SurplusNodesGo`, `DeletedWarehouseGoes`, and the temporal properties of `Autoscaler` and
`Workload`) is checked by TLC only, being out of the prover's reach. Every other property of a passing run is stated by a theorem.

## 5. Findings

With a run of its own:

1. A field added by a patch whose second call is lost is never removed (`k8sutils.go:263`;
   `apply_removed_field`).
2. The full-rollout gate believes a status older than the StatefulSet
   (`fe_controller.go:285`; `cluster_status_lag`). What it does keep is `BehindOneGoodVersion`.
3. A warehouse named `default-warehouse`, which the documentation suggests to add nodes to the cluster's
   own, shares its list of compute nodes with the cluster's CN; each drops the nodes that exceed
   its own replicas (`cn_controller.go:614`; `warehouse_default`).
4. An autoscaler whose version was recorded before an upgrade that no longer serves it cannot be deleted by
   removing its policy: the fallback finds it in the other version and deletes in the first
   (`k8sutils.go:382`; `autoscaler_upgrade`).
5. With updateStrategy OnDelete, which the validation admits, the rollout status is an error in every pass
   (`statefulset/status.go:28`; `cluster_on_delete`): component and cluster never become running.

Seen by TLC when a constant or an exception of a passing run is changed, or a property of a module is checked that no run lists:

6. A recovery is taken for finished when any environment value of the old FE
   pods equals the generation (`fe_disaster_recovery.go:174`): `DoneMeansRestored`, and the pauses of BE and CN that rest on
   it, with `UserEnvValues = {1}` in `DisasterRecovery.cfg`.
7. BE is not paused when the FE configuration cannot be read (`be_controller.go:102`), although
   `doc/disaster_recovery_for_shared_data_cluster_howto.md:45` says that it is: `BeAlwaysPaused` as an invariant of `DisasterRecovery.cfg`.
8. With both names of the web port in the configuration `GetPort` prefers `webserver_port`, StarRocks, by the
   comment beside it, `be_http_port` (`configmap.go:83`): `PortsAnswer` without `BothNames`, and a content of BE's ConfigMap
   that sets both. The liveness probe then fails for ever.
9. A pod that starts between two edits of its ConfigMap that cancel out keeps a port that nothing refers to,
   unless it is the one of the probe: `PortsAnswer` without `setBack`.
10. A pass that began with an old copy of the custom resource saves its recovery status over a newer one
    (`starrockscluster_controller.go:137`), and FE is restored a second time for the same generation: `RecoveryNotRepeated` as
    an invariant of `DisasterRecovery.cfg`.
11. The gate takes equal revisions for a finished rollout, which a return to the previous
    template makes true at once (`fe_controller.go:293`): `OneRevisionBeforeUpdate` with
    `BadRevs = {}` in `ClusterReconcile.cfg`.
12. A merge computed from an old copy leaves out what a user has just edited in the object
    (`k8sutils.go:248`), against the comment at `k8sutils.go:244-245`: `PatchTakesPrecedence` as a property of `ApplyObject.cfg`.
13. A deleted warehouse keeps its StatefulSet when no SQL executor can be made from it
    (`cn_controller.go:347`), against the comment at `cn_controller.go:355`: `DeletedWarehouseGoesAnyway` as a property of `Warehouse.cfg`.
14. `storageClassName: HostPath` passes the validation without `hostPath` (`starrockscluster_types.go:486`), and the API server makes
    an emptyDir of the volume: `HostPathsGiven` as an invariant of `Workload.cfg`.

## 6. Not modelled, and the plan

Not modelled: labels, annotations, security contexts, sidecars and the texts of configuration (data
without control); the nginx configuration of the FE proxy; the MySQL connection; Helm charts and the
migration script; the watch predicates, of which only the resync matters here; generated code. In
`ClusterReconcile` one workload stands for a component's StatefulSet and services, which `Workload`
models one by one, and the operator reads workloads as they are. In `Workload` one pod stands for
a component and the update strategy is RollingUpdate. Of the API server's rules only those listed under `Workload` are modelled: its
checks of syntax, of the range of a number and of node ports that other services use are not, nor are types of services beyond the
four that Kubernetes knows. Of what its defaulting does, a volume without a source and the partition of a RollingUpdate matter here.

Next, in this order:

1. The status of the warehouse and the re-creation of a deleted one, in `Warehouse`. `DeletedInv` and `CatalogCorrect`
   rest on a deletion being for good, and will have to tell the incarnations of an owner apart.
2. An abstract specification of the rollout over the components for `ClusterReconcile` to implement.
