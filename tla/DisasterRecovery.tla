-------------------------- MODULE DisasterRecovery --------------------------
(***************************************************************************)
(* Disaster recovery of a shared-data StarRocksCluster.  The user raises   *)
(* spec.disasterRecovery.generation; the operator restarts the FE as one   *)
(* pod with the restore environment, waits for it to become ready, records *)
(* phase done and returns the FE StatefulSet to its normal form.  BE and   *)
(* CN are paused meanwhile.                                                *)
(*                                                                         *)
(* One reconcile is modelled as the sequence of its calls (pc): read the   *)
(* custom resource, sync the FE, sync the BE, sync the CN, save the        *)
(* status.  Between any two of them the user may edit the resource, the    *)
(* StatefulSet controller and the kubelet may change the pods, an API call *)
(* may fail and the operator may crash.                                    *)
(*                                                                         *)
(* Simplifications: ports, probes, reasons and timestamps carry no control *)
(* and are left out; the pod template is the generation in its restore     *)
(* environment (NoGen for the normal template); services are one call that *)
(* may fail; the FE readiness gate of BE and CN is a free choice here.     *)
(***************************************************************************)
EXTENDS Integers

CONSTANTS
  Generations,    \* the values a user gives to disasterRecovery.generation
  MaxReplicas,    \* the most FE replicas a user asks for
  UserEnvValues,  \* numerals among the values of the user's feEnvVars
  MaxEdits,       \* bound: edits of the resource by the user
  MaxFaults       \* bound: failed API calls, pod failures, operator crashes

ASSUME ConstantsAssumption ==
  /\ Generations \subseteq Nat
  /\ MaxReplicas \in Nat \ {0}
  /\ UserEnvValues \subseteq Nat
  /\ MaxEdits \in Nat
  /\ MaxFaults \in Nat

VARIABLES
  api,       \* the StarRocksCluster in the API server: [spec, status]
  cache,     \* the copy of it in the operator's informer cache
  pc,        \* the call the reconcile makes next; "idle" between reconciles
  src,       \* the copy of the resource the reconcile works on, NoCopy when idle
  sts,       \* the FE StatefulSet; replicas = 0 before it is created
  pods,      \* the FE pods by ordinal
  podCache,  \* the FE pods in the informer cache
  restored,  \* history: generations an FE pod has restored
  finished,  \* history: generations the FE left after the reconcile read "done"
  regressed, \* history: a recorded status was overwritten by an older one
  released,  \* the syncs this reconcile has let through: "be", "cn", and "unread"
             \* for a BE that missed FE's configuration in the middle of a recovery
  edits,     \* number of edits so far
  faults     \* number of faults so far

k8s     == <<sts, pods>>
history == <<restored, finished, regressed, released>>
vars    == <<api, cache, pc, src, sts, pods, podCache, restored, finished,
             regressed, released, edits, faults>>

NoGen    == -1
Ordinals == 0 .. MaxReplicas - 1

SpecType == [sharedData : BOOLEAN, enabled : BOOLEAN, generation : Generations,
             snapshot : BOOLEAN, replicas : 1 .. MaxReplicas]
NoStatus == [phase |-> "none", og |-> NoGen]
StatusType == {NoStatus} \cup
              [phase : {"todo", "doing", "done"}, og : Generations]
ResourceType == [spec : SpecType, status : StatusType]
StsType == [replicas : 0 .. MaxReplicas, generation : Generations \cup {NoGen}]
Absent  == [exists |-> FALSE, ready |-> FALSE, generation |-> NoGen]
PodType == [exists : BOOLEAN, ready : BOOLEAN, generation : Generations \cup {NoGen}]
NoCopy  == [spec |-> <<>>, status |-> NoStatus]

TypeOK ==
  /\ api \in ResourceType
  /\ cache \in ResourceType
  /\ pc \in {"idle", "fe", "be", "cn", "save"}
  /\ src \in ResourceType \cup {NoCopy}
  /\ sts \in StsType
  /\ pods \in [Ordinals -> PodType]
  /\ podCache \in [Ordinals -> PodType]
  /\ restored \subseteq Generations
  /\ finished \subseteq Generations
  /\ regressed \in BOOLEAN
  /\ released \subseteq {"be", "cn", "unread"}
  /\ edits \in 0 .. MaxEdits
  /\ faults \in 0 .. MaxFaults

-----------------------------------------------------------------------------
(* Operators of fe_disaster_recovery.go, on a copy r of the resource *)

\* mutant: the phase is not initialised
NewStatusMutant(generation) == [phase |-> "none", og |-> generation]

NewDisasterRecoveryStatus(generation) == [phase |-> "todo", og |-> generation]

\* mutant: a recovery under way is not entered again
ShouldEnterOnceMutant(r) ==
  /\ r.spec.sharedData
  /\ r.spec.enabled
  /\ r.status = NoStatus \/ r.spec.generation > r.status.og

\* mutant: the phase of the observed generation is not looked at
ShouldEnterAgainMutant(r) ==
  /\ r.spec.sharedData
  /\ r.spec.enabled
  /\ r.status = NoStatus \/ r.spec.generation >= r.status.og

ShouldEnterDisasterRecoveryMode(r) ==
  /\ r.spec.sharedData
  /\ r.spec.enabled
  /\ \/ r.status = NoStatus
     \/ r.spec.generation > r.status.og
     \/ r.spec.generation = r.status.og /\ r.status.phase # "done"

\* The status EnterDisasterRecoveryMode works on: a new one for a generation
\* that was not observed before.
OpenedStatus(r) ==
  IF r.status = NoStatus \/ r.spec.generation > r.status.og
  THEN NewDisasterRecoveryStatus(r.spec.generation)
  ELSE r.status

\* The code compares the VALUE of every environment variable of the FE
\* container with the generation, whatever the name of the variable is.
HasExpectedGeneration(pod, generation) ==
  pod.generation = generation \/ generation \in UserEnvValues

\* mutant: any ready FE ends the recovery
CheckFEReadyMutant(view, generation) ==
  /\ \E o \in Ordinals : view[o].exists
  /\ \A o \in Ordinals : view[o].exists => view[o].ready

CheckFEReadyInDisasterRecovery(view, generation) ==
  /\ \E o \in Ordinals : view[o].exists
  /\ \A o \in Ordinals : view[o].exists =>
       HasExpectedGeneration(view[o], generation) /\ view[o].ready

\* phase after a successful EnterDisasterRecoveryMode
NextPhase(phase, ready) ==
  CASE phase = "todo"             -> "doing"
    [] phase = "doing" /\ ready   -> "done"
    [] OTHER                      -> phase

EnterDisasterRecoveryMode(r, view) ==
  LET opened == OpenedStatus(r)
  IN  [opened EXCEPT !.phase = NextPhase(opened.phase,
         CheckFEReadyInDisasterRecovery(view, r.spec.generation))]

\* mutant: the replicas are left as they are
RewriteMutant(generation) == [replicas |-> MaxReplicas, generation |-> generation]

rewriteStatefulSetForDisasterRecovery(generation) ==
  [replicas |-> 1, generation |-> generation]

\* The FE StatefulSet MakeStatefulset builds outside of recovery mode.
NormalStatefulSet(r) == [replicas |-> r.spec.replicas, generation |-> NoGen]

ExpectedStatefulSet(r) ==
  IF ShouldEnterDisasterRecoveryMode(r)
  THEN rewriteStatefulSetForDisasterRecovery(r.spec.generation)
  ELSE NormalStatefulSet(r)

\* mutant: the guard is missing
ScaleTo1Mutant(r) == FALSE

\* ApplyStatefulSet refuses to scale an FE of several replicas down to one
\* unless enableScaleTo1, which the FE sets in recovery mode only.
ScaleTo1Refused(r) ==
  /\ ~ShouldEnterDisasterRecoveryMode(r)
  /\ sts.replicas > 1
  /\ r.spec.replicas = 1

-----------------------------------------------------------------------------
Init ==
  /\ api \in [spec : SpecType, status : {NoStatus}]
  /\ cache = api
  /\ pc = "idle"
  /\ src = NoCopy
  /\ sts = [replicas |-> 0, generation |-> NoGen]
  /\ pods = [o \in Ordinals |-> Absent]
  /\ podCache = pods
  /\ restored = {}
  /\ finished = {}
  /\ regressed = FALSE
  /\ released = {}
  /\ edits = 0
  /\ faults = 0

Fault == faults < MaxFaults /\ faults' = faults + 1

(* The user edits one field of the specification.  run_mode is fixed when a *)
(* StarRocks cluster is created.                                            *)
UserEdit ==
  /\ edits < MaxEdits
  /\ edits' = edits + 1
  /\ \/ api' = [api EXCEPT !.spec.enabled = ~@]
     \/ api' = [api EXCEPT !.spec.snapshot = ~@]
     \/ \E g \in Generations : api' = [api EXCEPT !.spec.generation = g]
     \/ \E n \in 1 .. MaxReplicas : api' = [api EXCEPT !.spec.replicas = n]
  /\ UNCHANGED <<cache, pc, src, k8s, podCache, history, faults>>

(* Watch events reach the informer caches. *)
CacheSync ==
  /\ cache # api
  /\ cache' = api
  /\ UNCHANGED <<api, pc, src, k8s, podCache, history, edits, faults>>

PodCacheSync ==
  /\ podCache # pods
  /\ podCache' = pods
  /\ UNCHANGED <<api, cache, pc, src, k8s, history, edits, faults>>

-----------------------------------------------------------------------------
(* The reconcile *)

\* Reconcile reads the resource from the informer cache, however old it is; what
\* triggers it (a watch event, the requeue after an error, the periodic resync)
\* does not matter.
BeginReconcile ==
  /\ pc = "idle"
  /\ pc' = "fe"
  /\ src' = cache
  /\ UNCHANGED <<api, cache, k8s, podCache, history, edits, faults>>

\* GetFEConfig or a later call before the StatefulSet is applied fails: the
\* status is saved as it is and the error requeues.
FeConfigFails ==
  /\ pc = "fe"
  /\ Fault
  /\ pc' = "save"
  /\ UNCHANGED <<api, cache, src, k8s, podCache, history, edits>>

SnapshotConfMissing(r) ==
  /\ ShouldEnterDisasterRecoveryMode(r)
  /\ OpenedStatus(r).phase = "todo"
  /\ ~r.spec.snapshot

\* EnterDisasterRecoveryMode fails: cluster_snapshot.yaml is not mounted.
FeSnapshotMissing ==
  /\ pc = "fe"
  /\ SnapshotConfMissing(src)
  /\ src' = [src EXCEPT !.status = OpenedStatus(src)]
  /\ pc' = "save"
  /\ UNCHANGED <<api, cache, k8s, podCache, history, edits, faults>>

\* The status after the recovery part of SyncCluster, before the apply.
StatusAfterEnter(r, view) ==
  IF ShouldEnterDisasterRecoveryMode(r)
  THEN EnterDisasterRecoveryMode(r, view)
  ELSE r.status

\* The StatefulSet is created or patched (or is as expected already).  The
\* services that follow may fail, which ends the sync with an error.
FeApply ==
  /\ pc = "fe"
  /\ ~SnapshotConfMissing(src)
  /\ ~ScaleTo1Refused(src)
  /\ sts' = ExpectedStatefulSet(src)
  /\ src' = [src EXCEPT !.status = StatusAfterEnter(src, podCache)]
  /\ finished' = IF sts'.generation = NoGen /\ src.status.phase = "done"
                 THEN finished \cup {src.status.og}
                 ELSE finished
  /\ \/ pc' = "be" /\ UNCHANGED faults
     \/ pc' = "save" /\ Fault
  /\ UNCHANGED <<api, cache, pods, podCache, restored, regressed, released, edits>>

\* ApplyStatefulSet returns an error and leaves the StatefulSet alone; the
\* status already holds what EnterDisasterRecoveryMode made of it.
FeApplyFails ==
  /\ pc = "fe"
  /\ ~SnapshotConfMissing(src)
  /\ \/ ScaleTo1Refused(src) /\ UNCHANGED faults
     \/ Fault
  /\ src' = [src EXCEPT !.status = StatusAfterEnter(src, podCache)]
  /\ pc' = "save"
  /\ UNCHANGED <<api, cache, k8s, podCache, history, edits>>

\* mutant: BE does not ask for the recovery mode
SyncBeMutant ==
  /\ pc = "be"
  /\ pc' = "cn"
  /\ released' = released \cup {"be"}
  /\ UNCHANGED <<api, cache, src, k8s, podCache, restored, finished, regressed, edits, faults>>

\* BE drops the error of GetFEConfig; the empty configuration it goes on with
\* is not one of shared-data mode.
SyncBe ==
  /\ pc = "be"
  /\ pc' = "cn"
  /\ \/ /\ ~ShouldEnterDisasterRecoveryMode(src)
        /\ released' = released \cup {"be"} /\ UNCHANGED faults
     \/ /\ ShouldEnterDisasterRecoveryMode(src)
        /\ released' = released \cup {"unread"} /\ Fault
     \/ UNCHANGED <<released, faults>>    \* FE is not ready, or BE is paused
  /\ UNCHANGED <<api, cache, src, k8s, podCache, restored, finished, regressed, edits>>

\* mutant: CN does not ask for the recovery mode
SyncCnMutant ==
  /\ pc = "cn"
  /\ pc' = "save"
  /\ released' = released \cup {"cn"}
  /\ UNCHANGED <<api, cache, src, k8s, podCache, restored, finished, regressed, edits, faults>>

\* CN returns the error of GetFEConfig.
SyncCn ==
  /\ pc = "cn"
  /\ pc' = "save"
  /\ \/ ~ShouldEnterDisasterRecoveryMode(src) /\ released' = released \cup {"cn"}
     \/ UNCHANGED released                \* error, FE not ready, or CN paused
  /\ UNCHANGED <<api, cache, src, k8s, podCache, restored, finished, regressed, edits, faults>>

\* s belongs to an older generation than t, or to an earlier phase of the same.
Older(s, t) ==
  \/ s.og < t.og
  \/ s.og = t.og /\ s.phase = "todo" /\ t.phase \in {"doing", "done"}
  \/ s.og = t.og /\ s.phase = "doing" /\ t.phase = "done"

EndReconcile == pc' = "idle" /\ src' = NoCopy /\ released' = {}

\* UpdateStarRocksClusterStatus: Get, overwrite the status, Update; the update
\* is accepted only if the Get returned the newest version.  Nobody compares what
\* is overwritten: the copy this reconcile began with may have been older.
SaveStatus ==
  /\ pc = "save"
  /\ cache = api
  /\ api' = [api EXCEPT !.status = src.status]
  /\ regressed' = (regressed \/ Older(src.status, api.status))
  /\ EndReconcile
  /\ UNCHANGED <<cache, k8s, podCache, restored, finished, edits, faults>>

\* The retries are used up by conflicts, or the call fails: the status is lost.
SaveStatusFails ==
  /\ pc = "save"
  /\ \/ cache # api /\ UNCHANGED faults
     \/ Fault
  /\ EndReconcile
  /\ UNCHANGED <<api, cache, k8s, podCache, restored, finished, regressed, edits>>

\* The operator process dies and restarts with newly listed caches.
Crash ==
  /\ pc # "idle"
  /\ Fault
  /\ EndReconcile
  /\ cache' = api
  /\ podCache' = pods
  /\ UNCHANGED <<api, k8s, restored, finished, regressed, edits>>

-----------------------------------------------------------------------------
(* The StatefulSet controller and the kubelet (external) *)

CreatePod(o) ==
  /\ o < sts.replicas
  /\ pods[o] = Absent
  /\ pods' = [pods EXCEPT ![o] = [exists |-> TRUE, ready |-> FALSE,
                                  generation |-> sts.generation]]
  /\ UNCHANGED <<api, cache, pc, src, sts, podCache, history, edits, faults>>

DeletePod(o) ==
  /\ pods[o].exists
  /\ o >= sts.replicas \/ pods[o].generation # sts.generation
  /\ pods' = [pods EXCEPT ![o] = Absent]
  /\ UNCHANGED <<api, cache, pc, src, sts, podCache, history, edits, faults>>

\* An FE pod with the restore environment opens its query port, and so passes
\* the readiness probe, when the snapshot is restored.
PodReady(o) ==
  /\ pods[o].exists
  /\ ~pods[o].ready
  /\ pods' = [pods EXCEPT ![o].ready = TRUE]
  /\ restored' = restored \cup ({pods[o].generation} \ {NoGen})
  /\ UNCHANGED <<api, cache, pc, src, sts, podCache, finished, regressed, released,
                 edits, faults>>

PodUnready(o) ==
  /\ pods[o].ready
  /\ Fault
  /\ pods' = [pods EXCEPT ![o].ready = FALSE]
  /\ UNCHANGED <<api, cache, pc, src, sts, podCache, history, edits>>

-----------------------------------------------------------------------------
Reconcile ==
  \/ BeginReconcile \/ FeConfigFails \/ FeSnapshotMissing \/ FeApply
  \/ FeApplyFails \/ SyncBe \/ SyncCn \/ SaveStatus \/ SaveStatusFails \/ Crash

Kubernetes ==
  \E o \in Ordinals : CreatePod(o) \/ DeletePod(o) \/ PodReady(o) \/ PodUnready(o)

Next == UserEdit \/ CacheSync \/ PodCacheSync \/ Reconcile \/ Kubernetes

Spec == Init /\ [][Next]_vars

\* The resync period retriggers the reconcile, client-go retries lost watches,
\* Kubernetes keeps working on the pods.  Faults and edits are bounded.
Fairness ==
  /\ WF_vars(CacheSync)
  /\ WF_vars(PodCacheSync)
  /\ WF_vars(BeginReconcile)
  /\ WF_vars(FeSnapshotMissing \/ FeApply \/ FeApplyFails)
  /\ WF_vars(SyncBe)
  /\ WF_vars(SyncCn)
  /\ WF_vars(SaveStatus \/ SaveStatusFails)
  /\ \A o \in Ordinals : WF_vars(CreatePod(o)) /\ WF_vars(DeletePod(o)) /\ WF_vars(PodReady(o))

FairSpec == Spec /\ Fairness

-----------------------------------------------------------------------------
(* Properties *)

\* Phase done is recorded only for a generation an FE pod has restored: an FE
\* pod of the cluster as it was before the recovery, ready as it may be, never
\* ends the recovery (CheckFEReadyInDisasterRecovery), whatever the caches
\* show, whichever call fails and wherever the operator crashes.
DoneMeansRestored ==
  api.status.phase = "done" => api.status.og \in restored

\* What holds while BE or CN is deployed: FE's template is the normal one or that
\* of a generation already restored; and of the recovery asked for, either the
\* snapshot was restored, or the user went back below the generation observed
\* last, which gives the recovery up and has put FE back to its normal template.
PausedDuringRecovery(sync) ==
  sync \in released =>
    /\ sts.generation \in restored \cup {NoGen}
    /\ src.spec.sharedData /\ src.spec.enabled =>
         \/ src.spec.generation \in restored
         \/ src.spec.generation < src.status.og /\ sts.generation = NoGen

\* Compute nodes never start against an FE that is restarted for a snapshot not
\* yet restored (cn_controller.go asks ShouldEnterDisasterRecoveryMode of the
\* status FE's sync has just changed), with edits and stale copies at any step.
CnPausedDuringRecovery == PausedDuringRecovery("cn")

\* So do the backends, whenever they get to see FE's configuration.
BePausedDuringRecovery == PausedDuringRecovery("be")

\* "For BE component, the reconcile is paused", whatever happens: the sync that
\* drops the error of GetFEConfig is no exception.
BeAlwaysPaused == BePausedDuringRecovery /\ PausedDuringRecovery("unread")

\* At most one FE pod restores the snapshot: the restore environment and the
\* single replica go into the StatefulSet together, and no schedule of scaling
\* and rolling pods gives the environment to a second ordinal.
OneRestoringFe ==
  \A o \in Ordinals : pods[o].generation # NoGen => o = 0

\* Once a reconcile has read "done" for a generation and returned the FE to
\* its normal template, no later reconcile restores that generation again:
\* that would throw away what was written since ("a new DR operation is triggered"
\* only when observedGeneration < generation).
RecoveryNotRepeated == sts.generation \notin finished

\* The one way to a second recovery of a generation is that a reconcile which
\* began with an old copy has overwritten the recorded status: neither stale
\* reads alone, nor lost statuses, crashes or set-back generations repeat one.
RepeatedOnlyAfterRegress == RecoveryNotRepeated \/ regressed

\* An FE of several replicas is scaled down to one only for a recovery
\* (the quorum of its metadata would be lost).
ScaledTo1OnlyForRecovery ==
  [][sts.replicas > 1 /\ sts'.replicas = 1 => sts'.generation # NoGen]_sts

\* Of all this the API server and Kubernetes see a simple protocol: recorded
\* statuses advance step by step until an old copy overwrites one, done always
\* follows a restore, FE restarts for no generation whose end was read before,
\* and returns without losing its quorum.
Protocol == INSTANCE RecoveryProtocol WITH status <- api.status, template <- sts

FollowsProtocol == Protocol!Spec

\* A recovery that stays enabled, of a shared-data cluster with the snapshot
\* configuration mounted, ends: done is recorded for the generation the user
\* asks for (or the user went back below the observed one, which gives the
\* recovery up) and the FE runs its normal template again.  Reconciles may begin
\* with old copies any number of times, but not for ever: two copies that keep
\* overwriting each other's status would chase each other without end.
FreshBegin == BeginReconcile => cache = api

RecoveryCompletes ==
  (/\ <>[](api.spec.sharedData /\ api.spec.enabled /\ api.spec.snapshot)
   /\ <>[][FreshBegin]_vars)
    => <>[](/\ sts.generation = NoGen
            /\ \/ api.status.og > api.spec.generation
               \/ api.status = [phase |-> "done", og |-> api.spec.generation])
=============================================================================
