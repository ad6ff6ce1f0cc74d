--------------------------- MODULE ClusterReconcile ---------------------------
(***************************************************************************)
(* A pass of StarRocksClusterReconciler.Reconcile: the sub-controllers of  *)
(* FE, BE, CN and FE proxy sync their workloads in this order, BE, CN and  *)
(* proxy only behind a check of FE; then each of them reports its status,  *)
(* the cluster phase is derived and the status is saved.  Meanwhile the    *)
(* StatefulSet controller rolls the workloads out and reports on them with *)
(* a delay.                                                                *)
(*                                                                         *)
(* Simplifications: a component's spec is a revision number, 0 if it is    *)
(* not declared; the services of a component go with its workload; the     *)
(* operator reads the workloads as they are (module ApplyObject is about   *)
(* a lagging cache); no disaster recovery (module DisasterRecovery).       *)
(***************************************************************************)
EXTENDS Naturals, FiniteSets

CONSTANTS
  Replicas,           \* of each component
  Optional,           \* the components a user may declare besides FE
  MaxRev,             \* bound: revisions of a component's spec
  BadRevs,            \* those whose FE pods never become ready
  WaitForFullRollout, \* of the StarRocksCluster
  OnDelete,           \* the components whose updateStrategy is OnDelete
  Partition,          \* of the rolling update of each component
  MaxEdits,           \* bound: edits of the StarRocksCluster
  MaxFaults           \* bound: failed calls, crashes, failed pods, deleted workloads

Scs  == <<"fe", "be", "cn", "proxy">>
Comp == {"fe", "be", "cn", "proxy"}
Revs == 1 .. MaxRev

ASSUME ConstantsAssumption ==
  /\ Replicas \in [Comp -> Nat \ {0}]
  /\ Optional \subseteq Comp
  /\ MaxRev \in Nat \ {0}
  /\ BadRevs \subseteq Revs
  /\ WaitForFullRollout \in BOOLEAN
  /\ OnDelete \subseteq Comp \ {"proxy"}
  /\ Partition \in [Comp -> Nat] /\ Partition["proxy"] = 0
  /\ MaxEdits \in Nat
  /\ MaxFaults \in Nat

VARIABLES
  spec,        \* revision of each component in the StarRocksCluster
  status,      \* the saved status of the StarRocksCluster
  load,        \* StatefulSets and Deployment: spec and reported status
  pods,        \* the pods of each workload
  endpoints,   \* does FE's Endpoints object hold an address?
  pc, at,      \* the phase of the pass and the sub-controller, 1 .. 4
  src,         \* the pass's copy of the StarRocksCluster
  feWasReady,  \* history: some FE pod has been ready
  edits, faults

k8s  == <<load, pods, endpoints, feWasReady>>
pass == <<pc, at, src>>
vars == <<spec, status, load, pods, endpoints, pc, at, src,
          feWasReady, edits, faults>>

Specs == {s \in [Comp -> 0 .. MaxRev] :
            s["fe"] # 0 /\ \A c \in Comp \ Optional : c # "fe" => s[c] = 0}
NoSpec == [c \in Comp |-> IF c = "fe" THEN 1 ELSE 0]

PhaseType  == {"none", "reconciling", "failed", "running"}
StatusType == [phase : PhaseType, reason : Comp \cup {"none"}, comp : [Comp -> PhaseType]]
NewStatus  == [phase |-> "none", reason |-> "none", comp |-> [c \in Comp |-> "none"]]

\* Between passes there is no copy.
NoSrc == [spec |-> NoSpec, status |-> NewStatus]

\* rev: revision of the pod template.  The rest is reported by its controller:
\* seen: revision of observedGeneration, which is updateRevision (0: none);
\* current: currentRevision; updated, ready: numbers of replicas.  back is
\* history: the workload was returned to its current revision in the middle
\* of a rollout, and not all pods have followed yet.
LoadType == [exists : BOOLEAN, rev : 0 .. MaxRev, seen : 0 .. MaxRev,
             current : 0 .. MaxRev, updated : Nat, ready : Nat, back : BOOLEAN]
NoLoad   == [exists |-> FALSE, rev |-> 0, seen |-> 0, current |-> 0,
             updated |-> 0, ready |-> 0, back |-> FALSE]
NewLoad(rev) == [NoLoad EXCEPT !.exists = TRUE, !.rev = rev]

PodType == [rev : 0 .. MaxRev, phase : {"none", "creating", "ready", "failed"}]
NoPod   == [rev |-> 0, phase |-> "none"]
Pods(c) == 1 .. Replicas[c]

TypeOK ==
  /\ spec \in Specs
  /\ status \in StatusType
  /\ load \in [Comp -> LoadType]
  /\ \A c \in Comp : pods[c] \in [Pods(c) -> PodType]
  /\ DOMAIN pods = Comp
  /\ endpoints \in BOOLEAN
  /\ pc \in {"idle", "sync", "status", "save"}
  /\ at \in 1 .. 4
  /\ src \in [spec : Specs, status : StatusType]
  /\ feWasReady \in BOOLEAN
  /\ edits \in 0 .. MaxEdits
  /\ faults \in 0 .. MaxFaults

Init ==
  /\ spec \in Specs
  /\ status = NewStatus
  /\ load = [c \in Comp |-> NoLoad]
  /\ pods = [c \in Comp |-> [i \in Pods(c) |-> NoPod]]
  /\ endpoints = FALSE
  /\ pc = "idle" /\ at = 1
  /\ src = NoSrc
  /\ feWasReady = FALSE
  /\ edits = 0 /\ faults = 0

Fault == faults < MaxFaults /\ faults' = faults + 1
Edit  == edits < MaxEdits /\ edits' = edits + 1

-----------------------------------------------------------------------------
(* The user *)

ChangeSpec ==
  /\ Edit
  /\ spec' \in Specs \ {spec}
  /\ UNCHANGED <<status, k8s, pass, faults>>

DeleteWorkload(c) ==
  /\ Fault
  /\ load[c].exists
  /\ load' = [load EXCEPT ![c] = NoLoad]
  /\ pods' = [pods EXCEPT ![c] = [i \in Pods(c) |-> NoPod]]
  /\ UNCHANGED <<spec, status, endpoints, feWasReady, pass, edits>>

-----------------------------------------------------------------------------
(* Kubernetes (external) *)

\* The controller of a workload observes its spec and counts its pods.  At the
\* end of a rolling update the current revision follows.
WorkloadStatus(c) ==
  LET updated == Cardinality({i \in Pods(c) : pods[c][i].phase # "none" /\ pods[c][i].rev = load[c].rev})
      ready   == Cardinality({i \in Pods(c) : pods[c][i].phase = "ready"})
      all     == updated = Replicas[c] /\ ready = Replicas[c]
      rolled  == load[c].current = 0 \/ (all /\ c \notin OnDelete)
      turned  == load[c].rev = load[c].current /\ load[c].seen # load[c].current
      new     == [load[c] EXCEPT !.seen = load[c].rev, !.updated = updated, !.ready = ready,
                    !.current = IF rolled THEN load[c].rev ELSE load[c].current,
                    !.back = ~all /\ (load[c].back \/ turned)]
  IN  /\ load[c].exists
      /\ load[c] # new
      /\ load' = [load EXCEPT ![c] = new]
      /\ UNCHANGED <<spec, status, pods, endpoints, feWasReady, pass, edits, faults>>

PodStep(c, i, pod) ==
  /\ pods' = [pods EXCEPT ![c][i] = pod]
  /\ feWasReady' = (feWasReady \/ (c = "fe" /\ pod.phase = "ready"))
  /\ UNCHANGED <<spec, status, load, endpoints, pass, edits>>

\* The pods below the partition are of the current revision.
CreatePod(c, i) ==
  /\ load[c].seen # 0
  /\ pods[c][i].phase = "none"
  /\ PodStep(c, i, [rev   |-> IF i <= Partition[c] /\ c \notin OnDelete
                              THEN load[c].current ELSE load[c].seen,
                    phase |-> "creating"])
  /\ UNCHANGED faults

PodReady(c, i) ==
  /\ pods[c][i].phase = "creating"
  /\ ~(c = "fe" /\ pods[c][i].rev \in BadRevs)
  /\ PodStep(c, i, [pods[c][i] EXCEPT !.phase = "ready"])
  /\ UNCHANGED faults

\* The rolling update takes the pods of other revisions from the last one down
\* to the partition and waits for each; a failed pod is removed too.
RemovePod(c, i) ==
  /\ load[c].seen # 0
  /\ pods[c][i].phase # "none"
  /\ \/ pods[c][i].phase = "failed"
     \/ /\ c \notin OnDelete /\ i > Partition[c]
        /\ pods[c][i].rev # load[c].seen
        /\ \A j \in Pods(c) : j > i => pods[c][j].phase = "ready" /\ pods[c][j].rev = load[c].seen
  /\ PodStep(c, i, NoPod)
  /\ UNCHANGED faults

PodFails(c, i) ==
  /\ Fault
  /\ pods[c][i].phase \in {"creating", "ready"}
  /\ PodStep(c, i, [pods[c][i] EXCEPT !.phase = "failed"])

SyncEndpoints ==
  /\ endpoints' = (\E i \in Pods("fe") : pods["fe"][i].phase = "ready")
  /\ endpoints' # endpoints
  /\ UNCHANGED <<spec, status, load, pods, feWasReady, pass, edits, faults>>

-----------------------------------------------------------------------------
(* The sync half of a pass *)

Sub == Scs[at]

\* The next sub-controller, and the next phase after the last one.
Advance(next) ==
  /\ at' = IF at = 4 THEN 1 ELSE at + 1
  /\ pc' = IF at = 4 THEN next ELSE pc

Begin ==
  /\ pc = "idle"
  /\ pc' = "sync" /\ at' = 1
  /\ src' = [spec |-> spec, status |-> status]
  /\ UNCHANGED <<spec, status, k8s, edits, faults>>

CheckFEReady == endpoints

\* mutant: the revision check is dropped
RolledOutMutant ==
  /\ load["fe"].exists
  /\ load["fe"].ready >= Replicas["fe"]

CheckFEFullyRolledOut ==
  /\ load["fe"].exists
  /\ load["fe"].ready >= Replicas["fe"]
  /\ load["fe"].seen = load["fe"].current

\* mutant: BE, CN and proxy are not held back by FE
GateMutant(c) == TRUE

Gate(c) ==
  \/ c = "fe"
  \/ c = "proxy" /\ CheckFEReady
  \/ c \in {"be", "cn"} /\ IF WaitForFullRollout THEN CheckFEFullyRolledOut ELSE CheckFEReady

\* ApplyStatefulSet, ApplyDeployment: create, or patch the spec.
Apply(c) ==
  /\ load' = IF load[c].exists THEN [load EXCEPT ![c].rev = src.spec[c]]
             ELSE [load EXCEPT ![c] = NewLoad(src.spec[c])]
  /\ UNCHANGED <<pods, endpoints, feWasReady>>

ClearCluster(c) ==
  /\ load' = [load EXCEPT ![c] = NoLoad]
  /\ pods' = [pods EXCEPT ![c] = [i \in Pods(c) |-> NoPod]]
  /\ UNCHANGED <<endpoints, feWasReady>>

\* mutant: a component that is not declared any more is left alone
SyncEffectMutant(c) ==
  IF src.spec[c] = 0 \/ ~Gate(c) THEN UNCHANGED k8s ELSE Apply(c)

\* What SyncCluster of c does to its workload.
SyncEffect(c) ==
  IF src.spec[c] = 0 THEN ClearCluster(c)
  ELSE IF Gate(c) THEN Apply(c) ELSE UNCHANGED k8s

SyncCluster ==
  /\ pc = "sync"
  /\ SyncEffect(Sub)
  /\ Advance("status")
  /\ UNCHANGED <<spec, status, src, edits, faults>>

\* handleSyncClusterError
Failed(c, st) == [st EXCEPT !.phase = "failed", !.reason = c]

\* An error of a sub-controller, before or after its workload is written: the
\* rest of the pass is skipped and the error is saved.  CN's errors on the
\* removal of its workload are only logged.
SyncClusterFails ==
  /\ pc = "sync"
  /\ Fault
  /\ UNCHANGED k8s \/ SyncEffect(Sub)
  /\ IF Sub = "cn" /\ src.spec["cn"] = 0
     THEN Advance("status") /\ UNCHANGED src
     ELSE /\ pc' = "save" /\ at' = 1
          /\ src' = [src EXCEPT !.status = Failed(Sub, src.status)]
  /\ UNCHANGED <<spec, status, edits>>

-----------------------------------------------------------------------------
(* The status half of a pass *)

\* statefulset.Status, deployment.Status.  As the API server completes every
\* RollingUpdate with a partition, the revisions are never compared.
RolledOut(c) ==
  /\ load[c].seen = load[c].rev
  /\ load[c].ready >= Replicas[c]
  /\ load[c].updated + Partition[c] >= Replicas[c]

PodIn(c, phase) == \E i \in Pods(c) : pods[c][i].phase = phase

\* mutant: the phase that the comment on the field promises
UpdateStatusMutant(c) ==
  IF PodIn(c, "failed") THEN "failed"
  ELSE IF PodIn(c, "creating") THEN "creating"
  ELSE IF RolledOut(c) THEN "running" ELSE "reconciling"

\* subcontrollers.UpdateStatus: a failed pod, a pod that is not ready, and
\* otherwise the workload decides.
UpdateStatus(c) ==
  IF PodIn(c, "failed") THEN "failed"
  ELSE IF PodIn(c, "creating") THEN "reconciling"
  ELSE IF RolledOut(c) THEN "running" ELSE "reconciling"

\* The rollout status of a StatefulSet is an error unless its strategy is
\* RollingUpdate, and it is asked for when the pods do not decide.
NoRolloutStatus(c) ==
  /\ c \in OnDelete /\ src.spec[c] # 0 /\ load[c].exists
  /\ ~PodIn(c, "failed") /\ ~PodIn(c, "creating")

\* mutant: like BE's, CN's last phase is kept
StartPhaseMutant(c) ==
  IF src.status.comp[c] = "none" THEN "reconciling" ELSE src.status.comp[c]

\* The phase of c when its status is looked at: CN always starts anew, the
\* others keep the last one.
StartPhase(c) ==
  IF c = "cn" \/ src.status.comp[c] = "none" THEN "reconciling" ELSE src.status.comp[c]

ComponentPhase(c) ==
  IF src.spec[c] = 0 THEN "none"
  ELSE IF load[c].exists THEN UpdateStatus(c) ELSE StartPhase(c)

\* mutant: the cluster is running whatever its components are
ReconcileStatusMutant(st) == [st EXCEPT !.phase = "running", !.reason = "none"]

\* reconcileStatus: the first of FE, BE, CN that is not running decides.
\* FE proxy has no say.
ReconcileStatus(st) ==
  LET bad(c) == st.comp[c] \in {"reconciling", "failed"}
  IN  [st EXCEPT !.reason = "none",
         !.phase = IF bad("fe") THEN st.comp["fe"]
                   ELSE IF bad("be") THEN st.comp["be"]
                   ELSE IF bad("cn") THEN st.comp["cn"]
                   ELSE "running"]

\* FE's StatefulSet must be there, the other workloads need not.
UpdateClusterStatus ==
  /\ pc = "status"
  /\ Sub = "fe" => load["fe"].exists
  /\ ~NoRolloutStatus(Sub)
  /\ LET st == [src.status EXCEPT !.comp[Sub] = ComponentPhase(Sub)]
     IN  src' = [src EXCEPT !.status = IF at = 4 THEN ReconcileStatus(st) ELSE st]
  /\ Advance("save")
  /\ UNCHANGED <<spec, status, k8s, edits, faults>>

\* UpdateClusterStatus of a sub-controller returns an error, having set its
\* component's phase to p: the rest of the pass is skipped.
StatusError(p) ==
  /\ pc = "status"
  /\ src' = [src EXCEPT !.status = Failed(Sub, [src.status EXCEPT !.comp[Sub] = p])]
  /\ pc' = "save" /\ at' = 1
  /\ UNCHANGED <<spec, status, k8s, edits>>

\* Get of FE's StatefulSet says NotFound.
FeStatefulSetMissing ==
  /\ Sub = "fe" /\ ~load["fe"].exists
  /\ StatusError("reconciling")
  /\ UNCHANGED faults

\* statefulset.Status returns an error.
RolloutStatusFails ==
  /\ NoRolloutStatus(Sub)
  /\ StatusError("reconciling")
  /\ UNCHANGED faults

\* The pods cannot be listed, or the workload cannot be read after that, or
\* the Deployment has exceeded its progress deadline.
UpdateClusterStatusFails ==
  /\ src.spec[Sub] # 0
  /\ StatusError(StartPhase(Sub)) \/ StatusError("reconciling")
  /\ Fault

\* UpdateStarRocksClusterStatus
SaveStatus ==
  /\ pc = "save"
  /\ status' = src.status
  /\ pc' = "idle" /\ src' = NoSrc
  /\ UNCHANGED <<spec, k8s, at, edits, faults>>

\* The status cannot be written, or the operator restarts in mid-pass.
PassLost ==
  /\ Fault
  /\ pc # "idle"
  /\ pc' = "idle" /\ at' = 1 /\ src' = NoSrc
  /\ UNCHANGED <<spec, status, k8s, edits>>

-----------------------------------------------------------------------------

Operator ==
  \/ Begin \/ SyncCluster
  \/ UpdateClusterStatus \/ FeStatefulSetMissing \/ RolloutStatusFails \/ SaveStatus

PodProgress(c, i) == CreatePod(c, i) \/ PodReady(c, i) \/ RemovePod(c, i)

Next ==
  \/ ChangeSpec
  \/ \E c \in Comp : DeleteWorkload(c) \/ WorkloadStatus(c)
  \/ \E c \in Comp : \E i \in Pods(c) : PodProgress(c, i) \/ PodFails(c, i)
  \/ SyncEndpoints
  \/ Operator \/ SyncClusterFails \/ UpdateClusterStatusFails \/ PassLost

Spec == Init /\ [][Next]_vars

\* The two-minute resync, the requeue after an error and the watches start a
\* pass again and again, and a pass runs to its end.  Kubernetes makes progress.
Fairness ==
  /\ WF_vars(Operator)
  /\ WF_vars(SyncEndpoints)
  /\ \A c \in Comp : WF_vars(WorkloadStatus(c))
  /\ \A c \in Comp : \A i \in Pods(c) : WF_vars(PodProgress(c, i))

FairSpec == Spec /\ Fairness

-----------------------------------------------------------------------------
(* Properties *)

\* BE, CN and proxy are deployed only behind an FE that has come up: neither
\* the Endpoints object nor the StatefulSet's status lets them through before.
CreatedAfterFeReady ==
  \A c \in Comp \ {"fe"} : load[c].exists => feWasReady

Written(c) == load'[c].exists /\ load'[c].rev # load[c].rev

\* What WaitForFullRollout does keep, however late FE's status is and whatever
\* fails: when BE or CN is created or updated, the version that the FE
\* StatefulSet was last seen to ask for comes up, and each FE pod is of that
\* version, unless FE is on its way back to the version it came from.
BehindOneGoodVersion ==
  [][WaitForFullRollout /\ ~load["fe"].back /\ (Written("be") \/ Written("cn")) =>
       /\ load["fe"].seen \notin BadRevs
       /\ \A i \in Pods("fe") :
            pods["fe"][i].phase # "none" => pods["fe"][i].rev = load["fe"].seen]_vars

\* "fully rolled out (all replicas ready and at the same revision) before
\* updating BE/CN": there are no two FE pods of different revisions when BE or
\* CN is written.
OneRevisionBeforeUpdate ==
  [][WaitForFullRollout /\ (Written("be") \/ Written("cn")) =>
       \A i, j \in Pods("fe") :
         pods["fe"][i].phase # "none" /\ pods["fe"][j].phase # "none" =>
           pods["fe"][i].rev = pods["fe"][j].rev]_vars

\* "This prevents cascading failures if a bad FE version is deployed": with
\* WaitForFullRollout neither BE nor CN is created or updated while FE's
\* StatefulSet asks for a version whose pods do not become ready.
BadRolloutDoesNotCascade ==
  [][WaitForFullRollout /\ load["fe"].rev \in BadRevs =>
       ~Written("be") /\ ~Written("cn")]_vars

\* "if component all running phase=running": a component that keeps the
\* declared revision with all of its pods ready is reported as running.
AllReady(c) ==
  /\ load[c].exists /\ load[c].rev = spec[c]
  /\ \A i \in Pods(c) : pods[c][i].phase = "ready" /\ pods[c][i].rev = spec[c]
AllRunningIsReported ==
  \A c \in Comp : <>[]AllReady(c) => <>[](status.comp[c] = "running")

\* When the user leaves a cluster of good versions alone, each workload comes
\* to have the declared revision, what is not declared is removed and the
\* cluster is reported as running.
Settled ==
  /\ \A c \in Comp : load[c].rev = spec[c] /\ (load[c].exists <=> spec[c] # 0)
  /\ status.phase = "running" /\ status.reason = "none"
Converges == <>[](spec["fe"] \notin BadRevs) => <>[]Settled

\* An FE that cannot come up is never reported as running for good.
StuckFeIsReported == <>[](load["fe"].rev \in BadRevs) => <>[](status.phase # "running")

\* "Phase the value from all pods of component status": a CN without a
\* StatefulSet, deleted while FE is stuck, does not stay reported as running.
CnGoneNotRunning == <>[](~load["cn"].exists) => <>[](status.comp["cn"] # "running")
=============================================================================
