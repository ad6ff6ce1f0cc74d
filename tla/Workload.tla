------------------------------- MODULE Workload -------------------------------
(***************************************************************************)
(* What a pass writes: the StatefulSets and services of FE, BE and CN,     *)
(* computed from the custom resource and from the ConfigMaps that hold     *)
(* StarRocks' configuration files, which are read anew in every pass and   *)
(* by every pod that starts.  Users edit both between any two calls.       *)
(*                                                                         *)
(* Simplifications: one pod stands for a component; the file in a          *)
(* ConfigMap has the name that StarRocks reads; the StatefulSets are       *)
(* updated by RollingUpdate; recovery, autoscaling and rollout gate are    *)
(* modelled elsewhere.                                                     *)
(***************************************************************************)
EXTENDS PodStorage, ServicePorts

CONSTANTS
  Clusters,  \* which components a cluster may have: sets of fe, be and cn
  Specs,     \* for each component the specs a user may give it, the first one first
  Contents,  \* for each ConfigMap the contents it may have, the first one first
  MaxEdits,  \* bound: edits of the custom resource and of ConfigMaps
  MaxFaults  \* bound: failed calls, lost passes, pods that end by themselves

Comps == {"fe", "be", "cn"}

\* The order of a pass.
Order == <<"fe", "be", "cn">>

\* The part of a component's spec that its StatefulSet and services are made of.
StarRocksLoadSpec ==
  [volumes : Seq(StorageVolume), info : ConfigMapInfo, maps : Seq(MountInfo),
   secrets : Seq(MountInfo), service : Service, image : Seq(Nat), maxUnavailable : Int]

\* Every spec is well formed and takes its configuration from a given ConfigMap.
ASSUME ConstantsAssumption ==
  /\ \A k \in Clusters : "fe" \in k /\ k \subseteq Comps
  /\ DOMAIN Specs = Comps
  /\ \A c \in Comps : Specs[c] \in Seq(StarRocksLoadSpec) \ {<<>>}
  /\ \A m \in DOMAIN Contents : 1 \in DOMAIN Contents[m]
  /\ \A c \in Comps : \A n \in DOMAIN Specs[c] :
       ConfigMapOf(Specs[c][n]) \in {<<>>} \cup DOMAIN Contents
  /\ VolumeNameWithHash \in BOOLEAN
  /\ MaxEdits \in Nat /\ MaxFaults \in Nat

VARIABLES
  spec,     \* the custom resource: which of Specs[c] component c has, 0 for none
  maps,     \* the ConfigMaps
  sts,      \* the StatefulSets: template and claims
  svcs,     \* the services, external and search, of every component
  pods,     \* the running pod of a component: its template and what it listens on
  pc, at,   \* the next call of the pass and the component it is about
  src,      \* the pass's copy of the custom resource
  own, fe,  \* the configurations it has read for that component
  failed,   \* why the pass, or the last one, ended early
  past,     \* history: the contents every ConfigMap has had
  setBack,  \* history: a ConfigMap was given back a port that it had before
  edits, faults

vars == <<spec, maps, sts, svcs, pods, pc, at, src, own, fe, failed, past, setBack, edits, faults>>
user == <<spec, maps, past, setBack, edits>>

Absent    == [state |-> "absent", config |-> EmptyConfig]
Malformed == [state |-> "malformed", config |-> EmptyConfig]
Ok(config) == [state |-> "ok", config |-> config]

ContentsOf(m) == {Contents[m][i] : i \in DOMAIN Contents[m]}
Configs == {EmptyConfig} \cup {k.config : k \in UNION {ContentsOf(m) : m \in DOMAIN Contents}}

\* ValidUpdateStrategy
ValidUpdateStrategy(s) == s.maxUnavailable # 0

Validating(s) ==
  /\ \A i \in DOMAIN s.volumes : Validate(s.volumes[i])
  /\ ValidUpdateStrategy(s)
  /\ ServiceValidate(s.service)

\* What follows from the n-th spec of component c alone, computed once.
Derived ==
  [c \in Comps |-> [n \in DOMAIN Specs[c] |->
     LET s == Specs[c][n]
         p == PodVolumes(c, s)
     IN [valid |-> Validating(s), map |-> ConfigMapOf(s), claims |-> PVCList(s.volumes),
         vols |-> p.vols, mounts |-> p.mounts, checked |-> CheckVolumes(p),
         graceful |-> GracefulStop(c, s.image), image |-> s.image,
         external |-> [k \in Configs |-> BuildExternalService(c, s.service, k)],
         search   |-> [k \in Configs |-> SearchService(c, k)]]]]

NoTemplate == [vols |-> <<>>, mounts |-> <<>>, ports |-> EmptyConfig, probe |-> 0,
               query |-> 0, graceful |-> FALSE, image |-> <<>>]
NoSts      == [exists |-> FALSE, template |-> NoTemplate, claims |-> {}]
NoService  == [type |-> "", ip |-> "", policy |-> "", ranges |-> <<>>, ports |-> EmptyConfig]
NoPod      == [template |-> NoTemplate, listens |-> EmptyConfig]

Reasons == {"none", "call", "invalid", "config", "volumes", "claims", "names", "source", "service"}
Steps   == {"idle", "check", "own", "fe", "sts", "search", "external"}

\* FE is never left out of a custom resource.
SpecsOf(s) ==
  /\ s \in [Comps -> Nat] /\ s["fe"] # 0
  /\ \A c \in Comps : s[c] \in {0} \cup DOMAIN Specs[c]

TypeOK ==
  /\ SpecsOf(spec) /\ SpecsOf(src)
  /\ DOMAIN maps = DOMAIN Contents /\ \A m \in DOMAIN Contents : maps[m] \in ContentsOf(m)
  /\ DOMAIN sts = Comps /\ DOMAIN svcs = Comps /\ DOMAIN pods = Comps
  /\ \A c \in Comps : sts[c].exists <=> sts[c].template # NoTemplate
  /\ own \in Configs /\ fe \in Configs
  /\ pc \in Steps
  /\ at \in DOMAIN Order
  /\ failed \in Reasons
  /\ edits \in 0 .. MaxEdits /\ faults \in 0 .. MaxFaults

Init ==
  /\ \E k \in Clusters : spec = [c \in Comps |-> IF c \in k THEN 1 ELSE 0]
  /\ maps = [m \in DOMAIN Contents |-> Contents[m][1]]
  /\ sts = [c \in Comps |-> NoSts]
  /\ svcs = [c \in Comps |-> [external |-> NoService, search |-> NoService]]
  /\ pods = [c \in Comps |-> NoPod]
  /\ pc = "idle" /\ at = 1 /\ src = spec
  /\ own = EmptyConfig /\ fe = EmptyConfig
  /\ failed = "none"
  /\ past = [m \in DOMAIN Contents |-> {Contents[m][1]}] /\ setBack = FALSE
  /\ edits = 0 /\ faults = 0

c_ == Order[at]
s_ == Derived[Order[at]][src[Order[at]]]

Fault == faults < MaxFaults /\ faults' = faults + 1

-----------------------------------------------------------------------------
(* The user *)

EditSpec(c) ==
  /\ edits < MaxEdits /\ edits' = edits + 1
  /\ spec[c] # 0
  /\ \E n \in DOMAIN Specs[c] \ {spec[c]} : spec' = [spec EXCEPT ![c] = n]
  /\ UNCHANGED <<maps, past, setBack, sts, svcs, pods, pc, at, src, own, fe, failed, faults>>

\* Does k give a key the port it had before the present contents of m?
GivesBack(m, k) ==
  \E old \in past[m], key \in DOMAIN DefMap :
    /\ Value(old.config, key) = Value(k.config, key)
    /\ Value(old.config, key) # Value(maps[m].config, key)

EditConfigMap(m) ==
  /\ edits < MaxEdits /\ edits' = edits + 1
  /\ \E k \in ContentsOf(m) \ {maps[m]} :
       /\ maps' = [maps EXCEPT ![m] = k]
       /\ past' = [past EXCEPT ![m] = @ \cup {k}]
       /\ setBack' = (setBack \/ GivesBack(m, k))
  /\ UNCHANGED <<spec, sts, svcs, pods, pc, at, src, own, fe, failed, faults>>

-----------------------------------------------------------------------------
(* Pods and API server (external) *)

\* The ConfigMap whose file StarRocks reads: the entrypoint puts the one of
\* configMapInfo in place of all others, and a mounted file hides that of a
\* mounted directory.
MapSeen(t) ==
  LET At(path) == {i \in DOMAIN t.mounts : t.mounts[i].path = path /\ t.vols[i].kind = "configMap"}
      etc  == At(Dir("etc"))
      file == At(Path("conf", ConfigFile))
      best == IF etc # {} THEN etc ELSE IF file # {} THEN file ELSE At(Dir("conf"))
  IN IF best = {} THEN <<>> ELSE t.vols[Min(best)].ref

\* The names that StarRocks prefers when it finds both.
ListensOn(c, config) ==
  [p \in DOMAIN ContainerKeys[c] |->
     LET key == ContainerKeys[c][p]
     IN IF key = "webserver_port" /\ Value(config, "be_http_port") # 0
        THEN Value(config, "be_http_port") ELSE GetPort(config, key)]

\* A pod starts when all its ConfigMaps exist and its file can be read.
CanStart(t) ==
  /\ \A i \in DOMAIN t.vols : t.vols[i].kind = "configMap" => maps[t.vols[i].ref].state # "absent"
  /\ MapSeen(t) # <<>> => maps[MapSeen(t)].state = "ok"

Started(c, t) ==
  [template |-> t,
   listens  |-> ListensOn(c, IF MapSeen(t) = <<>> THEN EmptyConfig ELSE maps[MapSeen(t)].config)]

PodStarts(c) ==
  /\ sts[c].exists /\ pods[c] = NoPod
  /\ CanStart(sts[c].template)
  /\ pods' = [pods EXCEPT ![c] = Started(c, sts[c].template)]
  /\ UNCHANGED <<user, sts, svcs, pc, at, src, own, fe, failed, faults>>

\* RollingUpdate
PodReplaced(c) ==
  /\ pods[c] # NoPod /\ pods[c].template # sts[c].template
  /\ pods' = [pods EXCEPT ![c] = NoPod]
  /\ UNCHANGED <<user, sts, svcs, pc, at, src, own, fe, failed, faults>>

Web(c) == IF c = "fe" THEN "http" ELSE "webserver"
Healthy(c) == pods[c] # NoPod /\ pods[c].listens[Web(c)] = pods[c].template.probe

\* The liveness probe: a container that does not answer it is started again.
ProbeFails(c) ==
  /\ pods[c] # NoPod /\ ~Healthy(c)
  /\ CanStart(pods[c].template)
  /\ Started(c, pods[c].template) # pods[c]
  /\ pods' = [pods EXCEPT ![c] = Started(c, pods[c].template)]
  /\ UNCHANGED <<user, sts, svcs, pc, at, src, own, fe, failed, faults>>

PodEnds(c) ==
  /\ Fault
  /\ pods[c] # NoPod
  /\ pods' = [pods EXCEPT ![c] = NoPod]
  /\ UNCHANGED <<user, sts, svcs, pc, at, src, own, fe, failed>>

\* Why the API server refuses a StatefulSet, "none" if it does not.
Refusal(old, new) ==
  LET t == new.template
  IN CASE old.exists /\ old.claims # new.claims -> "claims"
       [] ~IsInjective([i \in DOMAIN t.vols |-> t.vols[i].name]) -> "names"
       [] ~IsInjective([i \in DOMAIN t.mounts |-> t.mounts[i].path]) -> "names"
       [] \E i \in DOMAIN t.vols : HollowVolume(t.vols[i]) -> "source"
       [] OTHER -> "none"

-----------------------------------------------------------------------------
(* A pass *)

Fail(reason) ==
  /\ failed' = reason
  /\ pc' = "idle" /\ at' = 1 /\ own' = EmptyConfig /\ fe' = EmptyConfig

Begin ==
  /\ pc = "idle"
  /\ pc' = "check" /\ at' = 1 /\ src' = spec /\ failed' = "none"
  /\ UNCHANGED <<user, sts, svcs, pods, own, fe, faults>>

\* mutant: the end of the list is missed
DoneMutant ==
  /\ IF at <= Len(Order) THEN pc' = "check" /\ at' = at + 1 ELSE pc' = "idle" /\ at' = 1
  /\ own' = EmptyConfig /\ fe' = EmptyConfig

\* The next component, or the end of the pass.
Done ==
  /\ IF at < Len(Order) THEN pc' = "check" /\ at' = at + 1 ELSE pc' = "idle" /\ at' = 1
  /\ own' = EmptyConfig /\ fe' = EmptyConfig

\* A component that the cluster does not have is left alone here.
\* BE is validated before FE is looked at, CN after.
CheckFails == src[c_] # 0 /\ ~s_.valid /\ (c_ = "cn" => Healthy("fe"))

Check ==
  /\ pc = "check"
  /\ IF CheckFails THEN Fail("invalid")
     ELSE IF src[c_] = 0 \/ (c_ # "fe" /\ ~Healthy("fe")) THEN Done /\ UNCHANGED failed
     ELSE pc' = (IF c_ = "be" THEN "fe" ELSE "own") /\ UNCHANGED <<at, own, fe, failed>>
  /\ UNCHANGED <<user, sts, svcs, pods, src, faults>>

\* GetConfig, ResolveConfigMap: a ConfigMap that is missing is an empty one.
GetConfig(d)      == IF d.map = <<>> THEN EmptyConfig ELSE maps[d.map].config
GetConfigFails(d) == d.map # <<>> /\ maps[d.map] = Malformed

ReadOwn ==
  /\ pc = "own"
  /\ IF GetConfigFails(s_) THEN Fail("config")
     ELSE /\ own' = GetConfig(s_)
          /\ pc' = (IF c_ = "cn" THEN "fe" ELSE "sts")
          /\ UNCHANGED <<at, fe, failed>>
  /\ UNCHANGED <<user, sts, svcs, pods, src, faults>>

\* CN reads the custom resource again, BE takes the pass's copy.
FeSpec == Derived["fe"][IF c_ = "cn" THEN spec["fe"] ELSE src["fe"]]
AfterFe == IF c_ = "cn" THEN "sts" ELSE "own"

\* BE goes on with an empty configuration, CN does not.
FeUnreadable ==
  IF c_ = "be" THEN fe' = EmptyConfig /\ pc' = AfterFe /\ UNCHANGED <<at, own, failed>>
  ELSE Fail("config")

ReadFe ==
  /\ pc = "fe"
  /\ IF GetConfigFails(FeSpec) THEN FeUnreadable
     ELSE fe' = GetConfig(FeSpec) /\ pc' = AfterFe /\ UNCHANGED <<at, own, failed>>
  /\ UNCHANGED <<user, sts, svcs, pods, src, faults>>

ReadFeFails ==
  /\ pc = "fe"
  /\ Fault
  /\ FeUnreadable
  /\ UNCHANGED <<user, sts, svcs, pods, src>>

\* Envs: FE_QUERY_PORT of BE and CN.  FE's stands for the one among its ports.
FeQueryPort(c) == GetPort(IF c = "fe" THEN own ELSE fe, "query_port")

\* mutant: the component's own configuration is asked for the port of FE
TemplateMutant(c, d) ==
  [vols |-> d.vols, mounts |-> d.mounts, ports |-> Ports(c, own), probe |-> ProbePort(c, own),
   query |-> GetPort(own, "query_port"), graceful |-> d.graceful, image |-> d.image]

\* buildPodTemplate, Envs
Template(c, d) ==
  [vols |-> d.vols, mounts |-> d.mounts, ports |-> Ports(c, own), probe |-> ProbePort(c, own),
   query |-> FeQueryPort(c), graceful |-> d.graceful, image |-> d.image]

MakeStatefulset(c, d) == [exists |-> TRUE, template |-> Template(c, d), claims |-> d.claims]

\* mutant: the error of CheckVolumes is not returned
SyncStatefulSetMutant ==
  /\ pc = "sts"
  /\ LET new == MakeStatefulset(c_, s_)
         why == Refusal(sts[c_], new)
         next == /\ pc' = (IF c_ = "cn" THEN "external" ELSE "search")
                 /\ UNCHANGED <<at, own, fe, failed>>
     IN IF ~s_.checked THEN next /\ UNCHANGED sts
        ELSE IF why # "none" THEN Fail(why) /\ UNCHANGED sts
        ELSE sts' = [sts EXCEPT ![c_] = new] /\ next
  /\ UNCHANGED <<user, svcs, pods, src, faults>>

\* buildPodTemplate, ApplyStatefulSet
SyncStatefulSet ==
  /\ pc = "sts"
  /\ LET new == MakeStatefulset(c_, s_)
         why == Refusal(sts[c_], new)
     IN IF ~s_.checked THEN Fail("volumes") /\ UNCHANGED sts
        ELSE IF why # "none" THEN Fail(why) /\ UNCHANGED sts
        ELSE /\ sts' = [sts EXCEPT ![c_] = new]
             /\ pc' = (IF c_ = "cn" THEN "external" ELSE "search")
             /\ UNCHANGED <<at, own, fe, failed>>
  /\ UNCHANGED <<user, svcs, pods, src, faults>>

NewService(kind) == s_[kind][own]

\* mutant: the ports are not compared
ApplyServiceMutant(kind) ==
  IF svcs[c_][kind] = NoService \/ svcs[c_][kind].type # NewService(kind).type
  THEN svcs' = [svcs EXCEPT ![c_][kind] = NewService(kind)]
  ELSE UNCHANGED svcs

ApplyService(kind) ==
  IF ServiceHash(svcs[c_][kind]) # ServiceHash(NewService(kind))
  THEN svcs' = [svcs EXCEPT ![c_][kind] = NewService(kind)]
  ELSE UNCHANGED svcs

LastService == IF c_ = "cn" THEN "search" ELSE "external"

SyncService(kind) ==
  /\ pc = kind
  /\ IF ServiceRefused(NewService(kind)) THEN Fail("service") /\ UNCHANGED svcs
     ELSE /\ ApplyService(kind)
          /\ IF kind = LastService THEN Done /\ UNCHANGED failed
             ELSE pc' = LastService /\ UNCHANGED <<at, own, fe, failed>>
  /\ UNCHANGED <<user, sts, pods, src, faults>>

\* A call fails or the process ends; what the call wrote may be there.
CallFails ==
  /\ pc \notin {"idle", "check", "fe"}
  /\ Fault
  /\ \/ UNCHANGED <<sts, svcs>>
     \/ /\ pc = "sts" /\ s_.checked
        /\ Refusal(sts[c_], MakeStatefulset(c_, s_)) = "none"
        /\ sts' = [sts EXCEPT ![c_] = MakeStatefulset(c_, s_)] /\ UNCHANGED svcs
     \/ /\ pc \in {"external", "search"} /\ ~ServiceRefused(NewService(pc))
        /\ ApplyService(pc) /\ UNCHANGED sts
  /\ Fail("call")
  /\ UNCHANGED <<user, pods, src>>

-----------------------------------------------------------------------------

Pass ==
  \/ Begin \/ Check \/ ReadOwn \/ ReadFe
  \/ SyncStatefulSet \/ SyncService("search") \/ SyncService("external")

Next ==
  \/ \E c \in Comps : EditSpec(c) \/ PodStarts(c) \/ PodReplaced(c) \/ ProbeFails(c) \/ PodEnds(c)
  \/ \E m \in DOMAIN Contents : EditConfigMap(m)
  \/ Pass
  \/ ReadFeFails \/ CallFails

Spec == Init /\ [][Next]_vars

\* The two-minute resync starts passes for ever and a pass runs to its end;
\* Kubernetes starts pods, replaces those of an old template and restarts
\* containers that do not answer their liveness probe.
Fairness ==
  /\ WF_vars(Pass)
  /\ \A c \in Comps : WF_vars(PodStarts(c)) /\ WF_vars(PodReplaced(c)) /\ WF_vars(ProbeFails(c))

FairSpec == Spec /\ Fairness

-----------------------------------------------------------------------------
(* Properties *)

Volumes(c, n) == {Specs[c][n].volumes[i] : i \in DOMAIN Specs[c][n].volumes}
Entries(c, n) == {Specs[c][n].service.entries[i] : i \in DOMAIN Specs[c][n].service.entries}

\* The numbers in configurations and in entries of service.ports do not collide.
NumbersApart ==
  \A c \in Comps, k \in Configs :
    /\ PortsApart(c, k)
    /\ \A n \in DOMAIN Specs[c] : EntriesApart(c, Specs[c][n].service.entries, k)

\* Every spec says clearly which ConfigMap holds the configuration.
ReferencesClear == \A c \in Comps : \A n \in DOMAIN Specs[c] : ClearReferences(Specs[c][n])

\* Of the API server's rules on names of volumes, mount paths, sources of volumes,
\* numbers of ports and what the type of a service allows, the operator's own
\* checks leave out three: a hostPath by a class in another spelling and without a
\* path, an entry of service.ports that stands for two ports, and what Misplaced
\* says.  No other spec is refused by one of these rules, whichever configuration
\* the ports come from.
RefusedOnlyAsForeseen ==
  /\ failed # "names"
  /\ failed = "source" =>
       \E c \in Comps : src[c] # 0 /\ \E sv \in Volumes(c, src[c]) : Unvalidated(sv)
  /\ failed = "service" =>
       \E c \in Comps : src[c] # 0 /\
         \/ Misplaced(Specs[c][src[c]].service)
         \/ \E e \in Entries(c, src[c]) : StandsForTwo(e)

\* starrockscluster_types.go: if StorageClassName is hostPath, HostPath is
\* required.  The pod builder knows the class in any spelling: the hostPath
\* volumes of every StatefulSet have their source.
HostPathsGiven ==
  \A c \in Comps : sts[c].exists =>
    \A i \in DOMAIN sts[c].template.vols :
      LET v == sts[c].template.vols[i] IN v.kind = "hostPath" => v.ref # <<>>

\* What neither the operator nor the API server refuses, whatever exists.
Acceptable ==
  [c \in Comps |-> [n \in DOMAIN Specs[c] |-> [k \in Configs |->
     LET d == Derived[c][n]
     IN /\ d.valid /\ d.checked
        /\ \A i \in DOMAIN d.vols : ~HollowVolume(d.vols[i])
        /\ ~ServiceRefused(d.external[k])]]]

\* What the i-th component should come from.
Wanted(i) == Derived[Order[i]][spec[Order[i]]]

\* What stops a pass at the i-th component until the user changes something.
Blocked(i) ==
  /\ spec[Order[i]] # 0
  /\ \/ GetConfigFails(Wanted(i))
     \/ ~Acceptable[Order[i]][spec[Order[i]]][GetConfig(Wanted(i))]
     \/ sts[Order[i]].exists /\ sts[Order[i]].claims # Wanted(i).claims

\* The i-th component is not reached: one of the first i is blocked, or FE is
\* not healthy.
Unreached(i) ==
  spec[Order[i]] = 0 \/ (\E j \in 1 .. i : Blocked(j)) \/ (i > 1 /\ ~Healthy("fe"))

\* StatefulSet and services of the i-th component are what custom resource and
\* ConfigMaps ask for.
StatefulSetSettled(i) ==
  LET t == sts[Order[i]].template
  IN /\ t.vols = Wanted(i).vols
     /\ t.mounts = Wanted(i).mounts
     /\ t.ports = Ports(Order[i], GetConfig(Wanted(i)))
     /\ t.image = Wanted(i).image

ServiceSettled(i, kind) ==
  ServiceHash(svcs[Order[i]][kind]) = ServiceHash(Wanted(i)[kind][GetConfig(Wanted(i))])

Settled(i) ==
  /\ spec[Order[i]] # 0
  /\ StatefulSetSettled(i)
  /\ ServiceSettled(i, "external") /\ ServiceSettled(i, "search")

\* Whatever is edited between the calls of a pass, and whichever calls fail,
\* every component settles unless it cannot be reached.
Settles == \A i \in DOMAIN Order : []<>Unreached(i) \/ <>[]Settled(i)

\* What the user has to change is said again and again, behind a healthy FE.
BlockIsReported ==
  \A i \in DOMAIN Order :
    <>[](Blocked(i) /\ (i > 1 => Healthy("fe"))) => []<>(failed # "none")

\* FE's configuration is read once for FE and once for BE and CN.  They come
\* to agree: FE_QUERY_PORT of BE and CN is the query port of FE, although BE
\* takes a configuration it failed to read for an empty one.
QueryPortSettles ==
  \A i \in DOMAIN Order :
    \/ []<>Unreached(i)
    \/ <>[](sts[Order[i]].template.query = GetPort(GetConfig(Wanted(1)), "query_port"))

\* Does the process of component c answer where its service forwards port p to?
Answered(c, p) ==
  /\ svcs[c].external # NoService /\ pods[c] # NoPod
  /\ svcs[c].external.ports[p].target = pods[c].listens[p]

\* A configuration with both names of the web port: StarRocks goes by the new
\* one, GetPort by the old one.
BothNames(config) == Value(config, "webserver_port") # 0 /\ Value(config, "be_http_port") # 0

NotRunning(i) == Unreached(i) \/ pods[Order[i]] = NoPod \/ BothNames(GetConfig(Wanted(i)))

\* The web port of every running pod comes to be the one its service forwards
\* to, whatever pods read while ConfigMaps were edited to and fro: it is the
\* port of the liveness probe.  So do all ports of the container if no ConfigMap
\* is given back a port that it had before: a new number is a new template, and
\* pods of the old one are replaced.
PortsAnswer ==
  \A i \in DOMAIN Order :
    \/ []<>NotRunning(i)
    \/ /\ <>[]Answered(Order[i], Web(Order[i]))
       /\ []<>setBack \/ <>[](\A p \in DOMAIN ContainerKeys[Order[i]] : Answered(Order[i], p))
===============================================================================
