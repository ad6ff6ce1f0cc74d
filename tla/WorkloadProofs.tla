--------------------------- MODULE WorkloadProofs ---------------------------
(***************************************************************************)
(* Theorems about Workload: for any custom resources and ConfigMaps, any   *)
(* number of edits and of faults.                                          *)
(***************************************************************************)
EXTENDS Workload, TemplateProofs

Component == {"fe", "be", "cn"}

LEMMA OrderType ==
  /\ Len(Order) = 3 /\ DOMAIN Order = 1 .. 3
  /\ Order[1] = "fe" /\ Order[2] = "be" /\ Order[3] = "cn"
  /\ \A i \in DOMAIN Order : Order[i] \in Comps
  /\ \A c \in Comps : \E i \in DOMAIN Order : Order[i] = c
<1>1. /\ Len(Order) = 3 /\ DOMAIN Order = 1 .. 3
      /\ Order[1] = "fe" /\ Order[2] = "be" /\ Order[3] = "cn"
  BY DEF Order
<1> QED BY <1>1 DEF Comps

LEMMA SpecType ==
  ASSUME NEW c \in Comps, NEW n \in DOMAIN Specs[c]
  PROVE  /\ Specs[c][n] \in StarRocksLoadSpec
         /\ HasVolumes(Specs[c][n])
         /\ n \in Nat \ {0}
<1>1. Specs[c] \in Seq(StarRocksLoadSpec)
  BY ConstantsAssumption
<1>2. Specs[c][n] \in StarRocksLoadSpec /\ n \in Nat \ {0}
  BY <1>1
<1> QED BY <1>2 DEF StarRocksLoadSpec, HasVolumes

\* What is derived from a spec.
LEMMA DerivedFields ==
  ASSUME NEW c \in Comps, NEW n \in DOMAIN Specs[c]
  PROVE  LET d == Derived[c][n]
             s == Specs[c][n]
         IN /\ d.valid = Validating(s)
            /\ d.map = ConfigMapOf(s)
            /\ d.claims = PVCList(s.volumes)
            /\ d.vols = PodVolumes(c, s).vols
            /\ d.mounts = PodVolumes(c, s).mounts
            /\ d.checked = CheckVolumes(PodVolumes(c, s))
            /\ d.graceful = GracefulStop(c, s.image)
            /\ d.image = s.image
            /\ \A k \in Configs : d.external[k] = BuildExternalService(c, s.service, k)
            /\ \A k \in Configs : d.search[k] = SearchService(c, k)
BY DEF Derived

\* A configuration that is read is one that a ConfigMap may have, or empty.
LEMMA ConfigsRead ==
  ASSUME NEW c \in Comps, NEW n \in DOMAIN Specs[c],
         DOMAIN maps = DOMAIN Contents, \A m \in DOMAIN Contents : maps[m] \in ContentsOf(m)
  PROVE  GetConfig(Derived[c][n]) \in Configs
<1>1. Derived[c][n].map \in {<<>>} \cup DOMAIN Contents
  BY DerivedFields, ConstantsAssumption
<1>2. \A m \in DOMAIN Contents : maps[m].config \in Configs
  BY DEF Configs
<1> QED BY <1>1, <1>2 DEF GetConfig, Configs

-----------------------------------------------------------------------------
(* Types *)

\* Past its check, a pass is at a component that the cluster has, of a valid spec.
Going == pc \notin {"idle", "check"} => src[c_] # 0 /\ s_.valid

TypeInv == TypeOK /\ Going

\* The component at which a pass is, and the spec it goes by.
LEMMA AtComponent ==
  ASSUME TypeInv
  PROVE  /\ c_ \in Comps
         /\ pc \notin {"idle", "check"} => src[c_] \in DOMAIN Specs[c_] /\ s_ = Derived[c_][src[c_]]
<1>1. c_ \in Comps
  BY OrderType DEF TypeInv, TypeOK, c_
<1> QED BY <1>1 DEF TypeInv, TypeOK, Going, SpecsOf, c_, s_

\* A template that is made is not the one of an absent StatefulSet.
LEMMA TemplateIsNot ==
  ASSUME NEW c \in Comps, NEW d
  PROVE  Template(c, d) # NoTemplate
<1>1. ProbePort(c, own) # 0
  <2>1. (IF c = "fe" THEN "http_port" ELSE "webserver_port") \in Numbered
    BY DEF Numbered
  <2> QED BY <2>1, PortIsNotZero DEF ProbePort
<1>2. Template(c, d).probe # 0 /\ NoTemplate.probe = 0
  BY <1>1 DEF Template, NoTemplate
<1> QED BY <1>2

\* What the steps of users and pods leave alone.
LEMMA TypeOutside ==
  ASSUME TypeInv, SpecsOf(spec)', UNCHANGED <<sts, pc, at, src, own, fe, failed>>,
         DOMAIN maps' = DOMAIN Contents, \A m \in DOMAIN Contents : maps'[m] \in ContentsOf(m),
         DOMAIN svcs' = Comps, DOMAIN pods' = Comps,
         edits' \in 0 .. MaxEdits, faults' \in 0 .. MaxFaults
  PROVE  TypeInv'
<1>1. Going'
  BY DEF TypeInv, Going, c_, s_
<1> QED BY <1>1 DEF TypeInv, TypeOK, SpecsOf

LEMMA Counted ==
  ASSUME TypeInv
  PROVE  /\ edits < MaxEdits /\ edits' = edits + 1 => edits' \in 0 .. MaxEdits
         /\ Fault => faults' \in 0 .. MaxFaults
BY ConstantsAssumption DEF TypeInv, TypeOK, Fault

LEMMA TypeUsersAndPods ==
  ASSUME TypeInv, NEW c \in Comps,
         \/ EditSpec(c) \/ PodStarts(c) \/ PodReplaced(c) \/ ProbeFails(c) \/ PodEnds(c)
         \/ \E m \in DOMAIN Contents : EditConfigMap(m)
  PROVE  TypeInv'
<1>1. CASE EditSpec(c)
  <2>1. edits' \in 0 .. MaxEdits
    BY <1>1, Counted DEF EditSpec
  <2>2. PICK n \in DOMAIN Specs[c] : spec' = [spec EXCEPT ![c] = n]
    BY <1>1 DEF EditSpec
  <2>3. n \in Nat \ {0}
    BY SpecType
  <2>4. SpecsOf(spec)'
    BY <2>2, <2>3 DEF TypeInv, TypeOK, SpecsOf
  <2> QED BY <1>1, <2>1, <2>4, TypeOutside DEF EditSpec, TypeInv, TypeOK
<1>2. CASE \E m \in DOMAIN Contents : EditConfigMap(m)
  <2>1. PICK m \in DOMAIN Contents : EditConfigMap(m)
    BY <1>2
  <2>2. edits' \in 0 .. MaxEdits
    BY <2>1, Counted DEF EditConfigMap
  <2>3. PICK k \in ContentsOf(m) : maps' = [maps EXCEPT ![m] = k]
    BY <2>1 DEF EditConfigMap
  <2>4. DOMAIN maps' = DOMAIN Contents /\ \A n \in DOMAIN Contents : maps'[n] \in ContentsOf(n)
    BY <2>3 DEF TypeInv, TypeOK
  <2>5. UNCHANGED <<spec, sts, svcs, pods, pc, at, src, own, fe, failed, faults>>
    BY <2>1 DEF EditConfigMap
  <2> QED BY <2>2, <2>4, <2>5, TypeOutside DEF TypeInv, TypeOK, SpecsOf
<1>3. CASE PodStarts(c) \/ PodReplaced(c) \/ ProbeFails(c)
  <2>1. DOMAIN pods' = Comps /\ UNCHANGED <<user, sts, svcs, pc, at, src, own, fe, failed, faults>>
    BY <1>3 DEF PodStarts, PodReplaced, ProbeFails, TypeInv, TypeOK
  <2> QED BY <2>1, TypeOutside DEF user, TypeInv, TypeOK, SpecsOf
<1>4. CASE PodEnds(c)
  <2>1. DOMAIN pods' = Comps /\ UNCHANGED <<user, sts, svcs, pc, at, src, own, fe, failed>>
    BY <1>4 DEF PodEnds, TypeInv, TypeOK
  <2>2. faults' \in 0 .. MaxFaults
    BY <1>4, Counted DEF PodEnds
  <2> QED BY <2>1, <2>2, TypeOutside DEF user, TypeInv, TypeOK, SpecsOf
<1> QED BY <1>1, <1>2, <1>3, <1>4

\* What the steps of a pass leave alone, and where they may lead.
LEMMA TypeInside ==
  ASSUME TypeInv, UNCHANGED <<user, pods, src>>, faults' \in 0 .. MaxFaults,
         DOMAIN sts' = Comps, DOMAIN svcs' = Comps,
         \A c \in Comps : sts'[c].exists <=> sts'[c].template # NoTemplate,
         own' \in Configs, fe' \in Configs, failed' \in Reasons, at' \in DOMAIN Order, pc' \in Steps,
         pc' \in {"idle", "check"} \/ (at' = at /\ src[c_] # 0 /\ s_.valid)
  PROVE  TypeInv'
<1>1. Going'
  BY DEF Going, c_, s_
<1> QED BY <1>1 DEF user, TypeInv, TypeOK, SpecsOf

LEMMA EmptyConfigType == EmptyConfig \in Configs
BY DEF Configs

LEMMA FailType ==
  ASSUME NEW reason \in Reasons, Fail(reason)
  PROVE  /\ own' \in Configs /\ fe' \in Configs /\ failed' \in Reasons
         /\ at' \in DOMAIN Order /\ pc' \in Steps /\ pc' \in {"idle", "check"}
BY EmptyConfigType, OrderType DEF Fail, Steps

LEMMA DoneType ==
  ASSUME TypeInv, Done
  PROVE  /\ own' \in Configs /\ fe' \in Configs
         /\ at' \in DOMAIN Order /\ pc' \in Steps /\ pc' \in {"idle", "check"}
BY EmptyConfigType, OrderType DEF Done, Steps, TypeInv, TypeOK

LEMMA TypeCheck ==
  ASSUME TypeInv, Check
  PROVE  TypeInv'
<1>1. /\ UNCHANGED <<user, sts, svcs, pods, src, faults>>
      /\ pc = "check"
  BY DEF Check
<1>2. CASE CheckFails
  <2>1. Fail("invalid")
    BY <1>2 DEF Check
  <2> QED BY <1>1, <2>1, FailType, TypeInside DEF Reasons, TypeInv, TypeOK
<1>3. CASE ~CheckFails /\ (src[c_] = 0 \/ (c_ # "fe" /\ ~Healthy("fe")))
  <2>1. Done /\ UNCHANGED failed
    BY <1>3 DEF Check
  <2> QED BY <1>1, <2>1, DoneType, TypeInside DEF TypeInv, TypeOK
<1>4. CASE ~CheckFails /\ ~(src[c_] = 0 \/ (c_ # "fe" /\ ~Healthy("fe")))
  <2>1. pc' \in {"fe", "own"} /\ UNCHANGED <<at, own, fe, failed>>
    BY <1>4 DEF Check
  <2>2. src[c_] # 0 /\ s_.valid
    BY <1>4 DEF CheckFails
  <2> QED BY <1>1, <2>1, <2>2, TypeInside DEF TypeInv, TypeOK, Steps
<1> QED BY <1>2, <1>3, <1>4

LEMMA FeSpecType ==
  ASSUME TypeInv
  PROVE  GetConfig(FeSpec) \in Configs
<1>1. spec["fe"] \in DOMAIN Specs["fe"] /\ src["fe"] \in DOMAIN Specs["fe"] /\ "fe" \in Comps
  BY DEF TypeInv, TypeOK, SpecsOf, Comps
<1>2. \E n \in DOMAIN Specs["fe"] : FeSpec = Derived["fe"][n]
  BY <1>1 DEF FeSpec
<1> QED BY <1>1, <1>2, ConfigsRead DEF TypeInv, TypeOK

LEMMA TypeReads ==
  ASSUME TypeInv, ReadOwn \/ ReadFe \/ ReadFeFails
  PROVE  TypeInv'
<1>1. UNCHANGED <<user, sts, svcs, pods, src>> /\ pc \notin {"idle", "check"}
  BY DEF ReadOwn, ReadFe, ReadFeFails
<1>2. src[c_] # 0 /\ s_.valid
  BY <1>1 DEF TypeInv, Going
<1>3. faults' \in 0 .. MaxFaults
  BY Counted DEF ReadOwn, ReadFe, ReadFeFails, TypeInv, TypeOK
<1>4. \/ Fail("config")
      \/ /\ own' \in Configs /\ fe' \in Configs
         /\ pc' \in {"own", "fe", "sts"} /\ UNCHANGED <<at, failed>>
  <2>1. CASE ReadOwn
    <3>1. GetConfig(s_) \in Configs
      BY <1>1, AtComponent, ConfigsRead DEF TypeInv, TypeOK
    <3> QED BY <2>1, <3>1 DEF ReadOwn, TypeInv, TypeOK
  <2>2. CASE ReadFe
    <3>1. GetConfig(FeSpec) \in Configs
      BY FeSpecType
    <3> QED BY <2>2, <3>1, EmptyConfigType DEF ReadFe, FeUnreadable, AfterFe, TypeInv, TypeOK
  <2>3. CASE ReadFeFails
    BY <2>3, EmptyConfigType DEF ReadFeFails, FeUnreadable, AfterFe, TypeInv, TypeOK
  <2> QED BY <2>1, <2>2, <2>3
<1>5. CASE Fail("config")
  BY <1>1, <1>3, <1>5, FailType, TypeInside DEF Reasons, TypeInv, TypeOK
<1>6. CASE own' \in Configs /\ fe' \in Configs
           /\ pc' \in {"own", "fe", "sts"} /\ UNCHANGED <<at, failed>>
  BY <1>1, <1>2, <1>3, <1>6, TypeInside DEF TypeInv, TypeOK, Steps
<1> QED BY <1>4, <1>5, <1>6

\* What the steps that write may do with the StatefulSets.
LEMMA StatefulSetWritten ==
  ASSUME TypeInv, pc \notin {"idle", "check"},
         sts' = [sts EXCEPT ![c_] = MakeStatefulset(c_, s_)]
  PROVE  /\ DOMAIN sts' = Comps
         /\ \A c \in Comps : sts'[c].exists <=> sts'[c].template # NoTemplate
         /\ \A c \in Comps \ {c_} : sts'[c] = sts[c]
         /\ sts'[c_] = MakeStatefulset(c_, s_)
<1>1. c_ \in Comps
  BY AtComponent
<1>2. /\ DOMAIN sts' = Comps
      /\ sts'[c_] = MakeStatefulset(c_, s_)
      /\ \A c \in Comps \ {c_} : sts'[c] = sts[c]
  BY <1>1 DEF TypeInv, TypeOK
<1>3. MakeStatefulset(c_, s_).exists /\ MakeStatefulset(c_, s_).template # NoTemplate
  BY <1>1, TemplateIsNot DEF MakeStatefulset
<1> QED BY <1>1, <1>2, <1>3 DEF TypeInv, TypeOK

LEMMA ServiceWritten ==
  ASSUME TypeInv, NEW kind \in {"external", "search"}, ApplyService(kind)
  PROVE  DOMAIN svcs' = Comps
BY DEF ApplyService, TypeInv, TypeOK

LEMMA RefusalType ==
  ASSUME NEW old, NEW new
  PROVE  Refusal(old, new) \in {"none", "claims", "names", "source"}
BY DEF Refusal

LEMMA TypeWrites ==
  ASSUME TypeInv, SyncStatefulSet \/ SyncService("search") \/ SyncService("external") \/ CallFails
  PROVE  TypeInv'
<1>1. UNCHANGED <<user, pods, src>> /\ pc \notin {"idle", "check"}
  BY DEF SyncStatefulSet, SyncService, CallFails
<1>2. src[c_] # 0 /\ s_.valid
  BY <1>1 DEF TypeInv, Going
<1>3. CASE SyncStatefulSet
  <2>1. \/ (Fail("volumes") \/ \E why \in {"claims", "names", "source"} : Fail(why)) /\ UNCHANGED sts
        \/ /\ sts' = [sts EXCEPT ![c_] = MakeStatefulset(c_, s_)]
           /\ pc' \in {"external", "search"} /\ UNCHANGED <<at, own, fe, failed>>
    BY <1>3, RefusalType DEF SyncStatefulSet
  <2>2. UNCHANGED <<svcs, faults>>
    BY <1>3 DEF SyncStatefulSet
  <2>3. CASE (Fail("volumes") \/ \E why \in {"claims", "names", "source"} : Fail(why)) /\ UNCHANGED sts
    <3>1. PICK why \in Reasons : Fail(why)
      BY <2>3 DEF Reasons
    <3> QED BY <1>1, <2>2, <2>3, <3>1, FailType, TypeInside DEF TypeInv, TypeOK
  <2>4. CASE /\ sts' = [sts EXCEPT ![c_] = MakeStatefulset(c_, s_)]
             /\ pc' \in {"external", "search"} /\ UNCHANGED <<at, own, fe, failed>>
    BY <1>1, <1>2, <2>2, <2>4, StatefulSetWritten, TypeInside DEF TypeInv, TypeOK, Steps
  <2> QED BY <2>1, <2>3, <2>4
<1>4. ASSUME NEW kind \in {"external", "search"}, SyncService(kind) PROVE TypeInv'
  <2>1. UNCHANGED <<sts, faults>>
    BY <1>4 DEF SyncService
  <2>2. \/ Fail("service") /\ UNCHANGED svcs
        \/ ApplyService(kind) /\ Done /\ UNCHANGED failed
        \/ ApplyService(kind) /\ pc' \in {"external", "search"} /\ UNCHANGED <<at, own, fe, failed>>
    BY <1>4 DEF SyncService, LastService
  <2>3. DOMAIN svcs' = Comps
    BY <2>2, ServiceWritten DEF TypeInv, TypeOK
  <2>4. CASE Fail("service")
    BY <1>1, <2>1, <2>3, <2>4, FailType, TypeInside DEF Reasons, TypeInv, TypeOK
  <2>5. CASE Done /\ UNCHANGED failed
    BY <1>1, <2>1, <2>3, <2>5, DoneType, TypeInside DEF TypeInv, TypeOK
  <2>6. CASE pc' \in {"external", "search"} /\ UNCHANGED <<at, own, fe, failed>>
    BY <1>1, <1>2, <2>1, <2>3, <2>6, TypeInside DEF TypeInv, TypeOK, Steps
  <2> QED BY <2>2, <2>4, <2>5, <2>6
<1>5. CASE CallFails
  <2>1. faults' \in 0 .. MaxFaults /\ Fail("call")
    BY <1>5, Counted DEF CallFails
  <2>2. \/ UNCHANGED <<sts, svcs>>
        \/ sts' = [sts EXCEPT ![c_] = MakeStatefulset(c_, s_)] /\ UNCHANGED svcs
        \/ pc \in {"external", "search"} /\ ApplyService(pc) /\ UNCHANGED sts
    BY <1>5 DEF CallFails
  <2>3. DOMAIN svcs' = Comps
    BY <2>2, ServiceWritten DEF TypeInv, TypeOK
  <2>4. DOMAIN sts' = Comps /\ \A c \in Comps : sts'[c].exists <=> sts'[c].template # NoTemplate
    BY <1>1, <2>2, StatefulSetWritten DEF TypeInv, TypeOK
  <2> QED BY <1>1, <2>1, <2>3, <2>4, FailType, TypeInside DEF Reasons, TypeInv, TypeOK
<1> QED BY <1>3, <1>4, <1>5

LEMMA TypeInit == Init => TypeInv
<1> SUFFICES ASSUME Init PROVE TypeInv
  OBVIOUS
<1>1. PICK k \in Clusters : spec = [c \in Comps |-> IF c \in k THEN 1 ELSE 0]
  BY DEF Init
<1>2. SpecsOf(spec)
  <2>1. \A c \in Comps : 1 \in DOMAIN Specs[c]
    <3> TAKE c \in Comps
    <3>1. Specs[c] \in Seq(StarRocksLoadSpec) /\ Specs[c] # <<>>
      BY ConstantsAssumption
    <3> QED BY <3>1, EmptySeq
  <2>2. "fe" \in k /\ "fe" \in Comps
    BY ConstantsAssumption DEF Comps
  <2> QED BY <1>1, <2>1, <2>2 DEF SpecsOf
<1>3. \A m \in DOMAIN Contents : Contents[m][1] \in ContentsOf(m)
  BY ConstantsAssumption DEF ContentsOf
<1>4. NoSts.exists = FALSE /\ NoSts.template = NoTemplate
  BY DEF NoSts
<1>5. TypeOK
  BY <1>2, <1>3, <1>4, EmptyConfigType, OrderType, ConstantsAssumption
     DEF Init, TypeOK, SpecsOf, Steps, Reasons
<1> QED BY <1>5 DEF TypeInv, Going, Init

LEMMA TypeStep == TypeInv /\ [Next]_vars => TypeInv'
<1> SUFFICES ASSUME TypeInv, [Next]_vars PROVE TypeInv'
  OBVIOUS
<1>1. CASE Begin
  <2>1. Going'
    BY <1>1 DEF Begin, Going
  <2> QED BY <1>1, <2>1, OrderType DEF Begin, user, TypeInv, TypeOK, SpecsOf, Steps, Reasons
<1>2. CASE UNCHANGED vars
  BY <1>2 DEF vars, TypeInv, TypeOK, Going, SpecsOf, c_, s_
<1>3. "fe" \in Comps
  BY DEF Comps
<1> QED BY <1>1, <1>2, <1>3, TypeUsersAndPods, TypeCheck, TypeReads, TypeWrites DEF Next, Pass

\* Every variable keeps its type; a pass writes for components that the cluster
\* has, of specs that were found valid.
THEOREM TypeCorrect == Spec => [](TypeOK /\ Going)
<1>1. TypeInv => TypeOK /\ Going
  BY DEF TypeInv
<1> QED BY <1>1, TypeInit, TypeStep, PTL DEF Spec

-----------------------------------------------------------------------------
(* What the API server refuses *)

\* Apart from names and claims, StatefulSets are refused only for the source of
\* a volume.
LEMMA RefusalReasons ==
  ASSUME TypeInv, pc = "sts", s_.checked,
         NEW why, why = Refusal(sts[c_], MakeStatefulset(c_, s_)), why # "none"
  PROVE  \/ why = "claims" /\ sts[c_].exists /\ sts[c_].claims # s_.claims
         \/ /\ why = "source"
            /\ \E sv \in Volumes(c_, src[c_]) : Unvalidated(sv)
<1> DEFINE n == src[c_]
           s == Specs[c_][n]
           p == PodVolumes(c_, s)
           new == MakeStatefulset(c_, s_)
<1>1. c_ \in Comps /\ n \in DOMAIN Specs[c_] /\ s_ = Derived[c_][n] /\ s_.valid
  BY AtComponent DEF TypeInv, Going
<1>2. /\ s_.valid = Validating(s) /\ s_.checked = CheckVolumes(p)
      /\ s_.vols = p.vols /\ s_.mounts = p.mounts
  BY <1>1, DerivedFields
<1>3. new.template.vols = p.vols /\ new.template.mounts = p.mounts /\ new.claims = s_.claims
  BY <1>2 DEF MakeStatefulset, Template
<1>4. /\ IsInjective([i \in DOMAIN p.mounts |-> p.mounts[i].path])
      /\ IsInjective([i \in DOMAIN p.vols |-> p.vols[i].name])
  BY <1>2 DEF CheckVolumes
<1> HIDE DEF n, s, p, new
<1>5. \/ why = "claims" /\ sts[c_].exists /\ sts[c_].claims # new.claims
      \/ why = "source" /\ \E i \in DOMAIN p.vols : HollowVolume(p.vols[i])
  BY <1>3, <1>4 DEF Refusal, new
<1>6. ASSUME NEW i \in DOMAIN p.vols, HollowVolume(p.vols[i])
      PROVE  \E sv \in Volumes(c_, n) : Unvalidated(sv)
  <2>1. HasVolumes(s)
    BY <1>1, SpecType DEF s
  <2>2. \A j \in DOMAIN s.volumes : Validate(s.volumes[j])
    BY <1>1, <1>2 DEF Validating
  <2>3. \E j \in DOMAIN s.volumes : Unvalidated(s.volumes[j])
    BY <1>6, <2>1, <2>2, SourcesGiven DEF p
  <2> QED BY <2>3 DEF Volumes, s
<1> QED BY <1>3, <1>5, <1>6 DEF n

\* Services are refused only for an entry that can stand for two ports, or for what
\* their type does not allow.
LEMMA ServiceRefusalReason ==
  ASSUME NumbersApart, TypeInv, NEW kind \in {"external", "search"}, pc = kind,
         ServiceRefused(NewService(kind))
  PROVE  \/ Misplaced(Specs[c_][src[c_]].service)
         \/ \E e \in Entries(c_, src[c_]) : StandsForTwo(e)
<1> DEFINE n == src[c_]
           s == Specs[c_][n]
<1>1. c_ \in Comps /\ n \in DOMAIN Specs[c_] /\ s_ = Derived[c_][n]
  BY AtComponent
<1>2. own \in Configs /\ c_ \in {"fe", "be", "cn"}
  BY <1>1 DEF TypeInv, TypeOK, Comps
<1>3. PortsApart(c_, own) /\ EntriesApart(c_, s.service.entries, own)
  BY <1>1, <1>2 DEF NumbersApart
<1>4. kind = "external"
  <2>1. SUFFICES ASSUME kind = "search" PROVE FALSE
    OBVIOUS
  <2>2. NewService(kind) = SearchService(c_, own)
    BY <1>1, <1>2, <2>1, DerivedFields DEF NewService
  <2> QED BY <1>2, <1>3, <2>2, SearchServiceAccepted
<1>5. NewService(kind) = BuildExternalService(c_, s.service, own)
  BY <1>1, <1>2, <1>4, DerivedFields DEF NewService
<1>6. s.service \in Service
  BY <1>1, SpecType DEF StarRocksLoadSpec
<1>7. \/ Misplaced(s.service)
      \/ \E i \in DOMAIN s.service.entries : StandsForTwo(s.service.entries[i])
  <2> HIDE DEF s
  <2> QED BY <1>2, <1>3, <1>5, <1>6, ServiceAccepted
<1> QED BY <1>7 DEF Entries

LEMMA RefusedStep ==
  ASSUME NumbersApart, TypeInv, RefusedOnlyAsForeseen, [Next]_vars
  PROVE  RefusedOnlyAsForeseen'
<1>1. CASE UNCHANGED src /\ (UNCHANGED failed \/ failed' \in Reasons \ {"names", "source", "service"})
  BY <1>1 DEF RefusedOnlyAsForeseen
<1>2. CASE Begin
  BY <1>2 DEF Begin, RefusedOnlyAsForeseen
<1>3. ASSUME NEW c \in Comps, \/ EditSpec(c) \/ PodStarts(c) \/ PodReplaced(c)
                              \/ ProbeFails(c) \/ PodEnds(c)
      PROVE  UNCHANGED <<src, failed>>
  BY <1>3 DEF EditSpec, PodStarts, PodReplaced, ProbeFails, PodEnds
<1>4. ASSUME NEW m \in DOMAIN Contents, EditConfigMap(m)
      PROVE  UNCHANGED <<src, failed>>
  BY <1>4 DEF EditConfigMap
<1>5. CASE Check \/ ReadOwn \/ ReadFe \/ ReadFeFails \/ CallFails
  <2>1. UNCHANGED src /\ (UNCHANGED failed \/ failed' \in {"invalid", "config", "call"})
    BY <1>5 DEF Check, ReadOwn, ReadFe, ReadFeFails, CallFails, FeUnreadable, Fail
  <2> QED BY <1>1, <2>1 DEF Reasons
<1>6. CASE SyncStatefulSet
  <2> DEFINE why == Refusal(sts[c_], MakeStatefulset(c_, s_))
  <2>1. UNCHANGED src /\ pc = "sts"
    BY <1>6 DEF SyncStatefulSet
  <2>2. \/ failed' = "volumes"
        \/ s_.checked /\ why # "none" /\ failed' = why
        \/ UNCHANGED failed
    BY <1>6 DEF SyncStatefulSet, Fail
  <2>3. c_ \in Comps /\ src[c_] # 0
    BY <2>1, AtComponent DEF TypeInv, Going
  <2>4. CASE s_.checked /\ why # "none" /\ failed' = why
    <3> HIDE DEF why
    <3>1. \/ failed' = "claims"
          \/ /\ failed' = "source"
             /\ \E sv \in Volumes(c_, src[c_]) : Unvalidated(sv)
      BY <2>1, <2>4, RefusalReasons DEF why
    <3> QED BY <2>1, <2>3, <3>1 DEF RefusedOnlyAsForeseen
  <2> QED BY <1>1, <2>1, <2>2, <2>4 DEF Reasons
<1>7. ASSUME NEW kind \in {"external", "search"}, SyncService(kind)
      PROVE  RefusedOnlyAsForeseen'
  <2>1. UNCHANGED src /\ pc = kind
    BY <1>7 DEF SyncService
  <2>2. \/ failed' = "service" /\ ServiceRefused(NewService(kind))
        \/ UNCHANGED failed
    BY <1>7 DEF SyncService, Fail
  <2>3. c_ \in Comps /\ src[c_] # 0
    BY <2>1, AtComponent DEF TypeInv, Going
  <2>4. CASE failed' = "service" /\ ServiceRefused(NewService(kind))
    <3>1. \/ Misplaced(Specs[c_][src[c_]].service)
          \/ \E e \in Entries(c_, src[c_]) : StandsForTwo(e)
      BY <2>1, <2>4, ServiceRefusalReason
    <3> QED BY <2>1, <2>3, <2>4, <3>1 DEF RefusedOnlyAsForeseen
  <2> QED BY <1>1, <2>1, <2>2, <2>4
<1>8. CASE UNCHANGED vars
  BY <1>1, <1>8 DEF vars
<1> QED BY <1>1, <1>2, <1>3, <1>4, <1>5, <1>6, <1>7, <1>8 DEF Next, Pass

\* If the numbers that users give do not collide, the API server's rules on names,
\* paths and sources of volumes, on numbers of ports and on what the type of a
\* service allows refuse an object of the operator only where RefusedOnlyAsForeseen
\* says so.
THEOREM RefusedCorrect ==
  ASSUME NumbersApart
  PROVE  Spec => []RefusedOnlyAsForeseen
<1>1. Init => RefusedOnlyAsForeseen
  BY DEF Init, RefusedOnlyAsForeseen
<1>2. TypeInv /\ RefusedOnlyAsForeseen /\ [Next]_vars => RefusedOnlyAsForeseen'
  BY RefusedStep
<1> QED BY <1>1, <1>2, TypeInit, TypeStep, PTL DEF Spec

-----------------------------------------------------------------------------
(* The configuration that StarRocks reads *)

LEMMA ReferencesAre ==
  ASSUME NEW s
  PROVE  /\ \A i \in ConfigFiles(s) : i \in DOMAIN s.maps /\ s.maps[i].path = Path("conf", ConfigFile)
         /\ \A i \in ConfigDirs(s) : i \in DOMAIN s.maps /\ s.maps[i].path = Dir("conf")
<1>1. \A i \in ConfigFiles(s) : i \in DOMAIN s.maps /\ s.maps[i].path = Path("conf", ConfigFile)
  BY DEF ConfigFiles
<1>2. \A i \in ConfigDirs(s) : i \in DOMAIN s.maps /\ s.maps[i].path = Dir("conf")
  BY Zenon DEF ConfigDirs
<1> QED BY <1>1, <1>2

\* The ConfigMap mounted at a path.
LEMMA MountedAt ==
  ASSUME NEW p, Paired(p), IsInjective([i \in DOMAIN p.mounts |-> p.mounts[i].path]), NEW path
  PROVE  LET found == {i \in DOMAIN p.mounts : p.mounts[i].path = path /\ p.vols[i].kind = "configMap"}
         IN /\ found = {} <=> \A m : <<m, path>> \notin ConfigRefs(p)
            /\ \A m : <<m, path>> \in ConfigRefs(p) => p.vols[Min(found)].ref = m
<1> DEFINE found == {i \in DOMAIN p.mounts : p.mounts[i].path = path /\ p.vols[i].kind = "configMap"}
<1>1. DOMAIN p.mounts = DOMAIN p.vols /\ DOMAIN p.vols \subseteq Nat
  BY DEF Paired, IsSequence
<1>2. \A i, j \in DOMAIN p.mounts : p.mounts[i].path = p.mounts[j].path => i = j
  BY DEF IsInjective
<1>3. ConfigRefs(p) = {<<p.vols[i].ref, p.mounts[i].path>> : i \in {k \in DOMAIN p.mounts : p.vols[k].kind = "configMap"}}
  BY <1>1 DEF ConfigRefs
<1>4. found = {} <=> \A m : <<m, path>> \notin ConfigRefs(p)
  <2>1. ASSUME NEW i \in found PROVE \E m : <<m, path>> \in ConfigRefs(p)
    <3>1. <<p.vols[i].ref, p.mounts[i].path>> \in ConfigRefs(p)
      BY <1>3
    <3> QED BY <3>1
  <2>2. ASSUME NEW m, <<m, path>> \in ConfigRefs(p) PROVE found # {}
    <3>1. PICK i \in DOMAIN p.mounts : /\ p.vols[i].kind = "configMap"
                                       /\ <<m, path>> = <<p.vols[i].ref, p.mounts[i].path>>
      BY <1>3, <2>2
    <3> QED BY <3>1
  <2> HIDE DEF found
  <2> QED BY <2>1, <2>2
<1>5. ASSUME NEW m, <<m, path>> \in ConfigRefs(p) PROVE p.vols[Min(found)].ref = m
  <2>1. PICK i \in DOMAIN p.mounts : /\ p.vols[i].kind = "configMap"
                                     /\ <<m, path>> = <<p.vols[i].ref, p.mounts[i].path>>
    BY <1>3, <1>5
  <2>2. m = p.vols[i].ref /\ path = p.mounts[i].path
    BY <2>1
  <2>3. found = {i}
    BY <1>2, <2>1, <2>2
  <2>4. i \in Nat
    BY <1>1
  <2>5. Min(found) = i
    <3> HIDE DEF found
    <3>1. IsFiniteSet({i})
      BY FS_Singleton
    <3> QED BY <2>3, <2>4, <3>1, MinIsElement
  <2> QED BY <2>2, <2>5
<1> QED BY <1>4, <1>5

\* If the custom resource says so clearly and the operator's check of volumes
\* passes, the operator reads port numbers from the ConfigMap whose file
\* StarRocks reads: GetConfig and the entrypoint script agree.
THEOREM ReadsTheSameFile ==
  ASSUME NEW c, NEW s, HasVolumes(s), ClearReferences(s), CheckVolumes(PodVolumes(c, s)),
         NEW t, t.vols = PodVolumes(c, s).vols, t.mounts = PodVolumes(c, s).mounts
  PROVE  MapSeen(t) = ConfigMapOf(s)
<1> DEFINE p == PodVolumes(c, s)
           At(path) == {i \in DOMAIN p.mounts : p.mounts[i].path = path /\ p.vols[i].kind = "configMap"}
           etc  == At(Dir("etc"))
           file == At(Path("conf", ConfigFile))
           dir  == At(Dir("conf"))
           Ref(path) == p.vols[Min(At(path))].ref
<1>1. MapSeen(t) =
        IF etc # {} THEN Ref(Dir("etc"))
        ELSE IF file # {} THEN Ref(Path("conf", ConfigFile))
        ELSE IF dir # {} THEN Ref(Dir("conf")) ELSE <<>>
  BY DEF MapSeen
<1>2. Paired(p) /\ ConfigRefs(p) = InfoRefs(s.info) \cup ObjectRefs(s.maps)
  BY ConfigMapsMounted
<1>3. IsInjective([i \in DOMAIN p.mounts |-> p.mounts[i].path])
  BY DEF CheckVolumes
<1> HIDE DEF p
<1>4. ASSUME NEW path
      PROVE  /\ At(path) = {} <=> \A m : <<m, path>> \notin ConfigRefs(p)
             /\ \A m : <<m, path>> \in ConfigRefs(p) => Ref(path) = m
  BY <1>2, <1>3, MountedAt
<1>5. Path("conf", ConfigFile) # Dir("etc") /\ Dir("conf") # Dir("etc")
  BY DEF Path, Dir, ConfigFile
<1> HIDE DEF At, Ref
<1>6. CASE Complete(s.info)
  <2>1. <<s.info.name, Dir("etc")>> \in ConfigRefs(p)
    BY <1>2, <1>6 DEF InfoRefs
  <2>2. etc # {} /\ Ref(Dir("etc")) = s.info.name
    BY <1>4, <2>1
  <2>3. ConfigMapOf(s) = s.info.name
    BY <1>6, Zenon DEF ConfigMapOf, Complete, Given
  <2> QED BY <1>1, <2>2, <2>3
<1>7. CASE ~Complete(s.info)
  <2>1. ~Given(s.info)
    BY <1>7 DEF ClearReferences
  <2>2. ConfigRefs(p) = {<<s.maps[i].name, s.maps[i].path>> : i \in DOMAIN s.maps}
    BY <1>2, <1>7 DEF InfoRefs, ObjectRefs
  <2>3. etc = {}
    BY <1>4, <1>7, <2>2 DEF ClearReferences
  <2>4. /\ file = {} <=> ConfigFiles(s) = {}
        /\ dir = {} <=> ConfigDirs(s) = {}
    <3>1. \A m, path : <<m, path>> \in ConfigRefs(p) <=>
            \E i \in DOMAIN s.maps : s.maps[i].name = m /\ s.maps[i].path = path
      BY <2>2
    <3>2. ASSUME NEW path
          PROVE  At(path) = {} <=> \A i \in DOMAIN s.maps : s.maps[i].path # path
      <4>1. At(path) = {} <=> \A m : <<m, path>> \notin ConfigRefs(p)
        BY <1>4
      <4>2. ASSUME NEW i \in DOMAIN s.maps, s.maps[i].path = path
            PROVE  <<s.maps[i].name, path>> \in ConfigRefs(p)
        BY <3>1, <4>2
      <4> QED BY <3>1, <4>1, <4>2
    <3>3. /\ \A i \in DOMAIN s.maps : s.maps[i].path = Path("conf", ConfigFile) <=> i \in ConfigFiles(s)
          /\ \A i \in DOMAIN s.maps : s.maps[i].path = Dir("conf") <=> i \in ConfigDirs(s)
      BY ReferencesAre DEF ClearReferences
    <3> QED BY <3>2, <3>3, ReferencesAre
  <2>5. \A i \in ConfigFiles(s) : Ref(Path("conf", ConfigFile)) = s.maps[i].name
    <3> TAKE i \in ConfigFiles(s)
    <3>1. <<s.maps[i].name, Path("conf", ConfigFile)>> \in ConfigRefs(p)
      BY <2>2, ReferencesAre
    <3> QED BY <1>4, <3>1
  <2>6. \A i \in ConfigDirs(s) : Ref(Dir("conf")) = s.maps[i].name
    <3> TAKE i \in ConfigDirs(s)
    <3>1. <<s.maps[i].name, Dir("conf")>> \in ConfigRefs(p)
      BY <2>2, ReferencesAre
    <3> QED BY <1>4, <3>1
  <2>7. /\ ConfigFiles(s) # {} => Min(ConfigFiles(s)) \in ConfigFiles(s)
        /\ ConfigDirs(s) # {} => Max(ConfigDirs(s)) \in ConfigDirs(s)
    <3>1. IsFiniteSet(1 .. Len(s.maps)) /\ DOMAIN s.maps = 1 .. Len(s.maps) /\ Len(s.maps) \in Nat
      BY FS_Interval DEF HasVolumes
    <3>2. ConfigFiles(s) \subseteq DOMAIN s.maps /\ ConfigDirs(s) \subseteq DOMAIN s.maps
      BY ReferencesAre
    <3>3. /\ ConfigFiles(s) \in SUBSET Nat /\ IsFiniteSet(ConfigFiles(s))
          /\ ConfigDirs(s) \in SUBSET Nat /\ IsFiniteSet(ConfigDirs(s))
      BY <3>1, <3>2, FS_Subset
    <3> QED BY <3>3, MinIsElement, MaxIsElement
  <2>8. ConfigMapOf(s) = IF ConfigFiles(s) # {} THEN s.maps[Min(ConfigFiles(s))].name
                         ELSE IF ConfigDirs(s) # {} THEN s.maps[Max(ConfigDirs(s))].name ELSE <<>>
    BY <1>7, <2>1 DEF ConfigMapOf
  <2>9. MapSeen(t) = IF file # {} THEN Ref(Path("conf", ConfigFile))
                     ELSE IF dir # {} THEN Ref(Dir("conf")) ELSE <<>>
    BY <1>1, <2>3
  <2> QED BY <2>4, <2>5, <2>6, <2>7, <2>8, <2>9
<1> QED BY <1>6, <1>7

-----------------------------------------------------------------------------
(* One spec and one configuration *)

\* The configurations that the ConfigMap of the n-th spec of c has had.
Readings(c, n) ==
  LET m == Derived[c][n].map
  IN IF m = <<>> THEN {EmptyConfig} ELSE {k.config : k \in past[m] \ {Malformed}}

FeReadings == UNION {Readings("fe", n) : n \in DOMAIN Specs["fe"]}

\* Those whose query port a component made of configuration k may be given.
Asked(c, k) == IF c = "fe" THEN {k} ELSE FeReadings \cup (IF c = "be" THEN {EmptyConfig} ELSE {})

\* The template of one spec and one configuration, with a query port of FE.
TemplateOf(c, n, k, q) ==
  LET d == Derived[c][n]
  IN [vols |-> d.vols, mounts |-> d.mounts, ports |-> Ports(c, k), probe |-> ProbePort(c, k),
      query |-> GetPort(q, "query_port"), graceful |-> d.graceful, image |-> d.image]

\* Neither the operator nor the API server objects to the n-th spec of c.
Unobjected(c, n) ==
  LET d == Derived[c][n]
  IN d.valid /\ d.checked /\ \A i \in DOMAIN d.vols : ~HollowVolume(d.vols[i])

MadeOf(c, n, t) ==
  /\ Unobjected(c, n)
  /\ \E k \in Readings(c, n) : \E q \in Asked(c, k) : t = TemplateOf(c, n, k, q)

\* A StatefulSet is never a mixture: volumes, ports and probe of its template and
\* its claims come from one spec and one content of the ConfigMap that this spec
\* names, and its query port from a content that FE's has had.
WholeStatefulSet(c) ==
  sts[c].exists => \E n \in DOMAIN Specs[c] :
                     MadeOf(c, n, sts[c].template) /\ sts[c].claims = Derived[c][n].claims

\* Nor is a service, and the API server accepts it.
WholeService(c, kind) ==
  svcs[c][kind] # NoService => \E n \in DOMAIN Specs[c] :
    /\ Derived[c][n].valid
    /\ \E k \in Readings(c, n) : svcs[c][kind] = Derived[c][n][kind][k]
    /\ ~ServiceRefused(svcs[c][kind])

Kinds == {"external", "search"}

Whole ==
  \A c \in Comps :
    /\ WholeStatefulSet(c)
    /\ DOMAIN svcs[c] = Kinds /\ \A kind \in Kinds : WholeService(c, kind)

\* History has every content.
Recorded ==
  /\ DOMAIN past = DOMAIN Contents
  /\ \A m \in DOMAIN Contents : maps[m] \in past[m] /\ past[m] \subseteq ContentsOf(m)

\* Where a pass has read the configurations it makes objects of.
OwnIsRead == pc \in {"sts"} \cup Kinds \/ (pc = "fe" /\ c_ = "cn")
FeIsRead  == (pc = "sts" /\ c_ # "fe") \/ (pc = "own" /\ c_ = "be")

HasRead ==
  /\ OwnIsRead => own \in Readings(c_, src[c_])
  /\ FeIsRead => fe \in Asked(c_, own)

WholeInv == Recorded /\ HasRead /\ Whole

PastGrows ==
  /\ DOMAIN past' = DOMAIN Contents
  /\ \A m \in DOMAIN Contents : past[m] \subseteq past'[m]

LEMMA ReadingsGrow ==
  ASSUME PastGrows, NEW c \in Comps
  PROVE  /\ \A n \in DOMAIN Specs[c] : Readings(c, n) \subseteq Readings(c, n)'
         /\ \A k : Asked(c, k) \subseteq Asked(c, k)'
<1>1. ASSUME NEW d \in Comps, NEW n \in DOMAIN Specs[d]
      PROVE  Readings(d, n) \subseteq Readings(d, n)'
  <2>1. Derived[d][n].map \in {<<>>} \cup DOMAIN Contents
    BY DerivedFields, ConstantsAssumption
  <2>2. CASE Derived[d][n].map = <<>>
    BY <2>2 DEF Readings
  <2>3. CASE Derived[d][n].map # <<>>
    BY <2>1, <2>3 DEF Readings, PastGrows
  <2> QED BY <2>2, <2>3
<1>2. FeReadings \subseteq FeReadings'
  BY <1>1 DEF FeReadings, Comps
<1> QED BY <1>1, <1>2 DEF Asked

LEMMA StatefulSetStays ==
  ASSUME PastGrows, NEW c \in Comps, WholeStatefulSet(c), sts'[c] = sts[c]
  PROVE  WholeStatefulSet(c)'
<1> SUFFICES ASSUME sts[c].exists
             PROVE  \E n \in DOMAIN Specs[c] :
                      MadeOf(c, n, sts[c].template)' /\ sts'[c].claims = Derived[c][n].claims
  BY DEF WholeStatefulSet
<1>1. PICK n \in DOMAIN Specs[c] : MadeOf(c, n, sts[c].template) /\ sts[c].claims = Derived[c][n].claims
  BY DEF WholeStatefulSet
<1>2. PICK k \in Readings(c, n) : \E q \in Asked(c, k) : sts[c].template = TemplateOf(c, n, k, q)
  BY <1>1 DEF MadeOf
<1>3. PICK q \in Asked(c, k) : sts[c].template = TemplateOf(c, n, k, q)
  BY <1>2
<1>4. k \in Readings(c, n)' /\ q \in Asked(c, k)'
  BY <1>2, <1>3, ReadingsGrow
<1>5. MadeOf(c, n, sts[c].template)'
  BY <1>1, <1>3, <1>4 DEF MadeOf, Unobjected, TemplateOf
<1> QED BY <1>1, <1>5

LEMMA ServiceStays ==
  ASSUME PastGrows, NEW c \in Comps, NEW kind \in Kinds, WholeService(c, kind),
         svcs'[c][kind] = svcs[c][kind]
  PROVE  WholeService(c, kind)'
BY ReadingsGrow DEF WholeService

LEMMA WholeStays ==
  ASSUME PastGrows, Whole, UNCHANGED <<sts, svcs>>
  PROVE  Whole'
BY StatefulSetStays, ServiceStays DEF Whole

\* What GetConfig returns is a configuration that the ConfigMap has had.
LEMMA ReadNow ==
  ASSUME TypeInv, Recorded, NEW c \in Comps, NEW n \in DOMAIN Specs[c],
         ~GetConfigFails(Derived[c][n])
  PROVE  GetConfig(Derived[c][n]) \in Readings(c, n)
<1>1. Derived[c][n].map \in {<<>>} \cup DOMAIN Contents
  BY DerivedFields, ConstantsAssumption
<1> QED BY <1>1 DEF GetConfig, GetConfigFails, Readings, Recorded

LEMMA RecordedStep ==
  ASSUME TypeInv, Recorded, [Next]_vars
  PROVE  Recorded' /\ PastGrows
<1>1. CASE UNCHANGED <<maps, past>>
  BY <1>1 DEF Recorded, PastGrows
<1>2. ASSUME NEW m \in DOMAIN Contents, EditConfigMap(m)
      PROVE  Recorded' /\ PastGrows
  <2>1. PICK k \in ContentsOf(m) : maps' = [maps EXCEPT ![m] = k] /\ past' = [past EXCEPT ![m] = @ \cup {k}]
    BY <1>2 DEF EditConfigMap
  <2>2. DOMAIN maps = DOMAIN Contents
    BY DEF TypeInv, TypeOK
  <2> QED BY <2>1, <2>2 DEF Recorded, PastGrows
<1>3. ASSUME NEW c \in Comps, \/ EditSpec(c) \/ PodStarts(c) \/ PodReplaced(c)
                              \/ ProbeFails(c) \/ PodEnds(c)
      PROVE  UNCHANGED <<maps, past>>
  BY <1>3 DEF EditSpec, PodStarts, PodReplaced, ProbeFails, PodEnds, user
<1>4. CASE Pass \/ ReadFeFails \/ CallFails
  BY <1>1, <1>4 DEF Pass, Begin, Check, ReadOwn, ReadFe, SyncStatefulSet, SyncService, ReadFeFails,
                    CallFails, user
<1> QED BY <1>1, <1>2, <1>3, <1>4 DEF Next, vars

\* What a pass has read stays read.
LEMMA HasReadStays ==
  ASSUME TypeInv, PastGrows, HasRead, UNCHANGED <<pc, at, src, own, fe>>
  PROVE  HasRead'
<1>1. c_' = c_ /\ c_ \in Comps /\ (OwnIsRead' <=> OwnIsRead) /\ (FeIsRead' <=> FeIsRead)
  BY AtComponent DEF c_, OwnIsRead, FeIsRead
<1>2. OwnIsRead => src[c_] \in DOMAIN Specs[c_]
  BY AtComponent DEF OwnIsRead, Kinds
<1>3. OwnIsRead => own' \in Readings(c_, src[c_])'
  <2>1. SUFFICES ASSUME OwnIsRead PROVE own \in Readings(c_, src[c_])'
    OBVIOUS
  <2>2. PICK c \in Comps : c = c_
    BY <1>1
  <2>3. PICK n \in DOMAIN Specs[c] : n = src[c_]
    BY <1>2, <2>1, <2>2
  <2>4. own \in Readings(c, n)'
    BY <2>1, <2>2, <2>3, ReadingsGrow DEF HasRead
  <2>5. c_' = c /\ (src[c_])' = n
    BY <1>1, <2>2, <2>3
  <2> QED BY <2>4, <2>5 DEF Readings
<1>4. FeIsRead => fe' \in Asked(c_, own)'
  <2>1. SUFFICES ASSUME FeIsRead PROVE fe \in Asked(c_, own)'
    OBVIOUS
  <2>2. PICK c \in Comps : c = c_
    BY <1>1
  <2>3. PICK k : k = own
    OBVIOUS
  <2>4. fe \in Asked(c, k)'
    BY <2>1, <2>2, <2>3, ReadingsGrow DEF HasRead
  <2>5. c_' = c /\ own' = k
    BY <1>1, <2>2, <2>3
  <2> QED BY <2>4, <2>5 DEF Asked
<1> QED BY <1>1, <1>3, <1>4 DEF HasRead

LEMMA NothingToRead ==
  ASSUME pc' \in {"idle", "check"}
  PROVE  HasRead'
BY DEF HasRead, OwnIsRead, FeIsRead, Kinds

LEMMA FeSpecRead ==
  ASSUME TypeInv, Recorded, ~GetConfigFails(FeSpec)
  PROVE  GetConfig(FeSpec) \in FeReadings
<1>1. spec["fe"] \in DOMAIN Specs["fe"] /\ src["fe"] \in DOMAIN Specs["fe"] /\ "fe" \in Comps
  BY DEF TypeInv, TypeOK, SpecsOf, Comps
<1>2. PICK n \in DOMAIN Specs["fe"] : FeSpec = Derived["fe"][n]
  BY <1>1 DEF FeSpec
<1> QED BY <1>1, <1>2, ReadNow DEF FeReadings

LEMMA HasReadReads ==
  ASSUME TypeInv, Recorded, HasRead, UNCHANGED past, ReadOwn \/ ReadFe \/ ReadFeFails
  PROVE  HasRead'
<1>1. pc \notin {"idle", "check"} /\ UNCHANGED src
  BY DEF ReadOwn, ReadFe, ReadFeFails
<1>2. c_ \in Comps /\ src[c_] \in DOMAIN Specs[c_] /\ s_ = Derived[c_][src[c_]]
  BY <1>1, AtComponent
<1>3. CASE \E reason : Fail(reason)
  BY <1>3, NothingToRead DEF Fail
<1>4. ASSUME UNCHANGED at
      PROVE  /\ c_' = c_
             /\ Readings(c_, src[c_])' = Readings(c_, src[c_])
             /\ FeReadings' = FeReadings
  BY <1>1, <1>4 DEF c_, Readings, FeReadings
<1>5. CASE ReadOwn /\ ~GetConfigFails(s_)
  <2>1. /\ own' = GetConfig(s_) /\ UNCHANGED <<at, fe>>
        /\ pc' = (IF c_ = "cn" THEN "fe" ELSE "sts") /\ pc = "own"
    BY <1>5 DEF ReadOwn
  <2>2. own' \in Readings(c_, src[c_])
    BY <1>2, <1>5, <2>1, ReadNow
  <2>3. FeIsRead' => fe' \in Asked(c_, own)'
    <3>1. SUFFICES ASSUME FeIsRead' PROVE fe' \in Asked(c_, own)'
      OBVIOUS
    <3>2. c_ = "be"
      BY <1>2, <1>4, <2>1, <3>1 DEF FeIsRead, Comps
    <3>3. fe \in FeReadings \cup {EmptyConfig}
      BY <2>1, <3>2 DEF HasRead, FeIsRead, Asked
    <3> QED BY <1>4, <2>1, <3>2, <3>3 DEF Asked
  <2> QED BY <1>4, <2>1, <2>2, <2>3 DEF HasRead
<1>6. CASE ReadFe /\ ~GetConfigFails(FeSpec)
  <2>1. fe' = GetConfig(FeSpec) /\ pc' = AfterFe /\ UNCHANGED <<at, own>> /\ pc = "fe"
    BY <1>6 DEF ReadFe
  <2>2. fe' \in FeReadings
    BY <1>6, <2>1, FeSpecRead
  <2>3. OwnIsRead' => c_ = "cn"
    BY <1>4, <2>1 DEF OwnIsRead, AfterFe, Kinds
  <2>4. OwnIsRead' => own' \in Readings(c_, src[c_])'
    BY <1>4, <2>1, <2>3 DEF HasRead, OwnIsRead
  <2>5. FeIsRead' => c_' # "fe"
    BY <1>4, <2>1 DEF FeIsRead
  <2>6. FeIsRead' => fe' \in Asked(c_, own)'
    BY <1>4, <2>1, <2>2, <2>5 DEF Asked
  <2> QED BY <2>4, <2>6 DEF HasRead
<1>7. CASE FeUnreadable /\ c_ = "be"
  <2>1. fe' = EmptyConfig /\ pc' = "own" /\ UNCHANGED <<at, own>>
    BY <1>7 DEF FeUnreadable, AfterFe
  <2>2. c_' = "be"
    BY <1>4, <1>7, <2>1
  <2> QED BY <2>1, <2>2 DEF HasRead, OwnIsRead, Asked, Kinds
<1> QED BY <1>3, <1>5, <1>6, <1>7 DEF ReadOwn, ReadFe, ReadFeFails, FeUnreadable

\* The StatefulSet that a pass writes.
LEMMA StatefulSetMade ==
  ASSUME TypeInv, HasRead, Whole, PastGrows, UNCHANGED svcs, pc = "sts", s_.checked,
         Refusal(sts[c_], MakeStatefulset(c_, s_)) = "none",
         sts' = [sts EXCEPT ![c_] = MakeStatefulset(c_, s_)]
  PROVE  Whole'
<1> DEFINE n == src[c_]
           d == Derived[c_][n]
           q == IF c_ = "fe" THEN own ELSE fe
           new == MakeStatefulset(c_, s_)
<1>1. c_ \in Comps /\ n \in DOMAIN Specs[c_] /\ s_ = d /\ d.valid /\ d.checked
  BY AtComponent DEF TypeInv, Going
<1>2. \A i \in DOMAIN d.vols : ~HollowVolume(d.vols[i])
  <2>1. new.template.vols = d.vols
    BY <1>1 DEF MakeStatefulset, Template
  <2>2. Refusal(sts[c_], new) = "none"
    OBVIOUS
  <2> HIDE DEF new, d
  <2>3. ~ \E i \in DOMAIN new.template.vols : HollowVolume(new.template.vols[i])
    BY <2>2 DEF Refusal
  <2> QED BY <2>1, <2>3
<1>3. own \in Readings(c_, n) /\ q \in Asked(c_, own)
  BY DEF HasRead, OwnIsRead, FeIsRead, Asked
<1>4. new.template = TemplateOf(c_, n, own, q) /\ new.claims = d.claims
  BY <1>1 DEF MakeStatefulset, Template, TemplateOf, FeQueryPort
<1>5. sts'[c_] = new /\ \A c \in Comps \ {c_} : sts'[c] = sts[c]
  BY StatefulSetWritten
<1> HIDE DEF new, q
<1>6. PICK c, m, k, r : /\ c = c_ /\ c \in Comps /\ m = n /\ m \in DOMAIN Specs[c]
                        /\ k = own /\ r = q
  BY <1>1
<1>7. k \in Readings(c, m)' /\ r \in Asked(c, k)'
  BY <1>3, <1>6, ReadingsGrow
<1>8. WholeStatefulSet(c)'
  <2>1. sts'[c].template = TemplateOf(c, m, k, r) /\ sts'[c].claims = Derived[c][m].claims
    BY <1>4, <1>5, <1>6
  <2>2. Unobjected(c, m)
    BY <1>1, <1>2, <1>6 DEF Unobjected
  <2>3. MadeOf(c, m, sts[c].template)'
    BY <1>7, <2>1, <2>2 DEF MadeOf, Unobjected, TemplateOf
  <2> QED BY <1>6, <2>1, <2>3 DEF WholeStatefulSet
<1>9. \A e \in Comps \ {c} : WholeStatefulSet(e)'
  BY <1>5, <1>6, StatefulSetStays DEF Whole
<1> QED BY <1>8, <1>9, ServiceStays DEF Whole

\* The service that a pass writes.
LEMMA ServiceMade ==
  ASSUME TypeInv, HasRead, Whole, PastGrows, UNCHANGED sts, NEW kind \in Kinds, pc = kind,
         ~ServiceRefused(NewService(kind)), ApplyService(kind)
  PROVE  Whole'
<1> DEFINE n == src[c_]
           d == Derived[c_][n]
           new == NewService(kind)
<1>1. c_ \in Comps /\ n \in DOMAIN Specs[c_] /\ s_ = d /\ d.valid
  BY AtComponent DEF TypeInv, Going, Kinds
<1>2. own \in Readings(c_, n)
  BY DEF HasRead, OwnIsRead, Kinds
<1>3. new = d[kind][own]
  BY <1>1 DEF NewService
<1>4. CASE UNCHANGED svcs
  BY <1>4, WholeStays
<1>5. CASE svcs' = [svcs EXCEPT ![c_][kind] = new]
  <2>1. DOMAIN svcs = Comps /\ \A c \in Comps : DOMAIN svcs[c] = Kinds
    BY DEF TypeInv, TypeOK, Whole
  <2>2. /\ svcs'[c_][kind] = new
        /\ \A c \in Comps : DOMAIN svcs'[c] = Kinds
        /\ \A c \in Comps, j \in Kinds : c # c_ \/ j # kind => svcs'[c][j] = svcs[c][j]
    BY <1>1, <1>5, <2>1
  <2> HIDE DEF new, n, d
  <2>3. PICK c, m, k : c = c_ /\ c \in Comps /\ m = n /\ m \in DOMAIN Specs[c] /\ k = own
    BY <1>1
  <2>4. k \in Readings(c, m)'
    BY <1>2, <2>3, ReadingsGrow
  <2>5. WholeService(c, kind)'
    <3>1. svcs'[c][kind] = Derived[c][m][kind][k] /\ Derived[c][m].valid
      BY <1>1, <1>3, <2>2, <2>3 DEF d
    <3>2. ~ServiceRefused(svcs'[c][kind])
      BY <2>2, <2>3 DEF new
    <3>3. m \in DOMAIN Specs[c]
      BY <2>3
    <3> QED BY <2>4, <3>1, <3>2, <3>3 DEF WholeService
  <2>6. \A e \in Comps, j \in Kinds : e # c \/ j # kind => WholeService(e, j)'
    BY <2>2, <2>3, ServiceStays DEF Whole
  <2>7. \A e \in Comps : WholeStatefulSet(e)'
    BY StatefulSetStays DEF Whole
  <2> QED BY <2>2, <2>5, <2>6, <2>7 DEF Whole
<1> QED BY <1>4, <1>5 DEF ApplyService

\* Steps of users and of pods.
LEMMA WholeOutside ==
  ASSUME TypeInv, PastGrows, HasRead, Whole, UNCHANGED <<sts, svcs, pc, at, src, own, fe>>
  PROVE  HasRead' /\ Whole'
BY HasReadStays, WholeStays

LEMMA WholePass ==
  ASSUME TypeInv, Recorded, PastGrows, HasRead, Whole, UNCHANGED past, Pass \/ ReadFeFails \/ CallFails
  PROVE  HasRead' /\ Whole'
<1>1. CASE Begin
  BY <1>1, NothingToRead, WholeStays DEF Begin
<1>2. CASE Check
  <2>1. UNCHANGED <<sts, svcs>>
    BY <1>2 DEF Check
  <2>2. \/ pc' \in {"idle", "check"}
        \/ pc' = (IF c_ = "be" THEN "fe" ELSE "own") /\ UNCHANGED at
    BY <1>2 DEF Check, Fail, Done
  <2>3. CASE pc' = (IF c_ = "be" THEN "fe" ELSE "own") /\ UNCHANGED at
    <3>1. c_' = c_
      BY <2>3 DEF c_
    <3>2. HasRead'
      BY <2>3, <3>1 DEF HasRead, OwnIsRead, FeIsRead, Kinds
    <3> QED BY <2>1, <3>2, WholeStays
  <2> QED BY <2>1, <2>2, <2>3, NothingToRead, WholeStays
<1>3. CASE ReadOwn \/ ReadFe \/ ReadFeFails
  <2>1. UNCHANGED <<sts, svcs>>
    BY <1>3 DEF ReadOwn, ReadFe, ReadFeFails
  <2> QED BY <1>3, <2>1, HasReadReads, WholeStays
<1>4. CASE SyncStatefulSet
  <2>1. pc = "sts" /\ UNCHANGED <<svcs, src>>
    BY <1>4 DEF SyncStatefulSet
  <2>2. \/ pc' = "idle" /\ UNCHANGED sts
        \/ /\ s_.checked /\ Refusal(sts[c_], MakeStatefulset(c_, s_)) = "none"
           /\ sts' = [sts EXCEPT ![c_] = MakeStatefulset(c_, s_)]
           /\ pc' \in Kinds /\ UNCHANGED <<at, own, fe>>
    BY <1>4 DEF SyncStatefulSet, Fail, Kinds
  <2>3. CASE pc' = "idle" /\ UNCHANGED sts
    BY <2>1, <2>3, NothingToRead, WholeStays
  <2>4. CASE /\ s_.checked /\ Refusal(sts[c_], MakeStatefulset(c_, s_)) = "none"
             /\ sts' = [sts EXCEPT ![c_] = MakeStatefulset(c_, s_)]
             /\ pc' \in Kinds /\ UNCHANGED <<at, own, fe>>
    <3>1. Whole'
      BY <2>1, <2>4, StatefulSetMade
    <3>2. c_' = c_ /\ Readings(c_, src[c_])' = Readings(c_, src[c_])
      BY <2>1, <2>4 DEF c_, Readings
    <3>3. own \in Readings(c_, src[c_])
      BY <2>1 DEF HasRead, OwnIsRead
    <3>4. ~FeIsRead'
      BY <2>4 DEF FeIsRead, Kinds
    <3> QED BY <2>1, <2>4, <3>1, <3>2, <3>3, <3>4 DEF HasRead
  <2> QED BY <2>2, <2>3, <2>4
<1>5. ASSUME NEW kind \in Kinds, SyncService(kind)
      PROVE  HasRead' /\ Whole'
  <2>1. pc = kind /\ UNCHANGED <<sts, src>>
    BY <1>5 DEF SyncService
  <2>2. \/ UNCHANGED svcs /\ pc' = "idle"
        \/ /\ ~ServiceRefused(NewService(kind)) /\ ApplyService(kind)
           /\ pc' \in {"idle", "check"} \/ (pc' \in Kinds /\ UNCHANGED <<at, own, fe>>)
    BY <1>5 DEF SyncService, Fail, Done, LastService, Kinds
  <2>3. Whole'
    BY <2>1, <2>2, ServiceMade, WholeStays
  <2>4. CASE pc' \in Kinds /\ UNCHANGED <<at, own, fe>>
    <3>1. c_' = c_ /\ Readings(c_, src[c_])' = Readings(c_, src[c_])
      BY <2>1, <2>4 DEF c_, Readings
    <3>2. own \in Readings(c_, src[c_])
      BY <2>1 DEF HasRead, OwnIsRead
    <3>3. ~FeIsRead'
      BY <2>4 DEF FeIsRead, Kinds
    <3> QED BY <2>1, <2>3, <2>4, <3>1, <3>2, <3>3 DEF HasRead
  <2> QED BY <2>2, <2>3, <2>4, NothingToRead
<1>6. CASE CallFails
  <2>1. pc' = "idle"
    BY <1>6 DEF CallFails, Fail
  <2>2. \/ UNCHANGED <<sts, svcs>>
        \/ /\ pc = "sts" /\ s_.checked
           /\ Refusal(sts[c_], MakeStatefulset(c_, s_)) = "none"
           /\ sts' = [sts EXCEPT ![c_] = MakeStatefulset(c_, s_)] /\ UNCHANGED svcs
        \/ /\ pc \in Kinds /\ ~ServiceRefused(NewService(pc))
           /\ ApplyService(pc) /\ UNCHANGED sts
    BY <1>6 DEF CallFails, Kinds
  <2> QED BY <2>1, <2>2, NothingToRead, WholeStays, StatefulSetMade, ServiceMade
<1>7. Kinds = {"external", "search"}
  BY DEF Kinds
<1> QED BY <1>1, <1>2, <1>3, <1>4, <1>5, <1>6, <1>7 DEF Pass

LEMMA WholeStep == TypeInv /\ WholeInv /\ [Next]_vars => WholeInv'
<1> SUFFICES ASSUME TypeInv, Recorded, HasRead, Whole, [Next]_vars
             PROVE  WholeInv'
  BY DEF WholeInv
<1>1. Recorded' /\ PastGrows
  BY RecordedStep
<1>2. ASSUME NEW c \in Comps, \/ EditSpec(c) \/ PodStarts(c) \/ PodReplaced(c)
                              \/ ProbeFails(c) \/ PodEnds(c)
      PROVE  UNCHANGED <<sts, svcs, pc, at, src, own, fe>>
  BY <1>2 DEF EditSpec, PodStarts, PodReplaced, ProbeFails, PodEnds
<1>3. ASSUME NEW m \in DOMAIN Contents, EditConfigMap(m)
      PROVE  UNCHANGED <<sts, svcs, pc, at, src, own, fe>>
  BY <1>3 DEF EditConfigMap
<1>4. CASE UNCHANGED vars
  BY <1>1, <1>4, WholeOutside DEF vars, WholeInv
<1>5. CASE Pass \/ ReadFeFails \/ CallFails
  <2>1. UNCHANGED past
    BY <1>5 DEF Pass, Begin, Check, ReadOwn, ReadFe, SyncStatefulSet, SyncService, ReadFeFails,
                CallFails, user
  <2> QED BY <1>1, <1>5, <2>1, WholePass DEF WholeInv
<1> QED BY <1>1, <1>2, <1>3, <1>4, <1>5, WholeOutside DEF Next, WholeInv

LEMMA WholeInit == Init => WholeInv
<1> SUFFICES ASSUME Init PROVE WholeInv
  OBVIOUS
<1>1. Recorded
  BY ConstantsAssumption DEF Init, Recorded, ContentsOf
<1>2. HasRead
  BY DEF Init, HasRead, OwnIsRead, FeIsRead, Kinds
<1>3. NoSts.exists = FALSE
  BY DEF NoSts
<1>4. Whole
  BY <1>3 DEF Init, Whole, WholeStatefulSet, WholeService, Kinds
<1> QED BY <1>1, <1>2, <1>4 DEF WholeInv

\* However custom resource and ConfigMaps are edited between the calls of a pass,
\* and whichever calls fail or passes end in the middle, each object the operator
\* has written comes from one spec and one content of one ConfigMap.
THEOREM WholeCorrect == Spec => []Whole
<1>1. WholeInv => Whole
  BY DEF WholeInv
<1> QED BY <1>1, TypeInit, TypeStep, WholeInit, WholeStep, PTL DEF Spec

-----------------------------------------------------------------------------
(* What pods listen on *)

\* A pod has the template of one spec and listens on the ports of a content of
\* the very ConfigMap that the operator reads for that spec.
WholePod(c) ==
  pods[c] # NoPod => \E n \in DOMAIN Specs[c] :
    MadeOf(c, n, pods[c].template) /\ \E k \in Readings(c, n) : pods[c].listens = ListensOn(c, k)

WholePods == \A c \in Comps : WholePod(c)

LEMMA PodStays ==
  ASSUME PastGrows, NEW c \in Comps, WholePod(c), pods'[c] = pods[c]
  PROVE  WholePod(c)'
<1> SUFFICES ASSUME pods[c] # NoPod
             PROVE  \E n \in DOMAIN Specs[c] :
                      /\ MadeOf(c, n, pods[c].template)'
                      /\ \E k \in Readings(c, n)' : pods'[c].listens = ListensOn(c, k)
  BY DEF WholePod
<1>1. PICK n \in DOMAIN Specs[c] :
        MadeOf(c, n, pods[c].template) /\ \E k \in Readings(c, n) : pods[c].listens = ListensOn(c, k)
  BY DEF WholePod
<1>2. PICK k \in Readings(c, n) : \E q \in Asked(c, k) : pods[c].template = TemplateOf(c, n, k, q)
  BY <1>1 DEF MadeOf
<1>3. PICK q \in Asked(c, k) : pods[c].template = TemplateOf(c, n, k, q)
  BY <1>2
<1>4. k \in Readings(c, n)' /\ q \in Asked(c, k)'
  BY <1>2, <1>3, ReadingsGrow
<1>5. MadeOf(c, n, pods[c].template)'
  BY <1>1, <1>3, <1>4 DEF MadeOf, Unobjected, TemplateOf
<1>6. \E j \in Readings(c, n)' : pods'[c].listens = ListensOn(c, j)
  BY <1>1, ReadingsGrow
<1> QED BY <1>1, <1>5, <1>6

\* A container that starts reads the file of that ConfigMap.
LEMMA StartedIsWhole ==
  ASSUME ReferencesClear, Recorded, PastGrows, UNCHANGED past, NEW c \in Comps,
         NEW n \in DOMAIN Specs[c], NEW t, MadeOf(c, n, t), CanStart(t),
         pods'[c] = Started(c, t)
  PROVE  WholePod(c)'
<1> DEFINE s == Specs[c][n]
           p == PodVolumes(c, s)
           m == Derived[c][n].map
           config == IF m = <<>> THEN EmptyConfig ELSE maps[m].config
<1>1. m = ConfigMapOf(s) /\ m \in {<<>>} \cup DOMAIN Contents
  BY DerivedFields, ConstantsAssumption
<1>2. t.vols = p.vols /\ t.mounts = p.mounts /\ CheckVolumes(p)
  BY DerivedFields DEF MadeOf, Unobjected, TemplateOf
<1>3. HasVolumes(s) /\ ClearReferences(s)
  BY SpecType DEF ReferencesClear
<1>4. MapSeen(t) = m
  BY <1>1, <1>2, <1>3, ReadsTheSameFile
<1>5. config \in Readings(c, n)
  <2>1. CASE m = <<>>
    BY <2>1 DEF Readings
  <2>2. CASE m # <<>>
    <3>1. maps[m] \in past[m] /\ maps[m].state = "ok"
      BY <1>1, <1>4, <2>2 DEF CanStart, Recorded
    <3>2. maps[m] # Malformed
      BY <3>1 DEF Malformed
    <3> QED BY <2>2, <3>1, <3>2 DEF Readings
  <2> QED BY <2>1, <2>2
<1>6. Started(c, t).template = t /\ Started(c, t).listens = ListensOn(c, config)
  BY <1>4 DEF Started
<1> HIDE DEF config, m, s, p
<1>7. MadeOf(c, n, pods[c].template)'
  <2>1. pods'[c].template = t
    BY <1>6
  <2> QED BY <2>1 DEF MadeOf, Unobjected, TemplateOf, Readings, Asked, FeReadings
<1>8. config \in Readings(c, n)'
  BY <1>5 DEF Readings
<1> QED BY <1>6, <1>7, <1>8 DEF WholePod

LEMMA PodsStep ==
  ASSUME ReferencesClear, TypeInv, WholeInv, WholePods, [Next]_vars
  PROVE  WholePods'
<1>1. Recorded /\ Whole /\ PastGrows
  BY RecordedStep DEF WholeInv
<1>2. CASE UNCHANGED pods
  BY <1>1, <1>2, PodStays DEF WholePods
<1>3. ASSUME NEW c \in Comps, PodStarts(c) \/ PodReplaced(c) \/ ProbeFails(c) \/ PodEnds(c)
      PROVE  WholePods'
  <2>1. UNCHANGED past /\ DOMAIN pods = Comps
    BY <1>3 DEF PodStarts, PodReplaced, ProbeFails, PodEnds, user, TypeInv, TypeOK
  <2>2. \A d \in Comps \ {c} : pods'[d] = pods[d]
    BY <1>3, <2>1 DEF PodStarts, PodReplaced, ProbeFails, PodEnds
  <2>3. CASE PodReplaced(c) \/ PodEnds(c)
    <3>1. pods'[c] = NoPod
      BY <2>1, <2>3 DEF PodReplaced, PodEnds
    <3>2. WholePod(c)'
      BY <3>1 DEF WholePod
    <3> QED BY <1>1, <2>2, <3>2, PodStays DEF WholePods
  <2>4. CASE PodStarts(c)
    <3>1. sts[c].exists /\ CanStart(sts[c].template) /\ pods'[c] = Started(c, sts[c].template)
      BY <2>1, <2>4 DEF PodStarts
    <3>2. PICK n \in DOMAIN Specs[c] : MadeOf(c, n, sts[c].template)
      BY <1>1, <3>1 DEF Whole, WholeStatefulSet
    <3>3. WholePod(c)'
      BY <1>1, <2>1, <3>1, <3>2, StartedIsWhole
    <3> QED BY <1>1, <2>2, <3>3, PodStays DEF WholePods
  <2>5. CASE ProbeFails(c)
    <3>1. pods[c] # NoPod /\ CanStart(pods[c].template) /\ pods'[c] = Started(c, pods[c].template)
      BY <2>1, <2>5 DEF ProbeFails
    <3>2. PICK n \in DOMAIN Specs[c] : MadeOf(c, n, pods[c].template)
      BY <3>1 DEF WholePods, WholePod
    <3>3. WholePod(c)'
      BY <1>1, <2>1, <3>1, <3>2, StartedIsWhole
    <3> QED BY <1>1, <2>2, <3>3, PodStays DEF WholePods
  <2> QED BY <1>3, <2>3, <2>4, <2>5
<1>4. CASE \/ \E c \in Comps : EditSpec(c)
           \/ \E m \in DOMAIN Contents : EditConfigMap(m)
           \/ Pass \/ ReadFeFails \/ CallFails \/ UNCHANGED vars
  <2>1. UNCHANGED pods
    BY <1>4 DEF EditSpec, EditConfigMap, Pass, Begin, Check, ReadOwn, ReadFe, SyncStatefulSet,
                SyncService, ReadFeFails, CallFails, vars
  <2> QED BY <1>2, <2>1
<1> QED BY <1>3, <1>4 DEF Next

\* If every spec says clearly which ConfigMap holds the configuration, no pod ever
\* runs with a configuration that the operator has not been able to read.
THEOREM PodsCorrect ==
  ASSUME ReferencesClear
  PROVE  Spec => []WholePods
<1>1. Init => WholePods
  BY DEF Init, WholePods, WholePod
<1>2. TypeInv /\ WholeInv /\ WholePods /\ [Next]_vars => WholePods'
  BY PodsStep
<1> QED BY <1>1, <1>2, TypeInit, TypeStep, WholeInit, WholeStep, PTL DEF Spec

-----------------------------------------------------------------------------
(* Where services forward to *)

\* All configurations that component c could read give it the same ports, and
\* none has both names of the web port.
SamePorts(c) ==
  LET all == UNION {Readings(c, n) : n \in DOMAIN Specs[c]}
  IN (\A k \in all : ~BothNames(k)) /\ \A k, l \in all : Ports(c, k) = Ports(c, l)

\* Then its pods pass the liveness probe and answer where its service forwards to,
\* whatever else is edited.
AnsweredIfSame ==
  \A c \in Comps : SamePorts(c) =>
    /\ pods[c] # NoPod => Healthy(c)
    /\ pods[c] # NoPod /\ svcs[c].external # NoService =>
         \A p \in DOMAIN ContainerKeys[c] : Answered(c, p)

\* StarRocks and the operator read the same ports from a configuration.
LEMMA ListensOnPorts ==
  ASSUME NEW c \in Comps, NEW k, ~BothNames(k)
  PROVE  ListensOn(c, k) = Ports(c, k)
<1>1. ASSUME Value(k, "be_http_port") # 0
      PROVE  GetPort(k, "webserver_port") = Value(k, "be_http_port")
  BY <1>1 DEF BothNames, GetPort, Renamed
<1>2. \A p \in DOMAIN ContainerKeys[c] : ListensOn(c, k)[p] = Ports(c, k)[p]
  BY <1>1 DEF ListensOn, Ports
<1> QED BY <1>2 DEF ListensOn, Ports

\* The port of the probe is one of the container.
LEMMA ProbeIsAPort ==
  ASSUME NEW c \in Comps, NEW k
  PROVE  Ports(c, k)[Web(c)] = ProbePort(c, k)
BY DEF Comps, Ports, ProbePort, Web, ContainerKeys

\* A service forwards to the ports of the container.
LEMMA ServiceTargets ==
  ASSUME NEW c \in Comps, NEW s, NEW k, NEW p \in DOMAIN ContainerKeys[c]
  PROVE  BuildExternalService(c, s, k).ports[p].target = Ports(c, k)[p]
<1>1. p \in DOMAIN ServiceKeys(c, k) /\ ServiceKeys(c, k)[p] = ContainerKeys[c][p]
  <2>1. CASE c # "fe"
    BY <2>1 DEF ServiceKeys
  <2>2. CASE c = "fe"
    <3>1. ContainerKeys[c] = [http |-> "http_port", rpc |-> "rpc_port", query |-> "query_port"]
      BY <2>2 DEF ContainerKeys
    <3>2. p \in {"http", "rpc", "query"}
      BY <3>1
    <3>3. p \in DOMAIN FeServiceKeys /\ p # "arrow_flight" /\ FeServiceKeys[p] = ContainerKeys[c][p]
      BY <3>1, <3>2 DEF FeServiceKeys
    <3> QED BY <2>2, <3>3 DEF ServiceKeys
  <2> QED BY <2>1, <2>2
<1> DEFINE number == GetPort(k, ServiceKeys(c, k)[p])
<1>2. BuildExternalService(c, s, k).ports[p] = mergePort(s.entries, p, number)
  BY <1>1, Zenon DEF BuildExternalService
<1>3. mergePort(s.entries, p, number).target = number
  BY DEF mergePort
<1> QED BY <1>1, <1>2, <1>3 DEF Ports

LEMMA WholeIsAnswered ==
  ASSUME TypeInv, WholeInv, WholePods
  PROVE  AnsweredIfSame
<1> SUFFICES ASSUME NEW c \in Comps, SamePorts(c), pods[c] # NoPod
             PROVE  /\ Healthy(c)
                    /\ svcs[c].external # NoService => \A p \in DOMAIN ContainerKeys[c] : Answered(c, p)
  BY DEF AnsweredIfSame
<1>1. PICK n \in DOMAIN Specs[c] :
        MadeOf(c, n, pods[c].template) /\ \E k \in Readings(c, n) : pods[c].listens = ListensOn(c, k)
  BY DEF WholePods, WholePod
<1>2. PICK k \in Readings(c, n) : pods[c].listens = ListensOn(c, k)
  BY <1>1
<1>3. pods[c].listens = Ports(c, k)
  BY <1>2, ListensOnPorts DEF SamePorts
<1>4. Healthy(c)
  <2>1. PICK j \in Readings(c, n) : pods[c].template.probe = ProbePort(c, j)
    BY <1>1 DEF MadeOf, TemplateOf
  <2>2. Ports(c, j) = Ports(c, k)
    BY <1>2, <2>1 DEF SamePorts
  <2> QED BY <1>3, <2>1, <2>2, ProbeIsAPort DEF Healthy
<1>5. ASSUME svcs[c].external # NoService, NEW p \in DOMAIN ContainerKeys[c]
      PROVE  Answered(c, p)
  <2>1. PICK m \in DOMAIN Specs[c] :
          \E j \in Readings(c, m) : svcs[c].external = Derived[c][m].external[j]
    BY <1>5 DEF WholeInv, Whole, WholeService, Kinds
  <2>2. PICK j \in Readings(c, m) : svcs[c].external = Derived[c][m].external[j]
    BY <2>1
  <2>3. j \in Configs
    <3>1. Derived[c][m].map \in {<<>>} \cup DOMAIN Contents
      BY DerivedFields, ConstantsAssumption
    <3> QED BY <2>2, <3>1 DEF Readings, WholeInv, Recorded, Configs
  <2>4. svcs[c].external = BuildExternalService(c, Specs[c][m].service, j)
    BY <2>2, <2>3, DerivedFields
  <2>5. Ports(c, j) = Ports(c, k)
    BY <1>2, <2>2 DEF SamePorts
  <2> QED BY <1>3, <1>5, <2>4, <2>5, ServiceTargets DEF Answered
<1> QED BY <1>4, <1>5

\* Only edits that change the ports of a component can leave its pods unhealthy or
\* its service unanswered: edits of its spec, failed calls and lost passes cannot.
THEOREM AnsweredCorrect ==
  ASSUME ReferencesClear
  PROVE  Spec => []AnsweredIfSame
<1>1. TypeInv /\ WholeInv /\ WholePods => AnsweredIfSame
  BY WholeIsAnswered
<1>2. Init => WholePods
  BY DEF Init, WholePods, WholePod
<1>3. TypeInv /\ WholeInv /\ WholePods /\ [Next]_vars => WholePods'
  BY PodsStep
<1> QED BY <1>1, <1>2, <1>3, TypeInit, TypeStep, WholeInit, WholeStep, PTL DEF Spec

-----------------------------------------------------------------------------
(* What a pass achieves *)

\* The pass under way began after the last edit, and has got so far.
UpToDate ==
  /\ pc # "idle" => src = spec /\ failed = "none"
  /\ OwnIsRead => own = GetConfig(s_)
  /\ pc \in Kinds => StatefulSetSettled(at)
  /\ pc = LastService => \A kind \in Kinds \ {pc} : ServiceSettled(at, kind)

\* A pass that no edit comes into settles every component that it goes through
\* to the end, and unsettles none, whichever calls fail and whatever pods do:
\* what is as it should be stays so until the next edit.
PassSettles ==
  [][/\ Begin => UpToDate'
     /\ UpToDate /\ UNCHANGED <<spec, maps>> =>
          /\ UpToDate'
          /\ \A i \in DOMAIN Order :
               \/ Settled(i)
               \/ i = at /\ pc = LastService /\ pc' # pc /\ failed' = "none"
               => Settled(i)']_vars

\* Does nothing that is settled get lost?
Keeps ==
  \A i \in DOMAIN Order :
    /\ StatefulSetSettled(i) => StatefulSetSettled(i)'
    /\ \A kind \in Kinds : ServiceSettled(i, kind) => ServiceSettled(i, kind)'

LEMMA WantedStays ==
  ASSUME UNCHANGED <<spec, maps>>, NEW i
  PROVE  Wanted(i)' = Wanted(i) /\ GetConfig(Wanted(i))' = GetConfig(Wanted(i))
BY DEF Wanted, GetConfig

LEMMA SettledStays ==
  ASSUME UNCHANGED <<spec, maps>>
  PROVE  /\ UNCHANGED sts => \A i \in DOMAIN Order : StatefulSetSettled(i) => StatefulSetSettled(i)'
         /\ UNCHANGED svcs => \A i \in DOMAIN Order, kind \in Kinds :
                                ServiceSettled(i, kind) => ServiceSettled(i, kind)'
BY WantedStays DEF StatefulSetSettled, ServiceSettled

\* The component a pass is at is to come from what the pass goes by.
LEMMA WantedNow ==
  ASSUME TypeInv, src = spec
  PROVE  at \in DOMAIN Order /\ c_ = Order[at] /\ s_ = Wanted(at)
BY DEF TypeInv, TypeOK, c_, s_, Wanted

LEMMA OrderApart == \A i, j \in DOMAIN Order : Order[i] = Order[j] => i = j
BY OrderType

LEMMA StatefulSetSettles ==
  ASSUME TypeInv, UNCHANGED <<spec, maps, svcs>>, pc = "sts", src = spec, own = GetConfig(s_),
         sts' = [sts EXCEPT ![c_] = MakeStatefulset(c_, s_)]
  PROVE  Keeps /\ \A i \in DOMAIN Order : i = at => StatefulSetSettled(i)'
<1>1. sts'[c_] = MakeStatefulset(c_, s_) /\ \A c \in Comps \ {c_} : sts'[c] = sts[c]
  BY StatefulSetWritten
<1>2. ASSUME NEW i \in DOMAIN Order, i = at
      PROVE  StatefulSetSettled(i)'
  <2>1. c_ = Order[i] /\ s_ = Wanted(i)
    BY <1>2, WantedNow
  <2>2. sts'[Order[i]].template = Template(Order[i], Wanted(i))
    BY <1>1, <2>1 DEF MakeStatefulset
  <2>3. own = GetConfig(Wanted(i))
    BY <2>1
  <2> QED BY <2>2, <2>3, WantedStays DEF StatefulSetSettled, Template
<1>3. ASSUME NEW i \in DOMAIN Order, i # at, StatefulSetSettled(i)
      PROVE  StatefulSetSettled(i)'
  <2>1. sts'[Order[i]] = sts[Order[i]]
    BY <1>1, <1>3, WantedNow, OrderType, OrderApart
  <2> QED BY <1>3, <2>1, WantedStays DEF StatefulSetSettled
<1> QED BY <1>2, <1>3, SettledStays DEF Keeps

LEMMA ServiceSettles ==
  ASSUME TypeInv, Whole, UNCHANGED <<spec, maps, sts>>, NEW k \in Kinds, pc = k, src = spec,
         own = GetConfig(s_), ApplyService(k)
  PROVE  Keeps /\ \A i \in DOMAIN Order : i = at => ServiceSettled(i, k)'
<1> DEFINE new == NewService(k)
<1>1. c_ = Order[at] /\ at \in DOMAIN Order /\ s_ = Wanted(at) /\ c_ \in Comps
  BY WantedNow, AtComponent
<1>2. ServiceHash(new) = ServiceHash(Wanted(at)[k][GetConfig(Wanted(at))])
  BY <1>1 DEF NewService
<1>3. /\ ServiceHash(svcs'[c_][k]) = ServiceHash(new)
      /\ \A c \in Comps, j \in Kinds : c # c_ \/ j # k => svcs'[c][j] = svcs[c][j]
  <2>1. DOMAIN svcs = Comps /\ \A c \in Comps : DOMAIN svcs[c] = Kinds
    BY DEF TypeInv, TypeOK, Whole
  <2> HIDE DEF new
  <2>2. CASE svcs' = [svcs EXCEPT ![c_][k] = new]
    BY <1>1, <2>1, <2>2
  <2>3. CASE UNCHANGED svcs /\ ServiceHash(svcs[c_][k]) = ServiceHash(new)
    BY <2>3
  <2> QED BY <2>2, <2>3 DEF ApplyService, new
<1> HIDE DEF new
<1>4. ASSUME NEW i \in DOMAIN Order, i = at
      PROVE  ServiceSettled(i, k)'
  BY <1>1, <1>2, <1>3, <1>4, WantedStays DEF ServiceSettled
<1>5. ASSUME NEW i \in DOMAIN Order, NEW j \in Kinds, i # at \/ j # k, ServiceSettled(i, j)
      PROVE  ServiceSettled(i, j)'
  <2>1. svcs'[Order[i]][j] = svcs[Order[i]][j]
    BY <1>1, <1>3, <1>5, OrderType, OrderApart
  <2> QED BY <1>5, <2>1, WantedStays DEF ServiceSettled
<1>6. \A i \in DOMAIN Order : StatefulSetSettled(i) => StatefulSetSettled(i)'
  BY SettledStays
<1> QED BY <1>4, <1>5, <1>6 DEF Keeps
\* Has the component of the pass come to be as it should?
Settling ==
  pc = LastService /\ pc' # pc /\ failed' = "none" =>
    \A i \in DOMAIN Order : i = at =>
      StatefulSetSettled(i)' /\ \A kind \in Kinds : ServiceSettled(i, kind)'

LEMMA NothingDone ==
  ASSUME pc' # "idle" => src' = spec' /\ failed' = "none",
         pc' \in {"idle", "check", "own", "fe"}, ~OwnIsRead'
  PROVE  UpToDate'
<1>1. pc' \notin Kinds /\ pc' # LastService'
  BY DEF Kinds, LastService
<1> QED BY <1>1 DEF UpToDate

LEMMA UpToDateStays ==
  ASSUME TypeInv, UpToDate, Keeps, UNCHANGED <<spec, maps, pc, at, src, own, failed>>
  PROVE  UpToDate'
<1>1. /\ c_' = c_ /\ s_' = s_ /\ GetConfig(s_)' = GetConfig(s_) /\ at \in DOMAIN Order
      /\ LastService' = LastService /\ (OwnIsRead' <=> OwnIsRead)
  BY DEF c_, s_, GetConfig, TypeInv, TypeOK, LastService, OwnIsRead
<1>2. pc \in Kinds => StatefulSetSettled(at)'
  <2>1. PICK i \in DOMAIN Order : i = at
    BY <1>1
  <2>2. pc \in Kinds => StatefulSetSettled(i)'
    BY <2>1 DEF UpToDate, Keeps
  <2> QED BY <2>1, <2>2 DEF StatefulSetSettled, Wanted
<1>3. pc = LastService => \A kind \in Kinds \ {pc} : ServiceSettled(at, kind)'
  <2>1. PICK i \in DOMAIN Order : i = at
    BY <1>1
  <2>2. pc = LastService => \A kind \in Kinds \ {pc} : ServiceSettled(i, kind)'
    BY <2>1 DEF UpToDate, Keeps
  <2> QED BY <2>1, <2>2 DEF ServiceSettled, Wanted
<1> QED BY <1>1, <1>2, <1>3 DEF UpToDate

LEMMA UpToDateReads ==
  ASSUME TypeInv, UpToDate, UNCHANGED <<spec, maps>>, Check \/ ReadOwn \/ ReadFe \/ ReadFeFails
  PROVE  UpToDate' /\ Keeps /\ Settling
<1>1. UNCHANGED <<sts, svcs, src>> /\ pc \in {"check", "own", "fe"}
  BY DEF Check, ReadOwn, ReadFe, ReadFeFails
<1>2. Keeps
  BY <1>1, SettledStays DEF Keeps
<1>3. pc # LastService
  BY <1>1 DEF LastService
<1>4. src = spec /\ failed = "none"
  BY <1>1 DEF UpToDate
<1>5. UpToDate'
  <2>1. CASE \E reason : Fail(reason)
    BY <2>1, NothingDone DEF Fail, OwnIsRead, Kinds
  <2>2. CASE Done /\ UNCHANGED failed
    BY <1>1, <1>4, <2>2, NothingDone DEF Done, OwnIsRead, Kinds
  <2>3. CASE UNCHANGED <<at, failed>> /\ pc' # "sts"
    <3>1. c_' = c_
      BY <2>3 DEF c_
    <3>2. CASE OwnIsRead'
      <4>1. pc' = "fe" /\ c_ = "cn"
        BY <1>1, <2>3, <3>1, <3>2 DEF OwnIsRead, Kinds, Check, ReadOwn, ReadFe, ReadFeFails,
                                      FeUnreadable, AfterFe, Fail, Done
      <4>2. ReadOwn /\ own' = GetConfig(s_)
        BY <2>3, <4>1 DEF Check, ReadOwn, ReadFe, ReadFeFails, FeUnreadable, AfterFe, Fail, Done
      <4>3. own' = GetConfig(s_)'
        BY <1>1, <2>3, <4>2 DEF GetConfig, s_
      <4>4. pc' # LastService' /\ pc' \notin Kinds
        BY <4>1 DEF LastService, Kinds
      <4> QED BY <1>1, <1>4, <2>3, <4>3, <4>4 DEF UpToDate
    <3>3. CASE ~OwnIsRead'
      <4>1. pc' \in {"idle", "check", "own", "fe"}
        BY <2>3 DEF Check, ReadOwn, ReadFe, ReadFeFails, FeUnreadable, AfterFe, Fail, Done
      <4> QED BY <1>1, <1>4, <2>3, <3>3, <4>1, NothingDone
    <3> QED BY <3>2, <3>3
  <2>4. CASE UNCHANGED <<at, failed>> /\ pc' = "sts"
    <3>1. own' = GetConfig(s_)
      <4>1. CASE ReadOwn
        BY <2>4, <4>1 DEF ReadOwn, Fail
      <4>2. CASE ReadFe \/ ReadFeFails
        <5>1. UNCHANGED own /\ c_ = "cn" /\ pc = "fe"
          BY <2>4, <4>2 DEF ReadFe, ReadFeFails, FeUnreadable, AfterFe, Fail
        <5> QED BY <5>1 DEF UpToDate, OwnIsRead
      <4>3. CASE Check
        BY <2>4, <4>3 DEF Check, Fail, Done
      <4> QED BY <4>1, <4>2, <4>3
    <3>2. own' = GetConfig(s_)'
      BY <1>1, <2>4, <3>1 DEF GetConfig, s_
    <3>3. pc' # LastService' /\ pc' \notin Kinds
      BY <2>4 DEF LastService, Kinds
    <3> QED BY <1>1, <1>4, <2>4, <3>2, <3>3 DEF UpToDate
  <2> QED BY <2>1, <2>2, <2>3, <2>4 DEF Check, ReadOwn, ReadFe, ReadFeFails, FeUnreadable
<1> QED BY <1>2, <1>3, <1>5 DEF Settling

LEMMA UpToDateStatefulSet ==
  ASSUME TypeInv, WholeInv, UpToDate, UNCHANGED <<spec, maps>>, SyncStatefulSet
  PROVE  UpToDate' /\ Keeps /\ Settling
<1>1. pc = "sts" /\ UNCHANGED <<svcs, src>> /\ src = spec /\ failed = "none" /\ own = GetConfig(s_)
  BY DEF SyncStatefulSet, UpToDate, OwnIsRead
<1>2. pc # LastService
  BY <1>1 DEF LastService
<1>3. CASE pc' = "idle" /\ UNCHANGED sts
  <2>1. Keeps
    BY <1>1, <1>3, SettledStays DEF Keeps
  <2> QED BY <1>2, <1>3, <2>1, NothingDone DEF Settling, OwnIsRead, Kinds
<1>4. CASE /\ sts' = [sts EXCEPT ![c_] = MakeStatefulset(c_, s_)]
           /\ pc' = (IF c_ = "cn" THEN "external" ELSE "search")
           /\ UNCHANGED <<at, own, fe, failed>>
  <2>1. Keeps /\ \A i \in DOMAIN Order : i = at => StatefulSetSettled(i)'
    BY <1>1, <1>4, StatefulSetSettles
  <2>2. c_' = c_ /\ own' = GetConfig(s_)' /\ at \in DOMAIN Order
    BY <1>1, <1>4 DEF c_, s_, GetConfig, TypeInv, TypeOK
  <2>3. StatefulSetSettled(at)'
    <3>1. PICK i \in DOMAIN Order : i = at
      BY <2>2
    <3>2. StatefulSetSettled(i)'
      BY <2>1, <3>1
    <3> QED BY <1>4, <3>1, <3>2 DEF StatefulSetSettled, Wanted
  <2>4. pc' # LastService' /\ pc' # "idle"
    BY <1>4, <2>2 DEF LastService
  <2>5. UpToDate'
    BY <1>1, <1>4, <2>2, <2>3, <2>4 DEF UpToDate
  <2> QED BY <1>2, <2>1, <2>5 DEF Settling
<1> QED BY <1>3, <1>4 DEF SyncStatefulSet, Fail

LEMMA UpToDateService ==
  ASSUME TypeInv, WholeInv, UpToDate, UNCHANGED <<spec, maps>>, NEW k \in Kinds, SyncService(k)
  PROVE  UpToDate' /\ Keeps /\ Settling
<1>1. /\ pc = k /\ UNCHANGED <<sts, src>> /\ src = spec /\ failed = "none" /\ own = GetConfig(s_)
      /\ StatefulSetSettled(at) /\ at \in DOMAIN Order
  BY DEF SyncService, UpToDate, OwnIsRead, Kinds, TypeInv, TypeOK
<1>2. CASE pc' = "idle" /\ failed' = "service" /\ UNCHANGED svcs
  <2>1. Keeps
    BY <1>1, <1>2, SettledStays DEF Keeps
  <2> QED BY <1>2, <2>1, NothingDone DEF Settling, OwnIsRead, Kinds
<1>3. CASE ApplyService(k) /\ UNCHANGED failed
           /\ IF k = LastService THEN Done ELSE pc' = LastService /\ UNCHANGED <<at, own, fe>>
  <2>1. Keeps /\ \A i \in DOMAIN Order : i = at => ServiceSettled(i, k)'
    BY <1>1, <1>3, ServiceSettles DEF WholeInv
  <2>2. PICK i \in DOMAIN Order : i = at
    BY <1>1
  <2>3. StatefulSetSettled(i)' /\ ServiceSettled(i, k)'
    BY <1>1, <2>1, <2>2 DEF Keeps
  <2>4. CASE k = LastService
    <3>1. pc' \in {"idle", "check"}
      BY <1>3, <2>4 DEF Done
    <3>2. UpToDate'
      BY <1>1, <1>3, <3>1, NothingDone DEF OwnIsRead, Kinds
    <3>3. \A j \in Kinds \ {k} : ServiceSettled(i, j)'
      BY <1>1, <2>1, <2>2, <2>4 DEF UpToDate, Keeps
    <3> QED BY <2>1, <2>2, <2>3, <3>2, <3>3 DEF Settling
  <2>5. CASE k # LastService
    <3>1. pc' = LastService /\ UNCHANGED <<at, own, fe, failed>>
      BY <1>3, <2>5
    <3>2. c_' = c_ /\ LastService' = LastService /\ own' = GetConfig(s_)'
      BY <1>1, <3>1 DEF c_, s_, LastService, GetConfig
    <3>3. StatefulSetSettled(at)' /\ ServiceSettled(at, k)'
      BY <2>2, <2>3, <3>1 DEF StatefulSetSettled, ServiceSettled, Wanted
    <3>4. Kinds \ {LastService} = {k} /\ pc' # "idle"
      BY <2>5, <3>1 DEF Kinds, LastService
    <3>5. UpToDate'
      BY <1>1, <3>1, <3>2, <3>3, <3>4 DEF UpToDate
    <3> QED BY <1>1, <2>1, <2>5, <3>5 DEF Settling
  <2> QED BY <2>4, <2>5
<1> QED BY <1>2, <1>3 DEF SyncService, Fail

LEMMA UpToDateFails ==
  ASSUME TypeInv, WholeInv, UpToDate, UNCHANGED <<spec, maps>>, CallFails
  PROVE  UpToDate' /\ Keeps /\ Settling
<1>1. pc' = "idle" /\ failed' = "call"
  BY DEF CallFails, Fail
<1>2. ASSUME UNCHANGED <<sts, svcs>>
      PROVE  Keeps
  BY <1>2, SettledStays DEF Keeps
<1>3. ASSUME pc = "sts", UNCHANGED svcs, sts' = [sts EXCEPT ![c_] = MakeStatefulset(c_, s_)]
      PROVE  Keeps
  <2>1. src = spec /\ own = GetConfig(s_)
    BY <1>3 DEF UpToDate, OwnIsRead
  <2> QED BY <1>3, <2>1, StatefulSetSettles
<1>4. ASSUME pc \in {"external", "search"}, ApplyService(pc), UNCHANGED sts
      PROVE  Keeps
  <2>1. src = spec /\ own = GetConfig(s_) /\ pc \in Kinds
    BY <1>4 DEF UpToDate, OwnIsRead, Kinds
  <2>2. PICK k \in Kinds : k = pc
    BY <2>1
  <2>3. ApplyService(k)
    BY <1>4, <2>2
  <2> QED BY <1>4, <2>1, <2>2, <2>3, ServiceSettles DEF WholeInv
<1>5. UpToDate'
  BY <1>1, NothingDone DEF OwnIsRead, Kinds
<1> QED BY <1>1, <1>2, <1>3, <1>4, <1>5 DEF CallFails, Settling

LEMMA UpToDateNext ==
  ASSUME TypeInv, WholeInv, UpToDate, UNCHANGED <<spec, maps>>, [Next]_vars
  PROVE  UpToDate' /\ Keeps /\ Settling
<1>1. CASE UNCHANGED <<sts, svcs, pc, at, src, own, failed>>
  <2>1. Keeps
    BY <1>1, SettledStays DEF Keeps
  <2> QED BY <1>1, <2>1, UpToDateStays DEF Settling
<1>2. ASSUME NEW c \in Comps, \/ EditSpec(c) \/ PodStarts(c) \/ PodReplaced(c)
                              \/ ProbeFails(c) \/ PodEnds(c)
      PROVE  UNCHANGED <<sts, svcs, pc, at, src, own, failed>>
  BY <1>2 DEF EditSpec, PodStarts, PodReplaced, ProbeFails, PodEnds
<1>3. ASSUME NEW m \in DOMAIN Contents, EditConfigMap(m)
      PROVE  UNCHANGED <<sts, svcs, pc, at, src, own, failed>>
  BY <1>3 DEF EditConfigMap
<1>4. CASE Begin
  <2>1. Keeps
    BY <1>4, SettledStays DEF Begin, Keeps
  <2>2. UpToDate'
    BY <1>4, NothingDone DEF Begin, user, OwnIsRead, Kinds
  <2> QED BY <1>4, <2>1, <2>2 DEF Begin, Settling, LastService
<1>5. CASE Check \/ ReadOwn \/ ReadFe \/ ReadFeFails
  BY <1>5, UpToDateReads
<1>6. CASE SyncStatefulSet
  BY <1>6, UpToDateStatefulSet
<1>7. CASE SyncService("search") \/ SyncService("external")
  <2>1. PICK k \in Kinds : SyncService(k)
    BY <1>7 DEF Kinds
  <2> QED BY <2>1, UpToDateService
<1>8. CASE CallFails
  BY <1>8, UpToDateFails
<1>9. CASE UNCHANGED vars
  BY <1>1, <1>9 DEF vars
<1> QED BY <1>1, <1>2, <1>3, <1>4, <1>5, <1>6, <1>7, <1>8, <1>9 DEF Next, Pass

\* After the last edit one pass that meets no obstacle is enough, and no later one,
\* however it ends, takes anything back.
THEOREM PassSettlesCorrect == Spec => PassSettles
<1>1. Begin => UpToDate'
  BY NothingDone DEF Begin, user, OwnIsRead, Kinds
<1>2. TypeInv /\ WholeInv /\ [Next]_vars =>
        [/\ Begin => UpToDate'
         /\ UpToDate /\ UNCHANGED <<spec, maps>> =>
              /\ UpToDate'
              /\ \A i \in DOMAIN Order :
                   \/ Settled(i)
                   \/ i = at /\ pc = LastService /\ pc' # pc /\ failed' = "none"
                   => Settled(i)']_vars
  <2> SUFFICES ASSUME TypeInv, WholeInv, [Next]_vars, UpToDate, UNCHANGED <<spec, maps>>
               PROVE  /\ UpToDate'
                      /\ \A i \in DOMAIN Order :
                           \/ Settled(i)
                           \/ i = at /\ pc = LastService /\ pc' # pc /\ failed' = "none"
                           => Settled(i)'
    BY <1>1
  <2>1. UpToDate' /\ Keeps /\ Settling
    BY UpToDateNext
  <2>2. ASSUME NEW i \in DOMAIN Order, Settled(i)
        PROVE  Settled(i)'
    BY <2>1, <2>2 DEF Settled, Keeps, Kinds
  <2>3. ASSUME NEW i \in DOMAIN Order, i = at, pc = LastService, pc' # pc, failed' = "none"
        PROVE  Settled(i)'
    <3>1. pc \notin {"idle", "check"} /\ src = spec
      BY <2>3 DEF LastService, UpToDate
    <3>2. spec[Order[i]] # 0
      BY <2>3, <3>1 DEF TypeInv, Going, c_
    <3> QED BY <2>1, <2>3, <3>2 DEF Settled, Settling, Kinds
  <2> QED BY <2>1, <2>2, <2>3
<1> QED BY <1>2, TypeInit, TypeStep, WholeInit, WholeStep, PTL DEF Spec, PassSettles
=============================================================================
