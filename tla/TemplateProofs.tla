--------------------------- MODULE TemplateProofs ---------------------------
(***************************************************************************)
(* What the translations of PodStorage and ServicePorts yield for every    *)
(* custom resource and every configuration.                                *)
(***************************************************************************)
EXTENDS PodStorage, ServicePorts, FiniteSetTheorems, SequenceTheorems, TLAPS

-----------------------------------------------------------------------------
(* Kept *)

\* The number of elements of a set of numbers up to j.
Rank(J, j) == Cardinality({k \in J : k <= j})

\* Different elements have different ranks, between 1 and the size of the set.
LEMMA RankProperties ==
  ASSUME NEW J \in SUBSET Nat, IsFiniteSet(J)
  PROVE  /\ Cardinality(J) \in Nat
         /\ \A j \in J : Rank(J, j) \in 1 .. Cardinality(J)
         /\ \A j, k \in J : Rank(J, j) = Rank(J, k) => j = k
<1> DEFINE Up(j) == {k \in J : k <= j}
<1>1. Cardinality(J) \in Nat
  BY FS_CardinalityType
<1>2. ASSUME NEW j \in J
      PROVE  IsFiniteSet(Up(j)) /\ Cardinality(Up(j)) \in 1 .. Cardinality(J)
  <2>1. Up(j) \in SUBSET J /\ j \in Up(j)
    OBVIOUS
  <2>2. IsFiniteSet(Up(j)) /\ Cardinality(Up(j)) <= Cardinality(J)
    BY <2>1, FS_Subset
  <2>3. Cardinality(Up(j)) \in Nat /\ Cardinality(Up(j)) # 0
    BY <2>1, <2>2, FS_CardinalityType, FS_EmptySet
  <2> QED BY <1>1, <2>2, <2>3
<1>3. ASSUME NEW j \in J, NEW k \in J, j < k
      PROVE  Cardinality(Up(j)) # Cardinality(Up(k))
  <2>1. \A m \in J : m <= j => m <= k
    BY <1>3
  <2>2. Up(j) \in SUBSET Up(k)
    BY <2>1
  <2>3. k \in Up(k) /\ k \notin Up(j)
    BY <1>3
  <2> QED BY <1>2, <2>2, <2>3, FS_Subset
<1>4. ASSUME NEW j \in J, NEW k \in J, Rank(J, j) = Rank(J, k) PROVE j = k
  <2>1. j \in Nat /\ k \in Nat /\ ~(j < k) /\ ~(k < j)
    BY <1>3, <1>4 DEF Rank
  <2> QED BY <2>1
<1> QED BY <1>1, <1>2, <1>4 DEF Rank

\* Counting from the smallest, every number up to the size of a finite set of
\* numbers is the rank of one of them.
LEMMA RankIsOnto ==
  ASSUME NEW J \in SUBSET Nat, IsFiniteSet(J), NEW i \in 1 .. Cardinality(J)
  PROVE  \E j \in J : Rank(J, j) = i
<1> DEFINE rank == [j \in J |-> Rank(J, j)]
<1>1. IsFiniteSet(1 .. Cardinality(J)) /\ Cardinality(1 .. Cardinality(J)) = Cardinality(J)
  <2>1. Cardinality(J) \in Nat
    BY FS_CardinalityType
  <2> QED BY <2>1, FS_Interval
<1>2. rank \in Injection(J, 1 .. Cardinality(J))
  BY RankProperties DEF Injection, IsInjective
<1>3. rank \in Surjection(J, 1 .. Cardinality(J))
  BY <1>1, <1>2, FS_Injection
<1> QED BY <1>3 DEF Surjection

\* What is kept are volumes of the list that are not of size zero.
LEMMA KeptElements ==
  ASSUME NEW S, NEW svs \in Seq(S)
  PROVE  /\ Kept(svs) \in Seq(S)
         /\ \A i \in DOMAIN Kept(svs) : \E j \in DOMAIN svs : svs[j].size # "0" /\ Kept(svs)[i] = svs[j]
         /\ \A j \in DOMAIN svs : svs[j].size # "0" => \E i \in DOMAIN Kept(svs) : Kept(svs)[i] = svs[j]
<1> DEFINE J == {j \in DOMAIN svs : svs[j].size # "0"}
           at(i) == CHOOSE j \in J : Cardinality({k \in J : k <= j}) = i
<1>1. J \in SUBSET Nat /\ IsFiniteSet(J) /\ J \subseteq DOMAIN svs
  <2>1. IsFiniteSet(1 .. Len(svs)) /\ DOMAIN svs = 1 .. Len(svs) /\ Len(svs) \in Nat
    BY FS_Interval
  <2> QED BY <2>1, FS_Subset
<1>2. Cardinality(J) \in Nat
  BY <1>1, FS_CardinalityType
<1>3. ASSUME NEW i \in 1 .. Cardinality(J) PROVE at(i) \in J /\ Rank(J, at(i)) = i
  <2> HIDE DEF J
  <2>1. \E j \in J : Rank(J, j) = i
    BY <1>1, RankIsOnto
  <2> QED BY <2>1 DEF Rank
<1>4. ASSUME NEW j \in J PROVE \E i \in 1 .. Cardinality(J) : at(i) = j
  <2> HIDE DEF J, at
  <2>1. Rank(J, j) \in 1 .. Cardinality(J)
    BY <1>1, RankProperties
  <2>2. at(Rank(J, j)) \in J /\ Rank(J, at(Rank(J, j))) = Rank(J, j)
    BY <1>3, <2>1
  <2> QED BY <1>1, <2>1, <2>2, RankProperties
<1>5. Kept(svs) = [i \in 1 .. Cardinality(J) |-> svs[at(i)]]
  BY DEF Kept
<1> HIDE DEF J, at
<1>6. Kept(svs) \in Seq(S)
  <2>1. \A i \in 1 .. Cardinality(J) : svs[at(i)] \in S
    BY <1>1, <1>3, ElementOfSeq, LenProperties
  <2>2. Kept(svs) \in [1 .. Cardinality(J) -> S]
    BY <1>5, <2>1
  <2> QED BY <1>2, <2>2, SeqDef
<1> QED BY <1>3, <1>4, <1>5, <1>6 DEF J

-----------------------------------------------------------------------------
(* The volumes of a pod *)

IsSequence(s) == s \in Seq(Range(s))

\* A volume that the operator adds by itself, and always with a source.
Added(v) == v.kind \in {"emptyDir", "configMap", "secret"} /\ v.ref # <<>>

\* q has the volumes of p and perhaps some that are added.
Extends(q, p) ==
  /\ IsSequence(q.vols)
  /\ Range(p.vols) \subseteq Range(q.vols)
  /\ \A v \in Range(q.vols) : v \in Range(p.vols) \/ Added(v)

LEMMA SequenceByIndex ==
  ASSUME NEW n \in Nat, NEW s, s = [i \in 1 .. n |-> s[i]]
  PROVE  IsSequence(s)
<1>1. s \in [1 .. n -> Range(s)]
  BY DEF Range
<1>2. s \in Seq(Range(s))
  BY <1>1, SeqDef
<1> QED BY <1>2 DEF IsSequence

LEMMA WiderSequence ==
  ASSUME NEW S, NEW T, S \subseteq T, NEW s \in Seq(S)
  PROVE  s \in Seq(T)
<1>1. s \in [1 .. Len(s) -> T] /\ Len(s) \in Nat
  OBVIOUS
<1> QED BY <1>1, SeqDef

LEMMA ExtendsTransitive ==
  ASSUME NEW p, NEW q, NEW r, Extends(q, p), Extends(r, q)
  PROVE  Extends(r, p)
BY DEF Extends

LEMMA AddExtends ==
  ASSUME NEW p, NEW vols, NEW mounts, IsSequence(p.vols), IsSequence(vols),
         \A v \in Range(vols) : Added(v)
  PROVE  Extends(Add(p, vols, mounts), p)
<1> DEFINE S == Range(p.vols) \cup Range(vols)
<1>1. p.vols \in Seq(S) /\ vols \in Seq(S)
  BY WiderSequence DEF IsSequence
<1> HIDE DEF S
<1>2. p.vols \o vols \in Seq(S)
  BY <1>1, ConcatProperties
<1>3. Range(p.vols \o vols) = Range(p.vols) \cup Range(vols)
  BY <1>1, RangeConcatenation
<1>4. IsSequence(p.vols \o vols)
  BY <1>2, <1>3 DEF S, IsSequence
<1> QED BY <1>3, <1>4 DEF Extends, Add, Pairs

LEMMA AddOneExtends ==
  ASSUME NEW p, NEW vol, NEW mounts, IsSequence(p.vols), Added(vol)
  PROVE  Extends(Add(p, <<vol>>, mounts), p)
<1>1. Range(<<vol>>) = {vol}
  BY DEF Range
<1>2. <<vol>> \in Seq({vol})
  OBVIOUS
<1>3. IsSequence(<<vol>>)
  BY <1>1, <1>2 DEF IsSequence
<1> QED BY <1>1, <1>3, AddExtends

LEMMA MountDefaultExtends ==
  ASSUME NEW p, NEW names, NEW dir, IsSequence(p.vols)
  PROVE  Extends(MountDefault(p, names, dir), p)
<1> DEFINE vol   == Volume(Plain(Last(names)), "emptyDir", <<"given">>)
           mount == Mount(Plain(Last(names)), Dir(dir), "", FALSE)
<1>1. Added(vol)
  BY DEF Volume, Added
<1>2. Extends(p, p)
  BY DEF Extends
<1>3. MountDefault(p, names, dir) \in {p, Add(p, <<vol>>, <<mount>>)}
  BY DEF MountDefault
<1> QED BY <1>1, <1>2, <1>3, AddOneExtends

LEMMA MountConfigMapInfoExtends ==
  ASSUME NEW p, NEW info, IsSequence(p.vols)
  PROVE  Extends(MountConfigMapInfo(p, info), p)
<1> DEFINE vol   == Volume(Plain(info.name), "configMap", info.name)
           mount == Mount(Plain(info.name), Dir("etc"), "", FALSE)
<1>1. info.name # <<>> => Added(vol)
  BY DEF Volume, Added
<1>2. Extends(p, p)
  BY DEF Extends
<1>3. \/ MountConfigMapInfo(p, info) = p
      \/ info.name # <<>> /\ MountConfigMapInfo(p, info) = Add(p, <<vol>>, <<mount>>)
  BY DEF MountConfigMapInfo, Complete
<1> QED BY <1>1, <1>2, <1>3, AddOneExtends

LEMMA MountObjectsExtends ==
  ASSUME NEW p, IsSequence(p.vols),
         NEW kind \in {"configMap", "secret"}, NEW infos \in Seq(MountInfo)
  PROVE  Extends(MountObjects(p, kind, infos), p)
<1> DEFINE vol(i)   == Volume(getVolumeName(infos[i]), kind, infos[i].name)
           mount(i) == Mount(getVolumeName(infos[i]), infos[i].path, infos[i].subPath, FALSE)
           vols   == [i \in DOMAIN infos |-> vol(i)]
           mounts == [i \in DOMAIN infos |-> mount(i)]
<1>1. DOMAIN infos = 1 .. Len(infos) /\ Len(infos) \in Nat
  OBVIOUS
<1>2. ASSUME NEW i \in DOMAIN infos PROVE Added(vol(i))
  <2>1. infos[i] \in MountInfo
    OBVIOUS
  <2>2. infos[i].name # <<>>
    BY <2>1 DEF MountInfo, Names
  <2> QED BY <2>2 DEF Volume, Added
<1> HIDE DEF vol, mount
<1>3. IsSequence(vols)
  BY <1>1, SequenceByIndex
<1>4. \A v \in Range(vols) : Added(v)
  BY <1>2 DEF Range
<1>5. MountObjects(p, kind, infos) = Add(p, vols, mounts)
  BY DEF MountObjects, vol, mount
<1> QED BY <1>3, <1>4, <1>5, AddExtends

\* The volumes of the custom resource that are not of size zero, and no others.
LEMMA MountStorageVolumesElements ==
  ASSUME NEW svs \in Seq(StorageVolume)
  PROVE  /\ IsSequence(MountStorageVolumes(svs).vols)
         /\ Range(MountStorageVolumes(svs).vols)
              = {StorageSource(svs[j]) : j \in {k \in DOMAIN svs : svs[k].size # "0"}}
<1> DEFINE kept == Kept(svs)
           vols == [i \in DOMAIN kept |-> StorageSource(kept[i])]
<1>1. DOMAIN kept = 1 .. Len(kept) /\ Len(kept) \in Nat
  BY KeptElements
<1>2. \A i \in DOMAIN kept : \E j \in DOMAIN svs : svs[j].size # "0" /\ kept[i] = svs[j]
  BY KeptElements
<1>3. \A j \in DOMAIN svs : svs[j].size # "0" => \E i \in DOMAIN kept : kept[i] = svs[j]
  BY KeptElements
<1>4. MountStorageVolumes(svs).vols = vols
  BY DEF MountStorageVolumes, Pairs
<1> HIDE DEF kept
<1>5. IsSequence(vols)
  BY <1>1, SequenceByIndex
<1>6. Range(vols) = {StorageSource(kept[i]) : i \in DOMAIN kept}
  BY DEF Range
<1>7. Range(vols) = {StorageSource(svs[j]) : j \in {k \in DOMAIN svs : svs[k].size # "0"}}
  BY <1>2, <1>3, <1>6
<1> QED BY <1>4, <1>5, <1>7

\* The parts of a spec that volumes are made of.
HasVolumes(s) ==
  /\ s.volumes \in Seq(StorageVolume)
  /\ s.maps \in Seq(MountInfo) /\ s.secrets \in Seq(MountInfo)

\* The volumes of a pod are those of the custom resource that are not of size
\* zero, and others that the operator adds with a source.
LEMMA PodVolumesElements ==
  ASSUME NEW c, NEW s, HasVolumes(s)
  PROVE  /\ IsSequence(PodVolumes(c, s).vols)
         /\ \A j \in DOMAIN s.volumes : s.volumes[j].size # "0" =>
              StorageSource(s.volumes[j]) \in Range(PodVolumes(c, s).vols)
         /\ \A v \in Range(PodVolumes(c, s).vols) :
              \/ Added(v)
              \/ \E j \in DOMAIN s.volumes : s.volumes[j].size # "0" /\ v = StorageSource(s.volumes[j])
<1> DEFINE storage == MountStorageVolumes(s.volumes)
           data == IF c = "cn" THEN storage ELSE MountDefault(storage, DataNames[c], "storage")
           log  == MountDefault(data, << <<c, "log">> >>, "log")
           info == MountConfigMapInfo(log, s.info)
           cms  == MountObjects(info, "configMap", s.maps)
           all  == MountObjects(cms, "secret", s.secrets)
<1>1. PodVolumes(c, s) = all
  BY DEF PodVolumes
<1>2. /\ IsSequence(storage.vols)
      /\ Range(storage.vols)
           = {StorageSource(s.volumes[j]) : j \in {k \in DOMAIN s.volumes : s.volumes[k].size # "0"}}
  BY MountStorageVolumesElements DEF HasVolumes
<1> HIDE DEF storage
<1>3. Extends(data, storage)
  <2>1. Extends(storage, storage)
    BY <1>2 DEF Extends
  <2> QED BY <1>2, <2>1, MountDefaultExtends
<1> HIDE DEF data
<1>4. Extends(log, data)
  BY <1>3, MountDefaultExtends DEF Extends
<1> HIDE DEF log
<1>5. Extends(info, log)
  BY <1>4, MountConfigMapInfoExtends DEF Extends
<1> HIDE DEF info
<1>6. Extends(cms, info)
  BY <1>5, MountObjectsExtends DEF Extends, HasVolumes
<1> HIDE DEF cms
<1>7. Extends(all, cms)
  BY <1>6, MountObjectsExtends DEF Extends, HasVolumes
<1> HIDE DEF all
<1>8. Extends(all, storage)
  BY <1>3, <1>4, <1>5, <1>6, <1>7, ExtendsTransitive
<1> QED BY <1>1, <1>2, <1>8 DEF Extends

LEMMA SourceOfStorage ==
  ASSUME NEW sv
  PROVE  /\ SpecialStorageClassName(sv) = "" =>
              /\ StorageSource(sv) = Volume(Plain(sv.name), "pvc", sv.name)
              /\ StorageSource(sv).kind = "pvc"
              /\ StorageSource(sv).ref = sv.name
         /\ SpecialStorageClassName(sv) # "" => StorageSource(sv).kind # "pvc"
<1>1. SpecialStorageClassName(sv) \in {"", "hostPath", "csi", "emptyDir"}
  BY DEF SpecialStorageClassName, Special
<1> QED BY <1>1 DEF StorageSource, Volume

\* The persistentVolumeClaim volumes of a pod are those of its StatefulSet's claim
\* templates, each by its own name: no pod waits for a claim that nobody makes
\* and no claim is made that no pod has.
THEOREM ClaimsAreMounted ==
  ASSUME NEW c, NEW s, HasVolumes(s)
  PROVE  {v \in Range(PodVolumes(c, s).vols) : v.kind = "pvc"}
           = {Volume(Plain(k.name), "pvc", k.name) : k \in PVCList(s.volumes)}
<1> DEFINE vols == Range(PodVolumes(c, s).vols)
           claimed == {j \in DOMAIN s.volumes :
                         SpecialStorageClassName(s.volumes[j]) = "" /\ s.volumes[j].size # "0"}
<1> HIDE DEF vols
<1>1. {Volume(Plain(k.name), "pvc", k.name) : k \in PVCList(s.volumes)}
        = {StorageSource(s.volumes[j]) : j \in claimed}
  <2>1. PVCList(s.volumes) = {Claim(s.volumes[j]) : j \in claimed}
    BY DEF PVCList
  <2>2. ASSUME NEW j \in claimed
        PROVE  StorageSource(s.volumes[j])
                 = Volume(Plain(Claim(s.volumes[j]).name), "pvc", Claim(s.volumes[j]).name)
    BY SourceOfStorage DEF Claim
  <2> HIDE DEF claimed
  <2> QED BY <2>1, <2>2
<1>2. ASSUME NEW j \in claimed
      PROVE  StorageSource(s.volumes[j]) \in {v \in vols : v.kind = "pvc"}
  <2>1. StorageSource(s.volumes[j]) \in vols
    BY PodVolumesElements DEF vols
  <2>2. StorageSource(s.volumes[j]).kind = "pvc"
    BY SourceOfStorage
  <2> QED BY <2>1, <2>2
<1>3. ASSUME NEW v \in vols, v.kind = "pvc"
      PROVE  \E j \in claimed : v = StorageSource(s.volumes[j])
  <2>1. ~Added(v)
    BY <1>3 DEF Added
  <2>2. PICK j \in DOMAIN s.volumes : s.volumes[j].size # "0" /\ v = StorageSource(s.volumes[j])
    BY <2>1, PodVolumesElements DEF vols
  <2>3. SpecialStorageClassName(s.volumes[j]) = ""
    BY <1>3, <2>2, SourceOfStorage
  <2> QED BY <2>2, <2>3
<1> HIDE DEF claimed
<1>4. {v \in vols : v.kind = "pvc"} = {StorageSource(s.volumes[j]) : j \in claimed}
  BY <1>2, <1>3
<1> QED BY <1>1, <1>4 DEF vols

\* The source of a validated storage volume lacks its path or driver only where
\* the word hostPath is not spelled exactly.
LEMMA ValidatedSource ==
  ASSUME NEW sv \in StorageVolume, Validate(sv), HollowVolume(StorageSource(sv))
  PROVE  Unvalidated(sv)
<1>1. sv.class \in [word : STRING, exact : BOOLEAN]
  BY DEF StorageVolume
<1>2. SpecialStorageClassName(sv) \in {"", "hostPath", "csi", "emptyDir"}
  BY DEF SpecialStorageClassName, Special
<1>3. CASE SpecialStorageClassName(sv) = ""
  BY <1>3, SourceOfStorage DEF HollowVolume
<1>4. CASE SpecialStorageClassName(sv) = "emptyDir"
  BY <1>4 DEF StorageSource, Volume, HollowVolume
<1>5. CASE SpecialStorageClassName(sv) = "csi"
  <2>1. sv.csi = Hollow
    BY <1>5 DEF StorageSource, Volume, HollowVolume
  <2>2. sv.class.word = "csi" \/ sv.csi # <<>>
    BY <1>5 DEF SpecialStorageClassName
  <2> QED BY <2>1, <2>2 DEF Validate, validateCSI
<1>6. CASE SpecialStorageClassName(sv) = "hostPath"
  <2>1. sv.hostPath = Hollow
    BY <1>6 DEF StorageSource, Volume, HollowVolume
  <2>2. sv.class # NilClass
    BY <2>1 DEF Validate
  <2>3. sv.class.word = "hostPath"
    BY <1>6, <2>2 DEF SpecialStorageClassName
  <2>4. sv.class # [word |-> "hostPath", exact |-> TRUE]
    BY <2>1 DEF Validate
  <2> QED BY <1>1, <2>1, <2>3, <2>4 DEF Unvalidated
<1> QED BY <1>2, <1>3, <1>4, <1>5, <1>6

\* Validation leaves a single way to a volume that the API server refuses for
\* its source: a hostPath without a path, by a class in another spelling.  (A
\* volume without any source is not refused: it becomes an emptyDir.)
THEOREM SourcesGiven ==
  ASSUME NEW c, NEW s, HasVolumes(s),
         \A j \in DOMAIN s.volumes : Validate(s.volumes[j]),
         NEW i \in DOMAIN PodVolumes(c, s).vols, HollowVolume(PodVolumes(c, s).vols[i])
  PROVE  \E j \in DOMAIN s.volumes : Unvalidated(s.volumes[j])
<1> DEFINE v == PodVolumes(c, s).vols[i]
<1>1. v \in Range(PodVolumes(c, s).vols) /\ ~Added(v)
  BY DEF Range, Added, HollowVolume
<1> HIDE DEF v
<1>2. PICK j \in DOMAIN s.volumes : v = StorageSource(s.volumes[j])
  BY <1>1, PodVolumesElements
<1>3. s.volumes[j] \in StorageVolume
  BY DEF HasVolumes
<1>4. HollowVolume(StorageSource(s.volumes[j]))
  BY <1>2 DEF v
<1> QED BY <1>3, <1>4, ValidatedSource

-----------------------------------------------------------------------------
(* The ConfigMaps of a pod *)

\* The i-th volume is mounted by the i-th mount.
Paired(p) == IsSequence(p.vols) /\ IsSequence(p.mounts) /\ Len(p.vols) = Len(p.mounts)

\* Which ConfigMaps are mounted where.
ConfigRefs(p) ==
  {<<p.vols[i].ref, p.mounts[i].path>> : i \in {k \in DOMAIN p.vols : p.vols[k].kind = "configMap"}}

LEMMA ConcatSequence ==
  ASSUME NEW s, NEW t, IsSequence(s), IsSequence(t)
  PROVE  /\ IsSequence(s \o t)
         /\ Len(s) \in Nat /\ Len(t) \in Nat /\ Len(s \o t) = Len(s) + Len(t)
         /\ DOMAIN s = 1 .. Len(s) /\ DOMAIN t = 1 .. Len(t) /\ DOMAIN (s \o t) = 1 .. Len(s) + Len(t)
         /\ \A i \in 1 .. Len(s) : (s \o t)[i] = s[i]
         /\ \A i \in 1 .. Len(t) : (s \o t)[Len(s) + i] = t[i]
<1> DEFINE S == Range(s) \cup Range(t)
<1>1. s \in Seq(S) /\ t \in Seq(S)
  BY WiderSequence DEF IsSequence
<1> HIDE DEF S
<1>2. s \o t \in Seq(S) /\ Len(s \o t) = Len(s) + Len(t) /\ Len(s) \in Nat /\ Len(t) \in Nat
  BY <1>1
<1>3. DOMAIN s = 1 .. Len(s) /\ DOMAIN t = 1 .. Len(t) /\ DOMAIN (s \o t) = 1 .. Len(s) + Len(t)
  BY <1>1, <1>2
<1>4. \A i \in 1 .. Len(s) : (s \o t)[i] = s[i]
  BY <1>1
<1>5. \A i \in 1 .. Len(t) : (s \o t)[Len(s) + i] = t[i]
  BY <1>1
<1>6. IsSequence(s \o t)
  BY <1>1, <1>2, RangeConcatenation DEF S, IsSequence
<1> QED BY <1>2, <1>3, <1>4, <1>5, <1>6

LEMMA AddRefs ==
  ASSUME NEW p, NEW vols, NEW mounts, Paired(p), Paired(Pairs(vols, mounts))
  PROVE  /\ Paired(Add(p, vols, mounts))
         /\ ConfigRefs(Add(p, vols, mounts)) = ConfigRefs(p) \cup ConfigRefs(Pairs(vols, mounts))
<1> DEFINE q == Add(p, vols, mounts)
           m == Len(p.vols)
           n == Len(vols)
<1>1. q.vols = p.vols \o vols /\ q.mounts = p.mounts \o mounts
  BY DEF Add, Pairs
<1>2. /\ IsSequence(p.vols) /\ IsSequence(p.mounts) /\ Len(p.mounts) = m
      /\ IsSequence(vols) /\ IsSequence(mounts) /\ Len(mounts) = n
  BY DEF Paired, Pairs
<1> HIDE DEF q, m, n
<1>3. /\ m \in Nat /\ n \in Nat /\ Len(q.vols) = m + n /\ Len(q.mounts) = m + n
      /\ IsSequence(q.vols) /\ IsSequence(q.mounts)
      /\ DOMAIN p.vols = 1 .. m /\ DOMAIN vols = 1 .. n /\ DOMAIN q.vols = 1 .. m + n
  <2>1. /\ m \in Nat /\ n \in Nat /\ IsSequence(p.vols \o vols) /\ Len(p.vols \o vols) = m + n
        /\ DOMAIN p.vols = 1 .. m /\ DOMAIN vols = 1 .. n /\ DOMAIN (p.vols \o vols) = 1 .. m + n
    BY <1>2, ConcatSequence DEF m, n
  <2>2. IsSequence(p.mounts \o mounts) /\ Len(p.mounts \o mounts) = m + n
    BY <1>2, ConcatSequence
  <2> QED BY <1>1, <2>1, <2>2
<1>4. /\ \A i \in 1 .. m : q.vols[i] = p.vols[i]
      /\ \A i \in 1 .. n : q.vols[m + i] = vols[i]
  BY <1>1, <1>2, ConcatSequence DEF m, n
<1>5. /\ \A i \in 1 .. m : q.mounts[i] = p.mounts[i]
      /\ \A i \in 1 .. n : q.mounts[m + i] = mounts[i]
  BY <1>1, <1>2, ConcatSequence
<1>6. Paired(q)
  BY <1>3 DEF Paired
<1> DEFINE r == Pairs(vols, mounts)
           Config(x, i) == x.vols[i].kind = "configMap"
           ref(x, i) == <<x.vols[i].ref, x.mounts[i].path>>
<1>7. \A i \in 1 .. m : i \in 1 .. m + n /\ (Config(q, i) <=> Config(p, i)) /\ ref(q, i) = ref(p, i)
  BY <1>3, <1>4, <1>5
<1>8. \A i \in 1 .. n : m + i \in 1 .. m + n /\ (Config(q, m + i) <=> Config(r, i)) /\ ref(q, m + i) = ref(r, i)
  BY <1>3, <1>4, <1>5 DEF Pairs
<1>9. \A i \in 1 .. m + n : i \in 1 .. m \/ \E j \in 1 .. n : i = m + j
  <2> TAKE i \in 1 .. m + n
  <2>1. CASE i > m
    <3>1. i - m \in 1 .. n /\ i = m + (i - m)
      BY <1>3, <2>1
    <3> QED BY <3>1
  <2>2. CASE ~(i > m)
    BY <1>3, <2>2
  <2> QED BY <2>1, <2>2
<1>10. /\ ConfigRefs(p) = {ref(p, i) : i \in {k \in 1 .. m : Config(p, k)}}
       /\ ConfigRefs(q) = {ref(q, i) : i \in {k \in 1 .. m + n : Config(q, k)}}
       /\ ConfigRefs(r) = {ref(r, i) : i \in {k \in 1 .. n : Config(r, k)}}
  <2>1. DOMAIN r.vols = 1 .. n
    BY <1>3 DEF Pairs
  <2> QED BY <1>3, <2>1 DEF ConfigRefs
<1> HIDE DEF r, Config, ref
<1>11. ConfigRefs(q) \subseteq ConfigRefs(p) \cup ConfigRefs(r)
  BY <1>7, <1>8, <1>9, <1>10
<1>12. ConfigRefs(p) \subseteq ConfigRefs(q)
  BY <1>7, <1>10
<1>13. ConfigRefs(r) \subseteq ConfigRefs(q)
  BY <1>8, <1>10
<1> QED BY <1>6, <1>11, <1>12, <1>13 DEF q, r

LEMMA PairOfOne ==
  ASSUME NEW vol, NEW mount
  PROVE  /\ Paired(Pairs(<<vol>>, <<mount>>))
         /\ ConfigRefs(Pairs(<<vol>>, <<mount>>))
              = IF vol.kind = "configMap" THEN {<<vol.ref, mount.path>>} ELSE {}
<1>1. ASSUME NEW x PROVE IsSequence(<<x>>)
  <2>1. Range(<<x>>) = {x} /\ <<x>> \in Seq({x})
    BY DEF Range
  <2> QED BY <2>1 DEF IsSequence
<1>2. Paired(Pairs(<<vol>>, <<mount>>))
  BY <1>1 DEF Paired, Pairs
<1>3. DOMAIN <<vol>> = {1}
  OBVIOUS
<1>4. ConfigRefs(Pairs(<<vol>>, <<mount>>))
        = {<<<<vol>>[i].ref, <<mount>>[i].path>> : i \in {k \in {1} : <<vol>>[k].kind = "configMap"}}
  BY <1>3 DEF ConfigRefs, Pairs
<1>5. <<vol>>[1] = vol /\ <<mount>>[1] = mount
  OBVIOUS
<1> QED BY <1>2, <1>4, <1>5

LEMMA AddOneRefs ==
  ASSUME NEW p, NEW vol, NEW mount, Paired(p)
  PROVE  /\ Paired(Add(p, <<vol>>, <<mount>>))
         /\ ConfigRefs(Add(p, <<vol>>, <<mount>>))
              = ConfigRefs(p) \cup IF vol.kind = "configMap" THEN {<<vol.ref, mount.path>>} ELSE {}
<1> DEFINE vols == <<vol>>
           mounts == <<mount>>
<1>1. /\ Paired(Pairs(vols, mounts))
      /\ ConfigRefs(Pairs(vols, mounts))
           = IF vol.kind = "configMap" THEN {<<vol.ref, mount.path>>} ELSE {}
  BY PairOfOne
<1> HIDE DEF vols, mounts
<1>2. /\ Paired(Add(p, vols, mounts))
      /\ ConfigRefs(Add(p, vols, mounts)) = ConfigRefs(p) \cup ConfigRefs(Pairs(vols, mounts))
  BY <1>1, AddRefs
<1> QED BY <1>1, <1>2 DEF vols, mounts

OfLength(s, n) == s = [i \in 1 .. n |-> s[i]]

\* n volumes with their mounts.
LEMMA PairsByIndex ==
  ASSUME NEW n \in Nat, NEW vols, NEW mounts, OfLength(vols, n), OfLength(mounts, n)
  PROVE  /\ Paired(Pairs(vols, mounts))
         /\ ConfigRefs(Pairs(vols, mounts))
              = {<<vols[i].ref, mounts[i].path>> : i \in {k \in 1 .. n : vols[k].kind = "configMap"}}
<1>1. IsSequence(vols) /\ IsSequence(mounts)
  BY SequenceByIndex DEF OfLength
<1>2. DOMAIN vols = 1 .. n /\ DOMAIN mounts = 1 .. n
  BY DEF OfLength
<1>3. Len(vols) = n /\ Len(mounts) = n
  BY <1>1, <1>2, LenProperties DEF IsSequence
<1> QED BY <1>1, <1>2, <1>3 DEF Paired, ConfigRefs, Pairs

LEMMA MountDefaultRefs ==
  ASSUME NEW p, NEW names, NEW dir, Paired(p)
  PROVE  Paired(MountDefault(p, names, dir)) /\ ConfigRefs(MountDefault(p, names, dir)) = ConfigRefs(p)
<1> DEFINE vol   == Volume(Plain(Last(names)), "emptyDir", <<"given">>)
           mount == Mount(Plain(Last(names)), Dir(dir), "", FALSE)
<1>1. vol.kind # "configMap"
  BY DEF Volume
<1>2. MountDefault(p, names, dir) \in {p, Add(p, <<vol>>, <<mount>>)}
  BY DEF MountDefault
<1> HIDE DEF vol, mount
<1>3. Paired(Add(p, <<vol>>, <<mount>>)) /\ ConfigRefs(Add(p, <<vol>>, <<mount>>)) = ConfigRefs(p)
  BY <1>1, AddOneRefs
<1> QED BY <1>2, <1>3

InfoRefs(info) == IF Complete(info) THEN {<<info.name, Dir("etc")>>} ELSE {}

LEMMA MountConfigMapInfoRefs ==
  ASSUME NEW p, NEW info, Paired(p)
  PROVE  /\ Paired(MountConfigMapInfo(p, info))
         /\ ConfigRefs(MountConfigMapInfo(p, info)) = ConfigRefs(p) \cup InfoRefs(info)
<1> DEFINE vol   == Volume(Plain(info.name), "configMap", info.name)
           mount == Mount(Plain(info.name), Dir("etc"), "", FALSE)
<1>1. vol.kind = "configMap" /\ vol.ref = info.name
  BY DEF Volume
<1>2. mount.path = Dir("etc")
  BY DEF Mount
<1>3. MountConfigMapInfo(p, info) = IF Complete(info) THEN Add(p, <<vol>>, <<mount>>) ELSE p
  BY DEF MountConfigMapInfo
<1> HIDE DEF vol, mount
<1>4. /\ Paired(Add(p, <<vol>>, <<mount>>))
      /\ ConfigRefs(Add(p, <<vol>>, <<mount>>)) = ConfigRefs(p) \cup {<<info.name, Dir("etc")>>}
  BY <1>1, <1>2, AddOneRefs
<1> QED BY <1>3, <1>4 DEF InfoRefs

ObjectRefs(infos) == {<<infos[i].name, infos[i].path>> : i \in DOMAIN infos}

LEMMA MountObjectsRefs ==
  ASSUME NEW p, NEW kind, NEW infos \in Seq(MountInfo), Paired(p)
  PROVE  /\ Paired(MountObjects(p, kind, infos))
         /\ ConfigRefs(MountObjects(p, kind, infos))
              = ConfigRefs(p) \cup (IF kind = "configMap" THEN ObjectRefs(infos) ELSE {})
<1> DEFINE vol(i)   == Volume(getVolumeName(infos[i]), kind, infos[i].name)
           mount(i) == Mount(getVolumeName(infos[i]), infos[i].path, infos[i].subPath, FALSE)
           vols   == [i \in DOMAIN infos |-> vol(i)]
           mounts == [i \in DOMAIN infos |-> mount(i)]
           n == Len(infos)
<1>1. DOMAIN infos = 1 .. n /\ n \in Nat
  OBVIOUS
<1>2. \A i : vol(i).kind = kind /\ vol(i).ref = infos[i].name
  BY DEF Volume
<1>3. \A i : mount(i).path = infos[i].path
  BY DEF Mount
<1>4. MountObjects(p, kind, infos) = Add(p, vols, mounts)
  BY DEF MountObjects
<1> HIDE DEF vol, mount, n
<1>5. OfLength(vols, n) /\ OfLength(mounts, n)
  BY <1>1 DEF OfLength
<1>6. \A i \in 1 .. n : vols[i] = vol(i) /\ mounts[i] = mount(i)
  BY <1>1
<1> HIDE DEF vols, mounts
<1>7. /\ Paired(Pairs(vols, mounts))
      /\ ConfigRefs(Pairs(vols, mounts))
           = {<<vols[i].ref, mounts[i].path>> : i \in {k \in 1 .. n : vols[k].kind = "configMap"}}
  BY <1>1, <1>5, PairsByIndex
<1>8. ConfigRefs(Pairs(vols, mounts)) = IF kind = "configMap" THEN ObjectRefs(infos) ELSE {}
  BY <1>1, <1>2, <1>3, <1>6, <1>7 DEF ObjectRefs
<1> QED BY <1>4, <1>7, <1>8, AddRefs DEF vols, mounts

LEMMA MountStorageVolumesRefs ==
  ASSUME NEW svs \in Seq(StorageVolume)
  PROVE  Paired(MountStorageVolumes(svs)) /\ ConfigRefs(MountStorageVolumes(svs)) = {}
<1> DEFINE kept == Kept(svs)
           n == Len(kept)
           vols == [i \in DOMAIN kept |-> StorageSource(kept[i])]
           mount(i) == Mount(Plain(kept[i].name), kept[i].path, "", kept[i].readOnly)
           mounts == [i \in DOMAIN kept |-> mount(i)]
<1>1. DOMAIN kept = 1 .. n /\ n \in Nat
  BY KeptElements
<1>2. \A sv : StorageSource(sv).kind # "configMap"
  <2> TAKE sv
  <2>1. SpecialStorageClassName(sv) \in {"", "hostPath", "csi", "emptyDir"}
    BY DEF SpecialStorageClassName, Special
  <2> QED BY <2>1 DEF StorageSource, Volume
<1>3. MountStorageVolumes(svs) = Pairs(vols, mounts)
  BY DEF MountStorageVolumes
<1> HIDE DEF kept, n, mount
<1>4. OfLength(vols, n) /\ OfLength(mounts, n)
  BY <1>1 DEF OfLength
<1>5. \A i \in 1 .. n : vols[i].kind # "configMap"
  BY <1>1, <1>2
<1> HIDE DEF vols, mounts
<1>6. /\ Paired(Pairs(vols, mounts))
      /\ ConfigRefs(Pairs(vols, mounts))
           = {<<vols[i].ref, mounts[i].path>> : i \in {k \in 1 .. n : vols[k].kind = "configMap"}}
  BY <1>1, <1>4, PairsByIndex
<1>7. ConfigRefs(Pairs(vols, mounts)) = {}
  BY <1>5, <1>6
<1> QED BY <1>3, <1>6, <1>7 DEF vols, mounts

\* The ConfigMaps that a pod mounts are those of configMapInfo and of
\* configMaps, each at its path, whatever else is mounted.
THEOREM ConfigMapsMounted ==
  ASSUME NEW c, NEW s, HasVolumes(s)
  PROVE  /\ Paired(PodVolumes(c, s))
         /\ ConfigRefs(PodVolumes(c, s)) = InfoRefs(s.info) \cup ObjectRefs(s.maps)
<1> DEFINE storage == MountStorageVolumes(s.volumes)
           data == IF c = "cn" THEN storage ELSE MountDefault(storage, DataNames[c], "storage")
           log  == MountDefault(data, << <<c, "log">> >>, "log")
           info == MountConfigMapInfo(log, s.info)
           cms  == MountObjects(info, "configMap", s.maps)
           all  == MountObjects(cms, "secret", s.secrets)
<1>1. PodVolumes(c, s) = all
  BY DEF PodVolumes
<1>2. Paired(storage) /\ ConfigRefs(storage) = {}
  BY MountStorageVolumesRefs DEF HasVolumes
<1> HIDE DEF storage
<1>3. Paired(data) /\ ConfigRefs(data) = {}
  BY <1>2, MountDefaultRefs
<1> HIDE DEF data
<1>4. Paired(log) /\ ConfigRefs(log) = {}
  BY <1>3, MountDefaultRefs
<1> HIDE DEF log
<1>5. Paired(info) /\ ConfigRefs(info) = InfoRefs(s.info)
  BY <1>4, MountConfigMapInfoRefs
<1> HIDE DEF info
<1>6. Paired(cms) /\ ConfigRefs(cms) = InfoRefs(s.info) \cup ObjectRefs(s.maps)
  BY <1>5, MountObjectsRefs DEF HasVolumes
<1> HIDE DEF cms
<1>7. Paired(all) /\ ConfigRefs(all) = ConfigRefs(cms)
  BY <1>6, MountObjectsRefs DEF HasVolumes
<1> QED BY <1>1, <1>6, <1>7

-----------------------------------------------------------------------------
(* Ports and services *)

LEMMA MinIsElement ==
  ASSUME NEW J \in SUBSET Nat, IsFiniteSet(J), J # {}
  PROVE  Min(J) \in J /\ \A j \in J : Min(J) <= j
<1>1. 1 \in 1 .. Cardinality(J)
  BY FS_CardinalityType, FS_EmptySet
<1>2. PICK m \in J : Rank(J, m) = 1
  BY <1>1, RankIsOnto
<1>3. ASSUME NEW j \in J PROVE m <= j
  <2>1. SUFFICES ASSUME j < m PROVE FALSE
    OBVIOUS
  <2> DEFINE T == {k \in J : k <= m}
  <2>2. IsFiniteSet(T) /\ IsFiniteSet({j, m}) /\ {j, m} \subseteq T
    BY <2>1, FS_Subset
  <2>3. Cardinality({j, m}) = 2
    <3>1. IsFiniteSet({m}) /\ Cardinality({m}) = 1
      BY FS_Singleton
    <3>2. {j, m} = {m} \cup {j} /\ j \notin {m}
      BY <2>1
    <3> QED BY <3>1, <3>2, FS_AddElement
  <2>4. Cardinality({j, m}) <= Cardinality(T)
    BY <2>2, FS_Subset
  <2> QED BY <1>2, <2>3, <2>4 DEF Rank
<1> QED BY <1>2, <1>3 DEF Min

LEMMA MaxIsElement ==
  ASSUME NEW J \in SUBSET Nat, IsFiniteSet(J), J # {}
  PROVE  Max(J) \in J
<1>1. Cardinality(J) \in 1 .. Cardinality(J)
  BY FS_CardinalityType, FS_EmptySet
<1>2. PICK m \in J : Rank(J, m) = Cardinality(J)
  BY <1>1, RankIsOnto
<1>3. {k \in J : k <= m} = J
  BY <1>2, FS_Subset DEF Rank
<1>4. \A j \in J : m >= j
  BY <1>3
<1> QED BY <1>4 DEF Max

LEMMA FirstProperties ==
  ASSUME NEW S, NEW entries \in Seq(S), NEW matching \in SUBSET DOMAIN entries
  PROVE  /\ matching = {} => First(entries, matching) = NoEntry
         /\ matching # {} => \E i \in matching : First(entries, matching) = entries[i]
<1>1. IsFiniteSet(1 .. Len(entries)) /\ DOMAIN entries = 1 .. Len(entries) /\ Len(entries) \in Nat
  BY FS_Interval
<1>2. matching \in SUBSET Nat /\ IsFiniteSet(matching)
  BY <1>1, FS_Subset
<1>3. matching # {} => Min(matching) \in matching
  BY <1>2, MinIsElement
<1> QED BY <1>3 DEF First

\* The port of a service is made without an entry, or from this one.
ByDefault(merged, number) == merged.port = number /\ merged.node = 0
ByEntry(merged, entry, number) ==
  /\ merged.port = IF entry.port # 0 THEN entry.port ELSE number
  /\ merged.node = entry.nodePort

\* A port of a service has the numbers of an entry that stands for it, or its
\* own number and no nodePort.
LEMMA MergedPort ==
  ASSUME NEW entries \in Seq(ServicePort), NEW p, NEW number
  PROVE  \/ ByDefault(mergePort(entries, p, number), number)
         \/ \E i \in DOMAIN entries :
              /\ StandsFor(entries[i], p, number)
              /\ ByEntry(mergePort(entries, p, number), entries[i], number)
<1> DEFINE ports == {i \in DOMAIN entries : entries[i].containerPort = number}
           names == {i \in DOMAIN entries : entries[i].name = p}
           byPort == First(entries, ports)
           byName == First(entries, names)
           entry  == IF byPort # NoEntry THEN byPort ELSE byName
           merged == mergePort(entries, p, number)
<1>1. \/ ports = {} /\ byPort = NoEntry
      \/ \E i \in ports : byPort = entries[i]
  BY FirstProperties
<1>2. \/ names = {} /\ byName = NoEntry
      \/ \E i \in names : byName = entries[i]
  BY FirstProperties
<1>3. /\ merged.port = IF entry.port # 0 THEN entry.port ELSE number
      /\ merged.node = entry.nodePort
  BY DEF mergePort
<1> HIDE DEF byPort, byName, merged
<1>4. \/ entry = NoEntry
      \/ \E i \in ports \cup names : entry = entries[i]
  BY <1>1, <1>2
<1>5. \A i \in ports \cup names : i \in DOMAIN entries /\ StandsFor(entries[i], p, number)
  BY DEF StandsFor
<1> HIDE DEF entry
<1>6. CASE entry = NoEntry
  BY <1>3, <1>6 DEF NoEntry, merged, ByDefault
<1>7. CASE \E i \in ports \cup names : entry = entries[i]
  BY <1>3, <1>5, <1>7 DEF merged, ByEntry
<1> QED BY <1>4, <1>6, <1>7

LEMMA MergedWithoutEntries ==
  ASSUME NEW p, NEW number
  PROVE  ByDefault(mergePort(<<>>, p, number), number)
<1> DEFINE entries == <<>>
<1>1. entries \in Seq(ServicePort) /\ DOMAIN entries = {}
  OBVIOUS
<1> HIDE DEF entries
<1>2. ByDefault(mergePort(entries, p, number), number)
  BY <1>1, MergedPort
<1> QED BY <1>2 DEF entries

\* The keys of ports that have a number when the configuration gives none.
Numbered ==
  {"http_port", "rpc_port", "query_port", "edit_log_port", "thrift_port", "be_port",
   "webserver_port", "heartbeat_service_port", "brpc_port"}

LEMMA PortIsNotZero ==
  ASSUME NEW config, NEW key \in Numbered
  PROVE  GetPort(config, key) # 0
<1>1. DefMap[key] # 0
  BY DEF DefMap, Numbered
<1> QED BY <1>1 DEF GetPort

HasName(p) == p # ""

LEMMA ContainerKeysNumbered ==
  ASSUME NEW c \in {"fe", "be", "cn"}, NEW p \in DOMAIN ContainerKeys[c]
  PROVE  HasName(p) /\ ContainerKeys[c][p] \in Numbered
<1>1. CASE c = "fe"
  <2>1. ContainerKeys[c] = [http |-> "http_port", rpc |-> "rpc_port", query |-> "query_port"]
    BY <1>1 DEF ContainerKeys
  <2>2. p \in {"http", "rpc", "query"}
    BY <2>1
  <2>3. HasName(p)
    BY <2>2 DEF HasName
  <2>4. ContainerKeys[c][p] \in Numbered
    BY <2>1, <2>2 DEF Numbered
  <2> QED BY <2>3, <2>4
<1>2. CASE c = "be"
  <2>1. ContainerKeys[c] = [be |-> "be_port", webserver |-> "webserver_port", heartbeat |-> "heartbeat_service_port", brpc |-> "brpc_port"]
    BY <1>2 DEF ContainerKeys
  <2>2. p \in {"be", "webserver", "heartbeat", "brpc"}
    BY <2>1
  <2>3. HasName(p)
    BY <2>2 DEF HasName
  <2>4. ContainerKeys[c][p] \in Numbered
    BY <2>1, <2>2 DEF Numbered
  <2> QED BY <2>3, <2>4
<1>3. CASE c = "cn"
  <2>1. ContainerKeys[c] = [thrift |-> "thrift_port", webserver |-> "webserver_port", heartbeat |-> "heartbeat_service_port", brpc |-> "brpc_port"]
    BY <1>3 DEF ContainerKeys
  <2>2. p \in {"thrift", "webserver", "heartbeat", "brpc"}
    BY <2>1
  <2>3. HasName(p)
    BY <2>2 DEF HasName
  <2>4. ContainerKeys[c][p] \in Numbered
    BY <2>1, <2>2 DEF Numbered
  <2> QED BY <2>3, <2>4
<1> QED BY <1>1, <1>2, <1>3

\* Every port of a service has a name and a number.
LEMMA KeysOfServices ==
  ASSUME NEW c \in {"fe", "be", "cn"}, NEW config, NEW p \in DOMAIN ServiceKeys(c, config)
  PROVE  HasName(p) /\ GetPort(config, ServiceKeys(c, config)[p]) # 0
<1>1. CASE c # "fe"
  <2>1. ServiceKeys(c, config) = ContainerKeys[c]
    BY <1>1 DEF ServiceKeys
  <2> QED BY <2>1, ContainerKeysNumbered, PortIsNotZero
<1>2. CASE c = "fe"
  <2>1. /\ p \in DOMAIN FeServiceKeys
        /\ p = "arrow_flight" => GetPort(config, "arrow_flight_port") # 0
        /\ ServiceKeys(c, config)[p] = FeServiceKeys[p]
    BY <1>2 DEF ServiceKeys
  <2>2. p \in {"http", "rpc", "query", "edit_log", "arrow_flight"}
    BY <2>1 DEF FeServiceKeys
  <2>3. HasName(p)
    BY <2>2 DEF HasName
  <2>4. p # "arrow_flight" => FeServiceKeys[p] \in Numbered
    BY <2>2 DEF FeServiceKeys, Numbered
  <2>5. FeServiceKeys["arrow_flight"] = "arrow_flight_port"
    BY DEF FeServiceKeys
  <2> QED BY <2>1, <2>3, <2>4, <2>5, PortIsNotZero
<1> QED BY <1>1, <1>2

\* The ports of the operator's services have numbers in common only where one
\* entry of service.ports names a port and gives a container port: two ports may
\* then take their numbers from it.
LEMMA ClashingPorts ==
  ASSUME NEW c \in {"fe", "be", "cn"}, NEW service \in Service, NEW config,
         PortsApart(c, config), EntriesApart(c, service.entries, config),
         PortsClash(BuildExternalService(c, service, config))
  PROVE  \E i \in DOMAIN service.entries : StandsForTwo(service.entries[i])
<1> DEFINE entries == service.entries
           keys == ServiceKeys(c, config)
           number(p) == GetPort(config, keys[p])
           svc == BuildExternalService(c, service, config)
<1>1. entries \in Seq(ServicePort)
  BY DEF Service
<1>2. \A p \in DOMAIN keys : HasName(p) /\ number(p) # 0
  BY KeysOfServices
<1>4. /\ DOMAIN svc.ports = DOMAIN keys
      /\ \A p \in DOMAIN keys : svc.ports[p] = mergePort(entries, p, number(p))
  BY DEF BuildExternalService
<1>5. PICK p \in DOMAIN keys, q \in DOMAIN keys :
        /\ p # q
        /\ \/ svc.ports[p].port = svc.ports[q].port
           \/ svc.ports[p].node = svc.ports[q].node /\ svc.ports[p].node # 0
  BY <1>4 DEF PortsClash
<1>6. number(p) # number(q)
  BY <1>5 DEF PortsApart
<1>7. ASSUME NEW i \in DOMAIN entries,
             StandsFor(entries[i], p, number(p)), StandsFor(entries[i], q, number(q))
      PROVE  StandsForTwo(entries[i])
  BY <1>2, <1>5, <1>6, <1>7, Zenon DEF StandsFor, StandsForTwo, HasName
<1>8. /\ \A i, j \in DOMAIN entries : i # j =>
            /\ entries[i].port # 0 => entries[i].port # entries[j].port
            /\ entries[i].nodePort # 0 => entries[i].nodePort # entries[j].nodePort
      /\ \A i \in DOMAIN entries, r \in DOMAIN keys :
            entries[i].port = number(r) => StandsFor(entries[i], r, number(r))
  BY DEF EntriesApart
<1> DEFINE Plainly(r) == ByDefault(svc.ports[r], number(r))
           By(r, i) == StandsFor(entries[i], r, number(r)) /\ ByEntry(svc.ports[r], entries[i], number(r))
<1>9. \A r \in DOMAIN keys : Plainly(r) \/ \E i \in DOMAIN entries : By(r, i)
  <2> HIDE DEF entries, keys, number, svc
  <2> QED BY <1>1, <1>2, <1>4, MergedPort
<1> USE DEF ByDefault, ByEntry
<1> HIDE DEF entries, keys, number, svc
<1>10. CASE Plainly(p) /\ Plainly(q)
  BY <1>5, <1>6, <1>10
<1>11. ASSUME NEW i \in DOMAIN entries, By(p, i), Plainly(q) PROVE StandsForTwo(entries[i])
  BY <1>5, <1>6, <1>7, <1>8, <1>11
<1>12. ASSUME NEW i \in DOMAIN entries, By(q, i), Plainly(p) PROVE StandsForTwo(entries[i])
  BY <1>5, <1>6, <1>7, <1>8, <1>12
<1>13. ASSUME NEW i \in DOMAIN entries, NEW j \in DOMAIN entries, By(p, i), By(q, j)
       PROVE  StandsForTwo(entries[i]) \/ StandsForTwo(entries[j])
  <2>1. CASE i = j
    BY <1>7, <1>13, <2>1
  <2>2. CASE i # j /\ svc.ports[p].node = svc.ports[q].node /\ svc.ports[p].node # 0
    BY <1>8, <1>13, <2>2
  <2>3. CASE i # j /\ svc.ports[p].port = svc.ports[q].port
    <3>1. CASE entries[i].port # 0 /\ entries[j].port # 0
      BY <1>8, <1>13, <2>3, <3>1
    <3>2. CASE entries[i].port # 0 /\ entries[j].port = 0
      <4>1. entries[i].port = number(q)
        BY <1>13, <2>3, <3>2
      <4>2. StandsFor(entries[i], q, number(q))
        BY <1>8, <4>1
      <4> QED BY <1>7, <1>13, <4>2
    <3>3. CASE entries[i].port = 0 /\ entries[j].port # 0
      <4>1. entries[j].port = number(p)
        BY <1>13, <2>3, <3>3
      <4>2. StandsFor(entries[j], p, number(p))
        BY <1>8, <4>1
      <4> QED BY <1>7, <1>13, <4>2
    <3>4. CASE entries[i].port = 0 /\ entries[j].port = 0
      BY <1>6, <1>13, <2>3, <3>4
    <3> QED BY <3>1, <3>2, <3>3, <3>4
  <2> QED BY <1>5, <2>1, <2>2, <2>3
<1> QED BY <1>9, <1>10, <1>11, <1>12, <1>13 DEF entries

\* A port of a service has a nodePort only if an entry gives one.
LEMMA NodePortIsGiven ==
  ASSUME NEW c \in {"fe", "be", "cn"}, NEW service \in Service, NEW config,
         NEW p \in DOMAIN BuildExternalService(c, service, config).ports,
         BuildExternalService(c, service, config).ports[p].node # 0
  PROVE  \E i \in DOMAIN service.entries : service.entries[i].nodePort # 0
<1> DEFINE number == GetPort(config, ServiceKeys(c, config)[p])
<1>1. service.entries \in Seq(ServicePort)
  BY DEF Service
<1>2. BuildExternalService(c, service, config).ports[p] = mergePort(service.entries, p, number)
  BY DEF BuildExternalService
<1> HIDE DEF number
<1> QED BY <1>1, <1>2, MergedPort DEF ByDefault, ByEntry

\* The operator makes a service that the API server refuses, for numbers given
\* twice or for what the type does not allow, only where one entry of
\* service.ports can stand for two ports, or where a nodePort, source ranges or
\* the type ExternalName are given that no validation looks at.
THEOREM ServiceAccepted ==
  ASSUME NEW c \in {"fe", "be", "cn"}, NEW service \in Service, NEW config,
         PortsApart(c, config), EntriesApart(c, service.entries, config),
         ServiceRefused(BuildExternalService(c, service, config))
  PROVE  \/ Misplaced(service)
         \/ \E i \in DOMAIN service.entries : StandsForTwo(service.entries[i])
<1> DEFINE svc == BuildExternalService(c, service, config)
<1>1. /\ svc.type = ServiceType(service)
      /\ svc.type \notin Exposed => svc.policy = ""
      /\ svc.ranges = service.ranges
  BY DEF BuildExternalService
<1>2. /\ svc.type = "ExternalName" => service.type = "ExternalName"
      /\ svc.type # "LoadBalancer" => service.type # "LoadBalancer"
      /\ svc.type \notin Exposed => service.type \notin Exposed
  BY <1>1 DEF ServiceType, Exposed
<1>3. CASE PortsClash(svc)
  BY <1>3, ClashingPorts
<1>4. CASE svc.type \notin Exposed /\ \E p \in DOMAIN svc.ports : svc.ports[p].node # 0
  BY <1>2, <1>4, NodePortIsGiven DEF Misplaced
<1>5. CASE svc.type # "LoadBalancer" /\ svc.ranges # <<>>
  BY <1>1, <1>2, <1>5 DEF Misplaced
<1>6. CASE svc.type = "ExternalName"
  BY <1>2, <1>6 DEF Misplaced
<1> HIDE DEF svc
<1>7. \/ PortsClash(svc)
      \/ svc.type \notin Exposed /\ \E p \in DOMAIN svc.ports : svc.ports[p].node # 0
      \/ svc.type # "LoadBalancer" /\ svc.ranges # <<>>
      \/ svc.type = "ExternalName"
  BY <1>1 DEF ServiceRefused, svc
<1> QED BY <1>3, <1>4, <1>5, <1>6, <1>7

\* The search service is never refused.
THEOREM SearchServiceAccepted ==
  ASSUME NEW c \in {"fe", "be", "cn"}, NEW config, PortsApart(c, config)
  PROVE  ~ServiceRefused(SearchService(c, config))
<1> DEFINE key  == IF c = "fe" THEN "query_port" ELSE "heartbeat_service_port"
           more == IF c = "fe" \/ GetPort(config, "arrow_flight_port") = 0 THEN {} ELSE {"arrow_flight"}
           keys == {"main"} \cup more
           number(p) == GetPort(config, IF p \in more THEN "arrow_flight_port" ELSE key)
           svc  == SearchService(c, config)
<1>1. /\ svc.policy = "" /\ svc.ranges = <<>> /\ svc.type = "None"
      /\ DOMAIN svc.ports = keys
      /\ \A p \in keys : svc.ports[p] = mergePort(<<>>, p, number(p))
  BY DEF SearchService
<1>2. keys = {"main"} \cup more /\ more \subseteq {"arrow_flight"}
  OBVIOUS
<1>3. number("main") = GetPort(config, key)
  BY <1>2
<1>4. "arrow_flight" \in more =>
        /\ c # "fe"
        /\ number("arrow_flight") = GetPort(config, "arrow_flight_port")
  OBVIOUS
<1>5. "arrow_flight" \in more => number("arrow_flight") # number("main")
  BY <1>3, <1>4 DEF PortsApart
<1> HIDE DEF keys, number, svc, more
<1>6. \A p \in keys : svc.ports[p].port = number(p) /\ svc.ports[p].node = 0
  <2> SUFFICES ASSUME NEW p \in keys
               PROVE  svc.ports[p].port = number(p) /\ svc.ports[p].node = 0
    OBVIOUS
  <2>1. svc.ports[p] = mergePort(<<>>, p, number(p))
    BY <1>1
  <2>2. ByDefault(mergePort(<<>>, p, number(p)), number(p))
    BY MergedWithoutEntries
  <2> QED BY <2>1, <2>2 DEF ByDefault
<1>7. \A p, q \in keys : p # q => number(p) # number(q)
  BY <1>2, <1>5
<1>8. ~ServiceRefused(svc)
  <2>1. /\ \A p \in DOMAIN svc.ports : svc.ports[p].node = 0
        /\ \A p, q \in DOMAIN svc.ports : p # q => svc.ports[p].port # svc.ports[q].port
    <3> DEFINE ports == svc.ports
    <3>1. DOMAIN ports = keys
      BY <1>1
    <3>2. \A p \in keys : ports[p].port = number(p) /\ ports[p].node = 0
      BY <1>6
    <3> HIDE DEF ports
    <3>3. /\ \A p \in DOMAIN ports : ports[p].node = 0
          /\ \A p, q \in DOMAIN ports : p # q => ports[p].port # ports[q].port
      BY <1>7, <3>1, <3>2
    <3> QED BY <3>3 DEF ports
  <2> QED BY <1>1, <2>1 DEF ServiceRefused, PortsClash
<1> QED BY <1>8 DEF svc

-----------------------------------------------------------------------------
(* The stop command *)

\* A release line never loses the graceful stop: if a patch of it is stopped
\* gracefully, so is every later one.
THEOREM GracefulUpgrade ==
  ASSUME NEW c \in {"fe", "be", "cn"}, NEW v \in Seq(Nat), NEW w \in Seq(Nat),
         SameLine(v, w), v[3] \in Nat, w[3] \in Nat, v[3] <= w[3], GracefulStop(c, v)
  PROVE  GracefulStop(c, w)
<1>1. SUFFICES ASSUME c # "fe", IsLowerThanAny(w, Thresholds[c])
               PROVE  IsLowerThanAny(v, Thresholds[c])
  BY DEF GracefulStop
<1>2. PICK t \in Thresholds[c] : SameLine(w, t) /\ w[3] < t[3]
  BY <1>1 DEF IsLowerThanAny
<1>3. t[3] \in Nat
  <2>1. \E x, y, z \in Nat : t = <<x, y, z>>
    <3>1. CASE c = "be"
      <4>1. Thresholds[c] = {<<3, 3, 19>>, <<3, 4, 8>>, <<3, 5, 6>>}
        BY <3>1 DEF Thresholds
      <4> QED BY <4>1
    <3>2. CASE c = "cn"
      <4>1. Thresholds[c] = {<<3, 3, 17>>, <<3, 4, 6>>, <<3, 5, 2>>}
        BY <3>2 DEF Thresholds
      <4> QED BY <4>1
    <3> QED BY <1>1, <3>1, <3>2
  <2> QED BY <2>1
<1>4. SameLine(v, t)
  BY <1>2 DEF SameLine
<1>5. v[3] < t[3]
  BY <1>2, <1>3
<1> QED BY <1>4, <1>5 DEF IsLowerThanAny
=============================================================================
