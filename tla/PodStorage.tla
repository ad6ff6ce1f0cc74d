------------------------------ MODULE PodStorage ------------------------------
(***************************************************************************)
(* The volumes, mounts and claims of a component's StatefulSet, and the    *)
(* ConfigMap its configuration is read from: pure translations of the      *)
(* custom resource.                                                        *)
(*                                                                         *)
(* A name is the sequence of its parts between hyphens, <<"be", "data">>.  *)
(* A mount path is the directory of StarRocks it contains and what follows *)
(* it; directories are relative to STARROCKS_ROOT.  A pointer is <<>> when *)
(* nil.  The class word is kept apart from whether it is spelled exactly.  *)
(***************************************************************************)
EXTENDS Integers, Sequences, FiniteSets, SequencesExt

CONSTANT VolumeNameWithHash \* the operator's flag of that name

Path(dir, rest) == [dir |-> dir, rest |-> rest]
Dir(dir) == Path(dir, "")

\* The file of a component's configuration, fe.conf and so on, in that directory.
ConfigFile == "conf-file"

\* The special storage classes, by which no claim is made.
Special == {"emptyDir", "hostPath", "csi"}
NilClass == [word |-> "", exact |-> TRUE]

-----------------------------------------------------------------------------
(* What users write *)

Names == Seq(STRING) \ {<<>>}
Paths == [dir : STRING, rest : STRING]

StorageVolume ==
  [name : Names, class : [word : STRING, exact : BOOLEAN], size : STRING,
   hostPath : Seq(STRING), csi : Seq(STRING), path : Paths, readOnly : BOOLEAN]

ConfigMapInfo == [name : Seq(STRING), key : STRING]

\* A reference to a ConfigMap or Secret.
MountInfo == [name : Names, path : Paths, subPath : STRING]

\* A source that lacks its path or driver.
Hollow == <<"">>

validateCSI(sv) ==
  \/ sv.class.word # "csi" /\ sv.csi = <<>>
  \/ /\ sv.csi = <<>> \/ sv.hostPath = <<>>
     /\ sv.class.word = "csi" \/ sv.class = NilClass
     /\ sv.csi \notin {<<>>, Hollow}

\* StorageVolume.Validate; here alone the word hostPath must be spelled exactly.
Validate(sv) ==
  /\ validateCSI(sv)
  /\ sv.class = [word |-> "hostPath", exact |-> TRUE] => sv.hostPath \notin {<<>>, Hollow}
  /\ sv.class = NilClass => sv.hostPath # Hollow

\* A hostPath without a path that Validate lets pass, for the spelling of its class.
Unvalidated(sv) == sv.class = [word |-> "hostPath", exact |-> FALSE] /\ sv.hostPath = Hollow

SpecialStorageClassName(sv) ==
  IF sv.class # NilClass THEN IF sv.class.word \in Special THEN sv.class.word ELSE ""
  ELSE IF sv.hostPath # <<>> THEN "hostPath"
  ELSE IF sv.csi # <<>> THEN "csi" ELSE ""

Claim(sv) == [name |-> sv.name, class |-> sv.class, size |-> sv.size]

PVCList(svs) ==
  {Claim(svs[i]) : i \in {j \in DOMAIN svs :
     SpecialStorageClassName(svs[j]) = "" /\ svs[j].size # "0"}}

-----------------------------------------------------------------------------
(* Volumes and mounts *)

NoMountInfo == [name |-> <<>>, path |-> Path("", ""), subPath |-> ""]
Plain(name) == [parts |-> name, hash |-> NoMountInfo]

\* A reference is <<>> for a pointer that is nil: the API server takes a volume
\* without a source for an emptyDir.
Volume(name, kind, ref)             == [name |-> name, kind |-> kind, ref |-> ref]
Mount(name, path, subPath, readOnly) ==
  [name |-> name, path |-> path, subPath |-> subPath, readOnly |-> readOnly]

\* A volume whose source lacks its path or driver; one without a source is an
\* emptyDir.
HollowVolume(v) == v.kind \in {"hostPath", "csi"} /\ v.ref = Hollow

StorageSource(sv) ==
  LET kind == SpecialStorageClassName(sv)
  IN CASE kind = "hostPath" -> Volume(Plain(sv.name), kind, sv.hostPath)
       [] kind = "csi"      -> Volume(Plain(sv.name), kind, sv.csi)
       [] kind = "emptyDir" -> Volume(Plain(sv.name), kind, <<"given">>)
       [] OTHER             -> Volume(Plain(sv.name), "pvc", sv.name)

\* Volumes and mounts are added in pairs.
Pairs(vols, mounts) == [vols |-> vols, mounts |-> mounts]
Add(p, vols, mounts) == Pairs(p.vols \o vols, p.mounts \o mounts)

\* The volumes that are not of size zero, in their order: the i-th is the one
\* up to which there are i of them.
Kept(svs) ==
  LET J == {j \in DOMAIN svs : svs[j].size # "0"}
  IN [i \in 1 .. Cardinality(J) |-> svs[CHOOSE j \in J : Cardinality({k \in J : k <= j}) = i]]

MountStorageVolumes(svs) ==
  LET kept == Kept(svs)
  IN Pairs([i \in DOMAIN kept |-> StorageSource(kept[i])],
           [i \in DOMAIN kept |->
              Mount(Plain(kept[i].name), kept[i].path, "", kept[i].readOnly)])

HasVolume(p, name) ==
  \E i \in DOMAIN p.vols :
    LET parts == p.vols[i].name.parts
    IN parts = name \/ (Len(parts) > 1 /\ Len(name) > 1 /\ Last(parts) = Last(name))

HasMountPath(p, dir) == \E i \in DOMAIN p.mounts : p.mounts[i].path.dir = dir

\* An emptyDir of the last of the names, unless the user has such a volume.
MountDefault(p, names, dir) ==
  IF HasMountPath(p, dir) \/ \E i \in DOMAIN names : HasVolume(p, names[i]) THEN p
  ELSE Add(p, <<Volume(Plain(Last(names)), "emptyDir", <<"given">>)>>,
              <<Mount(Plain(Last(names)), Dir(dir), "", FALSE)>>)

Given(info)    == info.name # <<>> \/ info.key # ""
Complete(info) == info.name # <<>> /\ info.key # ""

MountConfigMapInfo(p, info) ==
  IF ~Complete(info) THEN p
  ELSE Add(p, <<Volume(Plain(info.name), "configMap", info.name)>>,
              <<Mount(Plain(info.name), Dir("etc"), "", FALSE)>>)

getVolumeName(info) ==
  [parts |-> info.name, hash |-> IF VolumeNameWithHash THEN info ELSE NoMountInfo]

\* MountConfigMaps, MountSecrets
MountObjects(p, kind, infos) ==
  Add(p, [i \in DOMAIN infos |-> Volume(getVolumeName(infos[i]), kind, infos[i].name)],
         [i \in DOMAIN infos |->
            Mount(getVolumeName(infos[i]), infos[i].path, infos[i].subPath, FALSE)])

\* mutant: the names of volumes are not looked at
CheckVolumesMutant(p) == IsInjective([i \in DOMAIN p.mounts |-> p.mounts[i].path])

\* No mount path and no volume name twice.
CheckVolumes(p) ==
  /\ IsInjective([i \in DOMAIN p.mounts |-> p.mounts[i].path])
  /\ IsInjective([i \in DOMAIN p.vols |-> p.vols[i].name])

\* The names by which a component has a volume for its data.
DataNames == [fe |-> << <<"fe", "meta">> >>, be |-> << <<"be", "storage">>, <<"be", "data">> >>]

\* The volumes and mounts of a component's pod; CN needs none for data.
PodVolumes(c, s) ==
  LET storage == MountStorageVolumes(s.volumes)
      data    == IF c = "cn" THEN storage ELSE MountDefault(storage, DataNames[c], "storage")
      log     == MountDefault(data, << <<c, "log">> >>, "log")
      info    == MountConfigMapInfo(log, s.info)
  IN MountObjects(MountObjects(info, "configMap", s.maps), "secret", s.secrets)

-----------------------------------------------------------------------------
(* The ConfigMap with the configuration *)

\* References to the file itself, and to a directory with it.
ConfigFiles(s) ==
  {i \in DOMAIN s.maps : s.maps[i].path = Path("conf", ConfigFile) /\ s.maps[i].subPath = ConfigFile}
ConfigDirs(s) ==
  {i \in DOMAIN s.maps : s.maps[i].path = Dir("conf") /\ s.maps[i].subPath = ""}

\* mutant: the last reference wins, whether it has a subPath or not
ConfigMapOfMutant(s) ==
  CASE Complete(s.info) -> s.info.name
    [] ~Given(s.info) /\ ConfigFiles(s) \cup ConfigDirs(s) # {} ->
         s.maps[Max(ConfigFiles(s) \cup ConfigDirs(s))].name
    [] OTHER -> <<>>

\* GetConfig, getConfigFromConfigMaps: the name of the ConfigMap, <<>> for none.
\* The first reference with the subPath is preferred to the last without.
ConfigMapOf(s) ==
  CASE Complete(s.info) -> s.info.name
    [] ~Given(s.info) /\ ConfigFiles(s) # {} -> s.maps[Min(ConfigFiles(s))].name
    [] ~Given(s.info) /\ ConfigFiles(s) = {} /\ ConfigDirs(s) # {} ->
         s.maps[Max(ConfigDirs(s))].name
    [] OTHER -> <<>>

\* The custom resource says clearly which one that is: configMapInfo is given
\* as a whole or not at all and nothing else is mounted at its place; what is
\* mounted at the places StarRocks looks at has the subPath that belongs there.
ClearReferences(s) ==
  /\ Complete(s.info) \/ ~Given(s.info)
  /\ \A i \in DOMAIN s.maps :
       /\ s.maps[i].path = Path("conf", ConfigFile) => i \in ConfigFiles(s)
       /\ s.maps[i].path = Dir("conf") => i \in ConfigDirs(s)
       /\ s.maps[i].path = Dir("etc") => Complete(s.info)
===============================================================================
