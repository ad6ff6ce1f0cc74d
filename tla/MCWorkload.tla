----------------------------- MODULE MCWorkload -----------------------------
(* Instances of Workload for TLC. *)
EXTENDS Workload

None == <<>>
Storage(name, class, size, path) ==
  [name |-> name, class |-> class, size |-> size, hostPath |-> None, csi |-> None,
   path |-> path, readOnly |-> FALSE]
Class(word, exact) == [word |-> word, exact |-> exact]
NoInfo == [name |-> None, key |-> ""]
NoEntries == [type |-> "", policy |-> "", ip |-> "", ranges |-> <<>>, entries |-> <<>>]
Entry(name, port, containerPort, nodePort) ==
  [name |-> name, port |-> port, containerPort |-> containerPort, nodePort |-> nodePort]
Ref(name, path, subPath) == [name |-> name, path |-> path, subPath |-> subPath]

Plainest ==
  [volumes |-> <<>>, info |-> NoInfo, maps |-> <<>>, secrets |-> <<>>, service |-> NoEntries,
   image |-> <<3, 5, 5>>, maxUnavailable |-> -1]

FeMap == <<"fe", "cm">>
BeMap == <<"be", "cm">>

\* FE by configMapInfo.
Fe == [Plainest EXCEPT !.info = [name |-> FeMap, key |-> ConfigFile]]

\* BE: disks and a configuration file, and what a user may make of them.
Disk == Storage(<<"be0", "data">>, NilClass, "1Gi", Path("storage", "0"))
SecondDisk(size) == Storage(<<"be1", "data">>, NilClass, size, Path("storage", "1"))
HostLog(hostPath) ==
  [Storage(<<"my", "log">>, Class("hostPath", FALSE), "", Path("log", "")) EXCEPT !.hostPath = hostPath]
File == Ref(BeMap, Path("conf", ConfigFile), ConfigFile)
Be  == [Plainest EXCEPT !.volumes = <<Disk>>, !.maps = <<File>>]
BeSpecs ==
  << Be,
     \* a newer image and a directory of configuration besides the file
     [Be EXCEPT !.image = <<3, 5, 6>>, !.maps = <<File, Ref(FeMap, Path("conf", ""), "")>>],
     \* another disk, which is refused
     [Be EXCEPT !.volumes = <<Disk, SecondDisk("1Gi")>>],
     \* a volume of size zero
     [Be EXCEPT !.volumes = <<Disk, SecondDisk("0")>>],
     \* a log on the host, the class in a spelling of its own, without a hostPath
     \* and with one that has no path
     [Be EXCEPT !.volumes = <<Disk, HostLog(None)>>],
     [Be EXCEPT !.volumes = <<Disk, HostLog(Hollow)>>],
     \* the ConfigMap twice
     [Be EXCEPT !.maps = <<File, Ref(BeMap, Path("other", ""), "")>>],
     \* an invalid service, one with an entry that stands for two ports and one
     \* with a nodePort but no type
     [Be EXCEPT !.service.policy = "Local"],
     [Be EXCEPT !.service.type = "NodePort",
                !.service.entries = <<Entry("be", 0, 8060, 30001)>>],
     [Be EXCEPT !.service.entries = <<Entry("be", 0, 0, 30001)>>] >>

CnSpecs ==
  << [Plainest EXCEPT !.service.type = "LoadBalancer", !.service.ip = "10.0.0.1"] >>

MCClusters == {{"fe", "be"}, {"fe", "cn"}}
MCSpecs == [fe |-> <<Fe>>, be |-> BeSpecs, cn |-> CnSpecs]

MCContents ==
  (FeMap :> << Ok([query_port |-> 9031]), Ok([http_port |-> 8031, query_port |-> 9032]),
               Malformed >>) @@
  (BeMap :> << Ok([be_http_port |-> 8041]), Ok([be_port |-> 9061]), Absent >>)

\* The hypotheses of the theorems in WorkloadProofs.
ASSUME NumbersApart
ASSUME ReferencesClear
=============================================================================
