----------------------------- MODULE ServicePorts -----------------------------
(***************************************************************************)
(* Port numbers from a component's configuration file, the ports of its    *)
(* container, its probes and its two services, and the stop command that   *)
(* its image understands: pure translations.                               *)
(*                                                                         *)
(* A configuration is a function from the port keys it sets to numbers; a  *)
(* value that is not a number counts as 0.  An image is its version, or    *)
(* the empty sequence when the tag is not of the form a.b.c.               *)
(***************************************************************************)
EXTENDS Integers, Sequences, FiniteSetsExt, TLC

DefMap ==
  [http_port |-> 8030, rpc_port |-> 9020, query_port |-> 9030, edit_log_port |-> 9010,
   thrift_port |-> 9060, be_port |-> 9060, webserver_port |-> 8040, be_http_port |-> 8040,
   heartbeat_service_port |-> 9050, brpc_port |-> 8060, arrow_flight_port |-> 0]

EmptyConfig == [k \in {} |-> 0]

Value(config, key) == IF key \in DOMAIN config THEN config[key] ELSE 0

\* The keys that were renamed, and their new names.
Renamed == [thrift_port |-> "be_port", webserver_port |-> "be_http_port"]

GetPort(config, key) ==
  IF Value(config, key) # 0 THEN Value(config, key)
  ELSE IF key \in DOMAIN Renamed /\ Value(config, Renamed[key]) # 0
       THEN Value(config, Renamed[key])
  ELSE DefMap[key]

\* Ports: the ports of the container and their keys.
ContainerKeys ==
  [fe |-> [http |-> "http_port", rpc |-> "rpc_port", query |-> "query_port"],
   be |-> [be |-> "be_port", webserver |-> "webserver_port",
           heartbeat |-> "heartbeat_service_port", brpc |-> "brpc_port"],
   cn |-> [thrift |-> "thrift_port", webserver |-> "webserver_port",
           heartbeat |-> "heartbeat_service_port", brpc |-> "brpc_port"]]

Ports(c, config) == [p \in DOMAIN ContainerKeys[c] |-> GetPort(config, ContainerKeys[c][p])]

\* The startup, liveness and readiness probes all ask this port.
ProbePort(c, config) == GetPort(config, IF c = "fe" THEN "http_port" ELSE "webserver_port")

-----------------------------------------------------------------------------
(* Services *)

\* The entries of service.ports: name, port, containerPort and nodePort, 0 if not given.
ServicePort == [name : STRING, port : Nat, containerPort : Nat, nodePort : Nat]
NoEntry == [name |-> "", port |-> 0, containerPort |-> 0, nodePort |-> 0]

\* Outside the cluster a service of these types is reached.
Exposed == {"NodePort", "LoadBalancer"}

Service ==
  [type : {"", "ClusterIP", "ExternalName"} \cup Exposed, policy : STRING, ip : STRING,
   ranges : Seq(STRING), entries : Seq(ServicePort)]

First(entries, matching) == IF matching = {} THEN NoEntry ELSE entries[Min(matching)]

\* An entry is found by its container port, and only if there is none by its name.
mergePort(entries, name, default) ==
  LET byPort == First(entries, {i \in DOMAIN entries : entries[i].containerPort = default})
      byName == First(entries, {i \in DOMAIN entries : entries[i].name = name})
      entry  == IF byPort # NoEntry THEN byPort ELSE byName
  IN [port   |-> IF entry.port # 0 THEN entry.port ELSE default,
      node   |-> entry.nodePort,
      target |-> default]

\* Services of FE have ports that its container does not name.
FeServiceKeys ==
  [http |-> "http_port", rpc |-> "rpc_port", query |-> "query_port",
   edit_log |-> "edit_log_port", arrow_flight |-> "arrow_flight_port"]

\* getFeServicePorts, getBeServicePorts, getCnServicePorts
ServiceKeys(c, config) ==
  IF c # "fe" THEN ContainerKeys[c]
  ELSE LET given == {p \in DOMAIN FeServiceKeys :
                       p = "arrow_flight" => GetPort(config, "arrow_flight_port") # 0}
       IN [p \in given |-> FeServiceKeys[p]]

ServiceValidate(service) == service.policy # "" => service.type \in Exposed

\* setServiceType
ServiceType(service) == IF service.type = "" THEN "ClusterIP" ELSE service.type

BuildExternalService(c, service, config) ==
  LET keys == ServiceKeys(c, config)
  IN [type   |-> ServiceType(service),
      ip     |-> IF ServiceType(service) = "LoadBalancer" THEN service.ip ELSE "",
      policy |-> IF ServiceType(service) \in Exposed THEN service.policy ELSE "",
      ranges |-> service.ranges,
      ports  |-> [p \in DOMAIN keys |-> mergePort(service.entries, p, GetPort(config, keys[p]))]]

\* MakeSearchService: one port, and arrow flight if BE or CN has it.
SearchService(c, config) ==
  LET key  == IF c = "fe" THEN "query_port" ELSE "heartbeat_service_port"
      more == IF c = "fe" \/ GetPort(config, "arrow_flight_port") = 0 THEN {} ELSE {"arrow_flight"}
      number(p) == GetPort(config, IF p \in more THEN "arrow_flight_port" ELSE key)
  IN [type |-> "None", ip |-> "", policy |-> "", ranges |-> <<>>,
      ports |-> [p \in {"main"} \cup more |-> mergePort(<<>>, p, number(p))]]

\* ServiceDeepEqual, serviceHashObject: the address of a load balancer is not looked at.
ServiceHash(svc) ==
  [type |-> svc.type, policy |-> svc.policy, ranges |-> svc.ranges, ports |-> svc.ports]

\* Two ports of a service have a number in common.
PortsClash(svc) ==
  \E p, q \in DOMAIN svc.ports : p # q /\
    \/ svc.ports[p].port = svc.ports[q].port
    \/ svc.ports[p].node = svc.ports[q].node /\ svc.ports[p].node # 0

\* What the API server refuses (external): numbers given twice, and what the type
\* of the service does not allow.  An ExternalName needs a name, which the
\* operator never gives.
ServiceRefused(svc) ==
  \/ PortsClash(svc)
  \/ svc.type \notin Exposed /\ svc.policy # ""
  \/ svc.type \notin Exposed /\ \E p \in DOMAIN svc.ports : svc.ports[p].node # 0
  \/ svc.type # "LoadBalancer" /\ svc.ranges # <<>>
  \/ svc.type = "ExternalName"

-----------------------------------------------------------------------------
(* GetPreStopCommand *)

\* The first patch of each release line whose stop script knows -g.
Thresholds ==
  [be |-> {<<3, 3, 19>>, <<3, 4, 8>>, <<3, 5, 6>>},
   cn |-> {<<3, 3, 17>>, <<3, 4, 6>>, <<3, 5, 2>>}]

SameLine(v, w) == v # <<>> /\ w # <<>> /\ v[1] = w[1] /\ v[2] = w[2]

IsLowerThanAny(version, targets) ==
  \E t \in targets : SameLine(version, t) /\ version[3] < t[3]

\* Is the component stopped gracefully?  An error of the comparison means yes.
GracefulStop(c, image) == c = "fe" \/ ~IsLowerThanAny(image, Thresholds[c])

-----------------------------------------------------------------------------
(* What users give *)

\* What the type of the service does not allow and no validation looks at.
Misplaced(service) ==
  \/ service.type \notin Exposed
     /\ \E i \in DOMAIN service.entries : service.entries[i].nodePort # 0
  \/ service.type # "LoadBalancer" /\ service.ranges # <<>>
  \/ service.type = "ExternalName"

\* Does the entry stand for port p, of that number?
StandsFor(entry, p, number) == entry.name = p \/ entry.containerPort = number

\* An entry that can stand for two ports, one by name and one by number.
StandsForTwo(entry) == entry.name # "" /\ entry.containerPort # 0

\* The configuration gives the ports of a component different numbers.
PortsApart(c, config) ==
  LET keys == ServiceKeys(c, config)
  IN /\ \A p, q \in DOMAIN keys : GetPort(config, keys[p]) = GetPort(config, keys[q]) => p = q
     /\ c # "fe" => GetPort(config, "arrow_flight_port") # GetPort(config, "heartbeat_service_port")

\* No number is given by two entries, and none that is the number of another port.
EntriesApart(c, entries, config) ==
  LET keys == ServiceKeys(c, config)
  IN /\ \A i, j \in DOMAIN entries : i # j =>
          /\ entries[i].port # 0 => entries[i].port # entries[j].port
          /\ entries[i].nodePort # 0 => entries[i].nodePort # entries[j].nodePort
     /\ \A i \in DOMAIN entries, p \in DOMAIN keys :
          LET number == GetPort(config, keys[p])
          IN entries[i].port = number => StandsFor(entries[i], p, number)
===============================================================================
