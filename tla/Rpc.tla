-------------------------------- MODULE Rpc --------------------------------
(***************************************************************************)
(* The requests of the registry's NodeAPI and AgentAPI that read or write  *)
(* the service directory (services/agent_api.proto).  A node is named by   *)
(* its enrolment (datacenter and name), a service by its service and       *)
(* instance names: no handler looks inside either.                         *)
(***************************************************************************)

CONSTANTS
    Node,         \* the enrolled nodes, one per nodes/<dc>/<name> key
    Svc,          \* the <service>/<instance> pairs a node may register
    ServiceSpec,  \* the values a registration may carry
    Call,         \* identities of concurrent RPCs
    NoRequest     \* what a call that is not running carries

HeartbeatRequest == [op : {"heartbeat"}, node : Node]

ResetRequest == [op : {"reset"}, node : Node]

RegisterServiceRequest ==
    [op : {"register"}, node : Node, svc : Svc, spec : ServiceSpec]

DeregisterServiceRequest == [op : {"deregister"}, node : Node, svc : Svc]

Request ==
    HeartbeatRequest \cup ResetRequest \cup RegisterServiceRequest
        \cup DeregisterServiceRequest

ASSUME NoRequestAssumption == NoRequest \notin Request
=============================================================================
