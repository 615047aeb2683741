------------------------------ MODULE Services ------------------------------
(***************************************************************************)
(* The services beside the API: servicerunner/handler, which makes what a  *)
(* deployment needs in Kubernetes, and the requests of the accounting and  *)
(* the moderation service.  What Kubernetes keeps is written like tables:  *)
(* it has no second object of a name, and removes only what is there.      *)
(***************************************************************************)
EXTENDS UserService

----------------------------------------------------------------------------
\* Kubernetes

Knative == "knative services"

Create(t) == IfFound(Look(t), Refuse("other"), Insert(t))

\* The row may be missing: what counts is that a cluster of its name is configured.
GetClusterByID == Opt(Try(clusterInfoStore_ByClusterID)) \o Valid("cluster", "other")

K8sHander_GetServicePods == Scan("pods")
GetServicePodsWithStatus == Scan("pods")

\* Pods that do not go are only logged.
K8sHander_removeServiceForcely ==
    Delete(Knative) \o Try(K8sHander_GetServicePods) \o Many(Try(Delete("pods")))

\* Quantities that do not parse are a panic, which the recovery of the server answers.
GenerateResources == Valid("quantities", "ServerError")

GenerateService == Valid("port", "other") \o Opt(Ask("secret"))

\* Whatever the error, the claim is taken for missing.
NewPersistentVolumeClaim ==
    Probe(Look("volume claims"), Skip, Valid("storage size", "other") \o Create("volume claims"))

----------------------------------------------------------------------------
\* The service runner

\* A service of that name is removed first, if it can be read and removed; then
\* the request may still be refused.
K8sHander_RunService ==
    Handler(Plain,
        Body \o As(GetClusterByID, "BadRequest")
          \o Probe(Look(Knative), Try(K8sHander_removeServiceForcely), Skip)
          \o GenerateResources \o As(GenerateService, "BadRequest")
          \o Opt(NewPersistentVolumeClaim)
          \o Create(Knative))

K8sHander_StopService ==
    Handler(Plain,
        Body \o As(GetClusterByID, "BadRequest")
          \o IfFound(Look(Knative), K8sHander_removeServiceForcely, Skip))

K8sHander_UpdateService ==
    Handler(Plain,
        Body \o As(GetClusterByID, "BadRequest")
          \o IfFound(Look(Knative), GenerateResources \o Update(Knative), Skip))

\* A service that cannot be read is reported as stopped.
K8sHander_ServiceStatus ==
    Handler(Plain,
        Body \o As(GetClusterByID, "BadRequest")
          \o Probe(Look(Knative),
                   Opt(As(GetServicePodsWithStatus, "NotFoundError")) \o Opt(K8sHander_GetServicePods),
                   Skip))

\* The answer has begun when the pod is read.
K8sHander_GetLogsByPod == Ask("pod logs") \o Says("OK") \o Try(Scan("pods"))

K8sHander_ServiceLogs ==
    Handler(Plain,
        Body \o As(GetClusterByID, "BadRequest")
          \o K8sHander_GetServicePods \o Valid("a pod", "NotFoundError") \o K8sHander_GetLogsByPod)

K8sHander_ServiceLogsByPod ==
    Handler(Plain, Body \o As(GetClusterByID, "BadRequest") \o K8sHander_GetLogsByPod)

K8sHander_ServiceStatusAll ==
    Handler(Plain, Many(Try(Scan(Knative) \o Many(Try(K8sHander_GetServicePods)))))

K8sHander_GetClusterInfo == Handler(Plain, Many(Try(clusterInfoStore_ByClusterConfig)))

K8sHander_GetClusterInfoByID ==
    Handler(Plain, Try(clusterInfoStore_ByClusterID) \o As(GetClusterByID, "NotFoundError")
                     \o Try(Ask("nodes") \o Scan("pods")))

\* BindJSON has answered a body that it cannot parse before the handler does; the other
\* errors are answered 200, with a code of their own.
K8sHander_GetServiceByName ==
    Handler(Plain, Body \o As(GetClusterByID \o IfFound(Look(Knative), Skip, Skip), "OK"))

K8sHander_GetReplica ==
    Handler(Plain, Body \o As(GetClusterByID \o Look(Knative), "ServerError")
                     \o Valid("revision", "ServerError") \o As(Ask("revision"), "ServerError")
                     \o As(GetServicePodsWithStatus, "NotFoundError"))

K8sHander_UpdateCluster == Handler(Plain, Body \o clusterInfoStore_Update)

\* A service that cannot be read is taken for gone.
K8sHander_PurgeService ==
    Handler(Plain,
        Body \o As(GetClusterByID, "ServerError")
          \o Probe(Look(Knative), K8sHander_removeServiceForcely, Skip)
          \o Opt(DeleteOne("volume claims")))

K8sHander_GetServiceInfo ==
    Handler(Plain, Body \o As(GetClusterByID, "ServerError") \o K8sHander_GetServicePods)

----------------------------------------------------------------------------
\* Accounting and moderation

MeteringHandler_QueryMeteringStatementByUserID ==
    Handler(Plain, Query \o Valid("scene", "BadRequest") \o Valid("dates", "BadRequest")
                     \o accountMeteringStore_ListByUserIDAndTime)

Moderation_FullCheck == Handler(Plain, Body \o Tell("workflow"))
Moderation_Text == Handler(Plain, Body \o Ask("checker"))
Moderation_Image == Handler(Plain, Body \o Ask("checker"))

----------------------------------------------------------------------------
\* Their routes

ServiceRoutes ==
    LET Named(group, hs) == {Route(<<group, n>>, hs[n]) : n \in DOMAIN hs} IN
    Named("runner",
        [RunService |-> K8sHander_RunService, UpdateService |-> K8sHander_UpdateService,
         StopService |-> K8sHander_StopService, ServiceStatus |-> K8sHander_ServiceStatus,
         ServiceLogs |-> K8sHander_ServiceLogs, ServiceLogsByPod |-> K8sHander_ServiceLogsByPod,
         GetServiceInfo |-> K8sHander_GetServiceInfo, ServiceStatusAll |-> K8sHander_ServiceStatusAll,
         GetServiceByName |-> K8sHander_GetServiceByName, GetReplica |-> K8sHander_GetReplica,
         PurgeService |-> K8sHander_PurgeService, GetClusterInfo |-> K8sHander_GetClusterInfo,
         GetClusterInfoByID |-> K8sHander_GetClusterInfoByID, UpdateCluster |-> K8sHander_UpdateCluster])
    \cup Named("accounting",
        [Statements |-> Through(Authenticator, MeteringHandler_QueryMeteringStatementByUserID)])
    \cup Named("moderation",
        [FullCheck |-> Moderation_FullCheck, Text |-> Moderation_Text, Image |-> Moderation_Image])
=============================================================================
