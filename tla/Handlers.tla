------------------------------ MODULE Handlers ------------------------------
(***************************************************************************)
(* The other handlers of api/handler: of everything that is no repository, *)
(* and of git over HTTP and SSH.                                           *)
(***************************************************************************)
EXTENDS RepoHandlers

----------------------------------------------------------------------------
\* Accounting, clusters

AccountingHandler_QueryMeteringStatementByUserID ==
    Handler(Plain, Login \o Query \o Accounting_ListMeteringsByUserIDAndTime)
ClusterHandler_Index == Handler(Plain, Login \o Cluster_Index)
ClusterHandler_GetClusterById == Handler(Plain, Login \o Cluster_GetClusterById)
ClusterHandler_Update == Handler(Plain, Body \o Cluster_Update)

----------------------------------------------------------------------------
\* Collections

CollectionHandler_Index == Handler(Plain, Query \o Collection_GetCollections)
CollectionHandler_Create == Handler(Plain, Login \o Body \o CheckRequestV2 \o Collection_CreateCollection)
CollectionHandler_GetCollection == Handler(Plain, Path \o Collection_GetCollection)
CollectionHandler_UpdateCollection ==
    Handler(Plain, Login \o Body \o CheckRequestV2 \o Path \o Collection_UpdateCollection)
CollectionHandler_DeleteCollection == Handler(Plain, Login \o Path \o Collection_DeleteCollection)
CollectionHandler_AddRepoToCollection ==
    Handler(Plain, Login \o Body \o Path \o Collection_AddReposToCollection)
CollectionHandler_RemoveRepoFromCollection ==
    Handler(Plain, Login \o Body \o Path \o Collection_RemoveReposFromCollection)

----------------------------------------------------------------------------
\* Discussions

DiscussionHandler_CreateRepoDiscussion ==
    Handler(Plain, Login \o Path \o Body \o CheckRequestV2 \o Discussion_CreateRepoDiscussion)
DiscussionHandler_UpdateDiscussion ==
    Handler(Plain, Login \o Path \o Body \o CheckRequestV2 \o Discussion_UpdateDiscussion)
DiscussionHandler_DeleteDiscussion == Handler(Plain, Login \o Path \o Discussion_DeleteDiscussion)
DiscussionHandler_ShowDiscussion == Handler(Plain, Path \o Discussion_GetDiscussion)
DiscussionHandler_ListRepoDiscussions == Handler(Plain, Path \o Discussion_ListRepoDiscussions)
DiscussionHandler_CreateDiscussionComment ==
    Handler(Plain, Login \o Path \o Body \o CheckRequestV2 \o Discussion_CreateDiscussionComment)
DiscussionHandler_UpdateComment ==
    Handler(Plain, Login \o Path \o Body \o CheckRequestV2 \o Discussion_UpdateComment)
DiscussionHandler_DeleteComment == Handler(Plain, Login \o Path \o Discussion_DeleteComment)

\* A discussion id that is no number is answered, and looked for all the same.
DiscussionHandler_ListDiscussionComments ==
    Handler(Plain, Opt(Says("BadRequest")) \o Discussion_ListDiscussionComments)

----------------------------------------------------------------------------
\* Events, git over HTTP and SSH

EventHandler_Create == Handler(Plain, Body \o Event_NewEvents)

\* A service that is not git's is answered, and asked for all the same.
GitHTTPHandler_InfoRefs ==
    Handler(OrForbidden, Opt(Says("NotFoundError")) \o GitHTTP_InfoRefs \o Valid("sent", "ServerError"))
GitHTTPHandler_GitUploadPack == Handler(Plain, GitHTTP_GitUploadPack)
GitHTTPHandler_GitReceivePack == Handler(OrForbidden, GitHTTP_GitReceivePack)
GitHTTPHandler_LfsBatch ==
    Handler(OrForbidden, Body \o Valid("operation", "BadRequest") \o GitHTTP_BuildObjectResponse)
GitHTTPHandler_LfsUpload == Handler(Plain, Path \o GitHTTP_LfsUpload)
GitHTTPHandler_LfsDownload == Handler(Plain, Path \o GitHTTP_LfsDownload)
GitHTTPHandler_LfsVerify == Handler(Plain, Body \o As(GitHTTP_LfsVerify, "BadRequest"))
GitHTTPHandler_ListLocks == Handler(Refusals, Opt(Path) \o GitHTTP_ListLocks)
GitHTTPHandler_CreateLock ==
    Handler([ErrUnauthorized |-> 401, ErrAlreadyExists |-> 409], Body \o GitHTTP_CreateLock)
GitHTTPHandler_VerifyLock == Handler(Plain, Body \o GitHTTP_VerifyLock)
GitHTTPHandler_UnLock ==
    Handler([ErrUnauthorized |-> 401, ErrNotFound |-> 404, ErrPermissionDenied |-> 405],
            Valid("body", "ServerError") \o Path \o GitHTTP_UnLock)

\* Both answer an error, and then the empty result as well.
HFDatasetHandler_DatasetPathsInfo ==
    Handler(Plain, Path \o Body \o Valid("query", "ServerError")
                     \o OrElse(HFDataset_GetPathsInfo, Says("ServerError")))
HFDatasetHandler_DatasetTree == Handler(Plain, Path \o OrElse(HFDataset_GetDatasetTree, Says("ServerError")))
HFDatasetHandler_HandleHFYaml == Handler(Plain, Skip)
InternalHandler_Allowed == Handler(Plain, Skip)
\* A clone path with fewer than three parts, or a malformed list of changes, is indexed out of
\* range: the recovery of the server answers.
ClonePath == Valid("clone path", "ServerError")
InternalHandler_SSHAllowed ==
    Handler(Plain, Body \o If("ssh", ClonePath \o Internal_SSHAllowed, Skip))
InternalHandler_LfsAuthenticate == Handler(Plain, Body \o ClonePath \o Internal_LfsAuthenticate)
InternalHandler_PreReceive == Handler(Plain, Skip)

\* The push is handled by a workflow, which is only started here.
InternalHandler_PostReceive ==
    Handler(Plain, Body \o Valid("changes", "ServerError") \o Internal_GetCommitDiff
                     \o workflow_HandlePushWorkflow)
InternalHandler_GetAuthorizedKeys == Handler(Plain, Internal_GetAuthorizedKeys)

----------------------------------------------------------------------------
\* Lists, mirrors

ListHandler_ListModelsByPath == Handler(Plain, Body \o List_ListModelsByPath)
ListHandler_ListDatasetsByPath == Handler(Plain, Body \o List_ListDatasetsByPath)
ListHandler_ListSpacesByPath == Handler(Plain, Body \o Space_ListByPath)
MirrorHandler_CreateMirrorRepo == Handler(Plain, Body \o Login \o Mirror_CreateMirrorRepo)
MirrorHandler_Repos == Handler(Plain, Query \o Login \o Mirror_Repos)
MirrorHandler_Index == Handler(Plain, Query \o Login \o Mirror_Index)
MirrorSourceHandler_Create == Handler(Plain, Body \o Login \o MirrorSource_Create)
MirrorSourceHandler_Index == Handler(Plain, Login \o MirrorSource_Index)
MirrorSourceHandler_Update == Handler(Plain, Path \o Body \o Login \o MirrorSource_Update)
MirrorSourceHandler_Get == Handler(Plain, Path \o Login \o MirrorSource_Get)
MirrorSourceHandler_Delete == Handler(Plain, Path \o Login \o MirrorSource_Delete)

----------------------------------------------------------------------------
\* Other servers, organizations

SyncHandler_Latest == Handler(Plain, Login \o Path \o MultiSync_More)
OrganizationHandler_Models == Handler(Plain, Query \o Model_OrgModels)
OrganizationHandler_Datasets == Handler(Plain, Query \o Dataset_OrgDatasets)
OrganizationHandler_Codes == Handler(Plain, Query \o Code_OrgCodes)
OrganizationHandler_Spaces == Handler(Plain, Query \o Space_OrgSpaces)
OrganizationHandler_Collections == Handler(Plain, Query \o Collection_OrgCollections)
OrganizationHandler_Prompts == Handler(Plain, Query \o Prompt_OrgPrompts)

----------------------------------------------------------------------------
\* Recommendations

RecomHandler_SetOpWeight == Handler(Plain, Body \o Recom_SetOpWeight)

----------------------------------------------------------------------------
\* Instances, runtime architectures, moderation

RProxyHandler_Proxy ==
    Handler(Plain, Repo_GetDeployBySvcName
                     \o Either(<<Need("jwt", "UnauthorizedError") \o Repo_AllowAccessByRepoID("Forbidden"),
                                 Repo_AllowAccessEndpoint, Refuse("Forbidden")>>)
                     \o Tell("instance"))
RuntimeArchitectureHandler_ListByRuntimeFrameworkID ==
    Handler(Plain, Path \o RuntimeArch_ListByRuntimeFrameworkID)
RuntimeArchitectureHandler_UpdateArchitecture == Handler(Plain, Body \o Path \o RuntimeArch_SetArchitectures)
RuntimeArchitectureHandler_DeleteArchitecture ==
    Handler(Plain, Body \o Path \o RuntimeArch_DeleteArchitectures)
RuntimeArchitectureHandler_ScanArchitecture == Handler(Plain, Path \o Query \o RuntimeArch_ScanArchitecture)
SensitiveHandler_Text ==
    Handler(Plain, Body \o Sensitive_CheckText \o Valid("no sensitive words", "BadRequest"))
SensitiveHandler_Image ==
    Handler(Plain, Body \o Sensitive_CheckImage \o Valid("no sensitive words", "BadRequest"))

----------------------------------------------------------------------------
\* Keys, settings, tags, telemetry

SSHKeyHandler_Create == Handler(Plain, Body \o CheckRequestV2 \o Login \o SSHKey_Create)
SSHKeyHandler_Index == Handler(Plain, Query \o SSHKey_Index)
SSHKeyHandler_Delete == Handler(Plain, Path \o SSHKey_Delete)
SyncClientSettingHandler_Create == Handler(Plain, Body \o SyncClientSetting_Create)
SyncClientSettingHandler_Show == Handler(Plain, SyncClientSetting_Show)
TagsHandler_AllTags == Handler(Plain, Tag_AllTags)
TelemetryHandler_Usage == Handler(Plain, Body \o Telemetry_SaveUsageData)

----------------------------------------------------------------------------
\* Users

UserHandler_Datasets == Handler(Plain, Query \o User_Datasets)
UserHandler_Models == Handler(Plain, Query \o User_Models)
UserHandler_Codes == Handler(Plain, Query \o User_Codes)
UserHandler_Spaces == Handler(Plain, Query \o User_Spaces)

\* Mutation of UserHandler_LikesAdd: the return after the answer is forgotten.
LikesAnyway == Handler(Plain, Login \o If("path", Skip, Says("ServerError")) \o User_AddLikes)

UserHandler_LikesAdd == Handler(Plain, Login \o Valid("path", "ServerError") \o User_AddLikes)
UserHandler_LikesCollections == Handler(Plain, Login \o Query \o User_LikesCollection)
UserHandler_UserCollections == Handler(Plain, Query \o User_Collections)
UserHandler_LikeCollection == Handler(Plain, Login \o Valid("path", "ServerError") \o User_LikeCollection)
UserHandler_UnLikeCollection == Handler(Plain, Login \o Valid("path", "ServerError") \o User_UnLikeCollection)
UserHandler_LikesDelete == Handler(Plain, Login \o Valid("path", "ServerError") \o User_DeleteLikes)
UserHandler_LikesSpaces == Handler(Plain, Login \o Query \o User_LikesSpaces)
UserHandler_LikesCodes == Handler(Plain, Login \o Query \o User_LikesCodes)
UserHandler_LikesModels == Handler(Plain, Login \o Query \o User_LikesModels)
UserHandler_LikesDatasets == Handler(Plain, Login \o Query \o User_LikesDatasets)
UserHandler_UserPermission == Handler(Plain, Login)
UserHandler_GetRunDeploys ==
    Handler(Plain, Login \o Valid("own account", "ServerError") \o Query \o Path \o User_ListDeploys)
UserHandler_GetFinetuneInstances ==
    Handler(Plain, IfUser(If("own account", Query \o User_ListInstances, Skip)))
UserHandler_GetRunServerless ==
    Handler(Plain, Login \o Valid("own account", "ServerError") \o Query \o User_ListServerless)
UserHandler_Prompts == Handler(Plain, Query \o User_Prompts)

----------------------------------------------------------------------------
\* What is forwarded to the user service, and the callback of Gitea

InternalServiceProxyHandler_Proxy == Handler(Plain, Tell("userSvc"))
InternalServiceProxyHandler_ProxyToApi == Handler(Plain, Tell("userSvc"))

GitCallbackHandler_handlePush == Body \o workflow_HandlePushWorkflow
GitCallbackHandler_Handle ==
    Handler(Plain, Valid("push event", "BadRequest") \o GitCallbackHandler_handlePush)
=============================================================================
