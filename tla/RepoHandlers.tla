---------------------------- MODULE RepoHandlers ----------------------------
(***************************************************************************)
(* api/handler for repositories of every kind: what a request of the API   *)
(* checks before it calls a component, and how it answers the errors of    *)
(* the component.  Plain handlers answer every error with 500.             *)
(***************************************************************************)
EXTENDS Components

Refusals    == [ErrUnauthorized |-> 401]
OrNotFound  == [ErrUnauthorized |-> 401, ErrNotFound |-> 404]
OrForbidden == [ErrUnauthorized |-> 401, ErrForbidden |-> 403]

\* The instance that a stream is about; without one the caller is not authorized.
Instance == Valid("instance", "UnauthorizedError")

LogStream == Valid("stream of logs", "ServerError") \o Says("OK")

----------------------------------------------------------------------------
\* Codes

CodeHandler_Create == Handler(Plain, Login \o Body \o CheckRequestV2 \o Code_Create)
CodeHandler_Index == Handler(Plain, Query \o Code_Index)
CodeHandler_Update == Handler(Plain, Login \o Body \o CheckRequestV2 \o Path \o Code_Update)
CodeHandler_Delete == Handler(Plain, Login \o Path \o Code_Delete)
CodeHandler_Show == Handler(Refusals, Path \o Code_Show)
CodeHandler_Relations == Handler(Refusals, Path \o Code_Relations)

----------------------------------------------------------------------------
\* Datasets

DatasetHandler_Create == Handler(Plain, Login \o Body \o CheckRequestV2 \o Dataset_Create)
DatasetHandler_Index == Handler(Plain, Query \o Dataset_Index)
DatasetHandler_Update == Handler(Plain, Login \o Body \o CheckRequestV2 \o Path \o Dataset_Update)
DatasetHandler_Delete == Handler(Plain, Login \o Path \o Dataset_Delete)
DatasetHandler_Show == Handler(Refusals, Path \o Dataset_Show)
DatasetHandler_Relations == Handler(Refusals, Path \o Dataset_Relations)
DatasetHandler_AllFiles == Handler(Refusals, Path \o Repo_AllFiles)
DatasetViewerHandler_View == Handler(Plain, Path \o DatasetViewer_ViewParquetFile)

----------------------------------------------------------------------------
\* Models

ModelHandler_Index == Handler(Plain, Query \o Model_Index)
ModelHandler_Create == Handler(Plain, Login \o Body \o CheckRequestV2 \o Model_Create)
ModelHandler_Update == Handler(Plain, Login \o Body \o CheckRequestV2 \o Path \o Model_Update)
ModelHandler_Delete == Handler(Plain, Login \o Path \o Model_Delete)
ModelHandler_Show == Handler(Refusals, Path \o Model_Show)
ModelHandler_SDKModelInfo == Handler(Refusals, Path \o Model_SDKModelInfo)
ModelHandler_Relations == Handler(Refusals, Path \o Model_Relations)
ModelHandler_SetRelations == Handler(Plain, Login \o Path \o Body \o Model_SetRelationDatasets)
ModelHandler_AddDatasetRelation == Handler(Plain, Login \o Path \o Body \o Model_AddRelationDataset)
ModelHandler_DelDatasetRelation == Handler(Plain, Login \o Path \o Body \o Model_DelRelationDataset)
ModelHandler_Predict == Handler(Plain, Path \o Body \o Model_Predict)
ModelHandler_DeployDedicated ==
    Handler(Plain, Login \o Path \o Repo_AllowReadAccess("other", "UnauthorizedError") \o Body
               \o Valid("replicas", "BadRequest") \o CheckRequestV2 \o Model_Deploy)
ModelHandler_FinetuneCreate ==
    Handler(Plain, Login \o Path \o Repo_AllowAdminAccess("other", "UnauthorizedError") \o Body
               \o Model_Deploy)
ModelHandler_DeployDelete == Handler(Plain, Login \o Path \o Repo_DeleteDeploy)
ModelHandler_FinetuneDelete == Handler(Plain, Login \o Path \o Repo_DeleteDeploy)
ModelHandler_DeployStop == Handler(Plain, Login \o Path \o Repo_DeployStop)
ModelHandler_DeployStart == Handler(Plain, Login \o Path \o Repo_DeployStart)
ModelHandler_ListByRuntimeFrameworkID ==
    Handler(Plain, Login \o Query \o Path \o Model_ListModelsByRuntimeFrameworkID)
ModelHandler_FinetuneStop == Handler(Plain, Login \o Path \o Repo_DeployStop)
ModelHandler_FinetuneStart == Handler(Plain, Login \o Path \o Repo_DeployStart)
ModelHandler_ListAllRuntimeFramework == Handler(Plain, Login \o Model_ListAllByRuntimeFramework)
ModelHandler_UpdateModelRuntimeFrameworks ==
    Handler(Plain, Body \o Path \o Query \o Model_SetRuntimeFrameworkModes)
ModelHandler_DeleteModelRuntimeFrameworks ==
    Handler(Plain, Body \o Path \o Query \o Model_DeleteRuntimeFrameworkModes)
ModelHandler_ListModelsOfRuntimeFrameworks ==
    Handler(Plain, Login \o Query \o Model_ListModelsOfRuntimeFrameworks)
ModelHandler_AllFiles == Handler(Refusals, Path \o Repo_AllFiles)
ModelHandler_DeployServerless ==
    Handler(Plain, Login \o Path \o Body \o Valid("replicas", "BadRequest") \o Model_Deploy)
ModelHandler_ServerlessStart == Handler(Plain, Login \o Path \o Repo_DeployStart)
ModelHandler_ServerlessStop == Handler(Plain, Login \o Path \o Repo_DeployStop)
ModelHandler_GetDeployServerless == Handler(Plain, Path \o Model_GetServerless)

----------------------------------------------------------------------------
\* Prompts

PromptHandler_Index == Handler(Plain, Query \o Prompt_IndexPromptRepo)
PromptHandler_ListPrompt == Handler(Refusals, Path \o Prompt_Show \o As(Prompt_ListPrompt, "other"))
PromptHandler_GetPrompt == Handler(Plain, Path \o Prompt_GetPrompt)
PromptHandler_CreatePrompt == Handler(Plain, Login \o Path \o Body \o CheckRequestV2 \o Prompt_CreatePrompt)
PromptHandler_UpdatePrompt == Handler(Plain, Login \o Path \o Body \o CheckRequestV2 \o Prompt_UpdatePrompt)
PromptHandler_DeletePrompt == Handler(Plain, Login \o Path \o Prompt_DeletePrompt)
PromptHandler_ListConversation == Handler(Plain, Login \o Prompt_ListConversationsByUserID)
PromptHandler_GetConversation == Handler(Plain, Login \o Path \o Prompt_GetConversation)
PromptHandler_NewConversation == Handler(Plain, Login \o Body \o Prompt_NewConversation)

\* What the model says is sent as it comes; it is kept at the end or when the client
\* has gone, and when that fails a second answer is written into the stream.
PromptHandler_SubmitMessage ==
    Handler(Plain, Login \o Path \o Body \o Prompt_SubmitMessage \o Says("OK")
                     \o OrElse(Prompt_SaveGeneratedText, Says("ServerError")))
PromptHandler_UpdateConversation == Handler(Plain, Login \o Path \o Body \o Prompt_UpdateConversation)
PromptHandler_RemoveConversation == Handler(Plain, Login \o Path \o Prompt_RemoveConversation)
PromptHandler_LikeMessage == Handler(Plain, Login \o Path \o Prompt_LikeConversationMessage)
PromptHandler_HateMessage == Handler(Plain, Login \o Path \o Prompt_HateConversationMessage)
PromptHandler_Relations == Handler(Refusals, Path \o Prompt_Relations)
PromptHandler_SetRelations == Handler(Plain, Login \o Path \o Body \o Prompt_SetRelationModels)
PromptHandler_AddModelRelation == Handler(Plain, Login \o Path \o Body \o Prompt_AddRelationModel)
PromptHandler_DelModelRelation == Handler(Plain, Login \o Path \o Body \o Prompt_DelRelationModel)
PromptHandler_Create == Handler(Plain, Login \o Body \o CheckRequestV2 \o Prompt_CreatePromptRepo)
PromptHandler_Update == Handler(Plain, Login \o Body \o CheckRequestV2 \o Path \o Prompt_UpdatePromptRepo)
PromptHandler_Delete == Handler(Plain, Login \o Path \o Prompt_RemoveRepo)
PromptHandler_Branches == Handler(Plain, Path \o Query \o Repo_Branches)
PromptHandler_Tags == Handler(Plain, Path \o Repo_Tags)
PromptHandler_UpdateTags == Handler(Plain, Login \o Path \o Body \o Repo_UpdateTags)
PromptHandler_UpdateDownloads == Handler(Plain, Path \o Body \o Repo_UpdateDownloads)

----------------------------------------------------------------------------
\* Repositories of any kind

RepoHandler_CreateFile == Handler(Plain, Login \o Body \o Path \o Repo_CreateFile)
RepoHandler_UpdateFile == Handler(Plain, Login \o Body \o Path \o Repo_UpdateFile)
RepoHandler_Commits == Handler(Plain, Path \o Query \o Repo_Commits)
RepoHandler_LastCommit == Handler(Plain, Path \o Repo_LastCommit)
RepoHandler_FileRaw == Handler(Plain, Path \o Repo_FileRaw)
RepoHandler_FileInfo == Handler(Plain, Path \o Repo_FileInfo)
RepoHandler_DownloadFile == Handler(Plain, Path \o Repo_DownloadFile \o Opt(Valid("sent", "ServerError")))
RepoHandler_Branches == Handler(Plain, Path \o Query \o Repo_Branches)
RepoHandler_Tags == Handler(Plain, Path \o Repo_Tags)
RepoHandler_UpdateTags == Handler(Plain, Login \o Path \o Body \o Repo_UpdateTags)
RepoHandler_Tree == Handler(Plain, Path \o Repo_Tree)
RepoHandler_UpdateDownloads == Handler(Plain, Path \o Body \o Repo_UpdateDownloads)
RepoHandler_IncrDownloads == Handler(Plain, Path \o Repo_IncrDownloads)

\* A form that is missing, or has fewer paths than files, panics: gin answers with 500.
RepoHandler_UploadFile ==
    Handler(Plain, Login \o Path \o Valid("form", "ServerError")
                     \o Many(Either(<<Skip, Refuse("BadRequest"), Refuse("ServerError")>>) \o Repo_UploadFile))
RepoHandler_SDKListFiles == Handler(OrNotFound, Path \o Repo_SDKListFiles)

\* A file of LFS is answered with a redirection, which counts as OK.
RepoHandler_handleDownload ==
    Handler(OrNotFound, Path \o Repo_IsLfs
                          \o Opt(Repo_SDKDownloadFile \o Opt(Valid("sent", "ServerError"))))
RepoHandler_SDKDownload == RepoHandler_handleDownload
RepoHandler_ResolveDownload == RepoHandler_handleDownload
RepoHandler_HeadSDKDownload == Handler(OrNotFound, Path \o Repo_HeadDownloadFile)

SourceUrl == Valid("source url", "BadRequest")
RepoType  == Valid("type of the repository", "BadRequest")

RepoHandler_CommitWithDiff == Handler(Plain, Path \o Repo_GetCommitWithDiff)
RepoHandler_CreateMirror == Handler(Plain, Login \o Path \o Body \o SourceUrl \o Repo_CreateMirror)
RepoHandler_MirrorFromSaas == Handler(Plain, Login \o Path \o Valid("OpenCSG prefix", "BadRequest") \o Repo_MirrorFromSaas)
RepoHandler_GetMirror == Handler(Plain, Login \o Path \o Repo_GetMirror)
RepoHandler_UpdateMirror == Handler(Plain, Login \o Path \o Body \o SourceUrl \o Repo_UpdateMirror)
RepoHandler_DeleteMirror == Handler(Plain, Login \o Path \o Repo_DeleteMirror)
RepoHandler_RuntimeFrameworkList == Handler(Plain, Path \o RepoType \o Query \o Repo_ListRuntimeFramework)
RepoHandler_RuntimeFrameworkCreate == Handler(Plain, Path \o Body \o Repo_CreateRuntimeFramework)
RepoHandler_RuntimeFrameworkUpdate == Handler(Plain, Path \o Body \o Repo_UpdateRuntimeFramework)
RepoHandler_RuntimeFrameworkDelete == Handler(Plain, Path \o Repo_DeleteRuntimeFramework)
RepoHandler_DeployList == Handler(Plain, Login \o Path \o Repo_ListDeploy)
RepoHandler_DeployDetail == Handler([PermissionError |-> 401], Login \o Path \o Repo_DeployDetail)
RepoHandler_testLogs == Says("OK")
RepoHandler_testStatus == Says("OK")

\* Logs and states are streams of events; with ?test=true they are made up.  A caller
\* that may not see the deployment is refused by an error; without one it is only logged.
RepoHandler_DeployInstanceLogs ==
    Handler([PermissionError |-> 401],
            Either(<<RepoHandler_testLogs, Path \o Login \o Instance \o Repo_DeployInstanceLogs \o LogStream>>))
DeployStatusStream ==
    Either(<<RepoHandler_testStatus,
             Login \o Path \o Repo_AllowAccessDeploy \o Says("OK") \o Many(Try(Repo_DeployStatus))>>)

RepoHandler_DeployStatus == Handler([PermissionError |-> 401], DeployStatusStream)
RepoHandler_SyncMirror == Handler(Plain, Path \o Login \o Repo_SyncMirror)
RepoHandler_DeployUpdate ==
    Handler(Plain, Login \o Path \o Repo_AllowAdminAccess("other", "UnauthorizedError") \o Body
               \o Valid("replicas", "BadRequest") \o Repo_DeployUpdate)
RepoHandler_RuntimeFrameworkListWithType ==
    Handler(Plain, Login \o Query \o Path \o RepoType \o Repo_ListRuntimeFrameworkWithType)
RepoHandler_ServerlessDetail == Handler(Plain, Login \o Path \o Repo_DeployDetail)
RepoHandler_ServerlessLogs ==
    Handler([PermissionError |-> 401],
            Either(<<RepoHandler_testLogs, Path \o Login \o Instance \o Repo_DeployInstanceLogs \o LogStream>>))
RepoHandler_ServerlessStatus == Handler(Plain, DeployStatusStream)
RepoHandler_ServerlessUpdate ==
    Handler(Plain, Login \o Path \o Body \o Valid("replicas", "BadRequest") \o Repo_DeployUpdate)

----------------------------------------------------------------------------
\* Spaces

SpaceHandler_Index == Handler(Plain, Query \o Space_Index)
SpaceHandler_Show == Handler(Refusals, Path \o Space_Show)
SpaceHandler_Create == Handler(Plain, Login \o Body \o CheckRequestV2 \o Space_Create)
SpaceHandler_Update == Handler(Plain, Login \o Body \o CheckRequestV2 \o Path \o Space_Update)
SpaceHandler_Delete == Handler(Plain, Login \o Path \o Space_Delete)
SpaceHandler_Run ==
    Handler(Plain, Login \o Path \o Repo_AllowAdminAccess("other", "UnauthorizedError") \o Space_Deploy)
SpaceHandler_Wakeup == Handler(Plain, Path \o Space_Wakeup)
SpaceHandler_Stop ==
    Handler(Plain, Login \o Path \o Repo_AllowAdminAccess("other", "UnauthorizedError") \o Space_Stop)
SpaceHandler_status == Says("OK")

\* That the caller lacks the role is only logged.
SpaceHandler_Status ==
    Handler(Plain, Either(<<SpaceHandler_status,
                            Path \o repoStore_FindByPath \o IfPrivate(Need("login", "other") \o RoleIn)
                              \o Says("OK") \o Many(Try(Space_Status))>>))
SpaceHandler_testLogs == Says("OK")
SpaceHandler_Logs ==
    Handler(Plain, Either(<<SpaceHandler_testLogs,
                            Path \o Repo_AllowReadAccess("other", "UnauthorizedError") \o Space_Logs
                              \o LogStream>>))
SpaceResourceHandler_Index == Handler(Plain, Query \o SpaceResource_Index)
SpaceResourceHandler_Create == Handler(Plain, Body \o SpaceResource_Create)
SpaceResourceHandler_Update == Handler(Plain, Body \o Path \o SpaceResource_Update)
SpaceResourceHandler_Delete == Handler(Plain, Path \o SpaceResource_Delete)
SpaceSdkHandler_Index == Handler(Plain, SpaceSdk_Index)
SpaceSdkHandler_Create == Handler(Plain, Body \o SpaceSdk_Create)
SpaceSdkHandler_Update == Handler(Plain, Body \o Path \o SpaceSdk_Update)
SpaceSdkHandler_Delete == Handler(Plain, Path \o SpaceSdk_Delete)
=============================================================================
