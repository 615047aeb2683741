------------------------------- MODULE Router -------------------------------
(***************************************************************************)
(* api/router and api/middleware: the routes of the API and of the proxy   *)
(* in front of the instances, and what stands before their handlers.       *)
(* Routes for repositories are registered once for each kind; their        *)
(* handlers are the same, and so are their routes here.  A route that is   *)
(* forwarded to the user service is also a route of UserService.           *)
(***************************************************************************)
EXTENDS Handlers, Services, TLC

----------------------------------------------------------------------------
\* Middleware

\* A name that is empty without its .git is answered, and the request goes on.
GitHTTPParamMiddleware == If("name of a repository", Skip, Says("BadRequest"))

\* git sends a name and a token; the name must be the one of the token's owner,
\* or the request goes on without a user.
GetCurrentUserFromHeader ==
    If("Authorization header",
       Opt(Valid("base64", "UnauthorizedError") \o Valid("name and password", "ServerError")
             \o As(userStore_FindByGitAccessToken, "UnauthorizedError")),
       Skip)

ContentEncoding == Valid("encoding", "BadRequest")

\* A repository may be asked for by the name it has on the server it was copied from.
RepoMapping == Opt(Try(mirrorStore_FindWithMapping))

CheckGitlabShellJWTToken == Valid("token of gitlab-shell", "UnauthorizedError")

\* Spaces are opened in a browser: the token comes once in the query, and is kept in a session.
BuildJwtSession == If("jwt in query", Valid("jwt of the query", "UnauthorizedError"), Skip)
AuthSession == If("session", Skip, Skip)

\* An answer of the last minute is given again.
Cached(h) == [h EXCEPT !.run = Either(<<Skip, @>>)]

----------------------------------------------------------------------------
\* Routes of the API

WithKey(r) == [n \in DOMAIN r |-> Through(OnlyAPIKeyAuthenticator, r[n])]
Mapped(r)  == [n \in DOMAIN r |-> Through(RepoMapping, r[n])]

repoRoutes ==
    [Branches |-> RepoHandler_Branches, Tags |-> RepoHandler_Tags,
     UpdateTags |-> RepoHandler_UpdateTags, LastCommit |-> RepoHandler_LastCommit,
     CommitWithDiff |-> RepoHandler_CommitWithDiff, Tree |-> RepoHandler_Tree,
     Commits |-> RepoHandler_Commits, CreateFile |-> RepoHandler_CreateFile,
     FileRaw |-> RepoHandler_FileRaw, FileInfo |-> RepoHandler_FileInfo,
     DownloadFile |-> RepoHandler_DownloadFile,
     ResolveDownload |-> RepoHandler_ResolveDownload, UpdateFile |-> RepoHandler_UpdateFile,
     UpdateDownloads |-> RepoHandler_UpdateDownloads,
     IncrDownloads |-> RepoHandler_IncrDownloads, UploadFile |-> RepoHandler_UploadFile,
     CreateMirror |-> RepoHandler_CreateMirror, GetMirror |-> RepoHandler_GetMirror,
     UpdateMirror |-> RepoHandler_UpdateMirror, DeleteMirror |-> RepoHandler_DeleteMirror,
     SyncMirror |-> RepoHandler_SyncMirror, MirrorFromSaas |-> RepoHandler_MirrorFromSaas]

deployRoutes ==
    [DeployList |-> RepoHandler_DeployList, DeployDetail |-> RepoHandler_DeployDetail,
     DeployStatus |-> RepoHandler_DeployStatus,
     DeployInstanceLogs |-> RepoHandler_DeployInstanceLogs]

createModelRoutes ==
    [Create |-> ModelHandler_Create, Index |-> ModelHandler_Index,
     Update |-> ModelHandler_Update, Delete |-> ModelHandler_Delete,
     Show |-> ModelHandler_Show, AllFiles |-> ModelHandler_AllFiles,
     Relations |-> ModelHandler_Relations, SetRelations |-> ModelHandler_SetRelations,
     AddDatasetRelation |-> ModelHandler_AddDatasetRelation,
     DelDatasetRelation |-> ModelHandler_DelDatasetRelation,
     Predict |-> ModelHandler_Predict,
     RuntimeFrameworkList |-> RepoHandler_RuntimeFrameworkList,
     DeployDedicated |-> ModelHandler_DeployDedicated,
     DeployDelete |-> ModelHandler_DeployDelete, DeployUpdate |-> RepoHandler_DeployUpdate,
     DeployStop |-> ModelHandler_DeployStop, DeployStart |-> ModelHandler_DeployStart,
     RuntimeFrameworkListWithType |-> RepoHandler_RuntimeFrameworkListWithType,
     FinetuneCreate |-> ModelHandler_FinetuneCreate,
     FinetuneStop |-> ModelHandler_FinetuneStop,
     FinetuneStart |-> ModelHandler_FinetuneStart,
     FinetuneDelete |-> ModelHandler_FinetuneDelete,
     GetDeployServerless |-> ModelHandler_GetDeployServerless,
     DeployServerless |-> ModelHandler_DeployServerless,
     ServerlessStart |-> ModelHandler_ServerlessStart,
     ServerlessStop |-> ModelHandler_ServerlessStop,
     ServerlessDetail |-> RepoHandler_ServerlessDetail,
     ServerlessStatus |-> RepoHandler_ServerlessStatus,
     ServerlessLogs |-> RepoHandler_ServerlessLogs,
     ServerlessUpdate |-> RepoHandler_ServerlessUpdate]
      @@ WithKey(
    [RuntimeFrameworkCreate |-> RepoHandler_RuntimeFrameworkCreate,
     RuntimeFrameworkUpdate |-> RepoHandler_RuntimeFrameworkUpdate,
     RuntimeFrameworkDelete |-> RepoHandler_RuntimeFrameworkDelete])

createDatasetRoutes ==
    [Create |-> DatasetHandler_Create, Index |-> DatasetHandler_Index,
     Update |-> DatasetHandler_Update, Delete |-> DatasetHandler_Delete,
     Show |-> DatasetHandler_Show, AllFiles |-> DatasetHandler_AllFiles,
     Relations |-> DatasetHandler_Relations]

createCodeRoutes ==
    [Create |-> CodeHandler_Create, Index |-> CodeHandler_Index,
     Update |-> CodeHandler_Update, Delete |-> CodeHandler_Delete,
     Show |-> CodeHandler_Show, Relations |-> CodeHandler_Relations]

\* The webhook of a space has no handler: to call it is a panic.
createSpaceRoutes ==
    [Index |-> SpaceHandler_Index, Create |-> SpaceHandler_Create,
     Show |-> SpaceHandler_Show, Update |-> SpaceHandler_Update,
     Delete |-> SpaceHandler_Delete, Run |-> SpaceHandler_Run,
     Wakeup |-> SpaceHandler_Wakeup, Stop |-> SpaceHandler_Stop,
     Status |-> SpaceHandler_Status, Logs |-> SpaceHandler_Logs,
     Webhook |-> Handler(Plain, Refuse("ServerError"))]

createUserRoutes ==
    [ProxyToApi |-> InternalServiceProxyHandler_ProxyToApi,
     Proxy |-> InternalServiceProxyHandler_Proxy, Models |-> UserHandler_Models,
     Datasets |-> UserHandler_Datasets, Codes |-> UserHandler_Codes,
     Spaces |-> UserHandler_Spaces, Prompts |-> UserHandler_Prompts,
     LikesAdd |-> UserHandler_LikesAdd, LikesDelete |-> UserHandler_LikesDelete,
     LikesSpaces |-> UserHandler_LikesSpaces, LikesCodes |-> UserHandler_LikesCodes,
     LikesModels |-> UserHandler_LikesModels, LikesDatasets |-> UserHandler_LikesDatasets,
     GetRunDeploys |-> UserHandler_GetRunDeploys,
     GetFinetuneInstances |-> UserHandler_GetFinetuneInstances,
     UserCollections |-> UserHandler_UserCollections,
     LikesCollections |-> UserHandler_LikesCollections,
     LikeCollection |-> UserHandler_LikeCollection,
     UnLikeCollection |-> UserHandler_UnLikeCollection]
      @@ WithKey([GetRunServerless |-> UserHandler_GetRunServerless])

createRuntimeFrameworkRoutes ==
    [ListByRuntimeFrameworkID |-> ModelHandler_ListByRuntimeFrameworkID,
     ListAllRuntimeFramework |-> ModelHandler_ListAllRuntimeFramework,
     ListModelsOfRuntimeFrameworks |-> ModelHandler_ListModelsOfRuntimeFrameworks]
      @@ WithKey(
    [UpdateModelRuntimeFrameworks |-> ModelHandler_UpdateModelRuntimeFrameworks,
     DeleteModelRuntimeFrameworks |-> ModelHandler_DeleteModelRuntimeFrameworks])

architectureRoutes == WithKey(
    [ListByRuntimeFrameworkID |-> RuntimeArchitectureHandler_ListByRuntimeFrameworkID,
     UpdateArchitecture |-> RuntimeArchitectureHandler_UpdateArchitecture,
     DeleteArchitecture |-> RuntimeArchitectureHandler_DeleteArchitecture,
     ScanArchitecture |-> RuntimeArchitectureHandler_ScanArchitecture])

createAccountRoutes ==
    [QueryMeteringStatementByUserID |-> AccountingHandler_QueryMeteringStatementByUserID]

createHFRoutes ==
    [UserPermission |-> UserHandler_UserPermission,
     DatasetPathsInfo |-> HFDatasetHandler_DatasetPathsInfo,
     DatasetTree |-> HFDatasetHandler_DatasetTree,
     HandleHFYaml |-> HFDatasetHandler_HandleHFYaml]
      @@ Mapped(
    [SDKDownload |-> RepoHandler_SDKDownload,
     HeadSDKDownload |-> RepoHandler_HeadSDKDownload,
     SDKModelInfo |-> ModelHandler_SDKModelInfo, SDKListFiles |-> RepoHandler_SDKListFiles])

createDiscussionRoutes ==
    [CreateRepoDiscussion |-> DiscussionHandler_CreateRepoDiscussion,
     ListRepoDiscussions |-> DiscussionHandler_ListRepoDiscussions,
     ShowDiscussion |-> DiscussionHandler_ShowDiscussion,
     UpdateDiscussion |-> DiscussionHandler_UpdateDiscussion,
     DeleteDiscussion |-> DiscussionHandler_DeleteDiscussion,
     CreateDiscussionComment |-> DiscussionHandler_CreateDiscussionComment,
     ListDiscussionComments |-> DiscussionHandler_ListDiscussionComments,
     UpdateComment |-> DiscussionHandler_UpdateComment,
     DeleteComment |-> DiscussionHandler_DeleteComment]

createPromptRoutes ==
    [Index |-> PromptHandler_Index, ListPrompt |-> PromptHandler_ListPrompt,
     Relations |-> PromptHandler_Relations, GetPrompt |-> PromptHandler_GetPrompt,
     CreatePrompt |-> PromptHandler_CreatePrompt,
     UpdatePrompt |-> PromptHandler_UpdatePrompt,
     DeletePrompt |-> PromptHandler_DeletePrompt,
     SetRelations |-> PromptHandler_SetRelations,
     AddModelRelation |-> PromptHandler_AddModelRelation,
     DelModelRelation |-> PromptHandler_DelModelRelation,
     NewConversation |-> PromptHandler_NewConversation,
     ListConversation |-> PromptHandler_ListConversation,
     GetConversation |-> PromptHandler_GetConversation,
     SubmitMessage |-> PromptHandler_SubmitMessage,
     UpdateConversation |-> PromptHandler_UpdateConversation,
     RemoveConversation |-> PromptHandler_RemoveConversation,
     LikeMessage |-> PromptHandler_LikeMessage, HateMessage |-> PromptHandler_HateMessage,
     Create |-> PromptHandler_Create, Update |-> PromptHandler_Update,
     Delete |-> PromptHandler_Delete, Branches |-> PromptHandler_Branches,
     Tags |-> PromptHandler_Tags, UpdateTags |-> PromptHandler_UpdateTags,
     UpdateDownloads |-> PromptHandler_UpdateDownloads]

\* Git over HTTP has its own authentication.
gitHTTP ==
    LET All == [InfoRefs |-> GitHTTPHandler_InfoRefs, LfsBatch |-> GitHTTPHandler_LfsBatch,
                LfsUpload |-> GitHTTPHandler_LfsUpload, LfsDownload |-> GitHTTPHandler_LfsDownload,
                LfsVerify |-> GitHTTPHandler_LfsVerify, ListLocks |-> GitHTTPHandler_ListLocks,
                CreateLock |-> GitHTTPHandler_CreateLock, VerifyLock |-> GitHTTPHandler_VerifyLock,
                UnLock |-> GitHTTPHandler_UnLock]
        Packs == [GitUploadPack |-> GitHTTPHandler_GitUploadPack,
                  GitReceivePack |-> GitHTTPHandler_GitReceivePack]
    IN  [n \in DOMAIN All \cup DOMAIN Packs |->
           Through(GitHTTPParamMiddleware \o GetCurrentUserFromHeader,
                   IF n \in DOMAIN All THEN All[n] ELSE Through(ContentEncoding, Packs[n]))]

internalRoutes ==
    LET All == [GetAuthorizedKeys |-> InternalHandler_GetAuthorizedKeys,
                SSHAllowed |-> InternalHandler_SSHAllowed, PreReceive |-> InternalHandler_PreReceive,
                LfsAuthenticate |-> InternalHandler_LfsAuthenticate,
                PostReceive |-> InternalHandler_PostReceive, Allowed |-> InternalHandler_Allowed]
    IN  [n \in DOMAIN All |-> Through(CheckGitlabShellJWTToken, All[n])]

listRoutes ==
    LET All == [ListModelsByPath |-> ListHandler_ListModelsByPath,
                ListDatasetsByPath |-> ListHandler_ListDatasetsByPath,
                ListSpacesByPath |-> ListHandler_ListSpacesByPath]
    IN  [n \in DOMAIN All |-> Cached(All[n])]

Group(g, r) == {Route(<<g, n>>, Through(Authenticator, r[n])) : n \in DOMAIN r}
GitGroup(g, r) == {Route(<<g, n>>, r[n]) : n \in DOMAIN r}

NewRouter ==
    GitGroup("git", gitHTTP) \cup Group("hf", createHFRoutes) \cup Group("list", listRoutes)
    \cup Group("repository", repoRoutes) \cup Group("run", deployRoutes)
    \cup Group("models", createModelRoutes) \cup Group("datasets", createDatasetRoutes)
    \cup Group("codes", createCodeRoutes) \cup Group("spaces", createSpaceRoutes)
    \cup Group("user", createUserRoutes) \cup Group("runtime_framework", createRuntimeFrameworkRoutes)
    \cup Group("architecture", architectureRoutes) \cup Group("accounting", createAccountRoutes)
    \cup Group("internal", internalRoutes) \cup Group("discussions", createDiscussionRoutes)
    \cup Group("prompts", createPromptRoutes)
    \cup Group("space_resources",
               [Index |-> SpaceResourceHandler_Index] @@ WithKey([Create |-> SpaceResourceHandler_Create, Update |-> SpaceResourceHandler_Update,
               Delete |-> SpaceResourceHandler_Delete]))
    \cup Group("space_sdks",
               [Index |-> SpaceSdkHandler_Index] @@ WithKey([Create |-> SpaceSdkHandler_Create, Update |-> SpaceSdkHandler_Update,
               Delete |-> SpaceSdkHandler_Delete]))
    \cup Group("ssh_keys",
               [Index |-> SSHKeyHandler_Index, Create |-> SSHKeyHandler_Create,
               Delete |-> SSHKeyHandler_Delete])
    \cup Group("organization",
               [Models |-> OrganizationHandler_Models, Datasets |-> OrganizationHandler_Datasets,
               Codes |-> OrganizationHandler_Codes, Spaces |-> OrganizationHandler_Spaces,
               Collections |-> OrganizationHandler_Collections,
               Prompts |-> OrganizationHandler_Prompts])
    \cup Group("callback/git",
               [Handle |-> GitCallbackHandler_Handle])
    \cup Group("sensitive",
               [Text |-> SensitiveHandler_Text, Image |-> SensitiveHandler_Image])
    \cup Group("mirror",
               [Index |-> MirrorHandler_Index, CreateMirrorRepo |-> MirrorHandler_CreateMirrorRepo,
               Repos |-> MirrorHandler_Repos])
    \cup Group("mirror/sources",
               [Index |-> MirrorSourceHandler_Index, Create |-> MirrorSourceHandler_Create,
               Update |-> MirrorSourceHandler_Update, Delete |-> MirrorSourceHandler_Delete,
               Get |-> MirrorSourceHandler_Get])
    \cup Group("collections",
               [Index |-> CollectionHandler_Index, Create |-> CollectionHandler_Create,
               GetCollection |-> CollectionHandler_GetCollection,
               UpdateCollection |-> CollectionHandler_UpdateCollection,
               DeleteCollection |-> CollectionHandler_DeleteCollection,
               AddRepoToCollection |-> CollectionHandler_AddRepoToCollection,
               RemoveRepoFromCollection |-> CollectionHandler_RemoveRepoFromCollection])
    \cup Group("cluster",
               [Index |-> ClusterHandler_Index, GetClusterById |-> ClusterHandler_GetClusterById] @@ WithKey([Update |-> ClusterHandler_Update]))
    \cup Group("events",
               [Create |-> EventHandler_Create])
    \cup Group("sync",
               [Latest |-> SyncHandler_Latest, Show |-> SyncClientSettingHandler_Show,
               Create |-> SyncClientSettingHandler_Create])
    \cup Group("telemetry",
               [Usage |-> TelemetryHandler_Usage])
    \cup Group("tags",
               [AllTags |-> TagsHandler_AllTags])
    \cup Group("recom",
               WithKey([SetOpWeight |-> RecomHandler_SetOpWeight]))
    \cup Group("viewer",
               [View |-> DatasetViewerHandler_View])

----------------------------------------------------------------------------
\* The proxy in front of the instances, and the jobs of cron

NewRProxyRouter ==
    {Route(<<"rproxy", "Proxy">>,
           Through(BuildJwtSession \o Authenticator \o AuthSession, RProxyHandler_Proxy))}

Job(n, p) == Route(<<"job", n>>, Handler(Plain, p))
Jobs ==
    {Job("SyncAsClient", MultiSync_SyncAsClient), Job("CheckMirrorProgress", Mirror_CheckMirrorProgress),
     Job("CreatePushMirror", Mirror_CreatePushMirrorForFinishedMirrorTask),
     Job("CalculateRecomScore", Recom_CalculateRecomScore), Job("GenUsageData", Telemetry_GenUsageData)}

AllRoutes == NewRouter \cup UserRoutes \cup ServiceRoutes \cup NewRProxyRouter \cup Jobs
=============================================================================
