-------------------------- MODULE KindComponents --------------------------
(***************************************************************************)
(* component/model.go, dataset.go, code.go, space.go and prompt.go: what   *)
(* requests about one kind of repository do beyond RepoComponent.          *)
(***************************************************************************)
EXTENDS RepoComponent

\* The files that a new repository begins with.
FirstFiles == git_CreateRepoFile \o git_CreateRepoFile

\* The metadata of the readme is read, changed and written back.
GetMetaMapFromReadMe == git_GetRepoFileContents \o Valid("metadata of the readme", "other")
EditReadme == GetMetaMapFromReadMe \o git_UpdateRepoFile

\* Whoever may not read, and whatever fails meanwhile, is refused alike.
MayReadRepo == Repo_AllowReadAccessRepo("ErrUnauthorized", "ErrUnauthorized")

Administrated == userStore_FindByUsername \o Need("administrator", "other") \o repoStore_FindByPath

----------------------------------------------------------------------------
\* Spaces

Space_hasEntryFile == Try(git_GetRepoFileTree)
Space_HasEntryFile == Space_hasEntryFile
Space_FixHasEntryFile == Space_HasEntryFile \o Opt(Try(spaceStore_Update))

Space_status == If("has an app file", deployTaskStore_GetLatestDeployBySpaceID \o deployer_Status, Skip)

Space_Create ==
    spaceResourceStore_FindByID \o Valid("hardware", "other") \o deployer_CheckResourceAvailable
      \o Repo_CreateRepo \o spaceStore_Create \o FirstFiles \o Opt(git_CreateRepoFile)

Space_Show ==
    spaceStore_FindByPath \o Repo_getUserRepoPermission \o Need("read", "ErrUnauthorized")
      \o Repo_getNameSpaceInfo \o Try(Space_status) \o userLikesStore_IsExist

Space_mergeUpdateSpaceRequest == Opt(spaceResourceStore_FindByID)

Space_Update ==
    Repo_UpdateRepo \o spaceStore_ByRepoID \o Space_mergeUpdateSpaceRequest \o spaceStore_Update

Space_Index == Repo_PublicToUser \o spaceStore_ByRepoIDs \o Many(Try(Space_status))
Space_OrgSpaces ==
    IfUser(Try(userSvc_GetMemberRole)) \o spaceStore_ByOrgPath \o Many(Try(Space_status))
Space_UserSpaces == spaceStore_ByUsername \o Many(Try(Space_status))
Space_UserLikesSpaces == spaceStore_ByUserLikes \o Many(Try(Space_status))
Space_ListByPath == spaceStore_ListByPath \o Many(Try(Space_status))

Space_AllowCallApi ==
    Need("login", "ErrUserNotFound") \o spaceStore_ByID \o Repo_AllowReadAccess("other", "ErrUnauthorized")

Space_Stop ==
    spaceStore_FindByPath \o deployTaskStore_GetLatestDeployBySpaceID
      \o deployer_Stop \o deployTaskStore_StopDeploy

\* The instance is stopped in a goroutine that looks for the row again.
Space_Delete ==
    spaceStore_FindByPath \o Repo_DeleteRepo \o spaceStore_Delete \o Go(Space_Stop)

Space_Deploy == spaceStore_FindByPath \o userStore_FindByUsername \o deployer_Deploy

Space_Wakeup == spaceStore_FindByPath \o deployTaskStore_GetLatestDeployBySpaceID \o deployer_Wakeup
Space_Status == spaceStore_FindByPath \o Space_status
Space_Logs == spaceStore_FindByPath \o deployer_Logs

----------------------------------------------------------------------------
\* Models

Model_Index == Repo_PublicToUser \o modelStore_ByRepoIDs

Model_Create == userStore_FindByUsername \o Repo_CreateRepo \o modelStore_Create \o FirstFiles

Model_Update == Repo_UpdateRepo \o modelStore_ByRepoID \o modelStore_Update
Model_Delete == modelStore_FindByPath \o Repo_DeleteRepo \o modelStore_Delete

Model_Show ==
    modelStore_FindByPath \o Repo_getUserRepoPermission \o Need("read", "ErrUnauthorized")
      \o Repo_getNameSpaceInfo \o userLikesStore_IsExist
      \o Try(repositoriesRuntimeFrameworkStore_GetByRepoIDsAndType)
      \o Try(repositoriesRuntimeFrameworkStore_GetByRepoIDsAndType)

Model_GetServerless ==
    modelStore_FindByPath \o MayReadRepo
      \o deployTaskStore_GetServerlessDeployByRepID \o Opt(Repo_generateEndpoint)

Model_SDKModelInfo ==
    modelStore_FindByPath \o MayReadRepo
      \o getFilePaths \o git_GetRepoLastCommit \o Try(Repo_relatedRepos)

Model_getRelations == Repo_relatedRepos \o Space_ListByPath

Model_Relations ==
    modelStore_FindByPath \o MayReadRepo \o Model_getRelations

Model_SetRelationDatasets == Administrated \o EditReadme
Model_AddRelationDataset == Administrated \o EditReadme
Model_DelRelationDataset == Administrated \o Either(<<GetMetaMapFromReadMe, EditReadme>>)

Model_Predict == inference_Predict

\* A serverless deployment is made once, by an administrator.
Model_makeDeploy ==
    runtimeFrameworksStore_FindEnabledByID \o spaceResourceStore_FindByID
      \o Valid("hardware", "other") \o deployer_CheckResourceAvailable \o deployer_Deploy

Model_Deploy ==
    modelStore_FindByPath
      \o If("serverless",
            deployTaskStore_GetServerlessDeployByRepID
              \o If("deployed", Skip,
                    userStore_FindByUsername \o Need("administrator", "other") \o Model_makeDeploy),
            userStore_FindByUsername \o Model_makeDeploy)

Model_ListModelsByRuntimeFrameworkID ==
    IfUser(userStore_FindByUsername) \o repositoriesRuntimeFrameworkStore_ListByRuntimeFrameworkID
      \o Opt(repoStore_ListRepoPublicToUserByRepoIDs)

Model_ListAllByRuntimeFramework == runtimeFrameworksStore_ListAll

RuntimeArch_AddRuntimeFrameworkTag == runtimeFrameworksStore_FindByID \o Many(Try(tagStore_UpsertRepoTags))
RuntimeArch_AddResourceTag == resourceModelStore_FindByModelName \o Many(Try(tagStore_UpsertRepoTags))

\* A relation that could not be added is in the answer; its tags are added.
Model_SetRuntimeFrameworkModes ==
    runtimeFrameworksStore_FindByID \o modelStore_ListByPath
      \o Try(tagStore_GetTagsByScopeAndCategories)
      \o Many(repositoriesRuntimeFrameworkStore_GetByIDsAndType
                \o Opt(Try(repositoriesRuntimeFrameworkStore_Add)
                         \o RuntimeArch_AddRuntimeFrameworkTag \o RuntimeArch_AddResourceTag))

Model_DeleteRuntimeFrameworkModes ==
    modelStore_ListByPath \o Many(Try(repositoriesRuntimeFrameworkStore_Delete))

Model_ListModelsOfRuntimeFrameworks ==
    userStore_FindByUsername \o repositoriesRuntimeFrameworkStore_ListRepoIDsByType
      \o Opt(repoStore_ListRepoPublicToUserByRepoIDs)

Model_OrgModels == IfUser(Try(userSvc_GetMemberRole)) \o modelStore_ByOrgPath

----------------------------------------------------------------------------
\* Datasets

Dataset_Create == MayWriteIn \o Repo_CreateRepo \o datasetStore_Create \o FirstFiles
Dataset_commonIndex == Repo_PublicToUser \o datasetStore_ByRepoIDs
Dataset_Index == Dataset_commonIndex
Dataset_Update == Repo_UpdateRepo \o datasetStore_ByRepoID \o datasetStore_Update
Dataset_Delete == datasetStore_FindByPath \o Repo_DeleteRepo \o datasetStore_Delete

Dataset_Show ==
    datasetStore_FindByPath \o Repo_getUserRepoPermission \o Need("read", "ErrUnauthorized")
      \o Repo_getNameSpaceInfo \o userLikesStore_IsExist

Dataset_getRelations == Repo_relatedRepos
Dataset_Relations ==
    datasetStore_FindByPath \o MayReadRepo \o Dataset_getRelations

Dataset_OrgDatasets == IfUser(Try(userSvc_GetMemberRole)) \o datasetStore_ByOrgPath

\* Files that cannot be read are not in the answer.
HFDataset_GetPathsInfo ==
    datasetStore_FindByPath \o Repo_AllowReadAccessRepo("other", "ErrUnauthorized")
      \o Try(git_GetRepoFileContents)
HFDataset_GetDatasetTree ==
    datasetStore_FindByPath \o Repo_AllowReadAccessRepo("other", "ErrUnauthorized")
      \o Try(git_GetRepoFileTree)

\* That there is no reader is only logged; its first use panics, which gin answers with 500.
DatasetViewer_lazyInit == Opt(Try(Ask("s3")))
DatasetViewer_getParquetObject == git_GetRepoFileContents
DatasetViewer_ViewParquetFile ==
    DatasetViewer_lazyInit \o DatasetViewer_getParquetObject
      \o Valid("reader", "other") \o parquet_TopN

----------------------------------------------------------------------------
\* Codes

Code_Create == Repo_CreateRepo \o codeStore_Create \o FirstFiles

\* A repository without its code panics, which gin answers with 500.
Code_Index == Repo_PublicToUser \o codeStore_ByRepoIDs \o Opt(Refuse("other"))

Code_Update == Repo_UpdateRepo \o codeStore_ByRepoID \o codeStore_Update
Code_Delete == codeStore_FindByPath \o Repo_DeleteRepo \o codeStore_Delete

Code_Show ==
    codeStore_FindByPath \o Repo_getUserRepoPermission \o Need("read", "ErrUnauthorized")
      \o Repo_getNameSpaceInfo \o userLikesStore_IsExist

Code_getRelations == Repo_relatedRepos
Code_Relations ==
    codeStore_FindByPath \o MayReadRepo \o Code_getRelations

Code_OrgCodes == IfUser(Try(userSvc_GetMemberRole)) \o codeStore_ByOrgPath

----------------------------------------------------------------------------
\* Prompts

Prompt_ParseJsonFile == git_GetRepoFileContents \o Valid("json", "other")

\* The files are read by goroutines that are waited for.  For a file that cannot be
\* parsed the one that collects them gets nil, and dereferences it.
Prompt_ListPrompt ==
    repoStore_FindByPath \o Repo_AllowReadAccessRepo("other", "ErrUnauthorized") \o getFilePaths
      \o Valid("any files", "other") \o Many(OrElse(Prompt_ParseJsonFile, Crash))

Prompt_GetPrompt ==
    repoStore_FindByPath \o Repo_getUserRepoPermission \o Need("read", "ErrUnauthorized")
      \o Prompt_ParseJsonFile

\* A file that could not be looked for does not exist.
Prompt_checkFileExist == Look("git file")
Prompt_checkPromptRepoPermission == MayWriteIn

Prompt_CreatePrompt ==
    Prompt_checkPromptRepoPermission \o Probe(Prompt_checkFileExist, Refuse("other"), Repo_CreateFile)
Prompt_UpdatePrompt ==
    Prompt_checkPromptRepoPermission \o Valid("suffix", "other")
      \o Probe(Prompt_checkFileExist, Repo_UpdateFile, Refuse("other"))
Prompt_DeletePrompt ==
    Prompt_checkPromptRepoPermission \o Valid("suffix", "other") \o Repo_DeleteFile

Prompt_NewConversation == userStore_FindByUsername \o promptConversationStore_CreateConversation
Prompt_ListConversationsByUserID ==
    userStore_FindByUsername \o promptConversationStore_FindConversationsByUserID
Prompt_GetConversation == userStore_FindByUsername \o promptConversationStore_GetConversationByID

\* The message is kept before the model is asked, whatever the model says.
Prompt_SubmitMessage ==
    userStore_FindByUsername \o promptConversationStore_GetConversationByID
      \o promptConversationStore_SaveConversationMessage
      \o llmConfigStore_GetOptimization \o Valid("header", "other")
      \o Try(promptPrefixStore_Get) \o llm_Chat

Prompt_SaveGeneratedText == promptConversationStore_SaveConversationMessage
Prompt_RemoveConversation ==
    userStore_FindByUsername \o promptConversationStore_DeleteConversationsByID
Prompt_UpdateConversation ==
    userStore_FindByUsername \o promptConversationStore_UpdateConversation
      \o promptConversationStore_GetConversationByID
Prompt_LikeConversationMessage ==
    userStore_FindByUsername \o promptConversationStore_GetConversationByID
      \o promptConversationStore_LikeMessageByID
Prompt_HateConversationMessage ==
    userStore_FindByUsername \o promptConversationStore_GetConversationByID
      \o promptConversationStore_HateMessageByID

Prompt_SetRelationModels == Administrated \o EditReadme
Prompt_AddRelationModel == Administrated \o EditReadme
Prompt_DelRelationModel == Administrated \o Either(<<GetMetaMapFromReadMe, EditReadme>>)

Prompt_CreatePromptRepo == MayWriteIn \o Repo_CreateRepo \o promptStore_Create \o FirstFiles
Prompt_IndexPromptRepo == Repo_PublicToUser \o promptStore_ByRepoIDs
Prompt_UpdatePromptRepo == Repo_UpdateRepo \o promptStore_ByRepoID \o promptStore_Update
Prompt_RemoveRepo == promptStore_FindByPath \o Repo_DeleteRepo \o promptStore_Delete

Prompt_Show ==
    promptStore_FindByPath \o Repo_getUserRepoPermission \o Need("read", "ErrUnauthorized")
      \o Repo_getNameSpaceInfo \o userLikesStore_IsExist

Prompt_getRelations == Repo_relatedRepos
Prompt_Relations ==
    promptStore_FindByPath \o MayReadRepo \o Prompt_getRelations

Prompt_OrgPrompts == IfUser(Try(userSvc_GetMemberRole)) \o promptStore_ByOrgPath
=============================================================================
