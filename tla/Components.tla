----------------------------- MODULE Components -----------------------------
(***************************************************************************)
(* The other components of the API server: users, collections,             *)
(* discussions, git over HTTP and SSH, mirrors, runtime architectures,     *)
(* access tokens, SSH keys, the small tables, and the jobs.                *)
(***************************************************************************)
EXTENDS KindComponents

----------------------------------------------------------------------------
\* Users: what belongs to them and what they like

\* Both the user asked for and the one that asks must exist.
Exists == userStore_IsExist \o Valid("user exists", "other")
           \o IfUser(userStore_IsExist \o Valid("current user exists", "other"))

User_Datasets    == Exists \o datasetStore_ByUsername
User_Models      == Exists \o modelStore_ByUsername
User_Codes       == Exists \o codeStore_ByUsername
User_Spaces      == Exists \o Space_UserSpaces
User_Prompts     == Exists \o promptStore_ByUsername
User_Collections == Exists \o collectionStore_ByUsername

User_AddLikes ==
    userStore_FindByUsername \o repoStore_FindByIds \o Repo_visiableToUser
      \o Valid("visible", "other") \o userLikesStore_Add
User_DeleteLikes == userStore_FindByUsername \o userLikesStore_Delete
User_LikeCollection ==
    userStore_FindByUsername \o collectionStore_FindById \o Valid("may see the collection", "other")
      \o userLikesStore_LikeCollection
User_UnLikeCollection == userStore_FindByUsername \o userLikesStore_UnLikeCollection

User_LikesCollection == userStore_FindByUsername \o collectionStore_ByUserLikes
User_LikesSpaces   == userStore_FindByUsername \o Space_UserLikesSpaces
User_LikesCodes    == userStore_FindByUsername \o codeStore_UserLikesCodes
User_LikesModels   == userStore_FindByUsername \o modelStore_UserLikesModels
User_LikesDatasets == userStore_FindByUsername \o datasetStore_UserLikesDatasets

User_ListDeploys ==
    userStore_FindByUsername \o deployTaskStore_ListDeployByUserID
      \o Many(Repo_generateEndpoint \o Try(repoStore_TagsWithCategory))
User_ListInstances == userStore_FindByUsername \o deployTaskStore_ListInstancesByUserID
User_ListServerless ==
    userStore_FindByUsername \o Need("administrator", "other") \o deployTaskStore_ListServerless
User_GetUserByName == userStore_FindByUsername

Accounting_ListMeteringsByUserIDAndTime ==
    userStore_FindByUsername \o Valid("own account", "other") \o accounting_ListMeteringsByUserIDAndTime

----------------------------------------------------------------------------
\* Collections

Collection_GetCollections == collectionStore_GetCollections
Collection_CreateCollection == userStore_FindByUsername \o collectionStore_CreateCollection

Collection_getUserCollectionPermission == IfUser(Opt(userSvc_GetMemberRole))

Collection_GetCollection ==
    collectionStore_GetCollection \o Either(<<Skip, userStore_FindByUsername, orgStore_FindByPath>>)
      \o Collection_getUserCollectionPermission
      \o Valid("may see the collection", "ErrUnauthorized") \o userLikesStore_IsExistCollection
      \o Many(Try(Space_Status))

Collection_UpdateCollection == collectionStore_GetCollection \o collectionStore_UpdateCollection
Collection_DeleteCollection == userStore_FindByUsername \o collectionStore_DeleteCollection

OwnCollection ==
    userStore_FindByUsername \o collectionStore_GetCollection \o Valid("own collection", "other")
Collection_AddReposToCollection == OwnCollection \o collectionStore_AddCollectionRepos
Collection_RemoveReposFromCollection == OwnCollection \o collectionStore_RemoveCollectionRepos
Collection_OrgCollections == IfUser(Try(userSvc_GetMemberRole)) \o collectionStore_ByUserOrgs

----------------------------------------------------------------------------
\* Discussions

Discussion_CreateRepoDiscussion ==
    repoStore_FindByPath \o userStore_FindByUsername \o discussionStore_Create
Discussion_GetDiscussion == discussionStore_FindByID \o discussionStore_FindDiscussionComments
Discussion_UpdateDiscussion ==
    userStore_FindByUsername \o discussionStore_FindByID \o Valid("own discussion", "other")
      \o discussionStore_UpdateByID
Discussion_DeleteDiscussion ==
    discussionStore_FindByID \o Valid("own discussion", "other") \o discussionStore_DeleteByID
Discussion_ListRepoDiscussions == repoStore_FindByPath \o discussionStore_FindByDiscussionableID
Discussion_CreateDiscussionComment ==
    discussionStore_FindByID \o userStore_FindByUsername \o discussionStore_CreateComment

OwnComment ==
    userStore_FindByUsername \o discussionStore_FindCommentByID \o Valid("own comment", "other")
Discussion_UpdateComment == OwnComment \o discussionStore_UpdateComment
Discussion_DeleteComment == OwnComment \o discussionStore_DeleteComment
Discussion_ListDiscussionComments == discussionStore_FindDiscussionComments

----------------------------------------------------------------------------
\* Git over HTTP, and the locks and objects of LFS

MayPush == Repo_AllowWriteAccess("ErrUnauthorized", "ErrForbidden")
MayPull == IfPrivate(Repo_AllowReadAccess("ErrUnauthorized", "ErrForbidden"))

GitHTTP_InfoRefs == repoStore_FindByPath \o If("push", MayPush, MayPull) \o git_InfoRefsResponse
GitHTTP_GitUploadPack == repoStore_FindByPath \o MayPull \o git_UploadPack
GitHTTP_GitReceivePack ==
    repoStore_FindByPath \o As(userStore_FindByUsername, "ErrUnauthorized") \o MayPush \o git_ReceivePack

GitHTTP_buildUploadLink == Try(s3_PresignedPutObject)
GitHTTP_buildObjectResponse ==
    Either(<<Skip, Try(s3_PresignedGetObject),
             GitHTTP_buildUploadLink>>)

\* An object that is stored already is linked to the repository at once.
GitHTTP_BuildObjectResponse ==
    repoStore_FindByPath
      \o Many(Either(<<GitHTTP_buildObjectResponse,
                       Try(s3_StatObject)
                         \o IfFound(Other(lfsMetaObjectStore_FindByOID), Skip,
                                    Opt(Repo_AllowWriteAccess("ErrUnauthorized", "ErrUnauthorized")
                                          \o lfsMetaObjectStore_Create))
                         \o GitHTTP_buildObjectResponse>>))

\* An object that could not be looked for is uploaded.  When that fails it goes on; when
\* the rest fails the row is removed, and the error is that of the removal.
GitHTTP_LfsUpload ==
    repoStore_FindByPath \o Valid("oid", "other")
      \o OrElse(Probe(Look("object"),
                     repoStore_FindByPath
                       \o IfPrivate(Need("login", "other") \o RoleIn
                                      \o If("write", Skip, Valid("hash and size", "other"))),
                     OrElse(s3_PutObject \o Valid("size", "other"), Try(s3_RemoveObject)))
                  \o lfsMetaObjectStore_Create,
                lfsMetaObjectStore_RemoveByOid)

GitHTTP_LfsVerify ==
    repoStore_FindByPath \o s3_StatObject \o Valid("size", "ErrSizeMismatch") \o lfsMetaObjectStore_Create

Locker(allow) ==
    repoStore_FindByPath \o As(userStore_FindByUsername, "ErrUnauthorized") \o allow

\* When the insert fails the handler looks into a lock that is not there: 500.
GitHTTP_CreateLock ==
    Locker(Repo_AllowWriteAccess("other", "ErrUnauthorized"))
      \o IfFound(lfsLockStore_FindByPath, Refuse("ErrAlreadyExists"), lfsLockStore_Create)

GitHTTP_ListLocks ==
    Locker(Repo_AllowReadAccess("other", "ErrUnauthorized"))
      \o Either(<<IfFound(lfsLockStore_FindByID, Skip, Skip), IfFound(lfsLockStore_FindByPath, Skip, Skip),
                  lfsLockStore_FindByRepoID>>)

\* Mutation of GitHTTP_UnLock: it asks whose lock it was when it is gone.
UnLockAnyway ==
    Locker(Repo_AllowWriteAccess("other", "ErrUnauthorized"))
      \o lfsLockStore_RemoveByID
      \o IfFound(lfsLockStore_FindByID, Valid("own lock or force", "ErrPermissionDenied"),
                 Refuse("ErrNotFound"))

GitHTTP_UnLock ==
    Locker(Repo_AllowWriteAccess("other", "ErrUnauthorized"))
      \o IfFound(lfsLockStore_FindByID, Valid("own lock or force", "ErrPermissionDenied"),
                 Refuse("ErrNotFound"))
      \o lfsLockStore_RemoveByID

GitHTTP_VerifyLock == Locker(Repo_AllowReadAccess("other", "ErrUnauthorized")) \o lfsLockStore_FindByRepoID

GitHTTP_LfsDownload ==
    repoStore_FindByPath \o Repo_AllowReadAccess("other", "other") \o lfsMetaObjectStore_FindByOID
      \o s3_PresignedGetObject

\* Git over SSH: gitlab-shell asks (component/internal.go).
Internal_SSHAllowed ==
    namespaceStore_FindByPath \o repoStore_FindByPath \o Valid("key id", "other") \o sshKeyStore_FindByID
      \o Either(<<Skip, MayPush, MayPull>>)
Internal_GetAuthorizedKeys == Valid("key", "other") \o sshKeyStore_FindByFingerpringSHA256
Internal_GetCommitDiff == repoStore_FindByPath \o git_GetDiffBetweenTwoCommits
Internal_LfsAuthenticate ==
    repoStore_FindByPath \o Valid("key id", "other") \o sshKeyStore_FindByID \o MayPull
      \o accessTokenStore_GetUserGitToken

----------------------------------------------------------------------------
\* Mirrors and their sources, by administrators

ByAdministrator == userStore_FindByUsername \o Need("administrator", "other")

\* A name that is taken is tried again with the name of the source in front.
Mirror_CreateMirrorRepo ==
    ByAdministrator
      \o IfFound(repoStore_FindByPath,
                 IfFound(Other(repoStore_FindByPath), Refuse("other"), Skip), Skip)
      \o Other(namespaceStore_FindByPath) \o Repo_CreateRepo
      \o Either(<<Skip, modelStore_Create, datasetStore_Create, codeStore_Create>>)
      \o gitServerAccessTokenStore_FindByType \o Valid("git access token", "other")
      \o mirrorSourceStore_Get \o Opt(mirrorServer_CreateMirrorRepo)
      \o mirrorStore_Create \o Opt(mq_PushRepoMirror \o mirrorStore_Update)

Mirror_Repos == ByAdministrator \o repoStore_WithMirror
Mirror_Index == ByAdministrator \o mirrorStore_IndexWithPagination

MirrorSource_Create == ByAdministrator \o mirrorSourceStore_Create
MirrorSource_Get    == ByAdministrator \o mirrorSourceStore_Get
MirrorSource_Index  == ByAdministrator \o mirrorSourceStore_Index
MirrorSource_Update == ByAdministrator \o mirrorSourceStore_Update
MirrorSource_Delete == ByAdministrator \o mirrorSourceStore_Get \o mirrorSourceStore_Delete

\* The copies that Gitea makes are asked for by a job.
getAllFiles == git_GetRepoFileTree \o Many(git_GetRepoFileTree)
Mirror_countMirrorProgress == getAllFiles \o Many(s3_StatObject)
Mirror_getMirrorStatusAndProgressOnPremise == git_GetMirrorTaskInfo \o Opt(Mirror_countMirrorProgress)
Mirror_getMirrorStatusAndProgressSaas == mirrorServer_GetMirrorTaskInfo \o Opt(Mirror_countMirrorProgress)

\* A state that could not be asked for is only logged, and written as a failed mirror.
Mirror_checkAndUpdateMirrorStatus ==
    Opt(Try(Either(<<Mirror_getMirrorStatusAndProgressSaas, Mirror_getMirrorStatusAndProgressOnPremise>>))
          \o mirrorStore_Update \o Opt(Try(git_GetRepo)) \o repoStore_UpdateRepo)

Mirror_CheckMirrorProgress == mirrorStore_Unfinished \o Many(Try(Mirror_checkAndUpdateMirrorStatus))

Mirror_CreatePushMirrorForFinishedMirrorTask ==
    mirrorStore_NoPushMirror
      \o Many(mirrorServer_GetMirrorTaskInfo
                \o Opt(Try(mirrorServer_CreatePushMirror \o mirrorStore_Update)))

----------------------------------------------------------------------------
\* Copies of the repositories of another server (component/multi_sync.go)

MultiSync_More == syncVersionStore_GetAfter
MultiSync_getUser == userStore_FindByUsername
MultiSync_createUser == git_CreateUser \o userStore_Create
MultiSync_createLocalSyncVersion == syncVersionStore_Create

CreateLocal(create) ==
    IfFound(MultiSync_getUser, Skip, MultiSync_createUser)
      \o repoStore_UpdateOrCreateRepo
      \o Opt(Many(Try(tagStore_FindOrCreate)) \o Try(repoStore_DeleteAllTags) \o Try(repoStore_BatchCreateRepoTags))
      \o Try(repoStore_DeleteAllFiles) \o Try(remote_FileList) \o Opt(Try(fileStore_BatchCreate))
      \o create

MultiSync_createLocalModel == CreateLocal(modelStore_CreateIfNotExist)
MultiSync_createLocalDataset == CreateLocal(datasetStore_CreateIfNotExist)

MultiSync_latest == remote_Latest \o Many(Try(MultiSync_createLocalSyncVersion))

\* The versions are kept first, the repositories they are about after them.
MultiSync_SyncAsClient ==
    IfFound(syncVersionStore_GetLatest, Skip, Skip)
      \o MultiSync_latest \o Opt(MultiSync_latest)
      \o syncVersionStore_GetAfterDistinct
      \o Opt(Try(remote_Info \o Try(remote_ReadMeData)
                    \o Either(<<MultiSync_createLocalModel, MultiSync_createLocalDataset>>)))

SyncClientSetting_Create ==
    syncClientSettingStore_SyncClientSettingExists \o Opt(syncClientSettingStore_DeleteAll)
      \o syncClientSettingStore_Create
SyncClientSetting_Show == IfFound(syncClientSettingStore_First, Skip, Skip)

----------------------------------------------------------------------------
\* Runtime architectures

RuntimeArch_ListByRuntimeFrameworkID == runtimeArchitecturesStore_ListByRuntimeFrameworkID
RuntimeArch_SetArchitectures ==
    runtimeFrameworksStore_FindByID \o Many(Try(runtimeArchitecturesStore_Add))
RuntimeArch_DeleteArchitectures ==
    runtimeFrameworksStore_FindByID \o Many(Try(runtimeArchitecturesStore_DeleteByRuntimeIDAndArchName))

RuntimeArch_getConfigContent == git_GetRepoFileRaw
RuntimeArch_GetArchitectureFromConfig == RuntimeArch_getConfigContent \o Valid("config", "other")
RuntimeArch_IsSupportedModelResource == resourceModelStore_CheckModelNameNotInRFRepo

RuntimeArch_scanExistModels ==
    repoStore_GetRepoWithRuntimeByID
      \o Many(Try(RuntimeArch_GetArchitectureFromConfig
                    \o Opt(repositoriesRuntimeFrameworkStore_Delete)))
RuntimeArch_scanNewModels ==
    repoStore_GetRepoWithoutRuntimeByID
      \o Opt(runtimeFrameworksStore_FindByID \o Try(tagStore_GetTagsByScopeAndCategories)
               \o Opt(Try(RuntimeArch_GetArchitectureFromConfig
                             \o Opt(Try(RuntimeArch_IsSupportedModelResource)
                                      \o Opt(Try(repositoriesRuntimeFrameworkStore_Add)
                                               \o Try(RuntimeArch_AddRuntimeFrameworkTag)
                                               \o Try(RuntimeArch_AddResourceTag))))))

\* The answer does not wait for the scan.
RuntimeArch_ScanArchitecture ==
    runtimeFrameworksStore_FindByID \o runtimeArchitecturesStore_ListByRuntimeFrameworkID
      \o Valid("no other scan", "other")
      \o Go(Opt(Try(RuntimeArch_scanExistModels)) \o Opt(Try(RuntimeArch_scanNewModels)))

----------------------------------------------------------------------------
\* Keys, the small tables, and the other jobs

\* The key is in the git server before its fingerprint is computed.
SSHKey_Create ==
    userStore_FindByUsername
      \o IfFound(Other(sshKeyStore_FindByNameAndUserID), Refuse("other"), Skip)
      \o IfFound(Other(sshKeyStore_FindByKeyContent), Refuse("other"), Skip)
      \o git_CreateSSHKey \o Valid("fingerprint", "other") \o sshKeyStore_Create
SSHKey_Index == sshKeyStore_Index
SSHKey_Delete == sshKeyStore_FindByUsernameAndName \o git_DeleteSSHKey \o sshKeyStore_Delete

SpaceResource_Index ==
    Opt(deployer_ListCluster \o Valid("any cluster", "other")) \o spaceResourceStore_Index
      \o deployer_GetClusterById
SpaceResource_Update == spaceResourceStore_FindByID \o spaceResourceStore_Update
SpaceResource_Create == spaceResourceStore_Create
SpaceResource_Delete == spaceResourceStore_FindByID \o spaceResourceStore_Delete

SpaceSdk_Index  == spaceSdkStore_Index
SpaceSdk_Update == spaceSdkStore_FindByID \o spaceSdkStore_Update
SpaceSdk_Create == spaceSdkStore_Create
SpaceSdk_Delete == spaceSdkStore_FindByID \o spaceSdkStore_Delete

Cluster_Index == deployer_ListCluster
Cluster_GetClusterById == deployer_GetClusterById
Cluster_Update == deployer_UpdateCluster

Event_NewEvents == eventStore_BatchSave

List_ListModelsByPath == modelStore_ListByPath
List_ListDatasetsByPath == datasetStore_ListByPath

Telemetry_SaveUsageData == telemetryStore_Save
Telemetry_getUserCnt == userStore_GetActiveUserCount
Telemetry_getCounts ==
    repoStore_CountByRepoType \o repoStore_CountByRepoType \o repoStore_CountByRepoType
      \o repoStore_CountByRepoType
Telemetry_GenUsageData == Telemetry_getUserCnt \o Telemetry_getCounts

\* Checks of the words of a request, when they are enabled.  One field stands for all.
Sensitive_CheckText == Opt(sensitiveChecker_PassTextCheck)
Sensitive_CheckImage == Opt(sensitiveChecker_PassImageCheck)
Sensitive_CheckRequestV2 ==
    Opt(sensitiveChecker_PassTextCheck \o Valid("no sensitive words", "other"))
CheckRequestV2 == As(Sensitive_CheckRequestV2, "BadRequest")

Recom_SetOpWeight == repoStore_FindById \o recomStore_UpsetOpWeights
Recom_loadWeights == recomStore_LoadWeights
Recom_calcQualityScore == getFilePaths
Recom_CalcTotalScore == Try(Recom_calcQualityScore)
Recom_CalculateRecomScore ==
    Try(Recom_loadWeights \o repoStore_All
          \o Many(Recom_CalcTotalScore \o Try(recomStore_UpsertScore)))
=============================================================================
