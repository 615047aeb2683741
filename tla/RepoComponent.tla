--------------------------- MODULE RepoComponent ---------------------------
(***************************************************************************)
(* component/repo.go, component/tag.go and component/repo_file.go: what a  *)
(* request about a repository of any kind does.                            *)
(***************************************************************************)
EXTENDS Servers

----------------------------------------------------------------------------
\* Who may do what

\* The role of the user in the namespace, by the user service for organizations.
RoleIn == namespaceStore_FindByPath \o Opt(userSvc_GetMemberRole)

Repo_getUserRepoPermission == IfUser(RoleIn)

\* The calls that fail return the error failed; without the role it is refused.
Repo_checkCurrentUserPermission(role, refused) == RoleIn \o Need(role, refused)

Fails(p, e) == IF e = "other" THEN p ELSE As(p, e)

AccessRepo(role, failed, refused) ==
    IfPrivate(Need("login", failed) \o Fails(RoleIn, failed) \o Need(role, refused))

Repo_AllowReadAccessRepo(failed, refused) == AccessRepo("member", failed, refused)

Repo_AllowReadAccess(failed, refused) ==
    Fails(repoStore_FindByPath, failed) \o Repo_AllowReadAccessRepo(failed, refused)

Repo_AllowWriteAccess(failed, refused) ==
    Fails(repoStore_FindByPath, failed) \o AccessRepo("write", failed, refused)

Repo_AllowAdminAccess(failed, refused) ==
    Fails(repoStore_FindByPath, failed) \o AccessRepo("admin", failed, refused)

\* The beginning of most requests about the contents of a repository.
Readable == repoStore_FindByPath \o Repo_getUserRepoPermission \o Need("read", "ErrUnauthorized")
Writable == repoStore_FindByPath \o Repo_getUserRepoPermission \o Need("write", "ErrUnauthorized")

Repo_visiableToUser ==
    Many(IfUser(RoleIn))

----------------------------------------------------------------------------
\* Tags

Tag_AllTags == tagStore_AllTags

Tag_ClearMetaTags == tagStore_SetMetaTags

Tag_UpdateMetaTags ==
    Opt(Valid("metadata of the readme", "other")
          \o Opt(Many(Try(sensitiveChecker_PassTextCheck)))
          \o tagStore_SaveTags \o repoStore_FindByPath
          \o tagStore_SetMetaTags \o Try(repoStore_UpdateLicenseByTag))

Tag_UpdateLibraryTags ==
    Opt(tagStore_AllTagsByScope \o tagStore_SetLibraryTag)

Tag_UpdateRepoTagsByCategory ==
    tagStore_AllTagsByScopeAndCategory \o Valid("tags of the category", "other")
      \o repoStore_TagIDs \o tagStore_UpsertRepoTags

----------------------------------------------------------------------------
\* Repositories

\* An organization asks for a role, the namespace of a user for the user.
MayIn(role) ==
    If("organization", Repo_checkCurrentUserPermission(role, "other"), Valid("own namespace", "other"))

MayWriteIn ==
    namespaceStore_FindByPath \o userStore_FindByUsername \o If("administrator", Skip, MayIn("write"))

\* Mutation of Repo_CreateRepo: the row is inserted first.
RowFirst ==
    namespaceStore_FindByPath \o userStore_FindByUsername \o Valid("email", "other")
      \o If("administrator", Skip, MayIn("write"))
      \o repoStore_CreateRepo \o git_CreateRepo

Repo_CreateRepo ==
    namespaceStore_FindByPath \o userStore_FindByUsername \o Valid("email", "other")
      \o If("administrator", Skip, MayIn("write"))
      \o git_CreateRepo \o repoStore_CreateRepo

Repo_UpdateRepo == repoStore_Find \o MayWriteIn \o git_UpdateRepo \o repoStore_UpdateRepo

\* Mutation of Repo_DeleteRepo: relations that could not be deleted are only logged.
RelationsLeft ==
    repoStore_Find \o namespaceStore_FindByPath \o userStore_FindByUsername
      \o MayIn("admin")
      \o Try(repoStore_CleanRelationsByRepoID) \o git_DeleteRepo \o repoStore_DeleteRepo

Repo_DeleteRepo ==
    repoStore_Find \o namespaceStore_FindByPath \o userStore_FindByUsername
      \o MayIn("admin")
      \o repoStore_CleanRelationsByRepoID \o git_DeleteRepo \o repoStore_DeleteRepo

Repo_PublicToUser == IfUser(userSvc_GetUserInfo) \o repoStore_PublicToUser

Repo_relatedRepos ==
    repoRelationsStore_From \o repoRelationsStore_To \o repoStore_FindByIds
      \o Repo_visiableToUser

Repo_getNameSpaceInfo == userSvc_GetNameSpaceInfo

----------------------------------------------------------------------------
\* Files

Repo_checkIfShouldUseLfs == Try(git_GetRepoFileContents)

Repo_checkIfShouldUseLfsUpdate == Try(git_GetRepoFileContents)

Repo_createReadmeFile == Tag_UpdateMetaTags \o git_CreateRepoFile

Repo_createLibraryFile == Tag_UpdateLibraryTags \o git_CreateRepoFile

\* An object of LFS that the file becomes when .gitattributes says so.
PutLfs == Opt(s3_PutObject \o Valid("size", "other") \o lfsMetaObjectStore_UpdateOrCreate)

Repo_CreateFile ==
    Writable \o userStore_FindByUsername \o namespaceStore_FindByPath
      \o Opt(Repo_checkIfShouldUseLfs)
      \o Try(Either(<<Repo_createReadmeFile, Repo_createLibraryFile>>))
      \o PutLfs
      \o Try(repoStore_SetUpdateTimeByPath)

Repo_changeLibraryFile == Opt(Tag_UpdateLibraryTags)

Repo_changeReadmeFile == Tag_UpdateMetaTags

Repo_updateLibraryFile == Repo_changeLibraryFile
Repo_deleteLibraryFile == Repo_changeLibraryFile
Repo_updateReadmeFile == Repo_changeReadmeFile
Repo_deleteReadmeFile == Repo_changeReadmeFile

Repo_UpdateFile ==
    Writable \o userStore_FindByUsername \o namespaceStore_FindByPath
      \o Opt(Repo_checkIfShouldUseLfsUpdate)
      \o git_UpdateRepoFile
      \o Try(Either(<<Repo_updateReadmeFile, Repo_updateLibraryFile>>))
      \o PutLfs
      \o Try(repoStore_SetUpdateTimeByPath)

Repo_DeleteFile ==
    Writable \o userStore_FindByUsername \o namespaceStore_FindByPath
      \o git_DeleteRepoFile
      \o Try(Either(<<Repo_deleteReadmeFile, Repo_deleteLibraryFile>>))
      \o Try(repoStore_SetUpdateTimeByPath)

Repo_UploadFile ==
    Either(<<Try(git_GetRepoFileContents) \o Repo_CreateFile,
            git_GetRepoFileContents \o Repo_UpdateFile>>)

Repo_Commits == Readable \o git_GetRepoCommits

Repo_LastCommit == Readable \o git_GetRepoLastCommit

Repo_GetCommitWithDiff == Valid("commit", "other") \o Readable \o git_GetSingleCommit

\* The readme of a repository that is not copied yet comes from its row.
Repo_FileRaw ==
    Readable \o Either(<<git_GetRepoFileRaw, Try(mirrorStore_FindByRepoID) \o Opt(git_GetRepoFileRaw)>>)

Repo_FileInfo ==
    Readable \o Either(<<git_GetRepoFileContents,
                        Try(mirrorStore_FindByRepoID) \o Opt(git_GetRepoFileContents)>>)

Repo_Tree ==
    Readable \o Either(<<git_GetRepoFileTree,
                        Try(mirrorStore_FindByRepoID)
                          \o Either(<<fileStore_FindByParentPath, git_GetRepoFileTree>>)>>)

Repo_DownloadFile ==
    Readable \o repoStore_UpdateRepoFileDownloads
      \o Either(<<s3_PresignedGetObject, git_GetRepoFileReader>>)

Repo_Branches == Readable \o Either(<<git_GetRepoBranches, Try(git_GetRepoBranches)>>)

Repo_Tags == Readable \o repoStore_Tags

Repo_UpdateTags == Writable \o Tag_UpdateRepoTagsByCategory

\* The walk over the folders of a repository (component/common.go).
getFilePaths == git_GetRepoFileTree \o Many(git_GetRepoFileTree)

Repo_SDKListFiles ==
    As(repoStore_FindByPath, "ErrNotFound")
      \o Repo_AllowReadAccessRepo("ErrUnauthorized", "ErrUnauthorized") \o getFilePaths

NotFoundOr(p) == Either(<<As(p, "ErrNotFound"), p>>)

Repo_IsLfs == NotFoundOr(git_GetRepoFileRaw)

Repo_HeadDownloadFile ==
    repoStore_FindByPath \o Repo_AllowReadAccessRepo("other", "ErrUnauthorized")
      \o NotFoundOr(git_GetRepoFileContents)

Repo_SDKDownloadFile ==
    repoStore_FindByPath \o Repo_AllowReadAccessRepo("other", "ErrUnauthorized")
      \o Either(<<git_GetRepoFileContents \o NotFoundOr(s3_PresignedGetObject),
                 NotFoundOr(git_GetRepoFileReader)>>)

Repo_AllFiles ==
    repoStore_FindByPath \o IfPrivate(Repo_checkCurrentUserPermission("member", "other")) \o getFilePaths

Repo_UpdateDownloads == repoStore_FindByPath \o repoStore_UpdateRepoCloneDownloads

Repo_IncrDownloads == repoStore_FindByPath \o repoStore_UpdateRepoFileDownloads

RepoFile_createRepoFileRecords ==
    getFilePaths \o Many(Try(repoFileStore_Exists) \o Opt(repoFileStore_Create))

RepoFile_GenRepoFileRecords == repoStore_FindByPath \o RepoFile_createRepoFileRecords

----------------------------------------------------------------------------
\* Mirrors

Repo_CreateMirror ==
    Repo_checkCurrentUserPermission("admin", "other") \o repoStore_FindByPath
      \o mirrorStore_IsExist \o Valid("no mirror yet", "other")
      \o mirrorSourceStore_Get \o accessTokenStore_GetUserGitToken
      \o Either(<<mirrorServer_CreateMirrorRepo, git_MirrorSync, Skip>>)
      \o mirrorStore_Create
      \o Opt(mq_PushRepoMirror \o mirrorStore_Update)

Repo_mirrorFromSaasSync ==
    syncClientSettingStore_First \o repoStore_FindById
      \o Either(<<git_MirrorSync, mq_PushRepoMirror>>) \o repoStore_UpdateRepo

Repo_MirrorFromSaas ==
    repoStore_FindByPath
      \o IfFound(mirrorStore_FindByRepoID,
                 Repo_mirrorFromSaasSync,
                 syncVersionStore_FindByRepoTypeAndPath \o syncClientSettingStore_First
                   \o git_CreateMirrorRepo \o mirrorStore_Create
                   \o Opt(mq_PushRepoMirror) \o repoStore_UpdateRepo)

Repo_GetMirror ==
    Repo_checkCurrentUserPermission("admin", "other") \o repoStore_FindByPath \o mirrorStore_FindByRepoID

Repo_UpdateMirror ==
    Repo_GetMirror \o mirrorSourceStore_Get \o accessTokenStore_GetUserGitToken \o mirrorStore_Update

Repo_DeleteMirror == Repo_GetMirror \o mirrorStore_Delete

Repo_SyncMirror ==
    Repo_GetMirror
      \o Either(<<mirrorServer_MirrorSync, mq_PushRepoMirror \o mirrorStore_Update>>)

----------------------------------------------------------------------------
\* Runtime frameworks and deployments

Repo_ListRuntimeFrameworkWithType == runtimeFrameworksStore_List

Repo_ListRuntimeFramework == repoStore_FindByPath \o runtimeFrameworksStore_ListByRepoID

Repo_CreateRuntimeFramework == runtimeFrameworksStore_Add

Repo_UpdateRuntimeFramework == runtimeFrameworksStore_Update

Repo_DeleteRuntimeFramework == runtimeFrameworksStore_FindByID \o runtimeFrameworksStore_Delete

Repo_checkDeployPermissionForUser ==
    userStore_FindByUsername \o deployTaskStore_GetDeployByID
      \o Valid("deploy of the user", "PermissionError")

Repo_checkDeployPermissionForServerless ==
    userStore_FindByUsername \o Need("administrator", "other") \o deployTaskStore_GetDeployByID

CheckDeploy == Either(<<Repo_checkDeployPermissionForServerless, Repo_checkDeployPermissionForUser>>)

Repo_ListDeploy == userStore_FindByUsername \o repoStore_FindByPath \o deployTaskStore_ListDeploy

Repo_DeleteDeploy ==
    Repo_checkDeployPermissionForUser \o Try(deployer_Purge) \o deployer_Exist
      \o Valid("service is gone", "other") \o deployTaskStore_DeleteDeploy

Repo_generateEndpoint == Try(clusterInfoStore_ByClusterID)

Repo_DeployDetail == CheckDeploy \o Repo_generateEndpoint \o Opt(Try(deployer_GetReplica))

Repo_DeployInstanceLogs == CheckDeploy \o deployer_InstanceLogs

Repo_checkAccessDeployForUser ==
    userStore_FindByUsername \o Valid("deploy of the user", "PermissionError")
      \o Valid("deploy of the repository", "other")

Repo_checkAccessDeployForServerless ==
    userStore_FindByUsername \o Need("administrator", "other") \o Valid("deploy of the repository", "other")

Repo_AllowAccessDeploy ==
    repoStore_FindByPath \o deployTaskStore_GetDeployByID
      \o Either(<<Repo_checkAccessDeployForServerless, Repo_checkAccessDeployForUser>>)

Repo_AllowAccessByRepoID(refused) == repoStore_FindById \o Repo_AllowReadAccess("other", refused)

Repo_AllowAccessEndpoint == Opt(Repo_checkAccessDeployForUser)

Repo_AllowReadAccessByDeployID(refused) ==
    userStore_FindByUsername \o repoStore_FindByPath \o deployTaskStore_GetDeployByID
      \o Valid("deploy of the user", "other") \o Valid("deploy of the repository", "other")
      \o Repo_AllowReadAccessRepo("other", refused)

Repo_DeployStop ==
    CheckDeploy \o Try(deployer_Stop) \o deployer_Exist
      \o Valid("service is gone", "other") \o deployTaskStore_StopDeploy

Repo_DeployStatus == deployTaskStore_GetDeployByID \o deployer_Status

Repo_GetDeployBySvcName == deployTaskStore_GetDeployBySvcName

Repo_DeployUpdate ==
    CheckDeploy \o Opt(runtimeFrameworksStore_FindEnabledByName) \o Opt(clusterInfoStore_ByClusterID)
      \o deployer_Exist \o Valid("service is stopped", "other") \o deployer_UpdateDeploy

Repo_DeployStart ==
    CheckDeploy \o deployer_Exist \o Valid("service is stopped", "other") \o deployer_StartDeploy
=============================================================================
