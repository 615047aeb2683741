----------------------------- MODULE RepoStores -----------------------------
(***************************************************************************)
(* The stores of repositories of every kind, with their tags, mirrors, LFS *)
(* objects and deployments, and of what deployments choose from.           *)
(***************************************************************************)
EXTENDS Stores

codeStore_ByOrgPath == Scan("codes")
codeStore_ByRepoID == Look("codes")
codeStore_ByRepoIDs == Scan("codes")
codeStore_ByUsername == Scan("codes")
codeStore_Create == Insert("codes")
codeStore_Delete == DeleteOne("codes")
codeStore_FindByPath == Look("codes")
codeStore_Update == Update("codes")
codeStore_UserLikesCodes == Scan("codes")

datasetStore_ByOrgPath == Scan("datasets")
datasetStore_ByRepoID == Look("datasets")
datasetStore_ByRepoIDs == Scan("datasets")
datasetStore_ByUsername == Scan("datasets")
datasetStore_Create == Insert("datasets")
datasetStore_CreateIfNotExist == OrElse(Look("datasets"), Insert("datasets"))
datasetStore_Delete == DeleteOne("datasets")
datasetStore_FindByPath == Look("datasets")
datasetStore_ListByPath == Scan("datasets")
datasetStore_Update == Update("datasets")
datasetStore_UserLikesDatasets == Scan("datasets")

deployTaskStore_CreateDeploy == Insert("deploys")
deployTaskStore_CreateDeployTask == Insert("deploy_tasks")
deployTaskStore_DeleteDeploy == UpdateOne("deploys")
deployTaskStore_GetDeployByID == Look("deploys")
deployTaskStore_GetDeployBySvcName == Look("deploys")
deployTaskStore_GetLatestDeployBySpaceID == Look("deploys")
deployTaskStore_GetServerlessDeployByRepID == Scan("deploys")
deployTaskStore_ListAllDeployments == Scan("deploys")
deployTaskStore_ListDeploy == Scan("deploys")
deployTaskStore_ListDeployByUserID == Scan("deploys")
deployTaskStore_ListInstancesByUserID == Scan("deploys")
deployTaskStore_ListServerless == Scan("deploys")
deployTaskStore_StopDeploy == UpdateOne("deploys")
deployTaskStore_UpdateDeploy == Update("deploys")

lfsLockStore_Create == Insert("lfs_locks")
lfsLockStore_FindByID == Look("lfs_locks")
lfsLockStore_FindByPath == Look("lfs_locks")
lfsLockStore_FindByRepoID == Scan("lfs_locks")
lfsLockStore_RemoveByID == Delete("lfs_locks")

lfsMetaObjectStore_Create == Insert("lfs_meta_objects")
lfsMetaObjectStore_FindByOID == Look("lfs_meta_objects")
lfsMetaObjectStore_RemoveByOid == Delete("lfs_meta_objects")
lfsMetaObjectStore_UpdateOrCreate == Upsert("lfs_meta_objects")

mirrorSourceStore_Create == Insert("mirror_sources")
mirrorSourceStore_Delete == Delete("mirror_sources")
mirrorSourceStore_Get == Look("mirror_sources")
mirrorSourceStore_Index == Scan("mirror_sources")
mirrorSourceStore_Update == UpdateOne("mirror_sources")

mirrorStore_Create == Insert("mirrors")
mirrorStore_Delete == Delete("mirrors")
mirrorStore_FindByRepoID == Look("mirrors")
mirrorStore_FindWithMapping == Look("mirrors")
mirrorStore_IndexWithPagination == Scan("mirrors")
mirrorStore_IsExist == Scan("mirrors")
mirrorStore_NoPushMirror == Scan("mirrors")
mirrorStore_Unfinished == Scan("mirrors")
mirrorStore_Update == UpdateOne("mirrors")

modelStore_ByOrgPath == Scan("models")
modelStore_ByRepoID == Look("models")
modelStore_ByRepoIDs == Scan("models")
modelStore_ByUsername == Scan("models")
modelStore_Create == Insert("models")
modelStore_CreateIfNotExist == OrElse(Look("models"), Insert("models"))
modelStore_Delete == DeleteOne("models")
modelStore_FindByPath == Look("models")
modelStore_ListByPath == Scan("models")
modelStore_Update == Update("models")
modelStore_UserLikesModels == Scan("models")

promptConversationStore_CreateConversation == Insert("prompt_conversations")
promptConversationStore_DeleteConversationsByID ==
    Look("prompt_conversations")
      \o Tx(Delete("prompt_conversations") \o Delete("prompt_conversation_messages"))
promptConversationStore_FindConversationsByUserID == Scan("prompt_conversations")
promptConversationStore_GetConversationByID == Look("prompt_conversations")
promptConversationStore_HateMessageByID == UpdateOne("prompt_conversation_messages")
promptConversationStore_LikeMessageByID == UpdateOne("prompt_conversation_messages")
promptConversationStore_SaveConversationMessage == Insert("prompt_conversation_messages")
promptConversationStore_UpdateConversation == UpdateOne("prompt_conversations")

promptPrefixStore_Get == Look("prompt_prefixes")

promptStore_ByOrgPath == Scan("prompts")
promptStore_ByRepoID == Look("prompts")
promptStore_ByRepoIDs == Scan("prompts")
promptStore_ByUsername == Scan("prompts")
promptStore_Create == Insert("prompts")
promptStore_Delete == DeleteOne("prompts")
promptStore_FindByPath == Look("prompts")
promptStore_Update == Update("prompts")

repoFileStore_Create == Insert("repository_files")
repoFileStore_Exists == Scan("repository_files")

repoRelationsStore_From == Scan("repo_relations")
repoRelationsStore_To == Scan("repo_relations")

repoStore_FindById == Look("repositories")
repoStore_UpdateDownloads == Scan("repository_downloads") \o Update("repositories")
repoStore_UpdateRepo == Update("repositories")
repoStore_All == Scan("repositories")
repoStore_BatchCreateRepoTags == Insert("repository_tags")
repoStore_CleanRelationsByRepoID ==
    Tx(Delete("repositories_runtime_frameworks") \o Delete("user_likes"))
repoStore_CountByRepoType == Scan("repositories")
repoStore_CreateRepo == Insert("repositories")
repoStore_DeleteAllFiles == Delete("files")
repoStore_DeleteAllTags == Delete("repository_tags")
repoStore_DeleteRepo == Delete("repositories")
repoStore_Find == Look("repositories")
repoStore_FindByIds == Scan("repositories")
repoStore_FindByPath == Look("repositories")
repoStore_GetRepoWithRuntimeByID == Scan("repositories")
repoStore_GetRepoWithoutRuntimeByID == Scan("repositories")
repoStore_ListRepoPublicToUserByRepoIDs == Scan("repositories")
repoStore_PublicToUser == Scan("repositories")
repoStore_SetUpdateTimeByPath == Update("repositories")
repoStore_TagIDs == Scan("repository_tags")
repoStore_Tags == Scan("repository_tags")
repoStore_TagsWithCategory == Scan("repository_tags")
repoStore_UpdateLicenseByTag == Look("tags") \o Opt(repoStore_FindById \o repoStore_UpdateRepo)
repoStore_UpdateOrCreateRepo == Upsert("repositories")
repoStore_UpdateRepoCloneDownloads ==
    IfFound(Look("repository_downloads"), Update("repository_downloads"), Insert("repository_downloads")) \o repoStore_UpdateDownloads
repoStore_UpdateRepoFileDownloads ==
    IfFound(Look("repository_downloads"), Update("repository_downloads"), Insert("repository_downloads")) \o repoStore_UpdateDownloads
repoStore_WithMirror == Scan("repositories")

repositoriesRuntimeFrameworkStore_Add == Insert("repositories_runtime_frameworks")
repositoriesRuntimeFrameworkStore_Delete == DeleteOne("repositories_runtime_frameworks")
repositoriesRuntimeFrameworkStore_GetByIDsAndType == Scan("repositories_runtime_frameworks")
repositoriesRuntimeFrameworkStore_GetByRepoIDsAndType == Scan("repositories_runtime_frameworks")
repositoriesRuntimeFrameworkStore_ListByRuntimeFrameworkID ==
    Scan("repositories_runtime_frameworks")
repositoriesRuntimeFrameworkStore_ListRepoIDsByType == Scan("repositories_runtime_frameworks")

resourceModelStore_CheckModelNameNotInRFRepo ==
    Look("resource_models") \o Scan("repositories_runtime_frameworks")
resourceModelStore_FindByModelName == Scan("resource_models")

runtimeArchitecturesStore_Add == Insert("runtime_architectures")
runtimeArchitecturesStore_DeleteByRuntimeIDAndArchName == Delete("runtime_architectures")
runtimeArchitecturesStore_ListByRuntimeFrameworkID == Scan("runtime_architectures")

runtimeFrameworksStore_Add == Insert("runtime_frameworks")
runtimeFrameworksStore_Delete == Delete("runtime_frameworks")
runtimeFrameworksStore_FindByID == Look("runtime_frameworks")
runtimeFrameworksStore_FindEnabledByID == Look("runtime_frameworks")
runtimeFrameworksStore_FindEnabledByName == Look("runtime_frameworks")
runtimeFrameworksStore_List == Scan("runtime_frameworks")
runtimeFrameworksStore_ListAll == Scan("runtime_frameworks")
runtimeFrameworksStore_ListByRepoID == Scan("repositories_runtime_frameworks")
runtimeFrameworksStore_Update == Update("runtime_frameworks")

spaceResourceStore_Create == Insert("space_resources")
spaceResourceStore_Delete == Delete("space_resources")
spaceResourceStore_FindAll == Scan("space_resources")
spaceResourceStore_FindByID == Look("space_resources")
spaceResourceStore_Index == Scan("space_resources")
spaceResourceStore_Update == Update("space_resources")

spaceSdkStore_Create == Insert("space_sdks")
spaceSdkStore_Delete == Delete("space_sdks")
spaceSdkStore_FindByID == Look("space_sdks")
spaceSdkStore_Index == Scan("space_sdks")
spaceSdkStore_Update == Update("space_sdks")

spaceStore_ByID == Look("spaces")
spaceStore_ByOrgPath == Scan("spaces")
spaceStore_ByRepoID == Look("spaces")
spaceStore_ByRepoIDs == Scan("spaces")
spaceStore_ByUserLikes == Scan("spaces")
spaceStore_ByUsername == Scan("spaces")
spaceStore_Create == Insert("spaces")
spaceStore_Delete == DeleteOne("spaces")
spaceStore_FindByPath == Look("spaces")
spaceStore_ListByPath == Scan("spaces")
spaceStore_Update == Update("spaces")

tagStore_AllTags == Scan("tags")
tagStore_AllTagsByScope == Scan("tags")
tagStore_AllTagsByScopeAndCategory == Scan("tags")
tagStore_FindOrCreate == OrElse(Look("tags"), Insert("tags"))
tagStore_GetTagsByScopeAndCategories == Scan("tags")
tagStore_SaveTags == Insert("tags")
tagStore_SetLibraryTag ==
    Look("repositories") \o Tx(Update("repository_tags") \o Insert("repository_tags"))
tagStore_SetMetaTags ==
    Look("repositories") \o Tx(Delete("repository_tags") \o Insert("repository_tags"))
tagStore_UpsertRepoTags == Tx(Update("repository_tags") \o Insert("repository_tags"))
=============================================================================
