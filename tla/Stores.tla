------------------------------- MODULE Stores -------------------------------
(***************************************************************************)
(* builder/store/database: what the methods of the stores do to which      *)
(* tables.  A method is named after its store; its condition and its       *)
(* columns are left out.                                                   *)
(***************************************************************************)
EXTENDS Steps

\* assertAffectedOneRow: a statement that must have changed one row.
UpdateOne(t) == Look(t) \o Update(t)
DeleteOne(t) == Look(t) \o Delete(t)

\* An update that has not returned its row is followed by an insert.
Upsert(t) == OrElse(UpdateOne(t), Insert(t))

accessTokenStore_Create == Insert("access_tokens")
accessTokenStore_Delete == Delete("access_tokens")
accessTokenStore_FindByToken == Look("access_tokens")
accessTokenStore_FindByTokenName == Look("access_tokens")
accessTokenStore_FindByUser == Scan("access_tokens")
accessTokenStore_GetUserGitToken == Look("access_tokens")
accessTokenStore_IsExist == Scan("access_tokens")
accessTokenStore_Refresh == Tx(Update("access_tokens") \o Insert("access_tokens"))

accountMeteringStore_ListAllByUserUUID == Scan("account_meterings")
accountMeteringStore_ListByUserIDAndTime == Scan("account_meterings")

clusterInfoStore_ByClusterID == Look("cluster_infos")
clusterInfoStore_ByClusterConfig == Other(Look("cluster_infos"))

\* A row that is not found, or not read, is not updated, and that is no error.
clusterInfoStore_Update == Probe(clusterInfoStore_ByClusterConfig, UpdateOne("cluster_infos"), Skip)

collectionStore_AddCollectionRepos == Insert("collection_repositories")
collectionStore_ByUserLikes == Scan("collections")
collectionStore_ByUserOrgs == Scan("collections")
collectionStore_ByUsername == Scan("collections")
collectionStore_CreateCollection == Insert("collections")
collectionStore_DeleteCollection == DeleteOne("collections")
collectionStore_FindById == Look("collections")
collectionStore_GetCollection == Look("collections")
collectionStore_GetCollections == Scan("collections")
collectionStore_RemoveCollectionRepos == Delete("collection_repositories")
collectionStore_UpdateCollection == Update("collections")

discussionStore_Create == Insert("discussions")
discussionStore_CreateComment == Insert("comments")
discussionStore_DeleteByID == Delete("discussions")
discussionStore_DeleteComment == Delete("comments")
discussionStore_FindByDiscussionableID == Scan("discussions")
discussionStore_FindByID == Look("discussions")
discussionStore_FindCommentByID == Look("comments")
discussionStore_FindDiscussionComments == Scan("comments")
discussionStore_UpdateByID == Update("discussions")
discussionStore_UpdateComment == Update("comments")

eventStore_BatchSave == Insert("events")

fileStore_BatchCreate == Insert("files")
fileStore_FindByParentPath == Scan("files")

gitServerAccessTokenStore_FindByType == Scan("git_server_access_tokens")

llmConfigStore_GetOptimization == Look("llm_configs")

memberStore_Add == Insert("members")
memberStore_Delete == Delete("members")
memberStore_Find == Look("members")
memberStore_OrganizationMembers == Scan("members")

namespaceStore_Exists == Scan("namespaces")
namespaceStore_FindByPath == Look("namespaces")

orgStore_Create == Tx(Insert("organizations") \o Insert("namespaces"))
orgStore_Delete == Look("organizations") \o Tx(Delete("organizations") \o Delete("namespaces"))
orgStore_FindByPath == Look("organizations")
orgStore_GetUserBelongOrgs == Scan("organizations")
orgStore_GetUserOwnOrgs == Scan("organizations")
orgStore_Update == UpdateOne("organizations")

recomStore_LoadWeights == Scan("recom_weights")
recomStore_UpsertScore == Insert("recom_repo_scores")
recomStore_UpsetOpWeights == Insert("recom_op_weights")

sshKeyStore_Create == Insert("ssh_keys")
sshKeyStore_Delete == Delete("ssh_keys")
sshKeyStore_FindByFingerpringSHA256 == Look("ssh_keys")
sshKeyStore_FindByID == Look("ssh_keys")
sshKeyStore_FindByKeyContent == Look("ssh_keys")
sshKeyStore_FindByNameAndUserID == Look("ssh_keys")
sshKeyStore_FindByUsernameAndName == Look("ssh_keys")
sshKeyStore_Index == Scan("ssh_keys")

syncClientSettingStore_Create == Insert("sync_client_settings")
syncClientSettingStore_DeleteAll == Delete("sync_client_settings")
syncClientSettingStore_First == Look("sync_client_settings")
syncClientSettingStore_SyncClientSettingExists == Scan("sync_client_settings")

syncVersionStore_Create == Insert("sync_versions")
syncVersionStore_FindByRepoTypeAndPath == Look("sync_versions")
syncVersionStore_GetAfter == Scan("sync_versions")
syncVersionStore_GetAfterDistinct == Scan("sync_versions")
syncVersionStore_GetLatest == Look("sync_versions")

telemetryStore_Save == Insert("telemetries")

userLikesStore_Add == Tx(Insert("user_likes") \o Update("repositories"))

\* The like is not deleted in the transaction that counts it.
userLikesStore_Delete == DeleteOne("user_likes") \o UpdateOne("repositories")
userLikesStore_IsExist == Scan("user_likes")
userLikesStore_IsExistCollection == Scan("user_likes")
userLikesStore_LikeCollection == Tx(Insert("user_likes") \o Update("collections"))
userLikesStore_UnLikeCollection == DeleteOne("user_likes") \o UpdateOne("collections")

userStore_ChangeUserName == Look("users") \o Tx(Update("namespaces") \o Update("users"))
userStore_Create == Tx(Insert("users") \o Insert("namespaces"))
userStore_FindByAccessToken == Look("users")
userStore_FindByGitAccessToken == Look("users")
userStore_FindByUUID == Look("users")
userStore_FindByUsername == Look("users")
userStore_GetActiveUserCount == Scan("users")
userStore_IndexWithSearch == Scan("users")
userStore_IsExist == Scan("users")
userStore_IsExistByUUID == Scan("users")
userStore_Update == UpdateOne("users")
=============================================================================
