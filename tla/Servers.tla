------------------------------- MODULE Servers -------------------------------
(***************************************************************************)
(* What the components ask of other servers: the git server (Gitaly, or    *)
(* Gitea for installations that began with it), the object storage, the    *)
(* runner and the builder of instances, the user and the moderation        *)
(* service.  What a server keeps is written like a table.                  *)
(***************************************************************************)
EXTENDS RepoStores

----------------------------------------------------------------------------
\* Git servers

\* Which server there is does not change while a request runs.
OnServer(gitaly, gitea) == If("gitaly", gitaly, gitea)

\* Gitea has an organization for each kind of repository.
Four(p) == p \o p \o p \o p

\* Gitaly keeps nothing but repositories: users, organizations, tokens and keys
\* are rows of the database.
gitea_createOrgsForUser == Four(Insert("gitea organization"))
gitea_CreateUser == Insert("gitea user") \o gitea_createOrgsForUser
git_CreateUser == OnServer(Skip, gitea_CreateUser)
git_UpdateUserV2 == OnServer(Skip, Opt(Update("gitea user")))

git_CreateUserToken == OnServer(Skip, Insert("gitea token"))
git_DeleteUserToken == OnServer(Skip, Delete("gitea token"))
git_CreateSSHKey == OnServer(Skip, Insert("gitea key"))
git_DeleteSSHKey == OnServer(Skip, Delete("gitea key"))

git_CreateOrganization == OnServer(Skip, Four(Insert("gitea organization")))
git_DeleteOrganization == OnServer(Skip, Four(Delete("gitea organization")))
git_UpdateOrganization == OnServer(Skip, Four(Update("gitea organization")))

\* Roles are teams of Gitea: every organization is tried, the errors are joined.
gitea_findTeam == Ask("gitea")
gitea_addMember == gitea_findTeam \o Ask("gitea") \o Opt(Insert("gitea member"))
gitea_removeMember == gitea_findTeam \o Ask("gitea") \o Opt(Delete("gitea member"))
gitea_addRoles == Insert("gitea team")
git_AddRoles == gitea_addRoles
git_AddMember == gitea_addMember
git_RemoveMember == gitea_removeMember

git_CreateRepo == Insert("git repository")
git_UpdateRepo == OnServer(Skip, Update("git repository"))
git_DeleteRepo == Delete("git repository")
git_GetRepo == Ask("git")

git_CreateMirrorRepo == Ask("remote") \o Insert("git repository")
git_MirrorSync == Update("git repository")
git_GetMirrorTaskInfo == OnServer(Skip, Ask("gitea"))

git_GetRepoBranches == Ask("git")
git_GetRepoCommits == Ask("git") \o Ask("git")
git_GetRepoLastCommit == Ask("git")
git_GetSingleCommit == Ask("git") \o Ask("git") \o Ask("git")
git_GetDiffBetweenTwoCommits == Ask("git") \o Ask("git")

git_GetRepoFileRaw == Ask("git")
git_GetRepoFileReader == Ask("git")
git_GetRepoFileTree == Ask("git") \o Opt(Ask("git"))
git_GetRepoFileContents == git_GetRepoFileTree \o git_GetRepoFileRaw

\* A commit is one stream of actions, which the server closes or drops.
git_CreateRepoFile == Insert("git file")
git_UpdateRepoFile == Update("git file")
git_DeleteRepoFile == Delete("git file")

git_InfoRefsResponse == Ask("git")
git_UploadPack == Ask("git")
git_ReceivePack == Update("git repository")

\* The Gitea that only copies from other servers.
mirrorServer_CreateMirrorRepo == Insert("mirror server repository")
mirrorServer_GetMirrorTaskInfo == Ask("mirror server")
mirrorServer_CreatePushMirror == Insert("push mirror")
mirrorServer_MirrorSync == Update("mirror server repository")

----------------------------------------------------------------------------
\* Instances: the runner and the builder, and the deployer in front of them

runner_Stop == Update("instance")
runner_Purge == Delete("instance")
runner_Status == Ask("runner")
runner_Logs == Ask("runner")
runner_Exist == Ask("runner")
runner_GetReplica == Ask("runner")
runner_InstanceLogs == Ask("runner")
runner_ListCluster == Ask("runner")
runner_GetClusterById == Ask("runner")
runner_UpdateCluster == Update("cluster_infos")
builder_Logs == Ask("builder")

deployer_serverlessDeploy ==
    Either(<<IfFound(Other(deployTaskStore_GetLatestDeployBySpaceID), deployTaskStore_UpdateDeploy,
                     deployTaskStore_CreateDeploy),
             deployTaskStore_GetServerlessDeployByRepID
               \o Either(<<deployTaskStore_UpdateDeploy, deployTaskStore_CreateDeploy>>)>>)
deployer_dedicatedDeploy == deployTaskStore_CreateDeploy
deployer_buildDeploy == Either(<<deployer_serverlessDeploy, deployer_dedicatedDeploy>>)

\* Errors of the two inserts of tasks are not looked at; the queue is in memory.
deployer_Deploy ==
    deployer_buildDeploy \o Try(deployTaskStore_CreateDeployTask) \o Try(deployTaskStore_CreateDeployTask)
      \o Go(Tell("queue of tasks"))
deployer_StartDeploy ==
    deployTaskStore_UpdateDeploy \o Try(deployTaskStore_CreateDeployTask) \o Go(Tell("queue of tasks"))
deployer_UpdateDeploy ==
    Opt(runtimeFrameworksStore_FindEnabledByID) \o Opt(spaceResourceStore_FindByID \o Valid("hardware", "other"))
      \o Valid("replicas of the deploy", "other") \o deployTaskStore_UpdateDeploy

deployer_Status == deployTaskStore_GetDeployByID \o Opt(Opt(runner_Status))
deployer_Logs == deployTaskStore_GetLatestDeployBySpaceID \o Try(builder_Logs) \o Try(runner_Logs)
deployer_InstanceLogs == Try(runner_InstanceLogs)
deployer_Stop == runner_Stop
deployer_Purge == runner_Purge
deployer_Wakeup == Tell("instance") \o Opt(Refuse("other"))
deployer_Exist == runner_Exist \o Valid("runner knows", "other")
deployer_GetReplica == runner_GetReplica
deployer_ListCluster == runner_ListCluster
deployer_GetClusterById == runner_GetClusterById
deployer_UpdateCluster == runner_UpdateCluster

CheckResource == Valid("resources", "other")
deployer_CheckResourceAvailable ==
    Opt(deployer_ListCluster \o Valid("any cluster", "other")) \o deployer_GetClusterById \o CheckResource

----------------------------------------------------------------------------
\* Other services

userSvc_GetMemberRole == Ask("user service")
userSvc_GetNameSpaceInfo == Ask("user service")
userSvc_GetUserInfo == Ask("user service")
sensitiveChecker_PassTextCheck == Ask("moderation service")
sensitiveChecker_PassImageCheck == Ask("moderation service")
accounting_ListMeteringsByUserIDAndTime == Ask("accounting service")

casdoor_GetOAuthToken == Ask("casdoor")
casdoor_GetUserByUserId == Ask("casdoor")
casdoor_UpdateUserForColumns == Update("casdoor user")

workflow_HandlePushWorkflow == Tell("workflow")
workflow_UserDeletionWorkflow == Tell("workflow")

s3_PresignedGetObject == Ask("s3")
s3_PresignedPutObject == Ask("s3")
s3_StatObject == Ask("s3")
s3_PutObject == Insert("object")
s3_RemoveObject == Delete("object")

\* The queues of mirrors are in Redis; an error of a push is not looked at.
mq_PushRepoMirror == Try(Tell("queue of mirrors"))

remote_Latest == Ask("remote")
remote_Info == Ask("remote")
remote_ReadMeData == Ask("remote")
remote_FileList == Ask("remote")

inference_Predict == Ask("inference")
llm_Chat == Ask("llm")
parquet_TopN == Ask("s3")
=============================================================================
