----------------------------- MODULE UserService -----------------------------
(***************************************************************************)
(* user/component and user/handler: the requests of the user service.      *)
(* Accounts models how its operations meet each other; this module models  *)
(* what one request does, where it may fail, and what it answers.          *)
(***************************************************************************)
EXTENDS Components

----------------------------------------------------------------------------
\* Access tokens

\* Git tokens are made by the git server, the others by the service.
Token_Create ==
    userStore_FindByUsername \o accessTokenStore_IsExist \o Valid("no such token yet", "other")
      \o Either(<<git_CreateUserToken, Skip>>) \o accessTokenStore_Create

Token_Delete ==
    userStore_IsExist \o Valid("user exists", "other")
      \o accessTokenStore_IsExist \o Valid("token exists", "other")
      \o Opt(git_DeleteUserToken) \o accessTokenStore_Delete

Token_Check == accessTokenStore_FindByToken
Token_GetTokens == accessTokenStore_FindByUser

\* The old token is gone from the git server before the new one is there.
Token_RefreshToken ==
    accessTokenStore_FindByTokenName
      \o Either(<<git_DeleteUserToken \o git_CreateUserToken, Skip>>)
      \o accessTokenStore_Refresh

Jwt_GenerateToken == userStore_FindByUUID
Jwt_ParseToken == Valid("token", "other") \o userStore_FindByUsername

----------------------------------------------------------------------------
\* Users

Account_createFromCasdoorUser == Opt(git_CreateUser) \o userStore_Create

Account_updateCasdoorUser ==
    casdoor_GetUserByUserId \o Valid("user in casdoor", "other")
      \o Opt(casdoor_UpdateUserForColumns)

Account_ChangeUserName ==
    Valid("own account", "other") \o userStore_FindByUsername \o Valid("name may change", "other")
      \o IfFound(Other(userStore_FindByUsername), Refuse("other"), Skip)
      \o userStore_ChangeUserName
      \o Opt(Account_updateCasdoorUser)

\* A user that came without an email address has no account in the git server.
Account_upsertGitUser == Either(<<git_CreateUser, git_UpdateUserV2>>)

Account_Update ==
    userStore_FindByUsername \o Valid("roles by another user", "other")
      \o If("own account", Skip,
            Other(userStore_FindByUsername) \o Need("administrator", "other"))
      \o Opt(Account_upsertGitUser)
      \o userStore_Update
      \o Opt(Account_updateCasdoorUser)

\* The deletion is a workflow; what it does is in Accounts.
Account_CheckOperatorAndUser ==
    userStore_FindByUsername \o Other(userStore_FindByUsername)
      \o Need("administrator", "notAllowed") \o Valid("ordinary user", "notAllowed")
Account_CheckIfUserHasOrgs == orgStore_GetUserOwnOrgs
Account_CheckIffUserHasRunningOrBuildingDeployments ==
    userStore_FindByUsername \o deployTaskStore_ListAllDeployments
Account_CheckIfUserHasBills == userStore_FindByUsername \o accountMeteringStore_ListAllByUserUUID

Account_CanAdmin == Other(userStore_FindByUsername)
Account_buildUserInfo == Opt(orgStore_GetUserBelongOrgs)
Find == Either(<<userStore_FindByUUID, userStore_FindByUsername>>)
Account_GetInternal == Find \o Account_buildUserInfo
Account_Get ==
    Find \o IfUser(If("own account", Skip, Account_CanAdmin)) \o Account_buildUserInfo
Account_Index == Account_CanAdmin \o userStore_IndexWithSearch

\* A first sign-in makes the account, and its git token afterwards.
Account_Signin ==
    casdoor_GetOAuthToken \o Valid("token of casdoor", "other")
      \o userStore_IsExistByUUID
      \o If("users", userStore_FindByUUID \o Go(Try(userStore_Update)),
                     Account_createFromCasdoorUser \o Go(Try(Token_Create)))
      \o Jwt_GenerateToken

----------------------------------------------------------------------------
\* Organizations and their members

Member_allowAddMember == Need("admin", "other")

Member_OrgMembers ==
    orgStore_FindByPath \o Try(userStore_FindByUsername \o IfFound(memberStore_Find, Skip, Skip))
      \o memberStore_OrganizationMembers

Member_InitRoles == Opt(git_AddRoles)
Member_SetAdmin == memberStore_Add \o Opt(git_AddMember)

Member_GetMemberRole ==
    orgStore_FindByPath \o userStore_FindByUsername
      \o IfFound(memberStore_Find, Skip, Skip)

Operator == orgStore_FindByPath \o userStore_FindByUsername \o memberStore_Find \o Member_allowAddMember

Member_AddMembers ==
    Operator
      \o Many(Other(userStore_FindByUsername)
                \o IfFound(Other(memberStore_Find), Skip, memberStore_Add \o Opt(git_AddMember)))
Member_AddMember == Member_AddMembers
Member_Delete ==
    Operator \o Other(userStore_FindByUsername)
      \o IfFound(Other(memberStore_Find), memberStore_Delete \o Opt(git_RemoveMember), Skip)

\* Not one statement: the role is gone before the other is added.
Member_ChangeMemberRole == Member_Delete \o Member_AddMember

Org_Create ==
    userStore_FindByUsername \o namespaceStore_Exists \o Valid("name is free", "other")
      \o git_CreateOrganization \o orgStore_Create \o Member_InitRoles \o Member_SetAdmin
Org_Index == orgStore_GetUserOwnOrgs
Org_Get == orgStore_FindByPath

\* Without an answer there is no role, and without a role no permission.
MayEdit == Try(Member_GetMemberRole) \o Need("admin", "other")
Org_Delete == MayEdit \o git_DeleteOrganization \o orgStore_Delete
Org_Update == MayEdit \o orgStore_FindByPath \o orgStore_Update \o Opt(git_UpdateOrganization)

Namespace_GetInfo ==
    namespaceStore_FindByPath \o Either(<<Skip, orgStore_FindByPath, Refuse("other")>>)

----------------------------------------------------------------------------
\* Handlers

AccessTokenHandler_Create ==
    Handler(Plain, Login \o Body \o CheckRequestV2 \o Valid("own account", "UnauthorizedError")
                     \o Token_Create)
AccessTokenHandler_CreateAppToken == Handler(Plain, Login \o Body \o CheckRequestV2 \o Token_Create)
AccessTokenHandler_Delete ==
    Handler(Plain, Login \o Valid("own account", "UnauthorizedError") \o Token_Delete)
AccessTokenHandler_DeleteAppToken == Handler(Plain, Login \o Token_Delete)
AccessTokenHandler_Refresh == Handler(Plain, Login \o Token_RefreshToken)
AccessTokenHandler_Get == Handler(Plain, Token_Check)
AccessTokenHandler_GetUserTokens == Handler(Plain, Login \o Token_GetTokens)

JWTHandler_Create == Handler(Plain, Body \o Jwt_GenerateToken)
JWTHandler_Verify == Handler(Plain, Jwt_ParseToken)

MemberHandler_OrgMembers == Handler(Plain, Body \o Member_OrgMembers)
MemberHandler_Update == Handler(Plain, Body \o Member_ChangeMemberRole)
MemberHandler_Create == Handler(Plain, Body \o Member_AddMembers)
MemberHandler_Delete == Handler(Plain, Body \o Member_Delete)
MemberHandler_GetMemberRole == Handler(Plain, Member_GetMemberRole)

NamespaceHandler_GetInfo == Handler(Plain, Namespace_GetInfo)

OrganizationHandler_Create == Handler(Plain, Body \o CheckRequestV2 \o Org_Create)
OrganizationHandler_Get == Handler(Plain, Body \o Org_Get)
OrganizationHandler_Index == Handler(Plain, Org_Index)
OrganizationHandler_Delete == Handler(Plain, Login \o Org_Delete)
OrganizationHandler_Update == Handler(Plain, Login \o Body \o CheckRequestV2 \o Org_Update)

AccountHandler_Update ==
    Handler(Plain, Body \o CheckRequestV2 \o Either(<<Account_ChangeUserName, Account_Update>>))
AccountHandler_Delete ==
    Handler([notAllowed |-> 400],
            Account_CheckOperatorAndUser
              \o Account_CheckIfUserHasOrgs \o Valid("no organizations", "BadRequest")
              \o Account_CheckIffUserHasRunningOrBuildingDeployments \o Valid("no deployments", "BadRequest")
              \o Account_CheckIfUserHasBills \o Valid("no bills", "BadRequest")
              \o workflow_UserDeletionWorkflow)
AccountHandler_Get == Handler(Plain, Either(<<Account_GetInternal, Account_Get>>))
AccountHandler_Index == Handler(Plain, Body \o Account_Index)
AccountHandler_Casdoor == Handler(Plain, Account_Signin)

----------------------------------------------------------------------------
\* user/router

Route(name, h) == [name |-> name, h |-> h]
Through(m, h) == [h EXCEPT !.run = m \o @]

mustLogin == Login
userMatch == Login \o Valid("own account", "UnauthorizedError")
OnlyAPIKeyAuthenticator == Need("API key", "UnauthorizedError")

\* A token that is neither the API key nor a JWT is looked up.
Authenticator ==
    If("Authorization header",
       Valid("Bearer", "UnauthorizedError")
         \o Either(<<Skip, Valid("token", "UnauthorizedError"),
                     OrElse(userStore_FindByAccessToken, Refuse("UnauthorizedError"))>>),
       Skip)

UserRoutes ==
    LET Through2(m, rs) == {Route(r.name, Through(Authenticator \o m, r.h)) : r \in rs} IN
    Through2(Skip,
        {Route(<<"user service", "callback/casdoor">>, AccountHandler_Casdoor), Route(<<"user service", "user">>, AccountHandler_Get),
         Route(<<"user service", "organizations">>, OrganizationHandler_Index), Route(<<"user service", "organization">>, OrganizationHandler_Get),
         Route(<<"user service", "members">>, MemberHandler_OrgMembers),
         Route(<<"user service", "delete user">>, AccountHandler_Delete), Route(<<"user service", "new app token">>, AccessTokenHandler_CreateAppToken),
         Route(<<"user service", "refresh token">>, AccessTokenHandler_Refresh),
         Route(<<"user service", "delete app token">>, AccessTokenHandler_DeleteAppToken)})
    \cup Through2(OnlyAPIKeyAuthenticator,
        {Route(<<"user service", "namespace">>, NamespaceHandler_GetInfo), Route(<<"user service", "new jwt">>, JWTHandler_Create),
         Route(<<"user service", "jwt">>, JWTHandler_Verify), Route(<<"user service", "token">>, AccessTokenHandler_Get)})
    \cup Through2(mustLogin,
        {Route(<<"user service", "update user">>, AccountHandler_Update), Route(<<"user service", "users">>, AccountHandler_Index),
         Route(<<"user service", "new organization">>, OrganizationHandler_Create),
         Route(<<"user service", "update organization">>, OrganizationHandler_Update),
         Route(<<"user service", "delete organization">>, OrganizationHandler_Delete),
         Route(<<"user service", "new members">>, MemberHandler_Create), Route(<<"user service", "change role">>, MemberHandler_Update),
         Route(<<"user service", "delete member">>, MemberHandler_Delete)})
    \cup Through2(userMatch,
        {Route(<<"user service", "tokens of user">>, AccessTokenHandler_GetUserTokens)})
    \cup Through2(mustLogin \o userMatch, {Route(<<"user service", "role">>, MemberHandler_GetMemberRole)})
=============================================================================
