-------------------------- MODULE AccountHandlers --------------------------
(***************************************************************************)
(* The handlers of tenants, principals, spaces, credentials, chat,         *)
(* attachments, notifications, subscriptions, contract bundles and the     *)
(* installation itself, as scripts of session operations (see              *)
(* DomainHandlers).                                                        *)
(***************************************************************************)
EXTENDS Sessions

(* ----- tenants and principals: the session is reset, so that the block   *)
(* of tx_activity is the transaction.  A tenant has no actor yet, and is   *)
(* authorized by the binding that the block has just written.              *)
POST_tenants ==
    Look ** reset_session **
    tx_activity(Row("tenant") ** Flush ** Row("principal") ** Row("root") ** Flush ** Sql("permissions")
                    ** Row("binding") ** Flush ** Look,
                {"tenant", "principal", "root", "permissions", "binding"})
GET_tenants == get_actor ** Look

POST_principals ==
    get_actor ** Look ** reset_session ** tx_activity(Row("principal") ** Flush, {"principal"})

(* ----- spaces: each resource in a block of its own, within the           *)
(* transaction that the actor was read in, until the endpoint commits.     *)
create_subspace(kind) == tx_activity(Row(kind) ** Flush, {kind})
create_space_with_subspaces ==
    tx_activity(Row("space") ** Flush, {"space"})
    ** create_subspace("official") ** create_subspace("staging")
    ** Row("owner") ** record_activity_with_outbox({"owner"}) ** Flush
create_user_with_personal_space ==
    tx_activity(Row("principal") ** Flush, {"principal"}) ** create_space_with_subspaces
create_team_space ==
    create_space_with_subspaces ** Maybe(Row("member") ** record_activity_with_outbox({"member"})) ** Flush
grant_system_space_view_access ==
    Look ** Maybe(Row("viewer") ** record_activity_with_outbox({"viewer"}) ** Flush)
create_custom_subspace == Look ** tx_activity(Row("subspace") ** Flush, {"subspace"})

POST_users ==
    get_actor ** Look ** create_user_with_personal_space ** grant_system_space_view_access ** Commit
POST_spaces_team == get_actor ** Look ** create_team_space ** Commit
POST_spaces_subspace == get_actor ** Look ** create_custom_subspace ** Commit

(* ----- credentials ----- *)
create_api_key == Row("api key") ** record_activity_with_outbox({"api key"})
revoke_api_key == Look ** Row("api key") ** record_activity_with_outbox({"api key"})
create_local_credential == Look ** Maybe(Row("principal")) ** Row("credential")
validate_local_credential == Look ** Row("last login")
create_session == Do("session")         \* kept in the memory of the process

POST_auth_keys == get_actor ** Look ** create_api_key ** Commit
DELETE_auth_key == get_actor ** revoke_api_key ** Commit
POST_auth_login == validate_local_credential ** Commit ** create_session
POST_auth_register == create_local_credential ** Commit
GET_auth_keys == get_actor ** Look

(* ----- chat ----- *)
record_agent_activities ==
    record_activity_with_outbox({"invoked"}) ** Maybe(record_activity_with_outbox({"tool called"}))

POST_channels ==
    get_actor ** Look ** reset_session **
    tx_activity(Row("resource") ** Flush ** Row("channel") ** Flush, {"resource", "channel"})
send_message ==
    get_actor ** Look ** reset_session **
    tx_activity(Row("message") ** Flush
                    ** Maybe(Look ** record_agent_activities), {"message"})
edit_message ==
    get_actor ** Look ** reset_session ** tx_activity(Look ** Row("message") ** Flush, {"message"})
delete_message ==
    get_actor ** Look ** reset_session ** tx_activity(Look ** Row("message") ** Flush, {"message"})
update_read_receipt ==
    get_actor ** Look ** reset_session ** tx_activity(Look ** Sql("receipt"), {"receipt"})
list_messages == get_actor ** Look
issue_realtime_token == get_actor ** Look
realtime_bootstrap == get_actor ** Look

(* ----- attachments: the object is in the store before the row ----- *)
create_upload_init == get_actor ** Look ** Do("presign")
finalize_attachment ==
    get_actor ** Look ** Do("head") ** reset_session **
    tx_activity(Look ** Row("attachment") ** Flush, {"attachment"})

(* ----- notifications: no activity ----- *)
mark_notification_read == get_actor ** Look ** Row("read") ** Commit ** Look
mark_all_notifications_read == get_actor ** Look ** Maybe(Sql("read") ** Commit)
update_notification_preferences == get_actor ** Look ** Row("preference") ** Commit ** Look
list_notifications == get_actor ** Look

(* ----- subscriptions ----- *)
create_subscription ==
    get_actor ** Look ** reset_session ** tx_activity(Row("subscription") ** Flush, {"subscription"})
revoke_subscription ==
    get_actor ** Look ** reset_session ** tx_activity(Look ** Row("subscription") ** Flush, {"subscription"})

(* ----- the installation: its files change first, and the activity is     *)
(* recorded on a session that was reset.                                   *)
record_system_activity == reset_session ** tx_activity({<<>>}, {})
system_channel_update == get_actor ** Look ** Do("channel file") ** record_system_activity
upgrade_plan == get_actor ** Look ** record_system_activity
upgrade_start == get_actor ** Look ** Maybe(Do("job file") ** Do("status file") ** record_system_activity)

(* ----- contract bundles: no actor and no activity ----- *)
upsert_active_bundle == Sql("former bundle") ** Row("bundle") ** Flush
put_resource_bundle == Look ** upsert_active_bundle ** Commit
=============================================================================
