------------------------------ MODULE Handlers ------------------------------
(***************************************************************************)
(* What the handlers promise of a request that is over: all of its rows or *)
(* none, and never rows without the activity that tells of them.           *)
(***************************************************************************)
EXTENDS DomainHandlers, AccountHandlers, ResourceHandlers

(* Every endpoint, with its scripts.                                       *)
Endpoints == [
    POST_experiments |-> POST_experiments, GET_experiment |-> GET_experiment,
    POST_experiment_run |-> POST_experiment_run, POST_experiment_macro |-> POST_experiment_macro,
    GET_experiments |-> GET_experiments, PATCH_experiment |-> PATCH_experiment,
    POST_signals |-> POST_signals, GET_signal |-> GET_signal, GET_signals |-> GET_signals,
    POST_signal_validate |-> POST_signal_validate, POST_signal_promote |-> POST_signal_promote,
    POST_ops_evaluate |-> POST_ops_evaluate,
    POST_pipeline_definitions |-> POST_pipeline_definitions,
    POST_pipeline_deploy |-> POST_pipeline_deploy,
    POST_pipeline_instances |-> POST_pipeline_instances, POST_pipeline_run |-> POST_pipeline_run,
    GET_pipeline_definitions |-> GET_pipeline_definitions,
    GET_pipeline_instances |-> GET_pipeline_instances, POST_datasets |-> POST_datasets,
    GET_dataset |-> GET_dataset, GET_datasets |-> GET_datasets,
    GET_dataset_status |-> GET_dataset_status, POST_dataset_preview |-> POST_dataset_preview,
    POST_dataset_refresh |-> POST_dataset_refresh, GET_dataset_schedule |-> GET_dataset_schedule,
    PUT_dataset_schedule |-> PUT_dataset_schedule,
    DELETE_dataset_schedule |-> DELETE_dataset_schedule,
    GET_dataset_lineage |-> GET_dataset_lineage, POST_runs_pipelines |-> POST_runs_pipelines,
    GET_runs_pipeline |-> GET_runs_pipeline, GET_runs_pipelines |-> GET_runs_pipelines,
    POST_runs_pipeline_cancel |-> POST_runs_pipeline_cancel,
    GET_runs_pipeline_logs |-> GET_runs_pipeline_logs,
    POST_runs_experiments |-> POST_runs_experiments, GET_runs_experiment |-> GET_runs_experiment,
    GET_runs_experiment_results |-> GET_runs_experiment_results,
    GET_runs_experiments |-> GET_runs_experiments,
    POST_runs_experiment_cancel |-> POST_runs_experiment_cancel, POST_tenants |-> POST_tenants,
    GET_tenants |-> GET_tenants, POST_principals |-> POST_principals, POST_users |-> POST_users,
    POST_spaces_team |-> POST_spaces_team, POST_spaces_subspace |-> POST_spaces_subspace,
    POST_auth_keys |-> POST_auth_keys, DELETE_auth_key |-> DELETE_auth_key,
    POST_auth_login |-> POST_auth_login, POST_auth_register |-> POST_auth_register,
    GET_auth_keys |-> GET_auth_keys, POST_channels |-> POST_channels, send_message |-> send_message,
    edit_message |-> edit_message, delete_message |-> delete_message,
    update_read_receipt |-> update_read_receipt, list_messages |-> list_messages,
    issue_realtime_token |-> issue_realtime_token, realtime_bootstrap |-> realtime_bootstrap,
    create_upload_init |-> create_upload_init, finalize_attachment |-> finalize_attachment,
    mark_notification_read |-> mark_notification_read,
    mark_all_notifications_read |-> mark_all_notifications_read,
    update_notification_preferences |-> update_notification_preferences,
    list_notifications |-> list_notifications, create_subscription |-> create_subscription,
    revoke_subscription |-> revoke_subscription, system_channel_update |-> system_channel_update,
    upgrade_plan |-> upgrade_plan, upgrade_start |-> upgrade_start,
    put_resource_bundle |-> put_resource_bundle, get_resource_bundle |-> get_resource_bundle,
    list_reports |-> list_reports, create_resource |-> create_resource,
    update_resource |-> update_resource, delete_resource |-> delete_resource,
    move_resource |-> move_resource, copy_resource |-> copy_resource, grant_role |-> grant_role,
    revoke_role |-> revoke_role, list_grants |-> list_grants,
    list_effective_permissions |-> list_effective_permissions,
    promote_resource |-> promote_resource, get_resource_lineage |-> get_resource_lineage,
    upload_definition |-> upload_definition, get_definition_details |-> get_definition_details,
    list_activities |-> list_activities, list_audit_logs |-> list_audit_logs,
    count_audit_logs |-> count_audit_logs, init_demo |-> init_demo ]

(* The endpoint that commits its rows and its activity apart, and the      *)
(* handlers of several transactions.                                       *)
Apart == {"POST_runs_experiment_cancel"}
Staged == Apart \cup {"upload_definition", "init_demo"}

OfHandler(rows) == {r \in rows : r.kind # "login"}

(* The rows that an activity of a path tells of, and their tale: these     *)
(* rows, the activity, and its row in the outbox.                          *)
Told(script) == {r.of : r \in {w \in KeptRows(script) : w.kind = "activity"}}
Tells(told) == {Rows("activity", told), Rows("outbox", told)}
Tale(script, told) == Tells(told) \cup ({Named(name) : name \in told} \cap KeptRows(script))

(* The rules that a path has to follow.                                    *)
CommitsOnce(script) == Together(script, "postgres", OfHandler(Writes(script)))
TellsOfAll(script, database) ==
    \A told \in Told(script) :
        Tells(told) \subseteq KeptRows(script) /\ Together(script, database, Tale(script, told))
-----------------------------------------------------------------------------
(* A request that is over, whatever stopped it, has stored all the rows    *)
(* that its path keeps or none, since nothing commits between two of them. *)
(* On SQLite the blocks of tx_activity commit one by one, and half a       *)
(* hierarchy of spaces may stay behind.                                    *)
AllOrNothing ==
    dialect = "postgres" /\ request.handler \notin Staged =>
        /\ request.at = 0 => CommitsOnce(request.script)
        /\ Over => OfHandler(stored) \in {{}, OfHandler(KeptRows(request.script))}

(* On both databases, a row that an activity of the path tells of is never *)
(* stored without that activity and its row in the outbox, nor are these   *)
(* stored without the row.                                                 *)
RowsHaveActivity ==
    request.handler \notin Apart =>
        /\ request.at = 0 => TellsOfAll(request.script, dialect)
        /\ Over => \A told \in Told(request.script) :
              LET tale == Tale(request.script, told)
              IN  tale \subseteq stored \/ tale \cap stored = {}

(* What a test of the repository takes for granted: the rows of a request  *)
(* that was answered with success are there.                               *)
AcknowledgedIsStored ==
    request.reply = "ok" => OfHandler(Writes(request.script)) \subseteq stored
=============================================================================
