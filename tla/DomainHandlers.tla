--------------------------- MODULE DomainHandlers ---------------------------
(***************************************************************************)
(* The handlers of experiments, signals, operations, pipelines, datasets   *)
(* and runs (apps/api/routers and the services that they call), as scripts *)
(* of session operations.  Under each service the operators with its       *)
(* methods' names, then the endpoints.  "Look" stands for the reads and    *)
(* checks between two changes: each may refuse or raise.                   *)
(***************************************************************************)
EXTENDS Sessions

(* ----- experiments ----- *)
create_experiment ==
    Look ** tx_activity(Row("resource") ** Flush ** Row("experiment") ** Flush, {"resource", "experiment"})

(* A failure of the expression is an answer, and an activity of its own.   *)
run_experiment == Look ** record_activity_with_outbox({}) ** Commit

save_as_macro ==
    Look ** tx_activity(Row("resource") ** Row("macro") ** Flush, {"resource", "macro"})

update_experiment ==
    Look ** Maybe(Row("experiment") ** Flush ** record_activity_with_outbox({"experiment"}) ** Commit)

get_experiment == Look
list_experiments == Look

POST_experiments == get_actor ** Look ** create_experiment
GET_experiment == get_actor ** Look ** get_experiment
POST_experiment_run == get_actor ** Look ** run_experiment
POST_experiment_macro == get_actor ** Look ** save_as_macro
GET_experiments == get_actor ** list_experiments
PATCH_experiment == get_actor ** Look ** update_experiment

(* ----- signals ----- *)
register_signal == Look ** Row("signal") ** record_activity_with_outbox({"signal"}) ** Commit
validate_signal == Look ** Maybe(record_activity_with_outbox({}) ** Commit)
promote_signal ==
    Look ** Row("signal") ** Flush ** record_activity_with_outbox({"signal"}) ** Commit

get_signal == Look
list_signals == Look

POST_signals == get_actor ** Look ** register_signal
GET_signal == get_actor ** Look ** get_signal
GET_signals == get_actor ** list_signals
POST_signal_validate == get_actor ** Look ** validate_signal
POST_signal_promote == get_actor ** Look ** promote_signal

(* ----- operations ----- *)
evaluate_expression == Look ** Maybe(record_activity_with_outbox({}) ** Commit)
POST_ops_evaluate == get_actor ** evaluate_expression

(* ----- pipelines ----- *)
submit_definition ==
    tx_activity(Row("resource") ** Flush ** Row("definition") ** Flush, {"resource", "definition"})
deploy_definition ==
    Look ** Row("resource") ** Flush ** record_activity_with_outbox({"resource"}) ** Commit
create_instance ==
    Look ** tx_activity(Row("resource") ** Flush ** Row("instance") ** Flush, {"resource", "instance"})
trigger_run ==
    Look ** Row("instance") ** Flush ** record_activity_with_outbox({"instance"}) ** Commit

list_definitions == Look
list_instances == Look

POST_pipeline_definitions == get_actor ** Look ** submit_definition
POST_pipeline_deploy == get_actor ** Look ** deploy_definition
POST_pipeline_instances == get_actor ** Look ** create_instance
POST_pipeline_run == get_actor ** Look ** trigger_run
GET_pipeline_definitions == get_actor ** list_definitions
GET_pipeline_instances == get_actor ** list_instances

(* ----- datasets ----- *)
(* Resource has no attribute created_by, DatasetInstance none of the name  *)
(* config, and DatasetService no method get_status, preview or refresh:    *)
(* these handlers always raise.                                            *)
create_dataset == Look ** Crash
get_schedule == Look ** Crash
update_schedule == Look ** Crash
delete_schedule == Look ** Crash
list_datasets == Look
get_lineage_dag == Look

POST_datasets == get_actor ** Look ** create_dataset
GET_dataset == get_actor ** Look ** Crash
GET_datasets == get_actor ** list_datasets
GET_dataset_status == get_actor ** Look ** Crash
POST_dataset_preview == get_actor ** Look ** Crash
POST_dataset_refresh == get_actor ** Look ** Crash
GET_dataset_schedule == get_actor ** Look ** get_schedule
PUT_dataset_schedule == get_actor ** Look ** update_schedule
DELETE_dataset_schedule == get_actor ** Look ** delete_schedule
GET_dataset_lineage == get_actor ** Look ** get_lineage_dag

(* ----- runs of pipelines: the service sends, and leaves the commit to    *)
(* the endpoint, which has none.  What one run triggers on its completion  *)
(* is shown once.                                                          *)
submit_run ==
    Look ** Row("resource") ** Row("run") ** Flush ** Look ** Row("status") ** Flush
         ** Do("submit") ** Row("run started") ** record_activity_with_outbox({"run started"}) ** Flush
on_run_completed ==
    Look ** Row("dataset") ** Row("status") ** Flush ** Look ** Row("downstream") ** Flush
         ** Maybe(submit_run) ** Row("stale") ** Flush ** record_activity_with_outbox({"run ended"}) ** Flush
(* The activity of a failure has no actor, which its model refuses.        *)
on_run_failed ==
    Look ** Row("dataset") ** Row("status") ** Flush ** Look ** Row("downstream") ** Flush ** Crash
poll_run ==
    Look ** Maybe(Do("status") ** Maybe(Row("run ended") ** Flush ** Maybe(on_run_completed \cup on_run_failed)))
cancel_run ==
    Look ** Do("cancel") ** Maybe(Row("run ended") ** Flush ** Look ** Row("status") ** Flush
         ** record_activity_with_outbox({"run ended"}) ** Flush) ** Look

POST_runs_pipelines == get_actor ** Look ** submit_run
GET_runs_pipeline == get_actor ** Look ** poll_run
GET_runs_pipelines == get_actor ** Look
POST_runs_pipeline_cancel == get_actor ** Look ** cancel_run
GET_runs_pipeline_logs == get_actor ** Look ** Do("logs")

(* ----- runs of experiments: the service commits ----- *)
submit_preview ==
    Look ** Row("resource") ** Row("run") ** Flush ** Look ** Do("submit")
         ** Row("run started") ** record_activity_with_outbox({"resource", "run", "run started"}) ** Commit

(* Refused like that of a pipeline's failure, but here the end of a run is *)
(* committed already, and the request that saw it fails.                   *)
emit_completion_activity == Crash
poll_and_sync ==
    Look ** Maybe(Do("status") ** Maybe(Row("run ended") ** Commit ** Maybe(emit_completion_activity)))
cancel_experiment_run ==
    Look ** Do("cancel")
         ** Maybe(Row("run ended") ** Commit ** record_activity_with_outbox({"run ended"}) ** Commit) ** Look

get_results == Look
list_runs == Look

POST_runs_experiments == get_actor ** Look ** submit_preview
GET_runs_experiment == get_actor ** Look ** poll_and_sync
GET_runs_experiment_results == get_actor ** Look ** get_results
GET_runs_experiments == get_actor ** list_runs
POST_runs_experiment_cancel == get_actor ** Look ** cancel_experiment_run
=============================================================================
