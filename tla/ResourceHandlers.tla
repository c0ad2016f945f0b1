-------------------------- MODULE ResourceHandlers -------------------------
(***************************************************************************)
(* The handlers of resources, roles, activities, reports and promotions,   *)
(* the gate of the guardrails that some of them pass, and the seed of the  *)
(* demo, as scripts of session operations (see DomainHandlers).            *)
(***************************************************************************)
EXTENDS Sessions

(* ----- the gate: every verdict is written and told of ----- *)
get_active_bundle == Look
insert_report == Row("report") ** Flush
_persist_and_emit == insert_report ** record_activity_with_outbox({"report"})
validate_at_gate == get_active_bundle ** _persist_and_emit

(* A refusal is committed, and answered with 403.  What passes resets the  *)
(* session, and with it the report.                                        *)
Guarded(body) == validate_at_gate ** (Commit \cup (reset_session ** body))

list_reports == Look
get_resource_bundle == get_active_bundle

(* ----- versions ----- *)
create_version(name) == Look ** Row(name) ** Flush
update_ref(name) == Look ** Row(name) ** Flush
initialize_versioning == Maybe(Look ** create_version("version") ** update_ref("ref"))

(* ----- resources ----- *)
create_resource ==
    get_actor ** Look
    ** Guarded(tx_activity(Row("resource") ** Flush ** initialize_versioning, {"resource"}))
update_resource ==
    get_actor ** Look
    ** Maybe(Guarded(tx_activity(Look ** Row("resource") ** Flush, {"resource"})))
delete_resource ==
    get_actor ** Look ** Guarded(tx_activity(Look ** Row("resource") ** Flush, {"resource"}))
move_resource ==
    get_actor ** Look ** reset_session ** tx_activity(Look ** Row("resource") ** Flush, {"resource"})
copy_resource ==
    get_actor ** Look ** reset_session **
    tx_activity(Row("resource") ** Flush ** Row("edge") ** initialize_versioning, {"resource", "edge"})

(* ----- roles ----- *)
grant_role == get_actor ** Look ** reset_session ** tx_activity(Row("binding") ** Flush, {"binding"})
revoke_role ==
    get_actor ** Look ** reset_session ** tx_activity(Look ** Row("binding") ** Flush, {"binding"})
list_grants == get_actor ** Look
list_effective_permissions == get_actor ** Look

(* ----- promotion by copy: the files are copied before the rows ----- *)
_get_or_create_staging_subspace == Look ** Maybe(Row("staging") ** Flush)
_promote ==
    Look ** _get_or_create_staging_subspace ** Maybe(Do("copy files"))
    ** Row("copy") ** Row("edge") ** Flush ** Row("owner") ** Row("delegator") ** Look
    ** Row("request resource") ** Flush ** Row("request")
    ** record_activity_with_outbox({"copy", "edge", "owner", "delegator", "request resource", "request"})
promote_resource == get_actor ** Look ** _promote ** Commit
get_resource_lineage == get_actor ** Look

(* ----- packages of definitions: the activities of the tests are          *)
(* committed before the definition, and that of a refused package never.   *)
_emit_upload_failed == record_activity_with_outbox({"refusal"})
_emit_tests_started == record_activity_with_outbox({"tests"})
_emit_tests_completed == record_activity_with_outbox({"verdict"})
_get_default_parent == Look
_create_definition_extension == Maybe(Row("extension"))
_upload ==
    Do("unpack") **
    ((_emit_upload_failed ** Crash)
     \cup (Maybe(_emit_tests_started ** Do("tests") ** _emit_tests_completed ** Commit)
           ** tx_activity(Maybe(_get_default_parent) ** Row("resource") ** Flush
                              ** _create_definition_extension ** Row("upload") ** Flush,
                          {"resource", "upload"})
           ** Maybe(Do("register"))))
upload_definition == get_actor ** Maybe(Look) ** _upload
get_upload_details == Look
get_definition_details == get_actor ** Look ** get_upload_details

(* ----- activities ----- *)
list_activities == get_actor ** Look
list_audit_logs == get_actor ** Look
count_audit_logs == get_actor ** Look
-----------------------------------------------------------------------------
(* The seed of the demo: one transaction after the other.                  *)
_create_resource_with_activity(name) == tx_activity(Row(name) ** Flush, {name})
_create_channel_with_activity ==
    tx_activity(Row("channel resource") ** Flush ** Row("channel") ** Flush, {"channel resource", "channel"})
_post_message_with_activity(name) == tx_activity(Row(name) ** Flush, {name})
_update_version(name) == Look ** create_version(name) ** update_ref(name)

Each(Script(_), names) == FoldLeft(LAMBDA scripts, name : scripts ** Script(name), {<<>>}, names)

DemoSpaces ==
    <<"Alice", "Bob", "Team", "System", "Alice Official", "Bob Official", "Team Official", "Team Staging",
      "Team Labs", "System Official">>
DemoContent == <<"project", "dataset", "experiment", "extension">>
DemoVersions == <<"project version", "dataset version", "experiment version", "extension version">>

_seed ==
    Enter ** Row("tenant") ** Flush ** Row("principals") ** Row("root") ** Flush ** Row("roles")
          ** Row("bindings") ** Leave
    ** Each(_create_resource_with_activity, DemoSpaces \o DemoContent)
    ** Enter ** Each(_update_version, DemoVersions) ** Leave
    ** _create_channel_with_activity
    ** Enter ** Row("channel bindings") ** Row("policy") ** Leave
    ** Each(_post_message_with_activity, <<"welcome", "reply">>)
init_demo == _seed
=============================================================================
