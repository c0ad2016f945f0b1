----------------------------- MODULE MCHandlers -----------------------------
(* A behaviour is either of a request to any endpoint on any path and on   *)
(* either database, or of one activity that is delivered.                  *)
EXTENDS Handlers, Watchers

CONSTANTS ann, top, area, item

VARIABLE part

Create == [POST_experiments |-> POST_experiments]

(* Ann owns nothing at first, and has one reason to be told or none.       *)
(* "all" is "none" for one of the two actions and "custom" for the other.  *)
MCWatchInit ==
    /\ above = [r \in Places |-> CASE r = top -> Nobody [] r = area -> top [] r = item -> area]
    /\ owner = [r \in Places |-> Nobody]
    /\ \/ follows = {} /\ \E r \in Places, role \in Roles : holds \in {{}, {<<ann, r, role>>}}
       \/ holds = {} /\ \E r \in Places, scope \in Scopes : follows = {<<ann, r, scope>>}
    /\ \E preference \in {"none", "muted", "custom"} : taste = [x \in People |-> preference]
    /\ WatchInit

BothInit ==
    /\ part \in {"request", "delivery"}
    /\ RequestInit /\ MCWatchInit
    /\ (part = "delivery" => dialect = "postgres")
    /\ (part = "request" => follows = {} /\ holds = {} /\ taste = [x \in People |-> "none"])

BothNext ==
    /\ UNCHANGED part
    /\ \/ part = "request" /\ RequestNext /\ UNCHANGED watch_vars
       \/ part = "delivery" /\ WatchNext /\ UNCHANGED request_vars

Both == BothInit /\ [][BothNext]_<<request_vars, watch_vars, part>>
=============================================================================
