------------------------------ MODULE Watchers ------------------------------
(***************************************************************************)
(* Whom the worker tells of an activity (apps/worker/outbox.py): between   *)
(* the audit row and the pushes of Outbox it asks, statement by statement, *)
(* for the resource and those above it, its subscribers, its owner, those  *)
(* that hold a role, and the preferences of each, while requests move      *)
(* resources, subscribe, grant and mute.  On Postgres each statement sees  *)
(* what was committed before it; on SQLite the worker writes, and nobody   *)
(* else can.                                                               *)
(*                                                                         *)
(* One activity is followed from the request that records it to its        *)
(* delivery, which starts again when a push fails.                         *)
(***************************************************************************)
EXTENDS Naturals, Sequences, FiniteSets

CONSTANTS People,       \* principals whose watching is looked at
          Places,       \* resources
          MaxFollowed,  \* bound: changes of tree, owner, subscriptions, roles, preferences
          Nobody        \* and whoever is not one of People

ASSUME WatchersAssumption ==
    /\ MaxFollowed \in Nat
    /\ IsFiniteSet(Places)
    /\ Nobody \notin People \cup Places

VARIABLES
    above,      \* Resource.parent_id
    owner,      \* Resource.owner_principal_id
    follows,    \* subscriptions that are not revoked: person, place, scope
    holds,      \* role bindings that are not revoked: person, place, role
    taste,      \* preference of each person
    activity,   \* its actor, place, target and action; Nobody before it is recorded
    worker,     \* its step, where it is on its way up, what it has found
    told,       \* channels that got a push
    standing,   \* history: reasons to be told that have held since the activity
    had,        \* history: people who had a reason, people who wished it, during the delivery
    changed     \* how many changes there were, and whether one of the tree came during a delivery

setting_vars == <<above, owner, follows, holds, taste>>
history == <<standing, had>>
watch_vars == <<setting_vars, activity, worker, told, history, changed>>

(* "resource.updated" is one of the mutations that everybody is told of by *)
(* default; "message.created" names the channel that it was sent to, and   *)
(* is what the patterns of custom_actions match.                           *)
Actions == {"resource.updated", "message.created"}
_MUTATION_ACTION_PREFIXES == {"resource.updated"}
_CHAT_ACTION_PREFIXES == {"message.created"}
Scopes == {"resource", "descendants"}
Roles == {"owner", "viewer"}
Preferences == {"none", "muted", "all", "mutations", "custom"}

Activities == [actor : People \cup {Nobody}, place : Places, target : People \cup {Nobody}, action : Actions]

(* What activity is before there is one is not one.                        *)
ASSUME ActivityAssumption == Nobody \notin Activities

_should_notify(preference) ==
    CASE preference \in {"none", "mutations"} -> _MUTATION_ACTION_PREFIXES
      [] preference = "muted" -> {}
      [] preference = "all" -> Actions
      [] preference = "custom" -> _CHAT_ACTION_PREFIXES
Wishes(p) == activity.action \in _should_notify(taste[p])
-----------------------------------------------------------------------------
(* What gives somebody a reason to be told: a route from the place of the  *)
(* activity up to one that they follow, own or hold a role on.             *)
Paths == UNION {[1..n -> Places] : n \in 1..Cardinality(Places)}
Routes == {path \in Paths : /\ path[1] = activity.place
                            /\ \A n \in DOMAIN path \ {1} : path[n] = above[path[n - 1]]}

Reason(p, route, kind) ==
    LET place == route[Len(route)]
        itself == Len(route) = 1
    IN  CASE kind = "descendants" -> <<p, place, "descendants">> \in follows
          [] kind = "delegator" -> <<p, place, "owner">> \in holds
          [] kind = "resource" -> itself /\ <<p, place, "resource">> \in follows
          [] kind = "owner" -> itself /\ owner[place] = p
          [] kind = "member" -> /\ itself /\ activity.action \in _CHAT_ACTION_PREFIXES
                                /\ \E role \in Roles : <<p, place, role>> \in holds

Kinds == {"descendants", "delegator", "resource", "owner", "member"}
Reasons == {x \in People \X Routes \X Kinds : Reason(x[1], x[2], x[3]) /\ Wishes(x[1])}
Having == [reason |-> {p \in People : \E route \in Routes, kind \in Kinds : Reason(p, route, kind)},
           wish |-> {p \in People : Wishes(p)}]
Grown(x, y) == [reason |-> x.reason \cup y.reason, wish |-> x.wish \cup y.wish]

Unknown == [reason |-> {}, wish |-> {}]
Resting == [pc |-> "idle", at |-> Nobody, chain |-> {}, found |-> {}, ask |-> {}]
Delivering == worker.pc \notin {"idle", "over"}
-----------------------------------------------------------------------------
(* The requests.  Moves keep the tree a tree, as promotions do: a cycle,   *)
(* which the move of resources.py can make, would keep the worker in       *)
(* _resource_chain forever.                                                *)
Observed(moved) ==
    /\ changed.times < MaxFollowed
    /\ changed' = [times |-> changed.times + 1, tree |-> changed.tree \/ (moved /\ Delivering)]
    /\ UNCHANGED <<activity, worker, told>>
    /\ IF activity = Nobody THEN UNCHANGED history
       ELSE /\ standing' = standing \cap Reasons'
            /\ had' = IF Delivering THEN Grown(had, Having') ELSE had

IsUnder(r, s) == \E n \in 1..Cardinality(Places) :
    LET up[i \in 0..n] == IF i = 0 THEN r ELSE IF up[i - 1] = Nobody THEN Nobody ELSE above[up[i - 1]]
    IN  up[n] = s

MoveTo(r, to) ==
    /\ above[r] \notin {Nobody, to} /\ r # to /\ ~IsUnder(to, r)
    /\ above' = [above EXCEPT ![r] = to]
    /\ UNCHANGED <<owner, follows, holds, taste>>
    /\ Observed(TRUE)

Transfer(r, p) ==
    /\ owner' = [owner EXCEPT ![r] = p]
    /\ UNCHANGED <<above, follows, holds, taste>>
    /\ Observed(FALSE)

Subscribe(p, r, scope) ==
    /\ follows' = follows \cup {<<p, r, scope>>}
    /\ UNCHANGED <<above, owner, holds, taste>>
    /\ Observed(FALSE)

Unsubscribe(x) ==
    /\ follows' = follows \ {x}
    /\ UNCHANGED <<above, owner, holds, taste>>
    /\ Observed(FALSE)

Bind(p, r, role) ==
    /\ holds' \in {holds \cup {<<p, r, role>>}, holds \ {<<p, r, role>>}}
    /\ UNCHANGED <<above, owner, follows, taste>>
    /\ Observed(FALSE)

Prefer(p, preference) ==
    /\ taste' = [taste EXCEPT ![p] = preference]
    /\ UNCHANGED <<above, owner, follows, holds>>
    /\ Observed(FALSE)

RecordActivity(a) ==
    /\ activity = Nobody /\ activity' = a
    /\ UNCHANGED <<setting_vars, worker, told, had, changed>>
    /\ standing' = Reasons'
-----------------------------------------------------------------------------
(* The worker, one statement after the other.                              *)
Asks(next) == worker' = next /\ UNCHANGED <<setting_vars, activity, told, history, changed>>
Finds(people, pc) == Asks([worker EXCEPT !.found = @ \cup people, !.pc = pc])
Walk(pc) == [worker EXCEPT !.pc = pc, !.at = activity.place, !.chain = {}]

handle_activity_outbox ==
    /\ worker.pc = "idle" /\ activity # Nobody
    /\ worker' = Walk("subscribers")
    /\ had' = Grown(had, Having)
    /\ UNCHANGED <<setting_vars, activity, told, standing, changed>>

_resource_chain ==
    /\ worker.at # Nobody
    /\ Asks([worker EXCEPT !.at = above[worker.at], !.chain = @ \cup {worker.at}])

Asked(pc) == worker.pc = pc /\ worker.at = Nobody

OnlyItsOwn ==                              (* Bug: who follows from above is left out *)
    Asked("subscribers") /\ Finds({p \in People : \E scope \in Scopes :
                                     <<p, activity.place, scope>> \in follows}, "owner")
_subscription_watchers ==
    Asked("subscribers") /\
    Finds({p \in People : \E r \in worker.chain, scope \in Scopes :
             <<p, r, scope>> \in follows /\ (scope = "resource" => r = activity.place)}, "owner")

_resource_owner ==
    /\ worker.pc = "owner"
    /\ Asks([Walk("delegators") EXCEPT !.found = @ \cup ({owner[activity.place]} \ {Nobody})])

_resource_delegators ==
    Asked("delegators") /\
    Finds({p \in People : \E r \in worker.chain : <<p, r, "owner">> \in holds},
          IF activity.action \in _CHAT_ACTION_PREFIXES THEN "members" ELSE "preferences")

_channel_members ==
    worker.pc = "members" /\
    Finds({p \in People : \E role \in Roles : <<p, activity.place, role>> \in holds}, "preferences")

(* Neither the actor, nor the target, whose inbox is told anyway.          *)
Discard ==
    /\ worker.pc = "preferences"
    /\ LET others == worker.found \ {activity.actor, activity.target}
       IN  Asks([worker EXCEPT !.pc = "filter", !.ask = others, !.found = {}])

_filter_watchers_by_preference(p) ==
    /\ worker.pc = "filter" /\ p \in worker.ask
    /\ Asks([worker EXCEPT !.ask = @ \ {p}, !.found = IF Wishes(p) THEN @ \cup {p} ELSE @])

_activity_channels ==
    {<<"place", activity.place>>}
    \cup (IF activity.target = Nobody THEN {} ELSE {<<"user", activity.target>>})
    \cup (IF activity.action \in _CHAT_ACTION_PREFIXES THEN {<<"channel", activity.place>>} ELSE {})

(* The pushes go out one by one; the first that fails, which may have      *)
(* arrived, rolls back, and the row is delivered again.                    *)
publish_channels ==
    /\ worker.pc = "filter" /\ worker.ask = {}
    /\ LET channels == _activity_channels \cup {<<"user", p>> : p \in worker.found}
       IN  \/ told' = told \cup channels /\ worker' = [Resting EXCEPT !.pc = "over"]
           \/ \E sent \in SUBSET channels : told' = told \cup sent /\ worker' = Resting
    /\ UNCHANGED <<setting_vars, activity, history, changed>>
-----------------------------------------------------------------------------
WatchNext ==
    \/ \E r, to \in Places : MoveTo(r, to)
    \/ \E r \in Places, p \in People :
          \/ Transfer(r, p)
          \/ \E scope \in Scopes : Subscribe(p, r, scope)
          \/ \E role \in Roles : Bind(p, r, role)
    \/ \E x \in follows : Unsubscribe(x)
    \/ \E p \in People, preference \in Preferences : Prefer(p, preference)
    \/ \E a \in Activities : RecordActivity(a)
    \/ handle_activity_outbox \/ _resource_chain \/ _subscription_watchers \/ _resource_owner
    \/ _resource_delegators \/ _channel_members \/ Discard \/ publish_channels
    \/ \E p \in People : _filter_watchers_by_preference(p)

WatchInit ==
    /\ above \in [Places -> Places \cup {Nobody}]
    /\ owner \in [Places -> People \cup {Nobody}]
    /\ follows \in SUBSET (People \X Places \X Scopes)
    /\ holds \in SUBSET (People \X Places \X Roles)
    /\ taste \in [People -> Preferences]
    /\ activity = Nobody /\ worker = Resting /\ told = {}
    /\ standing = {} /\ had = Unknown /\ changed = [times |-> 0, tree |-> FALSE]

WatchSpec == WatchInit /\ [][WatchNext]_watch_vars
-----------------------------------------------------------------------------
(* Whoever had a reason to be told when the activity happened, and had it  *)
(* and the wish until the delivery was over, is told, whatever changed     *)
(* between the statements of the worker and however often it tried.        *)
StandingAreTold ==
    worker.pc = "over" =>
        \A x \in standing : x[1] = activity.actor \/ <<"user", x[1]>> \in told

(* Nobody else is told than the target and those who had a reason and the  *)
(* wish while a delivery was tried.  When the tree changes on the way up   *)
(* and somebody subscribes to a place left behind, they are told all the   *)
(* same, and stay told when the delivery is tried again.                   *)
OnlyWatchersAreTold ==
    ~changed.tree => \A p \in People : <<"user", p>> \in told =>
        p = activity.target \/ p \in had.reason \cap had.wish

(* Whoever watches is told and nobody else is, although the worker reads   *)
(* each reason in a statement of its own (outbox.py).                      *)
ToldRightly == StandingAreTold /\ OnlyWatchersAreTold
=============================================================================
