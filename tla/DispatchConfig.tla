---------------------------- MODULE DispatchConfig ----------------------------
(***************************************************************************)
(* What orchd accepts as a dispatch configuration, what it makes of it, and *)
(* whom the result lets dispatch whom.  A text is the record its TOML       *)
(* parses to; an entry that is absent is None, one that is blank is Blank.  *)
(* The role cards are files next to the text and are read when it is        *)
(* loaded: ranks maps the logins that have a card with a rank to that rank. *)
(***************************************************************************)
EXTENDS TriggerRules, FiniteSets

CONSTANTS Blank, Owner   \* an empty string; the owner's login or token, "main"

-----------------------------------------------------------------------------
(* Texts: what TOML's types say of one before it is loaded.                 *)

IsTimer(timer) ==
  /\ timer = [id |-> timer.id, enabled |-> timer.enabled, interval |-> timer.interval,
              start |-> timer.start, catchUp |-> timer.catchUp,
              maxInflight |-> timer.maxInflight, repo |-> timer.repo, title |-> timer.title,
              workflow |-> timer.workflow, directive |-> timer.directive, role |-> timer.role,
              principal |-> timer.principal, mode |-> timer.mode, key |-> timer.key,
              maxAge |-> timer.maxAge, maxRuns |-> timer.maxRuns,
              resetOnFailure |-> timer.resetOnFailure, minPct |-> timer.minPct]
  /\ timer.id # None /\ timer.mode \in {"fresh", "reuse"} /\ timer.maxInflight \in Nat

\* A login is not one of the words that say where a trigger takes its role from.
IsText(text) ==
  /\ IsList(text.timers) /\ \A n \in DOMAIN text.timers : IsTimer(text.timers[n])
  /\ IsList(text.triggers)
  /\ \A n \in DOMAIN text.triggers :
       text.triggers[n].priority \in Int /\ text.triggers[n].guardrails \in BOOLEAN
  /\ {"parsed", "assignee", "conversation", "actor"} \cap DOMAIN text.roles = {}

-----------------------------------------------------------------------------
(* Rank ACL *)

EachOf(directives) == [own |-> directives, delegation |-> directives]

default_rank_directives ==
  [rank \in {2, 6, 8, 10} |->
     EachOf(IF rank = 2 THEN {"impl", "reply"} ELSE Directives)]

\* The directives of a rank or of a role's override, both sets given and known.
SurfacesLoad(policy) ==
  /\ policy.own # None /\ policy.delegation # None
  /\ policy.own \cup policy.delegation \subseteq Directives

RankPolicies(acl) ==
  [rank \in DOMAIN default_rank_directives \cup DOMAIN acl.ranks |->
     IF rank \in DOMAIN acl.ranks THEN acl.ranks[rank]
     ELSE default_rank_directives[rank]]

Allowed(text) == text.allowed \ {Blank}

\* Everybody who may appear as a principal.
PolicyRoles(text) ==
  DOMAIN text.roles \cup Allowed(text) \cup DOMAIN text.acl.overrides

Within(override, envelope) ==
  /\ override.own \subseteq envelope.own
  /\ override.delegation \subseteq envelope.delegation

\* A role's own directives replace those of its rank and never widen them.
RolePolicyLoads(text, ranks, role) ==
  /\ role \in DOMAIN ranks
  /\ ranks[role] \in DOMAIN RankPolicies(text.acl)
  /\ role \in DOMAIN text.acl.overrides =>
       Within(text.acl.overrides[role], RankPolicies(text.acl)[ranks[role]])

RankAclLoads(text, ranks) ==
  text.acl.enabled =>
    /\ \A rank \in DOMAIN text.acl.ranks : SurfacesLoad(text.acl.ranks[rank])
    /\ Blank \notin DOMAIN text.acl.overrides
    /\ \A role \in DOMAIN text.acl.overrides :
         SurfacesLoad(text.acl.overrides[role])
    /\ \A role \in PolicyRoles(text) : RolePolicyLoads(text, ranks, role)

PolicyOf(acl, role, rank) ==
  IF role \in DOMAIN acl.overrides THEN acl.overrides[role] ELSE RankPolicies(acl)[rank]

compile_rank_acl(text, ranks) ==
  [enabled |-> text.acl.enabled,
   policies |->
     IF ~text.acl.enabled THEN <<>>
     ELSE [role \in PolicyRoles(text) |->
             [rank |-> ranks[role],
              own |-> PolicyOf(text.acl, role, ranks[role]).own,
              delegation |-> PolicyOf(text.acl, role, ranks[role]).delegation]]]

has_role_policy(acl, login) == login \in DOMAIN acl.policies

target_can_execute(acl, target, directive) ==
  acl.enabled => /\ has_role_policy(acl, target)
                 /\ directive \in acl.policies[target].own

actor_can_dispatch(acl, actor, target, directive) ==
  acl.enabled =>
    /\ has_role_policy(acl, actor)
    /\ has_role_policy(acl, target)
    /\ \/ acl.policies[actor].rank > acl.policies[target].rank
       \/ /\ directive = "reply"
          /\ \/ acl.policies[actor].rank < acl.policies[target].rank
             \/ actor = target
    /\ directive \in acl.policies[actor].delegation
    /\ directive \in acl.policies[target].own

-----------------------------------------------------------------------------
(* Roles and repositories *)

\* No two roles share a token or a login, and none borrows the owner's.
RoleMappingsLoad(text) ==
  /\ \A role \in DOMAIN text.roles :
       /\ text.roles[role].login \notin {Blank, Owner}
       /\ text.roles[role].token \notin {Owner, text.control}
       /\ \A other \in DOMAIN text.roles \ {role} :
            /\ text.roles[other].login # text.roles[role].login
            /\ text.roles[other].token # text.roles[role].token
  /\ text.control # Owner

\* Bindings of repositories: a sequence of [repo, remote, base, sidecar].
Bound(text) == {text.bindings[n].repo : n \in DOMAIN text.bindings}

BindingLoads(text, binding) ==
  /\ Blank \notin {binding.repo, binding.remote, binding.base, binding.sidecar}
  /\ binding.sidecar # binding.repo
  /\ binding.sidecar # None => binding.sidecar \in Bound(text)

BindingsLoad(text) ==
  /\ \A n \in DOMAIN text.bindings : BindingLoads(text, text.bindings[n])
  /\ Cardinality(Bound(text)) = Len(text.bindings)

-----------------------------------------------------------------------------
(* Registered triggers: each of directive, role and principal is given      *)
(* literally or by the place (...From) it is to be taken from.              *)

OneOf(literal, from) == (literal = None) # (from = None)

ActionLoads(text, acl, trigger) ==
  /\ OneOf(trigger.directive, trigger.directiveFrom)
  /\ trigger.directive # None =>
       trigger.directive \in Directives \cap DOMAIN text.directives
  /\ trigger.directiveFrom \in {None, "parsed"}
  /\ OneOf(trigger.role, trigger.roleFrom)
  /\ trigger.role # None => trigger.role \in DOMAIN text.roles
  /\ trigger.roleFrom \in {None, "parsed", "assignee", "conversation"}
  /\ None \in {trigger.principal, trigger.principalFrom}
  /\ trigger.principal # None => has_role_policy(acl, trigger.principal)
  /\ trigger.principalFrom \in {None, "actor", "assignee", "conversation"}
  /\ trigger.reason \in {None, "registered_trigger"}

TriggerLoads(text, acl, trigger) ==
  /\ trigger.id # Blank
  /\ trigger.event \in {"issues", "issue_comment"}
  /\ trigger.actions # {} /\ Blank \notin trigger.actions
  /\ Blank \notin trigger.actorsNone
  /\ trigger.guardActor = "require_not_assignee" => trigger.guardAssignee # "any"
  /\ ActionLoads(text, acl, trigger)

LegacyIds == {"legacy.explicit.issue_comment", "legacy.explicit.issues",
              "legacy.conversation.reply", "legacy.assignee.reply"}

TriggersLoad(text, acl) ==
  /\ \A n \in DOMAIN text.triggers : TriggerLoads(text, acl, text.triggers[n])
  /\ \A n, m \in DOMAIN text.triggers :
       n # m => text.triggers[n].id # text.triggers[m].id
  /\ text.legacy =>
       \A n \in DOMAIN text.triggers : text.triggers[n].id \notin LegacyIds

GivenOr(literal, from, otherwise) ==
  IF literal # None THEN literal ELSE IF from # None THEN from ELSE otherwise

compile_registered_trigger(trigger) ==
  [class |-> "registered_trigger", priority |-> trigger.priority,
   event |-> trigger.event, actions |-> trigger.actions,
   guardDirective |-> trigger.guardDirective,
   guardAssignee |-> trigger.guardAssignee, guardActor |-> trigger.guardActor,
   actorsNone |-> trigger.actorsNone,
   directive |-> GivenOr(trigger.directive, trigger.directiveFrom, None),
   role |-> GivenOr(trigger.role, trigger.roleFrom, None),
   principal |-> GivenOr(trigger.principal, trigger.principalFrom, "actor"),
   guardrails |-> trigger.guardrails]

CompiledTriggers(text) ==
  (IF text.legacy THEN legacy_trigger_pack ELSE <<>>)
  \o [n \in DOMAIN text.triggers |-> compile_registered_trigger(text.triggers[n])]

-----------------------------------------------------------------------------
(* Timers *)

Principal(timer, orchd) == IF timer.principal = None THEN orchd ELSE timer.principal
ContextKey(timer) == IF timer.key \in {None, Blank} THEN timer.id ELSE timer.key

\* Mutant: the tuple of principal, role and directive is not checked.
MutTimerTupleUnchecked(text, acl, timer, orchd) ==
  /\ timer.id # Blank /\ timer.interval > 0 /\ timer.start # Blank
  /\ timer.directive \in Directives \cap DOMAIN text.directives
  /\ timer.role \in DOMAIN text.roles
  /\ has_role_policy(acl, Principal(timer, orchd))

TimerLoads(text, acl, timer, orchd) ==
  /\ timer.id # Blank /\ timer.interval > 0 /\ timer.start # Blank
  /\ Blank \notin {timer.repo, timer.title, timer.workflow}
  /\ timer.directive \in Directives \cap DOMAIN text.directives
  /\ timer.role \in DOMAIN text.roles
  /\ has_role_policy(acl, Principal(timer, orchd))
  /\ actor_can_dispatch(acl, Principal(timer, orchd), timer.role, timer.directive)
  /\ timer.minPct <= 100

\* Mutant: the timers that share a context need not agree on the role.
MutContextKeysByRepo(timers) ==
  \A n, m \in DOMAIN timers :
    timers[n].mode = "reuse" /\ timers[m].mode = "reuse"
      /\ ContextKey(timers[n]) = ContextKey(timers[m])
      => timers[n].repo = timers[m].repo

\* Timers that reuse a context agree on its role and repository; a timer in fresh mode
\* may have any key.
ContextKeysAgree(timers) ==
  \A n, m \in DOMAIN timers :
    timers[n].mode = "reuse" /\ timers[m].mode = "reuse"
      /\ ContextKey(timers[n]) = ContextKey(timers[m])
      => timers[n].role = timers[m].role /\ timers[n].repo = timers[m].repo

TimersLoad(text, acl, orchd) ==
  /\ \A n \in DOMAIN text.timers : TimerLoads(text, acl, text.timers[n], orchd)
  /\ \A n, m \in DOMAIN text.timers :
       n # m => text.timers[n].id # text.timers[m].id
  /\ ContextKeysAgree(text.timers)

compile_timer_config(timer, orchd) ==
  [timer EXCEPT !.principal = Principal(timer, orchd), !.key = ContextKey(timer),
                !.maxInflight = IF @ = 0 THEN 1 ELSE @]

-----------------------------------------------------------------------------
(* load_dispatch_config_from_str *)

Loads(text, ranks, orchd) ==
  /\ text.version = 1
  /\ Allowed(text) # {}
  /\ RoleMappingsLoad(text)
  /\ DOMAIN text.roles \subseteq DOMAIN ranks
  /\ RankAclLoads(text, ranks)
  /\ BindingsLoad(text)
  /\ TriggersLoad(text, compile_rank_acl(text, ranks))
  /\ TimersLoad(text, compile_rank_acl(text, ranks), orchd)

Compiled(text, ranks, orchd) ==
  [allowed |-> Allowed(text), acl |-> compile_rank_acl(text, ranks),
   roles |-> DOMAIN text.roles, directives |-> text.directives,
   bound |-> Bound(text), control |-> text.control,
   triggers |-> CompiledTriggers(text),
   timers |-> [n \in DOMAIN text.timers |->
                 compile_timer_config(text.timers[n], orchd)]]

-----------------------------------------------------------------------------
(* plan_dispatch, up to the binding: what a configuration says of a         *)
(* decision [actor, principal, reason, directive, role, repo].              *)

PlanOutcome(config, decision) ==
  LET bypass == \/ /\ decision.reason = "explicit_directive"
                   /\ decision.actor = decision.role
                \/ decision.reason = "assignee_reply"
                \/ has_role_policy(config.acl, decision.actor)
      permitted ==
        IF decision.reason = "assignee_reply"
        THEN target_can_execute(config.acl, decision.role, decision.directive)
        ELSE actor_can_dispatch(config.acl, decision.principal, decision.role,
                                decision.directive)
  IN  CASE decision.directive \notin DOMAIN config.directives -> "directive"
        [] decision.role \notin config.roles                  -> "role"
        [] ~bypass /\ decision.actor \notin config.allowed    -> "actor"
        [] ~permitted                                         -> "rank"
        [] decision.directive = "impl" /\ decision.repo \notin config.bound -> "binding"
        [] OTHER                                              -> "ok"

=============================================================================
