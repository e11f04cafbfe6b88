-------------------------------- MODULE Authority --------------------------------
(* Who holds which permission in a school: posts, their permissions and holders      *)
(* (app/api/users.py), delegations, the standard profiles                            *)
(* (app/services/rbac_enterprise.py) and the first administrator of a school         *)
(* (app/services/onboarding.py), with the checks of app/services/authorization.py.   *)
(*                                                                                   *)
(* A request checks what its user holds, then commits; others commit in between.     *)
EXTENDS Integers, FiniteSets

CONSTANTS
  Requests,
  Users, Super,           \* the school's users; the superadmin, who is none of them
  Posts, Permissions,
  Profiles,               \* the posts that are standard profiles
  ProfilePermissions,     \* [Profiles -> SUBSET Permissions]
  Direction,              \* the profile of the first administrator
  MODIFY_PERMISSIONS, MODIFY_USERS, MODIFY_SETTINGS,
  MaxCalls                \* bound: requests

VARIABLES
  links,        \* post_permissions: <<post, permission, scope>>
  holders,      \* user_posts: <<user, post>>
  delegated,    \* delegations that have not ended: <<user, permission, scope>>
  introduced,   \* history: <<permission, scope>> that the superadmin or the onboarding gave
  calls, work   \* work[r]: what request r is about to commit

vars == <<links, holders, delegated, introduced, calls, work>>

\* An empty scope is the whole school; another restricts the permission.
Scopes == {"school", "class"}

AuthorityConstants ==
  /\ Super \notin Users /\ Profiles \subseteq Posts /\ Direction \in Profiles
  /\ ProfilePermissions \in [Profiles -> SUBSET Permissions]
  /\ {MODIFY_PERMISSIONS, MODIFY_USERS, MODIFY_SETTINGS} \subseteq Permissions
  /\ MaxCalls \in Nat

Idle == [op |-> "none"]

TypeOK ==
  /\ links \subseteq Posts \X Permissions \X Scopes
  /\ holders \subseteq (Users \cup {Super}) \X Posts
  /\ delegated \subseteq Users \X Permissions \X Scopes
  /\ introduced \subseteq Permissions \X Scopes
  /\ calls \in 0..MaxCalls

Init ==
  /\ links = {} /\ holders = {} /\ delegated = {} /\ introduced = {}
  /\ calls = 0 /\ work = [r \in Requests |-> Idle]

----------------------------------------------------------------------------------
(* authorization.py                                                               *)

Posted(u) == {p \in Posts : <<u, p>> \in holders}

\* user_has_permission, in the empty context of an administration's request
Has(u, perm) ==
  \/ u = Super
  \/ \E p \in Posted(u) : <<p, perm, "school">> \in links
  \/ <<u, perm, "school">> \in delegated

\* user_can_grant_permission: neither a delegation nor a restricted permission will do.
CanGrant_AnyScope(u, perm) ==
  u = Super \/ \E p \in Posted(u), s \in Scopes : <<p, perm, s>> \in links
CanGrant(u, perm) ==
  u = Super \/ \E p \in Posted(u) : <<p, perm, "school">> \in links

----------------------------------------------------------------------------------
(* Requests: first what is checked                                                *)

Actors == Users \cup {Super}
Ready(r) == work[r] = Idle /\ calls < MaxCalls
Begin(r, request) ==
  /\ calls' = calls + 1 /\ work' = [work EXCEPT ![r] = request]
  /\ UNCHANGED <<links, holders, delegated, introduced>>

\* One permission or several: all may be granted, or the request is refused.
BeginLink(r, u, post, perms, scope) ==
  /\ Ready(r) /\ Has(u, MODIFY_PERMISSIONS) /\ \A perm \in perms : CanGrant(u, perm)
  /\ Begin(r, [op |-> "link", by |-> u,
               add |-> {<<post, perm, scope>> : perm \in perms} \ links])

BeginUnlink(r, u, link) ==
  /\ Ready(r) /\ Has(u, MODIFY_PERMISSIONS) /\ link \in links
  /\ Begin(r, [op |-> "unlink", link |-> link])

BeginPost(r, u, to, post) ==
  /\ Ready(r) /\ Has(u, MODIFY_USERS)
  /\ \A l \in links : l[1] = post => CanGrant(u, l[2])
  /\ Begin(r, [op |-> "post", to |-> to, post |-> post])

BeginDelegate(r, u, to, perm, scope) ==
  /\ Ready(r) /\ Has(u, MODIFY_PERMISSIONS) /\ CanGrant(u, perm)
  /\ Begin(r, [op |-> "delegate", by |-> u, new |-> <<to, perm, scope>>])

BeginProfile(r, u, to, profile) ==
  /\ Ready(r) /\ Has(u, MODIFY_USERS)
  /\ \A perm \in ProfilePermissions[profile] : CanGrant(u, perm)
  /\ Begin(r, [op |-> "profile", by |-> u, to |-> to, post |-> profile])

BeginOnboarding(r, u) ==
  /\ Ready(r) /\ Has(u, MODIFY_SETTINGS)
  /\ Begin(r, [op |-> "profiles", by |-> u])

----------------------------------------------------------------------------------
(* Then what is committed                                                         *)

Ends(r) == work' = [work EXCEPT ![r] = Idle]
Next_(r, op) == work' = [work EXCEPT ![r].op = op]
ByCentre(u, given) ==
  introduced' = introduced \cup (IF u = Super THEN given ELSE {})

\* uq_post_permission_scope: a link that came meanwhile undoes the request.
Link(r) ==
  /\ work[r].op = "link" /\ Ends(r)
  /\ LET add == work[r].add IN
     IF add \cap links = {}
     THEN links' = links \cup add /\ ByCentre(work[r].by, {<<l[2], l[3]>> : l \in add})
     ELSE UNCHANGED <<links, introduced>>
  /\ UNCHANGED <<holders, delegated, calls>>

Unlink(r) ==
  /\ work[r].op = "unlink" /\ Ends(r)
  /\ links' = links \ {work[r].link}
  /\ UNCHANGED <<holders, delegated, introduced, calls>>

Post(r) ==
  /\ work[r].op = "post" /\ Ends(r)
  /\ holders' = holders \cup {<<work[r].to, work[r].post>>}
  /\ UNCHANGED <<links, delegated, introduced, calls>>

Delegate(r) ==
  /\ work[r].op = "delegate" /\ Ends(r)
  /\ delegated' = delegated \cup {work[r].new}
  /\ ByCentre(work[r].by, {<<work[r].new[2], work[r].new[3]>>})
  /\ UNCHANGED <<links, holders, calls>>

\* The days of a delegation are over.
DelegationEnds ==
  /\ \E d \in delegated : delegated' = delegated \ {d}
  /\ UNCHANGED <<links, holders, introduced, calls, work>>

\* ensure_profile
Profiled(profile) == {<<profile, perm, "school">> : perm \in ProfilePermissions[profile]}
GivenWith(profiles) == {<<perm, "school">> : perm \in UNION {ProfilePermissions[p] : p \in profiles}}

EnsureProfile(r) ==
  /\ work[r].op = "profile" /\ Next_(r, "post")
  /\ links' = links \cup Profiled(work[r].post)
  /\ ByCentre(work[r].by, GivenWith({work[r].post}))
  /\ UNCHANGED <<holders, delegated, calls>>

\* The onboarding makes every profile; then whoever asked for it becomes the first
\* administrator of a school in which nobody holds a post, or takes the profile as any
\* other would, or does without.
EnsureProfiles(r) ==
  /\ work[r].op = "profiles" /\ Next_(r, "first")
  /\ links' = links \cup UNION {Profiled(p) : p \in Profiles}
  /\ introduced' = introduced \cup GivenWith(Profiles)
  /\ UNCHANGED <<holders, delegated, calls>>

BootstrapFirst(r) ==
  /\ work[r].op = "first"
  /\ LET u == work[r].by IN
     work' = [work EXCEPT ![r] =
       IF holders = {} \/ \A perm \in ProfilePermissions[Direction] : CanGrant(u, perm)
       THEN [op |-> "profile", by |-> u, to |-> u, post |-> Direction] ELSE Idle]
  /\ UNCHANGED <<links, holders, delegated, introduced, calls>>

----------------------------------------------------------------------------------
Next ==
  \/ \E r \in Requests, u \in Actors :
       \/ \E post \in Posts, perms \in SUBSET Permissions, scope \in Scopes :
            perms # {} /\ BeginLink(r, u, post, perms, scope)
       \/ \E l \in links : BeginUnlink(r, u, l)
       \/ \E to \in Users, post \in Posts : BeginPost(r, u, to, post)
       \/ \E to \in Users, perm \in Permissions, scope \in Scopes :
            BeginDelegate(r, u, to, perm, scope)
       \/ \E to \in Users, p \in Profiles : BeginProfile(r, u, to, p)
       \/ BeginOnboarding(r, u)
  \/ \E r \in Requests : \/ Link(r) \/ Unlink(r) \/ Post(r) \/ Delegate(r)
                         \/ EnsureProfile(r) \/ EnsureProfiles(r) \/ BootstrapFirst(r)
  \/ DelegationEnds

Spec == Init /\ [][Next]_vars

----------------------------------------------------------------------------------
\* «ne peuvent transmettre que les permissions qu'ils détiennent directement à portée
\* établissement»: however grants, removals, profiles and delegations follow and cross, no
\* permission is anywhere in the school, on a post or delegated, that the centre or the
\* onboarding has not given to the school, and none has become wider on its way.
NothingWidens ==
  LET Covered(perm, scope) ==
        <<perm, "school">> \in introduced \/ <<perm, scope>> \in introduced
  IN /\ \A l \in links : Covered(l[2], l[3])
     /\ \A d \in delegated : Covered(d[2], d[3])
=================================================================================
