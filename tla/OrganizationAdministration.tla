--------------------- MODULE OrganizationAdministration ---------------------
(***************************************************************************)
(* Administration of organizations: memberships and their base roles,     *)
(* platform administrators, suspension, seats, organization-bound sessions *)
(* and organization Catalog API keys                                       *)
(* (backend/symgov_backend/organization_service.py,                        *)
(* organization_subscriptions.py, catalog_org_api_keys.py,                 *)
(* routes/admin.py, auth.py), with the row locks each request takes, the   *)
(* advisory lock called the gate here, and the deferred triggers of        *)
(* migration 20260810_0028.                                                *)
(*                                                                         *)
(* A request is a database transaction.  It takes its locks one at a time, *)
(* in the order of its Plan, runs the check the code makes once a lock is  *)
(* held, and applies its Outcome when it commits, unless a trigger refuses *)
(* it.  PostgreSQL ends a wait cycle by aborting one of its members.       *)
(***************************************************************************)
EXTENDS Integers, FiniteSets, Sequences

CONSTANTS
    Users,          \* accounts, numbered in the order their rows are locked
    Customers,      \* the organizations that are not the protected one
    Keys,           \* Catalog API keys that may be issued
    Operators,      \* accounts with the global admin role
    Processes,      \* requests served at the same time
    Operations,     \* the operations requested in this instance
    InitialStates,  \* committed states the requests start from
    SeatLimits,     \* seat limits a platform administrator may set
    DefaultSeatLimit,   \* the limit of the plan a new organization starts on
    MaxOpenKeys,    \* keys a member may hold in an organization
    MaxRequests     \* bound on the requests of a behaviour

Symgov == "symgov"
Orgs == Customers \cup {Symgov}

ASSUME AdministrationAssumption ==
    /\ Users \subseteq Nat /\ IsFiniteSet(Users) /\ Operators \subseteq Users
    /\ Symgov \notin Customers
    /\ MaxRequests \in Nat /\ MaxOpenKeys \in Nat /\ SeatLimits \subseteq Nat \ {0}
    /\ DefaultSeatLimit \in SeatLimits

Unmetered == -1                     \* an organization with no subscription row
BaseRoles == {"admin", "user"}

VARIABLES
    db,         \* the committed rows
    tx,         \* the request each process is serving, and how far it is
    requests    \* requests made so far

vars == <<db, tx, requests>>

-----------------------------------------------------------------------------
(* The committed rows.  member[u][o] is a membership and its active base   *)
(* role: "none" (no row), "left" (inactive), "admin" or "user".  departed  *)
(* holds the memberships whose deactivated_at has been written.            *)
Rows ==
    [account  : [Users -> {"active", "inactive", "deleted"}],
     org      : [Orgs -> {"absent", "active", "suspended"}],
     member   : [Users -> [Orgs -> {"none", "left"} \cup BaseRoles]],
     departed : SUBSET (Users \X Orgs),
     platform : SUBSET Users,
     seats    : [Orgs -> SeatLimits \cup {Unmetered}],
     lapsed   : SUBSET Orgs,
     keys     : [Keys -> [state : {"none", "issued", "claimed", "revoked"},
                          holder : Users, org : Orgs]],
     sessions : SUBSET (Users \X Orgs)]

Active(d, u) == d.account[u] = "active"
Member(d, u, o) == d.member[u][o] \in BaseRoles
Admins(d, o) == {u \in Users : d.member[u][o] = "admin" /\ Active(d, u)}
EligiblePlatformAdmins(d) == d.platform \cap Admins(d, Symgov)
SeatsInUse(d, o) == Cardinality({u \in Users : Member(d, u, o)})
SeatAvailable(d, o) ==
    \/ d.seats[o] = Unmetered
    \/ o \notin d.lapsed /\ SeatsInUse(d, o) < d.seats[o]
Bindable(d, u, o) == Active(d, u) /\ Member(d, u, o) /\ d.org[o] = "active"
OpenKeys(d, u, o) == {k \in Keys : /\ d.keys[k].state \in {"issued", "claimed"}
                                   /\ d.keys[k].holder = u
                                   /\ d.keys[k].org = o}

-----------------------------------------------------------------------------
(* The deferred triggers: what a commit must leave true.                   *)
PlatformRoleEligible(d) ==
    /\ d.platform \subseteq Admins(d, Symgov)
    /\ d.platform # {}
AdminMinimum(d) == \A o \in Orgs : d.org[o] = "active" => Admins(d, o) # {}
\* The membership history trigger: deactivated_at is written once.
HistoryKept(d, r) ==
    ~(r.op = "deactivate_membership" /\ <<r.user, r.org>> \in d.departed)

-----------------------------------------------------------------------------
(* What the committed rows obey.                                           *)
SeatsCovered(d) ==
    \A o \in Customers : d.seats[o] # Unmetered => SeatsInUse(d, o) <= d.seats[o]
KeysHeld(d) ==
    \A k \in Keys : d.keys[k].state \in {"issued", "claimed"} =>
        Member(d, d.keys[k].holder, d.keys[k].org) /\ d.org[d.keys[k].org] = "active"
SessionsHeld(d) == \A s \in d.sessions : Member(d, s[1], s[2]) /\ Active(d, s[1])
AbsentEmpty(d) ==
    \A o \in Orgs : d.org[o] = "absent" => \A u \in Users : d.member[u][o] = "none"
InCharge(d) == AdminMinimum(d) /\ PlatformRoleEligible(d)
Consistent(d) ==
    /\ d \in Rows /\ InCharge(d)
    /\ SeatsCovered(d) /\ KeysHeld(d) /\ SessionsHeld(d) /\ AbsentEmpty(d)

\* The requests start from rows that earlier ones may have left.
ASSUME InitialStatesAssumption == \A d \in InitialStates : Consistent(d)

-----------------------------------------------------------------------------
(* What each operation writes.                                             *)
KeysRevoked(d, holders, orgs) ==
    [k \in Keys |-> IF /\ d.keys[k].state \in {"issued", "claimed"}
                       /\ d.keys[k].holder \in holders /\ d.keys[k].org \in orgs
                    THEN [d.keys[k] EXCEPT !.state = "revoked"] ELSE d.keys[k]]

OrganizationCreated(d, r) ==
    [d EXCEPT !.org[r.org] = "active", !.member[r.user][r.org] = "admin",
              !.seats[r.org] = r.arg]
MemberAdded(d, r) == [d EXCEPT !.member[r.user][r.org] = r.arg]
BaseRoleReplaced(d, r) == [d EXCEPT !.member[r.user][r.org] = r.arg]
MembershipDeactivated(d, r) ==
    [d EXCEPT !.member[r.user][r.org] = "left",
              !.departed = @ \cup {<<r.user, r.org>>},
              !.keys = KeysRevoked(d, {r.user}, {r.org}),
              !.sessions = @ \ {<<r.user, r.org>>}]
ReactivatedAsMember(d, r) == [d EXCEPT !.member[r.user][r.org] = "member"]
MembershipReactivated(d, r) == [d EXCEPT !.member[r.user][r.org] = "user"]
PlatformAdminAssigned(d, r) == [d EXCEPT !.platform = @ \cup {r.user}]
PlatformAdminRevoked(d, r) == [d EXCEPT !.platform = @ \ {r.user}]
OrganizationSuspended(d, r) ==
    [d EXCEPT !.org[r.org] = "suspended",
              !.keys = KeysRevoked(d, Users, {r.org}),
              !.sessions = {s \in @ : s[2] # r.org}]
OrganizationReactivated(d, r) == [d EXCEPT !.org[r.org] = "active"]
SubscriptionSet(d, r) == [d EXCEPT !.seats[r.org] = r.arg, !.lapsed = @ \ {r.org}]
SubscriptionRenewed(d, r) == [d EXCEPT !.lapsed = @ \ {r.org}]
SessionCreated(d, r) == [d EXCEPT !.sessions = @ \cup {<<r.user, r.org>>}]
KeyIssued(d, r) ==
    [d EXCEPT !.keys[r.arg] = [state |-> "issued", holder |-> r.user, org |-> r.org]]
KeyClaimed(d, r) == [d EXCEPT !.keys[r.arg].state = "claimed"]
KeyRevoked(d, r) == [d EXCEPT !.keys[r.arg].state = "revoked"]
\* PATCH /admin/users: the account's sessions end, its keys are not touched.
AccountSet(d, r) ==
    [d EXCEPT !.account[r.user] = r.arg,
              !.sessions = IF r.arg = "inactive" THEN {s \in @ : s[1] # r.user} ELSE @]
AccountDeleted(d, r) ==
    [d EXCEPT !.account[r.user] = "deleted",
              !.keys = KeysRevoked(d, {r.user}, Orgs),
              !.sessions = {s \in @ : s[1] # r.user}]

Outcome(d, r) ==
    CASE r.op = "create_organization"     -> OrganizationCreated(d, r)
      [] r.op = "add_organization_member" -> MemberAdded(d, r)
      [] r.op = "replace_base_role"       -> BaseRoleReplaced(d, r)
      [] r.op = "deactivate_membership"   -> MembershipDeactivated(d, r)
      [] r.op = "reactivate_membership"   -> MembershipReactivated(d, r)
      [] r.op = "assign_platform_admin"   -> PlatformAdminAssigned(d, r)
      [] r.op = "revoke_platform_admin"   -> PlatformAdminRevoked(d, r)
      [] r.op = "suspend_organization"    -> OrganizationSuspended(d, r)
      [] r.op = "reactivate_organization" -> OrganizationReactivated(d, r)
      [] r.op = "set_subscription"        -> SubscriptionSet(d, r)
      [] r.op = "renew_subscription"      -> SubscriptionRenewed(d, r)
      [] r.op = "create_user_session"     -> SessionCreated(d, r)
      [] r.op = "issue_key"               -> KeyIssued(d, r)
      [] r.op = "claim_key"               -> KeyClaimed(d, r)
      [] r.op = "revoke_key"              -> KeyRevoked(d, r)
      [] r.op = "update_user"             -> AccountSet(d, r)
      [] r.op = "delete_user"             -> AccountDeleted(d, r)

-----------------------------------------------------------------------------
(* What each check requires of the rows it reads.                          *)
PlatformAdmin(d, u) == u \in EligiblePlatformAdmins(d)
OrganizationAdmin(d, u, o) == o # Symgov /\ Active(d, u) /\ d.member[u][o] = "admin"
LastAdmin(d, u, o) == d.member[u][o] = "admin" /\ Cardinality(Admins(d, o)) <= 1
MayLoseAdminUnlessPlatform(d, r) ==
    d.member[r.user][r.org] = "admin" => ~(r.org = Symgov /\ r.user \in d.platform)
MayLoseAdmin(d, r) ==
    d.member[r.user][r.org] = "admin" =>
        /\ ~(r.org = Symgov /\ r.user \in d.platform)
        /\ ~LastAdmin(d, r.user, r.org)

Passes(d, r, check) ==
    CASE check = "no_check" -> TRUE
      [] check = "actor_is_an_organization_admin" -> OrganizationAdmin(d, r.actor, r.org)
      [] check = "actor_is_a_platform_admin" -> PlatformAdmin(d, r.actor)
      [] check = "actor_is_an_admin_here" ->
            Bindable(d, r.actor, r.org) /\ d.member[r.actor][r.org] = "admin"
      [] check = "accounts_are_active" -> Active(d, r.actor) /\ Active(d, r.user)
      [] check = "account_is_active" -> Active(d, r.user)
      [] check = "no_such_organization" -> d.org[r.org] = "absent"
      [] check = "a_seat_is_free" ->
            d.org[r.org] = "active" /\ d.member[r.user][r.org] = "none" /\ SeatAvailable(d, r.org)
      [] check = "role_may_change" ->
            /\ Member(d, r.user, r.org) /\ d.member[r.user][r.org] # r.arg
            /\ r.arg = "user" => MayLoseAdmin(d, r)
      [] check = "member_may_leave" -> Member(d, r.user, r.org) /\ MayLoseAdmin(d, r)
      [] check = "membership_has_ended" ->
            d.member[r.user][r.org] = "left" /\ d.org[r.org] = "active"
      [] check = "member_may_return" -> Active(d, r.user) /\ SeatAvailable(d, r.org)
      [] check = "candidate_is_a_Symgov_admin" ->
            d.member[r.user][Symgov] = "admin" /\ r.user \notin d.platform
      [] check = "another_platform_admin_remains" ->
            r.user \in d.platform /\ EligiblePlatformAdmins(d) \ {r.user} # {}
      [] check = "organization_is_active" -> d.org[r.org] = "active"
      [] check = "organization_is_suspended" -> d.org[r.org] = "suspended"
      [] check = "limit_covers_the_seats_in_use" ->
            d.org[r.org] # "absent" /\ r.arg >= SeatsInUse(d, r.org)
      [] check = "plan_exists" -> d.seats[r.org] # Unmetered
      [] check = "session_may_be_bound" -> Bindable(d, r.user, r.org)
      [] check = "holder_may_have_a_key" ->
            /\ Active(d, r.user) /\ Member(d, r.user, r.org)
            /\ Cardinality(OpenKeys(d, r.user, r.org)) < MaxOpenKeys
            /\ d.keys[r.arg].state = "none"
      [] check = "key_may_be_claimed" ->
            /\ d.keys[r.arg].state = "issued" /\ d.keys[r.arg].holder = r.user
            /\ Bindable(d, r.user, d.keys[r.arg].org)
      [] check = "key_is_the_organizations" ->
            d.keys[r.arg].state \in {"issued", "claimed"} /\ d.keys[r.arg].org = r.org
      [] check = "actor_session_holds" ->
            Active(d, r.actor) /\ (r.org # Symgov => Bindable(d, r.actor, r.org))
      [] check = "account_is_manageable" ->
            /\ d.account[r.user] \notin {"deleted", r.arg}
            /\ r.org # Symgov => /\ {o \in Orgs : Member(d, r.user, o)} = {r.org}
                                 /\ ~(r.arg = "inactive" /\ r.user = r.actor)
      [] check = "account_exists" -> d.account[r.user] # "deleted"

-----------------------------------------------------------------------------
(* The locks a request takes, in order, and the check made at each.        *)
Lock(row, mode, check) == [row |-> row, mode |-> mode, check |-> check]
Gate == Lock(<<"gate", "gate">>, "update", "no_check")
User(u, mode, check) == Lock(<<"users", u>>, mode, check)
Org(o, mode, check) == Lock(<<"organizations", o>>, mode, check)
Key(k, check) == Lock(<<"catalog_api_keys", k>>, "update", check)
Subscription(o, check) == Lock(<<"organization_subscriptions", o>>, "update", check)

\* _locked_active_users: the rows in id order, then the check.  Locking a row
\* that the request already holds is no wait.
LockedActiveUsers(a, b) ==
    <<User(IF a < b THEN a ELSE b, "update", "no_check"),
      User(IF a < b THEN b ELSE a, "update", "accounts_are_active")>>

TrustingTheRoute(r) == <<Gate, User(r.actor, "update", "no_check")>>
AsOrganizationAdmin(r) ==
    <<Gate, User(r.actor, "update", "no_check"),
      Org(r.org, "update", "actor_is_an_organization_admin")>>
AsPlatformAdmin(r) ==
    <<Gate, User(r.actor, "update", "no_check"),
      Org(Symgov, "update", "actor_is_a_platform_admin")>>
\* The ordinary services for a customer, the protected ones for Symgov.
Authority(r) == IF r.org = Symgov THEN AsPlatformAdmin(r) ELSE AsOrganizationAdmin(r)
OrganizationNotLocked(r) == <<User(r.actor, "share", "actor_is_an_admin_here")>>
\* require_stage4_principal: shared locks, so that it never blocks a reader.
AsKeyAdministrator(r) ==
    <<User(r.actor, "share", "no_check"), Org(r.org, "share", "actor_is_an_admin_here")>>
TargetNotLocked(r, check) == <<User(r.actor, "update", check)>>
\* require_authoritative_user, then _get_user.
AccountToManage(r, check) ==
    <<User(r.actor, "update", "actor_session_holds"), User(r.user, "update", check)>>
SeatsCountedUnlocked(r) == <<Subscription(r.org, "limit_covers_the_seats_in_use")>>
PlanToSet(r) == <<Org(r.org, "update", "limit_covers_the_seats_in_use"),
                  Subscription(r.org, "no_check")>>
PlanToRenew(r) == <<Subscription(r.org, "plan_exists"), Org(r.org, "update", "no_check")>>
AccountNotLocked(r) == <<Org(r.org, "key_share", "session_may_be_bound")>>
\* The insert's trigger looks at the membership; its foreign key then locks.
SessionToCreate(r) == <<User(r.user, "update", "session_may_be_bound"),
                        Org(r.org, "key_share", "no_check")>>
BothThenPlatform(r) ==
    <<Gate>> \o LockedActiveUsers(r.actor, r.user)
             \o <<Org(Symgov, "update", "actor_is_a_platform_admin")>>

Plan(r) ==
    CASE r.op = "create_organization" ->
            BothThenPlatform(r) \o <<Org(r.org, "update", "no_such_organization")>>
      [] r.op = "add_organization_member" ->
            Authority(r) \o LockedActiveUsers(r.actor, r.user)
                         \o <<Org(r.org, "update", "a_seat_is_free")>>
      [] r.op = "replace_base_role" ->
            Authority(r) \o LockedActiveUsers(r.actor, r.user)
                         \o <<Org(r.org, "update", "role_may_change")>>
      [] r.op = "deactivate_membership" ->
            Authority(r) \o LockedActiveUsers(r.actor, r.user)
                         \o <<Org(r.org, "update", "member_may_leave")>>
      [] r.op = "reactivate_membership" ->
            AsPlatformAdmin(r) \o <<Org(r.org, "update", "membership_has_ended"),
                                    User(r.user, "update", "member_may_return")>>
      [] r.op = "assign_platform_admin" ->
            BothThenPlatform(r) \o <<Org(Symgov, "update", "candidate_is_a_Symgov_admin")>>
      [] r.op = "revoke_platform_admin" ->
            BothThenPlatform(r) \o <<Org(Symgov, "update", "another_platform_admin_remains")>>
      [] r.op = "suspend_organization" ->
            AsPlatformAdmin(r) \o <<Org(r.org, "update", "organization_is_active")>>
      [] r.op = "reactivate_organization" ->
            AsPlatformAdmin(r) \o <<Org(r.org, "update", "organization_is_suspended")>>
      [] r.op = "set_subscription" -> PlanToSet(r)
      [] r.op = "renew_subscription" -> PlanToRenew(r)
      [] r.op = "create_user_session" -> SessionToCreate(r)
      [] r.op = "issue_key" ->
            Append(AsKeyAdministrator(r), User(r.user, "update", "holder_may_have_a_key"))
      [] r.op = "claim_key" -> <<Key(r.arg, "key_may_be_claimed")>>
      [] r.op = "revoke_key" ->
            Append(AsKeyAdministrator(r), Key(r.arg, "key_is_the_organizations"))
      [] r.op = "update_user" -> Append(AccountToManage(r, "account_is_manageable"), Gate)
      [] r.op = "delete_user" -> Append(AccountToManage(r, "account_exists"), Gate)

\* Rows a commit still locks: those of the deferred triggers and of the keys
\* it revokes.
MembershipOps == {"create_organization", "add_organization_member", "replace_base_role",
                  "deactivate_membership", "reactivate_membership"}
AccountOps == {"update_user", "delete_user"}
LocksAtCommit(d, r) ==
    (IF r.op \in MembershipOps \cup AccountOps THEN {Org(Symgov, "update", "no_check")} ELSE {})
    \cup (IF r.op \in AccountOps
          THEN {Org(o, "update", "no_check") : o \in {x \in Orgs : d.member[r.user][x] = "admin"}}
          ELSE {})
    \cup {Key(k, "no_check") : k \in {x \in Keys : Outcome(d, r).keys[x] # d.keys[x]}}

-----------------------------------------------------------------------------
(* Requests.                                                               *)
NoRequest == [op |-> "none", actor |-> 0, user |-> 0, org |-> Symgov, arg |-> "none"]
Free == [r |-> NoRequest, at |-> 0]
Serving(p) == tx[p].at > 0
Idle(p) == ~Serving(p)
ReadyToCommit(p) == Serving(p) /\ tx[p].at > Len(Plan(tx[p].r))

CustomerOps == {"create_organization", "suspend_organization", "reactivate_organization",
                "set_subscription", "renew_subscription"}
KeyOps == {"issue_key", "claim_key", "revoke_key"}
PlatformOps == {"assign_platform_admin", "revoke_platform_admin"}
AllOps == MembershipOps \cup AccountOps \cup CustomerOps \cup KeyOps \cup PlatformOps
          \cup {"create_user_session"}
ASSUME OperationsAssumption == Operations \subseteq AllOps

OrgOps == CustomerOps \cup {"add_organization_member", "replace_base_role",
          "deactivate_membership", "reactivate_membership", "create_user_session",
          "issue_key", "revoke_key", "update_user"}
OwnOps == {"suspend_organization", "reactivate_organization", "set_subscription",
           "renew_subscription", "create_user_session", "claim_key", "revoke_key"}
OrgsOf(op) == IF op \in CustomerOps THEN Customers
              ELSE IF op \in OrgOps THEN Orgs ELSE {Symgov}
UsersOf(op, actor) == IF op \in OwnOps THEN {actor} ELSE Users
ArgumentsOf(op) ==
    CASE op \in {"add_organization_member", "replace_base_role"} -> BaseRoles
      [] op = "create_organization" -> {DefaultSeatLimit}
      [] op = "set_subscription" -> SeatLimits
      [] op \in KeyOps -> Keys
      [] op = "update_user" -> {"active", "inactive"}
      [] OTHER -> {"none"}

\* What the route and its dependencies require before the service is called.
RouteAllows(d, r) ==
    CASE r.op \in {"add_organization_member", "replace_base_role", "deactivate_membership"} ->
            /\ IF r.org = Symgov THEN PlatformAdmin(d, r.actor)
               ELSE OrganizationAdmin(d, r.actor, r.org) /\ d.org[r.org] = "active"
            /\ r.op # "add_organization_member" => d.member[r.user][r.org] # "none"
      [] r.op \in {"create_organization", "assign_platform_admin", "revoke_platform_admin"} ->
            PlatformAdmin(d, r.actor)
      [] r.op \in CustomerOps \ {"create_organization"} ->
            PlatformAdmin(d, r.actor) /\ d.org[r.org] # "absent"
      [] r.op = "reactivate_membership" ->
            PlatformAdmin(d, r.actor) /\ d.member[r.user][r.org] # "none"
      [] r.op \in {"create_user_session", "issue_key", "revoke_key"} ->
            Bindable(d, r.actor, r.org)
      [] r.op = "claim_key" -> Active(d, r.actor)
      [] r.op = "update_user" ->
            IF r.org = Symgov THEN r.actor \in Operators /\ Active(d, r.actor)
            ELSE OrganizationAdmin(d, r.actor, r.org) /\ d.org[r.org] = "active"
      [] r.op = "delete_user" -> r.actor \in Operators /\ Active(d, r.actor)

Request(p) ==
    /\ Idle(p) /\ requests < MaxRequests
    /\ \E op \in Operations, actor \in Users :
         \E user \in UsersOf(op, actor), org \in OrgsOf(op), arg \in ArgumentsOf(op) :
            LET r == [op |-> op, actor |-> actor, user |-> user, org |-> org, arg |-> arg]
            IN  /\ RouteAllows(db, r)
                /\ tx' = [tx EXCEPT ![p] = [r |-> r, at |-> 1]]
    /\ requests' = requests + 1
    /\ UNCHANGED db

-----------------------------------------------------------------------------
(* Row locks.  FOR UPDATE excludes every other mode; FOR SHARE and the KEY  *)
(* SHARE lock of a foreign key exclude FOR UPDATE only.                     *)
Held(p) == IF Idle(p) THEN {}
           ELSE LET plan == Plan(tx[p].r) IN {plan[i] : i \in 1..(tx[p].at - 1)}
Wanted(p) == IF Idle(p) THEN {}
             ELSE IF ReadyToCommit(p) THEN LocksAtCommit(db, tx[p].r)
             ELSE {Plan(tx[p].r)[tx[p].at]}
Conflict(a, b) == a.row = b.row /\ "update" \in {a.mode, b.mode}
WaitsFor(p) == {q \in Processes \ {p} :
                  \E wanted \in Wanted(p), held \in Held(q) : Conflict(wanted, held)}
InCycle(p) == Serving(p) /\ \E S \in SUBSET Processes :
                 p \in S /\ \A q \in S : /\ WaitsFor(q) \cap S # {}
                                      /\ \E s \in S : q \in WaitsFor(s)

RefusalKeepsLocks(p) ==
    /\ Serving(p) /\ ~ReadyToCommit(p) /\ WaitsFor(p) = {}
    /\ Passes(db, tx[p].r, Plan(tx[p].r)[tx[p].at].check)
    /\ tx' = [tx EXCEPT ![p].at = @ + 1]
    /\ UNCHANGED <<db, requests>>
Acquire(p) ==
    /\ Serving(p) /\ ~ReadyToCommit(p) /\ WaitsFor(p) = {}
    /\ LET r == tx[p].r
           at == tx[p].at
       IN  tx' = [tx EXCEPT ![p] = IF Passes(db, r, Plan(r)[at].check)
                                   THEN [r |-> r, at |-> at + 1] ELSE Free]
    /\ UNCHANGED <<db, requests>>

WithoutAdminMinimum(d, r) == PlatformRoleEligible(Outcome(d, r)) /\ HistoryKept(d, r)
\* The triggers see the rows as the transaction leaves them.
Accepted(d, r) == /\ PlatformRoleEligible(Outcome(d, r))
                  /\ AdminMinimum(Outcome(d, r))
                  /\ HistoryKept(d, r)

Commit(p) ==
    /\ ReadyToCommit(p) /\ WaitsFor(p) = {}
    /\ db' = IF Accepted(db, tx[p].r) THEN Outcome(db, tx[p].r) ELSE db
    /\ tx' = [tx EXCEPT ![p] = Free]
    /\ UNCHANGED requests

\* deadlock_timeout: PostgreSQL aborts one member of a wait cycle.
AbortVictim(p) ==
    /\ InCycle(p)
    /\ tx' = [tx EXCEPT ![p] = Free]
    /\ UNCHANGED <<db, requests>>

\* The term of a plan ends: is_subscription_active compares dates.
TermEnds(o) ==
    /\ "renew_subscription" \in Operations
    /\ db.seats[o] # Unmetered /\ o \notin db.lapsed
    /\ db' = [db EXCEPT !.lapsed = @ \cup {o}]
    /\ UNCHANGED <<tx, requests>>

Init ==
    /\ db \in InitialStates
    /\ tx = [p \in Processes |-> Free]
    /\ requests = 0

Next ==
    \/ \E p \in Processes : Request(p) \/ Acquire(p) \/ Commit(p) \/ AbortVictim(p)
    \/ \E o \in Customers : TermEnds(o)

\* The database runs the statements it has, and its deadlock detector runs.
Fairness == \A p \in Processes : WF_vars(Acquire(p) \/ Commit(p) \/ AbortVictim(p))

Spec == Init /\ [][Next]_vars /\ Fairness

-----------------------------------------------------------------------------
(* Properties.                                                             *)

(* The committed rows stay within their columns, and a request holds a     *)
(* position of its plan.                                                   *)
TypeOK ==
    /\ db \in Rows
    /\ \A p \in Processes : tx[p].at \in 0..(IF Idle(p) THEN 0 ELSE Len(Plan(tx[p].r)) + 1)
    /\ requests \in 0..MaxRequests

(* Every active organization keeps an administrator with an active account *)
(* and every platform administrator remains an eligible one, whichever     *)
(* requests run side by side: the service checks and the deferred triggers *)
(* of migration 20260810_0028 together.                                    *)
SomeoneInCharge == InCharge(db)

(* The services refuse by themselves what the deferred triggers would      *)
(* refuse.  A request that gets as far as its commit and is turned down    *)
(* there changes an account, revives an organization whose administrators' *)
(* accounts ended meanwhile, or ends a membership a second time.           *)
TriggersAreLastResort ==
    \A p \in Processes :
        ReadyToCommit(p) /\ WaitsFor(p) = {} /\ ~Accepted(db, tx[p].r) =>
            \/ tx[p].r.op \in AccountOps \cup {"reactivate_organization"}
            \/ /\ tx[p].r.op = "deactivate_membership"
               /\ <<tx[p].r.user, tx[p].r.org>> \in db.departed

(* Authority is not stale when it is used: at the moment a change to an    *)
(* organization, a platform role or a key commits, its actor still has the *)
(* authority it was checked for, although the check came earlier.          *)
AuthorityHoldsAtCommit ==
    \A p \in Processes :
        LET r == tx[p].r
        IN  ReadyToCommit(p) /\ r.op # "claim_key" =>
              /\ r.op \in {"create_organization", "reactivate_membership", "assign_platform_admin",
                           "revoke_platform_admin", "suspend_organization",
                           "reactivate_organization"} => PlatformAdmin(db, r.actor)
              /\ r.op \in {"add_organization_member", "replace_base_role",
                           "deactivate_membership"} =>
                    (IF r.org = Symgov THEN PlatformAdmin(db, r.actor)
                     ELSE OrganizationAdmin(db, r.actor, r.org))
              /\ r.op \in {"issue_key", "revoke_key"} =>
                    Bindable(db, r.actor, r.org) /\ db.member[r.actor][r.org] = "admin"

(* An Organization Admin deactivates or revives only accounts that belong  *)
(* to that organization alone (_require_manageable), although the account  *)
(* may be joining another organization at the same moment.                 *)
ManagesOwnAccountsOnly ==
    [][\A p \in Processes :
        /\ tx[p].r.op = "update_user" /\ tx[p].r.org # Symgov
        /\ db'.account # db.account /\ Idle(p)'
        => {o \in Orgs : Member(db, tx[p].r.user, o)} = {tx[p].r.org}]_vars

(* Members never outnumber the seats of the plan, while members are added, *)
(* brought back and the limit is lowered at the same time.                 *)
SeatsCoverMembers == SeatsCovered(db)

(* A key that is issued or claimed belongs to a present member of an       *)
(* organization that is active: ending the membership or suspending the    *)
(* organization revokes it, also a key that is being issued or claimed at  *)
(* that moment.                                                            *)
LiveKeyHasMember == KeysHeld(db)

(* A session bound to an organization does not outlive the membership or   *)
(* the account, also one that is being created while they end.             *)
SessionHasMember == SessionsHeld(db)

(* Every request is answered: waiting for row locks ends, if necessary     *)
(* because the database aborts a member of a cycle.                        *)
RequestsEnd == \A p \in Processes : Serving(p) ~> Idle(p)
=============================================================================
