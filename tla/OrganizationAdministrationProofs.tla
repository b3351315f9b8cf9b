------------------ MODULE OrganizationAdministrationProofs ------------------
(***************************************************************************)
(* What TLAPS proves of OrganizationAdministration.                        *)
(*                                                                         *)
(* A check reads rows; Support names those that keep what it found, and    *)
(* every plan has locked them by the time it makes the check (Plans to     *)
(* PlansSupported).  A commit writes only rows it has locked for update    *)
(* (Frame, and one Moves lemma for each outcome).  Locks that exclude each *)
(* other are never held by two requests, so a commit undoes nothing that   *)
(* the checks of the others have found: that is IInv.                      *)
(***************************************************************************)
EXTENDS OrganizationAdministration, FiniteSetTheorems, SequenceTheorems, TLAPS

-----------------------------------------------------------------------------
(* The tables of the committed rows.                                       *)
Roles == {"none", "left"} \cup BaseRoles
AccountRows == [Users -> {"active", "inactive", "deleted"}]
OrgRows == [Orgs -> {"absent", "active", "suspended"}]
MemberRows == [Users -> [Orgs -> Roles]]
SeatRows == [Orgs -> SeatLimits \cup {Unmetered}]
KeyState == [state : {"none", "issued", "claimed", "revoked"}, holder : Users, org : Orgs]
KeyRows == [Keys -> KeyState]

\* Rows is the record of the tables.
LEMMA RowsAreTables ==
    Rows = [account : AccountRows, org : OrgRows, member : MemberRows,
            departed : SUBSET (Users \X Orgs), platform : SUBSET Users, seats : SeatRows,
            lapsed : SUBSET Orgs, keys : KeyRows, sessions : SUBSET (Users \X Orgs)]
BY DEF Rows, Roles, AccountRows, OrgRows, MemberRows, SeatRows, KeyState, KeyRows

-----------------------------------------------------------------------------
(* Requests.                                                               *)
RequestOK(r) ==
    /\ r.op \in AllOps
    /\ r.actor \in Users /\ r.user \in Users /\ r.org \in Orgs
    /\ r.op \in CustomerOps => r.org \in Customers
    /\ r.op \in PlatformOps \cup {"delete_user"} => r.org = Symgov
    /\ r.op \in {"add_organization_member", "replace_base_role"} => r.arg \in BaseRoles
    /\ r.op = "create_organization" => r.arg = DefaultSeatLimit
    /\ r.op = "set_subscription" => r.arg \in SeatLimits
    /\ r.op \in KeyOps => r.arg \in Keys
    /\ r.op = "update_user" => r.arg \in {"active", "inactive"}
    /\ r.op \in OwnOps => r.user = r.actor

-----------------------------------------------------------------------------
(* The rows that a request locks, in order.                                *)
Lower(r) == IF r.actor < r.user THEN r.actor ELSE r.user
Higher(r) == IF r.actor < r.user THEN r.user ELSE r.actor
AuthorityCheck(r) ==
    IF r.org = Symgov THEN "actor_is_a_platform_admin" ELSE "actor_is_an_organization_admin"
MemberCheck(r) ==
    CASE r.op = "add_organization_member" -> "a_seat_is_free"
      [] r.op = "replace_base_role" -> "role_may_change"
      [] r.op = "deactivate_membership" -> "member_may_leave"
PlatformCheck(r) ==
    CASE r.op = "create_organization" -> "no_such_organization"
      [] r.op = "assign_platform_admin" -> "candidate_is_a_Symgov_admin"
      [] r.op = "revoke_platform_admin" -> "another_platform_admin_remains"
EntitlementCheck(r) ==
    CASE r.op = "suspend_organization" -> "organization_is_active"
      [] r.op = "reactivate_organization" -> "organization_is_suspended"

\* Sequences that agree at every place are equal: the shapes the plans have.
LEMMA JoinedMember ==
    ASSUME NEW a, NEW b, NEW c, NEW d, NEW e, NEW f
    PROVE  (<<a, b, c>> \o <<d, e>>) \o <<f>> = <<a, b, c, d, e, f>>
<1> DEFINE S == {a, b, c, d, e, f}
           s == (<<a, b, c>> \o <<d, e>>) \o <<f>>
           t == <<a, b, c, d, e, f>>
<1>1. s \in Seq(S) /\ t \in Seq(S)
  OBVIOUS
<1>2. Len(s) = 6 /\ Len(t) = 6 /\ \A i \in 1..6 : s[i] = t[i]
  OBVIOUS
<1>3. s = t
  <2> HIDE DEF S, s, t
  <2> QED
    BY <1>1, <1>2, SeqEqual
<1> QED
  BY <1>3

\* The locks of a platform operation.
LEMMA JoinedPlatform ==
    ASSUME NEW a, NEW b, NEW c, NEW d, NEW e
    PROVE  ((<<a>> \o <<b, c>>) \o <<d>>) \o <<e>> = <<a, b, c, d, e>>
<1> DEFINE S == {a, b, c, d, e}
           s == ((<<a>> \o <<b, c>>) \o <<d>>) \o <<e>>
           t == <<a, b, c, d, e>>
<1>1. s \in Seq(S) /\ t \in Seq(S)
  OBVIOUS
<1>2. Len(s) = 5 /\ Len(t) = 5 /\ \A i \in 1..5 : s[i] = t[i]
  OBVIOUS
<1>3. s = t
  <2> HIDE DEF S, s, t
  <2> QED
    BY <1>1, <1>2, SeqEqual
<1> QED
  BY <1>3

\* The locks of a reactivated membership.
LEMMA JoinedReturn ==
    ASSUME NEW a, NEW b, NEW c, NEW d, NEW e
    PROVE  <<a, b, c>> \o <<d, e>> = <<a, b, c, d, e>>
<1> DEFINE S == {a, b, c, d, e}
           s == <<a, b, c>> \o <<d, e>>
           t == <<a, b, c, d, e>>
<1>1. s \in Seq(S) /\ t \in Seq(S)
  OBVIOUS
<1>2. Len(s) = 5 /\ Len(t) = 5 /\ \A i \in 1..5 : s[i] = t[i]
  OBVIOUS
<1>3. s = t
  <2> HIDE DEF S, s, t
  <2> QED
    BY <1>1, <1>2, SeqEqual
<1> QED
  BY <1>3

\* The locks of a suspension.
LEMMA JoinedEntitlement ==
    ASSUME NEW a, NEW b, NEW c, NEW d
    PROVE  <<a, b, c>> \o <<d>> = <<a, b, c, d>>
<1> DEFINE S == {a, b, c, d}
           s == <<a, b, c>> \o <<d>>
           t == <<a, b, c, d>>
<1>1. s \in Seq(S) /\ t \in Seq(S)
  OBVIOUS
<1>2. Len(s) = 4 /\ Len(t) = 4 /\ \A i \in 1..4 : s[i] = t[i]
  OBVIOUS
<1>3. s = t
  <2> HIDE DEF S, s, t
  <2> QED
    BY <1>1, <1>2, SeqEqual
<1> QED
  BY <1>3

\* Two locks and one more.
LEMMA JoinedThree ==
    ASSUME NEW a, NEW b, NEW c
    PROVE  Append(<<a, b>>, c) = <<a, b, c>>
<1> DEFINE S == {a, b, c}
           s == Append(<<a, b>>, c)
           t == <<a, b, c>>
<1>1. s \in Seq(S) /\ t \in Seq(S)
  OBVIOUS
<1>2. Len(s) = 3 /\ Len(t) = 3 /\ \A i \in 1..3 : s[i] = t[i]
  OBVIOUS
<1>3. s = t
  <2> HIDE DEF S, s, t
  <2> QED
    BY <1>1, <1>2, SeqEqual
<1> QED
  BY <1>3

\* The plans, written out.
LEMMA Plans ==
    ASSUME NEW r, RequestOK(r)
    PROVE  /\ r.op \in {"add_organization_member", "replace_base_role", "deactivate_membership"} =>
                Plan(r) = <<Gate, User(r.actor, "update", "no_check"),
                            Org(r.org, "update", AuthorityCheck(r)),
                            User(Lower(r), "update", "no_check"),
                            User(Higher(r), "update", "accounts_are_active"),
                            Org(r.org, "update", MemberCheck(r))>>
           /\ r.op \in PlatformOps \cup {"create_organization"} =>
                Plan(r) = <<Gate, User(Lower(r), "update", "no_check"),
                            User(Higher(r), "update", "accounts_are_active"),
                            Org(Symgov, "update", "actor_is_a_platform_admin"),
                            Org(r.org, "update", PlatformCheck(r))>>
           /\ r.op = "reactivate_membership" =>
                Plan(r) = <<Gate, User(r.actor, "update", "no_check"),
                            Org(Symgov, "update", "actor_is_a_platform_admin"),
                            Org(r.org, "update", "membership_has_ended"),
                            User(r.user, "update", "member_may_return")>>
           /\ r.op \in {"suspend_organization", "reactivate_organization"} =>
                Plan(r) = <<Gate, User(r.actor, "update", "no_check"),
                            Org(Symgov, "update", "actor_is_a_platform_admin"),
                            Org(r.org, "update", EntitlementCheck(r))>>
           /\ r.op = "set_subscription" => Plan(r) = PlanToSet(r)
           /\ r.op = "renew_subscription" => Plan(r) = PlanToRenew(r)
           /\ r.op = "create_user_session" => Plan(r) = SessionToCreate(r)
           /\ r.op = "issue_key" =>
                Plan(r) = <<User(r.actor, "share", "no_check"),
                            Org(r.org, "share", "actor_is_an_admin_here"),
                            User(r.user, "update", "holder_may_have_a_key")>>
           /\ r.op = "claim_key" => Plan(r) = <<Key(r.arg, "key_may_be_claimed")>>
           /\ r.op = "revoke_key" =>
                Plan(r) = <<User(r.actor, "share", "no_check"),
                            Org(r.org, "share", "actor_is_an_admin_here"),
                            Key(r.arg, "key_is_the_organizations")>>
           /\ r.op = "update_user" =>
                Plan(r) = <<User(r.actor, "update", "actor_session_holds"),
                            User(r.user, "update", "account_is_manageable"), Gate>>
           /\ r.op = "delete_user" =>
                Plan(r) = <<User(r.actor, "update", "actor_session_holds"),
                            User(r.user, "update", "account_exists"), Gate>>
<1> DEFINE low == User(Lower(r), "update", "no_check")
           high == User(Higher(r), "update", "accounts_are_active")
           actor == User(r.actor, "update", "no_check")
           symgov == Org(Symgov, "update", "actor_is_a_platform_admin")
<1>1. LockedActiveUsers(r.actor, r.user) = <<low, high>>
  BY DEF LockedActiveUsers, Lower, Higher
<1>2. Authority(r) = <<Gate, actor, Org(r.org, "update", AuthorityCheck(r))>>
  BY DEF Authority, AsPlatformAdmin, AsOrganizationAdmin, AuthorityCheck
<1>3. AsPlatformAdmin(r) = <<Gate, actor, symgov>>
  BY DEF AsPlatformAdmin
<1>4. BothThenPlatform(r) = (<<Gate>> \o LockedActiveUsers(r.actor, r.user)) \o <<symgov>>
  BY DEF BothThenPlatform
<1>5. AsKeyAdministrator(r) = <<User(r.actor, "share", "no_check"),
                                Org(r.org, "share", "actor_is_an_admin_here")>>
  BY DEF AsKeyAdministrator
<1> HIDE DEF low, high, actor, symgov
<1>6. ASSUME r.op \in {"add_organization_member", "replace_base_role", "deactivate_membership"}
      PROVE  Plan(r) = <<Gate, actor, Org(r.org, "update", AuthorityCheck(r)), low, high,
                         Org(r.org, "update", MemberCheck(r))>>
  <2>1. Plan(r) = (Authority(r) \o LockedActiveUsers(r.actor, r.user))
                    \o <<Org(r.org, "update", MemberCheck(r))>>
    BY <1>6 DEF Plan, MemberCheck
  <2>2. \A a, b, c, d, e, f :
          (<<a, b, c>> \o <<d, e>>) \o <<f>> = <<a, b, c, d, e, f>>
    BY JoinedMember
  <2> QED
    BY <1>1, <1>2, <2>1, <2>2
<1>7. ASSUME r.op \in PlatformOps \cup {"create_organization"}
      PROVE  Plan(r) = <<Gate, low, high, symgov, Org(r.org, "update", PlatformCheck(r))>>
  <2>1. Plan(r) = BothThenPlatform(r) \o <<Org(r.org, "update", PlatformCheck(r))>>
    BY <1>7 DEF Plan, PlatformCheck, PlatformOps, RequestOK
  <2>2. \A a, b, c, d, e : ((<<a>> \o <<b, c>>) \o <<d>>) \o <<e>> = <<a, b, c, d, e>>
    BY JoinedPlatform
  <2>3. Plan(r) = ((<<Gate>> \o <<low, high>>) \o <<symgov>>)
                    \o <<Org(r.org, "update", PlatformCheck(r))>>
    BY <1>1, <1>4, <2>1
  <2> QED
    BY <2>2, <2>3
<1>8. ASSUME r.op = "reactivate_membership"
      PROVE  Plan(r) = <<Gate, actor, symgov, Org(r.org, "update", "membership_has_ended"),
                         User(r.user, "update", "member_may_return")>>
  <2>1. Plan(r) = AsPlatformAdmin(r) \o <<Org(r.org, "update", "membership_has_ended"),
                                          User(r.user, "update", "member_may_return")>>
    BY <1>8 DEF Plan
  <2>2. \A a, b, c, d, e : <<a, b, c>> \o <<d, e>> = <<a, b, c, d, e>>
    BY JoinedReturn
  <2> QED
    BY <1>3, <2>1, <2>2
<1>9. ASSUME r.op \in {"suspend_organization", "reactivate_organization"}
      PROVE  Plan(r) = <<Gate, actor, symgov, Org(r.org, "update", EntitlementCheck(r))>>
  <2>1. Plan(r) = AsPlatformAdmin(r) \o <<Org(r.org, "update", EntitlementCheck(r))>>
    BY <1>9 DEF Plan, EntitlementCheck
  <2>2. \A a, b, c, d : <<a, b, c>> \o <<d>> = <<a, b, c, d>>
    BY JoinedEntitlement
  <2> QED
    BY <1>3, <2>1, <2>2
<1>10. /\ r.op = "set_subscription" => Plan(r) = PlanToSet(r)
       /\ r.op = "renew_subscription" => Plan(r) = PlanToRenew(r)
       /\ r.op = "create_user_session" => Plan(r) = SessionToCreate(r)
       /\ r.op = "claim_key" => Plan(r) = <<Key(r.arg, "key_may_be_claimed")>>
  BY DEF Plan
<1>11. r.op = "issue_key" =>
         Plan(r) = Append(AsKeyAdministrator(r), User(r.user, "update", "holder_may_have_a_key"))
  BY DEF Plan
<1>12. r.op = "revoke_key" =>
         Plan(r) = Append(AsKeyAdministrator(r), Key(r.arg, "key_is_the_organizations"))
  BY DEF Plan
<1>13. r.op = "update_user" =>
         Plan(r) = Append(<<User(r.actor, "update", "actor_session_holds"),
                            User(r.user, "update", "account_is_manageable")>>, Gate)
  BY DEF Plan, AccountToManage
<1>14. r.op = "delete_user" =>
         Plan(r) = Append(<<User(r.actor, "update", "actor_session_holds"),
                            User(r.user, "update", "account_exists")>>, Gate)
  BY DEF Plan, AccountToManage
<1>15. \A a, b, c : Append(<<a, b>>, c) = <<a, b, c>>
  BY JoinedThree
<1>16. /\ r.op = "issue_key" =>
            Plan(r) = <<User(r.actor, "share", "no_check"),
                        Org(r.org, "share", "actor_is_an_admin_here"),
                        User(r.user, "update", "holder_may_have_a_key")>>
       /\ r.op = "revoke_key" =>
            Plan(r) = <<User(r.actor, "share", "no_check"),
                        Org(r.org, "share", "actor_is_an_admin_here"),
                        Key(r.arg, "key_is_the_organizations")>>
  BY <1>5, <1>11, <1>12, <1>15
<1>17. /\ r.op = "update_user" =>
            Plan(r) = <<User(r.actor, "update", "actor_session_holds"),
                        User(r.user, "update", "account_is_manageable"), Gate>>
       /\ r.op = "delete_user" =>
            Plan(r) = <<User(r.actor, "update", "actor_session_holds"),
                        User(r.user, "update", "account_exists"), Gate>>
  BY <1>13, <1>14, <1>15
<1> QED
  BY <1>6, <1>7, <1>8, <1>9, <1>10, <1>16, <1>17 DEF low, high, actor, symgov
-----------------------------------------------------------------------------
(* What a passed check has established, and the rows that keep it true.    *)
UserRow(u) == <<"users", u>>
OrgRow(o) == <<"organizations", o>>
KeyRow(k) == <<"catalog_api_keys", k>>

\* A seat that is free stays free of other members, though the plan may lapse.
Room(d, o) == d.seats[o] = Unmetered \/ SeatsInUse(d, o) < d.seats[o]
Holds(d, r, check) ==
    CASE check = "a_seat_is_free" ->
            d.org[r.org] = "active" /\ d.member[r.user][r.org] = "none" /\ Room(d, r.org)
      [] check = "member_may_return" -> Active(d, r.user) /\ Room(d, r.org)
      [] check \in {"session_may_be_bound", "holder_may_have_a_key"} ->
            Active(d, r.user) /\ Member(d, r.user, r.org)
      [] check = "key_may_be_claimed" -> d.keys[r.arg].state = "issued"
      [] check = "account_is_manageable" ->
            r.org # Symgov => {o \in Orgs : Member(d, r.user, o)} = {r.org}
      [] check \in {"no_check", "plan_exists", "key_is_the_organizations", "actor_session_holds",
                    "account_exists"} -> TRUE
      [] OTHER -> Passes(d, r, check)
Support(r, check) ==
    CASE check \in {"actor_is_an_organization_admin", "actor_is_a_platform_admin"} ->
            {UserRow(r.actor)}
      [] check = "actor_is_an_admin_here" -> {UserRow(r.actor), OrgRow(r.org)}
      [] check = "accounts_are_active" -> {UserRow(r.actor), UserRow(r.user)}
      [] check \in {"no_such_organization", "organization_is_active", "organization_is_suspended",
                    "membership_has_ended", "limit_covers_the_seats_in_use"} -> {OrgRow(r.org)}
      [] check = "another_platform_admin_remains" -> {OrgRow(Symgov)}
      [] check \in {"a_seat_is_free", "role_may_change", "member_may_leave",
                    "member_may_return"} -> {UserRow(r.user), OrgRow(r.org)}
      [] check \in {"candidate_is_a_Symgov_admin", "session_may_be_bound",
                    "holder_may_have_a_key", "account_is_manageable"} -> {UserRow(r.user)}
      [] check = "key_may_be_claimed" -> {KeyRow(r.arg)}
      [] OTHER -> {}

\* The checks there are; a key is claimed by its own id.
ChecksOf(r) ==
    {"actor_is_an_organization_admin", "actor_is_a_platform_admin", "actor_is_an_admin_here",
     "accounts_are_active", "no_such_organization", "organization_is_active",
     "organization_is_suspended", "membership_has_ended", "limit_covers_the_seats_in_use",
     "another_platform_admin_remains", "a_seat_is_free", "role_may_change", "member_may_leave",
     "member_may_return", "candidate_is_a_Symgov_admin", "session_may_be_bound",
     "holder_may_have_a_key", "account_is_manageable", "no_check", "plan_exists",
     "key_is_the_organizations", "actor_session_holds", "account_exists"}
    \cup (IF r.arg \in Keys THEN {"key_may_be_claimed"} ELSE {})

\* The rows of the first locks of a plan, the rows it locks for update, and
\* the checks it makes.
RowsUpTo(plan, i) == {plan[j].row : j \in 1..i}
Updated(plan) == {plan[i].row : i \in {j \in 1..Len(plan) : plan[j].mode = "update"}}
Checks(plan) == {plan[i].check : i \in 1..Len(plan)}
\* Every check is made under the locks that keep what it finds.
Supported(r, plan) ==
    \A i \in 1..Len(plan) :
        plan[i].check \in ChecksOf(r) /\ Support(r, plan[i].check) \subseteq RowsUpTo(plan, i)

\* The parts of a lock.
IsLock(lock, row, mode, check) == lock.row = row /\ lock.mode = mode /\ lock.check = check

\* The locks are made of their parts.
LEMMA Locks ==
    /\ \A u, mode, check : IsLock(User(u, mode, check), UserRow(u), mode, check)
    /\ \A o, mode, check : IsLock(Org(o, mode, check), OrgRow(o), mode, check)
    /\ \A k, check : IsLock(Key(k, check), KeyRow(k), "update", check)
    /\ IsLock(Gate, <<"gate", "gate">>, "update", "no_check")
    /\ \A o, check :
        IsLock(Subscription(o, check), <<"organization_subscriptions", o>>, "update", check)
BY DEF User, Org, Key, Gate, Subscription, Lock, IsLock, UserRow, OrgRow, KeyRow

\* One of the two accounts is the lower one, the other the higher.
LEMMA LowerHigher ==
    ASSUME NEW r
    PROVE  {Lower(r), Higher(r)} = {r.actor, r.user}
BY DEF Lower, Higher

\* The plans of the operations on a membership.
LEMMA MemberPlan ==
    ASSUME NEW r, RequestOK(r),
           r.op \in {"add_organization_member", "replace_base_role", "deactivate_membership"}
    PROVE  /\ Supported(r, Plan(r))
           /\ {UserRow(r.user), OrgRow(r.org)} \subseteq Updated(Plan(r))
           /\ {AuthorityCheck(r), "accounts_are_active", MemberCheck(r)} \subseteq Checks(Plan(r))
           /\ Len(Plan(r)) = 6
<1> DEFINE P == Plan(r)
<1>1. /\ Len(P) = 6
      /\ P[1] = Gate
      /\ P[2] = User(r.actor, "update", "no_check")
      /\ P[3] = Org(r.org, "update", AuthorityCheck(r))
      /\ P[4] = User(Lower(r), "update", "no_check")
      /\ P[5] = User(Higher(r), "update", "accounts_are_active")
      /\ P[6] = Org(r.org, "update", MemberCheck(r))
  BY Plans
<1> HIDE DEF P
<1>2. /\ IsLock(P[1], <<"gate", "gate">>, "update", "no_check")
      /\ IsLock(P[2], UserRow(r.actor), "update", "no_check")
      /\ IsLock(P[3], OrgRow(r.org), "update", AuthorityCheck(r))
      /\ IsLock(P[4], UserRow(Lower(r)), "update", "no_check")
      /\ IsLock(P[5], UserRow(Higher(r)), "update", "accounts_are_active")
      /\ IsLock(P[6], OrgRow(r.org), "update", MemberCheck(r))
  BY <1>1, Locks
<1>3. \A i \in 1..6 : i = 1 \/ i = 2 \/ i = 3 \/ i = 4 \/ i = 5 \/ i = 6
  OBVIOUS
<1>4. UserRow(r.user) \in {P[4].row, P[5].row} /\ UserRow(r.actor) \in {P[4].row, P[5].row}
  BY <1>2, LowerHigher DEF IsLock
<1>5. Supported(r, P)
  <2>1. /\ Support(r, AuthorityCheck(r)) \subseteq {P[2].row}
        /\ Support(r, "no_check") = {}
        /\ Support(r, "accounts_are_active") \subseteq {P[4].row, P[5].row}
        /\ Support(r, MemberCheck(r)) \subseteq {P[4].row, P[5].row, P[6].row}
    BY <1>2, <1>4 DEF IsLock, Support, AuthorityCheck, MemberCheck
  <2>2. {AuthorityCheck(r), "no_check", "accounts_are_active", MemberCheck(r)} \subseteq ChecksOf(r)
    BY DEF ChecksOf, AuthorityCheck, MemberCheck
  <2>3. \A i \in 1..6 : P[i].check \in ChecksOf(r)
    BY <1>2, <1>3, <2>2 DEF IsLock
  <2>4. \A i \in 1..6 : Support(r, P[i].check) \subseteq {P[j].row : j \in 1..i}
    <3>1. 2 \in 1..3 /\ 4 \in 1..5 /\ 5 \in 1..5 /\ 4 \in 1..6 /\ 5 \in 1..6 /\ 6 \in 1..6
      OBVIOUS
    <3> QED
      BY <1>2, <1>3, <2>1, <3>1 DEF IsLock
  <2> QED
    BY <1>1, <2>4, <2>3 DEF Supported, RowsUpTo
<1>6. \A i \in 1..6 : P[i].row \in Updated(P) /\ P[i].check \in Checks(P)
  BY <1>1, <1>2, <1>3 DEF Updated, Checks, IsLock
<1>7. /\ P[4].row \in Updated(P) /\ P[5].row \in Updated(P) /\ P[6].row \in Updated(P)
      /\ P[3].check \in Checks(P) /\ P[5].check \in Checks(P) /\ P[6].check \in Checks(P)
  BY <1>6
<1> QED
  BY <1>1, <1>2, <1>4, <1>5, <1>7 DEF P, IsLock

\* The plans of the operations on the platform role, and of a new organization.
LEMMA PlatformPlan ==
    ASSUME NEW r, RequestOK(r),
           r.op \in PlatformOps \cup {"create_organization"}
    PROVE  /\ Supported(r, Plan(r))
           /\ {UserRow(r.user), OrgRow(r.org), OrgRow(Symgov)} \subseteq Updated(Plan(r))
           /\ {"actor_is_a_platform_admin", "accounts_are_active", PlatformCheck(r)}
               \subseteq Checks(Plan(r))
           /\ Len(Plan(r)) = 5
<1> DEFINE P == Plan(r)
<1>1. /\ Len(P) = 5
      /\ P[1] = Gate
      /\ P[2] = User(Lower(r), "update", "no_check")
      /\ P[3] = User(Higher(r), "update", "accounts_are_active")
      /\ P[4] = Org(Symgov, "update", "actor_is_a_platform_admin")
      /\ P[5] = Org(r.org, "update", PlatformCheck(r))
  BY Plans
<1> HIDE DEF P
<1>2. /\ IsLock(P[1], <<"gate", "gate">>, "update", "no_check")
      /\ IsLock(P[2], UserRow(Lower(r)), "update", "no_check")
      /\ IsLock(P[3], UserRow(Higher(r)), "update", "accounts_are_active")
      /\ IsLock(P[4], OrgRow(Symgov), "update", "actor_is_a_platform_admin")
      /\ IsLock(P[5], OrgRow(r.org), "update", PlatformCheck(r))
  BY <1>1, Locks
<1>3. \A i \in 1..5 : i = 1 \/ i = 2 \/ i = 3 \/ i = 4 \/ i = 5
  OBVIOUS
<1>4. UserRow(r.user) \in {P[2].row, P[3].row} /\ UserRow(r.actor) \in {P[2].row, P[3].row}
  BY <1>2, LowerHigher DEF IsLock
<1>5. Supported(r, P)
  <2>1. /\ Support(r, "no_check") = {}
        /\ Support(r, "accounts_are_active") \subseteq {P[2].row, P[3].row}
        /\ Support(r, "actor_is_a_platform_admin") \subseteq {P[2].row, P[3].row}
        /\ Support(r, PlatformCheck(r)) \subseteq {P[2].row, P[3].row, P[4].row, P[5].row}
    BY <1>2, <1>4 DEF IsLock, Support, PlatformCheck, PlatformOps
  <2>2. {"no_check", "accounts_are_active", "actor_is_a_platform_admin",
            PlatformCheck(r)} \subseteq ChecksOf(r)
    BY DEF ChecksOf, PlatformCheck, PlatformOps
  <2>3. \A i \in 1..5 : P[i].check \in ChecksOf(r)
    BY <1>2, <1>3, <2>2 DEF IsLock
  <2>4. \A i \in 1..5 : Support(r, P[i].check) \subseteq {P[j].row : j \in 1..i}
    <3>1. 2 \in 1..3 /\ 3 \in 1..3 /\ 2 \in 1..4 /\ 3 \in 1..4 /\ 2 \in 1..5 /\ 3 \in 1..5
          /\ 4 \in 1..5 /\ 5 \in 1..5
      OBVIOUS
    <3> QED
      BY <1>2, <1>3, <2>1, <3>1 DEF IsLock
  <2> QED
    BY <1>1, <2>4, <2>3 DEF Supported, RowsUpTo
<1>6. \A i \in 1..5 : /\ P[i].mode = "update" => P[i].row \in Updated(P)
                    /\ P[i].check \in Checks(P)
  BY <1>1 DEF Updated, Checks
<1>7. /\ P[1].row \in Updated(P) /\ P[2].row \in Updated(P) /\ P[3].row \in Updated(P)
      /\ P[4].row \in Updated(P) /\ P[5].row \in Updated(P)
      /\ P[1].check \in Checks(P) /\ P[2].check \in Checks(P) /\ P[3].check \in Checks(P)
      /\ P[4].check \in Checks(P) /\ P[5].check \in Checks(P)
  BY <1>2, <1>6 DEF IsLock
<1> QED
  BY <1>1, <1>2, <1>4, <1>5, <1>7 DEF P, IsLock

\* The plan of reactivate_membership.
LEMMA ReturnPlan ==
    ASSUME NEW r, RequestOK(r),
           r.op = "reactivate_membership"
    PROVE  /\ Supported(r, Plan(r))
           /\ {UserRow(r.user), OrgRow(r.org)} \subseteq Updated(Plan(r))
           /\ {"actor_is_a_platform_admin", "membership_has_ended",
               "member_may_return"} \subseteq Checks(Plan(r))
           /\ Len(Plan(r)) = 5
<1> DEFINE P == Plan(r)
<1>1. /\ Len(P) = 5
      /\ P[1] = Gate
      /\ P[2] = User(r.actor, "update", "no_check")
      /\ P[3] = Org(Symgov, "update", "actor_is_a_platform_admin")
      /\ P[4] = Org(r.org, "update", "membership_has_ended")
      /\ P[5] = User(r.user, "update", "member_may_return")
  BY Plans
<1> HIDE DEF P
<1>2. /\ IsLock(P[1], <<"gate", "gate">>, "update", "no_check")
      /\ IsLock(P[2], UserRow(r.actor), "update", "no_check")
      /\ IsLock(P[3], OrgRow(Symgov), "update", "actor_is_a_platform_admin")
      /\ IsLock(P[4], OrgRow(r.org), "update", "membership_has_ended")
      /\ IsLock(P[5], UserRow(r.user), "update", "member_may_return")
  BY <1>1, Locks
<1>3. \A i \in 1..5 : i = 1 \/ i = 2 \/ i = 3 \/ i = 4 \/ i = 5
  OBVIOUS
<1>4. Supported(r, P)
  <2>1. /\ Support(r, "no_check") = {}
        /\ Support(r, "actor_is_a_platform_admin") \subseteq {P[2].row}
        /\ Support(r, "membership_has_ended") \subseteq {P[4].row}
        /\ Support(r, "member_may_return") \subseteq {P[4].row, P[5].row}
    BY <1>2 DEF IsLock, Support
  <2>2. {"no_check", "actor_is_a_platform_admin", "membership_has_ended",
            "member_may_return"} \subseteq ChecksOf(r)
    BY DEF ChecksOf
  <2>3. \A i \in 1..5 : P[i].check \in ChecksOf(r)
    BY <1>2, <1>3, <2>2 DEF IsLock
  <2>4. \A i \in 1..5 : Support(r, P[i].check) \subseteq {P[j].row : j \in 1..i}
    <3>1. 2 \in 1..3 /\ 4 \in 1..4 /\ 4 \in 1..5 /\ 5 \in 1..5
      OBVIOUS
    <3> QED
      BY <1>2, <1>3, <2>1, <3>1 DEF IsLock
  <2> QED
    BY <1>1, <2>4, <2>3 DEF Supported, RowsUpTo
<1>5. \A i \in 1..5 : /\ P[i].mode = "update" => P[i].row \in Updated(P)
                    /\ P[i].check \in Checks(P)
  BY <1>1 DEF Updated, Checks
<1>6. /\ P[1].row \in Updated(P) /\ P[2].row \in Updated(P) /\ P[3].row \in Updated(P)
      /\ P[4].row \in Updated(P) /\ P[5].row \in Updated(P)
      /\ P[1].check \in Checks(P) /\ P[2].check \in Checks(P) /\ P[3].check \in Checks(P)
      /\ P[4].check \in Checks(P) /\ P[5].check \in Checks(P)
  BY <1>2, <1>5 DEF IsLock
<1> QED
  BY <1>1, <1>2, <1>4, <1>6 DEF P, IsLock

\* The plans of suspension and its end.
LEMMA EntitlementPlan ==
    ASSUME NEW r, RequestOK(r),
           r.op \in {"suspend_organization", "reactivate_organization"}
    PROVE  /\ Supported(r, Plan(r))
           /\ {OrgRow(r.org)} \subseteq Updated(Plan(r))
           /\ {"actor_is_a_platform_admin", EntitlementCheck(r)} \subseteq Checks(Plan(r))
           /\ Len(Plan(r)) = 4
<1> DEFINE P == Plan(r)
<1>1. /\ Len(P) = 4
      /\ P[1] = Gate
      /\ P[2] = User(r.actor, "update", "no_check")
      /\ P[3] = Org(Symgov, "update", "actor_is_a_platform_admin")
      /\ P[4] = Org(r.org, "update", EntitlementCheck(r))
  BY Plans
<1> HIDE DEF P
<1>2. /\ IsLock(P[1], <<"gate", "gate">>, "update", "no_check")
      /\ IsLock(P[2], UserRow(r.actor), "update", "no_check")
      /\ IsLock(P[3], OrgRow(Symgov), "update", "actor_is_a_platform_admin")
      /\ IsLock(P[4], OrgRow(r.org), "update", EntitlementCheck(r))
  BY <1>1, Locks
<1>3. \A i \in 1..4 : i = 1 \/ i = 2 \/ i = 3 \/ i = 4
  OBVIOUS
<1>4. Supported(r, P)
  <2>1. /\ Support(r, "no_check") = {}
        /\ Support(r, "actor_is_a_platform_admin") \subseteq {P[2].row}
        /\ Support(r, EntitlementCheck(r)) \subseteq {P[4].row}
    BY <1>2 DEF IsLock, Support, EntitlementCheck
  <2>2. {"no_check", "actor_is_a_platform_admin", EntitlementCheck(r)} \subseteq ChecksOf(r)
    BY DEF ChecksOf, EntitlementCheck
  <2>3. \A i \in 1..4 : P[i].check \in ChecksOf(r)
    BY <1>2, <1>3, <2>2 DEF IsLock
  <2>4. \A i \in 1..4 : Support(r, P[i].check) \subseteq {P[j].row : j \in 1..i}
    <3>1. 2 \in 1..3 /\ 4 \in 1..4
      OBVIOUS
    <3> QED
      BY <1>2, <1>3, <2>1, <3>1 DEF IsLock
  <2> QED
    BY <1>1, <2>4, <2>3 DEF Supported, RowsUpTo
<1>5. \A i \in 1..4 : /\ P[i].mode = "update" => P[i].row \in Updated(P)
                    /\ P[i].check \in Checks(P)
  BY <1>1 DEF Updated, Checks
<1>6. /\ P[1].row \in Updated(P) /\ P[2].row \in Updated(P) /\ P[3].row \in Updated(P)
      /\ P[4].row \in Updated(P)
      /\ P[1].check \in Checks(P) /\ P[2].check \in Checks(P) /\ P[3].check \in Checks(P)
      /\ P[4].check \in Checks(P)
  BY <1>2, <1>5 DEF IsLock
<1> QED
  BY <1>1, <1>2, <1>4, <1>6 DEF P, IsLock

\* The plan of set_subscription.
LEMMA SetPlan ==
    ASSUME NEW r, RequestOK(r),
           r.op = "set_subscription"
    PROVE  /\ Supported(r, Plan(r))
           /\ {OrgRow(r.org)} \subseteq Updated(Plan(r))
           /\ {"limit_covers_the_seats_in_use"} \subseteq Checks(Plan(r))
           /\ Len(Plan(r)) = 2
<1> DEFINE P == Plan(r)
<1>1. /\ Len(P) = 2
      /\ P[1] = Org(r.org, "update", "limit_covers_the_seats_in_use")
      /\ P[2] = Subscription(r.org, "no_check")
  BY Plans DEF PlanToSet
<1> HIDE DEF P
<1>2. /\ IsLock(P[1], OrgRow(r.org), "update", "limit_covers_the_seats_in_use")
      /\ IsLock(P[2], <<"organization_subscriptions", r.org>>, "update", "no_check")
  BY <1>1, Locks
<1>3. \A i \in 1..2 : i = 1 \/ i = 2
  OBVIOUS
<1>4. Supported(r, P)
  <2>1. /\ Support(r, "no_check") = {}
        /\ Support(r, "limit_covers_the_seats_in_use") \subseteq {P[1].row}
    BY <1>2 DEF IsLock, Support
  <2>2. {"no_check", "limit_covers_the_seats_in_use"} \subseteq ChecksOf(r)
    BY DEF ChecksOf
  <2>3. \A i \in 1..2 : P[i].check \in ChecksOf(r)
    BY <1>2, <1>3, <2>2 DEF IsLock
  <2>4. \A i \in 1..2 : Support(r, P[i].check) \subseteq {P[j].row : j \in 1..i}
    <3>1. 1 \in 1..1
      OBVIOUS
    <3> QED
      BY <1>2, <1>3, <2>1, <3>1 DEF IsLock
  <2> QED
    BY <1>1, <2>4, <2>3 DEF Supported, RowsUpTo
<1>5. \A i \in 1..2 : /\ P[i].mode = "update" => P[i].row \in Updated(P)
                    /\ P[i].check \in Checks(P)
  BY <1>1 DEF Updated, Checks
<1>6. /\ P[1].row \in Updated(P) /\ P[2].row \in Updated(P)
      /\ P[1].check \in Checks(P) /\ P[2].check \in Checks(P)
  BY <1>2, <1>5 DEF IsLock
<1> QED
  BY <1>1, <1>2, <1>4, <1>6 DEF P, IsLock

\* The plan of renew_subscription.
LEMMA RenewPlan ==
    ASSUME NEW r, RequestOK(r),
           r.op = "renew_subscription"
    PROVE  /\ Supported(r, Plan(r))
           /\ {OrgRow(r.org)} \subseteq Updated(Plan(r))
           /\ {"no_check"} \subseteq Checks(Plan(r))
           /\ Len(Plan(r)) = 2
<1> DEFINE P == Plan(r)
<1>1. /\ Len(P) = 2
      /\ P[1] = Subscription(r.org, "plan_exists")
      /\ P[2] = Org(r.org, "update", "no_check")
  BY Plans DEF PlanToRenew
<1> HIDE DEF P
<1>2. /\ IsLock(P[1], <<"organization_subscriptions", r.org>>, "update", "plan_exists")
      /\ IsLock(P[2], OrgRow(r.org), "update", "no_check")
  BY <1>1, Locks
<1>3. \A i \in 1..2 : i = 1 \/ i = 2
  OBVIOUS
<1>4. Supported(r, P)
  <2>1. /\ Support(r, "no_check") = {}
        /\ Support(r, "plan_exists") = {}
    BY <1>2 DEF IsLock, Support
  <2>2. {"no_check", "plan_exists"} \subseteq ChecksOf(r)
    BY DEF ChecksOf
  <2>3. \A i \in 1..2 : P[i].check \in ChecksOf(r)
    BY <1>2, <1>3, <2>2 DEF IsLock
  <2>4. \A i \in 1..2 : Support(r, P[i].check) \subseteq {P[j].row : j \in 1..i}
    <3>1. TRUE
      OBVIOUS
    <3> QED
      BY <1>2, <1>3, <2>1, <3>1 DEF IsLock
  <2> QED
    BY <1>1, <2>4, <2>3 DEF Supported, RowsUpTo
<1>5. \A i \in 1..2 : /\ P[i].mode = "update" => P[i].row \in Updated(P)
                    /\ P[i].check \in Checks(P)
  BY <1>1 DEF Updated, Checks
<1>6. /\ P[1].row \in Updated(P) /\ P[2].row \in Updated(P)
      /\ P[1].check \in Checks(P) /\ P[2].check \in Checks(P)
  BY <1>2, <1>5 DEF IsLock
<1> QED
  BY <1>1, <1>2, <1>4, <1>6 DEF P, IsLock

\* The plan of create_user_session.
LEMMA SessionPlan ==
    ASSUME NEW r, RequestOK(r),
           r.op = "create_user_session"
    PROVE  /\ Supported(r, Plan(r))
           /\ {UserRow(r.user)} \subseteq Updated(Plan(r))
           /\ {"session_may_be_bound"} \subseteq Checks(Plan(r))
           /\ Len(Plan(r)) = 2
<1> DEFINE P == Plan(r)
<1>1. /\ Len(P) = 2
      /\ P[1] = User(r.user, "update", "session_may_be_bound")
      /\ P[2] = Org(r.org, "key_share", "no_check")
  BY Plans DEF SessionToCreate
<1> HIDE DEF P
<1>2. /\ IsLock(P[1], UserRow(r.user), "update", "session_may_be_bound")
      /\ IsLock(P[2], OrgRow(r.org), "key_share", "no_check")
  BY <1>1, Locks
<1>3. \A i \in 1..2 : i = 1 \/ i = 2
  OBVIOUS
<1>4. Supported(r, P)
  <2>1. /\ Support(r, "no_check") = {}
        /\ Support(r, "session_may_be_bound") \subseteq {P[1].row}
    BY <1>2 DEF IsLock, Support
  <2>2. {"no_check", "session_may_be_bound"} \subseteq ChecksOf(r)
    BY DEF ChecksOf
  <2>3. \A i \in 1..2 : P[i].check \in ChecksOf(r)
    BY <1>2, <1>3, <2>2 DEF IsLock
  <2>4. \A i \in 1..2 : Support(r, P[i].check) \subseteq {P[j].row : j \in 1..i}
    <3>1. 1 \in 1..1
      OBVIOUS
    <3> QED
      BY <1>2, <1>3, <2>1, <3>1 DEF IsLock
  <2> QED
    BY <1>1, <2>4, <2>3 DEF Supported, RowsUpTo
<1>5. \A i \in 1..2 : /\ P[i].mode = "update" => P[i].row \in Updated(P)
                    /\ P[i].check \in Checks(P)
  BY <1>1 DEF Updated, Checks
<1>6. /\ P[1].row \in Updated(P)
      /\ P[1].check \in Checks(P) /\ P[2].check \in Checks(P)
  BY <1>2, <1>5 DEF IsLock
<1> QED
  BY <1>1, <1>2, <1>4, <1>6 DEF P, IsLock

\* The plan of issue_key.
LEMMA IssuePlan ==
    ASSUME NEW r, RequestOK(r),
           r.op = "issue_key"
    PROVE  /\ Supported(r, Plan(r))
           /\ {UserRow(r.user)} \subseteq Updated(Plan(r))
           /\ {"actor_is_an_admin_here", "holder_may_have_a_key"} \subseteq Checks(Plan(r))
           /\ Len(Plan(r)) = 3
<1> DEFINE P == Plan(r)
<1>1. /\ Len(P) = 3
      /\ P[1] = User(r.actor, "share", "no_check")
      /\ P[2] = Org(r.org, "share", "actor_is_an_admin_here")
      /\ P[3] = User(r.user, "update", "holder_may_have_a_key")
  BY Plans
<1> HIDE DEF P
<1>2. /\ IsLock(P[1], UserRow(r.actor), "share", "no_check")
      /\ IsLock(P[2], OrgRow(r.org), "share", "actor_is_an_admin_here")
      /\ IsLock(P[3], UserRow(r.user), "update", "holder_may_have_a_key")
  BY <1>1, Locks
<1>3. \A i \in 1..3 : i = 1 \/ i = 2 \/ i = 3
  OBVIOUS
<1>4. Supported(r, P)
  <2>1. /\ Support(r, "no_check") = {}
        /\ Support(r, "actor_is_an_admin_here") \subseteq {P[1].row, P[2].row}
        /\ Support(r, "holder_may_have_a_key") \subseteq {P[3].row}
    BY <1>2 DEF IsLock, Support
  <2>2. {"no_check", "actor_is_an_admin_here", "holder_may_have_a_key"} \subseteq ChecksOf(r)
    BY DEF ChecksOf
  <2>3. \A i \in 1..3 : P[i].check \in ChecksOf(r)
    BY <1>2, <1>3, <2>2 DEF IsLock
  <2>4. \A i \in 1..3 : Support(r, P[i].check) \subseteq {P[j].row : j \in 1..i}
    <3>1. 1 \in 1..2 /\ 2 \in 1..2 /\ 3 \in 1..3
      OBVIOUS
    <3> QED
      BY <1>2, <1>3, <2>1, <3>1 DEF IsLock
  <2> QED
    BY <1>1, <2>4, <2>3 DEF Supported, RowsUpTo
<1>5. \A i \in 1..3 : /\ P[i].mode = "update" => P[i].row \in Updated(P)
                    /\ P[i].check \in Checks(P)
  BY <1>1 DEF Updated, Checks
<1>6. /\ P[3].row \in Updated(P)
      /\ P[1].check \in Checks(P) /\ P[2].check \in Checks(P) /\ P[3].check \in Checks(P)
  BY <1>2, <1>5 DEF IsLock
<1> QED
  BY <1>1, <1>2, <1>4, <1>6 DEF P, IsLock

\* The plan of claim_key.
LEMMA ClaimPlan ==
    ASSUME NEW r, RequestOK(r),
           r.op = "claim_key"
    PROVE  /\ Supported(r, Plan(r))
           /\ {KeyRow(r.arg)} \subseteq Updated(Plan(r))
           /\ {"key_may_be_claimed"} \subseteq Checks(Plan(r))
           /\ Len(Plan(r)) = 1
<1> DEFINE P == Plan(r)
<1>1. /\ Len(P) = 1
      /\ P[1] = Key(r.arg, "key_may_be_claimed")
  BY Plans
<1> HIDE DEF P
<1>2. /\ IsLock(P[1], KeyRow(r.arg), "update", "key_may_be_claimed")
  BY <1>1, Locks
<1>3. \A i \in 1..1 : i = 1
  OBVIOUS
<1>4. Supported(r, P)
  <2>1. /\ Support(r, "key_may_be_claimed") \subseteq {P[1].row}
    BY <1>2 DEF IsLock, Support
  <2>2. {"key_may_be_claimed"} \subseteq ChecksOf(r)
    BY DEF ChecksOf, RequestOK, KeyOps
  <2>3. \A i \in 1..1 : P[i].check \in ChecksOf(r)
    BY <1>2, <1>3, <2>2 DEF IsLock
  <2>4. \A i \in 1..1 : Support(r, P[i].check) \subseteq {P[j].row : j \in 1..i}
    <3>1. 1 \in 1..1
      OBVIOUS
    <3> QED
      BY <1>2, <1>3, <2>1, <3>1 DEF IsLock
  <2> QED
    BY <1>1, <2>4, <2>3 DEF Supported, RowsUpTo
<1>5. \A i \in 1..1 : /\ P[i].mode = "update" => P[i].row \in Updated(P)
                    /\ P[i].check \in Checks(P)
  BY <1>1 DEF Updated, Checks
<1>6. /\ P[1].row \in Updated(P)
      /\ P[1].check \in Checks(P)
  BY <1>2, <1>5 DEF IsLock
<1> QED
  BY <1>1, <1>2, <1>4, <1>6 DEF P, IsLock

\* The plan of revoke_key.
LEMMA RevokePlan ==
    ASSUME NEW r, RequestOK(r),
           r.op = "revoke_key"
    PROVE  /\ Supported(r, Plan(r))
           /\ {KeyRow(r.arg)} \subseteq Updated(Plan(r))
           /\ {"actor_is_an_admin_here"} \subseteq Checks(Plan(r))
           /\ Len(Plan(r)) = 3
<1> DEFINE P == Plan(r)
<1>1. /\ Len(P) = 3
      /\ P[1] = User(r.actor, "share", "no_check")
      /\ P[2] = Org(r.org, "share", "actor_is_an_admin_here")
      /\ P[3] = Key(r.arg, "key_is_the_organizations")
  BY Plans
<1> HIDE DEF P
<1>2. /\ IsLock(P[1], UserRow(r.actor), "share", "no_check")
      /\ IsLock(P[2], OrgRow(r.org), "share", "actor_is_an_admin_here")
      /\ IsLock(P[3], KeyRow(r.arg), "update", "key_is_the_organizations")
  BY <1>1, Locks
<1>3. \A i \in 1..3 : i = 1 \/ i = 2 \/ i = 3
  OBVIOUS
<1>4. Supported(r, P)
  <2>1. /\ Support(r, "no_check") = {}
        /\ Support(r, "actor_is_an_admin_here") \subseteq {P[1].row, P[2].row}
        /\ Support(r, "key_is_the_organizations") = {}
    BY <1>2 DEF IsLock, Support
  <2>2. {"no_check", "actor_is_an_admin_here", "key_is_the_organizations"} \subseteq ChecksOf(r)
    BY DEF ChecksOf
  <2>3. \A i \in 1..3 : P[i].check \in ChecksOf(r)
    BY <1>2, <1>3, <2>2 DEF IsLock
  <2>4. \A i \in 1..3 : Support(r, P[i].check) \subseteq {P[j].row : j \in 1..i}
    <3>1. 1 \in 1..2 /\ 2 \in 1..2
      OBVIOUS
    <3> QED
      BY <1>2, <1>3, <2>1, <3>1 DEF IsLock
  <2> QED
    BY <1>1, <2>4, <2>3 DEF Supported, RowsUpTo
<1>5. \A i \in 1..3 : /\ P[i].mode = "update" => P[i].row \in Updated(P)
                    /\ P[i].check \in Checks(P)
  BY <1>1 DEF Updated, Checks
<1>6. /\ P[3].row \in Updated(P)
      /\ P[1].check \in Checks(P) /\ P[2].check \in Checks(P) /\ P[3].check \in Checks(P)
  BY <1>2, <1>5 DEF IsLock
<1> QED
  BY <1>1, <1>2, <1>4, <1>6 DEF P, IsLock

\* The check of a change to an account.
AccountCheck(r) == IF r.op = "update_user" THEN "account_is_manageable" ELSE "account_exists"
\* The plans of update_user and delete_user.
LEMMA AccountPlan ==
    ASSUME NEW r, RequestOK(r),
           r.op \in AccountOps
    PROVE  /\ Supported(r, Plan(r))
           /\ {UserRow(r.user)} \subseteq Updated(Plan(r))
           /\ {AccountCheck(r)} \subseteq Checks(Plan(r))
           /\ Len(Plan(r)) = 3
<1> DEFINE P == Plan(r)
<1>1. /\ Len(P) = 3
      /\ P[1] = User(r.actor, "update", "actor_session_holds")
      /\ P[2] = User(r.user, "update", AccountCheck(r))
      /\ P[3] = Gate
  BY Plans DEF AccountOps, AccountCheck
<1> HIDE DEF P
<1>2. /\ IsLock(P[1], UserRow(r.actor), "update", "actor_session_holds")
      /\ IsLock(P[2], UserRow(r.user), "update", AccountCheck(r))
      /\ IsLock(P[3], <<"gate", "gate">>, "update", "no_check")
  BY <1>1, Locks
<1>3. \A i \in 1..3 : i = 1 \/ i = 2 \/ i = 3
  OBVIOUS
<1>4. Supported(r, P)
  <2>1. /\ Support(r, "no_check") = {}
        /\ Support(r, "actor_session_holds") = {}
        /\ Support(r, AccountCheck(r)) \subseteq {P[2].row}
    BY <1>2 DEF IsLock, Support, AccountCheck
  <2>2. {"no_check", "actor_session_holds", AccountCheck(r)} \subseteq ChecksOf(r)
    BY DEF ChecksOf, AccountCheck
  <2>3. \A i \in 1..3 : P[i].check \in ChecksOf(r)
    BY <1>2, <1>3, <2>2 DEF IsLock
  <2>4. \A i \in 1..3 : Support(r, P[i].check) \subseteq {P[j].row : j \in 1..i}
    <3>1. 2 \in 1..2
      OBVIOUS
    <3> QED
      BY <1>2, <1>3, <2>1, <3>1 DEF IsLock
  <2> QED
    BY <1>1, <2>4, <2>3 DEF Supported, RowsUpTo
<1>5. \A i \in 1..3 : /\ P[i].mode = "update" => P[i].row \in Updated(P)
                    /\ P[i].check \in Checks(P)
  BY <1>1 DEF Updated, Checks
<1>6. /\ P[1].row \in Updated(P) /\ P[2].row \in Updated(P) /\ P[3].row \in Updated(P)
      /\ P[1].check \in Checks(P) /\ P[2].check \in Checks(P) /\ P[3].check \in Checks(P)
  BY <1>2, <1>5 DEF IsLock
<1> QED
  BY <1>1, <1>2, <1>4, <1>6 DEF P, IsLock

\* Every check of every plan is made under the locks that keep what it finds.
LEMMA PlansSupported ==
    ASSUME NEW r, RequestOK(r)
    PROVE  Supported(r, Plan(r)) /\ Len(Plan(r)) \in 1..6
<1>1. r.op \in AllOps
  BY DEF RequestOK
<1> QED
  BY <1>1, MemberPlan, PlatformPlan, ReturnPlan, EntitlementPlan, SetPlan, RenewPlan, SessionPlan,
     IssuePlan, ClaimPlan, RevokePlan, AccountPlan
  DEF AllOps, MembershipOps, CustomerOps, KeyOps

-----------------------------------------------------------------------------
(* What a commit that has locked the rows U for update may change.         *)
MembersKept(d, e, U) ==
    \A u \in Users, o \in Orgs :
        e.member[u][o] = d.member[u][o] \/ {UserRow(u), OrgRow(o)} \subseteq U
AccountsKept(d, e, U) ==
    \A u \in Users :
        \/ e.account[u] = d.account[u]
        \/ /\ {UserRow(u), OrgRow(Symgov)} \subseteq U
           /\ \A o \in Orgs : d.member[u][o] = "admin" => OrgRow(o) \in U
PlatformKept(d, e, U) ==
    \A u \in Users :
        (u \in e.platform <=> u \in d.platform) \/ {UserRow(u), OrgRow(Symgov)} \subseteq U
OrgsKept(d, e, U) ==
    \A o \in Orgs : (e.org[o] = d.org[o] /\ e.seats[o] = d.seats[o]) \/ OrgRow(o) \in U
KeysKept(d, e, U) ==
    \A k \in Keys : e.keys[k] = d.keys[k] \/ KeyRow(k) \in U
Frame(d, e, U) ==
    /\ MembersKept(d, e, U) /\ AccountsKept(d, e, U) /\ PlatformKept(d, e, U)
    /\ OrgsKept(d, e, U) /\ KeysKept(d, e, U)
\* The rows stay in order, the triggers apart.
Ordered(d) ==
    d \in Rows /\ SeatsCovered(d) /\ KeysHeld(d) /\ SessionsHeld(d) /\ AbsentEmpty(d)
Moves(d, e, U) == Ordered(e) /\ Frame(d, e, U)

\* Who holds an organization's row holds its members, its administrators and its seats.
LEMMA OrgStays ==
    ASSUME NEW d, NEW e, NEW U, Frame(d, e, U), NEW o \in Orgs, OrgRow(o) \notin U
    PROVE  /\ \A u \in Users : e.member[u][o] = d.member[u][o]
           /\ Admins(e, o) = Admins(d, o)
           /\ SeatsInUse(e, o) = SeatsInUse(d, o)
           /\ e.org[o] = d.org[o] /\ e.seats[o] = d.seats[o]
<1>1. \A u \in Users : e.member[u][o] = d.member[u][o]
  BY DEF Frame, MembersKept
<1>2. Admins(e, o) = Admins(d, o)
  BY <1>1 DEF Admins, Active, Frame, AccountsKept
<1>3. SeatsInUse(e, o) = SeatsInUse(d, o)
  BY <1>1 DEF SeatsInUse, Member
<1> QED
  BY <1>1, <1>2, <1>3 DEF Frame, OrgsKept

\* Who holds an account's row holds the account and its roles.
LEMMA UserStays ==
    ASSUME NEW d, NEW e, NEW U, Frame(d, e, U), NEW u \in Users, UserRow(u) \notin U
    PROVE  /\ \A o \in Orgs : e.member[u][o] = d.member[u][o]
           /\ e.account[u] = d.account[u]
           /\ u \in e.platform <=> u \in d.platform
BY DEF Frame, MembersKept, AccountsKept, PlatformKept

\* What a check has found stays so while its rows are locked.
LEMMA HoldsKept ==
    ASSUME NEW d, NEW e, d.platform \subseteq Users, e.platform \subseteq Users,
           NEW U, Frame(d, e, U), NEW r, RequestOK(r), NEW check \in ChecksOf(r),
           Holds(d, r, check), Support(r, check) \cap U = {}
    PROVE  Holds(e, r, check)
<1>1. /\ r.actor \in Users /\ r.user \in Users /\ r.org \in Orgs /\ Symgov \in Orgs
  BY DEF RequestOK, Orgs
<1>2. CASE check = "actor_is_an_organization_admin"
  <2>1. UserRow(r.actor) \notin U
    BY <1>2 DEF Support
  <2>2. OrganizationAdmin(d, r.actor, r.org)
    BY <1>2 DEF Holds, Passes
  <2>3. OrganizationAdmin(e, r.actor, r.org)
    BY <1>1, <2>1, <2>2, UserStays DEF OrganizationAdmin, Active
  <2> QED
    BY <1>2, <2>3 DEF Holds, Passes
<1>3. CASE check = "actor_is_a_platform_admin"
  <2>1. UserRow(r.actor) \notin U
    BY <1>3 DEF Support
  <2>2. PlatformAdmin(d, r.actor)
    BY <1>3 DEF Holds, Passes
  <2>3. PlatformAdmin(e, r.actor)
    BY <1>1, <2>1, <2>2, UserStays DEF PlatformAdmin, EligiblePlatformAdmins, Admins, Active
  <2> QED
    BY <1>3, <2>3 DEF Holds, Passes
<1>4. CASE check = "actor_is_an_admin_here"
  <2>1. UserRow(r.actor) \notin U /\ OrgRow(r.org) \notin U
    BY <1>4 DEF Support
  <2>2. Bindable(d, r.actor, r.org) /\ d.member[r.actor][r.org] = "admin"
    BY <1>4 DEF Holds, Passes
  <2>3. Bindable(e, r.actor, r.org) /\ e.member[r.actor][r.org] = "admin"
    BY <1>1, <2>1, <2>2, UserStays, OrgStays DEF Bindable, Active, Member
  <2> QED
    BY <1>4, <2>3 DEF Holds, Passes
<1>5. CASE check = "accounts_are_active"
  <2>1. UserRow(r.actor) \notin U /\ UserRow(r.user) \notin U
    BY <1>5 DEF Support
  <2>2. Active(d, r.actor) /\ Active(d, r.user)
    BY <1>5 DEF Holds, Passes
  <2>3. Active(e, r.actor) /\ Active(e, r.user)
    BY <1>1, <2>1, <2>2, UserStays DEF Active
  <2> QED
    BY <1>5, <2>3 DEF Holds, Passes
<1>6. CASE check \in {"no_such_organization", "organization_is_active", "organization_is_suspended",
                      "membership_has_ended", "limit_covers_the_seats_in_use"}
  <2>1. OrgRow(r.org) \notin U
    BY <1>6 DEF Support
  <2>2. /\ e.org[r.org] = d.org[r.org] /\ e.member[r.user][r.org] = d.member[r.user][r.org]
        /\ SeatsInUse(e, r.org) = SeatsInUse(d, r.org)
    BY <1>1, <2>1, OrgStays
  <2> QED
    BY <1>6, <2>2 DEF Holds, Passes
<1>7. CASE check = "another_platform_admin_remains"
  <2>1. OrgRow(Symgov) \notin U
    BY <1>7 DEF Support
  <2>2. e.platform = d.platform
    BY <2>1 DEF Frame, PlatformKept
  <2>3. EligiblePlatformAdmins(e) = EligiblePlatformAdmins(d)
    BY <1>1, <2>1, <2>2, OrgStays DEF EligiblePlatformAdmins
  <2> QED
    BY <1>7, <2>2, <2>3 DEF Holds, Passes
<1>8. CASE check \in {"a_seat_is_free", "role_may_change", "member_may_leave", "member_may_return"}
  <2>1. UserRow(r.user) \notin U /\ OrgRow(r.org) \notin U
    BY <1>8 DEF Support
  <2>2. /\ e.org[r.org] = d.org[r.org] /\ e.member[r.user][r.org] = d.member[r.user][r.org]
        /\ SeatsInUse(e, r.org) = SeatsInUse(d, r.org) /\ e.seats[r.org] = d.seats[r.org]
        /\ Admins(e, r.org) = Admins(d, r.org)
    BY <1>1, <2>1, OrgStays
  <2>3. /\ e.account[r.user] = d.account[r.user]
        /\ r.user \in e.platform <=> r.user \in d.platform
    BY <1>1, <2>1, UserStays
  <2>4. Room(e, r.org) <=> Room(d, r.org)
    BY <2>2 DEF Room
  <2>5. MayLoseAdmin(e, r) <=> MayLoseAdmin(d, r)
    BY <2>2, <2>3 DEF MayLoseAdmin, LastAdmin
  <2> QED
    BY <1>8, <2>2, <2>3, <2>4, <2>5 DEF Holds, Passes, Active, Member
<1>9. CASE check \in {"candidate_is_a_Symgov_admin", "session_may_be_bound",
                      "holder_may_have_a_key", "account_is_manageable"}
  <2>1. UserRow(r.user) \notin U
    BY <1>9 DEF Support
  <2>2. /\ \A o \in Orgs : e.member[r.user][o] = d.member[r.user][o]
        /\ e.account[r.user] = d.account[r.user]
        /\ r.user \in e.platform <=> r.user \in d.platform
    BY <1>1, <2>1, UserStays
  <2>3. {o \in Orgs : Member(e, r.user, o)} = {o \in Orgs : Member(d, r.user, o)}
    BY <2>2 DEF Member
  <2> QED
    BY <1>1, <1>9, <2>2, <2>3 DEF Holds, Passes, Active, Member
<1>10. CASE check = "key_may_be_claimed"
  <2>1. r.arg \in Keys /\ KeyRow(r.arg) \notin U
    BY <1>10 DEF ChecksOf, Support
  <2>2. e.keys[r.arg] = d.keys[r.arg]
    BY <2>1 DEF Frame, KeysKept
  <2> QED
    BY <1>10, <2>2 DEF Holds
<1>11. CASE check \in {"no_check", "plan_exists", "key_is_the_organizations",
                       "actor_session_holds", "account_exists"}
  BY <1>11 DEF Holds
<1> QED
  BY <1>2, <1>3, <1>4, <1>5, <1>6, <1>7, <1>8, <1>9, <1>10, <1>11
  DEF ChecksOf

-----------------------------------------------------------------------------
(* Each operation moves the rows.                                          *)

\* Accounts are finitely many, so seats are counted.
LEMMA SeatsAreCounted ==
    ASSUME NEW d, NEW o
    PROVE  SeatsInUse(d, o) \in Nat
<1>1. IsFiniteSet({u \in Users : Member(d, u, o)})
  BY AdministrationAssumption, FS_Subset
<1> QED
  BY <1>1, FS_CardinalityType DEF SeatsInUse

\* The membership of one account in one organization is written.
MemberWritten(d, e, u, o, role) ==
    \A v \in Users, p \in Orgs :
        e.member[v][p] = IF v = u /\ p = o THEN role ELSE d.member[v][p]

\* One account more, or no more, is a member; the other organizations' seats stay.
LEMMA SeatsAfterwards ==
    ASSUME NEW d, NEW e, NEW u \in Users, NEW o \in Orgs, NEW role,
           MemberWritten(d, e, u, o, role)
    PROVE  /\ \A p \in Orgs : p # o => SeatsInUse(e, p) = SeatsInUse(d, p)
           /\ SeatsInUse(e, o) <= SeatsInUse(d, o) + 1
           /\ Member(d, u, o) \/ role \notin BaseRoles => SeatsInUse(e, o) <= SeatsInUse(d, o)
<1> DEFINE S == {v \in Users : Member(d, v, o)}
           T == {v \in Users : Member(e, v, o)}
<1>1. IsFiniteSet(S) /\ IsFiniteSet(S \cup {u})
  BY AdministrationAssumption, FS_Subset, FS_AddElement
<1>2. T \subseteq S \cup {u} /\ (Member(d, u, o) \/ role \notin BaseRoles => T \subseteq S)
  BY DEF MemberWritten, Member
<1>3. Cardinality(S \cup {u}) <= Cardinality(S) + 1
  <2>1. Cardinality(S) \in Nat
    BY <1>1, FS_CardinalityType
  <2> HIDE DEF S
  <2> QED
    BY <1>1, <2>1, FS_AddElement
<1>4. Cardinality(T) <= Cardinality(S \cup {u})
      /\ (T \subseteq S => Cardinality(T) <= Cardinality(S))
  <2> HIDE DEF S, T
  <2> QED
    BY <1>1, <1>2, FS_Subset
<1>5. Cardinality(T) \in Nat /\ Cardinality(S) \in Nat /\ Cardinality(S \cup {u}) \in Nat
  <2>1. IsFiniteSet(T)
    BY AdministrationAssumption, FS_Subset
  <2> QED
    BY <1>1, <2>1, FS_CardinalityType
<1>6. SeatsInUse(d, o) = Cardinality(S) /\ SeatsInUse(e, o) = Cardinality(T)
  BY DEF SeatsInUse
<1>7. \A p \in Orgs : p # o => SeatsInUse(e, p) = SeatsInUse(d, p)
  BY DEF MemberWritten, Member, SeatsInUse
<1> HIDE DEF S, T
<1> QED
  BY <1>2, <1>3, <1>4, <1>5, <1>6, <1>7

\* The table of memberships after it is written.
LEMMA MemberPut ==
    ASSUME NEW f \in MemberRows, NEW u \in Users, NEW o \in Orgs, NEW role \in Roles
    PROVE  /\ [f EXCEPT ![u][o] = role] \in MemberRows
           /\ \A v \in Users, p \in Orgs :
                [f EXCEPT ![u][o] = role][v][p] = IF v = u /\ p = o THEN role ELSE f[v][p]
BY DEF MemberRows

\* Whoever is a member, or takes a free seat, is given a role.
LEMMA RoleMoves ==
    ASSUME NEW d, Ordered(d), NEW u \in Users, NEW o \in Orgs, NEW role \in BaseRoles,
           d.org[o] # "absent", Member(d, u, o) \/ Room(d, o),
           NEW U, {UserRow(u), OrgRow(o)} \subseteq U
    PROVE  Moves(d, [d EXCEPT !.member[u][o] = role], U)
<1> DEFINE e == [d EXCEPT !.member[u][o] = role]
<1>1. /\ d \in [account : AccountRows, org : OrgRows, member : MemberRows,
                departed : SUBSET (Users \X Orgs), platform : SUBSET Users, seats : SeatRows,
                lapsed : SUBSET Orgs, keys : KeyRows, sessions : SUBSET (Users \X Orgs)]
      /\ role \in Roles
  BY RowsAreTables DEF Ordered, Roles
<1>2. /\ e.account = d.account /\ e.org = d.org /\ e.platform = d.platform /\ e.seats = d.seats
      /\ e.departed = d.departed /\ e.lapsed = d.lapsed /\ e.keys = d.keys
      /\ e.sessions = d.sessions /\ e.member = [d.member EXCEPT ![u][o] = role]
  BY <1>1
<1>3. e.member \in MemberRows /\ MemberWritten(d, e, u, o, role)
  BY <1>1, <1>2, MemberPut DEF MemberWritten
<1>4. e \in Rows
  <2>1. e \in [account : AccountRows, org : OrgRows, member : MemberRows,
               departed : SUBSET (Users \X Orgs), platform : SUBSET Users, seats : SeatRows,
               lapsed : SUBSET Orgs, keys : KeyRows, sessions : SUBSET (Users \X Orgs)]
    BY <1>1, <1>3
  <2> QED
    BY <2>1, RowsAreTables
<1> HIDE DEF e
<1>5. \A v \in Users, p \in Orgs : Member(d, v, p) => Member(e, v, p)
  BY <1>3 DEF MemberWritten, Member
<1>6. KeysHeld(e)
  BY <1>1, <1>2, <1>5 DEF KeysHeld, Ordered, KeyRows, KeyState
<1>7. SessionsHeld(e)
  BY <1>1, <1>2, <1>5 DEF SessionsHeld, Ordered, Active
<1>8. AbsentEmpty(e)
  BY <1>2, <1>3 DEF AbsentEmpty, Ordered, MemberWritten
<1>9. SeatsCovered(e)
  <2> SUFFICES ASSUME NEW p \in Customers, e.seats[p] # Unmetered
               PROVE  SeatsInUse(e, p) <= e.seats[p]
    BY DEF SeatsCovered
  <2>1. p \in Orgs /\ SeatsInUse(d, p) <= d.seats[p] /\ e.seats[p] = d.seats[p]
    BY <1>2 DEF Orgs, Ordered, SeatsCovered
  <2>2. d.seats[p] \in Nat /\ SeatsInUse(d, p) \in Nat /\ SeatsInUse(e, p) \in Nat
    BY <1>1, <1>2, <2>1, SeatsAreCounted, AdministrationAssumption DEF SeatRows
  <2>3. CASE p # o
    BY <1>3, <2>1, <2>3, SeatsAfterwards
  <2>4. CASE p = o
    BY <1>2, <1>3, <2>1, <2>2, <2>4, SeatsAfterwards DEF Room
  <2> QED
    BY <2>3, <2>4
<1>10. Frame(d, e, U)
  BY <1>2, <1>3 DEF Frame, MembersKept, AccountsKept, PlatformKept, OrgsKept, KeysKept,
                    MemberWritten
<1>11. Moves(d, e, U)
  BY <1>4, <1>6, <1>7, <1>8, <1>9, <1>10 DEF Moves, Ordered
<1> QED
  BY <1>11 DEF e

\* The seats after one membership is written.
LEMMA SeatsWritten ==
    ASSUME NEW d \in Rows, SeatsCovered(d), NEW e, e.seats = d.seats,
           NEW u \in Users, NEW o \in Orgs, NEW role, MemberWritten(d, e, u, o, role),
           Member(d, u, o) \/ role \notin BaseRoles \/ Room(d, o)
    PROVE  SeatsCovered(e)
<1> SUFFICES ASSUME NEW p \in Customers, e.seats[p] # Unmetered
             PROVE  SeatsInUse(e, p) <= e.seats[p]
  BY DEF SeatsCovered
<1>1. p \in Orgs /\ SeatsInUse(d, p) <= d.seats[p] /\ e.seats[p] = d.seats[p]
  BY DEF Orgs, SeatsCovered
<1>2. d.seats[p] \in Nat /\ SeatsInUse(d, p) \in Nat /\ SeatsInUse(e, p) \in Nat
  BY <1>1, SeatsAreCounted, AdministrationAssumption DEF Rows
<1>3. CASE p # o
  BY <1>1, <1>3, SeatsAfterwards
<1>4. CASE p = o
  BY <1>1, <1>2, <1>4, SeatsAfterwards DEF Room
<1> QED
  BY <1>3, <1>4

\* The keys after a revocation: the live ones of these holders and organizations.
LEMMA KeysSwept ==
    ASSUME NEW d, d.keys \in KeyRows, NEW holders, NEW orgs
    PROVE  /\ KeysRevoked(d, holders, orgs) \in KeyRows
           /\ \A k \in Keys :
                LET was == d.keys[k]
                    is == KeysRevoked(d, holders, orgs)[k]
                IN  \/ is = was /\ ~(/\ was.state \in {"issued", "claimed"}
                                     /\ was.holder \in holders /\ was.org \in orgs)
                    \/ is.state = "revoked"
<1> DEFINE was(k) == d.keys[k]
           is(k) == [was(k) EXCEPT !.state = "revoked"]
           swept(k) == /\ was(k).state \in {"issued", "claimed"}
                       /\ was(k).holder \in holders /\ was(k).org \in orgs
<1>1. \A k \in Keys : was(k) \in KeyState
  BY DEF KeyRows
<1>2. \A k \in Keys : is(k) \in KeyState /\ is(k).state = "revoked"
  BY <1>1 DEF KeyState
<1>3. KeysRevoked(d, holders, orgs) = [k \in Keys |-> IF swept(k) THEN is(k) ELSE was(k)]
  BY DEF KeysRevoked
<1> HIDE DEF was, is, swept
<1>4. \A k \in Keys : KeysRevoked(d, holders, orgs)[k] = IF swept(k) THEN is(k) ELSE was(k)
  BY <1>3
<1>5. KeysRevoked(d, holders, orgs) \in KeyRows
  BY <1>1, <1>2, <1>3 DEF KeyRows
<1> QED
  BY <1>2, <1>4, <1>5 DEF was, swept

\* A membership that ends takes its keys and its sessions with it.
LEMMA DepartureMoves ==
    ASSUME NEW d, Ordered(d), NEW r, r.user \in Users, r.org \in Orgs,
           Member(d, r.user, r.org),
           NEW U, {UserRow(r.user), OrgRow(r.org)} \subseteq U,
           KeysKept(d, MembershipDeactivated(d, r), U)
    PROVE  Moves(d, MembershipDeactivated(d, r), U)
<1> DEFINE e == MembershipDeactivated(d, r)
           swept == KeysRevoked(d, {r.user}, {r.org})
           pair == <<r.user, r.org>>
<1>1. /\ d \in [account : AccountRows, org : OrgRows, member : MemberRows,
                departed : SUBSET (Users \X Orgs), platform : SUBSET Users, seats : SeatRows,
                lapsed : SUBSET Orgs, keys : KeyRows, sessions : SUBSET (Users \X Orgs)]
      /\ "left" \in Roles /\ d \in Rows
  BY RowsAreTables DEF Ordered, Roles
<1>2. swept \in KeyRows
  BY <1>1, KeysSwept
<1> DEFINE left == d.sessions \ {pair}
           gone == d.departed \cup {pair}
           members == [d.member EXCEPT ![r.user][r.org] = "left"]
<1>3. left \in SUBSET (Users \X Orgs) /\ gone \in SUBSET (Users \X Orgs)
  BY <1>1
<1>4. members \in MemberRows /\ e = [d EXCEPT !.member = members, !.departed = gone,
                                             !.keys = swept, !.sessions = left]
  BY <1>1, MemberPut DEF MembershipDeactivated
<1> HIDE DEF e, swept, left, gone, members
<1>5. /\ e \in Rows
      /\ e.account = d.account /\ e.org = d.org /\ e.platform = d.platform /\ e.seats = d.seats
      /\ e.departed = gone /\ e.lapsed = d.lapsed /\ e.keys = swept /\ e.sessions = left
      /\ e.member = members
  BY <1>1, <1>2, <1>3, <1>4, RowsAreTables
<1>6. MemberWritten(d, e, r.user, r.org, "left")
  BY <1>1, <1>5, MemberPut DEF MemberWritten, members
<1>7. KeysKept(d, e, U)
  BY DEF e
<1>8. \A v \in Users, p \in Orgs : Member(d, v, p) /\ ~(v = r.user /\ p = r.org) => Member(e, v, p)
  BY <1>6 DEF MemberWritten, Member
<1>9. KeysHeld(e)
  <2> SUFFICES ASSUME NEW k \in Keys, e.keys[k].state \in {"issued", "claimed"}
               PROVE  Member(e, e.keys[k].holder, e.keys[k].org) /\ e.org[e.keys[k].org] = "active"
    BY DEF KeysHeld
  <2>1. /\ e.keys[k] = d.keys[k]
        /\ ~(/\ d.keys[k].state \in {"issued", "claimed"}
             /\ d.keys[k].holder \in {r.user} /\ d.keys[k].org \in {r.org})
    BY <1>1, <1>5, KeysSwept DEF swept
  <2>2. d.keys[k].holder \in Users /\ d.keys[k].org \in Orgs
    BY <1>1 DEF KeyRows, KeyState
  <2> QED
    BY <1>5, <1>8, <2>1, <2>2 DEF KeysHeld, Ordered
<1>10. SessionsHeld(e)
  <2> SUFFICES ASSUME NEW s \in e.sessions
               PROVE  Member(e, s[1], s[2]) /\ Active(e, s[1])
    BY DEF SessionsHeld
  <2>1. s \in d.sessions /\ s # pair /\ s \in Users \X Orgs
    BY <1>1, <1>5 DEF left
  <2>2. s[1] \in Users /\ s[2] \in Orgs /\ ~(s[1] = r.user /\ s[2] = r.org)
    BY <2>1
  <2> QED
    BY <1>5, <1>8, <2>1, <2>2 DEF SessionsHeld, Ordered, Active
<1>11. AbsentEmpty(e)
  BY <1>5, <1>6 DEF AbsentEmpty, Ordered, MemberWritten, Member, BaseRoles
<1>12. SeatsCovered(e)
  <2>1. SeatsCovered(d) /\ e.seats = d.seats
    BY <1>5 DEF Ordered
  <2> QED
    BY <1>1, <1>6, <2>1, SeatsWritten
<1>13. Frame(d, e, U)
  BY <1>5, <1>7, <1>6 DEF Frame, MembersKept, AccountsKept, PlatformKept, OrgsKept, MemberWritten
<1>14. Moves(d, e, U)
  BY <1>5, <1>9, <1>10, <1>11, <1>12, <1>13 DEF Moves, Ordered
<1> QED
  BY <1>14 DEF e

\* A new organization has its first administrator in the one seat in use.
LEMMA CreationMoves ==
    ASSUME NEW d, Ordered(d), NEW r, r.user \in Users, r.org \in Customers,
           r.arg = DefaultSeatLimit, d.org[r.org] = "absent",
           NEW U, {UserRow(r.user), OrgRow(r.org)} \subseteq U
    PROVE  Moves(d, OrganizationCreated(d, r), U)
<1> DEFINE e == OrganizationCreated(d, r)
<1>1. /\ d \in [account : AccountRows, org : OrgRows, member : MemberRows,
                departed : SUBSET (Users \X Orgs), platform : SUBSET Users, seats : SeatRows,
                lapsed : SUBSET Orgs, keys : KeyRows, sessions : SUBSET (Users \X Orgs)]
      /\ "admin" \in Roles /\ d \in Rows /\ r.org \in Orgs
      /\ r.arg \in SeatLimits /\ r.arg \in Nat \ {0}
  BY RowsAreTables, AdministrationAssumption DEF Ordered, Roles, BaseRoles, Orgs
<1>2. /\ e.account = d.account /\ e.platform = d.platform /\ e.keys = d.keys
      /\ e.departed = d.departed /\ e.lapsed = d.lapsed /\ e.sessions = d.sessions
      /\ e.org = [d.org EXCEPT ![r.org] = "active"]
      /\ e.seats = [d.seats EXCEPT ![r.org] = r.arg]
      /\ e.member = [d.member EXCEPT ![r.user][r.org] = "admin"]
  BY <1>1 DEF OrganizationCreated
<1>3. e.member \in MemberRows /\ MemberWritten(d, e, r.user, r.org, "admin")
  BY <1>1, <1>2, MemberPut DEF MemberWritten
<1>4. /\ e.org \in OrgRows /\ e.seats \in SeatRows
      /\ \A o \in Orgs : /\ e.org[o] = IF o = r.org THEN "active" ELSE d.org[o]
                         /\ e.seats[o] = IF o = r.org THEN r.arg ELSE d.seats[o]
  BY <1>1, <1>2 DEF OrgRows, SeatRows
<1>5. e \in Rows
  <2>1. e \in [account : AccountRows, org : OrgRows, member : MemberRows,
               departed : SUBSET (Users \X Orgs), platform : SUBSET Users, seats : SeatRows,
               lapsed : SUBSET Orgs, keys : KeyRows, sessions : SUBSET (Users \X Orgs)]
    BY <1>1, <1>2, <1>3, <1>4 DEF OrganizationCreated
  <2> QED
    BY <2>1, RowsAreTables
<1> HIDE DEF e
<1>6. \A v \in Users : d.member[v][r.org] = "none"
  BY <1>1 DEF Ordered, AbsentEmpty
<1>7. \A v \in Users, p \in Orgs : Member(d, v, p) => Member(e, v, p)
  BY <1>3 DEF MemberWritten, Member, BaseRoles
<1>8. KeysHeld(e)
  BY <1>1, <1>2, <1>4, <1>7 DEF KeysHeld, Ordered, KeyRows, KeyState
<1>9. SessionsHeld(e)
  BY <1>1, <1>2, <1>7 DEF SessionsHeld, Ordered, Active
<1>10. AbsentEmpty(e)
  BY <1>3, <1>4 DEF AbsentEmpty, Ordered, MemberWritten
<1>11. SeatsCovered(e)
  <2> SUFFICES ASSUME NEW p \in Customers, e.seats[p] # Unmetered
               PROVE  SeatsInUse(e, p) <= e.seats[p]
    BY DEF SeatsCovered
  <2>1. p \in Orgs
    BY DEF Orgs
  <2>2. CASE p # r.org
    BY <1>1, <1>3, <1>4, <2>1, <2>2, SeatsAfterwards DEF Ordered, SeatsCovered
  <2>3. CASE p = r.org
    <3>1. {v \in Users : Member(d, v, p)} = {}
      BY <1>6, <2>3 DEF Member, BaseRoles
    <3>2. SeatsInUse(d, p) = 0
      BY <3>1, FS_EmptySet DEF SeatsInUse
    <3>3. SeatsInUse(e, p) \in Nat
      BY SeatsAreCounted
    <3> QED
      BY <1>1, <1>3, <1>4, <2>1, <2>3, <3>2, <3>3, SeatsAfterwards
  <2> QED
    BY <2>2, <2>3
<1>12. Frame(d, e, U)
  BY <1>1, <1>2, <1>3, <1>4 DEF Frame, MembersKept, AccountsKept, PlatformKept, OrgsKept, KeysKept,
                           MemberWritten
<1>13. Moves(d, e, U)
  BY <1>5, <1>8, <1>9, <1>10, <1>11, <1>12 DEF Moves, Ordered
<1> QED
  BY <1>13 DEF e

\* The platform role alone is written.
LEMMA PlatformMoves ==
    ASSUME NEW d, Ordered(d), NEW u \in Users, NEW R \in SUBSET Users,
           \A v \in Users : v # u => (v \in R <=> v \in d.platform),
           NEW U, {UserRow(u), OrgRow(Symgov)} \subseteq U
    PROVE  Moves(d, [d EXCEPT !.platform = R], U)
<1> DEFINE e == [d EXCEPT !.platform = R]
<1>1. d \in Rows
  BY DEF Ordered
<1>2. /\ e \in Rows
      /\ e.account = d.account /\ e.org = d.org /\ e.member = d.member /\ e.seats = d.seats
      /\ e.lapsed = d.lapsed /\ e.keys = d.keys /\ e.sessions = d.sessions /\ e.platform = R
  BY <1>1 DEF Rows
<1> HIDE DEF e
<1>3. Ordered(e)
  BY <1>2 DEF Ordered, SeatsCovered, SeatsInUse, KeysHeld, SessionsHeld, AbsentEmpty, Member, Active
<1>4. Frame(d, e, U)
  BY <1>2 DEF Frame, MembersKept, AccountsKept, PlatformKept, OrgsKept, KeysKept
<1>5. Moves(d, e, U)
  BY <1>3, <1>4 DEF Moves
<1> QED
  BY <1>5 DEF e

\* The terms of plans alone are written.
LEMMA LapseMoves ==
    ASSUME NEW d, Ordered(d), NEW L \in SUBSET Orgs, NEW U
    PROVE  Moves(d, [d EXCEPT !.lapsed = L], U)
<1> DEFINE e == [d EXCEPT !.lapsed = L]
<1>1. d \in Rows
  BY DEF Ordered
<1>2. /\ e \in Rows
      /\ e.account = d.account /\ e.org = d.org /\ e.member = d.member /\ e.seats = d.seats
      /\ e.platform = d.platform /\ e.keys = d.keys /\ e.sessions = d.sessions
  BY <1>1 DEF Rows
<1> HIDE DEF e
<1>3. Ordered(e)
  BY <1>2 DEF Ordered, SeatsCovered, SeatsInUse, KeysHeld, SessionsHeld, AbsentEmpty, Member, Active
<1>4. Frame(d, e, U)
  BY <1>2 DEF Frame, MembersKept, AccountsKept, PlatformKept, OrgsKept, KeysKept
<1>5. Moves(d, e, U)
  BY <1>3, <1>4 DEF Moves
<1> QED
  BY <1>5 DEF e

\* A limit that covers the seats in use is set.
LEMMA SubscriptionMoves ==
    ASSUME NEW d, Ordered(d), NEW o \in Customers, NEW limit \in SeatLimits,
           limit >= SeatsInUse(d, o), NEW U, OrgRow(o) \in U
    PROVE  Moves(d, [d EXCEPT !.seats[o] = limit, !.lapsed = @ \ {o}], U)
<1> DEFINE e == [d EXCEPT !.seats[o] = limit, !.lapsed = @ \ {o}]
<1>1. d \in Rows /\ o \in Orgs
  BY DEF Ordered, Orgs
<1>2. /\ e \in Rows
      /\ e.account = d.account /\ e.org = d.org /\ e.member = d.member
      /\ e.platform = d.platform /\ e.keys = d.keys /\ e.sessions = d.sessions
      /\ \A p \in Orgs : e.seats[p] = IF p = o THEN limit ELSE d.seats[p]
  BY <1>1 DEF Rows
<1> HIDE DEF e
<1>3. Ordered(e)
  <2>1. \A p : SeatsInUse(e, p) = SeatsInUse(d, p)
    BY <1>2 DEF SeatsInUse, Member
  <2>2. SeatsInUse(d, o) \in Nat /\ limit \in Nat
    BY SeatsAreCounted, AdministrationAssumption
  <2>3. SeatsCovered(e)
    BY <1>2, <2>1, <2>2 DEF Ordered, SeatsCovered, Orgs
  <2> QED
    BY <1>2, <2>3 DEF Ordered, KeysHeld, SessionsHeld, AbsentEmpty, Member, Active
<1>4. Frame(d, e, U)
  BY <1>2 DEF Frame, MembersKept, AccountsKept, PlatformKept, OrgsKept, KeysKept
<1>5. Moves(d, e, U)
  BY <1>3, <1>4 DEF Moves
<1> QED
  BY <1>5 DEF e

\* A session is written for an active member.
LEMMA SessionMoves ==
    ASSUME NEW d, Ordered(d), NEW u \in Users, NEW o \in Orgs, Active(d, u), Member(d, u, o), NEW U
    PROVE  Moves(d, [d EXCEPT !.sessions = @ \cup {<<u, o>>}], U)
<1> DEFINE e == [d EXCEPT !.sessions = @ \cup {<<u, o>>}]
<1>1. d \in Rows
  BY DEF Ordered
<1> DEFINE S == d.sessions \cup {<<u, o>>}
<1>2. S \in SUBSET (Users \X Orgs)
  BY <1>1 DEF Rows
<1>3. /\ e \in Rows
      /\ e.account = d.account /\ e.org = d.org /\ e.member = d.member /\ e.seats = d.seats
      /\ e.lapsed = d.lapsed /\ e.keys = d.keys /\ e.platform = d.platform
      /\ e.sessions = S
  <2> HIDE DEF S
  <2>1. [d EXCEPT !.sessions = S] \in Rows
    BY <1>1, <1>2 DEF Rows
  <2>2. e = [d EXCEPT !.sessions = S]
    BY DEF S
  <2> QED
    BY <1>1, <2>1, <2>2 DEF Rows
<1> HIDE DEF e
<1>4. SessionsHeld(e)
  BY <1>3 DEF Ordered, SessionsHeld, Member, Active
<1>5. Ordered(e)
  BY <1>3, <1>4 DEF Ordered, SeatsCovered, SeatsInUse, KeysHeld, AbsentEmpty, Member, Active
<1>6. Frame(d, e, U)
  BY <1>3 DEF Frame, MembersKept, AccountsKept, PlatformKept, OrgsKept, KeysKept
<1>7. Moves(d, e, U)
  BY <1>5, <1>6 DEF Moves
<1> QED
  BY <1>7 DEF e

\* Keys alone are written: a live one has a member of an active organization.
LEMMA KeyMoves ==
    ASSUME NEW d, Ordered(d), NEW K \in KeyRows, NEW U,
           \A k \in Keys : K[k] = d.keys[k] \/ KeyRow(k) \in U,
           \A k \in Keys : K[k].state \in {"issued", "claimed"} =>
                Member(d, K[k].holder, K[k].org) /\ d.org[K[k].org] = "active"
    PROVE  Moves(d, [d EXCEPT !.keys = K], U)
<1> DEFINE e == [d EXCEPT !.keys = K]
<1>1. d \in Rows
  BY DEF Ordered
<1>2. /\ e \in Rows
      /\ e.account = d.account /\ e.org = d.org /\ e.member = d.member /\ e.seats = d.seats
      /\ e.lapsed = d.lapsed /\ e.sessions = d.sessions /\ e.platform = d.platform /\ e.keys = K
  BY <1>1 DEF Rows, KeyRows, KeyState
<1> HIDE DEF e
<1>3. KeysHeld(e)
  BY <1>2 DEF KeysHeld, Member
<1>4. Ordered(e)
  BY <1>2, <1>3 DEF Ordered, SeatsCovered, SeatsInUse, SessionsHeld, AbsentEmpty, Member, Active
<1>5. Frame(d, e, U)
  BY <1>2 DEF Frame, MembersKept, AccountsKept, PlatformKept, OrgsKept, KeysKept
<1>6. Moves(d, e, U)
  BY <1>4, <1>5 DEF Moves
<1> QED
  BY <1>6 DEF e

\* The status of one organization becomes active or suspended.
StatusMoved(d, e, o, status) ==
    /\ status \in {"active", "suspended"}
    /\ \A p \in Orgs : e.org[p] = IF p = o THEN status ELSE d.org[p]

\* A suspended organization loses its keys and its sessions.
LEMMA SuspensionMoves ==
    ASSUME NEW d, Ordered(d), NEW r, r.org \in Orgs, NEW U, OrgRow(r.org) \in U,
           KeysKept(d, OrganizationSuspended(d, r), U)
    PROVE  Moves(d, OrganizationSuspended(d, r), U)
<1> DEFINE e == OrganizationSuspended(d, r)
           swept == KeysRevoked(d, Users, {r.org})
           left == {s \in d.sessions : s[2] # r.org}
<1>1. d \in Rows /\ d.keys \in KeyRows /\ left \in SUBSET (Users \X Orgs)
  BY DEF Ordered, Rows, KeyRows, KeyState
<1>2. swept \in KeyRows
  BY <1>1, KeysSwept
<1> DEFINE orgs == [d.org EXCEPT ![r.org] = "suspended"]
<1>3. orgs \in OrgRows /\ d \in [account : AccountRows, org : OrgRows, member : MemberRows,
               departed : SUBSET (Users \X Orgs), platform : SUBSET Users, seats : SeatRows,
               lapsed : SUBSET Orgs, keys : KeyRows, sessions : SUBSET (Users \X Orgs)]
  BY <1>1, RowsAreTables DEF OrgRows
<1>4. e = [d EXCEPT !.org = orgs, !.keys = swept, !.sessions = left]
  BY <1>3 DEF OrganizationSuspended
<1> HIDE DEF e, swept, left, orgs
<1>5. /\ e \in Rows
      /\ e.account = d.account /\ e.member = d.member /\ e.seats = d.seats
      /\ e.platform = d.platform /\ e.org = orgs /\ e.keys = swept /\ e.sessions = left
  BY <1>1, <1>2, <1>3, <1>4, RowsAreTables
<1>6. KeysKept(d, e, U)
  BY DEF e
<1>7. StatusMoved(d, e, r.org, "suspended")
  BY <1>5, <1>3 DEF OrgRows, StatusMoved, orgs
<1>8. KeysHeld(e)
  <2> SUFFICES ASSUME NEW k \in Keys, e.keys[k].state \in {"issued", "claimed"}
               PROVE  Member(e, e.keys[k].holder, e.keys[k].org) /\ e.org[e.keys[k].org] = "active"
    BY DEF KeysHeld
  <2>1. /\ e.keys[k] = d.keys[k]
        /\ ~(/\ d.keys[k].state \in {"issued", "claimed"}
             /\ d.keys[k].holder \in Users /\ d.keys[k].org \in {r.org})
    BY <1>1, <1>5, KeysSwept DEF swept
  <2>2. d.keys[k].holder \in Users /\ d.keys[k].org \in Orgs
    BY <1>1 DEF KeyRows, KeyState
  <2> QED
    BY <1>5, <1>7, <2>1, <2>2 DEF KeysHeld, Ordered, StatusMoved, Member
<1>9. SessionsHeld(e)
  BY <1>5 DEF SessionsHeld, Ordered, Member, Active, left
<1>10. SeatsCovered(e) /\ AbsentEmpty(e)
  BY <1>5, <1>7 DEF Ordered, SeatsCovered, SeatsInUse, AbsentEmpty, StatusMoved, Member
<1>11. Frame(d, e, U)
  BY <1>5, <1>6, <1>7 DEF Frame, MembersKept, AccountsKept, PlatformKept, OrgsKept, StatusMoved
<1>12. Moves(d, e, U)
  BY <1>5, <1>8, <1>9, <1>10, <1>11 DEF Moves, Ordered
<1> QED
  BY <1>12 DEF e

\* An organization returns with its members as they were.
LEMMA RevivalMoves ==
    ASSUME NEW d, Ordered(d), NEW r, r.org \in Orgs, NEW U, OrgRow(r.org) \in U
    PROVE  Moves(d, OrganizationReactivated(d, r), U)
<1> DEFINE e == OrganizationReactivated(d, r)
<1>1. d \in Rows
  BY DEF Ordered
<1>2. /\ e \in Rows
      /\ e.account = d.account /\ e.member = d.member /\ e.seats = d.seats
      /\ e.lapsed = d.lapsed /\ e.keys = d.keys /\ e.platform = d.platform
      /\ e.sessions = d.sessions /\ StatusMoved(d, e, r.org, "active")
  BY <1>1 DEF OrganizationReactivated, Rows, StatusMoved
<1> HIDE DEF e
<1>3. KeysHeld(e)
  BY <1>1, <1>2 DEF Ordered, KeysHeld, StatusMoved, Member, Rows
<1>4. Ordered(e)
  BY <1>2, <1>3 DEF Ordered, SeatsCovered, SeatsInUse, SessionsHeld, AbsentEmpty, StatusMoved,
                    Member, Active
<1>5. Frame(d, e, U)
  BY <1>2 DEF Frame, MembersKept, AccountsKept, PlatformKept, OrgsKept, KeysKept, StatusMoved
<1>6. Moves(d, e, U)
  BY <1>4, <1>5 DEF Moves
<1> QED
  BY <1>6 DEF e

\* The rows that a change to an account locks.
AccountLocked(d, u, U) ==
    /\ {UserRow(u), OrgRow(Symgov)} \subseteq U
    /\ \A o \in Orgs : d.member[u][o] = "admin" => OrgRow(o) \in U

\* Sessions end with the account.
LEMMA AccountSetMoves ==
    ASSUME NEW d, Ordered(d), NEW r, r.user \in Users, r.arg \in {"active", "inactive"},
           NEW U, AccountLocked(d, r.user, U)
    PROVE  Moves(d, AccountSet(d, r), U)
<1> DEFINE e == AccountSet(d, r)
           left == IF r.arg = "inactive" THEN {s \in d.sessions : s[1] # r.user} ELSE d.sessions
<1>1. d \in Rows /\ left \in SUBSET (Users \X Orgs)
  BY DEF Ordered, Rows
<1>2. /\ \A s \in left : s \in d.sessions /\ (s[1] # r.user \/ r.arg = "active")
  OBVIOUS
<1>3. e = [d EXCEPT !.account[r.user] = r.arg, !.sessions = left]
  BY DEF AccountSet
<1> HIDE DEF left, e
<1>4. /\ e \in Rows
      /\ e.org = d.org /\ e.member = d.member /\ e.seats = d.seats /\ e.sessions = left
      /\ e.lapsed = d.lapsed /\ e.keys = d.keys /\ e.platform = d.platform
      /\ \A u \in Users : e.account[u] = IF u = r.user THEN r.arg ELSE d.account[u]
  BY <1>1, <1>3 DEF Rows
<1>5. SessionsHeld(e)
  <2> SUFFICES ASSUME NEW s \in left
               PROVE  Member(e, s[1], s[2]) /\ Active(e, s[1])
    BY <1>4 DEF SessionsHeld
  <2>1. s[1] \in Users /\ Member(d, s[1], s[2]) /\ Active(d, s[1])
    BY <1>1, <1>2 DEF Ordered, SessionsHeld
  <2> QED
    BY <1>2, <1>4, <2>1 DEF Member, Active
<1>6. Ordered(e)
  BY <1>4, <1>5 DEF Ordered, SeatsCovered, SeatsInUse, KeysHeld, AbsentEmpty, Member
<1>7. Frame(d, e, U)
  BY <1>4 DEF Frame, MembersKept, AccountsKept, PlatformKept, OrgsKept, KeysKept, AccountLocked
<1>8. Moves(d, e, U)
  BY <1>6, <1>7 DEF Moves
<1> QED
  BY <1>8 DEF e

\* A deleted account takes its keys and its sessions with it.
LEMMA AccountDeletedMoves ==
    ASSUME NEW d, Ordered(d), NEW r, r.user \in Users, NEW U, AccountLocked(d, r.user, U),
           KeysKept(d, AccountDeleted(d, r), U)
    PROVE  Moves(d, AccountDeleted(d, r), U)
<1> DEFINE e == AccountDeleted(d, r)
           swept == KeysRevoked(d, {r.user}, Orgs)
           left == {s \in d.sessions : s[1] # r.user}
<1>1. d \in Rows /\ d.keys \in KeyRows /\ left \in SUBSET (Users \X Orgs)
  BY DEF Ordered, Rows, KeyRows, KeyState
<1>2. swept \in KeyRows
  BY <1>1, KeysSwept
<1> DEFINE accounts == [d.account EXCEPT ![r.user] = "deleted"]
<1>3. accounts \in AccountRows /\ d \in [account : AccountRows, org : OrgRows, member : MemberRows,
               departed : SUBSET (Users \X Orgs), platform : SUBSET Users, seats : SeatRows,
               lapsed : SUBSET Orgs, keys : KeyRows, sessions : SUBSET (Users \X Orgs)]
  BY <1>1, RowsAreTables DEF AccountRows
<1>4. e = [d EXCEPT !.account = accounts, !.keys = swept, !.sessions = left]
  BY <1>3 DEF AccountDeleted
<1> HIDE DEF e, swept, left, accounts
<1>5. /\ e \in Rows
      /\ e.org = d.org /\ e.member = d.member /\ e.seats = d.seats
      /\ e.platform = d.platform /\ e.account = accounts /\ e.keys = swept /\ e.sessions = left
  BY <1>1, <1>2, <1>3, <1>4, RowsAreTables
<1>6. KeysKept(d, e, U)
  BY DEF e
<1>7. \A u \in Users : e.account[u] = IF u = r.user THEN "deleted" ELSE d.account[u]
  BY <1>5, <1>3 DEF AccountRows, accounts
<1>8. KeysHeld(e)
  <2> SUFFICES ASSUME NEW k \in Keys, e.keys[k].state \in {"issued", "claimed"}
               PROVE  Member(e, e.keys[k].holder, e.keys[k].org) /\ e.org[e.keys[k].org] = "active"
    BY DEF KeysHeld
  <2>1. e.keys[k] = d.keys[k]
    BY <1>1, <1>5, KeysSwept DEF swept
  <2> QED
    BY <1>5, <2>1 DEF KeysHeld, Ordered, Member
<1>9. SessionsHeld(e)
  <2> SUFFICES ASSUME NEW s \in left
               PROVE  Member(e, s[1], s[2]) /\ Active(e, s[1])
    BY <1>5 DEF SessionsHeld
  <2>1. s \in d.sessions /\ s[1] # r.user
    BY DEF left
  <2>2. s[1] \in Users /\ Member(d, s[1], s[2]) /\ Active(d, s[1])
    BY <1>1, <2>1 DEF Ordered, SessionsHeld, Rows
  <2> QED
    BY <1>5, <1>7, <2>1, <2>2 DEF Member, Active
<1>10. SeatsCovered(e) /\ AbsentEmpty(e)
  BY <1>5 DEF Ordered, SeatsCovered, SeatsInUse, AbsentEmpty, Member
<1>11. Frame(d, e, U)
  BY <1>5, <1>6, <1>7 DEF Frame, MembersKept, AccountsKept, PlatformKept, OrgsKept, AccountLocked
<1>12. Moves(d, e, U)
  BY <1>5, <1>8, <1>9, <1>10, <1>11 DEF Moves, Ordered
<1> QED
  BY <1>12 DEF e

-----------------------------------------------------------------------------
(* The rows a request holds for update when it commits.                    *)
Taken(d, r) == Updated(Plan(r)) \cup {l.row : l \in LocksAtCommit(d, r)}

\* What the locks of the commit add to those of the plan.
LEMMA TakenAtCommit ==
    ASSUME NEW d, NEW r
    PROVE  /\ r.op \in MembershipOps \cup AccountOps => OrgRow(Symgov) \in Taken(d, r)
           /\ r.op \in AccountOps =>
                \A o \in Orgs : d.member[r.user][o] = "admin" => OrgRow(o) \in Taken(d, r)
           /\ KeysKept(d, Outcome(d, r), Taken(d, r))
<1>1. \A l \in LocksAtCommit(d, r) : l.row \in Taken(d, r)
  BY DEF Taken
<1>2. /\ \A o, mode, check : Org(o, mode, check).row = OrgRow(o)
      /\ \A k, check : Key(k, check).row = KeyRow(k)
  BY Locks DEF IsLock
<1>3. r.op \in MembershipOps \cup AccountOps
          => Org(Symgov, "update", "no_check") \in LocksAtCommit(d, r)
  BY DEF LocksAtCommit
<1>4. r.op \in AccountOps => \A o \in Orgs : d.member[r.user][o] = "admin" =>
            Org(o, "update", "no_check") \in LocksAtCommit(d, r)
  BY DEF LocksAtCommit
<1>5. \A k \in Keys : Outcome(d, r).keys[k] # d.keys[k]
          => Key(k, "no_check") \in LocksAtCommit(d, r)
  BY DEF LocksAtCommit
<1> QED
  BY <1>1, <1>2, <1>3, <1>4, <1>5 DEF KeysKept

\* The operations on a membership move the rows.
LEMMA MembershipOutcome ==
    ASSUME NEW d, Ordered(d), NEW r, RequestOK(r), r.op \in MembershipOps,
           \A check \in Checks(Plan(r)) : Holds(d, r, check)
    PROVE  Moves(d, Outcome(d, r), Taken(d, r))
<1> DEFINE U == Taken(d, r)
<1>1. r.user \in Users /\ r.org \in Orgs /\ Updated(Plan(r)) \subseteq U
  BY DEF RequestOK, Taken
<1>2. KeysKept(d, Outcome(d, r), U)
  BY TakenAtCommit
<1> HIDE DEF U
<1>3. \A role \in BaseRoles :
        /\ d.org[r.org] # "absent" /\ (Member(d, r.user, r.org) \/ Room(d, r.org))
        /\ {UserRow(r.user), OrgRow(r.org)} \subseteq U
        => Moves(d, [d EXCEPT !.member[r.user][r.org] = role], U)
  BY <1>1, RoleMoves
<1>4. Member(d, r.user, r.org) => d.org[r.org] # "absent"
  BY <1>1 DEF Ordered, AbsentEmpty, Member, BaseRoles
<1>5. CASE r.op = "create_organization"
  <2>1. /\ {UserRow(r.user), OrgRow(r.org)} \subseteq U
        /\ PlatformCheck(r) \in Checks(Plan(r)) /\ PlatformCheck(r) = "no_such_organization"
    BY <1>1, <1>5, PlatformPlan DEF PlatformCheck
  <2>2. d.org[r.org] = "absent"
    BY <2>1 DEF Holds, Passes
  <2>3. r.org \in Customers /\ r.arg = DefaultSeatLimit
    BY <1>5 DEF RequestOK, CustomerOps
  <2>4. Moves(d, OrganizationCreated(d, r), U)
    BY <1>1, <2>1, <2>2, <2>3, CreationMoves
  <2> QED
    BY <1>5, <2>4 DEF Outcome, U
<1>6. CASE r.op = "add_organization_member"
  <2>1. /\ {UserRow(r.user), OrgRow(r.org)} \subseteq U
        /\ MemberCheck(r) \in Checks(Plan(r)) /\ MemberCheck(r) = "a_seat_is_free"
    BY <1>1, <1>6, MemberPlan DEF MemberCheck
  <2>2. d.org[r.org] = "active" /\ Room(d, r.org)
    BY <2>1 DEF Holds
  <2>3. r.arg \in BaseRoles
    BY <1>6 DEF RequestOK
  <2> QED
    BY <1>3, <1>6, <2>1, <2>2, <2>3 DEF Outcome, MemberAdded, U
<1>7. CASE r.op = "replace_base_role"
  <2>1. /\ {UserRow(r.user), OrgRow(r.org)} \subseteq U
        /\ MemberCheck(r) \in Checks(Plan(r)) /\ MemberCheck(r) = "role_may_change"
    BY <1>1, <1>7, MemberPlan DEF MemberCheck
  <2>2. Member(d, r.user, r.org)
    BY <2>1 DEF Holds, Passes
  <2>3. r.arg \in BaseRoles
    BY <1>7 DEF RequestOK
  <2> QED
    BY <1>3, <1>4, <1>7, <2>1, <2>2, <2>3 DEF Outcome, BaseRoleReplaced, U
<1>8. CASE r.op = "deactivate_membership"
  <2>1. /\ {UserRow(r.user), OrgRow(r.org)} \subseteq U
        /\ MemberCheck(r) \in Checks(Plan(r)) /\ MemberCheck(r) = "member_may_leave"
    BY <1>1, <1>8, MemberPlan DEF MemberCheck
  <2>2. Member(d, r.user, r.org)
    BY <2>1 DEF Holds, Passes
  <2>3. Outcome(d, r) = MembershipDeactivated(d, r)
    BY <1>8 DEF Outcome
  <2>4. Moves(d, MembershipDeactivated(d, r), U)
    BY <1>1, <1>2, <2>1, <2>2, <2>3, DepartureMoves
  <2> QED
    BY <2>3, <2>4 DEF U
<1>9. CASE r.op = "reactivate_membership"
  <2>1. /\ {UserRow(r.user), OrgRow(r.org)} \subseteq U
        /\ {"membership_has_ended", "member_may_return"} \subseteq Checks(Plan(r))
    BY <1>1, <1>9, ReturnPlan
  <2>2. d.org[r.org] = "active" /\ Room(d, r.org)
    BY <2>1 DEF Holds, Passes
  <2> QED
    BY <1>3, <1>9, <2>1, <2>2 DEF Outcome, MembershipReactivated, BaseRoles, U
<1> QED
  BY <1>5, <1>6, <1>7, <1>8, <1>9 DEF MembershipOps

\* The operations on keys move the rows.
LEMMA KeyOutcome ==
    ASSUME NEW d, Ordered(d), NEW r, RequestOK(r), r.op \in KeyOps,
           \A check \in Checks(Plan(r)) : Holds(d, r, check)
    PROVE  Moves(d, Outcome(d, r), Taken(d, r))
<1> DEFINE U == Taken(d, r)
<1>1. r.user \in Users /\ r.org \in Orgs /\ r.arg \in Keys /\ d.keys \in KeyRows /\ d \in Rows
  BY RowsAreTables DEF RequestOK, Ordered
<1>2. KeysKept(d, Outcome(d, r), U)
  BY TakenAtCommit
<1> HIDE DEF U
<1>3. \A k \in Keys : d.keys[k] \in KeyState
  BY <1>1 DEF KeyRows
<1>4. ASSUME NEW new
          \in KeyState, Outcome(d, r) = [d EXCEPT !.keys = [d.keys EXCEPT ![r.arg] = new]],
             new.state \in {"issued", "claimed"} =>
                Member(d, new.holder, new.org) /\ d.org[new.org] = "active"
      PROVE  Moves(d, Outcome(d, r), U)
  <2> DEFINE K == [d.keys EXCEPT ![r.arg] = new]
  <2>1. K \in KeyRows /\ \A k \in Keys : K[k] = IF k = r.arg THEN new ELSE d.keys[k]
    BY <1>1 DEF KeyRows
  <2> HIDE DEF K
  <2>2. Outcome(d, r).keys = K
    BY <1>1, <1>4 DEF Rows, K
  <2>3. \A k \in Keys : K[k] = d.keys[k] \/ KeyRow(k) \in U
    BY <1>2, <2>2 DEF KeysKept
  <2>4. \A k \in Keys : K[k].state \in {"issued", "claimed"} =>
            Member(d, K[k].holder, K[k].org) /\ d.org[K[k].org] = "active"
    BY <1>4, <2>1 DEF Ordered, KeysHeld
  <2>5. Moves(d, [d EXCEPT !.keys = K], U)
    BY <2>1, <2>3, <2>4, KeyMoves
  <2> QED
    BY <1>4, <2>5 DEF K
<1>5. CASE r.op = "issue_key"
  <2>1. {"actor_is_an_admin_here", "holder_may_have_a_key"} \subseteq Checks(Plan(r))
    BY <1>5, IssuePlan
  <2>2. d.org[r.org] = "active" /\ Member(d, r.user, r.org)
    BY <2>1 DEF Holds, Passes, Bindable
  <2> DEFINE new == [state |-> "issued", holder |-> r.user, org |-> r.org]
  <2>3. new \in KeyState /\ new.holder = r.user /\ new.org = r.org
    BY <1>1 DEF KeyState
  <2>4. Outcome(d, r) = [d EXCEPT !.keys = [d.keys EXCEPT ![r.arg] = new]]
    BY <1>5 DEF Outcome, KeyIssued
  <2> HIDE DEF new
  <2> QED
    BY <1>4, <2>2, <2>3, <2>4 DEF U
<1>6. CASE r.op = "claim_key"
  <2>1. "key_may_be_claimed" \in Checks(Plan(r))
    BY <1>6, ClaimPlan
  <2>2. d.keys[r.arg].state = "issued"
    BY <2>1 DEF Holds
  <2> DEFINE new == [d.keys[r.arg] EXCEPT !.state = "claimed"]
  <2>3. new \in KeyState /\ new.holder = d.keys[r.arg].holder /\ new.org = d.keys[r.arg].org
    BY <1>1, <1>3 DEF KeyState
  <2>4. Outcome(d, r) = [d EXCEPT !.keys = [d.keys EXCEPT ![r.arg] = new]]
    BY <1>6 DEF Outcome, KeyClaimed
  <2> HIDE DEF new
  <2> QED
    BY <1>1, <1>4, <2>2, <2>3, <2>4 DEF U, Ordered, KeysHeld
<1>7. CASE r.op = "revoke_key"
  <2> DEFINE new == [d.keys[r.arg] EXCEPT !.state = "revoked"]
  <2>1. new \in KeyState /\ new.state = "revoked"
    BY <1>1, <1>3 DEF KeyState
  <2>2. Outcome(d, r) = [d EXCEPT !.keys = [d.keys EXCEPT ![r.arg] = new]]
    BY <1>7 DEF Outcome, KeyRevoked
  <2> HIDE DEF new
  <2> QED
    BY <1>4, <2>1, <2>2 DEF U
<1> QED
  BY <1>5, <1>6, <1>7 DEF KeyOps

\* The operations on accounts, the platform role, sessions, status and plans move the rows.
LEMMA OtherOutcome ==
    ASSUME NEW d, Ordered(d), NEW r, RequestOK(r), r.op \notin MembershipOps \cup KeyOps,
           \A check \in Checks(Plan(r)) : Holds(d, r, check)
    PROVE  Moves(d, Outcome(d, r), Taken(d, r))
<1> DEFINE U == Taken(d, r)
<1>1. r.user \in Users /\ r.org \in Orgs /\ d \in Rows /\ Updated(Plan(r)) \subseteq U
  BY DEF RequestOK, Ordered, Taken
<1>2. /\ KeysKept(d, Outcome(d, r), U)
      /\ r.op \in AccountOps => OrgRow(Symgov) \in U
      /\ r.op \in AccountOps =>
            \A o \in Orgs : d.member[r.user][o] = "admin" => OrgRow(o) \in U
  BY TakenAtCommit
<1> HIDE DEF U
<1>3. r.op \in CustomerOps => r.org \in Customers
  BY DEF RequestOK
<1>4. CASE r.op \in PlatformOps
  <2> DEFINE R == IF r.op = "assign_platform_admin" THEN d.platform \cup {r.user}
                  ELSE d.platform \ {r.user}
  <2>1. {UserRow(r.user), OrgRow(Symgov)} \subseteq U
    BY <1>1, <1>4, PlatformPlan
  <2>2. R \in SUBSET Users /\ \A v \in Users : v # r.user => (v \in R <=> v \in d.platform)
    BY <1>1 DEF Rows
  <2>3. Outcome(d, r) = [d EXCEPT !.platform = R]
    BY <1>4 DEF PlatformOps, Outcome, PlatformAdminAssigned, PlatformAdminRevoked
  <2> HIDE DEF R
  <2>4. Moves(d, [d EXCEPT !.platform = R], U)
    BY <1>1, <2>1, <2>2, PlatformMoves
  <2> QED
    BY <2>3, <2>4 DEF U
<1>5. CASE r.op = "suspend_organization"
  <2>1. OrgRow(r.org) \in U
    BY <1>1, <1>5, EntitlementPlan
  <2>2. Outcome(d, r) = OrganizationSuspended(d, r)
    BY <1>5 DEF Outcome
  <2>3. Moves(d, OrganizationSuspended(d, r), U)
    BY <1>1, <1>2, <2>1, <2>2, SuspensionMoves
  <2> QED
    BY <2>2, <2>3 DEF U
<1>6. CASE r.op = "reactivate_organization"
  <2>1. OrgRow(r.org) \in U
    BY <1>1, <1>6, EntitlementPlan
  <2>2. Moves(d, OrganizationReactivated(d, r), U)
    BY <1>1, <2>1, RevivalMoves
  <2> QED
    BY <1>6, <2>2 DEF U, Outcome
<1>7. CASE r.op = "set_subscription"
  <2>1. OrgRow(r.org) \in U /\ "limit_covers_the_seats_in_use" \in Checks(Plan(r))
    BY <1>1, <1>7, SetPlan
  <2>2. r.arg >= SeatsInUse(d, r.org)
    BY <2>1 DEF Holds, Passes
  <2>3. r.arg \in SeatLimits /\ r.org \in Customers
    BY <1>3, <1>7 DEF RequestOK, CustomerOps
  <2>4. Moves(d, [d EXCEPT !.seats[r.org] = r.arg, !.lapsed = @ \ {r.org}], U)
    BY <2>1, <2>2, <2>3, SubscriptionMoves
  <2> QED
    BY <1>7, <2>4 DEF U, Outcome, SubscriptionSet
<1>8. CASE r.op = "renew_subscription"
  <2> DEFINE L == d.lapsed \ {r.org}
  <2>1. L \in SUBSET Orgs
    BY <1>1 DEF Rows
  <2>2. Outcome(d, r) = [d EXCEPT !.lapsed = L]
    BY <1>8 DEF Outcome, SubscriptionRenewed
  <2> HIDE DEF L
  <2>3. Moves(d, [d EXCEPT !.lapsed = L], U)
    BY <2>1, LapseMoves
  <2> QED
    BY <2>2, <2>3 DEF U
<1>9. CASE r.op = "create_user_session"
  <2>1. "session_may_be_bound" \in Checks(Plan(r))
    BY <1>9, SessionPlan
  <2>2. Active(d, r.user) /\ Member(d, r.user, r.org)
    BY <2>1 DEF Holds
  <2>3. Moves(d, [d EXCEPT !.sessions = @ \cup {<<r.user, r.org>>}], U)
    BY <1>1, <2>2, SessionMoves
  <2> QED
    BY <1>9, <2>3 DEF U, Outcome, SessionCreated
<1>10. CASE r.op \in AccountOps
  <2>1. AccountLocked(d, r.user, U)
    BY <1>1, <1>2, <1>10, AccountPlan DEF AccountLocked
  <2>2. CASE r.op = "update_user"
    <3>1. r.arg \in {"active", "inactive"}
      BY <2>2 DEF RequestOK
    <3>2. Moves(d, AccountSet(d, r), U)
      BY <1>1, <2>1, <3>1, AccountSetMoves
    <3> QED
      BY <2>2, <3>2 DEF U, Outcome
  <2>3. CASE r.op = "delete_user"
    <3>1. Outcome(d, r) = AccountDeleted(d, r)
      BY <2>3 DEF Outcome
    <3>2. Moves(d, AccountDeleted(d, r), U)
      BY <1>1, <1>2, <2>1, <3>1, AccountDeletedMoves
    <3> QED
      BY <3>1, <3>2 DEF U
  <2> QED
    BY <1>10, <2>2, <2>3 DEF AccountOps
<1>11. r.op \in AllOps
  BY DEF RequestOK
<1> QED
  BY <1>4, <1>5, <1>6, <1>7, <1>8, <1>9, <1>10, <1>11 DEF AllOps, CustomerOps, MembershipOps

\* A commit moves the rows in order and writes no row that others hold.
LEMMA OutcomeMoves ==
    ASSUME NEW d, Ordered(d), NEW r, RequestOK(r),
           \A check \in Checks(Plan(r)) : Holds(d, r, check)
    PROVE  Moves(d, Outcome(d, r), Taken(d, r))
BY MembershipOutcome, KeyOutcome, OtherOutcome

-----------------------------------------------------------------------------
(* The inductive invariant.                                                *)

\* The locks of a request that is so far in its plan.
LocksOf(t) == {Plan(t.r)[i] : i \in 1..(t.at - 1)}
\* A process is free, or what its checks have found is still so.
Serves(d, t) ==
    \/ t = Free
    \/ /\ RequestOK(t.r)
       /\ t.at \in 1..(Len(Plan(t.r)) + 1)
       /\ \A i \in 1..(t.at - 1) : Holds(d, t.r, Plan(t.r)[i].check)
LocksApart ==
    \A p, q \in Processes :
        p # q => \A a \in LocksOf(tx[p]), b \in LocksOf(tx[q]) : ~Conflict(a, b)
IInv ==
    /\ Consistent(db)
    /\ tx = [p \in Processes |-> tx[p]]
    /\ requests \in 0..MaxRequests
    /\ \A p \in Processes : Serves(db, tx[p])
    /\ LocksApart

\* A check that passes has found what is kept.
LEMMA PassesHolds ==
    ASSUME NEW d, NEW r, NEW check, Passes(d, r, check)
    PROVE  Holds(d, r, check)
BY DEF Passes, Holds, SeatAvailable, Room, Bindable

\* Free processes hold nothing; the others what Held says.
LEMMA HeldLocks ==
    ASSUME NEW p, Serves(db, tx[p])
    PROVE  /\ Held(p) = LocksOf(tx[p])
           /\ LocksOf(Free) = {} /\ (tx[p] = Free <=> Idle(p))
<1>1. Free.at = 0
  BY DEF Free
<1>2. 1..(0 - 1) = {}
  OBVIOUS
<1>3. LocksOf(Free) = {}
  BY <1>1, <1>2 DEF LocksOf
<1>4. CASE tx[p] = Free
  BY <1>1, <1>3, <1>4 DEF Held, Idle, Serving
<1>5. CASE tx[p] # Free
  <2>1. tx[p].at \in Int /\ tx[p].at > 0 /\ tx[p] # Free
    BY <1>5, PlansSupported DEF Serves
  <2> QED
    BY <1>3, <2>1 DEF Held, Idle, Serving, LocksOf
<1> QED
  BY <1>4, <1>5

\* The initial states satisfy the invariant.
LEMMA InitIInv == Init => IInv
<1> SUFFICES ASSUME Init
             PROVE  IInv
  OBVIOUS
<1>1. Consistent(db)
  BY InitialStatesAssumption DEF Init
<1>2. tx = [p \in Processes |-> tx[p]] /\ \A p \in Processes : tx[p] = Free
  BY DEF Init
<1>3. requests \in 0..MaxRequests
  BY AdministrationAssumption DEF Init
<1>4. LocksOf(Free) = {}
  BY DEF LocksOf, Free
<1>5. LocksApart
  BY <1>2, <1>4 DEF LocksApart
<1> QED
  BY <1>1, <1>2, <1>3, <1>5 DEF IInv, Serves

\* One process moves on or is freed, the rows stay: its locks must be apart.
LEMMA OneMoves ==
    ASSUME IInv, NEW p \in Processes, NEW t, tx' = [tx EXCEPT ![p] = t], db' = db,
           requests' \in 0..MaxRequests, Serves(db, t),
           \A q \in Processes \ {p} : \A a \in LocksOf(t), b \in LocksOf(tx[q]) : ~Conflict(a, b)
    PROVE  IInv'
<1>1. /\ tx' = [q \in Processes |-> IF q = p THEN t ELSE tx[q]]
      /\ \A q \in Processes : tx'[q] = IF q = p THEN t ELSE tx[q]
  BY DEF IInv
<1>2. \A a, b : Conflict(a, b) <=> Conflict(b, a)
  BY DEF Conflict
<1>3. LocksApart'
  <2> SUFFICES ASSUME NEW x \in Processes, NEW y \in Processes, x # y,
                      NEW a \in LocksOf(tx'[x]), NEW b \in LocksOf(tx'[y])
               PROVE  ~Conflict(a, b)
    BY DEF LocksApart, LocksOf
  <2> QED
    BY <1>1, <1>2 DEF IInv, LocksApart
<1>4. \A q \in Processes : Serves(db', tx'[q])
  BY <1>1 DEF IInv
<1>5. tx' = [q \in Processes |-> tx'[q]]
  BY <1>1
<1> QED
  BY <1>3, <1>4, <1>5 DEF IInv

\* What a process that waits for nobody wants is in no one's way.
LEMMA WantedApart ==
    ASSUME IInv, NEW p \in Processes, WaitsFor(p) = {}, NEW q \in Processes, q # p
    PROVE  \A a \in Wanted(p), b \in LocksOf(tx[q]) : ~Conflict(a, b)
<1>1. Held(q) = LocksOf(tx[q])
  BY HeldLocks DEF IInv
<1> QED
  BY <1>1 DEF WaitsFor

\* A process that is freed leaves the rest as it is.
LEMMA FreeIInv ==
    ASSUME IInv, NEW p \in Processes, tx' = [tx EXCEPT ![p] = Free], UNCHANGED <<db, requests>>
    PROVE  IInv'
<1>1. LocksOf(Free) = {} /\ Serves(db, Free)
  BY DEF LocksOf, Free, Serves
<1>2. requests' \in 0..MaxRequests
  BY DEF IInv
<1> QED
  BY <1>1, <1>2, OneMoves

\* The arguments of a request are those of its operation.
LEMMA RequestsAreOK ==
    ASSUME NEW op \in Operations, NEW actor \in Users, NEW user \in UsersOf(op, actor),
           NEW org \in OrgsOf(op), NEW arg \in ArgumentsOf(op)
    PROVE  RequestOK([op |-> op, actor |-> actor, user |-> user, org |-> org, arg |-> arg])
<1>1. op \in AllOps
  BY OperationsAssumption
<1>2. user \in Users /\ (op \in OwnOps => user = actor)
  BY DEF UsersOf
<1>3. /\ org \in Orgs /\ (op \in CustomerOps => org \in Customers)
      /\ op \in PlatformOps \cup {"delete_user"} => org = Symgov
  BY DEF OrgsOf, Orgs, CustomerOps, OrgOps, PlatformOps
<1>4. /\ op \in {"add_organization_member", "replace_base_role"} => arg \in BaseRoles
      /\ op = "create_organization" => arg = DefaultSeatLimit
      /\ op = "set_subscription" => arg \in SeatLimits
      /\ op \in KeyOps => arg \in Keys
      /\ op = "update_user" => arg \in {"active", "inactive"}
  BY DEF ArgumentsOf, KeyOps
<1> QED
  BY <1>1, <1>2, <1>3, <1>4 DEF RequestOK

\* A request arrives.
LEMMA RequestIInv ==
    ASSUME IInv, NEW p \in Processes, Request(p)
    PROVE  IInv'
<1>1. PICK r : RequestOK(r) /\ tx' = [tx EXCEPT ![p] = [r |-> r, at |-> 1]]
  BY RequestsAreOK DEF Request
<1> DEFINE t == [r |-> r, at |-> 1]
<1>2. t.r = r /\ t.at = 1 /\ 1..(1 - 1) = {}
  OBVIOUS
<1>3. Len(Plan(r)) \in Nat /\ LocksOf(t) = {}
  BY <1>1, <1>2, PlansSupported DEF LocksOf
<1>4. Serves(db, t)
  BY <1>1, <1>2, <1>3 DEF Serves
<1>5. requests' \in 0..MaxRequests /\ db' = db
  BY AdministrationAssumption DEF Request, IInv
<1> HIDE DEF t
<1> QED
  BY <1>1, <1>3, <1>4, <1>5, OneMoves DEF t

\* A lock is taken and its check passes, or the request is refused.
LEMMA AcquireIInv ==
    ASSUME IInv, NEW p \in Processes, Acquire(p)
    PROVE  IInv'
<1> DEFINE r == tx[p].r
           at == tx[p].at
           t == [r |-> r, at |-> at + 1]
<1>1. /\ Serving(p) /\ ~ReadyToCommit(p) /\ WaitsFor(p) = {} /\ UNCHANGED <<db, requests>>
      /\ tx' = [tx EXCEPT ![p] = IF Passes(db, r, Plan(r)[at].check) THEN t ELSE Free]
  BY DEF Acquire
<1>2. CASE ~Passes(db, r, Plan(r)[at].check)
  BY <1>1, <1>2, FreeIInv
<1>3. CASE Passes(db, r, Plan(r)[at].check)
  <2>1. tx' = [tx EXCEPT ![p] = t]
    BY <1>1, <1>3
  <2>2. RequestOK(r) /\ Serves(db, tx[p]) /\ at \in Nat \ {0} /\ Len(Plan(r)) \in Nat
        /\ at <= Len(Plan(r))
        /\ \A i \in 1..(at - 1) : Holds(db, r, Plan(r)[i].check)
    <3>1. Serves(db, tx[p]) /\ tx[p] # Free
      BY <1>1, HeldLocks DEF IInv, Idle
    <3>2. Len(Plan(r)) \in Nat
      BY <3>1, PlansSupported DEF Serves
    <3> QED
      BY <1>1, <3>1, <3>2 DEF Serves, ReadyToCommit
  <2>3. t.r = r /\ t.at = at + 1
    OBVIOUS
  <2>4. Holds(db, r, Plan(r)[at].check)
    BY <1>3, PassesHolds
  <2> HIDE DEF t, r, at
  <2>5. \A i \in 1..at : i = at \/ i \in 1..(at - 1)
    BY <2>2
  <2>6. \A i \in 1..((at + 1) - 1) : i \in 1..at
    BY <2>2
  <2>7. Serves(db, t)
    BY <2>2, <2>3, <2>4, <2>5, <2>6 DEF Serves
  <2>8. \A a \in LocksOf(t) : a \in LocksOf(tx[p]) \/ a = Plan(r)[at]
    BY <2>3, <2>5, <2>6 DEF LocksOf, r, at
  <2>9. Plan(r)[at] \in Wanted(p)
    BY <1>1 DEF Wanted, Idle, r, at
  <2>10. \A q \in Processes \ {p} : \A a \in LocksOf(t), b \in LocksOf(tx[q]) : ~Conflict(a, b)
    BY <1>1, <2>8, <2>9, WantedApart DEF IInv, LocksApart
  <2>11. requests' \in 0..MaxRequests /\ db' = db
    BY <1>1 DEF IInv
  <2> QED
    BY <2>1, <2>7, <2>10, <2>11, OneMoves
<1> QED
  BY <1>2, <1>3

\* A request that is ready to commit holds every lock of its plan, and every
\* check it made still finds what it found.
LEMMA ReadyHolds ==
    ASSUME IInv, NEW p \in Processes, ReadyToCommit(p)
    PROVE  /\ RequestOK(tx[p].r)
           /\ \A check \in Checks(Plan(tx[p].r)) : Holds(db, tx[p].r, check)
           /\ \A i \in 1..Len(Plan(tx[p].r)) : Plan(tx[p].r)[i] \in LocksOf(tx[p])
           /\ Wanted(p) = LocksAtCommit(db, tx[p].r)
<1> DEFINE r == tx[p].r
<1>1. Serves(db, tx[p]) /\ tx[p] # Free
  BY HeldLocks DEF IInv, ReadyToCommit, Idle
<1>2. RequestOK(r) /\ Len(Plan(r)) \in Nat
  BY <1>1, PlansSupported DEF Serves
<1>3. tx[p].at - 1 = Len(Plan(r))
  BY <1>1, <1>2 DEF Serves, ReadyToCommit
<1> HIDE DEF r
<1>4. \A i \in 1..Len(Plan(r)) : Holds(db, r, Plan(r)[i].check) /\ Plan(r)[i] \in LocksOf(tx[p])
  BY <1>1, <1>3 DEF Serves, LocksOf, r
<1>5. Wanted(p) = LocksAtCommit(db, r)
  BY DEF Wanted, ReadyToCommit, Idle, r
<1> QED
  BY <1>2, <1>4, <1>5 DEF Checks, r

\* What a commit writes is locked by nobody else.
LEMMA TakenIsApart ==
    ASSUME IInv, NEW p \in Processes, ReadyToCommit(p), WaitsFor(p) = {},
           NEW q \in Processes, q # p
    PROVE  \A b \in LocksOf(tx[q]) : b.row \notin Taken(db, tx[p].r)
<1> DEFINE r == tx[p].r
<1> SUFFICES ASSUME NEW b \in LocksOf(tx[q]), NEW row \in Taken(db, r)
             PROVE  b.row # row
  OBVIOUS
<1>1. CASE row \in Updated(Plan(r))
  <2>1. PICK i \in 1..Len(Plan(r)) : Plan(r)[i].mode = "update" /\ Plan(r)[i].row = row
    BY <1>1 DEF Updated
  <2>2. ~Conflict(Plan(r)[i], b)
    BY <2>1, ReadyHolds DEF IInv, LocksApart
  <2> QED
    BY <2>1, <2>2 DEF Conflict
<1>2. CASE row \in {l.row : l \in LocksAtCommit(db, r)}
  <2>1. PICK l \in LocksAtCommit(db, r) : l.row = row
    BY <1>2
  <2>2. ~Conflict(l, b)
    BY <2>1, ReadyHolds, WantedApart
  <2>3. l.mode = "update"
    <3>1. /\ \A o, check : Org(o, "update", check).mode = "update"
          /\ \A k, check : Key(k, check).mode = "update"
      BY Locks DEF IsLock
    <3> QED
      BY <2>1, <3>1 DEF LocksAtCommit
  <2> QED
    BY <2>1, <2>2, <2>3 DEF Conflict
<1> QED
  BY <1>1, <1>2 DEF Taken

\* The rows move under the locks U: the others' checks keep what they found.
LEMMA MoveKeepsServing ==
    ASSUME NEW d \in Rows, NEW e \in Rows, NEW U, Frame(d, e, U), NEW t, Serves(d, t),
           \A b \in LocksOf(t) : b.row \notin U
    PROVE  Serves(e, t)
<1>1. CASE t = Free
  BY <1>1 DEF Serves
<1>2. CASE t # Free
  <2>1. /\ RequestOK(t.r) /\ t.at \in 1..(Len(Plan(t.r)) + 1)
        /\ \A i \in 1..(t.at - 1) : Holds(d, t.r, Plan(t.r)[i].check)
    BY <1>2 DEF Serves
  <2>2. Supported(t.r, Plan(t.r)) /\ Len(Plan(t.r)) \in Nat
    BY <2>1, PlansSupported
  <2>3. ASSUME NEW i \in 1..(t.at - 1)
        PROVE  Holds(e, t.r, Plan(t.r)[i].check)
    <3>1. /\ Plan(t.r)[i].check \in ChecksOf(t.r)
          /\ Support(t.r, Plan(t.r)[i].check) \subseteq RowsUpTo(Plan(t.r), i)
      BY <2>1, <2>2 DEF Supported
    <3>2. ASSUME NEW row \in RowsUpTo(Plan(t.r), i)
          PROVE  row \notin U
      <4>1. PICK j \in 1..i : row = Plan(t.r)[j].row
        BY DEF RowsUpTo
      <4>2. j \in 1..(t.at - 1)
        BY <2>1, <2>2, <4>1
      <4> QED
        BY <4>1, <4>2 DEF LocksOf
    <3>3. Support(t.r, Plan(t.r)[i].check) \cap U = {}
      BY <3>1, <3>2
    <3>4. d.platform \subseteq Users /\ e.platform \subseteq Users
      BY DEF Rows
    <3> QED
      BY <2>1, <2>3, <3>1, <3>3, <3>4, HoldsKept
  <2> QED
    BY <2>1, <2>3 DEF Serves
<1> QED
  BY <1>1, <1>2

\* A commit, accepted or refused by the triggers.
LEMMA CommitIInv ==
    ASSUME IInv, NEW p \in Processes, Commit(p)
    PROVE  IInv'
<1> DEFINE r == tx[p].r
           e == Outcome(db, r)
           U == Taken(db, r)
<1>1. /\ ReadyToCommit(p) /\ WaitsFor(p) = {} /\ UNCHANGED requests
      /\ db' = IF Accepted(db, r) THEN e ELSE db
      /\ tx' = [tx EXCEPT ![p] = Free]
  BY DEF Commit
<1>2. CASE ~Accepted(db, r)
  BY <1>1, <1>2, FreeIInv
<1>3. CASE Accepted(db, r)
  <2>1. db' = e /\ InCharge(e)
    BY <1>1, <1>3 DEF Accepted, InCharge
  <2>2. Ordered(db) /\ db \in Rows
    BY DEF IInv, Consistent, Ordered
  <2>3. Moves(db, e, U)
    BY <1>1, <2>2, ReadyHolds, OutcomeMoves
  <2> HIDE DEF e, U, r
  <2>4. Consistent(db') /\ e \in Rows /\ Frame(db, e, U)
    BY <2>1, <2>3 DEF Moves, Ordered, Consistent
  <2>5. /\ tx' = [q \in Processes |-> IF q = p THEN Free ELSE tx[q]]
        /\ \A q \in Processes : tx'[q] = IF q = p THEN Free ELSE tx[q]
    BY <1>1 DEF IInv
  <2>6. ASSUME NEW q \in Processes
        PROVE  Serves(db', tx'[q])
    <3>1. CASE q = p
      BY <2>5, <3>1 DEF Serves
    <3>2. CASE q # p
      <4>1. \A b \in LocksOf(tx[q]) : b.row \notin U
        BY <1>1, <3>2, TakenIsApart DEF U, r
      <4>2. Serves(e, tx[q])
        BY <2>2, <2>4, <4>1, MoveKeepsServing DEF IInv
      <4> QED
        BY <2>1, <2>5, <3>2, <4>2
    <3> QED
      BY <3>1, <3>2
  <2>7. LocksApart'
    <3>1. LocksOf(Free) = {}
      BY DEF LocksOf, Free
    <3> SUFFICES ASSUME NEW x \in Processes, NEW y \in Processes, x # y,
                        NEW a \in LocksOf(tx'[x]), NEW b \in LocksOf(tx'[y])
                 PROVE  ~Conflict(a, b)
      BY DEF LocksApart, LocksOf
    <3> QED
      BY <2>5, <3>1 DEF IInv, LocksApart
  <2>8. tx' = [q \in Processes |-> tx'[q]] /\ requests' \in 0..MaxRequests
    BY <1>1, <2>5 DEF IInv
  <2> QED
    BY <2>4, <2>6, <2>7, <2>8 DEF IInv
<1> QED
  BY <1>2, <1>3

\* The term of a plan ends.
LEMMA TermIInv ==
    ASSUME IInv, NEW o \in Customers, TermEnds(o)
    PROVE  IInv'
<1> DEFINE L == db.lapsed \cup {o}
<1>1. L \in SUBSET Orgs /\ Ordered(db) /\ db \in Rows
  BY DEF IInv, Consistent, Ordered, Rows, Orgs
<1>2. db' = [db EXCEPT !.lapsed = L] /\ UNCHANGED <<tx, requests>>
  BY DEF TermEnds
<1> HIDE DEF L
<1>3. Moves(db, db', {})
  BY <1>1, <1>2, LapseMoves
<1>4. db' \in Rows /\ Ordered(db') /\ Frame(db, db', {})
  BY <1>3 DEF Moves, Ordered
<1>5. InCharge(db')
  <2>1. db'.member = db.member /\ db'.account = db.account /\ db'.platform = db.platform
        /\ db'.org = db.org
    BY <1>1, <1>2 DEF Rows
  <2> QED
    BY <2>1 DEF IInv, Consistent, InCharge, AdminMinimum, PlatformRoleEligible, Admins, Active
<1>6. Consistent(db')
  BY <1>4, <1>5 DEF Consistent, Ordered
<1>7. \A q \in Processes : Serves(db', tx'[q])
  BY <1>1, <1>2, <1>4, MoveKeepsServing DEF IInv
<1>8. LocksApart'
  BY <1>2 DEF IInv, LocksApart, LocksOf
<1> QED
  BY <1>2, <1>6, <1>7, <1>8 DEF IInv

\* Every step keeps the invariant.
LEMMA NextIInv == IInv /\ [Next]_vars => IInv'
<1> SUFFICES ASSUME IInv, [Next]_vars
             PROVE  IInv'
  OBVIOUS
<1>1. ASSUME NEW p \in Processes, Request(p) PROVE IInv'
  BY <1>1, RequestIInv
<1>2. ASSUME NEW p \in Processes, Acquire(p) PROVE IInv'
  BY <1>2, AcquireIInv
<1>3. ASSUME NEW p \in Processes, Commit(p) PROVE IInv'
  BY <1>3, CommitIInv
<1>4. ASSUME NEW p \in Processes, AbortVictim(p) PROVE IInv'
  BY <1>4, FreeIInv DEF AbortVictim
<1>5. ASSUME NEW o \in Customers, TermEnds(o) PROVE IInv'
  BY <1>5, TermIInv
<1>6. CASE UNCHANGED vars
  BY <1>6 DEF vars, IInv, LocksApart, LocksOf
<1> QED
  BY <1>1, <1>2, <1>3, <1>4, <1>5, <1>6 DEF Next

-----------------------------------------------------------------------------
(* What every behaviour obeys.                                             *)

(* The rows are consistent at every commit, no two requests hold locks     *)
(* that exclude each other, and what a request's checks have found still   *)
(* holds for as long as the request is served.                             *)
THEOREM InductiveInvariant == Spec => []IInv
<1>1. Init => IInv
  BY InitIInv
<1>2. IInv /\ [Next]_vars => IInv'
  BY NextIInv
<1> QED
  BY <1>1, <1>2, PTL DEF Spec

(* The committed rows stay within their columns and every request within   *)
(* its plan.                                                               *)
THEOREM TypeCorrect == Spec => []TypeOK
<1>1. IInv => TypeOK
  <2> SUFFICES ASSUME IInv
               PROVE  TypeOK
    OBVIOUS
  <2>1. ASSUME NEW p \in Processes
        PROVE  tx[p].at \in 0..(IF Idle(p) THEN 0 ELSE Len(Plan(tx[p].r)) + 1)
    <3>1. Serves(db, tx[p])
      BY DEF IInv
    <3>2. CASE tx[p] = Free
      BY <3>2 DEF Free, Idle, Serving
    <3>3. CASE tx[p] # Free
      <4>1. tx[p].at \in 1..(Len(Plan(tx[p].r)) + 1) /\ Len(Plan(tx[p].r)) \in Nat
        BY <3>1, <3>3, PlansSupported DEF Serves
      <4> QED
        BY <4>1 DEF Idle, Serving
    <3> QED
      BY <3>2, <3>3
  <2> QED
    BY <2>1 DEF IInv, TypeOK, Consistent
<1> QED
  BY <1>1, InductiveInvariant, PTL

(* Every active organization keeps an active administrator, and the        *)
(* platform administrators stay eligible.                                  *)
THEOREM AlwaysInCharge == Spec => []SomeoneInCharge
<1>1. IInv => SomeoneInCharge
  BY DEF IInv, Consistent, SomeoneInCharge
<1> QED
  BY <1>1, InductiveInvariant, PTL

(* Members never outnumber the seats of the plan.                          *)
THEOREM SeatsSuffice == Spec => []SeatsCoverMembers
<1>1. IInv => SeatsCoverMembers
  BY DEF IInv, Consistent, SeatsCoverMembers
<1> QED
  BY <1>1, InductiveInvariant, PTL

(* A key that is issued or claimed has a member of an active organization  *)
(* behind it, also one that is written while the membership ends.          *)
THEOREM KeysFollowMembers == Spec => []LiveKeyHasMember
<1>1. IInv => LiveKeyHasMember
  BY DEF IInv, Consistent, LiveKeyHasMember
<1> QED
  BY <1>1, InductiveInvariant, PTL

(* A session bound to an organization ends with the membership and with    *)
(* the account.                                                            *)
THEOREM SessionsFollowMembers == Spec => []SessionHasMember
<1>1. IInv => SessionHasMember
  BY DEF IInv, Consistent, SessionHasMember
<1> QED
  BY <1>1, InductiveInvariant, PTL

(* The authority a request was checked for is still there when it commits. *)
THEOREM AuthorityIsNotStale == Spec => []AuthorityHoldsAtCommit
<1>1. IInv => AuthorityHoldsAtCommit
  <2> SUFFICES ASSUME IInv, NEW p \in Processes, ReadyToCommit(p)
               PROVE  LET r == tx[p].r
                      IN  r.op # "claim_key" =>
              /\ r.op \in {"create_organization", "reactivate_membership", "assign_platform_admin",
                           "revoke_platform_admin", "suspend_organization",
                           "reactivate_organization"} => PlatformAdmin(db, r.actor)
              /\ r.op \in {"add_organization_member", "replace_base_role",
                           "deactivate_membership"} =>
                    (IF r.org = Symgov THEN PlatformAdmin(db, r.actor)
                     ELSE OrganizationAdmin(db, r.actor, r.org))
              /\ r.op \in {"issue_key", "revoke_key"} =>
                    Bindable(db, r.actor, r.org) /\ db.member[r.actor][r.org] = "admin"
    BY DEF AuthorityHoldsAtCommit
  <2> DEFINE r == tx[p].r
  <2>1. RequestOK(r) /\ \A check \in Checks(Plan(r)) : Holds(db, r, check)
    BY ReadyHolds
  <2> HIDE DEF r
  <2>2. ASSUME r.op \in {"create_organization", "reactivate_membership", "assign_platform_admin",
                         "revoke_platform_admin", "suspend_organization", "reactivate_organization"}
        PROVE  PlatformAdmin(db, r.actor)
    <3>1. "actor_is_a_platform_admin" \in Checks(Plan(r))
      BY <2>1, <2>2, PlatformPlan, ReturnPlan, EntitlementPlan DEF PlatformOps
    <3> QED
      BY <2>1, <3>1 DEF Holds, Passes
  <2>3. ASSUME r.op \in {"add_organization_member", "replace_base_role", "deactivate_membership"}
        PROVE  IF r.org = Symgov THEN PlatformAdmin(db, r.actor)
               ELSE OrganizationAdmin(db, r.actor, r.org)
    <3>1. AuthorityCheck(r) \in Checks(Plan(r))
      BY <2>1, <2>3, MemberPlan
    <3> QED
      BY <2>1, <3>1 DEF Holds, Passes, AuthorityCheck
  <2>4. ASSUME r.op \in {"issue_key", "revoke_key"}
        PROVE  Bindable(db, r.actor, r.org) /\ db.member[r.actor][r.org] = "admin"
    <3>1. "actor_is_an_admin_here" \in Checks(Plan(r))
      BY <2>1, <2>4, IssuePlan, RevokePlan
    <3> QED
      BY <2>1, <3>1 DEF Holds, Passes
  <2> QED
    BY <2>2, <2>3, <2>4 DEF r
<1> QED
  BY <1>1, InductiveInvariant, PTL


-----------------------------------------------------------------------------
(* What the services refuse before the triggers do.                        *)

\* Administrators and platform administrators stay, and no organization
\* becomes active without an administrator.
LEMMA GrowthInCharge ==
    ASSUME NEW d, NEW e, InCharge(d), e.platform = d.platform,
           \A o \in Orgs : Admins(d, o) \subseteq Admins(e, o),
           \A o \in Orgs : e.org[o] = "active" => d.org[o] = "active" \/ Admins(e, o) # {}
    PROVE  InCharge(e)
<1>1. Symgov \in Orgs
  BY DEF Orgs
<1> QED
  BY <1>1 DEF InCharge, AdminMinimum, PlatformRoleEligible

\* Who is not the last administrator leaves another one.
LEMMA AnotherAdminStays ==
    ASSUME NEW d, NEW u \in Users, NEW o \in Orgs, d.member[u][o] = "admin", ~LastAdmin(d, u, o)
    PROVE  \E v \in Admins(d, o) : v # u
<1> DEFINE S == Admins(d, o)
<1>1. IsFiniteSet(S)
  BY AdministrationAssumption, FS_Subset DEF Admins
<1>2. ~(Cardinality(S) <= 1)
  BY DEF LastAdmin
<1> HIDE DEF S
<1>3. IsFiniteSet({u}) /\ Cardinality({u}) = 1
  BY FS_Singleton
<1>4. ~(S \subseteq {u})
  BY <1>1, <1>2, <1>3, FS_Subset
<1> QED
  BY <1>4 DEF S

\* One membership is written, and it was not that of the last administrator
\* nor of a platform administrator.
LEMMA RoleInCharge ==
    ASSUME NEW d, NEW e, InCharge(d), e.platform = d.platform, e.account = d.account, e.org = d.org,
           NEW r, r.user \in Users, r.org \in Orgs, NEW role,
           MemberWritten(d, e, r.user, r.org, role), MayLoseAdmin(d, r)
    PROVE  InCharge(e)
<1> DEFINE u == r.user
           o == r.org
<1>1. \A v \in Users, p \in Orgs :
        v \in Admins(d, p) /\ ~(v = u /\ p = o) => v \in Admins(e, p)
  BY DEF Admins, Active, MemberWritten
<1>2. CASE d.member[u][o] # "admin"
  <2>1. \A p \in Orgs : Admins(d, p) \subseteq Admins(e, p)
    BY <1>1, <1>2 DEF Admins
  <2> QED
    BY <2>1, GrowthInCharge
<1>3. CASE d.member[u][o] = "admin"
  <2>1. ~(o = Symgov /\ u \in d.platform) /\ ~LastAdmin(d, u, o)
    BY <1>3 DEF MayLoseAdmin
  <2>2. PICK v \in Admins(d, o) : v # u
    BY <1>3, <2>1, AnotherAdminStays
  <2>3. v \in Admins(e, o)
    BY <1>1, <2>2 DEF Admins
  <2>4. AdminMinimum(e)
    <3> SUFFICES ASSUME NEW p \in Orgs, e.org[p] = "active"
                 PROVE  Admins(e, p) # {}
      BY DEF AdminMinimum
    <3>1. CASE p = o
      BY <2>3, <3>1
    <3>2. CASE p # o
      <4>1. Admins(d, p) # {} /\ Admins(d, p) \subseteq Users
        BY DEF InCharge, AdminMinimum, Admins
      <4> QED
        BY <1>1, <3>2, <4>1
    <3> QED
      BY <3>1, <3>2
  <2>5. PlatformRoleEligible(e)
    <3>1. d.platform \subseteq Admins(d, Symgov) /\ d.platform # {} /\ Symgov \in Orgs
          /\ Admins(d, Symgov) \subseteq Users
      BY DEF InCharge, PlatformRoleEligible, Admins, Orgs
    <3> QED
      BY <1>1, <2>1, <3>1 DEF PlatformRoleEligible
  <2> QED
    BY <2>4, <2>5 DEF InCharge
<1> QED
  BY <1>2, <1>3

\* Changes to a membership leave somebody in charge.
LEMMA MembershipInCharge ==
    ASSUME NEW d, Consistent(d), NEW r, RequestOK(r),
           r.op \in MembershipOps \ {"create_organization"},
           \A check \in Checks(Plan(r)) : Holds(d, r, check)
    PROVE  InCharge(Outcome(d, r))
<1> DEFINE e == Outcome(d, r)
           role == IF r.op = "deactivate_membership" THEN "left"
                   ELSE IF r.op = "reactivate_membership" THEN "user" ELSE r.arg
<1>1. r.user \in Users /\ r.org \in Orgs /\ d \in Rows /\ InCharge(d) /\ d.member \in MemberRows
  BY RowsAreTables DEF RequestOK, Consistent
<1>2. role \in Roles
  BY DEF RequestOK, Roles, BaseRoles, MembershipOps
<1>3. /\ e.platform = d.platform /\ e.account = d.account /\ e.org = d.org
      /\ e.member = [d.member EXCEPT ![r.user][r.org] = role]
  <2>1. CASE r.op = "add_organization_member"
    BY <1>1, <2>1 DEF Outcome, MemberAdded, Rows
  <2>2. CASE r.op = "replace_base_role"
    BY <1>1, <2>2 DEF Outcome, BaseRoleReplaced, Rows
  <2>3. CASE r.op = "deactivate_membership"
    BY <1>1, <2>3 DEF Outcome, MembershipDeactivated, Rows
  <2>4. CASE r.op = "reactivate_membership"
    BY <1>1, <2>4 DEF Outcome, MembershipReactivated, Rows
  <2> QED
    BY <2>1, <2>2, <2>3, <2>4 DEF MembershipOps
<1>4. MayLoseAdmin(d, r)
  <2>1. CASE r.op \in {"add_organization_member", "replace_base_role", "deactivate_membership"}
    <3>1. MemberCheck(r) \in Checks(Plan(r))
      BY <2>1, MemberPlan
    <3>2. Holds(d, r, MemberCheck(r))
      BY <3>1
    <3>3. r.op = "replace_base_role" => r.arg \in BaseRoles
      BY DEF RequestOK
    <3>4. CASE r.op = "add_organization_member"
      BY <3>2, <3>4 DEF MemberCheck, Holds, MayLoseAdmin
    <3>5. CASE r.op = "replace_base_role"
      <4>1. Passes(d, r, "role_may_change")
        BY <3>2, <3>5 DEF MemberCheck, Holds
      <4>2. d.member[r.user][r.org] # r.arg /\ (r.arg = "user" => MayLoseAdmin(d, r))
        BY <4>1 DEF Passes
      <4> QED
        BY <3>3, <3>5, <4>2 DEF MayLoseAdmin, BaseRoles
    <3>6. CASE r.op = "deactivate_membership"
      BY <3>2, <3>6 DEF MemberCheck, Holds, Passes
    <3> QED
      BY <2>1, <3>4, <3>5, <3>6
  <2>2. CASE r.op = "reactivate_membership"
    <3>1. Holds(d, r, "membership_has_ended")
      BY <2>2, ReturnPlan
    <3> QED
      BY <3>1 DEF Holds, Passes, MayLoseAdmin
  <2> QED
    BY <2>1, <2>2 DEF MembershipOps
<1> HIDE DEF e, role
<1>5. MemberWritten(d, e, r.user, r.org, role)
  <2>1. \A v \in Users, p \in Orgs :
          [d.member EXCEPT ![r.user][r.org] = role][v][p]
            = IF v = r.user /\ p = r.org THEN role ELSE d.member[v][p]
    BY <1>1, <1>2 DEF MemberRows
  <2> QED
    BY <1>3, <2>1 DEF MemberWritten
<1>6. InCharge(e)
  BY <1>1, <1>3, <1>4, <1>5, RoleInCharge
<1> QED
  BY <1>6 DEF e

\* A new organization has an administrator.
LEMMA CreationInCharge ==
    ASSUME NEW d, Consistent(d), NEW r, RequestOK(r), r.op = "create_organization",
           \A check \in Checks(Plan(r)) : Holds(d, r, check)
    PROVE  InCharge(Outcome(d, r))
<1> DEFINE e == Outcome(d, r)
<1>1. r.user \in Users /\ r.org \in Orgs /\ d \in Rows /\ InCharge(d) /\ d.member \in MemberRows
      /\ d.org \in OrgRows
  BY RowsAreTables DEF RequestOK, Consistent
<1>2. /\ e.platform = d.platform /\ e.account = d.account
      /\ e.org = [d.org EXCEPT ![r.org] = "active"]
      /\ e.member = [d.member EXCEPT ![r.user][r.org] = "admin"]
  BY <1>1 DEF Outcome, OrganizationCreated, Rows
<1>3. Active(d, r.user)
  <2>1. Holds(d, r, "accounts_are_active")
    BY PlatformPlan
  <2> QED
    BY <2>1 DEF Holds, Passes
<1> HIDE DEF e
<1>4. \A o \in Orgs : e.org[o] = IF o = r.org THEN "active" ELSE d.org[o]
  BY <1>1, <1>2 DEF OrgRows
<1>5. MemberWritten(d, e, r.user, r.org, "admin")
  <2>1. "admin" \in Roles
    BY DEF Roles, BaseRoles
  <2> QED
    BY <1>1, <1>2, <2>1, MemberPut DEF MemberWritten
<1>6. \A o \in Orgs : Admins(d, o) \subseteq Admins(e, o)
  BY <1>2, <1>5 DEF Admins, Active, MemberWritten
<1>7. r.user \in Admins(e, r.org)
  BY <1>1, <1>2, <1>3, <1>5 DEF Admins, Active, MemberWritten
<1>8. InCharge(e)
  BY <1>1, <1>2, <1>4, <1>6, <1>7, GrowthInCharge
<1> QED
  BY <1>8 DEF e

\* A platform administrator is made of an administrator of Symgov, and is
\* not the last one when the role ends.
LEMMA PlatformInCharge ==
    ASSUME NEW d, Consistent(d), NEW r, RequestOK(r), r.op \in PlatformOps,
           \A check \in Checks(Plan(r)) : Holds(d, r, check)
    PROVE  InCharge(Outcome(d, r))
<1> DEFINE e == Outcome(d, r)
<1>1. r.user \in Users /\ d \in Rows /\ InCharge(d)
  BY DEF RequestOK, Consistent
<1>2. /\ e.member = d.member /\ e.account = d.account /\ e.org = d.org
      /\ r.op = "assign_platform_admin" => e.platform = d.platform \cup {r.user}
      /\ r.op = "revoke_platform_admin" => e.platform = d.platform \ {r.user}
  BY <1>1 DEF PlatformOps, Outcome, PlatformAdminAssigned, PlatformAdminRevoked, Rows
<1>3. Holds(d, r, "accounts_are_active") /\ Holds(d, r, PlatformCheck(r))
  BY PlatformPlan
<1> HIDE DEF e
<1>4. \A o : Admins(e, o) = Admins(d, o)
  BY <1>2 DEF Admins, Active
<1>5. AdminMinimum(e)
  BY <1>1, <1>2, <1>4 DEF InCharge, AdminMinimum
<1>6. ASSUME r.op = "assign_platform_admin" PROVE InCharge(e)
  <2>1. Active(d, r.user) /\ d.member[r.user][Symgov] = "admin"
    BY <1>3, <1>6 DEF PlatformCheck, Holds, Passes
  <2> QED
    BY <1>1, <1>2, <1>4, <1>5, <1>6, <2>1 DEF InCharge, PlatformRoleEligible, Admins
<1>7. ASSUME r.op = "revoke_platform_admin" PROVE InCharge(e)
  <2>1. EligiblePlatformAdmins(d) \ {r.user} # {}
    BY <1>3, <1>7 DEF PlatformCheck, Holds, Passes
  <2>2. d.platform \ {r.user} # {}
    BY <2>1 DEF EligiblePlatformAdmins
  <2> QED
    BY <1>1, <1>2, <1>4, <1>5, <1>7, <2>2 DEF InCharge, PlatformRoleEligible
<1>8. InCharge(e)
  BY <1>6, <1>7 DEF PlatformOps
<1> QED
  BY <1>8 DEF e

\* The rest changes no role: it may suspend an organization.
LEMMA RestInCharge ==
    ASSUME NEW d, Consistent(d), NEW r, RequestOK(r),
           r.op \in KeyOps \cup {"suspend_organization", "set_subscription", "renew_subscription",
                                 "create_user_session"}
    PROVE  InCharge(Outcome(d, r))
<1> DEFINE e == Outcome(d, r)
<1>1. r.org \in Orgs /\ d \in Rows /\ InCharge(d)
  BY DEF RequestOK, Consistent
<1>2. /\ e.member = d.member /\ e.account = d.account /\ e.platform = d.platform
      /\ \A o \in Orgs : e.org[o] = "active" => d.org[o] = "active"
  <2>1. CASE r.op \in KeyOps
    BY <1>1, <2>1 DEF KeyOps, Outcome, KeyIssued, KeyClaimed, KeyRevoked, Rows
  <2>2. CASE r.op = "suspend_organization"
    BY <1>1, <2>2 DEF Outcome, OrganizationSuspended, Rows
  <2>3. CASE r.op \in {"set_subscription", "renew_subscription", "create_user_session"}
    BY <1>1, <2>3 DEF Outcome, SubscriptionSet, SubscriptionRenewed, SessionCreated, Rows
  <2> QED
    BY <2>1, <2>2, <2>3
<1> HIDE DEF e
<1>3. \A o : Admins(e, o) = Admins(d, o)
  BY <1>2 DEF Admins, Active
<1>4. InCharge(e)
  BY <1>1, <1>2, <1>3, GrowthInCharge
<1> QED
  BY <1>4 DEF e

(* A request that the triggers turn down changes an account, revives an    *)
(* organization or ends a membership again: the checks of every other      *)
(* service leave somebody in charge.                                       *)
THEOREM ServicesRefuseFirst == Spec => []TriggersAreLastResort
<1>1. IInv => TriggersAreLastResort
  <2> SUFFICES ASSUME IInv, NEW p \in Processes, ReadyToCommit(p), ~Accepted(db, tx[p].r)
               PROVE  \/ tx[p].r.op \in AccountOps \cup {"reactivate_organization"}
                      \/ /\ tx[p].r.op = "deactivate_membership"
                         /\ <<tx[p].r.user, tx[p].r.org>> \in db.departed
    BY DEF TriggersAreLastResort
  <2> DEFINE r == tx[p].r
  <2>1. /\ RequestOK(r) /\ Consistent(db)
        /\ \A check \in Checks(Plan(r)) : Holds(db, r, check)
    BY ReadyHolds DEF IInv
  <2>2. ~InCharge(Outcome(db, r)) \/ ~HistoryKept(db, r)
    BY DEF Accepted, InCharge
  <2> HIDE DEF r
  <2>3. CASE ~HistoryKept(db, r)
    BY <2>3 DEF HistoryKept, r
  <2>4. CASE ~InCharge(Outcome(db, r))
    <3>1. r.op \notin PlatformOps /\ r.op # "create_organization"
      BY <2>1, <2>4, PlatformInCharge, CreationInCharge
    <3>2. r.op \notin MembershipOps \ {"create_organization"}
      BY <2>1, <2>4, MembershipInCharge
    <3>3. r.op \notin KeyOps \cup {"suspend_organization", "set_subscription",
                                   "renew_subscription", "create_user_session"}
      BY <2>1, <2>4, RestInCharge
    <3>4. r.op \in AllOps
      BY <2>1 DEF RequestOK
    <3> QED
      BY <3>1, <3>2, <3>3, <3>4 DEF AllOps, CustomerOps, r
  <2> QED
    BY <2>2, <2>3, <2>4
<1> QED
  BY <1>1, InductiveInvariant, PTL

(* An Organization Admin changes the account of nobody who belongs         *)
(* elsewhere when the change commits, whoever is added meanwhile.          *)
THEOREM OwnAccountsOnly == Spec => ManagesOwnAccountsOnly
<1> DEFINE Own(p) ==
             /\ tx[p].r.op = "update_user" /\ tx[p].r.org # Symgov
             /\ db'.account # db.account /\ Idle(p)'
             => {o \in Orgs : Member(db, tx[p].r.user, o)} = {tx[p].r.org}
<1>1. IInv /\ [Next]_vars => [\A p \in Processes : Own(p)]_vars
  <2> SUFFICES ASSUME IInv, Next, NEW p \in Processes,
                      tx[p].r.op = "update_user", tx[p].r.org # Symgov,
                      db'.account # db.account, Idle(p)'
               PROVE  {o \in Orgs : Member(db, tx[p].r.user, o)} = {tx[p].r.org}
    OBVIOUS
  <2>1. PICK q \in Processes : Commit(q)
    <3>1. \A q \in Processes : Request(q) \/ Acquire(q) \/ AbortVictim(q) => db' = db
      BY DEF Request, Acquire, AbortVictim
    <3>2. \A o \in Customers : TermEnds(o) => db'.account = db.account
      BY DEF TermEnds, IInv, Consistent, Rows
    <3> QED
      BY <3>1, <3>2 DEF Next
  <2>2. ~Idle(p)
    BY HeldLocks DEF IInv, Free, NoRequest
  <2>3. q = p
    <3>1. tx' = [tx EXCEPT ![q] = Free]
      BY <2>1 DEF Commit
    <3>2. q # p => tx'[p] = tx[p]
      BY <3>1 DEF IInv
    <3> QED
      BY <2>2, <3>2 DEF Idle, Serving
  <2>4. /\ RequestOK(tx[p].r)
        /\ \A check \in Checks(Plan(tx[p].r)) : Holds(db, tx[p].r, check)
    BY <2>1, <2>3, ReadyHolds DEF Commit
  <2>5. Holds(db, tx[p].r, "account_is_manageable")
    BY <2>4, AccountPlan DEF AccountOps, AccountCheck
  <2> QED
    BY <2>5 DEF Holds
<1>2. Spec => [][Next]_vars
  BY DEF Spec
<1>3. Spec => [][\A p \in Processes : Own(p)]_vars
  BY <1>1, <1>2, InductiveInvariant, PTL
<1> QED
  BY <1>3, PTL DEF ManagesOwnAccountsOnly

=============================================================================
