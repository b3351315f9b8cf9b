--------------------------- MODULE Authentication ---------------------------
(***************************************************************************)
(* Signing in and out (routes/auth.py, auth_security.py, auth.py): the PIN *)
(* check and its throttle, the choice of an organization, the forced       *)
(* change of a PIN, step-up in a session, and the operator's reset.        *)
(*                                                                         *)
(* A request is a READ COMMITTED transaction that locks rows one after     *)
(* another, keeps what it read under each lock (seen) and writes when it   *)
(* commits.  PINs are numbered in the order they are set: a request gives  *)
(* 0 for a PIN that never was the account's.  Time passes between steps:   *)
(* windows and blocks end, challenges and sessions expire.                 *)
(***************************************************************************)
EXTENDS Integers, FiniteSets, Sequences

CONSTANTS
    Users,
    Several,        \* those who belong to more than one organization
    Processes,      \* requests served at the same time
    Operations,     \* the operations requested in this instance
    InitialStates,  \* committed states the requests start from
    AccountLimit, AddressLimit, \* wrong PINs before a block
    MaxAttempts,    \* wrong choices before a challenge is revoked
    MaxPins, MaxSessions, MaxChallenges,    \* rows the instance has room for
    MaxRequests     \* bound on the requests of a behaviour

Address == "address"               \* everyone signs in from one address

ASSUME AuthenticationAssumption ==
    /\ Several \subseteq Users /\ Address \notin Users
    /\ {AccountLimit, AddressLimit, MaxAttempts} \subseteq Nat \ {0}
    /\ {MaxPins, MaxSessions, MaxChallenges, MaxRequests} \subseteq Nat

Sessions == 1..MaxSessions
Challenges == 1..MaxChallenges
None == 0
Scopes == Users \cup {Address}
Limit(b) == IF b = Address THEN AddressLimit ELSE AccountLimit

VARIABLES
    db,         \* the committed rows
    guesses,    \* wrong PINs answered in each scope since its last block or window
    tx,         \* the request each process is serving, and how far it is
    requests    \* requests made so far

vars == <<db, guesses, tx, requests>>

-----------------------------------------------------------------------------
(* The committed rows.  issued_by is the session a challenge was asked for *)
(* in; challenge is the one a session was chosen with; step_up is the PIN  *)
(* a session was last confirmed with.                                      *)
Buckets == [failures : Nat, blocked : BOOLEAN, elapsed : BOOLEAN]
Rows ==
    [accounts : [Users -> [pin : 1..MaxPins, must_change : BOOLEAN, active : BOOLEAN]],
     buckets : [Scopes -> Buckets],
     challenges : [Challenges -> [status : {"none", "open", "consumed", "revoked", "expired"},
                                  user : Users \cup {None}, attempts : 0..MaxAttempts,
                                  issued_by : Sessions \cup {None}]],
     sessions : [Sessions -> [status : {"none", "live", "revoked", "expired"},
                              user : Users \cup {None},
                              purpose : {"none", "application", "credential_change"},
                              step_up : 0..MaxPins, challenge : Challenges \cup {None}]]]

NoBucket == [failures |-> 0, blocked |-> FALSE, elapsed |-> FALSE]
\* A bucket whose window is over starts again, unless its block still lasts.
Current(bucket) == IF bucket.elapsed /\ ~bucket.blocked THEN NoBucket ELSE bucket
Failed(bucket, b) ==
    [bucket EXCEPT !.failures = @ + 1, !.blocked = bucket.failures + 1 >= Limit(b)]

\* The wrong PINs a bucket still stands for: a block that they led to made up for them.
Counted(bucket, b) ==
    IF Current(bucket).failures < Limit(b) THEN Current(bucket).failures ELSE 0

Live(d, u) == {s \in Sessions : d.sessions[s].status = "live" /\ d.sessions[s].user = u}
OpenOf(d, u) ==
    {c \in Challenges : d.challenges[c].status = "open" /\ d.challenges[c].user = u}
FreeIn(ids, rows) == {i \in ids : rows[i].status = "none"}
FirstOf(free) == CHOOSE i \in free : \A j \in free : i <= j

(* What the committed rows obey whatever is being served.                  *)
OwnersKnown(d) ==
    /\ \A s \in Sessions : d.sessions[s].status # "none" => d.sessions[s].user \in Users
    /\ \A c \in Challenges : d.challenges[c].status # "none" => d.challenges[c].user \in Users
AttemptsLeft(d) ==
    \A c \in Challenges : d.challenges[c].status = "open" => d.challenges[c].attempts < MaxAttempts
\* A challenge that let a session in is settled, and let in only that one.
ChallengesSpent(d) ==
    /\ \A s \in Sessions : d.sessions[s].challenge # None =>
            d.challenges[d.sessions[s].challenge].status \notin {"none", "open"}
    /\ \A s, t \in Sessions :
            /\ d.sessions[s].challenge # None
            /\ d.sessions[s].challenge = d.sessions[t].challenge
            => s = t
ChangesFirst(d) ==
    \A s \in Sessions :
        /\ d.sessions[s].status = "live"
        /\ d.sessions[s].purpose = "application"
        => ~d.accounts[d.sessions[s].user].must_change
Consistent(d) ==
    d \in Rows /\ OwnersKnown(d) /\ AttemptsLeft(d) /\ ChallengesSpent(d) /\ ChangesFirst(d)
ASSUME InitialStatesAssumption == \A d \in InitialStates : Consistent(d)

-----------------------------------------------------------------------------
(* The rows a request locks, in order.                                     *)
UserRow(u) == <<"user", u>>
BucketRow(b) == <<"bucket", b>>
SessionRow(s) == <<"session", s>>
ChallengeRow(c) == <<"challenge", c>>
LiveSessions(u) == <<"live_sessions", u>>       \* an UPDATE of each of them
OpenChallenges(u) == <<"open_challenges", u>>

Right(r, seen) == seen.account.active /\ r.pin = seen.account.pin
SignInLocks(u) == <<UserRow(u), BucketRow(u), BucketRow(Address)>>
SelectLocks(r) ==
    <<UserRow(r.user), ChallengeRow(r.challenge)>>
        \o (IF r.choice = "offered" /\ r.session # None THEN <<SessionRow(r.session)>> ELSE << >>)
Plan(r, seen) ==
    CASE r.op = "login" ->
            SignInLocks(r.user)
                \o (IF Right(r, seen) THEN <<OpenChallenges(r.user)>> ELSE << >>)
      [] r.op = "reauthenticate" ->
            SignInLocks(r.user) \o (IF Right(r, seen) THEN <<SessionRow(r.session)>> ELSE << >>)
      [] r.op = "select_organization" -> SelectLocks(r)
      [] r.op = "switch_organization" -> <<OpenChallenges(r.user)>>
      [] r.op = "logout" -> <<OpenChallenges(r.user), SessionRow(r.session)>>
      [] r.op = "change_pin" ->
            <<UserRow(r.user), SessionRow(r.session), OpenChallenges(r.user)>>
      [] r.op \in {"reset_user_pin", "deactivate"} ->
            <<UserRow(r.user), LiveSessions(r.user), OpenChallenges(r.user)>>
      [] r.op = "reactivate" -> <<UserRow(r.user)>>
      [] r.op = "recover_throttle_bucket" -> <<BucketRow(r.user)>>
\* Mutants: accounts, or buckets, are read without FOR UPDATE.
AccountsNotLocked(d, lock) == IF lock[1] = "user" THEN {} ELSE {lock}
BucketsNotLocked(d, lock) == IF lock[1] = "bucket" THEN {} ELSE {lock}
LockedRows(d, lock) ==
    CASE lock[1] = "live_sessions" -> {SessionRow(s) : s \in Live(d, lock[2])}
      [] lock[1] = "open_challenges" -> {ChallengeRow(c) : c \in OpenOf(d, lock[2])}
      [] OTHER -> {lock}

(* What it reads under a lock, and the checks it then makes.               *)
Nothing == [account |-> [pin |-> None, must_change |-> FALSE, active |-> FALSE],
            own |-> NoBucket, address |-> NoBucket, live |-> FALSE, swept |-> {}]
Load(d, r, seen, lock) ==
    CASE lock[1] = "user" -> [seen EXCEPT !.account = d.accounts[lock[2]]]
      [] lock = BucketRow(Address) -> [seen EXCEPT !.address = Current(d.buckets[Address])]
      [] lock[1] = "bucket" /\ lock[2] # Address ->
            [seen EXCEPT !.own = Current(d.buckets[lock[2]])]
      [] lock[1] = "session" -> [seen EXCEPT !.live = d.sessions[lock[2]].status # "revoked"]
      [] lock[1] = "open_challenges" -> [seen EXCEPT !.swept = OpenOf(d, lock[2])]
      [] OTHER -> seen
\* Mutant: a challenge may be used again.
NotRevoked(d, c) == d.challenges[c].status \in {"open", "consumed"}
Usable(d, c) == d.challenges[c].status = "open"
MayChangePin(d, r, seen) ==
    /\ Right(r, seen)
    /\ d.sessions[r.session].status = "live"
    /\ (d.sessions[r.session].purpose = "credential_change") = seen.account.must_change
LockCheck(d, r, seen, lock) ==
    CASE lock[1] = "bucket" /\ r.op # "recover_throttle_bucket" ->
            ~Current(d.buckets[lock[2]]).blocked
      [] lock[1] = "challenge" -> Usable(d, lock[2])
      [] lock[1] = "session" /\ r.op = "change_pin" -> MayChangePin(d, r, seen)
      [] OTHER -> TRUE
\* A throttled address is answered after the account's window was looked at.
Refused(d, r, seen, lock) ==
    IF lock = BucketRow(Address) THEN [d EXCEPT !.buckets[r.user] = seen.own] ELSE d

-----------------------------------------------------------------------------
(* What a request writes.                                                  *)
Revoked(rows, ids) == [i \in DOMAIN rows |-> IF i \in ids THEN [rows[i] EXCEPT !.status = "revoked"]
                                                          ELSE rows[i]]
SessionAdded(d, u, purpose, c) ==
    [d EXCEPT !.sessions[FirstOf(FreeIn(Sessions, d.sessions))] =
        [status |-> "live", user |-> u, purpose |-> purpose, step_up |-> None, challenge |-> c]]
ChallengeAdded(d, u, s) ==
    [d EXCEPT !.challenges[FirstOf(FreeIn(Challenges, d.challenges))] =
        [status |-> "open", user |-> u, attempts |-> 0, issued_by |-> s]]
ContextIssued(d, u) ==
    IF u \in Several THEN ChallengeAdded(d, u, None) ELSE SessionAdded(d, u, "application", None)

SignedIn(d, r, seen) ==
    LET checked == [d EXCEPT !.buckets[r.user] = NoBucket, !.buckets[Address] = seen.address,
                             !.challenges = Revoked(@, seen.swept)]
    IN  IF seen.account.must_change THEN SessionAdded(checked, r.user, "credential_change", None)
                                    ELSE ContextIssued(checked, r.user)
SignInFailed(d, r, seen) ==
    [d EXCEPT !.buckets[r.user] = Failed(seen.own, r.user),
              !.buckets[Address] = Failed(seen.address, Address)]
Confirmed(d, r, seen) ==
    [d EXCEPT !.buckets[r.user] = NoBucket, !.buckets[Address] = seen.address,
              !.sessions[r.session].step_up = IF seen.live THEN r.pin ELSE @]

\* Mutant: a session is created whatever the account must do first.
Always(account) == TRUE
\* create_user_session refuses an application session before the PIN is changed.
MayHaveSession(account) == ~account.must_change
Selected(d, r, seen) ==
    IF ~MayHaveSession(seen.account) THEN d
    ELSE LET left == IF r.session # None /\ seen.live THEN {r.session} ELSE {}
         IN  SessionAdded([d EXCEPT !.challenges[r.challenge].status = "consumed",
                                    !.sessions = Revoked(@, left)],
                          r.user, "application", r.challenge)
\* Mutant: the last attempt does not revoke the challenge.
NeverExhausted(d, r) == [d EXCEPT !.challenges[r.challenge].attempts = @ + 1]
WronglyChosen(d, r) ==
    [d EXCEPT !.challenges[r.challenge].attempts = @ + 1,
              !.challenges[r.challenge].status =
                  IF d.challenges[r.challenge].attempts + 1 = MaxAttempts THEN "revoked" ELSE @]
SelectionMade(d, r, seen) ==
    CASE r.choice = "not_offered" -> WronglyChosen(d, r)
      [] r.choice = "offered" /\ seen.account.active -> Selected(d, r, seen)
      [] OTHER -> [d EXCEPT !.challenges[r.challenge].status = "revoked"]

SwitchOffered(d, r, seen) ==
    ChallengeAdded([d EXCEPT !.challenges = Revoked(@, seen.swept)], r.user, r.session)
SignedOut(d, r, seen) ==
    [d EXCEPT !.sessions = Revoked(@, {r.session}), !.challenges = Revoked(@, seen.swept)]
PinChanged(d, r, seen) ==
    LET changed == [d EXCEPT !.accounts[r.user].pin = @ + 1,
                             !.accounts[r.user].must_change = FALSE,
                             !.sessions[r.session].step_up = None,
                             !.challenges = Revoked(@, seen.swept)]
    IN  IF d.sessions[r.session].purpose = "application" THEN changed
        ELSE ContextIssued([changed EXCEPT !.sessions = Revoked(@, {r.session})], r.user)
AllRevoked(d, r, seen) ==
    [d EXCEPT !.sessions = Revoked(@, Live(d, r.user)), !.challenges = Revoked(@, seen.swept)]
PinReset(d, r, seen) ==
    [AllRevoked(d, r, seen) EXCEPT !.accounts[r.user].pin = @ + 1,
                                   !.accounts[r.user].must_change = TRUE]
Deactivated(d, r, seen) ==
    [(IF seen.account.active THEN AllRevoked(d, r, seen) ELSE d)
        EXCEPT !.accounts[r.user].active = FALSE]

Outcome(d, r, seen) ==
    CASE r.op = "login" -> IF Right(r, seen) THEN SignedIn(d, r, seen) ELSE SignInFailed(d, r, seen)
      [] r.op = "reauthenticate" ->
            IF Right(r, seen) THEN Confirmed(d, r, seen) ELSE SignInFailed(d, r, seen)
      [] r.op = "select_organization" -> SelectionMade(d, r, seen)
      [] r.op = "switch_organization" -> SwitchOffered(d, r, seen)
      [] r.op = "logout" -> SignedOut(d, r, seen)
      [] r.op = "change_pin" -> PinChanged(d, r, seen)
      [] r.op = "reset_user_pin" -> PinReset(d, r, seen)
      [] r.op = "deactivate" -> Deactivated(d, r, seen)
      [] r.op = "reactivate" -> [d EXCEPT !.accounts[r.user].active = TRUE]
      [] r.op = "recover_throttle_bucket" -> [d EXCEPT !.buckets[r.user] = NoBucket]

\* A wrong PIN is one more guess in both scopes; a right one and a recovery
\* forget those of the bucket they delete.
Guessed(r, seen) ==
    CASE r.op \in {"login", "reauthenticate"} /\ ~Right(r, seen) ->
            [guesses EXCEPT ![r.user] = @ + 1, ![Address] = @ + 1]
      [] r.op \in {"login", "reauthenticate"} /\ Right(r, seen) -> [guesses EXCEPT ![r.user] = 0]
      [] r.op = "recover_throttle_bucket" -> [guesses EXCEPT ![r.user] = 0]
      [] OTHER -> guesses

-----------------------------------------------------------------------------
(* The requests that may be made of the rows as they are.                  *)
Made(op, user, session, challenge, pin, chosen) ==
    [op |-> op, user |-> user, session |-> session, challenge |-> challenge,
     pin |-> pin, choice |-> chosen]
PinsGiven(d, u) == {0, d.accounts[u].pin}
LiveIn(d) == {s \in Sessions : d.sessions[s].status = "live" /\ d.accounts[d.sessions[s].user].active}
MaySwitch(d, s) ==
    /\ d.sessions[s].purpose = "application"
    /\ d.sessions[s].user \in Several
    /\ ~d.accounts[d.sessions[s].user].must_change
OfUser(op, u) == Made(op, u, None, None, 0, "none")
InSession(d, op, s, pin) == Made(op, d.sessions[s].user, s, None, pin, "none")
WithPin(d, s) ==
    {InSession(d, op, s, pin) :
        op \in {"reauthenticate", "change_pin"}, pin \in PinsGiven(d, d.sessions[s].user)}
Selections(d, c) ==
    {Made("select_organization", d.challenges[c].user, s, c, 0, chosen) :
        s \in {None} \cup Live(d, d.challenges[c].user),
        chosen \in {"offered", "not_offered", "ineligible"}}
Requestable(d) ==
    (UNION {{Made("login", u, None, None, pin, "none") : pin \in PinsGiven(d, u)} : u \in Users})
    \cup {InSession(d, "logout", s, 0) : s \in LiveIn(d)}
    \cup {InSession(d, "switch_organization", s, 0) : s \in {t \in LiveIn(d) : MaySwitch(d, t)}}
    \cup (UNION {WithPin(d, s) : s \in LiveIn(d)})
    \cup (UNION {Selections(d, c) : c \in Challenges \ FreeIn(Challenges, d.challenges)})
    \cup {OfUser(op, u) : u \in Users, op \in {"reset_user_pin", "deactivate", "reactivate"}}
    \cup {OfUser("recover_throttle_bucket", b) : b \in {c \in Scopes : d.buckets[c].failures > 0}}

\* Bound on the rows and the PINs of the instance.
RoomFor(d, r) ==
    /\ FreeIn(Sessions, d.sessions) # {} /\ FreeIn(Challenges, d.challenges) # {}
    /\ r.op \in {"change_pin", "reset_user_pin"} => d.accounts[r.user].pin < MaxPins

-----------------------------------------------------------------------------
Idle == [op |-> "idle"]
Free == [request |-> Idle, taken |-> 0, locks |-> {}, seen |-> Nothing]
Busy(p) == tx[p].request # Idle
PlanOf(p) == Plan(tx[p].request, tx[p].seen)
NextLock(p) == PlanOf(p)[tx[p].taken + 1]
Excluded(p, rows) == \E p2 \in Processes \ {p} : rows \cap tx[p2].locks # {}

Init ==
    /\ db \in InitialStates
    /\ guesses = [b \in Scopes |-> Counted(db.buckets[b], b)]
    /\ tx = [p \in Processes |-> Free]
    /\ requests = 0

Request(p) ==
    /\ ~Busy(p)
    /\ requests < MaxRequests
    /\ requests' = requests + 1
    /\ \E r \in Requestable(db) :
        /\ r.op \in Operations
        /\ tx' = [tx EXCEPT ![p].request = r]
    /\ UNCHANGED <<db, guesses>>

Acquire(p) ==
    /\ Busy(p) /\ tx[p].taken < Len(PlanOf(p))
    /\ ~Excluded(p, LockedRows(db, NextLock(p)))
    /\ LET r == tx[p].request
           seen == Load(db, r, tx[p].seen, NextLock(p))
       IN  IF LockCheck(db, r, seen, NextLock(p))
           THEN /\ tx' = [tx EXCEPT ![p].taken = @ + 1,
                                    ![p].locks = @ \cup LockedRows(db, NextLock(p)),
                                    ![p].seen = seen]
                /\ UNCHANGED db
           ELSE /\ tx' = [tx EXCEPT ![p] = Free]
                /\ db' = Refused(db, r, seen, NextLock(p))
    /\ UNCHANGED <<guesses, requests>>

\* The new challenge of a switch refers to the account: the insert waits for its row.
Unhindered(p) ==
    tx[p].request.op = "switch_organization" => ~Excluded(p, {UserRow(tx[p].request.user)})

Commit(p) ==
    /\ Busy(p) /\ tx[p].taken = Len(PlanOf(p)) /\ Unhindered(p)
    /\ LET r == tx[p].request
       IN  /\ RoomFor(db, r)
           /\ db' = Outcome(db, r, tx[p].seen)
           /\ guesses' = Guessed(r, tx[p].seen)
    /\ tx' = [tx EXCEPT ![p] = Free]
    /\ UNCHANGED requests

\* The request fails: a lost connection, a crash, a deadlock.  It rolls back.
Abort(p) ==
    /\ Busy(p)
    /\ tx' = [tx EXCEPT ![p] = Free]
    /\ UNCHANGED <<db, guesses, requests>>

\* A request goes by the time at which it started: no window or block ends for it
\* while it holds the bucket's row.
InUse(b) == \E p \in Processes : BucketRow(b) \in tx[p].locks
\* The counting window of a bucket ends; its block may outlast it.
WindowPasses(b) ==
    /\ db.buckets[b].failures > 0 /\ ~db.buckets[b].elapsed /\ ~InUse(b)
    /\ db' = [db EXCEPT !.buckets[b].elapsed = TRUE]
    /\ guesses' = IF db.buckets[b].blocked THEN guesses ELSE [guesses EXCEPT ![b] = 0]
    /\ UNCHANGED <<tx, requests>>
BlockEnds(b) ==
    /\ db.buckets[b].blocked /\ ~InUse(b)
    /\ db' = [db EXCEPT !.buckets[b].blocked = FALSE]
    /\ guesses' = [guesses EXCEPT ![b] = 0]
    /\ UNCHANGED <<tx, requests>>
ChallengeExpires(c) ==
    /\ db.challenges[c].status = "open"
    /\ db' = [db EXCEPT !.challenges[c].status = "expired"]
    /\ UNCHANGED <<guesses, tx, requests>>
SessionExpires(s) ==
    /\ db.sessions[s].status = "live"
    /\ db' = [db EXCEPT !.sessions[s].status = "expired"]
    /\ UNCHANGED <<guesses, tx, requests>>

Next ==
    \/ \E p \in Processes : Request(p) \/ Acquire(p) \/ Commit(p) \/ Abort(p)
    \/ \E b \in Scopes : WindowPasses(b) \/ BlockEnds(b)
    \/ \E c \in Challenges : ChallengeExpires(c)
    \/ \E s \in Sessions : SessionExpires(s)

Spec == Init /\ [][Next]_vars

-----------------------------------------------------------------------------
TypeOK ==
    /\ db \in Rows
    /\ guesses \in [Scopes -> Nat]
    /\ requests \in 0..MaxRequests
    /\ \A p \in Processes :
        Busy(p) => tx[p].request.op \in Operations /\ tx[p].taken \in 0..Len(PlanOf(p))

\* However many sign-ins are checked at once, under one account or from one address
\* under several, no more wrong PINs are answered than the limit before a block.
GuessesBounded == \A b \in Scopes : guesses[b] <= Limit(b)

\* A challenge lets one session in: of the selections made with it, one wins.
OneSessionPerChallenge == ChallengesSpent(db)

\* While an account must change its PIN, nobody has it open in the application: no
\* session survives the reset, and none is made from a challenge that does.
PinChangeComesFirst == ChangesFirst(db)

\* A session is confirmed with the PIN in force at that moment, never with one that
\* was changed while the request was being served.
StepUpKnowsPin ==
    [][\A s \in Sessions :
        db'.sessions[s].step_up \notin {None, db.sessions[s].step_up}
        => db'.sessions[s].step_up = db.accounts[db.sessions[s].user].pin]_vars
=============================================================================
